SPECIFICATION Spec
CONSTANTS
  OutCalls = {a, b}
  InCalls = {c}
  Outs = {o, p}
  MaxCalls = 2
  FailCodes <- OnlyBusy
  Careful = FALSE
  None = None
SYMMETRY Symmetry
CHECK_DEADLOCK FALSE
PROPERTIES IsCallLine

SPECIFICATION Spec
CONSTANTS
  OutCalls = {a}
  InCalls = {c}
  Outs = {o}
  MaxCalls = 1
  FailCodes <- OnlyBusy
  Careful = TRUE
  None = None
CHECK_DEADLOCK FALSE
PROPERTIES CallPlacedMeansCall

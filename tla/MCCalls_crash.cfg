SPECIFICATION Spec
CONSTANTS
  OutCalls = {a}
  InCalls = {c}
  Outs = {o}
  MaxCalls = 2
  FailCodes <- OnlyBusy
  Careful = TRUE
  None = None
CHECK_DEADLOCK FALSE
INVARIANTS NeverCrashes

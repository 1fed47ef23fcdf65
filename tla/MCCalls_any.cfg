SPECIFICATION Spec
CONSTANTS
  OutCalls = {a}
  InCalls = {b, c}
  Outs = {o, p}
  MaxCalls = 2
  FailCodes <- OnlyBusy
  Careful = FALSE
  None = None
SYMMETRY Symmetry
CHECK_DEADLOCK FALSE
INVARIANTS TypeOK IncomingListIsLive OneIncoming

SPECIFICATION FairSpec
CONSTANTS
  OutCalls = {a, b}
  InCalls = {c}
  Outs = {o, p}
  MaxCalls = 2
  FailCodes <- MCFailCodes
  Careful = TRUE
  None = None
CHECK_DEADLOCK FALSE
INVARIANTS OutgoingListIsLive
PROPERTIES HangupEnds

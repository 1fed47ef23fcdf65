\* One call: the callbacks, its timer and two clients' readers, over a network that works
\* or one that fails.
CONSTANTS
  OutCalls = {o1}
  InCalls = {}
  Clients = {w1, w2}
  MaxReports = 1
  MaxFeedbacks = 0
  Networks = {TRUE, FALSE}
  RtpFlags = {TRUE, FALSE}
  Ends = {"Hangup", "Rejected", "Invalid"}
  Main = main
  Http = http
  None = None
SPECIFICATION FairSpec
INVARIANTS TypeOK InOrder
PROPERTIES LossOnlyByRace Delivered
\* The call may be over, and the bounds reached.
CHECK_DEADLOCK FALSE

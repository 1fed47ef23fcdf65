\* Two incoming calls, one after the other, the second begun or not while the end of the
\* first is worked off, with a report of a timer or a feedback.
CONSTANTS
  OutCalls = {}
  InCalls = {i1, i2}
  Clients = {w1}
  MaxReports = 1
  MaxFeedbacks = 1
  Networks = {FALSE}
  RtpFlags = {TRUE}
  Ends = {"Hangup", "Rejected"}
  Main = main
  Http = http
  None = None
SPECIFICATION Spec
SYMMETRY InCallsAlike
INVARIANTS HangupStopsTimer EventsAreOwn
\* The calls may all be over, and the bounds reached.
CHECK_DEADLOCK FALSE

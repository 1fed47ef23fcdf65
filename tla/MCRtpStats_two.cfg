\* Two calls, one after the other or at the same time; each behaviour follows one aspect.
SPECIFICATION Spec
CONSTANTS
  Calls = {c1, c2}
  Period = 1
  MaxPackets = 3
  Watched = {"figures", "level", "metric", "packectloss_local"}
  None = None
INVARIANTS TypeOK ReceivedAddUp SentNeverTwice LevelIsNumber AlertStands
SYMMETRY CallSymmetry
\* The calls and the packets are used up in the end.
CHECK_DEADLOCK FALSE

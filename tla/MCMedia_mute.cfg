SPECIFICATION Spec
CONSTANTS
  Outs = {o1}
  Ins = {i1}
  Slots = {s1, s2}
  OneAtATime = TRUE
  None = None
PROPERTY UnholdKeepsMute

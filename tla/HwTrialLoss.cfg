SPECIFICATION Spec
CONSTANTS
  HeaderBytes = 2
  ProbeDepth = 4
  None = None
  Stray = Stray
  Size = 2
  Count = 3
  MaxGap = 1
  Room = 1
  Strays = 0
  Resets = 0
  Hurried = FALSE
INVARIANT EveryPairOwn

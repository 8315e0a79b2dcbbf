SPECIFICATION FairSpec
CONSTANTS
  HeaderBytes = 2
  ProbeDepth = 2
  None = None
  Stray = Stray
  Size = 2
  Count = 2
  MaxGap = 4
  Room = 1
  Strays = 1
  Resets = 1
  Hurried = TRUE
INVARIANTS
  LosslessMeansOwn
  SearchTight
PROPERTY SearchEnds

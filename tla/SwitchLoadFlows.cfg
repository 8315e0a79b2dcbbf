SPECIFICATION FairSpec
CONSTANTS
  NIn = 2
  NOut = 2
  None = None
  FrameLen = 2
PROPERTY EveryFlowServed

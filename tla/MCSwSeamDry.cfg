SPECIFICATION Spec
CONSTANTS
  NIn = 2
  NOut = 2
  None = None
  VoqDepth = 4
  MaxFrame = 2
  CountMod = 1
  Flows <- ThreeFlows
  MaxInside = 3
PROPERTY AvailableUntilEnd

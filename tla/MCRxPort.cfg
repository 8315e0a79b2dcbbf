SPECIFICATION Spec
CONSTANTS
  Byte = {0, 1}
  Dest = {"d0"}
  MacBytes = 2
  Table <- OneEntry
  BufDepth = 4
  MetaDepth = 4
  CountMod = 2
  None = None
  Payload = {0}
  MaxBytes = 5
  MaxErrors = 1
  ElasticDepth = 2
  VerdictDepth = 4
INVARIANTS
  OwnVerdict
  VerdictRoom
  RetiredInOrder
  IdleIsEnough
  NothingLeft

SPECIFICATION FairSpec
CONSTANTS
  Byte = {0, 1}
  Dest = {"d0", "d1"}
  MacBytes = 2
  Table <- TwoEntries
  BufDepth = 5
  MetaDepth = 5
  CountMod = 3
  None = None
  Pad = 0
INVARIANTS
  BufferRoom
  QueueRoom
  ShowsDue
  MissesCounted
PROPERTIES
  Delivers
  ReadyAgain

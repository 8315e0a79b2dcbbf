SPECIFICATION FairSpec
CONSTANTS
  NumRw = 2
  CmdRead = 6
  CmdWrite = 7
  WriteAck = 5
  NumBytes = 2
  Address = {0, 1, 2}
  Word <- Words
  Faults = 1
INVARIANTS
  ReadExact
  AckedInForce
  OneAnswer
PROPERTIES
  OnlyWritten
  Resyncs

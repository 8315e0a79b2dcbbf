SPECIFICATION Spec
CONSTANTS
  d0 = d0
  d1 = d1
  Out = {d0, d1}
  VoqDepth = 4
  MaxFrame = 2
  CountMod = 3
  None = None
INVARIANTS
  TypeOK
  Reservation
  DropsCounted
  WholeFrames
  NoStrandedBeat
PROPERTY RequestsHold

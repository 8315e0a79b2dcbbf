SPECIFICATION Spec
CONSTANTS
  a = a
  b = b
  Data = {a, b}
  Zero = a
  Depth = 4
INVARIANT FlagsExact
PROPERTY RefinesQueue

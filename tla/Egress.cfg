SPECIFICATION FairEgress
CONSTANTS
  a = a
  b = b
  Data = {a, b}
  Zero = a
  Depth = 5
  None = None
INVARIANTS
  Conservation
  NoOverflow
PROPERTIES
  RefinesLink
  LinkDelivers

SPECIFICATION Spec
CONSTANTS
  Host = {h1}
  Server = {s1}
  Name = {n1, n2, n3}
  Address = {a1}
  Broken = Broken
  None = None
  Zones <- OneAddressZones
  MaxDepth = 2
  Slot = {1}
SYMMETRY Symmetry
INVARIANTS
  WalkAgrees
  CachedWasServed
  ReportsAgree

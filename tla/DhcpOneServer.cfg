SPECIFICATION Spec
CONSTANTS
  c1 = c1
  c2 = c2
  c3 = c3
  s1 = s1
  s2 = s2
  None = None
  Client = {c1, c2, c3}
  Server = {s1}
  Pools <- OneServer
  RangeLimit = 2
  HopLimit = 5
INVARIANTS
  LeasesInjective
PROPERTIES
  LeaseStable
  SameAddressBack
  CommandEnds

SPECIFICATION Spec
CONSTANTS
  c1 = c1
  c2 = c2
  s1 = s1
  s2 = s2
  None = None
  Client = {c1, c2}
  Server = {s1, s2}
  Pools <- TwoServers
  RangeLimit = 4096
  HopLimit = 7
INVARIANTS
  AckConfirmsRequest
  AddressBacked
  AddressesUnique
PROPERTIES
  ImplementsContract

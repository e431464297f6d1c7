SPECIFICATION Spec
CONSTANTS
  c1 = c1
  c2 = c2
  srv = srv
  i1 = i1
  i2 = i2
  None = None
  Client = {c1, c2}
  DhcpServer = srv
  ServerPool <- OneAddress
  RangeLimit = 4096
  Typed = {9}
  Slot = {i1, i2}
  Habits = {{"test"}}
SYMMETRY Symmetry
INVARIANTS
  AddressesUnique

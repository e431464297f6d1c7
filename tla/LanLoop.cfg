SPECIFICATION Spec
CONSTANTS
  h1 = h1
  h2 = h2
  h3 = h3
  s1 = s1
  s2 = s2
  None = None
  Host = {h1, h2}
  Switch = {s1, s2}
  Ports <- TwoSwitches
  Cable <- LoopCables
  Ip = {"ip1", "ip2"}
  Addressings <- TwoAddressed
  HopLimit = 12
  Count = 2
  Edits = {"address"}
INVARIANTS
  NestingBounded
  EchoHonest
PROPERTIES
  CommandEnds

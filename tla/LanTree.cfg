SPECIFICATION Spec
CONSTANTS
  h1 = h1
  h2 = h2
  h3 = h3
  s1 = s1
  s2 = s2
  None = None
  Host = {h1, h2, h3}
  Switch = {s1, s2}
  Ports <- TwoSwitches
  Cable <- MovingCables
  Ip = {"ip1", "ip2"}
  Addressings <- PairsAddressed
  HopLimit = 500
  Count = 2
  Edits = {"arp", "mac", "cable"}
INVARIANTS
  RepliesAreFresh
  StormMeansLoop
  ArpTableTruthful
  PingTellsTruth
PROPERTIES
  LearnsTruth

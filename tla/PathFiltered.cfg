SPECIFICATION Spec
CONSTANTS
  pc = pc
  pc2 = pc2
  srv = srv
  r1 = r1
  r2 = r2
  fw = fw
  None = None
  Host = {pc, pc2, srv}
  Router = {r1, r2}
  Firewall = {fw}
  Iface <- Ifaces
  Owner <- OwnerOf
  WireOf <- Wires
  AddrOf <- Named
  SubnetOf <- Subnets
  Wire = {"A", "B", "C", "D", "E"}
  Addr <- Addresses
  Net = {"lan", "lan2", "isp", "site", "all"}
  Members <- AddressesIn
  Length <- PrefixLength
  Joins <- FirewallWires
  Worlds <- Configurations
  Commands <- Typed
  DefaultTtl = 64
  HopLimit = 500
  PingCount = 10
  TraceHops = 12
  ClientPort = 49152
INVARIANT FilteredMeansLost

----------------------------- MODULE MCPathTruth -----------------------------
(***************************************************************************)
(* Two PCs behind router r1, one of them behind a firewall too; r1 reaches *)
(* router r2 and the server behind it over its outside interface:          *)
(*                                                                         *)
(*    pc --A-- [fw] --B-- r1 --C-- r2 --D-- srv                            *)
(*                  pc2 --E--/                                             *)
(***************************************************************************)
EXTENDS PathTruth, TLC

CONSTANTS pc, pc2, srv, r1, r2, fw

Wiring ==
  ("pc"  :> [owner |-> pc,  wire |-> "A", net |-> "lan"])  @@
  ("in1" :> [owner |-> r1,  wire |-> "B", net |-> "lan"])  @@
  ("pc2" :> [owner |-> pc2, wire |-> "E", net |-> "lan2"]) @@
  ("in2" :> [owner |-> r1,  wire |-> "E", net |-> "lan2"]) @@
  ("out" :> [owner |-> r1,  wire |-> "C", net |-> "isp"])  @@
  ("up"  :> [owner |-> r2,  wire |-> "C", net |-> "isp"])  @@
  ("in3" :> [owner |-> r2,  wire |-> "D", net |-> "site"]) @@
  ("srv" :> [owner |-> srv, wire |-> "D", net |-> "site"])
Ifaces == DOMAIN Wiring
OwnerOf == [i \in Ifaces |-> Wiring[i].owner]
Wires == [i \in Ifaces |-> Wiring[i].wire]
Named == [i \in Ifaces |-> i]
Subnets == [i \in Ifaces |-> Wiring[i].net]

(* "gone" is an address on the site's network that nothing holds, "far"    *)
(* one of no network here.                                                 *)
Addresses == Ifaces \cup {"gone", "far"}
In(net) == {i \in Ifaces : Wiring[i].net = net}
AddressesIn == [n \in {"lan", "lan2", "isp", "site", "all"} |->
  CASE n = "all" -> Addresses [] n = "site" -> In(n) \cup {"gone"} [] OTHER -> In(n)]
PrefixLength == [n \in DOMAIN AddressesIn |->
  CASE n = "all" -> 0 [] n = "isp" -> 30 [] OTHER -> 24]
FirewallWires == [f \in {fw} |-> {"A", "B"}]

Route(net, via) == [net |-> net, via |-> via]
(* No way back from the ISP, the two LANs known to it, a loop of defaults, *)
(* the server taken for a router, and r1 without a default route.          *)
StaticRoutes ==
  {(r1 :> <<Route("all", "up")>>) @@ (r2 :> <<>>),
   (r1 :> <<Route("all", "up")>>) @@ (r2 :> <<Route("lan", "out"), Route("lan2", "out")>>),
   (r1 :> <<Route("all", "up")>>) @@ (r2 :> <<Route("all", "out")>>),
   (r1 :> <<Route("all", "up")>>) @@ (r2 :> <<Route("lan", "out"), Route("lan2", "srv")>>),
   (r1 :> <<>>) @@ (r2 :> <<Route("lan", "out")>>)}

RuleOf(allow, protocol, port, source, destination) ==
  [allow |-> allow, protocol |-> protocol, port |-> port, source |-> source,
   destination |-> destination]
(* Nothing but web traffic from the LAN; no web; no pings to the LAN. *)
RuleLists ==
  {[rules |-> <<RuleOf(TRUE, "TCP", 80, "lan", "all")>>, policy |-> FALSE],
   [rules |-> <<RuleOf(FALSE, "any", 80, "all", "all"), RuleOf(TRUE, "TCP", 80, "lan", "all")>>,
    policy |-> TRUE],
   [rules |-> <<RuleOf(FALSE, "ICMP", None, "all", "lan")>>, policy |-> TRUE]}

Configurations ==
  {[gateway |-> (pc :> "in1") @@ (pc2 :> "in2") @@ (srv :> g),
    statics |-> s,
    nat |-> (r1 :> n) @@ (r2 :> None),
    rules |-> (fw :> l.rules), policy |-> (fw :> l.policy),
    services |-> v] :
     g \in {"in3", None}, s \in StaticRoutes, n \in {"out", None}, l \in RuleLists,
     v \in {{<<srv, "TCP", 80>>}, {<<srv, "UDP", 80>>, <<pc, "TCP", 80>>}}}

Typed ==
  {c \in [tool : {"ping", "trace", "tcp", "udp"}, at : {pc, pc2, srv, r1},
          target : {"srv", "pc", "pc2", "out", "in1", "gone", "far"}, port : {80}] :
     /\ c.target \notin AddressesOf(c.at)
     /\ c.tool \in {"tcp", "udp"} => c.at # r1}
===============================================================================

-------------------------------- MODULE Routing --------------------------------
(***************************************************************************)
(* How a packet finds its next hop: the routing table of a router          *)
(* (routing/table.py, built by loader.py), the choice between its own      *)
(* subnet and the default gateway that a host makes (devices/host.py), and *)
(* the device that answers the ARP question for that next hop.             *)
(*                                                                         *)
(* The configuration the user edits is a record w:                         *)
(*   gateway  the default gateway of each host,                            *)
(*   statics  the routes of each router, its default route last,           *)
(*   nat      the outside interface of each router that translates,        *)
(*   rules, policy  the rule list and default policy of each firewall,     *)
(*   services the <<host, protocol, port>> that are enabled.               *)
(* A wire is a cable with the switches on it.  A firewall joins two wires  *)
(* of one subnet and lets every ARP frame through.                         *)
(***************************************************************************)
EXTENDS Integers, Sequences, FiniteSets

CONSTANTS
  Host, Router, Firewall, None,
  Iface,       \* the enabled interfaces of hosts and routers, with
  Owner,       \*   their device,
  WireOf,      \*   the wire they are cabled to,
  AddrOf,      \*   their address,
  SubnetOf,    \*   and the network it is in
  Wire, Addr,
  Net, Members, Length,  \* a network: the addresses in it, its prefix length
  Joins        \* Joins[f]: the two wires of firewall f

Device == Host \cup Router
AddressesOf(d) == {AddrOf[i] : i \in {j \in Iface : Owner[j] = d}}

ASSUME DevicesAssumption ==
  /\ Host \cap Router = {}
  /\ Owner \in [Iface -> Device]
  /\ WireOf \in [Iface -> Wire]
  /\ AddrOf \in [Iface -> Addr]
  /\ SubnetOf \in [Iface -> Net]
ASSUME NoneAssumption == None \notin Addr \cup Iface
(* Two interfaces with one address are a configuration error, which        *)
(* validation.py reports; the model leaves them out.                       *)
ASSUME AddressesDistinct ==
  \A i, j \in Iface : AddrOf[i] = AddrOf[j] => i = j
ASSUME NetsAssumption ==
  Members \in [Net -> SUBSET Addr] /\ Length \in [Net -> 0 .. 32]
ASSUME JoinsAssumption == Joins \in [Firewall -> SUBSET Wire]

Hop == [out : Iface, via : Addr]

-------------------------------------------------------------------------------
(* Router.routing_table: a connected route per interface, then the static  *)
(* ones whose gateway is on a connected subnet.                            *)
Connected(r) ==
  {[net |-> SubnetOf[i], out |-> i, via |-> None, rank |-> 0, len |-> Length[SubnetOf[i]]] :
     i \in {j \in Iface : Owner[j] = r}}

Reaching(r, a) == {i \in Iface : Owner[i] = r /\ a \in Members[SubnetOf[i]]}

Static(w, r) ==
  UNION {{[net |-> w.statics[r][n].net, out |-> i, via |-> w.statics[r][n].via,
           rank |-> n, len |-> Length[w.statics[r][n].net]] :
            i \in Reaching(r, w.statics[r][n].via)} : n \in DOMAIN w.statics[r]}

Routes(w, r) == Connected(r) \cup Static(w, r)

(* RoutingTable.lookup: the longest prefix, then the first inserted. *)
Lookup(w, r, a) ==
  LET candidates == {t \in Routes(w, r) : a \in Members[t.net]}
      longest == {t \in candidates : \A u \in candidates : t.len >= u.len}
  IN {t \in longest : \A u \in longest : t.rank <= u.rank}

RouterHops(w, r, a) ==
  {[out |-> t.out, via |-> IF t.via = None THEN a ELSE t.via] : t \in Lookup(w, r, a)}

(* Host.next_hop_for: straight there on a subnet of its own, else by the   *)
(* default gateway, if that is on one of them.                             *)
HostHops(w, h, a) ==
  IF Reaching(h, a) # {}
    THEN {[out |-> i, via |-> a] : i \in Reaching(h, a)}
    ELSE IF w.gateway[h] = None THEN {}
         ELSE {[out |-> i, via |-> w.gateway[h]] : i \in Reaching(h, w.gateway[h])}

Hops(w, d, a) == IF d \in Host THEN HostHops(w, d, a) ELSE RouterHops(w, d, a)

(* SimulationEngine.resolve_arp: the interface on the same wire, or beyond *)
(* a firewall on it, that answers for an address.  None if it is empty.    *)
Lan(p) == {p} \cup UNION {Joins[f] : f \in {g \in Firewall : p \in Joins[g]}}
Holders(hop) ==
  {j \in Iface \ {hop.out} : AddrOf[j] = hop.via /\ WireOf[j] \in Lan(WireOf[hop.out])}

-------------------------------------------------------------------------------
(* The devices a packet for a visits: Walk(w, d, a, n)[k] after k hops.    *)
NextDevices(w, d, a) ==
  IF a \in AddressesOf(d) THEN {}
  ELSE {Owner[j] : j \in UNION {Holders(hop) : hop \in Hops(w, d, a)}}

Walk(w, d, a, n) ==
  LET W[k \in 0 .. n] ==
        IF k = 0 THEN {d} ELSE UNION {NextDevices(w, e, a) : e \in W[k - 1]}
  IN W

(* A packet for a from some device is still on its way after as many hops  *)
(* as there are devices: it goes in circles.                               *)
GoesInCircles(w, a) ==
  LET n == Cardinality(Device)
  IN \E d \in Device : Walk(w, d, a, n)[n] # {}
===============================================================================

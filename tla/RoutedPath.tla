------------------------------- MODULE RoutedPath -------------------------------
(***************************************************************************)
(* What one command sends across the network: ping, traceroute and         *)
(* connect (commands/ping.py, commands/tools.py, connectivity.py) over     *)
(* routers that forward and translate (devices/router.py), stateful        *)
(* firewalls (devices/firewall.py) and the hosts that answer               *)
(* (devices/host.py).                                                      *)
(*                                                                         *)
(* A command runs on a network built for it and thrown away after it       *)
(* (runner.py), so every table starts empty.  Each device answers a packet *)
(* with at most one packet, so the queue of engine.run never holds more    *)
(* than one: it is the set `wire`.  The ARP exchanges are taken as done:   *)
(* EthernetLan models them, with the frames they cost.                     *)
(***************************************************************************)
EXTENDS Routing

CONSTANTS
  Worlds,        \* the configurations the user may have drawn
  Commands,      \* the commands the user may type
  DefaultTtl,    \* ipv4/packet.py
  HopLimit,      \* SimulationEngine.hop_limit
  PingCount,     \* ping -n
  TraceHops,     \* MAX_TRACEROUTE_HOPS
  ClientPort     \* next_ephemeral_port: a command opens one connection

Icmp == {"echo", "reply", "expired", "no-net", "no-host", "no-port"}
Tcp  == {"syn", "syn-ack", "rst"}
Errors == {"expired", "no-net", "no-host", "no-port"}
Kind == Icmp \cup Tcp \cup {"datagram"}
Protocol(kind) ==
  IF kind \in Icmp THEN "ICMP" ELSE IF kind \in Tcp THEN "TCP" ELSE "UDP"

(* An ICMP message has one identifier: it is both ports. *)
Packet == [kind : Kind, src : Addr, dst : Addr, sport : Nat, dport : Nat, ttl : Int]
(* A packet in a frame: the interface it left by, the wire it is on, the   *)
(* interface its destination MAC names.                                    *)
Flight == [pk : Packet, from : Iface, on : Wire, to : Iface]
Flow == {"ICMP", "TCP", "UDP"} \X Addr \X Nat \X Addr \X Nat
NatEntry == [inside : Addr, port : Nat, protocol : {"ICMP", "TCP", "UDP"}, remote : Addr]
Command == [tool : {"ping", "trace", "tcp", "udp"}, at : Device, target : Addr, port : Nat]
NoCommand == [tool |-> "none", at |-> None, target |-> None, port |-> 0]
Rule == [allow : BOOLEAN, protocol : {"any", "ICMP", "TCP", "UDP"}, port : Nat \cup {None},
         source : Net, destination : Net]
World == [gateway : [Host -> Addr \cup {None}],
          statics : [Router -> Seq([net : Net, via : Addr])],
          nat : [Router -> Iface \cup {None}],
          rules : [Firewall -> Seq(Rule)],
          policy : [Firewall -> BOOLEAN],
          services : SUBSET (Host \X {"TCP", "UDP"} \X Nat)]

ASSUME WorldsAssumption == Worlds \subseteq World
ASSUME NatIsOwned ==
  \A w \in Worlds, r \in Router : w.nat[r] # None => Owner[w.nat[r]] = r
ASSUME CommandsAssumption ==
  /\ Commands \subseteq Command
  /\ \A c \in Commands : c.target \notin AddressesOf(c.at)
ASSUME PortAssumption == ClientPort \in Nat
ASSUME LimitsAssumption ==
  {DefaultTtl, HopLimit, PingCount, TraceHops} \subseteq Nat \ {0}

VARIABLES
  world,       \* the topology document the commands come with
  command,     \* the command that runs, or none
  wire,        \* the queue of engine.run
  waiting,     \* engine.run is carrying a probe
  inbox,       \* icmp_inbox and transport_inbox of the command's device
  report,      \* the command's lines so far
  nat,         \* nat[r]: Router.nat_table
  established, \* established[f]: Firewall._established
  hops, storm, \* SimulationEngine._hops and storm_detected
  ruled,       \* history: ruled[f], the flows the rules of f let through
  fates        \* history: what became of the probe and its answers

vars == <<world, command, wire, waiting, inbox, report, nat, established, hops,
          storm, ruled, fates>>

NoNat == [r \in Router |-> <<>>]
NoFlows == [f \in Firewall |-> {}]

Init ==
  /\ world \in Worlds
  /\ command = NoCommand
  /\ wire = {}
  /\ waiting = FALSE
  /\ inbox = {}
  /\ report = <<>>
  /\ nat = NoNat
  /\ established = NoFlows
  /\ hops = 0
  /\ storm = FALSE
  /\ ruled = NoFlows
  /\ fates = {}

-------------------------------------------------------------------------------
(* What becomes of a packet when device d sends it: send_ipv4, originate.  *)
Sent(d, pk) ==
  UNION {{[pk |-> pk, from |-> hop.out, on |-> WireOf[hop.out], to |-> j] : j \in Holders(hop)} :
           hop \in Hops(world, d, pk.dst)}

Fate(what, a) == [what |-> what, at |-> a]

Consumed(what, a) ==
  /\ wire' = {}
  /\ fates' = fates \cup {Fate(what, a)}

Back(kind, pk) ==
  [kind |-> kind, src |-> pk.dst, dst |-> pk.src, sport |-> pk.dport, dport |-> pk.sport,
   ttl |-> DefaultTtl]

(* An ICMP error carries the default identifier, not the failed packet's. *)
Error(kind, a, pk) ==
  [kind |-> kind, src |-> a, dst |-> pk.src, sport |-> 1, dport |-> 1, ttl |-> DefaultTtl]

-------------------------------------------------------------------------------
(* firewall._flow_key, in both directions. *)
FlowOf(pk) == <<Protocol(pk.kind), pk.src, pk.sport, pk.dst, pk.dport>>
Reverse(flow) == <<flow[1], flow[4], flow[5], flow[2], flow[3]>>

First(S) == CHOOSE i \in S : \A j \in S : i <= j

(* Firewall._matches: a port only means something for TCP and UDP. *)
Matches(rule, pk) ==
  /\ rule.protocol \in {"any", Protocol(pk.kind)}
  /\ rule.port # None => Protocol(pk.kind) # "ICMP" /\ pk.dport = rule.port
  /\ pk.src \in Members[rule.source]
  /\ pk.dst \in Members[rule.destination]

(* Firewall.evaluate without the established flows: the first rule wins. *)
RulesAllow(f, pk) ==
  LET matching == {n \in DOMAIN world.rules[f] : Matches(world.rules[f][n], pk)}
  IN IF matching = {} THEN world.policy[f] ELSE world.rules[f][First(matching)].allow

(* Mutant: the reverse flow is remembered before the verdict is looked at. *)
RemembersAll(f, pk) == established[f] \cup {Reverse(FlowOf(pk))}

Remembers(f, pk) ==
  IF FlowOf(pk) \in established[f] \/ RulesAllow(f, pk)
    THEN established[f] \cup {Reverse(FlowOf(pk))}
    ELSE established[f]

(* Firewall.receive_frame: an IPv4 frame that must cross the firewall. *)
Cross(f, x) ==
  /\ Joins[f] = {x.on, WireOf[x.to]}
  /\ LET known == FlowOf(x.pk) \in established[f]
         rule  == RulesAllow(f, x.pk)
     IN /\ established' = [established EXCEPT ![f] = Remembers(f, x.pk)]
        /\ ruled' = IF ~known /\ rule
                      THEN [ruled EXCEPT ![f] = @ \cup {FlowOf(x.pk)}] ELSE ruled
        /\ IF known \/ rule
             THEN wire' = {[x EXCEPT !.on = WireOf[x.to]]} /\ UNCHANGED fates
             ELSE Consumed("denied", x.pk.dst)
  /\ UNCHANGED <<inbox, nat>>

-------------------------------------------------------------------------------
(* Mutant: any service of that port number counts, whatever its protocol. *)
ListensOnPort(h, protocol, port) == \E p \in {"TCP", "UDP"} : <<h, p, port>> \in world.services

Listens(h, protocol, port) == <<h, protocol, port>> \in world.services

(* Mutant: every echo message is answered, replies too. *)
AsksAll(kind) == kind \in {"echo", "reply"}

Asks(kind) == kind = "echo"

(* Host._handle_icmp and _handle_tcp keep what they do not answer; only    *)
(* the device of the command reads its inboxes.                            *)
Heeded(d, pk) ==
  IF d = command.at THEN inbox \cup {[kind |-> pk.kind, from |-> pk.src]} ELSE inbox

Keeps(d, pk) ==
  /\ inbox' = Heeded(d, pk)
  /\ wire' = {}
  /\ fates' = IF d = command.at THEN fates ELSE fates \cup {Fate("kept", pk.dst)}

(* An echo request: the reply is routed on its own. *)
AnswerEcho(d, pk) ==
  /\ LET reply == Back("reply", pk)
     IN /\ wire' = Sent(d, reply)
        /\ fates' = fates \cup {Fate("echoed", pk.dst)}
             \cup (IF Sent(d, reply) = {} THEN {Fate("unsent", pk.dst)} ELSE {})
  /\ UNCHANGED inbox

HostEcho(h, pk) == Asks(pk.kind) /\ AnswerEcho(h, pk)

(* Host._handle_tcp, a SYN: accepted on an open port, refused on another. *)
HostSyn(h, pk) ==
  /\ pk.kind = "syn"
  /\ LET listening == <<h, "TCP", pk.dport>> \in world.services
         answer == Back(IF Listens(h, "TCP", pk.dport) THEN "syn-ack" ELSE "rst", pk)
     IN /\ wire' = Sent(h, answer)
        /\ fates' = fates
             \cup {Fate(IF listening THEN "accepted" ELSE "refused", pk.dst)}
             \cup (IF Sent(h, answer) = {} THEN {Fate("unsent", pk.dst)} ELSE {})
  /\ UNCHANGED inbox

(* Host._handle_udp on a port of no protocol the simulator knows: a        *)
(* listening service takes the datagram and says nothing.                  *)
HostDatagram(h, pk) ==
  /\ pk.kind = "datagram"
  /\ IF Listens(h, "UDP", pk.dport)
       THEN Consumed("accepted", pk.dst) /\ inbox' = Heeded(h, pk)
       ELSE LET error == Error("no-port", pk.dst, pk)
            IN /\ wire' = Sent(h, error)
               /\ fates' = fates \cup {Fate("refused", pk.dst)}
                    \cup (IF Sent(h, error) = {} THEN {Fate("unsent", pk.dst)} ELSE {})
               /\ UNCHANGED inbox

HostKeeps(h, pk) ==
  /\ ~Asks(pk.kind) /\ pk.kind \notin {"syn", "datagram"}
  /\ Keeps(h, pk)

(* Host._handle_ipv4: a host does not forward. *)
HostReceives(h, pk) ==
  /\ IF pk.dst \in AddressesOf(h)
       THEN HostEcho(h, pk) \/ HostSyn(h, pk) \/ HostDatagram(h, pk) \/ HostKeeps(h, pk)
       ELSE Consumed("not-forwarded", pk.dst) /\ UNCHANGED inbox
  /\ UNCHANGED nat

-------------------------------------------------------------------------------
(* Router._icmp_error: no error about an error. *)
Complains(r, in, kind, pk) ==
  IF pk.kind \in Errors
    THEN Consumed("error-dropped", pk.dst)
    ELSE LET error == Error(kind, AddrOf[in], pk)
         IN /\ wire' = Sent(r, error)
            /\ fates' = fates \cup {Fate(kind, pk.dst)}
                 \cup (IF Sent(r, error) = {} THEN {Fate("unsent", pk.dst)} ELSE {})

(* Mutant: a router's own address is left alone, and so are the hosts'     *)
(* that the router already translated one packet of.                       *)
TranslatesOnce(r, out, pk) ==
  /\ out = world.nat[r]
  /\ pk.src \notin AddressesOf(r)
  /\ \A n \in DOMAIN nat[r] : nat[r][n].inside # pk.src

(* Router._forward, on the way out of the public interface. *)
Translates(r, out, pk) == out = world.nat[r] /\ pk.src \notin AddressesOf(r)

Binding(pk) ==
  [inside |-> pk.src, port |-> pk.sport, protocol |-> Protocol(pk.kind), remote |-> pk.dst]

(* Router._translate_outbound: one binding per conversation. *)
Bound(r, pk) ==
  IF \E n \in DOMAIN nat[r] : nat[r][n] = Binding(pk)
    THEN nat ELSE [nat EXCEPT ![r] = Append(@, Binding(pk))]

(* Mutant: the packet dies one router later than its TTL says. *)
ExpiresLate(pk) == pk.ttl - 1 < 0

Expires(pk) == pk.ttl - 1 <= 0

(* Router._forward. *)
Forward(r, in, pk) ==
  LET chosen == RouterHops(world, r, pk.dst)
  IN IF Expires(pk) THEN Complains(r, in, "expired", pk) /\ UNCHANGED nat
     ELSE IF chosen = {} THEN Complains(r, in, "no-net", pk) /\ UNCHANGED nat
     ELSE \E hop \in chosen :
            LET aged  == [pk EXCEPT !.ttl = @ - 1]
                named == IF Translates(r, hop.out, pk)
                           THEN [aged EXCEPT !.src = AddrOf[hop.out]] ELSE aged
            IN /\ nat' = IF Translates(r, hop.out, pk) THEN Bound(r, pk) ELSE nat
               /\ IF Holders(hop) = {}
                    THEN Complains(r, in, "no-host", pk)
                    ELSE /\ wire' = {[pk |-> named, from |-> hop.out, on |-> WireOf[hop.out],
                                      to |-> j] : j \in Holders(hop)}
                         /\ UNCHANGED fates

(* Router._find_nat_entry: the first binding of the protocol and port,     *)
(* whoever the packet comes from.                                          *)
Bindings(r, in, pk) ==
  IF in = world.nat[r] /\ pk.dst = AddrOf[in]
    THEN {n \in DOMAIN nat[r] : nat[r][n].protocol = Protocol(pk.kind) /\ nat[r][n].port = pk.dport}
    ELSE {}

(* Router._deliver_locally. *)
RouterKeeps(r, pk) ==
  /\ IF Protocol(pk.kind) # "ICMP" THEN Consumed("swallowed", pk.dst) /\ UNCHANGED inbox
     ELSE IF pk.kind = "echo" THEN AnswerEcho(r, pk)
     ELSE Keeps(r, pk)
  /\ UNCHANGED nat

(* Router._handle_ipv4. *)
RouterReceives(r, in, pk) ==
  LET found == Bindings(r, in, pk)
  IN IF found # {}
       THEN /\ Forward(r, in, [pk EXCEPT !.dst = nat[r][First(found)].inside])
            /\ UNCHANGED inbox
     ELSE IF pk.dst \in AddressesOf(r) THEN RouterKeeps(r, pk)
     ELSE Forward(r, in, pk) /\ UNCHANGED inbox

Arrive(x) ==
  /\ x.on = WireOf[x.to]
  /\ \/ Owner[x.to] \in Host /\ HostReceives(Owner[x.to], x.pk)
     \/ Owner[x.to] \in Router /\ RouterReceives(Owner[x.to], x.to, x.pk)
  /\ UNCHANGED <<established, ruled>>

-------------------------------------------------------------------------------
(* engine.run, one turn: the packet crosses the wire it is on. *)
Deliver ==
  /\ hops < HopLimit
  /\ \E x \in wire :
       Arrive(x) \/ \E f \in Firewall : x.on # WireOf[x.to] /\ Cross(f, x)
  /\ hops' = hops + 1
  /\ UNCHANGED <<world, command, waiting, report, storm>>

(* engine.run at the hop limit: it returns with its queue undelivered. *)
StopAtHopLimit ==
  /\ wire # {}
  /\ hops >= HopLimit
  /\ wire' = {}
  /\ storm' = TRUE
  /\ fates' = fates \cup {Fate("storm", None)}
  /\ UNCHANGED <<world, command, waiting, inbox, report, nat, established, hops, ruled>>

-------------------------------------------------------------------------------
Tries == CASE command.tool = "ping"  -> PingCount
           [] command.tool = "trace" -> TraceHops
           [] OTHER -> 1

(* A traceroute stops at the target, at an error, or if a probe cannot leave. *)
TraceEnds == {"reply", "no-net", "no-host", "no-port", "stuck"}
Over ==
  \/ Len(report) = Tries
  \/ /\ command.tool = "trace"
     /\ report # <<>>
     /\ report[Len(report)].what \in TraceEnds

(* select_source_ip: the address of the interface the packet leaves by. *)
Probe(kind, out, sport, dport, ttl) ==
  [kind |-> kind, src |-> AddrOf[out], dst |-> command.target, sport |-> sport,
   dport |-> dport, ttl |-> ttl]

ProbeOf(out) ==
  LET n == Len(report) + 1
  IN CASE command.tool = "ping"  -> Probe("echo", out, 1, 1, DefaultTtl)
       [] command.tool = "trace" -> Probe("echo", out, n, n, n)
       [] command.tool = "tcp"   -> Probe("syn", out, ClientPort, command.port, DefaultTtl)
       [] OTHER                  -> Probe("datagram", out, ClientPort, command.port, DefaultTtl)

ProbesOf(d) ==
  UNION {Sent(d, ProbeOf(hop.out)) : hop \in Hops(world, d, command.target)}

Line(what, who) == [what |-> what, who |-> who]

(* The user types a command: a network of its own is built for it.  Nothing *)
(* is left of the command before, so an edited document is one more        *)
(* initial state.                                                          *)
Begin ==
  /\ command = NoCommand
  /\ command' \in Commands
  /\ UNCHANGED <<world, wire, waiting, inbox, report, nat, established, hops, storm,
                 ruled, fates>>

(* The next probe of the command, if it can leave its device at all. *)
Try ==
  /\ command # NoCommand
  /\ ~waiting
  /\ ~Over
  /\ wire' = ProbesOf(command.at)
  /\ waiting' = (wire' # {})
  /\ report' = IF wire' = {} THEN Append(report, Line("stuck", None)) ELSE report
  /\ inbox' = {}
  /\ fates' = {}
  /\ UNCHANGED <<world, command, nat, established, hops, storm, ruled>>

(* What each tool looks for first in its inbox. *)
Priorities ==
  CASE command.tool = "ping"  -> <<{"reply"}, Errors>>
    [] command.tool = "trace" -> <<{"reply"}, {"expired"}, Errors>>
    [] OTHER                  -> <<{"syn-ack", "rst"}, {"datagram"}, Errors>>

Heard(kinds) == {m \in inbox : m.kind \in kinds}

(* The network is quiet: the command reads what came back. *)
Conclude ==
  LET answered == {n \in DOMAIN Priorities : Heard(Priorities[n]) # {}}
  IN /\ waiting
     /\ wire = {}
     /\ IF answered = {}
          THEN report' = Append(report, Line("silent", None))
          ELSE \E m \in Heard(Priorities[First(answered)]) :
                 report' = Append(report, Line(m.kind, m.from))
     /\ waiting' = FALSE
     /\ UNCHANGED <<world, command, wire, inbox, nat, established, hops, storm, ruled, fates>>

(* Mutant: the devices of the command are kept for the next one. *)
FinishKeepingNat ==
  /\ command # NoCommand
  /\ ~waiting
  /\ Over
  /\ command' = NoCommand
  /\ inbox' = {}
  /\ report' = <<>>
  /\ established' = NoFlows
  /\ hops' = 0
  /\ storm' = FALSE
  /\ ruled' = NoFlows
  /\ fates' = {}
  /\ UNCHANGED <<world, wire, waiting, nat>>

(* The command is over and its network is gone. *)
Finish ==
  /\ command # NoCommand
  /\ ~waiting
  /\ Over
  /\ command' = NoCommand
  /\ inbox' = {}
  /\ report' = <<>>
  /\ nat' = NoNat
  /\ established' = NoFlows
  /\ hops' = 0
  /\ storm' = FALSE
  /\ ruled' = NoFlows
  /\ fates' = {}
  /\ UNCHANGED <<world, wire, waiting>>

PathNext == Begin \/ Try \/ Deliver \/ StopAtHopLimit \/ Conclude \/ Finish

Spec == Init /\ [][PathNext]_vars
===============================================================================

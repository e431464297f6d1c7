------------------------------ MODULE EthernetLan ------------------------------
(***************************************************************************)
(* One LAN of hosts and switches, and `ping` on it: the delivery loop of   *)
(* core/engine.py, learning switches (devices/switch.py), and hosts with   *)
(* ARP and ICMP echo (devices/host.py, arp/table.py, commands/ping.py).    *)
(*                                                                         *)
(* engine.run is re-entrant: a host that must ask for a MAC address before *)
(* it can answer calls engine.run from inside receive_frame.  The stack of *)
(* running loops is the variable `stack`; each has its queue of emissions, *)
(* and the packet its caller holds back until the loop returns.            *)
(*                                                                         *)
(* A host has one interface and is named like it and its MAC; all hosts    *)
(* are on one subnet.  A cable is live when it is connected and both ends  *)
(* are enabled: every other frame is dropped by engine.run before it costs *)
(* a hop, whichever of the reasons the log gives.                          *)
(***************************************************************************)
EXTENDS Integers, Sequences, FiniteSets

CONSTANTS
  Host, Switch,
  Ports,        \* Ports[s]: the interfaces of switch s, in order
  Cable,        \* every cable the user may plug: a set of two ports
  Ip, None,
  Addressings,  \* the addresses the hosts may start with: functions
  HopLimit,     \* SimulationEngine.hop_limit
  Count,        \* ping -n
  Edits         \* what the user changes between commands

PortsOf(s) == {Ports[s][i] : i \in DOMAIN Ports[s]}
SwitchPort == UNION {PortsOf(s) : s \in Switch}
Port == Host \cup SwitchPort

ASSUME NamesAssumption ==
  /\ None \notin Ip \cup Host \cup SwitchPort
  /\ Host \cap (Switch \cup SwitchPort) = {}
  /\ \A s \in Switch, t \in Switch : s # t => PortsOf(s) \cap PortsOf(t) = {}
(* generate_mac: the MACs of hosts are unicast. *)
ASSUME BroadcastAssumption == "broadcast" \notin Host
ASSUME PortsAssumption == \A s \in Switch : Ports[s] \in Seq(SwitchPort)
ASSUME CableAssumption ==
  /\ IsFiniteSet(Cable)
  /\ \A c \in Cable : \E p, q \in Port : p # q /\ c = {p, q}
ASSUME AddressAssumption == Addressings \subseteq [Host -> Ip \cup {None}]
ASSUME BoundsAssumption == HopLimit \in Nat \ {0} /\ Count \in Nat \ {0}
ASSUME EditsAssumption == Edits \subseteq {"arp", "mac", "cable", "address"}

VARIABLES
  live,      \* the cables that carry frames
  ip,        \* ip[h]
  arp,       \* arp[h][i]: the MAC host h has cached for address i
  mac,       \* mac[s][m]: the port switch s saw MAC m on
  stack,     \* the running engine.run loops, innermost first
  hops,      \* SimulationEngine._hops
  storm,     \* SimulationEngine.storm_detected
  ping,      \* the running command, or none
  inbox,     \* sequence numbers of the echo replies in its icmp_inbox
  answered   \* history: which echo requests of this command were answered

vars == <<live, ip, arp, mac, stack, hops, storm, ping, inbox, answered>>

Broadcast == "broadcast"
Frame == [kind : {"who-has", "is-at", "echo", "reply"}, src : Host,
          dst : Host \cup {Broadcast}, sip : Ip, dip : Ip, seq : 0 .. Count]
Emission == [port : Port, frame : Frame]
Packet == [kind : {"echo", "reply"}, host : Host, sip : Ip, dip : Ip, seq : 1 .. Count]

NoPacket == [kind |-> "none"]
NoPing == [host |-> None, target |-> None, sent |-> 0, received |-> 0]

Init ==
  /\ live \in SUBSET Cable
  /\ \A c, d \in live : c # d => c \cap d = {}
  /\ ip \in Addressings
  /\ arp = [h \in Host |-> [i \in Ip |-> None]]
  /\ mac = [s \in Switch |-> [m \in Host |-> None]]
  /\ stack = <<>>
  /\ hops = 0
  /\ storm = FALSE
  /\ ping = NoPing
  /\ inbox = {}
  /\ answered = {}

-------------------------------------------------------------------------------
(* network.link_for and peer_of: the far ends of a live cable (at most one). *)
Peers(p) == {q \in Port : q # p /\ {p, q} \in live}
IsLive(p) == Peers(p) # {}

Out(h, f) == [port |-> h, frame |-> f]

WhoHas(h, i) == [kind |-> "who-has", src |-> h, dst |-> Broadcast,
                 sip |-> ip[h], dip |-> i, seq |-> 0]
(* Mutant: the answer keeps the question's sender and target addresses. *)
IsAtUnturned(h, f) == [kind |-> "is-at", src |-> h, dst |-> f.src,
                       sip |-> f.sip, dip |-> f.dip, seq |-> 0]
IsAt(h, f)   == [kind |-> "is-at", src |-> h, dst |-> f.src,
                 sip |-> f.dip, dip |-> f.sip, seq |-> 0]
(* Mutant: every echo carries the first sequence number. *)
CarryFirst(pk, m) == [kind |-> pk.kind, src |-> pk.host, dst |-> m,
                      sip |-> pk.sip, dip |-> pk.dip, seq |-> 1]
Carry(pk, m) == [kind |-> pk.kind, src |-> pk.host, dst |-> m,
                 sip |-> pk.sip, dip |-> pk.dip, seq |-> pk.seq]

Loop(queue, held) == [queue |-> queue, held |-> held]
Top == Head(stack)
Below == Tail(stack)

(* stack with emissions added to the queue of its innermost loop. *)
Enqueue(loops, emissions) ==
  <<Loop(Head(loops).queue \o emissions, Head(loops).held)>> \o Tail(loops)

(* send_ipv4 / resolve_arp: the frame goes out when the MAC is cached,     *)
(* else the packet is held while a loop of its own carries the question.   *)
Asking(pk) == Loop(<<Out(pk.host, WhoHas(pk.host, pk.dip))>>, pk)

-------------------------------------------------------------------------------
(* Mutant: the destination is learned instead of the source. *)
LearnedTarget(s, p, f) ==
  IF f.dst \in Host THEN [mac EXCEPT ![s][f.dst] = p] ELSE mac

(* Switch.receive_frame: learn first, then forward, flood or drop. *)
Learned(s, p, f) == [mac EXCEPT ![s][f.src] = p]

(* Mutant: a frame for an unknown MAC is not flooded. *)
FloodsBroadcast(s, p, f, table) == f.dst = Broadcast

Floods(s, p, f, table) == f.dst = Broadcast \/ table[s][f.dst] = None

(* Mutant: flooding includes the port the frame came in on. *)
FloodPortsAll(s, p) == {i \in DOMAIN Ports[s] : IsLive(Ports[s][i])}

(* _flood: the positions of the live ports but the one the frame came by.  *)
FloodPorts(s, p) == {i \in DOMAIN Ports[s] : Ports[s][i] # p /\ IsLive(Ports[s][i])}

(* The one ascending sequence of a set of positions, in a set of its own. *)
Ascending(I) ==
  {g \in [1 .. Cardinality(I) -> I] : \A i, j \in DOMAIN g : i < j => g[i] < g[j]}

(* The sequence of ports the frame leaves by: a set of one sequence. *)
Targets(s, p, f, table) ==
  IF Floods(s, p, f, table)
    THEN {[i \in DOMAIN g |-> Ports[s][g[i]]] : g \in Ascending(FloodPorts(s, p))}
    ELSE IF table[s][f.dst] = p THEN {<<>>} ELSE {<<table[s][f.dst]>>}

SwitchReceives(s, p, f, rest) ==
  LET table == Learned(s, p, f)
  IN /\ mac' = table
     /\ \E out \in Targets(s, p, f, table) :
          stack' = Enqueue(rest, [i \in DOMAIN out |-> Out(out[i], f)])
     /\ UNCHANGED <<arp, inbox, answered>>

-------------------------------------------------------------------------------
(* Mutant: a host takes packets for any address. *)
AcceptsAll(h, f) == f.dst \in {h, Broadcast}

Accepts(h, f) == f.dst \in {h, Broadcast} /\ ip[h] = f.dip

(* Mutant: an unknown asker is asked for before it is answered. *)
AnswerArpByAsking(h, f, rest) ==
  /\ f.kind = "who-has"
  /\ Accepts(h, f)
  /\ stack' = IF arp[h][f.sip] # None
                THEN Enqueue(rest, <<Out(h, IsAt(h, f))>>)
                ELSE <<Loop(<<Out(h, WhoHas(h, f.sip))>>, NoPacket)>> \o rest
  /\ UNCHANGED <<arp, inbox, answered>>

(* Host._handle_arp, a request for this host: cache the asker, answer. *)
AnswerArp(h, f, rest) ==
  /\ f.kind = "who-has"
  /\ Accepts(h, f)
  /\ arp' = [arp EXCEPT ![h][f.sip] = f.src]
  /\ stack' = Enqueue(rest, <<Out(h, IsAt(h, f))>>)
  /\ UNCHANGED <<inbox, answered>>

(* Host._handle_arp, a reply to this NIC. *)
CacheArp(h, f, rest) ==
  /\ f.kind = "is-at"
  /\ f.dst = h
  /\ arp' = [arp EXCEPT ![h][f.sip] = f.src]
  /\ stack' = rest
  /\ UNCHANGED <<inbox, answered>>

(* Host._handle_icmp, an echo request: the reply is sent like any packet,  *)
(* so it may have to ask for a MAC address first, in a loop of its own.    *)
AnswerEcho(h, f, rest) ==
  LET pk == [kind |-> "reply", host |-> h, sip |-> f.dip, dip |-> f.sip, seq |-> f.seq]
  IN /\ f.kind = "echo"
     /\ Accepts(h, f)
     /\ stack' = IF arp[h][f.sip] # None
                   THEN Enqueue(rest, <<Out(h, Carry(pk, arp[h][f.sip]))>>)
                   ELSE <<Asking(pk)>> \o rest
     /\ answered' = answered \cup {[host |-> h, ip |-> f.dip, seq |-> f.seq]}
     /\ UNCHANGED <<arp, inbox>>

(* Host._handle_icmp, an echo reply: into the inbox, which only the host   *)
(* that runs the command ever reads.                                       *)
KeepReply(h, f, rest) ==
  /\ f.kind = "reply"
  /\ Accepts(h, f)
  /\ inbox' = IF h = ping.host THEN inbox \cup {f.seq} ELSE inbox
  /\ stack' = rest
  /\ UNCHANGED <<arp, answered>>

(* Host.receive_frame: a frame for another NIC, or an address not ours. *)
Discard(h, f, rest) ==
  /\ f.dst \notin {h, Broadcast} \/ (f.kind # "is-at" /\ ip[h] # f.dip)
  /\ stack' = rest
  /\ UNCHANGED <<arp, inbox, answered>>

HostReceives(h, f, rest) ==
  /\ \/ AnswerArp(h, f, rest)
     \/ CacheArp(h, f, rest)
     \/ AnswerEcho(h, f, rest)
     \/ KeepReply(h, f, rest)
     \/ Discard(h, f, rest)
  /\ UNCHANGED mac

-------------------------------------------------------------------------------
(* The innermost loop without the first emission of its queue. *)
Popped == <<Loop(Tail(Top.queue), Top.held)>> \o Below

(* engine.run, one turn of the innermost loop: the frame crosses a cable. *)
Deliver ==
  /\ stack # <<>>
  /\ Top.queue # <<>>
  /\ hops < HopLimit
  /\ \E p \in Peers(Head(Top.queue).port) :
       \/ p \in Host /\ HostReceives(p, Head(Top.queue).frame, Popped)
       \/ \E s \in Switch :
            p \in PortsOf(s) /\ SwitchReceives(s, p, Head(Top.queue).frame, Popped)
  /\ hops' = hops + 1
  /\ UNCHANGED <<live, ip, storm, ping>>

(* No cable, a disconnected one, or an end that is down: no hop is spent. *)
DropFrame ==
  /\ stack # <<>>
  /\ Top.queue # <<>>
  /\ hops < HopLimit
  /\ ~IsLive(Head(Top.queue).port)
  /\ stack' = Popped
  /\ UNCHANGED <<live, ip, arp, mac, hops, storm, ping, inbox, answered>>

Returned == Top.queue = <<>> \/ hops >= HopLimit

(* What the caller of the returned loop does with the packet it held:      *)
(* resolve_arp looks again, send_ipv4 sends or drops.  A reply joins the   *)
(* queue of the loop that delivered the request; the command's own packet  *)
(* starts a loop of its own.                                               *)
AfterReturn ==
  LET pk  == Top.held
      out == <<Out(pk.host, Carry(pk, arp[pk.host][pk.dip]))>>
  IN IF pk = NoPacket \/ arp[pk.host][pk.dip] = None THEN Below
     ELSE IF Below = <<>> THEN <<Loop(out, NoPacket)>>
     ELSE Enqueue(Below, out)

(* engine.run returns: quiet, or at the hop limit with the rest dropped. *)
Return ==
  /\ stack # <<>>
  /\ Returned
  /\ storm' = (storm \/ Top.queue # <<>>)
  /\ stack' = AfterReturn
  /\ UNCHANGED <<live, ip, arp, mac, hops, ping, inbox, answered>>

-------------------------------------------------------------------------------
(* run_ping up to its loop; pinging its own address touches no wire. *)
StartPing(h, i) ==
  /\ ping = NoPing
  /\ ip[h] # None
  /\ i # ip[h]
  /\ ping' = [host |-> h, target |-> i, sent |-> 0, received |-> 0]
  /\ hops' = 0
  /\ storm' = FALSE
  /\ answered' = {}
  /\ inbox' = {}
  /\ UNCHANGED <<live, ip, arp, mac, stack>>

Replied == IF ping.sent \in inbox THEN 1 ELSE 0

(* Mutant: the sequence number never advances. *)
SendEchoAgain ==
  LET pk == [kind |-> "echo", host |-> ping.host, sip |-> ip[ping.host],
             dip |-> ping.target, seq |-> ping.sent + 1]
  IN /\ ping # NoPing
     /\ stack = <<>>
     /\ ping.sent < Count
     /\ inbox' = {}
     /\ stack' = IF arp[ping.host][ping.target] # None
                   THEN <<Loop(<<Out(ping.host, Carry(pk, arp[ping.host][ping.target]))>>, NoPacket)>>
                   ELSE <<Asking(pk)>>
     /\ UNCHANGED <<live, ip, arp, mac, hops, storm, ping, answered>>

(* One turn of run_ping's loop: read the inbox, clear it, send the next. *)
SendEcho ==
  LET pk == [kind |-> "echo", host |-> ping.host, sip |-> ip[ping.host],
             dip |-> ping.target, seq |-> ping.sent + 1]
  IN /\ ping # NoPing
     /\ stack = <<>>
     /\ ping.sent < Count
     /\ ping' = [ping EXCEPT !.sent = @ + 1, !.received = @ + Replied]
     /\ inbox' = {}
     /\ stack' = IF arp[ping.host][ping.target] # None
                   THEN <<Loop(<<Out(ping.host, Carry(pk, arp[ping.host][ping.target]))>>, NoPacket)>>
                   ELSE <<Asking(pk)>>
     /\ UNCHANGED <<live, ip, arp, mac, hops, storm, answered>>

(* run_ping is over: its statistics are printed. *)
Finish ==
  /\ ping # NoPing
  /\ stack = <<>>
  /\ ping.sent = Count
  /\ ping' = NoPing
  /\ hops' = 0
  /\ storm' = FALSE
  /\ inbox' = {}
  /\ answered' = {}
  /\ UNCHANGED <<live, ip, arp, mac, stack>>

(* arp -d *)
ClearArp(h) ==
  /\ "arp" \in Edits
  /\ ping = NoPing
  /\ arp' = [arp EXCEPT ![h] = [i \in Ip |-> None]]
  /\ UNCHANGED <<live, ip, mac, stack, hops, storm, ping, inbox, answered>>

(* clear mac-address-table *)
ClearMac(s) ==
  /\ "mac" \in Edits
  /\ ping = NoPing
  /\ mac' = [mac EXCEPT ![s] = [m \in Host |-> None]]
  /\ UNCHANGED <<live, ip, arp, stack, hops, storm, ping, inbox, answered>>

(* The user plugs, unplugs, connects or disconnects a cable: one per port. *)
ChangeCable(c) ==
  /\ "cable" \in Edits
  /\ ping = NoPing
  /\ \/ c \in live /\ live' = live \ {c}
     \/ (\A d \in live : c \cap d = {}) /\ live' = live \cup {c}
  /\ UNCHANGED <<ip, arp, mac, stack, hops, storm, ping, inbox, answered>>

(* The user gives a host an address, perhaps one that is taken. *)
ChangeAddress(h, i) ==
  /\ "address" \in Edits
  /\ ping = NoPing
  /\ ip' = [ip EXCEPT ![h] = i]
  /\ UNCHANGED <<live, arp, mac, stack, hops, storm, ping, inbox, answered>>

EngineStep == Deliver \/ DropFrame \/ Return
CommandStep == SendEcho \/ Finish
UserStep ==
  \/ \E h \in Host : ClearArp(h)
  \/ \E s \in Switch : ClearMac(s)
  \/ \E c \in Cable : ChangeCable(c)
  \/ \E h \in Host, i \in Ip \cup {None} : ChangeAddress(h, i)

Next ==
  \/ \E h \in Host, i \in Ip : StartPing(h, i)
  \/ EngineStep
  \/ CommandStep
  \/ UserStep

(* A command is one synchronous call: it runs until it returns. *)
Fairness == WF_vars(EngineStep \/ CommandStep)

Spec == Init /\ [][Next]_vars /\ Fairness

-------------------------------------------------------------------------------
QueueOf(n) == stack[n].queue
QueuedFrames == UNION {{QueueOf(n)[i].frame : i \in DOMAIN QueueOf(n)} : n \in DOMAIN stack}
Held == {stack[n].held : n \in DOMAIN stack} \ {NoPacket}

TypeOK ==
  /\ live \subseteq Cable
  /\ ip \in [Host -> Ip \cup {None}]
  /\ arp \in [Host -> [Ip -> Host \cup {None}]]
  /\ mac \in [Switch -> [Host -> SwitchPort \cup {None}]]
  /\ stack \in Seq([queue : Seq(Emission), held : Packet \cup {NoPacket}])
  /\ hops \in 0 .. HopLimit
  /\ storm \in BOOLEAN
  /\ ping \in [host : Host \cup {None}, target : Ip \cup {None},
               sent : 0 .. Count, received : 0 .. Count]
  /\ inbox \subseteq 1 .. Count
  /\ answered \subseteq [host : Host, ip : Ip, seq : 1 .. Count]

(* engine.run "Re-entrant": loops nest, but never deeper than two, because *)
(* a loop run to resolve an address carries nothing but ARP and no handler *)
(* of ARP sends anything that would have to be resolved first.             *)
NestingBounded ==
  /\ Len(stack) <= 2
  /\ \A n \in DOMAIN stack : stack[n].held # NoPacket =>
       \A i \in DOMAIN QueueOf(n) : QueueOf(n)[i].frame.kind \in {"who-has", "is-at"}

(* docs/ARCHITECTURE.md "An echo reply exists only if a real device        *)
(* received a real frame and generated one": wherever a reply is - on a    *)
(* cable, held back, in the inbox - the host with that address answered    *)
(* that very request during this command.                                  *)
EchoHonest ==
  /\ \A f \in QueuedFrames : f.kind = "reply" =>
       \E a \in answered : a.ip = f.sip /\ a.seq = f.seq
  /\ \A pk \in Held : pk.kind = "reply" =>
       \E a \in answered : a.ip = pk.sip /\ a.seq = pk.seq
  /\ \A k \in inbox : \E a \in answered : a.seq = k /\ a.ip = ping.target
  /\ \A a \in answered : ip[a.host] = a.ip

(* What ping counts as received is a reply to the request it just sent:    *)
(* run_ping matches the sequence number alone, and nothing of an earlier   *)
(* request is ever left on the wire or in the inbox.                       *)
RepliesAreFresh ==
  /\ \A f \in QueuedFrames : f.kind \in {"echo", "reply"} => f.seq = ping.sent
  /\ \A pk \in Held : pk.seq = ping.sent
  /\ inbox \subseteq {ping.sent}

(* Every command returns, storm or not. *)
CommandEnds == ping # NoPing ~> ping = NoPing
===============================================================================

------------------------------- MODULE PathProofs -------------------------------
(***************************************************************************)
(* Proofs about RoutedPath and PathTruth for any network, any              *)
(* configurations and any commands.                                        *)
(*                                                                         *)
(* These invariants carry them.  Carried: every packet was sent by an      *)
(* interface of its device under an address that may be shown there.       *)
(* Orderly: every packet and message has its cause, and a probe in flight  *)
(* or an answer to it exists unless something was lost.  Course, Written   *)
(* and Budget, without translation: probe n is where n less its TTL hops   *)
(* take it, the lines of a traceroute tell where, and a probe and its      *)
(* answers have a bounded number of hops to spend.  Bindery: the bindings  *)
(* that a packet on its way can ask for are those of the command's device. *)
(***************************************************************************)
EXTENDS PathTruth, FiniteSetTheorems, WellFoundedInduction, TLAPS

LEMMA ElementTyped ==
  ASSUME NEW T, NEW s \in Seq(T), NEW n \in DOMAIN s
  PROVE  s[n] \in T
OBVIOUS

(* The first of several positions is one of them. *)
LEMMA FirstIsOne ==
  ASSUME NEW S, S \subseteq Nat, S # {}
  PROVE  First(S) \in S
<1>1. \E i \in S : \A j \in S : ~ (<<j, i>> \in OpToRel(<, Nat))
  BY NatLessThanWellFounded, WFMin
<1>2. PICK i \in S : \A j \in S : ~ (<<j, i>> \in OpToRel(<, Nat))
  BY <1>1
<1>3. ASSUME NEW j \in S PROVE i <= j
  <2>1. i \in Nat /\ j \in Nat
    BY <1>2
  <2>2. ~ (j < i)
    BY <1>2, <2>1 DEF OpToRel
  <2>. QED BY <2>1, <2>2
<1>4. \E k \in S : \A j \in S : k <= j
  BY <1>2, <1>3
<1>. QED BY <1>4 DEF First

(* A device sends by an interface of its own, towards an address. *)
LEMMA HopsTyped ==
  ASSUME NEW w \in World, NEW d \in Device, NEW a \in Addr, NEW hop \in Hops(w, d, a)
  PROVE  hop.out \in Iface /\ Owner[hop.out] = d /\ hop.via \in Addr
<1>1. CASE d \in Host
  <2>1. hop \in HostHops(w, d, a)
    BY <1>1 DEF Hops
  <2>2. w.gateway[d] \in Addr \cup {None}
    BY <1>1 DEF World
  <2>3. CASE Reaching(d, a) # {}
    BY <2>1, <2>3 DEF HostHops, Reaching
  <2>4. CASE Reaching(d, a) = {}
    <3>1. w.gateway[d] # None /\ hop \in {[out |-> i, via |-> w.gateway[d]] :
                                             i \in Reaching(d, w.gateway[d])}
      BY <2>1, <2>4 DEF HostHops
    <3>. QED BY <3>1, <2>2 DEF Reaching
  <2>. QED BY <2>3, <2>4
<1>2. CASE d \in Router
  <2>1. d \notin Host
    BY <1>2, DevicesAssumption
  <2>2. PICK t \in Lookup(w, d, a) :
          hop = [out |-> t.out, via |-> IF t.via = None THEN a ELSE t.via]
    BY <2>1 DEF Hops, RouterHops
  <2>3. t \in Routes(w, d)
    BY <2>2 DEF Lookup
  <2>4. t.out \in Iface /\ Owner[t.out] = d /\ t.via \in Addr \cup {None}
    <3>1. CASE t \in Connected(d)
      BY <3>1 DEF Connected
    <3>2. CASE t \in Static(w, d)
      <4>1. PICK n \in DOMAIN w.statics[d] :
              t.out \in Reaching(d, w.statics[d][n].via) /\ t.via = w.statics[d][n].via
        BY <3>2 DEF Static
      <4>2. w.statics[d] \in Seq([net : Net, via : Addr])
        BY <1>2 DEF World
      <4>3. w.statics[d][n] \in [net : Net, via : Addr]
        BY <4>2, ElementTyped
      <4>. QED BY <4>1, <4>3 DEF Reaching
    <3>. QED BY <2>3, <3>1, <3>2 DEF Routes
  <2>. QED BY <2>2, <2>4
<1>. QED BY <1>1, <1>2 DEF Device

LEMMA SentTyped ==
  ASSUME world \in World, NEW d \in Device, NEW pk \in Packet
  PROVE  /\ Sent(d, pk) \subseteq Flight
         /\ \A x \in Sent(d, pk) : x.pk = pk /\ Owner[x.from] = d
<1>1. SUFFICES ASSUME NEW x \in Sent(d, pk)
               PROVE  x \in Flight /\ x.pk = pk /\ Owner[x.from] = d
  OBVIOUS
<1>0. PICK hop \in Hops(world, d, pk.dst) :
        x \in {[pk |-> pk, from |-> hop.out, on |-> WireOf[hop.out], to |-> j] : j \in Holders(hop)}
  BY DEF Sent
<1>2. PICK j \in Holders(hop) :
        x = [pk |-> pk, from |-> hop.out, on |-> WireOf[hop.out], to |-> j]
  BY <1>0
<1>3. pk.dst \in Addr
  BY DEF Packet
<1>4. hop.out \in Iface /\ Owner[hop.out] = d
  BY <1>0, <1>3, HopsTyped
<1>5. j \in Iface
  BY <1>2 DEF Holders
<1>6. WireOf[hop.out] \in Wire
  BY <1>4, DevicesAssumption
<1>. QED BY <1>2, <1>4, <1>5, <1>6 DEF Flight

LEMMA BackTyped ==
  ASSUME NEW kind \in Kind, NEW pk \in Packet
  PROVE  /\ Back(kind, pk) \in Packet
         /\ Back(kind, pk).src = pk.dst
BY LimitsAssumption DEF Back, Packet

LEMMA ErrorTyped ==
  ASSUME NEW kind \in Errors, NEW a \in Addr, NEW pk \in Packet
  PROVE  Error(kind, a, pk) \in Packet /\ Error(kind, a, pk).src = a
<1>1. kind \in Kind
  BY DEF Errors, Kind, Icmp
<1>. QED BY <1>1, LimitsAssumption DEF Error, Packet

LEMMA ProtocolTyped ==
  ASSUME NEW kind \in Kind
  PROVE  Protocol(kind) \in {"ICMP", "TCP", "UDP"}
BY DEF Protocol

LEMMA FlowTyped ==
  ASSUME NEW pk \in Packet
  PROVE  FlowOf(pk) \in Flow /\ Reverse(FlowOf(pk)) \in Flow
BY ProtocolTyped DEF Packet, FlowOf, Reverse, Flow

LEMMA ReverseTwice ==
  ASSUME NEW flow \in Flow
  PROVE  Reverse(Reverse(flow)) = flow
BY DEF Flow, Reverse

-------------------------------------------------------------------------------
(* What a frame may carry: typed, and translated where it leaves by an     *)
(* outside interface.                                                      *)
Sound(x) ==
  /\ x \in Flight
  /\ Owner[x.from] \in Router /\ world.nat[Owner[x.from]] = x.from
       => x.pk.src \in AddressesOf(Owner[x.from])

(* A host's packet is sound, and a router's that has one of its addresses. *)
LEMMA SentSound ==
  ASSUME world \in World, NEW d \in Device, NEW pk \in Packet,
         d \in Router => pk.src \in AddressesOf(d)
  PROVE  \A x \in Sent(d, pk) : Sound(x)
BY SentTyped DEF Sound

LEMMA EchoSound ==
  ASSUME TypeOK, NEW d \in Device, NEW pk \in Packet, pk.dst \in AddressesOf(d),
         AnswerEcho(d, pk)
  PROVE  inbox' = inbox /\ \A x \in wire' : Sound(x)
<1>1. world \in World
  BY DEF TypeOK
<1>2. Back("reply", pk) \in Packet /\ Back("reply", pk).src = pk.dst
  BY BackTyped DEF Kind, Icmp
<1>. QED BY <1>1, <1>2, SentSound DEF AnswerEcho

LEMMA HeededTyped ==
  ASSUME TypeOK, NEW d \in Device, NEW pk \in Packet
  PROVE  Heeded(d, pk) \subseteq Inbox
<1>1. [kind |-> pk.kind, from |-> pk.src] \in Inbox
  BY DEF Packet, Inbox
<1>. QED BY <1>1 DEF Heeded, TypeOK

LEMMA KeepsSound ==
  ASSUME TypeOK, NEW d \in Device, NEW pk \in Packet, Keeps(d, pk)
  PROVE  inbox' \subseteq Inbox /\ \A x \in wire' : Sound(x)
BY HeededTyped DEF Keeps

LEMMA HostSound ==
  ASSUME TypeOK, NEW h \in Host, NEW pk \in Packet, HostReceives(h, pk)
  PROVE  inbox' \subseteq Inbox /\ nat' = nat /\ \A x \in wire' : Sound(x)
<1>1. world \in World /\ inbox \subseteq Inbox
  BY DEF TypeOK
<1>2. h \in Device /\ h \notin Router
  BY DevicesAssumption DEF Device
<1>3. nat' = nat
  BY DEF HostReceives
<1>4. CASE pk.dst \notin AddressesOf(h)
  BY <1>1, <1>3, <1>4 DEF HostReceives, Consumed
<1>5. CASE pk.dst \in AddressesOf(h)
  <2>1. CASE HostEcho(h, pk)
    BY <1>1, <1>2, <1>3, <1>5, <2>1, EchoSound DEF HostEcho
  <2>2. CASE HostSyn(h, pk)
    <3>1. PICK kind \in {"syn-ack", "rst"} : wire' = Sent(h, Back(kind, pk))
      BY <2>2 DEF HostSyn
    <3>2. Back(kind, pk) \in Packet
      BY <3>1, BackTyped DEF Kind, Tcp
    <3>. QED BY <1>1, <1>2, <1>3, <2>2, <3>1, <3>2, SentSound DEF HostSyn
  <2>3. CASE HostDatagram(h, pk)
    <3>1. CASE Listens(h, "UDP", pk.dport)
      BY <1>2, <1>3, <2>3, <3>1, HeededTyped DEF HostDatagram, Consumed
    <3>2. CASE ~Listens(h, "UDP", pk.dport)
      <4>1. wire' = Sent(h, Error("no-port", pk.dst, pk)) /\ inbox' = inbox
        BY <2>3, <3>2 DEF HostDatagram
      <4>2. Error("no-port", pk.dst, pk) \in Packet
        BY ErrorTyped DEF Errors, Packet
      <4>. QED BY <1>1, <1>2, <1>3, <4>1, <4>2, SentSound
    <3>. QED BY <3>1, <3>2
  <2>4. CASE HostKeeps(h, pk)
    BY <1>2, <1>3, <2>4, KeepsSound DEF HostKeeps
  <2>. QED BY <1>5, <2>1, <2>2, <2>3, <2>4 DEF HostReceives
<1>. QED BY <1>4, <1>5

-------------------------------------------------------------------------------
LEMMA ComplaintSound ==
  ASSUME TypeOK, NEW r \in Router, NEW in \in Iface, Owner[in] = r, NEW pk \in Packet,
         NEW kind \in Errors, Complains(r, in, kind, pk)
  PROVE  \A x \in wire' : Sound(x)
<1>1. world \in World
  BY DEF TypeOK
<1>2. r \in Device
  BY DEF Device
<1>3. AddrOf[in] \in Addr /\ AddrOf[in] \in AddressesOf(r)
  BY DevicesAssumption DEF AddressesOf
<1>4. /\ Error(kind, AddrOf[in], pk) \in Packet
      /\ Error(kind, AddrOf[in], pk).src \in AddressesOf(r)
  BY <1>3, ErrorTyped
<1>5. wire' = {} \/ wire' = Sent(r, Error(kind, AddrOf[in], pk))
  BY DEF Complains, Consumed
<1>. QED BY <1>1, <1>2, <1>4, <1>5, SentSound

LEMMA BoundTyped ==
  ASSUME TypeOK, NEW r \in Router, NEW pk \in Packet
  PROVE  Bound(r, pk) \in [Router -> Seq(NatEntry)]
<1>1. Binding(pk) \in NatEntry
  BY ProtocolTyped DEF Binding, NatEntry, Packet
<1>. QED BY <1>1 DEF Bound, TypeOK

(* Router._forward: what it sends is sound, translated or not. *)
LEMMA ForwardSound ==
  ASSUME TypeOK, NEW r \in Router, NEW in \in Iface, Owner[in] = r, NEW pk \in Packet,
         Forward(r, in, pk)
  PROVE  nat' \in [Router -> Seq(NatEntry)] /\ \A x \in wire' : Sound(x)
<1>1. world \in World /\ nat \in [Router -> Seq(NatEntry)]
  BY DEF TypeOK
<1>2. {"expired", "no-net", "no-host"} \subseteq Errors
  BY DEF Errors
<1>3. CASE Expires(pk)
  BY <1>1, <1>2, <1>3, ComplaintSound DEF Forward
<1>4. CASE ~Expires(pk) /\ RouterHops(world, r, pk.dst) = {}
  BY <1>1, <1>2, <1>4, ComplaintSound DEF Forward
<1>5. CASE ~Expires(pk) /\ RouterHops(world, r, pk.dst) # {}
  <2>. DEFINE aged == [pk EXCEPT !.ttl = @ - 1]
              named(hop) == IF Translates(r, hop.out, pk)
                              THEN [aged EXCEPT !.src = AddrOf[hop.out]] ELSE aged
  <2>1. PICK hop \in RouterHops(world, r, pk.dst) :
          /\ nat' = IF Translates(r, hop.out, pk) THEN Bound(r, pk) ELSE nat
          /\ IF Holders(hop) = {}
               THEN Complains(r, in, "no-host", pk)
               ELSE wire' = {[pk |-> named(hop), from |-> hop.out, on |-> WireOf[hop.out],
                              to |-> j] : j \in Holders(hop)}
    BY <1>5 DEF Forward
  <2>2. nat' \in [Router -> Seq(NatEntry)]
    BY <1>1, <2>1, BoundTyped
  <2>3. r \in Device /\ r \notin Host /\ pk.dst \in Addr
    BY DevicesAssumption DEF Device, Packet
  <2>4. hop.out \in Iface /\ Owner[hop.out] = r
    BY <1>1, <2>1, <2>3, HopsTyped DEF Hops
  <2>5. CASE Holders(hop) = {}
    BY <1>2, <2>1, <2>2, <2>5, ComplaintSound
  <2>6. CASE Holders(hop) # {}
    <3>1. aged \in Packet /\ aged.src = pk.src
      BY DEF Packet
    <3>2. AddrOf[hop.out] \in Addr /\ AddrOf[hop.out] \in AddressesOf(r)
      BY <2>4, DevicesAssumption DEF AddressesOf
    <3>3. named(hop) \in Packet
      BY <3>1, <3>2 DEF Packet
    <3>4. hop.out = world.nat[r] => named(hop).src \in AddressesOf(r)
      BY <3>1, <3>2 DEF Translates, Packet
    <3>5. ASSUME NEW x \in wire' PROVE Sound(x)
      <4>. HIDE DEF named
      <4>1. PICK j \in Holders(hop) :
              x = [pk |-> named(hop), from |-> hop.out, on |-> WireOf[hop.out], to |-> j]
        BY <2>1, <2>6
      <4>2. j \in Iface /\ WireOf[hop.out] \in Wire
        BY <2>4, DevicesAssumption DEF Holders
      <4>3. x \in Flight
        BY <2>4, <3>3, <4>1, <4>2 DEF Flight
      <4>. QED BY <2>4, <3>4, <4>1, <4>3 DEF Sound
    <3>. QED BY <2>2, <3>5
  <2>. QED BY <2>5, <2>6
<1>. QED BY <1>3, <1>4, <1>5

LEMMA RouterSound ==
  ASSUME TypeOK, NEW r \in Router, NEW in \in Iface, Owner[in] = r, NEW pk \in Packet,
         RouterReceives(r, in, pk)
  PROVE  /\ nat' \in [Router -> Seq(NatEntry)]
         /\ inbox' \subseteq Inbox
         /\ \A x \in wire' : Sound(x)
<1>1. nat \in [Router -> Seq(NatEntry)] /\ inbox \subseteq Inbox
  BY DEF TypeOK
<1>2. CASE Bindings(r, in, pk) # {}
  <2>. DEFINE n == First(Bindings(r, in, pk))
              handed == [pk EXCEPT !.dst = nat[r][n].inside]
  <2>1. Forward(r, in, handed) /\ inbox' = inbox
    BY <1>2 DEF RouterReceives
  <2>2. Bindings(r, in, pk) \subseteq DOMAIN nat[r]
    BY DEF Bindings
  <2>3. nat[r] \in Seq(NatEntry) /\ DOMAIN nat[r] \subseteq Nat
    BY <1>1
  <2>4. n \in DOMAIN nat[r]
    BY <1>2, <2>2, <2>3, FirstIsOne
  <2>5. nat[r][n].inside \in Addr
    <3>1. nat[r][n] \in NatEntry
      BY <2>3, <2>4, ElementTyped
    <3>. QED BY <3>1 DEF NatEntry
  <2>6. handed \in Packet
    BY <2>5 DEF Packet
  <2>. QED BY <1>1, <2>1, <2>6, ForwardSound
<1>3. CASE Bindings(r, in, pk) = {} /\ pk.dst \in AddressesOf(r)
  <2>1. RouterKeeps(r, pk) /\ r \in Device
    BY <1>3 DEF RouterReceives, Device
  <2>2. nat' = nat
    BY <2>1 DEF RouterKeeps
  <2>3. CASE Protocol(pk.kind) # "ICMP"
    BY <1>1, <2>1, <2>2, <2>3 DEF RouterKeeps, Consumed
  <2>4. CASE Protocol(pk.kind) = "ICMP" /\ pk.kind = "echo"
    BY <1>1, <1>3, <2>1, <2>2, <2>4, EchoSound DEF RouterKeeps
  <2>5. CASE Protocol(pk.kind) = "ICMP" /\ pk.kind # "echo"
    BY <1>1, <2>1, <2>2, <2>5, KeepsSound DEF RouterKeeps
  <2>. QED BY <2>3, <2>4, <2>5
<1>4. CASE Bindings(r, in, pk) = {} /\ pk.dst \notin AddressesOf(r)
  BY <1>1, <1>4, ForwardSound DEF RouterReceives
<1>. QED BY <1>2, <1>3, <1>4

(* Firewall.receive_frame: the packet is the same on the other side. *)
LEMMA CrossSound ==
  ASSUME TypeOK, NEW f \in Firewall, NEW x \in wire, Sound(x), Cross(f, x)
  PROVE  /\ established' \in [Firewall -> SUBSET Flow]
         /\ ruled' \in [Firewall -> SUBSET Flow]
         /\ \A y \in wire' : Sound(y)
<1>1. x \in Flight /\ x.pk \in Packet
  BY DEF Sound, Flight
<1>2. FlowOf(x.pk) \in Flow /\ Reverse(FlowOf(x.pk)) \in Flow
  BY <1>1, FlowTyped
<1>3. established \in [Firewall -> SUBSET Flow] /\ ruled \in [Firewall -> SUBSET Flow]
  BY DEF TypeOK
<1>4. Remembers(f, x.pk) \in SUBSET Flow
  BY <1>2, <1>3 DEF Remembers
<1>5. established' = [established EXCEPT ![f] = Remembers(f, x.pk)]
  BY DEF Cross
<1>6. ruled' = ruled \/ ruled' = [ruled EXCEPT ![f] = @ \cup {FlowOf(x.pk)}]
  BY DEF Cross
<1>7. wire' = {} \/ wire' = {[x EXCEPT !.on = WireOf[x.to]]}
  BY DEF Cross, Consumed
<1>8. WireOf[x.to] \in Wire
  BY <1>1, DevicesAssumption DEF Flight
<1>9. Sound([x EXCEPT !.on = WireOf[x.to]])
  BY <1>1, <1>8 DEF Sound, Flight
<1>. QED BY <1>2, <1>3, <1>4, <1>5, <1>6, <1>7, <1>9

-------------------------------------------------------------------------------
(* What is inductive: types, and every frame in flight sound. *)
Carried == \A x \in wire : Sound(x)

LEMMA ProbesSound ==
  ASSUME TypeOK, command \in Command
  PROVE  \A x \in ProbesOf(command.at) : Sound(x)
<1>1. world \in World /\ command.at \in Device /\ command.target \in Addr
  BY DEF TypeOK, Command
<1>2. command.port \in Nat /\ Len(report) + 1 \in Nat /\ 1 \in Nat
  BY DEF TypeOK, Command
<1>3. ASSUME NEW hop \in Hops(world, command.at, command.target)
      PROVE  \A x \in Sent(command.at, ProbeOf(hop.out)) : Sound(x)
  <2>1. hop.out \in Iface /\ Owner[hop.out] = command.at
    BY <1>1, HopsTyped
  <2>2. AddrOf[hop.out] \in Addr /\ AddrOf[hop.out] \in AddressesOf(command.at)
    BY <2>1, DevicesAssumption DEF AddressesOf
  <2>3. ASSUME NEW kind \in {"echo", "syn", "datagram"}, NEW sport \in Nat, NEW dport \in Nat,
               NEW ttl \in Int
        PROVE  /\ Probe(kind, hop.out, sport, dport, ttl) \in Packet
               /\ Probe(kind, hop.out, sport, dport, ttl).src = AddrOf[hop.out]
    BY <1>1, <2>2 DEF Probe, Packet, Kind, Icmp, Tcp
  <2>4. ProbeOf(hop.out) \in Packet /\ ProbeOf(hop.out).src = AddrOf[hop.out]
    <3>1. DefaultTtl \in Int /\ ClientPort \in Nat
      BY PortAssumption, LimitsAssumption
    <3>2. Len(report) + 1 \in Int
      BY <1>2
    <3>3. CASE command.tool = "ping"
      <4>1. ProbeOf(hop.out) = Probe("echo", hop.out, 1, 1, DefaultTtl)
        BY <3>3 DEF ProbeOf
      <4>. QED BY <1>2, <2>3, <3>1, <4>1
    <3>4. CASE command.tool = "trace"
      <4>. DEFINE n == Len(report) + 1
      <4>1. ProbeOf(hop.out) = Probe("echo", hop.out, n, n, n)
        BY <3>4 DEF ProbeOf
      <4>. QED BY <1>2, <2>3, <3>2, <4>1
    <3>5. CASE command.tool = "tcp"
      <4>1. ProbeOf(hop.out) = Probe("syn", hop.out, ClientPort, command.port, DefaultTtl)
        BY <3>5 DEF ProbeOf
      <4>2. PICK p \in Nat : p = command.port
        BY <1>2
      <4>3. /\ Probe("syn", hop.out, ClientPort, p, DefaultTtl) \in Packet
            /\ Probe("syn", hop.out, ClientPort, p, DefaultTtl).src = AddrOf[hop.out]
        BY <2>3, <3>1
      <4>. QED BY <4>1, <4>2, <4>3
    <3>6. CASE command.tool = "udp"
      <4>1. ProbeOf(hop.out) = Probe("datagram", hop.out, ClientPort, command.port, DefaultTtl)
        BY <3>6 DEF ProbeOf
      <4>2. PICK p \in Nat : p = command.port
        BY <1>2
      <4>3. /\ Probe("datagram", hop.out, ClientPort, p, DefaultTtl) \in Packet
            /\ Probe("datagram", hop.out, ClientPort, p, DefaultTtl).src = AddrOf[hop.out]
        BY <2>3, <3>1
      <4>. QED BY <4>1, <4>2, <4>3
    <3>. QED BY <3>3, <3>4, <3>5, <3>6 DEF Command
  <2>. QED BY <1>1, <2>2, <2>4, SentSound
<1>. QED BY <1>3 DEF ProbesOf

LEMMA ArriveStep ==
  ASSUME TypeOK, Carried, NEW x \in wire, Arrive(x)
  PROVE  /\ nat' \in [Router -> Seq(NatEntry)]
         /\ inbox' \subseteq Inbox
         /\ established' = established /\ ruled' = ruled
         /\ \A y \in wire' : Sound(y)
<1>1. x.pk \in Packet /\ x.to \in Iface
  BY DEF Carried, Sound, Flight
<1>2. CASE Owner[x.to] \in Host /\ HostReceives(Owner[x.to], x.pk)
  BY <1>1, <1>2, HostSound DEF Arrive, TypeOK
<1>3. CASE Owner[x.to] \in Router /\ RouterReceives(Owner[x.to], x.to, x.pk)
  BY <1>1, <1>3, RouterSound DEF Arrive
<1>. QED BY <1>2, <1>3 DEF Arrive

LEMMA EmptyTables ==
  /\ NoNat \in [Router -> Seq(NatEntry)]
  /\ NoFlows \in [Firewall -> SUBSET Flow]
  /\ <<>> \in Seq(LineType)
<1>1. NoFlows \in [Firewall -> SUBSET Flow]
  BY DEF NoFlows
<1>2. NoNat \in [Router -> Seq(NatEntry)]
  BY DEF NoNat
<1>. QED BY <1>1, <1>2

LEMMA PathStep ==
  ASSUME TypeOK, Carried, [PathNext]_vars
  PROVE  TypeOK' /\ Carried'
<1>1. world' = world
  BY DEF PathNext, Begin, Try, Deliver, StopAtHopLimit, Conclude, Finish, vars
<1>2. \A x : Sound(x)' <=> Sound(x)
  BY <1>1 DEF Sound
<1>3. SUFFICES TypeOK' /\ \A x \in wire' : Sound(x)
  BY <1>2 DEF Carried
<1>4. \A x : Sound(x) => x \in Flight
  BY DEF Sound
<1>5. CASE Begin
  BY <1>5, CommandsAssumption DEF Begin, TypeOK, Carried
<1>6. CASE Try
  <2>1. command \in Command
    BY <1>6 DEF Try, TypeOK
  <2>2. \A x \in wire' : Sound(x)
    BY <1>6, <2>1, ProbesSound DEF Try
  <2>3. Line("stuck", None) \in LineType
    BY DEF Line, LineType
  <2>4. report' \in Seq(LineType)
    BY <1>6, <2>3 DEF Try, TypeOK
  <2>. QED BY <1>4, <1>6, <2>2, <2>4 DEF Try, TypeOK
<1>7. CASE Deliver
  <2>1. hops' \in Nat
    BY <1>7 DEF Deliver, TypeOK
  <2>2. PICK x \in wire : Arrive(x) \/ \E f \in Firewall : Cross(f, x)
    BY <1>7 DEF Deliver
  <2>3. CASE Arrive(x)
    <3>1. /\ nat' \in [Router -> Seq(NatEntry)] /\ inbox' \subseteq Inbox
          /\ established' = established /\ ruled' = ruled
          /\ \A y \in wire' : Sound(y)
      BY <2>3, ArriveStep
    <3>. QED BY <1>4, <1>7, <2>1, <3>1 DEF Deliver, TypeOK
  <2>4. ASSUME NEW f \in Firewall, Cross(f, x)
        PROVE  TypeOK' /\ \A y \in wire' : Sound(y)
    <3>1. Sound(x)
      BY DEF Carried
    <3>2. /\ established' \in [Firewall -> SUBSET Flow] /\ ruled' \in [Firewall -> SUBSET Flow]
          /\ \A y \in wire' : Sound(y)
      BY <2>4, <3>1, CrossSound
    <3>. QED BY <1>4, <1>7, <2>1, <2>4, <3>2 DEF Deliver, Cross, TypeOK
  <2>. QED BY <2>2, <2>3, <2>4
<1>8. CASE StopAtHopLimit
  BY <1>8 DEF StopAtHopLimit, TypeOK
<1>9. CASE Conclude
  <2>1. Line("silent", None) \in LineType
    BY DEF Line, LineType
  <2>2. \A m \in inbox : Line(m.kind, m.from) \in LineType
    BY DEF TypeOK, Inbox, Line, LineType
  <2>3. report' \in Seq(LineType)
    <3>1. \E l \in LineType : report' = Append(report, l)
      BY <1>9, <2>1, <2>2 DEF Conclude, Heard
    <3>. QED BY <3>1 DEF TypeOK
  <2>. QED BY <1>9, <2>3 DEF Conclude, TypeOK, Carried
<1>10. CASE Finish
  <2>1. \A x \in wire' : Sound(x)
    BY <1>10 DEF Finish, Carried
  <2>2. nat' \in [Router -> Seq(NatEntry)]
    BY <1>10, EmptyTables DEF Finish
  <2>3. established' \in [Firewall -> SUBSET Flow] /\ ruled' \in [Firewall -> SUBSET Flow]
    BY <1>10, EmptyTables DEF Finish
  <2>4. report' \in Seq(LineType)
    BY <1>10, EmptyTables DEF Finish
  <2>. QED BY <1>10, <2>1, <2>2, <2>3, <2>4 DEF Finish, TypeOK
<1>11. CASE UNCHANGED vars
  BY <1>11 DEF vars, TypeOK, Carried
<1>. QED BY <1>5, <1>6, <1>7, <1>8, <1>9, <1>10, <1>11 DEF PathNext

LEMMA PathInvariant == Spec => [](TypeOK /\ Carried)
<1>1. Init => TypeOK /\ Carried
  <2>1. ASSUME Init PROVE Carried
    BY <2>1 DEF Init, Carried
  <2>2. ASSUME Init PROVE TypeOK
    BY <2>2, EmptyTables, WorldsAssumption, LimitsAssumption DEF Init, TypeOK, NoCommand
  <2>. QED BY <2>1, <2>2
<1>2. TypeOK /\ Carried /\ [PathNext]_vars => (TypeOK /\ Carried)'
  BY PathStep
<1>. QED BY <1>1, <1>2, PTL DEF Spec

(* Every variable keeps its type, for every network and configuration.     *)
THEOREM TypeCorrect == Spec => []TypeOK
BY PathInvariant, PTL

(* What leaves by the outside interface of a translating router carries an *)
(* address of the router (router.py:384).                                  *)
THEOREM PrivateAddressesStayInside == Spec => []NatHidesHosts
<1>1. TypeOK /\ Carried => NatHidesHosts
  BY DEF Carried, Sound, NatHidesHosts
<1>. QED BY <1>1, PathInvariant, PTL

(* A firewall lets traffic pass unchecked only in a conversation that its  *)
(* rules let out (firewall.py:81).                                         *)
THEOREM OnlyAllowedConversations == Spec => []ConversationsWereAllowed
<1>1. Init => ConversationsWereAllowed
  BY DEF Init, ConversationsWereAllowed, NoFlows
<1>2. ASSUME TypeOK, Carried, ConversationsWereAllowed, [PathNext]_vars
      PROVE  ConversationsWereAllowed'
  <2>1. CASE Deliver
    <3>1. PICK x \in wire : Arrive(x) \/ \E f \in Firewall : Cross(f, x)
      BY <2>1 DEF Deliver
    <3>2. CASE Arrive(x)
      BY <1>2, <3>2 DEF Arrive, ConversationsWereAllowed
    <3>3. ASSUME NEW f \in Firewall, Cross(f, x)
          PROVE  ConversationsWereAllowed'
      <4>. DEFINE flow == FlowOf(x.pk)
      <4>1. x.pk \in Packet
        BY <1>2 DEF Carried, Sound, Flight
      <4>2. flow \in Flow /\ Reverse(Reverse(flow)) = flow
        BY <4>1, FlowTyped, ReverseTwice
      <4>3. established \in [Firewall -> SUBSET Flow] /\ ruled \in [Firewall -> SUBSET Flow]
        BY <1>2 DEF TypeOK
      <4>4. \A g \in Firewall : ruled[g] \subseteq ruled'[g]
        BY <3>3, <4>3 DEF Cross
      <4>5. \A g \in Firewall \ {f} : established'[g] = established[g]
        BY <3>3, <4>3 DEF Cross
      <4>6. ASSUME NEW e \in established'[f]
            PROVE  e \in ruled'[f] \/ Reverse(e) \in ruled'[f]
        <5>1. CASE e \in established[f]
          BY <1>2, <4>4, <5>1 DEF ConversationsWereAllowed
        <5>2. CASE e \notin established[f]
          <6>1. /\ e = Reverse(flow)
                /\ flow \in established[f] \/ RulesAllow(f, x.pk)
            BY <3>3, <4>3, <5>2 DEF Cross, Remembers
          <6>2. CASE flow \in established[f]
            BY <1>2, <4>2, <4>4, <6>1, <6>2 DEF ConversationsWereAllowed
          <6>3. CASE flow \notin established[f]
            <7>1. flow \in ruled'[f]
              BY <3>3, <4>3, <6>1, <6>3 DEF Cross
            <7>. QED BY <4>2, <6>1, <7>1
          <6>. QED BY <6>2, <6>3
        <5>. QED BY <5>1, <5>2
      <4>. QED BY <1>2, <4>4, <4>5, <4>6 DEF ConversationsWereAllowed
    <3>. QED BY <3>1, <3>2, <3>3
  <2>2. CASE Finish
    BY <2>2 DEF Finish, ConversationsWereAllowed, NoFlows
  <2>3. CASE Begin \/ Try \/ StopAtHopLimit \/ Conclude \/ UNCHANGED vars
    BY <1>2, <2>3 DEF Begin, Try, StopAtHopLimit, Conclude, vars, ConversationsWereAllowed
  <2>. QED BY <1>2, <2>1, <2>2, <2>3 DEF PathNext
<1>. QED BY <1>1, <1>2, PathInvariant, PTL DEF Spec

-------------------------------------------------------------------------------
(* What a verdict rests on.  A probe goes to the target; where the target  *)
(* is a public address, it may be handed on to any address.                *)
Probes == {"echo", "syn", "datagram"}
Complaints == {"expired", "no-net", "no-host"}
Aims == IF PublicTarget THEN Addr ELSE {command.target}

(* What a command would hear first, or at all. *)
Audible == UNION {Priorities[n] : n \in DOMAIN Priorities}
Wanted == CASE command.tool \in {"ping", "trace"} -> "echo"
            [] command.tool = "tcp" -> "syn"
            [] OTHER -> "datagram"

(* Something of this kind is about because of what a packet met. *)
Met(kind) ==
  \E a \in (IF kind \in Complaints THEN Addr ELSE Aims) : Fate(Cause(kind), a) \in fates
MetAtTarget(kind) == Fate(Cause(kind), command.target) \in fates

Aimed(pk) ==
  /\ pk.kind \in Probes => pk.kind = Wanted /\ pk.dst \in Aims
  /\ pk.kind \notin Probes => pk.kind \in Audible /\ Met(pk.kind)

(* With addresses left alone, it is the probe, or comes back from what the *)
(* probe met, or says what an answer met.                                  *)
Plain(pk) ==
  /\ pk.kind \in Probes => pk.src \in AddressesOf(command.at)
  /\ pk.kind \notin Probes =>
       \/ pk.dst \in AddressesOf(command.at) /\ MetAtTarget(pk.kind)
       \/ pk.kind \in Errors /\ pk.dst = command.target
  /\ pk.kind \notin Probes \cup Errors => pk.src = command.target

Honest(pk) == Aimed(pk) /\ (Untranslated => Plain(pk))
Believable(kind) == Met(kind) /\ (Untranslated => MetAtTarget(kind))

(* While a probe is under way: every packet and every message heard has    *)
(* its cause, and there is one of them unless something was lost.          *)
Story ==
  /\ \A x \in wire : Honest(x.pk)
  /\ \A m \in inbox : m.kind \in Audible /\ Believable(m.kind)
  /\ wire # {} \/ inbox # {} \/ Fates \cap Lost # {} \/ command.tool = "udp"

(* Between probes: nothing is under way, and the last line is to be        *)
(* believed.                                                               *)
Orderly ==
  /\ command \in Commands \cup {NoCommand}
  /\ command = NoCommand => report = <<>> /\ ~waiting
  /\ ~waiting => wire = {}
  /\ waiting => Story
  /\ Concluded /\ LastLine.what \in Kind => Believable(LastLine.what)
  /\ SilenceMeansLoss

LEMMA AudibleKinds ==
  ASSUME command \in Command
  PROVE  /\ Errors \subseteq Audible
         /\ Wanted = "echo" => "reply" \in Audible
         /\ Wanted = "syn" => "syn-ack" \in Audible /\ "rst" \in Audible
         /\ Wanted = "datagram" => command.tool = "udp" /\ "datagram" \in Audible
         /\ \A m : m \in Audible <=> \E n \in DOMAIN Priorities : m \in Priorities[n]
<1>1. command.tool \in {"ping", "trace", "tcp", "udp"}
  BY DEF Command
<1>2. CASE command.tool = "ping"
  <2>1. Priorities = <<{"reply"}, Errors>> /\ Wanted = "echo"
    BY <1>2 DEF Priorities, Wanted
  <2>2. DOMAIN Priorities = {1, 2} /\ Priorities[1] = {"reply"} /\ Priorities[2] = Errors
    BY <2>1
  <2> QED BY <1>2, <2>1, <2>2 DEF Audible
<1>3. CASE command.tool = "trace"
  <2>1. Priorities = <<{"reply"}, {"expired"}, Errors>> /\ Wanted = "echo"
    BY <1>3 DEF Priorities, Wanted
  <2>2. /\ DOMAIN Priorities = {1, 2, 3}
        /\ Priorities[1] = {"reply"} /\ Priorities[2] = {"expired"} /\ Priorities[3] = Errors
    BY <2>1
  <2> QED BY <1>3, <2>1, <2>2 DEF Audible
<1>4. CASE command.tool \in {"tcp", "udp"}
  <2>1. Priorities = <<{"syn-ack", "rst"}, {"datagram"}, Errors>>
    BY <1>4 DEF Priorities
  <2>2. /\ DOMAIN Priorities = {1, 2, 3} /\ Priorities[1] = {"syn-ack", "rst"}
        /\ Priorities[2] = {"datagram"} /\ Priorities[3] = Errors
    BY <2>1
  <2>3. Wanted = IF command.tool = "tcp" THEN "syn" ELSE "datagram"
    BY <1>4 DEF Wanted
  <2> QED BY <1>4, <2>2, <2>3 DEF Audible
<1> QED BY <1>1, <1>2, <1>3, <1>4

(* What was known of a packet or a message stays known. *)
LEMMA Sustained ==
  ASSUME UNCHANGED <<world, command>>, fates \subseteq fates'
  PROVE  /\ Aims' = Aims /\ Audible' = Audible /\ Wanted' = Wanted
         /\ Untranslated' = Untranslated
         /\ \A kind : Met(kind) => Met(kind)'
         /\ \A kind : MetAtTarget(kind) => MetAtTarget(kind)'
         /\ \A kind : Believable(kind) => Believable(kind)'
         /\ \A pk : Honest(pk) => Honest(pk)'
         /\ Fates \subseteq Fates'
<1>1. Aims' = Aims /\ Untranslated' = Untranslated
  BY DEF Aims, PublicTarget, Untranslated
<1>2. Audible' = Audible /\ Wanted' = Wanted
  BY DEF Audible, Priorities, Wanted
<1>3. \A kind : Met(kind) => Met(kind)'
  BY <1>1 DEF Met
<1>4. \A kind : MetAtTarget(kind) => MetAtTarget(kind)'
  BY DEF MetAtTarget
<1>5. Fates \subseteq Fates'
  BY DEF Fates
<1>6. \A pk : Aimed(pk) => Aimed(pk)'
  BY <1>1, <1>2, <1>3 DEF Aimed
<1>7. \A pk : Plain(pk) => Plain(pk)'
  BY <1>4 DEF Plain
<1> QED BY <1>1, <1>2, <1>3, <1>4, <1>5, <1>6, <1>7 DEF Honest, Believable

LEMMA LossIsKnown ==
  ASSUME NEW what \in Lost, NEW a, Fate(what, a) \in fates'
  PROVE  (Fates \cap Lost)' # {}
<1>1. Fate(what, a).what = what
  BY DEF Fate
<1> QED BY <1>1 DEF Fates, Lost

(* The ways a probe's story goes on: a device sends a packet with a cause, *)
(* or nothing comes of the packet that arrived.                            *)
LEMMA SendsOn ==
  ASSUME world \in World, Story, UNCHANGED <<world, command, inbox>>, fates \subseteq fates',
         NEW d \in Device, NEW pk \in Packet, NEW a, Honest(pk)', wire' = Sent(d, pk),
         Sent(d, pk) = {} => Fate("unsent", a) \in fates'
  PROVE  Story'
<1>1. \A x \in wire' : x.pk = pk
  BY SentTyped
<1>2. \A m \in inbox' : m.kind \in Audible' /\ Believable(m.kind)'
  BY Sustained DEF Story
<1>3. wire' # {} \/ (Fates \cap Lost)' # {}
  BY LossIsKnown DEF Lost
<1>4. \A x \in wire' : Honest(x.pk)'
  BY <1>1
<1> QED BY <1>2, <1>3, <1>4 DEF Story

LEMMA EndsHere ==
  ASSUME Story, UNCHANGED <<world, command>>, fates \subseteq fates', wire' = {},
         inbox' = inbox \/ \E m : inbox' = inbox \cup {m} /\ m.kind \in Audible
                                 /\ Believable(m.kind)',
         (Fates \cap Lost)' # {} \/ inbox' # {} \/ command.tool = "udp"
  PROVE  Story'
<1>1. \A m \in inbox' : m.kind \in Audible' /\ Believable(m.kind)'
  BY Sustained DEF Story
<1> QED BY <1>1 DEF Story

(* Where no router translates, no target is handed on. *)
LEMMA AimsTyped ==
  ASSUME command \in Command
  PROVE  Aims \subseteq Addr /\ (Untranslated => Aims = {command.target})
BY DEF Aims, Untranslated, PublicTarget, Command

LEMMA AnswerToProbe ==
  ASSUME UNCHANGED <<world, command>>, fates \subseteq fates', command \in Command,
         NEW pk \in Packet, Honest(pk), pk.kind \in Probes,
         NEW answer, answer.kind \in Audible \ Probes, answer.dst = pk.src,
         answer.kind \notin Errors => answer.src = pk.dst,
         Fate(Cause(answer.kind), pk.dst) \in fates'
  PROVE  Honest(answer)'
<1>1. pk.dst \in Aims /\ pk.dst \in Addr
  BY DEF Honest, Aimed, Packet
<1>2. Met(answer.kind)'
  BY <1>1, Sustained DEF Met
<1>3. Aimed(answer)'
  BY <1>2, Sustained DEF Aimed
<1>4. ASSUME Untranslated PROVE Plain(answer)'
  <2>1. pk.dst = command.target
    BY <1>1, <1>4, AimsTyped
  <2>2. pk.src \in AddressesOf(command.at)
    BY <1>4 DEF Honest, Plain
  <2> QED BY <2>1, <2>2 DEF Plain, MetAtTarget
<1> QED BY <1>3, <1>4, Sustained DEF Honest

LEMMA EchoHonest ==
  ASSUME TypeOK, command \in Command, Story, UNCHANGED <<world, command>>,
         NEW d \in Device, NEW pk \in Packet, Honest(pk), pk.kind = "echo", AnswerEcho(d, pk)
  PROVE  Story'
<1> DEFINE reply == Back("reply", pk)
<1>1. fates \subseteq fates' /\ Fate("echoed", pk.dst) \in fates'
  BY DEF AnswerEcho
<1>2. Wanted = "echo"
  BY DEF Honest, Aimed, Probes
<1>3. reply \in Packet
  BY BackTyped DEF Kind, Icmp
<1>4. reply.kind = "reply" /\ reply.dst = pk.src /\ reply.src = pk.dst
  BY DEF Back
<1>5. reply.kind \in Audible \ Probes /\ Cause(reply.kind) = "echoed"
  BY <1>2, <1>4, AudibleKinds DEF Probes, Cause
<1>6. Honest(reply)'
  BY <1>1, <1>4, <1>5, AnswerToProbe DEF Probes
<1>7. wire' = Sent(d, reply) /\ inbox' = inbox
      /\ (Sent(d, reply) = {} => Fate("unsent", pk.dst) \in fates')
  BY DEF AnswerEcho
<1> HIDE DEF reply
<1> QED BY <1>1, <1>3, <1>6, <1>7, SendsOn DEF TypeOK

(* Keeping a message: it is an answer, and heard if it came to the command. *)
LEMMA KeepsHonest ==
  ASSUME TypeOK, command \in Command, Story, UNCHANGED <<world, command>>,
         command.target \notin AddressesOf(command.at),
         NEW d \in Device, NEW pk \in Packet, Honest(pk), pk.kind \notin Probes,
         pk.dst \in AddressesOf(d), Keeps(d, pk)
  PROVE  Story'
<1>1. wire' = {} /\ fates \subseteq fates'
  BY DEF Keeps
<1>2. CASE d = command.at
  <2> DEFINE m == [kind |-> pk.kind, from |-> pk.src]
  <2>1. inbox' = inbox \cup {m}
    BY <1>2 DEF Keeps, Heeded
  <2>2. pk.kind \in Audible /\ Met(pk.kind)
    BY DEF Honest, Aimed
  <2>3. Untranslated => MetAtTarget(pk.kind)
    BY <1>2 DEF Honest, Plain
  <2>4. Believable(m.kind)'
    BY <1>1, <2>2, <2>3, Sustained DEF Believable
  <2> QED BY <1>1, <2>1, <2>2, <2>4, EndsHere
<1>3. CASE d # command.at
  <2>1. inbox' = inbox /\ Fate("kept", pk.dst) \in fates'
    BY <1>3 DEF Keeps, Heeded
  <2> QED BY <1>1, <2>1, EndsHere, LossIsKnown DEF Lost
<1> QED BY <1>2, <1>3

LEMMA HostHonest ==
  ASSUME TypeOK, command \in Command, Story, UNCHANGED <<world, command>>,
         command.target \notin AddressesOf(command.at),
         NEW h \in Host, NEW pk \in Packet, Honest(pk), HostReceives(h, pk)
  PROVE  Story'
<1>1. h \in Device /\ world \in World
  BY DEF Device, TypeOK
<1>2. CASE pk.dst \notin AddressesOf(h)
  BY <1>2, EndsHere, LossIsKnown DEF HostReceives, Consumed, Lost
<1>3. CASE pk.dst \in AddressesOf(h) /\ HostEcho(h, pk)
  BY <1>1, <1>3, EchoHonest DEF HostEcho, Asks
<1>4. CASE pk.dst \in AddressesOf(h) /\ HostKeeps(h, pk)
  BY <1>1, <1>4, KeepsHonest DEF HostKeeps, Asks, Probes
<1>5. CASE HostSyn(h, pk)
  <2>1. PICK kind \in {"syn-ack", "rst"} :
          /\ wire' = Sent(h, Back(kind, pk))
          /\ Fate(Cause(kind), pk.dst) \in fates'
          /\ Sent(h, Back(kind, pk)) = {} => Fate("unsent", pk.dst) \in fates'
    BY <1>5 DEF HostSyn, Listens, Cause
  <2>2. fates \subseteq fates' /\ inbox' = inbox /\ pk.kind = "syn"
    BY <1>5 DEF HostSyn
  <2>3. PICK answer \in Packet :
          answer = Back(kind, pk) /\ answer.kind = kind /\ answer.dst = pk.src /\ answer.src = pk.dst
    <3>1. Back(kind, pk) \in Packet
      BY BackTyped DEF Kind, Tcp
    <3> QED BY <3>1 DEF Back
  <2>4. Wanted = "syn"
    BY <2>2 DEF Honest, Aimed, Probes
  <2>5. answer.kind \in Audible \ Probes
    BY <2>3, <2>4, AudibleKinds DEF Probes
  <2>6. Honest(answer)'
    BY <2>1, <2>2, <2>3, <2>5, AnswerToProbe DEF Probes
  <2> QED BY <1>1, <2>1, <2>2, <2>3, <2>6, SendsOn
<1>6. CASE HostDatagram(h, pk) /\ pk.dst \in AddressesOf(h)
  <2>1. pk.kind = "datagram" /\ Wanted = "datagram" /\ command.tool = "udp"
        /\ "datagram" \in Audible
    <3>1. pk.kind = "datagram" /\ Wanted = "datagram"
      BY <1>6 DEF HostDatagram, Honest, Aimed, Probes
    <3> QED BY <3>1, AudibleKinds
  <2>2. CASE Listens(h, "UDP", pk.dport)
    <3>1. /\ wire' = {} /\ fates \subseteq fates' /\ Fate("accepted", pk.dst) \in fates'
          /\ inbox' = Heeded(h, pk)
      BY <1>6, <2>2 DEF HostDatagram, Consumed
    <3>2. pk.dst \in Aims
      BY <2>1 DEF Honest, Aimed, Probes
    <3>3. h = command.at => Believable(pk.kind)'
      <4>1. Met(pk.kind)'
        BY <2>1, <3>1, <3>2, Sustained DEF Met, Cause, Complaints
      <4>2. h = command.at => ~Untranslated
        BY <1>6, <3>2, AimsTyped
      <4> QED BY <3>1, <4>1, <4>2, Sustained DEF Believable
    <3> QED BY <2>1, <3>1, <3>3, EndsHere DEF Heeded
  <2>3. CASE ~Listens(h, "UDP", pk.dport)
    <3>1. PICK error \in Packet :
            /\ error = Error("no-port", pk.dst, pk)
            /\ error.kind = "no-port" /\ error.dst = pk.src
      <4>1. Error("no-port", pk.dst, pk) \in Packet
        BY ErrorTyped DEF Errors, Packet
      <4> QED BY <4>1 DEF Error
    <3>2. /\ wire' = Sent(h, error) /\ inbox' = inbox /\ fates \subseteq fates'
          /\ Fate("refused", pk.dst) \in fates'
          /\ Sent(h, error) = {} => Fate("unsent", pk.dst) \in fates'
      BY <1>6, <2>3, <3>1 DEF HostDatagram
    <3>3. error.kind \in Audible \ Probes /\ error.kind \in Errors
          /\ Cause(error.kind) = "refused"
      BY <3>1, AudibleKinds DEF Errors, Probes, Cause
    <3>4. Honest(error)'
      BY <2>1, <3>1, <3>2, <3>3, AnswerToProbe DEF Probes
    <3> QED BY <1>1, <3>2, <3>4, SendsOn
  <2> QED BY <2>2, <2>3
<1> QED BY <1>2, <1>3, <1>4, <1>5, <1>6 DEF HostReceives

LEMMA ComplaintHonest ==
  ASSUME TypeOK, command \in Command, Story, UNCHANGED <<world, command, inbox>>,
         NEW r \in Router, NEW in \in Iface, NEW pk \in Packet, Honest(pk),
         NEW kind \in Complaints, Complains(r, in, kind, pk)
  PROVE  Story'
<1>1. r \in Device /\ world \in World
  BY DEF Device, TypeOK
<1>2. kind \in Errors /\ kind \notin Probes /\ Cause(kind) = kind
  BY DEF Errors, Complaints, Probes, Cause
<1>3. CASE pk.kind \in Errors
  BY <1>3, EndsHere, LossIsKnown DEF Complains, Consumed, Lost
<1>4. CASE pk.kind \notin Errors
  <2>1. PICK error \in Packet :
          error = Error(kind, AddrOf[in], pk) /\ error.kind = kind /\ error.dst = pk.src
    <3>1. Error(kind, AddrOf[in], pk) \in Packet
      BY <1>2, ErrorTyped, DevicesAssumption
    <3> QED BY <3>1 DEF Error
  <2>2. /\ wire' = Sent(r, error) /\ fates \subseteq fates'
        /\ Fate(kind, pk.dst) \in fates'
        /\ Sent(r, error) = {} => Fate("unsent", pk.dst) \in fates'
    BY <1>4, <2>1 DEF Complains
  <2>3. error.kind \in Audible
    BY <1>2, <2>1, AudibleKinds
  <2>4. Honest(error)'
    <3>1. CASE pk.kind \in Probes
      BY <1>2, <2>1, <2>2, <2>3, <3>1, AnswerToProbe
    <3>2. CASE pk.kind \notin Probes
      <4>1. pk.dst \in Addr
        BY DEF Packet
      <4>2. Met(error.kind)'
        BY <1>2, <2>1, <2>2, <4>1 DEF Met
      <4>3. Aimed(error)'
        BY <1>2, <2>1, <2>2, <2>3, <4>2, Sustained DEF Aimed
      <4>4. ASSUME Untranslated PROVE Plain(error)'
        <5>1. error.dst = command.target
          BY <1>4, <2>1, <3>2, <4>4 DEF Honest, Plain
        <5> QED BY <1>2, <2>1, <5>1 DEF Plain
      <4> QED BY <2>2, <4>3, <4>4, Sustained DEF Honest
    <3> QED BY <3>1, <3>2
  <2> QED BY <1>1, <2>2, <2>4, SendsOn
<1> QED BY <1>3, <1>4

(* What a packet is depends on its kind and addresses. *)
LEMMA SameHonesty ==
  ASSUME NEW pk, Honest(pk), NEW new, new.kind = pk.kind, new.dst = pk.dst,
         new.src = pk.src \/ ~Untranslated
  PROVE  Honest(new)
BY DEF Honest, Aimed, Plain

LEMMA ForwardHonest ==
  ASSUME TypeOK, command \in Command, Story, UNCHANGED <<world, command, inbox>>,
         NEW r \in Router, NEW in \in Iface, NEW pk \in Packet, Honest(pk), Forward(r, in, pk)
  PROVE  Story'
<1>1. world \in World
  BY DEF TypeOK
<1>2. CASE Expires(pk)
  BY <1>2, ComplaintHonest DEF Forward, Complaints
<1>3. CASE ~Expires(pk) /\ RouterHops(world, r, pk.dst) = {}
  BY <1>3, ComplaintHonest DEF Forward, Complaints
<1>4. CASE ~Expires(pk) /\ RouterHops(world, r, pk.dst) # {}
  <2>1. PICK hop \in RouterHops(world, r, pk.dst) : \E named :
          /\ named.kind = pk.kind /\ named.dst = pk.dst
          /\ named.src = pk.src \/ Translates(r, hop.out, pk)
          /\ IF Holders(hop) = {}
               THEN Complains(r, in, "no-host", pk)
               ELSE /\ wire' = {[pk |-> named, from |-> hop.out, on |-> WireOf[hop.out],
                                 to |-> j] : j \in Holders(hop)}
                    /\ UNCHANGED fates
    <3> DEFINE aged == [pk EXCEPT !.ttl = @ - 1]
               renamed(hop) == IF Translates(r, hop.out, pk)
                                 THEN [aged EXCEPT !.src = AddrOf[hop.out]] ELSE aged
    <3>1. PICK hop \in RouterHops(world, r, pk.dst) :
            IF Holders(hop) = {}
              THEN Complains(r, in, "no-host", pk)
              ELSE /\ wire' = {[pk |-> renamed(hop), from |-> hop.out, on |-> WireOf[hop.out],
                                to |-> j] : j \in Holders(hop)}
                   /\ UNCHANGED fates
      BY <1>4 DEF Forward
    <3>2. /\ renamed(hop).kind = pk.kind /\ renamed(hop).dst = pk.dst
          /\ renamed(hop).src = pk.src \/ Translates(r, hop.out, pk)
      BY DEF Packet
    <3> HIDE DEF renamed
    <3> QED BY <3>1, <3>2
  <2>2. CASE Holders(hop) = {}
    BY <2>1, <2>2, ComplaintHonest DEF Complaints
  <2>3. CASE Holders(hop) # {}
    <3>1. hop.out \in Iface
      <4>1. r \in Device /\ r \notin Host /\ pk.dst \in Addr
        BY DevicesAssumption DEF Device, Packet
      <4> QED BY <1>1, <4>1, HopsTyped DEF Hops
    <3>2. Translates(r, hop.out, pk) => ~Untranslated
      BY <3>1, NoneAssumption DEF Translates, Untranslated
    <3>3. PICK named :
            /\ named.kind = pk.kind /\ named.dst = pk.dst
            /\ named.src = pk.src \/ ~Untranslated
            /\ wire' # {} /\ UNCHANGED fates /\ \A x \in wire' : x.pk = named
      <4>1. PICK named :
              /\ named.kind = pk.kind /\ named.dst = pk.dst
              /\ named.src = pk.src \/ Translates(r, hop.out, pk)
              /\ wire' = {[pk |-> named, from |-> hop.out, on |-> WireOf[hop.out],
                           to |-> j] : j \in Holders(hop)}
              /\ UNCHANGED fates
        BY <2>1, <2>3
      <4> DEFINE flight(j) == [pk |-> named, from |-> hop.out, on |-> WireOf[hop.out], to |-> j]
      <4>2. wire' = {flight(j) : j \in Holders(hop)} /\ \A j : flight(j).pk = named
        BY <4>1
      <4> HIDE DEF flight
      <4>3. wire' # {} /\ \A x \in wire' : x.pk = named
        BY <2>3, <4>2
      <4> QED BY <3>2, <4>1, <4>3
    <3>4. Honest(named)
      BY <3>3, SameHonesty
    <3>5. \A m \in inbox' : m.kind \in Audible' /\ Believable(m.kind)'
      BY <3>3, Sustained DEF Story
    <3> QED BY <3>3, <3>4, <3>5, Sustained DEF Story
  <2> QED BY <2>2, <2>3
<1> QED BY <1>2, <1>3, <1>4

LEMMA RouterHonest ==
  ASSUME TypeOK, command \in Command, Story, UNCHANGED <<world, command>>,
         command.target \notin AddressesOf(command.at),
         NEW r \in Router, NEW in \in Iface, NEW pk \in Packet, Honest(pk),
         RouterReceives(r, in, pk)
  PROVE  Story'
<1>1. r \in Device
  BY DEF Device
<1>2. CASE Bindings(r, in, pk) # {}
  <2>1. PICK handed \in Packet :
          /\ handed.kind = pk.kind /\ handed.src = pk.src /\ inbox' = inbox
          /\ Forward(r, in, handed)
    <3> DEFINE inside == nat[r][First(Bindings(r, in, pk))].inside
    <3>1. Forward(r, in, [pk EXCEPT !.dst = inside]) /\ inbox' = inbox
      BY <1>2 DEF RouterReceives
    <3>2. nat[r] \in Seq(NatEntry) /\ Bindings(r, in, pk) \subseteq DOMAIN nat[r]
      BY DEF TypeOK, Bindings
    <3>3. First(Bindings(r, in, pk)) \in DOMAIN nat[r]
      BY <1>2, <3>2, FirstIsOne
    <3>4. inside \in Addr
      <4>1. nat[r][First(Bindings(r, in, pk))] \in NatEntry
        BY <3>2, <3>3, ElementTyped
      <4> QED BY <4>1 DEF NatEntry
    <3> HIDE DEF inside
    <3> QED BY <3>1, <3>4 DEF Packet
  <2>2. world.nat[r] = in /\ in # None /\ pk.dst = AddrOf[in]
    BY <1>2, NoneAssumption DEF Bindings
  <2>3. ~Untranslated
    BY <2>2 DEF Untranslated
  <2>4. pk.kind \in Probes => Aims = Addr
    BY <2>2 DEF Honest, Aimed, Aims, PublicTarget
  <2>5. Honest(handed)
    BY <2>1, <2>3, <2>4 DEF Honest, Aimed, Packet
  <2> QED BY <2>1, <2>5, ForwardHonest
<1>3. CASE Bindings(r, in, pk) = {} /\ pk.dst \notin AddressesOf(r)
  BY <1>3, ForwardHonest DEF RouterReceives
<1>4. CASE Bindings(r, in, pk) = {} /\ pk.dst \in AddressesOf(r)
  <2>1. RouterKeeps(r, pk)
    BY <1>4 DEF RouterReceives
  <2>2. CASE Protocol(pk.kind) # "ICMP"
    BY <2>1, <2>2, EndsHere, LossIsKnown DEF RouterKeeps, Consumed, Lost
  <2>3. CASE Protocol(pk.kind) = "ICMP" /\ pk.kind = "echo"
    BY <1>1, <2>1, <2>3, EchoHonest DEF RouterKeeps
  <2>4. CASE Protocol(pk.kind) = "ICMP" /\ pk.kind # "echo"
    <3>1. pk.kind \notin Probes
      BY <2>4 DEF Protocol, Icmp, Tcp, Probes
    <3> QED BY <1>1, <1>4, <2>1, <2>4, <3>1, KeepsHonest DEF RouterKeeps
  <2> QED BY <2>2, <2>3, <2>4
<1> QED BY <1>2, <1>3, <1>4

LEMMA CrossHonest ==
  ASSUME Story, UNCHANGED <<world, command>>, NEW f \in Firewall, NEW x \in wire, x \in Flight,
         Cross(f, x)
  PROVE  Story'
<1>1. CASE Consumed("denied", x.pk.dst)
  BY <1>1, EndsHere, LossIsKnown DEF Cross, Consumed, Lost
<1>2. CASE wire' = {[x EXCEPT !.on = WireOf[x.to]]} /\ UNCHANGED fates
  <2>1. \A y \in wire' : y.pk = x.pk
    BY <1>2 DEF Flight
  <2>2. \A m \in inbox' : m.kind \in Audible' /\ Believable(m.kind)'
    BY <1>2, Sustained DEF Story, Cross
  <2>3. Honest(x.pk)'
    BY <1>2, Sustained DEF Story
  <2> QED BY <1>2, <2>1, <2>2, <2>3 DEF Story
<1> QED BY <1>1, <1>2 DEF Cross

(* The first packet of a probe. *)
LEMMA ProbesHonest ==
  ASSUME TypeOK, command \in Command, NEW x \in ProbesOf(command.at)
  PROVE  /\ x.pk.kind = Wanted /\ Wanted \in Probes
         /\ x.pk.dst = command.target
         /\ x.pk.src \in AddressesOf(command.at)
<1>1. world \in World /\ command.at \in Device /\ command.target \in Addr
  BY DEF TypeOK, Command
<1>2. PICK hop \in Hops(world, command.at, command.target) : x \in Sent(command.at, ProbeOf(hop.out))
  BY DEF ProbesOf
<1>3. x.pk = ProbeOf(hop.out)
  BY <1>2 DEF Sent
<1>4. hop.out \in Iface /\ Owner[hop.out] = command.at
  BY <1>1, HopsTyped
<1>5. /\ x.pk.dst = command.target /\ x.pk.src = AddrOf[hop.out]
      /\ x.pk.kind = Wanted /\ Wanted \in Probes
  BY <1>3 DEF ProbeOf, Probe, Wanted, Probes, Command
<1> QED BY <1>4, <1>5 DEF AddressesOf

LEMMA LastIs ==
  ASSUME NEW s \in Seq(LineType), NEW l \in LineType
  PROVE  /\ Append(s, l) # <<>>
         /\ Append(s, l)[Len(Append(s, l))] = l
OBVIOUS

LEMMA RunningCommand ==
  ASSUME Orderly, command # NoCommand
  PROVE  command \in Command /\ command.target \notin AddressesOf(command.at)
BY CommandsAssumption DEF Orderly

LEMMA DeliverHonest ==
  ASSUME TypeOK, Carried, Orderly, Deliver
  PROVE  Story'
<1>1. UNCHANGED <<world, command>>
  BY DEF Deliver
<1>2. PICK x \in wire : Arrive(x) \/ \E f \in Firewall : Cross(f, x)
  BY DEF Deliver
<1>3. waiting /\ Story /\ command # NoCommand
  BY <1>2 DEF Orderly
<1>4. command \in Command /\ command.target \notin AddressesOf(command.at)
  BY <1>3, RunningCommand
<1>5. x \in Flight /\ x.pk \in Packet /\ x.to \in Iface /\ Honest(x.pk)
  BY <1>3 DEF Carried, Sound, Flight, Story
<1>6. CASE \E f \in Firewall : Cross(f, x)
  BY <1>1, <1>3, <1>5, <1>6, CrossHonest
<1>7. CASE Owner[x.to] \in Host /\ HostReceives(Owner[x.to], x.pk)
  BY <1>1, <1>3, <1>4, <1>5, <1>7, HostHonest
<1>8. CASE Owner[x.to] \in Router /\ RouterReceives(Owner[x.to], x.to, x.pk)
  BY <1>1, <1>3, <1>4, <1>5, <1>8, RouterHonest
<1> QED BY <1>2, <1>6, <1>7, <1>8 DEF Arrive

LEMMA ConcludeHonest ==
  ASSUME TypeOK, Orderly, Conclude
  PROVE  Orderly'
<1>1. waiting /\ wire = {} /\ Story /\ command # NoCommand
  BY DEF Conclude, Orderly
<1>2. command \in Command
  BY <1>1, RunningCommand
<1>3. UNCHANGED <<world, command, wire, inbox, fates>> /\ ~waiting'
  BY DEF Conclude
<1> DEFINE answered == {n \in DOMAIN Priorities : Heard(Priorities[n]) # {}}
<1>4. CASE answered = {}
  <2>1. inbox = {}
    <3>1. ASSUME NEW m \in inbox PROVE FALSE
      <4>1. m.kind \in Audible
        BY <1>1 DEF Story
      <4>2. PICK n \in DOMAIN Priorities : m.kind \in Priorities[n]
        BY <1>2, <4>1, AudibleKinds
      <4>3. m \in Heard(Priorities[n])
        BY <4>2 DEF Heard
      <4> QED BY <1>4, <4>2, <4>3
    <3> QED BY <3>1
  <2>2. Fates \cap Lost # {} \/ command.tool = "udp"
    BY <1>1, <2>1 DEF Story
  <2>3. LastLine' = Line("silent", None) /\ report' # <<>>
    <3>1. Line("silent", None) \in LineType
      BY DEF Line, LineType
    <3>2. report' = Append(report, Line("silent", None))
      BY <1>4 DEF Conclude
    <3> QED BY <3>1, <3>2, LastIs DEF TypeOK, LastLine
  <2>4. (Fates \cap Lost)' = Fates \cap Lost
    BY <1>3 DEF Fates, Lost
  <2>5. LastLine'.what = "silent" /\ "silent" \notin Kind
    BY <2>3 DEF Line, Kind, Icmp, Tcp
  <2> QED BY <1>1, <1>3, <2>2, <2>4, <2>5 DEF Orderly, SilenceMeansLoss, Concluded
<1>5. CASE answered # {}
  <2>1. PICK m \in inbox : report' = Append(report, Line(m.kind, m.from))
    BY <1>5 DEF Conclude, Heard
  <2>2. m.kind \in Kind /\ Believable(m.kind)
    BY <1>1 DEF TypeOK, Inbox, Story
  <2>3. LastLine'.what = m.kind /\ report' # <<>>
    <3>1. Line(m.kind, m.from) \in LineType /\ Line(m.kind, m.from).what = m.kind
      BY DEF Line, LineType, TypeOK, Inbox
    <3> QED BY <2>1, <3>1, LastIs DEF TypeOK, LastLine
  <2>4. Believable(m.kind)'
    BY <1>3, <2>2, Sustained
  <2>5. m.kind # "silent"
    BY <2>2 DEF Kind, Icmp, Tcp
  <2> QED BY <1>1, <1>3, <2>3, <2>4, <2>5 DEF Orderly, SilenceMeansLoss
<1> QED BY <1>4, <1>5

LEMMA OrderlyStep ==
  ASSUME TypeOK, Carried, Orderly, [PathNext]_vars
  PROVE  Orderly'
<1>1. CASE Begin
  BY <1>1 DEF Begin, Orderly, Concluded, SilenceMeansLoss
<1>2. CASE Try
  <2>1. command \in Command /\ command # NoCommand /\ UNCHANGED <<world, command>>
    BY <1>2, RunningCommand DEF Try
  <2>2. CASE wire' = {}
    <3>1. Line("stuck", None) \in LineType /\ Line("stuck", None).what = "stuck"
      BY DEF Line, LineType
    <3>2. report' = Append(report, Line("stuck", None)) /\ ~waiting'
      BY <1>2, <2>2 DEF Try
    <3>3. LastLine'.what = "stuck"
      BY <3>1, <3>2, LastIs DEF TypeOK, LastLine
    <3> QED BY <2>1, <2>2, <3>2, <3>3
            DEF Orderly, Concluded, SilenceMeansLoss, Kind, Icmp, Tcp
  <2>3. CASE wire' # {}
    <3>1. waiting' /\ wire' = ProbesOf(command.at) /\ inbox' = {}
      BY <1>2, <2>3 DEF Try
    <3>2. ASSUME NEW x \in wire' PROVE Honest(x.pk)'
      <4>1. /\ x.pk.kind = Wanted /\ Wanted \in Probes /\ x.pk.dst = command.target
            /\ x.pk.src \in AddressesOf(command.at)
        BY <2>1, <3>1, ProbesHonest
      <4>2. Wanted' = Wanted /\ Aims' = Aims
        BY <2>1 DEF Wanted, Aims, PublicTarget
      <4>3. command.target \in Aims
        BY <2>1 DEF Aims, Command
      <4>4. Aimed(x.pk)'
        BY <2>1, <4>1, <4>2, <4>3 DEF Aimed
      <4>5. Plain(x.pk)'
        BY <2>1, <4>1 DEF Plain
      <4> QED BY <4>4, <4>5 DEF Honest
    <3>3. Story'
      BY <2>3, <3>1, <3>2 DEF Story
    <3> QED BY <2>1, <3>1, <3>3 DEF Orderly, Concluded, SilenceMeansLoss
  <2> QED BY <2>2, <2>3
<1>3. CASE Deliver
  <2>1. waiting
    BY <1>3 DEF Deliver, Orderly
  <2> QED BY <1>3, <2>1, DeliverHonest DEF Deliver, Orderly, Concluded, SilenceMeansLoss
<1>4. CASE StopAtHopLimit
  <2>1. waiting /\ waiting' /\ Story /\ UNCHANGED <<world, command, inbox>> /\ wire' = {}
    BY <1>4 DEF StopAtHopLimit, Orderly
  <2>2. fates \subseteq fates' /\ Fate("storm", None) \in fates'
    BY <1>4 DEF StopAtHopLimit
  <2>3. Story'
    BY <2>1, <2>2, EndsHere, LossIsKnown DEF Lost
  <2> QED BY <2>1, <2>3 DEF Orderly, Concluded, SilenceMeansLoss
<1>5. CASE Conclude
  BY <1>5, ConcludeHonest
<1>6. CASE Finish
  BY <1>6 DEF Finish, Orderly, Concluded, SilenceMeansLoss
<1>7. CASE UNCHANGED vars
  <2>1. UNCHANGED <<world, command, wire, inbox, report, waiting, fates>>
    BY <1>7 DEF vars
  <2>2. Story => Story'
    BY <2>1, Sustained DEF Story
  <2>3. LastLine' = LastLine /\ Concluded' = Concluded /\ (Fates \cap Lost)' = Fates \cap Lost
    BY <2>1 DEF LastLine, Concluded, Fates, Lost
  <2> QED BY <2>1, <2>2, <2>3, Sustained DEF Orderly, SilenceMeansLoss
<1> QED BY <1>1, <1>2, <1>3, <1>4, <1>5, <1>6, <1>7 DEF PathNext

LEMMA AlwaysOrderly == Spec => []Orderly
<1>1. Init => Orderly
  BY DEF Init, Orderly, Concluded, SilenceMeansLoss
<1>2. TypeOK /\ Carried /\ Orderly /\ [PathNext]_vars => Orderly'
  BY OrderlyStep
<1> QED BY <1>1, <1>2, PathInvariant, PTL DEF Spec

(* Silence means that a packet of the probe or of its answer was lost,     *)
(* whatever the routers, firewalls and translations on its way; a UDP      *)
(* service that takes the probe is the only exception (connectivity.py:7). *)
THEOREM SilenceIsLoss == Spec => []SilenceMeansLoss
BY AlwaysOrderly, PTL DEF Orderly

(* A reply, an accepted connection or a refusal means that the target      *)
(* itself answered so, translated or not, unless the target is the public  *)
(* address of a translating router (ping.py:5, connectivity.py:1).         *)
THEOREM TargetsAnswer ==
  Spec => [](~PublicTarget => HonestAbout(Kind \ {"expired", "no-net", "no-host"}))
<1>1. Orderly /\ ~PublicTarget => HonestAbout(Kind \ {"expired", "no-net", "no-host"})
  BY DEF Orderly, HonestAbout, Believable, Met, Aims, Complaints
<1> QED BY <1>1, AlwaysOrderly, PTL

(* Where no router translates, every verdict is what the probe met: an     *)
(* unreachable too is about this target, never about an answer on its way  *)
(* back.                                                                   *)
THEOREM VerdictsAreHonest == Spec => [](Untranslated => VerdictHonest)
<1>1. Orderly /\ Untranslated => VerdictHonest
  BY DEF Orderly, VerdictHonest, HonestAbout, Believable, MetAtTarget
<1> QED BY <1>1, AlwaysOrderly, PTL

-------------------------------------------------------------------------------
(* What a device makes of a packet, where no router translates: it         *)
(* forwards the packet along the route to its destination, or sends its    *)
(* sender an answer.  A probe is answered once, an answer at most by an    *)
(* error, an error never.                                                  *)
Leg(kind) == IF kind \in Probes THEN 0 ELSE IF kind \in Errors THEN 2 ELSE 1

Forwards(x, y) ==
  /\ y.pk = [x.pk EXCEPT !.ttl = @ - 1]
  /\ x.pk.ttl > 1
  /\ Owner[y.to] \in NextDevices(world, Owner[x.to], x.pk.dst)
Answers(x, y) ==
  /\ Leg(x.pk.kind) < Leg(y.pk.kind)
  /\ y.pk.dst = x.pk.src
  /\ y.pk.kind = "expired" =>
       /\ x.pk.ttl <= 1 /\ y.pk.src = AddrOf[x.to]
       /\ x.pk.dst \notin AddressesOf(Owner[x.to])
  /\ y.pk.kind = "reply" => x.pk.kind = "echo" /\ x.pk.dst \in AddressesOf(Owner[x.to])

LEMMA SentAnswers ==
  ASSUME NEW x, NEW d, NEW answer, \A y : y.pk = answer => Answers(x, y),
         wire' = Sent(d, answer)
  PROVE  \A y \in wire' : Answers(x, y)
<1>1. ASSUME NEW y \in Sent(d, answer) PROVE y.pk = answer
  BY DEF Sent
<1> QED BY <1>1

LEMMA EchoAnswers ==
  ASSUME NEW d, NEW x \in Flight, x.pk.kind = "echo", AnswerEcho(d, x.pk),
         x.pk.dst \in AddressesOf(Owner[x.to])
  PROVE  \A y \in wire' : Answers(x, y)
<1>1. \A y : y.pk = Back("reply", x.pk) => Answers(x, y)
  BY DEF Answers, Back, Leg, Probes, Errors
<1> QED BY <1>1, SentAnswers DEF AnswerEcho

LEMMA HostAnswers ==
  ASSUME NEW h \in Host, NEW x \in Flight, Owner[x.to] = h, HostReceives(h, x.pk)
  PROVE  \A y \in wire' : Answers(x, y)
<1>1. CASE x.pk.dst \in AddressesOf(h) /\ HostEcho(h, x.pk)
  BY <1>1, EchoAnswers DEF HostEcho, Asks
<1>2. CASE HostSyn(h, x.pk)
  <2>1. PICK kind \in {"syn-ack", "rst"} : wire' = Sent(h, Back(kind, x.pk))
    BY <1>2 DEF HostSyn
  <2>2. x.pk.kind = "syn"
    BY <1>2 DEF HostSyn
  <2>3. \A y : y.pk = Back(kind, x.pk) => Answers(x, y)
    BY <2>1, <2>2 DEF Answers, Back, Leg, Probes, Errors
  <2> QED BY <2>1, <2>3, SentAnswers
<1>3. CASE HostDatagram(h, x.pk)
  <2>1. \A y : y.pk = Error("no-port", x.pk.dst, x.pk) => Answers(x, y)
    BY <1>3 DEF HostDatagram, Answers, Error, Leg, Probes, Errors
  <2>2. wire' = {} \/ wire' = Sent(h, Error("no-port", x.pk.dst, x.pk))
    BY <1>3 DEF HostDatagram, Consumed
  <2> QED BY <2>1, <2>2, SentAnswers
<1>4. CASE HostKeeps(h, x.pk) \/ Consumed("not-forwarded", x.pk.dst)
  BY <1>4 DEF HostKeeps, Keeps, Consumed
<1> QED BY <1>1, <1>2, <1>3, <1>4 DEF HostReceives

LEMMA ComplaintAnswers ==
  ASSUME NEW x \in Flight, NEW r, NEW kind \in Complaints, Complains(r, x.to, kind, x.pk),
         x.pk.dst \notin AddressesOf(Owner[x.to]), kind = "expired" => x.pk.ttl <= 1
  PROVE  \A y \in wire' : Answers(x, y)
<1>1. CASE x.pk.kind \in Errors
  BY <1>1 DEF Complains, Consumed
<1>2. CASE x.pk.kind \notin Errors
  <2> DEFINE error == Error(kind, AddrOf[x.to], x.pk)
  <2>1. /\ error.kind = kind /\ error.dst = x.pk.src /\ error.src = AddrOf[x.to]
        /\ kind \in Errors /\ kind \notin Probes /\ kind # "reply"
    BY DEF Error, Errors, Probes, Complaints
  <2>2. \A y : y.pk = error => Answers(x, y)
    BY <1>2, <2>1 DEF Answers, Leg
  <2>3. wire' = Sent(r, error)
    BY <1>2 DEF Complains
  <2> QED BY <2>2, <2>3, SentAnswers
<1> QED BY <1>1, <1>2

LEMMA RouterForwards ==
  ASSUME TypeOK, Untranslated, NEW x \in Flight, NEW r \in Router, Owner[x.to] = r,
         RouterReceives(r, x.to, x.pk)
  PROVE  \A y \in wire' : Forwards(x, y) \/ Answers(x, y)
<1>0. x.to \in Iface /\ x.pk \in Packet /\ world \in World
  BY DEF Flight, TypeOK
<1>1. Bindings(r, x.to, x.pk) = {}
  BY <1>0, NoneAssumption DEF Bindings, Untranslated
<1>2. CASE x.pk.dst \in AddressesOf(r)
  <2>1. RouterKeeps(r, x.pk)
    BY <1>1, <1>2 DEF RouterReceives
  <2>2. wire' = {} \/ (x.pk.kind = "echo" /\ AnswerEcho(r, x.pk))
    BY <2>1 DEF RouterKeeps, Keeps, Consumed
  <2> QED BY <1>2, <2>2, EchoAnswers
<1>3. CASE x.pk.dst \notin AddressesOf(r)
  <2>1. Forward(r, x.to, x.pk)
    BY <1>1, <1>3 DEF RouterReceives
  <2>2. ASSUME NEW kind \in Complaints, Complains(r, x.to, kind, x.pk),
               kind = "expired" => x.pk.ttl <= 1
        PROVE  \A y \in wire' : Answers(x, y)
    BY <1>3, <2>2, ComplaintAnswers
  <2>3. CASE Expires(x.pk)
    <3>1. Complains(r, x.to, "expired", x.pk) /\ x.pk.ttl <= 1
      BY <1>0, <2>1, <2>3 DEF Forward, Expires, Packet
    <3> QED BY <2>2, <3>1 DEF Complaints
  <2>4. CASE ~Expires(x.pk) /\ RouterHops(world, r, x.pk.dst) = {}
    BY <2>1, <2>2, <2>4 DEF Forward, Complaints
  <2>5. CASE ~Expires(x.pk) /\ RouterHops(world, r, x.pk.dst) # {}
    <3>2. PICK hop \in RouterHops(world, r, x.pk.dst) :
            LET aged  == [x.pk EXCEPT !.ttl = @ - 1]
                named == IF Translates(r, hop.out, x.pk)
                           THEN [aged EXCEPT !.src = AddrOf[hop.out]] ELSE aged
            IN IF Holders(hop) = {} THEN Complains(r, x.to, "no-host", x.pk)
               ELSE wire' = {[pk |-> named, from |-> hop.out, on |-> WireOf[hop.out],
                              to |-> j] : j \in Holders(hop)}
      BY <2>1, <2>5 DEF Forward
    <3>3. r \in Device /\ r \notin Host /\ x.pk.dst \in Addr
      BY <1>0, DevicesAssumption DEF Device, Packet
    <3>4. hop.out \in Iface /\ hop \in Hops(world, r, x.pk.dst)
      BY <1>0, <3>2, <3>3, HopsTyped DEF Hops
    <3>5. ~Translates(r, hop.out, x.pk)
      BY <3>4, NoneAssumption DEF Translates, Untranslated
    <3>6. Holders(hop) # {} =>
            wire' = {[pk |-> [x.pk EXCEPT !.ttl = @ - 1], from |-> hop.out,
                      on |-> WireOf[hop.out], to |-> j] : j \in Holders(hop)}
      BY <3>2, <3>5
    <3>7. x.pk.ttl > 1
      BY <1>0, <2>5 DEF Expires, Packet
    <3>8. ASSUME Holders(hop) # {}, NEW y \in wire' PROVE Forwards(x, y)
      <4>1. y.pk = [x.pk EXCEPT !.ttl = @ - 1] /\ y.to \in Holders(hop)
        BY <3>6, <3>8
      <4>2. Owner[y.to] \in NextDevices(world, r, x.pk.dst)
        BY <1>3, <3>4, <4>1 DEF NextDevices
      <4> QED BY <3>7, <4>1, <4>2 DEF Forwards
    <3>9. CASE Holders(hop) = {}
      BY <2>2, <3>2, <3>9 DEF Complaints
    <3> QED BY <3>8, <3>9
  <2> QED BY <2>3, <2>4, <2>5
<1> QED BY <1>2, <1>3

LEMMA ArriveFollows ==
  ASSUME TypeOK, Untranslated, NEW x \in Flight, Arrive(x)
  PROVE  \A y \in wire' : Forwards(x, y) \/ Answers(x, y)
BY HostAnswers, RouterForwards DEF Arrive

(* What a device hears at its command's: a packet for it. *)
LEMMA ArriveHeard ==
  ASSUME TypeOK, Untranslated, NEW x \in Flight, Arrive(x), NEW m \in inbox', m \notin inbox
  PROVE  /\ m.kind = x.pk.kind /\ m.from = x.pk.src
         /\ x.pk.dst \in AddressesOf(command.at)
<1>1. ASSUME NEW d, inbox' = Heeded(d, x.pk), x.pk.dst \in AddressesOf(d)
      PROVE  /\ m.kind = x.pk.kind /\ m.from = x.pk.src
             /\ x.pk.dst \in AddressesOf(command.at)
  BY <1>1 DEF Heeded
<1>2. ASSUME NEW h \in Host, HostReceives(h, x.pk)
      PROVE  inbox' = Heeded(h, x.pk) /\ x.pk.dst \in AddressesOf(h)
  BY <1>2 DEF HostReceives, HostEcho, AnswerEcho, HostSyn, HostDatagram, HostKeeps, Keeps
<1>3. ASSUME NEW r \in Router, RouterReceives(r, x.to, x.pk)
      PROVE  inbox' = Heeded(r, x.pk) /\ x.pk.dst \in AddressesOf(r)
  BY <1>3 DEF RouterReceives, RouterKeeps, AnswerEcho, Keeps
<1> QED BY <1>1, <1>2, <1>3 DEF Arrive

-------------------------------------------------------------------------------
(* Walk is defined by recursion: some function satisfies the recursion, by *)
(* the least number of hops for which none would.                          *)
WalkStep(w, a, W, d, k) ==
  IF k = 0 THEN {d} ELSE UNION {NextDevices(w, e, a) : e \in W[k - 1]}

LEMMA LeastNumber ==
  ASSUME NEW S, S \subseteq Nat, S # {}
  PROVE  \E m \in S : \A k \in S : m <= k
<1>1. PICK m \in S : \A k \in S : ~ (<<k, m>> \in OpToRel(<, Nat))
  BY NatLessThanWellFounded, WFMin
<1>2. ASSUME NEW k \in S PROVE m <= k
  <2>1. m \in Nat /\ k \in Nat /\ ~ (k < m)
    BY <1>1 DEF OpToRel
  <2> QED BY <2>1
<1> QED BY <1>2

LEMMA WalkExists ==
  ASSUME NEW w, NEW d, NEW a, NEW n \in Nat
  PROVE  \E W : W = [k \in 0 .. n |-> WalkStep(w, a, W, d, k)]
<1> DEFINE Bad == {m \in Nat : ~ \E W : W = [k \in 0 .. m |-> WalkStep(w, a, W, d, k)]}
<1>1. SUFFICES ASSUME Bad # {} PROVE FALSE
  OBVIOUS
<1>2. PICK m \in Bad : \A k \in Bad : m <= k
  BY <1>1, LeastNumber
<1>3. CASE m = 0
  <2> DEFINE V == [k \in 0 .. 0 |-> {d}]
  <2>1. V = [k \in 0 .. 0 |-> WalkStep(w, a, V, d, k)]
    BY DEF WalkStep
  <2> HIDE DEF V
  <2> QED BY <1>2, <1>3, <2>1
<1>4. CASE m # 0
  <2>1. m \in Nat /\ m - 1 \in Nat /\ m - 1 \notin Bad
    BY <1>2, <1>4
  <2>2. PICK V : V = [k \in 0 .. m - 1 |-> WalkStep(w, a, V, d, k)]
    BY <2>1
  <2> DEFINE W == [k \in 0 .. m |-> WalkStep(w, a, V, d, k)]
  <2>3. \A k \in 0 .. m : k # 0 => k - 1 \in 0 .. m - 1 /\ k - 1 \in 0 .. m
    BY <2>1
  <2>4. ASSUME NEW k \in 0 .. m - 1 PROVE V[k] = WalkStep(w, a, V, d, k)
    BY <2>2
  <2>5. ASSUME NEW k \in 0 .. m - 1 PROVE W[k] = V[k]
    BY <2>1, <2>4
  <2>6. ASSUME NEW k \in 0 .. m
        PROVE  WalkStep(w, a, W, d, k) = WalkStep(w, a, V, d, k)
    <3> HIDE DEF W
    <3> QED BY <2>3, <2>5 DEF WalkStep
  <2>7. W = [k \in 0 .. m |-> WalkStep(w, a, W, d, k)]
    BY <2>6
  <2> HIDE DEF W
  <2> QED BY <1>2, <2>7
<1> QED BY <1>3, <1>4

LEMMA WalkDef ==
  ASSUME NEW w, NEW d, NEW a, NEW n \in Nat
  PROVE  /\ Walk(w, d, a, n)[0] = {d}
         /\ \A k \in 1 .. n :
              Walk(w, d, a, n)[k] = UNION {NextDevices(w, e, a) : e \in Walk(w, d, a, n)[k - 1]}
<1> DEFINE W == CHOOSE W : W = [k \in 0 .. n |-> WalkStep(w, a, W, d, k)]
<1>1. W = [k \in 0 .. n |-> WalkStep(w, a, W, d, k)]
  BY WalkExists
<1>2. Walk(w, d, a, n) = W
  BY DEF Walk, WalkStep
<1> HIDE DEF W
<1>3. 0 \in 0 .. n /\ \A k \in 1 .. n : k \in 0 .. n /\ k # 0
  OBVIOUS
<1>4. W[0] = {d}
  BY <1>1, <1>3 DEF WalkStep
<1>5. ASSUME NEW k \in 1 .. n
      PROVE  W[k] = UNION {NextDevices(w, e, a) : e \in W[k - 1]}
  BY <1>1, <1>3 DEF WalkStep
<1> QED BY <1>2, <1>4, <1>5

(* One hop further. *)
LEMMA WalkOn ==
  ASSUME NEW w, NEW d, NEW a, NEW n \in Nat, NEW k \in 0 .. n - 1,
         NEW e \in Walk(w, d, a, n)[k], NEW f \in NextDevices(w, e, a)
  PROVE  f \in Walk(w, d, a, n)[k + 1]
<1>1. k + 1 \in 1 .. n /\ (k + 1) - 1 = k
  OBVIOUS
<1> QED BY <1>1, WalkDef

(* A longer walk begins like a shorter one. *)
LEMMA WalkShorter ==
  ASSUME NEW w, NEW d, NEW a, NEW n \in Nat, NEW m \in 0 .. n
  PROVE  Walk(w, d, a, n)[m] = Walk(w, d, a, m)[m]
<1> DEFINE Differ == {k \in 0 .. m : Walk(w, d, a, n)[k] # Walk(w, d, a, m)[k]}
<1>1. SUFFICES ASSUME Differ # {} PROVE FALSE
  BY m \in 0 .. m
<1>2. PICK k \in Differ : \A l \in Differ : k <= l
  <2>1. Differ \subseteq Nat
    OBVIOUS
  <2> HIDE DEF Differ
  <2> QED BY <1>1, <2>1, LeastNumber
<1>3. k # 0
  <2>1. Walk(w, d, a, n)[0] = {d} /\ Walk(w, d, a, m)[0] = {d}
    BY WalkDef
  <2> QED BY <1>2, <2>1
<1>4. k \in 1 .. m /\ k \in 1 .. n /\ k - 1 \in 0 .. m /\ ~ (k <= k - 1)
  BY <1>2, <1>3
<1>5. Walk(w, d, a, n)[k - 1] = Walk(w, d, a, m)[k - 1]
  BY <1>2, <1>4
<1>6. /\ Walk(w, d, a, n)[k] = UNION {NextDevices(w, e, a) : e \in Walk(w, d, a, n)[k - 1]}
      /\ Walk(w, d, a, m)[k] = UNION {NextDevices(w, e, a) : e \in Walk(w, d, a, m)[k - 1]}
  BY <1>4, WalkDef
<1> QED BY <1>2, <1>5, <1>6

-------------------------------------------------------------------------------
(* Probe n of a traceroute has gone n - ttl hops along the route; a time   *)
(* exceeded that is about it comes from where it expires, which is not the *)
(* target, and a reply to it means that the route reaches the target.      *)
ProbeNumber == Len(report) + 1
IsTarget(d) == command.target \in AddressesOf(d)
Near(n) == \E k \in 1 .. n : \E d \in Reached(k) : IsTarget(d)
ExpiredAt(n, a) == \E d \in Reached(n) : a \in AddressesOf(d) /\ ~IsTarget(d)
OnRoute(x) ==
  /\ x.pk.kind = "echo" =>
       /\ x.pk.ttl \in 1 .. ProbeNumber
       /\ Owner[x.to] \in
            Walk(world, command.at, command.target, ProbeNumber)[ProbeNumber - x.pk.ttl + 1]
  /\ x.pk.kind = "expired" /\ x.pk.dst \in AddressesOf(command.at) =>
       ExpiredAt(ProbeNumber, x.pk.src)
  /\ x.pk.kind = "reply" => Near(ProbeNumber)

Told(m) ==
  /\ m.kind = "expired" => ExpiredAt(ProbeNumber, m.from)
  /\ m.kind = "reply" => Near(ProbeNumber)

Course ==
  waiting /\ Untranslated /\ command.tool = "trace" =>
    /\ \A x \in wire : OnRoute(x)
    /\ \A m \in inbox : Told(m)

LEMMA SameRoute ==
  ASSUME UNCHANGED <<world, command>>
  PROVE  /\ \A n : Reached(n)' = Reached(n)
         /\ \A n : Near(n)' = Near(n)
         /\ \A n, a : ExpiredAt(n, a)' = ExpiredAt(n, a)
<1>1. ASSUME NEW n PROVE Reached(n)' = Reached(n)
  BY DEF Reached
<1>2. ASSUME NEW d PROVE IsTarget(d)' = IsTarget(d)
  BY DEF IsTarget
<1> QED BY <1>1, <1>2 DEF Near, ExpiredAt

LEMMA ProbesOnRoute ==
  ASSUME TypeOK, command \in Command, command.target \notin AddressesOf(command.at),
         command.tool = "trace", NEW x \in ProbesOf(command.at)
  PROVE  OnRoute(x)
<1>1. PICK hop \in Hops(world, command.at, command.target) : x \in Sent(command.at, ProbeOf(hop.out))
  BY DEF ProbesOf
<1>2. ProbeOf(hop.out) = Probe("echo", hop.out, ProbeNumber, ProbeNumber, ProbeNumber)
  BY DEF ProbeOf, ProbeNumber
<1>3. x.pk = ProbeOf(hop.out)
  BY <1>1 DEF Sent
<1>4. x.pk.kind = "echo" /\ x.pk.ttl = ProbeNumber /\ ProbeOf(hop.out).dst = command.target
  BY <1>2, <1>3 DEF Probe
<1>5. PICK hop2 \in Hops(world, command.at, command.target) : x.to \in Holders(hop2)
  BY <1>1, <1>4 DEF Sent
<1>6. Owner[x.to] \in NextDevices(world, command.at, command.target)
  BY <1>5 DEF NextDevices
<1>7. PICK n \in Nat \ {0} : n = ProbeNumber
  BY DEF TypeOK, ProbeNumber
<1>8. Owner[x.to] \in Walk(world, command.at, command.target, n)[0 + 1]
  <2>1. command.at \in Walk(world, command.at, command.target, n)[0]
    BY WalkDef
  <2>2. n \in Nat /\ 0 \in 0 .. n - 1
    OBVIOUS
  <2> QED BY <1>6, <2>1, <2>2, WalkOn
<1>9. n - n + 1 = 0 + 1 /\ n \in 1 .. n
  OBVIOUS
<1> QED BY <1>4, <1>7, <1>8, <1>9 DEF OnRoute

LEMMA ArriveOnRoute ==
  ASSUME TypeOK, Untranslated, command \in Command, command.tool = "trace",
         command.target \notin AddressesOf(command.at),
         NEW x \in Flight, Honest(x.pk), OnRoute(x), Arrive(x),
         UNCHANGED <<world, command, report>>
  PROVE  \A y \in wire' : OnRoute(y)'
<1>0. x.to \in Iface /\ x.pk \in Packet
  BY DEF Flight
<1>1. PICK n \in Nat \ {0} : n = ProbeNumber /\ n = ProbeNumber'
  BY DEF TypeOK, ProbeNumber
<1>2. Near(n)' = Near(n) /\ \A a : ExpiredAt(n, a)' = ExpiredAt(n, a)
  BY SameRoute
<1>3. ASSUME NEW y, Forwards(x, y) PROVE OnRoute(y)'
  <2>1. /\ y.pk.kind = x.pk.kind /\ y.pk.src = x.pk.src /\ y.pk.dst = x.pk.dst
        /\ y.pk.ttl = x.pk.ttl - 1
    BY <1>0, <1>3 DEF Forwards, Packet
  <2>2. ASSUME x.pk.kind = "echo"
        PROVE  /\ y.pk.ttl \in 1 .. n
               /\ Owner[y.to] \in Walk(world, command.at, command.target, n)[n - y.pk.ttl + 1]
    <3>1. x.pk.dst = command.target
      BY <2>2, AimsTyped DEF Honest, Aimed, Probes
    <3>2. PICK k \in 0 .. n - 1 : k = n - x.pk.ttl + 1 /\ y.pk.ttl \in 1 .. n
                                /\ n - y.pk.ttl + 1 = k + 1
      <4>1. x.pk.ttl \in 1 .. n /\ x.pk.ttl > 1
        BY <1>1, <1>3, <2>2 DEF OnRoute, Forwards
      <4> QED BY <2>1, <4>1
    <3>3. Owner[x.to] \in Walk(world, command.at, command.target, n)[k]
      BY <1>1, <2>2, <3>2 DEF OnRoute
    <3>4. Owner[y.to] \in NextDevices(world, Owner[x.to], command.target)
      BY <1>3, <3>1 DEF Forwards
    <3>5. Owner[y.to] \in Walk(world, command.at, command.target, n)[k + 1]
      BY <3>3, <3>4, WalkOn
    <3> QED BY <3>2, <3>5
  <2>3. /\ x.pk.kind = "expired" /\ x.pk.dst \in AddressesOf(command.at) =>
             ExpiredAt(n, x.pk.src)
        /\ x.pk.kind = "reply" => Near(n)
    BY <1>1 DEF OnRoute
  <2> QED BY <1>1, <1>2, <2>1, <2>2, <2>3 DEF OnRoute
<1>4. ASSUME NEW y, Answers(x, y) PROVE OnRoute(y)'
  <2>1. y.pk.kind # "echo"
    BY <1>4 DEF Answers, Leg, Probes, Errors
  <2>2. ASSUME y.pk.kind = "expired", y.pk.dst \in AddressesOf(command.at)
        PROVE  ExpiredAt(n, y.pk.src)
    <3>1. x.pk.src # command.target
      BY <1>4, <2>2 DEF Answers
    <3>2. x.pk.kind \notin Errors
      BY <1>4, <2>2 DEF Answers, Leg, Probes, Errors
    <3>3. x.pk.kind = "echo"
      BY <3>1, <3>2 DEF Honest, Aimed, Plain, Wanted
    <3>4. x.pk.ttl = 1 /\ Owner[x.to] \in Reached(n)
      <4>1. x.pk.ttl \in 1 .. n /\ x.pk.ttl <= 1
        BY <1>1, <1>4, <2>2, <3>3 DEF OnRoute, Answers
      <4>2. x.pk.ttl = 1 /\ n - 1 + 1 = n
        BY <4>1
      <4> QED BY <1>1, <3>3, <4>2 DEF OnRoute, Reached
    <3>5. y.pk.src = AddrOf[x.to] /\ x.pk.dst \notin AddressesOf(Owner[x.to])
      BY <1>4, <2>2 DEF Answers
    <3>6. x.pk.dst = command.target
      BY <3>3, AimsTyped DEF Honest, Aimed, Probes
    <3> QED BY <1>0, <3>4, <3>5, <3>6 DEF AddressesOf, ExpiredAt, IsTarget
  <2>3. ASSUME y.pk.kind = "reply" PROVE Near(n)
    <3>1. x.pk.kind = "echo" /\ x.pk.dst \in AddressesOf(Owner[x.to])
      BY <1>4, <2>3 DEF Answers
    <3>2. x.pk.dst = command.target
      BY <3>1, AimsTyped DEF Honest, Aimed, Probes
    <3>3. PICK k \in 1 .. n : k = n - x.pk.ttl + 1
      BY <1>1, <3>1 DEF OnRoute
    <3>4. Owner[x.to] \in Walk(world, command.at, command.target, n)[k]
      BY <1>1, <3>1, <3>3 DEF OnRoute
    <3>5. Owner[x.to] \in Reached(k)
      BY <3>4, WalkShorter DEF Reached
    <3> QED BY <3>1, <3>2, <3>5 DEF Near, IsTarget
  <2> QED BY <1>1, <1>2, <2>1, <2>2, <2>3 DEF OnRoute
<1> QED BY <1>3, <1>4, ArriveFollows

LEMMA CourseStep ==
  ASSUME TypeOK, Carried, Orderly, Course, [PathNext]_vars
  PROVE  Course'
<1> SUFFICES ASSUME waiting', Untranslated', (command.tool = "trace")'
             PROVE  /\ \A x \in wire' : OnRoute(x)'
                    /\ \A m \in inbox' : Told(m)'
  BY DEF Course
<1>1. UNCHANGED world /\ (Untranslated' <=> Untranslated)
  BY DEF PathNext, Begin, Try, Deliver, StopAtHopLimit, Conclude, Finish, vars, Untranslated
<1>2. CASE Try
  <2>1. /\ command \in Command /\ command.tool = "trace"
        /\ command.target \notin AddressesOf(command.at)
    BY <1>2, RunningCommand DEF Try
  <2>2. wire' # {} /\ inbox' = {} /\ wire' = ProbesOf(command.at) /\ report' = report
        /\ UNCHANGED command
    BY <1>2 DEF Try
  <2>3. \A x : OnRoute(x) => OnRoute(x)'
    BY <1>1, <2>2, SameRoute DEF OnRoute, ProbeNumber
  <2> QED BY <2>1, <2>2, <2>3, ProbesOnRoute
<1>3. CASE Deliver \/ StopAtHopLimit \/ UNCHANGED vars
  <2>1. UNCHANGED <<world, command, report, waiting>>
    BY <1>3 DEF Deliver, StopAtHopLimit, vars
  <2>2. /\ \A x \in wire : OnRoute(x)
        /\ \A m \in inbox : Told(m)
    BY <1>1, <2>1 DEF Course
  <2>3. /\ \A x : OnRoute(x) => OnRoute(x)'
        /\ \A m : Told(m) => Told(m)'
    BY <2>1, SameRoute DEF ProbeNumber, OnRoute, Told
  <2>4. command \in Command /\ command.target \notin AddressesOf(command.at)
    BY <2>1, RunningCommand DEF NoCommand
  <2>5. CASE Deliver
    <3>1. PICK x \in wire : Arrive(x) \/ \E f \in Firewall : Cross(f, x)
      BY <2>5 DEF Deliver
    <3>2. x \in Flight /\ OnRoute(x) /\ Honest(x.pk)
      BY <2>1, <2>2 DEF Carried, Sound, Orderly, Story
    <3>3. CASE Arrive(x)
      <4>1. \A y \in wire' : OnRoute(y)'
        BY <1>1, <2>1, <2>4, <3>2, <3>3, ArriveOnRoute
      <4>2. ASSUME NEW m \in inbox' PROVE Told(m)
        <5>1. CASE m \in inbox
          BY <2>2, <4>2, <5>1
        <5>2. CASE m \notin inbox
          <6>1. /\ m.kind = x.pk.kind /\ m.from = x.pk.src
                /\ x.pk.dst \in AddressesOf(command.at)
            BY <1>1, <3>2, <3>3, <5>2, ArriveHeard
          <6> QED BY <3>2, <6>1 DEF OnRoute, Told
        <5> QED BY <5>1, <5>2
      <4> QED BY <2>3, <4>1, <4>2
    <3>4. CASE \E f \in Firewall : Cross(f, x)
      <4>1. inbox' = inbox /\ \A y \in wire' : y.pk = x.pk /\ y.to = x.to
        BY <3>2, <3>4 DEF Cross, Consumed, Flight
      <4>2. \A y \in wire' : OnRoute(y)
        BY <3>2, <4>1 DEF OnRoute
      <4> QED BY <2>2, <2>3, <4>1, <4>2
    <3> QED BY <3>1, <3>3, <3>4
  <2>6. CASE StopAtHopLimit
    BY <2>2, <2>3, <2>6 DEF StopAtHopLimit
  <2>7. CASE UNCHANGED vars
    BY <2>2, <2>3, <2>7 DEF vars
  <2> QED BY <1>3, <2>5, <2>6, <2>7
<1>4. CASE Begin \/ Conclude \/ Finish
  BY <1>4 DEF Begin, Conclude, Finish, Orderly
<1> QED BY <1>2, <1>3, <1>4 DEF PathNext

(* What the lines of a traceroute say, and that it goes on only after a    *)
(* line that says neither that the target answered nor that it cannot be   *)
(* reached.                                                                *)
Continues == {"expired", "silent"}
LineTold(n) ==
  /\ report[n].what = "expired" => ExpiredAt(n, report[n].who)
  /\ report[n].what = "reply" => Near(n)

Written ==
  command.tool = "trace" =>
    /\ \A n \in DOMAIN report : report[n].what \in Continues \cup TraceEnds
    /\ \A n \in DOMAIN report : n < Len(report) \/ waiting => report[n].what \in Continues
    /\ Untranslated => \A n \in DOMAIN report : LineTold(n)

LEMMA NextLine ==
  ASSUME TypeOK, Written, UNCHANGED <<world, command>>, command.tool = "trace",
         \A n \in DOMAIN report : report[n].what \in Continues,
         NEW l \in LineType, report' = Append(report, l), waiting' = FALSE,
         l.what \in Continues \cup TraceEnds,
         Untranslated /\ l.what = "expired" => ExpiredAt(ProbeNumber, l.who),
         Untranslated /\ l.what = "reply" => Near(ProbeNumber)
  PROVE  Written'
<1>1. PICK N \in Nat : N = Len(report) /\ ProbeNumber = N + 1
  BY DEF TypeOK, ProbeNumber
<1>2. /\ DOMAIN report' = 1 .. N + 1 /\ DOMAIN report = 1 .. N /\ Len(report') = N + 1
      /\ \A n \in 1 .. N : report'[n] = report[n]
      /\ report'[N + 1] = l
  BY <1>1 DEF TypeOK
<1>3. Untranslated' <=> Untranslated
  BY DEF Untranslated
<1>4. ASSUME Untranslated, NEW n \in 1 .. N + 1 PROVE LineTold(n)'
  <2>1. CASE n = N + 1
    BY <1>1, <1>2, <1>4, <2>1, SameRoute DEF LineTold
  <2>2. CASE n # N + 1
    <3>1. n \in 1 .. N
      BY <2>2
    <3> QED BY <1>2, <1>4, <3>1, SameRoute DEF LineTold, Written
  <2> QED BY <2>1, <2>2
<1>5. ASSUME NEW n \in 1 .. N + 1
      PROVE  /\ report'[n].what \in Continues \cup TraceEnds
             /\ n < N + 1 => report'[n].what \in Continues
  <2>1. n = N + 1 \/ (n \in 1 .. N /\ n < N + 1)
    OBVIOUS
  <2>2. CASE n = N + 1
    BY <1>2, <2>2
  <2>3. CASE n \in 1 .. N
    BY <1>2, <2>3
  <2> QED BY <2>1, <2>2, <2>3
<1>6. Continues' = Continues /\ TraceEnds' = TraceEnds
  BY DEF Continues, TraceEnds
<1> QED BY <1>2, <1>3, <1>4, <1>5, <1>6 DEF Written

LEMMA WrittenStep ==
  ASSUME TypeOK, Orderly, Course, Written, [PathNext]_vars
  PROVE  Written'
<1>1. UNCHANGED world
  BY DEF PathNext, Begin, Try, Deliver, StopAtHopLimit, Conclude, Finish, vars
<1>2. CASE Begin \/ Finish
  <2>1. report' = <<>>
    BY <1>2 DEF Begin, Finish, Orderly
  <2> QED BY <2>1 DEF Written
<1>3. ASSUME UNCHANGED <<command, report>>,
             waiting' /\ command.tool = "trace" =>
               \A n \in DOMAIN report : report[n].what \in Continues
      PROVE  Written'
  <2>1. Untranslated' <=> Untranslated
    BY <1>1 DEF Untranslated
  <2>2. \A n : LineTold(n)' = LineTold(n)
    BY <1>1, <1>3, SameRoute DEF LineTold
  <2> QED BY <1>3, <2>1, <2>2 DEF Written, Continues, TraceEnds
<1>4. CASE Deliver \/ StopAtHopLimit \/ UNCHANGED vars
  <2>1. UNCHANGED <<command, report, waiting>>
    BY <1>4 DEF Deliver, StopAtHopLimit, vars
  <2> QED BY <1>3, <2>1 DEF Written
<1>5. CASE Try
  <2>1. /\ UNCHANGED command /\ ~waiting
        /\ \/ report' = report
           \/ report' = Append(report, Line("stuck", None)) /\ waiting' = FALSE
    BY <1>5 DEF Try
  <2>2. ASSUME command.tool = "trace", NEW n \in DOMAIN report
        PROVE  report[n].what \in Continues
    <3>1. PICK N \in Nat : N = Len(report) /\ DOMAIN report = 1 .. N
      BY DEF TypeOK
    <3>2. CASE n < N
      BY <2>2, <3>1, <3>2 DEF Written
    <3>3. CASE n = N
      <4>1. report # <<>>
        BY <2>2
      <4> QED BY <1>5, <2>2, <3>1, <3>3, <4>1 DEF Try, Over, Written
    <3> QED BY <3>1, <3>2, <3>3
  <2>3. CASE report' = report
    BY <1>3, <2>1, <2>2, <2>3
  <2>4. CASE report' = Append(report, Line("stuck", None)) /\ waiting' = FALSE
    <3>1. /\ Line("stuck", None) \in LineType /\ Line("stuck", None).what = "stuck"
          /\ "stuck" \in TraceEnds
      BY DEF Line, LineType, TraceEnds
    <3>2. CASE command.tool = "trace"
      BY <1>1, <2>1, <2>2, <2>4, <3>1, <3>2, NextLine
    <3> QED BY <2>1, <3>2 DEF Written
  <2> QED BY <2>1, <2>3, <2>4
<1>6. CASE Conclude
  <2>1. UNCHANGED command /\ waiting /\ waiting' = FALSE
    BY <1>6 DEF Conclude
  <2>2. CASE command.tool = "trace"
    <3>1. PICK l : /\ report' = Append(report, l)
                   /\ \/ l = Line("silent", None)
                      \/ \E m \in inbox : l = Line(m.kind, m.from)
      BY <1>6 DEF Conclude, Heard
    <3>2. \A n \in DOMAIN report : report[n].what \in Continues
      BY <2>1, <2>2 DEF Written
    <3>3. CASE l = Line("silent", None)
      <4>1. l \in LineType /\ l.what = "silent" /\ l.what \in Continues
        BY <3>3 DEF Line, LineType, Continues
      <4> QED BY <1>1, <2>1, <2>2, <3>1, <3>2, <4>1, NextLine
    <3>4. ASSUME NEW m \in inbox, l = Line(m.kind, m.from) PROVE Written'
      <4>1. l \in LineType /\ l.what = m.kind /\ l.who = m.from
        BY <3>4 DEF TypeOK, Inbox, Line, LineType
      <4>2. m.kind \in Audible
        BY <2>1 DEF Orderly, Story
      <4>3. Audible \subseteq Continues \cup TraceEnds
        <5>1. Priorities = <<{"reply"}, {"expired"}, Errors>>
          BY <2>2 DEF Priorities
        <5>2. DOMAIN Priorities = 1 .. 3
          BY <5>1
        <5>3. Audible \subseteq {"reply"} \cup {"expired"} \cup Errors
          BY <5>1, <5>2 DEF Audible
        <5> QED BY <5>3 DEF Errors, Continues, TraceEnds
      <4>4. Untranslated => Told(m)
        BY <2>1, <2>2 DEF Course
      <4> QED BY <1>1, <2>1, <2>2, <3>1, <3>2, <4>1, <4>2, <4>3, <4>4, NextLine DEF Told
    <3> QED BY <3>1, <3>3, <3>4
  <2> QED BY <2>1, <2>2 DEF Written
<1> QED BY <1>2, <1>4, <1>5, <1>6 DEF PathNext

LEMMA AlwaysWritten == Spec => []Written
<1>1. Init => Course /\ Written
  BY DEF Init, Course, Written
<1>2. TypeOK /\ Carried /\ Orderly /\ Course /\ [PathNext]_vars => Course'
  BY CourseStep
<1>3. TypeOK /\ Orderly /\ Course /\ Written /\ [PathNext]_vars => Written'
  BY WrittenStep
<1> QED BY <1>1, <1>2, <1>3, PathInvariant, AlwaysOrderly, PTL DEF Spec

(* Where no router translates, a line of a traceroute that says that time  *)
(* was exceeded names the device that many hops along the route            *)
(* (commands/tools.py:143).                                                *)
THEOREM TraceNamesRouters == Spec => [](Untranslated => ExpiredNamesPath)
<1>1. Written /\ Untranslated => ExpiredNamesPath
  BY DEF Written, LineTold, ExpiredAt, ExpiredNamesPath
<1> QED BY <1>1, AlwaysWritten, PTL

(* Each device sends a packet for the target one way: a route chosen by    *)
(* RoutingTable.lookup, or the first interface of next_hop_for.            *)
OneWay == \A d \in Device : \A g, h \in Hops(world, d, command.target) : g = h

(* The target was reached and its answer, or the probe at its door, lost.  *)
TargetMissed ==
  \E n \in DOMAIN report :
    report[n].what = "silent" /\ \E d \in Reached(n) : IsTarget(d)

LEMMA OneRoute ==
  ASSUME OneWay, command.at \in Device, NEW n \in Nat, NEW d \in Reached(n), NEW e \in Reached(n)
  PROVE  d = e
<1> DEFINE W == Walk(world, command.at, command.target, n)
           Forked == {k \in 0 .. n : ~ (W[k] \subseteq Device /\ \A f, g \in W[k] : f = g)}
<1>1. SUFFICES ASSUME Forked # {} PROVE FALSE
  BY n \in 0 .. n DEF Reached
<1>2. PICK k \in Forked : \A l \in Forked : k <= l
  <2>1. Forked \subseteq Nat
    OBVIOUS
  <2> HIDE DEF Forked
  <2> QED BY <1>1, <2>1, LeastNumber
<1>3. k # 0
  BY <1>2, WalkDef
<1>4. k \in 1 .. n /\ k - 1 \in 0 .. n /\ ~ (k <= k - 1)
  BY <1>2, <1>3
<1>5. W[k - 1] \subseteq Device /\ \A f, g \in W[k - 1] : f = g
  BY <1>2, <1>4
<1>6. W[k] = UNION {NextDevices(world, f, command.target) : f \in W[k - 1]}
  BY <1>4, WalkDef
<1>7. ASSUME NEW f \in Device,
             NEW p \in NextDevices(world, f, command.target),
             NEW q \in NextDevices(world, f, command.target)
      PROVE  p \in Device /\ p = q
  <2>1. PICK g \in Hops(world, f, command.target) : \E i \in Holders(g) : p = Owner[i]
    BY <1>7 DEF NextDevices
  <2>2. PICK h \in Hops(world, f, command.target) : \E j \in Holders(h) : q = Owner[j]
    BY <1>7 DEF NextDevices
  <2>3. g = h
    BY <2>1, <2>2 DEF OneWay
  <2>4. PICK i \in Holders(g), j \in Holders(g) : p = Owner[i] /\ q = Owner[j]
    BY <2>1, <2>2, <2>3
  <2>5. i \in Iface /\ j \in Iface /\ i = j
    BY AddressesDistinct DEF Holders
  <2> QED BY <2>4, <2>5, DevicesAssumption
<1> HIDE DEF W
<1>8. W[k] \subseteq Device /\ \A f, g \in W[k] : f = g
  BY <1>5, <1>6, <1>7
<1> QED BY <1>2, <1>8

(* A line of a traceroute that says the target answered is the line of the *)
(* hop at which the route reaches it: no earlier line can name a router,   *)
(* and none says that the target was lost (commands/tools.py:143).         *)
THEOREM TraceNamesTheTarget ==
  Spec => [](Untranslated /\ OneWay /\ ~TargetMissed => TraceNamesPath)
<1>1. ASSUME TypeOK, Orderly, Written, Untranslated, OneWay, ~TargetMissed
      PROVE  TraceNamesPath
  <2>1. ASSUME command.tool = "trace", NEW n \in DOMAIN report, report[n].what = "reply"
        PROVE  \E d \in Reached(n) : command.target \in AddressesOf(d)
    <3>1. PICK N \in Nat : N = Len(report) /\ DOMAIN report = 1 .. N
      BY <1>1 DEF TypeOK
    <3>2. PICK k \in 1 .. n : \E d \in Reached(k) : IsTarget(d)
      BY <1>1, <2>1 DEF Written, LineTold, Near
    <3>3. CASE k = n
      BY <3>2, <3>3 DEF IsTarget
    <3>4. CASE k # n
      <4>1. k \in DOMAIN report /\ k < Len(report) /\ k \in Nat
        BY <2>1, <3>1, <3>2, <3>4
      <4>2. report[k].what = "expired"
        BY <1>1, <2>1, <3>2, <4>1 DEF Written, Continues, TargetMissed
      <4>3. PICK e \in Reached(k) : ~IsTarget(e)
        BY <1>1, <2>1, <4>1, <4>2 DEF Written, LineTold, ExpiredAt
      <4>4. command.at \in Device
        BY <1>1, <2>1 DEF TypeOK, Command, NoCommand
      <4> QED BY <1>1, <3>2, <4>1, <4>3, <4>4, OneRoute
    <3> QED BY <3>3, <3>4
  <2>2. ExpiredNamesPath
    BY <1>1 DEF Written, LineTold, ExpiredAt, ExpiredNamesPath
  <2>3. ReplyNamesPath
    BY <2>1 DEF ReplyNamesPath
  <2> QED BY <2>2, <2>3 DEF TraceNamesPath
<1> QED BY <1>1, AlwaysWritten, AlwaysOrderly, PathInvariant, PTL

-------------------------------------------------------------------------------
(* The hops that a packet and its answers can take, where nothing goes in  *)
(* circles: each of the three legs visits a device at most once, and takes *)
(* one hop more where a firewall is on the wire.                           *)
NoCircles == Untranslated /\ \A a \in Addr : ~GoesInCircles(world, a)
LegHops == 2 * Cardinality(Device)
ProbeHops == 3 * LegHops
Spent == ProbeHops * Len(report)

OnLeg(x, j) ==
  /\ \E d \in Device : Owner[x.to] \in Walk(world, d, x.pk.dst, Cardinality(Device))[j]
  /\ hops <= Spent + LegHops * Leg(x.pk.kind) + 2 * j + (IF x.on = WireOf[x.to] THEN 1 ELSE 0)

Budget ==
  NoCircles =>
    /\ ~storm
    /\ command # NoCommand => Len(report) <= Tries
    /\ waiting => Len(report) < Tries /\ hops <= Spent + ProbeHops
    /\ ~waiting => hops <= Spent
    /\ \A x \in wire : \E j \in 0 .. Cardinality(Device) - 1 : OnLeg(x, j)

(* The hop budget is enough for the network: SimulationEngine.hop_limit    *)
(* against the probes of a command.                                        *)
Roomy ==
  /\ IsFiniteSet(Device)
  /\ ProbeHops * PingCount <= HopLimit
  /\ ProbeHops * TraceHops <= HopLimit

LEMMA RoomTypes ==
  ASSUME Roomy
  PROVE  /\ Cardinality(Device) \in Nat /\ LegHops \in Nat /\ ProbeHops \in Nat
         /\ ProbeHops = LegHops + LegHops + LegHops
<1>1. PICK n \in Nat : n = Cardinality(Device)
  BY FS_CardinalityType DEF Roomy
<1> QED BY <1>1 DEF LegHops, ProbeHops

LEMMA BudgetTypes ==
  ASSUME TypeOK, Roomy
  PROVE  /\ Cardinality(Device) \in Nat /\ LegHops \in Nat /\ ProbeHops \in Nat
         /\ ProbeHops = LegHops + LegHops + LegHops
         /\ Spent \in Nat /\ Len(report) \in Nat /\ hops \in Nat
<1>1. Len(report) \in Nat /\ hops \in Nat
  BY DEF TypeOK
<1> QED BY <1>1, RoomTypes DEF Spent

LEMMA LegsOf ==
  ASSUME NEW kind, NEW b \in Nat
  PROVE  /\ Leg(kind) \in {0, 1, 2}
         /\ b * 0 = 0 /\ b * 1 = b /\ b * 2 = b + b
BY DEF Leg

(* A packet on its way has a hop of its leg left. *)
LEMMA LegLeft ==
  ASSUME TypeOK, Roomy, NEW x, NEW j \in 0 .. Cardinality(Device) - 1, OnLeg(x, j)
  PROVE  /\ hops + 1 <= Spent + LegHops * Leg(x.pk.kind) + LegHops
         /\ hops + 1 <= Spent + ProbeHops
<1>1. PICK n \in Nat, b \in Nat, s \in Nat, h \in Nat :
        n = Cardinality(Device) /\ b = LegHops /\ b = 2 * n /\ s = Spent /\ h = hops
  BY BudgetTypes DEF LegHops
<1>2. PICK l \in {0, 1, 2} : l = Leg(x.pk.kind)
  BY LegsOf
<1>3. b * l \in Nat /\ b * l <= b + b
  BY <1>1, <1>2, LegsOf
<1>4. h <= s + b * l + 2 * j + 1
  <2>1. (IF x.on = WireOf[x.to] THEN 1 ELSE 0) <= 1
    OBVIOUS
  <2>2. PICK o \in {0, 1} : h <= s + b * l + 2 * j + o
    BY <1>1, <1>2 DEF OnLeg
  <2> QED BY <1>1, <1>3, <2>2
<1>5. 2 * j + 1 + 1 <= b
  BY <1>1
<1>6. h + 1 <= s + b * l + b
  BY <1>1, <1>3, <1>4, <1>5
<1>7. h + 1 <= s + b + b + b
  BY <1>1, <1>3, <1>6
<1>8. hops + 1 <= Spent + LegHops * Leg(x.pk.kind) + LegHops
  <2>1. h + 1 <= s + b * Leg(x.pk.kind) + b
    BY <1>2, <1>6
  <2> QED BY ONLY <1>1, <2>1
<1>9. hops + 1 <= Spent + ProbeHops
  BY <1>1, <1>7 DEF ProbeHops
<1> QED BY ONLY <1>8, <1>9

LEMMA WalkEnds ==
  ASSUME NoCircles, NEW a \in Addr, NEW d \in Device
  PROVE  Walk(world, d, a, Cardinality(Device))[Cardinality(Device)] = {}
BY DEF NoCircles, GoesInCircles

LEMMA LegBegins ==
  ASSUME TypeOK, Roomy, NoCircles, NEW y \in Flight
  PROVE  /\ 0 \in 0 .. Cardinality(Device) - 1
         /\ \E d \in Device : Owner[y.to] \in Walk(world, d, y.pk.dst, Cardinality(Device))[0]
<1>1. PICK n \in Nat : n = Cardinality(Device)
  BY BudgetTypes
<1>2. Owner[y.to] \in Device /\ y.pk.dst \in Addr
  BY DevicesAssumption DEF Flight, Packet
<1>3. Owner[y.to] \in Walk(world, Owner[y.to], y.pk.dst, n)[0]
  BY <1>1, WalkDef
<1>4. n # 0
  BY <1>1, <1>2, <1>3, WalkEnds
<1>5. 0 \in 0 .. n - 1
  BY <1>4
<1> QED BY <1>1, <1>2, <1>3, <1>5

LEMMA ArriveOnLeg ==
  ASSUME TypeOK, Roomy, NoCircles, NEW x \in Flight, Arrive(x), UNCHANGED <<world, report>>,
         hops' = hops + 1, NEW j \in 0 .. Cardinality(Device) - 1, OnLeg(x, j),
         NEW y \in wire', y \in Flight
  PROVE  \E i \in 0 .. Cardinality(Device) - 1 : OnLeg(y, i)'
<1>1. PICK n \in Nat, b \in Nat, s \in Nat, h \in Nat :
        n = Cardinality(Device) /\ b = LegHops /\ b = 2 * n /\ s = Spent /\ h = hops
  BY BudgetTypes DEF LegHops
<1>2. Spent' = Spent /\ hops' = h + 1
  BY <1>1 DEF Spent
<1>3. PICK l \in {0, 1, 2}, m \in {0, 1, 2} : l = Leg(x.pk.kind) /\ m = Leg(y.pk.kind)
  BY LegsOf
<1>4. b * l \in Nat /\ b * m \in Nat
  BY <1>3, LegsOf
<1>5. CASE Forwards(x, y)
  <2>1. y.pk.kind = x.pk.kind /\ y.pk.dst = x.pk.dst /\ x.pk.dst \in Addr
    BY <1>5 DEF Forwards, Flight, Packet
  <2>2. PICK d \in Device : Owner[x.to] \in Walk(world, d, x.pk.dst, n)[j]
    BY <1>1 DEF OnLeg
  <2>3. Owner[y.to] \in NextDevices(world, Owner[x.to], x.pk.dst)
    BY <1>5 DEF Forwards
  <2>4. Owner[y.to] \in Walk(world, d, x.pk.dst, n)[j + 1]
    BY <1>1, <2>2, <2>3, WalkOn
  <2>5. j + 1 # n
    BY <1>1, <2>1, <2>4, WalkEnds
  <2>6. j + 1 \in 0 .. n - 1
    BY <1>1, <2>5
  <2>7. h <= s + b * l + 2 * j + 1
    BY <1>1, <1>3 DEF OnLeg, Arrive
  <2>8. h + 1 <= s + b * l + 2 * (j + 1) + 0
    BY <1>1, <1>4, <2>7
  <2>9. PICK o \in {0, 1} : o = IF y.on = WireOf[y.to] THEN 1 ELSE 0
    OBVIOUS
  <2>10. h + 1 <= s + b * l + 2 * (j + 1) + o
    BY <1>1, <1>4, <2>8
  <2>11. OnLeg(y, j + 1)'
    BY <1>1, <1>2, <1>3, <2>1, <2>4, <2>9, <2>10 DEF OnLeg
  <2> QED BY <1>1, <2>6, <2>11
<1>6. CASE Answers(x, y)
  <2>1. h + 1 <= s + b * l + b
    BY <1>1, <1>3, LegLeft
  <2>2. l < m
    BY <1>3, <1>6 DEF Answers
  <2>3. b * l + b <= b * m
    BY <1>3, <2>2, LegsOf
  <2>4. PICK o \in {0, 1} : o = IF y.on = WireOf[y.to] THEN 1 ELSE 0
    OBVIOUS
  <2>5. h + 1 <= s + b * m + 2 * 0 + o
    <3>1. PICK p \in Nat, q \in Nat : p = b * l /\ q = b * m
      BY <1>4
    <3>2. h + 1 <= s + q + 2 * 0 + o
      BY <2>1, <2>3, <3>1
    <3> QED BY <3>1, <3>2
  <2>6. OnLeg(y, 0)'
    BY <1>1, <1>2, <1>3, <2>4, <2>5, LegBegins DEF OnLeg
  <2> QED BY <2>6, LegBegins
<1> QED BY <1>5, <1>6, ArriveFollows DEF NoCircles

LEMMA TriesTyped ==
  Tries \in Nat \ {0} /\ (Roomy /\ TypeOK => ProbeHops * Tries <= HopLimit)
<1>1. Tries \in {1, PingCount, TraceHops}
  BY DEF Tries
<1>2. {1, PingCount, TraceHops} \subseteq Nat \ {0} /\ HopLimit \in Nat
  BY LimitsAssumption
<1>3. ASSUME Roomy, TypeOK PROVE ProbeHops * Tries <= HopLimit
  <2>1. PICK b \in Nat, p \in Nat \ {0} : b = ProbeHops /\ p = PingCount
    BY <1>2, <1>3, BudgetTypes
  <2>2. b * p <= HopLimit
    BY <1>3, <2>1 DEF Roomy
  <2>3. b * 1 <= b * p
    BY <2>1
  <2>4. b * 1 <= HopLimit
    <3>1. PICK q \in Nat : q = b * p
      BY <2>1
    <3> QED BY <1>2, <2>1, <2>2, <2>3, <3>1
  <2> QED BY <1>1, <1>3, <2>1, <2>4 DEF Roomy
<1> QED BY <1>1, <1>2, <1>3

(* What another line of the report gives. *)
LEMMA SpentMore ==
  ASSUME TypeOK, Roomy, NEW l, report' = Append(report, l), Len(report) < Tries
  PROVE  Spent' = Spent + ProbeHops /\ Len(report') <= Tries
<1>1. PICK b \in Nat, n \in Nat : b = ProbeHops /\ n = Len(report)
  BY BudgetTypes
<1>2. Len(report') = n + 1
  BY <1>1 DEF TypeOK
<1>3. b * (n + 1) = b * n + b
  BY <1>1
<1>4. n + 1 <= Tries
  BY <1>1, TriesTyped
<1>5. ProbeHops' = ProbeHops
  BY DEF ProbeHops, LegHops
<1> QED BY <1>1, <1>2, <1>3, <1>4, <1>5 DEF Spent

LEMMA BudgetStep ==
  ASSUME TypeOK, Carried, Orderly, Budget, TypeOK', Roomy, [PathNext]_vars
  PROVE  Budget'
<1>1. UNCHANGED world /\ (NoCircles' <=> NoCircles)
  BY DEF PathNext, Begin, Try, Deliver, StopAtHopLimit, Conclude, Finish, vars, NoCircles,
         Untranslated, GoesInCircles
<1> SUFFICES ASSUME NoCircles
             PROVE  /\ ~storm'
                    /\ (command # NoCommand => Len(report) <= Tries)'
                    /\ (waiting => Len(report) < Tries /\ hops <= Spent + ProbeHops)'
                    /\ (~waiting => hops <= Spent)'
                    /\ \A x \in wire' : \E j \in 0 .. Cardinality(Device) - 1 : OnLeg(x, j)'
  BY <1>1 DEF Budget
<1>2. /\ ~storm
      /\ command # NoCommand => Len(report) <= Tries
      /\ waiting => Len(report) < Tries /\ hops <= Spent + ProbeHops
      /\ ~waiting => hops <= Spent
      /\ \A x \in wire : \E j \in 0 .. Cardinality(Device) - 1 : OnLeg(x, j)
  BY DEF Budget
<1>3. /\ LegHops \in Nat /\ ProbeHops \in Nat /\ Spent \in Nat /\ hops \in Nat
      /\ Len(report) \in Nat
  BY BudgetTypes
<1>4. \A x \in wire : x \in Flight
  BY DEF TypeOK
<1>5. CASE Begin
  <2>1. Tries' \in Nat
    BY LimitsAssumption DEF Tries
  <2>2. waiting = FALSE /\ wire = {} /\ report = <<>> /\ UNCHANGED <<storm, waiting, wire, report, hops>>
    BY <1>5 DEF Begin, Orderly, TypeOK
  <2>3. Spent' = Spent /\ Len(report') = 0
    BY <2>2 DEF Spent, ProbeHops, LegHops
  <2> QED BY <1>2, <2>1, <2>2, <2>3
<1>6. CASE Try
  <2>1. /\ command # NoCommand /\ Len(report) < Tries /\ hops <= Spent
        /\ UNCHANGED <<command, hops, storm>> /\ Tries' = Tries
    <3>1. command # NoCommand /\ ~waiting /\ Len(report) # Tries
      BY <1>6 DEF Try, Over
    <3>2. UNCHANGED <<command, hops, storm>> /\ Tries' = Tries
      BY <1>6 DEF Try, Tries
    <3> QED BY <1>2, <1>3, <3>1, <3>2, TriesTyped
  <2>2. CASE wire' = {}
    <3>1. report' = Append(report, Line("stuck", None)) /\ ~waiting'
      BY <1>6, <2>2 DEF Try
    <3>2. Spent' = Spent + ProbeHops /\ Len(report') <= Tries
      BY <2>1, <3>1, SpentMore
    <3> QED BY <1>2, <1>3, <2>1, <2>2, <3>1, <3>2
  <2>3. CASE wire' # {}
    <3>1. waiting' /\ wire' = ProbesOf(command.at) /\ report' = report
      BY <1>6, <2>3 DEF Try
    <3>2. Spent' = Spent
      BY <3>1 DEF Spent
    <3>3. ASSUME NEW x \in wire'
          PROVE  \E j \in 0 .. Cardinality(Device) - 1 : OnLeg(x, j)'
      <4>1. x \in Flight
        BY DEF TypeOK
      <4>2. x.pk.kind \in Probes
        BY <2>1, <3>1, RunningCommand, ProbesHonest
      <4>3. Leg(x.pk.kind) = 0 /\ LegHops * 0 = 0
        BY <1>3, <4>2 DEF Leg
      <4>4. PICK o \in {0, 1} : o = IF x.on = WireOf[x.to] THEN 1 ELSE 0
        OBVIOUS
      <4>5. hops' <= Spent' + LegHops * Leg(x.pk.kind) + 2 * 0 + o
        BY <1>3, <2>1, <3>2, <4>3
      <4>6. \E d \in Device : Owner[x.to] \in Walk(world', d, x.pk.dst, Cardinality(Device))[0]
        BY <1>1, <4>1, LegBegins
      <4>7. OnLeg(x, 0)'
        BY <4>4, <4>5, <4>6 DEF OnLeg
      <4> QED BY <4>1, <4>7, LegBegins
    <3> QED BY <1>2, <1>3, <2>1, <3>1, <3>2, <3>3
  <2> QED BY <2>2, <2>3
<1>7. CASE Deliver
  <2>1. UNCHANGED <<command, waiting, report, storm>> /\ hops' = hops + 1
    BY <1>7 DEF Deliver
  <2>2. Spent' = Spent /\ Tries' = Tries
    BY <2>1 DEF Spent, Tries
  <2>3. PICK x \in wire : Arrive(x) \/ \E f \in Firewall : x.on # WireOf[x.to] /\ Cross(f, x)
    BY <1>7 DEF Deliver
  <2>4. waiting /\ x \in Flight
    BY <1>4, <2>3 DEF Orderly
  <2>5. PICK j \in 0 .. Cardinality(Device) - 1 : OnLeg(x, j)
    BY <1>2
  <2>6. hops' <= Spent + ProbeHops
    BY <2>1, <2>5, LegLeft
  <2>7. \A y \in wire' : y \in Flight
    BY DEF TypeOK
  <2>8. CASE Arrive(x)
    <3>1. \A y \in wire' : \E i \in 0 .. Cardinality(Device) - 1 : OnLeg(y, i)'
      BY <1>1, <2>1, <2>4, <2>5, <2>7, <2>8, ArriveOnLeg
    <3> QED BY <1>2, <2>1, <2>2, <2>4, <2>6, <3>1
  <2>9. CASE \E f \in Firewall : x.on # WireOf[x.to] /\ Cross(f, x)
    <3>1. ASSUME NEW y \in wire' PROVE OnLeg(y, j)'
      <4>1. y = [x EXCEPT !.on = WireOf[x.to]]
        BY <2>9 DEF Cross, Consumed
      <4>2. y.pk = x.pk /\ y.to = x.to /\ y.on = WireOf[x.to]
        BY <2>4, <4>1 DEF Flight
      <4>3. PICK t \in Int : t = Spent + LegHops * Leg(x.pk.kind) + 2 * j
        <5>1. LegHops * Leg(x.pk.kind) \in Int
          BY <1>3, LegsOf
        <5> QED BY <1>3, <5>1
      <4>4. hops <= t + 0 /\ x.on # WireOf[x.to]
        BY <2>5, <2>9, <4>3 DEF OnLeg
      <4>5. hops' <= t + 1
        BY <1>3, <2>1, <4>4
      <4>6. \E d \in Device : Owner[y.to] \in Walk(world', d, y.pk.dst, Cardinality(Device))[j]
        BY <1>1, <2>5, <4>2 DEF OnLeg
      <4> QED BY <2>2, <4>2, <4>3, <4>5, <4>6 DEF OnLeg, LegHops
    <3> QED BY <1>2, <2>1, <2>2, <2>4, <2>6, <3>1
  <2> QED BY <2>3, <2>8, <2>9
<1>8. CASE StopAtHopLimit
  <2>1. PICK x \in wire : TRUE
    BY <1>8 DEF StopAtHopLimit
  <2>2. waiting /\ Len(report) < Tries /\ HopLimit <= hops
    BY <1>2, <1>3, <1>8, <2>1 DEF StopAtHopLimit, Orderly
  <2>3. PICK j \in 0 .. Cardinality(Device) - 1 : OnLeg(x, j)
    BY <1>2, <2>1
  <2>4. hops + 1 <= Spent + ProbeHops
    BY <2>3, LegLeft
  <2>5. PICK b \in Nat, n \in Nat, t \in Nat : b = ProbeHops /\ n = Len(report) /\ t = Tries
    BY <1>3, TriesTyped
  <2>6. b * n + b <= b * t
    <3>1. PICK k \in Nat : t = n + 1 + k
      <4>1. t - n - 1 \in Nat /\ t = n + 1 + (t - n - 1)
        BY <2>2, <2>5
      <4> QED BY <4>1
    <3>2. b * t = b * n + b + b * k
      BY <3>1
    <3>3. PICK p \in Nat, q \in Nat : p = b * n /\ q = b * k
      OBVIOUS
    <3> QED BY <3>2, <3>3
  <2>7. b * t <= HopLimit
    BY <2>5, TriesTyped
  <2>8. PICK p \in Nat, q \in Nat : p = b * n /\ q = b * t
    BY <2>5
  <2>9. hops + 1 <= p + b /\ p + b <= q /\ q <= hops
    BY <1>3, <2>2, <2>4, <2>5, <2>6, <2>7, <2>8, LimitsAssumption DEF Spent
  <2> QED BY <1>3, <2>5, <2>8, <2>9
<1>9. CASE Conclude
  <2>1. waiting /\ ~waiting' /\ wire' = {} /\ UNCHANGED <<command, hops, storm>> /\ Tries' = Tries
    BY <1>9 DEF Conclude, Tries
  <2>2. PICK l : report' = Append(report, l)
    BY <1>9 DEF Conclude
  <2>3. Spent' = Spent + ProbeHops /\ Len(report') <= Tries
    BY <1>2, <2>1, <2>2, SpentMore
  <2> QED BY <1>2, <2>1, <2>3
<1>10. CASE Finish
  <2>1. /\ wire' = {} /\ ~waiting' /\ ~storm' /\ hops' = 0 /\ report' = <<>> /\ command' = NoCommand
    BY <1>10 DEF Finish, Orderly
  <2>2. Spent' = 0
    BY <1>3, <2>1 DEF Spent, ProbeHops, LegHops
  <2> QED BY <2>1, <2>2
<1>11. CASE UNCHANGED vars
  BY <1>2, <1>11 DEF vars, Spent, Tries, OnLeg
<1> QED BY <1>5, <1>6, <1>7, <1>8, <1>9, <1>10, <1>11 DEF PathNext

(* Where no router translates and the hop budget is enough for the         *)
(* network, only a command whose packets go in circles exhausts it         *)
(* (engine.py:29).                                                         *)
THEOREM StormsMeanCircles ==
  ASSUME Roomy
  PROVE  Spec => [](Untranslated => StormMeansRoutingLoop)
<1>1. Init => Budget
  <2>1. ASSUME Init PROVE Spent = 0
    <3>1. Len(report) = 0
      BY <2>1 DEF Init
    <3> QED BY <3>1, RoomTypes DEF Spent
  <2>2. ASSUME Init PROVE Budget
    <3>1. ~storm /\ command = NoCommand /\ ~waiting /\ hops = 0 /\ wire = {}
      BY <2>2 DEF Init
    <3> QED BY <2>1, <2>2, <3>1 DEF Budget
  <2> QED BY <2>2
<1>2. TypeOK /\ Carried /\ Orderly /\ Budget /\ [PathNext]_vars => Budget'
  BY BudgetStep, PathStep
<1>3. Budget /\ Untranslated => StormMeansRoutingLoop
  BY DEF Budget, NoCircles, StormMeansRoutingLoop
<1> QED BY <1>1, <1>2, <1>3, PathInvariant, AlwaysOrderly, PTL DEF Spec
-------------------------------------------------------------------------------
(* What a translating router has bound.  The packets of one probe use two  *)
(* ports and no error uses them, so that the bindings of those ports are   *)
(* the starter's for as long as a packet can ask for one of them.          *)
SourcePort ==
  CASE command.tool = "trace" -> ProbeNumber
    [] command.tool = "ping"  -> 1
    [] OTHER                  -> ClientPort
TargetPort == IF command.tool \in {"ping", "trace"} THEN SourcePort ELSE command.port

Numbered(pk) ==
  /\ pk.kind \in Probes => pk.sport = SourcePort /\ pk.dport = TargetPort
  /\ pk.kind \in Errors => pk.sport = 1 /\ pk.dport = 1
  /\ pk.kind \notin Probes \cup Errors => pk.sport = TargetPort /\ pk.dport = SourcePort
  /\ command.tool = "ping" => pk.kind \in Icmp

Public == {AddrOf[world.nat[r]] : r \in {s \in Router : world.nat[s] # None}}
OneTranslator ==
  \A r, s \in Router : world.nat[r] # None /\ world.nat[s] # None => r = s

(* The requests of a ping share one port: of them, only the first is sure  *)
(* to find no binding of an earlier answer.                                *)
FirstRequest == command.tool = "ping" => report = <<>>

StartersOnly ==
  \A r \in Router : \A n \in DOMAIN nat[r] :
    nat[r][n].port \in {SourcePort, TargetPort} => nat[r][n].inside \in AddressesOf(command.at)

Traced(pk) ==
  /\ Numbered(pk)
  /\ pk.kind \in Probes => pk.src \in AddressesOf(command.at) \cup Public
  /\ pk.kind \in Probes \/ (pk.kind \notin Errors /\ pk.dst \in Public) =>
       (OneTranslator /\ FirstRequest => StartersOnly)

Entered(r, e) ==
  /\ world.nat[r] # None
  /\ e.inside \notin AddressesOf(r)
  /\ command.tool = "ping" => e.protocol = "ICMP" /\ e.port = 1
  /\ command.tool = "trace" => e.port <= Len(report) + (IF waiting THEN 1 ELSE 0)

Entries ==
  /\ \A r \in Router : \A n \in DOMAIN nat[r] : Entered(r, nat[r][n])
  /\ ~waiting /\ report = <<>> => \A r \in Router : nat[r] = <<>>
  /\ command.tool \in {"tcp", "udp"} => Len(report) <= 1 /\ (waiting => report = <<>>)

Bindery ==
  /\ world \in Worlds
  /\ Entries
  /\ \A x \in wire : Traced(x.pk)

(* What a router may add to its table. *)
Binds(r, pk) ==
  \/ nat' = nat
  \/ /\ world.nat[r] # None /\ pk.src \notin AddressesOf(r)
     /\ nat' = [nat EXCEPT ![r] = Append(@, Binding(pk))]

LEMMA BoundOrNot ==
  ASSUME TypeOK, NEW r \in Router, NEW pk, Binds(r, pk),
         NEW s \in Router, NEW n \in DOMAIN nat'[s]
  PROVE  \/ n \in DOMAIN nat[s] /\ nat'[s][n] = nat[s][n]
         \/ /\ s = r /\ nat'[s][n] = Binding(pk)
            /\ world.nat[r] # None /\ pk.src \notin AddressesOf(r)
<1>1. nat \in [Router -> Seq(NatEntry)]
  BY DEF TypeOK
<1>2. CASE nat' = nat \/ s # r
  BY <1>1, <1>2 DEF Binds
<1>3. CASE nat' # nat /\ s = r
  <2>1. nat'[s] = Append(nat[s], Binding(pk))
    BY <1>1, <1>3 DEF Binds
  <2>2. PICK N \in Nat : N = Len(nat[s]) /\ DOMAIN nat[s] = 1 .. N
    BY <1>1
  <2>3. DOMAIN nat'[s] = 1 .. N + 1
    BY <1>1, <2>1, <2>2
  <2>4. CASE n = N + 1
    BY <1>1, <1>3, <2>1, <2>2, <2>4 DEF Binds
  <2>5. CASE n \in 1 .. N
    BY <1>1, <2>1, <2>2, <2>5
  <2> QED BY <2>3, <2>4, <2>5
<1> QED BY <1>2, <1>3

LEMMA PortTyped ==
  ASSUME TypeOK, NEW r \in Router, NEW n \in DOMAIN nat[r]
  PROVE  nat[r][n].port \in Nat
<1>1. nat[r] \in Seq(NatEntry)
  BY DEF TypeOK
<1>2. nat[r][n] \in NatEntry
  BY <1>1, ElementTyped
<1> QED BY <1>2 DEF NatEntry

LEMMA SamePorts ==
  ASSUME UNCHANGED <<world, command, report>>
  PROVE  /\ SourcePort' = SourcePort /\ TargetPort' = TargetPort
         /\ Public' = Public
         /\ OneTranslator' <=> OneTranslator
         /\ FirstRequest' <=> FirstRequest
         /\ \A pk : Numbered(pk)' <=> Numbered(pk)
<1>1. SourcePort' = SourcePort
  BY DEF SourcePort, ProbeNumber
<1>2. TargetPort' = TargetPort
  BY <1>1 DEF TargetPort
<1>3. Public' = Public
  BY DEF Public
<1>4. OneTranslator' <=> OneTranslator
  BY DEF OneTranslator
<1>5. FirstRequest' <=> FirstRequest
  BY DEF FirstRequest
<1>6. ASSUME NEW pk PROVE Numbered(pk)' <=> Numbered(pk)
  BY <1>1, <1>2 DEF Numbered
<1> QED BY <1>1, <1>2, <1>3, <1>4, <1>5, <1>6

(* A translating router's public address is its own. *)
LEMMA PublicIsOwn ==
  ASSUME TypeOK, world \in Worlds, NEW r \in Router, world.nat[r] # None
  PROVE  /\ AddrOf[world.nat[r]] \in Public
         /\ AddrOf[world.nat[r]] \in AddressesOf(r)
         /\ OneTranslator => Public = {AddrOf[world.nat[r]]}
<1>1. world \in World /\ world.nat[r] \in Iface /\ Owner[world.nat[r]] = r
  BY NatIsOwned DEF TypeOK, World
<1> QED BY <1>1 DEF Public, OneTranslator, AddressesOf

(* What a router makes of a packet that it forwards. *)
Onward(pk, q) ==
  /\ q.kind = pk.kind /\ q.dst = pk.dst /\ q.sport = pk.sport /\ q.dport = pk.dport
  /\ q.src = pk.src \/ q.src \in Public
Complaint(q) == q.kind \in Errors /\ q.sport = 1 /\ q.dport = 1

LEMMA ComplaintsOnly ==
  ASSUME NEW r, NEW in, NEW kind \in Complaints, NEW pk, Complains(r, in, kind, pk)
  PROVE  \A y \in wire' : Complaint(y.pk)
<1>1. Complaint(Error(kind, AddrOf[in], pk))
  BY DEF Complaint, Error, Complaints, Errors
<1>2. wire' = {} \/ wire' = Sent(r, Error(kind, AddrOf[in], pk))
  BY DEF Complains, Consumed
<1>3. \A y \in Sent(r, Error(kind, AddrOf[in], pk)) : y.pk = Error(kind, AddrOf[in], pk)
  BY DEF Sent
<1> QED BY <1>1, <1>2, <1>3

LEMMA ForwardBinds ==
  ASSUME TypeOK, NEW r \in Router, NEW in \in Iface, NEW pk \in Packet, Forward(r, in, pk)
  PROVE  /\ Binds(r, pk)
         /\ \A y \in wire' : Complaint(y.pk) \/ Onward(pk, y.pk)
<1>1. world \in World /\ nat \in [Router -> Seq(NatEntry)]
  BY DEF TypeOK
<1>2. CASE Expires(pk)
  BY <1>2, ComplaintsOnly DEF Forward, Complaints, Binds
<1>3. CASE ~Expires(pk) /\ RouterHops(world, r, pk.dst) = {}
  BY <1>3, ComplaintsOnly DEF Forward, Complaints, Binds
<1>4. CASE ~Expires(pk) /\ RouterHops(world, r, pk.dst) # {}
  <2> DEFINE aged == [pk EXCEPT !.ttl = @ - 1]
             named(hop) == IF Translates(r, hop.out, pk)
                             THEN [aged EXCEPT !.src = AddrOf[hop.out]] ELSE aged
  <2>1. PICK hop \in RouterHops(world, r, pk.dst) :
          /\ nat' = IF Translates(r, hop.out, pk) THEN Bound(r, pk) ELSE nat
          /\ IF Holders(hop) = {}
               THEN Complains(r, in, "no-host", pk)
               ELSE wire' = {[pk |-> named(hop), from |-> hop.out, on |-> WireOf[hop.out],
                              to |-> j] : j \in Holders(hop)}
    BY <1>4 DEF Forward
  <2>2. r \in Device /\ r \notin Host /\ pk.dst \in Addr
    BY DevicesAssumption DEF Device, Packet
  <2>3. hop.out \in Iface
    BY <1>1, <2>1, <2>2, HopsTyped DEF Hops
  <2>4. Translates(r, hop.out, pk) =>
          world.nat[r] # None /\ hop.out = world.nat[r] /\ pk.src \notin AddressesOf(r)
    BY <2>3, NoneAssumption DEF Translates
  <2>5. Binds(r, pk)
    BY <2>1, <2>4 DEF Bound, Binds
  <2>6. Onward(pk, named(hop))
    <3>1. aged.kind = pk.kind /\ aged.dst = pk.dst /\ aged.src = pk.src
          /\ aged.sport = pk.sport /\ aged.dport = pk.dport /\ aged \in Packet
      BY DEF Packet
    <3>2. CASE ~Translates(r, hop.out, pk)
      BY <3>1, <3>2 DEF Onward
    <3>3. CASE Translates(r, hop.out, pk)
      <4>1. AddrOf[hop.out] \in Public
        BY <2>4, <3>3 DEF Public
      <4> QED BY <3>1, <3>3, <4>1 DEF Onward, Packet
    <3> QED BY <3>2, <3>3
  <2>7. CASE Holders(hop) = {}
    BY <2>1, <2>5, <2>7, ComplaintsOnly DEF Complaints
  <2>8. CASE Holders(hop) # {}
    <3> HIDE DEF named
    <3>1. \A y \in wire' : y.pk = named(hop)
      BY <2>1, <2>8
    <3> QED BY <2>5, <2>6, <3>1
  <2> QED BY <2>7, <2>8
<1> QED BY <1>2, <1>3, <1>4

(* Its table stays as Entries says, *)
LEMMA EntriesKept ==
  ASSUME TypeOK, Entries, waiting, UNCHANGED <<world, command, report, waiting>>,
         NEW r \in Router, NEW pk \in Packet, Numbered(pk), Binds(r, pk)
  PROVE  Entries'
<1>1. ASSUME NEW s \in Router, NEW n \in DOMAIN nat'[s], NEW e, e = nat'[s][n]
      PROVE  Entered(s, e)'
  <2>1. Entered(s, e) => Entered(s, e)'
    BY DEF Entered
  <2>2. CASE n \in DOMAIN nat[s] /\ nat'[s][n] = nat[s][n]
    BY <1>1, <2>1, <2>2 DEF Entries
  <2>3. CASE /\ s = r /\ nat'[s][n] = Binding(pk)
             /\ world.nat[r] # None /\ pk.src \notin AddressesOf(r)
    <3>1. PICK N \in Nat : N = Len(report)
      BY DEF TypeOK
    <3>2. command.tool = "ping" => Protocol(pk.kind) = "ICMP" /\ pk.sport = 1
      BY DEF Numbered, Protocol, SourcePort, TargetPort, Errors, Probes
    <3>3. command.tool = "trace" => pk.sport \in {N + 1, 1}
      BY <3>1 DEF Numbered, SourcePort, TargetPort, ProbeNumber
    <3>4. command.tool = "trace" => pk.sport <= N + 1
      BY <3>3
    <3>5. Entered(s, e)
      BY <1>1, <2>3, <3>1, <3>2, <3>4 DEF Entered, Binding
    <3> QED BY <2>1, <3>5
  <2> QED BY <2>2, <2>3, BoundOrNot
<1> QED BY <1>1 DEF Entries

(* and where the packet is the starter's, with the starter's bindings. *)
LEMMA StartersKept ==
  ASSUME TypeOK, StartersOnly, UNCHANGED <<world, command, report>>,
         NEW r \in Router, NEW pk, Binds(r, pk),
         nat' = nat \/ pk.src \in AddressesOf(command.at)
  PROVE  StartersOnly'
<1>1. ASSUME NEW s \in Router, NEW n \in DOMAIN nat'[s],
             nat'[s][n].port \in {SourcePort, TargetPort}
      PROVE  nat'[s][n].inside \in AddressesOf(command.at)
  <2>1. CASE n \in DOMAIN nat[s] /\ nat'[s][n] = nat[s][n]
    BY <1>1, <2>1 DEF StartersOnly
  <2>2. CASE nat' # nat /\ nat'[s][n] = Binding(pk)
    BY <2>2 DEF Binding
  <2>3. CASE nat' = nat
    BY <1>1, <2>3 DEF StartersOnly
  <2> QED BY <2>1, <2>2, <2>3, BoundOrNot
<1> QED BY <1>1, SamePorts DEF StartersOnly

LEMMA ForwardTraced ==
  ASSUME TypeOK, world \in Worlds, UNCHANGED <<world, command, report>>,
         NEW r \in Router, NEW in \in Iface, NEW pk \in Packet, Traced(pk),
         pk.dst \notin AddressesOf(r), Forward(r, in, pk)
  PROVE  Binds(r, pk) /\ \A y \in wire' : Traced(y.pk)'
<1>1. Binds(r, pk) /\ \A y \in wire' : Complaint(y.pk) \/ Onward(pk, y.pk)
  BY ForwardBinds
<1>2. ASSUME NEW y \in wire', Complaint(y.pk) PROVE Traced(y.pk)'
  <2>1. y.pk.kind \notin Probes /\ y.pk.kind \in Errors /\ y.pk.kind \in Icmp
    BY <1>2 DEF Complaint, Probes, Errors, Icmp
  <2> QED BY <1>2, <2>1 DEF Traced, Numbered, Complaint
<1>3. ASSUME NEW y \in wire', Onward(pk, y.pk) PROVE Traced(y.pk)'
  <2>1. Numbered(y.pk)'
    BY <1>3, SamePorts DEF Traced, Numbered, Onward
  <2>2. pk.kind \in Probes => y.pk.src \in AddressesOf(command.at) \cup Public
    BY <1>3 DEF Traced, Onward
  <2>3. ASSUME OneTranslator, FirstRequest,
               pk.kind \in Probes \/ (pk.kind \notin Errors /\ pk.dst \in Public)
        PROVE  StartersOnly'
    <3>1. StartersOnly
      BY <2>3 DEF Traced
    <3>2. CASE world.nat[r] = None
      BY <1>1, <3>1, <3>2, StartersKept DEF Binds
    <3>3. CASE world.nat[r] # None
      <4>1. Public \subseteq AddressesOf(r)
        BY <2>3, <3>3, PublicIsOwn
      <4>2. pk.kind \in Probes /\ pk.src \in AddressesOf(command.at) \cup Public
        BY <2>3, <4>1 DEF Traced
      <4>3. nat' = nat \/ pk.src \in AddressesOf(command.at)
        BY <1>1, <4>1, <4>2 DEF Binds
      <4> QED BY <1>1, <3>1, <4>3, StartersKept
    <3> QED BY <3>2, <3>3
  <2> QED BY <1>3, <2>1, <2>2, <2>3, SamePorts DEF Traced, Onward
<1> QED BY <1>1, <1>2, <1>3

(* An answer swaps the ports and the addresses of its probe. *)
LEMMA BackTraced ==
  ASSUME UNCHANGED <<world, command, report, nat>>, NEW pk, Traced(pk), pk.kind \in Probes,
         NEW kind \in Kind, kind \notin Probes \cup Errors, pk.kind \in Icmp => kind \in Icmp,
         NEW d, wire' = Sent(d, Back(kind, pk))
  PROVE  \A y \in wire' : Traced(y.pk)'
<1> DEFINE answer == Back(kind, pk)
<1>1. /\ answer.kind = kind /\ answer.sport = pk.dport /\ answer.dport = pk.sport
  BY DEF Back
<1> HIDE DEF answer
<1>2. Numbered(answer)
  BY <1>1 DEF Traced, Numbered
<1>3. OneTranslator /\ FirstRequest => StartersOnly'
  BY SamePorts DEF Traced, StartersOnly
<1>4. Traced(answer)'
  BY <1>1, <1>2, <1>3, SamePorts DEF Traced
<1>5. \A y \in wire' : y.pk = answer
  BY DEF Sent, answer
<1> QED BY <1>4, <1>5

LEMMA EchoTraced ==
  ASSUME UNCHANGED <<world, command, report, nat>>, NEW pk, Traced(pk), pk.kind = "echo",
         NEW d, AnswerEcho(d, pk)
  PROVE  \A y \in wire' : Traced(y.pk)'
<1>1. wire' = Sent(d, Back("reply", pk))
  BY DEF AnswerEcho
<1>2. "reply" \in Kind /\ "reply" \in Icmp /\ "reply" \notin Probes \cup Errors
      /\ pk.kind \in Probes
  BY DEF Kind, Icmp, Probes, Errors
<1> QED BY <1>1, <1>2, BackTraced

LEMMA HostTraced ==
  ASSUME UNCHANGED <<world, command, report>>, NEW h \in Host, NEW pk, Traced(pk),
         HostReceives(h, pk)
  PROVE  nat' = nat /\ \A y \in wire' : Traced(y.pk)'
<1>1. nat' = nat
  BY DEF HostReceives
<1>2. CASE HostEcho(h, pk)
  BY <1>1, <1>2, EchoTraced DEF HostEcho, Asks
<1>3. CASE HostSyn(h, pk)
  <2>1. PICK kind \in {"syn-ack", "rst"} : wire' = Sent(h, Back(kind, pk))
    BY <1>3 DEF HostSyn
  <2>2. /\ kind \in Kind /\ kind \notin Probes \cup Errors
        /\ pk.kind \in Probes /\ pk.kind \notin Icmp
    BY <1>3, <2>1 DEF HostSyn, Kind, Tcp, Icmp, Probes, Errors
  <2> QED BY <1>1, <2>1, <2>2, BackTraced
<1>4. CASE HostDatagram(h, pk)
  <2>1. wire' = {} \/ wire' = Sent(h, Error("no-port", pk.dst, pk))
    BY <1>4 DEF HostDatagram, Consumed
  <2>2. \A y \in Sent(h, Error("no-port", pk.dst, pk)) : y.pk = Error("no-port", pk.dst, pk)
    BY DEF Sent
  <2>3. Traced(Error("no-port", pk.dst, pk))'
    BY DEF Traced, Numbered, Error, Probes, Errors, Icmp
  <2> QED BY <1>1, <2>1, <2>2, <2>3
<1>5. CASE HostKeeps(h, pk) \/ Consumed("not-forwarded", pk.dst)
  BY <1>1, <1>5 DEF HostKeeps, Keeps, Consumed
<1> QED BY <1>1, <1>2, <1>3, <1>4, <1>5 DEF HostReceives

LEMMA RouterTraced ==
  ASSUME TypeOK, Bindery, UNCHANGED <<world, command, report>>,
         NEW r \in Router, NEW in \in Iface, NEW pk \in Packet, Traced(pk),
         RouterReceives(r, in, pk)
  PROVE  \E q \in Packet : /\ Numbered(q) /\ Binds(r, q)
                          /\ \A y \in wire' : Traced(y.pk)'
<1>1. nat \in [Router -> Seq(NatEntry)] /\ Numbered(pk) /\ world \in Worlds
  BY DEF TypeOK, Traced, Bindery
<1>2. CASE Bindings(r, in, pk) # {}
  <2> DEFINE n == First(Bindings(r, in, pk))
             handed == [pk EXCEPT !.dst = nat[r][n].inside]
  <2>1. Forward(r, in, handed)
    BY <1>2 DEF RouterReceives
  <2>2. n \in DOMAIN nat[r]
    <3>1. Bindings(r, in, pk) \subseteq DOMAIN nat[r] /\ DOMAIN nat[r] \subseteq Nat
      BY <1>1 DEF Bindings
    <3> QED BY <1>2, <3>1, FirstIsOne
  <2>3. nat[r][n] \in NatEntry /\ Entered(r, nat[r][n])
    BY <1>1, <2>2, ElementTyped DEF Bindery, Entries
  <2>4. /\ handed \in Packet /\ handed.kind = pk.kind /\ handed.src = pk.src
        /\ handed.sport = pk.sport /\ handed.dport = pk.dport
        /\ handed.dst \notin AddressesOf(r) /\ world.nat[r] # None
    BY <2>3 DEF Entered, NatEntry, Packet
  <2> HIDE DEF handed
  <2>5. OneTranslator => handed.dst \notin Public
    BY <1>1, <2>4, PublicIsOwn
  <2>6. Traced(handed)
    BY <2>4, <2>5 DEF Traced, Numbered
  <2> QED BY <1>1, <2>1, <2>4, <2>6, ForwardTraced DEF Traced
<1>3. CASE Bindings(r, in, pk) = {} /\ pk.dst \in AddressesOf(r)
  <2>1. RouterKeeps(r, pk) /\ nat' = nat
    BY <1>3 DEF RouterReceives, RouterKeeps
  <2>2. CASE pk.kind = "echo" /\ AnswerEcho(r, pk)
    BY <1>1, <2>1, <2>2, EchoTraced DEF Binds
  <2>3. CASE wire' = {}
    BY <1>1, <2>1, <2>3 DEF Binds
  <2> QED BY <2>1, <2>2, <2>3 DEF RouterKeeps, Keeps, Consumed
<1>4. CASE Bindings(r, in, pk) = {} /\ pk.dst \notin AddressesOf(r)
  <2>1. Forward(r, in, pk)
    BY <1>4 DEF RouterReceives
  <2> QED BY <1>1, <1>4, <2>1, ForwardTraced
<1> QED BY <1>2, <1>3, <1>4

(* The next probe finds no binding of its ports that is not the starter's: *)
(* a traceroute's has a new number, a connection's is the only one.        *)
LEMMA ProbesTraced ==
  ASSUME TypeOK, Bindery, command \in Command, Try, NEW x \in ProbesOf(command.at)
  PROVE  Traced(x.pk)
<1>1. PICK hop \in Hops(world, command.at, command.target) :
        x \in Sent(command.at, ProbeOf(hop.out))
  BY DEF ProbesOf
<1>2. x.pk = ProbeOf(hop.out)
  BY <1>1 DEF Sent
<1>3. hop.out \in Iface /\ Owner[hop.out] = command.at
  BY <1>1, HopsTyped DEF TypeOK, Command
<1>4. /\ x.pk.sport = SourcePort /\ x.pk.dport = TargetPort
      /\ x.pk.kind \in Probes /\ (command.tool = "ping" => x.pk.kind \in Icmp)
      /\ x.pk.src = AddrOf[hop.out]
  BY <1>2 DEF ProbeOf, Probe, SourcePort, TargetPort, ProbeNumber, Probes, Icmp, Command
<1>5. Numbered(x.pk)
  BY <1>4 DEF Numbered, Probes, Errors
<1>6. x.pk.src \in AddressesOf(command.at)
  BY <1>3, <1>4 DEF AddressesOf
<1>7. ASSUME FirstRequest PROVE StartersOnly
  <2>1. ~waiting /\ ~Over
    BY DEF Try
  <2>2. CASE command.tool = "trace"
    <3>1. PICK N \in Nat : N = Len(report)
      BY DEF TypeOK
    <3>2. SourcePort = N + 1 /\ TargetPort = N + 1
      BY <2>2, <3>1 DEF SourcePort, TargetPort, ProbeNumber
    <3>3. ASSUME NEW r \in Router, NEW n \in DOMAIN nat[r] PROVE nat[r][n].port # N + 1
      <4>1. nat[r][n].port <= N + 0 /\ nat[r][n].port \in Nat
        BY <2>1, <2>2, <3>1, PortTyped DEF Bindery, Entries, Entered
      <4> QED BY <4>1
    <3> QED BY <3>2, <3>3 DEF StartersOnly
  <2>3. CASE report = <<>>
    BY <2>1, <2>3 DEF Bindery, Entries, StartersOnly
  <2>4. CASE command.tool \in {"tcp", "udp"}
    <3>1. PICK N \in Nat : N = Len(report)
      BY DEF TypeOK
    <3>2. Tries = 1
      BY <2>4 DEF Tries
    <3>3. N <= 1 /\ N # 1
      BY <2>1, <2>4, <3>1, <3>2 DEF Bindery, Entries, Over
    <3>4. N = 0
      BY <3>3
    <3>5. report = <<>>
      <4>1. report \in Seq(LineType) /\ Len(report) = 0
        BY <3>1, <3>4 DEF TypeOK
      <4> QED BY <4>1
    <3> QED BY <2>3, <3>5
  <2>5. command.tool = "ping" => report = <<>>
    BY <1>7 DEF FirstRequest
  <2> QED BY <2>2, <2>3, <2>4, <2>5 DEF Command
<1> QED BY <1>4, <1>5, <1>6, <1>7 DEF Traced

LEMMA BinderyStep ==
  ASSUME TypeOK, Carried, Orderly, Bindery, [PathNext]_vars
  PROVE  Bindery'
<1>1. UNCHANGED world /\ world' \in Worlds
  BY DEF PathNext, Begin, Try, Deliver, StopAtHopLimit, Conclude, Finish, vars, Bindery
<1>2. CASE Begin
  <2>1. report = <<>> /\ ~waiting /\ wire = {}
    BY <1>2 DEF Begin, Orderly
  <2>2. UNCHANGED <<report, waiting, wire, nat>> /\ \A r \in Router : nat[r] = <<>>
    BY <1>2, <2>1 DEF Begin, Bindery, Entries
  <2>3. Entries'
    BY <2>1, <2>2 DEF Entries
  <2> QED BY <1>1, <2>1, <2>2, <2>3 DEF Bindery
<1>3. CASE Try
  <2>1. /\ command \in Command /\ ~waiting /\ ~Over
        /\ UNCHANGED <<world, command, nat>> /\ wire' = ProbesOf(command.at)
    BY <1>3 DEF Try, TypeOK
  <2>2. PICK N \in Nat : N = Len(report)
    BY DEF TypeOK
  <2>3. \/ waiting' /\ report' = report
        \/ ~waiting' /\ report' = Append(report, Line("stuck", None)) /\ wire' = {}
    BY <1>3 DEF Try, TypeOK
  <2>4. Len(report') + (IF waiting' THEN 1 ELSE 0) = N + 1 /\ Len(report') <= N + 1
    BY <2>2, <2>3 DEF TypeOK
  <2>5. ASSUME NEW r \in Router, NEW n \in DOMAIN nat[r] PROVE Entered(r, nat[r][n])'
    <3>1. Entered(r, nat[r][n])
      BY DEF Bindery, Entries
    <3>2. nat[r][n].port \in Nat
      BY PortTyped
    <3>3. command.tool = "trace" => nat[r][n].port <= N + 0
      BY <2>1, <2>2, <3>1 DEF Entered
    <3>4. command.tool = "trace" => nat[r][n].port <= N + 1
      BY <3>2, <3>3
    <3> QED BY <2>1, <2>4, <3>1, <3>4 DEF Entered
  <2>6. command.tool \in {"tcp", "udp"} => report = <<>>
    <3>1. command.tool \in {"tcp", "udp"} => Len(report) <= 1 /\ Len(report) # 1
      BY <2>1 DEF Bindery, Entries, Over, Tries
    <3> QED BY <2>2, <3>1 DEF TypeOK
  <2>7. ~waiting' => report' # <<>>
    BY <2>3 DEF TypeOK
  <2>8. command.tool \in {"tcp", "udp"} => Len(report') <= 1 /\ (waiting' => report' = <<>>)
    BY <2>2, <2>3, <2>4, <2>6
  <2>9. Entries'
    BY <2>1, <2>5, <2>7, <2>8 DEF Entries
  <2>10. ASSUME NEW x \in wire' PROVE Traced(x.pk)'
    <3>1. Traced(x.pk) /\ UNCHANGED <<world, command, report, nat>>
      BY <1>3, <2>1, <2>3, <2>10, ProbesTraced
    <3>2. StartersOnly' <=> StartersOnly
      BY <3>1, SamePorts DEF StartersOnly
    <3> QED BY <3>1, <3>2, SamePorts DEF Traced
  <2> QED BY <1>1, <2>9, <2>10 DEF Bindery
<1>4. CASE Deliver
  <2>1. UNCHANGED <<world, command, report, waiting>>
    BY <1>4 DEF Deliver
  <2>2. PICK x \in wire : Arrive(x) \/ \E f \in Firewall : Cross(f, x)
    BY <1>4 DEF Deliver
  <2>3. /\ waiting /\ x \in Flight /\ x.to \in Iface /\ x.pk \in Packet
        /\ Traced(x.pk) /\ Entries /\ world \in Worlds
    BY DEF Orderly, Carried, Sound, Flight, Bindery
  <2>4. ASSUME nat' = nat, \A y \in wire' : Traced(y.pk)' PROVE Bindery'
    <3>1. Entries'
      BY <2>1, <2>3, <2>4 DEF Entries, Entered
    <3> QED BY <1>1, <2>4, <3>1 DEF Bindery
  <2>5. CASE Owner[x.to] \in Host /\ HostReceives(Owner[x.to], x.pk)
    BY <2>1, <2>3, <2>4, <2>5, HostTraced
  <2>6. CASE Owner[x.to] \in Router /\ RouterReceives(Owner[x.to], x.to, x.pk)
    <3>1. PICK q \in Packet : /\ Numbered(q) /\ Binds(Owner[x.to], q)
                              /\ \A y \in wire' : Traced(y.pk)'
      BY <2>1, <2>3, <2>6, RouterTraced
    <3>2. Entries'
      BY <2>1, <2>3, <2>6, <3>1, EntriesKept
    <3> QED BY <1>1, <3>1, <3>2 DEF Bindery
  <2>7. CASE \E f \in Firewall : Cross(f, x)
    <3>1. nat' = nat /\ \A y \in wire' : y.pk = x.pk
      BY <2>3, <2>7 DEF Cross, Consumed, Flight
    <3>2. StartersOnly' <=> StartersOnly
      BY <2>1, <3>1, SamePorts DEF StartersOnly
    <3>3. Traced(x.pk)'
      BY <2>1, <2>3, <3>2, SamePorts DEF Traced
    <3> QED BY <2>4, <3>1, <3>3
  <2> QED BY <2>2, <2>5, <2>6, <2>7 DEF Arrive
<1>5. CASE StopAtHopLimit
  <2>1. UNCHANGED <<world, command, report, waiting, nat>> /\ wire' = {}
    BY <1>5 DEF StopAtHopLimit
  <2>2. Entries'
    BY <2>1 DEF Bindery, Entries, Entered
  <2> QED BY <1>1, <2>1, <2>2 DEF Bindery
<1>6. CASE Conclude
  <2>1. waiting /\ ~waiting' /\ UNCHANGED <<world, command, nat, wire>> /\ wire = {}
    BY <1>6 DEF Conclude
  <2>2. PICK l : report' = Append(report, l)
    BY <1>6 DEF Conclude
  <2>3. PICK N \in Nat : N = Len(report)
    BY DEF TypeOK
  <2>4. Len(report') = N + 1 /\ report' # <<>>
    BY <2>2, <2>3 DEF TypeOK
  <2>5. ASSUME NEW r \in Router, NEW n \in DOMAIN nat[r] PROVE Entered(r, nat[r][n])'
    <3>1. Entered(r, nat[r][n])
      BY DEF Bindery, Entries
    <3>2. command.tool = "trace" => nat[r][n].port <= N + 1
      BY <2>1, <2>3, <3>1 DEF Entered
    <3>3. command.tool = "trace" => nat[r][n].port <= (N + 1) + 0
      BY <3>2
    <3> QED BY <2>1, <2>4, <3>1, <3>3 DEF Entered
  <2>6. command.tool \in {"tcp", "udp"} => N = 0
    BY <2>1, <2>3 DEF Bindery, Entries
  <2>7. Entries'
    BY <2>1, <2>4, <2>5, <2>6 DEF Entries
  <2> QED BY <1>1, <2>1, <2>7 DEF Bindery
<1>7. CASE Finish
  <2>1. report' = <<>> /\ nat' = NoNat /\ waiting' = FALSE /\ wire' = {}
    BY <1>7 DEF Finish, Orderly
  <2>2. Entries'
    BY <2>1 DEF Entries, NoNat
  <2> QED BY <1>1, <2>1, <2>2 DEF Bindery
<1>8. CASE UNCHANGED vars
  <2>1. UNCHANGED <<world, command, report, waiting, nat, wire>>
    BY <1>8 DEF vars
  <2>2. Entries'
    BY <2>1 DEF Bindery, Entries, Entered
  <2>3. ASSUME NEW x \in wire PROVE Traced(x.pk)'
    <3>1. StartersOnly' <=> StartersOnly
      BY <2>1, SamePorts DEF StartersOnly
    <3> QED BY <2>1, <3>1, SamePorts DEF Bindery, Traced
  <2> QED BY <1>1, <2>1, <2>2, <2>3 DEF Bindery
<1> QED BY <1>2, <1>3, <1>4, <1>5, <1>6, <1>7, <1>8 DEF PathNext

(* The starter's binding is the first of each table. *)
StarterFirst ==
  \A r \in Router : nat[r] # <<>> => nat[r][1].inside \in AddressesOf(command.at)

(* Where one router translates, what it hands to an inside host it hands   *)
(* to the device whose command the packet answers: for a traceroute and a  *)
(* connection always, for a ping in its first request, and in all of them  *)
(* once that device has the first binding (router.py:135).                 *)
THEOREM AnswersReachTheStarter ==
  Spec => [](/\ OneTranslator
             /\ command.tool = "ping" => report = <<>> \/ StarterFirst
             => NatHandsToStarter)
<1>1. Init => Bindery
  BY DEF Init, Bindery, Entries, NoNat, NoCommand
<1>2. TypeOK /\ Carried /\ Orderly /\ Bindery /\ [PathNext]_vars => Bindery'
  BY BinderyStep
<1>3. ASSUME TypeOK, Carried, Bindery, OneTranslator,
             command.tool = "ping" => report = <<>> \/ StarterFirst
      PROVE  NatHandsToStarter
  <2> SUFFICES ASSUME NEW x \in wire, NEW r \in Router, r = Owner[x.to],
                      x.pk.kind \notin Errors, Bindings(r, x.to, x.pk) # {}
               PROVE  nat[r][First(Bindings(r, x.to, x.pk))].inside \in AddressesOf(command.at)
    BY DEF NatHandsToStarter
  <2> DEFINE found == Bindings(r, x.to, x.pk)
  <2>1. /\ x.to = world.nat[r] /\ x.to # None /\ x.pk.dst = AddrOf[x.to]
        /\ found = {n \in DOMAIN nat[r] : /\ nat[r][n].protocol = Protocol(x.pk.kind)
                                          /\ nat[r][n].port = x.pk.dport}
    BY <1>3, NoneAssumption DEF Bindings, Carried, Sound, Flight
  <2>2. found \subseteq DOMAIN nat[r] /\ DOMAIN nat[r] \subseteq Nat /\ found # {}
    <3>1. nat[r] \in Seq(NatEntry)
      BY <1>3 DEF TypeOK
    <3>2. DOMAIN nat[r] \subseteq Nat
      BY <3>1
    <3> QED BY <1>3, <2>1, <3>2
  <2> HIDE DEF found
  <2>3. First(found) \in found
    BY <2>2, FirstIsOne
  <2>4. CASE FirstRequest
    <3>1. Traced(x.pk) /\ x.pk.dst \in Public
      BY <1>3, <2>1 DEF Bindery, Public
    <3>2. StartersOnly
      BY <1>3, <2>4, <3>1 DEF Traced
    <3>3. x.pk.dport \in {SourcePort, TargetPort}
      BY <3>1 DEF Traced, Numbered
    <3> QED BY <2>1, <2>2, <2>3, <3>2, <3>3 DEF StartersOnly, found
  <2>5. CASE ~FirstRequest
    <3>1. command.tool = "ping" /\ StarterFirst
      BY <1>3, <2>5 DEF FirstRequest
    <3>2. Protocol(x.pk.kind) = "ICMP" /\ x.pk.dport = 1
      BY <1>3, <3>1 DEF Bindery, Traced, Numbered, SourcePort, TargetPort, Protocol
    <3>3. found = DOMAIN nat[r]
      BY <1>3, <2>1, <3>1, <3>2 DEF Bindery, Entries, Entered
    <3>4. nat[r] # <<>> /\ 1 \in found /\ \A n \in found : 1 <= n
      BY <1>3, <2>2, <3>3 DEF TypeOK
    <3>5. First(found) = 1
      BY <2>2, <3>4 DEF First
    <3> QED BY <3>1, <3>4, <3>5 DEF StarterFirst, found
  <2> QED BY <2>4, <2>5
<1> QED BY <1>1, <1>2, <1>3, PathInvariant, AlwaysOrderly, PTL DEF Spec
===============================================================================

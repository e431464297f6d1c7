------------------------------- MODULE LanProofs -------------------------------
(***************************************************************************)
(* For any LAN, cabled in any way, any addresses, hop limit and number of  *)
(* requests: the engine's loops nest at most two deep, a ping is told of   *)
(* replies that were given, and of those to its last request only.         *)
(*                                                                         *)
(* The three properties hold each other up.  That a reply in flight        *)
(* belongs to the last request needs that nothing is in flight when the    *)
(* next is sent; that the nesting is bounded needs that a loop whose       *)
(* caller holds a packet carries nothing but ARP; so the invariant says of *)
(* every frame, held packet and loop what it may be (Sound, Kept, Sane),   *)
(* and of the stack which of its loops may hold a packet (Nested).         *)
(***************************************************************************)
EXTENDS EthernetLan, TLAPS, FiniteSetTheorems, SequenceTheorems

USE DEF Broadcast, NoPacket

(* An echo asks for the address the command pings, a reply tells of it and *)
(* was given; both belong to the last request sent.                        *)
Told(m, png, given) ==
  /\ png.sent \in 1 .. Count
  /\ m.seq = png.sent
  /\ m.kind = "echo" => m.dip = png.target
  /\ m.kind = "reply" => /\ m.sip = png.target
                         /\ \E a \in given : a.ip = m.sip /\ a.seq = m.seq

IsArp(f) == f.kind \in {"who-has", "is-at"}

(* Emissions that may be in a queue. *)
Sound(queue, png, given) ==
  /\ queue \in Seq(Emission)
  /\ \A i \in DOMAIN queue : IsArp(queue[i].frame) \/ Told(queue[i].frame, png, given)

OnlyArp(queue) == \A i \in DOMAIN queue : IsArp(queue[i].frame)

(* What a caller may hold back, given the addresses of the hosts. *)
Kept(pk, png, given) == pk \in Packet /\ Told(pk, png, given)

LoopType == [queue : Seq(Emission), held : Packet \cup {NoPacket}]

Sane(l, png, given) ==
  /\ l \in LoopType
  /\ Sound(l.queue, png, given)
  /\ l.held # NoPacket => Kept(l.held, png, given) /\ OnlyArp(l.queue)

(* A loop inside another was started to resolve an address for a packet it *)
(* holds, by a handler in the other, which holds none.                     *)
Nested(loops, png, given) ==
  /\ loops \in Seq(LoopType)
  /\ Len(loops) <= 2
  /\ \A n \in DOMAIN loops : Sane(loops[n], png, given)
  /\ Len(loops) = 2 => loops[1].held # NoPacket /\ loops[2].held = NoPacket

(* The tables, and the addresses of the hosts. *)
TablesOK ==
  /\ live \subseteq Cable
  /\ ip \in [Host -> Ip \cup {None}]
  /\ arp \in [Host -> [Ip -> Host \cup {None}]]
  /\ mac \in [Switch -> [Host -> SwitchPort \cup {None}]]
  /\ hops \in 0 .. HopLimit
  /\ storm \in BOOLEAN

Idle == ping = NoPing /\ stack = <<>> /\ inbox = {} /\ answered = {}

Pinging ==
  /\ ping \in [host : Host, target : Ip, sent : 0 .. Count, received : 0 .. Count]
  /\ ping.received <= ping.sent
  /\ ip[ping.host] \in Ip
  /\ ping.sent = 0 => stack = <<>>

(* The inbox holds replies to the last request, if any. *)
InboxOK ==
  \A k \in inbox : /\ k \in 1 .. Count /\ k = ping.sent
                   /\ \E a \in answered : a.seq = k /\ a.ip = ping.target

AnsweredOK ==
  /\ answered \subseteq [host : Host, ip : Ip, seq : 1 .. Count]
  /\ \A a \in answered : ip[a.host] = a.ip

IInv ==
  /\ TablesOK
  /\ Idle \/ Pinging
  /\ Nested(stack, ping, answered)
  /\ InboxOK
  /\ AnsweredOK

-------------------------------------------------------------------------------
(* Emissions and loops. *)

LEMMA BoundsFacts == HopLimit \in Nat /\ HopLimit > 0 /\ Count \in Nat /\ Count > 0
BY BoundsAssumption

LEMMA NoHops == 0 \in 0 .. HopLimit
BY BoundsFacts

LEMMA NoneFacts == None \notin Ip /\ None \notin Host /\ None \notin SwitchPort
BY NamesAssumption

(* A packet is never the absence of one. *)
LEMMA PacketIsOne == ASSUME NEW pk \in Packet PROVE pk # NoPacket
BY DEF Packet

LEMMA ToldLater ==
  ASSUME NEW m, NEW png, NEW given, NEW more, given \subseteq more, Told(m, png, given)
  PROVE  Told(m, png, more)
BY DEF Told

LEMMA SoundLater ==
  ASSUME NEW queue, NEW png, NEW given, NEW more, given \subseteq more,
         Sound(queue, png, given)
  PROVE  Sound(queue, png, more)
BY ToldLater DEF Sound

LEMMA SaneLater ==
  ASSUME NEW l, NEW png, NEW given, NEW more, given \subseteq more, Sane(l, png, given)
  PROVE  Sane(l, png, more)
BY ToldLater, SoundLater DEF Sane, Kept

LEMMA NestedLater ==
  ASSUME NEW loops, NEW png, NEW given, NEW more, given \subseteq more,
         Nested(loops, png, given)
  PROVE  Nested(loops, png, more)
BY SaneLater DEF Nested

(* The rest of a queue is sound, and carries only ARP if the queue did. *)
LEMMA SoundTail ==
  ASSUME NEW queue, NEW png, NEW given, Sound(queue, png, given), queue # <<>>
  PROVE  /\ Sound(Tail(queue), png, given)
         /\ OnlyArp(queue) => OnlyArp(Tail(queue))
         /\ Head(queue) \in Emission
         /\ IsArp(Head(queue).frame) \/ Told(Head(queue).frame, png, given)
         /\ OnlyArp(queue) => IsArp(Head(queue).frame)
<1>1. queue \in Seq(Emission) /\ Len(queue) \in Nat /\ Len(queue) # 0
  BY DEF Sound
<1>2. Tail(queue) \in Seq(Emission) /\ Len(Tail(queue)) = Len(queue) - 1
  BY <1>1
<1>3. \A i \in DOMAIN Tail(queue) : i + 1 \in DOMAIN queue /\ Tail(queue)[i] = queue[i + 1]
  BY <1>1, <1>2
<1>4. 1 \in DOMAIN queue /\ Head(queue) = queue[1] /\ queue[1] \in Emission
  BY <1>1
<1>5. Sound(Tail(queue), png, given)
  BY <1>2, <1>3 DEF Sound
<1>6. OnlyArp(queue) => OnlyArp(Tail(queue))
  BY <1>3 DEF OnlyArp
<1>7. QED
  BY <1>4, <1>5, <1>6 DEF Sound, OnlyArp

LEMMA SoundAppended ==
  ASSUME NEW queue, NEW out, NEW png, NEW given,
         Sound(queue, png, given), Sound(out, png, given)
  PROVE  /\ Sound(queue \o out, png, given)
         /\ OnlyArp(queue) /\ OnlyArp(out) => OnlyArp(queue \o out)
<1>1. queue \in Seq(Emission) /\ out \in Seq(Emission)
  BY DEF Sound
<1>2. queue \o out \in Seq(Emission) /\ Len(queue \o out) = Len(queue) + Len(out)
  BY <1>1
<1>3. \A i \in DOMAIN (queue \o out) :
        \/ i \in DOMAIN queue /\ (queue \o out)[i] = queue[i]
        \/ i - Len(queue) \in DOMAIN out /\ (queue \o out)[i] = out[i - Len(queue)]
  <2> TAKE i \in DOMAIN (queue \o out)
  <2>1. i \in 1 .. Len(queue) + Len(out)
    BY <1>2
  <2>2. CASE i <= Len(queue)
    BY <1>1, <2>1, <2>2
  <2>3. CASE i > Len(queue)
    BY <1>1, <2>1, <2>3
  <2>4. QED
    BY <1>1, <2>1, <2>2, <2>3
<1>4. Sound(queue \o out, png, given)
  BY <1>2, <1>3 DEF Sound
<1>5. OnlyArp(queue) /\ OnlyArp(out) => OnlyArp(queue \o out)
  BY <1>3 DEF OnlyArp
<1>6. QED
  BY <1>4, <1>5

(* One emission is a sound queue if its frame is sound. *)
LEMMA SoundSingle ==
  ASSUME NEW e \in Emission, NEW png, NEW given,
         IsArp(e.frame) \/ Told(e.frame, png, given)
  PROVE  Sound(<<e>>, png, given) /\ (IsArp(e.frame) => OnlyArp(<<e>>))
BY DEF Sound, OnlyArp

LEMMA SoundNothing == ASSUME NEW png, NEW given PROVE Sound(<<>>, png, given) /\ OnlyArp(<<>>)
BY DEF Sound, OnlyArp

-------------------------------------------------------------------------------
(* Short sequences. *)

LEMMA Shorts ==
  ASSUME NEW S, NEW s \in Seq(S)
  PROVE  /\ Len(s) \in Nat
         /\ s # <<>> <=> Len(s) # 0
         /\ Len(s) = 1 => s = <<s[1]>>
<1>1. Len(s) \in Nat /\ (Len(s) = 0 <=> s = <<>>)
  BY EmptySeq, LenProperties
<1>2. ASSUME Len(s) = 1 PROVE s = <<s[1]>>
  <2>1. s[1] \in S
    BY <1>2, ElementOfSeq
  <2>2. <<s[1]>> \in Seq(S) /\ Len(<<s[1]>>) = 1 /\ <<s[1]>>[1] = s[1]
    BY <2>1
  <2>3. \A i \in 1 .. Len(s) : s[i] = <<s[1]>>[i]
    BY <1>2, <2>2
  <2>4. QED
    BY <1>2, <2>2, <2>3, SeqEqual
<1>3. QED
  BY <1>1, <1>2

LEMMA Pairs ==
  ASSUME NEW S, NEW a \in S, NEW b \in S
  PROVE  /\ <<a>> \o <<b>> = <<a, b>>
         /\ <<a>> \o <<>> = <<a>>
         /\ Tail(<<a, b>>) = <<b>> /\ Tail(<<a>>) = <<>>
         /\ Head(<<a, b>>) = a /\ Head(<<a>>) = a
         /\ <<a, b>> # <<>> /\ <<a>> # <<>>
<1>1. <<a>> \in Seq(S) /\ <<b>> \in Seq(S) /\ <<a, b>> \in Seq(S)
  OBVIOUS
<1>2. <<a>> \o <<b>> \in Seq(S) /\ Len(<<a>> \o <<b>>) = 2
      /\ (<<a>> \o <<b>>)[1] = a /\ (<<a>> \o <<b>>)[2] = b
  BY <1>1
<1>3. <<a>> \o <<b>> = <<a, b>>
  <2>1. \A i \in 1 .. Len(<<a>> \o <<b>>) : (<<a>> \o <<b>>)[i] = <<a, b>>[i]
    BY <1>2
  <2>2. QED
    BY <1>1, <1>2, <2>1, SeqEqual
<1>4. <<a>> \o <<>> = <<a>>
  BY <1>1, ConcatEmptySeq
<1>5. Tail(<<a, b>>) \in Seq(S) /\ Len(Tail(<<a, b>>)) = 1 /\ Tail(<<a, b>>)[1] = b
  BY <1>1
<1>6. Tail(<<a>>) \in Seq(S) /\ Len(Tail(<<a>>)) = 0
  BY <1>1
<1>7. /\ Head(<<a, b>>) = a /\ Head(<<a>>) = a
      /\ <<a, b>> # <<>> /\ <<a>> # <<>>
  BY <1>1
<1>8. QED
  BY <1>3, <1>4, <1>5, <1>6, <1>7, Shorts, EmptySeq

-------------------------------------------------------------------------------
(* Stacks of loops. *)

LEMMA NestedSplit ==
  ASSUME NEW loops, NEW png, NEW given, Nested(loops, png, given), loops # <<>>
  PROVE  /\ Sane(Head(loops), png, given)
         /\ \/ Tail(loops) = <<>>
            \/ /\ Tail(loops) = <<loops[2]>>
               /\ Sane(loops[2], png, given)
               /\ Head(loops).held # NoPacket /\ loops[2].held = NoPacket
<1>1. loops \in Seq(LoopType) /\ Len(loops) \in {1, 2}
  <2>1. loops \in Seq(LoopType) /\ Len(loops) <= 2
    BY DEF Nested
  <2>2. Len(loops) \in Nat /\ Len(loops) # 0
    BY <2>1, Shorts
  <2>3. \A n \in Nat : n # 0 /\ n <= 2 => n \in {1, 2}
    OBVIOUS
  <2>4. QED
    BY <2>1, <2>2, <2>3
<1>2. Head(loops) = loops[1] /\ 1 \in DOMAIN loops
  BY <1>1
<1>3. CASE Len(loops) = 1
  <2>1. Tail(loops) \in Seq(LoopType) /\ Len(Tail(loops)) = 0
    BY <1>1, <1>3, HeadTailProperties
  <2>2. Tail(loops) = <<>>
    BY <2>1, Shorts
  <2>3. QED
    BY <1>2, <2>2 DEF Nested
<1>4. CASE Len(loops) = 2
  <2>1. 2 \in DOMAIN loops
    BY <1>1, <1>4
  <2>2. Tail(loops) \in Seq(LoopType) /\ Len(Tail(loops)) = 1 /\ Tail(loops)[1] = loops[2]
    BY <1>1, <1>4
  <2>3. Tail(loops) = <<loops[2]>>
    BY <2>2, Shorts
  <2>4. QED
    BY <1>2, <1>4, <2>1, <2>3 DEF Nested
<1>5. QED
  BY <1>1, <1>3, <1>4

LEMMA NestedOne ==
  ASSUME NEW l, NEW png, NEW given, Sane(l, png, given)
  PROVE  Nested(<<l>>, png, given)
BY DEF Nested, Sane

LEMMA NestedTwo ==
  ASSUME NEW l, NEW k, NEW png, NEW given, Sane(l, png, given), Sane(k, png, given),
         l.held # NoPacket, k.held = NoPacket
  PROVE  Nested(<<l>> \o <<k>>, png, given)
<1>1. l \in LoopType /\ k \in LoopType
  BY DEF Sane
<1>2. <<l>> \o <<k>> = <<l, k>>
  BY <1>1, Pairs
<1>3. QED
  BY <1>1, <1>2 DEF Nested

LEMMA NestedNone == ASSUME NEW png, NEW given PROVE Nested(<<>>, png, given)
BY DEF Nested

(* The innermost loop replaced by one with the same packet held. *)
LEMMA NestedRenewed ==
  ASSUME NEW loops, NEW l, NEW png, NEW given, Nested(loops, png, given), loops # <<>>,
         Sane(l, png, given), l.held = Head(loops).held
  PROVE  /\ Nested(<<l>> \o Tail(loops), png, given)
         /\ <<l>> \o Tail(loops) # <<>>
         /\ Head(<<l>> \o Tail(loops)) = l
         /\ Tail(<<l>> \o Tail(loops)) = Tail(loops)
<1>1. l \in LoopType
  BY DEF Sane
<1>2. CASE Tail(loops) = <<>>
  <2>1. /\ <<l>> \o Tail(loops) = <<l>> /\ Tail(<<l>>) = <<>>
         /\ <<l>> # <<>> /\ Head(<<l>>) = l
    BY <1>1, <1>2, Pairs
  <2>2. QED
    BY <1>2, <2>1, NestedOne
<1>3. CASE /\ Tail(loops) = <<loops[2]>>
           /\ Sane(loops[2], png, given)
           /\ Head(loops).held # NoPacket /\ loops[2].held = NoPacket
  <2>1. Nested(<<l>> \o Tail(loops), png, given)
    BY <1>3, NestedTwo
  <2>2. loops[2] \in LoopType
    BY <1>3 DEF Sane
  <2>3. /\ <<l>> \o <<loops[2]>> = <<l, loops[2]>> /\ Tail(<<l, loops[2]>>) = <<loops[2]>>
        /\ <<l, loops[2]>> # <<>> /\ Head(<<l, loops[2]>>) = l
    BY <1>1, <2>2, Pairs
  <2>4. QED
    BY <1>3, <2>1, <2>3
<1>4. QED
  BY <1>2, <1>3, NestedSplit

LEMMA NestedEnqueued ==
  ASSUME NEW loops, NEW out, NEW png, NEW given, Nested(loops, png, given), loops # <<>>,
         Sound(out, png, given), Head(loops).held # NoPacket => OnlyArp(out)
  PROVE  Nested(Enqueue(loops, out), png, given)
<1> DEFINE l == Loop(Head(loops).queue \o out, Head(loops).held)
<1>1. Sane(Head(loops), png, given)
  BY NestedSplit
<1>2. Sane(l, png, given) /\ l.held = Head(loops).held
  <2>1. Sound(Head(loops).queue \o out, png, given)
    BY <1>1, SoundAppended DEF Sane
  <2>2. Head(loops).held # NoPacket => OnlyArp(Head(loops).queue \o out)
    BY <1>1, SoundAppended DEF Sane
  <2>3. l \in LoopType
    BY <1>1, <2>1 DEF Sane, Sound, Loop, LoopType
  <2>4. QED
    BY <1>1, <2>1, <2>2, <2>3 DEF Sane, Loop
<1>3. QED
  BY <1>2, NestedRenewed DEF Enqueue

(* What the innermost loop hands to a device. *)
LEMMA FrameAtHand ==
  ASSUME Nested(stack, ping, answered), stack # <<>>, Top.queue # <<>>
  PROVE  /\ Head(Top.queue).frame \in Frame
         /\ IsArp(Head(Top.queue).frame) \/ Told(Head(Top.queue).frame, ping, answered)
         /\ Top.held # NoPacket => IsArp(Head(Top.queue).frame)
         /\ Nested(Popped, ping, answered)
         /\ Popped # <<>>
         /\ Head(Popped).held = Top.held
         /\ Tail(Popped) = Below
<1> DEFINE l == Loop(Tail(Top.queue), Top.held)
<1>1. Sane(Top, ping, answered)
  BY NestedSplit DEF Top
<1>2. /\ Sound(Tail(Top.queue), ping, answered)
      /\ OnlyArp(Top.queue) => OnlyArp(Tail(Top.queue))
      /\ Head(Top.queue) \in Emission
      /\ IsArp(Head(Top.queue).frame) \/ Told(Head(Top.queue).frame, ping, answered)
      /\ OnlyArp(Top.queue) => IsArp(Head(Top.queue).frame)
  BY <1>1, SoundTail DEF Sane
<1>3. Sane(l, ping, answered) /\ l.held = Top.held
  <2>1. l \in LoopType
    BY <1>1, <1>2 DEF Sane, Sound, Loop, LoopType
  <2>2. QED
    BY <1>1, <1>2, <2>1 DEF Sane, Loop
<1>4. /\ Nested(<<l>> \o Below, ping, answered)
      /\ <<l>> \o Below # <<>>
      /\ Head(<<l>> \o Below) = l
      /\ Tail(<<l>> \o Below) = Below
  BY <1>3, NestedRenewed DEF Top, Below
<1>5. QED
  BY <1>1, <1>2, <1>3, <1>4 DEF Sane, Emission, Popped

(* A loop that asks for an address, for a packet its caller holds. *)
LEMMA AskingIsSane ==
  ASSUME TablesOK, NEW pk, NEW png, NEW given, Kept(pk, png, given), ip[pk.host] \in Ip
  PROVE  Sane(Asking(pk), png, given) /\ Asking(pk).held = pk /\ pk # NoPacket
<1> DEFINE e == Out(pk.host, WhoHas(pk.host, pk.dip))
<1>1. pk.host \in Host /\ pk.dip \in Ip
  BY DEF Kept, Packet
<1>2. e \in Emission /\ IsArp(e.frame)
  BY <1>1, BoundsFacts DEF Out, WhoHas, Emission, Frame, IsArp, Port
<1>3. Sound(<<e>>, png, given) /\ OnlyArp(<<e>>)
  BY <1>2, SoundSingle
<1>4. pk # NoPacket
  BY PacketIsOne DEF Kept
<1>5. QED
  BY <1>3, <1>4 DEF Sane, Asking, Loop, LoopType, Sound, Kept

(* A packet the wire can carry becomes a sound emission. *)
LEMMA CarriedIsSound ==
  ASSUME NEW pk, NEW png, NEW given, NEW m \in Host, Kept(pk, png, given)
  PROVE  Sound(<<Out(pk.host, Carry(pk, m))>>, png, given)
<1> DEFINE e == Out(pk.host, Carry(pk, m))
<1>1. e \in Emission
  BY BoundsFacts DEF Kept, Packet, Out, Carry, Emission, Frame, Port
<1>2. Told(e.frame, png, given)
  BY DEF Kept, Told, Out, Carry
<1>3. QED
  BY <1>1, <1>2, SoundSingle

(* A loop started inside one that holds nothing. *)
LEMMA NestedPushed ==
  ASSUME NEW loops, NEW l, NEW png, NEW given, Nested(loops, png, given), loops # <<>>,
         Head(loops).held = NoPacket, Sane(l, png, given), l.held # NoPacket
  PROVE  Nested(<<l>> \o loops, png, given)
<1>1. Sane(Head(loops), png, given) /\ Tail(loops) = <<>>
  BY NestedSplit
<1>2. loops \in Seq(LoopType)
  BY DEF Nested
<1>3. loops = <<Head(loops)>>
  <2>1. Len(loops) \in Nat /\ Len(Tail(loops)) = Len(loops) - 1 /\ Len(Tail(loops)) = 0
    BY <1>1, <1>2, HeadTailProperties, LenProperties, EmptySeq
  <2>2. Len(loops) = 1
    <3>1. \A n \in Nat : n - 1 = 0 => n = 1
      OBVIOUS
    <3>2. QED
      BY <2>1, <3>1
  <2>3. Head(loops) = loops[1]
    BY <1>2
  <2>4. QED
    BY <1>2, <2>2, <2>3, Shorts
<1>4. Nested(<<l>> \o <<Head(loops)>>, png, given)
  BY <1>1, NestedTwo
<1>5. QED
  BY <1>3, <1>4

-------------------------------------------------------------------------------
(* The handlers: a frame f reaches a device, loops are what is left.       *)

AtHand(f, loops) ==
  /\ f \in Frame
  /\ IsArp(f) \/ Told(f, ping, answered)
  /\ Nested(loops, ping, answered)
  /\ loops # <<>>
  /\ Head(loops).held # NoPacket => IsArp(f)

TablesTyped(a, m) ==
  /\ a \in [Host -> [Ip -> Host \cup {None}]]
  /\ m \in [Switch -> [Host -> SwitchPort \cup {None}]]

Handled ==
  /\ TablesTyped(arp', mac')
  /\ Nested(stack', ping, answered')
  /\ InboxOK'
  /\ AnsweredOK'

LEMMA FrameFields ==
  ASSUME NEW f \in Frame
  PROVE  /\ f.kind \in {"who-has", "is-at", "echo", "reply"}
         /\ f.src \in Host /\ f.dst \in Host \cup {Broadcast}
         /\ f.sip \in Ip /\ f.dip \in Ip /\ f.seq \in 0 .. Count
BY DEF Frame

LEMMA PortFacts ==
  ASSUME NEW s \in Switch
  PROVE  /\ Ports[s] \in Seq(SwitchPort)
         /\ PortsOf(s) \subseteq SwitchPort
         /\ IsFiniteSet(DOMAIN Ports[s])
<1>1. Ports[s] \in Seq(SwitchPort)
  BY PortsAssumption
<1>2. DOMAIN Ports[s] = 1 .. Len(Ports[s]) /\ Len(Ports[s]) \in Nat
  BY <1>1, LenProperties
<1>3. IsFiniteSet(DOMAIN Ports[s])
  BY <1>2, FS_Interval
<1>4. QED
  BY <1>1, <1>3 DEF SwitchPort

(* What a switch sends out goes through ports of its own. *)
LEMMA TargetsTyped ==
  ASSUME NEW s \in Switch, NEW p \in PortsOf(s), NEW f \in Frame,
         NEW table \in [Switch -> [Host -> SwitchPort \cup {None}]],
         NEW out \in Targets(s, p, f, table)
  PROVE  out \in Seq(SwitchPort)
<1>1. CASE Floods(s, p, f, table)
  <2> DEFINE I == FloodPorts(s, p)
  <2>1. PICK g \in Ascending(I) : out = [i \in DOMAIN g |-> Ports[s][g[i]]]
    BY <1>1 DEF Targets
  <2>2. I \subseteq DOMAIN Ports[s] /\ Cardinality(I) \in Nat
    BY PortFacts, FS_Subset, FS_CardinalityType DEF FloodPorts
  <2>3. g \in [1 .. Cardinality(I) -> I]
    BY <2>1 DEF Ascending
  <2>4. \A i \in 1 .. Cardinality(I) : Ports[s][g[i]] \in SwitchPort
    BY <2>2, <2>3, PortFacts, ElementOfSeq, LenProperties
  <2>5. out \in [1 .. Cardinality(I) -> SwitchPort]
    BY <2>1, <2>3, <2>4
  <2>6. QED
    BY <2>2, <2>5
<1>2. CASE ~Floods(s, p, f, table)
  <2>1. f.dst \in Host /\ table[s][f.dst] # None
    BY <1>2, FrameFields DEF Floods
  <2>2. table[s][f.dst] \in SwitchPort
    BY <2>1
  <2>3. out = <<>> \/ out = <<table[s][f.dst]>>
    BY <1>2 DEF Targets
  <2>4. \A q \in SwitchPort : <<q>> \in Seq(SwitchPort)
    OBVIOUS
  <2>5. <<>> \in Seq(SwitchPort)
    OBVIOUS
  <2>6. QED
    BY <2>2, <2>3, <2>4, <2>5
<1>3. QED
  BY <1>1, <1>2

(* The same frame sent by several ports is a sound queue. *)
LEMMA FanOut ==
  ASSUME NEW out \in Seq(SwitchPort), NEW f, NEW png, NEW given,
         f \in Frame, IsArp(f) \/ Told(f, png, given)
  PROVE  /\ Sound([i \in DOMAIN out |-> Out(out[i], f)], png, given)
         /\ IsArp(f) => OnlyArp([i \in DOMAIN out |-> Out(out[i], f)])
<1> DEFINE q == [i \in DOMAIN out |-> Out(out[i], f)]
<1>1. DOMAIN out = 1 .. Len(out) /\ Len(out) \in Nat
  BY LenProperties
<1>2. \A i \in 1 .. Len(out) : Out(out[i], f) \in Emission
  BY ElementOfSeq DEF Out, Emission, Port
<1>3. q \in [1 .. Len(out) -> Emission]
  BY <1>1, <1>2
<1>4. q \in Seq(Emission) /\ DOMAIN q = DOMAIN out
  BY <1>1, <1>3
<1>5. \A i \in DOMAIN q : q[i].frame = f
  BY <1>4 DEF Out
<1>6. QED
  BY <1>4, <1>5 DEF Sound, OnlyArp

LEMMA SwitchStep ==
  ASSUME IInv, NEW s \in Switch, NEW p \in PortsOf(s), NEW f, NEW loops,
         AtHand(f, loops), SwitchReceives(s, p, f, loops), UNCHANGED <<ip, ping>>
  PROVE  Handled
<1> DEFINE table == Learned(s, p, f)
<1>1. f \in Frame /\ Nested(loops, ping, answered) /\ loops # <<>>
  BY DEF AtHand
<1>2. table \in [Switch -> [Host -> SwitchPort \cup {None}]]
  BY <1>1, FrameFields, PortFacts DEF IInv, TablesOK, Learned
<1>3. PICK out \in Targets(s, p, f, table) :
         stack' = Enqueue(loops, [i \in DOMAIN out |-> Out(out[i], f)])
  BY DEF SwitchReceives
<1>4. out \in Seq(SwitchPort)
  BY <1>1, <1>2, <1>3, TargetsTyped
<1>5. Nested(stack', ping, answered)
  BY <1>1, <1>3, <1>4, FanOut, NestedEnqueued DEF AtHand
<1>6. mac' = table /\ UNCHANGED <<arp, inbox, answered>>
  BY DEF SwitchReceives
<1>7. QED
  BY <1>2, <1>5, <1>6 DEF Handled, TablesTyped, IInv, TablesOK, InboxOK, AnsweredOK

(* A host that answers an ARP question caches the asker first. *)
LEMMA AnswerArpStep ==
  ASSUME IInv, NEW h \in Host, NEW f, NEW loops,
         AtHand(f, loops), AnswerArp(h, f, loops), UNCHANGED <<ip, ping, mac>>
  PROVE  Handled
<1> DEFINE e == Out(h, IsAt(h, f))
<1>1. f \in Frame /\ Nested(loops, ping, answered) /\ loops # <<>>
  BY DEF AtHand
<1>2. e \in Emission /\ IsArp(e.frame)
  BY <1>1, FrameFields, BoundsFacts DEF Out, IsAt, Emission, Frame, Port, IsArp
<1>3. Sound(<<e>>, ping, answered) /\ OnlyArp(<<e>>)
  BY <1>2, SoundSingle
<1>4. Nested(stack', ping, answered)
  BY <1>1, <1>3, NestedEnqueued DEF AnswerArp
<1>5. arp' \in [Host -> [Ip -> Host \cup {None}]]
  BY <1>1, FrameFields DEF AnswerArp, IInv, TablesOK
<1>6. QED
  BY <1>4, <1>5 DEF AnswerArp, Handled, TablesTyped, IInv, TablesOK, InboxOK, AnsweredOK

LEMMA CacheArpStep ==
  ASSUME IInv, NEW h \in Host, NEW f, NEW loops,
         AtHand(f, loops), CacheArp(h, f, loops), UNCHANGED <<ip, ping, mac>>
  PROVE  Handled
<1>1. f \in Frame /\ Nested(loops, ping, answered)
  BY DEF AtHand
<1>2. arp' \in [Host -> [Ip -> Host \cup {None}]]
  BY <1>1, FrameFields DEF CacheArp, IInv, TablesOK
<1>3. QED
  BY <1>1, <1>2 DEF CacheArp, Handled, TablesTyped, IInv, TablesOK, InboxOK, AnsweredOK

(* The reply to an echo is one that was asked for; if its way has to be    *)
(* asked for first, the loop it came by holds nothing.                     *)
LEMMA AnswerEchoStep ==
  ASSUME IInv, NEW h \in Host, NEW f, NEW loops,
         AtHand(f, loops), AnswerEcho(h, f, loops), UNCHANGED <<ip, ping, mac>>
  PROVE  Handled
<1> DEFINE pk == [kind |-> "reply", host |-> h, sip |-> f.dip, dip |-> f.sip, seq |-> f.seq]
           a == [host |-> h, ip |-> f.dip, seq |-> f.seq]
           given == answered \cup {a}
<1>1. f \in Frame /\ Nested(loops, ping, answered) /\ loops # <<>>
  BY DEF AtHand
<1>2. f.kind = "echo" /\ ip[h] = f.dip /\ answered' = given /\ UNCHANGED <<arp, inbox>>
  BY DEF AnswerEcho, Accepts
<1>3. ~IsArp(f) /\ Told(f, ping, answered) /\ Head(loops).held = NoPacket
  BY <1>2 DEF AtHand, IsArp
<1>4. /\ ping.sent \in 1 .. Count /\ f.seq = ping.sent /\ f.dip = ping.target
      /\ f.sip \in Ip /\ f.dip \in Ip
  BY <1>1, <1>2, <1>3, FrameFields DEF Told
<1>5. pk \in Packet /\ pk.kind = "reply" /\ pk.host = h /\ pk.sip = f.dip /\ pk.dip = f.sip
      /\ pk.seq = f.seq
  BY <1>4 DEF Packet
<1>6. Told(pk, ping, given)
  <2>1. a \in given /\ a.ip = pk.sip /\ a.seq = pk.seq
    BY <1>5
  <2>2. QED
    BY <1>4, <1>5, <2>1 DEF Told
<1>7. Kept(pk, ping, given)
  BY <1>5, <1>6 DEF Kept
<1>8. Nested(loops, ping, given)
  BY <1>1, NestedLater
<1>9. Nested(stack', ping, given)
  <2>1. CASE arp[h][f.sip] # None
    <3>1. arp[h][f.sip] \in Host
      BY <1>4, <2>1 DEF IInv, TablesOK
    <3>2. Sound(<<Out(h, Carry(pk, arp[h][f.sip]))>>, ping, given)
      BY <1>5, <1>7, <3>1, CarriedIsSound
    <3>3. stack' = Enqueue(loops, <<Out(h, Carry(pk, arp[h][f.sip]))>>)
      BY <2>1 DEF AnswerEcho
    <3>4. QED
      BY <1>1, <1>3, <1>8, <3>2, <3>3, NestedEnqueued
  <2>2. CASE arp[h][f.sip] = None
    <3>1. ip[pk.host] \in Ip
      BY <1>2, <1>4, <1>5
    <3>2. Sane(Asking(pk), ping, given) /\ Asking(pk).held # NoPacket
      BY <1>7, <3>1, AskingIsSane DEF IInv
    <3>3. stack' = <<Asking(pk)>> \o loops
      BY <2>2 DEF AnswerEcho
    <3>4. QED
      BY <1>1, <1>3, <1>8, <3>2, <3>3, NestedPushed
  <2>3. QED
    BY <2>1, <2>2
<1>10. InboxOK'
  BY <1>2 DEF IInv, InboxOK
<1>11. AnsweredOK'
  <2>1. a \in [host : Host, ip : Ip, seq : 1 .. Count] /\ ip[a.host] = a.ip
    BY <1>2, <1>4
  <2>2. QED
    BY <1>2, <2>1 DEF IInv, AnsweredOK
<1>12. QED
  BY <1>2, <1>9, <1>10, <1>11 DEF Handled, TablesTyped, IInv, TablesOK

LEMMA KeepReplyStep ==
  ASSUME IInv, NEW h \in Host, NEW f, NEW loops,
         AtHand(f, loops), KeepReply(h, f, loops), UNCHANGED <<ip, ping, mac>>
  PROVE  Handled
<1>1. /\ f.kind = "reply" /\ stack' = loops /\ UNCHANGED <<arp, answered>>
      /\ inbox' = inbox \/ inbox' = inbox \cup {f.seq}
  BY DEF KeepReply
<1>2. Nested(loops, ping, answered) /\ Told(f, ping, answered)
  BY <1>1 DEF AtHand, IsArp
<1>3. InboxOK'
  BY <1>1, <1>2 DEF Told, IInv, InboxOK
<1>4. QED
  BY <1>1, <1>2, <1>3 DEF Handled, TablesTyped, IInv, TablesOK, AnsweredOK

LEMMA DiscardStep ==
  ASSUME IInv, NEW h \in Host, NEW f, NEW loops,
         AtHand(f, loops), Discard(h, f, loops), UNCHANGED <<ip, ping, mac>>
  PROVE  Handled
BY DEF AtHand, Discard, Handled, TablesTyped, IInv, TablesOK, InboxOK, AnsweredOK

LEMMA HostStep ==
  ASSUME IInv, NEW h \in Host, NEW f, NEW loops,
         AtHand(f, loops), HostReceives(h, f, loops), UNCHANGED <<ip, ping>>
  PROVE  Handled
<1>1. mac' = mac
  BY DEF HostReceives
<1>2. CASE AnswerArp(h, f, loops)
  BY <1>1, <1>2, AnswerArpStep
<1>3. CASE CacheArp(h, f, loops)
  BY <1>1, <1>3, CacheArpStep
<1>4. CASE AnswerEcho(h, f, loops)
  BY <1>1, <1>4, AnswerEchoStep
<1>5. CASE KeepReply(h, f, loops)
  BY <1>1, <1>5, KeepReplyStep
<1>6. CASE Discard(h, f, loops)
  BY <1>1, <1>6, DiscardStep
<1>7. QED
  BY <1>2, <1>3, <1>4, <1>5, <1>6 DEF HostReceives

-------------------------------------------------------------------------------
(* The steps of the engine. *)

(* The command that runs is the only reason for a loop. *)
LEMMA LoopsAreForPings ==
  ASSUME IInv, stack # <<>>
  PROVE  Pinging /\ ping.sent # 0
BY DEF IInv, Idle, Pinging

LEMMA Delivers == ASSUME IInv, Deliver PROVE IInv'
<1> DEFINE f == Head(Top.queue).frame
<1>1. /\ stack # <<>> /\ Top.queue # <<>> /\ hops < HopLimit /\ hops' = hops + 1
      /\ UNCHANGED <<live, ip, storm, ping>>
  BY DEF Deliver
<1>2. AtHand(f, Popped)
  BY <1>1, FrameAtHand DEF AtHand, IInv
<1>3. PICK p \in Peers(Head(Top.queue).port) :
        \/ p \in Host /\ HostReceives(p, f, Popped)
        \/ \E s \in Switch : p \in PortsOf(s) /\ SwitchReceives(s, p, f, Popped)
  BY DEF Deliver
<1>4. Handled
  <2>1. CASE p \in Host /\ HostReceives(p, f, Popped)
    BY <1>1, <1>2, <2>1, HostStep
  <2>2. ASSUME NEW s \in Switch, p \in PortsOf(s), SwitchReceives(s, p, f, Popped)
        PROVE  Handled
    BY <1>1, <1>2, <2>2, SwitchStep
  <2>3. QED
    BY <1>3, <2>1, <2>2
<1>5. TablesOK'
  BY <1>1, <1>4, BoundsFacts DEF IInv, TablesOK, Handled, TablesTyped
<1>6. Pinging'
  BY <1>1, LoopsAreForPings DEF Pinging
<1>7. Nested(stack', ping', answered') /\ InboxOK' /\ AnsweredOK'
  BY <1>1, <1>4 DEF Handled
<1>8. QED
  BY <1>5, <1>6, <1>7 DEF IInv

LEMMA Drops == ASSUME IInv, DropFrame PROVE IInv'
<1>1. /\ stack # <<>> /\ Top.queue # <<>> /\ stack' = Popped
      /\ UNCHANGED <<live, ip, arp, mac, hops, storm, ping, inbox, answered>>
  BY DEF DropFrame
<1>2. Nested(stack', ping, answered)
  BY <1>1, FrameAtHand DEF IInv
<1>3. Pinging'
  BY <1>1, LoopsAreForPings DEF Pinging
<1>4. QED
  BY <1>1, <1>2, <1>3 DEF IInv, TablesOK, InboxOK, AnsweredOK

(* The loop below the one that returns holds nothing, so it may carry what *)
(* its handler was waiting to send.                                        *)
LEMMA ReturnsNested ==
  ASSUME IInv, stack # <<>>
  PROVE  Nested(AfterReturn, ping, answered)
<1> DEFINE pk  == Top.held
           out == <<Out(pk.host, Carry(pk, arp[pk.host][pk.dip]))>>
<1>1. /\ Sane(Top, ping, answered)
      /\ \/ Below = <<>>
         \/ /\ Below = <<stack[2]>>
            /\ Sane(stack[2], ping, answered)
            /\ stack[2].held = NoPacket
  BY NestedSplit DEF IInv, Top, Below
<1>2. Nested(Below, ping, answered)
  BY <1>1, NestedNone, NestedOne
<1>3. CASE pk = NoPacket \/ arp[pk.host][pk.dip] = None
  BY <1>2, <1>3 DEF AfterReturn
<1>4. CASE ~(pk = NoPacket \/ arp[pk.host][pk.dip] = None)
  <2>1. Kept(pk, ping, answered) /\ pk.host \in Host /\ pk.dip \in Ip
    BY <1>1, <1>4 DEF Sane, Kept, Packet
  <2>2. arp[pk.host][pk.dip] \in Host
    BY <1>4, <2>1 DEF IInv, TablesOK
  <2>3. Sound(out, ping, answered)
    BY <2>1, <2>2, CarriedIsSound
  <2>4. CASE Below = <<>>
    <3>1. Sane(Loop(out, NoPacket), ping, answered)
      BY <2>3 DEF Sane, Loop, LoopType, Sound
    <3>2. AfterReturn = <<Loop(out, NoPacket)>>
      BY <1>4, <2>4 DEF AfterReturn
    <3>3. QED
      BY <3>1, <3>2, NestedOne
  <2>5. CASE Below = <<stack[2]>> /\ Sane(stack[2], ping, answered) /\ stack[2].held = NoPacket
    <3>1. Below # <<>> /\ Head(Below) = stack[2]
      BY <2>5, Pairs DEF Sane
    <3>2. AfterReturn = Enqueue(Below, out)
      BY <1>4, <3>1 DEF AfterReturn
    <3>3. QED
      BY <1>2, <2>3, <2>5, <3>1, <3>2, NestedEnqueued
  <2>6. QED
    BY <1>1, <2>4, <2>5
<1>5. QED
  BY <1>3, <1>4

LEMMA Returns == ASSUME IInv, Return PROVE IInv'
<1>1. /\ stack # <<>> /\ stack' = AfterReturn /\ storm' = (storm \/ Top.queue # <<>>)
      /\ UNCHANGED <<live, ip, arp, mac, hops, ping, inbox, answered>>
  BY DEF Return
<1>2. Nested(stack', ping, answered)
  BY <1>1, ReturnsNested
<1>3. Pinging'
  BY <1>1, LoopsAreForPings DEF Pinging
<1>4. storm' \in BOOLEAN
  BY <1>1 DEF IInv, TablesOK
<1>5. QED
  BY <1>1, <1>2, <1>3, <1>4 DEF IInv, TablesOK, InboxOK, AnsweredOK

-------------------------------------------------------------------------------
(* The steps of the command and of the user. *)

LEMMA NoPingIsIdle == ASSUME IInv, ping = NoPing PROVE Idle
BY NoneFacts DEF IInv, Pinging, NoPing

LEMMA Starts ==
  ASSUME IInv, NEW h \in Host, NEW i \in Ip, StartPing(h, i)
  PROVE  IInv'
<1>1. Idle
  BY NoPingIsIdle DEF StartPing
<1>2. ip[h] \in Ip
  BY DEF StartPing, IInv, TablesOK
<1>3. Pinging'
  BY <1>1, <1>2, BoundsFacts DEF StartPing, Idle, Pinging
<1>4. Nested(stack', ping', answered')
  BY <1>1, NestedNone DEF StartPing, Idle
<1>5. TablesOK'
  <2>1. storm' \in BOOLEAN /\ hops' \in 0 .. HopLimit
    BY NoHops DEF StartPing
  <2>2. QED
    BY <2>1 DEF StartPing, IInv, TablesOK
<1>6. InboxOK' /\ AnsweredOK'
  BY DEF StartPing, InboxOK, AnsweredOK
<1>7. QED
  BY <1>3, <1>4, <1>5, <1>6 DEF IInv

(* Nothing of the request before is left when the next is sent. *)
LEMMA Sends == ASSUME IInv, SendEcho PROVE IInv'
<1> DEFINE pk == [kind |-> "echo", host |-> ping.host, sip |-> ip[ping.host],
                  dip |-> ping.target, seq |-> ping.sent + 1]
<1>1. /\ ping # NoPing /\ stack = <<>> /\ ping.sent < Count
      /\ ping' = [ping EXCEPT !.sent = @ + 1, !.received = @ + Replied]
      /\ inbox' = {} /\ UNCHANGED <<live, ip, arp, mac, hops, storm, answered>>
  BY DEF SendEcho
<1>2. Pinging
  BY <1>1 DEF IInv, Idle
<1>3. /\ ping.sent \in Nat /\ ping.received \in Nat /\ ping.received <= ping.sent
      /\ ping.host \in Host /\ ping.target \in Ip /\ ip[ping.host] \in Ip
  BY <1>2, BoundsFacts DEF Pinging
<1>4. /\ ping'.host = ping.host /\ ping'.target = ping.target
      /\ ping'.sent = ping.sent + 1 /\ ping'.received = ping.received + Replied
  BY <1>1, <1>2 DEF Pinging
<1>5. Replied \in {0, 1}
  BY DEF Replied
<1>6. /\ ping' \in [host : Host, target : Ip, sent : 0 .. Count, received : 0 .. Count]
      /\ ping'.received <= ping'.sent /\ ping'.sent # 0
  <2>1. ping.sent + 1 \in 0 .. Count /\ ping.sent + 1 # 0
    BY <1>1, <1>3, BoundsFacts
  <2>2. ping.received + Replied \in 0 .. Count /\ ping.received + Replied <= ping.sent + 1
    BY <1>1, <1>3, <1>5, BoundsFacts
  <2>3. ping' = [host |-> ping.host, target |-> ping.target,
                 sent |-> ping.sent + 1, received |-> ping.received + Replied]
    BY <1>1, <1>2 DEF Pinging
  <2>4. QED
    BY <1>3, <2>1, <2>2, <2>3
<1>7. Pinging'
  BY <1>1, <1>3, <1>4, <1>6 DEF Pinging
<1>8. Kept(pk, ping', answered) /\ pk.host = ping.host /\ pk.dip = ping.target
  BY <1>1, <1>3, <1>4, BoundsFacts DEF Kept, Told, Packet
<1>9. Nested(stack', ping', answered)
  <2>1. CASE arp[ping.host][ping.target] # None
    <3> DEFINE out == <<Out(ping.host, Carry(pk, arp[ping.host][ping.target]))>>
    <3>1. arp[ping.host][ping.target] \in Host
      BY <1>3, <2>1 DEF IInv, TablesOK
    <3>2. Sound(out, ping', answered)
      BY <1>8, <3>1, CarriedIsSound
    <3>3. Sane(Loop(out, NoPacket), ping', answered)
      BY <3>2 DEF Sane, Loop, LoopType, Sound
    <3>4. stack' = <<Loop(out, NoPacket)>>
      BY <2>1 DEF SendEcho
    <3>5. QED
      BY <3>3, <3>4, NestedOne
  <2>2. CASE arp[ping.host][ping.target] = None
    <3>1. Sane(Asking(pk), ping', answered)
      BY <1>3, <1>8, AskingIsSane DEF IInv
    <3>2. stack' = <<Asking(pk)>>
      BY <2>2 DEF SendEcho
    <3>3. QED
      BY <3>1, <3>2, NestedOne
  <2>3. QED
    BY <2>1, <2>2
<1>10. QED
  BY <1>1, <1>7, <1>9 DEF IInv, TablesOK, InboxOK, AnsweredOK

LEMMA Finishes == ASSUME IInv, Finish PROVE IInv'
<1>1. TablesOK'
  <2>1. storm' \in BOOLEAN /\ hops' \in 0 .. HopLimit
    BY NoHops DEF Finish
  <2>2. QED
    BY <2>1 DEF Finish, IInv, TablesOK
<1>2. Idle'
  BY DEF Finish, Idle
<1>3. Nested(stack', ping', answered') /\ InboxOK' /\ AnsweredOK'
  BY <1>2, NestedNone DEF Idle, InboxOK, AnsweredOK
<1>4. QED
  BY <1>1, <1>2, <1>3 DEF IInv

(* Users act between commands, when nothing was answered and no loop runs. *)
LEMMA UserActs == ASSUME IInv, UserStep PROVE IInv'
<1>1. ping = NoPing /\ UNCHANGED <<stack, hops, storm, ping, inbox, answered>>
  BY DEF UserStep, ClearArp, ClearMac, ChangeCable, ChangeAddress
<1>2. Idle
  BY <1>1, NoPingIsIdle
<1>3. TablesOK'
  <2>1. ASSUME NEW h \in Host, ClearArp(h) PROVE TablesOK'
    BY <2>1 DEF ClearArp, IInv, TablesOK
  <2>2. ASSUME NEW s \in Switch, ClearMac(s) PROVE TablesOK'
    BY <2>2 DEF ClearMac, IInv, TablesOK
  <2>3. ASSUME NEW c \in Cable, ChangeCable(c) PROVE TablesOK'
    BY <2>3 DEF ChangeCable, IInv, TablesOK
  <2>4. ASSUME NEW h \in Host, NEW i \in Ip \cup {None}, ChangeAddress(h, i) PROVE TablesOK'
    BY <2>4 DEF ChangeAddress, IInv, TablesOK
  <2>5. QED
    BY <2>1, <2>2, <2>3, <2>4 DEF UserStep
<1>4. QED
  BY <1>1, <1>2, <1>3, NestedNone DEF IInv, Idle, InboxOK, AnsweredOK

-------------------------------------------------------------------------------
LEMMA InitIInv == ASSUME Init PROVE IInv
<1>1. TablesOK
  <2>1. live \subseteq Cable /\ ip \in [Host -> Ip \cup {None}]
    BY AddressAssumption DEF Init
  <2>2. storm \in BOOLEAN /\ hops \in 0 .. HopLimit
    BY NoHops DEF Init
  <2>3. /\ arp \in [Host -> [Ip -> Host \cup {None}]]
        /\ mac \in [Switch -> [Host -> SwitchPort \cup {None}]]
    BY DEF Init
  <2>4. QED
    BY <2>1, <2>2, <2>3 DEF TablesOK
<1>2. Idle
  BY DEF Init, Idle
<1>3. Nested(stack, ping, answered) /\ InboxOK /\ AnsweredOK
  BY <1>2, NestedNone DEF Idle, InboxOK, AnsweredOK
<1>4. QED
  BY <1>1, <1>2, <1>3 DEF IInv

LEMMA NextIInv == ASSUME IInv, [Next]_vars PROVE IInv'
<1>1. CASE \E h \in Host, i \in Ip : StartPing(h, i)
  BY <1>1, Starts
<1>2. CASE EngineStep
  BY <1>2, Delivers, Drops, Returns DEF EngineStep
<1>3. CASE CommandStep
  BY <1>3, Sends, Finishes DEF CommandStep
<1>4. CASE UserStep
  BY <1>4, UserActs
<1>5. CASE UNCHANGED vars
  BY <1>5 DEF vars, IInv, TablesOK, Idle, Pinging, InboxOK, AnsweredOK
<1>6. QED
  BY <1>1, <1>2, <1>3, <1>4, <1>5 DEF Next

LEMMA AlwaysIInv == Spec => []IInv
<1>1. QED
  BY InitIInv, NextIInv, PTL DEF Spec

(* Tables, loops, inbox and statistics have their types (engine, switch,   *)
(* host and run_ping).                                                     *)
THEOREM TypeCorrect == Spec => []TypeOK
<1>1. IInv => TypeOK
  <2> SUFFICES ASSUME IInv PROVE TypeOK
    OBVIOUS
  <2>1. ping \in [host : Host \cup {None}, target : Ip \cup {None},
                  sent : 0 .. Count, received : 0 .. Count]
    <3>1. CASE Pinging
      BY <3>1 DEF Pinging
    <3>2. CASE Idle
      <4>1. 0 \in 0 .. Count
        BY BoundsFacts
      <4>2. QED
        BY <3>2, <4>1 DEF Idle, NoPing
    <3>3. QED
      BY <3>1, <3>2 DEF IInv
  <2>2. stack \in Seq([queue : Seq(Emission), held : Packet \cup {NoPacket}])
    BY DEF IInv, Nested, LoopType
  <2>3. inbox \subseteq 1 .. Count
    BY DEF IInv, InboxOK
  <2>4. QED
    BY <2>1, <2>2, <2>3 DEF IInv, TablesOK, AnsweredOK, TypeOK
<1>2. QED
  BY <1>1, AlwaysIInv, PTL

(* What the invariant says of every loop on the stack. *)
LEMMA LoopFacts ==
  ASSUME IInv, NEW n \in DOMAIN stack
  PROVE  /\ Sound(QueueOf(n), ping, answered)
         /\ stack[n].held # NoPacket => /\ Kept(stack[n].held, ping, answered)
                                        /\ OnlyArp(QueueOf(n))
BY DEF IInv, Nested, Sane, QueueOf

(* Re-entered delivery loops are at most two, and the inner one carries    *)
(* nothing but ARP (engine.resolve_arp).                                   *)
THEOREM NestingIsBounded == Spec => []NestingBounded
<1>1. IInv => NestingBounded
  <2> SUFFICES ASSUME IInv PROVE NestingBounded
    OBVIOUS
  <2>1. Len(stack) <= 2
    BY DEF IInv, Nested
  <2>2. \A n \in DOMAIN stack : stack[n].held # NoPacket =>
          \A i \in DOMAIN QueueOf(n) : QueueOf(n)[i].frame.kind \in {"who-has", "is-at"}
    BY LoopFacts DEF OnlyArp, IsArp
  <2>3. QED
    BY <2>1, <2>2 DEF NestingBounded
<1>2. QED
  BY <1>1, AlwaysIInv, PTL

(* Every frame and held packet is of the last request, or ARP. *)
LEMMA InFlight ==
  ASSUME IInv
  PROVE  /\ \A f \in QueuedFrames : IsArp(f) \/ Told(f, ping, answered)
         /\ \A pk \in Held : Told(pk, ping, answered)
<1>1. ASSUME NEW f \in QueuedFrames PROVE IsArp(f) \/ Told(f, ping, answered)
  <2>1. PICK n \in DOMAIN stack : \E i \in DOMAIN QueueOf(n) : f = QueueOf(n)[i].frame
    BY DEF QueuedFrames
  <2>2. QED
    BY <2>1, LoopFacts DEF Sound
<1>2. ASSUME NEW pk \in Held PROVE Told(pk, ping, answered)
  <2>1. PICK n \in DOMAIN stack : pk = stack[n].held /\ pk # NoPacket
    BY DEF Held
  <2>2. QED
    BY <2>1, LoopFacts DEF Kept
<1>3. QED
  BY <1>1, <1>2

(* No echo reply is invented: wherever one is, a host with that address    *)
(* answered that request (Host._handle_icmp).                              *)
THEOREM RepliesAreReal == Spec => []EchoHonest
<1>1. IInv => EchoHonest
  <2> SUFFICES ASSUME IInv PROVE EchoHonest
    OBVIOUS
  <2>1. \A f \in QueuedFrames : f.kind = "reply" =>
          \E a \in answered : a.ip = f.sip /\ a.seq = f.seq
    BY InFlight DEF IsArp, Told
  <2>2. \A pk \in Held : pk.kind = "reply" =>
          \E a \in answered : a.ip = pk.sip /\ a.seq = pk.seq
    BY InFlight DEF Told
  <2>3. QED
    BY <2>1, <2>2 DEF EchoHonest, IInv, InboxOK, AnsweredOK
<1>2. QED
  BY <1>1, AlwaysIInv, PTL

(* Whatever is on the wire, held back or in the inbox belongs to the       *)
(* request sent last, so matching by sequence number is enough (_echo_reply). *)
THEOREM PingsDoNotMix == Spec => []RepliesAreFresh
<1>1. IInv => RepliesAreFresh
  <2> SUFFICES ASSUME IInv PROVE RepliesAreFresh
    OBVIOUS
  <2>1. \A f \in QueuedFrames : f.kind \in {"echo", "reply"} => f.seq = ping.sent
    BY InFlight DEF IsArp, Told
  <2>2. \A pk \in Held : pk.seq = ping.sent
    BY InFlight DEF Told
  <2>3. inbox \subseteq {ping.sent}
    BY DEF IInv, InboxOK
  <2>4. QED
    BY <2>1, <2>2, <2>3 DEF RepliesAreFresh
<1>2. QED
  BY <1>1, AlwaysIInv, PTL

===============================================================================

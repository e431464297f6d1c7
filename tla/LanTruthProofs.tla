---------------------------- MODULE LanTruthProofs ----------------------------
(***************************************************************************)
(* What a ping and the tables tell of the cables, for any LAN.             *)
(*                                                                         *)
(* All of it comes from where frames are: one on its way out of a port has *)
(* come there from the host it names as its source, over live cables, and  *)
(* says the truth about that host (Wire).  While no live cables make a     *)
(* loop, it has come from another side of the switch it leaves, so what    *)
(* the next switch learns from it is where its source is; every switch it  *)
(* has come through is then right about its source, whatever it was before *)
(* (Ways).  A ping is answered because its request, or the resolution it   *)
(* waits for, is at every step under way somewhere with the target still   *)
(* ahead of it and the way there open; or it has gone out on a way that is *)
(* not, and nothing a lost request meets can open that (Quest).            *)
(* That no storm can keep it from that is bookkeeping (Calm): without a    *)
(* loop, what is ahead of a frame shrinks with every cable it crosses, no  *)
(* frame is sent twice for one request, and so each crossing a command can *)
(* cost is paid once.                                                      *)
(***************************************************************************)
EXTENDS LanTruth, LanProofs

EmissionsOf(queue) == {queue[i] : i \in DOMAIN queue}

(* Every emission of every running loop, and every packet held back. *)
OnTheWay(loops) == UNION {EmissionsOf(loops[n].queue) : n \in DOMAIN loops}
HeldBack(loops) == {loops[n].held : n \in DOMAIN loops} \ {NoPacket}

-------------------------------------------------------------------------------
(* Queues and stacks as sets of what they carry. *)

LEMMA QueueParts ==
  ASSUME NEW queue \in Seq(Emission), queue # <<>>
  PROVE  /\ Head(queue) \in EmissionsOf(queue) /\ Head(queue) \in Emission
         /\ EmissionsOf(Tail(queue)) \subseteq EmissionsOf(queue)
         /\ EmissionsOf(queue) \subseteq EmissionsOf(Tail(queue)) \cup {Head(queue)}
         /\ Tail(queue) \in Seq(Emission)
<1>1. Len(queue) \in Nat /\ Len(queue) # 0 /\ DOMAIN queue = 1 .. Len(queue)
  BY Shorts, LenProperties
<1>2. /\ Tail(queue) \in Seq(Emission) /\ Len(Tail(queue)) = Len(queue) - 1
      /\ DOMAIN Tail(queue) = 1 .. Len(Tail(queue)) /\ Head(queue) = queue[1]
  BY <1>1, HeadTailProperties, LenProperties
<1>3. \A i \in 1 .. Len(queue) - 1 : Tail(queue)[i] = queue[i + 1]
  BY <1>1, <1>2
<1>4. 1 \in DOMAIN queue /\ queue[1] \in Emission
  BY <1>1, ElementOfSeq
<1>5. EmissionsOf(Tail(queue)) \subseteq EmissionsOf(queue)
  <2>1. \A i \in DOMAIN Tail(queue) : i + 1 \in DOMAIN queue /\ Tail(queue)[i] = queue[i + 1]
    BY <1>1, <1>2, <1>3
  <2> QED BY <2>1 DEF EmissionsOf
<1>6. EmissionsOf(queue) \subseteq EmissionsOf(Tail(queue)) \cup {Head(queue)}
  <2>1. \A i \in DOMAIN queue : i = 1 \/ (i - 1 \in DOMAIN Tail(queue) /\ Tail(queue)[i - 1] = queue[i])
    BY <1>1, <1>2, <1>3
  <2> QED BY <1>2, <2>1 DEF EmissionsOf
<1> QED BY <1>2, <1>4, <1>5, <1>6 DEF EmissionsOf

LEMMA QueueJoined ==
  ASSUME NEW queue \in Seq(Emission), NEW out \in Seq(Emission)
  PROVE  /\ queue \o out \in Seq(Emission)
         /\ EmissionsOf(queue \o out) = EmissionsOf(queue) \cup EmissionsOf(out)
<1>1. /\ Len(queue) \in Nat /\ DOMAIN queue = 1 .. Len(queue)
      /\ Len(out) \in Nat /\ DOMAIN out = 1 .. Len(out)
  BY LenProperties
<1>2. /\ queue \o out \in Seq(Emission)
      /\ DOMAIN (queue \o out) = 1 .. Len(queue) + Len(out)
      /\ \A i \in 1 .. Len(queue) + Len(out) :
           (queue \o out)[i] = IF i <= Len(queue) THEN queue[i] ELSE out[i - Len(queue)]
  BY <1>1, ConcatProperties, LenProperties
<1>3. EmissionsOf(queue \o out) \subseteq EmissionsOf(queue) \cup EmissionsOf(out)
  <2>1. \A i \in 1 .. Len(queue) + Len(out) :
          i \in 1 .. Len(queue) \/ (~(i <= Len(queue)) /\ i - Len(queue) \in 1 .. Len(out))
    BY <1>1
  <2> QED BY <1>1, <1>2, <2>1 DEF EmissionsOf
<1>4. EmissionsOf(queue) \subseteq EmissionsOf(queue \o out)
  BY <1>1, <1>2 DEF EmissionsOf
<1>5. EmissionsOf(out) \subseteq EmissionsOf(queue \o out)
  <2>1. \A i \in 1 .. Len(out) :
          /\ Len(queue) + i \in 1 .. Len(queue) + Len(out)
          /\ ~(Len(queue) + i <= Len(queue)) /\ Len(queue) + i - Len(queue) = i
    BY <1>1
  <2>2. \A i \in 1 .. Len(out) : (queue \o out)[Len(queue) + i] = out[i]
    BY <1>2, <2>1
  <2> QED BY <1>1, <1>2, <2>1, <2>2 DEF EmissionsOf
<1> QED BY <1>2, <1>3, <1>4, <1>5

LEMMA QueueOne ==
  ASSUME NEW e \in Emission
  PROVE  <<e>> \in Seq(Emission) /\ EmissionsOf(<<e>>) = {e} /\ EmissionsOf(<<>>) = {}
BY DEF EmissionsOf

(* A loop put inside others adds what it carries and holds. *)
LEMMA StackGrown ==
  ASSUME NEW l \in LoopType, NEW loops \in Seq(LoopType)
  PROVE  /\ OnTheWay(<<l>> \o loops) = EmissionsOf(l.queue) \cup OnTheWay(loops)
         /\ HeldBack(<<l>> \o loops) = ({l.held} \ {NoPacket}) \cup HeldBack(loops)
<1> DEFINE grown == <<l>> \o loops
<1>1. Len(loops) \in Nat /\ DOMAIN loops = 1 .. Len(loops)
  BY LenProperties
<1>2. /\ <<l>> \in Seq(LoopType) /\ Len(<<l>>) = 1 /\ <<l>>[1] = l
  OBVIOUS
<1>3. /\ grown \in Seq(LoopType) /\ DOMAIN grown = 1 .. 1 + Len(loops)
      /\ \A n \in 1 .. 1 + Len(loops) : grown[n] = IF n <= 1 THEN <<l>>[n] ELSE loops[n - 1]
  BY <1>1, <1>2, ConcatProperties, LenProperties
<1>4. 1 \in DOMAIN grown /\ grown[1] = l
  BY <1>1, <1>2, <1>3
<1>5. \A n \in DOMAIN loops : n + 1 \in DOMAIN grown /\ grown[n + 1] = loops[n]
  <2>1. \A n \in 1 .. Len(loops) : n + 1 \in 1 .. 1 + Len(loops) /\ ~(n + 1 <= 1) /\ n + 1 - 1 = n
    BY <1>1
  <2> QED BY <1>1, <1>3, <2>1
<1>6. \A n \in DOMAIN grown : n = 1 \/ (n - 1 \in DOMAIN loops /\ grown[n] = loops[n - 1])
  <2>1. \A n \in 1 .. 1 + Len(loops) : n = 1 \/ (~(n <= 1) /\ n - 1 \in 1 .. Len(loops))
    BY <1>1
  <2> QED BY <1>1, <1>3, <2>1
<1> HIDE DEF grown
<1>7. OnTheWay(grown) = EmissionsOf(l.queue) \cup OnTheWay(loops)
  BY <1>4, <1>5, <1>6 DEF OnTheWay
<1>8. HeldBack(grown) = ({l.held} \ {NoPacket}) \cup HeldBack(loops)
  BY <1>4, <1>5, <1>6 DEF HeldBack
<1> QED BY <1>7, <1>8 DEF grown

LEMMA StackParts ==
  ASSUME NEW loops \in Seq(LoopType), loops # <<>>
  PROVE  /\ OnTheWay(loops) = EmissionsOf(Head(loops).queue) \cup OnTheWay(Tail(loops))
         /\ HeldBack(loops) = ({Head(loops).held} \ {NoPacket}) \cup HeldBack(Tail(loops))
         /\ Head(loops) \in LoopType /\ Tail(loops) \in Seq(LoopType)
         /\ Head(loops).queue \in Seq(Emission)
<1>1. Head(loops) \in LoopType /\ Tail(loops) \in Seq(LoopType)
  BY HeadTailProperties, ElementOfSeq
<1>2. loops = <<Head(loops)>> \o Tail(loops)
  <2>1. /\ Len(loops) \in Nat /\ Len(loops) # 0 /\ Head(loops) = loops[1]
        /\ Len(Tail(loops)) = Len(loops) - 1
        /\ \A i \in 1 .. Len(Tail(loops)) : Tail(loops)[i] = loops[i + 1]
    BY Shorts
  <2>2. <<Head(loops)>> \in Seq(LoopType) /\ Len(<<Head(loops)>>) = 1 /\ <<Head(loops)>>[1] = Head(loops)
    BY <1>1
  <2>3. /\ <<Head(loops)>> \o Tail(loops) \in Seq(LoopType)
        /\ Len(<<Head(loops)>> \o Tail(loops)) = 1 + Len(Tail(loops))
        /\ \A n \in 1 .. 1 + Len(Tail(loops)) : (<<Head(loops)>> \o Tail(loops))[n]
             = IF n <= 1 THEN <<Head(loops)>>[n] ELSE Tail(loops)[n - 1]
    BY <1>1, <2>2, ConcatProperties
  <2> QED BY <2>1, <2>2, <2>3, SeqEqual
<1>3. Head(loops).queue \in Seq(Emission)
  BY <1>1 DEF LoopType
<1> QED BY <1>1, <1>2, <1>3, StackGrown

LEMMA NothingOnTheWay == OnTheWay(<<>>) = {} /\ HeldBack(<<>>) = {}
BY DEF OnTheWay, HeldBack

LEMMA FlightTyped ==
  ASSUME NEW loops \in Seq(LoopType)
  PROVE  OnTheWay(loops) \subseteq Emission
<1> SUFFICES ASSUME NEW n \in DOMAIN loops, NEW i \in DOMAIN loops[n].queue
             PROVE  loops[n].queue[i] \in Emission
  BY DEF OnTheWay, EmissionsOf
<1>1. loops[n] \in LoopType
  OBVIOUS
<1>2. loops[n].queue \in Seq(Emission)
  BY <1>1 DEF LoopType
<1> QED BY <1>2

LEMMA NestedTyped ==
  ASSUME NEW loops, NEW png, NEW given, Nested(loops, png, given)
  PROVE  loops \in Seq(LoopType)
BY DEF Nested

(* What Enqueue, Popped, Asking and AfterReturn carry. *)
LEMMA Enqueued ==
  ASSUME NEW loops \in Seq(LoopType), loops # <<>>, NEW out \in Seq(Emission)
  PROVE  /\ OnTheWay(Enqueue(loops, out)) = OnTheWay(loops) \cup EmissionsOf(out)
         /\ HeldBack(Enqueue(loops, out)) = HeldBack(loops)
<1> DEFINE l == Loop(Head(loops).queue \o out, Head(loops).held)
<1>1. l \in LoopType /\ l.queue = Head(loops).queue \o out /\ l.held = Head(loops).held
  BY StackParts, QueueJoined DEF Loop, LoopType
<1>2. EmissionsOf(l.queue) = EmissionsOf(Head(loops).queue) \cup EmissionsOf(out)
  BY <1>1, StackParts, QueueJoined
<1> HIDE DEF l
<1>3. /\ OnTheWay(<<l>> \o Tail(loops)) = EmissionsOf(l.queue) \cup OnTheWay(Tail(loops))
      /\ HeldBack(<<l>> \o Tail(loops)) = ({l.held} \ {NoPacket}) \cup HeldBack(Tail(loops))
  BY <1>1, StackParts, StackGrown
<1> QED BY <1>1, <1>2, <1>3, StackParts DEF Enqueue, l

LEMMA FirstPopped ==
  ASSUME stack \in Seq(LoopType), stack # <<>>, Top.queue # <<>>
  PROVE  /\ OnTheWay(Popped) \subseteq OnTheWay(stack)
         /\ OnTheWay(stack) \subseteq OnTheWay(Popped) \cup {Head(Top.queue)}
         /\ HeldBack(Popped) = HeldBack(stack)
         /\ Head(Top.queue) \in OnTheWay(stack)
         /\ Head(Top.queue) \in Emission
         /\ Popped \in Seq(LoopType) /\ Popped # <<>>
<1> DEFINE l == Loop(Tail(Top.queue), Top.held)
<1>1. Top \in LoopType /\ Below \in Seq(LoopType) /\ Top.queue \in Seq(Emission)
  BY StackParts DEF Top, Below
<1>2. l \in LoopType /\ l.queue = Tail(Top.queue) /\ l.held = Top.held
  BY <1>1, QueueParts DEF Loop, LoopType
<1> HIDE DEF l
<1>3. /\ OnTheWay(<<l>> \o Below) = EmissionsOf(l.queue) \cup OnTheWay(Below)
      /\ HeldBack(<<l>> \o Below) = ({l.held} \ {NoPacket}) \cup HeldBack(Below)
  BY <1>1, <1>2, StackGrown
<1>4. /\ OnTheWay(stack) = EmissionsOf(Top.queue) \cup OnTheWay(Below)
      /\ HeldBack(stack) = ({Top.held} \ {NoPacket}) \cup HeldBack(Below)
  BY StackParts DEF Top, Below
<1>5. <<l>> \o Below \in Seq(LoopType) /\ <<l>> \o Below # <<>>
  <2>1. <<l>> \in Seq(LoopType) /\ Len(<<l>>) = 1
    BY <1>2
  <2>2. <<l>> \o Below \in Seq(LoopType) /\ Len(<<l>> \o Below) = 1 + Len(Below) /\ Len(Below) \in Nat
    BY <1>1, <2>1, ConcatProperties, LenProperties
  <2>3. Len(<<l>> \o Below) # 0
    BY <2>2
  <2> QED BY <2>2, <2>3, EmptySeq
<1> QED BY <1>1, <1>2, <1>3, <1>4, <1>5, QueueParts DEF Popped, l

LEMMA Asked ==
  ASSUME NEW pk \in Packet
  PROVE  LET e == Out(pk.host, WhoHas(pk.host, pk.dip))
         IN ip[pk.host] \in Ip =>
              /\ e \in Emission /\ Asking(pk) \in LoopType
              /\ EmissionsOf(Asking(pk).queue) = {e} /\ Asking(pk).held = pk
<1> DEFINE e == Out(pk.host, WhoHas(pk.host, pk.dip))
<1> SUFFICES ASSUME ip[pk.host] \in Ip
             PROVE  /\ e \in Emission /\ Asking(pk) \in LoopType
                    /\ EmissionsOf(Asking(pk).queue) = {e} /\ Asking(pk).held = pk
  OBVIOUS
<1>1. e \in Emission
  BY BoundsFacts DEF Packet, Out, WhoHas, Emission, Frame, Port
<1> HIDE DEF e
<1>2. <<e>> \in Seq(Emission) /\ EmissionsOf(<<e>>) = {e}
  BY <1>1, QueueOne
<1>3. Asking(pk) = Loop(<<e>>, pk)
  BY DEF Asking, e
<1> QED BY <1>1, <1>2, <1>3 DEF Loop, LoopType

-------------------------------------------------------------------------------
(* The graph of cables. *)

LEMMA ConnectedToItself ==
  ASSUME NEW cables, NEW d
  PROVE  ConnectedBy(cables, d, d)
BY DEF ConnectedBy

LEMMA ConnectedBack ==
  ASSUME NEW cables, NEW d \in Device, NEW e \in Device, ConnectedBy(cables, d, e)
  PROVE  ConnectedBy(cables, e, d)
<1> SUFFICES ASSUME NEW devices \in SUBSET Device, e \in devices, Closed(devices, cables),
                    d \notin devices
             PROVE  FALSE
  BY DEF ConnectedBy
<1>1. Closed(Device \ devices, cables)
  BY DEF Closed
<1> QED BY <1>1 DEF ConnectedBy

LEMMA ConnectedOn ==
  ASSUME NEW cables, NEW d, NEW e, NEW f, ConnectedBy(cables, d, e), ConnectedBy(cables, e, f)
  PROVE  ConnectedBy(cables, d, f)
BY DEF ConnectedBy

LEMMA ConnectedNext ==
  ASSUME NEW cables, NEW c \in cables, NEW d \in Device, NEW e \in Device,
         Touches(c, d), Touches(c, e)
  PROVE  ConnectedBy(cables, d, e)
BY DEF ConnectedBy, Closed

(* Every port is of one device. *)
LEMMA PortOwner ==
  ASSUME NEW p \in Port
  PROVE  /\ \E d \in Device : p \in PortsOfDevice(d)
         /\ \A d \in Device, e \in Device :
              p \in PortsOfDevice(d) /\ p \in PortsOfDevice(e) => d = e
         /\ \A s \in Switch : p \in PortsOf(s) <=> p \in PortsOfDevice(s)
         /\ p \in Host => p \in PortsOfDevice(p) /\ \A s \in Switch : p \notin PortsOf(s)
<1>1. \A s \in Switch : s \notin Host /\ PortsOf(s) \cap Host = {}
  BY NamesAssumption DEF SwitchPort
<1>2. \A s \in Switch, t \in Switch : s # t => PortsOf(s) \cap PortsOf(t) = {}
  BY NamesAssumption
<1>3. p \in Host \/ \E s \in Switch : p \in PortsOf(s)
  BY DEF Port, SwitchPort
<1>4. \A d \in Device : d \in Host \/ d \in Switch
  BY DEF Device
<1>5. \A d \in Device, e \in Device :
        p \in PortsOfDevice(d) /\ p \in PortsOfDevice(e) => d = e
  BY <1>1, <1>2, <1>4 DEF PortsOfDevice
<1> QED BY <1>1, <1>3, <1>5 DEF PortsOfDevice, Device

(* The far end of a live cable. *)
LEMMA PeerFacts ==
  ASSUME TablesOK, NEW q \in Port, NEW p \in Peers(q)
  PROVE  /\ p \in Port /\ p # q /\ {p, q} \in live /\ {p, q} \in Cable
         /\ \A d \in Device, e \in Device :
              q \in PortsOfDevice(d) /\ p \in PortsOfDevice(e) =>
                /\ Touches({p, q}, d) /\ Touches({p, q}, e)
                /\ ConnectedBy(live, e, d)
<1>1. p \in Port /\ p # q /\ {p, q} \in live /\ {p, q} \in Cable
  BY DEF Peers, TablesOK
<1>2. ASSUME NEW d \in Device, NEW e \in Device, q \in PortsOfDevice(d), p \in PortsOfDevice(e)
      PROVE  Touches({p, q}, d) /\ Touches({p, q}, e)
  BY <1>2 DEF Touches
<1> QED BY <1>1, <1>2, ConnectedNext

-------------------------------------------------------------------------------
(* Where frames come from. *)

Truthful(e) ==
  /\ e.port \in Host => e.frame.src = e.port
  /\ ip[e.frame.src] = e.frame.sip
  /\ e.frame.kind = "echo" => e.frame.src = ping.host
  /\ \A d \in Device : e.port \in PortsOfDevice(d) => ConnectedBy(live, d, e.frame.src)

OwnPorts == \A s \in Switch, m \in Host : mac[s][m] # None => mac[s][m] \in PortsOf(s)
OwnPackets ==
  \A pk \in HeldBack(stack) : /\ ip[pk.host] = pk.sip
                              /\ pk.kind = "echo" => pk.host = ping.host
Answerers == \A a \in answered : ConnectedBy(live, ping.host, a.host)

Wire ==
  /\ OwnPorts
  /\ \A e \in OnTheWay(stack) : Truthful(e)
  /\ OwnPackets
  /\ Answerers

(* What a host sends of its own, and what it may send on hearing frame f. *)
Own(e, h) ==
  /\ e.port = h /\ e.frame.src = h
  /\ e.frame.sip = ip[h]
  /\ e.frame.kind = "who-has" => e.frame.dst = Broadcast

Spoken(e, h, f) ==
  /\ Own(e, h)
  /\ e.frame.kind # "echo"
  /\ e.frame.kind = "reply" => /\ f.kind = "echo" /\ e.frame.dip = f.sip
                               /\ e.frame.dst = arp[h][f.sip] /\ e.frame.dst \in Host

SpokenOnly(h, f, loops) ==
  /\ \A e \in OnTheWay(stack') : e \in OnTheWay(loops) \/ Spoken(e, h, f)
  /\ \A pk \in HeldBack(stack') :
       \/ pk \in HeldBack(loops)
       \/ /\ pk.kind = "reply" /\ f.kind = "echo" /\ pk.dip = f.sip
          /\ pk.host = h /\ pk.sip = ip[h]

LEMMA ArpIsSpoken ==
  ASSUME IInv, NEW h \in Host, NEW f, NEW loops, AtHand(f, loops), AnswerArp(h, f, loops)
  PROVE  SpokenOnly(h, f, loops)
<1> DEFINE e == Out(h, IsAt(h, f))
<1>1. e \in Emission
  BY FrameFields, BoundsFacts DEF AtHand, Out, IsAt, Emission, Frame, Port
<1>2. Spoken(e, h, f)
  BY DEF Spoken, Own, Out, IsAt, AnswerArp, Accepts
<1> HIDE DEF e
<1>3. loops \in Seq(LoopType) /\ loops # <<>>
  BY NestedTyped DEF AtHand
<1>4. <<e>> \in Seq(Emission) /\ EmissionsOf(<<e>>) = {e}
  BY <1>1, QueueOne
<1>5. stack' = Enqueue(loops, <<e>>)
  BY DEF AnswerArp, e
<1> QED BY <1>2, <1>3, <1>4, <1>5, Enqueued DEF SpokenOnly

LEMMA ReplyIsSpoken ==
  ASSUME IInv, NEW h \in Host, NEW f, NEW loops, AtHand(f, loops), AnswerEcho(h, f, loops)
  PROVE  /\ SpokenOnly(h, f, loops)
         /\ f.kind = "echo"
         /\ answered' = answered \cup {[host |-> h, ip |-> f.dip, seq |-> f.seq]}
<1> DEFINE pk == [kind |-> "reply", host |-> h, sip |-> f.dip, dip |-> f.sip, seq |-> f.seq]
<1>1. f \in Frame /\ f.kind = "echo" /\ ip[h] = f.dip
  BY DEF AtHand, AnswerEcho, Accepts
<1>2. f.seq \in 1 .. Count
  BY <1>1 DEF AtHand, IsArp, Told
<1>3. /\ pk \in Packet /\ pk.kind = "reply" /\ pk.host = h /\ pk.dip = f.sip
      /\ pk.sip = ip[h] /\ ip[h] \in Ip
  BY <1>1, <1>2, FrameFields DEF Packet
<1>4. loops \in Seq(LoopType) /\ loops # <<>>
  BY NestedTyped DEF AtHand
<1>5. CASE arp[h][f.sip] # None
  <2> DEFINE e == Out(h, Carry(pk, arp[h][f.sip]))
  <2>1. arp[h][f.sip] \in Host
    BY <1>1, <1>5, FrameFields DEF IInv, TablesOK
  <2>2. e \in Emission
    BY <1>3, <2>1, BoundsFacts DEF Packet, Out, Carry, Emission, Frame, Port
  <2>3. Spoken(e, h, f)
    BY <1>1, <1>3, <2>1 DEF Spoken, Own, Out, Carry, IsArp
  <2>4. stack' = Enqueue(loops, <<e>>)
    BY <1>5 DEF AnswerEcho
  <2> HIDE DEF e
  <2>5. <<e>> \in Seq(Emission) /\ EmissionsOf(<<e>>) = {e}
    BY <2>2, QueueOne
  <2> QED BY <1>1, <1>4, <2>3, <2>4, <2>5, Enqueued DEF SpokenOnly, AnswerEcho
<1>6. CASE arp[h][f.sip] = None
  <2> DEFINE e == Out(pk.host, WhoHas(pk.host, pk.dip))
  <2>1. /\ e \in Emission /\ Asking(pk) \in LoopType
        /\ EmissionsOf(Asking(pk).queue) = {e} /\ Asking(pk).held = pk
    BY <1>3, Asked
  <2>2. Spoken(e, h, f)
    BY <1>3 DEF Spoken, Own, Out, WhoHas
  <2>3. stack' = <<Asking(pk)>> \o loops
    BY <1>6 DEF AnswerEcho
  <2> HIDE DEF e
  <2>4. /\ OnTheWay(stack') = {e} \cup OnTheWay(loops)
        /\ HeldBack(stack') = ({pk} \ {NoPacket}) \cup HeldBack(loops)
    BY <1>4, <2>1, <2>3, StackGrown
  <2> QED BY <1>1, <1>3, <2>2, <2>4 DEF SpokenOnly, AnswerEcho
<1> QED BY <1>5, <1>6

(* What a host does with a frame. *)
LEMMA HostAnatomy ==
  ASSUME IInv, NEW h \in Host, NEW f, NEW loops, AtHand(f, loops), HostReceives(h, f, loops)
  PROVE  /\ SpokenOnly(h, f, loops)
         /\ mac' = mac
         /\ \A a \in answered' : a \in answered \/ (a.host = h /\ f.kind = "echo")
         /\ inbox' = inbox \/ (f.kind = "reply" /\ h = ping.host)
         /\ \/ arp' = arp
            \/ IsArp(f) /\ arp' = [arp EXCEPT ![h][f.sip] = f.src]
<1>1. mac' = mac
  BY DEF HostReceives
<1>2. CASE AnswerArp(h, f, loops)
  BY <1>1, <1>2, ArpIsSpoken DEF AnswerArp, IsArp
<1>3. CASE CacheArp(h, f, loops)
  BY <1>1, <1>3 DEF CacheArp, IsArp, SpokenOnly
<1>4. CASE AnswerEcho(h, f, loops)
  BY <1>1, <1>4, ReplyIsSpoken DEF AnswerEcho
<1>5. CASE KeepReply(h, f, loops)
  BY <1>1, <1>5 DEF KeepReply, SpokenOnly
<1>6. CASE Discard(h, f, loops)
  BY <1>1, <1>6 DEF Discard, SpokenOnly
<1> QED BY <1>2, <1>3, <1>4, <1>5, <1>6 DEF HostReceives

(* A switch sends a frame on by other ports of its own than it came by. *)
LEMMA TargetsElsewhere ==
  ASSUME NEW s \in Switch, NEW p \in PortsOf(s), NEW f \in Frame,
         NEW table \in [Switch -> [Host -> SwitchPort \cup {None}]],
         \A m \in Host : table[s][m] # None => table[s][m] \in PortsOf(s),
         NEW out \in Targets(s, p, f, table)
  PROVE  \A i \in DOMAIN out : out[i] \in PortsOf(s) /\ out[i] # p
<1>1. CASE Floods(s, p, f, table)
  <2> DEFINE I == FloodPorts(s, p)
  <2>1. PICK g \in Ascending(I) : out = [i \in DOMAIN g |-> Ports[s][g[i]]]
    BY <1>1 DEF Targets
  <2>2. I \subseteq DOMAIN Ports[s] /\ \A i \in I : Ports[s][i] # p
    BY DEF FloodPorts
  <2>3. g \in [1 .. Cardinality(I) -> I]
    BY <2>1 DEF Ascending
  <2>4. \A i \in DOMAIN out : g[i] \in I /\ out[i] = Ports[s][g[i]]
    BY <2>1, <2>3
  <2> QED BY <2>2, <2>4 DEF PortsOf
<1>2. CASE ~Floods(s, p, f, table)
  <2>1. f.dst \in Host /\ table[s][f.dst] # None
    BY <1>2, FrameFields DEF Floods
  <2>2. out = <<>> \/ (out = <<table[s][f.dst]>> /\ table[s][f.dst] # p)
    BY <1>2 DEF Targets
  <2> QED BY <2>1, <2>2
<1> QED BY <1>1, <1>2

LEMMA SwitchAnatomy ==
  ASSUME IInv, OwnPorts, NEW s \in Switch, NEW p \in PortsOf(s), NEW f, NEW loops,
         AtHand(f, loops), SwitchReceives(s, p, f, loops)
  PROVE  /\ \A e \in OnTheWay(stack') :
              e \in OnTheWay(loops) \/ (e.port \in PortsOf(s) \ {p} /\ e.frame = f)
         /\ HeldBack(stack') = HeldBack(loops)
         /\ mac' = Learned(s, p, f) /\ OwnPorts'
         /\ UNCHANGED <<arp, inbox, answered>>
<1> DEFINE table == Learned(s, p, f)
<1>1. f \in Frame /\ loops \in Seq(LoopType) /\ loops # <<>>
  BY NestedTyped DEF AtHand
<1>2. f.src \in Host /\ p \in SwitchPort
  BY <1>1, FrameFields, PortFacts
<1>3. /\ table \in [Switch -> [Host -> SwitchPort \cup {None}]]
      /\ \A t \in Switch, m \in Host : table[t][m] # None => table[t][m] \in PortsOf(t)
  BY <1>2 DEF IInv, TablesOK, Learned, OwnPorts
<1>4. PICK out \in Targets(s, p, f, table) :
         stack' = Enqueue(loops, [i \in DOMAIN out |-> Out(out[i], f)])
  BY DEF SwitchReceives
<1> DEFINE q == [i \in DOMAIN out |-> Out(out[i], f)]
<1>5. out \in Seq(SwitchPort) /\ \A i \in DOMAIN out : out[i] \in PortsOf(s) /\ out[i] # p
  BY <1>1, <1>3, <1>4, TargetsTyped, TargetsElsewhere
<1>6. q \in Seq(Emission)
  BY <1>1, <1>5, FanOut DEF AtHand, Sound
<1>7. \A e \in EmissionsOf(q) : e.port \in PortsOf(s) \ {p} /\ e.frame = f
  BY <1>5 DEF EmissionsOf, Out
<1>8. stack' = Enqueue(loops, q)
  BY <1>4
<1> HIDE DEF q
<1>9. OnTheWay(stack') = OnTheWay(loops) \cup EmissionsOf(q) /\ HeldBack(stack') = HeldBack(loops)
  BY <1>1, <1>6, <1>8, Enqueued
<1> QED BY <1>3, <1>7, <1>9 DEF SwitchReceives, OwnPorts

-------------------------------------------------------------------------------
(* One turn of a delivery loop: what the device at the far end does.       *)

HostTook(h, f) ==
  /\ SpokenOnly(h, f, stack)
  /\ mac' = mac
  /\ \A a \in answered' : a \in answered \/ (a.host = h /\ f.kind = "echo")
  /\ inbox' = inbox \/ (f.kind = "reply" /\ h = ping.host)
  /\ \/ arp' = arp
     \/ IsArp(f) /\ arp' = [arp EXCEPT ![h][f.sip] = f.src]

SwitchTook(s, p, f) ==
  /\ \A e \in OnTheWay(stack') :
       e \in OnTheWay(stack) \/ (e.port \in PortsOf(s) \ {p} /\ e.frame = f)
  /\ HeldBack(stack') = HeldBack(stack)
  /\ mac' = Learned(s, p, f) /\ OwnPorts'
  /\ UNCHANGED <<arp, inbox, answered>>

LEMMA DeliverAnatomy ==
  ASSUME IInv, OwnPorts, Deliver
  PROVE  /\ UNCHANGED <<live, ip, storm, ping>>
         /\ \E e \in OnTheWay(stack) :
              /\ e \in Emission /\ (IsArp(e.frame) \/ Told(e.frame, ping, answered))
              /\ \E p \in Peers(e.port) :
                   \/ p \in Host /\ HostTook(p, e.frame)
                   \/ \E s \in Switch : p \in PortsOf(s) /\ SwitchTook(s, p, e.frame)
<1> DEFINE e == Head(Top.queue)
<1>1. stack # <<>> /\ Top.queue # <<>> /\ UNCHANGED <<live, ip, storm, ping>>
  BY DEF Deliver
<1>2. AtHand(e.frame, Popped)
  BY <1>1, FrameAtHand DEF AtHand, IInv
<1>3. /\ e \in OnTheWay(stack) /\ e \in Emission
      /\ IsArp(e.frame) \/ Told(e.frame, ping, answered)
      /\ OnTheWay(Popped) \subseteq OnTheWay(stack)
      /\ HeldBack(Popped) = HeldBack(stack)
  BY <1>1, FrameAtHand, FirstPopped, NestedTyped DEF IInv
<1>4. PICK p \in Peers(e.port) :
        \/ p \in Host /\ HostReceives(p, e.frame, Popped)
        \/ \E s \in Switch : p \in PortsOf(s) /\ SwitchReceives(s, p, e.frame, Popped)
  BY DEF Deliver
<1> HIDE DEF e
<1>5. ASSUME p \in Host, HostReceives(p, e.frame, Popped)
      PROVE  HostTook(p, e.frame)
  <2>1. /\ SpokenOnly(p, e.frame, Popped)
        /\ mac' = mac
        /\ \A a \in answered' : a \in answered \/ (a.host = p /\ e.frame.kind = "echo")
        /\ inbox' = inbox \/ (e.frame.kind = "reply" /\ p = ping.host)
        /\ \/ arp' = arp
           \/ IsArp(e.frame) /\ arp' = [arp EXCEPT ![p][e.frame.sip] = e.frame.src]
    BY <1>2, <1>5, HostAnatomy
  <2>2. SpokenOnly(p, e.frame, stack)
    BY <1>3, <2>1 DEF SpokenOnly
  <2> QED BY <2>1, <2>2 DEF HostTook
<1>6. ASSUME NEW s \in Switch, p \in PortsOf(s), SwitchReceives(s, p, e.frame, Popped)
      PROVE  SwitchTook(s, p, e.frame)
  <2>1. /\ \A b \in OnTheWay(stack') :
             b \in OnTheWay(Popped) \/ (b.port \in PortsOf(s) \ {p} /\ b.frame = e.frame)
        /\ HeldBack(stack') = HeldBack(Popped)
        /\ mac' = Learned(s, p, e.frame) /\ OwnPorts'
        /\ UNCHANGED <<arp, inbox, answered>>
    BY <1>2, <1>6, SwitchAnatomy
  <2> QED BY <1>3, <2>1 DEF SwitchTook
<1> QED BY <1>1, <1>3, <1>4, <1>5, <1>6

(* Where the frame arrives is connected to where it came from. *)
LEMMA ArrivesConnected ==
  ASSUME IInv, NEW e \in Emission, Truthful(e), NEW p \in Peers(e.port),
         NEW d \in Device, p \in PortsOfDevice(d)
  PROVE  ConnectedBy(live, d, e.frame.src)
<1>1. e.port \in Port
  BY DEF Emission
<1>2. PICK b \in Device : e.port \in PortsOfDevice(b)
  BY <1>1, PortOwner
<1>3. ConnectedBy(live, d, b)
  BY <1>1, <1>2, PeerFacts DEF IInv
<1>4. ConnectedBy(live, b, e.frame.src)
  BY <1>2 DEF Truthful
<1> QED BY <1>3, <1>4, ConnectedOn

LEMMA OwnIsTruthful ==
  ASSUME NEW h \in Host, NEW e, Own(e, h), e.frame.kind = "echo" => h = ping.host
  PROVE  Truthful(e)
<1>1. h \in Port
  BY DEF Port
<1>2. \A d \in Device : e.port \in PortsOfDevice(d) => d = h
  BY <1>1, PortOwner DEF Own, Device
<1>3. \A d \in Device : e.port \in PortsOfDevice(d) => ConnectedBy(live, d, e.frame.src)
  BY <1>2, ConnectedToItself DEF Own
<1> QED BY <1>3 DEF Own, Truthful

LEMMA DeliverWire == ASSUME IInv, Wire, Deliver PROVE Wire'
<1>1. PICK e \in OnTheWay(stack) : e \in Emission /\ \E p \in Peers(e.port) :
        \/ p \in Host /\ HostTook(p, e.frame)
        \/ \E s \in Switch : p \in PortsOf(s) /\ SwitchTook(s, p, e.frame)
  BY DeliverAnatomy DEF Wire
<1>2. PICK p \in Peers(e.port) :
        \/ p \in Host /\ HostTook(p, e.frame)
        \/ \E s \in Switch : p \in PortsOf(s) /\ SwitchTook(s, p, e.frame)
  BY <1>1
<1>3. UNCHANGED <<live, ip, ping>>
  BY DEF Deliver
<1>4. Truthful(e) /\ p \in Port /\ e.frame \in Frame
  BY <1>1, PeerFacts DEF Wire, Emission, IInv
<1>5. \A b : Truthful(b)' <=> Truthful(b)
  BY <1>3 DEF Truthful, ConnectedBy
<1>6. ASSUME p \in Host, HostTook(p, e.frame) PROVE Wire'
  <2>1. \A b \in OnTheWay(stack') : Truthful(b)'
    BY <1>5, <1>6, OwnIsTruthful DEF HostTook, SpokenOnly, Spoken, Wire
  <2>2. OwnPorts' /\ OwnPackets'
    BY <1>3, <1>6 DEF HostTook, SpokenOnly, Wire, OwnPorts, OwnPackets
  <2>3. ASSUME NEW a \in answered' PROVE ConnectedBy(live, ping.host, a.host)
    <3>1. CASE a \in answered
      BY <3>1 DEF Wire, Answerers
    <3>2. CASE a.host = p /\ e.frame.kind = "echo"
      <4>1. e.frame.src = ping.host /\ ping.host \in Device /\ p \in Device
        BY <1>4, <1>6, <3>2, FrameFields DEF Truthful, Device
      <4>2. ConnectedBy(live, p, ping.host)
        BY <1>1, <1>4, <1>6, <4>1, ArrivesConnected, PortOwner
      <4> QED BY <3>2, <4>1, <4>2, ConnectedBack
    <3> QED BY <1>6, <3>1, <3>2 DEF HostTook
  <2> QED BY <1>3, <2>1, <2>2, <2>3 DEF Wire, Answerers, ConnectedBy
<1>7. ASSUME NEW s \in Switch, p \in PortsOf(s), SwitchTook(s, p, e.frame) PROVE Wire'
  <2>1. s \in Device /\ p \in PortsOfDevice(s)
    BY <1>4, <1>7, PortOwner DEF Device
  <2>2. ConnectedBy(live, s, e.frame.src)
    BY <1>1, <1>4, <2>1, ArrivesConnected
  <2>3. ASSUME NEW b, b.port \in PortsOf(s) \ {p}, b.frame = e.frame PROVE Truthful(b)
    <3>1. b.port \in Port /\ b.port \notin Host
      BY <2>3, PortFacts, PortOwner DEF Port
    <3>2. \A d \in Device : b.port \in PortsOfDevice(d) => d = s
      BY <2>1, <2>3, <3>1, PortOwner
    <3> QED BY <1>4, <2>2, <2>3, <3>1, <3>2 DEF Truthful
  <2>4. \A b \in OnTheWay(stack') : Truthful(b)'
    BY <1>5, <1>7, <2>3 DEF SwitchTook, Wire
  <2>5. OwnPackets' /\ Answerers'
    BY <1>3, <1>7 DEF SwitchTook, Wire, OwnPackets, Answerers, ConnectedBy
  <2> QED BY <1>7, <2>4, <2>5 DEF Wire, SwitchTook
<1> QED BY <1>2, <1>6, <1>7

(* A packet that was held goes out as its host's own. *)
LEMMA AfterReturnAnatomy ==
  ASSUME IInv, stack # <<>>
  PROVE  /\ \A e \in OnTheWay(AfterReturn) :
              \/ e \in OnTheWay(stack)
              \/ \E pk \in HeldBack(stack) :
                   /\ pk \in Packet
                   /\ arp[pk.host][pk.dip] \in Host
                   /\ e = Out(pk.host, Carry(pk, arp[pk.host][pk.dip]))
         /\ HeldBack(AfterReturn) \subseteq HeldBack(stack)
         /\ OnTheWay(Below) \subseteq OnTheWay(AfterReturn)
         /\ Top.held # NoPacket /\ arp[Top.held.host][Top.held.dip] # None =>
              Out(Top.held.host, Carry(Top.held, arp[Top.held.host][Top.held.dip]))
                \in OnTheWay(AfterReturn)
<1> DEFINE pk == Top.held
           e  == Out(pk.host, Carry(pk, arp[pk.host][pk.dip]))
<1>1. stack \in Seq(LoopType)
  BY NestedTyped DEF IInv
<1>2. /\ OnTheWay(Below) \subseteq OnTheWay(stack)
      /\ HeldBack(stack) = ({pk} \ {NoPacket}) \cup HeldBack(Below)
      /\ Below \in Seq(LoopType) /\ pk \in Packet \cup {NoPacket}
  BY <1>1, StackParts DEF Top, Below, LoopType
<1>3. CASE pk = NoPacket \/ arp[pk.host][pk.dip] = None
  <2>1. AfterReturn = Below
    BY <1>3 DEF AfterReturn
  <2> HIDE DEF e
  <2> QED BY <1>2, <1>3, <2>1
<1>4. CASE ~(pk = NoPacket \/ arp[pk.host][pk.dip] = None)
  <2>1. pk \in Packet /\ pk \in HeldBack(stack) /\ pk.host \in Host /\ pk.dip \in Ip
    BY <1>2, <1>4 DEF Packet
  <2>2. arp[pk.host][pk.dip] \in Host
    BY <1>4, <2>1 DEF IInv, TablesOK
  <2>3. e \in Emission
    BY <2>1, <2>2, BoundsFacts DEF Packet, Out, Carry, Emission, Frame, Port
  <2>4. AfterReturn = IF Below = <<>> THEN <<Loop(<<e>>, NoPacket)>> ELSE Enqueue(Below, <<e>>)
    BY <1>4 DEF AfterReturn
  <2> HIDE DEF e
  <2>5. <<e>> \in Seq(Emission) /\ EmissionsOf(<<e>>) = {e}
    BY <2>3, QueueOne
  <2>6. CASE Below = <<>>
    <3>1. PICK l : l = Loop(<<e>>, NoPacket)
      OBVIOUS
    <3>2. l \in LoopType /\ l.queue = <<e>> /\ l.held = NoPacket
      BY <2>5, <3>1 DEF Loop, LoopType
    <3>3. <<l>> \o <<>> = <<l>> /\ <<>> \in Seq(LoopType)
      BY <3>2, Pairs
    <3>4. OnTheWay(AfterReturn) = {e} /\ HeldBack(AfterReturn) = {}
      <4>1. AfterReturn = <<l>> \o <<>>
        BY <2>4, <2>6, <3>1, <3>3
      <4>2. /\ OnTheWay(<<l>> \o <<>>) = EmissionsOf(l.queue) \cup OnTheWay(<<>>)
            /\ HeldBack(<<l>> \o <<>>) = ({l.held} \ {NoPacket}) \cup HeldBack(<<>>)
        BY <3>2, <3>3, StackGrown
      <4> QED BY <2>5, <3>2, <4>1, <4>2, NothingOnTheWay
    <3>5. OnTheWay(Below) = {}
      BY <2>6, NothingOnTheWay
    <3> QED BY <2>1, <2>2, <3>4, <3>5 DEF e
  <2>7. CASE Below # <<>>
    <3>1. /\ OnTheWay(AfterReturn) = OnTheWay(Below) \cup {e}
          /\ HeldBack(AfterReturn) = HeldBack(Below)
      BY <1>2, <2>4, <2>5, <2>7, Enqueued
    <3> QED BY <1>2, <2>1, <2>2, <3>1 DEF e
  <2> QED BY <2>6, <2>7
<1> QED BY <1>3, <1>4

(* What a host sends out of its own is truthful. *)
LEMMA CarriedIsTruthful ==
  ASSUME NEW pk \in Packet, NEW m, ip[pk.host] = pk.sip,
         pk.kind = "echo" => pk.host = ping.host
  PROVE  Truthful(Out(pk.host, Carry(pk, m)))
<1>1. pk.host \in Host /\ pk.host \in Port /\ pk.host \in Device
  BY DEF Packet, Port, Device
<1>2. \A d \in Device : pk.host \in PortsOfDevice(d) => ConnectedBy(live, d, pk.host)
  BY <1>1, PortOwner, ConnectedToItself
<1> QED BY <1>1, <1>2 DEF Truthful, Out, Carry, Packet, IsArp

LEMMA ReturnWire == ASSUME IInv, Wire, Return PROVE Wire'
<1>1. stack # <<>> /\ stack' = AfterReturn /\ UNCHANGED <<live, ip, arp, mac, ping, answered>>
  BY DEF Return
<1>2. \A b : Truthful(b)' <=> Truthful(b)
  BY <1>1 DEF Truthful, ConnectedBy
<1>3. ASSUME NEW pk \in HeldBack(stack), pk \in Packet
      PROVE  Truthful(Out(pk.host, Carry(pk, arp[pk.host][pk.dip])))
  BY <1>3, CarriedIsTruthful DEF Wire, OwnPackets
<1>4. \A e \in OnTheWay(stack') : Truthful(e)'
  BY <1>1, <1>2, <1>3, AfterReturnAnatomy DEF Wire
<1>5. OwnPackets'
  BY <1>1, AfterReturnAnatomy DEF Wire, OwnPackets
<1> QED BY <1>1, <1>4, <1>5 DEF Wire, OwnPorts, Answerers, ConnectedBy

LEMMA DropWire == ASSUME IInv, Wire, DropFrame PROVE Wire'
<1>1. /\ stack # <<>> /\ Top.queue # <<>> /\ stack' = Popped
      /\ UNCHANGED <<live, ip, mac, ping, answered>>
  BY DEF DropFrame
<1>2. /\ OnTheWay(stack') \subseteq OnTheWay(stack)
      /\ HeldBack(stack') = HeldBack(stack)
  BY <1>1, FirstPopped, NestedTyped DEF IInv
<1> QED BY <1>1, <1>2 DEF Wire, OwnPorts, OwnPackets, Answerers, Truthful, ConnectedBy

LEMMA QuietWire ==
  ASSUME OwnPorts', stack' = <<>>, answered' = {}
  PROVE  Wire'
BY NothingOnTheWay DEF Wire, OwnPackets, Answerers

(* The request of the command that runs. *)
Echo == [kind |-> "echo", host |-> ping.host, sip |-> ip[ping.host],
         dip |-> ping.target, seq |-> ping.sent + 1]

LEMMA EchoFacts ==
  ASSUME IInv, SendEcho
  PROVE  /\ Echo \in Packet /\ Echo.kind = "echo" /\ Echo.host = ping.host
         /\ Echo.sip = ip[ping.host] /\ Echo.dip = ping.target
         /\ ping.host \in Host /\ ping.target \in Ip /\ ip[ping.host] \in Ip
         /\ ping'.host = ping.host /\ ping'.target = ping.target
         /\ ping'.sent = ping.sent + 1 /\ ping.sent \in Nat
<1>1. ping # NoPing /\ ping.sent < Count
  BY DEF SendEcho
<1>2. Pinging
  BY <1>1 DEF IInv, Idle
<1>3. /\ ping.host \in Host /\ ping.target \in Ip /\ ip[ping.host] \in Ip
      /\ ping.sent \in 0 .. Count
  BY <1>2 DEF Pinging
<1>4. ping.sent \in Nat /\ ping.sent + 1 \in 1 .. Count
  BY <1>1, <1>3, BoundsFacts
<1>5. ping' = [ping EXCEPT !.sent = @ + 1, !.received = @ + Replied]
  BY DEF SendEcho
<1>6. ping'.host = ping.host /\ ping'.target = ping.target /\ ping'.sent = ping.sent + 1
  BY <1>2, <1>5 DEF Pinging
<1> QED BY <1>3, <1>4, <1>6 DEF Echo, Packet

(* What a request starts: itself when its address is cached, a question    *)
(* when it is not.                                                         *)
LEMMA SendAnatomy ==
  ASSUME IInv, SendEcho
  PROVE  LET m == arp[ping.host][ping.target]
         IN \/ /\ m \in Host
               /\ OnTheWay(stack') = {Out(ping.host, Carry(Echo, m))}
               /\ HeldBack(stack') = {}
            \/ /\ m = None
               /\ OnTheWay(stack') = {Out(ping.host, WhoHas(ping.host, ping.target))}
               /\ HeldBack(stack') = {Echo}
<1> DEFINE m == arp[ping.host][ping.target]
<1>1. /\ Echo \in Packet /\ Echo.host = ping.host /\ Echo.dip = ping.target
      /\ ping.host \in Host /\ ping.target \in Ip /\ ip[ping.host] \in Ip
  BY EchoFacts
<1>2. stack' = IF m # None THEN <<Loop(<<Out(ping.host, Carry(Echo, m))>>, NoPacket)>>
                           ELSE <<Asking(Echo)>>
  BY DEF SendEcho, Echo
<1>3. m \in Host \cup {None}
  BY <1>1 DEF IInv, TablesOK
<1>4. <<>> \in Seq(LoopType)
  OBVIOUS
<1>5. CASE m # None
  <2> DEFINE e == Out(ping.host, Carry(Echo, m))
  <2>1. e \in Emission
    BY <1>1, <1>3, <1>5, BoundsFacts DEF Packet, Out, Carry, Emission, Frame, Port
  <2>2. PICK l : l = Loop(<<e>>, NoPacket)
    OBVIOUS
  <2>3. stack' = <<l>>
    BY <1>2, <1>5, <2>2
  <2> HIDE DEF e
  <2>4. <<e>> \in Seq(Emission) /\ EmissionsOf(<<e>>) = {e}
    BY <2>1, QueueOne
  <2>5. l \in LoopType /\ l.queue = <<e>> /\ l.held = NoPacket
    BY <2>2, <2>4 DEF Loop, LoopType
  <2>6. <<l>> \o <<>> = <<l>>
    BY <2>5, Pairs
  <2>7. /\ OnTheWay(<<l>> \o <<>>) = EmissionsOf(l.queue) \cup OnTheWay(<<>>)
        /\ HeldBack(<<l>> \o <<>>) = ({l.held} \ {NoPacket}) \cup HeldBack(<<>>)
    BY <1>4, <2>5, StackGrown
  <2>8. OnTheWay(stack') = {e} /\ HeldBack(stack') = {}
    BY <2>3, <2>4, <2>5, <2>6, <2>7, NothingOnTheWay
  <2> QED BY <1>3, <1>5, <2>8 DEF e
<1>6. CASE m = None
  <2> DEFINE e == Out(ping.host, WhoHas(ping.host, ping.target))
  <2>1. /\ Asking(Echo) \in LoopType
        /\ EmissionsOf(Asking(Echo).queue) = {e} /\ Asking(Echo).held = Echo
    BY <1>1, Asked
  <2>2. PICK l : l = Asking(Echo)
    OBVIOUS
  <2>3. stack' = <<l>>
    BY <1>2, <1>6, <2>2
  <2> HIDE DEF e
  <2>4. <<l>> \o <<>> = <<l>>
    BY <2>1, <2>2, Pairs
  <2>5. /\ OnTheWay(<<l>> \o <<>>) = EmissionsOf(l.queue) \cup OnTheWay(<<>>)
        /\ HeldBack(<<l>> \o <<>>) = ({l.held} \ {NoPacket}) \cup HeldBack(<<>>)
    BY <1>4, <2>1, <2>2, StackGrown
  <2>6. Echo # NoPacket
    BY <1>1, PacketIsOne
  <2>7. OnTheWay(stack') = {e} /\ HeldBack(stack') = {Echo}
    BY <2>1, <2>2, <2>3, <2>4, <2>5, <2>6, NothingOnTheWay
  <2> QED BY <1>6, <2>7 DEF e
<1> QED BY <1>3, <1>5, <1>6

LEMMA SendWire == ASSUME IInv, Wire, SendEcho PROVE Wire'
<1>1. /\ Echo \in Packet /\ Echo.kind = "echo" /\ Echo.host = ping.host
      /\ Echo.sip = ip[ping.host] /\ ping.host \in Host /\ ping'.host = ping.host
  BY EchoFacts
<1>2. UNCHANGED <<live, ip, mac, answered>>
  BY DEF SendEcho
<1>3. \A b : Truthful(b)' <=> Truthful(b)
  BY <1>1, <1>2 DEF Truthful, ConnectedBy
<1>4. \A m : Truthful(Out(ping.host, Carry(Echo, m)))
  BY <1>1, CarriedIsTruthful
<1>5. Truthful(Out(ping.host, WhoHas(ping.host, ping.target)))
  <2>1. Own(Out(ping.host, WhoHas(ping.host, ping.target)), ping.host)
    BY DEF Own, Out, WhoHas
  <2> QED BY <1>1, <2>1, OwnIsTruthful
<1>6. \A e \in OnTheWay(stack') : Truthful(e)'
  BY <1>3, <1>4, <1>5, SendAnatomy
<1>7. OwnPackets'
  BY <1>1, <1>2, SendAnatomy DEF OwnPackets
<1> QED BY <1>1, <1>2, <1>6, <1>7 DEF Wire, OwnPorts, Answerers, ConnectedBy

LEMMA UserWire == ASSUME IInv, Wire, UserStep PROVE Wire'
<1>1. ping = NoPing /\ UNCHANGED <<stack, answered>>
  BY DEF UserStep, ClearArp, ClearMac, ChangeCable, ChangeAddress
<1>2. stack' = <<>> /\ answered' = {}
  BY <1>1, NoPingIsIdle DEF Idle
<1>3. OwnPorts'
  <2>1. ASSUME NEW s \in Switch, ClearMac(s) PROVE OwnPorts'
    BY <2>1 DEF ClearMac, Wire, OwnPorts, IInv, TablesOK
  <2>2. ASSUME UNCHANGED mac PROVE OwnPorts'
    BY <2>2 DEF Wire, OwnPorts
  <2> QED BY <2>1, <2>2 DEF UserStep, ClearArp, ChangeCable, ChangeAddress
<1> QED BY <1>2, <1>3, QuietWire

LEMMA NextWire == ASSUME IInv, Wire, [Next]_vars PROVE Wire'
<1>1. CASE \E h \in Host, i \in Ip : StartPing(h, i)
  BY <1>1, NoPingIsIdle, QuietWire DEF StartPing, Idle, Wire, OwnPorts
<1>2. CASE EngineStep
  BY <1>2, DeliverWire, DropWire, ReturnWire DEF EngineStep
<1>3. CASE CommandStep
  <2>1. CASE Finish
    BY <2>1, QuietWire DEF Finish, Wire, OwnPorts
  <2> QED BY <1>3, <2>1, SendWire DEF CommandStep
<1>4. CASE UserStep
  BY <1>4, UserWire
<1>5. CASE UNCHANGED vars
  BY <1>5 DEF vars, Wire, OwnPorts, OwnPackets, Answerers, Truthful, ConnectedBy
<1> QED BY <1>1, <1>2, <1>3, <1>4, <1>5 DEF Next

LEMMA AlwaysWire == Spec => [](IInv /\ Wire)
<1>1. Init => Wire
  BY NothingOnTheWay DEF Init, Wire, OwnPorts, OwnPackets, Answerers
<1>2. IInv /\ Wire /\ [Next]_vars => (IInv /\ Wire)'
  BY NextIInv, NextWire
<1> QED BY <1>1, <1>2, InitIInv, PTL DEF Spec

-------------------------------------------------------------------------------
(* A ping that was answered tells of a host that has the address and is    *)
(* connected: on any LAN, looped or not, whatever tables hold, whatever    *)
(* the user edits between commands (run_ping, Host._handle_icmp).          *)
THEOREM AnswersAreFromConnected == Spec => []AnsweredMeansConnected
<1>1. IInv /\ Wire => AnsweredMeansConnected
  <2> SUFFICES ASSUME IInv, Wire, ping.sent \in inbox PROVE TargetConnected
    BY DEF AnsweredMeansConnected
  <2>1. PICK a \in answered : a.seq = ping.sent /\ a.ip = ping.target
    BY DEF IInv, InboxOK
  <2>2. a.host \in Host /\ ip[a.host] = ping.target
    BY <2>1 DEF IInv, AnsweredOK
  <2>3. ConnectedBy(live, ping.host, a.host)
    BY DEF Wire, Answerers
  <2>4. ping.host \in Host /\ live \in SUBSET Cable
    BY DEF IInv, Idle, Pinging, TablesOK
  <2>5. <<ping.host, a.host>> \in Connected[live]
    BY <2>2, <2>3, <2>4 DEF Connected
  <2> QED BY <2>2, <2>5 DEF TargetConnected
<1> QED BY <1>1, AlwaysWire, PTL

(* While addresses stay, every cached MAC is that of the host with the     *)
(* address, though entries never expire and cables come and go             *)
(* (arp/table.py, Host._handle_arp).                                       *)
THEOREM ArpTablesAreTrue ==
  "address" \notin Edits => (Spec => []ArpTableTruthful)
<1> SUFFICES ASSUME "address" \notin Edits PROVE Spec => []ArpTableTruthful
  OBVIOUS
<1>1. Init => ArpTableTruthful
  BY DEF Init, ArpTableTruthful
<1>2. ASSUME IInv, Wire, ArpTableTruthful, [Next]_vars PROVE ArpTableTruthful'
  <2>1. CASE Deliver
    <3>1. UNCHANGED ip
      BY <2>1 DEF Deliver
    <3>2. PICK e \in OnTheWay(stack) : e \in Emission /\ \E p \in Peers(e.port) :
            \/ p \in Host /\ HostTook(p, e.frame)
            \/ \E s \in Switch : p \in PortsOf(s) /\ SwitchTook(s, p, e.frame)
      BY <1>2, <2>1, DeliverAnatomy DEF Wire
    <3>3. /\ e.frame.src \in Host /\ e.frame.sip \in Ip
          /\ IsArp(e.frame) => ip[e.frame.src] = e.frame.sip
      BY <1>2, <3>2, FrameFields DEF Wire, Truthful, Emission
    <3>4. \/ arp' = arp
          \/ \E p \in Host : /\ IsArp(e.frame)
                             /\ arp' = [arp EXCEPT ![p][e.frame.sip] = e.frame.src]
      BY <3>2 DEF HostTook, SwitchTook
    <3>5. arp \in [Host -> [Ip -> Host \cup {None}]]
      BY <1>2 DEF IInv, TablesOK
    <3> QED BY <1>2, <3>1, <3>3, <3>4, <3>5 DEF ArpTableTruthful
  <2>2. ASSUME NEW h \in Host, ClearArp(h) PROVE ArpTableTruthful'
    BY <1>2, <2>2 DEF ClearArp, ArpTableTruthful, IInv, TablesOK
  <2>3. ASSUME UNCHANGED <<ip, arp>> PROVE ArpTableTruthful'
    BY <1>2, <2>3 DEF ArpTableTruthful
  <2>4. \A h \in Host, i \in Ip \cup {None} : ~ChangeAddress(h, i)
    BY DEF ChangeAddress
  <2> QED BY <1>2, <2>1, <2>2, <2>3, <2>4
          DEF Next, StartPing, EngineStep, DropFrame, Return, CommandStep, SendEcho, Finish,
              UserStep, ClearMac, ChangeCable, vars
<1> QED BY <1>1, <1>2, AlwaysWire, PTL DEF Spec

-------------------------------------------------------------------------------
(* Cables without a loop.                                                  *)

LEMMA SmallestCables ==
  ASSUME NEW T \in SUBSET (SUBSET Cable), T # {}
  PROVE  \E X \in T : \A Y \in T : ~(Y \subseteq X /\ Y # X)
<1>1. T \subseteq FiniteSubsetsOf(Cable)
  BY CableAssumption, FS_Subset DEF FiniteSubsetsOf
<1>2. PICK X \in T : \A Y \in T : <<Y, X>> \notin StrictSubsetOrdering(Cable)
  <2>1. IsWellFoundedOn(StrictSubsetOrdering(Cable), FiniteSubsetsOf(Cable))
    BY FS_StrictSubsetOrderingWellFounded
  <2> QED BY <1>1, <2>1, WFMin
<1> QED BY <1>2 DEF StrictSubsetOrdering

LEMMA TwoEnds ==
  ASSUME NEW c \in Cable, NEW x \in Device, NEW y \in Device, NEW z \in Device,
         Touches(c, x), Touches(c, y), Touches(c, z)
  PROVE  x = y \/ y = z \/ x = z
<1>1. PICK p \in Port, q \in Port : c = {p, q}
  BY CableAssumption
<1>2. \A d \in Device : Touches(c, d) => p \in PortsOfDevice(d) \/ q \in PortsOfDevice(d)
  BY <1>1 DEF Touches
<1> QED BY <1>2, PortOwner

(* A device that a single one of the cables touches is no way through. *)
LEMMA DeadEnd ==
  ASSUME NEW X \in SUBSET Cable, NEW k \in X, NEW x \in Device, At(X, x) = {k},
         NEW d \in Device, NEW s \in Device, d # x, s # x, ConnectedBy(X, d, s)
  PROVE  ConnectedBy(X \ {k}, d, s)
<1> SUFFICES ASSUME NEW devices \in SUBSET Device, d \in devices, Closed(devices, X \ {k})
             PROVE  s \in devices
  BY DEF ConnectedBy
<1>1. Touches(k, x) /\ \A j \in X : Touches(j, x) => j = k
  BY DEF At
<1>2. CASE \E y \in devices : y # x /\ Touches(k, y)
  <2>1. PICK y \in devices : y # x /\ Touches(k, y)
    BY <1>2
  <2>2. \A v \in Device : Touches(k, v) => v \in {x, y}
    BY <1>1, <2>1, TwoEnds
  <2>3. Closed(devices \cup {x}, X)
    <3> SUFFICES ASSUME NEW j \in X, NEW u \in devices \cup {x}, NEW v \in Device,
                        Touches(j, u), Touches(j, v)
                 PROVE  v \in devices \cup {x}
      BY DEF Closed
    <3>1. CASE j = k
      BY <2>1, <2>2, <3>1
    <3>2. CASE j # k
      BY <1>1, <3>2 DEF Closed
    <3> QED BY <3>1, <3>2
  <2> QED BY <2>3 DEF ConnectedBy
<1>3. CASE \A y \in devices : y = x \/ ~Touches(k, y)
  <2>1. Closed(devices \ {x}, X)
    BY <1>1, <1>3 DEF Closed
  <2> QED BY <2>1 DEF ConnectedBy
<1> QED BY <1>2, <1>3

(* Two ways between two devices are a loop: the fewest cables that connect *)
(* them besides the one that joins them have no dead end.                  *)
LEMMA TwoWaysLoop ==
  ASSUME NEW cables \in SUBSET Cable, NEW cs \in SUBSET cables, NEW c \in cables, c \notin cs,
         NEW d \in Device, NEW s \in Device, d # s, Touches(c, d), Touches(c, s),
         ConnectedBy(cs, d, s)
  PROVE  cables \in Looped
<1> DEFINE T == {X \in SUBSET cables : c \notin X /\ ConnectedBy(X, d, s)}
<1>1. PICK X \in T : \A Y \in T : ~(Y \subseteq X /\ Y # X)
  <2>1. cs \in T /\ T \in SUBSET (SUBSET Cable)
    OBVIOUS
  <2> HIDE DEF T
  <2> QED BY <2>1, SmallestCables
<1> DEFINE Y == X \cup {c}
<1>2. /\ X \in SUBSET cables /\ c \notin X /\ c \in Cable
      /\ ConnectedBy(X, d, s) /\ ConnectedBy(X, s, d)
  BY <1>1, ConnectedBack
<1>3. ASSUME NEW x \in Device, At(Y, x) # {} PROVE Cardinality(At(Y, x)) >= 2
  <2>1. IsFiniteSet(At(Y, x))
    BY <1>2, CableAssumption, FS_Subset DEF At
  <2>2. ASSUME NEW k, At(Y, x) = {k} PROVE FALSE
    <3>1. Touches(k, x) /\ k \in Y
      BY <2>2 DEF At
    <3>2. CASE k = c
      <4>1. x = d \/ x = s
        BY <1>2, <3>1, <3>2, TwoEnds
      <4>2. At(X, x) = {}
        BY <1>2, <2>2, <3>2 DEF At
      <4>3. Closed({x}, X)
        BY <4>2 DEF At, Closed
      <4> QED BY <1>2, <4>1, <4>3 DEF ConnectedBy
    <3>3. CASE k # c
      <4>1. x # d /\ x # s
        <5>1. c \notin At(Y, x)
          BY <2>2, <3>3
        <5> QED BY <5>1 DEF At
      <4>2. k \in X /\ At(X, x) = {k}
        BY <2>2, <3>1, <3>3 DEF At
      <4>3. ConnectedBy(X \ {k}, d, s)
        BY <1>2, <4>1, <4>2, DeadEnd
      <4>4. X \ {k} \in T /\ X \ {k} \subseteq X /\ X \ {k} # X
        BY <1>2, <4>2, <4>3
      <4> HIDE DEF T
      <4> QED BY <1>1, <4>4
    <3> QED BY <3>2, <3>3
  <2>3. Cardinality(At(Y, x)) \in Nat /\ Cardinality(At(Y, x)) # 0
    BY <1>3, <2>1, FS_CardinalityType, FS_EmptySet
  <2>4. Cardinality(At(Y, x)) # 1
    BY <2>1, <2>2, FS_Singleton
  <2> QED BY <2>3, <2>4
<1>4. Y \in (SUBSET cables) \ {{}}
  BY <1>2
<1> HIDE DEF Y, T
<1> QED BY <1>3, <1>4 DEF Looped

-------------------------------------------------------------------------------
(* Where a frame's source is, seen from the switch it arrives at.          *)

Side(cables, s, p) == {c \in cables : Touches(c, s) => p \in c}
Around(cables, s) == {c \in cables : ~Touches(c, s)}

LEMMA BehindMeans ==
  ASSUME NEW cables \in SUBSET Cable, NEW s \in Switch, NEW p \in PortsOf(s), NEW m \in Host
  PROVE  m \in Behind[cables][s][p] <=> ConnectedBy(Side(cables, s, p), s, m)
BY DEF Behind, Side

LEMMA HostBehindItsPort ==
  ASSUME NEW cables \in SUBSET Cable, NEW s \in Switch, NEW p \in PortsOf(s), NEW m \in Host,
         {m, p} \in cables
  PROVE  m \in Behind[cables][s][p]
<1>1. Touches({m, p}, s) /\ Touches({m, p}, m) /\ s \in Device /\ m \in Device
  <2>1. p \in Port
    BY PortFacts DEF Port
  <2> QED BY <2>1, PortOwner DEF Touches, Device, PortsOfDevice
<1>2. {m, p} \in Side(cables, s, p)
  BY DEF Side
<1> QED BY <1>1, <1>2, ConnectedNext, BehindMeans

(* What is behind another port of the next switch is behind the port that  *)
(* leads there.                                                            *)
LEMMA BehindNextSwitch ==
  ASSUME NEW cables \in SUBSET Cable, cables \notin Looped,
         NEW s \in Switch, NEW p \in PortsOf(s), NEW d \in Switch, NEW q \in PortsOf(d),
         {p, q} \in cables,
         NEW r \in PortsOf(d), r # q, NEW m \in Host, m \in Behind[cables][d][r]
  PROVE  m \in Behind[cables][s][p]
<1> DEFINE c == {p, q}
<1>1. s \in Device /\ d \in Device
  BY DEF Device
<1>2. p \in Port /\ q \in Port /\ r \in Port
  BY PortFacts DEF Port
<1>3. p \in PortsOfDevice(s) /\ q \in PortsOfDevice(d) /\ r \in PortsOfDevice(d)
  BY <1>2, PortOwner
<1>4. d # s
  BY <1>1, <1>3 DEF Looped
<1>5. Touches(c, s) /\ Touches(c, d) /\ r \notin c
  BY <1>1, <1>2, <1>3, <1>4, PortOwner DEF Touches
<1>6. ConnectedBy(Side(cables, d, r), d, m) /\ ~ConnectedBy(Side(cables, d, r), d, s)
  <2>1. c \notin Side(cables, d, r) /\ Side(cables, d, r) \in SUBSET cables
    BY <1>5 DEF Side
  <2> QED BY <1>1, <1>4, <1>5, <2>1, BehindMeans, TwoWaysLoop
<1>7. PICK here \in SUBSET Device :
        d \in here /\ Closed(here, Side(cables, d, r)) /\ s \notin here
  BY <1>6 DEF ConnectedBy
<1>8. ASSUME NEW devices \in SUBSET Device, s \in devices, Closed(devices, Side(cables, s, p))
      PROVE  m \in devices
  <2>1. d \in devices
    <3>1. c \in Side(cables, s, p)
      BY DEF Side
    <3> HIDE DEF c
    <3> QED BY <1>1, <1>5, <1>8, <3>1 DEF Closed
  <2>2. Closed(devices \cap here, Side(cables, d, r))
    <3> SUFFICES ASSUME NEW k \in Side(cables, d, r), NEW x \in devices \cap here,
                        NEW y \in Device, Touches(k, x), Touches(k, y)
                 PROVE  y \in devices \cap here
      BY DEF Closed
    <3>1. y \in here /\ ~Touches(k, s)
      BY <1>1, <1>7 DEF Closed
    <3>2. k \in Side(cables, s, p)
      BY <3>1 DEF Side
    <3> QED BY <1>8, <3>1, <3>2 DEF Closed
  <2> QED BY <1>6, <1>7, <2>1, <2>2 DEF ConnectedBy
<1> QED BY <1>8, BehindMeans DEF ConnectedBy

(* A frame on its way out of a switch has come from another of its sides.  *)
Placed(e) ==
  \A s \in Switch : e.port \in PortsOf(s) =>
    \E r \in PortsOf(s) \ {e.port} : e.frame.src \in Behind[live][s][r]

LEMMA ArrivesFromBehind ==
  ASSUME IInv, live \notin Looped, NEW e \in Emission, Truthful(e), Placed(e),
         NEW p \in Peers(e.port), NEW s \in Switch, p \in PortsOf(s)
  PROVE  e.frame.src \in Behind[live][s][p]
<1>1. e.port \in Port /\ e.frame.src \in Host /\ live \in SUBSET Cable
  BY FrameFields DEF Emission, IInv, TablesOK
<1>2. {p, e.port} \in live
  <2>1. {p, e.port} = {e.port, p}
    OBVIOUS
  <2> QED BY <1>1, <2>1, PeerFacts DEF IInv
<1>3. CASE e.port \in Host
  <2>1. e.frame.src = e.port /\ {e.port, p} \in live
    BY <1>1, <1>3, PeerFacts DEF Truthful, IInv
  <2> QED BY <1>1, <2>1, HostBehindItsPort
<1>4. ASSUME NEW d \in Switch, e.port \in PortsOf(d) PROVE e.frame.src \in Behind[live][s][p]
  <2>1. PICK r \in PortsOf(d) \ {e.port} : e.frame.src \in Behind[live][d][r]
    BY <1>4 DEF Placed
  <2> QED BY <1>1, <1>2, <1>4, <2>1, BehindNextSwitch
<1> QED BY <1>1, <1>3, <1>4 DEF Port, SwitchPort

LEMMA HostPortsArePlaced ==
  ASSUME NEW e, e.port \in Host
  PROVE  Placed(e)
<1>1. e.port \in Port
  BY DEF Port
<1> QED BY <1>1, PortOwner DEF Placed

-------------------------------------------------------------------------------
(* Which switches a frame has come through.                                *)

LEMMA NoWayAround ==
  ASSUME NEW cables, NEW s \in Switch, NEW m \in Host
  PROVE  ~ConnectedBy(Around(cables, s), s, m)
<1>1. Closed({s}, Around(cables, s)) /\ s # m /\ s \in Device
  BY NamesAssumption DEF Closed, Around, Device
<1> QED BY <1>1 DEF ConnectedBy

LEMMA OpenMeans ==
  ASSUME TablesOK, NEW d \in Device, NEW m \in Host
  PROVE  Open(d, m) <=> \A s \in Switch : ConnectedBy(Around(live, s), d, m) \/ Right(s, m)
<1>1. live \in SUBSET Cable
  BY DEF TablesOK
<1>2. \A s \in Switch : <<d, s, m>> \in Between[live] <=> ~ConnectedBy(Around(live, s), d, m)
  BY <1>1 DEF Between, Around
<1> QED BY <1>2 DEF Open

LEMMA OpenHere ==
  ASSUME TablesOK, NEW h \in Host
  PROVE  Open(h, h)
<1>1. h \in Device
  BY DEF Device
<1> QED BY <1>1, OpenMeans, ConnectedToItself

(* What is written into tables is right: then right entries stay right.    *)
Learning ==
  \A s \in Switch, m \in Host : mac'[s][m] # mac[s][m] => Right(s, m)'

LEMMA RightStays ==
  ASSUME UNCHANGED live, Learning
  PROVE  /\ \A s \in Switch, m \in Host : Right(s, m) => Right(s, m)'
         /\ \A d : \A m \in Host : Open(d, m) => Open(d, m)'
<1>1. \A s \in Switch, m \in Host : Right(s, m) => Right(s, m)'
  BY DEF Right, Learning
<1> QED BY <1>1 DEF Open

(* Where the way to a host is open, so it is from the next device, when it *)
(* is not a switch that is itself wrong about the host.                    *)
LEMMA OpenNext ==
  ASSUME TablesOK, NEW c \in live, NEW d \in Device, NEW e \in Device,
         Touches(c, d), Touches(c, e), NEW m \in Host, Open(d, m),
         UNCHANGED live, Learning, e \in Switch => Right(e, m)'
  PROVE  Open(e, m)'
<1> SUFFICES ASSUME NEW s \in Switch, ~ConnectedBy(Around(live, s), e, m)
             PROVE  Right(s, m)'
  <2>1. live' \in SUBSET Cable /\ live' = live
    BY DEF TablesOK
  <2>2. \A s \in Switch : <<e, s, m>> \in Between[live'] => ~ConnectedBy(Around(live', s), e, m)
    BY <2>1 DEF Between, Around
  <2> QED BY <2>1, <2>2 DEF Open
<1>1. CASE s = e
  BY <1>1
<1>2. CASE s = d
  BY <1>2, NoWayAround, OpenMeans, RightStays
<1>3. CASE s # e /\ s # d
  <2>1. c \in Cable /\ s \in Device /\ m \in Device
    BY DEF TablesOK, Device
  <2>2. d = e \/ ~Touches(c, s)
    BY <1>3, <2>1, TwoEnds
  <2>3. d = e \/ ConnectedBy(Around(live, s), e, d)
    BY <2>2, ConnectedNext DEF Around
  <2>4. ~ConnectedBy(Around(live, s), d, m)
    BY <2>3, ConnectedOn
  <2> QED BY <2>4, OpenMeans, RightStays
<1> QED BY <1>1, <1>2, <1>3

(* So it is for the far end of the cable a frame crosses. *)
LEMMA OpenAcross ==
  ASSUME TablesOK, NEW e \in Emission, NEW p \in Peers(e.port), NEW d \in Device,
         p \in PortsOfDevice(d), NEW m \in Host,
         \A b \in Device : e.port \in PortsOfDevice(b) => Open(b, m),
         UNCHANGED live, Learning, d \in Switch => Right(d, m)'
  PROVE  Open(d, m)'
<1>1. e.port \in Port
  BY DEF Emission
<1>2. PICK b \in Device : e.port \in PortsOfDevice(b)
  BY <1>1, PortOwner
<1>3. {p, e.port} \in live /\ Touches({p, e.port}, b) /\ Touches({p, e.port}, d)
  <2>1. {p, e.port} = {e.port, p}
    OBVIOUS
  <2> QED BY <1>1, <1>2, <2>1, PeerFacts
<1> QED BY <1>2, <1>3, OpenNext

(* Every switch a frame has come through is right about its source. *)
Trail(e) == \A d \in Device : e.port \in PortsOfDevice(d) => Open(d, e.frame.src)

(* A reply in the inbox has come from the target, which all the switches   *)
(* between are right about.                                                *)
Heard ==
  inbox # {} => \E h \in Host : /\ ip[h] = ping.target
                                /\ ConnectedBy(live, ping.host, h)
                                /\ Open(ping.host, h)

Ways ==
  live \notin Looped =>
    /\ \A e \in OnTheWay(stack) : Placed(e) /\ Trail(e)
    /\ Heard

LEMMA OwnTrail ==
  ASSUME TablesOK, NEW e, NEW h \in Host, e.port = h, e.frame.src = h
  PROVE  Trail(e)
<1>1. h \in Port
  BY DEF Port
<1>2. \A d \in Device : e.port \in PortsOfDevice(d) => d = h
  BY <1>1, PortOwner DEF Device
<1> QED BY <1>2, OpenHere DEF Trail

LEMMA TrailStays ==
  ASSUME UNCHANGED live, Learning, NEW e, e.frame.src \in Host, Trail(e)
  PROVE  Trail(e)'
<1>1. \A d : Open(d, e.frame.src) => Open(d, e.frame.src)'
  BY RightStays
<1> QED BY <1>1 DEF Trail

LEMMA DeliverLearns ==
  ASSUME IInv, Wire, Ways, live \notin Looped, Deliver
  PROVE  Learning
<1>1. PICK e \in OnTheWay(stack) : e \in Emission /\ \E p \in Peers(e.port) :
        \/ p \in Host /\ HostTook(p, e.frame)
        \/ \E s \in Switch : p \in PortsOf(s) /\ SwitchTook(s, p, e.frame)
  BY DeliverAnatomy DEF Wire
<1>2. PICK p \in Peers(e.port) :
        \/ p \in Host /\ HostTook(p, e.frame)
        \/ \E s \in Switch : p \in PortsOf(s) /\ SwitchTook(s, p, e.frame)
  BY <1>1
<1>3. Truthful(e) /\ Placed(e) /\ e.frame.src \in Host /\ UNCHANGED live
  BY <1>1, FrameFields DEF Wire, Ways, Emission, Deliver
<1>4. CASE p \in Host /\ HostTook(p, e.frame)
  BY <1>4 DEF HostTook, Learning
<1>5. ASSUME NEW s \in Switch, p \in PortsOf(s), SwitchTook(s, p, e.frame)
      PROVE  Learning
  <2>1. e.frame.src \in Behind[live][s][p]
    BY <1>1, <1>3, <1>5, ArrivesFromBehind
  <2>2. mac' = [mac EXCEPT ![s][e.frame.src] = p]
    BY <1>5 DEF SwitchTook, Learned
  <2>3. mac \in [Switch -> [Host -> SwitchPort \cup {None}]]
    BY DEF IInv, TablesOK
  <2> QED BY <1>3, <2>1, <2>2, <2>3 DEF Learning, Right
<1> QED BY <1>2, <1>4, <1>5

LEMMA DeliverWays ==
  ASSUME IInv, Wire, Ways, live \notin Looped, Deliver
  PROVE  Ways'
<1>1. PICK e \in OnTheWay(stack) :
        /\ e \in Emission /\ (IsArp(e.frame) \/ Told(e.frame, ping, answered))
        /\ \E p \in Peers(e.port) :
             \/ p \in Host /\ HostTook(p, e.frame)
             \/ \E s \in Switch : p \in PortsOf(s) /\ SwitchTook(s, p, e.frame)
  BY DeliverAnatomy DEF Wire
<1>2. PICK p \in Peers(e.port) :
        \/ p \in Host /\ HostTook(p, e.frame)
        \/ \E s \in Switch : p \in PortsOf(s) /\ SwitchTook(s, p, e.frame)
  BY <1>1
<1>3. /\ Truthful(e) /\ Placed(e) /\ Trail(e) /\ e.frame.src \in Host
      /\ UNCHANGED <<live, ip, ping>> /\ Learning /\ TablesOK
  BY <1>1, FrameFields, DeliverLearns DEF Wire, Ways, Emission, Deliver, IInv
<1>4. ASSUME NEW b \in OnTheWay(stack) PROVE Placed(b)' /\ Trail(b)'
  <2>1. Placed(b) /\ Trail(b) /\ b.frame.src \in Host
    BY FlightTyped, NestedTyped, FrameFields DEF Ways, Emission, IInv
  <2> QED BY <1>3, <2>1, TrailStays DEF Placed
<1>5. CASE p \in Host /\ HostTook(p, e.frame)
  <2>1. ASSUME NEW b \in OnTheWay(stack') PROVE Placed(b)' /\ Trail(b)'
    <3>1. CASE b \in OnTheWay(stack)
      BY <1>4, <3>1
    <3>2. CASE b.port = p /\ b.frame.src = p
      <4>1. Placed(b) /\ Trail(b)
        BY <1>3, <1>5, <3>2, HostPortsArePlaced, OwnTrail
      <4> QED BY <1>3, <1>5, <3>2, <4>1, TrailStays DEF Placed
    <3> QED BY <1>5, <3>1, <3>2 DEF HostTook, SpokenOnly, Spoken, Own
  <2>2. ASSUME inbox' = inbox PROVE Heard'
    BY <1>3, <2>2, RightStays DEF Ways, Heard, ConnectedBy
  <2>3. ASSUME e.frame.kind = "reply", p = ping.host PROVE Heard'
    <3>1. ip[e.frame.src] = ping.target
      BY <1>1, <1>3, <2>3 DEF Truthful, IsArp, Told
    <3>2. p \in Device /\ p \in PortsOfDevice(p) /\ p \notin Switch
      BY <1>5, NamesAssumption DEF Device, PortsOfDevice
    <3>3. ConnectedBy(live, p, e.frame.src)
      BY <1>1, <1>3, <3>2, ArrivesConnected
    <3>4. Open(p, e.frame.src)'
      BY <1>1, <1>3, <3>2, OpenAcross DEF Trail
    <3> QED BY <1>3, <2>3, <3>1, <3>3, <3>4 DEF Heard, ConnectedBy
  <2>4. Heard'
    BY <1>5, <2>2, <2>3 DEF HostTook
  <2> QED BY <2>1, <2>4 DEF Ways
<1>6. ASSUME NEW s \in Switch, p \in PortsOf(s), SwitchTook(s, p, e.frame)
      PROVE  Ways'
  <2>1. e.frame.src \in Behind[live][s][p]
    BY <1>1, <1>3, <1>6, ArrivesFromBehind
  <2>2. p \in Port /\ s \in Device /\ p \in PortsOfDevice(s)
    BY <1>6, PortFacts, PortOwner DEF Port, Device
  <2>3. Right(s, e.frame.src)'
    <3>1. mac' = [mac EXCEPT ![s][e.frame.src] = p]
      BY <1>6 DEF SwitchTook, Learned
    <3> QED BY <1>3, <2>1, <3>1 DEF Right, TablesOK
  <2>4. Open(s, e.frame.src)'
    BY <1>1, <1>3, <2>2, <2>3, OpenAcross DEF Trail
  <2>5. ASSUME NEW b, b.port \in PortsOf(s) \ {p}, b.frame = e.frame
        PROVE  Placed(b)' /\ Trail(b)'
    <3>1. \A t \in Switch : b.port \in PortsOf(t) => t = s
      BY <2>5, NamesAssumption
    <3>2. \A d \in Device : b.port \in PortsOfDevice(d) => d = s
      <4>1. b.port \in Port /\ b.port \in PortsOfDevice(s)
        BY <2>2, <2>5, PortFacts, PortOwner DEF Port
      <4> QED BY <2>2, <4>1, PortOwner
    <3>3. Placed(b)'
      BY <1>3, <1>6, <2>1, <2>5, <3>1 DEF Placed
    <3>4. Trail(b)'
      BY <2>4, <2>5, <3>2 DEF Trail
    <3> QED BY <3>3, <3>4
  <2>6. \A b \in OnTheWay(stack') : Placed(b)' /\ Trail(b)'
    BY <1>4, <1>6, <2>5 DEF SwitchTook
  <2>7. Heard'
    BY <1>3, <1>6, RightStays DEF SwitchTook, Ways, Heard, ConnectedBy
  <2> QED BY <2>6, <2>7 DEF Ways
<1> QED BY <1>2, <1>5, <1>6

(* A step that leaves cables and tables alone. *)
LEMMA WaysStay ==
  ASSUME IInv, Ways, UNCHANGED <<live, ip, mac>>, inbox' = {} \/ UNCHANGED <<inbox, ping>>,
         \A e \in OnTheWay(stack') :
           e \in OnTheWay(stack) \/ (e.port \in Host /\ e.frame.src = e.port)
  PROVE  Ways'
<1> SUFFICES ASSUME live \notin Looped
             PROVE  (\A e \in OnTheWay(stack') : Placed(e)' /\ Trail(e)') /\ Heard'
  BY DEF Ways
<1>1. /\ \A e : Placed(e)' <=> Placed(e)
      /\ \A d, m : Open(d, m)' <=> Open(d, m)
  BY DEF Placed, Open, Right
<1>2. \A e : Trail(e)' <=> Trail(e)
  BY <1>1 DEF Trail
<1>3. TablesOK
  BY DEF IInv
<1>4. \A e \in OnTheWay(stack') : Placed(e) /\ Trail(e)
  BY <1>3, HostPortsArePlaced, OwnTrail DEF Ways
<1>5. Heard'
  BY <1>1 DEF Ways, Heard, ConnectedBy
<1> QED BY <1>1, <1>2, <1>4, <1>5

LEMMA NextWays ==
  ASSUME IInv, Wire, Ways, [Next]_vars
  PROVE  Ways'
<1>1. CASE Deliver
  <2>1. live' = live
    BY <1>1 DEF Deliver
  <2> QED BY <1>1, <2>1, DeliverWays DEF Ways
<1>2. CASE DropFrame
  <2>1. OnTheWay(stack') \subseteq OnTheWay(stack)
    BY <1>2, FirstPopped, NestedTyped DEF DropFrame, IInv
  <2>2. UNCHANGED <<live, ip, mac, inbox, ping>>
    BY <1>2 DEF DropFrame
  <2> QED BY <2>1, <2>2, WaysStay
<1>3. CASE Return
  <2>1. stack # <<>> /\ stack' = AfterReturn /\ UNCHANGED <<live, ip, mac, inbox, ping>>
    BY <1>3 DEF Return
  <2>2. \A e \in OnTheWay(stack') :
          e \in OnTheWay(stack) \/ (e.port \in Host /\ e.frame.src = e.port)
    BY <1>3, AfterReturnAnatomy DEF Return, Out, Carry, Packet
  <2> QED BY <2>1, <2>2, WaysStay
<1>4. CASE SendEcho
  <2>1. \A e \in OnTheWay(stack') : e.port \in Host /\ e.frame.src = e.port
    BY <1>4, EchoFacts, SendAnatomy DEF Out, Carry, WhoHas
  <2>2. UNCHANGED <<live, ip, mac>> /\ inbox' = {}
    BY <1>4 DEF SendEcho
  <2> QED BY <2>1, <2>2, WaysStay
<1>5. CASE Finish \/ UserStep \/ \E h \in Host, i \in Ip : StartPing(h, i)
  <2>1. stack = <<>> /\ UNCHANGED stack
    BY <1>5, NoPingIsIdle DEF Idle, Finish, StartPing, UserStep, ClearArp, ClearMac,
                              ChangeCable, ChangeAddress
  <2>2. inbox' = {}
    BY <1>5, NoPingIsIdle DEF Idle, Finish, StartPing, UserStep, ClearArp, ClearMac,
                              ChangeCable, ChangeAddress
  <2> QED BY <2>1, <2>2, NothingOnTheWay DEF Ways, Heard
<1>6. CASE UNCHANGED vars
  <2>1. UNCHANGED <<live, ip, mac, inbox, ping, stack>>
    BY <1>6 DEF vars
  <2> QED BY <2>1, WaysStay
<1> QED BY <1>1, <1>2, <1>3, <1>4, <1>5, <1>6 DEF Next, EngineStep, CommandStep

LEMMA AlwaysWays == Spec => []Ways
<1>1. Init => Ways
  BY NothingOnTheWay DEF Init, Ways, Heard
<1>2. (IInv /\ Wire) /\ Ways /\ [Next]_vars => Ways'
  BY NextWays
<1> QED BY <1>1, <1>2, AlwaysWire, PTL DEF Spec

(* While no live cables make a loop, every entry a switch writes into its  *)
(* table is right when it is written, on any LAN, however often cables     *)
(* have been moved before and whatever wrong entries have led the frame    *)
(* there (switch.py _learn).                                               *)
THEOREM SwitchesLearnTheTruth == Spec => LearnsTruth
<1>1. ASSUME IInv, Wire, Ways, [Next]_vars, live \notin Looped PROVE Learning
  <2>1. CASE Deliver
    BY <1>1, <2>1, DeliverLearns
  <2>2. ASSUME NEW s \in Switch, ClearMac(s) PROVE Learning
    BY <1>1, <2>2 DEF ClearMac, Learning, Right, IInv, TablesOK
  <2>3. CASE UNCHANGED mac
    BY <2>3 DEF Learning
  <2> QED BY <1>1, <2>1, <2>2, <2>3
          DEF Next, StartPing, EngineStep, DropFrame, Return, CommandStep, SendEcho, Finish,
              UserStep, ClearArp, ChangeCable, ChangeAddress, vars
<1>2. IInv /\ Wire /\ Ways /\ [Next]_vars =>
        [live \notin Looped =>
           \A s \in Switch, m \in Host : mac'[s][m] # mac[s][m] => Right(s, m)']_vars
  BY <1>1 DEF Learning
<1> QED BY <1>2, AlwaysWire, AlwaysWays, PTL DEF Spec, LearnsTruth

-------------------------------------------------------------------------------
(* Where a request gets, and its reply.  As long as its target is          *)
(* connected and nothing was dropped at the hop limit, the inbox holds the *)
(* reply, or a request or reply is on its way out of a port that leads to  *)
(* the host it is for, on an open way, or is held back until an answer     *)
(* comes that is known or for which a question or answer is itself on a    *)
(* port that leads there; or the request is lost.                          *)

(* Port q leads to host m, without coming back by the same cable. *)
Leads(q, m) ==
  \E p \in Peers(q), d \in Device :
    p \in PortsOfDevice(d) /\ ConnectedBy(live \ {{p, q}}, d, m)

OneCablePerPort == \A c \in live, d \in live : c # d => c \cap d = {}
OneHostPerAddress == \A g \in Host, h \in Host : ip[g] # None /\ ip[g] = ip[h] => g = h

(* Who is told what: requests and replies go to the host that has the      *)
(* address they are for, replies to the one that pings.                    *)
Addressed(e) ==
  LET f == e.frame
  IN /\ f.kind = "who-has" => f.dst = Broadcast
     /\ f.kind \in {"echo", "reply"} => f.dst \in Host /\ ip[f.dst] = f.dip
     /\ f.kind = "echo" => f.sip = ip[ping.host]
     /\ f.kind = "reply" => f.dip = ip[ping.host]

HeldAddressed(pk) ==
  /\ pk.kind = "echo" => pk.sip = ip[ping.host]
  /\ pk.kind = "reply" => pk.dip = ip[ping.host]

Addresses ==
  /\ OneCablePerPort
  /\ OneHostPerAddress
  /\ ping # NoPing => ip[ping.host] # ping.target
  /\ \A e \in OnTheWay(stack) : Addressed(e)
  /\ \A pk \in HeldBack(stack) : HeldAddressed(pk)

(* The way to host m is open at the device of port q. *)
OpenFrom(q, m) == \A d \in Device : q \in PortsOfDevice(d) => Open(d, m)

(* An emission on its way to host m; flooding needs no table to be right.  *)
HeadsFor(e, m) == /\ e.frame.dst \in {m, Broadcast} /\ Leads(e.port, m)
                  /\ e.frame.dst = m => OpenFrom(e.port, m)

Carried(e) == /\ e.frame.kind \in {"echo", "reply"} /\ e.frame.dst \in Host
              /\ HeadsFor(e, e.frame.dst)

(* The question for the address of pk, or its answer. *)
Question(e, pk, m) == e.frame.kind = "who-has" /\ e.frame.src = pk.host /\ e.frame.dip = pk.dip
                      /\ HeadsFor(e, m)
Answer(e, pk) == e.frame.kind = "is-at" /\ e.frame.sip = pk.dip /\ e.frame.dst = pk.host
                 /\ HeadsFor(e, pk.host)

Resolving(l) ==
  LET pk == l.held
  IN /\ pk # NoPacket
     /\ \E m \in Host :
          /\ m # pk.host /\ ip[m] = pk.dip /\ ConnectedBy(live, pk.host, m)
          /\ \/ arp[pk.host][pk.dip] # None /\ Open(pk.host, m)
             \/ \E e \in EmissionsOf(l.queue) : Question(e, pk, m) \/ Answer(e, pk)

Progress ==
  \/ ping.sent \in inbox
  \/ \E e \in OnTheWay(stack) : Carried(e)
  \/ stack # <<>> /\ Resolving(Top)

(* The request went out by a cached MAC, to a target that a switch on the  *)
(* way has on a port it is not behind, and nothing but it is under way.    *)
Lost == /\ HeldBack(stack) = {} /\ \A e \in OnTheWay(stack) : e.frame.kind = "echo"
        /\ ~TargetReachable

Quest == ping.sent > 0 /\ TargetConnected /\ ~storm /\ live \notin Looped => Progress \/ Lost

LEMMA DeliverAddresses ==
  ASSUME IInv, Wire, ArpTableTruthful, Addresses, Deliver
  PROVE  Addresses'
<1>1. UNCHANGED <<live, ip, ping>>
  BY DEF Deliver
<1>2. PICK e \in OnTheWay(stack) : e \in Emission /\ \E p \in Peers(e.port) :
        \/ p \in Host /\ HostTook(p, e.frame)
        \/ \E s \in Switch : p \in PortsOf(s) /\ SwitchTook(s, p, e.frame)
  BY DeliverAnatomy DEF Wire
<1>3. /\ Addressed(e) /\ e.frame.sip \in Ip
      /\ \A b : Addressed(b)' <=> Addressed(b)
      /\ \A pk : HeldAddressed(pk)' <=> HeldAddressed(pk)
  BY <1>1, <1>2, FrameFields DEF Addresses, Addressed, HeldAddressed, Emission
<1>4. ASSUME NEW h \in Host, HostTook(h, e.frame)
      PROVE  /\ \A b \in OnTheWay(stack') : Addressed(b)
             /\ \A pk \in HeldBack(stack') : HeldAddressed(pk)
  <2>1. ASSUME NEW b, Spoken(b, h, e.frame) PROVE Addressed(b)
    <3>1. CASE b.frame.kind = "reply"
      <4>1. /\ b.frame.dip = e.frame.sip /\ e.frame.sip = ip[ping.host]
            /\ b.frame.dst = arp[h][e.frame.sip] /\ b.frame.dst \in Host
        BY <1>3, <2>1, <3>1 DEF Spoken, Addressed
      <4>2. ip[b.frame.dst] = b.frame.dip
        BY <1>3, <4>1, NoneFacts DEF ArpTableTruthful
      <4> QED BY <3>1, <4>1, <4>2 DEF Addressed
    <3>2. CASE b.frame.kind # "reply"
      BY <2>1, <3>2 DEF Spoken, Own, Addressed
    <3> QED BY <3>1, <3>2
  <2>2. ASSUME NEW pk, pk.kind = "reply", e.frame.kind = "echo", pk.dip = e.frame.sip
        PROVE  HeldAddressed(pk)
    BY <1>3, <2>2 DEF HeldAddressed, Addressed
  <2> QED BY <1>4, <2>1, <2>2 DEF HostTook, SpokenOnly, Addresses
<1>5. ASSUME NEW s \in Switch, NEW p, SwitchTook(s, p, e.frame)
      PROVE  /\ \A b \in OnTheWay(stack') : Addressed(b)
             /\ \A pk \in HeldBack(stack') : HeldAddressed(pk)
  BY <1>3, <1>5 DEF SwitchTook, Addresses, Addressed
<1>6. /\ \A b \in OnTheWay(stack') : Addressed(b)
      /\ \A pk \in HeldBack(stack') : HeldAddressed(pk)
  BY <1>2, <1>4, <1>5
<1> QED BY <1>1, <1>3, <1>6 DEF Addresses, OneCablePerPort, OneHostPerAddress

LEMMA ReturnAddresses ==
  ASSUME IInv, ArpTableTruthful, Addresses, Return
  PROVE  Addresses'
<1>1. stack # <<>> /\ stack' = AfterReturn /\ UNCHANGED <<live, ip, arp, ping>>
  BY DEF Return
<1>2. /\ \A b : Addressed(b)' <=> Addressed(b)
      /\ \A pk : HeldAddressed(pk)' <=> HeldAddressed(pk)
  BY <1>1 DEF Addressed, HeldAddressed
<1>3. ASSUME NEW pk \in HeldBack(stack), pk \in Packet, arp[pk.host][pk.dip] \in Host
      PROVE  Addressed(Out(pk.host, Carry(pk, arp[pk.host][pk.dip])))
  <2>1. pk.host \in Host /\ pk.dip \in Ip /\ pk.kind \in {"echo", "reply"}
    BY <1>3 DEF Packet
  <2>2. ip[arp[pk.host][pk.dip]] = pk.dip
    BY <1>3, <2>1, NoneFacts DEF ArpTableTruthful
  <2> QED BY <1>3, <2>1, <2>2 DEF Addresses, Addressed, HeldAddressed, Out, Carry
<1>4. \A b \in OnTheWay(stack') : Addressed(b)
  BY <1>1, <1>3, AfterReturnAnatomy DEF Addresses
<1>5. HeldBack(stack') \subseteq HeldBack(stack)
  BY <1>1, AfterReturnAnatomy
<1> QED BY <1>1, <1>2, <1>4, <1>5 DEF Addresses, OneCablePerPort, OneHostPerAddress

LEMMA SendAddresses ==
  ASSUME IInv, ArpTableTruthful, Addresses, SendEcho
  PROVE  Addresses'
<1>1. /\ Echo.kind = "echo" /\ Echo.host = ping.host /\ Echo.dip = ping.target
      /\ ping.host \in Host /\ ping.target \in Ip
      /\ ping'.host = ping.host /\ ping'.target = ping.target
  BY EchoFacts
<1>2. UNCHANGED <<live, ip>> /\ ping # NoPing
  BY DEF SendEcho
<1>3. /\ \A b : Addressed(b)' <=> Addressed(b)
      /\ \A pk : HeldAddressed(pk)' <=> HeldAddressed(pk)
  BY <1>1, <1>2 DEF Addressed, HeldAddressed
<1>4. HeldAddressed(Echo)
  BY DEF HeldAddressed, Echo
<1>5. ASSUME NEW m \in Host, m = arp[ping.host][ping.target]
      PROVE  Addressed(Out(ping.host, Carry(Echo, m)))
  <2>1. ip[m] = ping.target
    BY <1>1, <1>5, NoneFacts DEF ArpTableTruthful
  <2> QED BY <1>1, <2>1 DEF Addressed, Out, Carry, Echo
<1>6. Addressed(Out(ping.host, WhoHas(ping.host, ping.target)))
  BY DEF Addressed, Out, WhoHas
<1>7. /\ \A b \in OnTheWay(stack') : Addressed(b)
      /\ \A pk \in HeldBack(stack') : HeldAddressed(pk)
  BY <1>4, <1>5, <1>6, SendAnatomy
<1> QED BY <1>1, <1>2, <1>3, <1>7 DEF Addresses, OneCablePerPort, OneHostPerAddress

LEMMA QuietAddresses ==
  ASSUME stack' = <<>>, OneCablePerPort', OneHostPerAddress',
         ping' # NoPing => ip'[ping'.host] # ping'.target
  PROVE  Addresses'
BY NothingOnTheWay DEF Addresses

LEMMA NextAddresses ==
  ASSUME IInv, Wire, ArpTableTruthful, Addresses, "address" \notin Edits, [Next]_vars
  PROVE  Addresses'
<1>1. ASSUME NEW h \in Host, NEW i \in Ip, StartPing(h, i) PROVE Addresses'
  BY <1>1, NoPingIsIdle, QuietAddresses
     DEF StartPing, Idle, Addresses, OneCablePerPort, OneHostPerAddress
<1>2. CASE Deliver
  BY <1>2, DeliverAddresses
<1>3. CASE DropFrame
  <2>1. /\ OnTheWay(stack') \subseteq OnTheWay(stack) /\ HeldBack(stack') = HeldBack(stack)
        /\ UNCHANGED <<live, ip, ping>>
    BY <1>3, FirstPopped, NestedTyped DEF DropFrame, IInv
  <2> QED BY <2>1 DEF Addresses, OneCablePerPort, OneHostPerAddress, Addressed, HeldAddressed
<1>4. CASE Return
  BY <1>4, ReturnAddresses
<1>5. CASE SendEcho
  BY <1>5, SendAddresses
<1>6. CASE Finish
  BY <1>6, QuietAddresses DEF Finish, Addresses, OneCablePerPort, OneHostPerAddress
<1>7. CASE UserStep
  <2>1. stack' = <<>> /\ ping' = NoPing /\ UNCHANGED ip
    <3>1. \A h \in Host, i \in Ip \cup {None} : ~ChangeAddress(h, i)
      BY DEF ChangeAddress
    <3> QED BY <1>7, <3>1, NoPingIsIdle DEF UserStep, Idle, ClearArp, ClearMac, ChangeCable
  <2>2. ASSUME NEW c \in Cable, ChangeCable(c) PROVE OneCablePerPort'
    BY <2>2 DEF ChangeCable, Addresses, OneCablePerPort
  <2>3. ASSUME UNCHANGED live PROVE OneCablePerPort'
    BY <2>3 DEF Addresses, OneCablePerPort
  <2>4. OneCablePerPort'
    BY <1>7, <2>2, <2>3 DEF UserStep, ClearArp, ClearMac, ChangeAddress
  <2> QED BY <2>1, <2>4, QuietAddresses DEF Addresses, OneHostPerAddress
<1>8. CASE UNCHANGED vars
  BY <1>8 DEF vars, Addresses, OneCablePerPort, OneHostPerAddress, Addressed, HeldAddressed
<1> QED BY <1>1, <1>2, <1>3, <1>4, <1>5, <1>6, <1>7, <1>8 DEF Next, EngineStep, CommandStep

-------------------------------------------------------------------------------
(* Ports that lead somewhere. *)

LEMMA MoreCables ==
  ASSUME NEW some, NEW more, some \subseteq more, NEW d, NEW e, ConnectedBy(some, d, e)
  PROVE  ConnectedBy(more, d, e)
BY DEF ConnectedBy, Closed

(* The way to another device starts with a cable, and does not come back.  *)
LEMMA FirstCable ==
  ASSUME NEW cables \in SUBSET Cable, NEW d \in Device, NEW m \in Device, d # m,
         ConnectedBy(cables, d, m)
  PROVE  \E q \in PortsOfDevice(d), p \in Port, e \in Device :
           /\ q \in Port /\ p # q /\ {p, q} \in cables /\ p \in PortsOfDevice(e)
           /\ ConnectedBy(cables \ {{p, q}}, e, m)
<1> DEFINE rest == cables \ At(cables, d)
           next == {e \in Device : \E c \in cables : Touches(c, d) /\ Touches(c, e)}
           reach == {d} \cup {x \in Device : \E e \in next : ConnectedBy(rest, e, x)}
<1>1. Closed(reach, cables)
  <2> SUFFICES ASSUME NEW c \in cables, NEW u \in reach, NEW v \in Device,
                      Touches(c, u), Touches(c, v)
               PROVE  v \in reach
    BY DEF Closed
  <2>1. CASE Touches(c, d)
    BY <2>1, ConnectedToItself
  <2>2. CASE ~Touches(c, d)
    <3>1. c \in rest /\ u # d
      BY <2>2 DEF At
    <3>2. PICK e \in next : ConnectedBy(rest, e, u)
      BY <3>1
    <3>3. ConnectedBy(rest, u, v)
      BY <3>1, ConnectedNext
    <3>4. ConnectedBy(rest, e, v)
      BY <3>2, <3>3, ConnectedOn
    <3> QED BY <3>4
  <2> QED BY <2>1, <2>2
<1>2. reach \in SUBSET Device /\ d \in reach
  OBVIOUS
<1>3. m \in reach
  BY <1>1, <1>2 DEF ConnectedBy
<1>4. PICK e \in next : ConnectedBy(rest, e, m)
  BY <1>3
<1>5. PICK c \in cables : Touches(c, d) /\ Touches(c, e)
  BY <1>4
<1>6. e # d
  <2>1. Closed({d}, rest)
    BY DEF Closed, At
  <2> QED BY <1>4, <2>1 DEF ConnectedBy
<1>7. PICK p \in Port, q \in Port :
        p # q /\ c = {p, q} /\ q \in PortsOfDevice(d) /\ p \in PortsOfDevice(e)
  <2>1. PICK a \in Port, b \in Port : a # b /\ c = {a, b}
    BY CableAssumption
  <2>2. /\ a \in PortsOfDevice(d) \/ b \in PortsOfDevice(d)
        /\ a \in PortsOfDevice(e) \/ b \in PortsOfDevice(e)
    BY <1>5, <2>1 DEF Touches
  <2>3. \A x \in Port : ~(x \in PortsOfDevice(d) /\ x \in PortsOfDevice(e))
    BY <1>6, PortOwner
  <2>4. \/ a \in PortsOfDevice(e) /\ b \in PortsOfDevice(d)
        \/ b \in PortsOfDevice(e) /\ a \in PortsOfDevice(d)
    BY <2>2, <2>3
  <2>5. {a, b} = {b, a}
    OBVIOUS
  <2> QED BY <2>1, <2>4, <2>5
<1>8. ConnectedBy(cables \ {{p, q}}, e, m)
  <2>1. rest \subseteq cables \ {{p, q}}
    BY <1>5, <1>7 DEF At
  <2> QED BY <1>4, <2>1, MoreCables
<1> QED BY <1>7, <1>8

LEMMA OneWayOut ==
  ASSUME TablesOK, NEW d \in Device, NEW m \in Device, d # m, ConnectedBy(live, d, m)
  PROVE  \E q \in PortsOfDevice(d) : q \in Port /\ Leads(q, m)
<1>1. live \in SUBSET Cable
  BY DEF TablesOK
<1>2. PICK q \in PortsOfDevice(d), p \in Port, e \in Device :
        /\ q \in Port /\ p # q /\ {p, q} \in live /\ p \in PortsOfDevice(e)
        /\ ConnectedBy(live \ {{p, q}}, e, m)
  BY <1>1, FirstCable
<1>3. p \in Peers(q)
  <2>1. {q, p} = {p, q}
    OBVIOUS
  <2> QED BY <1>2, <2>1 DEF Peers
<1> QED BY <1>2, <1>3 DEF Leads

LEMMA HostLeads ==
  ASSUME TablesOK, NEW h \in Host, NEW m \in Host, h # m, ConnectedBy(live, h, m)
  PROVE  Leads(h, m)
<1>1. PortsOfDevice(h) = {h} /\ h \in Device /\ m \in Device
  BY DEF PortsOfDevice, Device
<1> QED BY <1>1, OneWayOut

LEMMA OnePeer ==
  ASSUME OneCablePerPort, NEW q \in Port, NEW p \in Peers(q)
  PROVE  \A c \in live : (p \in c \/ q \in c) => c = {p, q}
<1>1. {q, p} \in live /\ {q, p} = {p, q}
  BY DEF Peers
<1> QED BY <1>1 DEF OneCablePerPort

(* The host at the far end of a port that leads to m is m. *)
LEMMA LeadsHere ==
  ASSUME TablesOK, OneCablePerPort, NEW q \in Port, NEW p \in Peers(q), p \in Host,
         NEW m \in Host, Leads(q, m)
  PROVE  p = m
<1>1. PICK r \in Peers(q), d \in Device :
        r \in PortsOfDevice(d) /\ ConnectedBy(live \ {{r, q}}, d, m)
  BY DEF Leads
<1>2. r = p
  <2>1. r \in Port /\ {q, r} \in live /\ r # q
    BY <1>1 DEF Peers
  <2>2. {q, r} = {p, q}
    BY <2>1, OnePeer
  <2> QED BY <2>1, <2>2
<1>3. d = p /\ p \in Device
  <2>1. p \in Port /\ p \in Device
    BY DEF Port, Device
  <2> QED BY <1>1, <1>2, <2>1, PortOwner
<1>4. Closed({p}, live \ {{p, q}})
  <2>1. \A c \in live \ {{p, q}} : ~Touches(c, p)
    BY OnePeer DEF Touches, PortsOfDevice
  <2> QED BY <2>1 DEF Closed
<1> QED BY <1>1, <1>2, <1>3, <1>4 DEF ConnectedBy

(* From the switch at the far end, another of its ports leads on. *)
LEMMA LeadsOn ==
  ASSUME TablesOK, OneCablePerPort, NEW q \in Port, NEW p \in Peers(q),
         NEW s \in Switch, p \in PortsOf(s), NEW m \in Host, Leads(q, m)
  PROVE  \E r \in PortsOf(s) \ {p} : Leads(r, m) /\ IsLive(r)
<1> DEFINE c == {p, q}
<1>1. PICK t \in Peers(q), d \in Device :
        t \in PortsOfDevice(d) /\ ConnectedBy(live \ {{t, q}}, d, m)
  BY DEF Leads
<1>2. t = p
  <2>1. t \in Port /\ {q, t} \in live /\ t # q
    BY <1>1 DEF Peers
  <2>2. {q, t} = {p, q}
    BY <2>1, OnePeer
  <2> QED BY <2>1, <2>2
<1>3. p \in Port /\ s \in Device /\ m \in Device /\ s # m /\ d = s
  <2>1. p \in Port /\ s \in Device /\ m \in Device
    BY DEF Device, Peers
  <2>2. s # m
    BY NamesAssumption
  <2> QED BY <1>1, <1>2, <2>1, <2>2, PortOwner
<1>4. ConnectedBy(live \ {c}, s, m) /\ live \ {c} \in SUBSET Cable
  BY <1>1, <1>2, <1>3 DEF TablesOK
<1>5. PICK r \in PortsOfDevice(s), u \in Port, e \in Device :
        /\ r \in Port /\ u # r /\ {u, r} \in live \ {c} /\ u \in PortsOfDevice(e)
        /\ ConnectedBy((live \ {c}) \ {{u, r}}, e, m)
  <2> HIDE DEF c
  <2> QED BY <1>3, <1>4, FirstCable
<1>6. r # p
  BY <1>5, OnePeer
<1>7. u \in Peers(r)
  <2>1. {r, u} = {u, r}
    OBVIOUS
  <2> QED BY <1>5, <2>1 DEF Peers
<1>8. ConnectedBy(live \ {{u, r}}, e, m)
  <2>1. (live \ {c}) \ {{u, r}} \subseteq live \ {{u, r}}
    OBVIOUS
  <2> HIDE DEF c
  <2> QED BY <1>5, <2>1, MoreCables
<1>9. r \in PortsOf(s)
  BY <1>3, <1>5, PortOwner
<1> QED BY <1>5, <1>6, <1>7, <1>8, <1>9 DEF Leads, IsLive

(* A host that is behind a port is what no other port leads to. *)
LEMMA LeadsBehind ==
  ASSUME TablesOK, live \notin Looped, NEW s \in Switch, NEW q \in PortsOf(s),
         NEW r \in PortsOf(s), NEW m \in Host, Leads(q, m), m \in Behind[live][s][r]
  PROVE  r = q
<1> SUFFICES ASSUME r # q PROVE FALSE
  OBVIOUS
<1>1. PICK p \in Peers(q), d \in Device :
        p \in PortsOfDevice(d) /\ ConnectedBy(live \ {{p, q}}, d, m)
  BY DEF Leads
<1> DEFINE c == {p, q}
           cs == live \ {c}
<1>2. q \in Port /\ r \in Port /\ s \in Device /\ m \in Device /\ live \in SUBSET Cable
  BY PortFacts DEF Port, Device, TablesOK
<1>3. q \in PortsOfDevice(s) /\ r \in PortsOfDevice(s)
  BY <1>2, PortOwner
<1>4. p \in Port /\ c \in live /\ Touches(c, s) /\ Touches(c, d)
  <2>1. {q, p} = {p, q}
    OBVIOUS
  <2> QED BY <1>1, <1>2, <1>3, <2>1, PeerFacts
<1>5. d # s
  <2>1. d = s => c \subseteq PortsOfDevice(s)
    BY <1>1, <1>3
  <2> QED BY <1>2, <1>4, <2>1 DEF Looped
<1>6. r \notin c
  BY <1>1, <1>2, <1>3, <1>4, <1>5, PortOwner
<1>7. Side(live, s, r) \subseteq cs
  BY <1>4, <1>6 DEF Side
<1>8. ConnectedBy(cs, s, m) /\ ConnectedBy(cs, d, m)
  <2>1. ConnectedBy(Side(live, s, r), s, m)
    BY <1>2, BehindMeans
  <2> HIDE DEF cs
  <2> QED BY <1>1, <1>7, <2>1, MoreCables DEF cs
<1>9. ConnectedBy(cs, d, s)
  BY <1>2, <1>8, ConnectedBack, ConnectedOn
<1>10. cs \in SUBSET live /\ c \notin cs
  OBVIOUS
<1> HIDE DEF cs, c
<1> QED BY <1>1, <1>2, <1>4, <1>5, <1>9, <1>10, TwoWaysLoop

(* Where the way to a host is open and the cable leads there, the switch   *)
(* at its far end is on the way, and right about the host.                 *)
LEMMA RightOnTheWay ==
  ASSUME TablesOK, OneCablePerPort, live \notin Looped,
         NEW e \in Emission, NEW p \in Peers(e.port), NEW s \in Switch, p \in PortsOf(s),
         NEW m \in Host, Leads(e.port, m), OpenFrom(e.port, m)
  PROVE  Right(s, m)
<1> DEFINE q == e.port
           c == {p, q}
           cs == live \ {c}
<1>1. PICK t \in Peers(q), b \in Device :
        t \in PortsOfDevice(b) /\ ConnectedBy(live \ {{t, q}}, b, m)
  BY DEF Leads
<1>2. q \in Port /\ p \in Port /\ s \in Device /\ m \in Device /\ live \in SUBSET Cable
  BY DEF Emission, Peers, Device, TablesOK
<1>3. t = p
  <2>1. t \in Port /\ {q, t} \in live /\ t # q
    BY <1>1 DEF Peers
  <2>2. {q, t} = {p, q}
    BY <1>2, <2>1, OnePeer
  <2> QED BY <2>1, <2>2
<1>4. b = s /\ p \in PortsOfDevice(s)
  BY <1>1, <1>2, <1>3, PortOwner
<1>5. PICK d \in Device : q \in PortsOfDevice(d)
  BY <1>2, PortOwner
<1>6. c \in live /\ Touches(c, d) /\ Touches(c, s)
  <2>1. {q, p} = {p, q}
    OBVIOUS
  <2> QED BY <1>2, <1>4, <1>5, <2>1, PeerFacts
<1>7. d # s
  <2>1. d = s => c \subseteq PortsOfDevice(s)
    BY <1>4, <1>5
  <2> QED BY <1>2, <1>6, <2>1 DEF Looped
<1>8. ConnectedBy(cs, s, m) /\ cs \in SUBSET live /\ c \notin cs
  BY <1>1, <1>3, <1>4
<1>9. Around(live, s) \subseteq cs
  BY <1>6 DEF Around
<1> HIDE DEF cs, c
<1>10. ~ConnectedBy(Around(live, s), d, m)
  <2> SUFFICES ASSUME ConnectedBy(Around(live, s), d, m) PROVE FALSE
    OBVIOUS
  <2>1. ConnectedBy(cs, d, m)
    BY <1>9, MoreCables
  <2>2. ConnectedBy(cs, d, s)
    BY <1>2, <1>8, <2>1, ConnectedBack, ConnectedOn
  <2> QED BY <1>2, <1>6, <1>7, <1>8, <2>2, TwoWaysLoop
<1> QED BY <1>5, <1>10, OpenMeans DEF OpenFrom

(* Flooding reaches every other live port. *)
LEMMA FloodsEverywhere ==
  ASSUME NEW s \in Switch, NEW p \in PortsOf(s), NEW f, NEW table, Floods(s, p, f, table),
         NEW out \in Targets(s, p, f, table),
         NEW q \in PortsOf(s), q # p, IsLive(q)
  PROVE  \E i \in DOMAIN out : out[i] = q
<1> DEFINE I == FloodPorts(s, p)
           N == Cardinality(I)
<1>1. PICK g \in Ascending(I) : out = [i \in DOMAIN g |-> Ports[s][g[i]]]
  BY DEF Targets
<1>2. /\ I \subseteq DOMAIN Ports[s] /\ DOMAIN Ports[s] \subseteq Nat
      /\ IsFiniteSet(I) /\ N \in Nat
  BY PortFacts, FS_Subset, FS_CardinalityType, LenProperties DEF FloodPorts
<1>3. g \in [1 .. N -> I] /\ \A i, j \in 1 .. N : i < j => g[i] < g[j]
  BY <1>1 DEF Ascending
<1> HIDE DEF I, N
<1>4. \A i, j \in 1 .. N : g[i] = g[j] => i = j
  <2> TAKE i, j \in 1 .. N
  <2>1. g[i] \in Nat /\ g[j] \in Nat /\ i \in Int /\ j \in Int
    BY <1>2, <1>3
  <2>2. i < j => g[i] < g[j]
    BY <1>3
  <2>3. j < i => g[j] < g[i]
    BY <1>3
  <2> QED BY <2>1, <2>2, <2>3
<1>5. g \in Injection(1 .. N, I)
  BY <1>3, <1>4 DEF Injection, IsInjective
<1>6. Cardinality(1 .. N) = Cardinality(I)
  BY <1>2, FS_Interval DEF N
<1>7. g \in Surjection(1 .. N, I)
  BY <1>2, <1>5, <1>6, FS_Injection
<1>8. PICK k \in DOMAIN Ports[s] : Ports[s][k] = q
  BY DEF PortsOf
<1>9. k \in I
  BY <1>8 DEF I, FloodPorts
<1>10. PICK i \in 1 .. N : g[i] = k
  BY <1>7, <1>9 DEF Surjection
<1> QED BY <1>1, <1>3, <1>8, <1>10

-------------------------------------------------------------------------------
(* A turn that takes emission e off the innermost queue loses nothing else *)
(* and adds what is in out, to that queue while its loop holds a packet.   *)
Passed(e, out) ==
  /\ stack' # <<>>
  /\ \A b \in OnTheWay(stack) : b # e => b \in OnTheWay(stack')
  /\ out \subseteq OnTheWay(stack')
  /\ Top.held # NoPacket =>
       /\ Top'.held = Top.held
       /\ \A b \in EmissionsOf(Top.queue) : b # e => b \in EmissionsOf(Top'.queue)
       /\ out \subseteq EmissionsOf(Top'.queue)

LEMMA ConsedTop ==
  ASSUME NEW l \in LoopType, NEW loops \in Seq(LoopType)
  PROVE  <<l>> \o loops # <<>> /\ Head(<<l>> \o loops) = l
<1>1. Len(loops) \in Nat /\ <<l>> \in Seq(LoopType) /\ Len(<<l>>) = 1 /\ <<l>>[1] = l
  BY LenProperties
<1>2. /\ <<l>> \o loops \in Seq(LoopType)
      /\ Len(<<l>> \o loops) = 1 + Len(loops)
      /\ (<<l>> \o loops)[1] = l
  BY <1>1, ConcatProperties
<1>3. Len(<<l>> \o loops) # 0
  BY <1>1, <1>2
<1>4. <<l>> \o loops # <<>>
  BY <1>2, <1>3, EmptySeq
<1> QED BY <1>2, <1>4, HeadTailProperties

LEMMA PoppedTop ==
  ASSUME stack \in Seq(LoopType), stack # <<>>, Top.queue # <<>>
  PROVE  /\ Head(Popped) \in LoopType
         /\ Head(Popped).held = Top.held
         /\ \A b \in EmissionsOf(Top.queue) :
              b # Head(Top.queue) => b \in EmissionsOf(Head(Popped).queue)
<1> DEFINE l == Loop(Tail(Top.queue), Top.held)
<1>1. Top \in LoopType /\ Below \in Seq(LoopType) /\ Top.queue \in Seq(Emission)
  BY StackParts DEF Top, Below
<1>2. l \in LoopType /\ l.queue = Tail(Top.queue) /\ l.held = Top.held
  BY <1>1, QueueParts DEF Loop, LoopType
<1> HIDE DEF l
<1>3. Head(<<l>> \o Below) = l
  BY <1>1, <1>2, ConsedTop
<1> QED BY <1>1, <1>2, <1>3, QueueParts DEF Popped, l

LEMMA PassedOn ==
  ASSUME stack \in Seq(LoopType), stack # <<>>, Top.queue # <<>>,
         NEW out \in Seq(Emission), stack' = Enqueue(Popped, out)
  PROVE  Passed(Head(Top.queue), EmissionsOf(out))
<1> DEFINE l == Loop(Head(Popped).queue \o out, Head(Popped).held)
<1>1. Popped \in Seq(LoopType) /\ Popped # <<>>
  BY FirstPopped
<1>2. /\ Head(Popped) \in LoopType /\ Tail(Popped) \in Seq(LoopType)
      /\ Head(Popped).queue \in Seq(Emission)
  BY <1>1, StackParts
<1>3. /\ l \in LoopType /\ l.held = Head(Popped).held
      /\ EmissionsOf(l.queue) = EmissionsOf(Head(Popped).queue) \cup EmissionsOf(out)
  BY <1>2, QueueJoined DEF Loop, LoopType
<1> HIDE DEF l
<1>4. stack' = <<l>> \o Tail(Popped)
  BY DEF Enqueue, l
<1>5. stack' # <<>> /\ Top' = l
  BY <1>2, <1>3, <1>4, ConsedTop DEF Top
<1>6. OnTheWay(stack') = OnTheWay(Popped) \cup EmissionsOf(out)
  BY <1>1, Enqueued
<1> QED BY <1>3, <1>5, <1>6, FirstPopped, PoppedTop DEF Passed

LEMMA PassedNothing ==
  ASSUME stack \in Seq(LoopType), stack # <<>>, Top.queue # <<>>, stack' = Popped
  PROVE  Passed(Head(Top.queue), {})
<1>1. Top' = Head(Popped)
  BY DEF Top
<1> QED BY <1>1, FirstPopped, PoppedTop DEF Passed

LEMMA Pushed ==
  ASSUME stack \in Seq(LoopType), stack # <<>>, Top.queue # <<>>, Top.held = NoPacket,
         NEW l \in LoopType, stack' = <<l>> \o Popped
  PROVE  Passed(Head(Top.queue), {}) /\ Top' = l
<1>1. Popped \in Seq(LoopType)
  BY FirstPopped
<1>2. stack' # <<>> /\ Top' = l
  BY <1>1, ConsedTop DEF Top
<1>3. OnTheWay(stack') = EmissionsOf(l.queue) \cup OnTheWay(Popped)
  BY <1>1, StackGrown
<1> QED BY <1>2, <1>3, FirstPopped DEF Passed

(* The first emission of the innermost queue, as delivered to port p. *)
Arriving(e, p) ==
  /\ stack \in Seq(LoopType) /\ stack # <<>> /\ Top.queue # <<>>
  /\ e = Head(Top.queue)
  /\ e \in Emission /\ e \in OnTheWay(stack)
  /\ AtHand(e.frame, Popped)
  /\ Top.held # NoPacket => IsArp(e.frame)
  /\ p \in Peers(e.port)

(* A switch forwards what heads for a host so that it still does. *)
LEMMA ForwardStep ==
  ASSUME IInv, Wire, Addresses, live \notin Looped, UNCHANGED live, Learning,
         NEW e, NEW p, Arriving(e, p), NEW s \in Switch, p \in PortsOf(s),
         SwitchReceives(s, p, e.frame, Popped)
  PROVE  \E out : /\ Passed(e, out)
                  /\ \A m \in Host : HeadsFor(e, m) =>
                       \E b \in out : b.frame = e.frame /\ HeadsFor(b, m)'
<1> DEFINE f == e.frame
           table == Learned(s, p, f)
<1>1. f \in Frame /\ f.src \in Host /\ p \in SwitchPort /\ e.port \in Port
  BY FrameFields, PortFacts DEF Arriving, AtHand, Emission
<1>2. /\ table \in [Switch -> [Host -> SwitchPort \cup {None}]]
      /\ mac' = table /\ OwnPorts'
  BY <1>1, SwitchAnatomy DEF IInv, TablesOK, Learned, Wire, Arriving
<1>3. PICK out \in Targets(s, p, f, table) :
         stack' = Enqueue(Popped, [i \in DOMAIN out |-> Out(out[i], f)])
  BY DEF SwitchReceives
<1> DEFINE q == [i \in DOMAIN out |-> Out(out[i], f)]
<1>4. out \in Seq(SwitchPort)
  BY <1>1, <1>2, <1>3, TargetsTyped
<1>5. q \in Seq(Emission)
  BY <1>4, FanOut DEF Arriving, AtHand, Sound
<1>6. \A i \in DOMAIN out : Out(out[i], f) \in EmissionsOf(q)
  BY DEF EmissionsOf
<1>7. stack' = Enqueue(Popped, q)
  BY <1>3
<1> HIDE DEF q
<1>8. Passed(e, EmissionsOf(q))
  BY <1>5, <1>7, PassedOn DEF Arriving
<1>9. ASSUME NEW m \in Host, HeadsFor(e, m)
      PROVE  \E b \in EmissionsOf(q) : b.frame = f /\ HeadsFor(b, m)'
  <2>1. /\ f.dst \in {m, Broadcast} /\ Leads(e.port, m)
        /\ f.dst = m => OpenFrom(e.port, m)
    BY <1>9 DEF HeadsFor
  <2>2. PICK r \in PortsOf(s) \ {p} : Leads(r, m) /\ IsLive(r)
    BY <1>1, <2>1, LeadsOn DEF IInv, Addresses, Arriving
  <2>3. f.dst = m => Right(s, m)'
    <3>1. f.dst = m => Right(s, m)
      BY <2>1, RightOnTheWay DEF IInv, Addresses, Arriving
    <3> QED BY <3>1, RightStays
  <2>4. \E i \in DOMAIN out : out[i] = r
    <3>1. CASE Floods(s, p, f, table)
      BY <1>3, <2>2, <3>1, FloodsEverywhere
    <3>2. CASE ~Floods(s, p, f, table)
      <4>1. f.dst = m /\ table[s][m] # None
        BY <2>1, <3>2 DEF Floods
      <4>2. table[s][m] \in PortsOf(s) /\ m \in Behind[live][s][table[s][m]]
        BY <1>2, <2>3, <4>1 DEF OwnPorts, Right
      <4>3. table[s][m] = r
        BY <2>2, <4>2, LeadsBehind DEF IInv
      <4>4. out = <<r>>
        BY <1>3, <2>2, <3>2, <4>1, <4>3 DEF Targets
      <4> QED BY <4>4
    <3> QED BY <3>1, <3>2
  <2>5. PICK i \in DOMAIN out : out[i] = r
    BY <2>4
  <2>6. PICK b : b = Out(r, f)
    OBVIOUS
  <2>7. b \in EmissionsOf(q) /\ b.frame = f /\ b.port = r
    BY <1>6, <2>5, <2>6 DEF Out
  <2>8. Leads(b.port, m)'
    BY <2>2, <2>7 DEF Leads, Peers, ConnectedBy
  <2>9. f.dst = m => OpenFrom(b.port, m)'
    <3>1. s \in Device /\ p \in PortsOfDevice(s) /\ r \in Port /\ r \in PortsOfDevice(s)
      BY <1>1, <2>2, PortFacts, PortOwner DEF Port, Device
    <3>2. \A d \in Device : r \in PortsOfDevice(d) => d = s
      BY <3>1, PortOwner
    <3>3. f.dst = m => Open(s, m)'
      BY <2>1, <2>3, <3>1, OpenAcross DEF OpenFrom, Arriving, IInv
    <3> QED BY <2>7, <3>2, <3>3 DEF OpenFrom
  <2> QED BY <2>1, <2>7, <2>8, <2>9 DEF HeadsFor
<1> QED BY <1>8, <1>9

(* A host that answers an ARP question sends the answer. *)
LEMMA AnswerArpPasses ==
  ASSUME IInv, NEW e, NEW p \in Host, Arriving(e, p), AnswerArp(p, e.frame, Popped)
  PROVE  Passed(e, {Out(p, IsAt(p, e.frame))})
<1> DEFINE b == Out(p, IsAt(p, e.frame))
<1>1. b \in Emission
  BY FrameFields, BoundsFacts DEF Arriving, AtHand, Out, IsAt, Emission, Frame, Port
<1>2. stack' = Enqueue(Popped, <<b>>)
  BY DEF AnswerArp
<1> HIDE DEF b
<1>3. <<b>> \in Seq(Emission) /\ EmissionsOf(<<b>>) = {b}
  BY <1>1, QueueOne
<1>4. Passed(e, {b})
  BY <1>2, <1>3, PassedOn DEF Arriving
<1> QED BY <1>4 DEF b

(* A host that answers an echo sends its reply, or asks for its way. *)
LEMMA AnswerEchoPasses ==
  ASSUME IInv, NEW e, NEW p \in Host, Arriving(e, p), AnswerEcho(p, e.frame, Popped)
  PROVE  LET f  == e.frame
             pk == [kind |-> "reply", host |-> p, sip |-> f.dip, dip |-> f.sip, seq |-> f.seq]
         IN \/ /\ arp[p][f.sip] \in Host
               /\ Passed(e, {Out(p, Carry(pk, arp[p][f.sip]))})
            \/ /\ Passed(e, {}) /\ Top'.held = pk /\ pk \in Packet
               /\ Out(p, WhoHas(p, f.sip)) \in EmissionsOf(Top'.queue)
<1> DEFINE f  == e.frame
           pk == [kind |-> "reply", host |-> p, sip |-> f.dip, dip |-> f.sip, seq |-> f.seq]
<1>1. f \in Frame /\ f.kind = "echo" /\ ip[p] = f.dip /\ ~IsArp(f)
  BY DEF Arriving, AtHand, AnswerEcho, Accepts, IsArp
<1>2. f.seq \in 1 .. Count /\ Top.held = NoPacket
  BY <1>1 DEF Arriving, AtHand, Told
<1>3. /\ pk \in Packet /\ pk.host = p /\ pk.dip = f.sip /\ ip[p] \in Ip
  BY <1>1, <1>2, FrameFields DEF Packet
<1>4. CASE arp[p][f.sip] # None
  <2> DEFINE b == Out(p, Carry(pk, arp[p][f.sip]))
  <2>1. arp[p][f.sip] \in Host
    BY <1>1, <1>4, FrameFields DEF IInv, TablesOK
  <2>2. b \in Emission
    BY <1>3, <2>1, BoundsFacts DEF Packet, Out, Carry, Emission, Frame, Port
  <2>3. stack' = Enqueue(Popped, <<b>>)
    BY <1>4 DEF AnswerEcho
  <2> HIDE DEF b
  <2>4. <<b>> \in Seq(Emission) /\ EmissionsOf(<<b>>) = {b}
    BY <2>2, QueueOne
  <2>5. Passed(e, {b})
    BY <2>3, <2>4, PassedOn DEF Arriving
  <2> QED BY <2>1, <2>5 DEF b
<1>5. CASE arp[p][f.sip] = None
  <2>1. stack' = <<Asking(pk)>> \o Popped
    BY <1>5 DEF AnswerEcho
  <2> HIDE DEF pk
  <2>2. /\ Asking(pk) \in LoopType /\ Asking(pk).held = pk
        /\ EmissionsOf(Asking(pk).queue) = {Out(pk.host, WhoHas(pk.host, pk.dip))}
    BY <1>3, Asked
  <2>3. Passed(e, {}) /\ Top' = Asking(pk)
    BY <1>2, <2>1, <2>2, Pushed DEF Arriving
  <2> QED BY <1>3, <2>2, <2>3 DEF pk
<1> QED BY <1>4, <1>5

LEMMA HostPasses ==
  ASSUME IInv, NEW e, NEW p \in Host, Arriving(e, p), HostReceives(p, e.frame, Popped)
  PROVE  \E out : Passed(e, out)
<1>1. CASE AnswerArp(p, e.frame, Popped)
  BY <1>1, AnswerArpPasses
<1>2. CASE AnswerEcho(p, e.frame, Popped)
  BY <1>2, AnswerEchoPasses
<1>3. CASE \/ CacheArp(p, e.frame, Popped) \/ KeepReply(p, e.frame, Popped)
           \/ Discard(p, e.frame, Popped)
  <2>1. stack' = Popped
    BY <1>3 DEF CacheArp, KeepReply, Discard
  <2> QED BY <2>1, PassedNothing DEF Arriving
<1> QED BY <1>1, <1>2, <1>3 DEF HostReceives

-------------------------------------------------------------------------------
(* Progress is made at every turn. *)

LEMMA InboxGrows ==
  ASSUME NEW h, NEW f, NEW loops, HostReceives(h, f, loops)
  PROVE  inbox \subseteq inbox'
BY DEF HostReceives, AnswerArp, CacheArp, AnswerEcho, KeepReply, Discard

LEMMA HostPort ==
  ASSUME NEW h \in Host
  PROVE  h \in Device /\ \A d \in Device : h \in PortsOfDevice(d) => d = h
<1>1. h \in Port /\ h \in Device
  BY DEF Port, Device
<1> QED BY <1>1, PortOwner

LEMMA HeadingStays ==
  ASSUME UNCHANGED <<live, ip, ping>>, Learning
  PROVE  /\ \A e : \A m \in Host : HeadsFor(e, m) => HeadsFor(e, m)'
         /\ \A e : Carried(e) => Carried(e)'
         /\ \A e : \A pk \in Packet : \A m \in Host : Question(e, pk, m) => Question(e, pk, m)'
         /\ \A e : \A pk \in Packet : Answer(e, pk) => Answer(e, pk)'
<1>1. \A q, m : Leads(q, m)' <=> Leads(q, m)
  BY DEF Leads, Peers, ConnectedBy
<1>2. \A q : \A m \in Host : OpenFrom(q, m) => OpenFrom(q, m)'
  BY RightStays DEF OpenFrom
<1>3. \A e : \A m \in Host : HeadsFor(e, m) => HeadsFor(e, m)'
  BY <1>1, <1>2 DEF HeadsFor
<1>4. \A pk \in Packet : pk.host \in Host
  BY DEF Packet
<1> QED BY <1>3, <1>4 DEF Carried, Question, Answer

LEMMA ResolvingNext ==
  ASSUME UNCHANGED <<live, ip, ping>>, stack' # <<>>, NEW pk \in Packet, NEW m \in Host,
         Top'.held = pk,
         m # pk.host, ip[m] = pk.dip, ConnectedBy(live, pk.host, m),
         \/ arp'[pk.host][pk.dip] # None /\ Open(pk.host, m)'
         \/ \E b \in EmissionsOf(Top'.queue) : Question(b, pk, m)' \/ Answer(b, pk)'
  PROVE  Progress'
<1>1. pk # NoPacket
  BY PacketIsOne
<1>2. ip'[m] = pk.dip /\ ConnectedBy(live, pk.host, m)'
  BY DEF ConnectedBy
<1> QED BY <1>1, <1>2 DEF Resolving, Progress

(* What is right about a host is so at the other end of a cable.           *)
LEMMA HostOpens ==
  ASSUME IInv, NEW e \in Emission, NEW p \in Peers(e.port), p \in Host, NEW m \in Host,
         OpenFrom(e.port, m), UNCHANGED <<live, mac>>
  PROVE  Open(p, m)' /\ Learning
<1>1. Learning
  BY DEF Learning
<1>2. p \in Device /\ p \in PortsOfDevice(p) /\ p \notin Switch
  BY NamesAssumption DEF Device, PortsOfDevice
<1> QED BY <1>1, <1>2, OpenAcross DEF OpenFrom, IInv

(* A request that arrives is answered. *)
LEMMA EchoArrives ==
  ASSUME IInv, Wire, Ways, live \notin Looped, ArpTableTruthful, Addresses,
         NEW e, NEW p \in Host, Arriving(e, p), e.frame.kind = "echo",
         Accepts(p, e.frame), HostReceives(p, e.frame, Popped),
         ping # NoPing, UNCHANGED <<live, ip, ping>>
  PROVE  Progress'
<1> DEFINE f  == e.frame
           pk == [kind |-> "reply", host |-> p, sip |-> f.dip, dip |-> f.sip, seq |-> f.seq]
           a  == ping.host
<1>1. /\ f \in Frame /\ ip[p] = f.dip /\ e.port \in Port
      /\ Addressed(e) /\ Truthful(e) /\ Trail(e) /\ UNCHANGED mac
  BY DEF Arriving, AtHand, Emission, Accepts, Addresses, Wire, Ways, HostReceives
<1>2. ~IsArp(f) /\ Told(f, ping, answered)
  BY DEF IsArp, Arriving, AtHand
<1>3. /\ Pinging /\ a \in Host /\ ip[a] \in Ip /\ ip[a] # ping.target /\ ip[a] # None
  BY NoneFacts DEF IInv, Idle, Pinging, Addresses
<1>4. f.sip = ip[a] /\ f.src = a /\ f.dip = ping.target
  BY <1>1, <1>2 DEF Addressed, Truthful, Told
<1>5. p # a
  BY <1>1, <1>3, <1>4
<1>6. ConnectedBy(live, p, a)
  <2>1. p \in Device /\ p \in PortsOfDevice(p)
    BY DEF Device, PortsOfDevice
  <2> QED BY <1>1, <1>4, <2>1, ArrivesConnected DEF Arriving
<1>7. Leads(p, a)'
  <2>1. Leads(p, a)
    BY <1>3, <1>5, <1>6, HostLeads DEF IInv
  <2> QED BY <2>1 DEF Leads, Peers, ConnectedBy
<1>8. OpenFrom(p, a)'
  <2>1. Open(p, a)'
    BY <1>1, <1>3, <1>4, HostOpens DEF Trail, OpenFrom, Arriving
  <2> QED BY <2>1, HostPort DEF OpenFrom
<1>9. AnswerEcho(p, f, Popped)
  BY <1>1 DEF HostReceives, AnswerArp, CacheArp, KeepReply, Discard, Accepts
<1>10. CASE /\ arp[p][f.sip] \in Host
            /\ Passed(e, {Out(p, Carry(pk, arp[p][f.sip]))})
  <2>1. arp[p][f.sip] = a
    BY <1>1, <1>3, <1>4, <1>10, FrameFields, NoneFacts
       DEF ArpTableTruthful, Addresses, OneHostPerAddress
  <2>2. PICK b : b = Out(p, Carry(pk, arp[p][f.sip]))
    OBVIOUS
  <2>3. b.port = p /\ b.frame.kind = "reply" /\ b.frame.dst = a
    BY <2>1, <2>2 DEF Out, Carry
  <2>4. Carried(b)'
    BY <1>3, <1>7, <1>8, <2>3 DEF Carried, HeadsFor
  <2>5. b \in OnTheWay(stack')
    BY <1>10, <2>2 DEF Passed
  <2> QED BY <2>4, <2>5 DEF Progress
<1>11. CASE /\ Passed(e, {}) /\ Top'.held = pk /\ pk \in Packet
            /\ Out(p, WhoHas(p, f.sip)) \in EmissionsOf(Top'.queue)
  <2>1. PICK x : x = pk
    OBVIOUS
  <2>2. PICK m \in Host : m = a
    BY <1>3
  <2>3. PICK b : b = Out(p, WhoHas(p, f.sip))
    OBVIOUS
  <2>4. x.host = p /\ x.dip = f.sip
    BY <2>1
  <2>5. /\ b.port = p /\ b.frame.kind = "who-has" /\ b.frame.src = p
        /\ b.frame.dip = f.sip /\ b.frame.dst = Broadcast
    BY <2>3 DEF Out, WhoHas
  <2>6. Question(b, x, m)'
    BY <1>7, <1>8, <2>2, <2>4, <2>5 DEF Question, HeadsFor
  <2>7. m # x.host /\ ip[m] = x.dip /\ ConnectedBy(live, x.host, m)
    BY <1>4, <1>5, <1>6, <2>2, <2>4
  <2>8. Top'.held = x /\ x \in Packet /\ b \in EmissionsOf(Top'.queue) /\ stack' # <<>>
    BY <1>11, <2>1, <2>3 DEF Passed
  <2> HIDE DEF pk, a
  <2> QED BY <2>6, <2>7, <2>8, ResolvingNext
<1> QED BY <1>9, <1>10, <1>11, AnswerEchoPasses

(* So it is at the host it was carried to, and a reply is kept by it.      *)
LEMMA CarriedArrives ==
  ASSUME IInv, Wire, Ways, live \notin Looped, ArpTableTruthful, Addresses,
         NEW e, NEW p \in Host, Arriving(e, p), Carried(e), HostReceives(p, e.frame, Popped),
         ping # NoPing, UNCHANGED <<live, ip, ping>>
  PROVE  Progress'
<1> DEFINE f == e.frame
<1>1. /\ f \in Frame /\ f.kind \in {"echo", "reply"} /\ e.port \in Port
      /\ f.dst \in Host /\ ip[f.dst] = f.dip /\ Leads(e.port, f.dst)
      /\ Addressed(e) /\ Truthful(e)
  BY DEF Arriving, AtHand, Emission, Carried, HeadsFor, Addresses, Addressed, Wire
<1>2. p = f.dst
  BY <1>1, LeadsHere DEF IInv, Addresses, Arriving
<1>3. Accepts(p, f) /\ ~IsArp(f) /\ Told(f, ping, answered)
  BY <1>1, <1>2 DEF Accepts, IsArp, Arriving, AtHand
<1>4. /\ Pinging /\ ping.host \in Host /\ ip[ping.host] \in Ip
      /\ ip[ping.host] # ping.target /\ ip[ping.host] # None
  BY NoneFacts DEF IInv, Idle, Pinging, Addresses
<1>5. CASE f.kind = "reply"
  <2>1. p = ping.host
    BY <1>1, <1>2, <1>4, <1>5 DEF Addresses, Addressed, OneHostPerAddress
  <2>2. KeepReply(p, f, Popped)
    BY <1>3, <1>5 DEF HostReceives, AnswerArp, CacheArp, AnswerEcho, Discard, Accepts
  <2>3. ping.sent \in inbox'
    BY <1>3, <2>1, <2>2 DEF KeepReply, Told
  <2> QED BY <2>3 DEF Progress
<1>6. CASE f.kind = "echo"
  BY <1>3, <1>6, EchoArrives
<1> QED BY <1>1, <1>5, <1>6

(* A question that arrives is answered, an answer that arrives is cached.  *)
LEMMA QuestionArrives ==
  ASSUME IInv, Wire, Ways, live \notin Looped, Addresses,
         NEW e, NEW p \in Host, Arriving(e, p), HostReceives(p, e.frame, Popped),
         UNCHANGED <<live, ip, ping>>,
         NEW pk \in Packet, Top.held = pk, NEW m \in Host, m # pk.host, ip[m] = pk.dip,
         ConnectedBy(live, pk.host, m), Question(e, pk, m)
  PROVE  Progress'
<1> DEFINE f == e.frame
<1>1. /\ f.kind = "who-has" /\ f.src = pk.host /\ f.dip = pk.dip /\ Leads(e.port, m)
      /\ f.dst = Broadcast /\ e.port \in Port /\ pk.host \in Host
  BY DEF Question, HeadsFor, Addresses, Addressed, Arriving, Emission, Packet
<1>2. p = m
  BY <1>1, LeadsHere DEF IInv, Addresses, Arriving
<1>3. Accepts(m, f)
  BY <1>1 DEF Accepts
<1>4. AnswerArp(m, f, Popped)
  BY <1>1, <1>2, <1>3 DEF HostReceives, CacheArp, AnswerEcho, KeepReply, Discard, Accepts
<1>5. Passed(e, {Out(m, IsAt(m, f))})
  BY <1>2, <1>4, AnswerArpPasses
<1>6. pk # NoPacket
  BY PacketIsOne
<1>7. Leads(m, pk.host)'
  <2>1. m \in Device /\ pk.host \in Device
    BY <1>1 DEF Device
  <2>2. ConnectedBy(live, m, pk.host)
    BY <2>1, ConnectedBack
  <2>3. Leads(m, pk.host)
    BY <1>1, <2>2, HostLeads DEF IInv
  <2> QED BY <2>3 DEF Leads, Peers, ConnectedBy
<1>8. OpenFrom(m, pk.host)'
  <2>1. Open(m, pk.host)'
    BY <1>1, <1>2, HostOpens DEF Ways, Trail, OpenFrom, Arriving, HostReceives
  <2> QED BY <2>1, HostPort DEF OpenFrom
<1>9. PICK b : b = Out(m, IsAt(m, f))
  OBVIOUS
<1>10. /\ b.port = m /\ b.frame.kind = "is-at" /\ b.frame.sip = pk.dip
       /\ b.frame.dst = pk.host
  BY <1>1, <1>9 DEF Out, IsAt
<1>11. Answer(b, pk)'
  BY <1>1, <1>7, <1>8, <1>10 DEF Answer, HeadsFor
<1>12. Top'.held = pk /\ stack' # <<>> /\ b \in EmissionsOf(Top'.queue)
  BY <1>5, <1>6, <1>9 DEF Passed
<1> QED BY <1>11, <1>12, ResolvingNext

LEMMA AnswerArrives ==
  ASSUME IInv, Wire, Ways, live \notin Looped, Addresses,
         NEW e, NEW p \in Host, Arriving(e, p), HostReceives(p, e.frame, Popped),
         UNCHANGED <<live, ip, ping>>,
         NEW pk \in Packet, Top.held = pk, NEW m \in Host, m # pk.host, ip[m] = pk.dip,
         ConnectedBy(live, pk.host, m), Answer(e, pk)
  PROVE  Progress'
<1> DEFINE f == e.frame
<1>1. /\ f.kind = "is-at" /\ f.sip = pk.dip /\ f.dst = pk.host /\ Leads(e.port, pk.host)
      /\ f.src \in Host /\ e.port \in Port /\ pk.host \in Host /\ pk.dip \in Ip
  BY FrameFields DEF Answer, HeadsFor, Arriving, AtHand, Emission, Packet
<1>2. p = pk.host
  BY <1>1, LeadsHere DEF IInv, Addresses, Arriving
<1>3. CacheArp(p, f, Popped)
  BY <1>1, <1>2 DEF HostReceives, AnswerArp, AnswerEcho, KeepReply, Discard
<1>4. arp'[pk.host][pk.dip] # None
  <2>1. arp' = [arp EXCEPT ![pk.host][pk.dip] = f.src]
    BY <1>1, <1>2, <1>3 DEF CacheArp
  <2> QED BY <1>1, <2>1, NoneFacts DEF IInv, TablesOK
<1>5. Passed(e, {})
  <2>1. stack' = Popped
    BY <1>3 DEF CacheArp
  <2> QED BY <2>1, PassedNothing DEF Arriving
<1>6. pk # NoPacket
  BY PacketIsOne
<1>7. Top'.held = pk /\ stack' # <<>>
  BY <1>5, <1>6 DEF Passed
<1>8. f.src = m
  <2>1. ip[f.src] = f.sip /\ f.sip \in Ip
    BY FrameFields DEF Wire, Truthful, Arriving, AtHand
  <2> QED BY <1>1, <2>1, NoneFacts DEF Addresses, OneHostPerAddress
<1>9. Open(pk.host, m)'
  BY <1>1, <1>2, <1>8, HostOpens DEF Ways, Trail, OpenFrom, Arriving, HostReceives
<1> QED BY <1>4, <1>7, <1>9, ResolvingNext

(* The cache never forgets during a command. *)
LEMMA ArpGrows ==
  ASSUME IInv, NEW h, NEW e, NEW p, Arriving(e, p),
         \/ h \in Host /\ HostReceives(h, e.frame, Popped)
         \/ \E s \in Switch : SwitchReceives(s, h, e.frame, Popped),
         NEW g \in Host, NEW i \in Ip, arp[g][i] # None
  PROVE  arp'[g][i] # None
<1>1. e.frame.src \in Host /\ e.frame.sip \in Ip /\ AtHand(e.frame, Popped)
  BY FrameFields DEF Arriving, AtHand
<1>2. arp' = arp \/ (h \in Host /\ arp' = [arp EXCEPT ![h][e.frame.sip] = e.frame.src])
  <2>1. CASE h \in Host /\ HostReceives(h, e.frame, Popped)
    BY <1>1, <2>1, HostAnatomy
  <2>2. CASE \E s \in Switch : SwitchReceives(s, h, e.frame, Popped)
    BY <2>2 DEF SwitchReceives
  <2> QED BY <2>1, <2>2
<1> QED BY <1>1, <1>2, NoneFacts DEF IInv, TablesOK

LEMMA DeliverProgress ==
  ASSUME IInv, Wire, Ways, live \notin Looped, ArpTableTruthful, Addresses,
         ping # NoPing, Progress, Deliver
  PROVE  Progress'
<1>1. PICK e : e = Head(Top.queue)
  OBVIOUS
<1>2. PICK p \in Peers(e.port) :
        \/ p \in Host /\ HostReceives(p, e.frame, Popped)
        \/ \E s \in Switch : p \in PortsOf(s) /\ SwitchReceives(s, p, e.frame, Popped)
  BY <1>1 DEF Deliver
<1>3. Arriving(e, p) /\ UNCHANGED <<live, ip, ping>> /\ Learning
  <2>1. stack # <<>> /\ Top.queue # <<>> /\ UNCHANGED <<live, ip, ping>>
    BY DEF Deliver
  <2> QED BY <1>1, <1>2, <2>1, DeliverLearns, FrameAtHand, FirstPopped, NestedTyped
          DEF AtHand, Arriving, IInv
<1>4. PICK out :
        /\ Passed(e, out)
        /\ \/ p \in Host /\ HostReceives(p, e.frame, Popped)
           \/ \A m \in Host : HeadsFor(e, m) =>
                \E b \in out : b.frame = e.frame /\ HeadsFor(b, m)'
  <2>1. CASE p \in Host /\ HostReceives(p, e.frame, Popped)
    BY <1>3, <2>1, HostPasses
  <2>2. ASSUME NEW s \in Switch, p \in PortsOf(s), SwitchReceives(s, p, e.frame, Popped)
        PROVE  \E o : /\ Passed(e, o)
                      /\ \A m \in Host : HeadsFor(e, m) =>
                           \E b \in o : b.frame = e.frame /\ HeadsFor(b, m)'
    BY <1>3, <2>2, ForwardStep
  <2> QED BY <1>2, <2>1, <2>2
<1>5. CASE ping.sent \in inbox
  <2>1. inbox \subseteq inbox'
    BY <1>2, InboxGrows DEF SwitchReceives
  <2> QED BY <1>3, <1>5, <2>1 DEF Progress
<1>6. ASSUME NEW b \in OnTheWay(stack), Carried(b) PROVE Progress'
  <2>1. CASE b # e
    <3>1. b \in OnTheWay(stack')
      BY <1>4, <2>1 DEF Passed
    <3> QED BY <1>3, <1>6, <3>1, HeadingStays DEF Progress
  <2>2. CASE b = e /\ p \in Host /\ HostReceives(p, e.frame, Popped)
    BY <1>3, <1>6, <2>2, CarriedArrives
  <2>3. CASE b = e /\ \A m \in Host : HeadsFor(e, m) =>
                        \E x \in out : x.frame = e.frame /\ HeadsFor(x, m)'
    <3>1. HeadsFor(e, e.frame.dst) /\ e.frame.dst \in Host
      BY <1>6, <2>3 DEF Carried, Addresses, Addressed
    <3>2. PICK x \in out : x.frame = e.frame /\ HeadsFor(x, e.frame.dst)'
      BY <2>3, <3>1
    <3>3. Carried(x)' /\ x \in OnTheWay(stack')
      BY <1>4, <1>6, <2>3, <3>1, <3>2 DEF Carried, Passed
    <3> QED BY <3>3 DEF Progress
  <2> QED BY <1>4, <2>1, <2>2, <2>3
<1>7. ASSUME Resolving(Top) PROVE Progress'
  <2>1. PICK pk : pk = Top.held
    OBVIOUS
  <2>2. PICK m \in Host :
          /\ m # pk.host /\ ip[m] = pk.dip /\ ConnectedBy(live, pk.host, m)
          /\ \/ arp[pk.host][pk.dip] # None /\ Open(pk.host, m)
             \/ \E b \in EmissionsOf(Top.queue) : Question(b, pk, m) \/ Answer(b, pk)
    BY <1>7, <2>1 DEF Resolving
  <2>3. pk # NoPacket /\ pk \in Packet /\ pk.host \in Host /\ pk.dip \in Ip
    <3>1. Top \in LoopType /\ pk # NoPacket
      BY <1>3, <1>7, <2>1, StackParts DEF Arriving, Top, Resolving
    <3> QED BY <2>1, <3>1 DEF LoopType, Packet
  <2>4. /\ stack' # <<>> /\ Top'.held = pk
        /\ \A b \in EmissionsOf(Top.queue) : b # e => b \in EmissionsOf(Top'.queue)
        /\ out \subseteq EmissionsOf(Top'.queue)
    BY <1>4, <2>1, <2>3 DEF Passed
  <2>5. CASE arp[pk.host][pk.dip] # None /\ Open(pk.host, m)
    <3>1. arp'[pk.host][pk.dip] # None /\ Open(pk.host, m)'
      BY <1>2, <1>3, <2>3, <2>5, ArpGrows, RightStays
    <3> QED BY <1>3, <2>2, <2>3, <2>4, <3>1, ResolvingNext
  <2>6. ASSUME NEW b \in EmissionsOf(Top.queue), Question(b, pk, m) \/ Answer(b, pk)
        PROVE  Progress'
    <3>1. CASE b # e
      BY <1>3, <2>2, <2>3, <2>4, <2>6, <3>1, HeadingStays, ResolvingNext
    <3>2. CASE b = e /\ p \in Host /\ HostReceives(p, e.frame, Popped)
      BY <1>3, <2>1, <2>2, <2>3, <2>6, <3>2, QuestionArrives, AnswerArrives
    <3>3. CASE b = e /\ \A h \in Host : HeadsFor(e, h) =>
                          \E x \in out : x.frame = e.frame /\ HeadsFor(x, h)'
      <4>1. CASE Question(e, pk, m)
        <5>1. PICK x \in out : x.frame = e.frame /\ HeadsFor(x, m)'
          BY <3>3, <4>1 DEF Question
        <5>2. Question(x, pk, m)'
          BY <4>1, <5>1 DEF Question
        <5> QED BY <1>3, <2>2, <2>3, <2>4, <5>2, ResolvingNext
      <4>2. CASE Answer(e, pk)
        <5>1. PICK x \in out : x.frame = e.frame /\ HeadsFor(x, pk.host)'
          BY <2>3, <3>3, <4>2 DEF Answer
        <5>2. Answer(x, pk)'
          BY <4>2, <5>1 DEF Answer
        <5> QED BY <1>3, <2>2, <2>3, <2>4, <5>2, ResolvingNext
      <4> QED BY <2>6, <3>3, <4>1, <4>2
    <3> QED BY <1>4, <3>1, <3>2, <3>3
  <2> QED BY <2>2, <2>5, <2>6
<1> QED BY <1>5, <1>6, <1>7 DEF Progress

LEMMA DropProgress ==
  ASSUME IInv, Progress, DropFrame
  PROVE  Progress'
<1>1. PICK e : e = Head(Top.queue)
  OBVIOUS
<1>2. /\ stack \in Seq(LoopType) /\ stack # <<>> /\ Top.queue # <<>> /\ stack' = Popped
      /\ Peers(e.port) = {} /\ UNCHANGED <<live, ip, arp, ping, inbox>> /\ Learning
  BY <1>1, NestedTyped DEF DropFrame, IsLive, IInv, Learning
<1>3. Passed(e, {})
  BY <1>1, <1>2, PassedNothing
<1>4. \A m : ~HeadsFor(e, m)
  BY <1>2 DEF HeadsFor, Leads
<1>5. ASSUME NEW b \in OnTheWay(stack), Carried(b) PROVE Progress'
  <2>1. b # e
    BY <1>4, <1>5 DEF Carried
  <2> QED BY <1>2, <1>3, <1>5, <2>1, HeadingStays DEF Progress, Passed
<1>6. ASSUME Resolving(Top) PROVE Progress'
  <2>1. PICK pk : pk = Top.held
    OBVIOUS
  <2>2. PICK m \in Host :
          /\ m # pk.host /\ ip[m] = pk.dip /\ ConnectedBy(live, pk.host, m)
          /\ \/ arp[pk.host][pk.dip] # None /\ Open(pk.host, m)
             \/ \E b \in EmissionsOf(Top.queue) : Question(b, pk, m) \/ Answer(b, pk)
    BY <1>6, <2>1 DEF Resolving
  <2>3. pk # NoPacket /\ pk \in Packet
    BY <1>2, <1>6, <2>1, StackParts DEF Resolving, Top, LoopType
  <2>4. /\ stack' # <<>> /\ Top'.held = pk
        /\ \A b \in EmissionsOf(Top.queue) : b # e => b \in EmissionsOf(Top'.queue)
    BY <1>3, <2>1, <2>3 DEF Passed
  <2>5. \/ arp'[pk.host][pk.dip] # None /\ Open(pk.host, m)'
        \/ \E b \in EmissionsOf(Top'.queue) : Question(b, pk, m) \/ Answer(b, pk)
    BY <1>2, <1>4, <2>2, <2>4, RightStays DEF Question, Answer
  <2>6. \/ arp'[pk.host][pk.dip] # None /\ Open(pk.host, m)'
        \/ \E b \in EmissionsOf(Top'.queue) : Question(b, pk, m)' \/ Answer(b, pk)'
    BY <1>2, <2>3, <2>5, HeadingStays
  <2> QED BY <1>2, <2>2, <2>3, <2>4, <2>6, ResolvingNext
<1> QED BY <1>2, <1>5, <1>6 DEF Progress

(* A loop that returns quietly leaves the address its caller asked for. *)
LEMMA ReturnProgress ==
  ASSUME IInv, ArpTableTruthful, Addresses, Progress, Return, ~storm'
  PROVE  Progress'
<1>1. /\ stack # <<>> /\ stack' = AfterReturn /\ Top.queue = <<>>
      /\ UNCHANGED <<live, ip, arp, ping, inbox>> /\ Learning
  BY DEF Return, Learning
<1>2. /\ stack \in Seq(LoopType) /\ Top \in LoopType
      /\ OnTheWay(stack) = EmissionsOf(Top.queue) \cup OnTheWay(Below)
  BY <1>1, NestedTyped, StackParts DEF IInv, Top, Below
<1>3. EmissionsOf(Top.queue) = {}
  BY <1>1 DEF EmissionsOf
<1>4. ASSUME NEW b \in OnTheWay(stack), Carried(b) PROVE Progress'
  <2>1. b \in OnTheWay(stack')
    BY <1>1, <1>2, <1>3, AfterReturnAnatomy
  <2> QED BY <1>1, <1>4, <2>1, HeadingStays DEF Progress
<1>5. ASSUME Resolving(Top) PROVE Progress'
  <2>1. PICK pk : pk = Top.held
    OBVIOUS
  <2>2. PICK m \in Host : /\ m # pk.host /\ ip[m] = pk.dip /\ ConnectedBy(live, pk.host, m)
                          /\ arp[pk.host][pk.dip] # None /\ Open(pk.host, m)
    BY <1>3, <1>5, <2>1 DEF Resolving
  <2>3. pk \in Packet /\ pk # NoPacket /\ pk.host \in Host /\ pk.dip \in Ip
        /\ pk.kind \in {"echo", "reply"}
    BY <1>2, <1>5, <2>1 DEF Resolving, LoopType, Packet
  <2>4. arp[pk.host][pk.dip] = m
    BY <2>2, <2>3, NoneFacts DEF ArpTableTruthful, Addresses, OneHostPerAddress, IInv, TablesOK
  <2>5. Leads(pk.host, m)
    BY <2>2, <2>3, HostLeads DEF IInv
  <2>6. PICK b : b = Out(pk.host, Carry(pk, m))
    OBVIOUS
  <2>7. b \in OnTheWay(stack')
    BY <1>1, <2>1, <2>2, <2>3, <2>4, <2>6, AfterReturnAnatomy
  <2>8. Carried(b)
    <3>1. b.port = pk.host /\ b.frame.kind = pk.kind /\ b.frame.dst = m
      BY <2>6 DEF Out, Carry
    <3>2. OpenFrom(pk.host, m)
      BY <2>2, <2>3, HostPort DEF OpenFrom
    <3> QED BY <2>3, <2>5, <3>1, <3>2 DEF Carried, HeadsFor
  <2>9. Carried(b)'
    BY <1>1, <2>8, HeadingStays
  <2> QED BY <2>7, <2>9 DEF Progress
<1> QED BY <1>1, <1>4, <1>5 DEF Progress

(* A request that is lost stays so, unless a host that has the address is  *)
(* reached after all.                                                      *)
LEMMA DeliverLost ==
  ASSUME IInv, Wire, Ways, live \notin Looped, ArpTableTruthful, Addresses,
         ping # NoPing, Lost, Deliver
  PROVE  Progress' \/ Lost'
<1>1. PICK e : e = Head(Top.queue)
  OBVIOUS
<1>2. PICK p \in Peers(e.port) :
        \/ p \in Host /\ HostReceives(p, e.frame, Popped)
        \/ \E s \in Switch : p \in PortsOf(s) /\ SwitchReceives(s, p, e.frame, Popped)
  BY <1>1 DEF Deliver
<1>3. Arriving(e, p) /\ UNCHANGED <<live, ip, ping>>
  <2>1. stack # <<>> /\ Top.queue # <<>> /\ UNCHANGED <<live, ip, ping>>
    BY DEF Deliver
  <2> QED BY <1>1, <1>2, <2>1, FrameAtHand, FirstPopped, NestedTyped DEF AtHand, Arriving, IInv
<1>4. /\ e.frame.kind = "echo" /\ e.frame.src = ping.host /\ ping.host \in Host
      /\ OnTheWay(Popped) \subseteq OnTheWay(stack) /\ HeldBack(Popped) = {}
  BY <1>3, FirstPopped, FrameFields DEF Lost, Wire, Truthful, Arriving, AtHand
<1>5. CASE p \in Host /\ HostReceives(p, e.frame, Popped)
  <2>1. CASE Accepts(p, e.frame)
    BY <1>3, <1>4, <1>5, <2>1, EchoArrives
  <2>2. CASE ~Accepts(p, e.frame)
    <3>1. Discard(p, e.frame, Popped) /\ UNCHANGED mac
      BY <1>4, <1>5, <2>2
         DEF HostReceives, AnswerArp, CacheArp, AnswerEcho, KeepReply
    <3>2. stack' = Popped
      BY <3>1 DEF Discard
    <3>3. TargetReachable' <=> TargetReachable
      BY <1>3, <3>1 DEF TargetReachable, Open, Right
    <3> QED BY <1>4, <3>2, <3>3 DEF Lost
  <2> QED BY <2>1, <2>2
<1>6. ASSUME NEW s \in Switch, p \in PortsOf(s), SwitchReceives(s, p, e.frame, Popped)
      PROVE  Lost'
  <2>1. /\ \A b \in OnTheWay(stack') : b \in OnTheWay(Popped) \/ b.frame = e.frame
        /\ HeldBack(stack') = {}
        /\ mac' = [mac EXCEPT ![s][e.frame.src] = p]
    BY <1>3, <1>4, <1>6, SwitchAnatomy DEF Arriving, Wire, Learned
  <2>2. \A h \in Host : ip[h] = ping.target => h # ping.host
    BY DEF Addresses
  <2>3. \A t \in Switch, h \in Host : h # ping.host => mac'[t][h] = mac[t][h]
    BY <1>4, <2>1 DEF IInv, TablesOK
  <2>4. \A h \in Host : h # ping.host => (Open(ping.host, h)' => Open(ping.host, h))
    BY <1>3, <2>3 DEF Open, Right
  <2>5. TargetReachable' => TargetReachable
    BY <1>3, <2>2, <2>4 DEF TargetReachable
  <2> QED BY <1>4, <2>1, <2>5 DEF Lost
<1> QED BY <1>2, <1>5, <1>6

LEMMA QuietLost ==
  ASSUME IInv, Lost, DropFrame \/ Return
  PROVE  Lost'
<1>1. /\ stack # <<>> /\ UNCHANGED <<live, ip, mac, ping>>
      /\ stack \in Seq(LoopType)
  BY NestedTyped DEF DropFrame, Return, IInv
<1>2. OnTheWay(stack') \subseteq OnTheWay(stack) /\ HeldBack(stack') \subseteq HeldBack(stack)
  <2>1. CASE DropFrame
    BY <1>1, <2>1, FirstPopped DEF DropFrame
  <2>2. CASE Return
    BY <1>1, <2>2, AfterReturnAnatomy DEF Return, Lost
  <2> QED BY <2>1, <2>2
<1>3. TargetReachable' <=> TargetReachable
  BY <1>1 DEF TargetReachable, Open, Right
<1> QED BY <1>2, <1>3 DEF Lost

LEMMA SendProgress ==
  ASSUME IInv, ArpTableTruthful, Addresses, SendEcho, TargetConnected
  PROVE  Progress' \/ Lost'
<1>1. /\ Echo \in Packet /\ Echo.kind = "echo" /\ Echo.host = ping.host
      /\ Echo.dip = ping.target
      /\ ping.host \in Host /\ ping.target \in Ip /\ ip[ping.host] \in Ip
      /\ ping'.host = ping.host /\ ping'.target = ping.target
  BY EchoFacts
<1>2. UNCHANGED <<live, ip, arp, mac>> /\ ping # NoPing
  BY DEF SendEcho
<1>3. PICK a \in Host, m \in Host :
        a = ping.host /\ ip[m] = ping.target /\ m # a /\ ConnectedBy(live, a, m)
  <2>1. PICK h \in Host : ip[h] = ping.target /\ <<ping.host, h>> \in Connected[live]
    BY DEF TargetConnected
  <2>2. live \in SUBSET Cable
    BY DEF IInv, TablesOK
  <2>3. ConnectedBy(live, ping.host, h)
    BY <2>1, <2>2 DEF Connected
  <2>4. h # ping.host
    BY <1>2, <2>1 DEF Addresses
  <2> QED BY <1>1, <2>1, <2>3, <2>4
<1>4. Leads(a, m)
  BY <1>3, HostLeads DEF IInv
<1>5. \A q : Leads(q, m)' <=> Leads(q, m)
  BY <1>2 DEF Leads, Peers, ConnectedBy
<1>6. PICK pk \in Packet : pk = Echo
  BY <1>1
<1>7. CASE arp[ping.host][ping.target] # None
  <2>1. arp[ping.host][ping.target] = m
    BY <1>1, <1>3, <1>7, NoneFacts
       DEF ArpTableTruthful, Addresses, OneHostPerAddress, IInv, TablesOK
  <2>2. PICK b : b = Out(a, Carry(pk, m))
    OBVIOUS
  <2>3. b.frame.kind = "echo" /\ b.frame.dst = m /\ b.port = a
    BY <1>1, <1>6, <2>2 DEF Out, Carry
  <2>4. OnTheWay(stack') = {b} /\ HeldBack(stack') = {}
    BY <1>3, <1>6, <1>7, <2>1, <2>2, SendAnatomy
  <2>5. CASE Open(a, m)
    <3>1. OpenFrom(a, m)'
      BY <1>2, <1>3, <2>5, HostPort DEF OpenFrom, Open, Right
    <3>2. Carried(b)'
      BY <1>4, <1>5, <2>3, <3>1 DEF Carried, HeadsFor
    <3> QED BY <2>4, <3>2 DEF Progress
  <2>6. CASE ~Open(a, m)
    <3>1. \A h \in Host : ip[h] = ping.target => h = m
      BY <1>1, <1>3, NoneFacts DEF Addresses, OneHostPerAddress
    <3>2. ~TargetReachable'
      BY <1>1, <1>2, <1>3, <2>6, <3>1 DEF TargetReachable, Open, Right
    <3> QED BY <2>3, <2>4, <3>2 DEF Lost
  <2> QED BY <2>5, <2>6
<1>8. CASE arp[ping.host][ping.target] = None
  <2>1. PICK l : l = Asking(Echo)
    OBVIOUS
  <2>2. PICK b : b = Out(a, WhoHas(a, pk.dip))
    OBVIOUS
  <2>3. l \in LoopType /\ EmissionsOf(l.queue) = {b} /\ l.held = pk
    <3>1. /\ Asking(pk) \in LoopType /\ Asking(pk).held = pk
          /\ EmissionsOf(Asking(pk).queue) = {Out(pk.host, WhoHas(pk.host, pk.dip))}
      BY <1>1, <1>6, Asked
    <3> QED BY <1>1, <1>3, <1>6, <2>1, <2>2, <3>1
  <2>4. stack' = <<l>>
    BY <1>8, <2>1 DEF SendEcho, Echo
  <2>5. stack' # <<>> /\ Top' = l
    BY <2>3, <2>4, Pairs DEF Top
  <2>6. /\ b.frame.kind = "who-has" /\ b.frame.src = a /\ b.frame.dip = pk.dip
        /\ b.frame.dst = Broadcast /\ b.port = a
    BY <2>2 DEF Out, WhoHas
  <2>7. Question(b, pk, m)'
    BY <1>1, <1>3, <1>4, <1>5, <1>6, <2>6, BroadcastAssumption
       DEF Question, HeadsFor, Broadcast
  <2>8. m # pk.host /\ ip'[m] = pk.dip /\ ConnectedBy(live, pk.host, m)' /\ pk # NoPacket
    BY <1>1, <1>2, <1>3, <1>6, PacketIsOne DEF ConnectedBy
  <2>9. Resolving(Top)'
    BY <2>3, <2>5, <2>7, <2>8 DEF Resolving
  <2> QED BY <2>5, <2>9 DEF Progress
<1> QED BY <1>7, <1>8

LEMMA NextQuest ==
  ASSUME IInv, Wire, Ways, ArpTableTruthful, Addresses, Quest, [Next]_vars
  PROVE  Quest'
<1>1. CASE EngineStep
  <2>1. UNCHANGED <<live, ip, ping>> /\ (storm => storm') /\ stack # <<>>
    <3>1. CASE Deliver
      BY <3>1, Zenon DEF Deliver
    <3>2. CASE DropFrame
      BY <3>2, Zenon DEF DropFrame
    <3>3. CASE Return
      BY <3>3, Zenon DEF Return
    <3> QED BY <1>1, <3>1, <3>2, <3>3 DEF EngineStep
  <2>2. TargetConnected' <=> TargetConnected
    BY <2>1 DEF TargetConnected
  <2>3. ping # NoPing
    BY <2>1, NoPingIsIdle DEF Idle
  <2>4. ASSUME ping.sent > 0, TargetConnected, ~storm', live \notin Looped
        PROVE  Progress' \/ Lost'
    <3>1. Progress \/ Lost
      BY <2>1, <2>4 DEF Quest
    <3>2. CASE Progress
      BY <1>1, <2>3, <2>4, <3>2, DeliverProgress, DropProgress, ReturnProgress DEF EngineStep
    <3>3. CASE Lost
      BY <1>1, <2>3, <2>4, <3>3, DeliverLost, QuietLost DEF EngineStep
    <3> QED BY <3>1, <3>2, <3>3
  <2> QED BY <2>1, <2>2, <2>4 DEF Quest
<1>2. CASE SendEcho
  <2>1. ping'.host = ping.host /\ ping'.target = ping.target /\ UNCHANGED <<live, ip>>
    BY <1>2, EchoFacts DEF SendEcho
  <2>2. TargetConnected' => TargetConnected
    BY <2>1 DEF TargetConnected
  <2> QED BY <1>2, <2>2, SendProgress DEF Quest
<1>3. CASE Finish \/ UserStep \/ \E h \in Host, i \in Ip : StartPing(h, i)
  <2>1. ping'.sent = 0
    BY <1>3 DEF Finish, StartPing, UserStep, ClearArp, ClearMac, ChangeCable, ChangeAddress,
                NoPing
  <2> QED BY <2>1 DEF Quest
<1>4. CASE UNCHANGED vars
  <2>1. UNCHANGED <<live, ip, arp, mac, stack, storm, ping, inbox>> /\ Learning
    BY <1>4 DEF vars, Learning
  <2>2. TargetReachable' <=> TargetReachable
    BY <2>1 DEF TargetReachable, Open, Right
  <2>3. Progress => Progress'
    <3>1. \A q, m : Leads(q, m)' <=> Leads(q, m)
      BY <2>1 DEF Leads, Peers, ConnectedBy
    <3>2. \A d, m : Open(d, m)' <=> Open(d, m)
      BY <2>1 DEF Open, Right
    <3>3. \A e, m : HeadsFor(e, m)' <=> HeadsFor(e, m)
      BY <3>1, <3>2 DEF HeadsFor, OpenFrom
    <3>4. /\ \A e : Carried(e)' <=> Carried(e)
          /\ \A e, pk, m : Question(e, pk, m)' <=> Question(e, pk, m)
          /\ \A e, pk : Answer(e, pk)' <=> Answer(e, pk)
      BY <3>3 DEF Carried, Question, Answer
    <3>5. \A d, m : ConnectedBy(live, d, m)' <=> ConnectedBy(live, d, m)
      BY <2>1 DEF ConnectedBy
    <3>6. \A l : Resolving(l) => Resolving(l)'
      BY <2>1, <3>2, <3>4, <3>5 DEF Resolving
    <3> QED BY <2>1, <3>4, <3>6 DEF Progress, Top
  <2>4. Lost => Lost'
    BY <2>1, <2>2 DEF Lost
  <2> QED BY <2>1, <2>3, <2>4 DEF Quest, TargetConnected
<1> QED BY <1>1, <1>2, <1>3, <1>4 DEF Next, CommandStep

-------------------------------------------------------------------------------
(* What was heard or is under way when the loops have returned. *)
LEMMA ReturnedTruth ==
  ASSUME IInv, Ways, Quest
  PROVE  storm \/ PingTellsTruth
<1> SUFFICES ASSUME ~storm, ping # NoPing, stack = <<>>, ping.sent > 0, live \notin Looped
             PROVE  ping.sent \in inbox <=> TargetReachable
  BY DEF PingTellsTruth
<1>1. OnTheWay(stack) = {}
  BY NothingOnTheWay
<1>2. ping.host \in Host /\ live \in SUBSET Cable
  BY DEF IInv, Idle, Pinging, TablesOK
<1>3. TargetReachable => ping.sent \in inbox
  <2>1. TargetReachable => TargetConnected
    BY DEF TargetReachable, TargetConnected
  <2> QED BY <1>1, <2>1 DEF Quest, Progress, Lost
<1>4. ASSUME ping.sent \in inbox PROVE TargetReachable
  <2>1. PICK h \in Host : /\ ip[h] = ping.target /\ ConnectedBy(live, ping.host, h)
                          /\ Open(ping.host, h)
    BY <1>4 DEF Ways, Heard
  <2>2. <<ping.host, h>> \in Connected[live]
    BY <1>2, <2>1 DEF Connected
  <2> QED BY <2>1, <2>2 DEF TargetReachable
<1> QED BY <1>3, <1>4

(* Where every host keeps an address of its own, on any LAN: while no live *)
(* cables make a loop, and unless a storm is reported, a request is        *)
(* answered exactly when its target is connected and no switch on the way  *)
(* has it on a port it is not behind (run_ping).  Hosts may have been      *)
(* cabled to other ports and loops been closed and broken between the      *)
(* commands; nothing else that hosts and switches hold from then can cost  *)
(* a reply.                                                                *)
THEOREM PingsTellTheTruth ==
  ASSUME "address" \notin Edits,
         \A a \in Addressings, g \in Host, h \in Host : a[g] # None /\ a[g] = a[h] => g = h
  PROVE  Spec => [](storm \/ PingTellsTruth)
<1>1. Init => Addresses /\ Quest
  BY NothingOnTheWay DEF Init, Addresses, OneCablePerPort, OneHostPerAddress, NoPing, Quest
<1>2. (IInv /\ Wire) /\ ArpTableTruthful /\ Addresses /\ [Next]_vars => Addresses'
  BY NextAddresses
<1>3. (IInv /\ Wire) /\ Ways /\ ArpTableTruthful /\ Addresses /\ Quest /\ [Next]_vars
        => Quest'
  BY NextQuest
<1>4. Spec => []ArpTableTruthful
  BY ArpTablesAreTrue
<1>5. IInv /\ Ways /\ Quest => storm \/ PingTellsTruth
  BY ReturnedTruth
<1> QED BY <1>1, <1>2, <1>3, <1>4, <1>5, AlwaysWire, AlwaysWays, PTL DEF Spec

-------------------------------------------------------------------------------
(* What is ahead of a frame where no live cables make a loop.              *)

(* The cables ahead of a frame that leaves by port q: all it could cross.  *)
Ahead(q) ==
  {c \in live : \E p \in Peers(q), d \in Device, e \in Device :
     /\ p \in PortsOfDevice(d) /\ Touches(c, e)
     /\ ConnectedBy(live \ {{p, q}}, d, e)}

(* From a device that s cannot be reached from, a way past s needs none of *)
(* its cables.                                                             *)
LEMMA WayAround ==
  ASSUME NEW cables, NEW d \in Device, NEW e, NEW s \in Device,
         ConnectedBy(cables, d, e), ~ConnectedBy(cables, d, s)
  PROVE  ConnectedBy(cables \ At(cables, s), d, e)
<1>1. PICK here \in SUBSET Device : d \in here /\ Closed(here, cables) /\ s \notin here
  BY DEF ConnectedBy
<1> SUFFICES ASSUME NEW devices \in SUBSET Device, d \in devices,
                    Closed(devices, cables \ At(cables, s))
             PROVE  e \in devices
  BY DEF ConnectedBy
<1>2. Closed(devices \cap here, cables)
  <2> SUFFICES ASSUME NEW k \in cables, NEW x \in devices \cap here, NEW y \in Device,
                      Touches(k, x), Touches(k, y)
               PROVE  y \in devices \cap here
    BY DEF Closed
  <2>1. y \in here /\ ~Touches(k, s)
    BY <1>1 DEF Closed
  <2>2. k \in cables \ At(cables, s)
    BY <2>1 DEF At
  <2> QED BY <2>1, <2>2 DEF Closed
<1> QED BY <1>1, <1>2 DEF ConnectedBy

(* The device at the far end of a switch's cable has no other way back. *)
LEMMA FarEnd ==
  ASSUME TablesOK, live \notin Looped, NEW s \in Switch, NEW r \in PortsOf(s),
         NEW u \in Peers(r), NEW d \in Device, u \in PortsOfDevice(d)
  PROVE  /\ r \in Port /\ s \in Device /\ r \in PortsOfDevice(s)
         /\ {u, r} \in live /\ Touches({u, r}, s) /\ Touches({u, r}, d)
         /\ ~ConnectedBy(live \ {{u, r}}, d, s)
<1>1. r \in Port /\ s \in Device
  BY PortFacts DEF Port, Device
<1>2. r \in PortsOfDevice(s)
  BY <1>1, PortOwner
<1>3. {u, r} \in live /\ Touches({u, r}, s) /\ Touches({u, r}, d)
  BY <1>1, <1>2, PeerFacts
<1>4. live \in SUBSET Cable
  BY DEF TablesOK
<1>5. d # s
  <2>1. d = s => {u, r} \subseteq PortsOfDevice(s)
    BY <1>2
  <2> QED BY <1>1, <1>3, <1>4, <2>1 DEF Looped
<1>6. ~ConnectedBy(live \ {{u, r}}, d, s)
  <2>1. PICK c : c = {u, r}
    OBVIOUS
  <2> QED BY <1>1, <1>3, <1>4, <1>5, <2>1, TwoWaysLoop
<1> QED BY <1>1, <1>2, <1>3, <1>6

LEMMA AheadHere ==
  ASSUME TablesOK, NEW q \in Port, NEW p \in Peers(q)
  PROVE  {p, q} \in Ahead(q) /\ Ahead(q) \subseteq live
<1>1. p \in Port
  BY PeerFacts
<1>2. PICK d \in Device, b \in Device : p \in PortsOfDevice(d) /\ q \in PortsOfDevice(b)
  BY <1>1, PortOwner
<1>3. {p, q} \in live /\ Touches({p, q}, d)
  BY <1>2, PeerFacts
<1>4. ConnectedBy(live \ {{p, q}}, d, d)
  BY ConnectedToItself
<1> QED BY <1>2, <1>3, <1>4 DEF Ahead

(* What is ahead of a switch's other ports is ahead of where it came from, *)
(* less the cable it came by.                                              *)
LEMMA AheadOn ==
  ASSUME TablesOK, OneCablePerPort, live \notin Looped, NEW q \in Port, NEW p \in Peers(q),
         NEW s \in Switch, p \in PortsOf(s), NEW r \in PortsOf(s), r # p
  PROVE  Ahead(r) \subseteq Ahead(q) \ {{p, q}}
<1> SUFFICES ASSUME NEW k \in Ahead(r) PROVE k \in Ahead(q) /\ k # {p, q}
  OBVIOUS
<1>1. PICK u \in Peers(r), d \in Device, e \in Device :
        /\ k \in live /\ u \in PortsOfDevice(d) /\ Touches(k, e)
        /\ ConnectedBy(live \ {{u, r}}, d, e)
  BY DEF Ahead
<1>2. /\ r \in Port /\ s \in Device /\ {u, r} \in live
      /\ Touches({u, r}, s) /\ Touches({u, r}, d)
      /\ ~ConnectedBy(live \ {{u, r}}, d, s)
  BY <1>1, FarEnd
<1>3. p \in Port /\ p \in PortsOfDevice(s) /\ {p, q} \in live /\ Touches({p, q}, s)
  <2>1. p \in Port /\ {p, q} \in live
    BY PeerFacts
  <2>2. p \in PortsOfDevice(s)
    BY <2>1, PortOwner
  <2> QED BY <2>1, <2>2 DEF Touches
<1>4. {p, q} # {u, r}
  <2>1. q # r
    <3>1. q = r => {p, q} \subseteq PortsOfDevice(s)
      BY <1>2, <1>3, PortOwner
    <3>2. live \in SUBSET Cable
      BY DEF TablesOK
    <3> QED BY <1>2, <1>3, <3>1, <3>2 DEF Looped
  <2> QED BY <2>1
<1> DEFINE rest == live \ {{u, r}}
<1>5. {p, q} \in rest /\ {p, q} \in At(rest, s)
  BY <1>3, <1>4 DEF At
<1>6. k # {p, q}
  <2>1. SUFFICES ASSUME k = {p, q} PROVE FALSE
    OBVIOUS
  <2>2. ConnectedBy(rest, e, s)
    <3> HIDE DEF rest
    <3> QED BY <1>1, <1>2, <1>3, <1>5, <2>1, ConnectedNext
  <2> HIDE DEF rest
  <2>3. ConnectedBy(rest, d, s)
    BY <1>1, <2>2, ConnectedOn DEF rest
  <2> QED BY <1>2, <2>3 DEF rest
<1>7. ConnectedBy(live \ {{p, q}}, d, e)
  <2>1. ConnectedBy(rest \ At(rest, s), d, e)
    BY <1>1, <1>2, WayAround
  <2>2. rest \ At(rest, s) \subseteq live \ {{p, q}}
    BY <1>5
  <2> HIDE DEF rest
  <2> QED BY <2>1, <2>2, MoreCables
<1>8. ConnectedBy(live \ {{p, q}}, s, d)
  <2>1. {u, r} \in live \ {{p, q}}
    BY <1>2, <1>4
  <2> QED BY <1>2, <2>1, ConnectedNext
<1>9. ConnectedBy(live \ {{p, q}}, s, e)
  BY <1>7, <1>8, ConnectedOn
<1> QED BY <1>1, <1>2, <1>3, <1>6, <1>9 DEF Ahead

(* Nothing is ahead of two ports of a switch. *)
LEMMA AheadApart ==
  ASSUME TablesOK, OneCablePerPort, live \notin Looped, NEW s \in Switch,
         NEW r \in PortsOf(s), NEW t \in PortsOf(s), r # t
  PROVE  Ahead(r) \cap Ahead(t) = {}
<1> SUFFICES ASSUME NEW k \in Ahead(r), k \in Ahead(t) PROVE FALSE
  OBVIOUS
<1>1. PICK u \in Peers(r), d \in Device, e \in Device :
        /\ k \in live /\ u \in PortsOfDevice(d) /\ Touches(k, e)
        /\ ConnectedBy(live \ {{u, r}}, d, e)
  BY DEF Ahead
<1>2. PICK v \in Peers(t), x \in Device, y \in Device :
        /\ v \in PortsOfDevice(x) /\ Touches(k, y)
        /\ ConnectedBy(live \ {{v, t}}, x, y)
  BY DEF Ahead
<1>3. /\ r \in Port /\ s \in Device /\ {u, r} \in live /\ r \in PortsOfDevice(s)
      /\ Touches({u, r}, s) /\ Touches({u, r}, d)
      /\ ~ConnectedBy(live \ {{u, r}}, d, s)
  BY <1>1, FarEnd
<1>4. /\ t \in Port /\ {v, t} \in live /\ t \in PortsOfDevice(s)
      /\ Touches({v, t}, s) /\ Touches({v, t}, x)
      /\ ~ConnectedBy(live \ {{v, t}}, x, s)
  BY <1>2, FarEnd
<1> DEFINE a == {u, r}
           b == {v, t}
<1>5. a # b
  <2>1. a = b => a \subseteq PortsOfDevice(s)
    BY <1>3, <1>4
  <2>2. live \in SUBSET Cable
    BY DEF TablesOK
  <2> QED BY <1>3, <2>1, <2>2 DEF Looped
<1>6. k # a
  <2> SUFFICES ASSUME k = a PROVE FALSE
    OBVIOUS
  <2>1. ConnectedBy(live \ {b}, y, s)
    <3>1. k \in live \ {b} /\ Touches(k, s)
      BY <1>1, <1>3, <1>5
    <3> HIDE DEF a, b
    <3> QED BY <1>2, <1>3, <3>1, ConnectedNext
  <2>2. ConnectedBy(live \ {b}, x, s)
    <3> HIDE DEF a
    <3> QED BY <1>2, <2>1, ConnectedOn
  <2> QED BY <1>4, <2>2
<1>7. ConnectedBy(live \ {b}, d, e)
  <2>1. ConnectedBy((live \ {a}) \ At(live \ {a}, s), d, e)
    BY <1>1, <1>3, WayAround
  <2>2. (live \ {a}) \ At(live \ {a}, s) \subseteq live \ {b}
    BY <1>4, <1>5 DEF At
  <2> HIDE DEF a, b
  <2> QED BY <2>1, <2>2, MoreCables
<1>8. k # b
  <2> SUFFICES ASSUME k = b PROVE FALSE
    OBVIOUS
  <2>1. ConnectedBy(live \ {a}, e, s)
    <3>1. k \in live \ {a} /\ Touches(k, s)
      BY <1>1, <1>4, <1>5
    <3> HIDE DEF a, b
    <3> QED BY <1>1, <1>3, <3>1, ConnectedNext
  <2>2. ConnectedBy(live \ {a}, d, s)
    <3> HIDE DEF b
    <3> QED BY <1>1, <2>1, ConnectedOn
  <2> QED BY <1>3, <2>2
<1>9. ConnectedBy(live \ {b}, e, y) /\ ConnectedBy(live \ {b}, d, s)
  <2>1. k \in live \ {b} /\ a \in live \ {b}
    BY <1>1, <1>3, <1>5, <1>8
  <2> HIDE DEF a, b
  <2> QED BY <1>1, <1>2, <1>3, <2>1, ConnectedNext DEF a
<1>10. ConnectedBy(live \ {b}, x, s)
  <2> HIDE DEF a, b
  <2>1. ConnectedBy(live \ {b}, y, e) /\ ConnectedBy(live \ {b}, e, d)
    BY <1>1, <1>2, <1>7, <1>9, ConnectedBack
  <2>2. ConnectedBy(live \ {b}, x, y)
    BY <1>2 DEF b
  <2>3. ConnectedBy(live \ {b}, x, e)
    BY <2>1, <2>2, ConnectedOn
  <2>4. ConnectedBy(live \ {b}, x, d)
    BY <2>1, <2>3, ConnectedOn
  <2> QED BY <1>9, <2>4, ConnectedOn
<1> QED BY <1>4, <1>10

-------------------------------------------------------------------------------
(* What is on its way, by what it is for: the question for an address, the *)
(* answer of a host, the request, the reply.                               *)
Label(f) == <<f.kind, IF f.kind = "is-at" THEN f.src ELSE f.dip>>

(* Two emissions of the same label have different cables ahead. *)
Disjoint(e, b) == Label(e.frame) = Label(b.frame) => Ahead(e.port) \cap Ahead(b.port) = {}

Apart(queue) == \A i, j \in DOMAIN queue : i # j => Disjoint(queue[i], queue[j])

(* A loop whose caller holds nothing carries no ARP. *)
Tidy(l) ==
  /\ Apart(l.queue)
  /\ l.held = NoPacket => \A e \in EmissionsOf(l.queue) : ~IsArp(e.frame)

AllTidy(loops) == \A n \in DOMAIN loops : Tidy(loops[n])

LEMMA ApartTail ==
  ASSUME NEW queue \in Seq(Emission), queue # <<>>, Apart(queue)
  PROVE  /\ Apart(Tail(queue))
         /\ \A b \in EmissionsOf(Tail(queue)) : Disjoint(Head(queue), b)
<1>1. Len(queue) \in Nat /\ Len(queue) # 0 /\ DOMAIN queue = 1 .. Len(queue)
  BY Shorts, LenProperties
<1>2. /\ Len(Tail(queue)) = Len(queue) - 1
      /\ DOMAIN Tail(queue) = 1 .. Len(Tail(queue)) /\ Head(queue) = queue[1]
  BY <1>1, HeadTailProperties, LenProperties
<1>3. \A i \in DOMAIN Tail(queue) :
        i + 1 \in DOMAIN queue /\ i + 1 # 1 /\ Tail(queue)[i] = queue[i + 1]
  BY <1>1, <1>2
<1>4. \A i, j \in DOMAIN Tail(queue) : i # j => i + 1 # j + 1
  BY <1>1, <1>2
<1>5. 1 \in DOMAIN queue
  BY <1>1
<1> QED BY <1>2, <1>3, <1>4, <1>5 DEF Apart, EmissionsOf

LEMMA ApartJoined ==
  ASSUME NEW queue \in Seq(Emission), NEW out \in Seq(Emission), Apart(queue), Apart(out),
         \A e \in EmissionsOf(queue), b \in EmissionsOf(out) : Disjoint(e, b)
  PROVE  Apart(queue \o out)
<1>1. /\ Len(queue) \in Nat /\ DOMAIN queue = 1 .. Len(queue)
      /\ Len(out) \in Nat /\ DOMAIN out = 1 .. Len(out)
  BY LenProperties
<1>2. /\ DOMAIN (queue \o out) = 1 .. Len(queue) + Len(out)
      /\ \A i \in 1 .. Len(queue) + Len(out) :
           (queue \o out)[i] = IF i <= Len(queue) THEN queue[i] ELSE out[i - Len(queue)]
  BY <1>1, ConcatProperties, LenProperties
<1>3. \A e, b : Disjoint(e, b) <=> Disjoint(b, e)
  BY DEF Disjoint
<1>4. \A i \in 1 .. Len(queue) + Len(out) :
        \/ i <= Len(queue) /\ i \in DOMAIN queue /\ (queue \o out)[i] = queue[i]
        \/ ~(i <= Len(queue)) /\ i - Len(queue) \in DOMAIN out
           /\ (queue \o out)[i] = out[i - Len(queue)]
  <2> TAKE i \in 1 .. Len(queue) + Len(out)
  <2>1. i <= Len(queue) => i \in 1 .. Len(queue)
    BY <1>1
  <2>2. ~(i <= Len(queue)) => i - Len(queue) \in 1 .. Len(out)
    BY <1>1
  <2> QED BY <1>1, <1>2, <2>1, <2>2
<1>5. ASSUME NEW i \in 1 .. Len(queue) + Len(out), NEW j \in 1 .. Len(queue) + Len(out), i # j
      PROVE  Disjoint((queue \o out)[i], (queue \o out)[j])
  <2>1. CASE i <= Len(queue) /\ j <= Len(queue)
    BY <1>4, <1>5, <2>1 DEF Apart
  <2>2. CASE i <= Len(queue) /\ ~(j <= Len(queue))
    BY <1>4, <2>2 DEF EmissionsOf
  <2>3. CASE ~(i <= Len(queue)) /\ j <= Len(queue)
    BY <1>3, <1>4, <2>3 DEF EmissionsOf
  <2>4. CASE ~(i <= Len(queue)) /\ ~(j <= Len(queue))
    <3>1. i - Len(queue) # j - Len(queue)
      BY <1>1, <1>5
    <3> QED BY <1>4, <2>4, <3>1 DEF Apart
  <2> QED BY <2>1, <2>2, <2>3, <2>4
<1> QED BY <1>2, <1>5 DEF Apart

LEMMA ApartOne ==
  ASSUME NEW e \in Emission
  PROVE  Apart(<<e>>) /\ Apart(<<>>)
BY DEF Apart

LEMMA TidyGrown ==
  ASSUME NEW l \in LoopType, NEW loops \in Seq(LoopType), Tidy(l), AllTidy(loops)
  PROVE  AllTidy(<<l>> \o loops)
<1> DEFINE grown == <<l>> \o loops
<1>1. Len(loops) \in Nat /\ DOMAIN loops = 1 .. Len(loops)
  BY LenProperties
<1>2. /\ <<l>> \in Seq(LoopType) /\ Len(<<l>>) = 1 /\ <<l>>[1] = l
  OBVIOUS
<1>3. /\ DOMAIN grown = 1 .. 1 + Len(loops)
      /\ \A n \in 1 .. 1 + Len(loops) : grown[n] = IF n <= 1 THEN <<l>>[n] ELSE loops[n - 1]
  BY <1>1, <1>2, ConcatProperties, LenProperties
<1>4. \A n \in DOMAIN grown : grown[n] = l \/ (n - 1 \in DOMAIN loops /\ grown[n] = loops[n - 1])
  <2>1. \A n \in 1 .. 1 + Len(loops) :
          (n <= 1 /\ n = 1) \/ (~(n <= 1) /\ n - 1 \in 1 .. Len(loops))
    BY <1>1
  <2> QED BY <1>1, <1>2, <1>3, <2>1
<1> HIDE DEF grown
<1>5. AllTidy(grown)
  BY <1>4 DEF AllTidy
<1> QED BY <1>5 DEF grown

LEMMA TidySplit ==
  ASSUME NEW loops \in Seq(LoopType), loops # <<>>, AllTidy(loops)
  PROVE  Tidy(Head(loops)) /\ AllTidy(Tail(loops))
<1>1. Len(loops) \in Nat /\ Len(loops) # 0 /\ DOMAIN loops = 1 .. Len(loops)
  BY Shorts, LenProperties
<1>2. /\ Tail(loops) \in Seq(LoopType) /\ Len(Tail(loops)) = Len(loops) - 1
      /\ DOMAIN Tail(loops) = 1 .. Len(Tail(loops)) /\ Head(loops) = loops[1]
  BY <1>1, HeadTailProperties, LenProperties
<1>3. \A i \in DOMAIN Tail(loops) : i + 1 \in DOMAIN loops /\ Tail(loops)[i] = loops[i + 1]
  BY <1>1, <1>2
<1>4. 1 \in DOMAIN loops
  BY <1>1
<1> QED BY <1>2, <1>3, <1>4 DEF AllTidy

(* What is at hand is apart from all that stays on its way. *)
LEMMA TidyPopped ==
  ASSUME Nested(stack, ping, answered), AllTidy(stack), stack # <<>>, Top.queue # <<>>
  PROVE  /\ AllTidy(Popped)
         /\ \A b \in OnTheWay(Popped) : Disjoint(Head(Top.queue), b)
         /\ Top.held = NoPacket => ~IsArp(Head(Top.queue).frame)
<1> DEFINE l == Loop(Tail(Top.queue), Top.held)
<1>1. stack \in Seq(LoopType)
  BY NestedTyped
<1>2. Top \in LoopType /\ Below \in Seq(LoopType) /\ Top.queue \in Seq(Emission)
  BY <1>1, StackParts DEF Top, Below
<1>3. Tidy(Top) /\ AllTidy(Below)
  BY <1>1, TidySplit DEF Top, Below
<1>4. /\ l \in LoopType /\ l.queue = Tail(Top.queue) /\ l.held = Top.held
      /\ EmissionsOf(l.queue) \subseteq EmissionsOf(Top.queue)
      /\ Head(Top.queue) \in EmissionsOf(Top.queue)
  BY <1>2, QueueParts DEF Loop, LoopType
<1> HIDE DEF l
<1>5. /\ Apart(l.queue)
      /\ \A b \in EmissionsOf(l.queue) : Disjoint(Head(Top.queue), b)
  BY <1>2, <1>3, <1>4, ApartTail DEF Tidy
<1>6. Tidy(l)
  BY <1>3, <1>4, <1>5 DEF Tidy
<1>7. AllTidy(Popped)
  BY <1>2, <1>3, <1>4, <1>6, TidyGrown DEF Popped, l
<1>8. OnTheWay(Popped) = EmissionsOf(l.queue) \cup OnTheWay(Below)
  BY <1>2, <1>4, StackGrown DEF Popped, l
<1>9. ASSUME NEW b \in OnTheWay(Below) PROVE Disjoint(Head(Top.queue), b)
  <2>1. /\ Sane(Top, ping, answered)
        /\ \/ Below = <<>>
           \/ /\ Below = <<stack[2]>>
              /\ Top.held # NoPacket /\ stack[2].held = NoPacket
    BY NestedSplit DEF Top, Below
  <2>2. Below # <<>>
    BY <1>9, NothingOnTheWay
  <2>3. IsArp(Head(Top.queue).frame)
    BY <2>1, <2>2, FrameAtHand
  <2>4. ~IsArp(b.frame)
    <3>1. PICK n \in DOMAIN Below : b \in EmissionsOf(Below[n].queue)
      BY DEF OnTheWay
    <3>2. n = 1 /\ Below[1] = stack[2]
      BY <2>1, <2>2, <3>1
    <3> QED BY <1>3, <2>1, <2>2, <3>1, <3>2 DEF AllTidy, Tidy
  <2> QED BY <2>3, <2>4 DEF Disjoint, Label, IsArp
<1> QED BY <1>3, <1>4, <1>5, <1>7, <1>8, <1>9 DEF Tidy

LEMMA TidyEnqueued ==
  ASSUME NEW loops \in Seq(LoopType), loops # <<>>, AllTidy(loops),
         NEW out \in Seq(Emission), Apart(out),
         \A e \in OnTheWay(loops), b \in EmissionsOf(out) : Disjoint(e, b),
         Head(loops).held = NoPacket => \A b \in EmissionsOf(out) : ~IsArp(b.frame)
  PROVE  AllTidy(Enqueue(loops, out))
<1> DEFINE l == Loop(Head(loops).queue \o out, Head(loops).held)
<1>1. /\ Head(loops) \in LoopType /\ Tail(loops) \in Seq(LoopType)
      /\ Head(loops).queue \in Seq(Emission)
      /\ EmissionsOf(Head(loops).queue) \subseteq OnTheWay(loops)
  BY StackParts
<1>2. Tidy(Head(loops)) /\ AllTidy(Tail(loops))
  BY TidySplit
<1>3. /\ l \in LoopType /\ l.queue = Head(loops).queue \o out /\ l.held = Head(loops).held
      /\ EmissionsOf(l.queue) = EmissionsOf(Head(loops).queue) \cup EmissionsOf(out)
  BY <1>1, QueueJoined DEF Loop, LoopType
<1> HIDE DEF l
<1>4. Apart(l.queue)
  BY <1>1, <1>2, <1>3, ApartJoined DEF Tidy
<1>5. Tidy(l)
  BY <1>2, <1>3, <1>4 DEF Tidy
<1> QED BY <1>1, <1>2, <1>3, <1>5, TidyGrown DEF Enqueue, l

-------------------------------------------------------------------------------
(* One turn of a delivery loop, as what it adds to what is on its way. *)

(* A switch lists each of its ports once. *)
ListedOnce ==
  \A s \in Switch : \A i, j \in DOMAIN Ports[s] : Ports[s][i] = Ports[s][j] => i = j

(* Emission e arrives at port p: what is sent, held back and answered. *)
Relays(e, p, more, kept) ==
  /\ \E s \in Switch : p \in PortsOf(s) /\ \A b \in more : b.port \in PortsOf(s) \ {p}
  /\ \A b \in more : b.frame = e.frame
  /\ kept = {} /\ answered' = answered

TellsMac(e, p, more, kept) ==
  /\ p \in Host /\ e.frame.kind = "who-has" /\ ip[p] = e.frame.dip
  /\ \A b \in more : b.port = p /\ b.frame.kind = "is-at" /\ b.frame.src = p
  /\ kept = {} /\ answered' = answered

Replies(e, p, more, kept) ==
  /\ p \in Host /\ e.frame.kind = "echo" /\ Accepts(p, e.frame)
  /\ answered' = answered \cup {[host |-> p, ip |-> e.frame.dip, seq |-> e.frame.seq]}
  /\ \A b \in more : b.port = p /\ b.frame.dip = e.frame.sip
  /\ \/ kept = {} /\ \A b \in more : b.frame.kind = "reply"
     \/ /\ \A b \in more : b.frame.kind = "who-has"
        /\ \A pk \in kept : pk.kind = "reply" /\ pk.dip = e.frame.sip

Quiet(more, kept) == more = {} /\ kept = {} /\ answered' = answered

Turn(e, p, more, kept) ==
  /\ OnTheWay(stack') = OnTheWay(Popped) \cup more
  /\ HeldBack(stack') = HeldBack(stack) \cup kept
  /\ \/ Relays(e, p, more, kept)
     \/ TellsMac(e, p, more, kept)
     \/ Replies(e, p, more, kept)
     \/ Quiet(more, kept)
  /\ /\ AllTidy(stack)
     /\ \A x \in OnTheWay(Popped), b \in more : Disjoint(x, b)
     /\ \A b \in more, c \in more : b.port # c.port => Disjoint(b, c)
     => AllTidy(stack')

LEMMA TurnEnqueues ==
  ASSUME IInv, stack # <<>>, Top.queue # <<>>,
         NEW out \in Seq(Emission), stack' = Enqueue(Popped, out)
  PROVE  /\ OnTheWay(stack') = OnTheWay(Popped) \cup EmissionsOf(out)
         /\ HeldBack(stack') = HeldBack(stack)
         /\ /\ AllTidy(stack)
            /\ \A x \in OnTheWay(Popped), b \in EmissionsOf(out) : Disjoint(x, b)
            /\ Apart(out)
            /\ Top.held = NoPacket => \A b \in EmissionsOf(out) : ~IsArp(b.frame)
            => AllTidy(stack')
<1>1. stack \in Seq(LoopType) /\ Nested(stack, ping, answered)
  BY NestedTyped DEF IInv
<1>2. Popped \in Seq(LoopType) /\ Popped # <<>> /\ HeldBack(Popped) = HeldBack(stack)
  BY <1>1, FirstPopped
<1>3. Head(Popped).held = Top.held
  BY <1>1, FrameAtHand
<1>4. /\ OnTheWay(stack') = OnTheWay(Popped) \cup EmissionsOf(out)
      /\ HeldBack(stack') = HeldBack(stack)
  BY <1>2, Enqueued
<1>5. ASSUME AllTidy(stack),
             \A x \in OnTheWay(Popped), b \in EmissionsOf(out) : Disjoint(x, b),
             Apart(out),
             Top.held = NoPacket => \A b \in EmissionsOf(out) : ~IsArp(b.frame)
      PROVE  AllTidy(stack')
  <2>1. AllTidy(Popped)
    BY <1>1, <1>5, TidyPopped
  <2> QED BY <1>2, <1>3, <1>5, <2>1, TidyEnqueued
<1> QED BY <1>4, <1>5

(* The ports a frame is sent on by are all different. *)
LEMMA TargetsDiffer ==
  ASSUME ListedOnce, NEW s \in Switch, NEW p, NEW f, NEW table,
         NEW out \in Targets(s, p, f, table)
  PROVE  \A i, j \in DOMAIN out : i # j => out[i] # out[j]
<1>1. CASE Floods(s, p, f, table)
  <2> DEFINE I == FloodPorts(s, p)
             N == Cardinality(I)
  <2>1. PICK g \in Ascending(I) : out = [i \in DOMAIN g |-> Ports[s][g[i]]]
    BY <1>1 DEF Targets
  <2>2. /\ I \subseteq DOMAIN Ports[s] /\ DOMAIN Ports[s] \subseteq Nat /\ N \in Nat
    BY PortFacts, FS_Subset, FS_CardinalityType, LenProperties DEF FloodPorts
  <2>3. g \in [1 .. N -> I] /\ \A i, j \in 1 .. N : i < j => g[i] < g[j]
    BY <2>1 DEF Ascending
  <2> HIDE DEF I, N
  <2>4. \A i, j \in 1 .. N : g[i] = g[j] => i = j
    <3> TAKE i, j \in 1 .. N
    <3>1. g[i] \in Nat /\ g[j] \in Nat /\ i \in Int /\ j \in Int
      BY <2>2, <2>3
    <3>2. (i < j => g[i] < g[j]) /\ (j < i => g[j] < g[i])
      BY <2>3
    <3> QED BY <3>1, <3>2
  <2>5. DOMAIN out = 1 .. N /\ \A i \in 1 .. N : out[i] = Ports[s][g[i]] /\ g[i] \in DOMAIN Ports[s]
    BY <2>1, <2>2, <2>3
  <2> QED BY <2>4, <2>5 DEF ListedOnce
<1>2. CASE ~Floods(s, p, f, table)
  <2>1. out = <<>> \/ out = <<table[s][f.dst]>>
    BY <1>2 DEF Targets
  <2> QED BY <2>1
<1> QED BY <1>1, <1>2

LEMMA SwitchTurns ==
  ASSUME IInv, Wire, ListedOnce, NEW e, NEW p, Arriving(e, p),
         NEW s \in Switch, p \in PortsOf(s), SwitchReceives(s, p, e.frame, Popped)
  PROVE  \E more, kept : Turn(e, p, more, kept)
<1> DEFINE f == e.frame
           table == Learned(s, p, f)
<1>1. f \in Frame /\ f.src \in Host /\ p \in SwitchPort
  BY FrameFields, PortFacts DEF Arriving, AtHand
<1>2. /\ table \in [Switch -> [Host -> SwitchPort \cup {None}]]
      /\ \A t \in Switch, m \in Host : table[t][m] # None => table[t][m] \in PortsOf(t)
  BY <1>1 DEF IInv, TablesOK, Learned, Wire, OwnPorts
<1>3. PICK out \in Targets(s, p, f, table) :
         stack' = Enqueue(Popped, [i \in DOMAIN out |-> Out(out[i], f)])
  BY DEF SwitchReceives
<1> DEFINE q == [i \in DOMAIN out |-> Out(out[i], f)]
<1>4. out \in Seq(SwitchPort) /\ \A i \in DOMAIN out : out[i] \in PortsOf(s) /\ out[i] # p
  BY <1>1, <1>2, <1>3, TargetsTyped, TargetsElsewhere
<1>5. q \in Seq(Emission)
  BY <1>4, FanOut DEF Arriving, AtHand, Sound
<1>6. \A i \in DOMAIN q : /\ i \in DOMAIN out /\ q[i].port = out[i] /\ q[i].frame = f
  BY DEF Out
<1>7. \A i, j \in DOMAIN q : i # j => q[i].port # q[j].port
  BY <1>3, <1>6, TargetsDiffer
<1>8. stack' = Enqueue(Popped, q) /\ answered' = answered
  BY <1>3 DEF SwitchReceives
<1> HIDE DEF q
<1>9. \A b \in EmissionsOf(q) : b.port \in PortsOf(s) \ {p} /\ b.frame = f
  BY <1>4, <1>6 DEF EmissionsOf
<1>10. Relays(e, p, EmissionsOf(q), {})
  BY <1>8, <1>9 DEF Relays
<1>11. ASSUME AllTidy(stack),
              \A x \in OnTheWay(Popped), b \in EmissionsOf(q) : Disjoint(x, b),
              \A b \in EmissionsOf(q), c \in EmissionsOf(q) : b.port # c.port => Disjoint(b, c)
       PROVE  AllTidy(stack')
  <2>1. Apart(q)
    BY <1>7, <1>11 DEF Apart, EmissionsOf
  <2>2. Top.held = NoPacket => ~IsArp(f)
    BY <1>11, TidyPopped DEF IInv, Arriving
  <2> QED BY <1>5, <1>8, <1>9, <1>11, <2>1, <2>2, TurnEnqueues DEF Arriving
<1>12. OnTheWay(stack') = OnTheWay(Popped) \cup EmissionsOf(q) /\ HeldBack(stack') = HeldBack(stack)
  BY <1>5, <1>8, TurnEnqueues DEF Arriving
<1> QED BY <1>10, <1>11, <1>12 DEF Turn

(* A host that sends one emission of its own. *)
LEMMA OneTurn ==
  ASSUME IInv, NEW e, NEW p, Arriving(e, p), NEW b \in Emission,
         stack' = Enqueue(Popped, <<b>>), IsArp(b.frame) => IsArp(e.frame),
         TellsMac(e, p, {b}, {}) \/ Replies(e, p, {b}, {})
  PROVE  \E more, kept : Turn(e, p, more, kept)
<1>1. <<b>> \in Seq(Emission) /\ EmissionsOf(<<b>>) = {b} /\ Apart(<<b>>)
  BY QueueOne, ApartOne
<1>2. PICK q : q = <<b>>
  OBVIOUS
<1>3. OnTheWay(stack') = OnTheWay(Popped) \cup {b} /\ HeldBack(stack') = HeldBack(stack)
  BY <1>1, TurnEnqueues DEF Arriving
<1>4. ASSUME AllTidy(stack), \A x \in OnTheWay(Popped), c \in {b} : Disjoint(x, c)
      PROVE  AllTidy(stack')
  <2>1. Top.held = NoPacket => ~IsArp(e.frame)
    BY <1>4, TidyPopped DEF IInv, Arriving
  <2>2. \A x \in OnTheWay(Popped), c \in EmissionsOf(<<b>>) : Disjoint(x, c)
    BY <1>1, <1>4
  <2>3. Top.held = NoPacket => \A c \in EmissionsOf(<<b>>) : ~IsArp(c.frame)
    BY <1>1, <2>1
  <2> QED BY <1>1, <1>4, <2>2, <2>3, TurnEnqueues DEF Arriving
<1>5. Turn(e, p, {b}, {})
  BY <1>3, <1>4 DEF Turn
<1> QED BY <1>5

LEMMA HostTurns ==
  ASSUME IInv, NEW e, NEW p \in Host, Arriving(e, p), HostReceives(p, e.frame, Popped)
  PROVE  \E more, kept : Turn(e, p, more, kept)
<1> DEFINE f == e.frame
<1>1. f \in Frame /\ stack \in Seq(LoopType) /\ stack # <<>> /\ Top.queue # <<>>
  BY DEF Arriving, AtHand
<1>2. CASE AnswerArp(p, f, Popped)
  <2> DEFINE b == Out(p, IsAt(p, f))
  <2>1. b \in Emission
    BY <1>1, FrameFields, BoundsFacts DEF Out, IsAt, Emission, Frame, Port
  <2>2. stack' = Enqueue(Popped, <<b>>) /\ IsArp(f)
    BY <1>2 DEF AnswerArp, IsArp
  <2>3. TellsMac(e, p, {b}, {})
    BY <1>2 DEF AnswerArp, Accepts, TellsMac, Out, IsAt
  <2> HIDE DEF b
  <2> QED BY <2>1, <2>2, <2>3, OneTurn
<1>3. CASE AnswerEcho(p, f, Popped)
  <2> DEFINE pk == [kind |-> "reply", host |-> p, sip |-> f.dip, dip |-> f.sip, seq |-> f.seq]
  <2>1. f.kind = "echo" /\ ip[p] = f.dip /\ ~IsArp(f) /\ Accepts(p, f)
    BY <1>3 DEF AnswerEcho, Accepts, IsArp
  <2>2. f.seq \in 1 .. Count /\ Top.held = NoPacket
    BY <2>1 DEF Arriving, AtHand, Told
  <2>3. /\ pk \in Packet /\ pk.host = p /\ pk.dip = f.sip /\ pk.kind = "reply" /\ ip[p] \in Ip
    BY <1>1, <2>1, <2>2, FrameFields DEF Packet
  <2>4. CASE arp[p][f.sip] # None
    <3> DEFINE b == Out(p, Carry(pk, arp[p][f.sip]))
    <3>1. arp[p][f.sip] \in Host
      BY <1>1, <2>4, FrameFields DEF IInv, TablesOK
    <3>2. b \in Emission
      BY <2>3, <3>1, BoundsFacts DEF Packet, Out, Carry, Emission, Frame, Port
    <3>3. stack' = Enqueue(Popped, <<b>>)
      BY <1>3, <2>4 DEF AnswerEcho
    <3>4. b.frame.kind = "reply" /\ b.port = p /\ b.frame.dip = f.sip
      BY DEF Out, Carry
    <3> HIDE DEF b
    <3>5. Replies(e, p, {b}, {})
      BY <1>3, <2>1, <3>4 DEF Replies, AnswerEcho
    <3> QED BY <3>2, <3>3, <3>4, <3>5, OneTurn DEF IsArp
  <2>5. CASE arp[p][f.sip] = None
    <3> DEFINE b == Out(p, WhoHas(p, f.sip))
    <3>1. stack' = <<Asking(pk)>> \o Popped
      BY <1>3, <2>5 DEF AnswerEcho
    <3>2. answered' = answered \cup {[host |-> p, ip |-> f.dip, seq |-> f.seq]}
      BY <1>3 DEF AnswerEcho
    <3> HIDE DEF pk
    <3>3. /\ b \in Emission /\ Asking(pk) \in LoopType /\ Asking(pk).held = pk
          /\ EmissionsOf(Asking(pk).queue) = {b}
      BY <2>3, Asked
    <3>4. b.frame.kind = "who-has" /\ b.port = p /\ b.frame.dip = f.sip
      BY DEF Out, WhoHas
    <3>5. Asking(pk).queue = <<b>>
      BY <2>3 DEF Asking, Loop
    <3> HIDE DEF b
    <3>6. Popped \in Seq(LoopType) /\ HeldBack(Popped) = HeldBack(stack) /\ pk # NoPacket
      BY <1>1, <2>3, FirstPopped, PacketIsOne
    <3>7. /\ OnTheWay(stack') = OnTheWay(Popped) \cup {b}
          /\ HeldBack(stack') = HeldBack(stack) \cup {pk}
      <4>1. PICK x \in LoopType : x = Asking(pk)
        BY <3>3
      <4>2. stack' = <<x>> \o Popped /\ EmissionsOf(x.queue) = {b} /\ x.held = pk
        BY <3>1, <3>3, <4>1
      <4>3. /\ OnTheWay(<<x>> \o Popped) = EmissionsOf(x.queue) \cup OnTheWay(Popped)
            /\ HeldBack(<<x>> \o Popped) = ({x.held} \ {NoPacket}) \cup HeldBack(Popped)
        BY ONLY <3>6, <4>1, StackGrown
      <4>4. ({pk} \ {NoPacket}) \cup HeldBack(Popped) = HeldBack(stack) \cup {pk}
        BY ONLY <3>6
      <4> QED BY <4>2, <4>3, <4>4
    <3>8. Replies(e, p, {b}, {pk})
      BY <2>1, <2>3, <3>2, <3>4 DEF Replies
    <3>9. ASSUME AllTidy(stack) PROVE AllTidy(stack')
      <4>1. AllTidy(Popped)
        BY <1>1, <3>9, TidyPopped DEF IInv
      <4>2. Tidy(Asking(pk))
        BY <3>3, <3>5, <3>6, ApartOne DEF Tidy
      <4> QED BY <3>1, <3>3, <3>6, <4>1, <4>2, TidyGrown
    <3>10. Turn(e, p, {b}, {pk})
      BY <3>7, <3>8, <3>9 DEF Turn
    <3> QED BY <3>10
  <2> QED BY <2>4, <2>5
<1>4. CASE CacheArp(p, f, Popped) \/ KeepReply(p, f, Popped) \/ Discard(p, f, Popped)
  <2>1. stack' = Popped /\ answered' = answered
    BY <1>4 DEF CacheArp, KeepReply, Discard
  <2>2. HeldBack(Popped) = HeldBack(stack)
    BY <1>1, FirstPopped
  <2>3. AllTidy(stack) => AllTidy(stack')
    BY <1>1, <2>1, TidyPopped DEF IInv
  <2>4. Turn(e, p, {}, {})
    BY <2>1, <2>2, <2>3 DEF Turn, Quiet
  <2> QED BY <2>4
<1> QED BY <1>2, <1>3, <1>4 DEF HostReceives

LEMMA DeliverTurns ==
  ASSUME IInv, Wire, ListedOnce, Deliver
  PROVE  \E e, p, more, kept : Arriving(e, p) /\ Turn(e, p, more, kept)
<1>1. PICK e : e = Head(Top.queue)
  OBVIOUS
<1>2. PICK p \in Peers(e.port) :
        \/ p \in Host /\ HostReceives(p, e.frame, Popped)
        \/ \E s \in Switch : p \in PortsOf(s) /\ SwitchReceives(s, p, e.frame, Popped)
  BY <1>1 DEF Deliver
<1>3. Arriving(e, p)
  <2>1. stack # <<>> /\ Top.queue # <<>>
    BY DEF Deliver
  <2> QED BY <1>1, <1>2, <2>1, FrameAtHand, FirstPopped, NestedTyped DEF AtHand, Arriving, IInv
<1>4. \E more, kept : Turn(e, p, more, kept)
  BY <1>2, <1>3, HostTurns, SwitchTurns
<1> QED BY <1>3, <1>4

-------------------------------------------------------------------------------
(* What a request may be about, whatever the cables. *)

(* The addressings the LAN can have. *)
Addressable == IF "address" \in Edits THEN [Host -> Ip \cup {None}] ELSE Addressings

(* The hosts that answer a question a ping gives rise to. *)
Holders == {h \in Host : ip[h] \in {ping.target, ip[ping.host]}}

Labels ==
  {<<"who-has", ping.target>>, <<"who-has", ip[ping.host]>>,
   <<"echo", ping.target>>, <<"reply", ip[ping.host]>>} \cup ({"is-at"} \X Holders)

Mannered(e) ==
  /\ Label(e.frame) \in Labels
  /\ e.frame.kind = "echo" => e.frame.dst \in Host /\ e.frame.sip = ip[ping.host]

HeldMannered(pk) ==
  /\ pk.kind = "echo" => pk.sip = ip[ping.host] /\ pk.dip = ping.target
  /\ pk.kind = "reply" => pk.dip = ip[ping.host]

Manners ==
  /\ OneCablePerPort
  /\ ip \in Addressable
  /\ ping = NoPing => ~storm
  /\ ping # NoPing => ip[ping.host] # ping.target
  /\ \A e \in OnTheWay(stack) : Mannered(e)
  /\ \A pk \in HeldBack(stack) : HeldMannered(pk)
  /\ \A a \in answered : a.seq <= ping.sent

LEMMA LabelFacts ==
  ASSUME NEW f, Label(f) \in Labels
  PROVE  /\ f.kind = "who-has" => f.dip \in {ping.target, ip[ping.host]}
         /\ f.kind = "is-at" => f.src \in Holders
         /\ f.kind = "echo" => f.dip = ping.target
         /\ f.kind = "reply" => f.dip = ip[ping.host]
BY DEF Label, Labels

LEMMA DeliverManners ==
  ASSUME IInv, Wire, ListedOnce, Manners, Deliver
  PROVE  Manners'
<1>1. PICK e, p, more, kept : Arriving(e, p) /\ Turn(e, p, more, kept)
  BY DeliverTurns
<1>2. UNCHANGED <<live, ip, storm, ping>>
  BY DEF Deliver
<1>3. /\ Mannered(e) /\ OnTheWay(Popped) \subseteq OnTheWay(stack)
      /\ e.frame.kind = "echo" => e.frame.seq = ping.sent /\ ping.sent \in Nat
  BY <1>1, FirstPopped, BoundsFacts DEF Arriving, Manners, AtHand, IsArp, Told
<1>4. ASSUME NEW b \in more PROVE Mannered(b)
  <2>1. CASE Relays(e, p, more, kept)
    BY <1>3, <1>4, <2>1 DEF Relays, Mannered
  <2>2. CASE TellsMac(e, p, more, kept)
    <3>1. p \in Holders
      BY <1>3, <2>2, LabelFacts DEF TellsMac, Mannered, Holders
    <3> QED BY <1>4, <2>2, <3>1 DEF TellsMac, Mannered, Label, Labels
  <2>3. CASE Replies(e, p, more, kept)
    <3>1. b.frame.dip = ip[ping.host] /\ b.frame.kind \in {"reply", "who-has"}
      BY <1>3, <1>4, <2>3 DEF Replies, Mannered
    <3> QED BY <3>1 DEF Mannered, Label, Labels
  <2>4. CASE Quiet(more, kept)
    BY <1>4, <2>4 DEF Quiet
  <2> QED BY <1>1, <2>1, <2>2, <2>3, <2>4 DEF Turn
<1>5. ASSUME NEW pk \in kept PROVE HeldMannered(pk)
  BY <1>1, <1>3, <1>5 DEF Turn, Relays, TellsMac, Replies, Quiet, HeldMannered, Mannered
<1>6. \A a \in answered' : a.seq <= ping.sent
  BY <1>1, <1>3 DEF Turn, Relays, TellsMac, Replies, Quiet, Manners
<1>7. /\ \A b : Mannered(b)' <=> Mannered(b)
      /\ \A pk : HeldMannered(pk)' <=> HeldMannered(pk)
  BY <1>2 DEF Mannered, HeldMannered, Labels, Holders
<1>8. /\ \A b \in OnTheWay(stack') : Mannered(b)
      /\ \A pk \in HeldBack(stack') : HeldMannered(pk)
  BY <1>1, <1>3, <1>4, <1>5 DEF Turn, Manners
<1> QED BY <1>2, <1>6, <1>7, <1>8 DEF Manners, OneCablePerPort

LEMMA ReturnManners ==
  ASSUME IInv, Manners, Return
  PROVE  Manners'
<1>1. stack # <<>> /\ stack' = AfterReturn /\ UNCHANGED <<live, ip, arp, ping, answered>>
  BY DEF Return
<1>2. ping # NoPing
  BY <1>1, NoPingIsIdle DEF Idle
<1>3. ASSUME NEW pk \in HeldBack(stack), pk \in Packet, arp[pk.host][pk.dip] \in Host
      PROVE  Mannered(Out(pk.host, Carry(pk, arp[pk.host][pk.dip])))
  <2>1. HeldMannered(pk) /\ pk.kind \in {"echo", "reply"}
    BY <1>3 DEF Manners, Packet
  <2> QED BY <1>3, <2>1 DEF Mannered, HeldMannered, Label, Labels, Out, Carry
<1>4. \A b \in OnTheWay(stack') : Mannered(b)
  BY <1>1, <1>3, AfterReturnAnatomy DEF Manners
<1>5. \A pk \in HeldBack(stack') : HeldMannered(pk)
  BY <1>1, AfterReturnAnatomy DEF Manners
<1>6. /\ \A b : Mannered(b)' <=> Mannered(b)
      /\ \A pk : HeldMannered(pk)' <=> HeldMannered(pk)
  BY <1>1 DEF Mannered, HeldMannered, Labels, Holders
<1> QED BY <1>1, <1>2, <1>4, <1>5, <1>6 DEF Manners, OneCablePerPort

LEMMA SendManners ==
  ASSUME IInv, Manners, SendEcho
  PROVE  Manners'
<1>1. /\ Echo.kind = "echo" /\ Echo.host = ping.host /\ Echo.dip = ping.target
      /\ ping.host \in Host /\ ping.target \in Ip
      /\ ping'.host = ping.host /\ ping'.target = ping.target
      /\ ping'.sent = ping.sent + 1 /\ ping.sent \in Nat
  BY EchoFacts
<1>2. UNCHANGED <<live, ip, storm, answered>> /\ ping # NoPing
  BY DEF SendEcho
<1>3. ping' # NoPing
  BY <1>1, NoneFacts DEF NoPing
<1>4. /\ \A b : Mannered(b)' <=> Mannered(b)
      /\ \A pk : HeldMannered(pk)' <=> HeldMannered(pk)
  BY <1>1, <1>2 DEF Mannered, HeldMannered, Labels, Holders
<1>5. HeldMannered(Echo)
  BY <1>1 DEF HeldMannered, Echo
<1>6. ASSUME NEW m \in Host PROVE Mannered(Out(ping.host, Carry(Echo, m)))
  BY <1>1 DEF Mannered, Label, Labels, Out, Carry, Echo
<1>7. Mannered(Out(ping.host, WhoHas(ping.host, ping.target)))
  BY DEF Mannered, Label, Labels, Out, WhoHas
<1>8. /\ \A b \in OnTheWay(stack') : Mannered(b)
      /\ \A pk \in HeldBack(stack') : HeldMannered(pk)
  BY <1>5, <1>6, <1>7, SendAnatomy
<1>9. \A a \in answered' : a.seq <= ping'.sent
  <2>1. \A a \in answered : a.seq \in Nat /\ a.seq <= ping.sent
    BY BoundsFacts DEF IInv, AnsweredOK, Manners
  <2> QED BY <1>1, <1>2, <2>1
<1> QED BY <1>1, <1>2, <1>3, <1>4, <1>8, <1>9 DEF Manners, OneCablePerPort

LEMMA QuietManners ==
  ASSUME stack' = <<>>, answered' = {}, OneCablePerPort', ip' \in Addressable,
         ping' = NoPing => ~storm', ping' # NoPing => ip'[ping'.host] # ping'.target
  PROVE  Manners'
BY NothingOnTheWay DEF Manners, Addressable

LEMMA NextManners ==
  ASSUME IInv, IInv', Wire, ListedOnce, Manners, [Next]_vars
  PROVE  Manners'
<1>1. ASSUME NEW h \in Host, NEW i \in Ip, StartPing(h, i) PROVE Manners'
  BY <1>1, NoPingIsIdle, QuietManners DEF StartPing, Idle, Manners, OneCablePerPort
<1>2. CASE Deliver
  BY <1>2, DeliverManners
<1>3. CASE DropFrame
  <2>1. /\ OnTheWay(stack') \subseteq OnTheWay(stack) /\ HeldBack(stack') = HeldBack(stack)
        /\ UNCHANGED <<live, ip, ping, storm, answered>>
    BY <1>3, FirstPopped, NestedTyped DEF DropFrame, IInv
  <2> QED BY <2>1 DEF Manners, OneCablePerPort, Mannered, HeldMannered, Labels, Holders
<1>4. CASE Return
  BY <1>4, ReturnManners
<1>5. CASE SendEcho
  BY <1>5, SendManners
<1>6. CASE Finish
  BY <1>6, QuietManners DEF Finish, Manners, OneCablePerPort
<1>7. CASE UserStep
  <2>1. stack' = <<>> /\ answered' = {} /\ ping' = NoPing /\ UNCHANGED storm /\ ping = NoPing
    BY <1>7, NoPingIsIdle DEF UserStep, Idle, ClearArp, ClearMac, ChangeCable, ChangeAddress
  <2>2. ASSUME NEW c \in Cable, ChangeCable(c) PROVE OneCablePerPort'
    BY <2>2 DEF ChangeCable, Manners, OneCablePerPort
  <2>3. ASSUME UNCHANGED live PROVE OneCablePerPort'
    BY <2>3 DEF Manners, OneCablePerPort
  <2>4. OneCablePerPort'
    BY <1>7, <2>2, <2>3 DEF UserStep, ClearArp, ClearMac, ChangeAddress
  <2>5. ip' \in Addressable
    <3>1. "address" \in Edits \/ UNCHANGED ip
      BY <1>7 DEF UserStep, ClearArp, ClearMac, ChangeCable, ChangeAddress
    <3> QED BY <3>1 DEF Addressable, Manners, IInv, TablesOK
  <2> QED BY <2>1, <2>4, <2>5, QuietManners DEF Manners
<1>8. CASE UNCHANGED vars
  BY <1>8 DEF vars, Manners, OneCablePerPort, Mannered, HeldMannered, Labels, Holders
<1> QED BY <1>1, <1>2, <1>3, <1>4, <1>5, <1>6, <1>7, <1>8 DEF Next, EngineStep, CommandStep

-------------------------------------------------------------------------------
(* What every cable has cost.  Without a loop, a frame of a given label    *)
(* crosses a cable once per request: spent is the crossings so far.        *)

Token(l, c) == <<<<ping.sent, l>>, c>>
Tokens == ((1 .. ping.sent) \X Labels) \X live

(* Every hop was a crossing, and no crossing is still to come. *)
Ledger(spent, wire, cost) ==
  /\ spent \subseteq Tokens /\ IsFiniteSet(spent)
  /\ cost <= Cardinality(spent)
  /\ \A e \in wire : \A c \in Ahead(e.port) : Token(Label(e.frame), c) \notin spent

(* A frame of label l has been sent for the last request. *)
Used(l, spent, wire) ==
  \/ \E c \in live : Token(l, c) \in spent
  \/ \E e \in wire : Label(e.frame) = l

Done(given) == \E a \in given : a.seq = ping.sent

(* No label is sent twice: a packet that is held has not been sent, the    *)
(* reply comes after the request was taken, and a host has answered, or    *)
(* taken, only what has crossed its own cable.                             *)
HeldIsNew(spent, wire, held, given) ==
  \A pk \in held :
    /\ pk.kind = "echo" => ~Used(<<"echo", ping.target>>, spent, wire) /\ ~Done(given)
    /\ pk.kind = "reply" => ~Used(<<"reply", ip[ping.host]>>, spent, wire) /\ Done(given)

ReplyIsLater(spent, wire, given) ==
  \/ Used(<<"reply", ip[ping.host]>>, spent, wire)
  \/ Used(<<"who-has", ip[ping.host]>>, spent, wire)
  => Done(given)

AnsweredAfter(spent, wire) ==
  \A h \in Host : Used(<<"is-at", h>>, spent, wire) =>
    \A c \in live : h \in c => Token(<<"who-has", ip[h]>>, c) \in spent

TakenAfter(spent, given) ==
  \A a \in given : a.seq = ping.sent =>
    \A c \in live : a.host \in c => Token(<<"echo", ping.target>>, c) \in spent

OneTaker(wire, given) ==
  \A e \in wire : e.frame.kind = "echo" =>
    /\ \A b \in wire : b.frame.kind = "echo" => b.frame.dst = e.frame.dst
    /\ \A a \in given : a.seq = ping.sent => a.host = e.frame.dst

Firsts(spent, wire, held, given) ==
  /\ HeldIsNew(spent, wire, held, given)
  /\ ReplyIsLater(spent, wire, given)
  /\ AnsweredAfter(spent, wire)
  /\ TakenAfter(spent, given)
  /\ OneTaker(wire, given)

(* What stays true when nothing is sent that was not sent before. *)
LEMMA FirstsLater ==
  ASSUME NEW spent, NEW wire, NEW held, NEW given, Firsts(spent, wire, held, given),
         NEW paid, NEW rest, NEW some, spent \subseteq paid, some \subseteq held,
         \A l : Used(l, paid, rest) => Used(l, spent, wire),
         \A b \in rest : \E e \in wire : b.frame = e.frame
  PROVE  Firsts(paid, rest, some, given)
<1>1. HeldIsNew(paid, rest, some, given)
  BY DEF Firsts, HeldIsNew
<1>2. ReplyIsLater(paid, rest, given)
  BY DEF Firsts, ReplyIsLater
<1>3. AnsweredAfter(paid, rest)
  BY DEF Firsts, AnsweredAfter
<1>4. TakenAfter(paid, given)
  BY DEF Firsts, TakenAfter
<1>5. OneTaker(rest, given)
  BY DEF Firsts, OneTaker
<1> QED BY <1>1, <1>2, <1>3, <1>4, <1>5 DEF Firsts

(* The cable is paid for: it was ahead, and nothing else will cross it     *)
(* with the same label.                                                    *)
LEMMA Crossed ==
  ASSUME TablesOK, ping.sent \in Nat, ping.sent > 0,
         NEW spent, NEW wire, NEW cost \in Nat, Ledger(spent, wire, cost),
         NEW e \in wire, e.port \in Port, NEW p \in Peers(e.port), Label(e.frame) \in Labels,
         NEW rest \in SUBSET wire, \A b \in rest : Disjoint(e, b)
  PROVE  LET t == Token(Label(e.frame), {p, e.port})
         IN /\ t \notin spent
            /\ Ledger(spent \cup {t}, rest, cost + 1)
<1> DEFINE c == {p, e.port}
           l == Label(e.frame)
           t == Token(l, c)
           paid == spent \cup {t}
<1>1. c \in Ahead(e.port) /\ c \in live
  BY AheadHere
<1>2. t \notin spent
  BY <1>1 DEF Ledger
<1>3. t \in Tokens
  <2>1. ping.sent \in 1 .. ping.sent
    OBVIOUS
  <2> QED BY <1>1, <2>1 DEF Token, Tokens
<1> HIDE DEF t
<1>4. IsFiniteSet(paid) /\ Cardinality(paid) = Cardinality(spent) + 1 /\ Cardinality(spent) \in Nat
  BY <1>2, FS_AddElement, FS_CardinalityType DEF Ledger
<1>5. cost + 1 <= Cardinality(paid)
  BY <1>4 DEF Ledger
<1>6. ASSUME NEW b \in rest, NEW k \in Ahead(b.port)
      PROVE  Token(Label(b.frame), k) \notin paid
  <2>1. Token(Label(b.frame), k) \notin spent
    BY DEF Ledger
  <2>2. Token(Label(b.frame), k) # t
    BY <1>1, <1>6 DEF Disjoint, Token, t
  <2> QED BY <2>1, <2>2
<1>7. paid \subseteq Tokens
  BY <1>3 DEF Ledger
<1>8. Ledger(paid, rest, cost + 1)
  BY <1>4, <1>5, <1>6, <1>7 DEF Ledger
<1> QED BY <1>2, <1>8 DEF t

(* A frame whose label was not sent before has all its way to go, and is   *)
(* apart from all that is on its way.                                      *)
LEMMA Launched ==
  ASSUME TablesOK, NEW spent, NEW wire, NEW cost, Ledger(spent, wire, cost),
         NEW more, NEW l, \A b \in more : b.port \in Port /\ Label(b.frame) = l,
         ~Used(l, spent, wire)
  PROVE  /\ Ledger(spent, wire \cup more, cost)
         /\ \A x \in wire, b \in more : Disjoint(x, b)
<1>1. ASSUME NEW b \in more, NEW c \in Ahead(b.port)
      PROVE  Token(Label(b.frame), c) \notin spent
  BY DEF Used, Ahead
<1>2. Ledger(spent, wire \cup more, cost)
  BY <1>1 DEF Ledger
<1>3. \A x \in wire, b \in more : Disjoint(x, b)
  BY DEF Used, Disjoint
<1> QED BY <1>2, <1>3

-------------------------------------------------------------------------------
(* Without a loop a command stays calm: every hop is paid for. *)

Account(wire, held, given, cost) ==
  \E spent : Ledger(spent, wire, cost) /\ Firsts(spent, wire, held, given)

Calm ==
  ping # NoPing /\ live \notin Looped =>
    /\ ~storm
    /\ AllTidy(stack)
    /\ Account(OnTheWay(stack), HeldBack(stack), answered, hops)

(* While cables, addresses and command stay, so do the books. *)
LEMMA CalmNext ==
  ASSUME UNCHANGED <<live, ip, ping>>,
         ping # NoPing /\ live \notin Looped =>
           /\ ~storm'
           /\ AllTidy(stack')
           /\ Account(OnTheWay(stack'), HeldBack(stack'), answered', hops')
  PROVE  Calm'
<1>1. \A q : Ahead(q)' = Ahead(q)
  BY DEF Ahead, Peers, ConnectedBy
<1>2. \A e, b : Disjoint(e, b)' <=> Disjoint(e, b)
  BY <1>1 DEF Disjoint
<1>3. AllTidy(stack)' <=> AllTidy(stack')
  BY <1>2 DEF AllTidy, Tidy, Apart
<1>4. Tokens' = Tokens /\ \A l, c : Token(l, c)' = Token(l, c)
  BY DEF Tokens, Labels, Holders, Token
<1>5. \A spent, wire, cost : Ledger(spent, wire, cost)' <=> Ledger(spent, wire, cost)
  BY <1>1, <1>4 DEF Ledger
<1>6. /\ \A l, spent, wire : Used(l, spent, wire)' <=> Used(l, spent, wire)
      /\ \A given : Done(given)' <=> Done(given)
  BY <1>4 DEF Used, Done
<1>7. \A spent, wire, held, given :
        Firsts(spent, wire, held, given)' <=> Firsts(spent, wire, held, given)
  <2> TAKE spent, wire, held, given
  <2>1. HeldIsNew(spent, wire, held, given)' <=> HeldIsNew(spent, wire, held, given)
    BY <1>6 DEF HeldIsNew
  <2>2. ReplyIsLater(spent, wire, given)' <=> ReplyIsLater(spent, wire, given)
    BY <1>6 DEF ReplyIsLater
  <2>3. AnsweredAfter(spent, wire)' <=> AnsweredAfter(spent, wire)
    BY <1>4, <1>6 DEF AnsweredAfter
  <2>4. TakenAfter(spent, given)' <=> TakenAfter(spent, given)
    BY <1>4 DEF TakenAfter
  <2>5. OneTaker(wire, given)' <=> OneTaker(wire, given)
    BY DEF OneTaker
  <2> QED BY <2>1, <2>2, <2>3, <2>4, <2>5 DEF Firsts
<1>8. Account(OnTheWay(stack), HeldBack(stack), answered, hops)'
        <=> Account(OnTheWay(stack'), HeldBack(stack'), answered', hops')
  BY <1>5, <1>7 DEF Account
<1> QED BY <1>3, <1>8 DEF Calm

(* What one crossing leaves in the books, before anything is sent. *)
Paid(spent, e, p) == spent \cup {Token(Label(e.frame), {p, e.port})}

Balanced(spent) ==
  /\ Ledger(spent, OnTheWay(stack), hops)
  /\ Firsts(spent, OnTheWay(stack), HeldBack(stack), answered)

LEMMA CommandRuns ==
  ASSUME IInv, stack # <<>>
  PROVE  /\ ping # NoPing /\ ping.sent \in Nat /\ ping.sent > 0
         /\ ping.host \in Host /\ ip[ping.host] \in Ip /\ hops \in Nat
<1>1. Pinging /\ ping # NoPing
  BY NoPingIsIdle DEF IInv, Idle
<1>2. ping.sent \in 0 .. Count /\ ping.sent # 0
  BY <1>1 DEF Pinging
<1>3. ping.sent \in Nat /\ ping.sent > 0 /\ hops \in Nat
  BY <1>2, BoundsFacts DEF IInv, TablesOK
<1> QED BY <1>1, <1>3 DEF Pinging

LEMMA Crossing ==
  ASSUME IInv, Manners, AllTidy(stack), NEW spent, Balanced(spent),
         NEW e, NEW p, Arriving(e, p)
  PROVE  /\ Token(Label(e.frame), {p, e.port}) \notin spent
         /\ {p, e.port} \in live
         /\ Ledger(Paid(spent, e, p), OnTheWay(Popped), hops + 1)
         /\ Firsts(Paid(spent, e, p), OnTheWay(Popped), HeldBack(stack), answered)
         /\ \A l : Used(l, Paid(spent, e, p), OnTheWay(Popped)) => Used(l, spent, OnTheWay(stack))
         /\ \A b \in OnTheWay(Popped) : Disjoint(e, b)
<1>1. /\ stack # <<>> /\ e \in OnTheWay(stack) /\ e.port \in Port /\ p \in Peers(e.port)
      /\ Top.queue # <<>> /\ stack \in Seq(LoopType) /\ e = Head(Top.queue)
  BY DEF Arriving, Emission
<1>2. \A b \in OnTheWay(Popped) : Disjoint(e, b)
  BY <1>1, TidyPopped DEF IInv
<1>3. OnTheWay(Popped) \subseteq OnTheWay(stack)
  BY <1>1, FirstPopped
<1>4. Label(e.frame) \in Labels
  BY <1>1 DEF Manners, Mannered
<1>5. /\ Token(Label(e.frame), {p, e.port}) \notin spent
      /\ Ledger(Paid(spent, e, p), OnTheWay(Popped), hops + 1)
  <2>1. TablesOK /\ ping.sent \in Nat /\ ping.sent > 0 /\ hops \in Nat
    BY <1>1, CommandRuns DEF IInv
  <2>2. Ledger(spent, OnTheWay(stack), hops)
    BY DEF Balanced
  <2> QED BY <1>1, <1>2, <1>3, <1>4, <2>1, <2>2, Crossed DEF Paid
<1>6. ASSUME NEW l, Used(l, Paid(spent, e, p), OnTheWay(Popped))
      PROVE  Used(l, spent, OnTheWay(stack))
  <2>1. \A c : Token(l, c) = Token(Label(e.frame), {p, e.port}) => l = Label(e.frame)
    BY DEF Token
  <2> QED BY <1>1, <1>3, <1>6, <2>1 DEF Used, Paid
<1>7. Firsts(Paid(spent, e, p), OnTheWay(Popped), HeldBack(stack), answered)
  <2>1. spent \subseteq Paid(spent, e, p)
    BY DEF Paid
  <2> QED BY <1>3, <1>6, <2>1, FirstsLater DEF Balanced
<1>8. {p, e.port} \in live
  BY <1>1, PeerFacts DEF IInv
<1> QED BY <1>2, <1>5, <1>6, <1>7, <1>8

(* What an outcome of a turn has to show for the books to balance again. *)
Squared(spent, more, kept) ==
  /\ Ledger(spent, OnTheWay(Popped) \cup more, hops + 1)
  /\ Firsts(spent, OnTheWay(Popped) \cup more, HeldBack(stack) \cup kept, answered')
  /\ \A x \in OnTheWay(Popped) : \A b \in more : Disjoint(x, b)
  /\ \A b \in more, c \in more : b.port # c.port => Disjoint(b, c)

LEMMA RelaysSquared ==
  ASSUME IInv, Manners, live \notin Looped, AllTidy(stack), NEW spent, Balanced(spent),
         NEW e, NEW p, Arriving(e, p), NEW more, NEW kept, Relays(e, p, more, kept)
  PROVE  Squared(Paid(spent, e, p), more, kept)
<1> DEFINE paid == Paid(spent, e, p)
           rest == OnTheWay(Popped)
<1>1. /\ Ledger(paid, rest, hops + 1)
      /\ \A l : Used(l, paid, rest) => Used(l, spent, OnTheWay(stack))
      /\ \A b \in rest : Disjoint(e, b)
  BY Crossing
<1>2. PICK s \in Switch : p \in PortsOf(s) /\ \A b \in more : b.port \in PortsOf(s) \ {p}
  BY DEF Relays
<1>3. \A b \in more : b.frame = e.frame
  BY DEF Relays
<1>4. kept = {} /\ answered' = answered
  BY DEF Relays
<1>5. e.port \in Port /\ p \in Peers(e.port) /\ TablesOK /\ OneCablePerPort /\ e \in OnTheWay(stack)
  BY DEF Arriving, Emission, IInv, Manners
<1>6. ASSUME NEW b \in more PROVE Ahead(b.port) \subseteq Ahead(e.port) \ {{p, e.port}}
  BY <1>2, <1>5, AheadOn
<1>7. ASSUME NEW b \in more, NEW c \in Ahead(b.port) PROVE Token(Label(b.frame), c) \notin paid
  <2>1. c \in Ahead(e.port) /\ c # {p, e.port} /\ b.frame = e.frame
    BY <1>3, <1>6
  <2>2. Token(Label(e.frame), c) \notin spent
    BY <1>5, <2>1 DEF Balanced, Ledger
  <2> QED BY <2>1, <2>2 DEF Paid, Token
<1>8. Ledger(paid, rest \cup more, hops + 1)
  BY <1>1, <1>7 DEF Ledger
<1>9. ASSUME NEW x \in rest, NEW b \in more PROVE Disjoint(x, b)
  <2>1. Disjoint(e, x) /\ b.frame = e.frame /\ Ahead(b.port) \subseteq Ahead(e.port)
    BY <1>1, <1>3, <1>6
  <2> QED BY <2>1 DEF Disjoint
<1>10. ASSUME NEW b \in more, NEW c \in more, b.port # c.port PROVE Disjoint(b, c)
  BY <1>2, <1>5, <1>10, AheadApart DEF Disjoint
<1>11. Firsts(paid, rest \cup more, HeldBack(stack) \cup kept, answered')
  <2>1. ASSUME NEW l, Used(l, paid, rest \cup more) PROVE Used(l, spent, OnTheWay(stack))
    <3>1. Used(l, paid, rest) \/ l = Label(e.frame)
      BY <1>3, <2>1 DEF Used
    <3> QED BY <1>1, <1>5, <3>1 DEF Used
  <2>2. spent \subseteq paid
    BY DEF Paid
  <2>3. \A b \in rest \cup more : \E x \in OnTheWay(stack) : b.frame = x.frame
    <3>1. rest \subseteq OnTheWay(stack)
      BY FirstPopped DEF Arriving
    <3> QED BY <1>3, <1>5, <3>1
  <2>4. Firsts(spent, OnTheWay(stack), HeldBack(stack), answered)
    BY DEF Balanced
  <2> HIDE DEF paid, rest
  <2>5. Firsts(paid, rest \cup more, HeldBack(stack), answered)
    BY <2>1, <2>2, <2>3, <2>4, FirstsLater
  <2> QED BY <1>4, <2>5
<1> QED BY <1>8, <1>9, <1>10, <1>11 DEF Squared

(* What is launched besides adds its one label to those in use. *)
LEMMA UsedMore ==
  ASSUME NEW spent, NEW wire, NEW more, NEW l, \A b \in more : Label(b.frame) = l,
         NEW k, Used(k, spent, wire \cup more)
  PROVE  Used(k, spent, wire) \/ k = l
BY DEF Used

LEMMA TellsMacSquared ==
  ASSUME IInv, Manners, live \notin Looped, AllTidy(stack), NEW spent, Balanced(spent),
         NEW e, NEW p, Arriving(e, p), NEW more, NEW kept, TellsMac(e, p, more, kept)
  PROVE  Squared(Paid(spent, e, p), more, kept)
<1> DEFINE paid == Paid(spent, e, p)
           rest == OnTheWay(Popped)
           l == <<"is-at", p>>
<1>1. /\ Token(Label(e.frame), {p, e.port}) \notin spent
      /\ {p, e.port} \in live
      /\ Ledger(paid, rest, hops + 1)
      /\ Firsts(paid, rest, HeldBack(stack), answered)
      /\ \A k : Used(k, paid, rest) => Used(k, spent, OnTheWay(stack))
  BY Crossing
<1>2. /\ p \in Host /\ Label(e.frame) = <<"who-has", ip[p]>>
      /\ kept = {} /\ answered' = answered
  BY DEF TellsMac, Label
<1>3. \A b \in more : b.port = p /\ Label(b.frame) = l /\ b.frame.kind = "is-at"
  BY DEF TellsMac, Label
<1>4. p \in Port /\ TablesOK /\ OneCablePerPort /\ e.port \in Port /\ p \in Peers(e.port)
  BY <1>2 DEF Port, IInv, Manners, Arriving, Emission
<1>5. ~Used(l, paid, rest)
  <2> SUFFICES ASSUME Used(l, spent, OnTheWay(stack)) PROVE FALSE
    BY <1>1
  <2>1. AnsweredAfter(spent, OnTheWay(stack))
    BY DEF Balanced, Firsts
  <2>2. Token(<<"who-has", ip[p]>>, {p, e.port}) \in spent
    BY <1>1, <1>2, <2>1 DEF AnsweredAfter
  <2> QED BY <1>1, <1>2, <2>2
<1>6. /\ Ledger(paid, rest \cup more, hops + 1)
      /\ \A x \in rest : \A b \in more : Disjoint(x, b)
  <2>1. \A b \in more : b.port \in Port /\ Label(b.frame) = l
    BY <1>3, <1>4
  <2> HIDE DEF paid, rest, l
  <2> QED BY <1>1, <1>4, <1>5, <2>1, Launched
<1>7. \A k : Used(k, paid, rest \cup more) => Used(k, paid, rest) \/ k = l
  <2> HIDE DEF paid, rest, l
  <2> QED BY <1>3, UsedMore
<1>8. \A c \in live : p \in c => Token(<<"who-has", ip[p]>>, c) \in paid
  <2>1. \A c \in live : p \in c => c = {p, e.port}
    BY <1>4, OnePeer
  <2> QED BY <1>2, <2>1 DEF Paid
<1>9. Firsts(paid, rest \cup more, HeldBack(stack), answered)
  <2>1. HeldIsNew(paid, rest \cup more, HeldBack(stack), answered)
    <3>1. HeldIsNew(paid, rest, HeldBack(stack), answered)
      BY <1>1 DEF Firsts
    <3>2. \A i : l # <<"echo", i>> /\ l # <<"reply", i>>
      OBVIOUS
    <3> HIDE DEF paid, rest, l
    <3> QED BY <1>7, <3>1, <3>2 DEF HeldIsNew
  <2>2. ReplyIsLater(paid, rest \cup more, answered)
    <3>1. ReplyIsLater(paid, rest, answered)
      BY <1>1 DEF Firsts
    <3>2. \A i : l # <<"who-has", i>> /\ l # <<"reply", i>>
      OBVIOUS
    <3> HIDE DEF paid, rest, l
    <3> QED BY <1>7, <3>1, <3>2 DEF ReplyIsLater
  <2>3. AnsweredAfter(paid, rest \cup more)
    <3>1. AnsweredAfter(paid, rest)
      BY <1>1 DEF Firsts
    <3>2. \A h : l = <<"is-at", h>> => h = p
      OBVIOUS
    <3> HIDE DEF paid, rest, l
    <3> QED BY <1>7, <1>8, <3>1, <3>2 DEF AnsweredAfter
  <2>4. TakenAfter(paid, answered)
    BY <1>1 DEF Firsts
  <2>5. OneTaker(rest \cup more, answered)
    <3>1. OneTaker(rest, answered)
      BY <1>1 DEF Firsts
    <3> HIDE DEF rest
    <3> QED BY <1>3, <3>1 DEF OneTaker
  <2> QED BY <2>1, <2>2, <2>3, <2>4, <2>5 DEF Firsts
<1>10. \A b \in more, c \in more : b.port = c.port
  BY <1>3
<1> QED BY <1>2, <1>6, <1>9, <1>10 DEF Squared

LEMMA RepliesSquared ==
  ASSUME IInv, Manners, live \notin Looped, AllTidy(stack), NEW spent, Balanced(spent),
         NEW e, NEW p, Arriving(e, p), NEW more, NEW kept, Replies(e, p, more, kept)
  PROVE  Squared(Paid(spent, e, p), more, kept)
<1> DEFINE paid == Paid(spent, e, p)
           rest == OnTheWay(Popped)
           wire == OnTheWay(stack)
           own == ip[ping.host]
<1>1. /\ Token(Label(e.frame), {p, e.port}) \notin spent
      /\ {p, e.port} \in live
      /\ Ledger(paid, rest, hops + 1)
      /\ Firsts(paid, rest, HeldBack(stack), answered)
      /\ \A k : Used(k, paid, rest) => Used(k, spent, wire)
  BY Crossing
<1>2. /\ e \in wire /\ e.frame.kind = "echo" /\ Mannered(e)
      /\ e.frame.seq = ping.sent
      /\ p \in Host /\ Accepts(p, e.frame)
  BY DEF Arriving, Replies, Manners, AtHand, Told, IsArp
<1>3. /\ e.frame.dst = p /\ e.frame.sip = own
      /\ Label(e.frame) = <<"echo", ping.target>>
  BY <1>2, LabelFacts, BroadcastAssumption DEF Mannered, Accepts, Label, Broadcast
<1>4. p \in Port /\ TablesOK /\ OneCablePerPort /\ e.port \in Port /\ p \in Peers(e.port)
  BY <1>2 DEF Port, IInv, Manners, Arriving, Emission
<1>5. Firsts(spent, wire, HeldBack(stack), answered)
  BY DEF Balanced
<1>6. ~Done(answered)
  <2> SUFFICES ASSUME NEW a \in answered, a.seq = ping.sent PROVE FALSE
    BY DEF Done
  <2>1. a.host = p
    BY <1>2, <1>3, <1>5 DEF Firsts, OneTaker
  <2>2. Token(<<"echo", ping.target>>, {p, e.port}) \in spent
    BY <1>1, <1>5, <2>1 DEF Firsts, TakenAfter
  <2> QED BY <1>1, <1>3, <2>2
<1>7. ~Used(<<"reply", own>>, paid, rest) /\ ~Used(<<"who-has", own>>, paid, rest)
  BY <1>1, <1>5, <1>6 DEF Firsts, ReplyIsLater
<1>8. HeldBack(stack) = {}
  <2> SUFFICES ASSUME NEW pk \in HeldBack(stack) PROVE FALSE
    OBVIOUS
  <2>1. pk.kind \in {"echo", "reply"}
    <3>1. PICK n \in DOMAIN stack : pk = stack[n].held /\ pk # NoPacket
      BY DEF HeldBack
    <3>2. Sane(stack[n], ping, answered)
      BY <3>1 DEF IInv, Nested
    <3> QED BY <3>1, <3>2 DEF Sane, Kept, Packet
  <2>2. Used(<<"echo", ping.target>>, spent, wire)
    BY <1>2, <1>3 DEF Used
  <2> QED BY <1>5, <1>6, <2>1, <2>2 DEF Firsts, HeldIsNew
<1>9. \A b \in more : b.port = p /\ b.frame.dip = own
  BY <1>3 DEF Replies
<1>10. PICK given : given.host = p /\ given.seq = ping.sent /\ answered' = answered \cup {given}
  <2> DEFINE a == [host |-> p, ip |-> e.frame.dip, seq |-> e.frame.seq]
  <2>1. a.host = p /\ a.seq = ping.sent
    BY <1>2
  <2>2. answered' = answered \cup {a}
    BY DEF Replies
  <2> HIDE DEF a
  <2> QED BY <2>1, <2>2
<1>11. PICK l \in {<<"reply", own>>, <<"who-has", own>>} :
         /\ \A b \in more : Label(b.frame) = l
         /\ \A pk \in kept : pk.kind = "reply" /\ l = <<"who-has", own>>
  <2>1. CASE kept = {} /\ \A b \in more : b.frame.kind = "reply"
    <3>1. \A b \in more : Label(b.frame) = <<"reply", own>>
      BY <1>9, <2>1 DEF Label
    <3> QED BY <2>1, <3>1
  <2>2. CASE /\ \A b \in more : b.frame.kind = "who-has"
             /\ \A pk \in kept : pk.kind = "reply" /\ pk.dip = e.frame.sip
    <3>1. \A b \in more : Label(b.frame) = <<"who-has", own>>
      BY <1>9, <2>2 DEF Label
    <3> QED BY <2>2, <3>1
  <2> QED BY <2>1, <2>2 DEF Replies
<1>12. \A b \in more : b.frame.kind # "echo"
  BY <1>11 DEF Label
<1> HIDE DEF paid, rest, wire, own
<1>13. /\ Ledger(paid, rest \cup more, hops + 1)
       /\ \A x \in rest : \A b \in more : Disjoint(x, b)
  <2>1. ~Used(l, paid, rest)
    BY <1>7, <1>11
  <2>2. \A b \in more : b.port \in Port /\ Label(b.frame) = l
    BY <1>4, <1>9, <1>11
  <2> QED BY <1>1, <1>4, <2>1, <2>2, Launched
<1>14. \A k : Used(k, paid, rest \cup more) => Used(k, paid, rest) \/ k = l
  BY <1>11, UsedMore
<1>15. Done(answered')
  BY <1>10 DEF Done
<1>16. Firsts(paid, rest \cup more, kept, answered')
  <2>1. HeldIsNew(paid, rest \cup more, kept, answered')
    <3> SUFFICES ASSUME NEW pk \in kept
                 PROVE  pk.kind = "reply" /\ ~Used(<<"reply", own>>, paid, rest \cup more)
      BY <1>15 DEF HeldIsNew, own
    <3> QED BY <1>7, <1>11, <1>14
  <2>2. ReplyIsLater(paid, rest \cup more, answered')
    BY <1>15 DEF ReplyIsLater
  <2>3. AnsweredAfter(paid, rest \cup more)
    <3>1. AnsweredAfter(paid, rest)
      BY <1>1 DEF Firsts
    <3>2. \A h : l # <<"is-at", h>>
      BY <1>11
    <3> QED BY <1>14, <3>1, <3>2 DEF AnsweredAfter
  <2>4. TakenAfter(paid, answered')
    <3>1. TakenAfter(paid, answered)
      BY <1>1 DEF Firsts
    <3>2. \A c \in live : p \in c => c = {p, e.port}
      BY <1>4, OnePeer
    <3>3. Token(<<"echo", ping.target>>, {p, e.port}) \in paid
      BY <1>3 DEF paid, Paid
    <3> QED BY <1>10, <3>1, <3>2, <3>3 DEF TakenAfter
  <2>5. OneTaker(rest \cup more, answered')
    <3>1. \A b \in rest : b.frame.kind = "echo" => b.frame.dst = p
      <4>1. rest \subseteq wire
        BY FirstPopped DEF Arriving, rest, wire
      <4>2. OneTaker(wire, answered)
        BY <1>5 DEF Firsts
      <4> QED BY <1>2, <1>3, <4>1, <4>2 DEF OneTaker
    <3>2. \A a \in answered' : a.seq = ping.sent => a.host = p
      BY <1>6, <1>10 DEF Done
    <3> QED BY <1>12, <3>1, <3>2 DEF OneTaker
  <2> QED BY <2>1, <2>2, <2>3, <2>4, <2>5 DEF Firsts
<1>17. \A b \in more, c \in more : b.port = c.port
  BY <1>9
<1> QED BY <1>8, <1>13, <1>16, <1>17 DEF Squared, paid, rest

LEMMA QuietSquared ==
  ASSUME IInv, Manners, AllTidy(stack), NEW spent, Balanced(spent),
         NEW e, NEW p, Arriving(e, p), NEW more, NEW kept, Quiet(more, kept)
  PROVE  Squared(Paid(spent, e, p), more, kept)
<1>1. /\ Ledger(Paid(spent, e, p), OnTheWay(Popped), hops + 1)
      /\ Firsts(Paid(spent, e, p), OnTheWay(Popped), HeldBack(stack), answered)
  BY Crossing
<1>2. /\ OnTheWay(Popped) \cup more = OnTheWay(Popped) /\ HeldBack(stack) \cup kept = HeldBack(stack)
      /\ answered' = answered /\ more = {}
  BY DEF Quiet
<1> QED BY <1>1, <1>2 DEF Squared

LEMMA DeliverCalm ==
  ASSUME IInv, Wire, ListedOnce, Manners, Calm, Deliver
  PROVE  Calm'
<1>1. PICK e, p, more, kept : Arriving(e, p) /\ Turn(e, p, more, kept)
  BY DeliverTurns
<1>2. UNCHANGED <<live, ip, storm, ping>> /\ hops' = hops + 1
  BY DEF Deliver
<1>3. ASSUME ping # NoPing, live \notin Looped
      PROVE  /\ ~storm'
             /\ AllTidy(stack')
             /\ Account(OnTheWay(stack'), HeldBack(stack'), answered', hops')
  <2>1. PICK spent : Balanced(spent)
    BY <1>3 DEF Calm, Account, Balanced
  <2>2. AllTidy(stack) /\ ~storm
    BY <1>3 DEF Calm
  <2>3. Squared(Paid(spent, e, p), more, kept)
    <3>1. CASE Relays(e, p, more, kept)
      BY <1>1, <1>3, <2>1, <2>2, <3>1, RelaysSquared
    <3>2. CASE TellsMac(e, p, more, kept)
      BY <1>1, <1>3, <2>1, <2>2, <3>2, TellsMacSquared
    <3>3. CASE Replies(e, p, more, kept)
      BY <1>1, <1>3, <2>1, <2>2, <3>3, RepliesSquared
    <3>4. CASE Quiet(more, kept)
      BY <1>1, <2>1, <2>2, <3>4, QuietSquared
    <3> QED BY <1>1, <3>1, <3>2, <3>3, <3>4 DEF Turn
  <2>4. /\ OnTheWay(stack') = OnTheWay(Popped) \cup more
        /\ HeldBack(stack') = HeldBack(stack) \cup kept
    BY <1>1 DEF Turn
  <2>5. AllTidy(stack')
    BY <1>1, <2>2, <2>3 DEF Turn, Squared
  <2>6. Account(OnTheWay(stack'), HeldBack(stack'), answered', hops')
    BY <1>2, <2>3, <2>4 DEF Squared, Account
  <2> QED BY <1>2, <2>2, <2>5, <2>6
<1> QED BY <1>2, <1>3, CalmNext

-------------------------------------------------------------------------------
(* The hop limit leaves room for every crossing a command can cost. *)

(* Each request is up to six frames that cross a cable once each: two      *)
(* questions, the request, its reply, and an answer from every host with   *)
(* one of the two addresses asked for.                                     *)
Roomy ==
  /\ IsFiniteSet(Host)
  /\ \A a \in Addressable, i \in Ip, j \in Ip :
       Count * (4 + Cardinality({h \in Host : a[h] \in {i, j}})) * Cardinality(Cable) < HopLimit

LEMMA ProductsGrow ==
  ASSUME NEW a \in Nat, NEW b \in Nat, NEW c \in Nat, NEW d \in Nat, a <= b, c <= d
  PROVE  a * c <= b * d
<1>1. PICK k \in Nat : b = a + k
  <2>1. b - a \in Nat /\ b = a + (b - a)
    OBVIOUS
  <2> QED BY <2>1
<1>2. PICK m \in Nat : d = c + m
  <2>1. d - c \in Nat /\ d = c + (d - c)
    OBVIOUS
  <2> QED BY <2>1
<1>3. a * c \in Nat /\ a * m \in Nat /\ k * c \in Nat /\ k * m \in Nat
  OBVIOUS
<1>4. (a + k) * (c + m) = a * c + a * m + k * c + k * m
  OBVIOUS
<1>5. a * c <= a * c + a * m + k * c + k * m
  BY <1>3
<1> QED BY <1>1, <1>2, <1>4, <1>5

LEMMA FewLabels ==
  ASSUME IsFiniteSet(Host)
  PROVE  /\ IsFiniteSet(Labels) /\ Cardinality(Labels) \in Nat /\ Cardinality(Holders) \in Nat
         /\ Cardinality(Labels) <= 4 + Cardinality(Holders)
<1> DEFINE a == <<"who-has", ping.target>>
           b == <<"who-has", ip[ping.host]>>
           c == <<"echo", ping.target>>
           d == <<"reply", ip[ping.host]>>
           own == {a, b, c, d}
           answers == {"is-at"} \X Holders
<1>1. IsFiniteSet(Holders) /\ Cardinality(Holders) \in Nat
  BY FS_Subset, FS_CardinalityType DEF Holders
<1>2. IsFiniteSet(answers) /\ Cardinality(answers) = Cardinality(Holders)
  <2>1. IsFiniteSet({"is-at"}) /\ Cardinality({"is-at"}) = 1
    BY FS_Singleton
  <2>2. IsFiniteSet(answers) /\ Cardinality(answers) = 1 * Cardinality(Holders)
    BY <1>1, <2>1, FS_Product
  <2> QED BY <1>1, <2>2
<1>3. IsFiniteSet(own) /\ Cardinality(own) \in Nat /\ Cardinality(own) <= 4
  <2> HIDE DEF a, b, c, d
  <2>1. IsFiniteSet({a}) /\ Cardinality({a}) = 1
    BY FS_Singleton
  <2>2. IsFiniteSet({a, b}) /\ Cardinality({a, b}) \in Nat /\ Cardinality({a, b}) <= 2
    <3>1. {a, b} = {a} \cup {b}
      OBVIOUS
    <3> QED BY <2>1, <3>1, FS_AddElement
  <2>3. IsFiniteSet({a, b, c}) /\ Cardinality({a, b, c}) \in Nat /\ Cardinality({a, b, c}) <= 3
    <3>1. {a, b, c} = {a, b} \cup {c}
      OBVIOUS
    <3> QED BY <2>2, <3>1, FS_AddElement
  <2>4. own = {a, b, c} \cup {d}
    OBVIOUS
  <2> HIDE DEF own
  <2>5. /\ IsFiniteSet(own)
        /\ \/ Cardinality(own) = Cardinality({a, b, c})
           \/ Cardinality(own) = Cardinality({a, b, c}) + 1
    BY <2>3, <2>4, FS_AddElement
  <2> QED BY <2>3, <2>5
<1>4. Labels = own \cup answers
  BY DEF Labels
<1> HIDE DEF own, answers
<1>5. /\ IsFiniteSet(own \cup answers)
      /\ Cardinality(own \cup answers)
           = Cardinality(own) + Cardinality(answers) - Cardinality(own \cap answers)
  BY <1>2, <1>3, FS_Union
<1>6. Cardinality(own \cap answers) \in Nat
  <2>1. own \cap answers \subseteq own
    OBVIOUS
  <2> QED BY <1>3, <2>1, FS_Subset, FS_CardinalityType
<1>7. Cardinality(own \cup answers) \in Nat
  BY <1>5, FS_CardinalityType
<1> QED BY <1>1, <1>2, <1>3, <1>4, <1>5, <1>6, <1>7

LEMMA EnoughRoom ==
  ASSUME IInv, Manners, Roomy, ping # NoPing, NEW spent \in SUBSET Tokens
  PROVE  IsFiniteSet(spent) => Cardinality(spent) < HopLimit
<1>1. /\ ping.target \in Ip /\ ip[ping.host] \in Ip
      /\ ping.sent \in Nat /\ ping.sent <= Count /\ Count \in Nat /\ HopLimit \in Nat
      /\ ip \in Addressable
  <2>1. Pinging
    BY DEF IInv, Idle
  <2> QED BY <2>1, BoundsFacts DEF Pinging, Manners
<1>2. PICK s \in Nat : s = Cardinality(1 .. ping.sent) /\ IsFiniteSet(1 .. ping.sent) /\ s <= Count
  <2>1. IsFiniteSet(1 .. ping.sent) /\ Cardinality(1 .. ping.sent) = ping.sent
    <3>1. PICK x \in Nat : x = ping.sent
      BY <1>1
    <3>2. 1 \in Int /\ x \in Int /\ (IF 1 > x THEN 0 ELSE x - 1 + 1) = x
      OBVIOUS
    <3>3. IsFiniteSet(1 .. x) /\ Cardinality(1 .. x) = x
      BY <3>2, FS_Interval
    <3> QED BY <3>1, <3>3
  <2> QED BY <1>1, <2>1
<1>3. PICK n \in Nat : n = Cardinality(Holders)
  BY FewLabels DEF Roomy
<1>4. PICK l \in Nat : l = Cardinality(Labels) /\ IsFiniteSet(Labels) /\ l <= 4 + n
  BY <1>3, FewLabels DEF Roomy
<1>5. PICK k \in Nat : k = Cardinality(Cable)
  BY CableAssumption, FS_CardinalityType
<1>6. PICK v \in Nat : v = Cardinality(live) /\ IsFiniteSet(live) /\ v <= k
  BY <1>5, CableAssumption, FS_Subset, FS_CardinalityType DEF IInv, TablesOK
<1>7. IsFiniteSet(Tokens) /\ Cardinality(Tokens) = (s * l) * v
  <2>1. /\ IsFiniteSet((1 .. ping.sent) \X Labels)
        /\ Cardinality((1 .. ping.sent) \X Labels) = s * l
    BY <1>2, <1>4, FS_Product
  <2>2. PICK t : t = (1 .. ping.sent) \X Labels
    OBVIOUS
  <2>3. IsFiniteSet(t) /\ Cardinality(t) = s * l /\ Tokens = t \X live
    BY <2>1, <2>2 DEF Tokens
  <2>4. IsFiniteSet(t \X live) /\ Cardinality(t \X live) = Cardinality(t) * Cardinality(live)
    BY ONLY <1>6, <2>3, FS_Product
  <2> QED BY ONLY <1>6, <2>3, <2>4
<1>8. (s * l) * v <= (Count * (4 + n)) * k
  <2>1. s * l \in Nat /\ Count * (4 + n) \in Nat /\ 4 + n \in Nat
    BY <1>1
  <2>2. s * l <= Count * (4 + n)
    BY <1>1, <1>2, <1>4, <2>1, ProductsGrow
  <2> QED BY <1>6, <2>1, <2>2, ProductsGrow
<1>9. Count * (4 + n) * k < HopLimit
  BY <1>1, <1>3, <1>5 DEF Roomy, Holders
<1>10. ASSUME IsFiniteSet(spent) PROVE Cardinality(spent) < HopLimit
  <2>1. Cardinality(spent) <= (s * l) * v /\ Cardinality(spent) \in Nat
    BY <1>7, <1>10, FS_Subset, FS_CardinalityType
  <2>2. (s * l) * v \in Nat /\ (Count * (4 + n)) * k \in Nat
    BY <1>1
  <2>3. \A x, y, z \in Nat : x <= y /\ y <= z /\ z < HopLimit => x < HopLimit
    BY <1>1
  <2> QED BY <1>8, <1>9, <2>1, <2>2, <2>3
<1> QED BY <1>10

(* Before the hop limit a loop returns only when its queue is empty. *)
LEMMA NoStorm ==
  ASSUME IInv, Manners, Roomy, Calm, live \notin Looped, Return
  PROVE  Top.queue = <<>> /\ ~storm'
<1>1. stack # <<>> /\ Returned /\ storm' = (storm \/ Top.queue # <<>>)
  BY DEF Return
<1>2. ping # NoPing /\ hops \in Nat
  BY <1>1, CommandRuns
<1>3. ~storm /\ Account(OnTheWay(stack), HeldBack(stack), answered, hops)
  BY <1>2 DEF Calm
<1>4. PICK spent : Ledger(spent, OnTheWay(stack), hops)
  BY <1>3 DEF Account
<1>5. hops < HopLimit
  <2>1. Cardinality(spent) < HopLimit /\ hops <= Cardinality(spent)
    BY <1>2, <1>4, EnoughRoom DEF Ledger
  <2>2. Cardinality(spent) \in Nat /\ HopLimit \in Nat
    BY <1>4, FS_CardinalityType, BoundsFacts DEF Ledger
  <2> QED BY <1>2, <2>1, <2>2
<1>6. Top.queue = <<>>
  <2>1. ~(hops >= HopLimit)
    BY <1>2, <1>5, BoundsFacts
  <2> QED BY <1>1, <2>1 DEF Returned
<1> QED BY <1>1, <1>3, <1>6

(* A loop with an empty queue returns: nothing new is sent, or the packet  *)
(* its caller held.                                                        *)
LEMMA ReturnSends ==
  ASSUME IInv, Return, Top.queue = <<>>
  PROVE  \/ /\ OnTheWay(stack') = OnTheWay(stack) /\ HeldBack(stack') \subseteq HeldBack(stack)
            /\ AllTidy(stack) => AllTidy(stack')
         \/ \E pk \in HeldBack(stack), b \in Emission :
              /\ pk.kind \in {"echo", "reply"} /\ b.frame.kind = pk.kind
              /\ Label(b.frame) = <<pk.kind, pk.dip>>
              /\ OnTheWay(stack') = OnTheWay(stack) \cup {b} /\ HeldBack(stack') = {}
              /\ AllTidy(stack) /\ (\A x \in OnTheWay(stack) : Disjoint(x, b)) => AllTidy(stack')
<1> DEFINE pk == Top.held
           b == Out(pk.host, Carry(pk, arp[pk.host][pk.dip]))
<1>1. stack \in Seq(LoopType) /\ stack # <<>> /\ stack' = AfterReturn
  BY NestedTyped DEF IInv, Return
<1>2. /\ OnTheWay(stack) = EmissionsOf(Top.queue) \cup OnTheWay(Below)
      /\ HeldBack(stack) = ({pk} \ {NoPacket}) \cup HeldBack(Below)
      /\ Below \in Seq(LoopType) /\ pk \in Packet \cup {NoPacket}
  BY <1>1, StackParts DEF Top, Below, LoopType
<1>3. OnTheWay(stack) = OnTheWay(Below)
  BY <1>2 DEF EmissionsOf
<1>4. AllTidy(stack) => AllTidy(Below)
  BY <1>1, TidySplit DEF Below
<1>5. CASE pk = NoPacket \/ arp[pk.host][pk.dip] = None
  <2>1. stack' = Below
    BY <1>1, <1>5 DEF AfterReturn
  <2> HIDE DEF pk, b
  <2> QED BY <1>2, <1>3, <1>4, <2>1
<1>6. CASE ~(pk = NoPacket \/ arp[pk.host][pk.dip] = None)
  <2>1. pk \in Packet /\ pk \in HeldBack(stack) /\ pk.host \in Host /\ pk.dip \in Ip
    BY <1>2, <1>6 DEF Packet
  <2>2. arp[pk.host][pk.dip] \in Host
    BY <1>6, <2>1 DEF IInv, TablesOK
  <2>3. b \in Emission
    BY <2>1, <2>2, BoundsFacts DEF Packet, Out, Carry, Emission, Frame, Port
  <2>4. stack' = IF Below = <<>> THEN <<Loop(<<b>>, NoPacket)>> ELSE Enqueue(Below, <<b>>)
    BY <1>1, <1>6 DEF AfterReturn
  <2>5. /\ pk.kind \in {"echo", "reply"} /\ b.frame.kind = pk.kind
        /\ Label(b.frame) = <<pk.kind, pk.dip>> /\ ~IsArp(b.frame)
    BY <2>1 DEF Packet, Out, Carry, Label, IsArp
  <2> HIDE DEF b
  <2>6. <<b>> \in Seq(Emission) /\ EmissionsOf(<<b>>) = {b} /\ Apart(<<b>>)
    BY <2>3, QueueOne, ApartOne
  <2>7. CASE Below = <<>>
    <3>1. PICK l : l = Loop(<<b>>, NoPacket)
      OBVIOUS
    <3>2. l \in LoopType /\ l.queue = <<b>> /\ l.held = NoPacket
      BY <2>6, <3>1 DEF Loop, LoopType
    <3>3. stack' = <<l>> \o <<>> /\ <<>> \in Seq(LoopType)
      BY <2>4, <2>7, <3>1, <3>2, Pairs
    <3>4. /\ OnTheWay(<<l>> \o <<>>) = EmissionsOf(l.queue) \cup OnTheWay(<<>>)
          /\ HeldBack(<<l>> \o <<>>) = ({l.held} \ {NoPacket}) \cup HeldBack(<<>>)
      BY <3>2, <3>3, StackGrown
    <3>5. OnTheWay(stack') = OnTheWay(stack) \cup {b} /\ HeldBack(stack') = {}
      BY <1>3, <2>6, <2>7, <3>2, <3>3, <3>4, NothingOnTheWay
    <3>6. AllTidy(stack')
      <4>1. Tidy(l) /\ AllTidy(<<>>)
        BY <2>5, <2>6, <3>2 DEF Tidy, AllTidy
      <4> QED BY <3>2, <3>3, <4>1, TidyGrown
    <3> QED BY <2>1, <2>3, <2>5, <3>5, <3>6
  <2>8. CASE Below # <<>>
    <3>1. Below = <<stack[2]>> /\ stack[2].held = NoPacket
      BY <1>1, <2>8, NestedSplit DEF IInv, Below
    <3>2. HeldBack(Below) = {}
      BY <3>1 DEF HeldBack
    <3>3. /\ OnTheWay(stack') = OnTheWay(Below) \cup {b}
          /\ HeldBack(stack') = HeldBack(Below)
      BY <1>2, <2>4, <2>6, <2>8, Enqueued
    <3>4. ASSUME AllTidy(stack), \A x \in OnTheWay(stack) : Disjoint(x, b)
          PROVE  AllTidy(stack')
      <4>1. PICK out : out = <<b>>
        OBVIOUS
      <4>2. \A x \in OnTheWay(Below), c \in EmissionsOf(out) : Disjoint(x, c)
        BY <1>3, <2>6, <3>4, <4>1
      <4>3. \A c \in EmissionsOf(out) : ~IsArp(c.frame)
        BY <2>5, <2>6, <4>1
      <4>4. AllTidy(Below) /\ out \in Seq(Emission) /\ Apart(out)
        BY <1>4, <2>6, <3>4, <4>1
      <4>5. AllTidy(Enqueue(Below, out))
        BY <1>2, <2>8, <4>2, <4>3, <4>4, TidyEnqueued
      <4> QED BY <2>4, <2>8, <4>1, <4>5
    <3> QED BY <1>3, <2>1, <2>3, <2>5, <3>2, <3>3, <3>4
  <2> QED BY <2>7, <2>8
<1> QED BY <1>5, <1>6

LEMMA ReturnCalm ==
  ASSUME IInv, Manners, Roomy, Calm, Return
  PROVE  Calm'
<1>1. stack # <<>> /\ UNCHANGED <<live, ip, hops, ping, answered>>
  BY DEF Return
<1>2. ASSUME ping # NoPing, live \notin Looped
      PROVE  /\ ~storm'
             /\ AllTidy(stack')
             /\ Account(OnTheWay(stack'), HeldBack(stack'), answered', hops')
  <2>1. Top.queue = <<>> /\ ~storm'
    BY <1>2, NoStorm
  <2> DEFINE wire == OnTheWay(stack)
             held == HeldBack(stack)
  <2>2. AllTidy(stack) /\ Account(wire, held, answered, hops)
    BY <1>2 DEF Calm
  <2>3. PICK spent : Ledger(spent, wire, hops) /\ Firsts(spent, wire, held, answered)
    BY <2>2 DEF Account
  <2>4. CASE /\ OnTheWay(stack') = wire /\ HeldBack(stack') \subseteq held
             /\ AllTidy(stack) => AllTidy(stack')
    <3>1. Firsts(spent, wire, HeldBack(stack'), answered)
      <4> HIDE DEF wire, held
      <4> QED BY <2>3, <2>4, FirstsLater
    <3> QED BY <1>1, <2>1, <2>2, <2>3, <2>4, <3>1 DEF Account
  <2>5. ASSUME NEW pk \in held, NEW b \in Emission,
               /\ pk.kind \in {"echo", "reply"} /\ b.frame.kind = pk.kind
               /\ Label(b.frame) = <<pk.kind, pk.dip>>
               /\ OnTheWay(stack') = wire \cup {b} /\ HeldBack(stack') = {}
               /\ AllTidy(stack) /\ (\A x \in wire : Disjoint(x, b)) => AllTidy(stack')
        PROVE  AllTidy(stack') /\ Account(OnTheWay(stack'), HeldBack(stack'), answered', hops')
    <3> DEFINE l == <<pk.kind, pk.dip>>
    <3>1. HeldMannered(pk)
      BY DEF Manners
    <3>2. /\ HeldIsNew(spent, wire, held, answered) /\ ReplyIsLater(spent, wire, answered)
          /\ AnsweredAfter(spent, wire) /\ TakenAfter(spent, answered)
          /\ OneTaker(wire, answered)
      BY <2>3 DEF Firsts
    <3>3. /\ ~Used(l, spent, wire)
          /\ pk.kind = "echo" => ~Done(answered) /\ l = <<"echo", ping.target>>
          /\ pk.kind = "reply" => Done(answered)
      BY <2>5, <3>1, <3>2 DEF HeldIsNew, HeldMannered
    <3>4. Label(b.frame) = l /\ b.port \in Port /\ TablesOK
      BY <2>5 DEF Emission, IInv
    <3>5. l[1] \in {"echo", "reply"}
      BY <2>5
    <3>6. \A x \in wire : x.frame.kind = "echo" => Label(x.frame) = <<"echo", ping.target>>
      BY LabelFacts DEF Manners, Mannered, Label
    <3> HIDE DEF wire, held, l
    <3>7. Ledger(spent, wire \cup {b}, hops) /\ \A x \in wire : Disjoint(x, b)
      <4>1. \A c \in {b} : c.port \in Port /\ Label(c.frame) = l
        BY <3>4
      <4>2. /\ Ledger(spent, wire \cup {b}, hops)
            /\ \A x \in wire, c \in {b} : Disjoint(x, c)
        BY <2>3, <3>3, <3>4, <4>1, Launched
      <4> QED BY <4>2
    <3>8. \A k : Used(k, spent, wire \cup {b}) => Used(k, spent, wire) \/ k = l
      <4>1. \A c \in {b} : Label(c.frame) = l
        BY <3>4
      <4> QED BY <4>1, UsedMore
    <3>9. Firsts(spent, wire \cup {b}, {}, answered)
      <4>1. HeldIsNew(spent, wire \cup {b}, {}, answered)
        BY DEF HeldIsNew
      <4>2. ReplyIsLater(spent, wire \cup {b}, answered)
        <5>1. \A i : l # <<"who-has", i>>
          BY <3>5
        <5>2. \A i : l = <<"reply", i>> => Done(answered)
          BY <2>5, <3>3 DEF l
        <5> QED BY <3>2, <3>8, <5>1, <5>2 DEF ReplyIsLater
      <4>3. AnsweredAfter(spent, wire \cup {b})
        <5>1. \A i : l # <<"is-at", i>>
          BY <3>5
        <5> QED BY <3>2, <3>8, <5>1 DEF AnsweredAfter
      <4>4. OneTaker(wire \cup {b}, answered)
        <5>1. CASE pk.kind = "reply"
          BY <2>5, <3>2, <5>1 DEF OneTaker
        <5>2. CASE pk.kind = "echo"
          <6>1. \A x \in wire : x.frame.kind # "echo"
            BY <3>3, <3>6, <5>2 DEF Used
          <6>2. \A a \in answered : a.seq # ping.sent
            BY <3>3, <5>2 DEF Done
          <6> QED BY <6>1, <6>2 DEF OneTaker
        <5> QED BY <2>5, <5>1, <5>2
      <4> QED BY <3>2, <4>1, <4>2, <4>3, <4>4 DEF Firsts
    <3>10. AllTidy(stack')
      BY <2>2, <2>5, <3>7
    <3> QED BY <1>1, <2>5, <3>7, <3>9, <3>10 DEF Account
  <2>6. \/ /\ OnTheWay(stack') = wire /\ HeldBack(stack') \subseteq held
           /\ AllTidy(stack) => AllTidy(stack')
        \/ \E pk \in held, b \in Emission :
             /\ pk.kind \in {"echo", "reply"} /\ b.frame.kind = pk.kind
             /\ Label(b.frame) = <<pk.kind, pk.dip>>
             /\ OnTheWay(stack') = wire \cup {b} /\ HeldBack(stack') = {}
             /\ AllTidy(stack) /\ (\A x \in wire : Disjoint(x, b)) => AllTidy(stack')
    BY <2>1, ReturnSends
  <2> QED BY <2>1, <2>4, <2>5, <2>6
<1> QED BY <1>1, <1>2, CalmNext

(* A request starts one loop with one emission. *)
LEMMA SendShape ==
  ASSUME IInv, SendEcho
  PROVE  \E b, l :
           /\ stack' = <<l>> /\ l.queue = <<b>>
           /\ OnTheWay(stack') = {b} /\ HeldBack(stack') = {l.held} \ {NoPacket}
           /\ \/ /\ b.frame.kind = "echo" /\ Label(b.frame) = <<"echo", ping.target>>
                 /\ l.held = NoPacket
              \/ /\ b.frame.kind = "who-has" /\ Label(b.frame) = <<"who-has", ping.target>>
                 /\ l.held = Echo /\ Echo # NoPacket
<1> DEFINE m == arp[ping.host][ping.target]
<1>1. /\ Echo \in Packet /\ Echo.kind = "echo" /\ Echo.host = ping.host
      /\ Echo.dip = ping.target /\ Echo # NoPacket
  BY EchoFacts, PacketIsOne
<1>2. stack' = IF m # None THEN <<Loop(<<Out(ping.host, Carry(Echo, m))>>, NoPacket)>>
                           ELSE <<Asking(Echo)>>
  BY DEF SendEcho, Echo
<1>3. CASE m # None
  <2> DEFINE b == Out(ping.host, Carry(Echo, m))
             l == Loop(<<b>>, NoPacket)
  <2>1. b.frame.kind = "echo" /\ Label(b.frame) = <<"echo", ping.target>>
    BY <1>1 DEF Out, Carry, Label
  <2>2. stack' = <<l>> /\ l.queue = <<b>> /\ l.held = NoPacket
    BY <1>2, <1>3 DEF Loop
  <2> HIDE DEF b, l
  <2>3. OnTheWay(stack') = {b} /\ HeldBack(stack') = {l.held} \ {NoPacket}
    BY <2>2 DEF OnTheWay, HeldBack, EmissionsOf
  <2> QED BY <2>1, <2>2, <2>3
<1>4. CASE m = None
  <2> DEFINE b == Out(ping.host, WhoHas(ping.host, ping.target))
             l == Asking(Echo)
  <2>1. b.frame.kind = "who-has" /\ Label(b.frame) = <<"who-has", ping.target>>
    BY DEF Out, WhoHas, Label
  <2>2. stack' = <<l>> /\ l.queue = <<b>> /\ l.held = Echo
    BY <1>1, <1>2, <1>4 DEF Loop, Asking
  <2> HIDE DEF b, l
  <2>3. OnTheWay(stack') = {b} /\ HeldBack(stack') = {l.held} \ {NoPacket}
    BY <2>2 DEF OnTheWay, HeldBack, EmissionsOf
  <2> QED BY <1>1, <2>1, <2>2, <2>3
<1> QED BY <1>3, <1>4

(* A new request has all its crossings to come. *)
LEMMA SendCalm ==
  ASSUME IInv, Manners, Calm, SendEcho
  PROVE  Calm'
<1>1. /\ ping # NoPing /\ UNCHANGED <<live, ip, hops, storm, answered>>
  BY DEF SendEcho
<1>2. /\ ping'.host = ping.host /\ ping'.target = ping.target
      /\ ping'.sent = ping.sent + 1 /\ ping.sent \in Nat
      /\ Echo.kind = "echo"
  BY EchoFacts
<1> SUFFICES ASSUME live \notin Looped
             PROVE  /\ ~storm' /\ AllTidy(stack)'
                    /\ Account(OnTheWay(stack), HeldBack(stack), answered, hops)'
  BY <1>1 DEF Calm
<1>3. ~storm' /\ \E spent : Ledger(spent, OnTheWay(stack), hops)
  BY <1>1 DEF Calm, Account
<1>4. PICK spent : spent \subseteq Tokens /\ IsFiniteSet(spent) /\ hops <= Cardinality(spent)
  BY <1>3 DEF Ledger
<1>5. PICK b, l :
        /\ stack' = <<l>> /\ l.queue = <<b>>
        /\ OnTheWay(stack') = {b} /\ HeldBack(stack') = {l.held} \ {NoPacket}
        /\ \/ /\ b.frame.kind = "echo" /\ Label(b.frame) = <<"echo", ping.target>>
              /\ l.held = NoPacket
           \/ /\ b.frame.kind = "who-has" /\ Label(b.frame) = <<"who-has", ping.target>>
              /\ l.held = Echo /\ Echo # NoPacket
  BY SendShape
<1>6. AllTidy(stack)'
  <2>1. l.held = NoPacket => ~IsArp(b.frame)
    BY <1>5 DEF IsArp
  <2> QED BY <1>5, <2>1 DEF AllTidy, Tidy, Apart, EmissionsOf
<1>7. \A k, c : Token(k, c)' = <<<<ping.sent + 1, k>>, c>> /\ Token(k, c)' \notin spent
  <2>1. \A k, c : Token(k, c)' = <<<<ping.sent + 1, k>>, c>>
    BY <1>2 DEF Token
  <2>2. ~(ping.sent + 1 \in 1 .. ping.sent)
    BY <1>2
  <2> QED BY <1>4, <2>1, <2>2 DEF Tokens
<1>8. Tokens \subseteq Tokens'
  <2>1. Labels' = Labels
    BY <1>1, <1>2 DEF Labels, Holders
  <2>2. 1 .. ping.sent \subseteq 1 .. ping.sent + 1
    BY <1>2
  <2> QED BY <1>1, <1>2, <2>1, <2>2 DEF Tokens
<1>9. Ledger(spent, OnTheWay(stack), hops)'
  BY <1>1, <1>4, <1>7, <1>8 DEF Ledger
<1>10. \A k : Used(k, spent, OnTheWay(stack))' => k = Label(b.frame)
  BY <1>5, <1>7 DEF Used
<1>11. \A a \in answered' : a.seq # ping'.sent
  <2>1. \A a \in answered : a.seq <= ping.sent /\ a.seq \in Nat
    BY BoundsFacts DEF Manners, IInv, AnsweredOK
  <2> QED BY <1>1, <1>2, <2>1
<1>12. Firsts(spent, OnTheWay(stack), HeldBack(stack), answered)'
  <2>1. HeldIsNew(spent, OnTheWay(stack), HeldBack(stack), answered)'
    <3>1. \A pk \in HeldBack(stack') :
            /\ pk.kind = "echo" /\ \A i : Label(b.frame) # <<"echo", i>>
      BY <1>2, <1>5
    <3>2. ~Done(answered)'
      BY <1>11 DEF Done
    <3> QED BY <1>10, <3>1, <3>2 DEF HeldIsNew
  <2>2. ReplyIsLater(spent, OnTheWay(stack), answered)'
    <3>1. ip[ping.host] # ping.target
      BY <1>1 DEF Manners
    <3>2. Label(b.frame) # <<"reply", ip[ping.host]>> /\ Label(b.frame) # <<"who-has", ip[ping.host]>>
      BY <1>5, <3>1
    <3> QED BY <1>1, <1>2, <1>10, <3>2 DEF ReplyIsLater
  <2>3. AnsweredAfter(spent, OnTheWay(stack))'
    <3>1. \A i : Label(b.frame) # <<"is-at", i>>
      BY <1>5
    <3> QED BY <1>10, <3>1 DEF AnsweredAfter
  <2>4. TakenAfter(spent, answered)'
    BY <1>11 DEF TakenAfter
  <2>5. OneTaker(OnTheWay(stack), answered)'
    BY <1>5, <1>11 DEF OneTaker
  <2> QED BY <2>1, <2>2, <2>3, <2>4, <2>5 DEF Firsts
<1> QED BY <1>3, <1>6, <1>9, <1>12 DEF Account

LEMMA StartCalm ==
  ASSUME IInv, NEW h \in Host, NEW i \in Ip, StartPing(h, i)
  PROVE  Calm'
<1>1. /\ stack' = <<>> /\ hops' = 0 /\ storm' = FALSE /\ answered' = {}
  BY NoPingIsIdle DEF StartPing, Idle
<1>2. OnTheWay(stack') = {} /\ HeldBack(stack') = {}
  BY <1>1, NothingOnTheWay
<1>3. AllTidy(stack)'
  BY <1>1 DEF AllTidy
<1>4. Ledger({}, OnTheWay(stack), hops)'
  BY <1>1, <1>2, FS_EmptySet DEF Ledger
<1>5. Firsts({}, OnTheWay(stack), HeldBack(stack), answered)'
  <2>1. \A k : ~Used(k, {}, OnTheWay(stack))'
    BY <1>2 DEF Used
  <2> QED BY <1>1, <1>2, <2>1 DEF Firsts, HeldIsNew, ReplyIsLater, AnsweredAfter, TakenAfter,
                                  OneTaker
<1>6. Account(OnTheWay(stack), HeldBack(stack), answered, hops)'
  BY <1>4, <1>5 DEF Account
<1> QED BY <1>1, <1>3, <1>6 DEF Calm

LEMMA DropCalm ==
  ASSUME IInv, Calm, DropFrame
  PROVE  Calm'
<1>1. /\ stack # <<>> /\ Top.queue # <<>> /\ stack' = Popped
      /\ UNCHANGED <<live, ip, ping, hops, storm, answered>>
  BY DEF DropFrame
<1>2. OnTheWay(stack') \subseteq OnTheWay(stack) /\ HeldBack(stack') = HeldBack(stack)
  BY <1>1, FirstPopped, NestedTyped DEF IInv
<1>3. ASSUME ping # NoPing, live \notin Looped
      PROVE  /\ ~storm' /\ AllTidy(stack')
             /\ Account(OnTheWay(stack'), HeldBack(stack'), answered', hops')
  <2>1. ~storm /\ AllTidy(stack) /\ Account(OnTheWay(stack), HeldBack(stack), answered, hops)
    BY <1>3 DEF Calm
  <2>2. PICK spent : /\ Ledger(spent, OnTheWay(stack), hops)
                     /\ Firsts(spent, OnTheWay(stack), HeldBack(stack), answered)
    BY <2>1 DEF Account
  <2>3. Ledger(spent, OnTheWay(stack'), hops)
    BY <1>2, <2>2 DEF Ledger
  <2>4. Firsts(spent, OnTheWay(stack'), HeldBack(stack'), answered)
    <3>1. \A k : Used(k, spent, OnTheWay(stack')) => Used(k, spent, OnTheWay(stack))
      BY <1>2 DEF Used
    <3> QED BY <1>2, <2>2, <3>1, FirstsLater
  <2>5. AllTidy(stack')
    BY <1>1, <2>1, TidyPopped DEF IInv
  <2> QED BY <1>1, <2>1, <2>3, <2>4, <2>5 DEF Account
<1> QED BY <1>1, <1>3, CalmNext

LEMMA NextCalm ==
  ASSUME IInv, Wire, ListedOnce, Roomy, Manners, Calm, [Next]_vars
  PROVE  Calm'
<1>1. ASSUME NEW h \in Host, NEW i \in Ip, StartPing(h, i) PROVE Calm'
  BY <1>1, StartCalm
<1>2. CASE EngineStep
  BY <1>2, DeliverCalm, DropCalm, ReturnCalm DEF EngineStep
<1>3. CASE SendEcho
  BY <1>3, SendCalm
<1>4. CASE Finish \/ UserStep
  <2>1. ping' = NoPing
    BY <1>4 DEF Finish, UserStep, ClearArp, ClearMac, ChangeCable, ChangeAddress
  <2> QED BY <2>1 DEF Calm
<1>5. CASE UNCHANGED vars
  <2>1. /\ UNCHANGED <<live, ip, ping, stack, storm, answered, hops>>
    BY <1>5 DEF vars
  <2>2. ASSUME ping # NoPing, live \notin Looped
        PROVE  /\ ~storm' /\ AllTidy(stack')
               /\ Account(OnTheWay(stack'), HeldBack(stack'), answered', hops')
    BY <2>1, <2>2 DEF Calm
  <2> QED BY <2>1, <2>2, CalmNext
<1> QED BY <1>1, <1>2, <1>3, <1>4, <1>5 DEF Next, CommandStep

-------------------------------------------------------------------------------
(* engine.run's message "A switching loop floods frames forever" blames a  *)
(* loop, and rightly: when the hop limit is enough for every crossing a    *)
(* command can cost, it stops traffic only where live cables make a loop,  *)
(* whatever hosts and switches hold, whoever shares an address.            *)
THEOREM StormsMeanLoops ==
  ASSUME ListedOnce, Roomy
  PROVE  Spec => []StormMeansLoop
<1>1. Init => Manners /\ Calm
  <2> SUFFICES ASSUME Init PROVE Manners /\ Calm
    OBVIOUS
  <2>1. ping = NoPing /\ ~storm /\ answered = {} /\ OnTheWay(stack) = {} /\ HeldBack(stack) = {}
    BY NothingOnTheWay DEF Init
  <2>2. OneCablePerPort /\ ip \in Addressable
    BY AddressAssumption DEF Init, OneCablePerPort, Addressable
  <2> QED BY <2>1, <2>2 DEF Manners, Calm
<1>2. (IInv /\ Wire) /\ (IInv /\ Wire)' /\ Manners /\ [Next]_vars => Manners'
  BY NextManners
<1>3. (IInv /\ Wire) /\ Manners /\ Calm /\ [Next]_vars => Calm'
  BY NextCalm
<1>4. Manners /\ Calm => StormMeansLoop
  BY DEF Manners, Calm, StormMeansLoop
<1> QED BY <1>1, <1>2, <1>3, <1>4, AlwaysWire, PTL DEF Spec

(* Where every host keeps an address of its own and the hop limit is       *)
(* enough, no storm excuses a ping: whenever no live cables make a loop, a *)
(* request is answered exactly when its target is connected and no switch  *)
(* on the way has it on a port it is not behind (run_ping, switch.py).     *)
THEOREM PingsTellTheWholeTruth ==
  ASSUME "address" \notin Edits,
         \A a \in Addressings, g \in Host, h \in Host : a[g] # None /\ a[g] = a[h] => g = h,
         ListedOnce, Roomy
  PROVE  Spec => []PingTellsTruth
<1>1. Spec => [](storm \/ PingTellsTruth)
  BY PingsTellTheTruth
<1>2. Spec => []StormMeansLoop
  BY StormsMeanLoops
<1>3. StormMeansLoop /\ (storm \/ PingTellsTruth) => PingTellsTruth
  BY DEF StormMeansLoop, PingTellsTruth
<1> QED BY <1>1, <1>2, <1>3, PTL
===============================================================================

---------------------------- MODULE PlaybackProofs ----------------------------
(***************************************************************************)
(* Proofs about TopologyEditor and Playback, for any presets, clock,       *)
(* stored documents, missions and traces: what a port holds, which numbers *)
(* are given twice, and where a crossing is drawn.                         *)
(***************************************************************************)
EXTENDS Playback, FiniteSetTheorems, SequenceTheorems, TLAPS

-------------------------------------------------------------------------------
(* Least and greatest numbers.  The library has no such fact, but a finite *)
(* set that is smallest by inclusion: initial segments are ordered so.     *)
LEMMA SmallestSet ==
  ASSUME NEW T \in SUBSET FiniteSubsetsOf(Nat), T # {}
  PROVE  \E X \in T : \A Y \in T : ~(Y \subseteq X /\ Y # X)
<1>1. PICK X \in T : \A Y \in T : <<Y, X>> \notin StrictSubsetOrdering(Nat)
  <2>1. IsWellFoundedOn(StrictSubsetOrdering(Nat), FiniteSubsetsOf(Nat))
    BY FS_StrictSubsetOrderingWellFounded
  <2> QED BY <2>1, WFMin
<1>2. \A Y \in T : Y \in SUBSET Nat /\ X \in SUBSET Nat
  BY DEF FiniteSubsetsOf
<1> QED BY <1>1, <1>2 DEF StrictSubsetOrdering

LEMMA Least ==
  ASSUME NEW S \in SUBSET Nat, S # {}
  PROVE  Min(S) \in S /\ \A y \in S : Min(S) <= y
<1> DEFINE T == {0 .. k : k \in S}
<1>1. T \in SUBSET FiniteSubsetsOf(Nat) /\ T # {}
  <2>1. ASSUME NEW k \in S PROVE 0 .. k \in FiniteSubsetsOf(Nat)
    <3>1. IsFiniteSet(0 .. k)
      BY FS_Interval
    <3> QED BY <3>1 DEF FiniteSubsetsOf
  <2> QED BY <2>1
<1>2. PICK X \in T : \A Y \in T : ~(Y \subseteq X /\ Y # X)
  <2> HIDE DEF T
  <2> QED BY <1>1, SmallestSet
<1>3. PICK x \in S : X = 0 .. x
  OBVIOUS
<1>4. ASSUME NEW y \in S PROVE x <= y
  <2> SUFFICES ASSUME y < x PROVE FALSE
    OBVIOUS
  <2>1. 0 .. y \subseteq 0 .. x /\ x \in 0 .. x /\ x \notin 0 .. y
    OBVIOUS
  <2> QED BY <2>1, <1>2, <1>3
<1> QED BY <1>4 DEF Min

LEMMA Greatest ==
  ASSUME NEW S \in SUBSET Nat, S # {}, NEW m \in Nat, \A y \in S : y <= m
  PROVE  Max(S) \in S /\ \A y \in S : y <= Max(S)
<1> DEFINE R == {m - k : k \in S}
<1>1. R \in SUBSET Nat /\ R # {}
  <2>1. \A k \in S : m - k \in Nat
    OBVIOUS
  <2> QED BY <2>1
<1>2. Min(R) \in R /\ \A y \in R : Min(R) <= y
  <2> HIDE DEF R
  <2> QED BY <1>1, Least
<1>3. PICK x \in S : Min(R) = m - x
  BY <1>2
<1>4. ASSUME NEW y \in S PROVE x >= y
  <2>1. m - x <= m - y
    BY <1>2, <1>3
  <2> QED BY <2>1
<1> QED BY <1>4 DEF Max

(* A list with fewer positions is a list. *)
LEMMA Sublist ==
  ASSUME NEW list, IsList(list), NEW P \in SUBSET DOMAIN list
  PROVE  IsList([p \in P |-> list[p]])
<1>1. CASE P = {}
  BY <1>1 DEF IsList
<1>2. CASE P # {}
  <2>1. PICK m \in DOMAIN list : \A p \in DOMAIN list : p <= m
    BY <1>2 DEF IsList
  <2>2. m \in Nat /\ P \in SUBSET Nat /\ \A p \in P : p <= m
    BY <2>1 DEF IsList
  <2>3. Max(P) \in P /\ \A p \in P : p <= Max(P)
    BY <1>2, <2>2, Greatest
  <2> QED BY <2>2, <2>3 DEF IsList
<1> QED BY <1>1, <1>2

-------------------------------------------------------------------------------
(* Ports. *)
LEMMA MacIsNumber ==
  ASSUME NEW n \in Nat
  PROVE  Mac(n) \in Nat /\ Mac(n) <= n /\ (n < MacSpace => Mac(n) = n)
BY MacAssumption DEF Mac

LEMMA PortsEnd ==
  ASSUME NEW d, IsDevice(d)
  PROVE  /\ Max(DOMAIN d.ports) \in Nat /\ DOMAIN d.ports = 0 .. Max(DOMAIN d.ports)
         /\ NextPort(d) = Max(DOMAIN d.ports) + 1
<1>1. PICK last \in DOMAIN d.ports : last \in Nat /\ DOMAIN d.ports = 0 .. last
  BY DEF IsDevice
<1>2. DOMAIN d.ports \in SUBSET Nat /\ DOMAIN d.ports # {} /\ \A e \in DOMAIN d.ports : e <= last
  BY <1>1
<1>3. Max(DOMAIN d.ports) \in DOMAIN d.ports /\ \A e \in DOMAIN d.ports : e <= Max(DOMAIN d.ports)
  BY <1>1, <1>2, Greatest
<1>4. Max(DOMAIN d.ports) = last
  BY <1>1, <1>3
<1> QED BY <1>1, <1>4 DEF NextPort

LEMMA GrownDevice ==
  ASSUME NEW d, IsDevice(d), NEW mac \in Nat
  PROVE  /\ IsDevice(WithPort(d, mac)) /\ WithPort(d, mac).id = d.id
         /\ NextPort(d) \in Nat \ DOMAIN d.ports
         /\ DOMAIN WithPort(d, mac).ports = DOMAIN d.ports \cup {NextPort(d)}
         /\ \A e \in DOMAIN d.ports : WithPort(d, mac).ports[e] = d.ports[e]
         /\ WithPort(d, mac).ports[NextPort(d)] = mac
<1> DEFINE n == NextPort(d)
           f == [e \in DOMAIN d.ports \cup {n} |-> IF e \in DOMAIN d.ports THEN d.ports[e] ELSE mac]
<1>1. n \in Nat /\ n \notin DOMAIN d.ports /\ DOMAIN d.ports \cup {n} = 0 .. n
  BY PortsEnd
<1>2. WithPort(d, mac) = [id |-> d.id, ports |-> f]
  BY DEF WithPort
<1>3. DOMAIN f = DOMAIN d.ports \cup {n} /\ f \in [DOMAIN d.ports \cup {n} -> Nat]
      /\ f[n] = mac /\ \A e \in DOMAIN d.ports : f[e] = d.ports[e]
  BY <1>1 DEF IsDevice
<1> HIDE DEF f
<1>4. IsDevice([id |-> d.id, ports |-> f])
  <2>1. n \in DOMAIN f /\ DOMAIN f = 0 .. n
    BY <1>1, <1>3
  <2> QED BY <1>1, <1>3, <2>1 DEF IsDevice
<1> QED BY <1>1, <1>2, <1>3, <1>4

(* What freeInterfaceOrGrow returns: a port of the device that no cable    *)
(* holds; if it is a new one, the device has grown by it and by nothing    *)
(* else, and the counter has moved.                                        *)
Grown(d, n, x) ==
  /\ x.port \notin DOMAIN d.ports
  /\ x.sequence = n + 1
  /\ DOMAIN x.device.ports = DOMAIN d.ports \cup {x.port}
  /\ \A e \in DOMAIN d.ports : x.device.ports[e] = d.ports[e]
  /\ x.device.ports[x.port] = Mac(n + 1)

Found(d, n, x) == x.device = d /\ x.sequence = n /\ x.port \in DOMAIN d.ports

LEMMA FreePort ==
  ASSUME NEW d, IsDevice(d), NEW n \in Nat,
         \A end \in EndsOf(links) : end[1] = d.id => end[2] \in DOMAIN d.ports,
         NEW x, x = FreeInterfaceOrGrow(d, n)
  PROVE  /\ IsDevice(x.device) /\ x.device.id = d.id
         /\ x.port \in Nat /\ <<d.id, x.port>> \notin EndsOf(links)
         /\ Found(d, n, x) \/ Grown(d, n, x)
<1>1. CASE FreePorts(d) # {}
  <2>1. FreePorts(d) \in SUBSET Nat /\ FreePorts(d) \subseteq DOMAIN d.ports
    BY PortsEnd DEF FreePorts
  <2>2. Min(FreePorts(d)) \in FreePorts(d)
    BY <1>1, <2>1, Least
  <2>3. x.port = Min(FreePorts(d)) /\ x.device = d /\ x.sequence = n
    BY <1>1 DEF FreeInterfaceOrGrow
  <2>4. x.port \in Nat /\ x.port \in DOMAIN d.ports /\ <<d.id, x.port>> \notin EndsOf(links)
    BY <2>1, <2>2, <2>3 DEF FreePorts
  <2>5. Found(d, n, x)
    BY <2>3, <2>4 DEF Found
  <2>6. IsDevice(x.device) /\ x.device.id = d.id
    BY <2>3
  <2> QED BY <2>4, <2>5, <2>6
<1>2. CASE FreePorts(d) = {}
  <2> DEFINE grown == WithPort(d, Mac(n + 1))
  <2>1. Mac(n + 1) \in Nat
    BY MacIsNumber
  <2>2. x.port = NextPort(d) /\ x.device = grown /\ x.sequence = n + 1
    BY <1>2 DEF FreeInterfaceOrGrow
  <2>3. /\ IsDevice(grown) /\ grown.id = d.id
        /\ NextPort(d) \in Nat /\ NextPort(d) \notin DOMAIN d.ports
        /\ DOMAIN grown.ports = DOMAIN d.ports \cup {NextPort(d)}
        /\ \A e \in DOMAIN d.ports : grown.ports[e] = d.ports[e]
        /\ grown.ports[NextPort(d)] = Mac(n + 1)
    BY <2>1, GrownDevice
  <2>4. <<d.id, NextPort(d)>> \notin EndsOf(links)
    BY <2>3
  <2> HIDE DEF grown
  <2>5. Grown(d, n, x)
    BY <2>2, <2>3 DEF Grown
  <2>6. IsDevice(x.device) /\ x.device.id = d.id
    BY <2>2, <2>3
  <2> QED BY <2>2, <2>3, <2>4, <2>5, <2>6
<1> QED BY <1>1, <1>2

-------------------------------------------------------------------------------
(* Lists of devices, and the cables between them. *)
LEMMA FirstOf ==
  ASSUME NEW list, IsList(list), NEW id, Holding(list, id) # {}
  PROVE  First(list, id) \in Holding(list, id) /\ \A p \in Holding(list, id) : First(list, id) <= p
<1>1. Holding(list, id) \in SUBSET Nat
  BY DEF IsList, Holding
<1> QED BY <1>1, Least DEF First

LEMMA FirstKept ==
  ASSUME NEW list, IsList(list), NEW longer, IsList(longer), NEW id, Holding(list, id) # {},
         Holding(list, id) \subseteq Holding(longer, id),
         \A p \in Holding(longer, id) : p \in Holding(list, id) \/ \A q \in DOMAIN list : q < p
  PROVE  Holding(longer, id) # {} /\ First(longer, id) = First(list, id)
<1>1. First(list, id) \in Holding(list, id) /\ \A p \in Holding(list, id) : First(list, id) <= p
  BY FirstOf
<1>2. Holding(longer, id) # {}
  OBVIOUS
<1>3. First(longer, id) \in Holding(longer, id)
      /\ \A p \in Holding(longer, id) : First(longer, id) <= p
  BY <1>2, FirstOf
<1>4. Holding(list, id) \subseteq DOMAIN list /\ DOMAIN list \subseteq Nat
      /\ Holding(longer, id) \subseteq Nat
  BY DEF IsList, Holding
<1> HIDE DEF First
<1> QED BY <1>1, <1>2, <1>3, <1>4

LEMMA FitsKept ==
  ASSUME NEW list, NEW cables, Fits(list, cables), NEW other, NEW fewer \in SUBSET cables,
         \A end \in EndsOf(fewer) :
           /\ Holding(other, end[1]) # {}
           /\ DOMAIN list[First(list, end[1])].ports \subseteq DOMAIN other[First(other, end[1])].ports
  PROVE  Fits(other, fewer)
<1>1. EndsOf(fewer) \subseteq EndsOf(cables)
  BY DEF EndsOf
<1>2. \A end \in EndsOf(fewer) : end[2] \in DOMAIN list[First(list, end[1])].ports
  BY <1>1 DEF Fits
<1>3. \A l \in fewer : l.a # l.b
  BY DEF Fits
<1>4. \A l, k \in fewer : {l.a, l.b} \cap {k.a, k.b} # {} => l = k
  BY DEF Fits
<1> QED BY <1>2, <1>3, <1>4 DEF Fits

LEMMA MappedList ==
  ASSUME NEW list, IsList(list), NEW f, f = [p \in DOMAIN list |-> f[p]],
         \A p \in DOMAIN list : IsDevice(f[p])
  PROVE  IsList(f) /\ DOMAIN f = DOMAIN list
<1>1. DOMAIN f = DOMAIN list
  OBVIOUS
<1> QED BY <1>1 DEF IsList

-------------------------------------------------------------------------------
(* The invariant of the document: what is true of the canvas is true of    *)
(* the file, which may come back.                                          *)
Documents == file \cup {Canvas}
AllFit == \A d \in Documents : Fits(d.devices, d.links)
Counted == ahead => \A d \in Documents : Below(d, sequence)
GivenOnce == ahead /\ sequence < MacSpace => \A d \in Documents : Distinct(d)
EditorInv == EditorTypeOK /\ AllFit /\ Counted /\ GivenOnce

LEMMA CanvasIs == Canvas.devices = devices /\ Canvas.links = links /\ Canvas \in Documents
BY DEF Canvas, Documents

LEMMA BelowLater ==
  ASSUME NEW d, IsDocument(d), NEW m \in Nat, NEW n \in Nat, m <= n, Below(d, m)
  PROVE  Below(d, n)
<1>1. \A p \in DOMAIN d.devices :
        d.devices[p].id \in Nat /\ \A e \in DOMAIN d.devices[p].ports : d.devices[p].ports[e] \in Nat
  BY DEF IsDocument, IsList, IsDevice
<1>2. \A l \in d.links : l.id \in Nat
  BY DEF IsDocument, Link
<1> QED BY <1>1, <1>2 DEF Below

LEMMA EditorInitial == EditorInit => EditorInv
<1> SUFFICES ASSUME EditorInit PROVE EditorInv
  OBVIOUS
<1>1. PICK d \in Stored, now \in Clock :
        /\ devices = d.devices /\ links = d.links /\ sequence = now
        /\ ahead = (Below(d, now) /\ Distinct(d)) /\ file = {} /\ foreign = FALSE /\ made = 0
  BY DEF EditorInit
<1>2. IsDocument(d) /\ Fits(d.devices, d.links)
  BY DocumentAssumption
<1>3. Canvas = d /\ Documents = {d}
  BY <1>1, <1>2 DEF Canvas, IsDocument, Documents
<1>4. EditorTypeOK
  BY <1>1, <1>2, ClockAssumption DEF EditorTypeOK, IsDocument
<1> QED BY <1>1, <1>2, <1>3, <1>4 DEF EditorInv, AllFit, Counted, GivenOnce

(* A step that changes the canvas alone, and moves the counter on. *)
LEMMA CanvasStep ==
  ASSUME EditorInv, IsList(devices'), links' \subseteq Link, sequence' \in Nat, sequence <= sequence',
         made' \in Nat, UNCHANGED <<file, ahead, foreign>>,
         Fits(devices', links'),
         ahead => Below(Canvas', sequence'),
         ahead /\ sequence' < MacSpace => Distinct(Canvas')
  PROVE  EditorInv'
<1>1. EditorTypeOK'
  BY DEF EditorInv, EditorTypeOK
<1>2. Canvas' = [devices |-> devices', links |-> links'] /\ Documents' = file \cup {Canvas'}
  BY DEF Canvas, Documents
<1>3. \A d \in file : d \in Documents /\ IsDocument(d)
  BY DEF EditorInv, EditorTypeOK, Documents
<1>4. AllFit'
  BY <1>2, <1>3 DEF EditorInv, AllFit
<1>5. Counted'
  <2> SUFFICES ASSUME ahead, NEW d \in file PROVE Below(d, sequence')
    BY <1>2 DEF Counted
  <2>1. Below(d, sequence) /\ sequence \in Nat
    BY <1>3 DEF EditorInv, Counted, EditorTypeOK
  <2> QED BY <1>3, <2>1, BelowLater
<1>6. GivenOnce'
  <2> SUFFICES ASSUME ahead, sequence' < MacSpace, NEW d \in file PROVE Distinct(d)
    BY <1>2 DEF GivenOnce
  <2>1. sequence < MacSpace
    BY MacAssumption DEF EditorInv, EditorTypeOK
  <2> QED BY <1>3, <2>1 DEF EditorInv, GivenOnce
<1> QED BY <1>1, <1>4, <1>5, <1>6 DEF EditorInv

-------------------------------------------------------------------------------
(* Adding a device puts it after the others: whoever shares its id keeps   *)
(* standing for that id.                                                   *)
LEMMA AddKeeps == ASSUME EditorInv, NEW ports \in Presets, AddDevice(ports) PROVE EditorInv'
<1> DEFINE mac == [e \in 0 .. (ports - 1) |-> Mac(sequence + 2 + e)]
           new == [id |-> sequence + 1, ports |-> mac]
<1>1. PICK last \in Nat : /\ \A p \in DOMAIN devices : p < last
                          /\ devices' = [p \in DOMAIN devices \cup {last} |-> IF p = last THEN new ELSE devices[p]]
  <2> DEFINE l == IF DOMAIN devices = {} THEN 0 ELSE Max(DOMAIN devices) + 1
  <2>1. l \in Nat /\ \A p \in DOMAIN devices : p < l
    <3>1. CASE DOMAIN devices = {}
      BY <3>1
    <3>2. CASE DOMAIN devices # {}
      <4>1. PICK m \in DOMAIN devices : \A p \in DOMAIN devices : p <= m
        BY <3>2 DEF EditorInv, EditorTypeOK, IsList
      <4>2. DOMAIN devices \in SUBSET Nat
        BY DEF EditorInv, EditorTypeOK, IsList
      <4>3. Max(DOMAIN devices) \in DOMAIN devices /\ \A p \in DOMAIN devices : p <= Max(DOMAIN devices)
        BY <3>2, <4>1, <4>2, Greatest
      <4> QED BY <3>2, <4>2, <4>3
    <3> QED BY <3>1, <3>2
  <2>2. devices' = [p \in DOMAIN devices \cup {l} |-> IF p = l THEN new ELSE devices[p]]
    BY DEF AddDevice
  <2> HIDE DEF l, new
  <2> QED BY <2>1, <2>2
<1>2. /\ ports \in Nat \ {0} /\ sequence \in Nat
      /\ links' = links /\ sequence' = sequence + 1 + ports /\ made' \in Nat
      /\ UNCHANGED <<file, ahead, foreign>>
  BY PresetsAssumption DEF AddDevice, EditorInv, EditorTypeOK
<1>3. \A e \in 0 .. (ports - 1) : mac[e] \in Nat /\ mac[e] <= sequence + 2 + e
                                  /\ (sequence' < MacSpace => mac[e] = sequence + 2 + e)
  <2> SUFFICES ASSUME NEW e \in 0 .. (ports - 1)
               PROVE  mac[e] \in Nat /\ mac[e] <= sequence + 2 + e
                      /\ (sequence' < MacSpace => mac[e] = sequence + 2 + e)
    OBVIOUS
  <2>1. mac[e] = Mac(sequence + 2 + e) /\ sequence + 2 + e \in Nat /\ sequence + 2 + e <= sequence'
    BY <1>2
  <2> QED BY <1>2, <2>1, MacIsNumber, MacAssumption
<1>4. IsDevice(new) /\ new.id = sequence + 1 /\ new.ports = mac
  <2>1. DOMAIN mac = 0 .. (ports - 1) /\ ports - 1 \in DOMAIN mac /\ ports - 1 \in Nat
    BY <1>2
  <2>2. mac \in [DOMAIN mac -> Nat]
    BY <1>3
  <2> HIDE DEF mac
  <2> QED BY <1>2, <2>1, <2>2 DEF IsDevice
<1> HIDE DEF new, mac
<1>5. /\ DOMAIN devices' = DOMAIN devices \cup {last} /\ last \notin DOMAIN devices
      /\ devices'[last] = new /\ \A p \in DOMAIN devices : devices'[p] = devices[p]
  BY <1>1
<1>6. IsList(devices) /\ DOMAIN devices \subseteq Nat /\ \A p \in DOMAIN devices : IsDevice(devices[p])
  BY DEF EditorInv, EditorTypeOK, IsList
<1>7. IsList(devices')
  BY <1>1, <1>4, <1>5, <1>6 DEF IsList
<1>8. Fits(devices, links) /\ links \subseteq Link
  BY CanvasIs DEF EditorInv, AllFit, EditorTypeOK
<1>9. Fits(devices', links')
  <2>1. ASSUME NEW end \in EndsOf(links)
        PROVE  /\ Holding(devices', end[1]) # {}
               /\ DOMAIN devices[First(devices, end[1])].ports
                    \subseteq DOMAIN devices'[First(devices', end[1])].ports
    <3>1. Holding(devices, end[1]) # {}
      BY <1>8 DEF Fits
    <3>2. /\ Holding(devices, end[1]) \subseteq Holding(devices', end[1])
          /\ \A p \in Holding(devices', end[1]) : p \in Holding(devices, end[1]) \/ \A q \in DOMAIN devices : q < p
      BY <1>1, <1>5 DEF Holding
    <3>3. Holding(devices', end[1]) # {} /\ First(devices', end[1]) = First(devices, end[1])
      BY <3>1, <3>2, <1>6, <1>7, FirstKept
    <3>4. First(devices, end[1]) \in DOMAIN devices
      BY <3>1, <1>6, FirstOf DEF Holding
    <3> QED BY <3>3, <3>4, <1>5
  <2> QED BY <2>1, <1>2, <1>8, FitsKept
<1>10. Canvas'.devices = devices' /\ Canvas'.links = links
  BY <1>2 DEF Canvas
<1>11. ASSUME ahead PROVE Below(Canvas', sequence')
  <2>1. Below(Canvas, sequence) /\ Canvas.devices = devices /\ Canvas.links = links
    BY <1>11, CanvasIs DEF EditorInv, Counted
  <2>2. ASSUME NEW p \in DOMAIN devices
        PROVE  devices[p].id <= sequence' /\ \A e \in DOMAIN devices[p].ports : devices[p].ports[e] <= sequence'
    BY <1>2, <1>6, <2>1 DEF Below, IsDevice
  <2>3. \A l \in links : l.id <= sequence'
    BY <1>2, <1>8, <2>1 DEF Below, Link
  <2>4. new.id <= sequence' /\ \A e \in DOMAIN new.ports : new.ports[e] <= sequence'
    <3>1. DOMAIN new.ports = 0 .. (ports - 1)
      BY <1>4 DEF mac
    <3> QED BY <3>1, <1>2, <1>3, <1>4
  <2> QED BY <2>2, <2>3, <2>4, <1>5, <1>10 DEF Below
<1>12. ASSUME ahead, sequence' < MacSpace PROVE Distinct(Canvas')
  <2>1. /\ Below(Canvas, sequence) /\ Canvas.devices = devices /\ Canvas.links = links
        /\ Distinct(Canvas)
    BY <1>2, <1>12, CanvasIs, MacAssumption DEF EditorInv, Counted, GivenOnce
  <2>2. DOMAIN new.ports = 0 .. (ports - 1) /\ \A e \in DOMAIN new.ports : new.ports[e] = sequence + 2 + e
    BY <1>3, <1>4, <1>12 DEF mac
  <2>3. ASSUME NEW p \in DOMAIN devices
        PROVE  /\ devices[p].id # new.id
               /\ \A e \in DOMAIN devices[p].ports, f \in DOMAIN new.ports : devices[p].ports[e] # new.ports[f]
    <3>1. devices[p].id \in Nat /\ devices[p].id <= sequence
      BY <1>6, <2>1 DEF Below, IsDevice
    <3>2. \A e \in DOMAIN devices[p].ports : devices[p].ports[e] \in Nat /\ devices[p].ports[e] <= sequence
      BY <1>6, <2>1 DEF Below, IsDevice
    <3> QED BY <3>1, <3>2, <2>2, <1>2, <1>4
  <2>4. \A e, f \in DOMAIN new.ports : new.ports[e] = new.ports[f] => e = f
    BY <2>2, <1>2
  <2>5. \A p, q \in DOMAIN devices' : devices'[p].id = devices'[q].id => p = q
    BY <1>5, <2>1, <2>3 DEF Distinct
  <2>6. ASSUME NEW p \in DOMAIN devices', NEW q \in DOMAIN devices',
               NEW e \in DOMAIN devices'[p].ports, NEW f \in DOMAIN devices'[q].ports,
               devices'[p].ports[e] = devices'[q].ports[f]
        PROVE  p = q /\ e = f
    <3>1. CASE p = last /\ q = last
      BY <3>1, <2>4, <2>6, <1>5
    <3>2. CASE p = last /\ q # last
      BY <3>2, <2>3, <2>6, <1>5
    <3>3. CASE p # last /\ q = last
      BY <3>3, <2>3, <2>6, <1>5
    <3>4. CASE p # last /\ q # last
      BY <3>4, <2>1, <2>6, <1>5 DEF Distinct
    <3> QED BY <3>1, <3>2, <3>3, <3>4
  <2> QED BY <2>1, <2>5, <2>6, <1>10 DEF Distinct
<1>13. sequence' \in Nat /\ sequence <= sequence' /\ links' \subseteq Link
  BY <1>2, <1>8
<1> QED BY <1>2, <1>7, <1>9, <1>11, <1>12, <1>13, CanvasStep

LEMMA SmallerCanvas ==
  ASSUME EditorInv, NEW P \in SUBSET DOMAIN devices, devices' = [p \in P |-> devices[p]],
         links' \subseteq links, UNCHANGED <<sequence, file, ahead, foreign, made>>,
         Fits(devices', links')
  PROVE  EditorInv'
<1>1. IsList(devices) /\ links \subseteq Link /\ sequence \in Nat /\ made \in Nat
  BY DEF EditorInv, EditorTypeOK
<1>2. IsList(devices') /\ links' \subseteq Link
  BY <1>1, Sublist
<1>3. Canvas.devices = devices /\ Canvas.links = links /\ Canvas \in Documents
      /\ Canvas'.devices = devices' /\ Canvas'.links = links'
  BY DEF Canvas, Documents
<1>4. \A p \in DOMAIN devices' : p \in DOMAIN devices /\ devices'[p] = devices[p]
  OBVIOUS
<1>5. ASSUME ahead PROVE Below(Canvas', sequence')
  BY <1>3, <1>4, <1>5 DEF EditorInv, Counted, Below
<1>6. ASSUME ahead, sequence' < MacSpace PROVE Distinct(Canvas')
  <2>1. Distinct(Canvas)
    BY <1>3, <1>6 DEF EditorInv, GivenOnce
  <2> QED BY <2>1, <1>3, <1>4 DEF Distinct
<1>7. sequence' \in Nat /\ sequence <= sequence' /\ made' \in Nat
  BY <1>1
<1> QED BY <1>2, <1>5, <1>6, <1>7, CanvasStep

LEMMA RemoveDeviceKeeps == ASSUME EditorInv, NEW id, RemoveDevice(id) PROVE EditorInv'
<1> DEFINE P == DOMAIN devices \ Holding(devices, id)
<1>1. /\ devices' = [p \in P |-> devices[p]]
      /\ links' = {l \in links : l.a[1] # id /\ l.b[1] # id}
      /\ UNCHANGED <<sequence, file, ahead, foreign, made>>
  BY DEF RemoveDevice
<1>2. IsList(devices) /\ Fits(devices, links)
  BY CanvasIs DEF EditorInv, AllFit, EditorTypeOK
<1>3. IsList(devices')
  BY <1>1, <1>2, Sublist
<1>4. links' \in SUBSET links
  BY <1>1
<1>5. ASSUME NEW end \in EndsOf(links')
      PROVE  /\ Holding(devices', end[1]) # {}
             /\ DOMAIN devices[First(devices, end[1])].ports
                  \subseteq DOMAIN devices'[First(devices', end[1])].ports
  <2>1. end[1] # id /\ end \in EndsOf(links)
    BY <1>1 DEF EndsOf
  <2>2. Holding(devices, end[1]) # {}
    BY <1>2, <2>1 DEF Fits
  <2>3. Holding(devices', end[1]) = Holding(devices, end[1])
    BY <1>1, <2>1 DEF Holding
  <2>4. First(devices', end[1]) = First(devices, end[1])
    BY <2>3 DEF First
  <2>5. First(devices', end[1]) \in DOMAIN devices'
    BY <1>3, <2>2, <2>3, FirstOf DEF Holding
  <2> QED BY <1>1, <2>2, <2>3, <2>4, <2>5
<1>6. Fits(devices', links')
  BY <1>2, <1>4, <1>5, FitsKept
<1> QED BY <1>1, <1>4, <1>6, SmallerCanvas

LEMMA RemoveLinkKeeps == ASSUME EditorInv, NEW id, RemoveLink(id) PROVE EditorInv'
<1>1. devices' = devices /\ links' \subseteq links /\ UNCHANGED <<sequence, file, ahead, foreign, made>>
  BY DEF RemoveLink
<1>2. IsList(devices) /\ Fits(devices, links)
  BY CanvasIs DEF EditorInv, AllFit, EditorTypeOK
<1>3. devices' = [p \in DOMAIN devices |-> devices[p]]
  BY <1>1, <1>2 DEF IsList
<1>4. ASSUME NEW end \in EndsOf(links') PROVE end \in EndsOf(links)
  BY <1>1 DEF EndsOf
<1>5. \A end \in EndsOf(links') : Holding(devices, end[1]) # {}
  BY <1>2, <1>4 DEF Fits
<1>6. Fits(devices, links')
  BY <1>1, <1>2, <1>5, FitsKept
<1> QED BY <1>1, <1>3, <1>6, SmallerCanvas

LEMMA SaveKeeps == ASSUME EditorInv, Save PROVE EditorInv'
<1>1. file' = {Canvas} /\ Canvas' = Canvas /\ Documents' = {Canvas} /\ Canvas \in Documents
  BY DEF Save, Canvas, Documents
<1>2. IsDocument(Canvas)
  BY DEF EditorInv, EditorTypeOK, IsDocument, Canvas
<1>3. UNCHANGED <<devices, links, sequence, ahead, foreign, made>>
  BY DEF Save
<1>4. EditorTypeOK'
  BY <1>1, <1>2, <1>3 DEF EditorInv, EditorTypeOK
<1> QED BY <1>1, <1>3, <1>4 DEF EditorInv, AllFit, Counted, GivenOnce

(* Any document that fits may replace the canvas. *)
LEMMA ReplaceKeeps ==
  ASSUME EditorInv, NEW d, IsDocument(d), Fits(d.devices, d.links), Replace(d),
         UNCHANGED <<sequence, file, made>>, ahead' \in BOOLEAN, foreign' \in BOOLEAN,
         ahead' => ahead /\ Below(d, sequence),
         ahead' /\ sequence < MacSpace => Distinct(d)
  PROVE  EditorInv'
<1>1. Canvas' = d /\ Documents' = file \cup {d} /\ file \subseteq Documents
  BY DEF Replace, Canvas, Documents, IsDocument
<1>2. EditorTypeOK'
  BY DEF EditorInv, EditorTypeOK, Replace, IsDocument
<1>3. AllFit'
  BY <1>1 DEF EditorInv, AllFit
<1>4. Counted' /\ GivenOnce'
  BY <1>1 DEF EditorInv, Counted, GivenOnce
<1> QED BY <1>2, <1>3, <1>4 DEF EditorInv

LEMMA LoadFileKeeps == ASSUME EditorInv, LoadFile PROVE EditorInv'
<1>1. PICK d \in file : Replace(d)
  BY DEF LoadFile
<1>2. IsDocument(d) /\ d \in Documents /\ UNCHANGED <<sequence, file, ahead, foreign, made>>
  BY DEF EditorInv, EditorTypeOK, Documents, LoadFile
<1>3. ahead' \in BOOLEAN /\ foreign' \in BOOLEAN
  BY <1>2 DEF EditorInv, EditorTypeOK
<1> QED BY <1>1, <1>2, <1>3, ReplaceKeeps DEF EditorInv, AllFit, Counted, GivenOnce

LEMMA LoadMissionKeeps == ASSUME EditorInv, NEW d \in Shipped, LoadMission(d) PROVE EditorInv'
<1>1. /\ Replace(d) /\ ahead' = (ahead /\ Below(d, sequence) /\ Distinct(d)) /\ foreign' = TRUE
      /\ UNCHANGED <<sequence, file, made>>
  BY DEF LoadMission
<1>2. IsDocument(d) /\ Fits(d.devices, d.links)
  BY DocumentAssumption
<1>3. ahead' \in BOOLEAN /\ foreign' \in BOOLEAN
  BY <1>1
<1>4. ahead' => ahead /\ Below(d, sequence) /\ Distinct(d)
  BY <1>1
<1> QED BY <1>1, <1>2, <1>3, <1>4, ReplaceKeeps

LEMMA ResetKeeps == ASSUME EditorInv, Reset PROVE EditorInv'
<1>1. Nothing.devices = [p \in {} |-> {}] /\ Nothing.links = {}
  BY DEF Nothing
<1>2. DOMAIN Nothing.devices = {}
  BY <1>1
<1>3. IsDocument(Nothing)
  BY <1>1, <1>2 DEF IsDocument, IsList, Nothing
<1>4. Fits(Nothing.devices, Nothing.links) /\ Distinct(Nothing) /\ Below(Nothing, sequence)
  BY <1>1, <1>2 DEF Fits, EndsOf, Distinct, Below
<1>5. Replace(Nothing) /\ UNCHANGED <<sequence, file, ahead, foreign, made>>
  BY DEF Reset
<1>6. ahead' \in BOOLEAN /\ foreign' \in BOOLEAN
  BY <1>5 DEF EditorInv, EditorTypeOK
<1> QED BY <1>3, <1>4, <1>5, <1>6, ReplaceKeeps

LEMMA LoadPageKeeps == ASSUME EditorInv, NEW now \in Clock, LoadPage(now) PROVE EditorInv'
<1>1. /\ sequence' = now /\ now \in Nat
      /\ ahead' = (ahead /\ sequence < MacSpace /\ \A d \in file \cup {Canvas} : Below(d, now))
      /\ UNCHANGED <<devices, links, file, foreign, made>>
  BY ClockAssumption DEF LoadPage
<1>2. Documents' = Documents /\ Documents = file \cup {Canvas}
  BY <1>1 DEF Documents, Canvas
<1>3. EditorTypeOK'
  BY <1>1 DEF EditorInv, EditorTypeOK
<1>4. ahead' => ahead /\ sequence < MacSpace /\ \A d \in Documents : Below(d, now)
  BY <1>1, <1>2
<1>5. AllFit' /\ Counted' /\ GivenOnce'
  BY <1>1, <1>2, <1>4 DEF EditorInv, AllFit, Counted, GivenOnce
<1> QED BY <1>3, <1>5 DEF EditorInv

LEMMA GrowsByOne ==
  ASSUME NEW d, NEW n \in Nat, NEW x, Found(d, n, x) \/ Grown(d, n, x)
  PROVE  /\ x.port \in DOMAIN x.device.ports /\ x.sequence \in {n, n + 1}
         /\ \A e \in DOMAIN d.ports : e \in DOMAIN x.device.ports /\ x.device.ports[e] = d.ports[e]
         /\ \A e \in DOMAIN x.device.ports : e \in DOMAIN d.ports \/
              (e = x.port /\ x.sequence = n + 1 /\ x.device.ports[e] = Mac(n + 1))
<1>1. CASE Found(d, n, x)
  <2>1. x.device = d /\ x.sequence = n /\ x.port \in DOMAIN d.ports
    BY <1>1 DEF Found
  <2> QED BY <2>1
<1>2. CASE Grown(d, n, x)
  BY <1>2 DEF Grown
<1> QED BY <1>1, <1>2

(* Cabling patches two devices, by id: everybody keeps an id and a place,  *)
(* and nobody loses a port.                                                *)
LEMMA ConnectKeeps == ASSUME EditorInv, NEW s, NEW t, Connect(s, t) PROVE EditorInv'
<1>1. /\ s # t /\ Holding(devices, s) # {} /\ Holding(devices, t) # {}
      /\ UNCHANGED <<file, ahead, foreign>> /\ made' = made + 1
  BY DEF Connect
<1>2. PICK ps : ps = First(devices, s)
  OBVIOUS
<1>3. PICK pt : pt = First(devices, t)
  OBVIOUS
<1>4. PICK source : source = FreeInterfaceOrGrow(devices[ps], sequence)
  OBVIOUS
<1>5. PICK target : target = FreeInterfaceOrGrow(devices[pt], source.sequence)
  OBVIOUS
<1>6. PICK cable : cable = [id |-> target.sequence + 1, a |-> <<s, source.port>>, b |-> <<t, target.port>>]
  OBVIOUS
<1>7. /\ sequence' = target.sequence + 1
      /\ devices' = [p \in DOMAIN devices |->
           IF devices[p].id = s THEN source.device
           ELSE IF devices[p].id = t THEN target.device ELSE devices[p]]
      /\ links' = links \cup {cable}
  BY <1>2, <1>3, <1>4, <1>5, <1>6 DEF Connect, Uid
<1>8. /\ IsList(devices) /\ \A p \in DOMAIN devices : IsDevice(devices[p])
      /\ links \subseteq Link /\ sequence \in Nat /\ made \in Nat
      /\ Fits(devices, links)
  BY CanvasIs DEF EditorInv, EditorTypeOK, AllFit, IsList
<1>9. /\ ps \in Holding(devices, s) /\ ps \in DOMAIN devices /\ devices[ps].id = s
      /\ pt \in Holding(devices, t) /\ pt \in DOMAIN devices /\ devices[pt].id = t
  BY <1>1, <1>2, <1>3, <1>8, FirstOf DEF Holding
<1>10. /\ \A end \in EndsOf(links) : end[1] = s => end[2] \in DOMAIN devices[ps].ports
       /\ \A end \in EndsOf(links) : end[1] = t => end[2] \in DOMAIN devices[pt].ports
  BY <1>2, <1>3, <1>8 DEF Fits
<1>11. /\ IsDevice(source.device) /\ source.device.id = s
       /\ source.port \in Nat /\ <<s, source.port>> \notin EndsOf(links)
       /\ Found(devices[ps], sequence, source) \/ Grown(devices[ps], sequence, source)
  BY <1>4, <1>8, <1>9, <1>10, FreePort
<1>12. source.sequence \in {sequence, sequence + 1} /\ source.sequence \in Nat
  BY <1>8, <1>11 DEF Found, Grown
<1>13. /\ IsDevice(target.device) /\ target.device.id = t
       /\ target.port \in Nat /\ <<t, target.port>> \notin EndsOf(links)
       /\ Found(devices[pt], source.sequence, target) \/ Grown(devices[pt], source.sequence, target)
  BY <1>5, <1>8, <1>9, <1>10, <1>12, FreePort
<1>14. target.sequence \in {source.sequence, source.sequence + 1} /\ target.sequence \in Nat
  BY <1>12, <1>13 DEF Found, Grown
<1>15. /\ source.port \in DOMAIN source.device.ports
       /\ \A e \in DOMAIN devices[ps].ports :
            e \in DOMAIN source.device.ports /\ source.device.ports[e] = devices[ps].ports[e]
       /\ \A e \in DOMAIN source.device.ports : e \in DOMAIN devices[ps].ports \/
            (e = source.port /\ source.sequence = sequence + 1 /\ source.device.ports[e] = Mac(sequence + 1))
  <2>1. PICK n \in Nat : n = sequence
    BY <1>8
  <2>2. PICK d : d = devices[ps]
    OBVIOUS
  <2>3. Found(d, n, source) \/ Grown(d, n, source)
    BY <2>1, <2>2, <1>11
  <2>4. /\ source.port \in DOMAIN source.device.ports
        /\ \A e \in DOMAIN d.ports : e \in DOMAIN source.device.ports /\ source.device.ports[e] = d.ports[e]
        /\ \A e \in DOMAIN source.device.ports : e \in DOMAIN d.ports \/
             (e = source.port /\ source.sequence = n + 1 /\ source.device.ports[e] = Mac(n + 1))
    BY <2>3, GrowsByOne
  <2> QED BY <2>1, <2>2, <2>4
<1>16. /\ target.port \in DOMAIN target.device.ports
       /\ \A e \in DOMAIN devices[pt].ports :
            e \in DOMAIN target.device.ports /\ target.device.ports[e] = devices[pt].ports[e]
       /\ \A e \in DOMAIN target.device.ports : e \in DOMAIN devices[pt].ports \/
            (e = target.port /\ target.sequence = source.sequence + 1
             /\ target.device.ports[e] = Mac(source.sequence + 1))
  <2>1. PICK n \in Nat : n = source.sequence
    BY <1>12
  <2>2. PICK d : d = devices[pt]
    OBVIOUS
  <2>3. Found(d, n, target) \/ Grown(d, n, target)
    BY <2>1, <2>2, <1>13
  <2>4. /\ target.port \in DOMAIN target.device.ports
        /\ \A e \in DOMAIN d.ports : e \in DOMAIN target.device.ports /\ target.device.ports[e] = d.ports[e]
        /\ \A e \in DOMAIN target.device.ports : e \in DOMAIN d.ports \/
             (e = target.port /\ target.sequence = n + 1 /\ target.device.ports[e] = Mac(n + 1))
    BY <2>3, GrowsByOne
  <2> QED BY <2>1, <2>2, <2>4
<1>17. /\ DOMAIN devices' = DOMAIN devices
       /\ \A p \in DOMAIN devices :
            /\ devices[p].id = s => devices'[p] = source.device
            /\ devices[p].id = t => devices'[p] = target.device
            /\ devices[p].id # s /\ devices[p].id # t => devices'[p] = devices[p]
  BY <1>1, <1>7
<1>18. \A p \in DOMAIN devices : IsDevice(devices'[p]) /\ devices'[p].id = devices[p].id
  BY <1>8, <1>11, <1>13, <1>17
<1>19. IsList(devices')
  <2>1. devices' = [p \in DOMAIN devices |-> devices'[p]]
    BY <1>7, <1>17
  <2> QED BY <2>1, <1>8, <1>18, MappedList
<1>20. \A id : Holding(devices', id) = Holding(devices, id) /\ First(devices', id) = First(devices, id)
  BY <1>17, <1>18 DEF Holding, First
<1>21. Fits(devices', links)
  <2>1. ASSUME NEW end \in EndsOf(links)
        PROVE  /\ Holding(devices', end[1]) # {}
               /\ DOMAIN devices[First(devices, end[1])].ports
                    \subseteq DOMAIN devices'[First(devices', end[1])].ports
    <3>1. Holding(devices, end[1]) # {}
      BY <1>8 DEF Fits
    <3>2. First(devices, end[1]) \in DOMAIN devices /\ devices[First(devices, end[1])].id = end[1]
      BY <3>1, <1>8, FirstOf DEF Holding
    <3>3. CASE end[1] = s
      BY <3>1, <3>2, <3>3, <1>2, <1>15, <1>17, <1>20
    <3>4. CASE end[1] = t
      BY <3>1, <3>2, <3>4, <1>3, <1>16, <1>17, <1>20
    <3>5. CASE end[1] # s /\ end[1] # t
      BY <3>1, <3>2, <3>5, <1>17, <1>20
    <3> QED BY <3>3, <3>4, <3>5
  <2> QED BY <2>1, <1>8, FitsKept
<1>22. cable \in Link /\ cable.a = <<s, source.port>> /\ cable.b = <<t, target.port>>
       /\ cable.id = sequence'
  <2>1. s \in Nat /\ t \in Nat
    BY <1>8, <1>9 DEF IsDevice
  <2> QED BY <2>1, <1>6, <1>7, <1>11, <1>13, <1>14 DEF Link, End
<1>23. Fits(devices', links')
  <2>1. EndsOf(links') = EndsOf(links) \cup {cable.a, cable.b}
    BY <1>7 DEF EndsOf
  <2>2. /\ Holding(devices', s) # {} /\ source.port \in DOMAIN devices'[First(devices', s)].ports
        /\ Holding(devices', t) # {} /\ target.port \in DOMAIN devices'[First(devices', t)].ports
    BY <1>1, <1>2, <1>3, <1>9, <1>15, <1>16, <1>17, <1>20
  <2>3. \A end \in EndsOf(links') :
          Holding(devices', end[1]) # {} /\ end[2] \in DOMAIN devices'[First(devices', end[1])].ports
    BY <2>1, <2>2, <1>21, <1>22 DEF Fits
  <2>4. \A l \in links' : l.a # l.b
    BY <1>1, <1>7, <1>21, <1>22 DEF Fits
  <2>5. \A l \in links : {l.a, l.b} \cap {cable.a, cable.b} = {}
    BY <1>11, <1>13, <1>22 DEF EndsOf
  <2>6. \A l, k \in links' : {l.a, l.b} \cap {k.a, k.b} # {} => l = k
    <3>1. \A l, k \in links : {l.a, l.b} \cap {k.a, k.b} # {} => l = k
      BY <1>8 DEF Fits
    <3> QED BY <3>1, <2>5, <1>7
  <2> QED BY <2>3, <2>4, <2>6 DEF Fits
<1>24. Canvas'.devices = devices' /\ Canvas'.links = links'
  BY DEF Canvas
(* A port has the MAC it had, or it is the new one of one of the two.      *)
<1>25. ASSUME NEW p \in DOMAIN devices, NEW e \in DOMAIN devices'[p].ports
       PROVE  \/ e \in DOMAIN devices[First(devices, devices[p].id)].ports
                 /\ devices'[p].ports[e] = devices[First(devices, devices[p].id)].ports[e]
              \/ e \in DOMAIN devices[p].ports /\ devices'[p].ports[e] = devices[p].ports[e]
              \/ /\ devices[p].id = s /\ e = source.port
                 /\ source.sequence = sequence + 1 /\ devices'[p].ports[e] = Mac(sequence + 1)
              \/ /\ devices[p].id = t /\ e = target.port
                 /\ target.sequence = source.sequence + 1 /\ devices'[p].ports[e] = Mac(source.sequence + 1)
  <2>1. CASE devices[p].id = s
    BY <2>1, <1>2, <1>15, <1>17
  <2>2. CASE devices[p].id = t
    BY <2>2, <1>3, <1>16, <1>17
  <2>3. CASE devices[p].id # s /\ devices[p].id # t
    BY <2>3, <1>17
  <2> QED BY <2>1, <2>2, <2>3
<1>26. \A p \in DOMAIN devices : First(devices, devices[p].id) \in DOMAIN devices
  <2> SUFFICES ASSUME NEW p \in DOMAIN devices PROVE First(devices, devices[p].id) \in DOMAIN devices
    OBVIOUS
  <2>1. Holding(devices, devices[p].id) # {}
    BY DEF Holding
  <2> QED BY <2>1, <1>8, FirstOf DEF Holding
<1>27. sequence + 1 \in Nat /\ source.sequence + 1 \in Nat /\ sequence < sequence'
       /\ sequence + 1 <= sequence' /\ source.sequence + 1 <= sequence'
  BY <1>7, <1>8, <1>12, <1>14
<1>28. ASSUME ahead PROVE Below(Canvas', sequence')
  <2>1. Below(Canvas, sequence) /\ Canvas.devices = devices /\ Canvas.links = links
    BY <1>28, CanvasIs DEF EditorInv, Counted
  <2>2. \A p \in DOMAIN devices :
          devices[p].id \in Nat /\ devices[p].id <= sequence
          /\ \A e \in DOMAIN devices[p].ports : devices[p].ports[e] \in Nat /\ devices[p].ports[e] <= sequence
    BY <1>8, <2>1 DEF Below, IsDevice
  <2>3. Mac(sequence + 1) \in Nat /\ Mac(sequence + 1) <= sequence'
    BY <1>27, MacIsNumber, <1>7, <1>14
  <2>4. Mac(source.sequence + 1) \in Nat /\ Mac(source.sequence + 1) <= sequence'
    BY <1>27, MacIsNumber, <1>7, <1>14
  <2>5. ASSUME NEW p \in DOMAIN devices, NEW e \in DOMAIN devices'[p].ports
        PROVE  devices'[p].ports[e] <= sequence'
    <3> DEFINE mac == devices'[p].ports[e]
    <3>1. \/ \E q \in DOMAIN devices : \E f \in DOMAIN devices[q].ports : mac = devices[q].ports[f]
          \/ mac = Mac(sequence + 1)
          \/ mac = Mac(source.sequence + 1)
      BY <1>25, <1>26
    <3> HIDE DEF mac
    <3>2. mac <= sequence'
      <4>1. CASE \E q \in DOMAIN devices : \E f \in DOMAIN devices[q].ports : mac = devices[q].ports[f]
        <5>1. mac \in Nat /\ mac <= sequence
          BY <4>1, <2>2
        <5> QED BY <5>1, <1>7, <1>8, <1>14, <1>27
      <4> QED BY <4>1, <3>1, <2>3, <2>4
    <3> QED BY <3>2 DEF mac
  <2>6. \A p \in DOMAIN devices : devices'[p].id <= sequence'
    BY <2>2, <1>7, <1>8, <1>14, <1>18, <1>27
  <2>7. \A l \in links' : l.id <= sequence'
    BY <2>1, <1>7, <1>8, <1>14, <1>22, <1>27 DEF Below, Link
  <2> QED BY <2>5, <2>6, <2>7, <1>17, <1>24 DEF Below
<1>29. ASSUME ahead, sequence' < MacSpace PROVE Distinct(Canvas')
  <2>1. /\ Below(Canvas, sequence) /\ Canvas.devices = devices /\ Canvas.links = links
        /\ Distinct(Canvas)
    BY <1>7, <1>8, <1>14, <1>27, <1>29, CanvasIs, MacAssumption DEF EditorInv, Counted, GivenOnce
  <2>2. \A p \in DOMAIN devices :
          /\ First(devices, devices[p].id) = p
          /\ \A e \in DOMAIN devices[p].ports : devices[p].ports[e] \in Nat /\ devices[p].ports[e] <= sequence
    <3> SUFFICES ASSUME NEW p \in DOMAIN devices
                 PROVE  /\ First(devices, devices[p].id) = p
                        /\ \A e \in DOMAIN devices[p].ports :
                             devices[p].ports[e] \in Nat /\ devices[p].ports[e] <= sequence
      OBVIOUS
    <3>1. Holding(devices, devices[p].id) # {}
      BY DEF Holding
    <3>2. First(devices, devices[p].id) \in DOMAIN devices
          /\ devices[First(devices, devices[p].id)].id = devices[p].id
      BY <3>1, <1>8, FirstOf DEF Holding
    <3>3. First(devices, devices[p].id) = p
      BY <3>2, <2>1 DEF Distinct
    <3> QED BY <3>3, <1>8, <2>1 DEF Below, IsDevice
  <2>3. Mac(sequence + 1) = sequence + 1 /\ Mac(source.sequence + 1) = source.sequence + 1
    BY <1>7, <1>14, <1>27, <1>29, MacIsNumber, MacAssumption
  <2>4. ASSUME NEW p \in DOMAIN devices, NEW e \in DOMAIN devices'[p].ports
        PROVE  \/ /\ e \in DOMAIN devices[p].ports /\ devices'[p].ports[e] = devices[p].ports[e]
                  /\ devices'[p].ports[e] \in Nat /\ devices'[p].ports[e] <= sequence
               \/ p = ps /\ e = source.port /\ source.sequence = sequence + 1 /\ devices'[p].ports[e] = sequence + 1
               \/ p = pt /\ e = target.port /\ devices'[p].ports[e] = source.sequence + 1
    BY <2>2, <2>3, <1>2, <1>3, <1>25
  <2>5. ASSUME NEW p \in DOMAIN devices, NEW q \in DOMAIN devices,
               NEW e \in DOMAIN devices'[p].ports, NEW f \in DOMAIN devices'[q].ports,
               devices'[p].ports[e] = devices'[q].ports[f]
        PROVE  p = q /\ e = f
    <3>1. e \in DOMAIN devices[p].ports /\ f \in DOMAIN devices[q].ports
          /\ devices[p].ports[e] = devices[q].ports[f] => p = q /\ e = f
      BY <2>1 DEF Distinct
    <3> QED BY <3>1, <2>4, <2>5, <1>8, <1>12
  <2>6. \A p, q \in DOMAIN devices : devices'[p].id = devices'[q].id => p = q
    BY <2>1, <1>18 DEF Distinct
  <2>7. \A l, k \in links' : l.id = k.id => l = k
    <3>1. \A l \in links : l.id \in Nat /\ l.id <= sequence
      BY <2>1, <1>8 DEF Below, Link
    <3>2. \A l \in links : l.id # cable.id
      BY <3>1, <1>7, <1>8, <1>14, <1>22, <1>27
    <3> QED BY <2>1, <3>2, <1>7 DEF Distinct
  <2> QED BY <2>5, <2>6, <2>7, <1>17, <1>24 DEF Distinct
<1>30. /\ sequence' \in Nat /\ sequence <= sequence' /\ links' \subseteq Link /\ made' \in Nat
  BY <1>1, <1>7, <1>8, <1>14, <1>22, <1>27
<1> QED BY <1>1, <1>19, <1>23, <1>28, <1>29, <1>30, CanvasStep

LEMMA EditKeeps == EditorInv /\ Edit => EditorInv'
<1> SUFFICES ASSUME EditorInv, Edit PROVE EditorInv'
  OBVIOUS
<1>1. CASE \E ports \in Presets : AddDevice(ports)
  BY <1>1, AddKeeps
<1>2. CASE \E p \in DOMAIN devices : RemoveDevice(devices[p].id)
  BY <1>2, RemoveDeviceKeeps
<1>3. CASE \E p, q \in DOMAIN devices : Connect(devices[p].id, devices[q].id)
  BY <1>3, ConnectKeeps
<1>4. CASE \E l \in links : RemoveLink(l.id)
  BY <1>4, RemoveLinkKeeps
<1>5. CASE Save
  BY <1>5, SaveKeeps
<1>6. CASE LoadFile
  BY <1>6, LoadFileKeeps
<1>7. CASE Reset
  BY <1>7, ResetKeeps
<1>8. CASE \E d \in Shipped : LoadMission(d)
  BY <1>8, LoadMissionKeeps
<1> QED BY <1>1, <1>2, <1>3, <1>4, <1>5, <1>6, <1>7, <1>8 DEF Edit

LEMMA EditorRests == EditorInv /\ UNCHANGED document => EditorInv'
<1> SUFFICES ASSUME EditorInv, UNCHANGED document PROVE EditorInv'
  OBVIOUS
<1>1. UNCHANGED <<devices, links, sequence, file, ahead, foreign, made>>
  BY DEF document
<1>2. Canvas' = Canvas /\ Documents' = Documents
  BY <1>1 DEF Canvas, Documents
<1> QED BY <1>1, <1>2 DEF EditorInv, EditorTypeOK, AllFit, Counted, GivenOnce

-------------------------------------------------------------------------------
(* The invariant of the trace: what is drawn is the last event revealed,   *)
(* but at the end of the trace, where nothing is drawn once it stopped.    *)
Shown ==
  /\ cursor > 0 /\ (playing \/ cursor < Len(events)) => transit = TransitFor(events[cursor])
  /\ transit # None => transit.cable # None

TraceInv == TypeOK /\ AnimationInStep /\ Shown

LEMMA EventShown ==
  ASSUME NEW event \in Event(Link)
  PROVE  /\ TransitFor(event) \in [cable : Link, frame : Frame] \cup {None}
         /\ TransitFor(event) # None => TransitFor(event) = event /\ event.cable # None
         /\ event.frame \in Frame \cup {None} /\ DurationFor(event) \in Nat
BY FrameAssumption, TimeAssumption DEF Event, TransitFor, DurationFor

LEMMA BeginKeeps ==
  ASSUME TraceInv, NEW i \in 1 .. Len(events), NEW time \in Nat, Begin(i, time),
         UNCHANGED events, playing' \in BOOLEAN, EditorTypeOK'
  PROVE  TraceInv'
<1>1. events[i] \in Event(Link) /\ events \in Seq(Event(Link))
  BY DEF TraceInv, TypeOK
<1>2. /\ cursor' = i /\ elapsed' = time /\ transit' = TransitFor(events[i])
      /\ selected' = IF events[i].frame = None THEN selected ELSE events[i].frame
  BY DEF Begin
<1>3. TypeOK'
  BY <1>1, <1>2, EventShown DEF TraceInv, TypeOK
<1>4. AnimationInStep'
  BY <1>1, <1>2, EventShown DEF TraceInv, AnimationInStep
<1>5. Shown'
  BY <1>1, <1>2, EventShown DEF Shown
<1> QED BY <1>3, <1>4, <1>5 DEF TraceInv

LEMMA RewindKeeps ==
  ASSUME TraceInv, Rewind, UNCHANGED <<events, selected>>, playing' \in BOOLEAN, EditorTypeOK'
  PROVE  TraceInv'
BY DEF TraceInv, TypeOK, AnimationInStep, Shown, Rewind

LEMMA LoadKeeps ==
  ASSUME NEW new \in Seq(Event(Link)), events' = new, Rewind, playing' \in BOOLEAN, selected' = None, EditorTypeOK'
  PROVE  TraceInv'
BY DEF TraceInv, TypeOK, AnimationInStep, Shown, Rewind

LEMMA TracesAreSequences ==
  ASSUME NEW cables \in SUBSET Link, NEW new \in Traces(cables)
  PROVE  new \in Seq(Event(Link)) /\ new \in Seq(Event(cables))
<1>1. PICK n \in 0 .. MaxEvents : new \in [1 .. n -> Event(cables)]
  BY DEF Traces
<1>2. Event(cables) \subseteq Event(Link)
  BY DEF Event
<1>3. new \in Seq(Event(cables))
  BY <1>1, SeqDef
<1> QED BY <1>2, <1>3

LEMMA DriveKeeps == ASSUME TraceInv, Drive, EditorTypeOK' PROVE TraceInv'
<1>1. CASE Play
  <2>1. ~playing /\ UNCHANGED <<events, selected>> /\ playing' = TRUE
    BY <1>1 DEF Play
  <2>2. CASE cursor >= Len(events)
    <3>1. Rewind
      BY <1>1, <2>2 DEF Play
    <3> QED BY <2>1, <3>1, RewindKeeps
  <2>3. CASE ~(cursor >= Len(events))
    <3>1. UNCHANGED <<cursor, elapsed, transit>>
      BY <1>1, <2>3 DEF Play
    <3>2. cursor < Len(events)
      BY <2>3 DEF TraceInv, TypeOK
    <3> QED BY <2>1, <3>1, <3>2 DEF TraceInv, TypeOK, AnimationInStep, Shown
  <2> QED BY <2>2, <2>3
<1>2. CASE Pause
  BY <1>2 DEF Pause, TraceInv, TypeOK, AnimationInStep, Shown
<1>3. CASE Restart
  <2>1. Rewind /\ UNCHANGED <<events, selected>> /\ playing' \in BOOLEAN
    BY <1>3 DEF Restart
  <2> QED BY <2>1, RewindKeeps
<1>4. CASE StepForward
  <2>1. /\ cursor + 1 \in 1 .. Len(events) /\ events[cursor + 1] \in Event(Link)
        /\ UNCHANGED events /\ playing' \in BOOLEAN
        /\ Begin(cursor + 1, DurationFor(events[cursor + 1]))
    <3>1. cursor \in 0 .. Len(events) /\ cursor < Len(events) /\ events \in Seq(Event(Link))
      BY <1>4 DEF StepForward, TraceInv, TypeOK
    <3>2. cursor + 1 \in 1 .. Len(events)
      BY <3>1
    <3>3. events[cursor + 1] \in Event(Link)
      BY <3>1, <3>2
    <3> QED BY <1>4, <3>2, <3>3 DEF StepForward
  <2>2. DurationFor(events[cursor + 1]) \in Nat
    BY <2>1, EventShown
  <2> QED BY <2>1, <2>2, BeginKeeps
<1>5. CASE \E i \in 1 .. Len(events) : SelectFrame(i)
  <2>1. PICK i \in 1 .. Len(events) : SelectFrame(i)
    BY <1>5
  <2>2. events[i] \in Event(Link)
    BY DEF TraceInv, TypeOK
  <2>3. selected' = events[i].frame /\ UNCHANGED <<events, cursor, elapsed, playing, transit>>
    BY <2>1 DEF SelectFrame
  <2> QED BY <2>2, <2>3, EventShown DEF TraceInv, TypeOK, AnimationInStep, Shown
<1> QED BY <1>1, <1>2, <1>3, <1>4, <1>5 DEF Drive

LEMMA TickKeeps == ASSUME TraceInv, NEW delta \in Deltas, Tick(delta), EditorTypeOK' PROVE TraceInv'
<1>0. delta \in Nat /\ elapsed \in Nat /\ playing /\ UNCHANGED events /\ cursor \in 0 .. Len(events)
      /\ events \in Seq(Event(Link))
  BY TimeAssumption DEF Tick, TraceInv, TypeOK
<1>1. CASE (cursor = 0 \/ Over(delta)) /\ cursor < Len(events) /\ Begin(cursor + 1, 0) /\ UNCHANGED playing
  <2>1. cursor + 1 \in 1 .. Len(events) /\ playing' \in BOOLEAN
    BY <1>0, <1>1
  <2> QED BY <2>1, <1>0, <1>1, BeginKeeps
<1>2. CASE /\ Over(delta) /\ cursor = Len(events)
           /\ playing' = FALSE /\ transit' = None /\ elapsed' = DurationFor(events[cursor])
           /\ UNCHANGED <<cursor, selected>>
  <2>1. cursor > 0 /\ events[cursor] \in Event(Link)
    BY <1>0, <1>2 DEF Over
  <2>2. elapsed' \in Nat
    BY <2>1, <1>2, EventShown
  <2>3. TypeOK'
    BY <1>0, <1>2, <2>2 DEF TraceInv, TypeOK
  <2>4. AnimationInStep'
    BY <1>0, <1>2 DEF TraceInv, AnimationInStep
  <2>5. ~(cursor < Len(events))
    BY <1>0, <1>2
  <2>6. Shown'
    BY <1>0, <1>2, <2>5 DEF Shown
  <2> QED BY <2>3, <2>4, <2>6 DEF TraceInv
<1>3. CASE cursor > 0 /\ ~Over(delta) /\ elapsed' = elapsed + delta /\ UNCHANGED <<cursor, playing, transit, selected>>
  BY <1>0, <1>3 DEF TraceInv, TypeOK, AnimationInStep, Shown
<1> QED BY <1>1, <1>2, <1>3 DEF Tick

(* What every step does to the document. *)
LEMMA StepOfDocument ==
  ASSUME EditorInv, [Next]_vars
  PROVE  EditorInv'
<1>1. CASE Edit /\ UNCHANGED trace
  BY <1>1, EditKeeps
<1>2. CASE UNCHANGED document
  BY <1>2, EditorRests
<1>3. CASE \E now \in Clock : ReloadPage(now)
  BY <1>3, LoadPageKeeps DEF ReloadPage
<1>4. Answer \/ Drive \/ Clockwork \/ UNCHANGED vars => UNCHANGED document
  BY DEF Answer, Load, Drive, Play, Pause, Restart, StepForward, SelectFrame, Clockwork, Tick, vars
<1> QED BY <1>1, <1>2, <1>3, <1>4 DEF Next

LEMMA StepOfTrace ==
  ASSUME EditorInv, TraceInv, [Next]_vars
  PROVE  TraceInv'
<1>0. EditorTypeOK' /\ links \subseteq Link
  BY StepOfDocument DEF EditorInv, EditorTypeOK
<1>1. CASE Edit /\ UNCHANGED trace
  BY <1>0, <1>1 DEF trace, TraceInv, TypeOK, AnimationInStep, Shown
<1>2. CASE Answer
  <2>1. PICK new \in Traces(links) : Load(new)
    BY <1>2 DEF Answer
  <2>2. new \in Seq(Event(Link))
    BY <1>0, TracesAreSequences
  <2>3. events' = new /\ Rewind /\ playing' \in BOOLEAN /\ selected' = None
    BY <2>1 DEF Load
  <2> QED BY <1>0, <2>2, <2>3, LoadKeeps
<1>3. CASE Drive
  BY <1>0, <1>3, DriveKeeps
<1>4. CASE Clockwork
  BY <1>0, <1>4, TickKeeps DEF Clockwork
<1>5. CASE \E now \in Clock : ReloadPage(now)
  <2>1. events' = <<>> /\ Rewind /\ playing' \in BOOLEAN /\ selected' = None
    BY <1>5 DEF ReloadPage
  <2>2. <<>> \in Seq(Event(Link))
    OBVIOUS
  <2> QED BY <1>0, <2>1, <2>2, LoadKeeps
<1>6. CASE UNCHANGED vars
  BY <1>0, <1>6 DEF vars, trace, TraceInv, TypeOK, AnimationInStep, Shown
<1> QED BY <1>1, <1>2, <1>3, <1>4, <1>5, <1>6 DEF Next

-------------------------------------------------------------------------------
(* The cables that may be on the canvas, or drawn on it: an id stands for  *)
(* one of them.                                                            *)
Crossed == {events[i].cable : i \in DOMAIN events} \ {None}
Cables == links \cup Crossed \cup UNION {d.links : d \in file}
CablesTold == ahead /\ ~foreign => \A l, k \in Cables : l.id <= sequence /\ (l.id = k.id => l = k)

LEMMA CableOf ==
  ASSUME NEW cables, NEW event \in Event(cables)
  PROVE  event.cable \in cables \cup {None}
BY DEF Event

LEMMA CablesAreLinks == EditorInv /\ TraceInv => Cables \subseteq Link
<1> SUFFICES ASSUME EditorInv, TraceInv PROVE Cables \subseteq Link
  OBVIOUS
<1>1. links \subseteq Link /\ \A d \in file : d.links \subseteq Link
  BY DEF EditorInv, EditorTypeOK, IsDocument
<1>2. \A i \in DOMAIN events : events[i] \in Event(Link)
  BY DEF TraceInv, TypeOK
<1>3. Crossed \subseteq Link
  <2>1. \A i \in DOMAIN events : events[i].cable \in Link \cup {None}
    BY <1>2, CableOf
  <2> QED BY <2>1 DEF Crossed
<1> QED BY <1>1, <1>3 DEF Cables

LEMMA FewerCables ==
  ASSUME EditorInv, TraceInv, CablesTold, Cables' \subseteq Cables,
         sequence' \in Nat, sequence <= sequence', UNCHANGED <<ahead, foreign>>
  PROVE  CablesTold'
<1> SUFFICES ASSUME ahead, ~foreign, NEW l \in Cables', NEW k \in Cables'
             PROVE  l.id <= sequence' /\ (l.id = k.id => l = k)
  BY DEF CablesTold
<1>1. l.id \in Nat /\ sequence \in Nat
  BY CablesAreLinks DEF Link, EditorInv, EditorTypeOK
<1>2. l.id <= sequence /\ (l.id = k.id => l = k)
  BY DEF CablesTold
<1> QED BY <1>1, <1>2

LEMMA ConnectCounts ==
  ASSUME EditorInv, NEW s, NEW t, Connect(s, t)
  PROVE  /\ sequence' \in Nat /\ sequence < sequence'
         /\ \E cable : cable.id = sequence' /\ links' = links \cup {cable}
<1> DEFINE source == FreeInterfaceOrGrow(devices[First(devices, s)], sequence)
           target == FreeInterfaceOrGrow(devices[First(devices, t)], source.sequence)
<1>1. sequence \in Nat
  BY DEF EditorInv, EditorTypeOK
<1>2. source.sequence \in {sequence, sequence + 1}
  BY DEF FreeInterfaceOrGrow
<1>3. target.sequence \in {source.sequence, source.sequence + 1}
  BY DEF FreeInterfaceOrGrow
<1> DEFINE cable == [id |-> target.sequence + 1, a |-> <<s, source.port>>, b |-> <<t, target.port>>]
<1>4. sequence' = target.sequence + 1 /\ links' = links \cup {cable} /\ cable.id = target.sequence + 1
  BY DEF Connect, Uid
<1> HIDE DEF source, target, cable
<1>5. sequence' \in Nat /\ sequence < sequence'
  BY <1>1, <1>2, <1>3, <1>4
<1> QED BY <1>4, <1>5

LEMMA CablesInitial == Init => CablesTold
<1> SUFFICES ASSUME Init PROVE CablesTold
  OBVIOUS
<1>1. PICK d \in Stored, now \in Clock :
        links = d.links /\ sequence = now /\ ahead = (Below(d, now) /\ Distinct(d)) /\ file = {}
  BY DEF Init, EditorInit
<1>2. Cables = d.links
  BY <1>1 DEF Init, Empty, Cables, Crossed
<1> QED BY <1>1, <1>2 DEF CablesTold, Below, Distinct

LEMMA StepOfCables ==
  ASSUME EditorInv, TraceInv, CablesTold, [Next]_vars
  PROVE  CablesTold'
<1>0. sequence \in Nat /\ links \subseteq Link
  BY DEF EditorInv, EditorTypeOK
<1>1. CASE Edit /\ UNCHANGED trace
  <2>0. Crossed' = Crossed
    BY <1>1 DEF trace, Crossed
  <2>1. CASE \E ports \in Presets : AddDevice(ports)
    <3>1. PICK ports \in Presets : AddDevice(ports)
      BY <2>1
    <3>2. UNCHANGED <<links, file, ahead, foreign>> /\ sequence' = sequence + 1 + ports /\ ports \in Nat
      BY <3>1, PresetsAssumption DEF AddDevice
    <3>3. Cables' = Cables
      BY <2>0, <3>2 DEF Cables
    <3> QED BY <1>0, <3>2, <3>3, FewerCables
  <2>2. CASE \E p \in DOMAIN devices : RemoveDevice(devices[p].id)
    <3>1. links' \subseteq links /\ UNCHANGED <<file, ahead, foreign, sequence>>
      BY <2>2 DEF RemoveDevice
    <3>2. Cables' \subseteq Cables
      BY <2>0, <3>1 DEF Cables
    <3> QED BY <1>0, <3>1, <3>2, FewerCables
  <2>3. CASE \E p, q \in DOMAIN devices : Connect(devices[p].id, devices[q].id)
    <3>1. PICK s, t : Connect(s, t)
      BY <2>3
    <3>2. PICK cable : cable.id = sequence' /\ links' = links \cup {cable}
      BY <3>1, ConnectCounts
    <3>3. sequence' \in Nat /\ sequence < sequence' /\ UNCHANGED <<file, ahead, foreign>>
      BY <3>1, ConnectCounts DEF Connect
    <3>4. Cables' = Cables \cup {cable}
      BY <2>0, <3>2, <3>3 DEF Cables
    <3>5. \A l \in Cables : l.id \in Nat
      BY CablesAreLinks DEF Link
    <3> QED BY <1>0, <3>2, <3>3, <3>4, <3>5 DEF CablesTold
  <2>4. CASE \E l \in links : RemoveLink(l.id)
    <3>1. links' \subseteq links /\ UNCHANGED <<file, ahead, foreign, sequence>>
      BY <2>4 DEF RemoveLink
    <3>2. Cables' \subseteq Cables
      BY <2>0, <3>1 DEF Cables
    <3> QED BY <1>0, <3>1, <3>2, FewerCables
  <2>5. CASE Save
    <3>1. file' = {Canvas} /\ Canvas.links = links /\ UNCHANGED <<links, ahead, foreign, sequence>>
      BY <2>5 DEF Save, Canvas
    <3>2. Cables' \subseteq Cables
      BY <2>0, <3>1 DEF Cables
    <3> QED BY <1>0, <3>1, <3>2, FewerCables
  <2>6. CASE LoadFile
    <3>1. PICK d \in file : links' = d.links
      BY <2>6 DEF LoadFile, Replace
    <3>2. UNCHANGED <<file, ahead, foreign, sequence>>
      BY <2>6 DEF LoadFile
    <3>3. Cables' \subseteq Cables
      BY <2>0, <3>1, <3>2 DEF Cables
    <3> QED BY <1>0, <3>2, <3>3, FewerCables
  <2>7. CASE Reset
    <3>1. links' = {} /\ UNCHANGED <<file, ahead, foreign, sequence>>
      BY <2>7 DEF Reset, Replace, Nothing
    <3>2. Cables' \subseteq Cables
      BY <2>0, <3>1 DEF Cables
    <3> QED BY <1>0, <3>1, <3>2, FewerCables
  <2>8. CASE \E d \in Shipped : LoadMission(d)
    BY <2>8 DEF LoadMission, CablesTold
  <2> QED BY <1>1, <2>1, <2>2, <2>3, <2>4, <2>5, <2>6, <2>7, <2>8 DEF Edit
<1>2. CASE Answer
  <2>1. PICK new \in Traces(links) : Load(new)
    BY <1>2 DEF Answer
  <2>2. new \in Seq(Event(links))
    BY <1>0, <2>1, TracesAreSequences
  <2>3. events' = new /\ UNCHANGED <<links, file, sequence, ahead, foreign>>
    BY <2>1 DEF Load, document
  <2>4. \A i \in DOMAIN new : new[i] \in Event(links)
    BY <2>2
  <2>5. Crossed' \subseteq links
    <3>1. \A i \in DOMAIN events' : events'[i].cable \in links \cup {None}
      BY <2>3, <2>4, CableOf
    <3> QED BY <3>1 DEF Crossed
  <2>6. Cables' \subseteq Cables
    BY <2>3, <2>5 DEF Cables
  <2> QED BY <1>0, <2>3, <2>6, FewerCables
<1>3. CASE Drive \/ Clockwork \/ UNCHANGED vars
  <2>1. UNCHANGED <<events, links, file, sequence, ahead, foreign>>
    BY <1>3 DEF Drive, Play, Pause, Restart, StepForward, SelectFrame, Clockwork, Tick, vars, trace, document
  <2>2. Cables' = Cables
    BY <2>1 DEF Cables, Crossed
  <2> QED BY <1>0, <2>1, <2>2, FewerCables
<1>4. CASE \E now \in Clock : ReloadPage(now)
  <2>1. PICK now \in Clock : ReloadPage(now)
    BY <1>4
  <2>2. /\ events' = <<>> /\ sequence' = now /\ UNCHANGED <<links, file, foreign>>
        /\ ahead' => ahead /\ \A d \in file \cup {Canvas} : Below(d, now)
    BY <2>1 DEF ReloadPage, LoadPage
  <2>3. Crossed' = {}
    BY <2>2 DEF Crossed
  <2>4. Cables' = links \cup UNION {d.links : d \in file}
    BY <2>2, <2>3 DEF Cables
  <2>6. Cables' \subseteq Cables
    BY <2>4 DEF Cables
  <2>5. ahead' => \A l \in Cables' : l.id <= now
    <3> SUFFICES ASSUME ahead', NEW l \in Cables' PROVE l.id <= now
      OBVIOUS
    <3>1. PICK d \in file \cup {Canvas} : l \in d.links
      BY <2>4, CanvasIs
    <3> QED BY <2>2, <3>1 DEF Below
  <2> QED BY <2>2, <2>5, <2>6 DEF CablesTold
<1> QED BY <1>1, <1>2, <1>3, <1>4 DEF Next

-------------------------------------------------------------------------------
IInv == EditorInv /\ TraceInv /\ CablesTold

LEMMA Initial == Init => IInv
<1> SUFFICES ASSUME Init PROVE IInv
  OBVIOUS
<1>1. EditorInv
  BY EditorInitial DEF Init
<1>2. TraceInv
  <2>1. /\ events = <<>> /\ cursor = 0 /\ elapsed = 0 /\ playing = FALSE
        /\ transit = None /\ selected = None /\ EditorTypeOK
    BY <1>1 DEF Init, Empty, EditorInv
  <2>2. events \in Seq(Event(Link)) /\ cursor \in 0 .. Len(events)
    BY <2>1
  <2>3. TypeOK
    BY <2>1, <2>2 DEF TypeOK
  <2> QED BY <2>1, <2>3 DEF TraceInv, AnimationInStep, Shown
<1> QED BY <1>1, <1>2, CablesInitial DEF IInv

LEMMA Invariance == Spec => []IInv
<1>1. IInv /\ [Next]_vars => IInv'
  BY StepOfDocument, StepOfTrace, StepOfCables DEF IInv
<1> QED BY Initial, <1>1, PTL DEF Spec

(* The document and the trace have their types. *)
THEOREM TypeCorrect == Spec => []TypeOK
<1>1. IInv => TypeOK
  BY DEF IInv, TraceInv
<1> QED BY Invariance, <1>1, PTL

(* For any presets, missions and documents kept, no port ever holds two    *)
(* cables and no cable loses an end (connect, removeDevice).               *)
THEOREM PortsHoldOneCable == Spec => []CablesFit
<1>1. IInv => CablesFit
  BY CanvasIs DEF IInv, EditorInv, AllFit, CablesFit
<1> QED BY Invariance, <1>1, PTL

(* As long as the counter was ahead on every page, ids and MACs are given  *)
(* once, up to the width of a MAC (uid, generateMac).                      *)
THEOREM NumbersGivenOnce == Spec => []NothingTwice
<1>1. IInv => NothingTwice
  BY CanvasIs DEF IInv, EditorInv, GivenOnce, NothingTwice
<1> QED BY Invariance, <1>1, PTL

(* For any durations and traces, what is drawn, logged and selected belong *)
(* together (simulationStore).                                             *)
THEOREM AnimationKeepsStep == Spec => []AnimationInStep
<1>1. IInv => AnimationInStep
  BY DEF IInv, TraceInv
<1> QED BY Invariance, <1>1, PTL

(* However the canvas is edited while a trace plays over it, a crossing is *)
(* drawn on the cable it crossed, or on none (CableEdge).                  *)
THEOREM CrossingsKeepTheirCable == Spec => []DrawnWhereItCrossed
<1>1. ASSUME IInv PROVE DrawnWhereItCrossed
  <2> SUFFICES ASSUME ahead, ~foreign, transit # None, NEW l \in links, l.id = transit.cable.id
               PROVE  l = transit.cable
    BY DEF DrawnWhereItCrossed
  <2>1. cursor > 0 /\ cursor \in 0 .. Len(events) /\ transit = events[cursor] /\ transit.cable # None
        /\ events \in Seq(Event(Link))
    BY <1>1 DEF IInv, TraceInv, TypeOK, AnimationInStep, Shown
  <2>2. cursor \in DOMAIN events
    BY <2>1
  <2>3. transit.cable \in Crossed
    BY <2>1, <2>2 DEF Crossed
  <2>4. transit.cable \in Cables /\ l \in Cables
    BY <2>3 DEF Cables
  <2> QED BY <1>1, <2>4 DEF IInv, CablesTold
<1> QED BY Invariance, <1>1, PTL
===============================================================================

---------------------------- MODULE TopologyEditor ----------------------------
(***************************************************************************)
(* TopologyEditor: devices, ports and cables of the document, and the one  *)
(* counter of a page that names them and makes up their MACs.  The         *)
(* document outlives the page, the counter does not.                       *)
(*                                                                         *)
(* Names, positions, addresses and the status of a cable are left out: no  *)
(* operation here looks at them.                                           *)
(***************************************************************************)
EXTENDS Naturals, FiniteSetsExt

CONSTANTS
  Presets,      \* how many ports the presets of the palette have
  Clock,        \* values of Date.now() % 100000 when a page is loaded
  MacSpace,     \* 2^24: what a generated MAC has room for
  Stored,       \* documents that the browser may have kept from earlier pages
  Shipped,      \* the networks that missions come with
  MaxMade       \* bounds the devices and cables made

VARIABLES
  devices,   \* the list of devices: removing leaves gaps between positions
  links,     \* cables: an id, and the two ends <<device id, port>>
  sequence,  \* the page's counter
  file,      \* the file saved last, if any: a set of at most one
  ahead,     \* history: the counter was above every number it met, and gave
             \* no MAC beyond MacSpace on earlier pages
  foreign,   \* history: a mission's network, numbered by hand, was loaded
  made       \* history: how many devices and cables were made

document == <<devices, links, sequence, file, ahead, foreign, made>>

(* A port is named after its device: the id of its interface is the pair.  *)
End == Nat \X Nat
Link == [id : Nat, a : End, b : End]

(* Ports are numbered without a gap: they are only ever added, as the next *)
(* ethN.                                                                   *)
IsDevice(d) ==
  /\ d = [id |-> d.id, ports |-> d.ports] /\ d.id \in Nat
  /\ \E last \in DOMAIN d.ports : last \in Nat /\ DOMAIN d.ports = 0 .. last
  /\ d.ports \in [DOMAIN d.ports -> Nat]

IsList(list) ==
  /\ list = [p \in DOMAIN list |-> list[p]] /\ DOMAIN list \subseteq Nat
  /\ DOMAIN list = {} \/ \E last \in DOMAIN list : \A p \in DOMAIN list : p <= last
  /\ \A p \in DOMAIN list : IsDevice(list[p])

IsDocument(d) ==
  /\ d = [devices |-> d.devices, links |-> d.links]
  /\ IsList(d.devices) /\ d.links \subseteq Link

(* The device that devices.find sees under an id, and its position. *)
Holding(list, id) == {p \in DOMAIN list : list[p].id = id}
First(list, id) == Min(Holding(list, id))

EndsOf(cables) == {l.a : l \in cables} \cup {l.b : l \in cables}

(* Every end is a port of the device it names, and no port holds two.      *)
Fits(list, cables) ==
  /\ \A end \in EndsOf(cables) :
       Holding(list, end[1]) # {} /\ end[2] \in DOMAIN list[First(list, end[1])].ports
  /\ \A l \in cables : l.a # l.b
  /\ \A l, k \in cables : {l.a, l.b} \cap {k.a, k.b} # {} => l = k

ASSUME PresetsAssumption == Presets \subseteq Nat \ {0}
ASSUME ClockAssumption == Clock \subseteq Nat
ASSUME MacAssumption == MacSpace \in Nat \ {0}
ASSUME DocumentAssumption == \A d \in Stored \cup Shipped : IsDocument(d) /\ Fits(d.devices, d.links)

(* The numbers a counter gave or might give again, and a document in which *)
(* it gave none of them twice.                                             *)
Below(d, n) ==
  /\ \A p \in DOMAIN d.devices :
       d.devices[p].id <= n /\ \A e \in DOMAIN d.devices[p].ports : d.devices[p].ports[e] <= n
  /\ \A l \in d.links : l.id <= n

Distinct(d) ==
  /\ \A p, q \in DOMAIN d.devices : d.devices[p].id = d.devices[q].id => p = q
  /\ \A l, k \in d.links : l.id = k.id => l = k
  /\ \A p, q \in DOMAIN d.devices :
       \A e \in DOMAIN d.devices[p].ports, f \in DOMAIN d.devices[q].ports :
         d.devices[p].ports[e] = d.devices[q].ports[f] => p = q /\ e = f

Nothing == [devices |-> [p \in {} |-> {}], links |-> {}]

(* A page is loaded over the document kept in the browser. *)
EditorInit ==
  \E d \in Stored, now \in Clock :
    /\ devices = d.devices /\ links = d.links
    /\ sequence = now
    /\ ahead = (Below(d, now) /\ Distinct(d))
    /\ file = {} /\ foreign = FALSE /\ made = 0

-------------------------------------------------------------------------------
(* The MAC that the counter gives when it reaches n. *)
Mac(n) == n % MacSpace

(* uid for the device, generateMac for each of its ports. *)
AddDevice(ports) ==
  /\ made < MaxMade /\ made' = made + 1
  /\ LET new == [id |-> sequence + 1, ports |-> [e \in 0 .. (ports - 1) |-> Mac(sequence + 2 + e)]]
         last == IF DOMAIN devices = {} THEN 0 ELSE Max(DOMAIN devices) + 1
     IN devices' = [p \in DOMAIN devices \cup {last} |-> IF p = last THEN new ELSE devices[p]]
  /\ sequence' = sequence + 1 + ports
  /\ UNCHANGED <<links, file, ahead, foreign>>

(* Mutant: the cables of a removed device stay. *)
RemoveDeviceAlone(id) ==
  /\ Holding(devices, id) # {}
  /\ devices' = [p \in DOMAIN devices \ Holding(devices, id) |-> devices[p]]
  /\ UNCHANGED <<links, sequence, file, ahead, foreign, made>>

RemoveDevice(id) ==
  /\ Holding(devices, id) # {}
  /\ devices' = [p \in DOMAIN devices \ Holding(devices, id) |-> devices[p]]
  /\ links' = {l \in links : l.a[1] # id /\ l.b[1] # id}
  /\ UNCHANGED <<sequence, file, ahead, foreign, made>>

(* The lowest port without a cable, or a new one after the highest; and    *)
(* what that makes of the device and the counter.                          *)
FreePorts(d) == {e \in DOMAIN d.ports : <<d.id, e>> \notin EndsOf(links)}

NextPort(d) == Max(DOMAIN d.ports) + 1

WithPort(d, mac) ==
  [id |-> d.id,
   ports |-> [e \in DOMAIN d.ports \cup {NextPort(d)} |-> IF e \in DOMAIN d.ports THEN d.ports[e] ELSE mac]]

(* Mutant: the counter forgets the MAC it gave. *)
FreeInterfaceOrGrowQuietly(d, n) ==
  IF FreePorts(d) # {} THEN [port |-> Min(FreePorts(d)), device |-> d, sequence |-> n]
  ELSE [port |-> NextPort(d), sequence |-> n, device |-> WithPort(d, Mac(n + 1))]

FreeInterfaceOrGrow(d, n) ==
  IF FreePorts(d) # {} THEN [port |-> Min(FreePorts(d)), device |-> d, sequence |-> n]
  ELSE [port |-> NextPort(d), sequence |-> n + 1,
        device |-> WithPort(d, Mac(n + 1))]

(* Mutant: the counter is read before it is advanced. *)
UidBefore(n) == n

Uid(n) == n + 1

(* Two devices under one id, should there be any, both become the grown    *)
(* one: the list is patched by id.                                         *)
Connect(s, t) ==
  /\ s # t /\ Holding(devices, s) # {} /\ Holding(devices, t) # {}
  /\ made < MaxMade /\ made' = made + 1
  /\ LET source == FreeInterfaceOrGrow(devices[First(devices, s)], sequence)
         target == FreeInterfaceOrGrow(devices[First(devices, t)], source.sequence)
     IN /\ sequence' = target.sequence + 1
        /\ devices' = [p \in DOMAIN devices |->
             IF devices[p].id = s THEN source.device
             ELSE IF devices[p].id = t THEN target.device ELSE devices[p]]
        /\ links' = links \cup {[id |-> Uid(target.sequence), a |-> <<s, source.port>>, b |-> <<t, target.port>>]}
  /\ UNCHANGED <<file, ahead, foreign>>

RemoveLink(id) ==
  /\ \E l \in links : l.id = id
  /\ links' = {l \in links : l.id # id}
  /\ UNCHANGED <<devices, sequence, file, ahead, foreign, made>>

-------------------------------------------------------------------------------
Canvas == [devices |-> devices, links |-> links]

Save ==
  /\ file' = {Canvas}
  /\ UNCHANGED <<devices, links, sequence, ahead, foreign, made>>

Replace(d) == devices' = d.devices /\ links' = d.links

LoadFile ==
  /\ \E d \in file : Replace(d)
  /\ UNCHANGED <<sequence, file, ahead, foreign, made>>

(* The ids and MACs of a mission's network are of the counter's form, but  *)
(* small and written by hand.                                              *)
LoadMission(d) ==
  /\ Replace(d)
  /\ ahead' = (ahead /\ Below(d, sequence) /\ Distinct(d)) /\ foreign' = TRUE
  /\ UNCHANGED <<sequence, file, made>>

Reset ==
  /\ Replace(Nothing)
  /\ UNCHANGED <<sequence, file, ahead, foreign, made>>

(* The document and the files stay; the counter starts from the clock. *)
LoadPage(now) ==
  /\ sequence' = now
  /\ ahead' = (ahead /\ sequence < MacSpace /\ \A d \in file \cup {Canvas} : Below(d, now))
  /\ UNCHANGED <<devices, links, file, foreign, made>>

Edit ==
  \/ \E ports \in Presets : AddDevice(ports)
  \/ \E p \in DOMAIN devices : RemoveDevice(devices[p].id)
  \/ \E p, q \in DOMAIN devices : Connect(devices[p].id, devices[q].id)
  \/ \E l \in links : RemoveLink(l.id)
  \/ Save \/ LoadFile \/ Reset
  \/ \E d \in Shipped : LoadMission(d)

EditorNext == Edit \/ \E now \in Clock : LoadPage(now)

EditorSpec == EditorInit /\ [][EditorNext]_document

-------------------------------------------------------------------------------
(* Type invariant. *)
EditorTypeOK ==
  /\ IsList(devices)
  /\ links \subseteq Link
  /\ sequence \in Nat
  /\ \A d \in file : IsDocument(d)
  /\ ahead \in BOOLEAN /\ foreign \in BOOLEAN /\ made \in Nat

(* Every end of every cable is in a port that is there, and no port holds  *)
(* two ends, whatever is added, removed, cabled, loaded and reloaded, and  *)
(* even where two devices have come to share an id (connect, removeDevice, *)
(* freeInterfaceOrGrow).                                                   *)
CablesFit == Fits(devices, links)

(* As long as every page load and every mission found the counter above    *)
(* the numbers in use, no two devices, no two cables and no two ports have *)
(* an id or a MAC in common, though devices are deleted, added again, grow *)
(* ports and come back from a file (uid, generateMac); up to the width of  *)
(* a MAC.                                                                  *)
NothingTwice == ahead /\ sequence < MacSpace => Distinct(Canvas)
===============================================================================

---------------------------- MODULE TopologyProofs ----------------------------
(***************************************************************************)
(* Proofs about TopologySync for any number of clients, request slots and  *)
(* addresses.  The first part holds whatever the user does; the second is  *)
(* about a user who runs terminal commands, edits, removes devices and     *)
(* starts missions, but runs no connection test meanwhile and loads no     *)
(* file: only then does an answer still fit the document it lands on.      *)
(***************************************************************************)
EXTENDS TopologySync, FiniteSetTheorems, TLAPS

(* What the backend may answer: r, computed from the document d. *)
AnswersTo(c, d) == RenewAnswers(c, d) \cup ReleaseAnswers(c, d)

LEMMA AllocateOnce ==
  ASSUME NEW l \in LeaseTable, NEW c \in Client, NEW t \in Allocate(ServerPool, l, c)
  PROVE  /\ t \in LeaseTable
         /\ \A d \in Client \ {c} : t[d] = l[d]
         /\ l[c] # None => t = l
         /\ t[c] # l[c] => t[c] \in Addresses(ServerPool)
         /\ Injective(l) => Injective(t)
<1>1. CASE t = l
  BY <1>1
<1>2. CASE t # l
  <2>1. PICK a \in Free(ServerPool, l) : l[c] = None /\ t = [l EXCEPT ![c] = a]
    BY <1>2 DEF Allocate, FirstFree
  <2>2. a \in Nat /\ a \in Addresses(ServerPool) /\ \A d \in Client : l[d] # a
    BY <2>1, NoneAssumption, ServerPoolAssumption DEF Free, Taken, Addresses, Pool, LeaseTable
  <2>3. t[c] = a /\ t \in LeaseTable /\ \A d \in Client \ {c} : t[d] = l[d]
    BY <2>1, <2>2 DEF LeaseTable
  <2>4. Injective(l) => Injective(t)
    BY <2>1, <2>2, <2>3 DEF Injective
  <2>. QED BY <2>1, <2>2, <2>3, <2>4
<1>. QED BY <1>1, <1>2

(* A command's answer: tables differ from the document's for its client    *)
(* alone, and an assigned address is the one in the table.                 *)
LEMMA CommandAnswer ==
  ASSUME NEW d \in Document, NEW c \in Client, NEW r \in AnswersTo(c, d)
  PROVE  /\ r \in Response
         /\ r.kind = "command" /\ r.client = c /\ r.devices = d.present
         /\ \A e \in Client \ {c} : r.leases[e] = d.leases[e]
         /\ r.leases[c] # d.leases[c] =>
              /\ DhcpServer \in d.present
              /\ r.leases[c] = None \/ r.leases[c] \in Addresses(ServerPool)
         /\ r.changed /\ r.assigned # None =>
              DhcpServer \in d.present /\ r.leases[c] = r.assigned
         /\ ~r.changed /\ d.leases[c] # None => r.leases[c] = d.leases[c]
         /\ Injective(d.leases) => Injective(r.leases)
<1>1. /\ d.leases \in LeaseTable /\ d.present \subseteq Device
      /\ d.addr \in [Client -> Nat \cup {None}]
  BY DEF Document
<1>3. CASE r = Answer("command", c, d, d.leases, FALSE, None)
  BY <1>1, <1>3 DEF Answer, Response
<1>4. CASE DhcpServer \in d.present /\ r \in RenewAnswers(c, d)
           /\ r # Answer("command", c, d, d.leases, FALSE, None)
  <2>1. PICK t \in Allocate(ServerPool, d.leases, c) :
          r = Answer("command", c, d, t, Served(ServerPool, t, c),
                     IF Served(ServerPool, t, c) THEN t[c] ELSE None)
    BY <1>4 DEF RenewAnswers
  <2>2. /\ t \in LeaseTable
        /\ \A e \in Client \ {c} : t[e] = d.leases[e]
        /\ d.leases[c] # None => t = d.leases
        /\ t[c] # d.leases[c] => t[c] \in Addresses(ServerPool)
        /\ Injective(d.leases) => Injective(t)
    BY <1>1, AllocateOnce
  <2>3. Served(ServerPool, t, c) \in BOOLEAN
    BY ServerPoolAssumption DEF Served, Pool
  <2>4. (IF Served(ServerPool, t, c) THEN t[c] ELSE None) \in Nat \cup {None}
    BY <2>2 DEF LeaseTable
  <2>5. /\ r.kind = "command" /\ r.client = c /\ r.devices = d.present
        /\ r.leases = t /\ r.changed = Served(ServerPool, t, c)
        /\ r.assigned = IF Served(ServerPool, t, c) THEN t[c] ELSE None
    BY <2>1 DEF Answer
  <2>6. r \in Response
    BY <1>1, <2>1, <2>2, <2>3, <2>4 DEF Answer, Response
  <2>. QED BY <1>4, <2>2, <2>5, <2>6
<1>5. CASE r \in ReleaseAnswers(c, d) /\ r # Answer("command", c, d, d.leases, FALSE, None)
  <2>1. Release(d.leases, c) \in LeaseTable
        /\ (\A e \in Client \ {c} : Release(d.leases, c)[e] = d.leases[e])
        /\ Release(d.leases, c)[c] = None
        /\ (Injective(d.leases) => Injective(Release(d.leases, c)))
    BY <1>1 DEF LeaseTable, Release, Injective
  <2>2. CASE r = Answer("command", c, d, d.leases, TRUE, None)
    BY <1>1, <2>2 DEF Answer, Response
  <2>3. CASE DhcpServer \in d.present
             /\ r = Answer("command", c, d, Release(d.leases, c), TRUE, None)
    <3>1. /\ r.kind = "command" /\ r.client = c /\ r.devices = d.present
          /\ r.leases = Release(d.leases, c) /\ r.changed = TRUE /\ r.assigned = None
      BY <2>3 DEF Answer
    <3>2. r \in Response
      BY <1>1, <2>1, <2>3 DEF Answer, Response
    <3>. QED BY <2>1, <2>3, <3>1, <3>2
  <2>4. \/ r = Answer("command", c, d, d.leases, TRUE, None)
        \/ DhcpServer \in d.present
             /\ r = Answer("command", c, d, Release(d.leases, c), TRUE, None)
    BY <1>5 DEF ReleaseAnswers
  <2>. QED BY <2>2, <2>3, <2>4
<1>. QED BY <1>3, <1>4, <1>5 DEF AnswersTo, RenewAnswers

-------------------------------------------------------------------------------
(* Part 1, whatever the user does: every table, in the document, in flight *)
(* or in the saved file, is the work of one chain of allocate calls.       *)
TablesInv ==
  /\ TypeOK
  /\ LeasesInjective
  /\ \A i \in Slot : pending[i] # NoRequest => Injective(pending[i].leases)
  /\ file # NoFile => Injective(file.leases)

LEMMA NoLeasesInjective == NoLeases \in LeaseTable /\ Injective(NoLeases)
BY DEF NoLeases, LeaseTable, Injective

LEMMA FreshDocument ==
  ASSUME NEW devices \in SUBSET Device
  PROVE  Fresh(devices) \in Document /\ Fresh(devices).leases = NoLeases
BY NoLeasesInjective DEF Fresh, Document

LEMMA TablesInit == Init => TablesInv
<1>. SUFFICES ASSUME Init PROVE TablesInv
  OBVIOUS
<1>1. doc \in Document /\ doc.leases = NoLeases
  BY FreshDocument DEF Init
<1>. QED BY <1>1, NoLeasesInjective DEF Init, TablesInv, TypeOK, LeasesInjective

LEMMA AnsweredTables ==
  ASSUME TablesInv, NEW i \in Slot, Answered(i)
  PROVE  TablesInv'
<1>1. pending[i] \in Response /\ doc \in Document
  BY DEF TablesInv, TypeOK, Answered
<1>2. /\ pending[i].leases \in LeaseTable /\ pending[i].client \in Client
      /\ pending[i].assigned \in Nat \cup {None}
  BY <1>1 DEF Response
<1>3. doc' = [present |-> doc.present,
              addr    |-> Apply(pending[i], doc).addr,
              leases  |-> Apply(pending[i], doc).leases]
  BY <1>1 DEF Answered, Apply, Document
<1>4. Apply(pending[i], doc).leases \in {pending[i].leases, doc.leases}
  BY <1>1 DEF Apply, Document
<1>5. Apply(pending[i], doc).addr \in [Client -> Nat \cup {None}]
  BY <1>1, <1>2 DEF Apply, Document
<1>6. doc' \in Document
  BY <1>1, <1>2, <1>3, <1>4, <1>5 DEF Document
<1>7. LeasesInjective'
  BY <1>3, <1>4 DEF TablesInv, LeasesInjective, Answered
<1>. QED BY <1>6, <1>7 DEF TablesInv, TypeOK, Answered, Settled

LEMMA TablesNext ==
  ASSUME TablesInv, [Next]_vars
  PROVE  TablesInv'
<1>1. ASSUME NEW c \in Client, RunCommand(c) PROVE TablesInv'
  <2>1. PICK i \in Slot, r \in AnswersTo(c, doc) : pending' = [pending EXCEPT ![i] = r]
    BY <1>1 DEF RunCommand, AnswersTo
  <2>2. r \in Response /\ Injective(r.leases)
    BY <2>1, CommandAnswer DEF TablesInv, TypeOK, LeasesInjective
  <2>. QED BY <1>1, <2>1, <2>2 DEF TablesInv, TypeOK, LeasesInjective, RunCommand
<1>2. ASSUME NEW c \in Client, RunTest(c) PROVE TablesInv'
  <2>1. PICK i \in Slot : pending' = [pending EXCEPT ![i] = TestAnswer(c, doc)]
    BY <1>2 DEF RunTest
  <2>2. TestAnswer(c, doc) \in Response /\ TestAnswer(c, doc).leases = doc.leases
    BY DEF TablesInv, TypeOK, Document, TestAnswer, Answer, Response
  <2>. QED BY <1>2, <2>1, <2>2 DEF TablesInv, TypeOK, LeasesInjective, RunTest
<1>3. ASSUME NEW c \in Client, TypeAddress(c) PROVE TablesInv'
  <2>1. PICK a \in Typed \cup {None} : doc' = [doc EXCEPT !.addr[c] = a]
    BY <1>3 DEF TypeAddress
  <2>2. doc' \in Document /\ doc'.leases = doc.leases
    BY <2>1, TypedAssumption DEF TablesInv, TypeOK, Document
  <2>. QED BY <1>3, <2>2 DEF TablesInv, TypeOK, LeasesInjective, TypeAddress
<1>4. ASSUME NEW i \in Slot, Answered(i) PROVE TablesInv'
  BY <1>4, AnsweredTables
<1>5. ASSUME NEW i \in Slot, Failed(i) PROVE TablesInv'
  BY <1>5 DEF TablesInv, TypeOK, LeasesInjective, Failed, Settled
<1>6. ASSUME NEW x \in Device, RemoveDevice(x) PROVE TablesInv'
  <2>1. doc' \in Document /\ doc'.leases \in {doc.leases, NoLeases}
    BY <1>6, NoLeasesInjective DEF TablesInv, TypeOK, Document, RemoveDevice
  <2>2. LeasesInjective'
    BY <2>1, NoLeasesInjective DEF TablesInv, LeasesInjective
  <2>. QED BY <1>6, <2>1, <2>2 DEF TablesInv, TypeOK, RemoveDevice
<1>7. ASSUME Save PROVE TablesInv'
  <2>1. file' \in Document /\ file'.leases = NoLeases
    BY <1>7, NoLeasesInjective DEF TablesInv, TypeOK, Document, Save
  <2>. QED BY <1>7, <2>1, NoLeasesInjective DEF TablesInv, TypeOK, LeasesInjective, Save
<1>8. ASSUME Load PROVE TablesInv'
  BY <1>8 DEF TablesInv, TypeOK, LeasesInjective, Load
<1>9. ASSUME StartMission PROVE TablesInv'
  <2>1. doc' \in Document /\ doc'.leases = NoLeases
    BY <1>9, FreshDocument DEF StartMission
  <2>. QED BY <1>9, <2>1, NoLeasesInjective DEF TablesInv, TypeOK, LeasesInjective, StartMission
<1>10. ASSUME ReloadPage PROVE TablesInv'
  BY <1>10 DEF TablesInv, TypeOK, LeasesInjective, ReloadPage
<1>11. ASSUME UNCHANGED vars PROVE TablesInv'
  BY <1>11 DEF TablesInv, TypeOK, LeasesInjective, vars
<1>. QED BY <1>1, <1>2, <1>3, <1>4, <1>5, <1>6, <1>7, <1>8, <1>9, <1>10, <1>11 DEF Next, Settle

LEMMA TablesInvariant == Spec => []TablesInv
<1>1. TablesInv /\ [Next]_vars => TablesInv'
  BY TablesNext
<1>. QED BY <1>1, TablesInit, PTL DEF Spec

(* topologyStore and the answers in flight keep their types. *)
THEOREM TypeCorrect == Spec => []TypeOK
<1>1. TablesInv => TypeOK
  BY DEF TablesInv
<1>. QED BY <1>1, TablesInvariant, PTL

(* applyDeviceState replaces a table as a whole, so no order of answers,   *)
(* edits, saves and loads makes it promise one address twice.              *)
THEOREM NoDoubleLease == Spec => []LeasesInjective
<1>1. TablesInv => LeasesInjective
  BY DEF TablesInv
<1>. QED BY <1>1, TablesInvariant, PTL

-------------------------------------------------------------------------------
(* Part 2: no connection test and no file meanwhile. *)
OneInFlight ==
  /\ \A i, j \in Slot : pending[i] # NoRequest /\ pending[j] # NoRequest => i = j
  /\ ~running => \A i \in Slot : pending[i] = NoRequest

DocumentInv ==
  /\ OneAtATime
  /\ \A c \in Client : doc.leases[c] # None => doc.leases[c] \in Addresses(ServerPool)
  /\ \A c \in Client : c \notin doc.present => doc.addr[c] = None
  /\ AddressBacked
  /\ AddressesUnique

(* An answer in flight still fits the document it will land on. *)
Fits(r) ==
  /\ r.kind = "command"
  /\ DhcpServer \in doc.present \cap r.devices =>
       \A c \in Client \ {r.client} :
         doc.addr[c] \in Addresses(ServerPool) => r.leases[c] = doc.addr[c]
  /\ \A c \in Client : r.leases[c] # None => r.leases[c] \in Addresses(ServerPool)
  /\ r.changed /\ r.assigned # None =>
       /\ DhcpServer \in r.devices
       /\ r.leases[r.client] = r.assigned
       /\ \A c \in Client \ {r.client} : doc.addr[c] # r.assigned
  /\ ~r.changed /\ DhcpServer \in doc.present \cap r.devices
       /\ doc.addr[r.client] \in Addresses(ServerPool)
         => r.leases[r.client] = doc.addr[r.client]

SyncInv ==
  /\ TablesInv
  /\ OneInFlight
  /\ DocumentInv
  /\ \A i \in Slot : pending[i] # NoRequest => Fits(pending[i])

LEMMA PoolFacts == Addresses(ServerPool) \subseteq Nat /\ None \notin Addresses(ServerPool)
BY ServerPoolAssumption, NoneAssumption DEF Addresses, Pool

LEMMA SyncInit ==
  ASSUME Init, OneAtATime
  PROVE  SyncInv
<1>1. \A c \in Client : doc.addr[c] = None /\ doc.leases[c] = None
  BY DEF Init, Fresh, NoLeases
<1>2. OneInFlight
  BY DEF Init, OneInFlight
<1>3. DocumentInv
  BY <1>1, PoolFacts DEF DocumentInv, AddressBacked, AddressesUnique
<1>. QED BY <1>2, <1>3, TablesInit DEF Init, SyncInv

LEMMA SendKeeps ==
  ASSUME SyncInv, TablesInv', NEW c \in Client, RunCommand(c)
  PROVE  SyncInv'
<1>1. PICK i \in Slot, r \in AnswersTo(c, doc) :
        pending[i] = NoRequest /\ pending' = [pending EXCEPT ![i] = r]
  BY DEF RunCommand, AnswersTo, Idle
<1>2. doc \in Document /\ doc' = doc /\ pending \in [Slot -> Response \cup {NoRequest}]
  BY DEF SyncInv, TablesInv, TypeOK, RunCommand
<1>3. /\ r.kind = "command" /\ r.client = c /\ r.devices = doc.present
      /\ \A e \in Client \ {c} : r.leases[e] = doc.leases[e]
      /\ r.leases[c] # doc.leases[c] =>
           /\ DhcpServer \in doc.present
           /\ r.leases[c] = None \/ r.leases[c] \in Addresses(ServerPool)
      /\ r.changed /\ r.assigned # None =>
           DhcpServer \in doc.present /\ r.leases[c] = r.assigned
      /\ ~r.changed /\ doc.leases[c] # None => r.leases[c] = doc.leases[c]
      /\ Injective(doc.leases) => Injective(r.leases)
  BY <1>1, <1>2, CommandAnswer
<1>4. \A j \in Slot : pending[j] = NoRequest
  BY DEF SyncInv, OneInFlight, RunCommand
<1>5. OneInFlight'
  BY <1>1, <1>2, <1>4 DEF OneInFlight, RunCommand
<1>6. DocumentInv'
  BY <1>2 DEF SyncInv, DocumentInv, OneAtATime, AddressBacked, AddressesUnique, RunCommand
<1>7. Fits(r)'
  <2>1. \A e \in Client : r.leases[e] # None => r.leases[e] \in Addresses(ServerPool)
    BY <1>3 DEF SyncInv, DocumentInv
  <2>2. ASSUME r.changed, r.assigned # None, NEW e \in Client \ {c}
        PROVE  doc.addr[e] # r.assigned
    <3>1. DhcpServer \in doc.present /\ r.leases[c] = r.assigned
      BY <1>3, <2>2
    <3>2. r.assigned \in Addresses(ServerPool)
      BY <2>1, <2>2, <3>1
    <3>3. SUFFICES ASSUME doc.addr[e] = r.assigned PROVE FALSE
      OBVIOUS
    <3>4. doc.leases[e] = doc.addr[e]
      BY <3>1, <3>2, <3>3 DEF SyncInv, DocumentInv, AddressBacked
    <3>5. Injective(r.leases)
      BY <1>3 DEF SyncInv, TablesInv, LeasesInjective
    <3>. QED BY <1>3, <2>2, <3>1, <3>3, <3>4, <3>5 DEF Injective
  <2>3. ASSUME ~r.changed, DhcpServer \in doc.present, doc.addr[c] \in Addresses(ServerPool)
        PROVE  r.leases[c] = doc.addr[c]
    BY <1>3, <2>3, PoolFacts DEF SyncInv, DocumentInv, AddressBacked
  <2>4. ASSUME DhcpServer \in doc.present, NEW e \in Client \ {c},
               doc.addr[e] \in Addresses(ServerPool)
        PROVE  r.leases[e] = doc.addr[e]
    BY <1>3, <2>4 DEF SyncInv, DocumentInv, AddressBacked
  <2>. QED BY <1>2, <1>3, <2>1, <2>2, <2>3, <2>4 DEF Fits
<1>8. \A j \in Slot : pending'[j] # NoRequest => j = i
  BY <1>1, <1>2, <1>4
<1>9. pending'[i] = r
  BY <1>1, <1>2
<1>. QED BY <1>5, <1>6, <1>7, <1>8, <1>9 DEF SyncInv

LEMMA AnswerKeeps ==
  ASSUME SyncInv, TablesInv', NEW i \in Slot, Answered(i)
  PROVE  SyncInv'
<1>. DEFINE r == pending[i]
<1>1. /\ r \in Response /\ r # NoRequest /\ doc \in Document
      /\ pending \in [Slot -> Response \cup {NoRequest}]
  BY DEF SyncInv, TablesInv, TypeOK, Answered
<1>2. Fits(r) /\ r.client \in Client /\ r.leases \in LeaseTable
      /\ r.assigned \in Nat \cup {None}
  BY <1>1 DEF SyncInv, Response
<1>3. /\ doc'.present = doc.present
      /\ doc'.leases = IF DhcpServer \in doc.present \cap r.devices THEN r.leases ELSE doc.leases
      /\ doc'.addr = IF r.changed /\ r.client \in doc.present
                       THEN [doc.addr EXCEPT ![r.client] = r.assigned] ELSE doc.addr
  BY <1>1 DEF Answered, Apply, Document
<1>4. \A j \in Slot : pending'[j] = NoRequest
  BY <1>1 DEF SyncInv, OneInFlight, Answered, Settled
<1>5. OneInFlight'
  BY <1>4 DEF OneInFlight
<1>6. \A c \in Client \ {r.client} : doc'.addr[c] = doc.addr[c]
  BY <1>1, <1>2, <1>3 DEF Document
<1>7. r.changed /\ r.client \in doc.present => doc'.addr[r.client] = r.assigned
  BY <1>1, <1>2, <1>3 DEF Document
<1>7a. OneAtATime'
  BY DEF SyncInv, DocumentInv, OneAtATime, Answered
<1>8. AddressBacked'
  <2>1. SUFFICES ASSUME DhcpServer \in doc.present, NEW c \in Client,
                        doc'.addr[c] \in Addresses(ServerPool)
                 PROVE  doc'.leases[c] = doc'.addr[c]
    BY <1>3 DEF AddressBacked
  <2>0. CASE DhcpServer \notin r.devices
    <3>1. ~(r.changed /\ r.assigned # None)
      BY <1>2, <2>0 DEF Fits
    <3>2. doc'.addr[c] = doc.addr[c]
      BY <1>3, <1>6, <1>7, <2>1, <3>1, PoolFacts
    <3>. QED BY <1>3, <2>0, <2>1, <3>2 DEF SyncInv, DocumentInv, AddressBacked
  <2>. SUFFICES ASSUME DhcpServer \in r.devices PROVE r.leases[c] = doc'.addr[c]
    BY <1>3, <2>0, <2>1
  <2>2. CASE c # r.client
    BY <1>2, <1>6, <2>1, <2>2 DEF Fits
  <2>3. CASE c = r.client /\ r.changed
    <3>1. c \in doc.present
      BY <1>3, <2>1, <2>3, PoolFacts DEF SyncInv, DocumentInv
    <3>. QED BY <1>2, <1>7, <2>1, <2>3, <3>1, PoolFacts DEF Fits
  <2>4. CASE c = r.client /\ ~r.changed
    BY <1>2, <1>3, <2>1, <2>4 DEF Fits
  <2>. QED BY <2>2, <2>3, <2>4
<1>9. AddressesUnique'
  <2>1. CASE r.changed /\ r.client \in doc.present
    <3>1. r.assigned # None => \A c \in Client \ {r.client} : doc'.addr[c] # r.assigned
      BY <1>2, <1>6, <2>1 DEF Fits
    <3>. QED BY <1>6, <1>7, <2>1, <3>1, PoolFacts DEF SyncInv, DocumentInv, AddressesUnique
  <2>2. CASE ~(r.changed /\ r.client \in doc.present)
    BY <1>3, <2>2 DEF SyncInv, DocumentInv, AddressesUnique
  <2>. QED BY <2>1, <2>2
<1>10. \A c \in Client : doc'.leases[c] # None => doc'.leases[c] \in Addresses(ServerPool)
  BY <1>2, <1>3 DEF SyncInv, DocumentInv, Fits
<1>11. \A c \in Client : c \notin doc'.present => doc'.addr[c] = None
  BY <1>3, <1>6 DEF SyncInv, DocumentInv
<1>. QED BY <1>4, <1>5, <1>7a, <1>8, <1>9, <1>10, <1>11 DEF SyncInv, DocumentInv

LEMMA TypeKeeps ==
  ASSUME SyncInv, TablesInv', NEW c \in Client, TypeAddress(c)
  PROVE  SyncInv'
<1>1. PICK a \in Typed \cup {None} : doc' = [doc EXCEPT !.addr[c] = a]
  BY DEF TypeAddress
<1>2. /\ doc'.present = doc.present /\ doc'.leases = doc.leases
      /\ doc'.addr[c] = a
      /\ \A e \in Client \ {c} : doc'.addr[e] = doc.addr[e]
  BY <1>1 DEF SyncInv, TablesInv, TypeOK, Document
<1>3. a \notin Addresses(ServerPool)
  BY TypedAssumption, PoolFacts
<1>4. DocumentInv'
  BY <1>2, <1>3 DEF SyncInv, DocumentInv, OneAtATime, AddressBacked, AddressesUnique, TypeAddress
<1>5. ASSUME NEW i \in Slot, pending[i] # NoRequest PROVE Fits(pending[i])'
  <2>1. Fits(pending[i]) /\ pending[i] \in Response
    BY <1>5 DEF SyncInv, TablesInv, TypeOK
  <2>2. ASSUME NEW e \in Client \ {pending[i].client},
               pending[i].changed, pending[i].assigned # None
        PROVE  doc'.addr[e] # pending[i].assigned
    <3>1. pending[i].assigned \in Addresses(ServerPool)
      BY <2>1, <2>2 DEF Fits, Response
    <3>. QED BY <1>2, <1>3, <2>1, <2>2, <3>1 DEF Fits
  <2>. QED BY <1>2, <1>3, <2>1, <2>2 DEF Fits, TypeAddress
<1>6. OneInFlight'
  BY DEF SyncInv, OneInFlight, TypeAddress
<1>. QED BY <1>4, <1>5, <1>6 DEF SyncInv, TypeAddress

LEMMA RemoveKeeps ==
  ASSUME SyncInv, TablesInv', NEW x \in Device, RemoveDevice(x)
  PROVE  SyncInv'
<1>1. /\ doc'.present = doc.present \ {x}
      /\ \A c \in Client : doc'.addr[c] = IF c = x THEN None ELSE doc.addr[c]
      /\ doc'.leases = IF x = DhcpServer THEN NoLeases ELSE doc.leases
  BY DEF RemoveDevice
<1>2. DocumentInv'
  BY <1>1, PoolFacts DEF SyncInv, DocumentInv, OneAtATime, AddressBacked, AddressesUnique,
                         NoLeases, RemoveDevice
<1>3. ASSUME NEW i \in Slot, pending[i] # NoRequest PROVE Fits(pending[i])'
  <2>1. Fits(pending[i]) /\ pending[i] \in Response
    BY <1>3 DEF SyncInv, TablesInv, TypeOK
  <2>. QED BY <1>1, <2>1, PoolFacts DEF Fits, RemoveDevice, Response
<1>4. OneInFlight'
  BY DEF SyncInv, OneInFlight, RemoveDevice
<1>. QED BY <1>2, <1>3, <1>4 DEF SyncInv, RemoveDevice

LEMMA StartKeeps ==
  ASSUME SyncInv, TablesInv', StartMission
  PROVE  SyncInv'
<1>1. \A c \in Client : doc'.addr[c] = None /\ doc'.leases[c] = None
  BY DEF StartMission, Fresh, NoLeases
<1>2. DocumentInv'
  BY <1>1, PoolFacts DEF SyncInv, DocumentInv, OneAtATime, AddressBacked, AddressesUnique, StartMission
<1>3. ASSUME NEW i \in Slot, pending[i] # NoRequest PROVE Fits(pending[i])'
  <2>1. Fits(pending[i]) /\ pending[i] \in Response
    BY <1>3 DEF SyncInv, TablesInv, TypeOK
  <2>2. pending[i].client \in Client
    BY <2>1 DEF Response
  <2>. QED BY <1>1, <2>1, <2>2, PoolFacts DEF Fits, StartMission
<1>4. OneInFlight'
  BY DEF SyncInv, OneInFlight, StartMission
<1>. QED BY <1>2, <1>3, <1>4 DEF SyncInv, StartMission

LEMMA SyncNext ==
  ASSUME SyncInv, [Next]_vars
  PROVE  SyncInv'
<1>1. TablesInv'
  BY TablesNext DEF SyncInv
<1>2. CASE \E c \in Client : RunCommand(c)
  BY <1>1, <1>2, SendKeeps
<1>3. CASE \E c \in Client : TypeAddress(c)
  BY <1>1, <1>3, TypeKeeps
<1>4. CASE \E i \in Slot : Answered(i)
  BY <1>1, <1>4, AnswerKeeps
<1>5. CASE \E i \in Slot : Failed(i)
  BY <1>1, <1>5 DEF SyncInv, TablesInv, TypeOK, OneInFlight, DocumentInv, OneAtATime, AddressBacked,
                    AddressesUnique, Fits, Failed, Settled
<1>6. CASE \E x \in Device : RemoveDevice(x)
  BY <1>1, <1>6, RemoveKeeps
<1>7. CASE ReloadPage
  BY <1>1, <1>7 DEF SyncInv, OneInFlight, DocumentInv, OneAtATime, AddressBacked, AddressesUnique,
                    ReloadPage
<1>8. CASE StartMission
  BY <1>1, <1>8, StartKeeps
<1>9. CASE UNCHANGED vars
  BY <1>1, <1>9 DEF SyncInv, OneInFlight, DocumentInv, OneAtATime, AddressBacked, AddressesUnique,
                    Fits, vars
<1>10. ~(\E c \in Client : RunTest(c)) /\ ~Save /\ ~Load
  BY DEF SyncInv, DocumentInv, OneAtATime, RunTest, Save, Load
<1>. QED BY <1>2, <1>3, <1>4, <1>5, <1>6, <1>7, <1>8, <1>9, <1>10 DEF Next, Settle

LEMMA SyncInvariant == Spec => [](OneAtATime => SyncInv)
<1>1. Init => (OneAtATime => SyncInv)
  BY SyncInit
<1>2. (OneAtATime => SyncInv) /\ [Next]_vars => (OneAtATime => SyncInv)'
  <2>1. [Next]_vars => (OneAtATime' => OneAtATime)
    BY DEF OneAtATime, Next, vars, RunCommand, RunTest, TypeAddress, Settle, Answered, Failed,
           RemoveDevice, Save, Load, StartMission, ReloadPage
  <2>. QED BY <2>1, SyncNext
<1>. QED BY <1>1, <1>2, PTL DEF Spec

(* Terminal.submit's gate is enough: with one request in flight at a time, *)
(* no two clients end up with the same address out of the pool, although   *)
(* devices are edited and removed and missions started while answers are   *)
(* computed, answers are lost and the page is reloaded.                    *)
THEOREM TerminalIsSafe == Spec => []CommandsKeepAddressesApart
<1>1. (OneAtATime => SyncInv) => CommandsKeepAddressesApart
  BY DEF SyncInv, DocumentInv, CommandsKeepAddressesApart
<1>. QED BY <1>1, SyncInvariant, PTL

(* ... and the next command finds the lease of every address in use.       *)
THEOREM LearnedStatePersists == Spec => []AddressBacked
<1>1. (OneAtATime => SyncInv) => AddressBacked
  BY DEF SyncInv, DocumentInv, AddressBacked
<1>. QED BY <1>1, SyncInvariant, PTL

-------------------------------------------------------------------------------
(* Part 3: what late answers may touch, and the terminal's gate. *)

(* A connection test assigns no address. *)
TestsAssignNothing ==
  \A i \in Slot : pending[i] # NoRequest /\ pending[i].kind # "command" => ~pending[i].changed

LEMMA TestsInvariant == Spec => []TestsAssignNothing
<1>1. Init => TestsAssignNothing
  BY DEF Init, TestsAssignNothing
<1>2. ASSUME TypeOK, TestsAssignNothing, [Next]_vars PROVE TestsAssignNothing'
  <2>1. ASSUME NEW c \in Client, RunCommand(c) PROVE TestsAssignNothing'
    <3>1. PICK i \in Slot, r \in AnswersTo(c, doc) : pending' = [pending EXCEPT ![i] = r]
      BY <2>1 DEF RunCommand, AnswersTo
    <3>2. r.kind = "command"
      BY <1>2, CommandAnswer DEF TypeOK
    <3>. QED BY <1>2, <3>1, <3>2 DEF TypeOK, TestsAssignNothing
  <2>2. ASSUME NEW c \in Client, RunTest(c) PROVE TestsAssignNothing'
    <3>1. PICK i \in Slot : pending' = [pending EXCEPT ![i] = TestAnswer(c, doc)]
      BY <2>2 DEF RunTest
    <3>2. TestAnswer(c, doc).changed = FALSE
      BY DEF TestAnswer, Answer
    <3>. QED BY <1>2, <3>1, <3>2 DEF TypeOK, TestsAssignNothing
  <2>3. ASSUME NEW i \in Slot, Settled(i) PROVE TestsAssignNothing'
    BY <1>2, <2>3 DEF TypeOK, TestsAssignNothing, Settled
  <2>4. CASE ReloadPage
    BY <2>4 DEF TestsAssignNothing, ReloadPage
  <2>5. ASSUME pending' = pending PROVE TestsAssignNothing'
    BY <1>2, <2>5 DEF TestsAssignNothing
  <2>. QED BY <1>2, <2>1, <2>2, <2>3, <2>4, <2>5 DEF Next, vars, TypeAddress, Settle, Answered,
              Failed, RemoveDevice, Save, Load, StartMission
<1>. QED BY <1>1, <1>2, TypeCorrect, PTL DEF Spec

(* However late an answer is applied, it moves no address but that of the  *)
(* client its command ran on, and brings no removed device back.           *)
THEOREM LateAnswersStayLocal == Spec => AnswersStayLocal
<1>. DEFINE Local ==
       \A i \in Slot :
         pending[i] # NoRequest /\ pending'[i] = NoRequest /\ doc' # doc
           => /\ doc'.present = doc.present
              /\ \A c \in Client :
                   doc'.addr[c] # doc.addr[c] =>
                     /\ pending[i].kind = "command"
                     /\ c = pending[i].client
                     /\ c \in doc.present
<1>1. ASSUME TypeOK, TestsAssignNothing, [Next]_vars PROVE Local
  <2>1. SUFFICES ASSUME NEW i \in Slot, pending[i] # NoRequest, pending'[i] = NoRequest, doc' # doc
                 PROVE  /\ doc'.present = doc.present
                        /\ \A c \in Client :
                             doc'.addr[c] # doc.addr[c] =>
                               /\ pending[i].kind = "command"
                               /\ c = pending[i].client
                               /\ c \in doc.present
    OBVIOUS
  <2>2. PICK j \in Slot : Answered(j)
    BY <1>1, <2>1 DEF Next, vars, RunCommand, RunTest, TypeAddress, Settle, Failed, RemoveDevice,
                      Save, Load, StartMission, ReloadPage
  <2>3. i = j
    BY <2>1, <2>2, <1>1 DEF TypeOK, Answered, Settled
  <2>4. doc \in Document /\ pending[i] \in Response /\ pending[i].client \in Client
    BY <1>1, <2>1 DEF TypeOK, Response
  <2>5. /\ doc'.present = doc.present
        /\ doc'.addr = IF pending[i].changed /\ pending[i].client \in doc.present
                          THEN [doc.addr EXCEPT ![pending[i].client] = pending[i].assigned]
                          ELSE doc.addr
    BY <2>2, <2>3, <2>4 DEF Answered, Apply, Document
  <2>. QED BY <1>1, <2>1, <2>4, <2>5 DEF Document, TestsAssignNothing
<1>2. TypeOK /\ TestsAssignNothing /\ [Next]_vars => [Local]_vars
  BY <1>1
<1>. QED BY <1>2, TypeCorrect, TestsInvariant, PTL DEF Spec, AnswersStayLocal

(* The gate itself, with the one slot named that a command may occupy.     *)
Commands == {i \in Slot : pending[i].kind = "command"}

GateInv ==
  /\ running => \E i \in Slot : Commands = {i}
  /\ ~running => Commands = {}

LEMMA GateNext ==
  ASSUME TypeOK, GateInv, [Next]_vars
  PROVE  GateInv'
<1>1. ASSUME NEW c \in Client, RunCommand(c) PROVE GateInv'
  <2>1. PICK i \in Slot, r \in AnswersTo(c, doc) : pending' = [pending EXCEPT ![i] = r]
    BY <1>1 DEF RunCommand, AnswersTo
  <2>2. r.kind = "command"
    BY CommandAnswer DEF TypeOK
  <2>3. Commands = {} /\ running'
    BY <1>1 DEF GateInv, RunCommand
  <2>4. Commands' = {i}
    BY <2>1, <2>2, <2>3 DEF TypeOK, Commands
  <2>. QED BY <2>3, <2>4 DEF GateInv
<1>2. ASSUME NEW c \in Client, RunTest(c) PROVE GateInv'
  <2>1. PICK i \in Slot : pending[i] = NoRequest
                         /\ pending' = [pending EXCEPT ![i] = TestAnswer(c, doc)]
    BY <1>2 DEF RunTest, Idle
  <2>2. TestAnswer(c, doc).kind = "test" /\ NoRequest.kind = "none"
    BY DEF TestAnswer, Answer, NoRequest
  <2>3. Commands' = Commands
    BY <2>1, <2>2 DEF TypeOK, Commands
  <2>. QED BY <1>2, <2>3 DEF GateInv, RunTest
<1>3. ASSUME NEW i \in Slot, Settled(i) PROVE GateInv'
  <2>1. pending' = [pending EXCEPT ![i] = NoRequest] /\ NoRequest.kind = "none"
    BY <1>3 DEF Settled, NoRequest
  <2>2. Commands' = Commands \ {i}
    BY <2>1 DEF TypeOK, Commands
  <2>3. running' = (running /\ i \notin Commands)
    BY <1>3 DEF Settled, Commands
  <2>. QED BY <2>2, <2>3 DEF GateInv
<1>4. CASE ReloadPage
  BY <1>4 DEF GateInv, Commands, ReloadPage, NoRequest
<1>5. ASSUME UNCHANGED <<pending, running>> PROVE GateInv'
  BY <1>5 DEF GateInv, Commands
<1>. QED BY <1>1, <1>2, <1>3, <1>4, <1>5 DEF Next, vars, TypeAddress, Settle, Answered, Failed,
            RemoveDevice, Save, Load, StartMission

(* Whatever settles, is lost or is cut off by a reload: the terminal is    *)
(* shut exactly while one command is in flight.                            *)
THEOREM GateIsExact == Spec => []RunningMeansOneCommand
<1>1. Init => GateInv
  BY DEF Init, GateInv, Commands, NoRequest
<1>2. TypeOK /\ GateInv /\ [Next]_vars => GateInv'
  BY GateNext
<1>3. GateInv => RunningMeansOneCommand
  BY FS_EmptySet, FS_Singleton DEF GateInv, Commands, RunningMeansOneCommand
<1>. QED BY <1>1, <1>2, <1>3, TypeCorrect, PTL DEF Spec
===============================================================================

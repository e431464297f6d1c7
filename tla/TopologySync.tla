----------------------------- MODULE TopologySync -----------------------------
(***************************************************************************)
(* Who owns the state: the browser holds the document (topologyStore), the *)
(* backend computes on the copy a request carries and forgets it, and the  *)
(* answer's device_state is written over whatever the document has become  *)
(* meanwhile (applyDeviceState).                                           *)
(*                                                                         *)
(* The document is reduced to what a DHCP lease ties together: which       *)
(* devices it holds, the address of every client, and the lease table of   *)
(* the one server, the learned state that matters if it is lost.  Terminal *)
(* commands wait for one another (simulationStore.running); connection     *)
(* tests do not wait for anything: Enter starts another while one runs.    *)
(*                                                                         *)
(* Inside the backend a command is one atomic step here (DhcpExchange is   *)
(* the inside): heard by the server, or not heard at all.                  *)
(***************************************************************************)
EXTENDS DhcpPool, FiniteSets

CONSTANTS
  DhcpServer,   \* the id of the device that serves DHCP
  ServerPool,   \* its config.dhcp_pool
  Typed,        \* addresses the user types by hand, outside the pool
  Slot,         \* bounds the requests in flight at once
  Habits        \* what a user may do besides running terminal commands

ASSUME ServerAssumption == DhcpServer \notin Client
ASSUME ServerPoolAssumption == ServerPool \in Pool
ASSUME TypedAssumption == Typed \subseteq Nat /\ Typed \cap Addresses(ServerPool) = {}
ASSUME HabitsAssumption == Habits \subseteq SUBSET {"type", "remove", "test", "file", "mission"}

VARIABLES
  doc,       \* the topology store
  pending,   \* pending[i]: the request in flight in slot i, or none
  running,   \* simulationStore.running
  file,      \* the last saved file, or none
  habit      \* what this user does: chosen once

vars == <<doc, pending, running, file, habit>>

Device == Client \cup {DhcpServer}
Document == [present : SUBSET Device, addr : [Client -> Nat \cup {None}], leases : LeaseTable]

Fresh(devices) == [present |-> devices, addr |-> [c \in Client |-> None], leases |-> NoLeases]

(* device_state: the tables of every device of the snapshot, and the       *)
(* address the command assigned to its client, if DHCP touched it.         *)
Response == [kind : {"command", "test"}, client : Client, devices : SUBSET Device,
             leases : LeaseTable, changed : BOOLEAN, assigned : Nat \cup {None}]

Answer(kind, c, d, table, changed, ip) ==
  [kind |-> kind, client |-> c, devices |-> d.present,
   leases |-> table, changed |-> changed, assigned |-> ip]

NoRequest == [kind |-> "none"]
NoFile == [present |-> {DhcpServer}]

Init ==
  /\ doc = Fresh(Device)
  /\ pending = [i \in Slot |-> NoRequest]
  /\ running = FALSE
  /\ file = NoFile
  /\ habit \in Habits

-------------------------------------------------------------------------------
(* run_command, `dhcp renew`, on the document d a request carries. *)
RenewAnswers(c, d) ==
  LET heard == {Answer("command", c, d, table, Served(ServerPool, table, c),
                       IF Served(ServerPool, table, c) THEN table[c] ELSE None)
                : table \in Allocate(ServerPool, d.leases, c)}
      unheard == {Answer("command", c, d, d.leases, FALSE, None)}
  IN IF DhcpServer \in d.present THEN heard \cup unheard ELSE unheard

(* run_command, `dhcp release`: the address goes, heard or not. *)
ReleaseAnswers(c, d) ==
  LET tables == IF DhcpServer \in d.present
                  THEN {d.leases, Release(d.leases, c)} ELSE {d.leases}
  IN IF d.addr[c] = None
       THEN {Answer("command", c, d, d.leases, FALSE, None)}
       ELSE {Answer("command", c, d, table, TRUE, None) : table \in tables}

(* run_connection_test: no lease moves, and the tables come back as sent. *)
TestAnswer(c, d) == Answer("test", c, d, d.leases, FALSE, None)

(* Mutant: the address is written, the tables are not. *)
ApplyAddressOnly(r, d) ==
  [d EXCEPT !.addr = IF r.changed /\ r.client \in d.present
                       THEN [d.addr EXCEPT ![r.client] = r.assigned] ELSE d.addr]

(* Mutant: a device that is gone is not passed over. *)
ApplyToAll(r, d) ==
  [d EXCEPT
     !.leases = r.leases,
     !.addr   = IF r.changed THEN [d.addr EXCEPT ![r.client] = r.assigned] ELSE d.addr]

(* applyDeviceState: tables are overwritten, not merged; the address only  *)
(* where the command assigned one; devices that are gone are passed over.  *)
Apply(r, d) ==
  [d EXCEPT
     !.leases = IF DhcpServer \in d.present \cap r.devices THEN r.leases ELSE d.leases,
     !.addr   = IF r.changed /\ r.client \in d.present
                  THEN [d.addr EXCEPT ![r.client] = r.assigned] ELSE d.addr]

-------------------------------------------------------------------------------
Idle(i) == pending[i] = NoRequest

(* Terminal.submit: one command at a time, on a device of the document. *)
RunCommand(c) ==
  /\ ~running
  /\ c \in doc.present
  /\ \E i \in Slot :
       /\ Idle(i)
       /\ \E r \in RenewAnswers(c, doc) \cup ReleaseAnswers(c, doc) :
            pending' = [pending EXCEPT ![i] = r]
  /\ running' = TRUE
  /\ UNCHANGED <<doc, file, habit>>

(* ConnectionTester.run: Enter does not look at whether a test is running. *)
RunTest(c) ==
  /\ "test" \in habit
  /\ c \in doc.present
  /\ \E i \in Slot :
       /\ Idle(i)
       /\ pending' = [pending EXCEPT ![i] = TestAnswer(c, doc)]
  /\ UNCHANGED <<doc, running, file, habit>>

(* Mutant: the terminal opens again whichever request settled. *)
SettledAny(i) ==
  /\ pending' = [pending EXCEPT ![i] = NoRequest]
  /\ running' = FALSE

(* Mutant: the terminal is not opened again. *)
SettledShut(i) ==
  /\ pending' = [pending EXCEPT ![i] = NoRequest]
  /\ running' = running

(* The finally of useCommandRunner and of ConnectionTester.run. *)
Settled(i) ==
  /\ pending' = [pending EXCEPT ![i] = NoRequest]
  /\ running' = (running /\ pending[i].kind # "command")

(* The answer of slot i arrives, in whatever order. *)
Answered(i) ==
  /\ pending[i] # NoRequest
  /\ doc' = Apply(pending[i], doc)
  /\ Settled(i)
  /\ UNCHANGED <<file, habit>>

(* ApiError: the request or its answer was lost, the document stays. *)
Failed(i) ==
  /\ pending[i] # NoRequest
  /\ Settled(i)
  /\ UNCHANGED <<doc, file, habit>>

(* InterfaceEditor: updateInterface with an address typed by hand. *)
TypeAddress(c) ==
  /\ "type" \in habit
  /\ c \in doc.present
  /\ \E a \in Typed \cup {None} : doc' = [doc EXCEPT !.addr[c] = a]
  /\ UNCHANGED <<pending, running, file, habit>>

(* removeDevice: its configuration and its tables go with it. *)
RemoveDevice(x) ==
  /\ "remove" \in habit
  /\ x \in doc.present
  /\ doc' = [present |-> doc.present \ {x},
             addr    |-> [c \in Client |-> IF c = x THEN None ELSE doc.addr[c]],
             leases  |-> IF x = DhcpServer THEN NoLeases ELSE doc.leases]
  /\ UNCHANGED <<pending, running, file, habit>>

(* Save: toExportDocument empties every runtime block. *)
Save ==
  /\ "file" \in habit
  /\ doc.present # {}
  /\ file' = [doc EXCEPT !.leases = NoLeases]
  /\ UNCHANGED <<doc, pending, running, habit>>

(* Load: the file replaces the document, under the same device ids. *)
Load ==
  /\ "file" \in habit
  /\ file # NoFile
  /\ doc' = file
  /\ UNCHANGED <<pending, running, file, habit>>

(* A mission's starting network, or an empty canvas (reset). *)
StartMission ==
  /\ "mission" \in habit
  /\ \E devices \in {Device, {}} : doc' = Fresh(devices)
  /\ UNCHANGED <<pending, running, file, habit>>

(* The page is reloaded: the document is in localStorage, requests are not. *)
ReloadPage ==
  /\ pending' = [i \in Slot |-> NoRequest]
  /\ running' = FALSE
  /\ UNCHANGED <<doc, file, habit>>

Settle(i) == Answered(i) \/ Failed(i)

Next ==
  \/ \E c \in Client : RunCommand(c) \/ RunTest(c) \/ TypeAddress(c)
  \/ \E i \in Slot : Settle(i)
  \/ \E x \in Device : RemoveDevice(x)
  \/ Save \/ Load \/ StartMission \/ ReloadPage

(* A fetch settles, one way or the other; users owe nothing. *)
Fairness == \A i \in Slot : WF_vars(Settle(i))

Spec == Init /\ [][Next]_vars /\ Fairness

-------------------------------------------------------------------------------
TypeOK ==
  /\ doc \in Document
  /\ pending \in [Slot -> Response \cup {NoRequest}]
  /\ running \in BOOLEAN
  /\ file \in Document \cup {NoFile}
  /\ habit \in Habits

(* Tables are replaced as a whole: no interleaving of answers, edits and   *)
(* loads makes the server's table promise one address twice.               *)
LeasesInjective == Injective(doc.leases)

(* useCommandRunner's finally: the terminal is shut exactly while one      *)
(* command is in flight, so there is never a second one.                   *)
RunningMeansOneCommand ==
  LET commands == {i \in Slot : pending[i].kind = "command"}
  IN Cardinality(commands) = IF running THEN 1 ELSE 0

(* A user who runs commands, types, removes devices and starts missions,   *)
(* but runs no connection test and opens no file meanwhile.                *)
OneAtATime == habit \cap {"test", "file"} = {}

(* Two clients never hold the same address out of the pool. *)
AddressesUnique ==
  \A c, d \in Client :
    c # d /\ doc.addr[c] \in Addresses(ServerPool) => doc.addr[c] # doc.addr[d]

(* Without tests and files the same holds of whatever is edited, removed   *)
(* or started anew while a command is in flight.                           *)
CommandsKeepAddressesApart == OneAtATime => AddressesUnique

(* The next command sees what the last one learned (docs/ARCHITECTURE.md): *)
(* as long as the server is in the document, the address a client got from *)
(* its pool is in its lease table.                                         *)
AddressBacked ==
  OneAtATime /\ DhcpServer \in doc.present =>
    \A c \in Client :
      doc.addr[c] \in Addresses(ServerPool) => doc.leases[c] = doc.addr[c]

(* applyDeviceState: however late an answer is, it gives an address to no  *)
(* device but the one its command ran on, and brings no device back.       *)
AnswersStayLocal ==
  [][\A i \in Slot :
       pending[i] # NoRequest /\ pending'[i] = NoRequest /\ doc' # doc
         => /\ doc'.present = doc.present
            /\ \A c \in Client :
                 doc'.addr[c] # doc.addr[c] =>
                   /\ pending[i].kind = "command"
                   /\ c = pending[i].client
                   /\ c \in doc.present]_vars

(* The terminal always opens again, whatever happens to the request. *)
TerminalReopens == running ~> ~running
===============================================================================

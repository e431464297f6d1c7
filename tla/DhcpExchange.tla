----------------------------- MODULE DhcpExchange -----------------------------
(***************************************************************************)
(* DHCP as the simulator runs it: `dhcp renew` and `dhcp release` on one   *)
(* client at a time, against every server the broadcast reaches, and pool  *)
(* edits in between (devices/app_services.py, dhcp/server.py,              *)
(* commands/tools.py).  A command is one SimulationEngine, so its two      *)
(* engine.run calls share one hop budget.                                  *)
(*                                                                         *)
(* The wire is a set of frames on their way to one receiver each.  What    *)
(* the topology between client and servers does to a broadcast is left     *)
(* open: a frame may be dropped (a cable that is down, a firewall rule, a  *)
(* service that is switched off), arrive in any order, and, where the      *)
(* switches are cabled in a loop, arrive more than once; every arrival     *)
(* costs a hop and at the hop limit the engine drops what is left.         *)
(*                                                                         *)
(* Every client has an enabled interface and obtains its address           *)
(* automatically (config.dhcp_client), so the loader hands a client that   *)
(* holds an address its lease back on every command.  Transaction ids are  *)
(* left out: the code copies them and never reads them.                    *)
(***************************************************************************)
EXTENDS DhcpPool, Sequences

CONSTANTS
  Server,      \* the devices that serve DHCP
  Pools,       \* Pools[s]: the pools the user may configure on server s
  HopLimit     \* SimulationEngine.hop_limit

ASSUME PoolsAssumption == Pools \in [Server -> SUBSET Pool]
ASSUME HopLimitAssumption == HopLimit \in Nat \ {0}

VARIABLES
  pool,     \* pool[s]: config.dhcp_pool of server s
  leases,   \* leases[s]: runtime.dhcp_leases of server s
  addr,     \* addr[c]: the ipv4 of client c's first enabled interface
  phase,    \* what the running command waits for
  active,   \* the client the command runs on
  asked,    \* the address the REQUEST asks for
  wire,     \* frames in transit
  offers,   \* Host.dhcp_offers of the active client, in order of arrival
  hops      \* SimulationEngine._hops

vars == <<pool, leases, addr, phase, active, asked, wire, offers, hops>>

Queries == {"DISCOVER", "REQUEST", "RELEASE"}   \* client to server, port 67
Replies == {"OFFER", "ACK", "NAK"}              \* server to client, port 68

Msg == [type : Queries \cup Replies, client : Client, server : Server,
        ip : Nat \cup {None}]

Message(type, c, s, ip) == [type |-> type, client |-> c, server |-> s, ip |-> ip]

(* send_broadcast: one frame for every server the broadcast may reach. *)
Broadcast(type, c, ip) == {Message(type, c, s, ip) : s \in Server}

Init ==
  /\ pool \in [Server -> UNION {Pools[s] : s \in Server}]
  /\ \A s \in Server : pool[s] \in Pools[s]
  /\ leases = [s \in Server |-> NoLeases]
  /\ addr = [c \in Client |-> None]
  /\ phase = "idle"
  /\ active \in Client
  /\ asked = None
  /\ wire = {}
  /\ offers = <<>>
  /\ hops = 0

-------------------------------------------------------------------------------
(* Mutant: a server drops its lease when the REQUEST names another address. *)
TablesAfterRefusal(m) ==
  IF m.type = "RELEASE" \/ (m.type = "REQUEST" /\ leases[m.server][m.client] # m.ip)
    THEN {Release(leases[m.server], m.client)}
    ELSE Allocate(pool[m.server], leases[m.server], m.client)

(* server.handle, the lease table it leaves (a set of one): an OFFER       *)
(* already reserves the address, and a REQUEST reserves one on a server    *)
(* that never saw the DISCOVER.                                            *)
TablesAfter(m) ==
  IF m.type = "RELEASE"
    THEN {Release(leases[m.server], m.client)}
    ELSE Allocate(pool[m.server], leases[m.server], m.client)

(* Mutant: an ACK without comparing the address asked for. *)
AnswerTypeUnchecked(m, table) ==
  IF ~Served(pool[m.server], table, m.client) THEN "NAK"
  ELSE IF m.type = "DISCOVER" THEN "OFFER" ELSE "ACK"

(* server.handle, the reply: silence for a RELEASE. *)
AnswerType(m, table) ==
  IF ~Served(pool[m.server], table, m.client) THEN "NAK"
  ELSE IF m.type = "DISCOVER" THEN "OFFER"
  ELSE IF m.ip = table[m.client] THEN "ACK" ELSE "NAK"

Answers(m, table) ==
  LET type == AnswerType(m, table)
      ip   == IF type = "NAK" THEN None ELSE table[m.client]
  IN IF m.type = "RELEASE" THEN {} ELSE {Message(type, m.client, m.server, ip)}

(* What an arrival leaves on the wire: a loop may deliver the frame again. *)
Remaining(m) == {wire, wire \ {m}}

(* Mutant: serving a query costs no hop. *)
ServeDhcpForFree(s) ==
  \E m \in wire :
    /\ hops < HopLimit
    /\ m.type \in Queries
    /\ m.server = s
    /\ \E table \in TablesAfter(m), rest \in Remaining(m) :
         /\ leases' = [leases EXCEPT ![s] = table]
         /\ wire' = rest \cup Answers(m, table)
    /\ UNCHANGED <<pool, addr, phase, active, asked, offers, hops>>

(* serve_dhcp: a server handles a query that reached it. *)
ServeDhcp(s) ==
  \E m \in wire :
    /\ hops < HopLimit
    /\ m.type \in Queries
    /\ m.server = s
    /\ \E table \in TablesAfter(m), rest \in Remaining(m) :
         /\ leases' = [leases EXCEPT ![s] = table]
         /\ wire' = rest \cup Answers(m, table)
    /\ hops' = hops + 1
    /\ UNCHANGED <<pool, addr, phase, active, asked, offers>>

(* receive_dhcp_reply: only the client the reply is addressed to keeps it. *)
ReceiveDhcpReply ==
  \E m \in wire :
    /\ hops < HopLimit
    /\ m.type \in Replies
    /\ m.client = active
    /\ offers' = Append(offers, m)
    /\ \E rest \in Remaining(m) : wire' = rest
    /\ hops' = hops + 1
    /\ UNCHANGED <<pool, leases, addr, phase, active, asked>>

(* A frame the topology drops on its way. *)
Lose ==
  \E m \in wire :
    /\ wire' = wire \ {m}
    /\ UNCHANGED <<pool, leases, addr, phase, active, asked, offers, hops>>

(* engine.run at its hop limit: the rest of the queue is dropped. *)
StopAtHopLimit ==
  /\ wire # {}
  /\ hops >= HopLimit
  /\ wire' = {}
  /\ UNCHANGED <<pool, leases, addr, phase, active, asked, offers, hops>>

-------------------------------------------------------------------------------
(* run_dhcp_client up to the first engine.run. *)
Renew(c) ==
  /\ phase = "idle"
  /\ phase' = "discover"
  /\ active' = c
  /\ asked' = None
  /\ offers' = <<>>
  /\ hops' = 0
  /\ wire' = Broadcast("DISCOVER", c, None)
  /\ UNCHANGED <<pool, leases, addr>>

(* next(m for m in dhcp_offers if m.type is ...): the first of its type. *)
FirstOffer(i, type) ==
  /\ i \in DOMAIN offers
  /\ offers[i].type = type
  /\ \A j \in 1 .. i - 1 : offers[j].type # type

Unanswered(type) == \A i \in DOMAIN offers : offers[i].type # type

(* run_dhcp_client: the network went quiet, an OFFER came, ask for it. *)
SendRequest ==
  /\ phase = "discover"
  /\ wire = {}
  /\ \E i \in DOMAIN offers :
       /\ FirstOffer(i, "OFFER")
       /\ asked' = offers[i].ip
       /\ wire' = Broadcast("REQUEST", active, offers[i].ip)
  /\ phase' = "request"
  /\ offers' = <<>>
  /\ UNCHANGED <<pool, leases, addr, active, hops>>

(* run_dhcp_client returns None: no OFFER, or no ACK. *)
GiveUp ==
  /\ wire = {}
  /\ \/ phase = "discover" /\ Unanswered("OFFER")
     \/ phase = "request" /\ Unanswered("ACK")
  /\ phase' = "idle"
  /\ hops' = 0
  /\ asked' = None
  /\ offers' = <<>>
  /\ UNCHANGED <<pool, leases, addr, active, wire>>

(* apply_lease, and `assigned` written into the document. *)
ApplyLease ==
  /\ phase = "request"
  /\ wire = {}
  /\ \E i \in DOMAIN offers :
       /\ FirstOffer(i, "ACK")
       /\ addr' = [addr EXCEPT ![active] = offers[i].ip]
  /\ phase' = "idle"
  /\ hops' = 0
  /\ asked' = None
  /\ offers' = <<>>
  /\ UNCHANGED <<pool, leases, active, wire>>

(* release_dhcp_lease up to its engine.run: the loader found a lease. *)
ReleaseLease(c) ==
  /\ phase = "idle"
  /\ addr[c] # None
  /\ phase' = "release"
  /\ active' = c
  /\ offers' = <<>>
  /\ hops' = 0
  /\ wire' = Broadcast("RELEASE", c, None)
  /\ UNCHANGED <<pool, leases, addr, asked>>

(* Mutant: the released address stays configured. *)
KeepAddress ==
  /\ phase = "release"
  /\ wire = {}
  /\ phase' = "idle"
  /\ hops' = 0
  /\ offers' = <<>>
  /\ UNCHANGED <<pool, leases, addr, active, asked, wire>>

(* release_dhcp_lease: the address is given up, whoever heard of it. *)
DropAddress ==
  /\ phase = "release"
  /\ wire = {}
  /\ addr' = [addr EXCEPT ![active] = None]
  /\ phase' = "idle"
  /\ hops' = 0
  /\ offers' = <<>>
  /\ UNCHANGED <<pool, leases, active, asked, wire>>

(* DhcpPoolEditor between two commands; the lease table stays. *)
EditPool(s) ==
  /\ phase = "idle"
  /\ \E p \in Pools[s] : pool' = [pool EXCEPT ![s] = p]
  /\ UNCHANGED <<leases, addr, phase, active, asked, wire, offers, hops>>

-------------------------------------------------------------------------------
EngineStep ==
  \/ \E s \in Server : ServeDhcp(s)
  \/ ReceiveDhcpReply
  \/ Lose
  \/ StopAtHopLimit

ClientStep == SendRequest \/ GiveUp \/ ApplyLease \/ DropAddress

Next ==
  \/ EngineStep
  \/ ClientStep
  \/ \E c \in Client : Renew(c) \/ ReleaseLease(c)
  \/ \E s \in Server : EditPool(s)

(* A command is one synchronous call: once started it runs to its end.     *)
(* Users owe nothing, so Renew, ReleaseLease and EditPool are not fair.    *)
Fairness == WF_vars(EngineStep) /\ WF_vars(ClientStep)

Spec == Init /\ [][Next]_vars /\ Fairness

-------------------------------------------------------------------------------
TypeOK ==
  /\ pool \in [Server -> Pool]
  /\ leases \in [Server -> LeaseTable]
  /\ addr \in [Client -> Nat \cup {None}]
  /\ phase \in {"idle", "discover", "request", "release"}
  /\ active \in Client
  /\ asked \in Nat \cup {None}
  /\ wire \subseteq Msg
  /\ offers \in Seq(Msg)
  /\ hops \in Nat

(* pool.py allocate: however often clients renew, release and lose their   *)
(* messages, and however the pool is edited in between, no server ever     *)
(* promises one address to two clients.                                    *)
LeasesInjective == \A s \in Server : Injective(leases[s])

(* While a client is giving its address up it no longer counts as its      *)
(* user: the document is rewritten when the command is over.               *)
InUse(c) == IF phase = "release" /\ active = c THEN None ELSE addr[c]

(* run_dhcp_client / release_dhcp_lease: the address a client uses is one  *)
(* some server still keeps for it, whichever messages were lost, so nobody *)
(* else can be given it by that server.                                    *)
AddressBacked ==
  \A c \in Client :
    InUse(c) # None => \E s \in Server : leases[s][c] = InUse(c)

(* run_dhcp_client takes the first ACK it finds and compares neither       *)
(* transaction id nor address: it nevertheless always confirms the address *)
(* the client asked for, and the server that sent it keeps that address.   *)
AckConfirmsRequest ==
  \A m \in wire \cup {offers[i] : i \in DOMAIN offers} :
    m.type = "ACK" =>
      /\ m.client = active
      /\ m.ip = asked
      /\ leases[m.server][m.client] = m.ip

(* Two clients never use the same address, given that the pools of two     *)
(* servers never overlap (nothing in the code enforces that).              *)
AddressesUnique ==
  \A c, d \in Client : c # d /\ addr[c] # None => addr[c] # addr[d]

(* README "released only on request": once reserved, an address stays with *)
(* its client until that very client releases it, even when the pool is    *)
(* moved, shrunk or switched off meanwhile.                                *)
LeaseStable ==
  [][\A s \in Server, c \in Client :
       leases[s][c] # None /\ leases'[s][c] # leases[s][c]
         => phase = "release" /\ active = c]_vars

(* pool.py "a client that asks twice gets the same lease back": with one   *)
(* server, renewing never moves a client to another address.               *)
SameAddressBack ==
  [][\A c \in Client : addr[c] # None /\ addr'[c] # None => addr'[c] = addr[c]]_vars

(* engine.run: every command comes to an end, because each arrival is paid *)
(* for out of the hop budget, even on a wire that duplicates frames.       *)
CommandEnds == phase # "idle" ~> phase = "idle"

Promise == INSTANCE LeaseContract WITH
             reserved <- leases, bound <- [c \in Client |-> InUse(c)]

(* The exchange implements the contract: whatever is lost or duplicated,   *)
(* servers only reserve, clients only take what is reserved for them, and  *)
(* only what a client gave up is forgotten.                                *)
ImplementsContract == Promise!Contract
===============================================================================

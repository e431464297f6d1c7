------------------------------ MODULE DhcpProofs ------------------------------
(***************************************************************************)
(* Proofs about DhcpExchange, for any number of clients and servers, any   *)
(* pools, any hop limit.  The inductive invariant IInv adds to the checked *)
(* properties what ties a message to the phase it can exist in: the code   *)
(* reads no transaction id, so it is the phase that keeps a stale message  *)
(* from being taken for a fresh one.                                       *)
(***************************************************************************)
EXTENDS DhcpExchange, TLAPS

Received == {offers[i] : i \in DOMAIN offers}

MessagesMatchPhase ==
  \A m \in wire \cup Received :
    /\ m.client = active
    /\ m.type = "REQUEST" => phase = "request" /\ m.ip = asked
    /\ m.type = "RELEASE" => phase = "release"
    /\ m.type = "ACK" => /\ phase = "request"
                         /\ m.ip = asked
                         /\ m.ip # None
                         /\ leases[m.server][m.client] = m.ip

QuietWhenIdle == phase = "idle" => wire = {} /\ offers = <<>>

(* Every address a server keeps came out of a pool it once had. *)
LeaseFromPool ==
  \A s \in Server :
    /\ pool[s] \in Pools[s]
    /\ \A c \in Client :
         leases[s][c] # None => \E p \in Pools[s] : leases[s][c] \in Addresses(p)

IInv ==
  /\ TypeOK
  /\ LeasesInjective
  /\ AddressBacked
  /\ MessagesMatchPhase
  /\ QuietWhenIdle
  /\ LeaseFromPool

-------------------------------------------------------------------------------
(* What allocate may do to a lease table. *)
LEMMA AllocateLemma ==
  ASSUME NEW p \in Pool, NEW l \in LeaseTable, NEW c \in Client,
         NEW t \in Allocate(p, l, c)
  PROVE  /\ t \in LeaseTable
         /\ \A d \in Client : l[d] # None => t[d] = l[d]
         /\ \A d \in Client \ {c} : t[d] = l[d]
         /\ t = l \/ (/\ l[c] = None
                      /\ t[c] \in Addresses(p)
                      /\ t[c] \in Nat
                      /\ t = [l EXCEPT ![c] = t[c]]
                      /\ \A d \in Client : l[d] # t[c])
         /\ Injective(l) => Injective(t)
<1>1. CASE t = l
  BY <1>1
<1>2. CASE t # l
  <2>1. PICK a \in Free(p, l) : l[c] = None /\ t = [l EXCEPT ![c] = a]
    BY <1>2 DEF Allocate, FirstFree
  <2>2. a \in Nat /\ a \in Addresses(p) /\ \A d \in Client : l[d] # a
    BY <2>1, NoneAssumption DEF Free, Taken, Addresses, Pool, LeaseTable
  <2>3. t[c] = a /\ t \in LeaseTable /\ \A d \in Client \ {c} : t[d] = l[d]
    BY <2>1, <2>2 DEF LeaseTable
  <2>4. Injective(l) => Injective(t)
    BY <2>1, <2>2, <2>3 DEF Injective
  <2>. QED BY <2>1, <2>2, <2>3, <2>4
<1>. QED BY <1>1, <1>2

LEMMA ReleaseLemma ==
  ASSUME NEW l \in LeaseTable, NEW c \in Client
  PROVE  /\ Release(l, c) \in LeaseTable
         /\ \A d \in Client \ {c} : Release(l, c)[d] = l[d]
         /\ Injective(l) => Injective(Release(l, c))
BY DEF LeaseTable, Release, Injective

(* Every query leaves a lease table of the right type, without a clash,    *)
(* and takes an address away from nobody but a client that releases.       *)
LEMMA TablesLemma ==
  ASSUME TypeOK, LeasesInjective,
         NEW m \in Msg, NEW t \in TablesAfter(m)
  PROVE  /\ t \in LeaseTable
         /\ Injective(t)
         /\ \A d \in Client \ {m.client} : t[d] = leases[m.server][d]
         /\ m.type # "RELEASE" =>
              \A d \in Client : leases[m.server][d] # None => t[d] = leases[m.server][d]
<1>1. m.server \in Server /\ m.client \in Client
  BY DEF Msg
<1>2. leases[m.server] \in LeaseTable /\ pool[m.server] \in Pool /\ Injective(leases[m.server])
  BY <1>1 DEF TypeOK, LeasesInjective
<1>3. CASE m.type = "RELEASE"
  BY <1>1, <1>2, <1>3, ReleaseLemma DEF TablesAfter
<1>4. CASE m.type # "RELEASE"
  <2>1. t \in Allocate(pool[m.server], leases[m.server], m.client)
    BY <1>4 DEF TablesAfter
  <2>. QED BY <1>1, <1>2, <1>4, <2>1, AllocateLemma
<1>. QED BY <1>3, <1>4

(* What a server answers is a well-formed reply to the client that asked,  *)
(* and an ACK names the address the server keeps and the client asked for. *)
LEMMA AnswersLemma ==
  ASSUME TypeOK, NEW m \in Msg, NEW t \in LeaseTable, NEW r \in Answers(m, t)
  PROVE  /\ r \in Msg
         /\ r.type \in Replies
         /\ r.client = m.client
         /\ m.type # "RELEASE"
         /\ r.type = "ACK" => /\ r.server = m.server
                              /\ r.ip = t[m.client]
                              /\ r.ip = m.ip
                              /\ r.ip # None
                              /\ m.type # "DISCOVER"
<1>1. m.server \in Server /\ m.client \in Client
  BY DEF Msg
<1>2. t[m.client] \in Nat \cup {None}
  BY <1>1 DEF LeaseTable
<1>3. /\ m.type # "RELEASE"
      /\ r = Message(AnswerType(m, t), m.client, m.server,
                     IF AnswerType(m, t) = "NAK" THEN None ELSE t[m.client])
  BY DEF Answers
<1>4. AnswerType(m, t) \in Replies
  BY DEF AnswerType, Replies
<1>5. AnswerType(m, t) = "ACK" => /\ m.ip = t[m.client] /\ t[m.client] # None
                                  /\ m.type # "DISCOVER"
  BY DEF AnswerType, Served
<1>. QED BY <1>1, <1>2, <1>3, <1>4, <1>5 DEF Message, Msg, Replies

-------------------------------------------------------------------------------
LEMMA InitLemma == Init => IInv
<1>. SUFFICES ASSUME Init PROVE IInv
  OBVIOUS
<1>1. TypeOK
  <2>1. \A s \in Server : pool[s] \in Pool
    BY PoolsAssumption DEF Init
  <2>2. pool \in [Server -> Pool]
    BY <2>1 DEF Init
  <2>. QED BY <2>2 DEF Init, TypeOK, NoLeases, LeaseTable
<1>2. LeasesInjective
  BY DEF Init, LeasesInjective, Injective, NoLeases
<1>3. AddressBacked
  BY DEF Init, AddressBacked, InUse
<1>4. MessagesMatchPhase /\ QuietWhenIdle
  BY DEF Init, MessagesMatchPhase, QuietWhenIdle, Received
<1>5. LeaseFromPool
  BY DEF Init, LeaseFromPool, NoLeases
<1>. QED BY <1>1, <1>2, <1>3, <1>4, <1>5 DEF IInv

(* A query served: the only step that changes a lease table. *)
LEMMA ServeLemma ==
  ASSUME IInv, NEW s \in Server, ServeDhcp(s)
  PROVE  IInv'
<1>1. PICK m \in wire :
        /\ m.type \in Queries
        /\ m.server = s
        /\ \E table \in TablesAfter(m), rest \in Remaining(m) :
             /\ leases' = [leases EXCEPT ![s] = table]
             /\ wire' = rest \cup Answers(m, table)
        /\ hops' = hops + 1
        /\ UNCHANGED <<pool, addr, phase, active, asked, offers>>
  BY DEF ServeDhcp
<1>2. PICK t \in TablesAfter(m), rest \in Remaining(m) :
        /\ leases' = [leases EXCEPT ![s] = t]
        /\ wire' = rest \cup Answers(m, t)
  BY <1>1
<1>3. m \in Msg /\ m.client = active /\ active \in Client
  BY DEF IInv, TypeOK, MessagesMatchPhase
<1>4. /\ t \in LeaseTable
      /\ Injective(t)
      /\ \A d \in Client \ {active} : t[d] = leases[s][d]
      /\ m.type # "RELEASE" =>
           \A d \in Client : leases[s][d] # None => t[d] = leases[s][d]
  BY <1>1, <1>3, TablesLemma DEF IInv
<1>5. leases'[s] = t /\ \A r \in Server \ {s} : leases'[r] = leases[r]
  BY <1>2 DEF IInv, TypeOK
<1>6. rest \subseteq wire
  BY DEF Remaining
<1>7. \A r \in Answers(m, t) :
        /\ r \in Msg
        /\ r.type \in Replies
        /\ r.client = active
        /\ m.type # "RELEASE"
        /\ r.type = "ACK" => /\ r.server = s
                             /\ r.ip = t[active]
                             /\ r.ip = m.ip
                             /\ r.ip # None
                             /\ m.type = "REQUEST"
  BY <1>1, <1>3, <1>4, AnswersLemma DEF IInv, Queries
<1>8. m.type = "RELEASE" => phase = "release"
  BY DEF IInv, MessagesMatchPhase
<1>9. m.type = "REQUEST" => phase = "request" /\ m.ip = asked
  BY DEF IInv, MessagesMatchPhase
<1>10. TypeOK'
  <2>1. leases' \in [Server -> LeaseTable]
    BY <1>2, <1>4 DEF IInv, TypeOK
  <2>2. wire' \subseteq Msg
    BY <1>2, <1>6, <1>7 DEF IInv, TypeOK
  <2>. QED BY <1>1, <2>1, <2>2 DEF IInv, TypeOK
<1>11. LeasesInjective'
  BY <1>4, <1>5 DEF IInv, LeasesInjective, Injective
<1>12. AddressBacked'
  <2>1. SUFFICES ASSUME NEW c \in Client, InUse(c)' # None
                 PROVE  \E r \in Server : leases'[r][c] = InUse(c)'
    BY DEF AddressBacked
  <2>2. InUse(c)' = InUse(c)
    BY <1>1 DEF InUse
  <2>3. PICK r \in Server : leases[r][c] = InUse(c)
    BY <2>1, <2>2 DEF IInv, AddressBacked
  <2>4. leases'[r][c] = leases[r][c]
    <3>1. CASE r # s
      BY <3>1, <1>5
    <3>2. CASE r = s /\ c # active
      BY <3>2, <1>4, <1>5
    <3>3. CASE r = s /\ c = active
      <4>1. phase # "release"
        BY <2>1, <2>2, <3>3 DEF InUse
      <4>. QED BY <4>1, <3>3, <1>4, <1>5, <1>8, <2>1, <2>2, <2>3
    <3>. QED BY <3>1, <3>2, <3>3
  <2>. QED BY <2>2, <2>3, <2>4
<1>13. MessagesMatchPhase'
  <2>1. SUFFICES ASSUME NEW n \in wire' \cup Received'
                 PROVE  /\ n.client = active
                        /\ n.type = "REQUEST" => phase = "request" /\ n.ip = asked
                        /\ n.type = "RELEASE" => phase = "release"
                        /\ n.type = "ACK" => /\ phase = "request"
                                             /\ n.ip = asked
                                             /\ n.ip # None
                                             /\ leases'[n.server][n.client] = n.ip
    BY <1>1 DEF MessagesMatchPhase
  <2>2. CASE n \in Answers(m, t)
    BY <2>2, <1>5, <1>7, <1>9 DEF Replies
  <2>3. CASE n \notin Answers(m, t)
    <3>1. n \in wire \cup Received
      BY <2>1, <2>3, <1>1, <1>2, <1>6 DEF Received
    <3>2. n.server \in Server
      <4>1. Received \subseteq Msg
        BY DEF IInv, TypeOK, Received
      <4>. QED BY <3>1, <4>1 DEF IInv, TypeOK, Msg
    <3>3. n.type = "ACK" => leases'[n.server][n.client] = n.ip
      <4>1. SUFFICES ASSUME n.type = "ACK"
                     PROVE  leases'[n.server][active] = leases[n.server][active]
        BY <3>1 DEF IInv, MessagesMatchPhase
      <4>2. /\ phase = "request"
            /\ leases[n.server][active] # None
        BY <3>1, <4>1 DEF IInv, MessagesMatchPhase
      <4>. QED BY <3>2, <4>2, <1>3, <1>4, <1>5, <1>8
    <3>. QED BY <3>1, <3>3 DEF IInv, MessagesMatchPhase
  <2>. QED BY <2>2, <2>3
<1>14. QuietWhenIdle'
  BY <1>1 DEF IInv, QuietWhenIdle
<1>15. LeaseFromPool'
  <2>1. \A c \in Client : t[c] # None => \E p \in Pools[s] : t[c] \in Addresses(p)
    <3>1. CASE m.type = "RELEASE"
      BY <3>1, <1>1, <1>3, <1>4 DEF IInv, LeaseFromPool, TablesAfter, Release, TypeOK, LeaseTable
    <3>2. CASE m.type # "RELEASE"
      <4>1. t \in Allocate(pool[s], leases[s], active)
        BY <3>2, <1>1, <1>3 DEF TablesAfter
      <4>2. pool[s] \in Pool /\ leases[s] \in LeaseTable
        BY DEF IInv, TypeOK
      <4>3. t = leases[s] \/ t[active] \in Addresses(pool[s])
        BY <4>1, <4>2, <1>3, AllocateLemma
      <4>. QED BY <4>3, <1>4 DEF IInv, LeaseFromPool
    <3>. QED BY <3>1, <3>2
  <2>. QED BY <2>1, <1>1, <1>5 DEF IInv, LeaseFromPool
<1>. QED BY <1>10, <1>11, <1>12, <1>13, <1>14, <1>15 DEF IInv

(* A step that leaves lease tables, addresses, pools, client and request   *)
(* alone and only moves or drops messages within the same phase.           *)
LEMMA QuietLemma ==
  ASSUME IInv,
         UNCHANGED <<pool, leases, addr, phase, active, asked>>,
         wire' \subseteq wire, offers' \in Seq(Msg), hops' \in Nat,
         Received' \subseteq wire \cup Received,
         phase # "idle" \/ UNCHANGED offers
  PROVE  IInv'
<1>1. TypeOK'
  BY DEF IInv, TypeOK
<1>2. LeasesInjective' /\ AddressBacked' /\ LeaseFromPool'
  BY DEF IInv, LeasesInjective, Injective, AddressBacked, InUse, LeaseFromPool
<1>3. MessagesMatchPhase'
  BY DEF IInv, MessagesMatchPhase
<1>4. QuietWhenIdle'
  BY DEF IInv, QuietWhenIdle
<1>. QED BY <1>1, <1>2, <1>3, <1>4 DEF IInv

LEMMA EngineLemma ==
  ASSUME IInv, EngineStep
  PROVE  IInv'
<1>1. CASE \E s \in Server : ServeDhcp(s)
  BY <1>1, ServeLemma
<1>2. CASE ReceiveDhcpReply
  <2>1. PICK m \in wire :
          /\ offers' = Append(offers, m)
          /\ wire' \in Remaining(m)
          /\ hops' = hops + 1
          /\ UNCHANGED <<pool, leases, addr, phase, active, asked>>
    BY <1>2 DEF ReceiveDhcpReply
  <2>2. offers \in Seq(Msg) /\ m \in Msg /\ hops \in Nat
    BY DEF IInv, TypeOK
  <2>3. offers' \in Seq(Msg) /\ hops' \in Nat
    BY <2>1, <2>2
  <2>4. Received' \subseteq wire \cup Received
    <3>1. SUFFICES ASSUME NEW i \in DOMAIN offers'
                   PROVE  offers'[i] \in wire \cup Received
      BY DEF Received
    <3>2. CASE i = Len(offers) + 1
      BY <2>1, <2>2, <3>2
    <3>3. CASE i # Len(offers) + 1
      <4>1. i \in DOMAIN offers /\ offers'[i] = offers[i]
        BY <2>1, <2>2, <3>1, <3>3
      <4>. QED BY <4>1 DEF Received
    <3>. QED BY <3>2, <3>3
  <2>5. phase # "idle" /\ wire' \subseteq wire
    BY <2>1 DEF IInv, QuietWhenIdle, Remaining
  <2>. QED BY <2>1, <2>3, <2>4, <2>5, QuietLemma
<1>3. CASE Lose
  BY <1>3, QuietLemma DEF Lose, IInv, TypeOK, Received
<1>4. CASE StopAtHopLimit
  BY <1>4, QuietLemma DEF StopAtHopLimit, IInv, TypeOK, Received
<1>. QED BY <1>1, <1>2, <1>3, <1>4 DEF EngineStep

LEMMA RenewLemma ==
  ASSUME IInv, NEW c \in Client, Renew(c)
  PROVE  IInv'
<1>1. /\ wire' \subseteq Msg
      /\ \A m \in wire' : m.client = c /\ m.type = "DISCOVER"
  <2>1. "DISCOVER" \in Queries /\ wire' = Broadcast("DISCOVER", c, None)
    BY DEF Renew, Queries
  <2>. QED BY <2>1 DEF Broadcast, Message, Msg
<1>2. Received' = {}
  BY DEF Renew, Received
<1>3. TypeOK'
  BY <1>1 DEF IInv, TypeOK, Renew
<1>4. LeasesInjective' /\ AddressBacked' /\ LeaseFromPool'
  BY DEF IInv, LeasesInjective, Injective, AddressBacked, InUse, LeaseFromPool, Renew
<1>5. MessagesMatchPhase' /\ QuietWhenIdle'
  BY <1>1, <1>2 DEF MessagesMatchPhase, QuietWhenIdle, Renew
<1>. QED BY <1>3, <1>4, <1>5 DEF IInv

LEMMA SendRequestLemma ==
  ASSUME IInv, SendRequest
  PROVE  IInv'
<1>1. PICK i \in DOMAIN offers :
        /\ asked' = offers[i].ip
        /\ wire' = Broadcast("REQUEST", active, offers[i].ip)
  BY DEF SendRequest
<1>2. active \in Client /\ offers[i].ip \in Nat \cup {None}
  <2>1. offers[i] \in Msg
    BY DEF IInv, TypeOK
  <2>. QED BY <2>1 DEF IInv, TypeOK, Msg
<1>3. /\ wire' \subseteq Msg
      /\ \A m \in wire' : m.client = active /\ m.type = "REQUEST" /\ m.ip = asked'
  <2>1. "REQUEST" \in Queries
    BY DEF Queries
  <2>. QED BY <2>1, <1>1, <1>2 DEF Broadcast, Message, Msg
<1>4. Received' = {}
  BY DEF SendRequest, Received
<1>5. TypeOK'
  BY <1>1, <1>2, <1>3 DEF IInv, TypeOK, SendRequest
<1>6. LeasesInjective' /\ AddressBacked' /\ LeaseFromPool'
  BY DEF IInv, LeasesInjective, Injective, AddressBacked, InUse, LeaseFromPool, SendRequest
<1>7. MessagesMatchPhase' /\ QuietWhenIdle'
  BY <1>3, <1>4 DEF MessagesMatchPhase, QuietWhenIdle, SendRequest
<1>. QED BY <1>5, <1>6, <1>7 DEF IInv

LEMMA GiveUpLemma ==
  ASSUME IInv, GiveUp
  PROVE  IInv'
<1>1. Received' = {} /\ wire' = {}
  BY DEF GiveUp, Received
<1>2. TypeOK'
  BY DEF IInv, TypeOK, GiveUp
<1>3. LeasesInjective' /\ AddressBacked' /\ LeaseFromPool'
  BY DEF IInv, LeasesInjective, Injective, AddressBacked, InUse, LeaseFromPool, GiveUp
<1>4. MessagesMatchPhase' /\ QuietWhenIdle'
  BY <1>1 DEF MessagesMatchPhase, QuietWhenIdle, GiveUp
<1>. QED BY <1>2, <1>3, <1>4 DEF IInv

(* The address an ACK brings is one its server keeps for the client. *)
LEMMA AckLemma ==
  ASSUME IInv, ApplyLease
  PROVE  \E s \in Server :
           /\ leases[s][active] # None
           /\ addr' = [addr EXCEPT ![active] = leases[s][active]]
<1>1. PICK i \in DOMAIN offers :
        /\ offers[i].type = "ACK"
        /\ addr' = [addr EXCEPT ![active] = offers[i].ip]
  BY DEF ApplyLease, FirstOffer
<1>2. offers[i] \in Received /\ offers[i].server \in Server
  <2>1. offers[i] \in Msg
    BY DEF IInv, TypeOK
  <2>. QED BY <2>1 DEF Msg, Received
<1>. QED BY <1>1, <1>2 DEF IInv, MessagesMatchPhase

LEMMA ApplyLeaseLemma ==
  ASSUME IInv, ApplyLease
  PROVE  IInv'
<1>1. PICK s \in Server :
        /\ leases[s][active] # None
        /\ addr' = [addr EXCEPT ![active] = leases[s][active]]
  BY AckLemma
<1>2. active \in Client /\ leases[s][active] \in Nat \cup {None}
  BY DEF IInv, TypeOK, LeaseTable
<1>3. TypeOK'
  BY <1>1, <1>2 DEF IInv, TypeOK, ApplyLease
<1>4. LeasesInjective' /\ LeaseFromPool'
  BY DEF IInv, LeasesInjective, Injective, LeaseFromPool, ApplyLease
<1>5. AddressBacked'
  <2>1. SUFFICES ASSUME NEW c \in Client, addr'[c] # None
                 PROVE  \E r \in Server : leases[r][c] = addr'[c]
    BY DEF AddressBacked, InUse, ApplyLease
  <2>2. CASE c = active
    BY <1>1, <2>2 DEF IInv, TypeOK
  <2>3. CASE c # active
    BY <1>1, <2>1, <2>3 DEF IInv, TypeOK, AddressBacked, InUse
  <2>. QED BY <2>2, <2>3
<1>6. MessagesMatchPhase' /\ QuietWhenIdle'
  BY DEF MessagesMatchPhase, QuietWhenIdle, ApplyLease, Received
<1>. QED BY <1>3, <1>4, <1>5, <1>6 DEF IInv

LEMMA ReleaseStepLemma ==
  ASSUME IInv, NEW c \in Client, ReleaseLease(c)
  PROVE  IInv'
<1>1. /\ wire' \subseteq Msg
      /\ \A m \in wire' : m.client = c /\ m.type = "RELEASE"
  <2>1. "RELEASE" \in Queries /\ wire' = Broadcast("RELEASE", c, None)
    BY DEF ReleaseLease, Queries
  <2>. QED BY <2>1 DEF Broadcast, Message, Msg
<1>2. Received' = {}
  BY DEF ReleaseLease, Received
<1>3. TypeOK'
  BY <1>1 DEF IInv, TypeOK, ReleaseLease
<1>4. LeasesInjective' /\ AddressBacked' /\ LeaseFromPool'
  BY DEF IInv, LeasesInjective, Injective, AddressBacked, InUse, LeaseFromPool, ReleaseLease
<1>5. MessagesMatchPhase' /\ QuietWhenIdle'
  BY <1>1, <1>2 DEF MessagesMatchPhase, QuietWhenIdle, ReleaseLease
<1>. QED BY <1>3, <1>4, <1>5 DEF IInv

LEMMA DropAddressLemma ==
  ASSUME IInv, DropAddress
  PROVE  IInv'
<1>1. TypeOK'
  BY DEF IInv, TypeOK, DropAddress
<1>2. LeasesInjective' /\ LeaseFromPool'
  BY DEF IInv, LeasesInjective, Injective, LeaseFromPool, DropAddress
<1>3. AddressBacked'
  BY DEF IInv, TypeOK, AddressBacked, InUse, DropAddress
<1>4. MessagesMatchPhase' /\ QuietWhenIdle'
  BY DEF MessagesMatchPhase, QuietWhenIdle, DropAddress, Received
<1>. QED BY <1>1, <1>2, <1>3, <1>4 DEF IInv

LEMMA EditPoolLemma ==
  ASSUME IInv, NEW s \in Server, EditPool(s)
  PROVE  IInv'
<1>1. PICK p \in Pools[s] : pool' = [pool EXCEPT ![s] = p]
  BY DEF EditPool
<1>2. TypeOK' /\ \A r \in Server : pool'[r] \in Pools[r]
  BY <1>1, PoolsAssumption DEF IInv, TypeOK, LeaseFromPool, EditPool
<1>3. LeasesInjective' /\ AddressBacked' /\ LeaseFromPool'
  BY <1>2 DEF IInv, LeasesInjective, Injective, AddressBacked, InUse, LeaseFromPool, EditPool
<1>4. MessagesMatchPhase' /\ QuietWhenIdle'
  BY DEF IInv, MessagesMatchPhase, QuietWhenIdle, EditPool, Received
<1>. QED BY <1>2, <1>3, <1>4 DEF IInv

LEMMA NextLemma ==
  ASSUME IInv, [Next]_vars
  PROVE  IInv'
<1>1. CASE EngineStep
  BY <1>1, EngineLemma
<1>2. CASE ClientStep
  BY <1>2, SendRequestLemma, GiveUpLemma, ApplyLeaseLemma, DropAddressLemma DEF ClientStep
<1>3. CASE \E c \in Client : Renew(c) \/ ReleaseLease(c)
  BY <1>3, RenewLemma, ReleaseStepLemma
<1>4. CASE \E s \in Server : EditPool(s)
  BY <1>4, EditPoolLemma
<1>5. CASE UNCHANGED vars
  BY <1>5 DEF vars, IInv, TypeOK, LeasesInjective, Injective, AddressBacked, InUse,
              MessagesMatchPhase, Received, QuietWhenIdle, LeaseFromPool
<1>. QED BY <1>1, <1>2, <1>3, <1>4, <1>5 DEF Next

LEMMA Invariance == Spec => []IInv
<1>1. IInv /\ [Next]_vars => IInv'
  BY NextLemma
<1>. QED BY <1>1, InitLemma, PTL DEF Spec

-------------------------------------------------------------------------------
(* The variables keep their types: run_dhcp_client, release_dhcp_lease and *)
(* server.handle never store anything but addresses, messages and tables.  *)
THEOREM TypeCorrect == Spec => []TypeOK
<1>1. IInv => TypeOK
  BY DEF IInv
<1>. QED BY <1>1, Invariance, PTL

(* pool.py allocate / release: no server ever leases one address twice,    *)
(* whatever is lost, duplicated or edited.                                 *)
THEOREM NoDoubleLease == Spec => []LeasesInjective
<1>1. IInv => LeasesInjective
  BY DEF IInv
<1>. QED BY <1>1, Invariance, PTL

(* run_dhcp_client: an address in use is one some server still keeps.      *)
THEOREM UsedAddressesBacked == Spec => []AddressBacked
<1>1. IInv => AddressBacked
  BY DEF IInv
<1>. QED BY <1>1, Invariance, PTL

(* run_dhcp_client: the first ACK found is the answer to this REQUEST,     *)
(* although neither its transaction id nor its address is compared.        *)
THEOREM AckIsFresh == Spec => []AckConfirmsRequest
<1>1. IInv => AckConfirmsRequest
  BY DEF IInv, MessagesMatchPhase, Received, AckConfirmsRequest
<1>. QED BY <1>1, Invariance, PTL

(* server.handle: only the client's own release frees its address.         *)
THEOREM LeasesAreStable == Spec => LeaseStable
<1>1. IInv /\ [Next]_vars =>
        [\A s \in Server, c \in Client :
           leases[s][c] # None /\ leases'[s][c] # leases[s][c]
             => phase = "release" /\ active = c]_vars
  <2>1. SUFFICES ASSUME IInv, Next, NEW s \in Server, NEW c \in Client,
                        leases[s][c] # None, leases'[s][c] # leases[s][c]
                 PROVE  phase = "release" /\ active = c
    BY DEF vars
  <2>2. PICK r \in Server : ServeDhcp(r)
    BY <2>1 DEF Next, EngineStep, ClientStep, ReceiveDhcpReply, Lose, StopAtHopLimit,
                SendRequest, GiveUp, ApplyLease, DropAddress, Renew, ReleaseLease, EditPool
  <2>3. PICK m \in wire : /\ m.server = r
                        /\ \E t \in TablesAfter(m) : leases' = [leases EXCEPT ![r] = t]
    BY <2>2 DEF ServeDhcp
  <2>6. PICK t \in TablesAfter(m) : leases' = [leases EXCEPT ![r] = t]
    BY <2>3
  <2>4. m \in Msg /\ m.client = active /\ (m.type = "RELEASE" => phase = "release")
    BY <2>1 DEF IInv, TypeOK, MessagesMatchPhase
  <2>5. s = r /\ t[c] # leases[s][c]
    BY <2>1, <2>6 DEF IInv, TypeOK
  <2>. QED BY <2>1, <2>3, <2>4, <2>5, TablesLemma DEF IInv
<1>. QED BY <1>1, Invariance, PTL DEF Spec, LeaseStable

(* The user gave no two servers overlapping pools. *)
PoolsDisjoint ==
  \A r, s \in Server : r # s =>
    \A p \in Pools[r], q \in Pools[s] : Addresses(p) \cap Addresses(q) = {}

(* run_dhcp_client: with pools kept apart, no two clients use one address. *)
THEOREM NoDuplicateAddress == ASSUME PoolsDisjoint PROVE Spec => []AddressesUnique
<1>1. Init => AddressesUnique
  BY DEF Init, AddressesUnique
<1>2. IInv /\ AddressesUnique /\ [Next]_vars => AddressesUnique'
  <2>. SUFFICES ASSUME IInv, AddressesUnique, [Next]_vars PROVE AddressesUnique'
    OBVIOUS
  <2>1. CASE ApplyLease
    <3>1. PICK s \in Server :
            /\ leases[s][active] # None
            /\ addr' = [addr EXCEPT ![active] = leases[s][active]]
      BY <2>1, AckLemma
    <3>2. \A c \in Client \ {active} : addr[c] # None => addr[c] # leases[s][active]
      <4>1. SUFFICES ASSUME NEW c \in Client \ {active}, addr[c] # None,
                            addr[c] = leases[s][active]
                     PROVE  FALSE
        OBVIOUS
      <4>2. PICK r \in Server : leases[r][c] = addr[c]
        BY <2>1, <4>1 DEF IInv, AddressBacked, InUse, ApplyLease
      <4>3. active \in Client
        BY DEF IInv, TypeOK
      <4>4. r # s
        BY <4>1, <4>2, <4>3 DEF IInv, LeasesInjective, Injective
      <4>5. PICK p \in Pools[r] : leases[r][c] \in Addresses(p)
        BY <4>1, <4>2 DEF IInv, LeaseFromPool
      <4>6. PICK q \in Pools[s] : leases[s][active] \in Addresses(q)
        BY <3>1, <4>3 DEF IInv, LeaseFromPool
      <4>. QED BY <4>1, <4>2, <4>4, <4>5, <4>6 DEF PoolsDisjoint
    <3>. QED BY <3>1, <3>2 DEF IInv, TypeOK, AddressesUnique
  <2>2. CASE DropAddress
    BY <2>2 DEF DropAddress, IInv, TypeOK, AddressesUnique
  <2>3. CASE UNCHANGED addr
    BY <2>3 DEF AddressesUnique
  <2>4. ApplyLease \/ DropAddress \/ UNCHANGED addr
    BY DEF Next, vars, EngineStep, ClientStep, ServeDhcp, ReceiveDhcpReply, Lose,
           StopAtHopLimit, SendRequest, GiveUp, Renew, ReleaseLease, EditPool
  <2>. QED BY <2>1, <2>2, <2>3, <2>4
<1>. QED BY <1>1, <1>2, Invariance, PTL DEF Spec

(* pool.py "a client that asks twice gets the same lease back": true of    *)
(* any history with one server, whatever happens to its pool.              *)
THEOREM RenewKeepsAddress ==
  ASSUME NEW only, Server = {only} PROVE Spec => SameAddressBack
<1>1. IInv /\ [Next]_vars =>
        [\A c \in Client : addr[c] # None /\ addr'[c] # None => addr'[c] = addr[c]]_vars
  <2>1. SUFFICES ASSUME IInv, Next, NEW c \in Client, addr[c] # None, addr'[c] # None
                 PROVE  addr'[c] = addr[c]
    BY DEF vars
  <2>2. CASE ApplyLease
    <3>1. addr' = [addr EXCEPT ![active] = leases[only][active]]
      BY <2>1, <2>2, AckLemma
    <3>2. leases[only][c] = addr[c]
      BY <2>1, <2>2 DEF IInv, AddressBacked, InUse, ApplyLease
    <3>. QED BY <2>1, <3>1, <3>2 DEF IInv, TypeOK
  <2>3. CASE DropAddress
    BY <2>1, <2>3 DEF DropAddress, IInv, TypeOK
  <2>4. CASE UNCHANGED addr
    BY <2>4
  <2>5. ApplyLease \/ DropAddress \/ UNCHANGED addr
    BY <2>1 DEF Next, EngineStep, ClientStep, ServeDhcp, ReceiveDhcpReply, Lose,
           StopAtHopLimit, SendRequest, GiveUp, Renew, ReleaseLease, EditPool
  <2>. QED BY <2>2, <2>3, <2>4, <2>5
<1>. QED BY <1>1, Invariance, PTL DEF Spec, SameAddressBack

-------------------------------------------------------------------------------
(* The lease table of a server that served a query is the contract's       *)
(* Reserve, its Forget, or no change.                                      *)
LEMMA ServeImplements ==
  ASSUME IInv, NEW s \in Server, ServeDhcp(s)
  PROVE  [Promise!ContractNext]_Promise!contractVars
<1>1. PICK m \in wire :
        /\ m.server = s
        /\ \E t \in TablesAfter(m) : leases' = [leases EXCEPT ![s] = t]
        /\ UNCHANGED <<addr, phase, active>>
  BY DEF ServeDhcp
<1>2. PICK t \in TablesAfter(m) : leases' = [leases EXCEPT ![s] = t]
  BY <1>1
<1>3. m.client = active /\ active \in Client /\ (m.type = "RELEASE" => phase = "release")
  BY DEF IInv, TypeOK, MessagesMatchPhase
<1>4. UNCHANGED [c \in Client |-> InUse(c)]
  BY <1>1 DEF InUse
<1>5. CASE m.type = "RELEASE"
  <2>1. leases' = [leases EXCEPT ![s] = [leases[s] EXCEPT ![active] = None]]
    BY <1>1, <1>2, <1>3, <1>5 DEF TablesAfter, Release
  <2>2. [c \in Client |-> InUse(c)][active] = None
    BY <1>3, <1>5 DEF InUse
  <2>3. Promise!Forget(s, active)
    BY <2>1, <2>2, <1>4 DEF Promise!Forget
  <2>. QED BY <2>3, <1>3 DEF Promise!ContractNext
<1>6. CASE m.type # "RELEASE"
  <2>1. t \in Allocate(pool[s], leases[s], active)
    BY <1>1, <1>3, <1>6 DEF TablesAfter
  <2>2. pool[s] \in Pool /\ leases[s] \in LeaseTable
    BY DEF IInv, TypeOK
  <2>3. CASE t = leases[s]
    <3>1. leases' = leases
      BY <2>3, <1>2 DEF IInv, TypeOK
    <3>. QED BY <3>1, <1>4 DEF Promise!contractVars
  <2>4. CASE t # leases[s]
    <3>1. /\ leases[s][active] = None
          /\ t[active] \in Nat
          /\ t = [leases[s] EXCEPT ![active] = t[active]]
          /\ \A d \in Client : leases[s][d] # t[active]
      BY <2>1, <2>2, <2>4, <1>3, AllocateLemma
    <3>2. leases'[s][active] = t[active]
      BY <1>2 DEF IInv, TypeOK
    <3>3. leases' = [leases EXCEPT ![s][active] = leases'[s][active]]
      BY <3>1, <3>2, <1>2
    <3>4. Promise!Reserve(s, active)
      BY <3>1, <3>2, <3>3, <1>4 DEF Promise!Reserve
    <3>. QED BY <3>4, <1>3 DEF Promise!ContractNext
  <2>. QED BY <2>3, <2>4
<1>. QED BY <1>5, <1>6

(* The four-message exchange keeps the lease contract: every step of it is *)
(* a reservation, a client taking or giving up its address, a reservation  *)
(* dropped after that, or no visible change.                               *)
THEOREM ExchangeKeepsContract == Spec => ImplementsContract
<1>1. Init => Promise!ContractInit
  BY DEF Init, Promise!ContractInit, NoLeases, InUse
<1>2. IInv /\ [Next]_vars => [Promise!ContractNext]_Promise!contractVars
  <2>. SUFFICES ASSUME IInv, [Next]_vars
                PROVE  [Promise!ContractNext]_Promise!contractVars
    OBVIOUS
  <2>1. CASE \E s \in Server : ServeDhcp(s)
    BY <2>1, ServeImplements
  <2>2. CASE ApplyLease
    <3>1. PICK s \in Server :
            /\ leases[s][active] # None
            /\ addr' = [addr EXCEPT ![active] = leases[s][active]]
      BY <2>2, AckLemma
    <3>2. active \in Client /\ leases' = leases
      BY <2>2 DEF IInv, TypeOK, ApplyLease
    <3>3. [c \in Client |-> InUse(c)]'
            = [[c \in Client |-> InUse(c)] EXCEPT ![active] = leases[s][active]]
      BY <2>2, <3>1 DEF InUse, ApplyLease, IInv, TypeOK
    <3>4. Promise!Bind(active)
      BY <3>1, <3>2, <3>3 DEF Promise!Bind
    <3>. QED BY <3>2, <3>4 DEF Promise!ContractNext
  <2>3. CASE \E c \in Client : ReleaseLease(c)
    <3>1. PICK c \in Client : ReleaseLease(c)
      BY <2>3
    <3>2. [d \in Client |-> InUse(d)]' = [[d \in Client |-> InUse(d)] EXCEPT ![c] = None]
      BY <3>1 DEF InUse, ReleaseLease
    <3>3. Promise!Unbind(c)
      BY <3>1, <3>2 DEF Promise!Unbind, ReleaseLease
    <3>. QED BY <3>3 DEF Promise!ContractNext
  <2>4. CASE DropAddress
    <3>1. UNCHANGED [d \in Client |-> InUse(d)]
      BY <2>4 DEF InUse, DropAddress, IInv, TypeOK
    <3>. QED BY <2>4, <3>1 DEF Promise!contractVars, DropAddress
  <2>5. CASE \/ ReceiveDhcpReply \/ Lose \/ StopAtHopLimit \/ SendRequest \/ GiveUp
             \/ (\E c \in Client : Renew(c)) \/ (\E s \in Server : EditPool(s))
             \/ UNCHANGED vars
    <3>1. leases' = leases /\ \A d \in Client : InUse(d)' = InUse(d)
      BY <2>5 DEF ReceiveDhcpReply, Lose, StopAtHopLimit, SendRequest, GiveUp, Renew,
                  EditPool, vars, InUse
    <3>. QED BY <3>1 DEF Promise!contractVars
  <2>. QED BY <2>1, <2>2, <2>3, <2>4, <2>5 DEF Next, EngineStep, ClientStep
<1>. QED BY <1>1, <1>2, Invariance, PTL DEF Spec, ImplementsContract, Promise!Contract
===============================================================================

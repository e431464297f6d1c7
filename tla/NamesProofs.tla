------------------------------ MODULE NamesProofs ------------------------------
(***************************************************************************)
(* Proofs about Names, for any finite set of names, any depth and any      *)
(* zones: the walk is right about every chain, and the caches hold only    *)
(* what servers said.                                                      *)
(***************************************************************************)
EXTENDS Names, FiniteSetTheorems, TLAPS

(* A reply is never the mark of a free slot, a job never that of no job. *)
LEMMA Marks ==
  /\ NoReply \notin Reply /\ \A r \in Reply : r # NoReply /\ r.type \in Type
  /\ NoJob \notin Job /\ \A j \in Job : j # NoJob /\ j.phase # "none"
BY DEF NoReply, Reply, Type, NoJob, Job

-------------------------------------------------------------------------------
(* Chains. *)
LEMMA StartReached ==
  ASSUME NEW z \in Zone, NEW n \in Name
  PROVE  n \in Reached(z, n)
BY DEF Reached

LEMMA AliasReached ==
  ASSUME NEW z \in Zone, NEW n \in Name, NEW m \in Reached(z, n), ~IsEnd(z, m)
  PROVE  z.alias[m] \in Reached(z, n)
<1>1. z.alias[m] \in Name
  BY DEF Reached, IsEnd, Zone
<1>2. ASSUME NEW C \in SUBSET Name, n \in C, Closed(z, C)
      PROVE  z.alias[m] \in C
  BY <1>2 DEF Reached, Closed
<1> QED BY <1>1, <1>2 DEF Reached

LEMMA ReachedLeast ==
  ASSUME NEW z \in Zone, NEW n \in Name, NEW C \in SUBSET Name, n \in C, Closed(z, C)
  PROVE  Reached(z, n) \subseteq C
BY DEF Reached

LEMMA ReachedFinite ==
  ASSUME NEW z \in Zone, NEW n \in Name
  PROVE  IsFiniteSet(Reached(z, n))
<1>1. Reached(z, n) \subseteq Name
  BY DEF Reached
<1> QED BY <1>1, NameAssumption, FS_Subset

-------------------------------------------------------------------------------
(* Types. *)
LEMMA RespondTypes ==
  ASSUME TypeOK, NEW h \in Host, NEW n \in Name \cup {None}, NEW type \in Type,
         NEW address \in Address \cup {None}, NEW tables \in Tables,
         NEW assigned \in Server \cup {None, Kept}, Respond(h, n, type, address, tables, assigned)
  PROVE  pending' \in [Slot -> Reply \cup {NoReply}]
<1>1. PICK i \in Slot :
        pending' = [pending EXCEPT ![i] =
          [host |-> h, name |-> n, type |-> type, address |-> address,
           cache |-> tables, assigned |-> assigned]]
  BY DEF Respond
<1>2. [host |-> h, name |-> n, type |-> type, address |-> address,
       cache |-> tables, assigned |-> assigned] \in Reply
  BY DEF Reply
<1> QED BY <1>1, <1>2 DEF TypeOK

(* A record found in the zone of the server at work. *)
LEMMA LookedUp ==
  ASSUME TypeOK, job \in Job
  PROVE  /\ zones[job.server] \in Zone
         /\ Value \in Address \cup {Broken, None}
         /\ Alias \in Name \cup {None}
BY ZonesAssumption DEF TypeOK, Job, Value, Alias, Zone

LEMMA CachedTypes ==
  ASSUME TypeOK, job \in Job, NEW address \in Address \cup {None}
  PROVE  Cached(address) \in Tables
<1>1. CASE address = None
  BY <1>1 DEF Cached, TypeOK
<1>2. CASE address # None
  <2>1. [cache[job.host] EXCEPT ![job.name] = address] \in [Name -> Address \cup {None}]
    BY DEF TypeOK, Tables, Job
  <2> QED BY <1>2, <2>1 DEF Cached, TypeOK, Tables, Job
<1> QED BY <1>1, <1>2

(* The phase "found" means that the record found is an address. *)
FoundIsAddress == job.phase = "found" => Value \in Address

Typed == TypeOK /\ FoundIsAddress

(* What each kind of step leaves alone. *)
LEMMA TurnWorks ==
  ASSUME TypeOK, Turn
  PROVE  /\ job \in Job /\ job.phase = "walk"
         /\ Visited \in SUBSET Name /\ job.turns \in Nat
         /\ UNCHANGED <<zones, resolver, cache, pending, served>>
<1>1. job \in Job /\ job.phase = "walk"
  BY DEF Turn, FindLoop, FindRecord, FollowAlias, FindNothing, TooDeep, InDepth, TypeOK, NoJob
<1>2. Visited \in SUBSET Name /\ job.turns \in Nat
  BY <1>1, DepthAssumption DEF Visited, Job
<1> QED BY <1>1, <1>2 DEF Turn

LEMMA AnswerWorks ==
  ASSUME Typed, ReceiveAnswer
  PROVE  /\ job \in Job /\ job.phase # "walk" /\ job' = NoJob
         /\ \E address \in Address \cup {None} :
              /\ Cached(address) \in Tables
              /\ Respond(job.host, job.name, job.type, address, Cached(address), Kept)
              /\ address # None <=> job.phase = "found"
              /\ served' = IF address = None THEN served ELSE served \cup {<<job.name, address>>}
         /\ UNCHANGED <<zones, resolver, cache>>
<1> DEFINE address == IF job.phase = "found" THEN Value ELSE None
<1>1. job \in Job /\ job.phase # "walk" /\ job' = NoJob /\ UNCHANGED <<zones, resolver, cache>>
  BY DEF ReceiveAnswer, Typed, TypeOK
<1>2. address \in Address \cup {None} /\ (address # None <=> job.phase = "found")
  BY NoneAssumption DEF Typed, FoundIsAddress
<1>3. Cached(address) \in Tables
  BY <1>1, <1>2, CachedTypes DEF Typed
<1>4. /\ Respond(job.host, job.name, job.type, address, Cached(address), Kept)
      /\ served' = IF address = None THEN served ELSE served \cup {<<job.name, address>>}
  BY DEF ReceiveAnswer
<1> QED BY <1>1, <1>2, <1>3, <1>4

LEMMA TypeStep == Typed /\ [Next]_vars => TypeOK'
<1> SUFFICES ASSUME Typed, [Next]_vars PROVE TypeOK'
  OBVIOUS
<1> USE DepthAssumption DEF Typed
<1>1. ASSUME NEW h \in Host, NEW n \in Name, NEW type \in Type, LookupLocally(h, n, type)
      PROVE  TypeOK'
  <2>1. FromCache(h, n, type) \in Address \cup {None}
    BY DEF FromCache, TypeOK, Tables
  <2>2. pending' \in [Slot -> Reply \cup {NoReply}]
    BY <1>1, <2>1, RespondTypes DEF LookupLocally, TypeOK
  <2> QED BY <1>1, <2>2 DEF LookupLocally, TypeOK
<1>2. ASSUME NEW h \in Host, NEW n \in Name, NEW type \in Type, SendQuery(h, n, type)
      PROVE  TypeOK'
  <2>1. resolver[h] \in Server
    BY <1>2 DEF SendQuery, TypeOK
  <2>2. job' \in Job
    BY <1>2, <2>1 DEF SendQuery, Job
  <2> QED BY <1>2, <2>2 DEF SendQuery, TypeOK
<1>3. ASSUME NEW h \in Host, LookupNoAddress(h)
      PROVE  TypeOK'
  <2>1. pending' \in [Slot -> Reply \cup {NoReply}]
    BY <1>3, RespondTypes DEF LookupNoAddress, TypeOK, Type
  <2> QED BY <1>3, <2>1 DEF LookupNoAddress, TypeOK
<1>4. CASE Turn
  <2>1. job \in Job /\ Visited \in SUBSET Name /\ job.turns \in Nat
    BY <1>4, TurnWorks
  <2>2. job' \in Job
    <3>1. CASE FindLoop
      BY <2>1, <3>1 DEF FindLoop, Job
    <3>2. CASE FindRecord
      BY <2>1, <3>2 DEF FindRecord, Job
    <3>3. CASE FollowAlias
      <4>1. Alias \in Name /\ job.turns + 1 \in 0 .. MaxDepth
        BY <2>1, <3>3, LookedUp DEF FollowAlias, InDepth
      <4> QED BY <2>1, <3>3, <4>1 DEF FollowAlias, Job
    <3>4. CASE FindNothing
      BY <2>1, <3>4 DEF FindNothing, Job
    <3>5. CASE TooDeep
      BY <2>1, <3>5 DEF TooDeep, Job
    <3> QED BY <1>4, <3>1, <3>2, <3>3, <3>4, <3>5 DEF Turn
  <2> QED BY <1>4, <2>2, TurnWorks DEF TypeOK
<1>5. CASE ReceiveAnswer
  <2>1. PICK address \in Address \cup {None} :
          /\ Cached(address) \in Tables
          /\ Respond(job.host, job.name, job.type, address, Cached(address), Kept)
          /\ served' = IF address = None THEN served ELSE served \cup {<<job.name, address>>}
    BY <1>5, AnswerWorks
  <2>2. job \in Job /\ job' = NoJob /\ UNCHANGED <<zones, resolver, cache>>
    BY <1>5, AnswerWorks
  <2>3. pending' \in [Slot -> Reply \cup {NoReply}]
    BY <2>1, <2>2, RespondTypes DEF Job
  <2>4. served' \subseteq Name \X Address
    BY <2>1, <2>2 DEF TypeOK, Job
  <2> QED BY <2>2, <2>3, <2>4 DEF TypeOK
<1>6. CASE LoseAnswer
  <2>1. job \in Job
    BY <1>6 DEF LoseAnswer, TypeOK
  <2>2. pending' \in [Slot -> Reply \cup {NoReply}]
    BY <1>6, <2>1, RespondTypes DEF LoseAnswer, TypeOK, Job
  <2> QED BY <1>6, <2>2 DEF LoseAnswer, TypeOK
<1>7. ASSUME NEW h \in Host, ReleaseLease(h)
      PROVE  TypeOK'
  <2>1. [cache EXCEPT ![h] = NoNames] \in Tables
    BY DEF TypeOK, Tables, NoNames
  <2>2. pending' \in [Slot -> Reply \cup {NoReply}]
    BY <1>7, <2>1, RespondTypes DEF ReleaseLease, Type
  <2> QED BY <1>7, <2>2 DEF ReleaseLease, TypeOK
<1>8. ASSUME NEW h \in Host, NEW s \in Server \cup {None}, ApplyLease(h, s)
      PROVE  TypeOK'
  <2>1. pending' \in [Slot -> Reply \cup {NoReply}]
    BY <1>8, RespondTypes DEF ApplyLease, TypeOK, Type
  <2> QED BY <1>8, <2>1 DEF ApplyLease, TypeOK
<1>9. ASSUME NEW i \in Slot, Applied(i)
      PROVE  TypeOK'
  <2>1. pending[i] \in Reply
    BY <1>9 DEF Applied, TypeOK
  <2>2. cache' \in Tables
    BY <1>9, <2>1 DEF Applied, Reply
  <2>3. resolver' \in [Host -> Server \cup {None}]
    BY <1>9, <2>1 DEF Applied, Reply, TypeOK
  <2> QED BY <1>9, <2>2, <2>3 DEF Applied, TypeOK
<1>10. ASSUME NEW i \in Slot, Failed(i)
       PROVE  TypeOK'
  BY <1>10 DEF Failed, TypeOK
<1>11. CASE Edit
  <2>1. ASSUME NEW s \in Server, NEW n \in Name, NEW value, NEW alias, EditZone(s, n, value, alias)
        PROVE  TypeOK'
    BY <2>1 DEF EditZone, TypeOK
  <2>2. ASSUME NEW h \in Host, NEW s \in Server \cup {None}, SetResolver(h, s)
        PROVE  TypeOK'
    BY <2>2 DEF SetResolver, TypeOK
  <2>3. CASE Load
    BY <2>3 DEF Load, TypeOK, Tables, NoNames
  <2> QED BY <1>11, <2>1, <2>2, <2>3 DEF Edit
<1>12. CASE UNCHANGED vars
  BY <1>12 DEF vars, TypeOK
<1> QED BY <1>1, <1>2, <1>3, <1>4, <1>5, <1>6, <1>7, <1>8, <1>9, <1>10, <1>11, <1>12
        DEF Next, Lookup, Readdress

-------------------------------------------------------------------------------
(* The walk. *)

(* What the loop of DnsZone.resolve keeps: the names visited are on the    *)
(* chain, none of them is an end, and the chain from the first one leads   *)
(* to the current one through them.                                        *)
Walks(z, n, current, seen, turns) ==
  /\ current \in Reached(z, n)
  /\ seen \subseteq Reached(z, n)
  /\ n \in seen \cup {current}
  /\ \A m \in seen : ~IsEnd(z, m) /\ z.alias[m] \in seen \cup {current}
  /\ Cardinality(seen) = turns

WalkInv ==
  job.phase = "walk" => Walks(zones[job.server], job.name, job.current, job.seen, job.turns)

(* At an end, and on a name seen before, the names visited are the chain. *)
LEMMA WholeChain ==
  ASSUME NEW z \in Zone, NEW n \in Name, NEW current \in Name, NEW seen \in SUBSET Name,
         NEW turns \in Nat, Walks(z, n, current, seen, turns), IsEnd(z, current) \/ current \in seen
  PROVE  Reached(z, n) = seen \cup {current}
<1>1. Closed(z, seen \cup {current})
  BY DEF Closed, Walks
<1>2. Reached(z, n) \subseteq seen \cup {current}
  BY <1>1, ReachedLeast DEF Walks
<1> QED BY <1>2 DEF Walks

LEMMA WalkStep == Typed /\ WalkInv /\ WalkAgrees /\ [Next]_vars => WalkInv' /\ WalkAgrees' /\ FoundIsAddress'
<1> SUFFICES ASSUME Typed, WalkInv, WalkAgrees, [Next]_vars
             PROVE  WalkInv' /\ WalkAgrees' /\ FoundIsAddress'
  OBVIOUS
<1> USE DepthAssumption
<1>0. TypeOK
  BY DEF Typed
<1>1. CASE Turn
  <2> DEFINE z == zones[job.server]
             n == job.name
             c == job.current
  <2>1. job \in Job /\ job.phase = "walk" /\ Visited \in SUBSET Name /\ job.turns \in Nat /\ zones' = zones
    BY <1>0, <1>1, TurnWorks
  <2>2. n \in Name /\ c \in Name /\ job.seen \in SUBSET Name /\ job.turns \in 0 .. MaxDepth
    BY <2>1 DEF Job
  <2>3. z \in Zone /\ Value = z.a[c] /\ Alias = z.alias[c] /\ Value \in Address \cup {Broken, None} /\ Alias \in Name \cup {None}
    BY <1>0, <2>1, LookedUp DEF Value, Alias
  <2>4. Walks(z, n, c, job.seen, job.turns)
    BY <2>1 DEF WalkInv
  <2>5. IsFiniteSet(Reached(z, n)) /\ IsFiniteSet(job.seen) /\ Cardinality(job.seen) = job.turns
    BY <2>2, <2>3, <2>4, ReachedFinite, FS_Subset DEF Walks
  <2>6. c \notin job.seen => Cardinality(Visited) = job.turns + 1
    BY <2>5, FS_AddElement DEF Visited
  <2>7. CASE FindLoop
    <3>1. job' = [job EXCEPT !.phase = "loop"] /\ job.turns < MaxDepth /\ c \in job.seen
      BY <2>7 DEF FindLoop, InDepth, IsNew
    <3>2. Reached(z, n) = job.seen
      <4>1. Reached(z, n) = job.seen \cup {c}
        BY <2>1, <2>2, <2>3, <2>4, <3>1, WholeChain
      <4> QED BY <3>1, <4>1
    <3>3. Ends(z, n) = {}
      BY <2>4, <3>2 DEF Ends, Walks
    <3>4. Cardinality(Reached(z, n)) < MaxDepth
      BY <2>2, <2>5, <3>1, <3>2
    <3>5. job'.phase = "loop" /\ job'.server = job.server /\ job'.name = job.name
      BY <2>1, <3>1 DEF Job
    <3> QED BY <2>1, <3>3, <3>4, <3>5 DEF WalkInv, WalkAgrees, FoundIsAddress
  <2>8. ASSUME c \notin job.seen, job.turns < MaxDepth, IsEnd(z, c)
        PROVE  Ends(z, n) = {c} /\ Cardinality(Reached(z, n)) <= MaxDepth
    <3>1. Reached(z, n) = Visited
      BY <2>2, <2>3, <2>4, <2>8, WholeChain DEF Visited
    <3>2. Ends(z, n) = {c}
      BY <2>4, <2>8, <3>1 DEF Ends, Walks, Visited
    <3> QED BY <2>2, <2>6, <2>8, <3>1, <3>2
  <2>9. CASE FindRecord
    <3>1. /\ job' = [job EXCEPT !.phase = IF Value \in Address THEN "found" ELSE "broken", !.seen = Visited]
          /\ job.turns < MaxDepth /\ c \notin job.seen /\ Value # None
      BY <2>9 DEF FindRecord, InDepth, IsNew
    <3>2. Ends(z, n) = {c} /\ Cardinality(Reached(z, n)) <= MaxDepth
      BY <2>3, <2>8, <3>1 DEF IsEnd
    <3>3. /\ job'.phase = IF Value \in Address THEN "found" ELSE "broken"
          /\ job'.server = job.server /\ job'.name = job.name /\ job'.current = c
      BY <2>1, <3>1 DEF Job
    <3>4. Value' = Value
      BY <2>1, <3>3 DEF Value
    <3> QED BY <2>1, <2>3, <3>1, <3>2, <3>3, <3>4 DEF WalkInv, WalkAgrees, FoundIsAddress
  <2>10. CASE FollowAlias
    <3>1. /\ job' = [job EXCEPT !.seen = Visited, !.current = Alias, !.turns = job.turns + 1]
          /\ c \notin job.seen /\ Value = None /\ Alias # None
      BY <2>10 DEF FollowAlias, IsNew
    <3>2. ~IsEnd(z, c)
      BY <2>3, <3>1 DEF IsEnd
    <3>3. Alias \in Reached(z, n) /\ Visited \subseteq Reached(z, n)
      BY <2>2, <2>3, <2>4, <3>2, AliasReached DEF Walks, Visited
    <3>4. Walks(z, n, Alias, Visited, job.turns + 1)
      BY <2>3, <2>4, <2>6, <3>1, <3>2, <3>3 DEF Walks, Visited
    <3>5. /\ job'.phase = "walk" /\ job'.server = job.server /\ job'.name = job.name
          /\ job'.current = Alias /\ job'.seen = Visited /\ job'.turns = job.turns + 1
      BY <2>1, <3>1 DEF Job
    <3> QED BY <2>1, <3>4, <3>5 DEF WalkInv, WalkAgrees, FoundIsAddress
  <2>11. CASE FindNothing
    <3>1. /\ job' = [job EXCEPT !.phase = "nothing", !.seen = Visited]
          /\ job.turns < MaxDepth /\ c \notin job.seen /\ Value = None /\ Alias = None
      BY <2>11 DEF FindNothing, InDepth, IsNew
    <3>2. Ends(z, n) = {c} /\ Cardinality(Reached(z, n)) <= MaxDepth
      BY <2>3, <2>8, <3>1 DEF IsEnd
    <3>3. /\ job'.phase = "nothing" /\ job'.server = job.server /\ job'.name = job.name /\ job'.current = c
      BY <2>1, <3>1 DEF Job
    <3> QED BY <2>1, <2>3, <3>1, <3>2, <3>3 DEF WalkInv, WalkAgrees, FoundIsAddress
  <2>12. CASE TooDeep
    <3>1. job' = [job EXCEPT !.phase = "deep"] /\ job.turns = MaxDepth
      BY <2>1, <2>2, <2>12 DEF TooDeep, InDepth
    <3>2. job'.phase = "deep" /\ job'.server = job.server /\ job'.name = job.name
      BY <2>1, <3>1 DEF Job
    <3>3. CASE c \in job.seen
      <4>1. Reached(z, n) = job.seen
        <5>1. Reached(z, n) = job.seen \cup {c}
          BY <2>1, <2>2, <2>3, <2>4, <3>3, WholeChain
        <5> QED BY <3>3, <5>1
      <4>2. Ends(z, n) = {}
        BY <2>4, <4>1 DEF Ends, Walks
      <4> QED BY <2>1, <2>5, <3>1, <3>2, <4>1, <4>2 DEF WalkInv, WalkAgrees, FoundIsAddress
    <3>4. CASE c \notin job.seen
      <4>1. Visited \subseteq Reached(z, n)
        BY <2>4 DEF Walks, Visited
      <4>2. Cardinality(Visited) <= Cardinality(Reached(z, n))
        BY <2>5, <4>1, FS_Subset
      <4>3. Cardinality(Reached(z, n)) \in Nat
        BY <2>5, FS_CardinalityType
      <4>4. Cardinality(Reached(z, n)) > MaxDepth
        BY <2>2, <2>6, <3>1, <3>4, <4>2, <4>3
      <4> QED BY <2>1, <3>2, <4>4 DEF WalkInv, WalkAgrees, FoundIsAddress
    <3> QED BY <3>3, <3>4
  <2> QED BY <1>1, <2>7, <2>9, <2>10, <2>11, <2>12 DEF Turn
<1>2. ASSUME NEW h \in Host, NEW n \in Name, NEW type \in Type, SendQuery(h, n, type)
      PROVE  WalkInv' /\ WalkAgrees' /\ FoundIsAddress'
  <2> DEFINE z == zones[resolver[h]]
  <2>1. /\ job' = [phase |-> "walk", host |-> h, name |-> n, type |-> type, server |-> resolver[h],
                   current |-> n, seen |-> {}, turns |-> 0]
        /\ zones' = zones /\ resolver[h] \in Server
    BY <1>0, <1>2 DEF SendQuery, TypeOK
  <2>2. z \in Zone
    BY <1>0, <2>1, ZonesAssumption DEF TypeOK
  <2>3. Walks(z, n, n, {}, 0)
    BY <2>2, StartReached, FS_EmptySet DEF Walks
  <2> QED BY <2>1, <2>3 DEF WalkInv, WalkAgrees, FoundIsAddress
<1>3. ASSUME job' = NoJob
      PROVE  WalkInv' /\ WalkAgrees' /\ FoundIsAddress'
  BY <1>3 DEF NoJob, WalkInv, WalkAgrees, FoundIsAddress
<1>4. CASE ReceiveAnswer \/ LoseAnswer
  BY <1>3, <1>4 DEF ReceiveAnswer, LoseAnswer
<1>5. ASSUME NEW h \in Host, NEW n \in Name, NEW type \in Type,
             LookupLocally(h, n, type) \/ LookupNoAddress(h)
      PROVE  job' = NoJob
  BY <1>5 DEF LookupLocally, LookupNoAddress
<1>6. CASE Readdress \/ \E i \in Slot : Applied(i) \/ Failed(i)
  BY <1>3, <1>6 DEF Readdress, ReleaseLease, ApplyLease, Applied, Failed
<1>7. CASE Edit
  BY <1>3, <1>7 DEF Edit, EditZone, SetResolver, Load
<1>8. CASE UNCHANGED vars
  <2>1. zones' = zones /\ job' = job
    BY <1>8 DEF vars
  <2>2. WalkInv'
    BY <2>1 DEF WalkInv, Walks
  <2>3. WalkAgrees'
    BY <2>1 DEF WalkAgrees
  <2>4. FoundIsAddress'
    BY <2>1 DEF Typed, FoundIsAddress, Value
  <2> QED BY <2>2, <2>3, <2>4
<1>9. ASSUME NEW h \in Host, LookupNoAddress(h)
      PROVE  job' = NoJob
  BY <1>9 DEF LookupNoAddress
<1> QED BY <1>1, <1>2, <1>3, <1>4, <1>5, <1>6, <1>7, <1>8, <1>9 DEF Next, Lookup

IInv == Typed /\ WalkInv /\ WalkAgrees

LEMMA IInit == Init => IInv
<1> SUFFICES ASSUME Init PROVE IInv
  OBVIOUS
<1>1. TypeOK
  BY DEF Init, TypeOK, Tables, NoNames
<1>2. job = NoJob /\ job.phase = "none"
  BY DEF Init, NoJob
<1> QED BY <1>1, <1>2 DEF IInv, Typed, FoundIsAddress, WalkInv, WalkAgrees

LEMMA IStep == IInv /\ [Next]_vars => IInv'
BY TypeStep, WalkStep DEF IInv, Typed

LEMMA Inductive == Spec => []IInv
BY IInit, IStep, PTL DEF Spec

(* Zones, caches, answers and the query at work have their types in every  *)
(* reachable state.                                                        *)
THEOREM TypeCorrect == Spec => []TypeOK
<1>1. IInv => TypeOK
  BY DEF IInv, Typed
<1> QED BY <1>1, Inductive, PTL

(* DnsZone.resolve is right about every chain of every zone: the address   *)
(* it finds, the record it refuses, the name it misses, the loop it        *)
(* reports and the chain it gives up on are what the zone holds.           *)
THEOREM WalkIsRight == Spec => []WalkAgrees
<1>1. IInv => WalkAgrees
  BY DEF IInv
<1> QED BY <1>1, Inductive, PTL

-------------------------------------------------------------------------------
(* The caches. *)

(* A query for an A record is sent only for a name the cache misses, and   *)
(* no answer is applied while it runs.                                     *)
AskedUncached == job # NoJob /\ job.type = "A" => cache[job.host][job.name] = None

(* Of one answer: what its table holds was served, and what it reports is  *)
(* in it.                                                                  *)
Agrees(r) == r.name # None /\ (r.address # None \/ r.type = "A") => r.cache[r.host][r.name] = r.address
GoodReply(r, history) == r # NoReply => Told(r.cache, history) /\ Agrees(r)

CacheInv ==
  /\ AskedUncached
  /\ Told(cache, served)
  /\ \A i \in Slot : GoodReply(pending[i], served)

LEMMA CacheInvMeans == CacheInv => CachedWasServed /\ ReportsAgree
BY DEF CacheInv, GoodReply, Agrees, CachedWasServed, ReportsAgree

LEMMA ToldGrows ==
  ASSUME NEW tables, NEW history, NEW longer, Told(tables, history), history \subseteq longer
  PROVE  Told(tables, longer)
BY DEF Told

(* A new answer is good if its table is and its report is in the table. *)
LEMMA RespondKeeps ==
  ASSUME TypeOK, CacheInv, NEW h \in Host, NEW n \in Name \cup {None}, NEW type \in Type,
         NEW address \in Address \cup {None}, NEW tables \in Tables,
         NEW assigned \in Server \cup {None, Kept}, Respond(h, n, type, address, tables, assigned),
         served \subseteq served', Told(tables, served'),
         n # None /\ (address # None \/ type = "A") => tables[h][n] = address
  PROVE  \A i \in Slot : GoodReply(pending'[i], served')
<1> DEFINE r == [host |-> h, name |-> n, type |-> type, address |-> address,
                 cache |-> tables, assigned |-> assigned]
<1>1. PICK j \in Slot : pending' = [pending EXCEPT ![j] = r]
  BY DEF Respond
<1> SUFFICES ASSUME NEW i \in Slot PROVE GoodReply(pending'[i], served')
  OBVIOUS
<1>2. CASE i = j
  <2>1. pending'[i] = r
    BY <1>1, <1>2 DEF TypeOK
  <2> QED BY <2>1 DEF GoodReply, Agrees
<1>3. CASE i # j
  <2>1. pending'[i] = pending[i]
    BY <1>1, <1>3 DEF TypeOK
  <2> QED BY <2>1, ToldGrows DEF CacheInv, GoodReply
<1> QED BY <1>2, <1>3

(* The table after an answer of the network: one entry more, of the name   *)
(* asked for and the address served.                                       *)
LEMMA CachedTold ==
  ASSUME TypeOK, job \in Job, Told(cache, served), NEW address \in Address \cup {None},
         NEW history, served \subseteq history, address # None => <<job.name, address>> \in history
  PROVE  /\ Told(Cached(address), history)
         /\ address # None => Cached(address)[job.host][job.name] = address
<1>1. CASE address = None
  BY <1>1, ToldGrows DEF Cached
<1>2. CASE address # None
  <2>1. Cached(address) = [cache EXCEPT ![job.host][job.name] = address]
    BY <1>2 DEF Cached
  <2>2. ASSUME NEW h \in Host, NEW n \in Name
        PROVE  Cached(address)[h][n] = IF h = job.host /\ n = job.name THEN address ELSE cache[h][n]
    BY <2>1 DEF TypeOK, Tables
  <2>3. job.host \in Host /\ job.name \in Name
    BY DEF Job
  <2> QED BY <1>2, <2>2, <2>3 DEF Told
<1> QED BY <1>1, <1>2

LEMMA CacheStep == Typed /\ CacheInv /\ [Next]_vars => CacheInv'
<1> SUFFICES ASSUME Typed, CacheInv, [Next]_vars PROVE CacheInv'
  OBVIOUS
<1>0. TypeOK /\ cache \in Tables /\ Told(cache, served)
  BY DEF Typed, TypeOK, CacheInv
<1>a. ASSUME job' = NoJob, Told(cache', served'), \A i \in Slot : GoodReply(pending'[i], served')
      PROVE  CacheInv'
  BY <1>a DEF CacheInv, AskedUncached
<1>1. ASSUME NEW h \in Host, NEW n \in Name, NEW type \in Type, LookupLocally(h, n, type)
      PROVE  CacheInv'
  <2>1. /\ Respond(h, n, type, FromCache(h, n, type), cache, Kept)
        /\ job' = NoJob /\ cache' = cache /\ served' = served
    BY <1>1 DEF LookupLocally
  <2>2. FromCache(h, n, type) \in Address \cup {None}
    BY <1>0 DEF FromCache, Tables
  <2>3. FromCache(h, n, type) # None \/ type = "A" => cache[h][n] = FromCache(h, n, type)
    BY DEF FromCache
  <2> QED BY <1>0, <1>a, <2>1, <2>2, <2>3, RespondKeeps
<1>2. ASSUME NEW h \in Host, NEW n \in Name, NEW type \in Type, SendQuery(h, n, type)
      PROVE  CacheInv'
  <2>1. /\ job' = [phase |-> "walk", host |-> h, name |-> n, type |-> type, server |-> resolver[h],
                   current |-> n, seen |-> {}, turns |-> 0]
        /\ cache' = cache /\ served' = served /\ pending' = pending
        /\ type = "A" => cache[h][n] = None
    BY <1>2 DEF SendQuery, FromCache
  <2>2. AskedUncached'
    BY <2>1 DEF AskedUncached
  <2> QED BY <2>1, <2>2 DEF CacheInv, Told, GoodReply
<1>3. ASSUME NEW h \in Host, LookupNoAddress(h)
      PROVE  CacheInv'
  <2>1. /\ Respond(h, None, "A", None, cache, Kept)
        /\ job' = NoJob /\ cache' = cache /\ served' = served
    BY <1>3 DEF LookupNoAddress
  <2> QED BY <1>0, <1>a, <2>1, RespondKeeps DEF Type
<1>4. CASE Turn
  <2>1. job \in Job /\ UNCHANGED <<cache, pending, served>>
    BY <1>0, <1>4, TurnWorks
  <2>2. job'.type = job.type /\ job'.host = job.host /\ job'.name = job.name
    BY <1>4, <2>1 DEF Turn, FindLoop, FindRecord, FollowAlias, FindNothing, TooDeep, Job
  <2>3. AskedUncached'
    BY <2>1, <2>2, Marks DEF CacheInv, AskedUncached
  <2> QED BY <2>1, <2>3 DEF CacheInv, Told, GoodReply
<1>5. CASE ReceiveAnswer
  <2>1. PICK address \in Address \cup {None} :
          /\ Cached(address) \in Tables
          /\ Respond(job.host, job.name, job.type, address, Cached(address), Kept)
          /\ served' = IF address = None THEN served ELSE served \cup {<<job.name, address>>}
    BY <1>5, AnswerWorks
  <2>2. /\ job \in Job /\ job' = NoJob /\ cache' = cache
        /\ job.host \in Host /\ job.name \in Name /\ job.type \in Type
    BY <1>5, AnswerWorks DEF Job
  <2>3. served \subseteq served' /\ (address # None => <<job.name, address>> \in served')
    BY <2>1
  <2>4. /\ Told(Cached(address), served')
        /\ address # None => Cached(address)[job.host][job.name] = address
    BY <1>0, <2>2, <2>3, CachedTold
  <2>5. address = None /\ job.type = "A" => Cached(address)[job.host][job.name] = None
    BY <2>2, Marks DEF CacheInv, AskedUncached, Cached
  <2>6. \A i \in Slot : GoodReply(pending'[i], served')
    BY <1>0, <2>1, <2>2, <2>3, <2>4, <2>5, RespondKeeps
  <2> QED BY <1>0, <1>a, <2>2, <2>3, <2>6, ToldGrows
<1>6. CASE LoseAnswer
  <2>1. /\ Respond(job.host, job.name, job.type, None, cache, Kept)
        /\ job \in Job /\ job' = NoJob /\ cache' = cache /\ served' = served
        /\ job.host \in Host /\ job.name \in Name /\ job.type \in Type
    BY <1>0, <1>6 DEF LoseAnswer, TypeOK, Job
  <2>2. job.type = "A" => cache[job.host][job.name] = None
    BY <2>1, Marks DEF CacheInv, AskedUncached
  <2> QED BY <1>0, <1>a, <2>1, <2>2, RespondKeeps
<1>7. ASSUME NEW h \in Host, ReleaseLease(h)
      PROVE  CacheInv'
  <2> DEFINE tables == [cache EXCEPT ![h] = NoNames]
  <2>1. /\ Respond(h, None, "A", None, tables, None)
        /\ job' = NoJob /\ cache' = cache /\ served' = served
    BY <1>7 DEF ReleaseLease
  <2>2. tables \in Tables
    BY <1>0 DEF Tables, NoNames
  <2>3. Told(tables, served)
    BY <1>0 DEF Told, Tables, NoNames
  <2> HIDE DEF tables
  <2> QED BY <1>0, <1>a, <2>1, <2>2, <2>3, RespondKeeps DEF Type
<1>8. ASSUME NEW h \in Host, NEW s \in Server \cup {None}, ApplyLease(h, s)
      PROVE  CacheInv'
  <2>1. /\ Respond(h, None, "A", None, cache, s)
        /\ job' = NoJob /\ cache' = cache /\ served' = served
    BY <1>8 DEF ApplyLease
  <2> QED BY <1>0, <1>a, <2>1, RespondKeeps DEF Type
<1>9. ASSUME NEW i \in Slot, Applied(i) \/ Failed(i)
      PROVE  CacheInv'
  <2>1. /\ job' = NoJob /\ served' = served /\ pending[i] # NoReply
        /\ cache' = cache \/ cache' = pending[i].cache
        /\ pending' = [pending EXCEPT ![i] = NoReply]
    BY <1>9 DEF Applied, Failed
  <2>2. Told(cache', served')
    BY <1>0, <2>1 DEF CacheInv, GoodReply
  <2>3. \A j \in Slot : GoodReply(pending'[j], served')
    BY <1>0, <2>1 DEF CacheInv, GoodReply, TypeOK
  <2> QED BY <1>a, <2>1, <2>2, <2>3
<1>10. CASE Edit
  <2>1. /\ job' = NoJob /\ served' = served /\ pending' = pending
        /\ cache' = cache \/ cache' = [h \in Host |-> NoNames]
    BY <1>10 DEF Edit, EditZone, SetResolver, Load
  <2>2. Told(cache', served')
    BY <1>0, <2>1 DEF Told, NoNames
  <2> QED BY <1>a, <2>1, <2>2 DEF CacheInv
<1>11. CASE UNCHANGED vars
  BY <1>11 DEF vars, CacheInv, AskedUncached, Told, GoodReply
<1> QED BY <1>1, <1>2, <1>3, <1>4, <1>5, <1>6, <1>7, <1>8, <1>9, <1>10, <1>11
        DEF Next, Lookup, Readdress

LEMMA CacheInductive == Spec => []CacheInv
<1>1. Init => CacheInv
  BY DEF Init, CacheInv, AskedUncached, Told, GoodReply, NoNames
<1>2. IInv /\ CacheInv /\ [Next]_vars => CacheInv'
  BY CacheStep DEF IInv
<1> QED BY <1>1, <1>2, Inductive, PTL DEF Spec

(* Every address in a cache, or on its way to one, was given by a server   *)
(* to a question for that name.                                            *)
THEOREM CachesAreTold == Spec => []CachedWasServed
BY CacheInductive, CacheInvMeans, PTL

(* The address a command reports is in the table that comes back with it,  *)
(* and a command that misses a name leaves no address for it.              *)
THEOREM ReportsAreCached == Spec => []ReportsAgree
BY CacheInductive, CacheInvMeans, PTL
================================================================================

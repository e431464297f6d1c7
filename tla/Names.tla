--------------------------------- MODULE Names ---------------------------------
(***************************************************************************)
(* Names: a DNS server that walks CNAMEs through its zone, the resolver    *)
(* cache of a host, and the document that keeps both between commands.     *)
(*                                                                         *)
(* A lookup runs on the copy of the document its request carried, so what  *)
(* the user does meanwhile cannot reach it; here it happens before or      *)
(* after the lookup, while the answer is on its way (pending).  The walk   *)
(* takes one action per turn of the loop in DnsZone.resolve.  The network  *)
(* delivers a query and its answer, or it does not.                        *)
(***************************************************************************)
EXTENDS Naturals, FiniteSets

CONSTANTS
  Host, Server,
  Name,         \* names after normalize_name
  Address,      \* record values that are valid addresses
  Broken,       \* a record value that is not
  None,
  Zones,        \* the zones the user writes
  MaxDepth,     \* MAX_CNAME_DEPTH
  Slot          \* bounds the requests in flight at once

(* The first A and the first CNAME record of a name: later ones of the     *)
(* same type are never read, and MX records lead to no address.            *)
Zone == [a : [Name -> Address \cup {Broken, None}], alias : [Name -> Name \cup {None}]]

ASSUME NameAssumption == IsFiniteSet(Name)
ASSUME DepthAssumption == MaxDepth \in Nat \ {0}
ASSUME NoneAssumption == None \notin Address \cup Name \cup Server
ASSUME BrokenAssumption == Broken \notin Address /\ Broken # None
ASSUME ZonesAssumption == Zones \subseteq Zone

VARIABLES
  zones,     \* config.dns_records of every server
  resolver,  \* config.dns_server of every host
  cache,     \* runtime.dns_cache of every host, in the document
  job,       \* the query a server is working on, or none
  pending,   \* answers on their way to the browser
  served     \* history: the addresses servers gave, with the name asked for

vars == <<zones, resolver, cache, job, pending, served>>

Tables == [Host -> [Name -> Address \cup {None}]]
NoNames == [n \in Name |-> None]

Type == {"A", "CNAME"}

NoJob == [phase |-> "none"]
Job == [phase : {"walk", "found", "broken", "nothing", "loop", "deep"},
        host : Host, name : Name, type : Type, server : Server,
        current : Name, seen : SUBSET Name, turns : 0 .. MaxDepth]

Kept == "kept"   \* the command did not touch the addressing of its host
Reply == [host : Host, name : Name \cup {None}, type : Type, address : Address \cup {None},
          cache : Tables, assigned : Server \cup {None, Kept}]
NoReply == [type |-> "none"]

Init ==
  /\ zones \in [Server -> Zones]
  /\ resolver \in [Host -> Server \cup {None}]
  /\ cache = [h \in Host |-> NoNames]
  /\ job = NoJob
  /\ pending = [i \in Slot |-> NoReply]
  /\ served = {}

-------------------------------------------------------------------------------
(* What the request of host h brings back: every device's tables. *)
Respond(h, n, type, address, tables, assigned) ==
  \E i \in Slot :
    /\ pending[i] = NoReply
    /\ pending' = [pending EXCEPT ![i] =
         [host |-> h, name |-> n, type |-> type, address |-> address,
          cache |-> tables, assigned |-> assigned]]

(* Only a query for an A record looks into the cache. *)
FromCache(h, n, type) == IF type = "A" THEN cache[h][n] ELSE None

(* A lookup that never reaches the wire: the cache knows the name, or the  *)
(* host has no resolver.                                                   *)
LookupLocally(h, n, type) ==
  /\ job = NoJob
  /\ resolver[h] = None \/ FromCache(h, n, type) # None
  /\ Respond(h, n, type, FromCache(h, n, type), cache, Kept)
  /\ UNCHANGED <<zones, resolver, cache, job, served>>

(* nslookup and dig without a resolver stop before they look into the      *)
(* cache; the answer to an MX query holds records but no address.          *)
LookupNoAddress(h) ==
  /\ job = NoJob
  /\ Respond(h, None, "A", None, cache, Kept)
  /\ UNCHANGED <<zones, resolver, cache, job, served>>

(* resolve_name sends its query; the server starts at the name asked for.  *)
SendQuery(h, n, type) ==
  /\ job = NoJob
  /\ resolver[h] # None /\ FromCache(h, n, type) = None
  /\ \E i \in Slot : pending[i] = NoReply
  /\ job' = [phase |-> "walk", host |-> h, name |-> n, type |-> type, server |-> resolver[h],
             current |-> n, seen |-> {}, turns |-> 0]
  /\ UNCHANGED <<zones, resolver, cache, pending, served>>

-------------------------------------------------------------------------------
(* One turn of the loop in DnsZone.resolve.  It never asks which of A and  *)
(* CNAME the query is for.                                                 *)
Value == zones[job.server].a[job.current]
Alias == zones[job.server].alias[job.current]

(* Mutant: one turn too many. *)
InDepthOrMore == job.phase = "walk" /\ job.turns <= MaxDepth

InDepth == job.phase = "walk" /\ job.turns < MaxDepth

IsNew == job.current \notin job.seen
Visited == job.seen \cup {job.current}

FindLoop ==
  /\ InDepth /\ ~IsNew
  /\ job' = [job EXCEPT !.phase = "loop"]

FindRecord ==
  /\ InDepth /\ IsNew /\ Value # None
  /\ job' = [job EXCEPT !.phase = IF Value \in Address THEN "found" ELSE "broken",
                        !.seen = Visited]

FollowAlias ==
  /\ InDepth /\ IsNew /\ Value = None /\ Alias # None
  /\ job' = [job EXCEPT !.seen = Visited, !.current = Alias, !.turns = job.turns + 1]

FindNothing ==
  /\ InDepth /\ IsNew /\ Value = None /\ Alias = None
  /\ job' = [job EXCEPT !.phase = "nothing", !.seen = Visited]

TooDeep ==
  /\ job.phase = "walk" /\ ~InDepth
  /\ job' = [job EXCEPT !.phase = "deep"]

Turn ==
  /\ FindLoop \/ FindRecord \/ FollowAlias \/ FindNothing \/ TooDeep
  /\ UNCHANGED <<zones, resolver, cache, pending, served>>

-------------------------------------------------------------------------------
(* Mutant: the answer is cached under the last name of the chain. *)
CachedEnd(address) ==
  IF address = None THEN cache ELSE [cache EXCEPT ![job.host][job.current] = address]

(* Mutant: only the answer to a query for an A record is cached. *)
CachedForA(address) ==
  IF address = None \/ job.type # "A" THEN cache ELSE [cache EXCEPT ![job.host][job.name] = address]

(* The answer is cached under the name asked for, whatever the type asked. *)
Cached(address) ==
  IF address = None THEN cache ELSE [cache EXCEPT ![job.host][job.name] = address]

ReceiveAnswer ==
  /\ job # NoJob /\ job.phase # "walk"
  /\ LET address == IF job.phase = "found" THEN Value ELSE None
     IN /\ Respond(job.host, job.name, job.type, address, Cached(address), Kept)
        /\ served' = IF address = None THEN served ELSE served \cup {<<job.name, address>>}
  /\ job' = NoJob
  /\ UNCHANGED <<zones, resolver, cache>>

(* The query does not reach a DNS service, or its answer does not come back. *)
LoseAnswer ==
  /\ job # NoJob
  /\ Respond(job.host, job.name, job.type, None, cache, Kept)
  /\ job' = NoJob
  /\ UNCHANGED <<zones, resolver, cache, served>>

(* `dhcp release` forgets the resolver and every name it told the host.    *)
ReleaseLease(h) ==
  /\ job = NoJob
  /\ Respond(h, None, "A", None, [cache EXCEPT ![h] = NoNames], None)
  /\ UNCHANGED <<zones, resolver, cache, job, served>>

(* `dhcp renew` sets the resolver the lease names; the cache stays. *)
ApplyLease(h, s) ==
  /\ job = NoJob
  /\ Respond(h, None, "A", None, cache, s)
  /\ UNCHANGED <<zones, resolver, cache, job, served>>

-------------------------------------------------------------------------------
(* The user and the browser, between the turns of a walk: a walk reads the *)
(* copy its request carried.                                               *)
Applied(i) ==
  /\ job = NoJob /\ pending[i] # NoReply
  /\ cache' = pending[i].cache
  /\ resolver' = IF pending[i].assigned = Kept THEN resolver
                 ELSE [resolver EXCEPT ![pending[i].host] = pending[i].assigned]
  /\ pending' = [pending EXCEPT ![i] = NoReply]
  /\ UNCHANGED <<zones, job, served>>

Failed(i) ==
  /\ job = NoJob /\ pending[i] # NoReply
  /\ pending' = [pending EXCEPT ![i] = NoReply]
  /\ UNCHANGED <<zones, resolver, cache, job, served>>

EditZone(s, n, value, alias) ==
  /\ job = NoJob
  /\ LET z == [zones[s] EXCEPT !.a[n] = value, !.alias[n] = alias]
     IN z \in Zones /\ zones' = [zones EXCEPT ![s] = z]
  /\ UNCHANGED <<resolver, cache, job, pending, served>>

SetResolver(h, s) ==
  /\ job = NoJob
  /\ resolver' = [resolver EXCEPT ![h] = s]
  /\ UNCHANGED <<zones, cache, job, pending, served>>

(* Loading a saved file brings no cache; its zones and resolvers are as    *)
(* good as typed in.                                                       *)
Load ==
  /\ job = NoJob
  /\ cache' = [h \in Host |-> NoNames]
  /\ UNCHANGED <<zones, resolver, job, pending, served>>

Lookup ==
  \E h \in Host :
    \/ \E n \in Name, type \in Type : LookupLocally(h, n, type) \/ SendQuery(h, n, type)
    \/ LookupNoAddress(h)

Readdress == \E h \in Host : ReleaseLease(h) \/ \E s \in Server \cup {None} : ApplyLease(h, s)

Edit ==
  \/ \E s \in Server, n \in Name, value \in Address \cup {Broken, None}, alias \in Name \cup {None} :
       EditZone(s, n, value, alias)
  \/ \E h \in Host, s \in Server \cup {None} : SetResolver(h, s)
  \/ Load

Next ==
  \/ Lookup \/ Turn \/ ReceiveAnswer \/ LoseAnswer \/ Readdress \/ Edit
  \/ \E i \in Slot : Applied(i) \/ Failed(i)

Spec == Init /\ [][Next]_vars

-------------------------------------------------------------------------------
(* Type invariant. *)
TypeOK ==
  /\ zones \in [Server -> Zones]
  /\ resolver \in [Host -> Server \cup {None}]
  /\ cache \in Tables
  /\ job \in Job \cup {NoJob}
  /\ pending \in [Slot -> Reply \cup {NoReply}]
  /\ served \subseteq Name \X Address

(* The names a CNAME chain from n passes through, without walking it: the  *)
(* least set that holds n and the alias of each of its names that has no A *)
(* record.  Ends are the names where a chain may stop.                     *)
IsEnd(z, m) == z.a[m] # None \/ z.alias[m] = None
Closed(z, C) == \A m \in C : IsEnd(z, m) \/ z.alias[m] \in C
Reached(z, n) == {m \in Name : \A C \in SUBSET Name : n \in C /\ Closed(z, C) => m \in C}
Ends(z, n) == {m \in Reached(z, n) : IsEnd(z, m)}

(* The walk tells a good chain, a dangling alias, a broken record, a loop  *)
(* and a chain that is too long apart: it stops at the one end of the      *)
(* chain if that lies within MaxDepth names, it reports a loop only where  *)
(* there is no end, and as too deep only what has more than MaxDepth names *)
(* or is a loop of exactly MaxDepth (DnsZone.resolve).                     *)
WalkAgrees ==
  job # NoJob =>
    LET z == zones[job.server]
        names == Reached(z, job.name)
        ends == Ends(z, job.name)
    IN /\ job.phase \in {"found", "broken", "nothing"} =>
            ends = {job.current} /\ Cardinality(names) <= MaxDepth
       /\ job.phase = "found" => z.a[job.current] \in Address
       /\ job.phase = "broken" => z.a[job.current] = Broken
       /\ job.phase = "nothing" => z.a[job.current] = None
       /\ job.phase = "loop" => ends = {} /\ Cardinality(names) < MaxDepth
       /\ job.phase = "deep" =>
            \/ Cardinality(names) > MaxDepth
            \/ ends = {} /\ Cardinality(names) = MaxDepth

(* What a cache holds for a name, in the document or in an answer on its   *)
(* way, some server gave to a question for that very name: CNAMEs, lost    *)
(* answers, late answers and edits never cross two names (resolve_name).   *)
Told(tables, history) ==
  \A h \in Host, n \in Name : tables[h][n] # None => <<n, tables[h][n]>> \in history

CachedWasServed ==
  /\ Told(cache, served)
  /\ \A i \in Slot : pending[i] # NoReply => Told(pending[i].cache, served)

(* An address a command reports is the one its host will use next time:    *)
(* the table that comes back with the answer holds it; and a query for an  *)
(* A record that reports no address leaves none behind (resolve_name).     *)
ReportsAgree ==
  \A i \in Slot : pending[i] # NoReply =>
    LET r == pending[i]
    IN r.name # None /\ (r.address # None \/ r.type = "A") => r.cache[r.host][r.name] = r.address
================================================================================

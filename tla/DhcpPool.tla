------------------------------- MODULE DhcpPool -------------------------------
(***************************************************************************)
(* The address pool of a DHCP server and its lease table: the pure part of *)
(* simulation/dhcp/pool.py.  A pool is what the server's configuration     *)
(* says; a lease table maps every client MAC to the address it holds, or   *)
(* to None.  Addresses are numbers (ip_to_int is an order isomorphism), a  *)
(* client is named by its normalised MAC.                                  *)
(*                                                                         *)
(* Abstracted: the netmask, gateway and DNS server a lease carries along.  *)
(* "enabled" stands for the whole is_usable test (enabled, both ends valid *)
(* addresses, a valid mask).                                               *)
(***************************************************************************)
EXTENDS Integers

CONSTANTS
  Client,       \* the MACs that may ask
  None,         \* no address
  RangeLimit    \* iter_range's cap on the addresses of one pool (4096)

ASSUME RangeLimitAssumption == RangeLimit \in Nat \ {0}
ASSUME NoneAssumption == None \notin Nat

Pool == [enabled : BOOLEAN, start : Nat, end : Nat]
LeaseTable == [Client -> Nat \cup {None}]

NoLeases == [c \in Client |-> None]

(* DhcpPool.addresses: start to end inclusive, capped; empty when reversed. *)
Addresses(p) ==
  {a \in p.start .. p.end : a < p.start + RangeLimit}

(* DhcpPool.taken *)
Taken(leases) == {leases[c] : c \in Client} \ {None}

(* Mutant: the scan forgets which addresses are held. *)
FreeOrNot(p, leases) == Addresses(p)

Free(p, leases) == Addresses(p) \ Taken(leases)

(* The first candidate of allocate's scan that nobody holds: a set of one  *)
(* address, or of none when the pool is exhausted.                         *)
FirstFree(p, leases) ==
  {a \in Free(p, leases) : \A b \in Free(p, leases) : a <= b}

(* Mutant: a lease outside the configured range is not handed back. *)
AllocateInRange(p, leases, c) ==
  IF p.enabled /\ leases[c] \notin Addresses(p) /\ FirstFree(p, leases) # {}
    THEN {[leases EXCEPT ![c] = a] : a \in FirstFree(p, leases)}
    ELSE {leases}

(* The lease table DhcpPool.allocate leaves behind (a set of one): an      *)
(* existing lease is handed back as it is, whatever the pool's range is by *)
(* now, and a pool that is unusable or exhausted changes nothing.          *)
Allocate(p, leases, c) ==
  IF p.enabled /\ leases[c] = None /\ FirstFree(p, leases) # {}
    THEN {[leases EXCEPT ![c] = a] : a \in FirstFree(p, leases)}
    ELSE {leases}

(* allocate's other result: is there a lease to hand out? *)
Served(p, table, c) == p.enabled /\ table[c] # None

(* DhcpPool.release *)
Release(leases, c) == [leases EXCEPT ![c] = None]

(* No address is leased twice by the same table. *)
Injective(leases) ==
  \A c, d \in Client : c # d /\ leases[c] # None => leases[c] # leases[d]
===============================================================================

-------------------------------- MODULE MCNames --------------------------------
(***************************************************************************)
(* Three names are the fewest with a chain longer than MaxDepth = 2, and   *)
(* two turns the fewest in which a loop can be met.                        *)
(***************************************************************************)
EXTENDS Names, TLC

(* Zones in which at most one name has an A record: two or more only       *)
(* shorten chains that are there without them.                             *)
OneAddressZones ==
  {z \in Zone : \A m, n \in Name : z.a[m] # None /\ z.a[n] # None => m = n}

Symmetry == Permutations(Name)
================================================================================

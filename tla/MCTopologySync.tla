---------------------------- MODULE MCTopologySync ----------------------------
(***************************************************************************)
(* A pool of one address, clients c1 and c2, one typed address; one user   *)
(* who keeps to the terminal and the canvas, one who does everything that  *)
(* replaces or answers late.                                               *)
(***************************************************************************)
EXTENDS TopologySync, TLC

(* Clients and slots are interchangeable. *)
Symmetry == Permutations(Client) \cup Permutations(Slot)

OneAddress == [enabled |-> TRUE, start |-> 1, end |-> 1]

AllHabits == {{"type", "remove", "mission"}, {"remove", "test", "file", "mission"}}
===============================================================================

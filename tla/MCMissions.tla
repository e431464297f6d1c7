------------------------------ MODULE MCMissions ------------------------------
(***************************************************************************)
(* Three missions: m1, then m2 with a network of its own, then m3, which   *)
(* builds on both.                                                         *)
(***************************************************************************)
EXTENDS Missions, TLC

CONSTANTS m1, m2, m3

TwoGoalsFirst == (m1 :> 2) @@ (m2 :> 1) @@ (m3 :> 1)
OneAfterTheOther == (m1 :> {}) @@ (m2 :> {m1}) @@ (m3 :> {m1, m2})
Worth == (m1 :> 50) @@ (m2 :> 100) @@ (m3 :> 100)
OwnNetwork == (m1 :> {}) @@ (m2 :> {[devices |-> TRUE, met |-> {}]}) @@ (m3 :> {})
===============================================================================

----------------------------- MODULE MCEthernetLan -----------------------------
(***************************************************************************)
(* Two small LANs of two switches: one whose cables the user moves, with   *)
(* and without a loop, and one whose switches are cabled twice.            *)
(***************************************************************************)
EXTENDS LanTruth, TLC

CONSTANTS h1, h2, h3, s1, s2

TwoSwitches == (s1 :> <<"a1", "a2", "a3">>) @@ (s2 :> <<"b1", "b2", "b3">>)

(* h1 on s1, h3 on s2, h2 on either, and a cable between the switches or,  *)
(* while h2 is unplugged, two.                                             *)
MovingCables ==
  {{h1, "a1"}, {h3, "b1"}, {h2, "a2"}, {h2, "b2"}, {"a3", "b3"}, {"a2", "b2"}}

(* h1 on s1, h2 on s2, two cables between the switches. *)
LoopCables == {{h1, "a1"}, {h2, "b1"}, {"a2", "b2"}, {"a3", "b3"}}

(* Any two of the hosts can ping each other, the third has no address. *)
PairsAddressed ==
  {(h1 :> "ip1") @@ (h2 :> "ip2") @@ (h3 :> None),
   (h1 :> "ip1") @@ (h2 :> None)  @@ (h3 :> "ip2"),
   (h1 :> None)  @@ (h2 :> "ip1") @@ (h3 :> "ip2")}
TwoAddressed == {(h1 :> "ip1") @@ (h2 :> "ip2")}
===============================================================================

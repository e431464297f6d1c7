------------------------------ MODULE MCPlayback ------------------------------
(***************************************************************************)
(* The canvas starts empty or with two devices and a cable, made by a      *)
(* counter that started at 0; the page's own starts at 0 again, or above.  *)
(* One mission with two cabled devices, numbered as the shipped ones are.  *)
(***************************************************************************)
EXTENDS Playback

Pair ==
  [devices |-> [p \in {0, 1} |-> [id |-> 2 * p + 1, ports |-> [e \in {0} |-> 2 * p + 2]]],
   links |-> {[id |-> 5, a |-> <<1, 0>>, b |-> <<3, 0>>]}]

Kept == {Nothing, Pair}

Mission ==
  [devices |-> [p \in {0, 1} |-> [id |-> p, ports |-> [e \in {0} |-> p]]],
   links |-> {[id |-> 0, a |-> <<0, 0>>, b |-> <<1, 0>>]}]

OneMission == {Mission}
================================================================================

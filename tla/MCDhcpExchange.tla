---------------------------- MODULE MCDhcpExchange ----------------------------
(***************************************************************************)
(* Small instances of DhcpExchange: one server whose pool the user moves,  *)
(* shrinks and switches off, and two servers whose pools are apart.        *)
(***************************************************************************)
EXTENDS DhcpExchange

CONSTANTS s1, s2

PoolOf(first, last, on) == [enabled |-> on, start |-> first, end |-> last]

(* One server: the pool may be moved, shrunk, reversed or switched off. *)
OneServer == [s \in {s1} |->
  {PoolOf(1, 2, TRUE), PoolOf(2, 3, TRUE), PoolOf(2, 2, TRUE),
   PoolOf(1, 2, FALSE), PoolOf(2, 1, TRUE)}]

(* Two servers, addresses apart; the second may be switched off. *)
TwoServers == [s \in {s1, s2} |->
  IF s = s1 THEN {PoolOf(1, 2, TRUE)} ELSE {PoolOf(3, 4, TRUE), PoolOf(3, 3, FALSE)}]
===============================================================================

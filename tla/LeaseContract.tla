----------------------------- MODULE LeaseContract ----------------------------
(***************************************************************************)
(* What a set of DHCP servers promises, without messages: servers reserve  *)
(* addresses for clients, a client takes an address some server reserved   *)
(* for it, and a reservation is dropped only once the client has given the *)
(* address up.  DhcpExchange (the four-message exchange over a lossy,      *)
(* duplicating wire) is checked and proved to implement it.                *)
(*                                                                         *)
(* Nothing here bounds how long a reservation outlives its client: the     *)
(* simulator's leases never expire.                                        *)
(***************************************************************************)
EXTENDS Integers

CONSTANTS Client, Server, None

VARIABLES
  reserved,  \* reserved[s][c]: the address server s keeps for client c
  bound      \* bound[c]: the address client c uses

contractVars == <<reserved, bound>>

ContractInit ==
  /\ reserved = [s \in Server |-> [c \in Client |-> None]]
  /\ bound = [c \in Client |-> None]

(* A server sets an address aside that it keeps for nobody else. *)
Reserve(s, c) ==
  /\ reserved[s][c] = None
  /\ reserved'[s][c] \in Nat
  /\ \A d \in Client : reserved[s][d] # reserved'[s][c]
  /\ reserved' = [reserved EXCEPT ![s][c] = reserved'[s][c]]
  /\ UNCHANGED bound

(* A client starts to use an address a server set aside for it. *)
Bind(c) ==
  /\ \E s \in Server :
       /\ reserved[s][c] # None
       /\ bound' = [bound EXCEPT ![c] = reserved[s][c]]
  /\ UNCHANGED reserved

(* A client stops using its address. *)
Unbind(c) ==
  /\ bound' = [bound EXCEPT ![c] = None]
  /\ UNCHANGED reserved

(* A server forgets a client that uses no address any more. *)
Forget(s, c) ==
  /\ bound[c] = None
  /\ reserved' = [reserved EXCEPT ![s][c] = None]
  /\ UNCHANGED bound

ContractNext ==
  \E c \in Client :
    \/ Bind(c)
    \/ Unbind(c)
    \/ \E s \in Server : Reserve(s, c) \/ Forget(s, c)

Contract == ContractInit /\ [][ContractNext]_contractVars
===============================================================================

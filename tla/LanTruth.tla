------------------------------- MODULE LanTruth -------------------------------
(***************************************************************************)
(* What a LAN without a loop owes its user, stated over the graph of live  *)
(* cables: tables that point the right way, pings that tell the truth, and *)
(* no storm.  The graph is described by the sets that are closed under its *)
(* edges.                                                                  *)
(***************************************************************************)
EXTENDS EthernetLan

Device == Host \cup Switch
PortsOfDevice(d) == IF d \in Host THEN {d} ELSE PortsOf(d)
Touches(c, d) == c \cap PortsOfDevice(d) # {}

(* Every cable of cables leads from a device of the set only back into it. *)
Closed(devices, cables) ==
  \A c \in cables, d \in devices, e \in Device :
    Touches(c, d) /\ Touches(c, e) => e \in devices

ConnectedBy(cables, d, e) ==
  \A devices \in SUBSET Device : d \in devices /\ Closed(devices, cables) => e \in devices

(* Connected[cables]: the pairs of hosts these cables connect. *)
Connected ==
  [cables \in SUBSET Cable |->
     {hosts \in Host \X Host : ConnectedBy(cables, hosts[1], hosts[2])}]

(* Behind[cables][s][p]: the hosts switch s reaches when p is the only one *)
(* of its ports it may use.                                                *)
Behind ==
  [cables \in SUBSET Cable |-> [s \in Switch |-> [p \in PortsOf(s) |->
     {h \in Host : ConnectedBy({c \in cables : Touches(c, s) => p \in c}, s, h)}]]]

(* Between[cables]: the devices, switches and hosts where these cables     *)
(* lead from the one to the other, if at all, only through the switch.     *)
Between ==
  [cables \in SUBSET Cable |->
     {way \in Device \X Switch \X Host :
        ~ConnectedBy({c \in cables : ~Touches(c, way[2])}, way[1], way[3])}]

(* The cables that touch a device. *)
At(cables, d) == {c \in cables : Touches(c, d)}

(* A cable from a device to itself, or some of the cables such that every  *)
(* device they touch is touched twice.                                     *)
Looped ==
  {cables \in SUBSET Cable :
     \/ \E c \in cables, d \in Device : c \subseteq PortsOfDevice(d)
     \/ \E cs \in (SUBSET cables) \ {{}} : \A d \in Device :
          At(cs, d) # {} => Cardinality(At(cs, d)) >= 2}

-------------------------------------------------------------------------------
(* engine.run's message "A switching loop floods frames forever": the hop  *)
(* limit stops the traffic only where there is a loop.                     *)
StormMeansLoop == storm => live \in Looped

(* Switch s does not know MAC m, or has it on the port that m is behind.   *)
Right(s, m) == mac[s][m] = None \/ m \in Behind[live][s][mac[s][m]]

(* switch.py _learn: without a loop of live cables, every entry is right   *)
(* when it is written, whatever the frame was led by: floods, nested       *)
(* loops, entries of other switches that are wrong.  Entries never age, so *)
(* one that was right is wrong once the host is cabled to another port.    *)
LearnsTruth ==
  [][live \notin Looped =>
       \A s \in Switch, m \in Host : mac'[s][m] # mac[s][m] => Right(s, m)']_vars

(* arp/table.py, never expired: while addresses stay, every cached MAC is  *)
(* that of the host with the address.                                      *)
ArpTableTruthful ==
  \A h \in Host, i \in Ip : arp[h][i] # None => ip[arp[h][i]] = i

(* Some host with the address is connected to the one that pings it. *)
TargetConnected ==
  \E h \in Host : ip[h] = ping.target /\ <<ping.host, h>> \in Connected[live]

AnsweredMeansConnected == ping.sent \in inbox => TargetConnected

(* No switch on the way from the device to the host has the host on a port *)
(* that it is not behind.                                                  *)
Open(d, h) == \A s \in Switch : <<d, s, h>> \in Between[live] => Right(s, h)

(* Some host with the address is connected, and the way to it is open. *)
TargetReachable ==
  \E h \in Host : /\ ip[h] = ping.target
                  /\ <<ping.host, h>> \in Connected[live]
                  /\ Open(ping.host, h)

(* run_ping: without a loop of live cables, a request is answered exactly  *)
(* when the host that has the address is connected to the one that asks,   *)
(* unless a switch between them has it on a port it is not behind: entries *)
(* never age (switch.py), and the editor leaves them in place when it      *)
(* moves a host to another port.  Nothing else that hosts and switches     *)
(* hold from earlier commands can cost a reply, and nothing opens the way  *)
(* while the request is lost.                                              *)
PingTellsTruth ==
  ping # NoPing /\ stack = <<>> /\ ping.sent > 0 /\ live \notin Looped =>
    (ping.sent \in inbox <=> TargetReachable)
===============================================================================

-------------------------------- MODULE PathTruth --------------------------------
(***************************************************************************)
(* What a command reports about the path, against what the packets met.    *)
(***************************************************************************)
EXTENDS RoutedPath

LastLine == report[Len(report)]
Fates == {f.what : f \in fates}

(* The ways a packet is lost on its way, there or back. *)
Lost == {"denied", "unsent", "not-forwarded", "error-dropped", "swallowed", "kept", "storm"}

Inbox == [kind : Kind, from : Addr]
LineType == [what : Kind \cup {"silent", "stuck"}, who : Addr \cup {None}]

(* Every variable holds a value the program could hold: a packet goes out  *)
(* of an interface to another, a NAT binding has a port, whatever the      *)
(* protocol (router.py:97).                                                *)
TypeOK ==
  /\ world \in World
  /\ command \in Command \cup {NoCommand}
  /\ wire \subseteq Flight
  /\ waiting \in BOOLEAN
  /\ inbox \subseteq Inbox
  /\ report \in Seq(LineType)
  /\ nat \in [Router -> Seq(NatEntry)]
  /\ established \in [Firewall -> SUBSET Flow]
  /\ hops \in Nat
  /\ storm \in BOOLEAN
  /\ ruled \in [Firewall -> SUBSET Flow]

(* firewall.py:81: a firewall lets return traffic pass unchecked only for  *)
(* a conversation whose other direction, or whose first packet, its rules  *)
(* let out.                                                                *)
ConversationsWereAllowed ==
  \A f \in Firewall : \A flow \in established[f] :
    flow \in ruled[f] \/ Reverse(flow) \in ruled[f]

(* router.py:384: what leaves by the outside interface of a translating    *)
(* router carries an address of the router itself, whichever of its code   *)
(* paths sent it.                                                          *)
NatHidesHosts ==
  \A x \in wire :
    Owner[x.from] \in Router /\ world.nat[Owner[x.from]] = x.from
      => x.pk.src \in AddressesOf(Owner[x.from])

(* router.py:135: bindings are found by protocol and port alone, yet a     *)
(* packet that is no error is only ever handed to the device whose command *)
(* it answers.                                                             *)
NatHandsToStarter ==
  \A x \in wire :
    LET r == Owner[x.to]
    IN r \in Router /\ x.on = WireOf[x.to] /\ x.pk.kind \notin Errors =>
         LET found == Bindings(r, x.to, x.pk)
         IN found # {} => nat[r][First(found)].inside \in AddressesOf(command.at)

(* No router of the network translates: every packet keeps the addresses   *)
(* it was sent with.                                                       *)
Untranslated == \A r \in Router : world.nat[r] = None

(* The command's target is the public address of a router that translates, *)
(* so that a probe may be handed on to a host behind it.                   *)
PublicTarget ==
  \E r \in Router : world.nat[r] # None /\ command.target = AddrOf[world.nat[r]]

(* commands/tools.py:143: line n of a traceroute names the device n hops   *)
(* along the route, and the target only when the route reaches it there.   *)
Reached(n) == Walk(world, command.at, command.target, n)[n]
ExpiredNamesPath ==
  \A n \in DOMAIN report :
    command.tool = "trace" /\ report[n].what = "expired" =>
      \E d \in Reached(n) : report[n].who \in AddressesOf(d)
ReplyNamesPath ==
  \A n \in DOMAIN report :
    command.tool = "trace" /\ report[n].what = "reply" =>
      \E d \in Reached(n) : command.target \in AddressesOf(d)
TraceNamesPath == ExpiredNamesPath /\ ReplyNamesPath

(* What a packet met that makes a command hear this. *)
Cause(heard) ==
  CASE heard = "reply"                   -> "echoed"
    [] heard \in {"syn-ack", "datagram"} -> "accepted"
    [] heard \in {"rst", "no-port"}      -> "refused"
    [] OTHER                             -> heard

(* connectivity.py:1, ping.py:5: a verdict is what the probe met.  A reply *)
(* or an accepted connection means that the target's device answered, a    *)
(* refusal that it listens on no such port, an unreachable that a router   *)
(* said so of this target; silence means that something was lost.  A UDP   *)
(* service that takes the probe is the exception: FilteredMeansLost.       *)
Concluded == report # <<>> /\ ~waiting
SilenceMeansLoss ==
  Concluded /\ LastLine.what = "silent" /\ command.tool # "udp" => Fates \cap Lost # {}
HonestAbout(heard) ==
  Concluded /\ LastLine.what \in heard => Fate(Cause(LastLine.what), command.target) \in fates
VerdictHonest == SilenceMeansLoss /\ HonestAbout(Kind)

(* engine.py:29: only a command whose packets go in circles exhausts the   *)
(* hop budget.                                                             *)
StormMeansRoutingLoop ==
  storm => \E a \in Addr : GoesInCircles(world, a)

(* connectivity.py:7: filtered means that something in the middle          *)
(* swallowed the probe, or what came back.                                 *)
FilteredMeansLost ==
  Concluded /\ LastLine.what = "silent" => Fates \cap Lost # {}
===============================================================================

------------------------------- MODULE Missions -------------------------------
(***************************************************************************)
(* What the browser asks the backend about the document besides commands:  *)
(* whether a mission's objectives are met (hooks/useChallengeCheck.ts,     *)
(* stores/progressStore.ts, challenges/validator.py) and what is wrong     *)
(* with the configuration (hooks/useTopologyValidation.ts).  Both answers  *)
(* are late; only the second is cancelled when the document has changed.   *)
(*                                                                         *)
(* A document is reduced to whether it has devices and which objectives it *)
(* meets; an objective is a mission and its place in the mission's list.   *)
(* A check runs the engine on the document it was sent and throws what the *)
(* engine learned away, so it changes nothing but the progress.            *)
(***************************************************************************)
EXTENDS Integers, FiniteSetsExt

CONSTANTS
  Mission, None,
  Goals,     \* Goals[m]: how many objectives mission m has
  Requires,  \* Requires[m]: the missions to be completed first
  Xp,        \* Xp[m]: what completing m is worth
  Networks   \* Networks[m]: the networks m may start with; none: any canvas

Objective == UNION {{m} \X (1 .. Goals[m]) : m \in Mission}
EmptyCanvas == [devices |-> FALSE, met |-> {}]

(* Every objective names a device: an empty canvas meets none of them. *)
Document == [devices : {TRUE}, met : SUBSET Objective] \cup {EmptyCanvas}

ASSUME NoneAssumption == None \notin Mission
ASSUME GoalsAssumption == Goals \in [Mission -> Nat]
ASSUME RequiresAssumption == Requires \in [Mission -> SUBSET Mission]
ASSUME XpAssumption == Xp \in [Mission -> Nat]
ASSUME NetworksAssumption == Networks \in [Mission -> SUBSET Document]

VARIABLES
  doc,        \* the topology store
  active,     \* progressStore.activeChallengeId
  completed,  \* progressStore.completed
  xp,         \* progressStore.xp
  objectives, \* progressStore.objectives: the places of those shown as met
  checking,   \* progressStore.checking
  check,      \* the check in flight, with the answer it will bring, or none
  award,      \* progressStore.award
  seen,       \* history: objectives some check of their mission found met
  timer,      \* the 400 ms of useTopologyValidation are running
  asking,     \* validations in flight
  badges      \* validationStore: do the issues shown describe the document?

progress == <<active, completed, xp, objectives, checking, check, award, seen>>
validation == <<timer, asking, badges>>
vars == <<doc, progress, validation>>

Init ==
  /\ doc = EmptyCanvas
  /\ active = None
  /\ completed = {}
  /\ xp = 0
  /\ objectives = {}
  /\ checking = FALSE
  /\ check = None
  /\ award = None
  /\ seen = {}
  /\ timer = FALSE
  /\ asking = {}
  /\ badges = "current"

-------------------------------------------------------------------------------
(* isLocked *)
Locked(m, done) == ~(Requires[m] \subseteq done)

(* validate: the places of m's objectives the document meets. *)
Met(m, d) == {i \in 1 .. Goals[m] : <<m, i>> \in d.met}

(* Mutant: some objective met is enough. *)
CompleteAny(m, met) == met # {}

(* validate: a mission without objectives is never complete. *)
Complete(m, met) == Goals[m] > 0 /\ met = 1 .. Goals[m]

(* Mutant: every mission that builds on this one is announced. *)
UnlockedSoon(m) == {c \in Mission : m \in Requires[c]}

(* useChallengeCheck: the missions that completing m makes available. *)
Unlocked(m) ==
  {c \in Mission : m \in Requires[c] /\ Locked(c, completed) /\ ~Locked(c, completed \cup {m})}

(* Mutant: validations in flight are not cancelled. *)
OvertakenOnly(v) == [current |-> FALSE, cancelled |-> v.cancelled]

(* The cleanup of useTopologyValidation. *)
Overtaken(v) == [current |-> FALSE, cancelled |-> TRUE]

(* The store was written: the effect is cleaned up and runs again. *)
DocumentChanged ==
  /\ timer' = doc'.devices
  /\ asking' = {Overtaken(v) : v \in asking}
  /\ badges' = IF doc'.devices THEN "stale" ELSE "current"

-------------------------------------------------------------------------------
(* Mutant: a mission opens although its prerequisites are missing. *)
StartAnyMission(m) ==
  /\ active' = m
  /\ objectives' = {}
  /\ UNCHANGED <<doc, completed, xp, checking, check, award, seen, validation>>

(* ChallengeList.start: a mission's own network replaces the canvas. *)
StartMission(m) ==
  /\ ~Locked(m, completed)
  /\ active' = m
  /\ objectives' = {}
  /\ \/ Networks[m] = {} /\ UNCHANGED <<doc, validation>>
     \/ \E d \in Networks[m] : doc' = d /\ DocumentChanged
  /\ UNCHANGED <<completed, xp, checking, check, award, seen>>

(* Any write to the topology store, whoever makes it. *)
Edit(d) ==
  /\ doc' = d
  /\ DocumentChanged
  /\ UNCHANGED progress

(* ChallengeBriefing's button and useChallengeCheck up to its await. *)
CheckObjectives ==
  /\ active # None
  /\ ~checking
  /\ checking' = TRUE
  /\ check' = [mission |-> active, met |-> Met(active, doc)]
  /\ seen' = seen \cup ({active} \X Met(active, doc))
  /\ UNCHANGED <<doc, active, completed, xp, objectives, award, validation>>

(* Mutant: a mission completed again is paid again. *)
RewardAgain(m, met) ==
  IF Complete(m, met)
    THEN /\ xp' = xp + Xp[m]
         /\ completed' = completed \cup {m}
         /\ award' = [mission |-> m, unlocked |-> Unlocked(m)]
    ELSE UNCHANGED <<xp, completed, award>>

(* completeChallenge: replaying a finished mission earns nothing. *)
Reward(m, met) ==
  IF Complete(m, met) /\ m \notin completed
    THEN /\ xp' = xp + Xp[m]
         /\ completed' = completed \cup {m}
         /\ award' = [mission |-> m, unlocked |-> Unlocked(m)]
    ELSE UNCHANGED <<xp, completed, award>>

(* The finally of useChallengeCheck. *)
CheckSettled == check' = None /\ checking' = FALSE

(* useChallengeCheck after its await: whichever mission is active by now,  *)
(* the results are shown as its objectives.                                *)
CheckAnswered ==
  /\ check # None
  /\ objectives' = check.met
  /\ Reward(check.mission, check.met)
  /\ CheckSettled
  /\ UNCHANGED <<doc, active, seen, validation>>

CheckFailed ==
  /\ check # None
  /\ CheckSettled
  /\ UNCHANGED <<doc, active, completed, xp, objectives, award, seen, validation>>

DismissAward ==
  /\ award # None
  /\ award' = None
  /\ UNCHANGED <<doc, active, completed, xp, objectives, checking, check, seen, validation>>

-------------------------------------------------------------------------------
(* useTopologyValidation's timeout: the document of this moment is sent. *)
AskValidation ==
  /\ timer
  /\ timer' = FALSE
  /\ asking' = asking \cup {[current |-> TRUE, cancelled |-> FALSE]}
  /\ UNCHANGED <<doc, progress, badges>>

(* An answer, which counts unless the effect was cleaned up meanwhile.     *)
(* Overtaken validations are alike, so one of them may leave another.      *)
ValidationAnswered(v) ==
  /\ badges' = IF v.cancelled THEN badges ELSE IF v.current THEN "current" ELSE "stale"
  /\ asking' \in {asking \ {v}, IF v.current THEN asking \ {v} ELSE asking}
  /\ UNCHANGED <<doc, progress, timer>>

(* The backend is gone: badges stay as they are. *)
ValidationFailed(v) ==
  /\ asking' = asking \ {v}
  /\ UNCHANGED <<doc, progress, timer, badges>>

(* The page is loaded again: what localStorage holds survives. *)
ReloadPage ==
  /\ objectives' = {}
  /\ checking' = FALSE
  /\ check' = None
  /\ award' = None
  /\ timer' = doc.devices
  /\ asking' = {}
  /\ badges' = IF doc.devices THEN "stale" ELSE "current"
  /\ UNCHANGED <<doc, active, completed, xp, seen>>

Next ==
  \/ \E m \in Mission : StartMission(m)
  \/ \E d \in Document : Edit(d)
  \/ CheckObjectives
  \/ CheckAnswered
  \/ CheckFailed
  \/ DismissAward
  \/ AskValidation
  \/ \E v \in asking : ValidationAnswered(v) \/ ValidationFailed(v)
  \/ ReloadPage

Spec == Init /\ [][Next]_vars

-------------------------------------------------------------------------------
Check == [mission : Mission, met : SUBSET Nat]
Award == [mission : Mission, unlocked : SUBSET Mission]

TypeOK ==
  /\ doc \in Document
  /\ active \in Mission \cup {None}
  /\ completed \subseteq Mission
  /\ xp \in Nat
  /\ objectives \subseteq Nat \ {0}
  /\ checking \in BOOLEAN
  /\ check \in Check \cup {None}
  /\ award \in Award \cup {None}
  /\ seen \subseteq Objective
  /\ timer \in BOOLEAN
  /\ asking \subseteq [current : BOOLEAN, cancelled : BOOLEAN]
  /\ badges \in {"current", "stale"}

(* completeChallenge "Replaying a finished mission must not farm XP":      *)
(* however checks, missions and page reloads overlap, XP is what the       *)
(* completed missions are worth.                                           *)
XpEarnedOnce == xp = MapThenSumSet(LAMBDA m : Xp[m], completed)

(* challengeStore.ts "A challenge unlocks once every prerequisite has been *)
(* completed": no mission is ever completed before those it builds on,     *)
(* although a check that is answered late looks at no prerequisites.       *)
PrerequisitesFirst == \A m \in completed : Requires[m] \subseteq completed

(* validator.py: a mission counts as completed only if every objective of  *)
(* that mission was met in a document that was checked for that mission,   *)
(* whichever mission was active when the answer came.                      *)
CompletedWereMet ==
  \A m \in completed : Goals[m] > 0 /\ {m} \X (1 .. Goals[m]) \subseteq seen

(* useChallengeCheck: an award announces exactly the missions that could   *)
(* not be started before it and can be started after it.                   *)
UnlocksAnnounced ==
  [][award' \notin {award, None}
       => award'.unlocked = {m \in Mission : Locked(m, completed) /\ ~Locked(m, completed')}]_vars

(* useTopologyValidation: an answer never overwrites the badges with what  *)
(* was wrong with an earlier document.                                     *)
BadgesNeverGoBack ==
  [][badges' = "stale" /\ badges = "current" => doc'.devices /\ timer']_vars

(* validator.py "There is no shortcut that marks a ping objective complete *)
(* because the wiring looks right": an objective is ticked in the briefing *)
(* of a mission only if a check of that mission found it met.              *)
TicksAreVerified ==
  active # None => \A i \in objectives \cap (1 .. Goals[active]) : <<active, i>> \in seen
===============================================================================

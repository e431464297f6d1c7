----------------------------- MODULE MissionProofs -----------------------------
(***************************************************************************)
(* Missions, for any missions, prerequisites and objectives: prerequisites *)
(* come first, completed missions were met, XP is the sum of what they     *)
(* earn, awards announce what they unlock, and badges never go back to an  *)
(* earlier document.                                                       *)
(*                                                                         *)
(* A check may be answered when its mission is no longer active, so the    *)
(* invariant speaks of the mission checked: it was open when the button    *)
(* was pressed and stays open, because completed missions only grow, and   *)
(* what its answer will report has already been recorded as seen.          *)
(***************************************************************************)
EXTENDS Missions, FiniteSetTheorems, TLAPS

ActiveIsOpen == active # None => ~Locked(active, completed)

CheckIsHonest ==
  check # None =>
    /\ ~Locked(check.mission, completed)
    /\ check.met \subseteq 1 .. Goals[check.mission]
    /\ {check.mission} \X check.met \subseteq seen

Counting == [current |-> TRUE, cancelled |-> FALSE]
Ignored == [current |-> FALSE, cancelled |-> TRUE]
CancelledWhenOvertaken == asking \subseteq {Counting, Ignored}

IInv ==
  /\ TypeOK
  /\ ActiveIsOpen
  /\ CheckIsHonest
  /\ CancelledWhenOvertaken
  /\ PrerequisitesFirst
  /\ CompletedWereMet

LEMMA ValidationType ==
  {Counting, Ignored} \subseteq [current : BOOLEAN, cancelled : BOOLEAN]
  BY DEF Counting, Ignored

LEMMA DevicesType == \A d \in Document : d.devices \in BOOLEAN
<1>. SUFFICES ASSUME NEW d \in Document PROVE d.devices \in BOOLEAN
  OBVIOUS
<1>1. CASE d = EmptyCanvas
  <2>1. d.devices = FALSE
    BY <1>1 DEF EmptyCanvas
  <2>. QED BY <2>1
<1>2. CASE d \in [devices : {TRUE}, met : SUBSET Objective]
  <2>1. d.devices = TRUE
    BY <1>2
  <2>. QED BY <2>1
<1>. QED BY <1>1, <1>2 DEF Document

(* An answer that completes a mission leaves a type-correct progress.      *)
LEMMA RewardType ==
  ASSUME TypeOK, NEW m \in Mission, NEW met, Reward(m, met)
  PROVE  /\ completed' \subseteq Mission
         /\ xp' \in Nat
         /\ award' \in Award \cup {None}
<1>1. CASE Complete(m, met) /\ m \notin completed
  <2>1. xp' = xp + Xp[m] /\ completed' = completed \cup {m}
        /\ award' = [mission |-> m, unlocked |-> Unlocked(m)]
    BY <1>1 DEF Reward
  <2>2. Unlocked(m) \subseteq Mission
    BY DEF Unlocked
  <2>3. Xp[m] \in Nat
    BY XpAssumption
  <2>. QED BY <2>1, <2>2, <2>3 DEF TypeOK, Award
<1>2. CASE ~(Complete(m, met) /\ m \notin completed)
  BY <1>2 DEF Reward, TypeOK
<1>. QED BY <1>1, <1>2

LEMMA InitInvariant == Init => IInv
<1>1. EmptyCanvas \in Document
  BY DEF Document, EmptyCanvas
<1>2. SUFFICES ASSUME Init PROVE IInv
  OBVIOUS
<1>3. checking \in BOOLEAN /\ timer \in BOOLEAN
  BY <1>2, Zenon DEF Init
<1>4. TypeOK
  BY <1>1, <1>2, <1>3 DEF Init, TypeOK
<1>5. ActiveIsOpen /\ CheckIsHonest /\ CancelledWhenOvertaken
  BY <1>2 DEF Init, ActiveIsOpen, CheckIsHonest, CancelledWhenOvertaken
<1>6. PrerequisitesFirst /\ CompletedWereMet
  BY <1>2 DEF Init, PrerequisitesFirst, CompletedWereMet
<1>. QED BY <1>4, <1>5, <1>6 DEF IInv

LEMMA MetType ==
  ASSUME NEW m \in Mission, NEW d
  PROVE  /\ Met(m, d) \subseteq 1 .. Goals[m]
         /\ Met(m, d) \subseteq Nat \ {0}
         /\ {m} \X Met(m, d) \subseteq Objective
<1>1. Goals[m] \in Nat
  BY GoalsAssumption
<1>2. Met(m, d) \subseteq 1 .. Goals[m]
  BY DEF Met
<1>3. {m} \X (1 .. Goals[m]) \subseteq Objective
  BY DEF Objective
<1>. QED BY <1>1, <1>2, <1>3

(* What the effect of a changed document does to the validations.          *)
LEMMA ChangedType ==
  ASSUME TypeOK, doc' \in Document, DocumentChanged
  PROVE  /\ timer' \in BOOLEAN
         /\ asking' \subseteq [current : BOOLEAN, cancelled : BOOLEAN]
         /\ badges' \in {"current", "stale"}
         /\ CancelledWhenOvertaken'
<1>1. timer' \in BOOLEAN
  BY DevicesType, Zenon DEF DocumentChanged
<1>2. asking' \subseteq {Ignored}
  BY DEF DocumentChanged, Overtaken, Ignored
<1>3. badges' \in {"current", "stale"}
  BY DEF DocumentChanged
<1>. QED BY <1>1, <1>2, <1>3, ValidationType DEF CancelledWhenOvertaken

LEMMA NextInvariant == IInv /\ [Next]_vars => IInv'
<1>. SUFFICES ASSUME IInv, [Next]_vars PROVE IInv'
  OBVIOUS
<1>. USE DEF IInv
<1>1. CASE \E m \in Mission : StartMission(m)
  <2>1. PICK m \in Mission : StartMission(m)
    BY <1>1
  <2>2. doc' \in Document
    BY <2>1, NetworksAssumption DEF StartMission, TypeOK
  <2>3. /\ timer' \in BOOLEAN
        /\ asking' \subseteq [current : BOOLEAN, cancelled : BOOLEAN]
        /\ badges' \in {"current", "stale"}
        /\ CancelledWhenOvertaken'
    BY <2>1, <2>2, ChangedType DEF StartMission, validation, TypeOK, CancelledWhenOvertaken
  <2>4. UNCHANGED <<completed, xp, checking, check, award, seen>> /\ active' = m /\ objectives' = {}
        /\ ~Locked(m, completed)
    BY <2>1 DEF StartMission
  <2>5. TypeOK'
    BY <2>2, <2>3, <2>4 DEF TypeOK
  <2>6. ActiveIsOpen' /\ CheckIsHonest' /\ PrerequisitesFirst' /\ CompletedWereMet'
    BY <2>4 DEF ActiveIsOpen, CheckIsHonest, PrerequisitesFirst, CompletedWereMet, Locked
  <2>. QED BY <2>3, <2>5, <2>6
<1>2. CASE \E d \in Document : Edit(d)
  <2>1. doc' \in Document /\ DocumentChanged /\ UNCHANGED progress
    BY <1>2 DEF Edit
  <2>2. TypeOK' /\ CancelledWhenOvertaken'
    BY <2>1, ChangedType DEF TypeOK, progress
  <2>3. ActiveIsOpen' /\ CheckIsHonest' /\ PrerequisitesFirst' /\ CompletedWereMet'
    BY <2>1 DEF progress, ActiveIsOpen, CheckIsHonest, PrerequisitesFirst, CompletedWereMet, Locked
  <2>. QED BY <2>2, <2>3
<1>3. CASE CheckObjectives
  <2>1. active \in Mission /\ ~Locked(active, completed)
    BY <1>3 DEF CheckObjectives, TypeOK, ActiveIsOpen
  <2>2. /\ check' = [mission |-> active, met |-> Met(active, doc)]
        /\ seen' = seen \cup ({active} \X Met(active, doc))
        /\ checking' = TRUE
        /\ UNCHANGED <<doc, active, completed, xp, objectives, award, timer, asking, badges>>
    BY <1>3 DEF CheckObjectives, validation
  <2>3. /\ Met(active, doc) \subseteq 1 .. Goals[active]
        /\ Met(active, doc) \subseteq Nat
        /\ {active} \X Met(active, doc) \subseteq Objective
    BY <2>1, MetType
  <2>4. TypeOK'
    BY <2>1, <2>2, <2>3 DEF TypeOK, Check
  <2>5. CheckIsHonest'
    BY <2>1, <2>2, <2>3 DEF CheckIsHonest, Locked
  <2>6. ActiveIsOpen' /\ PrerequisitesFirst' /\ CompletedWereMet' /\ CancelledWhenOvertaken'
    BY <2>2 DEF ActiveIsOpen, PrerequisitesFirst, CompletedWereMet, CancelledWhenOvertaken, Locked
  <2>. QED BY <2>4, <2>5, <2>6
<1>4. CASE CheckAnswered
  <2>1. /\ check # None
        /\ check \in Check
        /\ objectives' = check.met
        /\ Reward(check.mission, check.met)
        /\ check' = None
        /\ checking' = FALSE
        /\ UNCHANGED <<doc, active, seen, timer, asking, badges>>
    BY <1>4 DEF CheckAnswered, CheckSettled, validation, TypeOK
  <2>2. check.mission \in Mission /\ Goals[check.mission] \in Nat
    BY <2>1, GoalsAssumption DEF Check
  <2>3. check.met \subseteq Nat \ {0}
    BY <2>1, <2>2 DEF CheckIsHonest
  <2>4. TypeOK'
    BY <2>1, <2>2, <2>3, RewardType DEF TypeOK
  <2>5. \/ completed' = completed
        \/ /\ completed' = completed \cup {check.mission}
           /\ Complete(check.mission, check.met)
    BY <2>1 DEF Reward
  <2>6. ~Locked(check.mission, completed) /\ {check.mission} \X check.met \subseteq seen
    BY <2>1 DEF CheckIsHonest
  <2>7. PrerequisitesFirst'
    BY <2>5, <2>6 DEF PrerequisitesFirst, Locked
  <2>8. CompletedWereMet'
    BY <2>1, <2>5, <2>6 DEF CompletedWereMet, Complete
  <2>9. ActiveIsOpen' /\ CheckIsHonest' /\ CancelledWhenOvertaken'
    BY <2>1, <2>5 DEF ActiveIsOpen, CheckIsHonest, CancelledWhenOvertaken, Locked
  <2>. QED BY <2>4, <2>7, <2>8, <2>9
<1>5. CASE CheckFailed \/ DismissAward
  BY <1>5 DEF CheckFailed, DismissAward, CheckSettled, validation, TypeOK, ActiveIsOpen,
              CheckIsHonest, CancelledWhenOvertaken, PrerequisitesFirst, CompletedWereMet, Locked
<1>6. CASE \/ AskValidation
           \/ \E v \in asking : ValidationAnswered(v) \/ ValidationFailed(v)
  <2>1. UNCHANGED <<doc, active, completed, xp, objectives, checking, check, award, seen>>
    BY <1>6 DEF AskValidation, ValidationAnswered, ValidationFailed, progress
  <2>2. timer' \in BOOLEAN
    BY <1>6, Zenon DEF AskValidation, ValidationAnswered, ValidationFailed, TypeOK
  <2>3. badges' \in {"current", "stale"}
    BY <1>6 DEF AskValidation, ValidationAnswered, ValidationFailed, TypeOK
  <2>4. asking' \subseteq asking \cup {Counting}
    BY <1>6 DEF AskValidation, ValidationAnswered, ValidationFailed, Counting
  <2>6. CancelledWhenOvertaken'
    BY <2>4 DEF CancelledWhenOvertaken
  <2>7. TypeOK'
    BY <2>1, <2>2, <2>3, <2>6, ValidationType DEF TypeOK, CancelledWhenOvertaken
  <2>5. ActiveIsOpen' /\ CheckIsHonest' /\ PrerequisitesFirst' /\ CompletedWereMet'
    BY <2>1 DEF ActiveIsOpen, CheckIsHonest, PrerequisitesFirst, CompletedWereMet, Locked
  <2>. QED BY <2>5, <2>6, <2>7
<1>7. CASE ReloadPage
  <2>1. doc.devices \in BOOLEAN
    BY DevicesType DEF TypeOK
  <2>. QED
    BY <1>7, <2>1 DEF ReloadPage, TypeOK, ActiveIsOpen, CheckIsHonest, CancelledWhenOvertaken,
                      PrerequisitesFirst, CompletedWereMet, Locked
<1>8. CASE UNCHANGED vars
  BY <1>8 DEF vars, progress, validation, TypeOK, ActiveIsOpen, CheckIsHonest,
              CancelledWhenOvertaken, PrerequisitesFirst, CompletedWereMet, Locked
<1>. QED BY <1>1, <1>2, <1>3, <1>4, <1>5, <1>6, <1>7, <1>8 DEF Next

LEMMA Invariance == Spec => []IInv
<1>. QED BY InitInvariant, NextInvariant, PTL DEF Spec

(* progressStore.ts, validationStore.ts: every state has its type.         *)
THEOREM TypeCorrect == Spec => []TypeOK
<1>1. IInv => TypeOK
  BY DEF IInv
<1>. QED BY <1>1, Invariance, PTL

(* ChallengeList.start looks at prerequisites, completeChallenge does not: *)
(* still no mission is completed before those it builds on.                *)
THEOREM PrerequisitesHold == Spec => []PrerequisitesFirst
<1>1. IInv => PrerequisitesFirst
  BY DEF IInv
<1>. QED BY <1>1, Invariance, PTL

(* validator.py: what is completed was met, objective by objective.        *)
THEOREM CompletionIsEarned == Spec => []CompletedWereMet
<1>1. IInv => CompletedWereMet
  BY DEF IInv
<1>. QED BY <1>1, Invariance, PTL

(* useChallengeCheck: an award announces what it unlocks, and nothing else. *)
THEOREM AwardsAnnounceUnlocks == Spec => UnlocksAnnounced
<1>1. IInv /\ [Next]_vars =>
        [award' \notin {award, None}
           => award'.unlocked = {m \in Mission : Locked(m, completed) /\ ~Locked(m, completed')}]_vars
  <2>. SUFFICES ASSUME IInv, Next, award' \notin {award, None}
                PROVE  award'.unlocked =
                         {m \in Mission : Locked(m, completed) /\ ~Locked(m, completed')}
    BY DEF vars
  <2>1. CheckAnswered
    BY DEF Next, StartMission, Edit, CheckObjectives, CheckFailed, DismissAward, AskValidation,
           ValidationAnswered, ValidationFailed, ReloadPage, progress
  <2>2. Reward(check.mission, check.met)
    BY <2>1 DEF CheckAnswered
  <2>3. /\ award' = [mission |-> check.mission, unlocked |-> Unlocked(check.mission)]
        /\ completed' = completed \cup {check.mission}
    BY <2>2 DEF Reward
  <2>4. \A m \in Mission :
          Locked(m, completed) /\ ~Locked(m, completed \cup {check.mission})
            => check.mission \in Requires[m]
    BY DEF Locked
  <2>. QED BY <2>3, <2>4 DEF Unlocked
<1>. QED BY <1>1, Invariance, PTL DEF Spec, UnlocksAnnounced

(* useTopologyValidation: an overtaken answer is cancelled and ignored.    *)
THEOREM BadgesFollowDocument == Spec => BadgesNeverGoBack
<1>1. IInv /\ [Next]_vars =>
        [badges' = "stale" /\ badges = "current" => doc'.devices /\ timer']_vars
  <2>. SUFFICES ASSUME IInv, Next, badges' = "stale", badges = "current"
                PROVE  doc'.devices /\ timer'
    BY DEF vars
  <2>1. CASE \/ \E m \in Mission : StartMission(m)
             \/ \E d \in Document : Edit(d)
    BY <2>1 DEF StartMission, Edit, DocumentChanged, validation
  <2>2. CASE \/ CheckObjectives \/ CheckAnswered \/ CheckFailed \/ DismissAward \/ AskValidation
    BY <2>2 DEF CheckObjectives, CheckAnswered, CheckFailed, DismissAward, AskValidation, validation
  <2>3. CASE \E v \in asking : ValidationAnswered(v) \/ ValidationFailed(v)
    <3>1. PICK v \in asking : ValidationAnswered(v) \/ ValidationFailed(v)
      BY <2>3
    <3>2. v = Counting \/ v = Ignored
      BY DEF IInv, CancelledWhenOvertaken
    <3>3. badges' = badges \/ badges' = "current"
      BY <3>1, <3>2 DEF ValidationAnswered, ValidationFailed, Counting, Ignored
    <3>. QED BY <3>3
  <2>4. CASE ReloadPage
    BY <2>4 DEF ReloadPage
  <2>. QED BY <2>1, <2>2, <2>3, <2>4 DEF Next
<1>. QED BY <1>1, Invariance, PTL DEF Spec, BadgesNeverGoBack

-------------------------------------------------------------------------------
(* What a set of missions is worth.  MapThenSumSet takes its missions one  *)
(* by one in an order that CHOOSE fixes (Pick), by a recursive function;   *)
(* the lemmas show that the function exists, that it does not depend on    *)
(* the set it is defined over, and that the order does not matter.  Each   *)
(* looks at a smallest set for which it would fail.                        *)
Pick(s) == CHOOSE m \in s : TRUE
Rest(s) == s \ {Pick(s)}

IsSum(g, S) == g = [s \in SUBSET S |-> IF s = {} THEN 0 ELSE Xp[Pick(s)] + g[Rest(s)]]
SumOver(S) == CHOOSE g : IsSum(g, S)
Worth(S) == SumOver(S)[S]

Finite == FiniteSubsetsOf(Mission)

LEMMA WorthIsSum == ASSUME NEW S PROVE MapThenSumSet(LAMBDA m : Xp[m], S) = Worth(S)
BY DEF MapThenSumSet, MapThenFoldSet, Worth, SumOver, IsSum, Pick, Rest

LEMMA SmallestSet ==
  ASSUME NEW T \in SUBSET Finite, T # {}
  PROVE  \E X \in T : \A Y \in T : ~(Y \subseteq X /\ Y # X)
<1>1. PICK X \in T : \A Y \in T : <<Y, X>> \notin StrictSubsetOrdering(Mission)
  <2>1. IsWellFoundedOn(StrictSubsetOrdering(Mission), FiniteSubsetsOf(Mission))
    BY FS_StrictSubsetOrderingWellFounded
  <2> QED BY <2>1, WFMin DEF Finite
<1>2. \A Y \in T : Y \in SUBSET Mission /\ X \in SUBSET Mission
  BY DEF Finite, FiniteSubsetsOf
<1> QED BY <1>1, <1>2 DEF StrictSubsetOrdering

LEMMA RestIsSmaller ==
  ASSUME NEW S \in Finite, S # {}
  PROVE  /\ Pick(S) \in S /\ Pick(S) \in Mission /\ Xp[Pick(S)] \in Nat
         /\ Rest(S) \subseteq S /\ Rest(S) # S /\ Rest(S) \in Finite
         /\ S = Rest(S) \cup {Pick(S)} /\ Pick(S) \notin Rest(S)
<1>1. Pick(S) \in S
  BY DEF Pick
<1>2. S \in SUBSET Mission /\ IsFiniteSet(S)
  BY DEF Finite, FiniteSubsetsOf
<1>3. IsFiniteSet(Rest(S))
  BY <1>2, FS_RemoveElement DEF Rest
<1>4. Xp[Pick(S)] \in Nat
  BY <1>1, <1>2, XpAssumption
<1> QED BY <1>1, <1>2, <1>3, <1>4 DEF Rest, Finite, FiniteSubsetsOf

LEMMA FiniteSubset ==
  ASSUME NEW S \in Finite, NEW U \in SUBSET S
  PROVE  U \in Finite
BY FS_Subset DEF Finite, FiniteSubsetsOf

LEMMA SumAt ==
  ASSUME NEW S, NEW g, IsSum(g, S), NEW s \in SUBSET S
  PROVE  g[s] = IF s = {} THEN 0 ELSE Xp[Pick(s)] + g[Rest(s)]
<1> DEFINE F(h) == [x \in SUBSET S |-> IF x = {} THEN 0 ELSE Xp[Pick(x)] + h[Rest(x)]]
<1>1. g = F(g)
  BY DEF IsSum
<1>2. F(g)[s] = IF s = {} THEN 0 ELSE Xp[Pick(s)] + g[Rest(s)]
  OBVIOUS
<1> HIDE DEF F
<1> QED BY <1>1, <1>2

LEMMA SumsAgree ==
  ASSUME NEW S, NEW g, IsSum(g, S), NEW U, NEW h, IsSum(h, U),
         NEW s \in Finite, s \subseteq S, s \subseteq U
  PROVE  g[s] = h[s]
<1> DEFINE T == {x \in Finite : x \subseteq S /\ x \subseteq U /\ g[x] # h[x]}
<1> SUFFICES ASSUME T # {} PROVE FALSE
  OBVIOUS
<1>1. PICK X \in T : \A Y \in T : ~(Y \subseteq X /\ Y # X)
  <2>1. T \in SUBSET Finite
    OBVIOUS
  <2> HIDE DEF T
  <2> QED BY <2>1, SmallestSet
<1>2. X # {}
  BY <1>1, SumAt
<1>3. g[X] = Xp[Pick(X)] + g[Rest(X)] /\ h[X] = Xp[Pick(X)] + h[Rest(X)]
  BY <1>2, SumAt
<1>4. g[Rest(X)] = h[Rest(X)]
  BY <1>1, <1>2, RestIsSmaller
<1> QED BY <1>1, <1>3, <1>4

LEMMA SumExists == ASSUME NEW S \in Finite PROVE IsSum(SumOver(S), S)
<1> DEFINE T == {x \in Finite : ~\E g : IsSum(g, x)}
<1>1. T = {}
  <2> SUFFICES ASSUME T # {} PROVE FALSE
    OBVIOUS
  <2>1. PICK X \in T : \A Y \in T : ~(Y \subseteq X /\ Y # X)
    <3>1. T \in SUBSET Finite
      OBVIOUS
    <3> HIDE DEF T
    <3> QED BY <3>1, SmallestSet
  <2>2. \A Y \in SUBSET X : Y # X => Y \in Finite /\ IsSum(SumOver(Y), Y)
    BY <2>1, FiniteSubset DEF SumOver
  <2>3. PICK g : g = [s \in SUBSET X |-> IF s = {} THEN 0 ELSE Xp[Pick(s)] + Worth(Rest(s))]
    OBVIOUS
  <2>4. ASSUME NEW u \in SUBSET X, u # X PROVE g[u] = Worth(u)
    <3>1. g[u] = IF u = {} THEN 0 ELSE Xp[Pick(u)] + Worth(Rest(u))
      BY <2>3
    <3>2. Worth(u) = IF u = {} THEN 0 ELSE Xp[Pick(u)] + SumOver(u)[Rest(u)]
      BY <2>2, <2>4, SumAt DEF Worth
    <3>3. CASE u # {}
      <4>1. Rest(u) \in SUBSET X /\ Rest(u) # X /\ Rest(u) \subseteq u /\ Rest(u) \in Finite
        BY <2>2, <2>4, <3>3, RestIsSmaller
      <4>2. SumOver(u)[Rest(u)] = Worth(Rest(u))
        BY <4>1, <2>2, <2>4, SumsAgree DEF Worth
      <4> QED BY <3>1, <3>2, <3>3, <4>2
    <3> QED BY <3>1, <3>2, <3>3
  <2>5. \A s \in SUBSET X : s # {} => Rest(s) \in SUBSET X /\ Rest(s) # X
    BY <2>1, FiniteSubset, RestIsSmaller
  <2>6. \A s \in SUBSET X : s # {} => g[Rest(s)] = Worth(Rest(s))
    BY <2>4, <2>5
  <2>7. IsSum(g, X)
    BY <2>3, <2>6 DEF IsSum
  <2> QED BY <2>1, <2>7
<1> QED BY <1>1 DEF SumOver

LEMMA WorthOf ==
  /\ Worth({}) = 0
  /\ \A S \in Finite : S # {} => Worth(S) = Xp[Pick(S)] + Worth(Rest(S))
<1>1. {} \in Finite
  BY FS_EmptySet DEF Finite, FiniteSubsetsOf
<1>2. Worth({}) = 0
  BY <1>1, SumExists, SumAt DEF Worth
<1>3. ASSUME NEW S \in Finite, S # {} PROVE Worth(S) = Xp[Pick(S)] + Worth(Rest(S))
  <2>1. Worth(S) = Xp[Pick(S)] + SumOver(S)[Rest(S)]
    BY <1>3, SumExists, SumAt DEF Worth
  <2>2. SumOver(S)[Rest(S)] = Worth(Rest(S))
    BY <1>3, SumExists, RestIsSmaller, SumsAgree DEF Worth
  <2> QED BY <2>1, <2>2
<1> QED BY <1>2, <1>3

LEMMA WorthType == ASSUME NEW S \in Finite PROVE Worth(S) \in Nat
<1> DEFINE T == {x \in Finite : Worth(x) \notin Nat}
<1> SUFFICES ASSUME T # {} PROVE FALSE
  OBVIOUS
<1>1. PICK X \in T : \A Y \in T : ~(Y \subseteq X /\ Y # X)
  <2>1. T \in SUBSET Finite
    OBVIOUS
  <2> HIDE DEF T
  <2> QED BY <2>1, SmallestSet
<1>2. X # {}
  <2>1. Worth({}) \in Nat
    BY WorthOf
  <2> QED BY <1>1, <2>1
<1>3. Worth(Rest(X)) \in Nat /\ Xp[Pick(X)] \in Nat
  BY <1>1, <1>2, RestIsSmaller
<1> QED BY <1>1, <1>2, <1>3, WorthOf

(* A mission more is worth its XP more, whichever mission Pick takes first. *)
LEMMA WorthAdds ==
  ASSUME NEW S \in Finite, NEW m \in Mission \ S
  PROVE  S \cup {m} \in Finite /\ Worth(S \cup {m}) = Worth(S) + Xp[m]
<1>1. ASSUME NEW x \in Finite PROVE x \cup {m} \in Finite
  BY FS_AddElement DEF Finite, FiniteSubsetsOf
<1> DEFINE T == {x \in Finite : \E n \in Mission \ x : Worth(x \cup {n}) # Worth(x) + Xp[n]}
<1>2. T = {}
  <2> SUFFICES ASSUME T # {} PROVE FALSE
    OBVIOUS
  <2>1. PICK X \in T : \A Y \in T : ~(Y \subseteq X /\ Y # X)
    <3>1. T \in SUBSET Finite
      OBVIOUS
    <3> HIDE DEF T
    <3> QED BY <3>1, SmallestSet
  <2>2. PICK n \in Mission \ X : Worth(X \cup {n}) # Worth(X) + Xp[n]
    BY <2>1
  <2> DEFINE Z == X \cup {n}
             p == Pick(Z)
  <2>3. Z \in Finite /\ Z # {}
    BY FS_AddElement DEF Finite, FiniteSubsetsOf
  <2>4. Worth(Z) = Xp[p] + Worth(Rest(Z)) /\ p \in Z
    BY <2>3, WorthOf, RestIsSmaller
  <2>5. Worth(X) \in Nat /\ Xp[n] \in Nat
    BY <2>1, WorthType, XpAssumption
  <2>6. p # n
    <3>1. p = n => Rest(Z) = X
      BY DEF Rest
    <3> HIDE DEF Z, p
    <3> QED BY <2>2, <2>4, <2>5, <3>1 DEF Z
  <2>7. p \in X
    BY <2>4, <2>6
  <2> DEFINE Y == X \ {p}
  <2>8. Y \in Finite /\ Y \subseteq X /\ Y # X /\ Y \notin T
    BY <2>1, <2>7, FiniteSubset
  <2>9. Rest(Z) = Y \cup {n}
    BY <2>6 DEF Rest
  <2>10. Worth(Y \cup {n}) = Worth(Y) + Xp[n]
    BY <2>7, <2>8
  <2>11. Worth(X) = Worth(Y) + Xp[p]
    <3>1. p \in Mission \ Y /\ Y \cup {p} = X
      BY <2>7 DEF Finite, FiniteSubsetsOf
    <3> QED BY <2>8, <3>1
  <2>12. Worth(Y) \in Nat /\ Xp[p] \in Nat
    BY <2>3, <2>8, WorthType, RestIsSmaller
  <2>13. Worth(Z) # Worth(X) + Xp[n]
    BY <2>2
  <2>14. Worth(Z) = Xp[p] + Worth(Y \cup {n})
    BY <2>4, <2>9
  <2> HIDE DEF Z, p, Y
  <2> QED BY <2>5, <2>10, <2>11, <2>12, <2>13, <2>14
<1> QED BY <1>1, <1>2

Paid == completed \in Finite /\ xp = Worth(completed)

(* completeChallenge: a mission is paid when it is completed, for good.    *)
(* For any missions and rewards, finitely many or not.                     *)
THEOREM XpIsEarnedOnce == Spec => []XpEarnedOnce
<1>1. Init => Paid
  <2>1. {} \in Finite
    BY FS_EmptySet DEF Finite, FiniteSubsetsOf
  <2> QED BY <2>1, WorthOf DEF Init, Paid
<1>2. IInv /\ Paid /\ [Next]_vars => Paid'
  <2> SUFFICES ASSUME IInv, Paid, [Next]_vars PROVE Paid'
    OBVIOUS
  <2>1. CASE CheckAnswered
    <3>1. Reward(check.mission, check.met) /\ check.mission \in Mission
      BY <2>1, NoneAssumption DEF CheckAnswered, IInv, TypeOK, Check
    <3>2. CASE Complete(check.mission, check.met) /\ check.mission \notin completed
      <4>1. xp' = xp + Xp[check.mission] /\ completed' = completed \cup {check.mission}
        BY <3>1, <3>2 DEF Reward
      <4> QED BY <3>1, <3>2, <4>1, WorthAdds DEF Paid
    <3>3. CASE ~(Complete(check.mission, check.met) /\ check.mission \notin completed)
      BY <3>1, <3>3 DEF Reward, Paid
    <3> QED BY <3>2, <3>3
  <2>2. CASE ~CheckAnswered
    <3>1. UNCHANGED <<xp, completed>>
      BY <2>2 DEF Next, vars, progress, StartMission, Edit, CheckObjectives, CheckFailed, DismissAward,
             AskValidation, ValidationAnswered, ValidationFailed, ReloadPage
    <3> QED BY <3>1 DEF Paid
  <2> QED BY <2>1, <2>2
<1>3. Paid => XpEarnedOnce
  BY WorthIsSum DEF Paid, XpEarnedOnce
<1> QED BY <1>1, <1>2, <1>3, Invariance, PTL DEF Spec
===============================================================================

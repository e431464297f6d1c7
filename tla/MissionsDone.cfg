SPECIFICATION Spec
CONSTANTS
  m1 = m1
  m2 = m2
  m3 = m3
  None = None
  Mission = {m1, m2, m3}
  Goals <- TwoGoalsFirst
  Requires <- OneAfterTheOther
  Xp <- Worth
  Networks <- OwnNetwork
INVARIANTS
  XpEarnedOnce
  PrerequisitesFirst
  CompletedWereMet
PROPERTIES
  UnlocksAnnounced
  BadgesNeverGoBack

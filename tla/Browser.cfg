SPECIFICATION Spec
CONSTANTS
  Presets = {1}
  Clock = {0, 5}
  MacSpace = 32
  Stored <- Kept
  Shipped <- OneMission
  MaxMade = 1
  Frame = {f1}
  None = None
  Decided = {None}
  Transmit = 2
  Step = 1
  Deltas = {1}
  MaxEvents = 2
INVARIANTS
  CablesFit
  NothingTwice
  AnimationInStep
  DrawnWhereItCrossed
PROPERTIES
  PlaybackEnds

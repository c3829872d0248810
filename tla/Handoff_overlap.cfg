CONSTANTS
  Transitions = {t1}
  NoTransition = none
  MaxQueued = 1
  MaxCrashes = 0
  MaxFaults = 0
  OverlapOps = TRUE
  CleanupReliable = TRUE
SPECIFICATION Spec
SYMMETRY Symmetry
INVARIANT OnlyOwnerLives
CHECK_DEADLOCK FALSE

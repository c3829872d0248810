CONSTANTS
  Transitions = {t1}
  NoTransition = none
  MaxQueued = 1
  MaxCrashes = 0
  MaxFaults = 0
  OverlapOps = FALSE
  CleanupReliable = FALSE
SPECIFICATION Spec
SYMMETRY Symmetry
INVARIANT OnlyOwnerLives
CHECK_DEADLOCK FALSE

\* Two transitions of one session; operations and transitions do not overlap.
CONSTANTS
  Transitions = {t1, t2}
  NoTransition = none
  MaxQueued = 0
  MaxCrashes = 0
  MaxFaults = 0
  OverlapOps = FALSE
  CleanupReliable = TRUE
SPECIFICATION Spec
SYMMETRY Symmetry
INVARIANT OnlyOwnerLives
INVARIANT CancelHonoured
INVARIANT SingleSaga
CHECK_DEADLOCK FALSE

CONSTANTS
  Transitions = {t1, t2}
  NoTransition = none
  MaxQueued = 1
  MaxCrashes = 0
  MaxFaults = 0
  OverlapOps = FALSE
  CleanupReliable = TRUE
SPECIFICATION Spec
SYMMETRY Symmetry
PROPERTY CancelSignalsOwnRun
CHECK_DEADLOCK FALSE

\* One transition under crashes, failed writes and a killed or relaunched session.
CONSTANTS
  Transitions = {t1}
  NoTransition = none
  MaxQueued = 1
  MaxCrashes = 2
  MaxFaults = 2
  OverlapOps = FALSE
  CleanupReliable = TRUE
SPECIFICATION FairSpec
INVARIANT FenceHeld
INVARIANT IInv
PROPERTY ImplementsOwnership
PROPERTY OutcomeMatchesOwner
PROPERTY QuarantineHolds
PROPERTY HandoffEnds
CHECK_DEADLOCK FALSE

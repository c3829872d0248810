CONSTANTS
  MaxLaunches = 2
  MaxHooks = 1
  MaxKills = 1
  Overlap = TRUE
SPECIFICATION Spec
INVARIANT KilledStaysDead
CHECK_DEADLOCK FALSE

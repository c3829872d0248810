CONSTANTS
  MaxLaunches = 2
  MaxHooks = 1
  MaxKills = 1
  Overlap = FALSE
SPECIFICATION FairSpec
INVARIANT ExitedIsReal
INVARIANT KilledStaysDead
PROPERTY DeadIsDead
PROPERTY DeathNoticed
CHECK_DEADLOCK FALSE

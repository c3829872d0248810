CONSTANTS
  MaxLaunches = 2
  MaxHooks = 1
  MaxKills = 1
  Overlap = FALSE
SPECIFICATION Spec
PROPERTY ChatIsNotProbed
CHECK_DEADLOCK FALSE

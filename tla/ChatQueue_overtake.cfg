CONSTANTS
  Sends = {m1}
  Guidance = {g}
  Promotable = {}
  Stops = {}
  Outcomes = {"completed"}
  None = none
  MaxEdits = 0
  MaxFaults = 0
  MaxDetaches = 1
  MaxDeaths = 0
SPECIFICATION Spec
INVARIANT RunningIsOwned
CHECK_DEADLOCK FALSE

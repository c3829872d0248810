CONSTANTS
  Sends = {m1, m2}
  Guidance = {}
  Promotable = {}
  Stops = {}
  Outcomes = {"completed"}
  None = none
  MaxEdits = 0
  MaxFaults = 0
  MaxDetaches = 0
  MaxDeaths = 0
SPECIFICATION Spec
INVARIANT FailedForCause
CHECK_DEADLOCK FALSE

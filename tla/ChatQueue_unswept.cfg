CONSTANTS
  Sends = {m1, m2}
  Guidance = {}
  Promotable = {}
  Stops = {s1}
  Outcomes = {"completed"}
  None = none
  MaxEdits = 0
  MaxFaults = 1
  MaxDetaches = 0
  MaxDeaths = 0
SPECIFICATION Spec
INVARIANT BrakeHolds
CHECK_DEADLOCK FALSE

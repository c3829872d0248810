CONSTANTS
  Sends = {m1, m2}
  Guidance = {}
  Promotable = {m2}
  Stops = {}
  Outcomes = {"completed"}
  None = none
  MaxEdits = 0
  MaxFaults = 0
  MaxDetaches = 0
  MaxDeaths = 1
SPECIFICATION Spec
INVARIANT HeldIsPromoted
CHECK_DEADLOCK FALSE

CONSTANTS
  Sends = {m1}
  Guidance = {}
  Promotable = {}
  Stops = {}
  Outcomes = {"completed"}
  None = none
  MaxEdits = 0
  MaxFaults = 0
  MaxDetaches = 0
  MaxDeaths = 1
SPECIFICATION Spec
INVARIANT EndedIsSettled
CHECK_DEADLOCK FALSE

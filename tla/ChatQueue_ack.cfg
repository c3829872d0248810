CONSTANTS
  Sends = {m1}
  Guidance = {g}
  Promotable = {}
  Stops = {}
  Outcomes = {"completed"}
  None = none
  MaxEdits = 0
  MaxFaults = 0
  MaxDetaches = 0
  MaxDeaths = 0
SPECIFICATION AckSpec
PROPERTY AckEndsWait
CHECK_DEADLOCK FALSE

\* Two sends, guidance, a Stop and a fault under one controller.
CONSTANTS
  Sends = {m1, m2}
  Guidance = {g}
  Promotable = {m2}
  Stops = {s1}
  Outcomes = {"completed", "failed"}
  None = none
  MaxEdits = 1
  MaxFaults = 1
  MaxDetaches = 0
  MaxDeaths = 0
SPECIFICATION FairSpec
INVARIANT TakenOnce
INVARIANT StopBrakes
PROPERTY LockIsFreed
CHECK_DEADLOCK FALSE

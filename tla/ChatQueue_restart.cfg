\* Queue edits, a detach, a death and restarts.
CONSTANTS
  Sends = {m1, m2, m3}
  Guidance = {}
  Promotable = {m2}
  Stops = {}
  Outcomes = {"completed", "failed"}
  None = none
  MaxEdits = 1
  MaxFaults = 1
  MaxDetaches = 1
  MaxDeaths = 1
SPECIFICATION FairSpec
INVARIANT WithdrawnStaysWithdrawn
INVARIANT RunningIsOwned
PROPERTY QueueMoves
CHECK_DEADLOCK FALSE

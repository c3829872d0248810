CONSTANTS
  r1 = r1
  Requests = {r1}
  yes = yes
  no = no
  Decisions = {yes, no}
  LossyClose = TRUE
  MaxTurns = 2
  MaxFrames = 1
  MaxGen = 3
  Nil = Nil
SPECIFICATION RelaySpec
INVARIANT RunningRuns
CHECK_DEADLOCK FALSE

CONSTANTS
  r1 = r1
  Requests = {r1}
  yes = yes
  no = no
  Decisions = {yes, no}
  LossyClose = FALSE
  MaxTurns = 2
  MaxFrames = 2
  MaxGen = 3
  Nil = Nil
SPECIFICATION RelayFairSpec
INVARIANT CommittedInOrder
INVARIANT OneAnswer
PROPERTY SaidIsCommitted
CHECK_DEADLOCK FALSE

CONSTANTS
  t1 = t1
  t2 = t2
  t3 = t3
  Tools = {t1, t2, t3}
  bash = bash
  edit = edit
  Names = {bash, edit}
  None = None
  MaxTurns = 2
  MaxMail = 2
  MaxInflight = 3
  Worlds <- SoundWorlds
SPECIFICATION FlightSpec
INVARIANT BlockedUntilAnswered
INVARIANT ProofIsComing
INVARIANT TurnLeavesNothing
CHECK_DEADLOCK FALSE

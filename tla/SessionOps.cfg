\* Two sessions under two callers, the startup pass, a write and one fault.
CONSTANTS
  Sessions = {s1, s2}
  Callers = {c1, c2}
  Reconciler = startup
  Writers = {w1}
  NoSession = none
  MaxFaults = 1
SPECIFICATION FairSpec
INVARIANT Exclusive
PROPERTY InterruptedStaysFenced
PROPERTY OnlyInterruptedSettled
PROPERTY InputReopens
CHECK_DEADLOCK FALSE

CONSTANTS
  Messages = {m1, m2}
  Transitions = {t1}
  NoTransition = none
  MaxCrashes = 0
  MaxFaults = 0
SPECIFICATION Spec
PROPERTY NextInstruction
CHECK_DEADLOCK FALSE

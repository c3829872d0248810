\* Two handoffs of one session, a crash and a failed call: safety and delivery.
CONSTANTS
  Messages = {m1, m2}
  Transitions = {t1, t2}
  NoTransition = none
  MaxCrashes = 1
  MaxFaults = 1
SPECIFICATION FairSpec
INVARIANT HandedOn
INVARIANT ChatOnce
INVARIANT QueueOrder
PROPERTY EverythingArrives
CHECK_DEADLOCK FALSE

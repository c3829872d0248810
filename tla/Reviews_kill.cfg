SPECIFICATION Spec
CONSTANTS
  Harnesses = {a, b}
  Default = a
  Submits = {s1}
  Acts = {"idle", "asks"}
  RetryLimit = 1
  MaxEvents = 3
CHECK_DEADLOCK FALSE
INVARIANT NothingLeftBehind

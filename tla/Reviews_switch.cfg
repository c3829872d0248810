SPECIFICATION Spec
CONSTANTS
  Harnesses = {a, b}
  Default = a
  Submits = {s1}
  Acts = {"idle", "asks"}
  RetryLimit = 1
  MaxEvents = 4
CHECK_DEADLOCK FALSE
INVARIANT ReplacedIsSettled

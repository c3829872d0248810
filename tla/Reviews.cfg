SPECIFICATION FairSpec
CONSTANTS
  Harnesses = {a, b}
  Default = a
  Submits = {s1}
  Acts = {"idle", "asks"}
  RetryLimit = 1
  MaxEvents = 2
INVARIANT ReviewerKnows
INVARIANT FeedbackOnce
PROPERTY StaleIsSettled
CHECK_DEADLOCK FALSE

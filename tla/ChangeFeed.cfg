\* What is written reaches the screen.
CONSTANTS
  Buffer = 1
  Batch = 1
  MaxEvents = 2
  MaxFaults = 2
SPECIFICATION FairSpec
INVARIANT NothingSkipped
PROPERTY SeenOnScreen
CHECK_DEADLOCK FALSE

CONSTANTS
  kShortDelayMs = 1
  kLongDelayMs = 3
  kStartDelayMs = 2
  kWatchdogDelayMs = 4
  kSlackMs = 1
  kCommittedMemoryDelta = 1
  MaxNumberOfGCs = 3
  MaxMemory = 3
  Never = Never
SPECIFICATION Spec
INVARIANTS TimerIffWaiting
PROPERTIES StartsAreSpaced 

CONSTANTS
  kMinimumCapacity = 2
  Scoped = TRUE
  Callbacks = {c}
  MaxTasks = 6
  MaxFrames = 4
SPECIFICATION Spec
INVARIANTS RingMatchesQueue RunIsNotReentrant
PROPERTIES EveryMicrotaskIsTaken

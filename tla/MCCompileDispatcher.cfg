CONSTANTS
  Workers = {w1, w2}
  Main = main
  Functions = {f, g}
  Capacity = 2
  MaxJobs = 3
  Null = Null
SPECIFICATION Spec
INVARIANTS JobsAreOwnedOnce InProgressHasJob BreakPointsAreRespected
PROPERTIES  EveryJobEnds

CONSTANTS
  None = None
  Workers = {w1, w2, w3}
  Main = main
  MaxWork = 3
  MaxTasks = 3
  NumWorkerThreads = 2
  kMaxWorkersPerJob = 3
SPECIFICATION FairJobSpec
INVARIANTS JobInv ReturnedMeansDone CountsAreRight 
PROPERTIES ImplementsContract CallsReturn WorkIsTaken

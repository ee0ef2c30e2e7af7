CONSTANTS
  i1 = i1
  i2 = i2
  Isolates = {i1, i2}
  Workers = {w1, w2}
  WorkerIsolate <- WorkersOfFirst
  SharedIsolate = i1
  Nobody = Nobody
SPECIFICATION CoreSpec
INVARIANTS CoreInv StoppedMeansParked
PROPERTY ImplementsStopTheWorld
CHECK_DEADLOCK FALSE

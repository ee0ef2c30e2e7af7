CONSTANTS
  main = main
  shared = shared
  client = client
  w1 = w1
  w2 = w2
  Isolates = {main}
  Workers = {w1, w2}
  WorkerIsolate <- OneIsolateWorkers
  SharedIsolate = shared
  Nobody = Nobody
  Operations <- AllOperations
  MaxScopes = 2
SPECIFICATION Spec
INVARIANTS
  SafepointChecks
  NoLostWakeup
  AnswerIsTrue
PROPERTY
  ImplementsCore

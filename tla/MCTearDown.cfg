CONSTANTS
  main = main
  shared = shared
  client = client
  w1 = w1
  w2 = w2
  Isolates = {shared, client}
  Workers = {w1}
  WorkerIsolate <- ClientWorkers
  SharedIsolate = shared
  Nobody = Nobody
  Operations <- ClientQuits
  MaxScopes = 2
SPECIFICATION TearDownSpec
INVARIANTS
  TimerChecks
PROPERTIES
  BlockIsLifted
  TearDownCompletes

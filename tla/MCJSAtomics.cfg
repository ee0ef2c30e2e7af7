CONSTANTS
  Threads = {t1, t2, t3}
  Nobody = Nobody
  MaxCalls = 1
  Counts = {1, 2}
  Timeouts = TRUE
SPECIFICATION FairSpec
INVARIANTS MutualExclusion QueueLockProtectsState NoWaiterIsLost SomeoneTakesOver
 
CHECK_DEADLOCK FALSE

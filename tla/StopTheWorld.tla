---------------------------- MODULE StopTheWorld ----------------------------
(***************************************************************************)
(* What safepoints promise: a readers-writer discipline on heaps.          *)
(*                                                                         *)
(* A thread has access to its isolate's heap or not.  A thread may stop    *)
(* isolates when no other thread has access to any of their heaps; until   *)
(* it lets an isolate go, no thread gains access to its heap, and the      *)
(* stopping thread keeps its own.                                          *)
(***************************************************************************)
CONSTANTS Threads, Isolates, Nobody,
          Home(_)        \* the isolate of a thread

VARIABLES access,        \* threads that may use the heap of their isolate
          stopped_by     \* the thread that has stopped an isolate, or Nobody

worldVars == <<access, stopped_by>>

WorldInit ==
  /\ access \in SUBSET Threads
  /\ stopped_by = [i \in Isolates |-> Nobody]

Enter(t) ==
  /\ stopped_by[Home(t)] = Nobody
  /\ access' = access \cup {t}
  /\ UNCHANGED stopped_by

Leave(t) ==
  /\ \A i \in Isolates : stopped_by[i] # t
  /\ access' = access \ {t}
  /\ UNCHANGED stopped_by

Stop(t) ==
  /\ \E stop \in SUBSET Isolates :
       /\ \A i \in stop : stopped_by[i] = Nobody
       /\ \A u \in access : Home(u) \in stop => u = t
       /\ stopped_by' = [i \in Isolates |-> IF i \in stop THEN t ELSE stopped_by[i]]
  /\ UNCHANGED access

Resume(t) ==
  /\ \E resume \in SUBSET Isolates :
       /\ \A i \in resume : stopped_by[i] = t
       /\ stopped_by' = [i \in Isolates |-> IF i \in resume THEN Nobody ELSE stopped_by[i]]
  /\ UNCHANGED access

WorldNext == \E t \in Threads : Enter(t) \/ Leave(t) \/ Stop(t) \/ Resume(t)

WorldSpec == WorldInit /\ [][WorldNext]_worldVars
=============================================================================

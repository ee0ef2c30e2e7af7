-------------------------- MODULE CollectionBarrier --------------------------
(***************************************************************************)
(* CollectionBarrier, one for every isolate's heap: how a thread that may  *)
(* not collect that heap itself asks the heap's main thread to do it and   *)
(* sleeps until the collection was performed, cancelled or made impossible *)
(* by the heap's tear-down.  Every method holds the barrier's mutex, so it *)
(* is one step, or one step per wakeup of its wait on cv_wakeup_.          *)
(***************************************************************************)
EXTENDS Threads

VARIABLES collection_requested,  \* heaps whose collection_requested_ is true
          block_for_collection,  \* heaps whose block_for_collection_ is true
          collection_performed,  \* heaps whose collection_performed_ is true
          shutdown_requested,    \* heaps whose shutdown_requested_ is true
          timer_started,         \* heaps whose timer_ is started
          cv_wakeup              \* sleepers of cv_wakeup_, per heap

collectionVars == <<collection_requested, block_for_collection,
                    collection_performed, shutdown_requested, timer_started,
                    cv_wakeup>>

CollectionInit ==
  /\ collection_requested = {}
  /\ block_for_collection = {}
  /\ collection_performed = {}
  /\ shutdown_requested = {}
  /\ timer_started = {}
  /\ cv_wakeup = [i \in Isolates |-> {}]


\* cv_wakeup_.NotifyAll().
NotifyAllAwaiting(h) == cv_wakeup' = [cv_wakeup EXCEPT ![h] = {}]

TimerIsKept(h) == UNCHANGED timer_started

\* timer_.Stop(), if it is started.
TimerIsStopped(h) == timer_started' = timer_started \ {h}

PerformedIsKept(h) == UNCHANGED collection_performed

\* collection_performed_ = false.
NothingIsPerformed(h) == collection_performed' = collection_performed \ {h}

WasGCRequested(h) == h \in collection_requested

\* The successful TryRequestGC; when shutdown was requested it returns false
\* and changes nothing.
TryRequestGC(h) ==
  /\ h \notin shutdown_requested
  /\ collection_requested' = collection_requested \cup {h}
  /\ timer_started' = IF WasGCRequested(h) THEN timer_started
                                           ELSE timer_started \cup {h}
  /\ UNCHANGED <<block_for_collection, collection_performed,
                 shutdown_requested, cv_wakeup>>

NotifyShutdownRequested(h) ==
  /\ TimerIsStopped(h)
  /\ shutdown_requested' = shutdown_requested \cup {h}
  /\ NotifyAllAwaiting(h)
  /\ UNCHANGED <<collection_requested, block_for_collection,
                 collection_performed>>

ResumeThreadsAwaitingCollection(h) ==
  /\ collection_requested' = collection_requested \ {h}
  /\ block_for_collection' = block_for_collection \ {h}
  /\ collection_performed' = collection_performed \cup {h}
  /\ NotifyAllAwaiting(h)
  /\ UNCHANGED <<shutdown_requested, timer_started>>

CancelCollectionAndResumeThreads(h) ==
  /\ TimerIsStopped(h)
  /\ collection_requested' = collection_requested \ {h}
  /\ block_for_collection' = block_for_collection \ {h}
  /\ NothingIsPerformed(h)
  /\ NotifyAllAwaiting(h)
  /\ UNCHANGED shutdown_requested

\* AwaitCollectionBackground, first critical section: the early returns ...
CollectionNotAwaited(h) ==
  h \in shutdown_requested \/ h \notin collection_requested

\* ... and the update of block_for_collection_.
BlockForCollection(h) ==
  /\ ~CollectionNotAwaited(h)
  /\ block_for_collection' = block_for_collection \cup {h}
  /\ UNCHANGED <<collection_requested, collection_performed,
                 shutdown_requested, timer_started, cv_wakeup>>

\* AwaitCollectionBackground, second critical section: thread t sleeps ...
SleepUntilWakeup(h, t) ==
  /\ t \notin cv_wakeup[h]
  /\ h \in block_for_collection
  /\ h \notin shutdown_requested
  /\ cv_wakeup' = [cv_wakeup EXCEPT ![h] = @ \cup {t}]
  /\ UNCHANGED <<collection_requested, block_for_collection,
                 collection_performed, shutdown_requested, timer_started>>

\* ... or returns, with what it then knows about the collection.
DoneAwaiting(h, t) ==
  /\ t \notin cv_wakeup[h]
  /\ h \notin block_for_collection \/ h \in shutdown_requested

AwaitedCollectionPerformed(h) ==
  h \notin block_for_collection /\ h \in collection_performed

StopTimeToCollectionTimer(h) ==
  /\ timer_started' = IF WasGCRequested(h) THEN timer_started \ {h}
                                           ELSE timer_started
  /\ UNCHANGED <<collection_requested, block_for_collection,
                 collection_performed, shutdown_requested, cv_wakeup>>
=============================================================================

---------------------------- MODULE SafepointCore ----------------------------
(***************************************************************************)
(* What makes a safepoint stop the world: two bits of each LocalHeap's      *)
(* state word, the count of each isolate's Barrier and its                 *)
(* local_heaps_mutex_.  The methods that use them, their frames and the     *)
(* sleeping threads are left out; Safepoint has them, and implements this.  *)
(***************************************************************************)
EXTENDS Threads

VARIABLES
  registered,   \* threads whose LocalHeap is in its isolate's list
  parked,       \* threads whose word has the Parked bit
  requested,    \* threads whose word has the SafepointRequested bit
  counting,     \* parked on request, not counted in stopped_ yet
  stopped,      \* Barrier::stopped_
  running,      \* running threads counted by SetSafepointRequestedFlags
  owner,        \* owner of local_heaps_mutex_
  phase,        \* what the owner is doing with the flags of the isolate
  todo          \* LocalHeaps the loop over the flags has still to visit

coreVars == <<registered, parked, requested, counting, stopped, running, owner,
              phase, todo>>

Phases == {"Free", "Setting", "Waiting", "Stopped", "Clearing"}

CoreTypeOK ==
  /\ {registered, parked, requested, counting} \subseteq SUBSET Threads
  /\ stopped \in [Isolates -> Nat] /\ running \in [Isolates -> Nat]
  /\ owner \in [Isolates -> Threads \cup {Nobody}]
  /\ phase \in [Isolates -> Phases]
  /\ todo \in [Isolates -> SUBSET Threads]

CoreInit ==
  /\ registered = Isolates /\ parked = Workers
  /\ requested = {} /\ counting = {}
  /\ stopped = [i \in Isolates |-> 0] /\ running = [i \in Isolates |-> 0]
  /\ owner = [i \in Isolates |-> Nobody]
  /\ phase = [i \in Isolates |-> "Free"]
  /\ todo = [i \in Isolates |-> {}]

-----------------------------------------------------------------------------
(* local_heaps_mutex_ and the list it protects.                            *)

LockHeaps(t, i) ==
  /\ owner[i] = Nobody
  /\ owner' = [owner EXCEPT ![i] = t]
  /\ UNCHANGED <<registered, parked, requested, counting, stopped, running, phase,
                 todo>>

UnlockHeaps(i) ==
  /\ phase[i] = "Free" /\ owner[i] # Nobody
  /\ owner' = [owner EXCEPT ![i] = Nobody]
  /\ UNCHANGED <<registered, parked, requested, counting, stopped, running, phase,
                 todo>>

AddLocalHeap(w) ==
  /\ owner[Home(w)] = w
  /\ registered' = registered \cup {w}
  /\ owner' = [owner EXCEPT ![Home(w)] = Nobody]
  /\ UNCHANGED <<parked, requested, counting, stopped, running, phase, todo>>

RemoveLocalHeap(w) ==
  /\ owner[Home(w)] = w /\ w \in parked
  /\ registered' = registered \ {w}
  /\ owner' = [owner EXCEPT ![Home(w)] = Nobody]
  /\ UNCHANGED <<parked, requested, counting, stopped, running, phase, todo>>

-----------------------------------------------------------------------------
(* A thread's own accesses to its word and to the barrier.                 *)

\* An initiator does not park once it has seen an isolate stopped.
Park(t) ==
  /\ t \in registered /\ t \notin parked /\ t \notin requested
  /\ \A i \in Isolates : phase[i] \in {"Stopped", "Clearing"} => owner[i] # t
  /\ parked' = parked \cup {t}
  /\ UNCHANGED <<registered, requested, counting, stopped, running, owner, phase,
                 todo>>

\* ParkSlowPath and SleepInSafepoint with the flag set.
ParkOnRequest(t) ==
  /\ t \in requested /\ t \notin parked
  /\ \A i \in Isolates : phase[i] \in {"Stopped", "Clearing"} => owner[i] # t
  /\ parked' = parked \cup {t}
  /\ counting' = counting \cup {t}
  /\ UNCHANGED <<registered, requested, stopped, running, owner, phase, todo>>

\* NotifyPark, and the first half of WaitInSafepoint.
CountStopped(t) ==
  /\ t \in counting
  /\ counting' = counting \ {t}
  /\ stopped' = [stopped EXCEPT ![Home(t)] = @ + 1]
  /\ UNCHANGED <<registered, parked, requested, running, owner, phase, todo>>

\* Clearing the Parked bit whatever else is in the word.
UnparkAnyway(t) ==
  /\ t \in registered /\ t \in parked
  /\ parked' = parked \ {t}
  /\ UNCHANGED <<registered, requested, counting, stopped, running, owner, phase,
                 todo>>

Unpark(t) ==
  /\ t \in registered /\ t \in parked /\ t \notin requested
  /\ parked' = parked \ {t}
  /\ UNCHANGED <<registered, requested, counting, stopped, running, owner, phase,
                 todo>>

-----------------------------------------------------------------------------
(* The initiator.                                                          *)

\* IncludeMainThread::kNo exactly on the initiator's own isolate.
FlaggedHeaps(t, i) == {u \in registered : Home(u) = i /\ u # t}

Arm(t, i) ==
  /\ owner[i] = t /\ phase[i] = "Free"
  /\ phase' = [phase EXCEPT ![i] = "Setting"]
  /\ todo' = [todo EXCEPT ![i] = FlaggedHeaps(t, i)]
  /\ stopped' = [stopped EXCEPT ![i] = 0]
  /\ running' = [running EXCEPT ![i] = 0]
  /\ UNCHANGED <<registered, parked, requested, counting, owner>>

\* A thread is counted if its word, before the flag, was not parked.
SetFlag(i, u) ==
  /\ phase[i] = "Setting" /\ u \in todo[i]
  /\ requested' = requested \cup {u}
  /\ todo' = [todo EXCEPT ![i] = @ \ {u}]
  /\ running' = [running EXCEPT ![i] = IF u \in parked THEN @ ELSE @ + 1]
  /\ UNCHANGED <<registered, parked, counting, stopped, owner, phase>>

FlagsAreSet(i) ==
  /\ phase[i] = "Setting" /\ todo[i] = {}
  /\ phase' = [phase EXCEPT ![i] = "Waiting"]
  /\ UNCHANGED <<registered, parked, requested, counting, stopped, running, owner,
                 todo>>

\* WaitUntilRunningThreadsInSafepoint returns; its thread is not parked.
ThreadsHaveStopped(i) ==
  /\ phase[i] = "Waiting" /\ stopped[i] >= running[i]
  /\ owner[i] \notin parked
  /\ phase' = [phase EXCEPT ![i] = "Stopped"]
  /\ UNCHANGED <<registered, parked, requested, counting, stopped, running, owner,
                 todo>>

BeginClearing(i) ==
  /\ phase[i] = "Stopped"
  /\ phase' = [phase EXCEPT ![i] = "Clearing"]
  /\ todo' = [todo EXCEPT ![i] = FlaggedHeaps(owner[i], i)]
  /\ UNCHANGED <<registered, parked, requested, counting, stopped, running, owner>>

ClearFlag(i, u) ==
  /\ phase[i] = "Clearing" /\ u \in todo[i]
  /\ requested' = requested \ {u}
  /\ todo' = [todo EXCEPT ![i] = @ \ {u}]
  /\ UNCHANGED <<registered, parked, counting, stopped, running, owner, phase>>

Disarm(i) ==
  /\ phase[i] = "Clearing" /\ todo[i] = {}
  /\ phase' = [phase EXCEPT ![i] = "Free"]
  /\ stopped' = [stopped EXCEPT ![i] = 0]
  /\ running' = [running EXCEPT ![i] = 0]
  /\ UNCHANGED <<registered, parked, requested, counting, owner, todo>>

-----------------------------------------------------------------------------
ThreadStep(t) == Park(t) \/ ParkOnRequest(t) \/ CountStopped(t) \/ Unpark(t)
ListStep(w) == AddLocalHeap(w) \/ RemoveLocalHeap(w)
FlagStep(i, u) == SetFlag(i, u) \/ ClearFlag(i, u)
IsolateStep(i) ==
  \/ UnlockHeaps(i) \/ FlagsAreSet(i) \/ ThreadsHaveStopped(i)
  \/ BeginClearing(i) \/ Disarm(i)

CoreNext ==
  \/ \E t \in Threads : ThreadStep(t)
  \/ \E t \in Threads, i \in Isolates : LockHeaps(t, i)
  \/ \E t, i \in Isolates : Arm(t, i)
  \/ \E w \in Workers : ListStep(w)
  \/ \E i \in Isolates, u \in Threads : FlagStep(i, u)
  \/ \E i \in Isolates : IsolateStep(i)

CoreSpec == CoreInit /\ [][CoreNext]_coreVars

-----------------------------------------------------------------------------
(* The inductive invariant.                                                *)

\* A thread whose LocalHeap is in no list is parked, a main thread's always is
\* in one; flags are in use only under the mutex of a main thread, which does
\* not park while the isolate is stopped.
ListsAndOwners ==
  /\ Isolates \subseteq registered
  /\ Threads \ registered \subseteq parked
  /\ \A i \in Isolates :
       /\ phase[i] # "Free" => owner[i] \in Isolates
       /\ phase[i] \in {"Stopped", "Clearing"} => owner[i] \notin parked

\* The flags that are set are those the initiator has set and not cleared.
IsFlagged(u) ==
  LET i == Home(u) IN
    /\ u \in registered /\ u # owner[i]
    /\ \/ phase[i] = "Setting" /\ u \notin todo[i]
       \/ phase[i] \in {"Waiting", "Stopped"}
       \/ phase[i] = "Clearing" /\ u \in todo[i]

FlagsMatchPhase ==
  /\ \A u \in Threads : u \in requested <=> IsFlagged(u)
  /\ \A i \in Isolates : phase[i] \in {"Setting", "Clearing"} =>
       todo[i] \subseteq FlaggedHeaps(owner[i], i)
  /\ counting \subseteq parked \cap requested

\* The threads of isolate i that will still count themselves.
Pending(i) ==
  {u \in requested : Home(u) = i /\ (u \notin parked \/ u \in counting)}

\* stopped_ and the pending threads make up the threads that were running when
\* their flag was set; when the wait is over nobody is pending.
CountsMatchPending ==
  \A i \in Isolates :
    /\ running[i] = stopped[i] + Cardinality(Pending(i))
    /\ phase[i] \in {"Stopped", "Clearing"} => Pending(i) = {}

CoreInv == CoreTypeOK /\ ListsAndOwners /\ FlagsMatchPhase /\ CountsMatchPending

-----------------------------------------------------------------------------
\* From the end of WaitUntilRunningThreadsInSafepoint until the first flag is
\* cleared, all threads of the isolate but the initiator are parked.
StoppedMeansParked ==
  \A i \in Isolates : phase[i] = "Stopped" =>
    \A u \in Threads : Home(u) = i /\ u # owner[i] => u \in parked

\* The Parked bits and the count of the barrier implement StopTheWorld, one
\* isolate at a time.
World == INSTANCE StopTheWorld WITH
           access <- Threads \ parked,
           stopped_by <- [i \in Isolates |-> IF phase[i] = "Stopped" THEN owner[i]
                                             ELSE Nobody]

ImplementsStopTheWorld == World!WorldSpec
=============================================================================

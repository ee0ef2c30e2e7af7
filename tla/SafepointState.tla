--------------------------- MODULE SafepointState ---------------------------
(***************************************************************************)
(* The state of the safepoint protocol: the state words of LocalHeaps, the *)
(* lists and mutexes of IsolateSafepoint and GlobalSafepoint, the two       *)
(* barriers, and the frames of the methods each thread is in.              *)
(*                                                                         *)
(* A state word is the set of its bits; Running is the empty set.  pc[t]   *)
(* names the method thread t executes next.                                *)
(***************************************************************************)
EXTENDS SafepointBarrier, CollectionBarrier

VARIABLES
  state,        \* LocalHeap::state_, the set of bits that are 1
  pc,           \* where each thread is
  seen,         \* current_state of the slow path a thread is in
  block_site,   \* what the thread's outer BlockWhileParked waits for
  lock_site,    \* what a main thread parked under IgnoreLocalGCRequests is for
  ignore_local_gc_requests,   \* Heap::ignore_local_gc_requests_depth_
  gc_return,    \* where a main thread goes on after CollectGarbage
  gc_heap,      \* the heap a thread last asked to be collected
  collected_since,  \* history: waiting threads whose heap was collected meanwhile
  interrupts,   \* interrupts and tasks pending for a main thread
  local_heaps,  \* IsolateSafepoint::local_heaps_head_, as a set
  clients,      \* GlobalSafepoint::clients_head_, as a set
  heaps_mutex,  \* owner of IsolateSafepoint::local_heaps_mutex_
  clients_mutex,    \* owner of GlobalSafepoint::clients_mutex_
  active_safepoint_scopes,    \* IsolateSafepoint::active_safepoint_scopes_
  global_scopes,    \* GlobalSafepoint::active_safepoint_scopes_
  collecting,   \* main threads whose safepoint is for a garbage collection
  target,       \* the isolate an initiator works on
  todo,         \* LocalHeaps the initiator's loop has still to visit
  unvisited,    \* isolates the initiator's loop has still to visit
  running,      \* running threads counted by SetSafepointRequestedFlags
  locked        \* isolates the initiator has locked and flagged

ignoreVars == <<lock_site, ignore_local_gc_requests>>
requestVars == <<gc_heap, collected_since>>
frameVars == <<seen, block_site, ignoreVars, gc_return, requestVars>>
callVars == <<gc_return, collecting, target>>     \* what CollectGarbage sets
loopVars == <<todo, unvisited, running, locked>>
initiatorVars == <<collecting, target, loopVars>>
listVars == <<local_heaps, clients>>
lockVars == <<heaps_mutex, clients_mutex>>
scopeVars == <<active_safepoint_scopes, global_scopes>>
mutexVars == <<lockVars, scopeVars>>
sharedVars == <<interrupts, listVars, mutexVars, barrierVars, collectionVars>>
otherVars == <<sharedVars, initiatorVars>>        \* all but a thread's own

vars == <<state, pc, frameVars, otherVars>>

\* LocalHeap::ThreadState: ParkedField, SafepointRequestedField,
\* CollectionRequestedField; a state word is the set of its bits.
IsParked(word) == "Parked" \in word
IsRunning(word) == "Parked" \notin word
IsSafepointRequested(word) == "SafepointRequested" \in word
IsCollectionRequested(word) == "CollectionRequested" \in word

\* AtomicThreadState: the fetch_or and fetch_and operations.
SetBit(t, bit) == state' = [state EXCEPT ![t] = @ \cup {bit}]
ClearBit(t, bit) == state' = [state EXCEPT ![t] = @ \ {bit}]

\* The labels of the code that sets, waits for and clears a safepoint.
EnterLabels == {"LockHeaps", "LockClients", "ClientsLocked",
                "InitiateClients", "Arm", "SetFlags", "WaitStopped"}
InSafepointLabels == {"StopTimer", "InSafepoint", "ClearCollection",
                      "ResumeCollection"}
LeaveLabels == {"Leave", "ClearFlags", "UnlockHeaps"}
InitiatorLabels == EnterLabels \cup InSafepointLabels \cup LeaveLabels

ParkLabels == {"Park", "ParkSlow"}
CountLabels == {"NotifyPark", "WaitInSafepoint"}
RequestLabels == {"SetCollectionRequested", "AwaitCollection",
                  "RequestInterrupt"}

\* Where the code of a registered thread may use the heap.
RunningLabels ==
  {"Run", "SleepInSafepoint", "Init", "Deserialize", "NotifyShutdown",
   "CancelAndWait", "Gone"}
    \cup ParkLabels \cup RequestLabels \cup InitiatorLabels

Goto(t, label) == pc' = [pc EXCEPT ![t] = label]

\* A main thread inside the scope of an IgnoreLocalGCRequests.
IgnoresRequests(t) == IsMainThread(t) /\ ignore_local_gc_requests[t] > 0

\* SafepointScope: the shared space isolate stops the threads of all clients.
EnterLabel(t) == IF IsSharedSpaceIsolate(t) THEN "LockClients" ELSE "LockHeaps"

\* Where a main thread goes on when it has unparked, ignoring requests.
AfterUnpark(site) ==
  CASE site = "Heaps" -> "Arm"
    [] site = "Clients" -> "ClientsLocked"
    [] site = "Deinit" -> "NotifyShutdown"
    [] OTHER -> "Run"

\* IterateSharedSpaceAndClientIsolates, or the one isolate of a local scope.
SafepointIsolates(t) == IF IsSharedSpaceIsolate(t) THEN clients \cup {t} ELSE {t}

\* IncludeMainThread::kNo for the clients too.
FlaggedBackgroundHeaps(t, i) == local_heaps[i] \ {i}

\* The LocalHeaps whose flag a scope of t sets and clears on isolate i:
\* IncludeMainThread::kNo exactly on the initiator's own isolate.
FlaggedHeaps(t, i) == IF i = t THEN local_heaps[i] \ {i} ELSE local_heaps[i]
=============================================================================

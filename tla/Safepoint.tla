------------------------------ MODULE Safepoint ------------------------------
(***************************************************************************)
(* Stopping the world: LocalHeap, IsolateSafepoint, GlobalSafepoint and the *)
(* parts of Heap and Isolate that drive them, composed with the two         *)
(* barriers.                                                               *)
(*                                                                         *)
(* A step is one atomic access to a LocalHeap's state word, one critical   *)
(* section of a mutex, or a run of thread-local code up to the next one.   *)
(* The loops over a list of LocalHeaps or isolates take one element per    *)
(* step, in any order.                                                     *)
(***************************************************************************)
EXTENDS SafepointState

CONSTANTS Operations,  \* what the program running on each thread may decide to do
          MaxScopes    \* bound on nested safepoint scopes of an isolate

\* Attach and detach a LocalHeap; park; request a collection of the own or of
\* the shared heap; collect; enter another safepoint scope; nest scopes in it;
\* tear the isolate down.
OperationNames == {"Attach", "Park", "RequestOwn", "RequestShared", "Collect",
                   "Scope", "Nest", "Quit"}

ASSUME SafepointAssumption ==
  /\ Operations \in [Threads -> SUBSET OperationNames]
  /\ MaxScopes \in Nat \ {0}

\* A client isolate has created its main thread's LocalHeap and unparked it,
\* and has not joined the shared isolate's clients yet.
Init ==
  /\ BarrierInit
  /\ CollectionInit
  /\ state = [t \in Threads |-> IF IsMainThread(t) THEN {} ELSE {"Parked"}]
  /\ pc = [t \in Threads |-> IF ~IsMainThread(t) THEN "NoHeap"
                             ELSE IF IsClient(t) THEN "Init" ELSE "Run"]
  /\ seen = [t \in Threads |-> {}]
  /\ block_site = [t \in Threads |-> "User"]
  /\ lock_site = [i \in Isolates |-> "None"]
  /\ ignore_local_gc_requests = [i \in Isolates |-> 0]
  /\ gc_return = [i \in Isolates |-> "Run"]
  /\ gc_heap = [t \in Threads |-> Home(t)]
  /\ collected_since = {}
  /\ interrupts = [i \in Isolates |-> {}]
  /\ local_heaps = [i \in Isolates |-> {i}]
  /\ clients = {}
  /\ heaps_mutex = [i \in Isolates |-> Nobody]
  /\ clients_mutex = Nobody
  /\ active_safepoint_scopes = [i \in Isolates |-> 0]
  /\ global_scopes = 0
  /\ collecting = {}
  /\ target = [i \in Isolates |-> i]
  /\ todo = [i \in Isolates |-> {}]
  /\ unvisited = [i \in Isolates |-> {}]
  /\ running = [i \in Isolates |-> 0]
  /\ locked = [i \in Isolates |-> {}]

-----------------------------------------------------------------------------
(* Life of a background thread's LocalHeap and of an isolate.              *)

\* An isolate whose background threads may be started: it is initialised and
\* has not begun to cancel its tasks.
StartsTasks(i) == pc[i] \notin {"Init", "Deserialize", "CancelAndWait", "Gone"}

ListIsFree(i) == heaps_mutex[i] = Nobody

\* AddLocalHeap and RemoveLocalHeap take the mutex ...
LockForList(t, from, to) ==
  /\ pc[t] = from
  /\ ListIsFree(Home(t))
  /\ heaps_mutex' = [heaps_mutex EXCEPT ![Home(t)] = t]
  /\ Goto(t, to)
  /\ UNCHANGED <<state, frameVars, interrupts, listVars, clients_mutex,
                 scopeVars, initiatorVars, barrierVars, collectionVars>>

\* LocalHeap's constructor on a background thread, up to the lock.
BeginAddLocalHeap(t) ==
  /\ ~IsMainThread(t)
  /\ "Attach" \in Operations[t]
  /\ StartsTasks(Home(t))
  /\ LockForList(t, "NoHeap", "AddHeap")

\* LocalHeap's destructor on a parked background thread, up to the lock.
BeginRemoveLocalHeap(t) ==
  /\ ~IsMainThread(t)
  /\ block_site[t] = "User"
  /\ LockForList(t, "Blocked", "RemoveHeap")

\* ... edit the list, and release the mutex.
AddLocalHeap(t) ==
  /\ pc[t] = "AddHeap"
  /\ local_heaps' = [local_heaps EXCEPT ![Home(t)] = @ \cup {t}]
  /\ state' = [state EXCEPT ![t] = {"Parked"}]
  /\ block_site' = [block_site EXCEPT ![t] = "User"]
  /\ heaps_mutex' = [heaps_mutex EXCEPT ![Home(t)] = Nobody]
  /\ Goto(t, "Blocked")
  /\ UNCHANGED <<seen, ignoreVars, gc_return, requestVars, interrupts, clients,
                 clients_mutex, scopeVars, initiatorVars, barrierVars,
                 collectionVars>>

RemoveLocalHeap(t) ==
  /\ pc[t] = "RemoveHeap"
  /\ local_heaps' = [local_heaps EXCEPT ![Home(t)] = @ \ {t}]
  /\ heaps_mutex' = [heaps_mutex EXCEPT ![Home(t)] = Nobody]
  /\ Goto(t, "NoHeap")
  /\ UNCHANGED <<state, frameVars, interrupts, clients, clients_mutex,
                 scopeVars, initiatorVars, barrierVars, collectionVars>>

ClientsAreNeverLocked == TRUE

ClientsAreFree == clients_mutex = Nobody

\* Isolate::Init of a client: it locks clients_mutex_ without parking (it is
\* not in the list yet) and keeps it while it deserializes its heap.
AppendClient(t) ==
  /\ pc[t] = "Init"
  /\ ClientsAreFree
  /\ clients_mutex' = t
  /\ clients' = clients \cup {t}
  /\ Goto(t, "Deserialize")
  /\ UNCHANGED <<state, frameVars, interrupts, local_heaps, heaps_mutex,
                 scopeVars, initiatorVars, barrierVars, collectionVars>>

FinishInit(t) ==
  /\ pc[t] = "Deserialize"
  /\ clients_mutex' = Nobody
  /\ Goto(t, "Run")
  /\ UNCHANGED <<state, frameVars, interrupts, listVars, heaps_mutex,
                 scopeVars, initiatorVars, barrierVars, collectionVars>>

\* Isolate::Deinit of a client first locks clients_mutex_, parked and ignoring
\* requests; the shared isolate is torn down after all its clients.
Deinit(t) ==
  /\ IsMainThread(t)
  /\ "Quit" \in Operations[t]
  /\ pc[t] = "Run"
  /\ IsSharedSpaceIsolate(t) => /\ clients = {}
                                /\ \A i \in Isolates \ {t} : pc[i] = "Gone"
  /\ IF IsClient(t)
       THEN /\ ignore_local_gc_requests' =
                 [ignore_local_gc_requests EXCEPT ![t] = @ + 1]
            /\ lock_site' = [lock_site EXCEPT ![t] = "Deinit"]
            /\ Goto(t, "Park")
       ELSE /\ Goto(t, "NotifyShutdown")
            /\ UNCHANGED ignoreVars
  /\ UNCHANGED <<state, seen, block_site, gc_return, requestVars, otherVars>>

\* Heap::StartTearDown.
StartTearDown(t) ==
  /\ pc[t] = "NotifyShutdown"
  /\ NotifyShutdownRequested(t)
  /\ Goto(t, "CancelAndWait")
  /\ UNCHANGED <<state, frameVars, interrupts, listVars, mutexVars,
                 initiatorVars, barrierVars>>

\* CancelableTaskManager::CancelAndWait returns when the isolate's background
\* threads are done; then the isolate leaves the clients and unlocks.
RemoveClient(t) ==
  /\ pc[t] = "CancelAndWait"
  /\ \A w \in Workers : Home(w) = t => pc[w] = "NoHeap"
  /\ clients' = clients \ {t}
  /\ clients_mutex' = IF IsClient(t) THEN Nobody ELSE clients_mutex
  /\ Goto(t, "Gone")
  /\ UNCHANGED <<state, frameVars, interrupts, local_heaps, heaps_mutex,
                 scopeVars, initiatorVars, barrierVars, collectionVars>>

-----------------------------------------------------------------------------
(* Calls into the garbage collector.                                       *)

\* Heap::CollectGarbage by main thread t, up to its safepoint scope.
CollectGarbage(t, return) ==
  /\ Goto(t, EnterLabel(t))
  /\ gc_return' = [gc_return EXCEPT ![t] = return]
  /\ collecting' = collecting \cup {t}
  /\ target' = [target EXCEPT ![t] = t]

-----------------------------------------------------------------------------
(* LocalHeap::Park and LocalHeap::Unpark.                                  *)

\* ParkedScope, or the end of a background thread's UnparkedScope: the thread
\* leaves the heap alone for a while.
BeginParkedScope(t) ==
  /\ IsMainThread(t) => "Park" \in Operations[t]
  /\ pc[t] = "Run"
  /\ block_site' = [block_site EXCEPT ![t] = "User"]
  /\ Goto(t, "Park")
  /\ UNCHANGED <<state, seen, ignoreVars, gc_return, requestVars, otherVars>>

\* The end of a ParkedScope, or an UnparkedScope of a background thread.
EndParkedScope(t) ==
  /\ pc[t] = "Blocked"
  /\ ~IgnoresRequests(t)
  /\ block_site[t] = "User"
  /\ Goto(t, "Unpark")
  /\ UNCHANGED <<state, frameVars, otherVars>>

\* The end of a slow path: its current_state is dead.
ForgetSeen(t) == seen' = [seen EXCEPT ![t] = {}]

\* The compare-and-swap of Park, and of each round of ParkSlowPath.
Park(t) ==
  /\ pc[t] = "Park"
  /\ IF state[t] = {}
       THEN SetBit(t, "Parked") /\ Goto(t, "Blocked") /\ UNCHANGED seen
       ELSE /\ seen' = [seen EXCEPT ![t] = state[t]]
            /\ Goto(t, "ParkSlow")
            /\ UNCHANGED state
  /\ UNCHANGED <<block_site, ignoreVars, gc_return, requestVars, otherVars>>

\* ParkSlowPath when a safepoint is requested; seen becomes old_state.
ParkForSafepoint(t) ==
  /\ pc[t] = "ParkSlow"
  /\ IsSafepointRequested(seen[t])
  /\ SetBit(t, "Parked")
  /\ seen' = [seen EXCEPT ![t] = state[t]]
  /\ Goto(t, "NotifyPark")
  /\ UNCHANGED <<block_site, ignoreVars, gc_return, requestVars, otherVars>>

NotifyPark(t) ==
  /\ pc[t] = "NotifyPark"
  /\ BarrierNotifyPark(Home(t))
  /\ Goto(t, IF IsMainThread(t) /\ IsCollectionRequested(seen[t])
               THEN "CancelCollection" ELSE "Blocked")
  /\ ForgetSeen(t)
  /\ UNCHANGED <<state, block_site, ignoreVars, gc_return, requestVars,
                 interrupts, listVars, mutexVars, initiatorVars,
                 collectionVars>>

\* ParkSlowPath of a main thread when only a collection is requested: it
\* collects first and tries again ...
ParkCollectsGarbage(t) ==
  /\ pc[t] = "ParkSlow"
  /\ ~IsSafepointRequested(seen[t])
  /\ ~IgnoresRequests(t)
  /\ CollectGarbage(t, "Park")
  /\ ForgetSeen(t)
  /\ UNCHANGED <<state, block_site, ignoreVars, requestVars, sharedVars,
                 loopVars>>

ParkedForgettingRequest(t) == Goto(t, "Blocked")

ParkedOverRequest(t) == Goto(t, "CancelCollection")

\* ... or, when requests are ignored, parks over the request and cancels it.
ParkIgnoringCollection(t) ==
  /\ pc[t] = "ParkSlow"
  /\ ~IsSafepointRequested(seen[t])
  /\ IgnoresRequests(t)
  /\ IF state[t] = seen[t]
       THEN SetBit(t, "Parked") /\ ParkedOverRequest(t)
       ELSE Goto(t, "Park") /\ UNCHANGED state
  /\ ForgetSeen(t)
  /\ UNCHANGED <<block_site, ignoreVars, gc_return, requestVars, otherVars>>

CancelCollection(t) ==
  /\ pc[t] = "CancelCollection"
  /\ CancelCollectionAndResumeThreads(Home(t))
  /\ Goto(t, "Blocked")
  /\ UNCHANGED <<state, frameVars, interrupts, listVars, mutexVars,
                 initiatorVars, barrierVars>>

\* The callback of a BlockWhileParked that locks a mutex for main thread t.
LockWhileParked(t) ==
  /\ IgnoresRequests(t)
  /\ pc[t] = "Blocked"
  /\ IF lock_site[t] = "Heaps"
       THEN /\ heaps_mutex[target[t]] = Nobody
            /\ heaps_mutex' = [heaps_mutex EXCEPT ![target[t]] = t]
            /\ UNCHANGED clients_mutex
       ELSE /\ clients_mutex = Nobody
            /\ clients_mutex' = t
            /\ UNCHANGED heaps_mutex
  /\ Goto(t, "Unpark")
  /\ UNCHANGED <<state, frameVars, interrupts, listVars, scopeVars,
                 initiatorVars, barrierVars, collectionVars>>

\* Return from Unpark, with the end of an IgnoreLocalGCRequests scope if there
\* is one, and of SafepointSlowPath if that is the caller.
FinishUnpark(t) ==
  IF IgnoresRequests(t)
    THEN /\ ignore_local_gc_requests' =
              [ignore_local_gc_requests EXCEPT ![t] = @ - 1]
         /\ lock_site' = [lock_site EXCEPT ![t] = "None"]
         /\ IF lock_site[t] = "SleepThenCollect"
              THEN CollectGarbage(t, "Run")
              ELSE /\ Goto(t, AfterUnpark(lock_site[t]))
                   /\ UNCHANGED callVars
    ELSE /\ Goto(t, "Run")
         /\ UNCHANGED <<ignoreVars, callVars>>

\* ThreadState::Parked(), the value Unpark expects.
OnlyParked(word) == word = {"Parked"}

\* The compare-and-swap of Unpark, and of each round of UnparkSlowPath.
Unpark(t) ==
  /\ pc[t] = "Unpark"
  /\ IF OnlyParked(state[t])
       THEN /\ ClearBit(t, "Parked")
            /\ FinishUnpark(t)
            /\ UNCHANGED seen
       ELSE /\ seen' = [seen EXCEPT ![t] = state[t]]
            /\ Goto(t, "UnparkSlow")
            /\ UNCHANGED <<state, ignoreVars, callVars>>
  /\ UNCHANGED <<block_site, requestVars, sharedVars, loopVars>>

\* UnparkSlowPath when a safepoint is requested: SleepInUnpark.
UnparkMeetsSafepoint(t) ==
  /\ pc[t] = "UnparkSlow"
  /\ IsSafepointRequested(seen[t])
  /\ Goto(t, "WaitInUnpark")
  /\ ForgetSeen(t)
  /\ UNCHANGED <<state, block_site, ignoreVars, gc_return, requestVars,
                 otherVars>>

WaitInUnpark(t) ==
  /\ pc[t] = "WaitInUnpark"
  /\ \/ SleepUntilDisarmed(Home(t), t) /\ UNCHANGED pc
     \/ WokenAndDisarmed(Home(t), t) /\ Goto(t, "Unpark") /\ UNCHANGED barrierVars
  /\ UNCHANGED <<state, frameVars, interrupts, listVars, mutexVars,
                 initiatorVars, collectionVars>>

\* UnparkSlowPath of a main thread when only a collection is requested.
UnparkMeetsCollection(t) ==
  /\ pc[t] = "UnparkSlow"
  /\ ~IsSafepointRequested(seen[t])
  /\ IF state[t] # seen[t]
       THEN /\ Goto(t, "Unpark")
            /\ UNCHANGED <<state, ignoreVars, callVars>>
       ELSE /\ ClearBit(t, "Parked")
            /\ IF IgnoresRequests(t)
                 THEN FinishUnpark(t)
                 ELSE /\ CollectGarbage(t, "Run")
                      /\ UNCHANGED ignoreVars
  /\ ForgetSeen(t)
  /\ UNCHANGED <<block_site, requestVars, sharedVars, loopVars>>

-----------------------------------------------------------------------------
(* LocalHeap::Safepoint, the poll of a running thread.                     *)

\* SafepointSlowPath up to its call.
SafepointSlowPath(t) ==
  IF IsSafepointRequested(state[t])
    THEN /\ seen' = [seen EXCEPT ![t] = state[t]]
         /\ Goto(t, "SleepInSafepoint")
         /\ UNCHANGED callVars
    ELSE CollectGarbage(t, "Run") /\ UNCHANGED seen

\* A poll that finds IsRunningWithSlowPathFlag false changes nothing.
Safepoint(t) ==
  /\ pc[t] = "Run"
  /\ state[t] # {}
  /\ SafepointSlowPath(t)
  /\ UNCHANGED <<state, block_site, ignoreVars, requestVars, sharedVars,
                 loopVars>>

SleepInSafepoint(t) ==
  /\ pc[t] = "SleepInSafepoint"
  /\ SetBit(t, "Parked")
  /\ Goto(t, "WaitInSafepoint")
  /\ UNCHANGED <<frameVars, otherVars>>

WaitInSafepoint(t) ==
  /\ pc[t] = "WaitInSafepoint"
  /\ BarrierWaitInSafepoint(Home(t), t)
  /\ Goto(t, "ResumeSafepoint")
  /\ UNCHANGED <<state, frameVars, interrupts, listVars, mutexVars,
                 initiatorVars, collectionVars>>

\* The rest of WaitInSafepoint, and the Unpark a main thread does ignoring
\* collection requests; SafepointSlowPath collects afterwards if it saw one.
ResumeFromSafepoint(t) ==
  /\ pc[t] = "ResumeSafepoint"
  /\ \/ /\ SleepUntilDisarmed(Home(t), t)
        /\ UNCHANGED <<pc, seen, ignoreVars>>
     \/ /\ WokenAndDisarmed(Home(t), t)
        /\ Goto(t, "Unpark")
        /\ ForgetSeen(t)
        /\ IF IsMainThread(t)
             THEN /\ ignore_local_gc_requests' =
                       [ignore_local_gc_requests EXCEPT ![t] = @ + 1]
                  /\ lock_site' = [lock_site EXCEPT ![t] =
                       IF IsCollectionRequested(seen[t])
                         THEN "SleepThenCollect" ELSE "Sleep"]
             ELSE UNCHANGED ignoreVars
        /\ UNCHANGED barrierVars
  /\ UNCHANGED <<state, block_site, gc_return, requestVars, interrupts,
                 listVars, mutexVars, initiatorVars, collectionVars>>

-----------------------------------------------------------------------------
(* Interrupts and posted tasks of a main thread.                           *)

\* HandleGCRequest, or the posted BackgroundCollectionInterruptTask.
HandleGCRequest(t) ==
  /\ IsMainThread(t)
  /\ pc[t] = "Run"
  /\ "GC" \in interrupts[t]
  /\ interrupts' = [interrupts EXCEPT ![t] = @ \ {"GC"}]
  /\ IF WasGCRequested(t)
       THEN CollectGarbage(t, "Run")
       ELSE UNCHANGED <<pc, callVars>>
  /\ UNCHANGED <<state, seen, block_site, ignoreVars, requestVars, listVars,
                 mutexVars, loopVars, barrierVars, collectionVars>>

\* The GLOBAL_SAFEPOINT interrupt, or the posted GlobalSafepointInterruptTask.
HandleGlobalSafepoint(t) ==
  /\ IsMainThread(t)
  /\ pc[t] = "Run"
  /\ "GlobalSafepoint" \in interrupts[t]
  /\ interrupts' = [interrupts EXCEPT ![t] = @ \ {"GlobalSafepoint"}]
  /\ IF state[t] # {}
       THEN SafepointSlowPath(t)
       ELSE UNCHANGED <<pc, seen, callVars>>
  /\ UNCHANGED <<state, block_site, ignoreVars, requestVars, listVars,
                 mutexVars, loopVars, barrierVars, collectionVars>>

-----------------------------------------------------------------------------
(* Heap::CollectGarbageFromAnyThread on a thread that may not collect heap  *)
(* h itself: its isolate's heap, or the shared heap.                       *)

InterruptLost(i, kind) == UNCHANGED interrupts

\* StackGuard::RequestInterrupt together with the task that is posted.
Interrupt(i, kind) == interrupts' = [interrupts EXCEPT ![i] = @ \cup {kind}]

\* Thread u has asked for a collection of heap h and not returned yet.
AwaitsCollection(u, h) ==
  gc_heap[u] = h /\ (pc[u] \in RequestLabels \/ block_site[u] = "Collection")

MayRequest(t, h) ==
  /\ t # h
  /\ \/ h = Home(t) /\ "RequestOwn" \in Operations[t]
     \/ IsSharedSpaceIsolate(h) /\ "RequestShared" \in Operations[t]

RequestCollection(t, h) ==
  /\ pc[t] = "Run"
  /\ MayRequest(t, h)
  /\ TryRequestGC(h)
  /\ gc_heap' = [gc_heap EXCEPT ![t] = h]
  /\ collected_since' = collected_since \ {t}
  /\ Goto(t, "SetCollectionRequested")
  /\ UNCHANGED <<state, seen, block_site, ignoreVars, gc_return, interrupts,
                 listVars, mutexVars, initiatorVars, barrierVars>>

\* The request is over: its locals are dead and get their initial values back.
EndRequest(t) ==
  /\ gc_heap' = [gc_heap EXCEPT ![t] = Home(t)]
  /\ collected_since' = collected_since \ {t}

MainThreadWasRunning(h) == IsRunning(state[h])

\* When the main thread is parked, nobody waits for a collection.
SetCollectionRequested(t) ==
  /\ pc[t] = "SetCollectionRequested"
  /\ SetBit(gc_heap[t], "CollectionRequested")
  /\ IF MainThreadWasRunning(gc_heap[t])
       THEN Goto(t, "AwaitCollection") /\ UNCHANGED requestVars
       ELSE Goto(t, "Run") /\ EndRequest(t)
  /\ UNCHANGED <<seen, block_site, ignoreVars, gc_return, otherVars>>

\* AwaitCollectionBackground: early returns, then block_for_collection_.
AwaitCollectionBackground(t) ==
  /\ pc[t] = "AwaitCollection"
  /\ \/ /\ CollectionNotAwaited(gc_heap[t])
        /\ Goto(t, "Run")
        /\ EndRequest(t)
        /\ UNCHANGED <<block_site, collectionVars>>
     \/ /\ BlockForCollection(gc_heap[t])
        /\ block_site' = [block_site EXCEPT ![t] = "Collection"]
        /\ Goto(t, IF gc_heap[t] \in block_for_collection
                     THEN "Park" ELSE "RequestInterrupt")
        /\ UNCHANGED requestVars
  /\ UNCHANGED <<state, seen, ignoreVars, gc_return, interrupts, listVars,
                 mutexVars, initiatorVars, barrierVars>>

\* The first thread that blocks activates the stack guard and posts the task.
RequestInterrupt(t) ==
  /\ pc[t] = "RequestInterrupt"
  /\ Interrupt(gc_heap[t], "GC")
  /\ Goto(t, "Park")
  /\ UNCHANGED <<state, frameVars, listVars, mutexVars, initiatorVars,
                 barrierVars, collectionVars>>

\* The callback that waits on cv_wakeup_ while the thread is parked.
AwaitWakeup(t) ==
  /\ pc[t] = "Blocked"
  /\ ~IgnoresRequests(t)
  /\ block_site[t] = "Collection"
  /\ \/ /\ SleepUntilWakeup(gc_heap[t], t)
        /\ UNCHANGED <<pc, block_site, requestVars>>
     \/ /\ DoneAwaiting(gc_heap[t], t)
        /\ EndRequest(t)
        /\ block_site' = [block_site EXCEPT ![t] = "User"]
        /\ Goto(t, "Unpark")
        /\ UNCHANGED collectionVars
  /\ UNCHANGED <<state, seen, ignoreVars, gc_return, interrupts, listVars,
                 mutexVars, initiatorVars, barrierVars>>

-----------------------------------------------------------------------------
(* Entering a safepoint: SafepointScope of main thread t.                  *)

\* A collection the main thread starts for a reason of its own.
StartCollection(t) ==
  /\ IsMainThread(t)
  /\ "Collect" \in Operations[t]
  /\ pc[t] = "Run"
  /\ CollectGarbage(t, "Run")
  /\ UNCHANGED <<state, seen, block_site, ignoreVars, requestVars, sharedVars,
                 loopVars>>

\* A safepoint for another reason, such as StartIncrementalMarking.
StartSafepointScope(t) ==
  /\ IsMainThread(t)
  /\ "Scope" \in Operations[t]
  /\ pc[t] = "Run"
  /\ Goto(t, EnterLabel(t))
  /\ gc_return' = [gc_return EXCEPT ![t] = "Run"]
  /\ collecting' = collecting \ {t}
  /\ target' = [target EXCEPT ![t] = t]
  /\ UNCHANGED <<state, seen, block_site, ignoreVars, requestVars, sharedVars,
                 loopVars>>

\* What LockMutex and EnterGlobalSafepointScope do when TryLock fails: park,
\* ignoring collection requests.
ParkToLock(t, site) ==
  /\ ignore_local_gc_requests' = [ignore_local_gc_requests EXCEPT ![t] = @ + 1]
  /\ lock_site' = [lock_site EXCEPT ![t] = site]
  /\ Goto(t, "Park")
  /\ UNCHANGED lockVars

\* IsolateSafepoint::LockMutex of the initiator's target.
LockMutex(t) ==
  /\ pc[t] = "LockHeaps"
  /\ IF heaps_mutex[target[t]] = Nobody
       THEN /\ heaps_mutex' = [heaps_mutex EXCEPT ![target[t]] = t]
            /\ Goto(t, "Arm")
            /\ UNCHANGED <<ignoreVars, clients_mutex>>
       ELSE ParkToLock(t, "Heaps")
  /\ UNCHANGED <<state, seen, block_site, gc_return, requestVars, interrupts,
                 listVars, scopeVars, initiatorVars, barrierVars,
                 collectionVars>>

\* EnterGlobalSafepointScope: clients_mutex_ first.
LockClients(t) ==
  /\ pc[t] = "LockClients"
  /\ IF clients_mutex = Nobody
       THEN /\ clients_mutex' = t
            /\ Goto(t, "ClientsLocked")
            /\ UNCHANGED <<ignoreVars, heaps_mutex>>
       ELSE ParkToLock(t, "Clients")
  /\ UNCHANGED <<state, seen, block_site, gc_return, requestVars, interrupts,
                 listVars, scopeVars, initiatorVars, barrierVars,
                 collectionVars>>

EnterGlobalSafepointScope(t) ==
  /\ pc[t] = "ClientsLocked"
  /\ global_scopes' = global_scopes + 1
  /\ unvisited' = [unvisited EXCEPT ![t] = SafepointIsolates(t)]
  /\ Goto(t, "InitiateClients")
  /\ UNCHANGED <<state, frameVars, interrupts, listVars, lockVars,
                 active_safepoint_scopes, collecting, target, todo, running,
                 locked, barrierVars, collectionVars>>

\* First pass: an isolate whose mutex is not free is left for the second.
TryInitiateGlobalSafepointScope(t) ==
  /\ pc[t] = "InitiateClients"
  /\ \E i \in unvisited[t] :
       /\ unvisited' = [unvisited EXCEPT ![t] = @ \ {i}]
       /\ IF heaps_mutex[i] = Nobody
            THEN /\ heaps_mutex' = [heaps_mutex EXCEPT ![i] = t]
                 /\ target' = [target EXCEPT ![t] = i]
                 /\ Goto(t, "Arm")
            ELSE UNCHANGED <<pc, heaps_mutex, target>>
  /\ UNCHANGED <<state, frameVars, interrupts, listVars, clients_mutex,
                 scopeVars, collecting, todo, running, locked, barrierVars,
                 collectionVars>>

\* Second pass: the isolates that are not locked yet, even if it blocks.
InitiateGlobalSafepointScope(t) ==
  /\ pc[t] = "InitiateClients"
  /\ unvisited[t] = {}
  /\ \E i \in SafepointIsolates(t) \ locked[t] :
       target' = [target EXCEPT ![t] = i]
  /\ Goto(t, "LockHeaps")
  /\ UNCHANGED <<state, frameVars, sharedVars, collecting, loopVars>>

AllAreTried(t) == TRUE

AllAreLocked(t) == SafepointIsolates(t) \subseteq locked[t]

\* All isolates are locked: wait for their threads.
AllClientsInitiated(t) ==
  /\ pc[t] = "InitiateClients"
  /\ unvisited[t] = {}
  /\ AllAreLocked(t)
  /\ unvisited' = [unvisited EXCEPT ![t] = SafepointIsolates(t)]
  /\ Goto(t, "WaitStopped")
  /\ UNCHANGED <<state, frameVars, sharedVars, collecting, target, todo,
                 running, locked>>

\* The mutex is held and active_safepoint_scopes_ goes from 0 to 1:
\* EnterLocalSafepointScope and InitiateGlobalSafepointScopeRaw.
ArmBarrier(t) ==
  /\ pc[t] = "Arm"
  /\ active_safepoint_scopes' =
       [active_safepoint_scopes EXCEPT ![target[t]] = @ + 1]
  /\ Arm(target[t])
  /\ todo' = [todo EXCEPT ![t] = FlaggedHeaps(t, target[t])]
  /\ running' = [running EXCEPT ![target[t]] = 0]
  /\ Goto(t, "SetFlags")
  /\ UNCHANGED <<state, frameVars, interrupts, listVars, lockVars,
                 global_scopes, collecting, target, unvisited, locked,
                 collectionVars>>

\* One round of the loop of SetSafepointRequestedFlags.
SetSafepointRequestedFlags(t) ==
  /\ pc[t] = "SetFlags"
  /\ \E u \in todo[t] :
       /\ SetBit(u, "SafepointRequested")
       /\ todo' = [todo EXCEPT ![t] = @ \ {u}]
       /\ running' = [running EXCEPT ![target[t]] =
                        IF IsRunning(state[u]) THEN @ + 1 ELSE @]
  /\ UNCHANGED <<pc, frameVars, sharedVars, collecting, target, unvisited,
                 locked>>

\* The flags are set: set_locked_and_running, and on another isolate the
\* posted task and the interrupt that make its main thread poll.
FlagsAreSet(t) ==
  /\ pc[t] = "SetFlags"
  /\ todo[t] = {}
  /\ locked' = [locked EXCEPT ![t] = @ \cup {target[t]}]
  /\ IF target[t] = t THEN UNCHANGED interrupts
       ELSE Interrupt(target[t], "GlobalSafepoint")
  /\ IF IsSharedSpaceIsolate(t)
       THEN Goto(t, "InitiateClients") /\ UNCHANGED unvisited
       ELSE /\ Goto(t, "WaitStopped")
            /\ unvisited' = [unvisited EXCEPT ![t] = {t}]
  /\ UNCHANGED <<state, frameVars, listVars, mutexVars, collecting, target,
                 todo, running, barrierVars, collectionVars>>

\* WaitUntilRunningThreadsInSafepoint for one isolate after the other.
WaitUntilRunningThreadsInSafepoint(t) ==
  /\ pc[t] = "WaitStopped"
  /\ \A i \in Isolates : t \notin cv_stopped[i]
  /\ \E i \in unvisited[t] :
       \/ /\ SleepUntilStopped(i, t, running[i])
          /\ UNCHANGED unvisited
       \/ /\ RunningThreadsStopped(i, t, running[i])
          /\ unvisited' = [unvisited EXCEPT ![t] = @ \ {i}]
          /\ UNCHANGED barrierVars
  /\ UNCHANGED <<state, pc, frameVars, interrupts, listVars, mutexVars,
                 collecting, target, todo, running, locked, collectionVars>>

SafepointReached(t) ==
  /\ pc[t] = "WaitStopped"
  /\ unvisited[t] = {}
  /\ Goto(t, IF t \in collecting THEN "StopTimer" ELSE "InSafepoint")
  /\ UNCHANGED <<state, frameVars, otherVars>>

-----------------------------------------------------------------------------
(* In the safepoint: Heap::PerformGarbageCollection and nested scopes.     *)

StopTimer(t) ==
  /\ pc[t] = "StopTimer"
  /\ StopTimeToCollectionTimer(t)
  /\ Goto(t, "InSafepoint")
  /\ UNCHANGED <<state, frameVars, interrupts, listVars, mutexVars,
                 initiatorVars, barrierVars>>

\* A scope inside the scope, such as a heap iterator's: the recursive mutex is
\* already held, the count rises and nothing else happens.
EnterNestedScope(t) ==
  /\ pc[t] = "InSafepoint"
  /\ "Nest" \in Operations[t]
  /\ \/ /\ \E i \in SafepointIsolates(t) :
             /\ active_safepoint_scopes[i] < MaxScopes
             /\ active_safepoint_scopes' =
                  [active_safepoint_scopes EXCEPT ![i] = @ + 1]
        /\ UNCHANGED global_scopes
     \/ /\ IsSharedSpaceIsolate(t)
        /\ global_scopes < MaxScopes
        /\ global_scopes' = global_scopes + 1
        /\ UNCHANGED active_safepoint_scopes
  /\ UNCHANGED <<state, pc, frameVars, interrupts, listVars, lockVars,
                 initiatorVars, barrierVars, collectionVars>>

LeaveNestedScope(t) ==
  /\ pc[t] = "InSafepoint"
  /\ \/ /\ \E i \in SafepointIsolates(t) :
             /\ active_safepoint_scopes[i] > 1
             /\ active_safepoint_scopes' =
                  [active_safepoint_scopes EXCEPT ![i] = @ - 1]
        /\ UNCHANGED global_scopes
     \/ /\ global_scopes > 1
        /\ IsSharedSpaceIsolate(t)
        /\ global_scopes' = global_scopes - 1
        /\ UNCHANGED active_safepoint_scopes
  /\ UNCHANGED <<state, pc, frameVars, interrupts, listVars, lockVars,
                 initiatorVars, barrierVars, collectionVars>>

\* Scopes are C++ objects: the outermost one ends after those inside it.
NoNestedScope(t) ==
  /\ \A i \in SafepointIsolates(t) : active_safepoint_scopes[i] = 1
  /\ IsSharedSpaceIsolate(t) => global_scopes = 1

\* The collection is done and its epilogue begins, or there is none to do.
FinishInSafepoint(t) ==
  /\ pc[t] = "InSafepoint"
  /\ NoNestedScope(t)
  /\ IF t \in collecting
       THEN Goto(t, "ClearCollection") /\ UNCHANGED unvisited
       ELSE /\ Goto(t, "Leave")
            /\ unvisited' = [unvisited EXCEPT ![t] = SafepointIsolates(t)]
  /\ UNCHANGED <<state, frameVars, sharedVars, collecting, target, todo,
                 running, locked>>

\* GarbageCollectionEpilogueInSafepoint; the heap may be verified after it.
ClearCollectionRequested(t) ==
  /\ pc[t] = "ClearCollection"
  /\ ClearBit(t, "CollectionRequested")
  /\ Goto(t, "ResumeCollection")
  /\ UNCHANGED <<frameVars, otherVars>>

ResumeCollection(t) ==
  /\ pc[t] = "ResumeCollection"
  /\ ResumeThreadsAwaitingCollection(t)
  /\ collected_since' = collected_since \cup {u \in Threads : AwaitsCollection(u, t)}
  /\ collecting' = collecting \ {t}
  /\ Goto(t, "InSafepoint")
  /\ UNCHANGED <<state, seen, block_site, ignoreVars, gc_return, gc_heap,
                 interrupts, listVars, mutexVars, target, loopVars,
                 barrierVars>>

-----------------------------------------------------------------------------
(* Leaving a safepoint.                                                    *)

SameScopes(n) == n

OneScopeLess(n) == n - 1

\* LeaveLocalSafepointScope, or the next LeaveGlobalSafepointScope(initiator).
LeaveSafepointScope(t) ==
  /\ pc[t] = "Leave"
  /\ \E i \in unvisited[t] :
       /\ unvisited' = [unvisited EXCEPT ![t] = @ \ {i}]
       /\ target' = [target EXCEPT ![t] = i]
       /\ todo' = [todo EXCEPT ![t] = FlaggedHeaps(t, i)]
       /\ locked' = [locked EXCEPT ![t] = @ \ {i}]
       /\ active_safepoint_scopes' =
            [active_safepoint_scopes EXCEPT ![i] = OneScopeLess(@)]
  /\ Goto(t, "ClearFlags")
  /\ UNCHANGED <<state, frameVars, interrupts, listVars, lockVars,
                 global_scopes, collecting, running, barrierVars,
                 collectionVars>>

\* One round of the loop of ClearSafepointRequestedFlags.
ClearSafepointRequestedFlags(t) ==
  /\ pc[t] = "ClearFlags"
  /\ \E u \in todo[t] :
       /\ ClearBit(u, "SafepointRequested")
       /\ todo' = [todo EXCEPT ![t] = @ \ {u}]
  /\ UNCHANGED <<pc, frameVars, sharedVars, collecting, target, unvisited,
                 running, locked>>

\* The flags are cleared; the count of running threads is dead from here on.
DisarmBarrier(t) ==
  /\ pc[t] = "ClearFlags"
  /\ todo[t] = {}
  /\ Disarm(target[t])
  /\ running' = [running EXCEPT ![target[t]] = 0]
  /\ Goto(t, "UnlockHeaps")
  /\ UNCHANGED <<state, frameVars, interrupts, listVars, mutexVars, collecting,
                 target, todo, unvisited, locked, collectionVars>>

UnlockHeaps(t) ==
  /\ pc[t] = "UnlockHeaps"
  /\ heaps_mutex' = [heaps_mutex EXCEPT ![target[t]] = Nobody]
  /\ Goto(t, "Leave")
  /\ UNCHANGED <<state, frameVars, interrupts, listVars, clients_mutex,
                 scopeVars, initiatorVars, barrierVars, collectionVars>>

\* The end of the scope: clients_mutex_ last, then back to the caller.
ScopeIsLeft(t) ==
  /\ pc[t] = "Leave"
  /\ unvisited[t] = {}
  /\ IF IsSharedSpaceIsolate(t)
       THEN global_scopes' = global_scopes - 1 /\ clients_mutex' = Nobody
       ELSE UNCHANGED <<clients_mutex, global_scopes>>
  /\ target' = [target EXCEPT ![t] = t]
  /\ gc_return' = [gc_return EXCEPT ![t] = "Run"]
  /\ Goto(t, gc_return[t])
  /\ UNCHANGED <<state, seen, block_site, ignoreVars, requestVars, interrupts,
                 listVars, heaps_mutex, active_safepoint_scopes, collecting,
                 loopVars, barrierVars, collectionVars>>

-----------------------------------------------------------------------------
\* A condition variable may wake a sleeper without a notification.
SpuriousWakeup(t) ==
  /\ \E i \in Isolates :
       \/ /\ t \in cv_resume[i]
          /\ cv_resume' = [cv_resume EXCEPT ![i] = @ \ {t}]
          /\ UNCHANGED <<cv_stopped, cv_wakeup>>
       \/ /\ t \in cv_stopped[i]
          /\ cv_stopped' = [cv_stopped EXCEPT ![i] = @ \ {t}]
          /\ UNCHANGED <<cv_resume, cv_wakeup>>
       \/ /\ t \in cv_wakeup[i]
          /\ cv_wakeup' = [cv_wakeup EXCEPT ![i] = @ \ {t}]
          /\ UNCHANGED <<cv_stopped, cv_resume>>
  /\ UNCHANGED <<state, pc, frameVars, interrupts, listVars, mutexVars,
                 initiatorVars, armed, stopped, timer_started,
                 collection_performed, shutdown_requested,
                 collection_requested, block_for_collection>>

\* What the code of a thread goes on with by itself, once it is in a method.
Continue(t) ==
  \/ AddLocalHeap(t) \/ RemoveLocalHeap(t)
  \/ AppendClient(t) \/ FinishInit(t) \/ StartTearDown(t) \/ RemoveClient(t)
  \/ Park(t) \/ ParkForSafepoint(t) \/ NotifyPark(t)
  \/ ParkCollectsGarbage(t) \/ ParkIgnoringCollection(t) \/ CancelCollection(t)
  \/ Unpark(t) \/ UnparkMeetsSafepoint(t) \/ WaitInUnpark(t)
  \/ UnparkMeetsCollection(t)
  \/ SleepInSafepoint(t) \/ WaitInSafepoint(t) \/ ResumeFromSafepoint(t)
  \/ SetCollectionRequested(t) \/ AwaitCollectionBackground(t)
  \/ RequestInterrupt(t) \/ AwaitWakeup(t)
  \/ EnterGlobalSafepointScope(t)
  \/ TryInitiateGlobalSafepointScope(t) \/ InitiateGlobalSafepointScope(t)
  \/ AllClientsInitiated(t)
  \/ LockMutex(t) \/ LockClients(t)
  \/ ArmBarrier(t) \/ SetSafepointRequestedFlags(t) \/ FlagsAreSet(t)
  \/ WaitUntilRunningThreadsInSafepoint(t) \/ SafepointReached(t)
  \/ StopTimer(t) \/ FinishInSafepoint(t)
  \/ ClearCollectionRequested(t) \/ ResumeCollection(t)
  \/ LeaveSafepointScope(t) \/ ClearSafepointRequestedFlags(t)
  \/ DisarmBarrier(t) \/ UnlockHeaps(t) \/ ScopeIsLeft(t)

\* What the program decides: when to attach, park, poll, allocate or quit.
Decide(t) ==
  \/ BeginAddLocalHeap(t) \/ BeginRemoveLocalHeap(t) \/ Deinit(t)
  \/ BeginParkedScope(t) \/ EndParkedScope(t)
  \/ Safepoint(t)
  \/ \E h \in Isolates : RequestCollection(t, h)
  \/ StartCollection(t) \/ StartSafepointScope(t)
  \/ EnterNestedScope(t) \/ LeaveNestedScope(t)

HandleInterrupts(t) == HandleGCRequest(t) \/ HandleGlobalSafepoint(t)

\* Every isolate is torn down.
Finished == (\A i \in Isolates : pc[i] = "Gone") /\ UNCHANGED vars

Next ==
  \/ \E t \in Threads : \/ Continue(t) \/ LockWhileParked(t) \/ Decide(t)
                        \/ HandleInterrupts(t) \/ SpuriousWakeup(t)
  \/ Finished

Spec == Init /\ [][Next]_vars

\* Threads are scheduled, and inside a method do not stop by themselves; a
\* running main thread handles its interrupts and a running background thread
\* polls; a mutex that is released again and again is acquired at last.
Fairness ==
  /\ \A t \in Threads : WF_vars(Continue(t))
  /\ \A i \in Isolates : WF_vars(HandleInterrupts(i)) /\ SF_vars(LockWhileParked(i))
  /\ \A w \in Workers : SF_vars(Safepoint(w))

FairSpec == Spec /\ Fairness

\* The tasks of an isolate that is being torn down come to their end: each
\* parks at last, and parked it destroys its LocalHeap at last.
TasksEnd ==
  \A w \in Workers :
    /\ SF_vars(Home(w) \in shutdown_requested /\ BeginParkedScope(w))
    /\ SF_vars(Home(w) \in shutdown_requested /\ BeginRemoveLocalHeap(w))

TearDownSpec == FairSpec /\ TasksEnd

-----------------------------------------------------------------------------
(* Properties.                                                             *)

\* While a main thread is in its safepoint (IsolateSafepointScope or
\* GlobalSafepointScope held, all WaitUntilRunningThreadsInSafepoint done), the
\* state word of every other LocalHeap of every isolate it stopped is Parked,
\* and none of their threads is at a point where it uses the heap.
WorldIsStopped ==
  \A t \in Isolates : pc[t] \in InSafepointLabels =>
    \A i \in SafepointIsolates(t) : \A u \in local_heaps[i] \ {t} :
      IsParked(state[u]) /\ pc[u] \notin RunningLabels

\* The CHECKs and DCHECKs of safepoint.cc and local-heap.cc: a thread that
\* counts itself finds the barrier armed; flags are set on words without the
\* flag and cleared on parked words with it; only main threads are asked to
\* collect; scopes and barrier are off when a safepoint is initiated; the
\* initiator never sees more stopped than running threads; a background thread
\* takes the slow path of Park only for a safepoint.
SafepointChecks ==
  /\ \A t \in Threads :
       /\ pc[t] \in CountLabels => IsArmed(Home(t))
       /\ pc[t] = "SleepInSafepoint" =>
            IsRunning(state[t]) /\ IsSafepointRequested(state[t])
       /\ pc[t] \in {"ParkSlow", "UnparkSlow"} /\ ~IsMainThread(t) =>
            IsSafepointRequested(seen[t])
       /\ IsCollectionRequested(state[t]) => IsMainThread(t)
  /\ \A t \in Isolates :
       /\ pc[t] = "Arm" => /\ ~IsArmed(target[t])
                           /\ active_safepoint_scopes[target[t]] = 0
       /\ pc[t] = "SetFlags" =>
            \A u \in todo[t] : ~IsSafepointRequested(state[u])
       /\ pc[t] = "ClearFlags" =>
            /\ active_safepoint_scopes[target[t]] = 0
            /\ \A u \in todo[t] : IsParked(state[u]) /\ IsSafepointRequested(state[u])
       /\ pc[t] = "WaitStopped" => \A i \in unvisited[t] : IsArmed(i)
       /\ pc[t] \in {"WaitStopped"} \cup InSafepointLabels =>
            \A i \in SafepointIsolates(t) \ unvisited[t] : stopped[i] = running[i]
       /\ pc[t] = "ClearCollection" => IsRunning(state[t])

\* The CHECKs of collection-barrier.cc about timer_: it is stopped when the
\* first request starts it, running when a thread decides to wait for the
\* collection and when the collection stops it, and stopped when the waiting
\* threads are resumed.
TimerChecks ==
  /\ \A h \in Isolates \ (shutdown_requested \cup collection_requested) :
       h \notin timer_started
  /\ \A t \in Threads : pc[t] = "AwaitCollection" /\ ~CollectionNotAwaited(gc_heap[t])
       => gc_heap[t] \in timer_started
  /\ \A t \in Isolates :
       /\ pc[t] = "StopTimer" /\ WasGCRequested(t) => t \in timer_started
       /\ pc[t] = "ResumeCollection" => t \notin timer_started

\* No thread sleeps on a condition variable whose condition has come true: not
\* on cv_resume_ of a disarmed barrier, not on cv_stopped_ when all running
\* threads have stopped, not on cv_wakeup_ when nothing blocks for a collection
\* or the heap is shutting down.
NoLostWakeup ==
  \A i \in Isolates :
    /\ cv_resume[i] # {} => IsArmed(i)
    /\ cv_stopped[i] # {} => stopped[i] < running[i]
    /\ cv_wakeup[i] # {} => i \in block_for_collection \ shutdown_requested

\* AwaitCollectionBackground returns true only to a thread whose heap was
\* really collected after the thread had asked: a collection_performed_ left
\* by an earlier collection is never taken for an answer.
AnswerIsTrue ==
  \A t \in Threads :
    /\ pc[t] = "Blocked" /\ ~IgnoresRequests(t) /\ block_site[t] = "Collection"
    /\ DoneAwaiting(gc_heap[t], t) /\ AwaitedCollectionPerformed(gc_heap[t])
    => t \in collected_since

\* A safepoint covers a fixed set of threads: while an isolate's barrier is
\* armed no LocalHeap joins or leaves it, and while a global safepoint is being
\* entered, held or left no isolate joins or leaves the clients.
ParticipantsAreFixed ==
  [][/\ \A i \in armed : local_heaps'[i] = local_heaps[i]
     /\ global_scopes > 0 => clients' = clients]_vars

\* A main thread that begins to enter a safepoint scope reaches the safepoint,
\* whatever the other isolates and their threads do meanwhile.
SafepointIsReached ==
  \A t \in Isolates : pc[t] = EnterLabel(t) ~> pc[t] \in InSafepointLabels

\* block_for_collection_ does not stay set: the threads that wait for the
\* collection of a heap are released, by the collection, by its cancellation
\* or by the heap's tear-down.
BlockIsLifted ==
  \A h \in Isolates :
    h \in block_for_collection ~> (h \notin block_for_collection
                                     \/ h \in shutdown_requested)

\* Isolate::Deinit comes to its end although the isolate holds clients_mutex_
\* and waits, unparked, for background threads that may themselves be waiting
\* for a shared collection that needs clients_mutex_.
TearDownCompletes ==
  \A t \in Isolates : pc[t] = "CancelAndWait" ~> pc[t] = "Gone"

-----------------------------------------------------------------------------
(* Safepoints implement SafepointCore.                                     *)

\* What the initiator that holds the mutex of isolate i does with its flags.
CorePhase(i) ==
  LET u == heaps_mutex[i] IN
    CASE u \notin Isolates -> "Free"
      [] u \in Isolates /\ i \in locked[u] ->
           IF \/ pc[u] \in InSafepointLabels \cup LeaveLabels
              \/ pc[u] = "WaitStopped" /\ i \notin unvisited[u]
           THEN "Stopped" ELSE "Waiting"
      [] u \in Isolates /\ i \notin locked[u] ->
           IF target[u] = i /\ pc[u] = "SetFlags" THEN "Setting"
           ELSE IF target[u] = i /\ pc[u] = "ClearFlags" THEN "Clearing" ELSE "Free"

Core == INSTANCE SafepointCore WITH
          registered <- UNION {local_heaps[i] : i \in Isolates},
          parked <- {t \in Threads : IsParked(state[t])},
          requested <- {t \in Threads : IsSafepointRequested(state[t])},
          counting <- {t \in Threads : pc[t] \in CountLabels},
          owner <- heaps_mutex,
          phase <- [i \in Isolates |-> CorePhase(i)],
          todo <- [i \in Isolates |-> IF CorePhase(i) \in {"Setting", "Clearing"}
                                      THEN todo[heaps_mutex[i]] ELSE {}]

\* The methods of LocalHeap, IsolateSafepoint and GlobalSafepoint use the state
\* words, the count of the barrier and the mutex of the list as SafepointCore
\* says, whose threads are proved to be stopped.
ImplementsCore == Core!CoreSpec
=============================================================================

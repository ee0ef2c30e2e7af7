------------------------------ MODULE JSAtomics ------------------------------
(***************************************************************************)
(* A JSAtomicsMutex and a JSAtomicsCondition used by the main threads of   *)
(* several isolates.  Each shared word is a state with lock bits and the   *)
(* head of a queue of sleeping threads, which stands here for the queue    *)
(* itself.  A compare-and-swap that fails, spuriously or not, is retried by *)
(* a loop and is no step; a successful one is.                             *)
(***************************************************************************)
EXTENDS Integers, Sequences, Functions

CONSTANTS Threads, Nobody,
          MaxCalls,     \* bound on the calls of Lock and TryLock per thread
          Counts,       \* the counts Notify may be called with; {} for no condition
          Timeouts      \* whether WaitFor may be called with a timeout

ASSUME JSAtomicsAssumption ==
  /\ Nobody \notin Threads
  /\ MaxCalls \in Nat /\ Counts \subseteq Nat \ {0} /\ Timeouts \in BOOLEAN

VARIABLES
  mutex,        \* JSAtomicsMutex::state
  owner,        \* JSAtomicsMutex::owner_thread_id
  cv,           \* JSAtomicsCondition::state
  should_wait,  \* threads whose WaiterQueueNode has should_wait
  pc, calls,
  current,      \* current_state of a thread that holds a queue lock
  after,        \* where a thread goes on after Unlock or Notify
  count,        \* the argument of Notify
  list,         \* the waiters a thread has dequeued and will notify
  stale         \* those of them that have given up waiting since

vars == <<mutex, owner, cv, should_wait, pc, calls, current, after, count, list,
          stale>>
callVars == <<after, count, list, stale>>

\* kUnlocked and kEmptyState; a condition never uses the bit locked.
Word(locked, queue_locked, queue) ==
  [locked |-> locked, queue_locked |-> queue_locked, queue |-> queue]
Unlocked == Word(FALSE, FALSE, <<>>)
LockedUncontended == Word(TRUE, FALSE, <<>>)
WithLock(word) == Word(TRUE, word.queue_locked, word.queue)
WithQueueLock(word) == Word(word.locked, TRUE, word.queue)

\* Labels of a thread that has the mutex and has not let go of it.
HolderLabels == {"SetOwner", "Owner", "CvQueue", "CvEnqueue", "CvUnlock",
                 "UnlockFast", "UnlockSlow", "Dequeue"}

Init ==
  /\ mutex = Unlocked /\ cv = Unlocked /\ owner = Nobody
  /\ should_wait = {}
  /\ pc = [t \in Threads |-> "Idle"] /\ calls = [t \in Threads |-> 0]
  /\ current = [t \in Threads |-> Unlocked]
  /\ after = [t \in Threads |-> "Idle"] /\ count = [t \in Threads |-> 0]
  /\ list = [t \in Threads |-> <<>>] /\ stale = [t \in Threads |-> {}]

Goto(t, label) == pc' = [pc EXCEPT ![t] = label]

-----------------------------------------------------------------------------
(* JSAtomicsMutex                                                          *)

CallLock(t) ==
  /\ pc[t] = "Idle" /\ calls[t] < MaxCalls
  /\ calls' = [calls EXCEPT ![t] = @ + 1]
  /\ Goto(t, "Lock")
  /\ UNCHANGED <<mutex, owner, cv, should_wait, current, callVars>>

TryLock(t) ==
  /\ pc[t] = "Idle" /\ calls[t] < MaxCalls /\ mutex = Unlocked
  /\ mutex' = LockedUncontended
  /\ calls' = [calls EXCEPT ![t] = @ + 1]
  /\ Goto(t, "SetOwner")
  /\ UNCHANGED <<owner, cv, should_wait, current, callVars>>

\* The fast path; its weak compare-and-swap may fail spuriously.
Lock(t) ==
  /\ pc[t] = "Lock"
  /\ \/ mutex = Unlocked /\ mutex' = LockedUncontended /\ Goto(t, "SetOwner")
     \/ UNCHANGED mutex /\ Goto(t, "LockSlow")
  /\ UNCHANGED <<owner, cv, should_wait, calls, current, callVars>>

\* Locking a mutex others wait for, dropping them.
TryLockDroppingQueue(t) ==
  /\ pc[t] = "LockSlow" /\ ~mutex.locked
  /\ mutex' = LockedUncontended
  /\ Goto(t, "SetOwner")
  /\ UNCHANGED <<owner, cv, should_wait, calls, current, callVars>>

\* LockSlowPath: both of its loops try this.
TryLockExplicit(t) ==
  /\ pc[t] = "LockSlow" /\ ~mutex.locked
  /\ mutex' = WithLock(mutex)
  /\ Goto(t, "SetOwner")
  /\ UNCHANGED <<owner, cv, should_wait, calls, current, callVars>>

\* When the queue of the mutex can be locked: only by a compare-and-swap that
\* finds it unlocked.
QueueIsFreeAlways(word) == TRUE
QueueIsFree(word) == ~word.queue_locked

TryLockWaiterQueueExplicit(t) ==
  /\ \/ pc[t] = "LockSlow" /\ mutex.locked /\ Goto(t, "Enqueue")
     \/ pc[t] = "UnlockSlow" /\ Goto(t, "Dequeue")
  /\ QueueIsFree(mutex)
  /\ mutex' = WithQueueLock(mutex)
  /\ current' = [current EXCEPT ![t] = mutex]
  /\ UNCHANGED <<owner, cv, should_wait, calls, callVars>>

\* LockSlowPath with the queue lock.
Enqueue(t) ==
  /\ pc[t] = "Enqueue"
  /\ should_wait' = should_wait \cup {t}
  /\ mutex' = Word(TRUE, FALSE, Append(current[t].queue, t))
  /\ current' = [current EXCEPT ![t] = Unlocked]
  /\ Goto(t, "Wait")
  /\ UNCHANGED <<owner, cv, calls, callVars>>

\* WaiterQueueNode::Wait returns.
Wake(t) ==
  /\ t \notin should_wait
  /\ \/ pc[t] = "Wait" /\ Goto(t, "LockSlow")
     \/ pc[t] = "CvWait" /\ Goto(t, "Lock")
  /\ UNCHANGED <<mutex, owner, cv, should_wait, calls, current, callVars>>

SetCurrentThreadAsOwner(t) ==
  /\ pc[t] = "SetOwner"
  /\ owner' = t
  /\ Goto(t, "Owner")
  /\ UNCHANGED <<mutex, cv, should_wait, calls, current, callVars>>

\* What Unlock makes of the owner.
KeepOwner(o) == o
ClearOwnerThread(o) == Nobody

\* Unlock, called by the program or by WaitFor, up to its compare-and-swap.
Unlock(t) ==
  /\ \/ pc[t] = "Owner" /\ after' = [after EXCEPT ![t] = "Idle"]
     \/ pc[t] = "CvUnlock" /\ after' = [after EXCEPT ![t] = "CvWait"]
  /\ owner' = ClearOwnerThread(owner)
  /\ Goto(t, "UnlockFast")
  /\ UNCHANGED <<mutex, cv, should_wait, calls, current, count, list, stale>>

\* A compare-and-swap of the lock bits alone.
UncontendedByBits(word) == word.locked /\ ~word.queue_locked
\* Nobody sleeps and nobody is about to.
Uncontended(word) == word = LockedUncontended

\* The strong compare-and-swap of the fast path.
UnlockFast(t) ==
  /\ pc[t] = "UnlockFast"
  /\ \/ Uncontended(mutex) /\ mutex' = Unlocked /\ Goto(t, after[t])
     \/ ~Uncontended(mutex) /\ UNCHANGED mutex /\ Goto(t, "UnlockSlow")
  /\ UNCHANGED <<owner, cv, should_wait, calls, current, callVars>>

\* UnlockSlowPath with the queue lock.
Dequeue(t) ==
  /\ pc[t] = "Dequeue"
  /\ mutex' = Word(FALSE, FALSE, Tail(current[t].queue))
  /\ list' = [list EXCEPT ![t] = <<Head(current[t].queue)>>]
  /\ current' = [current EXCEPT ![t] = Unlocked]
  /\ Goto(t, "Notify")
  /\ UNCHANGED <<owner, cv, should_wait, calls, after, count, stale>>

\* WaiterQueueNode::Notify, on the next of the dequeued nodes.  What Notify does
\* to a node that is gone is undefined, and no step here.
Notify(t) ==
  /\ pc[t] = "Notify" /\ Head(list[t]) \notin stale[t]
  /\ should_wait' = should_wait \ {Head(list[t])}
  /\ list' = [list EXCEPT ![t] = Tail(@)]
  /\ IF Len(list[t]) = 1 THEN Goto(t, after[t]) ELSE UNCHANGED pc
  /\ UNCHANGED <<mutex, owner, cv, calls, current, after, count, stale>>

-----------------------------------------------------------------------------
(* JSAtomicsCondition                                                      *)

CallWaitFor(t) ==
  /\ Counts # {} /\ pc[t] = "Owner"
  /\ Goto(t, "CvQueue")
  /\ UNCHANGED <<mutex, owner, cv, should_wait, calls, current, callVars>>

CallNotify(t) ==
  /\ pc[t] \in {"Idle", "Owner"} /\ calls[t] < MaxCalls
  /\ \E n \in Counts : count' = [count EXCEPT ![t] = n]
  /\ calls' = [calls EXCEPT ![t] = @ + 1]
  /\ after' = [after EXCEPT ![t] = pc[t]]
  /\ Goto(t, "CvNotify")
  /\ UNCHANGED <<mutex, owner, cv, should_wait, current, list, stale>>

\* Where the calls that use the queue of a condition go on with its lock.
WithCvQueue == [CvQueue |-> "CvEnqueue", CvRemove |-> "CvRemoveStore",
                CvNotify |-> "CvDequeue"]

\* JSAtomicsCondition::TryLockWaiterQueueExplicit.
LockCvQueue(t) ==
  /\ pc[t] \in DOMAIN WithCvQueue
  /\ QueueIsFree(cv)
  /\ cv' = WithQueueLock(cv)
  /\ current' = [current EXCEPT ![t] = cv]
  /\ Goto(t, WithCvQueue[pc[t]])
  /\ UNCHANGED <<mutex, owner, should_wait, calls, callVars>>

\* Where DequeueExplicit returns to.
AfterDequeue(t) == IF pc[t] \in {"CvRemove", "CvRemoveStore"} THEN "Lock" ELSE after[t]

\* DequeueExplicit finds the empty state.
NoWaiters(t) ==
  /\ pc[t] \in {"CvRemove", "CvNotify"} /\ cv = Unlocked
  /\ should_wait' = IF pc[t] = "CvRemove" THEN should_wait \ {t} ELSE should_wait
  /\ stale' = [u \in Threads |-> IF pc[t] = "CvRemove" /\ t \in Range(list[u])
                                 THEN stale[u] \cup {t} ELSE stale[u]]
  /\ Goto(t, AfterDequeue(t))
  /\ UNCHANGED <<mutex, owner, cv, calls, current, after, count, list>>

CvEnqueue(t) ==
  /\ pc[t] = "CvEnqueue"
  /\ should_wait' = should_wait \cup {t}
  /\ cv' = Word(FALSE, FALSE, Append(current[t].queue, t))
  /\ current' = [current EXCEPT ![t] = Unlocked]
  /\ Goto(t, "CvUnlock")
  /\ UNCHANGED <<mutex, owner, calls, callVars>>

\* WaiterQueueNode::WaitFor returns false.
TimeOut(t) ==
  /\ Timeouts /\ pc[t] = "CvWait" /\ t \in should_wait
  /\ Goto(t, "CvRemove")
  /\ UNCHANGED <<mutex, owner, cv, should_wait, calls, current, callVars>>

\* DequeueMatching of the timed out waiter: a match at the tail empties the
\* queue, see WaiterQueue.
Without(q, t) ==
  LET i == CHOOSE i \in DOMAIN q : q[i] = t IN
    IF t \notin Range(q) THEN q
    ELSE IF i = Len(q) THEN <<>>
    ELSE SubSeq(q, 1, i - 1) \o SubSeq(q, i + 1, Len(q))

CvRemove(t) ==
  /\ pc[t] = "CvRemoveStore"
  /\ cv' = Word(FALSE, FALSE, Without(current[t].queue, t))
  /\ should_wait' = should_wait \ {t}
  /\ stale' = [u \in Threads |-> IF t \in Range(list[u]) THEN stale[u] \cup {t}
                                                         ELSE stale[u]]
  /\ current' = [current EXCEPT ![t] = Unlocked]
  /\ Goto(t, AfterDequeue(t))
  /\ UNCHANGED <<mutex, owner, calls, after, count, list>>

\* Notify takes up to count waiters off the queue.
AtMost(n, q) == IF n < Len(q) THEN n ELSE Len(q)

CvDequeue(t) ==
  /\ pc[t] = "CvDequeue"
  /\ LET q == current[t].queue
         n == AtMost(count[t], q) IN
       /\ cv' = Word(FALSE, FALSE, SubSeq(q, n + 1, Len(q)))
       /\ list' = [list EXCEPT ![t] = SubSeq(q, 1, n)]
       /\ Goto(t, IF q = <<>> THEN AfterDequeue(t) ELSE "Notify")
  /\ current' = [current EXCEPT ![t] = Unlocked]
  /\ UNCHANGED <<mutex, owner, should_wait, calls, after, count, stale>>

-----------------------------------------------------------------------------
\* What a thread does once it has called; calls end and critical sections too.
Proceed(t) ==
  \/ Lock(t) \/ TryLockExplicit(t) \/ TryLockWaiterQueueExplicit(t)
  \/ Enqueue(t) \/ Wake(t) \/ SetCurrentThreadAsOwner(t)
  \/ Unlock(t) \/ UnlockFast(t) \/ Dequeue(t) \/ Notify(t)
  \/ LockCvQueue(t) \/ NoWaiters(t) \/ CvEnqueue(t) \/ CvRemove(t) \/ CvDequeue(t)

Call(t) ==
  CallLock(t) \/ TryLock(t) \/ CallWaitFor(t) \/ CallNotify(t) \/ TimeOut(t)

\* All calls are made and have returned.
Finished ==
  /\ \A t \in Threads : pc[t] = "Idle" /\ calls[t] = MaxCalls
  /\ UNCHANGED vars

Next == (\E t \in Threads : Call(t) \/ Proceed(t)) \/ Finished

Spec == Init /\ [][Next]_vars
FairSpec == Spec /\ \A t \in Threads : WF_vars(Proceed(t))

-----------------------------------------------------------------------------
Holds(t) == pc[t] \in HolderLabels \/ (pc[t] \in {"CvNotify", "CvDequeue", "Notify"}
                                       /\ after[t] = "Owner")

\* At most one thread is between its Lock and the store of its Unlock, the
\* locked bit tells whether there is one, and owner_thread_id names no other.
MutualExclusion ==
  /\ \A t, u \in Threads : Holds(t) /\ Holds(u) => t = u
  /\ mutex.locked <=> \E t \in Threads : Holds(t)
  /\ owner # Nobody => Holds(owner) /\ pc[owner] # "UnlockFast"

\* The plain store that ends a section under a queue lock overwrites nothing:
\* the state is still the one the lock was taken on, and the slow path of
\* Unlock finds a waiter in it.
QueueLockProtectsState ==
  \A t \in Threads :
    /\ pc[t] \in {"Enqueue", "Dequeue"} =>
         mutex = WithQueueLock(current[t])
    /\ pc[t] = "Dequeue" => current[t].queue # <<>>
    /\ pc[t] \in {"CvEnqueue", "CvRemoveStore", "CvDequeue"} =>
         cv = WithQueueLock(current[t])

\* Thread u has dequeued t alone, and t has not given up: u will wake it.
WillWake(u, t) == list[u] = <<t>> /\ t \notin stale[u]

\* A thread asleep on the mutex is in its queue, or has been dequeued by a thread
\* that will notify it, whatever happens to the queue of the condition.
NoWaiterIsLost ==
  \A t \in should_wait : pc[t] = "Wait" =>
    t \in Range(mutex.queue) \/ \E u \in Threads : WillWake(u, t)

\* While threads sleep on a mutex that nobody holds, some thread is awake, or
\* about to be woken, that will lock it and wake the next of them: Unlock never
\* takes its fast path past a sleeper.
SomeoneTakesOver ==
  (\E t \in should_wait : pc[t] = "Wait") /\ ~mutex.locked =>
    \E t \in Threads :
      \/ pc[t] \in {"Lock", "LockSlow"}
      \/ pc[t] = "Wait" /\ (t \notin should_wait \/ \E u \in Threads : WillWake(u, t))

\* No notifier holds the node of a waiter that has timed out and gone.
TimedOutIsRemoved == \A t \in Threads : stale[t] = {}

\* Every Lock returns, although waking is unfair, if critical sections end, no
\* thread waits on the condition again and again, and no waiter times out
\* between being dequeued and notified.
EveryLockReturns ==
  []TimedOutIsRemoved /\ <>[](\A t \in Threads : pc[t] # "CvQueue")
    => \A t \in Threads : pc[t] = "Lock" ~> pc[t] = "Owner"
=============================================================================

---------------------------- MODULE JSAtomicsSteps ----------------------------
(***************************************************************************)
(* What each operation of a thread changes, and that it keeps the parts of *)
(* the invariant that are about labels, lock bits, the owner and the       *)
(* states read under a queue lock.                                         *)
(***************************************************************************)
EXTENDS JSAtomicsFacts

\* Lock is called.
LEMMA CallLockEffect ==
  ASSUME AtomicsInv, NEW t \in Threads, CallLock(t)
  PROVE  /\ pc[t] = "Idle" /\ pc'[t] = "Lock"
         /\ UNCHANGED <<mutex, owner, cv, should_wait, current, after, count, list, stale>>
BY ThreadTypes DEF CallLock, Goto, callVars

\* TryLock finds kUnlocked.
LEMMA TryLockEffect ==
  ASSUME AtomicsInv, NEW t \in Threads, TryLock(t)
  PROVE  /\ pc[t] = "Idle" /\ pc'[t] = "SetOwner"
         /\ ~mutex.locked /\ ~mutex.queue_locked /\ mutex.queue = <<>>
         /\ mutex'.locked /\ ~mutex'.queue_locked /\ mutex'.queue = <<>>
         /\ UNCHANGED <<owner, cv, should_wait, current, after, count, list, stale>>
BY ThreadTypes
   DEF TryLock, Goto, callVars, Word, Unlocked, LockedUncontended

\* WaitFor is called.
LEMMA CallWaitForEffect ==
  ASSUME AtomicsInv, NEW t \in Threads, CallWaitFor(t)
  PROVE  /\ pc[t] = "Owner" /\ pc'[t] = "CvQueue"
         /\ UNCHANGED <<mutex, owner, cv, should_wait, current, after, count, list, stale>>
BY ThreadTypes DEF CallWaitFor, Goto, callVars

\* Notify is called.
LEMMA CallNotifyEffect ==
  ASSUME AtomicsInv, NEW t \in Threads, CallNotify(t)
  PROVE  /\ pc[t] \in {"Idle", "Owner"} /\ pc'[t] = "CvNotify"
         /\ after'[t] = pc[t] /\ count'[t] # 0
         /\ UNCHANGED <<mutex, owner, cv, should_wait, current, list, stale>>
BY JSAtomicsAssumption, ThreadTypes
   DEF CallNotify, Goto, callVars

\* The wait on the condition times out.
LEMMA TimeOutEffect ==
  ASSUME AtomicsInv, NEW t \in Threads, TimeOut(t)
  PROVE  /\ pc[t] = "CvWait" /\ pc'[t] = "CvRemove"
         /\ UNCHANGED <<mutex, owner, cv, should_wait, current, after, count, list, stale>>
BY ThreadTypes DEF TimeOut, Goto, callVars

\* The fast path of Lock.
LEMMA LockEffect ==
  ASSUME AtomicsInv, NEW t \in Threads, Lock(t)
  PROVE  /\ pc[t] = "Lock"
         /\ \/ /\ pc'[t] = "SetOwner"
               /\ ~mutex.locked /\ ~mutex.queue_locked /\ mutex.queue = <<>>
               /\ mutex'.locked /\ ~mutex'.queue_locked /\ mutex'.queue = <<>>
            \/ pc'[t] = "LockSlow" /\ mutex' = mutex
         /\ UNCHANGED <<owner, cv, should_wait, current, after, count, list, stale>>
<1>1. CASE mutex = Unlocked /\ mutex' = LockedUncontended /\ Goto(t, "SetOwner")
  BY <1>1, ThreadTypes DEF Lock, Goto, callVars, Word, Unlocked, LockedUncontended
<1>2. CASE UNCHANGED mutex /\ Goto(t, "LockSlow")
  BY <1>2, ThreadTypes DEF Lock, Goto, callVars
<1> QED BY <1>1, <1>2 DEF Lock

\* The slow path of Lock takes a free mutex.
LEMMA TryLockExplicitEffect ==
  ASSUME AtomicsInv, NEW t \in Threads, TryLockExplicit(t)
  PROVE  /\ pc[t] = "LockSlow" /\ pc'[t] = "SetOwner"
         /\ ~mutex.locked
         /\ mutex'.locked /\ mutex'.queue_locked = mutex.queue_locked
         /\ mutex'.queue = mutex.queue
         /\ UNCHANGED <<owner, cv, should_wait, current, after, count, list, stale>>
BY ThreadTypes
   DEF TryLockExplicit, Goto, callVars, Word, Unlocked, LockedUncontended, WithLock

\* The queue lock of the mutex is taken.
LEMMA TryLockWaiterQueueExplicitEffect ==
  ASSUME AtomicsInv, NEW t \in Threads, TryLockWaiterQueueExplicit(t)
  PROVE  /\ \/ pc[t] = "LockSlow" /\ mutex.locked /\ pc'[t] = "Enqueue"
            \/ pc[t] = "UnlockSlow" /\ pc'[t] = "Dequeue"
         /\ ~mutex.queue_locked /\ current'[t] = mutex /\ mutex' = WithQueueLock(mutex)
         /\ mutex'.locked = mutex.locked /\ mutex'.queue_locked
         /\ mutex'.queue = mutex.queue
         /\ UNCHANGED <<owner, cv, should_wait, after, count, list, stale>>
<1>1. CASE pc[t] = "LockSlow" /\ mutex.locked /\ Goto(t, "Enqueue")
  BY <1>1, ThreadTypes
  DEF TryLockWaiterQueueExplicit, Goto, callVars, Word, WithQueueLock, QueueIsFree
<1>2. CASE pc[t] = "UnlockSlow" /\ Goto(t, "Dequeue")
  BY <1>2, ThreadTypes
  DEF TryLockWaiterQueueExplicit, Goto, callVars, Word, WithQueueLock, QueueIsFree
<1> QED BY <1>1, <1>2 DEF TryLockWaiterQueueExplicit

\* A thread that finds the mutex locked puts itself to sleep.
LEMMA EnqueueEffect ==
  ASSUME AtomicsInv, NEW t \in Threads, Enqueue(t)
  PROVE  /\ pc[t] = "Enqueue" /\ pc'[t] = "Wait" /\ current[t].queue = mutex.queue
         /\ should_wait' = should_wait \cup {t}
         /\ mutex'.locked /\ ~mutex'.queue_locked /\ mutex'.queue = Append(mutex.queue, t)
         /\ UNCHANGED <<owner, cv, after, count, list, stale>>
<1>1. pc[t] = "Enqueue" /\ pc'[t] = "Wait" /\ current[t].queue = mutex.queue
  BY ThreadTypes, CurrentFacts DEF Enqueue, Goto, LocksMutexQueue
<1>2. Append(mutex.queue, t) \in Seq(Threads)
  BY <1>1, CurrentFacts, AppendFacts
<1> QED BY <1>1, <1>2 DEF Word, Enqueue, callVars

\* A thread that was notified wakes up.
LEMMA WakeEffect ==
  ASSUME AtomicsInv, NEW t \in Threads, Wake(t)
  PROVE  /\ t \notin should_wait
         /\ \/ pc[t] = "Wait" /\ pc'[t] = "LockSlow"
            \/ pc[t] = "CvWait" /\ pc'[t] = "Lock"
         /\ UNCHANGED <<mutex, owner, cv, should_wait, current, after, count, list, stale>>
<1>1. CASE pc[t] = "Wait" /\ Goto(t, "LockSlow")
  BY <1>1, ThreadTypes DEF Wake, Goto, callVars
<1>2. CASE pc[t] = "CvWait" /\ Goto(t, "Lock")
  BY <1>2, ThreadTypes DEF Wake, Goto, callVars
<1> QED BY <1>1, <1>2 DEF Wake

\* The thread that took the mutex enters its id.
LEMMA SetCurrentThreadAsOwnerEffect ==
  ASSUME AtomicsInv, NEW t \in Threads, SetCurrentThreadAsOwner(t)
  PROVE  /\ pc[t] = "SetOwner" /\ pc'[t] = "Owner" /\ owner' = t
         /\ UNCHANGED <<mutex, cv, should_wait, current, after, count, list, stale>>
BY ThreadTypes DEF SetCurrentThreadAsOwner, Goto, callVars

\* Unlock clears the owner.
LEMMA UnlockEffect ==
  ASSUME AtomicsInv, NEW t \in Threads, Unlock(t)
  PROVE  /\ \/ pc[t] = "Owner" /\ after'[t] = "Idle"
            \/ pc[t] = "CvUnlock" /\ after'[t] = "CvWait"
         /\ pc'[t] = "UnlockFast" /\ owner' = Nobody
         /\ UNCHANGED <<mutex, cv, should_wait, current, count, list, stale>>
<1>1. CASE pc[t] = "Owner" /\ after' = [after EXCEPT ![t] = "Idle"]
  BY <1>1, ThreadTypes DEF Unlock, Goto, ClearOwnerThread
<1>2. CASE pc[t] = "CvUnlock" /\ after' = [after EXCEPT ![t] = "CvWait"]
  BY <1>2, ThreadTypes DEF Unlock, Goto, ClearOwnerThread
<1> QED BY <1>1, <1>2 DEF Unlock

\* The fast path of Unlock.
LEMMA UnlockFastEffect ==
  ASSUME AtomicsInv, NEW t \in Threads, UnlockFast(t)
  PROVE  /\ pc[t] = "UnlockFast" /\ after[t] # "Owner"
         /\ \/ /\ pc'[t] = after[t]
               /\ mutex.locked /\ ~mutex.queue_locked /\ mutex.queue = <<>>
               /\ ~mutex'.locked /\ ~mutex'.queue_locked /\ mutex'.queue = <<>>
            \/ /\ pc'[t] = "UnlockSlow" /\ mutex' = mutex
               /\ ~mutex.locked \/ mutex.queue_locked \/ mutex.queue # <<>>
         /\ UNCHANGED <<owner, cv, should_wait, current, after, count, list, stale>>
<1>1. pc[t] = "UnlockFast" /\ after[t] # "Owner" /\ mutex \in Words
  BY ThreadTypes DEF UnlockFast, LabelMatches
<1>2. mutex # LockedUncontended => ~mutex.locked \/ mutex.queue_locked \/ mutex.queue # <<>>
  BY <1>1 DEF Words, Word, LockedUncontended
<1> QED BY <1>1, <1>2, ThreadTypes
        DEF Word, Unlocked, LockedUncontended, UnlockFast, Uncontended, Goto, callVars

\* The slow path of Unlock takes the first waiter off the queue.
LEMMA DequeueEffect ==
  ASSUME AtomicsInv, NEW t \in Threads, Dequeue(t)
  PROVE  /\ pc[t] = "Dequeue" /\ pc'[t] = "Notify"
         /\ mutex.queue # <<>> /\ list[t] = <<>>
         /\ list'[t] = <<Head(mutex.queue)>>
         /\ ~mutex'.locked /\ ~mutex'.queue_locked /\ mutex'.queue = Tail(mutex.queue)
         /\ UNCHANGED <<owner, cv, should_wait, after, count, stale>>
<1>1. pc[t] = "Dequeue" /\ pc'[t] = "Notify" /\ current[t].queue = mutex.queue
  BY ThreadTypes, CurrentFacts DEF Dequeue, Goto, LocksMutexQueue
<1>2. mutex.queue # <<>> /\ list[t] = <<>>
  BY <1>1, ThreadTypes DEF AtomicsInv, QueueLockProtectsState, LabelMatches
<1>3. Tail(mutex.queue) \in Seq(Threads)
  BY <1>1, <1>2, CurrentFacts, TailFacts
<1> QED BY <1>1, <1>2, <1>3, ThreadTypes DEF Word, Dequeue

\* A dequeued waiter is notified.
LEMMA NotifyEffect ==
  ASSUME AtomicsInv, NEW t \in Threads, Notify(t)
  PROVE  /\ pc[t] = "Notify" /\ list[t] # <<>> /\ Head(list[t]) \notin stale[t]
         /\ should_wait' = should_wait \ {Head(list[t])} /\ list'[t] = Tail(list[t])
         /\ \/ pc'[t] = after[t] /\ Tail(list[t]) = <<>>
            \/ pc'[t] = pc[t] /\ Tail(list[t]) # <<>>
         /\ UNCHANGED <<mutex, owner, cv, current, after, count, stale>>
<1>1. pc[t] = "Notify" /\ list[t] # <<>> /\ list[t] \in Seq(Threads)
  BY ThreadTypes DEF Notify, LabelMatches
<1>2. Len(list[t]) = 1 <=> Tail(list[t]) = <<>>
  BY <1>1, TailFacts
<1>3. list'[t] = Tail(list[t])
  BY ThreadTypes DEF Notify
<1>4. pc'[t] = IF Len(list[t]) = 1 THEN after[t] ELSE pc[t]
  BY ThreadTypes DEF Notify, Goto
<1>5. (pc'[t] = after[t] /\ Tail(list[t]) = <<>>)
      \/ (pc'[t] = pc[t] /\ Tail(list[t]) # <<>>)
  <2>1. CASE Len(list[t]) = 1
    BY <1>2, <1>4, <2>1, Zenon
  <2>2. CASE Len(list[t]) # 1
    BY <1>2, <1>4, <2>2, Zenon
  <2> QED BY <2>1, <2>2
<1> QED BY <1>1, <1>3, <1>5, Zenon DEF Notify

\* The queue lock of the condition is taken.
LEMMA LockCvQueueEffect ==
  ASSUME AtomicsInv, NEW t \in Threads, LockCvQueue(t)
  PROVE  /\ \/ pc[t] = "CvQueue" /\ pc'[t] = "CvEnqueue"
            \/ pc[t] = "CvRemove" /\ pc'[t] = "CvRemoveStore"
            \/ pc[t] = "CvNotify" /\ pc'[t] = "CvDequeue"
         /\ ~cv.queue_locked /\ current'[t] = cv /\ cv' = WithQueueLock(cv)
         /\ cv'.queue_locked /\ cv'.queue = cv.queue
         /\ UNCHANGED <<mutex, owner, should_wait, after, count, list, stale>>
<1>1. CASE pc[t] = "CvQueue"
  BY <1>1, ThreadTypes
  DEF LockCvQueue, WithCvQueue, Goto, callVars, Word, WithQueueLock, QueueIsFree
<1>2. CASE pc[t] = "CvRemove"
  BY <1>2, ThreadTypes
  DEF LockCvQueue, WithCvQueue, Goto, callVars, Word, WithQueueLock, QueueIsFree
<1>3. CASE pc[t] = "CvNotify"
  BY <1>3, ThreadTypes
  DEF LockCvQueue, WithCvQueue, Goto, callVars, Word, WithQueueLock, QueueIsFree
<1> QED BY <1>1, <1>2, <1>3 DEF LockCvQueue, WithCvQueue

\* DequeueExplicit finds kEmptyState.
LEMMA NoWaitersEffect ==
  ASSUME AtomicsInv, NEW t \in Threads, NoWaiters(t)
  PROVE  /\ ~cv.queue_locked /\ cv.queue = <<>>
         /\ \/ /\ pc[t] = "CvRemove" /\ pc'[t] = "Lock"
               /\ should_wait' = should_wait \ {t}
               /\ \A u \in Threads :
                    stale'[u] = IF t \in Range(list[u]) THEN stale[u] \cup {t} ELSE stale[u]
            \/ /\ pc[t] = "CvNotify" /\ pc'[t] = after[t] /\ after[t] # "CvWait"
               /\ should_wait' = should_wait /\ stale' = stale
         /\ UNCHANGED <<mutex, owner, cv, current, after, count, list>>
<1>1. ~cv.queue_locked /\ cv.queue = <<>>
  BY DEF NoWaiters, Word, Unlocked
<1>2. CASE pc[t] = "CvRemove"
  BY <1>1, <1>2, ThreadTypes DEF NoWaiters, Goto, AfterDequeue
<1>3. CASE pc[t] = "CvNotify"
  <2>1. stale' = [u \in Threads |-> stale[u]]
    BY <1>3 DEF NoWaiters
  <2>2. stale' = stale
    BY <2>1 DEF AtomicsInv, AtomicsTypeOK
  <2>3. pc'[t] = after[t] /\ after[t] # "CvWait" /\ should_wait' = should_wait
    BY <1>3, ThreadTypes DEF NoWaiters, Goto, AfterDequeue, LabelMatches
  <2> QED BY <1>1, <1>3, <2>2, <2>3 DEF NoWaiters
<1> QED BY <1>2, <1>3 DEF NoWaiters

\* WaitFor enqueues its node.
LEMMA CvEnqueueEffect ==
  ASSUME AtomicsInv, NEW t \in Threads, CvEnqueue(t)
  PROVE  /\ pc[t] = "CvEnqueue" /\ pc'[t] = "CvUnlock" /\ current[t].queue = cv.queue
         /\ should_wait' = should_wait \cup {t}
         /\ ~cv'.queue_locked /\ cv'.queue = Append(cv.queue, t)
         /\ UNCHANGED <<mutex, owner, after, count, list, stale>>
<1>1. pc[t] = "CvEnqueue" /\ pc'[t] = "CvUnlock" /\ current[t].queue = cv.queue
  BY ThreadTypes, CurrentFacts DEF CvEnqueue, Goto, LocksCvQueue
<1>2. Append(cv.queue, t) \in Seq(Threads)
  BY <1>1, CurrentFacts, AppendFacts
<1> QED BY <1>1, <1>2 DEF Word, CvEnqueue, callVars

\* A waiter that timed out leaves the queue of the condition.
LEMMA CvRemoveEffect ==
  ASSUME AtomicsInv, NEW t \in Threads, CvRemove(t)
  PROVE  /\ pc[t] = "CvRemoveStore" /\ pc'[t] = "Lock" /\ current[t].queue = cv.queue
         /\ should_wait' = should_wait \ {t}
         /\ \A u \in Threads :
              stale'[u] = IF t \in Range(list[u]) THEN stale[u] \cup {t} ELSE stale[u]
         /\ ~cv'.queue_locked /\ cv'.queue = Without(cv.queue, t)
         /\ UNCHANGED <<mutex, owner, after, count, list>>
<1>1. pc[t] = "CvRemoveStore" /\ pc'[t] = "Lock" /\ current[t].queue = cv.queue
  BY ThreadTypes, CurrentFacts DEF CvRemove, Goto, AfterDequeue, LocksCvQueue
<1>2. Without(cv.queue, t) \in Seq(Threads)
  BY <1>1, CurrentFacts, WithoutFacts DEF AtomicsInv, Sleepers
<1>3. \A u \in Threads :
        stale'[u] = IF t \in Range(list[u]) THEN stale[u] \cup {t} ELSE stale[u]
  BY DEF CvRemove
<1> QED BY <1>1, <1>2, <1>3 DEF Word, CvRemove

\* Notify takes waiters off the queue of the condition.
LEMMA CvDequeueEffect ==
  ASSUME AtomicsInv, NEW t \in Threads, CvDequeue(t)
  PROVE  /\ pc[t] = "CvDequeue" /\ after[t] # "CvWait" /\ list[t] = <<>> /\ count[t] # 0
         /\ pc'[t] = IF cv.queue = <<>> THEN after[t] ELSE "Notify"
         /\ cv.queue = <<>> <=> list'[t] = <<>>
         /\ LET n == AtMost(count[t], cv.queue) IN
              /\ list'[t] = SubSeq(cv.queue, 1, n)
              /\ cv'.queue = SubSeq(cv.queue, n + 1, Len(cv.queue))
         /\ ~cv'.queue_locked
         /\ UNCHANGED <<mutex, owner, should_wait, after, count, stale>>
<1> PICK q, n : q = cv.queue /\ n = AtMost(count[t], q)
  OBVIOUS
<1>1. pc[t] = "CvDequeue" /\ current[t].queue = q /\ q \in Seq(Threads)
  BY ThreadTypes, CurrentFacts DEF CvDequeue, LocksCvQueue
<1>2. after[t] # "CvWait" /\ list[t] = <<>> /\ count[t] # 0 /\ count[t] \in Nat
  BY <1>1, ThreadTypes DEF LabelMatches
<1>3. /\ cv' = Word(FALSE, FALSE, SubSeq(q, n + 1, Len(q)))
      /\ list' = [list EXCEPT ![t] = SubSeq(q, 1, n)]
      /\ pc' = [pc EXCEPT ![t] = IF q = <<>> THEN after[t] ELSE "Notify"]
  BY <1>1, Zenon DEF CvDequeue, Goto, AfterDequeue
<1>4. n \in 0..Len(q) /\ (q # <<>> => n # 0)
  BY <1>1, <1>2, AtMostFacts, Zenon
<1>5. q = <<>> <=> SubSeq(q, 1, n) = <<>>
  <2>1. CASE q = <<>>
    BY <1>1, <1>4, <2>1, LenFacts, SubSeqFacts
  <2>2. CASE q # <<>>
    BY <1>1, <1>4, <2>2, SplitFacts
  <2> QED BY <2>1, <2>2
<1>6. list'[t] = SubSeq(q, 1, n)
  BY <1>3, ThreadTypes, Zenon
<1>7. pc'[t] = IF q = <<>> THEN after[t] ELSE "Notify"
  BY <1>3, ThreadTypes, Zenon
<1>8. cv'.queue = SubSeq(q, n + 1, Len(q)) /\ ~cv'.queue_locked
  BY <1>3, Zenon DEF Word
<1> QED BY <1>1, <1>2, <1>5, <1>6, <1>7, <1>8, Zenon DEF CvDequeue

\* The labels keep telling what a thread is about to do.
LEMMA LabelsStep ==
  ASSUME AtomicsInv, NEW t \in Threads, Call(t) \/ Proceed(t)
  PROVE  LabelsMatch'
<1>a. OthersKeep(t) /\ LabelsMatch
  BY FrameStep DEF AtomicsInv
<1>b. ASSUME LabelMatches(t)', owner' \in {owner, Nobody}
      PROVE  LabelsMatch'
  BY <1>a, <1>b DEF LabelsMatch, LabelMatches, OthersKeep
<1>c. LabelMatches(t) /\ after[t] \in {"Idle", "Owner", "CvWait"}
  BY ThreadTypes
<1> USE <1>c
<1>1. CASE CallLock(t)
  BY <1>1, <1>b, CallLockEffect DEF LabelMatches
<1>2. CASE TryLock(t)
  BY <1>2, <1>b, TryLockEffect DEF LabelMatches
<1>3. CASE CallWaitFor(t)
  BY <1>3, <1>b, CallWaitForEffect DEF LabelMatches
<1>4. CASE CallNotify(t)
  BY <1>4, <1>b, CallNotifyEffect DEF LabelMatches
<1>5. CASE TimeOut(t)
  BY <1>5, <1>b, TimeOutEffect DEF LabelMatches
<1>6. CASE Lock(t)
  BY <1>6, <1>b, LockEffect DEF LabelMatches
<1>7. CASE TryLockExplicit(t)
  BY <1>7, <1>b, TryLockExplicitEffect DEF LabelMatches
<1>8. CASE TryLockWaiterQueueExplicit(t)
  BY <1>8, <1>b, TryLockWaiterQueueExplicitEffect DEF LabelMatches
<1>9. CASE Enqueue(t)
  BY <1>9, <1>b, EnqueueEffect DEF LabelMatches
<1>10. CASE Wake(t)
  BY <1>10, <1>b, WakeEffect DEF LabelMatches
<1>11. CASE SetCurrentThreadAsOwner(t)
  <2>1. LabelMatches(t)'
    BY <1>11, SetCurrentThreadAsOwnerEffect DEF LabelMatches
  <2>2. \A u \in Threads \ {t} : pc[u] \notin {"UnlockFast", "UnlockSlow", "Dequeue"}
    BY <1>11, SetCurrentThreadAsOwnerEffect
    DEF AtomicsInv, MutualExclusion, Holds, HolderLabels
  <2> QED BY <1>a, <1>11, <2>1, <2>2 DEF LabelsMatch, LabelMatches, OthersKeep
<1>12. CASE Unlock(t)
  BY <1>12, <1>b, UnlockEffect DEF LabelMatches
<1>13. CASE UnlockFast(t)
  BY <1>13, <1>b, UnlockFastEffect DEF LabelMatches
<1>14. CASE Dequeue(t)
  BY <1>14, <1>b, DequeueEffect DEF LabelMatches
<1>15. CASE Notify(t)
  BY <1>15, <1>b, NotifyEffect, Zenon DEF LabelMatches
<1>16. CASE LockCvQueue(t)
  BY <1>16, <1>b, LockCvQueueEffect DEF LabelMatches
<1>17. CASE NoWaiters(t)
  BY <1>17, <1>b, NoWaitersEffect DEF LabelMatches
<1>18. CASE CvEnqueue(t)
  BY <1>18, <1>b, CvEnqueueEffect DEF LabelMatches
<1>19. CASE CvRemove(t)
  BY <1>19, <1>b, CvRemoveEffect DEF LabelMatches
<1>20. CASE CvDequeue(t)
  BY <1>20, <1>b, CvDequeueEffect DEF LabelMatches
<1> QED BY <1>1, <1>2, <1>3, <1>4, <1>5, <1>6, <1>7, <1>8, <1>9, <1>10, <1>11, <1>12,
           <1>13, <1>14, <1>15, <1>16, <1>17, <1>18, <1>19, <1>20, Zenon
        DEF Call, Proceed

\* What a step of one thread may do to a lock bit: keep it, take it or free it.
Passes(bit, bitAfter, owns, ownsAfter) ==
  \/ (bit <=> bitAfter) /\ (owns <=> ownsAfter)
  \/ ~bit /\ bitAfter /\ ownsAfter
  \/ owns /\ ~bitAfter /\ ~ownsAfter

PassesLocks(t) ==
  /\ Passes(mutex.locked, mutex'.locked, Holds(t), Holds(t)')
  /\ Passes(mutex.queue_locked, mutex'.queue_locked,
            LocksMutexQueue(t), LocksMutexQueue(t)')
  /\ Passes(cv.queue_locked, cv'.queue_locked, LocksCvQueue(t), LocksCvQueue(t)')

\* A lock bit that one thread keeps, takes or frees stays owned by one thread.
LEMMA OwnedStep ==
  ASSUME NEW bit, NEW bitAfter, NEW owners, NEW ownersAfter, NEW t,
         Owned(bit, owners), owners \ {t} = ownersAfter \ {t},
         Passes(bit, bitAfter, t \in owners, t \in ownersAfter)
  PROVE  Owned(bitAfter, ownersAfter)
<1>1. CASE (bit <=> bitAfter) /\ (t \in owners <=> t \in ownersAfter)
  <2>1. owners = ownersAfter
    BY <1>1
  <2> QED BY <1>1, <2>1 DEF Owned
<1>2. CASE ~bit /\ bitAfter /\ t \in ownersAfter
  BY <1>2 DEF Owned
<1>3. CASE t \in owners /\ ~bitAfter /\ t \notin ownersAfter
  BY <1>3 DEF Owned
<1> QED BY <1>1, <1>2, <1>3 DEF Passes

\* The three lock bits, when each is kept, taken or freed.
LEMMA LocksOwnedStep ==
  ASSUME AtomicsInv, NEW t \in Threads, OthersKeep(t), PassesLocks(t)
  PROVE  LocksAreOwned'
<1>1. \A u \in Threads \ {t} : /\ Holds(u) <=> Holds(u)'
                               /\ LocksMutexQueue(u) <=> LocksMutexQueue(u)'
                               /\ LocksCvQueue(u) <=> LocksCvQueue(u)'
  BY DEF OthersKeep, Holds, LocksMutexQueue, LocksCvQueue
<1>2. Owned(mutex.locked, {u \in Threads : Holds(u)})'
  <2>1. Owned(mutex.locked, {u \in Threads : Holds(u)})
    BY DEF AtomicsInv, LocksAreOwned
  <2>2. {u \in Threads : Holds(u)} \ {t} = {u \in Threads : Holds(u)}' \ {t}
    BY <1>1
  <2>3. Passes(mutex.locked, mutex'.locked, t \in {u \in Threads : Holds(u)},
               t \in {u \in Threads : Holds(u)}')
    BY DEF PassesLocks, Passes
  <2> QED BY <2>1, <2>2, <2>3, OwnedStep
<1>3. Owned(mutex.queue_locked, {u \in Threads : LocksMutexQueue(u)})'
  <2>1. Owned(mutex.queue_locked, {u \in Threads : LocksMutexQueue(u)})
    BY DEF AtomicsInv, LocksAreOwned
  <2>2. {u \in Threads : LocksMutexQueue(u)} \ {t} =
          {u \in Threads : LocksMutexQueue(u)}' \ {t}
    BY <1>1
  <2>3. Passes(mutex.queue_locked, mutex'.queue_locked,
          t \in {u \in Threads : LocksMutexQueue(u)},
               t \in {u \in Threads : LocksMutexQueue(u)}')
    BY DEF PassesLocks, Passes
  <2> QED BY <2>1, <2>2, <2>3, OwnedStep
<1>4. Owned(cv.queue_locked, {u \in Threads : LocksCvQueue(u)})'
  <2>1. Owned(cv.queue_locked, {u \in Threads : LocksCvQueue(u)})
    BY DEF AtomicsInv, LocksAreOwned
  <2>2. {u \in Threads : LocksCvQueue(u)} \ {t} = {u \in Threads : LocksCvQueue(u)}' \ {t}
    BY <1>1
  <2>3. Passes(cv.queue_locked, cv'.queue_locked, t \in {u \in Threads : LocksCvQueue(u)},
               t \in {u \in Threads : LocksCvQueue(u)}')
    BY DEF PassesLocks, Passes
  <2> QED BY <2>1, <2>2, <2>3, OwnedStep
<1> QED BY <1>2, <1>3, <1>4 DEF LocksAreOwned

\* The lock bits keep their owners.
LEMMA LocksStep ==
  ASSUME AtomicsInv, NEW t \in Threads, Call(t) \/ Proceed(t)
  PROVE  LocksAreOwned'
<1> SUFFICES PassesLocks(t)
  BY FrameStep, LocksOwnedStep DEF AtomicsInv
<1>a. after[t] \in {"Idle", "Owner", "CvWait"} /\ LabelMatches(t)
       /\ (pc[t] = "Dequeue" => after[t] # "Owner")
  BY ThreadTypes DEF LabelMatches
<1>b. /\ pc[t] = "Enqueue" => mutex.locked
      /\ Holds(t) => mutex.locked
      /\ LocksMutexQueue(t) => mutex.queue_locked
      /\ LocksCvQueue(t) => cv.queue_locked
  BY DEF AtomicsInv, Contention, LocksAreOwned, Owned
<1> USE <1>a, <1>b
        DEF PassesLocks, Passes, Holds, HolderLabels, LocksMutexQueue, LocksCvQueue
<1>1. CASE CallLock(t)
  BY <1>1, CallLockEffect
<1>2. CASE TryLock(t)
  BY <1>2, TryLockEffect
<1>3. CASE CallWaitFor(t)
  BY <1>3, CallWaitForEffect
<1>4. CASE CallNotify(t)
  BY <1>4, CallNotifyEffect
<1>5. CASE TimeOut(t)
  BY <1>5, TimeOutEffect
<1>6. CASE Lock(t)
  BY <1>6, LockEffect
<1>7. CASE TryLockExplicit(t)
  BY <1>7, TryLockExplicitEffect
<1>8. CASE TryLockWaiterQueueExplicit(t)
  BY <1>8, TryLockWaiterQueueExplicitEffect
<1>9. CASE Enqueue(t)
  BY <1>9, EnqueueEffect
<1>10. CASE Wake(t)
  BY <1>10, WakeEffect
<1>11. CASE SetCurrentThreadAsOwner(t)
  BY <1>11, SetCurrentThreadAsOwnerEffect
<1>12. CASE Unlock(t)
  BY <1>12, UnlockEffect
<1>13. CASE UnlockFast(t)
  BY <1>13, UnlockFastEffect
<1>14. CASE Dequeue(t)
  BY <1>14, DequeueEffect
<1>15. CASE Notify(t)
  BY <1>15, NotifyEffect
<1>16. CASE LockCvQueue(t)
  BY <1>16, LockCvQueueEffect
<1>17. CASE NoWaiters(t)
  BY <1>17, NoWaitersEffect
<1>18. CASE CvEnqueue(t)
  BY <1>18, CvEnqueueEffect
<1>19. CASE CvRemove(t)
  BY <1>19, CvRemoveEffect
<1>20. CASE CvDequeue(t)
  <2>1. /\ pc[t] = "CvDequeue" /\ pc'[t] \in {after[t], "Notify"} /\ after' = after
             /\ mutex' = mutex
        /\ ~cv'.queue_locked
    BY <1>20, CvDequeueEffect
  <2> QED BY <2>1
<1> QED BY <1>1, <1>2, <1>3, <1>4, <1>5, <1>6, <1>7, <1>8, <1>9, <1>10, <1>11, <1>12,
           <1>13, <1>14, <1>15, <1>16, <1>17, <1>18, <1>19, <1>20, Zenon
        DEF Call, Proceed

\* The owner keeps the mutex until its Unlock has cleared the owner.
LEMMA OwnerStep ==
  ASSUME AtomicsInv, NEW t \in Threads, Call(t) \/ Proceed(t)
  PROVE  (owner # Nobody => Holds(owner) /\ pc[owner] # "UnlockFast")'
<1> SUFFICES \/ owner' = Nobody
             \/ owner' = t /\ Holds(t)' /\ pc'[t] # "UnlockFast"
             \/ owner' = owner /\ (owner = t => Holds(t)' /\ pc'[t] # "UnlockFast")
  <2>1. OthersKeep(t) /\ owner' \in Threads \cup {Nobody}
    BY FrameStep, TypeStep DEF AtomicsInv, AtomicsTypeOK
  <2>2. owner # Nobody => Holds(owner) /\ pc[owner] # "UnlockFast"
    BY DEF AtomicsInv, MutualExclusion
  <2> QED BY <2>1, <2>2 DEF OthersKeep, Holds
<1>a. after[t] \in {"Idle", "Owner", "CvWait"} /\ Nobody # t
  BY ThreadTypes, JSAtomicsAssumption
<1>b. owner = t => Holds(t)
  BY <1>a DEF AtomicsInv, MutualExclusion
<1>c. pc[t] \in {"UnlockFast", "UnlockSlow", "Dequeue"} => owner = Nobody
        /\ after[t] # "Owner"
  BY ThreadTypes DEF LabelMatches
<1> USE <1>a, <1>b, <1>c DEF Holds, HolderLabels
<1>1. CASE CallLock(t)
  BY <1>1, CallLockEffect
<1>2. CASE TryLock(t)
  BY <1>2, TryLockEffect
<1>3. CASE CallWaitFor(t)
  BY <1>3, CallWaitForEffect
<1>4. CASE CallNotify(t)
  BY <1>4, CallNotifyEffect
<1>5. CASE TimeOut(t)
  BY <1>5, TimeOutEffect
<1>6. CASE Lock(t)
  BY <1>6, LockEffect
<1>7. CASE TryLockExplicit(t)
  BY <1>7, TryLockExplicitEffect
<1>8. CASE TryLockWaiterQueueExplicit(t)
  BY <1>8, TryLockWaiterQueueExplicitEffect
<1>9. CASE Enqueue(t)
  BY <1>9, EnqueueEffect
<1>10. CASE Wake(t)
  BY <1>10, WakeEffect
<1>11. CASE SetCurrentThreadAsOwner(t)
  BY <1>11, SetCurrentThreadAsOwnerEffect
<1>12. CASE Unlock(t)
  BY <1>12, UnlockEffect
<1>13. CASE UnlockFast(t)
  BY <1>13, UnlockFastEffect
<1>14. CASE Dequeue(t)
  BY <1>14, DequeueEffect
<1>15. CASE Notify(t)
  BY <1>15, NotifyEffect
<1>16. CASE LockCvQueue(t)
  BY <1>16, LockCvQueueEffect
<1>17. CASE NoWaiters(t)
  BY <1>17, NoWaitersEffect
<1>18. CASE CvEnqueue(t)
  BY <1>18, CvEnqueueEffect
<1>19. CASE CvRemove(t)
  BY <1>19, CvRemoveEffect
<1>20. CASE CvDequeue(t)
  BY <1>20, CvDequeueEffect
<1> QED BY <1>1, <1>2, <1>3, <1>4, <1>5, <1>6, <1>7, <1>8, <1>9, <1>10, <1>11, <1>12,
           <1>13, <1>14, <1>15, <1>16, <1>17, <1>18, <1>19, <1>20, Zenon
        DEF Call, Proceed

\* Nobody unlocks past a thread that is enqueuing itself, or empties the queue of an Unlock.
LEMMA ContentionStep ==
  ASSUME AtomicsInv, NEW t \in Threads, Call(t) \/ Proceed(t)
  PROVE  Contention'
<1>a. OthersKeep(t) /\ after[t] \in {"Idle", "Owner", "CvWait"}
        /\ mutex.queue \in Seq(Threads)
  BY FrameStep, ThreadTypes DEF AtomicsInv
<1>b. \A u \in Threads :
         /\ pc[u] = "Enqueue" => /\ mutex.locked /\ mutex.queue_locked
                                 /\ pc[t] \in {"Enqueue", "Dequeue"} => u = t
         /\ pc[u] = "UnlockSlow" =>
              /\ mutex.locked /\ (mutex.queue_locked \/ mutex.queue # <<>>)
              /\ pc[t] \in {"UnlockFast", "UnlockSlow", "Dequeue"} => u = t
  BY DEF AtomicsInv, Contention, LocksAreOwned, Owned, LocksMutexQueue, Holds, HolderLabels
<1>c. pc[t] = "UnlockFast" => mutex.locked
  BY DEF AtomicsInv, LocksAreOwned, Owned, Holds, HolderLabels
<1> USE <1>a, <1>b, <1>c DEF Contention, OthersKeep
<1>1. CASE CallLock(t)
  BY <1>1, CallLockEffect
<1>2. CASE TryLock(t)
  BY <1>2, TryLockEffect
<1>3. CASE CallWaitFor(t)
  BY <1>3, CallWaitForEffect
<1>4. CASE CallNotify(t)
  BY <1>4, CallNotifyEffect
<1>5. CASE TimeOut(t)
  BY <1>5, TimeOutEffect
<1>6. CASE Lock(t)
  BY <1>6, LockEffect
<1>7. CASE TryLockExplicit(t)
  BY <1>7, TryLockExplicitEffect
<1>8. CASE TryLockWaiterQueueExplicit(t)
  BY <1>8, TryLockWaiterQueueExplicitEffect
<1>9. CASE Enqueue(t)
  <2>1. Append(mutex.queue, t) # <<>>
    BY ThreadTypes, AppendFacts, Zenon
  <2> QED BY <1>9, EnqueueEffect, <2>1
<1>10. CASE Wake(t)
  BY <1>10, WakeEffect
<1>11. CASE SetCurrentThreadAsOwner(t)
  BY <1>11, SetCurrentThreadAsOwnerEffect
<1>12. CASE Unlock(t)
  BY <1>12, UnlockEffect
<1>13. CASE UnlockFast(t)
  BY <1>13, UnlockFastEffect
<1>14. CASE Dequeue(t)
  BY <1>14, DequeueEffect
<1>15. CASE Notify(t)
  BY <1>15, NotifyEffect
<1>16. CASE LockCvQueue(t)
  BY <1>16, LockCvQueueEffect
<1>17. CASE NoWaiters(t)
  BY <1>17, NoWaitersEffect
<1>18. CASE CvEnqueue(t)
  BY <1>18, CvEnqueueEffect
<1>19. CASE CvRemove(t)
  BY <1>19, CvRemoveEffect
<1>20. CASE CvDequeue(t)
  BY <1>20, CvDequeueEffect
<1> QED BY <1>1, <1>2, <1>3, <1>4, <1>5, <1>6, <1>7, <1>8, <1>9, <1>10, <1>11, <1>12,
           <1>13, <1>14, <1>15, <1>16, <1>17, <1>18, <1>19, <1>20, Zenon
        DEF Call, Proceed

\* Nobody writes a word whose queue another thread has locked.
LEMMA ProtectStep ==
  ASSUME AtomicsInv, NEW t \in Threads, Call(t) \/ Proceed(t)
  PROVE  QueueLockProtectsState'
<1>a. OthersKeep(t) /\ after[t] \in {"Idle", "Owner", "CvWait"}
  BY FrameStep, ThreadTypes DEF AtomicsInv
<1> SUFFICES /\ \A u \in Threads \ {t} : /\ LocksMutexQueue(u) => mutex' = mutex
                                         /\ LocksCvQueue(u) => cv' = cv
             /\ pc'[t] \in {"Enqueue", "Dequeue"} => mutex' = WithQueueLock(current'[t])
             /\ pc'[t] = "Dequeue" => current'[t].queue # <<>>
             /\ pc'[t] \in {"CvEnqueue", "CvRemoveStore", "CvDequeue"} =>
                  cv' = WithQueueLock(current'[t])
  BY <1>a, Zenon DEF AtomicsInv, QueueLockProtectsState, OthersKeep, LocksMutexQueue,
                     LocksCvQueue
<1>c. \A u \in Threads \ {t} :
         /\ LocksMutexQueue(u) => mutex.queue_locked /\ mutex.locked /\ ~LocksMutexQueue(t)
         /\ LocksCvQueue(u) => cv.queue_locked /\ ~LocksCvQueue(t)
  BY DEF AtomicsInv, Contention, LocksAreOwned, Owned, LocksMutexQueue, LocksCvQueue,
         Holds, HolderLabels
<1>d. pc[t] = "UnlockSlow" => mutex.queue_locked \/ mutex.queue # <<>>
  BY DEF AtomicsInv, Contention
<1>e. pc[t] = "UnlockFast" => after[t] # "Owner"
  BY ThreadTypes DEF LabelMatches
<1> USE <1>a, <1>c, <1>d, <1>e DEF LocksMutexQueue, LocksCvQueue
<1>1. CASE CallLock(t)
  BY <1>1, CallLockEffect
<1>2. CASE TryLock(t)
  BY <1>2, TryLockEffect
<1>3. CASE CallWaitFor(t)
  BY <1>3, CallWaitForEffect
<1>4. CASE CallNotify(t)
  BY <1>4, CallNotifyEffect
<1>5. CASE TimeOut(t)
  BY <1>5, TimeOutEffect
<1>6. CASE Lock(t)
  BY <1>6, LockEffect
<1>7. CASE TryLockExplicit(t)
  BY <1>7, TryLockExplicitEffect
<1>8. CASE TryLockWaiterQueueExplicit(t)
  BY <1>8, TryLockWaiterQueueExplicitEffect
<1>9. CASE Enqueue(t)
  BY <1>9, EnqueueEffect
<1>10. CASE Wake(t)
  BY <1>10, WakeEffect
<1>11. CASE SetCurrentThreadAsOwner(t)
  BY <1>11, SetCurrentThreadAsOwnerEffect
<1>12. CASE Unlock(t)
  BY <1>12, UnlockEffect
<1>13. CASE UnlockFast(t)
  BY <1>13, UnlockFastEffect
<1>14. CASE Dequeue(t)
  BY <1>14, DequeueEffect
<1>15. CASE Notify(t)
  BY <1>15, NotifyEffect
<1>16. CASE LockCvQueue(t)
  BY <1>16, LockCvQueueEffect
<1>17. CASE NoWaiters(t)
  BY <1>17, NoWaitersEffect
<1>18. CASE CvEnqueue(t)
  BY <1>18, CvEnqueueEffect
<1>19. CASE CvRemove(t)
  BY <1>19, CvRemoveEffect
<1>20. CASE CvDequeue(t)
  BY <1>20, CvDequeueEffect
<1> QED BY <1>1, <1>2, <1>3, <1>4, <1>5, <1>6, <1>7, <1>8, <1>9, <1>10, <1>11, <1>12,
           <1>13, <1>14, <1>15, <1>16, <1>17, <1>18, <1>19, <1>20, Zenon
        DEF Call, Proceed
=============================================================================

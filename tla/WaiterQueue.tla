----------------------------- MODULE WaiterQueue -----------------------------
(***************************************************************************)
(* The intrusive ring of WaiterQueueNodes that JSAtomicsMutex and           *)
(* JSAtomicsCondition keep their sleeping threads in, next to the sequence *)
(* of nodes it stands for.  All operations but the walk of NotifyAllInList *)
(* run under the queue lock, so each is one step; the walk runs on a ring  *)
(* that Notify detached, while other threads use the queue.                *)
(***************************************************************************)
EXTENDS Integers, Sequences, Functions

CONSTANTS Nodes,    \* one WaiterQueueNode per waiting thread
          Null,     \* nullptr
          Counts    \* the counts Notify is called with

ASSUME WaiterQueueAssumption == Null \notin Nodes /\ Counts \subseteq Nat \ {0}

VARIABLES
  head,         \* the head encoded in the state of the primitive
  next, prev,   \* WaiterQueueNode::next_, prev_
  waiting,      \* nodes whose should_wait is TRUE
  queue,        \* the nodes of the ring at head, from the head on
  this, cur, following,   \* this, cur and next of the NotifyAllInList in progress
  detached      \* the nodes it has still to notify

ringVars == <<head, next, prev, queue>>
walkVars == <<this, cur, following, detached>>
vars == <<ringVars, waiting, walkVars>>

Init ==
  /\ head = Null
  /\ next = [n \in Nodes |-> Null] /\ prev = [n \in Nodes |-> Null]
  /\ waiting = {} /\ queue = <<>> /\ detached = <<>>
  /\ this = Null /\ cur = Null /\ following = Null

\* The node reached from n by following next_ k times.
Follow(n, k) ==
  LET walk[i \in 0..k] == IF i = 0 THEN n ELSE next[walk[i - 1]] IN walk[k]

\* The tail for the second node of the ring.
SecondOf(h) == next[h]

\* The queue wraps around: the head's prev is the tail.
TailOf(h) == prev[h]

-----------------------------------------------------------------------------
Enqueue(n) ==
  /\ n \notin waiting
  /\ waiting' = waiting \cup {n}
  /\ queue' = Append(queue, n)
  /\ \/ /\ head = Null
        /\ head' = n
        /\ next' = [next EXCEPT ![n] = n]
        /\ prev' = [prev EXCEPT ![n] = n]
     \/ /\ head # Null
        /\ next' = [next EXCEPT ![TailOf(head)] = n, ![n] = head]
        /\ prev' = [prev EXCEPT ![head] = n, ![n] = TailOf(head)]
        /\ UNCHANGED head
  /\ UNCHANGED walkVars

\* What DequeueMatching does to the sequence when its matcher first accepts n:
\* a match at the tail empties the queue.
Without(q, n) ==
  LET i == CHOOSE i \in DOMAIN q : q[i] = n IN
    IF i = Len(q) THEN <<>> ELSE SubSeq(q, 1, i - 1) \o SubSeq(q, i + 1, Len(q))

\* DequeueMatching, for a matcher that accepts node n of the ring.
DequeueMatching(n) ==
  /\ queue' = Without(queue, n)
  /\ \/ /\ next[n] = head
        /\ head' = Null
        /\ UNCHANGED <<next, prev>>
     \/ /\ next[n] # head /\ n = head
        /\ head' = next[n]
        /\ next' = [next EXCEPT ![TailOf(head)] = next[n]]
        /\ prev' = [prev EXCEPT ![next[n]] = TailOf(head)]
     \/ /\ next[n] # head /\ n # head
        /\ next' = [next EXCEPT ![prev[n]] = next[n]]
        /\ prev' = [prev EXCEPT ![next[n]] = prev[n]]
        /\ UNCHANGED head
  /\ waiting' = waiting \ {n}
  /\ UNCHANGED walkVars

\* Dequeue, and Notify on the node: an unlock, or a notify of one waiter.
NotifyOne == head # Null /\ DequeueMatching(head)

\* A timed out waiter of the queue takes itself off it.
RemoveSelf(n) == n \in Range(queue) /\ DequeueMatching(n)

\* A timed out waiter finds itself on no queue: it was dropped from it.  One that
\* is about to be notified leaves a node that the walk still uses, which is
\* undefined and no step here.
FindNothing(n) ==
  /\ n \in waiting \ (Range(queue) \cup Range(detached))
  /\ waiting' = waiting \ {n}
  /\ UNCHANGED <<ringVars, walkVars>>

-----------------------------------------------------------------------------
\* Notify(kAllWaiters) detaches the ring as it is.
DetachAll ==
  /\ head # Null /\ cur = Null
  /\ this' = head /\ cur' = head /\ head' = Null
  /\ detached' = queue /\ queue' = <<>>
  /\ UNCHANGED <<next, prev, waiting, following>>

\* Split: the first count nodes, or all of them, become a ring of their own.
AtMost(count, q) == IF count < Len(q) THEN count ELSE Len(q)

Split(count) ==
  /\ head # Null /\ cur = Null
  /\ this' = head /\ cur' = head
  /\ detached' = SubSeq(queue, 1, AtMost(count, queue))
  /\ queue' = SubSeq(queue, AtMost(count, queue) + 1, Len(queue))
  /\ \/ /\ \E k \in 1..count : Follow(head, k) = head
        /\ head' = Null
        /\ UNCHANGED <<next, prev>>
     \/ /\ \A k \in 1..count : Follow(head, k) # head
        /\ LET back_head == Follow(head, count)
               front_tail == prev[back_head] IN
             /\ head' = back_head
             /\ next' = [next EXCEPT ![TailOf(head)] = back_head,
                                     ![front_tail] = head]
             /\ prev' = [prev EXCEPT ![back_head] = TailOf(head),
                                     ![head] = front_tail]
  /\ UNCHANGED <<waiting, following>>

\* NotifyAllInList: next_ is read before the thread of the node is woken, which
\* may then put the node to new use.
NotifyInList ==
  /\ cur # Null /\ following = Null
  /\ following' = next[cur]
  /\ waiting' = waiting \ {cur}
  /\ detached' = SubSeq(detached, 2, Len(detached))
  /\ UNCHANGED <<ringVars, this, cur>>

\* next_ read once more.
NextReadAgain == next[cur]

\* The next that was read.
NextRead == following

Advance ==
  /\ following # Null
  /\ following' = Null
  /\ cur' = IF NextRead = this THEN Null ELSE NextRead
  /\ this' = IF NextRead = this THEN Null ELSE this
  /\ UNCHANGED <<ringVars, waiting, detached>>

Next ==
  \/ \E n \in Nodes : Enqueue(n) \/ RemoveSelf(n) \/ FindNothing(n)
  \/ NotifyOne
  \/ DetachAll
  \/ \E count \in Counts : Split(count)
  \/ NotifyInList \/ Advance

\* A thread that walks a list keeps walking.
Spec == Init /\ [][Next]_vars /\ WF_vars(NotifyInList \/ Advance)

-----------------------------------------------------------------------------
\* Following next_ from the head visits the nodes of the queue in order and
\* comes back to the head; prev_ is the way back.
RingMatchesQueue ==
  /\ head = Null <=> queue = <<>>
  /\ \A i \in DOMAIN queue :
       /\ Follow(head, i - 1) = queue[i]
       /\ LET j == (i % Len(queue)) + 1 IN
            next[queue[i]] = queue[j] /\ prev[queue[j]] = queue[i]

\* NotifyAllInList wakes the waiters it has detached, each of them once and in
\* the order they came, whatever other threads do to the queue and to the nodes
\* of the threads it has woken.
WalkMatchesDetached ==
  /\ cur = Null => detached = <<>>
  /\ cur # Null /\ following = Null => detached # <<>> /\ Head(detached) = cur

\* The walk of NotifyAllInList comes to an end.
WalkEnds == cur # Null ~> cur = Null

\* A thread that waits is on the queue or about to be notified: a timed out
\* waiter removes nobody but itself.
NoWaiterIsLost == waiting \subseteq Range(queue) \cup Range(detached)
=============================================================================

---------------------------- MODULE JSAtomicsFacts ----------------------------
(***************************************************************************)
(* The inductive invariant of Atomics.Mutex and Atomics.Condition, what    *)
(* the operators on waiter queues do, and that the variables keep their    *)
(* types.                                                                  *)
(***************************************************************************)
EXTENDS JSAtomics, TLAPS

Labels == {"Idle", "Lock", "LockSlow", "Enqueue", "Wait", "CvWait", "CvRemove",
           "CvRemoveStore", "CvNotify", "CvDequeue", "Notify"} \cup HolderLabels

Words == [locked : BOOLEAN, queue_locked : BOOLEAN, queue : Seq(Threads)]

AtomicsTypeOK ==
  /\ mutex \in Words /\ cv \in Words /\ ~cv.locked
  /\ owner \in Threads \cup {Nobody} /\ should_wait \in SUBSET Threads
  /\ pc \in [Threads -> Labels] /\ current \in [Threads -> Words]
  /\ after \in [Threads -> {"Idle", "Owner", "CvWait"}]
  /\ count \in [Threads -> Nat]
  /\ list \in [Threads -> Seq(Threads)] /\ stale \in [Threads -> SUBSET Threads]

\* What a thread's label says of its own variables, and of the owner.
LabelMatches(t) ==
  /\ pc[t] = "Notify" <=> list[t] # <<>>
  /\ pc[t] \in {"UnlockFast", "UnlockSlow", "Dequeue"} =>
       after[t] # "Owner" /\ owner = Nobody
  /\ pc[t] \in {"CvNotify", "CvDequeue"} => after[t] # "CvWait" /\ count[t] # 0
LabelsMatch == \A t \in Threads : LabelMatches(t)

\* The thread that has the queue lock of the mutex, and of the condition.
LocksMutexQueue(t) == pc[t] \in {"Enqueue", "Dequeue"}
LocksCvQueue(t) == pc[t] \in {"CvEnqueue", "CvRemoveStore", "CvDequeue"}

\* A lock bit is set exactly while a thread owns the lock, and one at most does.
Owned(bit, owners) ==
  /\ bit <=> owners # {}
  /\ \A t, u \in owners : t = u

LocksAreOwned ==
  /\ Owned(mutex.locked, {t \in Threads : Holds(t)})
  /\ Owned(mutex.queue_locked, {t \in Threads : LocksMutexQueue(t)})
  /\ Owned(cv.queue_locked, {t \in Threads : LocksCvQueue(t)})

\* The holder cannot unlock while a thread enqueues itself, and what sent it to
\* the slow path does not go away.
Contention ==
  \A t \in Threads :
    /\ pc[t] = "Enqueue" => mutex.locked
    /\ pc[t] = "UnlockSlow" => mutex.queue_locked \/ mutex.queue # <<>>

\* Between the store of WaitFor's node and the end of its wait.
WaitsOnCv(t) ==
  \/ pc[t] \in {"CvUnlock", "CvWait", "CvRemove", "CvRemoveStore"}
  \/ pc[t] \in {"UnlockFast", "UnlockSlow", "Dequeue", "Notify"} /\ after[t] = "CvWait"

\* The waiters u will wake.
ToWake(u) == Range(list[u]) \ stale[u]

Sleepers ==
  /\ IsInjective(mutex.queue) /\ IsInjective(cv.queue)
  /\ \A t \in Range(mutex.queue) : pc[t] = "Wait"
  /\ \A t \in Range(cv.queue) : WaitsOnCv(t)
  /\ \A t \in Range(mutex.queue) \cup Range(cv.queue) :
       t \in should_wait /\ \A u \in Threads : t \notin ToWake(u)
  /\ \A u \in Threads :
       /\ IsInjective(list[u]) /\ stale[u] \subseteq Range(list[u])
       /\ \A t \in ToWake(u) :
            /\ t \in should_wait /\ (pc[t] = "Wait" \/ WaitsOnCv(t))
            /\ \A v \in Threads : t \in ToWake(v) => u = v

AtomicsInv ==
  /\ AtomicsTypeOK /\ LabelsMatch /\ LocksAreOwned /\ Contention
  /\ MutualExclusion /\ QueueLockProtectsState
  /\ Sleepers /\ NoWaiterIsLost /\ SomeoneTakesOver
-----------------------------------------------------------------------------
(* Sequences of threads.                                                   *)

\* A sequence is a function on the numbers up to its length.
LEMMA LenFacts ==
  ASSUME NEW q \in Seq(Threads)
  PROVE  Len(q) \in Nat /\ DOMAIN q = 1..Len(q) /\ (Len(q) = 0 <=> q = <<>>)
OBVIOUS

\* A part of a sequence.
LEMMA SubSeqFacts ==
  ASSUME NEW q \in Seq(Threads), NEW m \in 1..(Len(q) + 1), NEW n \in 0..Len(q)
  PROVE  /\ SubSeq(q, m, n) \in Seq(Threads)
         /\ Len(SubSeq(q, m, n)) = IF m <= n THEN n - m + 1 ELSE 0
         /\ \A i \in 1..(n - m + 1) : SubSeq(q, m, n)[i] = q[m + i - 1]
OBVIOUS

\* Enqueueing adds a thread that was not in the queue.
LEMMA AppendFacts ==
  ASSUME NEW q \in Seq(Threads), NEW x \in Threads
  PROVE  /\ Append(q, x) \in Seq(Threads) /\ Append(q, x) # <<>>
         /\ Range(Append(q, x)) = Range(q) \cup {x}
         /\ IsInjective(q) /\ x \notin Range(q) => IsInjective(Append(q, x))
<1> DEFINE a == Append(q, x)
<1>1. /\ a \in Seq(Threads) /\ a # <<>> /\ Len(a) = Len(q) + 1
      /\ \A i \in 1..Len(q) : a[i] = q[i]
      /\ a[Len(q) + 1] = x
  OBVIOUS
<1>2. Len(q) \in Nat /\ DOMAIN q = 1..Len(q) /\ DOMAIN a = 1..(Len(q) + 1)
  BY <1>1, LenFacts
<1> HIDE DEF a
<1>3. Range(a) = Range(q) \cup {x}
  <2>1. \A y \in Range(a) : y \in Range(q) \cup {x}
    BY <1>1, <1>2 DEF Range
  <2>2. \A y \in Range(q) : y \in Range(a)
    <3> TAKE y \in Range(q)
    <3>1. PICK i \in 1..Len(q) : y = q[i]
      BY <1>2 DEF Range
    <3>2. i \in DOMAIN a /\ a[i] = y
      BY <1>1, <1>2, <3>1
    <3> QED BY <3>2 DEF Range
  <2>3. x \in Range(a)
    BY <1>1, <1>2 DEF Range
  <2> QED BY <2>1, <2>2, <2>3
<1>4. IsInjective(q) /\ x \notin Range(q) => IsInjective(a)
  BY <1>1, <1>2 DEF IsInjective, Range
<1> QED BY <1>1, <1>3, <1>4 DEF a

\* Dequeueing takes the head off and leaves the others.
LEMMA TailFacts ==
  ASSUME NEW q \in Seq(Threads), q # <<>>
  PROVE  /\ Head(q) \in Threads /\ Tail(q) \in Seq(Threads)
         /\ Range(q) = Range(Tail(q)) \cup {Head(q)}
         /\ IsInjective(q) => IsInjective(Tail(q)) /\ Head(q) \notin Range(Tail(q))
         /\ Len(q) = 1 <=> Tail(q) = <<>>
         /\ Len(q) = 1 <=> q = <<Head(q)>>
<1> DEFINE r == Tail(q)
<1>1. /\ Head(q) \in Threads /\ r \in Seq(Threads)
      /\ Len(r) = Len(q) - 1
      /\ \A i \in 1..Len(r) : r[i] = q[i + 1]
  OBVIOUS
<1>2. /\ Len(q) \in Nat \ {0} /\ DOMAIN q = 1..Len(q) /\ DOMAIN r = 1..(Len(q) - 1)
  BY <1>1, LenFacts
<1>3. Head(q) = q[1]
  OBVIOUS
<1>4. Len(q) = 1 <=> r = <<>>
  <2>1. Len(r) = 0 <=> r = <<>>
    BY <1>1, LenFacts, Zenon
  <2>2. Len(q) - 1 = 0 <=> Len(q) = 1
    BY <1>2
  <2> QED BY <1>1, <2>1, <2>2
<1>5. Len(q) = 1 <=> q = <<Head(q)>>
  BY <1>2, <1>3
<1> HIDE DEF r
<1>6. Range(q) = Range(r) \cup {Head(q)}
  <2>1. \A y \in Range(r) : y \in Range(q)
    BY <1>1, <1>2 DEF Range
  <2>2. \A y \in Range(q) : y = q[1] \/ y \in Range(r)
    <3> TAKE y \in Range(q)
    <3>1. PICK i \in 1..Len(q) : y = q[i]
      BY <1>2 DEF Range
    <3>2. CASE i # 1
      <4>1. i - 1 \in DOMAIN r /\ r[i - 1] = q[i]
        BY <1>1, <1>2, <3>1, <3>2
      <4> QED BY <3>1, <4>1 DEF Range
    <3> QED BY <3>1, <3>2
  <2>3. q[1] \in Range(q)
    BY <1>2 DEF Range
  <2> QED BY <1>3, <2>1, <2>2, <2>3
<1>7. IsInjective(q) => IsInjective(r) /\ Head(q) \notin Range(r)
  <2> SUFFICES ASSUME IsInjective(q)
               PROVE  IsInjective(r) /\ Head(q) \notin Range(r)
    OBVIOUS
  <2>1. \A i \in DOMAIN r : i + 1 \in DOMAIN q /\ i + 1 # 1 /\ r[i] = q[i + 1]
    BY <1>1, <1>2
  <2>2. \A i, j \in DOMAIN r : i + 1 = j + 1 => i = j
    BY <1>2
  <2>3. 1 \in DOMAIN q
    BY <1>2
  <2>4. IsInjective(r)
    BY <2>1, <2>2 DEF IsInjective
  <2>5. \A i \in DOMAIN r : r[i] # q[1]
    BY <2>1, <2>3 DEF IsInjective
  <2> QED BY <1>3, <2>4, <2>5 DEF Range
<1> QED BY <1>1, <1>4, <1>5, <1>6, <1>7 DEF r

\* A list of one.
LEMMA SingletonFacts ==
  ASSUME NEW x \in Threads
  PROVE  /\ <<x>> \in Seq(Threads) /\ <<x>> # <<>>
         /\ Range(<<x>>) = {x} /\ IsInjective(<<x>>)
BY DEF Range, IsInjective

\* The queue of nobody.
LEMMA EmptyFacts ==
  <<>> \in Seq(Threads) /\ Range(<<>>) = {} /\ IsInjective(<<>>)
BY DEF Range, IsInjective

\* The length of what is left of a queue after its first n threads.
LEMMA RestLength ==
  ASSUME NEW len \in Nat, NEW n \in Nat, n <= len
  PROVE  /\ (len - (n + 1)) + 1 = len - n
         /\ (IF n + 1 <= len THEN len - (n + 1) + 1 ELSE 0) = len - n
OBVIOUS

\* Splitting a queue shares its threads out between the two parts.
LEMMA SplitFacts ==
  ASSUME NEW q \in Seq(Threads), NEW n \in 0..Len(q)
  PROVE  LET front == SubSeq(q, 1, n)
             back == SubSeq(q, n + 1, Len(q))
         IN /\ front \in Seq(Threads) /\ back \in Seq(Threads)
            /\ Range(q) = Range(front) \cup Range(back)
            /\ n # 0 => front # <<>>
            /\ IsInjective(q) => /\ IsInjective(front) /\ IsInjective(back)
                                 /\ Range(front) \cap Range(back) = {}
<1> DEFINE front == SubSeq(q, 1, n)
           back == SubSeq(q, n + 1, Len(q))
<1>1. Len(q) \in Nat /\ DOMAIN q = 1..Len(q) /\ \A i \in 1..Len(q) : q[i] \in Threads
  BY LenFacts
<1>2. /\ front \in Seq(Threads) /\ Len(front) = n
      /\ \A i \in 1..n : front[i] = q[i]
  BY <1>1
<1>3. /\ back \in Seq(Threads) /\ Len(back) = Len(q) - n
      /\ \A i \in 1..(Len(q) - n) : back[i] = q[n + i]
  <2>1. n + 1 \in 1..(Len(q) + 1) /\ Len(q) \in 0..Len(q)
    BY <1>1
  <2>2. /\ back \in Seq(Threads)
        /\ Len(back) = IF n + 1 <= Len(q) THEN Len(q) - (n + 1) + 1 ELSE 0
        /\ \A i \in 1..(Len(q) - (n + 1) + 1) : back[i] = q[(n + 1) + i - 1]
    BY <2>1, SubSeqFacts, Zenon
  <2> HIDE DEF front, back
  <2>3. \A i \in 1..(Len(q) - n) : (n + 1) + i - 1 = n + i
    <3>1. n \in Int /\ \A i \in 1..(Len(q) - n) : i \in Int
      OBVIOUS
    <3> QED BY <3>1
  <2>4. /\ (Len(q) - (n + 1)) + 1 = Len(q) - n
        /\ (IF n + 1 <= Len(q) THEN Len(q) - (n + 1) + 1 ELSE 0) = Len(q) - n
    <3>1. n \in Nat /\ n <= Len(q)
      BY <1>1
    <3> QED BY <1>1, <3>1, RestLength, Zenon
  <2>5. \A i \in 1..(Len(q) - n) : back[i] = q[n + i]
    BY <2>2, <2>3, <2>4, Zenon
  <2>6. Len(back) = Len(q) - n
    BY <2>2, <2>4, Zenon
  <2> QED BY <2>2, <2>5, <2>6
<1>4. DOMAIN front = 1..n /\ DOMAIN back = 1..(Len(q) - n)
  BY <1>2, <1>3, LenFacts
<1>5. n # 0 => front # <<>>
  BY <1>2
<1> HIDE DEF front, back
<1>6. Range(q) = Range(front) \cup Range(back)
  <2>1. \A y \in Range(front) \cup Range(back) : y \in Range(q)
    <3>1. \A i \in DOMAIN front : front[i] \in Range(q)
      BY <1>1, <1>2, <1>4 DEF Range
    <3>2. \A i \in DOMAIN back : n + i \in DOMAIN q /\ back[i] = q[n + i]
      BY <1>1, <1>3, <1>4
    <3>3. \A i \in DOMAIN back : back[i] \in Range(q)
      BY <3>2 DEF Range
    <3> QED BY <3>1, <3>3 DEF Range
  <2>2. \A y \in Range(q) : y \in Range(front) \cup Range(back)
    <3> TAKE y \in Range(q)
    <3>1. PICK i \in 1..Len(q) : y = q[i]
      BY <1>1 DEF Range
    <3>2. CASE i <= n
      <4>1. i \in DOMAIN front /\ front[i] = y
        BY <1>1, <1>2, <1>4, <3>1, <3>2
      <4> QED BY <4>1 DEF Range
    <3>3. CASE i > n
      <4>1. i - n \in DOMAIN back /\ back[i - n] = y
        BY <1>1, <1>3, <1>4, <3>1, <3>3
      <4> QED BY <4>1 DEF Range
    <3> QED BY <1>1, <3>2, <3>3
  <2> QED BY <2>1, <2>2
<1>7. IsInjective(q) => /\ IsInjective(front) /\ IsInjective(back)
                        /\ Range(front) \cap Range(back) = {}
  <2> SUFFICES ASSUME IsInjective(q)
               PROVE  /\ IsInjective(front) /\ IsInjective(back)
                      /\ Range(front) \cap Range(back) = {}
    OBVIOUS
  <2>1. \A i \in DOMAIN front : i \in DOMAIN q /\ front[i] = q[i]
    BY <1>1, <1>2, <1>4
  <2>2. \A i \in DOMAIN back : n + i \in DOMAIN q /\ back[i] = q[n + i]
    BY <1>1, <1>3, <1>4
  <2>3. \A i, j \in DOMAIN back : n + i = n + j => i = j
    BY <1>4
  <2>4. \A i \in DOMAIN front, j \in DOMAIN back : i # n + j
    BY <1>4
  <2>5. IsInjective(front)
    BY <2>1 DEF IsInjective
  <2>6. IsInjective(back)
    BY <2>2, <2>3 DEF IsInjective
  <2>7. \A i \in DOMAIN front, j \in DOMAIN back : front[i] # back[j]
    BY <2>1, <2>2, <2>4 DEF IsInjective
  <2>8. Range(front) \cap Range(back) = {}
    BY <2>7 DEF Range
  <2> QED BY <2>5, <2>6, <2>8
<1> QED BY <1>2, <1>3, <1>5, <1>6, <1>7 DEF front, back

\* Two queues that share no thread, one behind the other.
LEMMA ConcatFacts ==
  ASSUME NEW p \in Seq(Threads), NEW q \in Seq(Threads)
  PROVE  /\ p \o q \in Seq(Threads)
         /\ Range(p \o q) = Range(p) \cup Range(q)
         /\ IsInjective(p) /\ IsInjective(q) /\ Range(p) \cap Range(q) = {}
              => IsInjective(p \o q)
<1> DEFINE w == p \o q
<1>1. /\ w \in Seq(Threads) /\ Len(w) = Len(p) + Len(q)
      /\ \A i \in 1..(Len(p) + Len(q)) :
           w[i] = IF i <= Len(p) THEN p[i] ELSE q[i - Len(p)]
  OBVIOUS
<1>2. /\ Len(p) \in Nat /\ Len(q) \in Nat
      /\ DOMAIN p = 1..Len(p) /\ DOMAIN q = 1..Len(q) /\ DOMAIN w = 1..(Len(p) + Len(q))
  BY <1>1, LenFacts
<1> HIDE DEF w
<1>3. Range(w) = Range(p) \cup Range(q)
  <2>1. \A i \in DOMAIN w : \/ i \in DOMAIN p /\ w[i] = p[i]
                            \/ i - Len(p) \in DOMAIN q /\ w[i] = q[i - Len(p)]
    BY <1>1, <1>2
  <2>2. \A i \in DOMAIN p : i \in DOMAIN w /\ w[i] = p[i]
    BY <1>1, <1>2
  <2>3. \A i \in DOMAIN q : Len(p) + i \in DOMAIN w /\ w[Len(p) + i] = q[i]
    BY <1>1, <1>2
  <2> QED BY <2>1, <2>2, <2>3 DEF Range
<1>4. ASSUME IsInjective(p), IsInjective(q), Range(p) \cap Range(q) = {}
      PROVE  IsInjective(w)
  <2>1. ASSUME NEW i \in DOMAIN w
        PROVE  \/ i \in DOMAIN p /\ w[i] = p[i]
               \/ i > Len(p) /\ i - Len(p) \in DOMAIN q /\ w[i] = q[i - Len(p)]
    BY <1>1, <1>2
  <2>2. \A i \in DOMAIN p, j \in DOMAIN q : p[i] # q[j]
    BY <1>4 DEF Range
  <2>3. ASSUME NEW i \in DOMAIN w, NEW j \in DOMAIN w, w[i] = w[j]
        PROVE  i = j
    <3>1. CASE i \in DOMAIN p /\ w[i] = p[i] /\ j \in DOMAIN p /\ w[j] = p[j]
      BY <1>4, <2>3, <3>1, Zenon DEF IsInjective
    <3>2. CASE /\ i - Len(p) \in DOMAIN q /\ w[i] = q[i - Len(p)]
               /\ j - Len(p) \in DOMAIN q /\ w[j] = q[j - Len(p)]
      <4>1. i - Len(p) = j - Len(p)
        BY <1>4, <2>3, <3>2, Zenon DEF IsInjective
      <4> QED BY <1>2, <4>1
    <3> QED BY <2>1, <2>2, <2>3, <3>1, <3>2
  <2> QED BY <2>3 DEF IsInjective
<1> QED BY <1>1, <1>3, <1>4 DEF w

\* A waiter that takes itself off the queue of the condition is off it, whatever
\* becomes of the others.
LEMMA WithoutFacts ==
  ASSUME NEW q \in Seq(Threads), IsInjective(q), NEW x \in Threads
  PROVE  /\ Without(q, x) \in Seq(Threads) /\ IsInjective(Without(q, x))
         /\ Range(Without(q, x)) \subseteq Range(q) \ {x}
<1>1. Len(q) \in Nat /\ DOMAIN q = 1..Len(q) /\ \A i \in 1..Len(q) : q[i] \in Threads
  BY LenFacts
<1>2. CASE x \notin Range(q)
  BY <1>2 DEF Without
<1>3. CASE x \in Range(q)
  <2> DEFINE j == CHOOSE i \in DOMAIN q : q[i] = x
  <2>1. j \in 1..Len(q) /\ q[j] = x
    BY <1>1, <1>3 DEF Range
  <2> DEFINE front == SubSeq(q, 1, j - 1)
             back == SubSeq(q, j + 1, Len(q))
             rest == SubSeq(q, j, Len(q))
  <2>6. Without(q, x) = <<>> \/ Without(q, x) = front \o back
    BY <1>3, Zenon DEF Without
  <2> HIDE DEF j
  <2>7. j \in 0..Len(q) /\ j - 1 \in 0..Len(q) /\ (j - 1) + 1 = j
    BY <1>1, <2>1
  <2>8. /\ front \in Seq(Threads) /\ IsInjective(front)
        /\ Range(front) \subseteq Range(q) /\ Range(front) \cap Range(rest) = {}
    BY <2>7, SplitFacts
  <2>9. /\ back \in Seq(Threads) /\ IsInjective(back)
        /\ Range(back) \subseteq Range(q) /\ Range(SubSeq(q, 1, j)) \cap Range(back) = {}
    BY <2>7, SplitFacts
  <2>10. /\ rest \in Seq(Threads) /\ Len(rest) = Len(q) - j + 1 /\ rest[1] = x
         /\ \A i \in 1..(Len(q) - j) : rest[i + 1] = back[i]
         /\ Len(back) = Len(q) - j
    <3>1. /\ j \in 1..(Len(q) + 1) /\ j + 1 \in 1..(Len(q) + 1) /\ Len(q) \in 0..Len(q)
          /\ (IF j <= Len(q) THEN Len(q) - j + 1 ELSE 0) = Len(q) - j + 1
      BY <1>1, <2>1
    <3>2. /\ rest \in Seq(Threads) /\ Len(rest) = Len(q) - j + 1
          /\ \A i \in 1..(Len(q) - j + 1) : rest[i] = q[j + i - 1]
      BY <3>1, SubSeqFacts, Zenon
    <3>3. /\ Len(back) = IF j + 1 <= Len(q) THEN Len(q) - (j + 1) + 1 ELSE 0
          /\ \A i \in 1..(Len(q) - (j + 1) + 1) : back[i] = q[(j + 1) + i - 1]
      BY <3>1, SubSeqFacts, Zenon
    <3> HIDE DEF rest, back
    <3>4. \A i \in 1..(Len(q) - j) : rest[i + 1] = q[j + i] /\ back[i] = q[j + i]
      <4> TAKE i \in 1..(Len(q) - j)
      <4>1. i + 1 \in 1..(Len(q) - j + 1) /\ j + (i + 1) - 1 = j + i
        BY <1>1, <2>1
      <4>2. i \in 1..(Len(q) - (j + 1) + 1) /\ (j + 1) + i - 1 = j + i
        BY <1>1, <2>1
      <4> QED BY <3>2, <3>3, <4>1, <4>2
    <3>5. 1 \in 1..(Len(q) - j + 1) /\ j + 1 - 1 = j
      BY <1>1, <2>1
    <3>6. rest[1] = x
      BY <2>1, <3>2, <3>5
    <3>7. (IF j + 1 <= Len(q) THEN Len(q) - (j + 1) + 1 ELSE 0) = Len(q) - j
      <4>1. j \in Nat /\ j <= Len(q)
        BY <1>1, <2>1
      <4> QED BY <1>1, <4>1, RestLength, Zenon
    <3>8. Len(back) = Len(q) - j
      BY <3>3, <3>7
    <3> QED BY <3>2, <3>4, <3>6, <3>8
  <2> HIDE DEF front, back, rest
  <2>11. DOMAIN rest = 1..(Len(q) - j + 1) /\ DOMAIN back = 1..(Len(q) - j)
    BY <2>9, <2>10, LenFacts
  <2>12. x \in Range(rest) /\ Range(back) \subseteq Range(rest)
    <3>1. 1 \in DOMAIN rest /\ \A i \in DOMAIN back : i + 1 \in DOMAIN rest
      BY <1>1, <2>1, <2>11
    <3> QED BY <2>10, <2>11, <3>1 DEF Range
  <2>13. x \notin Range(back)
    <3>1. SubSeq(q, 1, j) \in Seq(Threads) /\ Len(SubSeq(q, 1, j)) = j
          /\ \A i \in 1..j : SubSeq(q, 1, j)[i] = q[i]
      BY <1>1, <2>1
    <3>2. j \in DOMAIN SubSeq(q, 1, j)
      BY <2>1, <3>1, LenFacts
    <3>3. SubSeq(q, 1, j)[j] = x
      BY <2>1, <3>1
    <3>4. x \in Range(SubSeq(q, 1, j))
      BY <3>2, <3>3 DEF Range
    <3> QED BY <2>9, <3>4
  <2>14. /\ front \o back \in Seq(Threads)
         /\ Range(front \o back) = Range(front) \cup Range(back)
         /\ IsInjective(front \o back)
    BY <2>8, <2>9, <2>12, ConcatFacts
  <2> QED BY <2>6, <2>8, <2>9, <2>12, <2>13, <2>14, EmptyFacts, Zenon
<1> QED BY <1>2, <1>3

\* Notify dequeues at least one waiter of a queue that is not empty, and never
\* more than there are.
LEMMA AtMostFacts ==
  ASSUME NEW q \in Seq(Threads), NEW k \in Nat
  PROVE  AtMost(k, q) \in 0..Len(q) /\ (k # 0 /\ q # <<>> => AtMost(k, q) # 0)
BY LenFacts DEF AtMost

\* A thread that has a queue lock has read the queue it protects.
LEMMA CurrentFacts ==
  ASSUME AtomicsInv, NEW t \in Threads
  PROVE  /\ current[t].queue \in Seq(Threads)
         /\ LocksMutexQueue(t) => mutex.queue = current[t].queue
         /\ LocksCvQueue(t) => cv.queue = current[t].queue
<1>1. current[t].queue \in Seq(Threads)
  BY DEF AtomicsInv, AtomicsTypeOK, Words
<1>2. WithQueueLock(current[t]).queue = current[t].queue
  BY DEF WithQueueLock, Word
<1> QED BY <1>1, <1>2
        DEF AtomicsInv, QueueLockProtectsState, LocksMutexQueue, LocksCvQueue

\* A step of t leaves the variables of the other threads alone.
OthersKeep(t) ==
  \A u \in Threads \ {t} :
    /\ pc'[u] = pc[u] /\ after'[u] = after[u] /\ current'[u] = current[u]
    /\ count'[u] = count[u] /\ list'[u] = list[u]

\* Every operation of the mutex and the condition runs on one thread's own state.
LEMMA FrameStep ==
  ASSUME AtomicsTypeOK, NEW t \in Threads, Call(t) \/ Proceed(t)
  PROVE  OthersKeep(t)
<1> USE DEF AtomicsTypeOK, OthersKeep, Goto, callVars
<1>1. CASE CallLock(t)
  BY <1>1 DEF CallLock
<1>2. CASE TryLock(t)
  BY <1>2 DEF TryLock
<1>3. CASE CallWaitFor(t)
  BY <1>3 DEF CallWaitFor
<1>4. CASE CallNotify(t)
  BY <1>4 DEF CallNotify
<1>5. CASE TimeOut(t)
  BY <1>5 DEF TimeOut
<1>6. CASE Lock(t)
  BY <1>6 DEF Lock
<1>7. CASE TryLockExplicit(t)
  BY <1>7 DEF TryLockExplicit
<1>8. CASE TryLockWaiterQueueExplicit(t)
  BY <1>8 DEF TryLockWaiterQueueExplicit
<1>9. CASE Enqueue(t)
  BY <1>9 DEF Enqueue
<1>10. CASE Wake(t)
  BY <1>10 DEF Wake
<1>11. CASE SetCurrentThreadAsOwner(t)
  BY <1>11 DEF SetCurrentThreadAsOwner
<1>12. CASE Unlock(t)
  BY <1>12 DEF Unlock
<1>13. CASE UnlockFast(t)
  BY <1>13 DEF UnlockFast
<1>14. CASE Dequeue(t)
  BY <1>14 DEF Dequeue
<1>15. CASE Notify(t)
  BY <1>15 DEF Notify
<1>16. CASE LockCvQueue(t)
  BY <1>16 DEF LockCvQueue
<1>17. CASE NoWaiters(t)
  BY <1>17 DEF NoWaiters
<1>18. CASE CvEnqueue(t)
  BY <1>18 DEF CvEnqueue
<1>19. CASE CvRemove(t)
  BY <1>19 DEF CvRemove
<1>20. CASE CvDequeue(t)
  BY <1>20 DEF CvDequeue
<1> QED BY <1>1, <1>2, <1>3, <1>4, <1>5, <1>6, <1>7, <1>8, <1>9, <1>10, <1>11, <1>12,
           <1>13, <1>14, <1>15, <1>16, <1>17, <1>18, <1>19, <1>20, Zenon
        DEF Call, Proceed

\* Every step goes to a label of the protocol.
LEMMA ControlTypeStep ==
  ASSUME AtomicsTypeOK, NEW t \in Threads, Call(t) \/ Proceed(t)
  PROVE  pc' \in [Threads -> Labels]
<1> USE DEF Goto
<1>a. pc \in [Threads -> Labels] /\ after \in [Threads -> {"Idle", "Owner", "CvWait"}]
  BY DEF AtomicsTypeOK
<1>b. ASSUME NEW l \in Labels PROVE [pc EXCEPT ![t] = l] \in [Threads -> Labels]
  BY <1>a
<1>c. after[t] \in Labels
  BY <1>a DEF Labels, HolderLabels
<1> USE <1>a, <1>b, <1>c DEF Labels, HolderLabels
<1>1. CASE CallLock(t)
  BY <1>1 DEF CallLock
<1>2. CASE TryLock(t)
  BY <1>2 DEF TryLock
<1>3. CASE CallWaitFor(t)
  BY <1>3 DEF CallWaitFor
<1>4. CASE CallNotify(t)
  BY <1>4 DEF CallNotify
<1>5. CASE TimeOut(t)
  BY <1>5 DEF TimeOut
<1>6. CASE Lock(t)
  BY <1>6 DEF Lock
<1>7. CASE TryLockExplicit(t)
  BY <1>7 DEF TryLockExplicit
<1>8. CASE TryLockWaiterQueueExplicit(t)
  BY <1>8 DEF TryLockWaiterQueueExplicit
<1>9. CASE Enqueue(t)
  BY <1>9 DEF Enqueue
<1>10. CASE Wake(t)
  BY <1>10 DEF Wake
<1>11. CASE SetCurrentThreadAsOwner(t)
  BY <1>11 DEF SetCurrentThreadAsOwner
<1>12. CASE Unlock(t)
  BY <1>12 DEF Unlock
<1>13. CASE UnlockFast(t)
  BY <1>13 DEF UnlockFast
<1>14. CASE Dequeue(t)
  BY <1>14 DEF Dequeue
<1>15. CASE Notify(t)
  BY <1>15 DEF Notify
<1>16. CASE LockCvQueue(t)
  BY <1>16 DEF LockCvQueue, WithCvQueue
<1>17. CASE NoWaiters(t)
  BY <1>17 DEF NoWaiters, AfterDequeue
<1>18. CASE CvEnqueue(t)
  BY <1>18 DEF CvEnqueue
<1>19. CASE CvRemove(t)
  BY <1>19 DEF CvRemove, AfterDequeue
<1>20. CASE CvDequeue(t)
  BY <1>20 DEF CvDequeue, AfterDequeue
<1> QED BY <1>1, <1>2, <1>3, <1>4, <1>5, <1>6, <1>7, <1>8, <1>9, <1>10, <1>11, <1>12,
           <1>13, <1>14, <1>15, <1>16, <1>17, <1>18, <1>19, <1>20, Zenon
        DEF Call, Proceed

\* The words that the operations store are words.
LEMMA WordTypes ==
  ASSUME AtomicsTypeOK, NEW t \in Threads
  PROVE  /\ current[t] \in Words /\ current[t].queue \in Seq(Threads)
         /\ mutex.queue \in Seq(Threads) /\ cv.queue \in Seq(Threads)
         /\ WithLock(mutex) \in Words /\ WithQueueLock(mutex) \in Words
         /\ WithQueueLock(cv) \in Words /\ ~WithQueueLock(cv).locked
         /\ Unlocked \in Words /\ LockedUncontended \in Words /\ ~Unlocked.locked
<1>1. mutex \in Words /\ cv \in Words /\ ~cv.locked /\ current[t] \in Words
  BY DEF AtomicsTypeOK
<1>2. /\ current[t].queue \in Seq(Threads)
      /\ mutex.queue \in Seq(Threads) /\ cv.queue \in Seq(Threads)
  BY <1>1 DEF Words
<1>3. /\ WithLock(mutex) \in Words /\ WithQueueLock(mutex) \in Words
      /\ WithQueueLock(cv) \in Words /\ ~WithQueueLock(cv).locked
  BY <1>1 DEF Words, Word, WithLock, WithQueueLock
<1>4. Unlocked \in Words /\ LockedUncontended \in Words /\ ~Unlocked.locked
  BY EmptyFacts DEF Words, Word, Unlocked, LockedUncontended
<1> QED BY <1>1, <1>2, <1>3, <1>4

\* The two states, and what a thread remembers of one, stay words.
LEMMA WordsStep ==
  ASSUME AtomicsInv, NEW t \in Threads, Call(t) \/ Proceed(t)
  PROVE  /\ mutex' \in Words /\ cv' \in Words /\ ~cv'.locked
         /\ current' \in [Threads -> Words]
<1>a. /\ mutex \in Words /\ cv \in Words /\ ~cv.locked /\ current \in [Threads -> Words]
      /\ AtomicsTypeOK
  BY DEF AtomicsInv, AtomicsTypeOK
<1> USE <1>a
<1>1. CASE CallLock(t)
  BY <1>1 DEF CallLock
<1>2. CASE TryLock(t)
  BY <1>2, WordTypes DEF TryLock
<1>3. CASE CallWaitFor(t)
  BY <1>3 DEF CallWaitFor
<1>4. CASE CallNotify(t)
  BY <1>4 DEF CallNotify
<1>5. CASE TimeOut(t)
  BY <1>5 DEF TimeOut
<1>6. CASE Lock(t)
  BY <1>6, WordTypes DEF Lock
<1>7. CASE TryLockExplicit(t)
  BY <1>7, WordTypes DEF TryLockExplicit
<1>8. CASE TryLockWaiterQueueExplicit(t)
  BY <1>8, WordTypes DEF TryLockWaiterQueueExplicit
<1>9. CASE Enqueue(t)
  <2>1. Append(current[t].queue, t) \in Seq(Threads)
    BY WordTypes, AppendFacts
  <2>2. Word(TRUE, FALSE, Append(current[t].queue, t)) \in Words
    BY <2>1 DEF Words, Word
  <2> QED BY <1>9, <2>2, WordTypes, Zenon DEF Enqueue
<1>10. CASE Wake(t)
  BY <1>10 DEF Wake
<1>11. CASE SetCurrentThreadAsOwner(t)
  BY <1>11 DEF SetCurrentThreadAsOwner
<1>12. CASE Unlock(t)
  BY <1>12 DEF Unlock
<1>13. CASE UnlockFast(t)
  BY <1>13, WordTypes DEF UnlockFast
<1>14. CASE Dequeue(t)
  <2>1. Tail(current[t].queue) \in Seq(Threads)
    BY <1>14, WordTypes, TailFacts DEF Dequeue, AtomicsInv, QueueLockProtectsState
  <2>2. Word(FALSE, FALSE, Tail(current[t].queue)) \in Words
    BY <2>1 DEF Words, Word
  <2> QED BY <1>14, <2>2, WordTypes, Zenon DEF Dequeue
<1>15. CASE Notify(t)
  BY <1>15 DEF Notify
<1>16. CASE LockCvQueue(t)
  BY <1>16, WordTypes DEF LockCvQueue
<1>17. CASE NoWaiters(t)
  BY <1>17 DEF NoWaiters
<1>18. CASE CvEnqueue(t)
  <2>1. Append(current[t].queue, t) \in Seq(Threads)
    BY WordTypes, AppendFacts
  <2>2. /\ Word(FALSE, FALSE, Append(current[t].queue, t)) \in Words
        /\ ~Word(FALSE, FALSE, Append(current[t].queue, t)).locked
    BY <2>1 DEF Words, Word
  <2> QED BY <1>18, <2>2, WordTypes, Zenon DEF CvEnqueue
<1>19. CASE CvRemove(t)
  <2>1. current[t].queue \in Seq(Threads) /\ IsInjective(current[t].queue)
    BY <1>19, CurrentFacts DEF CvRemove, LocksCvQueue, AtomicsInv, Sleepers
  <2>2. Without(current[t].queue, t) \in Seq(Threads)
    BY <2>1, WithoutFacts
  <2>3. /\ Word(FALSE, FALSE, Without(current[t].queue, t)) \in Words
        /\ ~Word(FALSE, FALSE, Without(current[t].queue, t)).locked
    BY <2>2 DEF Words, Word
  <2> QED BY <1>19, <2>3, WordTypes, Zenon DEF CvRemove
<1>20. CASE CvDequeue(t)
  <2> PICK q, n : q = current[t].queue /\ n = AtMost(count[t], q)
    OBVIOUS
  <2>1. q \in Seq(Threads) /\ n \in 0..Len(q)
    BY WordTypes, AtMostFacts, Zenon DEF AtomicsTypeOK
  <2>2. SubSeq(q, n + 1, Len(q)) \in Seq(Threads)
    BY <2>1, SplitFacts
  <2>3. /\ Word(FALSE, FALSE, SubSeq(q, n + 1, Len(q))) \in Words
        /\ ~Word(FALSE, FALSE, SubSeq(q, n + 1, Len(q))).locked
    BY <2>2 DEF Words, Word
  <2>4. cv' = Word(FALSE, FALSE, SubSeq(q, n + 1, Len(q)))
    BY <1>20 DEF CvDequeue
  <2> QED BY <1>20, <2>3, <2>4, WordTypes, Zenon DEF CvDequeue
<1> QED BY <1>1, <1>2, <1>3, <1>4, <1>5, <1>6, <1>7, <1>8, <1>9, <1>10, <1>11, <1>12,
           <1>13, <1>14, <1>15, <1>16, <1>17, <1>18, <1>19, <1>20, Zenon
        DEF Call, Proceed

\* The other variables keep their types.
LEMMA OwnTypesStep ==
  ASSUME AtomicsInv, NEW t \in Threads, Call(t) \/ Proceed(t)
  PROVE  /\ owner' \in Threads \cup {Nobody} /\ should_wait' \in SUBSET Threads
         /\ after' \in [Threads -> {"Idle", "Owner", "CvWait"}]
         /\ count' \in [Threads -> Nat]
         /\ list' \in [Threads -> Seq(Threads)] /\ stale' \in [Threads -> SUBSET Threads]
<1>a. /\ owner \in Threads \cup {Nobody} /\ should_wait \in SUBSET Threads
      /\ after \in [Threads -> {"Idle", "Owner", "CvWait"}]
      /\ count \in [Threads -> Nat]
      /\ list \in [Threads -> Seq(Threads)] /\ stale \in [Threads -> SUBSET Threads]
      /\ AtomicsTypeOK
  BY DEF AtomicsInv, AtomicsTypeOK
<1> USE <1>a DEF callVars
<1>1. CASE CallLock(t)
  BY <1>1 DEF CallLock
<1>2. CASE TryLock(t)
  BY <1>2 DEF TryLock
<1>3. CASE CallWaitFor(t)
  BY <1>3 DEF CallWaitFor
<1>4. CASE CallNotify(t)
  <2>1. \A n \in Counts : n \in Nat
    BY JSAtomicsAssumption
  <2> QED BY <1>4, <2>1 DEF CallNotify
<1>5. CASE TimeOut(t)
  BY <1>5 DEF TimeOut
<1>6. CASE Lock(t)
  BY <1>6 DEF Lock
<1>7. CASE TryLockExplicit(t)
  BY <1>7 DEF TryLockExplicit
<1>8. CASE TryLockWaiterQueueExplicit(t)
  BY <1>8 DEF TryLockWaiterQueueExplicit
<1>9. CASE Enqueue(t)
  BY <1>9 DEF Enqueue
<1>10. CASE Wake(t)
  BY <1>10 DEF Wake
<1>11. CASE SetCurrentThreadAsOwner(t)
  BY <1>11 DEF SetCurrentThreadAsOwner
<1>12. CASE Unlock(t)
  BY <1>12, Zenon DEF Unlock, ClearOwnerThread
<1>13. CASE UnlockFast(t)
  BY <1>13 DEF UnlockFast
<1>14. CASE Dequeue(t)
  <2>1. <<Head(current[t].queue)>> \in Seq(Threads)
    BY <1>14, WordTypes, TailFacts, SingletonFacts
    DEF Dequeue, AtomicsInv, QueueLockProtectsState
  <2> QED BY <1>14, <2>1 DEF Dequeue
<1>15. CASE Notify(t)
  <2>1. Tail(list[t]) \in Seq(Threads)
    BY <1>15, TailFacts DEF Notify, AtomicsInv, LabelsMatch, LabelMatches
  <2> QED BY <1>15, <2>1 DEF Notify
<1>16. CASE LockCvQueue(t)
  BY <1>16 DEF LockCvQueue
<1>17. CASE NoWaiters(t)
  BY <1>17 DEF NoWaiters
<1>18. CASE CvEnqueue(t)
  BY <1>18 DEF CvEnqueue
<1>19. CASE CvRemove(t)
  BY <1>19 DEF CvRemove
<1>20. CASE CvDequeue(t)
  <2> PICK q, n : q = current[t].queue /\ n = AtMost(count[t], q)
    OBVIOUS
  <2>1. q \in Seq(Threads) /\ n \in 0..Len(q)
    BY WordTypes, AtMostFacts, Zenon
  <2>2. SubSeq(q, 1, n) \in Seq(Threads)
    BY <2>1, SplitFacts
  <2>3. list' = [list EXCEPT ![t] = SubSeq(q, 1, n)]
    BY <1>20 DEF CvDequeue
  <2> QED BY <1>20, <2>2, <2>3 DEF CvDequeue
<1> QED BY <1>1, <1>2, <1>3, <1>4, <1>5, <1>6, <1>7, <1>8, <1>9, <1>10, <1>11, <1>12,
           <1>13, <1>14, <1>15, <1>16, <1>17, <1>18, <1>19, <1>20, Zenon
        DEF Call, Proceed

\* The variables keep their types.
LEMMA TypeStep ==
  ASSUME AtomicsInv, NEW t \in Threads, Call(t) \/ Proceed(t)
  PROVE  AtomicsTypeOK'
BY ControlTypeStep, WordsStep, OwnTypesStep DEF AtomicsInv, AtomicsTypeOK

\* The types of what a thread's step reads.
LEMMA ThreadTypes ==
  ASSUME AtomicsInv, NEW t \in Threads
  PROVE  /\ pc \in [Threads -> Labels] /\ pc[t] \in Labels
         /\ after \in [Threads -> {"Idle", "Owner", "CvWait"}]
         /\ after[t] \in {"Idle", "Owner", "CvWait"}
         /\ count \in [Threads -> Nat] /\ count[t] \in Nat
         /\ list \in [Threads -> Seq(Threads)] /\ list[t] \in Seq(Threads)
         /\ current \in [Threads -> Words] /\ current[t] \in Words
         /\ mutex \in Words /\ cv \in Words /\ mutex.queue \in Seq(Threads)
         /\ cv.queue \in Seq(Threads) /\ LabelMatches(t)
BY WordTypes DEF AtomicsInv, AtomicsTypeOK, LabelsMatch
=============================================================================

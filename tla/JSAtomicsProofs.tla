--------------------------- MODULE JSAtomicsProofs ---------------------------
(***************************************************************************)
(* Atomics.Mutex and Atomics.Condition, for any number of threads, calls   *)
(* and counts: mutual exclusion, the stores under the queue locks, and     *)
(* that no thread sleeps on the mutex without somebody to wake it.         *)
(***************************************************************************)
EXTENDS JSAtomicsSteps

\* The conclusion of the lemmas below: the sleepers are accounted for.
SleepersOK == Sleepers /\ NoWaiterIsLost /\ SomeoneTakesOver

\* A step of t that neither queues, dequeues nor notifies: t does not leave its
\* wait while it is to wait, and stays to take the mutex over, or the mutex is
\* locked, or its queue is empty.
Quiet(t) ==
  /\ mutex'.queue = mutex.queue /\ cv'.queue = cv.queue
  /\ UNCHANGED <<should_wait, list, stale>>
  /\ pc'[t] = "Wait" => pc[t] = "Wait"
  /\ t \in should_wait => /\ pc[t] = "Wait" => pc'[t] = "Wait"
                          /\ WaitsOnCv(t) => WaitsOnCv(t)'
  /\ \/ mutex'.locked \/ mutex'.queue = <<>>
     \/ /\ ~mutex.locked
        /\ pc[t] \in {"Lock", "LockSlow"} => pc'[t] \in {"Lock", "LockSlow"}
        /\ pc[t] = "Wait" => pc'[t] \in {"Wait", "LockSlow"}

\* A quiet step keeps account of the sleepers.
LEMMA QuietKeeps ==
  ASSUME AtomicsInv, NEW t \in Threads, OthersKeep(t), Quiet(t)
  PROVE  SleepersOK'
<1>1. \A u \in Threads \ {t} : pc'[u] = pc[u] /\ (WaitsOnCv(u) <=> WaitsOnCv(u)')
  BY DEF OthersKeep, WaitsOnCv
<1>2. \A u \in Threads : ToWake(u)' = ToWake(u)
        /\ (\A v \in Threads : WillWake(u, v)' <=> WillWake(u, v))
  BY DEF Quiet, ToWake, WillWake
<1>3. /\ Sleepers /\ NoWaiterIsLost /\ SomeoneTakesOver /\ should_wait \subseteq Threads
      /\ should_wait' = should_wait
  BY DEF AtomicsInv, AtomicsTypeOK, Quiet
<1>4. \A u \in should_wait : /\ pc[u] = "Wait" <=> pc'[u] = "Wait"
                             /\ WaitsOnCv(u) => WaitsOnCv(u)'
  BY <1>1, <1>3 DEF Quiet
<1>5. Sleepers'
  <2>1. /\ mutex'.queue = mutex.queue /\ cv'.queue = cv.queue
        /\ list' = list /\ stale' = stale
    BY DEF Quiet
  <2>2. \A u \in Range(mutex.queue) : pc'[u] = "Wait"
    BY <1>3, <1>4 DEF Sleepers
  <2>3. \A u \in Range(cv.queue) : WaitsOnCv(u)'
    BY <1>3, <1>4 DEF Sleepers
  <2>4. \A u \in Threads : \A v \in ToWake(u) : v \in should_wait
          /\ (pc'[v] = "Wait" \/ WaitsOnCv(v)')
    BY <1>3, <1>4 DEF Sleepers
  <2> QED BY <1>2, <1>3, <2>1, <2>2, <2>3, <2>4 DEF Sleepers
<1>6. NoWaiterIsLost'
  BY <1>2, <1>3, <1>4 DEF NoWaiterIsLost, Quiet
<1>7. SomeoneTakesOver'
  <2> SUFFICES ASSUME NEW s \in should_wait, pc'[s] = "Wait", ~mutex'.locked
               PROVE  SomeoneTakesOver'
    BY <1>3 DEF SomeoneTakesOver
  <2>1. CASE mutex'.queue = <<>>
    <3>1. PICK u \in Threads : WillWake(u, s)'
      BY <1>3, <1>6, <2>1, EmptyFacts DEF NoWaiterIsLost
    <3> QED BY <1>3, <3>1 DEF SomeoneTakesOver
  <2>2. CASE /\ ~mutex.locked
             /\ pc[t] \in {"Lock", "LockSlow"} => pc'[t] \in {"Lock", "LockSlow"}
             /\ pc[t] = "Wait" => pc'[t] \in {"Wait", "LockSlow"}
    <3>1. PICK w \in Threads :
            \/ pc[w] \in {"Lock", "LockSlow"}
            \/ pc[w] = "Wait" /\ (w \notin should_wait \/ \E u \in Threads : WillWake(u, w))
      BY <1>3, <1>4, <2>2 DEF SomeoneTakesOver
    <3>2. \/ pc'[w] \in {"Lock", "LockSlow"}
          \/ pc'[w] = "Wait"
               /\ (w \notin should_wait' \/ \E u \in Threads : WillWake(u, w)')
      BY <1>1, <1>2, <1>3, <2>2, <3>1
    <3> QED BY <3>2 DEF SomeoneTakesOver
  <2> QED BY <2>1, <2>2 DEF Quiet
<1> QED BY <1>5, <1>6, <1>7 DEF SleepersOK

\* A thread that is neither asleep on the mutex nor waiting on the condition is in
\* no queue, and nobody is about to wake it.
LEMMA AwakeFacts ==
  ASSUME AtomicsInv, NEW t \in Threads, pc[t] # "Wait", ~WaitsOnCv(t)
  PROVE  /\ t \notin Range(mutex.queue) /\ t \notin Range(cv.queue)
         /\ \A u \in Threads : t \notin ToWake(u)
BY DEF AtomicsInv, Sleepers

\* LockSlowPath puts the thread to sleep at the end of the queue of the mutex.
LEMMA EnqueueKeeps ==
  ASSUME AtomicsInv, NEW t \in Threads, OthersKeep(t), Enqueue(t)
  PROVE  SleepersOK'
<1>1. /\ pc[t] = "Enqueue" /\ pc'[t] = "Wait" /\ should_wait' = should_wait \cup {t}
      /\ mutex'.locked /\ mutex'.queue = Append(mutex.queue, t)
      /\ cv' = cv /\ list' = list /\ stale' = stale
  BY EnqueueEffect
<1>2. /\ t \notin Range(mutex.queue) /\ t \notin Range(cv.queue)
      /\ \A u \in Threads : t \notin ToWake(u)
  BY <1>1, AwakeFacts DEF WaitsOnCv
<1>3. /\ Range(mutex'.queue) = Range(mutex.queue) \cup {t} /\ IsInjective(mutex'.queue)
  BY <1>1, <1>2, ThreadTypes, AppendFacts DEF AtomicsInv, Sleepers
<1>4. \A u \in Threads \ {t} : pc'[u] = pc[u] /\ (WaitsOnCv(u) <=> WaitsOnCv(u)')
  BY DEF OthersKeep, WaitsOnCv
<1>5. \A u \in Threads : ToWake(u)' = ToWake(u)
        /\ (\A v \in Threads : WillWake(u, v)' <=> WillWake(u, v))
  BY <1>1 DEF ToWake, WillWake
<1>6. Sleepers /\ NoWaiterIsLost /\ should_wait \subseteq Threads
  BY DEF AtomicsInv, AtomicsTypeOK
<1>7. Sleepers'
  <2>1. \A u \in Range(mutex.queue) \cup Range(cv.queue) : u \in should_wait
          /\ u \in Threads \ {t}
    BY <1>2, <1>6 DEF Sleepers
  <2>2. \A u \in Threads : \A v \in ToWake(u) : v \in should_wait /\ v \in Threads \ {t}
    BY <1>2, <1>6 DEF Sleepers
  <2>3. \A u \in Range(mutex'.queue) : pc'[u] = "Wait"
    BY <1>1, <1>3, <1>4, <1>6, <2>1 DEF Sleepers
  <2>4. \A u \in Range(cv.queue) : WaitsOnCv(u)'
    BY <1>4, <1>6, <2>1 DEF Sleepers
  <2>5. \A u \in Range(mutex'.queue) \cup Range(cv.queue) :
          u \in should_wait' /\ \A v \in Threads : u \notin ToWake(v)
    BY <1>1, <1>2, <1>3, <1>6, <2>1 DEF Sleepers
  <2>6. \A u \in Threads : \A v \in ToWake(u) : v \in should_wait'
          /\ (pc'[v] = "Wait" \/ WaitsOnCv(v)')
    BY <1>1, <1>4, <1>6, <2>2 DEF Sleepers
  <2> QED BY <1>1, <1>3, <1>5, <1>6, <2>3, <2>4, <2>5, <2>6 DEF Sleepers
<1>8. NoWaiterIsLost'
  BY <1>1, <1>3, <1>4, <1>5, <1>6 DEF NoWaiterIsLost
<1>9. SomeoneTakesOver'
  BY <1>1 DEF SomeoneTakesOver
<1> QED BY <1>7, <1>8, <1>9 DEF SleepersOK

\* UnlockSlowPath takes the first sleeper off the queue, and is to wake it.
LEMMA DequeueKeeps ==
  ASSUME AtomicsInv, NEW t \in Threads, OthersKeep(t), Dequeue(t)
  PROVE  SleepersOK'
<1>0. PICK h : h = Head(mutex.queue)
  OBVIOUS
<1>1. /\ pc[t] = "Dequeue" /\ pc'[t] = "Notify" /\ after' = after
      /\ mutex.queue # <<>> /\ list[t] = <<>> /\ list'[t] = <<h>>
      /\ mutex'.queue = Tail(mutex.queue)
      /\ cv' = cv /\ stale' = stale /\ should_wait' = should_wait
  BY <1>0, DequeueEffect
<1>2. Sleepers /\ NoWaiterIsLost /\ should_wait \subseteq Threads
  BY DEF AtomicsInv, AtomicsTypeOK
<1>3. /\ h \in Threads /\ Range(mutex.queue) = Range(mutex'.queue) \cup {h}
      /\ IsInjective(mutex'.queue) /\ h \notin Range(mutex'.queue)
  <2>1. mutex.queue \in Seq(Threads) /\ IsInjective(mutex.queue)
    BY <1>2, ThreadTypes DEF Sleepers
  <2> QED BY <1>0, <1>1, <2>1, TailFacts
<1>4. IsInjective(<<h>>) /\ Range(<<h>>) = {h} /\ \A u \in Threads : <<h>> = <<u>> <=> h = u
  BY <1>3, SingletonFacts
<1>5. stale[t] = {} /\ ToWake(t) = {}
  BY <1>1, <1>2, EmptyFacts DEF Sleepers, ToWake
<1>6. \A u \in Threads \ {t} : /\ pc'[u] = pc[u] /\ (WaitsOnCv(u) <=> WaitsOnCv(u)')
                               /\ list'[u] = list[u]
  BY DEF OthersKeep, WaitsOnCv
<1>7. WaitsOnCv(t) <=> WaitsOnCv(t)'
  BY <1>1 DEF WaitsOnCv
<1>8. /\ ToWake(t)' = {h}
      /\ \A u \in Threads \ {t} :
           ToWake(u)' = ToWake(u) /\ (\A v \in Threads : WillWake(u, v)' <=> WillWake(u, v))
  BY <1>1, <1>4, <1>5, <1>6 DEF ToWake, WillWake
<1>9. WillWake(t, h)' /\ \A u \in Threads : ~WillWake(t, u)
  <2>1. \A u : <<>> # <<u>>
    OBVIOUS
  <2>2. list[t] = <<>> /\ list'[t] = <<h>> /\ stale'[t] = {}
    BY <1>1, <1>5
  <2> QED BY <2>1, <2>2 DEF WillWake
<1>10. h \in should_wait /\ pc[h] = "Wait" /\ h # t /\ \A u \in Threads : h \notin ToWake(u)
  BY <1>1, <1>2, <1>3 DEF Sleepers
<1>11. Sleepers'
  <2>1. \A u \in Range(mutex'.queue) : pc'[u] = "Wait" /\ u \in should_wait'
    BY <1>1, <1>2, <1>3, <1>6 DEF Sleepers
  <2>2. \A u \in Range(cv'.queue) : WaitsOnCv(u)' /\ u \in should_wait' /\ u # h
    BY <1>1, <1>2, <1>6, <1>7, <1>10 DEF Sleepers, WaitsOnCv
  <2>3. \A u \in Range(mutex'.queue) \cup Range(cv'.queue) : \A v \in Threads :
          u \notin ToWake(v)'
    BY <1>1, <1>2, <1>3, <1>8, <2>2 DEF Sleepers
  <2>4. ASSUME NEW u \in Threads, NEW v \in ToWake(u)'
        PROVE  /\ v \in should_wait' /\ (pc'[v] = "Wait" \/ WaitsOnCv(v)')
               /\ \A w \in Threads : v \in ToWake(w)' => u = w
    <3>1. CASE u = t
      BY <1>1, <1>3, <1>6, <1>8, <1>10, <3>1
    <3>2. CASE u # t
      BY <1>1, <1>2, <1>6, <1>7, <1>8, <1>10, <3>2 DEF Sleepers
    <3> QED BY <3>1, <3>2
  <2>5. \A u \in Threads : IsInjective(list'[u]) /\ stale'[u] \subseteq Range(list'[u])
    BY <1>1, <1>2, <1>4, <1>5, <1>6 DEF Sleepers
  <2>6. IsInjective(mutex'.queue) /\ IsInjective(cv'.queue)
    BY <1>1, <1>2, <1>3 DEF Sleepers
  <2> QED BY <2>1, <2>2, <2>3, <2>4, <2>5, <2>6 DEF Sleepers
<1>12. NoWaiterIsLost'
  <2> SUFFICES ASSUME NEW s \in should_wait, pc'[s] = "Wait"
               PROVE  s \in Range(mutex'.queue) \/ \E u \in Threads : WillWake(u, s)'
    BY <1>1 DEF NoWaiterIsLost
  <2>1. s \in Threads \ {t} /\ pc[s] = "Wait"
    BY <1>1, <1>2, <1>6
  <2>2. s \in Range(mutex.queue) \/ \E u \in Threads : WillWake(u, s)
    BY <1>2, <2>1 DEF NoWaiterIsLost
  <2>3. CASE s \in Range(mutex.queue)
    BY <1>3, <1>9, <2>3
  <2>4. ASSUME NEW u \in Threads, WillWake(u, s)
        PROVE  \E v \in Threads : WillWake(v, s)'
    BY <1>8, <1>9, <2>1, <2>4
  <2> QED BY <2>2, <2>3, <2>4
<1>13. SomeoneTakesOver'
  <2>1. pc'[h] = "Wait" /\ \E u \in Threads : WillWake(u, h)'
    BY <1>3, <1>6, <1>9, <1>10
  <2> QED BY <1>3, <2>1 DEF SomeoneTakesOver
<1> QED BY <1>11, <1>12, <1>13 DEF SleepersOK

\* WaiterQueueNode::Notify wakes the next of the dequeued waiters.
LEMMA NotifyKeeps ==
  ASSUME AtomicsInv, NEW t \in Threads, OthersKeep(t), Notify(t)
  PROVE  SleepersOK'
<1>0. PICK h : h = Head(list[t])
  OBVIOUS
<1>1. /\ pc[t] = "Notify" /\ list[t] # <<>> /\ h \notin stale[t] /\ after' = after
      /\ pc'[t] \in {after[t], "Notify"} /\ list'[t] = Tail(list[t])
      /\ should_wait' = should_wait \ {h}
      /\ mutex' = mutex /\ cv' = cv /\ stale' = stale
  BY <1>0, NotifyEffect
<1>2. /\ Sleepers /\ NoWaiterIsLost /\ SomeoneTakesOver /\ should_wait \subseteq Threads
      /\ after[t] \in {"Idle", "Owner", "CvWait"}
  BY DEF AtomicsInv, AtomicsTypeOK
<1>3. /\ h \in Threads /\ Range(list[t]) = Range(list'[t]) \cup {h}
      /\ IsInjective(list'[t]) /\ h \notin Range(list'[t])
      /\ \A u \in Threads : list[t] = <<u>> => h = u
  <2>1. IsInjective(list[t]) /\ list[t] \in Seq(Threads)
    BY <1>2, ThreadTypes DEF Sleepers
  <2>2. \A u \in Threads : list[t] = <<u>> => Head(list[t]) = u
    OBVIOUS
  <2> QED BY <1>0, <1>1, <2>1, <2>2, TailFacts
<1>4. \A u \in Threads \ {t} : /\ pc'[u] = pc[u] /\ (WaitsOnCv(u) <=> WaitsOnCv(u)')
                               /\ list'[u] = list[u]
  BY DEF OthersKeep, WaitsOnCv
<1>5. WaitsOnCv(t) => WaitsOnCv(t)'
  BY <1>1 DEF WaitsOnCv
<1>6. h \in ToWake(t)
  BY <1>1, <1>3 DEF ToWake
<1>7. /\ ToWake(t)' = ToWake(t) \ {h}
      /\ \A u \in Threads \ {t} :
           ToWake(u)' = ToWake(u) /\ (\A v \in Threads : WillWake(u, v)' <=> WillWake(u, v))
  BY <1>1, <1>3, <1>4 DEF ToWake, WillWake
<1>8. /\ h \in should_wait /\ \A u \in Threads : h \in ToWake(u) => u = t
      /\ h \notin Range(mutex.queue) /\ h \notin Range(cv.queue)
  BY <1>2, <1>6 DEF Sleepers
<1>9. Sleepers'
  <2>1. \A u \in Range(mutex.queue) : pc'[u] = "Wait" /\ u \in should_wait'
    BY <1>1, <1>2, <1>4, <1>8 DEF Sleepers
  <2>2. \A u \in Range(cv.queue) : WaitsOnCv(u)' /\ u \in should_wait'
    BY <1>1, <1>2, <1>4, <1>5, <1>8 DEF Sleepers
  <2>3. \A u \in Range(mutex.queue) \cup Range(cv.queue) : \A v \in Threads :
          u \notin ToWake(v)'
    BY <1>2, <1>7 DEF Sleepers
  <2>4. ASSUME NEW u \in Threads, NEW v \in ToWake(u)'
        PROVE  /\ v \in should_wait' /\ (pc'[v] = "Wait" \/ WaitsOnCv(v)')
               /\ \A w \in Threads : v \in ToWake(w)' => u = w
    <3>1. v \in ToWake(u) /\ v # h
      BY <1>7, <1>8, <2>4
    <3>2. \A w \in Threads : v \in ToWake(w)' => v \in ToWake(w)
      BY <1>7
    <3>3. v \in should_wait /\ (pc[v] = "Wait" \/ WaitsOnCv(v)) /\ \A w \in Threads :
            v \in ToWake(w) => u = w
      BY <1>2, <3>1 DEF Sleepers
    <3> QED BY <1>1, <1>2, <1>4, <1>5, <3>1, <3>2, <3>3
  <2>5. \A u \in Threads : IsInjective(list'[u]) /\ stale'[u] \subseteq Range(list'[u])
    BY <1>1, <1>2, <1>3, <1>4 DEF Sleepers
  <2> QED BY <1>1, <1>2, <2>1, <2>2, <2>3, <2>4, <2>5 DEF Sleepers
<1>10. NoWaiterIsLost'
  <2> SUFFICES ASSUME NEW s \in should_wait \ {h}, pc'[s] = "Wait"
               PROVE  s \in Range(mutex.queue) \/ \E u \in Threads : WillWake(u, s)'
    BY <1>1 DEF NoWaiterIsLost
  <2>1. s \in Threads \ {t} /\ pc[s] = "Wait"
    BY <1>1, <1>2, <1>4
  <2>2. ASSUME NEW u \in Threads, WillWake(u, s)
        PROVE  WillWake(u, s)'
    <3>1. u # t
      BY <1>3, <2>1, <2>2 DEF WillWake
    <3> QED BY <1>7, <2>1, <2>2, <3>1
  <2> QED BY <1>2, <2>1, <2>2 DEF NoWaiterIsLost
<1>11. SomeoneTakesOver'
  <2> SUFFICES ASSUME NEW s \in should_wait, pc'[s] = "Wait", ~mutex.locked
               PROVE  SomeoneTakesOver'
    BY <1>1 DEF SomeoneTakesOver
  <2>1. s \in Threads \ {t} /\ pc[s] = "Wait"
    BY <1>1, <1>2, <1>4
  <2>2. PICK w \in Threads :
          \/ pc[w] \in {"Lock", "LockSlow"}
          \/ pc[w] = "Wait" /\ (w \notin should_wait \/ \E u \in Threads : WillWake(u, w))
    BY <1>2, <2>1 DEF SomeoneTakesOver
  <2>3. w \in Threads \ {t} /\ pc'[w] = pc[w]
    BY <1>1, <1>4, <2>2
  <2>4. ASSUME NEW u \in Threads, WillWake(u, w)
        PROVE  w \notin should_wait' \/ WillWake(u, w)'
    <3>1. CASE u = t
      BY <1>1, <1>3, <2>4, <3>1 DEF WillWake
    <3>2. CASE u # t
      BY <1>7, <2>4, <3>2
    <3> QED BY <3>1, <3>2
  <2>5. \/ pc'[w] \in {"Lock", "LockSlow"}
        \/ pc'[w] = "Wait" /\ (w \notin should_wait' \/ \E u \in Threads : WillWake(u, w)')
    BY <1>1, <2>2, <2>3, <2>4
  <2> QED BY <2>5 DEF SomeoneTakesOver
<1> QED BY <1>9, <1>10, <1>11 DEF SleepersOK

\* A waiter that timed out takes itself off the queue of the condition: nobody is
\* to wake it any more, and it goes on to lock the mutex.
LEMMA GiveUpKeeps ==
  ASSUME AtomicsInv, NEW t \in Threads, OthersKeep(t),
         pc[t] # "Wait", pc'[t] = "Lock",
         mutex' = mutex, list' = list, should_wait' = should_wait \ {t},
         \A u \in Threads :
           stale'[u] = IF t \in Range(list[u]) THEN stale[u] \cup {t} ELSE stale[u],
         IsInjective(cv'.queue), Range(cv'.queue) \subseteq Range(cv.queue) \ {t}
  PROVE  SleepersOK'
<1>1. Sleepers /\ NoWaiterIsLost /\ should_wait \subseteq Threads
  BY DEF AtomicsInv, AtomicsTypeOK
<1>2. \A u \in Threads \ {t} : pc'[u] = pc[u] /\ (WaitsOnCv(u) <=> WaitsOnCv(u)')
  BY DEF OthersKeep, WaitsOnCv
<1>3. \A u \in Threads : ToWake(u)' = ToWake(u) \ {t}
  BY Zenon DEF ToWake
<1>4. \A u \in Threads : \A v \in Threads \ {t} : WillWake(u, v) => WillWake(u, v)'
  BY Zenon DEF WillWake
<1>5. t \notin Range(mutex.queue)
  BY <1>1 DEF Sleepers
<1>6. Sleepers'
  <2>1. \A u \in Range(mutex.queue) : pc'[u] = "Wait" /\ u \in should_wait'
    BY <1>1, <1>2, <1>5 DEF Sleepers
  <2>2. \A u \in Range(cv'.queue) : WaitsOnCv(u)' /\ u \in should_wait'
    BY <1>1, <1>2 DEF Sleepers
  <2>3. \A u \in Range(mutex.queue) \cup Range(cv'.queue) : \A v \in Threads :
          u \notin ToWake(v)'
    BY <1>1, <1>3 DEF Sleepers
  <2>4. ASSUME NEW u \in Threads, NEW v \in ToWake(u)'
        PROVE  /\ v \in should_wait' /\ (pc'[v] = "Wait" \/ WaitsOnCv(v)')
               /\ \A w \in Threads : v \in ToWake(w)' => u = w
    BY <1>1, <1>2, <1>3, <2>4 DEF Sleepers
  <2>5. \A u \in Threads : IsInjective(list'[u]) /\ stale'[u] \subseteq Range(list'[u])
    <3> TAKE u \in Threads
    <3>1. IsInjective(list[u]) /\ stale[u] \subseteq Range(list[u])
      BY <1>1 DEF Sleepers
    <3>2. /\ stale'[u] \subseteq stale[u] \cup {t}
          /\ t \notin Range(list[u]) => stale'[u] = stale[u]
      BY Zenon
    <3> QED BY <3>1, <3>2
  <2> QED BY <1>1, <2>1, <2>2, <2>3, <2>4, <2>5 DEF Sleepers
<1>7. NoWaiterIsLost'
  <2> SUFFICES ASSUME NEW s \in should_wait \ {t}, pc'[s] = "Wait"
               PROVE  s \in Range(mutex.queue) \/ \E u \in Threads : WillWake(u, s)'
    BY DEF NoWaiterIsLost
  <2>1. s \in Threads \ {t} /\ pc[s] = "Wait"
    BY <1>1, <1>2
  <2> QED BY <1>1, <1>4, <2>1 DEF NoWaiterIsLost
<1>8. SomeoneTakesOver'
  BY DEF SomeoneTakesOver
<1> QED BY <1>6, <1>7, <1>8 DEF SleepersOK

\* WaitFor puts its node on the queue of the condition.
LEMMA CvEnqueueKeeps ==
  ASSUME AtomicsInv, NEW t \in Threads, OthersKeep(t), CvEnqueue(t)
  PROVE  SleepersOK'
<1>1. /\ pc[t] = "CvEnqueue" /\ pc'[t] = "CvUnlock" /\ should_wait' = should_wait \cup {t}
      /\ cv'.queue = Append(cv.queue, t)
      /\ mutex' = mutex /\ list' = list /\ stale' = stale
  BY CvEnqueueEffect
<1>2. /\ t \notin Range(mutex.queue) /\ t \notin Range(cv.queue)
      /\ \A u \in Threads : t \notin ToWake(u)
  BY <1>1, AwakeFacts DEF WaitsOnCv
<1>3. /\ Range(cv'.queue) = Range(cv.queue) \cup {t} /\ IsInjective(cv'.queue)
  BY <1>1, <1>2, ThreadTypes, AppendFacts DEF AtomicsInv, Sleepers
<1>4. \A u \in Threads \ {t} : pc'[u] = pc[u] /\ (WaitsOnCv(u) <=> WaitsOnCv(u)')
  BY DEF OthersKeep, WaitsOnCv
<1>5. \A u \in Threads : ToWake(u)' = ToWake(u)
        /\ (\A v \in Threads : WillWake(u, v)' <=> WillWake(u, v))
  BY <1>1 DEF ToWake, WillWake
<1>6. Sleepers /\ NoWaiterIsLost /\ SomeoneTakesOver /\ should_wait \subseteq Threads
  BY DEF AtomicsInv, AtomicsTypeOK
<1>7. WaitsOnCv(t)'
  BY <1>1 DEF WaitsOnCv
<1>8. Sleepers'
  <2>1. \A u \in Range(mutex.queue) \cup Range(cv.queue) : u \in should_wait
          /\ u \in Threads \ {t}
    BY <1>2, <1>6 DEF Sleepers
  <2>2. \A u \in Threads : \A v \in ToWake(u) : v \in should_wait /\ v \in Threads \ {t}
    BY <1>2, <1>6 DEF Sleepers
  <2>3. \A u \in Range(mutex.queue) : pc'[u] = "Wait"
    BY <1>4, <1>6, <2>1 DEF Sleepers
  <2>4. \A u \in Range(cv'.queue) : WaitsOnCv(u)'
    BY <1>3, <1>4, <1>6, <1>7, <2>1 DEF Sleepers
  <2>5. \A u \in Range(mutex.queue) \cup Range(cv'.queue) :
          u \in should_wait' /\ \A v \in Threads : u \notin ToWake(v)
    BY <1>1, <1>2, <1>3, <1>6, <2>1 DEF Sleepers
  <2>6. \A u \in Threads : \A v \in ToWake(u) : v \in should_wait'
          /\ (pc'[v] = "Wait" \/ WaitsOnCv(v)')
    BY <1>1, <1>4, <1>6, <2>2 DEF Sleepers
  <2> QED BY <1>1, <1>3, <1>5, <1>6, <2>3, <2>4, <2>5, <2>6 DEF Sleepers
<1>9. \A s \in should_wait' : pc'[s] = "Wait" => s \in should_wait
        /\ s \in Threads \ {t} /\ pc[s] = "Wait"
  BY <1>1, <1>4, <1>6
<1>10. NoWaiterIsLost'
  BY <1>1, <1>5, <1>6, <1>9 DEF NoWaiterIsLost
<1>11. SomeoneTakesOver'
  <2> SUFFICES ASSUME NEW s \in should_wait', pc'[s] = "Wait", ~mutex.locked
               PROVE  SomeoneTakesOver'
    BY <1>1 DEF SomeoneTakesOver
  <2>1. PICK w \in Threads :
          \/ pc[w] \in {"Lock", "LockSlow"}
          \/ pc[w] = "Wait" /\ (w \notin should_wait \/ \E u \in Threads : WillWake(u, w))
    BY <1>6, <1>9 DEF SomeoneTakesOver
  <2>2. w \in Threads \ {t} /\ pc'[w] = pc[w]
    BY <1>1, <1>4, <2>1
  <2>3. \/ pc'[w] \in {"Lock", "LockSlow"}
        \/ pc'[w] = "Wait" /\ (w \notin should_wait' \/ \E u \in Threads : WillWake(u, w)')
    BY <1>1, <1>5, <2>1, <2>2
  <2> QED BY <2>3 DEF SomeoneTakesOver
<1> QED BY <1>8, <1>10, <1>11 DEF SleepersOK

\* Notify takes the first waiters off the queue of the condition, and is to wake them.
LEMMA CvDequeueKeeps ==
  ASSUME AtomicsInv, NEW t \in Threads, OthersKeep(t), CvDequeue(t)
  PROVE  SleepersOK'
<1>0. PICK q, n : q = cv.queue /\ n = AtMost(count[t], q)
  OBVIOUS
<1>1. /\ pc[t] = "CvDequeue" /\ after[t] # "CvWait" /\ list[t] = <<>> /\ after' = after
      /\ pc'[t] \in {after[t], "Notify"}
      /\ list'[t] = SubSeq(q, 1, n) /\ cv'.queue = SubSeq(q, n + 1, Len(q))
      /\ mutex' = mutex /\ stale' = stale /\ should_wait' = should_wait
  BY <1>0, CvDequeueEffect
<1>2. /\ Sleepers /\ NoWaiterIsLost /\ SomeoneTakesOver /\ should_wait \subseteq Threads
      /\ after[t] \in {"Idle", "Owner", "CvWait"}
  BY DEF AtomicsInv, AtomicsTypeOK
<1>3. q \in Seq(Threads) /\ n \in 0..Len(q) /\ IsInjective(q)
  <2>1. q \in Seq(Threads) /\ IsInjective(q) /\ count[t] \in Nat
    BY <1>0, <1>2, ThreadTypes DEF Sleepers
  <2> QED BY <1>0, <2>1, AtMostFacts
<1>4. /\ Range(q) = Range(list'[t]) \cup Range(cv'.queue)
      /\ IsInjective(list'[t]) /\ IsInjective(cv'.queue)
      /\ Range(list'[t]) \cap Range(cv'.queue) = {}
  BY <1>1, <1>3, SplitFacts
<1>5. stale[t] = {} /\ ToWake(t) = {}
  BY <1>1, <1>2, EmptyFacts DEF Sleepers, ToWake
<1>6. \A u \in Threads \ {t} : /\ pc'[u] = pc[u] /\ (WaitsOnCv(u) <=> WaitsOnCv(u)')
                               /\ list'[u] = list[u]
  BY DEF OthersKeep, WaitsOnCv
<1>7. ~WaitsOnCv(t) /\ t \notin Range(q)
  BY <1>0, <1>1, <1>2 DEF WaitsOnCv, Sleepers
<1>8. /\ ToWake(t)' = Range(list'[t])
      /\ \A u \in Threads \ {t} :
           ToWake(u)' = ToWake(u) /\ (\A v \in Threads : WillWake(u, v)' <=> WillWake(u, v))
  BY <1>1, <1>5, <1>6 DEF ToWake, WillWake
<1>9. \A u \in Threads : ~WillWake(t, u)
  <2>1. \A u : <<>> # <<u>>
    OBVIOUS
  <2> QED BY <1>1, <2>1 DEF WillWake
<1>10. \A v \in Range(q) : /\ v \in should_wait /\ v \in Threads \ {t} /\ WaitsOnCv(v)
                           /\ \A u \in Threads : v \notin ToWake(u)
  BY <1>0, <1>2, <1>7, Zenon DEF Sleepers
<1>11. Sleepers'
  <2>1. \A u \in Range(mutex.queue) : pc'[u] = "Wait" /\ u \in should_wait
    BY <1>1, <1>2, <1>6 DEF Sleepers
  <2>2. \A u \in Range(cv'.queue) : WaitsOnCv(u)' /\ u \in should_wait
    BY <1>4, <1>6, <1>10
  <2>3. \A u \in Range(mutex.queue) : u \notin Range(q)
    <3>1. \A u : pc[u] = "Wait" => ~WaitsOnCv(u)
      BY DEF WaitsOnCv
    <3> QED BY <1>2, <1>10, <3>1, Zenon DEF Sleepers
  <2>4. \A u \in Range(mutex.queue) \cup Range(cv'.queue) : \A v \in Threads :
          u \notin ToWake(v)'
    <3> TAKE u \in Range(mutex.queue) \cup Range(cv'.queue)
    <3> TAKE v \in Threads
    <3>1. u \notin ToWake(v)
      BY <1>2, <1>4, <1>10, Zenon DEF Sleepers
    <3>2. u \notin Range(list'[t])
      BY <1>4, <2>3, Zenon
    <3> QED BY <1>8, <3>1, <3>2, Zenon
  <2>5. ASSUME NEW u \in Threads, NEW v \in ToWake(u)'
        PROVE  /\ v \in should_wait' /\ (pc'[v] = "Wait" \/ WaitsOnCv(v)')
               /\ \A w \in Threads : v \in ToWake(w)' => u = w
    <3>1. CASE u = t
      BY <1>1, <1>4, <1>6, <1>8, <1>10, <2>5, <3>1
    <3>2. CASE u # t
      <4>1. v \in ToWake(u) /\ v \notin Range(q)
        BY <1>8, <1>10, <2>5, <3>2
      <4>2. /\ v \in should_wait /\ (pc[v] = "Wait" \/ WaitsOnCv(v))
            /\ \A w \in Threads : v \in ToWake(w) => u = w
        BY <1>2, <4>1 DEF Sleepers
      <4>3. v \in Threads \ {t}
        <5>1. v \in Threads
          BY <1>2, <4>2, Zenon
        <5>2. pc[t] # "Wait"
          BY <1>1
        <5> QED BY <1>7, <4>2, <5>1, <5>2, Zenon
      <4> QED BY <1>1, <1>4, <1>6, <1>8, <4>1, <4>2, <4>3
    <3> QED BY <3>1, <3>2
  <2>6. \A u \in Threads : IsInjective(list'[u]) /\ stale'[u] \subseteq Range(list'[u])
    BY <1>1, <1>2, <1>4, <1>5, <1>6, Zenon DEF Sleepers
  <2> QED BY <1>1, <1>2, <1>4, <2>1, <2>2, <2>4, <2>5, <2>6 DEF Sleepers
<1>12. \A s \in should_wait : pc'[s] = "Wait" => s \in Threads \ {t} /\ pc[s] = "Wait"
  BY <1>1, <1>2, <1>6
<1>13. \A u, v \in Threads : WillWake(u, v) => WillWake(u, v)'
  BY <1>8, <1>9
<1>14. NoWaiterIsLost'
  BY <1>1, <1>2, <1>12, <1>13 DEF NoWaiterIsLost
<1>15. SomeoneTakesOver'
  <2> SUFFICES ASSUME NEW s \in should_wait, pc'[s] = "Wait", ~mutex.locked
               PROVE  SomeoneTakesOver'
    BY <1>1 DEF SomeoneTakesOver
  <2>1. PICK w \in Threads :
          \/ pc[w] \in {"Lock", "LockSlow"}
          \/ pc[w] = "Wait" /\ (w \notin should_wait \/ \E u \in Threads : WillWake(u, w))
    BY <1>2, <1>12 DEF SomeoneTakesOver
  <2>2. w \in Threads \ {t} /\ pc'[w] = pc[w]
    <3>1. w # t
      BY <1>1, <2>1
    <3> QED BY <1>6, <3>1
  <2>3. \/ pc'[w] \in {"Lock", "LockSlow"}
        \/ pc'[w] = "Wait" /\ (w \notin should_wait' \/ \E u \in Threads : WillWake(u, w)')
    BY <1>1, <1>13, <2>1, <2>2, Zenon
  <2> QED BY <2>3 DEF SomeoneTakesOver
<1> QED BY <1>11, <1>14, <1>15 DEF SleepersOK

\* Every operation of the mutex and the condition accounts for the sleepers.
LEMMA SleepersStep ==
  ASSUME AtomicsInv, NEW t \in Threads, Call(t) \/ Proceed(t)
  PROVE  SleepersOK'
<1>a. OthersKeep(t) /\ after[t] \in {"Idle", "Owner", "CvWait"}
  BY FrameStep, ThreadTypes DEF AtomicsInv
<1>b. /\ Holds(t) => mutex.locked
      /\ pc[t] \in {"SetOwner", "Owner", "CvQueue", "CvUnlock", "UnlockFast",
           "UnlockSlow"} => Holds(t)
  BY DEF AtomicsInv, LocksAreOwned, Owned, Holds, HolderLabels
<1> USE <1>a, <1>b
<1>1. CASE CallLock(t)
  BY <1>1, CallLockEffect, QuietKeeps DEF Quiet, WaitsOnCv
<1>2. CASE TryLock(t)
  BY <1>2, TryLockEffect, QuietKeeps DEF Quiet, WaitsOnCv
<1>3. CASE CallWaitFor(t)
  BY <1>3, CallWaitForEffect, QuietKeeps DEF Quiet, WaitsOnCv
<1>4. CASE CallNotify(t)
  BY <1>4, CallNotifyEffect, QuietKeeps DEF Quiet, WaitsOnCv
<1>5. CASE TimeOut(t)
  BY <1>5, TimeOutEffect, QuietKeeps DEF Quiet, WaitsOnCv
<1>6. CASE Lock(t)
  BY <1>6, LockEffect, QuietKeeps DEF Quiet, WaitsOnCv
<1>7. CASE TryLockExplicit(t)
  BY <1>7, TryLockExplicitEffect, QuietKeeps DEF Quiet, WaitsOnCv
<1>8. CASE TryLockWaiterQueueExplicit(t)
  BY <1>8, TryLockWaiterQueueExplicitEffect, QuietKeeps DEF Quiet, WaitsOnCv
<1>9. CASE Enqueue(t)
  BY <1>9, EnqueueKeeps
<1>10. CASE Wake(t)
  BY <1>10, WakeEffect, QuietKeeps DEF Quiet, WaitsOnCv
<1>11. CASE SetCurrentThreadAsOwner(t)
  BY <1>11, SetCurrentThreadAsOwnerEffect, QuietKeeps DEF Quiet, WaitsOnCv
<1>12. CASE Unlock(t)
  BY <1>12, UnlockEffect, QuietKeeps DEF Quiet, WaitsOnCv
<1>13. CASE UnlockFast(t)
  BY <1>13, UnlockFastEffect, QuietKeeps DEF Quiet, WaitsOnCv
<1>14. CASE Dequeue(t)
  BY <1>14, DequeueKeeps
<1>15. CASE Notify(t)
  BY <1>15, NotifyKeeps
<1>16. CASE LockCvQueue(t)
  BY <1>16, LockCvQueueEffect, QuietKeeps DEF Quiet, WaitsOnCv
<1>17. CASE NoWaiters(t)
  <2>1. CASE pc[t] = "CvRemove"
    <3>1. IsInjective(cv.queue) /\ Range(cv.queue) \subseteq Range(cv.queue) \ {t}
      BY <1>17, NoWaitersEffect, EmptyFacts
    <3>2. /\ pc'[t] = "Lock" /\ should_wait' = should_wait \ {t}
          /\ mutex' = mutex /\ list' = list /\ cv' = cv
          /\ \A u \in Threads :
               stale'[u] = IF t \in Range(list[u]) THEN stale[u] \cup {t} ELSE stale[u]
      BY <1>17, <2>1, NoWaitersEffect, Zenon
    <3> QED BY <2>1, <3>1, <3>2, GiveUpKeeps
  <2>2. CASE pc[t] = "CvNotify"
    BY <1>17, NoWaitersEffect, <2>2, QuietKeeps DEF Quiet, WaitsOnCv
  <2> QED BY <1>17, <2>1, <2>2 DEF NoWaiters
<1>18. CASE CvEnqueue(t)
  BY <1>18, CvEnqueueKeeps
<1>19. CASE CvRemove(t)
  <2>1. IsInjective(cv.queue)
    BY DEF AtomicsInv, Sleepers
  <2>2. /\ IsInjective(Without(cv.queue, t))
        /\ Range(Without(cv.queue, t)) \subseteq Range(cv.queue) \ {t}
    BY <2>1, ThreadTypes, WithoutFacts
  <2> QED BY <1>19, CvRemoveEffect, <2>2, GiveUpKeeps
<1>20. CASE CvDequeue(t)
  BY <1>20, CvDequeueKeeps
<1> QED BY <1>1, <1>2, <1>3, <1>4, <1>5, <1>6, <1>7, <1>8, <1>9, <1>10, <1>11, <1>12,
           <1>13, <1>14, <1>15, <1>16, <1>17, <1>18, <1>19, <1>20, Zenon
        DEF Call, Proceed

\* The invariant holds when the mutex and the condition are created.
LEMMA AtomicsInit == Init => AtomicsInv
<1> SUFFICES ASSUME Init PROVE AtomicsInv
  OBVIOUS
<1>1. AtomicsTypeOK
  BY EmptyFacts DEF Init, AtomicsTypeOK, Words, Word, Unlocked, Labels
<1>2. mutex.queue = <<>> /\ ~mutex.locked /\ ~mutex.queue_locked /\ cv.queue = <<>>
        /\ ~cv.queue_locked
  BY DEF Init, Word, Unlocked
<1>3. \A t \in Threads : pc[t] = "Idle" /\ list[t] = <<>> /\ stale[t] = {}
  BY DEF Init
<1>4. owner = Nobody /\ should_wait = {}
  BY DEF Init
<1>5. \A t \in Threads : ~Holds(t) /\ ~LocksMutexQueue(t) /\ ~LocksCvQueue(t)
        /\ ToWake(t) = {}
  BY <1>3, EmptyFacts DEF Holds, HolderLabels, LocksMutexQueue, LocksCvQueue, ToWake
<1>6. LabelsMatch
  BY <1>3 DEF LabelsMatch, LabelMatches
<1>7. LocksAreOwned
  BY <1>2, <1>5 DEF LocksAreOwned, Owned
<1>8. Contention /\ MutualExclusion /\ QueueLockProtectsState
  BY <1>2, <1>3, <1>4, <1>5 DEF Contention, MutualExclusion, QueueLockProtectsState
<1>9. Sleepers
  BY <1>2, <1>3, <1>5, EmptyFacts DEF Sleepers
<1>10. NoWaiterIsLost /\ SomeoneTakesOver
  BY <1>4 DEF NoWaiterIsLost, SomeoneTakesOver
<1> QED BY <1>1, <1>6, <1>7, <1>8, <1>9, <1>10 DEF AtomicsInv

\* Every step of every thread preserves the invariant.
LEMMA AtomicsStep == AtomicsInv /\ [Next]_vars => AtomicsInv'
<1> SUFFICES ASSUME AtomicsInv, [Next]_vars PROVE AtomicsInv'
  OBVIOUS
<1>1. CASE UNCHANGED vars
  <2>1. /\ mutex' = mutex /\ owner' = owner /\ cv' = cv /\ should_wait' = should_wait
        /\ pc' = pc /\ current' = current /\ after' = after /\ count' = count
        /\ list' = list /\ stale' = stale
    BY <1>1 DEF vars
  <2>2. AtomicsTypeOK'
    BY <2>1 DEF AtomicsInv, AtomicsTypeOK
  <2>3. LabelsMatch' /\ Contention' /\ QueueLockProtectsState'
    BY <2>1 DEF AtomicsInv, LabelsMatch, LabelMatches, Contention, QueueLockProtectsState
  <2>4. LocksAreOwned' /\ MutualExclusion'
    BY <2>1
    DEF AtomicsInv, LocksAreOwned, Holds, LocksMutexQueue, LocksCvQueue, MutualExclusion
  <2>5. Sleepers'
    BY <2>1 DEF AtomicsInv, Sleepers, ToWake, WaitsOnCv
  <2>6. NoWaiterIsLost' /\ SomeoneTakesOver'
    BY <2>1 DEF AtomicsInv, NoWaiterIsLost, SomeoneTakesOver, WillWake
  <2> QED BY <2>2, <2>3, <2>4, <2>5, <2>6 DEF AtomicsInv
<1>2. ASSUME NEW t \in Threads, Call(t) \/ Proceed(t)
      PROVE  AtomicsInv'
  <2>1. AtomicsTypeOK' /\ LabelsMatch' /\ LocksAreOwned' /\ Contention'
          /\ QueueLockProtectsState'
    BY <1>2, TypeStep, LabelsStep, LocksStep, ContentionStep, ProtectStep
  <2>2. MutualExclusion'
    <3>1. (owner # Nobody => Holds(owner) /\ pc[owner] # "UnlockFast")'
      BY <1>2, OwnerStep
    <3> QED BY <2>1, <3>1 DEF MutualExclusion, LocksAreOwned, Owned
  <2>3. SleepersOK'
    BY <1>2, SleepersStep
  <2> QED BY <2>1, <2>2, <2>3 DEF AtomicsInv, SleepersOK
<1> QED BY <1>1, <1>2 DEF Next, Finished

\* The inductive invariant of the mutex and the condition holds in every reachable
\* state, for any threads and any number of calls.
THEOREM AtomicsInvariant == Spec => []AtomicsInv
BY AtomicsInit, AtomicsStep, PTL DEF Spec

\* Atomics.Mutex excludes: at most one thread is between its Lock and the store of
\* its Unlock, the locked bit tells whether there is one, and owner_thread_id names
\* no other.
THEOREM MutexExcludes == Spec => []MutualExclusion
<1>1. AtomicsInv => MutualExclusion
  BY DEF AtomicsInv
<1> QED BY <1>1, AtomicsInvariant, PTL

\* The plain store that ends a section under a queue lock finds the word as the
\* lock was taken on it, and the slow path of Unlock finds a waiter in the queue.
THEOREM QueueLocksProtect == Spec => []QueueLockProtectsState
<1>1. AtomicsInv => QueueLockProtectsState
  BY DEF AtomicsInv
<1> QED BY <1>1, AtomicsInvariant, PTL

\* No thread sleeps on the mutex that is not in its queue or in the hands of a
\* thread that will notify it.
THEOREM WaitersAreNotLost == Spec => []NoWaiterIsLost
<1>1. AtomicsInv => NoWaiterIsLost
  BY DEF AtomicsInv
<1> QED BY <1>1, AtomicsInvariant, PTL

\* While threads sleep on a mutex nobody holds, another thread is awake or about to
\* be woken that will lock it: Unlock never takes its fast path past a sleeper.
THEOREM FreeMutexIsTakenOver == Spec => []SomeoneTakesOver
<1>1. AtomicsInv => SomeoneTakesOver
  BY DEF AtomicsInv
<1> QED BY <1>1, AtomicsInvariant, PTL

=============================================================================

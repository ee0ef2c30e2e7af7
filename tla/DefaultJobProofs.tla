-------------------------- MODULE DefaultJobProofs ---------------------------
(***************************************************************************)
(* For any number of workers, any limits and any amount of work: the count *)
(* of active workers is right, and when Join or Cancel has returned nobody *)
(* is inside the job and nobody enters it any more; pending_tasks_ is the  *)
(* number of reserved tasks, and the task ids suffice.                     *)
(***************************************************************************)
EXTENDS DefaultJob, FiniteSetTheorems, TLAPS

\* A step moves only thread t.
Moves(t) ==
  \A u \in Threads : u # t => pc'[u] = pc[u] /\ after'[u] = after[u]

\* There are finitely many threads, and so finitely many active ones.
LEMMA ThreadsAreFinite == IsFiniteSet(Threads) /\ IsFiniteSet(Active)
<1>1. IsFiniteSet(Threads)
  BY JobAssumption, FS_AddElement DEF Threads
<1>2. Active \subseteq Threads
  BY DEF Active
<1> QED BY <1>1, <1>2, FS_Subset

\* A thread that stays as active as it was leaves the count alone.
LEMMA StaysCounted ==
  ASSUME NEW t \in Threads, Moves(t), IsActive(t)' <=> IsActive(t)
  PROVE  Active' = Active
<1>1. ASSUME NEW u \in Threads
      PROVE  IsActive(u)' <=> IsActive(u)
  <2>1. CASE u = t
    BY <2>1
  <2>2. CASE u # t
    <3>1. pc'[u] = pc[u] /\ after'[u] = after[u]
      BY <2>2 DEF Moves
    <3> QED BY <3>1 DEF IsActive, InTask
  <2> QED BY <2>1, <2>2
<1> QED BY <1>1 DEF Active

\* A thread that becomes active adds one to the count (CanRunFirstTask, Join).
LEMMA EntersCount ==
  ASSUME NEW t \in Threads, Moves(t), ~IsActive(t), IsActive(t)'
  PROVE  /\ Active' = Active \cup {t}
         /\ Cardinality(Active') = Cardinality(Active) + 1
<1>1. ASSUME NEW u \in Threads
      PROVE  IsActive(u)' <=> IsActive(u) \/ u = t
  <2>1. CASE u = t
    BY <2>1
  <2>2. CASE u # t
    <3>1. pc'[u] = pc[u] /\ after'[u] = after[u]
      BY <2>2 DEF Moves
    <3> QED BY <2>2, <3>1 DEF IsActive, InTask
  <2> QED BY <2>1, <2>2
<1>2. Active' = Active \cup {t}
  BY <1>1 DEF Active
<1>3. t \notin Active
  BY DEF Active
<1>4. Cardinality(Active \cup {t}) = Cardinality(Active) + 1
  BY <1>3, ThreadsAreFinite, FS_AddElement, Zenon
<1> QED BY <1>2, <1>4

\* A thread that stops being active takes one off (DidRunTask, the end of Join).
LEMMA LeavesCount ==
  ASSUME NEW t \in Threads, Moves(t), IsActive(t), ~IsActive(t)'
  PROVE  /\ Active' = Active \ {t}
         /\ Cardinality(Active') = Cardinality(Active) - 1
<1>1. ASSUME NEW u \in Threads
      PROVE  IsActive(u)' <=> IsActive(u) /\ u # t
  <2>1. CASE u = t
    BY <2>1
  <2>2. CASE u # t
    <3>1. pc'[u] = pc[u] /\ after'[u] = after[u]
      BY <2>2 DEF Moves
    <3> QED BY <2>2, <3>1 DEF IsActive, InTask
  <2> QED BY <2>1, <2>2
<1>2. Active' = Active \ {t}
  BY <1>1 DEF Active
<1>3. t \in Active
  BY DEF Active
<1>4. Cardinality(Active \ {t}) = Cardinality(Active) - 1
  BY <1>3, ThreadsAreFinite, FS_RemoveElement, Zenon
<1> QED BY <1>2, <1>4

\* What the joiner needs to know to return: it is alone and nothing is left.
LEMMA JoinerIsAlone ==
  ASSUME active_workers \in Nat \ {0}, num_worker_threads \in Nat \ {0}, work \in Nat,
         ~JoinSleeps, JobIsDone
  PROVE  active_workers = 1 /\ work = 0
<1>1. active_workers = 1
  BY DEF JoinSleeps, JobIsDone, TooMany
<1> QED
  BY <1>1, JobAssumption
     DEF JobIsDone, CappedMaxConcurrency, GetMaxConcurrency, Smaller

\* A step that makes nobody active or inactive and lets nobody return keeps
\* the invariant, if it keeps the labels.
LEMMA CountIsKept ==
  ASSUME JobInv, NEW t \in Threads, Moves(t), Labelled',
         IsActive(t)' <=> IsActive(t), UNCHANGED active_workers,
         pc'[Main] \in {"Joined", "Canceled"} => pc'[Main] = pc[Main] /\ work' = work
  PROVE  JobInv'
<1>1. Active' = Active
  BY StaysCounted
<1> QED BY <1>1 DEF JobInv, ActiveIsCounted, ReturnedMeansDone

\* While a thread is active neither Join nor Cancel has returned.
LEMMA ActiveNotReturned ==
  ASSUME JobInv, NEW t \in Threads, IsActive(t)
  PROVE  pc[Main] \notin {"Joined", "Canceled"} /\ active_workers >= 1
<1>1. t \in Active
  BY DEF Active
<1>2. Cardinality(Active) # 0 /\ Cardinality(Active) \in Nat
  BY <1>1, ThreadsAreFinite, FS_EmptySet, FS_CardinalityType
<1> QED BY <1>1, <1>2 DEF JobInv, ReturnedMeansDone, ActiveIsCounted

\* A step of a thread inside the task keeps it inside the job; a step of the
\* owner's NotifyConcurrencyIncrease keeps it outside.
LEMMA ThreadStepKeeps ==
  ASSUME JobInv, NEW t \in Threads, ThreadStep(t)
  PROVE  JobInv'
<1> USE DEF JobInv, Labelled
<1>1. /\ Moves(t)
      /\ IsActive(t)' <=> IsActive(t)
      /\ UNCHANGED <<active_workers, num_worker_threads, is_canceled>>
      /\ work' \in Nat /\ (work' # work => IsActive(t))
      /\ pc' \in [Threads -> Labels] /\ after' \in [Threads -> {"Idle", "Run"}]
      /\ pc'[t] \in {"Idle", "Run", "Take", "Work", "Notify", "Grow", "Post",
                    "DidRun", "JoinAgain"}
      /\ t \in Workers =>
           /\ pc'[t] \notin {"Idle", "JoinAgain"}
           /\ pc'[t] \in {"Notify", "Grow", "Post"} => after'[t] = "Run"
      /\ t = Main => pc'[t] # "DidRun"
      /\ pc[t] \notin Returned \cup {"CancelWait"}
  <2>1. CASE NotifyConcurrencyIncrease(t)
    BY <2>1 DEF NotifyConcurrencyIncrease, Goto, counters, poolVars, Moves, IsActive,
                InTask, Labels, Returned
  <2>2. CASE Grow(t)
    BY <2>2 DEF Grow, PostUpTo, Goto, poolVars, Moves, IsActive, InTask, Labels, Returned
  <2>3. CASE CallOnWorkerThread(t)
    BY <2>3 DEF CallOnWorkerThread, Goto, counters, poolVars, Moves, IsActive, InTask,
                Labels, Returned
  <2>4. CASE ShouldYield(t)
    BY <2>4, JobAssumption
       DEF ShouldYield, RunEnds, Goto, counters, poolVars, Moves, IsActive, InTask,
           Labels, Returned, Threads
  <2>5. CASE TakeWork(t)
    BY <2>5, JobAssumption
       DEF TakeWork, RunEnds, Goto, counters, Moves, IsActive, InTask, Labels, Returned,
           Threads
  <2>6. CASE FinishItem(t)
    BY <2>6 DEF FinishItem, Goto, counters, poolVars, Moves, IsActive, InTask, Labels,
                Returned
  <2> QED BY <2>1, <2>2, <2>3, <2>4, <2>5, <2>6 DEF ThreadStep
<1>2. Labelled'
  BY <1>1, JobAssumption DEF Moves, Threads, Returned
<1>3. pc'[Main] \in {"Joined", "Canceled"} => pc'[Main] = pc[Main] /\ work' = work
  BY <1>1, ActiveNotReturned DEF Moves, Threads
<1> QED BY <1>1, <1>2, <1>3, CountIsKept

\* Adding work and taking a task id change nobody's place in the job.
LEMMA AddWorkKeeps ==
  ASSUME JobInv, NEW t \in Threads, AddWork(t) \/ AcquireTaskId(t)
  PROVE  JobInv'
<1> USE DEF JobInv, Labelled
<1>1. /\ Moves(t)
      /\ IsActive(t)' <=> IsActive(t)
      /\ UNCHANGED <<active_workers, num_worker_threads, is_canceled>>
      /\ work' \in Nat
      /\ pc' \in [Threads -> Labels] /\ after' \in [Threads -> {"Idle", "Run"}]
      /\ pc'[t] \in {"Notify", "Work"}
      /\ t \in Workers /\ pc'[t] = "Notify" => after'[t] = "Run"
      /\ IsActive(t) \/ (t = Main /\ pc[t] = "Idle")
      /\ pc[t] \notin Returned \cup {"CancelWait"}
  <2>1. CASE AddWork(t)
    BY <2>1, JobAssumption
       DEF AddWork, Goto, counters, Moves, IsActive, InTask, Labels, Returned, Threads
  <2>2. CASE AcquireTaskId(t)
    BY <2>2 DEF AcquireTaskId, counters, poolVars, Moves, IsActive, InTask, Returned
  <2> QED BY <2>1, <2>2
<1>2. Labelled'
  BY <1>1, JobAssumption DEF Moves, Threads, Returned
<1>3. pc'[Main] \in {"Joined", "Canceled"} => pc'[Main] = pc[Main] /\ work' = work
  BY <1>1, ActiveNotReturned DEF Moves, Threads
<1> QED BY <1>1, <1>2, <1>3, CountIsKept

\* A worker enters the job only in CanRunFirstTask and leaves it in DidRunTask.
LEMMA WorkerStepKeeps ==
  ASSUME JobInv, NEW w \in Workers, WorkerStep(w)
  PROVE  JobInv'
<1> USE DEF JobInv, Labelled
<1>0. w \in Threads /\ w # Main /\ Main \in Threads
  BY JobAssumption DEF Threads
<1>1. CASE RunWorker(w)
  <2>1. /\ Moves(w) /\ (IsActive(w)' <=> IsActive(w))
        /\ UNCHANGED <<active_workers, num_worker_threads, is_canceled, work>>
        /\ pc' \in [Threads -> Labels] /\ after' = after /\ pc'[w] \in {"First", "Idle"}
    BY <1>0, <1>1 DEF RunWorker, Goto, counters, poolVars, Moves, IsActive, InTask, Labels
  <2>2. Labelled' /\ pc'[Main] = pc[Main]
    BY <1>0, <2>1 DEF Moves, Threads, Returned
  <2> QED BY <1>0, <2>1, <2>2, CountIsKept
<1>2. CASE CanRunFirstTask(w)
  <2>1. /\ Moves(w) /\ ~IsActive(w)
        /\ UNCHANGED <<num_worker_threads, is_canceled, work>>
        /\ pc' \in [Threads -> Labels] /\ after' = after
    BY <1>0, <1>2 DEF CanRunFirstTask, Goto, poolVars, Moves, IsActive, InTask, Labels
  <2>2. CASE MayStart
    <3>1. /\ pc'[w] = "Run" /\ active_workers' = active_workers + 1 /\ IsActive(w)'
      BY <1>0, <1>2, <2>2 DEF CanRunFirstTask, Goto, IsActive, InTask
    <3>2. Labelled' /\ pc'[Main] = pc[Main]
      BY <1>0, <2>1, <3>1 DEF Moves, Threads, Returned
    <3>3. pc[Main] \notin Returned
      BY <2>2 DEF MayStart
    <3>4. Cardinality(Active') = Cardinality(Active) + 1
      BY <1>0, <2>1, <3>1, EntersCount
    <3> QED BY <3>1, <3>2, <3>3, <3>4 DEF ActiveIsCounted, ReturnedMeansDone, Returned
  <2>3. CASE ~MayStart
    <3>1. /\ pc'[w] = "Idle" /\ active_workers' = active_workers /\ ~IsActive(w)'
      BY <1>0, <1>2, <2>3 DEF CanRunFirstTask, Goto, IsActive, InTask
    <3>2. Labelled' /\ pc'[Main] = pc[Main]
      BY <1>0, <2>1, <3>1 DEF Moves, Threads, Returned
    <3> QED BY <1>0, <2>1, <3>1, <3>2, CountIsKept
  <2> QED BY <2>2, <2>3
<1>3. CASE DidRunTask(w)
  <2>1. /\ Moves(w) /\ IsActive(w)
        /\ UNCHANGED <<num_worker_threads, is_canceled, work>>
        /\ pc' \in [Threads -> Labels] /\ after' \in [Threads -> {"Idle", "Run"}]
    BY <1>0, <1>3
       DEF DidRunTask, PostUpTo, Goto, poolVars, Moves, IsActive, InTask, Labels
  <2>2. pc[Main] \notin {"Joined", "Canceled"} /\ active_workers >= 1
    BY <1>0, <2>1, ActiveNotReturned
  <2>3. CASE is_canceled \/ TooMany(active_workers)
    <3>1. pc'[w] = "Idle" /\ active_workers' = active_workers - 1 /\ ~IsActive(w)'
      BY <1>0, <1>3, <2>3 DEF DidRunTask, Goto, IsActive, InTask
    <3>2. Labelled' /\ pc'[Main] = pc[Main]
      BY <1>0, <2>1, <3>1 DEF Moves, Threads, Returned
    <3>3. Cardinality(Active') = Cardinality(Active) - 1
      BY <1>0, <2>1, <3>1, LeavesCount
    <3> QED BY <2>2, <3>1, <3>2, <3>3 DEF ActiveIsCounted, ReturnedMeansDone
  <2>4. CASE ~(is_canceled \/ TooMany(active_workers))
    <3>1. pc'[w] = "Post" /\ after'[w] = "Run" /\ active_workers' = active_workers
      BY <1>0, <1>3, <2>4 DEF DidRunTask, PostUpTo, Goto
    <3>2. Labelled' /\ pc'[Main] = pc[Main] /\ IsActive(w)'
      BY <1>0, <2>1, <3>1 DEF Moves, Threads, Returned, IsActive, InTask
    <3> QED BY <1>0, <2>1, <2>2, <3>1, <3>2, CountIsKept
  <2> QED BY <2>3, <2>4
<1> QED BY <1>1, <1>2, <1>3 DEF WorkerStep

\* The steps of the owner's handle: it becomes active in Join, and returns only
\* when the count says that nobody else is.
LEMMA OwnerStepKeeps ==
  ASSUME JobInv,
         CallJoin \/ CallCancel \/ CancelAndDetach \/ SpuriousWakeup \/ MainStep
  PROVE  JobInv'
<1> USE DEF JobInv, Labelled
<1>0. Main \in Threads /\ Main \notin Workers
  BY JobAssumption DEF Threads
<1>1. CASE CallJoin
  <2>1. /\ Moves(Main) /\ ~IsActive(Main) /\ IsActive(Main)'
        /\ pc'[Main] = "JoinFirst" /\ active_workers' = active_workers + 1
        /\ Labelled'
    BY <1>0, <1>1
       DEF CallJoin, JoinerIsCounted, Goto, poolVars, Moves, IsActive, InTask, Labels,
           Returned, Threads
  <2>2. Cardinality(Active') = Cardinality(Active) + 1
    BY <1>0, <2>1, EntersCount
  <2> QED BY <2>1, <2>2 DEF ActiveIsCounted, ReturnedMeansDone
<1>2. CASE CallCancel \/ CancelAndDetach
  <2>1. /\ Moves(Main) /\ ~IsActive(Main) /\ ~IsActive(Main)'
        /\ pc'[Main] \in {"CancelWait", "Detached"} /\ active_workers' = active_workers
        /\ Labelled'
    BY <1>0, <1>2, Zenon
       DEF CallCancel, CancelAndDetach, Goto, poolVars, counters, Moves, IsActive, InTask,
           Labels, Returned, Threads
  <2> QED BY <1>0, <2>1, CountIsKept
<1>3. CASE SpuriousWakeup
  <2>1. /\ Moves(Main) /\ (IsActive(Main)' <=> IsActive(Main)) /\ Labelled'
        /\ UNCHANGED <<pc, active_workers, work>>
    BY <1>3 DEF SpuriousWakeup, poolVars, counters, Moves, IsActive, InTask
  <2> QED BY <1>0, <2>1, CountIsKept
<1>4. CASE CancelAndWait
  <2>1. /\ Moves(Main) /\ ~IsActive(Main) /\ ~IsActive(Main)'
        /\ UNCHANGED <<active_workers, work>> /\ Labelled'
    BY <1>0, <1>4
       DEF CancelAndWait, poolVars, counters, Goto, Moves, IsActive, InTask, Labels,
           Returned, Threads
  <2>2. CASE active_workers > 0
    BY <1>0, <1>4, <2>1, <2>2, CountIsKept DEF CancelAndWait
  <2>3. CASE ~(active_workers > 0)
    <3>1. Cardinality(Active) = 0
      BY <2>3 DEF ActiveIsCounted
    <3>2. Active = {}
      BY <3>1, ThreadsAreFinite, FS_EmptySet
    <3>3. Active' = Active
      BY <1>0, <2>1, StaysCounted
    <3>4. pc'[Main] = "Canceled"
      BY <1>0, <1>4, <2>3 DEF CancelAndWait, Goto
    <3> QED BY <2>1, <3>2, <3>3, <3>4 DEF ActiveIsCounted, ReturnedMeansDone
  <2> QED BY <2>2, <2>3
<1>5. CASE Join
  <2>1. Moves(Main) /\ IsActive(Main) /\ UNCHANGED <<work, num_worker_threads>>
    BY <1>0, <1>5
       DEF Join, PostUpTo, Goto, poolVars, counters, Moves, IsActive
  <2>2. CASE ~JoinSleeps /\ JobIsDone
    <3>1. /\ pc'[Main] = "Joined" /\ active_workers' = 0 /\ ~IsActive(Main)'
          /\ Labelled'
      BY <1>0, <1>5, <2>1, <2>2, Zenon
         DEF Join, Goto, IsActive, InTask, Labels, Returned, Threads
    <3>2. active_workers >= 1
      BY <1>0, <2>1, ActiveNotReturned
    <3>3. active_workers = 1 /\ work = 0
      BY <2>2, <3>2, JoinerIsAlone
    <3>4. Cardinality(Active') = 0
      BY <1>0, <2>1, <3>1, <3>3, LeavesCount DEF ActiveIsCounted
    <3>5. Active' \subseteq Active
      BY <1>0, <2>1, <3>1, LeavesCount
    <3>6. Active' = {}
      BY <3>4, <3>5, ThreadsAreFinite, FS_Subset, FS_EmptySet
    <3> QED BY <2>1, <3>1, <3>3, <3>4, <3>6 DEF ActiveIsCounted, ReturnedMeansDone
  <2>3. CASE ~(~JoinSleeps /\ JobIsDone)
    <3>1. /\ active_workers' = active_workers /\ is_canceled' = is_canceled
          /\ IsActive(Main)' /\ Labelled'
          /\ pc'[Main] \in {"JoinFirst", "JoinAgain", "Post", "Run"}
      BY <1>0, <1>5, <2>1, <2>3
         DEF Join, PostUpTo, Goto, counters, IsActive, InTask, Labels, Returned, Threads
    <3> QED BY <1>0, <2>1, <3>1, CountIsKept
  <2> QED BY <2>2, <2>3
<1> QED BY <1>1, <1>2, <1>3, <1>4, <1>5 DEF MainStep

\* Initially nobody is active.
LEMMA InitEstablishes == JobInit => JobInv
<1> SUFFICES ASSUME JobInit PROVE JobInv
  OBVIOUS
<1>1. Active = {}
  BY DEF JobInit, Active, IsActive, InTask
<1>2. Cardinality(Active) = 0
  BY <1>1, FS_EmptySet
<1>3. Labelled
  BY JobAssumption, Zenon DEF JobInit, Labelled, Labels, Returned, Threads, Smaller
<1> QED
  BY <1>1, <1>2, <1>3, JobAssumption
     DEF JobInv, JobInit, ActiveIsCounted, ReturnedMeansDone, Threads

\* Every step of the job keeps the invariant.
LEMMA NextKeeps == JobInv /\ [JobNext]_vars => JobInv'
<1> SUFFICES ASSUME JobInv, [JobNext]_vars PROVE JobInv'
  OBVIOUS
<1>1. CASE vars' = vars
  BY <1>1 DEF vars, counters, poolVars, JobInv, Labelled, ActiveIsCounted,
              ReturnedMeansDone, Active, IsActive, InTask
<1>2. CASE Done
  BY <1>1, <1>2 DEF Done
<1>3. ASSUME NEW t \in Threads, ThreadStep(t) \/ AddWork(t) \/ AcquireTaskId(t)
      PROVE  JobInv'
  BY <1>3, ThreadStepKeeps, AddWorkKeeps
<1>4. ASSUME NEW w \in Workers, WorkerStep(w)
      PROVE  JobInv'
  BY <1>4, WorkerStepKeeps
<1>5. CASE CallJoin \/ CallCancel \/ CancelAndDetach \/ SpuriousWakeup \/ MainStep
  BY <1>5, OwnerStepKeeps
<1> QED BY <1>1, <1>2, <1>3, <1>4, <1>5 DEF JobNext

\* The count of active workers is right in every reachable state.
THEOREM JobInvariant == JobSpec => []JobInv
BY InitEstablishes, NextKeeps, PTL DEF JobSpec

\* After Join or Cancel has returned nobody is inside the job, and after Join
\* nothing is left to do (DefaultJobState::Join, CancelAndWait).
THEOREM ReturnedJobIsDone == JobSpec => []ReturnedMeansDone
<1>1. JobInv => ReturnedMeansDone
  BY DEF JobInv
<1> QED BY <1>1, JobInvariant, PTL

\* The threads inside Run change only by the one that moves.
LEMMA RunningMoves ==
  ASSUME NEW t \in Threads, Moves(t)
  PROVE  /\ (InTask(t)' <=> InTask(t)) => Running' = Running
         /\ InTask(t)' => Running' = Running \cup {t}
         /\ ~InTask(t)' => Running' = Running \ {t}
<1>1. ASSUME NEW u \in Threads, u # t
      PROVE  InTask(u)' <=> InTask(u)
  BY <1>1 DEF Moves, InTask
<1> QED BY <1>1 DEF Running

\* A thread's step starts or ends a run of the task, or changes the work.
LEMMA ThreadStepImplements ==
  ASSUME JobInv, NEW t \in Threads, ThreadStep(t) \/ AddWork(t) \/ AcquireTaskId(t)
  PROVE  [Contract!JobNext]_(Contract!jobVars)
<1> USE DEF JobInv, Labelled
<1>0. Main \in Threads
  BY DEF Threads
<1>1. /\ Moves(t) /\ is_canceled' = is_canceled /\ work' \in Nat
      /\ (pc'[Main] \in {"Joined", "Canceled"} <=> pc[Main] \in {"Joined", "Canceled"})
      /\ \/ InTask(t)' <=> InTask(t)
         \/ ~InTask(t)' /\ work' = work
  <2>1. CASE NotifyConcurrencyIncrease(t)
    BY <1>0, <2>1
       DEF NotifyConcurrencyIncrease, Goto, counters, poolVars, Moves, InTask
  <2>2. CASE Grow(t)
    BY <1>0, <2>2 DEF Grow, PostUpTo, Goto, poolVars, Moves, InTask
  <2>3. CASE CallOnWorkerThread(t)
    BY <1>0, <2>3 DEF CallOnWorkerThread, Goto, counters, poolVars, Moves, InTask
  <2>4. CASE ShouldYield(t)
    BY <1>0, <2>4 DEF ShouldYield, RunEnds, Goto, counters, poolVars, Moves, InTask
  <2>5. CASE TakeWork(t)
    BY <1>0, <2>5 DEF TakeWork, RunEnds, Goto, counters, Moves, InTask
  <2>6. CASE FinishItem(t)
    BY <1>0, <2>6 DEF FinishItem, Goto, counters, poolVars, Moves, InTask
  <2>7. CASE AddWork(t)
    BY <1>0, <2>7 DEF AddWork, Goto, counters, Moves, InTask
  <2>8. CASE AcquireTaskId(t)
    BY <1>0, <2>8 DEF AcquireTaskId, counters, poolVars, Moves, InTask
  <2> QED BY <2>1, <2>2, <2>3, <2>4, <2>5, <2>6, <2>7, <2>8 DEF ThreadStep
<1>2. CASE InTask(t)' <=> InTask(t)
  <2>1. Running' = Running
    BY <1>1, <1>2, RunningMoves
  <2>2. Contract!ChangeWork
    BY <1>1, <2>1 DEF Contract!ChangeWork
  <2> QED BY <2>2 DEF Contract!JobNext
<1>3. CASE ~InTask(t)' /\ work' = work
  <2>1. Running' = Running \ {t}
    BY <1>1, <1>3, RunningMoves
  <2>2. Contract!Stop(t)
    BY <1>1, <1>3, <2>1 DEF Contract!Stop
  <2> QED BY <2>2, Zenon DEF Contract!JobNext
<1> QED BY <1>1, <1>2, <1>3

\* A worker starts the task only while the job is not canceled.
LEMMA WorkerStepImplements ==
  ASSUME JobInv, NEW w \in Workers, WorkerStep(w)
  PROVE  [Contract!JobNext]_(Contract!jobVars)
<1> USE DEF JobInv, Labelled
<1>0. w \in Threads /\ w # Main /\ Main \in Threads
  BY JobAssumption DEF Threads
<1>1. /\ Moves(w) /\ is_canceled' = is_canceled /\ work' = work
      /\ ~InTask(w) /\ (InTask(w)' => ~is_canceled)
  <2>1. CASE RunWorker(w)
    BY <1>0, <2>1 DEF RunWorker, Goto, poolVars, Moves, InTask
  <2>2. CASE CanRunFirstTask(w)
    BY <1>0, <2>2 DEF CanRunFirstTask, MayStart, Goto, poolVars, Moves, InTask
  <2>3. CASE DidRunTask(w)
    BY <1>0, <2>3 DEF DidRunTask, PostUpTo, Goto, poolVars, Moves, InTask
  <2> QED BY <2>1, <2>2, <2>3 DEF WorkerStep
<1>2. pc'[Main] = pc[Main]
  BY <1>0, <1>1 DEF Moves
<1>3. CASE InTask(w)'
  <2>1. Running' = Running \cup {w}
    BY <1>0, <1>1, <1>3, RunningMoves
  <2>2. Contract!Start(w)
    BY <1>1, <1>2, <1>3, <2>1 DEF Contract!Start
  <2> QED BY <1>0, <2>2, Zenon DEF Contract!JobNext
<1>4. CASE ~InTask(w)'
  <2>1. Running' = Running
    BY <1>0, <1>1, <1>4, RunningMoves
  <2> QED BY <1>1, <1>2, <2>1 DEF Contract!jobVars
<1> QED BY <1>3, <1>4

\* The owner's steps close the job, let it take part, or return when the
\* contract allows it.
LEMMA OwnerStepImplements ==
  ASSUME JobInv,
         CallJoin \/ CallCancel \/ CancelAndDetach \/ SpuriousWakeup \/ MainStep
  PROVE  [Contract!JobNext]_(Contract!jobVars)
<1> USE DEF JobInv, Labelled
<1>0. Main \in Threads
  BY DEF Threads
<1>1. CASE CallJoin \/ SpuriousWakeup
  <2>1. /\ Moves(Main) /\ is_canceled' = is_canceled /\ work' = work
        /\ (InTask(Main)' <=> InTask(Main))
        /\ (pc'[Main] \in {"Joined", "Canceled"} <=> pc[Main] \in {"Joined", "Canceled"})
    BY <1>0, <1>1 DEF CallJoin, SpuriousWakeup, Goto, poolVars, Moves, InTask
  <2>2. Running' = Running
    BY <1>0, <2>1, RunningMoves
  <2> QED BY <2>1, <2>2 DEF Contract!jobVars
<1>2. CASE CallCancel \/ CancelAndDetach
  <2>1. /\ Moves(Main) /\ is_canceled' = TRUE /\ work' = work
        /\ (InTask(Main)' <=> InTask(Main))
        /\ pc'[Main] \notin {"Joined", "Canceled"} /\ pc[Main] \notin {"Joined", "Canceled"}
    BY <1>0, <1>2 DEF CallCancel, CancelAndDetach, Goto, poolVars, Moves, InTask
  <2>2. Running' = Running
    BY <1>0, <2>1, RunningMoves
  <2>3. Contract!Close
    BY <2>1, <2>2 DEF Contract!Close
  <2> QED BY <2>3 DEF Contract!JobNext
<1>3. CASE CancelAndWait
  <2>1. /\ Moves(Main) /\ is_canceled' = is_canceled /\ is_canceled /\ work' = work
        /\ (InTask(Main)' <=> InTask(Main))
    BY <1>0, <1>3 DEF CancelAndWait, Goto, poolVars, Moves, InTask
  <2>2. Running' = Running
    BY <1>0, <2>1, RunningMoves
  <2>3. CASE active_workers > 0
    BY <1>3, <2>1, <2>2, <2>3 DEF CancelAndWait, Contract!jobVars
  <2>4. CASE ~(active_workers > 0)
    <3>1. Cardinality(Active) = 0
      BY <2>4 DEF ActiveIsCounted
    <3>2. Running = {}
      BY <3>1, ThreadsAreFinite, FS_EmptySet DEF Running, Active, IsActive
    <3>3. pc'[Main] = "Canceled"
      BY <1>0, <1>3, <2>4 DEF CancelAndWait, Goto
    <3>4. Contract!CancelReturns
      BY <2>1, <2>2, <3>2, <3>3 DEF Contract!CancelReturns
    <3> QED BY <3>4 DEF Contract!JobNext
  <2> QED BY <2>3, <2>4
<1>4. CASE Join
  <2>1. Moves(Main) /\ IsActive(Main) /\ ~InTask(Main) /\ UNCHANGED work /\ ~is_canceled
    BY <1>0, <1>4
       DEF Join, PostUpTo, Goto, poolVars, Moves, IsActive, InTask, Returned
  <2>2. CASE ~JoinSleeps /\ JobIsDone
    <3>1. active_workers >= 1
      BY <1>0, <2>1, ActiveNotReturned
    <3>2. active_workers = 1 /\ work = 0
      BY <2>2, <3>1, JoinerIsAlone
    <3>3. /\ pc'[Main] = "Joined" /\ is_canceled' = TRUE
          /\ ~InTask(Main)' /\ ~IsActive(Main)'
      BY <1>0, <1>4, <2>2 DEF Join, Goto, InTask, IsActive
    <3>4. Cardinality(Active') = 0 /\ Active' \subseteq Active
      BY <1>0, <2>1, <3>2, <3>3, LeavesCount DEF ActiveIsCounted
    <3>5. Active' = {}
      BY <3>4, ThreadsAreFinite, FS_Subset, FS_EmptySet
    <3>6. Running' = Running
      BY <1>0, <2>1, <3>3, RunningMoves
    <3>7. Running' = {}
      BY <3>5 DEF Running, Active, IsActive
    <3>8. Contract!JoinReturns
      BY <2>1, <3>2, <3>3, <3>6, <3>7 DEF Contract!JoinReturns
    <3> QED BY <3>8 DEF Contract!JobNext
  <2>3. CASE ~(~JoinSleeps /\ JobIsDone)
    <3>1. /\ is_canceled' = is_canceled
          /\ pc'[Main] \in {"JoinFirst", "JoinAgain", "Post", "Run"}
          /\ pc[Main] \in {"JoinFirst", "JoinAgain"}
      BY <1>0, <1>4, <2>3 DEF Join, PostUpTo, Goto
    <3>2. CASE InTask(Main)'
      <4>1. Running' = Running \cup {Main}
        BY <1>0, <2>1, <3>2, RunningMoves
      <4>2. Contract!Start(Main)
        BY <2>1, <3>1, <4>1 DEF Contract!Start
      <4> QED BY <1>0, <4>2, Zenon DEF Contract!JobNext
    <3>3. CASE ~InTask(Main)'
      <4>1. Running' = Running
        BY <1>0, <2>1, <3>3, RunningMoves
      <4> QED BY <2>1, <3>1, <4>1 DEF Contract!jobVars
    <3> QED BY <3>2, <3>3
  <2> QED BY <2>2, <2>3
<1> QED BY <1>1, <1>2, <1>3, <1>4 DEF MainStep

\* Every step of the job is a step of the contract or changes nothing of it.
LEMMA NextImplements ==
  JobInv /\ [JobNext]_vars => [Contract!JobNext]_(Contract!jobVars)
<1> SUFFICES ASSUME JobInv, [JobNext]_vars
             PROVE  [Contract!JobNext]_(Contract!jobVars)
  OBVIOUS
<1>1. CASE vars' = vars
  BY <1>1 DEF vars, counters, poolVars, Running, InTask, Contract!jobVars
<1>2. CASE Done
  BY <1>1, <1>2 DEF Done
<1>3. ASSUME NEW t \in Threads, ThreadStep(t) \/ AddWork(t) \/ AcquireTaskId(t)
      PROVE  [Contract!JobNext]_(Contract!jobVars)
  BY <1>3, ThreadStepImplements
<1>4. ASSUME NEW w \in Workers, WorkerStep(w)
      PROVE  [Contract!JobNext]_(Contract!jobVars)
  BY <1>4, WorkerStepImplements
<1>5. CASE CallJoin \/ CallCancel \/ CancelAndDetach \/ SpuriousWakeup \/ MainStep
  BY <1>5, OwnerStepImplements
<1> QED BY <1>1, <1>2, <1>3, <1>4, <1>5 DEF JobNext

\* DefaultJobState does what a JobHandle promises, for any number of workers:
\* the task is started only while the job is open, and Join and Cancel return
\* only when nobody runs it.
THEOREM JobImplementsContract == JobSpec => ImplementsContract
<1>1. JobInit => Contract!JobInit
  BY DEF JobInit, Contract!JobInit, Running, InTask, Threads
<1> QED
  BY <1>1, JobInvariant, NextImplements, PTL
     DEF JobSpec, ImplementsContract, Contract!JobSpec

\* The books of pending_tasks_: while the state is alive every reserved task is
\* to be posted, posted, or taken; a thread has tasks to post only in Post.
PendingInv ==
  /\ pending_tasks \in Nat /\ posted \in Nat /\ to_post \in [Threads -> Nat]
  /\ \A t \in Threads : pc[t] # "Post" => to_post[t] = 0
  /\ IsFiniteSet(Posting)
  /\ StateIsAlive =>
       pending_tasks = posted + Cardinality(Posting) + Cardinality(Starting)

\* The active threads fit in num_worker_threads_, which Join raises once.
CapInv ==
  /\ active_workers <= num_worker_threads
  /\ num_worker_threads <= NumWorkerThreads + 1
  /\ ~IsActive(Main) /\ pc[Main] # "Joined" => num_worker_threads <= NumWorkerThreads

\* The assigned ids are those of the threads that hold one, all different, and
\* a thread holds one only while its delegate lives.
IdInv ==
  /\ task_id \in [Threads -> 0..(kMaxWorkersPerJob - 1) \cup {None}]
  /\ assigned_task_ids = {task_id[t] : t \in {u \in Threads : task_id[u] # None}}
  /\ \A t, u \in Threads : task_id[t] = task_id[u] /\ task_id[t] # None => t = u
  /\ \A t \in Threads :
       task_id[t] # None => InTask(t) \/ (t = Main /\ pc[t] = "JoinAgain")

\* A dead state stays dead: only workers that find the weak pointer expired run.
LEMMA DeadStaysDead ==
  ASSUME JobInv, [JobNext]_vars, ~StateIsAlive
  PROVE  ~StateIsAlive'
<1> USE DEF JobInv, Labelled
<1>0. /\ Main \in Threads /\ Main \notin Workers /\ pc[Main] \in Returned
      /\ \A w \in Workers : pc[w] = "Idle" /\ w \in Threads
      /\ \A t \in Threads : t = Main \/ t \in Workers
  BY JobAssumption DEF StateIsAlive, Threads
<1>1. CASE UNCHANGED pc
  BY <1>1 DEF StateIsAlive
<1>2. CASE vars' = vars \/ Done \/ SpuriousWakeup
  BY <1>1, <1>2 DEF vars, Done, SpuriousWakeup
<1>3. ASSUME NEW t \in Threads, ThreadStep(t) \/ AddWork(t) \/ AcquireTaskId(t)
      PROVE  FALSE
  BY <1>0, <1>3
     DEF ThreadStep, AddWork, AcquireTaskId, NotifyConcurrencyIncrease, Grow,
         CallOnWorkerThread, ShouldYield, TakeWork, FinishItem, Returned
<1>4. ASSUME NEW w \in Workers, WorkerStep(w)
      PROVE  UNCHANGED pc
  <2>1. RunWorker(w)
    BY <1>0, <1>4 DEF WorkerStep, CanRunFirstTask, DidRunTask
  <2> QED BY <1>0, <2>1 DEF RunWorker, Goto
<1>5. CASE CallJoin \/ CallCancel \/ CancelAndDetach \/ MainStep
  BY <1>0, <1>5
     DEF CallJoin, CallCancel, CancelAndDetach, MainStep, Join, CancelAndWait, Returned
<1> QED BY <1>1, <1>2, <1>3, <1>4, <1>5 DEF JobNext

\* A thread with nothing to post reserves n tasks (the stores of Grow, DidRunTask
\* and Join).
LEMMA PostingGrows ==
  ASSUME NEW t \in Threads, NEW n \in Nat, to_post \in [Threads -> Nat],
         to_post[t] = 0, IsFiniteSet(Posting), to_post' = [to_post EXCEPT ![t] = n]
  PROVE  /\ IsFiniteSet(Posting')
         /\ Cardinality(Posting') = Cardinality(Posting) + n
<1> DEFINE New == {t} \X (1..n)
<1>1. Posting' = Posting \cup New
  <2>1. ASSUME NEW u \in Threads, u # t
        PROVE  {u} \X (1..to_post'[u]) = {u} \X (1..to_post[u])
    BY <2>1
  <2>2. {t} \X (1..to_post'[t]) = New
    OBVIOUS
  <2>3. {t} \X (1..to_post[t]) = {}
    OBVIOUS
  <2>4. ASSUME NEW x \in Posting'
        PROVE  x \in Posting \cup New
    <3>1. PICK u \in Threads : x \in {u} \X (1..to_post'[u])
      BY <2>4 DEF Posting
    <3> QED BY <2>1, <2>2, <3>1 DEF Posting
  <2>5. ASSUME NEW x \in Posting
        PROVE  x \in Posting'
    <3>1. PICK u \in Threads : x \in {u} \X (1..to_post[u])
      BY <2>5 DEF Posting
    <3>2. u # t
      BY <2>3, <3>1
    <3> QED BY <2>1, <3>1, <3>2 DEF Posting
  <2>6. New \subseteq Posting'
    BY <2>2 DEF Posting
  <2> QED BY <2>4, <2>5, <2>6
<1>2. Posting \cap New = {}
  <2>1. ASSUME NEW x \in Posting, x \in New
        PROVE  FALSE
    <3>1. PICK u \in Threads : x \in {u} \X (1..to_post[u])
      BY <2>1 DEF Posting
    <3>2. u = t
      BY <2>1, <3>1
    <3> QED BY <3>1, <3>2
  <2> QED BY <2>1
<1>3. IsFiniteSet(New) /\ Cardinality(New) = n
  <2>1. IsFiniteSet({t}) /\ Cardinality({t}) = 1
    BY FS_Singleton, Zenon
  <2>2. IsFiniteSet(1..n) /\ Cardinality(1..n) = n
    BY FS_Interval
  <2>3. IsFiniteSet(New) /\ Cardinality(New) = Cardinality({t}) * Cardinality(1..n)
    BY <2>1, <2>2, FS_Product, Zenon
  <2> QED BY <2>1, <2>2, <2>3
<1>4. IsFiniteSet(Posting \cap New) /\ Cardinality(Posting \cap New) = 0
  BY <1>2, FS_EmptySet
<1>5. Cardinality(Posting) \in Nat
  BY FS_CardinalityType
<1> HIDE DEF New
<1>6. /\ IsFiniteSet(Posting \cup New)
      /\ Cardinality(Posting \cup New) =
           Cardinality(Posting) + Cardinality(New) - Cardinality(Posting \cap New)
  BY <1>3, FS_Union
<1> QED BY <1>1, <1>3, <1>4, <1>5, <1>6

\* A thread posts one of its tasks (CallOnWorkerThread).
LEMMA PostingShrinks ==
  ASSUME NEW t \in Threads, to_post \in [Threads -> Nat], to_post[t] # 0,
         IsFiniteSet(Posting), to_post' = [to_post EXCEPT ![t] = @ - 1]
  PROVE  /\ IsFiniteSet(Posting')
         /\ Cardinality(Posting') = Cardinality(Posting) - 1
         /\ Cardinality(Posting) \in Nat
<1> DEFINE last == <<t, to_post[t]>>
<1>1. last \in Posting
  <2>1. last \in {t} \X (1..to_post[t])
    OBVIOUS
  <2> QED BY <2>1 DEF Posting
<1>2. Posting' = Posting \ {last}
  <2>1. ASSUME NEW u \in Threads, u # t
        PROVE  /\ {u} \X (1..to_post'[u]) = {u} \X (1..to_post[u])
               /\ last \notin {u} \X (1..to_post[u])
    BY <2>1
  <2>2. {t} \X (1..to_post'[t]) = ({t} \X (1..to_post[t])) \ {last}
    <3>1. 1..to_post'[t] = (1..to_post[t]) \ {to_post[t]}
      OBVIOUS
    <3> QED BY <3>1
  <2>3. ASSUME NEW x \in Posting'
        PROVE  x \in Posting \ {last}
    <3>1. PICK u \in Threads : x \in {u} \X (1..to_post'[u])
      BY <2>3 DEF Posting
    <3>2. x \in {u} \X (1..to_post[u]) /\ x # last
      BY <2>1, <2>2, <3>1
    <3> QED BY <3>2 DEF Posting
  <2>4. ASSUME NEW x \in Posting, x # last
        PROVE  x \in Posting'
    <3>1. PICK u \in Threads : x \in {u} \X (1..to_post[u])
      BY <2>4 DEF Posting
    <3>2. x \in {u} \X (1..to_post'[u])
      BY <2>1, <2>2, <2>4, <3>1
    <3> QED BY <3>2 DEF Posting
  <2> QED BY <2>3, <2>4
<1>3. /\ IsFiniteSet(Posting \ {last})
      /\ Cardinality(Posting \ {last}) = Cardinality(Posting) - 1
  BY <1>1, FS_RemoveElement, Zenon
<1> QED BY <1>2, <1>3, FS_CardinalityType

\* The workers that have taken a task change only by the one that moves.
LEMMA StartingMoves ==
  ASSUME JobInv, NEW t \in Threads, Moves(t)
  PROVE  /\ IsFiniteSet(Starting) /\ Cardinality(Starting) \in Nat
         /\ pc[t] # "First" /\ pc'[t] # "First" =>
              Cardinality(Starting') = Cardinality(Starting)
         /\ t \in Workers /\ pc[t] # "First" /\ pc'[t] = "First" =>
              Cardinality(Starting') = Cardinality(Starting) + 1
         /\ t \in Workers /\ pc[t] = "First" /\ pc'[t] # "First" =>
              /\ Cardinality(Starting) >= 1
              /\ Cardinality(Starting') = Cardinality(Starting) - 1
<1>0. \A w \in Workers : w \in Threads
  BY DEF Threads
<1>1. IsFiniteSet(Starting)
  BY JobAssumption, FS_Subset DEF Starting
<1>2. Cardinality(Starting) \in Nat
  BY <1>1, FS_CardinalityType
<1>3. ASSUME NEW w \in Workers, w # t
      PROVE  w \in Starting' <=> w \in Starting
  BY <1>0, <1>3 DEF Starting, Moves
<1>4. Starting \subseteq Workers /\ Starting' \subseteq Workers
  BY DEF Starting
<1>5. CASE pc[t] # "First" /\ pc'[t] # "First"
  <2>1. t \notin Starting /\ t \notin Starting'
    BY <1>5 DEF Starting
  <2>2. Starting' = Starting
    BY <1>3, <1>4, <2>1
  <2> QED BY <1>1, <1>2, <1>5, <2>2
<1>6. CASE t \in Workers /\ pc[t] # "First" /\ pc'[t] = "First"
  <2>1. t \notin Starting /\ t \in Starting'
    BY <1>6 DEF Starting
  <2>2. Starting' = Starting \cup {t}
    BY <1>3, <1>4, <2>1
  <2>3. Cardinality(Starting \cup {t}) = Cardinality(Starting) + 1
    BY <1>1, <2>1, FS_AddElement, Zenon
  <2> QED BY <1>1, <1>2, <1>6, <2>2, <2>3
<1>7. CASE t \in Workers /\ pc[t] = "First" /\ pc'[t] # "First"
  <2>1. t \in Starting /\ t \notin Starting'
    BY <1>7 DEF Starting
  <2>2. Starting' = Starting \ {t}
    BY <1>3, <1>4, <2>1
  <2>3. Cardinality(Starting \ {t}) = Cardinality(Starting) - 1
    BY <1>1, <2>1, FS_RemoveElement, Zenon
  <2>4. Cardinality(Starting) # 0
    BY <1>1, <2>1, FS_EmptySet
  <2> QED BY <1>1, <1>2, <1>7, <2>2, <2>3, <2>4
<1> QED BY <1>1, <1>2, <1>5, <1>6, <1>7

\* A step that reserves, posts and takes no task leaves the books alone.
LEMMA BooksAreKept ==
  ASSUME JobInv, PendingInv, NEW t \in Threads, Moves(t),
         StateIsAlive' => StateIsAlive, UNCHANGED <<pending_tasks, posted, to_post>>,
         pc[t] # "First", pc'[t] # "First", pc'[t] # "Post" => to_post[t] = 0
  PROVE  PendingInv'
<1>1. Cardinality(Starting') = Cardinality(Starting)
  BY StartingMoves
<1>2. Posting' = Posting
  BY DEF Posting
<1>3. \A u \in Threads : pc'[u] # "Post" => to_post'[u] = 0
  BY DEF PendingInv, Moves
<1> QED BY <1>1, <1>2, <1>3 DEF PendingInv

\* Reserving the missing tasks adds as many to pending_tasks_ as are to be posted.
LEMMA ReservingKeeps ==
  ASSUME JobInv, PendingInv, NEW t \in Threads, NEW max \in Nat, NEW l,
         PostUpTo(t, max, l), UNCHANGED posted,
         pc[t] \notin {"First", "Post"}, StateIsAlive' => StateIsAlive
  PROVE  PendingInv'
<1> DEFINE n == Missing(max)
<1>1. n \in Nat
  BY DEF Missing, JobInv, PendingInv
<1> HIDE DEF n
<1>2. /\ pending_tasks' = pending_tasks + n
      /\ to_post' = [to_post EXCEPT ![t] = n]
      /\ Moves(t) /\ pc'[t] = "Post"
  BY DEF PostUpTo, Reserve, Goto, Moves, n, JobInv, Labelled
<1>3. /\ IsFiniteSet(Posting')
      /\ Cardinality(Posting') = Cardinality(Posting) + n
  BY <1>1, <1>2, PostingGrows, Zenon DEF PendingInv
<1>4. Cardinality(Starting') = Cardinality(Starting) /\ Cardinality(Starting) \in Nat
  BY <1>2, StartingMoves
<1>5. \A u \in Threads : pc'[u] # "Post" => to_post'[u] = 0
  BY <1>2 DEF PendingInv, Moves
<1>6. Cardinality(Posting) \in Nat
  BY FS_CardinalityType DEF PendingInv
<1>7. pending_tasks' \in Nat /\ posted' \in Nat /\ to_post' \in [Threads -> Nat]
  BY <1>1, <1>2 DEF PendingInv
<1>8. StateIsAlive' =>
        pending_tasks' = posted' + Cardinality(Posting') + Cardinality(Starting')
  BY <1>1, <1>2, <1>3, <1>4, <1>6 DEF PendingInv
<1> QED BY <1>3, <1>5, <1>7, <1>8 DEF PendingInv

\* Caps and concurrencies are natural numbers.
LEMMA CapIsNat ==
  ASSUME JobInv, NEW n \in Nat
  PROVE  /\ CappedMaxConcurrency(n) \in Nat
         /\ CappedMaxConcurrency(n) <= num_worker_threads
BY JobAssumption DEF CappedMaxConcurrency, GetMaxConcurrency, Smaller, JobInv, Labelled

\* The books of pending_tasks_ are kept by every step.
LEMMA PendingStep ==
  ASSUME JobInv, PendingInv, [JobNext]_vars
  PROVE  PendingInv'
<1> USE DEF JobInv, Labelled
<1>0. /\ Main \in Threads /\ Main \notin Workers
      /\ \A w \in Workers : w \in Threads
  BY JobAssumption DEF Threads
<1>1. StateIsAlive' => StateIsAlive
  BY DeadStaysDead
<1>2. CASE UNCHANGED <<pc, pending_tasks, posted, to_post>>
  BY <1>1, <1>2 DEF PendingInv, Posting, Starting
<1>3. CASE vars' = vars \/ Done \/ SpuriousWakeup
  BY <1>2, <1>3 DEF vars, counters, Done, SpuriousWakeup
<1>4. ASSUME NEW t \in Threads, ThreadStep(t) \/ AddWork(t) \/ AcquireTaskId(t)
      PROVE  PendingInv'
  <2>1. CASE Grow(t)
    <3>1. CappedMaxConcurrency(active_workers) \in Nat
      BY CapIsNat
    <3>2. pc[t] = "Grow" /\ UNCHANGED posted
          /\ PostUpTo(t, CappedMaxConcurrency(active_workers), after[t])
      BY <2>1 DEF Grow
    <3> QED BY <1>1, <3>1, <3>2, ReservingKeeps
  <2>2. CASE CallOnWorkerThread(t)
    <3>1. pc[t] = "Post" /\ Moves(t) /\ pending_tasks' = pending_tasks
      BY <2>2 DEF CallOnWorkerThread, Goto, Moves, counters
    <3>2. CASE to_post[t] = 0
      <4>1. UNCHANGED <<to_post, posted>> /\ pc'[t] # "First"
        BY <2>2, <3>2 DEF CallOnWorkerThread, Goto
      <4> QED BY <1>1, <3>1, <3>2, <4>1, BooksAreKept
    <3>3. CASE to_post[t] # 0
      <4>1. /\ to_post' = [to_post EXCEPT ![t] = @ - 1]
            /\ posted' = posted + 1 /\ UNCHANGED pc
        BY <2>2, <3>3 DEF CallOnWorkerThread
      <4>2. /\ IsFiniteSet(Posting') /\ Cardinality(Posting) \in Nat
            /\ Cardinality(Posting') = Cardinality(Posting) - 1
        BY <3>3, <4>1, PostingShrinks, Zenon DEF PendingInv
      <4>3. Starting' = Starting
        BY <4>1 DEF Starting
      <4>4. \A u \in Threads : pc'[u] # "Post" => to_post'[u] = 0
        BY <3>1, <4>1 DEF PendingInv
      <4>5. posted' \in Nat /\ to_post' \in [Threads -> Nat]
        BY <3>3, <4>1 DEF PendingInv
      <4>6. IsFiniteSet(Starting) /\ Cardinality(Starting) \in Nat
        BY <3>1, StartingMoves
      <4>7. StateIsAlive' =>
              pending_tasks' = posted' + Cardinality(Posting') + Cardinality(Starting')
        BY <1>1, <3>1, <4>1, <4>2, <4>3, <4>6 DEF PendingInv
      <4> QED BY <3>1, <4>2, <4>4, <4>5, <4>7 DEF PendingInv
    <3> QED BY <3>2, <3>3
  <2>3. CASE \/ NotifyConcurrencyIncrease(t) \/ ShouldYield(t) \/ TakeWork(t)
             \/ FinishItem(t) \/ AddWork(t) \/ AcquireTaskId(t)
    <3>1. /\ Moves(t) /\ UNCHANGED <<pending_tasks, posted, to_post>>
          /\ pc[t] \notin {"First", "Post"} /\ pc'[t] # "First"
      <4>1. CASE NotifyConcurrencyIncrease(t)
        BY <4>1 DEF NotifyConcurrencyIncrease, Goto, Moves, counters
      <4>2. CASE ShouldYield(t)
        BY <4>2 DEF ShouldYield, RunEnds, Goto, Moves, counters
      <4>3. CASE TakeWork(t)
        BY <4>3 DEF TakeWork, RunEnds, Goto, Moves, counters
      <4>4. CASE FinishItem(t)
        BY <4>4 DEF FinishItem, Goto, Moves, counters
      <4>5. CASE AddWork(t)
        BY <4>5 DEF AddWork, Goto, Moves, counters
      <4>6. CASE AcquireTaskId(t)
        BY <4>6 DEF AcquireTaskId, Moves, counters
      <4> QED BY <2>3, <4>1, <4>2, <4>3, <4>4, <4>5, <4>6
    <3> QED BY <1>1, <3>1, BooksAreKept DEF PendingInv
  <2> QED BY <1>4, <2>1, <2>2, <2>3 DEF ThreadStep
<1>5. ASSUME NEW w \in Workers, WorkerStep(w)
      PROVE  PendingInv'
  <2>1. CASE RunWorker(w)
    <3>1. /\ Moves(w) /\ pc[w] = "Idle" /\ posted > 0 /\ posted' = posted - 1
          /\ UNCHANGED <<pending_tasks, to_post>>
          /\ pc'[w] = IF StateIsAlive THEN "First" ELSE "Idle"
      BY <1>0, <2>1, Zenon DEF RunWorker, Goto, Moves, counters
    <3>2. /\ StateIsAlive => Cardinality(Starting') = Cardinality(Starting) + 1
          /\ Cardinality(Starting) \in Nat
      BY <1>0, <3>1, StartingMoves
    <3>3. Posting' = Posting /\ Cardinality(Posting) \in Nat
      BY <3>1, FS_CardinalityType DEF Posting, PendingInv
    <3>4. \A u \in Threads : pc'[u] # "Post" => to_post'[u] = 0
      BY <1>0, <3>1 DEF PendingInv, Moves
    <3>5. posted' \in Nat
      BY <3>1 DEF PendingInv
    <3>6. StateIsAlive' =>
            pending_tasks' = posted' + Cardinality(Posting') + Cardinality(Starting')
      BY <1>1, <3>1, <3>2, <3>3 DEF PendingInv
    <3> QED BY <3>1, <3>3, <3>4, <3>5, <3>6 DEF PendingInv
  <2>2. CASE CanRunFirstTask(w)
    <3>1. /\ Moves(w) /\ pc[w] = "First" /\ pending_tasks' = pending_tasks - 1
          /\ UNCHANGED <<posted, to_post>> /\ pc'[w] \in {"Run", "Idle"}
      BY <1>0, <2>2, Zenon DEF CanRunFirstTask, Goto, Moves
    <3>2. /\ Cardinality(Starting') = Cardinality(Starting) - 1
          /\ Cardinality(Starting) \in Nat /\ Cardinality(Starting) >= 1
      BY <1>0, <3>1, StartingMoves, Zenon
    <3>3. Posting' = Posting /\ Cardinality(Posting) \in Nat
      BY <3>1, FS_CardinalityType DEF Posting, PendingInv
    <3>4. \A u \in Threads : pc'[u] # "Post" => to_post'[u] = 0
      BY <1>0, <3>1 DEF PendingInv, Moves
    <3>5. StateIsAlive
      BY <3>1 DEF StateIsAlive
    <3>6. /\ pending_tasks' \in Nat
          /\ pending_tasks' = posted' + Cardinality(Posting') + Cardinality(Starting')
      BY <3>1, <3>2, <3>3, <3>5 DEF PendingInv
    <3> QED BY <3>1, <3>3, <3>4, <3>6 DEF PendingInv
  <2>3. CASE DidRunTask(w)
    <3>1. CASE is_canceled \/ TooMany(active_workers)
      <4>1. /\ Moves(w) /\ UNCHANGED <<pending_tasks, posted, to_post>>
            /\ pc[w] = "DidRun" /\ pc'[w] = "Idle"
        BY <1>0, <2>3, <3>1 DEF DidRunTask, Goto, Moves
      <4> QED BY <1>0, <1>1, <4>1, BooksAreKept DEF PendingInv
    <3>2. CASE ~(is_canceled \/ TooMany(active_workers))
      <4>1. /\ pc[w] = "DidRun" /\ UNCHANGED posted
            /\ PostUpTo(w, CappedMaxConcurrency(active_workers - 1), "Run")
        BY <2>3, <3>2 DEF DidRunTask
      <4>2. active_workers >= 1
        BY <1>0, <4>1, ActiveNotReturned DEF IsActive
      <4>3. CappedMaxConcurrency(active_workers - 1) \in Nat
        BY <4>2, CapIsNat
      <4> QED BY <1>0, <1>1, <4>1, <4>3, ReservingKeeps
    <3> QED BY <3>1, <3>2, Zenon
  <2> QED BY <1>5, <2>1, <2>2, <2>3 DEF WorkerStep
<1>6. CASE CallJoin \/ CallCancel \/ CancelAndDetach \/ CancelAndWait
  <2>1. /\ Moves(Main) /\ UNCHANGED <<pending_tasks, posted, to_post>>
        /\ pc[Main] \in {"Idle", "CancelWait"} /\ pc'[Main] \notin {"First", "Post"}
    BY <1>0, <1>6
       DEF CallJoin, CallCancel, CancelAndDetach, CancelAndWait, Goto, Moves, counters
  <2> QED BY <1>0, <1>1, <2>1, BooksAreKept, Zenon DEF PendingInv
<1>7. CASE Join
  <2>1. active_workers >= 1
    BY <1>0, <1>7, ActiveNotReturned DEF Join, IsActive
  <2>2. CASE PostUpTo(Main, CappedMaxConcurrency(active_workers - 1), "Run")
    <3>1. CappedMaxConcurrency(active_workers - 1) \in Nat
      BY <2>1, CapIsNat
    <3>2. pc[Main] \notin {"First", "Post"} /\ UNCHANGED posted
      BY <1>7, Zenon DEF Join
    <3> QED BY <1>0, <1>1, <2>2, <3>1, <3>2, ReservingKeeps
  <2>3. CASE ~PostUpTo(Main, CappedMaxConcurrency(active_workers - 1), "Run")
    <3>1. /\ Moves(Main) /\ UNCHANGED <<pending_tasks, posted, to_post>>
          /\ pc[Main] \in {"JoinFirst", "JoinAgain"} /\ pc'[Main] \notin {"First", "Post"}
      BY <1>0, <1>7, <2>3 DEF Join, Goto, Moves, counters
    <3> QED BY <1>0, <1>1, <3>1, BooksAreKept, Zenon DEF PendingInv
  <2> QED BY <2>2, <2>3
<1> QED BY <1>2, <1>3, <1>4, <1>5, <1>6, <1>7 DEF JobNext, MainStep

\* CanRunFirstTask looks at the cap before it adds a worker, Join raises the cap
\* with the count, and nothing else raises either.
LEMMA CapStep ==
  ASSUME JobInv, CapInv, [JobNext]_vars
  PROVE  CapInv'
<1> USE DEF JobInv, Labelled
<1>0. Main \in Threads /\ \A w \in Workers : w \in Threads /\ w # Main
  BY JobAssumption DEF Threads
<1>1. CASE UNCHANGED <<active_workers, num_worker_threads>> /\ UNCHANGED <<pc, after>>
  BY <1>1 DEF CapInv, IsActive, InTask
<1>2. CASE vars' = vars \/ Done \/ SpuriousWakeup
  BY <1>1, <1>2 DEF vars, counters, Done, SpuriousWakeup
<1>3. ASSUME NEW t \in Threads, ThreadStep(t) \/ AddWork(t) \/ AcquireTaskId(t)
      PROVE  CapInv'
  <2>1. /\ UNCHANGED <<active_workers, num_worker_threads>>
        /\ IsActive(Main)' <=> IsActive(Main)
        /\ pc[Main] = "Joined" => pc'[Main] = "Joined"
    <3>1. CASE NotifyConcurrencyIncrease(t)
      BY <1>0, <3>1 DEF NotifyConcurrencyIncrease, Goto, counters, IsActive, InTask
    <3>2. CASE Grow(t)
      BY <1>0, <3>2 DEF Grow, PostUpTo, Goto, IsActive, InTask
    <3>3. CASE CallOnWorkerThread(t)
      BY <1>0, <3>3 DEF CallOnWorkerThread, Goto, counters, IsActive, InTask
    <3>4. CASE ShouldYield(t)
      BY <1>0, <3>4 DEF ShouldYield, RunEnds, Goto, counters, IsActive, InTask
    <3>5. CASE TakeWork(t)
      BY <1>0, <3>5 DEF TakeWork, RunEnds, Goto, counters, IsActive, InTask
    <3>6. CASE FinishItem(t)
      BY <1>0, <3>6 DEF FinishItem, Goto, counters, IsActive, InTask
    <3>7. CASE AddWork(t)
      BY <1>0, <3>7 DEF AddWork, Goto, counters, IsActive, InTask
    <3>8. CASE AcquireTaskId(t)
      BY <1>0, <3>8 DEF AcquireTaskId, counters, IsActive, InTask
    <3> QED BY <1>3, <3>1, <3>2, <3>3, <3>4, <3>5, <3>6, <3>7, <3>8 DEF ThreadStep
  <2> QED BY <2>1, Zenon DEF CapInv
<1>4. ASSUME NEW w \in Workers, WorkerStep(w)
      PROVE  CapInv'
  <2>1. /\ num_worker_threads' = num_worker_threads
        /\ pc'[Main] = pc[Main] /\ after'[Main] = after[Main]
    BY <1>0, <1>4
       DEF WorkerStep, RunWorker, CanRunFirstTask, DidRunTask, PostUpTo, Goto, counters
  <2>2. active_workers' <= num_worker_threads
    <3>1. CASE RunWorker(w)
      BY <3>1 DEF RunWorker, counters, CapInv
    <3>2. CASE CanRunFirstTask(w)
      BY <3>2, CapIsNat DEF CanRunFirstTask, MayStart, CapInv
    <3>3. CASE DidRunTask(w)
      BY <3>3 DEF DidRunTask, CapInv
    <3> QED BY <1>4, <3>1, <3>2, <3>3 DEF WorkerStep
  <2> QED BY <2>1, <2>2 DEF CapInv, IsActive, InTask
<1>5. CASE CallJoin
  BY <1>0, <1>5, JobAssumption
     DEF CallJoin, JoinerIsCounted, Goto, CapInv, IsActive, InTask
<1>6. CASE CallCancel \/ CancelAndDetach \/ CancelAndWait
  BY <1>0, <1>6
     DEF CallCancel, CancelAndDetach, CancelAndWait, Goto, counters, CapInv, IsActive,
         InTask
<1>7. CASE Join
  <2>1. /\ num_worker_threads' = num_worker_threads
        /\ active_workers' = active_workers \/ active_workers' = 0
        /\ IsActive(Main)' \/ pc'[Main] = "Joined"
    BY <1>0, <1>7, Zenon DEF Join, PostUpTo, Goto, counters, IsActive, InTask
  <2> QED BY <2>1 DEF CapInv
<1> QED BY <1>1, <1>2, <1>3, <1>4, <1>5, <1>6, <1>7 DEF JobNext, MainStep

\* A step that gives and takes no id, and does not end the life of a delegate.
LEMMA IdsAreKept ==
  ASSUME IdInv, UNCHANGED idVars, NEW t \in Threads, Moves(t),
         task_id[t] # None => InTask(t)' \/ (t = Main /\ pc'[t] = "JoinAgain")
  PROVE  IdInv'
<1>1. task_id' = task_id /\ assigned_task_ids' = assigned_task_ids
  BY Zenon DEF idVars
<1>2. \A u \in Threads :
        task_id[u] # None => InTask(u)' \/ (u = Main /\ pc'[u] = "JoinAgain")
  BY Zenon DEF IdInv, Moves, InTask
<1> QED BY <1>1, <1>2, Zenon DEF IdInv

\* ReleaseTaskId gives back the id of the delegate that ends, and no other.
LEMMA ReleasingKeeps ==
  ASSUME IdInv, NEW t \in Threads, Moves(t), ReleaseTaskId(t)
  PROVE  IdInv'
<1>1. /\ task_id' \in [Threads -> 0..(kMaxWorkersPerJob - 1) \cup {None}]
      /\ task_id'[t] = None
      /\ \A u \in Threads : u # t => task_id'[u] = task_id[u]
  BY Zenon DEF IdInv, ReleaseTaskId
<1>2. assigned_task_ids' = {task_id'[u] : u \in {v \in Threads : task_id'[v] # None}}
  <2>1. assigned_task_ids' = assigned_task_ids \ {task_id[t]}
    BY DEF ReleaseTaskId
  <2>2. ASSUME NEW x \in assigned_task_ids, x # task_id[t]
        PROVE  \E u \in {v \in Threads : task_id'[v] # None} : x = task_id'[u]
    <3>1. PICK u \in Threads : task_id[u] # None /\ x = task_id[u]
      BY <2>2, Zenon DEF IdInv
    <3> QED BY <1>1, <2>2, <3>1
  <2>3. ASSUME NEW u \in Threads, task_id'[u] # None
        PROVE  task_id'[u] \in assigned_task_ids /\ task_id'[u] # task_id[t]
    BY <1>1, <2>3 DEF IdInv
  <2> QED BY <2>1, <2>2, <2>3, Zenon
<1>3. \A u, v \in Threads : task_id'[u] = task_id'[v] /\ task_id'[u] # None => u = v
  BY <1>1, Zenon DEF IdInv
<1>4. \A u \in Threads :
        task_id'[u] # None => InTask(u)' \/ (u = Main /\ pc'[u] = "JoinAgain")
  BY <1>1 DEF IdInv, Moves, InTask
<1> QED BY <1>1, <1>2, <1>3, <1>4, Zenon DEF IdInv

\* AcquireTaskId gives an id that nobody holds.
LEMMA AcquiringKeeps ==
  ASSUME IdInv, NEW t \in Threads, AcquireTaskId(t)
  PROVE  IdInv'
<1>1. PICK id \in 0..(kMaxWorkersPerJob - 1) :
        /\ id \notin assigned_task_ids
        /\ assigned_task_ids' = assigned_task_ids \cup {id}
        /\ task_id' = [task_id EXCEPT ![t] = id]
  BY Zenon DEF AcquireTaskId, LowestFree
<1>2. /\ task_id' \in [Threads -> 0..(kMaxWorkersPerJob - 1) \cup {None}]
      /\ task_id'[t] = id /\ task_id[t] = None /\ id # None
      /\ \A u \in Threads : u # t => task_id'[u] = task_id[u]
      /\ \A u \in Threads : task_id[u] # None => task_id[u] # id
  <2>1. id # None
    BY JobAssumption
  <2>2. task_id[t] = None
    BY Zenon DEF AcquireTaskId
  <2>3. /\ task_id' \in [Threads -> 0..(kMaxWorkersPerJob - 1) \cup {None}]
        /\ task_id'[t] = id
        /\ \A u \in Threads : u # t => task_id'[u] = task_id[u]
    BY <1>1, Zenon DEF IdInv
  <2>4. \A u \in Threads : task_id[u] # None => task_id[u] # id
    BY <1>1, Zenon DEF IdInv
  <2> QED BY <2>1, <2>2, <2>3, <2>4
<1>3. assigned_task_ids' = {task_id'[u] : u \in {v \in Threads : task_id'[v] # None}}
  <2>1. ASSUME NEW x \in assigned_task_ids
        PROVE  \E u \in {v \in Threads : task_id'[v] # None} : x = task_id'[u]
    <3>1. PICK u \in Threads : task_id[u] # None /\ x = task_id[u]
      BY <2>1 DEF IdInv
    <3> QED BY <1>2, <3>1
  <2>2. ASSUME NEW u \in Threads, task_id'[u] # None
        PROVE  task_id'[u] \in assigned_task_ids \cup {id}
    BY <1>2, <2>2 DEF IdInv
  <2> QED BY <1>1, <1>2, <2>1, <2>2
<1>4. \A u, v \in Threads : task_id'[u] = task_id'[v] /\ task_id'[u] # None => u = v
  BY <1>2 DEF IdInv
<1>5. pc' = pc /\ after' = after /\ pc[t] = "Work"
  BY DEF AcquireTaskId
<1>6. \A u \in Threads :
        task_id'[u] # None => InTask(u)' \/ (u = Main /\ pc'[u] = "JoinAgain")
  BY <1>2, <1>5 DEF IdInv, InTask
<1> QED BY <1>2, <1>3, <1>4, <1>6, Zenon DEF IdInv

\* The task ids are kept by every step.
LEMMA IdStep ==
  ASSUME JobInv, IdInv, [JobNext]_vars
  PROVE  IdInv'
<1> USE DEF JobInv, Labelled
<1>0. Main \in Threads /\ \A w \in Workers : w \in Threads /\ w # Main
  BY JobAssumption DEF Threads
<1>1. CASE UNCHANGED <<idVars, pc, after>>
  BY <1>1 DEF idVars, IdInv, InTask
<1>2. CASE vars' = vars \/ Done \/ SpuriousWakeup
  BY <1>1, <1>2 DEF vars, Done, SpuriousWakeup
<1>3. ASSUME NEW t \in Threads, ThreadStep(t) \/ AddWork(t) \/ AcquireTaskId(t)
      PROVE  IdInv'
  <2>1. CASE NotifyConcurrencyIncrease(t) \/ Grow(t) \/ CallOnWorkerThread(t)
    <3>1. Moves(t) /\ UNCHANGED idVars /\ pc[t] \in {"Notify", "Grow", "Post"}
      BY <2>1
         DEF NotifyConcurrencyIncrease, Grow, PostUpTo, CallOnWorkerThread, Goto, Moves
    <3>2. InTask(t) => InTask(t)'
      BY <2>1
         DEF NotifyConcurrencyIncrease, Grow, PostUpTo, CallOnWorkerThread, Goto, InTask
    <3> QED BY <3>1, <3>2, IdsAreKept, Zenon DEF IdInv
  <2>2. CASE ShouldYield(t) \/ TakeWork(t)
    <3>1. Moves(t) /\ InTask(t)
      BY <2>2 DEF ShouldYield, TakeWork, RunEnds, Goto, Moves, InTask
    <3>2. CASE RunEnds(t)
      <4>1. CASE t = Main
        BY <1>0, <3>1, <3>2, <4>1, IdsAreKept DEF RunEnds, Goto
      <4>2. CASE t # Main
        BY <3>1, <3>2, <4>2, ReleasingKeeps, Zenon DEF RunEnds
      <4> QED BY <4>1, <4>2
    <3>3. CASE ~RunEnds(t)
      <4>1. UNCHANGED idVars /\ InTask(t)'
        BY <2>2, <3>3, Zenon DEF ShouldYield, TakeWork, Goto, InTask
      <4> QED BY <3>1, <4>1, IdsAreKept, Zenon
    <3> QED BY <3>2, <3>3
  <2>3. CASE FinishItem(t) \/ AddWork(t)
    <3>1. /\ Moves(t) /\ UNCHANGED idVars
          /\ pc[t] = "Work" \/ (t = Main /\ pc[t] = "Idle")
          /\ InTask(t) => InTask(t)'
      BY <2>3 DEF FinishItem, AddWork, Goto, Moves, InTask
    <3> QED BY <3>1, IdsAreKept, Zenon DEF IdInv
  <2>4. CASE AcquireTaskId(t)
    BY <2>4, AcquiringKeeps, Zenon
  <2> QED BY <1>3, <2>1, <2>2, <2>3, <2>4 DEF ThreadStep
<1>4. ASSUME NEW w \in Workers, WorkerStep(w)
      PROVE  IdInv'
  <2>1. Moves(w) /\ UNCHANGED idVars /\ pc[w] \in {"Idle", "First", "DidRun"}
    BY <1>0, <1>4, Zenon
       DEF WorkerStep, RunWorker, CanRunFirstTask, DidRunTask, PostUpTo, Goto, Moves
  <2>2. task_id[w] = None
    BY <1>0, <2>1, Zenon DEF IdInv, InTask
  <2> QED BY <1>0, <2>1, <2>2, IdsAreKept, Zenon
<1>5. CASE CallJoin \/ CallCancel \/ CancelAndDetach \/ CancelAndWait
  <2>1. Moves(Main) /\ UNCHANGED idVars /\ pc[Main] \in {"Idle", "CancelWait"}
    BY <1>0, <1>5 DEF CallJoin, CallCancel, CancelAndDetach, CancelAndWait, Goto, Moves
  <2>2. task_id[Main] = None
    BY <1>0, <2>1 DEF IdInv, InTask
  <2> QED BY <1>0, <2>1, <2>2, IdsAreKept, Zenon
<1>6. CASE Join
  <2>1. Moves(Main) /\ pc[Main] \in {"JoinFirst", "JoinAgain"}
    BY <1>0, <1>6 DEF Join, PostUpTo, Goto, Moves
  <2>2. CASE ReleaseTaskId(Main)
    BY <1>0, <2>1, <2>2, ReleasingKeeps, Zenon
  <2>3. CASE ~ReleaseTaskId(Main)
    <3>1. UNCHANGED idVars /\ (InTask(Main)' \/ pc'[Main] = pc[Main])
      BY <1>0, <1>6, <2>3 DEF Join, PostUpTo, Goto, InTask
    <3>2. task_id[Main] # None => pc[Main] = "JoinAgain"
      BY <1>0, <2>1 DEF IdInv, InTask
    <3> QED BY <1>0, <2>1, <3>1, <3>2, IdsAreKept, Zenon
  <2> QED BY <2>2, <2>3
<1> QED BY <1>1, <1>2, <1>3, <1>4, <1>5, <1>6 DEF JobNext, MainStep

\* All that the counts and the ids rest on.
CountsInv == JobInv /\ PendingInv /\ CapInv /\ IdInv

\* Nothing is reserved, counted or assigned at first.
LEMMA CountsInit == JobInit => CountsInv
<1> SUFFICES ASSUME JobInit PROVE CountsInv
  OBVIOUS
<1>1. JobInv
  BY InitEstablishes
<1>2. PendingInv
  <2>1. Posting = {} /\ Starting = {}
    <3>1. ASSUME NEW t \in Threads
          PROVE  {t} \X (1..to_post[t]) = {}
      <4>1. to_post[t] = 0
        BY DEF JobInit
      <4> QED BY <4>1
    <3> QED BY <3>1 DEF JobInit, Posting, Starting, Threads
  <2>2. IsFiniteSet({}) /\ Cardinality({}) = 0
    BY FS_EmptySet
  <2> QED BY <2>1, <2>2 DEF JobInit, PendingInv
<1>3. CapInv
  BY JobAssumption DEF JobInit, CapInv, Smaller
<1>4. IdInv
  BY DEF JobInit, IdInv
<1> QED BY <1>1, <1>2, <1>3, <1>4 DEF CountsInv

\* The books, the cap and the ids of a job, in every reachable state.
THEOREM CountsInvariant == JobSpec => []CountsInv
<1>1. CountsInv /\ [JobNext]_vars => CountsInv'
  BY NextKeeps, PendingStep, CapStep, IdStep DEF CountsInv
<1> QED BY <1>1, CountsInit, PTL DEF JobSpec

\* pending_tasks_ counts the tasks that are reserved, posted and taken, and the
\* threads inside Run fit in num_worker_threads_ (default-job.cc:49-56, :121-122).
THEOREM CountsStayRight == JobSpec => []CountsAreRight
<1>1. CountsInv => CountsAreRight
  <2> SUFFICES ASSUME CountsInv PROVE CountsAreRight
    OBVIOUS
  <2>1. Running \subseteq Active
    BY DEF Running, Active, IsActive
  <2>2. /\ Cardinality(Running) <= Cardinality(Active)
        /\ IsFiniteSet(Running)
    BY <2>1, ThreadsAreFinite, FS_Subset
  <2>3. Cardinality(Running) \in Nat
    BY <2>2, FS_CardinalityType
  <2>4. Cardinality(Running) <= num_worker_threads
    BY <2>2, <2>3 DEF CountsInv, JobInv, Labelled, ActiveIsCounted, CapInv
  <2> QED BY <2>4 DEF CountsInv, PendingInv, CountsAreRight
<1> QED BY <1>1, CountsInvariant, PTL

\* There are no more assigned ids than active threads, less those without one.
LEMMA IdsAreFewer ==
  ASSUME CountsInv, NEW t \in Active, task_id[t] = None
  PROVE  /\ Cardinality(assigned_task_ids) \in Nat
         /\ Cardinality(assigned_task_ids) + 1 <= active_workers
<1> DEFINE H == {u \in Threads : task_id[u] # None}
           f == [u \in H |-> task_id[u]]
<1>1. H \subseteq Active \ {t}
  BY DEF CountsInv, IdInv, Active, IsActive
<1>2. /\ IsFiniteSet(Active \ {t})
      /\ Cardinality(Active \ {t}) = Cardinality(Active) - 1
  BY ThreadsAreFinite, FS_RemoveElement
<1>3. IsFiniteSet(H) /\ Cardinality(H) <= Cardinality(Active) - 1
  BY <1>1, <1>2, FS_Subset
<1>4. f \in Surjection(H, assigned_task_ids)
  <2>1. \A u \in H : task_id[u] \in assigned_task_ids
    BY DEF CountsInv, IdInv
  <2>2. \A x \in assigned_task_ids : \E u \in H : f[u] = x
    BY DEF CountsInv, IdInv
  <2> QED BY <2>1, <2>2 DEF Surjection
<1> HIDE DEF H, f
<1>5. /\ IsFiniteSet(assigned_task_ids)
      /\ Cardinality(assigned_task_ids) <= Cardinality(H)
  BY <1>3, <1>4, FS_Surjection
<1>6. /\ Cardinality(assigned_task_ids) \in Nat /\ Cardinality(H) \in Nat
      /\ Cardinality(Active) \in Nat
  BY <1>3, <1>5, ThreadsAreFinite, FS_CardinalityType
<1> QED BY <1>3, <1>5, <1>6 DEF CountsInv, JobInv, ActiveIsCounted

\* The DCHECKs of AcquireTaskId and ReleaseTaskId hold when the platform has
\* fewer threads than a job has ids, as it does: kMaxThreadPoolSize is 16
\* (default-platform.cc:33) and kMaxWorkersPerJob 32; the joiner takes one more.
THEOREM TaskIdsStaySufficient ==
  NumWorkerThreads < kMaxWorkersPerJob => (JobSpec => []TaskIdsSuffice)
<1> SUFFICES ASSUME NumWorkerThreads < kMaxWorkersPerJob
             PROVE  JobSpec => []TaskIdsSuffice
  OBVIOUS
<1>1. CountsInv => TaskIdsSuffice
  <2> SUFFICES ASSUME CountsInv PROVE TaskIdsSuffice
    OBVIOUS
  <2>1. ASSUME NEW t \in Threads, pc[t] = "Work", task_id[t] = None
        PROVE  Cardinality(assigned_task_ids) + 1 <= kMaxWorkersPerJob
    <3>1. t \in Active
      BY <2>1 DEF Active, IsActive, InTask
    <3>2. /\ Cardinality(assigned_task_ids) \in Nat
          /\ Cardinality(assigned_task_ids) + 1 <= active_workers
      BY <2>1, <3>1, IdsAreFewer
    <3> QED
      BY <3>2, JobAssumption DEF CountsInv, JobInv, Labelled, CapInv
  <2> QED BY <2>1 DEF CountsInv, IdInv, TaskIdsSuffice
<1> QED BY <1>1, CountsInvariant, PTL
=============================================================================

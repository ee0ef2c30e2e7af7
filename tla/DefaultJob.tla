----------------------------- MODULE DefaultJob ------------------------------
(***************************************************************************)
(* A job of the default platform (libplatform/default-job.cc): the owner   *)
(* announces work, joins or cancels the job; the platform's workers run    *)
(* DefaultJobWorker tasks.  One step is one critical section of mutex_ or  *)
(* one access of an atomic.  The job's task takes items of a shared pool   *)
(* until it is empty or the delegate tells it to yield.                    *)
(***************************************************************************)
EXTENDS Naturals, FiniteSets

CONSTANTS Workers,             \* threads of the platform
          Main,                \* the thread that owns the handle
          MaxWork,             \* bound: items of work announced in all
          MaxTasks,            \* the limit GetMaxConcurrency imposes itself
          NumWorkerThreads,    \* argument of the constructor
          kMaxWorkersPerJob,
          None

Threads == Workers \cup {Main}

ASSUME JobAssumption ==
  /\ IsFiniteSet(Workers) /\ Main \notin Workers
  /\ MaxWork \in Nat /\ MaxTasks \in Nat \ {0}
  /\ NumWorkerThreads \in Nat \ {0} /\ kMaxWorkersPerJob \in Nat \ {0}
  /\ None \notin Nat

VARIABLES active_workers, pending_tasks, is_canceled, num_worker_threads,
          assigned_task_ids, task_id,
          pc,        \* where each thread is
          after,     \* where it goes once its tasks are posted
          to_post,   \* the tasks it has still to post
          posted,    \* DefaultJobWorker tasks in the platform's queues
          work,      \* items nobody has taken
          announced, \* items added so far
          sleeping   \* the owner sleeps on worker_released_condition_

counters == <<active_workers, pending_tasks, num_worker_threads>>
idVars == <<assigned_task_ids, task_id>>
poolVars == <<work, announced>>
vars == <<counters, is_canceled, idVars, pc, after, to_post, posted, poolVars,
          sleeping>>

Returned == {"Joined", "Canceled", "Detached"}
Labels == Returned \cup {"Idle", "Notify", "Grow", "Post", "First", "Run",
                         "Take", "Work", "DidRun", "JoinFirst", "JoinAgain",
                         "CancelWait"}

Smaller(a, b) == IF a < b THEN a ELSE b

JobInit ==
  /\ active_workers = 0 /\ pending_tasks = 0 /\ is_canceled = FALSE
  /\ num_worker_threads = Smaller(NumWorkerThreads, kMaxWorkersPerJob)
  /\ assigned_task_ids = {} /\ task_id = [t \in Threads |-> None]
  /\ pc = [t \in Threads |-> "Idle"] /\ after = [t \in Threads |-> "Idle"]
  /\ to_post = [t \in Threads |-> 0] /\ posted = 0
  /\ work = 0 /\ announced = 0 /\ sleeping = FALSE

Goto(t, l) == pc' = [pc EXCEPT ![t] = l]

-----------------------------------------------------------------------------
GetMaxConcurrency(n) == Smaller(work + n, MaxTasks)

CappedMaxConcurrency(n) == Smaller(GetMaxConcurrency(n), num_worker_threads)

\* Reserve the tasks that are missing to reach max, then go on at l.
Missing(max) ==
  IF max > active_workers + pending_tasks
  THEN max - active_workers - pending_tasks ELSE 0

ReserveOnly(n) == pending_tasks' = n
Reserve(n) == pending_tasks' = pending_tasks + n

PostUpTo(t, max, l) ==
  /\ Reserve(Missing(max))
  /\ to_post' = [to_post EXCEPT ![t] = Missing(max)]
  /\ after' = [after EXCEPT ![t] = l]
  /\ Goto(t, "Post")

\* The owner, or a thread inside the task, adds an item and announces it.
AddWork(t) ==
  /\ pc[t] \in {"Idle", "Work"} /\ (pc[t] = "Idle" => t = Main)
  /\ announced < MaxWork
  /\ work' = work + 1 /\ announced' = announced + 1
  /\ after' = [after EXCEPT ![t] = IF t = Main /\ pc[t] = "Idle" THEN "Idle" ELSE "Run"]
  /\ Goto(t, "Notify")
  /\ UNCHANGED <<counters, is_canceled, idVars, to_post, posted, sleeping>>

NotifyConcurrencyIncrease(t) ==
  /\ pc[t] = "Notify"
  /\ Goto(t, IF is_canceled THEN after[t] ELSE "Grow")
  /\ UNCHANGED <<counters, is_canceled, idVars, after, to_post, posted, poolVars,
                 sleeping>>

Grow(t) ==
  /\ pc[t] = "Grow"
  /\ PostUpTo(t, CappedMaxConcurrency(active_workers), after[t])
  /\ UNCHANGED <<active_workers, num_worker_threads, is_canceled, idVars, posted,
                 poolVars, sleeping>>

CallOnWorkerThread(t) ==
  /\ pc[t] = "Post"
  /\ IF to_post[t] = 0
     THEN Goto(t, after[t]) /\ UNCHANGED <<to_post, posted>>
     ELSE /\ to_post' = [to_post EXCEPT ![t] = @ - 1]
          /\ posted' = posted + 1
          /\ UNCHANGED pc
  /\ UNCHANGED <<counters, is_canceled, idVars, after, poolVars, sleeping>>

-----------------------------------------------------------------------------
\* Somebody still holds the state: the handle, or a worker that runs a task.
StateIsAlive ==
  pc[Main] \notin Returned \/ \E w \in Workers : pc[w] # "Idle"

\* A worker takes a DefaultJobWorker and locks its weak pointer.
RunWorker(w) ==
  /\ pc[w] = "Idle" /\ posted > 0
  /\ posted' = posted - 1
  /\ Goto(w, IF StateIsAlive THEN "First" ELSE "Idle")
  /\ UNCHANGED <<counters, is_canceled, idVars, after, to_post, poolVars, sleeping>>

MayStartCanceled == active_workers < CappedMaxConcurrency(active_workers)
MayStart ==
  /\ ~is_canceled
  /\ active_workers < CappedMaxConcurrency(active_workers)

CanRunFirstTask(w) ==
  /\ pc[w] = "First"
  /\ pending_tasks' = pending_tasks - 1
  /\ IF MayStart
     THEN active_workers' = active_workers + 1 /\ Goto(w, "Run")
     ELSE UNCHANGED active_workers /\ Goto(w, "Idle")
  /\ UNCHANGED <<num_worker_threads, is_canceled, idVars, after, to_post, posted,
                 poolVars, sleeping>>

\* The delegate of a worker ends with Run, the joiner's when Join returns.
ReleaseTaskId(t) ==
  /\ assigned_task_ids' = assigned_task_ids \ {task_id[t]}
  /\ task_id' = [task_id EXCEPT ![t] = None]

RunEnds(t) ==
  IF t = Main THEN Goto(t, "JoinAgain") /\ UNCHANGED idVars
  ELSE Goto(t, "DidRun") /\ ReleaseTaskId(t)

ShouldYield(t) ==
  /\ pc[t] = "Run"
  /\ IF is_canceled THEN RunEnds(t) ELSE Goto(t, "Take") /\ UNCHANGED idVars
  /\ UNCHANGED <<counters, is_canceled, after, to_post, posted, poolVars, sleeping>>

TakeWork(t) ==
  /\ pc[t] = "Take"
  /\ IF work = 0 THEN RunEnds(t) /\ UNCHANGED work
     ELSE Goto(t, "Work") /\ work' = work - 1 /\ UNCHANGED idVars
  /\ UNCHANGED <<counters, is_canceled, after, to_post, posted, announced, sleeping>>

FinishItem(t) ==
  /\ pc[t] = "Work"
  /\ Goto(t, "Run")
  /\ UNCHANGED <<counters, is_canceled, idVars, after, to_post, posted, poolVars,
                 sleeping>>

\* The lowest bit that is zero; with none left the result is undefined.
HighestBit(id) == id = kMaxWorkersPerJob - 1
LowestFree(id) ==
  /\ id \notin assigned_task_ids
  /\ \A lower \in 0..(kMaxWorkersPerJob - 1) :
       lower < id => lower \in assigned_task_ids

AcquireTaskId(t) ==
  /\ pc[t] = "Work" /\ task_id[t] = None
  /\ \E id \in 0..(kMaxWorkersPerJob - 1) :
       /\ LowestFree(id)
       /\ assigned_task_ids' = assigned_task_ids \cup {id}
       /\ task_id' = [task_id EXCEPT ![t] = id]
  /\ UNCHANGED <<counters, is_canceled, pc, after, to_post, posted, poolVars, sleeping>>

NotifyNobody == UNCHANGED sleeping
NotifyReleased == sleeping' = FALSE

TooManyOrEqual(n) == n >= CappedMaxConcurrency(n - 1)
TooMany(n) == n > CappedMaxConcurrency(n - 1)

DidRunTask(w) ==
  /\ pc[w] = "DidRun"
  /\ IF is_canceled \/ TooMany(active_workers)
     THEN /\ active_workers' = active_workers - 1
          /\ NotifyReleased
          /\ Goto(w, "Idle")
          /\ UNCHANGED <<pending_tasks, after, to_post>>
     ELSE /\ PostUpTo(w, CappedMaxConcurrency(active_workers - 1), "Run")
          /\ UNCHANGED <<active_workers, sleeping>>
  /\ UNCHANGED <<num_worker_threads, is_canceled, idVars, posted, poolVars>>

-----------------------------------------------------------------------------
JoinerIsNotCounted == UNCHANGED active_workers
JoinerIsCounted == active_workers' = active_workers + 1

CallJoin ==
  /\ pc[Main] = "Idle"
  /\ num_worker_threads' = num_worker_threads + 1
  /\ JoinerIsCounted
  /\ Goto(Main, "JoinFirst")
  /\ UNCHANGED <<pending_tasks, is_canceled, idVars, after, to_post, posted, poolVars,
                 sleeping>>

\* WaitForParticipationOpportunity: sleep, return, or take part once more.
JoinSleeps == TooMany(active_workers) /\ active_workers > 1

JobIsDone == CappedMaxConcurrency(active_workers - 1) = 0

Join ==
  /\ pc[Main] \in {"JoinFirst", "JoinAgain"} /\ ~sleeping
  /\ \/ /\ JoinSleeps
        /\ sleeping' = TRUE
        /\ UNCHANGED <<counters, is_canceled, idVars, pc, after, to_post>>
     \/ /\ ~JoinSleeps /\ JobIsDone
        /\ active_workers' = 0 /\ is_canceled' = TRUE
        /\ ReleaseTaskId(Main)
        /\ Goto(Main, "Joined")
        /\ UNCHANGED <<pending_tasks, num_worker_threads, after, to_post, sleeping>>
     \/ /\ ~JoinSleeps /\ ~JobIsDone /\ pc[Main] = "JoinFirst"
        /\ PostUpTo(Main, CappedMaxConcurrency(active_workers - 1), "Run")
        /\ UNCHANGED <<active_workers, num_worker_threads, is_canceled, idVars, sleeping>>
     \/ /\ ~JoinSleeps /\ ~JobIsDone /\ pc[Main] = "JoinAgain"
        /\ Goto(Main, "Run")
        /\ UNCHANGED <<counters, is_canceled, idVars, after, to_post, sleeping>>
  /\ UNCHANGED <<posted, poolVars>>

CallCancel ==
  /\ pc[Main] = "Idle"
  /\ is_canceled' = TRUE
  /\ Goto(Main, "CancelWait")
  /\ UNCHANGED <<counters, idVars, after, to_post, posted, poolVars, sleeping>>

CancelAndWait ==
  /\ pc[Main] = "CancelWait" /\ ~sleeping
  /\ IF active_workers > 0 THEN sleeping' = TRUE /\ UNCHANGED pc
     ELSE Goto(Main, "Canceled") /\ UNCHANGED sleeping
  /\ UNCHANGED <<counters, is_canceled, idVars, after, to_post, posted, poolVars>>

CancelAndDetach ==
  /\ pc[Main] = "Idle"
  /\ is_canceled' = TRUE
  /\ Goto(Main, "Detached")
  /\ UNCHANGED <<counters, idVars, after, to_post, posted, poolVars, sleeping>>

SpuriousWakeup ==
  /\ sleeping
  /\ sleeping' = FALSE
  /\ UNCHANGED <<counters, is_canceled, idVars, pc, after, to_post, posted, poolVars>>

\* The job is over and its tasks have left the platform's queues.
Done ==
  /\ ~StateIsAlive /\ posted = 0
  /\ UNCHANGED vars

ThreadStep(t) ==
  \/ NotifyConcurrencyIncrease(t) \/ Grow(t) \/ CallOnWorkerThread(t)
  \/ ShouldYield(t) \/ TakeWork(t) \/ FinishItem(t)

WorkerStep(w) == RunWorker(w) \/ CanRunFirstTask(w) \/ DidRunTask(w)

MainStep == Join \/ CancelAndWait

JobNext ==
  \/ \E t \in Threads : ThreadStep(t) \/ AddWork(t) \/ AcquireTaskId(t)
  \/ \E w \in Workers : WorkerStep(w)
  \/ CallJoin \/ CallCancel \/ CancelAndDetach \/ SpuriousWakeup \/ MainStep
  \/ Done

JobSpec == JobInit /\ [][JobNext]_vars

\* Threads go on with what they have begun; a posted task gets a worker.
FairJobSpec ==
  /\ JobSpec
  /\ \A t \in Threads : WF_vars(ThreadStep(t))
  /\ \A w \in Workers : WF_vars(WorkerStep(w))
  /\ WF_vars(MainStep)

-----------------------------------------------------------------------------
InTask(t) ==
  \/ pc[t] \in {"Run", "Take", "Work"}
  \/ pc[t] \in {"Notify", "Grow", "Post"} /\ after[t] = "Run"

Running == {t \in Threads : InTask(t)}

\* The threads active_workers_ counts: the workers between CanRunFirstTask and
\* DidRunTask, and the owner while it joins.
IsActive(t) == InTask(t) \/ pc[t] \in {"DidRun", "JoinFirst", "JoinAgain"}

Active == {t \in Threads : IsActive(t)}

\* active_workers_ is the number of threads that are inside the job, also while
\* the joiner adds itself outside of CanRunFirstTask (DefaultJobState::Join).
ActiveIsCounted == active_workers = Cardinality(Active)

\* The reserved tasks that are not posted yet, and the workers that have taken a
\* task and not counted it down.
Posting == UNION {{t} \X (1..to_post[t]) : t \in Threads}
Starting == {w \in Workers : pc[w] = "First"}

\* Every reserved task is about to be posted, in a queue, or about to be
\* counted down by CanRunFirstTask: pending_tasks_ never drifts or underflows;
\* and the threads inside Run never exceed num_worker_threads_, although the
\* joiner enters without asking.
CountsAreRight ==
  /\ StateIsAlive =>
       pending_tasks = posted + Cardinality(Posting) + Cardinality(Starting)
  /\ Cardinality(Running) <= num_worker_threads

\* The DCHECKs of AcquireTaskId and ReleaseTaskId (default-job.cc:69, :91): a
\* thread that asks for a task id finds one, and no two threads have the same.
TaskIdsSuffice ==
  /\ \A t \in Threads : pc[t] = "Work" /\ task_id[t] = None
                          => Cardinality(assigned_task_ids) + 1 <= kMaxWorkersPerJob
  /\ \A t, u \in Threads : task_id[t] = task_id[u] /\ task_id[t] # None => t = u

\* When Join has returned nobody runs the task and nothing is left to do; when
\* Cancel has returned nobody runs it: the caller may free what the task uses.
ReturnedMeansDone ==
  /\ pc[Main] \in {"Joined", "Canceled"} => Active = {}
  /\ pc[Main] = "Joined" => work = 0

\* The labels each thread may have; is_canceled_ is set before the owner waits
\* for the end or returns.
Labelled ==
  /\ num_worker_threads \in Nat \ {0}
  /\ is_canceled \in BOOLEAN /\ work \in Nat
  /\ pc \in [Threads -> Labels] /\ after \in [Threads -> {"Idle", "Run"}]
  /\ \A w \in Workers :
       /\ pc[w] \in {"Idle", "First", "Run", "Take", "Work", "Notify", "Grow", "Post",
                    "DidRun"}
       /\ pc[w] \in {"Notify", "Grow", "Post"} => after[w] = "Run"
  /\ pc[Main] \notin {"First", "DidRun"}
  /\ pc[Main] \in Returned \cup {"CancelWait"} <=> is_canceled

\* The inductive invariant behind ReturnedMeansDone: the joiner returns when it
\* counts itself alone, so the count of active_workers_ has to be right.
JobInv ==
  /\ Labelled
  /\ active_workers \in Nat
  /\ ActiveIsCounted
  /\ ReturnedMeansDone

Contract == INSTANCE JobContract
  WITH job_running <- Running,
       job_open <- ~is_canceled,
       job_returned <- pc[Main] \in {"Joined", "Canceled"},
       job_work <- work

\* The job does what a job handle promises.
ImplementsContract == Contract!JobSpec

\* Join and Cancel return, however many workers run and whatever they announce
\* meanwhile: the owner is woken whenever the last worker leaves.
CallsReturn ==
  /\ pc[Main] = "JoinFirst" ~> pc[Main] = "Joined"
  /\ pc[Main] = "CancelWait" ~> pc[Main] = "Canceled"

\* Announced work is taken, unless the job is canceled: no task is posted only
\* while an active worker or a pending task is certain to look again.
WorkIsTaken == announced > 0 ~> work = 0 \/ is_canceled
=============================================================================

----------------------------- MODULE JobContract -----------------------------
(***************************************************************************)
(* What a JobHandle promises: threads run the job's task until the handle  *)
(* is joined or canceled.  Join returns when no work is left and nobody    *)
(* runs the task, Cancel when nobody runs it, and afterwards nobody does.  *)
(***************************************************************************)
EXTENDS Naturals

CONSTANT Threads

VARIABLES job_running,   \* threads inside JobTask::Run
          job_open,      \* the task may still be started
          job_returned,  \* Join or Cancel has returned
          job_work       \* the work GetMaxConcurrency reports

jobVars == <<job_running, job_open, job_returned, job_work>>

JobInit ==
  /\ job_running = {} /\ job_open = TRUE /\ job_returned = FALSE
  /\ job_work = 0

Start(t) ==
  /\ job_open
  /\ job_running' = job_running \cup {t}
  /\ UNCHANGED <<job_open, job_returned, job_work>>

Stop(t) ==
  /\ job_running' = job_running \ {t}
  /\ UNCHANGED <<job_open, job_returned, job_work>>

ChangeWork ==
  /\ job_work' \in Nat
  /\ UNCHANGED <<job_running, job_open, job_returned>>

JoinReturns ==
  /\ job_running = {} /\ job_work = 0
  /\ job_open' = FALSE /\ job_returned' = TRUE
  /\ UNCHANGED <<job_running, job_work>>

Close ==
  /\ job_open' = FALSE
  /\ UNCHANGED <<job_running, job_returned, job_work>>

CancelReturns ==
  /\ job_running = {}
  /\ job_open' = FALSE /\ job_returned' = TRUE
  /\ UNCHANGED <<job_running, job_work>>

JobNext ==
  \/ \E t \in Threads : Start(t) \/ Stop(t)
  \/ ChangeWork \/ JoinReturns \/ Close \/ CancelReturns

JobSpec == JobInit /\ [][JobNext]_jobVars

\* An owner that posts the next job once the handle is used up.
Repost ==
  /\ job_returned
  /\ job_open' = TRUE /\ job_returned' = FALSE
  /\ UNCHANGED <<job_running, job_work>>

JobsSpec == JobInit /\ [][JobNext \/ Repost]_jobVars
=============================================================================

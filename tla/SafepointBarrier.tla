-------------------------- MODULE SafepointBarrier --------------------------
(***************************************************************************)
(* IsolateSafepoint::Barrier, one for every isolate.                       *)
(*                                                                         *)
(* The thread that starts a safepoint arms the barrier and waits on        *)
(* cv_stopped_ until stopped_ reaches the number of threads that were      *)
(* running; the threads that stop count themselves in stopped_ and, unless *)
(* they only park, wait on cv_resume_ until the barrier is disarmed.  Every *)
(* method holds the barrier's mutex from its first line to its last or to  *)
(* the wait, so a method is one step up to its wait, and one step per      *)
(* wakeup.  A condition variable is the set of threads that sleep on it.   *)
(***************************************************************************)
EXTENDS Threads

VARIABLES armed,            \* isolates whose armed_ is true
          stopped,          \* stopped_, per isolate
          cv_stopped,       \* sleepers of cv_stopped_, per isolate
          cv_resume         \* sleepers of cv_resume_, per isolate

barrierVars == <<armed, stopped, cv_stopped, cv_resume>>

BarrierInit ==
  /\ armed = {}
  /\ stopped = [i \in Isolates |-> 0]
  /\ cv_stopped = [i \in Isolates |-> {}]
  /\ cv_resume = [i \in Isolates |-> {}]

IsArmed(i) == i \in armed

Arm(i) ==
  /\ armed' = armed \cup {i}
  /\ stopped' = [stopped EXCEPT ![i] = 0]
  /\ UNCHANGED <<cv_stopped, cv_resume>>

SleepersStay(i) == UNCHANGED cv_resume

\* cv_resume_.NotifyAll().
NotifyAllResume(i) == cv_resume' = [cv_resume EXCEPT ![i] = {}]

Disarm(i) ==
  /\ armed' = armed \ {i}
  /\ stopped' = [stopped EXCEPT ![i] = 0]
  /\ NotifyAllResume(i)
  /\ UNCHANGED cv_stopped


\* cv_stopped_.NotifyOne().
NotifyOneStopped(i) ==
  \E rest \in NotifyOneOf(cv_stopped[i]) : cv_stopped' = [cv_stopped EXCEPT ![i] = rest]

\* A stopping thread counts itself and wakes the initiator: NotifyPark, and
\* the first half of WaitInSafepoint.
CountStopped(i) ==
  /\ stopped' = [stopped EXCEPT ![i] = @ + 1]
  /\ NotifyOneStopped(i)

BarrierNotifyPark(i) ==
  /\ CountStopped(i)
  /\ UNCHANGED <<armed, cv_resume>>

\* WaitInSafepoint up to its first wait.
BarrierWaitInSafepoint(i, t) ==
  /\ CountStopped(i)
  /\ cv_resume' = [cv_resume EXCEPT ![i] = IF IsArmed(i) THEN @ \cup {t} ELSE @]
  /\ UNCHANGED armed

\* while (IsArmed()) cv_resume_.Wait(): thread t sleeps or goes on.
SleepUntilDisarmed(i, t) ==
  /\ t \notin cv_resume[i]
  /\ IsArmed(i)
  /\ cv_resume' = [cv_resume EXCEPT ![i] = @ \cup {t}]
  /\ UNCHANGED <<armed, stopped, cv_stopped>>

WokenAndDisarmed(i, t) == t \notin cv_resume[i] /\ ~IsArmed(i)

StillRunningButOne(i, running) == stopped[i] + 1 < running

StillRunning(i, running) == stopped[i] < running

\* while (stopped_ < running) cv_stopped_.Wait() of the initiator t.
SleepUntilStopped(i, t, running) ==
  /\ t \notin cv_stopped[i]
  /\ StillRunning(i, running)
  /\ cv_stopped' = [cv_stopped EXCEPT ![i] = @ \cup {t}]
  /\ UNCHANGED <<armed, stopped, cv_resume>>

RunningThreadsStopped(i, t, running) ==
  t \notin cv_stopped[i] /\ ~StillRunning(i, running)
=============================================================================

---------------------------- MODULE MemoryReducer ----------------------------
(***************************************************************************)
(* The memory reducer of a heap: an automaton that starts a few collections *)
(* once the program allocates little, driven by a timer task, by the ends  *)
(* of mark-compact collections and by hints of garbage.  Time is relative: *)
(* a point in the future is the time that is left until it, a point in the *)
(* past the time gone by since then.                                       *)
(***************************************************************************)
EXTENDS Naturals, Sequences

CONSTANTS kShortDelayMs, kLongDelayMs, kStartDelayMs, kWatchdogDelayMs,
          kSlackMs,              \* ScheduleTimer's slack
          kCommittedMemoryDelta,
          MaxNumberOfGCs,
          MaxMemory,             \* bound: committed old generation memory
          Never

ASSUME ReducerAssumption ==
  /\ {kShortDelayMs, kLongDelayMs, kStartDelayMs, MaxNumberOfGCs} \subseteq Nat \ {0}
  /\ {kWatchdogDelayMs, kSlackMs, kCommittedMemoryDelta, MaxMemory} \subseteq Nat
  /\ kShortDelayMs <= kLongDelayMs /\ kShortDelayMs <= kWatchdogDelayMs
  /\ Never \notin Nat

VARIABLES
  state,      \* state_: id, started_gcs, next (time left), last (time gone by), memory
  timers,     \* time left of the posted timer tasks
  marking,    \* incremental marking is on
  committed,  \* committed old generation memory
  active,     \* the program still allocates and collects by itself
  heap        \* "Up", "TearingDown", "Canceled" or "Gone"

vars == <<state, timers, marking, committed, active, heap>>

-----------------------------------------------------------------------------
(* MemoryReducer::State and Step.                                          *)

CreateUninitialized ==
  [id |-> "Uninit", started_gcs |-> 0, next |-> 0, last |-> Never, memory |-> 0]
CreateDone(last, memory) ==
  [id |-> "Done", started_gcs |-> 0, next |-> 0, last |-> last, memory |-> memory]
CreateWait(started, next, last) ==
  [id |-> "Wait", started_gcs |-> started, next |-> next, last |-> last, memory |-> 0]
CreateRun(started) ==
  [id |-> "Run", started_gcs |-> started, next |-> 0, last |-> Never, memory |-> 0]

WatchdogGC(s) == s.last # Never /\ s.last > kWatchdogDelayMs

\* kCommittedMemoryFactor is 1.1.
MemoryHasGrown(s, e) ==
  e.memory >= LET byFactor == (11 * s.memory) \div 10
                  byDelta == s.memory + kCommittedMemoryDelta
              IN IF byFactor > byDelta THEN byFactor ELSE byDelta

EnoughGCs(s) == s.started_gcs >= MaxNumberOfGCs

AnyTime(s) == TRUE
TimeHasCome(s) == s.next = 0

StepIdle(s, e) ==
  CASE e.type = "Timer" -> s
    [] e.type = "MarkCompact" ->
         IF MemoryHasGrown(s, e) THEN CreateWait(0, kLongDelayMs, 0) ELSE s
    [] e.type = "PossibleGarbage" -> CreateWait(0, kStartDelayMs, s.last)

StepWait(s, e) ==
  CASE e.type = "PossibleGarbage" -> s
    [] e.type = "MarkCompact" -> CreateWait(s.started_gcs, kLongDelayMs, 0)
    [] e.type = "Timer" ->
         IF EnoughGCs(s) THEN CreateDone(s.last, e.memory)
         ELSE IF e.can_start /\ (e.should_start \/ WatchdogGC(s))
              THEN IF TimeHasCome(s) THEN CreateRun(s.started_gcs + 1) ELSE s
              ELSE CreateWait(s.started_gcs, kLongDelayMs, s.last)

StepRun(s, e) ==
  IF e.type # "MarkCompact" THEN s
  ELSE IF s.started_gcs < MaxNumberOfGCs /\ (e.collect_more \/ s.started_gcs = 1)
       THEN CreateWait(s.started_gcs, kShortDelayMs, 0)
       ELSE CreateDone(0, e.memory)

Step(s, e) ==
  CASE s.id \in {"Uninit", "Done"} -> StepIdle(s, e)
    [] s.id = "Wait" -> StepWait(s, e)
    [] s.id = "Run" -> StepRun(s, e)

-----------------------------------------------------------------------------
Init ==
  /\ state = CreateUninitialized /\ timers = <<>> /\ marking = FALSE
  /\ committed = 0 /\ active = TRUE /\ heap = "Up"

EvenInTearDown(pending, delay) == Append(pending, delay + kSlackMs)
ScheduleTimer(pending, delay) ==
  IF heap = "Up" THEN Append(pending, delay + kSlackMs) ELSE pending

Event(type, memory, more, should, can) ==
  [type |-> type, memory |-> memory, collect_more |-> more,
   should_start |-> should, can_start |-> can]

\* NotifyMarkCompact and NotifyPossibleGarbage: a timer is started on the way
\* into the wait state only.
Notify(e) ==
  /\ state' = Step(state, e)
  /\ timers' = IF state.id # "Wait" /\ state'.id = "Wait"
               THEN ScheduleTimer(timers, state'.next) ELSE timers

\* A mark-compact collection ends, of the program's own or by incremental marking.
NotifyMarkCompact ==
  /\ heap # "Gone" /\ (active \/ marking)
  /\ marking' = FALSE
  /\ \E after \in 0..committed, fragmented \in BOOLEAN :
       /\ committed' = after
       /\ Notify(Event("MarkCompact", after, fragmented \/ after < committed,
                       FALSE, FALSE))
  /\ UNCHANGED <<active, heap>>

NotifyPossibleGarbage ==
  /\ heap # "Gone" /\ active
  /\ Notify(Event("PossibleGarbage", 0, FALSE, FALSE, FALSE))
  /\ UNCHANGED <<marking, committed, active, heap>>

Forgotten(pending, delay) == pending
Reschedule(pending, delay) == ScheduleTimer(pending, delay)

\* TimerTask::RunInternal and NotifyTimer, for the k-th posted task, at its time or
\* later.  Heap::StartIncrementalMarking starts nothing while the tasks of a minor
\* sweeper run.
NotifyTimer ==
  \E k \in DOMAIN timers, should, can, sweeping \in BOOLEAN :
    LET rest == SubSeq(timers, 1, k - 1) \o SubSeq(timers, k + 1, Len(timers))
        next == Step(state, Event("Timer", committed, FALSE,
                                  should \/ ~active, ~marking /\ (can \/ ~active)))
    IN /\ heap = "Up" /\ timers[k] = 0
       /\ state' = next
       /\ marking' = (marking \/ (next.id = "Run" /\ ~sweeping))
       /\ timers' = IF next.id = "Wait" THEN Reschedule(rest, next.next) ELSE rest
       /\ UNCHANGED <<committed, active, heap>>

\* Isolate::Deinit: the timer tasks are canceled before Heap::TearDown destroys the
\* reducer.
StartTearDown ==
  /\ heap = "Up" /\ heap' = "TearingDown"
  /\ UNCHANGED <<state, timers, marking, committed, active>>

CancelAndWait ==
  /\ heap = "TearingDown" /\ heap' = "Canceled"
  /\ timers' = <<>>
  /\ UNCHANGED <<state, marking, committed, active>>

TearDown ==
  /\ heap = "Canceled" /\ heap' = "Gone"
  /\ state' = CreateUninitialized
  /\ UNCHANGED <<timers, marking, committed, active>>

\* The program: it allocates, starts incremental marking, and becomes quiet.
Allocate ==
  /\ heap = "Up" /\ active /\ committed < MaxMemory
  /\ committed' = committed + 1
  /\ UNCHANGED <<state, timers, marking, active, heap>>

StartIncrementalMarking ==
  /\ heap = "Up" /\ active /\ ~marking
  /\ marking' = TRUE
  /\ UNCHANGED <<state, timers, committed, active, heap>>

BecomeQuiet ==
  /\ active /\ active' = FALSE
  /\ UNCHANGED <<state, timers, marking, committed, heap>>

Less(time) == IF time = 0 THEN 0 ELSE time - 1

Tick ==
  /\ state' = [state EXCEPT
       !.next = Less(@),
       !.last = IF @ = Never \/ @ > kWatchdogDelayMs THEN @ ELSE @ + 1]
  /\ timers' = [k \in DOMAIN timers |-> Less(timers[k])]
  /\ UNCHANGED <<marking, committed, active, heap>>

Next ==
  \/ NotifyMarkCompact \/ NotifyPossibleGarbage \/ NotifyTimer
  \/ StartTearDown \/ CancelAndWait \/ TearDown
  \/ Allocate \/ StartIncrementalMarking \/ BecomeQuiet \/ Tick

\* Time passes, tasks of the foreground task runner are run, and incremental
\* marking comes to its end.
Spec ==
  /\ Init /\ [][Next]_vars
  /\ WF_vars(Tick) /\ WF_vars(NotifyTimer) /\ WF_vars(marking /\ NotifyMarkCompact)

-----------------------------------------------------------------------------
\* A timer task is pending exactly while the reducer waits, and never two: the task
\* finds the wait state (DCHECK_EQ(kWait, state_.id())), and a reducer that waits is
\* woken.  No task is left once the tasks are canceled that could use a reducer that
\* is gone, although notifications still arrive.
TimerIffWaiting ==
  /\ heap = "Up" => Len(timers) = IF state.id = "Wait" THEN 1 ELSE 0
  /\ heap \in {"Canceled", "Gone"} => timers = <<>>

\* The reducer starts no collection sooner after the last one than its shortest
\* delay, also when that one was the program's own and ended while the timer was
\* pending, and no more than MaxNumberOfGCs between two rests (the CHECKs of Step).
StartsAreSpaced ==
  [][state.id = "Wait" /\ state'.id = "Run" =>
       /\ \/ state.last = Never
          \/ state.last >= kShortDelayMs \/ state.last >= kStartDelayMs
       /\ state'.started_gcs <= MaxNumberOfGCs]_vars

\* Once the program is quiet the reducer comes to rest, after its last collection.
\* The exception is the run state with marking off: the start of the collection was
\* refused for the sake of the minor sweeper, and only a later collection of the
\* program's own would lead out of it.
ComesToRest ==
  (<>~active) => <>[](\/ state.id \in {"Uninit", "Done"} \/ heap # "Up"
                      \/ state.id = "Run" /\ ~marking)
=============================================================================

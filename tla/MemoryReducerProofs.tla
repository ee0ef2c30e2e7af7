------------------------ MODULE MemoryReducerProofs ------------------------
(***************************************************************************)
(* The timer of the memory reducer and the spacing of its collections, for *)
(* all delays, limits and amounts of memory.                               *)
(***************************************************************************)
EXTENDS MemoryReducer, TLAPS

States ==
  [id : {"Uninit", "Done", "Wait", "Run"}, started_gcs : Nat, next : Nat,
   last : Nat \cup {Never}, memory : Nat]
Events ==
  [type : {"Timer", "MarkCompact", "PossibleGarbage"}, memory : Nat,
   collect_more : BOOLEAN, should_start : BOOLEAN, can_start : BOOLEAN]

\* A reducer that waits: between the last collection and the time of the next one
\* lies one of the delays.
Paced(s) ==
  s.id = "Wait" => \/ s.last = Never
                   \/ s.last + s.next >= kShortDelayMs
                   \/ s.last + s.next >= kStartDelayMs

\* What Step guarantees of a start.
StartIsDue(s, n) ==
  /\ s.last = Never \/ s.last >= kShortDelayMs \/ s.last >= kStartDelayMs
  /\ n.started_gcs <= MaxNumberOfGCs

ReducerInv ==
  /\ state \in States /\ timers \in Seq(Nat) /\ committed \in Nat
  /\ marking \in BOOLEAN /\ active \in BOOLEAN
  /\ heap \in {"Up", "TearingDown", "Canceled", "Gone"}
  /\ Paced(state)
  /\ TimerIffWaiting

-----------------------------------------------------------------------------
\* In the idle states the reducer rests on or begins to wait.
LEMMA IdleStep ==
  ASSUME NEW s \in States, NEW e \in Events
  PROVE  /\ StepIdle(s, e) \in States
         /\ StepIdle(s, e) = s \/ StepIdle(s, e).id = "Wait"
         /\ s.id # "Wait" => Paced(StepIdle(s, e))
<1> DEFINE n == StepIdle(s, e)
<1> USE ReducerAssumption
<1>0. s.last \in Nat \cup {Never} /\ 0 \in Nat /\ 0 \in Nat \cup {Never}
  BY DEF States
<1>1. CASE e.type = "Timer"
  <2>1. n = s
    BY <1>1 DEF StepIdle
  <2>. QED  BY <2>1 DEF Paced
<1>2. CASE e.type = "MarkCompact"
  <2>1. n = s \/ n = CreateWait(0, kLongDelayMs, 0)
    BY <1>2 DEF StepIdle
  <2>2. kLongDelayMs \in Nat /\ kShortDelayMs \in Nat
    OBVIOUS
  <2>3. CASE n = CreateWait(0, kLongDelayMs, 0)
    <3>1. n \in States /\ n.id = "Wait" /\ n.next = kLongDelayMs /\ n.last = 0
      BY <1>0, <2>2, <2>3 DEF States, CreateWait
    <3>. QED  BY <2>2, <3>1 DEF Paced
  <2>. QED  BY <2>1, <2>3 DEF Paced
<1>3. CASE e.type = "PossibleGarbage"
  <2>1. n = CreateWait(0, kStartDelayMs, s.last)
    BY <1>3 DEF StepIdle
  <2>2. kStartDelayMs \in Nat
    OBVIOUS
  <2>3. n \in States /\ n.id = "Wait" /\ n.next = kStartDelayMs /\ n.last = s.last
    BY <1>0, <2>1, <2>2 DEF States, CreateWait
  <2>. QED  BY <1>0, <2>2, <2>3 DEF Paced
<1>. QED  BY <1>1, <1>2, <1>3 DEF Events

\* A reducer that waits leaves that state on the timer only, and then starts no
\* collection before it is due.
LEMMA WaitStep ==
  ASSUME NEW s \in States, NEW e \in Events, s.id = "Wait", Paced(s)
  PROVE  /\ StepWait(s, e) \in States /\ Paced(StepWait(s, e))
         /\ e.type # "Timer" => StepWait(s, e).id = "Wait"
         /\ StepWait(s, e).id = "Run" => StartIsDue(s, StepWait(s, e))
<1> DEFINE n == StepWait(s, e)
<1>0. /\ s.last \in Nat \cup {Never} /\ s.started_gcs \in Nat /\ s.next \in Nat
      /\ 0 \in Nat /\ 0 \in Nat \cup {Never} /\ e.memory \in Nat
  BY DEF States, Events
<1>1. /\ kLongDelayMs \in Nat /\ kShortDelayMs \in Nat /\ kStartDelayMs \in Nat
      /\ MaxNumberOfGCs \in Nat /\ kShortDelayMs <= kLongDelayMs
  BY ReducerAssumption
<1>2. ASSUME NEW last \in Nat \cup {Never}, n = CreateWait(s.started_gcs, kLongDelayMs, last)
      PROVE  n \in States /\ n.id = "Wait" /\ Paced(n)
  <2>1. n \in States /\ n.id = "Wait" /\ n.next = kLongDelayMs /\ n.last = last
    BY <1>0, <1>1, <1>2 DEF States, CreateWait
  <2>. QED  BY <1>1, <2>1 DEF Paced
<1>3. CASE e.type = "PossibleGarbage"
  <2>1. n = s
    BY <1>3 DEF StepWait
  <2>. QED  BY <2>1
<1>4. CASE e.type = "MarkCompact"
  <2>1. n = CreateWait(s.started_gcs, kLongDelayMs, 0)
    BY <1>4 DEF StepWait
  <2>. QED  BY <1>0, <1>2, <2>1
<1>5. CASE e.type = "Timer"
  <2>1. \/ n = CreateDone(s.last, e.memory)
        \/ /\ n = CreateRun(s.started_gcs + 1)
           /\ s.next = 0 /\ ~(s.started_gcs >= MaxNumberOfGCs)
        \/ n = s
        \/ n = CreateWait(s.started_gcs, kLongDelayMs, s.last)
    BY <1>5 DEF StepWait, TimeHasCome, EnoughGCs
  <2>2. CASE n = CreateDone(s.last, e.memory)
    <3>1. n \in States /\ n.id = "Done"
      BY <1>0, <2>2 DEF States, CreateDone
    <3>. QED  BY <1>5, <3>1 DEF Paced
  <2>3. CASE /\ n = CreateRun(s.started_gcs + 1)
             /\ s.next = 0 /\ ~(s.started_gcs >= MaxNumberOfGCs)
    <3>1. s.started_gcs + 1 \in Nat /\ s.started_gcs + 1 <= MaxNumberOfGCs
      BY <1>0, <1>1, <2>3
    <3>2. n \in States /\ n.id = "Run" /\ n.started_gcs = s.started_gcs + 1
      BY <1>0, <2>3, <3>1, ReducerAssumption DEF States, CreateRun
    <3>3. s.last = Never \/ s.last >= kShortDelayMs \/ s.last >= kStartDelayMs
      BY <1>0, <1>1, <2>3 DEF Paced
    <3>. QED  BY <1>5, <3>1, <3>2, <3>3 DEF Paced, StartIsDue
  <2>4. CASE n = s
    BY <1>5, <2>4
  <2>5. CASE n = CreateWait(s.started_gcs, kLongDelayMs, s.last)
    BY <1>0, <1>2, <1>5, <2>5, Zenon
  <2>. QED  BY <2>1, <2>2, <2>3, <2>4, <2>5
<1>. QED  BY <1>3, <1>4, <1>5 DEF Events

\* A reducer that has started a collection waits for its end, and then waits for the
\* time of the next or rests.
LEMMA RunStep ==
  ASSUME NEW s \in States, NEW e \in Events, s.id = "Run"
  PROVE  StepRun(s, e) \in States /\ Paced(StepRun(s, e))
<1> DEFINE n == StepRun(s, e)
<1>0. s.started_gcs \in Nat /\ 0 \in Nat \cup {Never} /\ e.memory \in Nat
  BY DEF States, Events
<1>1. kShortDelayMs \in Nat
  BY ReducerAssumption
<1>2. n = s \/ n = CreateDone(0, e.memory) \/ n = CreateWait(s.started_gcs, kShortDelayMs, 0)
  BY DEF StepRun
<1>3. CASE n = s
  BY <1>3 DEF Paced
<1>4. CASE n = CreateDone(0, e.memory)
  <2>1. n \in States /\ n.id = "Done"
    BY <1>0, <1>4 DEF States, CreateDone
  <2>. QED  BY <2>1 DEF Paced
<1>5. CASE n = CreateWait(s.started_gcs, kShortDelayMs, 0)
  <2>1. n \in States /\ n.id = "Wait" /\ n.next = kShortDelayMs /\ n.last = 0
    BY <1>0, <1>1, <1>5 DEF States, CreateWait
  <2>. QED  BY <1>1, <2>1 DEF Paced
<1>. QED  BY <1>2, <1>3, <1>4, <1>5

\* MemoryReducer::Step keeps the pace, leaves the wait state on the timer only and
\* starts collections that are due.
LEMMA StepIsPaced ==
  ASSUME NEW s \in States, NEW e \in Events, Paced(s)
  PROVE  /\ Step(s, e) \in States /\ Paced(Step(s, e))
         /\ s.id = "Wait" /\ e.type # "Timer" => Step(s, e).id = "Wait"
         /\ s.id = "Wait" /\ Step(s, e).id = "Run" => StartIsDue(s, Step(s, e))
<1>1. CASE s.id \in {"Uninit", "Done"}
  <2>1. Step(s, e) = StepIdle(s, e)
    BY <1>1 DEF Step
  <2>. QED  BY <1>1, <2>1, IdleStep
<1>2. CASE s.id = "Wait"
  <2>1. Step(s, e) = StepWait(s, e)
    BY <1>2 DEF Step
  <2>. QED  BY <1>2, <2>1, WaitStep
<1>3. CASE s.id = "Run"
  <2>1. Step(s, e) = StepRun(s, e)
    BY <1>3 DEF Step
  <2>. QED  BY <1>3, <2>1, RunStep
<1>. QED  BY <1>1, <1>2, <1>3 DEF States

\* NotifyMarkCompact and NotifyPossibleGarbage keep the invariant: they start a timer
\* exactly when the reducer begins to wait, and none once the heap is torn down.
LEMMA NotifyKeepsInv ==
  ASSUME ReducerInv, NEW e \in Events, e.type # "Timer", Notify(e), heap' = heap
  PROVE  /\ state' \in States /\ timers' \in Seq(Nat) /\ Paced(state')
         /\ TimerIffWaiting'
         /\ ~(state.id = "Wait" /\ state'.id = "Run")
<1>1. /\ state' \in States /\ Paced(state')
      /\ state.id = "Wait" => state'.id = "Wait"
  BY StepIsPaced DEF ReducerInv, Notify
<1>2. kSlackMs \in Nat /\ state'.next \in Nat
  BY <1>1, ReducerAssumption DEF States
<1>3. CASE state.id # "Wait" /\ state'.id = "Wait" /\ heap = "Up"
  <2>1. timers' = Append(timers, state'.next + kSlackMs)
    BY <1>3 DEF Notify, ScheduleTimer
  <2>2. timers' \in Seq(Nat) /\ Len(timers') = Len(timers) + 1
    BY <1>2, <2>1 DEF ReducerInv
  <2>3. Len(timers) = 0
    BY <1>3 DEF ReducerInv, TimerIffWaiting
  <2>. QED  BY <1>1, <1>3, <2>2, <2>3 DEF TimerIffWaiting
<1>4. CASE ~(state.id # "Wait" /\ state'.id = "Wait" /\ heap = "Up")
  <2>1. timers' = timers
    BY <1>4 DEF Notify, ScheduleTimer
  <2>. QED  BY <1>1, <1>4, <2>1 DEF ReducerInv, TimerIffWaiting
<1>. QED  BY <1>3, <1>4

\* The events of the three notifications are events.
LEMMA EventIsEvent ==
  ASSUME NEW type \in {"Timer", "MarkCompact", "PossibleGarbage"}, NEW memory \in Nat,
         NEW more \in BOOLEAN, NEW should \in BOOLEAN, NEW can \in BOOLEAN
  PROVE  /\ Event(type, memory, more, should, can) \in Events
         /\ Event(type, memory, more, should, can).type = type
BY DEF Event, Events

\* The timer task: it is the only one, so none is left when it has run, and it posts
\* the next one exactly when the reducer goes on waiting.
LEMMA TimerKeepsInv ==
  ASSUME ReducerInv, NotifyTimer
  PROVE  /\ ReducerInv'
         /\ state.id = "Wait" /\ state'.id = "Run" => StartIsDue(state, state')
<1>1. PICK k \in DOMAIN timers, should \in BOOLEAN, can \in BOOLEAN, sweeping \in BOOLEAN :
        LET rest == SubSeq(timers, 1, k - 1) \o SubSeq(timers, k + 1, Len(timers))
            next == Step(state, Event("Timer", committed, FALSE,
                              should \/ ~active, ~marking /\ (can \/ ~active)))
        IN /\ heap = "Up" /\ timers[k] = 0
           /\ state' = next
           /\ marking' = (marking \/ (next.id = "Run" /\ ~sweeping))
           /\ timers' = IF next.id = "Wait" THEN Reschedule(rest, next.next) ELSE rest
           /\ UNCHANGED <<committed, active, heap>>
  BY Zenon DEF NotifyTimer
<1> DEFINE rest == SubSeq(timers, 1, k - 1) \o SubSeq(timers, k + 1, Len(timers))
           e == Event("Timer", committed, FALSE, should \/ ~active,
                      ~marking /\ (can \/ ~active))
<1>2. /\ state' = Step(state, e) /\ heap = "Up" /\ heap' = heap
      /\ committed' = committed /\ active' = active /\ marking' \in BOOLEAN
      /\ timers' = IF state'.id = "Wait" THEN Reschedule(rest, state'.next) ELSE rest
  BY <1>1 DEF ReducerInv
<1>3. e \in Events /\ e.type = "Timer"
  <2>1. (should \/ ~active) \in BOOLEAN /\ (~marking /\ (can \/ ~active)) \in BOOLEAN
    OBVIOUS
  <2>2. committed \in Nat
    BY DEF ReducerInv
  <2> HIDE DEF e
  <2>3. ASSUME NEW a \in BOOLEAN, NEW b \in BOOLEAN
        PROVE  /\ Event("Timer", committed, FALSE, a, b) \in Events
               /\ Event("Timer", committed, FALSE, a, b).type = "Timer"
    BY <2>2 DEF Event, Events
  <2>. QED  BY <2>1, <2>3, Zenon DEF e
<1>4. /\ state' \in States /\ Paced(state')
      /\ state.id = "Wait" /\ state'.id = "Run" => StartIsDue(state, state')
  BY <1>2, <1>3, StepIsPaced, Zenon DEF ReducerInv
<1>5. timers \in Seq(Nat) /\ k = 1 /\ Len(timers) = 1
  BY <1>2 DEF ReducerInv, TimerIffWaiting
<1>6. rest = <<>>
  <2>1. SubSeq(timers, 1, 0) = <<>> /\ SubSeq(timers, 2, 1) = <<>>
    BY <1>5
  <2>. QED  BY <1>5, <2>1
<1>7. state'.next \in Nat /\ kSlackMs \in Nat
  BY <1>4, ReducerAssumption DEF States
<1>8. timers' = IF state'.id = "Wait" THEN <<state'.next + kSlackMs>> ELSE <<>>
  <2>1. Append(<<>>, state'.next + kSlackMs) = <<state'.next + kSlackMs>>
    OBVIOUS
  <2>2. Reschedule(rest, state'.next) = Append(rest, state'.next + kSlackMs)
    BY <1>2 DEF Reschedule, ScheduleTimer
  <2> HIDE DEF rest
  <2>. QED  BY <1>2, <1>6, <2>1, <2>2, Zenon
<1>9. timers' \in Seq(Nat) /\ Len(timers') = IF state'.id = "Wait" THEN 1 ELSE 0
  BY <1>7, <1>8
<1>. QED  BY <1>2, <1>4, <1>9, Zenon DEF ReducerInv, TimerIffWaiting

\* Time passing keeps the pace: what the wait loses, the time since the last
\* collection gains, until it is past the watchdog delay.
LEMMA TickKeepsInv ==
  ASSUME ReducerInv, Tick
  PROVE  ReducerInv' /\ ~(state.id = "Wait" /\ state'.id = "Run")
<1>1. /\ state'.id = state.id /\ state'.next = Less(state.next)
      /\ state'.last = IF state.last = Never \/ state.last > kWatchdogDelayMs
                       THEN state.last ELSE state.last + 1
      /\ state' \in [id : {"Uninit", "Done", "Wait", "Run"}, started_gcs : Nat,
                     next : {state'.next}, last : {state'.last}, memory : Nat]
  BY Zenon DEF ReducerInv, States, Tick
<1>2. /\ state.next \in Nat /\ state.last \in Nat \cup {Never}
      /\ kWatchdogDelayMs \in Nat /\ kShortDelayMs \in Nat /\ kStartDelayMs \in Nat
      /\ kShortDelayMs <= kWatchdogDelayMs /\ Never \notin Nat
  BY ReducerAssumption DEF ReducerInv, States
<1>3. state'.next \in Nat /\ state'.last \in Nat \cup {Never}
  BY <1>1, <1>2 DEF Less
<1>4. state' \in States
  BY <1>1, <1>3 DEF States
<1>5. Paced(state')
  <2> SUFFICES ASSUME state.id = "Wait", state.last \in Nat
               PROVE  state'.last + state'.next >= kShortDelayMs
                        \/ state'.last + state'.next >= kStartDelayMs
    BY <1>1, <1>2 DEF Paced
  <2>1. state.last + state.next >= kShortDelayMs \/ state.last + state.next >= kStartDelayMs
    BY <1>2 DEF ReducerInv, Paced
  <2>2. CASE state.last > kWatchdogDelayMs
    <3>1. state'.last = state.last /\ state'.next \in Nat
      BY <1>1, <1>3, <2>2
    <3>. QED  BY <1>2, <2>2, <3>1
  <2>3. CASE ~(state.last > kWatchdogDelayMs)
    <3>1. state'.last = state.last + 1
      BY <1>1, <1>2, <2>3
    <3>2. state'.next \in Nat /\ state'.next + 1 >= state.next
      BY <1>1, <1>2 DEF Less
    <3>. QED  BY <1>2, <2>1, <3>1, <3>2
  <2>. QED  BY <2>2, <2>3
<1>6. timers' \in Seq(Nat) /\ Len(timers') = Len(timers)
  <2>1. timers' = [k \in 1..Len(timers) |-> Less(timers[k])]
    BY DEF Tick, ReducerInv
  <2>2. \A k \in 1..Len(timers) : Less(timers[k]) \in Nat
    BY DEF ReducerInv, Less
  <2>. QED  BY <2>1, <2>2 DEF ReducerInv
<1>7. timers = <<>> => timers' = <<>>
  BY <1>6 DEF ReducerInv
<1>. QED  BY <1>1, <1>4, <1>5, <1>6, <1>7, Zenon DEF ReducerInv, TimerIffWaiting, Tick

\* Every step keeps the invariant and starts no collection that is not due.
LEMMA NextKeepsInv ==
  ASSUME ReducerInv, [Next]_vars
  PROVE  /\ ReducerInv'
         /\ state.id = "Wait" /\ state'.id = "Run" => StartIsDue(state, state')
<1>1. CASE NotifyMarkCompact
  <2>1. PICK after \in 0..committed, fragmented \in BOOLEAN :
          /\ committed' = after
          /\ Notify(Event("MarkCompact", after, fragmented \/ after < committed,
                          FALSE, FALSE))
    BY <1>1, Zenon DEF NotifyMarkCompact
  <2> DEFINE e == Event("MarkCompact", after, fragmented \/ after < committed, FALSE, FALSE)
  <2>2. after \in Nat
    BY DEF ReducerInv
  <2>3. e \in Events /\ e.type # "Timer"
    BY <2>2, EventIsEvent, Zenon
  <2>4. heap' = heap /\ active' = active /\ marking' = FALSE
    BY <1>1 DEF NotifyMarkCompact
  <2>. QED  BY <2>1, <2>2, <2>3, <2>4, NotifyKeepsInv, Zenon DEF ReducerInv
<1>2. CASE NotifyPossibleGarbage
  <2> DEFINE e == Event("PossibleGarbage", 0, FALSE, FALSE, FALSE)
  <2>1. e \in Events /\ e.type # "Timer"
    BY EventIsEvent, Zenon
  <2>2. /\ Notify(e) /\ heap' = heap /\ active' = active /\ marking' = marking
        /\ committed' = committed
    BY <1>2, Zenon DEF NotifyPossibleGarbage
  <2>. QED  BY <2>1, <2>2, NotifyKeepsInv, Zenon DEF ReducerInv
<1>3. CASE NotifyTimer
  BY <1>3, TimerKeepsInv
<1>4. CASE StartTearDown
  BY <1>4 DEF StartTearDown, ReducerInv, TimerIffWaiting
<1>5. CASE CancelAndWait
  BY <1>5 DEF CancelAndWait, ReducerInv, TimerIffWaiting
<1>6. CASE TearDown
  <2>1. state' \in States /\ state'.id = "Uninit"
    BY <1>6 DEF TearDown, States, CreateUninitialized
  <2>. QED  BY <1>6, <2>1 DEF TearDown, ReducerInv, TimerIffWaiting, Paced
<1>7. CASE Allocate
  BY <1>7 DEF Allocate, ReducerInv, TimerIffWaiting
<1>8. CASE StartIncrementalMarking
  BY <1>8 DEF StartIncrementalMarking, ReducerInv, TimerIffWaiting
<1>9. CASE BecomeQuiet
  BY <1>9, Zenon DEF BecomeQuiet, ReducerInv, TimerIffWaiting
<1>10. CASE Tick
  BY <1>10, TickKeepsInv
<1>11. CASE UNCHANGED vars
  BY <1>11 DEF vars, ReducerInv, TimerIffWaiting
<1>. QED  BY <1>1, <1>2, <1>3, <1>4, <1>5, <1>6, <1>7, <1>8, <1>9, <1>10, <1>11 DEF Next

\* The constructor's state satisfies the invariant.
LEMMA InitHasInv == Init => ReducerInv
<1>1. Init => state \in States /\ state.id = "Uninit"
  BY DEF Init, States, CreateUninitialized
<1>2. <<>> \in Seq(Nat) /\ Len(<<>>) = 0 /\ 0 \in Nat
  OBVIOUS
<1>3. Init => Paced(state)
  BY <1>1 DEF Paced
<1>4. Init => TimerIffWaiting
  BY <1>1, <1>2 DEF Init, TimerIffWaiting
<1>. QED  BY <1>1, <1>2, <1>3, <1>4, Zenon DEF Init, ReducerInv

\* A timer task is pending exactly while the memory reducer waits, and none is left
\* when the tasks are canceled, for all delays and limits.
THEOREM ReducerIsWoken == Spec => []TimerIffWaiting
<1>1. ReducerInv /\ [Next]_vars => ReducerInv'
  BY NextKeepsInv
<1>2. ReducerInv => TimerIffWaiting
  BY DEF ReducerInv
<1>. QED  BY <1>1, <1>2, InitHasInv, PTL DEF Spec

\* The memory reducer keeps its distance from the last collection, whoever started
\* that, and never starts more than MaxNumberOfGCs, for all delays and limits.
THEOREM ReducerIsPaced == Spec => StartsAreSpaced
<1>1. ReducerInv /\ [Next]_vars => ReducerInv'
  BY NextKeepsInv
<1>2. ReducerInv /\ [Next]_vars =>
        [state.id = "Wait" /\ state'.id = "Run" =>
           /\ \/ state.last = Never
              \/ state.last >= kShortDelayMs \/ state.last >= kStartDelayMs
           /\ state'.started_gcs <= MaxNumberOfGCs]_vars
  BY NextKeepsInv DEF StartIsDue
<1>. QED  BY <1>1, <1>2, InitHasInv, PTL DEF Spec, StartsAreSpaced
=============================================================================

------------------------- MODULE SafepointCoreProofs -------------------------
(***************************************************************************)
(* SafepointCore stops the world for every number of isolates and threads: *)
(* CoreInv is inductive, it implies StoppedMeansParked, and every step is a *)
(* step of StopTheWorld or leaves its state alone.                         *)
(***************************************************************************)
EXTENDS SafepointCore, FiniteSetTheorems, TLAPS

\* Home, LocalHeap::heap_, is an isolate, and a main thread's is its own.
LEMMA HomeFacts ==
  /\ \A t \in Threads : Home(t) \in Isolates
  /\ \A i \in Isolates : i \in Threads /\ Home(i) = i
  /\ \A w \in Workers : w \in Threads /\ w \notin Isolates
  /\ Nobody \notin Threads
BY ThreadsAssumption DEF Threads, Home

\* The pending threads of an isolate are finitely many.
LEMMA PendingIsFinite ==
  ASSUME CoreTypeOK, NEW i \in Isolates
  PROVE  /\ IsFiniteSet(Pending(i)) /\ Cardinality(Pending(i)) \in Nat
         /\ Pending(i) = {} <=> Cardinality(Pending(i)) = 0
<1>1. Pending(i) \subseteq Threads
  BY DEF Pending, CoreTypeOK
<1>2. IsFiniteSet(Pending(i))
  BY <1>1, ThreadsAssumption, FS_Subset DEF Threads
<1> QED
  BY <1>2, FS_CardinalityType, FS_EmptySet

\* What each thread and each isolate has before a step.
LEMMA CoreTypes ==
  ASSUME CoreTypeOK
  PROVE  /\ registered \subseteq Threads /\ parked \subseteq Threads
         /\ requested \subseteq Threads /\ counting \subseteq Threads
BY DEF CoreTypeOK

-----------------------------------------------------------------------------
\* Initially CoreInv holds: no flag is set, nobody is counted.
LEMMA CoreInitInv == CoreInit => CoreInv
<1> SUFFICES ASSUME CoreInit PROVE CoreInv
  OBVIOUS
<1> USE DEF CoreInit
<1>1. CoreTypeOK
  BY DEF CoreTypeOK, Phases, Threads
<1>2. ListsAndOwners
  BY DEF ListsAndOwners, Threads
<1>3. FlagsMatchPhase
  BY HomeFacts DEF FlagsMatchPhase, IsFlagged
<1>4. \A i \in Isolates : Pending(i) = {}
  BY DEF Pending
<1>5. CountsMatchPending
  BY <1>4, FS_EmptySet DEF CountsMatchPending
<1> QED
  BY <1>1, <1>2, <1>3, <1>5 DEF CoreInv

\* A step that changes no count and no set of pending threads.
LEMMA SamePending ==
  ASSUME CoreInv, UNCHANGED <<stopped, running>>,
         \A i \in Isolates : Pending(i)' = Pending(i),
         \A i \in Isolates : phase'[i] \in {"Stopped", "Clearing"} =>
           phase[i] \in {"Stopped", "Clearing"} \/ Pending(i) = {}
  PROVE  CountsMatchPending'
BY DEF CoreInv, CountsMatchPending

\* LockMutex, and AddLocalHeap's lock.
LEMMA LockHeapsStep ==
  ASSUME CoreInv, NEW t \in Threads, NEW i \in Isolates, LockHeaps(t, i)
  PROVE  CoreInv'
<1> USE DEF LockHeaps
<1>1. CoreTypeOK'
  BY DEF CoreInv, CoreTypeOK
<1>2. phase[i] = "Free"
  BY HomeFacts DEF CoreInv, ListsAndOwners
<1>3. ListsAndOwners'
  BY <1>2 DEF CoreInv, ListsAndOwners, CoreTypeOK
<1>4. FlagsMatchPhase'
  BY <1>2 DEF CoreInv, FlagsMatchPhase, IsFlagged, FlaggedHeaps, CoreTypeOK
<1>5. CountsMatchPending'
  BY SamePending DEF Pending
<1> QED
  BY <1>1, <1>3, <1>4, <1>5 DEF CoreInv

\* UnlockMutex.
LEMMA UnlockHeapsStep ==
  ASSUME CoreInv, NEW i \in Isolates, UnlockHeaps(i)
  PROVE  CoreInv'
<1> USE DEF UnlockHeaps
<1>1. CoreTypeOK'
  BY DEF CoreInv, CoreTypeOK
<1>2. ListsAndOwners'
  BY DEF CoreInv, ListsAndOwners, CoreTypeOK
<1>3. FlagsMatchPhase'
  BY DEF CoreInv, FlagsMatchPhase, IsFlagged, FlaggedHeaps, CoreTypeOK
<1>4. CountsMatchPending'
  BY SamePending DEF Pending
<1> QED
  BY <1>1, <1>2, <1>3, <1>4 DEF CoreInv

\* The list changes only while no flag of the isolate is in use: its mutex is
\* the background thread's.
LEMMA ListStepInv ==
  ASSUME CoreInv, NEW w \in Workers, ListStep(w)
  PROVE  CoreInv'
<1> USE DEF ListStep, AddLocalHeap, RemoveLocalHeap
<1>1. Home(w) \in Isolates /\ w \in Threads
  BY HomeFacts
<1>2. phase[Home(w)] = "Free"
  BY <1>1, HomeFacts DEF CoreInv, ListsAndOwners
<1>3. CoreTypeOK'
  BY <1>1 DEF CoreInv, CoreTypeOK
<1>4. ListsAndOwners'
  BY <1>1, <1>2, HomeFacts DEF CoreInv, ListsAndOwners, CoreTypeOK
<1>5. FlagsMatchPhase'
  <2>1. \A u \in Threads : IsFlagged(u)' <=> IsFlagged(u)
    BY <1>1, <1>2, HomeFacts DEF CoreInv, IsFlagged, CoreTypeOK
  <2>2. \A i \in Isolates : i # Home(w) =>
          owner'[i] = owner[i] /\ FlaggedHeaps(owner[i], i)' = FlaggedHeaps(owner[i], i)
    BY <1>1 DEF CoreInv, FlaggedHeaps, CoreTypeOK
  <2> QED
    BY <1>2, <2>1, <2>2 DEF CoreInv, FlagsMatchPhase
<1>6. CountsMatchPending'
  BY SamePending DEF Pending
<1> QED
  BY <1>3, <1>4, <1>5, <1>6 DEF CoreInv

\* Park: the flag is not set, the thread is not pending.
LEMMA ParkStep ==
  ASSUME CoreInv, NEW t \in Threads, Park(t)
  PROVE  CoreInv'
<1> USE DEF Park
<1>1. CoreTypeOK'
  BY DEF CoreInv, CoreTypeOK
<1>2. ListsAndOwners'
  BY DEF CoreInv, ListsAndOwners, CoreTypeOK
<1>3. FlagsMatchPhase'
  BY DEF CoreInv, FlagsMatchPhase, IsFlagged, FlaggedHeaps
<1>4. \A i \in Isolates : Pending(i)' = Pending(i)
  BY DEF Pending
<1>5. CountsMatchPending'
  BY <1>4, SamePending
<1> QED
  BY <1>1, <1>2, <1>3, <1>5 DEF CoreInv

\* ParkSlowPath and SleepInSafepoint: the thread stays pending.
LEMMA ParkOnRequestStep ==
  ASSUME CoreInv, NEW t \in Threads, ParkOnRequest(t)
  PROVE  CoreInv'
<1> USE DEF ParkOnRequest
<1>1. CoreTypeOK'
  BY DEF CoreInv, CoreTypeOK
<1>2. ListsAndOwners'
  BY DEF CoreInv, ListsAndOwners, CoreTypeOK
<1>3. FlagsMatchPhase'
  BY DEF CoreInv, FlagsMatchPhase, IsFlagged, FlaggedHeaps
<1>4. \A i \in Isolates : Pending(i)' = Pending(i)
  BY DEF Pending
<1>5. CountsMatchPending'
  BY <1>4, SamePending
<1> QED
  BY <1>1, <1>2, <1>3, <1>5 DEF CoreInv

\* NotifyPark and WaitInSafepoint: a pending thread becomes a stopped one.
LEMMA CountStoppedStep ==
  ASSUME CoreInv, NEW t \in Threads, CountStopped(t)
  PROVE  CoreInv'
<1> USE DEF CountStopped
<1>1. CoreTypeOK'
  BY HomeFacts DEF CoreInv, CoreTypeOK
<1>2. ListsAndOwners'
  BY DEF CoreInv, ListsAndOwners
<1>3. FlagsMatchPhase'
  BY DEF CoreInv, FlagsMatchPhase, IsFlagged, FlaggedHeaps
<1>4. t \in Pending(Home(t)) /\ t \in parked /\ Home(t) \in Isolates
  BY HomeFacts DEF CoreInv, FlagsMatchPhase, Pending
<1>5. /\ Pending(Home(t))' = Pending(Home(t)) \ {t}
      /\ \A i \in Isolates : i # Home(t) => Pending(i)' = Pending(i)
  BY <1>4 DEF Pending
<1>6. Cardinality(Pending(Home(t)) \ {t}) = Cardinality(Pending(Home(t))) - 1
  BY <1>4, PendingIsFinite, FS_RemoveElement, Zenon DEF CoreInv
<1>7. Cardinality(Pending(Home(t))) \in Nat
  BY <1>4, PendingIsFinite DEF CoreInv
<1>8. CountsMatchPending'
  <2>1. /\ stopped'[Home(t)] = stopped[Home(t)] + 1
        /\ stopped[Home(t)] \in Nat /\ running[Home(t)] \in Nat
        /\ \A i \in Isolates : i # Home(t) => stopped'[i] = stopped[i]
    BY <1>4 DEF CoreInv, CoreTypeOK
  <2>2. running'[Home(t)] = stopped'[Home(t)] + Cardinality(Pending(Home(t))')
    BY <1>4, <1>5, <1>6, <1>7, <2>1 DEF CoreInv, CountsMatchPending
  <2>3. phase[Home(t)] \notin {"Stopped", "Clearing"}
    BY <1>4 DEF CoreInv, CountsMatchPending
  <2> QED
    BY <1>5, <2>1, <2>2, <2>3, Zenon DEF CoreInv, CountsMatchPending
<1> QED
  BY <1>1, <1>2, <1>3, <1>8 DEF CoreInv

\* Unpark: the flag is not set, the thread is not pending.
LEMMA UnparkStep ==
  ASSUME CoreInv, NEW t \in Threads, Unpark(t)
  PROVE  CoreInv'
<1> USE DEF Unpark
<1>1. CoreTypeOK'
  BY DEF CoreInv, CoreTypeOK
<1>2. ListsAndOwners'
  BY DEF CoreInv, ListsAndOwners
<1>3. FlagsMatchPhase'
  BY DEF CoreInv, FlagsMatchPhase, IsFlagged, FlaggedHeaps
<1>4. \A i \in Isolates : Pending(i)' = Pending(i)
  BY DEF Pending
<1>5. CountsMatchPending'
  BY <1>4, SamePending
<1> QED
  BY <1>1, <1>2, <1>3, <1>5 DEF CoreInv

-----------------------------------------------------------------------------
\* Without a flag in use, nobody of the isolate is pending.
LEMMA FreeMeansNonePending ==
  ASSUME CoreInv, NEW i \in Isolates, phase[i] = "Free"
  PROVE  Pending(i) = {} /\ stopped[i] = running[i]
<1>1. Pending(i) = {}
  BY CoreTypes DEF CoreInv, FlagsMatchPhase, IsFlagged, Pending
<1>2. Cardinality(Pending(i)) = 0
  BY <1>1, FS_EmptySet
<1>3. stopped[i] \in Nat /\ running[i] = stopped[i] + Cardinality(Pending(i))
  BY DEF CoreInv, CountsMatchPending, CoreTypeOK
<1> QED
  BY <1>1, <1>2, <1>3

\* The barrier is armed: the count starts at zero, with all flags to be set.
LEMMA ArmStep ==
  ASSUME CoreInv, NEW t \in Isolates, NEW i \in Isolates, Arm(t, i)
  PROVE  CoreInv'
<1> USE DEF Arm
<1>1. CoreTypeOK'
  BY DEF CoreInv, CoreTypeOK, FlaggedHeaps, Phases
<1>2. ListsAndOwners'
  BY DEF CoreInv, ListsAndOwners, CoreTypeOK
<1>3. FlagsMatchPhase'
  <2>1. \A u \in Threads : IsFlagged(u)' <=> IsFlagged(u)
    BY HomeFacts DEF CoreInv, IsFlagged, CoreTypeOK, FlaggedHeaps
  <2> QED
    BY <2>1 DEF CoreInv, FlagsMatchPhase, FlaggedHeaps, CoreTypeOK
<1>4. \A j \in Isolates : Pending(j)' = Pending(j)
  BY DEF Pending
<1>5. Pending(i) = {}
  BY FreeMeansNonePending
<1>6. Cardinality(Pending(i)') = 0
  BY <1>4, <1>5, FS_EmptySet
<1>7. /\ stopped'[i] = 0 /\ running'[i] = 0 /\ phase'[i] = "Setting"
      /\ \A j \in Isolates : j # i => /\ stopped'[j] = stopped[j]
                                     /\ running'[j] = running[j]
                                     /\ phase'[j] = phase[j]
  BY DEF CoreInv, CoreTypeOK
<1>8. CountsMatchPending'
  BY <1>4, <1>6, <1>7 DEF CoreInv, CountsMatchPending
<1> QED
  BY <1>1, <1>2, <1>3, <1>8 DEF CoreInv

\* One round of SetSafepointRequestedFlags: a thread that was running becomes
\* pending and is counted, one that was parked does neither.
LEMMA SetFlagStep ==
  ASSUME CoreInv, NEW i \in Isolates, NEW u \in Threads, SetFlag(i, u)
  PROVE  CoreInv'
<1> USE DEF SetFlag
<1>1. CoreTypeOK'
  BY DEF CoreInv, CoreTypeOK
<1>2. ListsAndOwners'
  BY DEF CoreInv, ListsAndOwners
<1>3. u \in registered /\ Home(u) = i /\ u # owner[i]
  BY DEF CoreInv, FlagsMatchPhase, FlaggedHeaps
<1>4. u \notin requested /\ u \notin counting
  BY <1>3 DEF CoreInv, FlagsMatchPhase, IsFlagged
<1>5. FlagsMatchPhase'
  <2>1. \A v \in Threads : IsFlagged(v)' <=> IsFlagged(v) \/ v = u
    BY <1>3, HomeFacts DEF CoreInv, IsFlagged, CoreTypeOK
  <2> QED
    BY <2>1 DEF CoreInv, FlagsMatchPhase, FlaggedHeaps, CoreTypeOK
<1>6. \A j \in Isolates : j # i => Pending(j)' = Pending(j) /\ running'[j] = running[j]
  BY <1>3 DEF Pending, CoreInv, CoreTypeOK
<1>7. CASE u \in parked
  <2>1. Pending(i)' = Pending(i) /\ running'[i] = running[i]
    BY <1>4, <1>7 DEF Pending, CoreInv, CoreTypeOK
  <2>2. CountsMatchPending'
    BY <1>6, <2>1 DEF CoreInv, CountsMatchPending
  <2> QED
    BY <1>1, <1>2, <1>5, <2>2 DEF CoreInv
<1>8. CASE u \notin parked
  <2>1. Pending(i)' = Pending(i) \cup {u} /\ u \notin Pending(i)
    BY <1>3, <1>4, <1>8 DEF Pending
  <2>2. Cardinality(Pending(i) \cup {u}) = Cardinality(Pending(i)) + 1
    BY <2>1, PendingIsFinite, FS_AddElement, Zenon DEF CoreInv
  <2>3. running'[i] = running[i] + 1 /\ running[i] \in Nat /\ stopped[i] \in Nat
    BY <1>8 DEF CoreInv, CoreTypeOK
  <2>4. Cardinality(Pending(i)) \in Nat
    BY PendingIsFinite DEF CoreInv
  <2>5. running'[i] = stopped'[i] + Cardinality(Pending(i)')
    BY <2>1, <2>2, <2>3, <2>4 DEF CoreInv, CountsMatchPending
  <2>6. CountsMatchPending'
    BY <1>6, <2>5 DEF CoreInv, CountsMatchPending
  <2> QED
    BY <1>1, <1>2, <1>5, <2>6 DEF CoreInv
<1> QED
  BY <1>7, <1>8

\* All flags are set: the isolate waits for the threads that were running.
LEMMA FlagsAreSetStep ==
  ASSUME CoreInv, NEW i \in Isolates, FlagsAreSet(i)
  PROVE  CoreInv'
<1> USE DEF FlagsAreSet
<1>1. CoreTypeOK'
  BY DEF CoreInv, CoreTypeOK, Phases
<1>2. ListsAndOwners'
  BY DEF CoreInv, ListsAndOwners, CoreTypeOK
<1>3. FlagsMatchPhase'
  <2>1. \A u \in Threads : IsFlagged(u)' <=> IsFlagged(u)
    BY HomeFacts DEF CoreInv, IsFlagged, CoreTypeOK
  <2> QED
    BY <2>1 DEF CoreInv, FlagsMatchPhase, FlaggedHeaps, CoreTypeOK
<1>4. \A j \in Isolates : Pending(j)' = Pending(j)
  BY DEF Pending
<1>5. CountsMatchPending'
  BY <1>4, SamePending DEF CoreInv, CoreTypeOK
<1> QED
  BY <1>1, <1>2, <1>3, <1>5 DEF CoreInv

\* WaitUntilRunningThreadsInSafepoint returns only when nobody is pending.
LEMMA ThreadsHaveStoppedStep ==
  ASSUME CoreInv, NEW i \in Isolates, ThreadsHaveStopped(i)
  PROVE  CoreInv'
<1> USE DEF ThreadsHaveStopped
<1>1. CoreTypeOK'
  BY DEF CoreInv, CoreTypeOK, Phases
<1>2. ListsAndOwners'
  BY DEF CoreInv, ListsAndOwners, CoreTypeOK
<1>3. FlagsMatchPhase'
  <2>1. \A u \in Threads : IsFlagged(u)' <=> IsFlagged(u)
    BY HomeFacts DEF CoreInv, IsFlagged, CoreTypeOK
  <2> QED
    BY <2>1 DEF CoreInv, FlagsMatchPhase, FlaggedHeaps, CoreTypeOK
<1>4. \A j \in Isolates : Pending(j)' = Pending(j)
  BY DEF Pending
<1>5. Cardinality(Pending(i)) \in Nat /\ stopped[i] \in Nat
      /\ running[i] = stopped[i] + Cardinality(Pending(i))
  BY PendingIsFinite DEF CoreInv, CountsMatchPending, CoreTypeOK
<1>6. Cardinality(Pending(i)) = 0
  BY <1>5
<1>7. Pending(i) = {}
  BY <1>6, PendingIsFinite DEF CoreInv
<1>8. CountsMatchPending'
  BY <1>4, <1>7, SamePending DEF CoreInv, CoreTypeOK
<1> QED
  BY <1>1, <1>2, <1>3, <1>8 DEF CoreInv

\* The scope ends: all flags are still set and are to be cleared.
LEMMA BeginClearingStep ==
  ASSUME CoreInv, NEW i \in Isolates, BeginClearing(i)
  PROVE  CoreInv'
<1> USE DEF BeginClearing
<1>1. CoreTypeOK'
  BY DEF CoreInv, CoreTypeOK, Phases, FlaggedHeaps
<1>2. ListsAndOwners'
  BY DEF CoreInv, ListsAndOwners, CoreTypeOK
<1>3. FlagsMatchPhase'
  <2>1. \A u \in Threads : IsFlagged(u)' <=> IsFlagged(u)
    BY HomeFacts DEF CoreInv, IsFlagged, CoreTypeOK, FlaggedHeaps
  <2> QED
    BY <2>1 DEF CoreInv, FlagsMatchPhase, FlaggedHeaps, CoreTypeOK
<1>4. \A j \in Isolates : Pending(j)' = Pending(j)
  BY DEF Pending
<1>5. CountsMatchPending'
  BY <1>4, SamePending DEF CoreInv, CoreTypeOK
<1> QED
  BY <1>1, <1>2, <1>3, <1>5 DEF CoreInv

\* One round of ClearSafepointRequestedFlags.
LEMMA ClearFlagStep ==
  ASSUME CoreInv, NEW i \in Isolates, NEW u \in Threads, ClearFlag(i, u)
  PROVE  CoreInv'
<1> USE DEF ClearFlag
<1>1. CoreTypeOK'
  BY DEF CoreInv, CoreTypeOK
<1>2. ListsAndOwners'
  BY DEF CoreInv, ListsAndOwners
<1>3. u \in registered /\ Home(u) = i /\ u # owner[i]
  BY DEF CoreInv, FlagsMatchPhase, FlaggedHeaps
<1>4. Pending(i) = {} /\ u \in requested /\ u \notin counting
  BY <1>3, Zenon DEF CoreInv, FlagsMatchPhase, IsFlagged, CountsMatchPending, Pending
<1>5. FlagsMatchPhase'
  <2>1. \A v \in Threads : IsFlagged(v)' <=> IsFlagged(v) /\ v # u
    BY <1>3, HomeFacts DEF CoreInv, IsFlagged, CoreTypeOK
  <2> QED
    BY <1>4, <2>1 DEF CoreInv, FlagsMatchPhase, FlaggedHeaps, CoreTypeOK
<1>6. \A j \in Isolates : Pending(j)' = Pending(j)
  BY <1>3, <1>4 DEF Pending
<1>7. CountsMatchPending'
  BY <1>6, SamePending
<1> QED
  BY <1>1, <1>2, <1>5, <1>7 DEF CoreInv

\* The barrier is disarmed: no flag is left and the counts are reset.
LEMMA DisarmStep ==
  ASSUME CoreInv, NEW i \in Isolates, Disarm(i)
  PROVE  CoreInv'
<1> USE DEF Disarm
<1>1. CoreTypeOK'
  BY DEF CoreInv, CoreTypeOK, Phases
<1>2. ListsAndOwners'
  BY DEF CoreInv, ListsAndOwners, CoreTypeOK
<1>3. FlagsMatchPhase'
  <2>1. \A u \in Threads : IsFlagged(u)' <=> IsFlagged(u)
    BY HomeFacts DEF CoreInv, IsFlagged, CoreTypeOK
  <2> QED
    BY <2>1 DEF CoreInv, FlagsMatchPhase, FlaggedHeaps, CoreTypeOK
<1>4. \A j \in Isolates : Pending(j)' = Pending(j)
  BY DEF Pending
<1>5. Pending(i) = {}
  BY DEF CoreInv, CountsMatchPending
<1>6. Cardinality(Pending(i)') = 0
  BY <1>4, <1>5, FS_EmptySet
<1>7. /\ stopped'[i] = 0 /\ running'[i] = 0 /\ phase'[i] = "Free"
      /\ \A j \in Isolates : j # i => /\ stopped'[j] = stopped[j]
                                     /\ running'[j] = running[j]
                                     /\ phase'[j] = phase[j]
  BY DEF CoreInv, CoreTypeOK
<1>8. CountsMatchPending'
  BY <1>4, <1>6, <1>7 DEF CoreInv, CountsMatchPending
<1> QED
  BY <1>1, <1>2, <1>3, <1>8 DEF CoreInv

-----------------------------------------------------------------------------
\* Every step of the protocol keeps CoreInv.
LEMMA CoreNextInv == CoreInv /\ [CoreNext]_coreVars => CoreInv'
<1> SUFFICES ASSUME CoreInv, [CoreNext]_coreVars PROVE CoreInv'
  OBVIOUS
<1>1. ASSUME NEW t \in Threads, ThreadStep(t) PROVE CoreInv'
  BY <1>1, ParkStep, ParkOnRequestStep, CountStoppedStep, UnparkStep DEF ThreadStep
<1>2. ASSUME NEW t \in Threads, NEW i \in Isolates, LockHeaps(t, i) PROVE CoreInv'
  BY <1>2, LockHeapsStep
<1>3. ASSUME NEW t \in Isolates, NEW i \in Isolates, Arm(t, i) PROVE CoreInv'
  BY <1>3, ArmStep
<1>4. ASSUME NEW w \in Workers, ListStep(w) PROVE CoreInv'
  BY <1>4, ListStepInv
<1>5. ASSUME NEW i \in Isolates, NEW u \in Threads, FlagStep(i, u) PROVE CoreInv'
  BY <1>5, SetFlagStep, ClearFlagStep DEF FlagStep
<1>6. ASSUME NEW i \in Isolates, IsolateStep(i) PROVE CoreInv'
  BY <1>6, UnlockHeapsStep, FlagsAreSetStep, ThreadsHaveStoppedStep,
     BeginClearingStep, DisarmStep DEF IsolateStep
<1>7. CASE UNCHANGED coreVars
  BY <1>7 DEF coreVars, CoreInv, CoreTypeOK, ListsAndOwners, FlagsMatchPhase,
     IsFlagged, FlaggedHeaps, CountsMatchPending, Pending
<1> QED
  BY <1>1, <1>2, <1>3, <1>4, <1>5, <1>6, <1>7 DEF CoreNext

\* CoreInv holds always: the flags are the initiator's, and the count of the
\* barrier accounts for every thread that was running when it was flagged.
THEOREM CoreInvariant == CoreSpec => []CoreInv
<1>1. CoreInit => CoreInv
  BY CoreInitInv
<1>2. CoreInv /\ [CoreNext]_coreVars => CoreInv'
  BY CoreNextInv
<1> QED
  BY <1>1, <1>2, PTL DEF CoreSpec

\* In a stopped isolate every thread but the initiator is parked.
LEMMA InvStoppedMeansParked ==
  ASSUME CoreInv, NEW i \in Isolates, Pending(i) = {},
         phase[i] \in {"Waiting", "Stopped"}, NEW u \in Threads, Home(u) = i,
         u # owner[i]
  PROVE  u \in parked
<1>1. CASE u \notin registered
  BY <1>1 DEF CoreInv, ListsAndOwners
<1>2. CASE u \in registered
  <2>1. u \in requested
    BY <1>2 DEF CoreInv, FlagsMatchPhase, IsFlagged
  <2> QED
    BY <2>1 DEF Pending
<1> QED
  BY <1>1, <1>2

\* When WaitUntilRunningThreadsInSafepoint has returned to the initiator, and
\* until it clears the first flag, every other thread of the isolate is parked:
\* for every number of isolates, background threads and concurrent initiators.
THEOREM CoreStopsWorld == CoreSpec => []StoppedMeansParked
<1>1. CoreInv => StoppedMeansParked
  BY InvStoppedMeansParked DEF StoppedMeansParked, CoreInv, CountsMatchPending
<1> QED
  BY <1>1, CoreInvariant, PTL

-----------------------------------------------------------------------------
\* The initiator that has stopped an isolate, as StopTheWorld sees it.
StoppedBy == [i \in Isolates |-> IF phase[i] = "Stopped" THEN owner[i] ELSE Nobody]

\* Park and ParkSlowPath give up access, and an initiator does not park while it
\* has an isolate stopped.
LEMMA ParkLeaves ==
  ASSUME CoreInv, NEW t \in Threads, Park(t) \/ ParkOnRequest(t)
  PROVE  World!Leave(t)
<1>1. \A i \in Isolates : StoppedBy[i] # t
  BY HomeFacts DEF Park, ParkOnRequest, StoppedBy
<1>2. Threads \ parked' = (Threads \ parked) \ {t}
  BY DEF Park, ParkOnRequest
<1>3. StoppedBy' = StoppedBy
  BY DEF Park, ParkOnRequest, StoppedBy
<1> QED
  BY <1>1, <1>2, <1>3 DEF World!Leave, StoppedBy

\* Unpark gains access only while the isolate is not stopped.
LEMMA UnparkEnters ==
  ASSUME CoreInv, NEW t \in Threads, Unpark(t)
  PROVE  World!Enter(t)
<1>1. Home(t) \in Isolates
  BY HomeFacts
<1>2. phase[Home(t)] # "Stopped"
  BY <1>1 DEF Unpark, CoreInv, FlagsMatchPhase, IsFlagged, ListsAndOwners
<1>3. StoppedBy[Home(t)] = Nobody
  BY <1>1, <1>2 DEF StoppedBy
<1>4. Threads \ parked' = (Threads \ parked) \cup {t}
  BY DEF Unpark
<1>5. StoppedBy' = StoppedBy
  BY DEF Unpark, StoppedBy
<1> QED
  BY <1>3, <1>4, <1>5 DEF World!Enter, StoppedBy

\* The wait ends: the initiator stops the isolate, in which nobody else runs.
LEMMA ThreadsHaveStoppedStops ==
  ASSUME CoreInv, CoreInv', NEW i \in Isolates, ThreadsHaveStopped(i)
  PROVE  \E t \in Threads : World!Stop(t)
<1>1. PICK t \in Threads : t = owner[i]
  BY HomeFacts DEF ThreadsHaveStopped, CoreInv, ListsAndOwners
<1>2. \A j \in {i} : StoppedBy[j] = Nobody
  BY DEF ThreadsHaveStopped, StoppedBy
<1>3. Pending(i) = {}
  BY Zenon DEF ThreadsHaveStopped, CoreInv, CoreTypeOK, CountsMatchPending, Pending
<1>4. \A u \in Threads \ parked : Home(u) \in {i} => u = t
  BY <1>1, <1>3, InvStoppedMeansParked DEF ThreadsHaveStopped
<1>5. StoppedBy' = [j \in Isolates |-> IF j \in {i} THEN t ELSE StoppedBy[j]]
  BY <1>1 DEF ThreadsHaveStopped, StoppedBy, CoreInv, CoreTypeOK
<1>6. Threads \ parked' = Threads \ parked
  BY DEF ThreadsHaveStopped
<1>7. {i} \in SUBSET Isolates
  OBVIOUS
<1>8. World!Stop(t)
  BY <1>2, <1>4, <1>5, <1>6, <1>7, Zenon DEF World!Stop, StoppedBy
<1> QED
  BY Zenon, <1>8

\* The scope begins to end: the initiator resumes the isolate.
LEMMA BeginClearingResumes ==
  ASSUME CoreInv, NEW i \in Isolates, BeginClearing(i)
  PROVE  \E t \in Threads : World!Resume(t)
<1>1. PICK t \in Threads : t = owner[i]
  BY HomeFacts DEF BeginClearing, CoreInv, ListsAndOwners
<1>2. \A j \in {i} : StoppedBy[j] = t
  BY <1>1 DEF BeginClearing, StoppedBy
<1>3. StoppedBy' = [j \in Isolates |-> IF j \in {i} THEN Nobody ELSE StoppedBy[j]]
  BY DEF BeginClearing, StoppedBy, CoreInv, CoreTypeOK
<1>4. Threads \ parked' = Threads \ parked
  BY DEF BeginClearing
<1>5. {i} \in SUBSET Isolates
  OBVIOUS
<1>6. World!Resume(t)
  BY <1>2, <1>3, <1>4, <1>5, Zenon DEF World!Resume, StoppedBy
<1> QED
  BY Zenon, <1>6

\* A step that changes no Parked bit and stops or resumes no isolate.
LEMMA OtherStepsStutter ==
  ASSUME CoreInv, UNCHANGED parked,
         \A i \in Isolates : \/ phase'[i] = phase[i] /\ owner'[i] = owner[i]
                             \/ phase[i] # "Stopped" /\ phase'[i] # "Stopped"
  PROVE  UNCHANGED World!worldVars
BY DEF World!worldVars

\* The locks, the list and the flags do not show in StopTheWorld.
LEMMA HiddenSteps ==
  ASSUME CoreInv
  PROVE  /\ \A t \in Threads : CountStopped(t) => UNCHANGED World!worldVars
         /\ \A t \in Threads, i \in Isolates :
              LockHeaps(t, i) => UNCHANGED World!worldVars
         /\ \A t, i \in Isolates : Arm(t, i) => UNCHANGED World!worldVars
         /\ \A w \in Workers : ListStep(w) => UNCHANGED World!worldVars
         /\ \A i \in Isolates, u \in Threads :
              FlagStep(i, u) => UNCHANGED World!worldVars
         /\ \A i \in Isolates : UnlockHeaps(i) \/ FlagsAreSet(i) \/ Disarm(i) =>
              UNCHANGED World!worldVars
<1> USE DEF CoreInv, CoreTypeOK
<1>1. ASSUME NEW t \in Threads, CountStopped(t) PROVE UNCHANGED World!worldVars
  BY <1>1, OtherStepsStutter DEF CountStopped
<1>2. ASSUME NEW t \in Threads, NEW i \in Isolates, LockHeaps(t, i)
      PROVE  UNCHANGED World!worldVars
  <2>1. phase[i] = "Free"
    BY <1>2, HomeFacts DEF LockHeaps, ListsAndOwners
  <2> QED
    BY <1>2, <2>1, OtherStepsStutter DEF LockHeaps
<1>3. ASSUME NEW t \in Isolates, NEW i \in Isolates, Arm(t, i)
      PROVE  UNCHANGED World!worldVars
  BY <1>3, OtherStepsStutter DEF Arm
<1>4. ASSUME NEW w \in Workers, ListStep(w) PROVE UNCHANGED World!worldVars
  <2>1. phase[Home(w)] = "Free" /\ Home(w) \in Isolates
    BY <1>4, HomeFacts DEF ListStep, AddLocalHeap, RemoveLocalHeap, ListsAndOwners
  <2> QED
    BY <1>4, <2>1, OtherStepsStutter DEF ListStep, AddLocalHeap, RemoveLocalHeap
<1>5. ASSUME NEW i \in Isolates, NEW u \in Threads, FlagStep(i, u)
      PROVE  UNCHANGED World!worldVars
  BY <1>5, OtherStepsStutter DEF FlagStep, SetFlag, ClearFlag
<1>6. ASSUME NEW i \in Isolates, UnlockHeaps(i) \/ FlagsAreSet(i) \/ Disarm(i)
      PROVE  UNCHANGED World!worldVars
  BY <1>6, OtherStepsStutter DEF UnlockHeaps, FlagsAreSet, Disarm
<1> QED
  BY <1>1, <1>2, <1>3, <1>4, <1>5, <1>6

\* Every step is a step of StopTheWorld or changes nothing it sees.
LEMMA StepImplementsWorld ==
  CoreInv /\ CoreInv' /\ [CoreNext]_coreVars => [World!WorldNext]_World!worldVars
<1> SUFFICES ASSUME CoreInv, CoreInv', [CoreNext]_coreVars
             PROVE  [World!WorldNext]_World!worldVars
  OBVIOUS
<1>1. ASSUME NEW t \in Threads, ThreadStep(t) PROVE [World!WorldNext]_World!worldVars
  BY <1>1, ParkLeaves, UnparkEnters, HiddenSteps DEF ThreadStep, World!WorldNext
<1>2. ASSUME NEW i \in Isolates, IsolateStep(i) PROVE [World!WorldNext]_World!worldVars
  <2>1. CASE ThreadsHaveStopped(i)
    <3>1. PICK t \in Threads : World!Stop(t)
      BY Zenon, <2>1, ThreadsHaveStoppedStops
    <3> QED
      BY <3>1 DEF World!WorldNext
  <2>2. CASE BeginClearing(i)
    <3>1. PICK t \in Threads : World!Resume(t)
      BY Zenon, <2>2, BeginClearingResumes
    <3> QED
      BY <3>1 DEF World!WorldNext
  <2>3. CASE UnlockHeaps(i) \/ FlagsAreSet(i) \/ Disarm(i)
    BY Zenon, <2>3, HiddenSteps
  <2> QED
    BY Zenon, <1>2, <2>1, <2>2, <2>3 DEF IsolateStep
<1>3. CASE UNCHANGED coreVars
  BY <1>3 DEF coreVars, World!worldVars
<1> QED
  BY <1>1, <1>2, <1>3, HiddenSteps DEF CoreNext

\* The state words, the barriers and the mutexes implement the readers-writer
\* discipline of StopTheWorld.
THEOREM CoreImplementsWorld == CoreSpec => ImplementsStopTheWorld
<1>1. CoreInit => World!WorldInit
  BY ThreadsAssumption DEF CoreInit, World!WorldInit, Threads
<1>2. CoreInv /\ CoreInv' /\ [CoreNext]_coreVars => [World!WorldNext]_World!worldVars
  BY StepImplementsWorld
<1> QED
  BY <1>1, <1>2, CoreInvariant, PTL
     DEF CoreSpec, ImplementsStopTheWorld, World!WorldSpec
=============================================================================

----------------------- MODULE CompileDispatcherProofs -----------------------
(***************************************************************************)
(* The optimizing compile dispatcher, for any number of workers, functions *)
(* and jobs and any capacity of the ring: every job is in one place, what  *)
(* is marked as in progress has a job, break points are respected, and the *)
(* job handles are used as their contract allows.                          *)
(***************************************************************************)
EXTENDS CompileDispatcher, TLAPS

CallKinds == Calls \cup {"Queue", "Break", "None"}
InTask == {"Next", "Compile", "Request"}
MainLabels == {"Run", "SetTieringState", "Install", "FlushInput", "Await", "FlushOutput",
               "Stopped"} \cup InTask

\* The types of the variables that hold jobs.
DispatcherTypeOK ==
  /\ input_queue \in [0..(Capacity - 1) -> Nat \cup {Null}]
  /\ input_queue_shift \in 0..(Capacity - 1) /\ input_queue_length \in 0..Capacity
  /\ output_queue \in Seq(Nat) /\ closure \in Seq(Functions)
  /\ compiling \in [Threads -> Nat \cup {Null}]

\* The types of the others, and what the label of the main thread says of its
\* call and of the handle.
ControlOK ==
  /\ pc \in [Threads -> MainLabels \cup {"Idle"}]
  /\ pc[Main] \in MainLabels /\ \A w \in Workers : pc[w] \in InTask \cup {"Idle"}
  /\ call \in [kind : CallKinds, function : Functions \cup {Null}]
  /\ in_progress \subseteq Functions /\ break_info \subseteq Functions
  /\ handle \in {"Valid", "Joined", "Gone"}
  /\ pc[Main] = "SetTieringState" => call.kind = "Queue" /\ call.function \in Functions
  /\ pc[Main] \in {"Run", "Install", "Stopped"} => call = NoCall
  /\ pc[Main] \in {"FlushInput", "FlushOutput"} =>
       call.kind \in {"FlushDontBlock", "FlushBlock", "Stop", "Break"}
  /\ pc[Main] \in InTask \cup {"Await"} =>
       call.kind \in {"FlushBlock", "Stop", "Break", "Await"}
  /\ handle = "Joined" => pc[Main] = "Await"
  /\ handle = "Gone" => pc[Main] = "Stopped"

\* The threads that have a job in their hands are those that compile.
HandsMatch == \A t \in Threads : compiling[t] # Null <=> pc[t] = "Compile"

\* Nothing is queued and nobody runs the task.
Quiescent == input_queue_length = 0 /\ NobodyCompiles

\* When a call that waits for the workers empties the output queue, and after
\* Stop, the output queue has the last jobs.
WaitedFor ==
  /\ handle = "Joined" => Quiescent
  /\ pc[Main] = "FlushOutput" /\ Blocks(call.kind) => Quiescent
  /\ pc[Main] = "Stopped" => Quiescent /\ output_queue = <<>>

\* The function that is being queued has its job, wherever that is by now.
QueuedHasJob ==
  pc[Main] = "SetTieringState" => \E j \in Live : closure[j] = call.function

\* A job of a function with break points is left only during the debugger's call.
BreakIsUnderWay ==
  \A j \in Live :
    closure[j] \in break_info => call = [kind |-> "Break", function |-> closure[j]]

\* The inductive invariant.
DispatcherInv ==
  /\ DispatcherTypeOK /\ ControlOK /\ HandsMatch /\ WaitedFor
  /\ JobsAreOwnedOnce /\ InProgressHasJob /\ QueuedHasJob
  /\ BreakPointsAreRespected /\ BreakIsUnderWay

-----------------------------------------------------------------------------
(* The ring.                                                               *)

\* An index wraps at most once (InputQueueIndex).
LEMMA RingIndex ==
  ASSUME NEW s \in 0..(Capacity - 1), NEW i \in 0..Capacity
  PROVE  /\ (i + s) % Capacity = IF i + s < Capacity THEN i + s ELSE i + s - Capacity
         /\ (i + s) % Capacity \in 0..(Capacity - 1)
<1>1. Capacity \in Nat \ {0}
  BY DispatcherAssumption
<1> DEFINE c == Capacity
           n == i + s
<1>2. n \in Nat /\ c \in Nat \ {0} /\ n < 2 * c
  BY <1>1
<1> HIDE DEF c, n
<1>3. n % c = IF n < c THEN n ELSE n - c
  BY <1>2
<1> QED BY <1>1, <1>3 DEF c, n

\* What the ring holds when the dispatcher is in order.
LEMMA InputFacts ==
  ASSUME DispatcherTypeOK
  PROVE  /\ DOMAIN Input = 1..input_queue_length
         /\ \A i \in 1..input_queue_length :
              Input[i] = input_queue[InputQueueIndex(i - 1)]
         /\ \A j : j \in Range(Input) <=> \E i \in 1..input_queue_length : Input[i] = j
         /\ input_queue_length = 0 => Range(Input) = {}
BY DEF Input, Range, DispatcherTypeOK

\* NextInput takes the front of the ring.
LEMMA RingPops ==
  ASSUME DispatcherTypeOK, input_queue_length # 0,
         input_queue_shift' = InputQueueIndex(1),
         input_queue_length' = input_queue_length - 1, UNCHANGED input_queue
  PROVE  /\ input_queue_shift' \in 0..(Capacity - 1)
         /\ input_queue_length' \in 0..Capacity
         /\ Input[1] = input_queue[InputQueueIndex(0)]
         /\ \A i \in 1..input_queue_length' : Input'[i] = Input[i + 1]
         /\ DOMAIN Input' = 1..input_queue_length'
<1>0. Capacity \in Nat \ {0}
  BY DispatcherAssumption
<1>1. input_queue_shift' \in 0..(Capacity - 1)
  BY <1>0, RingIndex DEF DispatcherTypeOK, InputQueueIndex
<1>2. input_queue_length' \in 0..Capacity /\ input_queue_length \in 1..Capacity
  BY <1>0 DEF DispatcherTypeOK
<1>3. ASSUME NEW i \in 1..input_queue_length'
      PROVE  Input'[i] = Input[i + 1]
  <2>1. i - 1 \in 0..Capacity /\ i \in 0..Capacity /\ 1 \in 0..Capacity
    BY <1>0, <1>2
  <2>2. (i - 1 + input_queue_shift') % Capacity = (i + input_queue_shift) % Capacity
    <3>1. input_queue_shift \in 0..(Capacity - 1)
      BY DEF DispatcherTypeOK
    <3>2. input_queue_shift' = (1 + input_queue_shift) % Capacity
      BY DEF InputQueueIndex
    <3>3. input_queue_shift' = IF 1 + input_queue_shift < Capacity
                               THEN 1 + input_queue_shift
                               ELSE 1 + input_queue_shift - Capacity
      BY <2>1, <3>1, <3>2, RingIndex
    <3>4. (i - 1 + input_queue_shift') % Capacity =
            IF i - 1 + input_queue_shift' < Capacity THEN i - 1 + input_queue_shift'
            ELSE i - 1 + input_queue_shift' - Capacity
      BY <1>1, <2>1, RingIndex
    <3>5. (i + input_queue_shift) % Capacity =
            IF i + input_queue_shift < Capacity THEN i + input_queue_shift
            ELSE i + input_queue_shift - Capacity
      BY <2>1, <3>1, RingIndex
    <3>6. i < Capacity
      BY <1>0, <1>2
    <3> QED BY <1>0, <2>1, <3>1, <3>3, <3>4, <3>5, <3>6
  <2>3. Input'[i] = input_queue[(i - 1 + input_queue_shift') % Capacity]
    BY <1>3 DEF Input, InputQueueIndex
  <2>4. i + 1 \in 1..input_queue_length /\ (i + 1) - 1 = i
    BY <1>2
  <2>5. Input[i + 1] = input_queue[(i + input_queue_shift) % Capacity]
    BY <2>4 DEF Input, InputQueueIndex
  <2> QED BY <2>2, <2>3, <2>5
<1>4. Input[1] = input_queue[InputQueueIndex(0)]
  BY <1>2 DEF Input
<1> QED BY <1>1, <1>2, <1>3, <1>4 DEF Input

\* TryQueueForOptimization stores behind the last job and over none.
LEMMA RingPushes ==
  ASSUME DispatcherTypeOK, IsQueueAvailable, NEW j \in Nat,
         input_queue' = [input_queue EXCEPT ![InputQueueIndex(input_queue_length)] = j],
         input_queue_length' = input_queue_length + 1, UNCHANGED input_queue_shift
  PROVE  /\ input_queue' \in [0..(Capacity - 1) -> Nat \cup {Null}]
         /\ input_queue_length' \in 0..Capacity
         /\ DOMAIN Input' = 1..input_queue_length'
         /\ \A i \in 1..input_queue_length : Input'[i] = Input[i]
         /\ Input'[input_queue_length'] = j
<1>0. Capacity \in Nat \ {0}
  BY DispatcherAssumption
<1> DEFINE at == InputQueueIndex(input_queue_length)
<1>1. /\ input_queue_shift \in 0..(Capacity - 1) /\ input_queue_length \in 0..Capacity
      /\ input_queue_length < Capacity
  BY DEF DispatcherTypeOK, IsQueueAvailable
<1>2. at \in 0..(Capacity - 1)
  BY <1>1, RingIndex DEF InputQueueIndex
<1>3. input_queue' \in [0..(Capacity - 1) -> Nat \cup {Null}] /\ input_queue'[at] = j
  BY <1>2 DEF DispatcherTypeOK
<1>4. ASSUME NEW i \in 1..input_queue_length
      PROVE  Input'[i] = Input[i]
  <2>1. i - 1 \in 0..Capacity /\ i - 1 < input_queue_length /\ i \in 1..(input_queue_length + 1)
    BY <1>0, <1>1
  <2>2. InputQueueIndex(i - 1) # at /\ InputQueueIndex(i - 1) \in 0..(Capacity - 1)
    <3>1. (i - 1 + input_queue_shift) % Capacity =
            IF i - 1 + input_queue_shift < Capacity THEN i - 1 + input_queue_shift
            ELSE i - 1 + input_queue_shift - Capacity
      BY <1>1, <2>1, RingIndex
    <3>2. at = IF input_queue_length + input_queue_shift < Capacity
               THEN input_queue_length + input_queue_shift
               ELSE input_queue_length + input_queue_shift - Capacity
      BY <1>1, RingIndex DEF InputQueueIndex
    <3>3. (i - 1 + input_queue_shift) % Capacity \in 0..(Capacity - 1)
      BY <1>1, <2>1, RingIndex
    <3> HIDE DEF at
    <3>4. (i - 1 + input_queue_shift) % Capacity # at
      BY <1>0, <1>1, <2>1, <3>1, <3>2
    <3> QED BY <3>3, <3>4 DEF InputQueueIndex
  <2>3. Input'[i] = input_queue'[InputQueueIndex(i - 1)]
    BY <2>1 DEF Input, InputQueueIndex
  <2>4. Input[i] = input_queue[InputQueueIndex(i - 1)]
    BY DEF Input
  <2>5. input_queue'[InputQueueIndex(i - 1)] = input_queue[InputQueueIndex(i - 1)]
    BY <1>2, <2>2 DEF DispatcherTypeOK
  <2> QED BY <2>3, <2>4, <2>5
<1>5. Input'[input_queue_length'] = j
  <2>1. input_queue_length' \in 1..input_queue_length' /\ input_queue_length' - 1 = input_queue_length
    BY <1>0, <1>1
  <2>2. Input'[input_queue_length'] = input_queue'[at]
    BY <2>1 DEF Input, InputQueueIndex
  <2> QED BY <1>3, <2>2
<1>6. input_queue_length' \in 0..Capacity
  BY <1>0, <1>1
<1> QED BY <1>3, <1>4, <1>5, <1>6 DEF Input

-----------------------------------------------------------------------------
(* Where the jobs are.                                                     *)

\* The output queue's push and pop, as a set of jobs.
LEMMA OutputFacts ==
  ASSUME NEW q \in Seq(Nat)
  PROVE  /\ \A j \in Nat :
              /\ Append(q, j) \in Seq(Nat)
              /\ Range(Append(q, j)) = Range(q) \cup {j}
              /\ j \notin Range(q) /\ IsInjective(q) => IsInjective(Append(q, j))
         /\ q # <<>> =>
              /\ Tail(q) \in Seq(Nat) /\ Head(q) \in Range(q) /\ Head(q) \in Nat
              /\ IsInjective(q) =>
                   /\ Range(Tail(q)) = Range(q) \ {Head(q)}
                   /\ IsInjective(Tail(q))
<1>1. ASSUME NEW j \in Nat
      PROVE  /\ Append(q, j) \in Seq(Nat)
             /\ Range(Append(q, j)) = Range(q) \cup {j}
             /\ j \notin Range(q) /\ IsInjective(q) => IsInjective(Append(q, j))
  <2>1. /\ DOMAIN Append(q, j) = 1..(Len(q) + 1) /\ Append(q, j)[Len(q) + 1] = j
        /\ \A i \in 1..Len(q) : Append(q, j)[i] = q[i]
        /\ DOMAIN q = 1..Len(q) /\ Len(q) \in Nat
    OBVIOUS
  <2>2. \A i \in 1..(Len(q) + 1) : i \in 1..Len(q) \/ i = Len(q) + 1
    BY <2>1
  <2>3. Len(q) + 1 \in 1..(Len(q) + 1) /\ 1..Len(q) \subseteq 1..(Len(q) + 1)
    BY <2>1
  <2>4. Range(Append(q, j)) = Range(q) \cup {j}
    BY <2>1, <2>2, <2>3 DEF Range
  <2>5. ASSUME j \notin Range(q), IsInjective(q)
        PROVE  IsInjective(Append(q, j))
    BY <2>1, <2>2, <2>3, <2>5 DEF Range, IsInjective
  <2> QED BY <2>4, <2>5
<1>2. ASSUME q # <<>>
      PROVE  /\ Tail(q) \in Seq(Nat) /\ Head(q) \in Range(q) /\ Head(q) \in Nat
             /\ IsInjective(q) =>
                  /\ Range(Tail(q)) = Range(q) \ {Head(q)}
                  /\ IsInjective(Tail(q))
  <2>1. /\ Tail(q) \in Seq(Nat) /\ Len(q) \in Nat \ {0} /\ DOMAIN q = 1..Len(q)
        /\ Head(q) = q[1] /\ Head(q) \in Nat
        /\ DOMAIN Tail(q) = 1..(Len(q) - 1)
        /\ \A i \in 1..(Len(q) - 1) : Tail(q)[i] = q[i + 1]
    BY <1>2
  <2>2. 1 \in 1..Len(q)
    BY <2>1
  <2>3. \A i \in 1..(Len(q) - 1) : i + 1 \in 1..Len(q) /\ i + 1 # 1
    BY <2>1
  <2>4. \A i \in 1..Len(q) : i # 1 => i - 1 \in 1..(Len(q) - 1) /\ (i - 1) + 1 = i
    BY <2>1
  <2>5. Head(q) \in Range(q)
    BY <2>1, <2>2 DEF Range
  <2>6. ASSUME IsInjective(q)
        PROVE  Range(Tail(q)) = Range(q) \ {Head(q)} /\ IsInjective(Tail(q))
    <3>1. \A i, k \in 1..Len(q) : q[i] = q[k] => i = k
      BY <2>1, <2>6 DEF IsInjective
    <3>2. ASSUME NEW x \in Range(Tail(q))
          PROVE  x \in Range(q) /\ x # Head(q)
      <4>1. PICK i \in 1..(Len(q) - 1) : x = Tail(q)[i]
        BY <2>1, <3>2 DEF Range
      <4>2. x = q[i + 1] /\ i + 1 \in 1..Len(q) /\ i + 1 # 1
        BY <2>1, <2>3, <4>1
      <4> QED BY <2>1, <2>2, <3>1, <4>2 DEF Range
    <3>3. ASSUME NEW x \in Range(q), x # Head(q)
          PROVE  x \in Range(Tail(q))
      <4>1. PICK i \in 1..Len(q) : x = q[i]
        BY <2>1, <3>3 DEF Range
      <4>2. i - 1 \in 1..(Len(q) - 1) /\ (i - 1) + 1 = i
        BY <2>1, <2>4, <3>3, <4>1
      <4>3. Tail(q)[i - 1] = x
        BY <2>1, <4>1, <4>2
      <4> QED BY <2>1, <4>2, <4>3, Zenon DEF Range
    <3>4. ASSUME NEW i \in 1..(Len(q) - 1), NEW k \in 1..(Len(q) - 1),
                 Tail(q)[i] = Tail(q)[k]
          PROVE  i = k
      <4>1. i + 1 = k + 1
        BY <2>1, <2>3, <3>1, <3>4
      <4> QED BY <4>1
    <3>5. IsInjective(Tail(q))
      BY <2>1, <3>4, Zenon DEF IsInjective
    <3> QED BY <3>2, <3>3, <3>5
  <2> QED BY <2>1, <2>5, <2>6
<1> QED BY <1>1, <1>2

placeVars == <<inputVars, output_queue, closure, ended, compiling>>

\* A step that moves no job leaves every place as it is.
LEMMA NoJobMoves ==
  ASSUME UNCHANGED placeVars
  PROVE  /\ Input' = Input /\ Taken' = Taken /\ Live' = Live /\ closure' = closure
         /\ Range(output_queue)' = Range(output_queue) /\ ended' = ended
BY DEF placeVars, inputVars, Input, InputQueueIndex, Taken, Live, Range

\* A thread takes the front of the ring.
LEMMA TakeMoves ==
  ASSUME DispatcherInv, NEW t \in Threads, NextInput(t), input_queue_length # 0
  PROVE  /\ \A i, j \in DOMAIN Input' : i < j => Input'[i] < Input'[j]
         /\ \E h \in Range(Input) :
              /\ h \in Nat /\ h # Null
              /\ compiling' = [compiling EXCEPT ![t] = h]
              /\ Range(Input)' = Range(Input) \ {h} /\ Taken' = Taken \cup {h}
         /\ input_queue_shift' \in 0..(Capacity - 1)
         /\ input_queue_length' \in 0..Capacity
<1> DEFINE h == Input[1]
<1> USE DEF DispatcherInv
<1>1. /\ input_queue_shift' = InputQueueIndex(1) /\ UNCHANGED input_queue
      /\ input_queue_length' = input_queue_length - 1 /\ pc[t] = "Next"
      /\ compiling' = [compiling EXCEPT ![t] = input_queue[InputQueueIndex(0)]]
  BY DEF NextInput
<1>2. /\ input_queue_shift' \in 0..(Capacity - 1) /\ input_queue_length' \in 0..Capacity
      /\ h = input_queue[InputQueueIndex(0)]
      /\ \A i \in 1..input_queue_length' : Input'[i] = Input[i + 1]
      /\ DOMAIN Input' = 1..input_queue_length'
  BY <1>1, RingPops
<1>3. input_queue_length \in Nat \ {0} /\ DOMAIN Input = 1..input_queue_length
  BY DispatcherAssumption DEF DispatcherTypeOK, Input
<1>4. h \in Range(Input)
  BY <1>3 DEF Range
<1>5. h \in Nat /\ h # Null
  BY <1>4, DispatcherAssumption DEF JobsAreOwnedOnce, Live, DispatcherTypeOK
<1>6. \A i, j \in 1..input_queue_length : i < j => Input[i] < Input[j]
  BY <1>3 DEF JobsAreOwnedOnce
<1>7. \A i \in 1..input_queue_length : Input[i] \in Nat
  <2>1. \A i \in 1..input_queue_length : Input[i] \in Range(Input)
    BY <1>3 DEF Range
  <2>2. Range(Input) \subseteq Nat
    BY DEF JobsAreOwnedOnce, Live, DispatcherTypeOK
  <2> QED BY <2>1, <2>2
<1>8. ASSUME NEW i \in DOMAIN Input', NEW j \in DOMAIN Input', i < j
      PROVE  Input'[i] < Input'[j]
  <2>1. i + 1 \in 1..input_queue_length /\ j + 1 \in 1..input_queue_length /\ i + 1 < j + 1
    BY <1>1, <1>2, <1>3, <1>8
  <2> QED BY <1>2, <1>6, <2>1
<1>9. Range(Input)' = Range(Input) \ {h}
  <2>1. ASSUME NEW x \in Range(Input')
        PROVE  x \in Range(Input) \ {h}
    <3>1. PICK i \in 1..input_queue_length' : x = Input'[i]
      BY <1>2, <2>1 DEF Range
    <3>2. i + 1 \in 1..input_queue_length /\ 1 \in 1..input_queue_length /\ 1 < i + 1
      BY <1>1, <1>3, <3>1
    <3>3. x = Input[i + 1] /\ Input[1] < Input[i + 1]
      BY <1>2, <1>6, <3>1, <3>2
    <3>4. x # h
      BY <1>7, <3>2, <3>3
    <3> QED BY <1>3, <3>2, <3>3, <3>4 DEF Range
  <2>2. ASSUME NEW x \in Range(Input), x # h
        PROVE  x \in Range(Input')
    <3>1. PICK i \in 1..input_queue_length : x = Input[i]
      BY <1>3, <2>2 DEF Range
    <3>2. i - 1 \in 1..input_queue_length' /\ (i - 1) + 1 = i
      BY <1>1, <1>3, <2>2, <3>1
    <3>3. Input'[i - 1] = x
      BY <1>2, <3>1, <3>2
    <3> QED BY <1>2, <3>2, <3>3 DEF Range
  <2>3. Range(Input)' = Range(Input')
    BY DEF Range
  <2> QED BY <2>1, <2>2, <2>3
<1>10. Taken' = Taken \cup {h}
  <2>1. compiling' = [compiling EXCEPT ![t] = h] /\ compiling[t] = Null
    BY <1>1, <1>2 DEF HandsMatch
  <2>2. compiling'[t] = h /\ \A u \in Threads : u # t => compiling'[u] = compiling[u]
    BY <2>1 DEF DispatcherTypeOK
  <2> QED BY <1>5, <2>1, <2>2 DEF Taken
<1> QED BY <1>1, <1>2, <1>4, <1>5, <1>8, <1>9, <1>10, Zenon

\* A compiled job goes from the thread's hands into the output queue.
LEMMA CompileMoves ==
  ASSUME DispatcherInv, NEW t \in Threads, CompileNext(t)
  PROVE  LET h == compiling[t]
         IN  /\ h \in Taken /\ h \in Nat
             /\ Taken' = Taken \ {h}
             /\ \A u \in Threads : compiling'[u] = IF u = t THEN Null ELSE compiling[u]
             /\ compiling' \in [Threads -> Nat \cup {Null}]
             /\ output_queue' \in Seq(Nat) /\ IsInjective(output_queue')
             /\ Range(output_queue)' = Range(output_queue) \cup {h}
<1> DEFINE h == compiling[t]
<1> USE DEF DispatcherInv
<1>1. h # Null /\ h \in Nat /\ h \in Taken
  BY DEF CompileNext, HandsMatch, DispatcherTypeOK, Taken
<1>2. /\ \A u \in Threads : compiling'[u] = IF u = t THEN Null ELSE compiling[u]
      /\ compiling' \in [Threads -> Nat \cup {Null}]
  BY DEF CompileNext, DispatcherTypeOK
<1>3. Taken' = Taken \ {h}
  BY <1>1, <1>2 DEF Taken, JobsAreOwnedOnce
<1>4. output_queue' = Append(output_queue, h) /\ output_queue \in Seq(Nat)
  BY DEF CompileNext, DispatcherTypeOK
<1>5. h \notin Range(output_queue) /\ IsInjective(output_queue)
  BY <1>1 DEF JobsAreOwnedOnce
<1>6. /\ output_queue' \in Seq(Nat) /\ IsInjective(output_queue')
      /\ Range(output_queue') = Range(output_queue) \cup {h}
  BY <1>1, <1>4, <1>5, OutputFacts
<1> QED BY <1>1, <1>2, <1>3, <1>6, Zenon DEF Range

\* A function is queued: its job is the newest one.
LEMMA QueueMoves ==
  ASSUME DispatcherInv, NEW f \in Functions, QueueForOptimization(f)
  PROVE  LET n == Len(closure) + 1
         IN  /\ n \in Nat /\ closure' = Append(closure, f)
             /\ input_queue' \in [0..(Capacity - 1) -> Nat \cup {Null}]
             /\ input_queue_length' \in 0..Capacity
             /\ \A i, j \in DOMAIN Input' : i < j => Input'[i] < Input'[j]
             /\ Range(Input)' = Range(Input) \cup {n}
             /\ Taken' = Taken /\ Live' = Live \cup {n} /\ n \notin Live
<1> DEFINE n == Len(closure) + 1
<1> USE DEF DispatcherInv
<1>0. n \in Nat /\ \A j \in Live : j \in Nat /\ j < n
  BY DEF DispatcherTypeOK, JobsAreOwnedOnce
<1>1. /\ IsQueueAvailable /\ closure' = Append(closure, f)
      /\ input_queue' = [input_queue EXCEPT ![InputQueueIndex(input_queue_length)] = n]
      /\ input_queue_length' = input_queue_length + 1
      /\ UNCHANGED <<input_queue_shift, compiling, output_queue>>
  BY DEF QueueForOptimization
<1> HIDE DEF n
<1>2. /\ input_queue' \in [0..(Capacity - 1) -> Nat \cup {Null}]
      /\ input_queue_length' \in 0..Capacity
      /\ DOMAIN Input' = 1..input_queue_length'
      /\ \A i \in 1..input_queue_length : Input'[i] = Input[i]
      /\ Input'[input_queue_length'] = n
  BY <1>0, <1>1, RingPushes, Zenon
<1>3. input_queue_length \in Nat /\ DOMAIN Input = 1..input_queue_length
  BY DispatcherAssumption DEF DispatcherTypeOK, Input
<1>4. \A i \in 1..input_queue_length' : i \in 1..input_queue_length \/ i = input_queue_length'
  BY <1>1, <1>3
<1>5. input_queue_length' \in 1..input_queue_length' /\ 1..input_queue_length \subseteq 1..input_queue_length'
  BY <1>1, <1>3
<1>6. \A i \in 1..input_queue_length : Input[i] \in Live
  BY <1>3 DEF Range, Live
<1>7. ASSUME NEW i \in DOMAIN Input', NEW j \in DOMAIN Input', i < j
      PROVE  Input'[i] < Input'[j]
  <2>1. i \in 1..input_queue_length
    BY <1>1, <1>2, <1>3, <1>7
  <2>2. CASE j \in 1..input_queue_length
    BY <1>2, <1>3, <1>7, <2>1, <2>2 DEF JobsAreOwnedOnce
  <2>3. CASE j = input_queue_length'
    BY <1>0, <1>2, <1>6, <2>1, <2>3
  <2> QED BY <1>2, <1>4, <2>2, <2>3
<1>8. Range(Input)' = Range(Input) \cup {n}
  BY <1>2, <1>3, <1>4, <1>5 DEF Range
<1>9. Taken' = Taken /\ Range(output_queue)' = Range(output_queue)
  BY <1>1 DEF Taken, Range
<1> QED BY <1>0, <1>1, <1>2, <1>7, <1>8, <1>9 DEF Live, n

\* The main thread takes the front of the output queue and ends its job.
LEMMA PopMoves ==
  ASSUME DispatcherInv, output_queue # <<>>, output_queue' = Tail(output_queue),
         ended' = ended \cup {Head(output_queue)}, UNCHANGED <<inputVars, compiling>>
  PROVE  LET h == Head(output_queue)
         IN  /\ h \in Range(output_queue)
             /\ Input' = Input /\ Taken' = Taken
             /\ output_queue' \in Seq(Nat) /\ IsInjective(output_queue')
             /\ Range(output_queue)' = Range(output_queue) \ {h}
             /\ Live' = Live \ {h}
<1> DEFINE h == Head(output_queue)
<1> USE DEF DispatcherInv
<1>1. Input' = Input /\ Taken' = Taken
  BY DEF inputVars, Input, InputQueueIndex, Taken
<1>2. /\ h \in Range(output_queue)
      /\ output_queue' \in Seq(Nat) /\ IsInjective(output_queue')
      /\ Range(output_queue') = Range(output_queue) \ {h}
  BY OutputFacts DEF DispatcherTypeOK, JobsAreOwnedOnce
<1>3. Range(output_queue)' = Range(output_queue') /\ Range(Input)' = Range(Input)
  BY <1>1 DEF Range
<1>4. h \notin Range(Input) \cup Taken
  BY <1>2 DEF JobsAreOwnedOnce
<1> HIDE DEF h
<1>5. Live' = Live \ {h}
  BY <1>1, <1>2, <1>3, <1>4 DEF Live
<1> QED BY <1>1, <1>2, <1>3, <1>5 DEF h

\* FlushInputQueue empties the ring and ends its jobs.
LEMMA FlushMoves ==
  ASSUME DispatcherInv, FlushInputQueue
  PROVE  /\ input_queue_shift' \in 0..(Capacity - 1) /\ input_queue_length' = 0
         /\ Input' = <<>> /\ Range(Input)' = {} /\ Taken' = Taken
         /\ Range(output_queue)' = Range(output_queue)
         /\ Live' = Live \ Range(Input)
<1> USE DEF DispatcherInv
<1>1. input_queue_shift' \in 0..(Capacity - 1) /\ input_queue_length' = 0
  BY RingIndex DEF FlushInputQueue, InputQueueIndex, DispatcherTypeOK
<1>2. Input' = <<>> /\ Range(Input)' = {}
  BY <1>1 DEF Input, Range
<1>3. Taken' = Taken /\ Range(output_queue)' = Range(output_queue)
  BY DEF FlushInputQueue, Taken, Range
<1>4. Live' = Live \ Range(Input)
  BY <1>2, <1>3 DEF Live, JobsAreOwnedOnce
<1> QED BY <1>1, <1>2, <1>3, <1>4

-----------------------------------------------------------------------------
(* Labels, calls and the handle.                                           *)

\* The variables that say who does what.
controlVars == <<pc, call, handle, in_progress, break_info>>

\* Threads and the main thread.
LEMMA MainIsAThread ==
  /\ Main \in Threads /\ Main \notin Workers /\ \A w \in Workers : w \in Threads /\ w # Main
  /\ \A t \in Threads : t # Main => t \in Workers
BY DispatcherAssumption, Zenon DEF Threads

\* Every step keeps the labels, the calls and the handle in order.
LEMMA ControlStep ==
  ASSUME DispatcherInv, [Next]_vars
  PROVE  ControlOK'
<1>0. ControlOK
  BY DEF DispatcherInv
<1> USE MainIsAThread DEF ControlOK, MainLabels, InTask
<1>1. CASE UNCHANGED controlVars
  BY <1>0, <1>1 DEF controlVars
<1>2. CASE vars' = vars \/ Done
  BY <1>1, <1>2 DEF vars, functionVars, controlVars, Done
<1>3. ASSUME NEW t \in Threads, TaskStep(t)
      PROVE  ControlOK'
  <2>1. /\ UNCHANGED <<call, handle, closure, in_progress, break_info>>
        /\ pc' \in [Threads -> MainLabels \cup {"Idle"}]
        /\ \A u \in Threads : u # t => pc'[u] = pc[u]
        /\ pc'[t] \in InTask \cup {IF t = Main THEN "Await" ELSE "Idle"}
        /\ pc[t] \in InTask \cup {IF t = Main THEN "Await" ELSE "Idle"}
        /\ pc[t] \notin InTask => handle = "Valid"
    <3>1. CASE StartTask(t)
      BY <1>0, <3>1 DEF StartTask, Goto, functionVars
    <3>2. CASE NextInput(t)
      BY <1>0, <3>2 DEF NextInput, EndOfTask, Goto, functionVars
    <3>3. CASE CompileNext(t)
      BY <1>0, <3>3 DEF CompileNext, Goto, functionVars
    <3>4. CASE RequestInstall(t)
      BY <1>0, <3>4 DEF RequestInstall, Goto, functionVars
    <3> QED BY <1>3, <3>1, <3>2, <3>3, <3>4 DEF TaskStep
  <2>2. CASE t = Main
    BY <1>0, <2>1, <2>2
  <2>3. CASE t # Main
    BY <1>0, <2>1, <2>3
  <2> QED BY <2>2, <2>3
<1>4. CASE SetTieringState
  BY <1>0, <1>4 DEF SetTieringState, Goto, NoCall, CallKinds
<1>5. CASE HandleInstallCode
  BY <1>0, <1>5 DEF HandleInstallCode, Goto, functionVars
<1>6. CASE InstallOptimizedFunctions
  <2>1. /\ in_progress' \subseteq in_progress /\ break_info' = break_info
        /\ UNCHANGED <<closure, call, handle>>
        /\ pc' = pc \/ pc' = [pc EXCEPT ![Main] = "Run"]
        /\ pc[Main] = "Install"
    BY <1>6
       DEF InstallOptimizedFunctions, Dispose, Finalize, ResetTieringState, Goto,
           functionVars
  <2> QED BY <1>0, <2>1
<1>7. CASE FlushInputQueue
  <2>1. /\ in_progress' \subseteq in_progress /\ break_info' = break_info
        /\ UNCHANGED <<closure, call, handle>> /\ pc[Main] = "FlushInput"
        /\ pc' = [pc EXCEPT ![Main] = IF Blocks(call.kind) THEN "Await" ELSE "FlushOutput"]
    BY <1>7 DEF FlushInputQueue, Dispose, ResetTieringState, Goto
  <2> QED BY <1>0, <2>1 DEF Blocks
<1>8. CASE AwaitCompileTasks
  BY <1>0, <1>8 DEF AwaitCompileTasks, functionVars
<1>9. CASE PostNextJob
  BY <1>0, <1>9 DEF PostNextJob, Goto, functionVars, NoCall, CallKinds
<1>10. CASE FlushOutputQueue
  <2>1. /\ in_progress' \subseteq in_progress /\ break_info' = break_info
        /\ UNCHANGED <<closure, handle>> /\ pc[Main] = "FlushOutput"
        /\ \/ UNCHANGED <<pc, call>>
           \/ /\ pc' = [pc EXCEPT ![Main] = "Stopped"] \/ pc' = [pc EXCEPT ![Main] = "Run"]
              /\ call' = NoCall
    BY <1>10 DEF FlushOutputQueue, EndOfCall, Dispose, ResetTieringState, Goto
  <2> QED BY <1>0, <2>1 DEF NoCall, CallKinds
<1>11. CASE Destroy
  BY <1>0, <1>11 DEF Destroy, functionVars
<1>12. ASSUME NEW f \in Functions, QueueForOptimization(f)
       PROVE  ControlOK'
  BY <1>0, <1>12 DEF QueueForOptimization, Goto, functionVars, CallKinds
<1>13. ASSUME NEW f \in Functions, PrepareFunctionForDebugExecution(f)
       PROVE  ControlOK'
  BY <1>0, <1>13 DEF PrepareFunctionForDebugExecution, Goto, CallKinds
<1>14. ASSUME NEW f \in Functions, Deoptimize(f)
       PROVE  ControlOK'
  BY <1>0, <1>14 DEF Deoptimize, ResetTieringState
<1>15. ASSUME NEW kind \in Calls, Call(kind)
       PROVE  ControlOK'
  BY <1>0, <1>15 DEF Call, Calls, CallKinds, Goto, functionVars
<1> QED
  BY <1>2, <1>3, <1>4, <1>5, <1>6, <1>7, <1>8, <1>9, <1>10, <1>11, <1>12, <1>13, <1>14,
     <1>15, Zenon
     DEF Next, MainStep, Decide

-----------------------------------------------------------------------------
(* The places of the jobs, step by step.                                   *)

\* A step that moves no job.
Still ==
  /\ UNCHANGED placeVars
  /\ \A t \in Threads : pc'[t] = "Compile" <=> pc[t] = "Compile"
  /\ in_progress' \subseteq in_progress \/ SetTieringState
  /\ pc'[Main] = "SetTieringState" => pc[Main] = "SetTieringState" /\ call' = call

\* A step that ends the job at the front of the output queue.
Pops ==
  /\ output_queue # <<>> /\ output_queue' = Tail(output_queue)
  /\ ended' = ended \cup {Head(output_queue)}
  /\ in_progress' = in_progress \ {closure[Head(output_queue)]}
  /\ pc[Main] \in {"Install", "FlushOutput"}
  /\ UNCHANGED <<inputVars, closure, compiling, pc, call, break_info>>

\* What becomes of the jobs in any step.
LEMMA StepKinds ==
  ASSUME DispatcherInv, [Next]_vars
  PROVE  \/ Still \/ Pops \/ FlushInputQueue
         \/ \E t \in Threads : NextInput(t) /\ input_queue_length # 0
         \/ \E t \in Threads : CompileNext(t)
         \/ \E f \in Functions : QueueForOptimization(f)
<1>0. ControlOK
  BY DEF DispatcherInv
<1>r. \A h : Range(<<h>>) = {h}
  BY DEF Range
<1> USE MainIsAThread
<1>1. CASE vars' = vars \/ Done
  BY <1>1, Zenon DEF vars, functionVars, placeVars, Done, Still
<1>2. ASSUME NEW t \in Threads, TaskStep(t)
      PROVE  Still \/ (NextInput(t) /\ input_queue_length # 0) \/ CompileNext(t)
  <2>1. CASE StartTask(t)
    BY <1>0, <2>1 DEF StartTask, Goto, functionVars, placeVars, Still, ControlOK
  <2>2. CASE NextInput(t) /\ input_queue_length = 0
    BY <1>0, <2>2
       DEF NextInput, EndOfTask, Goto, functionVars, placeVars, Still, ControlOK
  <2>3. CASE RequestInstall(t)
    BY <1>0, <2>3 DEF RequestInstall, Goto, functionVars, placeVars, Still, ControlOK
  <2> QED BY <1>2, <2>1, <2>2, <2>3 DEF TaskStep
<1>3. CASE SetTieringState
  BY <1>0, <1>3 DEF SetTieringState, Goto, placeVars, Still, ControlOK
<1>4. CASE \/ HandleInstallCode \/ AwaitCompileTasks \/ PostNextJob \/ Destroy
  BY <1>0, <1>4
     DEF HandleInstallCode, AwaitCompileTasks, PostNextJob, Destroy, Goto, functionVars,
         placeVars, Still, ControlOK
<1>5. CASE InstallOptimizedFunctions
  <2>1. CASE output_queue = <<>>
    BY <1>0, <1>5, <2>1
       DEF InstallOptimizedFunctions, Goto, functionVars, placeVars, Still, ControlOK
  <2>2. CASE output_queue # <<>>
    BY <1>5, <1>r, <2>2
       DEF InstallOptimizedFunctions, Dispose, Finalize, ResetTieringState, Pops
  <2> QED BY <2>1, <2>2
<1>6. CASE FlushOutputQueue
  <2>1. CASE output_queue = <<>>
    BY <1>0, <1>6, <2>1 DEF FlushOutputQueue, EndOfCall, Goto, placeVars, Still, ControlOK
  <2>2. CASE output_queue # <<>>
    <3>1. /\ output_queue' = Tail(output_queue) /\ pc[Main] = "FlushOutput"
          /\ Dispose(<<Head(output_queue)>>, call.kind # "Stop")
          /\ UNCHANGED <<inputVars, closure, compiling, pc, call>>
      BY <1>6, <2>2 DEF FlushOutputQueue
    <3>2. /\ ended' = ended \cup {Head(output_queue)} /\ break_info' = break_info
          /\ in_progress' = in_progress \ {closure[Head(output_queue)]}
      BY <1>r, <3>1 DEF Dispose, ResetTieringState
    <3> QED BY <2>2, <3>1, <3>2 DEF Pops
  <2> QED BY <2>1, <2>2
<1>7. ASSUME NEW f \in Functions, PrepareFunctionForDebugExecution(f)
      PROVE  Still
  BY <1>0, <1>7 DEF PrepareFunctionForDebugExecution, Goto, placeVars, Still, ControlOK
<1>8. ASSUME NEW f \in Functions, Deoptimize(f)
      PROVE  Still
  BY <1>0, <1>8 DEF Deoptimize, ResetTieringState, placeVars, Still
<1>9. ASSUME NEW kind \in Calls, Call(kind)
      PROVE  Still
  BY <1>0, <1>9 DEF Call, Goto, functionVars, placeVars, Still, ControlOK
<1> QED
  BY <1>1, <1>2, <1>3, <1>4, <1>5, <1>6, <1>7, <1>8, <1>9 DEF Next, MainStep, Decide

\* The variables that hold jobs keep their types.
LEMMA TypeStep ==
  ASSUME DispatcherInv, [Next]_vars
  PROVE  DispatcherTypeOK' /\ HandsMatch'
<1>0. DispatcherTypeOK /\ ControlOK /\ HandsMatch
  BY DEF DispatcherInv
<1>1. CASE Still
  BY <1>0, <1>1 DEF Still, placeVars, inputVars, DispatcherTypeOK, HandsMatch
<1>2. CASE Pops
  <2>1. output_queue' \in Seq(Nat)
    BY <1>2, PopMoves DEF Pops
  <2> QED BY <1>0, <1>2, <2>1 DEF Pops, inputVars, DispatcherTypeOK, HandsMatch
<1>3. CASE FlushInputQueue
  <2>1. input_queue_shift' \in 0..(Capacity - 1) /\ input_queue_length' \in 0..Capacity
    BY <1>3, FlushMoves, DispatcherAssumption
  <2>2. \A t \in Threads : pc'[t] = "Compile" <=> pc[t] = "Compile"
    BY <1>0, <1>3, MainIsAThread DEF FlushInputQueue, Goto, ControlOK
  <2> QED BY <1>0, <1>3, <2>1, <2>2 DEF FlushInputQueue, DispatcherTypeOK, HandsMatch
<1>4. ASSUME NEW t \in Threads, NextInput(t), input_queue_length # 0
      PROVE  DispatcherTypeOK' /\ HandsMatch'
  <2>1. /\ UNCHANGED <<input_queue, output_queue, closure>>
        /\ pc' = [pc EXCEPT ![t] = "Compile"]
    BY <1>4 DEF NextInput, Goto
  <2>2. /\ input_queue_shift' \in 0..(Capacity - 1) /\ input_queue_length' \in 0..Capacity
        /\ \E h \in Nat : h # Null /\ compiling' = [compiling EXCEPT ![t] = h]
    BY <1>4, TakeMoves
  <2>3. DispatcherTypeOK'
    BY <1>0, <2>1, <2>2 DEF DispatcherTypeOK
  <2>4. HandsMatch'
    BY <1>0, <2>1, <2>2 DEF DispatcherTypeOK, ControlOK, HandsMatch
  <2> QED BY <2>3, <2>4
<1>5. ASSUME NEW t \in Threads, CompileNext(t)
      PROVE  DispatcherTypeOK' /\ HandsMatch'
  <2>1. UNCHANGED <<inputVars, closure>> /\ pc' = [pc EXCEPT ![t] = "Request"]
    BY <1>5 DEF CompileNext, Goto
  <2>2. /\ \A u \in Threads : compiling'[u] = IF u = t THEN Null ELSE compiling[u]
        /\ compiling' \in [Threads -> Nat \cup {Null}] /\ output_queue' \in Seq(Nat)
    BY <1>5, CompileMoves
  <2>3. DispatcherTypeOK'
    BY <1>0, <2>1, <2>2 DEF DispatcherTypeOK, inputVars
  <2>4. HandsMatch'
    BY <1>0, <2>1, <2>2 DEF ControlOK, HandsMatch
  <2> QED BY <2>3, <2>4
<1>6. ASSUME NEW f \in Functions, QueueForOptimization(f)
      PROVE  DispatcherTypeOK' /\ HandsMatch'
  <2>1. /\ UNCHANGED <<input_queue_shift, output_queue, compiling>>
        /\ pc' = [pc EXCEPT ![Main] = "SetTieringState"] /\ pc[Main] = "Run"
    BY <1>6 DEF QueueForOptimization, Goto
  <2>2. /\ input_queue' \in [0..(Capacity - 1) -> Nat \cup {Null}]
        /\ input_queue_length' \in 0..Capacity /\ closure' = Append(closure, f)
    BY <1>6, QueueMoves
  <2>3. DispatcherTypeOK'
    BY <1>0, <1>6, <2>1, <2>2 DEF DispatcherTypeOK
  <2>4. HandsMatch'
    BY <1>0, <2>1, MainIsAThread DEF ControlOK, HandsMatch
  <2> QED BY <2>3, <2>4
<1> QED BY <1>1, <1>2, <1>3, <1>4, <1>5, <1>6, StepKinds

\* What is left when the ring is empty and nobody runs the task.
LEMMA QuiescentFacts ==
  ASSUME DispatcherTypeOK, ControlOK, HandsMatch, Quiescent, pc[Main] \notin InTask
  PROVE  Live = Range(output_queue) /\ \A t \in Threads : ~TaskStep(t)
<1>1. \A t \in Threads : pc[t] \notin InTask
  BY MainIsAThread DEF Quiescent, NobodyCompiles, InTask
<1>2. Taken = {}
  BY <1>1 DEF Taken, HandsMatch, InTask
<1>3. Range(Input) = {}
  BY InputFacts DEF Quiescent
<1>4. \A t \in Threads : ~TaskStep(t)
  BY <1>1
     DEF TaskStep, StartTask, NextInput, CompileNext, RequestInstall, Quiescent, InTask
<1> QED BY <1>2, <1>3, <1>4 DEF Live

\* A call that waits for the workers finds nothing in the ring and nobody in the
\* task once the job is joined, and so it stays until the call is over.
LEMMA WaitedStep ==
  ASSUME DispatcherInv, [Next]_vars
  PROVE  WaitedFor'
<1>0. DispatcherTypeOK /\ ControlOK /\ HandsMatch /\ WaitedFor
  BY DEF DispatcherInv
<1> USE MainIsAThread
<1>1. CASE UNCHANGED <<pc, call, handle, input_queue_length, output_queue>>
  BY <1>0, <1>1 DEF WaitedFor, Quiescent, NobodyCompiles
<1>2. CASE vars' = vars \/ Done
  BY <1>1, <1>2 DEF vars, inputVars, Done
<1>3. ASSUME NEW t \in Threads, TaskStep(t)
      PROVE  WaitedFor'
  <2>1. /\ UNCHANGED <<call, handle>>
        /\ pc'[Main] \in {"FlushOutput", "Stopped"} => pc'[Main] = pc[Main]
    BY <1>0, <1>3
       DEF TaskStep, StartTask, NextInput, EndOfTask, CompileNext, RequestInstall, Goto,
           ControlOK
  <2>2. ~(Quiescent /\ pc[Main] \notin InTask)
    BY <1>0, <1>3, QuiescentFacts
  <2> QED BY <1>0, <2>1, <2>2 DEF WaitedFor, ControlOK, InTask
<1>4. CASE SetTieringState \/ HandleInstallCode \/ InstallOptimizedFunctions
  <2>1. /\ handle' = handle /\ pc[Main] \in {"SetTieringState", "Run", "Install"}
        /\ pc'[Main] \in {"Run", "Install"}
    BY <1>0, <1>4, Zenon
       DEF SetTieringState, HandleInstallCode, InstallOptimizedFunctions, Goto, ControlOK
  <2> QED BY <1>0, <2>1 DEF WaitedFor, ControlOK
<1>5. CASE FlushInputQueue
  <2>1. /\ handle' = handle /\ pc[Main] = "FlushInput" /\ call' = call
        /\ pc'[Main] = IF Blocks(call.kind) THEN "Await" ELSE "FlushOutput"
    BY <1>0, <1>5 DEF FlushInputQueue, Goto, ControlOK
  <2> QED BY <1>0, <2>1 DEF WaitedFor, ControlOK
<1>6. CASE AwaitCompileTasks
  BY <1>6 DEF AwaitCompileTasks, inputVars, WaitedFor, Quiescent, NobodyCompiles
<1>7. CASE PostNextJob
  <2>1. /\ handle' # "Joined" /\ pc'[Main] \in {"Install", "FlushOutput"} /\ Quiescent
        /\ \A w \in Workers : pc'[w] = pc[w]
        /\ input_queue_length' = input_queue_length
    BY <1>0, <1>7 DEF PostNextJob, Goto, inputVars, ControlOK, WaitedFor
  <2> QED BY <2>1 DEF WaitedFor, Quiescent, NobodyCompiles
<1>8. CASE FlushOutputQueue
  <2>1. /\ handle' = handle /\ pc[Main] = "FlushOutput"
        /\ \A w \in Workers : pc'[w] = pc[w]
        /\ input_queue_length' = input_queue_length
        /\ \/ UNCHANGED <<pc, call>>
           \/ /\ pc'[Main] = EndOfCall /\ output_queue = <<>> /\ UNCHANGED output_queue
    BY <1>0, <1>8 DEF FlushOutputQueue, Goto, inputVars, ControlOK
  <2>2. Quiescent => Quiescent'
    BY <2>1, Zenon DEF Quiescent, NobodyCompiles
  <2> QED BY <1>0, <2>1, <2>2 DEF WaitedFor, EndOfCall, Blocks, ControlOK
<1>9. CASE Destroy
  BY <1>0, <1>9, Zenon DEF Destroy, inputVars, WaitedFor, Quiescent, NobodyCompiles
<1>10. CASE Decide
  <2>1. /\ handle' = handle /\ pc[Main] = "Run"
        /\ pc'[Main] \in {"Run", "SetTieringState", "FlushInput", "Await"}
    BY <1>0, <1>10, Zenon
       DEF Decide, QueueForOptimization, PrepareFunctionForDebugExecution, Deoptimize, Call,
           Goto, ControlOK
  <2> QED BY <1>0, <2>1 DEF WaitedFor, ControlOK
<1> QED
  BY <1>2, <1>3, <1>4, <1>5, <1>6, <1>7, <1>8, <1>9, <1>10 DEF Next, MainStep

\* Every job stays in one place, or goes from one to the next.
LEMMA OwnedStep ==
  ASSUME DispatcherInv, [Next]_vars
  PROVE  JobsAreOwnedOnce'
<1>0. DispatcherTypeOK /\ ControlOK /\ HandsMatch /\ JobsAreOwnedOnce
  BY DEF DispatcherInv
<1> DEFINE Ordered == \A i, j \in DOMAIN Input : i < j => Input[i] < Input[j]
           InHands == \A t, u \in Threads :
                        compiling[t] = compiling[u] /\ compiling[t] # Null => t = u
           Apart == /\ Range(Input) \cap Taken = {}
                    /\ Range(output_queue) \cap (Range(Input) \cup Taken) = {}
                    /\ ended \cap Live = {} /\ ended \cup Live = 1..Len(closure)
<1>1. (Ordered /\ InHands /\ IsInjective(output_queue) /\ Apart)'
  <2>0. Ordered /\ InHands /\ IsInjective(output_queue) /\ Apart
    BY <1>0 DEF JobsAreOwnedOnce
  <2>1. CASE Still
    <3>1. /\ Input' = Input /\ Taken' = Taken /\ Live' = Live /\ closure' = closure
          /\ Range(output_queue)' = Range(output_queue) /\ ended' = ended
          /\ compiling' = compiling /\ output_queue' = output_queue
      BY <2>1, NoJobMoves DEF Still, placeVars
    <3>2. Range(Input)' = Range(Input)
      BY <3>1 DEF Range
    <3> QED BY <2>0, <3>1, <3>2
  <2>2. CASE Pops
    <3>1. PICK h : h = Head(output_queue)
      OBVIOUS
    <3>2. /\ h \in Range(output_queue) /\ Input' = Input /\ Taken' = Taken
          /\ IsInjective(output_queue') /\ Live' = Live \ {h}
          /\ Range(output_queue)' = Range(output_queue) \ {h}
      BY <2>2, <3>1, PopMoves DEF Pops
    <3>3. ended' = ended \cup {h} /\ compiling' = compiling /\ closure' = closure
      BY <2>2, <3>1 DEF Pops
    <3>4. Range(Input)' = Range(Input) /\ h \in Live
      BY <3>2 DEF Range, Live
    <3>5. Apart'
      BY <2>0, <3>2, <3>3, <3>4
    <3> QED BY <2>0, <3>2, <3>3, <3>5 DEF IsInjective
  <2>3. CASE FlushInputQueue
    <3>1. /\ Input' = <<>> /\ Range(Input)' = {} /\ Taken' = Taken
          /\ Range(output_queue)' = Range(output_queue) /\ Live' = Live \ Range(Input)
      BY <2>3, FlushMoves
    <3>2. /\ ended' = ended \cup Range(Input)
          /\ UNCHANGED <<compiling, closure, output_queue>>
      BY <2>3 DEF FlushInputQueue, Dispose
    <3>3. Range(Input) \subseteq Live
      BY DEF Live
    <3>4. Apart'
      BY <2>0, <3>1, <3>2, <3>3
    <3> QED BY <2>0, <3>1, <3>2, <3>4 DEF IsInjective
  <2>4. ASSUME NEW t \in Threads, NextInput(t), input_queue_length # 0
        PROVE  (Ordered /\ InHands /\ IsInjective(output_queue) /\ Apart)'
    <3>1. Ordered'
      BY <2>4, TakeMoves
    <3>2. PICK h \in Range(Input) :
            /\ h \in Nat /\ h # Null /\ compiling' = [compiling EXCEPT ![t] = h]
            /\ Range(Input)' = Range(Input) \ {h} /\ Taken' = Taken \cup {h}
      BY <2>4, TakeMoves
    <3>3. UNCHANGED <<output_queue, closure, ended>> /\ pc[t] = "Next"
      BY <2>4 DEF NextInput
    <3>4. Range(output_queue)' = Range(output_queue)
      BY <3>3 DEF Range
    <3>5. Live' = Live
      BY <3>2, <3>4 DEF Live
    <3>6. h \notin Taken /\ h \notin Range(output_queue)
      BY <2>0, <3>2
    <3>7. Apart'
      BY <2>0, <3>2, <3>3, <3>4, <3>5, <3>6
    <3>8. \A u \in Threads : compiling[u] # h
      BY <3>2, <3>6 DEF Taken
    <3>9. InHands'
      BY <1>0, <2>0, <3>2, <3>8 DEF DispatcherTypeOK
    <3> QED BY <2>0, <3>1, <3>3, <3>7, <3>9 DEF IsInjective
  <2>5. ASSUME NEW t \in Threads, CompileNext(t)
        PROVE  (Ordered /\ InHands /\ IsInjective(output_queue) /\ Apart)'
    <3>1. PICK h : h = compiling[t]
      OBVIOUS
    <3>2. /\ h \in Taken /\ Taken' = Taken \ {h}
          /\ \A u \in Threads : compiling'[u] = IF u = t THEN Null ELSE compiling[u]
          /\ IsInjective(output_queue')
          /\ Range(output_queue)' = Range(output_queue) \cup {h}
      BY <2>5, <3>1, CompileMoves
    <3>3. UNCHANGED <<inputVars, closure, ended>>
      BY <2>5 DEF CompileNext
    <3>4. Input' = Input /\ Range(Input)' = Range(Input)
      BY <3>3 DEF inputVars, Input, InputQueueIndex, Range
    <3>5. Live' = Live
      BY <3>2, <3>4 DEF Live
    <3>6. Apart'
      BY <2>0, <3>2, <3>3, <3>4, <3>5
    <3>7. InHands'
      BY <2>0, <3>2
    <3> QED BY <2>0, <3>2, <3>4, <3>6, <3>7 DEF IsInjective
  <2>6. ASSUME NEW f \in Functions, QueueForOptimization(f)
        PROVE  (Ordered /\ InHands /\ IsInjective(output_queue) /\ Apart)'
    <3>1. PICK n : n = Len(closure) + 1
      OBVIOUS
    <3>2. /\ closure' = Append(closure, f) /\ Range(Input)' = Range(Input) \cup {n}
          /\ Taken' = Taken /\ Live' = Live \cup {n} /\ n \notin Live /\ Ordered'
      BY <2>6, <3>1, QueueMoves
    <3>3. UNCHANGED <<output_queue, ended, compiling>>
      BY <2>6 DEF QueueForOptimization
    <3>4. Range(output_queue)' = Range(output_queue)
      BY <3>3 DEF Range
    <3>5. Len(closure) \in Nat /\ Len(closure') = n
      BY <1>0, <2>6, <3>1, <3>2 DEF DispatcherTypeOK
    <3>6. 1..n = (1..Len(closure)) \cup {n} /\ n \notin 1..Len(closure)
      BY <3>1, <3>5
    <3>7. n \notin Taken /\ n \notin Range(output_queue)
      BY <3>2 DEF Live
    <3>8. Apart'
      BY <2>0, <3>2, <3>3, <3>4, <3>5, <3>6, <3>7
    <3> QED BY <2>0, <3>2, <3>3, <3>8 DEF IsInjective
  <2> HIDE DEF Ordered, InHands, Apart
  <2> QED BY <2>1, <2>2, <2>3, <2>4, <2>5, <2>6, StepKinds
<1>2. (pc[Main] = "Stopped" => ended = 1..Len(closure))'
  <2> SUFFICES ASSUME pc'[Main] = "Stopped"
               PROVE  ended' = 1..Len(closure')
    OBVIOUS
  <2>1. DispatcherTypeOK' /\ HandsMatch' /\ ControlOK' /\ WaitedFor'
    BY TypeStep, ControlStep, WaitedStep
  <2>2. Quiescent' /\ output_queue' = <<>>
    BY <2>1 DEF WaitedFor
  <2>3. Taken' = {}
    BY <2>1, <2>2, MainIsAThread DEF HandsMatch, Quiescent, NobodyCompiles, Taken
  <2>4. Range(Input)' = {} /\ Range(output_queue)' = {}
    BY <2>2 DEF Quiescent, Input, Range
  <2>5. Live' = {}
    BY <2>3, <2>4 DEF Live
  <2> QED BY <1>1, <2>5
<1> QED BY <1>1, <1>2 DEF JobsAreOwnedOnce

\* A function in progress keeps its job until the job ends, and then it is not
\* in progress any more, whichever of its jobs it was.
LEMMA InProgressStep ==
  ASSUME DispatcherInv, [Next]_vars
  PROVE  InProgressHasJob' /\ QueuedHasJob'
<1>0. /\ DispatcherTypeOK /\ ControlOK /\ JobsAreOwnedOnce /\ InProgressHasJob
      /\ QueuedHasJob
  BY DEF DispatcherInv
<1>1. CASE Still
  <2>1. Live' = Live /\ closure' = closure
    BY <1>1, NoJobMoves DEF Still
  <2>2. QueuedHasJob'
    BY <1>0, <1>1, <2>1 DEF Still, QueuedHasJob
  <2>3. CASE in_progress' \subseteq in_progress
    BY <1>0, <2>1, <2>2, <2>3 DEF InProgressHasJob
  <2>4. CASE SetTieringState
    <3>1. in_progress' = in_progress \cup {call.function} /\ pc[Main] = "SetTieringState"
      BY <2>4 DEF SetTieringState
    <3> QED BY <1>0, <2>1, <2>2, <3>1 DEF InProgressHasJob, QueuedHasJob
  <2> QED BY <1>1, <2>3, <2>4 DEF Still
<1>2. CASE Pops
  <2>1. Live' = Live \ {Head(output_queue)}
    BY <1>2, PopMoves DEF Pops
  <2> QED BY <1>0, <1>2, <2>1 DEF Pops, InProgressHasJob, QueuedHasJob
<1>3. CASE FlushInputQueue
  <2>1. Live' = Live \ Range(Input)
    BY <1>3, FlushMoves
  <2>2. /\ in_progress' = in_progress \ {closure[j] : j \in Range(Input)}
        /\ closure' = closure /\ pc'[Main] # "SetTieringState"
    BY <1>0, <1>3, MainIsAThread
       DEF FlushInputQueue, Dispose, ResetTieringState, Goto, ControlOK
  <2> QED BY <1>0, <2>1, <2>2 DEF InProgressHasJob, QueuedHasJob
<1>4. ASSUME NEW t \in Threads, NextInput(t), input_queue_length # 0
      PROVE  InProgressHasJob' /\ QueuedHasJob'
  <2>1. /\ UNCHANGED <<output_queue, closure, call, in_progress>>
        /\ pc'[Main] = "SetTieringState" => pc[Main] = "SetTieringState"
    <3>1. /\ UNCHANGED <<output_queue, closure, call, in_progress>>
          /\ pc' = [pc EXCEPT ![t] = "Compile"]
      BY <1>4 DEF NextInput, functionVars, Goto
    <3> QED BY <1>0, <3>1, MainIsAThread DEF ControlOK
  <2>2. Range(output_queue)' = Range(output_queue)
    BY <2>1 DEF Range
  <2>3. Live' = Live
    BY <1>4, <2>2, TakeMoves DEF Live
  <2> QED BY <1>0, <2>1, <2>3 DEF InProgressHasJob, QueuedHasJob
<1>5. ASSUME NEW t \in Threads, CompileNext(t)
      PROVE  InProgressHasJob' /\ QueuedHasJob'
  <2>1. /\ UNCHANGED <<inputVars, closure, call, in_progress>>
        /\ pc'[Main] = "SetTieringState" => pc[Main] = "SetTieringState"
    BY <1>0, <1>5 DEF CompileNext, functionVars, Goto, ControlOK
  <2>2. Range(Input)' = Range(Input)
    BY <2>1 DEF Range, inputVars, Input, InputQueueIndex
  <2>3. Live' = Live
    BY <1>5, <2>2, CompileMoves DEF Live
  <2> QED BY <1>0, <2>1, <2>3 DEF InProgressHasJob, QueuedHasJob
<1>6. ASSUME NEW f \in Functions, QueueForOptimization(f)
      PROVE  InProgressHasJob' /\ QueuedHasJob'
  <2>1. PICK n : n = Len(closure) + 1
    OBVIOUS
  <2>2. Live' = Live \cup {n} /\ closure' = Append(closure, f)
    BY <1>6, <2>1, QueueMoves
  <2>3. in_progress' = in_progress /\ call'.function = f
    BY <1>6 DEF QueueForOptimization, functionVars
  <2>4. closure'[n] = f /\ \A j \in Live : closure'[j] = closure[j]
    BY <1>0, <1>6, <2>1, <2>2 DEF DispatcherTypeOK, JobsAreOwnedOnce
  <2>5. InProgressHasJob'
    BY <1>0, <2>2, <2>3, <2>4, Zenon DEF InProgressHasJob
  <2>6. QueuedHasJob'
    BY <2>2, <2>3, <2>4, Zenon DEF QueuedHasJob
  <2> QED BY <2>5, <2>6
<1> QED BY <1>1, <1>2, <1>3, <1>4, <1>5, <1>6, StepKinds

\* A step that queues no function brings no job back.
LEMMA LiveStep ==
  ASSUME DispatcherInv, [Next]_vars, closure' = closure
  PROVE  Live' \subseteq Live
<1>1. CASE Still
  BY <1>1, NoJobMoves DEF Still
<1>2. CASE Pops
  BY <1>2, PopMoves DEF Pops
<1>3. CASE FlushInputQueue
  BY <1>3, FlushMoves
<1>4. ASSUME NEW t \in Threads, NextInput(t), input_queue_length # 0
      PROVE  Live' \subseteq Live
  <2>1. Range(output_queue)' = Range(output_queue)
    BY <1>4 DEF NextInput, Range
  <2> QED BY <1>4, <2>1, TakeMoves DEF Live
<1>5. ASSUME NEW t \in Threads, CompileNext(t)
      PROVE  Live' \subseteq Live
  <2>1. Range(Input)' = Range(Input)
    BY <1>5 DEF CompileNext, Range, inputVars, Input, InputQueueIndex
  <2> QED BY <1>5, <2>1, CompileMoves DEF Live
<1>6. ASSUME NEW f \in Functions, QueueForOptimization(f)
      PROVE  FALSE
  <2>1. closure' = Append(closure, f) /\ closure \in Seq(Functions)
    BY <1>6 DEF QueueForOptimization, DispatcherInv, DispatcherTypeOK
  <2>2. Len(closure') = Len(closure) + 1 /\ Len(closure) \in Nat
    BY <1>6, <2>1
  <2> QED BY <2>2
<1> QED BY <1>1, <1>2, <1>3, <1>4, <1>5, <1>6, StepKinds

\* No function with break points has code, except the one whose code the debugger
\* is about to throw away.
NoOldCode ==
  \A f \in break_info : f \in optimized => call = [kind |-> "Break", function |-> f]

\* Code of a function with break points is thrown away by the debugger's call,
\* and its jobs with it.
LEMMA BreakStep ==
  ASSUME DispatcherInv, [Next]_vars
  PROVE  BreakIsUnderWay' /\ NoOldCode'
<1>0. /\ DispatcherTypeOK /\ ControlOK /\ HandsMatch /\ JobsAreOwnedOnce /\ WaitedFor
      /\ BreakIsUnderWay /\ NoOldCode
  BY DEF DispatcherInv, BreakPointsAreRespected, NoOldCode
<1> USE MainIsAThread
<1>1. CASE /\ UNCHANGED <<call, break_info, closure>>
           /\ \A f \in break_info : f \in optimized' => f \in optimized
  BY <1>0, <1>1, LiveStep DEF BreakIsUnderWay, NoOldCode
<1>2. CASE call.kind # "Break" /\ UNCHANGED <<break_info, closure, optimized>>
  <2>1. \A f : call # [kind |-> "Break", function |-> f]
    BY <1>2
  <2> QED BY <1>0, <1>2, <2>1, LiveStep DEF BreakIsUnderWay, NoOldCode
<1>3. CASE vars' = vars \/ Done
  BY <1>1, <1>3 DEF vars, Done, functionVars
<1>4. ASSUME NEW t \in Threads, TaskStep(t)
      PROVE  BreakIsUnderWay' /\ NoOldCode'
  <2>1. UNCHANGED <<call, break_info, closure, optimized>>
    BY <1>4
       DEF TaskStep, StartTask, NextInput, CompileNext, RequestInstall, functionVars
  <2> QED BY <1>1, <2>1
<1>5. CASE SetTieringState
  BY <1>0, <1>2, <1>5 DEF SetTieringState, ControlOK
<1>6. CASE HandleInstallCode \/ AwaitCompileTasks \/ Destroy
  BY <1>1, <1>6 DEF HandleInstallCode, AwaitCompileTasks, Destroy, functionVars
<1>7. CASE InstallOptimizedFunctions
  <2>1. UNCHANGED <<call, closure>> /\ pc[Main] = "Install"
    BY <1>7, Zenon DEF InstallOptimizedFunctions
  <2>2. CASE output_queue = <<>>
    BY <1>1, <1>7, <2>1, <2>2, Zenon DEF InstallOptimizedFunctions, functionVars
  <2>3. CASE output_queue # <<>>
    <3>1. /\ break_info' = break_info
          /\ optimized' \subseteq optimized \cup {closure[Head(output_queue)]}
      BY <1>7, <2>3 DEF InstallOptimizedFunctions, Dispose, Finalize
    <3>2. Head(output_queue) \in Range(output_queue)
      BY <1>0, <2>3, OutputFacts DEF DispatcherTypeOK
    <3>3. closure[Head(output_queue)] \notin break_info
      BY <2>1, <3>2 DEF DispatcherInv, BreakPointsAreRespected
    <3> QED BY <1>1, <2>1, <3>1, <3>3
  <2> QED BY <2>2, <2>3
<1>8. CASE FlushInputQueue
  <2>1. UNCHANGED <<call, break_info, closure>> /\ optimized' \subseteq optimized
    BY <1>8 DEF FlushInputQueue, Dispose
  <2> QED BY <1>1, <2>1
<1>9. CASE PostNextJob
  <2>1. UNCHANGED <<break_info, closure, optimized>>
    BY <1>9 DEF PostNextJob, functionVars
  <2>2. CASE call.kind = "Await"
    BY <1>2, <2>1, <2>2
  <2>3. CASE call.kind # "Await"
    BY <1>1, <1>9, <2>1, <2>3 DEF PostNextJob
  <2> QED BY <2>2, <2>3
<1>10. CASE FlushOutputQueue
  <2>1. CASE output_queue # <<>>
    <3>1. UNCHANGED <<call, break_info, closure>> /\ optimized' \subseteq optimized
      BY <1>10, <2>1 DEF FlushOutputQueue, Dispose
    <3> QED BY <1>1, <3>1
  <2>2. CASE output_queue = <<>> /\ call.kind # "Break"
    BY <1>2, <1>10, <2>2 DEF FlushOutputQueue
  <2>3. CASE output_queue = <<>> /\ call.kind = "Break"
    <3>1. /\ UNCHANGED <<break_info, closure>> /\ optimized' = optimized \ {call.function}
          /\ pc[Main] = "FlushOutput"
      BY <1>10, <2>3 DEF FlushOutputQueue
    <3>2. Quiescent
      BY <1>0, <2>3, <3>1 DEF WaitedFor, Blocks
    <3>3. Live = Range(output_queue)
      BY <1>0, <3>1, <3>2, QuiescentFacts DEF InTask
    <3>4. Live = {}
      BY <2>3, <3>3 DEF Range
    <3>5. Live' = {}
      BY <3>1, <3>4, LiveStep
    <3>6. \A f \in break_info : f \in optimized => f = call.function
      <4>1. \A f : call = [kind |-> "Break", function |-> f] => f = call.function
        OBVIOUS
      <4> QED BY <1>0, <4>1 DEF NoOldCode
    <3> QED BY <3>1, <3>5, <3>6 DEF BreakIsUnderWay, NoOldCode
  <2> QED BY <2>1, <2>2, <2>3
<1>11. ASSUME NEW f \in Functions, Deoptimize(f)
       PROVE  BreakIsUnderWay' /\ NoOldCode'
  BY <1>1, <1>11 DEF Deoptimize
<1>12. ASSUME NEW kind \in Calls, Call(kind)
       PROVE  BreakIsUnderWay' /\ NoOldCode'
  BY <1>0, <1>2, <1>12 DEF Call, functionVars, ControlOK, NoCall
<1>13. pc[Main] = "Run" => \A g : call # [kind |-> "Break", function |-> g]
  BY <1>0 DEF ControlOK, NoCall
<1>14. ASSUME NEW f \in Functions, QueueForOptimization(f)
       PROVE  BreakIsUnderWay' /\ NoOldCode'
  <2>1. PICK n : n = Len(closure) + 1
    OBVIOUS
  <2>2. Live' = Live \cup {n} /\ closure' = Append(closure, f)
    BY <1>14, <2>1, QueueMoves
  <2>3. UNCHANGED <<break_info, optimized>> /\ f \notin break_info /\ pc[Main] = "Run"
    BY <1>14 DEF QueueForOptimization, functionVars
  <2>4. closure'[n] = f /\ \A j \in Live : closure'[j] = closure[j]
    BY <1>0, <1>14, <2>1, <2>2 DEF DispatcherTypeOK, JobsAreOwnedOnce
  <2>5. BreakIsUnderWay'
    BY <1>0, <1>13, <2>2, <2>3, <2>4, Zenon DEF BreakIsUnderWay
  <2>6. NoOldCode'
    BY <1>0, <1>13, <2>3 DEF NoOldCode
  <2> QED BY <2>5, <2>6
<1>15. ASSUME NEW f \in Functions, PrepareFunctionForDebugExecution(f)
       PROVE  BreakIsUnderWay' /\ NoOldCode'
  <2>1. /\ UNCHANGED <<closure, optimized>> /\ break_info' = break_info \cup {f}
        /\ call' = [kind |-> "Break", function |-> f] /\ pc[Main] = "Run"
    BY <1>15 DEF PrepareFunctionForDebugExecution
  <2>2. Live' \subseteq Live
    BY <2>1, LiveStep
  <2>3. BreakIsUnderWay'
    BY <1>0, <1>13, <2>1, <2>2 DEF BreakIsUnderWay
  <2>4. NoOldCode'
    BY <1>0, <1>13, <2>1 DEF NoOldCode
  <2> QED BY <2>3, <2>4
<1> QED
  BY <1>3, <1>4, <1>5, <1>6, <1>7, <1>8, <1>9, <1>10, <1>11, <1>12, <1>14, <1>15
     DEF Next, MainStep, Decide

\* The invariant holds at first.
LEMMA DispatcherInit == Init => DispatcherInv
<1> SUFFICES ASSUME Init PROVE DispatcherInv
  OBVIOUS
<1> USE DispatcherAssumption, MainIsAThread
<1>1. DispatcherTypeOK
  BY DEF Init, DispatcherTypeOK
<1>2. ControlOK /\ HandsMatch /\ WaitedFor
  BY DEF Init, ControlOK, MainLabels, InTask, NoCall, CallKinds, HandsMatch, WaitedFor
<1>3. Range(Input) = {} /\ Taken = {} /\ Range(output_queue) = {}
  BY DEF Init, Input, Taken, Range
<1>4. Live = {}
  BY <1>3 DEF Live
<1>5. JobsAreOwnedOnce
  <2>1. Len(closure) = 0 /\ 1..0 = {} /\ ended = {} /\ pc[Main] = "Run"
    BY DEF Init
  <2>2. DOMAIN Input = {}
    BY DEF Init, Input
  <2>3. IsInjective(output_queue)
    BY DEF Init, IsInjective
  <2>4. \A t \in Threads : compiling[t] = Null
    BY DEF Init
  <2> QED BY <1>3, <1>4, <2>1, <2>2, <2>3, <2>4 DEF JobsAreOwnedOnce
<1>6. /\ InProgressHasJob /\ QueuedHasJob /\ BreakPointsAreRespected /\ BreakIsUnderWay
  BY <1>4
     DEF Init, InProgressHasJob, QueuedHasJob, BreakPointsAreRespected, BreakIsUnderWay
<1> QED BY <1>1, <1>2, <1>5, <1>6 DEF DispatcherInv

\* Every step keeps the invariant.
LEMMA DispatcherStep == DispatcherInv /\ [Next]_vars => DispatcherInv'
<1> SUFFICES ASSUME DispatcherInv, [Next]_vars PROVE DispatcherInv'
  OBVIOUS
<1>1. DispatcherTypeOK' /\ ControlOK' /\ HandsMatch' /\ WaitedFor'
  BY TypeStep, ControlStep, WaitedStep
<1>2. JobsAreOwnedOnce' /\ InProgressHasJob' /\ QueuedHasJob'
  BY OwnedStep, InProgressStep
<1>3. BreakIsUnderWay' /\ NoOldCode'
  BY BreakStep
<1>4. BreakPointsAreRespected'
  <2>1. ASSUME pc'[Main] = "Install", NEW j \in Range(output_queue)'
        PROVE  closure'[j] \notin break_info'
    <3>1. call' = NoCall /\ j \in Live'
      BY <1>1, <2>1 DEF ControlOK, Live
    <3>2. call' # [kind |-> "Break", function |-> closure'[j]]
      BY <3>1 DEF NoCall
    <3> QED BY <1>3, <3>1, <3>2 DEF BreakIsUnderWay
  <2> QED BY <1>3, <2>1 DEF BreakPointsAreRespected, NoOldCode
<1> QED BY <1>1, <1>2, <1>3, <1>4 DEF DispatcherInv

\* The invariant holds in every reachable state.
THEOREM DispatcherInvariant == Spec => []DispatcherInv
BY DispatcherInit, DispatcherStep, PTL DEF Spec

\* Every job that was queued is in the ring, in one thread's hands, in the output
\* queue or ended, never in two of these (TryQueueForOptimization, NextInput,
\* CompileNext, the flushes), and Stop leaves none.
THEOREM JobsStayOwnedOnce == Spec => []JobsAreOwnedOnce
<1>1. DispatcherInv => JobsAreOwnedOnce
  BY DEF DispatcherInv
<1> QED BY <1>1, DispatcherInvariant, PTL

\* A function whose tiering state is kInProgress has a job that will end.
THEOREM InProgressKeepsJob == Spec => []InProgressHasJob
<1>1. DispatcherInv => InProgressHasJob
  BY DEF DispatcherInv
<1> QED BY <1>1, DispatcherInvariant, PTL

\* Code compiled before a break point was set is never installed after it
\* (the DCHECK of FinalizeTurbofanCompilationJob).
THEOREM BreakPointsStayRespected == Spec => []BreakPointsAreRespected
<1>1. DispatcherInv => BreakPointsAreRespected
  BY DEF DispatcherInv
<1> QED BY <1>1, DispatcherInvariant, PTL

-----------------------------------------------------------------------------
(* The use of the job handle.                                              *)

InRun == {t \in Threads : pc[t] \in {"Next", "Compile", "Request"}}

\* Every step is one the contract of a job handle allows, or changes nothing of
\* it: tasks start only while the handle is valid, and the handle is given up only
\* when nobody runs the task, by Join only when the ring is empty.
LEMMA StepUsesJobs ==
  DispatcherInv /\ [Next]_vars =>
    [Contract!JobNext \/ Contract!Repost]_(Contract!jobVars)
<1> SUFFICES ASSUME DispatcherInv, [Next]_vars
             PROVE  [Contract!JobNext \/ Contract!Repost]_(Contract!jobVars)
  OBVIOUS
<1>0. ControlOK /\ WaitedFor
  BY DEF DispatcherInv
<1>t. input_queue_length' \in Nat
  BY TypeStep, DispatcherAssumption DEF DispatcherTypeOK
<1> USE MainIsAThread DEF InRun
<1>1. CASE InRun' = InRun /\ handle' = handle
  <2>1. Contract!ChangeWork
    BY <1>1, <1>t DEF Contract!ChangeWork
  <2> QED BY <2>1 DEF Contract!JobNext
<1>2. CASE vars' = vars \/ Done
  BY <1>1, <1>2 DEF vars, Done
<1>3. ASSUME NEW t \in Threads, TaskStep(t)
      PROVE  [Contract!JobNext \/ Contract!Repost]_(Contract!jobVars)
  <2>1. CASE StartTask(t)
    <3>1. /\ InRun' = InRun \cup {t} /\ handle = "Valid" /\ handle' = handle
          /\ input_queue_length' = input_queue_length
      BY <1>0, <2>1 DEF StartTask, Goto, inputVars, ControlOK
    <3>2. Contract!Start(t)
      BY <3>1 DEF Contract!Start
    <3> QED BY <3>2, Zenon DEF Contract!JobNext
  <2>2. CASE NextInput(t) /\ input_queue_length = 0
    <3>1. /\ InRun' = InRun \ {t} /\ handle' = handle
          /\ input_queue_length' = input_queue_length
      BY <1>0, <2>2 DEF NextInput, EndOfTask, Goto, inputVars, ControlOK
    <3>2. Contract!Stop(t)
      BY <3>1 DEF Contract!Stop
    <3> QED BY <3>2, Zenon DEF Contract!JobNext
  <2>3. CASE NextInput(t) /\ input_queue_length # 0
    <3>1. InRun' = InRun /\ handle' = handle
      BY <1>0, <2>3 DEF NextInput, Goto, ControlOK
    <3> QED BY <1>1, <3>1
  <2>4. CASE CompileNext(t) \/ RequestInstall(t)
    <3>1. InRun' = InRun /\ handle' = handle
      BY <1>0, <2>4 DEF CompileNext, RequestInstall, Goto, ControlOK
    <3> QED BY <1>1, <3>1
  <2> QED BY <1>3, <2>1, <2>2, <2>3, <2>4 DEF TaskStep
<1>4. CASE SetTieringState \/ HandleInstallCode \/ InstallOptimizedFunctions
  <2>1. InRun' = InRun /\ handle' = handle
    BY <1>0, <1>4, Zenon
       DEF SetTieringState, HandleInstallCode, InstallOptimizedFunctions, Goto, ControlOK
  <2> QED BY <1>1, <2>1
<1>5. CASE FlushInputQueue \/ FlushOutputQueue
  <2>1. InRun' = InRun /\ handle' = handle
    BY <1>0, <1>5, Zenon DEF FlushInputQueue, FlushOutputQueue, EndOfCall, Goto, ControlOK
  <2> QED BY <1>1, <2>1
<1>6. CASE AwaitCompileTasks
  <2>1. /\ InRun = {} /\ InRun' = InRun /\ handle' = "Joined"
        /\ input_queue_length = 0 /\ input_queue_length' = input_queue_length
    BY <1>6 DEF AwaitCompileTasks, NobodyCompiles, inputVars
  <2>2. Contract!JoinReturns
    BY <2>1 DEF Contract!JoinReturns
  <2> QED BY <2>2 DEF Contract!JobNext
<1>7. CASE PostNextJob
  <2>1. /\ InRun' = InRun /\ handle = "Joined" /\ handle' = "Valid"
        /\ input_queue_length' = input_queue_length
    BY <1>0, <1>7 DEF PostNextJob, Goto, inputVars, ControlOK
  <2>2. Contract!Repost
    BY <2>1 DEF Contract!Repost
  <2> QED BY <2>2
<1>8. CASE Destroy
  <2>1. /\ InRun = {} /\ InRun' = InRun /\ handle' = "Gone"
        /\ input_queue_length' = input_queue_length
    BY <1>8 DEF Destroy, NobodyCompiles, inputVars
  <2>2. Contract!CancelReturns
    BY <2>1, Zenon DEF Contract!CancelReturns
  <2> QED BY <2>2 DEF Contract!JobNext
<1>9. CASE Decide
  <2>1. InRun' = InRun /\ handle' = handle
    BY <1>0, <1>9, Zenon
       DEF Decide, QueueForOptimization, PrepareFunctionForDebugExecution, Deoptimize, Call,
           Goto, ControlOK
  <2> QED BY <1>1, <2>1
<1> QED
  BY <1>2, <1>3, <1>4, <1>5, <1>6, <1>7, <1>8, <1>9 DEF Next, MainStep

\* The dispatcher uses its jobs as the contract of a job handle allows
\* (AwaitCompileTasks, Stop and the destructor).
THEOREM DispatcherUsesJobs == Spec => UsesJobs
<1>1. Init => Contract!JobInit
  BY MainIsAThread DEF Init, Contract!JobInit
<1> QED
  BY <1>1, DispatcherInvariant, StepUsesJobs, PTL
     DEF Spec, UsesJobs, Contract!JobsSpec
=============================================================================

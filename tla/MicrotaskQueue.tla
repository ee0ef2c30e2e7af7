--------------------------- MODULE MicrotaskQueue ---------------------------
(***************************************************************************)
(* A microtask queue: a ring buffer that C++ grows, the builtins read and  *)
(* write and the garbage collector shrinks, and the conditions under which *)
(* its tasks run.  A microtask is a number, given in the order of          *)
(* enqueueing.  The C++ stack is a sequence of frames, the innermost last. *)
(***************************************************************************)
EXTENDS Integers, Sequences, SequencesExt, Bitwise

CONSTANTS kMinimumCapacity,
          Scoped,     \* the microtasks policy is kScoped
          Callbacks,
          MaxTasks,   \* bound: microtasks enqueued in all
          MaxFrames   \* bound: frames on the stack

ASSUME QueueAssumption ==
  /\ kMinimumCapacity \in {2^n : n \in 0..8} /\ Scoped \in BOOLEAN
  /\ MaxTasks \in Nat /\ MaxFrames \in Nat

VARIABLES
  ring_buffer, capacity, size, start,
  microtasks_depth, microtasks_suppressions, is_running_microtasks,
  callbacks,    \* microtasks_completed_callbacks_
  round,        \* what is left of the copy OnCompleted goes through
  enqueued, taken,
  stack, terminating

ringVars == <<ring_buffer, capacity, size, start>>
scopeVars == <<microtasks_depth, microtasks_suppressions, is_running_microtasks>>
callbackVars == <<callbacks, round>>
vars == <<ringVars, scopeVars, callbackVars, enqueued, taken, stack, terminating>>

Init ==
  /\ ring_buffer = <<>> /\ capacity = 0 /\ size = 0 /\ start = 0
  /\ microtasks_depth = 0 /\ microtasks_suppressions = 0
  /\ is_running_microtasks = FALSE
  /\ callbacks = <<>> /\ round = <<>>
  /\ enqueued = 0 /\ taken = 0
  /\ stack = <<>> /\ terminating = FALSE

Top == IF stack = <<>> THEN "Embedder" ELSE Last(stack)
Push(frame) == stack' = Append(stack, frame)
Pop == stack' = Front(stack)

\* The program's or the embedder's own code is executing.
InUserCode == Top \notin {"Loop", "Completed"}
MayCall == InUserCode /\ Len(stack) < MaxFrames

-----------------------------------------------------------------------------
(* The ring buffer.                                                        *)

ModuloIndex(i) == (start + i) % capacity
MaskIndex(i) == (start + i) & (capacity - 1)

NotMoved(i) == i % capacity
OldIndex(i) == ModuloIndex(i)

\* ResizeBuffer: the new buffer, with the tasks at its beginning.
Resized(new_capacity) ==
  [i \in 0..(new_capacity - 1) |-> IF i < size THEN ring_buffer[OldIndex(i)] ELSE 0]

GrownCapacity == IF 2 * capacity > kMinimumCapacity THEN 2 * capacity
                 ELSE kMinimumCapacity

Store(buffer, index) ==
  /\ ring_buffer' = [buffer EXCEPT ![index] = enqueued + 1]
  /\ size' = size + 1
  /\ enqueued' = enqueued + 1

\* MicrotaskQueue::EnqueueMicrotask.
EnqueueMicrotask ==
  /\ InUserCode /\ enqueued < MaxTasks
  /\ IF size = capacity
     THEN /\ Store(Resized(GrownCapacity), size)
          /\ capacity' = GrownCapacity /\ start' = 0
     ELSE Store(ring_buffer, ModuloIndex(size)) /\ UNCHANGED <<capacity, start>>
  /\ UNCHANGED <<scopeVars, callbackVars, taken, stack, terminating>>

\* The builtin, which does not leave generated code unless the buffer is full.
BuiltinEnqueueMicrotask ==
  /\ InUserCode /\ enqueued < MaxTasks /\ size # capacity
  /\ Store(ring_buffer, MaskIndex(size))
  /\ UNCHANGED <<capacity, start, scopeVars, callbackVars, taken, stack, terminating>>

\* The smallest capacity that halving reaches and that is not above twice the size.
HalvedCapacity ==
  LET fits == {c \in {capacity \div 2^n : n \in 0..capacity} : c <= 2 * size}
  IN IF fits = {} THEN 0 ELSE CHOOSE c \in fits : \A d \in fits : d <= c

ShrunkCapacity == IF HalvedCapacity > kMinimumCapacity THEN HalvedCapacity
                  ELSE kMinimumCapacity

\* The slots IterateMicrotasks visits, in two ranges.
VisitedSlots ==
  LET end == start + size
  IN (start..((IF end < capacity THEN end ELSE capacity) - 1))
       \cup (0..(IF end > capacity THEN end - capacity - 1 ELSE -1))

\* A garbage collection: IterateMicrotasks visits the tasks and shrinks the buffer.
IterateMicrotasks ==
  /\ InUserCode
  /\ capacity > kMinimumCapacity /\ ShrunkCapacity < capacity
  /\ ring_buffer' = Resized(ShrunkCapacity)
  /\ capacity' = ShrunkCapacity /\ start' = 0
  /\ UNCHANGED <<size, scopeVars, callbackVars, enqueued, taken, stack, terminating>>

-----------------------------------------------------------------------------
(* When microtasks run.                                                    *)

IgnoreRunning == microtasks_depth = 0
ShouldPerformCheckpoint ==
  ~is_running_microtasks /\ microtasks_depth = 0 /\ microtasks_suppressions = 0

\* PerformCheckpointInternal up to the first step of the RunMicrotasks builtin.
BeginRun(frames) ==
  /\ stack' = Append(frames, "Loop")
  /\ is_running_microtasks' = TRUE
  /\ microtasks_suppressions' = microtasks_suppressions + 1

PerformCheckpoint ==
  /\ MayCall /\ ~terminating
  /\ ShouldPerformCheckpoint
  /\ BeginRun(stack)
  /\ UNCHANGED <<ringVars, microtasks_depth, callbackVars, enqueued, taken, terminating>>

OpenMicrotasksScope ==
  /\ MayCall
  /\ Push("Scope")
  /\ microtasks_depth' = microtasks_depth + 1
  /\ UNCHANGED <<ringVars, microtasks_suppressions, is_running_microtasks,
                 callbackVars, enqueued, taken, terminating>>

\* ~MicrotasksScope; ShouldPerformCheckpoint is asked with the depth decremented.
CloseMicrotasksScope ==
  /\ Top = "Scope"
  /\ microtasks_depth' = microtasks_depth - 1
  /\ IF /\ Scoped /\ ~terminating
        /\ ~is_running_microtasks /\ microtasks_depth' = 0 /\ microtasks_suppressions = 0
     THEN BeginRun(Front(stack))
     ELSE Pop /\ UNCHANGED <<microtasks_suppressions, is_running_microtasks>>
  /\ UNCHANGED <<ringVars, callbackVars, enqueued, taken, terminating>>

OpenSuppressScope ==
  /\ MayCall
  /\ Push("Suppress")
  /\ microtasks_suppressions' = microtasks_suppressions + 1
  /\ UNCHANGED <<ringVars, microtasks_depth, is_running_microtasks, callbackVars,
                 enqueued, taken, terminating>>

KeepSuppression == UNCHANGED microtasks_suppressions
LeaveSuppression == microtasks_suppressions' = microtasks_suppressions - 1

CloseSuppressScope ==
  /\ Top = "Suppress"
  /\ Pop
  /\ LeaveSuppression
  /\ UNCHANGED <<ringVars, microtasks_depth, is_running_microtasks, callbackVars,
                 enqueued, taken, terminating>>

\* One round of the RunMicrotasks builtin: the task is removed, then called.
RunSingleMicrotask ==
  /\ Top = "Loop" /\ size > 0
  /\ taken' = ring_buffer[MaskIndex(0)]
  /\ size' = size - 1
  /\ start' = MaskIndex(1)
  /\ Push("Task")
  /\ UNCHANGED <<ring_buffer, capacity, scopeVars, callbackVars, enqueued, terminating>>

\* It returns or throws, which is reported.
MicrotaskReturns ==
  /\ Top = "Task"
  /\ Pop
  /\ UNCHANGED <<ringVars, scopeVars, callbackVars, enqueued, taken, terminating>>

\* OnCompleted goes through a copy of the callbacks.
RunCompleted ==
  /\ Top = "Loop" /\ size = 0
  /\ stack' = Append(Front(stack), "Completed")
  /\ round' = callbacks
  /\ UNCHANGED <<ringVars, scopeVars, callbacks, enqueued, taken, terminating>>

CountFrames(frames, frame) == Len(SelectSeq(frames, LAMBDA f : f = frame))

\* A termination exception unwinds the stack to the innermost RunMicrotasks, which
\* throws the rest of the queue away.
Terminate ==
  /\ InUserCode /\ "Task" \in Range(stack) /\ ~terminating
  /\ terminating' = TRUE
  /\ LET loop == CHOOSE n \in DOMAIN stack :
                   /\ stack[n] = "Loop"
                   /\ \A m \in DOMAIN stack : stack[m] = "Loop" => m <= n
         unwound == SubSeq(stack, loop + 1, Len(stack))
     IN /\ stack' = Append(SubSeq(stack, 1, loop - 1), "Completed")
        /\ microtasks_depth' = microtasks_depth - CountFrames(unwound, "Scope")
        /\ microtasks_suppressions' =
             microtasks_suppressions - CountFrames(unwound, "Suppress")
  /\ ring_buffer' = <<>> /\ capacity' = 0 /\ size' = 0 /\ start' = 0
  /\ taken' = enqueued
  /\ round' = callbacks
  /\ UNCHANGED <<is_running_microtasks, callbacks, enqueued>>

FireCompletedCallback ==
  /\ Top = "Completed" /\ round # <<>>
  /\ round' = Tail(round)
  /\ Push("Callback")
  /\ UNCHANGED <<ringVars, scopeVars, callbacks, enqueued, taken, terminating>>

CallbackReturns ==
  /\ Top = "Callback"
  /\ Pop
  /\ UNCHANGED <<ringVars, scopeVars, callbackVars, enqueued, taken, terminating>>

EndRun ==
  /\ Top = "Completed" /\ round = <<>>
  /\ Pop
  /\ is_running_microtasks' = FALSE
  /\ LeaveSuppression
  /\ UNCHANGED <<ringVars, microtasks_depth, callbackVars, enqueued, taken, terminating>>

\* The termination has unwound the whole stack.
TerminationEnds ==
  /\ terminating /\ stack = <<>>
  /\ terminating' = FALSE
  /\ UNCHANGED <<ringVars, scopeVars, callbackVars, enqueued, taken, stack>>

AddMicrotasksCompletedCallback(c) ==
  /\ InUserCode /\ c \notin Range(callbacks)
  /\ callbacks' = Append(callbacks, c)
  /\ UNCHANGED <<ringVars, scopeVars, round, enqueued, taken, stack, terminating>>

RemoveMicrotasksCompletedCallback(c) ==
  /\ InUserCode /\ c \in Range(callbacks)
  /\ callbacks' = Remove(callbacks, c)
  /\ UNCHANGED <<ringVars, scopeVars, round, enqueued, taken, stack, terminating>>

-----------------------------------------------------------------------------
\* What goes on by itself once it has begun.
Continue ==
  \/ CloseMicrotasksScope \/ CloseSuppressScope
  \/ RunSingleMicrotask \/ MicrotaskReturns \/ RunCompleted
  \/ FireCompletedCallback \/ CallbackReturns \/ EndRun \/ TerminationEnds

Decide ==
  \/ EnqueueMicrotask \/ BuiltinEnqueueMicrotask \/ IterateMicrotasks
  \/ OpenMicrotasksScope \/ OpenSuppressScope \/ Terminate
  \/ \E c \in Callbacks : \/ AddMicrotasksCompletedCallback(c)
                          \/ RemoveMicrotasksCompletedCallback(c)

Next == Continue \/ Decide \/ PerformCheckpoint

\* User code that runs in a frame returns in the end, however often it calls, and
\* the embedder comes to a checkpoint again and again.
Returns == CloseMicrotasksScope \/ CloseSuppressScope \/ MicrotaskReturns \/ CallbackReturns

Spec ==
  /\ Init /\ [][Next]_vars
  /\ WF_vars(Continue) /\ SF_vars(PerformCheckpoint) /\ SF_vars(TerminationEnds)
  /\ \A n \in 1..(MaxFrames + 1) : SF_vars(Len(stack) = n /\ Returns)

-----------------------------------------------------------------------------
\* The ring holds exactly the tasks that were enqueued and neither taken nor thrown
\* away, in their order, whatever C++, the builtins (which mask instead of dividing)
\* and the garbage collector did to it; the garbage collector visits exactly them.
RingMatchesQueue ==
  /\ size = enqueued - taken /\ size <= capacity
  /\ \A i \in 0..(size - 1) : ring_buffer[ModuloIndex(i)] = taken + i + 1
  /\ {ring_buffer[i] : i \in VisitedSlots} = (taken + 1)..enqueued

\* Microtasks never run inside a microtask or a completion callback, and the
\* counters that prevent it agree with the stack also after a termination.
RunIsNotReentrant ==
  LET runs == CountFrames(stack, "Loop") + CountFrames(stack, "Completed")
  IN /\ runs = IF is_running_microtasks THEN 1 ELSE 0
     /\ microtasks_depth = CountFrames(stack, "Scope")
     /\ microtasks_suppressions = CountFrames(stack, "Suppress") + runs

\* Every microtask that is enqueued is run, in its turn, or thrown away by a
\* termination, also when a completion callback has enqueued it.
EveryMicrotaskIsTaken ==
  \A n \in 1..MaxTasks : enqueued >= n ~> taken >= n
=============================================================================

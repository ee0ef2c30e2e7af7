-------------------------- MODULE CompileDispatcher --------------------------
(***************************************************************************)
(* The optimizing compile dispatcher: the main thread queues jobs for      *)
(* functions in a ring, the workers of a job compile them and put them     *)
(* into an output queue, the main thread installs or disposes of them.     *)
(* The job is used as JobContract allows.  A job is a number, given in the *)
(* order of queueing.                                                      *)
(***************************************************************************)
EXTENDS Naturals, Sequences, Functions

CONSTANTS Workers, Main,
          Functions,
          Capacity,   \* input_queue_capacity_
          MaxJobs,    \* bound: jobs queued in all
          Null

Threads == Workers \cup {Main}

ASSUME DispatcherAssumption ==
  /\ Main \notin Workers /\ Capacity \in Nat \ {0} /\ MaxJobs \in Nat
  /\ Null \notin Nat /\ Null \notin Functions

VARIABLES
  input_queue, input_queue_shift, input_queue_length, output_queue,
  closure,       \* the function of each job queued so far
  ended,         \* jobs that were installed or disposed of
  pc,
  compiling,     \* the job a thread has taken
  call,          \* what the main thread is doing: a flush, Stop or a break point
  install_code,  \* the interrupt of the stack guard
  in_progress,   \* functions whose tiering state is kInProgress
  optimized,     \* functions that have optimized code
  break_info,    \* functions the debugger has prepared
  handle         \* the job handle: "Valid", "Joined" or "Gone"

inputVars == <<input_queue, input_queue_shift, input_queue_length>>
functionVars == <<in_progress, optimized, break_info>>
vars == <<inputVars, output_queue, closure, ended, pc, compiling, call,
          install_code, functionVars, handle>>

Jobs == 1..MaxJobs
NoCall == [kind |-> "None", function |-> Null]

Init ==
  /\ input_queue = [i \in 0..(Capacity - 1) |-> Null]
  /\ input_queue_shift = 0 /\ input_queue_length = 0
  /\ output_queue = <<>> /\ closure = <<>> /\ ended = {}
  /\ pc = [t \in Threads |-> IF t = Main THEN "Run" ELSE "Idle"]
  /\ compiling = [t \in Threads |-> Null] /\ call = NoCall
  /\ install_code = FALSE
  /\ in_progress = {} /\ optimized = {} /\ break_info = {}
  /\ handle = "Valid"

Goto(t, l) == pc' = [pc EXCEPT ![t] = l]

NotShifted(i) == i % Capacity
InputQueueIndex(i) == (i + input_queue_shift) % Capacity

\* The jobs in the ring, from the front on.
Input == [i \in 1..input_queue_length |-> input_queue[InputQueueIndex(i - 1)]]

IsQueueAvailable == input_queue_length < Capacity

KeepTieringState(functions) == UNCHANGED in_progress
ResetTieringState(functions) == in_progress' = in_progress \ functions

\* Compiler::DisposeTurbofanCompilationJob for a sequence of jobs.
Dispose(jobs, restore) ==
  LET functions == {closure[j] : j \in Range(jobs)}
  IN /\ ended' = ended \cup Range(jobs)
     /\ ResetTieringState(functions)
     /\ optimized' = IF restore THEN optimized \ functions ELSE optimized
     /\ UNCHANGED break_info

-----------------------------------------------------------------------------
(* The main thread.                                                        *)

\* GetOrCompileOptimized and CompileTurbofan_Concurrent, for a function whose
\* tiering state asks for it; high memory pressure and a failing preparation
\* have the same effect as never asking.
QueueForOptimization(f) ==
  /\ pc[Main] = "Run" /\ handle = "Valid"
  /\ f \notin in_progress \cup break_info \cup optimized
  /\ IsQueueAvailable /\ Len(closure) < MaxJobs
  /\ closure' = Append(closure, f)
  /\ input_queue' = [input_queue EXCEPT
                       ![InputQueueIndex(input_queue_length)] = Len(closure) + 1]
  /\ input_queue_length' = input_queue_length + 1
  /\ call' = [kind |-> "Queue", function |-> f]
  /\ Goto(Main, "SetTieringState")
  /\ UNCHANGED <<input_queue_shift, output_queue, ended, compiling, install_code,
                 functionVars, handle>>

SetTieringState ==
  /\ pc[Main] = "SetTieringState"
  /\ in_progress' = in_progress \cup {call.function}
  /\ call' = NoCall
  /\ Goto(Main, "Run")
  /\ UNCHANGED <<inputVars, output_queue, closure, ended, compiling, install_code,
                 optimized, break_info, handle>>

\* StackGuard::HandleInterrupts.
HandleInstallCode ==
  /\ pc[Main] = "Run" /\ install_code
  /\ install_code' = FALSE
  /\ Goto(Main, "Install")
  /\ UNCHANGED <<inputVars, output_queue, closure, ended, compiling, call,
                 functionVars, handle>>

\* Compiler::FinalizeTurbofanCompilationJob; the job or its finalization may
\* have failed.
Finalize(j) ==
  /\ ended' = ended \cup {j}
  /\ ResetTieringState({closure[j]})
  /\ optimized' \in {optimized \cup {closure[j]}, optimized \ {closure[j]}}
  /\ UNCHANGED break_info

AlreadyOptimized(j) == closure[j] \in optimized

InstallOptimizedFunctions ==
  /\ pc[Main] = "Install"
  /\ \/ /\ output_queue = <<>>
        /\ Goto(Main, "Run")
        /\ UNCHANGED <<output_queue, ended, functionVars>>
     \/ /\ output_queue # <<>>
        /\ output_queue' = Tail(output_queue)
        /\ IF AlreadyOptimized(Head(output_queue))
           THEN Dispose(<<Head(output_queue)>>, FALSE)
           ELSE Finalize(Head(output_queue))
        /\ UNCHANGED pc
  /\ UNCHANGED <<inputVars, closure, compiling, call, install_code, handle>>

\* Calls that flush: AbortConcurrentOptimization by the garbage collector (does
\* not block) and by the deoptimizer, Stop, and the debugger, which first marks
\* the function with its break info.
Calls == {"FlushDontBlock", "FlushBlock", "Stop", "Await"}

Call(kind) ==
  /\ pc[Main] = "Run" /\ handle = "Valid"
  /\ call' = [kind |-> kind, function |-> Null]
  /\ Goto(Main, IF kind = "Await" THEN "Await" ELSE "FlushInput")
  /\ UNCHANGED <<inputVars, output_queue, closure, ended, compiling, install_code,
                 functionVars, handle>>

PrepareFunctionForDebugExecution(f) ==
  /\ pc[Main] = "Run" /\ handle = "Valid" /\ f \notin break_info
  /\ break_info' = break_info \cup {f}
  /\ call' = [kind |-> "Break", function |-> f]
  /\ Goto(Main, "FlushInput")
  /\ UNCHANGED <<inputVars, output_queue, closure, ended, compiling, install_code,
                 in_progress, optimized, handle>>

NeverBlocks(kind) == FALSE
Blocks(kind) == kind # "FlushDontBlock"

FlushInputQueue ==
  /\ pc[Main] = "FlushInput"
  /\ input_queue_shift' = InputQueueIndex(input_queue_length)
  /\ input_queue_length' = 0
  /\ Dispose(Input, TRUE)
  /\ Goto(Main, IF Blocks(call.kind) THEN "Await" ELSE "FlushOutput")
  /\ UNCHANGED <<input_queue, output_queue, closure, compiling, call, install_code,
                 handle>>

\* Where the main thread goes when its call is over.
EndOfCall == IF call.kind = "Stop" THEN "Stopped" ELSE "Run"

NotAwaited == TRUE
NobodyCompiles == \A w \in Workers : pc[w] = "Idle"

\* The job handle's Join returns, by its contract when no work is left and nobody
\* runs the task; the next job is posted.
AwaitCompileTasks ==
  /\ pc[Main] = "Await" /\ handle = "Valid"
  /\ input_queue_length = 0 /\ NobodyCompiles
  /\ handle' = "Joined"
  /\ UNCHANGED <<inputVars, output_queue, closure, ended, pc, compiling, call,
                 install_code, functionVars>>

PostNextJob ==
  /\ pc[Main] = "Await" /\ handle = "Joined"
  /\ handle' = "Valid"
  /\ IF call.kind = "Await" THEN Goto(Main, "Install") /\ call' = NoCall
     ELSE Goto(Main, "FlushOutput") /\ UNCHANGED call
  /\ UNCHANGED <<inputVars, output_queue, closure, ended, compiling, install_code,
                 functionVars>>

\* The deoptimizer follows the flush when the debugger asked for it.
FlushOutputQueue ==
  /\ pc[Main] = "FlushOutput"
  /\ \/ /\ output_queue = <<>>
        /\ optimized' = IF call.kind = "Break" THEN optimized \ {call.function}
                        ELSE optimized
        /\ call' = NoCall
        /\ Goto(Main, EndOfCall)
        /\ UNCHANGED <<output_queue, ended, in_progress, break_info>>
     \/ /\ output_queue # <<>>
        /\ output_queue' = Tail(output_queue)
        /\ Dispose(<<Head(output_queue)>>, call.kind # "Stop")
        /\ UNCHANGED <<pc, call>>
  /\ UNCHANGED <<inputVars, closure, compiling, install_code, handle>>

\* The destructor cancels the job.
Destroy ==
  /\ pc[Main] = "Stopped" /\ handle = "Valid" /\ NobodyCompiles
  /\ handle' = "Gone"
  /\ UNCHANGED <<inputVars, output_queue, closure, ended, pc, compiling, call,
                 install_code, functionVars>>

\* A frame of f is deoptimized, of its code or of code entered in a loop; the
\* tiering state is reset although a job may be under way, so that a second job
\* for f can be queued.
Deoptimize(f) ==
  /\ pc[Main] = "Run" /\ f \in optimized \cup in_progress
  /\ optimized' = optimized \ {f}
  /\ ResetTieringState({f})
  /\ UNCHANGED <<inputVars, output_queue, closure, ended, pc, compiling, call,
                 install_code, break_info, handle>>

-----------------------------------------------------------------------------
(* CompileTask::Run, on a worker or on the main thread while it joins.     *)

StartTask(t) ==
  /\ handle = "Valid" /\ input_queue_length > 0
  /\ pc[t] = IF t = Main THEN "Await" ELSE "Idle"
  /\ Goto(t, "Next")
  /\ UNCHANGED <<inputVars, output_queue, closure, ended, compiling, call,
                 install_code, functionVars, handle>>

EndOfTask(t) == IF t = Main THEN "Await" ELSE "Idle"

\* ShouldYield is false as long as work is left: the handle is canceled last.
NextInput(t) ==
  /\ pc[t] = "Next"
  /\ IF input_queue_length = 0
     THEN Goto(t, EndOfTask(t)) /\ UNCHANGED <<inputVars, compiling>>
     ELSE /\ compiling' = [compiling EXCEPT ![t] = input_queue[InputQueueIndex(0)]]
          /\ input_queue_shift' = InputQueueIndex(1)
          /\ input_queue_length' = input_queue_length - 1
          /\ Goto(t, "Compile")
          /\ UNCHANGED input_queue
  /\ UNCHANGED <<output_queue, closure, ended, call, install_code, functionVars, handle>>

\* ExecuteJob, and the push into the output queue.
CompileNext(t) ==
  /\ pc[t] = "Compile"
  /\ output_queue' = Append(output_queue, compiling[t])
  /\ compiling' = [compiling EXCEPT ![t] = Null]
  /\ Goto(t, "Request")
  /\ UNCHANGED <<inputVars, closure, ended, call, install_code, functionVars, handle>>

NoRequest == UNCHANGED install_code
RequestInstallCode == install_code' = TRUE

RequestInstall(t) ==
  /\ pc[t] = "Request"
  /\ RequestInstallCode
  /\ Goto(t, "Next")
  /\ UNCHANGED <<inputVars, output_queue, closure, ended, compiling, call,
                 functionVars, handle>>

-----------------------------------------------------------------------------
TaskStep(t) == StartTask(t) \/ NextInput(t) \/ CompileNext(t) \/ RequestInstall(t)

MainStep ==
  \/ SetTieringState \/ HandleInstallCode \/ InstallOptimizedFunctions
  \/ FlushInputQueue \/ AwaitCompileTasks \/ PostNextJob \/ FlushOutputQueue
  \/ Destroy

Decide ==
  \/ \E f \in Functions : \/ QueueForOptimization(f)
                          \/ PrepareFunctionForDebugExecution(f)
                          \/ Deoptimize(f)
  \/ \E kind \in Calls : Call(kind)

Done == handle = "Gone" /\ UNCHANGED vars

Next == (\E t \in Threads : TaskStep(t)) \/ MainStep \/ Decide \/ Done

\* Workers run what they are given; the main thread handles its interrupts and
\* ends the calls it has begun.
Spec ==
  /\ Init /\ [][Next]_vars
  /\ \A t \in Threads : WF_vars(TaskStep(t))
  /\ WF_vars(MainStep)

-----------------------------------------------------------------------------
Taken == {compiling[t] : t \in Threads} \ {Null}

\* The jobs that are neither installed nor disposed of.
Live == Range(Input) \cup Taken \cup Range(output_queue)

\* Every job that was queued is in exactly one place: the ring, a thread's hands,
\* the output queue, or gone; none is lost, or installed or disposed of twice.  The
\* ring holds them in the order of queueing, across its end, and Stop leaves none.
JobsAreOwnedOnce ==
  /\ \A i, j \in DOMAIN Input : i < j => Input[i] < Input[j]
  /\ \A t, u \in Threads : compiling[t] = compiling[u] /\ compiling[t] # Null => t = u
  /\ IsInjective(output_queue)
  /\ Range(Input) \cap Taken = {}
  /\ Range(output_queue) \cap (Range(Input) \cup Taken) = {}
  /\ ended \cap Live = {} /\ ended \cup Live = 1..Len(closure)
  /\ pc[Main] = "Stopped" => ended = 1..Len(closure)

\* A function whose tiering state is kInProgress, and which will therefore not be
\* queued again, has a job that will end: a flush that does not wait for the
\* workers leaves no function behind that is never optimized any more.
InProgressHasJob ==
  \A f \in in_progress : \E j \in Live : closure[j] = f

\* Code compiled before a break point was set is never installed after it
\* (DCHECK(!shared->HasBreakInfo) in FinalizeTurbofanCompilationJob).
BreakPointsAreRespected ==
  \A f \in break_info :
    /\ f \in optimized => call = [kind |-> "Break", function |-> f]
    /\ pc[Main] = "Install" => \A j \in Range(output_queue) : closure[j] # f

Contract == INSTANCE JobContract
  WITH job_running <- {t \in Threads : pc[t] \in {"Next", "Compile", "Request"}},
       job_open <- handle = "Valid",
       job_returned <- handle # "Valid",
       job_work <- input_queue_length

\* The dispatcher uses its jobs as the contract of a job handle allows.
UsesJobs == Contract!JobsSpec

\* Every job that is queued is installed or disposed of: an install request is
\* never lost between the push of a job and the main thread's last look.
EveryJobEnds == \A j \in Jobs : Len(closure) >= j ~> j \in ended
=============================================================================

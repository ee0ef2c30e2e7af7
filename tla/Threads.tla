------------------------------ MODULE Threads ------------------------------
(***************************************************************************)
(* The processes of the heap's safepoint protocol.                         *)
(*                                                                         *)
(* An isolate is identified with its main thread; a worker is a background *)
(* thread that attaches to the heap of one isolate by constructing a       *)
(* LocalHeap.  SharedIsolate is the isolate that owns the shared space; a   *)
(* value outside Isolates means that no shared space is used.              *)
(***************************************************************************)
EXTENDS Integers, FiniteSets

CONSTANTS Isolates,       \* isolates, each standing for its main thread
          Workers,        \* background threads
          WorkerIsolate,  \* the isolate each background thread attaches to
          SharedIsolate,  \* the shared space isolate, if it is in Isolates
          Nobody          \* owner of a free mutex

Threads == Isolates \cup Workers

ASSUME ThreadsAssumption ==
  /\ IsFiniteSet(Isolates \cup Workers)
  /\ Isolates \cap Workers = {}
  /\ WorkerIsolate \in [Workers -> Isolates]
  /\ Nobody \notin Isolates \cup Workers

\* LocalHeap::heap_ of a thread: the isolate whose heap it uses.
Home(t) == IF t \in Isolates THEN t ELSE WorkerIsolate[t]

\* LocalHeap::is_main_thread_.
IsMainThread(t) == t \in Isolates

\* Isolate::is_shared_space_isolate.
IsSharedSpaceIsolate(i) == i = SharedIsolate

\* Isolate::has_shared_space of an isolate other than the shared one.
IsClient(i) == SharedIsolate \in Isolates /\ i # SharedIsolate

\* A set with every thread of a waking condition variable removed: NotifyOne
\* wakes one waiter if there is one, NotifyAll all of them.
NotifyOneOf(waiters) ==
  IF waiters = {} THEN {{}} ELSE {waiters \ {w} : w \in waiters}
=============================================================================

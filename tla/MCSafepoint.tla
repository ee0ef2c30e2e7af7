----------------------------- MODULE MCSafepoint -----------------------------
(* Small instances of Safepoint for TLC. *)
EXTENDS Safepoint, TLC

CONSTANTS main, shared, client, w1, w2

\* One isolate without a shared space, all workers attached to it.
OneIsolateWorkers == [w \in Workers |-> main]

\* A shared space isolate and one client; every worker is the client's.
ClientWorkers == [w \in Workers |-> client]

AllOperations == [t \in Threads |-> OperationNames]

\* The shared and the client isolate collect at the same time, and the shared
\* isolate opens scopes inside its safepoint.
BothCollect == (shared :> {"Collect", "Nest"}) @@ (client :> {"Collect", "Park"})
                 @@ (w1 :> {"Attach"})

\* The same without nested scopes.
BothCollectOnce == (shared :> {"Collect"}) @@ (client :> {"Collect", "Park"})
                     @@ (w1 :> {"Attach"})

\* The client, and then the shared isolate, are torn down, the client possibly
\* while its background thread waits for a collection of the shared heap.
ClientQuits == (shared :> {"Quit"}) @@ (client :> {"Quit"})
                 @@ (w1 :> {"Attach", "RequestShared"})

=============================================================================

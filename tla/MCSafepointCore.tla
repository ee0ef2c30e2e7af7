--------------------------- MODULE MCSafepointCore ---------------------------
(* SafepointCore for model checking: two isolates, one with a worker. *)
EXTENDS SafepointCore

CONSTANTS i1, i2

WorkersOfFirst == [w \in Workers |-> i1]
=============================================================================

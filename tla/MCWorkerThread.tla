--------------------------- MODULE MCWorkerThread ----------------------------
(* Model values for the run of WorkerThread. *)
EXTENDS WorkerThread

CONSTANTS c1, c2, w

MCCallers == {c1, c2}
MCTypes == {0, 1}
=============================================================================

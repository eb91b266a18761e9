----------------------------- MODULE MCLifetime ------------------------------
(* Threads for the runs of Lifetime. *)
EXTENDS Lifetime

CONSTANTS job_thread, caller
=============================================================================

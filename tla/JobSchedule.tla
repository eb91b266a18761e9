----------------------------- MODULE JobSchedule -----------------------------
(***************************************************************************)
(* What wio::worker_thread promises to the threads that post jobs to it,   *)
(* without the mutex, the condition variable and the job thread's loop:    *)
(* posted jobs wait until their time point, are started one at a time in   *)
(* the order of the multimap that holds them, may be cancelled while they  *)
(* wait, and the null job that the destructor posts ends the schedule.     *)
(* WorkerThread is shown to implement this specification.                  *)
(***************************************************************************)
EXTENDS Naturals

CONSTANTS
  Posters,   \* every thread that posts a job, the job thread included
  Types,     \* the values of job_type in use
  Horizon    \* bound: the last reading of the clock

VARIABLES
  clock,     \* steady_clock
  pending,   \* posted jobs that have neither started nor been cancelled
  running,   \* {} or the one job being executed
  posts,     \* number of jobs posted so far
  halted     \* the null job has been reached

vars == <<clock, pending, running, posts, halted>>

\* The order of std::multimap<time_point, job>: by key, equal keys in the
\* order of insertion.
Precedes(e, f) == e.at < f.at \/ (e.at = f.at /\ e.seq < f.seq)

Due(e) == /\ e \in pending
          /\ e.at <= clock
          /\ \A f \in pending \ {e} : Precedes(e, f)

Init ==
  /\ clock = 0
  /\ pending = {}
  /\ running = {}
  /\ posts = 0
  /\ halted = FALSE

Tick ==
  /\ clock < Horizon
  /\ clock' = clock + 1
  /\ UNCHANGED <<pending, running, posts, halted>>

Post ==
  \E at \in 0 .. Horizon, ty \in Types, by \in Posters,
     prompt, null \in BOOLEAN, after \in 0 .. posts :
    /\ posts' = posts + 1
    /\ pending' = pending \cup {[seq |-> posts + 1, at |-> at, type |-> ty, by |-> by,
                                 prompt |-> prompt, after |-> after, null |-> null]}
    /\ UNCHANGED <<clock, running, halted>>

Cancel ==
  /\ pending' \subseteq pending
  /\ UNCHANGED <<clock, running, posts, halted>>

Start ==
  \E e \in pending :
    /\ ~halted /\ running = {}
    /\ Due(e) /\ ~e.null
    /\ pending' = pending \ {e}
    /\ running' = {e}
    /\ UNCHANGED <<clock, posts, halted>>

Finish ==
  /\ running # {}
  /\ running' = {}
  /\ UNCHANGED <<clock, pending, posts, halted>>

Halt ==
  \E e \in pending :
    /\ ~halted /\ running = {}
    /\ Due(e) /\ e.null
    /\ pending' = pending \ {e}
    /\ halted' = TRUE
    /\ UNCHANGED <<clock, running, posts>>

Next == Tick \/ Post \/ Cancel \/ Start \/ Finish \/ Halt

Spec == Init /\ [][Next]_vars

\* A job that is due when nothing runs is started, and a started job ends.
FairSpec == Spec /\ WF_vars(Start \/ Halt) /\ WF_vars(Finish)

=============================================================================

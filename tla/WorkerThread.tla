---------------------------- MODULE WorkerThread -----------------------------
(***************************************************************************)
(* wio::worker_thread (wiimoteio/worker_thread.h): a thread that executes  *)
(* functions at given time points.  Callers insert into m_job_queue under  *)
(* m_job_lock and then signal m_job_cond; the job thread sleeps on that    *)
(* condition variable until the first key of the queue and executes the    *)
(* first job with the lock released.                                       *)
(*                                                                         *)
(* Every section of the code that holds m_job_lock is one action, so the   *)
(* mutex needs no variable.  What happens outside the lock is a step of    *)
(* its own: reading the clock before an insertion, notify_one() after it,  *)
(* waking up, executing the job.                                           *)
(***************************************************************************)
EXTENDS Naturals, FiniteSets

CONSTANTS
  Callers,   \* threads that use the object, other than its own job thread
  Owner,     \* the caller that runs the destructor
  Worker,    \* the job thread; the functions it executes may post jobs too
  Types,     \* the values of job_type in use
  MaxPosts,  \* bound: the number of schedule_*() calls, not counting the destructor's
  Horizon    \* bound: the last reading of the clock

ASSUME ThreadsAssumption == Owner \in Callers /\ Worker \notin Callers
ASSUME BoundsAssumption == MaxPosts \in Nat /\ Horizon \in Nat
ASSUME TypesAssumption == 0 \in Types

VARIABLES
  clock,     \* steady_clock::now()
  queue,     \* m_job_queue: a set of entries, ordered by Before
  posts,     \* number of insertions made; numbers the entries
  pc,        \* per thread: "idle" | "insert" | "notify" | "join" | "joined"
  call,      \* per thread: the entry its schedule_*() call is to insert
  alive,     \* the destructor has not been entered
  loop,      \* job thread: "top" | "wait" | "woken" | "run" | "exit"
  deadline,  \* the time point of wait_until(); Never for wait()
  signalled, \* a notify_one() has reached the sleeping job thread
  running,   \* {} or the one entry whose function is being executed
  taken      \* history: the entries erased by the job thread to be executed

vars == <<clock, queue, posts, pc, call, alive, loop, deadline, signalled, running, taken>>
callerVars == <<posts, pc, call, alive>>
workerVars == <<loop, deadline, signalled, running, taken>>

Threads == Callers \cup {Worker}
Never == Horizon + 1

\* An entry of the queue: its key and type, and, for the properties, the thread
\* it was posted by, whether with schedule_job(), how many insertions preceded
\* that call's reading of the clock, and whether its function is null.
Call == [at : 0 .. Horizon, type : Types, by : Threads, prompt : BOOLEAN,
         after : Nat, null : BOOLEAN]
Entry == [seq : Nat, at : 0 .. Horizon, type : Types, by : Threads, prompt : BOOLEAN,
          after : Nat, null : BOOLEAN]

NoCall(t) == [at |-> 0, type |-> 0, by |-> t, prompt |-> FALSE, after |-> 0, null |-> FALSE]
Numbered(n, c) == [seq |-> n, at |-> c.at, type |-> c.type, by |-> c.by,
                   prompt |-> c.prompt, after |-> c.after, null |-> c.null]

-----------------------------------------------------------------------------
(* Names with a suffix after "_" are mistaken forms of the definition they  *)
(* are named after.  No specification uses them: the properties below are   *)
(* known to fail when one of them replaces the original.                    *)

Before_LastInFirstOut(e, f) == e.at < f.at \/ (e.at = f.at /\ e.seq > f.seq)

\* The order in which a multimap iterates: by key, equal keys in the order of
\* insertion.
Before(e, f) == e.at < f.at \/ (e.at = f.at /\ e.seq < f.seq)

\* m_job_queue.begin() refers to e
IsFirst(e) == e \in queue /\ \A f \in queue \ {e} : Before(e, f)

BeginWait_Untimed ==
  /\ loop = "top"
  /\ deadline' = Never
  /\ loop' = "wait"
  /\ UNCHANGED <<clock, queue, callerVars, signalled, running, taken>>

TakeJob_NotDue ==
  /\ loop = "woken"
  /\ \/ /\ queue = {}
        /\ loop' = "top"
        /\ UNCHANGED <<queue, running, taken>>
     \/ \E e \in queue :
          /\ IsFirst(e)
          /\ queue' = queue \ {e}
          /\ taken' = taken \cup {e}
          /\ loop' = IF e.null THEN "exit" ELSE "run"
          /\ running' = IF e.null THEN {} ELSE {e}
  /\ UNCHANGED <<clock, callerVars, deadline, signalled>>

NotifyOne_Dropped(t) ==
  /\ pc[t] = "notify"
  /\ pc' = [pc EXCEPT ![t] = IF call[t].null THEN "join" ELSE "idle"]
  /\ call' = [call EXCEPT ![t] = NoCall(t)]
  /\ UNCHANGED <<clock, queue, posts, alive, workerVars>>

DestroyBegin_AtEpoch(t) ==
  /\ t = Owner /\ alive
  /\ \A c \in Callers : pc[c] = "idle"
  /\ alive' = FALSE
  /\ pc' = [pc EXCEPT ![t] = "insert"]
  /\ call' = [call EXCEPT ![t] = [NoCall(t) EXCEPT !.null = TRUE]]
  /\ UNCHANGED <<clock, queue, posts, workerVars>>
-----------------------------------------------------------------------------

Init ==
  /\ clock = 0
  /\ queue = {}
  /\ posts = 0
  /\ pc = [t \in Threads |-> "idle"]
  /\ call = [t \in Threads |-> NoCall(t)]
  /\ alive = TRUE
  /\ loop = "top"
  /\ deadline = Never
  /\ signalled = FALSE
  /\ running = {}
  /\ taken = {}

Tick ==
  /\ clock < Horizon
  /\ clock' = clock + 1
  /\ UNCHANGED <<queue, callerVars, workerVars>>

\* Thread t may call a member function: a caller during the object's
\* lifetime, the job thread from within a function it executes.
MayCall(t) ==
  /\ pc[t] = "idle"
  /\ IF t = Worker THEN loop = "run" ELSE alive

\* The arguments of a call are evaluated, the lock is not taken yet.
Enter(t, at, ty, prompt, null) ==
  /\ pc' = [pc EXCEPT ![t] = "insert"]
  /\ call' = [call EXCEPT ![t] = [at |-> at, type |-> ty, by |-> t,
                                  prompt |-> prompt,
                                  after |-> IF prompt THEN posts ELSE 0, null |-> null]]
  /\ UNCHANGED <<clock, queue, posts, workerVars>>

\* Bound: another schedule_*() call may begin.
MayPost == posts + Cardinality({t \in Threads : pc[t] = "insert"}) < MaxPosts

\* schedule_job_at(func, timept, type)
ScheduleJobAt(t, at, ty) ==
  /\ MayCall(t) /\ MayPost
  /\ Enter(t, at, ty, FALSE, FALSE)
  /\ UNCHANGED alive

ScheduleJobIn_NowTwice(t, d, ty) ==
  /\ MayCall(t) /\ MayPost
  /\ clock + d <= Horizon
  /\ Enter(t, clock + (clock + d), ty, d = 0, FALSE)
  /\ UNCHANGED alive

\* schedule_job_in(func, duration, type), and with duration zero
\* schedule_job(func, type): clock::now() is read by the calling thread before
\* the lock is taken.
ScheduleJobIn(t, d, ty) ==
  /\ MayCall(t) /\ MayPost
  /\ clock + d <= Horizon
  /\ Enter(t, clock + d, ty, d = 0, FALSE)
  /\ UNCHANGED alive

\* The locked block of schedule_job_at().
Insert(t) ==
  /\ pc[t] = "insert"
  /\ posts' = posts + 1
  /\ queue' = queue \cup {Numbered(posts + 1, call[t])}
  /\ pc' = [pc EXCEPT ![t] = "notify"]
  /\ UNCHANGED <<clock, call, alive, workerVars>>

\* m_job_cond.notify_one(): it reaches the job thread only if that sleeps.
NotifyOne(t) ==
  /\ pc[t] = "notify"
  /\ signalled' = (signalled \/ loop = "wait")
  /\ pc' = [pc EXCEPT ![t] = IF call[t].null THEN "join" ELSE "idle"]
  /\ call' = [call EXCEPT ![t] = NoCall(t)]
  /\ UNCHANGED <<clock, queue, posts, alive, loop, deadline, running, taken>>

\* remove_type(type): only callers use it, never a job.
RemoveType(t, ty) ==
  /\ t \in Callers /\ MayCall(t)
  /\ queue' = {e \in queue : e.type # ty}
  /\ UNCHANGED <<clock, callerVars, workerVars>>

\* remove_all(): called by ~wiimote() only.
RemoveAll(t) ==
  /\ t \in Callers /\ MayCall(t)
  /\ queue' = {}
  /\ UNCHANGED <<clock, callerVars, workerVars>>

\* ~worker_thread(): schedule_job(nullptr).  The object is destroyed when no
\* other thread is inside one of its member functions.
DestroyBegin(t) ==
  /\ t = Owner /\ alive
  /\ \A c \in Callers : pc[c] = "idle"
  /\ alive' = FALSE
  /\ Enter(t, clock, 0, TRUE, TRUE)

\* ~worker_thread(): m_job_thread.join() returns.
Join ==
  /\ pc[Owner] = "join"
  /\ loop = "exit"
  /\ pc' = [pc EXCEPT ![Owner] = "joined"]
  /\ UNCHANGED <<clock, queue, posts, call, alive, workerVars>>

-----------------------------------------------------------------------------
(* job_thread_func() *)

\* Lock, look at the first key, and release the lock by going to sleep.
BeginWait ==
  /\ loop = "top"
  /\ \/ queue = {} /\ deadline' = Never
     \/ \E e \in queue : IsFirst(e) /\ deadline' = e.at
  /\ loop' = "wait"
  /\ UNCHANGED <<clock, queue, callerVars, signalled, running, taken>>

WakeUp ==
  /\ loop = "wait"
  /\ loop' = "woken"
  /\ deadline' = Never
  /\ signalled' = FALSE
  /\ UNCHANGED <<clock, queue, callerVars, running, taken>>

WakeTimeout == deadline # Never /\ clock >= deadline /\ WakeUp
WakeNotified == signalled /\ WakeUp
\* C++ allows wait() and wait_until() to return for no reason.
WakeSpurious == WakeUp

\* Woken, with the lock taken again: erase the first job if it is due.
TakeJob ==
  /\ loop = "woken"
  /\ \/ /\ \A e \in queue : IsFirst(e) => e.at > clock
        /\ loop' = "top"
        /\ UNCHANGED <<queue, running, taken>>
     \/ \E e \in queue :
          /\ IsFirst(e)
          /\ clock >= e.at
          /\ queue' = queue \ {e}
          /\ taken' = taken \cup {e}
          /\ loop' = IF e.null THEN "exit" ELSE "run"
          /\ running' = IF e.null THEN {} ELSE {e}
  /\ UNCHANGED <<clock, callerVars, deadline, signalled>>

\* job.func() returns.
FinishJob ==
  /\ loop = "run"
  /\ pc[Worker] = "idle"
  /\ loop' = "top"
  /\ running' = {}
  /\ UNCHANGED <<clock, queue, callerVars, deadline, signalled, taken>>

-----------------------------------------------------------------------------

Terminated == pc[Owner] = "joined" /\ UNCHANGED vars

Next ==
  \/ Tick
  \/ \E t \in Threads :
       \/ \E at \in 0 .. Horizon, ty \in Types : ScheduleJobAt(t, at, ty)
       \/ \E d \in 0 .. Horizon, ty \in Types : ScheduleJobIn(t, d, ty)
       \/ Insert(t)
       \/ NotifyOne(t)
       \/ \E ty \in Types : RemoveType(t, ty)
       \/ RemoveAll(t)
       \/ DestroyBegin(t)
  \/ Join
  \/ BeginWait
  \/ WakeTimeout
  \/ WakeNotified
  \/ WakeSpurious
  \/ TakeJob
  \/ FinishJob
  \/ Terminated

Spec == Init /\ [][Next]_vars

\* Time passes, and every thread that is inside the class goes on: the job
\* thread (its jobs return), a caller that has begun a call.  Nothing obliges a
\* caller to call, nor the condition variable to wake up spuriously.
Fairness ==
  /\ WF_vars(Tick)
  /\ WF_vars(BeginWait \/ WakeTimeout \/ WakeNotified \/ TakeJob)
  /\ WF_vars(FinishJob)
  /\ \A t \in Threads : WF_vars(Insert(t) \/ NotifyOne(t))
  /\ WF_vars(Join)

FairSpec == Spec /\ Fairness

-----------------------------------------------------------------------------

\* The state of the object and of the threads that use it is well formed.
TypeOK ==
  /\ clock \in 0 .. Horizon
  /\ queue \in SUBSET Entry
  /\ posts \in Nat
  /\ pc \in [Threads -> {"idle", "insert", "notify", "join", "joined"}]
  /\ call \in [Threads -> Call]
  /\ alive \in BOOLEAN
  /\ loop \in {"top", "wait", "woken", "run", "exit"}
  /\ deadline \in 0 .. Never
  /\ signalled \in BOOLEAN
  /\ running \in SUBSET Entry
  /\ taken \in SUBSET Entry

\* schedule_job() makes the queue first in, first out for its callers: a job
\* whose insertion was complete when another call of schedule_job() began is
\* executed before that call's job, although each call reads the clock before
\* it takes the lock, others may overtake it in between, and the clock may
\* stand still from one call to the next.
FirstInFirstOut ==
  \A e \in taken, f \in queue : e.prompt /\ f.prompt => ~ (f.seq <= e.after)

\* No wake-up is lost: while the job thread sleeps beyond the time point of a
\* queued job, a notification has reached it or a thread is about to send one.
SleepCovered ==
  loop = "wait" =>
    \/ signalled
    \/ \E t \in Threads : pc[t] = "notify"
    \/ \A e \in queue : deadline # Never /\ deadline <= e.at

\* When the job thread leaves its loop it has executed every job that a caller
\* posted with schedule_job() before the destructor, unless it was removed:
\* what the destructor abandons are jobs for later, and jobs posted by jobs.
DrainedAtExit ==
  loop = "exit" => \A e \in queue : ~(e.prompt /\ e.by \in Callers)

\* The destructor returns: its join() is not left waiting for a job thread that
\* sleeps, whatever is in the queue.
DestructorReturns == ~alive ~> pc[Owner] = "joined"

\* The class keeps the promise of JobSchedule: jobs start one at a time, in
\* order, never early, never after their removal, and (under the fairness
\* above) every due job is started.
Schedule == INSTANCE JobSchedule
              WITH Posters <- Threads, pending <- queue, halted <- (loop = "exit")

ImplementsSchedule == Schedule!FairSpec

=============================================================================

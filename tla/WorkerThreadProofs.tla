------------------------- MODULE WorkerThreadProofs --------------------------
(***************************************************************************)
(* Safety of WorkerThread, for every set of threads, every set of job      *)
(* types and every bound: its invariants, and that it implements the safety*)
(* part of JobSchedule.                                                    *)
(*                                                                         *)
(* The invariants of WorkerThread are not inductive.  Inv adds             *)
(*   - how entries are numbered (Numbering),                               *)
(*   - that schedule_job() reads a clock that does not go back, so that a   *)
(*     call that began after an insertion has no smaller key (PromptKeys), *)
(*   - when the null job exists and which jobs precede it (NullJob).       *)
(***************************************************************************)
EXTENDS WorkerThread, TLAPS

Inserting(t) == pc[t] = "insert"

\* Entries bear distinct numbers, none above the number of insertions, and an
\* entry that was taken is not in the queue.
Numbering ==
  /\ \A e \in queue : e.seq <= posts
  /\ \A e \in taken : e.seq <= posts
  /\ \A e \in queue, f \in queue : e.seq = f.seq => e = f
  /\ \A e \in taken, f \in queue : e.seq # f.seq
  /\ \A e \in queue : e.after < e.seq
  /\ \A e \in taken : e.after < e.seq
  /\ \A t \in Threads : call[t].by = t /\ call[t].after <= posts

\* A job posted with schedule_job() is keyed by a past reading of the clock,
\* and not before the jobs inserted before that reading.
PromptKeys ==
  /\ \A e \in queue : e.prompt => e.at <= clock
  /\ \A t \in Threads : call[t].prompt => call[t].at <= clock
  /\ \A e \in queue, t \in Threads :
       e.prompt /\ Inserting(t) /\ call[t].prompt /\ e.seq <= call[t].after
         => e.at <= call[t].at
  /\ \A e \in queue, f \in queue :
       e.prompt /\ f.prompt /\ e.seq <= f.after => e.at <= f.at

\* The null job is posted once, by the destructor, when no other caller is
\* inside the class, and every job a caller posted with schedule_job() comes
\* before it.
NullJob ==
  /\ \A t \in Threads : call[t].null => t = Owner /\ ~alive /\ call[t].prompt
  /\ ~alive => \A c \in Callers : Inserting(c) => c = Owner /\ call[c].null
  /\ ~alive => call[Owner].null \/ pc[Owner] \in {"join", "joined"}
  /\ (loop = "exit" \/ \E e \in queue : e.null) => ~alive /\ ~Inserting(Owner)
  /\ \A e \in queue : ~alive /\ Inserting(Owner) /\ e.prompt /\ e.by \in Callers
                        => e.at <= call[Owner].at
  /\ \A n \in queue, e \in queue :
       n.null /\ e.prompt /\ e.by \in Callers /\ e # n => Before(e, n)

\* A function is being executed only at that point of the loop.
OneJob == loop # "run" => running = {}

Inv ==
  /\ TypeOK
  /\ Numbering
  /\ PromptKeys
  /\ NullJob
  /\ OneJob
  /\ FirstInFirstOut
  /\ DrainedAtExit

-----------------------------------------------------------------------------

USE ThreadsAssumption, BoundsAssumption, TypesAssumption DEF Threads, Never

LEMMA EntryTyped ==
  ASSUME NEW c \in Call, NEW n \in Nat
  PROVE  Numbered(n, c) \in Entry
  BY DEF Numbered, Call, Entry

LEMMA NoCallTyped ==
  ASSUME NEW t \in Threads
  PROVE  NoCall(t) \in Call
  BY DEF NoCall, Call

\* A step leaves every variable of worker_thread in its type.
LEMMA TypeStep ==
  ASSUME TypeOK, Next
  PROVE  TypeOK'
<1>1. CASE Tick
  BY <1>1 DEF TypeOK, Tick, callerVars, workerVars
<1>2. ASSUME NEW t \in Threads, NEW at \in 0 .. Horizon, NEW ty \in Types,
             ScheduleJobAt(t, at, ty)
      PROVE  TypeOK'
  BY <1>2 DEF TypeOK, ScheduleJobAt, Enter, Call, workerVars
<1>3. ASSUME NEW t \in Threads, NEW d \in 0 .. Horizon, NEW ty \in Types,
             ScheduleJobIn(t, d, ty)
      PROVE  TypeOK'
  BY <1>3 DEF TypeOK, ScheduleJobIn, Enter, Call, workerVars
<1>4. ASSUME NEW t \in Threads, Insert(t)
      PROVE  TypeOK'
  BY <1>4, EntryTyped DEF TypeOK, Insert, workerVars
<1>5. ASSUME NEW t \in Threads, NotifyOne(t)
      PROVE  TypeOK'
  BY <1>5, NoCallTyped DEF TypeOK, NotifyOne
<1>6. ASSUME NEW t \in Threads, NEW ty \in Types, RemoveType(t, ty)
      PROVE  TypeOK'
  BY <1>6 DEF TypeOK, RemoveType, callerVars, workerVars
<1>7. ASSUME NEW t \in Threads, RemoveAll(t)
      PROVE  TypeOK'
  BY <1>7 DEF TypeOK, RemoveAll, callerVars, workerVars
<1>8. ASSUME NEW t \in Threads, DestroyBegin(t)
      PROVE  TypeOK'
  BY <1>8 DEF TypeOK, DestroyBegin, Enter, Call, workerVars
<1>9. CASE Join
  BY <1>9 DEF TypeOK, Join, workerVars
<1>10. CASE BeginWait
  BY <1>10 DEF TypeOK, BeginWait, IsFirst, Entry, callerVars
<1>11. CASE WakeUp
  <2>1. signalled' \in BOOLEAN
    BY <1>11 DEF WakeUp
  <2>2. deadline' \in 0 .. Never
    BY <1>11 DEF WakeUp
  <2> QED
    BY <1>11, <2>1, <2>2, Zenon DEF TypeOK, WakeUp, callerVars
<1>12. CASE TakeJob
  BY <1>12 DEF TypeOK, TakeJob, callerVars
<1>13. CASE FinishJob
  BY <1>13 DEF TypeOK, FinishJob, callerVars
<1>14. CASE UNCHANGED vars
  BY <1>14 DEF TypeOK, vars
<1> QED
  BY <1>1, <1>2, <1>3, <1>4, <1>5, <1>6, <1>7, <1>8, <1>9, <1>10, <1>11, <1>12, <1>13, <1>14
     DEF Next, WakeTimeout, WakeNotified, WakeSpurious, Terminated

LEMMA TypeInit == Init => TypeOK
<1> SUFFICES ASSUME Init PROVE TypeOK
  OBVIOUS
<1>1. signalled \in BOOLEAN /\ alive \in BOOLEAN
  BY DEF Init
<1>2. clock \in 0 .. Horizon /\ posts \in Nat /\ deadline \in 0 .. Never
  BY DEF Init
<1>3. pc \in [Threads -> {"idle", "insert", "notify", "join", "joined"}]
  BY DEF Init
<1>4. call \in [Threads -> Call]
  BY NoCallTyped DEF Init
<1>5. loop \in {"top", "wait", "woken", "run", "exit"}
  BY DEF Init
<1>6. queue = {} /\ running = {} /\ taken = {}
  BY DEF Init
<1> QED
  BY <1>1, <1>2, <1>3, <1>4, <1>5, <1>6, Zenon DEF TypeOK

-----------------------------------------------------------------------------
(* The steps that neither add, remove nor prepare an entry. *)

Quiet ==
  /\ UNCHANGED <<queue, posts, pc, call, alive, taken>>
  /\ clock' \in Nat /\ clock <= clock'
  /\ loop' = "exit" => loop = "exit"

LEMMA QuietStep ==
  ASSUME TypeOK, Tick \/ BeginWait \/ WakeUp \/ FinishJob \/ UNCHANGED vars
  PROVE  Quiet
  BY DEF TypeOK, Quiet, Tick, BeginWait, WakeUp, FinishJob, vars, callerVars, workerVars

\* Entries keep distinct numbers: only an insertion makes an entry, and it
\* takes a number that none has.
LEMMA NumberingStep ==
  ASSUME Inv, Next
  PROVE  Numbering'
<1> USE DEF Inv, Numbering
<1>1. CASE Quiet
  BY <1>1 DEF Quiet
<1>2. ASSUME NEW t \in Threads, NEW at, NEW ty, NEW prompt, NEW null,
             Enter(t, at, ty, prompt, null)
      PROVE  Numbering'
  BY <1>2 DEF Enter, TypeOK, workerVars
<1>3. ASSUME NEW t \in Threads, Insert(t)
      PROVE  Numbering'
  <2> DEFINE new == Numbered(posts + 1, call[t])
  <2>1. /\ queue' = queue \cup {new} /\ posts' = posts + 1 /\ UNCHANGED <<call, taken>>
        /\ new.seq = posts + 1 /\ new.after = call[t].after
    BY <1>3 DEF Insert, Numbered, workerVars
  <2>2. /\ posts \in Nat /\ call[t].after \in Nat
        /\ \A e \in queue \cup taken : e.seq \in Nat /\ e.seq <= posts
        /\ \A u \in Threads : call[u].after \in Nat
    BY DEF TypeOK, Call, Entry
  <2> QED
    BY <2>1, <2>2
<1>4. ASSUME NEW t \in Threads, NotifyOne(t)
      PROVE  Numbering'
  BY <1>4 DEF NotifyOne, NoCall, TypeOK
<1>5. ASSUME NEW t \in Threads, NEW ty \in Types, RemoveType(t, ty) \/ RemoveAll(t)
      PROVE  Numbering'
  BY <1>5 DEF RemoveType, RemoveAll, callerVars, workerVars
<1>6. CASE Join
  BY <1>6 DEF Join, workerVars
<1>7. CASE TakeJob
  BY <1>7 DEF TakeJob, TypeOK, callerVars
<1> QED
  BY <1>1, <1>2, <1>3, <1>4, <1>5, <1>6, <1>7, QuietStep, Zenon
     DEF Next, WakeTimeout, WakeNotified, WakeSpurious, Terminated,
         ScheduleJobAt, ScheduleJobIn, DestroyBegin

\* The keys of schedule_job() follow its calls: the clock does not go back.
LEMMA PromptKeysStep ==
  ASSUME Inv, Next
  PROVE  PromptKeys'
<1> USE DEF Inv, PromptKeys, Inserting
<1> SUFFICES ASSUME TypeOK'
             PROVE  PromptKeys'
  BY TypeStep
<1>1. CASE Quiet
  BY <1>1 DEF Quiet, TypeOK, Entry, Call
<1>2. ASSUME NEW t \in Threads, NEW at \in 0 .. Horizon, NEW ty, NEW prompt, NEW null,
             pc[t] = "idle", prompt => at = clock, Enter(t, at, ty, prompt, null)
      PROVE  PromptKeys'
  BY <1>2 DEF Enter, TypeOK, workerVars
<1>3. ASSUME NEW t \in Threads, Insert(t)
      PROVE  PromptKeys'
  <2> DEFINE new == Numbered(posts + 1, call[t])
  <2>1. /\ queue' = queue \cup {new} /\ UNCHANGED <<clock, call>>
        /\ new.seq = posts + 1 /\ new.at = call[t].at
        /\ new.after = call[t].after /\ new.prompt = call[t].prompt
    BY <1>3 DEF Insert, Numbered, Numbering
  <2>2. \A u \in Threads : pc'[u] = "insert" => u # t /\ pc[u] = "insert"
    BY <1>3 DEF Insert, TypeOK
  <2>3. \A e \in queue : e.seq <= posts /\ e.seq \in Nat /\ e.after < e.seq /\ e.after \in Nat
    BY DEF Numbering, TypeOK, Entry
  <2>4. clock \in Nat /\ posts \in Nat /\ pc[t] = "insert"
        /\ call[t].after \in Nat /\ call[t].after <= posts
    BY <1>3 DEF TypeOK, Insert, Call, Numbering
  <2>5. \A e \in queue' : e.prompt => e.at <= clock'
    BY <2>1
  <2>6. \A e \in queue', u \in Threads :
          e.prompt /\ pc'[u] = "insert" /\ call'[u].prompt /\ e.seq <= call'[u].after
            => e.at <= call'[u].at
    <3>1. \A u \in Threads : call[u].after \in Nat /\ call[u].after <= posts
      BY DEF Numbering, TypeOK, Call
    <3> QED
      BY <2>1, <2>2, <2>4, <3>1
  <2>7. ASSUME NEW e \in queue', NEW f \in queue',
               e.prompt, f.prompt, e.seq <= f.after
        PROVE  e.at <= f.at
    <3>1. CASE e \in queue /\ f \in queue
      BY <2>7, <3>1
    <3>2. CASE e \in queue /\ f = new
      BY <2>1, <2>4, <2>7, <3>2
    <3>3. CASE e = new
      BY <2>1, <2>3, <2>4, <2>7, <3>3
    <3> QED
      BY <2>1, <3>1, <3>2, <3>3
  <2> QED
    BY <2>1, <2>5, <2>6, <2>7
<1>4. ASSUME NEW t \in Threads, NotifyOne(t)
      PROVE  PromptKeys'
  BY <1>4 DEF NotifyOne, NoCall, TypeOK
<1>5. ASSUME NEW t \in Threads, NEW ty \in Types, RemoveType(t, ty) \/ RemoveAll(t)
      PROVE  PromptKeys'
  BY <1>5 DEF RemoveType, RemoveAll, callerVars, workerVars
<1>6. CASE Join
  BY <1>6 DEF Join, TypeOK
<1>7. CASE TakeJob
  BY <1>7 DEF TakeJob, callerVars
<1>8. ASSUME NEW t \in Threads, NEW d \in 0 .. Horizon, NEW ty \in Types,
             ScheduleJobIn(t, d, ty)
      PROVE  PromptKeys'
  <2>1. clock + d \in 0 .. Horizon /\ ((d = 0) => clock + d = clock)
    BY <1>8 DEF ScheduleJobIn, TypeOK
  <2> QED
    BY <1>2, <1>8, <2>1 DEF ScheduleJobIn, MayCall
<1>9. ASSUME NEW t \in Threads, DestroyBegin(t)
      PROVE  PromptKeys'
  <2>1. clock \in 0 .. Horizon
    BY DEF TypeOK
  <2> QED
    BY <1>2, <1>9, <2>1 DEF DestroyBegin
<1>10. ASSUME NEW t \in Threads, NEW at \in 0 .. Horizon, NEW ty \in Types,
              ScheduleJobAt(t, at, ty)
       PROVE  PromptKeys'
  BY <1>2, <1>10 DEF ScheduleJobAt, MayCall
<1> QED
  BY <1>1, <1>3, <1>4, <1>5, <1>6, <1>7, <1>8, <1>9, <1>10, QuietStep, Zenon
     DEF Next, WakeTimeout, WakeNotified, WakeSpurious, Terminated

\* The null job enters the queue behind every job that a caller posted with
\* schedule_job(): when the destructor begins no other caller is inside the
\* class, and its key is not smaller than theirs.
LEMMA NullJobStep ==
  ASSUME Inv, Next
  PROVE  NullJob'
<1> USE DEF Inv, NullJob, Inserting
<1>1. CASE Quiet
  BY <1>1 DEF Quiet, Before
<1>2. ASSUME NEW t \in Threads, NEW at \in 0 .. Horizon, NEW ty, NEW prompt,
             MayCall(t), Enter(t, at, ty, prompt, FALSE), alive' = alive
      PROVE  NullJob'
  <2>1. t = Worker \/ alive
    BY <1>2 DEF MayCall
  <2>2. pc[t] = "idle" /\ pc'[t] = "insert" /\ call'[t].null = FALSE
    BY <1>2 DEF MayCall, Enter, TypeOK
  <2>3. \A u \in Threads \ {t} : pc'[u] = pc[u] /\ call'[u] = call[u]
    BY <1>2 DEF Enter, TypeOK
  <2>4. UNCHANGED <<queue, alive, loop>>
    BY <1>2 DEF Enter, workerVars
  <2> QED
    BY <2>1, <2>2, <2>3, <2>4 DEF Before
<1>3. ASSUME NEW t \in Threads, Insert(t)
      PROVE  NullJob'
  <2> DEFINE new == Numbered(posts + 1, call[t])
  <2>1. /\ queue' = queue \cup {new} /\ UNCHANGED <<call, alive, loop>>
        /\ new.seq = posts + 1 /\ new.at = call[t].at /\ new.null = call[t].null
        /\ new.by = t /\ new.prompt = call[t].prompt
    BY <1>3 DEF Insert, Numbered, Numbering, workerVars
  <2>2. \A u \in Threads : IF u = t THEN pc'[u] = "notify" ELSE pc'[u] = pc[u]
    BY <1>3 DEF Insert, TypeOK
  <2>3. \A e \in queue : e.seq <= posts /\ e.seq \in Nat /\ e.at \in Nat
    BY DEF Numbering, TypeOK, Entry
  <2>4. posts \in Nat /\ pc[t] = "insert" /\ call[t].at \in Nat
    BY <1>3 DEF TypeOK, Insert, Call
  <2>5. ASSUME NEW n \in queue', NEW e \in queue',
               n.null, e.prompt, e.by \in Callers, e # n
        PROVE  Before(e, n)
    <3>1. CASE n \in queue /\ e \in queue
      BY <2>5, <3>1
    <3>2. CASE n \in queue /\ e = new
      BY <2>1, <2>4, <2>5, <3>2
    <3>3. CASE n = new /\ e \in queue
      <4>1. t = Owner /\ ~alive
        BY <2>1, <2>5, <3>3
      <4>2. e.at <= n.at
        BY <2>1, <2>4, <2>5, <3>3, <4>1
      <4> QED
        BY <2>1, <2>3, <2>4, <3>3, <4>2 DEF Before
    <3> QED
      BY <2>1, <2>5, <3>1, <3>2, <3>3
  <2>6. (loop' = "exit" \/ \E e \in queue' : e.null) => ~alive' /\ pc'[Owner] # "insert"
    BY <2>1, <2>2
  <2>7. \A e \in queue' : ~alive' /\ pc'[Owner] = "insert" /\ e.prompt /\ e.by \in Callers
                          => e.at <= call'[Owner].at
    BY <2>1, <2>2, <2>4
  <2> QED
    BY <2>1, <2>2, <2>4, <2>5, <2>6, <2>7
<1>4. ASSUME NEW t \in Threads, NotifyOne(t)
      PROVE  NullJob'
  <2>1. \A u \in Threads : u # t => pc'[u] = pc[u] /\ call'[u] = call[u]
    BY <1>4 DEF NotifyOne, TypeOK
  <2>2. call'[t] = NoCall(t) /\ pc[t] = "notify"
        /\ pc'[t] = IF call[t].null THEN "join" ELSE "idle"
    BY <1>4 DEF NotifyOne, TypeOK
  <2>3. UNCHANGED <<queue, alive, loop>>
    BY <1>4 DEF NotifyOne
  <2>4. ~alive /\ t = Owner => call[t].null
    BY <2>2
  <2> QED
    BY <2>1, <2>2, <2>3, <2>4 DEF NoCall, Before
<1>5. ASSUME NEW t \in Threads, NEW ty \in Types, RemoveType(t, ty) \/ RemoveAll(t)
      PROVE  NullJob'
  BY <1>5 DEF RemoveType, RemoveAll, callerVars, workerVars, Before
<1>6. CASE Join
  BY <1>6 DEF Join, TypeOK, workerVars, Before
<1>7. CASE TakeJob
  <2>1. queue' \subseteq queue /\ UNCHANGED <<pc, call, alive>>
    BY <1>7 DEF TakeJob, callerVars
  <2>2. loop' = "exit" => \E e \in queue : e.null
    BY <1>7 DEF TakeJob
  <2> QED
    BY <2>1, <2>2 DEF Before
<1>8. ASSUME NEW t \in Threads, DestroyBegin(t)
      PROVE  NullJob'
  <2>1. t = Owner /\ alive /\ alive' = FALSE /\ UNCHANGED <<queue, loop>>
        /\ \A c \in Callers : pc[c] = "idle"
    BY <1>8 DEF DestroyBegin, Enter, workerVars
  <2>2. /\ pc'[Owner] = "insert" /\ call'[Owner].null
        /\ call'[Owner].prompt /\ call'[Owner].at = clock
    BY <1>8 DEF DestroyBegin, Enter, TypeOK
  <2>3. \A u \in Threads \ {Owner} : pc'[u] = pc[u] /\ call'[u] = call[u]
    BY <1>8 DEF DestroyBegin, Enter, TypeOK
  <2> QED
    BY <2>1, <2>2, <2>3 DEF PromptKeys
<1>9. ASSUME NEW t \in Threads, NEW d \in 0 .. Horizon, NEW ty \in Types,
             ScheduleJobIn(t, d, ty)
      PROVE  NullJob'
  <2>1. clock + d \in 0 .. Horizon
    BY <1>9 DEF ScheduleJobIn, TypeOK
  <2> QED
    BY <1>2, <1>9, <2>1 DEF ScheduleJobIn
<1>10. ASSUME NEW t \in Threads, NEW at \in 0 .. Horizon, NEW ty \in Types,
              ScheduleJobAt(t, at, ty)
       PROVE  NullJob'
  BY <1>2, <1>10 DEF ScheduleJobAt
<1> QED
  BY <1>1, <1>3, <1>4, <1>5, <1>6, <1>7, <1>8, <1>9, <1>10, QuietStep, Zenon
     DEF Next, WakeTimeout, WakeNotified, WakeSpurious, Terminated

LEMMA OneJobStep ==
  ASSUME Inv, Next
  PROVE  OneJob'
  BY DEF Inv, OneJob, Next, Tick, ScheduleJobAt, ScheduleJobIn, DestroyBegin, Enter, Insert,
         NotifyOne, RemoveType, RemoveAll, Join, BeginWait, WakeTimeout, WakeNotified,
         WakeSpurious, WakeUp, TakeJob, FinishJob, Terminated, vars, workerVars

\* A job is taken only when it is the first of the queue, and a job inserted
\* later has a larger number than any insertion that a job taken came after.
LEMMA FirstInFirstOutStep ==
  ASSUME Inv, Next
  PROVE  FirstInFirstOut'
<1> USE DEF Inv, FirstInFirstOut
<1>1. CASE Quiet
  BY <1>1 DEF Quiet
<1>2. CASE UNCHANGED <<queue, taken>>
  BY <1>2
<1>3. ASSUME NEW t \in Threads, Insert(t)
      PROVE  FirstInFirstOut'
  <2>1. \A f \in queue' : f \in queue \/ f.seq = posts + 1
    BY <1>3 DEF Insert, Numbered
  <2>2. \A e \in taken : /\ e.seq <= posts /\ e.after < e.seq
                         /\ e.seq \in Nat /\ e.after \in Nat /\ posts \in Nat
    BY DEF Numbering, TypeOK, Entry
  <2> QED
    BY <1>3, <2>1, <2>2 DEF Insert, workerVars
<1>4. ASSUME queue' \subseteq queue, taken' = taken
      PROVE  FirstInFirstOut'
  BY <1>4
<1>5. CASE TakeJob
  <2>1. CASE UNCHANGED <<queue, taken>>
    BY <1>2, <2>1
  <2>2. ASSUME NEW first \in queue, IsFirst(first),
               queue' = queue \ {first}, taken' = taken \cup {first}
        PROVE  FirstInFirstOut'
    <3>1. \A f \in queue' : f.prompt /\ first.prompt => ~ (f.seq <= first.after)
      BY <2>2 DEF IsFirst, Before, PromptKeys, Numbering, TypeOK, Entry
    <3> QED
      BY <2>2, <3>1
  <2> QED
    BY <1>5, <2>1, <2>2 DEF TakeJob
<1> QED
  BY <1>1, <1>2, <1>3, <1>4, <1>5, QuietStep
     DEF Next, WakeTimeout, WakeNotified, WakeSpurious, Terminated, ScheduleJobAt,
         ScheduleJobIn, DestroyBegin, Enter, NotifyOne, RemoveType, RemoveAll, Join,
         vars, callerVars, workerVars

\* The loop ends by taking the null job, the first of the queue, which every
\* schedule_job() of a caller precedes; afterwards no caller inserts.
LEMMA DrainedStep ==
  ASSUME Inv, Next
  PROVE  DrainedAtExit'
<1> USE DEF Inv, DrainedAtExit
<1>1. CASE Quiet
  BY <1>1 DEF Quiet
<1>2. ASSUME queue' \subseteq queue, loop' = loop
      PROVE  DrainedAtExit'
  BY <1>2
<1>3. ASSUME NEW t \in Threads, Insert(t)
      PROVE  DrainedAtExit'
  <2>1. loop = "exit" => t \notin Callers
    BY <1>3 DEF Insert, NullJob, Inserting
  <2>2. queue' = queue \cup {Numbered(posts + 1, call[t])} /\ loop' = loop
    BY <1>3 DEF Insert, workerVars
  <2>3. Numbered(posts + 1, call[t]).by = t
    BY DEF Numbered, Numbering
  <2> QED
    BY <2>1, <2>2, <2>3
<1>4. CASE TakeJob
  <2>1. ASSUME NEW first \in queue, IsFirst(first), first.null, queue' = queue \ {first}
        PROVE  DrainedAtExit'
    <3>1. ASSUME NEW e \in queue', e.prompt, e.by \in Callers
          PROVE  FALSE
      <4>1. Before(e, first)
        BY <2>1, <3>1 DEF NullJob
      <4>2. Before(first, e)
        BY <2>1, <3>1 DEF IsFirst
      <4> QED
        BY <2>1, <3>1, <4>1, <4>2 DEF Before, TypeOK, Entry
    <3> QED
      BY <3>1
  <2> QED
    BY <1>4, <2>1 DEF TakeJob
<1> QED
  BY <1>1, <1>2, <1>3, <1>4, QuietStep
     DEF Next, WakeTimeout, WakeNotified, WakeSpurious, Terminated, ScheduleJobAt,
         ScheduleJobIn, DestroyBegin, Enter, NotifyOne, RemoveType, RemoveAll, Join,
         vars, callerVars, workerVars

\* Every part of the invariant holds initially.
LEMMA InvInit == Init => Inv
  BY TypeInit DEF Init, Inv, Numbering, PromptKeys, NullJob, Inserting, OneJob,
                  FirstInFirstOut, DrainedAtExit, NoCall

\* No step, and no stutter, breaks the invariant.
LEMMA InvStep == Inv /\ [Next]_vars => Inv'
<1>1. CASE Inv /\ Next
  BY <1>1, TypeStep, NumberingStep, PromptKeysStep, NullJobStep, OneJobStep,
     FirstInFirstOutStep, DrainedStep DEF Inv
<1>2. CASE Inv /\ UNCHANGED vars
  BY <1>2 DEF Inv, vars, TypeOK, Numbering, PromptKeys, NullJob, Inserting, OneJob,
              FirstInFirstOut, DrainedAtExit, Before
<1> QED
  BY <1>1, <1>2

\* The invariant holds in every behaviour.
THEOREM Invariance == Spec => []Inv
  BY InvInit, InvStep, PTL DEF Spec

\* The state of worker_thread and of the threads that use it is well formed.
THEOREM TypeCorrect == Spec => []TypeOK
<1>1. Inv => TypeOK
  BY DEF Inv
<1> QED
  BY <1>1, Invariance, PTL

\* The queue is first in, first out for the callers of schedule_job(), however
\* the clock and the other threads move between the reading of the clock and
\* the insertion.
THEOREM JobsKeepOrder == Spec => []FirstInFirstOut
<1>1. Inv => FirstInFirstOut
  BY DEF Inv
<1> QED
  BY <1>1, Invariance, PTL

\* When the job thread leaves its loop, no job that a caller posted with
\* schedule_job() before the destructor is left unexecuted.
THEOREM QueueDrained == Spec => []DrainedAtExit
<1>1. Inv => DrainedAtExit
  BY DEF Inv
<1> QED
  BY <1>1, Invariance, PTL

-----------------------------------------------------------------------------

\* Between the insertion of a job and its notification the inserting thread is
\* at "notify"; afterwards a sleeping job thread has been signalled.
LEMMA SleepCoveredStep ==
  ASSUME Inv, SleepCovered, Next
  PROVE  SleepCovered'
<1> USE DEF Inv, SleepCovered
<1>1. ASSUME NEW t \in Threads, Insert(t)
      PROVE  SleepCovered'
  BY <1>1 DEF Insert, TypeOK
<1>2. ASSUME NEW t \in Threads, NotifyOne(t)
      PROVE  SleepCovered'
  BY <1>2 DEF NotifyOne
<1>3. ASSUME NEW t \in Threads, NEW at, NEW ty, NEW prompt, NEW null,
             pc[t] = "idle", Enter(t, at, ty, prompt, null)
      PROVE  SleepCovered'
  <2>1. \A u \in Threads : pc[u] = "notify" => pc'[u] = "notify"
    BY <1>3 DEF Enter, TypeOK
  <2> QED
    BY <1>3, <2>1 DEF Enter, workerVars
<1>4. ASSUME queue' \subseteq queue, UNCHANGED <<pc, loop, deadline, signalled>>
      PROVE  SleepCovered'
  BY <1>4
<1>5. CASE BeginWait
  BY <1>5 DEF BeginWait, IsFirst, Before, TypeOK, Entry
<1>6. ASSUME loop' # "wait"
      PROVE  SleepCovered'
  BY <1>6
<1>7. CASE Join
  <2>1. \A u \in Threads : pc[u] = "notify" => pc'[u] = "notify"
    BY <1>7 DEF Join, TypeOK
  <2> QED
    BY <1>7, <2>1 DEF Join, workerVars
<1>8. CASE TakeJob
  BY <1>6, <1>8 DEF TakeJob
<1>9. ASSUME NEW t \in Threads, DestroyBegin(t)
      PROVE  SleepCovered'
  BY <1>3, <1>9 DEF DestroyBegin
<1>10. ASSUME NEW t \in Threads, NEW ty, NEW x, ScheduleJobAt(t, x, ty) \/ ScheduleJobIn(t, x, ty)
       PROVE  SleepCovered'
  BY <1>3, <1>10 DEF ScheduleJobAt, ScheduleJobIn, MayCall
<1>11. ASSUME Tick \/ UNCHANGED vars
       PROVE  SleepCovered'
  BY <1>4, <1>11 DEF Tick, vars, callerVars, workerVars
<1>12. ASSUME WakeUp \/ FinishJob
       PROVE  SleepCovered'
  BY <1>6, <1>12 DEF WakeUp, FinishJob
<1>13. ASSUME NEW t \in Threads, NEW ty, RemoveType(t, ty) \/ RemoveAll(t)
       PROVE  SleepCovered'
  BY <1>4, <1>13 DEF RemoveType, RemoveAll, callerVars, workerVars
<1> QED
  BY <1>1, <1>2, <1>5, <1>7, <1>8, <1>9, <1>10, <1>11, <1>12, <1>13, Zenon
     DEF Next, WakeTimeout, WakeNotified, WakeSpurious, Terminated

\* No wake-up is lost.
THEOREM NoLostWakeUp == Spec => []SleepCovered
<1>1. Init => SleepCovered
  BY DEF Init, SleepCovered
<1>2. Inv /\ SleepCovered /\ [Next]_vars => SleepCovered'
  <2>1. CASE UNCHANGED vars
    BY <2>1 DEF SleepCovered, vars
  <2> QED
    BY <2>1, SleepCoveredStep
<1> QED
  BY <1>1, <1>2, Invariance, PTL DEF Spec

-----------------------------------------------------------------------------

LEMMA ScheduleInit == Init => Schedule!Init
  BY DEF Init, Schedule!Init

\* Every step of the class is a step of the schedule, or changes nothing the
\* schedule speaks of.
LEMMA ScheduleStep ==
  ASSUME Inv, [Next]_vars
  PROVE  [Schedule!Next]_Schedule!vars
<1> USE DEF Inv, Schedule!vars
<1>1. CASE Tick
  <2>1. Schedule!Tick
    BY <1>1 DEF Tick, Schedule!Tick, callerVars, workerVars
  <2> QED
    BY <2>1 DEF Schedule!Next
<1>2. ASSUME NEW t \in Threads, Insert(t)
      PROVE  Schedule!Next
  <2>1. call[t] \in Call
    BY DEF TypeOK
  <2>2. /\ call[t].at \in 0 .. Horizon /\ call[t].type \in Types /\ call[t].by \in Threads
        /\ call[t].prompt \in BOOLEAN /\ call[t].null \in BOOLEAN
        /\ call[t].after \in 0 .. posts
    BY <2>1 DEF Call, Numbering, TypeOK
  <2>3. /\ posts' = posts + 1 /\ UNCHANGED <<clock, running, loop>>
        /\ queue' = queue \cup {[seq |-> posts + 1, at |-> call[t].at, type |-> call[t].type,
                                 by |-> call[t].by, prompt |-> call[t].prompt,
                                 after |-> call[t].after, null |-> call[t].null]}
    BY <1>2 DEF Insert, Numbered, workerVars
  <2>4. Schedule!Post
    <3>1. UNCHANGED <<clock, running, loop = "exit">>
      BY <2>3
    <3> HIDE DEF Threads
    <3> QED
      BY <2>2, <2>3, <3>1, Zenon DEF Schedule!Post
  <2> QED
    BY <2>4 DEF Schedule!Next
<1>3. ASSUME NEW t \in Threads, NEW ty, RemoveType(t, ty) \/ RemoveAll(t)
      PROVE  Schedule!Next
  <2>1. Schedule!Cancel
    BY <1>3 DEF RemoveType, RemoveAll, Schedule!Cancel, callerVars, workerVars
  <2> QED
    BY <2>1 DEF Schedule!Next
<1>4. CASE TakeJob
  <2>1. loop = "woken" /\ running = {}
    BY <1>4 DEF TakeJob, OneJob
  <2>2. ASSUME NEW e \in queue, IsFirst(e), clock >= e.at, queue' = queue \ {e},
               loop' = (IF e.null THEN "exit" ELSE "run"),
               running' = (IF e.null THEN {} ELSE {e})
        PROVE  Schedule!Next
    <3>1. Schedule!Due(e)
      BY <2>2 DEF Schedule!Due, Schedule!Precedes, IsFirst, Before, TypeOK, Entry
    <3>2. UNCHANGED <<clock, posts>>
      BY <1>4 DEF TakeJob, callerVars
    <3>3. CASE e.null
      <4>1. Schedule!Halt
        BY <2>1, <2>2, <3>1, <3>2, <3>3 DEF Schedule!Halt
      <4> QED
        BY <4>1 DEF Schedule!Next
    <3>4. CASE ~e.null
      <4>1. Schedule!Start
        BY <2>1, <2>2, <3>1, <3>2, <3>4 DEF Schedule!Start
      <4> QED
        BY <4>1 DEF Schedule!Next
    <3> QED
      BY <3>3, <3>4
  <2>3. CASE UNCHANGED <<queue, running>> /\ loop' = "top"
    BY <1>4, <2>1, <2>3 DEF TakeJob, callerVars
  <2> QED
    BY <1>4, <2>2, <2>3 DEF TakeJob
<1>5. CASE FinishJob
  <2>1. CASE running = {}
    BY <1>5, <2>1 DEF FinishJob, callerVars
  <2>2. CASE running # {}
    <3>1. Schedule!Finish
      BY <1>5, <2>2 DEF FinishJob, Schedule!Finish, callerVars
    <3> QED
      BY <3>1 DEF Schedule!Next
  <2> QED
    BY <2>1, <2>2
<1>6. ASSUME BeginWait \/ WakeUp
      PROVE  UNCHANGED Schedule!vars
  BY <1>6 DEF BeginWait, WakeUp, callerVars
<1>7. ASSUME NEW t, NEW at, NEW ty, NEW prompt, NEW null, Enter(t, at, ty, prompt, null)
      PROVE  UNCHANGED Schedule!vars
  BY <1>7 DEF Enter, workerVars
<1>8. ASSUME NEW t \in Threads, NotifyOne(t)
      PROVE  UNCHANGED Schedule!vars
  BY <1>8 DEF NotifyOne
<1>9. CASE Join
  BY <1>9 DEF Join, workerVars
<1>10. CASE UNCHANGED vars
  BY <1>10 DEF vars
<1> QED
  BY <1>1, <1>2, <1>3, <1>4, <1>5, <1>6, <1>7, <1>8, <1>9, <1>10, Zenon
     DEF Next, WakeTimeout, WakeNotified, WakeSpurious, Terminated, ScheduleJobAt,
         ScheduleJobIn, DestroyBegin

\* The class implements JobSchedule: jobs start one at a time, in key order,
\* never before their time point and never after they were removed, and nothing
\* starts after the null job.
THEOREM SafetyOfSchedule == Spec => Schedule!Spec
  BY ScheduleInit, ScheduleStep, Invariance, PTL DEF Spec, Schedule!Spec

=============================================================================

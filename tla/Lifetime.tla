------------------------------ MODULE Lifetime -------------------------------
(***************************************************************************)
(* The life of a wio::wiimote after its constructor has returned           *)
(* (wiimoteio/wiimote.h): jobs at once and jobs for later, the rumble      *)
(* flag, close(), ~wiimote() and the destruction of the members, in the    *)
(* reverse of the order in which the class declares them, while the job    *)
(* thread and the callback of the reader thread go on.                     *)
(*                                                                         *)
(* m_device is what Device promises.  m_worker is the schedule that        *)
(* JobSchedule promises, without the clock: due holds the jobs whose time  *)
(* has come, in order, and a job for later becomes due at some moment.     *)
(* What jobs carry, and what handlers do with reports, is the subject of   *)
(* Wiimote and Speaker; here a job is one of four kinds.                   *)
(*                                                                         *)
(* A definition with a suffix after "_" is a mistaken form of the one that *)
(* follows it; no specification uses it, and a property fails with it.     *)
(***************************************************************************)
EXTENDS Naturals, Sequences

CONSTANTS
  JobThread,  \* the thread of m_worker, which writes to the device
  Caller,     \* a thread of the application that calls speaker_stream()
  MaxInputs,  \* bound: input reports
  MaxPosts    \* bound: calls of the application and jobs posted by the callback

ASSUME ThreadsAssumption == JobThread # Caller
ASSUME BoundsAssumption == MaxInputs \in Nat /\ MaxPosts \in Nat

VARIABLES
  phase, calling, given, writing, sent, spent,  \* m_device, see Device
  due,       \* m_job_queue: the jobs whose time point has come
  later,     \* m_job_queue: how many jobs of each kind wait for theirs
  job,       \* the job thread: "idle", at a job, in send_report(), or "ended"
  bit,       \* per writer: the motor bit of the report it writes
  rumble,    \* m_state.rumble
  kept,      \* history: the rumble was switched on by set_rumble(true)
  starting,  \* threads in rumble_until() that have not posted their job yet
  motor,     \* the remote's motor
  takesLock, \* the flags make update_reporting_mode() change m_read_handlers
  stuck,     \* the callback waits for the lock that it holds itself
  life,      \* where the owner is in the life of the object
  posts      \* counter of the bound

deviceVars == <<phase, calling, given, writing, sent, spent>>
queueVars == <<due, later>>
sendVars == <<bit, motor>>
rumbleVars == <<rumble, kept, starting>>
modeVars == <<takesLock, stuck>>
vars == <<deviceVars, queueVars, job, sendVars, rumbleVars, modeVars, life, posts>>

Writers == {JobThread, Caller}

Dev == INSTANCE Device

\* send_report() of any report; speaker_stream_some(); set_rumble(false) of
\* rumble_until(); the null job of ~worker_thread().
Kinds == {"send", "stream", "quiet", "null"}

Init ==
  /\ Dev!Init
  /\ due = <<>> /\ later = [k \in Kinds |-> 0]
  /\ job = "idle"
  /\ rumble = FALSE /\ kept = FALSE /\ starting = 0
  /\ bit = [t \in Writers |-> FALSE] /\ motor = FALSE
  /\ takesLock = FALSE /\ stuck = FALSE
  /\ life = "used"
  /\ posts = 0

\* schedule_job()
Schedule(k) == due' = Append(due, k) /\ UNCHANGED later

\* schedule_job_at() and schedule_job_in(), for a moment to come
ScheduleLater(k) == later' = [later EXCEPT ![k] = @ + 1] /\ UNCHANGED due

CountPost == posts < MaxPosts /\ posts' = posts + 1

-----------------------------------------------------------------------------
(* The application, from any of its threads. *)

\* set_leds(), requests; the end of speaker_stream().
PostJob ==
  /\ life = "used" /\ CountPost
  /\ Schedule("send") \/ Schedule("stream")
  /\ UNCHANGED <<deviceVars, job, sendVars, rumbleVars, modeVars, life>>

\* set_report_accel() and the others like it: update_reporting_mode() changes
\* m_read_handlers with report_accel set, and with report_ext as long as the
\* extension is not initialized; it posts the mode.  A call that needs the lock
\* while the callback is stuck never returns: then there is no destruction
\* either, and the call is left out.
SetReport ==
  /\ life = "used" /\ CountPost
  /\ takesLock' \in BOOLEAN /\ (stuck => ~takesLock')
  /\ Schedule("send")
  /\ UNCHANGED <<deviceVars, job, sendVars, rumbleVars, stuck, life>>

\* set_rumble() stores the flag; the report it makes is not sent.
SetRumble ==
  /\ life = "used" /\ CountPost
  /\ rumble' \in BOOLEAN /\ kept' = rumble'
  /\ UNCHANGED <<deviceVars, queueVars, job, sendVars, starting, modeVars, life>>

StartRumble == rumble' = TRUE /\ kept' = FALSE /\ UNCHANGED queueVars
PostQuiet == ScheduleLater("quiet") /\ UNCHANGED <<rumble, kept>>

RumbleUntil_Swapped(n) == IF n = 1 THEN PostQuiet ELSE StartRumble

\* The statements of rumble_until(): set_rumble(true), and the job that ends it.
RumbleUntil(n) == IF n = 1 THEN StartRumble ELSE PostQuiet

\* rumble_for()
RumbleFor ==
  /\ life = "used" /\ CountPost
  /\ RumbleUntil(1)
  /\ starting' = starting + 1
  /\ UNCHANGED <<deviceVars, job, sendVars, modeVars, life>>

RumbleForEnds ==
  /\ starting > 0
  /\ RumbleUntil(2)
  /\ starting' = starting - 1
  /\ UNCHANGED <<deviceVars, job, sendVars, modeVars, life, posts>>

\* close().  A second one finds no thread to stop and a device that is null: it
\* is no step here (DeviceIO has it).
Close ==
  /\ life = "used"
  /\ Dev!BeginClose
  /\ UNCHANGED <<queueVars, job, sendVars, rumbleVars, modeVars, life, posts>>

\* device::close() returns, to close() or to ~device().
CloseReturns ==
  /\ Dev!EndClose
  /\ UNCHANGED <<queueVars, job, sendVars, rumbleVars, modeVars, life, posts>>

-----------------------------------------------------------------------------
(* send_report(), on the job thread and, for the set-up of the speaker, on the *)
(* calling thread.                                                           *)

\* Nothing here asks whether m_device still exists.
CallWrite(t) ==
  /\ ~writing[t]
  /\ writing' = [writing EXCEPT ![t] = TRUE]
  /\ sent' = [sent EXCEPT ![t] = 0]
  /\ UNCHANGED <<phase, calling, given, spent>>

SendReport_BitOfLast(t) ==
  /\ CallWrite(t)
  /\ UNCHANGED sendVars

\* The report takes the flag and is given to write().
SendReport(t) ==
  /\ CallWrite(t)
  /\ bit' = [bit EXCEPT ![t] = rumble]
  /\ UNCHANGED motor

\* speaker_stream() enables, mutes and unmutes the speaker.
SpeakerStream ==
  /\ life = "used" /\ CountPost
  /\ SendReport(Caller)
  /\ UNCHANGED <<queueVars, job, rumbleVars, modeVars, life>>

\* The report reaches the remote, which switches its motor.
Transmit(t) ==
  /\ Dev!Transmit(t)
  /\ motor' = bit[t]
  /\ UNCHANGED <<queueVars, job, bit, rumbleVars, modeVars, life, posts>>

\* write() returns, whatever became of the report.
EndWrite(t) ==
  /\ Dev!EndWrite(t)
  /\ UNCHANGED <<queueVars, job, sendVars, rumbleVars, modeVars, life, posts>>

-----------------------------------------------------------------------------
(* The callback, on the reader thread: it locks m_read_handler_lock, walks   *)
(* through m_read_handlers, and unlocks when it returns.  For a status report *)
(* that no handler takes it calls update_reporting_mode(), which posts a job *)
(* or, to change m_read_handlers, locks again.                               *)

Callback ==
  /\ given < MaxInputs
  /\ Dev!Call
  /\ UNCHANGED <<queueVars, job, sendVars, rumbleVars, modeVars, life, posts>>

CallbackPosts ==
  /\ calling /\ ~takesLock /\ CountPost
  /\ Schedule("send")
  /\ UNCHANGED <<deviceVars, job, sendVars, rumbleVars, modeVars, life>>

\* The second lock of a mutex that is not recursive: the callback goes no
\* further.  (An implementation that throws here ends the program.)
CallbackLocks ==
  /\ calling /\ takesLock /\ ~stuck
  /\ stuck' = TRUE
  /\ UNCHANGED <<deviceVars, queueVars, job, sendVars, rumbleVars, takesLock, life, posts>>

CallbackReturns ==
  /\ ~stuck
  /\ Dev!Return
  /\ UNCHANGED <<queueVars, job, sendVars, rumbleVars, modeVars, life, posts>>

-----------------------------------------------------------------------------
(* The job thread. *)

\* The time point of a job is reached.
BecomeDue(k) ==
  /\ later[k] > 0
  /\ later' = [later EXCEPT ![k] = @ - 1]
  /\ due' = Append(due, k)
  /\ UNCHANGED <<deviceVars, job, sendVars, rumbleVars, modeVars, life, posts>>

TakeJob ==
  /\ job = "idle" /\ due # <<>>
  /\ job' = IF Head(due) = "null" THEN "ended" ELSE Head(due)
  /\ due' = Tail(due)
  /\ UNCHANGED <<deviceVars, later, sendVars, rumbleVars, modeVars, life, posts>>

\* set_rumble(false) clears the flag; the motor hears of it with the next report.
RumbleOff ==
  /\ job = "quiet"
  /\ rumble' = FALSE /\ kept' = FALSE
  /\ job' = "idle"
  /\ UNCHANGED <<deviceVars, queueVars, sendVars, starting, modeVars, life, posts>>

\* speaker_stream_some() has nothing left to send.
StreamOver ==
  /\ job = "stream"
  /\ job' = "idle"
  /\ UNCHANGED <<deviceVars, queueVars, sendVars, rumbleVars, modeVars, life, posts>>

BeginJobReport ==
  /\ \/ job = "send" /\ job' = "sending"
     \/ job = "stream" /\ job' = "streaming"
  /\ SendReport(JobThread)
  /\ UNCHANGED <<queueVars, rumbleVars, modeVars, life, posts>>

SendReturns_Early ==
  /\ \/ job = "sending" /\ UNCHANGED queueVars
     \/ job = "streaming" /\ ScheduleLater("stream")
  /\ job' = "idle"
  /\ UNCHANGED <<deviceVars, sendVars, rumbleVars, modeVars, life, posts>>

\* The time points of a stream that is late, counted from its start, are past.
SendReturns_AbsoluteTime ==
  /\ ~writing[JobThread]
  /\ \/ job = "sending" /\ UNCHANGED due
     \/ job = "streaming" /\ due' = <<"stream">> \o due
  /\ job' = "idle"
  /\ UNCHANGED <<deviceVars, later, sendVars, rumbleVars, modeVars, life, posts>>

\* write() has returned; speaker_stream_some() posts itself again.
SendReturns ==
  /\ ~writing[JobThread]
  /\ \/ job = "sending" /\ UNCHANGED queueVars
     \/ job = "streaming" /\ ScheduleLater("stream")
  /\ job' = "idle"
  /\ UNCHANGED <<deviceVars, sendVars, rumbleVars, modeVars, life, posts>>

-----------------------------------------------------------------------------
(* Destruction. *)

\* ~wiimote(), when no member function is being executed.
RemoveAll ==
  /\ life = "used" /\ starting = 0 /\ ~writing[Caller] /\ phase # "closing"
  /\ due' = <<>> /\ later' = [k \in Kinds |-> 0]
  /\ life' = "members"
  /\ UNCHANGED <<deviceVars, job, sendVars, rumbleVars, modeVars, posts>>

\* m_input_state, m_state, m_read_handler_lock and m_read_handlers go.
DestroyState ==
  /\ life = "members"
  /\ life' = "stop"
  /\ UNCHANGED <<deviceVars, queueVars, job, sendVars, rumbleVars, modeVars, posts>>

\* ~worker_thread(): schedule_job(nullptr)
PostNull ==
  /\ life = "stop"
  /\ Schedule("null")
  /\ life' = "join"
  /\ UNCHANGED <<deviceVars, job, sendVars, rumbleVars, modeVars, posts>>

Join_Detached ==
  /\ life = "join"
  /\ life' = "device"
  /\ UNCHANGED <<deviceVars, queueVars, job, sendVars, rumbleVars, modeVars, posts>>

\* ~worker_thread(): m_job_thread.join()
Join ==
  /\ life = "join" /\ job = "ended"
  /\ life' = "device"
  /\ UNCHANGED <<deviceVars, queueVars, job, sendVars, rumbleVars, modeVars, posts>>

\* ~device(): if (is_open()) close()
CloseOpenDevice ==
  /\ life = "device"
  /\ Dev!BeginClose
  /\ UNCHANGED <<queueVars, job, sendVars, rumbleVars, modeVars, life, posts>>

\* ~device() returns.
DestroyDevice ==
  /\ life = "device" /\ phase = "closed"
  /\ phase' = "destroyed"
  /\ life' = "gone"
  /\ UNCHANGED <<calling, given, writing, sent, spent, queueVars, job, sendVars, rumbleVars, modeVars, posts>>

-----------------------------------------------------------------------------

JobStep ==
  TakeJob \/ RumbleOff \/ BeginJobReport \/ StreamOver \/ SendReturns

Destruct ==
  \/ DestroyState \/ PostNull \/ Join \/ CloseOpenDevice \/ DestroyDevice

\* The object is gone, or close() waits for a callback that is stuck.
Rest == (life = "gone" \/ (stuck /\ phase = "closing")) /\ UNCHANGED vars

Next ==
  \/ PostJob \/ SetReport \/ SetRumble \/ RumbleFor \/ RumbleForEnds \/ SpeakerStream
  \/ Close \/ CloseReturns
  \/ \E t \in Writers : Transmit(t) \/ EndWrite(t)
  \/ Callback \/ CallbackPosts \/ CallbackLocks \/ CallbackReturns
  \/ \E k \in Kinds : BecomeDue(k)
  \/ JobStep
  \/ RemoveAll \/ Destruct
  \/ Rest

Spec == Init /\ [][Next]_vars

\* Threads go on inside the functions they are in, and time passes.  Nothing
\* obliges the application to call, nor to destroy the object.
Fairness ==
  /\ WF_vars(RumbleForEnds)
  /\ WF_vars(CloseReturns)
  /\ WF_vars(CallbackReturns)
  /\ \A k \in Kinds : WF_vars(BecomeDue(k))
  /\ \A t \in Writers : WF_vars(Transmit(t) \/ EndWrite(t))
  /\ WF_vars(JobStep)
  /\ WF_vars(Destruct)

FairSpec == Spec /\ Fairness

-----------------------------------------------------------------------------

\* The state is well formed; the job thread is in write() only while it sends.
TypeOK ==
  /\ phase \in {"open", "closing", "closed", "destroyed"}
  /\ calling \in BOOLEAN /\ given \in 0 .. MaxInputs
  /\ writing \in [Writers -> BOOLEAN] /\ sent \in [Writers -> 0 .. 2]
  /\ bit \in [Writers -> BOOLEAN] /\ motor \in BOOLEAN
  /\ due \in Seq(Kinds) /\ later \in [Kinds -> Nat]
  /\ job \in {"idle", "send", "stream", "quiet", "sending", "streaming", "ended"}
  /\ rumble \in BOOLEAN /\ kept \in BOOLEAN /\ starting \in Nat
  /\ takesLock \in BOOLEAN /\ stuck \in BOOLEAN
  /\ life \in {"used", "members", "stop", "join", "device", "gone"}
  /\ writing[JobThread] => job \in {"sending", "streaming"}

\* The device is used as it asks: no write begins or goes on when it has been
\* destroyed, although jobs are posted and post themselves until the end.
UsesDevice == Dev!Spec

\* When the device was closed before the object is destroyed, the callback is
\* not called again: it finds none of the members it uses destroyed.
ClosedFirstIsSafe == [](life = "members" /\ phase = "closed" => []~calling)

\* The destruction comes to its end, whatever is queued, is being executed, or
\* posts itself again; or, if the callback is stuck on its own lock, it comes as
\* far as close() in ~device(), which waits for the callback for ever.
TeardownReturns == life = "members" ~> life = "gone" \/ (stuck /\ phase = "closing")

\* Reports reach the remote again and again.
ReportsGoOn == []<><<\E t \in Writers : Transmit(t)>>_vars

\* The flag that rumble_for() has set is cleared, as long as the object lives,
\* unless set_rumble(true) was called later.  The motor stops, too, if reports
\* go on reaching the remote: rumble_until() and set_rumble() send none.
RumbleEnds ==
  /\ rumble /\ ~kept ~> ~rumble \/ kept \/ life # "used"
  /\ ReportsGoOn => (motor /\ ~kept ~> ~motor \/ kept \/ life # "used")

\* When the flag stays as it is and reports go on reaching the remote, the motor
\* follows the flag in the end, although two threads send reports and one may
\* write a bit that it has read long before.
MotorFollows ==
  \A b \in BOOLEAN :
    /\ <>[](rumble = b)
    /\ ReportsGoOn
    => <>[](motor = b)

\* The callback is called only while the members it uses exist.
CallbackInLife == life \notin {"used", "members"} => ~calling

=============================================================================

------------------------------- MODULE Speaker -------------------------------
(***************************************************************************)
(* Speaker streaming of wio::wiimote (wiimoteio/impl/wiimote_speaker.h,    *)
(* wiimote.h).  speaker_stream() sets the speaker up from the caller's     *)
(* thread: some reports it writes to the device itself, register writes    *)
(* go through the job queue and are waited for.  It then posts a job that  *)
(* sends 20 bytes and posts itself again, until the stream is empty.       *)
(*                                                                         *)
(* The job queue is the one that JobSchedule promises: jobs start in the   *)
(* order of their time points, never early.  Time is relative: a job has   *)
(* the milliseconds it still has to wait.  The remote is external; it      *)
(* executes reports in the order in which they are written, and loses none. *)
(*                                                                         *)
(* A definition with a suffix after "_" is a mistaken form of the one that *)
(* follows it; no specification uses it, and a property fails with it.     *)
(***************************************************************************)
EXTENDS Naturals, Sequences

CONSTANTS
  Streams,     \* calls of speaker_stream(), each with a stream of its own
  Length,      \* bytes in each stream
  Rates,       \* sample rates in use
  MaxChanges,  \* bound: calls of set_speaker_rate() and set_speaker_format()
  MaxSince     \* bound: time after a data report is counted up to this

ASSUME LengthAssumption == Length \in [Streams -> Nat]
ASSUME RatesAssumption == Rates \subseteq Nat \ {0}
ASSUME BoundsAssumption == MaxChanges \in Nat /\ MaxSince \in Nat

VARIABLES
  fmt, rate,  \* m_state.speaker_fmt, m_state.speaker_rate
  number,     \* speaker_sample_number
  phase,      \* per stream: "idle" "setup" "playing" "over"
  todo,       \* per stream: the steps its speaker_stream() has left
  conf,       \* per stream: the configuration speaker_stream() has computed
  left,       \* per stream: the bytes not read yet
  handlers,   \* the streams whose write waits for an acknowledgement, in order
  jobs,       \* the job queue, in the order of time points
  current,    \* the stream job being executed: [step, stream, size]
  speaker,    \* the remote: [on, muted, conf]
  since,      \* milliseconds since the last data report
  owed,       \* what the remote has to play of it, in samples times divisor
  changes,    \* number of changes of the settings
  calm        \* history: no overlap of streams, no change during a stream

settings == <<fmt, rate, changes>>
callVars == <<phase, todo, conf>>
remoteVars == <<speaker, since, owed>>
vars == <<settings, number, callVars, left, handlers, jobs, current, remoteVars, calm>>

Formats == {"adpcm", "pcm"}
ChunkSize == 20        \* data[20] of a data report
Slack == 3             \* milliseconds added to every delay
Oscillator == 12000    \* cycles per millisecond
None == [fmt |-> "none", divisor |-> 0]
Silent == [fmt |-> "silent", divisor |-> 0]

\* What goes into the two bytes of the sample rate.
Divisor(r) == ((Oscillator * 1000) \div r) % 65536

\* The bound of since is not below the time that the longest packet takes.
ASSUME SinceAssumption ==
  \A r \in Rates : 2 * ChunkSize * Divisor(r) <= MaxSince * Oscillator

Samples(size, f) == size * (IF f = "adpcm" THEN 2 ELSE 1)

Delay_NoSlack(samples, r) == (samples * 1000) \div r

\* The delay of the next packet, in milliseconds.
Delay(samples, r) == (samples * 1000) \div r + Slack

\* A multimap by time point; equal time points in order of insertion.  Entries
\* that are not later than j stay, j follows them, the others move on.
Insert(j) ==
  [i \in 1 .. Len(jobs) + 1 |->
     IF i <= Len(jobs) /\ jobs[i].due <= j.due THEN jobs[i]
     ELSE IF i = 1 \/ jobs[i - 1].due <= j.due THEN j
     ELSE jobs[i - 1]]

Step(op, reg) == [op |-> op, reg |-> reg]

Write_PostedFirst(reg) == <<Step("post", reg), Step("add", reg), Step("wait", reg)>>

\* write_register(...).wait(): the handler is added, then the job is posted.
Write(reg) == <<Step("add", reg), Step("post", reg), Step("wait", reg)>>

\* The body of speaker_stream().
SetUp ==
  <<Step("enable", "none"), Step("mute", "none")>> \o Write("a20009") \o Write("a20001")
    \o Write("conf") \o <<Step("unmute", "none")>> \o Write("a20008")
    \o <<Step("reset", "none"), Step("schedule", "none")>>

NotRunning == [step |-> "none", stream |-> "none", size |-> 0]

Init ==
  /\ fmt \in Formats /\ rate \in Rates  \* set before the first stream
  /\ changes = 0
  /\ number = 0
  /\ phase = [s \in Streams |-> "idle"]
  /\ todo = [s \in Streams |-> <<>>]
  /\ conf = [s \in Streams |-> None]
  /\ left = Length
  /\ handlers = <<>>
  /\ jobs = <<>>
  /\ current = NotRunning
  /\ speaker = [on |-> FALSE, muted |-> FALSE, conf |-> None]
  /\ since = MaxSince
  /\ owed = 0
  /\ calm = TRUE

Live(s) == phase[s] \in {"setup", "playing"}

-----------------------------------------------------------------------------
(* The application's threads *)

Change(newFmt, newRate) ==
  /\ changes < MaxChanges
  /\ changes' = changes + 1
  /\ fmt' = newFmt /\ rate' = newRate
  /\ calm' = (calm /\ \A s \in Streams : ~Live(s))
  /\ UNCHANGED <<number, callVars, left, handlers, jobs, current, remoteVars>>

SetSpeakerRate(r) == r # rate /\ Change(fmt, r)
SetSpeakerFormat(f) == f # fmt /\ Change(f, rate)

SpeakerStream(s) ==
  /\ phase[s] = "idle"
  /\ phase' = [phase EXCEPT ![s] = "setup"]
  /\ todo' = [todo EXCEPT ![s] = SetUp]
  /\ calm' = (calm /\ \A o \in Streams : ~Live(o))
  /\ UNCHANGED <<settings, number, conf, left, handlers, jobs, current, remoteVars>>

\* s is about to make the step op, and makes it.
Takes(s, op) ==
  /\ todo[s] # <<>> /\ Head(todo[s]).op = op
  /\ todo' = [todo EXCEPT ![s] = Tail(@)]

\* send_report() from the caller's thread
EnableSpeaker(s) ==
  /\ Takes(s, "enable")
  /\ speaker' = [speaker EXCEPT !.on = TRUE]
  /\ UNCHANGED <<settings, number, phase, conf, left, handlers, jobs, current, since, owed, calm>>

Mute(s) ==
  /\ \/ Takes(s, "mute") /\ speaker' = [speaker EXCEPT !.muted = TRUE]
     \/ Takes(s, "unmute") /\ speaker' = [speaker EXCEPT !.muted = FALSE]
  /\ UNCHANGED <<settings, number, phase, conf, left, handlers, jobs, current, since, owed, calm>>

\* The configuration is computed from the settings before it is written.
AddHandler(s) ==
  /\ Takes(s, "add")
  /\ conf' = IF Head(todo[s]).reg = "conf"
               THEN [conf EXCEPT ![s] = [fmt |-> fmt, divisor |-> Divisor(rate)]]
               ELSE conf
  /\ handlers' = Append(handlers, s)
  /\ UNCHANGED <<settings, number, phase, left, jobs, current, remoteVars, calm>>

PostWrite(s) ==
  /\ Takes(s, "post")
  /\ jobs' = Insert([due |-> 0, stream |-> s, reg |-> Head(todo[s]).reg])
  /\ UNCHANGED <<settings, number, phase, conf, left, handlers, current, remoteVars, calm>>

AwaitAck_Skipped(s) ==
  /\ Takes(s, "wait")
  /\ UNCHANGED <<settings, number, phase, conf, left, handlers, jobs, current, remoteVars, calm>>

AwaitAck(s) ==
  /\ Takes(s, "wait")
  /\ \A i \in DOMAIN handlers : handlers[i] # s
  /\ UNCHANGED <<settings, number, phase, conf, left, handlers, jobs, current, remoteVars, calm>>

ResetNumber(s) ==
  /\ Takes(s, "reset")
  /\ number' = 0
  /\ UNCHANGED <<settings, phase, conf, left, handlers, jobs, current, remoteVars, calm>>

Schedule(s) ==
  /\ Takes(s, "schedule")
  /\ jobs' = Insert([due |-> 0, stream |-> s, reg |-> "stream"])
  /\ phase' = [phase EXCEPT ![s] = "playing"]
  /\ UNCHANGED <<settings, number, conf, left, handlers, current, remoteVars, calm>>

-----------------------------------------------------------------------------
(* The job thread *)

\* The first job is due; it is taken out of the queue and executed.
TakeJob ==
  /\ current = NotRunning
  /\ jobs # <<>> /\ Head(jobs).due = 0
  /\ jobs' = Tail(jobs)

\* A register is written; the acknowledgement, in the same step, goes to the first
\* handler.  Other writes, reports that are lost, and handlers that are erased by
\* change_reporting_mode() are left out: here a write of a register is always
\* acknowledged to the handler of the oldest one.
SendWrite ==
  /\ TakeJob
  /\ LET j == Head(jobs) IN
       /\ j.reg # "stream"
       /\ speaker' = CASE j.reg = "conf" -> [speaker EXCEPT !.conf = conf[j.stream]]
                       [] j.reg = "a20001" -> [speaker EXCEPT !.conf = Silent]
                       [] OTHER -> speaker
       /\ handlers' = IF handlers = <<>> THEN <<>> ELSE Tail(handlers)
  /\ UNCHANGED <<settings, number, callVars, left, current, since, owed, calm>>

\* Up to 20 bytes are read; none are left, so the job does not post itself.
EndStream ==
  /\ TakeJob
  /\ LET j == Head(jobs) IN
       /\ j.reg = "stream" /\ left[j.stream] = 0
       /\ phase' = [phase EXCEPT ![j.stream] = "over"]
  /\ UNCHANGED <<settings, number, todo, conf, left, handlers, current, remoteVars, calm>>

SendChunk ==
  /\ TakeJob
  /\ LET j == Head(jobs)
         size == IF left[j.stream] < ChunkSize THEN left[j.stream] ELSE ChunkSize
     IN  /\ j.reg = "stream" /\ size > 0
         /\ left' = [left EXCEPT ![j.stream] = @ - size]
         /\ current' = [step |-> "count", stream |-> j.stream, size |-> size]
         /\ owed' = Samples(size, speaker.conf.fmt) * speaker.conf.divisor
         /\ since' = 0
  /\ UNCHANGED <<settings, number, callVars, handlers, speaker, calm>>

\* speaker_sample_number += ...
Count ==
  /\ current.step = "count"
  /\ number' = number + Samples(current.size, fmt)
  /\ current' = [current EXCEPT !.step = "repost"]
  /\ UNCHANGED <<settings, callVars, left, handlers, jobs, remoteVars, calm>>

\* schedule_job_in(..., delay, job_type_speaker)
Repost ==
  /\ current.step = "repost"
  /\ jobs' = Insert([due |-> Delay(number, rate), stream |-> current.stream, reg |-> "stream"])
  /\ current' = [current EXCEPT !.step = "clear"]
  /\ UNCHANGED <<settings, number, callVars, left, handlers, remoteVars, calm>>

Clear_Forgotten ==
  /\ current.step = "clear"
  /\ current' = NotRunning
  /\ UNCHANGED <<settings, number, callVars, left, handlers, jobs, remoteVars, calm>>

\* speaker_sample_number = 0, and the job returns
Clear ==
  /\ current.step = "clear"
  /\ number' = 0
  /\ current' = NotRunning
  /\ UNCHANGED <<settings, callVars, left, handlers, jobs, remoteVars, calm>>

-----------------------------------------------------------------------------

\* One millisecond passes.
Tick ==
  /\ since < MaxSince \/ \E i \in DOMAIN jobs : jobs[i].due > 0
  /\ since' = IF since < MaxSince THEN since + 1 ELSE since
  /\ jobs' = [i \in DOMAIN jobs |->
                [jobs[i] EXCEPT !.due = IF @ > 0 THEN @ - 1 ELSE 0]]
  /\ UNCHANGED <<settings, number, callVars, left, handlers, current, speaker, owed, calm>>

CallStep(s) ==
  \/ EnableSpeaker(s) \/ Mute(s)
  \/ AddHandler(s) \/ PostWrite(s) \/ AwaitAck(s)
  \/ ResetNumber(s) \/ Schedule(s)

JobStep == SendWrite \/ EndStream \/ SendChunk \/ Count \/ Repost \/ Clear

Next ==
  \/ \E r \in Rates : SetSpeakerRate(r)
  \/ \E f \in Formats : SetSpeakerFormat(f)
  \/ \E s \in Streams : SpeakerStream(s) \/ CallStep(s)
  \/ JobStep
  \/ Tick

Spec == Init /\ [][Next]_vars

\* Every thread that can take a step eventually takes one, and time passes.
Fairness ==
  /\ \A s \in Streams : WF_vars(CallStep(s))
  /\ WF_vars(JobStep)
  /\ WF_vars(Tick)

FairSpec == Spec /\ Fairness

-----------------------------------------------------------------------------
(* Properties *)

\* speaker_sample_number never counts more than one packet: it does not
\* accumulate from packet to packet or from stream to stream, although both
\* speaker_stream() and the job write it without a lock.
TypeOK ==
  /\ fmt \in Formats /\ rate \in Rates /\ changes \in 0 .. MaxChanges
  /\ number \in 0 .. 2 * ChunkSize
  /\ phase \in [Streams -> {"idle", "setup", "playing", "over"}]
  /\ \A s \in Streams : left[s] \in 0 .. Length[s]
  /\ handlers \in Seq(Streams)
  /\ \A i \in DOMAIN jobs : /\ jobs[i].stream \in Streams
                            /\ jobs[i].due \in Nat
  /\ since \in 0 .. MaxSince
  /\ calm \in BOOLEAN

\* Streams that do not overlap, with settings left alone meanwhile: a data
\* report is sent only when the remote, at the rate its divisor stands for,
\* has had the time to play the one before.  The delay is computed with
\* integer division from what the settings say, not from the divisor.
Paced ==
  [][calm /\ left' # left => since * Oscillator >= owed]_vars

\* Under the same conditions, once a set-up has muted the speaker it is heard
\* again only when it is configured for that stream, and while the stream is
\* played it can be heard.  The mute reports bypass the queue that register
\* writes go through, so this takes the waits in between.
HeardAsConfigured ==
  calm => \A s \in Streams :
    Live(s) /\ (\A i \in DOMAIN todo[s] : todo[s][i].op \notin {"enable", "mute"}) =>
      /\ speaker.on
      /\ phase[s] = "playing" => ~speaker.muted
      /\ ~speaker.muted => /\ speaker.conf = conf[s]
                           /\ conf[s] = [fmt |-> fmt, divisor |-> Divisor(rate)]

\* Every call of speaker_stream() gets through its set-up, and its stream is
\* sent to the last byte, whether or not streams overlap or settings change.
StreamPlayed ==
  \A s \in Streams : phase[s] = "setup" ~> phase[s] = "over" /\ left[s] = 0
=============================================================================

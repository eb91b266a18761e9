# wiimoteio: a verification project

wiimoteio is a C++ library that talks to a Nintendo Wii Remote over HID. Its
difficulty is not in the volume of code but in the threads that meet in one
object, `wio::wiimote`: application threads call it, a job thread sends output
reports, a reader thread hands input reports to a list of handlers, and the
remote answers in its own time, or not at all.

The modules here are written from the source in `src/wiimoteio`. TLC checks them on
small instances, and TLAPS proves theorems for every value of the constants.

## 1. The system

| component | state | operations | interacts with |
|---|---|---|---|
| `worker_thread` (worker_thread.h) | `m_job_queue` (multimap by time point), mutex, condition variable, job thread | `schedule_job_at/in`, `schedule_job`, `remove_type`, `remove_all`, destructor; the loop `job_thread_func` | called by every member function that sends; its jobs call `send_report` |
| `wiimote`: handlers and requests (wiimote.h, wiimote.cpp) | `m_read_handlers` with its mutex, `m_state`, one promise per outstanding request | constructor, `set_leds`, `set_report_*`, `read_*`, `write_*`, `get_present_gyro`, `get_ext_id`; the callback of the reader | posts to `worker_thread`; is called back by `device` |
| `wiimote`: lifetime and rumble (wiimote.h) | `m_state.rumble`, the members and the order of their declarations | `set_rumble`, `rumble_for`, `close`, the destructor | posts jobs to `worker_thread`; destroys it, the handlers and `device` |
| `wiimote`: button state (wiimote.h) | `m_input_state.button`, shared without a lock | `handle_button_data_report`, `get_input_button` | reader thread writes, application reads |
| reports (report.h, data_report.h) | none | `report_cast`, addresses, sizes | used by all handlers |
| speaker (impl/wiimote_speaker.h) | rate, format, volume, sample number | `speaker_stream`, the job `speaker_stream_some` that posts itself | writes from the caller's thread, then jobs of type 0 |
| `device` (device_windows.h/.cpp) | handle, overlapped structures, read thread | `read`, `write`, `callback_read`, `close` | Windows HID |
| extension data, helpers (extension.h, util.h, input_state.h) | none | `undo_mp_passthrough`, `set_bit`, `calibrated_int` | pure |

`basic_wiimote.*` and `device.cpp` are older copies: the project file compiles
neither. `simple_tests` is a console program; it shows the calls an application
makes and polls the buttons from a thread of its own.

What is hard, and what would make each part correct:

* **worker_thread**. Insertion and `notify_one()` are separate, the clock is read
  before the lock is taken, and the loop goes to sleep once per turn *before* it
  looks for a due job. Correct: no lost wake-up, FIFO for prompt jobs, a
  destructor that returns and does not abandon prompt jobs.
* **handlers and requests**. A reply is attributed to a request only by its
  position among the handlers, by 16 bits of address, or by counting. Adding the
  handler and posting the job are two steps. Nothing times out. Correct: a future
  gets the bytes that were asked for, an acknowledgement counts for its own
  write, every future completes when the remote is reliable.
* **reporting mode**. The application and the reader both choose it, an extension
  that is plugged in resets it at the remote, and `data_report_handler_iter` is
  shared without a lock. Correct: at rest the remote is in the mode that was asked
  for and the iterator never dangles.
* **button state**. One word, three stores, no lock. Correct: no press is
  invented.
* **device**. `close()` sends an asynchronous procedure call to the read thread,
  which may be in a read, in the callback, or finished. A write that is merely
  pending looks like one that failed. Correct: no callback after `close()`, `close()`
  returns, reports in order, little is sent twice.
* **block arithmetic**. Addresses of 32, 24 and 16 bits, sizes stored as one less,
  pieces of 16. Correct: a block is covered exactly.
* **extension data**. Bits are moved in place. Correct: no move destroys what a
  later one needs.
* **speaker**. Some reports bypass the job queue; `speaker_sample_number` is written
  by two threads; time is in whole milliseconds. Correct: nothing is heard before
  the speaker is configured, a packet does not come before the last one has been
  played, every stream is sent to its end.
* **lifetime**. `~wiimote()` clears the job queue once, but the job being executed
  and the callback may post more; members are destroyed in the reverse of their
  declaration, so the handlers go before the callback is stopped. The rumble bit
  travels with whatever report is sent next, from either of two threads. Correct:
  nothing uses a member that is gone, the destruction ends, the rumble flag is
  cleared, the motor ends up as the flag says while reports go on.

`PROJECT.json` lists every hazard with its line and the properties that cover it.

## 2. Modules

| module | what it is |
|---|---|
| `JobSchedule` | what `worker_thread` promises: jobs start one at a time, in order, never early, never after removal; due jobs are started |
| `WorkerThread` | `worker_thread.h`, one action per locked section and per step outside the lock |
| `WorkerThreadProofs` | its inductive invariant, four properties and the safety of the refinement |
| `Requests` | what `read_data()` and `write_data()` promise to the holder of a future |
| `Wiimote` | `wiimote.h`/`wiimote.cpp`: calls, handler list, job queue, wire, remote |
| `WiimoteProofs` | its inductive invariant, types, and the refinement of `Requests` |
| `HandlerListProofs` | the list of handlers: the iterator of `change_reporting_mode()` stays valid, the button handler stays first |
| `OneCallerProofs` | one application thread: at rest the remote has the LEDs and the mode asked for last; a write whose future is ready has been executed whole |
| `ButtonState` | the word of buttons, store by store, against a polling thread |
| `Device` | what `device` promises to `wiimote`: the callback, `close()`, `write()` |
| `DeviceIO` | `device_windows.*`: read thread, APC, `close()`, `write()` |
| `DeviceIOProofs` | its inductive invariant, four properties and the safety of the refinement |
| `Lifetime` | rumble, `close()`, `~wiimote()` and the destruction of members, on top of `Device` and of a queue as `JobSchedule` promises it |
| `LifetimeProofs` | its inductive invariant, types, and that it uses `Device` as asked |
| `Blocks` | addresses, sizes and pieces of one block, bit for bit |
| `Passthrough` | `undo_mp_passthrough()`, bit by bit |
| `DataProofs` | what is read out of and put into reports: the invariants and properties of `ButtonState`, `Passthrough` and `Blocks` |
| `Speaker` | `wiimote_speaker.h`: set-up, the stream job, the settings, the sample number |
| `SpeakerProofs` | its inductive invariants and the three safety properties |
| `MC*` | values for the constants of the runs; `MCData` joins `ButtonState`, `Blocks` and `Passthrough` in one run |

How they compose: `WorkerThread` implements `JobSchedule`, and `DeviceIO` implements
`Device`; `Lifetime` is built on `Device` (it instantiates the module, and its steps
at the device are steps of it) and on a queue that behaves as `JobSchedule`;
`Wiimote` is built on the FIFO part of the same promise and implements `Requests`.

Definitions with a suffix after `_` (such as `BeginWait_Untimed`) are mistaken forms
of the definition they precede. No specification uses them; they record, for
each property, a bug that the property catches.

### WorkerThread

The mutex needs no variable, because each section that holds it is one action:
`Insert` (the block of `schedule_job_at`), `RemoveType`, `RemoveAll`, and, in the
loop, `BeginWait` (look at the first key and go to sleep) and `TakeJob` (awake,
lock held again, erase the first job if it is due). Outside the lock there are
`ScheduleJobAt`/`ScheduleJobIn` (arguments evaluated, clock read), `NotifyOne`, the
three ways to wake up, and `FinishJob`. A multimap that iterates by key and, for
equal keys, in order of insertion is a set of entries with the order `Before`. The
clock is a bounded counter that ticks at any moment. Spurious wake-ups are
possible, but nothing relies on them. Jobs may post jobs.

### Wiimote

A member function is a sequence of *steps*, one for each place where it touches
shared state: `Add` a handler, `Post` a job, `Store` or test a field of `m_state`,
begin a `Read` or a `Write`, `Await` a future. `todo[t]` is what thread `t` has left
to do, and a callee's steps are put in front. So the functions of the code are
definitions that read like it (`Construct`, `UpdateReportingMode`,
`InitializeExtension`, ...), and one action executes each kind of step. All
interleavings of application, job thread, reader and remote are explored at
that grain.

* `handlers` is `m_read_handlers`. The callback offers the report at the head of
  `wire` to each handler until one throws; `Reaches(i)` says it got to handler `i`,
  and there is one action per kind of handler. `m_read_handler_lock` is held
  across steps only by the reader inside `update_reporting_mode()`, so the lock is
  free exactly when the reader has nothing in `todo`.
* `jobs` is `m_worker`, reduced to a first-in first-out queue. That is what
  `WorkerThread!FirstInFirstOut` shows, and what the theorem `JobsKeepOrder` proves,
  of jobs posted with `schedule_job()`; the core uses no other kind. Rumble and the
  speaker also post jobs for later: those are in `Lifetime` and `Speaker`.
* `futures` holds one record per request, the variable of `Requests`.
* The remote is external: it executes reports in the order of arrival, answers
  in that order, may lose reports up to a bound, and the user may press a button
  or plug an extension. Registers of an absent extension answer with an error.
* A byte stands for its own address, so a future with foreign bytes is visible.
* A handler that is erased leaves its future pending: `report_handler` has no virtual
  destructor, so `delete` frees the memory of a reply handler without destroying the
  promise in it, and `get()` is not even told that the promise is broken.
* `ReadBlocks` and `WriteBlocks` are the blocks the application and the object itself
  ask for. A reply carries the low 16 bits of its address only, and the identification
  blocks 0xa400fa and 0xa600fa agree in them. `ReadsApart` is a state predicate: a
  handler that waits for one block, and a request or reply under way for another,
  differ in these bits. It is a condition on what the application does at the same
  time, not a fact of the code: two threads in `get_ext_id()` and `get_present_gyro()`
  violate it, and may then get each other's bytes.

Battery, identification words and calibration values are data that no property
tells apart; they are left out. So are acknowledgements of reports other than
writes: the core never requests one.

### ButtonState

`Offer`, `Skip`, `Clear`, `OrLow`, `OrHigh` are the reader in
`handle_button_data_report()`; `Poll` is a read through the reference that
`get_input_button()` returns, at any moment. The initial word is arbitrary because
`m_input_state` is not initialized. The test for the length of a report is left
out: the reader always passes a buffer of `max_packet_size` bytes.

### DeviceIO

`Start`, `ReadAtOnce`, `ReadPending`, `ReadFails`, `ReadCompleted`, `RunApc` and `Callback`
are the read thread: the three outcomes of `ReadFile()`, the two ways out of the
alertable wait, and the call of the callback. `CloseBegin`, `QueueApc`, `Join`,
`CloseDevice`, `ClearHandle` are `close()`, which may be called again; `Destroy` is the destructor. A writer
goes through `WriteBegin`, then `WriteAtOnce` or `WriteReturnsZero`, then
`StopWriteFile` and `SetOutputReport`. Windows is external: an overlapped read
finishes at once, later, or fails; a write for which `WriteFile()` returns 0 may or
may not reach the remote; an APC runs only in an alertable wait. Reports are
numbered, so a lost, repeated or stale one is visible. The APC is not sent before
the read thread has started: `close()` comes after the constructor of `wiimote`, which
waits for an answer from the remote.

`Device` is the same seen from outside: the callback is called and returns, `close()`
begins and ends, a report is given to the remote at most once, but for one report
of each thread. The mapping in `DeviceIO` (`ImplementsDevice`) is spelt out there: the
device is open until `close()` begins, closed when the handle is, and a writer has
`sent` what the driver took. `CloseReturns` and the fairness of `Device` include that
writers return.

### Lifetime

`m_device` is the state of `Device`; the steps at it are `Device`'s own actions, except
the beginning of a write and the destruction, which are written as the code has
them, *without* the guards of `Device`: that they never happen when those guards
fail is the property `UsesDevice`. `due` and `later` are the queue without the clock: a job
for later becomes due at some moment. `job` says where the job thread is; a job is a
report, the stream job that posts itself, the end of a rumble, or the null job.
`takesLock` says that the flags of the reporting mode make `update_reporting_mode()` change
the handler list. The callback then stops at the lock it holds (`CallbackLocks`, the
finding `UnhandledStatusAnswered` of `Wiimote`), and `stuck` stays true. A member function
that needs the lock after that never returns, so the owner cannot begin the
destruction; such calls are left out. An implementation of `std::mutex` that throws
instead ends the program.
`RumbleUntil(1)` and `RumbleUntil(2)` are the two statements of `rumble_until()`, with
the flag set first. The owner calls `Close` or not, then goes through `RemoveAll`
(the body of the destructor), `DestroyState` (handlers and lock), `PostNull` and `Join`
(`~worker_thread()`), `CloseOpenDevice` and `DestroyDevice` (`~device()`). It begins the
destruction when no member function is being executed, which is what any C++
object asks. `kept` is a history variable: the last one to switch the rumble on
was `set_rumble(true)`, which promises no end.

### Blocks, Passthrough

`Blocks` has one request and the real widths: `SetAddress`, `SetReadSize`, `GetAddress`
and `GetSize` are the encodings of report.h, `HandleReply` is the reply handler,
`WritePiece` one turn of the loop of `write_data()`. The remote decodes what was
encoded. `CutEvenly` names the lengths for which the loop ends at the end of the
data: the size of each piece is taken from the whole data, so 17 bytes would be
read as 32. `Requested` names the blocks that the fields of a report can name, which end
within three bytes of address. In `Passthrough` the code is a list of moves, executed one per
step, and the Motion Plus is its external inverse.

### Speaker

`todo[s]` holds the steps that a call of `speaker_stream()` has left (`SetUp` reads like
the function); `EnableSpeaker` and `Mute` write to the device at once, while
`AddHandler`, `PostWrite`, `AwaitAck` are a register write that is waited for. The
job `speaker_stream_some()` is `SendChunk`, `Count`, `Repost`, `Clear`, or `EndStream`, with
the calling threads free to run in between. The queue is the one that `JobSchedule`
promises. Time is relative, so no clock has to be bounded. The divisor of the
sample rate is computed with its real numbers and 16 bits. The pauses of 50 ms
between reports are left out: nothing orders other steps by them. A register write and
its acknowledgement are one step, and the handlers are those of the speaker's own
writes: reports that are lost, and handlers that are erased by
`change_reporting_mode()`, are in `Wiimote` and not here. `calm` records
that streams have not overlapped and settings were left alone during a stream.

## 3. Runs

| run | instance | shows |
|---|---|---|
| `worker` | 2 callers, 2 job types, 2 posts, clock 0..1, fair, deadlock checked | `TypeOK`, `FirstInFirstOut`, `SleepCovered`, `DrainedAtExit`, `DestructorReturns`, `ImplementsSchedule` (safety and liveness of `JobSchedule`) |
| `wiimote_one_caller` | 1 caller, any 3 calls but `read_eeprom`/`read_register` on their own, 1 event at the remote | `TypeOK`, `RemoteAgrees`, `ReadyMeansWritten`, `SetOnce`, `IteratorValid`, `ButtonsSeen`, `ImplementsRequests` |
| `wiimote_two_callers` | 2 callers, any 2 calls, a block that crosses a multiple of `LowSize`, 1 report lost; state constraint `ReadsApart` | `ImplementsRequests` |
| `wiimote_liveness` | 1 caller, any 2 calls, 1 event, fair, deadlock checked | `FuturesComplete` |
| `device` | 2 input reports, 2 writers of 2 reports, fair, deadlock checked | `TypeOK`, `ClosedMeansQuiet`, `CallbackInOrder`, `AtMostOneTwice`, `CloseReturns`, `ImplementsDevice` (safety and liveness of `Device`) |
| `lifetime` | 1 input report, 3 calls or posts, fair, deadlock checked | `TypeOK`, `UsesDevice`, `ClosedFirstIsSafe`, `TeardownReturns`, `RumbleEnds`, `MotorFollows` |
| `speaker` | streams of 25 and 12 bytes, rates 7000 and 8000, both formats, 1 change of settings, fair | `TypeOK`, `HeardAsConfigured`, `Paced`, `StreamPlayed` |
| `data` | a button and an accelerometer bit per byte; addresses and lengths at the boundaries of 16 bytes and of 8, 16, 24 bits; all values of the bits that a Motion Plus moves, both modes | `TypeOK`, `NoPhantomPress` (buttons); `FieldsFit`, `ReadCollects`, `WriteCovers` (blocks); `Restored` (extension) |
| `wiimote_replace`, `wiimote_unhandled`, `buttons_atomic`, `lifetime_open` | small instances | one finding each, section 5 |

Bounds. Two posts besides the null job of the destructor give the worker thread a
job that it sleeps for and one that overtakes it, possibly posted by the first;
for more of them the safety properties are proved (section 6). In `Wiimote`, three calls are a read or
a write under way, a change of the reporting mode that erases its handler, and a
request after that. The calibration block and the application's block take two
reports each, so the handlers that count are exercised at 2 and at 1. One event
is enough to have an extension appear at any point, the constructor included.
Addresses are kept modulo 8 with one caller, and modulo 16 with two, so that a block
of the application can cross a multiple of it, like a block that crosses a multiple
of 0x10000, without meeting another. In all runs the low parts of the two
identification blocks agree, as those of 0xa400fa and 0xa600fa do.

What one caller and two callers can expect differs, and the runs say so:

* With two callers the order of handlers can differ from the order of requests.
  The first matching handler then takes, and drops, the reply meant for another.
  The bytes a future gets are still right as long as no two reads are under way
  together whose replies look alike: the run goes no further than a state in which
  `ReadsApart` fails (it is a `CONSTRAINT`), and other reads do meet in it. Without the
  constraint `ImplementsRequests` is false: with a thread in each of `get_ext_id()` and
  `get_present_gyro()`, one takes the other's byte. With one caller, who waits for
  what these functions read, it is checked without a constraint. Even where the
  bytes are right a future may never complete, and an acknowledgement may count for
  another write. So `FuturesComplete` and `ReadyMeansWritten` are statements about one
  caller.
* With a lost report the handler of the lost request stays and takes later
  answers, so `FuturesComplete` has no losses.
* `ReadyMeansWritten` has an exception for writes made after the handler of an
  earlier write was erased: the outstanding acknowledgements of that one are then
  counted for the later one. TLC finds that with three calls.
* `wiimote_one_caller`, `wiimote_two_callers` do not check deadlock: with
  `report_accel` set the reader may stop on its own lock (section 5), which is a
  state in which this system stops. `wiimote_liveness` leaves the flags alone and
  checks deadlock.

In `DeviceIO` two input reports let one be finished at once and one be pending
while the device is closed; two reports per writer are needed to see a second
duplicate. In `Lifetime` three posts are a stream, a rumble and a report posted by the
callback, or a mode for which the callback gets stuck, in any order with `close()` and
the destruction. One input report lets the callback run, return or get stuck at any
moment of these; the theorems hold for any number of posts and reports. The end states
without a step are named in `Rest`: the object is gone, or `close()` waits for a callback
that is stuck. In `Speaker` 25 bytes make a full packet and a short one, 7000 Hz has a
divisor that is not exact and a delay that is not whole, and `MaxSince` is not below
the time of the longest packet (5.7 ms), as `SinceAssumption` requires. The `speaker` run does not check deadlock: when all
streams are over, nothing is left to do.

`HeardAsConfigured` and `Paced` are statements about streams that do not overlap
(`calm`). When they do, a second set-up mutes the first stream and resets
`speaker_sample_number` between its update and its use, so that a packet may follow
after 3 ms; nothing in the repository says otherwise. What does hold then is
checked too: the bound of the counter (`TypeOK`) and `StreamPlayed`.

## 4. Fairness

Weak fairness of each thread's own steps: an operating system runs every
thread that can run; sections under a mutex are single actions, and no thread
holds a mutex forever. In `WorkerThread` the clock advances, jobs return, and the
loop goes on when notified or when its time point has come. In `Wiimote` the job
thread sends what is queued (`SendJob`), and the reader takes what has arrived
(`Dispatch`). In `DeviceIO` the read thread and a
thread inside `close()` go on, and the driver completes a pending read for which a
report has arrived; that `close()` returns then depends on the remote not keeping
the driver's buffer full, since an APC is only delivered when a read has to wait
(`MaxInputs` bounds what arrives); writers return from `write()`. In `Lifetime` the threads
leave the functions they are in, jobs become due, the job thread goes on, and a
destruction that was begun is continued; nobody has to begin one. The callback
returns unless it is stuck on its own lock: so `TeardownReturns` says that the
destruction comes to its end, or as far as `close()` in `~device()`, which joins the
reader (device_windows.h:91-92, 106) and waits for ever if the callback is stuck.
`MotorFollows`, and `RumbleEnds` where it speaks of the motor, are about behaviours in
which reports go on reaching the remote (`ReportsGoOn`), since the rumble bit travels
with them and neither `set_rumble()` nor `rumble_until()` sends one: the calls of an
application are finite, and when the flag is cleared after the last report the motor
runs on. wiimote.h:214 says "super broken" of this code. What `RumbleEnds` says
without that condition is that the flag is cleared. In `Speaker` callers and job thread go on and
time passes. Nothing obliges an application to call, a user to act, a report to
be lost, or a condition variable to wake up spuriously.

## 5. Findings

* `OnlyDataHandlerReplaced`. wiimote.h:654 says "replace data report handler", but
  `remove_report_handler()` erases from it to the *end* of the list
  (wiimote.h:571). Every request made after the last change of mode and not yet
  answered loses its handler; its future never becomes ready, and since
  `report_handler` has no virtual destructor (wiimote.h:457) the promise is not even
  broken.
* `UnhandledStatusAnswered`. A status report that no handler takes (plugging an
  extension, or the answer to the constructor's second request) makes the reader
  call `update_reporting_mode()` (wiimote.h:135) with `m_read_handler_lock` held.
  With `report_accel` set that locks the same `std::mutex` again. The reader blocks,
  or ends by the exception; no handler is called again either way. `close()` and the
  destructor then wait for the reader for ever (`TeardownReturns`, in `Lifetime`).
* `ButtonAtomic`. wiimote.h:379 assumes that the word of buttons is atomic. It is
  written in three statements (756-758): a thread that polls can see all buttons
  up, or one byte only, while they are held.
* `CallbackInLife`. The class declares `m_device` before `m_read_handlers` and
  `m_read_handler_lock` (wiimote.h:504-511), so an object that is destroyed while it is
  open loses its handlers before `~device()` stops the callback that walks them.
  `~device()` closes an open device (device_windows.h:91), so such a destruction is
  provided for, and the test program ends that way. `ClosedFirstIsSafe` is what holds
  for an application that calls `close()` first.

One more comment and its code differ without a run: wiimote_speaker.h:39 says
"disable+enable speaker", but only the second half is there.

## 6. What is proved

`WorkerThreadProofs` (for any callers, types, bounds; from the named assumptions of
`WorkerThread`):

* `Invariance`: `Spec => []Inv`. `TypeOK` and `FirstInFirstOut` are not inductive.
  `Inv` adds that insertions are numbered without repetition up to `posts`, that the
  key of a prompt entry is not above the clock and not below those of the prompt
  entries it came after, that every entry was numbered after the `posts` its call
  had seen, and that there is at most one null job, whose number is above those of
  all prompt entries of callers. The proof has one lemma per group of
  conjuncts (`NumberingStep`, `PromptKeysStep`, `NullJobStep`, `OneJobStep`,
  `FirstInFirstOutStep`, `DrainedStep`) and one step per action.
* `TypeCorrect`, `JobsKeepOrder`, `QueueDrained`, `NoLostWakeUp`: the four invariants of
  `worker`. `SleepCovered` is preserved on its own, given `Inv`.
* `SafetyOfSchedule`: `Spec => Schedule!Spec`, the refinement without fairness:
  initial states map to initial states, and each action to one action of
  `JobSchedule` or to a stutter.

`DataProofs` is about what the code reads out of one report and puts into it:

* `WordCorrect` (`[]TypeOK`) and `NoPhantom` (`NoPhantomPress`) of `ButtonState`, for any
  set of bits, from an invariant that says what the word holds at each place of
  the handler.
* `PassedThroughRestored` (`Restored` of `Passthrough`), for any set of bits and both
  modes. `MovesInv` says of each bit that a move touches what it holds before the
  move that is next: its own value if it has been restored, else what the Motion
  Plus put there (`Back`). `MovesAre` lists the moves of the two modes; `MoveBitInv` has
  one case per move.
* `Fitting`, `Collecting` and `Covering`, which are `FieldsFit`, `ReadCollects` and
  `WriteCovers` of `Blocks`, for any set of addresses and lengths. The invariant does not
  describe the steps made so far but where they led: the number of pieces behind
  determines the cursor, what is left, and the reports ahead or posted (`Piece`,
  `WritePart`). `Reads` and `Writes` move one piece across. `Decoded` is why a number
  survives its encoding, for each of the 2^24 addresses and 2^16 lengths;
  `Recognised`, why the low half of an address is enough for the piece at the cursor;
  `Turns`, why the loop ends at the end of the data for the lengths in `CutEvenly`.

`DeviceIOProofs` (for any writers and bounds): `TypeCorrect`, `QuietAfterClose`,
`ReportsInOrder` and `OneDuplicate` are the invariants of `device`. The inductive
invariant says in addition where the closing thread may be while the read thread
runs, that the buffer holds the report after the last one seen while the callback
has it, and that a writer whose last report may be sent twice will not use
`WriteFile()` again. `PromiseKept` is the refinement of `Device` without fairness.

`LifetimeProofs` (for any bounds): the inductive invariant adds to `TypeOK` the order of
the destruction (the job thread has ended before the device goes, the caller's
thread writes only while the object is used, the device is destroyed last) and
that a closed device is quiet. From it: `TypeCorrect`; `DeviceUsed`, that every step is a
step of `Device` or a stutter, so no write begins when the device is gone;
`QuietWhenClosedFirst`, which is `ClosedFirstIsSafe`.

`WiimoteProofs` (for any threads, blocks, calls, events and losses): `Invariance`,
`Spec => []Inv`. `Inv` types what is left of each call, the handlers, the queue and
the wire, and says:

* every reply on the wire carries the bytes of its address, or the error of a block
  that may be refused (`WireInv`, `Faithful`);
* every handler with a promise, in the list or in the hands of a thread that is
  about to insert it, serves a future that is pending and of its kind (`Serves`);
* no two such handlers serve the same future (`Apart`).

`CollectInv` adds, for as long as `ReadsApart` holds, that such a handler has collected
the beginning of its block (`Collected`).

That and the first part are why an answer fits the request, the third why an answer to one
request leaves the others pending. The step that inserts such a handler is always
the first of what a thread has left (`TodoInv`), so a promise is never forgotten on
the way to the list. `FutureStep` has one lemma for each way in which handlers change
(`PromiseMade`, `HandlerAdded`, `HandlerAdvanced`, `PromiseFulfilled`, `HandlersKept`).
From the invariant: `TypeCorrect`; `PromisesSetOnce` (`SetOnce`); and
`FuturesKeepPromise`: `Spec /\ []ReadsApart => ImplementsRequests`. It assumes nothing of
the blocks themselves, which may agree in their low bits, but of those that are under
way together: `AskedOnce` and `ReplyApart` show that a reply which a handler takes for its own
is then for the block the handler asked for, at the place it has reached. The first two need no such condition:
replies that are taken for one another spoil the bytes of a future, but never set a
promise twice.

`HandlerListProofs` extends `WiimoteProofs` and uses its invariant.

`IteratorStaysValid` is `IteratorValid`, for one application thread and any blocks, calls,
events and losses. `OwnerInv` says where the thread is: among steps that leave the iterator
alone (`Calm`), or about to erase (`Erasing`), and then the iterator is `end()` or names a
node of the list (`Refers`); or past the erasure, about to add the new node (`Adding`)
or to store its iterator (`Storing`), with calm steps to follow, so that nothing can be
erased in between. `ReaderInv` says that the reader, who executes the same function with
the lock held, gets no further than the erasure. `NodesStay` shows that no handler of a
report takes a node out. The condition is needed: a second application thread may
erase from the same iterator before the first has stored the new one.

`ButtonsFollowed` is `ButtonsSeen`, for any application threads, blocks, calls and events,
and a wire that loses nothing. It needs the button handler to be the first of the
list, although the constructor inserts two others before it. `FirstInv` follows the
constructor: while the one-shot handler of `request_status()` is there, a status
report is ahead of every reply to a read, on the wire or in the queue
(`StatusDue`, `StatusFirst`), so the handler has gone when the calibration block is
complete; the handler of the block goes with its last reply, for which `get()`
waits. What others do meanwhile does not disturb it (`ConstructorWaits`): no member
function is called before the constructor has returned, and a reader that resets
the reporting mode inserts no handler while `report_accel` is not set (`Resetting`).
Afterwards nothing is put in front of the button handler and it is never erased
(`ButtonStaysFirst`): the iterator that is erased from refers to a data report handler or
to the end. That no report is lost is needed: if the first status request is, its
handler stays first and swallows the report that answers the second one.

`OneCallerProofs` extends `HandlerListProofs`. `RemoteAgreed` is `RemoteAgrees`, for one
application thread, a wire that loses nothing, and any blocks, calls and events.
`RemoteInv` follows the constructor with the invariant of `ButtonsFollowed` up to its last status
request, and says from then on (`ModeInv`): the mode that the flags ask for is the last
one in the queue, or the remote is in it and the queue holds none (`LastIn`); or the
application is going to post it (`OwnerDue`); or the reader is executing
`update_reporting_mode()`; or a status report is ahead, on the wire or in the queue
(`StatusAhead`), which no handler takes any more (`NoStatus`), so that the reader will.
The part that a test would hardly reach is `ReaderForm`: the reader never posts a mode
other than that of the buttons, because in the other branches it stops at its own lock;
and if the flag was set after it had tested it, the application has yet to take that lock
(`BeforeLock`), so its post comes after the reader's. Steps that post no mode and no
LEDs are `Neutral`, and `NeutralStep` handles them together. Both conditions are needed: a
second thread may set a flag between the test and the post of the first, and a mode
that is lost is posted again by nobody.

`ReadyOnlyWhenWritten` is `ReadyMeansWritten`, under the same conditions. An acknowledgement
does not say which write it is for, so what has to be shown is that those a handler
counts are those of its own reports. `CountInv` gives every write report a place, in the
order of posting: those of write `f` are at `lo[f]` to `hi[f] - 1`, and one write comes
right after another (`Slots`). Three places mark how far things have come: the reports before
`P` are posted, those before `E` executed, those before `A` acknowledged to a handler. The
queue holds the reports from `E` to `P` (`Queued`), the wire the acknowledgements from `A` to
`E` (`Tally` counts the reports of a kind along a queue), and `written` follows from `E`
(`Executed`). `Credits` is the heart of it: handlers are in the order of their writes; what
a handler has left to count, added to `A` or to its first place, is the end of its places;
and a future that is ready has all its places before `A`. It says so only of a write
with no handler missing before it (`Intact`), which is the exception that the property makes.
`Posting` says that `P` is the end of all places, or the application posts the rest of one
write, or is about to insert its handler. The reader that begins a write, in
`initialize_extension()`, stops at its own lock before it inserts the handler (`Stuck`), so its
write has no places. Steps that insert no such handler and post no write are `Dry`,
and handled together. Both conditions are needed: two callers may insert their handlers
in one order and post their reports in the other, and the acknowledgement of the
next write is counted in place of one that is lost.

`SpeakerProofs` (for any streams, lengths, rates and bounds; `SinceAssumption` says that
the bound of `since` is not below the longest packet):

* `TypeCorrect` (`[]TypeOK`), with no condition on how streams overlap. The invariant
  adds that the number is 0 whenever a packet is about to be counted.
* `Heard` (`[]HeardAsConfigured`). `CalmInv` says that, while streams do not overlap, a
  state is one of three: nothing is live and the queue is empty (`Quiet`); one call is at
  step `k` of its set-up, and the queue and the handlers hold the write of that step
  or nothing (`SettingUp`); one stream has exactly one job, in the queue or being
  executed (`Playing`). One lemma per kind of state (`QuietNext`, `SettingUpNext`,
  `PlayingNext`) follows every action from it. `SetUpSteps` computes the seventeen steps
  of `SetUp`.
* `PacketsPaced` (`Paced`). `PaceInv` keeps the account: what is owed is what the packet
  was sent with, until its delay is known; from then on the time that has passed
  and the time the job still waits make up for it. `PacketFits` is the arithmetic: for
  every rate, the delay in whole milliseconds is not shorter than the packet at
  the divisor of 16 bits. It needs only one of the 3 ms of slack.

## 7. What is only model-checked, and what is not modelled

Only checked: everything about liveness (`DestructorReturns`, the fairness parts of
`ImplementsSchedule` and `ImplementsDevice`, `FuturesComplete`, `CloseReturns`,
`TeardownReturns`, `RumbleEnds`, `MotorFollows`, `StreamPlayed`), which is beyond the
prover. Every invariant and every action property of a passing run is proved, the
iterator, the mode, the write counts and the buttons under the conditions named
above, and `ImplementsRequests` as long as `ReadsApart` holds: that this is always so
with one caller who waits for what he reads is only checked.

Not modelled, or in a model but covered by no property, and why:

* Two threads that write `data_report_handler_iter`, or two writes that share
  `m_write_overlapped`, at the same moment: neither has a defined outcome.
* A motor that an old rumble bit switches on with the last report of all
  (`MotorFollows` needs reports to go on), and a rate of 0 or below 184, whose divisor
  does not fit its field.
* The length of a write that is longer than 16 bytes and not a multiple of 16, or
  empty, and the buffer of a read that is still pending when its thread ends: C++
  gives no outcome to check. They are among the hazards.
* `wait_until()` is given a reference to a key that another thread may erase; whether
  it is read again depends on the standard library. `WorkerThread` copies the key.
* `set_speaker_mute()` and `set_ir_sensitivity()`, whose bodies are commented out; `initialize_gyro()` and `handle_gyro_data()`, which no code
  calls; a second `callback_read()` on one device, which no code makes.
* Enumeration of devices, which is a series of calls to Windows with no state of its
  own; `calibrated_int`, floating-point arithmetic without state; `set_bits` and
  `get_bits`, which are stubs; the data structures of extensions and of accelerometer
  and camera reports, which no code reads.
* `basic_wiimote.*` and `device.cpp`, which the project file does not compile.

## 8. Plan

The order was: the two components that everything else rests on, then what can be
stated on its own, then what ties the parts together.

1. *Done:* `WorkerThread` with `JobSchedule`; `Wiimote` with `Requests`; `ButtonState`;
   `DeviceIO`; `Blocks`; `Passthrough`; `Speaker`; the first proofs.
2. *Done:* `Lifetime`, with its proofs.
3. *Done:* `Device`, with `DeviceIO` shown and proved to implement it and `Lifetime` shown
   and proved to use it as it asks.
4. *Done:* the proofs about `Wiimote`: types, and the refinement of `Requests`.
5. *Done:* the proofs about `Speaker` and `Blocks`.
6. *Done:* the proofs of `IteratorValid` for one caller, of `ButtonsSeen`, and of
   `RemoteAgrees` and `ReadyMeansWritten` for one caller and no losses; the proof about
   `Passthrough`.
7. *Left:* the proof that `ReadsApart` always holds with one caller who waits for what
   he reads. Liveness stays with TLC.

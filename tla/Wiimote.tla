------------------------------ MODULE Wiimote --------------------------------
(***************************************************************************)
(* wio::wiimote (wiimoteio/wiimote.h, wiimote.cpp) with the threads that   *)
(* meet in it:                                                             *)
(*   - application threads, which call the public member functions;        *)
(*   - the job thread of m_worker, which sends the output reports;         *)
(*   - the reader thread of device::callback_read(), which offers every    *)
(*     input report to the handlers of m_read_handlers;                    *)
(*   - the remote, which answers.                                          *)
(*                                                                         *)
(* A member function is the sequence of steps in which it touches what the *)
(* threads share (Step constructors and the operators after them); todo[t] *)
(* holds the steps that thread t still has to take and one action executes *)
(* each kind of step.  A callee's steps are put in front of its caller's.  *)
(*                                                                         *)
(* m_worker is its FIFO of prompt jobs, as WorkerThread!FirstInFirstOut    *)
(* justifies: a job is posted in one step and jobs run in that order.      *)
(* m_read_handler_lock is held across steps only by the reader, while it   *)
(* executes update_reporting_mode() for an unhandled status report; every  *)
(* other section it protects is one action.                                *)
(*                                                                         *)
(* A definition with a suffix after "_" is a mistaken form of the one that *)
(* follows it; no specification uses it, and a property fails with it.     *)
(***************************************************************************)
EXTENDS Naturals, Sequences, SequencesExt

CONSTANTS
  Callers,     \* application threads
  Owner,       \* the one that constructs the object
  Reader,      \* the thread of device::callback_read()
  Calibration, \* the eeprom block read by the constructor, [addr, len]
  ExtId,       \* the identification read by get_ext_id()
  GyroId,      \* the identification read by get_present_gyro()
  ExtInit,     \* the registers initialize_extension() writes, in order
  ExtSpace,    \* registers that answer only while an extension is plugged in
  Reads,       \* other blocks the application reads
  Writes,      \* blocks the application writes
  Leds,        \* arguments of set_leds()
  Features,    \* the report_* flags the application sets
  ChunkSize,   \* bytes of data in one report: 0x10
  LowSize,     \* a reply carries an address modulo this: 0x10000
  MaxCalls,    \* bound: calls of the application
  MaxEvents,   \* bound: events at the remote (buttons, extension)
  MaxLosses    \* bound: output reports lost on their way

Block == [addr : Nat, len : Nat]
ReadBlocks == {Calibration, ExtId, GyroId} \cup Reads
WriteBlocks == Writes \cup {ExtInit[i] : i \in DOMAIN ExtInit}

ASSUME ThreadsAssumption == Owner \in Callers /\ Reader \notin Callers
ASSUME BlocksAssumption ==
  /\ ReadBlocks \cup Writes \subseteq Block
  /\ ExtInit \in Seq(Block)
  /\ ExtSpace \subseteq Nat
\* The field for the size of a reply holds one less than the size.
ASSUME ReadsAssumption == \A b \in ReadBlocks : b.len > 0
ASSUME LedsAssumption == Leds \subseteq Nat \ {0}
ASSUME FeaturesAssumption ==
  Features \subseteq {"report_button", "report_accel", "report_ir", "report_gyro", "report_ext"}
ASSUME SizesAssumption == ChunkSize \in Nat \ {0} /\ LowSize \in Nat \ {0}
\* write_data() cuts its data into pieces of equal size; it is called with data
\* that can be cut so.
ASSUME WritesAssumption ==
  \A b \in WriteBlocks :
    b.len \in 1 .. ChunkSize \/ (b.len > 0 /\ b.len % ChunkSize = 0)
ASSUME BoundsAssumption == MaxCalls \in Nat /\ MaxEvents \in Nat /\ MaxLosses \in Nat

VARIABLES
  todo,      \* per thread: the steps left of the call it is in
  built,     \* the constructor has returned
  handlers,  \* m_read_handlers
  jobs,      \* m_worker's queue of output reports to send
  wire,      \* input reports on their way to the reader
  futures,   \* one record per read_data()/write_data() call: see Requests
  written,   \* per such call: how many of its write reports the remote executed
  state,     \* the fields of m_state
  button,    \* m_input_state.button
  remote,    \* the remote: leds, mode, ext, button
  nodes,     \* number of data report handlers ever inserted; names the nodes
  count      \* counters of the bounds: calls, events, losses

vars == <<todo, built, handlers, jobs, wire, futures, written, state, button, remote, nodes, count>>

Threads == Callers \cup {Reader}

Off == 0      \* a remote that sends no data reports
Button == 48  \* the report ids 0x30, 0x31 and 0x35
ButtonAccel == 49
ButtonAccelExt16 == 53

End == 0      \* m_read_handlers.end()

\* What the futures of read_data() and write_data() promise.
AskFor(kind, b) == [kind |-> kind, addr |-> b.addr, len |-> b.len]
Asks == {AskFor("read", b) : b \in ReadBlocks} \cup {AskFor("write", b) : b \in WriteBlocks}
Promises == INSTANCE Requests WITH MayFail <- ExtSpace

-----------------------------------------------------------------------------
(* Handlers of input reports. *)

StatusHandler == [kind |-> "status"]
ButtonHandler == [kind |-> "button"]
DataHandler(mode, node) == [kind |-> "data", mode |-> mode, node |-> node]
ReadHandler(f, b) == [kind |-> "read", fut |-> f, addr |-> b.addr, left |-> b.len, data |-> <<>>]
AckHandler(f, n) == [kind |-> "ack", fut |-> f, counter |-> n]

(* Output reports. *)

StatusRequest == [rpt |-> "status"]
PlayerLeds(v) == [rpt |-> "leds", leds |-> v]
ReportMode(m) == [rpt |-> "mode", mode |-> m]
ReadBlock(b) == [rpt |-> "read", block |-> b]
WriteChunk(f, a) == [rpt |-> "write", fut |-> f, addr |-> a]

(* The steps a member function is made of. *)

Add(h) == [do |-> "add", handler |-> h]
AddData(mode) == [do |-> "addData", mode |-> mode]
RemoveFromIterator == [do |-> "remove"]
Post(rpt) == [do |-> "post", rpt |-> rpt]
Store(field, v) == [do |-> "store", field |-> field, value |-> v]
IfState(field, v, then, else) ==
  [do |-> "if", field |-> field, value |-> v, then |-> then, else |-> else]
Read(b, wait) == [do |-> "read", block |-> b, wait |-> wait]
Write(b, wait) == [do |-> "write", block |-> b, wait |-> wait]
Await(f) == [do |-> "await", fut |-> f]
Return == [do |-> "return"]

-----------------------------------------------------------------------------
(* The member functions. *)

InitializeExtension ==
  LET writes == [i \in DOMAIN ExtInit |-> Write(ExtInit[i], FALSE)]
  IN  <<IfState("ext_mode", 0, Append(writes, Store("ext_mode", 85)), <<>>)>>

\* The end of update_reporting_mode(), with the value of its variable mode.
SendMode(mode) ==
  <<IfState("report_ext", TRUE, InitializeExtension, <<>>), Post(ReportMode(mode))>>

\* change_reporting_mode<R>() and what follows it.
ChangeMode(mode) == <<RemoveFromIterator, AddData(mode)>> \o SendMode(mode)

UpdateReportingMode_IteratorKept ==
  <<IfState("report_accel", TRUE, ChangeMode(ButtonAccel),
            <<RemoveFromIterator>> \o SendMode(Button))>>

UpdateReportingMode ==
  LET otherwise ==
        <<IfState("report_accel", TRUE, ChangeMode(ButtonAccel), SendMode(Button))>>
  IN  <<IfState("report_accel", TRUE,
          <<IfState("report_ext", TRUE, ChangeMode(ButtonAccelExt16), otherwise)>>,
          otherwise)>>

\* request_status(), update_accel_calibration(), the button handler and the
\* second status request.
Construct ==
  <<Add(StatusHandler), Post(StatusRequest),
    Read(Calibration, TRUE),
    Add(ButtonHandler), Store("data_iter", End),
    Post(StatusRequest), Return>>

-----------------------------------------------------------------------------

Init ==
  /\ todo = [t \in Threads |-> IF t = Owner THEN Construct ELSE <<>>]
  /\ built = FALSE
  /\ handlers = <<>>
  /\ jobs = <<>>
  /\ wire = <<>>
  /\ futures = <<>>
  /\ written = <<>>
  /\ state = [leds |-> 0, present_ext |-> FALSE, ext_mode |-> 0, data_iter |-> End,
              report_button |-> FALSE, report_accel |-> FALSE, report_ir |-> FALSE,
              report_gyro |-> FALSE, report_ext |-> FALSE]
  /\ button = 0
  /\ remote \in [leds : {0}, mode : {Button}, ext : BOOLEAN, button : {0}]
  /\ nodes = 0
  /\ count = [calls |-> 0, events |-> 0, losses |-> 0]

\* An application thread calls a member function.
Call(t, steps) ==
  /\ built /\ todo[t] = <<>>
  /\ count.calls < MaxCalls
  /\ todo' = [todo EXCEPT ![t] = steps]
  /\ count' = [count EXCEPT !.calls = @ + 1]
  /\ UNCHANGED <<built, handlers, jobs, wire, futures, written, state, button, remote, nodes>>

SetLeds(t) == \E v \in Leds : Call(t, <<Store("leds", v), Post(PlayerLeds(v))>>)

SetReport(t) ==
  \E f \in Features, enable \in BOOLEAN :
    Call(t, <<Store(f, enable)>> \o UpdateReportingMode)

\* read_eeprom() and read_register(); the caller may or may not wait.
ReadData(t) == \E b \in Reads, wait \in BOOLEAN : Call(t, <<Read(b, wait)>>)

WriteData(t) == \E b \in Writes, wait \in BOOLEAN : Call(t, <<Write(b, wait)>>)

GetPresentGyro(t) == Call(t, <<Read(GyroId, TRUE)>>)

GetExtId(t) == Call(t, Append(InitializeExtension, Read(ExtId, TRUE)))

-----------------------------------------------------------------------------
(* The steps of a call. *)

Do(t, what) == todo[t] # <<>> /\ Head(todo[t]).do = what

\* The step of t is done; its callee's steps come next.
Continue(t, steps) == todo' = [todo EXCEPT ![t] = steps \o Tail(@)]

\* m_read_handler_lock is free: the reader is not inside its callback.  The
\* mutex is not recursive: a reader that locks it again does not go on, be it
\* that it blocks or that the exception of lock() ends it.
LockFree == todo[Reader] = <<>>

Chunks(n) == (n + (ChunkSize - 1)) \div ChunkSize

\* add_report_handler()
AddReportHandler(t) ==
  /\ LockFree
  /\ \/ /\ Do(t, "add")
        /\ handlers' = Append(handlers, Head(todo[t]).handler)
        /\ Continue(t, <<>>)
        /\ UNCHANGED nodes
     \/ /\ Do(t, "addData")
        /\ handlers' = Append(handlers, DataHandler(Head(todo[t]).mode, nodes + 1))
        /\ Continue(t, <<Store("data_iter", nodes + 1)>>)
        /\ nodes' = nodes + 1
  /\ UNCHANGED <<built, jobs, wire, futures, written, state, button, remote, count>>

IsIterator_Begin(i) ==
  \/ i = 1 /\ state.data_iter = End
  \/ i <= Len(handlers) /\ handlers[i].kind = "data" /\ handlers[i].node = state.data_iter

IsIterator(i) ==
  \/ i = Len(handlers) + 1 /\ state.data_iter = End
  \/ i <= Len(handlers) /\ handlers[i].kind = "data" /\ handlers[i].node = state.data_iter

\* remove_report_handler(data_report_handler_iter): from the iterator to the
\* end of the list.  With an iterator to a node that is gone the behaviour is
\* undefined and the model does not go on.  report_handler has no virtual
\* destructor: deleting a handler frees its memory, but its promise is not
\* destroyed, so the future of a handler that is erased stays pending.
RemoveReportHandler(t) ==
  /\ Do(t, "remove") /\ LockFree
  /\ \E i \in 1 .. Len(handlers) + 1 :
       /\ IsIterator(i)
       /\ handlers' = SubSeq(handlers, 1, i - 1)
  /\ Continue(t, <<>>)
  /\ UNCHANGED <<built, jobs, wire, futures, written, state, button, remote, nodes, count>>

\* m_worker.schedule_job()
ScheduleJob(t) ==
  /\ Do(t, "post")
  /\ jobs' = Append(jobs, Head(todo[t]).rpt)
  /\ Continue(t, <<>>)
  /\ UNCHANGED <<built, handlers, wire, futures, written, state, button, remote, nodes, count>>

StoreState(t) ==
  /\ Do(t, "store")
  /\ state' = [state EXCEPT ![Head(todo[t]).field] = Head(todo[t]).value]
  /\ Continue(t, <<>>)
  /\ UNCHANGED <<built, handlers, jobs, wire, futures, written, button, remote, nodes, count>>

TestState(t) ==
  /\ Do(t, "if")
  /\ LET s == Head(todo[t])
     IN  Continue(t, IF state[s.field] = s.value THEN s.then ELSE s.else)
  /\ UNCHANGED <<built, handlers, jobs, wire, futures, written, state, button, remote, nodes, count>>

\* A promise is made; its number is that of the record appended.
NewFuture(ask) ==
  /\ futures' = Append(futures, [ask |-> ask, state |-> "pending", value |-> <<>>])
  /\ written' = Append(written, 0)

Waiting(f, wait) == IF wait THEN <<Await(f)>> ELSE <<>>

\* read_data() up to add_report_handler()
BeginRead(t) ==
  /\ Do(t, "read")
  /\ LET s == Head(todo[t])
         f == Len(futures) + 1
     IN  /\ NewFuture(AskFor("read", s.block))
         /\ Continue(t, <<Add(ReadHandler(f, s.block)), Post(ReadBlock(s.block))>>
                          \o Waiting(f, s.wait))
  /\ UNCHANGED <<built, handlers, jobs, wire, state, button, remote, nodes, count>>

BeginWrite_OneAck(t) ==
  /\ Do(t, "write")
  /\ LET s == Head(todo[t])
         f == Len(futures) + 1
     IN  /\ NewFuture(AskFor("write", s.block))
         /\ Continue(t, <<Add(AckHandler(f, 1))>>
                          \o [k \in 1 .. Chunks(s.block.len) |->
                                Post(WriteChunk(f, s.block.addr + (k - 1) * ChunkSize))]
                          \o Waiting(f, s.wait))
  /\ UNCHANGED <<built, handlers, jobs, wire, state, button, remote, nodes, count>>

\* write_data() up to add_report_handler(): one job for each piece of the data.
BeginWrite(t) ==
  /\ Do(t, "write")
  /\ LET s == Head(todo[t])
         f == Len(futures) + 1
         n == Chunks(s.block.len)
     IN  /\ NewFuture(AskFor("write", s.block))
         /\ Continue(t, <<Add(AckHandler(f, n))>>
                          \o [k \in 1 .. n |->
                                Post(WriteChunk(f, s.block.addr + (k - 1) * ChunkSize))]
                          \o Waiting(f, s.wait))
  /\ UNCHANGED <<built, handlers, jobs, wire, state, button, remote, nodes, count>>

\* get() returns.
AwaitFuture(t) ==
  /\ Do(t, "await")
  /\ futures[Head(todo[t]).fut].state = "ready"
  /\ Continue(t, <<>>)
  /\ UNCHANGED <<built, handlers, jobs, wire, futures, written, state, button, remote, nodes, count>>

\* The constructor returns.
ReturnObject(t) ==
  /\ Do(t, "return")
  /\ built' = TRUE
  /\ Continue(t, <<>>)
  /\ UNCHANGED <<handlers, jobs, wire, futures, written, state, button, remote, nodes, count>>

-----------------------------------------------------------------------------
(* The job thread sends the report at the head of its queue with            *)
(* send_report(), which ignores what device::write() returns.  The remote's *)
(* part (external) is what the code relies on: it executes reports in the   *)
(* order in which they arrive and answers in that order.                    *)

Send(rpt) ==
  /\ jobs # <<>> /\ Head(jobs).rpt = rpt
  /\ jobs' = Tail(jobs)
  /\ UNCHANGED <<todo, built, handlers, futures, state, button, nodes>>

\* Every input report carries the state of the buttons.  The block that a reply
\* answers is history for ReadsApart: no handler reads it.
InputStatus == [rpt |-> "status", button |-> remote.button, ext |-> remote.ext]
InputRead(b, a, err, data) ==
  [rpt |-> "read", button |-> remote.button, addr |-> a % LowSize, error |-> err, data |-> data,
   block |-> b]
InputAck(err) == [rpt |-> "ack", button |-> remote.button, error |-> err]
InputData == [rpt |-> "data", button |-> remote.button, mode |-> remote.mode]

Absent(a) == a \in ExtSpace /\ ~remote.ext

SendStatusRequest ==
  /\ Send("status")
  /\ wire' = Append(wire, InputStatus)
  /\ UNCHANGED <<written, remote, count>>

SendLeds ==
  /\ Send("leds")
  /\ remote' = [remote EXCEPT !.leds = Head(jobs).leds]
  /\ UNCHANGED <<wire, written, count>>

SendReportMode ==
  /\ Send("mode")
  /\ remote' = [remote EXCEPT !.mode = Head(jobs).mode]
  /\ UNCHANGED <<wire, written, count>>

\* One reply for each piece of the block, or one reply that reports an error.
SendReadData ==
  /\ Send("read")
  /\ LET b == Head(jobs).block
         Piece(k) == LET at == (k - 1) * ChunkSize
                         size == IF b.len - at < ChunkSize THEN b.len - at ELSE ChunkSize
                     IN  InputRead(b, b.addr + at, FALSE, Promises!Bytes(b.addr + at, size))
     IN  wire' = wire \o IF Absent(b.addr) THEN <<InputRead(b, b.addr, TRUE, <<>>)>>
                                           ELSE [k \in 1 .. Chunks(b.len) |-> Piece(k)]
  /\ UNCHANGED <<written, remote, count>>

SendWriteData ==
  /\ Send("write")
  /\ wire' = Append(wire, InputAck(IF Absent(Head(jobs).addr) THEN "error" ELSE "ok"))
  /\ written' = [written EXCEPT ![Head(jobs).fut] = @ + 1]
  /\ UNCHANGED <<remote, count>>

\* The report does not arrive.
LoseReport ==
  /\ count.losses < MaxLosses
  /\ \E rpt \in {"status", "leds", "mode", "read", "write"} : Send(rpt)
  /\ count' = [count EXCEPT !.losses = @ + 1]
  /\ UNCHANGED <<wire, written, remote>>

\* The user presses or releases a button: a data report in the current mode.
PressButton ==
  /\ count.events < MaxEvents
  /\ remote' = [remote EXCEPT !.button = 1 - @]
  /\ wire' = IF remote.mode = Off THEN wire
             ELSE Append(wire, [InputData EXCEPT !.button = 1 - @])
  /\ count' = [count EXCEPT !.events = @ + 1]
  /\ UNCHANGED <<todo, built, handlers, jobs, futures, written, state, button, nodes>>

\* The user plugs an extension in or out: a status report that nobody asked
\* for, and no data reports until a reporting mode is set.
PlugExtension ==
  /\ count.events < MaxEvents
  /\ remote' = [remote EXCEPT !.ext = ~@, !.mode = Off]
  /\ wire' = Append(wire, [InputStatus EXCEPT !.ext = ~@])
  /\ count' = [count EXCEPT !.events = @ + 1]
  /\ UNCHANGED <<todo, built, handlers, jobs, futures, written, state, button, nodes>>

-----------------------------------------------------------------------------
(* The callback of the reader thread: each handler is offered the report    *)
(* until one throws fully_handled or remove_handler.                        *)

\* A handler of this kind recognises the report (report_cast).
Takes(h, r) == h.kind = r.rpt /\ (h.kind = "data" => h.mode = r.mode)

\* The report at the head of the wire gets as far as handler i.
Reaches(i) ==
  /\ LockFree /\ wire # <<>>
  /\ \A k \in 1 .. i - 1 : ~Takes(handlers[k], Head(wire))
  /\ wire' = Tail(wire)
  /\ button' = IF \E k \in 1 .. i - 1 : handlers[k].kind = "button"
               THEN Head(wire).button ELSE button
  /\ UNCHANGED <<built, jobs, written, remote, nodes, count>>

TakenBy(i, kind) ==
  Reaches(i) /\ handlers[i].kind = kind /\ Takes(handlers[i], Head(wire))

\* The one-shot handler of request_status().
HandleStatus(i) ==
  /\ TakenBy(i, "status")
  /\ state' = [state EXCEPT !.present_ext = Head(wire).ext,
                            !.ext_mode = IF Head(wire).ext THEN @ ELSE 0]
  /\ handlers' = RemoveAt(handlers, i)
  /\ UNCHANGED <<todo, futures>>

HandleData(i) == TakenBy(i, "data") /\ UNCHANGED <<handlers, todo, futures, state>>

Fulfil_HandlerKept(i, v) ==
  /\ futures' = [futures EXCEPT ![handlers[i].fut].state = "ready",
                                ![handlers[i].fut].value = v]
  /\ UNCHANGED handlers

\* promise.set_value(v) and removal of the handler.
Fulfil(i, v) ==
  /\ futures' = [futures EXCEPT ![handlers[i].fut].state = "ready",
                                ![handlers[i].fut].value = v]
  /\ handlers' = RemoveAt(handlers, i)

Matches_Any(h, r) == TRUE

\* reply.get_address() == (address & 0xffff)
Matches(h, r) == r.addr = h.addr % LowSize

\* std::min(bytes_left, reply.get_size())
Amount(h, r) == IF h.left < Len(r.data) THEN h.left ELSE Len(r.data)

\* read_reply_handler: a reply for another address is dropped.
HandleReadReply(i) ==
  /\ TakenBy(i, "read")
  /\ LET h == handlers[i]
         r == Head(wire)
         amt == Amount(h, r)
         data == h.data \o SubSeq(r.data, 1, amt)
     IN  \/ ~Matches(h, r) /\ UNCHANGED <<handlers, futures>>
         \/ Matches(h, r) /\ r.error /\ Fulfil(i, <<>>)
         \/ Matches(h, r) /\ ~r.error /\ amt = h.left /\ Fulfil(i, data)
         \/ /\ Matches(h, r) /\ ~r.error /\ amt # h.left
            /\ handlers' = [handlers EXCEPT ![i].addr = @ + amt, ![i].left = @ - amt,
                                            ![i].data = data]
            /\ UNCHANGED futures
  /\ UNCHANGED <<todo, state>>

HandleAck_PostDecrement(i) ==
  /\ TakenBy(i, "ack")
  /\ \/ handlers[i].counter = 0 /\ Fulfil(i, Head(wire).error)
     \/ /\ handlers[i].counter # 0
        /\ handlers' = [handlers EXCEPT ![i].counter = @ - 1]
        /\ UNCHANGED futures
  /\ UNCHANGED <<todo, state>>

\* ack_reply_handler<rpt::write_data>: the last acknowledgement is the answer.
HandleAck(i) ==
  /\ TakenBy(i, "ack")
  /\ \/ handlers[i].counter = 1 /\ Fulfil(i, Head(wire).error)
     \/ /\ handlers[i].counter # 1
        /\ handlers' = [handlers EXCEPT ![i].counter = @ - 1]
        /\ UNCHANGED futures
  /\ UNCHANGED <<todo, state>>

HandleUnhandled_Ignored == Reaches(Len(handlers) + 1) /\ UNCHANGED <<handlers, todo, futures, state>>

\* No handler takes the report; a status report resets the reporting mode, with
\* the lock held.
HandleUnhandled ==
  /\ Reaches(Len(handlers) + 1)
  /\ todo' = IF Head(wire).rpt = "status"
             THEN [todo EXCEPT ![Reader] = UpdateReportingMode] ELSE todo
  /\ UNCHANGED <<handlers, futures, state>>

-----------------------------------------------------------------------------

Step(t) ==
  \/ AddReportHandler(t) \/ RemoveReportHandler(t) \/ ScheduleJob(t) \/ StoreState(t)
  \/ TestState(t) \/ BeginRead(t) \/ BeginWrite(t) \/ AwaitFuture(t) \/ ReturnObject(t)

SendJob ==
  \/ SendStatusRequest \/ SendLeds \/ SendReportMode \/ SendReadData \/ SendWriteData
  \/ LoseReport

Dispatch ==
  \/ HandleUnhandled
  \/ \E i \in DOMAIN handlers :
       HandleStatus(i) \/ HandleData(i) \/ HandleReadReply(i) \/ HandleAck(i)

AtRest == built /\ jobs = <<>> /\ wire = <<>> /\ \A t \in Threads : todo[t] = <<>>

\* All that is left to do, if anything, is to wait for an answer that will not
\* come: get() has no timeout.
Rest ==
  /\ jobs = <<>> /\ wire = <<>> /\ todo[Reader] = <<>> /\ count.events = MaxEvents
  /\ \A t \in Callers :
       \/ built /\ todo[t] = <<>> /\ count.calls = MaxCalls
       \/ Do(t, "await") /\ futures[Head(todo[t]).fut].state = "pending"
       \/ todo[t] = <<>> /\ ~built  \* another thread's constructor has not returned
  /\ UNCHANGED vars

Next ==
  \/ \E t \in Callers :
       \/ SetLeds(t) \/ SetReport(t) \/ ReadData(t) \/ WriteData(t)
       \/ GetPresentGyro(t) \/ GetExtId(t)
  \/ \E t \in Threads : Step(t)
  \/ SendJob
  \/ PressButton
  \/ PlugExtension
  \/ Dispatch
  \/ Rest

Spec == Init /\ [][Next]_vars

\* Every thread goes on with what it has begun.  Nothing obliges the
\* application to call nor the user to act.
Fairness ==
  /\ \A t \in Threads : WF_vars(Step(t))
  /\ WF_vars(SendJob)
  /\ WF_vars(Dispatch)

FairSpec == Spec /\ Fairness

-----------------------------------------------------------------------------

\* What the object keeps is well formed: no counter of an outstanding reply has
\* run below what is still expected.
TypeOK ==
  /\ built \in BOOLEAN
  /\ \A i \in DOMAIN handlers :
       LET h == handlers[i]
       IN  \/ h.kind \in {"status", "button"}
           \/ h.kind = "data" /\ h.mode \in {ButtonAccel, ButtonAccelExt16} /\ h.node \in 1 .. nodes
           \/ h.kind = "read" /\ h.fut \in DOMAIN futures /\ h.left \in Nat \ {0}
           \/ h.kind = "ack" /\ h.fut \in DOMAIN futures /\ h.counter \in Nat \ {0}
  /\ state.leds \in {0} \cup Leds /\ state.ext_mode \in {0, 85}
  /\ state.data_iter \in 0 .. nodes
  /\ DOMAIN written = DOMAIN futures
  /\ \A f \in DOMAIN futures : futures[f].state \in {"pending", "ready"}

\* The reporting mode the flags ask for.
RequestedMode ==
  IF ~state.report_accel THEN Button
  ELSE IF state.report_ext THEN ButtonAccelExt16 ELSE ButtonAccel

\* When one thread uses the object and nothing is under way, the remote has the
\* LEDs and the reporting mode that were asked for last, although an extension
\* may have reset the mode at any moment and the reader, too, sends modes.
RemoteAgrees ==
  AtRest => /\ state.leds # 0 => remote.leds = state.leds
            /\ remote.mode = RequestedMode

\* The button state follows every input report, whatever its kind and whatever
\* handlers are outstanding: the button handler is offered each report first.
ButtonsSeen ==
  [][built /\ Len(wire') < Len(wire) => button' = Head(wire).button]_vars

\* The future of write_data() is ready only when the remote has executed all of
\* its write reports: acknowledgements are credited to the write they belong
\* to, unless change_reporting_mode() erased the handler of an earlier write.
ReadyMeansWritten ==
  LET writes == {f \in DOMAIN futures : futures[f].ask.kind = "write"}
      Erased(g) == /\ futures[g].state = "pending"
                   /\ \A i \in DOMAIN handlers : handlers[i].kind = "ack" => handlers[i].fut # g
  IN  \A f \in writes :
        futures[f].state = "ready"
          => \/ written[f] = Chunks(futures[f].ask.len)
             \/ \E g \in writes : g < f /\ Erased(g)

\* The promise of a request is set only once, whichever replies and
\* acknowledgements are taken for one another: a second set_value() would throw in
\* the callback, and end the reader.
SetOnce ==
  [][\A f \in DOMAIN futures :
       futures[f].state = "ready" => f \in DOMAIN futures' /\ futures'[f] = futures[f]]_vars

\* The iterator that change_reporting_mode() erases from refers to a node of
\* the list.
IteratorValid ==
  \A t \in Callers : Do(t, "remove") => \E i \in 1 .. Len(handlers) + 1 : IsIterator(i)

\* Every future of read_data() and write_data() becomes ready.
FuturesComplete ==
  \A f \in 1 .. 1 + 3 * MaxCalls :
    f \in DOMAIN futures ~> f \in DOMAIN futures /\ futures[f].state = "ready"

\* wiimote.h:654: replacing the data report handler removes no other handler.
OnlyDataHandlerReplaced ==
  [][\A t \in Threads : RemoveReportHandler(t) =>
       \A i \in DOMAIN handlers : i > Len(handlers') => handlers[i].kind = "data"]_vars

\* wiimote.h:131: the reader finishes with an unhandled status report.
UnhandledStatusAnswered == todo[Reader] # <<>> ~> todo[Reader] = <<>>

-----------------------------------------------------------------------------
(* A reply carries the low part of its address only, and read_reply_handler *)
(* compares no more (wiimote.cpp:53): two reads under way together can take *)
(* each other's replies.  get_ext_id() and get_present_gyro() read          *)
(* addresses that agree in their low part, so nothing in the library keeps  *)
(* two threads from it.  What the futures promise then holds of the         *)
(* behaviours in which the blocks under way together differ there.          *)

ApartFrom(b, c) ==
  \A i \in 0 .. b.len - 1, j \in 0 .. c.len - 1 :
    (b.addr + i) % LowSize = (c.addr + j) % LowSize => b = c /\ i = j

\* A handler for the replies with block b is in the list or about to be inserted.
Waits(b) ==
  LET IsFor(h) == h.kind = "read" /\ futures[h.fut].ask = AskFor("read", b)
  IN  \/ \E i \in DOMAIN handlers : IsFor(handlers[i])
      \/ \E t \in Threads : Do(t, "add") /\ IsFor(Head(todo[t]).handler)

\* The request for block c or a reply to it is still to come.
UnderWay(c) ==
  \/ \E t \in Threads : \E k \in DOMAIN todo[t] : todo[t][k] = Post(ReadBlock(c))
  \/ \E k \in DOMAIN jobs : jobs[k] = ReadBlock(c)
  \/ \E k \in DOMAIN wire : wire[k].rpt = "read" /\ wire[k].block = c

ReadsApart == \A b, c \in ReadBlocks : Waits(b) /\ UnderWay(c) => ApartFrom(b, c)

\* The futures keep their promise whatever the threads, the wire and the losses
\* do: in every behaviour if one thread uses the object and waits for what it
\* reads; as long as ReadsApart holds if several do or one leaves a read behind.
ImplementsRequests == Promises!Spec

=============================================================================

------------------------------ MODULE DeviceIO -------------------------------
(***************************************************************************)
(* wio::device (wiimoteio/device_windows.h, device_windows.cpp): the read  *)
(* thread of callback_read(), the thread that closes the device and waits  *)
(* for the read thread, and the threads that write.                        *)
(*                                                                         *)
(* Windows is external: an overlapped read or write may finish at once, be *)
(* pending, or fail; a pending read is completed later with the next input *)
(* report; an asynchronous procedure call (APC) is delivered to a thread   *)
(* when that thread waits alertably.                                       *)
(*                                                                         *)
(* A definition with a suffix after "_" is a mistaken form of the one that *)
(* follows it; no specification uses it, and a property fails with it.     *)
(***************************************************************************)
EXTENDS Naturals, Sequences

CONSTANTS
  Writers,    \* threads that call write(): the job thread, speaker_stream()
  MaxInputs,  \* bound: input reports of the remote
  MaxWrites   \* bound: reports written by one thread

ASSUME BoundsAssumption == MaxInputs \in Nat /\ MaxWrites \in Nat

VARIABLES
  reader,    \* read thread: "created" "issue" "wait" "callback" "ended"
  joinable,  \* m_callback_read_thread.joinable()
  apc,       \* stop_callback_thread is queued to the read thread
  op,        \* the overlapped read: "none" "pending" "done" "failed"
  buffer,    \* the number of the report in data; 0 before the first
  seen,      \* history: the reports the callback was called with
  arrived,   \* input reports sent by the remote, numbered in order
  fetched,   \* input reports taken out of the driver's buffer
  gone,      \* the remote is disconnected
  closer,    \* thread in close(): "out" "stop" "join" "handle" "clear"
  handle,    \* "open" or "closed": the kernel's view of m_device
  isOpen,    \* is_open(): m_device is not null
  destroyed, \* ~device() has returned
  viaFile,   \* m_use_writefile
  writer,    \* per writer: "out" "file" "fallback" "set"
  copies     \* per writer and report: how often it was given to the remote

readVars == <<reader, op, buffer, seen, fetched>>
closeVars == <<joinable, closer, handle, isOpen, destroyed>>
writeVars == <<viaFile, writer, copies>>
vars == <<readVars, apc, arrived, gone, closeVars, writeVars>>

Init ==
  /\ reader = "created"
  /\ joinable = TRUE  \* the constructor of wiimote has called callback_read()
  /\ apc = FALSE
  /\ op = "none"
  /\ buffer = 0
  /\ seen = <<>>
  /\ arrived = 0 /\ fetched = 0
  /\ gone = FALSE
  /\ closer = "out"
  /\ handle = "open"
  /\ isOpen = TRUE
  /\ destroyed = FALSE
  /\ viaFile = TRUE
  /\ writer = [t \in Writers |-> "out"]
  /\ copies = [t \in Writers |-> <<>>]

-----------------------------------------------------------------------------
(* The remote and the driver. *)

Arrive ==
  /\ arrived < MaxInputs /\ ~gone
  /\ arrived' = arrived + 1
  /\ UNCHANGED <<readVars, apc, gone, closeVars, writeVars>>

Disconnect ==
  /\ ~gone
  /\ gone' = TRUE
  /\ UNCHANGED <<readVars, apc, arrived, closeVars, writeVars>>

\* The driver ends the pending read, with the next report or with an error.
CompleteRead ==
  /\ op = "pending"
  /\ \/ fetched < arrived /\ op' = "done" /\ fetched' = fetched + 1 /\ buffer' = fetched + 1
     \/ gone /\ op' = "failed" /\ UNCHANGED <<fetched, buffer>>
  /\ UNCHANGED <<reader, seen, apc, arrived, gone, closeVars, writeVars>>

-----------------------------------------------------------------------------
(* callback_read_thread_func() and read() *)

Start ==
  /\ reader = "created"
  /\ reader' = "issue"
  /\ UNCHANGED <<op, buffer, seen, fetched, apc, arrived, gone, closeVars, writeVars>>

\* ReadFile() returns nonzero.
ReadAtOnce ==
  /\ reader = "issue" /\ handle = "open" /\ fetched < arrived
  /\ fetched' = fetched + 1
  /\ buffer' = fetched + 1
  /\ reader' = "callback"
  /\ UNCHANGED <<op, seen, apc, arrived, gone, closeVars, writeVars>>

\* ReadFile() fails with ERROR_IO_PENDING.
ReadPending ==
  /\ reader = "issue" /\ handle = "open" /\ ~gone
  /\ op' = "pending"
  /\ reader' = "wait"
  /\ UNCHANGED <<buffer, seen, fetched, apc, arrived, gone, closeVars, writeVars>>

\* ReadFile() fails otherwise: read() returns 0 and the loop ends.
ReadFails ==
  /\ reader = "issue"
  /\ handle = "closed" \/ gone
  /\ reader' = "ended"
  /\ UNCHANGED <<op, buffer, seen, fetched, apc, arrived, gone, closeVars, writeVars>>

ReadCompleted_Unchecked ==
  /\ reader = "wait" /\ op \in {"done", "failed"}
  /\ reader' = "callback"
  /\ op' = "none"
  /\ UNCHANGED <<buffer, seen, fetched, apc, arrived, gone, closeVars, writeVars>>

\* WaitForSingleObjectEx() returns because of the event; GetOverlappedResult().
ReadCompleted ==
  /\ reader = "wait" /\ op \in {"done", "failed"}
  /\ reader' = IF op = "done" THEN "callback" ELSE "ended"
  /\ op' = "none"
  /\ UNCHANGED <<buffer, seen, fetched, apc, arrived, gone, closeVars, writeVars>>

\* The wait is interrupted by stop_callback_thread(), whose exception leaves
\* read() and the loop; the overlapped read stays what it is.
RunApc ==
  /\ reader = "wait" /\ apc
  /\ apc' = FALSE
  /\ reader' = "ended"
  /\ UNCHANGED <<op, buffer, seen, fetched, arrived, gone, closeVars, writeVars>>

\* The callback returns.
Callback ==
  /\ reader = "callback"
  /\ seen' = Append(seen, buffer)
  /\ reader' = "issue"
  /\ UNCHANGED <<op, buffer, fetched, apc, arrived, gone, closeVars, writeVars>>

-----------------------------------------------------------------------------
(* close() and ~device() *)

CloseBegin_ThreadLeft ==
  /\ closer = "out" /\ ~destroyed
  /\ reader # "created"
  /\ closer' = "handle"
  /\ UNCHANGED <<readVars, apc, arrived, gone, joinable, handle, isOpen, destroyed, writeVars>>

\* close(), by wiimote::close(), again or not, or by ~device() if is_open().  The
\* read thread has begun to run: the constructor of wiimote waits for an answer.
CloseBegin ==
  /\ closer = "out" /\ ~destroyed
  /\ reader # "created"
  /\ closer' = IF joinable THEN "stop" ELSE "handle"
  /\ UNCHANGED <<readVars, apc, arrived, gone, joinable, handle, isOpen, destroyed, writeVars>>

QueueApc_Dropped ==
  /\ closer = "stop"
  /\ closer' = "join"
  /\ UNCHANGED <<readVars, apc, arrived, gone, joinable, handle, isOpen, destroyed, writeVars>>

\* QueueUserAPC() fails for a thread that has ended; the result is not used.
QueueApc ==
  /\ closer = "stop"
  /\ apc' = (reader # "ended")
  /\ closer' = "join"
  /\ UNCHANGED <<readVars, arrived, gone, joinable, handle, isOpen, destroyed, writeVars>>

Join_Detached ==
  /\ closer = "join"
  /\ joinable' = FALSE
  /\ closer' = "handle"
  /\ UNCHANGED <<readVars, apc, arrived, gone, handle, isOpen, destroyed, writeVars>>

\* m_callback_read_thread.join()
Join ==
  /\ closer = "join" /\ reader = "ended"
  /\ joinable' = FALSE
  /\ closer' = "handle"
  /\ UNCHANGED <<readVars, apc, arrived, gone, handle, isOpen, destroyed, writeVars>>

\* CloseHandle(m_device)
CloseDevice ==
  /\ closer = "handle"
  /\ handle' = "closed"
  /\ closer' = "clear"
  /\ UNCHANGED <<readVars, apc, arrived, gone, joinable, isOpen, destroyed, writeVars>>

ClearHandle_Forgotten ==
  /\ closer = "clear"
  /\ closer' = "out"
  /\ UNCHANGED <<readVars, apc, arrived, gone, joinable, handle, isOpen, destroyed, writeVars>>

\* m_device = native_handle_type()
ClearHandle ==
  /\ closer = "clear"
  /\ isOpen' = FALSE
  /\ closer' = "out"
  /\ UNCHANGED <<readVars, apc, arrived, gone, joinable, handle, destroyed, writeVars>>

\* ~device() returns.  m_worker was destroyed before, so no thread is writing.
Destroy ==
  /\ closer = "out" /\ ~isOpen /\ ~destroyed
  /\ \A t \in Writers : writer[t] = "out"
  /\ destroyed' = TRUE
  /\ UNCHANGED <<readVars, apc, arrived, gone, joinable, closer, handle, isOpen, writeVars>>

-----------------------------------------------------------------------------
(* write() *)

MoveWriter(t, to) == writer' = [writer EXCEPT ![t] = to]

WriteBegin(t) ==
  /\ writer[t] = "out" /\ ~destroyed
  /\ Len(copies[t]) < MaxWrites
  /\ copies' = [copies EXCEPT ![t] = Append(@, 0)]
  /\ MoveWriter(t, IF viaFile THEN "file" ELSE "set")
  /\ UNCHANGED <<readVars, apc, arrived, gone, closeVars, viaFile>>

\* The last report of t is given to the remote once more.
Transmit(t) == copies' = [copies EXCEPT ![t][Len(copies[t])] = @ + 1]

Reachable == handle = "open" /\ ~gone

\* WriteFile() returns nonzero, and so does write().
WriteAtOnce(t) ==
  /\ writer[t] = "file" /\ Reachable
  /\ Transmit(t)
  /\ MoveWriter(t, "out")
  /\ UNCHANGED <<readVars, apc, arrived, gone, closeVars, viaFile>>

\* WriteFile() returns 0, for a write that is pending and for one that failed.
WriteReturnsZero(t) ==
  /\ writer[t] = "file"
  /\ \/ Reachable /\ Transmit(t)
     \/ UNCHANGED copies
  /\ MoveWriter(t, "fallback")
  /\ UNCHANGED <<readVars, apc, arrived, gone, closeVars, viaFile>>

StopWriteFile_Forgotten(t) ==
  /\ writer[t] = "fallback"
  /\ MoveWriter(t, "set")
  /\ UNCHANGED <<readVars, apc, arrived, gone, closeVars, viaFile, copies>>

\* m_use_writefile = false
StopWriteFile(t) ==
  /\ writer[t] = "fallback"
  /\ viaFile' = FALSE
  /\ MoveWriter(t, "set")
  /\ UNCHANGED <<readVars, apc, arrived, gone, closeVars, copies>>

\* HidD_SetOutputReport()
SetOutputReport(t) ==
  /\ writer[t] = "set"
  /\ \/ Reachable /\ Transmit(t)
     \/ UNCHANGED copies
  /\ MoveWriter(t, "out")
  /\ UNCHANGED <<readVars, apc, arrived, gone, closeVars, viaFile>>

-----------------------------------------------------------------------------

Read == Start \/ ReadAtOnce \/ ReadPending \/ ReadFails \/ ReadCompleted \/ RunApc \/ Callback

Close == CloseBegin \/ QueueApc \/ Join \/ CloseDevice \/ ClearHandle

Write(t) ==
  \/ WriteBegin(t) \/ WriteAtOnce(t) \/ WriteReturnsZero(t)
  \/ StopWriteFile(t) \/ SetOutputReport(t)

Rest == destroyed /\ UNCHANGED vars

Next ==
  \/ Arrive \/ Disconnect \/ CompleteRead
  \/ Read
  \/ Close \/ Destroy
  \/ \E t \in Writers : Write(t)
  \/ Rest

Spec == Init /\ [][Next]_vars

\* The threads that are inside the class go on, and the driver completes a read
\* for which there is a report.  Nothing obliges the remote to send, nor
\* the application to close.
Fairness ==
  /\ WF_vars(Read)
  /\ WF_vars(QueueApc \/ Join \/ CloseDevice \/ ClearHandle)
  /\ WF_vars(CompleteRead)
  /\ \A t \in Writers :
       WF_vars(WriteAtOnce(t) \/ WriteReturnsZero(t) \/ StopWriteFile(t) \/ SetOutputReport(t))

FairSpec == Spec /\ Fairness

-----------------------------------------------------------------------------

\* The state is well formed, and the kernel's handle and m_device agree except
\* in the middle of close().
TypeOK ==
  /\ reader \in {"created", "issue", "wait", "callback", "ended"}
  /\ closer \in {"out", "stop", "join", "handle", "clear"}
  /\ op \in {"none", "pending", "done", "failed"}
  /\ handle \in {"open", "closed"}
  /\ joinable \in BOOLEAN /\ apc \in BOOLEAN /\ gone \in BOOLEAN
  /\ isOpen \in BOOLEAN /\ destroyed \in BOOLEAN /\ viaFile \in BOOLEAN
  /\ arrived \in Nat /\ fetched \in Nat /\ buffer \in Nat
  /\ seen \in Seq(Nat)
  /\ writer \in [Writers -> {"out", "file", "fallback", "set"}]
  /\ copies \in [Writers -> Seq(Nat)]
  /\ closer # "clear" => (isOpen <=> handle = "open")

\* The handle is closed only when the read thread has ended: it is neither in
\* ReadFile() with that handle, nor will it call the callback again, whose
\* captured object may be destroyed after close() has returned.
ClosedMeansQuiet == handle = "closed" \/ ~joinable => reader = "ended"

\* The callback gets the input reports in order, each once and none left out,
\* whether a read finishes at once or later; only the report whose read was
\* complete when the thread is stopped is never seen.
CallbackInOrder == \A i \in DOMAIN seen : seen[i] = i

\* Of the reports a thread writes at most one reaches the remote twice: WriteFile()
\* returns 0 for a pending write, too, but is not used again.
AtMostOneTwice ==
  \A t \in Writers :
    \A i, j \in DOMAIN copies[t] : copies[t][i] > 1 /\ copies[t][j] > 1 => i = j

\* close() returns, whatever the read thread is doing, and the object can be
\* destroyed, as long as the remote does not keep the driver's buffer full.
CloseReturns == closer # "out" ~> closer = "out" /\ ~isOpen

LastOf(s) == IF s = <<>> THEN 0 ELSE s[Len(s)]

\* The device as wiimote sees it.
Promise == INSTANCE Device WITH
  phase <- IF destroyed THEN "destroyed" ELSE IF ~isOpen THEN "closed"
           ELSE IF closer # "out" THEN "closing" ELSE "open",
  calling <- reader = "callback",
  given <- IF reader = "callback" THEN buffer ELSE LastOf(seen),
  writing <- [t \in Writers |-> writer[t] # "out"],
  sent <- [t \in Writers |-> LastOf(copies[t])],
  spent <- [t \in Writers |-> \E i \in DOMAIN copies[t] : copies[t][i] > 1]

\* The two threads inside the device and the two ways to write keep its promise.
ImplementsDevice == Promise!FairSpec

=============================================================================

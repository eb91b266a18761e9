--------------------------- MODULE DeviceIOProofs ----------------------------
(* Proofs about DeviceIO, for any number of writers and reports. *)
EXTENDS DeviceIO, TLAPS

\* close() joins before it closes the handle, and closes it before it forgets it.
CloseOrder ==
  /\ ~joinable => reader = "ended"
  /\ joinable => isOpen
  /\ closer \in {"handle", "clear"} \/ handle = "closed" => ~joinable
  /\ closer = "clear" => handle = "closed"
  /\ destroyed => closer = "out" /\ ~isOpen

\* Between what the driver has handed out and what the callback was called with
\* there is at most the report in the buffer.
ReadOrder ==
  /\ reader \in {"created", "issue"} => op = "none" /\ fetched = Len(seen)
  /\ reader = "callback" => op = "none" /\ buffer = Len(seen) + 1 /\ fetched = Len(seen) + 1
  /\ reader = "wait" =>
       \/ op \in {"pending", "failed"} /\ fetched = Len(seen)
       \/ op = "done" /\ buffer = Len(seen) + 1 /\ fetched = Len(seen) + 1

\* None of the reports of t was given to the remote twice.
Single(t) == \A i \in DOMAIN copies[t] : copies[t][i] <= 1

\* Only the report with which a thread leaves the first branch of write() can be
\* given to the remote once more, and no thread takes that branch after it.
FallbackOrder ==
  \A t \in Writers :
    /\ writer[t] # "out" => Len(copies[t]) > 0
    /\ viaFile \/ writer[t] \in {"file", "fallback"} => Single(t)
    /\ writer[t] = "file" => copies[t][Len(copies[t])] = 0
    /\ writer[t] = "set" => copies[t][Len(copies[t])] = 0 \/ Single(t)
    /\ writer[t] = "set" => copies[t][Len(copies[t])] <= 1
    /\ writer[t] = "set" => ~viaFile

Inv == TypeOK /\ CloseOrder /\ ReadOrder /\ CallbackInOrder /\ FallbackOrder /\ AtMostOneTwice

-----------------------------------------------------------------------------
(* Steps that leave a group of variables alone. *)

\* Every step changes the variables of the writers, or it is not a step of them.
LEMMA Frames ==
  ASSUME [Next]_vars
  PROVE  \/ UNCHANGED writeVars
         \/ /\ \E t \in Writers : Write(t)
            /\ UNCHANGED <<readVars, apc, arrived, gone, closeVars>>
<1>1. CASE UNCHANGED vars
  BY <1>1 DEF vars
<1>2. CASE Arrive \/ Disconnect \/ CompleteRead
  BY <1>2 DEF Arrive, Disconnect, CompleteRead
<1>3. CASE Read
  BY <1>3 DEF Read, Start, ReadAtOnce, ReadPending, ReadFails, ReadCompleted, RunApc, Callback
<1>4. CASE Close \/ Destroy
  BY <1>4 DEF Close, CloseBegin, QueueApc, Join, CloseDevice, ClearHandle, Destroy
<1>5. CASE \E t \in Writers : Write(t)
  BY <1>5 DEF Write, WriteBegin, WriteAtOnce, WriteReturnsZero, StopWriteFile, SetOutputReport
<1>6. CASE Rest
  BY <1>6 DEF Rest, vars
<1>. QED
  BY <1>1, <1>2, <1>3, <1>4, <1>5, <1>6 DEF Next

-----------------------------------------------------------------------------
(* The initial states. *)

\* The initial states satisfy the invariant.
LEMMA InvInit == Init => Inv
<1> SUFFICES ASSUME Init PROVE Inv
  OBVIOUS
<1> USE DEF Init
<1>1. copies \in [Writers -> Seq(Nat)] /\ \A t \in Writers : DOMAIN copies[t] = {}
  OBVIOUS
<1>2. FallbackOrder /\ AtMostOneTwice
  BY <1>1 DEF FallbackOrder, AtMostOneTwice, Single
<1>3. TypeOK
  <2>1. writer \in [Writers -> {"out", "file", "fallback", "set"}] /\ seen \in Seq(Nat)
    OBVIOUS
  <2>. QED
    BY <1>1, <2>1 DEF TypeOK
<1>4. CloseOrder /\ ReadOrder /\ CallbackInOrder
  BY DEF CloseOrder, ReadOrder, CallbackInOrder
<1>. QED
  BY <1>2, <1>3, <1>4 DEF Inv

-----------------------------------------------------------------------------
(* One lemma per group of conjuncts. *)

\* The writers' part of the types, the order of the two branches of write(), and
\* the bound on duplicates.
WriteInv ==
  /\ viaFile \in BOOLEAN
  /\ writer \in [Writers -> {"out", "file", "fallback", "set"}]
  /\ copies \in [Writers -> Seq(Nat)]
  /\ FallbackOrder
  /\ AtMostOneTwice

\* A transmission adds one to the last report's count and nothing else.
LEMMA TransmitCounts ==
  ASSUME WriteInv, NEW t \in Writers, Transmit(t), Len(copies[t]) > 0
  PROVE  /\ copies' \in [Writers -> Seq(Nat)]
         /\ \A u \in Writers \ {t} : copies'[u] = copies[u]
         /\ Len(copies'[t]) = Len(copies[t])
         /\ DOMAIN copies'[t] = DOMAIN copies[t]
         /\ copies'[t][Len(copies[t])] = copies[t][Len(copies[t])] + 1
         /\ \A i \in DOMAIN copies[t] \ {Len(copies[t])} : copies'[t][i] = copies[t][i]
<1>1. copies \in [Writers -> Seq(Nat)]
  BY DEF WriteInv
<1>2. copies[t] \in Seq(Nat) /\ Len(copies[t]) \in DOMAIN copies[t]
  BY <1>1
<1>3. copies' = [copies EXCEPT ![t] = [copies[t] EXCEPT ![Len(copies[t])] =
                                          copies[t][Len(copies[t])] + 1]]
  BY DEF Transmit
<1>4. copies[t][Len(copies[t])] \in Nat
  BY <1>2
<1>5. [copies[t] EXCEPT ![Len(copies[t])] = copies[t][Len(copies[t])] + 1] \in Seq(Nat)
  BY <1>2, <1>4
<1>. QED
  BY <1>1, <1>2, <1>3, <1>4, <1>5

\* Every step of a writer keeps them.
LEMMA WriteStep == WriteInv /\ [Next]_vars => WriteInv'
<1> SUFFICES ASSUME WriteInv, [Next]_vars PROVE WriteInv'
  OBVIOUS
<1>1. CASE UNCHANGED writeVars
  BY <1>1 DEF WriteInv, writeVars, FallbackOrder, AtMostOneTwice, Single
<1>2. ASSUME NEW t \in Writers, Write(t)
      PROVE  WriteInv'
  <2>1. CASE WriteBegin(t)
    <3>1. copies[t] \in Seq(Nat) /\ copies' = [copies EXCEPT ![t] = Append(copies[t], 0)]
      BY <2>1 DEF WriteBegin, WriteInv
    <3>2. /\ Append(copies[t], 0) \in Seq(Nat)
          /\ Len(Append(copies[t], 0)) = Len(copies[t]) + 1
          /\ Append(copies[t], 0)[Len(copies[t]) + 1] = 0
          /\ \A i \in 1 .. Len(copies[t]) : Append(copies[t], 0)[i] = copies[t][i]
      BY <3>1
    <3>3. /\ copies' \in [Writers -> Seq(Nat)]
          /\ \A u \in Writers \ {t} : copies'[u] = copies[u]
          /\ copies'[t] = Append(copies[t], 0)
      BY <3>1, <3>2 DEF WriteInv
    <3>4. DOMAIN copies[t] = 1 .. Len(copies[t]) /\ DOMAIN copies'[t] = 1 .. Len(copies[t]) + 1
      BY <3>1, <3>2, <3>3
    <3>5. \A i \in DOMAIN copies'[t] : copies'[t][i] = 0 \/ (i \in DOMAIN copies[t] /\ copies'[t][i] = copies[t][i])
      BY <3>1, <3>2, <3>3, <3>4
    <3>6. ASSUME viaFile PROVE Single(t)'
      <4>1. Single(t)
        BY <3>6 DEF WriteInv, FallbackOrder
      <4>. QED
        BY <3>5, <4>1 DEF Single
    <3>. QED
      BY <2>1, <3>1, <3>2, <3>3, <3>4, <3>5, <3>6
         DEF WriteBegin, MoveWriter, WriteInv, FallbackOrder, AtMostOneTwice, Single
  <2>2. CASE WriteAtOnce(t) \/ WriteReturnsZero(t)
    <3>1. /\ writer[t] = "file" /\ viaFile' = viaFile
          /\ \A u \in Writers \ {t} : writer'[u] = writer[u]
          /\ writer' \in [Writers -> {"out", "file", "fallback", "set"}]
          /\ writer'[t] \in {"out", "fallback"}
      BY <2>2 DEF WriteAtOnce, WriteReturnsZero, MoveWriter, WriteInv
    <3>2. Len(copies[t]) > 0 /\ copies[t][Len(copies[t])] = 0 /\ Single(t)
      BY <3>1 DEF WriteInv, FallbackOrder
    <3>3. CASE UNCHANGED copies
      BY <3>1, <3>2, <3>3 DEF WriteInv, FallbackOrder, AtMostOneTwice, Single
    <3>4. CASE Transmit(t)
      <4>1. \A i \in DOMAIN copies'[t] : copies'[t][i] <= 1
        BY <3>2, <3>4, TransmitCounts DEF Single
      <4>2. Len(copies'[t]) > 0 /\ Single(t)'
        BY <3>2, <3>4, <4>1, TransmitCounts DEF Single
      <4>3. AtMostOneTwice'
        <5>1. \A i \in DOMAIN copies'[t] : ~ (copies'[t][i] > 1)
          BY <3>2, <3>4, <4>1, TransmitCounts
        <5>. QED
          BY <3>2, <3>4, <5>1, TransmitCounts DEF WriteInv, AtMostOneTwice
      <4>4. ASSUME NEW u \in Writers \ {t}
            PROVE  copies'[u] = copies[u] /\ writer'[u] = writer[u] /\ viaFile' = viaFile
        BY <3>1, <3>2, <3>4, TransmitCounts
      <4>5. FallbackOrder'
        BY <3>1, <4>2, <4>4 DEF WriteInv, FallbackOrder, Single
      <4>6. copies' \in [Writers -> Seq(Nat)]
        BY <3>2, <3>4, TransmitCounts
      <4>. QED
        BY <3>1, <4>3, <4>5, <4>6 DEF WriteInv
    <3>. QED
      BY <2>2, <3>3, <3>4 DEF WriteAtOnce, WriteReturnsZero
  <2>3. CASE StopWriteFile(t)
    <3>1. copies[t] \in Seq(Nat) /\ Len(copies[t]) > 0 /\ Single(t)
      BY <2>3 DEF StopWriteFile, WriteInv, FallbackOrder
    <3>2. copies[t][Len(copies[t])] <= 1
      BY <3>1 DEF Single
    <3>. QED
      BY <2>3, <3>1, <3>2
         DEF StopWriteFile, MoveWriter, WriteInv, FallbackOrder, AtMostOneTwice, Single
  <2>4. CASE SetOutputReport(t)
    <3>1. /\ writer[t] = "set" /\ viaFile' = viaFile /\ ~viaFile
          /\ \A u \in Writers \ {t} : writer'[u] = writer[u]
          /\ writer' \in [Writers -> {"out", "file", "fallback", "set"}]
          /\ writer'[t] = "out"
      BY <2>4 DEF SetOutputReport, MoveWriter, WriteInv, FallbackOrder
    <3>2. /\ Len(copies[t]) > 0
          /\ copies[t][Len(copies[t])] = 0 \/ Single(t)
      BY <3>1 DEF WriteInv, FallbackOrder
    <3>3. CASE UNCHANGED copies
      BY <3>1, <3>3 DEF WriteInv, FallbackOrder, AtMostOneTwice, Single
    <3>4. CASE Transmit(t)
      <4>1. ASSUME NEW i \in DOMAIN copies'[t], NEW j \in DOMAIN copies'[t],
                   copies'[t][i] > 1, copies'[t][j] > 1
            PROVE  i = j
        BY <3>2, <3>4, <4>1, TransmitCounts DEF WriteInv, AtMostOneTwice, Single
      <4>2. AtMostOneTwice'
        BY <3>4, <3>2, <4>1, TransmitCounts DEF WriteInv, AtMostOneTwice
      <4>3. ASSUME NEW u \in Writers \ {t}
            PROVE  copies'[u] = copies[u] /\ writer'[u] = writer[u]
        BY <3>1, <3>2, <3>4, TransmitCounts
      <4>4. FallbackOrder'
        BY <3>1, <4>3 DEF WriteInv, FallbackOrder, Single
      <4>5. copies' \in [Writers -> Seq(Nat)]
        BY <3>2, <3>4, TransmitCounts
      <4>. QED
        BY <3>1, <4>2, <4>4, <4>5 DEF WriteInv
    <3>. QED
      BY <2>4, <3>3, <3>4 DEF SetOutputReport
  <2>. QED
    BY <1>2, <2>1, <2>2, <2>3, <2>4 DEF Write
<1>. QED
  BY <1>1, <1>2, Frames

\* The part of the invariant about the read thread and close().
ReadInv ==
  /\ reader \in {"created", "issue", "wait", "callback", "ended"}
  /\ closer \in {"out", "stop", "join", "handle", "clear"}
  /\ op \in {"none", "pending", "done", "failed"}
  /\ handle \in {"open", "closed"}
  /\ joinable \in BOOLEAN /\ apc \in BOOLEAN /\ gone \in BOOLEAN
  /\ isOpen \in BOOLEAN /\ destroyed \in BOOLEAN
  /\ arrived \in Nat /\ fetched \in Nat /\ buffer \in Nat
  /\ seen \in Seq(Nat)
  /\ closer # "clear" => (isOpen <=> handle = "open")
  /\ CloseOrder
  /\ ReadOrder
  /\ CallbackInOrder

\* Every step of the reader, of the driver and of close() keeps it.
LEMMA ReadStep == ReadInv /\ [Next]_vars => ReadInv'
<1> SUFFICES ASSUME ReadInv, [Next]_vars PROVE ReadInv'
  OBVIOUS
<1> USE DEF ReadInv, CloseOrder, ReadOrder, CallbackInOrder
<1>1. CASE UNCHANGED <<readVars, apc, arrived, gone, closeVars>>
  BY <1>1 DEF readVars, closeVars
<1>2. CASE Arrive
  BY <1>2 DEF Arrive, readVars, closeVars
<1>3. CASE Disconnect
  BY <1>3 DEF Disconnect, readVars, closeVars
<1>4. CASE CompleteRead
  BY <1>4 DEF CompleteRead, closeVars
<1>5. CASE Start \/ ReadFails \/ ReadPending
  BY <1>5 DEF Start, ReadFails, ReadPending, closeVars
<1>6. CASE ReadAtOnce
  BY <1>6 DEF ReadAtOnce, closeVars
<1>7. CASE ReadCompleted
  BY <1>7 DEF ReadCompleted, closeVars
<1>8. CASE RunApc
  BY <1>8 DEF RunApc, closeVars
<1>9. CASE Callback
  <2>1. seen' = Append(seen, Len(seen) + 1) /\ seen' \in Seq(Nat)
    BY <1>9 DEF Callback
  <2>2. Len(seen') = Len(seen) + 1 /\ \A i \in DOMAIN seen' : seen'[i] = i
    BY <2>1
  <2>. QED
    BY <1>9, <2>1, <2>2 DEF Callback, closeVars
<1>10. CASE Close
  <2>1. CASE CloseBegin
    BY <2>1 DEF CloseBegin, readVars
  <2>2. CASE QueueApc
    BY <2>2 DEF QueueApc, readVars
  <2>3. CASE Join
    BY <2>3 DEF Join, readVars
  <2>4. CASE CloseDevice
    BY <2>4 DEF CloseDevice, readVars
  <2>5. CASE ClearHandle
    BY <2>5 DEF ClearHandle, readVars
  <2>. QED
    BY <1>10, <2>1, <2>2, <2>3, <2>4, <2>5 DEF Close
<1>11. CASE Destroy
  BY <1>11 DEF Destroy, readVars
<1>12. CASE \E t \in Writers : Write(t)
  BY <1>1, <1>12 DEF Write, WriteBegin, WriteAtOnce, WriteReturnsZero, StopWriteFile, SetOutputReport
<1>13. CASE Rest \/ UNCHANGED vars
  BY <1>1, <1>13 DEF Rest, vars
<1>. QED
  BY <1>2, <1>3, <1>4, <1>5, <1>6, <1>7, <1>8, <1>9, <1>10, <1>11, <1>12, <1>13 DEF Next, Read

\* Every step keeps the invariant.
LEMMA InvStep == Inv /\ [Next]_vars => Inv'
<1>1. Inv <=> ReadInv /\ WriteInv
  BY DEF Inv, ReadInv, WriteInv, TypeOK
<1>2. Inv' <=> ReadInv' /\ WriteInv'
  BY DEF Inv, ReadInv, WriteInv, TypeOK
<1>. QED
  BY <1>1, <1>2, ReadStep, WriteStep

-----------------------------------------------------------------------------

\* The inductive invariant of the device.
THEOREM Invariance == Spec => []Inv
  BY InvInit, InvStep, PTL DEF Spec

\* The state of the device is well formed.
THEOREM TypeCorrect == Spec => []TypeOK
<1>1. Inv => TypeOK
  BY DEF Inv
<1>. QED
  BY Invariance, <1>1, PTL

\* The handle is closed, and the thread given up, only after the read thread has
\* ended: no callback runs after close() has returned.
THEOREM QuietAfterClose == Spec => []ClosedMeansQuiet
<1>1. Inv => ClosedMeansQuiet
  BY DEF Inv, CloseOrder, ClosedMeansQuiet
<1>. QED
  BY Invariance, <1>1, PTL

\* The callback is called with the input reports in order, none twice and none
\* left out.
THEOREM ReportsInOrder == Spec => []CallbackInOrder
<1>1. Inv => CallbackInOrder
  BY DEF Inv
<1>. QED
  BY Invariance, <1>1, PTL

\* The second attempt of write() repeats at most one report of each thread.
THEOREM OneDuplicate == Spec => []AtMostOneTwice
<1>1. Inv => AtMostOneTwice
  BY DEF Inv
<1>. QED
  BY Invariance, <1>1, PTL

-----------------------------------------------------------------------------
(* The refinement of Device. *)

\* What wiimote sees of the device when it is created.
LEMMA PromiseInit == Init => Promise!Init
<1> SUFFICES ASSUME Init PROVE Promise!Init
  OBVIOUS
<1>1. \A t \in Writers : copies[t] = <<>> /\ LastOf(copies[t]) = 0
  BY DEF Init, LastOf
<1>2. LastOf(seen) = 0
  BY DEF Init, LastOf
<1>3. \A t \in Writers : ~ \E i \in DOMAIN copies[t] : copies[t][i] > 1
  <2>1. DOMAIN <<>> = {}
    OBVIOUS
  <2>. QED
    BY <1>1, <2>1
<1>. QED
  BY <1>1, <1>2, <1>3 DEF Init, Promise!Init

\* A step that leaves the writers alone leaves alone what is seen of them.
LEMMA OutputKept ==
  ASSUME UNCHANGED <<writer, copies>>
  PROVE  UNCHANGED Promise!output
BY DEF Promise!output

\* The last element after appending.
LEMMA LastOfAppend ==
  ASSUME NEW s \in Seq(Nat), NEW n \in Nat
  PROVE  LastOf(Append(s, n)) = n
<1>1. Append(s, n) # <<>> /\ Append(s, n)[Len(Append(s, n))] = n
  OBVIOUS
<1>. QED
  BY <1>1 DEF LastOf

\* Every step of the reader, of the driver and of close() is one of the promise,
\* or nothing that wiimote sees.
LEMMA PromiseRead ==
  ASSUME Inv, [Next]_vars, UNCHANGED writeVars
  PROVE  [Promise!Next]_Promise!vars
<1> USE DEF Inv, TypeOK, CloseOrder, ReadOrder, CallbackInOrder
<1>0. UNCHANGED Promise!output
  BY OutputKept DEF writeVars
<1>1. LastOf(seen) = Len(seen)
  BY DEF LastOf
<1>2. CASE Arrive \/ Disconnect \/ Rest \/ UNCHANGED vars
  <2>1. UNCHANGED <<readVars, closeVars>>
    BY <1>2 DEF Arrive, Disconnect, Rest, vars
  <2>. QED
    BY <1>0, <2>1 DEF readVars, closeVars, Promise!vars, Promise!input
<1>3. CASE CompleteRead
  <2>1. reader # "callback" /\ UNCHANGED <<reader, seen, closeVars>>
    BY <1>3 DEF CompleteRead
  <2>. QED
    BY <1>0, <2>1 DEF closeVars, Promise!vars, Promise!input
<1>4. CASE Start \/ ReadPending \/ ReadFails \/ RunApc \/ (ReadCompleted /\ op # "done")
  <2>1. reader # "callback" /\ reader' # "callback" /\ UNCHANGED <<seen, closeVars>>
    BY <1>4 DEF Start, ReadPending, ReadFails, RunApc, ReadCompleted
  <2>. QED
    BY <1>0, <2>1 DEF closeVars, Promise!vars, Promise!input
<1>5. CASE ReadAtOnce \/ (ReadCompleted /\ op = "done")
  <2>1. /\ reader \in {"issue", "wait"} /\ reader' = "callback" /\ buffer' = Len(seen) + 1
        /\ UNCHANGED <<seen, closeVars>>
    BY <1>5 DEF ReadAtOnce, ReadCompleted
  <2>2. ~destroyed /\ isOpen
    BY <2>1
  <2>3. Promise!Call
    BY <1>0, <1>1, <2>1, <2>2 DEF closeVars, Promise!Call, Promise!Alive
  <2>. QED
    BY <2>3 DEF Promise!Next
<1>6. CASE Callback
  <2>1. reader = "callback" /\ reader' = "issue" /\ seen' = Append(seen, buffer) /\ UNCHANGED closeVars
    BY <1>6 DEF Callback
  <2>2. LastOf(seen') = buffer
    BY <2>1, LastOfAppend
  <2>3. Promise!Return
    BY <1>0, <2>1, <2>2 DEF closeVars, Promise!Return
  <2>. QED
    BY <2>3 DEF Promise!Next
<1>7. CASE CloseBegin
  <2>1. CASE isOpen
    <3>1. Promise!BeginClose
      BY <1>0, <1>7, <2>1 DEF CloseBegin, readVars, Promise!BeginClose, Promise!input
    <3>. QED
      BY <3>1 DEF Promise!Next
  <2>2. CASE ~isOpen
    BY <1>0, <1>7, <2>2 DEF CloseBegin, readVars, Promise!vars, Promise!input
  <2>. QED
    BY <2>1, <2>2
<1>8. CASE QueueApc \/ Join \/ CloseDevice
  <2>1. closer # "out" /\ closer' # "out" /\ UNCHANGED <<destroyed, isOpen, readVars>>
    BY <1>8 DEF QueueApc, Join, CloseDevice
  <2>. QED
    BY <1>0, <2>1 DEF readVars, Promise!vars, Promise!input
<1>9. CASE ClearHandle
  <2>1. reader = "ended" /\ closer # "out" /\ closer' = "out" /\ ~isOpen' /\ ~destroyed /\ ~destroyed'
    BY <1>9 DEF ClearHandle
  <2>2. CASE isOpen
    <3>1. Promise!EndClose
      BY <1>0, <1>9, <2>1, <2>2 DEF ClearHandle, readVars, Promise!EndClose, Promise!input
    <3>. QED
      BY <3>1 DEF Promise!Next
  <2>3. CASE ~isOpen
    BY <1>0, <1>9, <2>1, <2>3 DEF ClearHandle, readVars, Promise!vars, Promise!input
  <2>. QED
    BY <2>2, <2>3
<1>10. CASE Destroy
  <2>1. Promise!Destroy
    BY <1>0, <1>10 DEF Destroy, readVars, Promise!Destroy, Promise!input
  <2>. QED
    BY <2>1 DEF Promise!Next
<1>11. CASE \E t \in Writers : Write(t)
  <2>1. UNCHANGED <<readVars, closeVars>>
    BY <1>11 DEF Write, WriteBegin, WriteAtOnce, WriteReturnsZero, StopWriteFile, SetOutputReport
  <2>. QED
    BY <1>0, <2>1 DEF readVars, closeVars, Promise!vars, Promise!input
<1>. QED
  BY <1>2, <1>3, <1>4, <1>5, <1>6, <1>7, <1>8, <1>9, <1>10, <1>11 DEF Next, Read, Close


\* Every step of a writer is one of the promise, or nothing that wiimote sees.
LEMMA PromiseWrite ==
  ASSUME Inv, NEW t \in Writers, Write(t)
  PROVE  [Promise!Next]_Promise!vars
<1> DEFINE In == [u \in Writers |-> writer[u] # "out"]
           Sent == [u \in Writers |-> LastOf(copies[u])]
           Twice(u) == \E i \in DOMAIN copies[u] : copies[u][i] > 1
           Spent == [u \in Writers |-> Twice(u)]
<1>1. reader' = reader /\ buffer' = buffer /\ seen' = seen /\ UNCHANGED closeVars
  BY DEF Write, WriteBegin, WriteAtOnce, WriteReturnsZero, StopWriteFile, SetOutputReport, readVars
<1>2. WriteInv
  BY DEF Inv, TypeOK, WriteInv
<1>3. copies[t] \in Seq(Nat) /\ writer[t] \in {"out", "file", "fallback", "set"}
  BY <1>2 DEF WriteInv
<1>4. ASSUME NEW b \in BOOLEAN, \A u \in Writers \ {t} : writer'[u] = writer[u],
             b <=> writer'[t] # "out"
      PROVE  In' = [In EXCEPT ![t] = b]
  BY <1>4, Zenon
<1>5. CASE WriteBegin(t)
  <2>1. /\ copies' = [copies EXCEPT ![t] = Append(copies[t], 0)]
        /\ ~destroyed /\ writer[t] = "out" /\ writer'[t] # "out"
        /\ \A u \in Writers \ {t} : writer'[u] = writer[u] /\ copies'[u] = copies[u]
    BY <1>2, <1>5 DEF WriteBegin, MoveWriter, WriteInv
  <2>2. In' = [In EXCEPT ![t] = TRUE]
    BY <2>1, <1>4
  <2>3. copies'[t] = Append(copies[t], 0)
    BY <2>1, <1>2 DEF WriteInv
  <2>4. LastOf(copies'[t]) = 0
    BY <2>3, <1>3, LastOfAppend
  <2>5. Sent' = [Sent EXCEPT ![t] = 0]
    <3>1. \A u \in Writers : LastOf(copies'[u]) = IF u = t THEN 0 ELSE LastOf(copies[u])
      BY <2>1, <2>4
    <3>. QED
      BY <3>1
  <2>6. Twice(t)' <=> Twice(t)
    <3>1. \A i \in DOMAIN copies[t] : i \in DOMAIN copies'[t] /\ copies'[t][i] = copies[t][i]
      BY <2>3, <1>3
    <3>2. \A i \in DOMAIN copies'[t] : i \in DOMAIN copies[t] \/ copies'[t][i] = 0
      BY <2>3, <1>3
    <3>. QED
      BY <3>1, <3>2
  <2>7. Spent' = Spent
    BY <2>1, <2>6, Zenon
  <2>8. Promise!BeginWrite(t)
    BY <1>1, <2>1, <2>2, <2>5, <2>7 DEF closeVars, Promise!BeginWrite, Promise!input
  <2>. QED
    BY <2>8 DEF Promise!Next, Promise!Write
<1>6. ASSUME Transmit(t), Reachable, writer[t] \in {"file", "set"},
             \A u \in Writers \ {t} : writer'[u] = writer[u]
      PROVE  Promise!Transmit(t)
  <2>1. Len(copies[t]) > 0
    BY <1>2, <1>6 DEF WriteInv, FallbackOrder
  <2>2. /\ \A u \in Writers \ {t} : copies'[u] = copies[u]
        /\ Len(copies'[t]) = Len(copies[t]) /\ DOMAIN copies'[t] = DOMAIN copies[t]
        /\ copies'[t][Len(copies[t])] = copies[t][Len(copies[t])] + 1
        /\ \A i \in DOMAIN copies[t] \ {Len(copies[t])} : copies'[t][i] = copies[t][i]
        /\ copies'[t] \in Seq(Nat)
    BY <1>2, <1>6, <2>1, TransmitCounts
  <2>3. /\ LastOf(copies[t]) = copies[t][Len(copies[t])]
        /\ LastOf(copies'[t]) = copies[t][Len(copies[t])] + 1
        /\ Len(copies[t]) \in DOMAIN copies[t]
        /\ copies[t][Len(copies[t])] \in Nat
    <3>1. copies[t] # <<>> /\ copies'[t] # <<>>
      BY <2>1, <2>2
    <3>. QED
      BY <3>1, <2>1, <2>2, <1>3 DEF LastOf
  <2>4. LastOf(copies[t]) = 0 \/ (LastOf(copies[t]) = 1 /\ ~Twice(t))
    <3>1. copies[t][Len(copies[t])] = 0 \/ (Single(t) /\ copies[t][Len(copies[t])] <= 1)
      BY <1>2, <1>6 DEF WriteInv, FallbackOrder
    <3>2. Single(t) => ~Twice(t)
      BY <1>3 DEF Single
    <3>. QED
      BY <2>3, <3>1, <3>2
  <2>5. Twice(t)' <=> Twice(t) \/ LastOf(copies[t]) = 1
    BY <2>2, <2>3, <2>4, <1>3
  <2>6. Sent' = [Sent EXCEPT ![t] = Sent[t] + 1]
    BY <2>2, <2>3, Zenon
  <2>7. Spent' = [Spent EXCEPT ![t] = Spent[t] \/ Sent[t] = 1]
    BY <2>2, <2>5, Zenon
  <2>8. In' = [In EXCEPT ![t] = (writer'[t] # "out")]
    BY <1>4, <1>6
  <2>9. isOpen /\ ~destroyed
    BY <1>6 DEF Inv, TypeOK, CloseOrder, Reachable
  <2>10. /\ In[t] /\ Sent[t] = LastOf(copies[t]) /\ (Spent[t] <=> Twice(t))
    BY <1>6
  <2>11. \E more \in BOOLEAN : In' = [In EXCEPT ![t] = more]
    BY <2>8
  <2>. QED
    BY <1>1, <2>4, <2>6, <2>7, <2>9, <2>10, <2>11
       DEF closeVars, Promise!Transmit, Promise!Alive, Promise!input
<1>7. ASSUME UNCHANGED copies, \A u \in Writers \ {t} : writer'[u] = writer[u],
             writer[t] # "out"
      PROVE  Promise!EndWrite(t) \/ UNCHANGED Promise!vars
  <2>1. CASE writer'[t] = "out"
    <3>1. In' = [In EXCEPT ![t] = FALSE] /\ In[t]
      BY <1>4, <1>7, <2>1
    <3>. QED
      BY <1>1, <1>7, <3>1 DEF closeVars, Promise!EndWrite, Promise!input
  <2>2. CASE writer'[t] # "out"
    <3>1. In' = In
      BY <1>7, <2>2, Zenon
    <3>. QED
      BY <1>1, <1>7, <3>1 DEF closeVars, Promise!vars, Promise!input, Promise!output
  <2>. QED
    BY <2>1, <2>2
<1>8. CASE WriteAtOnce(t) \/ WriteReturnsZero(t) \/ StopWriteFile(t) \/ SetOutputReport(t)
  <2>1. /\ \A u \in Writers \ {t} : writer'[u] = writer[u]
        /\ writer[t] # "out"
        /\ UNCHANGED copies \/ (Transmit(t) /\ Reachable /\ writer[t] \in {"file", "set"})
    BY <1>2, <1>8 DEF WriteAtOnce, WriteReturnsZero, StopWriteFile, SetOutputReport, MoveWriter, WriteInv
  <2>. QED
    BY <1>6, <1>7, <2>1 DEF Promise!Next, Promise!Write
<1>. QED
  BY <1>5, <1>8 DEF Write

\* The device keeps what it promises to wiimote: the safety part of
\* ImplementsDevice.
THEOREM PromiseKept == Spec => Promise!Spec
<1>1. Inv /\ [Next]_vars => [Promise!Next]_Promise!vars
  BY Frames, PromiseRead, PromiseWrite
<1>. QED
  BY PromiseInit, Invariance, <1>1, PTL DEF Spec, Promise!Spec

=============================================================================

------------------------- MODULE HandlerListProofs ---------------------------
(***************************************************************************)
(* Proofs about the list of handlers of Wiimote, for any blocks and bounds. *)
(*                                                                         *)
(* With one application thread, change_reporting_mode() erases from an     *)
(* iterator that refers to a node of m_read_handlers.  The argument is     *)
(* about the order of steps: remove_report_handler() is always followed by *)
(* the insertion of a new node and the storing of its iterator, with no    *)
(* erasure in between, and the reader, which also executes                 *)
(* update_reporting_mode(), does not get past the lock that it holds.      *)
(*                                                                         *)
(* With any application threads and a wire that loses nothing, the button  *)
(* handler is the first of the list from the end of the constructor on, so *)
(* that it sees every report.  The argument is about the constructor: when *)
(* it inserts the button handler, the handlers of its two requests are     *)
(* gone, since the answers come in the order of the requests.              *)
(***************************************************************************)
EXTENDS WiimoteProofs

(* The iterator. *)

\* Steps that leave the iterator and its node alone.  The constructor, before
\* there is a node, stores end().
Calm == {s \in Steps(0) \cup FirstSteps : s.do \notin {"remove", "addData"}}

\* The nodes of data report handlers in the list hs.
NodesOf(hs) == {hs[i].node : i \in {j \in DOMAIN hs : hs[j].kind = "data"}}

Refers == state.data_iter # End => state.data_iter \in NodesOf(handlers)

\* The thread is about to erase from the iterator, and to add a node.
Erasing(q) ==
  /\ q # <<>> /\ Head(q) = RemoveFromIterator
  /\ Tail(q) # <<>> /\ Head(Tail(q)).do = "addData" /\ Tail(Tail(q)) \in Seq(Calm)

\* The node that the iterator referred to has been erased.
Adding(q) == q # <<>> /\ Head(q).do = "addData" /\ Tail(q) \in Seq(Calm)

\* A node has been added, and the iterator is about to refer to it.
Storing(q) ==
  /\ q # <<>> /\ Tail(q) \in Seq(Calm)
  /\ \E n \in NodesOf(handlers) : Head(q) = Store("data_iter", n)

OwnerInv ==
  \/ (todo[Owner] \in Seq(Calm) \/ Erasing(todo[Owner])) /\ Refers
  \/ Adding(todo[Owner])
  \/ Storing(todo[Owner])

\* The reader stops at the erasure: it holds the lock that is taken there.
ReaderInv == todo[Reader] \in Seq(Calm) \/ Erasing(todo[Reader])

IterInv == OwnerInv /\ ReaderInv

-----------------------------------------------------------------------------
(* Calm sequences. *)

\* The steps of the member functions that leave the iterator alone.
LEMMA CalmHave ==
  /\ \A s \in Tests : s \in Calm
  /\ Add(StatusHandler) \in Calm /\ Add(ButtonHandler) \in Calm /\ Return \in Calm
  /\ \A r \in OtherReports : Post(r) \in Calm
  /\ \A r \in WriteReports : Post(r) \in Calm
  /\ \A v \in Leds : Store("leds", v) \in Calm
  /\ Store("ext_mode", 85) \in Calm /\ Store("data_iter", End) \in Calm
  /\ \A f \in Features, v \in BOOLEAN : Store(f, v) \in Calm
  /\ \A b \in ReadBlocks, wait \in BOOLEAN : Read(b, wait) \in Calm
  /\ \A b \in WriteBlocks, wait \in BOOLEAN : Write(b, wait) \in Calm
  /\ \A f \in Nat : Await(f) \in Calm
  /\ \A s \in FirstSteps : s \in Calm
<1>1. ASSUME NEW s \in Steps(0) \cup FirstSteps, s.do \notin {"remove", "addData"} PROVE s \in Calm
  BY <1>1 DEF Calm
<1>2. \A s \in Tests : s.do = "if"
  <2>1. StartExt.do = "if"
    BY DEF StartExt, InitializeExtension, IfState
  <2>2. TestExt.do = "if" /\ TestAccel.do = "if" /\ TestBoth.do = "if"
    BY DEF TestExt, TestAccel, TestBoth, IfState
  <2>3. UpdateReportingMode[1].do = "if"
    BY DEF UpdateReportingMode, IfState
  <2>. QED
    BY <2>1, <2>2, <2>3 DEF Tests
<1>3. \A s \in FirstSteps : s.do = "add"
  BY DEF FirstSteps
<1>4. /\ \A h : Add(h).do = "add"
      /\ \A r : Post(r).do = "post"
      /\ \A f, v : Store(f, v).do = "store"
      /\ \A b, w : Read(b, w).do = "read" /\ Write(b, w).do = "write"
      /\ \A f : Await(f).do = "await"
      /\ Return.do = "return"
  BY DEF Add, Post, Store, Read, Write, Await, Return
<1>5. 0 \in Nat /\ End \in 0 .. 0
  BY DEF End
<1>6. \A s \in Tests : s \in Calm
  BY <1>1, <1>2, <1>5, StepsHave
<1>7. \A s \in FirstSteps : s \in Calm
  BY <1>1, <1>3
<1>8. Add(StatusHandler) \in Calm /\ Add(ButtonHandler) \in Calm /\ Return \in Calm
  BY <1>1, <1>4, <1>5, StepsHave
<1>9. (\A r \in OtherReports : Post(r) \in Calm) /\ (\A r \in WriteReports : Post(r) \in Calm)
  BY <1>1, <1>4, <1>5, StepsHave
<1>10. (\A v \in Leds : Store("leds", v) \in Calm) /\ (\A f \in Features, v \in BOOLEAN : Store(f, v) \in Calm)
  BY <1>1, <1>4, <1>5, StepsHave
<1>11. Store("ext_mode", 85) \in Calm /\ Store("data_iter", End) \in Calm
  BY <1>1, <1>4, <1>5, StepsHave
<1>12. (\A b \in ReadBlocks, wait \in BOOLEAN : Read(b, wait) \in Calm) /\ (\A f \in Nat : Await(f) \in Calm)
  BY <1>1, <1>4, <1>5, StepsHave
<1>13. \A b \in WriteBlocks, wait \in BOOLEAN : Write(b, wait) \in Calm
  BY <1>1, <1>4, <1>5, StepsHave
<1>. QED
  BY <1>6, <1>7, <1>8, <1>9, <1>10, <1>11, <1>12, <1>13

\* What a calm step may be.
LEMMA CalmFields ==
  ASSUME NEW s \in Calm
  PROVE  /\ s.do \notin {"remove", "addData"}
         /\ s.do = "if" => s \in Tests
         /\ s.do = "read" => s.block \in ReadBlocks /\ s.wait \in BOOLEAN
         /\ s.do = "write" => s.block \in WriteBlocks /\ s.wait \in BOOLEAN
         /\ s.do = "store" /\ s.field = "data_iter" => s.value = End
<1>1. s \in Steps(0) \cup FirstSteps /\ 0 \in Nat /\ s.do \notin {"remove", "addData"}
  BY DEF Calm
<1>2. /\ s.do = "store" => s \in Stores(0)
      /\ s.do = "if" => s \in Tests
      /\ s.do = "read" => s.block \in ReadBlocks /\ s.wait \in BOOLEAN
      /\ s.do = "write" => s.block \in WriteBlocks /\ s.wait \in BOOLEAN
  BY <1>1, StepFields
<1>3. ASSUME s \in Stores(0), s.field = "data_iter" PROVE s.value = End
  <2>1. CASE s \in {Store("leds", v) : v \in Leds} \cup {Store("ext_mode", 85)}
    BY <1>3, <2>1 DEF Store
  <2>2. CASE s \in {Store("data_iter", k) : k \in 0 .. 0}
    BY <2>2 DEF Store, End
  <2>3. CASE s \in {Store(f, v) : f \in Features, v \in BOOLEAN}
    <3>1. PICK f \in Features, v \in BOOLEAN : s = Store(f, v)
      BY <2>3
    <3>2. s.field = f
      BY <3>1 DEF Store
    <3>3. f # "data_iter"
      BY FeaturesAssumption
    <3>. QED
      BY <1>3, <3>2, <3>3
  <2>. QED
    BY <1>3, <2>1, <2>2, <2>3 DEF Stores
<1>. QED
  BY <1>1, <1>2, <1>3

\* initialize_extension() and the end of update_reporting_mode() are calm.
LEMMA SendModeCalm ==
  /\ InitializeExtension \in Seq(Calm) /\ StartExt.then \in Seq(Calm) /\ StartExt.else \in Seq(Calm)
  /\ \A m \in Modes : SendMode(m) \in Seq(Calm)
<1> USE CalmHave
<1> DEFINE writes == [i \in DOMAIN ExtInit |-> Write(ExtInit[i], FALSE)]
<1>1. writes \in Seq(Calm)
  <2>1. \A i \in DOMAIN ExtInit : Write(ExtInit[i], FALSE) \in Calm
    BY DEF WriteBlocks
  <2>2. DOMAIN ExtInit = 1 .. Len(ExtInit) /\ Len(ExtInit) \in Nat
    BY BlocksAssumption
  <2>3. writes \in [1 .. Len(ExtInit) -> Calm]
    BY <2>1, <2>2
  <2>. QED
    BY <2>2, <2>3, FunctionIsSequence
<1>2. Append(writes, Store("ext_mode", 85)) \in Seq(Calm)
  BY <1>1
<1>3. StartExt = IfState("ext_mode", 0, Append(writes, Store("ext_mode", 85)), <<>>)
  BY DEF StartExt, InitializeExtension
<1>4. InitializeExtension = <<StartExt>>
  BY <1>3 DEF InitializeExtension
<1>5. StartExt \in Calm
  BY DEF Tests
<1>6. StartExt.then = Append(writes, Store("ext_mode", 85)) /\ StartExt.else = <<>>
  BY <1>3 DEF IfState
<1>7. ASSUME NEW m \in Modes PROVE SendMode(m) \in Seq(Calm)
  <2>1. Post(ReportMode(m)) \in Calm
    BY ReportsHave
  <2>2. SendMode(m) = <<TestExt, Post(ReportMode(m))>>
    BY DEF SendMode, TestExt
  <2>3. TestExt \in Calm
    BY DEF Tests
  <2>. QED
    BY <2>1, <2>2, <2>3
<1>. QED
  BY <1>2, <1>4, <1>5, <1>6, <1>7

\* Where a test leads: to calm steps or to the replacement of the handler.
LEMMA BranchesCalm ==
  /\ UpdateReportingMode \in Seq(Calm)
  /\ \A s \in Tests : \A q :
       q = s.then \/ q = s.else => q \in Seq(Calm) \/ \E m \in {ButtonAccel, ButtonAccelExt16} : q = ChangeMode(m)
<1>1. TestExt \in Calm /\ TestAccel \in Calm /\ TestBoth \in Calm /\ UpdateReportingMode[1] \in Calm
  BY CalmHave, Zenon DEF Tests
<1>2. /\ UpdateReportingMode = <<UpdateReportingMode[1]>>
      /\ UpdateReportingMode[1].then = <<TestBoth>>
      /\ UpdateReportingMode[1].else = <<TestAccel>>
  BY DEF UpdateReportingMode, TestBoth, TestAccel, IfState
<1>3. <<TestAccel>> \in Seq(Calm) /\ <<>> \in Seq(Calm) /\ <<TestBoth>> \in Seq(Calm)
  BY <1>1
<1>4. UpdateReportingMode \in Seq(Calm)
  <2>1. <<UpdateReportingMode[1]>> \in Seq(Calm)
    BY <1>1
  <2>. QED
    BY <1>2, <2>1, Zenon
<1>5. TestExt.then = InitializeExtension /\ TestExt.else = <<>>
  BY DEF TestExt, IfState
<1>6. TestAccel.then = ChangeMode(ButtonAccel) /\ TestAccel.else = SendMode(Button)
  BY DEF TestAccel, IfState
<1>7. TestBoth.then = ChangeMode(ButtonAccelExt16) /\ TestBoth.else = <<TestAccel>>
  BY DEF TestBoth, IfState
<1>8. SendMode(Button) \in Seq(Calm)
  BY SendModeCalm DEF Modes
<1>. QED
  BY <1>2, <1>3, <1>4, <1>5, <1>6, <1>7, <1>8, SendModeCalm DEF Tests

\* Two steps in front of others.
LEMMA TwoFirst ==
  ASSUME NEW S, NEW a \in S, NEW d \in S, NEW r \in Seq(S)
  PROVE  <<a, d>> \o r # <<>> /\ Head(<<a, d>> \o r) = a /\ Tail(<<a, d>> \o r) = <<d>> \o r
<1>1. <<a, d>> \o r \in Seq(S) /\ Len(<<a, d>> \o r) = 2 + Len(r) /\ Len(r) \in Nat
  OBVIOUS
<1>2. <<a, d>> \o r # <<>> /\ Head(<<a, d>> \o r) = a
  BY <1>1
<1>3. Tail(<<a, d>> \o r) = <<d>> \o r
  OBVIOUS
<1>. QED
  BY <1>2, <1>3

\* The replacement of the handler, with calm steps to follow.
LEMMA ChangeModeErases ==
  ASSUME NEW m \in {ButtonAccel, ButtonAccelExt16}, NEW q \in Seq(Calm)
  PROVE  Erasing(ChangeMode(m) \o q)
<1> DEFINE p == SendMode(m)
           a == RemoveFromIterator
           d == AddData(m)
           S == Calm \cup {a, d}
<1>1. p \in Seq(Calm)
  BY SendModeCalm DEF Modes
<1>2. ChangeMode(m) = <<a, d>> \o p
  BY DEF ChangeMode
<1>3. d.do = "addData"
  BY DEF AddData
<1>4. Calm \subseteq S /\ a \in S /\ d \in S
  OBVIOUS
<1> HIDE DEF p, a, d, S
<1>5. p \o q \in Seq(Calm) /\ p \in Seq(S) /\ q \in Seq(S) /\ p \o q \in Seq(S)
  BY <1>1, <1>4
<1>6. (<<a, d>> \o p) \o q = <<a, d>> \o (p \o q)
  BY <1>4, <1>5
<1> DEFINE r == p \o q
<1> HIDE DEF r
<1>7. r \in Seq(S)
  BY <1>5 DEF r
<1>8. <<a, d>> \o r # <<>> /\ Head(<<a, d>> \o r) = a /\ Tail(<<a, d>> \o r) = <<d>> \o r
  BY <1>4, <1>7, TwoFirst
<1>9. <<d>> \o r # <<>> /\ Head(<<d>> \o r) = d /\ Tail(<<d>> \o r) = r
  BY <1>4, <1>7
<1> DEFINE v == <<a, d>> \o r
<1>10. ChangeMode(m) \o q = v /\ r \in Seq(Calm)
  BY <1>2, <1>5, <1>6, Zenon DEF r
<1>11. v # <<>> /\ Head(v) = a /\ Tail(v) # <<>> /\ Head(Tail(v)).do = "addData" /\ Tail(Tail(v)) = r
  BY <1>3, <1>8, <1>9, Zenon
<1> HIDE DEF v
<1>. QED
  BY <1>10, <1>11 DEF Erasing, a

\* read_data() and write_data() are calm.
LEMMA RequestsCalm ==
  ASSUME NEW f \in Nat, NEW wait \in BOOLEAN
  PROVE  /\ \A b \in ReadBlocks :
              <<Add(ReadHandler(f, b)), Post(ReadBlock(b))>> \o Waiting(f, wait) \in Seq(Calm)
         /\ \A b \in WriteBlocks :
              <<Add(AckHandler(f, Chunks(b.len)))>>
                \o [k \in 1 .. Chunks(b.len) |-> Post(WriteChunk(f, b.addr + (k - 1) * ChunkSize))]
                \o Waiting(f, wait) \in Seq(Calm)
<1> USE CalmHave
<1>1. Waiting(f, wait) \in Seq(Calm)
  BY DEF Waiting
<1>2. ASSUME NEW b \in ReadBlocks
      PROVE  <<Add(ReadHandler(f, b)), Post(ReadBlock(b))>> \o Waiting(f, wait) \in Seq(Calm)
  <2>1. Add(ReadHandler(f, b)) \in Calm
    <3>1. ReadHandler(f, b) \in Keepers
      BY BlockFacts DEF ReadHandler, Keepers
    <3>2. Add(ReadHandler(f, b)) \in FirstSteps
      BY <3>1 DEF FirstSteps, Add
    <3>. QED
      BY <3>2
  <2>2. Post(ReadBlock(b)) \in Calm
    BY ReportsHave
  <2>. QED
    BY <1>1, <2>1, <2>2
<1>3. ASSUME NEW b \in WriteBlocks
      PROVE  <<Add(AckHandler(f, Chunks(b.len)))>>
                \o [k \in 1 .. Chunks(b.len) |-> Post(WriteChunk(f, b.addr + (k - 1) * ChunkSize))]
                \o Waiting(f, wait) \in Seq(Calm)
  <2> DEFINE first == Add(AckHandler(f, Chunks(b.len)))
             posts == [k \in 1 .. Chunks(b.len) |-> Post(WriteChunk(f, b.addr + (k - 1) * ChunkSize))]
  <2>1. first \in Calm
    BY BlockFacts DEF FirstSteps, Add, AckHandler, Keepers
  <2>2. posts \in Seq(Calm)
    <3>1. Chunks(b.len) \in Nat
      BY BlockFacts
    <3>2. ASSUME NEW k \in 1 .. Chunks(b.len)
          PROVE  Post(WriteChunk(f, b.addr + (k - 1) * ChunkSize)) \in Calm
      <4>1. b.addr + (k - 1) * ChunkSize \in Nat
        BY BlockFacts
      <4>2. WriteChunk(f, b.addr + (k - 1) * ChunkSize) \in WriteReports
        BY <4>1 DEF WriteChunk, WriteReports
      <4>. QED
        BY <4>2
    <3>3. posts \in [1 .. Chunks(b.len) -> Calm]
      BY <3>2
    <3>. QED
      BY <3>1, <3>3, FunctionIsSequence
  <2> HIDE DEF first, posts
  <2>3. <<first>> \o posts \o Waiting(f, wait) \in Seq(Calm)
    BY <1>1, <2>1, <2>2
  <2>. QED
    BY <2>3 DEF first, posts
<1>. QED
  BY <1>2, <1>3

-----------------------------------------------------------------------------
(* The list of handlers. *)

\* The nodes of data report handlers stay where they are in the list, or move, and
\* only remove_report_handler() takes one out.
LEMMA NodesStay ==
  Inv /\ [Next]_vars => NodesOf(handlers) \subseteq NodesOf(handlers') \/ \E t \in Threads : RemoveReportHandler(t)
<1> SUFFICES ASSUME Inv, [Next]_vars, \A t \in Threads : ~RemoveReportHandler(t)
             PROVE  NodesOf(handlers) \subseteq NodesOf(handlers')
  OBVIOUS
<1> DEFINE H == Others(nodes) \cup Keepers
<1>1. handlers \in Seq(H) /\ nodes \in Nat
  BY DEF Inv, ListInv, TodoInv
<1>2. ASSUME UNCHANGED handlers PROVE NodesOf(handlers) \subseteq NodesOf(handlers')
  BY <1>2
\* Enough that each data report handler is found again.
<1>3. ASSUME \A j \in DOMAIN handlers : handlers[j].kind = "data" =>
               \E k \in DOMAIN handlers' : handlers'[k].kind = "data" /\ handlers'[k].node = handlers[j].node
      PROVE  NodesOf(handlers) \subseteq NodesOf(handlers')
  <2> SUFFICES ASSUME NEW j \in DOMAIN handlers, handlers[j].kind = "data"
               PROVE  handlers[j].node \in NodesOf(handlers')
    BY DEF NodesOf
  <2>. QED
    BY <1>3 DEF NodesOf
<1>4. ASSUME NEW t \in Threads, AddReportHandler(t) PROVE NodesOf(handlers) \subseteq NodesOf(handlers')
  <2>1. PICK h : handlers' = Append(handlers, h)
    BY <1>4 DEF AddReportHandler
  <2> HIDE DEF H
  <2>2. \A j \in DOMAIN handlers : j \in DOMAIN handlers' /\ handlers'[j] = handlers[j]
    BY <1>1, <2>1
  <2>. QED
    BY <1>3, <2>2
<1>5. ASSUME NEW t \in Threads, Step(t) PROVE NodesOf(handlers) \subseteq NodesOf(handlers')
  BY <1>2, <1>4, <1>5
     DEF Step, ScheduleJob, StoreState, TestState, BeginRead, BeginWrite, AwaitFuture, ReturnObject
<1>6. ASSUME NEW i \in DOMAIN handlers, HandleStatus(i) \/ HandleData(i) \/ HandleReadReply(i) \/ HandleAck(i)
      PROVE  NodesOf(handlers) \subseteq NodesOf(handlers')
  <2> HIDE DEF H
  <2>1. i \in 1 .. Len(handlers) /\ DOMAIN handlers = 1 .. Len(handlers) /\ Len(handlers) \in Nat
    BY <1>1
  <2>2. ASSUME handlers' = RemoveAt(handlers, i), handlers[i].kind # "data"
        PROVE  NodesOf(handlers) \subseteq NodesOf(handlers')
    <3>1. /\ handlers' \in Seq(H) /\ Len(handlers') = Len(handlers) - 1
          /\ \A j \in 1 .. Len(handlers) - 1 : handlers'[j] = handlers[IF j < i THEN j ELSE j + 1]
      BY <1>1, <2>1, <2>2, Removal
    <3>2. DOMAIN handlers' = 1 .. Len(handlers) - 1
      BY <3>1
    <3> SUFFICES ASSUME NEW j \in DOMAIN handlers, handlers[j].kind = "data"
                 PROVE  \E k \in DOMAIN handlers' : handlers'[k] = handlers[j]
      BY <1>3
    <3>3. j # i
      BY <2>2
    <3>4. CASE j < i
      BY <2>1, <3>1, <3>2, <3>4
    <3>5. CASE j > i
      <4>1. j - 1 \in DOMAIN handlers' /\ ~(j - 1 < i) /\ (j - 1) + 1 = j
        BY <2>1, <3>2, <3>5
      <4>2. handlers'[j - 1] = handlers[j]
        BY <3>1, <3>2, <4>1
      <4>. QED
        BY <4>1, <4>2
    <3>. QED
      BY <2>1, <3>3, <3>4, <3>5
  <2>3. ASSUME handlers[i].kind # "data", DOMAIN handlers' = DOMAIN handlers,
               \A j \in DOMAIN handlers : j # i => handlers'[j] = handlers[j]
        PROVE  NodesOf(handlers) \subseteq NodesOf(handlers')
    BY <1>3, <2>3
  <2>4. CASE HandleStatus(i)
    BY <2>2, <2>4 DEF HandleStatus, TakenBy
  <2>5. CASE HandleData(i)
    BY <1>2, <2>5 DEF HandleData
  <2>6. CASE HandleReadReply(i)
    <3>1. handlers[i].kind # "data"
      BY <2>6 DEF HandleReadReply, TakenBy
    <3>2. \/ handlers' = RemoveAt(handlers, i)
          \/ UNCHANGED handlers
          \/ \E g : handlers' = [handlers EXCEPT ![i] = g]
      BY <2>6 DEF HandleReadReply, Fulfil
    <3>. QED
      BY <1>2, <2>2, <2>3, <3>1, <3>2
  <2>7. CASE HandleAck(i)
    <3>1. handlers[i].kind # "data"
      BY <2>7 DEF HandleAck, TakenBy
    <3>2. \/ handlers' = RemoveAt(handlers, i)
          \/ \E g : handlers' = [handlers EXCEPT ![i] = g]
      BY <2>7 DEF HandleAck, Fulfil
    <3>. QED
      BY <1>2, <2>2, <2>3, <3>1, <3>2
  <2>. QED
    BY <1>6, <2>4, <2>5, <2>6, <2>7
<1>7. HandleUnhandled => UNCHANGED handlers
  BY DEF HandleUnhandled
<1>8. SendJob \/ PressButton \/ PlugExtension \/ Rest \/ UNCHANGED vars => UNCHANGED handlers
  BY DEF SendJob, SendStatusRequest, SendLeds, SendReportMode, SendReadData, SendWriteData, LoseReport, Send,
         PressButton, PlugExtension, Rest, vars
<1>9. ASSUME NEW t \in Callers,
             SetLeds(t) \/ SetReport(t) \/ ReadData(t) \/ WriteData(t) \/ GetPresentGyro(t) \/ GetExtId(t)
      PROVE  UNCHANGED handlers
  BY <1>9 DEF SetLeds, SetReport, ReadData, WriteData, GetPresentGyro, GetExtId, Call
<1>. QED
  BY <1>2, <1>5, <1>6, <1>7, <1>8, <1>9 DEF Next, Dispatch

-----------------------------------------------------------------------------
(* The invariant. *)

\* A thread with calm steps goes on with calm steps, unless it begins to replace
\* the handler; data_iter is not set but to end().
LEMMA CalmStep ==
  ASSUME Inv, NEW t \in Threads, todo[t] \in Seq(Calm), Step(t)
  PROVE  /\ todo'[t] \in Seq(Calm) \/ Erasing(todo'[t])
         /\ state'.data_iter \in {state.data_iter, End}
         /\ ~RemoveReportHandler(t)
<1> DEFINE s == Head(todo[t])
           q == Tail(todo[t])
<1>1. todo[t] # <<>>
  BY DEF Step, AddReportHandler, RemoveReportHandler, ScheduleJob, StoreState, TestState,
         BeginRead, BeginWrite, AwaitFuture, ReturnObject, Do
<1>2. s \in Calm /\ q \in Seq(Calm)
  BY <1>1
<1>3. /\ s.do \notin {"remove", "addData"}
      /\ s.do = "if" => s \in Tests
      /\ s.do = "read" => s.block \in ReadBlocks /\ s.wait \in BOOLEAN
      /\ s.do = "write" => s.block \in WriteBlocks /\ s.wait \in BOOLEAN
      /\ s.do = "store" /\ s.field = "data_iter" => s.value = End
  BY <1>2, CalmFields
<1>4. ASSUME NEW p, Continue(t, p) PROVE todo'[t] = p \o q
  BY <1>4 DEF Continue, Inv, TodoInv
<1>5. ASSUME NEW p \in Seq(Calm), Continue(t, p) PROVE todo'[t] \in Seq(Calm)
  <2>1. todo'[t] = p \o q
    BY <1>4, <1>5
  <2> HIDE DEF q
  <2>. QED
    BY <1>2, <2>1
<1>6. <<>> \in Seq(Calm)
  OBVIOUS
<1>7. ~RemoveReportHandler(t) /\ ~Do(t, "addData")
  BY <1>3 DEF RemoveReportHandler, Do
<1>8. CASE AddReportHandler(t) \/ ScheduleJob(t) \/ AwaitFuture(t) \/ ReturnObject(t)
  <2>1. Continue(t, <<>>) /\ UNCHANGED state
    BY <1>7, <1>8 DEF AddReportHandler, ScheduleJob, AwaitFuture, ReturnObject
  <2>. QED
    BY <1>5, <1>6, <1>7, <2>1
<1>9. CASE StoreState(t)
  <2>1. Continue(t, <<>>) /\ state' = [state EXCEPT ![s.field] = s.value] /\ s.do = "store"
    BY <1>9 DEF StoreState, Do
  <2>2. state'.data_iter \in {state.data_iter, End}
    <3>1. "data_iter" \in DOMAIN state
      BY DEF Inv, StateInv
    <3> HIDE DEF s
    <3>2. CASE s.field = "data_iter"
      BY <1>3, <2>1, <3>1, <3>2
    <3>3. CASE s.field # "data_iter"
      BY <2>1, <3>3
    <3>. QED
      BY <3>2, <3>3
  <2>. QED
    BY <1>5, <1>6, <1>7, <2>1, <2>2
<1>10. CASE TestState(t)
  <2>1. s \in Tests /\ UNCHANGED state
    BY <1>3, <1>10 DEF TestState, Do
  <2>2. PICK p : (p = s.then \/ p = s.else) /\ Continue(t, p)
    BY <1>10 DEF TestState
  <2>3. CASE p \in Seq(Calm)
    BY <1>5, <1>7, <2>1, <2>2, <2>3
  <2>4. CASE \E m \in {ButtonAccel, ButtonAccelExt16} : p = ChangeMode(m)
    <3>1. PICK m \in {ButtonAccel, ButtonAccelExt16} : p = ChangeMode(m)
      BY <2>4
    <3>2. todo'[t] = ChangeMode(m) \o q
      BY <1>4, <2>2, <3>1
    <3>3. Erasing(ChangeMode(m) \o q)
      BY <1>2, ChangeModeErases
    <3>. QED
      BY <1>7, <2>1, <3>2, <3>3
  <2>. QED
    BY <2>1, <2>2, <2>3, <2>4, BranchesCalm
<1>11. Len(futures) + 1 \in Nat
  BY DEF Inv, FutureInv
<1>12. CASE BeginRead(t)
  <2>1. s.block \in ReadBlocks /\ s.wait \in BOOLEAN /\ UNCHANGED state
    BY <1>3, <1>12 DEF BeginRead, Do
  <2> DEFINE f == Len(futures) + 1
             p == <<Add(ReadHandler(f, s.block)), Post(ReadBlock(s.block))>> \o Waiting(f, s.wait)
  <2>2. p \in Seq(Calm)
    BY <1>11, <2>1, RequestsCalm
  <2>3. Continue(t, p)
    BY <1>12 DEF BeginRead
  <2>. QED
    BY <1>5, <1>7, <2>1, <2>2, <2>3
<1>13. CASE BeginWrite(t)
  <2>1. s.block \in WriteBlocks /\ s.wait \in BOOLEAN /\ UNCHANGED state
    BY <1>3, <1>13 DEF BeginWrite, Do
  <2> DEFINE f == Len(futures) + 1
             p == <<Add(AckHandler(f, Chunks(s.block.len)))>>
                    \o [k \in 1 .. Chunks(s.block.len) |->
                          Post(WriteChunk(f, s.block.addr + (k - 1) * ChunkSize))]
                    \o Waiting(f, s.wait)
  <2>2. p \in Seq(Calm)
    BY <1>11, <2>1, RequestsCalm
  <2>3. Continue(t, p)
    BY <1>13 DEF BeginWrite
  <2>. QED
    BY <1>5, <1>7, <2>1, <2>2, <2>3
<1>. QED
  BY <1>7, <1>8, <1>9, <1>10, <1>12, <1>13 DEF Step

\* What the application thread relies on when others act.
LEMMA OthersAct ==
  ASSUME IterInv, todo'[Owner] = todo[Owner], todo'[Reader] \in Seq(Calm) \/ Erasing(todo'[Reader]),
         NodesOf(handlers) \subseteq NodesOf(handlers'), state'.data_iter \in {state.data_iter, End}
  PROVE  IterInv'
<1>1. Refers => Refers'
  BY DEF Refers, End
<1>2. Storing(todo[Owner]) => Storing(todo[Owner])'
  <2> SUFFICES ASSUME Storing(todo[Owner]) PROVE Storing(todo[Owner])'
    OBVIOUS
  <2>1. PICK n \in NodesOf(handlers) : Head(todo[Owner]) = Store("data_iter", n)
    BY DEF Storing
  <2>2. n \in NodesOf(handlers') /\ Head(todo'[Owner]) = Store("data_iter", n)
    BY <2>1
  <2>. QED
    BY <2>2 DEF Storing
<1>3. OwnerInv'
  BY <1>1, <1>2 DEF IterInv, OwnerInv
<1>. QED
  BY <1>3 DEF IterInv, ReaderInv

\* The steps of a call are calm when it begins.
LEMMA CallsCalm ==
  ASSUME Inv, NEW t \in Callers,
         SetLeds(t) \/ SetReport(t) \/ ReadData(t) \/ WriteData(t) \/ GetPresentGyro(t) \/ GetExtId(t)
  PROVE  \E steps \in Seq(Calm) : Call(t, steps)
<1> USE CalmHave
<1>0. \A s \in Calm :
        <<s>> \in Seq(Calm) /\ \A q \in Seq(Calm) : Append(q, s) \in Seq(Calm)
  OBVIOUS
<1>1. CASE SetLeds(t)
  <2>1. PICK v \in Leds : Call(t, <<Store("leds", v), Post(PlayerLeds(v))>>)
    BY <1>1 DEF SetLeds
  <2>2. Store("leds", v) \in Calm /\ Post(PlayerLeds(v)) \in Calm
    BY ReportsHave
  <2>3. <<Store("leds", v), Post(PlayerLeds(v))>> \in Seq(Calm)
    BY <2>2
  <2>. QED
    BY <2>1, <2>3
<1>2. CASE SetReport(t)
  <2>1. PICK f \in Features, enable \in BOOLEAN : Call(t, <<Store(f, enable)>> \o UpdateReportingMode)
    BY <1>2 DEF SetReport
  <2>2. Store(f, enable) \in Calm
    OBVIOUS
  <2>3. <<Store(f, enable)>> \o UpdateReportingMode \in Seq(Calm)
    BY <2>2, BranchesCalm
  <2>. QED
    BY <2>1, <2>3
<1>3. CASE ReadData(t)
  <2>1. PICK b \in Reads, wait \in BOOLEAN : Call(t, <<Read(b, wait)>>)
    BY <1>3 DEF ReadData
  <2>2. Read(b, wait) \in Calm
    BY DEF ReadBlocks
  <2>. QED
    BY <1>0, <2>1, <2>2
<1>4. CASE WriteData(t)
  <2>1. PICK b \in Writes, wait \in BOOLEAN : Call(t, <<Write(b, wait)>>)
    BY <1>4 DEF WriteData
  <2>2. Write(b, wait) \in Calm
    BY DEF WriteBlocks
  <2>. QED
    BY <1>0, <2>1, <2>2
<1>5. CASE GetPresentGyro(t)
  <2>1. Read(GyroId, TRUE) \in Calm
    BY DEF ReadBlocks
  <2>2. <<Read(GyroId, TRUE)>> \in Seq(Calm)
    BY <1>0, <2>1, Zenon
  <2>. QED
    BY <1>5, <2>2 DEF GetPresentGyro
<1>6. CASE GetExtId(t)
  <2>1. Read(ExtId, TRUE) \in Calm
    BY DEF ReadBlocks
  <2>2. Append(InitializeExtension, Read(ExtId, TRUE)) \in Seq(Calm)
    BY <1>0, <2>1, SendModeCalm, Zenon
  <2>. QED
    BY <1>6, <2>2 DEF GetExtId
<1>. QED
  BY <1>1, <1>2, <1>3, <1>4, <1>5, <1>6

\* The application thread takes a step of its call.
LEMMA OwnerStep ==
  ASSUME Inv, IterInv, Step(Owner)
  PROVE  IterInv'
<1> DEFINE s == Head(todo[Owner])
           q == Tail(todo[Owner])
<1>1. Owner \in Threads /\ Reader \in Threads /\ Owner # Reader /\ todo[Owner] \in Seq(Steps(nodes) \cup FirstSteps)
      /\ nodes \in Nat /\ todo \in [Threads -> Seq(Steps(nodes) \cup FirstSteps)]
  BY ThreadsAssumption DEF Threads, Inv, TodoInv
<1>2. PICK p : Continue(Owner, p)
  BY DEF Step, AddReportHandler, RemoveReportHandler, ScheduleJob, StoreState, TestState,
         BeginRead, BeginWrite, AwaitFuture, ReturnObject
<1>3. ReaderInv'
  <2>1. todo'[Reader] = todo[Reader]
    BY <1>1, <1>2 DEF Continue
  <2>. QED
    BY <2>1 DEF IterInv, ReaderInv
<1>4. ASSUME NEW r, Continue(Owner, r) PROVE todo'[Owner] = r \o q
  BY <1>1, <1>4 DEF Continue
<1>5. CASE todo[Owner] \in Seq(Calm) /\ Refers
  <2>1. /\ todo'[Owner] \in Seq(Calm) \/ Erasing(todo'[Owner])
        /\ state'.data_iter \in {state.data_iter, End}
        /\ ~RemoveReportHandler(Owner)
    BY <1>1, <1>5, CalmStep
  <2>2. NodesOf(handlers) \subseteq NodesOf(handlers')
    <3>1. CASE AddReportHandler(Owner)
      <4>1. PICK h : handlers' = Append(handlers, h)
        BY <3>1 DEF AddReportHandler
      <4> DEFINE H == Others(nodes) \cup Keepers
      <4>2. handlers \in Seq(H)
        BY DEF Inv, ListInv
      <4> HIDE DEF H
      <4>3. \A j \in DOMAIN handlers : j \in DOMAIN handlers' /\ handlers'[j] = handlers[j]
        BY <4>1, <4>2
      <4>. QED
        BY <4>3 DEF NodesOf
    <3>2. CASE ~AddReportHandler(Owner)
      <4>1. UNCHANGED handlers
        BY <2>1, <3>2
           DEF Step, ScheduleJob, StoreState, TestState, BeginRead, BeginWrite, AwaitFuture, ReturnObject
      <4>. QED
        BY <4>1
    <3>. QED
      BY <3>1, <3>2
  <2>3. Refers'
    BY <1>5, <2>1, <2>2 DEF Refers, End
  <2>. QED
    BY <1>3, <2>1, <2>3 DEF IterInv, OwnerInv
<1>6. CASE Erasing(todo[Owner])
  <2>1. s.do = "remove" /\ q # <<>> /\ Head(q).do = "addData" /\ Tail(q) \in Seq(Calm)
    BY <1>6 DEF Erasing, RemoveFromIterator
  <2>2. RemoveReportHandler(Owner)
    BY <2>1 DEF Step, AddReportHandler, ScheduleJob, StoreState, TestState,
               BeginRead, BeginWrite, AwaitFuture, ReturnObject, Do
  <2>3. todo'[Owner] = <<>> \o q
    BY <1>4, <2>2 DEF RemoveReportHandler
  <2>4. q \in Seq(Steps(nodes) \cup FirstSteps)
    BY <1>1, <1>6 DEF Erasing
  <2> HIDE DEF q
  <2>5. todo'[Owner] = q
    BY <2>3, <2>4
  <2>6. Adding(todo'[Owner])
    BY <2>1, <2>5 DEF Adding
  <2>. QED
    BY <1>3, <2>6 DEF IterInv, OwnerInv
<1>7. CASE Adding(todo[Owner])
  <2>1. s.do = "addData" /\ q \in Seq(Calm)
    BY <1>7 DEF Adding
  <2>2. AddReportHandler(Owner)
    BY <2>1 DEF Step, RemoveReportHandler, ScheduleJob, StoreState, TestState,
               BeginRead, BeginWrite, AwaitFuture, ReturnObject, Do
  <2> DEFINE n == nodes + 1
             step == Store("data_iter", n)
  <2>3. /\ handlers' = Append(handlers, DataHandler(s.mode, n))
        /\ todo'[Owner] = <<step>> \o q
    BY <1>4, <2>1, <2>2 DEF AddReportHandler, Do
  <2>4. n \in NodesOf(handlers')
    <3> DEFINE h == DataHandler(s.mode, n)
               H == Others(nodes) \cup Keepers
               k == Len(handlers) + 1
    <3>1. h.kind = "data" /\ h.node = n
      BY DEF DataHandler
    <3>2. handlers \in Seq(H)
      BY DEF Inv, ListInv
    <3> HIDE DEF h, H
    <3>3. k \in DOMAIN handlers' /\ handlers'[k] = h
      BY <2>3, <3>2 DEF h
    <3> HIDE DEF k, n
    <3>. QED
      BY <3>1, <3>3 DEF NodesOf
  <2> HIDE DEF q, step
  <2>5. <<step>> \o q # <<>> /\ Head(<<step>> \o q) = step /\ Tail(<<step>> \o q) = q
    <3>1. \A S, x : q \in Seq(S) /\ x \in S =>
             <<x>> \o q # <<>> /\ Head(<<x>> \o q) = x /\ Tail(<<x>> \o q) = q
      OBVIOUS
    <3>2. q \in Seq(Calm \cup {step})
      BY <2>1
    <3>. QED
      BY <3>1, <3>2
  <2>6. Storing(todo[Owner])'
    BY <2>1, <2>3, <2>4, <2>5 DEF Storing, step
  <2>. QED
    BY <1>3, <2>6 DEF IterInv, OwnerInv
<1>8. CASE Storing(todo[Owner])
  <2>1. PICK n \in NodesOf(handlers) : s = Store("data_iter", n)
    BY <1>8 DEF Storing
  <2>2. q \in Seq(Calm) /\ s.do = "store" /\ s.field = "data_iter" /\ s.value = n
    BY <1>8, <2>1 DEF Storing, Store
  <2>3. StoreState(Owner)
    BY <2>2 DEF Step, RemoveReportHandler, AddReportHandler, ScheduleJob, TestState,
               BeginRead, BeginWrite, AwaitFuture, ReturnObject, Do
  <2>4. todo'[Owner] = <<>> \o q /\ UNCHANGED handlers
    BY <1>4, <2>3 DEF StoreState
  <2>5. state'.data_iter = n
    BY <2>2, <2>3 DEF StoreState, Inv, StateInv
  <2> HIDE DEF q
  <2>6. todo'[Owner] \in Seq(Calm)
    BY <2>2, <2>4
  <2>7. Refers'
    BY <2>4, <2>5 DEF Refers
  <2>. QED
    BY <1>3, <2>6, <2>7 DEF IterInv, OwnerInv
<1>. QED
  BY <1>5, <1>6, <1>7, <1>8 DEF IterInv, OwnerInv

\* The reader takes a step of update_reporting_mode(), and holds the lock.
LEMMA ReaderStep ==
  ASSUME Inv, IterInv, Step(Reader)
  PROVE  IterInv'
<1>1. Owner \in Threads /\ Reader \in Threads /\ Owner # Reader
  BY ThreadsAssumption DEF Threads
<1>2. todo[Reader] # <<>> /\ ~LockFree
  BY DEF Step, AddReportHandler, RemoveReportHandler, ScheduleJob, StoreState, TestState,
         BeginRead, BeginWrite, AwaitFuture, ReturnObject, Do, LockFree
<1>3. ~AddReportHandler(Reader) /\ ~RemoveReportHandler(Reader)
  BY <1>2 DEF AddReportHandler, RemoveReportHandler
<1>4. UNCHANGED handlers
  BY <1>3 DEF Step, ScheduleJob, StoreState, TestState, BeginRead, BeginWrite, AwaitFuture, ReturnObject
<1>5. ~Erasing(todo[Reader])
  <2> SUFFICES ASSUME Erasing(todo[Reader]) PROVE FALSE
    OBVIOUS
  <2>1. Head(todo[Reader]).do = "remove"
    BY DEF Erasing, RemoveFromIterator
  <2>. QED
    BY <1>3, <2>1 DEF Step, ScheduleJob, StoreState, TestState, BeginRead, BeginWrite, AwaitFuture, ReturnObject, Do
<1>6. /\ todo'[Reader] \in Seq(Calm) \/ Erasing(todo'[Reader])
      /\ state'.data_iter \in {state.data_iter, End}
  BY <1>1, <1>5, CalmStep DEF IterInv, ReaderInv
<1>7. PICK p : Continue(Reader, p)
  BY DEF Step, AddReportHandler, RemoveReportHandler, ScheduleJob, StoreState, TestState,
         BeginRead, BeginWrite, AwaitFuture, ReturnObject
<1>8. todo'[Owner] = todo[Owner]
  BY <1>1, <1>7 DEF Continue, Inv, TodoInv
<1>. QED
  BY <1>4, <1>6, <1>8, OthersAct

\* The reader's callback offers a report, so no thread erases handlers in this step.
LEMMA NoRemoval ==
  ASSUME Inv, UNCHANGED todo, NEW t \in Threads, RemoveReportHandler(t)
  PROVE  FALSE
<1> DEFINE S == Steps(nodes) \cup FirstSteps
           q == todo[t]
<1>1. q \in Seq(S) /\ q # <<>> /\ todo'[t] = <<>> \o Tail(q) /\ todo'[t] = q
  BY DEF Inv, TodoInv, RemoveReportHandler, Continue, Do
<1> HIDE DEF S, q
<1>2. Len(<<>> \o Tail(q)) = Len(q) - 1 /\ Len(q) \in Nat
  BY <1>1
<1>. QED
  BY <1>1, <1>2

\* Every step of the program keeps the invariant.
LEMMA IterStep ==
  ASSUME Callers = {Owner}, Inv, IterInv, [Next]_vars
  PROVE  IterInv'
<1>1. /\ Owner \in Threads /\ Reader \in Threads /\ Owner # Reader
      /\ \A t \in Threads : t = Owner \/ t = Reader
  BY ThreadsAssumption DEF Threads
<1>2. todo \in [Threads -> Seq(Steps(nodes) \cup FirstSteps)]
  BY DEF Inv, TodoInv
<1>3. ASSUME NEW t \in Threads, Step(t) PROVE IterInv'
  BY <1>1, <1>3, OwnerStep, ReaderStep
<1>4. ASSUME NEW t \in Callers,
             SetLeds(t) \/ SetReport(t) \/ ReadData(t) \/ WriteData(t) \/ GetPresentGyro(t) \/ GetExtId(t)
      PROVE  IterInv'
  <2>1. PICK steps \in Seq(Calm) : Call(t, steps)
    BY <1>4, CallsCalm
  <2>2. t = Owner /\ todo[Owner] = <<>> /\ UNCHANGED <<handlers, state>>
    BY <2>1 DEF Call
  <2>3. todo'[Owner] = steps /\ todo'[Reader] = todo[Reader]
    BY <1>1, <1>2, <2>1, <2>2 DEF Call
  <2>4. Refers
    BY <2>2 DEF IterInv, OwnerInv, Adding, Storing
  <2>. QED
    BY <2>2, <2>3, <2>4 DEF IterInv, OwnerInv, ReaderInv, Refers
<1>5. ASSUME NEW i \in DOMAIN handlers, HandleStatus(i) \/ HandleData(i) \/ HandleReadReply(i) \/ HandleAck(i)
      PROVE  IterInv'
  <2>1. UNCHANGED todo
    BY <1>5 DEF HandleStatus, HandleData, HandleReadReply, HandleAck
  <2>2. LockFree
    BY <1>5 DEF HandleStatus, HandleData, HandleReadReply, HandleAck, TakenBy, Reaches
  <2>3. \A t \in Threads : ~RemoveReportHandler(t)
    BY <1>1, <1>2, <1>5, <2>1, <2>2, NoRemoval
  <2>4. NodesOf(handlers) \subseteq NodesOf(handlers')
    BY <2>3, NodesStay
  <2>5. state'.data_iter = state.data_iter
    <3>1. CASE HandleStatus(i)
      BY <3>1 DEF HandleStatus, Inv, StateInv
    <3>2. CASE UNCHANGED state
      BY <3>2
    <3>. QED
      BY <1>5, <3>1, <3>2 DEF HandleData, HandleReadReply, HandleAck
  <2>. QED
    BY <2>1, <2>4, <2>5, OthersAct DEF IterInv, ReaderInv
<1>6. ASSUME HandleUnhandled PROVE IterInv'
  <2>1. UNCHANGED <<handlers, state>>
    BY <1>6 DEF HandleUnhandled
  <2>2. todo' = todo \/ todo' = [todo EXCEPT ![Reader] = UpdateReportingMode]
    BY <1>6 DEF HandleUnhandled
  <2>3. todo'[Owner] = todo[Owner] /\ todo'[Reader] \in {todo[Reader], UpdateReportingMode}
    BY <1>1, <1>2, <2>2
  <2>4. todo'[Reader] \in Seq(Calm) \/ Erasing(todo'[Reader])
    BY <2>3, BranchesCalm DEF IterInv, ReaderInv
  <2>. QED
    BY <2>1, <2>3, <2>4, OthersAct
<1>7. ASSUME UNCHANGED <<todo, handlers, state>> PROVE IterInv'
  BY <1>7 DEF IterInv, OwnerInv, ReaderInv, Refers, Storing
<1>8. SendJob \/ PressButton \/ PlugExtension \/ Rest \/ UNCHANGED vars => UNCHANGED <<todo, handlers, state>>
  BY DEF SendJob, SendStatusRequest, SendLeds, SendReportMode, SendReadData, SendWriteData, LoseReport, Send,
         PressButton, PlugExtension, Rest, vars
<1>. QED
  BY <1>3, <1>4, <1>5, <1>6, <1>7, <1>8 DEF Next, Dispatch

\* The iterator refers to nothing yet when the constructor begins.
LEMMA InitIter == Init => IterInv
<1> SUFFICES ASSUME Init PROVE IterInv
  OBVIOUS
<1>1. Owner \in Threads /\ Reader \in Threads /\ Owner # Reader
  BY ThreadsAssumption DEF Threads
<1>2. todo[Owner] = Construct /\ todo[Reader] = <<>> /\ state.data_iter = End
  BY <1>1 DEF Init
<1>3. Construct \in Seq(Calm)
  <2> DEFINE s1 == Add(StatusHandler)
             s2 == Post(StatusRequest)
             s3 == Read(Calibration, TRUE)
             s4 == Add(ButtonHandler)
             s5 == Store("data_iter", End)
             s6 == Return
  <2>1. s1 \in Calm /\ s2 \in Calm /\ s4 \in Calm /\ s5 \in Calm /\ s6 \in Calm
    BY CalmHave, ReportsHave
  <2>2. s3 \in Calm
    <3>1. Calibration \in ReadBlocks /\ \A w : w = TRUE => w \in BOOLEAN
      BY DEF ReadBlocks
    <3>. QED
      BY <3>1, CalmHave, Zenon
  <2>3. Construct = <<s1, s2, s3, s4, s5, s2, s6>>
    BY Zenon DEF Construct
  <2> HIDE DEF s1, s2, s3, s4, s5, s6
  <2>4. <<s1, s2, s3, s4, s5, s2, s6>> \in Seq(Calm)
    BY <2>1, <2>2
  <2>. QED
    BY <2>3, <2>4, Zenon
<1>. QED
  BY <1>2, <1>3 DEF IterInv, OwnerInv, ReaderInv, Refers

-----------------------------------------------------------------------------

\* change_reporting_mode() of an object that one thread uses never erases from an
\* iterator whose node is gone, whatever the reader, the remote and the handlers of
\* the other requests do.
THEOREM IteratorStaysValid == ASSUME Callers = {Owner} PROVE Spec => []IteratorValid
<1>1. Init => Inv /\ IterInv
  BY InitInv, InitIter
<1>2. Inv /\ IterInv /\ [Next]_vars => (Inv /\ IterInv)'
  BY InvStep, IterStep
<1>3. Inv /\ IterInv => IteratorValid
  <2> SUFFICES ASSUME Inv, IterInv, NEW t \in Callers, Do(t, "remove")
               PROVE  \E i \in 1 .. Len(handlers) + 1 : IsIterator(i)
    BY DEF IteratorValid
  <2>1. t = Owner /\ todo[Owner] # <<>> /\ Head(todo[Owner]).do = "remove"
    BY DEF Do
  <2>2. todo[Owner] \notin Seq(Calm)
    <3>1. todo[Owner] \in Seq(Calm) => Head(todo[Owner]) \in Calm
      BY <2>1
    <3>. QED
      BY <2>1, <3>1, CalmFields
  <2>3. Refers
    BY <2>1, <2>2 DEF IterInv, OwnerInv, Adding, Storing, Store
  <2>4. Len(handlers) \in Nat /\ DOMAIN handlers = 1 .. Len(handlers)
    BY DEF Inv, ListInv
  <2>5. CASE state.data_iter = End
    <3>1. Len(handlers) + 1 \in 1 .. Len(handlers) + 1
      BY <2>4
    <3>. QED
      BY <2>5, <3>1 DEF IsIterator
  <2>6. CASE state.data_iter # End
    <3>1. PICK i \in DOMAIN handlers : handlers[i].kind = "data" /\ handlers[i].node = state.data_iter
      BY <2>3, <2>6 DEF Refers, NodesOf
    <3>2. i \in 1 .. Len(handlers) + 1 /\ i <= Len(handlers)
      BY <2>4, <3>1
    <3>. QED
      BY <3>1, <3>2 DEF IsIterator
  <2>. QED
    BY <2>5, <2>6
<1>. QED
  BY <1>1, <1>2, <1>3, PTL DEF Spec

-----------------------------------------------------------------------------
(* The button handler is the first. *)

\* What the constructor has left, with the steps of its read_data().
Construct2 ==
  <<Post(StatusRequest), Read(Calibration, TRUE), Add(ButtonHandler), Store("data_iter", End),
    Post(StatusRequest), Return>>
Construct3 ==
  <<Read(Calibration, TRUE), Add(ButtonHandler), Store("data_iter", End), Post(StatusRequest), Return>>
Construct4 == <<Add(ButtonHandler), Store("data_iter", End), Post(StatusRequest), Return>>
Reading3 == <<Await(1)>> \o Construct4
Reading2 == <<Post(ReadBlock(Calibration))>> \o Reading3
Reading1 == <<Add(ReadHandler(1, Calibration)), Post(ReadBlock(Calibration))>> \o Reading3
Construct5 == <<Store("data_iter", End), Post(StatusRequest), Return>>
Construct6 == <<Post(StatusRequest), Return>>
Construct7 == <<Return>>

\* No reply to a read is due.
NoReads ==
  /\ \A j \in DOMAIN wire : wire[j].rpt # "read"
  /\ \A j \in DOMAIN jobs : jobs[j].rpt # "read"

\* A status report will reach the reader before the next reply to a read does.
StatusFirst ==
  \/ \E i \in DOMAIN wire :
       wire[i].rpt = "status" /\ \A j \in DOMAIN wire : j < i => wire[j].rpt # "read"
  \/ /\ \A j \in DOMAIN wire : wire[j].rpt # "read"
     /\ \E i \in DOMAIN jobs :
          jobs[i].rpt = "status" /\ \A j \in DOMAIN jobs : j < i => jobs[j].rpt # "read"

\* The handlers of the constructor's requests, in their order.
AtMostStatus == \A i \in DOMAIN handlers : i = 1 /\ handlers[i].kind = "status"
AtMostBoth ==
  \A i \in DOMAIN handlers :
    \/ i = 1 /\ handlers[i].kind = "status"
    \/ handlers[i].kind = "read" /\ handlers[i].fut = 1
StatusDue == (\E i \in DOMAIN handlers : handlers[i].kind = "status") => StatusFirst

\* Until the button handler is there.
Constructing ==
  \/ todo[Owner] = Construct /\ handlers = <<>> /\ NoReads /\ futures = <<>>
  \/ todo[Owner] = Construct2 /\ AtMostStatus /\ NoReads /\ futures = <<>>
  \/ todo[Owner] = Construct3 /\ AtMostStatus /\ StatusDue /\ futures = <<>>
  \/ todo[Owner] = Reading1 /\ AtMostStatus /\ StatusDue
  \/ /\ todo[Owner] \in {Reading2, Reading3} /\ AtMostBoth /\ StatusDue
     /\ futures[1].state = "ready" => handlers = <<>>
  \/ todo[Owner] = Construct4 /\ handlers = <<>>

\* The reader may be resetting the reporting mode, which changes no handler while
\* report_accel is not set.
Resetting ==
  /\ state.report_accel = FALSE /\ state.report_ext = FALSE /\ state.leds = 0
  /\ todo[Reader] \in {<<>>, UpdateReportingMode, <<TestAccel>>, <<TestExt, Post(ReportMode(Button))>>,
                       <<Post(ReportMode(Button))>>}

ButtonFirst == handlers # <<>> /\ handlers[1] = ButtonHandler

FirstInv ==
  /\ count \in [calls : Nat, events : Nat, losses : {0}]
  /\ ~built => \A t \in Callers \ {Owner} : todo[t] = <<>>
  /\ \/ ~built /\ Resetting /\ Constructing
     \/ ~built /\ todo[Owner] \in {Construct5, Construct6, Construct7} /\ ButtonFirst
     \/ built /\ ButtonFirst

-----------------------------------------------------------------------------
(* The queue and the wire. *)

\* What a sequence keeps when something is appended, and when its head is taken.
LEMMA Queues ==
  ASSUME NEW S, NEW s \in Seq(S)
  PROVE  /\ DOMAIN s = 1 .. Len(s) /\ Len(s) \in Nat
         /\ \A x : /\ \A j \in DOMAIN s : j \in DOMAIN Append(s, x) /\ Append(s, x)[j] = s[j]
                   /\ DOMAIN Append(s, x) = 1 .. Len(s) + 1 /\ Append(s, x)[Len(s) + 1] = x
         /\ \A q \in Seq(S) : \A j \in DOMAIN s : j \in DOMAIN (s \o q) /\ (s \o q)[j] = s[j]
         /\ s # <<>> => /\ Head(s) = s[1] /\ 1 \in DOMAIN s
                        /\ DOMAIN Tail(s) = 1 .. Len(s) - 1
                        /\ \A j \in DOMAIN Tail(s) : j + 1 \in DOMAIN s /\ Tail(s)[j] = s[j + 1]
<1>1. DOMAIN s = 1 .. Len(s) /\ Len(s) \in Nat
  OBVIOUS
<1>2. ASSUME NEW x
      PROVE  /\ \A j \in DOMAIN s : j \in DOMAIN Append(s, x) /\ Append(s, x)[j] = s[j]
             /\ DOMAIN Append(s, x) = 1 .. Len(s) + 1 /\ Append(s, x)[Len(s) + 1] = x
  OBVIOUS
<1>3. ASSUME NEW q \in Seq(S), NEW j \in DOMAIN s PROVE j \in DOMAIN (s \o q) /\ (s \o q)[j] = s[j]
  OBVIOUS
<1>4. ASSUME s # <<>>
      PROVE  /\ Head(s) = s[1] /\ 1 \in DOMAIN s
             /\ DOMAIN Tail(s) = 1 .. Len(s) - 1
             /\ \A j \in DOMAIN Tail(s) : j + 1 \in DOMAIN s /\ Tail(s)[j] = s[j + 1]
  BY <1>4
<1>. QED
  BY <1>1, <1>2, <1>3, <1>4

\* What the remote answers to a report.
LEMMA RemoteAnswers ==
  ASSUME Inv, SendJob, ~LoseReport
  PROVE  /\ jobs # <<>> /\ jobs' = Tail(jobs)
         /\ \A j \in DOMAIN wire : j \in DOMAIN wire' /\ wire'[j] = wire[j]
         /\ Head(jobs).rpt # "read" => \A j \in DOMAIN wire' : j \in DOMAIN wire \/ wire'[j].rpt # "read"
         /\ Head(jobs).rpt = "status" => \E r : wire' = Append(wire, r) /\ r.rpt = "status"
         /\ UNCHANGED <<todo, built, handlers, futures, state, count>>
<1>1. wire \in Seq(InputReports) /\ jobs \in Seq(OutputReports)
  BY DEF Inv, WireInv
<1>2. ASSUME NEW r, wire' = Append(wire, r)
      PROVE  /\ \A j \in DOMAIN wire : j \in DOMAIN wire' /\ wire'[j] = wire[j]
             /\ r.rpt # "read" => \A j \in DOMAIN wire' : j \in DOMAIN wire \/ wire'[j].rpt # "read"
  <2>1. /\ \A j \in DOMAIN wire : j \in DOMAIN wire' /\ wire'[j] = wire[j]
        /\ DOMAIN wire' = 1 .. Len(wire) + 1 /\ wire'[Len(wire) + 1] = r
        /\ DOMAIN wire = 1 .. Len(wire) /\ Len(wire) \in Nat
    BY <1>1, <1>2, Queues
  <2>. QED
    BY <2>1
<1>3. ASSUME NEW q, wire' = wire \o q, NEW n \in Nat, NEW S, q \in [1 .. n -> S]
      PROVE  \A j \in DOMAIN wire : j \in DOMAIN wire' /\ wire'[j] = wire[j]
  <2> DEFINE T == InputReports \cup S
  <2>1. q \in Seq(S)
    BY <1>3, FunctionIsSequence
  <2>2. wire \in Seq(T) /\ q \in Seq(T)
    BY <1>1, <2>1
  <2> HIDE DEF T
  <2>. QED
    BY <1>3, <2>2, Queues
<1>4. CASE SendStatusRequest
  <2>1. InputStatus.rpt = "status"
    BY DEF InputStatus
  <2>. QED
    BY <1>2, <1>4, <2>1 DEF SendStatusRequest, Send
<1>5. CASE SendLeds \/ SendReportMode
  BY <1>5 DEF SendLeds, SendReportMode, Send
<1>6. CASE SendWriteData
  <2>1. \A e : InputAck(e).rpt = "ack"
    BY DEF InputAck
  <2>2. PICK e : wire' = Append(wire, InputAck(e))
    BY <1>6 DEF SendWriteData
  <2>. QED
    BY <1>2, <1>6, <2>1, <2>2 DEF SendWriteData, Send
<1>7. CASE SendReadData
  <2>1. jobs # <<>> /\ Head(jobs).rpt = "read" /\ Head(jobs) \in OutputReports
    BY <1>1, <1>7 DEF SendReadData, Send
  <2>2. PICK b \in ReadBlocks : Head(jobs) = ReadBlock(b)
    BY <2>1, OutputFields
  <2>3. Head(jobs).block = b /\ Chunks(b.len) \in Nat
    BY <2>2, BlockFacts DEF ReadBlock
  <2>4. \A j \in DOMAIN wire : j \in DOMAIN wire' /\ wire'[j] = wire[j]
    <3>1. CASE Absent(b.addr)
      <4> DEFINE r == InputRead(b, b.addr, TRUE, <<>>)
      <4>1. wire' = wire \o <<r>>
        BY <1>7, <2>3, <3>1 DEF SendReadData
      <4> HIDE DEF r
      <4>2. <<r>> \in [1 .. 1 -> {r}] /\ 1 \in Nat
        OBVIOUS
      <4>. QED
        BY <1>3, <4>1, <4>2
    <3>2. CASE ~Absent(b.addr)
      <4> DEFINE a == b.addr
                 n == b.len
                 at(k) == (k - 1) * ChunkSize
                 size(k) == IF n - at(k) < ChunkSize THEN n - at(k) ELSE ChunkSize
                 piece(k) == InputRead(b, a + at(k), FALSE, Promises!Bytes(a + at(k), size(k)))
                 q == [k \in 1 .. Chunks(n) |-> piece(k)]
      <4>1. wire' = wire \o q
        BY <1>7, <2>3, <3>2 DEF SendReadData
      <4> HIDE DEF piece
      <4>2. q \in [1 .. Chunks(n) -> {piece(k) : k \in 1 .. Chunks(n)}]
        OBVIOUS
      <4> HIDE DEF q
      <4>. QED
        BY <1>3, <2>3, <4>1, <4>2
    <3>. QED
      BY <3>1, <3>2
  <2>. QED
    BY <1>7, <2>1, <2>4 DEF SendReadData, Send
<1>. QED
  BY <1>4, <1>5, <1>6, <1>7 DEF SendJob

\* What the user's acts put on the wire.
LEMMA UserActs ==
  ASSUME Inv, PressButton \/ PlugExtension
  PROVE  /\ wire' = wire \/ \E r : wire' = Append(wire, r) /\ r.rpt \in {"data", "status"}
         /\ UNCHANGED <<todo, built, handlers, futures, state, jobs>>
<1>1. CASE PressButton
  <2>1. InputData.rpt = "data" /\ \A v : [InputData EXCEPT !.button = v].rpt = "data"
    BY DEF InputData
  <2>. QED
    BY <1>1, <2>1 DEF PressButton
<1>2. CASE PlugExtension
  <2>1. InputStatus.rpt = "status" /\ \A v : [InputStatus EXCEPT !.ext = v].rpt = "status"
    BY DEF InputStatus
  <2>. QED
    BY <1>2, <2>1 DEF PlugExtension
<1>. QED
  BY <1>1, <1>2

\* The answers come in the order of the requests.
LEMMA OrderKept ==
  ASSUME Inv, (SendJob /\ ~LoseReport) \/ PressButton \/ PlugExtension
  PROVE  /\ NoReads => NoReads'
         /\ StatusFirst => StatusFirst'
<1>1. wire \in Seq(InputReports) /\ jobs \in Seq(OutputReports)
  BY DEF Inv, WireInv
<1>2. DOMAIN wire = 1 .. Len(wire) /\ DOMAIN jobs = 1 .. Len(jobs) /\ Len(wire) \in Nat /\ Len(jobs) \in Nat
  BY <1>1, Queues
<1>3. ASSUME NEW r, wire' = Append(wire, r)
      PROVE  /\ \A j \in DOMAIN wire : j \in DOMAIN wire' /\ wire'[j] = wire[j]
             /\ DOMAIN wire' = 1 .. Len(wire) + 1 /\ wire'[Len(wire) + 1] = r
  BY <1>1, <1>3, Queues
<1>4. CASE PressButton \/ PlugExtension
  <2>1. jobs' = jobs
    BY <1>4, UserActs
  <2>2. CASE wire' = wire
    BY <2>1, <2>2 DEF NoReads, StatusFirst
  <2>3. CASE \E r : wire' = Append(wire, r) /\ r.rpt \in {"data", "status"}
    <3>1. PICK r : wire' = Append(wire, r) /\ r.rpt \in {"data", "status"}
      BY <2>3
    <3>2. /\ \A j \in DOMAIN wire : j \in DOMAIN wire' /\ wire'[j] = wire[j]
          /\ DOMAIN wire' = 1 .. Len(wire) + 1 /\ wire'[Len(wire) + 1] = r
      BY <1>3, <3>1
    <3>3. \A j \in DOMAIN wire' : j \in DOMAIN wire \/ wire'[j].rpt # "read"
      BY <1>2, <3>1, <3>2
    <3>4. NoReads => NoReads'
      BY <2>1, <3>2, <3>3 DEF NoReads
    <3>5. StatusFirst => StatusFirst'
      BY <1>2, <2>1, <3>2, <3>3 DEF StatusFirst
    <3>. QED
      BY <3>4, <3>5
  <2>. QED
    BY <1>4, <2>2, <2>3, UserActs
<1>5. CASE SendJob /\ ~LoseReport
  <2>1. /\ jobs # <<>> /\ jobs' = Tail(jobs)
        /\ \A j \in DOMAIN wire : j \in DOMAIN wire' /\ wire'[j] = wire[j]
        /\ Head(jobs).rpt # "read" => \A j \in DOMAIN wire' : j \in DOMAIN wire \/ wire'[j].rpt # "read"
        /\ Head(jobs).rpt = "status" => \E r : wire' = Append(wire, r) /\ r.rpt = "status"
    BY <1>5, RemoteAnswers
  <2>2. /\ Head(jobs) = jobs[1] /\ 1 \in DOMAIN jobs
        /\ DOMAIN jobs' = 1 .. Len(jobs) - 1
        /\ \A j \in DOMAIN jobs' : j + 1 \in DOMAIN jobs /\ jobs'[j] = jobs[j + 1]
    BY <1>1, <2>1, Queues
  <2>3. NoReads => NoReads'
    BY <2>1, <2>2 DEF NoReads
  <2>4. wire' \in Seq(InputReports) /\ DOMAIN wire' = 1 .. Len(wire') /\ Len(wire') \in Nat
    <3>1. Inv'
      BY <1>5, InvStep DEF Next
    <3>2. wire' \in Seq(InputReports)
      BY <3>1 DEF Inv, WireInv
    <3>. QED
      BY <3>2, Queues
  <2>5. ASSUME NEW i \in DOMAIN wire, wire[i].rpt = "status", \A j \in DOMAIN wire : j < i => wire[j].rpt # "read"
        PROVE  StatusFirst'
    <3>1. i \in DOMAIN wire' /\ wire'[i].rpt = "status"
      BY <2>1, <2>5
    <3>2. \A j \in DOMAIN wire' : j < i => j \in DOMAIN wire
      BY <1>2, <2>4, <2>5
    <3>3. \A j \in DOMAIN wire' : j < i => wire'[j].rpt # "read"
      BY <2>1, <2>5, <3>2
    <3>. QED
      BY <3>1, <3>3 DEF StatusFirst
  <2>6. ASSUME \A j \in DOMAIN wire : wire[j].rpt # "read",
               NEW i \in DOMAIN jobs, jobs[i].rpt = "status", \A j \in DOMAIN jobs : j < i => jobs[j].rpt # "read"
        PROVE  StatusFirst'
    <3>1. CASE Head(jobs).rpt = "status"
      <4>1. PICK r : wire' = Append(wire, r) /\ r.rpt = "status"
        BY <2>1, <3>1
      <4>2. DOMAIN wire' = 1 .. Len(wire) + 1 /\ wire'[Len(wire) + 1] = r
        BY <1>3, <4>1
      <4>3. \A j \in DOMAIN wire' : j < Len(wire) + 1 => wire'[j].rpt # "read"
        BY <1>2, <2>1, <2>6, <4>2
      <4> DEFINE k == Len(wire) + 1
      <4>4. k \in DOMAIN wire' /\ wire'[k].rpt = "status"
        BY <1>2, <4>1, <4>2
      <4>. QED
        BY <4>3, <4>4 DEF StatusFirst
    <3>2. CASE Head(jobs).rpt # "status"
      <4>1. i > 1
        BY <1>2, <2>2, <2>6, <3>2
      <4>2. Head(jobs).rpt # "read"
        BY <2>2, <2>6, <4>1
      <4>3. \A j \in DOMAIN wire' : wire'[j].rpt # "read"
        BY <2>1, <2>6, <4>2
      <4> DEFINE k == i - 1
      <4>4. k \in DOMAIN jobs' /\ k + 1 = i
        BY <1>2, <2>2, <4>1
      <4>5. jobs'[k].rpt = "status"
        BY <2>2, <2>6, <4>4
      <4> HIDE DEF k
      <4>6. \A j \in DOMAIN jobs' : j < k => j + 1 \in DOMAIN jobs /\ j + 1 < i
        BY <1>2, <2>2, <4>4
      <4>7. \A j \in DOMAIN jobs' : j < k => jobs'[j].rpt # "read"
        BY <2>2, <2>6, <4>6
      <4>. QED
        BY <4>3, <4>4, <4>5, <4>7 DEF StatusFirst
    <3>. QED
      BY <3>1, <3>2
  <2>7. StatusFirst => StatusFirst'
    BY <2>5, <2>6 DEF StatusFirst
  <2>. QED
    BY <2>3, <2>7
<1>. QED
  BY <1>4, <1>5

-----------------------------------------------------------------------------
(* The constructor. *)

\* The constructor, step by step.
LEMMA ConstructSteps ==
  /\ Construct # <<>> /\ Head(Construct) = Add(StatusHandler) /\ <<>> \o Tail(Construct) = Construct2
  /\ Construct2 # <<>> /\ Head(Construct2) = Post(StatusRequest) /\ <<>> \o Tail(Construct2) = Construct3
  /\ Construct3 # <<>> /\ Head(Construct3) = Read(Calibration, TRUE)
  /\ <<Add(ReadHandler(1, Calibration)), Post(ReadBlock(Calibration))>> \o Waiting(1, TRUE) \o Tail(Construct3) = Reading1
  /\ Reading1 # <<>> /\ Head(Reading1) = Add(ReadHandler(1, Calibration)) /\ <<>> \o Tail(Reading1) = Reading2
  /\ Reading2 # <<>> /\ Head(Reading2) = Post(ReadBlock(Calibration)) /\ <<>> \o Tail(Reading2) = Reading3
  /\ Reading3 # <<>> /\ Head(Reading3) = Await(1) /\ <<>> \o Tail(Reading3) = Construct4
  /\ Construct4 # <<>> /\ Head(Construct4) = Add(ButtonHandler) /\ <<>> \o Tail(Construct4) = Construct5
  /\ Construct5 # <<>> /\ Head(Construct5) = Store("data_iter", End) /\ <<>> \o Tail(Construct5) = Construct6
  /\ Construct6 # <<>> /\ Head(Construct6) = Post(StatusRequest) /\ <<>> \o Tail(Construct6) = Construct7
  /\ Construct7 # <<>> /\ Head(Construct7) = Return
<1> DEFINE s1 == Add(StatusHandler)
           s2 == Post(StatusRequest)
           s3 == Read(Calibration, TRUE)
           s4 == Add(ButtonHandler)
           s5 == Store("data_iter", End)
           s6 == Return
           r1 == Add(ReadHandler(1, Calibration))
           r2 == Post(ReadBlock(Calibration))
           r3 == Await(1)
<1>1. /\ Construct = <<s1, s2, s3, s4, s5, s2, s6>> /\ Construct2 = <<s2, s3, s4, s5, s2, s6>>
      /\ Construct3 = <<s3, s4, s5, s2, s6>> /\ Construct4 = <<s4, s5, s2, s6>>
      /\ Construct5 = <<s5, s2, s6>> /\ Construct6 = <<s2, s6>> /\ Construct7 = <<s6>>
  BY DEF Construct, Construct2, Construct3, Construct4, Construct5, Construct6, Construct7
<1>2. /\ Reading1 = <<r1, r2>> \o Reading3 /\ Reading2 = <<r2>> \o Reading3
      /\ Reading3 = <<r3>> \o Construct4
      /\ Waiting(1, TRUE) = <<r3>>
  BY DEF Reading1, Reading2, Reading3, Waiting
<1> HIDE DEF s1, s2, s3, s4, s5, s6, r1, r2, r3
<1>3. /\ Construct # <<>> /\ Head(Construct) = s1 /\ <<>> \o Tail(Construct) = Construct2
      /\ Construct2 # <<>> /\ Head(Construct2) = s2 /\ <<>> \o Tail(Construct2) = Construct3
  BY <1>1
<1>4. /\ Construct3 # <<>> /\ Head(Construct3) = s3 /\ Tail(Construct3) = Construct4
      /\ Construct4 # <<>> /\ Head(Construct4) = s4 /\ <<>> \o Tail(Construct4) = Construct5
  BY <1>1
<1>5. /\ Construct5 # <<>> /\ Head(Construct5) = s5 /\ <<>> \o Tail(Construct5) = Construct6
      /\ Construct6 # <<>> /\ Head(Construct6) = s2 /\ <<>> \o Tail(Construct6) = Construct7
      /\ Construct7 # <<>> /\ Head(Construct7) = s6
  BY <1>1
<1> DEFINE S == {s2, s4, s5, s6, r1, r2, r3}
<1>6. /\ s2 \in S /\ s4 \in S /\ s5 \in S /\ s6 \in S /\ r1 \in S /\ r2 \in S /\ r3 \in S
      /\ Construct4 \in Seq(S)
  BY <1>1
<1> HIDE DEF S
<1>7. ASSUME NEW x \in S, NEW q \in Seq(S)
      PROVE  <<x>> \o q \in Seq(S) /\ <<x>> \o q # <<>> /\ Head(<<x>> \o q) = x /\ <<>> \o Tail(<<x>> \o q) = q
  OBVIOUS
<1>8. /\ Reading3 \in Seq(S) /\ Reading3 # <<>> /\ Head(Reading3) = r3 /\ <<>> \o Tail(Reading3) = Construct4
  BY <1>2, <1>6, <1>7
<1>9. /\ Reading2 \in Seq(S) /\ Reading2 # <<>> /\ Head(Reading2) = r2 /\ <<>> \o Tail(Reading2) = Reading3
  BY <1>2, <1>6, <1>7, <1>8
<1>10. /\ Reading1 # <<>> /\ Head(Reading1) = r1 /\ <<>> \o Tail(Reading1) = Reading2
  <2>1. Reading1 # <<>> /\ Head(Reading1) = r1 /\ Tail(Reading1) = Reading2
    <3>1. r1 \in S /\ r2 \in S /\ Reading3 \in Seq(S)
      BY <1>6, <1>8
    <3>2. /\ <<r1, r2>> \o Reading3 # <<>> /\ Head(<<r1, r2>> \o Reading3) = r1
          /\ Tail(<<r1, r2>> \o Reading3) = <<r2>> \o Reading3
      BY <3>1, TwoFirst
    <3>. QED
      BY <1>2, <3>2, Zenon
  <2>2. <<>> \o Reading2 = Reading2
    BY <1>9
  <2>. QED
    BY <2>1, <2>2
<1>11. <<r1, r2>> \o Waiting(1, TRUE) \o Tail(Construct3) = Reading1
  <2>1. <<r1, r2>> \in Seq(S) /\ <<r3>> \in Seq(S)
    BY <1>6
  <2>2. (<<r1, r2>> \o <<r3>>) \o Construct4 = <<r1, r2>> \o (<<r3>> \o Construct4)
    BY <1>6, <2>1
  <2>. QED
    BY <1>2, <1>4, <2>2, Zenon
<1>. QED
  BY <1>3, <1>4, <1>5, <1>8, <1>9, <1>10, <1>11 DEF s1, s2, s3, s4, s5, s6, r1, r2, r3

\* The kind of a step determines the action that executes it.
LEMMA OneAction ==
  ASSUME NEW t, Step(t)
  PROVE  /\ todo[t] # <<>>
         /\ Head(todo[t]).do = "add" => Do(t, "add") /\ AddReportHandler(t)
         /\ Head(todo[t]).do = "post" => ScheduleJob(t)
         /\ Head(todo[t]).do = "store" => StoreState(t)
         /\ Head(todo[t]).do = "if" => TestState(t)
         /\ Head(todo[t]).do = "read" => BeginRead(t)
         /\ Head(todo[t]).do = "write" => BeginWrite(t)
         /\ Head(todo[t]).do = "await" => AwaitFuture(t)
         /\ Head(todo[t]).do = "return" => ReturnObject(t)
         /\ Head(todo[t]).do = "remove" => RemoveReportHandler(t)
         /\ Head(todo[t]).do = "addData" => Do(t, "addData") /\ AddReportHandler(t)
BY DEF Step, Do, AddReportHandler, RemoveReportHandler, ScheduleJob, StoreState, TestState,
       BeginRead, BeginWrite, AwaitFuture, ReturnObject

\* add_report_handler(h)
LEMMA HandlerInserted ==
  ASSUME NEW t, Do(t, "add"), AddReportHandler(t)
  PROVE  /\ handlers' = Append(handlers, Head(todo[t]).handler)
         /\ Continue(t, <<>>)
         /\ UNCHANGED <<built, jobs, wire, futures, written, state, button, remote, nodes, count>>
BY DEF Do, AddReportHandler

\* The reader that resets the reporting mode posts it, and changes no handler.
LEMMA ReaderResets ==
  ASSUME Inv, Resetting, Step(Reader)
  PROVE  /\ Resetting' /\ todo' = [todo EXCEPT ![Reader] = todo'[Reader]]
         /\ jobs' = jobs \/ \E r : jobs' = Append(jobs, r) /\ r.rpt = "mode"
         /\ UNCHANGED <<built, handlers, futures, wire, count>>
<1> DEFINE top == UpdateReportingMode[1]
           post == Post(ReportMode(Button))
           q == Tail(todo[Reader])
<1>1. /\ UpdateReportingMode = <<top>> /\ top.do = "if" /\ top.field = "report_accel" /\ top.value = TRUE
      /\ top.else = <<TestAccel>>
  BY DEF UpdateReportingMode, TestAccel, IfState
<1>2. /\ TestAccel.do = "if" /\ TestAccel.field = "report_accel" /\ TestAccel.value = TRUE
      /\ TestAccel.else = <<TestExt, post>>
  BY DEF TestAccel, IfState, SendMode, TestExt
<1>3. /\ TestExt.do = "if" /\ TestExt.field = "report_ext" /\ TestExt.value = TRUE /\ TestExt.else = <<>>
  BY DEF TestExt, IfState
<1>4. post.do = "post" /\ post.rpt.rpt = "mode"
  BY DEF Post, ReportMode
<1>5. Reader \in Threads /\ DOMAIN todo = Threads /\ state.report_accel = FALSE /\ state.report_ext = FALSE
  BY DEF Threads, Inv, TodoInv, Resetting
<1>6. ASSUME NEW p, Continue(Reader, p)
      PROVE  todo'[Reader] = p \o q /\ todo' = [todo EXCEPT ![Reader] = todo'[Reader]]
  BY <1>5, <1>6 DEF Continue
<1>7. todo[Reader] # <<>>
  BY OneAction
<1>8. ASSUME NEW s, Head(todo[Reader]) = s, s.do = "if", s.field \in {"report_accel", "report_ext"}, s.value = TRUE
      PROVE  Continue(Reader, s.else) /\ UNCHANGED <<built, handlers, jobs, futures, wire, state, count>>
  <2>1. TestState(Reader)
    BY <1>8, OneAction
  <2>2. state[s.field] # s.value
    BY <1>5, <1>8
  <2>. QED
    BY <1>8, <2>1, <2>2 DEF TestState
<1> HIDE DEF top, post
<1>9. CASE todo[Reader] = UpdateReportingMode
  <2>1. Head(todo[Reader]) = top /\ q = <<>>
    BY <1>1, <1>9
  <2>2. Continue(Reader, <<TestAccel>>) /\ UNCHANGED <<built, handlers, jobs, futures, wire, state, count>>
    BY <1>1, <1>8, <2>1
  <2>3. <<TestAccel>> \o <<>> = <<TestAccel>>
    OBVIOUS
  <2>4. todo'[Reader] = <<TestAccel>> /\ todo' = [todo EXCEPT ![Reader] = todo'[Reader]]
    BY <1>6, <2>1, <2>2, <2>3
  <2>. QED
    BY <2>2, <2>4 DEF Resetting
<1>10. CASE todo[Reader] = <<TestAccel>>
  <2>1. Head(todo[Reader]) = TestAccel /\ q = <<>>
    BY <1>10
  <2>2. Continue(Reader, <<TestExt, post>>) /\ UNCHANGED <<built, handlers, jobs, futures, wire, state, count>>
    BY <1>2, <1>8, <2>1
  <2>3. <<TestExt, post>> \o <<>> = <<TestExt, post>>
    OBVIOUS
  <2>4. todo'[Reader] = <<TestExt, post>> /\ todo' = [todo EXCEPT ![Reader] = todo'[Reader]]
    BY <1>6, <2>1, <2>2, <2>3
  <2>. QED
    BY <2>2, <2>4 DEF Resetting, post
<1>11. CASE todo[Reader] = <<TestExt, post>>
  <2>1. Head(todo[Reader]) = TestExt /\ q = <<post>>
    BY <1>11
  <2>2. Continue(Reader, <<>>) /\ UNCHANGED <<built, handlers, jobs, futures, wire, state, count>>
    BY <1>3, <1>8, <2>1
  <2>3. <<>> \o <<post>> = <<post>>
    OBVIOUS
  <2>4. todo'[Reader] = <<post>> /\ todo' = [todo EXCEPT ![Reader] = todo'[Reader]]
    BY <1>6, <2>1, <2>2, <2>3
  <2>. QED
    BY <2>2, <2>4 DEF Resetting, post
<1>12. CASE todo[Reader] = <<post>>
  <2>1. Head(todo[Reader]) = post /\ q = <<>>
    BY <1>12
  <2>2. ScheduleJob(Reader)
    BY <1>4, <2>1, OneAction
  <2>3. /\ Continue(Reader, <<>>) /\ jobs' = Append(jobs, post.rpt)
        /\ UNCHANGED <<built, handlers, futures, wire, state, count>>
    BY <2>1, <2>2 DEF ScheduleJob
  <2>4. todo'[Reader] = <<>> \o <<>> /\ todo' = [todo EXCEPT ![Reader] = todo'[Reader]]
    BY <1>6, <2>1, <2>3
  <2>5. todo'[Reader] = <<>>
    BY <2>4
  <2>. QED
    BY <1>4, <2>3, <2>4, <2>5 DEF Resetting
<1>. QED
  BY <1>7, <1>9, <1>10, <1>11, <1>12 DEF Resetting, post

\* The reader offers a report while the constructor waits for its answers.
LEMMA OfferedToConstructor ==
  ASSUME Inv, Resetting, Constructing, Dispatch
  PROVE  Resetting' /\ Constructing' /\ UNCHANGED <<built, count>> /\ \A t \in Callers : todo'[t] = todo[t]
<1> DEFINE H == Others(nodes) \cup Keepers
           r == Head(wire)
<1>1. /\ wire \in Seq(InputReports) /\ handlers \in Seq(H) /\ nodes \in Nat /\ DOMAIN todo = Threads
      /\ Reader \in Threads /\ Reader \notin Callers /\ Callers \subseteq Threads /\ Owner \in Callers
  BY ThreadsAssumption DEF Inv, WireInv, ListInv, TodoInv, Threads
<1>2. /\ wire # <<>> /\ wire' = Tail(wire) /\ UNCHANGED <<built, jobs, count>> /\ todo[Reader] = <<>>
      /\ todo' = todo \/ todo' = [todo EXCEPT ![Reader] = UpdateReportingMode]
  BY DEF Dispatch, HandleUnhandled, HandleStatus, HandleData, HandleReadReply, HandleAck, TakenBy, Reaches, LockFree
<1>3. (\A t \in Callers : todo'[t] = todo[t]) /\ todo'[Reader] \in {<<>>, UpdateReportingMode}
  BY <1>1, <1>2
<1>4. todo'[Owner] = todo[Owner]
  BY <1>1, <1>3
<1>5. state'.report_accel = FALSE /\ state'.report_ext = FALSE /\ state'.leds = 0
  <2>1. \/ UNCHANGED state
        \/ \E a, b : state' = [state EXCEPT !.present_ext = a, !.ext_mode = b]
    BY DEF Dispatch, HandleUnhandled, HandleStatus, HandleData, HandleReadReply, HandleAck
  <2>2. state \in [leds : {0} \cup Leds, present_ext : BOOLEAN, ext_mode : {0, 85}, data_iter : 0 .. nodes,
                report_button : BOOLEAN, report_accel : BOOLEAN, report_ir : BOOLEAN,
                report_gyro : BOOLEAN, report_ext : BOOLEAN]
    BY DEF Inv, StateInv
  <2>. QED
    BY <2>1, <2>2 DEF Resetting
<1>6. Resetting'
  BY <1>3, <1>5 DEF Resetting
<1> HIDE DEF H
<1>7. /\ DOMAIN wire = 1 .. Len(wire) /\ Len(wire) \in Nat
      /\ r = wire[1] /\ 1 \in DOMAIN wire
      /\ DOMAIN wire' = 1 .. Len(wire) - 1
      /\ \A j \in DOMAIN wire' : j + 1 \in DOMAIN wire /\ wire'[j] = wire[j + 1]
  BY <1>1, <1>2, Queues
<1>8. DOMAIN handlers = 1 .. Len(handlers) /\ Len(handlers) \in Nat
  BY <1>1, Queues
<1>9. NoReads => NoReads'
  BY <1>2, <1>7 DEF NoReads
<1>10. StatusFirst => r.rpt # "read"
  <2>1. ASSUME NEW i \in DOMAIN wire, wire[i].rpt = "status", \A j \in DOMAIN wire : j < i => wire[j].rpt # "read"
        PROVE  r.rpt # "read"
    <3>1. CASE i = 1
      BY <1>7, <2>1, <3>1
    <3>2. CASE i # 1
      <4>1. 1 < i
        BY <1>7, <3>2
      <4>. QED
        BY <1>7, <2>1, <4>1
    <3>. QED
      BY <3>1, <3>2
  <2>. QED
    BY <1>7, <2>1 DEF StatusFirst
<1>11. StatusFirst /\ r.rpt # "status" => StatusFirst'
  <2>1. ASSUME NEW i \in DOMAIN wire, wire[i].rpt = "status", \A j \in DOMAIN wire : j < i => wire[j].rpt # "read",
               r.rpt # "status"
        PROVE  StatusFirst'
    <3> DEFINE k == i - 1
    <3>1. i # 1
      BY <1>7, <2>1
    <3>2. k \in DOMAIN wire' /\ k + 1 = i
      BY <1>7, <3>1
    <3>3. wire'[k].rpt = "status"
      BY <1>7, <2>1, <3>2
    <3> HIDE DEF k
    <3>4. \A j \in DOMAIN wire' : j < k => j + 1 \in DOMAIN wire /\ j + 1 < i
      BY <1>7, <3>2
    <3>5. \A j \in DOMAIN wire' : j < k => wire'[j].rpt # "read"
      BY <1>7, <2>1, <3>4
    <3>. QED
      BY <3>2, <3>3, <3>5 DEF StatusFirst
  <2>2. ASSUME \A j \in DOMAIN wire : wire[j].rpt # "read",
               \E i \in DOMAIN jobs : jobs[i].rpt = "status" /\ \A j \in DOMAIN jobs : j < i => jobs[j].rpt # "read"
        PROVE  StatusFirst'
    <3>1. \A j \in DOMAIN wire' : wire'[j].rpt # "read"
      BY <1>7, <2>2
    <3>. QED
      BY <1>2, <2>2, <3>1 DEF StatusFirst
  <2>. QED
    BY <2>1, <2>2 DEF StatusFirst
<1>12. AtMostStatus => AtMostBoth
  BY DEF AtMostStatus, AtMostBoth
<1>13. ASSUME UNCHANGED <<handlers, futures>>, StatusDue => StatusDue' PROVE Constructing'
  BY <1>4, <1>9, <1>13 DEF Constructing, AtMostStatus, AtMostBoth
<1>14. ASSUME HandleUnhandled PROVE Constructing'
  <2>1. UNCHANGED <<handlers, futures>>
    BY <1>14 DEF HandleUnhandled
  <2>2. ASSUME StatusDue, NEW i \in DOMAIN handlers', handlers'[i].kind = "status" PROVE StatusFirst'
    <3>1. i \in 1 .. (Len(handlers) + 1) - 1
      BY <1>8, <2>1, <2>2
    <3>2. ~Takes(handlers[i], r)
      BY <1>14, <3>1 DEF HandleUnhandled, Reaches
    <3>3. r.rpt # "status"
      BY <2>1, <2>2, <3>2 DEF Takes
    <3>. QED
      BY <1>11, <2>1, <2>2, <3>3 DEF StatusDue
  <2>3. StatusDue => StatusDue'
    BY <2>2 DEF StatusDue
  <2>. QED
    BY <1>13, <2>1, <2>3
<1>15. ASSUME NEW i \in DOMAIN handlers, HandleStatus(i) PROVE Constructing'
  <2>1. /\ handlers[i].kind = "status" /\ handlers' = RemoveAt(handlers, i) /\ UNCHANGED futures
        /\ i \in 1 .. Len(handlers) /\ handlers # <<>>
    BY <1>8, <1>15 DEF HandleStatus, TakenBy
  <2>2. AtMostBoth
    BY <1>12, <2>1 DEF Constructing
  <2>3. i = 1
    BY <2>1, <2>2 DEF AtMostBoth
  <2>4. /\ handlers' \in Seq(H) /\ Len(handlers') = Len(handlers) - 1
        /\ \A j \in 1 .. Len(handlers) - 1 : handlers'[j] = handlers[IF j < i THEN j ELSE j + 1]
    BY <1>1, <2>1, Removal
  <2>5. DOMAIN handlers' = 1 .. Len(handlers) - 1
    BY <2>4
  <2>6. \A j \in DOMAIN handlers' : j + 1 \in DOMAIN handlers /\ j + 1 # 1 /\ handlers'[j] = handlers[j + 1]
    BY <1>8, <2>3, <2>4, <2>5
  <2>7. AtMostBoth' /\ StatusDue'
    BY <2>2, <2>6 DEF AtMostBoth, StatusDue
  <2>8. AtMostStatus => AtMostStatus'
    BY <2>6 DEF AtMostStatus
  <2>. QED
    BY <1>4, <1>9, <2>1, <2>7, <2>8 DEF Constructing
<1>16. ASSUME NEW i \in DOMAIN handlers, HandleData(i) \/ HandleAck(i) PROVE FALSE
  <2>1. handlers[i].kind \in {"data", "ack"} /\ handlers # <<>>
    BY <1>8, <1>16 DEF HandleData, HandleAck, TakenBy
  <2>2. AtMostBoth
    BY <1>12, <2>1 DEF Constructing
  <2>. QED
    BY <2>1, <2>2 DEF AtMostBoth
<1>17. ASSUME NEW i \in DOMAIN handlers, HandleReadReply(i) PROVE Constructing'
  <2>1. handlers[i].kind = "read" /\ r.rpt = "read" /\ handlers # <<>> /\ i \in 1 .. Len(handlers)
    BY <1>8, <1>17 DEF HandleReadReply, TakenBy, Takes
  <2>2. /\ todo[Owner] \in {Reading2, Reading3} /\ AtMostBoth /\ StatusDue
        /\ futures[1].state # "ready"
    <3>1. ~AtMostStatus
      BY <2>1 DEF AtMostStatus
    <3>. QED
      BY <2>1, <3>1 DEF Constructing
  <2>3. \A j \in DOMAIN handlers : handlers[j].kind = "read" /\ handlers[j].fut = 1
    BY <1>10, <2>1, <2>2 DEF AtMostBoth, StatusDue
  <2>4. \A j \in DOMAIN handlers : handlers[j] \in Keepers
    <3>1. ASSUME NEW j \in DOMAIN handlers PROVE handlers[j] \in Keepers
      <4>1. handlers[j] \in Others(nodes) \cup Keepers
        BY <1>1 DEF H
      <4>. QED
        BY <1>1, <2>3, <4>1, HandlerFields
    <3>. QED
      BY <3>1
  <2>5. \A j \in DOMAIN handlers : j = i
    BY <2>3, <2>4 DEF Inv, Apart
  <2>6. Len(handlers) = 1
    <3>1. 1 \in DOMAIN handlers /\ Len(handlers) \in DOMAIN handlers
      BY <1>8, <2>1
    <3>. QED
      BY <2>5, <3>1
  <2>7. CASE UNCHANGED <<handlers, futures>>
    <3>1. StatusDue'
      BY <2>3, <2>7 DEF StatusDue
    <3>. QED
      BY <1>13, <2>7, <3>1
  <2>8. CASE handlers' = RemoveAt(handlers, i)
    <3>1. handlers' \in Seq(H) /\ Len(handlers') = 0
      BY <1>1, <2>1, <2>6, <2>8, Removal
    <3>2. handlers' = <<>>
      BY <3>1
    <3>. QED
      BY <1>4, <2>2, <3>2 DEF Constructing, AtMostBoth, StatusDue
  <2>9. CASE /\ \E g : handlers' = [handlers EXCEPT ![i] = g] /\ g.kind = handlers[i].kind /\ g.fut = handlers[i].fut
             /\ UNCHANGED futures
    <3>1. PICK g : handlers' = [handlers EXCEPT ![i] = g] /\ g.kind = handlers[i].kind /\ g.fut = handlers[i].fut
      BY <2>9
    <3>2. DOMAIN handlers' = DOMAIN handlers /\ handlers'[i] = g
      BY <1>1, <3>1
    <3>3. \A j \in DOMAIN handlers' : handlers'[j].kind = "read" /\ handlers'[j].fut = 1
      BY <2>3, <2>5, <3>1, <3>2
    <3>. QED
      BY <1>4, <2>2, <2>9, <3>3 DEF Constructing, AtMostBoth, StatusDue
  <2>10. \/ UNCHANGED <<handlers, futures>>
         \/ handlers' = RemoveAt(handlers, i)
         \/ /\ \E g : handlers' = [handlers EXCEPT ![i] = g] /\ g.kind = handlers[i].kind /\ g.fut = handlers[i].fut
            /\ UNCHANGED futures
    <3> DEFINE h == handlers[i]
               amt == Amount(h, r)
               data == h.data \o SubSeq(r.data, 1, amt)
               g == [h EXCEPT !.addr = @ + amt, !.left = @ - amt, !.data = data]
    <3>1. h \in [kind : {"read"}, fut : Nat, addr : Nat, left : Nat \ {0}, data : Seq(Nat)]
      BY <1>1, <2>1, <2>4, HandlerFields
    <3>2. g.kind = h.kind /\ g.fut = h.fut
      BY <3>1
    <3>3. CASE /\ handlers' = [handlers EXCEPT ![i].addr = @ + amt, ![i].left = @ - amt, ![i].data = data]
               /\ UNCHANGED futures
      <4>1. handlers' = [handlers EXCEPT ![i] = g]
        BY <3>3
      <4> HIDE DEF g
      <4>. QED
        BY <3>2, <3>3, <4>1
    <3>. QED
      BY <1>17, <3>3 DEF HandleReadReply, Fulfil
  <2>. QED
    BY <2>7, <2>8, <2>9, <2>10
<1>. QED
  BY <1>2, <1>3, <1>6, <1>14, <1>15, <1>16, <1>17 DEF Dispatch

\* A report is posted at the end of the queue.
LEMMA PostedLast ==
  ASSUME Inv, NEW q, jobs' = Append(jobs, q), UNCHANGED wire
  PROVE  /\ StatusFirst => StatusFirst'
         /\ NoReads /\ q.rpt = "status" => StatusFirst'
         /\ NoReads /\ q.rpt # "read" => NoReads'
<1>1. /\ \A j \in DOMAIN jobs : j \in DOMAIN jobs' /\ jobs'[j] = jobs[j]
      /\ DOMAIN jobs' = 1 .. Len(jobs) + 1 /\ jobs'[Len(jobs) + 1] = q
      /\ DOMAIN jobs = 1 .. Len(jobs) /\ Len(jobs) \in Nat
  <2>1. jobs \in Seq(OutputReports)
    BY DEF Inv, WireInv
  <2>. QED
    BY <2>1, Queues
<1>2. ASSUME NEW i \in DOMAIN jobs, jobs[i].rpt = "status", \A j \in DOMAIN jobs : j < i => jobs[j].rpt # "read"
      PROVE  i \in DOMAIN jobs' /\ jobs'[i].rpt = "status" /\ \A j \in DOMAIN jobs' : j < i => jobs'[j].rpt # "read"
  <2>1. \A j \in DOMAIN jobs' : j < i => j \in DOMAIN jobs
    BY <1>1
  <2>. QED
    BY <1>1, <1>2, <2>1
<1>3. StatusFirst => StatusFirst'
  BY <1>2 DEF StatusFirst
<1>4. ASSUME NoReads, q.rpt = "status" PROVE StatusFirst'
  <2> DEFINE k == Len(jobs) + 1
  <2>1. k \in DOMAIN jobs' /\ jobs'[k].rpt = "status"
    BY <1>1, <1>4
  <2>2. \A j \in DOMAIN jobs' : j < k => j \in DOMAIN jobs
    BY <1>1
  <2> HIDE DEF k
  <2>3. \A j \in DOMAIN jobs' : j < k => jobs'[j].rpt # "read"
    BY <1>1, <1>4, <2>2 DEF NoReads
  <2>. QED
    BY <1>4, <2>1, <2>3 DEF StatusFirst, NoReads
<1>5. ASSUME NoReads, q.rpt # "read" PROVE NoReads'
  <2>1. \A j \in DOMAIN jobs' : j \in DOMAIN jobs \/ jobs'[j] = q
    BY <1>1
  <2>. QED
    BY <1>1, <1>5, <2>1 DEF NoReads
<1>. QED
  BY <1>3, <1>4, <1>5

\* The constructor waits while others act.
LEMMA ConstructorWaits ==
  ASSUME Constructing, todo'[Owner] = todo[Owner], UNCHANGED <<handlers, futures>>,
         NoReads => NoReads', StatusFirst => StatusFirst'
  PROVE  Constructing'
BY DEF Constructing, AtMostStatus, AtMostBoth, StatusDue

\* The application thread takes a step of the constructor.
LEMMA OwnerConstructs ==
  ASSUME Inv, Resetting, Constructing, Step(Owner)
  PROVE  /\ UNCHANGED <<built, count>> /\ \A t \in Callers \ {Owner} : todo'[t] = todo[t]
         /\ Resetting'
         /\ Constructing' \/ (todo'[Owner] = Construct5 /\ handlers' = <<ButtonHandler>>)
<1> DEFINE s == Head(todo[Owner])
<1>1. /\ Owner \in Threads /\ Reader \in Threads /\ Owner # Reader /\ DOMAIN todo = Threads
      /\ jobs \in Seq(OutputReports) /\ wire \in Seq(InputReports)
  BY ThreadsAssumption DEF Threads, Inv, TodoInv, WireInv
<1>2. ASSUME NEW p, Continue(Owner, p)
      PROVE  /\ todo'[Owner] = p \o Tail(todo[Owner]) /\ todo'[Reader] = todo[Reader]
             /\ \A t \in Callers \ {Owner} : todo'[t] = todo[t]
  BY <1>1, <1>2 DEF Continue, Threads
<1>3. /\ \A h : Add(h).do = "add" /\ Add(h).handler = h
      /\ \A q : Post(q).do = "post" /\ Post(q).rpt = q
      /\ \A b, w : Read(b, w).do = "read" /\ Read(b, w).block = b /\ Read(b, w).wait = w
      /\ \A f : Await(f).do = "await" /\ Await(f).fut = f
      /\ StatusRequest.rpt = "status" /\ StatusHandler.kind = "status" /\ ButtonHandler.kind = "button"
      /\ \A b : ReadBlock(b).rpt = "read"
      /\ \A f, b : ReadHandler(f, b).kind = "read" /\ ReadHandler(f, b).fut = f
  BY DEF Add, Post, Read, Await, StatusRequest, StatusHandler, ButtonHandler, ReadBlock, ReadHandler
\* A step that puts a handler in the list, one that posts a report.
<1>4. ASSUME NEW h, s = Add(h)
      PROVE  /\ handlers' = Append(handlers, h) /\ Continue(Owner, <<>>)
             /\ UNCHANGED <<built, jobs, wire, futures, state, count>>
  BY <1>3, <1>4, OneAction, HandlerInserted
<1>5. ASSUME NEW q, s = Post(q)
      PROVE  /\ jobs' = Append(jobs, q) /\ Continue(Owner, <<>>)
             /\ UNCHANGED <<built, handlers, wire, futures, state, count>>
  <2>1. ScheduleJob(Owner)
    BY <1>3, <1>5, OneAction
  <2>. QED
    BY <1>3, <1>5, <2>1 DEF ScheduleJob
<1>6. ASSUME NEW q, jobs' = Append(jobs, q), UNCHANGED wire
      PROVE  /\ StatusFirst => StatusFirst'
             /\ NoReads /\ q.rpt = "status" => StatusFirst'
  BY <1>6, PostedLast
<1>7. ASSUME UNCHANGED state, todo'[Reader] = todo[Reader] PROVE Resetting'
  BY <1>7 DEF Resetting
<1> DEFINE Goal == /\ UNCHANGED <<built, count>> /\ \A t \in Callers \ {Owner} : todo'[t] = todo[t]
                   /\ Resetting'
                   /\ Constructing' \/ (todo'[Owner] = Construct5 /\ handlers' = <<ButtonHandler>>)
<1>15. ASSUME NEW p, Continue(Owner, p), UNCHANGED built, UNCHANGED count, UNCHANGED state,
              Constructing' \/ (todo'[Owner] = Construct5 /\ handlers' = <<ButtonHandler>>)
       PROVE  Goal
  <2>1. todo'[Reader] = todo[Reader] /\ \A t \in Callers \ {Owner} : todo'[t] = todo[t]
    BY <1>2, <1>15
  <2>2. Resetting'
    BY <1>7, <1>15, <2>1
  <2>. QED
    BY <1>15, <2>1, <2>2
<1> HIDE DEF Goal
<1>8. ASSUME todo[Owner] = Construct /\ handlers = <<>> /\ NoReads /\ futures = <<>> PROVE Goal
  <2>1. /\ handlers' = Append(handlers, StatusHandler) /\ Continue(Owner, <<>>)
        /\ UNCHANGED <<built, jobs, wire, futures, state, count>>
    BY <1>4, <1>8, ConstructSteps
  <2>2. todo'[Owner] = Construct2
    BY <1>2, <1>8, <2>1, ConstructSteps
  <2>3. AtMostStatus'
    BY <1>3, <1>8, <2>1 DEF AtMostStatus
  <2>4. NoReads'
    BY <1>8, <2>1 DEF NoReads
  <2>5. Constructing'
    BY <1>8, <2>1, <2>2, <2>3, <2>4 DEF Constructing
  <2>. QED
    BY <1>15, <2>1, <2>5
<1>9. ASSUME todo[Owner] = Construct2 /\ AtMostStatus /\ NoReads /\ futures = <<>> PROVE Goal
  <2>1. /\ jobs' = Append(jobs, StatusRequest) /\ Continue(Owner, <<>>)
        /\ UNCHANGED <<built, handlers, wire, futures, state, count>>
    BY <1>5, <1>9, ConstructSteps
  <2>2. todo'[Owner] = Construct3
    BY <1>2, <1>9, <2>1, ConstructSteps
  <2>3. StatusFirst'
    BY <1>3, <1>6, <1>9, <2>1
  <2>4. AtMostStatus' /\ StatusDue'
    BY <1>9, <2>1, <2>3 DEF AtMostStatus, StatusDue
  <2>5. Constructing'
    BY <1>9, <2>1, <2>2, <2>4 DEF Constructing
  <2>. QED
    BY <1>15, <2>1, <2>5
<1>10. ASSUME todo[Owner] = Construct3 /\ AtMostStatus /\ StatusDue /\ futures = <<>> PROVE Goal
  <2>0. /\ s = Read(Calibration, TRUE) /\ s.do = "read"
        /\ s.block = Calibration /\ s.wait = TRUE
    BY <1>10, ConstructSteps DEF Read
  <2>1. BeginRead(Owner) /\ Len(futures) + 1 = 1
    BY <1>10, <2>0, OneAction
  <2>2. /\ Continue(Owner, <<Add(ReadHandler(1, Calibration)), Post(ReadBlock(Calibration))>> \o Waiting(1, TRUE))
        /\ UNCHANGED <<built, handlers, jobs, wire, state, count>>
    BY <2>0, <2>1 DEF BeginRead
  <2>3. todo'[Owner] = Reading1
    BY <1>2, <1>10, <2>2, ConstructSteps
  <2>4. AtMostStatus' /\ StatusDue'
    BY <1>10, <2>2 DEF AtMostStatus, StatusDue, StatusFirst
  <2>5. Constructing'
    BY <2>3, <2>4 DEF Constructing
  <2>. QED
    BY <1>15, <2>2, <2>5
<1>11. ASSUME todo[Owner] = Reading1 /\ AtMostStatus /\ StatusDue PROVE Goal
  <2> DEFINE h == ReadHandler(1, Calibration)
             H == Others(nodes) \cup Keepers
  <2>1. /\ handlers' = Append(handlers, h) /\ Continue(Owner, <<>>)
        /\ UNCHANGED <<built, jobs, wire, futures, state, count>>
    BY <1>4, <1>11, ConstructSteps
  <2>2. todo'[Owner] = Reading2
    BY <1>2, <1>11, <2>1, ConstructSteps
  <2>3. futures[1].state = "pending"
    <3>1. Adds(todo[Owner]) /\ Added(todo[Owner]) = h
      <4>1. h \in Keepers
        <5>1. Calibration.addr \in Nat /\ Calibration.len \in Nat \ {0} /\ 1 \in Nat /\ <<>> \in Seq(Nat)
          BY BlockFacts DEF ReadBlocks
        <5>. QED
          BY <5>1 DEF ReadHandler, Keepers
      <4>2. Add(h) \in FirstSteps
        BY <4>1 DEF Add, FirstSteps
      <4>. QED
        <5>1. todo[Owner] # <<>> /\ Head(todo[Owner]) = Add(h) /\ Add(h).handler = h
          BY <1>3, <1>11, ConstructSteps
        <5>. QED
          BY <4>2, <5>1 DEF Adds, Added
    <3>. QED
      BY <1>1, <1>3, <3>1 DEF Inv, FutureInv, Serves
  <2>4. AtMostBoth' /\ StatusDue'
    <3>1. handlers \in Seq(H)
      BY DEF Inv, ListInv
    <3> HIDE DEF h, H
    <3>2. /\ \A j \in DOMAIN handlers : handlers'[j] = handlers[j]
          /\ DOMAIN handlers' = 1 .. Len(handlers) + 1 /\ handlers'[Len(handlers) + 1] = h
          /\ DOMAIN handlers = 1 .. Len(handlers) /\ Len(handlers) \in Nat
      BY <2>1, <3>1, Queues
    <3>3. \A j \in DOMAIN handlers' : j \in DOMAIN handlers \/ handlers'[j] = h
      BY <3>2
    <3>4. h.kind = "read" /\ h.fut = 1
      BY <1>3 DEF h
    <3>5. AtMostBoth'
      BY <1>11, <3>2, <3>3, <3>4 DEF AtMostStatus, AtMostBoth
    <3>6. StatusDue'
      BY <1>11, <2>1, <3>2, <3>3, <3>4 DEF StatusDue, StatusFirst
    <3>. QED
      BY <3>5, <3>6
  <2>5. Constructing'
    BY <2>1, <2>2, <2>3, <2>4 DEF Constructing
  <2>. QED
    BY <1>15, <2>1, <2>5
<1>12. ASSUME /\ todo[Owner] = Reading2 /\ AtMostBoth /\ StatusDue
              /\ futures[1].state = "ready" => handlers = <<>>
       PROVE  Goal
  <2>1. /\ jobs' = Append(jobs, ReadBlock(Calibration)) /\ Continue(Owner, <<>>)
        /\ UNCHANGED <<built, handlers, wire, futures, state, count>>
    BY <1>5, <1>12, ConstructSteps
  <2>2. todo'[Owner] = Reading3
    BY <1>2, <1>12, <2>1, ConstructSteps
  <2>3. StatusFirst => StatusFirst'
    BY <1>6, <2>1
  <2>4. AtMostBoth' /\ StatusDue'
    BY <1>12, <2>1, <2>3 DEF AtMostBoth, StatusDue
  <2>5. Constructing'
    BY <1>12, <2>1, <2>2, <2>4 DEF Constructing
  <2>. QED
    BY <1>15, <2>1, <2>5
<1>13. ASSUME /\ todo[Owner] = Reading3 /\ AtMostBoth /\ StatusDue
              /\ futures[1].state = "ready" => handlers = <<>>
       PROVE  Goal
  <2>0. s = Await(1) /\ s.do = "await" /\ s.fut = 1
    BY <1>3, <1>13, ConstructSteps
  <2>1. AwaitFuture(Owner)
    BY <2>0, OneAction
  <2>2. /\ futures[1].state = "ready" /\ Continue(Owner, <<>>)
        /\ UNCHANGED <<built, handlers, jobs, wire, futures, state, count>>
    BY <2>0, <2>1 DEF AwaitFuture
  <2>3. todo'[Owner] = Construct4
    BY <1>2, <1>13, <2>2, ConstructSteps
  <2>5. Constructing'
    BY <1>13, <2>2, <2>3 DEF Constructing
  <2>. QED
    BY <1>15, <2>2, <2>5
<1>14. ASSUME todo[Owner] = Construct4 /\ handlers = <<>> PROVE Goal
  <2>1. /\ handlers' = Append(handlers, ButtonHandler) /\ Continue(Owner, <<>>)
        /\ UNCHANGED <<built, jobs, wire, futures, state, count>>
    BY <1>4, <1>14, ConstructSteps
  <2>2. todo'[Owner] = Construct5
    BY <1>2, <1>14, <2>1, ConstructSteps
  <2>3. handlers' = <<ButtonHandler>>
    BY <1>14, <2>1
  <2>. QED
    BY <1>15, <2>1, <2>2, <2>3
<1>. QED
  BY <1>8, <1>9, <1>10, <1>11, <1>12, <1>13, <1>14 DEF Constructing, Goal

-----------------------------------------------------------------------------
(* After the constructor. *)

\* The first handler stays the first: the button handler throws nothing, and
\* the iterator that remove_report_handler() erases from refers to a data report
\* handler or to the end.
LEMMA ButtonStaysFirst == Inv /\ ButtonFirst /\ [Next]_vars => ButtonFirst'
<1> SUFFICES ASSUME Inv, ButtonFirst, [Next]_vars PROVE ButtonFirst'
  OBVIOUS
<1> DEFINE H == Others(nodes) \cup Keepers
<1>1. /\ handlers \in Seq(H) /\ handlers # <<>> /\ handlers[1] = ButtonHandler
      /\ ButtonHandler.kind = "button"
  BY DEF Inv, ListInv, ButtonFirst, ButtonHandler
<1> HIDE DEF H
<1>2. DOMAIN handlers = 1 .. Len(handlers) /\ Len(handlers) \in Nat /\ 1 \in DOMAIN handlers
  BY <1>1, Queues
<1>3. ASSUME UNCHANGED handlers PROVE ButtonFirst'
  BY <1>3 DEF ButtonFirst
<1>4. ASSUME NEW h, handlers' = Append(handlers, h) PROVE ButtonFirst'
  <2>1. 1 \in DOMAIN handlers' /\ handlers'[1] = handlers[1]
    BY <1>1, <1>2, <1>4, Queues
  <2>2. handlers' # <<>>
    BY <2>1
  <2>. QED
    BY <1>1, <2>1, <2>2 DEF ButtonFirst
<1>5. ASSUME NEW i \in DOMAIN handlers, handlers[i].kind # "button",
             handlers' = RemoveAt(handlers, i) \/ \E g : handlers' = [handlers EXCEPT ![i] = g]
      PROVE  ButtonFirst'
  <2>1. i \in 2 .. Len(handlers)
    BY <1>1, <1>2, <1>5
  <2>2. CASE handlers' = RemoveAt(handlers, i)
    <3>1. /\ handlers' \in Seq(H) /\ Len(handlers') = Len(handlers) - 1
          /\ \A j \in 1 .. Len(handlers) - 1 : handlers'[j] = handlers[IF j < i THEN j ELSE j + 1]
      <4>1. i \in 1 .. Len(handlers)
        BY <1>2, <2>1
      <4>. QED
        BY <1>1, <2>2, <4>1, Removal
    <3>2. handlers'[1] = handlers[1] /\ handlers' # <<>>
      BY <1>2, <2>1, <3>1
    <3>. QED
      BY <1>1, <3>2 DEF ButtonFirst
  <2>3. CASE \E g : handlers' = [handlers EXCEPT ![i] = g]
    <3>1. DOMAIN handlers' = DOMAIN handlers /\ handlers'[1] = handlers[1]
      BY <1>1, <1>2, <2>1, <2>3
    <3>2. handlers' # <<>>
      BY <1>2, <3>1
    <3>. QED
      BY <1>1, <3>1, <3>2 DEF ButtonFirst
  <2>. QED
    BY <1>5, <2>2, <2>3
<1>6. ASSUME NEW t \in Threads, RemoveReportHandler(t) PROVE ButtonFirst'
  <2>1. PICK i \in 1 .. Len(handlers) + 1 : IsIterator(i) /\ handlers' = SubSeq(handlers, 1, i - 1)
    BY <1>6 DEF RemoveReportHandler
  <2>2. i \in 2 .. Len(handlers) + 1
    <3>1. i # 1
      BY <1>1, <1>2, <2>1 DEF IsIterator
    <3>. QED
      BY <1>2, <3>1
  <2>3. handlers' # <<>> /\ handlers'[1] = handlers[1]
    BY <1>1, <1>2, <2>1, <2>2
  <2>. QED
    BY <1>1, <2>3 DEF ButtonFirst
<1>7. ASSUME NEW t \in Threads, Step(t) PROVE ButtonFirst'
  <2>1. CASE AddReportHandler(t)
    BY <1>4, <2>1 DEF AddReportHandler
  <2>. QED
    BY <1>3, <1>6, <1>7, <2>1
       DEF Step, ScheduleJob, StoreState, TestState, BeginRead, BeginWrite, AwaitFuture, ReturnObject
<1>8. ASSUME NEW i \in DOMAIN handlers, HandleStatus(i) \/ HandleData(i) \/ HandleReadReply(i) \/ HandleAck(i)
      PROVE  ButtonFirst'
  <2>1. handlers[i].kind # "button"
    BY <1>8 DEF HandleStatus, HandleData, HandleReadReply, HandleAck, TakenBy
  <2>2. \/ UNCHANGED handlers
        \/ handlers' = RemoveAt(handlers, i)
        \/ \E g : handlers' = [handlers EXCEPT ![i] = g]
    BY <1>8 DEF HandleStatus, HandleData, HandleReadReply, HandleAck, Fulfil
  <2>. QED
    BY <1>3, <1>5, <2>1, <2>2
<1>9. HandleUnhandled \/ SendJob \/ PressButton \/ PlugExtension \/ Rest \/ UNCHANGED vars => UNCHANGED handlers
  BY DEF HandleUnhandled, SendJob, SendStatusRequest, SendLeds, SendReportMode, SendReadData, SendWriteData,
         LoseReport, Send, PressButton, PlugExtension, Rest, vars
<1>10. ASSUME NEW t \in Callers,
              SetLeds(t) \/ SetReport(t) \/ ReadData(t) \/ WriteData(t) \/ GetPresentGyro(t) \/ GetExtId(t)
       PROVE  UNCHANGED handlers
  BY <1>10 DEF SetLeds, SetReport, ReadData, WriteData, GetPresentGyro, GetExtId, Call
<1>. QED
  BY <1>3, <1>7, <1>8, <1>9, <1>10 DEF Next, Dispatch

\* No action but ReturnObject touches built, and only Reader and Owner take steps
\* before the constructor has returned.
LEMMA BeforeReturn ==
  ASSUME MaxLosses = 0, Inv, FirstInv, [Next]_vars
  PROVE  /\ count' \in [calls : Nat, events : Nat, losses : {0}]
         /\ built' = built \/ built' = TRUE
         /\ ~built => \/ Step(Owner)
                      \/ Step(Reader)
                      \/ (SendJob /\ ~LoseReport) \/ PressButton \/ PlugExtension
                      \/ Dispatch
                      \/ UNCHANGED vars
<1>1. count \in [calls : Nat, events : Nat, losses : {0}]
  BY DEF FirstInv
<1>2. ~LoseReport
  BY <1>1 DEF LoseReport
<1>3. SendJob => UNCHANGED <<built, count>>
  BY <1>2 DEF SendJob, SendStatusRequest, SendLeds, SendReportMode, SendReadData, SendWriteData, Send
<1>4. ASSUME NEW t, NEW steps, Call(t, steps) PROVE built /\ UNCHANGED built /\ count' = [count EXCEPT !.calls = @ + 1]
  BY <1>4 DEF Call
<1>5. ASSUME NEW t \in Callers,
             SetLeds(t) \/ SetReport(t) \/ ReadData(t) \/ WriteData(t) \/ GetPresentGyro(t) \/ GetExtId(t)
      PROVE  built /\ UNCHANGED built /\ count' = [count EXCEPT !.calls = @ + 1]
  BY <1>4, <1>5 DEF SetLeds, SetReport, ReadData, WriteData, GetPresentGyro, GetExtId
<1>6. PressButton \/ PlugExtension => UNCHANGED built /\ count' = [count EXCEPT !.events = @ + 1]
  BY DEF PressButton, PlugExtension
<1>7. Dispatch => UNCHANGED <<built, count>>
  BY DEF Dispatch, HandleUnhandled, HandleStatus, HandleData, HandleReadReply, HandleAck, TakenBy, Reaches
<1>8. ASSUME NEW t, Step(t) PROVE UNCHANGED count /\ (built' = built \/ built' = TRUE)
  BY <1>8 DEF Step, AddReportHandler, RemoveReportHandler, ScheduleJob, StoreState, TestState, BeginRead, BeginWrite,
              AwaitFuture, ReturnObject
<1>9. Rest => UNCHANGED vars
  BY DEF Rest
<1>10. UNCHANGED vars => UNCHANGED <<built, count>>
  BY DEF vars
<1>11. ASSUME NEW t \in Callers \ {Owner}, Step(t) PROVE built
  <2>1. todo[t] # <<>>
    BY <1>11, OneAction
  <2>. QED
    BY <2>1 DEF FirstInv
<1>12. \/ UNCHANGED count
       \/ count' = [count EXCEPT !.calls = @ + 1]
       \/ count' = [count EXCEPT !.events = @ + 1]
  BY <1>3, <1>5, <1>6, <1>7, <1>8, <1>9, <1>10 DEF Next
<1>13. count' \in [calls : Nat, events : Nat, losses : {0}]
  BY <1>1, <1>12
<1>14. built' = built \/ built' = TRUE
  BY <1>3, <1>5, <1>6, <1>7, <1>8, <1>9, <1>10 DEF Next
<1>15. ASSUME ~built
       PROVE  \/ Step(Owner)
              \/ Step(Reader)
              \/ (SendJob /\ ~LoseReport) \/ PressButton \/ PlugExtension
              \/ Dispatch
              \/ UNCHANGED vars
  BY <1>2, <1>5, <1>9, <1>11, <1>15 DEF Next, Threads
<1>. QED
  BY <1>13, <1>14, <1>15

\* What the others leave of an application thread's call, and of the constructor.
LEMMA OthersLeave ==
  ASSUME Inv, FirstInv, ~built,
         Step(Reader) \/ (SendJob /\ ~LoseReport) \/ PressButton \/ PlugExtension \/ Dispatch \/ UNCHANGED vars
  PROVE  \A t \in Callers : todo'[t] = todo[t]
<1>1. DOMAIN todo = Threads /\ Callers \subseteq Threads /\ Reader \notin Callers
  BY ThreadsAssumption DEF Inv, TodoInv, Threads
<1>2. ASSUME Step(Reader) PROVE \E p : Continue(Reader, p)
  BY <1>2 DEF Step, AddReportHandler, RemoveReportHandler, ScheduleJob, StoreState, TestState, BeginRead, BeginWrite,
              AwaitFuture, ReturnObject
<1>3. Step(Reader) => \A t \in Callers : todo'[t] = todo[t]
  BY <1>1, <1>2 DEF Continue
<1>4. (SendJob /\ ~LoseReport) \/ PressButton \/ PlugExtension \/ UNCHANGED vars => UNCHANGED todo
  BY RemoteAnswers, UserActs DEF vars
<1>5. Dispatch => todo' = todo \/ todo' = [todo EXCEPT ![Reader] = UpdateReportingMode]
  BY DEF Dispatch, HandleUnhandled, HandleStatus, HandleData, HandleReadReply, HandleAck
<1>6. Dispatch => \A t \in Callers : todo'[t] = todo[t]
  BY <1>1, <1>5
<1>. QED
  BY <1>3, <1>4, <1>6

\* The constructor goes on, whoever acts.
LEMMA ConstructorStep ==
  ASSUME MaxLosses = 0, Inv, FirstInv, [Next]_vars, ~built, Resetting, Constructing
  PROVE  /\ UNCHANGED built /\ \A t \in Callers \ {Owner} : todo'[t] = todo[t]
         /\ Resetting'
         /\ Constructing' \/ (todo'[Owner] = Construct5 /\ handlers' = <<ButtonHandler>>)
<1>1. Owner \in Callers
  BY ThreadsAssumption
<1>2. CASE Step(Owner)
  BY <1>2, OwnerConstructs
<1>3. CASE Step(Reader)
  <2>1. /\ Resetting' /\ UNCHANGED <<built, handlers, futures, wire>>
        /\ jobs' = jobs \/ \E r : jobs' = Append(jobs, r) /\ r.rpt = "mode"
    BY <1>3, ReaderResets
  <2>2. \A t \in Callers : todo'[t] = todo[t]
    BY <1>3, OthersLeave
  <2>3. (NoReads => NoReads') /\ (StatusFirst => StatusFirst')
    <3>1. CASE jobs' = jobs
      BY <2>1, <3>1 DEF NoReads, StatusFirst
    <3>2. CASE \E r : jobs' = Append(jobs, r) /\ r.rpt = "mode"
      BY <2>1, <3>2, PostedLast
    <3>. QED
      BY <2>1, <3>1, <3>2
  <2>4. Constructing'
    BY <1>1, <2>1, <2>2, <2>3, ConstructorWaits
  <2>. QED
    BY <2>1, <2>2, <2>4
<1>4. CASE (SendJob /\ ~LoseReport) \/ PressButton \/ PlugExtension
  <2>1. UNCHANGED <<todo, built, handlers, futures, state>>
    BY <1>4, RemoteAnswers, UserActs
  <2>2. (NoReads => NoReads') /\ (StatusFirst => StatusFirst')
    BY <1>4, OrderKept
  <2>3. Constructing'
    BY <2>1, <2>2, ConstructorWaits
  <2>4. Resetting'
    BY <2>1 DEF Resetting
  <2>. QED
    BY <2>1, <2>3, <2>4
<1>5. CASE Dispatch
  BY <1>5, OfferedToConstructor
<1>6. CASE UNCHANGED vars
  <2>1. UNCHANGED <<todo, built, handlers, futures, state, jobs, wire>>
    BY <1>6 DEF vars
  <2>2. (NoReads => NoReads') /\ (StatusFirst => StatusFirst')
    BY <2>1 DEF NoReads, StatusFirst
  <2>3. Constructing'
    BY <2>1, <2>2, ConstructorWaits
  <2>4. Resetting'
    BY <2>1 DEF Resetting
  <2>. QED
    BY <2>1, <2>3, <2>4
<1>. QED
  BY <1>2, <1>3, <1>4, <1>5, <1>6, BeforeReturn

\* The end of the constructor.
LEMMA EndOfConstructor ==
  ASSUME Inv, Step(Owner), todo[Owner] \in {Construct5, Construct6, Construct7}
  PROVE  \/ built' = TRUE
         \/ /\ todo'[Owner] \in {Construct5, Construct6, Construct7}
            /\ \A t \in Callers \ {Owner} : todo'[t] = todo[t]
<1>1. DOMAIN todo = Threads /\ Callers \subseteq Threads /\ Owner \in Callers
  BY ThreadsAssumption DEF Inv, TodoInv, Threads
<1>2. ASSUME NEW p, Continue(Owner, p)
      PROVE  /\ todo'[Owner] = p \o Tail(todo[Owner])
             /\ \A t \in Callers \ {Owner} : todo'[t] = todo[t]
  BY <1>1, <1>2 DEF Continue
<1>3. CASE todo[Owner] = Construct5
  <2>1. Head(todo[Owner]).do = "store" /\ <<>> \o Tail(todo[Owner]) = Construct6
    BY <1>3, ConstructSteps DEF Store
  <2>2. Continue(Owner, <<>>)
    BY <2>1, OneAction DEF StoreState
  <2>. QED
    BY <1>2, <2>1, <2>2
<1>4. CASE todo[Owner] = Construct6
  <2>1. Head(todo[Owner]).do = "post" /\ <<>> \o Tail(todo[Owner]) = Construct7
    BY <1>4, ConstructSteps DEF Post
  <2>2. Continue(Owner, <<>>)
    BY <2>1, OneAction DEF ScheduleJob
  <2>. QED
    BY <1>2, <2>1, <2>2
<1>5. CASE todo[Owner] = Construct7
  <2>1. Head(todo[Owner]).do = "return"
    BY <1>5, ConstructSteps DEF Return
  <2>. QED
    BY <2>1, OneAction DEF ReturnObject
<1>. QED
  BY <1>3, <1>4, <1>5

LEMMA FirstStep ==
  ASSUME MaxLosses = 0, Inv, FirstInv, [Next]_vars
  PROVE  FirstInv'
<1>1. /\ count' \in [calls : Nat, events : Nat, losses : {0}]
      /\ built' = built \/ built' = TRUE
  BY BeforeReturn
<1>3. CASE built
  <2>1. ButtonFirst
    BY <1>3 DEF FirstInv
  <2>2. ButtonFirst'
    BY <2>1, ButtonStaysFirst
  <2>. QED
    BY <1>1, <1>3, <2>2 DEF FirstInv
<1>4. CASE ~built /\ Resetting /\ Constructing
  <2>1. /\ UNCHANGED built /\ \A t \in Callers \ {Owner} : todo'[t] = todo[t]
        /\ Resetting'
        /\ Constructing' \/ (todo'[Owner] = Construct5 /\ handlers' = <<ButtonHandler>>)
    BY <1>4, ConstructorStep
  <2>2. handlers' = <<ButtonHandler>> => ButtonFirst'
    BY DEF ButtonFirst
  <2>. QED
    BY <1>1, <1>4, <2>1, <2>2 DEF FirstInv
<1>5. CASE ~built /\ todo[Owner] \in {Construct5, Construct6, Construct7} /\ ButtonFirst
  <2>1. ButtonFirst'
    BY <1>5, ButtonStaysFirst
  <2>2. CASE built' = TRUE
    BY <1>1, <2>1, <2>2 DEF FirstInv
  <2>3. CASE UNCHANGED built
    <3>1. \/ built' = TRUE
          \/ /\ todo'[Owner] \in {Construct5, Construct6, Construct7}
             /\ \A t \in Callers \ {Owner} : todo'[t] = todo[t]
      <4>1. CASE Step(Owner)
        BY <1>5, <4>1, EndOfConstructor
      <4>2. CASE Step(Reader) \/ (SendJob /\ ~LoseReport) \/ PressButton \/ PlugExtension \/ Dispatch \/ UNCHANGED vars
        <5>1. \A t \in Callers : todo'[t] = todo[t]
          BY <1>5, <4>2, OthersLeave
        <5>. QED
          BY <1>5, <5>1, ThreadsAssumption
      <4>. QED
        BY <1>5, <4>1, <4>2, BeforeReturn
    <3>. QED
      BY <1>1, <1>5, <2>1, <2>2, <2>3, <3>1 DEF FirstInv
  <2>. QED
    BY <1>1, <2>2, <2>3
<1>. QED
  BY <1>3, <1>4, <1>5 DEF FirstInv

LEMMA InitFirst == Init => FirstInv
<1> SUFFICES ASSUME Init PROVE FirstInv
  OBVIOUS
<1>1. /\ count = [calls |-> 0, events |-> 0, losses |-> 0] /\ built = FALSE /\ handlers = <<>>
      /\ jobs = <<>> /\ wire = <<>> /\ futures = <<>>
      /\ todo = [t \in Threads |-> IF t = Owner THEN Construct ELSE <<>>]
      /\ state.report_accel = FALSE /\ state.report_ext = FALSE /\ state.leds = 0
  BY DEF Init
<1>2. todo[Owner] = Construct /\ todo[Reader] = <<>> /\ \A t \in Callers \ {Owner} : todo[t] = <<>>
  BY <1>1, ThreadsAssumption, Zenon DEF Threads
<1>3. Resetting
  BY <1>1, <1>2 DEF Resetting
<1>4. NoReads
  BY <1>1 DEF NoReads
<1>5. Constructing
  BY <1>1, <1>2, <1>4 DEF Constructing
<1>. QED
  BY <1>1, <1>2, <1>3, <1>5 DEF FirstInv

\* On a wire that loses nothing, the button state follows every input report from
\* the end of the constructor on, whatever the application threads do: the button
\* handler is offered each report first.  A status handler that waits for a lost
\* answer would stay in front of it.
THEOREM ButtonsFollowed == ASSUME MaxLosses = 0 PROVE Spec => ButtonsSeen
<1>1. Inv /\ FirstInv /\ [Next]_vars => [built /\ Len(wire') < Len(wire) => button' = Head(wire).button]_vars
  <2> SUFFICES ASSUME Inv, FirstInv, Next, built, Len(wire') < Len(wire)
               PROVE  button' = Head(wire).button
    BY DEF vars
  <2>1. wire \in Seq(InputReports) /\ wire' \in Seq(InputReports)
    BY InvStep DEF Inv, WireInv
  <2>2. ButtonFirst
    BY DEF FirstInv
  <2>3. ~SendJob /\ ~PressButton /\ ~PlugExtension
    <3>1. ASSUME DOMAIN wire \subseteq DOMAIN wire' PROVE FALSE
      <4>1. /\ DOMAIN wire = 1 .. Len(wire) /\ Len(wire) \in Nat
            /\ DOMAIN wire' = 1 .. Len(wire') /\ Len(wire') \in Nat
        BY <2>1, Queues
      <4>2. Len(wire) \in DOMAIN wire
        BY <4>1
      <4>. QED
        BY <3>1, <4>1, <4>2
    <3>2. ~LoseReport
      BY DEF FirstInv, LoseReport
    <3>3. ~SendJob
      BY <3>1, <3>2, RemoteAnswers
    <3>4. ASSUME PressButton \/ PlugExtension PROVE FALSE
      <4>1. wire' = wire \/ \E r : wire' = Append(wire, r)
        BY <3>4, UserActs
      <4>2. \A j \in DOMAIN wire : j \in DOMAIN wire'
        BY <2>1, <4>1, Queues
      <4>. QED
        BY <3>1, <4>2
    <3>. QED
      BY <3>3, <3>4
  <2>4. ASSUME UNCHANGED wire PROVE FALSE
    BY <2>1, <2>4
  <2>5. ASSUME NEW t, Step(t) PROVE FALSE
    BY <2>4, <2>5 DEF Step, AddReportHandler, RemoveReportHandler, ScheduleJob, StoreState, TestState, BeginRead,
                      BeginWrite, AwaitFuture, ReturnObject
  <2>6. ASSUME NEW t \in Callers,
               SetLeds(t) \/ SetReport(t) \/ ReadData(t) \/ WriteData(t) \/ GetPresentGyro(t) \/ GetExtId(t)
        PROVE  FALSE
    BY <2>4, <2>6 DEF SetLeds, SetReport, ReadData, WriteData, GetPresentGyro, GetExtId, Call
  <2>7. ~Rest
    BY <2>4 DEF Rest, vars
  <2>8. Dispatch
    BY <2>3, <2>5, <2>6, <2>7 DEF Next
  <2>9. handlers \in Seq(Others(nodes) \cup Keepers)
    BY DEF Inv, ListInv
  <2>10. Len(handlers) \in Nat /\ 1 \in DOMAIN handlers /\ DOMAIN handlers = 1 .. Len(handlers)
    BY <2>2, <2>9, Queues DEF ButtonFirst
  <2>11. PICK i \in 1 .. Len(handlers) + 1 : Reaches(i) /\ (i \in DOMAIN handlers => handlers[i].kind # "button")
    <3>1. CASE HandleUnhandled
      <4> DEFINE i == Len(handlers) + 1
      <4>1. i \in 1 .. Len(handlers) + 1 /\ i \notin DOMAIN handlers
        BY <2>10
      <4>. QED
        BY <3>1, <4>1 DEF HandleUnhandled
    <3>2. CASE \E i \in DOMAIN handlers : HandleStatus(i) \/ HandleData(i) \/ HandleReadReply(i) \/ HandleAck(i)
      <4>1. PICK i \in DOMAIN handlers : HandleStatus(i) \/ HandleData(i) \/ HandleReadReply(i) \/ HandleAck(i)
        BY <3>2
      <4>2. Reaches(i) /\ handlers[i].kind # "button"
        BY <4>1 DEF HandleStatus, HandleData, HandleReadReply, HandleAck, TakenBy
      <4>3. i \in 1 .. Len(handlers) + 1
        BY <2>10
      <4>. QED
        BY <4>2, <4>3
    <3>. QED
      BY <2>8, <3>1, <3>2 DEF Dispatch
  <2>12. handlers[1].kind = "button"
    BY <2>2 DEF ButtonFirst, ButtonHandler
  <2>13. 1 \in 1 .. i - 1
    BY <2>10, <2>11, <2>12
  <2>. QED
    BY <2>11, <2>12, <2>13 DEF Reaches
<1>. QED
  BY <1>1, InitInv, InvStep, InitFirst, FirstStep, PTL DEF Spec, ButtonsSeen

=============================================================================

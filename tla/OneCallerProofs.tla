--------------------------- MODULE OneCallerProofs ---------------------------
(***************************************************************************)
(* Proofs about Wiimote with one application thread and a wire that loses  *)
(* nothing, for any blocks and bounds: when nothing is under way, the      *)
(* remote has the LEDs and the reporting mode that were asked for last; and*)
(* a write whose future is ready has been executed whole.                  *)
(*                                                                         *)
(* The argument about the reporting mode: whenever the remote is not in    *)
(* the mode the flags ask for, and no job will put it there, somebody is   *)
(* about to post one: the application, or the reader, or a status report   *)
(* is on its way that will make the reader post one.  The reader posts no  *)
(* mode but that of the buttons, since it never gets past the lock it      *)
(* holds, and a flag that it has tested does not go unnoticed: a thread    *)
(* that has just set it waits for that lock.                               *)
(*                                                                         *)
(* The argument about writes: every write report has a place, in the order *)
(* in which they are posted.  The reports before place P have been posted, *)
(* those before E executed, and those before A acknowledged to a handler.  *)
(* The handlers are in the order of their writes, and each waits for the   *)
(* rest of the acknowledgements of its own reports, as long as no handler  *)
(* of an earlier write has been erased.                                    *)
(***************************************************************************)
EXTENDS HandlerListProofs

(* The last report of its kind. *)

\* With the queue js, the remote will have executed r as the last of its kind; done
\* says that it has already.
LastIn(js, r, done) ==
  \/ \E i \in DOMAIN js : js[i] = r /\ \A j \in DOMAIN js : j > i => js[j].rpt # r.rpt
  \/ done /\ \A j \in DOMAIN js : js[j].rpt # r.rpt

\* It remains the last when a report of another kind is posted; and a report that
\* is posted is the last.
LEMMA LastAppended ==
  ASSUME NEW S, NEW q \in Seq(S), NEW x, NEW r, NEW done
  PROVE  /\ x.rpt # r.rpt /\ LastIn(q, r, done) => LastIn(Append(q, x), r, done)
         /\ x = r => LastIn(Append(q, x), r, done)
<1> DEFINE p == Append(q, x)
           n == Len(q) + 1
<1>1. /\ \A j \in DOMAIN q : j \in DOMAIN p /\ p[j] = q[j]
      /\ DOMAIN p = 1 .. n /\ p[n] = x
      /\ DOMAIN q = 1 .. Len(q) /\ Len(q) \in Nat
  BY Queues
<1>2. \A j \in DOMAIN p : j \in DOMAIN q \/ j = n
  BY <1>1
<1>3. n \in DOMAIN p /\ \A j \in DOMAIN p : ~(j > n)
  BY <1>1
<1> HIDE DEF p, n
<1>4. ASSUME x.rpt # r.rpt, LastIn(q, r, done) PROVE LastIn(p, r, done)
  <2>1. CASE \E i \in DOMAIN q : q[i] = r /\ \A j \in DOMAIN q : j > i => q[j].rpt # r.rpt
    <3>1. PICK i \in DOMAIN q : q[i] = r /\ \A j \in DOMAIN q : j > i => q[j].rpt # r.rpt
      BY <2>1
    <3>2. i \in DOMAIN p /\ p[i] = r /\ \A j \in DOMAIN p : j > i => p[j].rpt # r.rpt
      BY <1>1, <1>2, <1>4, <3>1
    <3>. QED
      BY <3>2 DEF LastIn
  <2>2. CASE done /\ \A j \in DOMAIN q : q[j].rpt # r.rpt
    <3>1. \A j \in DOMAIN p : p[j].rpt # r.rpt
      BY <1>1, <1>2, <1>4, <2>2
    <3>. QED
      BY <2>2, <3>1 DEF LastIn
  <2>. QED
    BY <1>4, <2>1, <2>2 DEF LastIn
<1>5. x = r => LastIn(p, r, done)
  BY <1>1, <1>3 DEF LastIn
<1>. QED
  BY <1>4, <1>5 DEF p

\* It remains so when the first report of the queue is executed.
LEMMA LastSent ==
  ASSUME NEW S, NEW q \in Seq(S), q # <<>>, NEW r, NEW done, NEW done2, LastIn(q, r, done),
         Head(q) = r => done2,
         Head(q).rpt # r.rpt => (done => done2)
  PROVE  LastIn(Tail(q), r, done2)
<1> DEFINE p == Tail(q)
<1>1. /\ Head(q) = q[1] /\ 1 \in DOMAIN q
      /\ DOMAIN p = 1 .. Len(q) - 1 /\ DOMAIN q = 1 .. Len(q) /\ Len(q) \in Nat
      /\ \A j \in DOMAIN p : j + 1 \in DOMAIN q /\ p[j] = q[j + 1]
  BY Queues
<1> HIDE DEF p
<1>2. CASE \E i \in DOMAIN q : q[i] = r /\ \A j \in DOMAIN q : j > i => q[j].rpt # r.rpt
  <2>1. PICK i \in DOMAIN q : q[i] = r /\ \A j \in DOMAIN q : j > i => q[j].rpt # r.rpt
    BY <1>2
  <2>2. CASE i = 1
    <3>1. \A j \in DOMAIN p : j + 1 > 1
      BY <1>1
    <3>2. \A j \in DOMAIN p : p[j].rpt # r.rpt
      BY <1>1, <2>1, <2>2, <3>1
    <3>. QED
      BY <1>1, <2>1, <2>2, <3>2 DEF LastIn, p
  <2>3. CASE i # 1
    <3> DEFINE k == i - 1
    <3>1. k \in DOMAIN p /\ k + 1 = i
      BY <1>1, <2>3
    <3>2. \A j \in DOMAIN p : j > k => j + 1 > i
      BY <1>1, <3>1
    <3> HIDE DEF k
    <3>3. p[k] = r /\ \A j \in DOMAIN p : j > k => p[j].rpt # r.rpt
      BY <1>1, <2>1, <3>1, <3>2
    <3>. QED
      BY <3>1, <3>3 DEF LastIn, p
  <2>. QED
    BY <2>2, <2>3
<1>3. CASE done /\ \A j \in DOMAIN q : q[j].rpt # r.rpt
  <2>1. done2 /\ \A j \in DOMAIN p : p[j].rpt # r.rpt
    BY <1>1, <1>3
  <2>. QED
    BY <2>1 DEF LastIn, p
<1>. QED
  BY <1>2, <1>3 DEF LastIn

-----------------------------------------------------------------------------
(* Steps that have nothing to do with LEDs, modes and status. *)

Neutral ==
  {s \in FirstSteps \cup UNION {Steps(n) : n \in Nat} :
     /\ s.do = "add" => s.handler.kind # "status"
     /\ s.do = "post" => s.rpt.rpt \in {"read", "write"}
     /\ s.do = "store" => s.field \in {"ext_mode", "data_iter"}
     /\ s.do = "if" => s \in {StartExt, TestExt}}

\* The steps of the member functions that are neutral.
LEMMA NeutralHave ==
  /\ StartExt \in Neutral /\ TestExt \in Neutral
  /\ RemoveFromIterator \in Neutral /\ Return \in Neutral
  /\ AddData(ButtonAccel) \in Neutral /\ AddData(ButtonAccelExt16) \in Neutral
  /\ \A r \in WriteReports : Post(r) \in Neutral
  /\ \A b \in ReadBlocks : Post(ReadBlock(b)) \in Neutral
  /\ Store("ext_mode", 85) \in Neutral
  /\ \A k \in Nat : Store("data_iter", k) \in Neutral
  /\ \A b \in ReadBlocks, wait \in BOOLEAN : Read(b, wait) \in Neutral
  /\ \A b \in WriteBlocks, wait \in BOOLEAN : Write(b, wait) \in Neutral
  /\ \A f \in Nat : Await(f) \in Neutral
  /\ \A s \in FirstSteps : s \in Neutral
<1>1. ASSUME NEW s, NEW n \in Nat, s \in FirstSteps \cup Steps(n),
             s.do = "add" => s.handler.kind # "status",
             s.do = "post" => s.rpt.rpt \in {"read", "write"},
             s.do = "store" => s.field \in {"ext_mode", "data_iter"},
             s.do = "if" => s \in {StartExt, TestExt}
      PROVE  s \in Neutral
  BY <1>1 DEF Neutral
<1>2. StartExt.do = "if" /\ TestExt.do = "if"
  BY DEF StartExt, InitializeExtension, TestExt, IfState
<1>3. \A s \in FirstSteps : s.do = "add" /\ s.handler.kind # "status"
  BY DEF FirstSteps, Keepers
<1>4. /\ \A r : Post(r).do = "post" /\ Post(r).rpt = r
      /\ \A f, v : Store(f, v).do = "store" /\ Store(f, v).field = f
      /\ \A b, w : Read(b, w).do = "read" /\ Write(b, w).do = "write"
      /\ \A f : Await(f).do = "await"
      /\ \A m : AddData(m).do = "addData"
      /\ Return.do = "return" /\ RemoveFromIterator.do = "remove"
      /\ \A b : ReadBlock(b).rpt = "read"
      /\ \A r \in WriteReports : r.rpt = "write"
  BY DEF Post, Store, Read, Write, Await, AddData, Return, RemoveFromIterator, ReadBlock, WriteReports
<1>5. 0 \in Nat
  OBVIOUS
<1>6. StartExt \in Neutral /\ TestExt \in Neutral
  BY <1>1, <1>2, <1>5, StepsHave DEF Tests
<1>7. \A s \in FirstSteps : s \in Neutral
  BY <1>1, <1>3, <1>5
<1>8. /\ RemoveFromIterator \in Neutral /\ Return \in Neutral
      /\ AddData(ButtonAccel) \in Neutral /\ AddData(ButtonAccelExt16) \in Neutral
      /\ Store("ext_mode", 85) \in Neutral
  BY <1>1, <1>4, <1>5, StepsHave
<1>9. \A r \in WriteReports : Post(r) \in Neutral
  BY <1>1, <1>4, <1>5, StepsHave
<1>10. \A b \in ReadBlocks : Post(ReadBlock(b)) \in Neutral
  BY <1>1, <1>4, <1>5, StepsHave, ReportsHave
<1>11. ASSUME NEW k \in Nat PROVE Store("data_iter", k) \in Neutral
  <2>1. Store("data_iter", k) \in Steps(k)
    BY StepsHave
  <2>. QED
    BY <1>1, <1>4, <2>1
<1>12. (\A b \in ReadBlocks, wait \in BOOLEAN : Read(b, wait) \in Neutral) /\ (\A f \in Nat : Await(f) \in Neutral)
  BY <1>1, <1>4, <1>5, StepsHave
<1>13. \A b \in WriteBlocks, wait \in BOOLEAN : Write(b, wait) \in Neutral
  BY <1>1, <1>4, <1>5, StepsHave
<1>. QED
  BY <1>6, <1>7, <1>8, <1>9, <1>10, <1>11, <1>12, <1>13

\* What a neutral step may be.
LEMMA NeutralFields ==
  ASSUME NEW s \in Neutral
  PROVE  /\ s.do = "add" => s.handler.kind # "status"
         /\ s.do = "post" => s.rpt.rpt \in {"read", "write"}
         /\ s.do = "store" => s.field \in {"ext_mode", "data_iter"}
         /\ s.do = "if" => s \in {StartExt, TestExt}
         /\ s.do = "read" => s.block \in ReadBlocks /\ s.wait \in BOOLEAN
         /\ s.do = "write" => s.block \in WriteBlocks /\ s.wait \in BOOLEAN
<1>1. PICK n \in Nat : s \in Steps(n) \cup FirstSteps
  BY DEF Neutral
<1>2. /\ s.do = "read" => s.block \in ReadBlocks /\ s.wait \in BOOLEAN
      /\ s.do = "write" => s.block \in WriteBlocks /\ s.wait \in BOOLEAN
  BY <1>1, StepFields
<1>. QED
  BY <1>2 DEF Neutral

\* initialize_extension() is neutral.
LEMMA ExtensionNeutral ==
  /\ InitializeExtension \in Seq(Neutral) /\ StartExt.then \in Seq(Neutral) /\ StartExt.else \in Seq(Neutral)
  /\ TestExt.then \in Seq(Neutral) /\ TestExt.else \in Seq(Neutral)
<1> USE NeutralHave
<1> DEFINE writes == [i \in DOMAIN ExtInit |-> Write(ExtInit[i], FALSE)]
<1>1. writes \in Seq(Neutral)
  <2>1. \A i \in DOMAIN ExtInit : Write(ExtInit[i], FALSE) \in Neutral
    BY DEF WriteBlocks
  <2>2. DOMAIN ExtInit = 1 .. Len(ExtInit) /\ Len(ExtInit) \in Nat
    BY BlocksAssumption
  <2>3. writes \in [1 .. Len(ExtInit) -> Neutral]
    BY <2>1, <2>2
  <2>. QED
    BY <2>2, <2>3, FunctionIsSequence
<1>2. Append(writes, Store("ext_mode", 85)) \in Seq(Neutral) /\ <<>> \in Seq(Neutral)
  BY <1>1
<1>3. StartExt = IfState("ext_mode", 0, Append(writes, Store("ext_mode", 85)), <<>>)
  BY DEF StartExt, InitializeExtension
<1>4. InitializeExtension = <<StartExt>>
  BY <1>3 DEF InitializeExtension
<1>5. <<StartExt>> \in Seq(Neutral)
  OBVIOUS
<1>6. StartExt.then = Append(writes, Store("ext_mode", 85)) /\ StartExt.else = <<>>
  BY <1>3 DEF IfState
<1>7. TestExt.then = InitializeExtension /\ TestExt.else = <<>>
  BY DEF TestExt, IfState
<1>. QED
  BY <1>2, <1>4, <1>5, <1>6, <1>7

\* read_data() and write_data() are neutral.
LEMMA RequestsNeutral ==
  ASSUME NEW f \in Nat, NEW wait \in BOOLEAN
  PROVE  /\ \A b \in ReadBlocks :
              <<Add(ReadHandler(f, b)), Post(ReadBlock(b))>> \o Waiting(f, wait) \in Seq(Neutral)
         /\ \A b \in WriteBlocks :
              <<Add(AckHandler(f, Chunks(b.len)))>>
                \o [k \in 1 .. Chunks(b.len) |-> Post(WriteChunk(f, b.addr + (k - 1) * ChunkSize))]
                \o Waiting(f, wait) \in Seq(Neutral)
<1> USE NeutralHave
<1>1. Waiting(f, wait) \in Seq(Neutral)
  BY DEF Waiting
<1>2. ASSUME NEW b \in ReadBlocks
      PROVE  <<Add(ReadHandler(f, b)), Post(ReadBlock(b))>> \o Waiting(f, wait) \in Seq(Neutral)
  <2>1. Add(ReadHandler(f, b)) \in Neutral
    <3>1. ReadHandler(f, b) \in Keepers
      BY BlockFacts DEF ReadHandler, Keepers
    <3>2. Add(ReadHandler(f, b)) \in FirstSteps
      BY <3>1 DEF FirstSteps, Add
    <3>. QED
      BY <3>2
  <2>2. Post(ReadBlock(b)) \in Neutral
    OBVIOUS
  <2>. QED
    BY <1>1, <2>1, <2>2
<1>3. ASSUME NEW b \in WriteBlocks
      PROVE  <<Add(AckHandler(f, Chunks(b.len)))>>
                \o [k \in 1 .. Chunks(b.len) |-> Post(WriteChunk(f, b.addr + (k - 1) * ChunkSize))]
                \o Waiting(f, wait) \in Seq(Neutral)
  <2> DEFINE first == Add(AckHandler(f, Chunks(b.len)))
             posts == [k \in 1 .. Chunks(b.len) |-> Post(WriteChunk(f, b.addr + (k - 1) * ChunkSize))]
  <2>1. first \in Neutral
    BY BlockFacts DEF FirstSteps, Add, AckHandler, Keepers
  <2>2. posts \in Seq(Neutral)
    <3>1. Chunks(b.len) \in Nat
      BY BlockFacts
    <3>2. ASSUME NEW k \in 1 .. Chunks(b.len)
          PROVE  Post(WriteChunk(f, b.addr + (k - 1) * ChunkSize)) \in Neutral
      <4>1. b.addr + (k - 1) * ChunkSize \in Nat
        BY BlockFacts
      <4>2. WriteChunk(f, b.addr + (k - 1) * ChunkSize) \in WriteReports
        BY <4>1 DEF WriteChunk, WriteReports
      <4>. QED
        BY <4>2
    <3>3. posts \in [1 .. Chunks(b.len) -> Neutral]
      BY <3>2
    <3>. QED
      BY <3>1, <3>3, FunctionIsSequence
  <2> HIDE DEF first, posts
  <2>3. <<first>> \o posts \o Waiting(f, wait) \in Seq(Neutral)
    BY <1>1, <2>1, <2>2
  <2>. QED
    BY <2>3 DEF first, posts
<1>. QED
  BY <1>2, <1>3

-----------------------------------------------------------------------------
(* The invariant. *)

\* The calls q end with the steps r, with nothing but neutral steps before.
Ends(q, r) == \E p \in Seq(Neutral) : q = p \o r

\* The application is going to post the mode that the flags ask for.
OwnerDue ==
  \/ todo[Owner] = UpdateReportingMode
  \/ (state.report_accel /\ todo[Owner] = <<TestBoth>>)
  \/ (~(state.report_accel /\ state.report_ext) /\ todo[Owner] = <<TestAccel>>)
  \/ Ends(todo[Owner], <<Post(ReportMode(RequestedMode))>>)

\* It has not passed the lock, if it is going to take it.
BeforeLock ==
  OwnerDue /\ Head(todo[Owner]) \in {UpdateReportingMode[1], TestBoth, TestAccel, RemoveFromIterator}

OwnerForm ==
  \/ OwnerDue
  \/ Ends(todo[Owner], <<>>)
  \/ \E f \in Features, e \in BOOLEAN : todo[Owner] = <<Store(f, e)>> \o UpdateReportingMode
  \/ \E v \in Leds : todo[Owner] = <<Store("leds", v), Post(PlayerLeds(v))>>
  \/ todo[Owner] = <<Post(PlayerLeds(state.leds))>>

\* The reader has yet to test the flags, or holds the lock for ever, or is going to
\* post the mode of the buttons: the one that the flags ask for, unless they were
\* set after its tests.
ReaderForm ==
  \/ todo[Reader] \in {<<>>, UpdateReportingMode, <<TestBoth>>, <<TestAccel>>}
  \/ (todo[Reader] # <<>> /\ Head(todo[Reader]) = RemoveFromIterator)
  \/ (Ends(todo[Reader], <<Post(ReportMode(Button))>>) /\ (~state.report_accel \/ BeforeLock))

NoStatus == \A i \in DOMAIN handlers : handlers[i].kind # "status"

\* A status report will reach the reader.
StatusAhead ==
  (\E i \in DOMAIN wire : wire[i].rpt = "status") \/ (\E i \in DOMAIN jobs : jobs[i].rpt = "status")

\* The remote will be in the mode that the flags ask for, and have the LEDs.
ModePosted == LastIn(jobs, ReportMode(RequestedMode), remote.mode = RequestedMode)
LedsPosted == state.leds # 0 => LastIn(jobs, PlayerLeds(state.leds), remote.leds = state.leds)

ModeInv == todo[Reader] # <<>> \/ OwnerDue \/ StatusAhead \/ ModePosted

LedsInv == todo[Owner] = <<Post(PlayerLeds(state.leds))>> \/ LedsPosted

\* The constructor resets no LEDs, and its last status request makes the reader
\* post the mode.
RemoteInv ==
  /\ \/ (~built /\ Resetting /\ Constructing)
     \/ (/\ todo[Owner] \in {Construct5, Construct6} /\ NoStatus
         /\ state.leds = 0 /\ state.report_accel = FALSE)
     \/ (OwnerForm /\ NoStatus /\ ModeInv)
  /\ ReaderForm
  /\ LedsInv

-----------------------------------------------------------------------------
(* Sequences of steps. *)

\* One step in front of others.
LEMMA OneFirst ==
  ASSUME NEW S, NEW a \in S, NEW r \in Seq(S)
  PROVE  Head(<<a>> \o r) = a /\ Tail(<<a>> \o r) = r
OBVIOUS

\* What is left when the first of the neutral steps is taken, with the steps of its
\* callee put in front.
LEMMA EndsSplit ==
  ASSUME NEW R, NEW r \in Seq(R), NEW q, Ends(q, r)
  PROVE  \/ q = r
         \/ /\ q # <<>> /\ Head(q) \in Neutral
            /\ \A x \in Seq(Neutral) : Ends(x \o Tail(q), r)
<1>1. PICK p \in Seq(Neutral) : q = p \o r
  BY DEF Ends
<1> DEFINE S == Neutral \cup R
<1>2. Neutral \subseteq S /\ R \subseteq S
  OBVIOUS
<1> HIDE DEF S
<1>3. p \in Seq(S) /\ r \in Seq(S)
  BY <1>2
<1>4. CASE p = <<>>
  BY <1>1, <1>3, <1>4
<1>5. CASE p # <<>>
  <2>1. Head(p) \in Neutral /\ Tail(p) \in Seq(Neutral) /\ Tail(p) \in Seq(S)
    BY <1>2, <1>5
  <2>2. p \o r # <<>> /\ Head(p \o r) = Head(p) /\ Tail(p \o r) = Tail(p) \o r
    BY <1>3, <1>5
  <2>3. ASSUME NEW x \in Seq(Neutral) PROVE Ends(x \o Tail(q), r)
    <3>1. x \in Seq(S) /\ x \o Tail(p) \in Seq(Neutral)
      BY <1>2, <2>1
    <3>2. x \o (Tail(p) \o r) = (x \o Tail(p)) \o r
      BY <1>3, <2>1, <3>1
    <3>3. x \o Tail(q) = (x \o Tail(p)) \o r
      BY <1>1, <2>2, <3>2
    <3>. QED
      BY <3>1, <3>3 DEF Ends
  <2>. QED
    BY <1>1, <2>1, <2>2, <2>3
<1>. QED
  BY <1>4, <1>5

\* Neutral steps end with nothing; what ends with a post is not over.
LEMMA EndsWith ==
  /\ Ends(<<>>, <<>>) /\ \A p \in Seq(Neutral) : Ends(p, <<>>)
  /\ \A m : Ends(<<Post(ReportMode(m))>>, <<Post(ReportMode(m))>>)
  /\ \A m, q : Ends(q, <<Post(ReportMode(m))>>) => q # <<>>
<1>1. ASSUME NEW p \in Seq(Neutral) PROVE Ends(p, <<>>)
  <2>1. p = p \o <<>>
    OBVIOUS
  <2>. QED
    BY <2>1 DEF Ends
<1>2. ASSUME NEW a PROVE Ends(<<a>>, <<a>>) /\ \A q : Ends(q, <<a>>) => q # <<>>
  <2>1. <<>> \in Seq(Neutral) /\ <<a>> = <<>> \o <<a>>
    OBVIOUS
  <2>2. ASSUME NEW p \in Seq(Neutral) PROVE p \o <<a>> # <<>>
    <3> DEFINE S == Neutral \cup {a}
    <3>1. p \in Seq(S) /\ a \in S
      OBVIOUS
    <3> HIDE DEF S
    <3>. QED
      BY <3>1
  <2>. QED
    BY <2>1, <2>2 DEF Ends
<1>3. <<>> \in Seq(Neutral)
  OBVIOUS
<1>. QED
  BY <1>1, <1>2, <1>3

\* The end of update_reporting_mode().
LEMMA ModeEnds ==
  ASSUME NEW m \in {Button, ButtonAccel, ButtonAccelExt16}
  PROVE  /\ Ends(SendMode(m), <<Post(ReportMode(m))>>)
         /\ m # Button => /\ Ends(ChangeMode(m), <<Post(ReportMode(m))>>)
                          /\ ChangeMode(m) # <<>> /\ Head(ChangeMode(m)) = RemoveFromIterator
<1> DEFINE a == RemoveFromIterator
           d == AddData(m)
           x == Post(ReportMode(m))
           S == Neutral \cup {x, d}
<1>1. TestExt \in Neutral /\ a \in Neutral /\ (m # Button => d \in Neutral)
  BY NeutralHave
<1>2. SendMode(m) = <<TestExt, x>> /\ ChangeMode(m) = <<a, d>> \o SendMode(m)
  BY DEF SendMode, ChangeMode, TestExt
<1>3. Neutral \subseteq S /\ x \in S /\ d \in S
  OBVIOUS
<1> HIDE DEF a, d, x, S
<1>4. <<TestExt>> \in Seq(Neutral) /\ <<TestExt, x>> = <<TestExt>> \o <<x>>
  BY <1>1, <1>3
<1>5. Ends(SendMode(m), <<x>>)
  BY <1>2, <1>4 DEF Ends
<1>6. ASSUME m # Button
      PROVE  Ends(ChangeMode(m), <<x>>) /\ ChangeMode(m) # <<>> /\ Head(ChangeMode(m)) = a
  <2>1. <<a, d>> \in Seq(Neutral) /\ <<a, d>> \o <<TestExt>> \in Seq(Neutral)
    BY <1>1, <1>6
  <2>2. <<a, d>> \in Seq(S) /\ <<TestExt>> \in Seq(S) /\ <<x>> \in Seq(S) /\ <<TestExt, x>> \in Seq(S)
    BY <1>1, <1>3
  <2>3. <<a, d>> \o (<<TestExt>> \o <<x>>) = (<<a, d>> \o <<TestExt>>) \o <<x>>
    BY <2>2
  <2>4. Ends(ChangeMode(m), <<x>>)
    BY <1>2, <1>4, <2>1, <2>3 DEF Ends
  <2>5. a \in S /\ d \in S
    BY <1>1, <1>3
  <2>6. <<a, d>> \o <<TestExt, x>> # <<>> /\ Head(<<a, d>> \o <<TestExt, x>>) = a
    BY <2>2, <2>5, TwoFirst
  <2>. QED
    BY <1>2, <2>4, <2>6
<1>. QED
  BY <1>5, <1>6 DEF x, a

-----------------------------------------------------------------------------
(* Steps. *)

\* The tests of the flags in update_reporting_mode() are none of the neutral steps.
LEMMA FlagTests ==
  /\ UpdateReportingMode = <<UpdateReportingMode[1]>>
  /\ \A s \in {UpdateReportingMode[1], TestBoth, TestAccel} : s.do = "if" /\ s \notin Neutral
<1>1. /\ UpdateReportingMode = <<UpdateReportingMode[1]>>
      /\ UpdateReportingMode[1].do = "if" /\ UpdateReportingMode[1].field = "report_accel"
      /\ TestAccel.do = "if" /\ TestAccel.field = "report_accel"
      /\ TestBoth.do = "if" /\ TestBoth.field = "report_ext" /\ TestBoth.else = <<TestAccel>>
  BY DEF UpdateReportingMode, TestBoth, TestAccel, IfState
<1>2. StartExt.field = "ext_mode" /\ TestExt.field = "report_ext" /\ TestExt.else = <<>>
  BY DEF StartExt, InitializeExtension, TestExt, IfState
<1>3. <<TestAccel>> # <<>>
  OBVIOUS
<1>. QED
  BY <1>1, <1>2, <1>3, NeutralFields

\* The thread goes on, and the others stay where they are.
LEMMA Continued ==
  ASSUME Inv, NEW t \in Threads, NEW x, Continue(t, x)
  PROVE  todo'[t] = x \o Tail(todo[t]) /\ \A u \in Threads \ {t} : todo'[u] = todo[u]
<1>1. DOMAIN todo = Threads
  BY DEF Inv, TodoInv
<1>. QED
  BY <1>1 DEF Continue

\* A test of a flag.
LEMMA Tested ==
  ASSUME Inv, NEW t \in Threads, Step(t),
         todo[t] \in {UpdateReportingMode, <<TestBoth>>, <<TestAccel>>}
  PROVE  /\ todo[t] = UpdateReportingMode =>
              todo'[t] = IF state.report_accel THEN <<TestBoth>> ELSE <<TestAccel>>
         /\ todo[t] = <<TestBoth>> =>
              todo'[t] = IF state.report_ext THEN ChangeMode(ButtonAccelExt16) ELSE <<TestAccel>>
         /\ todo[t] = <<TestAccel>> =>
              todo'[t] = IF state.report_accel THEN ChangeMode(ButtonAccel) ELSE SendMode(Button)
         /\ \A u \in Threads \ {t} : todo'[u] = todo[u]
         /\ UNCHANGED <<handlers, jobs, wire, state, remote>>
<1> DEFINE s == Head(todo[t])
           x == IF state[s.field] = s.value THEN s.then ELSE s.else
<1>1. s \in {UpdateReportingMode[1], TestBoth, TestAccel} /\ todo[t] = <<s>>
  BY FlagTests
<1>2. TestState(t)
  BY <1>1, OneAction, FlagTests
<1>3. Continue(t, x) /\ UNCHANGED <<handlers, jobs, wire, state, remote>>
  BY <1>2 DEF TestState
<1>4. /\ UpdateReportingMode[1].field = "report_accel" /\ UpdateReportingMode[1].value = TRUE
      /\ UpdateReportingMode[1].then = <<TestBoth>> /\ UpdateReportingMode[1].else = <<TestAccel>>
      /\ TestAccel.field = "report_accel" /\ TestAccel.value = TRUE
      /\ TestAccel.then = ChangeMode(ButtonAccel) /\ TestAccel.else = SendMode(Button)
      /\ TestBoth.field = "report_ext" /\ TestBoth.value = TRUE
      /\ TestBoth.then = ChangeMode(ButtonAccelExt16) /\ TestBoth.else = <<TestAccel>>
  BY DEF UpdateReportingMode, TestBoth, TestAccel, IfState
<1>5. x \in Seq(Steps(nodes))
  <2>1. s \in Tests
    BY <1>1 DEF Tests
  <2>. QED
    BY <2>1, UpdateReportingModeSteps DEF Inv, TodoInv
<1>6. todo'[t] = x \o Tail(todo[t]) /\ \A u \in Threads \ {t} : todo'[u] = todo[u]
  BY <1>3, Continued
<1>7. Tail(todo[t]) = <<>>
  <2>1. \A y : Tail(<<y>>) = <<>>
    OBVIOUS
  <2>. QED
    BY <1>1, <2>1, Zenon
<1>8. todo'[t] = x
  <2>1. \A S : \A y \in Seq(S) : y \o <<>> = y
    OBVIOUS
  <2>. QED
    BY <1>5, <1>6, <1>7, <2>1, Zenon
<1>9. state.report_accel \in BOOLEAN /\ state.report_ext \in BOOLEAN
  BY DEF Inv, StateInv
<1>10. s = UpdateReportingMode[1] => x = IF state.report_accel THEN <<TestBoth>> ELSE <<TestAccel>>
  BY <1>4, <1>9
<1>11. s = TestBoth => x = IF state.report_ext THEN ChangeMode(ButtonAccelExt16) ELSE <<TestAccel>>
  BY <1>4, <1>9
<1>12. s = TestAccel => x = IF state.report_accel THEN ChangeMode(ButtonAccel) ELSE SendMode(Button)
  BY <1>4, <1>9
<1>13. /\ todo[t] = UpdateReportingMode => s = UpdateReportingMode[1]
       /\ todo[t] = <<TestBoth>> => s = TestBoth
       /\ todo[t] = <<TestAccel>> => s = TestAccel
  BY FlagTests
<1> HIDE DEF x, s
<1>. QED
  BY <1>3, <1>6, <1>8, <1>10, <1>11, <1>12, <1>13, Zenon

\* A neutral step leads to neutral steps, and touches neither flags nor LEDs.
LEMMA NeutralStep ==
  ASSUME Inv, NEW t \in Threads, Step(t), Head(todo[t]) \in Neutral
  PROVE  /\ \E x \in Seq(Neutral) : Continue(t, x)
         /\ state'.leds = state.leds /\ state'.report_accel = state.report_accel
         /\ state'.report_ext = state.report_ext
         /\ jobs' = jobs \/ \E r : jobs' = Append(jobs, r) /\ r.rpt \notin {"leds", "mode"}
         /\ UNCHANGED <<wire, remote>>
         /\ NoStatus => NoStatus'
         /\ Head(todo[t]) = RemoveFromIterator => LockFree
<1> DEFINE s == Head(todo[t])
           H == Others(nodes) \cup Keepers
<1>1. /\ s \in Neutral /\ handlers \in Seq(H) /\ nodes \in Nat
      /\ <<>> \in Seq(Neutral)
  BY DEF Inv, TodoInv, ListInv
<1> HIDE DEF s, H
<1>2. ASSUME NEW h, h.kind # "status", handlers' = Append(handlers, h), NoStatus PROVE NoStatus'
  <2>1. /\ DOMAIN handlers = 1 .. Len(handlers) /\ Len(handlers) \in Nat
        /\ \A j \in DOMAIN handlers : handlers'[j] = handlers[j]
        /\ DOMAIN handlers' = 1 .. Len(handlers) + 1 /\ handlers'[Len(handlers) + 1] = h
    BY <1>1, <1>2, Queues
  <2>2. \A j \in DOMAIN handlers' : j \in DOMAIN handlers \/ j = Len(handlers) + 1
    BY <2>1
  <2>. QED
    BY <1>2, <2>1, <2>2 DEF NoStatus
<1>3. CASE AddReportHandler(t)
  <2>1. LockFree /\ UNCHANGED <<jobs, wire, state, remote>>
    BY <1>3 DEF AddReportHandler
  <2>2. \E x \in Seq(Neutral) : \E h : Continue(t, x) /\ handlers' = Append(handlers, h) /\ h.kind # "status"
    <3>1. CASE s.do = "add" /\ handlers' = Append(handlers, s.handler) /\ Continue(t, <<>>)
      BY <1>1, <3>1, NeutralFields
    <3>2. CASE /\ handlers' = Append(handlers, DataHandler(s.mode, nodes + 1))
               /\ Continue(t, <<Store("data_iter", nodes + 1)>>)
      <4>1. Store("data_iter", nodes + 1) \in Neutral
        BY <1>1, NeutralHave
      <4>2. <<Store("data_iter", nodes + 1)>> \in Seq(Neutral)
        BY <4>1
      <4>3. DataHandler(s.mode, nodes + 1).kind # "status"
        BY DEF DataHandler
      <4>. QED
        BY <3>2, <4>2, <4>3
    <3>. QED
      BY <1>3, <3>1, <3>2 DEF AddReportHandler, Do, s
  <2>. QED
    BY <1>2, <2>1, <2>2
<1>4. CASE RemoveReportHandler(t)
  <2>1. LockFree /\ Continue(t, <<>>) /\ UNCHANGED <<jobs, wire, state, remote>>
    BY <1>4 DEF RemoveReportHandler
  <2>2. PICK i \in 1 .. Len(handlers) + 1 : handlers' = SubSeq(handlers, 1, i - 1)
    BY <1>4 DEF RemoveReportHandler
  <2>3. \A j \in DOMAIN handlers' : j \in DOMAIN handlers /\ handlers'[j] = handlers[j]
    BY <1>1, <2>2
  <2>4. NoStatus => NoStatus'
    BY <2>3 DEF NoStatus
  <2>. QED
    BY <1>1, <2>1, <2>4
<1>5. ASSUME UNCHANGED handlers PROVE NoStatus => NoStatus'
  BY <1>5 DEF NoStatus
<1>6. s = RemoveFromIterator => s.do = "remove"
  BY DEF RemoveFromIterator
<1>7. CASE ScheduleJob(t)
  <2>1. /\ s.do = "post" /\ jobs' = Append(jobs, s.rpt) /\ Continue(t, <<>>)
        /\ UNCHANGED <<handlers, wire, state, remote>>
    BY <1>7 DEF ScheduleJob, Do, s
  <2>2. s.rpt.rpt \notin {"leds", "mode"}
    BY <1>1, <2>1, NeutralFields
  <2>. QED
    BY <1>1, <1>5, <1>6, <2>1, <2>2 DEF s
<1>8. CASE StoreState(t)
  <2>1. /\ s.do = "store" /\ state' = [state EXCEPT ![s.field] = s.value] /\ Continue(t, <<>>)
        /\ UNCHANGED <<handlers, jobs, wire, remote>>
    BY <1>8 DEF StoreState, Do, s
  <2>2. s.field \in {"ext_mode", "data_iter"}
    BY <1>1, <2>1, NeutralFields
  <2>3. /\ state'.leds = state.leds /\ state'.report_accel = state.report_accel
        /\ state'.report_ext = state.report_ext
    BY <2>1, <2>2 DEF Inv, StateInv
  <2>. QED
    BY <1>1, <1>5, <1>6, <2>1, <2>3 DEF s
<1>9. CASE TestState(t)
  <2>1. /\ s.do = "if" /\ Continue(t, IF state[s.field] = s.value THEN s.then ELSE s.else)
        /\ UNCHANGED <<handlers, jobs, wire, state, remote>>
    BY <1>9 DEF TestState, Do, s
  <2>2. s.then \in Seq(Neutral) /\ s.else \in Seq(Neutral)
    BY <1>1, <2>1, NeutralFields, ExtensionNeutral
  <2>. QED
    BY <1>5, <1>6, <2>1, <2>2 DEF s
<1>10. Len(futures) + 1 \in Nat
  BY DEF Inv, FutureInv
<1>11. CASE BeginRead(t)
  <2> DEFINE x == <<Add(ReadHandler(Len(futures) + 1, s.block)), Post(ReadBlock(s.block))>>
                    \o Waiting(Len(futures) + 1, s.wait)
  <2>1. s.do = "read" /\ Continue(t, x) /\ UNCHANGED <<handlers, jobs, wire, state, remote>>
    BY <1>11 DEF BeginRead, Do, s
  <2>2. s.block \in ReadBlocks /\ s.wait \in BOOLEAN
    BY <1>1, <2>1, NeutralFields
  <2>3. x \in Seq(Neutral)
    BY <1>10, <2>2, RequestsNeutral
  <2> HIDE DEF x
  <2>. QED
    BY <1>5, <1>6, <2>1, <2>3 DEF s
<1>12. CASE BeginWrite(t)
  <2> DEFINE f == Len(futures) + 1
             x == <<Add(AckHandler(f, Chunks(s.block.len)))>>
                    \o [k \in 1 .. Chunks(s.block.len) |-> Post(WriteChunk(f, s.block.addr + (k - 1) * ChunkSize))]
                    \o Waiting(f, s.wait)
  <2>1. s.do = "write" /\ Continue(t, x) /\ UNCHANGED <<handlers, jobs, wire, state, remote>>
    BY <1>12 DEF BeginWrite, Do, s
  <2>2. s.block \in WriteBlocks /\ s.wait \in BOOLEAN
    BY <1>1, <2>1, NeutralFields
  <2>3. x \in Seq(Neutral)
    BY <1>10, <2>2, RequestsNeutral
  <2> HIDE DEF x
  <2>. QED
    BY <1>5, <1>6, <2>1, <2>3 DEF s
<1>13. CASE AwaitFuture(t) \/ ReturnObject(t)
  <2>1. s.do \in {"await", "return"} /\ Continue(t, <<>>) /\ UNCHANGED <<handlers, jobs, wire, state, remote>>
    BY <1>13 DEF AwaitFuture, ReturnObject, Do, s
  <2>. QED
    BY <1>1, <1>5, <1>6, <2>1 DEF s
<1>. QED
  BY <1>3, <1>4, <1>7, <1>8, <1>9, <1>11, <1>12, <1>13 DEF Step

\* What is posted does not undo what was: only a report of the same kind would.
LEMMA PostedAfter ==
  ASSUME Inv, NEW r, jobs' = jobs \/ jobs' = Append(jobs, r), UNCHANGED <<wire, remote>>,
         state'.leds = state.leds, state'.report_accel = state.report_accel,
         state'.report_ext = state.report_ext
  PROVE  /\ RequestedMode' = RequestedMode
         /\ StatusAhead => StatusAhead'
         /\ jobs' = jobs \/ r.rpt # "mode" => (ModePosted => ModePosted')
         /\ jobs' = jobs \/ r.rpt # "leds" => (LedsPosted => LedsPosted')
         /\ jobs' = Append(jobs, r) /\ r = ReportMode(RequestedMode) => ModePosted'
         /\ jobs' = Append(jobs, r) /\ r = PlayerLeds(state.leds) => LedsPosted'
<1>1. jobs \in Seq(OutputReports)
  BY DEF Inv, WireInv
<1>2. RequestedMode' = RequestedMode
  BY DEF RequestedMode
<1>3. StatusAhead => StatusAhead'
  <2>1. \A j \in DOMAIN jobs : j \in DOMAIN jobs' /\ jobs'[j] = jobs[j]
    BY <1>1, Queues
  <2>. QED
    BY <2>1 DEF StatusAhead
<1>4. \A m : ReportMode(m).rpt = "mode"
  BY DEF ReportMode
<1>5. \A v : PlayerLeds(v).rpt = "leds"
  BY DEF PlayerLeds
<1> DEFINE M == ReportMode(RequestedMode)
           L == PlayerLeds(state.leds)
           dM == remote.mode = RequestedMode
           dL == remote.leds = state.leds
<1>6. /\ M' = M /\ L' = L /\ dM' = dM /\ dL' = dL
  BY <1>2
<1>7. /\ r.rpt # M.rpt /\ LastIn(jobs, M, dM) => LastIn(Append(jobs, r), M, dM)
      /\ r = M => LastIn(Append(jobs, r), M, dM)
  BY <1>1, LastAppended
<1>8. /\ r.rpt # L.rpt /\ LastIn(jobs, L, dL) => LastIn(Append(jobs, r), L, dL)
      /\ r = L => LastIn(Append(jobs, r), L, dL)
  BY <1>1, LastAppended
<1>9. (ModePosted <=> LastIn(jobs, M, dM)) /\ (ModePosted' <=> LastIn(jobs', M, dM))
  BY <1>6 DEF ModePosted
<1>10. (LedsPosted <=> (state.leds # 0 => LastIn(jobs, L, dL))) /\ (LedsPosted' <=> (state.leds # 0 => LastIn(jobs', L, dL)))
  BY <1>6 DEF LedsPosted
<1>11. M.rpt = "mode" /\ L.rpt = "leds"
  BY <1>4, <1>5
<1> HIDE DEF M, L, dM, dL
<1>12. /\ jobs' = jobs \/ r.rpt # "mode" => (ModePosted => ModePosted')
       /\ jobs' = Append(jobs, r) /\ r = M => ModePosted'
  BY <1>7, <1>9, <1>11
<1>13. /\ jobs' = jobs \/ r.rpt # "leds" => (LedsPosted => LedsPosted')
       /\ jobs' = Append(jobs, r) /\ r = L => LedsPosted'
  BY <1>8, <1>10, <1>11
<1>. QED
  BY <1>2, <1>3, <1>12, <1>13 DEF M, L

-----------------------------------------------------------------------------
(* What the application finds after others have acted. *)

Undisturbed ==
  /\ todo'[Owner] = todo[Owner]
  /\ state'.leds = state.leds /\ state'.report_accel = state.report_accel
  /\ state'.report_ext = state.report_ext

\* With the same flags and steps left, the application is where it was.
LEMMA SameOwner ==
  ASSUME Undisturbed
  PROVE  /\ OwnerDue' = OwnerDue /\ BeforeLock' = BeforeLock /\ OwnerForm' = OwnerForm
         /\ RequestedMode' = RequestedMode
<1>1. RequestedMode' = RequestedMode
  BY DEF RequestedMode, Undisturbed
<1>2. OwnerDue' = OwnerDue
  BY <1>1 DEF OwnerDue, Undisturbed
<1>. QED
  BY <1>1, <1>2 DEF BeforeLock, OwnerForm, Undisturbed

\* The reader takes a step of update_reporting_mode().
LEMMA ReaderActs ==
  ASSUME Inv, NoStatus, ReaderForm, Step(Reader)
  PROVE  Undisturbed /\ NoStatus' /\ ReaderForm' /\ ModeInv' /\ (LedsPosted => LedsPosted')
<1> DEFINE q == todo[Reader]
           x == <<Post(ReportMode(Button))>>
<1>1. Reader \in Threads /\ Owner \in Threads \ {Reader}
  BY ThreadsAssumption DEF Threads
<1>2. q # <<>>
  BY OneAction
<1>3. CASE q \in {UpdateReportingMode, <<TestBoth>>, <<TestAccel>>}
  <2>1. /\ q = UpdateReportingMode => todo'[Reader] = IF state.report_accel THEN <<TestBoth>> ELSE <<TestAccel>>
        /\ q = <<TestBoth>> => todo'[Reader] = IF state.report_ext THEN ChangeMode(ButtonAccelExt16) ELSE <<TestAccel>>
        /\ q = <<TestAccel>> => todo'[Reader] = IF state.report_accel THEN ChangeMode(ButtonAccel) ELSE SendMode(Button)
        /\ \A u \in Threads \ {Reader} : todo'[u] = todo[u]
        /\ UNCHANGED <<handlers, jobs, wire, state, remote>>
    BY <1>1, <1>3, Tested
  <2>2. Undisturbed
    BY <1>1, <2>1 DEF Undisturbed
  <2>3. NoStatus' /\ (LedsPosted => LedsPosted')
    BY <2>1 DEF NoStatus, LedsPosted
  <2>4. /\ Ends(SendMode(Button), x)
        /\ ChangeMode(ButtonAccel) # <<>> /\ Head(ChangeMode(ButtonAccel)) = RemoveFromIterator
        /\ ChangeMode(ButtonAccelExt16) # <<>> /\ Head(ChangeMode(ButtonAccelExt16)) = RemoveFromIterator
    BY ModeEnds DEF Button, ButtonAccel, ButtonAccelExt16
  <2>5. SendMode(Button) # <<>> /\ <<TestBoth>> # <<>> /\ <<TestAccel>> # <<>>
    BY <2>4, EndsWith
  <2>6. todo'[Reader] # <<>>
    BY <1>3, <2>1, <2>4, <2>5, Zenon
  <2>7. \/ todo'[Reader] \in {<<TestBoth>>, <<TestAccel>>}
        \/ todo'[Reader] # <<>> /\ Head(todo'[Reader]) = RemoveFromIterator
        \/ todo'[Reader] = SendMode(Button) /\ ~state.report_accel
    BY <1>3, <2>1, <2>4, Zenon
  <2>8. ReaderForm'
    BY <2>2, <2>4, <2>7 DEF ReaderForm, Undisturbed
  <2>. QED
    BY <2>2, <2>3, <2>6, <2>8 DEF ModeInv
<1>4. CASE Head(q) = RemoveFromIterator
  <2>1. Head(q) \in Neutral
    BY <1>4, NeutralHave
  <2>2. LockFree
    BY <1>1, <1>4, <2>1, NeutralStep
  <2>. QED
    BY <1>2, <2>2 DEF LockFree
<1>5. CASE Ends(q, x) /\ (~state.report_accel \/ BeforeLock)
  <2>1. CASE q = x
    <3>1. Head(q) = Post(ReportMode(Button)) /\ Tail(q) = <<>>
      BY <2>1
    <3>2. Head(q).do = "post" /\ Head(q).rpt = ReportMode(Button) /\ ReportMode(Button).rpt = "mode"
      BY <3>1 DEF Post, ReportMode
    <3>3. ScheduleJob(Reader)
      BY <3>2, OneAction
    <3>4. /\ jobs' = Append(jobs, ReportMode(Button)) /\ Continue(Reader, <<>>)
          /\ UNCHANGED <<handlers, wire, state, remote>>
      BY <3>2, <3>3 DEF ScheduleJob
    <3>5. todo'[Reader] = <<>> \o Tail(q) /\ todo'[Owner] = todo[Owner]
      BY <1>1, <3>4, Continued
    <3>6. todo'[Reader] = <<>>
      BY <3>1, <3>5
    <3>7. Undisturbed /\ NoStatus' /\ ReaderForm'
      BY <3>4, <3>5, <3>6 DEF Undisturbed, NoStatus, ReaderForm
    <3>8. LedsPosted => LedsPosted'
      BY <3>2, <3>4, PostedAfter
    <3>9. CASE ~state.report_accel
      <4>1. ReportMode(Button) = ReportMode(RequestedMode)
        BY <3>9 DEF RequestedMode
      <4>2. ModePosted'
        BY <3>4, <4>1, PostedAfter
      <4>. QED
        BY <3>7, <3>8, <4>2 DEF ModeInv
    <3>10. CASE BeforeLock
      <4>1. OwnerDue'
        BY <3>7, <3>10, SameOwner DEF BeforeLock
      <4>. QED
        BY <3>7, <3>8, <4>1 DEF ModeInv
    <3>. QED
      BY <1>5, <3>9, <3>10
  <2>2. CASE q # x
    <3>1. Post(ReportMode(Button)) \in {Post(ReportMode(Button))} /\ x \in Seq({Post(ReportMode(Button))})
      OBVIOUS
    <3>2. Head(q) \in Neutral /\ \A y \in Seq(Neutral) : Ends(y \o Tail(q), x)
      BY <1>5, <2>2, <3>1, EndsSplit
    <3>3. PICK y \in Seq(Neutral) : Continue(Reader, y)
      BY <1>1, <3>2, NeutralStep
    <3>4. /\ state'.leds = state.leds /\ state'.report_accel = state.report_accel
          /\ state'.report_ext = state.report_ext
          /\ jobs' = jobs \/ \E r : jobs' = Append(jobs, r) /\ r.rpt \notin {"leds", "mode"}
          /\ UNCHANGED <<wire, remote>>
          /\ NoStatus'
      BY <1>1, <3>2, NeutralStep
    <3>5. todo'[Reader] = y \o Tail(q) /\ todo'[Owner] = todo[Owner]
      BY <1>1, <3>3, Continued
    <3>6. Undisturbed
      BY <3>4, <3>5 DEF Undisturbed
    <3>7. LedsPosted => LedsPosted'
      BY <3>4, PostedAfter
    <3>8. Ends(todo'[Reader], x)
      BY <3>2, <3>5
    <3>9. todo'[Reader] # <<>>
      BY <3>8, EndsWith
    <3>10. BeforeLock => BeforeLock'
      BY <3>6, SameOwner
    <3>11. ReaderForm'
      BY <1>5, <3>4, <3>8, <3>10 DEF ReaderForm
    <3>. QED
      BY <3>4, <3>6, <3>7, <3>9, <3>11 DEF ModeInv
  <2>. QED
    BY <2>1, <2>2
<1>. QED
  BY <1>2, <1>3, <1>4, <1>5 DEF ReaderForm

\* The job thread sends a report, or the user acts.
LEMMA WireActs ==
  ASSUME Inv, ReaderForm, (SendJob /\ ~LoseReport) \/ PressButton \/ PlugExtension
  PROVE  /\ Undisturbed /\ (NoStatus => NoStatus') /\ ReaderForm' /\ (ModeInv => ModeInv')
         /\ (LedsPosted => LedsPosted')
<1>1. UNCHANGED <<todo, handlers, state>>
  BY RemoteAnswers, UserActs
<1>2. Undisturbed /\ (NoStatus => NoStatus')
  BY <1>1 DEF Undisturbed, NoStatus
<1>3. ReaderForm'
  BY <1>1, <1>2, SameOwner DEF ReaderForm, Undisturbed
<1>4. jobs \in Seq(OutputReports) /\ wire \in Seq(InputReports) /\ DOMAIN remote = {"leds", "mode", "ext", "button"}
  BY DEF Inv, WireInv
<1> DEFINE M == ReportMode(RequestedMode)
           L == PlayerLeds(state.leds)
           dM == remote.mode = RequestedMode
           dL == remote.leds = state.leds
           eM == remote'.mode = RequestedMode
           eL == remote'.leds = state.leds
<1>5. M.rpt = "mode" /\ M.mode = RequestedMode /\ L.rpt = "leds" /\ L.leds = state.leds
  BY DEF ReportMode, PlayerLeds
<1>6. /\ M' = M /\ L' = L /\ dM' = eM /\ dL' = eL
  BY <1>1 DEF RequestedMode
<1>7. (ModePosted <=> LastIn(jobs, M, dM)) /\ (ModePosted' <=> LastIn(jobs', M, eM))
  BY <1>6 DEF ModePosted
<1>8. (LedsPosted <=> (state.leds # 0 => LastIn(jobs, L, dL))) /\ (LedsPosted' <=> (state.leds # 0 => LastIn(jobs', L, eL)))
  BY <1>1, <1>6 DEF LedsPosted
<1>9. CASE SendJob /\ ~LoseReport
  <2>1. /\ jobs # <<>> /\ jobs' = Tail(jobs)
        /\ \A j \in DOMAIN wire : j \in DOMAIN wire' /\ wire'[j] = wire[j]
        /\ Head(jobs).rpt = "status" => \E r : wire' = Append(wire, r) /\ r.rpt = "status"
    BY <1>9, RemoteAnswers
  <2>2. /\ Head(jobs).rpt = "mode" => eM = (Head(jobs).mode = RequestedMode)
        /\ Head(jobs).rpt # "mode" => eM = dM
        /\ Head(jobs).rpt = "leds" => eL = (Head(jobs).leds = state.leds)
        /\ Head(jobs).rpt # "leds" => eL = dL
    BY <1>4, <1>9 DEF SendJob, SendStatusRequest, SendLeds, SendReportMode, SendReadData, SendWriteData, Send
  <2>3. StatusAhead => StatusAhead'
    <3>1. /\ Head(jobs) = jobs[1] /\ DOMAIN jobs = 1 .. Len(jobs) /\ Len(jobs) \in Nat
          /\ DOMAIN jobs' = 1 .. Len(jobs) - 1 /\ \A j \in DOMAIN jobs' : jobs'[j] = jobs[j + 1]
      BY <1>4, <2>1, Queues
    <3>2. \A j \in DOMAIN jobs : j = 1 \/ (j - 1 \in DOMAIN jobs' /\ jobs'[j - 1] = jobs[j])
      BY <3>1
    <3>3. ASSUME Head(jobs).rpt = "status" PROVE StatusAhead'
      <4>1. PICK r : wire' = Append(wire, r) /\ r.rpt = "status"
        BY <2>1, <3>3
      <4>2. Len(wire) + 1 \in DOMAIN wire' /\ wire'[Len(wire) + 1] = r
        <5>1. DOMAIN wire' = 1 .. Len(wire) + 1 /\ wire'[Len(wire) + 1] = r /\ Len(wire) \in Nat
          BY <1>4, <4>1, Queues
        <5>. QED
          BY <5>1
      <4>. QED
        BY <4>1, <4>2 DEF StatusAhead
    <3>. QED
      BY <2>1, <3>1, <3>2, <3>3 DEF StatusAhead
  <2> HIDE DEF M, L, dM, dL, eM, eL
  <2>4. LastIn(jobs, M, dM) => LastIn(jobs', M, eM)
    <3>1. Head(jobs) = M => eM
      BY <1>5, <2>2
    <3>2. Head(jobs).rpt # M.rpt => (dM => eM)
      BY <1>5, <2>2
    <3>. QED
      BY <1>4, <2>1, <3>1, <3>2, LastSent
  <2>5. LastIn(jobs, L, dL) => LastIn(jobs', L, eL)
    <3>1. Head(jobs) = L => eL
      BY <1>5, <2>2
    <3>2. Head(jobs).rpt # L.rpt => (dL => eL)
      BY <1>5, <2>2
    <3>. QED
      BY <1>4, <2>1, <3>1, <3>2, LastSent
  <2>6. ModeInv => ModeInv'
    BY <1>1, <1>2, <1>7, <2>3, <2>4, SameOwner DEF ModeInv
  <2>. QED
    BY <1>2, <1>3, <1>8, <2>5, <2>6
<1>10. CASE PressButton \/ PlugExtension
  <2>1. jobs' = jobs /\ remote'.leds = remote.leds
    BY <1>4, <1>10 DEF PressButton, PlugExtension
  <2>2. LedsPosted => LedsPosted'
    BY <1>8, <2>1
  <2>3. CASE PressButton
    <3>1. remote'.mode = remote.mode
      BY <1>4, <2>3 DEF PressButton
    <3>2. ModePosted => ModePosted'
      BY <1>7, <2>1, <3>1
    <3>3. \A j \in DOMAIN wire : j \in DOMAIN wire' /\ wire'[j] = wire[j]
      <4>1. wire' = wire \/ \E r : wire' = Append(wire, r)
        BY <2>3, UserActs
      <4>2. ASSUME NEW r, wire' = Append(wire, r)
            PROVE  \A j \in DOMAIN wire : j \in DOMAIN wire' /\ wire'[j] = wire[j]
        BY <1>4, <4>2, Queues
      <4>. QED
        BY <4>1, <4>2
    <3>4. StatusAhead => StatusAhead'
      BY <2>1, <3>3 DEF StatusAhead
    <3>. QED
      BY <1>1, <1>2, <1>3, <2>2, <3>2, <3>4, SameOwner DEF ModeInv
  <2>4. CASE PlugExtension
    <3>1. wire' = Append(wire, [InputStatus EXCEPT !.ext = ~@])
      BY <2>4 DEF PlugExtension
    <3>2. [InputStatus EXCEPT !.ext = ~@].rpt = "status"
      BY DEF InputStatus
    <3>3. Len(wire) + 1 \in DOMAIN wire' /\ wire'[Len(wire) + 1].rpt = "status"
      <4>1. DOMAIN wire' = 1 .. Len(wire) + 1 /\ Len(wire) \in Nat
            /\ wire'[Len(wire) + 1] = [InputStatus EXCEPT !.ext = ~@]
        BY <1>4, <3>1, Queues
      <4>. QED
        BY <3>2, <4>1
    <3>4. StatusAhead'
      BY <3>3 DEF StatusAhead
    <3>. QED
      BY <1>2, <1>3, <2>2, <3>4 DEF ModeInv
  <2>. QED
    BY <1>10, <2>3, <2>4
<1>. QED
  BY <1>9, <1>10

\* The reader offers a report: a status report is for no handler, and makes it reset
\* the reporting mode.
LEMMA ReaderOffers ==
  ASSUME Inv, NoStatus, ReaderForm, Dispatch
  PROVE  Undisturbed /\ NoStatus' /\ ReaderForm' /\ (ModeInv => ModeInv') /\ (LedsPosted => LedsPosted')
<1>1. /\ handlers \in Seq(Others(nodes) \cup Keepers) /\ wire \in Seq(InputReports)
      /\ DOMAIN todo = Threads /\ Owner \in Threads /\ Reader \in Threads /\ Reader # Owner
  BY ThreadsAssumption DEF Inv, ListInv, WireInv, TodoInv, Threads
<1>2. LockFree /\ wire # <<>> /\ wire' = Tail(wire) /\ UNCHANGED <<jobs, remote>>
  BY DEF Dispatch, HandleUnhandled, HandleStatus, HandleData, HandleReadReply, HandleAck, TakenBy, Reaches
<1>3. \A i \in DOMAIN handlers : ~HandleStatus(i)
  BY DEF NoStatus, HandleStatus, TakenBy
<1>4. UNCHANGED state
  BY <1>3 DEF Dispatch, HandleUnhandled, HandleData, HandleReadReply, HandleAck
<1>5. /\ todo' = todo \/ todo' = [todo EXCEPT ![Reader] = UpdateReportingMode]
      /\ Head(wire).rpt = "status" => todo' = [todo EXCEPT ![Reader] = UpdateReportingMode]
  <2>1. CASE HandleUnhandled
    BY <2>1 DEF HandleUnhandled
  <2>2. CASE \E i \in DOMAIN handlers : HandleData(i) \/ HandleReadReply(i) \/ HandleAck(i)
    <3>1. PICK i \in DOMAIN handlers : HandleData(i) \/ HandleReadReply(i) \/ HandleAck(i)
      BY <2>2
    <3>2. todo' = todo /\ handlers[i].kind = Head(wire).rpt
      BY <3>1 DEF HandleData, HandleReadReply, HandleAck, TakenBy, Takes
    <3>. QED
      BY <3>2 DEF NoStatus
  <2>. QED
    BY <1>3, <2>1, <2>2 DEF Dispatch
<1>6. todo'[Owner] = todo[Owner] /\ todo'[Reader] \in {<<>>, UpdateReportingMode}
  BY <1>1, <1>2, <1>5 DEF LockFree
<1>7. Head(wire).rpt = "status" => todo'[Reader] = UpdateReportingMode
  BY <1>1, <1>5
<1>8. Undisturbed
  BY <1>4, <1>6 DEF Undisturbed
<1>9. ReaderForm'
  BY <1>6 DEF ReaderForm
<1>10. (LedsPosted => LedsPosted') /\ (ModePosted => ModePosted')
  BY <1>2, <1>4 DEF LedsPosted, ModePosted, RequestedMode
<1>11. NoStatus'
  <2>1. ASSUME NEW i \in DOMAIN handlers, NEW v, Fulfil(i, v) PROVE NoStatus'
    <3>1. i \in 1 .. Len(handlers) /\ Len(handlers) \in Nat
      BY <1>1, <2>1
    <3>2. handlers' = RemoveAt(handlers, i)
      BY <2>1 DEF Fulfil
    <3>3. /\ handlers' \in Seq(Others(nodes) \cup Keepers)
          /\ Len(handlers') = Len(handlers) - 1
          /\ \A j \in 1 .. Len(handlers) - 1 : handlers'[j] = handlers[IF j < i THEN j ELSE j + 1]
      BY <1>1, <3>1, <3>2, Removal
    <3>4. \A j \in DOMAIN handlers' : j \in 1 .. Len(handlers) - 1 /\ (IF j < i THEN j ELSE j + 1) \in DOMAIN handlers
      BY <1>1, <3>1, <3>3
    <3>. QED
      BY <3>3, <3>4 DEF NoStatus
  <2>2. ASSUME UNCHANGED handlers PROVE NoStatus'
    BY <2>2 DEF NoStatus
  <2>3. ASSUME NEW i \in DOMAIN handlers, NEW g, g.kind = handlers[i].kind, handlers' = [handlers EXCEPT ![i] = g]
        PROVE  NoStatus'
    BY <1>1, <2>3 DEF NoStatus
  <2>4. ASSUME NEW i \in DOMAIN handlers, HandleReadReply(i) PROVE NoStatus'
    <3>1. CASE \E v : Fulfil(i, v)
      BY <2>1, <3>1
    <3>2. CASE UNCHANGED handlers
      BY <2>2, <3>2
    <3> DEFINE amt == Amount(handlers[i], Head(wire))
               data == handlers[i].data \o SubSeq(Head(wire).data, 1, amt)
               g == [handlers[i] EXCEPT !.addr = @ + amt, !.left = @ - amt, !.data = data]
    <3>3. CASE handlers' = [handlers EXCEPT ![i].addr = @ + amt, ![i].left = @ - amt, ![i].data = data]
      <4>1. handlers' = [handlers EXCEPT ![i] = g]
        BY <3>3
      <4>2. g.kind = handlers[i].kind
        OBVIOUS
      <4> HIDE DEF g
      <4>. QED
        BY <2>3, <4>1, <4>2
    <3>. QED
      BY <2>4, <3>1, <3>2, <3>3 DEF HandleReadReply
  <2>5. ASSUME NEW i \in DOMAIN handlers, HandleAck(i) PROVE NoStatus'
    <3>1. CASE \E v : Fulfil(i, v)
      BY <2>1, <3>1
    <3>2. CASE handlers' = [handlers EXCEPT ![i].counter = @ - 1]
      <4> DEFINE g == [handlers[i] EXCEPT !.counter = @ - 1]
      <4>1. handlers' = [handlers EXCEPT ![i] = g] /\ g.kind = handlers[i].kind
        BY <3>2
      <4> HIDE DEF g
      <4>. QED
        BY <2>3, <4>1
    <3>. QED
      BY <2>5, <3>1, <3>2 DEF HandleAck
  <2>6. HandleUnhandled \/ (\E i \in DOMAIN handlers : HandleData(i)) => UNCHANGED handlers
    BY DEF HandleUnhandled, HandleData
  <2>. QED
    BY <1>3, <2>2, <2>4, <2>5, <2>6 DEF Dispatch
<1>12. ModeInv => ModeInv'
  <2>1. CASE Head(wire).rpt = "status"
    <3>1. UpdateReportingMode # <<>>
      BY FlagTests
    <3>. QED
      BY <1>7, <2>1, <3>1 DEF ModeInv
  <2>2. CASE Head(wire).rpt # "status"
    <3>1. /\ Head(wire) = wire[1] /\ DOMAIN wire = 1 .. Len(wire) /\ Len(wire) \in Nat
          /\ DOMAIN wire' = 1 .. Len(wire) - 1 /\ \A j \in DOMAIN wire' : wire'[j] = wire[j + 1]
      BY <1>1, <1>2, Queues
    <3>2. \A j \in DOMAIN wire : j = 1 \/ (j - 1 \in DOMAIN wire' /\ wire'[j - 1] = wire[j])
      BY <3>1
    <3>3. StatusAhead => StatusAhead'
      BY <1>2, <2>2, <3>1, <3>2 DEF StatusAhead
    <3>. QED
      BY <1>2, <1>8, <1>10, <3>3, SameOwner DEF ModeInv, LockFree
  <2>. QED
    BY <2>1, <2>2
<1>. QED
  BY <1>8, <1>9, <1>10, <1>11, <1>12

-----------------------------------------------------------------------------
(* What the application does. *)

\* A test of the flags takes the application closer to the post.
LEMMA OwnerTests ==
  ASSUME Inv, Step(Owner),
         \/ todo[Owner] = UpdateReportingMode
         \/ (state.report_accel /\ todo[Owner] = <<TestBoth>>)
         \/ (~(state.report_accel /\ state.report_ext) /\ todo[Owner] = <<TestAccel>>)
  PROVE  /\ OwnerDue' /\ (BeforeLock' \/ ~state'.report_accel)
         /\ todo'[Reader] = todo[Reader]
         /\ UNCHANGED <<handlers, jobs, wire, state, remote>>
<1>1. Owner \in Threads /\ Reader \in Threads \ {Owner}
  BY ThreadsAssumption DEF Threads
<1>2. state.report_accel \in BOOLEAN /\ state.report_ext \in BOOLEAN
  BY DEF Inv, StateInv
<1>3. /\ todo[Owner] = UpdateReportingMode => todo'[Owner] = IF state.report_accel THEN <<TestBoth>> ELSE <<TestAccel>>
      /\ todo[Owner] = <<TestBoth>> => todo'[Owner] = IF state.report_ext THEN ChangeMode(ButtonAccelExt16) ELSE <<TestAccel>>
      /\ todo[Owner] = <<TestAccel>> => todo'[Owner] = IF state.report_accel THEN ChangeMode(ButtonAccel) ELSE SendMode(Button)
      /\ todo'[Reader] = todo[Reader]
      /\ UNCHANGED <<handlers, jobs, wire, state, remote>>
  BY <1>1, Tested
<1>4. Head(<<TestBoth>>) = TestBoth /\ Head(<<TestAccel>>) = TestAccel
  OBVIOUS
<1>5. /\ Ends(SendMode(Button), <<Post(ReportMode(Button))>>)
      /\ \A m \in {ButtonAccel, ButtonAccelExt16} :
           Ends(ChangeMode(m), <<Post(ReportMode(m))>>) /\ Head(ChangeMode(m)) = RemoveFromIterator
  BY ModeEnds DEF Button, ButtonAccel, ButtonAccelExt16
<1>6. state' = state /\ RequestedMode' = RequestedMode
  BY <1>3 DEF RequestedMode
<1>7. ASSUME todo'[Owner] = <<TestBoth>>, state.report_accel PROVE OwnerDue' /\ BeforeLock'
  <2>1. OwnerDue'
    BY <1>6, <1>7 DEF OwnerDue
  <2>. QED
    BY <1>4, <1>7, <2>1 DEF BeforeLock
<1>8. ASSUME todo'[Owner] = <<TestAccel>>, ~(state.report_accel /\ state.report_ext) PROVE OwnerDue' /\ BeforeLock'
  <2>1. OwnerDue'
    BY <1>6, <1>8 DEF OwnerDue
  <2>. QED
    BY <1>4, <1>8, <2>1 DEF BeforeLock
<1>9. ASSUME NEW m \in {ButtonAccel, ButtonAccelExt16}, todo'[Owner] = ChangeMode(m), m = RequestedMode
      PROVE  OwnerDue' /\ BeforeLock'
  <2>1. OwnerDue'
    BY <1>5, <1>6, <1>9 DEF OwnerDue
  <2>. QED
    BY <1>5, <1>9, <2>1 DEF BeforeLock
<1>10. ASSUME todo'[Owner] = SendMode(Button), ~state.report_accel PROVE OwnerDue'
  <2>1. RequestedMode = Button
    BY <1>10 DEF RequestedMode
  <2>. QED
    BY <1>5, <1>6, <1>10, <2>1 DEF OwnerDue
<1>11. CASE todo[Owner] = UpdateReportingMode
  BY <1>2, <1>3, <1>7, <1>8, <1>11, Zenon
<1>12. CASE state.report_accel /\ todo[Owner] = <<TestBoth>>
  <2>1. state.report_ext => RequestedMode = ButtonAccelExt16
    BY <1>12 DEF RequestedMode
  <2>. QED
    BY <1>2, <1>3, <1>8, <1>9, <1>12, <2>1
<1>13. CASE ~(state.report_accel /\ state.report_ext) /\ todo[Owner] = <<TestAccel>>
  <2>1. state.report_accel => RequestedMode = ButtonAccel
    BY <1>13 DEF RequestedMode
  <2>. QED
    BY <1>2, <1>3, <1>6, <1>9, <1>10, <1>13, <2>1
<1>. QED
  BY <1>11, <1>12, <1>13

\* The application takes a step after the constructor's last requests.
LEMMA OwnerActs ==
  ASSUME Inv, OwnerForm, NoStatus, ModeInv, ReaderForm, LedsInv, Step(Owner)
  PROVE  OwnerForm' /\ NoStatus' /\ ModeInv' /\ ReaderForm' /\ LedsInv'
<1> DEFINE q == todo[Owner]
           M == ReportMode(RequestedMode)
           x == <<Post(M)>>
           L == PlayerLeds(state.leds)
<1>1. Owner \in Threads /\ Reader \in Threads \ {Owner} /\ q # <<>>
  BY OneAction, ThreadsAssumption DEF Threads
\* The reader waits.
<1>2. ASSUME todo'[Reader] = todo[Reader], BeforeLock' \/ ~state'.report_accel PROVE ReaderForm'
  BY <1>2 DEF ReaderForm
<1>3. ASSUME todo'[Reader] = todo[Reader], state'.report_accel = state.report_accel, BeforeLock => BeforeLock'
      PROVE  ReaderForm'
  BY <1>3 DEF ReaderForm
<1>4. ASSUME todo[Reader] = <<>>, todo'[Reader] = todo[Reader] PROVE ReaderForm'
  BY <1>4 DEF ReaderForm
<1>5. RemoveFromIterator.do = "remove" /\ M.rpt = "mode" /\ \A v : PlayerLeds(v).rpt = "leds"
  BY DEF RemoveFromIterator, ReportMode, PlayerLeds
<1>6. \A r : Post(r).do = "post" /\ Post(r).rpt = r
  BY DEF Post
<1>7. \A f, v : Store(f, v).do = "store" /\ Store(f, v).field = f /\ Store(f, v).value = v
  BY DEF Store
\* A step that posts.
<1>8. ASSUME NEW r, Head(q) = Post(r), Tail(q) = <<>>
      PROVE  /\ todo'[Owner] = <<>> /\ todo'[Reader] = todo[Reader]
             /\ jobs' = Append(jobs, r) /\ UNCHANGED <<handlers, wire, state, remote>>
             /\ ~BeforeLock
  <2>1. ScheduleJob(Owner)
    BY <1>6, <1>8, OneAction
  <2>2. jobs' = Append(jobs, r) /\ Continue(Owner, <<>>) /\ UNCHANGED <<handlers, wire, state, remote>>
    BY <1>6, <1>8, <2>1 DEF ScheduleJob
  <2>3. todo'[Owner] = <<>> \o Tail(q) /\ todo'[Reader] = todo[Reader]
    BY <1>1, <2>2, Continued
  <2>4. todo'[Owner] = <<>>
    BY <1>8, <2>3
  <2>5. ~BeforeLock
    BY <1>5, <1>6, <1>8, FlagTests DEF BeforeLock
  <2>. QED
    BY <2>2, <2>3, <2>4, <2>5
\* A neutral step.
<1>9. ASSUME NEW e, Head(q) \in Neutral, \A y \in Seq(Neutral) : Ends(y \o Tail(q), e)
      PROVE  /\ Ends(todo'[Owner], e) /\ todo'[Reader] = todo[Reader]
             /\ state'.report_accel = state.report_accel /\ RequestedMode' = RequestedMode
             /\ NoStatus' /\ LedsInv' /\ ReaderForm'
             /\ (StatusAhead => StatusAhead') /\ (ModePosted => ModePosted')
  <2>1. PICK y \in Seq(Neutral) : Continue(Owner, y)
    BY <1>1, <1>9, NeutralStep
  <2>2. /\ state'.leds = state.leds /\ state'.report_accel = state.report_accel
        /\ state'.report_ext = state.report_ext
        /\ jobs' = jobs \/ \E r : jobs' = Append(jobs, r) /\ r.rpt \notin {"leds", "mode"}
        /\ UNCHANGED <<wire, remote>>
        /\ NoStatus'
        /\ Head(q) = RemoveFromIterator => LockFree
    BY <1>1, <1>9, NeutralStep
  <2>3. todo'[Owner] = y \o Tail(q) /\ todo'[Reader] = todo[Reader]
    BY <1>1, <2>1, Continued
  <2>4. /\ RequestedMode' = RequestedMode /\ (StatusAhead => StatusAhead')
        /\ (ModePosted => ModePosted') /\ (LedsPosted => LedsPosted')
    BY <2>2, PostedAfter
  <2>5. q # <<Post(L)>>
    <3>1. Head(<<Post(L)>>) = Post(L)
      OBVIOUS
    <3>2. Post(L) \notin Neutral
      BY <1>5, <1>6, NeutralFields
    <3>. QED
      BY <1>9, <3>1, <3>2
  <2>6. LedsInv'
    BY <2>4, <2>5 DEF LedsInv
  <2>7. ReaderForm'
    <3>1. CASE BeforeLock
      <4>1. LockFree
        BY <1>9, <2>2, <3>1, FlagTests DEF BeforeLock
      <4>. QED
        BY <1>4, <2>3, <4>1 DEF LockFree
    <3>2. CASE ~BeforeLock
      BY <1>3, <2>2, <2>3, <3>2
    <3>. QED
      BY <3>1, <3>2
  <2>8. Ends(todo'[Owner], e)
    BY <1>9, <2>3
  <2>. QED
    BY <2>2, <2>3, <2>4, <2>6, <2>7, <2>8
<1>10. CASE \/ q = UpdateReportingMode
            \/ (state.report_accel /\ q = <<TestBoth>>)
            \/ (~(state.report_accel /\ state.report_ext) /\ q = <<TestAccel>>)
  <2>1. /\ OwnerDue' /\ (BeforeLock' \/ ~state'.report_accel)
        /\ todo'[Reader] = todo[Reader]
        /\ UNCHANGED <<handlers, jobs, wire, state, remote>>
    BY <1>10, OwnerTests
  <2>2. Head(q) \in {UpdateReportingMode[1], TestBoth, TestAccel}
    BY <1>10, FlagTests
  <2>3. q # <<Post(L)>>
    <3>1. Head(<<Post(L)>>).do = "post"
      BY <1>6
    <3>. QED
      BY <2>2, <3>1, FlagTests
  <2>4. LedsInv'
    BY <2>1, <2>3 DEF LedsInv, LedsPosted
  <2>. QED
    BY <1>2, <2>1, <2>4 DEF OwnerForm, ModeInv, NoStatus
<1>11. CASE Ends(q, x)
  <2>1. CASE q = x
    <3>1. Head(q) = Post(M) /\ Tail(q) = <<>>
      BY <2>1
    <3>2. /\ todo'[Owner] = <<>> /\ todo'[Reader] = todo[Reader]
          /\ jobs' = Append(jobs, M) /\ UNCHANGED <<handlers, wire, state, remote>>
          /\ ~BeforeLock
      BY <1>8, <3>1
    <3>3. ModePosted' /\ (LedsPosted => LedsPosted')
      BY <1>5, <3>2, PostedAfter
    <3>4. q # <<Post(L)>>
      <4>1. Head(<<Post(L)>>).rpt.rpt = "leds"
        BY <1>5, <1>6
      <4>. QED
        BY <1>5, <1>6, <3>1, <4>1
    <3>5. OwnerForm'
      <4>1. Ends(<<>>, <<>>)
        BY EndsWith
      <4>. QED
        BY <3>2, <4>1 DEF OwnerForm
    <3>6. ReaderForm'
      BY <1>3, <3>2
    <3>. QED
      BY <3>2, <3>3, <3>4, <3>5, <3>6 DEF ModeInv, LedsInv, NoStatus
  <2>2. CASE q # x
    <3>1. x \in Seq({Post(M)})
      OBVIOUS
    <3>2. Head(q) \in Neutral /\ \A y \in Seq(Neutral) : Ends(y \o Tail(q), x)
      BY <1>11, <2>2, <3>1, EndsSplit
    <3>3. /\ Ends(todo'[Owner], x) /\ RequestedMode' = RequestedMode
          /\ NoStatus' /\ LedsInv' /\ ReaderForm'
      BY <1>9, <3>2
    <3>4. OwnerDue'
      BY <3>3 DEF OwnerDue
    <3>. QED
      BY <3>3, <3>4 DEF OwnerForm, ModeInv
  <2>. QED
    BY <2>1, <2>2
\* With no post of a mode due, the reader's tests hold, and the mode is posted or
\* will be.
<1>12. CASE ~OwnerDue
  <2>1. ~BeforeLock /\ (todo[Reader] # <<>> \/ StatusAhead \/ ModePosted)
    BY <1>12 DEF BeforeLock, ModeInv
  <2>2. CASE Ends(q, <<>>)
    <3>1. <<>> \in Seq({})
      OBVIOUS
    <3>2. Head(q) \in Neutral /\ \A y \in Seq(Neutral) : Ends(y \o Tail(q), <<>>)
      BY <1>1, <2>2, <3>1, EndsSplit
    <3>3. /\ Ends(todo'[Owner], <<>>) /\ todo'[Reader] = todo[Reader]
          /\ NoStatus' /\ LedsInv' /\ ReaderForm'
          /\ (StatusAhead => StatusAhead') /\ (ModePosted => ModePosted')
      BY <1>9, <3>2
    <3>. QED
      BY <2>1, <3>3 DEF OwnerForm, ModeInv
  <2>3. CASE \E f \in Features, e \in BOOLEAN : q = <<Store(f, e)>> \o UpdateReportingMode
    <3>1. PICK f \in Features, e \in BOOLEAN : q = <<Store(f, e)>> \o UpdateReportingMode
      BY <2>3
    <3>2. Head(q) = Store(f, e) /\ Tail(q) = UpdateReportingMode
      <4> DEFINE a == Store(f, e)
                 b == UpdateReportingMode[1]
      <4>1. a \in {a, b} /\ <<b>> \in Seq({a, b})
        OBVIOUS
      <4> HIDE DEF a, b
      <4>2. Head(<<a>> \o <<b>>) = a /\ Tail(<<a>> \o <<b>>) = <<b>>
        BY <4>1, OneFirst
      <4>3. q = <<a>> \o <<b>>
        BY <3>1, FlagTests DEF a, b
      <4>. QED
        BY <4>2, <4>3, FlagTests DEF a, b
    <3>3. StoreState(Owner)
      BY <1>7, <3>2, OneAction
    <3>4. /\ state' = [state EXCEPT ![f] = e] /\ Continue(Owner, <<>>)
          /\ UNCHANGED <<handlers, jobs, wire, remote>>
      <4>1. Store(f, e).field = f /\ Store(f, e).value = e
        BY <1>7
      <4>2. Head(q).field = f /\ Head(q).value = e
        BY <3>2, <4>1
      <4>. QED
        BY <3>3, <4>2 DEF StoreState
    <3>5. todo'[Owner] = <<>> \o UpdateReportingMode /\ todo'[Reader] = todo[Reader]
      BY <1>1, <3>2, <3>4, Continued
    <3>6. todo'[Owner] = UpdateReportingMode
      <4>1. \A a : <<>> \o <<a>> = <<a>>
        OBVIOUS
      <4>. QED
        BY <3>5, <4>1, FlagTests, Zenon
    <3>7. OwnerDue'
      BY <3>6 DEF OwnerDue
    <3>8. Head(todo'[Owner]) = UpdateReportingMode[1]
      BY <3>6, FlagTests
    <3>9. ReaderForm'
      BY <1>2, <3>5, <3>7, <3>8 DEF BeforeLock
    <3>10. state'.leds = state.leds
      BY <3>4, FeaturesAssumption DEF Inv, StateInv
    <3>11. q # <<Post(L)>>
      <4>1. Head(<<Post(L)>>).do = "post"
        BY <1>6
      <4>. QED
        BY <1>7, <3>2, <4>1
    <3>12. LedsInv'
      BY <3>4, <3>10, <3>11 DEF LedsInv, LedsPosted
    <3>. QED
      BY <3>4, <3>7, <3>9, <3>12 DEF OwnerForm, ModeInv, NoStatus
  <2>4. CASE \E v \in Leds : q = <<Store("leds", v), Post(PlayerLeds(v))>>
    <3>1. PICK v \in Leds : q = <<Store("leds", v), Post(PlayerLeds(v))>>
      BY <2>4
    <3>2. Head(q) = Store("leds", v) /\ Tail(q) = <<Post(PlayerLeds(v))>>
      BY <3>1
    <3>3. StoreState(Owner)
      BY <1>7, <3>2, OneAction
    <3>4. /\ state' = [state EXCEPT !["leds"] = v] /\ Continue(Owner, <<>>)
          /\ UNCHANGED <<handlers, jobs, wire, remote>>
      BY <1>7, <3>2, <3>3 DEF StoreState
    <3>5. todo'[Owner] = <<>> \o Tail(q) /\ todo'[Reader] = todo[Reader]
      BY <1>1, <3>4, Continued
    <3>6. todo'[Owner] = <<Post(PlayerLeds(v))>>
      <4>1. \A a : <<>> \o <<a>> = <<a>>
        OBVIOUS
      <4>. QED
        BY <3>2, <3>5, <4>1, Zenon
    <3>7. state'.leds = v /\ state'.report_accel = state.report_accel /\ state'.report_ext = state.report_ext
      BY <3>4 DEF Inv, StateInv
    <3>8. LedsInv' /\ OwnerForm'
      BY <3>6, <3>7 DEF LedsInv, OwnerForm
    <3>9. ReaderForm'
      BY <1>3, <2>1, <3>5, <3>7
    <3>10. (StatusAhead => StatusAhead') /\ (ModePosted => ModePosted')
      BY <3>4, <3>7 DEF StatusAhead, ModePosted, RequestedMode
    <3>. QED
      BY <2>1, <3>4, <3>5, <3>8, <3>9, <3>10 DEF ModeInv, NoStatus
  <2>5. CASE q = <<Post(L)>>
    <3>1. Head(q) = Post(L) /\ Tail(q) = <<>>
      BY <2>5
    <3>2. /\ todo'[Owner] = <<>> /\ todo'[Reader] = todo[Reader]
          /\ jobs' = Append(jobs, L) /\ UNCHANGED <<handlers, wire, state, remote>>
      BY <1>8, <3>1
    <3>3. LedsPosted' /\ (StatusAhead => StatusAhead') /\ (ModePosted => ModePosted')
      BY <1>5, <3>2, PostedAfter
    <3>4. OwnerForm'
      <4>1. Ends(<<>>, <<>>)
        BY EndsWith
      <4>. QED
        BY <3>2, <4>1 DEF OwnerForm
    <3>5. ReaderForm'
      BY <1>3, <2>1, <3>2
    <3>. QED
      BY <2>1, <3>2, <3>3, <3>4, <3>5 DEF ModeInv, LedsInv, NoStatus
  <2>. QED
    BY <1>12, <2>2, <2>3, <2>4, <2>5 DEF OwnerForm
<1>. QED
  BY <1>10, <1>11, <1>12 DEF OwnerDue

\* What the application has to do when it calls.
LEMMA CallForms ==
  ASSUME SetLeds(Owner) \/ SetReport(Owner) \/ ReadData(Owner) \/ WriteData(Owner) \/ GetPresentGyro(Owner)
           \/ GetExtId(Owner)
  PROVE  \E steps :
           /\ Call(Owner, steps)
           /\ \/ Ends(steps, <<>>)
              \/ \E f \in Features, e \in BOOLEAN : steps = <<Store(f, e)>> \o UpdateReportingMode
              \/ \E v \in Leds : steps = <<Store("leds", v), Post(PlayerLeds(v))>>
<1>1. CASE SetLeds(Owner) \/ SetReport(Owner)
  BY <1>1 DEF SetLeds, SetReport
<1>2. ASSUME NEW steps \in Seq(Neutral), Call(Owner, steps)
      PROVE  \E q : Call(Owner, q) /\ Ends(q, <<>>)
  BY <1>2, EndsWith
<1>3. CASE ReadData(Owner) \/ WriteData(Owner) \/ GetPresentGyro(Owner)
  <2>1. PICK s : s \in Neutral /\ Call(Owner, <<s>>)
    <3>1. CASE ReadData(Owner)
      <4>1. PICK b \in Reads, wait \in BOOLEAN : Call(Owner, <<Read(b, wait)>>)
        BY <3>1 DEF ReadData
      <4>2. Read(b, wait) \in Neutral
        BY NeutralHave DEF ReadBlocks
      <4>. QED
        BY <4>1, <4>2
    <3>2. CASE WriteData(Owner)
      <4>1. PICK b \in Writes, wait \in BOOLEAN : Call(Owner, <<Write(b, wait)>>)
        BY <3>2 DEF WriteData
      <4>2. Write(b, wait) \in Neutral
        BY NeutralHave DEF WriteBlocks
      <4>. QED
        BY <4>1, <4>2
    <3>3. CASE GetPresentGyro(Owner)
      <4>1. Read(GyroId, TRUE) \in Neutral
        BY NeutralHave DEF ReadBlocks
      <4>. QED
        BY <3>3, <4>1 DEF GetPresentGyro
    <3>. QED
      BY <1>3, <3>1, <3>2, <3>3
  <2>2. <<s>> \in Seq(Neutral)
    BY <2>1
  <2>. QED
    BY <1>2, <2>1, <2>2
<1>4. CASE GetExtId(Owner)
  <2>1. Read(ExtId, TRUE) \in Neutral
    BY NeutralHave DEF ReadBlocks
  <2>2. Append(InitializeExtension, Read(ExtId, TRUE)) \in Seq(Neutral)
    <3>1. \A S : \A s \in S : \A q \in Seq(S) : Append(q, s) \in Seq(S)
      OBVIOUS
    <3>. QED
      BY <2>1, <3>1, ExtensionNeutral, Zenon
  <2>. QED
    BY <1>2, <1>4, <2>2 DEF GetExtId
<1>. QED
  BY <1>1, <1>3, <1>4

\* The application calls when it is in no call.
LEMMA OwnerCalls ==
  ASSUME Inv, NoStatus, ModeInv, ReaderForm, LedsInv,
         SetLeds(Owner) \/ SetReport(Owner) \/ ReadData(Owner) \/ WriteData(Owner) \/ GetPresentGyro(Owner)
           \/ GetExtId(Owner)
  PROVE  OwnerForm' /\ NoStatus' /\ ModeInv' /\ ReaderForm' /\ LedsInv'
<1>1. PICK steps :
        /\ Call(Owner, steps)
        /\ \/ Ends(steps, <<>>)
           \/ \E f \in Features, e \in BOOLEAN : steps = <<Store(f, e)>> \o UpdateReportingMode
           \/ \E v \in Leds : steps = <<Store("leds", v), Post(PlayerLeds(v))>>
  BY CallForms
<1>2. /\ todo[Owner] = <<>> /\ todo' = [todo EXCEPT ![Owner] = steps]
      /\ UNCHANGED <<handlers, jobs, wire, state, remote>>
  BY <1>1 DEF Call
<1>3. DOMAIN todo = Threads /\ Owner \in Threads /\ Reader \in Threads /\ Reader # Owner
  BY ThreadsAssumption DEF Inv, TodoInv, Threads
<1>4. todo'[Owner] = steps /\ todo'[Reader] = todo[Reader]
  BY <1>2, <1>3
<1>5. ~OwnerDue /\ ~BeforeLock /\ todo[Owner] # <<Post(PlayerLeds(state.leds))>>
  <2>1. \A a : <<a>> # <<>>
    OBVIOUS
  <2>2. ~OwnerDue
    BY <1>2, <2>1, EndsWith, FlagTests DEF OwnerDue
  <2>. QED
    BY <1>2, <2>1, <2>2 DEF BeforeLock
<1>6. OwnerForm'
  BY <1>1, <1>4 DEF OwnerForm
<1>7. ReaderForm'
  BY <1>2, <1>4, <1>5 DEF ReaderForm
<1>8. /\ StatusAhead => StatusAhead'
      /\ ModePosted => ModePosted'
      /\ LedsPosted => LedsPosted'
  BY <1>2 DEF StatusAhead, ModePosted, LedsPosted, RequestedMode
<1>. QED
  BY <1>2, <1>4, <1>5, <1>6, <1>7, <1>8 DEF ModeInv, LedsInv, NoStatus

-----------------------------------------------------------------------------
(* The theorem. *)

\* Whoever of the others acts.
LEMMA OthersAgree ==
  ASSUME Inv, NoStatus, ReaderForm, LedsInv,
         Step(Reader) \/ (SendJob /\ ~LoseReport) \/ PressButton \/ PlugExtension \/ Dispatch \/ UNCHANGED vars
  PROVE  Undisturbed /\ NoStatus' /\ ReaderForm' /\ (ModeInv => ModeInv') /\ LedsInv'
<1>1. Undisturbed /\ NoStatus' /\ ReaderForm' /\ (ModeInv => ModeInv') /\ (LedsPosted => LedsPosted')
  <2>1. CASE Step(Reader)
    BY <2>1, ReaderActs
  <2>2. CASE (SendJob /\ ~LoseReport) \/ PressButton \/ PlugExtension
    BY <2>2, WireActs
  <2>3. CASE Dispatch
    BY <2>3, ReaderOffers
  <2>4. CASE UNCHANGED vars
    <3>1. UNCHANGED <<todo, handlers, jobs, wire, state, remote>>
      BY <2>4 DEF vars
    <3>2. Undisturbed
      BY <3>1 DEF Undisturbed
    <3>3. OwnerDue' = OwnerDue /\ BeforeLock' = BeforeLock
      BY <3>2, SameOwner
    <3>4. NoStatus' /\ ReaderForm'
      BY <3>1, <3>3 DEF NoStatus, ReaderForm
    <3>5. (ModeInv => ModeInv') /\ (LedsPosted => LedsPosted')
      BY <3>1, <3>3 DEF ModeInv, StatusAhead, ModePosted, LedsPosted, RequestedMode
    <3>. QED
      BY <3>2, <3>4, <3>5
  <2>. QED
    BY <2>1, <2>2, <2>3, <2>4
<1>. QED
  BY <1>1 DEF LedsInv, Undisturbed

\* The constructor's last status request.
LEMMA ConstructorEnds ==
  ASSUME Inv, todo[Owner] \in {Construct5, Construct6}, NoStatus,
         state.leds = 0, state.report_accel = FALSE, ReaderForm, Step(Owner)
  PROVE  RemoteInv'
<1>1. Owner \in Threads /\ Reader \in Threads \ {Owner}
  BY ThreadsAssumption DEF Threads
<1>2. \A r : Post(r).do = "post" /\ Post(r).rpt = r
  BY DEF Post
<1>3. \A f, v : Store(f, v).do = "store" /\ Store(f, v).field = f /\ Store(f, v).value = v
  BY DEF Store
<1>4. ASSUME todo'[Reader] = todo[Reader], state'.report_accel = state.report_accel PROVE ReaderForm'
  BY <1>4 DEF ReaderForm
<1>5. ASSUME state'.leds = 0 PROVE LedsInv'
  BY <1>5 DEF LedsInv, LedsPosted
<1>6. CASE todo[Owner] = Construct5
  <2>1. /\ Head(todo[Owner]) = Store("data_iter", End) /\ <<>> \o Tail(todo[Owner]) = Construct6
        /\ Store("data_iter", End).field = "data_iter" /\ Store("data_iter", End).value = End
    BY <1>3, <1>6, ConstructSteps
  <2>2. StoreState(Owner)
    BY <1>3, <2>1, OneAction
  <2>3. /\ Continue(Owner, <<>>) /\ state' = [state EXCEPT !["data_iter"] = End]
        /\ UNCHANGED <<built, handlers>>
    BY <2>1, <2>2 DEF StoreState
  <2>4. todo'[Owner] = Construct6 /\ todo'[Reader] = todo[Reader]
    BY <1>1, <2>1, <2>3, Continued
  <2>5. state'.leds = 0 /\ state'.report_accel = FALSE
    BY <2>3 DEF Inv, StateInv
  <2>6. NoStatus'
    BY <2>3 DEF NoStatus
  <2>. QED
    BY <1>4, <1>5, <2>3, <2>4, <2>5, <2>6 DEF RemoteInv
<1>7. CASE todo[Owner] = Construct6
  <2>1. Head(todo[Owner]) = Post(StatusRequest) /\ <<>> \o Tail(todo[Owner]) = Construct7
    BY <1>7, ConstructSteps
  <2>2. ScheduleJob(Owner)
    BY <1>2, <2>1, OneAction
  <2>3. Continue(Owner, <<>>) /\ jobs' = Append(jobs, StatusRequest) /\ UNCHANGED <<handlers, state>>
    BY <1>2, <2>1, <2>2 DEF ScheduleJob
  <2>4. todo'[Owner] = Construct7 /\ todo'[Reader] = todo[Reader]
    BY <1>1, <2>1, <2>3, Continued
  <2>5. NoStatus'
    BY <2>3 DEF NoStatus
  <2>6. OwnerForm'
    <3>1. <<Return>> \in Seq(Neutral)
      BY NeutralHave
    <3>. QED
      BY <2>4, <3>1, EndsWith DEF OwnerForm, Construct7
  <2>7. StatusAhead'
    <3>1. jobs \in Seq(OutputReports)
      BY DEF Inv, WireInv
    <3>2. DOMAIN jobs' = 1 .. Len(jobs) + 1 /\ jobs'[Len(jobs) + 1] = StatusRequest /\ Len(jobs) \in Nat
      BY <2>3, <3>1, Queues
    <3>3. Len(jobs) + 1 \in DOMAIN jobs' /\ StatusRequest.rpt = "status"
      BY <3>2 DEF StatusRequest
    <3>. QED
      BY <3>2, <3>3 DEF StatusAhead
  <2>. QED
    BY <1>4, <1>5, <2>3, <2>4, <2>5, <2>6, <2>7 DEF RemoteInv, ModeInv
<1>. QED
  BY <1>6, <1>7

\* Every step of the program keeps the invariant.
LEMMA RemoteStep ==
  ASSUME Callers = {Owner}, MaxLosses = 0, Inv, FirstInv, RemoteInv, [Next]_vars
  PROVE  RemoteInv'
<1>1. Owner \in Callers /\ ~LoseReport
  BY ThreadsAssumption DEF FirstInv, LoseReport
<1>2. CASE ~built /\ Resetting /\ Constructing
  <2>1. /\ UNCHANGED built /\ Resetting'
        /\ Constructing' \/ (todo'[Owner] = Construct5 /\ handlers' = <<ButtonHandler>>)
    BY <1>2, ConstructorStep
  <2>2. LedsInv'
    BY <2>1 DEF Resetting, LedsInv, LedsPosted
  <2>3. ReaderForm'
    <3>1. <<Post(ReportMode(Button))>> = <<Post(ReportMode(Button))>>
          /\ <<TestExt, Post(ReportMode(Button))>> = SendMode(Button)
      BY DEF SendMode, TestExt
    <3>2. /\ Ends(<<Post(ReportMode(Button))>>, <<Post(ReportMode(Button))>>)
          /\ Ends(<<TestExt, Post(ReportMode(Button))>>, <<Post(ReportMode(Button))>>)
      BY <3>1, EndsWith, ModeEnds
    <3>. QED
      BY <2>1, <3>2 DEF Resetting, ReaderForm
  <2>4. CASE Constructing'
    BY <1>2, <2>1, <2>2, <2>3, <2>4 DEF RemoteInv
  <2>5. CASE todo'[Owner] = Construct5 /\ handlers' = <<ButtonHandler>>
    <3>1. NoStatus'
      BY <2>5 DEF NoStatus, ButtonHandler
    <3>2. state'.leds = 0 /\ state'.report_accel = FALSE
      BY <2>1 DEF Resetting
    <3>. QED
      BY <1>2, <2>1, <2>2, <2>3, <2>5, <3>1, <3>2 DEF RemoteInv
  <2>. QED
    BY <2>1, <2>4, <2>5
<1>3. CASE /\ todo[Owner] \in {Construct5, Construct6} /\ NoStatus
           /\ state.leds = 0 /\ state.report_accel = FALSE
  <2>1. ReaderForm /\ LedsInv
    BY DEF RemoteInv
  <2>2. CASE Step(Owner)
    BY <1>3, <2>1, <2>2, ConstructorEnds
  <2>3. CASE Step(Reader) \/ (SendJob /\ ~LoseReport) \/ PressButton \/ PlugExtension \/ Dispatch \/ UNCHANGED vars
    <3>1. Undisturbed /\ NoStatus' /\ ReaderForm' /\ LedsInv'
      BY <1>3, <2>1, <2>3, OthersAgree
    <3>. QED
      BY <1>3, <3>1 DEF RemoteInv, Undisturbed
  <2>4. todo[Owner] # <<>>
    BY <1>3, ConstructSteps
  <2>5. \A t, steps : Call(t, steps) => todo[t] = <<>>
    BY DEF Call
  <2>6. ~(SetLeds(Owner) \/ SetReport(Owner) \/ ReadData(Owner) \/ WriteData(Owner) \/ GetPresentGyro(Owner)
            \/ GetExtId(Owner))
    BY <2>4, <2>5, CallForms
  <2>7. Rest => UNCHANGED vars
    BY DEF Rest
  <2>. QED
    BY <1>1, <2>2, <2>3, <2>6, <2>7 DEF Next, Threads
<1>4. CASE OwnerForm /\ NoStatus /\ ModeInv
  <2>1. ReaderForm /\ LedsInv
    BY DEF RemoteInv
  <2>2. CASE Step(Owner)
    BY <1>4, <2>1, <2>2, OwnerActs DEF RemoteInv
  <2>3. CASE Step(Reader) \/ (SendJob /\ ~LoseReport) \/ PressButton \/ PlugExtension \/ Dispatch \/ UNCHANGED vars
    <3>1. Undisturbed /\ NoStatus' /\ ReaderForm' /\ ModeInv' /\ LedsInv'
      BY <1>4, <2>1, <2>3, OthersAgree
    <3>2. OwnerForm'
      BY <1>4, <3>1, SameOwner
    <3>. QED
      BY <3>1, <3>2 DEF RemoteInv
  <2>4. CASE SetLeds(Owner) \/ SetReport(Owner) \/ ReadData(Owner) \/ WriteData(Owner) \/ GetPresentGyro(Owner)
               \/ GetExtId(Owner)
    BY <1>4, <2>1, <2>4, OwnerCalls DEF RemoteInv
  <2>5. Rest => UNCHANGED vars
    BY DEF Rest
  <2>. QED
    BY <1>1, <2>2, <2>3, <2>4, <2>5 DEF Next, Threads
<1>. QED
  BY <1>2, <1>3, <1>4 DEF RemoteInv

LEMMA InitRemote == Init => RemoteInv
<1> SUFFICES ASSUME Init PROVE RemoteInv
  OBVIOUS
<1>1. built = FALSE /\ handlers = <<>> /\ state.leds = 0
  BY DEF Init
<1>2. FirstInv
  BY InitFirst
<1>3. Resetting /\ Constructing
  BY <1>1, <1>2 DEF FirstInv, ButtonFirst
<1>4. todo[Reader] = <<>>
  BY ThreadsAssumption, Zenon DEF Init, Threads
<1>. QED
  BY <1>1, <1>3, <1>4 DEF RemoteInv, ReaderForm, LedsInv, LedsPosted

\* When an application of one thread and the object have nothing left to do, the
\* remote has the LEDs that were set last, and is in the reporting mode that the
\* flags ask for, although an extension that was plugged in or out has reset the
\* mode at any moment, and although the reader posts modes too.  The wire must lose
\* nothing: a mode that is lost is posted again by nobody.
THEOREM RemoteAgreed == ASSUME Callers = {Owner}, MaxLosses = 0 PROVE Spec => []RemoteAgrees
<1>1. RemoteInv => RemoteAgrees
  <2> SUFFICES ASSUME RemoteInv, AtRest
               PROVE  (state.leds # 0 => remote.leds = state.leds) /\ remote.mode = RequestedMode
    BY DEF RemoteAgrees
  <2>1. built /\ jobs = <<>> /\ wire = <<>> /\ todo[Owner] = <<>> /\ todo[Reader] = <<>>
    BY ThreadsAssumption DEF AtRest, Threads
  <2>2. ModeInv /\ LedsInv
    BY <2>1, ConstructSteps DEF RemoteInv
  <2>3. \A a : <<a>> # <<>>
    OBVIOUS
  <2>4. ~OwnerDue
    BY <2>1, <2>3, EndsWith, FlagTests DEF OwnerDue
  <2>5. ~StatusAhead
    BY <2>1 DEF StatusAhead
  <2>6. ModePosted /\ LedsPosted
    BY <2>1, <2>2, <2>3, <2>4, <2>5 DEF ModeInv, LedsInv
  <2>7. \A r, done : LastIn(jobs, r, done) => done
    BY <2>1 DEF LastIn
  <2>. QED
    BY <2>6, <2>7 DEF ModePosted, LedsPosted
<1>. QED
  BY <1>1, InitInv, InvStep, InitFirst, FirstStep, InitRemote, RemoteStep, PTL DEF Spec

-----------------------------------------------------------------------------
(* Acknowledgements. *)

\* Of the reports s, those of a kind are the a-th to the (b - 1)-th of their kind;
\* t[i] of them come before s[i].
Tally(s, kind, t, a, b) ==
  /\ t \in [1 .. Len(s) + 1 -> Nat] /\ t[1] = a /\ t[Len(s) + 1] = b
  /\ \A i \in DOMAIN s : t[i + 1] = IF s[i].rpt = kind THEN t[i] + 1 ELSE t[i]
  /\ \A i \in DOMAIN t : t[i] <= b

\* One more report; one less; more reports, none of the kind.
LEMMA TallyAppended ==
  ASSUME NEW S, NEW s \in Seq(S), NEW x, NEW kind, NEW t, NEW a, NEW b, Tally(s, kind, t, a, b)
  PROVE  \E u : /\ Tally(Append(s, x), kind, u, a, IF x.rpt = kind THEN b + 1 ELSE b)
                /\ \A i \in DOMAIN s : u[i] = t[i]
                /\ u[Len(s) + 1] = b
<1> DEFINE n == Len(s)
           p == Append(s, x)
           c == IF x.rpt = kind THEN b + 1 ELSE b
           u == [i \in 1 .. n + 2 |-> IF i \in 1 .. n + 1 THEN t[i] ELSE c]
<1>1. /\ n \in Nat /\ DOMAIN s = 1 .. n /\ DOMAIN p = 1 .. n + 1 /\ p[n + 1] = x
      /\ \A i \in DOMAIN s : p[i] = s[i]
  BY Queues
<1>2. Len(p) = n + 1
  OBVIOUS
<1>3. /\ t \in [1 .. n + 1 -> Nat] /\ t[1] = a /\ t[n + 1] = b
      /\ \A i \in 1 .. n : t[i + 1] = IF s[i].rpt = kind THEN t[i] + 1 ELSE t[i]
      /\ \A i \in 1 .. n + 1 : t[i] <= b
  BY <1>1 DEF Tally
<1> HIDE DEF n, p
<1>4. b \in Nat /\ c \in Nat /\ b <= c
  BY <1>1, <1>3
<1>5. u \in [1 .. n + 2 -> Nat] /\ u[1] = a /\ u[n + 2] = c /\ u[n + 1] = b
  BY <1>1, <1>3, <1>4
<1>6. \A i \in 1 .. n + 1 : u[i] = t[i]
  BY <1>1
<1>7. \A i \in 1 .. n + 1 : u[i + 1] = IF p[i].rpt = kind THEN u[i] + 1 ELSE u[i]
  <2>1. ASSUME NEW i \in 1 .. n PROVE u[i + 1] = IF p[i].rpt = kind THEN u[i] + 1 ELSE u[i]
    <3>1. i \in 1 .. n + 1 /\ i + 1 \in 1 .. n + 1
      BY <1>1
    <3>. QED
      BY <1>1, <1>3, <1>6, <3>1
  <2>2. u[(n + 1) + 1] = IF p[n + 1].rpt = kind THEN u[n + 1] + 1 ELSE u[n + 1]
    BY <1>1, <1>5
  <2> TAKE i \in 1 .. n + 1
  <2>3. i \in 1 .. n \/ i = n + 1
    BY <1>1
  <2> HIDE DEF u
  <2>. QED
    BY <2>1, <2>2, <2>3
<1>8. \A i \in 1 .. n + 2 : u[i] <= c
  BY <1>1, <1>3, <1>4
<1>9. Tally(p, kind, u, a, c)
  <2>1. (n + 1) + 1 = n + 2
    BY <1>1
  <2> HIDE DEF u, c
  <2>. QED
    BY <1>1, <1>2, <1>5, <1>7, <1>8, <2>1 DEF Tally
<1>10. \A i \in DOMAIN s : u[i] = t[i]
  BY <1>1, <1>6
<1> HIDE DEF u
<1>. QED
  BY <1>5, <1>9, <1>10 DEF n, p

LEMMA TallyTaken ==
  ASSUME NEW S, NEW s \in Seq(S), s # <<>>, NEW kind, NEW t, NEW a, NEW b, Tally(s, kind, t, a, b)
  PROVE  /\ a \in Nat /\ b \in Nat /\ t[1] = a /\ (Head(s).rpt = kind => a < b)
         /\ \E u : /\ Tally(Tail(s), kind, u, IF Head(s).rpt = kind THEN a + 1 ELSE a, b)
                   /\ \A i \in DOMAIN Tail(s) : u[i] = t[i + 1]
<1> DEFINE n == Len(s)
           p == Tail(s)
           u == [i \in 1 .. n |-> t[i + 1]]
<1>1. /\ n \in Nat /\ DOMAIN s = 1 .. n /\ 1 \in DOMAIN s /\ Head(s) = s[1]
      /\ DOMAIN p = 1 .. n - 1 /\ \A i \in DOMAIN p : i + 1 \in DOMAIN s /\ p[i] = s[i + 1]
  BY Queues
<1>2. Len(p) = n - 1
  OBVIOUS
<1>3. /\ t \in [1 .. n + 1 -> Nat] /\ t[1] = a /\ t[n + 1] = b
      /\ \A i \in 1 .. n : t[i + 1] = IF s[i].rpt = kind THEN t[i] + 1 ELSE t[i]
      /\ \A i \in 1 .. n + 1 : t[i] <= b
  BY <1>1 DEF Tally
<1> HIDE DEF n, p
<1>4. t[2] = IF Head(s).rpt = kind THEN a + 1 ELSE a
  BY <1>1, <1>3
<1>5. a \in Nat /\ b \in Nat /\ t[2] <= b
  BY <1>1, <1>3
<1>6. \A i \in 1 .. n : i + 1 \in 1 .. n + 1 /\ u[i] = t[i + 1]
  BY <1>1
<1>7. u \in [1 .. n -> Nat] /\ u[1] = t[2] /\ u[n] = b
  BY <1>1, <1>3
<1>8. \A i \in DOMAIN p : u[i + 1] = IF p[i].rpt = kind THEN u[i] + 1 ELSE u[i]
  <2> TAKE i \in DOMAIN p
  <2>1. i \in 1 .. n /\ i + 1 \in 1 .. n
    BY <1>1
  <2>. QED
    BY <1>1, <1>3, <1>6, <2>1
<1>9. \A i \in 1 .. n : u[i] <= b
  BY <1>3, <1>6
<1>10. Tally(p, kind, u, t[2], b)
  <2>1. (n - 1) + 1 = n
    BY <1>1
  <2> HIDE DEF u
  <2>. QED
    BY <1>2, <1>7, <1>8, <1>9, <2>1 DEF Tally
<1>11. \A i \in DOMAIN p : u[i] = t[i + 1]
  BY <1>1
<1>12. Head(s).rpt = kind => a < b
  BY <1>4, <1>5
<1> HIDE DEF u
<1>. QED
  BY <1>3, <1>4, <1>5, <1>10, <1>11, <1>12 DEF p

LEMMA TallyExtended ==
  ASSUME NEW S, NEW s \in Seq(S), NEW q \in Seq(S), NEW kind, NEW t, NEW a, NEW b, Tally(s, kind, t, a, b),
         \A j \in DOMAIN q : q[j].rpt # kind
  PROVE  \E u : Tally(s \o q, kind, u, a, b)
<1> DEFINE n == Len(s)
           m == Len(q)
           p == s \o q
           u == [i \in 1 .. n + m + 1 |-> IF i \in 1 .. n + 1 THEN t[i] ELSE b]
<1>1. /\ n \in Nat /\ m \in Nat /\ DOMAIN s = 1 .. n /\ DOMAIN q = 1 .. m
      /\ p \in Seq(S) /\ Len(p) = n + m /\ DOMAIN p = 1 .. n + m
  OBVIOUS
<1>2. \A i \in 1 .. n + m : p[i] = IF i <= n THEN s[i] ELSE q[i - n]
  OBVIOUS
<1>3. /\ t \in [1 .. n + 1 -> Nat] /\ t[1] = a /\ t[n + 1] = b
      /\ \A i \in 1 .. n : t[i + 1] = IF s[i].rpt = kind THEN t[i] + 1 ELSE t[i]
      /\ \A i \in 1 .. n + 1 : t[i] <= b
  BY <1>1 DEF Tally
<1> HIDE DEF n, m, p
<1>4. b \in Nat
  BY <1>1, <1>3
<1>5. u \in [1 .. (n + m) + 1 -> Nat] /\ u[1] = a /\ u[(n + m) + 1] = b
  BY <1>1, <1>3, <1>4
<1>6. \A i \in DOMAIN p : u[i + 1] = IF p[i].rpt = kind THEN u[i] + 1 ELSE u[i]
  <2> TAKE i \in DOMAIN p
  <2>1. i \in 1 .. n + m /\ i + 1 \in 1 .. n + m + 1 /\ i \in 1 .. n + m + 1
    BY <1>1
  <2>2. CASE i <= n
    <3>1. i \in 1 .. n /\ i \in 1 .. n + 1 /\ i + 1 \in 1 .. n + 1
      BY <1>1, <2>1, <2>2
    <3>2. u[i] = t[i] /\ u[i + 1] = t[i + 1] /\ p[i] = s[i]
      BY <1>2, <2>1, <2>2, <3>1
    <3>. QED
      BY <1>3, <3>1, <3>2
  <2>3. CASE ~(i <= n)
    <3>1. i - n \in DOMAIN q /\ p[i] = q[i - n] /\ i + 1 \notin 1 .. n + 1
      BY <1>1, <1>2, <2>1, <2>3
    <3>2. u[i] = b
      BY <1>1, <1>3, <2>1, <2>3
    <3>3. u[i + 1] = b
      BY <2>1, <3>1
    <3>. QED
      BY <3>1, <3>2, <3>3
  <2>. QED
    BY <2>2, <2>3
<1>7. \A i \in 1 .. (n + m) + 1 : u[i] <= b
  BY <1>3, <1>4
<1> HIDE DEF u
<1>8. Tally(p, kind, u, a, b)
  BY <1>1, <1>5, <1>6, <1>7 DEF Tally
<1>. QED
  BY <1>8 DEF p

-----------------------------------------------------------------------------
(* The places of write reports. *)

WritesOf(fs) == {f \in DOMAIN fs : fs[f].ask.kind = "write"}

\* The write reports that are ever posted have places: those of write f are at lo[f]
\* to hi[f] - 1, one write comes right after another, and T is the next free place.
Slots(fs, lo, hi, T) ==
  /\ lo \in [DOMAIN fs -> Nat] /\ hi \in [DOMAIN fs -> Nat] /\ T \in Nat
  /\ \A f \in WritesOf(fs) :
       /\ lo[f] <= hi[f] /\ hi[f] <= T
       /\ lo[f] = 0 \/ \E g \in WritesOf(fs) : g < f /\ hi[g] = lo[f]
       /\ \A g \in WritesOf(fs) : g < f => hi[g] <= lo[f]
  /\ T = 0 \/ \E g \in WritesOf(fs) : hi[g] = T

\* All the pieces of the block have places: the reader's write has none, since the
\* reader never gets as far as posting.
Whole(fs, lo, hi, f) == hi[f] = lo[f] + Chunks(fs[f].ask.len)

\* The remote has executed the reports up to place E.
Executed(fs, ws, lo, hi, E) ==
  \A f \in WritesOf(fs) :
    ws[f] = IF E <= lo[f] THEN 0 ELSE IF hi[f] <= E THEN hi[f] - lo[f] ELSE E - lo[f]

\* Those from E to P - 1 are in the queue js.
Queued(js, fs, lo, hi, E, P) ==
  \E no : /\ Tally(js, "write", no, E, P)
          /\ \A i \in DOMAIN js : js[i].rpt = "write" =>
               js[i].fut \in WritesOf(fs) /\ lo[js[i].fut] <= no[i] /\ no[i] < hi[js[i].fut]

\* The handler of g has been erased, or is not yet inserted.
NoHandler(hs, fs, g) ==
  fs[g].state = "pending" /\ \A i \in DOMAIN hs : hs[i].kind = "ack" => hs[i].fut # g

\* None of an earlier write has.
Intact(hs, fs, f) == \A g \in WritesOf(fs) : g < f => ~NoHandler(hs, fs, g)

\* The reader has handled the acknowledgements of the reports up to place A: the
\* handlers are in the order of their writes, and each waits for the rest of the
\* acknowledgements of its own.
Credits(hs, fs, lo, hi, A) ==
  /\ \A i, j \in DOMAIN hs : i < j /\ hs[i].kind = "ack" /\ hs[j].kind = "ack" => hs[i].fut < hs[j].fut
  /\ \A i \in DOMAIN hs : hs[i].kind = "ack" /\ Intact(hs, fs, hs[i].fut) =>
       /\ Whole(fs, lo, hi, hs[i].fut)
       /\ hs[i].counter + (IF A <= lo[hs[i].fut] THEN lo[hs[i].fut] ELSE A) = hi[hs[i].fut]
  /\ \A f \in WritesOf(fs) :
       fs[f].state = "ready" /\ Intact(hs, fs, f) => Whole(fs, lo, hi, f) /\ hi[f] <= A

\* A write is begun: it gets the next n places; a read gets none.
SlotsGrow(fs, g, lo, hi, T, n) ==
  \E lo2, hi2 :
    /\ Slots(Append(fs, g), lo2, hi2, T + n)
    /\ \A f \in DOMAIN fs : lo2[f] = lo[f] /\ hi2[f] = hi[f]
    /\ lo2[Len(fs) + 1] = T /\ hi2[Len(fs) + 1] = T + n

LEMMA SlotsAdded ==
  ASSUME NEW S, NEW fs \in Seq(S), NEW g, NEW lo, NEW hi, NEW T, Slots(fs, lo, hi, T),
         NEW n \in Nat, n # 0 => g.ask.kind = "write"
  PROVE  SlotsGrow(fs, g, lo, hi, T, n)
<1> DEFINE N == Len(fs)
           gs == Append(fs, g)
           lo2 == [f \in 1 .. N + 1 |-> IF f \in 1 .. N THEN lo[f] ELSE T]
           hi2 == [f \in 1 .. N + 1 |-> IF f \in 1 .. N THEN hi[f] ELSE T + n]
<1>1. /\ N \in Nat /\ DOMAIN fs = 1 .. N /\ DOMAIN gs = 1 .. N + 1 /\ gs[N + 1] = g
      /\ \A f \in DOMAIN fs : gs[f] = fs[f]
  BY Queues
<1> HIDE DEF N, gs
<1>2. lo \in [1 .. N -> Nat] /\ hi \in [1 .. N -> Nat] /\ T \in Nat /\ T + n \in Nat
  BY <1>1 DEF Slots
<1>3. lo2 \in [1 .. N + 1 -> Nat] /\ hi2 \in [1 .. N + 1 -> Nat]
  BY <1>1, <1>2
<1>4. \A f \in 1 .. N : lo2[f] = lo[f] /\ hi2[f] = hi[f]
  BY <1>1
<1>5. lo2[N + 1] = T /\ hi2[N + 1] = T + n
  BY <1>1
<1> HIDE DEF lo2, hi2
<1>6. /\ \A f \in WritesOf(fs) : f \in 1 .. N /\ f \in WritesOf(gs)
      /\ \A f \in WritesOf(gs) : f \in WritesOf(fs) \/ f = N + 1
      /\ n > 0 => N + 1 \in WritesOf(gs)
  BY <1>1 DEF WritesOf
<1>7. ASSUME NEW f \in WritesOf(gs)
      PROVE  /\ lo2[f] <= hi2[f] /\ hi2[f] <= T + n
             /\ lo2[f] = 0 \/ \E h \in WritesOf(gs) : h < f /\ hi2[h] = lo2[f]
             /\ \A h \in WritesOf(gs) : h < f => hi2[h] <= lo2[f]
  <2>1. CASE f \in WritesOf(fs)
    <3>1. f \in 1 .. N /\ lo[f] <= hi[f] /\ hi[f] <= T /\ lo2[f] = lo[f] /\ hi2[f] = hi[f]
      BY <1>4, <1>6, <2>1 DEF Slots
    <3>2. lo2[f] <= hi2[f] /\ hi2[f] <= T + n
      BY <1>2, <3>1
    <3>3. lo2[f] = 0 \/ \E h \in WritesOf(gs) : h < f /\ hi2[h] = lo2[f]
      <4>1. lo[f] = 0 \/ \E h \in WritesOf(fs) : h < f /\ hi[h] = lo[f]
        BY <2>1 DEF Slots
      <4>. QED
        BY <1>4, <1>6, <3>1, <4>1
    <3>4. ASSUME NEW h \in WritesOf(gs), h < f PROVE hi2[h] <= lo2[f]
      <4>1. h \in WritesOf(fs)
        BY <1>1, <1>6, <3>1, <3>4
      <4>2. hi[h] <= lo[f]
        BY <2>1, <3>4, <4>1 DEF Slots
      <4>. QED
        BY <1>4, <1>6, <3>1, <4>1, <4>2
    <3>. QED
      BY <3>2, <3>3, <3>4
  <2>2. CASE f = N + 1
    <3>1. T = 0 \/ \E h \in WritesOf(fs) : hi[h] = T
      BY DEF Slots
    <3>2. \A h \in WritesOf(fs) : h < N + 1
      BY <1>1, <1>6
    <3>3. ASSUME NEW h \in WritesOf(gs), h < f PROVE hi2[h] <= lo2[f]
      <4>1. h \in WritesOf(fs)
        BY <1>1, <1>6, <2>2, <3>3
      <4>2. hi[h] <= T
        BY <4>1 DEF Slots
      <4>. QED
        BY <1>4, <1>5, <1>6, <2>2, <4>1, <4>2
    <3>4. lo2[f] = 0 \/ \E h \in WritesOf(gs) : h < f /\ hi2[h] = lo2[f]
      BY <1>4, <1>5, <1>6, <2>2, <3>1, <3>2
    <3>. QED
      BY <1>2, <1>5, <2>2, <3>3, <3>4
  <2>. QED
    BY <1>6, <2>1, <2>2
<1>8. T + n = 0 \/ \E h \in WritesOf(gs) : hi2[h] = T + n
  <2>1. T = 0 \/ \E h \in WritesOf(fs) : hi[h] = T
    BY DEF Slots
  <2>2. n > 0 \/ T + n = T
    BY <1>2
  <2>. QED
    BY <1>4, <1>5, <1>6, <2>1, <2>2
<1>9. Slots(gs, lo2, hi2, T + n)
  BY <1>1, <1>2, <1>3, <1>7, <1>8 DEF Slots
<1>. QED
  BY <1>1, <1>4, <1>5, <1>9 DEF gs, N, SlotsGrow

\* What concerns the writes there are stays so when they keep their places, and
\* those begun have places that nothing has got to.
LEMMA ExecutedKept ==
  ASSUME NEW fs, NEW ws, NEW lo, NEW hi, NEW E, Executed(fs, ws, lo, hi, E),
         NEW fs2, NEW ws2, NEW lo2, NEW hi2,
         \A f \in WritesOf(fs) : ws2[f] = ws[f] /\ lo2[f] = lo[f] /\ hi2[f] = hi[f],
         \A f \in WritesOf(fs2) : f \in WritesOf(fs) \/ (ws2[f] = 0 /\ E <= lo2[f])
  PROVE  Executed(fs2, ws2, lo2, hi2, E)
BY DEF Executed

LEMMA QueuedKept ==
  ASSUME NEW js, NEW fs, NEW lo, NEW hi, NEW E, NEW P, Queued(js, fs, lo, hi, E, P), NEW fs2, NEW lo2, NEW hi2,
         \A f \in WritesOf(fs) : f \in WritesOf(fs2) /\ lo2[f] = lo[f] /\ hi2[f] = hi[f]
  PROVE  Queued(js, fs2, lo2, hi2, E, P)
BY DEF Queued

\* A report is posted: it has the next place, if it is a write report.
LEMMA QueuedPosted ==
  ASSUME NEW S, NEW js \in Seq(S), NEW r, NEW fs, NEW lo, NEW hi, NEW E, NEW P, Queued(js, fs, lo, hi, E, P),
         r.rpt = "write" => r.fut \in WritesOf(fs) /\ lo[r.fut] <= P /\ P < hi[r.fut]
  PROVE  Queued(Append(js, r), fs, lo, hi, E, IF r.rpt = "write" THEN P + 1 ELSE P)
<1>1. PICK no :
        /\ Tally(js, "write", no, E, P)
        /\ \A i \in DOMAIN js : js[i].rpt = "write" =>
             js[i].fut \in WritesOf(fs) /\ lo[js[i].fut] <= no[i] /\ no[i] < hi[js[i].fut]
  BY DEF Queued
<1>2. PICK u : /\ Tally(Append(js, r), "write", u, E, IF r.rpt = "write" THEN P + 1 ELSE P)
               /\ \A i \in DOMAIN js : u[i] = no[i]
               /\ u[Len(js) + 1] = P
  BY <1>1, TallyAppended
<1> DEFINE p == Append(js, r)
           n == Len(js)
<1>3. /\ n \in Nat /\ DOMAIN js = 1 .. n /\ DOMAIN p = 1 .. n + 1 /\ p[n + 1] = r
      /\ \A i \in DOMAIN js : p[i] = js[i]
  BY Queues
<1> HIDE DEF p, n
<1>4. \A i \in DOMAIN p : i \in DOMAIN js \/ i = n + 1
  BY <1>3
<1>5. \A i \in DOMAIN p : p[i].rpt = "write" =>
        p[i].fut \in WritesOf(fs) /\ lo[p[i].fut] <= u[i] /\ u[i] < hi[p[i].fut]
  BY <1>1, <1>2, <1>3, <1>4 DEF n
<1>. QED
  BY <1>2, <1>5 DEF Queued, p

\* The first report of the queue is sent: it has place E, if it is a write report.
LEMMA QueuedSent ==
  ASSUME NEW S, NEW js \in Seq(S), js # <<>>, NEW fs, NEW lo, NEW hi, NEW E, NEW P, Queued(js, fs, lo, hi, E, P)
  PROVE  /\ E \in Nat /\ P \in Nat
         /\ Queued(Tail(js), fs, lo, hi, IF Head(js).rpt = "write" THEN E + 1 ELSE E, P)
         /\ Head(js).rpt = "write" =>
              Head(js).fut \in WritesOf(fs) /\ lo[Head(js).fut] <= E /\ E < hi[Head(js).fut]
<1>1. PICK no :
        /\ Tally(js, "write", no, E, P)
        /\ \A i \in DOMAIN js : js[i].rpt = "write" =>
             js[i].fut \in WritesOf(fs) /\ lo[js[i].fut] <= no[i] /\ no[i] < hi[js[i].fut]
  BY DEF Queued
<1>2. /\ E \in Nat /\ P \in Nat /\ no[1] = E
      /\ \E u : /\ Tally(Tail(js), "write", u, IF Head(js).rpt = "write" THEN E + 1 ELSE E, P)
                /\ \A i \in DOMAIN Tail(js) : u[i] = no[i + 1]
  BY <1>1, TallyTaken
<1>3. PICK u : /\ Tally(Tail(js), "write", u, IF Head(js).rpt = "write" THEN E + 1 ELSE E, P)
               /\ \A i \in DOMAIN Tail(js) : u[i] = no[i + 1]
  BY <1>2
<1>4. /\ Head(js) = js[1] /\ 1 \in DOMAIN js
      /\ \A j \in DOMAIN Tail(js) : j + 1 \in DOMAIN js /\ Tail(js)[j] = js[j + 1]
  BY Queues
<1>5. \A i \in DOMAIN Tail(js) : Tail(js)[i].rpt = "write" =>
        LET f == Tail(js)[i].fut IN f \in WritesOf(fs) /\ lo[f] <= u[i] /\ u[i] < hi[f]
  BY <1>1, <1>3, <1>4
<1>6. Queued(Tail(js), fs, lo, hi, IF Head(js).rpt = "write" THEN E + 1 ELSE E, P)
  BY <1>3, <1>5 DEF Queued
<1>. QED
  BY <1>1, <1>2, <1>4, <1>6

\* The counts do not run ahead of one another.
LEMMA TallyBounds ==
  ASSUME NEW S, NEW s \in Seq(S), NEW kind, NEW t, NEW a, NEW b, Tally(s, kind, t, a, b)
  PROVE  a \in Nat /\ b \in Nat /\ a <= b
<1>1. Len(s) \in Nat /\ 1 \in 1 .. Len(s) + 1 /\ Len(s) + 1 \in 1 .. Len(s) + 1
  OBVIOUS
<1>. QED
  BY <1>1 DEF Tally

\* The remote executes the report that has place E: it is one of write f.
LEMMA ExecutedOne ==
  ASSUME NEW S, NEW fs \in Seq(S), NEW ws \in Seq(Nat), Len(ws) = Len(fs),
         NEW lo, NEW hi, NEW T, Slots(fs, lo, hi, T),
         NEW E \in Nat, Executed(fs, ws, lo, hi, E), NEW f \in WritesOf(fs), lo[f] <= E, E < hi[f]
  PROVE  Executed(fs, [ws EXCEPT ![f] = @ + 1], lo, hi, E + 1)
<1> DEFINE vs == [ws EXCEPT ![f] = @ + 1]
<1>1. DOMAIN fs = 1 .. Len(fs) /\ DOMAIN ws = 1 .. Len(ws) /\ Len(fs) \in Nat
  OBVIOUS
<1>2. \A g \in WritesOf(fs) : g \in DOMAIN fs /\ g \in Nat /\ lo[g] \in Nat /\ hi[g] \in Nat
  BY <1>1 DEF WritesOf, Slots
<1>3. \A g \in WritesOf(fs) : vs[g] = IF g = f THEN ws[f] + 1 ELSE ws[g]
  BY <1>1, <1>2
<1> HIDE DEF vs
<1>4. \A g \in WritesOf(fs) : ws[g] = IF E <= lo[g] THEN 0 ELSE IF hi[g] <= E THEN hi[g] - lo[g] ELSE E - lo[g]
  BY DEF Executed
<1>5. ASSUME NEW g \in WritesOf(fs)
      PROVE  vs[g] = IF E + 1 <= lo[g] THEN 0 ELSE IF hi[g] <= E + 1 THEN hi[g] - lo[g] ELSE (E + 1) - lo[g]
  <2>1. CASE g = f
    <3>1. ws[f] = IF E <= lo[f] THEN 0 ELSE E - lo[f]
      BY <1>2, <1>4
    <3>2. ws[f] = E - lo[f] /\ vs[f] = ws[f] + 1 /\ lo[f] \in Nat /\ hi[f] \in Nat
      BY <1>2, <1>3, <3>1
    <3> DEFINE a == lo[f]
               b == hi[f]
               v == vs[f]
    <3>3. a \in Nat /\ b \in Nat /\ a <= E /\ E < b /\ v = (E - a) + 1
      BY <3>2
    <3> HIDE DEF a, b, v
    <3>4. v = IF E + 1 <= a THEN 0 ELSE IF b <= E + 1 THEN b - a ELSE (E + 1) - a
      BY <3>3
    <3>. QED
      BY <2>1, <3>4 DEF a, b, v
  <2>2. CASE g < f
    <3>1. hi[g] <= lo[f] /\ lo[g] <= hi[g]
      BY <2>2 DEF Slots
    <3>2. lo[g] \in Nat /\ hi[g] \in Nat /\ lo[f] \in Nat /\ vs[g] = ws[g] /\ hi[g] <= E
      BY <1>2, <1>3, <2>2, <3>1
    <3>3. ws[g] = hi[g] - lo[g]
      <4>1. ws[g] = IF E <= lo[g] THEN 0 ELSE hi[g] - lo[g]
        BY <1>4, <3>2
      <4>. QED
        BY <3>1, <3>2, <4>1
    <3>. QED
      BY <3>1, <3>2, <3>3
  <2>3. CASE g > f
    <3>1. f < g
      BY <1>2, <2>3
    <3>2. hi[f] <= lo[g]
      BY <3>1 DEF Slots
    <3>. QED
      BY <1>2, <1>3, <1>4, <2>3, <3>2
  <2>. QED
    BY <1>2, <2>1, <2>2, <2>3
<1>. QED
  BY <1>5 DEF Executed, vs

-----------------------------------------------------------------------------
(* The handlers of acknowledgements. *)

\* The handlers hs2 are some of hs, at the places e, and others than of
\* acknowledgements.
Thinned(hs, hs2, e) ==
  /\ \A j \in DOMAIN hs2 : hs2[j].kind = "ack" => e[j] \in DOMAIN hs /\ hs2[j] = hs[e[j]]
  /\ \A j, k \in DOMAIN hs2 : j < k => e[j] < e[k]

\* The writes fs are as they were in fs2, except that some have begun.
Begun(fs, fs2) ==
  /\ \A f \in WritesOf(fs) : f \in WritesOf(fs2) /\ fs2[f] = fs[f]
  /\ \A f \in WritesOf(fs2) : f \in WritesOf(fs) \/ fs2[f].state = "pending"

\* A handler that had been erased is not there again.
LEMMA StaysIntact ==
  ASSUME NEW hs, NEW hs2, NEW e, Thinned(hs, hs2, e), NEW fs, NEW fs2, Begun(fs, fs2),
         NEW f, Intact(hs2, fs2, f)
  PROVE  Intact(hs, fs, f)
<1> SUFFICES ASSUME NEW g \in WritesOf(fs), g < f PROVE ~NoHandler(hs, fs, g)
  BY DEF Intact
<1>1. g \in WritesOf(fs2) /\ fs2[g] = fs[g]
  BY DEF Begun
<1>2. ~NoHandler(hs2, fs2, g)
  BY <1>1 DEF Intact
<1>3. CASE fs2[g].state # "pending"
  BY <1>1, <1>3 DEF NoHandler
<1>4. CASE \E i \in DOMAIN hs2 : hs2[i].kind = "ack" /\ hs2[i].fut = g
  <2>1. PICK i \in DOMAIN hs2 : hs2[i].kind = "ack" /\ hs2[i].fut = g
    BY <1>4
  <2>2. e[i] \in DOMAIN hs /\ hs[e[i]] = hs2[i]
    BY <2>1 DEF Thinned
  <2>. QED
    BY <2>1, <2>2 DEF NoHandler
<1>. QED
  BY <1>2, <1>3, <1>4 DEF NoHandler

\* Acknowledgements stay credited when handlers are erased.
LEMMA CreditsKept ==
  ASSUME NEW hs, NEW fs, NEW lo, NEW hi, NEW A, Credits(hs, fs, lo, hi, A),
         \A i \in DOMAIN hs : hs[i].kind = "ack" => hs[i].fut \in WritesOf(fs),
         NEW hs2, NEW e, Thinned(hs, hs2, e), NEW fs2, Begun(fs, fs2), NEW lo2, NEW hi2,
         \A f \in WritesOf(fs) : lo2[f] = lo[f] /\ hi2[f] = hi[f]
  PROVE  Credits(hs2, fs2, lo2, hi2, A)
<1>1. ASSUME NEW i \in DOMAIN hs2, NEW j \in DOMAIN hs2, i < j, hs2[i].kind = "ack", hs2[j].kind = "ack"
      PROVE  hs2[i].fut < hs2[j].fut
  <2>1. e[i] \in DOMAIN hs /\ e[j] \in DOMAIN hs /\ hs2[i] = hs[e[i]] /\ hs2[j] = hs[e[j]] /\ e[i] < e[j]
    BY <1>1 DEF Thinned
  <2>. QED
    BY <1>1, <2>1 DEF Credits
<1>2. \A f \in WritesOf(fs) : (Whole(fs, lo, hi, f) => Whole(fs2, lo2, hi2, f))
  BY DEF Whole, Begun
<1>3. ASSUME NEW i \in DOMAIN hs2, hs2[i].kind = "ack", Intact(hs2, fs2, hs2[i].fut)
      PROVE  /\ Whole(fs2, lo2, hi2, hs2[i].fut)
             /\ hs2[i].counter + (IF A <= lo2[hs2[i].fut] THEN lo2[hs2[i].fut] ELSE A) = hi2[hs2[i].fut]
  <2>1. e[i] \in DOMAIN hs /\ hs2[i] = hs[e[i]]
    BY <1>3 DEF Thinned
  <2>2. Intact(hs, fs, hs[e[i]].fut) /\ hs[e[i]].kind = "ack" /\ hs[e[i]].fut \in WritesOf(fs)
    BY <1>3, <2>1, StaysIntact
  <2>3. /\ Whole(fs, lo, hi, hs[e[i]].fut)
        /\ hs[e[i]].counter + (IF A <= lo[hs[e[i]].fut] THEN lo[hs[e[i]].fut] ELSE A) = hi[hs[e[i]].fut]
    BY <2>1, <2>2 DEF Credits
  <2>4. lo2[hs[e[i]].fut] = lo[hs[e[i]].fut] /\ hi2[hs[e[i]].fut] = hi[hs[e[i]].fut]
    BY <2>2
  <2>. QED
    BY <1>2, <2>1, <2>2, <2>3, <2>4
<1>4. ASSUME NEW f \in WritesOf(fs2), fs2[f].state = "ready", Intact(hs2, fs2, f)
      PROVE  Whole(fs2, lo2, hi2, f) /\ hi2[f] <= A
  <2>1. f \in WritesOf(fs) /\ fs2[f] = fs[f]
    BY <1>4 DEF Begun
  <2>2. Intact(hs, fs, f)
    BY <1>4, StaysIntact
  <2>3. Whole(fs, lo, hi, f) /\ hi[f] <= A
    BY <1>4, <2>1, <2>2 DEF Credits
  <2>. QED
    BY <1>2, <2>1, <2>3
<1>. QED
  BY <1>1, <1>3, <1>4 DEF Credits

\* The handler of the last write is inserted.
LEMMA CreditsAdded ==
  ASSUME NEW S, NEW hs \in Seq(S), NEW R, NEW fs \in Seq(R), NEW lo, NEW hi, NEW T, Slots(fs, lo, hi, T),
         NEW A \in Nat, Credits(hs, fs, lo, hi, A),
         NEW h, h.fut = Len(fs), h.fut \in WritesOf(fs), fs[h.fut].state = "pending",
         \A i \in DOMAIN hs : hs[i].kind = "ack" => hs[i].fut \in DOMAIN fs /\ hs[i].fut # h.fut,
         h.counter \in Nat, lo[h.fut] + h.counter = hi[h.fut], Whole(fs, lo, hi, h.fut), A <= lo[h.fut]
  PROVE  Credits(Append(hs, h), fs, lo, hi, A)
<1> DEFINE gs == Append(hs, h)
           n == Len(hs) + 1
           f == Len(fs)
<1>1. /\ \A i \in DOMAIN hs : i \in DOMAIN gs /\ gs[i] = hs[i]
      /\ DOMAIN gs = 1 .. n /\ gs[n] = h /\ DOMAIN hs = 1 .. Len(hs) /\ Len(hs) \in Nat
  BY Queues
<1>2. DOMAIN fs = 1 .. f /\ f \in Nat
  OBVIOUS
<1>3. \A i \in DOMAIN gs : i \in DOMAIN hs \/ (i = n /\ \A j \in DOMAIN hs : ~(i < j))
  BY <1>1
<1> HIDE DEF gs, n, f
<1>4. \A i \in DOMAIN hs : hs[i].kind = "ack" => hs[i].fut < f
  BY <1>2 DEF f
<1>5. ASSUME NEW i \in DOMAIN gs, NEW j \in DOMAIN gs, i < j, gs[i].kind = "ack", gs[j].kind = "ack"
      PROVE  gs[i].fut < gs[j].fut
  <2>1. i \in DOMAIN hs
    BY <1>1, <1>3, <1>5
  <2>2. CASE j \in DOMAIN hs
    BY <1>1, <1>5, <2>1, <2>2 DEF Credits
  <2>3. CASE j = n
    BY <1>1, <1>4, <1>5, <2>1, <2>3 DEF f
  <2>. QED
    BY <1>3, <2>2, <2>3
<1>6. ASSUME NEW k \in DOMAIN fs, Intact(gs, fs, k) PROVE Intact(hs, fs, k)
  <2> SUFFICES ASSUME NEW g \in WritesOf(fs), g < k PROVE ~NoHandler(hs, fs, g)
    BY DEF Intact
  <2>1. ~NoHandler(gs, fs, g)
    BY <1>6 DEF Intact
  <2>2. g # f
    <3>1. g \in 1 .. f /\ k \in 1 .. f
      BY <1>2 DEF WritesOf
    <3>. QED
      BY <1>2, <3>1
  <2>3. ASSUME NEW i \in DOMAIN gs, gs[i].kind = "ack", gs[i].fut = g PROVE ~NoHandler(hs, fs, g)
    <3>1. i \in DOMAIN hs
      BY <1>1, <1>3, <2>2, <2>3 DEF f
    <3>. QED
      BY <1>1, <2>3, <3>1 DEF NoHandler
  <2>. QED
    BY <2>1, <2>3 DEF NoHandler
<1>7. ASSUME NEW i \in DOMAIN gs, gs[i].kind = "ack", Intact(gs, fs, gs[i].fut)
      PROVE  /\ Whole(fs, lo, hi, gs[i].fut)
             /\ gs[i].counter + (IF A <= lo[gs[i].fut] THEN lo[gs[i].fut] ELSE A) = hi[gs[i].fut]
  <2>1. CASE i \in DOMAIN hs
    <3>1. gs[i] = hs[i] /\ hs[i].fut \in DOMAIN fs /\ hs[i].kind = "ack"
      BY <1>1, <1>7, <2>1
    <3>2. Intact(hs, fs, hs[i].fut)
      BY <1>6, <1>7, <3>1
    <3>. QED
      BY <2>1, <3>1, <3>2 DEF Credits
  <2>2. CASE i = n
    <3>1. gs[i] = h
      BY <1>1, <2>2
    <3>2. lo[h.fut] \in Nat
      BY DEF Slots, WritesOf
    <3>. QED
      BY <3>1, <3>2
  <2>. QED
    BY <1>3, <2>1, <2>2
<1>8. ASSUME NEW g \in WritesOf(fs), fs[g].state = "ready", Intact(gs, fs, g)
      PROVE  Whole(fs, lo, hi, g) /\ hi[g] <= A
  <2>1. g \in DOMAIN fs
    BY DEF WritesOf
  <2>. QED
    BY <1>6, <1>8, <2>1 DEF Credits
<1>9. Credits(gs, fs, lo, hi, A)
  BY <1>5, <1>7, <1>8 DEF Credits
<1>. QED
  BY <1>9 DEF gs

\* The first handler of acknowledgements is that of the write whose acknowledgement
\* comes next: the one before has all of its own.
LEMMA FirstCredited ==
  ASSUME NEW hs, NEW R, NEW fs \in Seq(R), NEW lo, NEW hi, NEW T, Slots(fs, lo, hi, T),
         NEW A \in Nat, Credits(hs, fs, lo, hi, A),
         \A g \in WritesOf(fs) : fs[g].state \in {"pending", "ready"},
         NEW i \in DOMAIN hs, hs[i].kind = "ack", hs[i].fut \in WritesOf(fs),
         \A k \in DOMAIN hs : hs[k].kind = "ack" => hs[i].fut <= hs[k].fut,
         \A k \in DOMAIN hs : hs[k].kind = "ack" => hs[k].fut \in Nat,
         hs[i].counter \in Nat \ {0},
         Intact(hs, fs, hs[i].fut)
  PROVE  Whole(fs, lo, hi, hs[i].fut) /\ lo[hs[i].fut] <= A /\ hs[i].counter + A = hi[hs[i].fut]
<1> DEFINE f == hs[i].fut
           c == hs[i].counter
<1>1. Whole(fs, lo, hi, f) /\ c + (IF A <= lo[f] THEN lo[f] ELSE A) = hi[f]
  BY DEF Credits
<1>2. lo[f] \in Nat
  BY DEF Slots, WritesOf
<1>3. lo[f] <= A
  <2>1. CASE lo[f] = 0
    BY <2>1
  <2>2. CASE \E g \in WritesOf(fs) : g < f /\ hi[g] = lo[f]
    <3>1. PICK g \in WritesOf(fs) : g < f /\ hi[g] = lo[f]
      BY <2>2
    <3>2. g \in Nat /\ f \in Nat
      <4>1. DOMAIN fs = 1 .. Len(fs)
        OBVIOUS
      <4>. QED
        BY <4>1 DEF WritesOf
    <3>3. \A k \in DOMAIN hs : hs[k].kind = "ack" => hs[k].fut # g
      BY <3>1, <3>2
    <3>4. fs[g].state = "ready"
      BY <3>1, <3>3 DEF Intact, NoHandler
    <3>5. Intact(hs, fs, g)
      <4> SUFFICES ASSUME NEW k \in WritesOf(fs), k < g PROVE ~NoHandler(hs, fs, k)
        BY DEF Intact
      <4>1. DOMAIN fs = 1 .. Len(fs)
        OBVIOUS
      <4>2. k \in Nat
        BY <4>1 DEF WritesOf
      <4>3. k < f
        BY <3>1, <3>2, <4>2
      <4>. QED
        BY <4>3 DEF Intact
    <3>6. hi[g] <= A
      BY <3>4, <3>5 DEF Credits
    <3>. QED
      BY <3>1, <3>6
  <2>. QED
    BY <2>1, <2>2 DEF Slots
<1> HIDE DEF f, c
<1>4. c + A = hi[f]
  <2>1. CASE A = lo[f]
    BY <1>1, <2>1
  <2>2. CASE A # lo[f]
    <3>1. ~(A <= lo[f])
      BY <1>2, <1>3, <2>2
    <3>. QED
      BY <1>1, <3>1
  <2>. QED
    BY <2>1, <2>2
<1>. QED
  BY <1>1, <1>3, <1>4 DEF f, c

\* Handler i, the first for acknowledgements, is offered one; hs2 are the handlers,
\* from the places e, and fs2 the futures that it leads to.
Counted(hs, fs, i, hs2, e, fs2) ==
  /\ i \in DOMAIN hs /\ hs[i].kind = "ack" /\ hs[i].counter \in Nat \ {0} /\ fs[hs[i].fut].state = "pending"
  /\ \A k \in 1 .. i - 1 : hs[k].kind # "ack"
  /\ \A k \in DOMAIN hs : hs[k].kind = "ack" => hs[k].fut \in WritesOf(fs)
  /\ \A g \in WritesOf(fs) : fs[g].state \in {"pending", "ready"}
  /\ \A j \in DOMAIN hs2 : hs2[j].kind = "ack" =>
       /\ e[j] \in DOMAIN hs /\ hs[e[j]].kind = "ack" /\ hs2[j].fut = hs[e[j]].fut
       /\ e[j] # i => hs2[j] = hs[e[j]]
       /\ e[j] = i => hs[i].counter # 1 /\ hs2[j].counter = hs[i].counter - 1
  /\ \A j, k \in DOMAIN hs2 : j < k => e[j] < e[k]
  /\ WritesOf(fs2) = WritesOf(fs)
  /\ \A g \in WritesOf(fs) :
       fs2[g].ask = fs[g].ask /\ (g # hs[i].fut => fs2[g].state = fs[g].state)
  /\ hs[i].counter = 1 \/ fs2[hs[i].fut].state = fs[hs[i].fut].state

\* The acknowledgement that comes next counts for that handler.
LEMMA CreditsTaken ==
  ASSUME NEW S, NEW hs \in Seq(S), NEW R, NEW fs \in Seq(R), NEW lo, NEW hi, NEW T, Slots(fs, lo, hi, T),
         NEW A \in Nat, Credits(hs, fs, lo, hi, A),
         NEW i, NEW hs2, NEW e, NEW fs2, Counted(hs, fs, i, hs2, e, fs2)
  PROVE  Credits(hs2, fs2, lo, hi, A + 1)
<1>. /\ i \in DOMAIN hs /\ hs[i].kind = "ack" /\ hs[i].counter \in Nat \ {0} /\ fs[hs[i].fut].state = "pending"
     /\ \A k \in 1 .. i - 1 : hs[k].kind # "ack"
     /\ \A k \in DOMAIN hs : hs[k].kind = "ack" => hs[k].fut \in WritesOf(fs)
     /\ \A g \in WritesOf(fs) : fs[g].state \in {"pending", "ready"}
     /\ \A j \in DOMAIN hs2 : hs2[j].kind = "ack" =>
          /\ e[j] \in DOMAIN hs /\ hs[e[j]].kind = "ack" /\ hs2[j].fut = hs[e[j]].fut
          /\ e[j] # i => hs2[j] = hs[e[j]]
          /\ e[j] = i => hs[i].counter # 1 /\ hs2[j].counter = hs[i].counter - 1
     /\ \A j, k \in DOMAIN hs2 : j < k => e[j] < e[k]
     /\ WritesOf(fs2) = WritesOf(fs)
     /\ \A g \in WritesOf(fs) :
          fs2[g].ask = fs[g].ask /\ (g # hs[i].fut => fs2[g].state = fs[g].state)
     /\ hs[i].counter = 1 \/ fs2[hs[i].fut].state = fs[hs[i].fut].state
  BY DEF Counted
<1> DEFINE f == hs[i].fut
           c == hs[i].counter
<1>1. DOMAIN hs = 1 .. Len(hs) /\ Len(hs) \in Nat /\ DOMAIN fs = 1 .. Len(fs) /\ Len(fs) \in Nat
  OBVIOUS
<1>2. \A g \in WritesOf(fs) : g \in Nat /\ lo[g] \in Nat /\ hi[g] \in Nat
  BY <1>1 DEF WritesOf, Slots
<1>3. f \in WritesOf(fs) /\ f \in Nat /\ \A k \in DOMAIN hs : hs[k].kind = "ack" => hs[k].fut \in Nat
  BY <1>2
<1>4. \A k \in DOMAIN hs : hs[k].kind = "ack" => k = i \/ (i < k /\ f < hs[k].fut)
  <2> SUFFICES ASSUME NEW k \in DOMAIN hs, hs[k].kind = "ack", k # i PROVE i < k /\ f < hs[k].fut
    OBVIOUS
  <2>1. i < k
    BY <1>1
  <2>. QED
    BY <2>1 DEF Credits
<1>5. ASSUME NEW k, Intact(hs2, fs2, k) PROVE Intact(hs, fs, k)
  <2> SUFFICES ASSUME NEW g \in WritesOf(fs), g < k, NoHandler(hs, fs, g) PROVE FALSE
    BY DEF Intact
  <2>1. g # f
    BY DEF NoHandler
  <2>2. fs2[g].state = "pending"
    BY <2>1 DEF NoHandler
  <2>3. \A j \in DOMAIN hs2 : hs2[j].kind = "ack" => hs2[j].fut # g
    BY DEF NoHandler
  <2>4. NoHandler(hs2, fs2, g) /\ g \in WritesOf(fs2)
    BY <2>2, <2>3 DEF NoHandler
  <2>. QED
    BY <1>5, <2>4 DEF Intact
<1>6. \A g \in WritesOf(fs) : Whole(fs, lo, hi, g) => Whole(fs2, lo, hi, g)
  BY DEF Whole
<1>7. ASSUME Intact(hs, fs, f)
      PROVE  Whole(fs, lo, hi, f) /\ lo[f] <= A /\ c + A = hi[f]
  <2>1. \A k \in DOMAIN hs : hs[k].kind = "ack" => f <= hs[k].fut
    BY <1>3, <1>4
  <2>. QED
    BY <1>3, <1>7, <2>1, FirstCredited
<1>8. ASSUME NEW k \in DOMAIN hs, hs[k].kind = "ack", Intact(hs, fs, hs[k].fut) PROVE Intact(hs, fs, f)
  <2> SUFFICES ASSUME NEW g \in WritesOf(fs), g < f PROVE ~NoHandler(hs, fs, g)
    BY DEF Intact
  <2>1. g < hs[k].fut
    BY <1>2, <1>3, <1>4, <1>8
  <2>. QED
    BY <1>8, <2>1 DEF Intact
<1>9. ASSUME NEW j \in DOMAIN hs2, NEW k \in DOMAIN hs2, j < k, hs2[j].kind = "ack", hs2[k].kind = "ack"
      PROVE  hs2[j].fut < hs2[k].fut
  <2>1. /\ e[j] \in DOMAIN hs /\ e[k] \in DOMAIN hs /\ hs[e[j]].kind = "ack" /\ hs[e[k]].kind = "ack"
        /\ hs2[j].fut = hs[e[j]].fut /\ hs2[k].fut = hs[e[k]].fut /\ e[j] < e[k]
    BY <1>9
  <2>. QED
    BY <2>1 DEF Credits
<1>10. ASSUME NEW j \in DOMAIN hs2, hs2[j].kind = "ack", Intact(hs2, fs2, hs2[j].fut)
       PROVE  /\ Whole(fs2, lo, hi, hs2[j].fut)
              /\ hs2[j].counter + (IF A + 1 <= lo[hs2[j].fut] THEN lo[hs2[j].fut] ELSE A + 1) = hi[hs2[j].fut]
  <2> DEFINE k == e[j]
             g == hs[k].fut
  <2>1. k \in DOMAIN hs /\ hs[k].kind = "ack" /\ hs2[j].fut = g /\ g \in WritesOf(fs)
    BY <1>10
  <2>2. Intact(hs, fs, g) /\ Intact(hs, fs, f)
    BY <1>5, <1>8, <1>10, <2>1
  <2>3. /\ Whole(fs, lo, hi, g)
        /\ hs[k].counter + (IF A <= lo[g] THEN lo[g] ELSE A) = hi[g]
    BY <2>1, <2>2 DEF Credits
  <2>4. Whole(fs2, lo, hi, g)
    BY <1>6, <2>1, <2>3
  <2>5. lo[f] <= A /\ c + A = hi[f]
    BY <1>7, <2>2
  <2>6. CASE k = i
    <3>1. g = f /\ hs2[j].counter = c - 1
      BY <1>10, <2>6
    <3>2. ~(A + 1 <= lo[f])
      <4>1. \A l \in Nat : l <= A => ~(A + 1 <= l)
        OBVIOUS
      <4>. QED
        BY <1>2, <1>3, <2>5, <4>1
    <3>3. (c - 1) + (A + 1) = hi[f]
      <4>1. \A x \in Nat : (x - 1) + (A + 1) = x + A
        OBVIOUS
      <4>2. c \in Nat
        OBVIOUS
      <4>. QED
        BY <2>5, <4>1, <4>2
    <3> HIDE DEF f, c, g
    <3>. QED
      BY <2>1, <2>4, <3>1, <3>2, <3>3
  <2>7. CASE k # i
    <3>1. hs2[j] = hs[k] /\ f < g
      BY <1>4, <1>10, <2>1, <2>7
    <3>2. hi[f] <= lo[g]
      BY <1>3, <2>1, <3>1 DEF Slots
    <3>3. A + 1 <= lo[g] /\ A <= lo[g]
      BY <1>2, <1>3, <2>1, <2>5, <3>2
    <3>4. hs[k].counter + lo[g] = hi[g]
      BY <2>3, <3>3
    <3> HIDE DEF f, c, g, k
    <3>. QED
      BY <2>1, <2>4, <3>1, <3>3, <3>4
  <2>. QED
    BY <2>6, <2>7
<1>11. ASSUME NEW g \in WritesOf(fs2), fs2[g].state = "ready", Intact(hs2, fs2, g)
       PROVE  Whole(fs2, lo, hi, g) /\ hi[g] <= A + 1
  <2>1. Intact(hs, fs, g) /\ hi[g] \in Nat
    BY <1>2, <1>5, <1>11
  <2>2. CASE g = f
    <3>1. c = 1
      BY <1>11, <2>2
    <3>. QED
      BY <1>6, <1>7, <1>11, <2>1, <2>2, <3>1
  <2>3. CASE g # f
    <3>1. fs[g].state = "ready"
      BY <1>11, <2>3
    <3>2. Whole(fs, lo, hi, g) /\ hi[g] <= A
      BY <1>11, <2>1, <3>1 DEF Credits
    <3>. QED
      BY <1>6, <1>11, <2>1, <3>2
  <2>. QED
    BY <2>2, <2>3
<1>. QED
  BY <1>9, <1>10, <1>11 DEF Credits

\* No handler waits for an acknowledgement: it counts for nobody.
LEMMA CreditsIgnored ==
  ASSUME NEW hs, NEW fs, NEW lo, NEW hi, NEW T, Slots(fs, lo, hi, T),
         NEW A \in Nat, Credits(hs, fs, lo, hi, A), \A i \in DOMAIN hs : hs[i].kind # "ack"
  PROVE  Credits(hs, fs, lo, hi, A + 1)
<1>1. \A f \in WritesOf(fs) : hi[f] \in Nat
  BY DEF Slots, WritesOf
<1>2. \A f \in WritesOf(fs) : hi[f] <= A => hi[f] <= A + 1
  BY <1>1
<1>. QED
  BY <1>2 DEF Credits

-----------------------------------------------------------------------------
(* Steps that neither post a write report nor insert the handler of a write. *)

Dry ==
  {s \in FirstSteps \cup UNION {Steps(n) : n \in Nat} :
     /\ s.do = "add" => s.handler.kind # "ack"
     /\ s.do = "post" => s.rpt.rpt # "write"}

\* The steps of the member functions that are dry.
LEMMA DryHave ==
  /\ \A s \in Tests : s \in Dry
  /\ Add(StatusHandler) \in Dry /\ Add(ButtonHandler) \in Dry
  /\ RemoveFromIterator \in Dry /\ Return \in Dry
  /\ AddData(ButtonAccel) \in Dry /\ AddData(ButtonAccelExt16) \in Dry
  /\ \A r \in OtherReports : Post(r) \in Dry
  /\ \A v \in Leds : Store("leds", v) \in Dry
  /\ Store("ext_mode", 85) \in Dry
  /\ \A k \in Nat : Store("data_iter", k) \in Dry
  /\ \A f \in Features, v \in BOOLEAN : Store(f, v) \in Dry
  /\ \A b \in ReadBlocks, wait \in BOOLEAN : Read(b, wait) \in Dry
  /\ \A b \in WriteBlocks, wait \in BOOLEAN : Write(b, wait) \in Dry
  /\ \A f \in Nat : Await(f) \in Dry
  /\ \A f \in Nat, b \in ReadBlocks : Add(ReadHandler(f, b)) \in Dry
<1>1. ASSUME NEW s, NEW n \in Nat, s \in FirstSteps \cup Steps(n),
             s.do = "add" => s.handler.kind # "ack",
             s.do = "post" => s.rpt.rpt # "write"
      PROVE  s \in Dry
  BY <1>1 DEF Dry
<1>2. ASSUME NEW n \in Nat, NEW s \in Steps(n), s.do # "post" PROVE s \in Dry
  <2>1. s.do = "add" => s.handler \in Others(n)
    BY StepFields
  <2>2. s.do = "add" => s.handler.kind # "ack"
    BY <2>1, HandlerFields, KeepersApart
  <2>. QED
    BY <1>1, <1>2, <2>2
<1>3. 0 \in Nat
  OBVIOUS
<1>4. \A s \in Tests : s.do = "if"
  <2>1. StartExt.do = "if" /\ TestExt.do = "if" /\ TestAccel.do = "if" /\ TestBoth.do = "if"
    BY DEF StartExt, InitializeExtension, TestExt, TestAccel, TestBoth, IfState
  <2>2. UpdateReportingMode[1].do = "if"
    BY DEF UpdateReportingMode, IfState
  <2>. QED
    BY <2>1, <2>2 DEF Tests
<1>5. /\ \A h : Add(h).do = "add" /\ Add(h).handler = h
      /\ \A r : Post(r).do = "post" /\ Post(r).rpt = r
      /\ \A f, v : Store(f, v).do = "store"
      /\ \A b, w : Read(b, w).do = "read" /\ Write(b, w).do = "write"
      /\ \A f : Await(f).do = "await"
      /\ \A m : AddData(m).do = "addData"
      /\ Return.do = "return" /\ RemoveFromIterator.do = "remove"
      /\ \A f, b : ReadHandler(f, b).kind = "read"
  BY DEF Add, Post, Store, Read, Write, Await, AddData, Return, RemoveFromIterator, ReadHandler
<1>6. \A s \in Tests : s \in Dry
  BY <1>2, <1>3, <1>4, StepsHave
<1>7. /\ Add(StatusHandler) \in Dry /\ Add(ButtonHandler) \in Dry
      /\ RemoveFromIterator \in Dry /\ Return \in Dry
      /\ AddData(ButtonAccel) \in Dry /\ AddData(ButtonAccelExt16) \in Dry
  BY <1>2, <1>3, <1>5, StepsHave
<1>8. \A r \in OtherReports : Post(r) \in Dry
  <2>1. \A r \in OtherReports : r.rpt # "write"
    BY DEF OtherReports, StatusRequest, PlayerLeds, ReportMode, ReadBlock
  <2>. QED
    BY <1>1, <1>3, <1>5, <2>1, StepsHave
<1>9. /\ \A v \in Leds : Store("leds", v) \in Dry
      /\ Store("ext_mode", 85) \in Dry
      /\ \A f \in Features, v \in BOOLEAN : Store(f, v) \in Dry
  BY <1>2, <1>3, <1>5, StepsHave
<1>10. ASSUME NEW k \in Nat PROVE Store("data_iter", k) \in Dry
  <2>1. Store("data_iter", k) \in Steps(k)
    BY StepsHave
  <2>. QED
    BY <1>2, <1>5, <2>1
<1>11. (\A b \in ReadBlocks, wait \in BOOLEAN : Read(b, wait) \in Dry) /\ (\A f \in Nat : Await(f) \in Dry)
  BY <1>2, <1>3, <1>5, StepsHave
<1>12. \A b \in WriteBlocks, wait \in BOOLEAN : Write(b, wait) \in Dry
  BY <1>2, <1>3, <1>5, StepsHave
<1>13. ASSUME NEW f \in Nat, NEW b \in ReadBlocks PROVE Add(ReadHandler(f, b)) \in Dry
  <2>1. ReadHandler(f, b) \in Keepers
    BY BlockFacts DEF ReadHandler, Keepers
  <2>2. Add(ReadHandler(f, b)) \in FirstSteps
    BY <2>1 DEF FirstSteps, Add
  <2>. QED
    BY <1>1, <1>3, <1>5, <2>2
<1>. QED
  BY <1>6, <1>7, <1>8, <1>9, <1>10, <1>11, <1>12, <1>13

\* What a dry step may be.
LEMMA DryFields ==
  ASSUME NEW s \in Dry
  PROVE  /\ s.do = "add" => s.handler.kind # "ack"
         /\ s.do = "post" => s.rpt.rpt # "write"
         /\ s.do = "if" => s \in Tests
         /\ s.do = "read" => s.block \in ReadBlocks /\ s.wait \in BOOLEAN
         /\ s.do = "write" => s.block \in WriteBlocks /\ s.wait \in BOOLEAN
<1>1. PICK n \in Nat : s \in Steps(n) \cup FirstSteps
  BY DEF Dry
<1>2. /\ s.do = "if" => s \in Tests
      /\ s.do = "read" => s.block \in ReadBlocks /\ s.wait \in BOOLEAN
      /\ s.do = "write" => s.block \in WriteBlocks /\ s.wait \in BOOLEAN
  BY <1>1, StepFields
<1>. QED
  BY <1>2 DEF Dry

\* The tests lead to dry steps.
LEMMA BranchesDry ==
  /\ InitializeExtension \in Seq(Dry)
  /\ UpdateReportingMode \in Seq(Dry)
  /\ \A s \in Tests : s.then \in Seq(Dry) /\ s.else \in Seq(Dry)
<1> USE DryHave
<1> DEFINE writes == [i \in DOMAIN ExtInit |-> Write(ExtInit[i], FALSE)]
<1>1. writes \in Seq(Dry)
  <2>1. \A i \in DOMAIN ExtInit : Write(ExtInit[i], FALSE) \in Dry
    BY DEF WriteBlocks
  <2>2. DOMAIN ExtInit = 1 .. Len(ExtInit) /\ Len(ExtInit) \in Nat
    BY BlocksAssumption
  <2>3. writes \in [1 .. Len(ExtInit) -> Dry]
    BY <2>1, <2>2
  <2>. QED
    BY <2>2, <2>3, FunctionIsSequence
<1>2. Append(writes, Store("ext_mode", 85)) \in Seq(Dry) /\ <<>> \in Seq(Dry)
  BY <1>1
<1>3. StartExt = IfState("ext_mode", 0, Append(writes, Store("ext_mode", 85)), <<>>)
  BY DEF StartExt, InitializeExtension
<1>4. InitializeExtension = <<StartExt>>
  BY <1>3 DEF InitializeExtension
<1>5. /\ StartExt \in Dry /\ TestExt \in Dry /\ TestAccel \in Dry /\ TestBoth \in Dry
      /\ UpdateReportingMode[1] \in Dry
  BY Zenon DEF Tests
<1>6. StartExt.then = Append(writes, Store("ext_mode", 85)) /\ StartExt.else = <<>>
  BY <1>3 DEF IfState
<1>7. InitializeExtension \in Seq(Dry)
  <2>1. <<StartExt>> \in Seq(Dry)
    BY <1>5
  <2>. QED
    BY <1>4, <2>1
<1>8. ASSUME NEW m \in Modes
      PROVE  SendMode(m) \in Seq(Dry)
  <2>1. Post(ReportMode(m)) \in Dry
    BY ReportsHave
  <2>2. SendMode(m) = <<TestExt, Post(ReportMode(m))>>
    BY DEF SendMode, TestExt
  <2>. QED
    BY <1>5, <2>1, <2>2
<1>9. ASSUME NEW m \in {ButtonAccel, ButtonAccelExt16}
      PROVE  ChangeMode(m) \in Seq(Dry)
  <2>1. AddData(m) \in Dry /\ RemoveFromIterator \in Dry
    OBVIOUS
  <2>2. <<RemoveFromIterator, AddData(m)>> \in Seq(Dry)
    BY <2>1
  <2>3. SendMode(m) \in Seq(Dry)
    BY <1>8 DEF Modes
  <2>. QED
    BY <2>2, <2>3 DEF ChangeMode
<1>10. <<TestAccel>> \in Seq(Dry) /\ <<TestBoth>> \in Seq(Dry)
  BY <1>5
<1>11. /\ UpdateReportingMode = <<UpdateReportingMode[1]>>
       /\ UpdateReportingMode[1].then = <<TestBoth>>
       /\ UpdateReportingMode[1].else = <<TestAccel>>
  BY DEF UpdateReportingMode, TestBoth, TestAccel, IfState
<1>12. UpdateReportingMode \in Seq(Dry)
  <2>1. <<UpdateReportingMode[1]>> \in Seq(Dry)
    BY <1>5
  <2>. QED
    BY <1>11, <2>1, Zenon
<1>13. TestExt.then = InitializeExtension /\ TestExt.else = <<>>
  BY DEF TestExt, IfState
<1>14. TestAccel.then = ChangeMode(ButtonAccel) /\ TestAccel.else = SendMode(Button)
  BY DEF TestAccel, IfState
<1>15. TestBoth.then = ChangeMode(ButtonAccelExt16) /\ TestBoth.else = <<TestAccel>>
  BY DEF TestBoth, IfState
<1>16. SendMode(Button) \in Seq(Dry)
  BY <1>8 DEF Modes
<1> HIDE DEF writes
<1>. QED
  BY <1>2, <1>6, <1>7, <1>9, <1>10, <1>11, <1>12, <1>13, <1>14, <1>15, <1>16 DEF Tests

\* The thread still has to post m reports of write f, and then takes dry steps.
Pend(q, f, m) ==
  /\ m \in Nat /\ m <= Len(q)
  /\ \A i \in 1 .. m : q[i].do = "post" /\ q[i].rpt \in WriteReports /\ q[i].rpt.fut = f
  /\ \A i \in DOMAIN q : i > m => q[i] \in Dry

LEMMA PendTaken ==
  ASSUME NEW S, NEW q \in Seq(S), NEW f, NEW m, Pend(q, f, m)
  PROVE  /\ m = 0 => q \in Seq(Dry)
         /\ m > 0 => /\ q # <<>> /\ Head(q).do = "post" /\ Head(q).rpt \in WriteReports /\ Head(q).rpt.fut = f
                     /\ Pend(Tail(q), f, m - 1)
<1>1. /\ DOMAIN q = 1 .. Len(q) /\ Len(q) \in Nat /\ m \in Nat /\ m <= Len(q)
  BY DEF Pend
<1>2. ASSUME m = 0 PROVE q \in Seq(Dry)
  <2>1. \A i \in 1 .. Len(q) : q[i] \in Dry
    BY <1>1, <1>2 DEF Pend
  <2>. QED
    BY <2>1
<1>3. ASSUME m > 0
      PROVE  /\ q # <<>> /\ Head(q).do = "post" /\ Head(q).rpt \in WriteReports /\ Head(q).rpt.fut = f
             /\ Pend(Tail(q), f, m - 1)
  <2>1. q # <<>> /\ 1 \in 1 .. m
    BY <1>1, <1>3
  <2> DEFINE p == Tail(q)
  <2>2. /\ Head(q) = q[1] /\ DOMAIN p = 1 .. Len(q) - 1
        /\ \A j \in DOMAIN p : j + 1 \in DOMAIN q /\ p[j] = q[j + 1]
    BY <2>1, Queues
  <2>3. Len(p) = Len(q) - 1
    BY <2>1
  <2> HIDE DEF p
  <2>4. m - 1 \in Nat /\ m - 1 <= Len(p)
    BY <1>1, <1>3, <2>3
  <2>5. ASSUME NEW i \in 1 .. m - 1 PROVE p[i].do = "post" /\ p[i].rpt \in WriteReports /\ p[i].rpt.fut = f
    <3>1. i \in DOMAIN p /\ i + 1 \in 1 .. m
      BY <1>1, <2>2
    <3>. QED
      BY <2>2, <3>1 DEF Pend
  <2>6. ASSUME NEW i \in DOMAIN p, i > m - 1 PROVE p[i] \in Dry
    <3>1. i + 1 > m
      BY <1>1, <2>2, <2>6
    <3>. QED
      BY <2>2, <3>1 DEF Pend
  <2>7. Pend(p, f, m - 1)
    BY <2>4, <2>5, <2>6 DEF Pend
  <2>. QED
    BY <2>1, <2>2, <2>7 DEF Pend, p
<1>. QED
  BY <1>2, <1>3

\* write_data() leads to such steps.
LEMMA PendBegun ==
  ASSUME NEW S, Dry \subseteq S, NEW a \in S, NEW n \in Nat, NEW f, NEW p \in [1 .. n -> S],
         \A k \in 1 .. n : p[k].do = "post" /\ p[k].rpt \in WriteReports /\ p[k].rpt.fut = f,
         NEW w \in Seq(Dry), NEW r \in Seq(Dry)
  PROVE  LET q == (<<a>> \o p \o w) \o r
         IN  q # <<>> /\ Head(q) = a /\ Pend(Tail(q), f, n)
<1> DEFINE d == w \o r
           y == p \o d
<1>1. w \in Seq(S) /\ r \in Seq(S)
  OBVIOUS
<1>2. p \in Seq(S) /\ Len(p) = n
  BY FunctionIsSequence
<1>3. (<<a>> \o p \o w) \o r = <<a>> \o y
  BY <1>1, <1>2
<1>4. d \in Seq(Dry) /\ d \in Seq(S) /\ DOMAIN d = 1 .. Len(d) /\ Len(d) \in Nat
  BY <1>1
<1>5. \A i \in DOMAIN d : d[i] \in Dry
  BY <1>4
<1> HIDE DEF d
<1>6. /\ y \in Seq(S) /\ Len(y) = n + Len(d) /\ DOMAIN y = 1 .. n + Len(d)
      /\ \A i \in 1 .. n : y[i] = p[i]
      /\ \A i \in DOMAIN y : i > n => i - n \in DOMAIN d /\ y[i] = d[i - n]
  <2>1. \A T : \A s, x \in Seq(T) :
          /\ s \o x \in Seq(T) /\ Len(s \o x) = Len(s) + Len(x)
          /\ \A i \in 1 .. Len(s) + Len(x) : (s \o x)[i] = IF i <= Len(s) THEN s[i] ELSE x[i - Len(s)]
    OBVIOUS
  <2>2. y \in Seq(S) /\ Len(y) = n + Len(d)
    BY <1>2, <1>4, <2>1, Zenon
  <2>3. \A i \in 1 .. n + Len(d) : y[i] = IF i <= n THEN p[i] ELSE d[i - n]
    BY <1>2, <1>4, <2>1, Zenon
  <2> HIDE DEF y
  <2>4. DOMAIN y = 1 .. n + Len(d)
    BY <2>2
  <2>. QED
    BY <1>4, <2>2, <2>3, <2>4
<1> HIDE DEF y
<1>7. Pend(y, f, n)
  <2>1. n <= Len(y)
    BY <1>4, <1>6
  <2>2. \A i \in 1 .. n : y[i].do = "post" /\ y[i].rpt \in WriteReports /\ y[i].rpt.fut = f
    BY <1>6
  <2>3. \A i \in DOMAIN y : i > n => y[i] \in Dry
    <3>1. \A i \in DOMAIN y : i > n => i - n \in DOMAIN d /\ y[i] = d[i - n]
      BY <1>6
    <3>. QED
      BY <1>5, <3>1, Zenon
  <2>. QED
    BY <2>1, <2>2, <2>3, Zenon DEF Pend
<1>8. <<a>> \o y # <<>> /\ Head(<<a>> \o y) = a /\ Tail(<<a>> \o y) = y
  BY <1>6
<1>. QED
  BY <1>3, <1>7, <1>8

\* Handlers that stay where they are, and one that is removed.
LEMMA ThinnedHave ==
  /\ \A S : \A hs, hs2 \in Seq(S) :
       (\A j \in DOMAIN hs2 : hs2[j].kind = "ack" => j \in DOMAIN hs /\ hs2[j] = hs[j]) => \E e : Thinned(hs, hs2, e)
  /\ \A S : \A hs \in Seq(S) : \A i \in DOMAIN hs : \E e : Thinned(hs, RemoveAt(hs, i), e)
<1>1. ASSUME NEW S, NEW hs \in Seq(S), NEW hs2 \in Seq(S),
             \A j \in DOMAIN hs2 : hs2[j].kind = "ack" => j \in DOMAIN hs /\ hs2[j] = hs[j]
      PROVE  \E e : Thinned(hs, hs2, e)
  <2> DEFINE e == [j \in Nat |-> j]
  <2>1. DOMAIN hs2 \subseteq Nat
    OBVIOUS
  <2>2. \A j \in DOMAIN hs2 : e[j] = j
    BY <2>1
  <2> HIDE DEF e
  <2>3. Thinned(hs, hs2, e)
    BY <1>1, <2>1, <2>2 DEF Thinned
  <2>. QED
    BY <2>3
<1>2. ASSUME NEW S, NEW hs \in Seq(S), NEW i \in DOMAIN hs
      PROVE  \E e : Thinned(hs, RemoveAt(hs, i), e)
  <2> DEFINE e == [j \in Nat |-> IF j < i THEN j ELSE j + 1]
             gs == RemoveAt(hs, i)
  <2>1. i \in 1 .. Len(hs) /\ Len(hs) \in Nat /\ DOMAIN hs = 1 .. Len(hs)
    OBVIOUS
  <2>2. gs \in Seq(S) /\ Len(gs) = Len(hs) - 1 /\ \A j \in 1 .. Len(hs) - 1 : gs[j] = hs[IF j < i THEN j ELSE j + 1]
    BY <2>1, Removal
  <2>3. DOMAIN gs = 1 .. Len(hs) - 1
    BY <2>2
  <2> HIDE DEF gs
  <2>4. \A j \in DOMAIN gs : j \in Nat /\ e[j] = IF j < i THEN j ELSE j + 1
    BY <2>3
  <2> HIDE DEF e
  <2>5. \A j \in DOMAIN gs : e[j] \in DOMAIN hs /\ gs[j] = hs[e[j]]
    BY <2>1, <2>2, <2>3, <2>4
  <2>6. \A j, k \in DOMAIN gs : j < k => e[j] < e[k]
    BY <2>1, <2>3, <2>4
  <2>7. Thinned(hs, gs, e)
    BY <2>5, <2>6 DEF Thinned
  <2>. QED
    BY <2>7 DEF gs
<1>. QED
  BY <1>1, <1>2

\* A dry step that begins no write leads to dry steps.
LEMMA DryStep ==
  ASSUME Inv, NEW t \in Threads, Step(t), Head(todo[t]) \in Dry, Head(todo[t]).do # "write"
  PROVE  \E x \in Seq(Dry) :
           /\ Continue(t, x) /\ UNCHANGED wire
           /\ \/ /\ UNCHANGED <<futures, written>>
                 /\ jobs' = jobs \/ \E r : jobs' = Append(jobs, r) /\ r.rpt # "write"
                 /\ \E e : Thinned(handlers, handlers', e)
              \/ /\ UNCHANGED <<handlers, jobs>>
                 /\ \E g : futures' = Append(futures, g) /\ g.state = "pending"
                 /\ written' = Append(written, 0)
                 /\ x # <<>> /\ Head(x).do = "add"
<1> DEFINE s == Head(todo[t])
           H == Others(nodes) \cup Keepers
<1>1. /\ s \in Dry /\ s.do # "write" /\ handlers \in Seq(H) /\ nodes \in Nat
      /\ <<>> \in Seq(Dry) /\ Len(futures) + 1 \in Nat
  BY DEF Inv, TodoInv, ListInv, FutureInv
<1> HIDE DEF s, H
<1>2. UNCHANGED handlers => \E e : Thinned(handlers, handlers', e)
  <2>1. \A j \in DOMAIN handlers : handlers[j].kind = "ack" => j \in DOMAIN handlers /\ handlers[j] = handlers[j]
    OBVIOUS
  <2>. QED
    BY <1>1, <2>1, ThinnedHave
<1>3. ASSUME NEW h, h.kind # "ack", handlers' = Append(handlers, h) PROVE \E e : Thinned(handlers, handlers', e)
  <2>1. /\ DOMAIN handlers = 1 .. Len(handlers) /\ Len(handlers) \in Nat
        /\ \A j \in DOMAIN handlers : handlers'[j] = handlers[j]
        /\ DOMAIN handlers' = 1 .. Len(handlers) + 1 /\ handlers'[Len(handlers) + 1] = h
    BY <1>1, <1>3, Queues
  <2>2. \A j \in DOMAIN handlers' : j \in DOMAIN handlers \/ j = Len(handlers) + 1
    BY <2>1
  <2>3. \A j \in DOMAIN handlers' : handlers'[j].kind = "ack" => j \in DOMAIN handlers /\ handlers'[j] = handlers[j]
    BY <1>3, <2>1, <2>2
  <2> DEFINE G == H \cup {h}
  <2>4. handlers \in Seq(G) /\ handlers' \in Seq(G)
    BY <1>1, <1>3
  <2> HIDE DEF G
  <2>. QED
    BY <2>3, <2>4, ThinnedHave
<1>4. CASE AddReportHandler(t)
  <2>1. UNCHANGED <<jobs, wire, futures, written>>
    BY <1>4 DEF AddReportHandler
  <2>2. \E x \in Seq(Dry) : \E h : Continue(t, x) /\ handlers' = Append(handlers, h) /\ h.kind # "ack"
    <3>1. CASE s.do = "add" /\ handlers' = Append(handlers, s.handler) /\ Continue(t, <<>>)
      BY <1>1, <3>1, DryFields
    <3>2. CASE /\ handlers' = Append(handlers, DataHandler(s.mode, nodes + 1))
               /\ Continue(t, <<Store("data_iter", nodes + 1)>>)
      <4>1. Store("data_iter", nodes + 1) \in Dry
        BY <1>1, DryHave
      <4>2. <<Store("data_iter", nodes + 1)>> \in Seq(Dry)
        BY <4>1
      <4>3. DataHandler(s.mode, nodes + 1).kind # "ack"
        BY DEF DataHandler
      <4>. QED
        BY <3>2, <4>2, <4>3
    <3>. QED
      BY <1>4, <3>1, <3>2 DEF AddReportHandler, Do, s
  <2>. QED
    BY <1>3, <2>1, <2>2
<1>5. CASE RemoveReportHandler(t)
  <2>1. Continue(t, <<>>) /\ UNCHANGED <<jobs, wire, futures, written>>
    BY <1>5 DEF RemoveReportHandler
  <2>2. PICK i \in 1 .. Len(handlers) + 1 : handlers' = SubSeq(handlers, 1, i - 1)
    BY <1>5 DEF RemoveReportHandler
  <2>3. handlers' \in Seq(H) /\ \A j \in DOMAIN handlers' : j \in DOMAIN handlers /\ handlers'[j] = handlers[j]
    BY <1>1, <2>2
  <2>4. \E e : Thinned(handlers, handlers', e)
    BY <1>1, <2>3, ThinnedHave
  <2>. QED
    BY <1>1, <2>1, <2>4
<1>6. CASE ScheduleJob(t)
  <2>1. /\ s.do = "post" /\ jobs' = Append(jobs, s.rpt) /\ Continue(t, <<>>)
        /\ UNCHANGED <<handlers, wire, futures, written>>
    BY <1>6 DEF ScheduleJob, Do, s
  <2>2. s.rpt.rpt # "write"
    BY <1>1, <2>1, DryFields
  <2>. QED
    BY <1>1, <1>2, <2>1, <2>2
<1>7. CASE TestState(t)
  <2>1. /\ s.do = "if" /\ Continue(t, IF state[s.field] = s.value THEN s.then ELSE s.else)
        /\ UNCHANGED <<handlers, jobs, wire, futures, written>>
    BY <1>7 DEF TestState, Do, s
  <2>2. s.then \in Seq(Dry) /\ s.else \in Seq(Dry)
    BY <1>1, <2>1, DryFields, BranchesDry
  <2>. QED
    BY <1>2, <2>1, <2>2
<1>8. CASE StoreState(t) \/ AwaitFuture(t) \/ ReturnObject(t)
  <2>1. Continue(t, <<>>) /\ UNCHANGED <<handlers, jobs, wire, futures, written>>
    BY <1>8 DEF StoreState, AwaitFuture, ReturnObject
  <2>. QED
    BY <1>1, <1>2, <2>1
<1>9. CASE BeginRead(t)
  <2> DEFINE N == Len(futures) + 1
             a == Add(ReadHandler(N, s.block))
             b == Post(ReadBlock(s.block))
             w == Waiting(N, s.wait)
             x == <<a, b>> \o w
             g == [ask |-> AskFor("read", s.block), state |-> "pending", value |-> <<>>]
  <2>1. /\ s.do = "read" /\ Continue(t, x) /\ UNCHANGED <<handlers, jobs, wire>>
        /\ futures' = Append(futures, g) /\ written' = Append(written, 0)
    BY <1>9 DEF BeginRead, NewFuture, Do, s
  <2>2. s.block \in ReadBlocks /\ s.wait \in BOOLEAN
    BY <1>1, <2>1, DryFields
  <2>3. a \in Dry /\ b \in Dry /\ a.do = "add"
    BY <1>1, <2>2, DryHave, ReportsHave DEF Add
  <2>4. w \in Seq(Dry)
    BY <1>1, DryHave DEF Waiting
  <2>5. g.state = "pending"
    OBVIOUS
  <2> HIDE DEF a, b, w, g
  <2>6. <<a, b>> \in Seq(Dry) /\ x \in Seq(Dry)
    BY <2>3, <2>4
  <2>7. x # <<>> /\ Head(x) = a
    BY <2>3, <2>4, TwoFirst
  <2> HIDE DEF x
  <2>. QED
    BY <2>1, <2>3, <2>5, <2>6, <2>7
<1>10. ~BeginWrite(t)
  BY <1>1 DEF BeginWrite, Do, s
<1>. QED
  BY <1>4, <1>5, <1>6, <1>7, <1>8, <1>9, <1>10 DEF Step

\* write_data() leads to the insertion of its handler and to its posts.
LEMMA WriteStep ==
  ASSUME Inv, NEW t \in Threads, Step(t), todo[t] \in Seq(Dry), Head(todo[t]).do = "write"
  PROVE  \E b \in WriteBlocks :
           /\ todo'[t] # <<>> /\ Head(todo'[t]) = Add(AckHandler(Len(futures) + 1, Chunks(b.len)))
           /\ Pend(Tail(todo'[t]), Len(futures) + 1, Chunks(b.len))
           /\ \A u \in Threads \ {t} : todo'[u] = todo[u]
           /\ futures' = Append(futures, [ask |-> AskFor("write", b), state |-> "pending", value |-> <<>>])
           /\ written' = Append(written, 0)
           /\ UNCHANGED <<handlers, jobs, wire>>
<1> DEFINE s == Head(todo[t])
           b == s.block
           N == Len(futures) + 1
           n == Chunks(b.len)
           a == Add(AckHandler(N, n))
           post(k) == Post(WriteChunk(N, b.addr + (k - 1) * ChunkSize))
           p == [k \in 1 .. n |-> post(k)]
           w == Waiting(N, s.wait)
           x == <<a>> \o p \o w
           r == Tail(todo[t])
<1>1. BeginWrite(t) /\ todo[t] # <<>>
  BY OneAction
<1>2. /\ Continue(t, x) /\ UNCHANGED <<handlers, jobs, wire>>
      /\ futures' = Append(futures, [ask |-> AskFor("write", b), state |-> "pending", value |-> <<>>])
      /\ written' = Append(written, 0)
  BY <1>1 DEF BeginWrite, NewFuture
<1>3. s \in Dry /\ r \in Seq(Dry) /\ s.do = "write"
  BY <1>1
<1>4. b \in WriteBlocks /\ s.wait \in BOOLEAN
  BY <1>3, DryFields
<1>5. b.addr \in Nat /\ n \in Nat /\ N \in Nat
  BY <1>4, BlockFacts DEF Inv, FutureInv
<1>6. w \in Seq(Dry)
  BY <1>4, <1>5, DryHave DEF Waiting
<1>7. \A k \in 1 .. n : post(k).do = "post" /\ post(k).rpt \in WriteReports /\ post(k).rpt.fut = N
  <2> TAKE k \in 1 .. n
  <2>1. b.addr + (k - 1) * ChunkSize \in Nat
    <3>1. b.len \in Nat \ {0}
      BY <1>4, BlockFacts
    <3> HIDE DEF b
    <3>2. (k - 1) * ChunkSize \in Nat
      BY <3>1, BlockFacts
    <3>. QED
      BY <1>5, <3>2
  <2> DEFINE c == WriteChunk(N, b.addr + (k - 1) * ChunkSize)
  <2>2. c \in WriteReports /\ c.fut = N
    BY <1>5, <2>1 DEF WriteChunk, WriteReports
  <2>3. post(k) = [do |-> "post", rpt |-> c]
    BY DEF Post
  <2> HIDE DEF post, c
  <2>. QED
    BY <2>2, <2>3
<1>8. todo'[t] = x \o r /\ \A u \in Threads \ {t} : todo'[u] = todo[u]
  BY <1>2, Continued
<1> DEFINE S == Dry \cup {a} \cup {post(k) : k \in 1 .. n}
<1> HIDE DEF post, a, w, b, n, N, s, r
<1>9. p \in [1 .. n -> S] /\ a \in S /\ Dry \subseteq S /\ \A k \in 1 .. n : p[k] = post(k)
  OBVIOUS
<1> HIDE DEF S, p
<1>10. /\ x \o r # <<>> /\ Head(x \o r) = a /\ Pend(Tail(x \o r), N, n)
  <2>1. \A k \in 1 .. n : p[k].do = "post" /\ p[k].rpt \in WriteReports /\ p[k].rpt.fut = N
    BY <1>7, <1>9
  <2>. QED
    BY <1>3, <1>5, <1>6, <1>9, <2>1, PendBegun
<1>. QED
  BY <1>2, <1>4, <1>8, <1>10 DEF a, n, N

\* The calls of the application are dry.
LEMMA CallsDry ==
  ASSUME NEW t \in Callers,
         SetLeds(t) \/ SetReport(t) \/ ReadData(t) \/ WriteData(t) \/ GetPresentGyro(t) \/ GetExtId(t)
  PROVE  \E steps \in Seq(Dry) : Call(t, steps)
<1> USE DryHave
<1>1. \A s \in Dry : <<s>> \in Seq(Dry) /\ \A q \in Seq(Dry) : Append(q, s) \in Seq(Dry) /\ <<s>> \o q \in Seq(Dry)
  OBVIOUS
<1>2. CASE SetLeds(t)
  <2>1. PICK v \in Leds : Call(t, <<Store("leds", v), Post(PlayerLeds(v))>>)
    BY <1>2 DEF SetLeds
  <2>2. Store("leds", v) \in Dry /\ Post(PlayerLeds(v)) \in Dry
    BY ReportsHave
  <2>3. <<Store("leds", v), Post(PlayerLeds(v))>> \in Seq(Dry)
    BY <2>2
  <2>. QED
    BY <2>1, <2>3
<1>3. CASE SetReport(t)
  <2>1. PICK f \in Features, enable \in BOOLEAN : Call(t, <<Store(f, enable)>> \o UpdateReportingMode)
    BY <1>3 DEF SetReport
  <2>2. <<Store(f, enable)>> \o UpdateReportingMode \in Seq(Dry)
    BY <1>1, BranchesDry
  <2>. QED
    BY <2>1, <2>2
<1>4. CASE ReadData(t)
  <2>1. PICK b \in Reads, wait \in BOOLEAN : Call(t, <<Read(b, wait)>>)
    BY <1>4 DEF ReadData
  <2>2. Read(b, wait) \in Dry
    BY DEF ReadBlocks
  <2>. QED
    BY <1>1, <2>1, <2>2
<1>5. CASE WriteData(t)
  <2>1. PICK b \in Writes, wait \in BOOLEAN : Call(t, <<Write(b, wait)>>)
    BY <1>5 DEF WriteData
  <2>2. Write(b, wait) \in Dry
    BY DEF WriteBlocks
  <2>. QED
    BY <1>1, <2>1, <2>2
<1>6. Read(GyroId, TRUE) \in Dry /\ Read(ExtId, TRUE) \in Dry
  BY DEF ReadBlocks
<1>7. CASE GetPresentGyro(t)
  <2>1. <<Read(GyroId, TRUE)>> \in Seq(Dry)
    BY <1>1, <1>6
  <2>. QED
    BY <1>7, <2>1 DEF GetPresentGyro
<1>8. CASE GetExtId(t)
  <2>1. Append(InitializeExtension, Read(ExtId, TRUE)) \in Seq(Dry)
    BY <1>1, <1>6, BranchesDry
  <2>. QED
    BY <1>8, <2>1 DEF GetExtId
<1>. QED
  BY <1>2, <1>3, <1>4, <1>5, <1>7, <1>8

\* So is the constructor.
LEMMA ConstructDry == Construct \in Seq(Dry)
<1> DEFINE a == Add(StatusHandler)
           b == Post(StatusRequest)
           c == Read(Calibration, TRUE)
           d == Add(ButtonHandler)
           e == Store("data_iter", End)
           f == Return
<1>1. a \in Dry /\ b \in Dry /\ c \in Dry /\ d \in Dry /\ e \in Dry /\ f \in Dry
  BY DryHave, ReportsHave DEF ReadBlocks, End
<1>2. Construct = <<a, b, c, d, e, b, f>>
  BY DEF Construct
<1> HIDE DEF a, b, c, d, e, f
<1>3. <<a, b, c, d, e, b, f>> \in Seq(Dry)
  BY <1>1
<1>. QED
  BY <1>2, <1>3

-----------------------------------------------------------------------------
(* The invariant about acknowledgements. *)

\* The reader is about to insert a handler: it waits for the lock that it holds.
Stuck == todo[Reader] # <<>> /\ Head(todo[Reader]).do = "add"

\* With the steps q left, the application has posted the reports up to place P, and
\* is going to post those up to T, of one write at most.
Posting(q, stuck, fs, lo, hi, P, T) ==
  /\ P \in Nat /\ T \in Nat /\ P <= T
  /\ \/ q \in Seq(Dry) /\ P = T
     \/ \E f \in WritesOf(fs) : P < T /\ Pend(q, f, T - P) /\ lo[f] <= P /\ hi[f] = T
     \/ \E f \in WritesOf(fs) :
          /\ q # <<>> /\ Head(q) = Add(AckHandler(f, T - P)) /\ Pend(Tail(q), f, T - P)
          /\ lo[f] = P /\ hi[f] = T /\ Whole(fs, lo, hi, f)
          /\ f = Len(fs) \/ stuck

Counts(lo, hi, T, P, E, A) ==
  /\ Slots(futures, lo, hi, T)
  /\ Executed(futures, written, lo, hi, E)
  /\ Queued(jobs, futures, lo, hi, E, P)
  /\ \E ac : Tally(wire, "ack", ac, A, E)
  /\ Credits(handlers, futures, lo, hi, A)

CountInv ==
  /\ \E lo, hi, T, P, E, A :
       Counts(lo, hi, T, P, E, A) /\ Posting(todo[Owner], Stuck, futures, lo, hi, P, T)
  /\ todo[Reader] \in Seq(Dry) \/ Stuck

\* Handlers of acknowledgements are those of pending writes.
LEMMA AckFacts ==
  ASSUME Inv
  PROVE  /\ \A i \in DOMAIN handlers : handlers[i].kind = "ack" =>
              /\ handlers[i].fut \in WritesOf(futures) /\ futures[handlers[i].fut].state = "pending"
              /\ handlers[i].counter \in Nat \ {0}
         /\ \A f \in WritesOf(futures) : futures[f].state \in {"pending", "ready"}
         /\ futures \in Seq(FutureRecords) /\ written \in Seq(Nat) /\ Len(written) = Len(futures)
         /\ jobs \in Seq(OutputReports) /\ wire \in Seq(InputReports)
         /\ handlers \in Seq(Others(nodes) \cup Keepers)
<1>1. /\ futures \in Seq(FutureRecords) /\ written \in Seq(Nat) /\ Len(written) = Len(futures)
      /\ jobs \in Seq(OutputReports) /\ wire \in Seq(InputReports)
      /\ handlers \in Seq(Others(nodes) \cup Keepers) /\ nodes \in Nat
  BY DEF Inv, FutureInv, WireInv, ListInv, TodoInv
<1>2. ASSUME NEW i \in DOMAIN handlers, handlers[i].kind = "ack"
      PROVE  /\ handlers[i].fut \in WritesOf(futures) /\ futures[handlers[i].fut].state = "pending"
             /\ handlers[i].counter \in Nat \ {0}
  <2>1. handlers[i] \in Others(nodes) \cup Keepers
    BY <1>1
  <2>2. handlers[i] \in Keepers /\ handlers[i] \in [kind : {"ack"}, fut : Nat, counter : Nat \ {0}]
    BY <1>1, <1>2, <2>1, HandlerFields
  <2>3. Serves(handlers[i], futures)
    BY <2>2 DEF Inv, FutureInv
  <2>. QED
    BY <1>2, <2>2, <2>3 DEF Serves, WritesOf
<1>3. ASSUME NEW f \in WritesOf(futures) PROVE futures[f].state \in {"pending", "ready"}
  <2>1. futures[f] \in FutureRecords
    BY <1>1 DEF WritesOf
  <2>. QED
    BY <2>1 DEF FutureRecords
<1>. QED
  BY <1>1, <1>2, <1>3

\* What is left to post stays when others act.
LEMMA PostingKept ==
  ASSUME NEW q, NEW st, NEW fs, NEW lo, NEW hi, NEW P, NEW T, Posting(q, st, fs, lo, hi, P, T),
         NEW st2, NEW fs2, NEW lo2, NEW hi2,
         \A f \in WritesOf(fs) : f \in WritesOf(fs2) /\ fs2[f].ask = fs[f].ask /\ lo2[f] = lo[f] /\ hi2[f] = hi[f],
         Len(fs2) = Len(fs) \/ st2, st => st2
  PROVE  Posting(q, st2, fs2, lo2, hi2, P, T)
<1>1. P \in Nat /\ T \in Nat /\ P <= T
  BY DEF Posting
<1>2. ASSUME NEW f \in WritesOf(fs), P < T /\ Pend(q, f, T - P) /\ lo[f] <= P /\ hi[f] = T
      PROVE  Posting(q, st2, fs2, lo2, hi2, P, T)
  BY <1>1, <1>2, Zenon DEF Posting
<1>3. ASSUME NEW f \in WritesOf(fs),
             q # <<>> /\ Head(q) = Add(AckHandler(f, T - P)) /\ Pend(Tail(q), f, T - P),
             lo[f] = P /\ hi[f] = T /\ Whole(fs, lo, hi, f),
             f = Len(fs) \/ st
      PROVE  Posting(q, st2, fs2, lo2, hi2, P, T)
  <2>1. f \in WritesOf(fs2) /\ lo2[f] = P /\ hi2[f] = T /\ (f = Len(fs2) \/ st2)
    BY <1>3
  <2>2. Whole(fs2, lo2, hi2, f)
    BY <1>3 DEF Whole
  <2>. QED
    BY <1>1, <1>3, <2>1, <2>2, Zenon DEF Posting
<1>. QED
  BY <1>1, <1>2, <1>3, Zenon DEF Posting

\* Steps that begin no request.
LEMMA QuietCounts ==
  ASSUME Inv, NEW lo, NEW hi, NEW T, NEW P, NEW E, NEW A, Counts(lo, hi, T, P, E, A),
         UNCHANGED <<futures, written, wire>>,
         jobs' = jobs \/ \E r : jobs' = Append(jobs, r) /\ r.rpt # "write",
         \E e : Thinned(handlers, handlers', e)
  PROVE  Counts(lo, hi, T, P, E, A)'
<1>1. Queued(jobs', futures, lo, hi, E, P)
  <2>1. CASE jobs' = jobs
    BY <2>1 DEF Counts
  <2>2. CASE \E r : jobs' = Append(jobs, r) /\ r.rpt # "write"
    <3>1. PICK r : jobs' = Append(jobs, r) /\ r.rpt # "write"
      BY <2>2
    <3>2. Queued(Append(jobs, r), futures, lo, hi, E, IF r.rpt = "write" THEN P + 1 ELSE P)
      BY <3>1, AckFacts, QueuedPosted DEF Counts
    <3>. QED
      BY <3>1, <3>2
  <2>. QED
    BY <2>1, <2>2
<1>2. Credits(handlers', futures, lo, hi, A)
  <2>1. PICK e : Thinned(handlers, handlers', e)
    OBVIOUS
  <2>2. Begun(futures, futures)
    BY DEF Begun
  <2>3. Credits(handlers, futures, lo, hi, A)
    BY DEF Counts
  <2>. QED
    BY <2>1, <2>2, <2>3, AckFacts, CreditsKept
<1>. QED
  BY <1>1, <1>2 DEF Counts

\* The writes have kept their places.
Places(fs, lo, hi, fs2, lo2, hi2) ==
  \A f \in WritesOf(fs) : f \in WritesOf(fs2) /\ fs2[f].ask = fs[f].ask /\ lo2[f] = lo[f] /\ hi2[f] = hi[f]

\* A request begins: a write gets n places.
CountsGrow(lo, hi, T, P, E, A, n) ==
  \E lo2, hi2 :
    /\ Counts(lo2, hi2, T + n, P, E, A)' /\ Places(futures, lo, hi, futures', lo2, hi2)
    /\ lo2[Len(futures) + 1] = T /\ hi2[Len(futures) + 1] = T + n

LEMMA FutureCounts ==
  ASSUME Inv, NEW lo, NEW hi, NEW T, NEW P, NEW E, NEW A, Counts(lo, hi, T, P, E, A), P <= T,
         UNCHANGED <<handlers, jobs, wire>>,
         NEW g, futures' = Append(futures, g), g.state = "pending", written' = Append(written, 0),
         NEW n \in Nat, n # 0 => g.ask.kind = "write"
  PROVE  CountsGrow(lo, hi, T, P, E, A, n)
<1> DEFINE N == Len(futures)
<1>1. futures \in Seq(FutureRecords) /\ written \in Seq(Nat) /\ Len(written) = N
  BY AckFacts
<1>2. /\ N \in Nat /\ DOMAIN futures = 1 .. N /\ DOMAIN futures' = 1 .. N + 1 /\ futures'[N + 1] = g
      /\ \A f \in DOMAIN futures : futures'[f] = futures[f]
  BY <1>1, Queues
<1>3. DOMAIN written = 1 .. N /\ written'[N + 1] = 0 /\ \A f \in DOMAIN written : written'[f] = written[f]
  BY <1>1, Queues
<1>4. PICK lo2, hi2 :
        /\ Slots(futures', lo2, hi2, T + n)
        /\ \A f \in DOMAIN futures : lo2[f] = lo[f] /\ hi2[f] = hi[f]
        /\ lo2[N + 1] = T /\ hi2[N + 1] = T + n
  <2>1. Slots(futures, lo, hi, T)
    BY DEF Counts
  <2>2. SlotsGrow(futures, g, lo, hi, T, n)
    BY <1>1, <2>1, SlotsAdded
  <2>3. PICK lo2, hi2 :
          /\ Slots(Append(futures, g), lo2, hi2, T + n)
          /\ \A f \in DOMAIN futures : lo2[f] = lo[f] /\ hi2[f] = hi[f]
          /\ lo2[Len(futures) + 1] = T /\ hi2[Len(futures) + 1] = T + n
    BY <2>2 DEF SlotsGrow
  <2>. QED
    BY <2>3
<1> HIDE DEF N
<1>5. /\ \A f \in WritesOf(futures) :
           /\ f \in DOMAIN futures /\ f \in WritesOf(futures') /\ futures'[f] = futures[f]
           /\ lo2[f] = lo[f] /\ hi2[f] = hi[f] /\ written'[f] = written[f]
      /\ \A f \in WritesOf(futures') : f \in WritesOf(futures) \/ f = N + 1
  BY <1>2, <1>3, <1>4 DEF WritesOf
<1>6. E \in Nat /\ P \in Nat /\ T \in Nat /\ E <= T
  <2>1. E \in Nat /\ P \in Nat /\ E <= P
    BY AckFacts, TallyBounds DEF Counts, Queued
  <2>. QED
    BY <2>1 DEF Counts, Slots
<1>7. Executed(futures', written', lo2, hi2, E)
  <2>1. \A f \in WritesOf(futures') : f \in WritesOf(futures) \/ (written'[f] = 0 /\ E <= lo2[f])
    BY <1>3, <1>4, <1>5, <1>6
  <2>2. Executed(futures, written, lo, hi, E)
    BY DEF Counts
  <2>3. \A f \in WritesOf(futures) : written'[f] = written[f] /\ lo2[f] = lo[f] /\ hi2[f] = hi[f]
    BY <1>5
  <2>. QED
    BY <2>1, <2>2, <2>3 DEF Executed
<1>8. Queued(jobs, futures', lo2, hi2, E, P)
  <2>1. Queued(jobs, futures, lo, hi, E, P)
    BY DEF Counts
  <2>. QED
    BY <1>5, <2>1, QueuedKept
<1>9. Credits(handlers, futures', lo2, hi2, A)
  <2>1. Begun(futures, futures')
    BY <1>2, <1>5 DEF Begun
  <2>2. PICK e : Thinned(handlers, handlers, e)
    <3>1. \A j \in DOMAIN handlers : handlers[j].kind = "ack" => j \in DOMAIN handlers /\ handlers[j] = handlers[j]
      OBVIOUS
    <3>. QED
      BY <3>1, AckFacts, ThinnedHave
  <2>3. Credits(handlers, futures, lo, hi, A)
    BY DEF Counts
  <2>4. \A f \in WritesOf(futures) : lo2[f] = lo[f] /\ hi2[f] = hi[f]
    BY <1>5
  <2>5. \A i \in DOMAIN handlers : handlers[i].kind = "ack" => handlers[i].fut \in WritesOf(futures)
    BY AckFacts
  <2>. QED
    BY <2>1, <2>2, <2>3, <2>4, <2>5, CreditsKept, Zenon
<1>10. Counts(lo2, hi2, T + n, P, E, A)'
  BY <1>4, <1>7, <1>8, <1>9 DEF Counts
<1>11. Places(futures, lo, hi, futures', lo2, hi2)
  BY <1>5 DEF Places
<1>. QED
  BY <1>4, <1>10, <1>11 DEF N, CountsGrow

-----------------------------------------------------------------------------
(* The steps of the two threads. *)

\* What the application is about to post first.
LEMMA PostingCases ==
  ASSUME NEW S, NEW q \in Seq(S), NEW st, NEW fs, NEW lo, NEW hi, NEW P, NEW T,
         Posting(q, st, fs, lo, hi, P, T)
  PROVE  /\ P \in Nat /\ T \in Nat /\ P <= T
         /\ \/ q \in Seq(Dry) /\ P = T
            \/ \E f \in WritesOf(fs) :
                 /\ P < T /\ lo[f] <= P /\ hi[f] = T
                 /\ q # <<>> /\ Head(q).do = "post" /\ Head(q).rpt \in WriteReports /\ Head(q).rpt.fut = f
                 /\ Pend(Tail(q), f, T - (P + 1))
            \/ \E f \in WritesOf(fs) :
                 /\ q # <<>> /\ Head(q) = Add(AckHandler(f, T - P)) /\ Pend(Tail(q), f, T - P)
                 /\ lo[f] = P /\ hi[f] = T /\ Whole(fs, lo, hi, f)
                 /\ f = Len(fs) \/ st
<1>1. P \in Nat /\ T \in Nat /\ P <= T
  BY DEF Posting
<1>2. ASSUME NEW f \in WritesOf(fs), P < T, Pend(q, f, T - P)
      PROVE  /\ q # <<>> /\ Head(q).do = "post" /\ Head(q).rpt \in WriteReports /\ Head(q).rpt.fut = f
             /\ Pend(Tail(q), f, T - (P + 1))
  <2>1. T - P > 0 /\ (T - P) - 1 = T - (P + 1)
    BY <1>1, <1>2
  <2>2. /\ q # <<>> /\ Head(q).do = "post" /\ Head(q).rpt \in WriteReports /\ Head(q).rpt.fut = f
        /\ Pend(Tail(q), f, (T - P) - 1)
    BY <1>2, <2>1, PendTaken
  <2>. QED
    BY <2>1, <2>2
<1>. QED
  BY <1>1, <1>2 DEF Posting

\* It has posted the report at place P - 1, or inserted the handler.
LEMMA PostingNext ==
  ASSUME NEW S, NEW q \in Seq(S), NEW st, NEW fs, NEW lo, NEW hi, NEW P \in Nat, NEW T \in Nat, P <= T,
         NEW f \in WritesOf(fs), lo[f] <= P, hi[f] = T, Pend(q, f, T - P)
  PROVE  Posting(q, st, fs, lo, hi, P, T)
<1>1. CASE P = T
  <2>1. T - P = 0
    BY <1>1
  <2>2. q \in Seq(Dry)
    BY <2>1, PendTaken
  <2>. QED
    BY <1>1, <2>2 DEF Posting
<1>2. CASE P # T
  <2>1. P < T
    BY <1>2
  <2>. QED
    BY <2>1 DEF Posting
<1>. QED
  BY <1>1, <1>2

LEMMA CountsGive ==
  ASSUME NEW lo, NEW hi, NEW T, NEW P, NEW E, NEW A, Counts(lo, hi, T, P, E, A)',
         Posting(todo'[Owner], Stuck', futures', lo, hi, P, T), todo'[Reader] \in Seq(Dry) \/ Stuck'
  PROVE  CountInv'
BY DEF CountInv

\* A dry step that begins no write.
LEMMA DryCounts ==
  ASSUME Inv, NEW t \in Threads, Step(t), Head(todo[t]) \in Dry, Head(todo[t]).do # "write",
         NEW lo, NEW hi, NEW T, NEW P, NEW E, NEW A, Counts(lo, hi, T, P, E, A), P <= T
  PROVE  \E x \in Seq(Dry) : \E lo2, hi2 :
           /\ Continue(t, x) /\ Counts(lo2, hi2, T, P, E, A)' /\ Places(futures, lo, hi, futures', lo2, hi2)
           /\ Len(futures') = Len(futures) \/ (x # <<>> /\ Head(x).do = "add")
<1>1. PICK x \in Seq(Dry) :
        /\ Continue(t, x) /\ UNCHANGED wire
        /\ \/ /\ UNCHANGED <<futures, written>>
              /\ jobs' = jobs \/ \E r : jobs' = Append(jobs, r) /\ r.rpt # "write"
              /\ \E e : Thinned(handlers, handlers', e)
           \/ /\ UNCHANGED <<handlers, jobs>>
              /\ \E g : futures' = Append(futures, g) /\ g.state = "pending"
              /\ written' = Append(written, 0)
              /\ x # <<>> /\ Head(x).do = "add"
  BY DryStep
<1>2. CASE /\ UNCHANGED <<futures, written>>
           /\ jobs' = jobs \/ \E r : jobs' = Append(jobs, r) /\ r.rpt # "write"
           /\ \E e : Thinned(handlers, handlers', e)
  <2>1. Counts(lo, hi, T, P, E, A)'
    BY <1>1, <1>2, QuietCounts
  <2>2. Places(futures, lo, hi, futures', lo, hi)
    BY <1>2 DEF Places
  <2>. QED
    BY <1>1, <1>2, <2>1, <2>2
<1>3. CASE /\ UNCHANGED <<handlers, jobs>>
           /\ \E g : futures' = Append(futures, g) /\ g.state = "pending"
           /\ written' = Append(written, 0)
           /\ x # <<>> /\ Head(x).do = "add"
  <2>1. PICK g : futures' = Append(futures, g) /\ g.state = "pending"
    BY <1>3
  <2>2. T + 0 = T /\ 0 \in Nat /\ 0 = 0
    BY DEF Counts, Slots
  <2>3. CountsGrow(lo, hi, T, P, E, A, 0)
    BY <1>1, <1>3, <2>1, <2>2, FutureCounts
  <2>. QED
    BY <1>1, <1>3, <2>2, <2>3 DEF CountsGrow
<1>. QED
  BY <1>1, <1>2, <1>3

\* The application calls when it has nothing to post.
LEMMA CountCalls ==
  ASSUME Inv, CountInv, NEW steps \in Seq(Dry), Call(Owner, steps)
  PROVE  CountInv'
<1>1. PICK lo, hi, T, P, E, A :
        Counts(lo, hi, T, P, E, A) /\ Posting(todo[Owner], Stuck, futures, lo, hi, P, T)
  BY DEF CountInv
<1>2. /\ todo[Owner] = <<>> /\ todo' = [todo EXCEPT ![Owner] = steps]
      /\ UNCHANGED <<handlers, jobs, wire, futures, written>>
  BY DEF Call
<1>3. DOMAIN todo = Threads /\ Owner \in Threads /\ Reader # Owner /\ todo[Owner] \in Seq(Steps(nodes) \cup FirstSteps)
  BY ThreadsAssumption DEF Inv, TodoInv, Threads
<1>4. todo'[Owner] = steps /\ todo'[Reader] = todo[Reader]
  BY <1>2, <1>3
<1>5. P = T /\ P \in Nat /\ T \in Nat /\ P <= T
  <2> DEFINE q == todo[Owner]
  <2>1. q \in Seq(Steps(nodes) \cup FirstSteps) /\ Posting(q, Stuck, futures, lo, hi, P, T)
    BY <1>1, <1>3
  <2> HIDE DEF q
  <2>2. /\ P \in Nat /\ T \in Nat /\ P <= T
        /\ P = T \/ q # <<>>
    BY <2>1, PostingCases
  <2>. QED
    BY <1>2, <2>2 DEF q
<1>6. Posting(todo'[Owner], Stuck', futures', lo, hi, P, T)
  BY <1>4, <1>5 DEF Posting
<1>7. Counts(lo, hi, T, P, E, A)'
  BY <1>1, <1>2 DEF Counts
<1>8. todo'[Reader] \in Seq(Dry) \/ Stuck'
  BY <1>4 DEF CountInv, Stuck
<1>. QED
  BY <1>6, <1>7, <1>8, CountsGive

\* The reader takes dry steps, until it is about to insert a handler.
LEMMA CountReader ==
  ASSUME Inv, CountInv, Step(Reader)
  PROVE  CountInv'
<1>1. Owner \in Threads /\ Reader \in Threads /\ Reader # Owner
  BY ThreadsAssumption DEF Threads
<1>2. PICK lo, hi, T, P, E, A :
        Counts(lo, hi, T, P, E, A) /\ Posting(todo[Owner], Stuck, futures, lo, hi, P, T)
  BY DEF CountInv
<1>3. P <= T
  BY <1>2 DEF Posting
<1>4. ~Stuck
  BY OneAction DEF Stuck, AddReportHandler, LockFree
<1> DEFINE s == Head(todo[Reader])
           r == Tail(todo[Reader])
<1>5. todo[Reader] \in Seq(Dry) /\ s \in Dry /\ r \in Seq(Dry)
  <2>1. todo[Reader] \in Seq(Dry) /\ todo[Reader] # <<>>
    BY <1>4, OneAction DEF CountInv
  <2>. QED
    BY <2>1
<1> HIDE DEF s, r
<1>6. ASSUME NEW lo2, NEW hi2, Counts(lo2, hi2, T, P, E, A)', Places(futures, lo, hi, futures', lo2, hi2),
             Len(futures') = Len(futures) \/ Stuck', todo'[Owner] = todo[Owner],
             todo'[Reader] \in Seq(Dry) \/ Stuck'
      PROVE  CountInv'
  <2>1. Posting(todo[Owner], Stuck', futures', lo2, hi2, P, T)
    BY <1>2, <1>4, <1>6, PostingKept DEF Places
  <2>. QED
    BY <1>6, <2>1, CountsGive
<1>7. CASE s.do = "write"
  <2>1. PICK b \in WriteBlocks :
          /\ todo'[Reader] # <<>> /\ Head(todo'[Reader]) = Add(AckHandler(Len(futures) + 1, Chunks(b.len)))
          /\ \A u \in Threads \ {Reader} : todo'[u] = todo[u]
          /\ futures' = Append(futures, [ask |-> AskFor("write", b), state |-> "pending", value |-> <<>>])
          /\ written' = Append(written, 0)
          /\ UNCHANGED <<handlers, jobs, wire>>
    BY <1>1, <1>5, <1>7, WriteStep DEF s
  <2> DEFINE g == [ask |-> AskFor("write", b), state |-> "pending", value |-> <<>>]
  <2>2. g.state = "pending" /\ futures' = Append(futures, g)
    BY <2>1
  <2> HIDE DEF g
  <2>3. T + 0 = T /\ 0 \in Nat /\ 0 = 0
    BY <1>2 DEF Counts, Slots
  <2>4. CountsGrow(lo, hi, T, P, E, A, 0)
    BY <1>2, <1>3, <2>1, <2>2, <2>3, FutureCounts
  <2>5. Stuck'
    BY <2>1 DEF Stuck, Add
  <2>6. todo'[Owner] = todo[Owner]
    BY <1>1, <2>1
  <2>. QED
    BY <1>6, <2>3, <2>4, <2>5, <2>6 DEF CountsGrow
<1>8. CASE s.do # "write"
  <2>0. PICK x \in Seq(Dry) : \E lo2, hi2 :
          /\ Continue(Reader, x) /\ Counts(lo2, hi2, T, P, E, A)' /\ Places(futures, lo, hi, futures', lo2, hi2)
          /\ Len(futures') = Len(futures) \/ (x # <<>> /\ Head(x).do = "add")
    BY <1>1, <1>2, <1>3, <1>5, <1>8, DryCounts DEF s
  <2>1. PICK lo2, hi2 :
          /\ Continue(Reader, x) /\ Counts(lo2, hi2, T, P, E, A)' /\ Places(futures, lo, hi, futures', lo2, hi2)
          /\ Len(futures') = Len(futures) \/ (x # <<>> /\ Head(x).do = "add")
    BY <2>0
  <2>2. todo'[Reader] = x \o r /\ todo'[Owner] = todo[Owner]
    BY <1>1, <2>1, Continued DEF r
  <2>3. todo'[Reader] \in Seq(Dry)
    BY <1>5, <2>2
  <2>4. x # <<>> /\ Head(x).do = "add" => Stuck'
    <3>1. x # <<>> => x \o r # <<>> /\ Head(x \o r) = Head(x)
      BY <1>5
    <3>. QED
      BY <2>2, <3>1 DEF Stuck
  <2>. QED
    BY <1>6, <2>1, <2>2, <2>3, <2>4
<1>. QED
  BY <1>7, <1>8

\* The application takes dry steps, or begins a write.
LEMMA CountOwnerDry ==
  ASSUME Inv, CountInv, Step(Owner), NEW lo, NEW hi, NEW T, NEW P, NEW E, NEW A,
         Counts(lo, hi, T, P, E, A), P \in Nat, T \in Nat, P = T, todo[Owner] \in Seq(Dry)
  PROVE  CountInv'
<1>1. Owner \in Threads /\ Reader \in Threads /\ Reader # Owner
  BY ThreadsAssumption DEF Threads
<1> DEFINE s == Head(todo[Owner])
           r == Tail(todo[Owner])
<1>2. s \in Dry /\ r \in Seq(Dry) /\ P <= T
  BY OneAction
<1> HIDE DEF s, r
<1>3. (\A u \in Threads \ {Owner} : todo'[u] = todo[u]) => todo'[Reader] \in Seq(Dry) \/ Stuck'
  BY <1>1 DEF CountInv, Stuck
<1>4. CASE s.do # "write"
  <2>0. PICK x \in Seq(Dry) : \E lo2, hi2 :
          /\ Continue(Owner, x) /\ Counts(lo2, hi2, T, P, E, A)' /\ Places(futures, lo, hi, futures', lo2, hi2)
          /\ Len(futures') = Len(futures) \/ (x # <<>> /\ Head(x).do = "add")
    BY <1>1, <1>2, <1>4, DryCounts DEF s
  <2>1. PICK lo2, hi2 :
          /\ Continue(Owner, x) /\ Counts(lo2, hi2, T, P, E, A)' /\ Places(futures, lo, hi, futures', lo2, hi2)
          /\ Len(futures') = Len(futures) \/ (x # <<>> /\ Head(x).do = "add")
    BY <2>0
  <2>2. todo'[Owner] = x \o r /\ \A u \in Threads \ {Owner} : todo'[u] = todo[u]
    BY <1>1, <2>1, Continued DEF r
  <2>3. todo'[Owner] \in Seq(Dry)
    BY <1>2, <2>2
  <2>4. Posting(todo'[Owner], Stuck', futures', lo2, hi2, P, T)
    BY <1>2, <2>3 DEF Posting
  <2>. QED
    BY <1>3, <2>1, <2>2, <2>4, CountsGive
<1>5. CASE s.do = "write"
  <2>1. PICK b \in WriteBlocks :
          /\ todo'[Owner] # <<>> /\ Head(todo'[Owner]) = Add(AckHandler(Len(futures) + 1, Chunks(b.len)))
          /\ Pend(Tail(todo'[Owner]), Len(futures) + 1, Chunks(b.len))
          /\ \A u \in Threads \ {Owner} : todo'[u] = todo[u]
          /\ futures' = Append(futures, [ask |-> AskFor("write", b), state |-> "pending", value |-> <<>>])
          /\ written' = Append(written, 0)
          /\ UNCHANGED <<handlers, jobs, wire>>
    BY <1>1, <1>5, WriteStep DEF s
  <2> DEFINE g == [ask |-> AskFor("write", b), state |-> "pending", value |-> <<>>]
             n == Chunks(b.len)
             f == Len(futures) + 1
  <2>2. g.state = "pending" /\ futures' = Append(futures, g) /\ g.ask.kind = "write" /\ g.ask.len = b.len
    BY <2>1 DEF AskFor
  <2>3. n \in Nat /\ n > 0 /\ futures \in Seq(FutureRecords)
    BY BlockFacts, AckFacts
  <2> HIDE DEF g
  <2>4. futures'[f] = g /\ f \in DOMAIN futures' /\ f = Len(futures')
    <3>1. /\ DOMAIN Append(futures, g) = 1 .. Len(futures) + 1 /\ Append(futures, g)[Len(futures) + 1] = g
          /\ Len(futures) \in Nat
      BY <2>3, Queues
    <3>2. Len(Append(futures, g)) = Len(futures) + 1
      BY <2>3
    <3>. QED
      BY <2>2, <3>1, <3>2
  <2>5. f \in WritesOf(futures') /\ futures'[f].ask.len = b.len
    BY <2>2, <2>4 DEF WritesOf
  <2>6. CountsGrow(lo, hi, T, P, E, A, n)
    BY <1>2, <2>1, <2>2, <2>3, FutureCounts
  <2>7. PICK lo2, hi2 :
          /\ Counts(lo2, hi2, T + n, P, E, A)' /\ lo2[f] = T /\ hi2[f] = T + n
    BY <2>6 DEF CountsGrow
  <2> DEFINE U == T + n
  <2>8. U \in Nat /\ P <= U /\ U - P = n
    BY <2>3
  <2>9. Whole(futures', lo2, hi2, f) /\ lo2[f] = P /\ hi2[f] = U
    BY <2>5, <2>7 DEF Whole
  <2>10. /\ todo'[Owner] # <<>> /\ Head(todo'[Owner]) = Add(AckHandler(f, U - P))
         /\ Pend(Tail(todo'[Owner]), f, U - P) /\ Counts(lo2, hi2, U, P, E, A)'
    BY <2>1, <2>7, <2>8
  <2> HIDE DEF n, f, U
  <2>11. Posting(todo'[Owner], Stuck', futures', lo2, hi2, P, U)
    BY <2>4, <2>5, <2>8, <2>9, <2>10 DEF Posting
  <2>. QED
    BY <1>3, <2>1, <2>10, <2>11, CountsGive
<1>. QED
  BY <1>4, <1>5

\* It posts a report of a write.
LEMMA CountOwnerPosts ==
  ASSUME Inv, CountInv, Step(Owner), NEW lo, NEW hi, NEW T, NEW P, NEW E, NEW A,
         Counts(lo, hi, T, P, E, A), P \in Nat, T \in Nat, NEW f \in WritesOf(futures),
         P < T, lo[f] <= P, hi[f] = T,
         Head(todo[Owner]).do = "post", Head(todo[Owner]).rpt \in WriteReports, Head(todo[Owner]).rpt.fut = f,
         Pend(Tail(todo[Owner]), f, T - (P + 1))
  PROVE  CountInv'
<1>1. Owner \in Threads /\ Reader \in Threads /\ Reader # Owner
  BY ThreadsAssumption DEF Threads
<1> DEFINE r == Head(todo[Owner]).rpt
           q == Tail(todo[Owner])
           S == Steps(nodes) \cup FirstSteps
<1>2. /\ jobs' = Append(jobs, r) /\ Continue(Owner, <<>>)
      /\ UNCHANGED <<handlers, wire, futures, written>>
  BY OneAction DEF ScheduleJob
<1>3. r.rpt = "write" /\ r.fut = f
  BY DEF WriteReports
<1>4. q \in Seq(S)
  <2>1. todo[Owner] \in Seq(S) /\ todo[Owner] # <<>>
    BY <1>1, OneAction DEF Inv, TodoInv
  <2> HIDE DEF S
  <2>. QED
    BY <2>1
<1>5. todo'[Owner] = <<>> \o q /\ \A u \in Threads \ {Owner} : todo'[u] = todo[u]
  BY <1>1, <1>2, Continued
<1> HIDE DEF r, q, S
<1>6. todo'[Owner] = q /\ (todo'[Reader] \in Seq(Dry) \/ Stuck')
  <2>1. <<>> \o q = q
    BY <1>4
  <2>. QED
    BY <1>1, <1>5, <2>1 DEF CountInv, Stuck
<1>7. Queued(jobs', futures', lo, hi, E, P + 1)
  <2>1. Queued(jobs, futures, lo, hi, E, P) /\ jobs \in Seq(OutputReports)
    BY AckFacts DEF Counts
  <2>2. Queued(Append(jobs, r), futures, lo, hi, E, IF r.rpt = "write" THEN P + 1 ELSE P)
    BY <1>3, <2>1, QueuedPosted
  <2>. QED
    BY <1>2, <1>3, <2>2
<1>8. Counts(lo, hi, T, P + 1, E, A)'
  BY <1>2, <1>7 DEF Counts
<1>9. Posting(q, Stuck', futures', lo, hi, P + 1, T)
  <2>1. lo[f] \in Nat
    BY DEF Counts, Slots, WritesOf
  <2>2. P + 1 \in Nat /\ P + 1 <= T /\ lo[f] <= P + 1 /\ Pend(q, f, T - (P + 1)) /\ f \in WritesOf(futures')
    BY <1>2, <2>1 DEF q
  <2>. QED
    BY <1>4, <2>2, PostingNext
<1>. QED
  BY <1>6, <1>8, <1>9, CountsGive

\* It inserts the handler of a write: nothing has got past its places.
LEMMA CountOwnerAdds ==
  ASSUME Inv, CountInv, Step(Owner), NEW lo, NEW hi, NEW T, NEW P, NEW E, NEW A,
         Counts(lo, hi, T, P, E, A), P \in Nat, T \in Nat, P <= T, NEW f \in WritesOf(futures),
         Head(todo[Owner]) = Add(AckHandler(f, T - P)), Pend(Tail(todo[Owner]), f, T - P),
         lo[f] = P, hi[f] = T, Whole(futures, lo, hi, f), f = Len(futures) \/ Stuck
  PROVE  CountInv'
<1>1. Owner \in Threads /\ Reader \in Threads /\ Reader # Owner
  BY ThreadsAssumption DEF Threads
<1> DEFINE h == AckHandler(f, T - P)
           q == Tail(todo[Owner])
           S == Steps(nodes) \cup FirstSteps
<1>2. h.kind = "ack" /\ h.fut = f /\ h.counter = T - P
  BY DEF AckHandler
<1>3. Head(todo[Owner]).do = "add" /\ Head(todo[Owner]).handler = h
  BY DEF Add
<1> HIDE DEF h
<1>4. Do(Owner, "add") /\ AddReportHandler(Owner) /\ todo[Owner] # <<>>
  BY <1>3, OneAction
<1>5. /\ handlers' = Append(handlers, h) /\ Continue(Owner, <<>>)
      /\ UNCHANGED <<jobs, wire, futures, written>>
  BY <1>3, <1>4, HandlerInserted
<1>6. f = Len(futures)
  BY <1>4 DEF Stuck, AddReportHandler, LockFree
<1>7. todo[Owner] \in Seq(S) /\ q \in Seq(S) /\ Head(todo[Owner]) \in S /\ nodes \in Nat
  <2>1. todo[Owner] \in Seq(S) /\ nodes \in Nat
    BY <1>1 DEF Inv, TodoInv
  <2> HIDE DEF S
  <2>. QED
    BY <1>4, <2>1
<1>8. todo'[Owner] = <<>> \o q /\ \A u \in Threads \ {Owner} : todo'[u] = todo[u]
  BY <1>1, <1>5, Continued
<1>9. Adds(todo[Owner]) /\ Added(todo[Owner]) = h
  <2>1. \A n \in Nat : \A x \in Others(n) : x.kind # "ack"
    BY HandlerFields, KeepersApart
  <2>2. Head(todo[Owner]) \notin Steps(nodes)
    BY <1>2, <1>3, <1>7, <2>1, StepFields
  <2>. QED
    BY <1>3, <1>4, <1>7, <2>2 DEF Adds, Added
<1>10. futures[f].state = "pending"
  BY <1>1, <1>2, <1>9 DEF Inv, FutureInv, Serves
<1>11. \A i \in DOMAIN handlers : handlers[i].kind = "ack" => handlers[i].fut \in DOMAIN futures /\ handlers[i].fut # f
  <2> SUFFICES ASSUME NEW i \in DOMAIN handlers, handlers[i].kind = "ack"
               PROVE  handlers[i].fut \in DOMAIN futures /\ handlers[i].fut # f
    OBVIOUS
  <2>1. handlers[i] \in Others(nodes) \cup Keepers
    BY AckFacts
  <2>2. handlers[i] \in Keepers
    BY <1>7, <2>1, HandlerFields
  <2>3. handlers[i].fut # h.fut
    BY <1>1, <1>9, <2>2 DEF Inv, Apart
  <2>. QED
    BY <1>2, <2>3, AckFacts DEF WritesOf
<1> HIDE DEF q, S
<1>12. todo'[Owner] = q /\ (todo'[Reader] \in Seq(Dry) \/ Stuck')
  <2>1. <<>> \o q = q
    BY <1>7
  <2>. QED
    BY <1>1, <1>8, <2>1 DEF CountInv, Stuck
<1>13. A \in Nat /\ A <= P
  <2>1. PICK ac : Tally(wire, "ack", ac, A, E)
    BY DEF Counts
  <2>2. PICK no : Tally(jobs, "write", no, E, P)
    BY DEF Counts, Queued
  <2>3. A \in Nat /\ E \in Nat /\ A <= E
    BY <2>1, AckFacts, TallyBounds
  <2>4. E <= P
    BY <2>2, AckFacts, TallyBounds
  <2>. QED
    BY <2>3, <2>4
<1>14. Credits(handlers', futures, lo, hi, A)
  <2>1. handlers \in Seq(Others(nodes) \cup Keepers) /\ futures \in Seq(FutureRecords)
    BY AckFacts
  <2>2. Slots(futures, lo, hi, T) /\ Credits(handlers, futures, lo, hi, A)
    BY DEF Counts
  <2>3. h.counter \in Nat /\ lo[h.fut] + h.counter = hi[h.fut]
    BY <1>2
  <2>4. h.fut = Len(futures) /\ h.fut \in WritesOf(futures) /\ futures[h.fut].state = "pending"
    BY <1>2, <1>6, <1>10
  <2>5. Whole(futures, lo, hi, h.fut) /\ A <= lo[h.fut]
    BY <1>2, <1>13
  <2>6. \A i \in DOMAIN handlers : handlers[i].kind = "ack" => handlers[i].fut \in DOMAIN futures /\ handlers[i].fut # h.fut
    BY <1>2, <1>11
  <2>7. Credits(Append(handlers, h), futures, lo, hi, A)
    BY <1>13, <2>1, <2>2, <2>3, <2>4, <2>5, <2>6, CreditsAdded
  <2>. QED
    BY <1>5, <2>7
<1>15. Counts(lo, hi, T, P, E, A)'
  BY <1>5, <1>14 DEF Counts
<1>16. Posting(q, Stuck', futures', lo, hi, P, T)
  <2>1. Pend(q, f, T - P) /\ f \in WritesOf(futures') /\ lo[f] <= P
    BY <1>5 DEF q
  <2>. QED
    BY <1>7, <2>1, PostingNext
<1>. QED
  BY <1>12, <1>15, <1>16, CountsGive

\* Whatever it does.
LEMMA CountOwner ==
  ASSUME Inv, CountInv, Step(Owner)
  PROVE  CountInv'
<1>1. PICK lo, hi, T, P, E, A :
        Counts(lo, hi, T, P, E, A) /\ Posting(todo[Owner], Stuck, futures, lo, hi, P, T)
  BY DEF CountInv
<1> DEFINE q == todo[Owner]
<1>2. q \in Seq(Steps(nodes) \cup FirstSteps)
  BY ThreadsAssumption DEF Inv, TodoInv, Threads
<1> HIDE DEF q
<1>3. /\ P \in Nat /\ T \in Nat /\ P <= T
      /\ \/ q \in Seq(Dry) /\ P = T
         \/ \E f \in WritesOf(futures) :
              /\ P < T /\ lo[f] <= P /\ hi[f] = T
              /\ q # <<>> /\ Head(q).do = "post" /\ Head(q).rpt \in WriteReports /\ Head(q).rpt.fut = f
              /\ Pend(Tail(q), f, T - (P + 1))
         \/ \E f \in WritesOf(futures) :
              /\ q # <<>> /\ Head(q) = Add(AckHandler(f, T - P)) /\ Pend(Tail(q), f, T - P)
              /\ lo[f] = P /\ hi[f] = T /\ Whole(futures, lo, hi, f)
              /\ f = Len(futures) \/ Stuck
  <2>1. Posting(q, Stuck, futures, lo, hi, P, T)
    BY <1>1 DEF q
  <2>. QED
    BY <1>2, <2>1, PostingCases
<1>4. CASE q \in Seq(Dry) /\ P = T
  BY <1>1, <1>3, <1>4, CountOwnerDry DEF q
<1>5. ASSUME NEW f \in WritesOf(futures),
             P < T /\ lo[f] <= P /\ hi[f] = T,
             Head(q).do = "post" /\ Head(q).rpt \in WriteReports /\ Head(q).rpt.fut = f,
             Pend(Tail(q), f, T - (P + 1))
      PROVE  CountInv'
  BY <1>1, <1>3, <1>5, CountOwnerPosts DEF q
<1>6. ASSUME NEW f \in WritesOf(futures),
             Head(q) = Add(AckHandler(f, T - P)) /\ Pend(Tail(q), f, T - P),
             lo[f] = P /\ hi[f] = T /\ Whole(futures, lo, hi, f),
             f = Len(futures) \/ Stuck
      PROVE  CountInv'
  BY <1>1, <1>3, <1>6, CountOwnerAdds DEF q
<1>. QED
  BY <1>3, <1>4, <1>5, <1>6

-----------------------------------------------------------------------------
(* The steps of the remote and of the wire. *)

\* Input reports that arrive at the wire without an acknowledgement.
LEMMA NoneArrives ==
  ASSUME Inv, NEW ac, NEW A, NEW E, Tally(wire, "ack", ac, A, E)
  PROVE  /\ wire' = wire \/ (\E r : wire' = Append(wire, r) /\ r.rpt # "ack") => \E u : Tally(wire', "ack", u, A, E)
         /\ \A n \in Nat : \A q :
              /\ q \in [1 .. n -> {q[j] : j \in 1 .. n}] /\ (\A j \in 1 .. n : q[j].rpt # "ack") /\ wire' = wire \o q
              => \E u : Tally(wire', "ack", u, A, E)
<1>1. wire \in Seq(InputReports)
  BY AckFacts
<1>2. ASSUME NEW r, wire' = Append(wire, r), r.rpt # "ack" PROVE \E u : Tally(wire', "ack", u, A, E)
  <2>1. PICK u : Tally(Append(wire, r), "ack", u, A, IF r.rpt = "ack" THEN E + 1 ELSE E)
    BY <1>1, TallyAppended
  <2>2. Tally(wire', "ack", u, A, E)
    BY <1>2, <2>1
  <2>. QED
    BY <2>2
<1>3. ASSUME NEW n \in Nat, NEW q, q \in [1 .. n -> {q[j] : j \in 1 .. n}], \A j \in 1 .. n : q[j].rpt # "ack",
             wire' = wire \o q
      PROVE  \E u : Tally(wire', "ack", u, A, E)
  <2> DEFINE S == {q[j] : j \in 1 .. n}
             H == InputReports \cup S
  <2> HIDE DEF S
  <2>1. q \in Seq(S)
    BY <1>3, FunctionIsSequence DEF S
  <2>2. wire \in Seq(H) /\ q \in Seq(H)
    BY <1>1, <2>1
  <2>3. \A j \in DOMAIN q : q[j].rpt # "ack"
    BY <1>3
  <2> HIDE DEF H
  <2>4. \E u : Tally(wire \o q, "ack", u, A, E)
    BY <2>2, <2>3, TallyExtended
  <2>. QED
    BY <1>3, <2>4
<1>. QED
  BY <1>2, <1>3

\* The remote answers a job that writes nothing.
LEMMA NoneAnswered ==
  ASSUME Inv, SendJob, ~LoseReport, Head(jobs).rpt # "write", NEW ac, NEW A, NEW E, Tally(wire, "ack", ac, A, E)
  PROVE  UNCHANGED written /\ \E u : Tally(wire', "ack", u, A, E)
<1>1. \A b, a, e, d : InputRead(b, a, e, d).rpt # "ack"
  BY DEF InputRead
<1>2. CASE SendStatusRequest
  <2>1. wire' = Append(wire, InputStatus) /\ InputStatus.rpt # "ack" /\ UNCHANGED written
    BY <1>2 DEF SendStatusRequest, InputStatus
  <2>. QED
    BY <2>1, NoneArrives
<1>3. CASE SendLeds \/ SendReportMode
  <2>1. wire' = wire /\ UNCHANGED written
    BY <1>3 DEF SendLeds, SendReportMode
  <2>. QED
    BY <2>1, NoneArrives
<1>4. CASE SendReadData
  <2>1. jobs # <<>> /\ Head(jobs).rpt = "read" /\ UNCHANGED written
    BY <1>4 DEF SendReadData, Send
  <2>2. PICK b \in ReadBlocks : Head(jobs) = ReadBlock(b)
    <3>1. jobs \in Seq(OutputReports)
      BY AckFacts
    <3>2. Head(jobs) \in OutputReports
      BY <2>1, <3>1
    <3>. QED
      BY <2>1, <3>2, OutputFields
  <2>3. Head(jobs).block = b /\ Chunks(b.len) \in Nat
    BY <2>2, BlockFacts DEF ReadBlock
  <2>4. CASE Absent(b.addr)
    <3> DEFINE r == InputRead(b, b.addr, TRUE, <<>>)
    <3>1. wire' = wire \o <<r>>
      BY <1>4, <2>3, <2>4 DEF SendReadData
    <3>2. r.rpt # "ack"
      BY <1>1
    <3> HIDE DEF r
    <3>3. wire \in Seq(InputReports)
      BY AckFacts
    <3>4. wire' = Append(wire, r)
      BY <3>1, <3>3
    <3>. QED
      BY <2>1, <3>2, <3>4, NoneArrives
  <2>5. CASE ~Absent(b.addr)
    <3> DEFINE a == b.addr
               n == b.len
               at(k) == (k - 1) * ChunkSize
               size(k) == IF n - at(k) < ChunkSize THEN n - at(k) ELSE ChunkSize
               piece(k) == InputRead(b, a + at(k), FALSE, Promises!Bytes(a + at(k), size(k)))
               c == Chunks(n)
               q == [k \in 1 .. c |-> piece(k)]
    <3>1. wire' = wire \o q
      BY <1>4, <2>3, <2>5 DEF SendReadData
    <3>2. \A k : piece(k).rpt # "ack"
      BY <1>1
    <3>3. c \in Nat
      BY <2>3
    <3> HIDE DEF piece, c
    <3>4. \A j \in 1 .. c : q[j].rpt # "ack"
      BY <3>2
    <3>5. q \in [1 .. c -> {q[j] : j \in 1 .. c}]
      OBVIOUS
    <3> HIDE DEF q
    <3>. QED
      BY <2>1, <3>1, <3>3, <3>4, <3>5, NoneArrives
  <2>. QED
    BY <2>4, <2>5
<1>5. ~SendWriteData
  BY DEF SendWriteData, Send
<1>. QED
  BY <1>2, <1>3, <1>4, <1>5 DEF SendJob

\* The remote answers: it executes the write report with place E.
LEMMA CountSend ==
  ASSUME Inv, CountInv, SendJob, ~LoseReport
  PROVE  CountInv'
<1>1. PICK lo, hi, T, P, E, A :
        Counts(lo, hi, T, P, E, A) /\ Posting(todo[Owner], Stuck, futures, lo, hi, P, T)
  BY DEF CountInv
<1>2. jobs # <<>> /\ jobs' = Tail(jobs) /\ UNCHANGED <<todo, handlers, futures>>
  BY RemoteAnswers
<1>3. /\ Slots(futures, lo, hi, T) /\ Executed(futures, written, lo, hi, E)
      /\ Queued(jobs, futures, lo, hi, E, P) /\ Credits(handlers, futures, lo, hi, A)
      /\ futures \in Seq(FutureRecords) /\ written \in Seq(Nat) /\ Len(written) = Len(futures)
      /\ jobs \in Seq(OutputReports) /\ wire \in Seq(InputReports)
  BY <1>1, AckFacts DEF Counts
<1>4. /\ E \in Nat
      /\ Queued(Tail(jobs), futures, lo, hi, IF Head(jobs).rpt = "write" THEN E + 1 ELSE E, P)
      /\ Head(jobs).rpt = "write" =>
           Head(jobs).fut \in WritesOf(futures) /\ lo[Head(jobs).fut] <= E /\ E < hi[Head(jobs).fut]
  BY <1>2, <1>3, QueuedSent
<1>5. PICK ac : Tally(wire, "ack", ac, A, E)
  BY <1>1 DEF Counts
<1>6. Posting(todo'[Owner], Stuck', futures', lo, hi, P, T) /\ (todo'[Reader] \in Seq(Dry) \/ Stuck')
  BY <1>1, <1>2 DEF CountInv, Stuck
<1>7. CASE Head(jobs).rpt # "write"
  <2>1. UNCHANGED written /\ \E u : Tally(wire', "ack", u, A, E)
    BY <1>5, <1>7, NoneAnswered
  <2>2. Counts(lo, hi, T, P, E, A)'
    BY <1>2, <1>3, <1>4, <1>7, <2>1 DEF Counts
  <2>. QED
    BY <1>6, <2>2, CountsGive
<1>8. CASE Head(jobs).rpt = "write"
  <2> DEFINE f == Head(jobs).fut
  <2>1. SendWriteData
    BY <1>8 DEF SendJob, SendStatusRequest, SendLeds, SendReportMode, SendReadData, Send
  <2>2. \A e : InputAck(e).rpt = "ack"
    BY DEF InputAck
  <2>3. PICK r : wire' = Append(wire, r) /\ r.rpt = "ack"
    BY <2>1, <2>2 DEF SendWriteData
  <2>4. written' = [written EXCEPT ![f] = @ + 1]
    BY <2>1 DEF SendWriteData
  <2>5. f \in WritesOf(futures) /\ lo[f] <= E /\ E < hi[f]
    BY <1>4, <1>8
  <2> HIDE DEF f
  <2>6. Executed(futures, [written EXCEPT ![f] = @ + 1], lo, hi, E + 1)
    BY <1>3, <1>4, <2>5, ExecutedOne
  <2>7. \E u : Tally(wire', "ack", u, A, E + 1)
    <3>1. PICK u : Tally(Append(wire, r), "ack", u, A, IF r.rpt = "ack" THEN E + 1 ELSE E)
      BY <1>3, <1>5, TallyAppended
    <3>2. Tally(wire', "ack", u, A, E + 1)
      BY <2>3, <3>1
    <3>. QED
      BY <3>2
  <2>8. Queued(jobs', futures, lo, hi, E + 1, P)
    BY <1>2, <1>4, <1>8
  <2>9. Counts(lo, hi, T, P, E + 1, A)'
    BY <1>2, <1>3, <2>4, <2>6, <2>7, <2>8 DEF Counts
  <2>. QED
    BY <1>6, <2>9, CountsGive
<1>. QED
  BY <1>7, <1>8

\* The user puts no acknowledgement on the wire.
LEMMA CountUser ==
  ASSUME Inv, CountInv, PressButton \/ PlugExtension
  PROVE  CountInv'
<1>1. PICK lo, hi, T, P, E, A :
        Counts(lo, hi, T, P, E, A) /\ Posting(todo[Owner], Stuck, futures, lo, hi, P, T)
  BY DEF CountInv
<1>2. /\ wire' = wire \/ \E r : wire' = Append(wire, r) /\ r.rpt # "ack"
      /\ UNCHANGED <<todo, handlers, futures, jobs, written>>
  <2>1. /\ wire' = wire \/ \E r : wire' = Append(wire, r) /\ r.rpt \in {"data", "status"}
        /\ UNCHANGED <<todo, handlers, futures, jobs>>
    BY UserActs
  <2>2. UNCHANGED written
    BY DEF PressButton, PlugExtension
  <2>. QED
    BY <2>1, <2>2
<1>3. PICK ac : Tally(wire, "ack", ac, A, E)
  BY <1>1 DEF Counts
<1>4. \E u : Tally(wire', "ack", u, A, E)
  BY <1>2, <1>3, NoneArrives
<1>5. Counts(lo, hi, T, P, E, A)'
  BY <1>1, <1>2, <1>4 DEF Counts
<1>6. Posting(todo'[Owner], Stuck', futures', lo, hi, P, T) /\ (todo'[Reader] \in Seq(Dry) \/ Stuck')
  BY <1>1, <1>2 DEF CountInv, Stuck
<1>. QED
  BY <1>5, <1>6, CountsGive

-----------------------------------------------------------------------------
(* The reader offers a report. *)

\* No request begins; A2 acknowledgements have been offered.
LEMMA CountOffered ==
  ASSUME Inv, NEW lo, NEW hi, NEW T, NEW P, NEW E, NEW A, NEW A2,
         Counts(lo, hi, T, P, E, A), Posting(todo[Owner], Stuck, futures, lo, hi, P, T),
         todo'[Owner] = todo[Owner], todo'[Reader] \in Seq(Dry), ~Stuck, UNCHANGED <<jobs, written>>,
         \E u : Tally(wire', "ack", u, A2, E), Credits(handlers', futures', lo, hi, A2),
         DOMAIN futures' = DOMAIN futures, Len(futures') = Len(futures),
         \A f \in DOMAIN futures : futures'[f].ask = futures[f].ask
  PROVE  CountInv'
<1>1. WritesOf(futures') = WritesOf(futures)
  BY DEF WritesOf
<1>2. Slots(futures', lo, hi, T)
  BY <1>1 DEF Counts, Slots
<1>3. Executed(futures', written', lo, hi, E)
  BY <1>1 DEF Counts, Executed
<1>4. Queued(jobs', futures', lo, hi, E, P)
  BY <1>1 DEF Counts, Queued
<1>5. Counts(lo, hi, T, P, E, A2)'
  BY <1>2, <1>3, <1>4 DEF Counts
<1>6. \A f \in WritesOf(futures) : f \in WritesOf(futures') /\ futures'[f].ask = futures[f].ask
  BY <1>1 DEF WritesOf
<1>7. Posting(todo[Owner], Stuck', futures', lo, hi, P, T)
  BY <1>6, PostingKept
<1>. QED
  BY <1>5, <1>7, CountsGive

\* A promise is set.
LEMMA SetKeeps ==
  ASSUME Inv, Inv', NEW f \in DOMAIN futures, NEW v,
         futures' = [futures EXCEPT ![f].state = "ready", ![f].value = v]
  PROVE  /\ DOMAIN futures' = DOMAIN futures /\ Len(futures') = Len(futures)
         /\ \A g \in DOMAIN futures : futures'[g].ask = futures[g].ask /\ (g # f => futures'[g] = futures[g])
<1>1. futures \in Seq(FutureRecords) /\ futures' \in Seq(FutureRecords)
  BY DEF Inv, FutureInv
<1>2. DOMAIN futures' = DOMAIN futures /\ \A g \in DOMAIN futures : g # f => futures'[g] = futures[g]
  OBVIOUS
<1>3. futures'[f].ask = futures[f].ask
  <2>1. futures[f] \in FutureRecords
    BY <1>1
  <2>. QED
    BY <2>1 DEF FutureRecords
<1>4. Len(futures') = Len(futures)
  BY <1>1, <1>2
<1>. QED
  BY <1>2, <1>3, <1>4

\* A report that is no acknowledgement is offered.
LEMMA OtherOffered ==
  ASSUME Inv, Inv', NEW lo, NEW hi, NEW A, Credits(handlers, futures, lo, hi, A), NEW i \in DOMAIN handlers,
         HandleStatus(i) \/ HandleData(i) \/ HandleReadReply(i)
  PROVE  /\ Head(wire).rpt # "ack" /\ Credits(handlers', futures', lo, hi, A)
         /\ DOMAIN futures' = DOMAIN futures /\ Len(futures') = Len(futures)
         /\ \A f \in DOMAIN futures : futures'[f].ask = futures[f].ask
<1> DEFINE H == Others(nodes) \cup Keepers
<1>1. handlers \in Seq(H) /\ futures \in Seq(FutureRecords) /\ nodes \in Nat
  BY AckFacts DEF Inv, TodoInv
<1>2. nodes' = nodes /\ handlers' \in Seq(H)
  <2>1. nodes' = nodes
    BY DEF HandleStatus, HandleData, HandleReadReply, TakenBy, Reaches
  <2>. QED
    BY <2>1 DEF Inv, ListInv
<1> HIDE DEF H
<1>3. \A h \in {"status", "data", "read"} : h # "ack"
  OBVIOUS
<1>4. Head(wire).rpt # "ack"
  BY DEF HandleStatus, HandleData, HandleReadReply, TakenBy, Takes
<1>5. ASSUME NEW e, Thinned(handlers, handlers', e), Begun(futures, futures')
      PROVE  Credits(handlers', futures', lo, hi, A)
  BY <1>5, AckFacts, CreditsKept
<1>6. ASSUME UNCHANGED handlers PROVE \E e : Thinned(handlers, handlers', e)
  <2>1. \A j \in DOMAIN handlers : handlers[j].kind = "ack" => j \in DOMAIN handlers /\ handlers[j] = handlers[j]
    OBVIOUS
  <2>. QED
    BY <1>1, <1>6, <2>1, ThinnedHave
<1>7. ASSUME handlers' = RemoveAt(handlers, i) PROVE \E e : Thinned(handlers, handlers', e)
  BY <1>1, <1>7, ThinnedHave
<1>8. UNCHANGED futures => Begun(futures, futures')
  BY DEF Begun
<1>9. CASE HandleStatus(i) \/ HandleData(i)
  <2>1. UNCHANGED futures /\ (UNCHANGED handlers \/ handlers' = RemoveAt(handlers, i))
    BY <1>9 DEF HandleStatus, HandleData
  <2>. QED
    BY <1>4, <1>5, <1>6, <1>7, <1>8, <2>1
<1>10. CASE HandleReadReply(i)
  <2>1. handlers[i].kind = "read"
    BY <1>10 DEF HandleReadReply, TakenBy
  <2> DEFINE h == handlers[i]
             f == h.fut
  <2>2. h \in Keepers
    <3>1. h \in Others(nodes) \cup Keepers
      BY <1>1 DEF H
    <3>. QED
      BY <1>1, <2>1, <3>1, HandlerFields
  <2>3. f \in DOMAIN futures /\ f \notin WritesOf(futures)
    <3>1. Serves(h, futures)
      BY <2>2 DEF Inv, FutureInv
    <3>2. PICK b \in ReadBlocks : futures[f].ask = AskFor("read", b)
      BY <2>1, <3>1 DEF Serves
    <3>. QED
      BY <3>1, <3>2 DEF Serves, WritesOf, AskFor
  <2>4. CASE UNCHANGED <<handlers, futures>>
    BY <1>4, <1>5, <1>6, <1>8, <2>4
  <2>5. ASSUME NEW v, Fulfil(i, v) PROVE /\ Credits(handlers', futures', lo, hi, A)
                                        /\ DOMAIN futures' = DOMAIN futures /\ Len(futures') = Len(futures)
                                        /\ \A g \in DOMAIN futures : futures'[g].ask = futures[g].ask
    <3>1. /\ futures' = [futures EXCEPT ![f].state = "ready", ![f].value = v]
          /\ handlers' = RemoveAt(handlers, i)
      BY <2>5 DEF Fulfil
    <3> HIDE DEF f, h
    <3>2. /\ DOMAIN futures' = DOMAIN futures /\ Len(futures') = Len(futures)
          /\ \A g \in DOMAIN futures : futures'[g].ask = futures[g].ask /\ (g # f => futures'[g] = futures[g])
      BY <2>3, <3>1, SetKeeps
    <3>3. Begun(futures, futures')
      <4>1. \A g \in WritesOf(futures) : g \in DOMAIN futures /\ g # f
        BY <2>3 DEF WritesOf
      <4>2. \A g \in WritesOf(futures) : g \in WritesOf(futures') /\ futures'[g] = futures[g]
        BY <3>2, <4>1 DEF WritesOf
      <4>3. \A g \in WritesOf(futures') : g \in WritesOf(futures)
        BY <3>2 DEF WritesOf
      <4>. QED
        BY <4>2, <4>3 DEF Begun
    <3>. QED
      BY <1>5, <1>7, <3>1, <3>2, <3>3
  <2>6. ASSUME NEW g, g.kind = "read", UNCHANGED futures, handlers' = [handlers EXCEPT ![i] = g]
        PROVE  Credits(handlers', futures', lo, hi, A)
    <3>1. \A j \in DOMAIN handlers' : handlers'[j].kind = "ack" => j \in DOMAIN handlers /\ handlers'[j] = handlers[j]
      <4>1. handlers'[i].kind = "read"
        BY <2>6
      <4>. QED
        BY <2>6, <4>1
    <3>. QED
      BY <1>1, <1>2, <1>5, <1>8, <2>6, <3>1, ThinnedHave
  <2>7. ASSUME ~UNCHANGED <<handlers, futures>>, \A v : ~Fulfil(i, v)
        PROVE  UNCHANGED futures /\ \E g : g.kind = "read" /\ handlers' = [handlers EXCEPT ![i] = g]
    <3> DEFINE r == Head(wire)
               amt == Amount(h, r)
               data == h.data \o SubSeq(r.data, 1, amt)
               g == [h EXCEPT !.addr = @ + amt, !.left = @ - amt, !.data = data]
    <3>1. /\ UNCHANGED futures
          /\ handlers' = [handlers EXCEPT ![i].addr = @ + amt, ![i].left = @ - amt, ![i].data = data]
      BY <1>10, <2>7 DEF HandleReadReply
    <3>2. handlers' = [handlers EXCEPT ![i] = g]
      BY <3>1
    <3>3. h \in [kind : {"read"}, fut : Nat, addr : Nat, left : Nat \ {0}, data : Seq(Nat)]
      <4>1. h \in Others(nodes) \cup Keepers
        BY <1>1 DEF H
      <4>. QED
        BY <1>1, <2>1, <4>1, HandlerFields
    <3> HIDE DEF amt, data, h
    <3>4. g.kind = "read"
      BY <3>3
    <3>. QED
      BY <3>1, <3>2, <3>4
  <2>. QED
    BY <1>4, <2>4, <2>5, <2>6, <2>7
<1>. QED
  BY <1>9, <1>10

\* An acknowledgement is offered: the first handler that waits for one counts it.
LEMMA AckOffered ==
  ASSUME Inv, Inv', NEW lo, NEW hi, NEW T, NEW A \in Nat, Slots(futures, lo, hi, T),
         Credits(handlers, futures, lo, hi, A), NEW i \in DOMAIN handlers, HandleAck(i)
  PROVE  /\ Head(wire).rpt = "ack" /\ Credits(handlers', futures', lo, hi, A + 1)
         /\ DOMAIN futures' = DOMAIN futures /\ Len(futures') = Len(futures)
         /\ \A f \in DOMAIN futures : futures'[f].ask = futures[f].ask
<1> DEFINE H == Others(nodes) \cup Keepers
           h == handlers[i]
           f == h.fut
           c == h.counter
<1>1. handlers \in Seq(H) /\ futures \in Seq(FutureRecords) /\ DOMAIN handlers = 1 .. Len(handlers) /\ Len(handlers) \in Nat
  BY AckFacts
<1>2. Head(wire).rpt = "ack" /\ h.kind = "ack"
  BY DEF HandleAck, TakenBy, Takes
<1>3. \A k \in 1 .. i - 1 : handlers[k].kind # "ack"
  BY <1>2 DEF HandleAck, TakenBy, Takes, Reaches
<1>4. /\ f \in WritesOf(futures) /\ f \in DOMAIN futures /\ futures[f].state = "pending" /\ c \in Nat \ {0}
      /\ \A k \in DOMAIN handlers : handlers[k].kind = "ack" => handlers[k].fut \in WritesOf(futures)
      /\ \A g \in WritesOf(futures) : futures[g].state \in {"pending", "ready"}
  BY <1>2, AckFacts DEF WritesOf
<1>5. h \in [kind : {"ack"}, fut : Nat, counter : Nat \ {0}]
  <2>1. h \in Others(nodes) \cup Keepers /\ nodes \in Nat
    BY <1>1 DEF Inv, TodoInv, H
  <2>. QED
    BY <1>2, <2>1, HandlerFields
<1>6. ASSUME NEW v, c = 1, Fulfil(i, v)
      PROVE  /\ Credits(handlers', futures', lo, hi, A + 1)
             /\ DOMAIN futures' = DOMAIN futures /\ Len(futures') = Len(futures)
             /\ \A g \in DOMAIN futures : futures'[g].ask = futures[g].ask
  <2>1. /\ futures' = [futures EXCEPT ![f].state = "ready", ![f].value = v]
        /\ handlers' = RemoveAt(handlers, i)
    BY <1>6 DEF Fulfil
  <2> DEFINE e == [j \in Nat |-> IF j < i THEN j ELSE j + 1]
  <2> HIDE DEF H, f, c, h
  <2>2. /\ DOMAIN futures' = DOMAIN futures /\ Len(futures') = Len(futures)
        /\ \A g \in DOMAIN futures : futures'[g].ask = futures[g].ask /\ (g # f => futures'[g] = futures[g])
    BY <1>4, <2>1, SetKeeps
  <2>3. /\ handlers' \in Seq(H) /\ Len(handlers') = Len(handlers) - 1
        /\ \A j \in 1 .. Len(handlers) - 1 : handlers'[j] = handlers[IF j < i THEN j ELSE j + 1]
    BY <1>1, <2>1, Removal
  <2>4. DOMAIN handlers' = 1 .. Len(handlers) - 1
    BY <2>3
  <2>5. \A j \in DOMAIN handlers' : j \in Nat /\ e[j] = IF j < i THEN j ELSE j + 1
    BY <1>1, <2>4
  <2> HIDE DEF e
  <2>6. \A j \in DOMAIN handlers' : e[j] \in DOMAIN handlers /\ handlers'[j] = handlers[e[j]] /\ e[j] # i
    BY <1>1, <2>3, <2>4, <2>5
  <2>7. \A j, k \in DOMAIN handlers' : j < k => e[j] < e[k]
    BY <1>1, <2>4, <2>5
  <2>8. WritesOf(futures') = WritesOf(futures)
    BY <2>2 DEF WritesOf
  <2>9. \A g \in WritesOf(futures) : futures'[g].ask = futures[g].ask /\ (g # f => futures'[g].state = futures[g].state)
    BY <2>2 DEF WritesOf
  <2>10. \A j \in DOMAIN handlers' : handlers'[j].kind = "ack" =>
           /\ e[j] \in DOMAIN handlers /\ handlers[e[j]].kind = "ack" /\ handlers'[j].fut = handlers[e[j]].fut
           /\ e[j] # i => handlers'[j] = handlers[e[j]]
           /\ e[j] = i => handlers[i].counter # 1 /\ handlers'[j].counter = handlers[i].counter - 1
    BY <2>6
  <2>11. /\ handlers[i].kind = "ack" /\ handlers[i].counter \in Nat \ {0} /\ futures[handlers[i].fut].state = "pending"
         /\ handlers[i].counter = 1 \/ futures'[handlers[i].fut].state = futures[handlers[i].fut].state
         /\ \A g \in WritesOf(futures) :
              /\ futures'[g].ask = futures[g].ask
              /\ g # handlers[i].fut => futures'[g].state = futures[g].state
    BY <1>2, <1>4, <1>6, <2>9 DEF h, f, c
  <2>12. Counted(handlers, futures, i, handlers', e, futures')
    BY <1>3, <1>4, <2>7, <2>8, <2>10, <2>11 DEF Counted
  <2>13. Credits(handlers', futures', lo, hi, A + 1)
    BY <1>1, <2>12, CreditsTaken
  <2>. QED
    BY <2>2, <2>13
<1>7. ASSUME c # 1, handlers' = [handlers EXCEPT ![i].counter = @ - 1], UNCHANGED futures
      PROVE  Credits(handlers', futures', lo, hi, A + 1)
  <2> DEFINE g == [h EXCEPT !.counter = @ - 1]
             e == [j \in Nat |-> j]
  <2>1. handlers' = [handlers EXCEPT ![i] = g]
    BY <1>7
  <2>2. g.kind = "ack" /\ g.fut = f /\ g.counter = c - 1
    BY <1>5
  <2> HIDE DEF g
  <2>3. DOMAIN handlers' = DOMAIN handlers /\ handlers'[i] = g /\ \A j \in DOMAIN handlers : j # i => handlers'[j] = handlers[j]
    BY <2>1
  <2>4. \A j \in DOMAIN handlers' : j \in Nat /\ e[j] = j
    BY <1>1, <2>3
  <2> HIDE DEF H, e
  <2>5. \A j \in DOMAIN handlers' : handlers'[j].kind = "ack" =>
          /\ e[j] \in DOMAIN handlers /\ handlers[e[j]].kind = "ack" /\ handlers'[j].fut = handlers[e[j]].fut
          /\ e[j] # i => handlers'[j] = handlers[e[j]]
          /\ e[j] = i => handlers[i].counter # 1 /\ handlers'[j].counter = handlers[i].counter - 1
    BY <1>2, <1>7, <2>2, <2>3, <2>4
  <2>6. \A j, k \in DOMAIN handlers' : j < k => e[j] < e[k]
    BY <2>4
  <2>7. /\ WritesOf(futures') = WritesOf(futures)
        /\ \A k \in WritesOf(futures) : futures'[k].ask = futures[k].ask /\ (k # f => futures'[k].state = futures[k].state)
        /\ futures'[f].state = futures[f].state
    BY <1>7
  <2>8. /\ handlers[i].kind = "ack" /\ handlers[i].counter \in Nat \ {0} /\ futures[handlers[i].fut].state = "pending"
        /\ handlers[i].counter = 1 \/ futures'[handlers[i].fut].state = futures[handlers[i].fut].state
        /\ \A k \in WritesOf(futures) :
             /\ futures'[k].ask = futures[k].ask
             /\ k # handlers[i].fut => futures'[k].state = futures[k].state
    BY <1>2, <1>4, <2>7
  <2> HIDE DEF f, c, h
  <2>9. Counted(handlers, futures, i, handlers', e, futures')
    BY <1>3, <1>4, <2>5, <2>6, <2>7, <2>8 DEF Counted
  <2>. QED
    BY <1>1, <2>9, CreditsTaken
<1>8. CASE c = 1 /\ Fulfil(i, Head(wire).error)
  BY <1>2, <1>6, <1>8
<1>9. CASE c # 1 /\ handlers' = [handlers EXCEPT ![i].counter = @ - 1] /\ UNCHANGED futures
  BY <1>2, <1>7, <1>9
<1>. QED
  BY <1>8, <1>9 DEF HandleAck

\* The reader offers a report.
LEMMA CountDispatch ==
  ASSUME Inv, Inv', CountInv, Dispatch
  PROVE  CountInv'
<1>1. PICK lo, hi, T, P, E, A :
        Counts(lo, hi, T, P, E, A) /\ Posting(todo[Owner], Stuck, futures, lo, hi, P, T)
  BY DEF CountInv
<1>2. wire # <<>> /\ wire' = Tail(wire) /\ todo[Reader] = <<>> /\ UNCHANGED <<jobs, written>>
  BY DEF Dispatch, HandleUnhandled, HandleStatus, HandleData, HandleReadReply, HandleAck, TakenBy, Reaches, LockFree
<1>3. ~Stuck /\ Owner \in Threads /\ Reader \in Threads /\ Reader # Owner /\ DOMAIN todo = Threads
  BY <1>2, ThreadsAssumption DEF Stuck, Threads, Inv, TodoInv
<1>4. todo'[Owner] = todo[Owner] /\ todo'[Reader] \in Seq(Dry)
  <2>1. todo' = todo \/ todo' = [todo EXCEPT ![Reader] = UpdateReportingMode]
    BY DEF Dispatch, HandleUnhandled, HandleStatus, HandleData, HandleReadReply, HandleAck
  <2>2. <<>> \in Seq(Dry)
    OBVIOUS
  <2>. QED
    BY <1>2, <1>3, <2>1, <2>2, BranchesDry
<1> DEFINE k == Head(wire).rpt
<1>5. /\ A \in Nat
      /\ k = "ack" => \E u : Tally(wire', "ack", u, A + 1, E)
      /\ k # "ack" => \E u : Tally(wire', "ack", u, A, E)
  <2>1. PICK ac : Tally(wire, "ack", ac, A, E)
    BY <1>1 DEF Counts
  <2>2. wire \in Seq(InputReports)
    BY AckFacts
  <2>3. A \in Nat /\ \E u : Tally(Tail(wire), "ack", u, IF Head(wire).rpt = "ack" THEN A + 1 ELSE A, E)
    BY <1>2, <2>1, <2>2, TallyTaken
  <2>. QED
    BY <1>2, <2>3
<1>6. Slots(futures, lo, hi, T) /\ Credits(handlers, futures, lo, hi, A)
  BY <1>1 DEF Counts
<1> HIDE DEF k
<1>7. ASSUME NEW A2, \E u : Tally(wire', "ack", u, A2, E), Credits(handlers', futures', lo, hi, A2),
             DOMAIN futures' = DOMAIN futures, Len(futures') = Len(futures),
             \A f \in DOMAIN futures : futures'[f].ask = futures[f].ask
      PROVE  CountInv'
  BY <1>1, <1>2, <1>3, <1>4, <1>7, CountOffered
<1>8. CASE HandleUnhandled
  <2>1. /\ UNCHANGED <<handlers, futures>>
        /\ \A i \in 1 .. (Len(handlers) + 1) - 1 : ~Takes(handlers[i], Head(wire))
    BY <1>8 DEF HandleUnhandled, Reaches
  <2>2. DOMAIN futures' = DOMAIN futures /\ Len(futures') = Len(futures) /\ \A f \in DOMAIN futures : futures'[f].ask = futures[f].ask
    BY <2>1
  <2>3. ASSUME k = "ack" PROVE Credits(handlers', futures', lo, hi, A + 1)
    <3>1. DOMAIN handlers = 1 .. (Len(handlers) + 1) - 1
      <4>1. handlers \in Seq(Others(nodes) \cup Keepers)
        BY AckFacts
      <4>2. DOMAIN handlers = 1 .. Len(handlers) /\ Len(handlers) \in Nat
        BY <4>1, Queues
      <4>. QED
        BY <4>2
    <3>2. \A i \in DOMAIN handlers : handlers[i].kind # "ack"
      BY <2>1, <2>3, <3>1 DEF Takes, k
    <3>. QED
      BY <1>5, <1>6, <2>1, <3>2, CreditsIgnored
  <2>4. Credits(handlers', futures', lo, hi, A)
    BY <1>6, <2>1
  <2>. QED
    BY <1>5, <1>7, <2>2, <2>3, <2>4
<1>9. ASSUME NEW i \in DOMAIN handlers, HandleStatus(i) \/ HandleData(i) \/ HandleReadReply(i) PROVE CountInv'
  <2>1. /\ k # "ack" /\ Credits(handlers', futures', lo, hi, A)
        /\ DOMAIN futures' = DOMAIN futures /\ Len(futures') = Len(futures)
        /\ \A f \in DOMAIN futures : futures'[f].ask = futures[f].ask
    BY <1>6, <1>9, OtherOffered DEF k
  <2>. QED
    BY <1>5, <1>7, <2>1
<1>10. ASSUME NEW i \in DOMAIN handlers, HandleAck(i) PROVE CountInv'
  <2>1. /\ k = "ack" /\ Credits(handlers', futures', lo, hi, A + 1)
        /\ DOMAIN futures' = DOMAIN futures /\ Len(futures') = Len(futures)
        /\ \A f \in DOMAIN futures : futures'[f].ask = futures[f].ask
    BY <1>5, <1>6, <1>10, AckOffered DEF k
  <2>. QED
    BY <1>5, <1>7, <2>1
<1>. QED
  BY <1>8, <1>9, <1>10 DEF Dispatch

-----------------------------------------------------------------------------
(* The theorem about writes. *)

LEMMA CountStep ==
  ASSUME Callers = {Owner}, MaxLosses = 0, Inv, Inv', FirstInv, CountInv, [Next]_vars
  PROVE  CountInv'
<1>1. ~LoseReport
  BY DEF FirstInv, LoseReport
<1>2. CASE SetLeds(Owner) \/ SetReport(Owner) \/ ReadData(Owner) \/ WriteData(Owner) \/ GetPresentGyro(Owner)
             \/ GetExtId(Owner)
  <2>1. PICK steps \in Seq(Dry) : Call(Owner, steps)
    BY <1>2, ThreadsAssumption, CallsDry
  <2>. QED
    BY <2>1, CountCalls
<1>3. CASE UNCHANGED vars
  BY <1>3 DEF vars, CountInv, Counts, Stuck
<1>4. Rest => UNCHANGED vars
  BY DEF Rest
<1>. QED
  BY <1>1, <1>2, <1>3, <1>4, CountOwner, CountReader, CountSend, CountUser, CountDispatch DEF Next, Threads

LEMMA InitCount == Init => CountInv
<1> SUFFICES ASSUME Init PROVE CountInv
  OBVIOUS
<1>1. handlers = <<>> /\ jobs = <<>> /\ wire = <<>> /\ futures = <<>> /\ written = <<>>
  BY DEF Init
<1>2. todo[Owner] = Construct /\ todo[Reader] = <<>>
  BY ThreadsAssumption DEF Init, Threads
<1> DEFINE z == [i \in {} |-> 0]
           t == [i \in 1 .. 1 |-> 0]
<1>3. DOMAIN <<>> = {} /\ Len(<<>>) = 0 /\ <<>> \in Seq(Dry)
  OBVIOUS
<1>4. z \in [{} -> Nat] /\ t \in [1 .. 1 -> Nat] /\ t[1] = 0 /\ \A i \in DOMAIN t : t[i] <= 0
  OBVIOUS
<1> HIDE DEF z, t
<1>5. WritesOf(futures) = {}
  BY <1>1, <1>3 DEF WritesOf
<1>6. Slots(futures, z, z, 0)
  BY <1>1, <1>3, <1>4, <1>5 DEF Slots
<1>7. Executed(futures, written, z, z, 0)
  BY <1>5 DEF Executed
<1>8. \A kind : Tally(<<>>, kind, t, 0, 0)
  BY <1>3, <1>4 DEF Tally
<1>9. Queued(jobs, futures, z, z, 0, 0)
  BY <1>1, <1>3, <1>8 DEF Queued
<1>10. Credits(handlers, futures, z, z, 0)
  BY <1>1, <1>3, <1>5 DEF Credits
<1>11. Counts(z, z, 0, 0, 0, 0)
  BY <1>1, <1>6, <1>7, <1>8, <1>9, <1>10 DEF Counts
<1>12. Posting(todo[Owner], Stuck, futures, z, z, 0, 0)
  BY <1>2, ConstructDry DEF Posting
<1>. QED
  BY <1>2, <1>3, <1>11, <1>12 DEF CountInv

\* When the future of a write is ready, the remote has executed all its write
\* reports, however the acknowledgements of several writes are on their way at the
\* same time and although nothing in one says which write it answers: the handlers are
\* in the order of the writes and each takes as many as its write has reports.  The
\* exception is a write after one whose handler change_reporting_mode() has erased:
\* what belongs to that one is credited to the next.
THEOREM ReadyOnlyWhenWritten ==
  ASSUME Callers = {Owner}, MaxLosses = 0 PROVE Spec => []ReadyMeansWritten
<1>1. Inv /\ CountInv => ReadyMeansWritten
  <2> SUFFICES ASSUME Inv, CountInv, NEW f \in WritesOf(futures), futures[f].state = "ready",
                      Intact(handlers, futures, f)
               PROVE  written[f] = Chunks(futures[f].ask.len)
    BY DEF ReadyMeansWritten, WritesOf, Intact, NoHandler
  <2>1. PICK lo, hi, T, P, E, A : Counts(lo, hi, T, P, E, A)
    BY DEF CountInv
  <2>2. Whole(futures, lo, hi, f) /\ hi[f] <= A
    BY <2>1 DEF Counts, Credits
  <2>3. A \in Nat /\ E \in Nat /\ A <= E
    BY <2>1, AckFacts, TallyBounds DEF Counts
  <2>4. lo[f] \in Nat /\ hi[f] \in Nat /\ lo[f] <= hi[f]
    BY <2>1 DEF Counts, Slots, WritesOf
  <2>5. written[f] = IF E <= lo[f] THEN 0 ELSE IF hi[f] <= E THEN hi[f] - lo[f] ELSE E - lo[f]
    BY <2>1 DEF Counts, Executed
  <2>6. Chunks(futures[f].ask.len) \in Nat
    <3>1. futures[f].ask \in Asks
      <4>1. futures \in Seq(FutureRecords) /\ f \in DOMAIN futures
        BY AckFacts DEF WritesOf
      <4>2. futures[f] \in FutureRecords
        BY <4>1
      <4>. QED
        BY <4>2 DEF FutureRecords
    <3>2. \A a \in Asks : \E b \in ReadBlocks \cup WriteBlocks : a.len = b.len
      BY DEF Asks, AskFor
    <3>3. \A b \in ReadBlocks \cup WriteBlocks : Chunks(b.len) \in Nat
      BY BlockFacts
    <3>. QED
      BY <3>1, <3>2, <3>3
  <2> DEFINE l == lo[f]
             h == hi[f]
             c == Chunks(futures[f].ask.len)
             w == written[f]
  <2>7. /\ l \in Nat /\ h \in Nat /\ c \in Nat /\ h = l + c /\ h <= A
        /\ w = IF E <= l THEN 0 ELSE IF h <= E THEN h - l ELSE E - l
    BY <2>2, <2>4, <2>5, <2>6 DEF Whole
  <2> HIDE DEF l, h, c, w
  <2>8. w = c
    BY <2>3, <2>7
  <2>. QED
    BY <2>8 DEF w, c
<1>. QED
  BY <1>1, InitInv, InvStep, InitFirst, FirstStep, InitCount, CountStep, PTL DEF Spec

=============================================================================

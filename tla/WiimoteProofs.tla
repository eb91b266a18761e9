---------------------------- MODULE WiimoteProofs ----------------------------
(***************************************************************************)
(* Proofs about Wiimote, for any threads, blocks and bounds: the types, and *)
(* the refinement of Requests.  The argument is about the handlers that     *)
(* hold a promise: each serves one future, no two serve the same, and, as   *)
(* long as the reads under way together are apart, what a handler has       *)
(* collected is the beginning of the block it was asked for, because every  *)
(* reply on the wire carries the bytes of its address.                      *)
(***************************************************************************)
EXTENDS Wiimote, TLAPS

(* What the jobs send, and what the steps of a call may be. *)

Modes == {Off, Button, ButtonAccel, ButtonAccelExt16}

WriteReports == [rpt : {"write"}, fut : Nat, addr : Nat]
OtherReports ==
  {StatusRequest}
    \cup {PlayerLeds(v) : v \in Leds}
    \cup {ReportMode(m) : m \in Modes}
    \cup {ReadBlock(b) : b \in ReadBlocks}
OutputReports == OtherReports \cup WriteReports

\* Handlers that hold a promise, and the others.
Keepers ==
  [kind : {"read"}, fut : Nat, addr : Nat, left : Nat \ {0}, data : Seq(Nat)]
    \cup [kind : {"ack"}, fut : Nat, counter : Nat \ {0}]
Others(n) ==
  {StatusHandler, ButtonHandler}
    \cup [kind : {"data"}, mode : {ButtonAccel, ButtonAccelExt16}, node : 1 .. n]

\* The tests in update_reporting_mode() and initialize_extension().
StartExt == InitializeExtension[1]
TestExt == IfState("report_ext", TRUE, InitializeExtension, <<>>)
TestAccel == IfState("report_accel", TRUE, ChangeMode(ButtonAccel), SendMode(Button))
TestBoth == IfState("report_ext", TRUE, ChangeMode(ButtonAccelExt16), <<TestAccel>>)
Tests == {StartExt, TestExt, TestAccel, TestBoth, UpdateReportingMode[1]}

\* The steps of a call; data_iter is set to one of the first n nodes.
Stores(n) ==
  {Store("leds", v) : v \in Leds} \cup {Store("ext_mode", 85)}
    \cup {Store("data_iter", k) : k \in 0 .. n}
    \cup {Store(f, v) : f \in Features, v \in BOOLEAN}
Steps(n) ==
  {Add(StatusHandler), Add(ButtonHandler), RemoveFromIterator, Return,
   AddData(ButtonAccel), AddData(ButtonAccelExt16)}
    \cup {Post(r) : r \in OtherReports} \cup [do : {"post"}, rpt : WriteReports]
    \cup Stores(n)
    \cup {Read(b, wait) : b \in ReadBlocks, wait \in BOOLEAN}
    \cup {Write(b, wait) : b \in WriteBlocks, wait \in BOOLEAN}
    \cup [do : {"await"}, fut : Nat]
    \cup Tests

\* The step that inserts a handler with a promise comes right after the one that
\* made the promise, and is never left for later.
FirstSteps == [do : {"add"}, handler : Keepers]
TodoInv ==
  /\ nodes \in Nat
  /\ todo \in [Threads -> Seq(Steps(nodes) \cup FirstSteps)]
  /\ \A t \in Threads : todo[t] # <<>> => Tail(todo[t]) \in Seq(Steps(nodes))

ListInv == handlers \in Seq(Others(nodes) \cup Keepers)

StateInv ==
  /\ state \in [leds : {0} \cup Leds, present_ext : BOOLEAN, ext_mode : {0, 85}, data_iter : 0 .. nodes,
                report_button : BOOLEAN, report_accel : BOOLEAN, report_ir : BOOLEAN,
                report_gyro : BOOLEAN, report_ext : BOOLEAN]
  /\ built \in BOOLEAN

\* A reply carries bytes of its block, or reports the error of a block that may
\* be refused.
Faithful(r) ==
  IF r.error
  THEN r.block.addr \in ExtSpace /\ r.addr = r.block.addr % LowSize
  ELSE \E i \in 0 .. r.block.len - 1 :
         /\ r.addr = (r.block.addr + i) % LowSize
         /\ r.data # <<>> /\ r.data = Promises!Bytes(r.block.addr + i, Len(r.data))
Replies ==
  [rpt : {"read"}, button : {0, 1}, addr : Nat, error : BOOLEAN, data : Seq(Nat), block : ReadBlocks]
InputReports ==
  [rpt : {"status"}, button : {0, 1}, ext : BOOLEAN]
    \cup [rpt : {"ack"}, button : {0, 1}, error : {"ok", "error"}]
    \cup [rpt : {"data"}, button : {0, 1}, mode : Modes]
    \cup {r \in Replies : Faithful(r)}
WireInv ==
  /\ jobs \in Seq(OutputReports)
  /\ wire \in Seq(InputReports)
  /\ remote \in [leds : Nat, mode : Modes, ext : BOOLEAN, button : {0, 1}]

\* A handler serves one of the futures fs, which is pending.
Serves(h, fs) ==
  /\ h.fut \in DOMAIN fs /\ fs[h.fut].state = "pending"
  /\ h.kind = "read" => \E b \in ReadBlocks : fs[h.fut].ask = AskFor("read", b)
  /\ h.kind = "ack" => fs[h.fut].ask.kind = "write"

\* With the steps q left, a thread is about to insert a handler with a promise.
Adds(q) == q # <<>> /\ Head(q) \in FirstSteps
Added(q) == Head(q).handler

Values == Seq(Nat) \cup {"ok", "error"}
FutureRecords == [ask : Asks, state : {"pending", "ready"}, value : Values]

\* A pending future becomes ready.
Completes ==
  \E f \in DOMAIN futures :
    /\ futures[f].state = "pending"
    /\ \E v \in Values : futures' = [futures EXCEPT ![f].state = "ready", ![f].value = v]
FutureInv ==
  /\ futures \in Seq(FutureRecords)
  /\ written \in Seq(Nat) /\ Len(written) = Len(futures)
  /\ \A i \in DOMAIN handlers : handlers[i] \in Keepers => Serves(handlers[i], futures)
  /\ \A t \in Threads : Adds(todo[t]) => Serves(Added(todo[t]), futures)

\* No two handlers serve the same future.
Apart ==
  /\ \A i, j \in DOMAIN handlers :
       handlers[i] \in Keepers /\ handlers[j] \in Keepers /\ handlers[i].fut = handlers[j].fut => i = j
  /\ \A i \in DOMAIN handlers, t \in Threads :
       handlers[i] \in Keepers /\ Adds(todo[t]) => handlers[i].fut # Added(todo[t]).fut
  /\ \A t, u \in Threads :
       Adds(todo[t]) /\ Adds(todo[u]) /\ Added(todo[t]).fut = Added(todo[u]).fut => t = u

Inv == TodoInv /\ ListInv /\ StateInv /\ WireInv /\ FutureInv /\ Apart

\* A handler has collected the beginning of its block.
Collected(h, b) ==
  \E i \in 0 .. b.len - 1 :
    h.addr = b.addr + i /\ h.left = b.len - i /\ h.data = Promises!Bytes(b.addr, i)
Gathered(h, fs) ==
  h.kind = "read" => \A b \in ReadBlocks : fs[h.fut].ask = AskFor("read", b) => Collected(h, b)
CollectInv ==
  /\ \A i \in DOMAIN handlers : Gathered(handlers[i], futures)
  /\ \A t \in Threads : Adds(todo[t]) => Gathered(Added(todo[t]), futures)

-----------------------------------------------------------------------------
(* Steps. *)

\* A function on 1 .. k is a sequence.
LEMMA FunctionIsSequence ==
  ASSUME NEW S, NEW k \in Nat, NEW f \in [1 .. k -> S]
  PROVE  f \in Seq(S) /\ Len(f) = k
<1>1. \A i \in 1 .. k : f[i] \in S
  OBVIOUS
<1>. QED
  BY <1>1

\* What a step holds, by its kind.
LEMMA StepFields ==
  ASSUME NEW n \in Nat, NEW s \in Steps(n) \cup FirstSteps
  PROVE  /\ s.do = "add" => s.handler \in Others(n) \cup Keepers
         /\ s.do = "add" /\ s \in Steps(n) => s.handler \in Others(n)
         /\ s.do = "addData" => s.mode \in {ButtonAccel, ButtonAccelExt16}
         /\ s.do = "post" => s.rpt \in OutputReports
         /\ s.do = "store" => s \in Stores(n)
         /\ s.do = "if" => s \in Tests
         /\ s.do = "read" => s.block \in ReadBlocks /\ s.wait \in BOOLEAN
         /\ s.do = "write" => s.block \in WriteBlocks /\ s.wait \in BOOLEAN
<1>1. ASSUME s \in Stores(n) PROVE s.do = "store"
  BY <1>1 DEF Stores, Store
<1>2. ASSUME s \in Tests PROVE s.do = "if"
  <2>1. StartExt.do = "if"
    BY DEF StartExt, InitializeExtension, IfState
  <2>2. TestExt.do = "if" /\ TestAccel.do = "if" /\ TestBoth.do = "if"
    BY DEF TestExt, TestAccel, TestBoth, IfState
  <2>3. UpdateReportingMode[1].do = "if"
    BY DEF UpdateReportingMode, IfState
  <2>. QED
    BY <1>2, <2>1, <2>2, <2>3 DEF Tests
<1>3. ASSUME s \in FirstSteps PROVE s.do = "add" /\ s.handler \in Keepers
  BY <1>3 DEF FirstSteps
<1>4. ASSUME s \in {Add(StatusHandler), Add(ButtonHandler)}
      PROVE  s.do = "add" /\ s.handler \in Others(n)
  BY <1>4 DEF Add, Others
<1>5. ASSUME s \in {RemoveFromIterator, Return} \cup [do : {"await"}, fut : Nat]
      PROVE  s.do \in {"remove", "return", "await"}
  BY <1>5 DEF RemoveFromIterator, Return
<1>6. ASSUME s \in {AddData(ButtonAccel), AddData(ButtonAccelExt16)}
      PROVE  s.do = "addData" /\ s.mode \in {ButtonAccel, ButtonAccelExt16}
  BY <1>6 DEF AddData
<1>7. ASSUME s \in {Post(r) : r \in OtherReports} \cup [do : {"post"}, rpt : WriteReports]
      PROVE  s.do = "post" /\ s.rpt \in OutputReports
  BY <1>7 DEF Post, OutputReports
<1>8. ASSUME s \in {Read(b, wait) : b \in ReadBlocks, wait \in BOOLEAN}
      PROVE  s.do = "read" /\ s.block \in ReadBlocks /\ s.wait \in BOOLEAN
  BY <1>8 DEF Read
<1>9. ASSUME s \in {Write(b, wait) : b \in WriteBlocks, wait \in BOOLEAN}
      PROVE  s.do = "write" /\ s.block \in WriteBlocks /\ s.wait \in BOOLEAN
  BY <1>9 DEF Write
<1>10. ASSUME s \in Steps(n)
       PROVE  \/ s \in Stores(n) \/ s \in Tests
              \/ s \in {Add(StatusHandler), Add(ButtonHandler)}
              \/ s \in {RemoveFromIterator, Return} \cup [do : {"await"}, fut : Nat]
              \/ s \in {AddData(ButtonAccel), AddData(ButtonAccelExt16)}
              \/ s \in {Post(r) : r \in OtherReports} \cup [do : {"post"}, rpt : WriteReports]
              \/ s \in {Read(b, wait) : b \in ReadBlocks, wait \in BOOLEAN}
              \/ s \in {Write(b, wait) : b \in WriteBlocks, wait \in BOOLEAN}
  BY <1>10 DEF Steps
<1>11. CASE s \in Steps(n)
  BY <1>1, <1>2, <1>4, <1>5, <1>6, <1>7, <1>8, <1>9, <1>10, <1>11
<1>12. CASE s \notin Steps(n)
  BY <1>3, <1>12
<1>. QED
  BY <1>11, <1>12

\* A handler with a promise is none of the others, nor is the step that adds it.
LEMMA KeepersApart ==
  ASSUME NEW n \in Nat
  PROVE  /\ \A h \in Others(n) : h \notin Keepers
         /\ \A s \in Steps(n) : s \notin FirstSteps
<1>1. \A h \in Others(n) : h.kind \in {"status", "button", "data"}
  BY DEF Others, StatusHandler, ButtonHandler
<1>2. \A h \in Keepers : h.kind \in {"read", "ack"}
  BY DEF Keepers
<1>3. \A s \in FirstSteps : s.do = "add" /\ s.handler \in Keepers
  BY DEF FirstSteps
<1>. QED
  BY <1>1, <1>2, <1>3, StepFields

\* A step stays one when nodes are added.
LEMMA StepsGrow ==
  ASSUME NEW n \in Nat, NEW m \in Nat, n <= m
  PROVE  Steps(n) \subseteq Steps(m)
<1>1. Stores(n) \subseteq Stores(m)
  BY DEF Stores
<1>. QED
  BY <1>1 DEF Steps

\* The steps that the member functions are made of.
LEMMA StepsHave ==
  ASSUME NEW n \in Nat
  PROVE  /\ \A s \in Tests : s \in Steps(n)
         /\ Add(StatusHandler) \in Steps(n) /\ Add(ButtonHandler) \in Steps(n)
         /\ RemoveFromIterator \in Steps(n) /\ Return \in Steps(n)
         /\ AddData(ButtonAccel) \in Steps(n) /\ AddData(ButtonAccelExt16) \in Steps(n)
         /\ \A r \in OtherReports : Post(r) \in Steps(n)
         /\ \A r \in WriteReports : Post(r) \in Steps(n)
         /\ \A v \in Leds : Store("leds", v) \in Steps(n)
         /\ Store("ext_mode", 85) \in Steps(n)
         /\ \A k \in 0 .. n : Store("data_iter", k) \in Steps(n)
         /\ \A f \in Features, v \in BOOLEAN : Store(f, v) \in Steps(n)
         /\ \A b \in ReadBlocks, wait \in BOOLEAN : Read(b, wait) \in Steps(n)
         /\ \A b \in WriteBlocks, wait \in BOOLEAN : Write(b, wait) \in Steps(n)
         /\ \A f \in Nat : Await(f) \in Steps(n)
<1>1. \A r \in WriteReports : Post(r) \in [do : {"post"}, rpt : WriteReports]
  BY DEF Post
<1>2. \A f \in Nat : Await(f) \in [do : {"await"}, fut : Nat]
  BY DEF Await
<1>3. /\ \A v \in Leds : Store("leds", v) \in Stores(n)
      /\ Store("ext_mode", 85) \in Stores(n)
      /\ \A k \in 0 .. n : Store("data_iter", k) \in Stores(n)
      /\ \A f \in Features, v \in BOOLEAN : Store(f, v) \in Stores(n)
  BY DEF Stores
<1>4. \A b \in ReadBlocks, wait \in BOOLEAN : Read(b, wait) \in Steps(n)
  BY DEF Steps
<1>5. \A b \in WriteBlocks, wait \in BOOLEAN : Write(b, wait) \in Steps(n)
  BY DEF Steps
<1>6. \A r \in OtherReports : Post(r) \in Steps(n)
  BY DEF Steps
<1>. QED
  BY <1>1, <1>2, <1>3, <1>4, <1>5, <1>6 DEF Steps

\* The reports that the member functions post.
LEMMA ReportsHave ==
  /\ StatusRequest \in OtherReports
  /\ \A v \in Leds : PlayerLeds(v) \in OtherReports
  /\ \A m \in Modes : ReportMode(m) \in OtherReports
  /\ \A b \in ReadBlocks : ReadBlock(b) \in OtherReports
BY DEF OtherReports

\* initialize_extension() is made of steps.
LEMMA InitializeExtensionSteps ==
  ASSUME NEW n \in Nat
  PROVE  InitializeExtension \in Seq(Steps(n)) /\ StartExt.then \in Seq(Steps(n)) /\ StartExt.else \in Seq(Steps(n))
<1> DEFINE writes == [i \in DOMAIN ExtInit |-> Write(ExtInit[i], FALSE)]
<1>1. \A i \in DOMAIN ExtInit : Write(ExtInit[i], FALSE) \in Steps(n)
  BY StepsHave DEF WriteBlocks
<1>2. ExtInit \in Seq(Block)
  BY BlocksAssumption
<1>3. writes \in Seq(Steps(n))
  <2>1. DOMAIN ExtInit = 1 .. Len(ExtInit) /\ Len(ExtInit) \in Nat
    BY <1>2
  <2>2. writes \in [1 .. Len(ExtInit) -> Steps(n)]
    BY <1>1, <2>1
  <2>. QED
    BY <2>1, <2>2, FunctionIsSequence
<1>4. Append(writes, Store("ext_mode", 85)) \in Seq(Steps(n))
  BY <1>3, StepsHave
<1>5. StartExt = IfState("ext_mode", 0, Append(writes, Store("ext_mode", 85)), <<>>)
  BY DEF StartExt, InitializeExtension
<1>6. InitializeExtension = <<StartExt>>
  BY <1>5 DEF InitializeExtension
<1>7. StartExt \in Steps(n)
  BY StepsHave DEF Tests
<1>8. StartExt.then = Append(writes, Store("ext_mode", 85)) /\ StartExt.else = <<>>
  BY <1>5 DEF IfState
<1>. QED
  BY <1>4, <1>6, <1>7, <1>8

\* So are the rest of update_reporting_mode() and the branches of its tests.
LEMMA UpdateReportingModeSteps ==
  ASSUME NEW n \in Nat
  PROVE  /\ UpdateReportingMode \in Seq(Steps(n))
         /\ \A s \in Tests : s.then \in Seq(Steps(n)) /\ s.else \in Seq(Steps(n))
<1> USE StepsHave
<1>1. TestExt \in Steps(n) /\ TestAccel \in Steps(n) /\ TestBoth \in Steps(n)
      /\ UpdateReportingMode[1] \in Steps(n)
  BY Zenon DEF Tests
<1>2. ASSUME NEW m \in Modes
      PROVE  SendMode(m) \in Seq(Steps(n))
  <2>1. Post(ReportMode(m)) \in Steps(n)
    BY ReportsHave
  <2>2. SendMode(m) = <<TestExt, Post(ReportMode(m))>>
    BY DEF SendMode, TestExt
  <2>. QED
    BY <1>1, <2>1, <2>2
<1>3. ASSUME NEW m \in {ButtonAccel, ButtonAccelExt16}
      PROVE  ChangeMode(m) \in Seq(Steps(n))
  <2>1. AddData(m) \in Steps(n) /\ RemoveFromIterator \in Steps(n)
    OBVIOUS
  <2>2. <<RemoveFromIterator, AddData(m)>> \in Seq(Steps(n))
    BY <2>1
  <2>3. SendMode(m) \in Seq(Steps(n))
    BY <1>2 DEF Modes
  <2>. QED
    BY <2>2, <2>3 DEF ChangeMode
<1>4. <<TestAccel>> \in Seq(Steps(n)) /\ <<>> \in Seq(Steps(n)) /\ <<TestBoth>> \in Seq(Steps(n))
  BY <1>1
<1>5. /\ UpdateReportingMode = <<UpdateReportingMode[1]>>
      /\ UpdateReportingMode[1].then = <<TestBoth>>
      /\ UpdateReportingMode[1].else = <<TestAccel>>
  BY DEF UpdateReportingMode, TestBoth, TestAccel, IfState
<1>6. UpdateReportingMode \in Seq(Steps(n))
  <2>1. <<UpdateReportingMode[1]>> \in Seq(Steps(n))
    BY <1>1
  <2>. QED
    BY <1>5, <2>1, Zenon
<1>7. TestExt.then = InitializeExtension /\ TestExt.else = <<>>
  BY DEF TestExt, IfState
<1>8. TestAccel.then = ChangeMode(ButtonAccel) /\ TestAccel.else = SendMode(Button)
  BY DEF TestAccel, IfState
<1>9. TestBoth.then = ChangeMode(ButtonAccelExt16) /\ TestBoth.else = <<TestAccel>>
  BY DEF TestBoth, IfState
<1>10. SendMode(Button) \in Seq(Steps(n))
  BY <1>2 DEF Modes
<1>. QED
  BY <1>3, <1>4, <1>5, <1>6, <1>7, <1>8, <1>9, <1>10, InitializeExtensionSteps DEF Tests

-----------------------------------------------------------------------------
(* What is left of the calls. *)

\* Only the beginning of read_data() and write_data() leads to a step that adds a
\* handler with a promise.
Goes ==
  /\ TodoInv'
  /\ \A u \in Threads : Adds(todo'[u]) => todo'[u] = todo[u] \/ BeginRead(u) \/ BeginWrite(u)

\* None of the other steps does.
LEMMA AddsNone == ASSUME NEW n \in Nat, NEW q \in Seq(Steps(n)) PROVE ~Adds(q)
<1>1. q # <<>> => Head(q) \in Steps(n)
  OBVIOUS
<1>. QED
  BY <1>1, KeepersApart DEF Adds

\* A thread goes on with the steps of a callee, and no node is forgotten.
LEMMA ContinueKeeps ==
  ASSUME TodoInv, NEW t \in Threads, todo[t] # <<>>,
         nodes' \in Nat, nodes <= nodes',
         NEW steps \in Seq(Steps(nodes') \cup FirstSteps),
         steps # <<>> => Tail(steps) \in Seq(Steps(nodes')),
         Continue(t, steps),
         steps \in Seq(Steps(nodes')) \/ BeginRead(t) \/ BeginWrite(t)
  PROVE  Goes
<1> DEFINE S == Steps(nodes')
           F == Steps(nodes') \cup FirstSteps
<1>1. Steps(nodes) \subseteq S
  BY StepsGrow DEF TodoInv
<1>2. Tail(todo[t]) \in Seq(S)
  BY <1>1 DEF TodoInv
<1>3. todo' = [todo EXCEPT ![t] = steps \o Tail(todo[t])]
  BY DEF Continue
<1>4. \A u \in Threads : u # t => todo'[u] = todo[u] /\ todo[u] \in Seq(F)
  BY <1>1, <1>3 DEF TodoInv
<1>5. todo'[t] = steps \o Tail(todo[t])
  BY <1>3 DEF TodoInv
<1> HIDE DEF S, F
<1>6. S \subseteq F /\ steps \in Seq(F) /\ (steps # <<>> => Tail(steps) \in Seq(S))
  BY DEF S, F
<1>7. steps \o Tail(todo[t]) \in Seq(F)
  BY <1>2, <1>6
<1>8. ASSUME steps \o Tail(todo[t]) # <<>> PROVE Tail(steps \o Tail(todo[t])) \in Seq(S)
  <2>1. CASE steps = <<>>
    <3>1. steps \o Tail(todo[t]) = Tail(todo[t])
      BY <1>2, <2>1
    <3>. QED
      BY <1>2, <1>8, <3>1
  <2>2. CASE steps # <<>>
    <3>1. Tail(steps \o Tail(todo[t])) = Tail(steps) \o Tail(todo[t])
      BY <1>2, <1>6, <2>2
    <3>. QED
      BY <1>2, <1>6, <2>2, <3>1
  <2>. QED
    BY <2>1, <2>2
<1>9. todo' \in [Threads -> Seq(F)]
  BY <1>3, <1>4, <1>7 DEF TodoInv
<1>10. \A u \in Threads : todo'[u] # <<>> => Tail(todo'[u]) \in Seq(S)
  <2>1. \A u \in Threads : todo[u] # <<>> => Tail(todo[u]) \in Seq(S)
    BY <1>1 DEF TodoInv, S
  <2>. QED
    BY <1>4, <1>5, <1>8, <2>1
<1>11. TodoInv'
  BY <1>9, <1>10 DEF TodoInv, S, F
<1>12. ~Adds(todo'[t]) \/ BeginRead(t) \/ BeginWrite(t)
  <2>1. CASE steps \in Seq(S)
    <3>1. steps \o Tail(todo[t]) \in Seq(S)
      BY <1>2, <2>1
    <3>. QED
      BY <1>5, <3>1, AddsNone DEF S
  <2>. QED
    BY <2>1 DEF S
<1>. QED
  BY <1>4, <1>11, <1>12 DEF Goes

\* A thread begins a call.
LEMMA CallKeeps ==
  ASSUME TodoInv, NEW t \in Threads, NEW steps \in Seq(Steps(nodes)),
         todo' = [todo EXCEPT ![t] = steps], UNCHANGED nodes
  PROVE  Goes
<1> DEFINE S == Steps(nodes)
           F == Steps(nodes) \cup FirstSteps
<1> HIDE DEF S, F
<1>1. S \subseteq F /\ steps \in Seq(S)
  BY DEF S, F
<1>2. steps \in Seq(F) /\ (steps # <<>> => Tail(steps) \in Seq(S))
  BY <1>1
<1>3. todo \in [Threads -> Seq(F)] /\ \A u \in Threads : todo[u] # <<>> => Tail(todo[u]) \in Seq(S)
  BY DEF TodoInv, S, F
<1>4. todo' \in [Threads -> Seq(F)] /\ \A u \in Threads : todo'[u] # <<>> => Tail(todo'[u]) \in Seq(S)
  BY <1>2, <1>3
<1>5. TodoInv'
  BY <1>4 DEF TodoInv, S, F
<1>6. ~Adds(todo'[t])
  BY <1>1, <1>3, AddsNone DEF S, TodoInv
<1>7. \A u \in Threads : u # t => todo'[u] = todo[u]
  BY <1>3
<1>. QED
  BY <1>5, <1>6, <1>7 DEF Goes

\* Blocks are not empty, and neither is a piece of one.
LEMMA BlockFacts ==
  /\ \A b \in ReadBlocks \cup WriteBlocks : b.addr \in Nat /\ b.len \in Nat \ {0}
  /\ \A n \in Nat \ {0} :
       /\ Chunks(n) \in Nat \ {0}
       /\ \A k \in 1 .. Chunks(n) : (k - 1) * ChunkSize \in Nat /\ (k - 1) * ChunkSize < n
<1>1. \A b \in ReadBlocks : b.addr \in Nat /\ b.len \in Nat \ {0}
  BY BlocksAssumption, ReadsAssumption DEF Block
<1>2. \A b \in WriteBlocks : b.addr \in Nat /\ b.len \in Nat \ {0}
  <2>1. \A b \in WriteBlocks : b \in Block
    BY BlocksAssumption DEF WriteBlocks
  <2>. QED
    BY <2>1, WritesAssumption, SizesAssumption DEF Block
<1>3. ASSUME NEW n \in Nat \ {0}
      PROVE  /\ Chunks(n) \in Nat \ {0}
             /\ \A k \in 1 .. Chunks(n) : (k - 1) * ChunkSize \in Nat /\ (k - 1) * ChunkSize < n
  <2> DEFINE m == n + (ChunkSize - 1)
             c == Chunks(n)
  <2>1. c * ChunkSize <= m /\ m < (c + 1) * ChunkSize /\ c \in Int
    BY SizesAssumption DEF Chunks
  <2>2. c \in Nat \ {0}
    BY SizesAssumption DEF Chunks
  <2> HIDE DEF c
  <2>3. ASSUME NEW k \in 1 .. c
        PROVE  (k - 1) * ChunkSize \in Nat /\ (k - 1) * ChunkSize < n
    <3>1. (k - 1) * ChunkSize \in Nat
      BY SizesAssumption, <2>2
    <3>2. k * ChunkSize <= c * ChunkSize
      BY SizesAssumption, <2>2
    <3>3. (k - 1) * ChunkSize = k * ChunkSize - ChunkSize
      BY SizesAssumption
    <3>. QED
      BY SizesAssumption, <2>1, <2>2, <3>1, <3>2, <3>3
  <2>. QED
    BY <2>2, <2>3 DEF c
<1>. QED
  BY <1>1, <1>2, <1>3

\* read_data() is made of steps, and the first inserts the handler.
LEMMA ReadSteps ==
  ASSUME NEW n \in Nat, NEW f \in Nat, NEW b \in ReadBlocks, NEW wait \in BOOLEAN
  PROVE  LET steps == <<Add(ReadHandler(f, b)), Post(ReadBlock(b))>> \o Waiting(f, wait)
         IN  /\ steps \in Seq(Steps(n) \cup FirstSteps) /\ Tail(steps) \in Seq(Steps(n))
             /\ steps # <<>> /\ Head(steps) = Add(ReadHandler(f, b)) /\ Head(steps) \in FirstSteps
<1> DEFINE first == Add(ReadHandler(f, b))
           rest == <<Post(ReadBlock(b))>> \o Waiting(f, wait)
<1>1. first \in FirstSteps
  BY BlockFacts DEF FirstSteps, Add, ReadHandler, Keepers
<1>2. Waiting(f, wait) \in Seq(Steps(n))
  BY StepsHave DEF Waiting
<1>3. Post(ReadBlock(b)) \in Steps(n)
  BY StepsHave, ReportsHave
<1>4. rest \in Seq(Steps(n))
  BY <1>2, <1>3
<1> HIDE DEF first
<1>5. <<first, Post(ReadBlock(b))>> \o Waiting(f, wait) = <<first>> \o rest
  BY <1>1, <1>2, <1>3
<1> HIDE DEF rest
<1>6. <<first>> \o rest \in Seq(Steps(n) \cup FirstSteps) /\ Tail(<<first>> \o rest) = rest
      /\ Head(<<first>> \o rest) = first /\ <<first>> \o rest # <<>>
  BY <1>1, <1>4
<1>. QED
  BY <1>1, <1>4, <1>5, <1>6 DEF first

\* So is write_data().
LEMMA WriteSteps ==
  ASSUME NEW n \in Nat, NEW f \in Nat, NEW b \in WriteBlocks, NEW wait \in BOOLEAN
  PROVE  LET first == Add(AckHandler(f, Chunks(b.len)))
             steps == <<first>>
                        \o [k \in 1 .. Chunks(b.len) |-> Post(WriteChunk(f, b.addr + (k - 1) * ChunkSize))]
                        \o Waiting(f, wait)
         IN  /\ steps \in Seq(Steps(n) \cup FirstSteps) /\ Tail(steps) \in Seq(Steps(n))
             /\ steps # <<>> /\ Head(steps) = first /\ first \in FirstSteps
<1> DEFINE first == Add(AckHandler(f, Chunks(b.len)))
           posts == [k \in 1 .. Chunks(b.len) |-> Post(WriteChunk(f, b.addr + (k - 1) * ChunkSize))]
           rest == posts \o Waiting(f, wait)
<1>1. first \in FirstSteps
  BY BlockFacts DEF FirstSteps, Add, AckHandler, Keepers
<1>2. Waiting(f, wait) \in Seq(Steps(n))
  BY StepsHave DEF Waiting
<1>3. posts \in Seq(Steps(n))
  <2>1. Chunks(b.len) \in Nat
    BY BlockFacts
  <2>2. ASSUME NEW k \in 1 .. Chunks(b.len)
        PROVE  Post(WriteChunk(f, b.addr + (k - 1) * ChunkSize)) \in Steps(n)
    <3>1. b.addr + (k - 1) * ChunkSize \in Nat
      BY BlockFacts
    <3>2. WriteChunk(f, b.addr + (k - 1) * ChunkSize) \in WriteReports
      BY <3>1 DEF WriteChunk, WriteReports
    <3>. QED
      BY <3>2, StepsHave
  <2>3. posts \in [1 .. Chunks(b.len) -> Steps(n)]
    BY <2>2
  <2>. QED
    BY <2>1, <2>3, FunctionIsSequence
<1> HIDE DEF posts, first
<1>4. rest \in Seq(Steps(n))
  BY <1>2, <1>3
<1>5. <<first>> \o posts \o Waiting(f, wait) = <<first>> \o rest
  BY <1>1, <1>2, <1>3
<1> HIDE DEF rest
<1>6. <<first>> \o rest \in Seq(Steps(n) \cup FirstSteps) /\ Tail(<<first>> \o rest) = rest
      /\ Head(<<first>> \o rest) = first /\ <<first>> \o rest # <<>>
  BY <1>1, <1>4
<1>. QED
  BY <1>1, <1>4, <1>5, <1>6 DEF first, posts

\* Whoever is in a call is at one of its steps.
LEMMA AtStep ==
  ASSUME TodoInv, NEW t \in Threads, NEW what, Do(t, what)
  PROVE  /\ todo[t] # <<>> /\ Head(todo[t]).do = what
         /\ Head(todo[t]) \in Steps(nodes) \cup FirstSteps
BY DEF TodoInv, Do

\* The steps of a call stay steps.
LEMMA TodoStep == TodoInv /\ futures \in Seq(FutureRecords) /\ [Next]_vars => Goes
<1> SUFFICES ASSUME TodoInv, [Next]_vars,
                    futures \in Seq(FutureRecords)
             PROVE  Goes
  OBVIOUS
<1>1. nodes \in Nat
  BY DEF TodoInv
<1>2. ASSUME NEW t \in Threads, NEW steps \in Seq(Steps(nodes)), Call(t, steps) PROVE Goes
  BY <1>2, CallKeeps DEF Call
<1>3. \A s \in Steps(nodes) :
        <<s>> \in Seq(Steps(nodes)) /\ \A q \in Seq(Steps(nodes)) : Append(q, s) \in Seq(Steps(nodes))
  OBVIOUS
<1>4. ASSUME NEW t \in Callers,
             SetLeds(t) \/ SetReport(t) \/ ReadData(t) \/ WriteData(t) \/ GetPresentGyro(t) \/ GetExtId(t)
      PROVE  Goes
  <2>1. t \in Threads
    BY DEF Threads
  <2>2. CASE SetLeds(t)
    <3>1. PICK v \in Leds : Call(t, <<Store("leds", v), Post(PlayerLeds(v))>>)
      BY <2>2 DEF SetLeds
    <3>2. Store("leds", v) \in Steps(nodes) /\ Post(PlayerLeds(v)) \in Steps(nodes)
      BY <1>1, StepsHave, ReportsHave
    <3>3. <<Store("leds", v), Post(PlayerLeds(v))>> \in Seq(Steps(nodes))
      BY <3>2
    <3>. QED
      BY <1>2, <2>1, <3>1, <3>3
  <2>3. CASE SetReport(t)
    <3>1. PICK f \in Features, enable \in BOOLEAN : Call(t, <<Store(f, enable)>> \o UpdateReportingMode)
      BY <2>3 DEF SetReport
    <3>2. Store(f, enable) \in Steps(nodes)
      BY <1>1, StepsHave
    <3>3. <<Store(f, enable)>> \o UpdateReportingMode \in Seq(Steps(nodes))
      BY <1>1, <3>2, UpdateReportingModeSteps
    <3>. QED
      BY <1>2, <2>1, <3>1, <3>3
  <2>4. CASE ReadData(t)
    <3>1. PICK b \in Reads, wait \in BOOLEAN : Call(t, <<Read(b, wait)>>)
      BY <2>4 DEF ReadData
    <3>2. Read(b, wait) \in Steps(nodes)
      BY <1>1, StepsHave DEF ReadBlocks
    <3>3. <<Read(b, wait)>> \in Seq(Steps(nodes))
      BY <3>2
    <3>. QED
      BY <1>2, <2>1, <3>1, <3>3
  <2>5. CASE WriteData(t)
    <3>1. PICK b \in Writes, wait \in BOOLEAN : Call(t, <<Write(b, wait)>>)
      BY <2>5 DEF WriteData
    <3>2. Write(b, wait) \in Steps(nodes)
      BY <1>1, StepsHave DEF WriteBlocks
    <3>3. <<Write(b, wait)>> \in Seq(Steps(nodes))
      BY <3>2
    <3>. QED
      BY <1>2, <2>1, <3>1, <3>3
  <2>6. CASE GetPresentGyro(t)
    <3>1. Read(GyroId, TRUE) \in Steps(nodes)
      BY <1>1, StepsHave DEF ReadBlocks
    <3>2. <<Read(GyroId, TRUE)>> \in Seq(Steps(nodes))
      BY <1>3, <3>1, Zenon
    <3>. QED
      BY <1>2, <2>1, <2>6, <3>2 DEF GetPresentGyro
  <2>7. CASE GetExtId(t)
    <3>1. Read(ExtId, TRUE) \in Steps(nodes)
      BY <1>1, StepsHave DEF ReadBlocks
    <3>2. Append(InitializeExtension, Read(ExtId, TRUE)) \in Seq(Steps(nodes))
      BY <1>1, <1>3, <3>1, InitializeExtensionSteps, Zenon
    <3>. QED
      BY <1>2, <2>1, <2>7, <3>2 DEF GetExtId
  <2>. QED
    BY <1>4, <2>2, <2>3, <2>4, <2>5, <2>6, <2>7
<1>5. ASSUME NEW t \in Threads, Step(t) PROVE Goes
  <2>1. ASSUME todo[t] # <<>>, UNCHANGED nodes, NEW steps \in Seq(Steps(nodes)), Continue(t, steps)
        PROVE  Goes
    <3>1. nodes' = nodes /\ steps \in Seq(Steps(nodes'))
      BY <2>1
    <3>2. steps \in Seq(Steps(nodes') \cup FirstSteps) /\ (steps # <<>> => Tail(steps) \in Seq(Steps(nodes')))
      BY <3>1
    <3>. QED
      BY <1>1, <2>1, <3>1, <3>2, ContinueKeeps
  <2>2. <<>> \in Seq(Steps(nodes))
    OBVIOUS
  <2>3. CASE AddReportHandler(t)
    <3>1. CASE Do(t, "add") /\ Continue(t, <<>>) /\ UNCHANGED nodes
      BY <2>1, <2>2, <3>1 DEF Do
    <3>2. CASE Do(t, "addData") /\ Continue(t, <<Store("data_iter", nodes + 1)>>) /\ nodes' = nodes + 1
      <4> DEFINE steps == <<Store("data_iter", nodes + 1)>>
      <4>1. Store("data_iter", nodes + 1) \in Steps(nodes')
        BY <1>1, <3>2, StepsHave
      <4>2. steps \in Seq(Steps(nodes') \cup FirstSteps) /\ Tail(steps) \in Seq(Steps(nodes'))
        BY <4>1
      <4>3. Continue(t, steps) /\ todo[t] # <<>> /\ nodes' \in Nat /\ nodes <= nodes'
        BY <1>1, <3>2 DEF Do
      <4> HIDE DEF steps
      <4>. QED
        BY <4>2, <4>3, ContinueKeeps
    <3>. QED
      BY <2>3, <3>1, <3>2 DEF AddReportHandler
  <2>4. CASE RemoveReportHandler(t)
    BY <2>1, <2>2, <2>4 DEF RemoveReportHandler, Do
  <2>5. CASE ScheduleJob(t)
    BY <2>1, <2>2, <2>5 DEF ScheduleJob, Do
  <2>6. CASE StoreState(t)
    BY <2>1, <2>2, <2>6 DEF StoreState, Do
  <2>7. CASE TestState(t)
    <3> DEFINE s == Head(todo[t])
    <3>1. s \in Steps(nodes) \cup FirstSteps /\ s.do = "if"
      BY <2>7, AtStep DEF TestState
    <3>2. s.then \in Seq(Steps(nodes)) /\ s.else \in Seq(Steps(nodes))
      BY <1>1, <3>1, StepFields, UpdateReportingModeSteps
    <3>3. PICK steps \in Seq(Steps(nodes)) : Continue(t, steps)
      BY <2>7, <3>2 DEF TestState
    <3>. QED
      BY <2>1, <2>7, <3>3 DEF TestState, Do
  <2>8. CASE BeginRead(t)
    <3> DEFINE s == Head(todo[t])
               f == Len(futures) + 1
               steps == <<Add(ReadHandler(f, s.block)), Post(ReadBlock(s.block))>> \o Waiting(f, s.wait)
    <3>1. s.block \in ReadBlocks /\ s.wait \in BOOLEAN /\ f \in Nat
      BY <1>1, <2>8, AtStep, StepFields DEF BeginRead
    <3>2. steps \in Seq(Steps(nodes) \cup FirstSteps) /\ Tail(steps) \in Seq(Steps(nodes))
      BY <1>1, <3>1, ReadSteps
    <3>3. Continue(t, steps) /\ todo[t] # <<>> /\ nodes' = nodes
      BY <2>8 DEF BeginRead, Do
    <3> HIDE DEF steps
    <3>. QED
      BY <1>1, <2>8, <3>2, <3>3, ContinueKeeps
  <2>9. CASE BeginWrite(t)
    <3> DEFINE s == Head(todo[t])
               f == Len(futures) + 1
               steps == <<Add(AckHandler(f, Chunks(s.block.len)))>>
                        \o [k \in 1 .. Chunks(s.block.len) |->
                              Post(WriteChunk(f, s.block.addr + (k - 1) * ChunkSize))]
                        \o Waiting(f, s.wait)
    <3>1. s.block \in WriteBlocks /\ s.wait \in BOOLEAN /\ f \in Nat
      BY <1>1, <2>9, AtStep, StepFields DEF BeginWrite
    <3>2. steps \in Seq(Steps(nodes) \cup FirstSteps) /\ Tail(steps) \in Seq(Steps(nodes))
      BY <1>1, <3>1, WriteSteps
    <3>3. Continue(t, steps) /\ todo[t] # <<>> /\ nodes' = nodes
      BY <2>9 DEF BeginWrite, Do
    <3> HIDE DEF steps
    <3>. QED
      BY <1>1, <2>9, <3>2, <3>3, ContinueKeeps
  <2>10. CASE AwaitFuture(t)
    BY <2>1, <2>2, <2>10 DEF AwaitFuture, Do
  <2>11. CASE ReturnObject(t)
    BY <2>1, <2>2, <2>11 DEF ReturnObject, Do
  <2>. QED
    BY <1>5, <2>3, <2>4, <2>5, <2>6, <2>7, <2>8, <2>9, <2>10, <2>11 DEF Step
<1>6. ASSUME HandleUnhandled PROVE Goes
  <2>1. UpdateReportingMode \in Seq(Steps(nodes)) /\ Reader \in Threads
    BY <1>1, UpdateReportingModeSteps DEF Threads
  <2>2. nodes' = nodes
    BY <1>6 DEF HandleUnhandled, Reaches
  <2>3. CASE todo' = [todo EXCEPT ![Reader] = UpdateReportingMode]
    BY <2>1, <2>2, <2>3, CallKeeps
  <2>4. CASE todo' = todo
    BY <2>2, <2>4 DEF TodoInv, Goes
  <2>. QED
    BY <1>6, <2>3, <2>4 DEF HandleUnhandled
<1>7. ASSUME UNCHANGED <<todo, nodes>> PROVE Goes
  BY <1>7 DEF TodoInv, Goes
<1>8. SendJob \/ PressButton \/ PlugExtension \/ Rest \/ UNCHANGED vars => UNCHANGED <<todo, nodes>>
  BY DEF SendJob, SendStatusRequest, SendLeds, SendReportMode, SendReadData, SendWriteData, LoseReport, Send,
         PressButton, PlugExtension, Rest, vars
<1>9. ASSUME NEW i \in DOMAIN handlers, HandleStatus(i) \/ HandleData(i) \/ HandleReadReply(i) \/ HandleAck(i)
      PROVE  UNCHANGED <<todo, nodes>>
  BY <1>9 DEF HandleStatus, HandleData, HandleReadReply, HandleAck, TakenBy, Reaches
<1>. QED
  BY <1>4, <1>5, <1>6, <1>7, <1>8, <1>9 DEF Next, Dispatch

-----------------------------------------------------------------------------
(* The list of handlers and m_state. *)

\* Handlers that are not about requests stay what they are when nodes are added.
LEMMA OthersGrow ==
  ASSUME NEW n \in Nat, NEW m \in Nat, n <= m
  PROVE  Others(n) \subseteq Others(m)
BY DEF Others

\* What the fields of a handler are.
LEMMA HandlerFields ==
  ASSUME NEW n \in Nat, NEW h \in Others(n) \cup Keepers
  PROVE  /\ h.kind = "read" <=> h \in [kind : {"read"}, fut : Nat, addr : Nat, left : Nat \ {0}, data : Seq(Nat)]
         /\ h.kind = "ack" <=> h \in [kind : {"ack"}, fut : Nat, counter : Nat \ {0}]
         /\ h \in Keepers <=> h.kind \in {"read", "ack"}
         /\ h.kind = "data" => h.mode \in {ButtonAccel, ButtonAccelExt16} /\ h.node \in 1 .. n
         /\ h.kind \in {"status", "button", "data", "read", "ack"}
<1>1. CASE h \in Keepers
  BY <1>1 DEF Keepers
<1>2. CASE h \in {StatusHandler, ButtonHandler}
  BY <1>2 DEF StatusHandler, ButtonHandler, Keepers
<1>3. CASE h \in [kind : {"data"}, mode : {ButtonAccel, ButtonAccelExt16}, node : 1 .. n]
  BY <1>3 DEF Keepers
<1>. QED
  BY <1>1, <1>2, <1>3 DEF Others

\* What the fields of an input report are.
LEMMA InputFields ==
  ASSUME NEW r \in InputReports
  PROVE  /\ r.rpt = "read" <=> r \in Replies /\ Faithful(r)
         /\ r.rpt = "status" => r.ext \in BOOLEAN
         /\ r.rpt = "ack" => r.error \in {"ok", "error"}
         /\ r.rpt \in {"status", "ack", "data", "read"}
<1>1. CASE r \in {x \in Replies : Faithful(x)}
  BY <1>1 DEF Replies
<1>2. CASE r \in [rpt : {"status"}, button : {0, 1}, ext : BOOLEAN]
  BY <1>2 DEF Replies
<1>3. CASE r \in [rpt : {"ack"}, button : {0, 1}, error : {"ok", "error"}]
  BY <1>3 DEF Replies
<1>4. CASE r \in [rpt : {"data"}, button : {0, 1}, mode : Modes]
  BY <1>4 DEF Replies
<1>. QED
  BY <1>1, <1>2, <1>3, <1>4 DEF InputReports

\* A list from which one element is removed.
LEMMA Removal ==
  ASSUME NEW S, NEW s \in Seq(S), NEW i \in 1 .. Len(s)
  PROVE  /\ RemoveAt(s, i) \in Seq(S)
         /\ Len(RemoveAt(s, i)) = Len(s) - 1
         /\ \A j \in 1 .. Len(s) - 1 : RemoveAt(s, i)[j] = s[IF j < i THEN j ELSE j + 1]
<1> DEFINE a == SubSeq(s, 1, i - 1)
           b == SubSeq(s, i + 1, Len(s))
<1>1. a \in Seq(S) /\ Len(a) = i - 1
  OBVIOUS
<1>2. b \in Seq(S) /\ Len(b) = Len(s) - i
  OBVIOUS
<1>3. \A j \in 1 .. i - 1 : a[j] = s[j]
  OBVIOUS
<1>4. \A j \in 1 .. Len(s) - i : b[j] = s[i + j]
  OBVIOUS
<1>5. RemoveAt(s, i) = a \o b
  BY DEF RemoveAt
<1> HIDE DEF a, b
<1>6. a \o b \in Seq(S) /\ Len(a \o b) = Len(a) + Len(b)
  BY <1>1, <1>2
<1>7. Len(s) \in Nat /\ Len(a) + Len(b) = Len(s) - 1
  BY <1>1, <1>2
<1>8. ASSUME NEW j \in 1 .. Len(s) - 1 PROVE (a \o b)[j] = s[IF j < i THEN j ELSE j + 1]
  <2>1. CASE j < i
    BY <1>1, <1>2, <1>3, <1>6, <1>7, <2>1
  <2>2. CASE ~(j < i)
    <3>1. (a \o b)[j] = b[j - (i - 1)] /\ j - (i - 1) \in 1 .. Len(s) - i
      BY <1>1, <1>2, <1>7, <2>2
    <3>2. b[j - (i - 1)] = s[i + (j - (i - 1))] /\ i + (j - (i - 1)) = j + 1
      BY <1>4, <1>7, <3>1
    <3>. QED
      BY <2>2, <3>1, <3>2
  <2>. QED
    BY <2>1, <2>2
<1>. QED
  BY <1>5, <1>6, <1>7, <1>8

\* The list holds handlers.
LEMMA ListStep == TodoInv /\ ListInv /\ WireInv /\ [Next]_vars => ListInv'
<1> SUFFICES ASSUME TodoInv, ListInv, WireInv, [Next]_vars PROVE ListInv'
  OBVIOUS
<1> DEFINE H == Others(nodes) \cup Keepers
<1>1. nodes \in Nat
  BY DEF TodoInv
<1>2. ASSUME handlers' \in Seq(H), UNCHANGED nodes PROVE ListInv'
  BY <1>2 DEF ListInv
<1>3. ASSUME NEW t \in Threads, AddReportHandler(t) PROVE ListInv'
  <2>1. CASE Do(t, "add") /\ handlers' = Append(handlers, Head(todo[t]).handler) /\ UNCHANGED nodes
    <3>1. Head(todo[t]).handler \in H
      BY <1>1, <2>1, AtStep, StepFields
    <3> HIDE DEF H
    <3>2. handlers \in Seq(H)
      BY DEF ListInv, H
    <3>. QED
      BY <1>2, <2>1, <3>1, <3>2
  <2>2. CASE /\ Do(t, "addData") /\ nodes' = nodes + 1
             /\ handlers' = Append(handlers, DataHandler(Head(todo[t]).mode, nodes + 1))
    <3> DEFINE h == DataHandler(Head(todo[t]).mode, nodes + 1)
               K == Others(nodes') \cup Keepers
    <3>1. Head(todo[t]).mode \in {ButtonAccel, ButtonAccelExt16}
      BY <1>1, <2>2, AtStep, StepFields
    <3>2. h \in K
      BY <1>1, <2>2, <3>1 DEF DataHandler, Others
    <3>3. H \subseteq K
      BY <1>1, <2>2, OthersGrow
    <3> HIDE DEF h
    <3>4. handlers \in Seq(K)
      BY <3>3 DEF ListInv
    <3> HIDE DEF K
    <3>5. Append(handlers, h) \in Seq(K)
      BY <3>2, <3>4
    <3>. QED
      BY <2>2, <3>5 DEF ListInv, K, h
  <2>. QED
    BY <1>3, <2>1, <2>2 DEF AddReportHandler
<1>4. ASSUME NEW t \in Threads, RemoveReportHandler(t) PROVE ListInv'
  <2>1. PICK i \in 1 .. Len(handlers) + 1 : handlers' = SubSeq(handlers, 1, i - 1)
    BY <1>4 DEF RemoveReportHandler
  <2> HIDE DEF H
  <2>2. handlers \in Seq(H)
    BY DEF ListInv, H
  <2>3. SubSeq(handlers, 1, i - 1) \in Seq(H)
    BY <2>2
  <2>. QED
    BY <1>2, <1>4, <2>1, <2>3 DEF RemoveReportHandler
<1>5. ASSUME UNCHANGED <<handlers, nodes>> PROVE ListInv'
  BY <1>5 DEF ListInv
<1>6. ASSUME NEW t \in Threads, Step(t), ~AddReportHandler(t), ~RemoveReportHandler(t) PROVE ListInv'
  BY <1>5, <1>6 DEF Step, ScheduleJob, StoreState, TestState, BeginRead, BeginWrite, AwaitFuture, ReturnObject
<1>7. ASSUME NEW i \in DOMAIN handlers, HandleStatus(i) \/ HandleData(i) \/ HandleReadReply(i) \/ HandleAck(i)
      PROVE  ListInv'
  <2> DEFINE h == handlers[i]
  <2>1. i \in 1 .. Len(handlers) /\ h \in H
    BY DEF ListInv
  <2>2. UNCHANGED nodes
    BY <1>7 DEF HandleStatus, HandleData, HandleReadReply, HandleAck, TakenBy, Reaches
  <2>3. CASE handlers' = RemoveAt(handlers, i)
    BY <1>2, <2>1, <2>2, <2>3, Removal DEF ListInv
  <2>4. CASE UNCHANGED handlers
    BY <1>5, <2>2, <2>4
  <2>5. CASE HandleAck(i) /\ h.counter # 1 /\ handlers' = [handlers EXCEPT ![i].counter = @ - 1]
    <3>1. h.kind = "ack"
      BY <2>5 DEF HandleAck, TakenBy
    <3>2. h \in [kind : {"ack"}, fut : Nat, counter : Nat \ {0}]
      BY <1>1, <2>1, <3>1, HandlerFields
    <3>3. [h EXCEPT !.counter = @ - 1] \in H
      BY <2>5, <3>2 DEF Keepers
    <3>4. handlers' = [handlers EXCEPT ![i] = [h EXCEPT !.counter = @ - 1]]
      BY <2>5
    <3> HIDE DEF H, h
    <3>. QED
      BY <1>2, <2>1, <2>2, <3>3, <3>4 DEF ListInv, H
  <2>6. CASE /\ HandleReadReply(i) /\ ~Head(wire).error /\ Amount(h, Head(wire)) # h.left
             /\ handlers' = [handlers EXCEPT ![i].addr = @ + Amount(h, Head(wire)),
                                             ![i].left = @ - Amount(h, Head(wire)),
                                             ![i].data = h.data \o SubSeq(Head(wire).data, 1, Amount(h, Head(wire)))]
    <3> DEFINE r == Head(wire)
               amt == Amount(h, r)
               g == [h EXCEPT !.addr = @ + amt, !.left = @ - amt, !.data = h.data \o SubSeq(r.data, 1, amt)]
    <3>1. h.kind = "read" /\ r.rpt = "read" /\ wire # <<>>
      BY <2>6 DEF HandleReadReply, TakenBy, Takes, Reaches
    <3>2. h \in [kind : {"read"}, fut : Nat, addr : Nat, left : Nat \ {0}, data : Seq(Nat)]
      BY <1>1, <2>1, <3>1, HandlerFields
    <3>3. r \in InputReports
      BY <3>1 DEF WireInv
    <3>4. r \in Replies
      BY <3>1, <3>3, InputFields
    <3>5. amt \in Nat /\ amt < h.left /\ amt = Len(r.data)
      BY <2>6, <3>2, <3>4 DEF Amount, Replies
    <3>6. h.data \o SubSeq(r.data, 1, amt) \in Seq(Nat)
      BY <3>2, <3>4, <3>5 DEF Replies
    <3> DEFINE data == h.data \o SubSeq(r.data, 1, amt)
    <3> HIDE DEF h, amt, data
    <3>7. h.addr + amt \in Nat /\ h.left - amt \in Nat \ {0} /\ data \in Seq(Nat)
      BY <3>2, <3>5, <3>6 DEF data
    <3>8. [h EXCEPT !.addr = @ + amt, !.left = @ - amt, !.data = data] \in Keepers
      BY <3>2, <3>7 DEF Keepers
    <3>9. g \in H
      BY <3>8 DEF data
    <3> USE DEF h, amt
    <3>10. handlers' = [handlers EXCEPT ![i] = g]
      BY <2>6
    <3> HIDE DEF H, h, g
    <3>. QED
      BY <1>2, <2>1, <2>2, <3>9, <3>10 DEF ListInv, H
  <2>7. CASE HandleReadReply(i)
    BY <2>3, <2>4, <2>6, <2>7 DEF HandleReadReply, Fulfil
  <2>. QED
    BY <1>7, <2>3, <2>4, <2>5, <2>7 DEF HandleStatus, HandleData, HandleAck, Fulfil
<1>8. HandleUnhandled => UNCHANGED <<handlers, nodes>>
  BY DEF HandleUnhandled, Reaches
<1>9. SendJob \/ PressButton \/ PlugExtension \/ Rest \/ UNCHANGED vars => UNCHANGED <<handlers, nodes>>
  BY DEF SendJob, SendStatusRequest, SendLeds, SendReportMode, SendReadData, SendWriteData, LoseReport, Send,
         PressButton, PlugExtension, Rest, vars
<1>10. ASSUME NEW t \in Callers,
              SetLeds(t) \/ SetReport(t) \/ ReadData(t) \/ WriteData(t) \/ GetPresentGyro(t) \/ GetExtId(t)
       PROVE  UNCHANGED <<handlers, nodes>>
  BY <1>10 DEF SetLeds, SetReport, ReadData, WriteData, GetPresentGyro, GetExtId, Call
<1>. QED
  BY <1>3, <1>4, <1>5, <1>6, <1>7, <1>8, <1>9, <1>10 DEF Next, Dispatch

\* The fields of m_state have their types, and the iterator names a node.
LEMMA StateStep == TodoInv /\ StateInv /\ ListInv /\ WireInv /\ [Next]_vars => StateInv'
<1> SUFFICES ASSUME TodoInv, StateInv, ListInv, WireInv, [Next]_vars PROVE StateInv'
  OBVIOUS
<1>1. nodes \in Nat
  BY DEF TodoInv
<1>2. ASSUME UNCHANGED <<state, nodes>>, built' \in BOOLEAN PROVE StateInv'
  BY <1>2 DEF StateInv
<1>3. ASSUME NEW t \in Threads, StoreState(t) PROVE StateInv'
  <2> DEFINE s == Head(todo[t])
  <2>1. s \in Stores(nodes)
    BY <1>1, <1>3, AtStep, StepFields DEF StoreState
  <2>2. state' = [state EXCEPT ![s.field] = s.value] /\ UNCHANGED <<built, nodes>>
    BY <1>3 DEF StoreState
  <2> HIDE DEF s
  <2>3. CASE s \in {Store("leds", v) : v \in Leds} \cup {Store("ext_mode", 85)}
    BY <2>2, <2>3 DEF StateInv, Store
  <2>4. CASE s \in {Store("data_iter", k) : k \in 0 .. nodes}
    BY <2>2, <2>4 DEF StateInv, Store
  <2>5. CASE s \in {Store(f, v) : f \in Features, v \in BOOLEAN}
    <3>1. PICK f \in Features, v \in BOOLEAN : s = Store(f, v)
      BY <2>5
    <3>2. f \in {"report_button", "report_accel", "report_ir", "report_gyro", "report_ext"}
      BY FeaturesAssumption
    <3>3. state' = [state EXCEPT ![f] = v]
      BY <2>2, <3>1 DEF Store
    <3>. QED
      BY <2>2, <3>2, <3>3 DEF StateInv
  <2>. QED
    BY <2>1, <2>3, <2>4, <2>5 DEF Stores
<1>4. ASSUME NEW t \in Threads, AddReportHandler(t) PROVE StateInv'
  <2>1. nodes' \in Nat /\ nodes <= nodes' /\ UNCHANGED <<state, built>>
    BY <1>1, <1>4 DEF AddReportHandler
  <2>. QED
    BY <1>1, <2>1 DEF StateInv
<1>5. ASSUME NEW t \in Threads, Step(t), ~StoreState(t), ~AddReportHandler(t) PROVE StateInv'
  <2>1. UNCHANGED <<state, nodes>> /\ built' \in {built, TRUE}
    BY <1>5 DEF Step, RemoveReportHandler, ScheduleJob, TestState, BeginRead, BeginWrite, AwaitFuture, ReturnObject
  <2>. QED
    BY <1>2, <2>1 DEF StateInv
<1>6. ASSUME NEW i \in DOMAIN handlers, HandleStatus(i) PROVE StateInv'
  <2>1. Head(wire).ext \in BOOLEAN
    <3>1. Head(wire) \in InputReports /\ Head(wire).rpt = "status"
      BY <1>6 DEF HandleStatus, TakenBy, Takes, Reaches, WireInv
    <3>. QED
      BY <3>1, InputFields
  <2>2. UNCHANGED <<nodes, built>>
        /\ state' = [state EXCEPT !.present_ext = Head(wire).ext,
                                  !.ext_mode = IF Head(wire).ext THEN @ ELSE 0]
    BY <1>6 DEF HandleStatus, TakenBy, Reaches
  <2>. QED
    BY <2>1, <2>2 DEF StateInv
<1>7. ASSUME NEW i \in DOMAIN handlers, HandleData(i) \/ HandleReadReply(i) \/ HandleAck(i)
      PROVE  UNCHANGED <<state, built, nodes>>
  BY <1>7 DEF HandleData, HandleReadReply, HandleAck, TakenBy, Reaches
<1>8. HandleUnhandled => UNCHANGED <<state, built, nodes>>
  BY DEF HandleUnhandled, Reaches
<1>9. SendJob \/ PressButton \/ PlugExtension \/ Rest \/ UNCHANGED vars => UNCHANGED <<state, built, nodes>>
  BY DEF SendJob, SendStatusRequest, SendLeds, SendReportMode, SendReadData, SendWriteData, LoseReport, Send,
         PressButton, PlugExtension, Rest, vars
<1>10. ASSUME NEW t \in Callers,
              SetLeds(t) \/ SetReport(t) \/ ReadData(t) \/ WriteData(t) \/ GetPresentGyro(t) \/ GetExtId(t)
       PROVE  UNCHANGED <<state, built, nodes>>
  BY <1>10 DEF SetLeds, SetReport, ReadData, WriteData, GetPresentGyro, GetExtId, Call
<1>11. UNCHANGED <<state, built, nodes>> => StateInv'
  BY <1>2 DEF StateInv
<1>. QED
  BY <1>3, <1>4, <1>5, <1>6, <1>7, <1>8, <1>9, <1>10, <1>11 DEF Next, Dispatch

-----------------------------------------------------------------------------
(* The reports on their way. *)

\* What the fields of an output report are.
LEMMA OutputFields ==
  ASSUME NEW r \in OutputReports
  PROVE  /\ r.rpt = "leds" => r.leds \in Nat
         /\ r.rpt = "mode" => r.mode \in Modes
         /\ r.rpt = "read" => \E b \in ReadBlocks : r = ReadBlock(b)
         /\ r.rpt = "write" => r \in WriteReports
<1>1. CASE r \in WriteReports
  BY <1>1 DEF WriteReports
<1>2. CASE r = StatusRequest
  BY <1>2 DEF StatusRequest
<1>3. CASE r \in {PlayerLeds(v) : v \in Leds}
  BY <1>3, LedsAssumption DEF PlayerLeds
<1>4. CASE r \in {ReportMode(m) : m \in Modes}
  BY <1>4 DEF ReportMode
<1>5. CASE r \in {ReadBlock(b) : b \in ReadBlocks}
  BY <1>5 DEF ReadBlock
<1>. QED
  BY <1>1, <1>2, <1>3, <1>4, <1>5 DEF OutputReports, OtherReports

\* The bytes of a block.
LEMMA BytesOf ==
  ASSUME NEW a \in Nat, NEW n \in Nat
  PROVE  /\ Promises!Bytes(a, n) \in Seq(Nat) /\ Len(Promises!Bytes(a, n)) = n
         /\ \A k \in 1 .. n : Promises!Bytes(a, n)[k] = a + (k - 1)
<1>1. Promises!Bytes(a, n) \in [1 .. n -> Nat]
  BY DEF Promises!Bytes
<1>. QED
  BY <1>1, FunctionIsSequence DEF Promises!Bytes

\* The remote's replies to a read request are faithful.
LEMMA ReadReplies ==
  ASSUME NEW b \in ReadBlocks, remote.button \in {0, 1}
  PROVE  /\ b.addr \in ExtSpace => InputRead(b, b.addr, TRUE, <<>>) \in InputReports
         /\ \A k \in 1 .. Chunks(b.len) :
              LET at == (k - 1) * ChunkSize
                  size == IF b.len - at < ChunkSize THEN b.len - at ELSE ChunkSize
              IN  InputRead(b, b.addr + at, FALSE, Promises!Bytes(b.addr + at, size)) \in InputReports
<1>1. b.addr \in Nat /\ b.len \in Nat \ {0} /\ ChunkSize \in Nat \ {0} /\ LowSize \in Nat \ {0}
  BY BlockFacts, SizesAssumption
<1>2. \A a \in Nat : a % LowSize \in Nat
  BY <1>1
<1>3. ASSUME b.addr \in ExtSpace PROVE InputRead(b, b.addr, TRUE, <<>>) \in InputReports
  <2> DEFINE r == InputRead(b, b.addr, TRUE, <<>>)
  <2>1. r \in Replies
    BY <1>1, <1>2 DEF InputRead, Replies
  <2>2. r.error /\ r.addr = b.addr % LowSize /\ r.block = b
    BY DEF InputRead
  <2>3. Faithful(r)
    BY <1>3, <2>2, Zenon DEF Faithful
  <2>. QED
    BY <2>1, <2>3 DEF InputReports
<1>4. ASSUME NEW k \in 1 .. Chunks(b.len)
      PROVE  LET at == (k - 1) * ChunkSize
                 size == IF b.len - at < ChunkSize THEN b.len - at ELSE ChunkSize
             IN  InputRead(b, b.addr + at, FALSE, Promises!Bytes(b.addr + at, size)) \in InputReports
  <2> DEFINE at == (k - 1) * ChunkSize
             size == IF b.len - at < ChunkSize THEN b.len - at ELSE ChunkSize
             bytes == Promises!Bytes(b.addr + at, size)
             r == InputRead(b, b.addr + at, FALSE, bytes)
  <2>1. at \in 0 .. b.len - 1
    BY <1>1, BlockFacts
  <2> HIDE DEF at
  <2>2. size \in Nat \ {0} /\ b.addr + at \in Nat
    BY <1>1, <2>1
  <2> HIDE DEF size
  <2>3. bytes \in Seq(Nat) /\ Len(bytes) = size
    BY <2>2, BytesOf
  <2>4. r.error = FALSE /\ r.addr = (b.addr + at) % LowSize /\ r.data = bytes /\ r.block = b
    BY DEF InputRead
  <2>5. r \in Replies
    BY <1>2, <2>2, <2>3 DEF InputRead, Replies
  <2>6. bytes # <<>> /\ bytes = Promises!Bytes(b.addr + at, Len(bytes))
    BY <2>2, <2>3
  <2> HIDE DEF bytes, r
  <2>7. Faithful(r)
    BY <2>1, <2>4, <2>6 DEF Faithful
  <2>8. r \in InputReports
    BY <2>5, <2>7 DEF InputReports
  <2>. QED
    BY <2>8 DEF r, bytes, size, at
<1>. QED
  BY <1>3, <1>4

\* Jobs send output reports, and what the remote sends are input reports.
LEMMA WireStep == TodoInv /\ WireInv /\ [Next]_vars => WireInv'
<1> SUFFICES ASSUME TodoInv, WireInv, [Next]_vars PROVE WireInv'
  OBVIOUS
<1> DEFINE Remotes == [leds : Nat, mode : Modes, ext : BOOLEAN, button : {0, 1}]
<1>1. jobs \in Seq(OutputReports) /\ wire \in Seq(InputReports) /\ remote \in Remotes /\ nodes \in Nat
  BY DEF WireInv, TodoInv
<1>2. UNCHANGED <<jobs, wire, remote>> => WireInv'
  BY DEF WireInv
<1>3. ASSUME NEW t \in Threads, Step(t) PROVE WireInv'
  <2>1. CASE ScheduleJob(t)
    <3>1. Head(todo[t]).rpt \in OutputReports
      BY <1>1, <2>1, AtStep, StepFields DEF ScheduleJob
    <3>2. Append(jobs, Head(todo[t]).rpt) \in Seq(OutputReports)
      BY <1>1, <3>1
    <3>. QED
      BY <1>1, <2>1, <3>2 DEF ScheduleJob, WireInv
  <2>2. CASE ~ScheduleJob(t)
    <3>1. UNCHANGED <<jobs, wire, remote>>
      BY <1>3, <2>2 DEF Step, AddReportHandler, RemoveReportHandler, StoreState, TestState, BeginRead, BeginWrite,
                        AwaitFuture, ReturnObject
    <3>. QED
      BY <1>2, <3>1
  <2>. QED
    BY <2>1, <2>2
<1>4. ASSUME SendJob PROVE WireInv'
  <2> DEFINE j == Head(jobs)
  <2>1. jobs # <<>> /\ jobs' = Tail(jobs)
    BY <1>4 DEF SendJob, SendStatusRequest, SendLeds, SendReportMode, SendReadData, SendWriteData, LoseReport, Send
  <2>2. j \in OutputReports /\ jobs' \in Seq(OutputReports)
    BY <1>1, <2>1
  <2>3. CASE SendStatusRequest
    <3>1. InputStatus \in InputReports
      BY <1>1 DEF InputStatus, InputReports
    <3>. QED
      BY <1>1, <2>2, <2>3, <3>1 DEF SendStatusRequest, WireInv
  <2>4. CASE SendLeds
    <3>1. j.leds \in Nat
      BY <2>2, <2>4, OutputFields DEF SendLeds, Send
    <3>. QED
      BY <1>1, <2>2, <2>4, <3>1 DEF SendLeds, WireInv
  <2>5. CASE SendReportMode
    <3>1. j.mode \in Modes
      BY <2>2, <2>5, OutputFields DEF SendReportMode, Send
    <3>. QED
      BY <1>1, <2>2, <2>5, <3>1 DEF SendReportMode, WireInv
  <2>6. CASE SendReadData
    <3>1. PICK b \in ReadBlocks : j = ReadBlock(b)
      BY <2>2, <2>6, OutputFields DEF SendReadData, Send
    <3>2. j.block = b
      BY <3>1 DEF ReadBlock
    <3> DEFINE Piece(k) == LET at == (k - 1) * ChunkSize
                               size == IF b.len - at < ChunkSize THEN b.len - at ELSE ChunkSize
                           IN  InputRead(b, b.addr + at, FALSE, Promises!Bytes(b.addr + at, size))
               pieces == [k \in 1 .. Chunks(b.len) |-> Piece(k)]
    <3>3. wire' = wire \o IF Absent(b.addr) THEN <<InputRead(b, b.addr, TRUE, <<>>)>> ELSE pieces
      BY <2>6, <3>2 DEF SendReadData
    <3>4. remote' = remote
      BY <2>6 DEF SendReadData
    <3>5. remote.button \in {0, 1}
      BY <1>1
    <3>6. CASE Absent(b.addr)
      <4>1. InputRead(b, b.addr, TRUE, <<>>) \in InputReports
        BY <3>5, <3>6, ReadReplies DEF Absent
      <4> DEFINE r == InputRead(b, b.addr, TRUE, <<>>)
      <4> HIDE DEF r
      <4>2. wire' = wire \o <<r>> /\ r \in InputReports
        BY <3>3, <3>6, <4>1 DEF r
      <4>. QED
        BY <1>1, <2>2, <3>4, <4>2 DEF WireInv
    <3>7. CASE ~Absent(b.addr)
      <4>1. \A k \in 1 .. Chunks(b.len) : Piece(k) \in InputReports
        BY <3>5, ReadReplies
      <4>2. Chunks(b.len) \in Nat
        BY BlockFacts
      <4>3. pieces \in [1 .. Chunks(b.len) -> InputReports]
        BY <4>1
      <4> HIDE DEF pieces
      <4>4. pieces \in Seq(InputReports)
        BY <4>2, <4>3, FunctionIsSequence
      <4>5. wire' \in Seq(InputReports)
        BY <1>1, <3>3, <3>7, <4>4
      <4>. QED
        BY <1>1, <2>2, <3>4, <4>5 DEF WireInv
    <3>. QED
      BY <3>6, <3>7
  <2>7. CASE SendWriteData
    <3>1. \A e \in {"ok", "error"} : InputAck(e) \in InputReports
      BY <1>1 DEF InputAck, InputReports
    <3>2. PICK e \in {"ok", "error"} : wire' = Append(wire, InputAck(e))
      BY <2>7 DEF SendWriteData
    <3>3. InputAck(e) \in InputReports
      BY <3>1
    <3> HIDE DEF InputAck
    <3>4. wire' \in Seq(InputReports)
      BY <1>1, <3>2, <3>3
    <3>. QED
      BY <1>1, <2>2, <2>7, <3>4 DEF SendWriteData, WireInv
  <2>8. CASE LoseReport
    BY <1>1, <2>2, <2>8 DEF LoseReport, WireInv
  <2>. QED
    BY <1>4, <2>3, <2>4, <2>5, <2>6, <2>7, <2>8 DEF SendJob
<1>5. ASSUME PressButton PROVE WireInv'
  <2>1. [InputData EXCEPT !.button = 1 - @] \in InputReports
    <3>1. InputData \in [rpt : {"data"}, button : {0, 1}, mode : Modes]
      BY <1>1 DEF InputData
    <3>2. [InputData EXCEPT !.button = 1 - @] \in [rpt : {"data"}, button : {0, 1}, mode : Modes]
      BY <3>1
    <3>. QED
      BY <3>2 DEF InputReports
  <2>2. remote' \in Remotes
    BY <1>1, <1>5 DEF PressButton
  <2> DEFINE r == [InputData EXCEPT !.button = 1 - @]
  <2> HIDE DEF r
  <2>3. wire' \in {wire, Append(wire, r)}
    BY <1>5 DEF PressButton, r
  <2>4. r \in InputReports
    BY <2>1 DEF r
  <2>5. wire' \in Seq(InputReports)
    BY <1>1, <2>3, <2>4
  <2>. QED
    BY <1>1, <1>5, <2>2, <2>5 DEF PressButton, WireInv
<1>6. ASSUME PlugExtension PROVE WireInv'
  <2> DEFINE r == [InputStatus EXCEPT !.ext = ~@]
  <2>1. r \in InputReports
    <3>1. InputStatus \in [rpt : {"status"}, button : {0, 1}, ext : BOOLEAN]
      BY <1>1 DEF InputStatus
    <3>2. r \in [rpt : {"status"}, button : {0, 1}, ext : BOOLEAN]
      BY <3>1
    <3>. QED
      BY <3>2 DEF InputReports
  <2>2. remote' \in Remotes
    BY <1>1, <1>6 DEF PlugExtension, Modes
  <2>3. wire' = Append(wire, r) /\ jobs' = jobs
    BY <1>6 DEF PlugExtension
  <2> HIDE DEF r
  <2>. QED
    BY <1>1, <2>1, <2>2, <2>3 DEF WireInv
<1>7. ASSUME Dispatch PROVE WireInv'
  <2>1. wire # <<>> /\ wire' = Tail(wire) /\ UNCHANGED <<jobs, remote>>
    BY <1>7 DEF Dispatch, HandleUnhandled, HandleStatus, HandleData, HandleReadReply, HandleAck, TakenBy, Reaches
  <2>. QED
    BY <1>1, <2>1 DEF WireInv
<1>8. Rest \/ UNCHANGED vars => UNCHANGED <<jobs, wire, remote>>
  BY DEF Rest, vars
<1>9. ASSUME NEW t \in Callers,
             SetLeds(t) \/ SetReport(t) \/ ReadData(t) \/ WriteData(t) \/ GetPresentGyro(t) \/ GetExtId(t)
      PROVE  UNCHANGED <<jobs, wire, remote>>
  BY <1>9 DEF SetLeds, SetReport, ReadData, WriteData, GetPresentGyro, GetExtId, Call
<1>. QED
  BY <1>2, <1>3, <1>4, <1>5, <1>6, <1>7, <1>8, <1>9 DEF Next

-----------------------------------------------------------------------------
(* The futures and the handlers that serve them. *)

\* Handlers are removed, or go on with the future they serve.
LEMMA HandlersKept ==
  ASSUME Apart,
         futures' \in Seq(FutureRecords), written' \in Seq(Nat), Len(written') = Len(futures'),
         NEW p \in [DOMAIN handlers' -> DOMAIN handlers],
         \A i, j \in DOMAIN handlers' : p[i] = p[j] => i = j,
         \A i \in DOMAIN handlers' : handlers'[i] \in Keepers =>
           /\ handlers[p[i]] \in Keepers /\ handlers'[i].fut = handlers[p[i]].fut
           /\ Serves(handlers'[i], futures'),
         \A t \in Threads : Adds(todo'[t]) => todo'[t] = todo[t] /\ Serves(Added(todo[t]), futures')
  PROVE  FutureInv' /\ Apart'
<1>1. FutureInv'
  BY DEF FutureInv
<1>2. \A i, j \in DOMAIN handlers' :
        handlers'[i] \in Keepers /\ handlers'[j] \in Keepers /\ handlers'[i].fut = handlers'[j].fut => i = j
  BY DEF Apart
<1>3. \A i \in DOMAIN handlers', t \in Threads :
        handlers'[i] \in Keepers /\ Adds(todo'[t]) => handlers'[i].fut # Added(todo'[t]).fut
  BY DEF Apart
<1>4. \A t, u \in Threads :
        Adds(todo'[t]) /\ Adds(todo'[u]) /\ Added(todo'[t]).fut = Added(todo'[u]).fut => t = u
  BY DEF Apart
<1>. QED
  BY <1>1, <1>2, <1>3, <1>4 DEF Apart

\* Nothing happens to handlers with a promise but that some are removed.
LEMMA FuturesUnchanged ==
  ASSUME FutureInv, Apart, UNCHANGED <<futures, written>>,
         NEW p \in [DOMAIN handlers' -> DOMAIN handlers],
         \A i, j \in DOMAIN handlers' : p[i] = p[j] => i = j,
         \A i \in DOMAIN handlers' : handlers'[i] = handlers[p[i]],
         \A t \in Threads : Adds(todo'[t]) => todo'[t] = todo[t]
  PROVE  FutureInv' /\ Apart'
<1>1. futures' \in Seq(FutureRecords) /\ written' \in Seq(Nat) /\ Len(written') = Len(futures')
  BY DEF FutureInv
<1>2. \A i \in DOMAIN handlers' : handlers'[i] \in Keepers =>
        /\ handlers[p[i]] \in Keepers /\ handlers'[i].fut = handlers[p[i]].fut
        /\ Serves(handlers'[i], futures')
  BY DEF FutureInv
<1>3. \A t \in Threads : Adds(todo'[t]) => todo'[t] = todo[t] /\ Serves(Added(todo[t]), futures')
  BY DEF FutureInv
<1>. QED
  BY <1>1, <1>2, <1>3, HandlersKept

\* Not even that.
LEMMA ListUnchanged ==
  ASSUME FutureInv, Apart, UNCHANGED <<futures, written, handlers>>,
         \A t \in Threads : Adds(todo'[t]) => todo'[t] = todo[t]
  PROVE  FutureInv' /\ Apart'
<1> DEFINE p == [i \in DOMAIN handlers |-> i]
<1>1. p \in [DOMAIN handlers' -> DOMAIN handlers] /\ \A i, j \in DOMAIN handlers' : p[i] = p[j] => i = j
  OBVIOUS
<1>2. \A i \in DOMAIN handlers' : handlers'[i] = handlers[p[i]]
  OBVIOUS
<1> HIDE DEF p
<1>. QED
  BY <1>1, <1>2, FuturesUnchanged

\* A request is made: its future is new, and so is served by no handler.
LEMMA PromiseMade ==
  ASSUME FutureInv, Apart, ListInv, UNCHANGED handlers,
         NEW ask \in Asks, NewFuture(ask),
         NEW t \in Threads, Adds(todo'[t]), Added(todo'[t]).fut = Len(futures) + 1,
         Serves(Added(todo'[t]), futures'),
         \A u \in Threads : u # t => todo'[u] = todo[u]
  PROVE  FutureInv' /\ Apart'
<1> DEFINE new == [ask |-> ask, state |-> "pending", value |-> <<>>]
<1>1. new \in FutureRecords
  BY DEF FutureRecords, Values
<1>2. futures \in Seq(FutureRecords) /\ futures' = Append(futures, new)
      /\ written \in Seq(Nat) /\ written' = Append(written, 0) /\ Len(written) = Len(futures)
  BY DEF FutureInv, NewFuture
<1> HIDE DEF new
<1>3. /\ futures' \in Seq(FutureRecords) /\ written' \in Seq(Nat) /\ Len(written') = Len(futures')
      /\ \A f \in DOMAIN futures : f \in DOMAIN futures' /\ futures'[f] = futures[f] /\ f # Len(futures) + 1
  BY <1>1, <1>2
<1>4. ASSUME NEW h, Serves(h, futures)
      PROVE  Serves(h, futures') /\ h.fut # Len(futures) + 1
  BY <1>3, <1>4 DEF Serves
<1>5. \A i \in DOMAIN handlers' : handlers'[i] \in Keepers =>
        Serves(handlers'[i], futures') /\ handlers'[i].fut # Len(futures) + 1
  BY <1>4 DEF FutureInv
<1>6. \A u \in Threads : u # t /\ Adds(todo'[u]) =>
        Serves(Added(todo'[u]), futures') /\ Added(todo'[u]).fut # Len(futures) + 1
  BY <1>4 DEF FutureInv
<1>7. FutureInv'
  BY <1>3, <1>5, <1>6 DEF FutureInv
<1>8. Apart'
  BY <1>5, <1>6 DEF Apart
<1>. QED
  BY <1>7, <1>8

\* A thread adds the handler with the promise it has just made, or another one.
LEMMA HandlerAdded ==
  ASSUME FutureInv, Apart, ListInv, nodes \in Nat, UNCHANGED <<futures, written>>,
         NEW t \in Threads, NEW h, handlers' = Append(handlers, h),
         h \in Keepers => Adds(todo[t]) /\ h = Added(todo[t]),
         ~Adds(todo'[t]), \A u \in Threads : u # t => todo'[u] = todo[u]
  PROVE  FutureInv' /\ Apart'
<1> DEFINE n == Len(handlers)
<1>1. n \in Nat /\ DOMAIN handlers = 1 .. n
  BY DEF ListInv
<1>2. DOMAIN handlers' = 1 .. n + 1 /\ handlers'[n + 1] = h /\ \A i \in 1 .. n : handlers'[i] = handlers[i]
  BY <1>1 DEF ListInv
<1> HIDE DEF n
<1>3. \A i \in DOMAIN handlers' : handlers'[i] \in Keepers =>
        \/ i \in DOMAIN handlers /\ handlers'[i] = handlers[i]
        \/ i = n + 1 /\ handlers'[i] = h
  BY <1>1, <1>2
<1>4. \A i \in DOMAIN handlers' : handlers'[i] \in Keepers => Serves(handlers'[i], futures')
  BY <1>3 DEF FutureInv
<1>5. \A u \in Threads : Adds(todo'[u]) => u # t /\ todo'[u] = todo[u]
  OBVIOUS
<1>6. FutureInv'
  BY <1>4, <1>5 DEF FutureInv
<1>7. \A i, j \in DOMAIN handlers' :
        handlers'[i] \in Keepers /\ handlers'[j] \in Keepers /\ handlers'[i].fut = handlers'[j].fut => i = j
  BY <1>3 DEF Apart
<1>8. \A i \in DOMAIN handlers', u \in Threads :
        handlers'[i] \in Keepers /\ Adds(todo'[u]) => handlers'[i].fut # Added(todo'[u]).fut
  BY <1>3, <1>5 DEF Apart
<1>9. \A u, v \in Threads :
        Adds(todo'[u]) /\ Adds(todo'[v]) /\ Added(todo'[u]).fut = Added(todo'[v]).fut => u = v
  BY <1>5 DEF Apart
<1>. QED
  BY <1>6, <1>7, <1>8, <1>9 DEF Apart

\* A handler gives way to what remains of it.
LEMMA HandlerAdvanced ==
  ASSUME FutureInv, Apart, ListInv, UNCHANGED <<futures, written, todo>>,
         NEW i \in DOMAIN handlers, handlers[i] \in Keepers,
         NEW g \in Keepers, g.fut = handlers[i].fut, Serves(g, futures),
         handlers' = [handlers EXCEPT ![i] = g]
  PROVE  FutureInv' /\ Apart'
<1> DEFINE p == [j \in DOMAIN handlers |-> j]
<1>1. DOMAIN handlers' = DOMAIN handlers /\ p \in [DOMAIN handlers' -> DOMAIN handlers]
  OBVIOUS
<1>2. \A j, k \in DOMAIN handlers' : p[j] = p[k] => j = k
  BY <1>1
<1>3. \A j \in DOMAIN handlers' : p[j] = j /\ handlers'[j] = IF j = i THEN g ELSE handlers[j]
  BY <1>1 DEF ListInv
<1> HIDE DEF p
<1>4. \A j \in DOMAIN handlers' : handlers'[j] \in Keepers =>
        /\ handlers[p[j]] \in Keepers /\ handlers'[j].fut = handlers[p[j]].fut
        /\ Serves(handlers'[j], futures')
  BY <1>1, <1>3 DEF FutureInv
<1>5. futures' \in Seq(FutureRecords) /\ written' \in Seq(Nat) /\ Len(written') = Len(futures')
  BY DEF FutureInv
<1>6. \A t \in Threads : Adds(todo'[t]) => todo'[t] = todo[t] /\ Serves(Added(todo[t]), futures')
  BY DEF FutureInv
<1>. QED
  BY <1>1, <1>2, <1>4, <1>5, <1>6, HandlersKept

\* One place of the list becomes empty.
LEMMA PlacesAfterRemoval ==
  ASSUME ListInv, NEW i \in DOMAIN handlers, handlers' = RemoveAt(handlers, i),
         NEW p, p = [j \in DOMAIN handlers' |-> IF j < i THEN j ELSE j + 1]
  PROVE  /\ p \in [DOMAIN handlers' -> DOMAIN handlers]
         /\ \A j, k \in DOMAIN handlers' : p[j] = p[k] => j = k
         /\ \A j \in DOMAIN handlers' : handlers'[j] = handlers[p[j]] /\ p[j] # i
<1> DEFINE n == Len(handlers)
<1>1. n \in Nat /\ DOMAIN handlers = 1 .. n /\ i \in 1 .. n
  BY DEF ListInv
<1>2. DOMAIN handlers' = 1 .. n - 1 /\ \A j \in 1 .. n - 1 : handlers'[j] = handlers[IF j < i THEN j ELSE j + 1]
  <2> DEFINE S == Others(nodes) \cup Keepers
             r == RemoveAt(handlers, i)
  <2>1. handlers \in Seq(S)
    BY DEF ListInv
  <2> HIDE DEF S, r
  <2>2. /\ r \in Seq(S) /\ Len(r) = n - 1
        /\ \A j \in 1 .. n - 1 : r[j] = handlers[IF j < i THEN j ELSE j + 1]
    BY <1>1, <2>1, Removal DEF r
  <2>3. DOMAIN r = 1 .. n - 1
    BY <2>2
  <2>. QED
    BY <2>2, <2>3 DEF r
<1> HIDE DEF n
<1>3. \A j \in 1 .. n - 1 : p[j] = (IF j < i THEN j ELSE j + 1) /\ p[j] \in 1 .. n
  BY <1>1, <1>2
<1>4. p \in [DOMAIN handlers' -> DOMAIN handlers]
  BY <1>1, <1>2, <1>3
<1>5. \A j, k \in DOMAIN handlers' : p[j] = p[k] => j = k
  BY <1>1, <1>2, <1>3
<1>6. \A j \in DOMAIN handlers' : handlers'[j] = handlers[p[j]] /\ p[j] # i
  BY <1>1, <1>2, <1>3
<1>. QED
  BY <1>4, <1>5, <1>6

\* The asks are about blocks.
LEMMA AskFacts ==
  ASSUME NEW ask \in Asks
  PROVE  /\ ask.addr \in Nat /\ ask.len \in Nat
         /\ Promises!Answers(ask) \subseteq Values
<1>1. ask.addr \in Nat /\ ask.len \in Nat
  BY BlockFacts DEF Asks, AskFor
<1>2. Promises!Bytes(ask.addr, ask.len) \in Seq(Nat)
  BY <1>1, BytesOf
<1>3. \A v \in Promises!Answers(ask) : v \in {Promises!Bytes(ask.addr, ask.len), <<>>, "ok", "error"}
  BY DEF Promises!Answers
<1>4. ASSUME NEW v \in Promises!Answers(ask) PROVE v \in Seq(Nat) \cup {"ok", "error"}
  <2>1. v = Promises!Bytes(ask.addr, ask.len) \/ v = <<>> \/ v \in {"ok", "error"}
    BY <1>3
  <2>2. <<>> \in Seq(Nat)
    OBVIOUS
  <2>. QED
    BY <1>2, <2>1, <2>2
<1>. QED
  BY <1>1, <1>4 DEF Values

\* A handler gives its future a value; the promise is kept if it is one of the
\* answers to what was asked.
LEMMA PromiseFulfilled ==
  ASSUME FutureInv, Apart, ListInv, UNCHANGED <<todo, written>>,
         NEW i \in DOMAIN handlers, handlers[i] \in Keepers,
         NEW v \in Values, Fulfil(i, v)
  PROVE  /\ FutureInv' /\ Apart' /\ Completes
         /\ v \in Promises!Answers(futures[handlers[i].fut].ask) => Promises!Answer
<1> DEFINE f == handlers[i].fut
           p == [j \in DOMAIN handlers' |-> IF j < i THEN j ELSE j + 1]
<1>1. f \in DOMAIN futures /\ futures[f].state = "pending"
  BY DEF FutureInv, Serves
<1>2. futures \in Seq(FutureRecords) /\ futures[f] \in FutureRecords
  BY <1>1 DEF FutureInv
<1>3. futures' = [futures EXCEPT ![f].state = "ready", ![f].value = v] /\ handlers' = RemoveAt(handlers, i)
  BY DEF Fulfil
<1>4. Completes
  BY <1>1, <1>3 DEF Completes
<1>5. [futures[f] EXCEPT !.state = "ready", !.value = v] \in FutureRecords
  BY <1>2 DEF FutureRecords
<1>6. futures' = [futures EXCEPT ![f] = [futures[f] EXCEPT !.state = "ready", !.value = v]]
  BY <1>3
<1>7. /\ futures' \in Seq(FutureRecords) /\ Len(futures') = Len(futures)
      /\ \A g \in DOMAIN futures : g # f => g \in DOMAIN futures' /\ futures'[g] = futures[g]
  BY <1>1, <1>2, <1>5, <1>6
<1>8. v \in Promises!Answers(futures[f].ask) => Promises!Answer
  BY <1>1, <1>3 DEF Promises!Answer
<1>9. /\ p \in [DOMAIN handlers' -> DOMAIN handlers]
      /\ \A j, k \in DOMAIN handlers' : p[j] = p[k] => j = k
      /\ \A j \in DOMAIN handlers' : handlers'[j] = handlers[p[j]] /\ p[j] # i
  BY <1>3, PlacesAfterRemoval
<1> HIDE DEF p
<1>10. \A h : Serves(h, futures) /\ h.fut # f => Serves(h, futures')
  BY <1>7 DEF Serves
<1>11. \A j \in DOMAIN handlers : j # i /\ handlers[j] \in Keepers => Serves(handlers[j], futures')
  BY <1>10 DEF FutureInv, Apart
<1>12. \A j \in DOMAIN handlers' : handlers'[j] \in Keepers =>
         /\ handlers[p[j]] \in Keepers /\ handlers'[j].fut = handlers[p[j]].fut
         /\ Serves(handlers'[j], futures')
  BY <1>9, <1>11
<1>13. \A t \in Threads : Adds(todo'[t]) => todo'[t] = todo[t] /\ Serves(Added(todo[t]), futures')
  BY <1>10 DEF FutureInv, Apart
<1>14. written' \in Seq(Nat) /\ Len(written') = Len(futures')
  BY <1>7 DEF FutureInv
<1>. QED
  BY <1>4, <1>7, <1>8, <1>9, <1>12, <1>13, <1>14, HandlersKept

\* What a handler has collected goes on with the bytes that follow.
LEMMA BytesGoOn ==
  ASSUME NEW a \in Nat, NEW i \in Nat, NEW n \in Nat, NEW m \in Nat, m <= n
  PROVE  Promises!Bytes(a, i) \o SubSeq(Promises!Bytes(a + i, n), 1, m) = Promises!Bytes(a, i + m)
<1> DEFINE p == Promises!Bytes(a, i)
           q == Promises!Bytes(a + i, n)
           r == SubSeq(q, 1, m)
           w == Promises!Bytes(a, i + m)
<1>1. p \in Seq(Nat) /\ Len(p) = i /\ \A k \in 1 .. i : p[k] = a + (k - 1)
  BY BytesOf
<1>2. q \in Seq(Nat) /\ Len(q) = n /\ \A k \in 1 .. n : q[k] = a + i + (k - 1)
  <2>1. a + i \in Nat
    OBVIOUS
  <2>. QED
    BY <2>1, BytesOf
<1>3. w \in Seq(Nat) /\ Len(w) = i + m /\ \A k \in 1 .. i + m : w[k] = a + (k - 1)
  BY BytesOf
<1> HIDE DEF p, q, w
<1>4. r \in Seq(Nat) /\ Len(r) = m /\ \A k \in 1 .. m : r[k] = q[k]
  BY <1>2
<1> HIDE DEF r
<1>5. p \o r \in Seq(Nat) /\ Len(p \o r) = i + m
  BY <1>1, <1>4
<1>6. ASSUME NEW k \in 1 .. i + m PROVE (p \o r)[k] = w[k]
  <2>1. CASE k <= i
    BY <1>1, <1>3, <1>4, <2>1
  <2>2. CASE ~(k <= i)
    <3>1. k - i \in 1 .. m /\ (p \o r)[k] = r[k - i]
      BY <1>1, <1>4, <2>2
    <3>2. r[k - i] = a + i + ((k - i) - 1)
      BY <1>2, <1>4, <3>1
    <3>. QED
      BY <1>3, <3>1, <3>2
  <2>. QED
    BY <2>1, <2>2
<1>7. p \o r = w
  <2>1. ASSUME NEW u \in Seq(Nat), NEW v \in Seq(Nat), Len(u) = Len(v), \A k \in 1 .. Len(u) : u[k] = v[k]
        PROVE  u = v
    <3>1. u \in [1 .. Len(u) -> Nat] /\ v \in [1 .. Len(u) -> Nat]
      BY <2>1
    <3>. QED
      BY <2>1, <3>1
  <2>. QED
    BY <1>3, <1>5, <1>6, <2>1
<1>. QED
  BY <1>7 DEF p, q, r, w

\* A reply that a handler recognises is the one that follows what it has.
LEMMA ReplyFollows ==
  ASSUME NEW h, NEW b \in ReadBlocks, Collected(h, b),
         NEW r \in Replies, Faithful(r), ApartFrom(b, r.block), Matches(h, r)
  PROVE  /\ r.error => b.addr \in ExtSpace
         /\ ~r.error => r.data # <<>> /\ r.data = Promises!Bytes(h.addr, Len(r.data))
<1> DEFINE c == r.block
<1>1. PICK i \in 0 .. b.len - 1 : h.addr = b.addr + i
  BY DEF Collected
<1>2. r.addr = (b.addr + i) % LowSize
  BY <1>1 DEF Matches
<1>3. ASSUME NEW j \in 0 .. c.len - 1, r.addr = (c.addr + j) % LowSize
      PROVE  b = c /\ i = j
  BY <1>2, <1>3 DEF ApartFrom
<1>4. ASSUME r.error PROVE b.addr \in ExtSpace
  <2>1. c.addr \in ExtSpace /\ r.addr = c.addr % LowSize /\ c \in ReadBlocks
    BY <1>4 DEF Faithful, Replies
  <2>2. 0 \in 0 .. c.len - 1 /\ c.addr + 0 = c.addr
    BY <2>1, BlockFacts
  <2> HIDE DEF c
  <2>. QED
    BY <1>3, <2>1, <2>2
<1>5. ASSUME ~r.error PROVE r.data # <<>> /\ r.data = Promises!Bytes(h.addr, Len(r.data))
  <2>1. PICK j \in 0 .. c.len - 1 :
          r.addr = (c.addr + j) % LowSize /\ r.data # <<>> /\ r.data = Promises!Bytes(c.addr + j, Len(r.data))
    BY <1>5 DEF Faithful
  <2>2. b = c /\ i = j
    BY <1>3, <2>1
  <2>. QED
    BY <1>1, <2>1, <2>2
<1>. QED
  BY <1>4, <1>5

\* A future is about one block.
LEMMA AskedOnce ==
  ASSUME NEW b \in ReadBlocks, NEW c \in ReadBlocks, AskFor("read", b) = AskFor("read", c)
  PROVE  b = c
<1>1. b \in Block /\ c \in Block
  BY BlocksAssumption
<1>2. b.addr = c.addr /\ b.len = c.len
  BY DEF AskFor
<1>. QED
  BY <1>1, <1>2 DEF Block

\* The reply that a handler is offered answers a read under way with its own.
LEMMA ReplyApart ==
  ASSUME ReadsApart, WireInv, wire # <<>>, Head(wire).rpt = "read",
         NEW i \in DOMAIN handlers, handlers[i].kind = "read",
         NEW b \in ReadBlocks, futures[handlers[i].fut].ask = AskFor("read", b)
  PROVE  ApartFrom(b, Head(wire).block)
<1>1. Waits(b)
  BY DEF Waits
<1>2. 1 \in DOMAIN wire /\ Head(wire) = wire[1] /\ Head(wire) \in InputReports
  BY DEF WireInv
<1>3. UnderWay(Head(wire).block)
  BY <1>2 DEF UnderWay
<1>4. Head(wire).block \in ReadBlocks
  BY <1>2, InputFields DEF Replies
<1>. QED
  BY <1>1, <1>3, <1>4 DEF ReadsApart

\* The handler of a read goes on with the reply or gives the future its bytes.
LEMMA ReadReplyStep ==
  ASSUME TodoInv, ListInv, WireInv, FutureInv, Apart, NEW i \in DOMAIN handlers, HandleReadReply(i)
  PROVE  /\ FutureInv' /\ Apart' /\ (Completes \/ UNCHANGED futures)
         /\ ReadsApart /\ CollectInv => Promises!Answer \/ UNCHANGED futures
         /\ \/ UNCHANGED handlers
            \/ handlers' = RemoveAt(handlers, i)
            \/ /\ \A j \in DOMAIN handlers' : j # i => j \in DOMAIN handlers /\ handlers'[j] = handlers[j]
               /\ ReadsApart /\ CollectInv => Gathered(handlers'[i], futures')
<1> DEFINE Fine == ReadsApart /\ CollectInv
           h == handlers[i]
           r == Head(wire)
           amt == Amount(h, r)
           data == h.data \o SubSeq(r.data, 1, amt)
<1>1. h.kind = "read" /\ r.rpt = "read" /\ wire # <<>> /\ UNCHANGED <<todo, written>>
  BY DEF HandleReadReply, TakenBy, Takes, Reaches
<1>2. h \in Keepers /\ h \in [kind : {"read"}, fut : Nat, addr : Nat, left : Nat \ {0}, data : Seq(Nat)]
  <2>1. nodes \in Nat /\ h \in Others(nodes) \cup Keepers
    BY DEF TodoInv, ListInv
  <2>. QED
    BY <1>1, <2>1, HandlerFields
<1>3. r \in Replies /\ Faithful(r)
  <2>1. r \in InputReports
    BY <1>1 DEF WireInv
  <2>. QED
    BY <1>1, <2>1, InputFields
<1>4. h.fut \in DOMAIN futures /\ futures[h.fut].state = "pending"
  BY <1>2 DEF FutureInv, Serves
<1>5. PICK b \in ReadBlocks : futures[h.fut].ask = AskFor("read", b)
  BY <1>1, <1>2 DEF FutureInv, Serves
<1>6. b.addr \in Nat /\ b.len \in Nat \ {0} /\ h.left \in Nat \ {0} /\ h.data \in Seq(Nat) /\ r.data \in Seq(Nat)
  BY <1>2, <1>3, BlockFacts DEF Replies
<1>7. /\ amt \in Nat /\ amt <= Len(r.data) /\ (amt # h.left => amt < h.left)
      /\ data \in Seq(Nat) /\ data \in Values
  <2>1. Len(r.data) \in Nat
    BY <1>6
  <2>2. amt \in Nat /\ amt <= Len(r.data) /\ (amt # h.left => amt < h.left)
    BY <1>6, <2>1 DEF Amount
  <2> HIDE DEF amt, h, r
  <2>3. SubSeq(r.data, 1, amt) \in Seq(Nat)
    BY <1>6, <2>2
  <2>4. data \in Seq(Nat)
    BY <1>6, <2>3
  <2> HIDE DEF data
  <2>. QED
    BY <2>2, <2>4 DEF Values
\* What follows what the handler has.
<1>8. ASSUME Fine, Matches(h, r)
      PROVE  /\ r.error => b.addr \in ExtSpace
             /\ ~r.error => \E n \in 0 .. b.len - 1 :
                              /\ h.addr = b.addr + n /\ h.left = b.len - n
                              /\ amt # 0 /\ data = Promises!Bytes(b.addr, n + amt)
  <2>1. Collected(h, b) /\ ApartFrom(b, r.block)
    BY <1>1, <1>5, <1>8, ReplyApart DEF CollectInv, Gathered
  <2>2. PICK n \in 0 .. b.len - 1 : h.addr = b.addr + n /\ h.left = b.len - n /\ h.data = Promises!Bytes(b.addr, n)
    BY <2>1 DEF Collected
  <2>3. r.error => b.addr \in ExtSpace
    BY <1>3, <1>8, <2>1, ReplyFollows
  <2>4. ASSUME ~r.error PROVE amt # 0 /\ data = Promises!Bytes(b.addr, n + amt)
    <3>1. r.data # <<>> /\ r.data = Promises!Bytes(b.addr + n, Len(r.data))
      BY <1>3, <1>8, <2>1, <2>2, <2>4, ReplyFollows
    <3>2. Len(r.data) \in Nat \ {0}
      BY <1>6, <3>1
    <3>3. amt # 0
      BY <1>6, <3>2 DEF Amount
    <3>4. data = Promises!Bytes(b.addr, n) \o SubSeq(Promises!Bytes(b.addr + n, Len(r.data)), 1, amt)
      BY <2>2, <3>1
    <3> HIDE DEF amt, data, r
    <3>5. n \in Nat /\ Len(r.data) \in Nat
      BY <1>6, <3>2
    <3>6. \A l \in Nat : \A m \in Nat : m <= l =>
            Promises!Bytes(b.addr, n) \o SubSeq(Promises!Bytes(b.addr + n, l), 1, m) = Promises!Bytes(b.addr, n + m)
      BY <1>6, <3>5, BytesGoOn
    <3>. QED
      BY <1>7, <3>3, <3>4, <3>5, <3>6
  <2>. QED
    BY <2>2, <2>3, <2>4
<1>9. CASE UNCHANGED <<handlers, futures>>
  <2>1. \A t \in Threads : Adds(todo'[t]) => todo'[t] = todo[t]
    BY <1>1
  <2>. QED
    BY <1>1, <1>9, <2>1, ListUnchanged
<1>10. CASE Matches(h, r) /\ r.error /\ Fulfil(i, <<>>)
  <2>1. Fine => <<>> \in Promises!Answers(futures[h.fut].ask)
    <3>1. Fine => b.addr \in ExtSpace
      BY <1>8, <1>10
    <3>. QED
      BY <1>5, <3>1 DEF Promises!Answers, AskFor
  <2>2. <<>> \in Values
    <3>1. <<>> \in Seq(Nat)
      OBVIOUS
    <3>. QED
      BY <3>1 DEF Values
  <2>. QED
    BY <1>1, <1>2, <1>10, <2>1, <2>2, PromiseFulfilled DEF Fulfil
<1>11. CASE Matches(h, r) /\ ~r.error /\ amt = h.left /\ Fulfil(i, data)
  <2>1. Fine => data = Promises!Bytes(b.addr, b.len)
    <3>1. \A n \in 0 .. b.len - 1 : h.left = b.len - n => n + h.left = b.len
      BY <1>6
    <3>. QED
      BY <1>8, <1>11, <3>1
  <2> HIDE DEF data
  <2>2. Fine => data \in Promises!Answers(futures[h.fut].ask)
    <3>1. \A v : v = Promises!Bytes(b.addr, b.len) => v \in Promises!Answers(AskFor("read", b))
      BY DEF Promises!Answers, AskFor
    <3>. QED
      BY <1>5, <2>1, <3>1
  <2>. QED
    BY <1>1, <1>2, <1>7, <1>11, <2>2, PromiseFulfilled DEF Fulfil
<1>12. CASE /\ Matches(h, r) /\ ~r.error /\ amt # h.left
            /\ handlers' = [handlers EXCEPT ![i].addr = @ + amt, ![i].left = @ - amt, ![i].data = data]
            /\ UNCHANGED futures
  <2> DEFINE g == [h EXCEPT !.addr = @ + amt, !.left = @ - amt, !.data = data]
  <2>1. amt \in Nat /\ amt < h.left /\ data \in Seq(Nat)
    BY <1>7, <1>12
  <2>2. handlers' = [handlers EXCEPT ![i] = g]
    BY <1>12
  <2>3. Fine => \E n \in 0 .. b.len - 1 :
                  /\ h.addr = b.addr + n /\ h.left = b.len - n
                  /\ data = Promises!Bytes(b.addr, n + amt)
    BY <1>8, <1>12
  <2> HIDE DEF h, amt, data
  <2>4. /\ g.kind = "read" /\ g.fut = h.fut /\ g.data = data
        /\ g.addr = h.addr + amt /\ g.left = h.left - amt
    BY <1>2
  <2>5. g \in Keepers
    <3>1. h.addr + amt \in Nat /\ h.left - amt \in Nat \ {0}
      BY <1>2, <2>1
    <3>. QED
      BY <1>2, <2>1, <3>1 DEF Keepers
  <2> HIDE DEF g
  <2>6. Fine => Collected(g, b)
    <3> SUFFICES ASSUME Fine PROVE Collected(g, b)
      OBVIOUS
    <3>1. PICK n \in 0 .. b.len - 1 : /\ h.addr = b.addr + n /\ h.left = b.len - n
                                      /\ data = Promises!Bytes(b.addr, n + amt)
      BY <2>3
    <3> DEFINE left == h.left
    <3>2. b.addr \in Nat /\ b.len \in Nat /\ n \in Nat /\ left \in Nat /\ left = b.len - n /\ amt < left /\ amt \in Nat
      BY <1>6, <2>1, <3>1
    <3>3. g.left = left - amt /\ g.addr = (b.addr + n) + amt
      BY <2>4, <3>1
    <3> HIDE DEF left
    <3>4. n + amt \in 0 .. b.len - 1 /\ g.addr = b.addr + (n + amt) /\ g.left = b.len - (n + amt)
      BY <3>2, <3>3
    <3>. QED
      BY <2>4, <3>1, <3>4 DEF Collected
  <2>7. Serves(g, futures)
    BY <1>4, <1>5, <2>4 DEF Serves
  <2>8. handlers[i] \in Keepers /\ g.fut = handlers[i].fut
    BY <1>2, <2>4 DEF h
  <2>9. FutureInv' /\ Apart'
    BY <1>1, <1>12, <2>2, <2>5, <2>7, <2>8, HandlerAdvanced
  <2>10. handlers'[i] = g /\ \A j \in DOMAIN handlers' : j # i => j \in DOMAIN handlers /\ handlers'[j] = handlers[j]
    BY <2>2 DEF ListInv
  <2>11. Fine => Gathered(g, futures')
    BY <1>5, <1>12, <2>4, <2>6, AskedOnce DEF Gathered
  <2>. QED
    BY <1>12, <2>9, <2>10, <2>11
<1>. QED
  BY <1>9, <1>10, <1>11, <1>12 DEF HandleReadReply

\* The handler of a write counts an acknowledgement or gives the future the last.
LEMMA AckStep ==
  ASSUME TodoInv, ListInv, WireInv, FutureInv, Apart, NEW i \in DOMAIN handlers, HandleAck(i)
  PROVE  FutureInv' /\ Apart' /\ ((Completes /\ Promises!Answer) \/ UNCHANGED futures)
<1> DEFINE h == handlers[i]
           r == Head(wire)
<1>1. h.kind = "ack" /\ r.rpt = "ack" /\ wire # <<>> /\ UNCHANGED <<todo, written>>
  BY DEF HandleAck, TakenBy, Takes, Reaches
<1>2. h \in Keepers /\ h \in [kind : {"ack"}, fut : Nat, counter : Nat \ {0}]
  <2>1. nodes \in Nat /\ h \in Others(nodes) \cup Keepers
    BY DEF TodoInv, ListInv
  <2>. QED
    BY <1>1, <2>1, HandlerFields
<1>3. r.error \in {"ok", "error"}
  <2>1. r \in InputReports
    BY <1>1 DEF WireInv
  <2>. QED
    BY <1>1, <2>1, InputFields
<1>4. h.fut \in DOMAIN futures /\ futures[h.fut].state = "pending" /\ futures[h.fut].ask.kind = "write"
  BY <1>1, <1>2 DEF FutureInv, Serves
<1>5. CASE h.counter = 1 /\ Fulfil(i, r.error)
  <2>1. r.error \in Promises!Answers(futures[h.fut].ask) /\ r.error \in Values
    BY <1>3, <1>4 DEF Promises!Answers, Values
  <2>. QED
    BY <1>1, <1>2, <1>5, <2>1, PromiseFulfilled
<1>6. CASE /\ h.counter # 1 /\ handlers' = [handlers EXCEPT ![i].counter = @ - 1] /\ UNCHANGED futures
  <2> DEFINE g == [h EXCEPT !.counter = @ - 1]
  <2>1. handlers' = [handlers EXCEPT ![i] = g]
    BY <1>6
  <2>2. g.kind = "ack" /\ g.fut = h.fut /\ g \in Keepers
    BY <1>2, <1>6 DEF Keepers
  <2> HIDE DEF g
  <2>3. Serves(g, futures)
    BY <1>4, <2>2 DEF Serves
  <2>. QED
    BY <1>1, <1>2, <1>6, <2>1, <2>2, <2>3, HandlerAdvanced
<1>. QED
  BY <1>5, <1>6 DEF HandleAck

\* A request is made in the first step of read_data().
LEMMA ReadBegun ==
  ASSUME TodoInv, ListInv, FutureInv, Apart, NEW t \in Threads, BeginRead(t)
  PROVE  /\ FutureInv' /\ Apart' /\ Promises!Ask
         /\ Gathered(Added(todo'[t]), futures')
<1> DEFINE s == Head(todo[t])
           f == Len(futures) + 1
           b == s.block
           h == ReadHandler(f, b)
           steps == <<Add(h), Post(ReadBlock(b))>> \o Waiting(f, s.wait)
           ask == AskFor("read", b)
<1>1. nodes \in Nat /\ f \in Nat /\ f = Len(futures) + 1
  BY DEF TodoInv, FutureInv
<1>2. b \in ReadBlocks /\ s.wait \in BOOLEAN
  BY <1>1, AtStep, StepFields DEF BeginRead
<1>3. steps \in Seq(Steps(nodes) \cup FirstSteps) /\ Head(steps) = Add(h) /\ Head(steps) \in FirstSteps
      /\ steps # <<>>
  BY <1>1, <1>2, ReadSteps
<1>4. ask \in Asks /\ NewFuture(ask) /\ UNCHANGED handlers
  BY <1>2 DEF BeginRead, Asks
<1>5. Promises!Ask
  BY <1>4 DEF Promises!Ask, Promises!Pending, NewFuture
<1>6. f \in DOMAIN futures' /\ futures'[f] = [ask |-> ask, state |-> "pending", value |-> <<>>]
  BY <1>1, <1>4 DEF NewFuture, FutureInv
<1> HIDE DEF steps, f
<1>7. todo' = [todo EXCEPT ![t] = steps \o Tail(todo[t])] /\ todo[t] # <<>>
  BY DEF BeginRead, Do, Continue, steps, f
<1>8. Tail(todo[t]) \in Seq(Steps(nodes) \cup FirstSteps) /\ todo \in [Threads -> Seq(Steps(nodes) \cup FirstSteps)]
  BY <1>7 DEF TodoInv
<1>9. /\ todo'[t] # <<>> /\ Head(todo'[t]) = Add(h)
      /\ \A u \in Threads : u # t => todo'[u] = todo[u]
  BY <1>3, <1>7, <1>8
<1>10. Adds(todo'[t]) /\ Added(todo'[t]) = h
  BY <1>3, <1>9 DEF Adds, Added, Add
<1>11. Collected(h, b)
  <2>1. b.addr \in Nat /\ b.len \in Nat \ {0}
    BY <1>2, BlockFacts
  <2>2. Promises!Bytes(b.addr, 0) = <<>>
    <3>1. Promises!Bytes(b.addr, 0) \in Seq(Nat) /\ Len(Promises!Bytes(b.addr, 0)) = 0
      BY <2>1, BytesOf
    <3>2. \A q \in Seq(Nat) : Len(q) = 0 => q = <<>>
      OBVIOUS
    <3>. QED
      BY <3>1, <3>2
  <2>3. 0 \in 0 .. b.len - 1 /\ h.addr = b.addr + 0 /\ h.left = b.len - 0 /\ h.data = Promises!Bytes(b.addr, 0)
    BY <2>1, <2>2 DEF ReadHandler
  <2>. QED
    BY <2>3 DEF Collected
<1>12. Serves(h, futures') /\ h.fut = f
  <2>1. h.kind = "read" /\ h.fut = f
    BY DEF ReadHandler
  <2> HIDE DEF h
  <2>. QED
    BY <1>2, <1>6, <2>1 DEF Serves
<1>13. Gathered(h, futures')
  <2> HIDE DEF h
  <2>. QED
    BY <1>2, <1>6, <1>11, <1>12, AskedOnce DEF Gathered
<1>. QED
  BY <1>1, <1>4, <1>5, <1>9, <1>10, <1>12, <1>13, PromiseMade

\* And in that of write_data().
LEMMA WriteBegun ==
  ASSUME TodoInv, ListInv, FutureInv, Apart, NEW t \in Threads, BeginWrite(t)
  PROVE  /\ FutureInv' /\ Apart' /\ Promises!Ask
         /\ Gathered(Added(todo'[t]), futures')
<1> DEFINE s == Head(todo[t])
           f == Len(futures) + 1
           b == s.block
           h == AckHandler(f, Chunks(b.len))
           steps == <<Add(h)>>
                      \o [k \in 1 .. Chunks(b.len) |-> Post(WriteChunk(f, b.addr + (k - 1) * ChunkSize))]
                      \o Waiting(f, s.wait)
           ask == AskFor("write", b)
<1>1. nodes \in Nat /\ f \in Nat /\ f = Len(futures) + 1
  BY DEF TodoInv, FutureInv
<1>2. b \in WriteBlocks /\ s.wait \in BOOLEAN
  BY <1>1, AtStep, StepFields DEF BeginWrite
<1>3. steps \in Seq(Steps(nodes) \cup FirstSteps) /\ Head(steps) = Add(h) /\ Add(h) \in FirstSteps
      /\ steps # <<>>
  BY <1>1, <1>2, WriteSteps
<1>4. ask \in Asks /\ NewFuture(ask) /\ UNCHANGED handlers
  BY <1>2 DEF BeginWrite, Asks
<1>5. Promises!Ask
  BY <1>4 DEF Promises!Ask, Promises!Pending, NewFuture
<1>6. f \in DOMAIN futures' /\ futures'[f] = [ask |-> ask, state |-> "pending", value |-> <<>>]
  BY <1>1, <1>4 DEF NewFuture, FutureInv
<1> HIDE DEF steps, f
<1>7. todo' = [todo EXCEPT ![t] = steps \o Tail(todo[t])] /\ todo[t] # <<>>
  BY DEF BeginWrite, Do, Continue, steps, f
<1>8. Tail(todo[t]) \in Seq(Steps(nodes) \cup FirstSteps) /\ todo \in [Threads -> Seq(Steps(nodes) \cup FirstSteps)]
  BY <1>7 DEF TodoInv
<1>9. /\ todo'[t] # <<>> /\ Head(todo'[t]) = Add(h)
      /\ \A u \in Threads : u # t => todo'[u] = todo[u]
  BY <1>3, <1>7, <1>8
<1>10. Adds(todo'[t]) /\ Added(todo'[t]) = h
  BY <1>3, <1>9 DEF Adds, Added, Add
<1>11. Serves(h, futures') /\ h.fut = f
  <2>1. h.kind = "ack" /\ h.fut = f
    BY DEF AckHandler
  <2>2. futures'[f].ask.kind = "write" /\ futures'[f].state = "pending"
    BY <1>6 DEF AskFor
  <2> HIDE DEF h
  <2>. QED
    BY <1>6, <2>1, <2>2 DEF Serves
<1>12. Gathered(h, futures')
  BY DEF Gathered, AckHandler
<1>. QED
  BY <1>1, <1>4, <1>5, <1>9, <1>10, <1>11, <1>12, PromiseMade

\* A handler is inserted.
LEMMA AddStep ==
  ASSUME TodoInv, TodoInv', ListInv, FutureInv, Apart, NEW t \in Threads, AddReportHandler(t)
  PROVE  FutureInv' /\ Apart'
<1> DEFINE s == Head(todo[t])
<1>1. nodes \in Nat /\ nodes' \in Nat /\ UNCHANGED <<futures, written>>
  BY DEF TodoInv, AddReportHandler
<1>2. todo[t] # <<>> /\ Tail(todo[t]) \in Seq(Steps(nodes)) /\ s \in Steps(nodes) \cup FirstSteps
  BY AtStep DEF AddReportHandler, Do, TodoInv
<1>3. ASSUME Do(t, "add"), Continue(t, <<>>), handlers' = Append(handlers, s.handler)
      PROVE  FutureInv' /\ Apart'
  <2>1. todo'[t] = <<>> \o Tail(todo[t]) /\ \A u \in Threads : u # t => todo'[u] = todo[u]
    BY <1>3 DEF Continue, TodoInv
  <2>2. <<>> \o Tail(todo[t]) = Tail(todo[t])
    BY <1>2
  <2>3. ~Adds(todo'[t])
    BY <1>1, <1>2, <2>1, <2>2, AddsNone
  <2>4. s.do = "add"
    BY <1>3 DEF Do
  <2>5. s.handler \in Keepers => Adds(todo[t]) /\ s.handler = Added(todo[t])
    <3>1. s \in Steps(nodes) => s.handler \notin Keepers
      BY <1>1, <2>4, StepFields, KeepersApart
    <3>. QED
      BY <1>2, <3>1 DEF Adds, Added
  <2> DEFINE h == s.handler
  <2>6. handlers' = Append(handlers, h) /\ (h \in Keepers => Adds(todo[t]) /\ h = Added(todo[t]))
    BY <1>3, <2>5
  <2> HIDE DEF h
  <2>. QED
    BY <1>1, <2>1, <2>3, <2>6, HandlerAdded
<1>4. ASSUME Do(t, "addData"), Continue(t, <<Store("data_iter", nodes + 1)>>), nodes' = nodes + 1,
             handlers' = Append(handlers, DataHandler(s.mode, nodes + 1))
      PROVE  FutureInv' /\ Apart'
  <2> DEFINE h == DataHandler(s.mode, nodes + 1)
             q == Store("data_iter", nodes + 1)
  <2>1. h \notin Keepers
    BY DEF DataHandler, Keepers
  <2>2. q \in Steps(nodes')
    BY <1>1, <1>4, StepsHave
  <2>3. Tail(todo[t]) \in Seq(Steps(nodes'))
    <3> DEFINE S == Steps(nodes)
               U == Steps(nodes')
    <3>1. S \subseteq U
      BY <1>1, <1>4, StepsGrow
    <3>2. Tail(todo[t]) \in Seq(S)
      BY <1>2
    <3> HIDE DEF S, U
    <3>3. Tail(todo[t]) \in Seq(U)
      BY <3>1, <3>2
    <3>. QED
      BY <3>3 DEF U
  <2> HIDE DEF q
  <2>4. <<q>> \o Tail(todo[t]) \in Seq(Steps(nodes'))
    BY <2>2, <2>3
  <2>5. todo'[t] = <<q>> \o Tail(todo[t]) /\ \A u \in Threads : u # t => todo'[u] = todo[u]
    BY <1>4 DEF Continue, TodoInv, q
  <2>6. ~Adds(todo'[t])
    BY <1>1, <2>4, <2>5, AddsNone
  <2> HIDE DEF h
  <2>7. handlers' = Append(handlers, h)
    BY <1>4 DEF h
  <2>. QED
    BY <1>1, <2>1, <2>5, <2>6, <2>7, HandlerAdded
<1>. QED
  BY <1>3, <1>4 DEF AddReportHandler

\* The end of the list is removed.
LEMMA RemoveStep ==
  ASSUME TodoInv, TodoInv', ListInv, FutureInv, Apart, NEW t \in Threads, RemoveReportHandler(t),
         \A u \in Threads : Adds(todo'[u]) => todo'[u] = todo[u]
  PROVE  FutureInv' /\ Apart'
<1>1. UNCHANGED <<futures, written>>
  BY DEF RemoveReportHandler
<1>2. PICK i \in 1 .. Len(handlers) + 1 : handlers' = SubSeq(handlers, 1, i - 1)
  BY DEF RemoveReportHandler
<1>3. DOMAIN handlers = 1 .. Len(handlers) /\ Len(handlers) \in Nat
  BY DEF ListInv
<1>4. DOMAIN handlers' = 1 .. i - 1 /\ \A j \in 1 .. i - 1 : handlers'[j] = handlers[j]
  <2> DEFINE S == Others(nodes) \cup Keepers
  <2>1. handlers \in Seq(S)
    BY DEF ListInv
  <2> HIDE DEF S
  <2>. QED
    BY <1>2, <2>1
<1> DEFINE p == [j \in DOMAIN handlers' |-> j]
<1>5. /\ p \in [DOMAIN handlers' -> DOMAIN handlers]
      /\ \A j, k \in DOMAIN handlers' : p[j] = p[k] => j = k
      /\ \A j \in DOMAIN handlers' : handlers'[j] = handlers[p[j]]
  BY <1>3, <1>4
<1> HIDE DEF p
<1>. QED
  BY <1>1, <1>5, FuturesUnchanged

\* The handler of a status report is removed.
LEMMA StatusStep ==
  ASSUME ListInv, FutureInv, Apart, NEW i \in DOMAIN handlers, HandleStatus(i)
  PROVE  FutureInv' /\ Apart' /\ UNCHANGED futures
<1>1. UNCHANGED <<todo, futures, written>> /\ handlers' = RemoveAt(handlers, i)
  BY DEF HandleStatus, TakenBy, Reaches
<1> DEFINE p == [j \in DOMAIN handlers' |-> IF j < i THEN j ELSE j + 1]
<1>2. /\ p \in [DOMAIN handlers' -> DOMAIN handlers]
      /\ \A j, k \in DOMAIN handlers' : p[j] = p[k] => j = k
      /\ \A j \in DOMAIN handlers' : handlers'[j] = handlers[p[j]] /\ p[j] # i
  BY <1>1, PlacesAfterRemoval
<1> HIDE DEF p
<1>. QED
  BY <1>1, <1>2, FuturesUnchanged

\* The remote executes a write report.
LEMMA WrittenStep ==
  ASSUME FutureInv, Apart, SendWriteData
  PROVE  FutureInv' /\ Apart' /\ UNCHANGED futures
<1>1. UNCHANGED <<todo, handlers, futures>> /\ written' = [written EXCEPT ![Head(jobs).fut] = @ + 1]
  BY DEF SendWriteData, Send
<1>2. written' \in Seq(Nat) /\ Len(written') = Len(futures') /\ futures' \in Seq(FutureRecords)
  <2> DEFINE f == Head(jobs).fut
  <2>1. written \in Seq(Nat) /\ Len(written) = Len(futures) /\ futures \in Seq(FutureRecords)
    BY DEF FutureInv
  <2>2. written' = [written EXCEPT ![f] = @ + 1]
    BY <1>1
  <2> HIDE DEF f
  <2>3. written' \in Seq(Nat) /\ Len(written') = Len(written)
    <3> DEFINE n == Len(written)
    <3>1. n \in Nat /\ written \in [1 .. n -> Nat]
      BY <2>1
    <3> HIDE DEF n
    <3>2. written' \in [1 .. n -> Nat]
      <4>1. CASE f \in 1 .. n
        <5>1. written[f] + 1 \in Nat
          BY <3>1, <4>1
        <5>. QED
          BY <2>2, <3>1, <5>1
      <4>2. CASE f \notin 1 .. n
        <5>1. written' = written
          BY <2>2, <3>1, <4>2
        <5>. QED
          BY <3>1, <5>1
      <4>. QED
        BY <4>1, <4>2
    <3>3. written' \in Seq(Nat) /\ Len(written') = n
      BY <3>1, <3>2, FunctionIsSequence
    <3>. QED
      BY <3>3 DEF n
  <2>. QED
    BY <1>1, <2>1, <2>3
<1> DEFINE p == [j \in DOMAIN handlers |-> j]
<1>3. /\ p \in [DOMAIN handlers' -> DOMAIN handlers]
      /\ \A j, k \in DOMAIN handlers' : p[j] = p[k] => j = k
      /\ \A j \in DOMAIN handlers' : handlers'[j] = handlers[p[j]]
  BY <1>1
<1> HIDE DEF p
<1>4. \A j \in DOMAIN handlers' : handlers'[j] \in Keepers =>
        /\ handlers[p[j]] \in Keepers /\ handlers'[j].fut = handlers[p[j]].fut
        /\ Serves(handlers'[j], futures')
  BY <1>1, <1>3 DEF FutureInv
<1>5. \A t \in Threads : Adds(todo'[t]) => todo'[t] = todo[t] /\ Serves(Added(todo[t]), futures')
  BY <1>1 DEF FutureInv
<1>6. futures' = futures
  BY <1>1
<1>. QED
  BY <1>2, <1>3, <1>4, <1>5, <1>6, HandlersKept

-----------------------------------------------------------------------------

\* Every step leaves the handlers with the promises they serve, and makes or
\* keeps at most one promise.
LEMMA FutureStep ==
  Inv /\ [Next]_vars => /\ FutureInv' /\ Apart'
                        /\ Promises!Ask \/ Completes \/ UNCHANGED futures
                        /\ ReadsApart /\ CollectInv => [Promises!Next]_futures
<1> DEFINE Goal == /\ FutureInv' /\ Apart'
                   /\ Promises!Ask \/ Completes \/ UNCHANGED futures
                   /\ ReadsApart /\ CollectInv => [Promises!Next]_futures
<1> SUFFICES ASSUME TodoInv, ListInv, WireInv, FutureInv, Apart, [Next]_vars
             PROVE  Goal
  BY DEF Inv
<1>1. Goes /\ TodoInv'
  BY TodoStep DEF FutureInv, Goes
<1>2. ASSUME UNCHANGED futures
      PROVE  \A u \in Threads : Adds(todo'[u]) => todo'[u] = todo[u]
  <2>1. \A x : Append(futures, x) # futures
    BY DEF FutureInv
  <2>2. \A u \in Threads : ~BeginRead(u) /\ ~BeginWrite(u)
    BY <1>2, <2>1 DEF BeginRead, BeginWrite, NewFuture
  <2>. QED
    BY <1>1, <2>2 DEF Goes
<1>3. ASSUME UNCHANGED <<futures, written, handlers>>
      PROVE  Goal
  BY <1>2, <1>3, ListUnchanged
<1>4. ASSUME NEW t \in Callers,
             SetLeds(t) \/ SetReport(t) \/ ReadData(t) \/ WriteData(t) \/ GetPresentGyro(t) \/ GetExtId(t)
      PROVE  UNCHANGED <<futures, written, handlers>>
  BY <1>4 DEF SetLeds, SetReport, ReadData, WriteData, GetPresentGyro, GetExtId, Call
<1>5. ASSUME NEW t \in Threads, Step(t)
      PROVE  Goal
  <2>1. CASE AddReportHandler(t)
    <3>1. UNCHANGED futures
      BY <2>1 DEF AddReportHandler
    <3>. QED
      BY <1>1, <2>1, <3>1, AddStep
  <2>2. CASE RemoveReportHandler(t)
    <3>1. UNCHANGED futures
      BY <2>2 DEF RemoveReportHandler
    <3>. QED
      BY <1>1, <1>2, <2>2, <3>1, RemoveStep
  <2>3. CASE BeginRead(t)
    BY <2>3, ReadBegun DEF Promises!Next
  <2>4. CASE BeginWrite(t)
    BY <2>4, WriteBegun DEF Promises!Next
  <2>5. CASE ScheduleJob(t) \/ StoreState(t) \/ TestState(t) \/ AwaitFuture(t) \/ ReturnObject(t)
    <3>1. UNCHANGED <<futures, written, handlers>>
      BY <2>5 DEF ScheduleJob, StoreState, TestState, AwaitFuture, ReturnObject
    <3>. QED
      BY <1>3, <3>1
  <2>. QED
    BY <1>5, <2>1, <2>2, <2>3, <2>4, <2>5 DEF Step
<1>6. CASE SendJob
  <2>1. CASE SendWriteData
    BY <2>1, WrittenStep
  <2>2. CASE SendStatusRequest \/ SendLeds \/ SendReportMode \/ SendReadData \/ LoseReport
    <3>1. UNCHANGED <<futures, written, handlers>>
      BY <2>2 DEF SendStatusRequest, SendLeds, SendReportMode, SendReadData, LoseReport, Send
    <3>. QED
      BY <1>3, <3>1
  <2>. QED
    BY <1>6, <2>1, <2>2 DEF SendJob
<1>7. CASE PressButton \/ PlugExtension \/ Rest \/ UNCHANGED vars
  <2>1. UNCHANGED <<futures, written, handlers>>
    BY <1>7 DEF PressButton, PlugExtension, Rest, vars
  <2>. QED
    BY <1>3, <2>1
<1>8. CASE HandleUnhandled
  <2>1. UNCHANGED <<futures, written, handlers>>
    BY <1>8 DEF HandleUnhandled, Reaches
  <2>. QED
    BY <1>3, <2>1
<1>9. ASSUME NEW i \in DOMAIN handlers,
             HandleStatus(i) \/ HandleData(i) \/ HandleReadReply(i) \/ HandleAck(i)
      PROVE  Goal
  <2>1. CASE HandleStatus(i)
    BY <2>1, StatusStep
  <2>2. CASE HandleData(i)
    <3>1. UNCHANGED <<futures, written, handlers>>
      BY <2>2 DEF HandleData, TakenBy, Reaches
    <3>. QED
      BY <1>3, <3>1
  <2>3. CASE HandleReadReply(i)
    BY <2>3, ReadReplyStep DEF Promises!Next
  <2>4. CASE HandleAck(i)
    BY <2>4, AckStep DEF Promises!Next
  <2>. QED
    BY <1>9, <2>1, <2>2, <2>3, <2>4
<1>. QED
  BY <1>3, <1>4, <1>5, <1>6, <1>7, <1>8, <1>9 DEF Next, Dispatch

\* A step leads from a state with the invariant to another.
LEMMA InvStep == Inv /\ [Next]_vars => Inv'
<1> SUFFICES ASSUME Inv, [Next]_vars PROVE Inv'
  OBVIOUS
<1>1. TodoInv'
  BY TodoStep DEF Inv, FutureInv, Goes
<1>2. ListInv'
  BY ListStep DEF Inv
<1>3. StateInv'
  BY StateStep DEF Inv
<1>4. WireInv'
  BY WireStep DEF Inv
<1>5. FutureInv' /\ Apart'
  BY FutureStep
<1>. QED
  BY <1>1, <1>2, <1>3, <1>4, <1>5 DEF Inv

\* Handlers that stay have collected what they had; the others are to have
\* collected the beginning of their block.
LEMMA CollectKept ==
  ASSUME Inv, CollectInv,
         \A f \in DOMAIN futures : f \in DOMAIN futures' /\ futures'[f].ask = futures[f].ask,
         \A i \in DOMAIN handlers' :
           \/ \E j \in DOMAIN handlers : handlers'[i] = handlers[j]
           \/ \E t \in Threads : Do(t, "add") /\ handlers'[i] = Head(todo[t]).handler
           \/ Gathered(handlers'[i], futures'),
         \A t \in Threads : Adds(todo'[t]) => todo'[t] = todo[t] \/ Gathered(Added(todo'[t]), futures')
  PROVE  CollectInv'
<1>1. nodes \in Nat
  BY DEF Inv, TodoInv
<1>2. ASSUME NEW h \in Keepers, Serves(h, futures), Gathered(h, futures)
      PROVE  Gathered(h, futures')
  BY <1>2 DEF Serves, Gathered
<1>3. ASSUME NEW h \in Others(nodes), NEW fs
      PROVE  Gathered(h, fs)
  <2>1. h.kind # "read"
    BY <1>1, <1>3, HandlerFields, KeepersApart
  <2>. QED
    BY <2>1 DEF Gathered
<1>4. ASSUME NEW j \in DOMAIN handlers
      PROVE  Gathered(handlers[j], futures')
  <2>1. handlers[j] \in Others(nodes) \cup Keepers
    BY DEF Inv, ListInv
  <2>2. handlers[j] \in Keepers => Serves(handlers[j], futures)
    BY DEF Inv, FutureInv
  <2>. QED
    BY <1>2, <1>3, <2>1, <2>2 DEF CollectInv
<1>5. ASSUME NEW t \in Threads, Adds(todo[t])
      PROVE  Gathered(Added(todo[t]), futures')
  <2>1. Added(todo[t]) \in Keepers
    BY <1>5 DEF Adds, Added, FirstSteps
  <2>. QED
    BY <1>2, <1>5, <2>1 DEF CollectInv, Inv, FutureInv
<1>6. ASSUME NEW t \in Threads, Do(t, "add")
      PROVE  Gathered(Head(todo[t]).handler, futures')
  <2>1. Head(todo[t]).do = "add" /\ Head(todo[t]) \in Steps(nodes) \cup FirstSteps /\ todo[t] # <<>>
    BY <1>6, AtStep DEF Inv
  <2>2. CASE Head(todo[t]) \in FirstSteps
    BY <1>5, <2>1, <2>2 DEF Adds, Added
  <2>3. CASE Head(todo[t]) \in Steps(nodes)
    <3>1. Head(todo[t]).handler \in Others(nodes)
      BY <1>1, <2>1, <2>3, StepFields
    <3>. QED
      BY <1>3, <3>1
  <2>. QED
    BY <2>1, <2>2, <2>3
<1>7. \A i \in DOMAIN handlers' : Gathered(handlers'[i], futures')
  BY <1>4, <1>6
<1>8. \A t \in Threads : Adds(todo'[t]) => Gathered(Added(todo'[t]), futures')
  BY <1>5
<1>. QED
  BY <1>7, <1>8 DEF CollectInv

\* While the reads under way together are apart, what handlers collect is the
\* beginning of their blocks.
LEMMA CollectStep == Inv /\ CollectInv /\ ReadsApart /\ [Next]_vars => CollectInv'
<1> SUFFICES ASSUME Inv, CollectInv, ReadsApart, [Next]_vars PROVE CollectInv'
  OBVIOUS
<1>1. Goes /\ TodoInv /\ ListInv /\ WireInv /\ FutureInv /\ Apart
  BY TodoStep DEF Inv, FutureInv
<1>2. \A f \in DOMAIN futures : f \in DOMAIN futures' /\ futures'[f].ask = futures[f].ask
  <2>1. futures \in Seq(FutureRecords)
    BY <1>1 DEF FutureInv
  <2>2. CASE Promises!Ask
    <3>1. PICK ask \in Asks : futures' = Append(futures, Promises!Pending(ask))
      BY <2>2 DEF Promises!Ask
    <3> DEFINE new == Promises!Pending(ask)
    <3>2. futures' = Append(futures, new)
      BY <3>1
    <3> HIDE DEF new
    <3>. QED
      BY <2>1, <3>2
  <2>3. CASE Completes
    <3>1. PICK f \in DOMAIN futures, v \in Values :
            futures' = [futures EXCEPT ![f].state = "ready", ![f].value = v]
      BY <2>3 DEF Completes
    <3>2. \A g \in DOMAIN futures : futures[g] \in FutureRecords
      BY <2>1
    <3>. QED
      BY <3>1, <3>2 DEF FutureRecords
  <2>. QED
    BY <2>2, <2>3, FutureStep
<1>3. \A t \in Threads : Adds(todo'[t]) => todo'[t] = todo[t] \/ Gathered(Added(todo'[t]), futures')
  BY <1>1, ReadBegun, WriteBegun DEF Goes
<1> DEFINE From(i) == \/ \E j \in DOMAIN handlers : handlers'[i] = handlers[j]
                      \/ \E t \in Threads : Do(t, "add") /\ handlers'[i] = Head(todo[t]).handler
                      \/ Gathered(handlers'[i], futures')
<1> SUFFICES ASSUME NEW i \in DOMAIN handlers' PROVE From(i)
  <2>1. \A i \in DOMAIN handlers' : From(i)
    OBVIOUS
  <2>. QED
    BY <1>2, <1>3, <2>1, CollectKept
<1>4. CASE UNCHANGED handlers
  BY <1>4
<1>5. ASSUME NEW k \in DOMAIN handlers, handlers' = RemoveAt(handlers, k)
      PROVE  From(i)
  <2> DEFINE from == [j \in DOMAIN handlers' |-> IF j < k THEN j ELSE j + 1]
  <2>. ListInv
    BY <1>1
  <2>1. /\ from \in [DOMAIN handlers' -> DOMAIN handlers]
        /\ \A j, l \in DOMAIN handlers' : from[j] = from[l] => j = l
        /\ \A j \in DOMAIN handlers' : handlers'[j] = handlers[from[j]] /\ from[j] # k
    BY <1>5, PlacesAfterRemoval
  <2> HIDE DEF from
  <2>2. from[i] \in DOMAIN handlers /\ handlers'[i] = handlers[from[i]]
    BY <2>1
  <2>. QED
    BY <2>2
<1>6. ASSUME NEW h, handlers' = Append(handlers, h)
      PROVE  handlers'[i] = h \/ \E j \in DOMAIN handlers : handlers'[i] = handlers[j]
  BY <1>1, <1>6 DEF ListInv
<1>7. ASSUME NEW t \in Threads, Step(t)
      PROVE  From(i)
  <2>1. CASE AddReportHandler(t)
    <3>1. CASE Do(t, "add") /\ handlers' = Append(handlers, Head(todo[t]).handler)
      BY <1>6, <3>1
    <3>2. CASE handlers' = Append(handlers, DataHandler(Head(todo[t]).mode, nodes + 1))
      <4>1. \A m, n : DataHandler(m, n).kind # "read"
        BY DEF DataHandler
      <4>. QED
        BY <1>6, <3>2, <4>1 DEF Gathered
    <3>. QED
      BY <2>1, <3>1, <3>2 DEF AddReportHandler
  <2>2. CASE RemoveReportHandler(t)
    <3>1. PICK n \in 1 .. Len(handlers) + 1 : handlers' = SubSeq(handlers, 1, n - 1)
      BY <2>2 DEF RemoveReportHandler
    <3>2. i \in DOMAIN handlers /\ handlers'[i] = handlers[i]
      <4> DEFINE S == Others(nodes) \cup Keepers
      <4>1. handlers \in Seq(S)
        BY <1>1 DEF ListInv
      <4> HIDE DEF S
      <4>. QED
        BY <3>1, <4>1
    <3>. QED
      BY <3>2
  <2>3. CASE ~AddReportHandler(t) /\ ~RemoveReportHandler(t)
    <3>1. UNCHANGED handlers
      BY <1>7, <2>3 DEF Step, ScheduleJob, StoreState, TestState, BeginRead, BeginWrite, AwaitFuture, ReturnObject
    <3>. QED
      BY <1>4, <3>1
  <2>. QED
    BY <2>1, <2>2, <2>3
<1>8. ASSUME NEW k \in DOMAIN handlers,
             HandleStatus(k) \/ HandleData(k) \/ HandleReadReply(k) \/ HandleAck(k)
      PROVE  From(i)
  <2>1. CASE HandleStatus(k)
    BY <1>5, <2>1 DEF HandleStatus
  <2>2. CASE HandleData(k)
    BY <1>4, <2>2 DEF HandleData
  <2>3. CASE HandleReadReply(k)
    <3>1. \/ UNCHANGED handlers
          \/ handlers' = RemoveAt(handlers, k)
          \/ /\ i # k => i \in DOMAIN handlers /\ handlers'[i] = handlers[i]
             /\ Gathered(handlers'[k], futures')
      BY <1>1, <2>3, ReadReplyStep
    <3>. QED
      BY <1>4, <1>5, <3>1
  <2>4. CASE HandleAck(k)
    <3>1. CASE handlers' = RemoveAt(handlers, k)
      BY <1>5, <3>1
    <3>2. CASE handlers' = [handlers EXCEPT ![k].counter = @ - 1]
      <4>1. handlers[k].kind = "ack"
        BY <2>4 DEF HandleAck, TakenBy
      <4>2. i \in DOMAIN handlers /\ handlers'[i] = IF i = k THEN [handlers[k] EXCEPT !.counter = @ - 1] ELSE handlers[i]
        BY <1>1, <3>2 DEF ListInv
      <4>3. nodes \in Nat /\ handlers[k] \in Others(nodes) \cup Keepers
        BY <1>1 DEF TodoInv, ListInv
      <4>4. handlers[k] \in [kind : {"ack"}, fut : Nat, counter : Nat \ {0}]
        BY <4>1, <4>3, HandlerFields
      <4>5. [handlers[k] EXCEPT !.counter = @ - 1].kind = "ack"
        BY <4>4
      <4>. QED
        BY <4>2, <4>5 DEF Gathered
    <3>. QED
      BY <2>4, <3>1, <3>2 DEF HandleAck, Fulfil
  <2>. QED
    BY <1>8, <2>1, <2>2, <2>3, <2>4
<1>9. ASSUME HandleUnhandled \/ SendJob \/ PressButton \/ PlugExtension \/ Rest \/ UNCHANGED vars
      PROVE  UNCHANGED handlers
  BY <1>9 DEF HandleUnhandled, Reaches, SendJob, SendStatusRequest, SendLeds, SendReportMode, SendReadData,
              SendWriteData, LoseReport, Send, PressButton, PlugExtension, Rest, vars
<1>10. ASSUME NEW t \in Callers,
              SetLeds(t) \/ SetReport(t) \/ ReadData(t) \/ WriteData(t) \/ GetPresentGyro(t) \/ GetExtId(t)
       PROVE  UNCHANGED handlers
  BY <1>10 DEF SetLeds, SetReport, ReadData, WriteData, GetPresentGyro, GetExtId, Call
<1>. QED
  BY <1>4, <1>7, <1>8, <1>9, <1>10 DEF Next, Dispatch

\* The invariant holds when the constructor begins.
LEMMA InitInv == Init => Inv
<1> SUFFICES ASSUME Init PROVE Inv
  OBVIOUS
<1>1. nodes = 0 /\ 0 \in Nat
  BY DEF Init
<1>2. Construct \in Seq(Steps(0))
  <2>1. /\ Add(StatusHandler) \in Steps(0) /\ Add(ButtonHandler) \in Steps(0)
        /\ Post(StatusRequest) \in Steps(0) /\ Return \in Steps(0)
        /\ Store("data_iter", End) \in Steps(0)
    BY StepsHave, ReportsHave DEF End
  <2>2. Read(Calibration, TRUE) \in Steps(0)
    <3>1. Calibration \in ReadBlocks /\ \A w : w = TRUE => w \in BOOLEAN
      BY DEF ReadBlocks
    <3>2. \A b \in ReadBlocks, wait \in BOOLEAN : Read(b, wait) \in Steps(0)
      BY StepsHave
    <3>. QED
      BY <3>1, <3>2, Zenon
  <2> DEFINE S == Steps(0)
             s1 == Add(StatusHandler)
             s2 == Post(StatusRequest)
             s3 == Read(Calibration, TRUE)
             s4 == Add(ButtonHandler)
             s5 == Store("data_iter", End)
             s6 == Return
  <2>3. Construct = <<s1, s2, s3, s4, s5, s2, s6>>
    BY Zenon DEF Construct
  <2>4. s1 \in S /\ s2 \in S /\ s3 \in S /\ s4 \in S /\ s5 \in S /\ s6 \in S
    BY <2>1, <2>2, Zenon
  <2> HIDE DEF S, s1, s2, s3, s4, s5, s6
  <2>5. <<s1, s2, s3, s4, s5, s2, s6>> \in Seq(S)
    BY <2>4
  <2>. QED
    BY <2>3, <2>5, Zenon DEF S
<1>3. \A t \in Threads : todo[t] \in Seq(Steps(0))
  <2>1. <<>> \in Seq(Steps(0))
    OBVIOUS
  <2>. QED
    BY <1>2, <2>1 DEF Init
<1>4. TodoInv
  <2> DEFINE S == Steps(0)
             F == Steps(0) \cup FirstSteps
  <2>1. \A q \in Seq(S) : q \in Seq(F) /\ (q # <<>> => Tail(q) \in Seq(S))
    <3>1. S \subseteq F
      OBVIOUS
    <3> HIDE DEF S, F
    <3>. QED
      BY <3>1
  <2>2. \A t \in Threads : todo[t] \in Seq(S)
    BY <1>3
  <2> HIDE DEF S, F
  <2>3. todo = [t \in Threads |-> todo[t]]
    BY DEF Init
  <2>4. \A t \in Threads : todo[t] \in Seq(F) /\ (todo[t] # <<>> => Tail(todo[t]) \in Seq(S))
    BY <2>1, <2>2
  <2>5. todo \in [Threads -> Seq(F)] /\ \A t \in Threads : todo[t] # <<>> => Tail(todo[t]) \in Seq(S)
    BY <2>3, <2>4
  <2>. QED
    BY <1>1, <2>5 DEF TodoInv, S, F
<1>5. ListInv
  BY DEF Init, ListInv
<1>6. StateInv
  <2>1. \A x : x = FALSE => x \in BOOLEAN
    OBVIOUS
  <2>2. built \in BOOLEAN
    BY <2>1 DEF Init
  <2>3. state = [leds |-> 0, present_ext |-> FALSE, ext_mode |-> 0, data_iter |-> 0,
                 report_button |-> FALSE, report_accel |-> FALSE, report_ir |-> FALSE,
                 report_gyro |-> FALSE, report_ext |-> FALSE]
    BY DEF Init, End
  <2>4. 0 \in 0 .. nodes
    BY <1>1
  <2>5. state \in [leds : {0} \cup Leds, present_ext : BOOLEAN, ext_mode : {0, 85}, data_iter : 0 .. nodes,
                   report_button : BOOLEAN, report_accel : BOOLEAN, report_ir : BOOLEAN,
                   report_gyro : BOOLEAN, report_ext : BOOLEAN]
    BY <2>3, <2>4
  <2>. QED
    BY <2>2, <2>5 DEF StateInv
<1>7. WireInv
  BY DEF Init, WireInv, Modes
<1>8. \A t \in Threads : ~Adds(todo[t])
  BY <1>1, <1>3, AddsNone
<1>9. FutureInv /\ Apart
  BY <1>8 DEF Init, FutureInv, Apart
<1>. QED
  BY <1>4, <1>5, <1>6, <1>7, <1>9 DEF Inv

\* Whatever the threads, the wire and the remote do, the handlers in the list and
\* those about to be inserted serve pending futures, each its own.
THEOREM Invariance == Spec => []Inv
<1>1. Init => Inv
  BY InitInv
<1>2. Inv /\ [Next]_vars => Inv'
  BY InvStep
<1>. QED
  BY <1>1, <1>2, PTL DEF Spec

\* What the object keeps is well formed: read_reply_handler and
\* ack_reply_handler never count below what is still expected, and the iterator
\* of change_reporting_mode() is one that was returned.
THEOREM TypeCorrect == Spec => []TypeOK
<1>1. Inv => TypeOK
  <2> SUFFICES ASSUME Inv PROVE TypeOK
    OBVIOUS
  <2>1. nodes \in Nat
    BY DEF Inv, TodoInv
  <2>2. ASSUME NEW i \in DOMAIN handlers
        PROVE  LET h == handlers[i]
               IN  \/ h.kind \in {"status", "button"}
                   \/ h.kind = "data" /\ h.mode \in {ButtonAccel, ButtonAccelExt16} /\ h.node \in 1 .. nodes
                   \/ h.kind = "read" /\ h.fut \in DOMAIN futures /\ h.left \in Nat \ {0}
                   \/ h.kind = "ack" /\ h.fut \in DOMAIN futures /\ h.counter \in Nat \ {0}
    <3> DEFINE h == handlers[i]
    <3>1. h \in Others(nodes) \cup Keepers
      BY DEF Inv, ListInv
    <3>2. h.kind \in {"read", "ack"} => h.fut \in DOMAIN futures
      BY <2>1, <3>1, HandlerFields DEF Inv, FutureInv, Serves
    <3>. QED
      BY <2>1, <3>1, <3>2, HandlerFields
  <2>3. /\ built \in BOOLEAN /\ state.leds \in {0} \cup Leds /\ state.ext_mode \in {0, 85}
        /\ state.data_iter \in 0 .. nodes
    BY DEF Inv, StateInv
  <2>4. DOMAIN written = DOMAIN futures
    BY DEF Inv, FutureInv
  <2>5. \A f \in DOMAIN futures : futures[f].state \in {"pending", "ready"}
    <3>1. futures \in Seq(FutureRecords)
      BY DEF Inv, FutureInv
    <3>2. \A f \in DOMAIN futures : futures[f] \in FutureRecords
      BY <3>1
    <3>. QED
      BY <3>2 DEF FutureRecords
  <2>. QED
    BY <2>2, <2>3, <2>4, <2>5 DEF TypeOK
<1>. QED
  BY <1>1, Invariance, PTL

\* A promise is set only once, also where a handler takes the reply to another
\* read: set_value() does not throw in the callback.
THEOREM PromisesSetOnce == Spec => SetOnce
<1> DEFINE Kept == \A f \in DOMAIN futures :
                     futures[f].state = "ready" => f \in DOMAIN futures' /\ futures'[f] = futures[f]
<1>1. Inv /\ [Next]_vars => [Kept]_vars
  <2> SUFFICES ASSUME Inv, [Next]_vars PROVE Kept
    OBVIOUS
  <2>1. futures \in Seq(FutureRecords)
    BY DEF Inv, FutureInv
  <2>2. CASE Promises!Ask
    <3>1. PICK ask \in Asks : futures' = Append(futures, Promises!Pending(ask))
      BY <2>2 DEF Promises!Ask
    <3> DEFINE new == Promises!Pending(ask)
    <3>2. futures' = Append(futures, new)
      BY <3>1
    <3> HIDE DEF new
    <3>. QED
      BY <2>1, <3>2
  <2>3. CASE Completes
    <3>1. PICK f \in DOMAIN futures, v \in Values :
            /\ futures[f].state = "pending"
            /\ futures' = [futures EXCEPT ![f].state = "ready", ![f].value = v]
      BY <2>3 DEF Completes
    <3>. QED
      BY <2>1, <3>1
  <2>4. CASE UNCHANGED futures
    BY <2>4
  <2>. QED
    BY <2>2, <2>3, <2>4, FutureStep
<1>. QED
  BY <1>1, Invariance, PTL DEF Spec, SetOnce

\* wiimote implements Requests, for any threads, blocks and losses, as long as
\* the reads that are under way together differ in the low part of their
\* addresses: a future of read_data() or write_data() becomes ready at most once,
\* and one of a read with exactly the bytes that were asked for, or empty if the
\* remote may refuse them.  get_ext_id() and get_present_gyro() are among the
\* reads: the condition is that no two threads are in them at the same time.
THEOREM FuturesKeepPromise == Spec /\ []ReadsApart => ImplementsRequests
<1>1. Init => Promises!Init /\ CollectInv
  <2> SUFFICES ASSUME Init PROVE Promises!Init /\ CollectInv
    OBVIOUS
  <2>1. Promises!Init /\ DOMAIN handlers = {}
    BY DEF Init, Promises!Init
  <2>2. \A t \in Threads : ~Adds(todo[t])
    <3>1. \A s \in FirstSteps : s.handler \in Keepers
      BY DEF FirstSteps
    <3>2. Add(StatusHandler).handler \notin Keepers
      BY DEF Add, StatusHandler, Keepers
    <3>3. \A t \in Threads : todo[t] # <<>> => Head(todo[t]) = Add(StatusHandler)
      BY DEF Init, Construct
    <3>. QED
      BY <3>1, <3>2, <3>3 DEF Adds
  <2>. QED
    BY <2>1, <2>2 DEF CollectInv
<1>2. Inv /\ CollectInv /\ ReadsApart /\ [Next]_vars => CollectInv' /\ [Promises!Next]_futures
  BY CollectStep, FutureStep
<1>. QED
  BY <1>1, <1>2, Invariance, PTL DEF Spec, ImplementsRequests, Promises!Spec

=============================================================================

------------------------------ MODULE DataProofs -----------------------------
(***************************************************************************)
(* Proofs about what the code makes of data, for every set of bits and of  *)
(* blocks:                                                                 *)
(*   - the word of buttons (ButtonState);                                  *)
(*   - the data of an extension behind a Motion Plus (Passthrough);        *)
(*   - the numbers in the reports that read and write a block (Blocks):    *)
(*     they fit their fields, a read collects its block and a write covers *)
(*     it.  The invariant says which pieces are behind and which ahead, so *)
(*     that the next piece is always the one at the cursor.                *)
(***************************************************************************)
EXTENDS ButtonState, Passthrough, Blocks, SequenceTheorems, TLAPS

-----------------------------------------------------------------------------
(* The buttons. *)

\* What the word holds at each place of the handler.  While the handler is idle
\* the word is that of the last report; from the first store on it is a part of
\* the report being handled.
Holds ==
  /\ pc \in {"idle", "test"} /\ last # {Unset} => button = last
  /\ pc = "low" => button = {} /\ CarriesButtons(report)
  /\ pc = "high" => button = Pressed(report) \cap LowByte

Inv == TypeOK /\ Holds

\* The two bytes make up the word.
LEMMA TwoBytes ==
  ASSUME NEW B \in SUBSET Bits
  PROVE  ((B \cap Mask) \cap LowByte) \cup ((B \cap Mask) \cap HighByte) = B \cap Mask
<1>1. \A x \in 0 .. 15 : x \in LowByte \/ x \in HighByte
  BY DEF LowByte, HighByte
<1>2. \A x \in B : x \in LowByte \/ x \in HighByte
  BY <1>1, BitsAssumption
<1>. QED
  BY <1>2

\* The initial states satisfy the invariant.
LEMMA InvInit == Init => Inv
  BY DEF Init, Inv, TypeOK, Holds, Reports, Pressed, Mask, LowByte, HighByte

\* Every step keeps the invariant.
LEMMA InvStep == Inv /\ [Next]_vars => Inv'
<1> SUFFICES ASSUME Inv, [Next]_vars PROVE Inv'
  OBVIOUS
<1> USE DEF Inv, TypeOK, Holds
<1>1. CASE Offer
  BY <1>1 DEF Offer
<1>2. CASE Skip
  BY <1>2 DEF Skip
<1>3. CASE Clear
  BY <1>3 DEF Clear
<1>4. CASE OrLow
  <2>1. report.button \in SUBSET Bits
    BY DEF Reports
  <2>2. button' = Pressed(report) \cap LowByte /\ button' \in SUBSET Bits
    BY <1>4, <2>1 DEF OrLow, Pressed
  <2>. QED
    BY <1>4, <2>2 DEF OrLow
<1>5. CASE OrHigh
  <2>1. report.button \in SUBSET Bits
    BY DEF Reports
  <2>2. button' = Pressed(report)
    BY <1>5, <2>1, TwoBytes DEF OrHigh, Pressed
  <2>3. Pressed(report) \in SUBSET (Bits \cap Mask)
    BY <2>1 DEF Pressed
  <2>. QED
    BY <1>5, <2>2, <2>3 DEF OrHigh
<1>6. CASE Poll
  BY <1>6 DEF Poll
<1>7. CASE UNCHANGED vars
  BY <1>7 DEF vars
<1>. QED
  BY <1>1, <1>2, <1>3, <1>4, <1>5, <1>6, <1>7 DEF Next

\* What one read of the application returns.
LEMMA PollStep ==
  Inv /\ [Next]_vars =>
    (last # {Unset} /\ seen' # seen
       => seen' \subseteq IF pc \in {"low", "high"} THEN Pressed(report) ELSE last)
<1> SUFFICES ASSUME Inv, [Next]_vars, last # {Unset}, seen' # seen
             PROVE  seen' \subseteq IF pc \in {"low", "high"} THEN Pressed(report) ELSE last
  OBVIOUS
<1>1. seen' = button
  BY DEF Next, vars, Offer, Skip, Clear, OrLow, OrHigh, Poll
<1>2. CASE pc \in {"low", "high"}
  BY <1>1, <1>2 DEF Inv, Holds
<1>3. CASE pc \in {"idle", "test"}
  BY <1>1, <1>3 DEF Inv, Holds
<1>. QED
  BY <1>2, <1>3 DEF Inv, TypeOK

\* The word of buttons is well formed, and between two reports it is that of the
\* last one.
THEOREM WordCorrect == Spec => []TypeOK
<1>1. Inv => TypeOK
  BY DEF Inv
<1>. QED
  BY InvInit, InvStep, <1>1, PTL DEF Spec

\* No read of get_input_button() shows a button that neither the report being
\* handled nor the one before it has down.
THEOREM NoPhantom == Spec => NoPhantomPress
<1>1. Inv /\ [Next]_vars =>
        [last # {Unset} /\ seen' # seen
           => seen' \subseteq IF pc \in {"low", "high"} THEN Pressed(report) ELSE last]_vars
  BY PollStep
<1>. QED
  BY InvInit, InvStep, <1>1, PTL DEF Spec, NoPhantomPress

-----------------------------------------------------------------------------
(* The extension. *)

Places == (0 .. 5) \X (0 .. 7)

\* The bits that are moved, by byte and number, with None.
B00 == <<0, 0>>
B10 == <<1, 0>>
B40 == <<4, 0>>
B50 == <<5, 0>>
B51 == <<5, 1>>
B52 == <<5, 2>>
B53 == <<5, 3>>
B54 == <<5, 4>>
B56 == <<5, 6>>
B57 == <<5, 7>>
B08 == <<0, 8>>

Touched(m) == IF m = 5 THEN {B50, B51, B52, B53, B54, B56, B57, B40} ELSE {B00, B10, B50, B51, B40}

\* The bit b of the extension's data is at the place from until the k-th move has
\* brought it back.
Back(b, from, k) ==
  /\ next <= k => (from \in passed <=> b \in original)
  /\ next > k => (b \in passed <=> b \in original)

\* Each bit that was passed on is at its place, and each that was not is 0 once
\* the k-th move has cleared it.
MovesInv ==
  /\ mode \in {5, 7} /\ next \in 1 .. Len(Moves(mode)) + 1
  /\ original \subseteq Places /\ passed \subseteq Places
  /\ \A b \in Places \ Touched(mode) : b \in passed <=> b \in original
  /\ mode = 5 =>
       /\ Back(B50, B52, 1) /\ Back(B51, B53, 2) /\ Back(B53, B54, 3) /\ Back(B40, B57, 4) /\ Back(B57, B56, 5)
       /\ (next > 1 => B52 \notin passed) /\ (next > 3 => B54 \notin passed) /\ (next > 5 => B56 \notin passed)
  /\ mode = 7 =>
       /\ Back(B50, B00, 1) /\ Back(B51, B10, 2)
       /\ (next > 1 => B00 \notin passed) /\ (next > 2 => B10 \notin passed) /\ (next > 3 => B40 \notin passed)

\* The bits are different ones, and all but None are places.
LEMMA BitsDiffer ==
  /\ \A b \in {B10, B40, B50, B51, B52, B53, B54, B56, B57} : B00 # b /\ b \in Places
  /\ B00 \in Places /\ B08 \notin Places
  /\ \A b \in {B40, B50, B51, B52, B53, B54, B56, B57} : B10 # b
  /\ \A b \in {B50, B51, B52, B53, B54, B56, B57} : B40 # b
  /\ \A b \in {B51, B52, B53, B54, B56, B57} : B50 # b
  /\ \A b \in {B52, B53, B54, B56, B57} : B51 # b
  /\ \A b \in {B53, B54, B56, B57} : B52 # b
  /\ \A b \in {B54, B56, B57} : B53 # b
  /\ B54 # B56 /\ B54 # B57 /\ B56 # B57
BY DEF Places, B00, B10, B40, B50, B51, B52, B53, B54, B56, B57, B08

\* What the moves of each mode are.
LEMMA MovesAre ==
  /\ mode = 5 =>
       /\ Len(Moves(mode)) = 5
       /\ Moves(mode)[1] = Move(B52, B50) /\ Moves(mode)[2] = CopyBit(B53, B51)
       /\ Moves(mode)[3] = Move(B54, B53) /\ Moves(mode)[4] = CopyBit(B57, B40)
       /\ Moves(mode)[5] = Move(B56, B57)
  /\ mode = 7 =>
       /\ Len(Moves(mode)) = 3
       /\ Moves(mode)[1] = Move(B00, B50) /\ Moves(mode)[2] = Move(B10, B51)
       /\ Moves(mode)[3] = CopyBit(B08, B40)
BY DEF Moves, B00, B10, B40, B50, B51, B52, B53, B54, B56, B57, B08, None

\* The number of moves of each mode, and what it says of the next one.
LEMMA NextRange ==
  ASSUME MovesInv
  PROVE  /\ mode = 5 /\ next > Len(Moves(mode)) => next = 6
         /\ mode = 5 /\ next <= Len(Moves(mode)) => next \in 1 .. 5
         /\ mode = 7 /\ next > Len(Moves(mode)) => next = 4
         /\ mode = 7 /\ next <= Len(Moves(mode)) => next \in 1 .. 3
         /\ next <= Len(Moves(mode)) => next + 1 \in 1 .. Len(Moves(mode)) + 1
<1> DEFINE n == Len(Moves(mode))
<1>1. next \in 1 .. n + 1
  BY DEF MovesInv
<1>2. (mode = 5 => n = 5) /\ (mode = 7 => n = 3)
  BY MovesAre, Zenon
<1> HIDE DEF n
<1>3. /\ mode = 5 /\ next > n => next = 6
      /\ mode = 5 /\ next <= n => next \in 1 .. 5
      /\ mode = 7 /\ next > n => next = 4
      /\ mode = 7 /\ next <= n => next \in 1 .. 3
  BY <1>1, <1>2
<1>4. mode \in {5, 7}
  BY DEF MovesInv
<1>5. next <= n => next + 1 \in 1 .. n + 1
  BY <1>1, <1>2, <1>4
<1>. QED
  BY <1>3, <1>5 DEF n

\* What a move does to each bit.
LEMMA MoveSets ==
  ASSUME NEW from, NEW to, from # to
  PROVE  /\ MoveBit /\ Moves(mode)[next] = Move(from, to) =>
              \A b : b \in passed' <=> (b = to /\ from \in passed) \/ (b # to /\ b # from /\ b \in passed)
         /\ MoveBit /\ Moves(mode)[next] = CopyBit(from, to) =>
              \A b : b \in passed' <=> (b = to /\ from \in passed) \/ (b # to /\ b \in passed)
BY DEF MoveBit, Move, CopyBit, SetBit

\* At first, every bit is where the Motion Plus has sent it.
LEMMA ExtensionInitInv == ExtensionInit => MovesInv
<1> SUFFICES ASSUME ExtensionInit PROVE MovesInv
  OBVIOUS
<1>1. mode \in {5, 7} /\ next = 1 /\ original \subseteq Places /\ 1 \in 1 .. Len(Moves(mode)) + 1
  BY MovesAre DEF ExtensionInit, Places
<1>2. PICK attached \in SUBSET {B40} : passed = PassedThrough(mode, original) \cup attached
  BY DEF ExtensionInit, B40
<1>3. CASE mode = 5
  <2>1. /\ DOMAIN Sent(mode) = {B50, B51, B53, B57, B40}
        /\ Lost(mode) = {B52, B54, B56}
        /\ Touched(mode) = {B50, B51, B52, B53, B54, B56, B57, B40}
    BY <1>3 DEF Sent, Lost, Touched, B40, B50, B51, B52, B53, B54, B56, B57
  <2>2. /\ Sent(mode)[B50] = B52 /\ Sent(mode)[B51] = B53 /\ Sent(mode)[B53] = B54
        /\ Sent(mode)[B57] = B56 /\ Sent(mode)[B40] = B57
    BY <1>3 DEF Sent, B40, B50, B51, B52, B53, B54, B56, B57
  <2>3. \A c : c \in passed <=>
          \/ c \in attached
          \/ c = B52 /\ B50 \in original
          \/ c = B53 /\ B51 \in original
          \/ c = B54 /\ B53 \in original
          \/ c = B56 /\ B57 \in original
          \/ c = B57 /\ B40 \in original
          \/ c \in original /\ c \notin Touched(mode)
    BY <1>2, <2>1, <2>2, BitsDiffer DEF PassedThrough
  <2>. QED
    BY <1>1, <1>3, <2>1, <2>3, BitsDiffer DEF MovesInv, Back
<1>4. CASE mode = 7
  <2>1. /\ DOMAIN Sent(mode) = {B50, B51}
        /\ Lost(mode) = {B00, B10, B40}
        /\ Touched(mode) = {B00, B10, B50, B51, B40}
    BY <1>4 DEF Sent, Lost, Touched, B40, B50, B51, B00, B10
  <2>2. Sent(mode)[B50] = B00 /\ Sent(mode)[B51] = B10
    BY <1>4 DEF Sent, B50, B51, B00, B10
  <2>3. \A c : c \in passed <=>
          \/ c \in attached
          \/ c = B00 /\ B50 \in original
          \/ c = B10 /\ B51 \in original
          \/ c \in original /\ c \notin Touched(mode)
    BY <1>2, <2>1, <2>2, BitsDiffer DEF PassedThrough
  <2>. QED
    BY <1>1, <1>4, <2>1, <2>3, BitsDiffer DEF MovesInv, Back
<1>. QED
  BY <1>1, <1>3, <1>4

\* A move brings its bit back and loses no other.
LEMMA MoveBitInv == MovesInv /\ MoveBit => MovesInv'
<1> SUFFICES ASSUME MovesInv, MoveBit PROVE MovesInv'
  OBVIOUS
<1>1. mode' = mode /\ original' = original /\ next' = next + 1 /\ next <= Len(Moves(mode)) /\ Moves(mode)' = Moves(mode)
  BY DEF MoveBit
<1>2. CASE mode = 5
  <2>1. Touched(mode) = {B50, B51, B52, B53, B54, B56, B57, B40}
    BY <1>2 DEF Touched
  <2>2. next \in 1 .. 5 /\ next' \in 1 .. Len(Moves(mode)) + 1
    BY <1>1, <1>2, NextRange, Zenon
  <2>3. CASE next = 1
    <3>1. \A b : b \in passed' <=> (b = B50 /\ B52 \in passed) \/ (b # B50 /\ b # B52 /\ b \in passed)
      BY <1>2, <2>3, MovesAre, MoveSets, BitsDiffer
    <3>. QED
      BY <1>1, <1>2, <2>1, <2>2, <2>3, <3>1, BitsDiffer DEF MovesInv, Back
  <2>4. CASE next = 2
    <3>1. \A b : b \in passed' <=> (b = B51 /\ B53 \in passed) \/ (b # B51 /\ b \in passed)
      BY <1>2, <2>4, MovesAre, MoveSets, BitsDiffer
    <3>. QED
      BY <1>1, <1>2, <2>1, <2>2, <2>4, <3>1, BitsDiffer DEF MovesInv, Back
  <2>5. CASE next = 3
    <3>1. \A b : b \in passed' <=> (b = B53 /\ B54 \in passed) \/ (b # B53 /\ b # B54 /\ b \in passed)
      BY <1>2, <2>5, MovesAre, MoveSets, BitsDiffer
    <3>. QED
      BY <1>1, <1>2, <2>1, <2>2, <2>5, <3>1, BitsDiffer DEF MovesInv, Back
  <2>6. CASE next = 4
    <3>1. \A b : b \in passed' <=> (b = B40 /\ B57 \in passed) \/ (b # B40 /\ b \in passed)
      BY <1>2, <2>6, MovesAre, MoveSets, BitsDiffer
    <3>. QED
      BY <1>1, <1>2, <2>1, <2>2, <2>6, <3>1, BitsDiffer DEF MovesInv, Back
  <2>7. CASE next = 5
    <3>1. \A b : b \in passed' <=> (b = B57 /\ B56 \in passed) \/ (b # B57 /\ b # B56 /\ b \in passed)
      BY <1>2, <2>7, MovesAre, MoveSets, BitsDiffer
    <3>. QED
      BY <1>1, <1>2, <2>1, <2>2, <2>7, <3>1, BitsDiffer DEF MovesInv, Back
  <2>. QED
    BY <2>2, <2>3, <2>4, <2>5, <2>6, <2>7
<1>3. CASE mode = 7
  <2>1. Touched(mode) = {B00, B10, B50, B51, B40}
    BY <1>3 DEF Touched
  <2>2. next \in 1 .. 3 /\ next' \in 1 .. Len(Moves(mode)) + 1
    BY <1>1, <1>3, NextRange, Zenon
  <2>3. CASE next = 1
    <3>1. \A b : b \in passed' <=> (b = B50 /\ B00 \in passed) \/ (b # B50 /\ b # B00 /\ b \in passed)
      BY <1>3, <2>3, MovesAre, MoveSets, BitsDiffer
    <3>. QED
      BY <1>1, <1>3, <2>1, <2>2, <2>3, <3>1, BitsDiffer DEF MovesInv, Back
  <2>4. CASE next = 2
    <3>1. \A b : b \in passed' <=> (b = B51 /\ B10 \in passed) \/ (b # B51 /\ b # B10 /\ b \in passed)
      BY <1>3, <2>4, MovesAre, MoveSets, BitsDiffer
    <3>. QED
      BY <1>1, <1>3, <2>1, <2>2, <2>4, <3>1, BitsDiffer DEF MovesInv, Back
  <2>5. CASE next = 3
    <3>1. \A b : b \in passed' <=> (b = B40 /\ B08 \in passed) \/ (b # B40 /\ b \in passed)
      BY <1>3, <2>5, MovesAre, MoveSets, BitsDiffer
    <3>2. B08 \notin passed
      BY BitsDiffer DEF MovesInv
    <3>. QED
      BY <1>1, <1>3, <2>1, <2>2, <2>5, <3>1, <3>2, BitsDiffer DEF MovesInv, Back
  <2>. QED
    BY <2>2, <2>3, <2>4, <2>5
<1>. QED
  BY <1>2, <1>3 DEF MovesInv

\* When every move is made, each bit is back.
LEMMA MovesRestore == MovesInv => Restored
<1> SUFFICES ASSUME MovesInv, next > Len(Moves(mode)) PROVE passed = original \ Lost(mode)
  BY DEF Restored
<1>1. CASE mode = 5
  <2>1. Touched(mode) = {B50, B51, B52, B53, B54, B56, B57, B40} /\ Lost(mode) = {B52, B54, B56}
    BY <1>1 DEF Touched, Lost, B52, B54, B56
  <2>2. next = 6
    BY <1>1, NextRange, Zenon
  <2>3. \A b \in Places : b \in passed <=> b \in original \ Lost(mode)
    BY <1>1, <2>1, <2>2, BitsDiffer DEF MovesInv, Back
  <2>. QED
    BY <2>3 DEF MovesInv
<1>2. CASE mode = 7
  <2>1. Touched(mode) = {B00, B10, B50, B51, B40} /\ Lost(mode) = {B00, B10, B40}
    BY <1>2 DEF Touched, Lost, B00, B10, B40
  <2>2. next = 4
    BY <1>2, NextRange, Zenon
  <2>3. \A b \in Places : b \in passed <=> b \in original \ Lost(mode)
    BY <1>2, <2>1, <2>2, BitsDiffer DEF MovesInv, Back
  <2>. QED
    BY <2>3 DEF MovesInv
<1>. QED
  BY <1>1, <1>2 DEF MovesInv

\* After undo_mp_passthrough(), the extension's data is what it was before the Motion
\* Plus passed it on, but for the bits that it lost, which are 0: for every data.
THEOREM PassedThroughRestored == ExtensionSpec => []Restored
<1>1. MovesInv /\ [ExtensionNext]_extensionVars => MovesInv'
  <2> SUFFICES ASSUME MovesInv, UNCHANGED extensionVars PROVE MovesInv'
    BY MoveBitInv DEF ExtensionNext, Moved
  <2>. QED
    BY DEF MovesInv, extensionVars, Back
<1>. QED
  BY ExtensionInitInv, <1>1, MovesRestore, PTL DEF ExtensionSpec

-----------------------------------------------------------------------------
(* Blocks. *)

\* The k-th reply to the read request for b.
Piece(b, k) == Reply(b.addr + 16 * (k - 1), Lesser(16, b.len - 16 * (k - 1)))

\* The k-th write report for b.
Start(b, k) == IF b.len <= 16 THEN b.addr ELSE b.addr + 16 * (k - 1)
WritePart(b, k) ==
  [address |-> SetAddress(Start(b, k)), size |-> Lesser(b.len, 16),
   data |-> Memory(Start(b, k), Lesser(b.len, 16))]

Blocks24 ==
  {b \in [addr : Nat, len : Nat] : b.len > 0 /\ b.len < U16 /\ b.addr + b.len <= U24}

ReadInv ==
  /\ data = Memory(block.addr, block.len - left)
  /\ \E i \in 0 .. AckCount(block.len) :
       /\ left = block.len - Lesser(block.len, 16 * i)
       /\ reports = [k \in 1 .. AckCount(block.len) - i |-> Piece(block, i + k)]

WriteInv ==
  /\ CutEvenly(block.len)
  /\ \E m \in 0 .. AckCount(block.len) :
       /\ left = IF m = AckCount(block.len) THEN 0 ELSE block.len - 16 * m
       /\ reports = [k \in 1 .. m |-> WritePart(block, k)]

BlocksInv ==
  /\ block \in Blocks24
  /\ left \in 0 .. block.len
  /\ cursor = block.addr + (block.len - left)
  /\ \/ op = "read" /\ ReadInv
     \/ op = "write" /\ WriteInv

-----------------------------------------------------------------------------
(* Blocks: memory and the encodings. *)

\* A stretch of memory and the one after it make up the whole.
LEMMA Joined ==
  ASSUME NEW a \in Nat, NEW m \in Nat, NEW n \in Nat
  PROVE  Memory(a, m) \o Memory(a + m, n) = Memory(a, m + n)
<1> DEFINE s == Memory(a, m)
           t == Memory(a + m, n)
           u == Memory(a, m + n)
<1>1. s \in Seq(Nat) /\ Len(s) = m /\ \A i \in 1 .. m : s[i] = a + (i - 1)
  BY DEF Memory
<1>2. t \in Seq(Nat) /\ Len(t) = n /\ \A i \in 1 .. n : t[i] = a + m + (i - 1)
  BY DEF Memory
<1>3. u \in Seq(Nat) /\ Len(u) = m + n /\ \A i \in 1 .. m + n : u[i] = a + (i - 1)
  BY DEF Memory
<1> HIDE DEF s, t, u
<1>4. s \o t \in Seq(Nat) /\ Len(s \o t) = m + n
  BY <1>1, <1>2, ConcatProperties
<1>5. \A i \in 1 .. m + n : (s \o t)[i] = a + (i - 1)
  BY <1>1, <1>2
<1>6. s \o t = u
  BY <1>3, <1>4, <1>5, SeqEqual
<1>. QED  BY <1>6 DEF s, t, u

\* A stretch from within a stretch of memory is memory.
LEMMA Within ==
  \A a, n, at, size \in Nat :
    at + size <= n => SubSeq(Memory(a, n), at + 1, at + size) = Memory(a + at, size)
<1> SUFFICES ASSUME NEW a \in Nat, NEW n \in Nat, NEW at \in Nat, NEW size \in Nat,
                    at + size <= n
             PROVE  SubSeq(Memory(a, n), at + 1, at + size) = Memory(a + at, size)
  OBVIOUS
<1> DEFINE s == Memory(a, n)
           t == SubSeq(s, at + 1, at + size)
           u == Memory(a + at, size)
<1>1. s \in Seq(Nat) /\ Len(s) = n /\ \A i \in 1 .. n : s[i] = a + (i - 1)
  BY DEF Memory
<1>2. u \in Seq(Nat) /\ Len(u) = size /\ \A i \in 1 .. size : u[i] = a + at + (i - 1)
  BY DEF Memory
<1> HIDE DEF s, u
<1>3. t \in Seq(Nat) /\ Len(t) = size /\ \A i \in 1 .. size : t[i] = s[at + i]
  BY <1>1
<1> HIDE DEF t
<1>4. \A i \in 1 .. size : t[i] = u[i]
  BY <1>1, <1>2, <1>3
<1>5. t = u
  BY <1>2, <1>3, <1>4, SeqEqual
<1>. QED  BY <1>5 DEF s, t, u

\* A whole stretch appended to the one before it makes a longer stretch.
LEMMA Advance ==
  ASSUME NEW a \in Nat, NEW m \in Nat, NEW size \in Nat
  PROVE  Memory(a, m) \o SubSeq(Memory(a + m, size), 1, size) = Memory(a, m + size)
<1> DEFINE s == Memory(a + m, size)
           t == SubSeq(s, 1, size)
<1>1. s \in Seq(Nat) /\ Len(s) = size
  BY DEF Memory
<1> HIDE DEF s
<1>2. t \in Seq(Nat) /\ Len(t) = size /\ \A i \in 1 .. size : t[i] = s[i]
  BY <1>1
<1> HIDE DEF t
<1>3. t = s
  BY <1>1, <1>2, SeqEqual
<1>4. Memory(a, m) \o Memory(a + m, size) = Memory(a, m + size)
  BY Joined
<1>. QED  BY <1>3, <1>4, Zenon DEF s, t

\* What the library encodes the remote decodes.
LEMMA Decoded ==
  /\ \A x \in Nat : x < U24 => Address(SetAddress(x)) = x
  /\ \A n \in Nat : n < U16 => Size(SetReadSize(n)) = n
<1>1. ASSUME NEW x \in Nat, x <= 16777215
      PROVE  ((x \div 65536) % 256) * 65536 + ((x \div 256) % 256) * 256 + (x % 256) = x
  BY <1>1, SMT
<1>2. ASSUME NEW n \in Nat, n <= 65535
      PROVE  ((n \div 256) % 256) * 256 + (n % 256) = n
  BY <1>2, SMT
<1>3. ASSUME NEW x \in Nat, x < U24 PROVE Address(SetAddress(x)) = x
  <2>1. x <= 16777215
    BY <1>3, SMT DEF U24
  <2>. QED  BY <2>1, <1>1, SMT DEF Address, SetAddress, U8, U16
<1>4. ASSUME NEW n \in Nat, n < U16 PROVE Size(SetReadSize(n)) = n
  <2>1. n <= 65535
    BY <1>4, SMT DEF U16
  <2>. QED  BY <2>1, <1>2, SMT DEF Size, SetReadSize, U8
<1>. QED  BY <1>3, <1>4

\* A reply carries its size and the low half of its address.
LEMMA Recognised ==
  ASSUME NEW at \in Nat, NEW size \in 1 .. 16
  PROVE  /\ GetAddress(Reply(at, size)) = at % U16
         /\ GetSize(Reply(at, size)) = size
         /\ Reply(at, size).data = Memory(at, size)
<1>1. ((at \div 256) % 256) * 256 + (at % 256) = at % 65536
  BY SMT
<1>. QED
  BY <1>1, SMT DEF GetAddress, GetSize, Reply, U8, U16

-----------------------------------------------------------------------------
(* Blocks: the steps. *)

\* At first nothing is done, and all replies to a request are ahead.
LEMMA Begins == BlockInit => BlocksInv
<1> SUFFICES ASSUME BlockInit PROVE BlocksInv
  OBVIOUS
<1>1. block \in Blocks24 /\ cursor = block.addr /\ left = block.len /\ data = <<>>
  <2>1. /\ block.addr \in Nat /\ block.len \in 1 .. U16 - 1 /\ block.addr + block.len <= U24
        /\ block = [addr |-> block.addr, len |-> block.len]
        /\ cursor = block.addr /\ left = block.len /\ data = <<>>
    BY DEF BlockInit, Requested
  <2>2. U16 \in Nat
    BY SMT DEF U16
  <2>3. block.len \in Nat /\ block.len > 0 /\ block.len < U16
    BY <2>1, <2>2
  <2>. QED  BY <2>1, <2>3 DEF Blocks24
<1>2. /\ block.addr \in Nat /\ block.addr < U24
      /\ block.len \in Nat /\ block.len < U16
      /\ AckCount(block.len) \in Nat /\ AckCount(block.len) # 0
      /\ Lesser(block.len, 16 * 0) = 0
  BY <1>1, SMT DEF Blocks24, AckCount, max_write, Lesser, U24, U16
<1>3. Memory(block.addr, block.len - left) = <<>>
  BY <1>1, <1>2 DEF Memory
<1>4. CASE op = "read"
  <2>1. reports = Replies(ReadRequest(block))
    BY <1>4 DEF BlockInit
  <2>2. /\ Address(ReadRequest(block).address) = block.addr
        /\ Size(ReadRequest(block).size) = block.len
    BY <1>2, Decoded, SMT DEF ReadRequest
  <2>3. reports = [k \in 1 .. AckCount(block.len) - 0 |-> Piece(block, 0 + k)]
    BY <1>2, <2>1, <2>2 DEF Replies, Piece, AckCount, max_write
  <2>4. ReadInv
    BY <1>1, <1>2, <1>3, <2>3 DEF ReadInv
  <2>. QED  BY <1>1, <1>2, <1>4, <2>4 DEF BlocksInv
<1>5. CASE op = "write"
  <2>1. CutEvenly(block.len) /\ reports = <<>>
    BY <1>5 DEF BlockInit
  <2>2. reports = [k \in 1 .. 0 |-> WritePart(block, k)]
    BY <2>1
  <2>3. WriteInv
    BY <1>1, <1>2, <2>1, <2>2 DEF WriteInv
  <2>. QED  BY <1>1, <1>2, <1>5, <2>3 DEF BlocksInv
<1>. QED  BY <1>4, <1>5 DEF BlockInit

\* A handled reply moves one piece from those ahead to those behind.
LEMMA Reads ==
  ASSUME BlocksInv, HandleReply
  PROVE  BlocksInv'
<1> DEFINE a == block.addr
           n == block.len
           K == AckCount(n)
           Ahead == {Piece(block, k) : k \in Nat}
<1>1. a \in Nat /\ n \in Nat /\ n > 0 /\ K \in Nat /\ n <= 16 * K /\ 16 * K < n + 16
  BY SMT DEF BlocksInv, Blocks24, AckCount, max_write
<1>2. op = "read" /\ ReadInv /\ cursor = a + (n - left) /\ left \in 0 .. n
  BY DEF BlocksInv, HandleReply
<1>3. PICK i \in 0 .. K :
        /\ left = n - Lesser(n, 16 * i)
        /\ reports = [k \in 1 .. K - i |-> Piece(block, i + k)]
  BY <1>2 DEF ReadInv
<1> DEFINE at == a + 16 * i
           size == Lesser(16, n - 16 * i)
<1>4. i < K
  <2>1. ASSUME i = K PROVE reports = <<>>
    BY <1>1, <1>3, <2>1
  <2>. QED  BY <1>1, <1>3, <2>1 DEF HandleReply
<1>5. /\ at \in Nat /\ size \in 1 .. 16 /\ 16 * i < n /\ left = n - 16 * i /\ cursor = at
      /\ size <= left /\ left \in Nat /\ 16 * i \in Nat
  <2> HIDE DEF a, n, K
  <2>1. 16 * i < n /\ 16 * i \in Nat
    BY <1>1, <1>4, SMT
  <2>2. left = n - 16 * i /\ size \in 1 .. 16 /\ size <= n - 16 * i
    BY <1>1, <1>3, <2>1, SMT DEF Lesser
  <2>. QED  BY <1>1, <1>2, <2>1, <2>2, SMT
<1>6. /\ Head(reports) = Piece(block, i + 1)
      /\ Tail(reports) = [k \in 1 .. K - (i + 1) |-> Piece(block, (i + 1) + k)]
  <2> HIDE DEF K
  <2>1. \A k \in 1 .. K - i : Piece(block, i + k) \in Ahead
    BY <1>1, <1>3
  <2> DEFINE d == K - i
  <2>0. d \in Nat /\ d > 0 /\ reports = [k \in 1 .. d |-> Piece(block, i + k)]
    BY <1>1, <1>3, <1>4
  <2> HIDE DEF Ahead, d
  <2>2. reports \in Seq(Ahead) /\ Len(reports) = d
    BY <2>0, <2>1 DEF d
  <2>3. \A k \in 1 .. K - i : reports[k] = Piece(block, i + k)
    BY <1>3
  <2>3a. K - (i + 1) = d - 1 /\ reports # <<>>
    BY <1>1, <1>3, <2>0, <2>2 DEF d
  <2>4. /\ Tail(reports) \in Seq(Ahead) /\ Len(Tail(reports)) = K - (i + 1)
        /\ \A k \in 1 .. K - (i + 1) : Tail(reports)[k] = reports[k + 1]
        /\ Head(reports) = reports[1]
    BY <2>2, <2>3a, HeadTailProperties
  <2>5. \A k \in 1 .. K - (i + 1) : Tail(reports)[k] = Piece(block, (i + 1) + k)
    <3> SUFFICES ASSUME NEW k \in 1 .. K - (i + 1)
                 PROVE  Tail(reports)[k] = Piece(block, (i + 1) + k)
      OBVIOUS
    <3>1. k + 1 \in 1 .. K - i /\ i + (k + 1) = (i + 1) + k
      BY <1>1, <1>3
    <3>. QED  BY <2>3, <2>4, <3>1
  <2>6. Tail(reports) = [k \in 1 .. K - (i + 1) |-> Tail(reports)[k]]
    BY <2>4, LenProperties
  <2>7. Tail(reports) = [k \in 1 .. K - (i + 1) |-> Piece(block, (i + 1) + k)]
    BY <2>5, <2>6
  <2>8. 1 \in 1 .. K - i
    BY <1>1, <1>3, <1>4
  <2>. QED  BY <2>3, <2>4, <2>7, <2>8
<1>7. Head(reports) = Reply(at, size)
  <2>1. 16 * ((i + 1) - 1) = 16 * i
    BY <1>1, <1>3
  <2>. QED  BY <1>6, <2>1 DEF Piece
<1>8. Matches(Head(reports)) /\ Lesser(left, GetSize(Head(reports))) = size
  <2>1. GetAddress(Head(reports)) = cursor % U16 /\ GetSize(Head(reports)) = size
    BY <1>5, <1>7, Recognised
  <2>. QED  BY <1>5, <2>1 DEF Matches, Lesser
<1>9. /\ data' = data \o SubSeq(Head(reports).data, 1, size)
      /\ cursor' = cursor + size /\ left' = left - size
      /\ reports' = Tail(reports) /\ op' = op /\ block' = block
  BY <1>8 DEF HandleReply
<1>10. data' = Memory(a, 16 * i + size)
  <2>1. Head(reports).data = Memory(at, size)
    BY <1>5, <1>7, Recognised
  <2>3. data = Memory(a, 16 * i) /\ 16 * i \in Nat
    <3>1. n - left = 16 * i /\ 16 * i \in Nat
      BY <1>1, <1>3, <1>5
    <3>. QED  BY <1>2, <3>1 DEF ReadInv
  <2> DEFINE m == 16 * i
  <2>4. m \in Nat /\ a \in Nat /\ size \in Nat /\ at = a + m /\ data = Memory(a, m)
    BY <1>1, <1>5, <2>3
  <2>5. data' = data \o SubSeq(Memory(at, size), 1, size)
    BY <1>9, <2>1
  <2> HIDE DEF m, a, at, size
  <2>6. data' = Memory(a, m + size)
    BY <2>4, <2>5, Advance
  <2>. QED  BY <2>6 DEF m
<1>11. /\ left' = n - Lesser(n, 16 * (i + 1)) /\ n - left' = 16 * i + size
       /\ left' \in 0 .. n /\ cursor' = a + (n - left') /\ i + 1 \in 0 .. K
  <2> HIDE DEF a, n, K
  <2>1. i + 1 \in 0 .. K /\ left' = n - 16 * i - size
    BY <1>1, <1>4, <1>5, <1>9, SMT
  <2>2. left' = n - Lesser(n, 16 * (i + 1)) /\ left' \in 0 .. n
    BY <1>1, <1>5, <2>1, SMT DEF Lesser
  <2>3. size \in Nat /\ n - left' = 16 * i + size /\ cursor' = a + (n - left')
    <3> HIDE DEF size
    <3>. QED  BY <1>1, <1>5, <1>9, <2>1, SMT
  <2>. QED  BY <2>1, <2>2, <2>3
<1>12. ReadInv'
  BY <1>6, <1>9, <1>10, <1>11 DEF ReadInv
<1>. QED
  BY <1>2, <1>9, <1>11, <1>12 DEF BlocksInv

\* For the lengths that the loop of write_data() handles, its turns are as many
\* as the acknowledgements awaited, and each of them is full.
LEMMA Turns ==
  ASSUME BlocksInv, WriteInv, NEW m \in 0 .. AckCount(block.len), m < AckCount(block.len),
         left = block.len - 16 * m
  PROVE  LET S == Lesser(block.len, 16)
         IN  /\ S \in Nat /\ S <= left /\ left # 0
             /\ Start(block, m + 1) = cursor
             /\ left - S = IF m + 1 = AckCount(block.len) THEN 0
                           ELSE block.len - 16 * (m + 1)
<1> DEFINE a == block.addr
           n == block.len
           K == AckCount(n)
           S == Lesser(n, 16)
<1>1. /\ a \in Nat /\ n \in Nat /\ n > 0 /\ K \in Nat /\ n <= 16 * K /\ 16 * K < n + 16
      /\ cursor = a + (n - left)
  BY SMT DEF BlocksInv, Blocks24, AckCount, max_write
<1>0. m \in Nat /\ m < K /\ left = n - 16 * m
  BY <1>1
<1>2. CASE n <= 16
  <2>1. S = n
    BY <1>1, <1>2 DEF Lesser
  <2> HIDE DEF K, S
  <2>2. m = 0 /\ K = 1 /\ left = n /\ cursor = a
    <3> HIDE DEF n, a
    <3>. QED  BY <1>0, <1>1, <1>2, SMT
  <2>3. Start(block, m + 1) = cursor
    BY <1>2, <2>2 DEF Start
  <2>4. left - S = 0 /\ S \in Nat /\ S <= left /\ left # 0 /\ m + 1 = K
    <3> HIDE DEF n
    <3>. QED  BY <1>1, <2>1, <2>2
  <2>. QED  BY <2>3, <2>4 DEF K, S
<1>3. CASE ~ (n <= 16)
  <2>1. S = 16
    BY <1>1, <1>3 DEF Lesser
  <2>2. n % 16 = 0
    BY <1>1, <1>3 DEF WriteInv, CutEvenly, max_write
  <2> HIDE DEF K, S
  <2>3. n = 16 * K /\ left = n - 16 * m
    <3> HIDE DEF n
    <3>1. n = 16 * (n \div 16) /\ n \div 16 \in Nat
      BY <1>1, <2>2, SMT
    <3>. QED  BY <1>0, <1>1, <3>1, SMT
  <2>4. Start(block, m + 1) = cursor
    <3>1. Start(block, m + 1) = a + 16 * ((m + 1) - 1)
      BY <1>3 DEF Start
    <3> HIDE DEF n, a
    <3>. QED  BY <1>0, <1>1, <2>3, <3>1, SMT
  <2>5. /\ S \in Nat /\ S <= left /\ left # 0 /\ left - S = n - 16 * (m + 1)
        /\ m + 1 = K => left - S = 0
    <3>1. left - S = n - 16 * (m + 1) /\ S \in Nat /\ left # 0
      <4> HIDE DEF n
      <4>. QED  BY <1>0, <1>1, <2>1, <2>3, SMT
    <3>2. S <= left
      <4> HIDE DEF n
      <4>. QED  BY <1>0, <1>1, <2>1, <2>3, SMT
    <3>3. m + 1 = K => n - 16 * (m + 1) = 0
      <4> HIDE DEF n
      <4>. QED  BY <1>0, <1>1, <2>3, SMT
    <3>. QED  BY <3>1, <3>2, <3>3
  <2>. QED  BY <2>4, <2>5 DEF K, S
<1>. QED  BY <1>2, <1>3

\* A turn of the loop posts the next write report.
LEMMA Writes ==
  ASSUME BlocksInv, WritePiece
  PROVE  BlocksInv'
<1> DEFINE a == block.addr
           n == block.len
           K == AckCount(n)
           S == Lesser(n, 16)
           Parts == {WritePart(block, k) : k \in Nat}
<1>1. /\ a \in Nat /\ n \in Nat /\ n > 0 /\ K \in Nat
      /\ cursor = a + (n - left) /\ left \in 0 .. n
  BY SMT DEF BlocksInv, Blocks24, AckCount, max_write
<1>2. op = "write" /\ WriteInv /\ left # 0
  BY DEF BlocksInv, WritePiece
<1>3. PICK m \in 0 .. K :
        /\ left = IF m = K THEN 0 ELSE n - 16 * m
        /\ reports = [k \in 1 .. m |-> WritePart(block, k)]
  BY <1>2 DEF WriteInv
<1>4. m < K /\ left = n - 16 * m
  BY <1>1, <1>2, <1>3
<1>5. /\ S \in Nat /\ S <= left /\ Start(block, m + 1) = cursor
      /\ left - S = IF m + 1 = K THEN 0 ELSE n - 16 * (m + 1)
  BY <1>2, <1>3, <1>4, Turns
<1>6. SubSeq(Memory(a, n), (n - left) + 1, (n - left) + S) = Memory(a + (n - left), S)
  <2> DEFINE at == n - left
  <2>1. at \in Nat /\ at + S <= n
    <3> HIDE DEF S, n
    <3>. QED  BY <1>1, <1>5
  <2> HIDE DEF at, S, a, n
  <2>2. SubSeq(Memory(a, n), at + 1, at + S) = Memory(a + at, S)
    <3>1. \A t, size \in Nat :
            t + size <= n => SubSeq(Memory(a, n), t + 1, t + size) = Memory(a + t, size)
      BY <1>1, Within
    <3>. QED  BY <1>5, <2>1, <3>1
  <2>. QED  BY <2>2 DEF at
<1>7. /\ reports' = Append(reports, WritePart(block, m + 1))
      /\ left' = left - S /\ cursor' = cursor + S
      /\ op' = op /\ block' = block
  <2>1. WritePart(block, m + 1) =
          [address |-> SetAddress(cursor), size |-> S,
           data |-> SubSeq(Memory(a, n), (n - left) + 1, (n - left) + S)]
    BY <1>1, <1>5, <1>6 DEF WritePart
  <2>. QED  BY <2>1, Zenon DEF WritePiece, max_write
<1>8. reports' = [k \in 1 .. m + 1 |-> WritePart(block, k)]
  <2>0. m \in Nat /\ m + 1 \in Nat
    BY <1>1, <1>3
  <2>1. \A k \in 1 .. m + 1 : WritePart(block, k) \in Parts
    BY <2>0
  <2> DEFINE w == WritePart(block, m + 1)
             t == [k \in 1 .. m + 1 |-> WritePart(block, k)]
  <2>2. w \in Parts
    BY <2>0
  <2> HIDE DEF Parts
  <2>3. reports \in Seq(Parts) /\ Len(reports) = m /\ \A k \in 1 .. m : reports[k] = WritePart(block, k)
    BY <1>3, <2>0, <2>1
  <2>4. t \in Seq(Parts) /\ Len(t) = m + 1 /\ \A k \in 1 .. m + 1 : t[k] = WritePart(block, k)
    BY <2>0, <2>1
  <2>5. t[m + 1] = w
    BY <2>0, <2>4
  <2> HIDE DEF w, t
  <2>6. /\ Append(reports, w) \in Seq(Parts) /\ Len(Append(reports, w)) = m + 1
        /\ \A k \in 1 .. m : Append(reports, w)[k] = reports[k]
        /\ Append(reports, w)[m + 1] = w
    BY <2>0, <2>2, <2>3, AppendProperties
  <2>7. \A k \in 1 .. m + 1 : Append(reports, w)[k] = t[k]
    BY <2>0, <2>3, <2>4, <2>5, <2>6
  <2>8. Append(reports, w) = t
    BY <2>4, <2>6, <2>7, SeqEqual
  <2>. QED  BY <1>7, <2>8 DEF w, t
<1>9. m + 1 \in 0 .. K /\ left' \in 0 .. n /\ cursor' = a + (n - left')
  <2> HIDE DEF K, S, a, n
  <2>. QED  BY <1>1, <1>3, <1>4, <1>5, <1>7
<1>10. WriteInv'
  BY <1>2, <1>5, <1>7, <1>8, <1>9 DEF WriteInv
<1>. QED
  BY <1>2, <1>7, <1>9, <1>10 DEF BlocksInv

\* The invariant holds of every behaviour.
LEMMA BlocksInvariant == BlockSpec => []BlocksInv
<1>1. BlocksInv /\ [BlockNext]_blockVars => BlocksInv'
  <2> SUFFICES ASSUME BlocksInv, [BlockNext]_blockVars PROVE BlocksInv'
    OBVIOUS
  <2>1. CASE HandleReply
    BY <2>1, Reads
  <2>2. CASE WritePiece
    BY <2>2, Writes
  <2>3. CASE UNCHANGED blockVars
    BY <2>3 DEF blockVars, BlocksInv, ReadInv, WriteInv
  <2>. QED  BY <2>1, <2>2, <2>3 DEF BlockNext, Done
<1>. QED  BY <1>1, Begins, PTL DEF BlockSpec

-----------------------------------------------------------------------------
(* What follows from the invariant *)

\* The numbers that a report holds are bytes.
LEMMA AreBytes ==
  ASSUME NEW x \in Nat
  PROVE  /\ \A k \in DOMAIN SetAddress(x) : SetAddress(x)[k] \in 0 .. U8 - 1
         /\ \A k \in {1, 2} : <<(x \div U8) % U8, x % U8>>[k] \in 0 .. U8 - 1
<1>1. /\ (x \div 65536) % 256 \in 0 .. 255 /\ (x \div 256) % 256 \in 0 .. 255
      /\ x % 256 \in 0 .. 255
  BY SMT
<1>2. DOMAIN SetAddress(x) = {1, 2, 3}
  BY SMT DEF SetAddress
<1>. QED  BY <1>1, <1>2, SMT DEF SetAddress, U8, U16

\* What has been done and what is left make up the block, and every number fits
\* the field or variable that holds it: wiimote::read_data(), write_data() and
\* the setters of report.h.
THEOREM Fitting == BlockSpec => []FieldsFit
<1>1. BlocksInv => FieldsFit
  <2> SUFFICES ASSUME BlocksInv PROVE FieldsFit
    OBVIOUS
  <2> DEFINE a == block.addr
             n == block.len
             K == AckCount(n)
  <2>1. /\ a \in Nat /\ n \in Nat /\ n > 0 /\ n < U16 /\ a + n <= U24 /\ K \in Nat
        /\ n <= 16 * K /\ 16 * K < n + 16
        /\ left \in 0 .. n /\ cursor = a + (n - left)
    BY SMT DEF BlocksInv, Blocks24, AckCount, max_write
  <2>2. U16 \in Nat /\ U24 \in Nat
    BY SMT DEF U16, U24
  <2>3. cursor - a = n - left /\ left \in 0 .. U16 - 1 /\ cursor \in 0 .. U24
    <3> HIDE DEF a, n
    <3>. QED  BY <2>1, <2>2
  <2>4. op = "read" => Len(data) = n - left
    <3> SUFFICES ASSUME op = "read" PROVE Len(data) = n - left
      OBVIOUS
    <3>1. data = [i \in 1 .. n - left |-> a + (i - 1)] /\ n - left \in Nat
      BY <2>1 DEF BlocksInv, ReadInv, Memory
    <3>. QED  BY <3>1
  <2>5. ASSUME NEW i \in DOMAIN reports
        PROVE  /\ \A k \in DOMAIN reports[i].address : reports[i].address[k] \in 0 .. U8 - 1
               /\ reports[i].size \in 0 .. 16
    <3>1. CASE op = "read"
      <4>1. PICK j \in 0 .. K : reports = [k \in 1 .. K - j |-> Piece(block, j + k)]
        BY <3>1 DEF BlocksInv, ReadInv
      <4> DEFINE at == a + 16 * ((j + i) - 1)
                 size == Lesser(16, n - 16 * ((j + i) - 1))
      <4>2. i \in 1 .. K - j /\ reports[i] = Reply(at, size)
        BY <4>1 DEF Piece
      <4>3. at \in Nat /\ size - 1 \in 0 .. 16
        <5>1. (j + i) - 1 \in Nat /\ (j + i) - 1 < K
          BY <2>1, <4>2
        <5> HIDE DEF K, n, a
        <5>2. at \in Nat /\ n - 16 * ((j + i) - 1) > 0
          BY <2>1, <5>1, SMT
        <5>. QED  BY <2>1, <5>1, <5>2, SMT DEF Lesser
      <4> HIDE DEF at, size
      <4>4. /\ reports[i].size = size - 1
            /\ reports[i].address = <<(at \div U8) % U8, at % U8>>
        BY <4>2 DEF Reply
      <4>5. DOMAIN reports[i].address = {1, 2}
        BY <4>4
      <4>. QED  BY <4>3, <4>4, <4>5, AreBytes
    <3>2. CASE op = "write"
      <4>1. PICK m \in 0 .. K : reports = [k \in 1 .. m |-> WritePart(block, k)]
        BY <3>2 DEF BlocksInv, WriteInv
      <4>2. /\ i \in 1 .. m
            /\ reports[i].address = SetAddress(Start(block, i))
            /\ reports[i].size = Lesser(n, 16)
        BY <4>1 DEF WritePart
      <4>3. Start(block, i) \in Nat /\ Lesser(n, 16) \in 0 .. 16
        BY <2>1, <4>2 DEF Start, Lesser
      <4>. QED  BY <4>2, <4>3, AreBytes
    <3>. QED  BY <3>1, <3>2 DEF BlocksInv
  <2>. QED  BY <2>3, <2>4, <2>5 DEF FieldsFit
<1>. QED  BY <1>1, BlocksInvariant, PTL

\* The reply handler recognises each piece of its block and ends with the bytes
\* that were asked for, no reply left over: read_reply_handler::handle_report().
THEOREM Collecting == BlockSpec => []ReadCollects
<1>1. BlocksInv => ReadCollects
  <2> SUFFICES ASSUME BlocksInv, op = "read" PROVE ReadCollects
    BY DEF ReadCollects
  <2> DEFINE n == block.len
             K == AckCount(n)
  <2>1. n \in Nat /\ n > 0 /\ K \in Nat /\ n <= 16 * K /\ 16 * K < n + 16
    BY SMT DEF BlocksInv, Blocks24, AckCount, max_write
  <2>2. data = Memory(block.addr, n - left)
    BY DEF BlocksInv, ReadInv
  <2>3. PICK i \in 0 .. K :
          /\ left = n - Lesser(n, 16 * i)
          /\ reports = [k \in 1 .. K - i |-> Piece(block, i + k)]
    BY DEF BlocksInv, ReadInv
  <2>4. left = 0 <=> i = K
    <3> HIDE DEF n, K
    <3>. QED  BY <2>1, <2>3, SMT DEF Lesser
  <2>5. reports = <<>> <=> i = K
    <3>1. i = K => reports = <<>>
      BY <2>1, <2>3
    <3>2. i # K => 1 \in DOMAIN reports
      BY <2>1, <2>3
    <3>3. 1 \notin DOMAIN <<>>
      OBVIOUS
    <3>. QED  BY <3>1, <3>2, <3>3
  <2>6. left = 0 => data = Memory(block.addr, n)
    BY <2>1, <2>2
  <2>. QED  BY <2>4, <2>5, <2>6 DEF ReadCollects
<1>. QED  BY <1>1, BlocksInvariant, PTL

\* When the loop of write_data() has ended, its reports set every byte of the
\* block once and nothing else, and are as many as the acknowledgements awaited.
THEOREM Covering == BlockSpec => []WriteCovers
<1>1. BlocksInv => WriteCovers
  <2> SUFFICES ASSUME BlocksInv, op = "write", left = 0 PROVE WriteCovers
    BY DEF WriteCovers
  <2> DEFINE a == block.addr
             n == block.len
             K == AckCount(n)
             S == Lesser(n, 16)
  <2>1. /\ a \in Nat /\ n \in Nat /\ n > 0 /\ K \in Nat /\ a + n <= U24
        /\ n <= 16 * K /\ 16 * K < n + 16
    BY SMT DEF BlocksInv, Blocks24, AckCount, max_write
  <2>2. U24 \in Nat
    BY SMT DEF U24
  <2>3. reports = [k \in 1 .. K |-> WritePart(block, k)]
    <3>1. PICK m \in 0 .. K :
            /\ left = IF m = K THEN 0 ELSE n - 16 * m
            /\ reports = [k \in 1 .. m |-> WritePart(block, k)]
      BY DEF BlocksInv, WriteInv
    <3>2. m = K
      <4>1. m # K => left # 0
        <5> HIDE DEF n, K
        <5>. QED  BY <2>1, <3>1, SMT
      <4>. QED  BY <4>1
    <3>. QED  BY <3>1, <3>2
  <2>4. S \in 1 .. 16
    BY <2>1 DEF Lesser
  <2>5. \/ n <= 16 /\ K = 1 /\ S = n
        \/ n > 16 /\ n = 16 * K /\ S = 16
    <3>1. CASE n <= 16
      <4> HIDE DEF K
      <4>1. K = 1
        <5> HIDE DEF n
        <5>. QED  BY <2>1, <3>1, SMT
      <4>. QED  BY <2>1, <3>1, <4>1 DEF Lesser
    <3>2. CASE n > 16
      <4>1. n % 16 = 0
        BY <2>1, <3>2 DEF BlocksInv, WriteInv, CutEvenly, max_write
      <4>2. n = 16 * K
        <5> HIDE DEF n, K
        <5>1. n = 16 * (n \div 16) /\ n \div 16 \in Nat
          BY <2>1, <4>1, SMT
        <5>. QED  BY <2>1, <5>1, SMT
      <4>. QED  BY <2>1, <3>2, <4>2 DEF Lesser
    <3>. QED  BY <2>1, <3>1, <3>2
  <2>6. \A k \in 1 .. K :
          /\ Start(block, k) = a + S * (k - 1)
          /\ Start(block, k) \in Nat /\ Start(block, k) + S <= a + n
    BY <2>1, <2>5 DEF Start
  <2>7. DOMAIN reports = 1 .. K /\ Len(reports) = K
    BY <2>1, <2>3
  <2>8. \A k \in 1 .. K :
          /\ reports[k].size = S
          /\ Address(reports[k].address) = Start(block, k)
          /\ reports[k].data = Memory(Start(block, k), S)
    <3>1. \A k \in 1 .. K : Start(block, k) < U24
      BY <2>1, <2>2, <2>4, <2>6
    <3>. QED  BY <2>3, <2>6, <3>1, Decoded DEF WritePart
  <2>9. \A k \in 1 .. K : Written(reports[k]) = Start(block, k) .. Start(block, k) + S - 1
    BY <2>8 DEF Written
  <2>10. ASSUME NEW x \in a .. a + n - 1
         PROVE  \E k \in 1 .. K : x \in Written(reports[k])
    <3> HIDE DEF a, n, K, S
    <3>1. CASE n <= 16 /\ K = 1 /\ S = n
      <4>1. 1 \in 1 .. K /\ Start(block, 1) = a
        BY <2>1, <2>4, <2>6, <3>1
      <4>. QED  BY <2>9, <3>1, <4>1
    <3>2. CASE n > 16 /\ n = 16 * K /\ S = 16
      <4> DEFINE q == (x - a) \div 16
      <4>1. q \in Nat /\ 16 * q <= x - a /\ x - a < 16 * q + 16
        BY <2>1, SMT
      <4> HIDE DEF q
      <4>2. q + 1 \in 1 .. K
        BY <2>1, <3>2, <4>1
      <4>3. Start(block, q + 1) = a + 16 * q
        BY <2>1, <2>6, <3>2, <4>1, <4>2
      <4>4. x \in a + 16 * q .. a + 16 * q + 16 - 1
        BY <2>1, <4>1
      <4>. QED  BY <2>9, <3>2, <4>2, <4>3, <4>4
    <3>. QED  BY <2>5, <3>1, <3>2
  <2>11. \A k \in 1 .. K : Written(reports[k]) \subseteq a .. a + n - 1
    <3> HIDE DEF a, n, K, S
    <3>1. \A k \in 1 .. K : a <= Start(block, k)
      <4>1. \A k \in 1 .. K : S * (k - 1) >= 0
        BY <2>1, <2>4, <2>5
      <4>. QED  BY <2>1, <2>4, <2>6, <4>1
    <3>2. ASSUME NEW k \in 1 .. K PROVE Written(reports[k]) \subseteq a .. a + n - 1
      <4> DEFINE b == Start(block, k)
      <4>1. b \in Nat /\ a <= b /\ b + S <= a + n /\ Written(reports[k]) = b .. b + S - 1
        BY <2>6, <2>9, <3>1
      <4> HIDE DEF b
      <4>2. b .. b + S - 1 \subseteq a .. a + n - 1
        BY <2>1, <2>4, <4>1
      <4>. QED  BY <4>1, <4>2
    <3>. QED  BY <3>2
  <2>12. \A i, j \in 1 .. K : i # j => Written(reports[i]) \cap Written(reports[j]) = {}
    <3> HIDE DEF a, n, K, S
    <3>1. CASE K = 1
      BY <3>1
    <3>2. CASE S = 16
      <4>1. \A i, j \in 1 .. K : i < j => Start(block, i) + S <= Start(block, j)
        BY <2>1, <2>6, <3>2
      <4>2. ASSUME NEW i \in 1 .. K, NEW j \in 1 .. K, i < j
            PROVE  Written(reports[i]) \cap Written(reports[j]) = {}
        BY <2>1, <2>4, <2>6, <2>9, <4>1, <4>2
      <4>3. \A i, j \in 1 .. K : i # j => i < j \/ j < i
        BY <2>1
      <4>. QED  BY <4>2, <4>3
    <3>. QED  BY <2>5, <3>1, <3>2
  <2>13. UNION {Written(reports[i]) : i \in DOMAIN reports} = a .. a + n - 1
    BY <2>7, <2>10, <2>11
  <2>. QED  BY <2>4, <2>7, <2>8, <2>12, <2>13 DEF WriteCovers
<1>. QED  BY <1>1, BlocksInvariant, PTL

=============================================================================

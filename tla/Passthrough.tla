---------------------------- MODULE Passthrough ------------------------------
(***************************************************************************)
(* undo_mp_passthrough() (wiimoteio/extension.h), which puts the bits of   *)
(* extension data back in their places after a Motion Plus has passed the  *)
(* data through.  It is a list of moves, executed one after the other in   *)
(* place, so a move must not come before one that still needs its target.  *)
(*                                                                         *)
(* A bit is <<byte, number>>; passed is the set of bits that are set.  What  *)
(* the Motion Plus does is external.                                       *)
(*                                                                         *)
(* A definition with a suffix after "_" is a mistaken form of the one that *)
(* follows it; no specification uses it, and a property fails with it.     *)
(***************************************************************************)
EXTENDS Naturals, Sequences

CONSTANT ExtBits  \* bits of the extension's data that may be set

VARIABLES
  mode,      \* gyro mode: 5 for a Nunchuk, 7 for other extensions
  original,  \* the extension's data
  passed,    \* _data
  next       \* the move to be made

extensionVars == <<mode, original, passed, next>>

\* set_bit(to, get_bit(from)) and, where the code does so, set_bit(from, false)
Move(from, to) == [from |-> from, to |-> to, clear |-> TRUE]
CopyBit(from, to) == [from |-> from, to |-> to, clear |-> FALSE]
None == <<0, 8>>  \* a bit that is never set

Moves_HighFirst(m) ==
  IF m = 5
  THEN <<Move(<<5, 2>>, <<5, 0>>), Move(<<5, 4>>, <<5, 3>>), CopyBit(<<5, 3>>, <<5, 1>>),
         CopyBit(<<5, 7>>, <<4, 0>>), Move(<<5, 6>>, <<5, 7>>)>>
  ELSE <<Move(<<0, 0>>, <<5, 0>>), Move(<<1, 0>>, <<5, 1>>), CopyBit(None, <<4, 0>>)>>

Moves(m) ==
  IF m = 5
  THEN <<Move(<<5, 2>>, <<5, 0>>), CopyBit(<<5, 3>>, <<5, 1>>), Move(<<5, 4>>, <<5, 3>>),
         CopyBit(<<5, 7>>, <<4, 0>>), Move(<<5, 6>>, <<5, 7>>)>>
  ELSE <<Move(<<0, 0>>, <<5, 0>>), Move(<<1, 0>>, <<5, 1>>), CopyBit(None, <<4, 0>>)>>

-----------------------------------------------------------------------------
(* The Motion Plus: where it sends a bit of the extension's data, and what   *)
(* it has no room for.  Bits 0 and 1 of byte 5 are 0 and bit 0 of byte 4     *)
(* says whether an extension is plugged in.                                  *)

Sent(m) ==
  IF m = 5
  THEN [b \in {<<5, 0>>, <<5, 1>>, <<5, 3>>, <<5, 7>>, <<4, 0>>} |->
          CASE b = <<5, 0>> -> <<5, 2>>
            [] b = <<5, 1>> -> <<5, 3>>
            [] b = <<5, 3>> -> <<5, 4>>
            [] b = <<5, 7>> -> <<5, 6>>
            [] b = <<4, 0>> -> <<5, 7>>]
  ELSE [b \in {<<5, 0>>, <<5, 1>>} |-> IF b = <<5, 0>> THEN <<0, 0>> ELSE <<1, 0>>]

Lost(m) == IF m = 5 THEN {<<5, 2>>, <<5, 4>>, <<5, 6>>} ELSE {<<0, 0>>, <<1, 0>>, <<4, 0>>}

PassedThrough(m, d) ==
  {IF b \in DOMAIN Sent(m) THEN Sent(m)[b] ELSE b : b \in d \ Lost(m)}

-----------------------------------------------------------------------------

ExtensionInit ==
  /\ mode \in {5, 7}
  /\ original \in SUBSET (ExtBits \cap ((0 .. 5) \X (0 .. 7)))
  /\ \E attached \in SUBSET {<<4, 0>>} : passed = PassedThrough(mode, original) \cup attached
  /\ next = 1

SetBit(d, b, on) == IF on THEN d \cup {b} ELSE d \ {b}

MoveBit ==
  /\ next <= Len(Moves(mode))
  /\ LET m == Moves(mode)[next]
         moved == SetBit(passed, m.to, m.from \in passed)
     IN  passed' = IF m.clear THEN SetBit(moved, m.from, FALSE) ELSE moved
  /\ next' = next + 1
  /\ UNCHANGED <<mode, original>>

Moved == next > Len(Moves(mode)) /\ UNCHANGED extensionVars

ExtensionNext == MoveBit \/ Moved

ExtensionSpec == ExtensionInit /\ [][ExtensionNext]_extensionVars

-----------------------------------------------------------------------------

\* The extension's data is restored, but for the bits that were not passed on,
\* which are 0, whatever the flag of the Motion Plus was.
Restored == next > Len(Moves(mode)) => passed = original \ Lost(mode)

=============================================================================

---------------------------- MODULE ButtonState ------------------------------
(***************************************************************************)
(* The word of core buttons that wio::wiimote shares between two threads   *)
(* without a lock (wiimoteio/wiimote.h): the reader thread rewrites it     *)
(* with handle_button_data_report(), an application thread reads it        *)
(* through the reference that get_input_button() returns.                  *)
(*                                                                         *)
(* A word is the set of the numbers of its bits that are set.  The stores  *)
(* of the handler are steps of their own, as a plain variable lets the     *)
(* reading thread see them; a compiler that joins two of them only takes   *)
(* values away from what can be read.                                      *)
(*                                                                         *)
(* A definition with a suffix after "_" is a mistaken form of the one that *)
(* follows it; no specification uses it, and a property fails with it.     *)
(***************************************************************************)
EXTENDS Naturals

CONSTANTS
  Bits,  \* the bits of a report that may be set, of 0..15
  Ext21  \* the id of the one input report that carries no buttons, 0x3d

ASSUME BitsAssumption == Bits \subseteq 0 .. 15
ASSUME Ext21Assumption == Ext21 \in Nat

VARIABLES
  pc,      \* where the reader is in the handler
  report,  \* the input report it was called with
  button,  \* m_input_state.button
  last,    \* the buttons of the report handled before, {Unset} if there is none
  seen     \* what the application read last

vars == <<pc, report, button, last, seen>>

Unset == 16

LowByte == 0 .. 7
HighByte == 8 .. 15

\* 0x9f << 0 and 0x9f << 8: bits 5 and 6 of a byte belong to the accelerometer.
Mask == (LowByte \ {5, 6}) \cup (HighByte \ {13, 14})

\* An input report, as its id and the two bytes after the id; it always comes in
\* a buffer of the largest size.
Reports == [id : {Ext21, Ext21 - 1}, button : SUBSET Bits]

\* handle_button_data_report() leaves any other report alone.
CarriesButtons(r) == r.id # Ext21

Pressed(r) == r.button \cap Mask

Init ==
  /\ pc = "idle"
  /\ report = [id |-> Ext21, button |-> {}]
  /\ button \in SUBSET Bits  \* m_input_state is not initialized
  /\ last = {Unset}
  /\ seen = {}

\* The reader offers a report to the handler.
Offer ==
  /\ pc = "idle"
  /\ report' \in Reports
  /\ pc' = "test"
  /\ UNCHANGED <<button, last, seen>>

Skip ==
  /\ pc = "test" /\ ~CarriesButtons(report)
  /\ pc' = "idle"
  /\ UNCHANGED <<report, button, last, seen>>

Clear_Kept ==
  /\ pc = "test" /\ CarriesButtons(report)
  /\ pc' = "low"
  /\ UNCHANGED <<report, button, last, seen>>

\* button = 0
Clear ==
  /\ pc = "test" /\ CarriesButtons(report)
  /\ button' = {}
  /\ pc' = "low"
  /\ UNCHANGED <<report, last, seen>>

\* button |= (_rpt[2] & 0x9f) << 0x0
OrLow ==
  /\ pc = "low"
  /\ button' = button \cup (Pressed(report) \cap LowByte)
  /\ pc' = "high"
  /\ UNCHANGED <<report, last, seen>>

OrHigh_Unmasked ==
  /\ pc = "high"
  /\ button' = button \cup (report.button \cap HighByte)
  /\ last' = Pressed(report)
  /\ pc' = "idle"
  /\ UNCHANGED <<report, seen>>

\* button |= (_rpt[3] & 0x9f) << 0x8
OrHigh ==
  /\ pc = "high"
  /\ button' = button \cup (Pressed(report) \cap HighByte)
  /\ last' = Pressed(report)
  /\ pc' = "idle"
  /\ UNCHANGED <<report, seen>>

\* The application reads through the reference it was given.
Poll == seen' = button /\ UNCHANGED <<pc, report, button, last>>

Next == Offer \/ Skip \/ Clear \/ OrLow \/ OrHigh \/ Poll

Spec == Init /\ [][Next]_vars

-----------------------------------------------------------------------------

\* The state is well formed; with it, nothing but the mask's bits is in the
\* word once a report was handled.
TypeOK ==
  /\ pc \in {"idle", "test", "low", "high"}
  /\ report \in Reports
  /\ button \in SUBSET Bits /\ seen \in SUBSET Bits
  /\ last \in (SUBSET (Bits \cap Mask)) \cup {{Unset}}
  /\ pc = "idle" /\ last # {Unset} => button = last

\* The application never reads a button that is down neither in the report
\* being handled nor in the one before it: not a bit of the accelerometer, not
\* a byte of an extension, not a button released earlier.
NoPhantomPress ==
  [][last # {Unset} /\ seen' # seen
       => seen' \subseteq IF pc \in {"low", "high"} THEN Pressed(report) ELSE last]_vars

\* wiimote.h:379: the word that is read is that of one report.
ButtonAtomic ==
  [][last # {Unset} /\ seen' # seen => seen' \in {last, Pressed(report)}]_vars

=============================================================================

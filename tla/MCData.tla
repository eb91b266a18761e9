------------------------------- MODULE MCData --------------------------------
(***************************************************************************)
(* Three parts of the code that read or write data, and share none, in one *)
(* run: the word of buttons, the blocks of the remote's memory, and the    *)
(* data of an extension behind a Motion Plus.  A behaviour is about one of *)
(* them and leaves the others as they are.                                 *)
(***************************************************************************)
EXTENDS ButtonState, Blocks, Passthrough

VARIABLE subject  \* "buttons", "memory" or "extension"

\* In each byte one button and one bit of the accelerometer.
MCBits == {3, 5, 11, 14}

\* Calibration, extension and speaker registers of wiimote.h, addresses just below a
\* multiple of 0x10000, and the end of the address space.
MCAddresses ==
  {22, 10748145, 10879226, 10616833, 65535, 65520, 10944505, U24 - 300, U24 - 16}

MCReadLengths == (1 .. 40) \cup {255, 256, 300}

MCWriteLengths == (1 .. 16) \cup {32, 48, 256}

\* The bits that are moved, and some that are not.
MCExtBits == {<<0, 0>>, <<1, 0>>, <<4, 0>>, <<4, 1>>} \cup ({5} \X (0 .. 7))

NoButtons ==
  /\ pc = "idle" /\ report = [id |-> Ext21, button |-> {}]
  /\ button = {} /\ last = {Unset} /\ seen = {}

NoBlock ==
  /\ op = "none" /\ block = [addr |-> 0, len |-> 0] /\ cursor = 0 /\ left = 0
  /\ data = <<>> /\ reports = <<>>

NoExtension == mode = 5 /\ original = {} /\ passed = {} /\ next = 6

DataInit ==
  \/ subject = "buttons" /\ Init /\ NoBlock /\ NoExtension
  \/ subject = "memory" /\ NoButtons /\ BlockInit /\ NoExtension
  \/ subject = "extension" /\ NoButtons /\ NoBlock /\ ExtensionInit

DataNext ==
  /\ UNCHANGED subject
  /\ \/ subject = "buttons" /\ Next /\ UNCHANGED <<blockVars, extensionVars>>
     \/ subject = "memory" /\ BlockNext /\ UNCHANGED <<vars, extensionVars>>
     \/ subject = "extension" /\ ExtensionNext /\ UNCHANGED <<vars, blockVars>>

DataSpec == DataInit /\ [][DataNext]_<<subject, vars, blockVars, extensionVars>>

=============================================================================

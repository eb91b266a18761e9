------------------------------ MODULE MCWiimote ------------------------------
(* Model values and small memories for the runs of Wiimote. *)
EXTENDS Wiimote

CONSTANTS c1, c2, rd

OneCaller == {c1}
TwoCallers == {c1, c2}

\* Two bytes to a report and eight addresses that a reply can tell apart: the
\* calibration block takes two reports, the identifications one each.
MCCalibration == [addr |-> 1, len |-> 3]
MCExtId == [addr |-> 12, len |-> 1]
MCExtInit == <<[addr |-> 10, len |-> 1], [addr |-> 11, len |-> 1]>>
MCExtSpace == {10, 11, 12, 28}
\* Like 0xa400fa and 0xa600fa in wiimote.h, the addresses of the identifications
\* agree in their low part, with 8 low addresses and with 16.
MCGyroId == [addr |-> 28, len |-> 1]

NoBlocks == {}
TwoPieces == {[addr |-> 30, len |-> 4]}
\* Its low addresses go past the last one and differ from those of the other blocks.
CrossingPieces == {[addr |-> 45, len |-> 4]}
TwoLeds == {1, 2}
NoLeds == {}
ShortExtInit == <<[addr |-> 10, len |-> 1]>>
NoFeatures == {}
AccelAndExt == {"report_accel", "report_ext"}
AccelOnly == {"report_accel"}
=============================================================================

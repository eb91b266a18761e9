---------------------------- MODULE MCButtonState ----------------------------
(* Bits for the runs of ButtonState. *)
EXTENDS ButtonState

\* In each byte one button and one bit of the accelerometer.
MCBits == {3, 5, 11, 14}
=============================================================================

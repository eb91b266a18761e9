------------------------------ MODULE MCSpeaker ------------------------------
(* Values for the run of Speaker. *)
EXTENDS Speaker

CONSTANTS one, two

MCStreams == {one, two}

\* A full packet and a short one; a single short packet.
MCLength == [s \in MCStreams |-> IF s = one THEN 25 ELSE 12]
=============================================================================

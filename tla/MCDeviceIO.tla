----------------------------- MODULE MCDeviceIO ------------------------------
(* Values for the run of DeviceIO. *)
EXTENDS DeviceIO

CONSTANTS job, speaker

MCWriters == {job, speaker}
=============================================================================

---------------------------- MODULE MCProbeStatus ----------------------------
(* Small instances of ProbeStatus.                                           *)
EXTENDS ProbeStatus

CONSTANTS gone, none
=============================================================================

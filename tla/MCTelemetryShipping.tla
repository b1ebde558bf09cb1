------------------------ MODULE MCTelemetryShipping ------------------------
(* Instances of TelemetryShipping for TLC.                                 *)
EXTENDS TelemetryShipping

CONSTANTS c1, c2
=============================================================================

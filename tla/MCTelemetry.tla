---------------------------- MODULE MCTelemetry ----------------------------
(* The telemetry client for TLC: a channel of two, batches of two, and up  *)
(* to four events, so that a batch fills, the channel overflows while the  *)
(* worker is in a POST, and an incomplete batch is left.                   *)
EXTENDS Telemetry
=============================================================================

---------------------------- MODULE MCStopwatch -----------------------------
(* Stopwatch with small units: a tick of 2.5 microseconds and a            *)
(* millisecond of 4, so that ticks, microseconds and milliseconds never    *)
(* line up.                                                                *)
EXTENDS Stopwatch
=============================================================================

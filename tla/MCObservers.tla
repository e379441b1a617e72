---------------------------- MODULE MCObservers -----------------------------
(* Observers with one more value and one more sleep than the sample.       *)
EXTENDS Observers

MCPauses == {1, 3}
=============================================================================

---------------------------- MODULE MCTypeState -----------------------------
(* TypeState with as many objects as the sample's main has, and symmetry.  *)
EXTENDS TypeState, TLC

Symmetry == Permutations(Handles)
=============================================================================

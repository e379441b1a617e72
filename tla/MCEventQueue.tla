---------------------------- MODULE MCEventQueue ----------------------------
(* EventQueue with the sample's two to one of the sleeps, in ticks of 100  *)
(* ms, and a queue that is soon full.                                      *)
EXTENDS EventQueue
=============================================================================

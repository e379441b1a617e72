--------------------------- MODULE MCActiveObject ---------------------------
(* ActiveObject with a patient and a hasty client, and a queue with a      *)
(* place for each call that can be under way.                              *)
EXTENDS ActiveObject
=============================================================================

--------------------------- MODULE MCRequestReply ---------------------------
(* RequestReply with two modules, as in the sample, and short queues.      *)
EXTENDS RequestReply
=============================================================================

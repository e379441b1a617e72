----------------------------- MODULE MCBootCount -----------------------------
(* BootCount for TLC: bytes of four values, so that the counter wraps, and *)
(* a pattern just long enough for its three kinds of bytes.                *)
EXTENDS BootCount
=============================================================================

----------------------------- MODULE IStopwatch -----------------------------
(***************************************************************************)
(* What a user of IStopwatch (include/stopwatch.hpp) is promised, in the   *)
(* unit of get_time: the reading runs up while the stopwatch runs, stands  *)
(* still while it is paused, is not disturbed by pausing and resuming, and *)
(* falls only to the reading of the last pause (start while running) or to *)
(* zero (reset).                                                           *)
(***************************************************************************)
EXTENDS Naturals

VARIABLES
    reading,    \* what get_time returns
    running,    \* not paused
    mark        \* the reading kept by the last pause or reset

vars == <<reading, running, mark>>

Init == reading \in Nat /\ running = TRUE /\ mark = 0

\* Time passes; only a running stopwatch notices.
Pass == running /\ reading' \in Nat /\ reading' >= reading /\ UNCHANGED <<running, mark>>

Start == running' = TRUE /\ reading' = mark /\ UNCHANGED mark

Pause == running' = FALSE /\ mark' = reading /\ UNCHANGED reading

Reset == running' = TRUE /\ reading' = 0 /\ mark' = 0

Next == Pass \/ Start \/ Pause \/ Reset

Spec == Init /\ [][Next]_vars
=============================================================================

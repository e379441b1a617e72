----------------------------- MODULE MCPassive ------------------------------
(* The components that act only when they are called, for TLC: Stopwatch,  *)
(* TypeState, LoadCell and ErrorCodes.  They share no state, so a run uses *)
(* one of them, and the others stay in one initial state.                  *)
(*                                                                         *)
(* The stopwatch has a tick of 2.5 microseconds and a millisecond of 4, so *)
(* that ticks, microseconds and milliseconds never line up.  TypeState has *)
(* as many objects as the sample's main, LoadCell three threads and a      *)
(* negative raw value, ErrorCodes all numbers up to one beyond the last.   *)
EXTENDS Stopwatch, TypeState, LoadCell, ErrorCodes, TLC

VARIABLE part   \* the component in use

MCLoads == {-1, 2, 5}
Symmetry == Permutations(Handles) \cup Permutations(Threads)

MCInit ==
    /\ part \in {"stopwatch", "type_state", "load_cell", "error_codes"}
    /\ Init /\ (part # "stopwatch" => ticks = 0)
    /\ PinInit /\ (part # "type_state" => mode = "input" /\ level = "low")
    /\ CellInit /\ (part # "load_cell" => loads = <<2>>)
    /\ CodeInit

UseStopwatch == part = "stopwatch" /\ Next /\ UNCHANGED <<part, pinVars, cellVars, codeVars>>
UseTypeState == part = "type_state" /\ PinNext /\ UNCHANGED <<part, vars, cellVars, codeVars>>
UseLoadCell  == part = "load_cell" /\ CellNext /\ UNCHANGED <<part, vars, pinVars, codeVars>>
UseErrorCodes == part = "error_codes" /\ CodeNext /\ UNCHANGED <<part, vars, pinVars, cellVars>>

MCNext == UseStopwatch \/ UseTypeState \/ UseLoadCell \/ UseErrorCodes

MCSpec == MCInit /\ [][MCNext]_<<part, vars, pinVars, cellVars, codeVars>>
=============================================================================

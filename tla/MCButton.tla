------------------------------ MODULE MCButton ------------------------------
(* Button with small numbers of presses and bounces; the configurations    *)
(* MCButton*.cfg choose how the button is used.                            *)
EXTENDS Button
=============================================================================

------------------------------- MODULE Survey -------------------------------
(***************************************************************************)
(* What a client that asks all modules may rely on: each of them answers   *)
(* each of its requests once, no answer to an older request comes any      *)
(* more, and in the end all have answered.                                 *)
(***************************************************************************)
EXTENDS Naturals

CONSTANTS Clients, Modules

VARIABLES
    asked,      \* [Clients -> number of the client's latest request]
    answered,   \* [Clients -> the modules that have answered it]
    got         \* [Clients -> how many answers the client has got]

vars == <<asked, answered, got>>

Init ==
    /\ asked = [c \in Clients |-> 0]
    /\ answered = [c \in Clients |-> {}]
    /\ got = [c \in Clients |-> 0]

Ask(c) ==
    /\ asked[c] = 0 \/ answered[c] = Modules
    /\ asked' = [asked EXCEPT ![c] = @ + 1]
    /\ answered' = [answered EXCEPT ![c] = {}]
    /\ UNCHANGED got

Answer(c, m) ==
    /\ asked[c] > 0 /\ m \notin answered[c]
    /\ answered' = [answered EXCEPT ![c] = @ \cup {m}]
    /\ got' = [got EXCEPT ![c] = @ + 1]
    /\ UNCHANGED asked

Next == \E c \in Clients : Ask(c) \/ \E m \in Modules : Answer(c, m)

\* What may happen, without what must.
SafeSpec == Init /\ [][Next]_vars

Spec ==
    /\ SafeSpec
    /\ \A c \in Clients, m \in Modules : WF_vars(Answer(c, m))
=============================================================================

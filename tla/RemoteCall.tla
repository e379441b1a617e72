----------------------------- MODULE RemoteCall -----------------------------
(***************************************************************************)
(* What a client of an active object may rely on: a call is executed once  *)
(* on the object's own thread, the client that made it gets the result of  *)
(* that very call, and every call is executed and returns in the end.      *)
(***************************************************************************)
EXTENDS Naturals

CONSTANT Clients

VARIABLES
    phase,      \* of the client's call: "idle", "sent", "done"
    called,     \* number of the client's latest call
    got         \* the call whose result the client got last

vars == <<phase, called, got>>

Init ==
    /\ phase = [c \in Clients |-> "idle"]
    /\ called = [c \in Clients |-> 0]
    /\ got = [c \in Clients |-> 0]

Send(c) ==
    /\ phase[c] = "idle"
    /\ phase' = [phase EXCEPT ![c] = "sent"]
    /\ called' = [called EXCEPT ![c] = @ + 1]
    /\ UNCHANGED got

Serve(c) ==
    /\ phase[c] = "sent"
    /\ phase' = [phase EXCEPT ![c] = "done"]
    /\ UNCHANGED <<called, got>>

Return(c) ==
    /\ phase[c] = "done"
    /\ phase' = [phase EXCEPT ![c] = "idle"]
    /\ got' = [got EXCEPT ![c] = called[c]]
    /\ UNCHANGED called

Next == \E c \in Clients : Send(c) \/ Serve(c) \/ Return(c)

\* What may happen, without what must.
SafeSpec == Init /\ [][Next]_vars

Spec ==
    /\ SafeSpec
    /\ \A c \in Clients : WF_vars(Serve(c)) /\ WF_vars(Return(c))
=============================================================================

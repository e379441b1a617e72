---------------------------- MODULE ActiveObject ----------------------------
(***************************************************************************)
(* The active object of samples/ActiveObject2 (and, with the same steps    *)
(* under other class names, of samples/ActiveObject): one thread executes  *)
(* the messages of a bounded queue; a FunctionCall posts a message that    *)
(* points back to its own Future, and get_return waits on the Future's     *)
(* semaphore.                                                              *)
(*                                                                         *)
(* A call is known by its number: the client's first, second, ... run.     *)
(* The result of a call is that number too, so that a result tells which   *)
(* call it answers; 0 is what an uninitialised Future::_ret holds.         *)
(***************************************************************************)
EXTENDS Naturals, Sequences, FiniteSets

CONSTANTS
    Clients,    \* threads, each with one FunctionCall<int>
    Void,       \* the Future of a call that returns nothing: nullptr
    MaxMsgs,    \* message_queue_size
    MaxCalls,   \* bound on the calls of each client
    MaxPrints,  \* bound on the calls that return nothing
    Hasty       \* clients that give get_return a timeout; the others K_FOREVER

ASSUME SizesAssumption == MaxMsgs \in Nat \ {0} /\ MaxCalls \in Nat /\ MaxPrints \in Nat
ASSUME ClientsAssumption == IsFiniteSet(Clients) /\ Void \notin Clients
ASSUME HastyAssumption == Hasty \subseteq Clients

VARIABLES
    msgq,       \* _msgq: sequence of packages [fut, args]
    spc,        \* the object's thread: next step of Module1::run
    msg,        \* the package it took
    sem,        \* [Clients -> 0..1] Future::_sem
    ret,        \* [Clients -> call number] Future::_ret, 0 uninitialised
    pc,         \* [Clients -> next step of the client]
    called,     \* [Clients -> number of the latest run]
    got,        \* [Clients -> the number get_return returned last]
    prints      \* calls made that return nothing

VARIABLE        \* history, never read by the program
    late        \* [Clients -> number of times that get_return gave up]

server == <<spc, msg>>
future == <<sem, ret>>
client == <<pc, called, got>>
vars   == <<msgq, server, future, client, prints, late>>

Package == [fut : Clients \cup {Void}, args : 0..MaxCalls]

TypeOK ==
    /\ msgq \in Seq(Package) /\ Len(msgq) <= MaxMsgs
    /\ spc \in {"get", "execute", "give"} /\ msg \in Package
    /\ sem \in [Clients -> 0..1] /\ ret \in [Clients -> 0..MaxCalls]
    /\ pc \in [Clients -> {"gone", "ready", "called", "waiting", "woken"}]
    /\ called \in [Clients -> 0..MaxCalls] /\ got \in [Clients -> 0..MaxCalls]
    /\ prints \in 0..MaxPrints
    /\ late \in [Clients -> Nat]

NoPackage == [fut |-> Void, args |-> 0]

Init ==
    /\ msgq = <<>> /\ spc = "get" /\ msg = NoPackage
    /\ sem = [c \in Clients |-> 0] /\ ret = [c \in Clients |-> 0]
    /\ pc = [c \in Clients |-> "gone"]
    /\ called = [c \in Clients |-> 0] /\ got = [c \in Clients |-> 0]
    /\ prints = 0 /\ late = [c \in Clients |-> 0]

\* A call of c is queued or being executed.
UnderWay(c) ==
    \/ \E i \in 1..Len(msgq) : msgq[i].fut = c
    \/ spc # "get" /\ msg.fut = c
-----------------------------------------------------------------------------
(* The queue: k_msgq_put and k_msgq_get of the kernel.                     *)

\* Mutant: a put that jumps the queue.
Put_Front(m) == msgq' = IF Len(msgq) < MaxMsgs THEN <<m>> \o msgq ELSE msgq

\* k_msgq_put(K_NO_WAIT), its result ignored: a full queue drops the message.
Put(m) == msgq' = IF Len(msgq) < MaxMsgs THEN Append(msgq, m) ELSE msgq

\* The object's thread takes the oldest message, waiting for one forever.
Get ==
    /\ spc = "get" /\ msgq # <<>>
    /\ msg' = Head(msgq) /\ msgq' = Tail(msgq)
    /\ spc' = "execute"
    /\ UNCHANGED <<future, client, prints, late>>

\* execute_message writes the result through the package's Future pointer; a
\* package without one is done.
Execute ==
    /\ spc = "execute"
    /\ IF msg.fut = Void
       THEN spc' = "get" /\ UNCHANGED ret
       ELSE spc' = "give" /\ ret' = [ret EXCEPT ![msg.fut] = msg.args]
    /\ UNCHANGED <<msgq, msg, sem, client, prints, late>>

\* Mutant: a thread that executes a call and does not say so.
Give_Forgotten ==
    /\ spc = "give"
    /\ spc' = "get"
    /\ UNCHANGED <<msgq, msg, future, client, prints, late>>

\* k_sem_give; the semaphore's limit is one.
Give ==
    /\ spc = "give"
    /\ spc' = "get"
    /\ sem' = [sem EXCEPT ![msg.fut] = 1]
    /\ UNCHANGED <<msgq, msg, ret, client, prints, late>>
-----------------------------------------------------------------------------
(* The clients.                                                            *)

\* Create_Sub: a FunctionCall with a fresh Future in the client's scope, at the
\* place of the client's last one: a package of that one points here now.
Create(c) ==
    /\ pc[c] = "gone" /\ called[c] < MaxCalls
    /\ pc' = [pc EXCEPT ![c] = "ready"]
    /\ sem' = [sem EXCEPT ![c] = 0] /\ ret' = [ret EXCEPT ![c] = 0]
    /\ UNCHANGED <<msgq, server, called, got, prints, late>>

\* run(args): the package points to the caller's own Future.
Run(c) ==
    /\ pc[c] = "ready" /\ called[c] < MaxCalls
    /\ called' = [called EXCEPT ![c] = @ + 1]
    /\ pc' = [pc EXCEPT ![c] = "called"]
    /\ Put([fut |-> c, args |-> called[c] + 1])
    /\ UNCHANGED <<server, future, got, prints, late>>

\* run() of a call that returns nothing, by any thread.
RunVoid ==
    /\ prints < MaxPrints
    /\ prints' = prints + 1
    /\ Put(NoPackage)
    /\ UNCHANGED <<server, future, client, late>>

\* get_return is entered.
Wait(c) ==
    /\ pc[c] = "called"
    /\ pc' = [pc EXCEPT ![c] = "waiting"]
    /\ UNCHANGED <<msgq, server, future, called, got, prints, late>>

\* Mutant: a semaphore that is looked at and not taken.
Take_Peek(c) ==
    /\ pc[c] = "waiting" /\ sem[c] = 1
    /\ pc' = [pc EXCEPT ![c] = "woken"]
    /\ UNCHANGED <<msgq, server, future, called, got, prints, late>>

\* Mutant: a get_return that does not wait.
Take_NoWait(c) ==
    /\ pc[c] = "waiting"
    /\ pc' = [pc EXCEPT ![c] = "woken"]
    /\ sem' = [sem EXCEPT ![c] = 0]
    /\ UNCHANGED <<msgq, server, ret, called, got, prints, late>>

\* k_sem_take gets the semaphore.
Take(c) ==
    /\ pc[c] = "waiting" /\ sem[c] = 1
    /\ pc' = [pc EXCEPT ![c] = "woken"]
    /\ sem' = [sem EXCEPT ![c] = 0]
    /\ UNCHANGED <<msgq, server, ret, called, got, prints, late>>

\* k_sem_take gives up; get_return does not look at its result.
TimeOut(c) ==
    /\ c \in Hasty /\ pc[c] = "waiting" /\ sem[c] = 0
    /\ pc' = [pc EXCEPT ![c] = "woken"]
    /\ late' = [late EXCEPT ![c] = @ + 1]
    /\ UNCHANGED <<msgq, server, future, called, got, prints>>

\* get_return returns whatever _ret holds now.
Return(c) ==
    /\ pc[c] = "woken"
    /\ pc' = [pc EXCEPT ![c] = "ready"]
    /\ got' = [got EXCEPT ![c] = ret[c]]
    /\ UNCHANGED <<msgq, server, future, called, prints, late>>

\* The scope that holds the FunctionCall and its Future ends, whether or not a
\* call that the client has given up on is over.
Leave(c) ==
    /\ pc[c] = "ready"
    /\ pc' = [pc EXCEPT ![c] = "gone"]
    /\ UNCHANGED <<msgq, server, future, called, got, prints, late>>
-----------------------------------------------------------------------------
Server == Get \/ Execute \/ Give
Client(c) == Create(c) \/ Run(c) \/ Wait(c) \/ Take(c) \/ TimeOut(c)
             \/ Return(c) \/ Leave(c)

Next == Server \/ RunVoid \/ \E c \in Clients : Client(c)

Spec == Init /\ [][Next]_vars

\* The object's thread is scheduled whenever it has a message, and a client
\* that has made a call goes on to get its result; nobody has to call.
Fairness ==
    /\ WF_vars(Server)
    /\ \A c \in Clients : WF_vars(Wait(c) \/ Take(c) \/ Return(c))

FairSpec == Spec /\ Fairness
-----------------------------------------------------------------------------
(* Properties.                                                             *)

\* The calls of c that are queued or being executed.
Calls(c) ==
    {msgq[i].args : i \in {j \in 1..Len(msgq) : msgq[j].fut = c}}
        \cup (IF spc # "get" /\ msg.fut = c THEN {msg.args} ELSE {})

\* When a client has left the scope of its Future, each call that the object's
\* thread still has, and will write there, costs one get_return that gave up:
\* nothing but a timeout leaves a call behind, never more than one each, though
\* late answers give the semaphore for the wrong calls.  None is left behind by
\* a client that waits for ever.
CallsLeftBehind ==
    \A c \in Clients : pc[c] = "gone" => Cardinality(Calls(c)) <= late[c]

\* A client's calls are queued in the order of its runs: no result overtakes
\* another.  A hasty client may have several calls under way.
ResultsInOrder ==
    [][\A c \in Clients : got'[c] # 0 => got'[c] >= got[c]]_got

\* No call is lost, as long as the queue has a place for each: a client that is
\* about to wait, or does, has a call in the queue or executed, or its semaphore
\* has been given, even if it gave up on the call before.
NoCallLost ==
    \A c \in Clients : pc[c] \in {"called", "waiting"} => UnderWay(c) \/ sem[c] = 1

\* And every call returns.
EveryCallReturns ==
    \A c \in Clients : pc[c] \in {"called", "waiting"} ~> pc[c] = "ready"

\* A client that waits for ever sees remote calls, whatever the hasty ones do,
\* as long as the queue has a place for each call.
Patient == Clients \ Hasty
Contract == INSTANCE RemoteCall WITH
    Clients <- Patient,
    phase  <- [c \in Patient |->
                  IF pc[c] \in {"gone", "ready"} THEN "idle"
                  ELSE IF pc[c] = "woken" \/ sem[c] = 1 THEN "done" ELSE "sent"],
    called <- [c \in Patient |-> called[c]],
    got    <- [c \in Patient |-> got[c]]

\* Safety and liveness of the contract together.
IsRemoteCall == Contract!Spec
=============================================================================

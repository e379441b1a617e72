---------------------------- MODULE RequestReply ----------------------------
(***************************************************************************)
(* Requests on a zbus channel and the replies to them                      *)
(* (samples/ZBusWrapperWithReply).                                         *)
(*                                                                         *)
(* A client owns a PublisherWithMsgQ: it publishes its request together    *)
(* with the address of its own reply queue, and then takes replies from    *)
(* that queue.  Each module listens to the channel: its callback, in the   *)
(* client's thread, copies the message into the module's queue; the        *)
(* module's thread takes it, sleeps, and puts its answer in the queue that *)
(* the message names.                                                      *)
(*                                                                         *)
(* The sample has one client that waits for ever for both replies, at a    *)
(* priority above the modules'.  The class also offers get_reply a         *)
(* timeout: clients that are not Patient use one and may send again before *)
(* all the modules have answered.                                          *)
(***************************************************************************)
EXTENDS Naturals, Sequences, FiniteSets

CONSTANTS
    Clients,        \* threads with a PublisherWithMsgQ on the channel
    Modules,        \* threads that listen to the channel
    InboxSize,      \* messages in a module's queue, 10 in the sample
    RepliesSize,    \* replies in a client's queue, _msgq_size
    MaxRequests,    \* bound: requests of one client
    Patient         \* clients that wait for ever, and for every reply

ASSUME SizesAssumption ==
    /\ IsFiniteSet(Clients) /\ IsFiniteSet(Modules)
    /\ InboxSize \in Nat \ {0} /\ RepliesSize \in Nat \ {0}
    /\ MaxRequests \in Nat
    /\ Patient \subseteq Clients

Nobody == "nobody"
ASSUME NobodyAssumption == Nobody \notin Clients

NoMessage == [client |-> Nobody, req |-> 0]
Request == [client : Clients, req : 1..MaxRequests]
\* A reply, marked with the request that its module had in hand when it made it.
Reply   == [from : Modules, to : Clients, req : 1..MaxRequests]

VARIABLES
    pc,         \* [Clients -> where the client's thread is]
    req,        \* [Clients -> number of its last request, 0 before the first]
    replies,    \* [Clients -> its reply queue, _msgq]
    lock,       \* the client that publishes on the channel, or Nobody
    chan,       \* the message that the channel holds
    untold,     \* modules whose callback this publication has yet to call
    inbox,      \* [Modules -> the module's simple_msgq]
    state,      \* [Modules -> "waiting", "sleeping" or "replying"]
    msg         \* [Modules -> the message that it handles]

VARIABLES       \* history
    taken,      \* [Clients -> every reply that get_reply has returned]
    deadText    \* clients that have read a reply whose text was gone

clientVars == <<pc, req>>
busVars    == <<lock, chan, untold>>
moduleVars == <<inbox, state, msg>>
vars       == <<clientVars, replies, busVars, moduleVars, taken, deadText>>

TypeOK ==
    /\ pc \in [Clients -> {"free", "sending", "publishing", "getting", "reading"}]
    /\ req \in [Clients -> 0..MaxRequests]
    /\ replies \in [Clients -> Seq(Reply)]
    /\ \A c \in Clients : Len(replies[c]) <= RepliesSize
    /\ lock \in Clients \cup {Nobody}
    /\ chan \in Request \cup {NoMessage}
    /\ untold \subseteq Modules
    /\ inbox \in [Modules -> Seq(Request)]
    /\ \A m \in Modules : Len(inbox[m]) <= InboxSize
    /\ state \in [Modules -> {"waiting", "sleeping", "replying"}]
    /\ msg \in [Modules -> Request \cup {NoMessage}]
    /\ taken \in [Clients -> Seq(Reply)]
    /\ deadText \subseteq Clients

Init ==
    /\ pc = [c \in Clients |-> "free"]
    /\ req = [c \in Clients |-> 0]
    /\ replies = [c \in Clients |-> <<>>]
    /\ lock = Nobody /\ chan = NoMessage /\ untold = {}
    /\ inbox = [m \in Modules |-> <<>>]
    /\ state = [m \in Modules |-> "waiting"]
    /\ msg = [m \in Modules |-> NoMessage]
    /\ taken = [c \in Clients |-> <<>>]
    /\ deadText = {}

\* The modules whose answer to its last request c has taken.
Answered(c) == {m \in Modules : \E i \in DOMAIN taken[c] :
                    taken[c][i] = [from |-> m, to |-> c, req |-> req[c]]}

\* Mutant: the newest message is taken first.
Put_Front(queue, item, size) == IF Len(queue) < size THEN <<item>> \o queue ELSE queue

\* k_msgq_put with K_NO_WAIT: dropped when the queue is full.
Put(queue, item, size) == IF Len(queue) < size THEN Append(queue, item) ELSE queue
-----------------------------------------------------------------------------
(* Clients.                                                                *)

\* send_message, first half: the message is made, and the replies that are
\* still in the queue are purged.
Send(c) ==
    /\ pc[c] = "free" /\ req[c] < MaxRequests
    /\ c \in Patient => (req[c] = 0 \/ Answered(c) = Modules)
    /\ req' = [req EXCEPT ![c] = @ + 1]
    /\ replies' = [replies EXCEPT ![c] = <<>>]
    /\ pc' = [pc EXCEPT ![c] = "sending"]
    /\ UNCHANGED <<busVars, moduleVars, taken, deadText>>

\* Mutant: a publication that does not wait for the channel.
Publish_NoLock(c) ==
    /\ pc[c] = "sending"
    /\ lock' = c
    /\ chan' = [client |-> c, req |-> req[c]]
    /\ untold' = Modules
    /\ pc' = [pc EXCEPT ![c] = "publishing"]
    /\ UNCHANGED <<req, replies, moduleVars, taken, deadText>>

\* zbus_chan_pub takes the channel and copies the message into it.
Publish(c) ==
    /\ pc[c] = "sending" /\ lock = Nobody
    /\ lock' = c
    /\ chan' = [client |-> c, req |-> req[c]]
    /\ untold' = Modules
    /\ pc' = [pc EXCEPT ![c] = "publishing"]
    /\ UNCHANGED <<req, replies, moduleVars, taken, deadText>>

\* Or gives up, when its timeout is over before another client has given the
\* channel back: nothing is published, but the replies are purged.
PublishFails(c) ==
    /\ c \notin Patient
    /\ pc[c] = "sending" /\ lock # Nobody
    /\ pc' = [pc EXCEPT ![c] = "free"]
    /\ UNCHANGED <<req, replies, busVars, moduleVars, taken, deadText>>

\* zbus_chan_pub calls one listener after the other; module1_callback and
\* module2_callback put the channel's message in the module's queue.
Callback(c, m) ==
    /\ pc[c] = "publishing" /\ lock = c /\ m \in untold
    /\ inbox' = [inbox EXCEPT ![m] = Put(@, chan, InboxSize)]
    /\ untold' = untold \ {m}
    /\ UNCHANGED <<clientVars, replies, lock, chan, state, msg, taken, deadText>>

\* When all have been called it gives the channel back, and returns.
Published(c) ==
    /\ pc[c] = "publishing" /\ lock = c /\ untold = {}
    /\ lock' = Nobody
    /\ pc' = [pc EXCEPT ![c] = "free"]
    /\ UNCHANGED <<req, replies, chan, untold, moduleVars, taken, deadText>>

\* get_reply waits on the queue.
GetReply(c) ==
    /\ pc[c] = "free" /\ req[c] > 0
    /\ c \in Patient => Answered(c) # Modules
    /\ pc' = [pc EXCEPT ![c] = "getting"]
    /\ UNCHANGED <<req, replies, busVars, moduleVars, taken, deadText>>

\* It returns the oldest reply.
Take(c) ==
    /\ pc[c] = "getting" /\ replies[c] # <<>>
    /\ taken' = [taken EXCEPT ![c] = Append(@, Head(replies[c]))]
    /\ replies' = [replies EXCEPT ![c] = Tail(@)]
    /\ pc' = [pc EXCEPT ![c] = "reading"]
    /\ UNCHANGED <<req, busVars, moduleVars, deadText>>

\* Or an error when its timeout is over.
TimeOut(c) ==
    /\ c \notin Patient
    /\ pc[c] = "getting" /\ replies[c] = <<>>
    /\ pc' = [pc EXCEPT ![c] = "free"]
    /\ UNCHANGED <<req, replies, busVars, moduleVars, taken, deadText>>

\* The client uses the reply.  The queue has copied it byte by byte, so its
\* std::string still points at the characters in the module's set_reply: they
\* are gone when that has returned.
Read(c) ==
    /\ pc[c] = "reading"
    /\ LET last == taken[c][Len(taken[c])]
           m    == last.from
           alive == /\ state[m] = "replying"
                    /\ msg[m] = [client |-> c, req |-> last.req]
       IN  deadText' = IF alive THEN deadText ELSE deadText \cup {c}
    /\ pc' = [pc EXCEPT ![c] = "free"]
    /\ UNCHANGED <<req, replies, busVars, moduleVars, taken>>
-----------------------------------------------------------------------------
(* Modules.                                                                *)

\* A client's thread that cannot go on before another thread acts: it waits
\* for a reply or for the channel, or has sent its last request.
Blocked(c) ==
    \/ pc[c] = "getting" /\ replies[c] = <<>>
    \/ pc[c] = "sending" /\ lock # Nobody
    \/ /\ pc[c] = "free" /\ req[c] = MaxRequests
       /\ c \in Patient => Answered(c) = Modules

\* Mutant: modules at the priority of the clients.
MayRun_Always(m) == TRUE

\* The scheduler: threads of a lower priority run only while those of a
\* higher one are blocked.
MayRun(m) == \A c \in Clients : Blocked(c)

\* k_msgq_get in module1_task and module2_task; the module goes to sleep.
GetMessage(m) ==
    /\ MayRun(m)
    /\ state[m] = "waiting" /\ inbox[m] # <<>>
    /\ msg' = [msg EXCEPT ![m] = Head(inbox[m])]
    /\ inbox' = [inbox EXCEPT ![m] = Tail(@)]
    /\ state' = [state EXCEPT ![m] = "sleeping"]
    /\ UNCHANGED <<clientVars, replies, busVars, taken, deadText>>

\* Mutant: a module that answers into the queue of whoever publishes now.
SetReply_ToChannel(m) ==
    /\ MayRun(m) /\ state[m] = "sleeping"
    /\ replies' = [replies EXCEPT ![chan.client] =
        Put(@, [from |-> m, to |-> msg[m].client, req |-> msg[m].req], RepliesSize)]
    /\ state' = [state EXCEPT ![m] = "replying"]
    /\ UNCHANGED <<clientVars, busVars, inbox, msg, taken, deadText>>

\* After k_msleep(100), set_reply puts the reply in the queue that the message
\* names, without waiting; the module ignores what it returns.
SetReply(m) ==
    /\ MayRun(m) /\ state[m] = "sleeping"
    /\ replies' = [replies EXCEPT ![msg[m].client] =
        Put(@, [from |-> m, to |-> msg[m].client, req |-> msg[m].req], RepliesSize)]
    /\ state' = [state EXCEPT ![m] = "replying"]
    /\ UNCHANGED <<clientVars, busVars, inbox, msg, taken, deadText>>

\* Mutant: a module that goes on with the message it has.
Replied_Again(m) ==
    /\ MayRun(m) /\ state[m] = "replying"
    /\ state' = [state EXCEPT ![m] = "sleeping"]
    /\ UNCHANGED <<clientVars, replies, busVars, inbox, msg, taken, deadText>>

\* set_reply returns, and its argument is destroyed.
Replied(m) ==
    /\ MayRun(m) /\ state[m] = "replying"
    /\ state' = [state EXCEPT ![m] = "waiting"]
    /\ UNCHANGED <<clientVars, replies, busVars, inbox, msg, taken, deadText>>
-----------------------------------------------------------------------------
Client(c) ==
    \/ Send(c) \/ Publish(c) \/ PublishFails(c) \/ Published(c)
    \/ \E m \in Modules : Callback(c, m)
    \/ GetReply(c) \/ Take(c) \/ TimeOut(c) \/ Read(c)

Module(m) == GetMessage(m) \/ SetReply(m) \/ Replied(m)

Next == (\E c \in Clients : Client(c)) \/ (\E m \in Modules : Module(m))

Spec == Init /\ [][Next]_vars

\* A client that can run does run; and a module that can run again and again,
\* whenever the clients are blocked, does: a client's timeout takes time.
FairSpec ==
    /\ Spec
    /\ \A c \in Clients : WF_vars(Client(c))
    /\ \A m \in Modules : SF_vars(Module(m))
-----------------------------------------------------------------------------
(* Properties.                                                             *)

\* Replies go to the producer that asked: every reply in a client's queue was
\* made for a request that this client, and no other, has sent, and none of
\* them, in the queue or taken, is there twice, although all the requests share
\* one channel and the modules' queues.
RepliesRouted ==
    \A c \in Clients :
        LET all == taken[c] \o replies[c]
        IN  /\ \A i \in DOMAIN all : all[i].to = c /\ all[i].req <= req[c]
            /\ \A i, j \in DOMAIN all : all[i] = all[j] => i = j

\* A module's replies come in the order of the requests, however many of them
\* a client has given up on and purged.
RepliesInOrder ==
    \A c \in Clients : \A i, j \in DOMAIN taken[c] :
        (i < j /\ taken[c][i].from = taken[c][j].from)
            => taken[c][i].req < taken[c][j].req

\* For a client that waits for every reply, the replies come request by
\* request: as many as there are modules to the first, then to the second.
RepliesMatchRequests ==
    \A c \in Patient : \A i \in DOMAIN taken[c] :
        taken[c][i].req = ((i - 1) \div Cardinality(Modules)) + 1

\* A patient client reads a reply before its text goes: it waits in get_reply
\* when the reply is put, and its priority takes the module off the processor.
TextAlive == deadText \cap Patient = {}

\* What a patient client sees is a survey of the modules, however many requests
\* the others send on the same channel: get_reply returns the answer of a module
\* that has not answered the client's last request, to that request, and every
\* module does answer it.
Contract == INSTANCE Survey WITH
    Clients  <- Patient,
    asked    <- [c \in Patient |-> req[c]],
    answered <- [c \in Patient |-> Answered(c)],
    got      <- [c \in Patient |-> Len(taken[c])]

IsSurvey == Contract!Spec

\* The request of c that is under way has yet to reach m.
Owed(c, m) == pc[c] = "sending" \/ (pc[c] = "publishing" /\ m \in untold)

\* No request is lost on its way: until a patient client has taken m's answer to
\* its request, the channel has yet to call m for it, or it waits in m's queue,
\* or m is at it, or its answer is in the client's queue.
NoRequestLost ==
    \A c \in Patient : \A m \in Modules \ Answered(c) : req[c] > 0 =>
        \/ Owed(c, m)
        \/ \E k \in 1..Len(inbox[m]) : inbox[m][k] = [client |-> c, req |-> req[c]]
        \/ state[m] = "sleeping" /\ msg[m] = [client |-> c, req |-> req[c]]
        \/ \E k \in 1..Len(replies[c]) : replies[c][k] = [from |-> m, to |-> c, req |-> req[c]]
=============================================================================

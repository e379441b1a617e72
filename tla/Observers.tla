----------------------------- MODULE Observers ------------------------------
(***************************************************************************)
(* The three kinds of zbus observers on one channel                        *)
(* (samples/zbus_observers).                                               *)
(*                                                                         *)
(* main publishes the values 1..Last.  A publication takes the channel,    *)
(* writes the value and tells the observers, in main's thread: the         *)
(* listener's callback copies the value into acc_msgq; the subscriber gets *)
(* only a notice that the channel has changed, and reads the channel       *)
(* itself, later; the message subscriber gets a copy in a buffer.  Every   *)
(* observer has a thread below main's priority: it runs while main sleeps, *)
(* and main wakes at any moment, also while the subscriber has the channel.*)
(***************************************************************************)
EXTENDS Naturals, Sequences

CONSTANTS
    Last,           \* values that main publishes, 4 in the sample
    Pauses,         \* values after which main sleeps, {1, 4} in the sample
    ListenerQueue,  \* values in acc_msgq, 10
    SubQueue,       \* notices in sub_obj, 4
    Pool            \* buffers for message subscribers, 10

ASSUME SizesAssumption ==
    /\ Last \in Nat \ {0}
    /\ ListenerQueue \in Nat /\ SubQueue \in Nat \ {0} /\ Pool \in Nat

VARIABLES
    next,       \* the value that main publishes next
    main,       \* "running" or "sleeping"
    channel,    \* the value in acc_data_chan
    acc_msgq,   \* values on their way to listener_task
    notices,    \* notices in sub_obj's queue
    sub,        \* subscriber_task: "waiting", "noticed", "reading" with the
                \* channel taken, or "printing"
    acc,        \* the value that subscriber_task read
    buffers     \* values on their way to msg_sub_task

VARIABLES       \* history
    accepted,   \* values that zbus_chan_pub wrote
    shown,      \* the value that subscriber_task printed last
    heard,      \* values that listener_task printed
    received    \* values that msg_sub_task printed

mainVars == <<next, main, channel, accepted>>
subVars == <<notices, sub, acc, shown>>
listenerVars == <<acc_msgq, heard>>
msgSubVars == <<buffers, received>>
vars == <<mainVars, subVars, listenerVars, msgSubVars>>

TypeOK ==
    /\ next \in 1..(Last + 1)
    /\ main \in {"running", "sleeping"}
    /\ channel \in 0..Last
    /\ acc_msgq \in Seq(1..Last) /\ Len(acc_msgq) <= ListenerQueue
    /\ notices \in 0..SubQueue
    /\ sub \in {"waiting", "noticed", "reading", "printing"}
    /\ acc \in 0..Last /\ shown \in 0..Last
    /\ buffers \in Seq(1..Last) /\ Len(buffers) <= Pool
    /\ accepted \in Seq(1..Last)
    /\ heard \in Seq(1..Last) /\ received \in Seq(1..Last)

Init ==
    /\ next = 1 /\ main = "running"
    /\ channel = 0
    /\ acc_msgq = <<>> /\ notices = 0 /\ buffers = <<>>
    /\ sub = "waiting" /\ acc = 0
    /\ accepted = <<>> /\ shown = 0 /\ heard = <<>> /\ received = <<>>

\* q with v at its end, if it has room among n.
Put(q, v, n) == IF Len(q) < n THEN Append(q, v) ELSE q
-----------------------------------------------------------------------------
\* Mutant: only a subscriber that waits is told.
Tell_Waiting(v) ==
    /\ acc_msgq' = Put(acc_msgq, v, ListenerQueue)
    /\ notices' = IF notices < SubQueue /\ sub = "waiting"
                  THEN notices + 1 ELSE notices
    /\ buffers' = Put(buffers, v, Pool)

\* Mutant: the listener's callback reads the channel before it is written.
Tell_Stale(v) ==
    /\ acc_msgq' = Put(acc_msgq, IF channel = 0 THEN v ELSE channel, ListenerQueue)
    /\ notices' = IF notices < SubQueue THEN notices + 1 ELSE notices
    /\ buffers' = Put(buffers, v, Pool)

\* The observers are told of v in main's thread, with the channel taken:
\* the listener's callback puts the value in acc_msgq without waiting, the
\* subscriber's queue gets a notice and a buffer is filled, if there is room.
Tell(v) ==
    /\ acc_msgq' = Put(acc_msgq, v, ListenerQueue)
    /\ notices' = IF notices < SubQueue THEN notices + 1 ELSE notices
    /\ buffers' = Put(buffers, v, Pool)

Accept ==
    /\ sub # "reading"
    /\ channel' = next /\ accepted' = Append(accepted, next)
    /\ Tell(next)

\* All but the first publication do not wait for the channel; the first comes
\* before any notice.
Refuse ==
    /\ sub = "reading"
    /\ UNCHANGED <<channel, accepted, acc_msgq, notices, buffers>>

\* main is above the observers' priorities: its publication is one step.
Publish ==
    /\ main = "running" /\ next <= Last
    /\ Accept \/ Refuse
    /\ next' = next + 1
    /\ main' = IF next \in Pauses \/ next = Last THEN "sleeping" ELSE "running"
    /\ UNCHANGED <<sub, acc, shown, heard, received>>

\* main's sleep may end at any time.
Wake ==
    /\ main = "sleeping" /\ next <= Last
    /\ main' = "running"
    /\ UNCHANGED <<next, channel, accepted, subVars, listenerVars, msgSubVars>>
-----------------------------------------------------------------------------
\* zbus_sub_wait returns.
Notice ==
    /\ main = "sleeping" /\ sub = "waiting" /\ notices > 0
    /\ notices' = notices - 1 /\ sub' = "noticed"
    /\ UNCHANGED <<acc, shown, mainVars, listenerVars, msgSubVars>>

\* zbus_chan_read takes the channel, which nobody has while main sleeps.
BeginRead ==
    /\ main = "sleeping" /\ sub = "noticed"
    /\ sub' = "reading"
    /\ UNCHANGED <<notices, acc, shown, mainVars, listenerVars, msgSubVars>>

\* Mutant: the read timed out and its result is ignored; acc is what it was.
EndRead_TimedOut ==
    /\ main = "sleeping" /\ sub = "reading"
    /\ acc' \in 0..Last /\ sub' = "printing"
    /\ UNCHANGED <<notices, shown, mainVars, listenerVars, msgSubVars>>

\* It has copied the value and gives the channel back.
EndRead ==
    /\ main = "sleeping" /\ sub = "reading"
    /\ acc' = channel /\ sub' = "printing"
    /\ UNCHANGED <<notices, shown, mainVars, listenerVars, msgSubVars>>

PrintAcc ==
    /\ main = "sleeping" /\ sub = "printing"
    /\ shown' = acc /\ sub' = "waiting"
    /\ UNCHANGED <<notices, acc, mainVars, listenerVars, msgSubVars>>

\* listener_task takes a value from acc_msgq and prints it.
Hear ==
    /\ main = "sleeping" /\ acc_msgq # <<>>
    /\ heard' = Append(heard, Head(acc_msgq)) /\ acc_msgq' = Tail(acc_msgq)
    /\ UNCHANGED <<mainVars, subVars, msgSubVars>>

\* msg_sub_task gets a buffer and prints the value in it.
Receive ==
    /\ main = "sleeping" /\ buffers # <<>>
    /\ received' = Append(received, Head(buffers)) /\ buffers' = Tail(buffers)
    /\ UNCHANGED <<mainVars, subVars, listenerVars>>

subscriber_task == Notice \/ BeginRead \/ EndRead \/ PrintAcc

Next == Publish \/ Wake \/ subscriber_task \/ Hear \/ Receive

Spec == Init /\ [][Next]_vars

(* The kernel runs every thread that is ready when main is not, and main's *)
(* sleeps end; they are far longer than what the observers do.             *)
FairSpec ==
    /\ Spec
    /\ WF_vars(Publish) /\ WF_vars(Wake)
    /\ WF_vars(subscriber_task) /\ WF_vars(Hear) /\ WF_vars(Receive)
-----------------------------------------------------------------------------
(* What listener_task and msg_sub_task have and will print is what the     *)
(* channel accepted, in that order, as long as no queue is full: the copy  *)
(* is made in the publication, so neither skips or repeats a value that    *)
(* main overwrites before their thread runs (listener.cpp:31).             *)
CopiesComplete ==
    /\ heard \o acc_msgq = accepted
    /\ received \o buffers = accepted

(* A subscriber that waits with no notice pending has printed the value    *)
(* that is in the channel: a publication after its read left a notice,     *)
(* also when its queue was full (sub.cpp:17-23).                           *)
NoChangeMissed == sub = "waiting" /\ notices = 0 => shown = channel

(* The subscriber, which reads the channel itself, may skip or repeat      *)
(* values and never prints an older value after a newer one.               *)
ShownInOrder == [][shown' >= shown]_vars

(* After the last value that the channel accepts, the subscriber prints    *)
(* that value and stays with it, however few notices its queue holds.      *)
SubscriberCatchesUp == <>[](accepted # <<>> /\ shown = accepted[Len(accepted)])
=============================================================================

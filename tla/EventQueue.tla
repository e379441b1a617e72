----------------------------- MODULE EventQueue -----------------------------
(***************************************************************************)
(* The event pipeline of samples/ZBusStandard.                             *)
(*                                                                         *)
(* module_a publishes an event on each of two channels and sleeps.  The    *)
(* listener of main, called in module_a's thread, copies the event into    *)
(* event_queue without waiting; main takes the events one by one, handles  *)
(* them, and sleeps after each.  Both sleep a relative number of ticks,    *)
(* which the kernel counts from the next tick: k_msleep(n ticks) ends n+1  *)
(* ticks later.                                                            *)
(*                                                                         *)
(* An event is its number in the order of publication; the odd ones are    *)
(* data_a_events.  Time passes in ticks, and only when nobody can act.     *)
(***************************************************************************)
EXTENDS Naturals, Sequences

CONSTANTS
    Period,     \* module_a's sleep, 1000 ms in the sample
    Rest,       \* main's sleep after an event, 500 ms in the sample
    MaxHandle,  \* ticks that handling an event may take
    QueueSize,  \* events in event_queue, 10 in the sample
    MaxEvents   \* bound: events published

ASSUME TimesAssumption ==
    /\ Period \in Nat /\ Rest \in Nat /\ MaxHandle \in Nat
    /\ QueueSize \in Nat \ {0} /\ MaxEvents \in Nat

VARIABLES
    published,  \* events published so far, by number
    producer,   \* what module_a does next: "A", "B" or "sleep"
    produceIn,  \* ticks left of module_a's sleep
    queue,      \* event_queue
    consumer,   \* main: "waiting" in k_msgq_get, "busy" handling, "resting"
    consumeIn   \* ticks left of what main does

VARIABLES       \* history
    handled,    \* the events that main has taken, in its order
    lost        \* the events that did not fit in the queue

vars == <<published, producer, produceIn, queue, consumer, consumeIn, handled, lost>>

TypeOK ==
    /\ published \in Nat
    /\ producer \in {"A", "B", "sleep"}
    /\ produceIn \in 0..(Period + 1)
    /\ queue \in Seq(Nat) /\ Len(queue) <= QueueSize
    /\ consumer \in {"waiting", "busy", "resting"}
    /\ consumeIn \in Nat
    /\ consumeIn <= MaxHandle + Rest + 1
    /\ handled \in Seq(Nat)
    /\ lost \in SUBSET Nat

Init ==
    /\ published = 0 /\ producer = "A" /\ produceIn = 0
    /\ queue = <<>>
    /\ consumer = "waiting" /\ consumeIn = 0
    /\ handled = <<>> /\ lost = {}

\* The ticks that k_msleep takes.
Sleep(n) == n + 1
-----------------------------------------------------------------------------
\* Mutant: an event that is put before those that wait.
push_event_Front ==
    IF Len(queue) < QueueSize
    THEN queue' = <<published + 1>> \o queue /\ UNCHANGED lost
    ELSE UNCHANGED queue /\ lost' = lost \cup {published + 1}

\* Mutant: a full queue gives up its oldest event for the new one.
push_event_Overwrite ==
    IF Len(queue) < QueueSize
    THEN queue' = Append(queue, published + 1) /\ UNCHANGED lost
    ELSE queue' = Append(Tail(queue), published + 1) /\ lost' = lost \cup {Head(queue)}

\* main_lis_cb: k_msgq_put with K_NO_WAIT; what it returns is ignored.
push_event ==
    IF Len(queue) < QueueSize
    THEN queue' = Append(queue, published + 1) /\ UNCHANGED lost
    ELSE UNCHANGED queue /\ lost' = lost \cup {published + 1}

\* module_a publishes; zbus_chan_pub calls the listener before it returns.
PublishA ==
    /\ producer = "A" /\ published + 2 <= MaxEvents
    /\ push_event
    /\ published' = published + 1
    /\ producer' = "B"
    /\ UNCHANGED <<produceIn, consumer, consumeIn, handled>>

\* Mutant: a module_a that does not sleep.
PublishB_NoSleep ==
    /\ producer = "B"
    /\ push_event
    /\ published' = published + 1
    /\ producer' = "A"
    /\ UNCHANGED <<produceIn, consumer, consumeIn, handled>>

PublishB ==
    /\ producer = "B"
    /\ push_event
    /\ published' = published + 1
    /\ producer' = "sleep" /\ produceIn' = Sleep(Period)
    /\ UNCHANGED <<consumer, consumeIn, handled>>

WakeProducer ==
    /\ producer = "sleep" /\ produceIn = 0
    /\ producer' = "A"
    /\ UNCHANGED <<published, produceIn, queue, consumer, consumeIn, handled, lost>>
-----------------------------------------------------------------------------
\* main gets an event and handles it.
Get ==
    /\ consumer = "waiting" /\ queue # <<>>
    /\ queue' = Tail(queue)
    /\ handled' = Append(handled, Head(queue))
    /\ consumer' = "busy"
    /\ \E d \in 0..MaxHandle : consumeIn' = d
    /\ UNCHANGED <<published, producer, produceIn, lost>>

\* Then it sleeps,
StartRest ==
    /\ consumer = "busy" /\ consumeIn = 0
    /\ consumer' = "resting" /\ consumeIn' = Sleep(Rest)
    /\ UNCHANGED <<published, producer, produceIn, queue, handled, lost>>

\* and comes back for the next one.
Wake ==
    /\ consumer = "resting" /\ consumeIn = 0
    /\ consumer' = "waiting"
    /\ UNCHANGED <<published, producer, produceIn, queue, consumeIn, handled, lost>>
-----------------------------------------------------------------------------
\* Behind the last publication of the bound, time goes on for main alone.
AllPublished == producer = "A" /\ published + 2 > MaxEvents

\* A thread with something to do now.
ProducerReady == IF producer = "sleep" THEN produceIn = 0 ELSE ~AllPublished
ConsumerReady == IF consumer = "waiting" THEN queue # <<>> ELSE consumeIn = 0

\* A tick of the kernel's clock.
Tick ==
    /\ ~ProducerReady /\ ~ConsumerReady
    /\ produceIn' = IF producer = "sleep" THEN produceIn - 1 ELSE produceIn
    /\ consumeIn' = IF consumer = "waiting" THEN consumeIn ELSE consumeIn - 1
    /\ UNCHANGED <<published, producer, queue, consumer, handled, lost>>

Next == \/ PublishA \/ PublishB \/ WakeProducer
        \/ Get \/ StartRest \/ Wake
        \/ Tick

Spec == Init /\ [][Next]_vars

\* Both threads run when they are ready, and the clock ticks.
FairSpec == Spec /\ WF_vars(Next)
-----------------------------------------------------------------------------
(* Properties.                                                             *)

\* The events that main has taken and those that wait for it.
Went == handled \o queue

\* Events of the two channels go through one queue and are handled in the order
\* of their publication: those handled and those that wait are in that order,
\* and each event published is either one of them, once, or lost.
EventsInOrder ==
    /\ \A i, j \in 1..Len(Went) : i < j => Went[i] < Went[j]
    /\ \A n \in 1..published : n \in lost <=> \A i \in 1..Len(Went) : Went[i] # n

\* The longest that one event keeps main from the next.
Turn == MaxHandle + Sleep(Rest)

\* By how much main may fall behind in each period: two events and their sleeps
\* against one sleep of module_a.
Excess == IF 2 * Turn > Sleep(Period) THEN 2 * Turn - Sleep(Period) ELSE 0

\* The sample's sleeps, 500 ms for each of the two events of 1000 ms, let main
\* fall behind by a tick and more in each period, so that events are lost in the
\* end; but none before the delays of all the periods add up to what the queue
\* can hold back, and none at all where there is no excess.
LostOnlyBehind == lost # {} => 2 * (QueueSize - 1) * Turn <= published * Excess

\* Every event that has got a place in the queue gets to the overload of
\* process_event that its author wrote for it, in the end, though others are lost.
EveryEventHandled ==
    \A n \in 1..MaxEvents :
        (\E i \in 1..Len(queue) : queue[i] = n)
            ~> (\E i \in 1..Len(handled) : handled[i] = n)

\* What main.cpp:13-19 tells the author of a new event: the callback puts the
\* event on the queue.  It does so for every event published.
EveryEventQueued == lost = {}
=============================================================================

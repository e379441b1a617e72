-------------------------- MODULE EventQueue_proof --------------------------
(* Proofs about EventQueue, for all sleeps, handling times and queue       *)
(* sizes: events are handled in the order of their publication, and none   *)
(* is lost before main has fallen behind by what the queue can hold back.  *)
EXTENDS EventQueue, Integers, SequenceTheorems, TLAPS

USE DEF vars
-----------------------------------------------------------------------------
(* Types.                                                                  *)

LEMMA InitTypes == Init => TypeOK
<1>1. <<>> \in Seq(Nat) /\ Len(<<>>) = 0
  BY EmptySeq
<1> QED
  BY <1>1, TimesAssumption DEF Init, TypeOK

\* What Append does, place by place.
LEMMA Appended ==
  ASSUME NEW S, NEW q \in Seq(S), NEW item \in S
  PROVE  /\ Append(q, item) \in Seq(S) /\ Len(q) \in Nat
         /\ Len(Append(q, item)) = Len(q) + 1
         /\ Append(q, item)[Len(q) + 1] = item
         /\ \A i \in 1..Len(q) : Append(q, item)[i] = q[i]
  BY AppendProperties, LenProperties

\* And Tail.
LEMMA Tailed ==
  ASSUME NEW S, NEW q \in Seq(S), q # <<>>
  PROVE  /\ Len(q) \in Nat \ {0} /\ Head(q) = q[1] /\ Head(q) \in S
         /\ Tail(q) \in Seq(S) /\ Len(Tail(q)) = Len(q) - 1
         /\ \A i \in 1..Len(Tail(q)) : Tail(q)[i] = q[i + 1]
  BY HeadTailProperties, EmptySeq, LenProperties

\* What the callback does: the event goes to the end of the queue, or is lost
\* because the queue is full.
LEMMA Pushed ==
  ASSUME TypeOK, push_event
  PROVE  /\ queue' \in Seq(Nat) /\ Len(queue') <= QueueSize /\ lost' \in SUBSET Nat
         /\ \/ /\ queue' = Append(queue, published + 1) /\ lost' = lost
               /\ Len(queue') = Len(queue) + 1
            \/ /\ queue' = queue /\ lost' = lost \cup {published + 1}
               /\ Len(queue) = QueueSize
<1>1. queue \in Seq(Nat) /\ Len(queue) \in Nat /\ Len(queue) <= QueueSize
      /\ QueueSize \in Nat /\ published + 1 \in Nat
  BY TimesAssumption, LenProperties DEF TypeOK
<1>2. CASE Len(queue) < QueueSize
  <2>1. queue' = Append(queue, published + 1) /\ lost' = lost
    BY <1>2 DEF push_event
  <2>2. queue' \in Seq(Nat) /\ Len(queue') = Len(queue) + 1
    BY <1>1, <2>1, Appended
  <2>3. Len(queue') <= QueueSize
    BY <1>1, <1>2, <2>2
  <2> QED
    BY <2>1, <2>2, <2>3 DEF TypeOK
<1>3. CASE ~(Len(queue) < QueueSize)
  <2>1. Len(queue) = QueueSize
    BY <1>1, <1>3
  <2> QED
    BY <1>1, <1>3, <2>1 DEF push_event, TypeOK
<1> QED
  BY <1>2, <1>3

\* Main never sleeps longer than its rest, and never handles without end.
ConsumerOK ==
    /\ consumer = "busy" => consumeIn <= MaxHandle
    /\ consumer = "resting" => consumeIn <= Sleep(Rest)

LEMMA NextTypes == TypeOK /\ ConsumerOK /\ [Next]_vars => TypeOK' /\ ConsumerOK'
<1> USE TimesAssumption
<1> SUFFICES ASSUME TypeOK, ConsumerOK, [Next]_vars PROVE TypeOK' /\ ConsumerOK'
  OBVIOUS
<1>1. CASE PublishA
  BY <1>1, Pushed DEF PublishA, TypeOK, ConsumerOK
<1>2. CASE PublishB
  BY <1>2, Pushed DEF PublishB, TypeOK, ConsumerOK, Sleep
<1>3. CASE WakeProducer
  BY <1>3 DEF WakeProducer, TypeOK, ConsumerOK
<1>4. CASE Get
  <2>1. queue \in Seq(Nat) /\ queue # <<>> /\ handled \in Seq(Nat)
    BY <1>4 DEF Get, TypeOK
  <2>2. /\ Head(queue) \in Nat /\ Tail(queue) \in Seq(Nat)
        /\ Len(Tail(queue)) = Len(queue) - 1 /\ Len(queue) \in Nat
    BY <2>1, Tailed
  <2>3. Append(handled, Head(queue)) \in Seq(Nat)
    BY <2>1, <2>2, Appended
  <2>4. PICK d \in 0..MaxHandle : consumeIn' = d
    BY <1>4 DEF Get
  <2>5. consumeIn' \in Nat /\ consumeIn' <= MaxHandle /\ consumeIn' <= MaxHandle + Rest + 1
    BY <2>4
  <2> QED
    BY <1>4, <2>2, <2>3, <2>5 DEF Get, TypeOK, ConsumerOK
<1>5. CASE StartRest \/ Wake
  <2>1. /\ UNCHANGED <<published, producer, produceIn, queue, handled>> /\ lost' = lost
        /\ consumer' \in {"waiting", "resting"}
        /\ consumer' = "resting" => consumeIn' = Sleep(Rest)
        /\ consumeIn' = Sleep(Rest) \/ consumeIn' = consumeIn
    BY <1>5 DEF StartRest, Wake
  <2>2. consumeIn' \in Nat /\ consumeIn' <= MaxHandle + Rest + 1 /\ Sleep(Rest) \in Nat
    BY <2>1 DEF TypeOK, Sleep
  <2>3. ConsumerOK'
    BY <2>1, <2>2 DEF ConsumerOK, Sleep
  <2> QED
    BY <2>1, <2>2, <2>3 DEF TypeOK
<1>6. CASE Tick
  <2>1. produceIn' \in 0..(Period + 1)
    BY <1>6 DEF Tick, ProducerReady, TypeOK
  <2>2. /\ consumeIn' \in Nat /\ consumeIn' <= consumeIn /\ consumer' = consumer
        /\ consumeIn \in Nat
    BY <1>6 DEF Tick, ConsumerReady, TypeOK
  <2>3. consumeIn' <= MaxHandle + Rest + 1
    BY <2>2 DEF TypeOK
  <2>4. ConsumerOK'
    BY <2>2 DEF ConsumerOK, Sleep
  <2> QED
    BY <1>6, <2>1, <2>2, <2>3, <2>4 DEF Tick, TypeOK
<1>7. CASE UNCHANGED vars
  BY <1>7 DEF TypeOK, ConsumerOK
<1> QED
  BY <1>1, <1>2, <1>3, <1>4, <1>5, <1>6, <1>7 DEF Next

LEMMA InitConsumer == Init => ConsumerOK
  BY DEF Init, ConsumerOK

\* Every variable keeps its type.
THEOREM TypeCorrect == Spec => []TypeOK
  BY InitTypes, InitConsumer, NextTypes, PTL DEF Spec
-----------------------------------------------------------------------------
(* The order of the events.                                                *)

\* A place in one sequence, in the next, or behind both.
LEMMA Split ==
  ASSUME NEW a \in Nat, NEW b \in Nat, NEW i \in 1..(a + b + 1)
  PROVE  i <= a \/ (a < i /\ i <= a + b) \/ i = a + b + 1
  OBVIOUS

\* Put adds to the end of what has gone in line, get only moves the border.
LEMMA Joined ==
  ASSUME NEW S, NEW t \in Seq(S), NEW q \in Seq(S)
  PROVE  /\ t \o q \in Seq(S) /\ Len(t \o q) = Len(t) + Len(q)
         /\ \A x \in S : t \o Append(q, x) = Append(t \o q, x)
         /\ q # <<>> => Append(t, Head(q)) \o Tail(q) = t \o q
<1>1. /\ t \o q \in Seq(S) /\ Len(t \o q) = Len(t) + Len(q)
      /\ \A i \in 1..Len(t) + Len(q) : (t \o q)[i] = IF i <= Len(t) THEN t[i] ELSE q[i - Len(t)]
      /\ Len(t) \in Nat /\ Len(q) \in Nat
  BY ConcatProperties, LenProperties
<1>2. ASSUME NEW x \in S PROVE t \o Append(q, x) = Append(t \o q, x)
  <2> DEFINE p == Append(q, x)  u == t \o p  v == Append(t \o q, x)
  <2>1. /\ p \in Seq(S) /\ Len(p) = Len(q) + 1 /\ p[Len(q) + 1] = x
        /\ \A i \in 1..Len(q) : p[i] = q[i]
    BY Appended
  <2>2. /\ v \in Seq(S) /\ Len(v) = Len(t) + Len(q) + 1 /\ v[Len(t) + Len(q) + 1] = x
        /\ \A i \in 1..Len(t) + Len(q) : v[i] = (t \o q)[i]
    BY <1>1, Appended
  <2> HIDE DEF p, v
  <2>3. /\ u \in Seq(S) /\ Len(u) = Len(t) + Len(p)
        /\ \A i \in 1..Len(t) + Len(p) : u[i] = IF i <= Len(t) THEN t[i] ELSE p[i - Len(t)]
    BY <2>1, ConcatProperties
  <2> HIDE DEF u
  <2>4. ASSUME NEW i \in 1..Len(u) PROVE u[i] = v[i]
    <3>1. CASE i <= Len(t)
      <4>1. /\ i \in 1..Len(t) + Len(p) /\ i \in 1..Len(t) + Len(q)
        BY <1>1, <2>1, <2>3, <3>1
      <4> QED
        BY <1>1, <2>2, <2>3, <3>1, <4>1
    <3>2. CASE Len(t) < i /\ i <= Len(t) + Len(q)
      <4>1. /\ i \in 1..Len(t) + Len(p) /\ i \in 1..Len(t) + Len(q)
            /\ i - Len(t) \in 1..Len(q) /\ ~ i <= Len(t)
        BY <1>1, <2>1, <2>3, <3>2
      <4>2. u[i] = q[i - Len(t)] /\ v[i] = q[i - Len(t)]
        BY <1>1, <2>1, <2>2, <2>3, <4>1
      <4> QED
        BY <4>2
    <3>3. CASE i = Len(t) + Len(q) + 1
      BY <1>1, <2>1, <2>2, <2>3, <3>3
    <3>4. i \in 1..(Len(t) + Len(q) + 1)
      BY <1>1, <2>1, <2>3
    <3>5. i <= Len(t) \/ (Len(t) < i /\ i <= Len(t) + Len(q)) \/ i = Len(t) + Len(q) + 1
      BY <1>1, <3>4, Split
    <3> QED
      BY <3>1, <3>2, <3>3, <3>5
  <2>5. Len(u) = Len(v)
    BY <1>1, <2>1, <2>2, <2>3
  <2>6. u = v
    BY <2>2, <2>3, <2>4, <2>5, SeqEqual
  <2> QED
    BY <2>6 DEF p, u, v
<1>3. ASSUME q # <<>> PROVE Append(t, Head(q)) \o Tail(q) = t \o q
  <2> DEFINE p == Append(t, Head(q))  r == Tail(q)  u == p \o r
  <2>1. /\ Len(q) # 0 /\ Head(q) = q[1] /\ Head(q) \in S
        /\ r \in Seq(S) /\ Len(r) = Len(q) - 1
        /\ \A i \in 1..Len(r) : r[i] = q[i + 1]
    BY <1>3, Tailed
  <2>2. /\ p \in Seq(S) /\ Len(p) = Len(t) + 1 /\ p[Len(t) + 1] = q[1]
        /\ \A i \in 1..Len(t) : p[i] = t[i]
    BY <2>1, Appended
  <2> HIDE DEF p, r
  <2>3. /\ u \in Seq(S) /\ Len(u) = Len(p) + Len(r)
        /\ \A i \in 1..Len(p) + Len(r) : u[i] = IF i <= Len(p) THEN p[i] ELSE r[i - Len(p)]
    BY <2>1, <2>2, ConcatProperties
  <2> HIDE DEF u
  <2>4. ASSUME NEW i \in 1..Len(u) PROVE u[i] = (t \o q)[i]
    <3>1. CASE i <= Len(t)
      BY <1>1, <2>1, <2>2, <2>3, <3>1
    <3>2. CASE i = Len(t) + 1
      BY <1>1, <2>1, <2>2, <2>3, <3>2
    <3>3. CASE Len(t) + 1 < i
      <4>1. /\ i \in 1..Len(p) + Len(r) /\ i \in 1..Len(t) + Len(q)
            /\ ~ i <= Len(p) /\ ~ i <= Len(t)
            /\ i - Len(p) \in 1..Len(r) /\ (i - Len(p)) + 1 = i - Len(t)
        BY <1>1, <2>1, <2>2, <2>3, <3>3
      <4>2. u[i] = r[i - Len(p)] /\ (t \o q)[i] = q[i - Len(t)]
        BY <1>1, <2>3, <4>1
      <4>3. r[i - Len(p)] = q[i - Len(t)]
        BY <2>1, <4>1
      <4> QED
        BY <4>2, <4>3
    <3> QED
      BY <1>1, <2>1, <2>2, <2>3, <3>1, <3>2, <3>3
  <2>5. Len(u) = Len(t \o q)
    BY <1>1, <2>1, <2>2, <2>3
  <2>6. u = t \o q
    BY <1>1, <2>3, <2>4, <2>5, SeqEqual
  <2> QED
    BY <2>6 DEF p, r, u
<1> QED
  BY <1>1, <1>2, <1>3

\* EventsInOrder, of a line w of events, the number of those published and the
\* lost ones; and nothing in the line or lost has yet to be published.
Line(w, n, gone) ==
    /\ \A i, j \in 1..Len(w) : i < j => w[i] < w[j]
    /\ \A k \in 1..n : k \in gone <=> \A i \in 1..Len(w) : w[i] # k
    /\ \A i \in 1..Len(w) : w[i] <= n
    /\ \A k \in gone : k <= n

Ordered == Line(Went, published, lost)

LEMMA LineGrows ==
  ASSUME NEW w \in Seq(Nat), NEW n \in Nat, NEW gone \in SUBSET Nat, Line(w, n, gone)
  PROVE  /\ Line(Append(w, n + 1), n + 1, gone)
         /\ Line(w, n + 1, gone \cup {n + 1})
<1> DEFINE v == Append(w, n + 1)
<1>1. /\ v \in Seq(Nat) /\ Len(w) \in Nat /\ Len(v) = Len(w) + 1 /\ v[Len(w) + 1] = n + 1
      /\ \A i \in 1..Len(w) : v[i] = w[i] /\ w[i] \in Nat
  BY Appended, ElementOfSeq
<1> HIDE DEF v
<1>2. \A i \in 1..Len(v) : (i \in 1..Len(w) /\ v[i] = w[i]) \/ (i = Len(w) + 1 /\ v[i] = n + 1)
  <2>1. \A i \in 1..Len(v) : i \in 1..Len(w) \/ i = Len(w) + 1
    BY <1>1
  <2> QED
    BY <1>1, <2>1, Zenon
<1>3. \A i \in 1..Len(w) : i \in 1..Len(v) /\ v[i] = w[i]
  BY <1>1
<1>4. Len(w) + 1 \in 1..Len(v)
  BY <1>1
<1>5. \A k \in 1..(n + 1) : k \in 1..n \/ k = n + 1
  OBVIOUS
<1>6. Line(v, n + 1, gone)
  <2>1. ASSUME NEW i \in 1..Len(v), NEW j \in 1..Len(v), i < j PROVE v[i] < v[j]
    <3>1. i \in 1..Len(w) /\ v[i] = w[i]
      BY <1>1, <2>1, <1>2
    <3>2. w[i] < n + 1
      BY <1>1, <3>1 DEF Line
    <3> QED
      BY <1>2, <2>1, <3>1, <3>2 DEF Line
  <2>2. ASSUME NEW k \in 1..(n + 1) PROVE k \in gone <=> \A i \in 1..Len(v) : v[i] # k
    <3>1. CASE k = n + 1
      <4>1. k \notin gone
        BY <3>1 DEF Line
      <4> QED
        BY <1>1, <1>4, <3>1, <4>1
    <3>2. CASE k \in 1..n
      <4>1. k # n + 1
        BY <3>2
      <4>2. ASSUME \A i \in 1..Len(w) : w[i] # k, NEW i \in 1..Len(v) PROVE v[i] # k
        BY <1>2, <4>1, <4>2, Zenon
      <4>3. ASSUME \A i \in 1..Len(v) : v[i] # k, NEW i \in 1..Len(w) PROVE w[i] # k
        BY <1>3, <4>3, Zenon
      <4> QED
        BY <3>2, <4>2, <4>3 DEF Line
    <3> QED
      BY <1>5, <3>1, <3>2
  <2>3. \A i \in 1..Len(v) : v[i] <= n + 1
    BY <1>1, <1>2 DEF Line
  <2>4. \A k \in gone : k <= n + 1
    BY DEF Line
  <2> QED
    BY <2>1, <2>2, <2>3, <2>4 DEF Line
<1>7. Line(w, n + 1, gone \cup {n + 1})
  <2>1. \A i \in 1..Len(w) : w[i] # n + 1 /\ w[i] <= n + 1
    BY <1>1 DEF Line
  <2>2. \A k \in 1..(n + 1) : k \in gone \cup {n + 1} <=> \A i \in 1..Len(w) : w[i] # k
    BY <1>5, <2>1 DEF Line
  <2>3. \A k \in gone \cup {n + 1} : k <= n + 1
    BY DEF Line
  <2> QED
    BY <2>1, <2>2, <2>3 DEF Line
<1> QED
  BY <1>6, <1>7 DEF v

LEMMA InitOrder == Init => Ordered
<1> SUFFICES ASSUME Init PROVE Ordered
  OBVIOUS
<1>1. Went = <<>> /\ published = 0 /\ lost = {}
  BY ConcatEmptySeq, EmptySeq DEF Init, Went
<1>2. \A i \in 1..Len(<<>>) : FALSE
  BY EmptySeq
<1> QED
  BY <1>1, <1>2 DEF Ordered, Line

LEMMA NextOrder == TypeOK /\ Ordered /\ [Next]_vars => Ordered'
<1> SUFFICES ASSUME TypeOK, Ordered, [Next]_vars PROVE Ordered'
  OBVIOUS
<1>0. /\ handled \in Seq(Nat) /\ queue \in Seq(Nat) /\ published \in Nat
      /\ lost \in SUBSET Nat /\ Went \in Seq(Nat)
  <2>1. handled \in Seq(Nat) /\ queue \in Seq(Nat) /\ published \in Nat /\ lost \in SUBSET Nat
    BY DEF TypeOK
  <2> QED
    BY <2>1, Joined DEF Went
<1>1. CASE PublishA \/ PublishB
  <2>1. push_event /\ published' = published + 1 /\ handled' = handled
    BY <1>1 DEF PublishA, PublishB
  <2>2. CASE queue' = Append(queue, published + 1) /\ lost' = lost
    <3>1. Went' = Append(Went, published + 1)
      BY <1>0, <2>1, <2>2, Joined DEF Went
    <3> QED
      BY <1>0, <2>1, <2>2, <3>1, LineGrows DEF Ordered
  <2>3. CASE queue' = queue /\ lost' = lost \cup {published + 1}
    <3>1. Went' = Went
      BY <2>1, <2>3 DEF Went
    <3> QED
      BY <1>0, <2>1, <2>3, <3>1, LineGrows DEF Ordered
  <2> QED
    BY <2>1, <2>2, <2>3, Pushed
<1>2. CASE Get
  <2>1. /\ queue # <<>> /\ queue' = Tail(queue) /\ handled' = Append(handled, Head(queue))
        /\ published' = published /\ lost' = lost
    BY <1>2 DEF Get
  <2>2. Went' = Went
    BY <1>0, <2>1, Joined DEF Went
  <2> QED
    BY <2>1, <2>2 DEF Ordered
<1>3. CASE WakeProducer \/ StartRest \/ Wake \/ Tick \/ UNCHANGED vars
  <2>1. UNCHANGED <<published, queue, handled>> /\ lost' = lost
    BY <1>3 DEF WakeProducer, StartRest, Wake, Tick
  <2> QED
    BY <2>1 DEF Ordered, Went
<1> QED
  BY <1>1, <1>2, <1>3 DEF Next

\* Events are handled in the order of their publication, each once, and all that
\* are not lost go in line, whatever the lengths of the sleeps and of the queue.
THEOREM InOrder == Spec => []EventsInOrder
<1>1. Ordered => EventsInOrder
  BY DEF Ordered, Line, EventsInOrder
<1>2. Spec => []Ordered
  BY InitOrder, NextOrder, TypeCorrect, PTL DEF Spec
<1> QED
  BY <1>1, <1>2, PTL
-----------------------------------------------------------------------------
(* How far main is behind.                                                 *)

\* How long main is still kept by the event it has.
Kept == IF consumer = "waiting" THEN 0
        ELSE IF consumer = "busy" THEN consumeIn + Sleep(Rest) ELSE consumeIn

\* How long the events in the queue will keep it, at most.
Waiting == Len(queue) * Turn

Behind == Waiting + Kept

\* What the excess of all the periods has added up to, twice.
Drift == published * Excess

\* Main is behind by no more than the drift and what is left of the period.
Pace ==
    /\ producer = "A"     => 2 * Behind <= Drift
    /\ producer = "B"     => 2 * Behind + Excess <= Drift + 2 * Turn
    /\ producer = "sleep" => 2 * Behind <= Drift + 2 * produceIn

IInv == TypeOK /\ ConsumerOK /\ Pace /\ LostOnlyBehind

\* One event keeps main for a tick at least, and two for a period and the excess.
LEMMA Times ==
  /\ Turn \in Nat /\ Turn >= 1 /\ Turn >= Sleep(Rest) /\ Sleep(Rest) \in Nat
  /\ Excess \in Nat /\ Sleep(Period) \in Nat /\ 2 * Turn <= Sleep(Period) + Excess
  BY TimesAssumption DEF Turn, Excess, Sleep

\* Products with one factor of one more and one less.
LEMMA Product ==
  ASSUME NEW a \in Nat, NEW t \in Nat
  PROVE  /\ a * t \in Nat /\ (a + 1) * t = a * t + t
         /\ (a - 1) * t = a * t - t
         /\ 2 * (a - 1) * t = 2 * (a * t) - 2 * t
  OBVIOUS

LEMMA PaceTypes ==
  ASSUME TypeOK
  PROVE  Kept \in Nat /\ Waiting \in Nat /\ Behind \in Nat /\ Drift \in Nat
<1>1. Kept \in Nat
  BY Times DEF TypeOK, Kept
<1>2. Waiting \in Nat
  BY Times, Product, LenProperties DEF TypeOK, Waiting
<1>3. Drift \in Nat
  BY Times, Product DEF TypeOK, Drift
<1> QED
  BY <1>1, <1>2, <1>3 DEF Behind

\* What the steps below add up.
LEMMA Sums ==
  ASSUME NEW b \in Nat, NEW c \in Nat, NEW d \in Nat, NEW t \in Nat, NEW e \in Nat,
         NEW s \in Nat
  PROVE  /\ c <= b + t /\ 2 * b <= d => 2 * c + e <= (d + e) + 2 * t
         /\ c <= b + t /\ 2 * b + e <= d + 2 * t /\ 2 * t <= s + e
                => 2 * c <= (d + e) + 2 * s
         /\ c <= b /\ 2 * b <= d => 2 * c <= d
         /\ c <= b /\ 2 * b + e <= d + t => 2 * c + e <= d + t
         /\ c <= b + t => c + e \in Nat /\ c + e <= (b + e) + t
         /\ c = b - t /\ e <= t => c + e \in Nat /\ c + e <= b
  OBVIOUS

LEMMA Sleeps ==
  ASSUME NEW b \in Nat, NEW c \in Nat, NEW d \in Nat, NEW p \in Nat, 2 * b <= d + 2 * p
  PROVE  /\ c <= b => 2 * c <= d + 2 * p
         /\ c <= b /\ p = 0 => 2 * c <= d
         /\ p # 0 /\ c = b - 1 => 2 * c <= d + 2 * (p - 1)
         /\ p # 0 /\ c = 0 => 2 * c <= d + 2 * (p - 1)
  OBVIOUS

\* The constants of a step.
LEMMA Constants == Turn' = Turn /\ Excess' = Excess
  BY DEF Turn, Excess, Sleep

\* An event is lost only when main is behind by a full queue.
LEMMA Full ==
  ASSUME TypeOK, Len(queue) = QueueSize
  PROVE  2 * (QueueSize - 1) * Turn <= 2 * Behind - 2 * Turn
<1>1. QueueSize \in Nat /\ Turn \in Nat /\ Kept \in Nat
  BY TimesAssumption, Times, PaceTypes
<1>2. Waiting = QueueSize * Turn
  BY DEF Waiting
<1>3. QueueSize * Turn \in Nat /\ 2 * (QueueSize - 1) * Turn = 2 * (QueueSize * Turn) - 2 * Turn
  BY <1>1, Product
<1> QED
  BY <1>1, <1>2, <1>3 DEF Behind

\* A publication keeps main a turn longer at most, and adds the excess to the drift.
LEMMA Publishes ==
  ASSUME IInv, push_event, published' = published + 1, consumer' = consumer,
         consumeIn' = consumeIn, producer \in {"A", "B"}
  PROVE  /\ Behind' \in Nat /\ Behind' <= Behind + Turn /\ Drift' = Drift + Excess
         /\ LostOnlyBehind'
<1>1. /\ TypeOK /\ Behind \in Nat /\ Drift \in Nat /\ Kept \in Nat /\ Waiting \in Nat
      /\ Turn \in Nat /\ Excess \in Nat
  BY PaceTypes, Times DEF IInv
<1>2. Kept' = Kept
  BY DEF Kept, Sleep
<1>3. Drift' = Drift + Excess
  BY <1>1, Constants, Product DEF Drift, TypeOK
<1>4. Waiting' \in Nat /\ Waiting' <= Waiting + Turn
  <2>1. Len(queue) \in Nat /\ Turn' = Turn
    BY <1>1, LenProperties, Constants DEF TypeOK
  <2>2. Len(queue') = Len(queue) + 1 \/ queue' = queue
    BY <1>1, Pushed
  <2>3. (Len(queue) + 1) * Turn = Len(queue) * Turn + Turn
    BY <1>1, <2>1, Product
  <2>4. CASE Len(queue') = Len(queue) + 1
    BY <1>1, <2>1, <2>3, <2>4 DEF Waiting
  <2>5. CASE queue' = queue
    BY <1>1, <2>1, <2>5 DEF Waiting
  <2> QED
    BY <2>2, <2>4, <2>5
<1>5. Behind' \in Nat /\ Behind' <= Behind + Turn
  <2>1. Behind' = Waiting' + Kept' /\ Behind = Waiting + Kept
    BY DEF Behind
  <2> QED
    BY <1>1, <1>2, <1>4, <2>1, Sums
<1>6. LostOnlyBehind'
  <2> DEFINE b == 2 * (QueueSize - 1) * Turn
  <2>1. b \in Int
    BY TimesAssumption, Times, Product
  <2>2. LostOnlyBehind' <=> (lost' # {} => b <= Drift')
    BY Constants DEF LostOnlyBehind, Drift
  <2>3. lost # {} => b <= Drift
    BY DEF IInv, LostOnlyBehind, Drift
  <2>4. Len(queue) = QueueSize => b <= 2 * Behind - 2 * Turn
    BY <1>1, Full
  <2> HIDE DEF b
  <2>5. 2 * Behind - 2 * Turn <= Drift
    BY <1>1 DEF IInv, Pace
  <2>6. lost' = lost \/ Len(queue) = QueueSize
    BY <1>1, Pushed
  <2> QED
    BY <1>1, <1>3, <2>1, <2>2, <2>3, <2>4, <2>5, <2>6
<1> QED
  BY <1>3, <1>5, <1>6

LEMMA PublishPace ==
  ASSUME IInv, PublishA \/ PublishB
  PROVE  Pace' /\ LostOnlyBehind'
<1>1. /\ Behind \in Nat /\ Drift \in Nat /\ Turn \in Nat /\ Excess \in Nat
      /\ Sleep(Period) \in Nat /\ 2 * Turn <= Sleep(Period) + Excess /\ Turn' = Turn
      /\ Excess' = Excess
  BY PaceTypes, Times, Constants DEF IInv
<1>2. /\ Behind' \in Nat /\ Behind' <= Behind + Turn /\ Drift' = Drift + Excess
      /\ LostOnlyBehind'
  BY Publishes DEF PublishA, PublishB
<1>3. CASE PublishA
  <2>1. producer = "A" /\ producer' = "B"
    BY <1>3 DEF PublishA
  <2>2. 2 * Behind <= Drift
    BY <2>1 DEF IInv, Pace
  <2>3. 2 * Behind' + Excess <= (Drift + Excess) + 2 * Turn
    BY <1>1, <1>2, <2>2, Sums
  <2> QED
    BY <1>1, <1>2, <2>1, <2>3 DEF Pace
<1>4. CASE PublishB
  <2>1. producer = "B" /\ producer' = "sleep" /\ produceIn' = Sleep(Period)
    BY <1>4 DEF PublishB
  <2>2. 2 * Behind + Excess <= Drift + 2 * Turn
    BY <2>1 DEF IInv, Pace
  <2>3. 2 * Behind' <= (Drift + Excess) + 2 * Sleep(Period)
    BY <1>1, <1>2, <2>2, Sums
  <2> QED
    BY <1>2, <2>1, <2>3 DEF Pace
<1> QED
  BY <1>2, <1>3, <1>4

\* The other steps bring main no further behind.
LEMMA Passing ==
  ASSUME IInv, published' = published, lost' = lost, Behind' \in Nat, Behind' <= Behind,
         \/ producer' = producer /\ produceIn' = produceIn
         \/ producer # "sleep" /\ producer' = producer
         \/ producer = "sleep" /\ produceIn = 0 /\ producer' = "A"
         \/ /\ producer = "sleep" /\ producer' = "sleep"
            /\ produceIn' = produceIn - 1 /\ (Behind' = Behind - 1 \/ Behind' = 0)
            /\ produceIn # 0
  PROVE  Pace' /\ LostOnlyBehind'
<1>1. /\ Behind \in Nat /\ Drift \in Nat /\ Drift' = Drift /\ Turn' = Turn /\ Excess' = Excess
      /\ produceIn \in Nat /\ Turn \in Nat /\ Excess \in Nat
  BY PaceTypes, Times, Constants DEF IInv, Drift, TypeOK
<1>2. LostOnlyBehind'
  BY <1>1 DEF IInv, LostOnlyBehind
<1>3. /\ producer = "A"     => 2 * Behind <= Drift
      /\ producer = "B"     => 2 * Behind + Excess <= Drift + 2 * Turn
      /\ producer = "sleep" => 2 * Behind <= Drift + 2 * produceIn
  BY DEF IInv, Pace
<1>4. ASSUME producer' = "A" PROVE 2 * Behind' <= Drift'
  <2>1. CASE producer = "A"
    BY <1>1, <1>3, <2>1, Sums
  <2>2. CASE producer = "sleep" /\ produceIn = 0
    BY <1>1, <1>3, <2>2, Sleeps
  <2> QED
    BY <1>4, <2>1, <2>2
<1>5. ASSUME producer' = "B" PROVE 2 * Behind' + Excess <= Drift' + 2 * Turn
  <2>1. producer = "B" /\ 2 * Turn \in Nat
    BY <1>1, <1>5
  <2> QED
    BY <1>1, <1>3, <2>1, Sums
<1>6. ASSUME producer' = "sleep" PROVE 2 * Behind' <= Drift' + 2 * produceIn'
  <2>1. producer = "sleep" /\ 2 * Behind <= Drift + 2 * produceIn
    BY <1>3, <1>6
  <2>2. CASE produceIn' = produceIn
    BY <1>1, <2>1, <2>2, Sleeps
  <2>3. CASE produceIn' = produceIn - 1 /\ produceIn # 0 /\ (Behind' = Behind - 1 \/ Behind' = 0)
    BY <1>1, <2>1, <2>3, Sleeps
  <2> QED
    BY <1>6, <2>1, <2>2, <2>3
<1>7. Pace'
  BY <1>1, <1>4, <1>5, <1>6 DEF Pace
<1> QED
  BY <1>2, <1>7

LEMMA GetPace ==
  ASSUME IInv, Get
  PROVE  Pace' /\ LostOnlyBehind'
<1>1. PICK d \in 0..MaxHandle :
          /\ consumer = "waiting" /\ queue # <<>> /\ queue' = Tail(queue)
          /\ consumer' = "busy" /\ consumeIn' = d
          /\ UNCHANGED <<published, producer, produceIn>> /\ lost' = lost
  BY DEF Get
<1>2. /\ TypeOK /\ Turn \in Nat /\ Turn' = Turn /\ Waiting \in Nat /\ queue \in Seq(Nat)
  BY PaceTypes, Times, Constants DEF IInv, TypeOK
<1>3. Len(queue) \in Nat \ {0} /\ Len(queue') = Len(queue) - 1
  BY <1>1, <1>2, Tailed
<1>4. Waiting' = Waiting - Turn /\ Waiting' \in Nat
  <2>1. Waiting' = (Len(queue) - 1) * Turn
    BY <1>2, <1>3 DEF Waiting
  <2>2. (Len(queue) - 1) * Turn = Len(queue) * Turn - Turn
    BY <1>2, <1>3, Product
  <2>3. Len(queue) - 1 \in Nat
    BY <1>3
  <2>4. (Len(queue) - 1) * Turn \in Nat
    BY <1>2, <2>3, Product
  <2> QED
    BY <2>1, <2>2, <2>4 DEF Waiting
<1>5. Kept = 0 /\ Kept' \in Nat /\ Kept' <= Turn
  BY <1>1, TimesAssumption DEF Kept, Turn, Sleep
<1>6. Behind' \in Nat /\ Behind' <= Behind
  <2>1. Behind' = Waiting' + Kept' /\ Behind = Waiting + 0
    BY <1>5 DEF Behind
  <2>2. Waiting' + Kept' \in Nat /\ Waiting' + Kept' <= Waiting
    BY <1>2, <1>4, <1>5, Sums
  <2> QED
    BY <1>2, <2>1, <2>2
<1> QED
  BY <1>1, <1>6, Passing

LEMMA ConsumerPace ==
  ASSUME IInv, StartRest \/ Wake
  PROVE  Pace' /\ LostOnlyBehind'
<1>1. UNCHANGED <<published, producer, queue, produceIn>> /\ lost' = lost
  BY DEF StartRest, Wake
<1>2. Kept' = Kept
  <2>1. CASE StartRest
    BY <2>1, Times DEF StartRest, Kept
  <2>2. CASE Wake
    BY <2>2 DEF Wake, Kept
  <2> QED
    BY <2>1, <2>2
<1>3. Behind' = Behind /\ Behind \in Nat
  BY <1>1, <1>2, Constants, PaceTypes DEF Behind, Waiting, IInv
<1> QED
  BY <1>1, <1>3, Passing

LEMMA TickPace ==
  ASSUME IInv, Tick
  PROVE  Pace' /\ LostOnlyBehind'
<1>1. /\ UNCHANGED <<published, producer, queue, consumer>> /\ lost' = lost
      /\ producer = "sleep" => produceIn' = produceIn - 1 /\ produceIn # 0
  BY DEF Tick, ProducerReady
<1>2. Behind \in Nat /\ Waiting' = Waiting /\ Waiting \in Nat /\ Kept \in Nat
  BY <1>1, Constants, PaceTypes DEF Waiting, IInv
<1>3. Behind' \in Nat /\ (Behind' = Behind - 1 \/ (Behind' = 0 /\ Behind = 0))
  <2>1. CASE consumer = "waiting"
    <3>1. queue = <<>>
      BY <2>1 DEF Tick, ConsumerReady
    <3>2. Waiting = 0
      BY <3>1, EmptySeq, Times DEF Waiting
    <3>3. Kept' = 0 /\ Kept = 0
      BY <1>1, <2>1 DEF Kept
    <3> QED
      BY <1>2, <3>2, <3>3 DEF Behind
  <2>2. CASE consumer # "waiting"
    <3>1. consumeIn # 0 /\ consumeIn' = consumeIn - 1 /\ consumeIn \in Nat
      BY <2>2 DEF Tick, ConsumerReady, IInv, TypeOK
    <3>2. Kept' = Kept - 1 /\ Kept' \in Nat
      BY <1>1, <2>2, <3>1, TimesAssumption DEF Kept, Sleep
    <3> QED
      BY <1>2, <3>2 DEF Behind
  <2> QED
    BY <2>1, <2>2
<1>4. Behind' <= Behind
  BY <1>2, <1>3
<1> QED
  BY <1>1, <1>3, <1>4, Passing

LEMMA InitPace == Init => IInv
<1> SUFFICES ASSUME Init PROVE IInv
  OBVIOUS
<1>1. TypeOK /\ ConsumerOK
  BY InitTypes, InitConsumer
<1>2. Waiting = 0 /\ Kept = 0 /\ Drift = 0
  BY EmptySeq, Times DEF Init, Waiting, Kept, Drift
<1>3. Pace
  BY <1>2 DEF Init, Pace, Behind
<1> QED
  BY <1>1, <1>3 DEF IInv, LostOnlyBehind, Init

LEMMA NextPace == IInv /\ [Next]_vars => IInv'
<1> SUFFICES ASSUME IInv, [Next]_vars PROVE Pace' /\ LostOnlyBehind'
  BY NextTypes DEF IInv
<1>1. CASE WakeProducer
  <2>1. /\ UNCHANGED <<published, queue, consumer, consumeIn>> /\ lost' = lost
        /\ producer = "sleep" /\ produceIn = 0 /\ producer' = "A"
    BY <1>1 DEF WakeProducer
  <2>2. Behind' = Behind /\ Behind \in Nat
    BY <2>1, Constants, PaceTypes DEF Behind, Waiting, Kept, Sleep, IInv
  <2> QED
    BY <2>1, <2>2, Passing
<1>2. CASE UNCHANGED vars
  <2>1. Behind' = Behind /\ Behind \in Nat
    BY <1>2, Constants, PaceTypes DEF Behind, Waiting, Kept, Sleep, IInv
  <2> QED
    BY <1>2, <2>1, Passing
<1> QED
  BY <1>1, <1>2, PublishPace, GetPace, ConsumerPace, TickPace DEF Next

\* Main is never behind by more than the excess of the periods.
THEOREM Invariance == Spec => []IInv
  BY InitPace, NextPace, PTL DEF Spec

\* No event is lost before the excess of all the periods is what the queue can
\* hold back; with sleeps that leave no excess, and a queue of two, none ever is.
THEOREM LossComesLate ==
  /\ Spec => []LostOnlyBehind
  /\ Excess = 0 /\ QueueSize >= 2 => (Spec => []EveryEventQueued)
<1>1. IInv => LostOnlyBehind
  BY DEF IInv
<1>2. Spec => []LostOnlyBehind
  BY <1>1, Invariance, PTL
<1>3. ASSUME Excess = 0, QueueSize >= 2 PROVE Spec => []EveryEventQueued
  <2>1. IInv => EveryEventQueued
    <3> SUFFICES ASSUME IInv, lost # {} PROVE FALSE
      BY DEF EveryEventQueued
    <3>1. 2 * (QueueSize - 1) * Turn <= published * Excess
      BY DEF IInv, LostOnlyBehind
    <3>2. published * Excess = 0
      BY <1>3 DEF IInv, TypeOK
    <3>3. QueueSize - 2 \in Nat /\ Turn \in Nat /\ Turn >= 1 /\ QueueSize \in Nat
      BY <1>3, Times, TimesAssumption
    <3>4. (QueueSize - 2) * Turn \in Nat /\ ((QueueSize - 2) + 1) * Turn = (QueueSize - 2) * Turn + Turn
      BY <3>3, Product
    <3>5. 2 * (QueueSize - 1) * Turn = 2 * (((QueueSize - 2) + 1) * Turn)
      BY <3>3
    <3> QED
      BY <3>1, <3>2, <3>3, <3>4, <3>5
  <2> QED
    BY <2>1, Invariance, PTL
<1> QED
  BY <1>2, <1>3
=============================================================================

------------------------- MODULE RequestReply_proof -------------------------
(* Proofs about RequestReply, for any clients and modules, any number of   *)
(* requests and any length of the queues.                                  *)
EXTENDS RequestReply, SequenceTheorems, FiniteSetTheorems, TLAPS, Integers

USE DEF clientVars, busVars, moduleVars, vars
-----------------------------------------------------------------------------
(* Queues.                                                                 *)

\* A put leaves a queue as it is or adds one to its end.
LEMMA PutQueue ==
  ASSUME NEW S, NEW q \in Seq(S), NEW item \in S, NEW size \in Nat, Len(q) <= size
  PROVE  /\ Put(q, item, size) \in {q, Append(q, item)}
         /\ Put(q, item, size) \in Seq(S) /\ Len(Put(q, item, size)) <= size
<1>1. Append(q, item) \in Seq(S) /\ Len(Append(q, item)) = Len(q) + 1
  BY AppendProperties
<1>2. Len(q) \in Nat
  BY LenProperties
<1> QED
  BY <1>1, <1>2 DEF Put

\* What Append does, place by place.
LEMMA Appended ==
  ASSUME NEW S, NEW q \in Seq(S), NEW item \in S
  PROVE  LET p == Append(q, item)
         IN  /\ p \in Seq(S) /\ Len(q) \in Nat /\ Len(p) = Len(q) + 1
             /\ p[Len(q) + 1] = item
             /\ \A i \in 1..Len(q) : p[i] = q[i]
             /\ \A i \in 1..Len(p) : i \in 1..Len(q) \/ i = Len(q) + 1
<1>1. LET p == Append(q, item)
      IN  /\ p \in Seq(S) /\ Len(q) \in Nat /\ Len(p) = Len(q) + 1
          /\ p[Len(q) + 1] = item
          /\ \A i \in 1..Len(q) : p[i] = q[i]
  BY AppendProperties, LenProperties
<1>2. \A n \in Nat : \A i \in 1..(n + 1) : i \in 1..n \/ i = n + 1
  OBVIOUS
<1> QED
  BY <1>1, <1>2

\* And Tail.
LEMMA Tailed ==
  ASSUME NEW S, NEW q \in Seq(S), q # <<>>
  PROVE  /\ Len(q) \in Nat \ {0} /\ Head(q) = q[1] /\ Head(q) \in S
         /\ Tail(q) \in Seq(S) /\ Len(Tail(q)) = Len(q) - 1
         /\ \A i \in 1..Len(Tail(q)) : Tail(q)[i] = q[i + 1]
  BY HeadTailProperties, EmptySeq, LenProperties
-----------------------------------------------------------------------------
(* Types.                                                                  *)

LEMMA Messages ==
  /\ NoMessage \notin Request /\ NoMessage.client \notin Clients
  /\ \A c \in Clients, n \in 1..MaxRequests : [client |-> c, req |-> n] \in Request
  /\ \A m \in Modules, c \in Clients, n \in 1..MaxRequests :
         [from |-> m, to |-> c, req |-> n] \in Reply
  BY NobodyAssumption DEF NoMessage, Request, Reply

LEMMA InitTypes == Init => TypeOK
<1>1. <<>> \in Seq(Reply) /\ <<>> \in Seq(Request) /\ Len(<<>>) = 0
  BY EmptySeq
<1> QED
  BY <1>1, SizesAssumption DEF Init, TypeOK

\* A client that is not free has sent a request, and the channel's client has
\* the channel; a module that does not wait has a message.
BusInv ==
    /\ \A c \in Clients :
           /\ pc[c] # "free" => req[c] # 0
           /\ pc[c] = "publishing" =>
                  lock = c /\ chan = [client |-> c, req |-> req[c]]
    /\ \A m \in Modules : state[m] # "waiting" => msg[m] # NoMessage

LEMMA InitBus == Init => BusInv
  BY DEF Init, BusInv

LEMMA ClientTypes ==
  ASSUME TypeOK, BusInv, NEW c \in Clients, Client(c)
  PROVE  TypeOK' /\ BusInv'
<1> USE SizesAssumption, NobodyAssumption
<1>1. CASE Send(c)
  <2>1. req[c] + 1 \in 1..MaxRequests
    BY <1>1 DEF Send, TypeOK
  <2>2. <<>> \in Seq(Reply) /\ Len(<<>>) = 0
    BY EmptySeq
  <2>3. TypeOK'
    BY <1>1, <2>1, <2>2 DEF Send, TypeOK
  <2>4. BusInv'
    BY <1>1, <2>1 DEF Send, TypeOK, BusInv
  <2> QED
    BY <2>3, <2>4
<1>2. CASE Publish(c)
  <2>1. req[c] \in 1..MaxRequests
    BY <1>2 DEF Publish, TypeOK, BusInv
  <2>2. TypeOK'
    BY <1>2, <2>1, Messages DEF Publish, TypeOK
  <2>3. BusInv'
    BY <1>2 DEF Publish, TypeOK, BusInv
  <2> QED
    BY <2>2, <2>3
<1>3. CASE PublishFails(c) \/ Published(c)
  BY <1>3 DEF PublishFails, Published, TypeOK, BusInv
<1>4. ASSUME NEW m \in Modules, Callback(c, m) PROVE TypeOK' /\ BusInv'
  <2>1. chan \in Request
    BY <1>4, Messages DEF Callback, TypeOK, BusInv
  <2>2. /\ Put(inbox[m], chan, InboxSize) \in Seq(Request)
        /\ Len(Put(inbox[m], chan, InboxSize)) <= InboxSize
    BY <2>1, PutQueue DEF TypeOK
  <2>3. TypeOK'
    BY <1>4, <2>2 DEF Callback, TypeOK
  <2>4. BusInv'
    BY <1>4 DEF Callback, BusInv
  <2> QED
    BY <2>3, <2>4
<1>5. CASE GetReply(c)
  BY <1>5 DEF GetReply, TypeOK, BusInv
<1>6. CASE Take(c)
  <2>1. replies[c] \in Seq(Reply) /\ replies[c] # <<>>
    BY <1>6 DEF Take, TypeOK
  <2>2. /\ Head(replies[c]) \in Reply /\ Tail(replies[c]) \in Seq(Reply)
        /\ Len(Tail(replies[c])) = Len(replies[c]) - 1 /\ Len(replies[c]) \in Nat
    BY <2>1, Tailed
  <2>3. Append(taken[c], Head(replies[c])) \in Seq(Reply)
    BY <2>2, Appended DEF TypeOK
  <2>4. TypeOK'
    BY <1>6, <2>2, <2>3 DEF Take, TypeOK
  <2>5. BusInv'
    BY <1>6 DEF Take, TypeOK, BusInv
  <2> QED
    BY <2>4, <2>5
<1>7. CASE TimeOut(c)
  BY <1>7 DEF TimeOut, TypeOK, BusInv
<1>8. CASE Read(c)
  BY <1>8 DEF Read, TypeOK, BusInv
<1> QED
  BY <1>1, <1>2, <1>3, <1>4, <1>5, <1>6, <1>7, <1>8 DEF Client

LEMMA ModuleTypes ==
  ASSUME TypeOK, BusInv, NEW m \in Modules, Module(m)
  PROVE  TypeOK' /\ BusInv'
<1> USE SizesAssumption
<1>1. CASE GetMessage(m)
  <2>1. inbox[m] \in Seq(Request) /\ inbox[m] # <<>>
    BY <1>1 DEF GetMessage, TypeOK
  <2>2. /\ Head(inbox[m]) \in Request /\ Tail(inbox[m]) \in Seq(Request)
        /\ Len(Tail(inbox[m])) = Len(inbox[m]) - 1 /\ Len(inbox[m]) \in Nat
    BY <2>1, Tailed
  <2>3. TypeOK'
    BY <1>1, <2>2 DEF GetMessage, TypeOK
  <2>4. BusInv'
    BY <1>1, <2>2, Messages DEF GetMessage, TypeOK, BusInv
  <2> QED
    BY <2>3, <2>4
<1>2. CASE SetReply(m)
  <2>1. msg[m] \in Request
    BY <1>2 DEF SetReply, TypeOK, BusInv
  <2>2. msg[m].client \in Clients /\ msg[m].req \in 1..MaxRequests
    BY <2>1 DEF Request
  <2> DEFINE c == msg[m].client  r == [from |-> m, to |-> c, req |-> msg[m].req]
  <2>3. Put(replies[c], r, RepliesSize) \in Seq(Reply)
        /\ Len(Put(replies[c], r, RepliesSize)) <= RepliesSize
    BY <2>2, Messages, PutQueue DEF TypeOK
  <2>4. TypeOK'
    BY <1>2, <2>2, <2>3 DEF SetReply, TypeOK
  <2>5. BusInv'
    BY <1>2 DEF SetReply, TypeOK, BusInv
  <2> QED
    BY <2>4, <2>5
<1>3. CASE Replied(m)
  BY <1>3 DEF Replied, TypeOK, BusInv
<1> QED
  BY <1>1, <1>2, <1>3 DEF Module

LEMMA NextTypes == TypeOK /\ BusInv /\ [Next]_vars => TypeOK' /\ BusInv'
<1> SUFFICES ASSUME TypeOK, BusInv, [Next]_vars PROVE TypeOK' /\ BusInv'
  OBVIOUS
<1>1. CASE UNCHANGED vars
  BY <1>1 DEF TypeOK, BusInv
<1> QED
  BY <1>1, ClientTypes, ModuleTypes DEF Next

\* Every variable keeps its type.
THEOREM TypeCorrect == Spec => []TypeOK
  BY InitTypes, InitBus, NextTypes, PTL DEF Spec
-----------------------------------------------------------------------------
(* The order of a client's requests and replies at one module.             *)

\* All replies that c has had since it began, in their order.
All(c) == taken[c] \o replies[c]

\* The numbers of the requests of c that m handles and has not answered.
Held(c, m) == IF state[m] = "sleeping" /\ msg[m].client = c THEN {msg[m].req} ELSE {}

\* Numbers up to n, and less while n is owed.
UpTo(x, n, owed) == x <= n /\ (owed => x < n)

\* Requests pass from the channel to the queue q, to the module's hands h and to
\* the replies a, one at a time and none twice: m's replies, what it has in hand
\* and what waits for it have rising numbers.
Answers(c, m, a, h, q, n, owed) ==
    \A i \in 1..Len(a) : a[i].from = m =>
        /\ \A j \in 1..Len(a) : i < j /\ a[j].from = m => a[i].req < a[j].req
        /\ \A x \in h : a[i].req < x
        /\ \A k \in 1..Len(q) : q[k].client = c => a[i].req < q[k].req
        /\ UpTo(a[i].req, n, owed)
        /\ a[i].to = c
Hand(c, h, q, n, owed) ==
    \A x \in h : /\ \A k \in 1..Len(q) : q[k].client = c => x < q[k].req
                 /\ UpTo(x, n, owed)
Waiting(c, q, n, owed) ==
    \A k \in 1..Len(q) : q[k].client = c =>
        /\ \A l \in 1..Len(q) : k < l /\ q[l].client = c => q[k].req < q[l].req
        /\ UpTo(q[k].req, n, owed)

InLine(c, m, a, h, q, n, owed) ==
    /\ Answers(c, m, a, h, q, n, owed)
    /\ Hand(c, h, q, n, owed)
    /\ Waiting(c, q, n, owed)

Line(c, m) == InLine(c, m, All(c), Held(c, m), inbox[m], req[c], Owed(c, m))

LEMMA Numbers ==
  /\ \A a \in Seq(Reply) : /\ Len(a) \in Nat
                           /\ \A i \in 1..Len(a) : a[i] \in Reply
  /\ \A q \in Seq(Request) : /\ Len(q) \in Nat
                             /\ \A k \in 1..Len(q) : q[k] \in Request
  /\ \A r \in Reply : r.from \in Modules /\ r.req \in Nat \ {0}
  /\ \A r \in Request : r.client \in Clients /\ r.req \in Nat \ {0}
<1>1. /\ \A a \in Seq(Reply) : /\ Len(a) \in Nat
                               /\ \A i \in 1..Len(a) : a[i] \in Reply
      /\ \A q \in Seq(Request) : /\ Len(q) \in Nat
                                 /\ \A k \in 1..Len(q) : q[k] \in Request
  BY LenProperties, ElementOfSeq
<1>2. /\ \A r \in Reply : r.from \in Modules /\ r.req \in Nat \ {0}
      /\ \A r \in Request : r.client \in Clients /\ r.req \in Nat \ {0}
  BY SizesAssumption DEF Reply, Request
<1> QED
  BY <1>1, <1>2

\* A new request has a number above all others; purged replies leave a gap.
LEMMA LineSends ==
  ASSUME NEW c \in Clients, NEW m \in Modules, NEW a \in Seq(Reply),
         NEW b \in Seq(Reply), NEW h \in SUBSET Nat, NEW q \in Seq(Request),
         NEW n \in Nat, NEW owed \in BOOLEAN, InLine(c, m, a, h, q, n, owed),
         Len(b) <= Len(a), \A i \in 1..Len(b) : b[i] = a[i]
  PROVE  InLine(c, m, b, h, q, n + 1, TRUE)
<1>1. \A x \in Nat : UpTo(x, n, owed) => UpTo(x, n + 1, TRUE)
  BY DEF UpTo
<1>2. Hand(c, h, q, n + 1, TRUE)
  BY <1>1 DEF InLine, Hand
<1>3. Waiting(c, q, n + 1, TRUE)
  BY <1>1, Numbers DEF InLine, Waiting
<1>4. \A i \in 1..Len(b) : i \in 1..Len(a) /\ b[i] = a[i] /\ b[i].req \in Nat
  BY Numbers
<1>5. Answers(c, m, b, h, q, n + 1, TRUE)
  BY <1>1, <1>4 DEF InLine, Answers
<1> QED
  BY <1>2, <1>3, <1>5 DEF InLine

\* The message of a publication goes to the end of the queue, or is lost.
LEMMA LineCalls ==
  ASSUME NEW c \in Clients, NEW m \in Modules, NEW a \in Seq(Reply),
         NEW h \in SUBSET Nat, NEW q \in Seq(Request), NEW n \in Nat,
         NEW p, NEW r \in Request, p \in {q, Append(q, r)}, NEW owed \in BOOLEAN,
         NEW owes \in BOOLEAN, owes => owed, InLine(c, m, a, h, q, n, owed),
         r.client = c => r.req = n /\ owed /\ ~owes
  PROVE  InLine(c, m, a, h, p, n, owes)
<1>1. \A x : UpTo(x, n, owed) => UpTo(x, n, owes)
  BY DEF UpTo
<1>2. CASE p = q
  BY <1>1, <1>2 DEF InLine, Answers, Hand, Waiting
<1>3. CASE p = Append(q, r)
  <2>1. /\ Len(p) = Len(q) + 1 /\ p[Len(q) + 1] = r /\ Len(q) \in Nat
        /\ \A k \in 1..Len(q) : p[k] = q[k]
        /\ \A k \in 1..Len(p) : k \in 1..Len(q) \/ k = Len(q) + 1
    BY <1>3, Appended
  <2>2. \A k \in 1..Len(p) : \/ k \in 1..Len(q) /\ p[k] = q[k]
                             \/ k = Len(q) + 1 /\ p[k] = r
    BY <2>1, Zenon
  <2>3. r.client = c => \A x : UpTo(x, n, owed) => x < r.req /\ UpTo(r.req, n, owes)
    BY DEF UpTo
  <2>4. Answers(c, m, a, h, p, n, owes)
    BY <1>1, <2>2, <2>3 DEF InLine, Answers
  <2>5. Hand(c, h, p, n, owes)
    BY <1>1, <2>2, <2>3 DEF InLine, Hand
  <2>6. Waiting(c, p, n, owes)
    <3> SUFFICES ASSUME NEW k \in 1..Len(p), p[k].client = c
                 PROVE  /\ \A l \in 1..Len(p) : k < l /\ p[l].client = c => p[k].req < p[l].req
                        /\ UpTo(p[k].req, n, owes)
      BY DEF Waiting
    <3>1. CASE k \in 1..Len(q) /\ p[k] = q[k]
      BY <1>1, <2>2, <2>3, <3>1 DEF InLine, Waiting
    <3>2. CASE k = Len(q) + 1 /\ p[k] = r
      <4>1. UpTo(r.req, n, owes)
        BY <3>2, Numbers DEF UpTo
      <4> QED
        BY <2>1, <3>2, <4>1
    <3> QED
      BY <2>2, <3>1, <3>2
  <2> QED
    BY <2>4, <2>5, <2>6 DEF InLine
<1> QED
  BY <1>2, <1>3

\* The first of the queue comes into the module's hands.
LEMMA LineGets ==
  ASSUME NEW c \in Clients, NEW m \in Modules, NEW a \in Seq(Reply),
         NEW q \in Seq(Request), NEW n \in Nat, NEW owed \in BOOLEAN,
         q # <<>>, InLine(c, m, a, {}, q, n, owed)
  PROVE  InLine(c, m, a, IF Head(q).client = c THEN {Head(q).req} ELSE {},
                Tail(q), n, owed)
<1> DEFINE p == Tail(q)
           h == IF Head(q).client = c THEN {Head(q).req} ELSE {}
<1>1. \A k \in 1..Len(p) : k + 1 \in 1..Len(q) /\ p[k] = q[k + 1] /\ k \in Nat /\ 1 < k + 1
  BY Tailed
<1>2. \A x \in h : 1 \in 1..Len(q) /\ q[1].client = c /\ x = q[1].req
  BY Tailed
<1> HIDE DEF h, p
<1>3. Hand(c, h, p, n, owed)
  BY <1>1, <1>2 DEF InLine, Waiting, Hand
<1>4. Waiting(c, p, n, owed)
  <2>1. \A k, l \in 1..Len(p) : k < l => k + 1 < l + 1
    OBVIOUS
  <2> QED
    BY <1>1, <2>1 DEF InLine, Waiting
<1>5. Answers(c, m, a, h, p, n, owed)
  BY <1>1, <1>2 DEF InLine, Answers
<1>6. InLine(c, m, a, h, p, n, owed)
  BY <1>3, <1>4, <1>5 DEF InLine
<1> QED
  BY <1>6 DEF h, p

\* A module that drops what it has in hand changes nothing else.
LEMMA LineDrops ==
  ASSUME NEW c \in Clients, NEW m \in Modules, NEW a \in Seq(Reply),
         NEW h \in SUBSET Nat, NEW g \in SUBSET Nat, g \subseteq h,
         NEW q \in Seq(Request), NEW n \in Nat, NEW owed \in BOOLEAN,
         InLine(c, m, a, h, q, n, owed)
  PROVE  InLine(c, m, a, g, q, n, owed)
  BY DEF InLine, Answers, Hand

\* A reply whose turn it is.
Follows(r, c, m, a, h, q, n, owed) ==
    r.from = m =>
        /\ h = {} /\ UpTo(r.req, n, owed) /\ r.to = c
        /\ \A i \in 1..Len(a) : a[i].from = m => a[i].req < r.req
        /\ \A k \in 1..Len(q) : q[k].client = c => r.req < q[k].req

\* It goes to the end of the client's queue.
LEMMA LineReplies ==
  ASSUME NEW c \in Clients, NEW m \in Modules, NEW a \in Seq(Reply),
         NEW h \in SUBSET Nat, NEW q \in Seq(Request), NEW n \in Nat,
         NEW owed \in BOOLEAN, InLine(c, m, a, h, q, n, owed),
         NEW r \in Reply, Follows(r, c, m, a, h, q, n, owed)
  PROVE  InLine(c, m, Append(a, r), h, q, n, owed)
<1> DEFINE b == Append(a, r)
<1>1. /\ Len(b) = Len(a) + 1 /\ b[Len(a) + 1] = r /\ Len(a) \in Nat
      /\ \A i \in 1..Len(a) : b[i] = a[i]
      /\ \A i \in 1..Len(b) : i \in 1..Len(a) \/ i = Len(a) + 1
  BY Appended
<1> HIDE DEF b
<1>2. \A i \in 1..Len(b) : \/ i \in 1..Len(a) /\ b[i] = a[i]
                           \/ i = Len(a) + 1 /\ b[i] = r
  BY <1>1, Zenon
<1>3. Answers(c, m, b, h, q, n, owed)
  <2> SUFFICES ASSUME NEW i \in 1..Len(b), b[i].from = m
               PROVE  /\ \A j \in 1..Len(b) : i < j /\ b[j].from = m => b[i].req < b[j].req
                      /\ \A x \in h : b[i].req < x
                      /\ \A k \in 1..Len(q) : q[k].client = c => b[i].req < q[k].req
                      /\ UpTo(b[i].req, n, owed) /\ b[i].to = c
    BY DEF Answers
  <2>1. CASE i \in 1..Len(a) /\ b[i] = a[i]
    BY <1>2, <2>1 DEF InLine, Answers, Follows
  <2>2. CASE i = Len(a) + 1 /\ b[i] = r
    <3>1. \A j \in 1..Len(b) : ~ i < j
      BY <1>1, <2>2
    <3> QED
      BY <2>2, <3>1, Zenon DEF Follows
  <2> QED
    BY <1>2, <2>1, <2>2
<1>4. InLine(c, m, b, h, q, n, owed)
  BY <1>3 DEF InLine
<1> QED
  BY <1>4 DEF b
-----------------------------------------------------------------------------
(* Every step keeps the order.                                             *)

\* An answer that is no longer owed changes nothing else.
LEMMA LineKept ==
  ASSUME NEW c \in Clients, NEW m \in Modules, NEW a \in Seq(Reply),
         NEW h \in SUBSET Nat, NEW q \in Seq(Request), NEW n \in Nat,
         NEW owed \in BOOLEAN, NEW owes \in BOOLEAN, owes => owed,
         InLine(c, m, a, h, q, n, owed)
  PROVE  InLine(c, m, a, h, q, n, owes)
<1>1. \A x : UpTo(x, n, owed) => UpTo(x, n, owes)
  BY DEF UpTo
<1> QED
  BY <1>1 DEF InLine, Answers, Hand, Waiting

\* What a client has taken and its queue, one after the other: put adds to the
\* whole, get only moves the border.
LEMMA Joined ==
  ASSUME NEW S, NEW t \in Seq(S), NEW q \in Seq(S)
  PROVE  /\ t \o q \in Seq(S) /\ Len(t \o q) = Len(t) + Len(q)
         /\ Len(t) <= Len(t \o q)
         /\ \A i \in 1..Len(t) : (t \o q)[i] = t[i]
         /\ t \o <<>> = t
         /\ \A x \in S : t \o Append(q, x) = Append(t \o q, x)
         /\ q # <<>> => Append(t, Head(q)) \o Tail(q) = t \o q
<1>1. /\ t \o q \in Seq(S) /\ Len(t \o q) = Len(t) + Len(q)
      /\ \A i \in 1..Len(t) + Len(q) : (t \o q)[i] = IF i <= Len(t) THEN t[i] ELSE q[i - Len(t)]
      /\ Len(t) \in Nat /\ Len(q) \in Nat
  BY ConcatProperties, LenProperties
<1>2. Len(t) <= Len(t \o q) /\ \A i \in 1..Len(t) : (t \o q)[i] = t[i]
  BY <1>1
<1>3. t \o <<>> = t
  BY ConcatEmptySeq
<1>4. ASSUME NEW x \in S PROVE t \o Append(q, x) = Append(t \o q, x)
  <2> DEFINE p == Append(q, x)  u == t \o p  v == Append(t \o q, x)
  <2>1. /\ p \in Seq(S) /\ Len(p) = Len(q) + 1 /\ p[Len(q) + 1] = x
        /\ \A i \in 1..Len(q) : p[i] = q[i]
    BY Appended
  <2>2. /\ v \in Seq(S) /\ Len(v) = Len(t) + Len(q) + 1 /\ v[Len(t) + Len(q) + 1] = x
        /\ \A i \in 1..Len(t) + Len(q) : v[i] = (t \o q)[i]
    BY <1>1, Appended
  <2> HIDE DEF p, v
  <2>3. /\ u \in Seq(S) /\ Len(u) = Len(t) + Len(p)
        /\ \A i \in 1..Len(t) + Len(p) : u[i] = IF i <= Len(t) THEN t[i] ELSE p[i - Len(t)]
    BY <2>1, ConcatProperties
  <2> HIDE DEF u
  <2>4. ASSUME NEW i \in 1..Len(u) PROVE u[i] = v[i]
    <3>1. CASE i <= Len(t)
      <4>1. /\ i \in 1..Len(t) + Len(p) /\ i \in 1..Len(t) + Len(q)
        BY <1>1, <2>1, <2>3, <3>1
      <4> QED
        BY <1>1, <2>2, <2>3, <3>1, <4>1
    <3>2. CASE Len(t) < i /\ i <= Len(t) + Len(q)
      <4>1. /\ i \in 1..Len(t) + Len(p) /\ i \in 1..Len(t) + Len(q)
            /\ i - Len(t) \in 1..Len(q) /\ ~ i <= Len(t)
        BY <1>1, <2>1, <2>3, <3>2
      <4>2. u[i] = q[i - Len(t)] /\ v[i] = q[i - Len(t)]
        BY <1>1, <2>1, <2>2, <2>3, <4>1
      <4> QED
        BY <4>2
    <3>3. CASE i = Len(t) + Len(q) + 1
      BY <1>1, <2>1, <2>2, <2>3, <3>3
    <3> QED
      BY <1>1, <2>1, <2>3, <3>1, <3>2, <3>3
  <2>5. Len(u) = Len(v)
    BY <1>1, <2>1, <2>2, <2>3
  <2>6. u = v
    BY <2>2, <2>3, <2>4, <2>5, SeqEqual
  <2> QED
    BY <2>6 DEF p, u, v
<1>5. ASSUME q # <<>> PROVE Append(t, Head(q)) \o Tail(q) = t \o q
  <2> DEFINE p == Append(t, Head(q))  r == Tail(q)  u == p \o r
  <2>1. /\ Len(q) # 0 /\ Head(q) = q[1] /\ Head(q) \in S
        /\ r \in Seq(S) /\ Len(r) = Len(q) - 1
        /\ \A i \in 1..Len(r) : r[i] = q[i + 1]
    BY <1>5, Tailed
  <2>2. /\ p \in Seq(S) /\ Len(p) = Len(t) + 1 /\ p[Len(t) + 1] = q[1]
        /\ \A i \in 1..Len(t) : p[i] = t[i]
    BY <2>1, Appended
  <2> HIDE DEF p, r
  <2>3. /\ u \in Seq(S) /\ Len(u) = Len(p) + Len(r)
        /\ \A i \in 1..Len(p) + Len(r) : u[i] = IF i <= Len(p) THEN p[i] ELSE r[i - Len(p)]
    BY <2>1, <2>2, ConcatProperties
  <2> HIDE DEF u
  <2>4. ASSUME NEW i \in 1..Len(u) PROVE u[i] = (t \o q)[i]
    <3>1. CASE i <= Len(t)
      BY <1>1, <2>1, <2>2, <2>3, <3>1
    <3>2. CASE i = Len(t) + 1
      BY <1>1, <2>1, <2>2, <2>3, <3>2
    <3>3. CASE Len(t) + 1 < i
      <4>1. /\ i \in 1..Len(p) + Len(r) /\ i \in 1..Len(t) + Len(q)
            /\ ~ i <= Len(p) /\ ~ i <= Len(t)
            /\ i - Len(p) \in 1..Len(r) /\ (i - Len(p)) + 1 = i - Len(t)
        BY <1>1, <2>1, <2>2, <2>3, <3>3
      <4>2. u[i] = r[i - Len(p)] /\ (t \o q)[i] = q[i - Len(t)]
        BY <1>1, <2>3, <4>1
      <4>3. r[i - Len(p)] = q[i - Len(t)]
        BY <2>1, <4>1
      <4> QED
        BY <4>2, <4>3
    <3> QED
      BY <1>1, <2>1, <2>2, <2>3, <3>1, <3>2, <3>3
  <2>5. Len(u) = Len(t \o q)
    BY <1>1, <2>1, <2>2, <2>3
  <2>6. u = t \o q
    BY <1>1, <2>3, <2>4, <2>5, SeqEqual
  <2> QED
    BY <2>6 DEF p, r, u
<1> QED
  BY <1>1, <1>2, <1>3, <1>4, <1>5

\* What the arguments of InLine are in a state.
LEMMA LineTypes ==
  ASSUME TypeOK, BusInv, NEW c \in Clients, NEW m \in Modules
  PROVE  /\ All(c) \in Seq(Reply) /\ Held(c, m) \in SUBSET Nat
         /\ inbox[m] \in Seq(Request) /\ req[c] \in Nat /\ Owed(c, m) \in BOOLEAN
<1>1. All(c) \in Seq(Reply)
  BY Joined DEF All, TypeOK
<1>2. state[m] = "sleeping" => msg[m].req \in Nat
  BY Numbers DEF TypeOK, BusInv
<1>3. inbox[m] \in Seq(Request) /\ req[c] \in Nat /\ Owed(c, m) \in BOOLEAN
  BY SizesAssumption DEF TypeOK, Owed
<1> QED
  BY <1>1, <1>2, <1>3 DEF Held

Lines == \A c \in Clients, m \in Modules : Line(c, m)

LEMMA InitLines == Init => Lines
<1> SUFFICES ASSUME Init, NEW c \in Clients, NEW m \in Modules PROVE Line(c, m)
  BY DEF Lines
<1>1. All(c) = <<>> /\ inbox[m] = <<>> /\ Held(c, m) = {}
  BY ConcatEmptySeq, EmptySeq DEF Init, All, Held
<1>2. \A i \in 1..Len(<<>>) : FALSE
  BY EmptySeq
<1> QED
  BY <1>1, <1>2 DEF Line, InLine, Answers, Hand, Waiting

LEMMA ClientLines ==
  ASSUME TypeOK, BusInv, Lines, NEW d \in Clients, Client(d),
         NEW c \in Clients, NEW m \in Modules
  PROVE  Line(c, m)'
<1>1. InLine(c, m, All(c), Held(c, m), inbox[m], req[c], Owed(c, m))
  BY DEF Lines, Line
<1>2. /\ All(c) \in Seq(Reply) /\ Held(c, m) \in SUBSET Nat
      /\ inbox[m] \in Seq(Request) /\ req[c] \in Nat /\ Owed(c, m) \in BOOLEAN
  BY LineTypes
<1>3. Owed(c, m)' \in BOOLEAN
  BY DEF Owed
<1>4. ASSUME All(c)' = All(c), Held(c, m)' = Held(c, m), inbox'[m] = inbox[m],
             req'[c] = req[c], Owed(c, m)' => Owed(c, m)
      PROVE  Line(c, m)'
  <2>1. InLine(c, m, All(c), Held(c, m), inbox[m], req[c], Owed(c, m)')
    BY <1>1, <1>2, <1>3, <1>4, LineKept
  <2> QED
    BY <1>4, <2>1 DEF Line
<1>5. CASE Send(d)
  <2>1. Held(c, m)' = Held(c, m) /\ inbox'[m] = inbox[m]
    BY <1>5 DEF Send, Held
  <2>2. CASE c = d
    <3>1. req'[c] = req[c] + 1 /\ Owed(c, m)' = TRUE
      BY <1>5, <2>2 DEF Send, TypeOK, Owed
    <3>2. taken[c] \in Seq(Reply) /\ replies[c] \in Seq(Reply)
      BY DEF TypeOK
    <3>3. replies'[c] = <<>> /\ taken' = taken
      BY <1>5, <2>2 DEF Send, TypeOK
    <3>4. All(c)' = taken[c]
      BY <3>2, <3>3, ConcatEmptySeq DEF All
    <3>5. /\ Len(taken[c]) <= Len(All(c))
          /\ \A i \in 1..Len(taken[c]) : taken[c][i] = All(c)[i]
      <4> DEFINE t == taken[c]  q == replies[c]
      <4>1. t \in Seq(Reply) /\ q \in Seq(Reply)
        BY <3>2
      <4> HIDE DEF t, q
      <4>2. Len(t) <= Len(t \o q) /\ \A i \in 1..Len(t) : t[i] = (t \o q)[i]
        BY <4>1, Joined
      <4> QED
        BY <4>2 DEF All, t, q
    <3>6. InLine(c, m, taken[c], Held(c, m), inbox[m], req[c] + 1, TRUE)
      BY <1>1, <1>2, <3>2, <3>5, LineSends
    <3> QED
      BY <2>1, <3>1, <3>4, <3>6 DEF Line
  <2>3. CASE c # d
    BY <1>4, <1>5, <2>1, <2>3 DEF Send, TypeOK, All, Owed
  <2> QED
    BY <2>2, <2>3
<1>6. CASE Publish(d)
  <2>1. Owed(c, m)' => Owed(c, m)
    BY <1>6, NobodyAssumption DEF Publish, TypeOK, BusInv, Owed
  <2> QED
    BY <1>4, <1>6, <2>1 DEF Publish, All, Held
<1>7. CASE PublishFails(d) \/ Published(d)
  BY <1>4, <1>7 DEF PublishFails, Published, TypeOK, All, Held, Owed
<1>8. ASSUME NEW k \in Modules, Callback(d, k) PROVE Line(c, m)'
  <2>1. /\ All(c)' = All(c) /\ Held(c, m)' = Held(c, m) /\ req'[c] = req[c]
        /\ Owed(c, m)' => Owed(c, m)
    BY <1>8 DEF Callback, All, Held, Owed
  <2>2. CASE m # k
    BY <1>4, <1>8, <2>1, <2>2 DEF Callback, TypeOK
  <2>3. CASE m = k
    <3>1. chan = [client |-> d, req |-> req[d]] /\ chan \in Request
      BY <1>8, Messages DEF Callback, TypeOK, BusInv
    <3>2. inbox'[m] \in {inbox[m], Append(inbox[m], chan)}
      <4>1. inbox[m] \in Seq(Request) /\ Len(inbox[m]) <= InboxSize /\ InboxSize \in Nat
        BY SizesAssumption DEF TypeOK
      <4>2. Put(inbox[m], chan, InboxSize) \in {inbox[m], Append(inbox[m], chan)}
        BY <3>1, <4>1, PutQueue
      <4> QED
        BY <1>8, <2>3, <4>2 DEF Callback, TypeOK
    <3>3. chan.client = c => chan.req = req[c] /\ Owed(c, m) /\ ~Owed(c, m)'
      BY <1>8, <2>3, <3>1 DEF Callback, Owed
    <3>4. InLine(c, m, All(c), Held(c, m), inbox'[m], req[c], Owed(c, m)')
      BY <1>1, <1>2, <1>3, <2>1, <3>1, <3>2, <3>3, LineCalls
    <3> QED
      BY <2>1, <3>4 DEF Line
  <2> QED
    BY <2>2, <2>3
<1>9. CASE GetReply(d)
  BY <1>4, <1>9 DEF GetReply, TypeOK, All, Held, Owed
<1>10. CASE Take(d)
  <2>1. All(c)' = All(c)
    <3>1. CASE c = d
      <4>1. taken[c] \in Seq(Reply) /\ replies[c] \in Seq(Reply) /\ replies[c] # <<>>
        BY <1>10, <3>1 DEF Take, TypeOK
      <4>2. /\ taken'[c] = Append(taken[c], Head(replies[c]))
            /\ replies'[c] = Tail(replies[c])
        BY <1>10, <3>1 DEF Take, TypeOK
      <4> DEFINE t == taken[c]  q == replies[c]
      <4>3. t \in Seq(Reply) /\ q \in Seq(Reply) /\ q # <<>>
        BY <4>1
      <4> HIDE DEF t, q
      <4>4. Append(t, Head(q)) \o Tail(q) = t \o q
        BY <4>3, Joined
      <4> QED
        BY <4>2, <4>4 DEF All, t, q
    <3>2. CASE c # d
      BY <1>10, <3>2 DEF Take, TypeOK, All
    <3> QED
      BY <3>1, <3>2
  <2> QED
    BY <1>4, <1>10, <2>1 DEF Take, TypeOK, Held, Owed
<1>11. CASE TimeOut(d)
  BY <1>4, <1>11 DEF TimeOut, TypeOK, All, Held, Owed
<1>12. CASE Read(d)
  BY <1>4, <1>12 DEF Read, TypeOK, All, Held, Owed
<1> QED
  BY <1>5, <1>6, <1>7, <1>8, <1>9, <1>10, <1>11, <1>12 DEF Client

LEMMA ModuleLines ==
  ASSUME TypeOK, BusInv, Lines, NEW k \in Modules, Module(k),
         NEW c \in Clients, NEW m \in Modules
  PROVE  Line(c, m)'
<1>1. InLine(c, m, All(c), Held(c, m), inbox[m], req[c], Owed(c, m))
  BY DEF Lines, Line
<1>2. /\ All(c) \in Seq(Reply) /\ Held(c, m) \in SUBSET Nat
      /\ inbox[m] \in Seq(Request) /\ req[c] \in Nat /\ Owed(c, m) \in BOOLEAN
  BY LineTypes
<1>3. req'[c] = req[c] /\ Owed(c, m)' = Owed(c, m)
  BY DEF Module, GetMessage, SetReply, Replied, Owed
<1>4. CASE GetMessage(k)
  <2>1. All(c)' = All(c)
    BY <1>4 DEF GetMessage, All
  <2>2. CASE m = k
    <3>1. inbox[m] # <<>> /\ inbox'[m] = Tail(inbox[m]) /\ Held(c, m) = {}
      BY <1>4, <2>2 DEF GetMessage, TypeOK, Held
    <3>2. Held(c, m)' = IF Head(inbox[m]).client = c THEN {Head(inbox[m]).req} ELSE {}
      BY <1>4, <2>2 DEF GetMessage, TypeOK, Held
    <3>3. InLine(c, m, All(c), Held(c, m)', inbox'[m], req[c], Owed(c, m))
      <4> DEFINE a == All(c)  q == inbox[m]  n == req[c]  o == Owed(c, m)
      <4>1. /\ a \in Seq(Reply) /\ q \in Seq(Request) /\ q # <<>> /\ n \in Nat
            /\ o \in BOOLEAN /\ InLine(c, m, a, {}, q, n, o)
        BY <1>1, <1>2, <3>1
      <4> HIDE DEF a, q, n, o
      <4>2. InLine(c, m, a, IF Head(q).client = c THEN {Head(q).req} ELSE {}, Tail(q), n, o)
        BY <4>1, LineGets
      <4> QED
        BY <3>1, <3>2, <4>2 DEF a, q, n, o
    <3> QED
      BY <1>3, <2>1, <3>3 DEF Line
  <2>3. CASE m # k
    BY <1>1, <1>3, <1>4, <2>1, <2>3 DEF GetMessage, TypeOK, Held, Line
  <2> QED
    BY <2>2, <2>3
<1>5. CASE SetReply(k)
  <2> DEFINE d == msg[k].client  r == [from |-> k, to |-> d, req |-> msg[k].req]
  <2>1. d \in Clients /\ r \in Reply
    BY <1>5, Messages DEF SetReply, TypeOK, BusInv, Request, Reply
  <2>2. inbox'[m] = inbox[m] /\ taken'[c] = taken[c]
    BY <1>5 DEF SetReply
  <2>3. CASE c # d
    <3>1. replies'[c] = replies[c]
      BY <1>5, <2>3 DEF SetReply, TypeOK
    <3>2. Held(c, m)' = Held(c, m)
      BY <1>5, <2>3 DEF SetReply, TypeOK, Held
    <3> QED
      BY <1>1, <1>3, <2>2, <3>1, <3>2 DEF Line, All
  <2>4. CASE c = d
    <3>1. replies'[c] \in {replies[c], Append(replies[c], r)}
      BY <1>5, <2>1, <2>4, PutQueue, SizesAssumption DEF SetReply, TypeOK
    <3>2. Held(c, m)' = (IF r.from = m THEN {} ELSE Held(c, m))
      BY <1>5 DEF SetReply, TypeOK, Held
    <3>3. CASE replies'[c] = replies[c]
      <4>1. All(c)' = All(c)
        BY <2>2, <3>3 DEF All
      <4>2. Held(c, m)' \in SUBSET Nat /\ Held(c, m)' \subseteq Held(c, m)
        BY <1>2, <3>2
      <4>3. InLine(c, m, All(c), Held(c, m)', inbox[m], req[c], Owed(c, m))
        BY <1>1, <1>2, <4>2, LineDrops
      <4> QED
        BY <1>3, <2>2, <4>1, <4>3 DEF Line
    <3>4. CASE replies'[c] = Append(replies[c], r)
      <4>1. All(c)' = Append(All(c), r)
        <5> DEFINE t == taken[c]  q == replies[c]
        <5>1. t \in Seq(Reply) /\ q \in Seq(Reply)
          BY <2>1, <2>4 DEF TypeOK
        <5> HIDE DEF t, q, r
        <5>2. t \o Append(q, r) = Append(t \o q, r)
          BY <2>1, <5>1, Joined
        <5> QED
          BY <2>2, <3>4, <5>2 DEF All, t, q
      <4>2. /\ Held(c, m)' \in SUBSET Nat /\ Held(c, m)' \subseteq Held(c, m)
            /\ r.from = m => Held(c, m)' = {} /\ r.req \in Held(c, m)
        BY <1>2, <1>5, <2>4, <3>2 DEF SetReply, TypeOK, Held
      <4>3. Follows(r, c, m, All(c), Held(c, m)', inbox[m], req[c], Owed(c, m))
        BY <1>1, <2>4, <4>2 DEF Follows, InLine, Answers, Hand
      <4>4. InLine(c, m, All(c), Held(c, m)', inbox[m], req[c], Owed(c, m))
        BY <1>1, <1>2, <4>2, LineDrops
      <4> HIDE DEF r
      <4>5. InLine(c, m, Append(All(c), r), Held(c, m)', inbox[m], req[c], Owed(c, m))
        BY <1>2, <2>1, <4>2, <4>3, <4>4, LineReplies
      <4> QED
        BY <1>3, <2>2, <4>1, <4>5 DEF Line
    <3> QED
      BY <3>1, <3>3, <3>4
  <2> QED
    BY <2>3, <2>4
<1>6. CASE Replied(k)
  <2>1. Held(c, m)' = Held(c, m) /\ All(c)' = All(c) /\ inbox'[m] = inbox[m]
    BY <1>6 DEF Replied, TypeOK, Held, All
  <2> QED
    BY <1>1, <1>3, <2>1 DEF Line
<1> QED
  BY <1>4, <1>5, <1>6 DEF Module

LineInv == TypeOK /\ BusInv /\ Lines

LEMMA InitLineInv == Init => LineInv
  BY InitTypes, InitBus, InitLines DEF LineInv

LEMMA NextLineInv == LineInv /\ [Next]_vars => LineInv'
<1> SUFFICES ASSUME LineInv, [Next]_vars PROVE LineInv'
  OBVIOUS
<1>1. TypeOK' /\ BusInv'
  BY NextTypes DEF LineInv
<1>2. ASSUME NEW c \in Clients, NEW m \in Modules PROVE Line(c, m)'
  <2>1. CASE UNCHANGED vars
    BY <2>1 DEF LineInv, Lines, Line, All, Held, Owed
  <2>2. CASE Next
    BY <2>2, ClientLines, ModuleLines DEF LineInv, Next
  <2> QED
    BY <2>1, <2>2
<1> QED
  BY <1>1, <1>2 DEF LineInv, Lines

\* The replies that a client has had, and those it has taken, place by place.
LEMMA Places ==
  ASSUME LineInv, NEW c \in Clients
  PROVE  /\ taken[c] \in Seq(Reply) /\ replies[c] \in Seq(Reply)
         /\ All(c) \in Seq(Reply)
         /\ \A i \in 1..Len(taken[c]) : i \in 1..Len(All(c)) /\ All(c)[i] = taken[c][i]
         /\ \A i \in 1..Len(All(c)) : All(c)[i] \in Reply
<1> DEFINE t == taken[c]  q == replies[c]
<1>1. t \in Seq(Reply) /\ q \in Seq(Reply)
  BY DEF LineInv, TypeOK
<1>2. All(c) = t \o q
  BY DEF All
<1> HIDE DEF t, q
<1>3. \A i \in 1..Len(t) : i \in 1..Len(t \o q) /\ (t \o q)[i] = t[i]
  BY <1>1, Joined, LenProperties
<1>4. t \o q \in Seq(Reply)
  BY <1>1, Joined
<1>5. \A i \in 1..Len(t \o q) : (t \o q)[i] \in Reply
  BY <1>4, ElementOfSeq
<1> QED
  BY <1>1, <1>2, <1>3, <1>4, <1>5 DEF t, q

\* Rising numbers are what the two properties say.
LEMMA LineRouted == LineInv => RepliesRouted
<1> SUFFICES ASSUME LineInv, NEW c \in Clients
             PROVE  /\ \A i \in DOMAIN All(c) : All(c)[i].to = c /\ All(c)[i].req <= req[c]
                    /\ \A i, j \in DOMAIN All(c) : All(c)[i] = All(c)[j] => i = j
  BY DEF RepliesRouted, All
<1>1. /\ All(c) \in Seq(Reply) /\ \A i \in 1..Len(All(c)) : All(c)[i] \in Reply
  BY Places
<1>2. DOMAIN All(c) = 1..Len(All(c)) /\ Len(All(c)) \in Nat
  BY <1>1, LenProperties
<1>3. ASSUME NEW i \in 1..Len(All(c))
      PROVE  /\ All(c)[i].to = c /\ All(c)[i].req <= req[c] /\ All(c)[i].req \in Nat
             /\ \A j \in 1..Len(All(c)) : i < j => All(c)[i] # All(c)[j]
  <2> DEFINE m == All(c)[i].from
  <2>1. m \in Modules /\ All(c)[i].req \in Nat
    BY <1>1, Numbers
  <2>2. Answers(c, m, All(c), Held(c, m), inbox[m], req[c], Owed(c, m))
    BY <2>1 DEF LineInv, Lines, Line, InLine
  <2>3. UpTo(All(c)[i].req, req[c], Owed(c, m)) /\ All(c)[i].to = c
    BY <2>2 DEF Answers
  <2>4. \A j \in 1..Len(All(c)) : i < j /\ All(c)[j].from = m => All(c)[i].req < All(c)[j].req
    BY <2>2 DEF Answers
  <2> QED
    BY <2>1, <2>3, <2>4 DEF UpTo
<1>4. ASSUME NEW i \in 1..Len(All(c)), NEW j \in 1..Len(All(c)), All(c)[i] = All(c)[j]
      PROVE  i = j
  <2>1. ~ i < j /\ ~ j < i
    BY <1>3, <1>4
  <2> QED
    BY <1>2, <2>1
<1> QED
  BY <1>2, <1>3, <1>4

LEMMA LineInOrder == LineInv => RepliesInOrder
<1> SUFFICES ASSUME LineInv, NEW c \in Clients,
                    NEW i \in DOMAIN taken[c], NEW j \in DOMAIN taken[c],
                    i < j, taken[c][i].from = taken[c][j].from
             PROVE  taken[c][i].req < taken[c][j].req
  BY DEF RepliesInOrder
<1>1. i \in 1..Len(taken[c]) /\ j \in 1..Len(taken[c])
  BY Places, LenProperties
<1>2. /\ i \in 1..Len(All(c)) /\ All(c)[i] = taken[c][i]
      /\ j \in 1..Len(All(c)) /\ All(c)[j] = taken[c][j] /\ taken[c][i] \in Reply
  BY <1>1, Places
<1> DEFINE m == taken[c][i].from
<1>3. m \in Modules
  BY <1>2, Numbers
<1>4. Answers(c, m, All(c), Held(c, m), inbox[m], req[c], Owed(c, m))
  BY <1>3 DEF LineInv, Lines, Line, InLine
<1> QED
  BY <1>2, <1>4 DEF Answers

\* Every reply, taken or in the queue, was made for a request that this client
\* has sent, and none is there twice, whatever the modules lose and the client purges.
THEOREM Routed == Spec => []RepliesRouted
<1>1. Spec => []LineInv
  BY InitLineInv, NextLineInv, PTL DEF Spec
<1> QED
  BY <1>1, LineRouted, PTL

\* A module's replies come in the order of the requests.
THEOREM InOrder == Spec => []RepliesInOrder
<1>1. Spec => []LineInv
  BY InitLineInv, NextLineInv, PTL DEF Spec
<1> QED
  BY <1>1, LineInOrder, PTL
-----------------------------------------------------------------------------
(* Patient clients.                                                        *)

\* Whatever is under way for c is about its last request.
Current(c) ==
    /\ \A i \in 1..Len(replies[c]) : replies[c][i].req = req[c]
    /\ \A m \in Modules :
           /\ \A x \in Held(c, m) : x = req[c]
           /\ \A k \in 1..Len(inbox[m]) : inbox[m][k].client = c => inbox[m][k].req = req[c]

\* It has taken one reply of each module to the requests before, and those that
\* have come to the last.
Batch(c) ==
    IF req[c] = 0 THEN Len(taken[c]) = 0
    ELSE Len(taken[c]) = Cardinality(Modules) * (req[c] - 1) + Cardinality(Answered(c))

Matched(c) ==
    \A i \in 1..Len(taken[c]) : taken[c][i].req = ((i - 1) \div Cardinality(Modules)) + 1

\* The module that has put r is still in set_reply.
HasText(c, r) == state[r.from] = "replying" /\ msg[r.from] = [client |-> c, req |-> r.req]

\* A reply comes only while c waits for one, and c has used it before any module
\* runs again.
Alive(c) ==
    /\ replies[c] # <<>> =>
           pc[c] = "getting" /\ Len(replies[c]) = 1 /\ HasText(c, replies[c][1])
    /\ pc[c] = "reading" =>
           replies[c] = <<>> /\ taken[c] # <<>> /\ HasText(c, taken[c][Len(taken[c])])

PatientInv(c) == Current(c) /\ Batch(c) /\ Matched(c) /\ Alive(c)

IInv == LineInv /\ TextAlive /\ \A c \in Patient : PatientInv(c)

\* A reply that c has taken is older than what its module handles for c, than
\* what waits there and than what the queue still holds.
LEMMA Older ==
  ASSUME LineInv, NEW c \in Clients, NEW i \in 1..Len(taken[c]), NEW m \in Modules,
         taken[c][i].from = m
  PROVE  /\ taken[c][i].req <= req[c] /\ taken[c][i].req \in Nat
         /\ \A x \in Held(c, m) : taken[c][i].req < x
         /\ \A k \in 1..Len(inbox[m]) : inbox[m][k].client = c => taken[c][i].req < inbox[m][k].req
         /\ replies[c] # <<>> /\ Head(replies[c]).from = m => taken[c][i].req < Head(replies[c]).req
<1>1. i \in 1..Len(All(c)) /\ All(c)[i] = taken[c][i] /\ All(c)[i] \in Reply
  BY Places
<1>2. Answers(c, m, All(c), Held(c, m), inbox[m], req[c], Owed(c, m))
  BY DEF LineInv, Lines, Line, InLine
<1>3. /\ taken[c][i].req <= req[c]
      /\ \A x \in Held(c, m) : taken[c][i].req < x
      /\ \A k \in 1..Len(inbox[m]) : inbox[m][k].client = c => taken[c][i].req < inbox[m][k].req
      /\ \A j \in 1..Len(All(c)) : i < j /\ All(c)[j].from = m => taken[c][i].req < All(c)[j].req
  BY <1>1, <1>2 DEF Answers, UpTo
<1>4. taken[c][i].req \in Nat
  BY <1>1, Numbers
<1>5. ASSUME replies[c] # <<>>, Head(replies[c]).from = m
      PROVE  taken[c][i].req < Head(replies[c]).req
  <2> DEFINE t == taken[c]  q == replies[c]  j == Len(t) + 1
  <2>1. t \in Seq(Reply) /\ q \in Seq(Reply) /\ q # <<>> /\ i \in 1..Len(t)
    BY <1>5, Places
  <2>2. All(c) = t \o q /\ Head(q).from = m
    BY <1>5 DEF All
  <2> HIDE DEF t, q
  <2>3. /\ Len(t) \in Nat /\ Len(q) \in Nat \ {0} /\ Head(q) = q[1]
        /\ Len(t \o q) = Len(t) + Len(q)
    BY <2>1, Tailed, Joined, LenProperties
  <2>4. j \in 1..(Len(t) + Len(q)) /\ ~ j <= Len(t) /\ j - Len(t) = 1 /\ i < j
    BY <2>1, <2>3
  <2>5. (t \o q)[j] = q[1]
    BY <2>1, <2>4, ConcatProperties
  <2> QED
    BY <1>3, <2>2, <2>3, <2>4, <2>5 DEF q
<1> QED
  BY <1>3, <1>4, <1>5

\* When every module has answered its last request, nothing is under way for c;
\* nor is there before the first.
LEMMA AllAnswered ==
  ASSUME LineInv, NEW c \in Clients, Current(c), req[c] = 0 \/ Answered(c) = Modules
  PROVE  \A m \in Modules :
             /\ Held(c, m) = {}
             /\ \A k \in 1..Len(inbox[m]) : inbox[m][k].client # c
<1> SUFFICES ASSUME NEW m \in Modules
             PROVE  /\ Held(c, m) = {}
                    /\ \A k \in 1..Len(inbox[m]) : inbox[m][k].client # c
  OBVIOUS
<1>1. \A x \in Held(c, m) : x = req[c] /\ x \in Nat \ {0}
  <2>1. state[m] = "sleeping" => msg[m].req \in Nat \ {0}
    BY Numbers DEF LineInv, TypeOK, BusInv
  <2> QED
    BY <2>1 DEF Current, Held
<1>2. \A k \in 1..Len(inbox[m]) : inbox[m][k].client = c =>
          inbox[m][k].req = req[c] /\ inbox[m][k].req \in Nat \ {0}
  BY Numbers DEF LineInv, TypeOK, Current
<1>3. CASE req[c] = 0
  BY <1>1, <1>2, <1>3
<1>4. CASE Answered(c) = Modules
  <2>1. PICK i \in DOMAIN taken[c] : taken[c][i] = [from |-> m, to |-> c, req |-> req[c]]
    BY <1>4 DEF Answered
  <2>2. i \in 1..Len(taken[c])
    BY <2>1, Places, LenProperties
  <2>3. taken[c][i].from = m /\ taken[c][i].req = req[c]
    BY <2>1
  <2>4. /\ \A x \in Held(c, m) : req[c] < x
        /\ \A k \in 1..Len(inbox[m]) : inbox[m][k].client = c => req[c] < inbox[m][k].req
        /\ req[c] \in Nat
    BY <2>2, <2>3, Older
  <2> QED
    BY <1>1, <1>2, <2>4
<1> QED
  BY <1>3, <1>4

\* A step that leaves its number, its replies and its messages alone.
LEMMA CurrentKept ==
  ASSUME NEW c \in Clients, Current(c), req'[c] = req[c], replies'[c] = replies[c],
         \A m \in Modules : Held(c, m)' = Held(c, m),
         \A m \in Modules : \A k \in 1..Len(inbox'[m]) : inbox'[m][k].client = c =>
             inbox'[m][k].req = req[c]
  PROVE  Current(c)'
  BY DEF Current

LEMMA TakenKept ==
  ASSUME NEW c \in Clients, Batch(c), Matched(c), req'[c] = req[c], taken'[c] = taken[c]
  PROVE  Batch(c)' /\ Matched(c)' /\ Answered(c)' = Answered(c)
<1>1. Answered(c)' = Answered(c)
  BY DEF Answered
<1> QED
  BY <1>1 DEF Batch, Matched

\* What a callback puts in a module's queue is the number of the sender.
LEMMA CallbackCurrent ==
  ASSUME LineInv, NEW c \in Clients, Current(c), NEW d \in Clients, NEW k \in Modules,
         Callback(d, k)
  PROVE  Current(c)'
<1>1. chan = [client |-> d, req |-> req[d]] /\ chan \in Request
  BY Messages DEF Callback, LineInv, TypeOK, BusInv
<1>2. inbox[k] \in Seq(Request) /\ Len(inbox[k]) <= InboxSize /\ InboxSize \in Nat
  BY SizesAssumption DEF LineInv, TypeOK
<1>3. /\ Put(inbox[k], chan, InboxSize) \in {inbox[k], Append(inbox[k], chan)}
      /\ inbox' = [inbox EXCEPT ![k] = Put(inbox[k], chan, InboxSize)]
  BY <1>1, <1>2, PutQueue DEF Callback
<1>4. \A i \in 1..Len(Append(inbox[k], chan)) :
          Append(inbox[k], chan)[i] = chan \/ \E j \in 1..Len(inbox[k]) : Append(inbox[k], chan)[i] = inbox[k][j]
  <2> DEFINE q == inbox[k]
  <2>1. q \in Seq(Request)
    BY <1>2
  <2> HIDE DEF q
  <2>2. \A i \in 1..Len(Append(q, chan)) :
            Append(q, chan)[i] = chan \/ \E j \in 1..Len(q) : Append(q, chan)[i] = q[j]
    BY <1>1, <2>1, Appended
  <2> QED
    BY <2>2 DEF q
<1>5. ASSUME NEW m \in Modules, NEW i \in 1..Len(inbox'[m]), inbox'[m][i].client = c
      PROVE  inbox'[m][i].req = req[c]
  <2>1. CASE inbox'[m] = inbox[m]
    BY <1>5, <2>1 DEF Current
  <2>2. CASE m = k /\ inbox'[m] = Append(inbox[k], chan)
    BY <1>1, <1>4, <1>5, <2>2 DEF Current
  <2> QED
    BY <1>3, <2>1, <2>2 DEF LineInv, TypeOK
<1>6. req'[c] = req[c] /\ replies'[c] = replies[c] /\ \A m \in Modules : Held(c, m)' = Held(c, m)
  BY DEF Callback, Held
<1> QED
  BY <1>5, <1>6, CurrentKept

\* Steps of the other clients.
LEMMA OtherPatient ==
  ASSUME LineInv, NEW c \in Clients, PatientInv(c), NEW d \in Clients, d # c, Client(d)
  PROVE  PatientInv(c)'
<1>1. /\ pc'[c] = pc[c] /\ req'[c] = req[c] /\ replies'[c] = replies[c] /\ taken'[c] = taken[c]
      /\ state' = state /\ msg' = msg
  BY DEF Client, Send, Publish, PublishFails, Published, Callback, GetReply, Take, TimeOut, Read,
         LineInv, TypeOK
<1>2. Current(c)'
  <2>1. CASE \E k \in Modules : Callback(d, k)
    BY <2>1, CallbackCurrent DEF PatientInv
  <2>2. CASE inbox' = inbox
    <3>1. \A m \in Modules : Held(c, m)' = Held(c, m)
      BY <1>1 DEF Held
    <3> QED
      BY <1>1, <2>2, <3>1 DEF PatientInv, Current
  <2> QED
    BY <2>1, <2>2 DEF Client, Send, Publish, PublishFails, Published, GetReply, Take, TimeOut, Read
<1>3. Batch(c)' /\ Matched(c)'
  BY <1>1, TakenKept DEF PatientInv
<1>4. Alive(c)'
  BY <1>1 DEF PatientInv, Alive, HasText
<1> QED
  BY <1>2, <1>3, <1>4 DEF PatientInv

LEMMA DivBatch ==
  ASSUME NEW n \in Nat, NEW q \in Nat, NEW r \in Nat, r < n
  PROVE  (n * q + r) \div n = q
<1> DEFINE p == (n * q + r) \div n  s == (n * q + r) % n
<1>1. n * q \in Nat /\ n * q + r \in Nat /\ n > 0
  OBVIOUS
<1>2. n * q + r = n * p + s /\ p \in Int /\ s \in 0..(n - 1)
  <2> DEFINE a == n * q + r
  <2>1. a \in Nat /\ n > 0
    BY <1>1
  <2> HIDE DEF a
  <2>2. a = n * (a \div n) + (a % n) /\ a \div n \in Int /\ a % n \in 0..(n - 1)
    BY <2>1
  <2> QED
    BY <2>2 DEF a
<1> HIDE DEF p, s
<1>3. n * (p - q) = r - s
  BY <1>2
<1>4. CASE p - q >= 1
  <2>1. n * (p - q) >= n * 1
    BY <1>2, <1>4
  <2> QED
    BY <1>2, <1>3, <2>1
<1>5. CASE p - q <= -1
  <2>1. n * (p - q) <= n * (-1)
    BY <1>2, <1>5
  <2> QED
    BY <1>2, <1>3, <2>1
<1>6. p = q
  BY <1>2, <1>4, <1>5
<1> QED
  BY <1>6 DEF p

\* No module has answered a request that has just been made.
LEMMA SendStartsAnew ==
  ASSUME LineInv, NEW c \in Clients, Send(c)
  PROVE  Answered(c)' = {}
<1>1. req[c] \in Nat /\ req'[c] = req[c] + 1 /\ taken' = taken
  BY SizesAssumption DEF Send, LineInv, TypeOK
<1>2. \A i \in DOMAIN taken[c] : taken[c][i].req < req[c] + 1
  <2> SUFFICES ASSUME NEW i \in DOMAIN taken[c] PROVE taken[c][i].req < req[c] + 1
    OBVIOUS
  <2>1. i \in 1..Len(taken[c])
    BY Places, LenProperties
  <2>2. taken[c][i].from \in Modules
    BY <2>1, Places, Numbers
  <2> QED
    BY <1>1, <2>1, <2>2, Older
<1> QED
  BY <1>1, <1>2 DEF Answered

LEMMA SendPatient ==
  ASSUME LineInv, NEW c \in Patient, c \in Clients, PatientInv(c), Send(c)
  PROVE  PatientInv(c)'
<1>1. /\ req[c] \in Nat /\ req'[c] = req[c] + 1 /\ replies'[c] = <<>> /\ taken' = taken
      /\ inbox' = inbox /\ state' = state /\ msg' = msg /\ pc'[c] = "sending"
      /\ req[c] = 0 \/ Answered(c) = Modules
  BY SizesAssumption DEF Send, LineInv, TypeOK
<1>2. \A m \in Modules : /\ Held(c, m)' = {}
                         /\ \A k \in 1..Len(inbox'[m]) : inbox'[m][k].client # c
  BY <1>1, AllAnswered DEF PatientInv, Held
<1>3. Current(c)'
  BY <1>1, <1>2, EmptySeq DEF Current
<1>4. Answered(c)' = {}
  BY SendStartsAnew
<1>5. Batch(c)'
  <2>1. Cardinality(Modules) \in Nat /\ Cardinality({}) = 0
    BY SizesAssumption, FS_CardinalityType, FS_EmptySet
  <2>2. Len(taken[c]) = Cardinality(Modules) * req[c]
    <3>1. CASE req[c] = 0
      BY <2>1, <3>1 DEF PatientInv, Batch
    <3>2. CASE req[c] # 0
      BY <1>1, <2>1, <3>2 DEF PatientInv, Batch
    <3> QED
      BY <3>1, <3>2
  <2>3. req[c] + 1 # 0 /\ (req[c] + 1) - 1 = req[c]
    BY <1>1
  <2>4. Len(taken[c]) = Cardinality(Modules) * ((req[c] + 1) - 1) + Cardinality({})
    BY <1>1, <2>1, <2>2, <2>3
  <2> QED
    BY <1>1, <1>4, <2>3, <2>4 DEF Batch
<1>6. Matched(c)'
  BY <1>1 DEF PatientInv, Matched
<1>7. Alive(c)'
  BY <1>1 DEF Alive
<1> QED
  BY <1>3, <1>5, <1>6, <1>7 DEF PatientInv

\* The reply that a client takes is its own.
LEMMA HeadTo ==
  ASSUME LineInv, NEW c \in Clients, replies[c] # <<>>
  PROVE  Head(replies[c]).to = c
<1> DEFINE t == taken[c]  q == replies[c]  j == Len(t) + 1
<1>1. t \in Seq(Reply) /\ q \in Seq(Reply) /\ q # <<>> /\ All(c) = t \o q
  BY Places DEF All
<1> HIDE DEF t, q
<1>2. /\ Len(t) \in Nat /\ Len(q) \in Nat \ {0} /\ Head(q) = q[1]
      /\ Len(t \o q) = Len(t) + Len(q)
  BY <1>1, Tailed, Joined, LenProperties
<1>3. j \in 1..(Len(t) + Len(q)) /\ ~ j <= Len(t) /\ j - Len(t) = 1
  BY <1>2
<1>4. (t \o q)[j] = q[1]
  BY <1>1, <1>3, ConcatProperties
<1>5. All(c)[j].from \in Modules /\ j \in 1..Len(All(c))
  BY <1>1, <1>2, <1>3, Places, Numbers
<1>6. Answers(c, All(c)[j].from, All(c), Held(c, All(c)[j].from),
              inbox[All(c)[j].from], req[c], Owed(c, All(c)[j].from))
  BY <1>5 DEF LineInv, Lines, Line, InLine
<1>7. All(c)[j].to = c
  BY <1>5, <1>6 DEF Answers
<1> QED
  BY <1>1, <1>2, <1>4, <1>7 DEF q

\* A patient client takes the only reply of its queue, of a module that had not
\* answered its last request.
LEMMA TakeAnswers ==
  ASSUME LineInv, NEW c \in Clients, PatientInv(c), Take(c)
  PROVE  LET t == taken[c]  r == Head(replies[c])
         IN  /\ r \in Reply /\ r.req = req[c] /\ req[c] \in Nat \ {0}
             /\ replies[c] # <<>> /\ Len(replies[c]) = 1 /\ r = replies[c][1]
             /\ HasText(c, r) /\ replies'[c] = <<>> /\ Len(<<>>) = 0
             /\ Len(t) \in Nat /\ Len(taken'[c]) = Len(t) + 1
             /\ taken'[c][Len(t) + 1] = r /\ \A i \in 1..Len(t) : taken'[c][i] = t[i]
             /\ \A i \in 1..Len(taken'[c]) : i \in 1..Len(t) \/ i = Len(t) + 1
             /\ r.from \in Modules \ Answered(c)
             /\ Answered(c)' = Answered(c) \cup {r.from}
<1> DEFINE t == taken[c]  q == replies[c]  r == Head(replies[c])  m == r.from
<1>1. /\ t \in Seq(Reply) /\ q \in Seq(Reply) /\ q # <<>> /\ Len(q) = 1 /\ r = q[1]
      /\ HasText(c, q[1]) /\ pc'[c] = "reading" /\ req' = req /\ inbox' = inbox
      /\ state' = state /\ msg' = msg
      /\ taken'[c] = Append(t, r) /\ replies'[c] = Tail(q)
  BY Places, Tailed DEF Take, PatientInv, Alive, LineInv, TypeOK
<1>2. /\ r \in Reply /\ m \in Modules /\ r.req = req[c] /\ r.req \in Nat \ {0}
      /\ r = [from |-> m, to |-> c, req |-> req[c]]
  <2>1. r \in Reply /\ r.to = c
    BY <1>1, ElementOfSeq, HeadTo
  <2>2. r.req = req[c]
    BY <1>1 DEF PatientInv, Current
  <2> QED
    BY <2>1, <2>2, Numbers DEF Reply
<1>3. Tail(q) = <<>> /\ Tail(q) \in Seq(Reply) /\ Len(Tail(q)) = 0
  <2>1. Tail(q) \in Seq(Reply) /\ Len(Tail(q)) = 0
    BY <1>1, Tailed
  <2> QED
    BY <2>1, EmptySeq
<1>4. /\ Append(t, r) \in Seq(Reply) /\ Len(t) \in Nat /\ Len(Append(t, r)) = Len(t) + 1
      /\ Append(t, r)[Len(t) + 1] = r /\ \A i \in 1..Len(t) : Append(t, r)[i] = t[i]
      /\ \A i \in 1..Len(Append(t, r)) : i \in 1..Len(t) \/ i = Len(t) + 1
      /\ DOMAIN t = 1..Len(t) /\ DOMAIN Append(t, r) = 1..(Len(t) + 1)
  <2> HIDE DEF t, r
  <2> QED
    BY <1>1, <1>2, Appended, LenProperties
<1>5. m \notin Answered(c)
  <2> SUFFICES ASSUME NEW i \in DOMAIN taken[c], taken[c][i] = [from |-> m, to |-> c, req |-> req[c]]
               PROVE  FALSE
    BY DEF Answered
  <2>1. i \in 1..Len(taken[c]) /\ taken[c][i].from = m /\ taken[c][i].req = req[c]
    BY <1>4
  <2> QED
    BY <1>1, <1>2, <2>1, Older
<1>6. Answered(c)' = Answered(c) \cup {m}
  <2>1. ASSUME NEW k \in Modules PROVE k \in Answered(c)' <=> k \in Answered(c) \/ k = m
    <3> DEFINE a == [from |-> k, to |-> c, req |-> req[c]]
    <3>1. k \in Answered(c)' <=> \E i \in 1..(Len(t) + 1) : Append(t, r)[i] = a
      BY <1>1, <1>4 DEF Answered
    <3>2. k \in Answered(c) <=> \E i \in 1..Len(t) : t[i] = a
      BY <1>4 DEF Answered
    <3>3. k = m <=> r = a
      BY <1>2
    <3> HIDE DEF a, r, t, m
    <3> QED
      BY <1>4, <3>1, <3>2, <3>3
  <2> QED
    BY <1>2, <2>1 DEF Answered
<1> QED
  BY <1>1, <1>2, <1>3, <1>4, <1>5, <1>6

LEMMA TakePatient ==
  ASSUME LineInv, NEW c \in Patient, c \in Clients, PatientInv(c), Take(c)
  PROVE  PatientInv(c)'
<1> DEFINE t == taken[c]  r == Head(replies[c])  m == r.from
           n == Cardinality(Modules)
<1>1. /\ pc'[c] = "reading" /\ req' = req /\ inbox' = inbox /\ state' = state /\ msg' = msg
  BY DEF Take, LineInv, TypeOK
<1>2. /\ m \in Modules /\ r.req = req[c] /\ req[c] \in Nat \ {0}
      /\ HasText(c, r) /\ m \notin Answered(c) /\ Answered(c)' = Answered(c) \cup {m}
  BY TakeAnswers
<1>3. replies'[c] = <<>> /\ Len(<<>>) = 0
  BY TakeAnswers
<1>4. /\ Len(t) \in Nat /\ Len(taken'[c]) = Len(t) + 1
      /\ taken'[c][Len(t) + 1] = r /\ \A i \in 1..Len(t) : taken'[c][i] = t[i]
      /\ \A i \in 1..Len(taken'[c]) : i \in 1..Len(t) \/ i = Len(t) + 1
  BY TakeAnswers
<1>5. Current(c)'
  <2>1. \A k \in Modules : Held(c, k)' = Held(c, k)
    BY <1>1 DEF Held
  <2> QED
    BY <1>1, <1>3, <2>1 DEF PatientInv, Current
<1>6. /\ n \in Nat /\ Cardinality(Answered(c)) \in Nat
      /\ Cardinality(Answered(c)') = Cardinality(Answered(c)) + 1
      /\ Cardinality(Answered(c)) < n
  <2>1. Answered(c) \in SUBSET Modules /\ Answered(c) \cup {m} \in SUBSET Modules
    BY <1>2 DEF Answered
  <2>2. IsFiniteSet(Modules) /\ IsFiniteSet(Answered(c))
    BY <2>1, SizesAssumption, FS_Subset
  <2>3. Cardinality(Answered(c) \cup {m}) = Cardinality(Answered(c)) + 1
    BY <1>2, <2>2, FS_AddElement
  <2>4. Cardinality(Answered(c) \cup {m}) <= n
    BY <2>1, <2>2, FS_Subset
  <2>5. n \in Nat /\ Cardinality(Answered(c)) \in Nat
    BY <2>2, FS_CardinalityType
  <2> QED
    BY <1>2, <2>3, <2>4, <2>5
<1>7. Len(t) = n * (req[c] - 1) + Cardinality(Answered(c))
  BY <1>2 DEF PatientInv, Batch
<1>8. Batch(c)'
  <2>1. Len(t) + 1 = n * (req[c] - 1) + (Cardinality(Answered(c)) + 1)
    BY <1>2, <1>4, <1>6, <1>7
  <2>2. Len(taken'[c]) = n * (req'[c] - 1) + Cardinality(Answered(c)') /\ req'[c] # 0
    BY <1>1, <1>2, <1>4, <1>6, <2>1
  <2> QED
    BY <2>2 DEF Batch
<1>9. Matched(c)'
  <2>1. Len(t) \div n = req[c] - 1
    <3>1. req[c] - 1 \in Nat
      BY <1>2
    <3> QED
      BY <1>6, <1>7, <3>1, DivBatch
  <2>2. ((Len(t) + 1) - 1) \div n = Len(t) \div n
    BY <1>4
  <2>3. r.req = (((Len(t) + 1) - 1) \div n) + 1
    BY <1>2, <2>1, <2>2
  <2>4. ASSUME NEW i \in 1..Len(taken'[c]) PROVE taken'[c][i].req = ((i - 1) \div n) + 1
    <3>1. CASE i \in 1..Len(t)
      BY <1>4, <3>1 DEF PatientInv, Matched
    <3>2. CASE i = Len(t) + 1
      BY <1>4, <2>3, <3>2
    <3> QED
      BY <1>4, <3>1, <3>2
  <2> QED
    BY <1>1, <2>4 DEF Matched
<1>10. Alive(c)'
  <2>1. taken'[c] # <<>> /\ taken'[c][Len(taken'[c])] = r
    BY <1>3, <1>4
  <2>2. state'[r.from] = "replying" /\ msg'[r.from] = [client |-> c, req |-> r.req]
    BY <1>1, <1>2 DEF HasText
  <2> QED
    BY <1>1, <1>3, <2>1, <2>2 DEF Alive, HasText
<1> QED
  BY <1>5, <1>8, <1>9, <1>10 DEF PatientInv

\* The other steps of its own thread move nothing that is under way.
LEMMA SelfPatient ==
  ASSUME LineInv, NEW c \in Patient, c \in Clients, PatientInv(c), Client(c)
  PROVE  PatientInv(c)'
<1>1. CASE Send(c)
  BY <1>1, SendPatient
<1>2. CASE Take(c)
  BY <1>2, TakePatient
<1>3. CASE \E k \in Modules : Callback(c, k)
  <2>1. Current(c)'
    BY <1>3, CallbackCurrent DEF PatientInv
  <2>2. /\ pc' = pc /\ req' = req /\ replies' = replies /\ taken' = taken
        /\ state' = state /\ msg' = msg
    BY <1>3 DEF Callback
  <2>3. Batch(c)' /\ Matched(c)' /\ Alive(c)'
    BY <2>2, TakenKept DEF PatientInv, Alive, HasText
  <2> QED
    BY <2>1, <2>3 DEF PatientInv
<1>4. ASSUME Publish(c) \/ PublishFails(c) \/ Published(c) \/ GetReply(c) \/ TimeOut(c) \/ Read(c)
      PROVE  PatientInv(c)'
  <2>1. /\ req' = req /\ replies' = replies /\ taken' = taken
        /\ inbox' = inbox /\ state' = state /\ msg' = msg
    BY <1>4 DEF Publish, PublishFails, Published, GetReply, TimeOut, Read
  <2>2. Current(c)' /\ Batch(c)' /\ Matched(c)'
    <3>1. \A k \in Modules : Held(c, k)' = Held(c, k)
      BY <2>1 DEF Held
    <3> QED
      BY <2>1, <3>1, TakenKept DEF PatientInv, Current
  <2>3. pc[c] # "getting" /\ pc'[c] # "reading" /\ replies[c] = <<>>
    BY <1>4 DEF Publish, PublishFails, Published, GetReply, TimeOut, Read, PatientInv, Alive, LineInv, TypeOK
  <2>4. Alive(c)'
    BY <2>1, <2>3 DEF Alive
  <2> QED
    BY <2>2, <2>4 DEF PatientInv
<1> QED
  BY <1>1, <1>2, <1>3, <1>4 DEF Client

\* When modules may run, a patient client has no reply to read.
LEMMA Idle ==
  ASSUME NEW c \in Clients, NEW m \in Modules, MayRun(m), Alive(c)
  PROVE  replies[c] = <<>> /\ pc[c] # "reading" /\ Blocked(c)
  BY DEF MayRun, Blocked, Alive

\* A module that has a message of c in hand finds c waiting in get_reply: any
\* other client that is blocked has no request under way.
LEMMA Awaited ==
  ASSUME LineInv, NEW c \in Patient, c \in Clients, PatientInv(c), NEW m \in Modules,
         MayRun(m), state[m] = "sleeping", msg[m].client = c
  PROVE  pc[c] = "getting" /\ replies[c] = <<>> /\ msg[m].req = req[c]
<1>1. msg[m].req \in Held(c, m)
  BY DEF Held
<1>2. msg[m].req = req[c] /\ req[c] \in Nat
  BY <1>1, SizesAssumption DEF PatientInv, Current, LineInv, TypeOK
<1>3. replies[c] = <<>> /\ Blocked(c)
  BY Idle DEF PatientInv
<1>4. ~ Owed(c, m)
  <2>1. UpTo(msg[m].req, req[c], Owed(c, m))
    BY <1>1 DEF LineInv, Lines, Line, InLine, Hand
  <2> QED
    BY <1>2, <2>1 DEF UpTo
<1>5. pc[c] # "sending"
  BY <1>4 DEF Owed
<1>6. Answered(c) # Modules
  BY <1>1, AllAnswered DEF PatientInv
<1> QED
  BY <1>2, <1>3, <1>5, <1>6 DEF Blocked

LEMMA ModulePatient ==
  ASSUME LineInv, NEW c \in Patient, c \in Clients, PatientInv(c), NEW m \in Modules, Module(m)
  PROVE  PatientInv(c)'
<1>1. MayRun(m) /\ pc' = pc /\ req' = req /\ taken' = taken
  BY DEF Module, GetMessage, SetReply, Replied
<1>2. replies[c] = <<>> /\ pc'[c] # "reading"
  BY <1>1, Idle DEF PatientInv
<1>3. Batch(c)' /\ Matched(c)'
  BY <1>1, TakenKept DEF PatientInv
<1>4. CASE GetMessage(m)
  <2>1. /\ inbox[m] \in Seq(Request) /\ inbox[m] # <<>> /\ state[m] = "waiting"
        /\ inbox' = [inbox EXCEPT ![m] = Tail(inbox[m])] /\ replies' = replies
        /\ msg' = [msg EXCEPT ![m] = Head(inbox[m])] /\ state' = [state EXCEPT ![m] = "sleeping"]
    BY <1>4 DEF GetMessage, LineInv, TypeOK
  <2>2. /\ 1 \in 1..Len(inbox[m]) /\ Head(inbox[m]) = inbox[m][1]
        /\ \A k \in 1..Len(Tail(inbox[m])) :
               k + 1 \in 1..Len(inbox[m]) /\ Tail(inbox[m])[k] = inbox[m][k + 1]
    <3> DEFINE q == inbox[m]
    <3>1. q \in Seq(Request) /\ q # <<>>
      BY <2>1
    <3> HIDE DEF q
    <3>2. /\ 1 \in 1..Len(q) /\ Head(q) = q[1]
          /\ \A k \in 1..Len(Tail(q)) : k + 1 \in 1..Len(q) /\ Tail(q)[k] = q[k + 1]
      BY <3>1, Tailed
    <3> QED
      BY <3>2 DEF q
  <2>3. ASSUME NEW k \in Modules PROVE \A x \in Held(c, k)' : x = req[c]
    <3>1. CASE k = m
      BY <2>1, <2>2, <3>1 DEF PatientInv, Current, Held, LineInv, TypeOK
    <3>2. CASE k # m
      <4>1. Held(c, k)' = Held(c, k)
        BY <2>1, <3>2 DEF Held, LineInv, TypeOK
      <4> QED
        BY <4>1 DEF PatientInv, Current
    <3> QED
      BY <3>1, <3>2
  <2>4. ASSUME NEW k \in Modules, NEW i \in 1..Len(inbox'[k]), inbox'[k][i].client = c
        PROVE  inbox'[k][i].req = req[c]
    <3>1. CASE k = m
      <4>1. inbox'[k] = Tail(inbox[m])
        BY <2>1, <3>1 DEF LineInv, TypeOK
      <4> QED
        BY <2>2, <2>4, <3>1, <4>1 DEF PatientInv, Current
    <3>2. CASE k # m
      BY <2>1, <2>4, <3>2 DEF PatientInv, Current, LineInv, TypeOK
    <3> QED
      BY <3>1, <3>2
  <2>5. Current(c)'
    BY <1>1, <2>1, <2>3, <2>4 DEF PatientInv, Current
  <2>6. Alive(c)'
    BY <1>2, <2>1 DEF Alive
  <2> QED
    BY <1>3, <2>5, <2>6 DEF PatientInv
<1>5. CASE SetReply(m)
  <2>1. inbox' = inbox /\ msg' = msg /\ state' = [state EXCEPT ![m] = "replying"]
    BY <1>5 DEF SetReply
  <2>2. \A k \in Modules : Held(c, k)' \subseteq Held(c, k)
    BY <2>1 DEF Held, LineInv, TypeOK
  <2>3. CASE msg[m].client # c
    <3>1. replies'[c] = replies[c]
      BY <1>5, <2>3 DEF SetReply, LineInv, TypeOK
    <3>2. Current(c)'
      BY <1>1, <2>1, <2>2, <3>1 DEF PatientInv, Current
    <3>3. Alive(c)'
      BY <1>2, <3>1 DEF Alive
    <3> QED
      BY <1>3, <3>2, <3>3 DEF PatientInv
  <2>4. CASE msg[m].client = c
    <3> DEFINE r == [from |-> m, to |-> c, req |-> req[c]]
    <3>1. pc[c] = "getting" /\ msg[m].req = req[c]
      BY <1>1, <1>5, <2>4, Awaited DEF SetReply
    <3>2. msg[m] = [client |-> c, req |-> req[c]] /\ r \in Reply
      BY <1>5, <2>4, <3>1, Messages DEF SetReply, LineInv, TypeOK, BusInv, Request, Reply
    <3>3. /\ Append(<<>>, r) \in Seq(Reply) /\ Len(<<>>) = 0 /\ Len(Append(<<>>, r)) = 1
          /\ Append(<<>>, r)[1] = r
      BY <3>2, Appended, EmptySeq
    <3>4. replies'[c] = Append(<<>>, r)
      BY <1>2, <1>5, <2>4, <3>1, <3>3, SizesAssumption DEF SetReply, Put, LineInv, TypeOK
    <3>5. Current(c)'
      BY <1>1, <2>1, <2>2, <3>3, <3>4 DEF PatientInv, Current
    <3>6. Alive(c)'
      BY <1>1, <1>2, <2>1, <3>1, <3>2, <3>3, <3>4 DEF Alive, HasText, LineInv, TypeOK
    <3> QED
      BY <1>3, <3>5, <3>6 DEF PatientInv
  <2> QED
    BY <2>3, <2>4
<1>6. CASE Replied(m)
  <2>1. /\ inbox' = inbox /\ msg' = msg /\ replies' = replies
        /\ state' = [state EXCEPT ![m] = "waiting"] /\ state[m] = "replying"
    BY <1>6 DEF Replied
  <2>2. \A k \in Modules : Held(c, k)' = Held(c, k)
    BY <2>1 DEF Held, LineInv, TypeOK
  <2>3. Current(c)'
    BY <1>1, <2>1, <2>2 DEF PatientInv, Current
  <2>4. Alive(c)'
    BY <1>2, <2>1 DEF Alive
  <2> QED
    BY <1>3, <2>3, <2>4 DEF PatientInv
<1> QED
  BY <1>4, <1>5, <1>6 DEF Module
-----------------------------------------------------------------------------
LEMMA InitIInv == Init => IInv
<1> SUFFICES ASSUME Init PROVE IInv
  OBVIOUS
<1>1. LineInv
  BY InitLineInv
<1>2. ASSUME NEW c \in Patient PROVE PatientInv(c)
  <2>1. /\ c \in Clients /\ pc[c] = "free" /\ req[c] = 0 /\ replies[c] = <<>> /\ taken[c] = <<>>
        /\ \A m \in Modules : inbox[m] = <<>> /\ Held(c, m) = {}
    BY SizesAssumption DEF Init, Held
  <2>2. Len(<<>>) = 0
    BY EmptySeq
  <2> QED
    BY <2>1, <2>2 DEF PatientInv, Current, Batch, Matched, Alive
<1> QED
  BY <1>1, <1>2 DEF IInv, TextAlive, Init

LEMMA NextIInv == IInv /\ [Next]_vars => IInv'
<1> SUFFICES ASSUME IInv, [Next]_vars PROVE IInv'
  OBVIOUS
<1>1. LineInv'
  BY NextLineInv DEF IInv
<1>2. ASSUME NEW c \in Patient PROVE PatientInv(c)'
  <2>1. c \in Clients /\ PatientInv(c)
    BY SizesAssumption DEF IInv
  <2>2. CASE UNCHANGED vars
    BY <2>1, <2>2 DEF PatientInv, Current, Batch, Matched, Alive, Held, Answered, HasText
  <2>3. CASE \E d \in Clients : Client(d)
    BY <2>1, <2>3, OtherPatient, SelfPatient DEF IInv
  <2>4. CASE \E m \in Modules : Module(m)
    BY <2>1, <2>4, ModulePatient DEF IInv
  <2> QED
    BY <2>2, <2>3, <2>4 DEF Next
<1>3. TextAlive'
  <2>1. CASE deadText' = deadText
    BY <2>1 DEF IInv, TextAlive
  <2>2. ASSUME NEW d \in Clients, Read(d) PROVE TextAlive'
    <3>1. CASE d \in Patient
      <4>1. HasText(d, taken[d][Len(taken[d])])
        BY <2>2, <3>1 DEF Read, IInv, PatientInv, Alive
      <4>2. deadText' = deadText
        BY <2>2, <4>1 DEF Read, HasText
      <4> QED
        BY <2>1, <4>2
    <3>2. CASE d \notin Patient
      <4>1. deadText' \subseteq deadText \cup {d}
        BY <2>2 DEF Read
      <4> QED
        BY <3>2, <4>1 DEF IInv, TextAlive
    <3> QED
      BY <3>1, <3>2
  <2> QED
    BY <2>1, <2>2 DEF Next, Client, Module, Send, Publish, PublishFails, Published, Callback, GetReply, Take,
                      TimeOut, GetMessage, SetReply, Replied
<1> QED
  BY <1>1, <1>2, <1>3 DEF IInv

\* A client that waits for every reply gets them request by request.
THEOREM InBatches == Spec => []RepliesMatchRequests
<1>1. IInv => RepliesMatchRequests
  <2> SUFFICES ASSUME IInv, NEW c \in Patient, NEW i \in DOMAIN taken[c]
               PROVE  taken[c][i].req = ((i - 1) \div Cardinality(Modules)) + 1
    BY DEF RepliesMatchRequests
  <2>1. i \in 1..Len(taken[c])
    BY SizesAssumption, Places, LenProperties DEF IInv
  <2> QED
    BY <2>1 DEF IInv, PatientInv, Matched
<1> QED
  BY <1>1, InitIInv, NextIInv, PTL DEF Spec

\* A patient client has used a reply before the text that it points at goes.
THEOREM ReadInTime == Spec => []TextAlive
<1>1. IInv => TextAlive
  BY DEF IInv
<1> QED
  BY <1>1, InitIInv, NextIInv, PTL DEF Spec
THEOREM Invariance == Spec => []IInv
  BY InitIInv, NextIInv, PTL DEF Spec
-----------------------------------------------------------------------------
(* No request of a patient client is lost where the modules' queues have a *)
(* place for each request that can be under way.                           *)

\* A patient client has one request under way, the others all that they send.
Slots == (Patient \X {0}) \cup ((Clients \ Patient) \X (1..MaxRequests))
Slot(r) == IF r.client \in Patient THEN <<r.client, 0>> ELSE <<r.client, r.req>>

RoomForAll == Cardinality(Slots) <= InboxSize

LEMMA FromOne ==
  ASSUME NEW n \in Nat
  PROVE  /\ IsFiniteSet(1..n)
         /\ Cardinality(1..n) = n
<1>1. 1 \in Int /\ n \in Int /\ (n = 0 \/ ~ 1 > n) /\ n - 1 + 1 = n
  OBVIOUS
<1>2. IsFiniteSet(1..n) /\ Cardinality(1..n) = IF 1 > n THEN 0 ELSE n - 1 + 1
  BY <1>1, FS_Interval, Zenon
<1> QED
  BY <1>1, <1>2

LEMMA SlotsFinite == IsFiniteSet(Slots) /\ Cardinality(Slots) \in Nat
<1>1. IsFiniteSet(Patient) /\ IsFiniteSet(Clients \ Patient)
  BY SizesAssumption, FS_Subset, FS_Difference
<1>2. IsFiniteSet({0}) /\ IsFiniteSet(1..MaxRequests)
  BY SizesAssumption, FS_Singleton, FromOne
<1>3. IsFiniteSet(Patient \X {0}) /\ IsFiniteSet((Clients \ Patient) \X (1..MaxRequests))
  BY <1>1, <1>2, FS_Product
<1>4. IsFiniteSet(Slots)
  BY <1>3, FS_Union DEF Slots
<1> QED
  BY <1>4, FS_CardinalityType

\* Two requests have the same slot only if they are of the same client and, when
\* that one is not patient, have the same number.
LEMMA SlotOf ==
  /\ \A r \in Request : Slot(r) \in Slots
  /\ \A r, s \in Request : Slot(r) = Slot(s) =>
         r.client = s.client /\ (r.client \in Patient \/ r.req = s.req)
<1>1. \A r \in Request : r.client \in Clients /\ r.req \in 1..MaxRequests
  BY DEF Request
<1>2. \A r \in Request : Slot(r) \in Slots
  BY <1>1 DEF Slot, Slots
<1>3. ASSUME NEW r \in Request, NEW s \in Request, Slot(r) = Slot(s)
      PROVE  r.client = s.client /\ (r.client \in Patient \/ r.req = s.req)
  <2>1. Slot(r)[1] = r.client /\ Slot(s)[1] = s.client
    BY DEF Slot
  <2>2. r.client = s.client
    BY <1>3, <2>1
  <2>3. r.client \notin Patient => Slot(r)[2] = r.req /\ Slot(s)[2] = s.req
    BY <2>2 DEF Slot
  <2> QED
    BY <1>3, <2>2, <2>3
<1> QED
  BY <1>2, <1>3

\* The requests in a module's queue, and the one on its way there, have slots of
\* their own, so that there is a place for it.
LEMMA HasRoom ==
  ASSUME IInv, RoomForAll, NEW c \in Clients, NEW m \in Modules, Callback(c, m)
  PROVE  Len(inbox[m]) < InboxSize
<1> DEFINE q == inbox[m]  n == Len(q)
<1>1. /\ q \in Seq(Request) /\ n \in Nat /\ n <= InboxSize /\ InboxSize \in Nat
      /\ \A k \in 1..n : q[k] \in Request
  BY SizesAssumption, Numbers DEF IInv, LineInv, TypeOK
<1>2. chan = [client |-> c, req |-> req[c]] /\ chan \in Request /\ Owed(c, m)
  BY Messages DEF Callback, IInv, LineInv, TypeOK, BusInv, Owed
<1>3. ASSUME NEW k \in 1..n PROVE Slot(q[k]) # Slot(chan)
  <2> SUFFICES ASSUME Slot(q[k]) = Slot(chan) PROVE FALSE
    OBVIOUS
  <2>1. q[k].client = c /\ (c \in Patient \/ q[k].req = req[c])
    BY <1>1, <1>2, SlotOf
  <2>2. q[k].req < req[c]
    BY <1>2, <2>1 DEF IInv, LineInv, Lines, Line, InLine, Waiting, UpTo
  <2>3. c \in Patient => q[k].req = req[c]
    BY <2>1 DEF IInv, PatientInv, Current
  <2>4. req[c] \in Nat
    BY SizesAssumption DEF IInv, LineInv, TypeOK
  <2> QED
    BY <2>1, <2>2, <2>3, <2>4
<1>4. ASSUME NEW k \in 1..n, NEW l \in 1..n, k < l PROVE Slot(q[k]) # Slot(q[l])
  <2> SUFFICES ASSUME Slot(q[k]) = Slot(q[l]) PROVE FALSE
    OBVIOUS
  <2> DEFINE d == q[k].client
  <2>1. d \in Clients /\ q[l].client = d /\ (d \in Patient \/ q[k].req = q[l].req)
    BY <1>1, SlotOf, Numbers
  <2>2. q[k].req < q[l].req
    BY <1>4, <2>1 DEF IInv, LineInv, Lines, Line, InLine, Waiting
  <2>3. d \in Patient => q[k].req = req[d] /\ q[l].req = req[d]
    BY <2>1 DEF IInv, PatientInv, Current
  <2>4. q[k].req \in Nat /\ q[l].req \in Nat
    BY <1>1, Numbers
  <2> QED
    BY <2>1, <2>2, <2>3, <2>4
<1>5. Cardinality(Slots) < n + 1 => FALSE
  <2> SUFFICES ASSUME Cardinality(Slots) < n + 1 PROVE FALSE
    OBVIOUS
  <2> DEFINE f == [k \in 1..(n + 1) |-> IF k = n + 1 THEN Slot(chan) ELSE Slot(q[k])]
  <2>1. \A k \in 1..(n + 1) : k \in 1..n \/ k = n + 1
    BY <1>1
  <2>2. f \in [1..(n + 1) -> Slots]
    BY <1>1, <1>2, <2>1, SlotOf
  <2>3. IsFiniteSet(1..(n + 1)) /\ Cardinality(1..(n + 1)) = n + 1
    BY <1>1, FromOne
  <2> HIDE DEF f
  <2>4. PICK k \in 1..(n + 1), l \in 1..(n + 1) : k # l /\ f[k] = f[l]
    BY <2>2, <2>3, SlotsFinite, FS_PigeonHole
  <2>5. ASSUME NEW i \in 1..(n + 1), NEW j \in 1..(n + 1), i < j PROVE f[i] # f[j]
    <3>1. i \in 1..n /\ i # n + 1
      BY <1>1, <2>5
    <3>2. f[i] = Slot(q[i]) /\ f[j] = (IF j = n + 1 THEN Slot(chan) ELSE Slot(q[j]))
      BY <3>1 DEF f
    <3> QED
      BY <1>3, <1>4, <2>1, <2>5, <3>1, <3>2
  <2>6. k < l \/ l < k
    BY <1>1, <2>4
  <2> QED
    BY <2>4, <2>5, <2>6
<1> QED
  BY <1>1, <1>5, SlotsFinite DEF RoomForAll

\* Where the request of c to m is.
InQueue(c, m) == \E k \in 1..Len(inbox[m]) : inbox[m][k] = [client |-> c, req |-> req[c]]
InHand(c, m)  == state[m] = "sleeping" /\ msg[m] = [client |-> c, req |-> req[c]]
InReplies(c, m) == \E k \in 1..Len(replies[c]) : replies[c][k] = [from |-> m, to |-> c, req |-> req[c]]

Kept(c, m) == Owed(c, m) \/ InQueue(c, m) \/ InHand(c, m) \/ InReplies(c, m)

KeptInv == \A c \in Patient, m \in Modules : req[c] > 0 /\ m \notin Answered(c) => Kept(c, m)

LEMMA KeptIsNotLost == KeptInv => NoRequestLost
  BY DEF KeptInv, Kept, InQueue, InHand, InReplies, NoRequestLost

\* What a queue held is still there after a put.
LEMMA StillQueued ==
  ASSUME NEW S, NEW q \in Seq(S), NEW item \in S, NEW k \in 1..Len(q),
         NEW p, p \in {q, Append(q, item)}
  PROVE  k \in 1..Len(p) /\ p[k] = q[k]
<1>1. Len(q) \in Nat /\ Len(Append(q, item)) = Len(q) + 1 /\ Append(q, item)[k] = q[k]
  BY Appended
<1> QED
  BY <1>1

\* A callback, of c or of another client, takes nothing out of the queues, and
\* puts there what c owes.
LEMMA CallbackKeeps ==
  ASSUME IInv, RoomForAll, NEW c \in Patient, NEW m \in Modules, Kept(c, m),
         NEW d \in Clients, NEW k \in Modules, Callback(d, k)
  PROVE  Kept(c, m)'
<1>1. /\ pc' = pc /\ req' = req /\ replies' = replies /\ state' = state /\ msg' = msg
      /\ untold' = untold \ {k} /\ lock = d
      /\ chan = [client |-> d, req |-> req[d]] /\ chan \in Request
  BY Messages DEF Callback, IInv, LineInv, TypeOK, BusInv
<1>2. inbox[k] \in Seq(Request) /\ Len(inbox[k]) \in Nat /\ InboxSize \in Nat
  BY SizesAssumption, LenProperties DEF IInv, LineInv, TypeOK
<1>3. /\ inbox'[k] = Append(inbox[k], chan)
      /\ \A l \in Modules : l # k => inbox'[l] = inbox[l]
  BY HasRoom DEF Callback, Put, IInv, LineInv, TypeOK
<1>4. c \in Clients
  BY SizesAssumption
<1>5. CASE InHand(c, m) \/ InReplies(c, m)
  BY <1>1, <1>5 DEF Kept, InHand, InReplies
<1>6. CASE InQueue(c, m)
  <2>1. PICK i \in 1..Len(inbox[m]) : inbox[m][i] = [client |-> c, req |-> req[c]]
    BY <1>6 DEF InQueue
  <2>2. i \in 1..Len(inbox'[m]) /\ inbox'[m][i] = inbox[m][i]
    <3>1. CASE m = k
      BY <1>1, <1>2, <1>3, <3>1, StillQueued
    <3>2. CASE m # k
      BY <1>3, <3>2
    <3> QED
      BY <3>1, <3>2
  <2> QED
    BY <1>1, <2>1, <2>2 DEF Kept, InQueue
<1>7. CASE Owed(c, m)
  <2>1. CASE m = k /\ pc[c] = "publishing"
    <3>1. c = d
      BY <1>1, <1>4, <2>1 DEF IInv, LineInv, BusInv
    <3> DEFINE q == inbox[k]
    <3>2. q \in Seq(Request)
      BY <1>2
    <3> HIDE DEF q
    <3>3. Len(q) + 1 \in 1..Len(Append(q, chan)) /\ Append(q, chan)[Len(q) + 1] = chan
      BY <1>1, <3>2, Appended
    <3>4. InQueue(c, m)'
      BY <1>1, <1>3, <2>1, <3>1, <3>3 DEF InQueue, q
    <3> QED
      BY <3>4 DEF Kept
  <2>2. CASE m # k \/ pc[c] = "sending"
    BY <1>1, <1>7, <2>2 DEF Owed, Kept
  <2> QED
    BY <1>7, <2>1, <2>2 DEF Owed
<1> QED
  BY <1>5, <1>6, <1>7 DEF Kept

LEMMA ClientKeeps ==
  ASSUME IInv, RoomForAll, KeptInv, NEW d \in Clients, Client(d),
         NEW c \in Patient, NEW m \in Modules, (req[c] > 0 /\ m \notin Answered(c))'
  PROVE  Kept(c, m)'
<1>1. c \in Clients /\ LineInv /\ PatientInv(c) /\ TypeOK /\ BusInv
  BY SizesAssumption DEF IInv, LineInv
<1>2. CASE Send(d) /\ d = c
  BY <1>1, <1>2 DEF Send, TypeOK, Kept, Owed
<1>3. CASE \E k \in Modules : Callback(d, k)
  <2>1. req[c] > 0 /\ m \notin Answered(c)
    BY <1>3 DEF Callback, Answered
  <2> QED
    BY <1>3, <2>1, CallbackKeeps DEF KeptInv
<1>4. CASE Take(d) /\ d = c
  <2> DEFINE r == Head(replies[c])
  <2>1. req' = req /\ pc[c] = "getting" /\ inbox' = inbox /\ state' = state /\ msg' = msg
    BY <1>4 DEF Take
  <2>2. /\ Len(replies[c]) = 1 /\ r = replies[c][1]
        /\ Answered(c)' = Answered(c) \cup {r.from}
    BY <1>1, <1>4, TakeAnswers
  <2>3. Kept(c, m) /\ ~ Owed(c, m)
    BY <2>1, <2>2 DEF KeptInv, Owed
  <2>4. ~ InReplies(c, m)
    BY <2>2 DEF InReplies
  <2> QED
    BY <2>1, <2>3, <2>4 DEF Kept, InQueue, InHand
<1>5. CASE d = c /\ (Publish(c) \/ PublishFails(c) \/ Published(c) \/ GetReply(c) \/ TimeOut(c) \/ Read(c))
  <2>1. /\ req' = req /\ replies' = replies /\ taken' = taken
        /\ inbox' = inbox /\ state' = state /\ msg' = msg
    BY <1>5 DEF Publish, PublishFails, Published, GetReply, TimeOut, Read
  <2>2. Kept(c, m)
    BY <2>1 DEF KeptInv, Answered
  <2>3. Owed(c, m) => Owed(c, m)'
    BY <1>1, <1>5 DEF Publish, PublishFails, Published, GetReply, TimeOut, Read, Owed, TypeOK
  <2> QED
    BY <2>1, <2>2, <2>3 DEF Kept, InQueue, InHand, InReplies
<1>6. CASE d # c /\ ~ \E k \in Modules : Callback(d, k)
  <2>1. /\ req'[c] = req[c] /\ replies'[c] = replies[c] /\ taken'[c] = taken[c]
        /\ pc'[c] = pc[c] /\ inbox' = inbox /\ state' = state /\ msg' = msg
        /\ untold' = untold \/ lock = Nobody
    BY <1>1, <1>6 DEF Client, Send, Publish, PublishFails, Published, GetReply, Take, TimeOut, Read, TypeOK
  <2>2. Kept(c, m)
    BY <2>1 DEF KeptInv, Answered
  <2>3. Owed(c, m) => Owed(c, m)'
    BY <1>1, <2>1, NobodyAssumption DEF Owed, BusInv
  <2> QED
    BY <2>1, <2>2, <2>3 DEF Kept, InQueue, InHand, InReplies
<1> QED
  BY <1>2, <1>3, <1>4, <1>5, <1>6 DEF Client

LEMMA ModuleKeeps ==
  ASSUME IInv, RoomForAll, KeptInv, NEW k \in Modules, Module(k),
         NEW c \in Patient, NEW m \in Modules, (req[c] > 0 /\ m \notin Answered(c))'
  PROVE  Kept(c, m)'
<1>1. c \in Clients /\ LineInv /\ PatientInv(c) /\ TypeOK /\ BusInv
  BY SizesAssumption DEF IInv, LineInv
<1>2. /\ MayRun(k) /\ pc' = pc /\ req' = req /\ untold' = untold /\ taken' = taken
      /\ \A l \in Modules : l # k => inbox'[l] = inbox[l] /\ state'[l] = state[l] /\ msg'[l] = msg[l]
  BY <1>1 DEF Module, GetMessage, SetReply, Replied, TypeOK
<1>3. Kept(c, m)
  BY <1>2 DEF KeptInv, Answered
<1>4. ~ InReplies(c, m)
  BY <1>1, <1>2, Idle, EmptySeq DEF InReplies, PatientInv
<1>5. CASE m # k \/ Owed(c, m)
  BY <1>2, <1>3, <1>4, <1>5 DEF Kept, Owed, InQueue, InHand
<1>6. CASE m = k /\ GetMessage(k) /\ InQueue(c, m)
  <2> DEFINE q == inbox[m]  r == [client |-> c, req |-> req[c]]
  <2>1. PICK i \in 1..Len(q) : q[i] = r
    BY <1>6 DEF InQueue
  <2>2. q \in Seq(Request) /\ q # <<>>
    BY <1>1, <1>6 DEF GetMessage, TypeOK
  <2>3. inbox'[m] = Tail(q) /\ msg'[m] = Head(q) /\ state'[m] = "sleeping"
    BY <1>1, <1>6 DEF GetMessage, TypeOK
  <2> HIDE DEF q
  <2>4. /\ Len(q) \in Nat \ {0} /\ Head(q) = q[1] /\ Len(Tail(q)) = Len(q) - 1
        /\ \A j \in 1..Len(Tail(q)) : Tail(q)[j] = q[j + 1]
    BY <2>2, Tailed
  <2>5. CASE i = 1
    BY <1>2, <2>1, <2>3, <2>4, <2>5 DEF Kept, InHand
  <2>6. CASE i # 1
    <3>1. i - 1 \in 1..Len(Tail(q)) /\ (i - 1) + 1 = i
      BY <2>4, <2>6
    <3>2. Tail(q)[i - 1] = r
      BY <2>1, <2>4, <3>1
    <3> QED
      BY <1>2, <2>3, <3>1, <3>2 DEF Kept, InQueue
  <2> QED
    BY <2>5, <2>6
<1>7. CASE m = k /\ SetReply(k) /\ InHand(c, m)
  <2> DEFINE r == [from |-> m, to |-> c, req |-> req[c]]
  <2>1. msg[m].client = c /\ msg[m].req = req[c]
    BY <1>7 DEF InHand
  <2>2. replies[c] = <<>> /\ r \in Reply
    <3>1. msg[m] \in Request
      BY <1>1, <1>7 DEF SetReply, TypeOK, BusInv
    <3> QED
      BY <1>1, <1>2, <2>1, <3>1, Idle, Messages DEF PatientInv, Request
  <2>3. /\ Len(<<>>) = 0 /\ Len(Append(<<>>, r)) = 1 /\ Append(<<>>, r)[1] = r
    BY <2>2, Appended, EmptySeq
  <2>4. replies'[c] = Append(<<>>, r)
    BY <1>1, <1>7, <2>1, <2>2, <2>3, SizesAssumption DEF SetReply, Put, TypeOK
  <2> QED
    BY <1>2, <2>3, <2>4 DEF Kept, InReplies
<1>8. CASE m = k /\ (SetReply(k) \/ Replied(k)) /\ InQueue(c, m)
  BY <1>2, <1>8 DEF SetReply, Replied, Kept, InQueue
<1> QED
  BY <1>3, <1>4, <1>5, <1>6, <1>7, <1>8 DEF Module, GetMessage, Replied, Kept, InHand

\* Until m has answered a patient client's request, the request or the answer is
\* somewhere on its way, if each module's queue has a place for every request that
\* can be under way.
THEOREM Unlost ==
  ASSUME RoomForAll
  PROVE  Spec => []NoRequestLost
<1>1. Init => KeptInv
  BY SizesAssumption DEF Init, KeptInv
<1>2. IInv /\ KeptInv /\ [Next]_vars => KeptInv'
  <2> SUFFICES ASSUME IInv, KeptInv, [Next]_vars, NEW c \in Patient, NEW m \in Modules,
                      (req[c] > 0 /\ m \notin Answered(c))'
               PROVE  Kept(c, m)'
    BY DEF KeptInv
  <2>1. CASE UNCHANGED vars
    BY <2>1 DEF KeptInv, Answered, Kept, Owed, InQueue, InHand, InReplies
  <2>2. CASE Next
    BY <2>2, ClientKeeps, ModuleKeeps DEF Next
  <2> QED
    BY <2>1, <2>2
<1> QED
  BY <1>1, <1>2, Invariance, KeptIsNotLost, PTL DEF Spec

-----------------------------------------------------------------------------
(* The survey that a patient client sees.                                  *)

\* It sees no change of c.
Unseen(c) == req'[c] = req[c] /\ Answered(c)' = Answered(c) /\ Len(taken[c])' = Len(taken[c])

LEMMA Stutters ==
  ASSUME \A c \in Patient : Unseen(c)
  PROVE  UNCHANGED Contract!vars
BY DEF Contract!vars, Unseen

LEMMA Asks ==
  ASSUME NEW c \in Patient, \A d \in Patient : d # c => Unseen(d),
         req[c] = 0 \/ Answered(c) = Modules, req'[c] = req[c] + 1,
         Answered(c)' = {}, Len(taken[c])' = Len(taken[c])
  PROVE  Contract!Ask(c)
BY DEF Contract!Ask, Unseen

LEMMA AnswersOne ==
  ASSUME NEW c \in Patient, \A d \in Patient : d # c => Unseen(d), NEW m \in Modules,
         req[c] > 0, m \notin Answered(c), req'[c] = req[c],
         Answered(c)' = Answered(c) \cup {m}, Len(taken[c])' = Len(taken[c]) + 1
  PROVE  Contract!Answer(c, m)
BY DEF Contract!Answer, Unseen

\* A client's send_message asks, its get_reply brings an answer, and the rest of
\* its steps are not seen; nor are those of the others.
LEMMA ClientMaps ==
  ASSUME IInv, NEW d \in Clients, Client(d)
  PROVE  Contract!Next \/ UNCHANGED Contract!vars
<1>1. LineInv /\ TypeOK
  BY DEF IInv, LineInv
<1>2. ASSUME NEW c \in Patient, c # d PROVE Unseen(c)
  <2>1. req'[c] = req[c] /\ taken'[c] = taken[c]
    BY <1>1, <1>2, SizesAssumption
       DEF Client, Send, Publish, PublishFails, Published, Callback, GetReply, Take, TimeOut, Read, TypeOK
  <2> QED
    BY <2>1 DEF Unseen, Answered
<1>3. CASE d \notin Patient
  BY <1>2, <1>3, Stutters
<1>4. CASE d \in Patient /\ Send(d)
  <2>1. /\ req[d] = 0 \/ Answered(d) = Modules
        /\ req'[d] = req[d] + 1 /\ Len(taken[d])' = Len(taken[d])
    BY <1>1, <1>4 DEF Send, TypeOK
  <2>2. Answered(d)' = {}
    BY <1>1, <1>4, SendStartsAnew DEF IInv
  <2> QED
    BY <1>2, <1>4, <2>1, <2>2, Asks DEF Contract!Next
<1>5. CASE d \in Patient /\ Take(d)
  <2>1. req'[d] = req[d] /\ req[d] > 0
    <3>1. req[d] \in Nat \ {0}
      BY <1>1, <1>5, TakeAnswers DEF IInv
    <3> QED
      BY <1>5, <3>1 DEF Take
  <2>2. PICK m \in Modules :
            /\ m \notin Answered(d) /\ Answered(d)' = Answered(d) \cup {m}
            /\ Len(taken[d])' = Len(taken[d]) + 1
    BY <1>1, <1>5, TakeAnswers DEF IInv
  <2>3. Contract!Answer(d, m)
    BY <1>2, <1>5, <2>1, <2>2, AnswersOne
  <2> QED
    BY <1>5, <2>3 DEF Contract!Next
<1>6. CASE ~ Send(d) /\ ~ Take(d)
  <2>1. req' = req /\ taken' = taken
    BY <1>6 DEF Client, Publish, PublishFails, Published, Callback, GetReply, TimeOut, Read
  <2>2. \A c \in Patient : Unseen(c)
    BY <2>1 DEF Unseen, Answered
  <2> QED
    BY <2>2, Stutters
<1> QED
  BY <1>3, <1>4, <1>5, <1>6

\* A patient client sees a survey: each answer it takes is to its last request, of
\* a module that had not answered it, and it asks again when all have.  (That they
\* all do, the fairness of IsSurvey, needs RoomForAll and the scheduler.)
THEOREM Implements == Spec => Contract!SafeSpec
<1>1. Init => Contract!Init
  <2> SUFFICES ASSUME Init PROVE Contract!Init
    OBVIOUS
  <2>1. \A c \in Patient : req[c] = 0 /\ taken[c] = <<>> /\ Len(<<>>) = 0
    BY SizesAssumption, EmptySeq DEF Init
  <2>2. \A c \in Patient : Answered(c) = {}
    <3>1. \A i : i \notin DOMAIN <<>>
      OBVIOUS
    <3> QED
      BY <2>1, <3>1 DEF Answered
  <2> QED
    BY <2>1, <2>2 DEF Contract!Init
<1>2. IInv /\ [Next]_vars => [Contract!Next]_(Contract!vars)
  <2> SUFFICES ASSUME IInv, [Next]_vars PROVE Contract!Next \/ UNCHANGED Contract!vars
    OBVIOUS
  <2>1. CASE \E d \in Clients : Client(d)
    BY <2>1, ClientMaps
  <2>2. CASE UNCHANGED vars \/ \E m \in Modules : Module(m)
    <3>1. req' = req /\ taken' = taken
      BY <2>2 DEF Module, GetMessage, SetReply, Replied
    <3>2. \A c \in Patient : Unseen(c)
      BY <3>1 DEF Unseen, Answered
    <3> QED
      BY <3>2, Stutters
  <2> QED
    BY <2>1, <2>2 DEF Next
<1> QED
  BY <1>1, <1>2, Invariance, PTL DEF Spec, Contract!SafeSpec

=============================================================================

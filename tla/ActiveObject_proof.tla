------------------------- MODULE ActiveObject_proof -------------------------
(* Proofs about ActiveObject, for any clients, patient and hasty, any      *)
(* number of calls and any length of the queue.                            *)
EXTENDS ActiveObject, SequenceTheorems, FiniteSetTheorems, TLAPS, Integers

\* The object's thread has a call of c.
Held(c) == spc # "get" /\ msg.fut = c

\* A semaphore is only given for a call that has a Future.
GiveInv == spc = "give" => msg.fut \in Clients

\* Each call under way, and a gift of the semaphore for one, is waited for or
\* has been given up on.
Behind(c) ==
    Cardinality(Calls(c)) + sem[c]
        <= late[c] + (IF pc[c] \in {"called", "waiting"} THEN 1 ELSE 0)

\* The calls of c are under way in the order of their numbers, and those that
\* are executed or returned come before them.
Order(c) ==
    /\ ret[c] <= called[c] /\ got[c] <= called[c]
    /\ ret[c] # 0 => got[c] <= ret[c]
    /\ \A i \in 1..Len(msgq) : msgq[i].fut = c =>
           ret[c] <= msgq[i].args /\ got[c] <= msgq[i].args
           /\ msgq[i].args <= called[c]
    /\ \A i, j \in 1..Len(msgq) :
           msgq[i].fut = c /\ msgq[j].fut = c /\ i < j
               => msgq[i].args < msgq[j].args
    /\ Held(c) =>
           /\ ret[c] <= msg.args /\ got[c] <= msg.args /\ msg.args <= called[c]
           /\ \A i \in 1..Len(msgq) : msgq[i].fut = c => msg.args < msgq[i].args

\* A client that waits for ever has at most one call under way, its latest; it
\* goes on only when that is executed, and then finds its result.
Once(c) ==
    /\ pc[c] \in {"gone", "ready", "woken"} => ~UnderWay(c) /\ sem[c] = 0
    /\ sem[c] = 1 => ~UnderWay(c) /\ ret[c] = called[c]
    /\ pc[c] = "woken" => ret[c] = called[c]
    /\ \A i \in 1..Len(msgq) : msgq[i].fut = c => msgq[i].args = called[c]
    /\ \A i, j \in 1..Len(msgq) : msgq[i].fut = c /\ msgq[j].fut = c => i = j
    /\ Held(c) => /\ msg.args = called[c]
                  /\ \A i \in 1..Len(msgq) : msgq[i].fut # c
    /\ spc = "give" /\ msg.fut = c => ret[c] = called[c]

IInv ==
    /\ TypeOK /\ GiveInv
    /\ \A c \in Clients : Order(c) /\ (c \in Patient => Once(c))

USE DEF server, future, client, vars
-----------------------------------------------------------------------------
(* The queue.                                                              *)

\* A put leaves what is in the queue where it is.
LEMMA PutQueue ==
  ASSUME msgq \in Seq(Package), Len(msgq) <= MaxMsgs, NEW m \in Package, Put(m)
  PROVE  /\ msgq' \in Seq(Package) /\ Len(msgq') <= MaxMsgs
         /\ \/ msgq' = msgq
            \/ /\ Len(msgq') = Len(msgq) + 1 /\ msgq'[Len(msgq) + 1] = m
               /\ \A i \in 1..Len(msgq) : msgq'[i] = msgq[i]
<1>1. Len(msgq) \in Nat /\ MaxMsgs \in Nat
  BY LenProperties, SizesAssumption
<1>2. CASE Len(msgq) < MaxMsgs
  <2>1. msgq' = Append(msgq, m)
    BY <1>2 DEF Put
  <2> QED
    BY <1>1, <1>2, <2>1, AppendProperties
<1>3. CASE ~(Len(msgq) < MaxMsgs)
  BY <1>3 DEF Put
<1> QED
  BY <1>2, <1>3

\* A get takes the first package, and the others move up.
LEMMA GetQueue ==
  ASSUME msgq \in Seq(Package), Len(msgq) <= MaxMsgs, Get
  PROVE  /\ msgq' \in Seq(Package) /\ Len(msgq') <= MaxMsgs
         /\ msg' \in Package /\ msg' = msgq[1]
         /\ Len(msgq) \in Nat \ {0} /\ Len(msgq') = Len(msgq) - 1
         /\ \A i \in 1..Len(msgq') : msgq'[i] = msgq[i + 1]
<1>1. msgq # <<>> /\ msg' = Head(msgq) /\ msgq' = Tail(msgq)
  BY DEF Get
<1>2. Len(msgq) \in Nat /\ Len(msgq) # 0
  BY <1>1, LenProperties, EmptySeq
<1>3. msgq' \in Seq(Package) /\ Len(msgq') = Len(msgq) - 1
      /\ \A i \in 1..Len(msgq') : msgq'[i] = msgq[i + 1]
  BY <1>1, HeadTailProperties
<1>4. msg' = msgq[1] /\ msg' \in Package
  BY <1>1, <1>2, LenProperties
<1> QED
  BY <1>2, <1>3, <1>4, SizesAssumption

\* The package of a call.
LEMMA Packed ==
  ASSUME TypeOK, NEW c \in Clients, called[c] < MaxCalls
  PROVE  /\ [fut |-> c, args |-> called[c] + 1] \in Package
         /\ NoPackage \in Package
  BY SizesAssumption DEF Package, TypeOK, NoPackage
-----------------------------------------------------------------------------
(* The calls under way, as a set of their numbers.                         *)

\* A number is under way in the queue or with the object's thread.
LEMMA InCalls ==
  ASSUME NEW c, NEW n
  PROVE  n \in Calls(c) <=> \/ \E i \in 1..Len(msgq) : msgq[i].fut = c /\ msgq[i].args = n
                            \/ Held(c) /\ msg.args = n
  BY DEF Calls, Held

LEMMA CallsFinite ==
  ASSUME TypeOK, NEW c \in Clients
  PROVE  IsFiniteSet(Calls(c)) /\ Cardinality(Calls(c)) \in Nat
<1>1. 0 \in Int /\ MaxCalls \in Int
  BY SizesAssumption
<1>2. IsFiniteSet(0..MaxCalls)
  BY <1>1, FS_Interval
<1>3. \A i \in 1..Len(msgq) : msgq[i] \in Package
  BY LenProperties, ElementOfSeq DEF TypeOK
<1>4. Calls(c) \subseteq 0..MaxCalls
  BY <1>3 DEF Calls, TypeOK, Package
<1> QED
  BY <1>2, <1>4, FS_Subset, FS_CardinalityType

\* Fewer calls, or the same, and no less that they are accounted for.
LEMMA BehindKept ==
  ASSUME TypeOK, TypeOK', NEW c \in Clients, Behind(c), Calls(c)' \subseteq Calls(c),
         late'[c] = late[c], sem'[c] <= sem[c],
         pc[c] \in {"called", "waiting"} => pc'[c] \in {"called", "waiting"}
  PROVE  Behind(c)'
<1>1. Cardinality(Calls(c)') <= Cardinality(Calls(c))
  BY CallsFinite, FS_Subset
<1>2. IsFiniteSet(Calls(c)') /\ Cardinality(Calls(c)') \in Nat /\ Cardinality(Calls(c)) \in Nat
  BY CallsFinite, FS_Subset, FS_CardinalityType
<1>3. sem[c] \in 0..1 /\ sem'[c] \in 0..1 /\ late[c] \in Nat
  BY DEF TypeOK
<1> QED
  BY <1>1, <1>2, <1>3 DEF Behind
-----------------------------------------------------------------------------
(* Types.                                                                  *)

LEMMA InitTypes == Init => TypeOK
<1> SUFFICES ASSUME Init PROVE TypeOK
  OBVIOUS
<1>1. 0 \in 0..1 /\ 0 \in 0..MaxCalls /\ 0 \in 0..MaxPrints
  BY SizesAssumption
<1>2. msg \in Package
  BY <1>1 DEF Init, Package, NoPackage
<1>3. msgq \in Seq(Package) /\ Len(msgq) <= MaxMsgs
  BY EmptySeq, SizesAssumption DEF Init
<1> QED
  BY <1>1, <1>2, <1>3 DEF Init, TypeOK

\* What a step of the object's thread does to the types.
LEMMA ServerTypes ==
  ASSUME TypeOK, GiveInv, Server
  PROVE  TypeOK' /\ GiveInv'
<1>1. CASE Get
  <2>1. msgq' \in Seq(Package) /\ Len(msgq') <= MaxMsgs /\ msg' \in Package
    BY <1>1, GetQueue DEF TypeOK
  <2>2. spc' = "execute" /\ UNCHANGED <<future, client, prints, late>>
    BY <1>1 DEF Get
  <2> QED
    BY <2>1, <2>2 DEF TypeOK, GiveInv
<1>2. CASE Execute
  <2>1. UNCHANGED <<msgq, msg, sem, client, prints, late>>
    BY <1>2 DEF Execute
  <2>2. msg.fut \in Clients \cup {Void} /\ msg.args \in 0..MaxCalls
    BY DEF TypeOK, Package
  <2>3. ret' \in [Clients -> 0..MaxCalls]
    BY <1>2, <2>2 DEF Execute, TypeOK
  <2>4. spc' \in {"get", "give"} /\ (spc' = "give" => msg.fut \in Clients)
    BY <1>2, <2>2 DEF Execute
  <2> QED
    BY <2>1, <2>3, <2>4 DEF TypeOK, GiveInv
<1>3. CASE Give
  <2>1. UNCHANGED <<msgq, msg, ret, client, prints, late>> /\ spc' = "get"
    BY <1>3 DEF Give
  <2>2. sem' \in [Clients -> 0..1]
    <3>1. sem \in [Clients -> 0..1] /\ 1 \in 0..1
      BY DEF TypeOK
    <3>2. sem' = [sem EXCEPT ![msg.fut] = 1]
      BY <1>3 DEF Give
    <3> QED
      BY <3>1, <3>2
  <2> QED
    BY <2>1, <2>2 DEF TypeOK, GiveInv
<1> QED
  BY <1>1, <1>2, <1>3 DEF Server

LEMMA ClientTypes ==
  ASSUME TypeOK, GiveInv, NEW c \in Clients, Client(c)
  PROVE  TypeOK' /\ GiveInv'
<1>1. CASE Run(c)
  <2>1. [fut |-> c, args |-> called[c] + 1] \in Package
    BY <1>1, Packed DEF Run
  <2>2. msgq' \in Seq(Package) /\ Len(msgq') <= MaxMsgs
    BY <1>1, <2>1, PutQueue DEF Run, TypeOK
  <2>3. called' \in [Clients -> 0..MaxCalls]
    BY <1>1, SizesAssumption DEF Run, TypeOK
  <2>4. pc' = [pc EXCEPT ![c] = "called"] /\ UNCHANGED <<server, future, got, prints, late>>
    BY <1>1 DEF Run
  <2> QED
    BY <2>2, <2>3, <2>4 DEF TypeOK, GiveInv
<1>2. CASE Create(c)
  BY <1>2, SizesAssumption DEF Create, TypeOK, GiveInv
<1>3. CASE Wait(c)
  BY <1>3 DEF Wait, TypeOK, GiveInv
<1>4. CASE Take(c)
  BY <1>4 DEF Take, TypeOK, GiveInv
<1>5. CASE TimeOut(c)
  BY <1>5 DEF TimeOut, TypeOK, GiveInv
<1>6. CASE Return(c)
  BY <1>6 DEF Return, TypeOK, GiveInv
<1>7. CASE Leave(c)
  BY <1>7 DEF Leave, TypeOK, GiveInv
<1> QED
  BY <1>1, <1>2, <1>3, <1>4, <1>5, <1>6, <1>7 DEF Client

LEMMA RunVoidTypes ==
  ASSUME TypeOK, GiveInv, RunVoid
  PROVE  TypeOK' /\ GiveInv'
<1>1. NoPackage \in Package
  BY SizesAssumption DEF Package, NoPackage
<1>2. msgq' \in Seq(Package) /\ Len(msgq') <= MaxMsgs
  BY <1>1, PutQueue DEF RunVoid, TypeOK
<1>3. prints' \in 0..MaxPrints /\ UNCHANGED <<server, future, client, late>>
  BY SizesAssumption DEF RunVoid, TypeOK
<1> QED
  BY <1>2, <1>3 DEF TypeOK, GiveInv

\* The variables of one client, as numbers.
LEMMA Numbers ==
  ASSUME TypeOK, NEW c \in Clients
  PROVE  /\ ret[c] \in Nat /\ called[c] \in Nat /\ got[c] \in Nat /\ msg.args \in Nat
         /\ Len(msgq) \in Nat
         /\ \A i \in 1..Len(msgq) : msgq[i].args \in Nat
<1>1. \A i \in 1..Len(msgq) : msgq[i] \in Package
  BY LenProperties DEF TypeOK
<1>2. Len(msgq) \in Nat
  BY LenProperties DEF TypeOK
<1> QED
  BY <1>1, <1>2, SizesAssumption DEF TypeOK, Package
-----------------------------------------------------------------------------
(* The object's thread.                                                    *)

\* All that is known of a client.
Known(c) == Order(c) /\ (c \in Patient => Once(c))

LEMMA GetKeeps ==
  ASSUME TypeOK, Get, NEW c \in Clients, Known(c)
  PROVE  Known(c)'
<1>1. /\ msg' = msgq[1]
      /\ Len(msgq) \in Nat \ {0} /\ Len(msgq') = Len(msgq) - 1
      /\ \A i \in 1..Len(msgq') : msgq'[i] = msgq[i + 1]
  BY GetQueue DEF TypeOK
<1>2. \A i \in 1..Len(msgq') : i + 1 \in 1..Len(msgq) /\ 1 < i + 1
  BY <1>1
<1>3. 1 \in 1..Len(msgq)
  BY <1>1
<1>4. spc = "get" /\ spc' = "execute" /\ UNCHANGED <<sem, ret, pc, called, got>>
  BY DEF Get
<1>5. Held(c)' <=> msgq[1].fut = c
  BY <1>1, <1>4 DEF Held
<1>6. UnderWay(c)' => UnderWay(c)
  BY <1>1, <1>2, <1>3, <1>4 DEF UnderWay
<1>8. Order(c)'
  <2>1. \A i, j \in 1..Len(msgq') : i < j => i + 1 < j + 1
    BY <1>1
  <2>2. Order(c)
    BY DEF Known
  <2>3. \A i \in 1..Len(msgq') : msgq'[i].fut = c =>
            ret'[c] <= msgq'[i].args /\ got'[c] <= msgq'[i].args
            /\ msgq'[i].args <= called'[c]
    BY <1>1, <1>2, <1>4, <2>2 DEF Order
  <2>4. \A i, j \in 1..Len(msgq') :
            msgq'[i].fut = c /\ msgq'[j].fut = c /\ i < j
                => msgq'[i].args < msgq'[j].args
    BY <1>1, <1>2, <2>1, <2>2 DEF Order
  <2>5. Held(c)' =>
            /\ ret'[c] <= msg'.args /\ got'[c] <= msg'.args /\ msg'.args <= called'[c]
            /\ \A i \in 1..Len(msgq') : msgq'[i].fut = c => msg'.args < msgq'[i].args
    BY <1>1, <1>2, <1>3, <1>4, <1>5, <2>2 DEF Order
  <2>6. ret'[c] <= called'[c] /\ got'[c] <= called'[c]
        /\ (ret'[c] # 0 => got'[c] <= ret'[c])
    BY <1>4, <2>2 DEF Order
  <2> QED
    BY <2>3, <2>4, <2>5, <2>6 DEF Order
<1>9. Once(c) => Once(c)'
  <2> SUFFICES ASSUME Once(c) PROVE Once(c)'
    OBVIOUS
  <2>1. \A i, j \in 1..Len(msgq') : msgq'[i].fut = c /\ msgq'[j].fut = c => i = j
    <3>1. \A i, j \in 1..Len(msgq') : i + 1 = j + 1 => i = j
      BY <1>1
    <3>2. \A i, j \in 1..Len(msgq) : msgq[i].fut = c /\ msgq[j].fut = c => i = j
      BY DEF Once
    <3>3. ASSUME NEW i \in 1..Len(msgq'), NEW j \in 1..Len(msgq'),
                 msgq'[i].fut = c, msgq'[j].fut = c
          PROVE  i = j
      <4>1. i + 1 \in 1..Len(msgq) /\ msgq[i + 1].fut = c
        BY <1>1, <1>2, <3>3
      <4>2. j + 1 \in 1..Len(msgq) /\ msgq[j + 1].fut = c
        BY <1>1, <1>2, <3>3
      <4>3. i + 1 = j + 1
        BY <3>2, <4>1, <4>2, Zenon
      <4> QED
        BY <3>1, <4>3
    <3> QED
      BY <3>3
  <2>2. Held(c)' => /\ msg'.args = called'[c]
                    /\ \A i \in 1..Len(msgq') : msgq'[i].fut # c
    <3>1. \A i \in 1..Len(msgq') : i + 1 # 1
      BY <1>1
    <3>2. /\ \A i \in 1..Len(msgq) : msgq[i].fut = c => msgq[i].args = called[c]
          /\ \A i, j \in 1..Len(msgq) : msgq[i].fut = c /\ msgq[j].fut = c => i = j
      BY DEF Once
    <3> QED
      BY <1>1, <1>2, <1>3, <1>4, <1>5, <3>1, <3>2
  <2>3. \A i \in 1..Len(msgq') : msgq'[i].fut = c => msgq'[i].args = called'[c]
    BY <1>1, <1>2, <1>4 DEF Once
  <2> QED
    BY <1>4, <1>6, <2>1, <2>2, <2>3 DEF Once
<1> QED
  BY <1>8, <1>9 DEF Known, Patient

LEMMA ExecuteKeeps ==
  ASSUME TypeOK, Execute, NEW c \in Clients, Known(c)
  PROVE  Known(c)'
<1>1. spc = "execute" /\ UNCHANGED <<msgq, msg, sem, pc, called, got>>
  BY DEF Execute
<1>2. UnderWay(c)' => UnderWay(c)
  BY <1>1 DEF Execute, UnderWay
<1>4. CASE msg.fut = c
  <2>1. spc' = "give" /\ ret'[c] = msg.args
    BY <1>4, ClientsAssumption DEF Execute, TypeOK
  <2>2. Held(c) /\ Held(c)'
    BY <1>1, <1>4, <2>1 DEF Held
  <2>3. Order(c)'
    <3>1. Order(c)
      BY DEF Known
    <3>2. /\ msg.args \in Nat /\ got[c] \in Nat /\ called[c] \in Nat
          /\ \A i \in 1..Len(msgq) : msgq[i].args \in Nat
      BY Numbers
    <3>3. /\ got[c] <= msg.args /\ msg.args <= called[c]
          /\ \A i \in 1..Len(msgq) : msgq[i].fut = c => msg.args < msgq[i].args
      BY <2>2, <3>1 DEF Order
    <3>4. \A i \in 1..Len(msgq) : msgq[i].fut = c => msg.args <= msgq[i].args
      BY <3>2, <3>3
    <3>5. msg.args <= msg.args
      BY <3>2
    <3> QED
      BY <1>1, <2>1, <3>1, <3>3, <3>4, <3>5 DEF Order
  <2>4. Once(c) => Once(c)'
    <3> SUFFICES ASSUME Once(c) PROVE Once(c)'
      OBVIOUS
    <3>1. UnderWay(c) /\ UnderWay(c)'
      BY <1>1, <1>4, <2>1 DEF UnderWay
    <3> QED
      BY <1>1, <2>1, <2>2, <3>1 DEF Once
  <2> QED
    BY <2>3, <2>4 DEF Known, Patient
<1>5. CASE msg.fut # c
  <2>1. ret'[c] = ret[c] /\ ~Held(c) /\ ~Held(c)'
    BY <1>1, <1>5 DEF Execute, TypeOK, Held
  <2>2. Order(c)'
    BY <1>1, <2>1 DEF Known, Order
  <2>3. Once(c) => Once(c)'
    BY <1>1, <1>2, <1>5, <2>1 DEF Once
  <2> QED
    BY <2>2, <2>3 DEF Known, Patient
<1> QED
  BY <1>4, <1>5

LEMMA GiveKeeps ==
  ASSUME TypeOK, GiveInv, Give, NEW c \in Clients, Known(c)
  PROVE  Known(c)'
<1>1. spc = "give" /\ spc' = "get" /\ UNCHANGED <<msgq, msg, ret, pc, called, got>>
  BY DEF Give
<1>2. UnderWay(c)' => UnderWay(c)
  BY <1>1 DEF UnderWay
<1>3. ~Held(c)'
  BY <1>1 DEF Held
<1>4. Order(c)'
  BY <1>1, <1>2, <1>3 DEF Known, Order
<1>5. Once(c) => Once(c)'
  <2> SUFFICES ASSUME Once(c) PROVE Once(c)'
    OBVIOUS
  <2>1. CASE msg.fut = c
    <3>1. Held(c) /\ UnderWay(c)
      BY <1>1, <2>1 DEF Held, UnderWay
    <3>2. ~UnderWay(c)'
      BY <1>1, <3>1 DEF Once, UnderWay
    <3>3. ret[c] = called[c] /\ pc[c] \notin {"gone", "ready", "woken"}
      BY <1>1, <2>1, <3>1 DEF Once
    <3> QED
      BY <1>1, <1>3, <3>2, <3>3 DEF Once
  <2>2. CASE msg.fut # c
    <3>1. sem'[c] = sem[c]
      BY <2>2 DEF Give, TypeOK
    <3> QED
      BY <1>1, <1>2, <1>3, <3>1 DEF Once
  <2> QED
    BY <2>1, <2>2
<1> QED
  BY <1>4, <1>5 DEF Known, Patient
-----------------------------------------------------------------------------
(* The clients.                                                            *)

\* The values that c alone reads and writes.
Same(c) == /\ sem'[c] = sem[c] /\ ret'[c] = ret[c] /\ pc'[c] = pc[c]
           /\ called'[c] = called[c] /\ got'[c] = got[c]

\* A step elsewhere changes nothing that is known of c.
LEMMA ElsewhereKeeps ==
  ASSUME NEW c \in Clients, Known(c), Same(c), UNCHANGED <<msgq, server>>
  PROVE  Known(c)'
<1>1. (UnderWay(c)' <=> UnderWay(c)) /\ (Held(c)' <=> Held(c))
  BY DEF UnderWay, Held
<1>2. Order(c)'
  BY <1>1 DEF Known, Same, Order
<1>3. Once(c) => Once(c)'
  BY <1>1 DEF Same, Once
<1> QED
  BY <1>2, <1>3 DEF Known, Patient

\* Nor does a message of another client that is queued.
LEMMA OtherPutKeeps ==
  ASSUME TypeOK, NEW c \in Clients, Known(c), Same(c), UNCHANGED server,
         NEW m \in Package, m.fut # c, Put(m)
  PROVE  Known(c)'
<1>1. \/ msgq' = msgq
      \/ /\ Len(msgq') = Len(msgq) + 1 /\ msgq'[Len(msgq) + 1] = m
         /\ \A i \in 1..Len(msgq) : msgq'[i] = msgq[i]
  BY PutQueue DEF TypeOK
<1>2. CASE msgq' = msgq
  BY <1>2, ElsewhereKeeps
<1>3. CASE /\ Len(msgq') = Len(msgq) + 1 /\ msgq'[Len(msgq) + 1] = m
           /\ \A i \in 1..Len(msgq) : msgq'[i] = msgq[i]
  <2>1. Len(msgq) \in Nat
    BY Numbers
  <2>2. \A i \in 1..Len(msgq') : msgq'[i].fut = c =>
            i \in 1..Len(msgq) /\ msgq'[i] = msgq[i]
    BY <1>3, <2>1
  <2>3. UnderWay(c)' => UnderWay(c)
    BY <2>2 DEF UnderWay
  <2>4. Held(c)' <=> Held(c)
    BY DEF Held
  <2>5. Order(c)'
    BY <2>2, <2>3, <2>4 DEF Known, Same, Order
  <2>6. Once(c) => Once(c)'
    BY <2>2, <2>3, <2>4 DEF Same, Once
  <2> QED
    BY <2>5, <2>6 DEF Known, Patient
<1> QED
  BY <1>1, <1>2, <1>3

LEMMA RunVoidKeeps ==
  ASSUME TypeOK, RunVoid, NEW c \in Clients, Known(c)
  PROVE  Known(c)'
<1>1. NoPackage \in Package /\ NoPackage.fut # c
  BY SizesAssumption, ClientsAssumption DEF Package, NoPackage
<1>2. Same(c) /\ UNCHANGED server /\ Put(NoPackage)
  BY DEF RunVoid, Same
<1> QED
  BY <1>1, <1>2, OtherPutKeeps

LEMMA RunKeeps ==
  ASSUME TypeOK, NEW d \in Clients, Run(d), NEW c \in Clients, Known(c)
  PROVE  Known(c)'
<1> DEFINE m == [fut |-> d, args |-> called[d] + 1]
<1>1. m \in Package
  BY Packed DEF Run
<1>2. Put(m) /\ UNCHANGED <<spc, msg, sem, ret, got, prints, late>>
      /\ pc[d] = "ready" /\ pc' = [pc EXCEPT ![d] = "called"]
      /\ called' = [called EXCEPT ![d] = @ + 1]
  BY DEF Run
<1>3. CASE d # c
  <2>1. Same(c) /\ m.fut # c /\ UNCHANGED server
    BY <1>2, <1>3 DEF Same, TypeOK
  <2> QED
    BY <1>1, <1>2, <2>1, OtherPutKeeps
<1>4. CASE d = c
  <2>1. pc'[c] = "called" /\ called'[c] = called[c] + 1
    BY <1>2, <1>4 DEF TypeOK
  <2>2. called[c] \in Nat /\ ret[c] \in Nat /\ got[c] \in Nat /\ msg.args \in Nat
        /\ Len(msgq) \in Nat /\ \A i \in 1..Len(msgq) : msgq[i].args \in Nat
    BY Numbers
  <2>3. Len(msgq) \in Nat
    BY <2>2
  <2>4. m.fut = c /\ m.args = called[c] + 1
    BY <1>4
  <2>5. /\ Len(msgq') \in {Len(msgq), Len(msgq) + 1}
        /\ \A i \in 1..Len(msgq') :
              \/ i \in 1..Len(msgq) /\ msgq'[i] = msgq[i]
              \/ i = Len(msgq) + 1 /\ msgq'[i] = m
    <3>1. \/ msgq' = msgq
          \/ /\ Len(msgq') = Len(msgq) + 1 /\ msgq'[Len(msgq) + 1] = m
             /\ \A i \in 1..Len(msgq) : msgq'[i] = msgq[i]
      BY <1>1, <1>2, PutQueue DEF TypeOK
    <3> HIDE DEF m
    <3> QED
      BY <2>3, <3>1
  <2> HIDE DEF m
  <2>6. Held(c)' <=> Held(c)
    BY <1>2 DEF Held
  <2>8. Order(c)'
    <3> Order(c)
      BY DEF Known
    <3>1. ret'[c] <= called'[c] /\ got'[c] <= called'[c]
          /\ (ret'[c] # 0 => got'[c] <= ret'[c])
      BY <1>2, <2>1, <2>2 DEF Order
    <3>2. ASSUME NEW i \in 1..Len(msgq'), msgq'[i].fut = c
          PROVE  ret'[c] <= msgq'[i].args /\ got'[c] <= msgq'[i].args
                 /\ msgq'[i].args <= called'[c]
      <4>1. ret'[c] = ret[c] /\ got'[c] = got[c]
        BY <1>2
      <4>2. CASE i \in 1..Len(msgq) /\ msgq'[i] = msgq[i]
        <5>1. ret[c] <= msgq[i].args /\ got[c] <= msgq[i].args /\ msgq[i].args <= called[c]
          BY <3>2, <4>2 DEF Order
        <5>2. msgq[i].args \in Nat
          BY <2>2, <4>2
        <5> QED
          BY <2>1, <2>2, <4>1, <4>2, <5>1, <5>2
      <4>3. CASE msgq'[i] = m
        BY <2>1, <2>2, <2>4, <4>1, <4>3 DEF Order
      <4> QED
        BY <2>5, <4>2, <4>3
    <3>3. ASSUME NEW i \in 1..Len(msgq'), NEW j \in 1..Len(msgq'),
                 msgq'[i].fut = c, msgq'[j].fut = c, i < j
          PROVE  msgq'[i].args < msgq'[j].args
      <4>1. i \in 1..Len(msgq) /\ msgq'[i] = msgq[i]
        BY <2>3, <2>5, <3>3
      <4>2. msgq[i].args \in Nat /\ msgq[i].args <= called[c]
        BY <2>2, <3>3, <4>1 DEF Order
      <4>3. CASE j \in 1..Len(msgq) /\ msgq'[j] = msgq[j]
        BY <3>3, <4>1, <4>3 DEF Order
      <4>4. CASE msgq'[j] = m
        BY <2>2, <2>4, <4>1, <4>2, <4>4
      <4> QED
        BY <2>5, <4>3, <4>4
    <3>4. Held(c)' =>
              /\ ret'[c] <= msg'.args /\ got'[c] <= msg'.args /\ msg'.args <= called'[c]
              /\ \A i \in 1..Len(msgq') : msgq'[i].fut = c => msg'.args < msgq'[i].args
      BY <1>2, <2>1, <2>2, <2>4, <2>5, <2>6 DEF Order
    <3> QED
      BY <3>1, <3>2, <3>3, <3>4 DEF Order
  <2>9. Once(c) => Once(c)'
    <3> SUFFICES ASSUME Once(c) PROVE Once(c)'
      OBVIOUS
    <3>1. ~UnderWay(c) /\ sem[c] = 0
      BY <1>2, <1>4 DEF Once
    <3>2. \A i \in 1..Len(msgq) : msgq[i].fut # c
      BY <3>1 DEF UnderWay
    <3>3. ~Held(c)' /\ ~(spc' = "give" /\ msg'.fut = c)
      BY <1>2, <2>6, <3>1 DEF UnderWay, Held
    <3>4. \A i \in 1..Len(msgq') : msgq'[i].fut = c =>
              i = Len(msgq) + 1 /\ msgq'[i].args = called'[c]
      BY <2>1, <2>4, <2>5, <3>2
    <3>5. sem'[c] = 0
      BY <1>2, <3>1
    <3> QED
      BY <2>1, <3>3, <3>4, <3>5 DEF Once
  <2> QED
    BY <2>8, <2>9 DEF Known, Patient
<1> QED
  BY <1>3, <1>4

\* The steps of a client that leave the queue alone.
LEMMA OwnKeeps ==
  ASSUME TypeOK, NEW c \in Clients, Known(c),
         Create(c) \/ Wait(c) \/ Take(c) \/ TimeOut(c) \/ Return(c) \/ Leave(c)
  PROVE  Known(c)'
<1>1. UNCHANGED <<msgq, spc, msg, called>>
  BY DEF Create, Wait, Take, TimeOut, Return, Leave
<1>2. (UnderWay(c)' <=> UnderWay(c)) /\ (Held(c)' <=> Held(c))
  BY <1>1 DEF UnderWay, Held
<1>3. Order(c) /\ (c \in Patient => Once(c))
  BY DEF Known
<1>4. ret[c] \in Nat /\ called[c] \in Nat /\ got[c] \in Nat
  BY Numbers
<1>5. CASE Create(c)
  <2>1. sem'[c] = 0 /\ ret'[c] = 0 /\ pc'[c] = "ready" /\ UNCHANGED got /\ pc[c] = "gone"
    BY <1>5 DEF Create, TypeOK
  <2>2. Order(c)'
    BY <1>1, <1>2, <1>3, <1>4, <2>1, Numbers DEF Order
  <2>3. ASSUME Once(c) PROVE Once(c)'
    <3>1. ~UnderWay(c)
      BY <2>1, <2>3 DEF Once
    <3>2. ~Held(c)' /\ \A i \in 1..Len(msgq') : msgq'[i].fut # c
      BY <1>1, <3>1 DEF UnderWay, Held
    <3> QED
      BY <1>1, <1>2, <2>1, <3>1, <3>2 DEF Once, Held
  <2> QED
    BY <1>3, <2>2, <2>3 DEF Known, Patient
<1>6. CASE Wait(c)
  <2>1. pc'[c] = "waiting" /\ UNCHANGED <<sem, ret, got>>
    BY <1>6 DEF Wait, TypeOK
  <2>2. Order(c)'
    BY <1>1, <1>2, <1>3, <2>1 DEF Order
  <2>3. Once(c) => Once(c)'
    BY <1>1, <1>2, <2>1 DEF Once
  <2> QED
    BY <1>3, <2>2, <2>3 DEF Known, Patient
<1>7. CASE Take(c)
  <2>1. pc'[c] = "woken" /\ sem[c] = 1 /\ sem'[c] = 0 /\ UNCHANGED <<ret, got>>
    BY <1>7 DEF Take, TypeOK
  <2>2. Order(c)'
    BY <1>1, <1>2, <1>3, <2>1 DEF Order
  <2>3. Once(c) => Once(c)'
    BY <1>1, <1>2, <2>1 DEF Once
  <2> QED
    BY <1>3, <2>2, <2>3 DEF Known, Patient
<1>8. CASE TimeOut(c)
  <2>1. c \notin Patient /\ pc'[c] = "woken" /\ UNCHANGED <<sem, ret, got>>
    BY <1>8 DEF TimeOut, TypeOK, Patient
  <2>2. Order(c)'
    BY <1>1, <1>2, <1>3, <2>1 DEF Order
  <2> QED
    BY <2>1, <2>2 DEF Known, Patient
<1>9. CASE Return(c)
  <2>1. pc[c] = "woken" /\ pc'[c] = "ready" /\ got'[c] = ret[c] /\ UNCHANGED <<sem, ret>>
    BY <1>9 DEF Return, TypeOK
  <2>2. Order(c)'
    BY <1>1, <1>2, <1>3, <1>4, <2>1 DEF Order
  <2>3. Once(c) => Once(c)'
    BY <1>1, <1>2, <2>1 DEF Once
  <2> QED
    BY <1>3, <2>2, <2>3 DEF Known, Patient
<1>10. CASE Leave(c)
  <2>1. pc[c] = "ready" /\ pc'[c] = "gone" /\ UNCHANGED <<sem, ret, got>>
    BY <1>10 DEF Leave, TypeOK
  <2>3. Order(c)'
    BY <1>1, <1>2, <1>3, <2>1 DEF Order
  <2>4. Once(c) => Once(c)'
    BY <1>1, <1>2, <2>1 DEF Once
  <2> QED
    BY <1>3, <2>3, <2>4 DEF Known, Patient
<1> QED
  BY <1>5, <1>6, <1>7, <1>8, <1>9, <1>10

\* Whoever's step it is.
LEMMA ClientKeeps ==
  ASSUME TypeOK, NEW d \in Clients, Client(d), NEW c \in Clients, Known(c)
  PROVE  Known(c)'
<1>1. CASE Run(d)
  BY <1>1, RunKeeps
<1>2. CASE Create(d) \/ Wait(d) \/ Take(d) \/ TimeOut(d) \/ Return(d) \/ Leave(d)
  <2>1. CASE d = c
    BY <1>2, <2>1, OwnKeeps
  <2>2. CASE d # c
    <3>1. UNCHANGED <<msgq, server>>
      BY <1>2 DEF Create, Wait, Take, TimeOut, Return, Leave
    <3>2. Same(c)
      BY <1>2, <2>2 DEF Create, Wait, Take, TimeOut, Return, Leave, Same, TypeOK
    <3> QED
      BY <3>1, <3>2, ElsewhereKeeps
  <2> QED
    BY <2>1, <2>2
<1> QED
  BY <1>1, <1>2 DEF Client
-----------------------------------------------------------------------------
(* The whole.                                                              *)

LEMMA InitKnown == Init => IInv
<1> SUFFICES ASSUME Init PROVE IInv
  OBVIOUS
<1>1. TypeOK
  BY InitTypes
<1>2. msgq = <<>> /\ Len(msgq) = 0 /\ spc = "get"
  BY EmptySeq DEF Init
<1>3. GiveInv
  BY <1>2 DEF GiveInv
<1>4. ASSUME NEW c \in Clients PROVE Order(c) /\ Once(c)
  <2>1. ~UnderWay(c) /\ ~Held(c) /\ \A i \in 1..Len(msgq) : FALSE
    BY <1>2 DEF UnderWay, Held
  <2>2. sem[c] = 0 /\ ret[c] = 0 /\ pc[c] = "gone" /\ called[c] = 0 /\ got[c] = 0
    BY DEF Init
  <2> QED
    BY <1>2, <2>1, <2>2 DEF Order, Once
<1> QED
  BY <1>1, <1>3, <1>4 DEF IInv

LEMMA NextKeeps == IInv /\ [Next]_vars => IInv'
<1> SUFFICES ASSUME IInv, [Next]_vars PROVE IInv'
  OBVIOUS
<1>1. TypeOK /\ GiveInv /\ \A c \in Clients : Known(c)
  BY DEF IInv, Known
<1>2. SUFFICES TypeOK' /\ GiveInv' /\ \A c \in Clients : Known(c)'
  BY DEF IInv, Known
<1>3. CASE Server
  <2>1. TypeOK' /\ GiveInv'
    BY <1>1, <1>3, ServerTypes
  <2>2. \A c \in Clients : Known(c)'
    BY <1>1, <1>3, GetKeeps, ExecuteKeeps, GiveKeeps DEF Server
  <2> QED
    BY <2>1, <2>2
<1>4. CASE RunVoid
  <2>1. TypeOK' /\ GiveInv'
    BY <1>1, <1>4, RunVoidTypes
  <2>2. \A c \in Clients : Known(c)'
    BY <1>1, <1>4, RunVoidKeeps
  <2> QED
    BY <2>1, <2>2
<1>5. ASSUME NEW d \in Clients, Client(d)
      PROVE  TypeOK' /\ GiveInv' /\ \A c \in Clients : Known(c)'
  <2>1. TypeOK' /\ GiveInv'
    BY <1>1, <1>5, ClientTypes
  <2>2. \A c \in Clients : Known(c)'
    BY <1>1, <1>5, ClientKeeps
  <2> QED
    BY <2>1, <2>2
<1>6. CASE UNCHANGED vars
  <2>1. UNCHANGED <<msgq, spc, msg, sem, ret, pc, called, got, prints, late>>
    BY <1>6
  <2>2. TypeOK' /\ GiveInv'
    BY <1>1, <2>1 DEF TypeOK, GiveInv
  <2>3. \A c \in Clients : Same(c)
    BY <2>1 DEF Same
  <2> QED
    BY <1>1, <2>1, <2>2, <2>3, ElsewhereKeeps
<1> QED
  BY <1>3, <1>4, <1>5, <1>6 DEF Next

LEMMA Invariance == Spec => []IInv
<1> QED
  BY InitKnown, NextKeeps, PTL DEF Spec

\* The variables keep their types; the queue never holds more than its places.
THEOREM TypeCorrect == Spec => []TypeOK
<1>1. IInv => TypeOK
  BY DEF IInv
<1> QED
  BY <1>1, Invariance, PTL

\* No result overtakes another, even where a timeout leaves several calls under
\* way, or a full queue drops some of them.
THEOREM InOrder == Spec => ResultsInOrder
<1>1. ASSUME IInv, [Next]_vars
      PROVE  [\A c \in Clients : got'[c] # 0 => got'[c] >= got[c]]_got
  <2> SUFFICES ASSUME NEW c \in Clients, got' # got, got'[c] # 0
               PROVE  got'[c] >= got[c]
    OBVIOUS
  <2>1. TypeOK /\ Order(c)
    BY <1>1 DEF IInv
  <2>2. got[c] \in Nat /\ ret[c] \in Nat
    BY <2>1, Numbers
  <2>3. PICK d \in Clients : Return(d)
    BY <1>1 DEF Next, Server, Client, Get, Execute, Give, RunVoid, Create, Run, Wait,
                Take, TimeOut, Leave
  <2>4. got' = [got EXCEPT ![d] = ret[d]]
    BY <2>3 DEF Return
  <2>5. got'[c] = got[c] \/ got'[c] = ret[c]
    BY <2>1, <2>4 DEF TypeOK
  <2> QED
    BY <2>1, <2>2, <2>5 DEF Order
<1> QED
  BY <1>1, Invariance, PTL DEF Spec, ResultsInOrder
-----------------------------------------------------------------------------
(* What a client leaves behind.                                            *)

BehindInv == \A c \in Clients : Behind(c)

\* A step that leaves the calls, the semaphore and the count of c alone.
LEMMA BehindElsewhere ==
  ASSUME IInv, IInv', NEW c \in Clients, Behind(c), Calls(c)' \subseteq Calls(c),
         sem'[c] = sem[c], late'[c] = late[c],
         pc[c] \in {"called", "waiting"} => pc'[c] \in {"called", "waiting"}
  PROVE  Behind(c)'
<1>1. sem[c] \in 0..1
  BY DEF IInv, TypeOK
<1>2. sem'[c] <= sem[c]
  BY <1>1
<1> QED
  BY <1>2, BehindKept DEF IInv

\* What is put in the queue is one call more of its client, and none of others.
LEMMA PutCalls ==
  ASSUME TypeOK, NEW m \in Package, Put(m), UNCHANGED server, NEW c \in Clients
  PROVE  /\ m.fut # c => Calls(c)' \subseteq Calls(c)
         /\ m.fut = c => Calls(c)' \subseteq Calls(c) \cup {m.args}
<1>1. Len(msgq) \in Nat
  BY Numbers
<1>2. \A i \in 1..Len(msgq') :
          \/ i \in 1..Len(msgq) /\ msgq'[i] = msgq[i]
          \/ msgq'[i] = m
  <2>1. \/ msgq' = msgq
        \/ /\ Len(msgq') = Len(msgq) + 1 /\ msgq'[Len(msgq) + 1] = m
           /\ \A i \in 1..Len(msgq) : msgq'[i] = msgq[i]
    BY PutQueue DEF TypeOK
  <2> QED
    BY <1>1, <2>1
<1>3. Held(c)' <=> Held(c)
  BY DEF Held
<1> QED
  BY <1>2, <1>3, InCalls DEF Calls, Held

\* The object's thread finishes the call that it gives the semaphore for.
LEMMA GiveBehind ==
  ASSUME IInv, IInv', Give, NEW c \in Clients, Behind(c)
  PROVE  Behind(c)'
<1>1. spc = "give" /\ spc' = "get" /\ UNCHANGED <<msgq, msg, ret, pc, late>>
      /\ sem' = [sem EXCEPT ![msg.fut] = 1]
  BY DEF Give
<1>2. Calls(c)' = {msgq[i].args : i \in {j \in 1..Len(msgq) : msgq[j].fut = c}}
  BY <1>1 DEF Calls
<1>3. CASE msg.fut # c
  <2>1. Calls(c)' \subseteq Calls(c) /\ sem'[c] = sem[c]
    BY <1>1, <1>2, <1>3 DEF Calls, IInv, TypeOK
  <2> QED
    BY <1>1, <2>1, BehindElsewhere
<1>4. CASE msg.fut = c
  <2>1. Held(c) /\ Order(c)
    BY <1>1, <1>4 DEF Held, IInv
  <2>2. \A i \in 1..Len(msgq) : msgq[i].fut = c => msgq[i].args # msg.args
    <3>1. \A i \in 1..Len(msgq) : msgq[i].fut = c => msg.args < msgq[i].args
      BY <2>1 DEF Order
    <3>2. msg.args \in Nat /\ \A i \in 1..Len(msgq) : msgq[i].args \in Nat
      BY Numbers DEF IInv
    <3> QED
      BY <3>1, <3>2
  <2>3. Calls(c)' = Calls(c) \ {msg.args} /\ msg.args \in Calls(c)
    BY <1>1, <1>2, <1>4, <2>2 DEF Calls
  <2>4. IsFiniteSet(Calls(c)) /\ Cardinality(Calls(c)) \in Nat
    BY CallsFinite DEF IInv
  <2>5. Cardinality(Calls(c)') = Cardinality(Calls(c)) - 1
    BY <2>3, <2>4, FS_RemoveElement
  <2>6. sem'[c] = 1 /\ sem[c] \in 0..1 /\ late[c] \in Nat
    BY <1>1, <1>4 DEF IInv, TypeOK
  <2> QED
    BY <1>1, <2>4, <2>5, <2>6 DEF Behind
<1> QED
  BY <1>3, <1>4

LEMMA RunBehind ==
  ASSUME IInv, IInv', NEW d \in Clients, Run(d), NEW c \in Clients, Behind(c)
  PROVE  Behind(c)'
<1> DEFINE m == [fut |-> d, args |-> called[d] + 1]
<1>1. m \in Package /\ TypeOK /\ TypeOK'
  BY Packed DEF Run, IInv
<1>2. /\ Put(m) /\ m.fut = d /\ UNCHANGED <<spc, msg, sem, late>>
      /\ pc[d] = "ready" /\ pc' = [pc EXCEPT ![d] = "called"]
  BY DEF Run
<1> HIDE DEF m
<1>3. CASE d # c
  <2>1. Calls(c)' \subseteq Calls(c) /\ pc'[c] = pc[c]
    BY <1>1, <1>2, <1>3, PutCalls DEF TypeOK
  <2> QED
    BY <1>2, <2>1, BehindElsewhere
<1>4. CASE d = c
  <2>1. Calls(c)' \subseteq Calls(c) \cup {m.args}
    BY <1>1, <1>2, <1>4, PutCalls
  <2>2. IsFiniteSet(Calls(c)) /\ Cardinality(Calls(c)) \in Nat
    BY <1>1, CallsFinite
  <2>3. /\ IsFiniteSet(Calls(c) \cup {m.args})
        /\ Cardinality(Calls(c) \cup {m.args}) \in {Cardinality(Calls(c)), Cardinality(Calls(c)) + 1}
    BY <2>2, FS_AddElement
  <2>4. /\ Cardinality(Calls(c)') <= Cardinality(Calls(c) \cup {m.args})
        /\ Cardinality(Calls(c)') \in Nat
    BY <2>1, <2>3, FS_Subset, FS_CardinalityType
  <2>5. pc[c] = "ready" /\ pc'[c] = "called" /\ sem[c] \in 0..1 /\ late[c] \in Nat
    BY <1>1, <1>2, <1>4 DEF TypeOK
  <2> QED
    BY <1>2, <2>2, <2>3, <2>4, <2>5 DEF Behind
<1> QED
  BY <1>3, <1>4

\* The steps of a client that leave the queue alone.
LEMMA OwnBehind ==
  ASSUME IInv, IInv', NEW c \in Clients, Behind(c),
         Create(c) \/ Wait(c) \/ Take(c) \/ TimeOut(c) \/ Return(c) \/ Leave(c)
  PROVE  Behind(c)'
<1>1. UNCHANGED <<msgq, spc, msg>>
  BY DEF Create, Wait, Take, TimeOut, Return, Leave
<1>2. Calls(c)' = Calls(c)
  BY <1>1 DEF Calls
<1>3. /\ sem[c] \in 0..1 /\ sem'[c] \in 0..1 /\ late[c] \in Nat
      /\ Cardinality(Calls(c)) \in Nat
  BY CallsFinite DEF IInv, TypeOK
<1>4. CASE Create(c)
  <2>1. sem'[c] = 0 /\ pc[c] = "gone" /\ pc'[c] = "ready" /\ late' = late
    BY <1>4 DEF Create, IInv, TypeOK
  <2> QED
    BY <1>2, <1>3, <2>1 DEF Behind
<1>5. CASE Wait(c)
  <2>1. pc'[c] = "waiting" /\ sem' = sem /\ late' = late
    BY <1>5 DEF Wait, IInv, TypeOK
  <2> QED
    BY <1>2, <2>1, BehindElsewhere
<1>6. CASE Take(c)
  <2>1. /\ sem[c] = 1 /\ sem'[c] = 0 /\ late' = late
        /\ pc[c] = "waiting" /\ pc'[c] = "woken"
    BY <1>6 DEF Take, IInv, TypeOK
  <2> QED
    BY <1>2, <1>3, <2>1 DEF Behind
<1>7. CASE TimeOut(c)
  <2>1. sem' = sem /\ late'[c] = late[c] + 1 /\ pc[c] = "waiting" /\ pc'[c] = "woken"
    BY <1>7 DEF TimeOut, IInv, TypeOK
  <2> QED
    BY <1>2, <1>3, <2>1 DEF Behind
<1>8. CASE Return(c) \/ Leave(c)
  <2>1. sem' = sem /\ late' = late /\ pc[c] \in {"woken", "ready"}
    BY <1>8 DEF Return, Leave
  <2> QED
    BY <1>2, <2>1, BehindElsewhere
<1> QED
  BY <1>4, <1>5, <1>6, <1>7, <1>8

LEMMA InitBehind == Init => BehindInv
<1> SUFFICES ASSUME Init, NEW c \in Clients PROVE Behind(c)
  BY DEF BehindInv
<1>1. Len(msgq) = 0 /\ spc = "get" /\ pc[c] = "gone" /\ sem[c] = 0 /\ late[c] = 0
  BY EmptySeq DEF Init
<1>2. \A n : n \notin Calls(c)
  BY <1>1 DEF Calls
<1>3. Calls(c) = {}
  BY <1>2
<1> QED
  BY <1>1, <1>3, FS_EmptySet DEF Behind

LEMMA NextBehind == IInv /\ IInv' /\ BehindInv /\ [Next]_vars => BehindInv'
<1> SUFFICES ASSUME IInv, IInv', BehindInv, [Next]_vars, NEW c \in Clients
             PROVE  Behind(c)'
  BY DEF BehindInv
<1>1. Behind(c) /\ TypeOK
  BY DEF BehindInv, IInv
<1>2. CASE Get \/ Execute
  <2>1. UNCHANGED <<sem, pc, late>>
    BY <1>2 DEF Get, Execute
  <2>2. CASE Get
    <3>1. /\ msg' = msgq[1] /\ Len(msgq) \in Nat \ {0} /\ Len(msgq') = Len(msgq) - 1
          /\ \A i \in 1..Len(msgq') : msgq'[i] = msgq[i + 1]
      BY <1>1, <2>2, GetQueue DEF TypeOK
    <3>2. 1 \in 1..Len(msgq) /\ \A i \in 1..Len(msgq') : i + 1 \in 1..Len(msgq)
      BY <3>1
    <3>3. Calls(c)' \subseteq Calls(c)
      BY <3>1, <3>2 DEF Calls
    <3> QED
      BY <1>1, <2>1, <3>3, BehindElsewhere
  <2>3. CASE Execute
    <3>1. Calls(c)' \subseteq Calls(c)
      BY <2>3 DEF Execute, Calls
    <3> QED
      BY <1>1, <2>1, <3>1, BehindElsewhere
  <2> QED
    BY <1>2, <2>2, <2>3
<1>3. CASE Give
  BY <1>1, <1>3, GiveBehind
<1>4. CASE RunVoid
  <2>1. /\ NoPackage \in Package /\ NoPackage.fut # c /\ Put(NoPackage)
        /\ UNCHANGED server /\ UNCHANGED <<sem, pc, late>>
    BY <1>4, SizesAssumption, ClientsAssumption DEF RunVoid, Package, NoPackage
  <2>2. Calls(c)' \subseteq Calls(c)
    BY <1>1, <2>1, PutCalls
  <2> QED
    BY <1>1, <2>1, <2>2, BehindElsewhere
<1>5. ASSUME NEW d \in Clients, Client(d) PROVE Behind(c)'
  <2>1. CASE Run(d)
    BY <1>1, <2>1, RunBehind
  <2>2. CASE Create(d) \/ Wait(d) \/ Take(d) \/ TimeOut(d) \/ Return(d) \/ Leave(d)
    <3>1. CASE d = c
      BY <1>1, <2>2, <3>1, OwnBehind
    <3>2. CASE d # c
      <4>1. UNCHANGED <<msgq, spc, msg>> /\ sem'[c] = sem[c] /\ pc'[c] = pc[c]
            /\ late'[c] = late[c]
        BY <1>1, <2>2, <3>2 DEF Create, Wait, Take, TimeOut, Return, Leave, TypeOK
      <4>2. Calls(c)' = Calls(c)
        BY <4>1 DEF Calls
      <4> QED
        BY <1>1, <4>1, <4>2, BehindElsewhere
    <3> QED
      BY <3>1, <3>2
  <2> QED
    BY <1>5, <2>1, <2>2 DEF Client
<1>6. CASE UNCHANGED vars
  <2>1. UNCHANGED <<sem, pc, late>> /\ Calls(c)' = Calls(c)
    BY <1>6 DEF Calls
  <2> QED
    BY <1>1, <2>1, BehindElsewhere
<1> QED
  BY <1>2, <1>3, <1>4, <1>5, <1>6 DEF Next, Server

\* The object's thread writes into a scope that was left as often as get_return
\* gave up at most, for any queue, even one that drops calls, and however the
\* late answers shift; a patient client never gives up.
THEOREM LeftBehind == Spec => [](CallsLeftBehind /\ \A c \in Patient : late[c] = 0)
<1> DEFINE Never == \A c \in Patient : late[c] = 0
<1>1. Init => Never
  BY DEF Init, Patient
<1>2. IInv /\ Never /\ [Next]_vars => Never'
  <2> SUFFICES ASSUME IInv, Never, [Next]_vars, NEW c \in Patient PROVE late'[c] = 0
    OBVIOUS
  <2>1. late' = late \/ \E d \in Hasty : late' = [late EXCEPT ![d] = @ + 1]
    BY DEF Next, Server, Get, Execute, Give, RunVoid, Client, Create, Run, Wait, Take,
           TimeOut, Return, Leave
  <2>2. late[c] = 0 /\ c \in Clients /\ c \notin Hasty
    BY DEF Patient
  <2> QED
    BY <2>1, <2>2 DEF IInv, TypeOK
<1>3. IInv /\ BehindInv => CallsLeftBehind
  <2> SUFFICES ASSUME IInv, BehindInv, NEW c \in Clients, pc[c] = "gone"
               PROVE  Cardinality(Calls(c)) <= late[c]
    BY DEF CallsLeftBehind
  <2>1. Cardinality(Calls(c)) \in Nat /\ sem[c] \in 0..1 /\ late[c] \in Nat
    BY CallsFinite DEF IInv, TypeOK
  <2> QED
    BY <2>1 DEF BehindInv, Behind
<1> QED
  BY <1>1, <1>2, <1>3, InitBehind, NextBehind, Invariance, PTL DEF Spec
-----------------------------------------------------------------------------
(* The contract.                                                           *)

\* What the contract sees of a patient client's call.
Phase(c) == IF pc[c] \in {"gone", "ready"} THEN "idle"
            ELSE IF pc[c] = "woken" \/ sem[c] = 1 THEN "done" ELSE "sent"

\* The contract sees no change of c.
Unseen(c) == Phase(c)' = Phase(c) /\ called'[c] = called[c] /\ got'[c] = got[c]

LEMMA Stutters ==
  ASSUME \A d \in Patient : Unseen(d)
  PROVE  UNCHANGED Contract!vars
BY DEF Contract!vars, Phase, Unseen

LEMMA Sends ==
  ASSUME NEW c \in Patient, \A d \in Patient : d # c => Unseen(d),
         Phase(c) = "idle", Phase(c)' = "sent",
         called'[c] = called[c] + 1, got'[c] = got[c]
  PROVE  Contract!Send(c)
BY DEF Contract!Send, Phase, Unseen

LEMMA Serves ==
  ASSUME NEW c \in Patient, \A d \in Patient : d # c => Unseen(d),
         Phase(c) = "sent", Phase(c)' = "done",
         called'[c] = called[c], got'[c] = got[c]
  PROVE  Contract!Serve(c)
BY DEF Contract!Serve, Phase, Unseen

LEMMA Returns ==
  ASSUME NEW c \in Patient, \A d \in Patient : d # c => Unseen(d),
         Phase(c) = "done", Phase(c)' = "idle",
         called'[c] = called[c], got'[c] = called[c]
  PROVE  Contract!Return(c)
BY DEF Contract!Return, Phase, Unseen

\* A client that does not move is not seen to.
LEMMA StillUnseen ==
  ASSUME NEW c \in Clients, Same(c)
  PROVE  Unseen(c)
BY DEF Same, Unseen, Phase

\* A step of the object's thread serves the call it gives the semaphore for.
LEMMA ServerMaps ==
  ASSUME IInv, Server
  PROVE  Contract!Next \/ UNCHANGED Contract!vars
<1>1. \A c \in Patient : c \in Clients /\ Once(c)
  BY DEF IInv, Patient
<1>2. CASE Get \/ Execute
  <2>1. UNCHANGED <<sem, pc, called, got>>
    BY <1>2 DEF Get, Execute
  <2>2. \A c \in Patient : Unseen(c)
    BY <2>1 DEF Unseen, Phase
  <2> QED
    BY <2>2, Stutters
<1>3. CASE Give
  <2>1. UNCHANGED <<pc, called, got>> /\ sem' = [sem EXCEPT ![msg.fut] = 1]
        /\ spc = "give"
    BY <1>3 DEF Give
  <2>2. \A d \in Patient : d # msg.fut => Unseen(d)
    BY <1>1, <2>1 DEF IInv, TypeOK, Unseen, Phase
  <2>3. CASE msg.fut \in Patient
    <3>0. PICK c \in Patient : c = msg.fut
      BY <2>3
    <3>1. c \in Clients /\ UnderWay(c)
      BY <1>1, <2>1, <3>0 DEF UnderWay
    <3>2. sem[c] # 1 /\ pc[c] \notin {"gone", "ready", "woken"}
      BY <1>1, <3>1 DEF Once
    <3>3. sem'[c] = 1
      BY <2>1, <3>0, <3>1 DEF IInv, TypeOK
    <3>4. Phase(c) = "sent"
      BY <3>2 DEF Phase
    <3>5. Phase(c)' = "done"
      BY <2>1, <3>2, <3>3 DEF Phase
    <3>6. Contract!Serve(c)
      BY <2>1, <2>2, <3>0, <3>4, <3>5, Serves
    <3> QED
      BY <3>6 DEF Contract!Next
  <2>4. CASE msg.fut \notin Patient
    BY <2>2, <2>4, Stutters
  <2> QED
    BY <2>3, <2>4
<1> QED
  BY <1>2, <1>3 DEF Server

\* A patient client's run sends, its return returns; the rest is not seen.
LEMMA ClientMaps ==
  ASSUME IInv, NEW c \in Clients, Client(c)
  PROVE  Contract!Next \/ UNCHANGED Contract!vars
<1>1. ASSUME NEW d \in Patient, d # c PROVE Unseen(d)
  <2>1. d \in Clients
    BY DEF Patient
  <2>2. Same(d)
    BY <1>1, <2>1 DEF IInv, TypeOK, Client, Create, Run, Wait, Take, TimeOut, Return,
                      Leave, Same
  <2> QED
    BY <2>1, <2>2, StillUnseen
<1>2. CASE c \notin Patient
  BY <1>1, <1>2, Stutters
<1>3. CASE c \in Patient
  <2>1. Once(c) /\ TypeOK
    BY <1>3 DEF IInv
  <2>2. CASE Run(c)
    <3>1. pc[c] = "ready" /\ pc'[c] = "called" /\ called'[c] = called[c] + 1
          /\ sem'[c] = sem[c] /\ got'[c] = got[c]
      BY <2>1, <2>2 DEF Run, TypeOK
    <3>2. sem[c] = 0
      BY <2>1, <3>1 DEF Once
    <3>3. Phase(c) = "idle" /\ Phase(c)' = "sent"
      BY <3>1, <3>2 DEF Phase
    <3> QED
      BY <1>1, <1>3, <3>1, <3>3, Sends DEF Contract!Next
  <2>3. CASE Return(c)
    <3>1. pc[c] = "woken" /\ pc'[c] = "ready" /\ called'[c] = called[c] /\ got'[c] = ret[c]
      BY <2>1, <2>3 DEF Return, TypeOK
    <3>2. ret[c] = called[c]
      BY <2>1, <3>1 DEF Once
    <3>3. Phase(c) = "done" /\ Phase(c)' = "idle"
      BY <3>1 DEF Phase
    <3> QED
      BY <1>1, <1>3, <3>1, <3>2, <3>3, Returns DEF Contract!Next
  <2>4. CASE Create(c) \/ Wait(c) \/ Take(c) \/ TimeOut(c) \/ Leave(c)
    <3>1. called'[c] = called[c] /\ got'[c] = got[c]
      BY <2>4 DEF Create, Wait, Take, TimeOut, Leave
    <3>2. Phase(c)' = Phase(c)
      BY <1>3, <2>1, <2>4 DEF Create, Wait, Take, TimeOut, Leave, Phase, TypeOK, Patient
    <3> QED
      BY <1>1, <3>1, <3>2, Stutters DEF Unseen
  <2> QED
    BY <2>2, <2>3, <2>4 DEF Client
<1> QED
  BY <1>2, <1>3

\* Every patient client sees remote calls: one call at a time, executed once
\* after it was made, and answered with the result of that very call, whatever
\* the hasty clients do and however short the queue.  (That a call is executed
\* at all, IsRemoteCall's fairness, needs a queue with a place for it.)
THEOREM Implements == Spec => Contract!SafeSpec
<1>1. Init => Contract!Init
  <2> SUFFICES ASSUME Init PROVE Contract!Init
    OBVIOUS
  <2> QED
    BY DEF Init, Contract!Init, Patient
<1>2. IInv /\ [Next]_vars => [Contract!Next]_(Contract!vars)
  <2> SUFFICES ASSUME IInv, [Next]_vars
               PROVE  Contract!Next \/ UNCHANGED Contract!vars
    OBVIOUS
  <2>1. CASE Server
    BY <2>1, ServerMaps
  <2>2. ASSUME NEW c \in Clients, Client(c)
        PROVE  Contract!Next \/ UNCHANGED Contract!vars
    BY <2>2, ClientMaps
  <2>3. CASE RunVoid \/ UNCHANGED vars
    <3>1. UNCHANGED <<sem, pc, called, got>>
      BY <2>3 DEF RunVoid
    <3>2. \A c \in Patient : Unseen(c)
      BY <3>1 DEF Unseen, Phase
    <3> QED
      BY <3>2, Stutters
  <2> QED
    BY <2>1, <2>2, <2>3 DEF Next
<1> QED
  BY <1>1, <1>2, Invariance, PTL DEF Spec, Contract!SafeSpec
-----------------------------------------------------------------------------
(* No call is lost where the queue has a place for each that can be under  *)
(* way.                                                                    *)

\* A patient client has one call under way, the others all that they make.
Slots == (Patient \X {0}) \cup (Hasty \X (1..MaxCalls)) \cup ({Void} \X (1..MaxPrints))

RoomForAll == Cardinality(Slots) <= MaxMsgs

\* f numbers the places of the queue: each by its call, and a call that returns
\* nothing by how many of them there had been.
Numbered(f) ==
    /\ f \in [1..Len(msgq) -> Nat]
    /\ \A i \in 1..Len(msgq) :
           /\ msgq[i].fut = Void => f[i] \in 1..prints
           /\ msgq[i].fut # Void => f[i] = msgq[i].args /\ f[i] \in 1..called[msgq[i].fut]
    /\ \A i, j \in 1..Len(msgq) : i < j /\ msgq[i].fut = msgq[j].fut => f[i] < f[j]

NumberInv == \E f \in [1..Len(msgq) -> Nat] : Numbered(f)

LEMMA FromOne ==
  ASSUME NEW n \in Nat
  PROVE  /\ IsFiniteSet(1..n)
         /\ Cardinality(1..n) = n
<1>1. 1 \in Int /\ n \in Int /\ (n = 0 \/ ~ 1 > n) /\ n - 1 + 1 = n
  OBVIOUS
<1>2. IsFiniteSet(1..n) /\ Cardinality(1..n) = IF 1 > n THEN 0 ELSE n - 1 + 1
  BY <1>1, FS_Interval, Zenon
<1> QED
  BY <1>1, <1>2

LEMMA SlotsFinite == IsFiniteSet(Slots) /\ Cardinality(Slots) \in Nat
<1>1. IsFiniteSet(Patient) /\ IsFiniteSet(Hasty)
  BY ClientsAssumption, HastyAssumption, FS_Subset, FS_Difference DEF Patient
<1>2. IsFiniteSet({0}) /\ IsFiniteSet({Void})
  BY FS_Singleton
<1>3. IsFiniteSet(1..MaxCalls) /\ IsFiniteSet(1..MaxPrints)
  BY SizesAssumption, FromOne
<1>4. /\ IsFiniteSet(Patient \X {0}) /\ IsFiniteSet(Hasty \X (1..MaxCalls))
      /\ IsFiniteSet({Void} \X (1..MaxPrints))
  BY <1>1, <1>2, <1>3, FS_Product
<1>5. IsFiniteSet(Slots)
  BY <1>4, FS_Union DEF Slots
<1> QED
  BY <1>5, FS_CardinalityType

\* The slot of the package at place i.
SlotAt(f, i) == IF msgq[i].fut \in Patient THEN <<msgq[i].fut, 0>> ELSE <<msgq[i].fut, f[i]>>

\* If a slot is free, the queue has a place.
LEMMA FreeSlot ==
  ASSUME IInv, RoomForAll, NEW f, Numbered(f), NEW s \in Slots,
         \A i \in 1..Len(msgq) : SlotAt(f, i) # s
  PROVE  Len(msgq) < MaxMsgs
<1> DEFINE n == Len(msgq)
<1>1. n \in Nat /\ MaxMsgs \in Nat /\ \A i \in 1..n : msgq[i] \in Package
  BY SizesAssumption, LenProperties, ElementOfSeq DEF IInv, TypeOK
<1>2. ASSUME NEW i \in 1..n PROVE SlotAt(f, i) \in Slots
  <2>1. msgq[i].fut \in Patient \cup Hasty \cup {Void}
    BY <1>1 DEF Package, Patient
  <2>2. CASE msgq[i].fut \in Patient
    BY <2>2 DEF SlotAt, Slots
  <2>3. CASE msgq[i].fut \in Hasty /\ msgq[i].fut \notin Patient
    <3>1. f[i] \in 1..called[msgq[i].fut] /\ called[msgq[i].fut] \in 0..MaxCalls
      BY <2>3, ClientsAssumption, HastyAssumption DEF Numbered, IInv, TypeOK
    <3>2. f[i] \in 1..MaxCalls
      BY <3>1, SizesAssumption
    <3> QED
      BY <2>3, <3>2 DEF SlotAt, Slots
  <2>4. CASE msgq[i].fut = Void
    <3>1. f[i] \in 1..prints /\ prints \in 0..MaxPrints /\ Void \notin Patient
      BY <2>4, ClientsAssumption DEF Numbered, IInv, TypeOK, Patient
    <3>2. f[i] \in 1..MaxPrints
      BY <3>1, SizesAssumption
    <3> QED
      BY <2>4, <3>1, <3>2 DEF SlotAt, Slots
  <2> QED
    BY <2>1, <2>2, <2>3, <2>4
<1>3. ASSUME NEW i \in 1..n, NEW j \in 1..n, i < j PROVE SlotAt(f, i) # SlotAt(f, j)
  <2> SUFFICES ASSUME SlotAt(f, i) = SlotAt(f, j) PROVE FALSE
    OBVIOUS
  <2>1. SlotAt(f, i)[1] = msgq[i].fut /\ SlotAt(f, j)[1] = msgq[j].fut
    BY DEF SlotAt
  <2>2. msgq[i].fut = msgq[j].fut
    BY <2>1
  <2>3. CASE msgq[i].fut \in Patient
    BY <1>3, <2>2, <2>3 DEF IInv, Once, Patient
  <2>4. CASE msgq[i].fut \notin Patient
    <3>1. SlotAt(f, i)[2] = f[i] /\ SlotAt(f, j)[2] = f[j]
      BY <2>2, <2>4 DEF SlotAt
    <3>2. f[i] < f[j] /\ f[i] \in Nat
      BY <1>3, <2>2 DEF Numbered
    <3> QED
      BY <3>1, <3>2
  <2> QED
    BY <2>3, <2>4
<1>4. Cardinality(Slots) < n + 1 => FALSE
  <2> SUFFICES ASSUME Cardinality(Slots) < n + 1 PROVE FALSE
    OBVIOUS
  <2> DEFINE g == [i \in 1..(n + 1) |-> IF i = n + 1 THEN s ELSE SlotAt(f, i)]
  <2>1. \A i \in 1..(n + 1) : i \in 1..n \/ i = n + 1
    BY <1>1
  <2>2. g \in [1..(n + 1) -> Slots]
    BY <1>2, <2>1
  <2>3. n + 1 \in Nat
    BY <1>1
  <2>4. IsFiniteSet(1..(n + 1)) /\ Cardinality(1..(n + 1)) = n + 1
    BY <2>3, FromOne
  <2> HIDE DEF g
  <2>5. PICK i \in 1..(n + 1), j \in 1..(n + 1) : i # j /\ g[i] = g[j]
    BY <2>2, <2>4, SlotsFinite, FS_PigeonHole
  <2>6. ASSUME NEW k \in 1..(n + 1), NEW l \in 1..(n + 1), k < l PROVE g[k] # g[l]
    <3>1. k \in 1..n /\ k # n + 1
      BY <1>1, <2>6
    <3>2. g[k] = SlotAt(f, k) /\ g[l] = (IF l = n + 1 THEN s ELSE SlotAt(f, l))
      BY <3>1 DEF g
    <3> QED
      BY <1>3, <2>1, <2>6, <3>1, <3>2
  <2>7. i < j \/ j < i
    BY <1>1, <2>5
  <2> QED
    BY <2>5, <2>6, <2>7
<1> QED
  BY <1>1, <1>4, SlotsFinite DEF RoomForAll

\* A put gives its package a number above those of its kind, or drops it.
LEMMA PutNumbers ==
  ASSUME TypeOK, NEW f, Numbered(f), NEW m \in Package, Put(m), NEW n \in Nat,
         \A c \in Clients : called'[c] \in Nat /\ called[c] <= called'[c],
         prints' \in Nat, prints <= prints',
         m.fut = Void => n \in 1..prints',
         m.fut # Void => n = m.args /\ n \in 1..called'[m.fut],
         \A i \in 1..Len(msgq) : msgq[i].fut = m.fut => f[i] < n
  PROVE  NumberInv'
<1> DEFINE l == Len(msgq)
<1>1. /\ l \in Nat /\ \A i \in 1..l : msgq[i] \in Package /\ f[i] \in Nat
      /\ \A c \in Clients : called[c] \in Nat
      /\ prints \in Nat
  <2>1. l \in Nat /\ \A i \in 1..l : msgq[i] \in Package
    BY LenProperties, ElementOfSeq DEF TypeOK
  <2>2. \A i \in 1..l : f[i] \in Nat
    BY DEF Numbered
  <2>3. prints \in Nat /\ \A c \in Clients : called[c] \in Nat
    BY SizesAssumption DEF TypeOK
  <2> QED
    BY <2>1, <2>2, <2>3
<1>2. ASSUME NEW i \in 1..l
      PROVE  /\ msgq[i].fut = Void => f[i] \in 1..prints'
             /\ msgq[i].fut # Void => f[i] = msgq[i].args /\ f[i] \in 1..called'[msgq[i].fut]
  <2>1. msgq[i].fut \in Clients \cup {Void}
    BY <1>1 DEF Package
  <2>2. /\ msgq[i].fut = Void => f[i] \in 1..prints
        /\ msgq[i].fut # Void => f[i] = msgq[i].args /\ f[i] \in 1..called[msgq[i].fut]
    BY DEF Numbered
  <2> QED
    BY <1>1, <2>1, <2>2
<1>3. CASE msgq' = msgq
  <2>1. Numbered(f)' /\ f \in [1..Len(msgq') -> Nat]
    BY <1>2, <1>3 DEF Numbered
  <2> QED
    BY <2>1 DEF NumberInv
<1>4. CASE /\ Len(msgq') = l + 1 /\ msgq'[l + 1] = m
           /\ \A i \in 1..l : msgq'[i] = msgq[i]
  <2>1. /\ \A i \in 1..(l + 1) : i \in 1..l \/ i = l + 1
        /\ \A i \in 1..l : i # l + 1 /\ i \in 1..(l + 1)
        /\ l + 1 \in 1..(l + 1)
    BY <1>1
  <2>2. PICK g \in [1..(l + 1) -> Nat] : g[l + 1] = n /\ \A i \in 1..l : g[i] = f[i]
    <3> DEFINE h == [i \in 1..(l + 1) |-> IF i = l + 1 THEN n ELSE f[i]]
    <3>1. h \in [1..(l + 1) -> Nat] /\ h[l + 1] = n /\ \A i \in 1..l : h[i] = f[i]
      BY <1>1, <2>1
    <3> QED
      BY <3>1
  <2>3. ASSUME NEW i \in 1..(l + 1)
        PROVE  /\ msgq'[i].fut = Void => g[i] \in 1..prints'
               /\ msgq'[i].fut # Void => g[i] = msgq'[i].args /\ g[i] \in 1..called'[msgq'[i].fut]
    BY <1>2, <1>4, <2>1, <2>2
  <2>4. ASSUME NEW i \in 1..(l + 1), NEW j \in 1..(l + 1), i < j, msgq'[i].fut = msgq'[j].fut
        PROVE  g[i] < g[j]
    <3>1. i \in 1..l
      BY <1>1, <2>4
    <3>2. CASE j \in 1..l
      BY <1>4, <2>2, <2>4, <3>1, <3>2 DEF Numbered
    <3>3. CASE j = l + 1
      BY <1>4, <2>2, <2>4, <3>1, <3>3
    <3> QED
      BY <2>1, <3>2, <3>3
  <2>5. g \in [1..Len(msgq') -> Nat] /\ Numbered(g)'
    BY <1>4, <2>2, <2>3, <2>4 DEF Numbered
  <2> QED
    BY <2>5 DEF NumberInv
<1> QED
  BY <1>3, <1>4, PutQueue DEF TypeOK

LEMMA InitNumbers == Init => NumberInv
<1> SUFFICES ASSUME Init PROVE NumberInv
  OBVIOUS
<1> DEFINE f == [i \in 1..0 |-> 0]
<1>1. Len(msgq) = 0
  BY EmptySeq DEF Init
<1>2. f \in [1..Len(msgq) -> Nat] /\ \A i \in 1..Len(msgq) : FALSE
  BY <1>1
<1> QED
  BY <1>2 DEF NumberInv, Numbered

\* What Run and RunVoid put, and the numbers that they give it.
LEMMA RunNumbers ==
  ASSUME IInv, NEW c \in Clients, Run(c), NEW f, Numbered(f)
  PROVE  /\ NumberInv'
         /\ \A i \in 1..Len(msgq) : msgq[i].fut = c => f[i] < called[c] + 1
<1> DEFINE m == [fut |-> c, args |-> called[c] + 1]
<1>1. /\ TypeOK /\ called \in [Clients -> Nat] /\ prints \in Nat /\ prints' = prints
      /\ called' = [called EXCEPT ![c] = @ + 1] /\ Put(m) /\ c # Void
  BY SizesAssumption, ClientsAssumption DEF IInv, TypeOK, Run
<1>2. m \in Package /\ m.fut = c /\ m.args = called[c] + 1
  BY <1>1, Packed DEF Run
<1>3. \A i \in 1..Len(msgq) : msgq[i].fut = c => f[i] < called[c] + 1
  BY <1>1 DEF Numbered
<1>4. /\ \A d \in Clients : called'[d] \in Nat /\ called[d] <= called'[d]
      /\ called[c] + 1 \in Nat /\ called[c] + 1 \in 1..called'[c]
  BY <1>1
<1> HIDE DEF m
<1>5. NumberInv'
  BY <1>1, <1>2, <1>3, <1>4, PutNumbers
<1> QED
  BY <1>3, <1>5

LEMMA RunVoidNumbers ==
  ASSUME IInv, RunVoid, NEW f, Numbered(f)
  PROVE  NumberInv'
<1>1. /\ TypeOK /\ called \in [Clients -> Nat] /\ prints \in Nat /\ prints' = prints + 1
      /\ called' = called /\ Put(NoPackage)
  BY SizesAssumption DEF IInv, TypeOK, RunVoid
<1>2. NoPackage \in Package /\ NoPackage.fut = Void
  BY SizesAssumption DEF Package, NoPackage
<1>3. \A i \in 1..Len(msgq) : msgq[i].fut = Void => f[i] < prints + 1
  BY <1>1 DEF Numbered
<1>4. /\ prints + 1 \in Nat /\ prints + 1 \in 1..prints' /\ prints <= prints'
      /\ prints' \in Nat
  BY <1>1
<1>5. \A c \in Clients : called'[c] \in Nat /\ called[c] <= called'[c]
  BY <1>1
<1> DEFINE m == NoPackage
           n == prints + 1
<1>6. /\ m \in Package /\ Put(m) /\ n \in Nat /\ m.fut = Void /\ n \in 1..prints'
      /\ \A i \in 1..Len(msgq) : msgq[i].fut = m.fut => f[i] < n
  BY <1>1, <1>2, <1>3, <1>4
<1> HIDE DEF m, n
<1> QED
  BY <1>1, <1>4, <1>5, <1>6, PutNumbers

LEMMA GetNumbers ==
  ASSUME IInv, Get, NEW f, Numbered(f)
  PROVE  NumberInv'
<1>1. /\ Len(msgq) \in Nat \ {0} /\ Len(msgq') = Len(msgq) - 1
      /\ \A i \in 1..Len(msgq') : msgq'[i] = msgq[i + 1]
  BY GetQueue DEF IInv, TypeOK
<1>2. called' = called /\ prints' = prints
  BY DEF Get
<1>3. /\ \A i \in 1..Len(msgq') : i + 1 \in 1..Len(msgq)
      /\ \A i, j \in 1..Len(msgq') : i < j => i + 1 < j + 1
  BY <1>1
<1>4. PICK g \in [1..Len(msgq') -> Nat] : \A i \in 1..Len(msgq') : g[i] = f[i + 1]
  <2> DEFINE h == [i \in 1..Len(msgq') |-> f[i + 1]]
  <2>1. h \in [1..Len(msgq') -> Nat] /\ \A i \in 1..Len(msgq') : h[i] = f[i + 1]
    BY <1>3 DEF Numbered
  <2> QED
    BY <2>1
<1>5. ASSUME NEW i \in 1..Len(msgq')
      PROVE  /\ msgq'[i].fut = Void => g[i] \in 1..prints'
             /\ msgq'[i].fut # Void => g[i] = msgq'[i].args /\ g[i] \in 1..called'[msgq'[i].fut]
  <2>1. i + 1 \in 1..Len(msgq) /\ msgq'[i] = msgq[i + 1] /\ g[i] = f[i + 1]
    BY <1>1, <1>3, <1>4
  <2> QED
    BY <1>2, <2>1 DEF Numbered
<1>6. ASSUME NEW i \in 1..Len(msgq'), NEW j \in 1..Len(msgq'), i < j,
             msgq'[i].fut = msgq'[j].fut
      PROVE  g[i] < g[j]
  <2>1. /\ i + 1 \in 1..Len(msgq) /\ msgq'[i] = msgq[i + 1] /\ g[i] = f[i + 1]
        /\ j + 1 \in 1..Len(msgq) /\ msgq'[j] = msgq[j + 1] /\ g[j] = f[j + 1]
        /\ i + 1 < j + 1
    BY <1>1, <1>3, <1>4, <1>6
  <2> QED
    BY <1>6, <2>1 DEF Numbered
<1>7. Numbered(g)'
  BY <1>4, <1>5, <1>6 DEF Numbered
<1> QED
  BY <1>4, <1>7 DEF NumberInv

LEMMA NextNumbers == IInv /\ NumberInv /\ [Next]_vars => NumberInv'
<1> SUFFICES ASSUME IInv, NumberInv, [Next]_vars PROVE NumberInv'
  OBVIOUS
<1>1. PICK f : Numbered(f)
  BY DEF NumberInv
<1>2. CASE \E c \in Clients : Run(c)
  BY <1>1, <1>2, RunNumbers
<1>3. CASE RunVoid
  BY <1>1, <1>3, RunVoidNumbers
<1>4. CASE Get
  BY <1>1, <1>4, GetNumbers
<1>5. CASE UNCHANGED <<msgq, called, prints>>
  BY <1>5 DEF NumberInv, Numbered
<1> QED
  BY <1>2, <1>3, <1>4, <1>5
     DEF Next, Server, Execute, Give, Client, Create, Wait, Take, TimeOut, Return, Leave

\* With room for all, run puts its package in the queue.
LEMMA RunQueues ==
  ASSUME IInv, NumberInv, RoomForAll, NEW c \in Clients, Run(c)
  PROVE  UnderWay(c)'
<1> DEFINE s == IF c \in Patient THEN <<c, 0>> ELSE <<c, called[c] + 1>>
           m == [fut |-> c, args |-> called[c] + 1]
<1>1. PICK f : Numbered(f)
  BY DEF NumberInv
<1>2. called[c] + 1 \in 1..MaxCalls /\ c \in Patient \cup Hasty
  BY SizesAssumption DEF Run, IInv, TypeOK, Patient
<1>3. s \in Slots
  BY <1>2 DEF Slots
<1>4. ASSUME NEW i \in 1..Len(msgq) PROVE SlotAt(f, i) # s
  <2> SUFFICES ASSUME SlotAt(f, i) = s PROVE FALSE
    OBVIOUS
  <2>1. SlotAt(f, i)[1] = msgq[i].fut /\ s[1] = c
    BY DEF SlotAt
  <2>2. msgq[i].fut = c
    BY <2>1
  <2>3. c \notin Patient
    BY <2>2 DEF IInv, Once, Run, UnderWay
  <2>4. SlotAt(f, i)[2] = f[i] /\ s[2] = called[c] + 1
    BY <2>2, <2>3 DEF SlotAt
  <2>5. f[i] < called[c] + 1
    BY <1>1, <2>2, RunNumbers
  <2> QED
    BY <1>1, <2>4, <2>5, SizesAssumption DEF Numbered, IInv, TypeOK
<1> HIDE DEF s
<1>5. Len(msgq) < MaxMsgs
  BY <1>1, <1>3, <1>4, FreeSlot
<1>6. msgq' = Append(msgq, m) /\ msgq \in Seq(Package) /\ m \in Package /\ m.fut = c
  BY <1>5, Packed DEF Run, Put, IInv, TypeOK
<1> HIDE DEF m
<1>7. Len(msgq') = Len(msgq) + 1 /\ msgq'[Len(msgq) + 1] = m /\ Len(msgq) \in Nat
  BY <1>6, AppendProperties, LenProperties
<1>8. Len(msgq) + 1 \in 1..Len(msgq')
  BY <1>7
<1> QED
  BY <1>6, <1>7, <1>8 DEF UnderWay

\* A put takes nothing out of the queue.
LEMMA PutKeepsUnderWay ==
  ASSUME TypeOK, NEW m \in Package, Put(m), UNCHANGED server, NEW c, UnderWay(c)
  PROVE  UnderWay(c)'
<1>1. /\ Len(msgq) \in Nat
      /\ Len(msgq') = Len(msgq) \/ Len(msgq') = Len(msgq) + 1
      /\ \A i \in 1..Len(msgq) : msgq'[i] = msgq[i]
  BY PutQueue, LenProperties DEF TypeOK
<1>2. \A i \in 1..Len(msgq) : i \in 1..Len(msgq')
  BY <1>1
<1> QED
  BY <1>1, <1>2 DEF UnderWay

\* Nor does the object's thread lose what it takes out.
LEMMA ServerKeepsCalls ==
  ASSUME IInv, Server, NEW c \in Clients, UnderWay(c) \/ sem[c] = 1
  PROVE  UnderWay(c)' \/ sem'[c] = 1
<1>1. CASE Get
  <2>1. /\ msg' = msgq[1] /\ Len(msgq) \in Nat \ {0} /\ Len(msgq') = Len(msgq) - 1
        /\ \A i \in 1..Len(msgq') : msgq'[i] = msgq[i + 1]
    BY <1>1, GetQueue DEF IInv, TypeOK
  <2>2. spc = "get" /\ spc' = "execute" /\ sem' = sem
    BY <1>1 DEF Get
  <2>3. ASSUME NEW i \in 1..Len(msgq), msgq[i].fut = c PROVE UnderWay(c)'
    <3>1. CASE i = 1
      BY <2>1, <2>2, <2>3, <3>1 DEF UnderWay
    <3>2. CASE i # 1
      <4>1. i - 1 \in 1..Len(msgq') /\ (i - 1) + 1 = i
        BY <2>1, <3>2
      <4>2. msgq'[i - 1] = msgq[i]
        BY <2>1, <4>1
      <4> QED
        BY <2>3, <4>1, <4>2 DEF UnderWay
    <3> QED
      BY <3>1, <3>2
  <2> QED
    BY <2>2, <2>3 DEF UnderWay
<1>2. CASE Execute
  <2>1. UNCHANGED <<msgq, msg, sem>> /\ (msg.fut # Void => spc' = "give")
    BY <1>2 DEF Execute
  <2> QED
    BY <2>1, ClientsAssumption DEF UnderWay
<1>3. CASE Give
  <2>1. UNCHANGED <<msgq, msg>> /\ sem' = [sem EXCEPT ![msg.fut] = 1]
    BY <1>3 DEF Give
  <2>2. sem'[c] = IF msg.fut = c THEN 1 ELSE sem[c]
    BY <2>1 DEF IInv, TypeOK
  <2> QED
    BY <2>1, <2>2 DEF UnderWay
<1> QED
  BY <1>1, <1>2, <1>3 DEF Server

\* A client that waits, or is about to, has a call under way or the semaphore's
\* gift, if the queue has a place for each call that can be under way.
THEOREM Unlost ==
  ASSUME RoomForAll
  PROVE  Spec => []NoCallLost
<1>1. Init => NoCallLost
  BY DEF Init, NoCallLost
<1>2. IInv /\ NumberInv /\ NoCallLost /\ [Next]_vars => NoCallLost'
  <2> SUFFICES ASSUME IInv, NumberInv, NoCallLost, [Next]_vars,
                      NEW c \in Clients, pc'[c] \in {"called", "waiting"}
               PROVE  (UnderWay(c) \/ sem[c] = 1)'
    BY DEF NoCallLost
  <2>1. CASE UNCHANGED vars
    BY <2>1 DEF NoCallLost, UnderWay
  <2>2. CASE Server
    <3>1. pc' = pc
      BY <2>2 DEF Server, Get, Execute, Give
    <3> QED
      BY <2>2, <3>1, ServerKeepsCalls DEF NoCallLost
  <2>3. CASE RunVoid
    <3>1. /\ pc' = pc /\ sem' = sem /\ UNCHANGED server /\ Put(NoPackage)
          /\ NoPackage \in Package
      BY <2>3, SizesAssumption DEF RunVoid, Package, NoPackage
    <3> QED
      BY <3>1, PutKeepsUnderWay DEF NoCallLost, IInv
  <2>4. CASE Run(c)
    BY <2>4, RunQueues
  <2>5. ASSUME NEW d \in Clients, d # c, Run(d) PROVE (UnderWay(c) \/ sem[c] = 1)'
    <3>1. /\ pc'[c] = pc[c] /\ sem' = sem /\ UNCHANGED server
          /\ Put([fut |-> d, args |-> called[d] + 1])
      BY <2>5 DEF Run, IInv, TypeOK
    <3>2. [fut |-> d, args |-> called[d] + 1] \in Package
      BY <2>5, Packed DEF Run, IInv
    <3> QED
      BY <3>1, <3>2, PutKeepsUnderWay DEF NoCallLost, IInv
  <2>6. ASSUME NEW d \in Clients,
               Create(d) \/ Wait(d) \/ Take(d) \/ TimeOut(d) \/ Return(d) \/ Leave(d)
        PROVE  (UnderWay(c) \/ sem[c] = 1)'
    <3>1. UNCHANGED <<msgq, server>>
      BY <2>6 DEF Create, Wait, Take, TimeOut, Return, Leave
    <3>2. pc[c] \in {"called", "waiting"} /\ sem'[c] = sem[c]
      BY <2>6 DEF Create, Wait, Take, TimeOut, Return, Leave, IInv, TypeOK
    <3> QED
      BY <3>1, <3>2 DEF NoCallLost, UnderWay
  <2> QED
    BY <2>1, <2>2, <2>3, <2>4, <2>5, <2>6 DEF Next, Client
<1> QED
  BY <1>1, <1>2, InitNumbers, NextNumbers, Invariance, PTL DEF Spec

=============================================================================

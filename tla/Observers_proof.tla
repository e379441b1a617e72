--------------------------- MODULE Observers_proof --------------------------
(***************************************************************************)
(* The subscriber of samples/zbus_observers never misses a change and      *)
(* never goes back, for any number of values and any lengths of queues.    *)
(***************************************************************************)
EXTENDS Observers, SequenceTheorems, TLAPS

(* The part of the state that decides what the subscriber prints.          *)
SubTypes ==
    /\ next \in 1..(Last + 1)
    /\ channel \in 0..Last
    /\ notices \in 0..SubQueue
    /\ sub \in {"waiting", "noticed", "reading", "printing"}
    /\ acc \in 0..Last /\ shown \in 0..Last

(* The copy is of a value that the channel has or had, printed or newer.   *)
Aged == shown <= acc /\ acc <= channel /\ channel < next

(* A copy that is not printed yet is the channel's value, or a notice says *)
(* that it is not.                                                         *)
CopyFresh == sub = "printing" /\ notices = 0 => acc = channel

IInv == SubTypes /\ Aged /\ CopyFresh /\ NoChangeMissed

LEMMA InitInv == Init => IInv
  BY SizesAssumption DEF Init, IInv, SubTypes, Aged, CopyFresh, NoChangeMissed

(* A publication leaves the invariant: the new value leaves a notice.      *)
LEMMA PublishInv == IInv /\ Publish => IInv' /\ UNCHANGED shown
  <1> SUFFICES ASSUME IInv, Publish PROVE IInv' /\ UNCHANGED shown
    OBVIOUS
  <1> USE SizesAssumption
  <1>0. next \in 1..Last /\ next' = next + 1 /\ UNCHANGED <<sub, acc, shown>>
    BY DEF Publish, IInv, SubTypes
  <1>1. CASE Accept
    <2>1. channel' = next /\ notices' \in 1..SubQueue
      BY <1>1 DEF Accept, Tell, IInv, SubTypes
    <2> QED
      BY <1>0, <2>1 DEF IInv, SubTypes, Aged, CopyFresh, NoChangeMissed
  <1>2. CASE Refuse
    BY <1>0, <1>2 DEF Refuse, IInv, SubTypes, Aged, CopyFresh, NoChangeMissed
  <1> QED
    BY <1>1, <1>2 DEF Publish

(* The subscriber's steps leave it, and what it prints grows.              *)
LEMMA SubscriberInv == IInv /\ subscriber_task => IInv' /\ shown' >= shown
  <1> SUFFICES ASSUME IInv, subscriber_task PROVE IInv' /\ shown' >= shown
    OBVIOUS
  <1> USE SizesAssumption DEF IInv, SubTypes, Aged, CopyFresh, NoChangeMissed
  <1>1. CASE Notice
    BY <1>1 DEF Notice, mainVars
  <1>2. CASE BeginRead
    BY <1>2 DEF BeginRead, mainVars
  <1>3. CASE EndRead
    BY <1>3 DEF EndRead, mainVars
  <1>4. CASE PrintAcc
    BY <1>4 DEF PrintAcc, mainVars
  <1> QED
    BY <1>1, <1>2, <1>3, <1>4 DEF subscriber_task

(* Every step of the sample leaves it.                                     *)
LEMMA NextInv == IInv /\ [Next]_vars => IInv' /\ shown' >= shown
  <1> SUFFICES ASSUME IInv, [Next]_vars PROVE IInv' /\ shown' >= shown
    OBVIOUS
  <1>0. shown \in Nat
    BY SizesAssumption DEF IInv, SubTypes
  <1>1. CASE Publish
    BY <1>0, <1>1, PublishInv
  <1>2. CASE subscriber_task
    BY <1>2, SubscriberInv
  <1>3. CASE UNCHANGED <<next, channel, subVars>>
    BY <1>0, <1>3
    DEF subVars, IInv, SubTypes, Aged, CopyFresh, NoChangeMissed
  <1>4. CASE Wake \/ Hear \/ Receive
    BY <1>3, <1>4 DEF Wake, Hear, Receive, mainVars, subVars
  <1>5. CASE UNCHANGED vars
    BY <1>3, <1>5 DEF vars, mainVars, subVars
  <1> QED
    BY <1>1, <1>2, <1>4, <1>5 DEF Next

(* The subscriber's part of the state is well typed, no change is missed.  *)
THEOREM Invariance == Spec => []IInv
  <1>1. Init => IInv
    BY InitInv
  <1>2. IInv /\ [Next]_vars => IInv'
    BY NextInv
  <1> QED
    BY <1>1, <1>2, PTL DEF Spec

(* When the subscriber waits with no notice, it has printed the channel's  *)
(* value: for any lengths of queues and any sleeps of main.                *)
THEOREM ChangesNoticed == Spec => []NoChangeMissed
  <1>1. IInv => NoChangeMissed
    BY DEF IInv
  <1> QED
    BY <1>1, Invariance, PTL

(* The subscriber never prints an older value after a newer one.           *)
THEOREM PrintedInOrder == Spec => ShownInOrder
  <1>1. IInv /\ [Next]_vars => [shown' >= shown]_vars
    BY NextInv
  <1> QED
    BY <1>1, Invariance, PTL DEF Spec, ShownInOrder
-----------------------------------------------------------------------------
(* The copies.                                                             *)

(* A value at the end of the second part is at the end of the whole.       *)
LEMMA AppendMoves ==
  ASSUME NEW S, NEW h \in Seq(S), NEW q \in Seq(S), NEW v \in S
  PROVE  h \o Append(q, v) = Append(h \o q, v)
  <1>1. Append(q, v) = q \o <<v>> /\ <<v>> \in Seq(S)
    BY AppendIsConcat
  <1>2. h \o q \in Seq(S)
    BY ConcatProperties
  <1>3. Append(h \o q, v) = (h \o q) \o <<v>>
    BY <1>2, AppendIsConcat
  <1> QED
    BY <1>1, <1>3, ConcatAssociative

(* A value may go from the head of the second part to the end of the first. *)
LEMMA HeadMoves ==
  ASSUME NEW S, NEW h \in Seq(S), NEW q \in Seq(S), q # <<>>
  PROVE  /\ Append(h, Head(q)) \in Seq(S) /\ Tail(q) \in Seq(S)
         /\ Len(Tail(q)) = Len(q) - 1
         /\ Append(h, Head(q)) \o Tail(q) = h \o q
  <1>1. Head(q) \in S /\ Tail(q) \in Seq(S) /\ Len(Tail(q)) = Len(q) - 1
        /\ \A i \in 1..Len(Tail(q)) : Tail(q)[i] = q[i + 1]
    BY HeadTailProperties
  <1>2. <<Head(q)>> \in Seq(S) /\ Append(h, Head(q)) = h \o <<Head(q)>>
    BY <1>1, AppendIsConcat
  <1>3. q = <<Head(q)>> \o Tail(q)
    <2>1. <<Head(q)>> \o Tail(q) \in Seq(S)
          /\ Len(<<Head(q)>> \o Tail(q)) = 1 + Len(Tail(q))
      BY <1>1, <1>2, ConcatProperties
    <2>2. \A i \in 1..Len(q) : (<<Head(q)>> \o Tail(q))[i] = q[i]
      BY <1>1, <1>2, ConcatProperties, LenProperties
    <2> QED
      BY <1>1, <2>1, <2>2, SeqEqual, LenProperties
  <1>4. (h \o <<Head(q)>>) \o Tail(q) = h \o (<<Head(q)>> \o Tail(q))
    BY <1>1, <1>2, ConcatAssociative
  <1>5. Append(h, Head(q)) \in Seq(S)
    BY <1>1, AppendProperties
  <1> QED
    BY <1>1, <1>2, <1>3, <1>4, <1>5

(* What the kernel's queue does with a value.                              *)
LEMMA PutSafe ==
  ASSUME NEW S, NEW q \in Seq(S), NEW v \in S, NEW n \in Nat, Len(q) <= n
  PROVE  Put(q, v, n) \in Seq(S) /\ Len(Put(q, v, n)) <= n
  BY AppendProperties, LenProperties DEF Put

(* The rest of the types; the copies of the listener and of the message    *)
(* subscriber fit in their queues.                                         *)
CopyTypes ==
    /\ main \in {"running", "sleeping"}
    /\ acc_msgq \in Seq(1..Last) /\ Len(acc_msgq) <= ListenerQueue
    /\ buffers \in Seq(1..Last) /\ Len(buffers) <= Pool
    /\ accepted \in Seq(1..Last)
    /\ heard \in Seq(1..Last) /\ received \in Seq(1..Last)

LEMMA InitTypes == Init => CopyTypes
  BY SizesAssumption, EmptySeq DEF Init, CopyTypes

LEMMA NextTypes == IInv /\ CopyTypes /\ [Next]_vars => CopyTypes'
  <1> SUFFICES ASSUME IInv, CopyTypes, [Next]_vars PROVE CopyTypes'
    OBVIOUS
  <1> USE SizesAssumption DEF CopyTypes
  <1>1. CASE Publish
    <2>0. next \in 1..Last /\ main' \in {"running", "sleeping"}
          /\ UNCHANGED <<heard, received>>
      BY <1>1 DEF Publish, IInv, SubTypes
    <2>1. CASE Accept
      <3>1. /\ acc_msgq' = Put(acc_msgq, next, ListenerQueue)
            /\ buffers' = Put(buffers, next, Pool)
            /\ accepted' = Append(accepted, next)
        BY <2>1 DEF Accept, Tell
      <3>2. accepted' \in Seq(1..Last)
        BY <2>0, <3>1, AppendProperties
      <3>3. acc_msgq' \in Seq(1..Last) /\ Len(acc_msgq') <= ListenerQueue
        BY <2>0, <3>1, PutSafe
      <3>4. buffers' \in Seq(1..Last) /\ Len(buffers') <= Pool
        BY <2>0, <3>1, PutSafe
      <3> QED
        BY <2>0, <3>2, <3>3, <3>4
    <2>2. CASE Refuse
      BY <2>0, <2>2 DEF Refuse
    <2> QED
      BY <1>1, <2>1, <2>2 DEF Publish
  <1>2. CASE Hear
    <2>1. heard' = Append(heard, Head(acc_msgq)) /\ acc_msgq' = Tail(acc_msgq)
          /\ acc_msgq # <<>> /\ UNCHANGED <<main, accepted, buffers, received>>
      BY <1>2 DEF Hear, mainVars, msgSubVars
    <2>2. heard' \in Seq(1..Last) /\ acc_msgq' \in Seq(1..Last)
          /\ Len(acc_msgq') = Len(acc_msgq) - 1
      BY <2>1, HeadMoves
    <2> QED
      BY <2>1, <2>2, LenProperties
  <1>3. CASE Receive
    <2>1. received' = Append(received, Head(buffers)) /\ buffers' = Tail(buffers)
          /\ buffers # <<>> /\ UNCHANGED <<main, accepted, acc_msgq, heard>>
      BY <1>3 DEF Receive, mainVars, listenerVars
    <2>2. received' \in Seq(1..Last) /\ buffers' \in Seq(1..Last)
          /\ Len(buffers') = Len(buffers) - 1
      BY <2>1, HeadMoves
    <2> QED
      BY <2>1, <2>2, LenProperties
  <1>4. CASE Wake
    BY <1>4 DEF Wake, listenerVars, msgSubVars
  <1>5. CASE UNCHANGED <<mainVars, listenerVars, msgSubVars>>
    BY <1>5 DEF mainVars, listenerVars, msgSubVars
  <1>6. CASE subscriber_task
    BY <1>5, <1>6 DEF subscriber_task, Notice, BeginRead, EndRead, PrintAcc
  <1>7. CASE UNCHANGED vars
    BY <1>5, <1>7 DEF vars
  <1> QED
    BY <1>1, <1>2, <1>3, <1>4, <1>6, <1>7 DEF Next

(* The variables keep their types, whatever the lengths of the queues: none *)
(* ever holds more than it has places for.                                 *)
THEOREM TypeCorrect == Spec => []TypeOK
  <1>1. IInv /\ CopyTypes => TypeOK
    BY DEF IInv, SubTypes, CopyTypes, TypeOK
  <1> QED
    BY <1>1, InitTypes, NextTypes, Invariance, PTL DEF Spec

(* There is a place for every copy, since fewer values have been accepted  *)
(* than main has published.                                                *)
CopyInv == CopiesComplete /\ Len(accepted) < next

LEMMA NextCopies ==
  ASSUME ListenerQueue >= Last, Pool >= Last
  PROVE  IInv /\ CopyTypes /\ CopyInv /\ [Next]_vars => CopyInv'
  <1> SUFFICES ASSUME IInv, CopyTypes, CopyInv, [Next]_vars PROVE CopyInv'
    OBVIOUS
  <1>s. /\ heard \in Seq(1..Last) /\ acc_msgq \in Seq(1..Last)
        /\ received \in Seq(1..Last) /\ buffers \in Seq(1..Last)
        /\ accepted \in Seq(1..Last)
    BY DEF CopyTypes
  <1>l. /\ Len(heard) \in Nat /\ Len(acc_msgq) \in Nat
        /\ Len(received) \in Nat /\ Len(buffers) \in Nat
        /\ Len(accepted) \in Nat
    BY <1>s, LenProperties
  <1>c. heard \o acc_msgq = accepted /\ received \o buffers = accepted
    BY DEF CopyInv, CopiesComplete
  <1>n. Len(accepted) < next
    BY DEF CopyInv
  <1>1. CASE Publish
    <2>0. next \in 1..Last /\ next' = next + 1 /\ UNCHANGED <<heard, received>>
      BY <1>1 DEF Publish, IInv, SubTypes
    <2>1. CASE Accept
      <3>1. /\ acc_msgq' = Put(acc_msgq, next, ListenerQueue)
            /\ buffers' = Put(buffers, next, Pool)
            /\ accepted' = Append(accepted, next)
        BY <2>1 DEF Accept, Tell
      <3>2. /\ Len(accepted) = Len(heard) + Len(acc_msgq)
            /\ Len(accepted) = Len(received) + Len(buffers)
        BY <1>s, <1>c, ConcatProperties
      <3>3. Len(acc_msgq) < ListenerQueue /\ Len(buffers) < Pool
        BY <1>l, <1>n, <2>0, <3>2, SizesAssumption
      <3>4. acc_msgq' = Append(acc_msgq, next) /\ buffers' = Append(buffers, next)
        BY <3>1, <3>3 DEF Put
      <3>5. heard \o Append(acc_msgq, next) = Append(heard \o acc_msgq, next)
        BY <1>s, <2>0, AppendMoves
      <3>6. received \o Append(buffers, next) = Append(received \o buffers, next)
        BY <1>s, <2>0, AppendMoves
      <3>7. Len(accepted') = Len(accepted) + 1
        BY <1>s, <2>0, <3>1, AppendProperties
      <3>8. Len(accepted') < next'
        BY <1>l, <1>n, <2>0, <3>7
      <3>9. heard' \o acc_msgq' = accepted' /\ received' \o buffers' = accepted'
        BY <1>c, <2>0, <3>1, <3>4, <3>5, <3>6
      <3> QED
        BY <3>8, <3>9 DEF CopyInv, CopiesComplete
    <2>2. CASE Refuse
      <3>1. UNCHANGED <<accepted, acc_msgq, buffers>>
        BY <2>2 DEF Refuse
      <3>2. Len(accepted') < next'
        BY <1>l, <1>n, <2>0, <3>1
      <3> QED
        BY <1>c, <2>0, <3>1, <3>2 DEF CopyInv, CopiesComplete
    <2> QED
      BY <1>1, <2>1, <2>2 DEF Publish
  <1>2. CASE Hear
    <2>1. heard' = Append(heard, Head(acc_msgq)) /\ acc_msgq' = Tail(acc_msgq)
          /\ acc_msgq # <<>> /\ UNCHANGED <<next, accepted, buffers, received>>
      BY <1>2 DEF Hear, mainVars, msgSubVars
    <2>2. Append(heard, Head(acc_msgq)) \o Tail(acc_msgq) = heard \o acc_msgq
      BY <1>s, <2>1, HeadMoves
    <2> QED
      BY <1>c, <1>n, <2>1, <2>2 DEF CopyInv, CopiesComplete
  <1>3. CASE Receive
    <2>1. received' = Append(received, Head(buffers)) /\ buffers' = Tail(buffers)
          /\ buffers # <<>> /\ UNCHANGED <<next, accepted, acc_msgq, heard>>
      BY <1>3 DEF Receive, mainVars, listenerVars
    <2>2. Append(received, Head(buffers)) \o Tail(buffers) = received \o buffers
      BY <1>s, <2>1, HeadMoves
    <2> QED
      BY <1>c, <1>n, <2>1, <2>2 DEF CopyInv, CopiesComplete
  <1>4. CASE Wake
    BY <1>4 DEF Wake, listenerVars, msgSubVars, CopyInv, CopiesComplete
  <1>5. CASE UNCHANGED <<mainVars, listenerVars, msgSubVars>>
    BY <1>5 DEF mainVars, listenerVars, msgSubVars, CopyInv, CopiesComplete
  <1>6. CASE subscriber_task
    BY <1>5, <1>6 DEF subscriber_task, Notice, BeginRead, EndRead, PrintAcc
  <1>7. CASE UNCHANGED vars
    BY <1>5, <1>7 DEF vars
  <1> QED
    BY <1>1, <1>2, <1>3, <1>4, <1>6, <1>7 DEF Next

(* The listener and the message subscriber print what the channel accepted, *)
(* all of it and in its order, when there is a place for each value.       *)
THEOREM CopiesAll ==
  ASSUME ListenerQueue >= Last, Pool >= Last
  PROVE  Spec => []CopiesComplete
  <1>1. Init => CopyInv
    BY EmptySeq, ConcatEmptySeq DEF Init, CopyInv, CopiesComplete
  <1>2. IInv /\ CopyTypes /\ CopyInv /\ [Next]_vars => CopyInv'
    BY NextCopies
  <1>3. CopyInv => CopiesComplete
    BY DEF CopyInv
  <1> QED
    BY <1>1, <1>2, <1>3, InitTypes, NextTypes, Invariance, PTL DEF Spec
=============================================================================

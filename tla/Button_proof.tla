---------------------------- MODULE Button_proof ----------------------------
(* Proofs about Button, for every number of presses and bounces.           *)
EXTENDS Button, TLAPS

\* A debounce excludes the handler: while the timer runs, and until the expiry
\* function has joined the callback list again, gpio_handler cannot start.
MaskInv ==
    /\ timer = "armed" \/ hpc = "restart" \/ epc \in {"enable", "add"}
           => ~registered
    /\ timer = "armed" \/ epc \in {"enable", "add"} => hpc = "idle"
    /\ timer = "armed" \/ hpc \in {"remove", "restart"}
           => (interrupt => dropped)
    /\ timer = "armed" => epc \in {"idle", "call"} /\ status = 0

\* Before the constructor is done nothing can reach the object.
BuildInv ==
    obj \in {"none", "configured", "enabled", "failed"}
        => ~registered /\ timer = "stopped" /\ hpc = "idle" /\ epc = "idle"

\* A burst arms the timer at most once: having armed it, its edges find the
\* pin masked until they are over.
BurstInv ==
    /\ armedIn <= bursts
    /\ armedIn = bursts
           => hpc = "idle" /\ (timer = "armed" \/ (bounces = 0 /\ ~pending))

\* The calls still to come from a running timer or a running expiry function.
Owed == (IF timer = "armed" THEN 1 ELSE 0) + (IF epc # "idle" THEN 1 ELSE 0)

CallInv == calls + Owed <= armedIn

IInv == TypeOK /\ MaskInv /\ BuildInv /\ BurstInv /\ CallInv

USE DEF thread, gpio, ktimer, finger, ghosts, vars

\* The inductive invariant holds initially.
LEMMA InitIInv == Init => IInv
<1> SUFFICES ASSUME Init PROVE IInv
  OBVIOUS
<1>1. TypeOK
  <2>1. 0 \in Nat /\ 0 \in 0..1 /\ 0 \in 0..MaxPresses
    BY BoundsAssumption
  <2> QED
    BY <2>1, Zenon DEF Init, TypeOK
<1>2. MaskInv /\ BuildInv
  BY DEF Init, MaskInv, BuildInv
<1>3. BurstInv /\ CallInv
  BY DEF Init, BurstInv, CallInv, Owed
<1> QED
  BY <1>1, <1>2, <1>3 DEF IInv

\* The thread's calls keep the inductive invariant.
LEMMA ThreadIInv == IInv /\ Thread => IInv'
<1> SUFFICES ASSUME IInv, Thread PROVE IInv'
  OBVIOUS
<1> USE DEF IInv, InISR
<1>1. CASE ConfigurePin
  <2>1. TypeOK'
    BY <1>1 DEF ConfigurePin, TypeOK
  <2>2. MaskInv' /\ BuildInv'
    BY <1>1 DEF ConfigurePin, TypeOK, MaskInv, BuildInv
  <2>3. BurstInv' /\ CallInv'
    BY <1>1 DEF ConfigurePin, TypeOK, MaskInv, BuildInv, BurstInv, CallInv, Owed
  <2> QED
    BY <2>1, <2>2, <2>3
<1>2. CASE EnableEdges
  <2>1. TypeOK'
    BY <1>2 DEF EnableEdges, TypeOK
  <2>2. MaskInv' /\ BuildInv'
    BY <1>2, Zenon DEF EnableEdges, MaskInv, BuildInv
  <2>3. BurstInv' /\ CallInv'
    BY <1>2 DEF EnableEdges, TypeOK, MaskInv, BuildInv, BurstInv, CallInv, Owed
  <2> QED
    BY <2>1, <2>2, <2>3
<1>3. CASE AddCallback
  <2>1. TypeOK'
    <3>1. registered' \in BOOLEAN
      BY <1>3, Zenon DEF AddCallback, TypeOK
    <3> QED
      BY <1>3, <3>1 DEF AddCallback, TypeOK
  <2>2. MaskInv' /\ BuildInv'
    <3>1. timer' = "stopped" /\ hpc' = "idle" /\ epc' = "idle"
      BY <1>3 DEF AddCallback, BuildInv
    <3>2. MaskInv'
      BY <3>1 DEF MaskInv
    <3>3. obj' = "alive" \/ ~registered'
      BY <1>3 DEF AddCallback, BuildInv
    <3> QED
      BY <3>1, <3>2, <3>3 DEF BuildInv
  <2>3. BurstInv' /\ CallInv'
    BY <1>3 DEF AddCallback, TypeOK, MaskInv, BuildInv, BurstInv, CallInv, Owed
  <2> QED
    BY <2>1, <2>2, <2>3
<1>4. CASE BeginInstall
  <2>1. TypeOK'
    BY <1>4 DEF BeginInstall, TypeOK
  <2>2. MaskInv' /\ BuildInv'
    BY <1>4 DEF BeginInstall, TypeOK, MaskInv, BuildInv
  <2>3. BurstInv' /\ CallInv'
    BY <1>4 DEF BeginInstall, TypeOK, MaskInv, BuildInv, BurstInv, CallInv, Owed
  <2> QED
    BY <2>1, <2>2, <2>3
<1>5. CASE EndInstall
  <2>1. TypeOK'
    BY <1>5 DEF EndInstall, TypeOK
  <2>2. MaskInv' /\ BuildInv'
    BY <1>5 DEF EndInstall, TypeOK, MaskInv, BuildInv
  <2>3. BurstInv' /\ CallInv'
    BY <1>5 DEF EndInstall, TypeOK, MaskInv, BuildInv, BurstInv, CallInv, Owed
  <2> QED
    BY <2>1, <2>2, <2>3
<1>6. CASE DestroyDisable
  <2>1. TypeOK'
    BY <1>6 DEF DestroyDisable, TypeOK
  <2>2. MaskInv' /\ BuildInv'
    BY <1>6 DEF DestroyDisable, TypeOK, MaskInv, BuildInv
  <2>3. BurstInv' /\ CallInv'
    BY <1>6 DEF DestroyDisable, TypeOK, MaskInv, BuildInv, BurstInv, CallInv, Owed
  <2> QED
    BY <2>1, <2>2, <2>3
<1>7. CASE DestroyRemove
  <2>1. TypeOK'
    BY <1>7 DEF DestroyRemove, TypeOK
  <2>2. MaskInv' /\ BuildInv'
    BY <1>7 DEF DestroyRemove, TypeOK, MaskInv, BuildInv
  <2>3. BurstInv' /\ CallInv'
    BY <1>7 DEF DestroyRemove, TypeOK, MaskInv, BuildInv, BurstInv, CallInv, Owed
  <2> QED
    BY <2>1, <2>2, <2>3
<1> QED
  BY <1>1, <1>2, <1>3, <1>4, <1>5, <1>6, <1>7 DEF Thread

\* The GPIO interrupt's calls keep the inductive invariant.
LEMMA HandlerIInv == IInv /\ Handler => IInv'
<1> SUFFICES ASSUME IInv, Handler PROVE IInv'
  OBVIOUS
<1> USE DEF IInv
<1>1. CASE TakeInterrupt
  <2>1. TypeOK'
    <3>1. fault' \in BOOLEAN
      BY <1>1, Zenon DEF TakeInterrupt, TypeOK
    <3>2. pending' \in BOOLEAN /\ hpc' \in {"idle", "check"}
      BY <1>1 DEF TakeInterrupt
    <3> QED
      BY <1>1, <3>1, <3>2 DEF TakeInterrupt, TypeOK
  <2>2. MaskInv' /\ BuildInv'
    BY <1>1 DEF TakeInterrupt, TypeOK, MaskInv, BuildInv
  <2>3. BurstInv' /\ CallInv'
    BY <1>1 DEF TakeInterrupt, TypeOK, MaskInv, BuildInv, BurstInv, CallInv, Owed
  <2> QED
    BY <2>1, <2>2, <2>3
<1>2. CASE Check
  <2>1. TypeOK'
    BY <1>2 DEF Check, TypeOK
  <2>2. MaskInv' /\ BuildInv'
    BY <1>2 DEF Check, TypeOK, MaskInv, BuildInv
  <2>3. BurstInv' /\ CallInv'
    BY <1>2 DEF Check, TypeOK, MaskInv, BuildInv, BurstInv, CallInv, Owed
  <2> QED
    BY <2>1, <2>2, <2>3
<1>3. CASE Mask
  <2>1. TypeOK'
    <3>1. interrupt' \in BOOLEAN /\ pending' \in BOOLEAN /\ dropped' \in BOOLEAN
      BY <1>3, Zenon DEF Mask, TypeOK
    <3> QED
      BY <1>3, <3>1 DEF Mask, TypeOK
  <2>2. MaskInv' /\ BuildInv'
    BY <1>3, Zenon DEF Mask, MaskInv, BuildInv
  <2>3. BurstInv' /\ CallInv'
    BY <1>3 DEF Mask, TypeOK, MaskInv, BuildInv, BurstInv, CallInv, Owed
  <2> QED
    BY <2>1, <2>2, <2>3
<1>4. CASE Remove
  <2>1. TypeOK'
    <3>1. registered' \in BOOLEAN /\ hpc' \in {"idle", "restart"}
      BY <1>4 DEF Remove
    <3>2. UNCHANGED <<thread, interrupt, pending, ktimer, epc, finger, armedIn, ghosts>>
      BY <1>4, Zenon DEF Remove
    <3> QED
      BY <3>1, <3>2 DEF TypeOK
  <2>2. MaskInv' /\ BuildInv'
    BY <1>4, Zenon DEF Remove, MaskInv, BuildInv
  <2>3. BurstInv' /\ CallInv'
    BY <1>4 DEF Remove, TypeOK, MaskInv, BuildInv, BurstInv, CallInv, Owed
  <2> QED
    BY <2>1, <2>2, <2>3
<1>5. CASE Restart
  <2>1. TypeOK'
    <3>1. dropped' \in BOOLEAN
      BY <1>5, Zenon DEF Restart, TypeOK
    <3> QED
      BY <1>5, <3>1 DEF Restart, TypeOK
  <2>4. MaskInv' /\ BuildInv' /\ BurstInv'
    BY <1>5 DEF Restart, TypeOK, MaskInv, BuildInv, BurstInv
  <2>2. armedIn < bursts /\ timer = "stopped"
    BY <1>5 DEF Restart, TypeOK, MaskInv, BurstInv
  <2>3. CallInv'
    BY <1>5, <2>2 DEF Restart, TypeOK, CallInv, Owed
  <2> QED
    BY <2>1, <2>3, <2>4
<1> QED
  BY <1>1, <1>2, <1>3, <1>4, <1>5 DEF Handler

\* The timer interrupt's calls keep the inductive invariant.
LEMMA ExpiryIInv == IInv /\ Expiry => IInv'
<1> SUFFICES ASSUME IInv, Expiry PROVE IInv'
  OBVIOUS
<1> USE DEF IInv
<1>1. CASE Expire
  <2>1. TypeOK'
    <3>1. fault' \in BOOLEAN
      BY <1>1, Zenon DEF Expire, TypeOK
    <3>2. status' \in 0..1
      BY <1>1 DEF Expire, TypeOK, MaskInv
    <3> QED
      BY <1>1, <3>1, <3>2 DEF Expire, TypeOK
  <2>2. MaskInv' /\ BuildInv'
    BY <1>1 DEF Expire, TypeOK, MaskInv, BuildInv
  <2>3. BurstInv' /\ CallInv'
    BY <1>1 DEF Expire, BurstOver, TypeOK, MaskInv, BurstInv, CallInv, Owed
  <2> QED
    BY <2>1, <2>2, <2>3
<1>2. CASE Reenable
  <2>1. TypeOK'
    <3>1. interrupt' \in BOOLEAN /\ dropped' \in BOOLEAN
      BY <1>2, Zenon DEF Reenable, TypeOK
    <3> QED
      BY <1>2, <3>1 DEF Reenable, TypeOK
  <2>2. MaskInv' /\ BuildInv'
    BY <1>2 DEF Reenable, TypeOK, MaskInv, BuildInv
  <2>3. BurstInv' /\ CallInv'
    BY <1>2 DEF Reenable, TypeOK, MaskInv, BuildInv, BurstInv, CallInv, Owed
  <2> QED
    BY <2>1, <2>2, <2>3
<1>3. CASE Readd
  <2>1. TypeOK'
    <3>1. registered' \in BOOLEAN /\ dropped' \in BOOLEAN
      BY <1>3, Zenon DEF Readd, TypeOK
    <3> QED
      BY <1>3, <3>1 DEF Readd, TypeOK
  <2>2. MaskInv' /\ BuildInv'
    BY <1>3 DEF Readd, TypeOK, MaskInv, BuildInv
  <2>3. BurstInv' /\ CallInv'
    BY <1>3 DEF Readd, TypeOK, MaskInv, BuildInv, BurstInv, CallInv, Owed
  <2> QED
    BY <2>1, <2>2, <2>3
<1>4. CASE Call
  <2>1. TypeOK'
    BY <1>4 DEF Call, TypeOK
  <2>2. MaskInv' /\ BuildInv'
    BY <1>4 DEF Call, TypeOK, MaskInv, BuildInv
  <2>3. BurstInv' /\ CallInv'
    BY <1>4 DEF Call, TypeOK, MaskInv, BuildInv, BurstInv, CallInv, Owed
  <2> QED
    BY <2>1, <2>2, <2>3
<1> QED
  BY <1>1, <1>2, <1>3, <1>4 DEF Expiry

\* A new burst of edges keeps everything but the count of presses, which the
\* press itself bounds.
LEMMA BurstKeeps ==
  ASSUME IInv, presses' \in 0..MaxPresses,
         NEW l \in 0..1, Burst(l)
  PROVE  IInv'
<1>1. PICK n \in 0..MaxBounce : bounces' = 2 * n
  BY DEF Burst
<1>2. bounces' \in Nat
  BY <1>1, BoundsAssumption
<1>3. TypeOK' /\ MaskInv' /\ BuildInv'
  BY <1>2 DEF Burst, IInv, TypeOK, MaskInv, BuildInv
<1>4. BurstInv' /\ CallInv'
  BY DEF Burst, Rested, IInv, TypeOK, BurstInv, CallInv, Owed
<1> QED
  BY <1>3, <1>4 DEF IInv

\* The edges on the pin keep the inductive invariant.
LEMMA FingerIInv == IInv /\ Finger => IInv'
<1> SUFFICES ASSUME IInv, Finger PROVE IInv'
  OBVIOUS
<1> USE DEF IInv
<1>1. CASE Press
  <2>1. presses' \in 0..MaxPresses
    BY <1>1, BoundsAssumption DEF Press, TypeOK
  <2> QED
    BY <1>1, <2>1, BurstKeeps DEF Press
<1>2. CASE Release
  <2>1. presses' \in 0..MaxPresses
    BY <1>2 DEF Release, TypeOK
  <2> QED
    BY <1>2, <2>1, BurstKeeps DEF Release
<1>3. CASE Bounce
  <2>1. TypeOK'
    BY <1>3 DEF Bounce, TypeOK
  <2>2. MaskInv' /\ BuildInv'
    BY <1>3 DEF Bounce, TypeOK, MaskInv, BuildInv
  <2>3. BurstInv' /\ CallInv'
    BY <1>3 DEF Bounce, TypeOK, MaskInv, BuildInv, BurstInv, CallInv, Owed
  <2> QED
    BY <2>1, <2>2, <2>3
<1> QED
  BY <1>1, <1>2, <1>3 DEF Finger

\* Every step, stuttering included, keeps the inductive invariant.
LEMMA NextIInv == IInv /\ [Next]_vars => IInv'
<1>1. IInv /\ UNCHANGED vars => IInv'
  BY DEF IInv, TypeOK, MaskInv, BuildInv, BurstInv, CallInv, Owed
<1> QED
  BY <1>1, ThreadIInv, HandlerIInv, ExpiryIInv, FingerIInv DEF Next

\* The inductive invariant is an invariant of the button.
THEOREM Invariance == Spec => []IInv
  BY InitIInv, NextIInv, PTL DEF Spec

\* Type correctness of the button.
THEOREM TypeCorrect == Spec => []TypeOK
  BY Invariance, PTL DEF IInv

\* However the interrupts nest and whatever the driver refuses, gpio_handler
\* cannot run while the debounce timer does.
THEOREM MasksPin == Spec => []DebounceMasksPin
<1>1. IInv => DebounceMasksPin
  BY DEF IInv, MaskInv, DebounceMasksPin
<1> QED
  BY <1>1, Invariance, PTL

\* For any number of presses and any amount of bouncing, a burst of edges
\* causes at most one call of the callback.
THEOREM CallsBounded == Spec => []OneCallPerBurst
<1>1. IInv => OneCallPerBurst
  BY DEF IInv, TypeOK, BurstInv, CallInv, Owed, OneCallPerBurst
<1> QED
  BY <1>1, Invariance, PTL
-----------------------------------------------------------------------------
\* Where a live Button may have its pin interrupt or its callback switched off:
\* only between the handler's and the expiry function's calls that do so.
ListenInv ==
    ~dropped =>
        /\ obj = "enabled" => interrupt
        /\ obj = "alive" => \/ interrupt
                            \/ timer = "armed"
                            \/ hpc \in {"remove", "restart"}
                            \/ epc = "enable"
        /\ obj = "alive" => \/ registered
                            \/ timer = "armed"
                            \/ hpc = "restart"
                            \/ epc \in {"enable", "add"}

\* ListenInv holds initially and is kept by every step from a state in which
\* the handler is excluded from a debounce.
LEMMA ListenStep == IInv /\ ListenInv /\ [Next]_vars => ListenInv'
<1> SUFFICES ASSUME MaskInv, BuildInv, TypeOK, ListenInv, [Next]_vars
             PROVE  ListenInv'
  BY DEF IInv
<1> USE DEF TypeOK, MaskInv, BuildInv, InISR
<1>1. CASE ConfigurePin
  BY <1>1 DEF ConfigurePin, ListenInv
<1>2. CASE EnableEdges
  BY <1>2 DEF EnableEdges, ListenInv
<1>3. CASE AddCallback
  BY <1>3 DEF AddCallback, ListenInv
<1>4. CASE BeginInstall
  BY <1>4 DEF BeginInstall, ListenInv
<1>5. CASE EndInstall
  BY <1>5 DEF EndInstall, ListenInv
<1>6. CASE DestroyDisable
  BY <1>6 DEF DestroyDisable, ListenInv
<1>7. CASE DestroyRemove
  BY <1>7 DEF DestroyRemove, ListenInv
<1>8. CASE TakeInterrupt
  BY <1>8 DEF TakeInterrupt, ListenInv
<1>9. CASE Check
  BY <1>9 DEF Check, ListenInv
<1>10. CASE Mask
  BY <1>10 DEF Mask, ListenInv
<1>11. CASE Remove
  BY <1>11 DEF Remove, ListenInv
<1>12. CASE Restart
  BY <1>12 DEF Restart, ListenInv
<1>13. CASE Expire
  BY <1>13 DEF Expire, ListenInv
<1>14. CASE Reenable
  BY <1>14 DEF Reenable, ListenInv
<1>15. CASE Readd
  BY <1>15 DEF Readd, ListenInv
<1>16. CASE Call
  BY <1>16 DEF Call, ListenInv
<1>17. CASE Press
  BY <1>17 DEF Press, Burst, ListenInv
<1>18. CASE Release
  BY <1>18 DEF Release, Burst, ListenInv
<1>19. CASE Bounce
  BY <1>19 DEF Bounce, ListenInv
<1>20. CASE UNCHANGED vars
  BY <1>20 DEF ListenInv
<1> QED
  BY <1>1, <1>2, <1>3, <1>4, <1>5, <1>6, <1>7, <1>8, <1>9, <1>10, <1>11, <1>12, <1>13, <1>14, <1>15, <1>16, <1>17, <1>18, <1>19, <1>20
     DEF Next, Thread, Handler, Expiry, Finger

\* For every interleaving of the interrupts with each other and with the
\* thread, a live Button that has settled listens to its pin, unless the
\* driver refused a call whose result the code ignores.
THEOREM NotLeftDeaf == Spec => []NeverLeftDeaf
<1>1. Init => ListenInv
  BY DEF Init, ListenInv
<1>2. IInv /\ ListenInv => NeverLeftDeaf
  BY DEF ListenInv, NeverLeftDeaf, InISR
<1> QED
  BY <1>1, <1>2, ListenStep, Invariance, PTL DEF Spec
-----------------------------------------------------------------------------
\* What can still reach a Button in its destructor is what reached it before: an
\* edge, the handler or the debounce.  When the destructor ends with no debounce
\* running nothing is left, since no interrupt is being handled either.
LifeInv ==
    /\ outlived => obj = "dead"
    /\ ~outlived => ~fault
    /\ obj = "dead" /\ ~outlived
           => ~registered /\ timer = "stopped" /\ hpc = "idle" /\ epc = "idle"

\* LifeInv is kept by every step.
LEMMA LifeStep == IInv /\ LifeInv /\ [Next]_vars => LifeInv'
<1> SUFFICES ASSUME BuildInv, TypeOK, LifeInv, [Next]_vars
             PROVE  LifeInv'
  BY DEF IInv
<1> USE DEF TypeOK, BuildInv, InISR
<1>1. CASE ConfigurePin
  BY <1>1 DEF ConfigurePin, LifeInv
<1>2. CASE EnableEdges
  BY <1>2 DEF EnableEdges, LifeInv
<1>3. CASE AddCallback
  BY <1>3 DEF AddCallback, LifeInv
<1>4. CASE BeginInstall
  BY <1>4 DEF BeginInstall, LifeInv
<1>5. CASE EndInstall
  BY <1>5 DEF EndInstall, LifeInv
<1>6. CASE DestroyDisable
  BY <1>6 DEF DestroyDisable, LifeInv
<1>7. CASE DestroyRemove
  <2>1. outlived' = (timer = "armed")
    BY <1>7, Zenon DEF DestroyRemove
  <2>2. ~outlived' => timer' = "stopped"
    <3>1. timer' = timer /\ timer \in {"stopped", "armed"}
      BY <1>7 DEF DestroyRemove
    <3> QED
      BY <2>1, <3>1, Zenon
  <2>3. ~fault'
    <3>1. ~outlived /\ fault' = fault
      BY <1>7 DEF DestroyRemove, LifeInv
    <3> QED
      BY <3>1 DEF LifeInv
  <2>4. ~registered' /\ hpc' = "idle" /\ epc' = "idle" /\ obj' = "dead"
    BY <1>7 DEF DestroyRemove
  <2> QED
    BY <2>2, <2>3, <2>4 DEF LifeInv
<1>8. CASE TakeInterrupt
  BY <1>8 DEF TakeInterrupt, LifeInv
<1>9. CASE Check
  BY <1>9 DEF Check, LifeInv
<1>10. CASE Mask
  BY <1>10 DEF Mask, LifeInv
<1>11. CASE Remove
  BY <1>11 DEF Remove, LifeInv
<1>12. CASE Restart
  BY <1>12 DEF Restart, LifeInv
<1>13. CASE Expire
  BY <1>13 DEF Expire, LifeInv
<1>14. CASE Reenable
  BY <1>14 DEF Reenable, LifeInv
<1>15. CASE Readd
  BY <1>15 DEF Readd, LifeInv
<1>16. CASE Call
  BY <1>16 DEF Call, LifeInv
<1>17. CASE Press
  BY <1>17 DEF Press, Burst, LifeInv
<1>18. CASE Release
  BY <1>18 DEF Release, Burst, LifeInv
<1>19. CASE Bounce
  BY <1>19 DEF Bounce, LifeInv
<1>20. CASE UNCHANGED vars
  BY <1>20 DEF LifeInv
<1> QED
  BY <1>1, <1>2, <1>3, <1>4, <1>5, <1>6, <1>7, <1>8, <1>9, <1>10, <1>11, <1>12, <1>13, <1>14, <1>15, <1>16, <1>17, <1>18, <1>19, <1>20
     DEF Next, Thread, Handler, Expiry, Finger

\* For every interleaving of the destructor's two calls with the interrupts, and
\* whatever the driver refuses, only a debounce that runs when the destructor
\* ends can reach the object afterwards; and nothing can after a constructor
\* that throws.
THEOREM NothingElseOutlives == Spec => []OnlyDebounceOutlives
<1>1. Init => LifeInv
  BY DEF Init, LifeInv
<1>2. IInv /\ LifeInv => OnlyDebounceOutlives
  BY DEF IInv, BuildInv, LifeInv, OnlyDebounceOutlives, InISR
<1>3. LifeInv /\ IInv /\ [Next]_vars => LifeInv'
  BY LifeStep
<1> QED
  BY <1>1, <1>2, <1>3, Invariance, PTL DEF Spec
-----------------------------------------------------------------------------
(* Used at ease.                                                           *)

\* What makes AtEase true later: nothing has gone wrong yet.
Ease == ~rushed /\ ~dropped /\ obj \in {"none", "configured", "enabled", "alive"}

\* A call is on its way.
Owing == hpc \in {"mask", "remove", "restart"} \/ timer = "armed" \/ epc # "idle"

\* Edges of the burst are still to be handled.
Edging == hpc = "check" \/ pending \/ bounces > 0

\* Without a callback the button has not been used, or it was in a rush.
UnusedInv ==
    /\ obj \in {"none", "configured", "enabled"} => callback = "empty"
    /\ ~rushed /\ callback = "empty" =>
           /\ presses = 0 /\ level = 0 /\ bounces = 0 /\ status = 0 /\ calls = 0
           /\ bursts = 0 /\ began = 0
           /\ ~pending /\ ~Owing /\ hpc = "idle"

\* A debounce belongs to the burst that started it, which is over when the
\* expiry function runs.
PaceInv ==
    Ease => /\ timer = "armed" => armedIn = bursts
            /\ epc # "idle" => /\ hpc = "idle" /\ ~pending /\ bounces = 0
                               /\ timer = "stopped" /\ status = 1

\* The current burst has no call before its debounce has passed, and no edge
\* after that.  A burst that finds the status set comes after one that made a
\* call; and the status is set at rest exactly when the last burst made one.
HeardInv ==
    Ease => IF Owing \/ Edging
            THEN calls = began /\ (~Owing /\ status = 1 => began = before + 1)
            ELSE IF status = 1
            THEN calls = began + 1
            ELSE calls = began /\ (bursts = 0 \/ began = before + 1)

\* Without bounces presses find the status clear, and releases find it set.
CleanInv ==
    Ease /\ ~bounced =>
        /\ bounces = 0
        /\ pending => hpc = "idle"
        /\ IF Owing THEN level = 1 /\ calls + 1 = presses /\ ~pending
           ELSE IF Edging
           THEN (level = 1 => status = 0 /\ calls + 1 = presses)
                /\ (level = 0 => status = 1 /\ calls = presses)
           ELSE calls = presses /\ status = level

EaseInv == UnusedInv /\ PaceInv /\ HeardInv /\ CleanInv

\* EaseInv is kept by every step, one action at a time.
LEMMA EaseStep == IInv /\ ListenInv /\ EaseInv /\ [Next]_vars => EaseInv'
<1> SUFFICES ASSUME TypeOK, MaskInv, BuildInv, BurstInv, ListenInv,
                    UnusedInv, PaceInv, HeardInv, CleanInv, [Next]_vars
             PROVE  EaseInv'
  BY DEF IInv, EaseInv
<1> USE DEF Ease, Owing, Edging
<1>1. CASE ConfigurePin
  <2>1. UnusedInv'
    BY <1>1 DEF ConfigurePin, InISR, TypeOK, MaskInv, BuildInv, UnusedInv
  <2>2. PaceInv'
    BY <1>1 DEF ConfigurePin, InISR, TypeOK, MaskInv, BuildInv, BurstInv, PaceInv
  <2>3. HeardInv'
    BY <1>1 DEF ConfigurePin, InISR, TypeOK, MaskInv, BuildInv, ListenInv, UnusedInv, PaceInv, HeardInv
  <2>4. CleanInv'
    BY <1>1 DEF ConfigurePin, InISR, TypeOK, MaskInv, BuildInv, ListenInv, UnusedInv, PaceInv, CleanInv
  <2> QED
    BY <2>1, <2>2, <2>3, <2>4 DEF EaseInv
<1>2. CASE EnableEdges
  <2>1. UnusedInv'
    BY <1>2 DEF EnableEdges, InISR, TypeOK, MaskInv, BuildInv, UnusedInv
  <2>2. PaceInv'
    BY <1>2 DEF EnableEdges, InISR, TypeOK, MaskInv, BuildInv, BurstInv, PaceInv
  <2>3. HeardInv'
    BY <1>2 DEF EnableEdges, InISR, TypeOK, MaskInv, BuildInv, ListenInv, UnusedInv, PaceInv, HeardInv
  <2>4. CleanInv'
    BY <1>2 DEF EnableEdges, InISR, TypeOK, MaskInv, BuildInv, ListenInv, UnusedInv, PaceInv, CleanInv
  <2> QED
    BY <2>1, <2>2, <2>3, <2>4 DEF EaseInv
<1>3. CASE AddCallback
  <2>1. UnusedInv'
    BY <1>3 DEF AddCallback, InISR, TypeOK, MaskInv, BuildInv, UnusedInv
  <2>2. PaceInv'
    BY <1>3 DEF AddCallback, InISR, TypeOK, MaskInv, BuildInv, BurstInv, PaceInv
  <2>3. HeardInv'
    BY <1>3 DEF AddCallback, InISR, TypeOK, MaskInv, BuildInv, ListenInv, UnusedInv, PaceInv, HeardInv
  <2>4. CleanInv'
    BY <1>3 DEF AddCallback, InISR, TypeOK, MaskInv, BuildInv, ListenInv, UnusedInv, PaceInv, CleanInv
  <2> QED
    BY <2>1, <2>2, <2>3, <2>4 DEF EaseInv
<1>4. CASE BeginInstall
  <2>1. UnusedInv'
    BY <1>4 DEF BeginInstall, InISR, TypeOK, MaskInv, BuildInv, UnusedInv
  <2>2. PaceInv'
    BY <1>4 DEF BeginInstall, InISR, TypeOK, MaskInv, BuildInv, BurstInv, PaceInv
  <2>3. HeardInv'
    BY <1>4 DEF BeginInstall, InISR, TypeOK, MaskInv, BuildInv, ListenInv, UnusedInv, PaceInv, HeardInv
  <2>4. CleanInv'
    BY <1>4 DEF BeginInstall, InISR, TypeOK, MaskInv, BuildInv, ListenInv, UnusedInv, PaceInv, CleanInv
  <2> QED
    BY <2>1, <2>2, <2>3, <2>4 DEF EaseInv
<1>5. CASE EndInstall
  <2>1. UnusedInv'
    BY <1>5 DEF EndInstall, InISR, TypeOK, MaskInv, BuildInv, UnusedInv
  <2>2. PaceInv'
    BY <1>5 DEF EndInstall, InISR, TypeOK, MaskInv, BuildInv, BurstInv, PaceInv
  <2>3. HeardInv'
    BY <1>5 DEF EndInstall, InISR, TypeOK, MaskInv, BuildInv, ListenInv, UnusedInv, PaceInv, HeardInv
  <2>4. CleanInv'
    BY <1>5 DEF EndInstall, InISR, TypeOK, MaskInv, BuildInv, ListenInv, UnusedInv, PaceInv, CleanInv
  <2> QED
    BY <2>1, <2>2, <2>3, <2>4 DEF EaseInv
<1>6. CASE DestroyDisable
  <2>1. UnusedInv'
    BY <1>6 DEF DestroyDisable, InISR, TypeOK, MaskInv, BuildInv, UnusedInv
  <2>2. PaceInv'
    BY <1>6 DEF DestroyDisable, InISR, TypeOK, MaskInv, BuildInv, BurstInv, PaceInv
  <2>3. HeardInv'
    BY <1>6 DEF DestroyDisable, InISR, TypeOK, MaskInv, BuildInv, ListenInv, UnusedInv, PaceInv, HeardInv
  <2>4. CleanInv'
    BY <1>6 DEF DestroyDisable, InISR, TypeOK, MaskInv, BuildInv, ListenInv, UnusedInv, PaceInv, CleanInv
  <2> QED
    BY <2>1, <2>2, <2>3, <2>4 DEF EaseInv
<1>7. CASE DestroyRemove
  <2>1. UnusedInv'
    BY <1>7 DEF DestroyRemove, InISR, TypeOK, MaskInv, BuildInv, UnusedInv
  <2>2. PaceInv'
    BY <1>7 DEF DestroyRemove, InISR, TypeOK, MaskInv, BuildInv, BurstInv, PaceInv
  <2>3. HeardInv'
    BY <1>7 DEF DestroyRemove, InISR, TypeOK, MaskInv, BuildInv, ListenInv, UnusedInv, PaceInv, HeardInv
  <2>4. CleanInv'
    BY <1>7 DEF DestroyRemove, InISR, TypeOK, MaskInv, BuildInv, ListenInv, UnusedInv, PaceInv, CleanInv
  <2> QED
    BY <2>1, <2>2, <2>3, <2>4 DEF EaseInv
<1>8. CASE TakeInterrupt
  <2>1. UnusedInv'
    BY <1>8 DEF TakeInterrupt, TypeOK, MaskInv, BuildInv, UnusedInv
  <2>2. PaceInv'
    BY <1>8 DEF TakeInterrupt, TypeOK, MaskInv, BuildInv, BurstInv, PaceInv
  <2>3. HeardInv'
    BY <1>8 DEF TakeInterrupt, TypeOK, MaskInv, BuildInv, ListenInv, UnusedInv, PaceInv, HeardInv
  <2>4. CleanInv'
    BY <1>8 DEF TakeInterrupt, TypeOK, MaskInv, BuildInv, ListenInv, UnusedInv, PaceInv, CleanInv
  <2> QED
    BY <2>1, <2>2, <2>3, <2>4 DEF EaseInv
<1>9. CASE Check
  <2>1. UnusedInv'
    BY <1>9 DEF Check, TypeOK, MaskInv, BuildInv, UnusedInv
  <2>2. PaceInv'
    BY <1>9 DEF Check, TypeOK, MaskInv, BuildInv, BurstInv, PaceInv
  <2>3. HeardInv'
    BY <1>9 DEF Check, TypeOK, MaskInv, BuildInv, ListenInv, UnusedInv, PaceInv, HeardInv
  <2>4. CleanInv'
    BY <1>9 DEF Check, TypeOK, MaskInv, BuildInv, ListenInv, UnusedInv, PaceInv, CleanInv
  <2> QED
    BY <2>1, <2>2, <2>3, <2>4 DEF EaseInv
<1>10. CASE Mask
  <2>1. UnusedInv'
    BY <1>10 DEF Mask, TypeOK, MaskInv, BuildInv, UnusedInv
  <2>2. PaceInv'
    BY <1>10 DEF Mask, TypeOK, MaskInv, BuildInv, BurstInv, PaceInv
  <2>3. HeardInv'
    BY <1>10 DEF Mask, TypeOK, MaskInv, BuildInv, ListenInv, UnusedInv, PaceInv, HeardInv
  <2>4. CleanInv'
    BY <1>10 DEF Mask, TypeOK, MaskInv, BuildInv, ListenInv, UnusedInv, PaceInv, CleanInv
  <2> QED
    BY <2>1, <2>2, <2>3, <2>4 DEF EaseInv
<1>11. CASE Remove
  <2>1. UnusedInv'
    BY <1>11 DEF Remove, TypeOK, MaskInv, BuildInv, UnusedInv
  <2>2. PaceInv'
    BY <1>11 DEF Remove, TypeOK, MaskInv, BuildInv, BurstInv, PaceInv
  <2>3. HeardInv'
    BY <1>11 DEF Remove, TypeOK, MaskInv, BuildInv, ListenInv, UnusedInv, PaceInv, HeardInv
  <2>4. CleanInv'
    BY <1>11 DEF Remove, TypeOK, MaskInv, BuildInv, ListenInv, UnusedInv, PaceInv, CleanInv
  <2> QED
    BY <2>1, <2>2, <2>3, <2>4 DEF EaseInv
<1>12. CASE Restart
  <2>1. UnusedInv'
    BY <1>12 DEF Restart, TypeOK, MaskInv, BuildInv, UnusedInv
  <2>2. PaceInv'
    BY <1>12 DEF Restart, TypeOK, MaskInv, BuildInv, BurstInv, PaceInv
  <2>3. HeardInv'
    BY <1>12 DEF Restart, TypeOK, MaskInv, BuildInv, ListenInv, UnusedInv, PaceInv, HeardInv
  <2>4. CleanInv'
    BY <1>12 DEF Restart, TypeOK, MaskInv, BuildInv, ListenInv, UnusedInv, PaceInv, CleanInv
  <2> QED
    BY <2>1, <2>2, <2>3, <2>4 DEF EaseInv
<1>13. CASE Expire
  <2>1. UnusedInv'
    BY <1>13 DEF Expire, BurstOver, TypeOK, MaskInv, BuildInv, UnusedInv
  <2>2. PaceInv'
    BY <1>13 DEF Expire, BurstOver, TypeOK, MaskInv, BuildInv, BurstInv, PaceInv
  <2>3. HeardInv'
    BY <1>13 DEF Expire, BurstOver, TypeOK, MaskInv, BuildInv, ListenInv, UnusedInv, PaceInv, HeardInv
  <2>4. CleanInv'
    BY <1>13 DEF Expire, BurstOver, TypeOK, MaskInv, BuildInv, ListenInv, UnusedInv, PaceInv, CleanInv
  <2> QED
    BY <2>1, <2>2, <2>3, <2>4 DEF EaseInv
<1>14. CASE Reenable
  <2>1. UnusedInv'
    BY <1>14 DEF Reenable, TypeOK, MaskInv, BuildInv, UnusedInv
  <2>2. PaceInv'
    BY <1>14 DEF Reenable, TypeOK, MaskInv, BuildInv, BurstInv, PaceInv
  <2>3. HeardInv'
    BY <1>14 DEF Reenable, TypeOK, MaskInv, BuildInv, ListenInv, UnusedInv, PaceInv, HeardInv
  <2>4. CleanInv'
    BY <1>14 DEF Reenable, TypeOK, MaskInv, BuildInv, ListenInv, UnusedInv, PaceInv, CleanInv
  <2> QED
    BY <2>1, <2>2, <2>3, <2>4 DEF EaseInv
<1>15. CASE Readd
  <2>1. UnusedInv'
    BY <1>15 DEF Readd, TypeOK, MaskInv, BuildInv, UnusedInv
  <2>2. PaceInv'
    BY <1>15 DEF Readd, TypeOK, MaskInv, BuildInv, BurstInv, PaceInv
  <2>3. HeardInv'
    BY <1>15 DEF Readd, TypeOK, MaskInv, BuildInv, ListenInv, UnusedInv, PaceInv, HeardInv
  <2>4. CleanInv'
    BY <1>15 DEF Readd, TypeOK, MaskInv, BuildInv, ListenInv, UnusedInv, PaceInv, CleanInv
  <2> QED
    BY <2>1, <2>2, <2>3, <2>4 DEF EaseInv
<1>16. CASE Call
  <2>1. UnusedInv'
    BY <1>16 DEF Call, TypeOK, MaskInv, BuildInv, UnusedInv
  <2>2. PaceInv'
    BY <1>16 DEF Call, TypeOK, MaskInv, BuildInv, BurstInv, PaceInv
  <2>3. HeardInv'
    BY <1>16 DEF Call, TypeOK, MaskInv, BuildInv, ListenInv, UnusedInv, PaceInv, HeardInv
  <2>4. CleanInv'
    BY <1>16 DEF Call, TypeOK, MaskInv, BuildInv, ListenInv, UnusedInv, PaceInv, CleanInv
  <2> QED
    BY <2>1, <2>2, <2>3, <2>4 DEF EaseInv
<1>17. CASE Press
  <2>1. UnusedInv'
    BY <1>17 DEF Press, Burst, Rested, TypeOK, MaskInv, BuildInv, UnusedInv
  <2>2. PaceInv'
    BY <1>17 DEF Press, Burst, Rested, TypeOK, MaskInv, BuildInv, BurstInv, PaceInv
  <2>3. /\ level = 0 /\ level' = 1 /\ presses' = presses + 1
        /\ UNCHANGED <<timer, status, hpc, epc, calls, dropped, obj>>
        /\ hpc = "idle" /\ bounces = 0 /\ ~pending
    BY <1>17 DEF Press, Burst, Rested
  <2>4. presses \in Nat /\ calls \in Nat /\ status \in 0..1 /\ bounces' \in Nat
    <3>1. PICK n \in 0..MaxBounce : bounces' = 2 * n
      BY <1>17 DEF Press, Burst
    <3> QED
      BY <3>1, BoundsAssumption DEF TypeOK
  <2>5. Ease' => Ease /\ timer = "stopped" /\ epc = "idle" /\ callback = "set"
    BY <1>17 DEF Press, Burst, TypeOK
  <2>6. Ease' => obj = "alive"
    BY <2>5 DEF UnusedInv
  <2>7. Ease' => pending'
    <3>1. pending' = interrupt
      BY <1>17 DEF Press, Burst
    <3>2. Ease' => interrupt
      BY <2>3, <2>5, <2>6 DEF ListenInv
    <3> QED
      BY <3>1, <3>2, Zenon
  <2>8. Ease' => IF status = 1 THEN calls = began + 1 ELSE calls = began
    BY <2>3, <2>5 DEF HeardInv
  <2>9. Ease' => ~Owing' /\ Edging'
    BY <2>3, <2>5, <2>7
  <2>10. HeardInv'
    <3>1. before' = began /\ began' = calls
      BY <1>17 DEF Press, Burst
    <3> HIDE DEF Owing, Edging, Ease
    <3> SUFFICES ASSUME Ease'
                 PROVE  calls' = began' /\ (status' = 1 => began' = before' + 1)
      BY <2>9 DEF HeardInv
    <3> QED
      BY <2>3, <2>8, <3>1
  <2>11. Ease' /\ ~bounced' => bounces' = 0 /\ ~bounced
    <3>1. bounced' = (bounced \/ bounces' > 0)
      BY <1>17 DEF Press, Burst
    <3>2. ~bounced' => ~bounced /\ ~(bounces' > 0)
      BY <3>1, Zenon
    <3> QED
      BY <2>4, <3>2
  <2>12. Ease' /\ ~bounced' => calls = presses /\ status = level
    BY <2>3, <2>5, <2>11 DEF CleanInv
  <2>13. CleanInv'
    <3> HIDE DEF Owing, Edging, Ease
    <3> SUFFICES ASSUME Ease', ~bounced'
                 PROVE  /\ bounces' = 0 /\ hpc' = "idle"
                        /\ level' = 1 => status' = 0 /\ calls' + 1 = presses'
                        /\ level' = 0 => status' = 1 /\ calls' = presses'
      BY <2>9 DEF CleanInv
    <3> QED
      BY <2>3, <2>4, <2>11, <2>12
  <2> QED
    BY <2>1, <2>2, <2>10, <2>13 DEF EaseInv
<1>18. CASE Release
  <2>1. UnusedInv'
    BY <1>18 DEF Release, Burst, Rested, TypeOK, MaskInv, BuildInv, UnusedInv
  <2>2. PaceInv'
    BY <1>18 DEF Release, Burst, Rested, TypeOK, MaskInv, BuildInv, BurstInv, PaceInv
  <2>3. /\ level = 1 /\ level' = 0 /\ presses' = presses
        /\ UNCHANGED <<timer, status, hpc, epc, calls, dropped, obj>>
        /\ hpc = "idle" /\ bounces = 0 /\ ~pending
    BY <1>18 DEF Release, Burst, Rested
  <2>4. presses \in Nat /\ calls \in Nat /\ status \in 0..1 /\ bounces' \in Nat
    <3>1. PICK n \in 0..MaxBounce : bounces' = 2 * n
      BY <1>18 DEF Release, Burst
    <3> QED
      BY <3>1, BoundsAssumption DEF TypeOK
  <2>5. Ease' => Ease /\ timer = "stopped" /\ epc = "idle" /\ callback = "set"
    BY <1>18 DEF Release, Burst, TypeOK
  <2>6. Ease' => obj = "alive"
    BY <2>5 DEF UnusedInv
  <2>7. Ease' => pending'
    <3>1. pending' = interrupt
      BY <1>18 DEF Release, Burst
    <3>2. Ease' => interrupt
      BY <2>3, <2>5, <2>6 DEF ListenInv
    <3> QED
      BY <3>1, <3>2, Zenon
  <2>8. Ease' => IF status = 1 THEN calls = began + 1 ELSE calls = began
    BY <2>3, <2>5 DEF HeardInv
  <2>9. Ease' => ~Owing' /\ Edging'
    BY <2>3, <2>5, <2>7
  <2>10. HeardInv'
    <3>1. before' = began /\ began' = calls
      BY <1>18 DEF Release, Burst
    <3> HIDE DEF Owing, Edging, Ease
    <3> SUFFICES ASSUME Ease'
                 PROVE  calls' = began' /\ (status' = 1 => began' = before' + 1)
      BY <2>9 DEF HeardInv
    <3> QED
      BY <2>3, <2>8, <3>1
  <2>11. Ease' /\ ~bounced' => bounces' = 0 /\ ~bounced
    <3>1. bounced' = (bounced \/ bounces' > 0)
      BY <1>18 DEF Release, Burst
    <3>2. ~bounced' => ~bounced /\ ~(bounces' > 0)
      BY <3>1, Zenon
    <3> QED
      BY <2>4, <3>2
  <2>12. Ease' /\ ~bounced' => calls = presses /\ status = level
    BY <2>3, <2>5, <2>11 DEF CleanInv
  <2>13. CleanInv'
    <3> HIDE DEF Owing, Edging, Ease
    <3> SUFFICES ASSUME Ease', ~bounced'
                 PROVE  /\ bounces' = 0 /\ hpc' = "idle"
                        /\ level' = 1 => status' = 0 /\ calls' + 1 = presses'
                        /\ level' = 0 => status' = 1 /\ calls' = presses'
      BY <2>9 DEF CleanInv
    <3> QED
      BY <2>3, <2>4, <2>11, <2>12
  <2> QED
    BY <2>1, <2>2, <2>10, <2>13 DEF EaseInv
<1>19. CASE Bounce
  <2>1. UnusedInv'
    BY <1>19 DEF Bounce, TypeOK, MaskInv, BuildInv, UnusedInv
  <2>2. PaceInv'
    BY <1>19 DEF Bounce, TypeOK, MaskInv, BuildInv, BurstInv, PaceInv
  <2>3. HeardInv'
    BY <1>19 DEF Bounce, TypeOK, MaskInv, BuildInv, ListenInv, UnusedInv, PaceInv, HeardInv
  <2>4. CleanInv'
    BY <1>19 DEF Bounce, TypeOK, MaskInv, BuildInv, ListenInv, UnusedInv, PaceInv, CleanInv
  <2> QED
    BY <2>1, <2>2, <2>3, <2>4 DEF EaseInv
<1>20. CASE UNCHANGED vars
  <2>1. UnusedInv'
    BY <1>20 DEF TypeOK, MaskInv, BuildInv, UnusedInv
  <2>2. PaceInv'
    BY <1>20 DEF TypeOK, MaskInv, BuildInv, BurstInv, PaceInv
  <2>3. HeardInv'
    BY <1>20 DEF TypeOK, MaskInv, BuildInv, ListenInv, UnusedInv, PaceInv, HeardInv
  <2>4. CleanInv'
    BY <1>20 DEF TypeOK, MaskInv, BuildInv, ListenInv, UnusedInv, PaceInv, CleanInv
  <2> QED
    BY <2>1, <2>2, <2>3, <2>4 DEF EaseInv
<1> QED
  BY <1>1, <1>2, <1>3, <1>4, <1>5, <1>6, <1>7, <1>8, <1>9, <1>10, <1>11, <1>12, <1>13, <1>14, <1>15, <1>16, <1>17, <1>18, <1>19, <1>20
     DEF Next, Thread, Handler, Expiry, Finger

\* Used at ease a burst goes without a call only when the one before it made one,
\* for any number of presses and bounces.
THEOREM PressesHeard == Spec => []DropFollowsCall
<1>1. Init => EaseInv
  BY DEF Init, EaseInv, UnusedInv, PaceInv, HeardInv, CleanInv, Ease, Owing, Edging
<1>2. IInv /\ EaseInv => DropFollowsCall
  BY DEF IInv, TypeOK, EaseInv, HeardInv, Ease, Owing, Edging,
         DropFollowsCall, Settled, Rested, AtEase
<1>3. Init => ListenInv
  BY DEF Init, ListenInv
<1> QED
  BY <1>1, <1>2, <1>3, ListenStep, EaseStep, Invariance, PTL DEF Spec

\* With a clean contact as well each press makes exactly one call.
THEOREM PressesCounted == Spec => []OneCallPerPress
<1>1. Init => EaseInv
  BY DEF Init, EaseInv, UnusedInv, PaceInv, HeardInv, CleanInv, Ease, Owing, Edging
<1>2. IInv /\ EaseInv => OneCallPerPress
  BY DEF IInv, TypeOK, EaseInv, CleanInv, Ease, Owing, Edging,
         OneCallPerPress, Settled, Rested, AtEase
<1>3. Init => ListenInv
  BY DEF Init, ListenInv
<1> QED
  BY <1>1, <1>2, <1>3, ListenStep, EaseStep, Invariance, PTL DEF Spec
=============================================================================

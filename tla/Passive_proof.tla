---------------------------- MODULE Passive_proof ----------------------------
(* Proofs about the parts without a thread or an interrupt of their own,   *)
(* which act only when they are called: Stopwatch, TypeState, LoadCell and *)
(* ErrorCodes.  They share nothing; each has a section.                    *)
EXTENDS Stopwatch, TypeState, LoadCell, ErrorCodes, SequenceTheorems, FiniteSetTheorems,
        TLAPS
-----------------------------------------------------------------------------
(* Stopwatch, for every tick rate, every size of microsecond and           *)
(* millisecond, and any number of pauses.                                  *)

\* What cutting off to a multiple does: it never adds, and it takes away less
\* than one unit.
LEMMA Cut ==
  ASSUME NEW a \in Nat, NEW m \in Nat, m > 0
  PROVE  /\ a \div m \in Nat
         /\ (a \div m) * m \in Nat
         /\ (a \div m) * m <= a
         /\ a - (a \div m) * m <= m - 1
  BY SMTT(30)

\* Cutting off keeps the order.
LEMMA CutMonotone ==
  ASSUME NEW a \in Nat, NEW b \in Nat, NEW m \in Nat, m > 0, a <= b
  PROVE  a \div m <= b \div m
  BY SMTT(30)

\* Cutting off a whole number of units loses nothing.
LEMMA CutWhole ==
  ASSUME NEW k \in Nat, NEW m \in Nat, m > 0
  PROVE  (k * m) \div m = k
  BY SMTT(30)

\* Multiplication over the sums that the readings are.
LEMMA Spread ==
  ASSUME NEW a \in Int, NEW b \in Int, NEW c \in Int, NEW m \in Int
  PROVE  (a - b + c) * m = a * m - b * m + c * m /\ a * m \in Int
  BY SMTT(30)

\* A longer time is no fewer units.
LEMMA Longer ==
  ASSUME NEW a \in Int, NEW b \in Int, a <= b, NEW m \in Nat
  PROVE  a * m <= b * m
  BY SMTT(30)

\* The time passed since a start in the past grows with the uptime.
LEMMA PassedGrows ==
  ASSUME NEW n \in Nat, NEW n2 \in Nat, n <= n2,
         NEW st \in Nat, st <= n, NEW b \in Nat
  PROVE  n - st + b \in Nat /\ n2 - st + b \in Nat /\ n - st + b <= n2 - st + b
  OBVIOUS

\* A run from tick s to tick t, measured by the cut uptimes st and n, of which
\* k is kept with what b was kept before.  r ticks had run by then and p runs
\* been measured; each may add less than a tick's remainder to the time and
\* take less than a millisecond away.
LEMMA RunMeasured ==
  ASSUME NEW T \in Nat, T > 0, NEW U \in Nat, NEW M \in Nat, M > 0,
         NEW t \in Nat, NEW s \in Nat, NEW n \in Nat, NEW st \in Nat,
         n * T <= t * U, t * U - n * T <= T - 1,
         st * T <= s * U, s * U - st * T <= T - 1,
         NEW b \in Nat, NEW r \in Nat, NEW p \in Nat,
         b * T - r * U <= p * (T - 1), r * U - b * T <= p * (M * T - 1),
         NEW k \in Nat, k <= n - st + b, n - st + b - k <= M - 1
  PROVE  /\ k * T - (r + (t - s)) * U <= (p + 1) * (T - 1)
         /\ (r + (t - s)) * U - k * T <= (p + 1) * (M * T - 1)
<1>1. (r + (t - s)) * U = t * U - s * U + r * U
  <2>1. r + (t - s) = t - s + r
    OBVIOUS
  <2> QED
    BY <2>1, Spread
<1>2. (n - st + b) * T = n * T - st * T + b * T
  BY Spread
<1>3. k * T <= (n - st + b) * T
  BY Longer
<1>4. (n - st + b) * T - k * T <= M * T - T
  <2>1. (n - st + b - k) * T <= (M - 1) * T
    BY Longer
  <2>2. (n - st + b - k) * T = (n - st + b) * T - k * T + 0 * T
    <3>1. n - st + b - k = (n - st + b) - k + 0 /\ n - st + b \in Int
      OBVIOUS
    <3> QED
      BY <3>1, Spread
  <2>3. (M - 1) * T = M * T - 1 * T + 0 * T /\ 0 * T = 0 /\ 1 * T = T
    <3>1. M - 1 = M - 1 + 0
      OBVIOUS
    <3> QED
      BY <3>1, Spread
  <2>4. k * T \in Int /\ (n - st + b) * T \in Int /\ M * T \in Int
    BY Spread
  <2> QED
    BY <2>1, <2>2, <2>3, <2>4
<1>5. /\ (p + 1) * (T - 1) = p * (T - 1) + (T - 1)
      /\ (p + 1) * (M * T - 1) = p * (M * T - 1) + (M * T - 1)
  BY SMTT(30)
<1>6. /\ t * U \in Int /\ s * U \in Int /\ r * U \in Int
      /\ n * T \in Int /\ st * T \in Int /\ b * T \in Int /\ k * T \in Int
      /\ M * T \in Int
  BY Spread
<1>7. p * (T - 1) \in Int /\ p * (M * T - 1) \in Int
  BY <1>6, Spread
<1> DEFINE tU == t * U  sU == s * U  rU == r * U  bT == b * T  kT == k * T
           nT == n * T  sT == st * T  PT == (n - st + b) * T
           low == p * (T - 1)  MT == M * T
           high == p * (M * T - 1)
           lhs == (r + (t - s)) * U
           lows == (p + 1) * (T - 1)  highs == (p + 1) * (M * T - 1)
<1>8. /\ lhs = tU - sU + rU /\ PT = nT - sT + bT /\ kT <= PT /\ PT - kT <= MT - T
      /\ lows = low + (T - 1) /\ highs = high + (MT - 1)
      /\ nT <= tU /\ tU - nT <= T - 1 /\ sT <= sU /\ sU - sT <= T - 1
      /\ bT - rU <= low /\ rU - bT <= high
  BY <1>1, <1>2, <1>3, <1>4, <1>5
<1>9. tU \in Int /\ sU \in Int /\ rU \in Int /\ bT \in Int /\ kT \in Int /\ nT \in Int
      /\ sT \in Int /\ low \in Int /\ high \in Int /\ MT \in Int
  BY <1>6, <1>7
<1> HIDE DEF tU, sU, rU, bT, kT, nT, sT, PT, low, high, MT, lhs, lows, highs
<1>10. kT - lhs <= lows /\ lhs - kT <= highs
  BY <1>8, <1>9
<1> QED
  BY <1>10 DEF kT, lhs, lows, highs

\* The uptime in microseconds, at any tick: a natural number that never goes
\* back from one tick to the next.
LEMMA Uptime ==
  ASSUME NEW t \in Nat
  PROVE  /\ (t * MicrosPerSec) \div TicksPerSec \in Nat
         /\ (t * MicrosPerSec) \div TicksPerSec
                <= ((t + 1) * MicrosPerSec) \div TicksPerSec
<1> DEFINE a == t * MicrosPerSec
           b == (t + 1) * MicrosPerSec
<1>1. a \in Nat /\ b \in Nat /\ a <= b
  BY UnitsAssumption, SMTT(30)
<1> HIDE DEF a, b
<1>2. a \div TicksPerSec \in Nat /\ a \div TicksPerSec <= b \div TicksPerSec
  BY <1>1, Cut, CutMonotone, UnitsAssumption
<1> QED
  BY <1>2 DEF a, b

\* A tick moves the uptime forward or leaves it.
LEMMA NowGrows ==
  ASSUME ticks \in Nat
  PROVE  /\ Now \in Nat
         /\ Tick => Now' \in Nat /\ Now <= Now'
<1>1. Now \in Nat
  BY Uptime DEF Now
<1>2. ASSUME Tick PROVE Now' \in Nat /\ Now <= Now'
  <2>1. ticks' = ticks + 1 /\ ticks + 1 \in Nat
    BY <1>2 DEF Tick
  <2>2. Now' = ((ticks + 1) * MicrosPerSec) \div TicksPerSec
    BY <2>1 DEF Now
  <2> QED
    BY <2>1, <2>2, Uptime DEF Now
<1> QED
  BY <1>1, <1>2

\* The stopwatch was started at a tick in the past, the kept time is whole
\* milliseconds, and each pause so far has put it ahead or behind by less than
\* the two cuts.
WatchInv ==
    /\ TypeOK
    /\ since <= ticks
    /\ _start_tp = (since * MicrosPerSec) \div TicksPerSec
    /\ (_time_before_pause \div MicrosPerMilli) * MicrosPerMilli
           = _time_before_pause
    /\ _time_before_pause * TicksPerSec - ran * MicrosPerSec
           <= pauses * (TicksPerSec - 1)
    /\ ran * MicrosPerSec - _time_before_pause * TicksPerSec
           <= pauses * (MicrosPerMilli * TicksPerSec - 1)

\* The start is in the past, and both uptimes are cut by less than a unit.
LEMMA Started ==
  ASSUME WatchInv
  PROVE  /\ Now \in Nat /\ _start_tp <= Now
         /\ Now * TicksPerSec <= ticks * MicrosPerSec
         /\ ticks * MicrosPerSec - Now * TicksPerSec <= TicksPerSec - 1
         /\ _start_tp * TicksPerSec <= since * MicrosPerSec
         /\ since * MicrosPerSec - _start_tp * TicksPerSec <= TicksPerSec - 1
<1> DEFINE a == since * MicrosPerSec
           b == ticks * MicrosPerSec
<1>1. a \in Nat /\ b \in Nat /\ a <= b
  <2>1. since \in Nat /\ ticks \in Nat /\ since <= ticks /\ MicrosPerSec \in Nat
    BY UnitsAssumption DEF WatchInv, TypeOK
  <2>2. a <= b
    BY <2>1, Longer
  <2>3. a \in Nat /\ b \in Nat
    BY <2>1, SMTT(30)
  <2> QED
    BY <2>2, <2>3
<1>2. Now = b \div TicksPerSec /\ _start_tp = a \div TicksPerSec
  BY DEF Now, WatchInv
<1> HIDE DEF a, b
<1>3. TicksPerSec \in Nat /\ TicksPerSec > 0
  BY UnitsAssumption
<1>4. /\ Now \in Nat /\ Now * TicksPerSec <= b
      /\ b - Now * TicksPerSec <= TicksPerSec - 1
  BY <1>1, <1>2, <1>3, Cut
<1>5. /\ _start_tp * TicksPerSec <= a
      /\ a - _start_tp * TicksPerSec <= TicksPerSec - 1
  BY <1>1, <1>2, <1>3, Cut
<1>6. _start_tp <= Now
  BY <1>1, <1>2, <1>3, CutMonotone
<1> QED
  BY <1>4, <1>5, <1>6 DEF a, b

\* What the inductive invariant says of the time passed.
LEMMA Passed ==
  ASSUME WatchInv
  PROVE  /\ TimePassed \in Nat /\ get_time \in Nat
         /\ get_time * MicrosPerMilli \in Nat
         /\ get_time * MicrosPerMilli <= TimePassed
         /\ TimePassed - get_time * MicrosPerMilli <= MicrosPerMilli - 1
<1>1. Now \in Nat /\ _start_tp <= Now
  BY Started
<1>2. TimePassed \in Nat
  BY <1>1 DEF WatchInv, TypeOK, TimePassed
<1> QED
  BY <1>2, Cut, UnitsAssumption DEF get_time

\* What a run measured now would be kept as.
LEMMA Measured ==
  ASSUME WatchInv, ~_is_paused
  PROVE  LET k == get_time * MicrosPerMilli
             r == (ran + (ticks - since)) * MicrosPerSec
         IN  /\ k * TicksPerSec - r <= (pauses + 1) * (TicksPerSec - 1)
             /\ r - k * TicksPerSec
                    <= (pauses + 1) * (MicrosPerMilli * TicksPerSec - 1)
<1> DEFINE k == get_time * MicrosPerMilli
<1>1. /\ k \in Nat /\ k <= Now - _start_tp + _time_before_pause
      /\ Now - _start_tp + _time_before_pause - k <= MicrosPerMilli - 1
  <2>1. TimePassed = Now - _start_tp + _time_before_pause
    BY DEF TimePassed
  <2>2. k \in Nat /\ k <= TimePassed /\ TimePassed - k <= MicrosPerMilli - 1
    BY Passed
  <2>3. /\ Now \in Nat /\ _start_tp \in Nat /\ _time_before_pause \in Nat
        /\ MicrosPerMilli \in Nat /\ TimePassed \in Nat
    BY Started, Passed, UnitsAssumption DEF WatchInv, TypeOK
  <2> HIDE DEF k
  <2> QED
    BY <2>1, <2>2, <2>3
<1>2. /\ ticks \in Nat /\ since \in Nat /\ _start_tp \in Nat /\ pauses \in Nat
      /\ _time_before_pause \in Nat /\ ran \in Nat
      /\ _time_before_pause * TicksPerSec - ran * MicrosPerSec
             <= pauses * (TicksPerSec - 1)
      /\ ran * MicrosPerSec - _time_before_pause * TicksPerSec
             <= pauses * (MicrosPerMilli * TicksPerSec - 1)
  BY DEF WatchInv, TypeOK
<1>3. /\ TicksPerSec \in Nat /\ TicksPerSec > 0 /\ MicrosPerSec \in Nat
      /\ MicrosPerMilli \in Nat /\ MicrosPerMilli > 0
  BY UnitsAssumption
<1> HIDE DEF k
<1>4. /\ k * TicksPerSec - (ran + (ticks - since)) * MicrosPerSec
             <= (pauses + 1) * (TicksPerSec - 1)
      /\ (ran + (ticks - since)) * MicrosPerSec - k * TicksPerSec
             <= (pauses + 1) * (MicrosPerMilli * TicksPerSec - 1)
  BY <1>1, <1>2, <1>3, Started, RunMeasured
<1> QED
  BY <1>4 DEF k

\* A stopwatch that has no pause behind it has kept nothing.
LEMMA NothingKept ==
  /\ 0 \div MicrosPerMilli = 0 /\ 0 * MicrosPerMilli = 0
  /\ 0 * TicksPerSec - 0 * MicrosPerSec <= 0 * (TicksPerSec - 1)
  /\ 0 * MicrosPerSec - 0 * TicksPerSec <= 0 * (MicrosPerMilli * TicksPerSec - 1)
<1>1. 0 \div MicrosPerMilli = 0 /\ 0 * MicrosPerMilli = 0
  BY CutWhole, UnitsAssumption
<1>2. /\ TicksPerSec \in Int /\ MicrosPerSec \in Int
      /\ MicrosPerMilli * TicksPerSec \in Int
  BY UnitsAssumption, SMTT(30)
<1>3. \A m \in Int : 0 * m = 0
  OBVIOUS
<1> QED
  BY <1>1, <1>2, <1>3

\* The inductive invariant holds initially.
LEMMA InitWatch == Init => WatchInv
<1> SUFFICES ASSUME Init PROVE WatchInv
  OBVIOUS
<1>1. TypeOK
  <2>1. 0 \in Nat /\ FALSE \in BOOLEAN /\ 0..MaxTicks \subseteq Nat
    BY LimitsAssumption
  <2> QED
    BY <2>1, Zenon DEF Init, TypeOK
<1>2. 0 <= ticks
  BY <1>1 DEF TypeOK
<1>3. 0 = (0 * MicrosPerSec) \div TicksPerSec
  <2>1. 0 * MicrosPerSec = 0 * TicksPerSec
    BY UnitsAssumption
  <2> QED
    BY <2>1, CutWhole, UnitsAssumption
<1> QED
  BY <1>1, <1>2, <1>3, NothingKept DEF Init, WatchInv

\* Every step keeps it.
LEMMA NextWatch == WatchInv /\ [Next]_vars => WatchInv'
<1> SUFFICES ASSUME WatchInv, [Next]_vars PROVE WatchInv'
  OBVIOUS
<1>0. Now \in Nat
  BY Started
<1>1. CASE Tick
  BY <1>1 DEF Tick, WatchInv, TypeOK, watch
<1>2. CASE start
  <2>1. TypeOK'
    BY <1>0, <1>2 DEF start, WatchInv, TypeOK
  <2>2. since' <= ticks' /\ _start_tp' = (since' * MicrosPerSec) \div TicksPerSec
    BY <1>2 DEF start, Now, WatchInv, TypeOK
  <2> QED
    BY <1>2, <2>1, <2>2 DEF start, WatchInv
<1>3. CASE pause
  <2>1. get_time \in Nat /\ _time_before_pause' \in Nat
    BY <1>3, Passed DEF pause
  <2>2. TypeOK'
    BY <1>3, <2>1 DEF pause, WatchInv, TypeOK
  <2>3. (_time_before_pause' \div MicrosPerMilli) * MicrosPerMilli
            = _time_before_pause'
    BY <1>3, <2>1, CutWhole, UnitsAssumption DEF pause
  <2>4. /\ _time_before_pause' = get_time * MicrosPerMilli
        /\ ran' = ran + (ticks - since) /\ pauses' = pauses + 1
        /\ ~_is_paused
    BY <1>3 DEF pause
  <2>5. /\ _time_before_pause' * TicksPerSec - ran' * MicrosPerSec
               <= pauses' * (TicksPerSec - 1)
        /\ ran' * MicrosPerSec - _time_before_pause' * TicksPerSec
               <= pauses' * (MicrosPerMilli * TicksPerSec - 1)
    BY <2>4, Measured
  <2>6. since' <= ticks' /\ _start_tp' = (since' * MicrosPerSec) \div TicksPerSec
    BY <1>3 DEF pause, WatchInv
  <2> QED
    BY <2>2, <2>3, <2>5, <2>6 DEF WatchInv
<1>4. CASE reset
  <2>1. TypeOK'
    BY <1>0, <1>4 DEF reset, WatchInv, TypeOK
  <2>2. since' <= ticks' /\ _start_tp' = (since' * MicrosPerSec) \div TicksPerSec
    BY <1>4 DEF reset, Now, WatchInv, TypeOK
  <2> QED
    BY <1>4, <2>1, <2>2, NothingKept DEF reset, WatchInv
<1>5. CASE UNCHANGED vars
  BY <1>5 DEF vars, watch, WatchInv, TypeOK
<1> QED
  BY <1>1, <1>2, <1>3, <1>4, <1>5 DEF Next

\* The inductive invariant is an invariant of the stopwatch.
THEOREM WatchInvariance == Spec => []WatchInv
  BY InitWatch, NextWatch, PTL DEF Spec

\* Type correctness: no time is ever negative.
THEOREM TypeCorrect == Spec => []TypeOK
  BY WatchInvariance, PTL DEF WatchInv

\* At every tick rate, also one that no whole number of microseconds makes up,
\* the reading is ahead of the time run by less than a microsecond for each
\* run since the reset, and behind it by less than a millisecond for each.
THEOREM Accuracy == Spec => []ReadingBounded
<1>1. WatchInv => ReadingBounded
  <2> SUFFICES ASSUME WatchInv PROVE ReadingBounded
    OBVIOUS
  <2>1. CASE ~_is_paused
    BY <2>1, Measured DEF ReadingBounded, Shown, Exact, TicksRun, Runs
  <2>2. CASE _is_paused
    <3>1. get_time * MicrosPerMilli = _time_before_pause
      BY <2>2 DEF WatchInv, get_time, TimePassed
    <3>2. /\ Shown = _time_before_pause * TicksPerSec
          /\ Exact = ran * MicrosPerSec /\ Runs = pauses
      BY <2>2, <3>1 DEF Shown, Exact, TicksRun, Runs
    <3> QED
      BY <3>2 DEF WatchInv, ReadingBounded
  <2> QED
    BY <2>1, <2>2
<1> QED
  BY <1>1, WatchInvariance, PTL
-----------------------------------------------------------------------------
\* Every step of the stopwatch is a step of the contract, or leaves all that
\* the contract speaks of unchanged.
LEMMA StepRefines == WatchInv /\ WatchInv' /\ [Next]_vars => [Contract!Next]_(Contract!vars)
<1> SUFFICES ASSUME WatchInv, WatchInv', [Next]_vars
             PROVE  [Contract!Next]_(Contract!vars)
  OBVIOUS
<1> DEFINE mark == _time_before_pause \div MicrosPerMilli
<1>0. Now \in Nat /\ _start_tp <= Now
  BY Started
<1>1. CASE Tick
  <2>1. _is_paused' = _is_paused /\ mark' = mark /\ _start_tp' = _start_tp
        /\ _time_before_pause' = _time_before_pause
    BY <1>1 DEF Tick, watch
  <2>2. CASE _is_paused
    <3>1. get_time' = get_time
      BY <2>1, <2>2 DEF get_time, TimePassed
    <3> QED
      BY <2>1, <3>1 DEF Contract!vars
  <2>3. CASE ~_is_paused
    <3>1. Now <= Now' /\ Now' \in Nat
      BY <1>1, NowGrows DEF WatchInv, TypeOK
    <3>2. /\ TimePassed = Now - _start_tp + _time_before_pause
          /\ TimePassed' = Now' - _start_tp + _time_before_pause
      BY <2>1, <2>3 DEF TimePassed
    <3>3. TimePassed \in Nat /\ TimePassed' \in Nat /\ TimePassed <= TimePassed'
      <4>1. _start_tp \in Nat /\ _start_tp <= Now /\ _time_before_pause \in Nat
        BY <1>0 DEF WatchInv, TypeOK
      <4> QED
        BY <1>0, <3>1, <3>2, <4>1, PassedGrows
    <3>4. get_time' \in Nat /\ get_time <= get_time'
      <4>1. get_time = TimePassed \div MicrosPerMilli
            /\ get_time' = TimePassed' \div MicrosPerMilli
            /\ MicrosPerMilli \in Nat /\ MicrosPerMilli > 0
        BY UnitsAssumption DEF get_time
      <4> HIDE DEF mark
      <4> QED
        BY <3>3, <4>1, Cut, CutMonotone
    <3> QED
      BY <2>1, <2>3, <3>4 DEF Contract!Next, Contract!Pass
  <2> QED
    BY <2>2, <2>3
<1>2. CASE start
  <2>1. Now' = Now /\ _time_before_pause' = _time_before_pause
        /\ _start_tp' = Now /\ ~_is_paused'
    BY <1>2 DEF start, Now
  <2>2. TimePassed' = _time_before_pause
    BY <1>0, <2>1 DEF TimePassed, WatchInv, TypeOK
  <2>3. get_time' = mark /\ mark' = mark
    BY <2>1, <2>2 DEF get_time
  <2> QED
    BY <2>1, <2>3 DEF Contract!Next, Contract!Start
<1>3. CASE pause
  <2>1. get_time \in Nat
    BY Passed
  <2>2. _time_before_pause' = get_time * MicrosPerMilli /\ _is_paused'
    BY <1>3 DEF pause
  <2>3. mark' = get_time
    BY <2>1, <2>2, CutWhole, UnitsAssumption
  <2>4. get_time' = mark'
    BY <2>2 DEF get_time, TimePassed
  <2> QED
    BY <2>2, <2>3, <2>4 DEF Contract!Next, Contract!Pause
<1>4. CASE reset
  <2>1. Now' = Now /\ _time_before_pause' = 0 /\ _start_tp' = Now /\ ~_is_paused'
    BY <1>4 DEF reset, Now
  <2>2. TimePassed' = 0
    BY <1>0, <2>1 DEF TimePassed
  <2>3. 0 \div MicrosPerMilli = 0
    BY CutWhole, UnitsAssumption
  <2>4. get_time' = 0 /\ mark' = 0
    BY <2>1, <2>2, <2>3 DEF get_time
  <2> QED
    BY <2>1, <2>4 DEF Contract!Next, Contract!Reset
<1>5. CASE UNCHANGED vars
  BY <1>5 DEF vars, watch, Contract!vars, get_time, TimePassed, Now
<1> QED
  BY <1>1, <1>2, <1>3, <1>4, <1>5 DEF Next

\* The stopwatch implements IStopwatch, at every tick rate: pausing and
\* resuming never move the reading, although pause() stores a cut value.
THEOREM Refinement == Spec => KeepsContract
<1>1. Init => Contract!Init
  <2> SUFFICES ASSUME Init PROVE Contract!Init
    OBVIOUS
  <2>1. get_time \in Nat
    BY InitWatch, Passed
  <2>2. _time_before_pause \div MicrosPerMilli = 0
    BY CutWhole, UnitsAssumption DEF Init
  <2> QED
    BY <2>1, <2>2 DEF Init, Contract!Init
<1> QED
  BY <1>1, StepRefines, WatchInvariance, PTL DEF Spec, KeepsContract, Contract!Spec
-----------------------------------------------------------------------------
(* TypeState, for any number of objects, copies and refusals of the driver. *)

\* Before a fork there is one object at most that can use the pin; the number
\* of those that can is what RightsHandedOn says.
Alone == forked = 0 => \A x, y \in Users : x = y

PinInv == PinTypeOK /\ Alone /\ UsesFitState /\ RightsHandedOn

\* The objects that can use the pin can be counted.
LEMMA UsersFinite == IsFiniteSet(Users) /\ Cardinality(Users) \in Nat
  BY HandlesAssumption, FS_Subset, FS_CardinalityType DEF Users

\* One more of them, and one less.
LEMMA OneMoreUser ==
  ASSUME NEW g, g \notin Users
  PROVE  Cardinality(Users \cup {g}) = Cardinality(Users) + 1
  BY UsersFinite, FS_AddElement

LEMMA OneUserLess ==
  ASSUME NEW h \in Users
  PROVE  /\ IsFiniteSet(Users \ {h})
         /\ Cardinality(Users \ {h}) = Cardinality(Users) - 1
         /\ Cardinality(Users) - 1 \in Nat
<1>1. /\ IsFiniteSet(Users \ {h})
      /\ Cardinality(Users \ {h}) = Cardinality(Users) - 1
  BY UsersFinite, FS_RemoveElement
<1>2. Cardinality(Users \ {h}) \in Nat
  BY <1>1, FS_CardinalityType
<1> QED
  BY <1>1, <1>2

LEMMA InitPin == PinInit => PinInv
<1> SUFFICES ASSUME PinInit PROVE PinInv
  OBVIOUS
<1>1. PinTypeOK
  BY DEF PinInit, PinTypeOK, Gpio
<1>2. Users = {}
  <2>1. Nothing.has_been_configured = 1
    BY DEF Nothing
  <2>2. \A h \in Handles : handle[h] = Nothing
    BY DEF PinInit
  <2> QED
    BY <2>1, <2>2 DEF Users, Unspent
<1>3. UsesFitState
  BY <1>2 DEF PinInit, UsesFitState
<1>4. RightsHandedOn
  BY <1>2, FS_EmptySet DEF PinInit, RightsHandedOn
<1> QED
  BY <1>1, <1>2, <1>3, <1>4 DEF PinInv, Alone

\* A new object is one of the three.
LEMMA FreshType ==
  ASSUME NEW type \in Modes
  PROVE  Fresh(type) \in Gpio /\ Fresh(type).has_been_configured = 0
         /\ Fresh(type).type = type
  BY DEF Fresh, Gpio

\* An empty place cannot use the pin.
LEMMA EmptyPlace ==
  ASSUME NEW g \in Handles, handle[g] = Nothing
  PROVE  g \notin Users
  BY DEF Users, Unspent, Nothing

\* Steps after which no object can be used that could not be used before.
LEMMA FewerUsers ==
  ASSUME PinInv, PinTypeOK', RightsHandedOn', UNCHANGED <<mode, refused, forked>>,
         Users' \subseteq Users, \A x \in Users' : handle'[x] = handle[x],
         forked = 0 /\ refused = 0 =>
             read' \in {"input", "nullopt"} /\ driven' \in {"output", "nullopt"}
  PROVE  PinInv'
<1>1. Alone'
  BY DEF PinInv, Alone
<1>2. UsesFitState'
  BY DEF PinInv, UsesFitState
<1> QED
  BY <1>1, <1>2 DEF PinInv

\* Opening the pin makes an object that can use it.
LEMMA OpenInv ==
  ASSUME PinInv, NEW h \in Handles, Open(h)
  PROVE  PinInv'
<1>1. /\ handle' = [handle EXCEPT ![h] = Fresh("unconfigured")]
      /\ level' = level /\ grants' = grants + 1
      /\ h \notin Users
  BY EmptyPlace DEF Open
<1>2. /\ mode' \in {mode, "unconfigured"} /\ refused' \in {0, 1}
      /\ refused' = 0 => mode' = "unconfigured"
      /\ read' = "nullopt" /\ driven' = "nullopt"
  BY DEF Open, Configured
<1>3. forked' \in {forked, 1} /\ (forked' = 0 => Users = {})
  BY DEF Open
<1>4. "unconfigured" \in Modes
  BY DEF Modes
<1>5. PinTypeOK'
  BY <1>1, <1>2, <1>3, <1>4, FreshType DEF PinInv, PinTypeOK
<1>6. Users' = Users \cup {h}
  BY <1>1, <1>4, FreshType DEF PinInv, PinTypeOK, Users, Unspent
<1>7. handle'[h].type = "unconfigured"
  BY <1>1, <1>4, FreshType DEF PinInv, PinTypeOK
<1>8. Alone'
  BY <1>3, <1>6 DEF Alone
<1>9. UsesFitState'
  BY <1>2, <1>3, <1>6, <1>7 DEF UsesFitState
<1>10. RightsHandedOn'
  <2>1. Cardinality(Users') = Cardinality(Users) + 1
    BY <1>1, <1>6, OneMoreUser
  <2> QED
    BY <1>1, <2>1 DEF PinInv, RightsHandedOn
<1> QED
  BY <1>5, <1>8, <1>9, <1>10 DEF PinInv

\* The pin goes from one object to the other.
LEMMA ConfigureInv ==
  ASSUME PinInv, NEW h \in Handles, NEW g \in Handles,
         NEW type \in {"input", "output"}, Configure(h, g, type)
  PROVE  PinInv'
<1>1. /\ handle[h].type \in Modes \ {type} /\ Unspent(h) /\ handle[g] = Nothing
      /\ handle' = [handle EXCEPT ![h].has_been_configured = 1, ![g] = Fresh(type)]
      /\ UNCHANGED <<level, forked, grants>>
  BY DEF Configure
<1>2. /\ mode' \in {mode, type} /\ refused' \in {0, 1}
      /\ refused' = 0 => mode' = type
      /\ read' = "nullopt" /\ driven' = "nullopt"
  BY DEF Configure, Configured
<1>3. type \in Modes
  BY DEF Modes
<1>4. h \in Users /\ g \notin Users /\ h # g
  BY <1>1, EmptyPlace DEF Users
<1>5. handle[h] \in Gpio
  BY <1>1 DEF PinInv, PinTypeOK, Unspent, Nothing
<1>6. [handle[h] EXCEPT !.has_been_configured = 1] \in Gpio
      /\ [handle[h] EXCEPT !.has_been_configured = 1].has_been_configured = 1
  BY <1>5 DEF Gpio
<1>7. /\ handle'[g] = Fresh(type)
      /\ handle'[h] = [handle[h] EXCEPT !.has_been_configured = 1]
      /\ \A x \in Handles \ {h, g} : handle'[x] = handle[x]
  BY <1>1, <1>4 DEF PinInv, PinTypeOK
<1>8. handle' \in [Handles -> Gpio \cup {Nothing}]
  BY <1>1, <1>3, <1>6, FreshType DEF PinInv, PinTypeOK
<1>9. PinTypeOK'
  BY <1>1, <1>2, <1>3, <1>8 DEF PinInv, PinTypeOK
<1>10. Users' = (Users \ {h}) \cup {g}
  <2>1. Unspent(g)' /\ ~Unspent(h)'
    BY <1>3, <1>6, <1>7, FreshType DEF Unspent
  <2>2. \A x \in Handles \ {h, g} : Unspent(x)' <=> Unspent(x)
    BY <1>7 DEF Unspent
  <2>3. Users' = {x \in Handles : Unspent(x)'}
    BY DEF Users
  <2> QED
    BY <1>4, <2>1, <2>2, <2>3 DEF Users
<1>11. Alone' /\ (forked = 0 => Users' = {g})
  BY <1>1, <1>4, <1>10 DEF PinInv, Alone
<1>12. UsesFitState'
  BY <1>1, <1>2, <1>3, <1>7, <1>11, FreshType DEF UsesFitState
<1>13. RightsHandedOn'
  <2> DEFINE rest == Users \ {h}
  <2>1. /\ IsFiniteSet(rest) /\ Cardinality(rest) = Cardinality(Users) - 1
        /\ g \notin rest
    BY <1>4, OneUserLess
  <2>2. Cardinality(rest \cup {g}) = Cardinality(rest) + 1
    BY <2>1, FS_AddElement
  <2>3. Cardinality(Users') = Cardinality(Users)
    BY <1>10, <2>1, <2>2, UsersFinite
  <2> QED
    BY <1>1, <2>3 DEF PinInv, RightsHandedOn
<1> QED
  BY <1>9, <1>11, <1>12, <1>13 DEF PinInv

\* A copy of a spent object is spent; a copy of another is a fork.
LEMMA CopyInv ==
  ASSUME PinInv, NEW h \in Handles, NEW g \in Handles, Copy(h, g)
  PROVE  PinInv'
<1>1. /\ handle' = [handle EXCEPT ![g] = handle[h]]
      /\ forked' = IF Unspent(h) THEN 1 ELSE forked
      /\ grants' = IF Unspent(h) THEN grants + 1 ELSE grants
      /\ UNCHANGED <<mode, level, read, driven, refused>>
      /\ g \notin Users
  BY EmptyPlace DEF Copy
<1>2. PinTypeOK'
  BY <1>1 DEF PinInv, PinTypeOK
<1>3. CASE Unspent(h)
  <2>1. Users' = Users \cup {g}
    BY <1>1, <1>3 DEF PinInv, PinTypeOK, Users, Unspent
  <2>2. Cardinality(Users') = Cardinality(Users) + 1
    BY <1>1, <2>1, OneMoreUser
  <2>3. RightsHandedOn'
    BY <1>1, <1>3, <2>2 DEF PinInv, RightsHandedOn
  <2> QED
    BY <1>1, <1>2, <1>3, <2>3 DEF PinInv, Alone, UsesFitState
<1>4. CASE ~Unspent(h)
  <2>1. Users' = Users /\ \A x \in Users : handle'[x] = handle[x]
    BY <1>1, <1>4 DEF PinInv, PinTypeOK, Users, Unspent
  <2>2. RightsHandedOn'
    BY <1>1, <1>4, <2>1 DEF PinInv, RightsHandedOn
  <2> QED
    BY <1>1, <1>2, <1>4, <2>1, <2>2, FewerUsers DEF PinInv, UsesFitState
<1> QED
  BY <1>3, <1>4

\* Reading and driving happen in the state of the object that is used.
LEMMA UseInv ==
  ASSUME PinInv, NEW h \in Handles, NEW to \in {"low", "high"},
         get_state(h) \/ set_state(h, to)
  PROVE  PinInv'
<1>1. UNCHANGED <<mode, handle, refused, forked, grants>>
  BY DEF get_state, set_state
<1>2. PinTypeOK'
  BY DEF get_state, set_state, PinInv, PinTypeOK
<1>3. Users' = Users /\ RightsHandedOn'
  BY <1>1 DEF PinInv, RightsHandedOn, Users, Unspent
<1>4. ASSUME forked = 0, refused = 0
      PROVE  read' \in {"input", "nullopt"} /\ driven' \in {"output", "nullopt"}
  <2>1. Unspent(h) => handle[h].type = mode
    BY <1>4 DEF PinInv, UsesFitState, Users
  <2>2. read \in {"input", "nullopt"} /\ driven \in {"output", "nullopt"}
    BY <1>4 DEF PinInv, UsesFitState
  <2> QED
    BY <2>1, <2>2 DEF get_state, set_state
<1> QED
  BY <1>1, <1>2, <1>3, <1>4, FewerUsers

\* The right to use the pin goes out of scope with the object that had it.
LEMMA DropInv ==
  ASSUME PinInv, NEW h \in Handles, Drop(h)
  PROVE  PinInv'
<1>1. /\ handle' = [handle EXCEPT ![h] = Nothing]
      /\ grants' = IF Unspent(h) THEN grants - 1 ELSE grants
      /\ UNCHANGED <<mode, level, read, driven, refused, forked>>
  BY DEF Drop
<1>2. Users' = Users \ {h} /\ \A x \in Users' : handle'[x] = handle[x]
  BY <1>1 DEF PinInv, PinTypeOK, Users, Unspent, Nothing
<1>3. grants' \in Nat /\ RightsHandedOn'
  <2>1. CASE Unspent(h)
    <3>1. h \in Users
      BY <2>1 DEF Users
    <3> QED
      BY <1>1, <1>2, <2>1, <3>1, OneUserLess DEF PinInv, RightsHandedOn
  <2>2. CASE ~Unspent(h)
    <3>1. Users' = Users
      BY <1>2, <2>2 DEF Users
    <3> QED
      BY <1>1, <2>2, <3>1 DEF PinInv, PinTypeOK, RightsHandedOn
  <2> QED
    BY <2>1, <2>2
<1>4. PinTypeOK'
  BY <1>1, <1>3 DEF PinInv, PinTypeOK
<1> QED
  BY <1>1, <1>2, <1>3, <1>4, FewerUsers DEF PinInv, UsesFitState

LEMMA RestInv ==
  ASSUME PinInv, Outside \/ UNCHANGED pinVars
  PROVE  PinInv'
<1>1. UNCHANGED <<mode, handle, refused, read, driven, forked, grants>>
  BY DEF Outside, pinVars
<1>2. PinTypeOK'
  BY DEF Outside, pinVars, PinInv, PinTypeOK
<1>3. Users' = Users /\ RightsHandedOn'
  BY <1>1 DEF PinInv, RightsHandedOn, Users, Unspent
<1> QED
  BY <1>1, <1>2, <1>3, FewerUsers DEF PinInv, UsesFitState

LEMMA NextPin == PinInv /\ [PinNext]_pinVars => PinInv'
  BY OpenInv, ConfigureInv, CopyInv, UseInv, DropInv, RestInv DEF PinNext

\* The state of the pin and the objects stay together.
THEOREM PinInvariance == PinSpec => []PinInv
  BY InitPin, NextPin, PTL DEF PinSpec

\* Every variable keeps its type.
THEOREM PinTypes == PinSpec => []PinTypeOK
<1>1. PinInv => PinTypeOK
  BY DEF PinInv
<1> QED
  BY <1>1, PinInvariance, PTL

\* However the pin is opened and its objects are copied, a configuration makes
\* no second right to use it.
THEOREM RightsMoved == PinSpec => []RightsHandedOn
<1>1. PinInv => RightsHandedOn
  BY DEF PinInv
<1> QED
  BY <1>1, PinInvariance, PTL

\* Old objects never use the pin in another state than the one they stand for:
\* what it takes is a fork of an unspent object or a driver that refuses.
THEOREM StateInType == PinSpec => []UsesFitState
<1>1. PinInv => UsesFitState
  BY DEF PinInv
<1> QED
  BY <1>1, PinInvariance, PTL
-----------------------------------------------------------------------------
(* LoadCell, for any number of threads, any loads that the buffer can hold *)
(* and any number of changes.                                              *)

CellTypes ==
    /\ obj \in {"is_ready", "setup", "alive", "failed"} /\ channel \in BOOLEAN
    /\ obj = "alive" => channel
    /\ loads \in Seq(Loads) /\ Len(loads) # 0
    /\ pc \in [Threads -> {"idle", "called", "sampling", "read", "returned"}]
    /\ weight \in [Threads -> Int]
    /\ began \in [Threads -> Nat]

\* A call began when there was a load.
Dated(t) ==
    pc[t] # "idle" => obj = "alive" /\ began[t] \in 1..Len(loads)

\* Whoever filled the buffer that t is about to use has done so since t called:
\* every conversion ends with the last load.
Filled(t) ==
    pc[t] = "read" => \E n \in began[t]..Len(loads) : _buffer = loads[n] % Word

CellInv == CellTypes /\ WeightWasThere /\ \A t \in Threads : Dated(t) /\ Filled(t)

\* A load that is not negative stays what it is in the buffer.
LEMMA Unsigned ==
  ASSUME NEW load \in Loads
  PROVE  load < 0 \/ load % Word = load
<1>1. load \in Int /\ load < Word /\ Word \in Nat \ {0}
  BY ConverterAssumption
<1> QED
  BY <1>1

LEMMA InitCell == CellInit => CellInv
<1> SUFFICES ASSUME CellInit PROVE CellInv
  OBVIOUS
<1>1. PICK load \in Loads : loads = <<load>>
  BY DEF CellInit
<1>2. loads \in Seq(Loads) /\ Len(loads) # 0
  BY <1>1
<1>3. \A t \in Threads : pc[t] = "idle"
  BY DEF CellInit
<1>4. CellTypes
  <2>1. /\ pc \in [Threads -> {"idle", "called", "sampling", "read", "returned"}]
        /\ weight \in [Threads -> Int] /\ began \in [Threads -> Nat]
    BY DEF CellInit, None
  <2>2. obj = "is_ready" /\ channel = FALSE
    BY DEF CellInit
  <2> QED
    BY <1>2, <2>1, <2>2 DEF CellTypes
<1> QED
  BY <1>3, <1>4 DEF CellInv, Dated, Filled, WeightWasThere

\* Steps of one thread that leave the loads alone; what the others have is theirs.
LEMMA OthersKeep ==
  ASSUME CellInv, NEW t \in Threads, loads' = loads, obj' = obj, _buffer' = _buffer,
         \A u \in Threads \ {t} : pc'[u] = pc[u] /\ weight'[u] = weight[u] /\ began'[u] = began[u],
         CellTypes', Dated(t)', Filled(t)',
         pc'[t] = "returned" =>
             \E n \in began'[t]..Len(loads) : weight'[t] = Millivolts(loads[n]) \/ loads[n] < 0
  PROVE  CellInv'
<1>1. ASSUME NEW u \in Threads PROVE Dated(u)' /\ Filled(u)'
  BY DEF CellInv, Dated, Filled
<1>2. WeightWasThere'
  BY DEF CellInv, WeightWasThere
<1> QED
  BY <1>1, <1>2 DEF CellInv

LEMMA ChangeLoadInv == ASSUME CellInv, ChangeLoad PROVE CellInv'
<1>1. PICK load \in Loads : loads' = Append(loads, load)
  BY DEF ChangeLoad
<1>2. loads \in Seq(Loads)
  BY DEF CellInv, CellTypes
<1>3. /\ Len(loads) \in Nat /\ loads' \in Seq(Loads) /\ Len(loads') = Len(loads) + 1
      /\ \A n \in 1..Len(loads) : loads'[n] = loads[n]
  BY <1>1, <1>2, AppendProperties, LenProperties
<1>4. UNCHANGED <<obj, channel, adc, _buffer, pc, weight, began>>
  BY DEF ChangeLoad, object
<1>5. CellTypes'
  BY <1>3, <1>4 DEF CellInv, CellTypes
<1>6. ASSUME NEW t \in Threads, pc[t] # "idle"
      PROVE  /\ began[t] \in 1..Len(loads')
             /\ \A n \in began[t]..Len(loads) : n \in began[t]..Len(loads') /\ loads'[n] = loads[n]
  <2>1. began[t] \in 1..Len(loads)
    BY <1>6 DEF CellInv, Dated
  <2> QED
    BY <1>3, <2>1
<1>7. ASSUME NEW t \in Threads PROVE Dated(t)' /\ Filled(t)'
  BY <1>4, <1>6 DEF CellInv, Dated, Filled
<1>8. WeightWasThere'
  <2> SUFFICES ASSUME NEW t \in Threads, pc[t] = "returned"
               PROVE  \E n \in began[t]..Len(loads') :
                          weight[t] = Millivolts(loads'[n]) \/ loads'[n] < 0
    BY <1>4 DEF WeightWasThere
  <2>1. PICK n \in began[t]..Len(loads) : weight[t] = Millivolts(loads[n]) \/ loads[n] < 0
    BY DEF CellInv, WeightWasThere
  <2> QED
    BY <1>6, <2>1
<1> QED
  BY <1>5, <1>7, <1>8 DEF CellInv

\* The conversion of a thread changes what the others find in the buffer, to
\* the last load.
LEMMA EndReadInv == ASSUME CellInv, NEW t \in Threads, EndRead(t) PROVE CellInv'
<1>1. /\ pc[t] = "sampling" /\ obj = "alive" /\ channel /\ began[t] \in 1..Len(loads)
      /\ UNCHANGED <<obj, channel, weight, loads, began>>
      /\ \/ _buffer' = loads[Len(loads)] % Word /\ pc' = [pc EXCEPT ![t] = "read"]
         \/ pc' = [pc EXCEPT ![t] = "idle"] /\ UNCHANGED _buffer
  BY DEF EndRead, CellInv, CellTypes, Dated, object
<1>2. Len(loads) \in Nat
  BY LenProperties DEF CellInv, CellTypes
<1>3. CellTypes'
  BY <1>1 DEF CellInv, CellTypes
<1>4. ASSUME NEW u \in Threads PROVE Dated(u)' /\ Filled(u)'
  <2>1. Dated(u)'
    BY <1>1 DEF CellInv, CellTypes, Dated
  <2>2. CASE _buffer' = loads[Len(loads)] % Word
    <3>1. pc'[u] = "read" => began[u] \in 1..Len(loads)
      <4>1. CASE u = t
        BY <1>1, <4>1
      <4>2. CASE u # t
        BY <1>1, <4>2 DEF CellInv, CellTypes, Dated
      <4> QED
        BY <4>1, <4>2
    <3>2. pc'[u] = "read" => Len(loads) \in began[u]..Len(loads)
      BY <1>2, <3>1
    <3>3. began' = began /\ loads' = loads
      BY <1>1
    <3> QED
      BY <2>1, <2>2, <3>2, <3>3 DEF Filled
  <2>3. CASE pc' = [pc EXCEPT ![t] = "idle"] /\ UNCHANGED _buffer
    <3>1. pc'[u] = "read" => pc[u] = "read"
      BY <2>3 DEF CellInv, CellTypes
    <3>2. began' = began /\ loads' = loads /\ _buffer' = _buffer
      BY <1>1, <2>3
    <3> QED
      BY <2>1, <3>1, <3>2 DEF CellInv, Filled
  <2> QED
    BY <1>1, <2>2, <2>3
<1>5. WeightWasThere'
  BY <1>1 DEF CellInv, CellTypes, WeightWasThere
<1> QED
  BY <1>3, <1>4, <1>5 DEF CellInv

LEMMA ConvertInv == ASSUME CellInv, NEW t \in Threads, Convert(t) PROVE CellInv'
<1>1. /\ pc[t] = "read" /\ UNCHANGED <<obj, channel, adc, _buffer, loads, began>>
      /\ \/ pc' = [pc EXCEPT ![t] = "idle"] /\ UNCHANGED weight
         \/ /\ pc' = [pc EXCEPT ![t] = "returned"]
            /\ weight' = [weight EXCEPT ![t] = Millivolts(_buffer)]
  BY DEF Convert, object
<1>2. PICK n \in began[t]..Len(loads) : _buffer = loads[n] % Word
  BY <1>1 DEF CellInv, Filled
<1>3. n \in 1..Len(loads) /\ loads[n] \in Loads
  <2>1. began[t] \in 1..Len(loads) /\ Len(loads) \in Nat
    BY <1>1, LenProperties DEF CellInv, CellTypes, Dated
  <2>2. n \in 1..Len(loads)
    BY <2>1
  <2> QED
    BY <2>2, ElementOfSeq DEF CellInv, CellTypes
<1>4. loads[n] < 0 \/ _buffer = loads[n]
  BY <1>2, <1>3, Unsigned
<1>5. Millivolts(_buffer) \in Int
  <2>1. _buffer \in Int /\ Reference \in Int /\ Scale \in Nat \ {0}
    BY <1>2, <1>3, ConverterAssumption
  <2>2. _buffer * Reference \in Int
    BY <2>1
  <2> QED
    BY <2>1, <2>2 DEF Millivolts
<1>6. CellTypes'
  BY <1>1, <1>5 DEF CellInv, CellTypes
<1>7. Dated(t)' /\ Filled(t)'
  BY <1>1 DEF CellInv, CellTypes, Dated, Filled
<1>8. pc'[t] = "returned" => weight'[t] = Millivolts(_buffer)
  BY <1>1 DEF CellInv, CellTypes
<1>9. \A u \in Threads \ {t} : pc'[u] = pc[u] /\ weight'[u] = weight[u] /\ began'[u] = began[u]
  BY <1>1 DEF CellInv, CellTypes
<1>10. pc'[t] = "returned" =>
          \E i \in began'[t]..Len(loads) : weight'[t] = Millivolts(loads[i]) \/ loads[i] < 0
  BY <1>1, <1>4, <1>8
<1> QED
  BY <1>1, <1>6, <1>7, <1>9, <1>10, OthersKeep

LEMMA NextCell == CellInv /\ [CellNext]_cellVars => CellInv'
<1> SUFFICES ASSUME CellInv, [CellNext]_cellVars PROVE CellInv'
  OBVIOUS
<1>1. CASE UNCHANGED cellVars
  BY <1>1 DEF cellVars, object, CellInv, CellTypes, Dated, Filled, WeightWasThere
<1>2. CASE ChangeLoad
  BY <1>2, ChangeLoadInv
<1>3. CASE IsReady \/ Setup
  <2>1. /\ obj # "alive" /\ UNCHANGED <<_buffer, pc, weight, loads, began>>
        /\ obj' \in {"setup", "alive", "failed"} /\ channel' \in {channel, TRUE}
        /\ obj' = "alive" => channel'
    BY <1>3 DEF IsReady, Setup
  <2>2. CellTypes'
    BY <2>1 DEF CellInv, CellTypes
  <2>3. \A t \in Threads : Dated(t)' /\ Filled(t)'
    BY <2>1 DEF CellInv, Dated, Filled
  <2>4. WeightWasThere'
    BY <2>1 DEF CellInv, WeightWasThere
  <2> QED
    BY <2>2, <2>3, <2>4 DEF CellInv
<1>4. ASSUME NEW t \in Threads, Call(t) PROVE CellInv'
  <2>1. Len(loads) \in Nat \ {0}
    BY LenProperties DEF CellInv, CellTypes
  <2>2. CellTypes' /\ Dated(t)' /\ Filled(t)' /\ pc'[t] # "returned"
    BY <1>4, <2>1 DEF Call, object, CellInv, CellTypes, Dated, Filled
  <2>3. \A u \in Threads \ {t} : pc'[u] = pc[u] /\ weight'[u] = weight[u] /\ began'[u] = began[u]
    BY <1>4 DEF Call, CellInv, CellTypes
  <2> QED
    BY <1>4, <2>2, <2>3, OthersKeep DEF Call, object
<1>5. ASSUME NEW t \in Threads, StartRead(t) PROVE CellInv'
  <2>1. CellTypes' /\ Dated(t)' /\ Filled(t)' /\ pc'[t] # "returned"
    BY <1>5 DEF StartRead, object, CellInv, CellTypes, Dated, Filled
  <2>2. \A u \in Threads \ {t} : pc'[u] = pc[u] /\ weight'[u] = weight[u] /\ began'[u] = began[u]
    BY <1>5 DEF StartRead, CellInv, CellTypes
  <2> QED
    BY <1>5, <2>1, <2>2, OthersKeep DEF StartRead, object
<1> QED
  BY <1>1, <1>2, <1>3, <1>4, <1>5, EndReadInv, ConvertInv DEF CellNext, get_weight_grams

\* A weight that a thread gets was on the cell during its own call, although
\* every thread fills the same buffer.
THEOREM WeighedDuringCall == CellSpec => []WeightWasThere
<1>1. CellInv => WeightWasThere
  BY DEF CellInv
<1> QED
  BY <1>1, InitCell, NextCell, PTL DEF CellSpec
-----------------------------------------------------------------------------
(* ErrorCodes, for any raw numbers.                                        *)

\* No enumerator is zero, each has a case in its category's switch, and the
\* case names a SubsystemError.
LEMMA Mapped ==
  ASSUME NEW category \in Subsystems
  PROVE  /\ DOMAIN Category(category) = DOMAIN Enum(category)
         /\ \A name \in DOMAIN Enum(category) :
                /\ Enum(category)[name] # 0
                /\ Category(category)[name] \in DOMAIN SubsystemError
<1>1. \A c \in Subsystems : \A n \in DOMAIN Enum(c) : Enum(c)[n] # 0
  BY DEF Subsystems, Enum, FlightsErrc, Flights2Errc, SeatsErrc
<1>2. \A c \in Subsystems : \A n \in DOMAIN Enum(c) :
          Category(c)[n] \in DOMAIN SubsystemError
  BY DEF Subsystems, Enum, FlightsErrc, Flights2Errc, SeatsErrc, SubsystemError,
         Category, FlightsErrCategory, Flights2ErrCategory, SeatsErrCategory
<1>3. \A c \in Subsystems : DOMAIN Category(c) = DOMAIN Enum(c)
  BY DEF Subsystems, Enum, FlightsErrc, Flights2Errc, SeatsErrc,
         Category, FlightsErrCategory, Flights2ErrCategory, SeatsErrCategory
<1> QED
  BY <1>1, <1>2, <1>3

\* Nor is any condition that a code can be found equal to.
LEMMA NoConditionZero ==
  ASSUME NEW q \in Questions, NEW c \in Members(q)
  PROVE  c.value # 0
<1>1. /\ \A n \in DOMAIN SubsystemError : SubsystemError[n] # 0
      /\ \A n \in DOMAIN FailureSource : FailureSource[n] # 0
      /\ \A n \in DOMAIN Severity : Severity[n] # 0
  <2>1. \A n \in DOMAIN SubsystemError : SubsystemError[n] # 0
    BY DEF SubsystemError
  <2>2. \A n \in DOMAIN FailureSource : FailureSource[n] # 0
    BY DEF FailureSource
  <2>3. \A n \in DOMAIN Severity : Severity[n] # 0
    BY DEF Severity
  <2> QED
    BY <2>1, <2>2, <2>3
<1>2. PICK n \in DOMAIN Enum(q) : c = Make(q, n)
  BY DEF Members
<1>3. c.value = Enum(q)[n]
  BY <1>2 DEF Make
<1>4. Enum(q) \in {SubsystemError, FailureSource, Severity}
  BY DEF Questions, Enum
<1> QED
  BY <1>1, <1>2, <1>3, <1>4

\* Two conditions of one question have different numbers.
LEMMA Distinct ==
  ASSUME NEW q \in Questions, NEW a \in DOMAIN Enum(q), NEW b \in DOMAIN Enum(q),
         Make(q, a) = Make(q, b)
  PROVE  a = b
<1>1. /\ \A x, y \in DOMAIN SubsystemError : SubsystemError[x] = SubsystemError[y] => x = y
      /\ \A x, y \in DOMAIN FailureSource : FailureSource[x] = FailureSource[y] => x = y
      /\ \A x, y \in DOMAIN Severity : Severity[x] = Severity[y] => x = y
  <2>1. \A x, y \in DOMAIN SubsystemError : SubsystemError[x] = SubsystemError[y] => x = y
    BY DEF SubsystemError
  <2>2. \A x, y \in DOMAIN FailureSource : FailureSource[x] = FailureSource[y] => x = y
    BY DEF FailureSource
  <2>3. \A x, y \in DOMAIN Severity : Severity[x] = Severity[y] => x = y
    BY DEF Severity
  <2> QED
    BY <2>1, <2>2, <2>3
<1>2. Enum(q)[a] = Enum(q)[b]
  BY DEF Make
<1>3. Enum(q) \in {SubsystemError, FailureSource, Severity}
  BY DEF Questions, Enum
<1> QED
  BY <1>1, <1>2, <1>3

\* Every subsystem error is of one source and of one severity, which is normal
\* when the source is not the system.
LEMMA OnePlace ==
  ASSUME NEW name \in DOMAIN SubsystemError
  PROVE  /\ \E k \in DOMAIN Source :
                name \in Source[k] /\ \A j \in DOMAIN Source : name \in Source[j] => j = k
         /\ \E k \in DOMAIN Level :
                name \in Level[k] /\ \A j \in DOMAIN Level : name \in Level[j] => j = k
         /\ name \in Level["Normal"] <=> name \notin Source["SystemError"]
<1>1. \A n \in DOMAIN SubsystemError : \E k \in DOMAIN Source :
          n \in Source[k] /\ \A j \in DOMAIN Source : n \in Source[j] => j = k
  BY DEF SubsystemError, Source
<1>2. \A n \in DOMAIN SubsystemError : \E k \in DOMAIN Level :
          n \in Level[k] /\ \A j \in DOMAIN Level : n \in Level[j] => j = k
  BY DEF SubsystemError, Level
<1>3. \A n \in DOMAIN SubsystemError : n \in Level["Normal"] <=> n \notin Source["SystemError"]
  BY DEF SubsystemError, Level, Source
<1> QED
  BY <1>1, <1>2, <1>3

\* The tables name subsystem errors only.
LEMMA Tables ==
  /\ DOMAIN Source = DOMAIN FailureSource /\ DOMAIN Level = DOMAIN Severity
  /\ \A k \in DOMAIN Source : Source[k] \subseteq DOMAIN SubsystemError
  /\ \A k \in DOMAIN Level : Level[k] \subseteq DOMAIN SubsystemError
<1>1. DOMAIN Source = DOMAIN FailureSource /\ DOMAIN Level = DOMAIN Severity
  BY DEF Source, Level, FailureSource, Severity
<1>2. \A k \in DOMAIN Source : Source[k] \subseteq DOMAIN SubsystemError
  BY DEF Source, SubsystemError
<1>3. \A k \in DOMAIN Level : Level[k] \subseteq DOMAIN SubsystemError
  BY DEF Level, SubsystemError
<1> QED
  BY <1>1, <1>2, <1>3

\* What the categories are called: a condition's is its question.
LEMMA Called ==
  /\ \A q \in Questions : \A n : Make(q, n).category = q
  /\ \A q \in Questions : \A c \in Members(q) : c.category = q
  /\ Success.category \notin Questions \cup Subsystems
  /\ Questions \cap Subsystems = {}
<1>1. /\ Success.category \notin Questions \cup Subsystems
      /\ Questions \cap Subsystems = {}
  BY DEF Success, Questions, Subsystems
<1>2. \A q \in Questions : \A n : Make(q, n).category = q
  BY DEF Make
<1> QED
  BY <1>1, <1>2 DEF Members

\* A code of a subsystem that is recognised has one subsystem error.
LEMMA Condition ==
  ASSUME NEW code, code.category \in Subsystems, Recognised(code)
  PROVE  \E name \in DOMAIN SubsystemError :
             default_error_condition(code) = Make("submodule-error", name)
<1>1. code # Success
  BY Called
<1>2. code \in Members(code.category)
  BY <1>1, Mapped DEF Recognised, Members
<1> DEFINE n == CHOOSE x \in DOMAIN Enum(code.category) : Make(code.category, x) = code
<1>3. n \in DOMAIN Enum(code.category)
  BY <1>2 DEF Members
<1>4. Category(code.category)[n] \in DOMAIN SubsystemError
  BY <1>3, Mapped
<1>5. default_error_condition(code) = Make("submodule-error", Category(code.category)[n])
  BY <1>1 DEF default_error_condition
<1> QED
  BY <1>4, <1>5

\* Which conditions a code with that subsystem error is found equal to.
LEMMA Found ==
  ASSUME NEW code, NEW name \in DOMAIN SubsystemError,
         default_error_condition(code) = Make("submodule-error", name)
  PROVE  /\ \A c \in Members("submodule-error") :
                Equals(code, c) <=> c = Make("submodule-error", name)
         /\ \A k \in DOMAIN Source :
                Equals(code, Make("failure-source", k)) <=> name \in Source[k]
         /\ \A k \in DOMAIN Level :
                Equals(code, Make("severity", k)) <=> name \in Level[k]
<1> DEFINE is(x) == default_error_condition(code) = Make("submodule-error", x)
<1>1. /\ "submodule-error" \in Questions /\ "failure-source" \in Questions
      /\ "severity" \in Questions
      /\ Enum("submodule-error") = SubsystemError /\ Enum("failure-source") = FailureSource
      /\ Enum("severity") = Severity
  BY DEF Questions, Enum
<1>2. \A x \in DOMAIN SubsystemError : is(x) <=> x = name
  BY <1>1, Distinct
<1>3. /\ \A k, j \in DOMAIN Source : Make("failure-source", j) = Make("failure-source", k) => j = k
      /\ \A k, j \in DOMAIN Level : Make("severity", j) = Make("severity", k) => j = k
  BY <1>1, Distinct, Tables
<1>4. ASSUME NEW c \in Members("submodule-error")
      PROVE  Equals(code, c) <=> c = Make("submodule-error", name)
  <2>1. c.category = "submodule-error"
    BY <1>1, Called
  <2> QED
    BY <2>1 DEF Equals
<1>5. ASSUME NEW k \in DOMAIN Source
      PROVE  Equals(code, Make("failure-source", k)) <=> name \in Source[k]
  <2> DEFINE c == Make("failure-source", k)
  <2>1. c.category = "failure-source" /\ Make("submodule-error", name).category = "submodule-error"
    BY <1>1, Called
  <2>2. c # default_error_condition(code)
    BY <2>1
  <2>3. (\E j \in DOMAIN Source : c = Make("failure-source", j) /\ \E x \in Source[j] : is(x))
            <=> name \in Source[k]
    BY <1>2, <1>3, Tables
  <2> QED
    BY <2>1, <2>2, <2>3 DEF Equals
<1>6. ASSUME NEW k \in DOMAIN Level
      PROVE  Equals(code, Make("severity", k)) <=> name \in Level[k]
  <2> DEFINE c == Make("severity", k)
  <2>1. c.category = "severity" /\ Make("submodule-error", name).category = "submodule-error"
    BY <1>1, Called
  <2>2. c # default_error_condition(code)
    BY <2>1
  <2>3. (\E j \in DOMAIN Level : c = Make("severity", j) /\ \E x \in Level[j] : is(x))
            <=> name \in Level[k]
    BY <1>2, <1>3, Tables
  <2> QED
    BY <2>1, <2>2, <2>3 DEF Equals
<1> QED
  BY <1>4, <1>5, <1>6

\* Each question has one answer.
LEMMA OneAnswer ==
  ASSUME NEW code, code.category \in Subsystems, Recognised(code)
  PROVE  /\ \A q \in Questions : \E c \in Members(q) :
                {d \in Members(q) : Equals(code, d)} = {c}
         /\ Equals(code, Make("severity", "Normal"))
                <=> ~Equals(code, Make("failure-source", "SystemError"))
<1>1. PICK name \in DOMAIN SubsystemError :
          default_error_condition(code) = Make("submodule-error", name)
  BY Condition
<1>2. /\ \A c \in Members("submodule-error") :
             Equals(code, c) <=> c = Make("submodule-error", name)
      /\ \A k \in DOMAIN Source :
             Equals(code, Make("failure-source", k)) <=> name \in Source[k]
      /\ \A k \in DOMAIN Level :
             Equals(code, Make("severity", k)) <=> name \in Level[k]
  BY <1>1, Found
<1>3. /\ Members("submodule-error") = {Make("submodule-error", n) : n \in DOMAIN SubsystemError}
      /\ Members("failure-source") = {Make("failure-source", k) : k \in DOMAIN Source}
      /\ Members("severity") = {Make("severity", k) : k \in DOMAIN Level}
  BY Tables DEF Members, Enum
<1>4. \E c \in Members("submodule-error") :
          {d \in Members("submodule-error") : Equals(code, d)} = {c}
  <2>1. Make("submodule-error", name) \in Members("submodule-error")
    BY <1>3
  <2> QED
    BY <1>2, <2>1
<1>5. \E c \in Members("failure-source") :
          {d \in Members("failure-source") : Equals(code, d)} = {c}
  <2>1. PICK k \in DOMAIN Source :
            name \in Source[k] /\ \A j \in DOMAIN Source : name \in Source[j] => j = k
    BY OnePlace
  <2>2. \A j \in DOMAIN Source : Equals(code, Make("failure-source", j)) <=> j = k
    BY <1>2, <2>1
  <2> QED
    BY <1>3, <2>1, <2>2
<1>6. \E c \in Members("severity") :
          {d \in Members("severity") : Equals(code, d)} = {c}
  <2>1. PICK k \in DOMAIN Level :
            name \in Level[k] /\ \A j \in DOMAIN Level : name \in Level[j] => j = k
    BY OnePlace
  <2>2. \A j \in DOMAIN Level : Equals(code, Make("severity", j)) <=> j = k
    BY <1>2, <2>1
  <2> QED
    BY <1>3, <2>1, <2>2
<1>7. Equals(code, Make("severity", "Normal"))
          <=> ~Equals(code, Make("failure-source", "SystemError"))
  <2>1. "Normal" \in DOMAIN Level /\ "SystemError" \in DOMAIN Source
    BY DEF Level, Source
  <2> QED
    BY <1>2, <2>1, OnePlace
<1> QED
  BY <1>4, <1>5, <1>6, <1>7 DEF Questions

\* Success is found equal to nothing.
LEMMA NoAnswer ==
  ASSUME NEW q \in Questions, NEW c \in Members(q)
  PROVE  ~Equals(Success, c)
<1>1. default_error_condition(Success) = Success
  BY DEF default_error_condition
<1>2. \A n : Success # Make("submodule-error", n)
  BY Called DEF Questions
<1>3. Success # c
  BY Called
<1> QED
  BY <1>1, <1>2, <1>3 DEF Equals

\* The code that main has, and what it has found out about it.
CodeInv ==
    /\ ec = Success \/ ec.category \in Subsystems
    /\ \A c \in yes : Equals(ec, c) /\ \E q \in Questions : c \in Members(q)
    /\ yes # {} => Recognised(ec)
    /\ aborted => ~Recognised(ec)

LEMMA InitCode == CodeInit => CodeInv
  BY DEF CodeInit, CodeInv

LEMMA NextCode == CodeInv /\ [CodeNext]_codeVars => CodeInv'
<1> SUFFICES ASSUME CodeInv, [CodeNext]_codeVars PROVE CodeInv'
  OBVIOUS
<1>1. CASE Assign
  <2>1. ec'.category \in Subsystems /\ yes' = {} /\ aborted' = aborted /\ ~aborted
    BY <1>1 DEF Assign
  <2> QED
    BY <2>1 DEF CodeInv
<1>2. CASE Compare
  <2>0. PICK q \in Questions : \E c \in Members(q) :
            /\ ~aborted /\ ec' = ec
            /\ IF Recognised(ec)
               THEN /\ yes' = IF Equals(ec, c) THEN yes \cup {c} ELSE yes
                    /\ UNCHANGED aborted
               ELSE aborted' = TRUE /\ UNCHANGED yes
    BY <1>2 DEF Compare
  <2>1. PICK c \in Members(q) :
            /\ ~aborted /\ ec' = ec
            /\ IF Recognised(ec)
               THEN /\ yes' = IF Equals(ec, c) THEN yes \cup {c} ELSE yes
                    /\ UNCHANGED aborted
               ELSE aborted' = TRUE /\ UNCHANGED yes
    BY <2>0
  <2>2. CASE Recognised(ec)
    BY <2>1, <2>2 DEF CodeInv
  <2>3. CASE ~Recognised(ec)
    BY <2>1, <2>3 DEF CodeInv
  <2> QED
    BY <2>2, <2>3
<1>3. CASE UNCHANGED codeVars
  BY <1>3 DEF codeVars, CodeInv
<1> QED
  BY <1>1, <1>2, <1>3 DEF CodeNext

\* A code is found to be of one subsystem error, one source and one severity at
\* most, one of each is there to be found, and the two queries agree.
THEOREM QueriesAgree == CodeSpec => []OneAnswerEach
<1>1. CodeInv => OneAnswerEach
  <2> SUFFICES ASSUME CodeInv PROVE OneAnswerEach
    OBVIOUS
  <2>1. ASSUME NEW c \in yes, NEW d \in yes, c.category = d.category PROVE c = d
    <3>1. PICK q \in Questions : c \in Members(q)
      BY DEF CodeInv
    <3>2. PICK p \in Questions : d \in Members(p)
      BY DEF CodeInv
    <3>3. p = q
      BY <2>1, <3>1, <3>2, Called
    <3>4. ec.category \in Subsystems /\ Recognised(ec)
      BY <3>1, NoAnswer DEF CodeInv
    <3>5. PICK e \in Members(q) : {x \in Members(q) : Equals(ec, x)} = {e}
      BY <3>4, OneAnswer
    <3>6. c \in {x \in Members(q) : Equals(ec, x)} /\ d \in {x \in Members(q) : Equals(ec, x)}
      BY <3>1, <3>2, <3>3 DEF CodeInv
    <3> QED
      BY <3>5, <3>6
  <2>2. ec # Success /\ Recognised(ec) =>
            /\ \A q \in Questions : \E c \in Members(q) : {x \in Members(q) : Equals(ec, x)} = {c}
            /\ Equals(ec, Make("severity", "Normal"))
                   <=> ~Equals(ec, Make("failure-source", "SystemError"))
    BY OneAnswer DEF CodeInv
  <2> QED
    BY <2>1, <2>2 DEF OneAnswerEach
<1> QED
  BY <1>1, InitCode, NextCode, PTL DEF CodeSpec

\* No enumerator of a subsystem is taken for success or ends the program, and
\* none is found equal to a condition that would be.
THEOREM ErrorsAreErrors == CodeSpec => []NoErrorIsSuccess
<1>1. CodeInv => NoErrorIsSuccess
  <2> SUFFICES ASSUME CodeInv PROVE NoErrorIsSuccess
    OBVIOUS
  <2>1. ASSUME ec # Success, ec \in Members(ec.category)
        PROVE  ec.value # 0 /\ ~aborted
    <3>1. ec.category \in Subsystems
      BY <2>1 DEF CodeInv
    <3>2. PICK n \in DOMAIN Enum(ec.category) : ec = Make(ec.category, n)
      BY <2>1 DEF Members
    <3>3. ec.value = Enum(ec.category)[n]
      BY <3>2 DEF Make
    <3>4. Recognised(ec)
      BY <3>1, <3>2, Mapped DEF Recognised
    <3> QED
      BY <3>1, <3>3, <3>4, Mapped DEF CodeInv
  <2>2. \A c \in yes : c.value # 0
    BY NoConditionZero DEF CodeInv
  <2> QED
    BY <2>1, <2>2 DEF NoErrorIsSuccess
<1> QED
  BY <1>1, InitCode, NextCode, PTL DEF CodeSpec
=============================================================================

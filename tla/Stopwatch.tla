----------------------------- MODULE Stopwatch ------------------------------
(***************************************************************************)
(* Stopwatch (subsys/stopwatch/stopwatch.cpp) on the kernel's tick counter *)
(* read through UpTime (include/uptime_tp.hpp).  The units are constants:  *)
(* a tick need not be a whole number of microseconds, and get_time cuts    *)
(* its result off to whole milliseconds.                                   *)
(***************************************************************************)
EXTENDS Integers

CONSTANTS
    TicksPerSec,    \* CONFIG_SYS_CLOCK_TICKS_PER_SEC
    MicrosPerSec,   \* 1 000 000 in the program
    MicrosPerMilli, \* 1 000 in the program
    MaxTicks,       \* bound on the uptime explored
    MaxPauses       \* bound on the pauses between two resets

ASSUME UnitsAssumption ==
    /\ TicksPerSec \in Nat \ {0}
    /\ MicrosPerSec \in Nat \ {0}
    /\ MicrosPerMilli \in Nat \ {0}
ASSUME LimitsAssumption == MaxTicks \in Nat /\ MaxPauses \in Nat

VARIABLES
    ticks,              \* k_uptime_ticks()
    _start_tp,          \* microseconds of uptime
    _time_before_pause, \* microseconds
    _is_paused

VARIABLES               \* history, never read by the stopwatch
    since,              \* the tick of the last start or reset
    ran,                \* ticks run, up to the last pause
    pauses              \* pauses since the last reset that took effect

watch == <<_start_tp, _time_before_pause, _is_paused>>
vars  == <<ticks, watch, since, ran, pauses>>

TypeOK ==
    /\ ticks \in Nat
    /\ _start_tp \in Nat /\ _time_before_pause \in Nat
    /\ _is_paused \in BOOLEAN
    /\ since \in Nat /\ ran \in Nat /\ pauses \in Nat

\* UpTime::now() in microseconds, cut off to a whole number of them.
Now == (ticks * MicrosPerSec) \div TicksPerSec

\* The time that get_time reports, before the cut to milliseconds.
TimePassed ==
    IF _is_paused THEN _time_before_pause
                  ELSE Now - _start_tp + _time_before_pause

get_time == TimePassed \div MicrosPerMilli

\* A new Stopwatch is not paused and starts at the epoch: it shows the uptime
\* until start is called.
Init ==
    /\ ticks \in 0..MaxTicks
    /\ _start_tp = 0 /\ _time_before_pause = 0 /\ _is_paused = FALSE
    /\ since = 0 /\ ran = 0 /\ pauses = 0

\* The kernel's clock.
Tick ==
    /\ ticks < MaxTicks
    /\ ticks' = ticks + 1
    /\ UNCHANGED <<watch, since, ran, pauses>>

\* start() keeps the time before the pause; when the stopwatch was running,
\* the time since it was started is lost.
start ==
    /\ _start_tp' = Now
    /\ _is_paused' = FALSE
    /\ since' = ticks
    /\ UNCHANGED <<ticks, _time_before_pause, ran, pauses>>

\* Mutant: a pause that adds to the time before the pause once more.
pause_Adds ==
    /\ ~_is_paused /\ pauses < MaxPauses
    /\ _time_before_pause' = _time_before_pause + get_time * MicrosPerMilli
    /\ _is_paused' = TRUE
    /\ ran' = ran + (ticks - since)
    /\ pauses' = pauses + 1
    /\ UNCHANGED <<ticks, _start_tp, since>>

\* pause() keeps what get_time returns, which is cut to milliseconds; a second
\* pause does nothing.
pause ==
    /\ ~_is_paused /\ pauses < MaxPauses
    /\ _time_before_pause' = get_time * MicrosPerMilli
    /\ _is_paused' = TRUE
    /\ ran' = ran + (ticks - since)
    /\ pauses' = pauses + 1
    /\ UNCHANGED <<ticks, _start_tp, since>>

\* Mutant: a reset that does not start the stopwatch again.
reset_NoStart ==
    /\ _time_before_pause' = 0
    /\ ran' = 0 /\ pauses' = 0
    /\ UNCHANGED <<ticks, _start_tp, _is_paused, since>>

\* reset() forgets the time before the pause and starts.
reset ==
    /\ _time_before_pause' = 0
    /\ _start_tp' = Now
    /\ _is_paused' = FALSE
    /\ since' = ticks /\ ran' = 0 /\ pauses' = 0
    /\ UNCHANGED ticks

Next == Tick \/ start \/ pause \/ reset

Spec == Init /\ [][Next]_vars
-----------------------------------------------------------------------------
(* Properties.                                                             *)

\* The ticks that the stopwatch really ran since the last reset; a start while
\* it runs restarts it from the last pause.
TicksRun == IF _is_paused THEN ran ELSE ran + (ticks - since)

\* That time and the reading in a unit that neither cuts: TicksPerSec of it are
\* a microsecond.
Exact == TicksRun * MicrosPerSec
Shown == get_time * MicrosPerMilli * TicksPerSec

\* The times the stopwatch was read or paused while it ran.
Runs == IF _is_paused THEN pauses ELSE pauses + 1

\* Each run between a start and a pause or reading is measured by two cut
\* uptimes and cut to milliseconds: the reading may be ahead of the real time
\* by less than a microsecond for each, and behind it by less than a
\* millisecond for each, since pause() stores what get_time() has cut.
ReadingBounded ==
    /\ Shown - Exact <= Runs * (TicksPerSec - 1)
    /\ Exact - Shown <= Runs * (MicrosPerMilli * TicksPerSec - 1)

\* What the stopwatch's tests assert, with and without a pause between: the
\* reading is within a millisecond of the time run.
WithinOneMilli ==
    /\ Shown - Exact <= MicrosPerMilli * TicksPerSec
    /\ Exact - Shown <= MicrosPerMilli * TicksPerSec

\* The stopwatch keeps the promise of IStopwatch.
Contract == INSTANCE IStopwatch WITH
    reading <- get_time,
    running <- ~_is_paused,
    mark    <- _time_before_pause \div MicrosPerMilli

\* Pausing and resuming never change the reading, a paused stopwatch stands
\* still, and the reading falls only by reset or by start while running.
KeepsContract == Contract!Spec
=============================================================================

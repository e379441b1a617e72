------------------------------- MODULE Button -------------------------------
(***************************************************************************)
(* The debounced push button of subsys/button/button.cpp.                  *)
(*                                                                         *)
(* Three contexts touch a Button: the thread that constructs it, installs  *)
(* the callback and destroys it; the GPIO interrupt (zephyr_callback and   *)
(* gpio_handler); and the kernel timer interrupt (timer_expiry_func).  A   *)
(* thread never runs while an interrupt is being handled (one core), but   *)
(* an interrupt may come between any two calls of the thread, and the two  *)
(* interrupts nest in either order, so their calls into the driver and the *)
(* kernel are separate steps here.                                         *)
(*                                                                         *)
(* The GPIO driver, the kernel timer and the finger on the button are not  *)
(* part of the repository's own code: they are modelled from the calls the *)
(* code makes and from what the tests do to the emulated pin.              *)
(***************************************************************************)
EXTENDS Naturals

CONSTANTS
    MaxPresses,     \* presses of the button in one behaviour
    MaxBounce       \* contact bounces in one press or one release

ASSUME BoundsAssumption == MaxPresses \in Nat /\ MaxBounce \in Nat

VARIABLES
    obj,        \* life of the object: which call of the thread comes next
    callback,   \* _on_press_callback: "empty", "torn" (half assigned), "set"
    interrupt,  \* the pin interrupt is enabled (GPIO_INT_EDGE_BOTH)
    registered, \* _cb_data.cb_data is in the port's callback list
    pending,    \* an edge is latched and its interrupt not yet taken
    timer,      \* _debounce_timer: "stopped" or "armed"
    status,     \* expiries counted by the timer since they were last read
    hpc,        \* next call of gpio_handler, "idle" when it does not run
    epc,        \* next call of timer_expiry_func, "idle" when it does not run
    level,      \* level of the pin once it has settled
    bounces     \* edges the current burst still has to make

VARIABLES       \* history, never read by the button itself
    presses,    \* presses made
    bursts,     \* bursts of edges made: one for a press, one for a release
    rushed,     \* a burst came in a debounce, or before a callback was there
    bounced,    \* a burst had more than one edge
    began,      \* calls made when the current burst began
    before,     \* calls made when the burst before that began
    armedIn,    \* the burst in which the timer was last armed
    calls,      \* times the installed callback was called
    dropped,    \* the driver refused a call and nobody looked at the result
    outlived,   \* the debounce timer was running when the destructor ended
    fault       \* memory of a destroyed Button was used

thread == <<obj, callback, outlived>>
gpio   == <<interrupt, registered, pending>>
ktimer == <<timer, status>>
finger == <<level, bounces, presses, bursts, rushed, bounced, began, before>>
ghosts == <<calls, dropped, fault>>
vars   == <<thread, gpio, ktimer, hpc, epc, finger, armedIn, ghosts>>

TypeOK ==
    /\ obj \in {"none", "configured", "enabled", "alive", "destroying",
                "dead", "failed"}
    /\ callback \in {"empty", "torn", "set"}
    /\ interrupt \in BOOLEAN /\ registered \in BOOLEAN /\ pending \in BOOLEAN
    /\ timer \in {"stopped", "armed"} /\ status \in 0..1
    /\ hpc \in {"idle", "check", "mask", "remove", "restart"}
    /\ epc \in {"idle", "enable", "add", "call"}
    /\ level \in 0..1 /\ bounces \in Nat
    /\ presses \in 0..MaxPresses /\ bursts \in Nat /\ armedIn \in Nat
    /\ calls \in Nat /\ began \in Nat /\ before \in Nat
    /\ rushed \in BOOLEAN /\ bounced \in BOOLEAN
    /\ dropped \in BOOLEAN /\ outlived \in BOOLEAN /\ fault \in BOOLEAN

Init ==
    /\ obj = "none" /\ callback = "empty"
    /\ interrupt = FALSE /\ registered = FALSE /\ pending = FALSE
    /\ timer = "stopped" /\ status = 0
    /\ hpc = "idle" /\ epc = "idle"
    /\ level = 0 /\ bounces = 0 /\ presses = 0 /\ bursts = 0 /\ armedIn = 0
    /\ rushed = FALSE /\ bounced = FALSE /\ began = 0 /\ before = 0
    /\ calls = 0 /\ dropped = FALSE /\ outlived = FALSE /\ fault = FALSE

InISR == hpc # "idle" \/ epc # "idle"
-----------------------------------------------------------------------------
(* The thread: constructor, add_on_press_callback, destructor.             *)

\* The constructor up to gpio_pin_configure_dt; either check may throw.
ConfigurePin ==
    /\ obj = "none" /\ ~InISR
    /\ obj' \in {"configured", "failed"}
    /\ UNCHANGED <<callback, outlived, gpio, ktimer, hpc, epc, finger, armedIn, ghosts>>

\* gpio_pin_interrupt_configure_dt(EDGE_BOTH), or the throw when it fails.
EnableEdges ==
    /\ obj = "configured" /\ ~InISR
    /\ \/ obj' = "enabled" /\ interrupt' = TRUE
       \/ obj' = "failed" /\ UNCHANGED interrupt
    /\ UNCHANGED <<callback, outlived, registered, pending, ktimer, hpc, epc, finger,
                   armedIn, ghosts>>

\* k_timer_init, then gpio_add_callback_dt.  A throw here leaves the edge
\* interrupt enabled: a constructor that throws runs no destructor.
AddCallback ==
    /\ obj = "enabled" /\ ~InISR
    /\ timer' = "stopped" /\ status' = 0
    /\ \/ obj' = "alive" /\ registered' = TRUE
       \/ obj' = "failed" /\ UNCHANGED registered
    /\ UNCHANGED <<callback, outlived, interrupt, pending, hpc, epc, finger, armedIn, ghosts>>

\* add_on_press_callback: the std::function is assigned member by member,
\* with the interrupts on.
BeginInstall ==
    /\ obj = "alive" /\ callback # "torn" /\ ~InISR
    /\ callback' = "torn"
    /\ UNCHANGED <<obj, outlived, gpio, ktimer, hpc, epc, finger, armedIn, ghosts>>

EndInstall ==
    /\ obj = "alive" /\ callback = "torn" /\ ~InISR
    /\ callback' = "set"
    /\ UNCHANGED <<obj, outlived, gpio, ktimer, hpc, epc, finger, armedIn, ghosts>>

\* ~Button, first call: the edge interrupt is disabled, which also drops a
\* latched edge.  The result is ignored: when the driver refuses, edges still
\* come until the callback has left the list.  The debounce timer is left as
\* it is.
DestroyDisable ==
    /\ obj = "alive" /\ callback # "torn" /\ ~InISR
    /\ obj' = "destroying"
    /\ \/ interrupt' = FALSE /\ pending' = FALSE /\ UNCHANGED dropped
       \/ dropped' = TRUE /\ UNCHANGED <<interrupt, pending>>
    /\ UNCHANGED <<callback, outlived, registered, ktimer, hpc, epc, finger,
                   armedIn, calls, fault>>

\* Mutant: a destructor that forgets to leave the callback list.
DestroyRemove_Forgotten ==
    /\ obj = "destroying" /\ ~InISR
    /\ obj' = "dead" /\ outlived' = (timer = "armed")
    /\ UNCHANGED <<callback, gpio, ktimer, hpc, epc, finger, armedIn, ghosts>>

\* ~Button, second call: the callback leaves the list, if it is there.
DestroyRemove ==
    /\ obj = "destroying" /\ ~InISR
    /\ obj' = "dead" /\ outlived' = (timer = "armed")
    /\ registered' = FALSE
    /\ UNCHANGED <<callback, interrupt, pending, ktimer, hpc, epc, finger,
                   armedIn, ghosts>>
-----------------------------------------------------------------------------
(* gpio_handler, in the GPIO interrupt.                                    *)

\* The driver takes the latched edge and walks its callback list.
TakeInterrupt ==
    /\ pending /\ hpc = "idle"
    /\ pending' = FALSE
    /\ hpc' = IF registered THEN "check" ELSE "idle"
    /\ fault' = (fault \/ (registered /\ obj = "dead"))
    /\ UNCHANGED <<thread, interrupt, registered, ktimer, epc, finger, armedIn,
                   calls, dropped>>

\* Mutant: a handler that does not look at the timer's status.
Check_Always ==
    /\ hpc = "check"
    /\ status' = 0
    /\ hpc' = "mask"
    /\ UNCHANGED <<thread, gpio, timer, epc, finger, armedIn, ghosts>>

\* Mutant: a handler that looks at the status without consuming it.
Check_NoReset ==
    /\ hpc = "check"
    /\ hpc' = IF status = 0 THEN "mask" ELSE "idle"
    /\ UNCHANGED <<thread, gpio, ktimer, epc, finger, armedIn, ghosts>>

\* k_timer_status_get reads the count of expiries and resets it; when it was
\* not zero the edge is dropped.
Check ==
    /\ hpc = "check"
    /\ status' = 0
    /\ hpc' = IF status = 0 THEN "mask" ELSE "idle"
    /\ UNCHANGED <<thread, gpio, timer, epc, finger, armedIn, ghosts>>

\* The edge interrupt is disabled, which also drops a latched edge.  The
\* result is ignored: when the driver refuses, the edges keep coming.
Mask ==
    /\ hpc = "mask"
    /\ hpc' = "remove"
    /\ \/ interrupt' = FALSE /\ pending' = FALSE /\ UNCHANGED dropped
       \/ dropped' = TRUE /\ UNCHANGED <<interrupt, pending>>
    /\ UNCHANGED <<thread, registered, ktimer, epc, finger, armedIn, calls, fault>>

\* Mutant: a handler that stays in the callback list while it debounces.
Remove_Forgotten ==
    /\ hpc = "remove"
    /\ hpc' = "restart"
    /\ UNCHANGED <<thread, gpio, ktimer, epc, finger, armedIn, ghosts>>

Remove ==
    /\ hpc = "remove"
    /\ hpc' = "restart"
    /\ registered' = FALSE
    /\ UNCHANGED <<thread, interrupt, pending, ktimer, epc, finger, armedIn, ghosts>>

\* gpio_pin_configure_dt, whose failure nobody sees, and k_timer_start, which
\* also resets the timer's status.
Restart ==
    /\ hpc = "restart"
    /\ hpc' = "idle"
    /\ timer' = "armed" /\ status' = 0
    /\ armedIn' = bursts
    /\ \/ UNCHANGED dropped
       \/ dropped' = TRUE
    /\ UNCHANGED <<thread, gpio, epc, finger, calls, fault>>
-----------------------------------------------------------------------------
(* timer_expiry_func, in the timer interrupt.                              *)

\* A burst of bounces, and the interrupts of its edges, are over before the
\* debounce time that it started has passed.
BurstOver == armedIn = bursts => bounces = 0 /\ ~pending

\* Mutant: a timer started with a period instead of K_NO_WAIT.
Expire_Periodic ==
    /\ timer = "armed" /\ epc = "idle" /\ BurstOver
    /\ status' = status + 1
    /\ epc' = "enable"
    /\ fault' = (fault \/ obj = "dead")
    /\ UNCHANGED <<thread, gpio, timer, hpc, finger, armedIn, calls, dropped>>

\* The one-shot timer expires: the kernel counts the expiry, then calls
\* timer_expiry_func with the Button it was given.
Expire ==
    /\ timer = "armed" /\ epc = "idle" /\ BurstOver
    /\ timer' = "stopped" /\ status' = status + 1
    /\ epc' = "enable"
    /\ fault' = (fault \/ obj = "dead")
    /\ UNCHANGED <<thread, gpio, hpc, finger, armedIn, calls, dropped>>

\* The edge interrupt is enabled again; a refusal is ignored.
Reenable ==
    /\ epc = "enable"
    /\ epc' = "add"
    /\ \/ interrupt' = TRUE /\ UNCHANGED dropped
       \/ dropped' = TRUE /\ UNCHANGED interrupt
    /\ UNCHANGED <<thread, registered, pending, ktimer, hpc, finger, armedIn,
                   calls, fault>>

\* Mutant: an expiry function that does not join the callback list again.
Readd_Forgotten ==
    /\ epc = "add"
    /\ epc' = "call"
    /\ UNCHANGED <<thread, gpio, ktimer, hpc, finger, armedIn, ghosts>>

\* The callback joins the list again; a refusal is ignored.
Readd ==
    /\ epc = "add"
    /\ epc' = "call"
    /\ \/ registered' = TRUE /\ UNCHANGED dropped
       \/ dropped' = TRUE /\ UNCHANGED registered
    /\ UNCHANGED <<thread, interrupt, pending, ktimer, hpc, finger, armedIn,
                   calls, fault>>

\* The installed callback, if any, is called; one that is half assigned, too.
Call ==
    /\ epc = "call"
    /\ epc' = "idle"
    /\ calls' = IF callback = "empty" THEN calls ELSE calls + 1
    /\ UNCHANGED <<thread, gpio, ktimer, hpc, finger, armedIn, dropped, fault>>
-----------------------------------------------------------------------------
(* The finger.  A press and a release are bursts of edges: the edge of the *)
(* new level, then up to MaxBounce pairs of edges while the contact        *)
(* settles.  A burst starts when the interrupts of the last one are done.  *)

Rested == bounces = 0 /\ ~pending /\ hpc = "idle"

Burst(newLevel) ==
    /\ Rested
    /\ level' = newLevel
    /\ bounces' \in {2 * n : n \in 0..MaxBounce}
    /\ rushed' = (rushed \/ timer = "armed" \/ epc # "idle" \/ callback # "set")
    /\ bounced' = (bounced \/ bounces' > 0)
    /\ bursts' = bursts + 1
    /\ before' = began /\ began' = calls
    /\ pending' = interrupt
    /\ UNCHANGED <<thread, interrupt, registered, ktimer, hpc, epc, armedIn, ghosts>>

Press ==
    /\ level = 0 /\ presses < MaxPresses
    /\ presses' = presses + 1
    /\ Burst(1)

Release == level = 1 /\ Burst(0) /\ UNCHANGED presses

Bounce ==
    /\ bounces > 0
    /\ bounces' = bounces - 1
    /\ pending' = (pending \/ interrupt)
    /\ UNCHANGED <<thread, interrupt, registered, ktimer, hpc, epc, level,
                   presses, bursts, rushed, bounced, began, before, armedIn,
                   ghosts>>
-----------------------------------------------------------------------------
Thread == ConfigurePin \/ EnableEdges \/ AddCallback \/ BeginInstall
          \/ EndInstall \/ DestroyDisable \/ DestroyRemove
Handler == TakeInterrupt \/ Check \/ Mask \/ Remove \/ Restart
Expiry == Expire \/ Reenable \/ Readd \/ Call
Finger == Press \/ Release \/ Bounce

Next == Thread \/ Handler \/ Expiry \/ Finger

Spec == Init /\ [][Next]_vars

\* Interrupts are taken and run to their end, a started timer expires and a
\* bouncing contact settles.  Nothing makes a thread call anything, and
\* nothing makes a finger press.
Fairness == WF_vars(Handler) /\ WF_vars(Expiry) /\ WF_vars(Bounce)

FairSpec == Spec /\ Fairness
-----------------------------------------------------------------------------
(* Properties.                                                             *)

\* While a debounce is running the button is deaf to the pin: the callback is
\* off the port's list, so gpio_handler cannot run and restart the timer; and
\* the interrupt is off unless the driver refused to turn it off.
DebounceMasksPin ==
    timer = "armed" => ~registered /\ hpc = "idle" /\ (interrupt => dropped)

\* The button never stays deaf: with no debounce pending and no interrupt
\* being handled, a live Button listens to its pin, unless the driver refused
\* a call whose result timer_expiry_func or gpio_handler threw away.
NeverLeftDeaf ==
    obj = "alive" /\ timer = "stopped" /\ ~InISR /\ ~dropped
        => interrupt /\ registered

\* However much the contact bounces, and however the edges fall around the
\* end of a debounce, one burst of edges causes at most one call.
OneCallPerBurst == calls <= bursts

\* Settled: all that the past bursts caused has happened.
Settled == Rested /\ timer = "stopped" /\ epc = "idle"

\* The button was only ever pressed and released for longer than the debounce
\* time, and the driver did what it was asked.
AtEase == obj = "alive" /\ ~rushed /\ ~dropped

\* Used at ease, a press or a release is without a call of its own only when
\* the one right before it made a call: that is what its first edge was dropped
\* for.  So a press is heard unless the contact bounced on the release before
\* it, and two bursts in a row are never lost.
DropFollowsCall ==
    Settled /\ AtEase /\ bursts > 0
        => IF began = before THEN calls = began + 1
                             ELSE calls \in {began, began + 1}

\* With a contact that does not bounce as well, each press causes exactly one
\* call: the edge of its release is the one dropped by k_timer_status_get.
OneCallPerPress == Settled /\ AtEase /\ ~bounced => calls = presses

\* What tests/button asserts after its bouncing press (the count is 1), and
\* what the application's notes ask of the stopwatch button: one press, one
\* call.
AtMostOneCallPerPress == AtEase => calls <= presses

\* Outside its lifetime nothing but a debounce that was still running at the end
\* of the destructor can reach a Button: a constructor that throws, and the two
\* calls of the destructor with their interrupts in between, leave no callback
\* in the driver's list and no timer running, and the memory is not used again.
OnlyDebounceOutlives ==
    ~outlived => /\ obj \in {"none", "failed", "dead"}
                        => ~registered /\ timer = "stopped" /\ ~InISR
                 /\ ~fault

\* The debounce always ends: a live Button comes back to listening again and
\* again, as long as the driver refuses nothing.
AlwaysListensAgain ==
    obj = "alive" ~> (interrupt /\ registered) \/ obj # "alive" \/ dropped
=============================================================================

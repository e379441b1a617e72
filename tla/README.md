# Notus in TLA+

Specifications of the components of Notus, a collection of C++ subsystems and
samples on the Zephyr RTOS: what each component promises, how its threads and
interrupts can interleave, which of it TLC checks on small instances and which
TLAPS proves for all of them. Paths of the source are relative to the root of
the repository; line numbers are those of the modelled commit, and
`PROJECT.json` gives them for every definition.

```
tlc -workers 2 -config MCButton.cfg MCButton     # check one configuration
tlapm Button_proof.tla                           # check one proof module
```

## Inventory

The components share nothing but the error class `MajorError` and the clock
`UpTime`: no component calls another, except that `Button` and `MajorError`
read `UpTime`. Each has its concurrency with the kernel's threads, interrupts
and queues, so each has a module of its own.

| component | source | state | operations | hard behaviour |
|---|---|---|---|---|
| Button | `subsys/button` | pin interrupt and callback list, debounce timer and its status, installed callback | construct, install a callback, destroy; GPIO interrupt; timer interrupt | two interrupts that nest, bouncing contacts, unchecked driver calls, a timer that outlives the object |
| Stopwatch, UpTime | `subsys/stopwatch`, `include/uptime_tp.hpp` | start point, time before the pause, paused flag | start, pause, reset, get_time | ticks cut to microseconds and these to milliseconds, an error that adds up over pauses |
| ActiveObject | `samples/ActiveObject2` (also `ActiveObject`) | message queue, one future for each caller, the object's thread | create a call, run, get_return, leave the scope | full queue, timeouts and late answers, pointers into callers' frames |
| FileSystem | `subsys/file_system` | mount, open handles, position and length of files | mount, unmount, open, check for existence, write, read, close | any call may fail, or do part of its work; results that nobody looks at; paths that are cut; data that is stored only by the close |
| Request and reply | `samples/ZBusWrapperWithReply` | one channel, module queues, reply queues | send_message, get_reply, set_reply | one shared channel, late replies, strings copied byte by byte |
| Event queue | `samples/ZBusStandard` | queue of ten events | publish, push_event, handle | producer and consumer whose periods differ by a tick |
| zbus observers | `samples/zbus_observers` | channel, listener's queue, notices, buffers | publish, three kinds of observers | notices without a value, publication in the middle of a read |
| Type state | `samples/type_state` | pin, objects with a spent flag | open, configure, read, set, copy, drop | objects that are copied, opened twice or used after they are spent, a driver that refuses |
| LoadCell | `subsys/load_cell` | the converter's channel, one sample buffer | construct, get_weight_grams | one buffer for all threads, signed raw values in 16 unsigned bits, calls that fail |
| littlefs sample | `samples/test` | two files on flash, what main holds in memory | mount, count the boot, change the pattern, unmount | the power fails between any two calls, any call fails or writes too little, eight bits wrap |
| error_code sample | `samples/error_code` | one error code | make a code, compare it with a condition | five enumerations and two lists of conditions kept in step by hand, raw numbers |
| Display, coffee_scale, error handling samples, backtracing, rust-blinky, build files | | none that matters | | not modelled: see the end |

What makes each of them correct:

- **Button**: while a debounce runs no edge is heard; after it, the button
  listens again; a burst of edges makes at most one call; a press or release is
  dropped only right behind one that made a call; nothing but a running debounce
  reaches a Button outside its lifetime.
- **Stopwatch**: each run is measured to less than a microsecond too much and less
  than a millisecond too little, and pausing and resuming do not change the reading.
- **ActiveObject**: every call is executed once, returns, and returns its own
  result; a client leaves only calls behind that it has given up on.
- **FileSystem**: mounts and handles balance on every error path, but for the calls
  that failed; a caller that is not told of an error has all its bytes.
- **Request and reply**: a reply goes to the producer that asked, once, in
  order; every request is answered by every module.
- **Event queue**: events are handled in the order of publication, and none is lost
  before main is behind by what the queue holds.
- **zbus observers**: copies are complete and ordered; a subscriber misses no
  change and never goes back.
- **Type state**: configuring hands the right to use the pin on and never makes a
  second one; an object that is the only one is used in the pin's state.
- **LoadCell**: a weight that is returned was on the cell during the call.
- **littlefs sample**: a boot is counted at most once, and counted if main was
  told so; the pattern is whole; whatever fails, all that was opened is closed.
- **error_code sample**: every code has exactly one condition, source and
  severity, these agree, and none of them is success.

## Modules

| module | what | extends / instantiates |
|---|---|---|
| `Button` | the push button | |
| `IStopwatch` | abstract: what a user of the interface is promised | |
| `Stopwatch` | the stopwatch on the tick counter | `IStopwatch` as `Contract` |
| `RemoteCall` | abstract: what a client of an active object relies on | |
| `ActiveObject` | queue, futures, object's thread, clients | `RemoteCall` as `Contract` |
| `FileSystem` | `ZFileSystem` and `ZFile` | |
| `Survey` | abstract: what a client that asks all modules is promised | |
| `RequestReply` | producers, channel, modules | `Survey` as `Contract` |
| `EventQueue` | module_a, listener, main | |
| `Observers` | publisher, listener, subscriber, message subscriber | |
| `TypeState` | pin and `Gpio` objects | |
| `LoadCell` | the load cell, its converter and the threads that read it | |
| `BootCount` | the littlefs sample, the flash and the power | |
| `ErrorCodes` | enumerations, categories and queries | |
| `MCPassive` | the instance of the four components without a thread of their own: each behaviour uses one of them | `Stopwatch`, `TypeState`, `LoadCell`, `ErrorCodes` |
| other `MC*` | the instances that the `MC*.cfg` files check | the module of that name |
| `Passive_proof` | theorems and proofs of the components without a thread of their own | `Stopwatch`, `TypeState`, `LoadCell`, `ErrorCodes`, `TLAPS` |
| other `*_proof` | theorems and proofs | the module of that name, `TLAPS` |

`MCPassive` and `Passive_proof` extend four modules at once, so those of `TypeState`, `LoadCell` and
`ErrorCodes` put `Pin`, `Cell` and `Code` before the names that every
specification has (`PinInit`, `CellNext`, `CodeSpec`); the four have nothing else
to do with each other.

Operators named `X_Something` next to `X`, with a comment that starts with
"Mutant:", are broken variants of `X`. No specification uses them; they are
there to show that a property notices the bug: with the variant in place of
`X`, TLC finds the property violated (`PROJECT.json`, "mutants").

### Button

The thread's calls are `ConfigurePin`, `EnableEdges`, `AddCallback` (the
constructor, which may throw at each), `BeginInstall`/`EndInstall` (the
assignment of a `std::function`, which is not atomic), `DestroyDisable` and
`DestroyRemove`. The GPIO interrupt is `TakeInterrupt`, then the four calls of
`gpio_handler`: `Check`, `Mask`, `Remove`, `Restart`; the timer interrupt is
`Expire`, `Reenable`, `Readd`, `Call`. Each is one call into the driver or the
kernel: the thread runs only when no interrupt does (`InISR`), but the two
interrupts may nest at any of these points. The finger makes bursts of edges: a
press or a release is one edge and up to `MaxBounce` pairs of bounces. Two facts
about the world are assumed: a burst is over before the debounce it started
(`BurstOver`; that is what a debounce time is), and the next burst begins after
the interrupts of the last (`Rested`).

The environment is free: presses of any length, a callback installed at any
time, a destructor at any time, a driver that may refuse the calls whose result the
code ignores (`Mask`, `Restart`, `Reenable`, `Readd` and `DestroyDisable`). History
variables remember what a property has to except: `rushed` (a press or release in
the middle of a debounce, or before a callback was there), `bounced`, `dropped` (the
driver refused a call), `outlived` (the debounce timer was running when the
destructor ended: nothing in `~Button` stops it, and its expiry then uses the
destroyed object and puts it back on the port's list). `began` and `before` are the
number of calls when the current burst began, and the one before it: their
difference is what a burst has made.

### Stopwatch

The variables have the names of the members. `Now` is `UpTime::now()` with its
cut from ticks to microseconds, `get_time` cuts to milliseconds. The ticks per
second and the two units are constants, so that TLC can use numbers that never line
up and the proofs cover all. `since`, `ran` and `pauses` are history: the tick of the
last start, the ticks run before it, and the pauses. The time really run is counted
in ticks, and compared with the reading in a unit that neither cut touches (`Exact`,
`Shown`). `IStopwatch` knows `reading`, `running` and `mark`, the reading of the last
pause; `Contract` maps them to `get_time`, `~_is_paused` and
`_time_before_pause \div MicrosPerMilli`.

### ActiveObject

`Run` posts a package without waiting, `Get`, `Execute` and `Give` are the loop
of the object's thread, `Wait`, `Take`, `TimeOut` and `Return` are `get_return`.
`Create` and `Leave` are the scope of a `FunctionCall`. A call is its number and
its result is that number, so the result tells which call it answers.
`RemoteCall` has one phase for each client (`idle`, `sent`, `done`); the mapping
takes a call as done when its semaphore has been given. Clients in `Hasty` give
`get_return` a timeout; the refinement is that of the others, the patient ones,
and must hold whatever the hasty ones do. `Leave` is free at any time between two
calls, as the end of a scope is: a client that gave up may leave with its package
still queued, and the object's thread then writes into the dead frame, or into that
of the client's next `FunctionCall` at the same place. `late` counts how often a
client gave up, and `CallsLeftBehind` bounds what it leaves by that.

### FileSystem

`Construct`, `Destroy`, `CheckExists`, `Open`, `Write`, `Read`, `Close` are the
methods, each with its calls and its throw in one step: one thread uses them.
What they call is external: `fs_mount`, `fs_open` and the transfers return any
error that the state allows, or an input/output error at any moment, and a
transfer may stop after any number of bytes. `fs_close` and `fs_unmount` may fail
too, which the code does not look at: a close that fails may keep its handle
(`lost`), and may have stored the data or not; an unmount that fails leaves the mount
(`stuck`). A `ZFile` may outlive its `ZFileSystem`: it is not sound from then on. A
file is its length. As in littlefs, what is written is in the handle (`size`) until
the close stores it. `Path` is what `file_path` makes of a name: `Cut` gives the names
that are too long for its 255 characters what is left of them, which may be another
file's path. Names in `Nowhere` are in no directory, and cannot be created either.

`acked`, `told` and `kept` are history: how far the writes that returned without a
throw have got, the position of each file as a caller counts it, who is told the bytes
that he asked for when a call returns and the bytes moved when it throws, and how far
the writes of a file got whose `ZFile` was closed in good order.

### RequestReply

`Send`, `Publish`, `Callback`, `Published` are `send_message` (the purge, the
publication under the channel's lock, the listeners one by one in the client's
thread), and `PublishFails` its return without a publication when the timeout ends
before the channel is free; `GetReply`, `Take`, `TimeOut` are `get_reply`; `Read` is the client's use of
the reply. `GetMessage`, `SetReply`, `Replied` are a module's loop. A reply is marked with its module, and with the client
and the request (`to`, `req`) for which the module made it: the code's replies carry no
such mark, and no action reads it. The queues
drop what does not fit. `MayRun` is the sample's scheduling (main at 5, modules at
7): a module runs while every client is blocked. Clients in `Patient` wait for ever
and for every reply, as the sample's main does; the others time out and may send
again at once. `Survey` knows the number of a client's last request, the modules that
have answered it and how many answers it got; `Contract` maps them to `req`,
`Answered` and the length of `taken`, for the patient clients, and must hold whatever
the others send.

### EventQueue

Time is in ticks. `Sleep(n)` is `n + 1`: a relative timeout of the kernel counts
from the next tick. `PublishA` and `PublishB` are module_a's publications, with
the listener's `push_event` in the same thread; `Get`, `StartRest` and `Wake` are
main. `Tick` is possible only when neither thread can act. When `MaxEvents` have
been published (`AllPublished`) time goes on for main alone. `handled` and `lost` are
history. `Turn` is the longest time that an event keeps main, and `Excess` what two of
them take more than module_a's sleep.

### Observers

A publication is one step, since main's priority is above the observers': either
`Accept` with `Tell` for the observers, or `Refuse` when the subscriber has the
channel. `Notice`, `BeginRead`, `EndRead` and `PrintAcc` are the subscriber's
loop, `Hear` the listener's thread and `Receive` the message subscriber's. They
run while main sleeps; `Wake` may come between any two of them.

### TypeState

An object is its type and its flag. `Open` is the public constructor and `Copy` the
implicit copy constructor, both possible at any time; `Configure` spends one object
and constructs the next, `Drop` is the end of a scope. The driver may refuse a
configuration, and the code ignores it. History: `refused` says that it did so the
last time, `forked` that an unspent object was copied or the pin opened beside one,
and `grants` counts the unspent objects made in these ways and not dropped.

### LoadCell

`IsReady` and `Setup` are the constructor with its two throws. `Call`,
`StartRead`, `EndRead` and `Convert` are `get_weight_grams`: the driver's lock
(`adc`) is held from `StartRead` to `EndRead`, but `_buffer` is used in `Convert`,
and another thread's `EndRead` may come between. A raw value goes into `_buffer`
modulo `Word`, as the signed result of a differential channel does. `loads` is
history: everything that has been on the cell; `began` says where in it a
thread's call began. Grams are as many times the millivolts and are left out.

### BootCount

One action for each call of `main` in `samples/test` and of the functions that it
calls, with the value that it returns chosen at will; `pc` is the next call, and
each error goes the way that the code's `return` or `goto out` takes. littlefs
itself is external: a file gets to the flash when it is closed, all of it or
nothing, after a failed write never, and after a failed close perhaps. A write may
store less than it was given and return how much, which the code takes for a success
(`WriteCountShort`, `WritePatternShort`): the counter not at all, or a piece of the
pattern; the next boot reads the piece over the zeros of its array (`Over`). `short`
counts such writes.
`PowerFailure` may come between any two calls and clears what is in memory;
`PowerUp` starts main again. The counter wraps at `Byte`. The pattern has a count
in every eighth byte, one in its last, and between them a fill that depends on
the first byte before the increment. `boots`, `commits` and `told` are history:
how often the power came on, each file was stored, and main was told so.

### ErrorCodes

The enumerations are functions from names to numbers, the categories functions
from names to names, the two queries sets of names for each answer. `Assign` gives
main a code of any subsystem with any number, as the raw `int` of the sample's
last lines; `Compare` asks for one condition and remembers a yes. A number that is
none of the enumeration's reaches `assert(false)`, which ends the program.

## Runs

Passing runs:

| run | instance | shows |
|---|---|---|
| `button` | 3 presses, 1 pair of bounces, failing driver, a destructor at any time | `DebounceMasksPin`, `NeverLeftDeaf`, `AlwaysListensAgain`, `OneCallPerBurst`; `OnlyDebounceOutlives`: nothing reaches a Button outside its lifetime but a debounce that was running at the end of the destructor; used at ease, `DropFollowsCall`, and `OneCallPerPress` for a clean contact |
| `passive` | one component in each behaviour. Stopwatch: 7 ticks of 2.5 microseconds, a millisecond of 4, 3 pauses. TypeState: 3 places for objects, refusing driver. LoadCell: 3 threads, 2 changes between 3 loads, one of them negative. ErrorCodes: all numbers from 0 to one beyond the last enumerator | `ReadingBounded` and the refinement `KeepsContract`; `RightsHandedOn`, and `UsesFitState` for a right that is not forked; `WeightWasThere`; `OneAnswerEach`, `NoErrorIsSuccess` |
| `active_object` | 1 patient and 1 hasty client, 3 calls each, one print, a queue of 5 | `CallsLeftBehind`, `ResultsInOrder`, `NoCallLost`, the refinement `IsRemoteCall` for the patient client, `EveryCallReturns` |
| `file_system` | 2 objects of each kind, 2 files, 1 directory, a name in no directory, 2 names that are cut, 2 handles, 2 bytes | `MountOwned`, `HandlesBalanced`, `ExistsHonest`, `AckedBytesStored` (of writes and reads) |
| `request_reply` | 1 patient and 1 hasty client, 2 modules, 2 requests each | `RepliesRouted`, `RepliesInOrder` for both; for the patient one `RepliesMatchRequests`, `NoRequestLost`, `TextAlive` (the byte-wise copy of a `std::string` is read while its characters live) and the refinement `IsSurvey`, by whose fairness every module answers every request |
| `event_queue` | sleeps 10 and 5, handling up to 1, a queue of 3, 30 events: the queue gets full | `EventsInOrder`; `LostOnlyBehind`: none is lost before the delays add up to what the queue holds back; `EveryEventHandled` of those that got a place |
| `boot_count` | 9 boots, bytes of 4 values, a pattern of 11 bytes, one short write of each file | `BootsCounted`, `PatternWhole`, `PatternFollowsCount`, `NothingLeftOpen` |
| `observers` | 5 values, 2 sleeps, one notice | `CopiesComplete`, `NoChangeMissed`, `ShownInOrder`, `SubscriberCatchesUp` |

Four runs end in a counterexample, each for a sentence of the repository that the
code does not keep (`PROJECT.json`, "findings", quotes them):

| run | property | what TLC finds |
|---|---|---|
| `button_bouncy_release` | `AtMostOneCallPerPress` | The timer's status drops one edge of a release, the next bounce starts a debounce of its own, and one press makes two calls. |
| `stopwatch` | `WithinOneMilli` | A pause stores a cut value, and the next run is cut again: after one pause and start the reading is more than a millisecond short, while the test asks for one millisecond. |
| `type_state` | `ReadOnlyAsInput` | A pin that is opened again is unconfigured, and the `Gpio<Input>` of the first time reads it. |
| `event_queue_overflow` | `EveryEventQueued` | With the sample's sleeps and its queue of ten, module_a publishes two events every ten ticks and one, of which main handles two in ten ticks and two; in the end the queue is full, and `push_event_to_queue` loses an event without a word. |

One more disagreement is a matter of one line in a table and has no run:
`SeatsErrc::InternalError` is "service run short of resources" (`seats.hpp:10`) and
"insufficient resources" (`seats.cpp:31`), but maps to `SubsysInternal` (`:58`), so that
its severity is Bug and not Resource. The tables of `ErrorCodes` are those of the code;
`OneAnswerEach` says that there is one answer, not that it is the one meant.

What the code does not promise shows in the exceptions that the properties make, each
by a history variable that says what has happened, never by a guard that keeps it
from happening: `outlived`, `dropped` and `rushed` of a Button, `late` of an active
object's client, `stuck` and `lost` of the file system, `short` of the littlefs sample,
`forked` and `refused` of a pin. Two environments are distinguished by constants: a
timeout of `get_return` or `get_reply` leaves a late answer that the next call takes for
its own, hence `Hasty` and `Patient`; and a full queue drops an active object's call or
a module's request, whose client waits for ever, so that `NoCallLost`, `EveryCallReturns`,
`NoRequestLost` and the liveness of the two contracts are checked with queues that have a
place for each. The drop is in the models (`Put`), but the two runs do not reach it.
A callback called in the middle of its assignment (`Call` before `EndInstall`) is in the
model too, and no property is about it.

### Bounds

The presses, calls, requests, events, pauses, ticks and bytes are bounded by
constants in the guards (`MaxPresses`, `MaxCalls`, `MaxPrints`, `MaxRequests`,
`MaxEvents`, `MaxPauses`, `MaxTicks`, `MaxLen`, `Last`, `MaxBoots`, `MaxShort`,
`MaxLoads`, `MaxRaw`, `MaxBounce`).
They are chosen from what the cases need:

- Button: the status left by one debounce affects the next burst, and no later
  one; three presses have every order of bounced, dropped and answered bursts.
- ActiveObject and RequestReply: a late answer meets the next call, so two calls
  show it; a patient and a hasty client are enough for one to disturb another. The
  queues have just the place for the calls or requests that can be under way, but
  for the hasty client's replies, which overflow theirs.
- EventQueue: the sleeps are the sample's, 1000 and 500 ms, in ticks of 100 ms; what
  matters of a tick's length is only that a sleep ends one of them late. In
  `event_queue` a queue of three and handling of a tick or none make the queue get full
  within 30 events; `event_queue_overflow` has the
  sample's queue of ten, handling that takes no time, and 150 events, of which the first
  is lost after a little more than a hundred.
- Observers: queues for copies are as long as the values (10 for 4 in the
  sample), the queue of notices is as short as possible. That main returns from its
  last sleep, after which only the other threads go on, is left out.
- FileSystem: two handles for two files and the check for existence make opening fail
  for lack of one, also after a close that kept its handle; two bytes give a write and a
  read that stop in the middle. `Modes` are the flags of the tests and an append. The two
  objects of each kind are symmetric. The `VIEW` leaves out `thrown`: no action and no
  property depends on it.
- BootCount: nine boots take the counter twice around its four values, and the
  counts in the pattern past a wrap; eleven bytes have two counts, bytes of the
  fill and a last byte; the pieces are nothing, one byte, and all but one. The proofs
  cover the real sizes.
- LoadCell: two threads are enough for one to fill the buffer under the other, the
  third for the driver's queue; three loads tell a sample that is older than the
  call from one taken during it. Calls during which the raw value was negative are
  excepted by `WeightWasThere`: what they return, a weight near the full scale, is what
  the code does.
- ErrorCodes: no bound but `MaxRaw`, one beyond the last enumerator; all numbers
  beyond it are alike.

Where the bound is on the environment only, the specification does end; these
configurations do not check for deadlock. All but `MCFileSystem` and `MCTypeState` are
of this kind (a LoadCell whose constructor threw and a program whose assertion failed
do stop); these two check for it.

### Fairness

- Button: weak fairness of the two interrupts and of the bounces. A latched
  interrupt is taken and runs to its end, a one-shot timer that was started
  expires, and a contact comes to rest. The thread and the finger have none.
- ActiveObject: weak fairness of the object's thread and of each client that has
  made a call; no client has to call, time out or leave.
- RequestReply: weak fairness of each client, and strong fairness of each module: a
  module of lower priority runs whenever the clients are blocked for a time, and a
  client that times out again and again is blocked again and again.
- EventQueue: weak fairness of the whole: the clock ticks when no thread is ready.
- Observers: weak fairness of main, of the end of its sleep, and of each
  observer's thread. Main sleeps whenever it does not publish.

FileSystem, Stopwatch, TypeState, LoadCell and ErrorCodes are called by their user,
so they have no liveness properties of their own; nor has BootCount, whose power
may fail for ever.

## Proofs

Each proof module proves `Init => IInv`, `IInv /\ [Next]_vars => IInv'`, one lemma
for each action or group of actions, and then the properties from `Invariance`.

| theorem | property | assumptions |
|---|---|---|
| `Button_proof!TypeCorrect`, `MasksPin`, `CallsBounded`, `NotLeftDeaf` | `TypeOK`, `DebounceMasksPin`, `OneCallPerBurst`, `NeverLeftDeaf` | any numbers |
| `Button_proof!PressesHeard`, `PressesCounted` | `DropFollowsCall`, `OneCallPerPress` | the same |
| `Button_proof!NothingElseOutlives` | `OnlyDebounceOutlives` | the same |
| `Passive_proof!TypeCorrect`, `Accuracy`, `Refinement` | `TypeOK`, `ReadingBounded`, `KeepsContract` | positive units |
| `ActiveObject_proof!TypeCorrect`, `LeftBehind`, `InOrder` | `TypeOK`, `CallsLeftBehind` (and no timeout of a patient client), `ResultsInOrder` | any clients, any queue, also one that drops calls |
| `ActiveObject_proof!Implements` | `Contract!SafeSpec`, the safety part of `IsRemoteCall` | the same |
| `ActiveObject_proof!Unlost` | `NoCallLost` | `RoomForAll`: the queue has a place for each call that can be under way |
| `FileSystem_proof!TypeCorrect`, `OneOwner`, `NoLeak` | `TypeOK`, `MountOwned`, `HandlesBalanced` | finite sets of objects; names, directories and `Nowhere` disjoint; any `Cut` to one of these, any `Modes` |
| `FileSystem_proof!BytesTold`, `Honest` | `AckedBytesStored`, `ExistsHonest` | the same |
| `EventQueue_proof!TypeCorrect`, `InOrder`, `LossComesLate` | `TypeOK`, `EventsInOrder`, `LostOnlyBehind`; with no `Excess` and a queue of two, `EveryEventQueued` | natural lengths |
| `RequestReply_proof!TypeCorrect`, `Routed`, `InOrder` | `TypeOK`, `RepliesRouted`, `RepliesInOrder` | any clients, modules and queues |
| `RequestReply_proof!InBatches`, `ReadInTime` | `RepliesMatchRequests`, `TextAlive` | the same |
| `RequestReply_proof!Implements` | `Contract!SafeSpec`, the safety part of `IsSurvey` | the same |
| `RequestReply_proof!Unlost` | `NoRequestLost` | `RoomForAll`: a module's queue has a place for each request that can be under way |
| `Passive_proof!PinTypes`, `RightsMoved`, `StateInType` | `PinTypeOK`, `RightsHandedOn`, `UsesFitState` | a finite set of objects |
| `Passive_proof!WeighedDuringCall` | `WeightWasThere` | any threads; loads that fit the sample buffer |
| `Passive_proof!QueriesAgree`, `ErrorsAreErrors` | `OneAnswerEach`, `NoErrorIsSuccess` | any range of raw numbers |
| `Observers_proof!TypeCorrect` | `TypeOK` | natural lengths |
| `Observers_proof!ChangesNoticed`, `PrintedInOrder` | `NoChangeMissed`, `ShownInOrder` | a subscriber's queue of at least one |
| `Observers_proof!CopiesAll` | `CopiesComplete` | queues for copies as long as the values |
| `BootCount_proof!Counted`, `Whole`, `Follows`, `Closed` | `BootsCounted`, `PatternWhole`, `PatternFollowsCount`, `NothingLeftOpen` | an even number of values of a byte, a pattern of two bytes or more |

Why the invariants are what they are:

- **Button**. `MaskInv` says that from `Restart` to `Readd` the callback is off the
  list and no handler runs, and that the masked interrupt is on only after a
  refusal. `BuildInv` says that nothing reaches the object before it is built.
  `BurstInv` says that a burst arms the timer at most once: once armed, its
  remaining edges find the pin masked, and the timer ends after them. `CallInv`
  then counts: calls made and calls still owed by a running timer or expiry
  never exceed the burst in which the timer was last armed. `ListenInv`
  strengthens `NeverLeftDeaf` to the middle of the interrupts. `LifeInv` says that once the
  destructor has ended with no debounce running nothing is left, whatever the driver
  refused: its calls run only when no interrupt is being handled. `EaseInv` is for a
  button used at ease: `PaceInv` says that a debounce belongs to the burst that started
  it, and `HeardInv` follows each burst: it has no call of its own before its debounce
  has passed and no edge after that, and finds the status set only if the burst before
  it made a call. `CleanInv` says how status, level and calls go together when nothing
  bounces: presses find the status clear and releases find it set.
- **Stopwatch**. `WatchInv`: the start point is the cut uptime of a tick in the past,
  the time before the pause is a whole number of milliseconds, and each pause so far
  has put it ahead of the ticks run by less than a microsecond, for the difference of
  two cut uptimes, or behind by less than a millisecond, for the cut of `get_time`. The
  lemmas `Cut`, `CutMonotone` and `CutWhole` are what is needed of the integer division.
  Each step of the stopwatch is a step of `IStopwatch` or leaves its variables alone.
- **FileSystem**. `MountOwned` and `HandlesBalanced` are inductive with the types;
  opening and closing change the set of open files by one element, and a close that
  keeps its handle moves it to those that are lost. `TellInv` is `AckedBytesStored` in
  two parts, for the files and for their handles, with what makes it inductive: a handle
  never has less of its file than is stored (`Grown`) and is the only one on it
  (`Alone`), so that no close, whatever it stores, takes back what an earlier one has.
- **ActiveObject**. `Order` says that a client's calls stand in the queue in the order
  of their numbers, after the one that is executed and that after the results
  already given: each step moves a call one place along this line. `Once` adds, for a
  client that waits for ever, that its only call under way is its latest, and that
  the semaphore is given only when that call's result is in the Future; this is what
  makes each step a step of `RemoteCall` or none. `LeftBehind` is an account: the calls
  of a client that are under way, and the semaphore when it is given, are paid for by
  the times that it gave up (`Behind`), but for one while the client waits; a late answer
  that ends the wrong `get_return` takes one of each. `Unlost` counts places: `NumberInv` numbers the packages of the queue,
  those of one client by their calls and those that return nothing by when they were
  made, so that no two have the same of the `Slots`; while one is free the queue has
  a place (`FreeSlot`, by the pigeonhole principle), and `run` never drops its package
  (`RunQueues`).
- **EventQueue**. `Line` says that what was handled and what waits is in the order of
  publication, that each event is there or lost, and that none of them is yet to be
  published; a put and a get only move the border between the two. For `LostOnlyBehind`,
  `Behind` is how long main is still kept by the event it handles and by those in the
  queue, and `Pace` bounds it by the drift, the excess of all periods so far, and by what
  is left of the period: a publication adds a turn, a tick takes one from both sides, and
  module_a's sleep at its beginning is two turns less the excess. An event is lost only
  when the queue is full, hence when main is behind by its length. With no excess the
  bound never grows, and the second part of `LossComesLate` says that nothing is lost.
- **RequestReply**. `Lines` follows the requests of each client to each module: the
  channel, the module's queue, its hands and the client's replies are one line in
  which numbers rise, and a request that has yet to reach the module (`Owed`) is
  above all of them; a queue that drops and a `send_message` that purges only leave
  gaps. `RepliesRouted` and `RepliesInOrder` follow for all clients. For a patient
  client `Current` says that whatever is under way is about its last request, `Batch`
  and `Matched` count its replies in whole rounds, and `Alive` says that a reply comes
  only while the client waits in `get_reply`, and that its module is in `set_reply`
  until the client has used it. The scheduler is what makes these inductive:
  a module that runs with a request of `c` in hand finds `c` blocked, and neither
  on the channel nor done, hence in `get_reply` with nothing to take (`Awaited`).
  `Unlost` counts: two requests in a module's queue never have the same of the `Slots`
  (one for a patient client, one for each number of another), so if there is a place
  for each, the callback's put never drops one (`HasRoom`, by the pigeonhole
  principle). The sample has one slot and ten places; the run has three and three.
- **LoadCell**. `Dated` says that a call began after the constructor succeeded, when
  there was a load; `Filled`, that a thread about to use the buffer finds in it a load
  from the time of its own call, whichever thread put it there: every conversion ends
  with the load of that moment. A load is below `Word`: the driver refuses a resolution
  whose result does not fit the buffer that `_sequence` describes.
- **ErrorCodes**. `CodeInv` says that every condition to which main got a yes is one
  that the code equals and one that a query asks for, and that only a recognised code
  is asked. The tables are finite and written out, and the lemmas (`Mapped`, `Distinct`,
  `OnePlace`, `Tables`) are about them; the proof is for any range of raw numbers.
- **TypeState**. `RightsHandedOn` is inductive by counting: each step adds, removes or
  exchanges one element of `Users`. `UsesFitState` is so together with `Alone`: before a
  fork one object at most can use the pin, so that the pin is changed only through it,
  and the object that takes its place stands for the change.
- **Observers**. `CopyFresh` says that a copy which is not printed yet is the
  channel's value unless a notice is pending; `Aged` orders the value printed,
  the copy, the channel and what comes next. `CopyInv` adds to `CopiesComplete` that
  fewer values were accepted than published, so that there is a place for the next.
- **BootCount**. `FlashInv` says that each file holds what its number of commits
  makes it hold. `CountInv` and `PatternInv` say how far main has got with a file:
  position, memory, and that a dirty file at its close holds the contents of the
  next commit. `ContentInv` is the part of it that is about the pattern itself, and
  holds as long as no write of it was short. `TallyInv` orders the counts by where main
  is; a short write stands in for the commit that it does not make. `HandleInv` says
  what is open where. The lemmas `ModStep` and `ModParity` are the arithmetic of the
  byte, `FirstPattern` and `NextPattern` say that `init_pattern` and `incr_pattern`
  make the patterns of `PatternAfter`, `Overlay` that a whole pattern is read as it is;
  the fill needs an even number of values, since the parity of the first byte must
  survive its wrap.

Only model-checked: the liveness properties (`AlwaysListensAgain`,
`EveryCallReturns`, `EveryEventHandled`, `SubscriberCatchesUp`) and the fairness in
`IsRemoteCall` and `IsSurvey`, which are out of the provers' reach. Every safety
property that a passing run checks is a theorem; the type invariants are proved. What
liveness needs of safety is proved where it is not obvious: `NeverLeftDeaf`,
`NoCallLost`, `NoRequestLost`, `EventsInOrder` and `NoChangeMissed` say that what is waited for is still on its way.

## Not modelled

- **Display, coffee_scale**: placeholders; the application prints a line and exits.
- **Error handling samples** (`custom-errors`, `boost-leaf`, `boost-outcome`,
  `boost-outcome-exp`, `status-code`): each makes one error and prints it, without
  state or concurrency. `custom_errors.hpp` has two traps that the sample never
  steps into: the first enumerator of each domain is zero, so that an `if` takes it
  for success (line 59), and `==` ignores which enumeration it compares with
  (line 69).
- **Vendored libraries**: `leaf.hpp`, `outcome.hpp`, `outcome-experimental.hpp` and
  `system_error2.hpp`, single-header releases of other projects, are nine tenths of
  the repository's lines. No subsystem uses them.
- **samples/ActiveObject**: an earlier version of `samples/ActiveObject2` with the
  same steps; only the latter is modelled.
- **backtracing, rust-blinky**: compiler-dependent output; a loop that blinks.
- **Logging, time stamps of MajorError, test macros, build files**: formatting and
  configuration.
- In the modelled components: the values of events and requests, the characters
  of paths, the width of the tick counter, two `ZFile` objects on one file, what the
  close of a `ZFile` that outlived its `ZFileSystem` does to other files than its own,
  what the write into a dead `Future` or a destroyed `Button` does to whatever is there
  by then, and more than one core.

## Plan

Done, in this order: Button, Stopwatch, ActiveObject, FileSystem, RequestReply,
EventQueue, TypeState, Observers, BootCount, LoadCell, ErrorCodes; the proofs of all
safety properties; the refinements of `IStopwatch`, `RemoteCall` and `Survey`. What is
left:

1. For EventQueue and Observers an abstract specification each (a lossless queue, a
   register that is read in order), and the proof that they implement it.
2. An application module that composes `Button`, `Stopwatch` and `LoadCell` as the
   application's documents describe, once its code does.

# Gobbledegook in TLA+

Gobbledegook publishes GATT services through BlueZ.  An application builds a
tree of services, hands it to `ggkRun`, changes its data from its own threads
and stops the server in the end.  What is hard in the code is not the services
but what surrounds them: the server thread with its GLib main loop, the HCI
adapter with two threads of its own, a handful of shared variables, commands to
the kernel that are answered late or never, and retries.  These models are about
that part.

## Inventory

| Component | State | Operations | Talks to |
|---|---|---|---|
| Server control (`Gobbledegook.cpp`) | `serverThread`, `serverRunState`, `serverHealth` (volatile, not atomic) | `ggkRun`, `ggkWait`, `ggkTriggerShutdown`, `ggkShutdownAndWait`, getters | starts and joins the server thread, calls `shutdown()` |
| Server thread (`Init.cpp`) | main loop, bus connection, owned name, object manager, `retryTimeStart`, `periodicTimeoutId`, flags of the steps | `runServerThread`, `initializationStateProcessor`, callbacks, `onPeriodicTimer`, `shutdown`, `uninit` | GLib, BlueZ, `configureAdapter`, `idleFunc` |
| `HciAdapter` | event thread, watchdog thread, socket, `conditionalValue`, `commandResponseSuccess`, two mutexes, controller information | `sendCommand`, `runEventThread`, `runWatchdogThread`, `start`, `stop`, `sync` | `HciSocket`, ends the process |
| `HciSocket` | the descriptor | `connect`, `disconnect`, `read`, `write` | kernel |
| Update queue (`Gobbledegook.cpp`) and `idleFunc` | `updateQueue`, `Server::advertisingData` | push, pop, clear, the notifications, `setAdvertisingData`, `idleFunc` | handlers of characteristics, `Mgmt` |
| Adapter configuration (`configureAdapter`, `Mgmt`) | local copy of the controller's settings | one command per setting, advertising instances, retry | `HciAdapter` |
| Object registration (`Init.cpp`) | `registeredObjectIds`, `bApplicationRegistered` | `registerObjects`, `registerNodeHierarchy`, `doRegisterApplication`, `findAdapterInterface` | D-Bus, BlueZ |
| Object tree, GATT interfaces, builder | children, interfaces, `publish` | built by `Server`, constant while the server runs | dispatch, introspection |
| Dispatch (`DBusMethod`, `GattProperty`, `TickEvent`) | countdown of a tick event, `notifying` of a characteristic | `onMethodCall`, `onGetProperty`, ticks | lambdas of the application |
| Advertising data (`Server`, `Mgmt`) | `advertisingData`, the instances of the controller | `setAdvertisingData`, `setAdvertisingDataInstances`, `addAdvertisingInstance` | update queue, `HciAdapter` |
| `GattUuid`, `ServerUtils`, `Utils`, `Logger` | none | conversions, text | everybody |
| `standalone.cpp` | the sample's data, signal handlers | `main`, getter, setter | all public functions |

Hard behaviours and what correctness means for each component:

* **Server control and server thread.**  The check of the run state and the write
  that follows are two steps, on three kinds of threads; a shutdown can come
  before the main loop exists; `ggkRun` has a time limit that races with the end
  of the initialisation; `ggkWait` joins without one.  Correct means: `ggkRun`
  returns 1 only for a server that a later stop does end if the stop stands, nobody
  reads a running server whose thread has ended, no retry is asked for before there is
  a timer for it.
* **HciAdapter.**  Four kinds of threads send commands, an answer is matched by
  its command code, threads end by themselves and stay joinable.  Correct means:
  a sender is woken by its own answer, no thread object is overwritten, calls and
  shutdowns come back, a dead event thread is noticed.
* **Update queue.**  Data change while an update of them is handled; the
  advertising data take three steps to change.  Correct means: no change is
  swallowed, updates come in order.
* **Adapter configuration.**  Each of a dozen commands may fail, with or without
  effect, and the next attempt starts from what was read, if it was read.
  Correct means: configured means as wanted; attempts make progress.
* **Object registration.**  A failure in the middle of a tree, after which the walk
  goes on.  Correct means: what BlueZ is told of is served, the object manager in
  any case, and retries come to an end.
* **Advertising data.**  A byte string of the application is walked section by
  section; its lengths are not to be trusted, and an instance may fail.  Correct
  means: the walk stays inside the data, an instance gets whole sections and
  everything but the flags, success means all instances.
* **Tree and dispatch.**  Two searches with different rules, over trees of which a
  part may not be registered.  Correct means: a call is answered by the interface
  it was sent to, no search follows a null pointer, an event keeps its period and
  ends with the server.

## Modules

    ServerHandle        what the public functions promise their caller
      ^ implemented by
    ServerLifecycle     Gobbledegook.cpp (control) + Init.cpp (server thread)
    ServerLifecycle_proofs, MCServerLifecycle
      ^ extended by
    ServerRestart       ggkRun again, after what uninit leaves behind
    MCServerRestart

    HciAdapter          HciAdapter.cpp + HciSocket.cpp + the end of shutdown()
    HciAdapter_proofs, MCHciAdapter

    UpdateFifo          a queue
      ^ implemented by
    UpdateQueue         Gobbledegook.cpp (queue) + idleFunc + setAdvertisingData
    UpdateQueue_proofs, MCUpdateQueue

    AdapterConfig       configureAdapter + Mgmt + HciAdapter::sync
    AdapterConfig_proofs, MCAdapterConfig

    AdvertisingData     buildServices' data, setAdvertisingData and the loop and
                        the walk of Mgmt.cpp that apply them
    AdvertisingData_proofs, MCAdvertisingData

    ObjectTree          DBusObject + DBusObjectPath + the searches and
      ^                 getManagedObjects, as operators without state
    ObjectRegistration  findAdapterInterface ... doRegisterApplication, uninit
    ObjectRegistration_proofs, MCObjectRegistration
    ObjectDispatch      onMethodCall, onGetProperty, the ticks of onPeriodicTimer
    ObjectDispatch_proofs, MCObjectDispatch

In each module an operator whose comment begins with "Mutant:" is not part of the
system.  It is a variant of the definition after it, with a bug that would be easy
to make, kept to show that a property notices.

### ServerLifecycle

Threads: `App` calls `ggkRun` once and then either `ggkShutdownAndWait`, or waits
for the server to stop and calls `ggkWait`, as `main` of `standalone.cpp` does;
`ServerThread` runs `runServerThread` and every callback; `Callers` trigger
shutdowns at any time (signal handlers, other threads).

| In the model | In the code |
|---|---|
| `runState`, `health` | `serverRunState`, `serverHealth` |
| `mainLoop` | `pMainLoop`: null, made, running, told to quit |
| `done`, `pending` | the variables each step of the processor tests, and its callback that is still to come |
| `retry` | `retryTimeStart # 0`; `uninit` leaves it alone |
| `timer` | the periodic timers: none, on, or ended by themselves in a server that stops (`periodicTimeoutId` stays) |
| `app`, `ticks`, `ret` | where `ggkRun` is, its `retryTimeMS`, what it returned |
| `srv` | where `runServerThread` or the callback it runs is |
| `sd[t]` | where thread `t` is in `shutdown()` |
| `RunPolls`, `RunStopsPolling`, `RunSucceeds`, `RunFails` | the parts of `ggkRun` between reads of the run state |
| `Shutdown...` | the parts of `shutdown()`: check, write, adapter, loop |
| `Processor...`, `StepDone`, `StepFails`, `StepRetries` | `initializationStateProcessor` and the callbacks |
| `RetryFires`, `TimerEnds`, `NameLost` | `onPeriodicTimer`, before and after a stop, the name-lost callback |
| `Uninit`, `Kept` | `uninit`: the timer is removed, and of the steps those in `Kept` stay done |

The seven steps of the initialisation are numbered.  The first, the bus, is fatal when
it fails; the second, the owned name, is fatal once and starts the periodic timer,
each time it is acquired; the others are retried.  Three steps show all three kinds.
A step that the code does synchronously is one that is answered at once.  A later step
may be under way twice (a lost name starts the processor again while a proxy is made),
and a step that is retried may nonetheless count as done (part of the objects were
registered).  `serverRunState` is a volatile variable without synchronisation; the
model gives its reads and writes their sequential meaning, one step each.

The server thread writes `EInitializing` when it starts (`Init.cpp:1185`) and `ERunning`
when the processor has found everything done (`:1166`), each after an earlier look at the
state or none, so a stop of another thread can be *undone*.  `shutdown()` then waits in
`HciAdapter::stop()` for a thread that goes on, before it comes to the main loop:
`ShutdownStopsAdapter` is a step of any length, which is bound to end only while the run
state is past `ERunning`.  `ServerHandle` tells the caller as much: `held` says that the
run state stops the server, `Hold` and `SetBack` are its changes, and a stop that stands
ends the thread.

### HciAdapter

`Senders` send commands at any time (the server thread), `Stoppers` call `shutdown()`,
`Watchdog` is the thread of that name.  The model has both mutexes, the condition
variable, `joinable()` of the two thread objects apart from whether the thread still
runs, the socket with the answers under way, and the process that `std::_Exit` or an
overwritten thread ends (`dead`).  `running` is the test of the event thread and of
`waitForDataOrShutdown`, `runState <= ERunning`.  A shutdown makes it false, and the
server thread may make it true again: `due` says that it has passed its test and will
write (`ProcessorChecks`, `ServerThreadAnnounces`).  Two shutdowns may both be in
`stop()`.  `JoinsTwice` is the second join of a thread that is being joined or has
been, which glibc refuses with `EINVAL`: around the watchdog nobody catches the
exception, and the process ends; around the event thread `stop()` does.  The removal
of instances counts them as the adding does, so that with 255 of them no shutdown
ends; that count is modelled in `AdvertisingData` alone.  The controller answers a
command once, after any time, or never.  A command carries an identity that the code
does not have, so that the properties can tell whose answer an answer is.  Faults are
switched on by `Faults`: an error status, an answer of the wrong length, a connection
or a thread that cannot be started.

### UpdateQueue

`queue` is `updateQueue` with the front first; data are versions; `Strangers` are
entries for paths that do not exist or whose characteristic has no handler, such as
the sample's battery level.  A handler is two steps: it reads the current value and
then it notifies.  `TooLong` are entries that do not fit in `idleFunc`'s buffer.
`given` is the element that the last pop handed to its caller; `UpdateFifo` says of it
that it was the oldest.  The application may pop, peek and clear at any time
(`AppDrains`): `taken` is a ghost, the characteristics whose last entry it took.
`Refuses` lets an advertising command fail.  A stop that the end of the initialisation
undoes is left to the modules above: here a server that was stopped before it ran does
not run.  `lost` is a ghost: the newest advertising data were changed while the server
was not running, or were refused, or the application took their entry.

### AdapterConfig

A setting is on or off and wanted on, wanted off, or (the name, without
`EnableSetLocalName`) not cared for.  `info` is
`HciAdapter::controllerInformation`, which starts zeroed because the adapter is a
static object, `seen` the copy that `configureAdapter` decides with.  A command may
be refused, or not answered with or without its effect; a reading may fail.  Any
adapter and any server are initial states.  Nobody else changes the adapter
during the configuration; the watchdog refreshes `info` at any time.  The names
and the layout of the requests are left out, and so is the answer of an older
command, which `HciAdapter` is about.

### ObjectTree and ObjectRegistration

A tree is the sequence of its objects in the order of a walk, each with its depth;
a path is a sequence of names and slashes, so that `append` can be modelled by what
it does with a slash at either end.  The application adds services,
characteristics and descriptors in any order (`AddsChild`), and interfaces of no
GATT type (`AddsInterface`).  Then the server thread finds an adapter among the
objects of BlueZ and walks over both roots, the tree of the services and the
object manager.

| In the model | In the code |
|---|---|
| `services`, `Objects` | the first root with all below it, `Server::objects` |
| `at` | the object and the interface `registerNodeHierarchy` is at |
| `exported` | what the bus connection serves, with the slot it was registered for |
| `ids` | `registeredObjectIds` |
| `proxies` | the object each proxy of `findAdapterInterface` belongs to, and `bluezGattManagerInterfaceName` |
| `phase` | before `ggkRun`, between the steps, in the walk, in the call to BlueZ, running, after `uninit` |
| `legible` | whether GDBus can parse the introspection XML |

`RegistersInterface`, `RegistrationFails` and `VisitsNextObject` are the walk;
`RegistrationFails` is also the action of a path that D-Bus rejects or that has the
interface already.  A failure releases the node twice: the process may end
(`dead`), or go on.  Retries, shutdowns between any two steps and `uninit` are those
of `ServerLifecycle`, without the time limit of `ggkRun`; that a lost name starts
the processor a second time, and that a late write of the run state undoes a shutdown, is
only there.  The configuration of the adapter
between the two halves is `AdapterConfig`.

### ObjectDispatch

A server is a tree with the members that were added to its interfaces, in the order
of their adding, and the events.  `exported` is any part of it that
`registerNodeHierarchy` can leave registered; GDBus passes on only calls of what the
XML of an interface in `exported` describes, in the order of their sending, and one
callback of the main loop runs at a time.  `IsTree` is what `Server`'s constructor and
the builders make: the first object is a root, and the paths of roots begin with the
slash of `DBusObjectPath`'s default.

| In the model | In the code |
|---|---|
| `asked`, `answers` | the calls that reach `onMethodCall` and `onGetProperty`, and what came of each: the callback or getter was called, an error for one that is missing, "not found", or a null pointer |
| `CallMethod`, `GetProperty` | `Server::callMethod`, which goes on behind an interface without the method, and `Server::findProperty`, which does not go on and knows no descriptors |
| `Describes` | the two `generateIntrospectionXML` of interfaces |
| `notifying`, `Notify` | the flag and the two callbacks of `enableNotifications` |
| `TimerFires`, `TicksEvents`, `TimerEnds` | `onPeriodicTimer`: the check of the run state, then the ticks of all published roots; it ends in a server that stops |
| `ApplicationIsRegistered`, `NameIsAcquired` | the two callbacks after which the processor finds everything done (`ProcessorRuns`); the second starts a timer |
| `ProcessorSetsRunning` | its write of `ERunning`, some time after its check of the run state |
| `elapsed`, `IsDue` | `elapsedTicks` and the comparison of `TickEvent::tick` |
| `stop`, `Stops` | the run state: `shutdown()` of another thread, at any time, stands until the processor undoes it |

`fired`, `seconds`, `before` and `late` are ghosts that count; `late` counts afresh
with each stop.  `seconds` are firings: with several timers, after a name was lost and
acquired again, there are several in a second.  The retry that `onPeriodicTimer` also
looks after is in `ServerLifecycle`.

### AdvertisingData

`at` is where the server thread is: in no update, between the copy of the data and the
end of the commands that precede them in `configureAdapter`, in the loop over the
instances or in the walk of one of them; `taken` is the copy of the data, `offset` and
`effective` are those of the code.  `phase` tells `configureAdapter`, which is tried
again until it succeeds, from `idleFunc`, which logs a failure.  `SetsData` is a step
of the application at any time, also between the copy and the flag that ends the
configuration.  The loop counts in a byte, and `Instances` is whatever number but 0
the controller tells, as in `HciAdapter.cpp:274`: with 255 the count wraps and
instance 0 follows, which the kernel refuses.  `Cuttings`, `Kept` and `IsRestOf` say
without a walk what the sections of some data are and what is left of them without the
flags, and the properties compare the walk with them.  A name is made of one `Letter`:
what it is does not matter, but that a walk which runs into it does not take it for
the type of flags.

### ServerRestart

`ServerLifecycle` with its seven steps, and `RunsAgain`: `ggkWait` has joined the
first server, and `ggkRun` starts the next from the variables as they are.  `Kept` is here
what it is in the code: the owned name, the adapter that was found, its configuration and
the registered application.  `made` is a ghost,
the steps that were completed since the last `ggkRun`.

## Runs

| Run | Shows | Bounds |
|---|---|---|
| `MCServerLifecycle` | `RetryHasTimer`, `RunningMeansLooping`, `UnhealthyRunningMeansTimeout`, `EndedServerNotRunning`, `QuitEndsServer`, `StopAfterRunReturns`, `ServerHandle` with its fairness | two callers, three steps, a limit of two ticks |
| `MCHciAdapter` | `AnswersMatchWithoutTimeouts`, `NoThreadOverwritten`, `CallsReturn`, `DeadChannelEndsProcess` | one sender, the watchdog, one stopper, one answer under way, malformed answers |
| `MCHciAdapterStops` | `ReadsOpenSocket`, `StopReturns` | the watchdog and two stoppers, which send commands; no sender besides; starts that fail |
| `MCUpdateQueue` | `SettledIsShown`, `SettledIsAdvertised`, `ChangesAreShown`, `UpdateFifo` | two threads, one characteristic, two changes of each datum, two entries that name nothing, one of them too long to pop, refusals, an unchanged entry pushed to an empty queue |
| `MCObjectRegistration` | types, `PathsAgree`, `CallsReachTheirObject`, `ToldIsServed`, `ManagerIsServed`, `ProxiesAgree`, `NothingIsLeft`, `GetsRegistered` | two objects below the root, two names, two objects of BlueZ, one fault besides the paths that cannot be registered |
| `MCAdapterConfig` | `WellReadMeansWanted`, `PlainSetUpIsLeftAlone`, `IsConfigured` | four settings, two instances, two faults of any kind |
| `MCObjectDispatch` | `NoCallIsLost`, `AnsweredByItsObject`, `NotifyingIsLastAsked`, `EventsKeepTime`, `StopEndsEvents` | three servers (every kind of interface; a name used twice; the same without), every exported part, two calls, four seconds |
| `MCAdvertisingData` | `StaysInside`, `AdvertisesWholeSections`, `OnlyFlagsAreLeftOut`, `SuccessReachesAll`, `NeedsGoodData`, `GoodDataEndRetries` | two instances, eight bytes instead of 256 and four instead of 31, names of up to nine, one change, one failing command |

The types are an invariant of a run only in `MCObjectRegistration`; the `TypeOK` of
every module is a theorem, which says it of every value of the constants.

The bounds are small and sufficient for the following reasons.  Two callers and the
application are three threads in `shutdown()` at once, and its check can be passed by
at most all of them before one writes; a tick is only a chance to read the state, and
two of them give every order of reads.  One identity of an answer is enough for
`AnswersMatchWithoutTimeouts` and for the liveness: as long as no command has timed
out, `commandSendMutex` leaves only one command that can be answered, and a command
written while the identity is in use is one that is never answered.  `StopReturns` is
about who joins what, and in `MCHciAdapterStops` the two stoppers are both the threads
that join and the ones that hold the mutex; a third sender makes the run too large and
adds no thread that is joined.  Two changes of a datum are one that is being handled
and one that overtakes it.  In `AdapterConfig` the plain settings between BR/EDR and
advertising are treated like advertising and are left out of the run, and two faults
are a failed attempt and a failed retry.  In `ObjectRegistration` the names are one
without slashes and one with a slash at both ends, which D-Bus rejects; two objects
can be siblings or parent and child, so a name can be used twice in both ways, and a
rejected path or a name used twice are failures that come again in every retry,
besides the one fault.  In `ObjectDispatch` two calls are one to each of two objects
of one name, and four seconds are more than the longest period of an event.  In
`AdvertisingData` a byte has eight values so that names of seven and more make its
length wrap, as those of 255 and more do in the code.  Deadlock is checked for
`ServerLifecycle`; the other configurations switch it off because their systems do
stop: the process has ended, all changes are made and shown, or the adapter is
configured.

### What the code does not keep

These runs end in a counterexample to a sentence of the documentation or of a comment.

| Run | Sentence | What happens |
|---|---|---|
| `MCServerLifecycleLost` | the loop is terminated and the server cleaned up (`Gobbledegook.h:181`) | a shutdown before the loop exists is lost (`Init.cpp:318`) |
| `MCHciAdapterStale` | returns true on success (`HciAdapter.cpp:532`) | the success of an earlier command of the same code (`:566`) |
| `MCHciAdapterStuck` | a shutdown does not wait (`Init.cpp:295`) | it joins a thread that the late write of `ERunning` keeps looping (`HciAdapter.cpp:497`, `:228`) |
| `MCServerRestart` | `ggkRun` registers the server and blocks until it is initialised (`Gobbledegook.h:281`) | a second one skips the steps `uninit` has kept (`Init.cpp:202-281`) |

Further sentences do not hold of the models either; they have no run of their own:

* "This method will block until the thread joins" (`HciAdapter.cpp:483`): of two
  shutdowns that both come to the join of the event thread the second is refused with
  `EINVAL` (`:497`), and `stop` returns while the thread runs (`:508`).  This is why
  `StopReturns` says no more than that a shutdown returns.
* "calls the interface's `onUpdatedValue` method for each update" (`Init.cpp:116`):
  not for descriptors (`:181`), and an entry of 1024 bytes or more stays at the back
  for ever and nothing behind it is handled, since `idleFunc` takes the -1 for an
  empty queue (`:143`, `Gobbledegook.cpp:188`).  This is why `ChangesAreShown`
  excludes `IsBlocked`.
* "If everything is setup already, we're done" (`Init.cpp:722`):
  `HciAdapter::advertisingData` is never assigned, so advertising data never compare
  equal (`:718`), and an adapter that is set up as wanted is powered off and on.  This
  is why `PlainSetUpIsLeftAlone` is stated without advertising data.
* "Cleanup and pretend like we were never here" (`Init.cpp:622`): the identifiers are
  forgotten (`:624`), the objects stay registered, also after `uninit`.
* "Try again later" (`Init.cpp:626`): the node is released where a registration fails
  and again by the caller (`:623`, `:667`), and the process may end before anything is
  tried.  This is why `GetsRegistered` accepts the end of the process, only after a
  failure.
* "the short name is used in case the full name doesn't fit within Extended Inquiry
  Response (EIR) or Advertising Data (AD)" (`Server.h:111`): `buildServices` puts the
  whole name into the data (`Server.cpp:345`); a name that does not fit is refused in
  every attempt (`Mgmt.cpp:195`), and the server never runs.  `LongNames` says which
  names these are.
* "The idle processor will perform one update per idle tick" (`Init.cpp:119`): with
  255 instances the count of the loop over them wraps (`Mgmt.cpp:294`,
  `HciAdapter.cpp:276`), and an update never ends.
* "States should progress through states in this order" (`Gobbledegook.h:199`): the
  processor writes `ERunning` with an old check of the run state (`Init.cpp:1166`)
  and can overwrite the `EStopping` of another thread.  This is why `StopReturns`,
  `StopAfterRunReturns` and `StopEndsEvents` are stated for a stop that stands.
* "Save the registered object Id so we can clean it up later" (`Init.cpp:631`): a failure
  forgets the identifiers; this is why `ToldIsServed`, `CallsReachTheirObject` and
  `NothingIsLeft` are stated for trees that could be registered, and `GetsRegistered`
  for a process that the second release has not ended.
* "A running server's health will always be EOk" (`Gobbledegook.h:234`): the time
  limit of `ggkRun` marks a server that has just become running
  (`Gobbledegook.cpp:504`); `UnhealthyRunningMeansTimeout` says that nothing else
  does.
* "Blocks for up to maxAsyncInitTimeoutMS milliseconds" (`Gobbledegook.h:169`): the
  join of `ggkWait` has no limit (`Gobbledegook.cpp:357`).
* "it will auto-connect" (`HciAdapter.cpp:529`): not while the event thread that has
  ended is joinable (`:537`); `DeadChannelEndsProcess` says what follows.
* "the HCI socket will get disocnnected" (`HciAdapter.cpp:223`): not by the return
  for an unexpected length (`:301`).
* "Handy way to get periodic activity" (`Init.cpp:980`): each acquisition of the name
  starts a further timer, and a lost and acquired name makes the events come twice as
  often; `EventsKeepTime` counts the firings of all timers.
* "Advertising instances ... survive the userspace process unless they are removed
  explicitly" (`Init.cpp:307`): `shutdown()` removes them once (`:309`), while the
  server thread can still add one.
* "During server construction the initial value is applied by configureAdapter()"
  (`Server.cpp:366`): data that are set after it has read them (`Init.cpp:711`) and
  before the server runs are neither applied nor pushed (`Server.cpp:368`).
* "turn everything else off (to maximize security.)" (`Init.cpp:684`): a reading that
  fails is passed over (`HciAdapter.cpp:425`), and a setting that is on may count as
  off; `WellReadMeansWanted` is stated for attempts that could read.
* "If the property was found, it is returned" (`Server.cpp:419`): those of descriptors
  are not, since `findProperty` tries no `GattDescriptor` (`:425`-`:436`).
* A second `ggkRun` whose first server found an adapter and was stopped before it
  registered the application goes on with proxies that `uninit` has released; and a
  retry that was asked for (`retryTimeStart`) stays while its timer is gone, so that
  the second initialisation does nothing.

`NoThreadOverwritten` is checked without failing starts.  With them it does not
hold: after the event thread was created and the watchdog was not, or the other
way round in a second start, the two thread objects no longer go together.

### Fairness

The operating system runs every thread that can run, so each thread has weak fairness
on its steps.  Two steps need strong fairness.  Taking `commandSendMutex`: the mutex
is free again and again, and a thread that waits for it gets it in the end, as the
senders pause for seconds between commands.  Leaving the main loop once it was told to
quit: GLib tests the flag in every iteration, whatever callbacks run in between.  The
controller owes nothing: an answer may never come, and `sendCommand` then times out.
The join in `HciAdapter::stop()` is fair only as far as its thread ends: in
`ServerLifecycle` the step `ShutdownStopsAdapter` is fair while the run state is past
`ERunning`, since the event thread goes on otherwise, and in `HciAdapter` the wait for
data is left in a shutdown only while `running` is false.  The write that has been
announced by a check of the run state comes in the end (`ServerThreadAnnounces`), but
none has to be announced.  In `UpdateQueue` the main loop runs the idle source for
ever, and calls of the application that have begun end.  `AdapterConfig` assumes that
the server thread goes on and that its timer fires, which `RetryHasTimer` is about.
`ObjectRegistration` assumes the same, that GDBus gives up a call that BlueZ does not
answer, and that a scan finds an adapter if there are infinitely many (strong fairness
of the scan that succeeds).  `AdvertisingData` assumes that the server thread goes on,
from one attempt to the next.  Nothing is assumed of how often an application changes
its data or shuts down.

## Proofs

`tlapm` checks them for every value of the constants.

* **`ServerLifecycle_proofs`.**  `Invariance` is the inductive invariant `IInv`.  The
  properties are not inductive by themselves, because a check of the run state is
  followed by the write only later.  `IInv` adds what each place in the code knows of
  the loop, the timer and the health: which writes of stale checks can still come,
  that the loop exists when a callback runs, that a timer was started by the second
  step and is not removed before `uninit`, and that `ggkRun` passes its limit before
  it marks the server.  From it follow `TypeCorrect`, `RetryTimerExists`,
  `RunningLoops`, `UnhealthyOnlyByTimeout`, `EndedNotRunning` and, step by step,
  `ImplementsHandle`: initial states map to initial states of `ServerHandle` and every
  step to a step or a stutter.  The writes of the run state that undo a stop are its
  `SetBack`: `IInv` shows that they come from a thread that lives.
* **`UpdateQueue_proofs`.**  `PushLemma` and `PopLemma` say what a push and a pop do
  to the set of entries and to the reversed sequence.  `ChangesNotSwallowed` and
  `PushedIsAdvertised` rest on `ShownInv` and `AdInv`: whatever has not been shown is
  in the queue, about to be pushed, about to be read, or held by the handler in its
  newest version, or the application itself has popped or cleared it, which is what
  these functions are for.  `ImplementsFifo`: `given` is in every step what
  `UpdateFifo` gives, the head of what waits, whoever takes it.
* **`AdapterConfig_proofs`.**  `ConfiguredIsWanted` rests on `WorkInv`: in an attempt
  that could read the adapter, what the copy shows as wanted is wanted in the
  controller, and the settings before `next` are done.  `misread` is a ghost that
  tells such an attempt from the others: without it the property does not hold.  The
  assumption on the constants is that no setting is named twice.  `PlainIsLeftAlone`
  needs `OffHasReason` besides: an attempt that could read the adapter has only
  switched it off if something is left to change.
* **`ObjectTree_proofs`.**  Lemmas about the operators, for trees of any size and
  paths of any elements.  The walks are recursive functions; `SetInduction` is the
  induction over their steps, derived from the least element of a set of numbers
  (`LeastNatural`), and each function is shown to exist first (`WalkDownExists`,
  `WalkUpExists`).  `JoinedIsAssociative`: `append` is associative, because what it
  leaves of the left part and what it makes of the right part do not depend on each
  other (`Cut`, `Slashed`).  `OnePath`: the walk down and the walk up agree by that
  (`UpIsDown`), and the walk that begins with "/" agrees with the others because the
  path of a root begins with a slash (`BaseLemma`, `RootLemma`, `PathInSet`); without
  that assumption it would not.  `PlainNamesMakePaths`: names without slashes make
  paths that D-Bus accepts.
* **`ObjectRegistration_proofs`.**  For trees of any size and any number of faults.
  `IInv` says that a walk which is past the object manager, and every state after a
  walk, has either no identifier or the manager's (`ManagerInv`); that without a
  failure everything served has its identifier (`KeptInv`) and everything before `at`
  is served (`ServedInv`).  A failure restarts the identifiers, so what it leaves
  behind does not matter to the first: `ManagerIsServedAlways` needs no assumption on
  failures because the manager is the last object.  `ToldIsServedAlways` and
  `NothingIsLeftAlways` follow from the other two.  `JInv` goes on from there: the
  types; `ProxiesInv`, that the proxies are of one object or name none after every
  object that a scan looks at, also where an earlier attempt has left some
  (`ScannedLemma`, `FoundLemma`); and `FirstInv`, that without a failure what is
  served belongs to the first interface of a walk with its path and name.  The last
  one is why `CallsReachAlways` holds: when an interface is registered everything
  before it is served (`ServedInv`), so nothing before it can have its path and name,
  or D-Bus would have refused it.  `PathsAgreeAlways` is `OnePath`, with what the
  builder makes of the names (`BuiltNode`).  `PlainNamesAreAccepted` assumes that no
  name of the application has a slash.
* **`HciAdapter_proofs`.**  For any threads, instances and faults.  `LockOK`: whoever
  is behind the mutex holds it, so at most one client waits.  `SocketOK`: an event
  thread that has not closed the socket has an open one.  `OneUnderWay`, while no
  command has timed out: at most one command or answer is on its way, in one of the
  three places it can be, and the client that waits is the one it belongs to; this is
  the strengthening that makes `AnswersMatchWithoutTimeouts` inductive.
  `ThreadsAreJoined` is `NoThreadOverwritten` under `StopsOnce`: no start fails and
  one thread shuts down, as in the run that checks it.  Without that it does not hold.
  `StopOK` says how far the shutdown is with each thread.
* **`ObjectDispatch_proofs`.**  For any servers and bounds.  `EventsKeepTime` is
  inductive with the types, since its equation fixes the countdown; `StopEndsEvents`
  needs `RoundsOK`, that while a stop stands no round of ticks is late before the last
  one has begun, and `SequencesOK` carries that `asked` and `answers` are sequences of
  something.  `CallsInv`: every call that is waiting or answered is one of a member
  that the XML of a registered interface describes, and every answer is the right one
  or, if not everything is registered, at least not a loss.  `MethodLemma` and
  `PropertyLemma` do the searches: by `OnePath` the interface of the call is among
  those that are found, and `IsExportable` leaves no other if all are registered
  (`OnlyOne`).  `NotifyingInv` adds what the flag is, which only a call of that
  characteristic sets.
* **`AdvertisingData_proofs`.**  For any data and instances.  The walk keeps the cuts
  it has passed, which are a cutting of the data when it ends; each instance before
  `instance` has the copy, as long as `success` holds.  What the walk has kept is what
  its cuts leave without flags (`KeptGrows`, `RestGrows`): `OnlyFlags`.
  `GoodDataNeeded` is an action property and follows from the invariant and the end of
  the loop.  An attempt that ends without data began without data, because nobody but
  `TakesData` changes the copy.  `LongNames` is a lemma about constants, `DefaultData`
  and `IsAcceptable`, that says for which names the retries go on
  for ever: every cutting of it keeps all but the flags (`NamesAreKept`), and a
  name that fits is short enough for the length of its section to be right
  (`ShortNamesAreSections`).

Every invariant and every safety property of the steps that a passing run checks is a
theorem.  Model-checked only: the liveness properties and the fairness of
`ServerHandle` (fairness and `ENABLED` are outside the prover; that every step is a
step of `ServerHandle` or a stutter is proved).  No prover knows that a literal is in
`STRING`, so `Elements` adds those of the code to it.

## Plan

1. `ServerLifecycle`, `HciAdapter`, `UpdateQueue`, `AdapterConfig`, with proofs for
   three of them: done.
2. `ObjectTree` and `ObjectRegistration`, with proofs: done.
3. `ObjectDispatch`, `AdvertisingData` and `ServerRestart`, with proofs for the first two:
   done.
4. The invariant of `HciAdapter`, and proofs of all that the runs check besides the
   liveness: done.
5. Left: `Server`, that is `ServerLifecycle` and `HciAdapter` together, for what a
   shutdown does to commands in flight; the truncation of names in `Mgmt`.

## Not modelled

GLib, D-Bus, BlueZ and the kernel are the environment; their headers, which are part
of the repository, declare what is used of them and have no behaviour to model.  The
tree of objects, its members and their values are constant while the server runs.
Text, logging, the layout of requests, `GattUuid`, `Utils` and GVariant translation
have no state that the rest depends on.  `onSetProperty` is never called, because the
XML gives every property as read-only (`GattProperty.cpp:127`).  `notifying` is read
by `isNotifying` alone, for the application: notifications are sent regardless of it.
A write to a closed descriptor is a write that fails: that the kernel may have given
its number to another file is left out.  Torn reads of `controllerInformation` and the
size of the update queue are listed as hazards in `PROJECT.json` with the reason.

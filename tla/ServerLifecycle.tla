--------------------------- MODULE ServerLifecycle ---------------------------
(***************************************************************************)
(* The life of one server: ggkRun, ggkWait and the shutdown functions of    *)
(* Gobbledegook.cpp, and runServerThread, shutdown and the timer of         *)
(* Init.cpp, as threads that interleave.                                    *)
(*                                                                          *)
(*   App           calls ggkRun once, then ggkShutdownAndWait, or waits for *)
(*                 the server to stop and calls ggkWait (main, standalone)  *)
(*   ServerThread  runs runServerThread and every GLib callback             *)
(*   Callers       call ggkTriggerShutdown at any time, any number of times *)
(*                 (signal handlers, other threads of the application)      *)
(*                                                                          *)
(* serverRunState and serverHealth are plain shared variables: nothing      *)
(* makes a read of them and the write that depends on it one step, so they  *)
(* are separate actions here.  The initialisation steps are numbered in the *)
(* order the processor takes them: 1 is the bus connection, 2 the owned      *)
(* name, the others are alike.  Every step is modelled as a call that is     *)
(* answered in the main loop; a synchronous step is one answered at once.    *)
(***************************************************************************)
EXTENDS Integers

CONSTANTS
  App,            \* the thread that calls ggkRun
  ServerThread,   \* the thread ggkRun starts
  Callers,        \* threads that only ever call ggkTriggerShutdown
  MaxTicks,       \* maxAsyncInitTimeoutMS / kMaxAsyncInitCheckIntervalMS
  InitSteps,      \* number of initialisation steps
  Kept            \* steps whose result uninit does not take back

ASSUME ThreadsAssumption ==
  /\ App # ServerThread
  /\ App \notin Callers
  /\ ServerThread \notin Callers

ASSUME BoundsAssumption ==
  /\ MaxTicks \in Nat \ {0}
  /\ InitSteps \in Nat /\ InitSteps >= 2

Threads == Callers \cup {App, ServerThread}

Steps   == 1 .. InitSteps
BusStep  == 1
NameStep == 2

\* uninit gives the bus connection back and never clears bOwnedNameAcquired.
ASSUME KeptAssumption ==
  /\ Kept \subseteq Steps
  /\ NameStep \in Kept
  /\ BusStep \notin Kept

\* GGKServerRunState, in the order of the enumeration
EUninitialized == 0
EInitializing  == 1
ERunning       == 2
EStopping      == 3
EStopped       == 4

VARIABLES
  runState,   \* serverRunState
  health,     \* serverHealth: "EOk" or "EFailedInit"
  mainLoop,   \* pMainLoop and its is_running flag
  done,       \* initialisation steps that are complete
  pending,    \* steps started and not answered
  retry,      \* retryTimeStart # 0
  timer,      \* the periodic timer: "none" (periodicTimeoutId = 0), "on", or
              \* "ended" by itself, the run state being past ERunning
  app,        \* where App is
  ticks,      \* retryTimeMS of ggkRun
  ret,        \* what ggkRun returned: "none", "ok" (1) or "failed" (0)
  srv,        \* where ServerThread is
  sd          \* where each thread is in shutdown()

vars == <<runState, health, mainLoop, done, pending, retry, timer, app, ticks, ret,
          srv, sd>>

initVars == <<done, pending, retry, timer>>
appVars  == <<app, ticks, ret>>

AppPcs == {"idle", "polling", "timedOut", "check", "serving", "stopping",
           "joining", "returned"}
SrvPcs == {"none", "spawned", "process", "finish", "newLoop", "enterLoop",
           "loop", "shutdown", "exited", "uninit", "done"}
ShutdownPcs == {"out", "set", "hci", "look", "quit"}

Init ==
  /\ runState = EUninitialized
  /\ health = "EOk"
  /\ mainLoop = "null"
  /\ done = {}
  /\ pending = {}
  /\ retry = FALSE
  /\ timer = "none"
  /\ app = "idle"
  /\ ticks = 0
  /\ ret = "none"
  /\ srv = "none"
  /\ sd = [t \in Threads |-> "out"]

-----------------------------------------------------------------------------
(* shutdown(), by any thread.  App and ServerThread call it from the places  *)
(* marked "timedOut" and "stopping" (App) and "shutdown" (ServerThread).     *)

CallsShutdown(t) ==
  \/ t \in Callers
  \/ t = App /\ app \in {"timedOut", "stopping"}
  \/ t = ServerThread /\ srv = "shutdown"

\* Control goes back to the caller.  ServerThread goes back to the handler
\* that failed, whose last act is to call the state processor.
ReturnFromShutdown(t) ==
  /\ app' = IF t # App THEN app
            ELSE IF app = "timedOut" THEN "check" ELSE "joining"
  /\ srv' = IF t = ServerThread THEN "process" ELSE srv
  /\ UNCHANGED <<ticks, ret>>

ShutdownIgnored(t) ==
  /\ CallsShutdown(t) /\ sd[t] = "out"
  /\ runState > ERunning
  /\ ReturnFromShutdown(t)
  /\ UNCHANGED <<runState, health, mainLoop, initVars, sd>>

ShutdownBegins(t) ==
  /\ CallsShutdown(t) /\ sd[t] = "out"
  /\ runState <= ERunning
  /\ sd' = [sd EXCEPT ![t] = "set"]
  /\ UNCHANGED <<runState, health, mainLoop, initVars, appVars, srv>>

ShutdownSetsState(t) ==
  /\ sd[t] = "set"
  /\ runState' = EStopping
  /\ sd' = [sd EXCEPT ![t] = "hci"]
  /\ UNCHANGED <<health, mainLoop, initVars, appVars, srv>>

\* Mgmt::removeAdvertisingInstances() and HciAdapter::stop(): they change the
\* adapter's state and none of this module's, but they take their time.  stop()
\* joins a thread that loops while the run state is at most ERunning, so the step
\* may come and is bound to come only while the state says that the server stops:
\* see Fairness.
ShutdownStopsAdapter(t) ==
  /\ sd[t] = "hci"
  /\ sd' = [sd EXCEPT ![t] = "look"]
  /\ UNCHANGED <<runState, health, mainLoop, initVars, appVars, srv>>

\* The test of pMainLoop and the call of g_main_loop_quit read it twice.
ShutdownFindsNoLoop(t) ==
  /\ sd[t] = "look"
  /\ mainLoop = "null"
  /\ sd' = [sd EXCEPT ![t] = "out"]
  /\ ReturnFromShutdown(t)
  /\ UNCHANGED <<runState, health, mainLoop, initVars>>

ShutdownFindsLoop(t) ==
  /\ sd[t] = "look"
  /\ mainLoop # "null"
  /\ sd' = [sd EXCEPT ![t] = "quit"]
  /\ UNCHANGED <<runState, health, mainLoop, initVars, appVars, srv>>

ShutdownQuitsLoop(t) ==
  /\ sd[t] = "quit"
  /\ mainLoop' = IF mainLoop = "null" THEN "null" ELSE "quit"
  /\ sd' = [sd EXCEPT ![t] = "out"]
  /\ ReturnFromShutdown(t)
  /\ UNCHANGED <<runState, health, initVars>>

ShutdownStep(t) ==
  \/ ShutdownSetsState(t)
  \/ ShutdownStopsAdapter(t)
  \/ ShutdownFindsNoLoop(t)
  \/ ShutdownFindsLoop(t)
  \/ ShutdownQuitsLoop(t)

Shutdown(t) == ShutdownIgnored(t) \/ ShutdownBegins(t) \/ ShutdownStep(t)

-----------------------------------------------------------------------------
(* App: ggkRun, then the wait for the end of the server.                     *)

RunSpawns ==
  /\ app = "idle"
  /\ app' = "polling"
  /\ srv' = "spawned"
  /\ UNCHANGED <<runState, health, mainLoop, initVars, ticks, ret, sd>>

RunCannotSpawn ==   \* std::thread throws std::system_error
  /\ app = "idle"
  /\ app' = "returned"
  /\ ret' = "failed"
  /\ runState' = EStopped
  /\ UNCHANGED <<health, mainLoop, initVars, ticks, srv, sd>>

RunPolls ==
  /\ app = "polling"
  /\ ticks < MaxTicks /\ runState <= EInitializing
  /\ ticks' = ticks + 1
  /\ UNCHANGED <<runState, health, mainLoop, initVars, app, ret, srv, sd>>

RunStopsPolling ==
  /\ app = "polling"
  /\ ~(ticks < MaxTicks /\ runState <= EInitializing)
  /\ IF ticks >= MaxTicks
       THEN health' = "EFailedInit" /\ app' = "timedOut"
       ELSE health' = health        /\ app' = "check"
  /\ UNCHANGED <<runState, mainLoop, initVars, ticks, ret, srv, sd>>

RunSucceeds ==
  /\ app = "check"
  /\ runState = ERunning
  /\ app' = "serving"
  /\ ret' = "ok"
  /\ UNCHANGED <<runState, health, mainLoop, initVars, ticks, srv, sd>>

\* Mutant of RunFails: ggkRun returns without waiting for the server thread.
RunFailsAtOnce ==
  /\ app = "check"
  /\ runState # ERunning
  /\ app' = "returned"
  /\ ret' = "failed"
  /\ UNCHANGED <<runState, health, mainLoop, initVars, ticks, srv, sd>>

RunFails ==         \* ggkWait() follows, inside ggkRun
  /\ app = "check"
  /\ runState # ERunning
  /\ app' = "joining"
  /\ UNCHANGED <<runState, health, mainLoop, initVars, ticks, ret, srv, sd>>

\* ggkShutdownAndWait: the shutdown is skipped when the server is not running.
AppShutsDown ==
  /\ app = "serving"
  /\ runState <= ERunning
  /\ app' = "stopping"
  /\ UNCHANGED <<runState, health, mainLoop, initVars, ticks, ret, srv, sd>>

AppSeesStop ==
  /\ app = "serving"
  /\ runState > ERunning
  /\ app' = "joining"
  /\ UNCHANGED <<runState, health, mainLoop, initVars, ticks, ret, srv, sd>>

\* ggkWait: serverThread.join() has no time limit.
Joins ==
  /\ app = "joining"
  /\ srv = "done"
  /\ app' = "returned"
  /\ ret' = IF ret = "ok" THEN "ok" ELSE "failed"
  /\ UNCHANGED <<runState, health, mainLoop, initVars, ticks, srv, sd>>

AppNext ==
  \/ RunSpawns \/ RunCannotSpawn \/ RunPolls \/ RunStopsPolling
  \/ RunSucceeds \/ RunFails \/ AppShutsDown \/ AppSeesStop \/ Joins

-----------------------------------------------------------------------------
(* ServerThread: runServerThread, initializationStateProcessor.              *)

ThreadStarts ==
  /\ srv = "spawned"
  /\ runState' = EInitializing
  /\ srv' = "process"
  /\ UNCHANGED <<health, mainLoop, initVars, appVars, sd>>

\* The processor is called once before the main loop exists, then by callbacks.
AfterProcessor == IF mainLoop = "null" THEN "newLoop" ELSE "loop"

ProcessorIdle ==
  /\ srv = "process"
  /\ runState > ERunning \/ retry
  /\ srv' = AfterProcessor
  /\ UNCHANGED <<runState, health, mainLoop, initVars, appVars, sd>>

ProcessorStartsStep ==
  /\ srv = "process"
  /\ runState <= ERunning /\ ~retry
  /\ \E i \in Steps \ done :
       /\ \A j \in Steps \ done : i <= j
       /\ pending' = pending \cup {i}
  /\ srv' = AfterProcessor
  /\ UNCHANGED <<runState, health, mainLoop, done, retry, timer, appVars, sd>>

ProcessorFindsUnhealthy ==
  /\ srv = "process"
  /\ runState <= ERunning /\ ~retry
  /\ done = Steps
  /\ health # "EOk"
  /\ srv' = "shutdown"
  /\ UNCHANGED <<runState, health, mainLoop, initVars, appVars, sd>>

ProcessorFinds ==
  /\ srv = "process"
  /\ runState <= ERunning /\ ~retry
  /\ done = Steps
  /\ health = "EOk"
  /\ srv' = "finish"
  /\ UNCHANGED <<runState, health, mainLoop, initVars, appVars, sd>>

ProcessorSetsRunning ==
  /\ srv = "finish"
  /\ runState' = ERunning
  /\ srv' = AfterProcessor
  /\ UNCHANGED <<health, mainLoop, initVars, appVars, sd>>

Processor ==
  \/ ProcessorIdle \/ ProcessorStartsStep \/ ProcessorFindsUnhealthy
  \/ ProcessorFinds \/ ProcessorSetsRunning

CreatesLoop ==
  /\ srv = "newLoop"
  /\ mainLoop' = "new"
  /\ srv' = "enterLoop"
  /\ UNCHANGED <<runState, health, initVars, appVars, sd>>

\* g_main_loop_run sets is_running whatever happened to the loop before.
EntersLoop ==
  /\ srv = "enterLoop"
  /\ mainLoop' = "running"
  /\ srv' = "loop"
  /\ UNCHANGED <<runState, health, initVars, appVars, sd>>

\* Mutant of LeavesLoop: the loop is left only when nothing is outstanding.
LeavesIdleLoop ==
  /\ srv = "loop"
  /\ mainLoop = "quit"
  /\ pending = {}
  /\ srv' = "exited"
  /\ UNCHANGED <<runState, health, mainLoop, initVars, appVars, sd>>

LeavesLoop ==
  /\ srv = "loop"
  /\ mainLoop = "quit"
  /\ srv' = "exited"
  /\ UNCHANGED <<runState, health, mainLoop, initVars, appVars, sd>>

\* Mutant of ThreadSetsStopped: the thread ends without setting the state.
ThreadKeepsState ==
  /\ srv = "exited"
  /\ srv' = "uninit"
  /\ UNCHANGED <<runState, health, mainLoop, initVars, appVars, sd>>

ThreadSetsStopped ==
  /\ srv = "exited"
  /\ runState' = EStopped
  /\ srv' = "uninit"
  /\ UNCHANGED <<health, mainLoop, initVars, appVars, sd>>

\* uninit removes the periodic timer and gives up the owned name, so that its
\* answer never comes; a retry that was asked for stays, retryTimeStart being left
\* alone, and so do the steps in Kept and the other calls without an answer.
Uninit ==
  /\ srv = "uninit"
  /\ mainLoop' = "null"
  /\ timer' = "none"
  /\ done' = done \cap Kept
  /\ pending' = pending \ {NameStep}
  /\ srv' = "done"
  /\ UNCHANGED <<runState, health, retry, appVars, sd>>

ThreadStep ==
  \/ ThreadStarts \/ Processor \/ CreatesLoop \/ EntersLoop \/ LeavesLoop
  \/ ThreadSetsStopped \/ Uninit

-----------------------------------------------------------------------------
(* What D-Bus, BlueZ and the clock make the main loop call.                  *)

\* A step after the name can be under way twice, when the name was lost and
\* acquired again before the first answer.
Answered(i) ==
  \/ pending' = pending \ {i}
  \/ i > NameStep /\ pending' = pending

\* Mutant of StepDone: no periodic timer.
StepDoneWithoutTimer(i) ==
  /\ srv = "loop" /\ i \in pending
  /\ Answered(i)
  /\ done' = done \cup {i}
  /\ srv' = "process"
  /\ UNCHANGED <<runState, health, mainLoop, retry, timer, appVars, sd>>

\* Mutant of StepDone: steps that complete before the main loop exists.
StepDoneBeforeLoop(i) ==
  /\ srv \in {"loop", "newLoop"} /\ i \in pending
  /\ Answered(i)
  /\ done' = done \cup {i}
  /\ timer' = IF i = NameStep THEN "on" ELSE timer
  /\ srv' = "process"
  /\ UNCHANGED <<runState, health, mainLoop, retry, appVars, sd>>

\* An acquisition of the name starts a periodic timer.  It starts another one at
\* each further acquisition: `timer' is about them all, and uninit, which removes
\* the newest, comes when nothing dispatches the older ones any more.
StepDone(i) ==
  /\ srv = "loop" /\ i \in pending
  /\ Answered(i)
  /\ done' = done \cup {i}
  /\ timer' = IF i = NameStep THEN "on" ELSE timer
  /\ srv' = "process"
  /\ UNCHANGED <<runState, health, mainLoop, retry, appVars, sd>>

\* Mutant of StepFails: losing the race for the name again is fatal too.
StepFailsAgain(i) ==
  /\ srv = "loop" /\ i \in pending
  /\ i \in {BusStep, NameStep}
  /\ Answered(i)
  /\ health' = "EFailedInit"
  /\ srv' = "shutdown"
  /\ UNCHANGED <<runState, mainLoop, done, retry, timer, appVars, sd>>

\* The step failed for good: no bus connection, or no name and no timer to try
\* again with.
StepFails(i) ==
  /\ srv = "loop" /\ i \in pending
  /\ i = BusStep \/ (i = NameStep /\ timer = "none")
  /\ Answered(i)
  /\ health' = "EFailedInit"
  /\ srv' = "shutdown"
  /\ UNCHANGED <<runState, mainLoop, done, retry, timer, appVars, sd>>

\* setRetry, setRetryFailure; the processor called next does nothing.  A step that
\* failed half way may look done all the same: registerObjects goes on after an
\* object it could not register, and leaves registeredObjectIds non-empty.
StepRetries(i) ==
  /\ srv = "loop" /\ i \in pending
  /\ i # BusStep /\ (i = NameStep => timer # "none")
  /\ Answered(i)
  /\ retry' = TRUE
  /\ done' = done \/ (i > NameStep /\ done' = done \cup {i})
  /\ UNCHANGED <<runState, health, mainLoop, timer, appVars, srv, sd>>

\* onPeriodicTimer, with the retry delay over.
RetryFires ==
  /\ srv = "loop" /\ timer = "on"
  /\ runState <= ERunning
  /\ retry
  /\ retry' = FALSE
  /\ srv' = "process"
  /\ UNCHANGED <<runState, health, mainLoop, done, pending, timer, appVars, sd>>

\* onPeriodicTimer in a server that stops: the timer is not called again, also if
\* the stop is undone.
TimerEnds ==
  /\ srv = "loop" /\ timer = "on"
  /\ runState > ERunning
  /\ timer' = "ended"
  /\ UNCHANGED <<runState, health, mainLoop, done, pending, retry, appVars, srv, sd>>

\* The owned name is lost after it was acquired: that step is to do again.
NameLost ==
  /\ srv = "loop"
  /\ NameStep \in done
  /\ done' = done \ {NameStep}
  /\ retry' = TRUE
  /\ UNCHANGED <<runState, health, mainLoop, pending, timer, appVars, srv, sd>>

Callback ==
  \/ \E i \in Steps : StepDone(i) \/ StepFails(i) \/ StepRetries(i)
  \/ RetryFires \/ TimerEnds
  \/ NameLost

-----------------------------------------------------------------------------
\* The main loop goes on dispatching idleFunc, which is not modelled here.
Idles ==
  /\ srv = "loop" \/ (app = "returned" /\ srv \in {"none", "done"})
  /\ UNCHANGED vars

Next ==
  \/ AppNext
  \/ ThreadStep
  \/ Callback
  \/ \E t \in Threads : Shutdown(t)
  \/ Idles

Spec == Init /\ [][Next]_vars

\* The operating system runs every thread; GLib tests is_running after every
\* dispatch, so a loop that was told to quit does not dispatch for ever.  Nobody
\* is obliged to call ggkTriggerShutdown, to answer or to fail.  The join inside
\* HciAdapter::stop() is bound to end only while the run state tells the event
\* thread to end (HciAdapter's StopReturns); a late write of ERunning suspends it.
\* A process that HciAdapter ends keeps none of these promises.
Fairness ==
  /\ WF_vars(RunPolls \/ RunStopsPolling \/ RunSucceeds \/ RunFails \/ AppSeesStop)
  /\ WF_vars(Joins)
  /\ WF_vars(ThreadStep)
  /\ SF_vars(LeavesLoop)
  /\ \A t \in Threads :
       /\ WF_vars(ShutdownSetsState(t) \/ ShutdownFindsNoLoop(t)
                  \/ ShutdownFindsLoop(t) \/ ShutdownQuitsLoop(t))
       /\ WF_vars(runState > ERunning /\ ShutdownStopsAdapter(t))
  /\ WF_vars(ShutdownIgnored(App) \/ ShutdownBegins(App))
  /\ WF_vars(ShutdownIgnored(ServerThread) \/ ShutdownBegins(ServerThread))

FairSpec == Spec /\ Fairness

-----------------------------------------------------------------------------
(* Properties.                                                               *)

TypeOK ==
  /\ runState \in EUninitialized .. EStopped
  /\ health \in {"EOk", "EFailedInit"}
  /\ mainLoop \in {"null", "new", "running", "quit"}
  /\ done \subseteq Steps
  /\ pending \subseteq Steps
  /\ retry \in BOOLEAN
  /\ timer \in {"none", "on", "ended"}
  /\ app \in AppPcs
  /\ ticks \in 0 .. MaxTicks
  /\ ret \in {"none", "ok", "failed"}
  /\ srv \in SrvPcs
  /\ sd \in [Threads -> ShutdownPcs]

InLoop == {"loop", "process", "finish", "shutdown"}

\* Until uninit, a retry that has been asked for has a timer that ends the wait, or
\* had one when the server was told to stop: initializationStateProcessor does
\* nothing while retryTimeStart is set and only the periodic timer clears it, so a
\* retry that never had a timer would stop the initialisation for good.
RetryHasTimer == retry /\ srv # "done" => timer # "none"

\* Whoever sees ERunning sees a server whose main loop exists and has been
\* entered, so a shutdown that starts from there cannot miss the loop.
RunningMeansLooping ==
  runState = ERunning =>
    /\ mainLoop \in {"running", "quit"}
    /\ srv \in InLoop \cup {"exited"}

\* Every failure the server thread itself meets stops the server before it is
\* running; only the time limit of ggkRun can leave a running server unhealthy.
UnhealthyRunningMeansTimeout ==
  runState = ERunning /\ health # "EOk" => ticks = MaxTicks

\* Once the server thread has ended nobody reads a running server again, whatever
\* the stale checks of the other threads still write: the application that polls
\* for a state of EStopping or later comes to an end.
EndedServerNotRunning ==
  srv \in {"uninit", "done"} => runState > ERunning

\* A loop that was told to quit while it runs ends the server thread, whatever
\* the callbacks and the other threads do meanwhile.
QuitEndsServer ==
  (srv \in InLoop /\ mainLoop = "quit") ~> (srv = "done")

\* After ggkRun has returned 1, ggkShutdownAndWait, and ggkWait after the server
\* was seen to stop, return, unless a late write of ERunning undoes the stop: then
\* the threads that shut the adapter down are kept waiting.
StopAfterRunReturns ==
  (ret = "ok" /\ app \in {"stopping", "joining"} /\ runState > ERunning)
    ~> (app = "returned" \/ runState <= ERunning)

\* The promise of the public functions to the thread that calls them.
Handle == INSTANCE ServerHandle WITH
  thread  <- IF srv = "none" THEN "none"
             ELSE IF srv = "done" THEN "ended" ELSE "live",
  outcome <- IF ret = "failed" THEN "failed"
             ELSE IF ret = "none" THEN "pending"
             ELSE IF app = "returned" THEN "joined" ELSE "ok",
  stop    <- ret = "ok" /\ app \in {"stopping", "joining", "returned"},
  held    <- runState > ERunning

HandleSpec   == Handle!Spec
HandleSafety == Handle!Init /\ [][Handle!Next]_(Handle!vars)

-----------------------------------------------------------------------------
(* What the documentation says and the code does not keep.                   *)

\* Gobbledegook.h: a shutdown lets the server stabilise, "its event processing
\* loop is terminated and the server is cleaned up".  (A stop that a late write of
\* the run state undoes is HciAdapter's ShutdownReturns.)
ShutdownCompletes ==
  \A t \in Callers :
    (sd[t] = "hci" /\ srv # "none") ~> (srv = "done" \/ runState <= ERunning)
=============================================================================

----------------------- MODULE ServerLifecycle_proofs -----------------------
(***************************************************************************)
(* Safety of ServerLifecycle for any set of callers, any time limit and any  *)
(* number of initialisation steps.                                           *)
(***************************************************************************)
EXTENDS ServerLifecycle, TLAPS

\* Where the server thread is and what it has made of the main loop.
LoopInv ==
  /\ srv \in {"none", "spawned", "newLoop", "done"} => mainLoop = "null"
  /\ srv = "enterLoop" => mainLoop \in {"new", "quit"}
  /\ srv = "process" => mainLoop \in {"null", "running", "quit"}
  /\ srv \in {"loop", "finish", "shutdown"} => mainLoop \in {"running", "quit"}
  /\ srv \in {"exited", "uninit"} => mainLoop = "quit"

\* No step is complete before the main loop runs; a step is started only when
\* those before it are complete, and the name's completion starts the timer, which
\* lives until uninit.
StepInv ==
  /\ srv \in {"none", "spawned", "newLoop", "enterLoop"} => done = {}
  /\ srv = "process" /\ mainLoop = "null" => done = {}
  /\ BusStep \in pending => BusStep \notin done
  /\ srv # "done" =>
       /\ NameStep \in done => timer # "none"
       /\ \A i \in done \cup pending : i > NameStep => timer # "none"
       /\ BusStep \notin done => timer = "none" /\ pending \subseteq {BusStep}
       /\ retry => timer # "none"
  /\ srv = "finish" => timer # "none"
  /\ runState = ERunning => timer # "none"

\* The run state as the server thread left it.
StateInv ==
  /\ runState = ERunning => srv \in InLoop \cup {"exited"}
  /\ srv \in {"uninit", "done"} => runState > ERunning

\* A failure of a step, met by the server thread, leads to a shutdown.
HealthInv ==
  health # "EOk" /\ ticks # MaxTicks =>
    /\ runState # ERunning
    /\ srv \notin {"none", "spawned", "finish"}
    /\ srv # "shutdown" => runState > ERunning
    /\ sd[ServerThread] \in {"hci", "look", "quit"} => runState > ERunning

\* Where App is, what ggkRun returned and where the server thread is.
AppInv ==
  /\ app \in {"idle", "polling", "timedOut", "check"} => ret = "none"
  /\ app \in {"serving", "stopping"} => ret = "ok"
  /\ app = "joining" => ret \in {"none", "ok"}
  /\ app = "returned" => ret # "none"
  /\ app = "idle" => srv = "none"
  /\ app \notin {"idle", "returned"} => srv # "none"
  /\ app = "returned" => srv \in {"none", "done"}

\* A thread is inside shutdown() only where it calls it.
CallInv ==
  /\ sd[App] # "out" => app \in {"timedOut", "stopping"}
  /\ sd[ServerThread] # "out" => srv = "shutdown"

IInv ==
  TypeOK /\ LoopInv /\ StepInv /\ StateInv /\ HealthInv /\ AppInv /\ CallInv

USE DEF EUninitialized, EInitializing, ERunning, EStopping, EStopped

\* Every step of Next is one of the actions, named one by one.
LEMMA NextCases ==
  ASSUME [Next]_vars
  PROVE  \/ RunSpawns \/ RunCannotSpawn \/ RunPolls \/ RunStopsPolling
         \/ RunSucceeds \/ RunFails \/ AppShutsDown \/ AppSeesStop \/ Joins
         \/ ThreadStarts \/ ProcessorIdle \/ ProcessorStartsStep
         \/ ProcessorFindsUnhealthy \/ ProcessorFinds \/ ProcessorSetsRunning
         \/ CreatesLoop \/ EntersLoop \/ LeavesLoop \/ ThreadSetsStopped
         \/ Uninit
         \/ \E i \in Steps : StepDone(i) \/ StepFails(i) \/ StepRetries(i)
         \/ RetryFires \/ TimerEnds \/ NameLost
         \/ \E t \in Threads : Shutdown(t)
         \/ UNCHANGED vars
BY DEF Next, AppNext, ThreadStep, Processor, Callback, Idles

\* Every action keeps the inductive invariant.
LEMMA IInvStep ==
  ASSUME IInv, [Next]_vars
  PROVE  IInv'
<1> USE ThreadsAssumption, BoundsAssumption, KeptAssumption DEF IInv, TypeOK, LoopInv,
    StepInv, StateInv, HealthInv, AppInv, CallInv, InLoop, initVars, appVars,
    Steps, NameStep, BusStep, Threads, AppPcs, SrvPcs, ShutdownPcs
<1>1. CASE RunSpawns
  BY <1>1 DEF RunSpawns
<1>2. CASE RunCannotSpawn
  BY <1>2 DEF RunCannotSpawn
<1>3. CASE RunPolls
  BY <1>3 DEF RunPolls
<1>4. CASE RunStopsPolling
  BY <1>4 DEF RunStopsPolling
<1>5. CASE RunSucceeds
  BY <1>5 DEF RunSucceeds
<1>6. CASE RunFails
  BY <1>6 DEF RunFails
<1>7. CASE AppShutsDown
  BY <1>7 DEF AppShutsDown
<1>8. CASE AppSeesStop
  BY <1>8 DEF AppSeesStop
<1>9. CASE Joins
  BY <1>9 DEF Joins
<1>10. CASE ThreadStarts
  BY <1>10 DEF ThreadStarts
<1>11. CASE ProcessorIdle
  BY <1>11 DEF ProcessorIdle, AfterProcessor
<1>12. CASE ProcessorStartsStep
  BY <1>12 DEF ProcessorStartsStep, AfterProcessor
<1>13. CASE ProcessorFindsUnhealthy
  BY <1>13 DEF ProcessorFindsUnhealthy, AfterProcessor
<1>14. CASE ProcessorFinds
  BY <1>14 DEF ProcessorFinds, AfterProcessor
\* The write of ERunning is late: the state may have been EStopping since the
\* processor tested it.  What it announces is true all the same.
<1>15. CASE ProcessorSetsRunning
  <2>1. mainLoop \in {"running", "quit"} /\ timer # "none"
    BY <1>15 DEF ProcessorSetsRunning
  <2>2. health = "EOk" \/ ticks = MaxTicks
    BY <1>15 DEF ProcessorSetsRunning
  <2>. QED
    BY <1>15, <2>1, <2>2 DEF ProcessorSetsRunning, AfterProcessor
<1>16. CASE CreatesLoop
  BY <1>16 DEF CreatesLoop
<1>17. CASE EntersLoop
  BY <1>17 DEF EntersLoop
<1>18. CASE LeavesLoop
  BY <1>18 DEF LeavesLoop
<1>19. CASE ThreadSetsStopped
  BY <1>19 DEF ThreadSetsStopped
<1>20. CASE Uninit
  BY <1>20 DEF Uninit
<1>21. ASSUME NEW i \in Steps, StepDone(i) PROVE IInv'
  <2>1. StepInv'
    BY <1>21 DEF StepDone, Answered
  <2>2. /\ UNCHANGED <<runState, health, mainLoop, retry, app, ticks, ret, sd>>
        /\ srv = "loop" /\ srv' = "process"
    BY <1>21 DEF StepDone
  <2>3. /\ done' \subseteq Steps /\ pending' \subseteq Steps
        /\ timer' \in {"none", "on", "ended"}
    BY <1>21 DEF StepDone, Answered
  <2>. QED
    BY <2>1, <2>2, <2>3
\* A step that fails for good has never been complete, so neither has the
\* initialisation: the server is not running.
<1>22. ASSUME NEW i \in Steps, StepFails(i) PROVE IInv'
  <2>1. timer = "none"
    BY <1>22 DEF StepFails
  <2>2. runState # ERunning
    BY <2>1
  <2>3. sd[ServerThread] = "out"
    BY <1>22 DEF StepFails
  <2>. QED
    BY <1>22, <2>1, <2>2, <2>3 DEF StepFails, Answered
<1>23. ASSUME NEW i \in Steps, StepRetries(i) PROVE IInv'
  <2>1. StepInv'
    BY <1>23 DEF StepRetries, Answered
  <2>2. UNCHANGED <<runState, health, mainLoop, timer, app, ticks, ret, srv, sd>>
    BY <1>23 DEF StepRetries
  <2>3. done' \subseteq Steps /\ pending' \subseteq Steps /\ retry' \in BOOLEAN
    BY <1>23 DEF StepRetries, Answered
  <2>. QED
    BY <2>1, <2>2, <2>3
<1>24. CASE RetryFires \/ TimerEnds
  BY <1>24 DEF RetryFires, TimerEnds
<1>25. CASE NameLost
  BY <1>25 DEF NameLost
<1>26. ASSUME NEW t \in Threads, ShutdownIgnored(t) PROVE IInv'
  BY <1>26 DEF ShutdownIgnored, ReturnFromShutdown, CallsShutdown, Threads
<1>27. ASSUME NEW t \in Threads, ShutdownBegins(t) PROVE IInv'
  BY <1>27 DEF ShutdownBegins, ReturnFromShutdown, CallsShutdown, Threads
<1>28. ASSUME NEW t \in Threads, ShutdownSetsState(t) PROVE IInv'
  BY <1>28 DEF ShutdownSetsState, ReturnFromShutdown, CallsShutdown, Threads
<1>29. ASSUME NEW t \in Threads, ShutdownStopsAdapter(t) PROVE IInv'
  BY <1>29 DEF ShutdownStopsAdapter, ReturnFromShutdown, CallsShutdown, Threads
<1>30. ASSUME NEW t \in Threads, ShutdownFindsNoLoop(t) PROVE IInv'
  BY <1>30 DEF ShutdownFindsNoLoop, ReturnFromShutdown, CallsShutdown, Threads
<1>31. ASSUME NEW t \in Threads, ShutdownFindsLoop(t) PROVE IInv'
  BY <1>31 DEF ShutdownFindsLoop, ReturnFromShutdown, CallsShutdown, Threads
<1>32. ASSUME NEW t \in Threads, ShutdownQuitsLoop(t) PROVE IInv'
  BY <1>32 DEF ShutdownQuitsLoop, ReturnFromShutdown, CallsShutdown, Threads
<1>33. CASE UNCHANGED vars
  BY <1>33 DEF vars
<1>. QED
  BY NextCases, <1>1, <1>2, <1>3, <1>4, <1>5, <1>6, <1>7, <1>8, <1>9, <1>10,
      <1>11, <1>12, <1>13, <1>14, <1>15, <1>16, <1>17, <1>18, <1>19, <1>20,
      <1>21, <1>22, <1>23, <1>24, <1>25, <1>26, <1>27, <1>28, <1>29, <1>30,
      <1>31, <1>32, <1>33 DEF Shutdown, ShutdownStep

\* The initial state is in the types of the variables.
LEMMA InitTypes == Init => TypeOK
<1> SUFFICES ASSUME Init PROVE TypeOK
  OBVIOUS
<1>1. sd \in [Threads -> ShutdownPcs]
  BY DEF Init, ShutdownPcs
<1>2. ticks \in 0 .. MaxTicks
  BY BoundsAssumption DEF Init
<1>3. runState \in EUninitialized .. EStopped
  BY DEF Init
<1>4. done \subseteq Steps /\ pending \subseteq Steps
  BY DEF Init
<1>5. retry \in BOOLEAN /\ timer \in {"none", "on", "ended"}
  BY Zenon DEF Init
<1>6. /\ health \in {"EOk", "EFailedInit"}
      /\ mainLoop \in {"null", "new", "running", "quit"}
      /\ app \in AppPcs /\ srv \in SrvPcs
      /\ ret \in {"none", "ok", "failed"}
  BY DEF Init, AppPcs, SrvPcs
<1>. QED
  BY <1>1, <1>2, <1>3, <1>4, <1>5, <1>6 DEF TypeOK

\* The inductive invariant: types, the place of the server thread against the
\* main loop, the order of the steps, and what each thread is inside of.
THEOREM Invariance == Spec => []IInv
<1>1. Init => IInv
  <2> SUFFICES ASSUME Init PROVE IInv
    OBVIOUS
  <2>1. sd[App] = "out" /\ sd[ServerThread] = "out"
    BY DEF Init, Threads
  <2>. QED
    BY <2>1, InitTypes DEF Init, IInv, LoopInv, StepInv, StateInv, HealthInv,
                           AppInv, CallInv, InLoop
<1>2. IInv /\ [Next]_vars => IInv'
  BY IInvStep
<1>. QED
  BY <1>1, <1>2, PTL DEF Spec

\* The variables of the lifecycle stay in their types.
THEOREM TypeCorrect == Spec => []TypeOK
<1>1. IInv => TypeOK
  BY DEF IInv
<1>. QED
  BY <1>1, Invariance, PTL

\* Until uninit, initializationStateProcessor waits for a retry only when the
\* periodic timer that ends the wait was started.
THEOREM RetryTimerExists == Spec => []RetryHasTimer
<1>1. IInv => RetryHasTimer
  BY DEF IInv, StepInv, RetryHasTimer
<1>. QED
  BY <1>1, Invariance, PTL

\* ERunning is read only while the server thread is in its main loop.
THEOREM RunningLoops == Spec => []RunningMeansLooping
<1>1. IInv => RunningMeansLooping
  BY DEF IInv, TypeOK, LoopInv, StateInv, StepInv, RunningMeansLooping, InLoop,
         NameStep
<1>. QED
  BY <1>1, Invariance, PTL

\* A running server is unhealthy only through the time limit of ggkRun.
THEOREM UnhealthyOnlyByTimeout == Spec => []UnhealthyRunningMeansTimeout
<1>1. IInv => UnhealthyRunningMeansTimeout
  BY DEF IInv, HealthInv, UnhealthyRunningMeansTimeout
<1>. QED
  BY <1>1, Invariance, PTL

\* Nobody reads a running server once its thread has ended.
THEOREM EndedNotRunning == Spec => []EndedServerNotRunning
<1>1. IInv => EndedServerNotRunning
  BY DEF IInv, StateInv, EndedServerNotRunning
<1>. QED
  BY <1>1, Invariance, PTL

\* Every step of the program is a step of the handle, or none that it shows.
LEMMA HandleStep ==
  ASSUME IInv, [Next]_vars
  PROVE  [Handle!Next]_(Handle!vars)
<1> USE ThreadsAssumption, BoundsAssumption
    DEF IInv, AppInv, LoopInv, StateInv, CallInv, InLoop, initVars, appVars,
        Handle!vars, TypeOK
<1>1. CASE RunSpawns
  <2>. Handle!Start
    BY <1>1 DEF RunSpawns, Handle!Start
  <2>. QED
    BY DEF Handle!Next
<1>2. CASE RunCannotSpawn
  <2>. Handle!Fail
    BY <1>2 DEF RunCannotSpawn, Handle!Fail
  <2>. QED
    BY DEF Handle!Next
<1>3. CASE RunPolls \/ RunStopsPolling \/ RunFails
  BY <1>3 DEF RunPolls, RunStopsPolling, RunFails
<1>4. CASE RunSucceeds
  <2>. Handle!Succeed
    BY <1>4 DEF RunSucceeds, Handle!Succeed
  <2>. QED
    BY DEF Handle!Next
<1>5. CASE AppShutsDown \/ AppSeesStop
  <2>. Handle!AskToStop
    BY <1>5 DEF AppShutsDown, AppSeesStop, Handle!AskToStop
  <2>. QED
    BY DEF Handle!Next
<1>6. CASE Joins
  <2>1. CASE ret = "ok"
    <3>. Handle!Join
      BY <1>6, <2>1 DEF Joins, Handle!Join
    <3>. QED
      BY DEF Handle!Next
  <2>2. CASE ret = "none"
    <3>. Handle!Fail
      BY <1>6, <2>2 DEF Joins, Handle!Fail
    <3>. QED
      BY DEF Handle!Next
  <2>. QED
    BY <1>6, <2>1, <2>2 DEF Joins
<1>7. CASE ThreadStarts \/ ProcessorSetsRunning
  <2>1. UNCHANGED <<app, ret>> /\ srv \notin {"none", "done"}
        /\ srv' \notin {"none", "done"} /\ ~(runState' > ERunning)
    BY <1>7 DEF ThreadStarts, ProcessorSetsRunning, AfterProcessor
  <2>2. CASE runState > ERunning
    <3>. Handle!SetBack
      BY <2>1, <2>2 DEF Handle!SetBack
    <3>. QED
      BY DEF Handle!Next
  <2>3. CASE ~(runState > ERunning)
    BY <2>1, <2>3
  <2>. QED
    BY <2>2, <2>3
<1>8. CASE ProcessorIdle \/ ProcessorStartsStep \/ ProcessorFindsUnhealthy
           \/ ProcessorFinds \/ CreatesLoop \/ EntersLoop \/ LeavesLoop
  BY <1>8 DEF ProcessorIdle, ProcessorStartsStep, ProcessorFindsUnhealthy,
              ProcessorFinds, AfterProcessor, CreatesLoop, EntersLoop, LeavesLoop
<1>9. CASE ThreadSetsStopped
  <2>1. UNCHANGED <<app, ret>> /\ srv = "exited" /\ srv' = "uninit"
        /\ runState' > ERunning
    BY <1>9 DEF ThreadSetsStopped
  <2>2. CASE runState > ERunning
    BY <2>1, <2>2
  <2>3. CASE ~(runState > ERunning)
    <3>. Handle!Hold
      BY <2>1, <2>3 DEF Handle!Hold
    <3>. QED
      BY DEF Handle!Next
  <2>. QED
    BY <2>2, <2>3
<1>10. CASE Uninit
  <2>. Handle!End
    BY <1>10 DEF Uninit, Handle!End
  <2>. QED
    BY DEF Handle!Next
<1>11. CASE Callback
  BY <1>11 DEF Callback, StepDone, StepFails, StepRetries, RetryFires, TimerEnds,
               NameLost
<1>12. ASSUME NEW t \in Threads, ShutdownSetsState(t)
       PROVE  [Handle!Next]_(Handle!vars)
  <2>1. UNCHANGED <<app, ret, srv>> /\ runState' > ERunning
    BY <1>12 DEF ShutdownSetsState
  <2>2. CASE runState > ERunning
    BY <2>1, <2>2
  <2>3. CASE ~(runState > ERunning)
    <3>. Handle!Hold
      BY <2>1, <2>3 DEF Handle!Hold
    <3>. QED
      BY DEF Handle!Next
  <2>. QED
    BY <2>2, <2>3
<1>13. ASSUME NEW t \in Threads, Shutdown(t), ~ShutdownSetsState(t)
       PROVE  UNCHANGED Handle!vars
  BY <1>13 DEF Shutdown, ShutdownStep, ShutdownIgnored, ShutdownBegins,
               ShutdownStopsAdapter, ShutdownFindsNoLoop,
               ShutdownFindsLoop, ShutdownQuitsLoop, ReturnFromShutdown,
               CallsShutdown, Threads
<1>14. CASE UNCHANGED vars
  BY <1>14 DEF vars
<1>. QED
  BY NextCases, <1>1, <1>2, <1>3, <1>4, <1>5, <1>6, <1>7, <1>8, <1>9, <1>10,
     <1>11, <1>12, <1>13, <1>14 DEF Callback, Processor

\* ggkRun and ggkWait keep their promise to the thread that calls them: 0 only
\* without a server thread, 1 only with one, and a wait ends only after it.
THEOREM ImplementsHandle == Spec => HandleSafety
<1>1. Init => Handle!Init
  BY DEF Init, Handle!Init
<1>2. IInv /\ [Next]_vars => [Handle!Next]_(Handle!vars)
  BY HandleStep
<1>. QED
  BY <1>1, <1>2, Invariance, PTL DEF Spec, HandleSafety

=============================================================================

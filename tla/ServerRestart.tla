---------------------------- MODULE ServerRestart ----------------------------
(***************************************************************************)
(* An application that calls ggkRun again after ggkWait has joined the first *)
(* server thread.  ServerLifecycle starts from the values that the program    *)
(* is loaded with; this module goes on from what uninit leaves behind.        *)
(***************************************************************************)
EXTENDS ServerLifecycle

CONSTANT MaxRuns     \* bound: calls of ggkRun

VARIABLES
  runs,       \* calls of ggkRun so far
  made        \* steps that have been completed since the last of them (ghost)

restartVars == <<vars, runs, made>>

RestartInit == Init /\ runs = 1 /\ made = {}

\* The name can only be lost by a server that has asked for it: uninit gives up
\* the name of the server before.
NameIsOwned == NameStep \in done \ done' => NameStep \in made

RunNext ==
  /\ Next /\ NameIsOwned
  /\ made' = made \cup (done' \ done)
  /\ runs' = runs

\* ggkRun resets nothing: the new thread finds what Uninit has left.
RunsAgain ==
  /\ app = "returned" /\ srv = "done" /\ runs < MaxRuns
  /\ runs' = runs + 1 /\ made' = {}
  /\ app' = "polling" /\ srv' = "spawned" /\ ticks' = 0 /\ ret' = "none"
  /\ UNCHANGED <<runState, health, mainLoop, initVars, sd>>

RestartNext == RunNext \/ RunsAgain

RestartSpec == RestartInit /\ [][RestartNext]_restartVars

-----------------------------------------------------------------------------
(* What the documentation says and the code does not keep.                   *)

\* ggkRun "registers it with BlueZ over D-Bus, starts the main event loop, and begins
\* advertising the configured services": a server is running when every step of the
\* initialisation has been taken for it.
RunningIsRegistered == runState = ERunning => made = Steps
=============================================================================

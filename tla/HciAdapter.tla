----------------------------- MODULE HciAdapter -----------------------------
(***************************************************************************)
(* HciAdapter.cpp over HciSocket.cpp: sendCommand from any thread, the event *)
(* thread that reads the answers, the watchdog thread, start and stop, with  *)
(* the part of shutdown() that uses them.  The controller and its kernel     *)
(* driver are the environment: they answer a command once, late or never,    *)
(* and the answers travel through the socket in order.                       *)
(*                                                                          *)
(*   Senders   threads that send commands at any time (the server thread:    *)
(*             configureAdapter, idleFunc)                                   *)
(*   Stoppers  threads that call shutdown(), once each                       *)
(*   Watchdog  the thread of runWatchdogThread                               *)
(*                                                                          *)
(* A command carries a ghost identity that the code does not have: an answer *)
(* is matched by its command code alone.                                     *)
(***************************************************************************)
EXTENDS Integers, Sequences

CONSTANTS
  Senders, Stoppers, Watchdog,   \* the threads
  SenderOps,    \* the command codes Senders use
  Instances,    \* supportedAdvertisingInstances
  Ids,          \* identities of commands whose answer is under way: a bound
  Faults,       \* which faults of the environment to allow, out of FaultKinds
  Nothing       \* no identity, no thread, no code

FaultKinds == {"refuse",      \* the controller answers with an error status
               "malformed",   \* an answer has a length the code rejects
               "start"}       \* connecting or creating a thread fails

Clients   == Senders \cup Stoppers \cup {Watchdog}
ReadInfo  == "EReadControllerInformationCommand"
AddAdv    == "EAddAdvertisingCommand"
RemoveAdv == "ERemoveAdvertisingCommand"
Ops       == SenderOps \cup {ReadInfo, RemoveAdv}

ASSUME AdapterAssumption ==
  /\ Senders \cap Stoppers = {} /\ Watchdog \notin Senders \cup Stoppers
  /\ Instances \in Nat \ {0}
  /\ Faults \subseteq FaultKinds
  /\ Nothing \notin Clients \cup Ids \cup Ops

Commands  == {c \in [op : Ops, arg : 0 .. Instances] : c.op = AddAdv => c.arg # 0}
Answers   == [op : Ops, id : Ids, ok : BOOLEAN, bad : BOOLEAN]
NoAnswer  == [op |-> Nothing, id |-> Nothing, ok |-> FALSE, bad |-> FALSE]

MaxFailures == 3                            \* checks runWatchdogThread forgives

VARIABLES
  running,       \* ggkGetServerRunState() <= ERunning
  due,           \* the server thread is about to write such a run state
  dead,          \* std::_Exit or std::terminate has ended the process
  sock,          \* hciSocket.isConnected()
  rx,            \* events in the socket
  outstanding,   \* id |-> the command the controller may still answer, or Nothing
  advertised,    \* advertising instances the controller holds
  ev,            \* eventThread: "none" when not joinable
  evt,           \* the event it has read
  answer,        \* conditionalValue and commandResponseSuccess
  wd,            \* watchdogThread: "none" when not joinable
  failures,      \* consecutiveFailures
  watchdogStop,
  sendLock,      \* holder of commandSendMutex
  pc,            \* where each client is in sendCommand
  cmd, cur,      \* its command, and the identity it was written under
  result,        \* what the watchdog's last sendCommand returned
  st,            \* where each stopper is in shutdown()
  inst,          \* the next instance its loop removes
  late           \* ghost: some command was given up while it could be answered

sockVars  == <<sock, rx, outstanding, advertised>>
evVars    == <<ev, evt>>
wdVars    == <<wd, failures, watchdogStop>>
callVars  == <<sendLock, pc, cmd, cur, result>>
stopVars  == <<st, inst>>
vars == <<running, due, dead, sockVars, evVars, answer, wdVars, callVars, stopVars,
          late>>

EvPcs   == {"none", "top", "reading", "handling", "closing", "exited"}
WdPcs   == {"none", "sleep", "checking", "ended"}
CallPcs == {"idle", "want", "locked", "send", "wait"}
StopPcs == {"out", "set", "removing", "stopping", "joinWatchdog", "lookEvent",
            "joinEvent", "done"}

Init ==
  /\ running = TRUE /\ due = TRUE /\ dead = FALSE
  /\ sock = FALSE /\ rx = <<>>
  /\ outstanding = [i \in Ids |-> Nothing]
  /\ advertised = {}
  /\ ev = "none" /\ evt = NoAnswer
  /\ answer = NoAnswer
  /\ wd = "none" /\ failures = 0 /\ watchdogStop = FALSE
  /\ sendLock = Nothing
  /\ pc = [t \in Clients |-> "idle"]
  /\ cmd = [t \in Clients |-> [op |-> ReadInfo, arg |-> 0]]
  /\ cur = [t \in Clients |-> Nothing]
  /\ result = FALSE
  /\ st = [t \in Stoppers |-> "out"]
  /\ inst = [t \in Stoppers |-> 1]
  /\ late = FALSE

-----------------------------------------------------------------------------
(* sendCommand                                                               *)

Calls(t, op, arg) ==
  /\ pc[t] = "idle"
  /\ pc' = [pc EXCEPT ![t] = "want"]
  /\ cmd' = [cmd EXCEPT ![t] = [op |-> op, arg |-> arg]]
  /\ UNCHANGED <<sendLock, cur, result>>

\* Mutant: the early return leaves commandSendMutex locked.
ReturnsHolding(t, value) ==
  /\ pc' = [pc EXCEPT ![t] = "idle"]
  /\ cur' = [cur EXCEPT ![t] = Nothing]
  /\ result' = IF t = Watchdog THEN value ELSE result
  /\ UNCHANGED <<cmd, sendLock>>

Returns(t, value) ==
  /\ pc' = [pc EXCEPT ![t] = "idle"]
  /\ cur' = [cur EXCEPT ![t] = Nothing]
  /\ result' = IF t = Watchdog THEN value ELSE result
  /\ sendLock' = Nothing
  /\ UNCHANGED cmd

\* Mutant: sendCommand without commandSendMutex.
TakesNoLock(t) ==
  /\ pc[t] = "want"
  /\ sendLock' = t
  /\ pc' = [pc EXCEPT ![t] = "locked"]
  /\ UNCHANGED <<running, due, dead, sockVars, evVars, answer, wdVars, cmd, cur,
                 result, stopVars, late>>

TakesSendLock(t) ==
  /\ pc[t] = "want"
  /\ sendLock = Nothing
  /\ sendLock' = t
  /\ pc' = [pc EXCEPT ![t] = "locked"]
  /\ UNCHANGED <<running, due, dead, sockVars, evVars, answer, wdVars, cmd, cur,
                 result, stopVars, late>>

FindsThread(t) ==
  /\ pc[t] = "locked"
  /\ ev # "none"
  /\ pc' = [pc EXCEPT ![t] = "send"]
  /\ UNCHANGED <<running, due, dead, sockVars, evVars, answer, wdVars, sendLock, cmd,
                 cur, result, stopVars, late>>

\* start(): a socket that is still open is used as it is, with what it holds.
Connects == sock' = TRUE /\ rx' = IF sock THEN rx ELSE <<>>

Starts(t) ==
  /\ pc[t] = "locked"
  /\ ev = "none" /\ wd = "none"
  /\ Connects
  /\ ev' = "top" /\ evt' = NoAnswer
  /\ watchdogStop' = FALSE
  /\ wd' = "sleep" /\ failures' = 0
  /\ pc' = [pc EXCEPT ![t] = "send"]
  /\ UNCHANGED <<running, due, dead, outstanding, advertised, answer, sendLock, cmd,
                 cur, result, stopVars, late>>

\* Assigning over a joinable std::thread calls std::terminate.
StartTerminates(t) ==
  /\ pc[t] = "locked"
  /\ ev = "none" /\ wd # "none"
  /\ dead' = TRUE
  /\ UNCHANGED <<running, due, sockVars, evVars, answer, wdVars, callVars, stopVars, late>>

\* No socket, no event thread, or an event thread without a watchdog.
StartFails(t) ==
  /\ pc[t] = "locked"
  /\ ev = "none" /\ "start" \in Faults
  /\ \/ ~sock /\ UNCHANGED <<sock, rx, ev, evt, watchdogStop>>
     \/ Connects /\ UNCHANGED <<ev, evt, watchdogStop>>
     \/ Connects /\ ev' = "top" /\ evt' = NoAnswer /\ watchdogStop' = FALSE
  /\ Returns(t, FALSE)
  /\ UNCHANGED <<running, due, dead, outstanding, advertised, answer, wd, failures,
                 stopVars, late>>

\* No command and no answer under way bears the identity.
IsFree(i) ==
  /\ outstanding[i] = Nothing
  /\ \A k \in 1 .. Len(rx) : rx[k].id # i
  /\ evt.id # i

\* From the reset of the answer to the wait commandResponseMutex is held, so no
\* answer is recorded in between.  A command the controller will never answer
\* gets no identity; nor does one written when Ids are used up.
Writes(t) ==
  /\ pc[t] = "send"
  /\ sock
  /\ answer' = NoAnswer
  /\ \/ UNCHANGED <<outstanding, cur>>
     \/ \E i \in Ids :
          /\ IsFree(i)
          /\ outstanding' = [outstanding EXCEPT ![i] = cmd[t]]
          /\ cur' = [cur EXCEPT ![t] = i]
  /\ pc' = [pc EXCEPT ![t] = "wait"]
  /\ UNCHANGED <<running, due, dead, sock, rx, advertised, evVars, wdVars, sendLock,
                 cmd, result, stopVars, late>>

WriteFails(t) ==
  /\ pc[t] = "send"
  /\ ~sock
  /\ answer' = NoAnswer
  /\ Returns(t, FALSE)
  /\ UNCHANGED <<running, due, dead, sockVars, evVars, wdVars, stopVars, late>>

IsAnswered(t) == answer.op = cmd[t].op

Wakes(t) ==
  /\ pc[t] = "wait"
  /\ IsAnswered(t)
  /\ Returns(t, answer.ok)
  /\ UNCHANGED <<running, due, dead, sockVars, evVars, answer, wdVars, stopVars, late>>

TimesOut(t) ==
  /\ pc[t] = "wait"
  /\ ~IsAnswered(t)
  /\ Returns(t, FALSE)
  /\ late' = TRUE
  /\ UNCHANGED <<running, due, dead, sockVars, evVars, answer, wdVars, stopVars>>

SendStep(t) ==
  \/ FindsThread(t) \/ Starts(t) \/ StartTerminates(t) \/ StartFails(t)
  \/ Writes(t) \/ WriteFails(t) \/ Wakes(t) \/ TimesOut(t)

Sends(t) ==
  /\ ~due
  /\ \E op \in SenderOps :
       \E arg \in IF op = AddAdv THEN 1 .. Instances ELSE {0} : Calls(t, op, arg)
  /\ UNCHANGED <<running, due, dead, sockVars, evVars, answer, wdVars, stopVars, late>>

-----------------------------------------------------------------------------
(* What the server thread writes into the run state: EInitializing when it    *)
(* starts, whatever the state is by then, and ERunning at the end of the       *)
(* initialisation, which a lost name makes it come to again.  Neither write is *)
(* one step with a test of the state.                                         *)

\* The processor finds all done in a server that is not being stopped.
ProcessorChecks ==
  /\ running /\ ~due
  /\ \A t \in Senders : pc[t] = "idle"
  /\ due' = TRUE
  /\ UNCHANGED <<running, dead, sockVars, evVars, answer, wdVars, callVars,
                 stopVars, late>>

\* The write undoes a stop that came in between.
ServerThreadAnnounces ==
  /\ due
  /\ due' = FALSE
  /\ running' = TRUE
  /\ UNCHANGED <<dead, sockVars, evVars, answer, wdVars, callVars, stopVars, late>>

ServerThread == ProcessorChecks \/ ServerThreadAnnounces

-----------------------------------------------------------------------------
(* runEventThread, HciSocket::read                                           *)

EventLoopTests ==
  /\ ev = "top"
  /\ ev' = IF running /\ sock THEN "reading" ELSE "closing"
  /\ UNCHANGED <<running, due, dead, sockVars, evt, answer, wdVars, callVars,
                 stopVars, late>>

EventRead ==
  /\ ev = "reading"
  /\ rx # <<>>
  /\ evt' = Head(rx)
  /\ rx' = Tail(rx)
  /\ ev' = "handling"
  /\ UNCHANGED <<running, due, dead, sock, outstanding, advertised, answer, wdVars,
                 callVars, stopVars, late>>

\* waitForDataOrShutdown sees the shutdown, or select or recv fail (a signal,
\* the end of the file).
ReadFails ==
  /\ ev = "reading"
  /\ ev' = "closing"
  /\ UNCHANGED <<running, due, dead, sockVars, evt, answer, wdVars, callVars,
                 stopVars, late>>

SetCommandResponse ==
  /\ ev = "handling"
  /\ ~evt.bad
  /\ answer' = evt
  /\ evt' = NoAnswer
  /\ ev' = "top"
  /\ UNCHANGED <<running, due, dead, sockVars, wdVars, callVars, stopVars, late>>

\* "Invalid data length": the thread returns from within its loop.
RejectsLength ==
  /\ ev = "handling"
  /\ evt.bad
  /\ evt' = NoAnswer
  /\ ev' = "exited"
  /\ UNCHANGED <<running, due, dead, sockVars, answer, wdVars, callVars, stopVars, late>>

Disconnects ==
  /\ ev = "closing"
  /\ sock' = FALSE /\ rx' = <<>>
  /\ ev' = "exited"
  /\ UNCHANGED <<running, due, dead, outstanding, advertised, evt, answer, wdVars,
                 callVars, stopVars, late>>

EventStep ==
  EventLoopTests \/ EventRead \/ SetCommandResponse \/ RejectsLength \/ Disconnects

-----------------------------------------------------------------------------
(* runWatchdogThread                                                         *)

WatchdogChecks ==
  /\ wd = "sleep" /\ ~watchdogStop
  /\ wd' = "checking"
  /\ Calls(Watchdog, ReadInfo, 0)
  /\ UNCHANGED <<running, due, dead, sockVars, evVars, answer, failures, watchdogStop,
                 stopVars, late>>

WatchdogEnds ==
  /\ wd = "sleep" /\ watchdogStop
  /\ wd' = "ended"
  /\ UNCHANGED <<running, due, dead, sockVars, evVars, answer, failures, watchdogStop,
                 callVars, stopVars, late>>

WatchdogPasses ==
  /\ wd = "checking" /\ pc[Watchdog] = "idle"
  /\ result
  /\ failures' = 0
  /\ wd' = "sleep"
  /\ UNCHANGED <<running, due, dead, sockVars, evVars, answer, watchdogStop, callVars,
                 stopVars, late>>

\* Mutant: the count starts afresh with each check.
WatchdogCountsAfresh ==
  /\ wd = "checking" /\ pc[Watchdog] = "idle"
  /\ failures' = 1
  /\ dead' = (failures' >= MaxFailures)
  /\ wd' = "sleep"
  /\ UNCHANGED <<running, due, sockVars, evVars, answer, watchdogStop, callVars,
                 stopVars, late>>

\* The check failed, or the controller answered that it is powered off.
WatchdogCounts ==
  /\ wd = "checking" /\ pc[Watchdog] = "idle"
  /\ failures' = failures + 1
  /\ dead' = (failures' >= MaxFailures)
  /\ wd' = "sleep"
  /\ UNCHANGED <<running, due, sockVars, evVars, answer, watchdogStop, callVars,
                 stopVars, late>>

\* What is the watchdog's own to do; that the controller is found powered off
\* is not.
WatchdogStep ==
  WatchdogChecks \/ WatchdogEnds \/ WatchdogPasses
    \/ (~result /\ WatchdogCounts)

-----------------------------------------------------------------------------
(* shutdown(): the state, Mgmt::removeAdvertisingInstances, stop()           *)

AdapterUntouched == UNCHANGED <<due, dead, sockVars, evVars, answer, late>>

ShutdownBegins(s) ==
  /\ st[s] = "out" /\ running
  /\ st' = [st EXCEPT ![s] = "set"]
  /\ AdapterUntouched /\ UNCHANGED <<running, wdVars, callVars, inst>>

ShutdownSetsState(s) ==
  /\ st[s] = "set"
  /\ running' = FALSE
  /\ st' = [st EXCEPT ![s] = "removing"]
  /\ AdapterUntouched /\ UNCHANGED <<wdVars, callVars, inst>>

RemovesInstance(s) ==
  /\ st[s] = "removing" /\ inst[s] <= Instances
  /\ Calls(s, RemoveAdv, inst[s])
  /\ inst' = [inst EXCEPT ![s] = @ + 1]
  /\ AdapterUntouched /\ UNCHANGED <<running, wdVars, st>>

\* Mutant: stop() closes the socket under the event thread.
StopsSocket(s) ==
  /\ st[s] = "removing" /\ inst[s] > Instances /\ pc[s] = "idle"
  /\ watchdogStop' = TRUE
  /\ sock' = FALSE /\ rx' = <<>>
  /\ st' = [st EXCEPT ![s] = "stopping"]
  /\ UNCHANGED <<running, due, dead, outstanding, advertised, evVars, answer, wd,
                 failures, callVars, inst, late>>

StopsWatchdog(s) ==
  /\ st[s] = "removing" /\ inst[s] > Instances /\ pc[s] = "idle"
  /\ watchdogStop' = TRUE
  /\ st' = [st EXCEPT ![s] = "stopping"]
  /\ AdapterUntouched /\ UNCHANGED <<running, wd, failures, callVars, inst>>

\* Mutant: the watchdog is told to stop and not joined.
LeavesWatchdog(s) ==
  /\ st[s] = "stopping"
  /\ st' = [st EXCEPT ![s] = "lookEvent"]
  /\ AdapterUntouched /\ UNCHANGED <<running, wdVars, callVars, inst>>

LooksForWatchdog(s) ==
  /\ st[s] = "stopping"
  /\ st' = [st EXCEPT ![s] = IF wd = "none" THEN "lookEvent" ELSE "joinWatchdog"]
  /\ AdapterUntouched /\ UNCHANGED <<running, wdVars, callVars, inst>>

JoinsWatchdog(s) ==
  /\ st[s] = "joinWatchdog" /\ wd = "ended"
  /\ wd' = "none"
  /\ st' = [st EXCEPT ![s] = "lookEvent"]
  /\ AdapterUntouched
  /\ UNCHANGED <<running, failures, watchdogStop, callVars, inst>>

LooksForEventThread(s) ==
  /\ st[s] = "lookEvent"
  /\ st' = [st EXCEPT ![s] = IF ev = "none" THEN "done" ELSE "joinEvent"]
  /\ AdapterUntouched /\ UNCHANGED <<running, wdVars, callVars, inst>>

JoinsEventThread(s) ==
  /\ st[s] = "joinEvent" /\ ev = "exited"
  /\ ev' = "none"
  /\ st' = [st EXCEPT ![s] = "done"]
  /\ UNCHANGED <<running, due, dead, sockVars, evt, answer, wdVars, callVars, inst, late>>

\* A join of a thread that another call joins or has joined since it was found
\* joinable fails with EINVAL.  The exception ends the process; around the event
\* thread's join it is caught.
JoinsTwice(s) ==
  /\ \/ st[s] = "joinWatchdog" /\ wd = "none"
     \/ st[s] = "joinEvent" /\ ev = "none"
     \/ \E o \in Stoppers \ {s} :
          st[s] \in {"joinWatchdog", "joinEvent"} /\ st[o] = st[s]
  /\ IF st[s] = "joinWatchdog"
       THEN dead' = TRUE /\ UNCHANGED st
       ELSE st' = [st EXCEPT ![s] = "done"] /\ UNCHANGED dead
  /\ UNCHANGED <<running, due, sockVars, evVars, answer, wdVars, callVars, inst, late>>

StopStep(s) ==
  \/ ShutdownSetsState(s) \/ RemovesInstance(s) \/ StopsWatchdog(s)
  \/ LooksForWatchdog(s) \/ JoinsWatchdog(s)
  \/ LooksForEventThread(s) \/ JoinsEventThread(s)

-----------------------------------------------------------------------------
(* The controller                                                            *)

Effect(command, ok) ==
  IF ~ok THEN advertised
  ELSE CASE command.op = AddAdv    -> advertised \cup {command.arg}
         [] command.op = RemoveAdv -> advertised \ {command.arg}
         [] OTHER                  -> advertised

ControllerAnswers(i) ==
  /\ outstanding[i] # Nothing
  /\ outstanding' = [outstanding EXCEPT ![i] = Nothing]
  /\ \E ok, bad \in BOOLEAN :
       /\ ok \/ "refuse" \in Faults
       /\ bad => "malformed" \in Faults
       /\ rx' = IF sock
                  THEN Append(rx, [op |-> outstanding[i].op, id |-> i, ok |-> ok,
                                   bad |-> bad])
                  ELSE rx
       /\ advertised' = Effect(outstanding[i], ok)
  /\ UNCHANGED <<running, due, dead, sock, evVars, answer, wdVars, callVars, stopVars,
                 late>>

Controller == \E i \in Ids : ControllerAnswers(i)

-----------------------------------------------------------------------------
ProcessStep ==
  \/ \E t \in Clients : TakesSendLock(t) \/ SendStep(t)
  \/ \E t \in Senders : Sends(t)
  \/ ServerThread
  \/ EventStep \/ ReadFails
  \/ WatchdogStep \/ WatchdogCounts
  \/ \E s \in Stoppers : ShutdownBegins(s) \/ StopStep(s) \/ JoinsTwice(s)

Next == ~dead /\ (ProcessStep \/ Controller)

Spec == Init /\ [][Next]_vars

\* Every thread of the process runs.  The mutex is granted often enough, since
\* its holder gives it back within kMaxEventWaitTimeMS.  The event thread sees a
\* shutdown in the kDataWaitTimeMS that select waits.  Nothing is asked of the
\* controller.
Fairness ==
  /\ \A t \in Clients : SF_vars(~dead /\ TakesSendLock(t)) /\ WF_vars(~dead /\ SendStep(t))
  /\ WF_vars(~dead /\ EventStep)
  /\ WF_vars(~dead /\ ~running /\ ReadFails)
  /\ WF_vars(~dead /\ WatchdogStep)
  /\ \A s \in Stoppers : WF_vars(~dead /\ (StopStep(s) \/ JoinsTwice(s)))
  /\ WF_vars(~dead /\ ServerThreadAnnounces)

FairSpec == Spec /\ Fairness

-----------------------------------------------------------------------------
(* Properties.                                                               *)

TypeOK ==
  /\ running \in BOOLEAN /\ due \in BOOLEAN /\ dead \in BOOLEAN /\ sock \in BOOLEAN
  /\ rx \in Seq(Answers)
  /\ outstanding \in [Ids -> Commands \cup {Nothing}]
  /\ advertised \subseteq 1 .. Instances
  /\ ev \in EvPcs
  /\ evt \in Answers \cup {NoAnswer} /\ answer \in Answers \cup {NoAnswer}
  /\ wd \in WdPcs /\ failures \in 0 .. MaxFailures /\ watchdogStop \in BOOLEAN
  /\ sendLock \in Clients \cup {Nothing}
  /\ pc \in [Clients -> CallPcs]
  /\ cmd \in [Clients -> Commands]
  /\ cur \in [Clients -> Ids \cup {Nothing}]
  /\ result \in BOOLEAN
  /\ st \in [Stoppers -> StopPcs] /\ inst \in [Stoppers -> 1 .. Instances + 1]
  /\ late \in BOOLEAN

\* While no command has timed out, the answer a client is woken by is the answer
\* to its own command, however many threads send commands with the same code:
\* commandSendMutex is what makes matching by code alone enough.
AnswersMatchWithoutTimeouts ==
  ~late => \A t \in Clients :
             pc[t] = "wait" /\ IsAnswered(t) => answer.id = cur[t]

\* start() assigns watchdogThread only while no thread is in it: assigning over a
\* joinable std::thread terminates the process.  stop() keeps to this by joining
\* the watchdog before the event thread, whose absence is what lets start() in.
NoThreadOverwritten == ev = "none" => wd = "none"

\* The event thread alone closes the socket, and never reads a closed one.
ReadsOpenSocket == ev \in {"reading", "handling", "closing"} => sock

\* A call of sendCommand comes back.
CallsReturn ==
  \A t \in Clients : (pc[t] # "idle") ~> (pc[t] = "idle" \/ dead)

\* A shutdown whose run state stands gets through removeAdvertisingInstances and
\* stop(), if need be because the watchdog, or a second shutdown that joins the
\* watchdog too, ends the process.
StopReturns ==
  \A s \in Stoppers :
    (st[s] \notin {"out", "set"} /\ ~running) ~> (st[s] = "done" \/ dead \/ running)

\* When the event thread has ended in a running server, nothing reads answers any
\* more; the watchdog then ends the process, which systemd starts again, unless a
\* shutdown comes first.
DeadChannelEndsProcess ==
  (ev = "exited" /\ running /\ wd \in {"sleep", "checking"})
    ~> (dead \/ ~running \/ watchdogStop)

-----------------------------------------------------------------------------
(* What the comments say and the code does not keep.                         *)

\* "Returns true on success, otherwise false".
TrueMeansSuccess ==
  \A t \in Clients : pc[t] = "wait" /\ IsAnswered(t) /\ answer.ok => answer.id = cur[t]

\* shutdown "is non-blocking and as such, will only trigger the shutdown process
\* but not wait for it".
ShutdownReturns == \A s \in Stoppers : (st[s] = "set") ~> (st[s] = "done" \/ dead)
=============================================================================

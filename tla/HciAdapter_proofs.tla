-------------------------- MODULE HciAdapter_proofs --------------------------
(***************************************************************************)
(* Proofs about HciAdapter, for any threads, commands, instances and faults:  *)
(* its types, that the event thread never reads a closed socket, and that an  *)
(* answer reaches its own command until the first one times out; and, if one   *)
(* thread shuts down and starts do not fail, that start() assigns no thread    *)
(* over another.                                                              *)
(***************************************************************************)
EXTENDS HciAdapter, SequenceTheorems, TLAPS

\* The watchdog that has counted to the limit has ended the process.
CountOK == dead \/ failures < MaxFailures

\* A client inside sendCommand holds commandSendMutex.
LockOK == \A t \in Clients : pc[t] \in {"locked", "send", "wait"} => sendLock = t

\* An event thread has an open socket until it has closed it.
SocketOK == ev \in {"top", "reading", "handling", "closing"} => sock

\* A client waits for the answer with this identity, and has none yet.
IsAwaited(i) == answer = NoAnswer /\ \E t \in Clients : pc[t] = "wait" /\ cur[t] = i

\* At most one command or answer is under way, and it is the one that is awaited.
OneUnderWay ==
  /\ \A i \in Ids : outstanding[i] # Nothing =>
       IsAwaited(i) /\ rx = <<>> /\ evt = NoAnswer
  /\ rx # <<>> => Len(rx) = 1 /\ IsAwaited(rx[1].id) /\ evt = NoAnswer
  /\ evt # NoAnswer => IsAwaited(evt.id)
  /\ \A t \in Clients : pc[t] = "wait" => answer = NoAnswer \/ answer.id = cur[t]

IInv == TypeOK /\ CountOK /\ LockOK /\ SocketOK /\ (~late => OneUnderWay)

-----------------------------------------------------------------------------
(* Types                                                                     *)

\* The parts of TypeOK, as the actions leave them alone.
TypeSock == /\ sock \in BOOLEAN /\ rx \in Seq(Answers)
            /\ outstanding \in [Ids -> Commands \cup {Nothing}]
            /\ advertised \subseteq 1 .. Instances
TypeEv   == ev \in EvPcs /\ evt \in Answers \cup {NoAnswer}
TypeWd   == wd \in WdPcs /\ failures \in 0 .. MaxFailures /\ watchdogStop \in BOOLEAN
TypeCall == /\ sendLock \in Clients \cup {Nothing} /\ pc \in [Clients -> CallPcs]
            /\ cmd \in [Clients -> Commands] /\ cur \in [Clients -> Ids \cup {Nothing}]
            /\ result \in BOOLEAN
TypeStop == /\ st \in [Stoppers -> StopPcs]
            /\ inst \in [Stoppers -> 1 .. Instances + 1]
TypeFlag == /\ running \in BOOLEAN /\ due \in BOOLEAN /\ dead \in BOOLEAN
            /\ late \in BOOLEAN
TypeAnswer == answer \in Answers \cup {NoAnswer}

Types == TypeSock /\ TypeEv /\ TypeWd /\ TypeCall /\ TypeStop /\ TypeFlag /\ TypeAnswer

LEMMA TypeParts == (TypeOK <=> Types) /\ (TypeOK' <=> Types')
BY DEF TypeOK, Types, TypeSock, TypeEv, TypeWd, TypeCall, TypeStop, TypeFlag, TypeAnswer

LEMMA Parts == Instances \in Nat \ {0} /\ Watchdog \in Clients /\ Stoppers \subseteq Clients
               /\ Senders \subseteq Clients /\ ReadInfo \in Ops /\ RemoveAdv \in Ops
               /\ SenderOps \subseteq Ops
BY AdapterAssumption DEF Clients, Ops

\* A call leaves its command behind.
LEMMA CallsType ==
  ASSUME TypeCall, NEW t \in Clients, NEW op \in Ops, NEW arg \in 0 .. Instances,
         Calls(t, op, arg), op = AddAdv => arg # 0
  PROVE  TypeCall'
BY DEF TypeCall, Calls, Commands, CallPcs

\* A return keeps the types of the calls.
LEMMA ReturnsType ==
  ASSUME TypeCall, NEW t \in Clients, NEW value \in BOOLEAN, Returns(t, value)
  PROVE  TypeCall'
BY DEF TypeCall, Returns, CallPcs

\* Connecting keeps what an open socket holds.
LEMMA ConnectsType ==
  ASSUME TypeSock, Connects, UNCHANGED <<outstanding, advertised>>
  PROVE  TypeSock'
<1>1. <<>> \in Seq(Answers)
  OBVIOUS
<1> QED BY <1>1 DEF TypeSock, Connects

\* The steps of sendCommand keep the types.
LEMMA SendType ==
  ASSUME TypeOK, NEW t \in Clients, TakesSendLock(t) \/ SendStep(t)
  PROVE  TypeOK'
<1>0. /\ TypeSock /\ TypeEv /\ TypeWd /\ TypeCall /\ TypeStop /\ TypeFlag /\ TypeAnswer
  BY TypeParts DEF Types
<1> USE DEF sockVars, evVars, wdVars, callVars, stopVars
<1>1. CASE TakesSendLock(t) \/ FindsThread(t)
  <2>1. TypeCall'
    BY <1>0, <1>1 DEF TypeCall, TakesSendLock, FindsThread, CallPcs
  <2>2. UNCHANGED <<running, due, dead, sockVars, evVars, answer, wdVars, stopVars, late>>
    BY <1>1 DEF TakesSendLock, FindsThread
  <2> QED BY <1>0, <2>1, <2>2, TypeParts
          DEF Types, TypeSock, TypeEv, TypeWd, TypeStop, TypeFlag, TypeAnswer
<1>2. CASE Starts(t)
  <2>1. TypeCall' /\ TypeEv' /\ TypeWd'
    <3>1. TypeCall'
      BY <1>0, <1>2 DEF TypeCall, Starts, CallPcs
    <3>2. TypeEv'
      BY <1>0, <1>2 DEF TypeEv, Starts, EvPcs
    <3>3. TypeWd'
      <4>1. wd' = "sleep" /\ failures' = 0 /\ watchdogStop' = FALSE
        BY <1>2 DEF Starts
      <4>2. 0 \in 0 .. MaxFailures
        BY DEF MaxFailures
      <4> QED BY <4>1, <4>2 DEF TypeWd, WdPcs
    <3> QED BY <3>1, <3>2, <3>3
  <2>2. TypeSock'
    BY <1>0, <1>2, ConnectsType DEF Starts
  <2>3. UNCHANGED <<running, due, dead, answer, stopVars, late>>
    BY <1>2 DEF Starts
  <2> QED BY <1>0, <2>1, <2>2, <2>3, TypeParts DEF Types, TypeStop, TypeFlag, TypeAnswer
<1>3. CASE StartTerminates(t)
  <2>1. dead' = TRUE /\ UNCHANGED <<running, due, sockVars, evVars, answer, wdVars,
                                   callVars, stopVars, late>>
    BY <1>3 DEF StartTerminates
  <2> QED BY <1>0, <2>1, TypeParts
          DEF Types, TypeSock, TypeEv, TypeWd, TypeCall, TypeStop, TypeFlag, TypeAnswer
<1>4. CASE StartFails(t)
  <2>1. TypeCall'
    BY <1>0, <1>4, ReturnsType DEF StartFails
  <2>2. TypeSock'
    <3>1. CASE Connects
      BY <1>0, <1>4, <3>1, ConnectsType DEF StartFails
    <3>2. CASE UNCHANGED <<sock, rx>>
      BY <1>0, <1>4, <3>2 DEF StartFails, TypeSock
    <3> QED BY <1>4, <3>1, <3>2 DEF StartFails
  <2>3. TypeEv' /\ TypeWd'
    BY <1>0, <1>4 DEF StartFails, TypeEv, TypeWd, EvPcs
  <2>4. UNCHANGED <<running, due, dead, answer, stopVars, late>>
    BY <1>4 DEF StartFails
  <2> QED BY <1>0, <2>1, <2>2, <2>3, <2>4, TypeParts DEF Types, TypeStop, TypeFlag, TypeAnswer
<1>5. CASE Writes(t)
  <2>1. TypeCall'
    BY <1>0, <1>5 DEF TypeCall, Writes, CallPcs
  <2>2. outstanding' \in [Ids -> Commands \cup {Nothing}]
    BY <1>0, <1>5 DEF TypeCall, TypeSock, Writes
  <2>3. UNCHANGED <<running, due, dead, sock, rx, advertised, evVars, wdVars, stopVars, late>>
        /\ answer' = NoAnswer
    BY <1>5 DEF Writes
  <2> QED BY <1>0, <2>1, <2>2, <2>3, TypeParts
          DEF Types, TypeSock, TypeEv, TypeWd, TypeStop, TypeFlag, TypeAnswer
<1>6. CASE WriteFails(t)
  <2>1. TypeCall'
    BY <1>0, <1>6, ReturnsType DEF WriteFails
  <2>2. UNCHANGED <<running, due, dead, sockVars, evVars, wdVars, stopVars, late>>
        /\ answer' = NoAnswer
    BY <1>6 DEF WriteFails
  <2> QED BY <1>0, <2>1, <2>2, TypeParts
          DEF Types, TypeSock, TypeEv, TypeWd, TypeStop, TypeFlag, TypeAnswer
<1>7. CASE Wakes(t)
  <2>1. answer.ok \in BOOLEAN
    <3>1. CASE answer \in Answers
      BY <3>1 DEF Answers
    <3>2. CASE answer = NoAnswer
      BY <3>2 DEF NoAnswer
    <3> QED BY <1>0, <3>1, <3>2 DEF TypeAnswer
  <2>2. TypeCall'
    BY <1>0, <1>7, <2>1, ReturnsType DEF Wakes
  <2>3. UNCHANGED <<running, due, dead, sockVars, evVars, answer, wdVars, stopVars, late>>
    BY <1>7 DEF Wakes
  <2> QED BY <1>0, <2>2, <2>3, TypeParts
          DEF Types, TypeSock, TypeEv, TypeWd, TypeStop, TypeFlag, TypeAnswer
<1>8. CASE TimesOut(t)
  <2>1. TypeCall'
    BY <1>0, <1>8, ReturnsType DEF TimesOut
  <2>2. UNCHANGED <<running, due, dead, sockVars, evVars, answer, wdVars, stopVars>>
        /\ late' = TRUE
    BY <1>8 DEF TimesOut
  <2> QED BY <1>0, <2>1, <2>2, TypeParts
          DEF Types, TypeSock, TypeEv, TypeWd, TypeStop, TypeFlag, TypeAnswer
<1> QED BY <1>1, <1>2, <1>3, <1>4, <1>5, <1>6, <1>7, <1>8 DEF SendStep

\* The steps of the event thread and the controller keep the types.
LEMMA EventType ==
  ASSUME TypeOK, EventStep \/ ReadFails \/ Controller
  PROVE  TypeOK'
<1>0. /\ TypeSock /\ TypeEv /\ TypeWd /\ TypeCall /\ TypeStop /\ TypeFlag /\ TypeAnswer
  BY TypeParts DEF Types
<1> USE DEF sockVars, evVars, wdVars, callVars, stopVars
<1>1. CASE EventLoopTests \/ ReadFails
  <2>1. TypeEv'
    BY <1>0, <1>1 DEF TypeEv, EventLoopTests, ReadFails, EvPcs
  <2>2. UNCHANGED <<running, due, dead, sockVars, answer, wdVars, callVars, stopVars, late>>
    BY <1>1 DEF EventLoopTests, ReadFails
  <2> QED BY <1>0, <2>1, <2>2, TypeParts
          DEF Types, TypeSock, TypeWd, TypeCall, TypeStop, TypeFlag, TypeAnswer
<1>2. CASE EventRead
  <2>1. Head(rx) \in Answers /\ Tail(rx) \in Seq(Answers)
    BY <1>0, <1>2 DEF TypeSock, EventRead
  <2>2. TypeEv' /\ TypeSock'
    BY <1>0, <1>2, <2>1 DEF TypeEv, TypeSock, EventRead, EvPcs
  <2>3. UNCHANGED <<running, due, dead, answer, wdVars, callVars, stopVars, late>>
    BY <1>2 DEF EventRead
  <2> QED BY <1>0, <2>2, <2>3, TypeParts DEF Types, TypeWd, TypeCall, TypeStop, TypeFlag, TypeAnswer
<1>3. CASE SetCommandResponse \/ RejectsLength
  <2>1. TypeEv' /\ TypeAnswer'
    BY <1>0, <1>3 DEF TypeEv, TypeAnswer, SetCommandResponse, RejectsLength, EvPcs
  <2>2. UNCHANGED <<running, due, dead, sockVars, wdVars, callVars, stopVars, late>>
    BY <1>3 DEF SetCommandResponse, RejectsLength
  <2> QED BY <1>0, <2>1, <2>2, TypeParts DEF Types, TypeSock, TypeWd, TypeCall, TypeStop, TypeFlag
<1>4. CASE Disconnects
  <2>1. <<>> \in Seq(Answers)
    OBVIOUS
  <2>2. TypeEv' /\ TypeSock'
    BY <1>0, <1>4, <2>1 DEF TypeEv, TypeSock, Disconnects, EvPcs
  <2>3. UNCHANGED <<running, due, dead, answer, wdVars, callVars, stopVars, late>>
    BY <1>4 DEF Disconnects
  <2> QED BY <1>0, <2>2, <2>3, TypeParts DEF Types, TypeWd, TypeCall, TypeStop, TypeFlag, TypeAnswer
<1>5. ASSUME NEW i \in Ids, ControllerAnswers(i) PROVE TypeOK'
  <2>1. outstanding[i] \in Commands
    BY <1>0, <1>5 DEF TypeSock, ControllerAnswers
  <2>2. PICK ok \in BOOLEAN, bad \in BOOLEAN :
          /\ rx' = IF sock THEN Append(rx, [op |-> outstanding[i].op, id |-> i,
                                            ok |-> ok, bad |-> bad]) ELSE rx
          /\ advertised' = Effect(outstanding[i], ok)
    BY <1>5 DEF ControllerAnswers
  <2>3. [op |-> outstanding[i].op, id |-> i, ok |-> ok, bad |-> bad] \in Answers
    BY <2>1 DEF Commands, Answers
  <2>4. rx' \in Seq(Answers)
    BY <1>0, <2>2, <2>3 DEF TypeSock
  <2>5. advertised' \subseteq 1 .. Instances
    BY <1>0, <2>1, <2>2 DEF Effect, Commands, TypeSock
  <2>6. outstanding' \in [Ids -> Commands \cup {Nothing}]
    BY <1>0, <1>5 DEF TypeSock, ControllerAnswers
  <2>7. UNCHANGED <<running, due, dead, sock, evVars, answer, wdVars, callVars, stopVars, late>>
    BY <1>5 DEF ControllerAnswers
  <2> QED BY <1>0, <2>4, <2>5, <2>6, <2>7, TypeParts
          DEF Types, TypeSock, TypeEv, TypeWd, TypeCall, TypeStop, TypeFlag, TypeAnswer
<1> QED BY <1>1, <1>2, <1>3, <1>4, <1>5 DEF EventStep, Controller

\* The steps of the watchdog keep the types and the bound of its count.
LEMMA WatchdogType ==
  ASSUME TypeOK, CountOK, ~dead, WatchdogStep \/ WatchdogCounts
  PROVE  TypeOK' /\ CountOK'
<1>0. /\ TypeSock /\ TypeEv /\ TypeWd /\ TypeCall /\ TypeStop /\ TypeFlag /\ TypeAnswer
  BY TypeParts DEF Types
<1> USE DEF sockVars, evVars, wdVars, callVars, stopVars
<1>1. CASE WatchdogChecks
  <2>1. TypeCall'
    <3>1. ReadInfo # AddAdv
      BY DEF ReadInfo, AddAdv
    <3>2. Watchdog \in Clients /\ ReadInfo \in Ops /\ 0 \in 0 .. Instances
      BY Parts
    <3> QED BY <1>0, <1>1, <3>1, <3>2, CallsType DEF WatchdogChecks
  <2>2. TypeWd' /\ failures' = failures /\ dead' = dead
    BY <1>0, <1>1 DEF TypeWd, WatchdogChecks, WdPcs
  <2>3. UNCHANGED <<running, due, dead, sockVars, evVars, answer, stopVars, late>>
    BY <1>1 DEF WatchdogChecks
  <2> QED BY <1>0, <2>1, <2>2, <2>3, TypeParts
          DEF Types, TypeSock, TypeEv, TypeStop, TypeFlag, TypeAnswer, CountOK
<1>2. CASE WatchdogEnds \/ WatchdogPasses
  <2>1. TypeWd' /\ CountOK'
    BY <1>0, <1>2 DEF TypeWd, CountOK, WatchdogEnds, WatchdogPasses, WdPcs, MaxFailures
  <2>2. UNCHANGED <<running, due, dead, sockVars, evVars, answer, callVars, stopVars, late>>
    BY <1>2 DEF WatchdogEnds, WatchdogPasses
  <2> QED BY <1>0, <2>1, <2>2, TypeParts
          DEF Types, TypeSock, TypeEv, TypeCall, TypeStop, TypeFlag, TypeAnswer
<1>3. CASE WatchdogCounts
  <2>1. TypeWd'
    BY <1>0, <1>3 DEF TypeWd, CountOK, WatchdogCounts, WdPcs, MaxFailures
  <2>3. dead' = (failures' >= MaxFailures)
    BY <1>3 DEF WatchdogCounts
  <2>4. dead' \in BOOLEAN
    BY <2>3
  <2>7. CountOK'
    <3>1. CASE failures' >= MaxFailures
      BY <2>3, <3>1 DEF CountOK
    <3>2. CASE ~(failures' >= MaxFailures)
      BY <2>1, <3>2 DEF CountOK, TypeWd, MaxFailures
    <3> QED BY <3>1, <3>2
  <2>2. UNCHANGED <<running, due, sockVars, evVars, answer, callVars, stopVars, late>>
    BY <1>3 DEF WatchdogCounts
  <2> QED BY <1>0, <2>1, <2>2, <2>4, <2>7, TypeParts
          DEF Types, TypeSock, TypeEv, TypeCall, TypeStop, TypeFlag, TypeAnswer
<1> QED BY <1>1, <1>2, <1>3 DEF WatchdogStep

\* The steps of a shutdown keep the types.
LEMMA StopType ==
  ASSUME TypeOK, NEW s \in Stoppers, ShutdownBegins(s) \/ StopStep(s) \/ JoinsTwice(s)
  PROVE  TypeOK'
<1>0. /\ TypeSock /\ TypeEv /\ TypeWd /\ TypeCall /\ TypeStop /\ TypeFlag /\ TypeAnswer
  BY TypeParts DEF Types
<1> USE DEF sockVars, evVars, wdVars, callVars, stopVars, AdapterUntouched
<1>1. CASE ShutdownBegins(s) \/ ShutdownSetsState(s)
  <2>1. TypeStop' /\ TypeFlag'
    BY <1>0, <1>1 DEF TypeStop, TypeFlag, StopPcs, ShutdownBegins, ShutdownSetsState
  <2>2. UNCHANGED <<sockVars, evVars, answer, wdVars, callVars>>
    BY <1>1 DEF ShutdownBegins, ShutdownSetsState
  <2> QED BY <1>0, <2>1, <2>2, TypeParts
          DEF Types, TypeSock, TypeEv, TypeWd, TypeCall, TypeAnswer
<1>2. CASE RemovesInstance(s)
  <2>1. s \in Clients /\ RemoveAdv \in Ops /\ RemoveAdv # AddAdv
    BY Parts DEF RemoveAdv, AddAdv
  <2>2. inst[s] \in 1 .. Instances /\ inst[s] \in 0 .. Instances
    BY <1>0, <1>2, Parts DEF TypeStop, RemovesInstance
  <2>3. Calls(s, RemoveAdv, inst[s])
    BY <1>2 DEF RemovesInstance
  <2>4. TypeCall'
    BY <1>0, <2>1, <2>2, <2>3, CallsType
  <2>5. TypeStop'
    BY <1>0, <1>2, <2>2, Parts DEF TypeStop, RemovesInstance
  <2>6. UNCHANGED <<running, due, dead, sockVars, evVars, answer, wdVars, late>>
    BY <1>2 DEF RemovesInstance
  <2> QED BY <1>0, <2>4, <2>5, <2>6, TypeParts
          DEF Types, TypeSock, TypeEv, TypeWd, TypeFlag, TypeAnswer
<1>3. CASE StopsWatchdog(s) \/ LooksForWatchdog(s) \/ JoinsWatchdog(s)
  <2>1. TypeStop' /\ TypeWd'
    BY <1>0, <1>3 DEF TypeStop, TypeWd, StopPcs, WdPcs, StopsWatchdog, LooksForWatchdog,
                      JoinsWatchdog
  <2>2. UNCHANGED <<running, due, dead, sockVars, evVars, answer, callVars, late>>
    BY <1>3 DEF StopsWatchdog, LooksForWatchdog, JoinsWatchdog
  <2> QED BY <1>0, <2>1, <2>2, TypeParts
          DEF Types, TypeSock, TypeEv, TypeCall, TypeFlag, TypeAnswer
<1>4. CASE LooksForEventThread(s) \/ JoinsEventThread(s)
  <2>1. TypeStop' /\ TypeEv'
    BY <1>0, <1>4 DEF TypeStop, TypeEv, StopPcs, EvPcs, LooksForEventThread,
                      JoinsEventThread
  <2>2. UNCHANGED <<running, due, dead, sockVars, answer, wdVars, callVars, late>>
    BY <1>4 DEF LooksForEventThread, JoinsEventThread
  <2> QED BY <1>0, <2>1, <2>2, TypeParts
          DEF Types, TypeSock, TypeWd, TypeCall, TypeFlag, TypeAnswer
<1>5. CASE JoinsTwice(s)
  <2>1. TypeStop' /\ dead' \in BOOLEAN
    BY <1>0, <1>5 DEF TypeStop, TypeFlag, StopPcs, JoinsTwice
  <2>2. UNCHANGED <<running, due, sockVars, evVars, answer, wdVars, callVars, late>>
    BY <1>5 DEF JoinsTwice
  <2> QED BY <1>0, <2>1, <2>2, TypeParts
          DEF Types, TypeSock, TypeEv, TypeWd, TypeCall, TypeFlag, TypeAnswer
<1> QED BY <1>1, <1>2, <1>3, <1>4, <1>5 DEF StopStep

\* A sender's new command keeps the types.
LEMMA SendsType ==
  ASSUME TypeOK, NEW t \in Senders, Sends(t)
  PROVE  TypeOK'
<1>0. /\ TypeSock /\ TypeEv /\ TypeWd /\ TypeCall /\ TypeStop /\ TypeFlag /\ TypeAnswer
  BY TypeParts DEF Types
<1>1. PICK op \in SenderOps :
        \E arg \in IF op = AddAdv THEN 1 .. Instances ELSE {0} : Calls(t, op, arg)
  BY DEF Sends
<1>2. PICK arg \in IF op = AddAdv THEN 1 .. Instances ELSE {0} : Calls(t, op, arg)
  BY <1>1
<1>3. t \in Clients /\ op \in Ops
  BY Parts
<1>4. arg \in 0 .. Instances /\ (op = AddAdv => arg # 0)
  BY <1>2, Parts
<1>5. TypeCall'
  BY <1>0, <1>2, <1>3, <1>4, CallsType
<1>6. UNCHANGED <<running, due, dead, sockVars, evVars, answer, wdVars, stopVars, late>>
  BY DEF Sends
<1> QED BY <1>0, <1>5, <1>6, TypeParts
        DEF Types, TypeSock, TypeEv, TypeWd, TypeStop, TypeFlag, TypeAnswer, sockVars, evVars,
            wdVars, stopVars

\* What the server thread writes into the run state keeps the types.
LEMMA ServerType ==
  ASSUME TypeOK, ServerThread
  PROVE  TypeOK'
<1>0. /\ TypeSock /\ TypeEv /\ TypeWd /\ TypeCall /\ TypeStop /\ TypeFlag /\ TypeAnswer
  BY TypeParts DEF Types
<1>1. TypeFlag'
  BY <1>0 DEF TypeFlag, ServerThread, ProcessorChecks, ServerThreadAnnounces
<1>2. UNCHANGED <<sockVars, evVars, answer, wdVars, callVars, stopVars>>
  BY DEF ServerThread, ProcessorChecks, ServerThreadAnnounces
<1> QED BY <1>0, <1>1, <1>2, TypeParts
        DEF Types, TypeSock, TypeEv, TypeWd, TypeCall, TypeStop, TypeAnswer, sockVars,
            evVars, wdVars, callVars, stopVars

-----------------------------------------------------------------------------
(* The mutex and the socket                                                  *)

\* Whoever enters finds the mutex free, and whoever leaves held it.
LEMMA LockStep ==
  ASSUME TypeOK, LockOK, ProcessStep \/ Controller
  PROVE  LockOK'
<1> USE DEF sockVars, evVars, wdVars, callVars, stopVars, AdapterUntouched
<1>0. TypeCall /\ Nothing \notin Clients
  BY TypeParts, AdapterAssumption DEF Types
<1>1. ASSUME NEW t \in Clients, TakesSendLock(t) PROVE LockOK'
  BY <1>0, <1>1 DEF LockOK, TypeCall, TakesSendLock
<1>2. ASSUME NEW t \in Clients, NEW value, Returns(t, value), sendLock = t PROVE LockOK'
  BY <1>0, <1>2 DEF LockOK, TypeCall, Returns
<1>3. ASSUME NEW t \in Clients, NEW op, NEW arg, Calls(t, op, arg) PROVE LockOK'
  BY <1>0, <1>3 DEF LockOK, TypeCall, Calls
<1>4. ASSUME NEW t \in Clients, SendStep(t) PROVE LockOK'
  <2>1. CASE FindsThread(t) \/ Starts(t) \/ Writes(t)
    BY <1>0, <2>1 DEF LockOK, TypeCall, FindsThread, Starts, Writes
  <2>2. CASE StartTerminates(t)
    BY <2>2 DEF LockOK, StartTerminates
  <2>3. CASE StartFails(t)
    BY <1>2, <2>3 DEF LockOK, StartFails
  <2>4. CASE WriteFails(t)
    BY <1>2, <2>4 DEF LockOK, WriteFails
  <2>5. CASE Wakes(t)
    BY <1>2, <2>5 DEF LockOK, Wakes
  <2>6. CASE TimesOut(t)
    BY <1>2, <2>6 DEF LockOK, TimesOut
  <2> QED BY <1>4, <2>1, <2>2, <2>3, <2>4, <2>5, <2>6 DEF SendStep
<1>5. ASSUME NEW t \in Senders, Sends(t) PROVE LockOK'
  BY <1>3, <1>5, Parts DEF Sends
<1>6. CASE EventStep \/ ReadFails \/ Controller
  BY <1>6 DEF LockOK, EventStep, EventLoopTests, EventRead, SetCommandResponse,
              RejectsLength, Disconnects, ReadFails, Controller, ControllerAnswers
<1>7. CASE WatchdogStep \/ WatchdogCounts
  <2>1. CASE WatchdogChecks
    BY <1>3, <2>1, Parts DEF WatchdogChecks
  <2>2. CASE WatchdogEnds \/ WatchdogPasses \/ WatchdogCounts
    BY <2>2 DEF LockOK, WatchdogEnds, WatchdogPasses, WatchdogCounts
  <2> QED BY <1>7, <2>1, <2>2 DEF WatchdogStep
<1>8. ASSUME NEW s \in Stoppers, ShutdownBegins(s) \/ StopStep(s) \/ JoinsTwice(s)
      PROVE  LockOK'
  <2>1. CASE RemovesInstance(s)
    BY <1>3, <2>1, Parts DEF RemovesInstance
  <2>2. CASE ~RemovesInstance(s)
    BY <1>8, <2>2 DEF LockOK, ShutdownBegins, StopStep, ShutdownSetsState, StopsWatchdog,
         LooksForWatchdog, JoinsWatchdog, LooksForEventThread, JoinsEventThread, JoinsTwice
  <2> QED BY <2>1, <2>2
<1>9. CASE ServerThread
  BY <1>9 DEF LockOK, ServerThread, ProcessorChecks, ServerThreadAnnounces
<1> QED BY <1>1, <1>4, <1>5, <1>6, <1>7, <1>8, <1>9 DEF ProcessStep

\* Only the event thread closes the socket, on its way out.
LEMMA SocketStep ==
  ASSUME TypeOK, SocketOK, ProcessStep \/ Controller
  PROVE  SocketOK'
<1> USE DEF sockVars, evVars, wdVars, callVars, stopVars, AdapterUntouched
<1>1. ASSUME NEW t \in Clients, SendStep(t) \/ TakesSendLock(t) PROVE SocketOK'
  BY <1>1 DEF SocketOK, TakesSendLock, SendStep, FindsThread, Starts, StartTerminates,
              StartFails, Connects, Writes, WriteFails, Wakes, TimesOut
<1>2. ASSUME NEW t \in Senders, Sends(t) PROVE SocketOK'
  BY <1>2 DEF SocketOK, Sends
<1>3. CASE EventStep \/ ReadFails
  BY <1>3 DEF SocketOK, EventStep, EventLoopTests, EventRead, SetCommandResponse,
              RejectsLength, Disconnects, ReadFails
<1>4. CASE WatchdogStep \/ WatchdogCounts
  BY <1>4 DEF SocketOK, WatchdogStep, WatchdogChecks, WatchdogEnds, WatchdogPasses,
              WatchdogCounts
<1>5. ASSUME NEW s \in Stoppers, ShutdownBegins(s) \/ StopStep(s) \/ JoinsTwice(s)
      PROVE  SocketOK'
  BY <1>5 DEF SocketOK, ShutdownBegins, StopStep, ShutdownSetsState, RemovesInstance,
              StopsWatchdog, LooksForWatchdog, JoinsWatchdog, LooksForEventThread,
              JoinsEventThread, JoinsTwice
<1>6. CASE Controller
  BY <1>6 DEF SocketOK, Controller, ControllerAnswers
<1>7. CASE ServerThread
  BY <1>7 DEF SocketOK, ServerThread, ProcessorChecks, ServerThreadAnnounces
<1> QED BY <1>1, <1>2, <1>3, <1>4, <1>5, <1>6, <1>7 DEF ProcessStep

-----------------------------------------------------------------------------
(* One answer under way                                                      *)

Waiting(t) == pc[t] = "wait"

\* No command can be answered any more, and no answer is on its way.
NothingUnderWay ==
  (\A i \in Ids : outstanding[i] = Nothing) /\ rx = <<>> /\ evt = NoAnswer

\* Nobody waits for an answer that is still to come: nothing is under way.
LEMMA NobodyAwaits ==
  ASSUME OneUnderWay, TypeOK,
         answer # NoAnswer \/ \A t \in Clients : ~Waiting(t)
  PROVE  NothingUnderWay
<1>1. \A i : ~IsAwaited(i)
  BY DEF IsAwaited, Waiting
<1> QED BY <1>1 DEF OneUnderWay, NothingUnderWay

\* A step that leaves the waiting clients and their answer alone, and adds nothing
\* to what is under way, keeps OneUnderWay.
LEMMA Leaves ==
  ASSUME OneUnderWay, answer' = answer, outstanding' = outstanding,
         rx' = rx \/ rx' = <<>>, evt' = evt \/ evt' = NoAnswer,
         \A t \in Clients : (Waiting(t) <=> Waiting(t)') /\ (Waiting(t) => cur'[t] = cur[t])
  PROVE  OneUnderWay'
<1>1. \A i : IsAwaited(i) <=> IsAwaited(i)'
  BY DEF IsAwaited, Waiting
<1> QED BY <1>1 DEF OneUnderWay, Waiting

\* A client that is not waiting leaves sendCommand, or starts to.
LEMMA LeavesWaiters ==
  ASSUME TypeOK, NEW t \in Clients, ~Waiting(t),
         \/ \E value : Returns(t, value)
         \/ \E op, arg : Calls(t, op, arg)
         \/ \E place \in {"locked", "send"} : pc' = [pc EXCEPT ![t] = place] /\ cur' = cur
  PROVE  \A u \in Clients : (Waiting(u) <=> Waiting(u)') /\ (Waiting(u) => cur'[u] = cur[u])
<1>1. TypeCall
  BY TypeParts DEF Types
<1> QED BY <1>1 DEF TypeCall, Waiting, Returns, Calls

\* While no command has timed out, every step keeps OneUnderWay.
LEMMA UnderWayStep ==
  ASSUME TypeOK, LockOK, OneUnderWay, ~late', ProcessStep \/ Controller
  PROVE  OneUnderWay'
<1> USE DEF sockVars, evVars, wdVars, callVars, stopVars, AdapterUntouched
<1>0. TypeSock /\ TypeEv /\ TypeCall /\ TypeAnswer /\ Nothing \notin Ids \cup Ops
  BY TypeParts, AdapterAssumption DEF Types
<1>u. \A t, u \in Clients : Waiting(t) /\ Waiting(u) => t = u
  BY DEF LockOK, Waiting
<1>1. ASSUME NEW t \in Clients, TakesSendLock(t) \/ FindsThread(t) PROVE OneUnderWay'
  <2>1. ~Waiting(t) /\ UNCHANGED <<answer, sockVars, evVars, cur>>
    BY <1>1 DEF Waiting, TakesSendLock, FindsThread
  <2>2. \E place \in {"locked", "send"} : pc' = [pc EXCEPT ![t] = place]
    BY <1>1 DEF TakesSendLock, FindsThread
  <2>3. \A u \in Clients : (Waiting(u) <=> Waiting(u)') /\ (Waiting(u) => cur'[u] = cur[u])
    BY <2>1, <2>2, LeavesWaiters
  <2> QED BY <2>1, <2>3, Leaves
<1>2. ASSUME NEW t \in Clients, Starts(t) PROVE OneUnderWay'
  <2>1. /\ ~Waiting(t) /\ UNCHANGED <<answer, outstanding, cur>>
        /\ rx' = rx \/ rx' = <<>>
        /\ evt' = NoAnswer
        /\ pc' = [pc EXCEPT ![t] = "send"]
    BY <1>2 DEF Waiting, Starts, Connects
  <2>2. \A u \in Clients : (Waiting(u) <=> Waiting(u)') /\ (Waiting(u) => cur'[u] = cur[u])
    BY <2>1, LeavesWaiters
  <2> QED BY <2>1, <2>2, Leaves
<1>3. ASSUME NEW t \in Clients, StartFails(t) PROVE OneUnderWay'
  <2>1. /\ ~Waiting(t) /\ UNCHANGED <<answer, outstanding>>
        /\ rx' = rx \/ rx' = <<>>
        /\ evt' = evt \/ evt' = NoAnswer
        /\ Returns(t, FALSE)
    BY <1>3 DEF Waiting, StartFails, Connects
  <2>2. \A u \in Clients : (Waiting(u) <=> Waiting(u)') /\ (Waiting(u) => cur'[u] = cur[u])
    BY <2>1, LeavesWaiters
  <2> QED BY <2>1, <2>2, Leaves
<1>4. ASSUME NEW t \in Clients, StartTerminates(t) PROVE OneUnderWay'
  BY <1>4, Leaves DEF StartTerminates, Waiting
<1>5. ASSUME NEW t \in Clients, Writes(t) PROVE OneUnderWay'
  <2>1. pc[t] = "send" /\ pc' = [pc EXCEPT ![t] = "wait"] /\ answer' = NoAnswer
        /\ rx' = rx /\ evt' = evt
    BY <1>5 DEF Writes
  <2>2. \A u \in Clients : ~Waiting(u)
    BY <2>1 DEF LockOK, Waiting
  <2>3. NothingUnderWay
    BY <2>2, NobodyAwaits
  <2>4. CASE UNCHANGED <<outstanding, cur>>
    BY <2>1, <2>3, <2>4 DEF NothingUnderWay, OneUnderWay
  <2>5. ASSUME NEW i \in Ids, outstanding' = [outstanding EXCEPT ![i] = cmd[t]],
               cur' = [cur EXCEPT ![t] = i]
        PROVE  OneUnderWay'
    <3>1. IsAwaited(i)'
      BY <1>0, <2>1, <2>5 DEF IsAwaited, TypeCall
    <3>2. \A j \in Ids : j # i => outstanding'[j] = Nothing
      BY <1>0, <2>3, <2>5 DEF NothingUnderWay, TypeSock
    <3> QED BY <2>1, <2>3, <3>1, <3>2 DEF NothingUnderWay, OneUnderWay
  <2> QED BY <1>5, <2>4, <2>5 DEF Writes
<1>6. ASSUME NEW t \in Clients, WriteFails(t) PROVE OneUnderWay'
  <2>1. \A u \in Clients : ~Waiting(u)
    BY <1>6 DEF LockOK, Waiting, WriteFails
  <2>2. NothingUnderWay
    BY <2>1, NobodyAwaits
  <2>3. answer' = NoAnswer /\ UNCHANGED <<outstanding, rx, evt>>
    BY <1>6 DEF WriteFails
  <2> QED BY <2>2, <2>3 DEF NothingUnderWay, OneUnderWay
<1>7. ASSUME NEW t \in Clients, Wakes(t) PROVE OneUnderWay'
  <2>1. answer # NoAnswer
    BY <1>0, <1>7 DEF Wakes, IsAnswered, NoAnswer, TypeCall, Commands
  <2>2. NothingUnderWay
    BY <2>1, NobodyAwaits
  <2>3. UNCHANGED <<answer, outstanding, rx, evt>>
    BY <1>7 DEF Wakes
  <2>4. \A u \in Clients : Waiting(u)' => Waiting(u) /\ cur'[u] = cur[u]
    BY <1>0, <1>7 DEF Wakes, Returns, Waiting, TypeCall
  <2> QED BY <2>2, <2>3, <2>4 DEF NothingUnderWay, OneUnderWay, Waiting
<1>8. ASSUME NEW t \in Clients, TimesOut(t) PROVE OneUnderWay'
  BY <1>8 DEF TimesOut
<1>9. ASSUME NEW t \in Senders, Sends(t) PROVE OneUnderWay'
  <2>1. UNCHANGED <<answer, sockVars, evVars>>
    BY <1>9 DEF Sends
  <2>2. t \in Clients /\ ~Waiting(t) /\ \E op, arg : Calls(t, op, arg)
    BY <1>9, Parts DEF Sends, Calls, Waiting
  <2> QED BY <2>1, <2>2, LeavesWaiters, Leaves
<1>10. CASE EventLoopTests \/ ReadFails \/ RejectsLength \/ Disconnects
  <2>1. /\ UNCHANGED <<answer, outstanding, pc, cur>>
        /\ rx' = rx \/ rx' = <<>>
        /\ evt' = evt \/ evt' = NoAnswer
    BY <1>10 DEF EventLoopTests, ReadFails, RejectsLength, Disconnects
  <2> QED BY <2>1, Leaves DEF Waiting
<1>11. CASE EventRead
  <2>1. rx # <<>> /\ evt' = rx[1] /\ rx' = Tail(rx)
        /\ UNCHANGED <<answer, outstanding, pc, cur>>
    BY <1>0, <1>11, HeadTailProperties DEF EventRead, TypeSock
  <2>2. Len(rx) = 1 /\ IsAwaited(rx[1].id)
    BY <2>1 DEF OneUnderWay
  <2>3. rx' = <<>>
    BY <1>0, <2>1, <2>2 DEF TypeSock
  <2>4. \A i \in Ids : outstanding'[i] = Nothing
    BY <2>1 DEF OneUnderWay
  <2>5. IsAwaited(evt.id)'
    BY <2>1, <2>2 DEF IsAwaited
  <2> QED BY <2>1, <2>2, <2>3, <2>4, <2>5 DEF OneUnderWay
<1>12. CASE SetCommandResponse
  <2>1. answer' = evt /\ evt' = NoAnswer /\ UNCHANGED <<outstanding, rx, pc, cur>>
    BY <1>12 DEF SetCommandResponse
  <2>2. CASE evt = NoAnswer
    <3>1. \A i : IsAwaited(i) => IsAwaited(i)'
      BY <2>1, <2>2 DEF IsAwaited
    <3> QED BY <2>1, <2>2, <3>1 DEF OneUnderWay
  <2>3. CASE evt # NoAnswer
    <3>1. IsAwaited(evt.id)
      BY <2>3 DEF OneUnderWay
    <3>2. \A t \in Clients : Waiting(t) => cur[t] = evt.id
      BY <1>u, <3>1 DEF IsAwaited, Waiting
    <3>3. rx = <<>> /\ \A i \in Ids : outstanding[i] = Nothing
      BY <2>3 DEF OneUnderWay
    <3> QED BY <2>1, <3>2, <3>3 DEF OneUnderWay, Waiting
  <2> QED BY <2>2, <2>3
<1>13. ASSUME NEW i \in Ids, ControllerAnswers(i) PROVE OneUnderWay'
  <2>1. outstanding[i] # Nothing /\ outstanding' = [outstanding EXCEPT ![i] = Nothing]
        /\ UNCHANGED <<evt, answer, pc, cur>>
    BY <1>13 DEF ControllerAnswers
  <2>2. IsAwaited(i) /\ rx = <<>> /\ evt = NoAnswer
    BY <2>1 DEF OneUnderWay
  <2>3. \A j \in Ids : IsAwaited(j) => j = i
    BY <1>u, <2>2 DEF IsAwaited, Waiting
  <2>4. \A j \in Ids : outstanding'[j] = Nothing
    BY <1>0, <2>1, <2>3 DEF OneUnderWay, TypeSock
  <2>5. rx' = <<>> \/ (Len(rx') = 1 /\ rx'[1].id = i)
    <3>1. PICK a : a.id = i /\ (rx' = rx \/ rx' = Append(rx, a))
      BY <1>13 DEF ControllerAnswers
    <3> QED BY <2>2, <3>1
  <2>6. IsAwaited(i)'
    BY <2>1, <2>2 DEF IsAwaited
  <2> QED BY <2>1, <2>2, <2>4, <2>5, <2>6 DEF OneUnderWay
<1>14. CASE WatchdogStep \/ WatchdogCounts
  <2>1. UNCHANGED <<answer, sockVars, evVars>>
    BY <1>14 DEF WatchdogStep, WatchdogChecks, WatchdogEnds, WatchdogPasses, WatchdogCounts
  <2>2. CASE WatchdogChecks
    <3>1. ~Waiting(Watchdog) /\ \E op, arg : Calls(Watchdog, op, arg)
      BY <2>2 DEF WatchdogChecks, Calls, Waiting
    <3> QED BY <2>1, <3>1, Parts, LeavesWaiters, Leaves
  <2>3. CASE UNCHANGED callVars
    BY <2>1, <2>3, Leaves DEF Waiting
  <2> QED BY <1>14, <2>2, <2>3 DEF WatchdogStep, WatchdogEnds, WatchdogPasses, WatchdogCounts
<1>15. ASSUME NEW s \in Stoppers, ShutdownBegins(s) \/ StopStep(s) \/ JoinsTwice(s)
       PROVE  OneUnderWay'
  <2>1. UNCHANGED <<answer, sockVars, evt>>
    BY <1>15 DEF ShutdownBegins, StopStep, ShutdownSetsState, RemovesInstance, StopsWatchdog,
         LooksForWatchdog, JoinsWatchdog, LooksForEventThread, JoinsEventThread, JoinsTwice
  <2>2. CASE RemovesInstance(s)
    <3>1. s \in Clients /\ ~Waiting(s) /\ \E op, arg : Calls(s, op, arg)
      BY <2>2, Parts DEF RemovesInstance, Calls, Waiting
    <3> QED BY <2>1, <3>1, LeavesWaiters, Leaves
  <2>3. CASE UNCHANGED callVars
    BY <2>1, <2>3, Leaves DEF Waiting
  <2> QED BY <1>15, <2>2, <2>3 DEF ShutdownBegins, StopStep, ShutdownSetsState,
         StopsWatchdog, LooksForWatchdog, JoinsWatchdog, LooksForEventThread,
         JoinsEventThread, JoinsTwice
<1>16. CASE ServerThread
  BY <1>16, Leaves DEF Waiting, ServerThread, ProcessorChecks, ServerThreadAnnounces
<1> QED
  BY <1>1, <1>2, <1>3, <1>4, <1>5, <1>6, <1>7, <1>8, <1>9, <1>10, <1>11, <1>12, <1>13,
     <1>14, <1>15, <1>16 DEF ProcessStep, SendStep, EventStep, Controller

-----------------------------------------------------------------------------
(* The theorems                                                              *)

LEMMA InitInv == Init => IInv
<1> SUFFICES ASSUME Init PROVE IInv
  OBVIOUS
<1> USE DEF Init
<1>1. TypeOK
  <2>1. TypeSock
    <3>1. <<>> \in Seq(Answers)
      OBVIOUS
    <3> QED BY <3>1 DEF TypeSock
  <2>2. TypeEv /\ TypeAnswer
    BY DEF TypeEv, TypeAnswer, EvPcs
  <2>6. TypeFlag
    BY DEF TypeFlag
  <2>7. TypeWd
    <3>1. 0 \in 0 .. MaxFailures
      BY DEF MaxFailures
    <3> QED BY <3>1 DEF TypeWd, WdPcs
  <2>3. ReadInfo \in Ops /\ ReadInfo # AddAdv /\ 0 \in 0 .. Instances
    BY Parts DEF ReadInfo, AddAdv
  <2>4. TypeCall
    BY <2>3 DEF TypeCall, CallPcs, Commands
  <2>5. TypeStop
    BY Parts DEF TypeStop, StopPcs
  <2> QED BY <2>1, <2>2, <2>4, <2>5, <2>6, <2>7, TypeParts DEF Types
<1>2. CountOK /\ LockOK /\ SocketOK
  BY DEF CountOK, LockOK, SocketOK, MaxFailures
<1>3. OneUnderWay
  BY DEF OneUnderWay, NoAnswer
<1> QED BY <1>1, <1>2, <1>3 DEF IInv

LEMMA NextInv == IInv /\ [Next]_vars => IInv'
<1> SUFFICES ASSUME IInv, [Next]_vars PROVE IInv'
  OBVIOUS
<1>0. TypeOK /\ CountOK /\ LockOK /\ SocketOK /\ (~late => OneUnderWay)
  BY DEF IInv
<1>1. CASE Next
  <2>0. ~dead /\ (ProcessStep \/ Controller)
    BY <1>1 DEF Next
  <2>1. TypeOK'
    BY <1>0, <2>0, SendType, EventType, WatchdogType, StopType, SendsType,
       ServerType DEF ProcessStep
  <2>2. CountOK'
    <3>1. CASE WatchdogStep \/ WatchdogCounts
      BY <1>0, <2>0, <3>1, WatchdogType
    <3>2. CASE failures' = failures \/ failures' = 0
      BY <1>0, <2>0, <3>2 DEF CountOK, MaxFailures
    <3>3. CASE ~(WatchdogStep \/ WatchdogCounts)
      <4>1. failures' = failures \/ failures' = 0
        BY <2>0, <3>3 DEF wdVars, ProcessStep, ServerThread, ProcessorChecks,
             ServerThreadAnnounces, TakesSendLock, SendStep, FindsThread, Starts,
             StartTerminates, StartFails, Writes, WriteFails, Wakes, TimesOut, Sends,
             EventStep, EventLoopTests, EventRead, SetCommandResponse, RejectsLength,
             Disconnects, ReadFails, ShutdownBegins, StopStep, ShutdownSetsState,
             RemovesInstance, StopsWatchdog, LooksForWatchdog, JoinsWatchdog,
             LooksForEventThread, JoinsEventThread, JoinsTwice, Controller,
             ControllerAnswers
      <4> QED BY <3>2, <4>1
    <3> QED BY <3>1, <3>3
  <2>3. LockOK' /\ SocketOK'
    BY <1>0, <2>0, LockStep, SocketStep
  <2>4. late => late'
    BY <2>0 DEF ProcessStep, ServerThread, ProcessorChecks, ServerThreadAnnounces,
         TakesSendLock, SendStep, FindsThread, Starts,
         StartTerminates, StartFails, Writes, WriteFails, Wakes, TimesOut, Sends,
         EventStep, EventLoopTests, EventRead, SetCommandResponse, RejectsLength,
         Disconnects, ReadFails, WatchdogStep, WatchdogChecks, WatchdogEnds,
         WatchdogPasses, WatchdogCounts, ShutdownBegins, StopStep, ShutdownSetsState,
         RemovesInstance, StopsWatchdog, LooksForWatchdog, JoinsWatchdog,
         LooksForEventThread, JoinsEventThread, JoinsTwice, AdapterUntouched, Controller,
         ControllerAnswers
  <2>5. ~late' => OneUnderWay'
    BY <1>0, <2>0, <2>4, UnderWayStep
  <2> QED BY <2>1, <2>2, <2>3, <2>5 DEF IInv
<1>2. CASE UNCHANGED vars
  BY <1>2 DEF IInv, TypeOK, CountOK, LockOK, SocketOK, OneUnderWay, IsAwaited, vars,
              sockVars, evVars, wdVars, callVars, stopVars
<1> QED BY <1>1, <1>2

\* The invariant holds throughout.
THEOREM Invariance == Spec => []IInv
BY InitInv, NextInv, PTL DEF Spec

\* The state is well formed, for any threads, commands, instances and faults.
THEOREM TypeCorrect == Spec => []TypeOK
<1>1. IInv => TypeOK
  BY DEF IInv
<1> QED BY <1>1, Invariance, PTL

\* The event thread never reads a closed socket (HciAdapter.cpp, runEventThread):
\* nobody else closes it while the thread is in its loop.
THEOREM SocketStaysOpen == Spec => []ReadsOpenSocket
<1>1. IInv => ReadsOpenSocket
  BY DEF IInv, SocketOK, ReadsOpenSocket
<1> QED BY <1>1, Invariance, PTL

\* Until a command has timed out, a client is woken by the answer to its own
\* command (sendCommand, setCommandResponse), with any number of threads that send
\* commands of the same code.
THEOREM AnswersMatch == Spec => []AnswersMatchWithoutTimeouts
<1>1. IInv => AnswersMatchWithoutTimeouts
  <2> SUFFICES ASSUME IInv, ~late, NEW t \in Clients, pc[t] = "wait", IsAnswered(t)
               PROVE  answer.id = cur[t]
    BY DEF AnswersMatchWithoutTimeouts
  <2>1. TypeCall /\ OneUnderWay /\ Nothing \notin Ops
    BY TypeParts, AdapterAssumption DEF IInv, Types
  <2>2. answer # NoAnswer
    BY <2>1 DEF IsAnswered, NoAnswer, TypeCall, Commands
  <2> QED BY <2>1, <2>2 DEF OneUnderWay
<1> QED BY <1>1, Invariance, PTL

-----------------------------------------------------------------------------
(* One thread that shuts down                                                *)

\* No start fails, and shutdown() is entered by one thread.
StopsOnce == "start" \notin Faults /\ \A s, t \in Stoppers : s = t

\* A shutdown sends a command before it looks for the threads, so an adapter that
\* was never started is started by then, and stays so until its event thread has
\* been joined, behind the watchdog.
StopOK(s) ==
  /\ st[s] \in {"out", "set"} => inst[s] = 1
  /\ st[s] \notin {"out", "set", "removing", "done"} => inst[s] > 1
  /\ st[s] # "removing" => pc[s] = "idle"
  /\ inst[s] > 1 /\ st[s] # "done" /\ pc[s] \notin {"want", "locked"} => ev # "none"
  /\ st[s] \in {"lookEvent", "joinEvent"} => wd = "none"

ThreadsOK == NoThreadOverwritten /\ \A s \in Stoppers : StopOK(s)

\* A call or a return of one client is no business of another's shutdown.
LEMMA CallsKeep ==
  ASSUME TypeOK, ThreadsOK, NEW t \in Clients,
         UNCHANGED <<st, inst>>,
         ev' = ev \/ ev' # "none",
         wd' = wd \/ (wd' # "none" /\ ev' # "none" /\ (wd = "none" => ev = "none")),
         \/ pc' = pc
         \/ /\ pc[t] \in {"send", "wait"} \/ (pc[t] = "locked" /\ ev' # "none")
            /\ \E place \in CallPcs : pc' = [pc EXCEPT ![t] = place]
         \/ pc[t] = "want" /\ pc' = [pc EXCEPT ![t] = "locked"]
         \/ t \notin Stoppers /\ pc' = [pc EXCEPT ![t] = "want"]
  PROVE  ThreadsOK'
<1>0. TypeCall /\ TypeStop
  BY TypeParts DEF Types
<1>1. NoThreadOverwritten'
  BY DEF ThreadsOK, NoThreadOverwritten
<1>2. ASSUME NEW s \in Stoppers PROVE StopOK(s)'
  <2>1. StopOK(s) /\ s \in Clients /\ pc[s] \in CallPcs /\ inst[s] \in Nat
    BY <1>0, Parts DEF ThreadsOK, TypeCall, TypeStop
  <2>2. st[s] # "removing" => pc'[s] = "idle"
    BY <1>0, <2>1 DEF StopOK, TypeCall
  <2>3. inst[s] > 1 /\ st[s] # "done" /\ pc'[s] \notin {"want", "locked"} => ev' # "none"
    BY <1>0, <2>1 DEF StopOK, TypeCall, CallPcs
  <2>4. st[s] \in {"lookEvent", "joinEvent"} => wd' = "none"
    <3>1. st[s] \in {"lookEvent", "joinEvent"} => wd = "none" /\ ev # "none"
      BY <2>1 DEF StopOK
    <3> QED BY <3>1
  <2> QED BY <2>1, <2>2, <2>3, <2>4 DEF StopOK
<1> QED BY <1>1, <1>2 DEF ThreadsOK

\* A step of the shutdown keeps ThreadsOK, if it is the only one.
LEMMA StopKeeps ==
  ASSUME TypeOK, ThreadsOK, StopsOnce, NEW s \in Stoppers,
         ShutdownBegins(s) \/ StopStep(s) \/ JoinsTwice(s)
  PROVE  ThreadsOK'
<1> USE DEF evVars, wdVars, callVars, stopVars, AdapterUntouched
<1>0. /\ TypeCall /\ TypeStop /\ StopOK(s) /\ NoThreadOverwritten /\ s \in Clients
      /\ inst[s] \in 1 .. Instances + 1 /\ Instances \in Nat \ {0}
  BY TypeParts, Parts DEF Types, ThreadsOK, TypeStop
<1>1. SUFFICES (NoThreadOverwritten /\ StopOK(s))'
  BY DEF StopsOnce, ThreadsOK
<1>2. CASE ShutdownBegins(s) \/ ShutdownSetsState(s)
  BY <1>0, <1>2 DEF ShutdownBegins, ShutdownSetsState, StopOK, NoThreadOverwritten, TypeStop
<1>3. CASE RemovesInstance(s)
  BY <1>0, <1>3 DEF RemovesInstance, Calls, StopOK, NoThreadOverwritten, TypeStop, TypeCall
<1>4. CASE StopsWatchdog(s) \/ LooksForWatchdog(s)
  BY <1>0, <1>4 DEF StopsWatchdog, LooksForWatchdog, StopOK, NoThreadOverwritten, TypeStop
<1>5. CASE JoinsWatchdog(s)
  BY <1>0, <1>5 DEF JoinsWatchdog, StopOK, NoThreadOverwritten, TypeStop
<1>6. CASE LooksForEventThread(s) \/ JoinsEventThread(s)
  BY <1>0, <1>6 DEF LooksForEventThread, JoinsEventThread, StopOK, NoThreadOverwritten,
     TypeStop
<1>7. CASE JoinsTwice(s)
  BY <1>0, <1>7 DEF JoinsTwice, StopOK, NoThreadOverwritten, TypeStop
<1> QED BY <1>2, <1>3, <1>4, <1>5, <1>6, <1>7 DEF StopStep

\* Every step keeps ThreadsOK.
LEMMA ThreadsStep ==
  ASSUME TypeOK, ThreadsOK, StopsOnce, ProcessStep \/ Controller
  PROVE  ThreadsOK'
<1> USE DEF sockVars, evVars, wdVars, callVars, stopVars
<1>1. ASSUME NEW t \in Clients, TakesSendLock(t) PROVE ThreadsOK'
  <2>1. UNCHANGED <<st, inst, ev, wd>> /\ pc[t] = "want" /\ pc' = [pc EXCEPT ![t] = "locked"]
    BY <1>1 DEF TakesSendLock
  <2> QED BY <2>1, CallsKeep
<1>2. ASSUME NEW t \in Clients, FindsThread(t) \/ Starts(t) PROVE ThreadsOK'
  <2>1. /\ UNCHANGED <<st, inst>> /\ ev' # "none"
        /\ pc[t] = "locked" /\ pc' = [pc EXCEPT ![t] = "send"]
        /\ wd' = wd \/ (wd' # "none" /\ ev = "none")
    BY <1>2 DEF FindsThread, Starts
  <2> QED BY <2>1, CallsKeep DEF CallPcs
<1>3. ASSUME NEW t \in Clients, StartTerminates(t) PROVE ThreadsOK'
  BY <1>3, CallsKeep DEF StartTerminates
<1>4. ASSUME NEW t \in Clients, Writes(t) \/ WriteFails(t) \/ Wakes(t) \/ TimesOut(t)
      PROVE  ThreadsOK'
  <2>1. UNCHANGED <<st, inst, ev, wd>> /\ pc[t] \in {"send", "wait"}
    BY <1>4 DEF Writes, WriteFails, Wakes, TimesOut
  <2>2. \E place \in CallPcs : pc' = [pc EXCEPT ![t] = place]
    BY <1>4 DEF Writes, WriteFails, Wakes, TimesOut, Returns, CallPcs
  <2> QED BY <2>1, <2>2, CallsKeep
<1>5. ASSUME NEW t \in Clients, StartFails(t) PROVE FALSE
  BY <1>5 DEF StartFails, StopsOnce
<1>6. ASSUME NEW t \in Senders, Sends(t) PROVE ThreadsOK'
  <2>1. UNCHANGED <<st, inst, ev, wd>> /\ pc' = [pc EXCEPT ![t] = "want"]
    BY <1>6 DEF Sends, Calls
  <2>2. t \in Clients /\ t \notin Stoppers
    BY <1>6, Parts, AdapterAssumption
  <2> QED BY <2>1, <2>2, CallsKeep
<1>7. CASE EventStep \/ ReadFails \/ Controller
  <2>1. UNCHANGED <<st, inst, pc, wd>> /\ (ev' = ev \/ ev' # "none")
    BY <1>7 DEF EventStep, EventLoopTests, EventRead, SetCommandResponse, RejectsLength,
       Disconnects, ReadFails, Controller, ControllerAnswers
  <2> QED BY <2>1, Parts, CallsKeep
<1>8. CASE WatchdogStep \/ WatchdogCounts
  <2>1. Watchdog \in Clients /\ Watchdog \notin Stoppers
    BY Parts, AdapterAssumption
  <2>2. UNCHANGED <<st, inst, ev>> /\ wd # "none" /\ wd' # "none"
    BY <1>8 DEF WatchdogStep, WatchdogChecks, WatchdogEnds, WatchdogPasses, WatchdogCounts
  <2>3. ev # "none"
    BY <2>2 DEF ThreadsOK, NoThreadOverwritten
  <2>4. pc' = pc \/ pc' = [pc EXCEPT ![Watchdog] = "want"]
    BY <1>8 DEF WatchdogStep, WatchdogChecks, WatchdogEnds, WatchdogPasses, WatchdogCounts,
       Calls
  <2> QED BY <2>1, <2>2, <2>3, <2>4, CallsKeep
<1>9. ASSUME NEW s \in Stoppers, ShutdownBegins(s) \/ StopStep(s) \/ JoinsTwice(s)
      PROVE  ThreadsOK'
  BY <1>9, StopKeeps
<1>10. CASE ServerThread
  <2>1. UNCHANGED <<st, inst, ev, wd, pc>>
    BY <1>10 DEF ServerThread, ProcessorChecks, ServerThreadAnnounces
  <2> QED BY <2>1, Parts, CallsKeep
<1> QED BY <1>1, <1>2, <1>3, <1>4, <1>5, <1>6, <1>7, <1>8, <1>9, <1>10
        DEF ProcessStep, SendStep

\* start() assigns no thread over one that is still in its std::thread, and so never
\* terminates the process, if one thread shuts down and connecting and creating
\* threads do not fail.  Any number of threads may send meanwhile.
THEOREM ThreadsAreJoined ==
  ASSUME StopsOnce
  PROVE  Spec => []NoThreadOverwritten
<1>1. Init => ThreadsOK
  BY Parts DEF Init, ThreadsOK, NoThreadOverwritten, StopOK
<1>2. IInv /\ ThreadsOK /\ [Next]_vars => ThreadsOK'
  <2> SUFFICES ASSUME IInv, ThreadsOK, [Next]_vars PROVE ThreadsOK'
    OBVIOUS
  <2>1. CASE Next
    BY <2>1, StopsOnce, ThreadsStep DEF Next, IInv
  <2>2. CASE UNCHANGED vars
    BY <2>2 DEF vars, evVars, wdVars, callVars, stopVars, ThreadsOK, NoThreadOverwritten,
       StopOK
  <2> QED BY <2>1, <2>2
<1>3. ThreadsOK => NoThreadOverwritten
  BY DEF ThreadsOK
<1> QED BY <1>1, <1>2, <1>3, Invariance, PTL DEF Spec
=============================================================================

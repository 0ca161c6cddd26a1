------------------------ MODULE ObjectDispatch_proofs ------------------------
(***************************************************************************)
(* Proofs about ObjectDispatch, for any servers, calls and seconds: its       *)
(* types, that events are due on time and end with a stop, and that calls     *)
(* are found, are answered by their object and set its flag.                  *)
(***************************************************************************)
EXTENDS ObjectDispatch, ObjectTree_proofs

\* Calls and answers are sequences, of whatever they are.
SequencesOK == (\E S : asked \in Seq(S)) /\ (\E S : answers \in Seq(S))

\* A round of ticks that is under way while a stop stands is the first to end after it.
RoundsOK == late \in 0 .. 1 /\ (stop = "standing" /\ loop = "ticking" => late = 0)

IInv == TypeOK /\ SequencesOK /\ EventsKeepTime /\ RoundsOK

\* The elements of a sequence, and one more.
LEMMA AppendLemma ==
  ASSUME NEW S, NEW s \in Seq(S), NEW a
  PROVE  Append(s, a) \in Seq(S \cup {a}) /\ Len(Append(s, a)) = Len(s) + 1
<1>1. \A T, U : T \subseteq U => Seq(T) \subseteq Seq(U)
  OBVIOUS
<1>2. s \in Seq(S \cup {a})
  BY <1>1
<1> QED BY <1>2

\* The period is a positive number, and one tick before its end the event is due.
LEMMA PeriodLemma ==
  ASSUME TypeOK, NEW e \in Events
  PROVE  /\ Period(e) \in Nat \ {0}
         /\ elapsed[e] < Period(e) =>
              IF IsDue(e) THEN elapsed[e] + 1 = Period(e)
                          ELSE elapsed[e] + 1 < Period(e)
<1>1. server.events \in Seq([slot : Slots(server.tree), frequency : Int])
  BY DispatchAssumption DEF TypeOK
<1>2. server.events[e].frequency \in Int
  <2>1. \A S : \A s \in Seq(S) : \A i \in DOMAIN s : s[i] \in S
    OBVIOUS
  <2>2. server.events[e] \in [slot : Slots(server.tree), frequency : Int]
    BY <1>1, <2>1, Zenon DEF Events
  <2> QED BY <2>2
<1>3. elapsed[e] \in Nat
  BY DEF TypeOK
<1> QED BY <1>2, <1>3 DEF Period, IsDue

\* The initial state.
LEMMA InitInv == Init => IInv
<1> SUFFICES ASSUME Init PROVE IInv
  OBVIOUS
<1>1. TypeOK
  <2>1. Len(answers) <= Len(asked)
    BY DEF Init
  <2>2. notifying \in [Slots(Tree) -> BOOLEAN] /\ exported \subseteq Slots(Tree)
    BY DEF Init
  <2>3. elapsed \in [Events -> Nat] /\ fired \in [Events -> Nat]
    BY DEF Init
  <2>4. MaxSeconds \in Nat
    BY DispatchAssumption
  <2>5. seconds \in 0 .. MaxSeconds /\ before \in 0 .. seconds
    BY <2>4 DEF Init
  <2>6. /\ loop \in {"free", "finish", "ticking", "ended"}
        /\ stop \in {"none", "standing", "undone"}
        /\ {registered, timer} \subseteq BOOLEAN
    BY DEF Init
  <2>7. server \in Servers
    BY DEF Init
  <2> QED BY <2>1, <2>2, <2>3, <2>5, <2>6, <2>7 DEF TypeOK
<1>2. SequencesOK
  <2>1. <<>> \in Seq({})
    OBVIOUS
  <2> QED BY <2>1 DEF Init, SequencesOK
<1>3. EventsKeepTime
  <2>1. ASSUME NEW e \in Events PROVE Period(e) \in Nat \ {0}
    BY <1>1, <2>1, PeriodLemma
  <2>2. \A e \in Events : elapsed[e] = 0 /\ fired[e] = 0
    BY DEF Init
  <2>3. Rounds = 0
    BY DEF Init, Rounds
  <2>4. ASSUME NEW e \in Events
        PROVE  Rounds = fired[e] * Period(e) + elapsed[e] /\ elapsed[e] < Period(e)
    BY <2>1, <2>2, <2>3
  <2> QED BY <2>2, <2>4 DEF EventsKeepTime
<1> QED BY <1>1, <1>2, <1>3 DEF Init, IInv, RoundsOK

\* What no action but the timer's touches.
LEMMA TimeStands ==
  ASSUME EventsKeepTime, server' = server, elapsed' = elapsed, fired' = fired,
         Rounds' = Rounds
  PROVE  EventsKeepTime'
<1>1. Events' = Events
  BY DEF Events
<1>2. \A e \in Events : Ticks(e)' = Ticks(e) /\ Period(e)' = Period(e)
  BY DEF Ticks, Period, Tree
<1> QED BY <1>1, <1>2 DEF EventsKeepTime

\* A round of ticks.
LEMMA TicksKeepTime ==
  ASSUME TypeOK, EventsKeepTime, TicksEvents
  PROVE  EventsKeepTime' /\ elapsed' \in [Events -> Nat] /\ fired' \in [Events -> Nat]
<1>1. /\ server' = server /\ seconds' = seconds /\ before' = before
      /\ loop = "ticking" /\ loop' = "free"
  BY DEF TicksEvents
<1>2. seconds \in Nat /\ before \in Nat
  BY DispatchAssumption DEF TypeOK
<1>3. Rounds' = Rounds + 1 /\ Rounds \in Int
  BY <1>1, <1>2 DEF Rounds
<1>4. Events' = Events
  BY <1>1 DEF Events
<1>5. \A e \in Events : Ticks(e)' = Ticks(e) /\ Period(e)' = Period(e)
  BY <1>1 DEF Ticks, Period, Tree
<1>6. ASSUME NEW e \in Events
      PROVE  /\ elapsed'[e] = IF ~Ticks(e) THEN elapsed[e]
                              ELSE IF IsDue(e) THEN 0 ELSE elapsed[e] + 1
             /\ fired'[e] = IF Ticks(e) /\ IsDue(e) THEN fired[e] + 1 ELSE fired[e]
             /\ elapsed[e] \in Nat /\ fired[e] \in Nat
  BY DEF TicksEvents, TypeOK
<1>7. elapsed' \in [Events -> Nat] /\ fired' \in [Events -> Nat]
  BY <1>6 DEF TicksEvents
<1>8. ASSUME NEW e \in Events, Ticks(e)
      PROVE  /\ Rounds + 1 = fired'[e] * Period(e) + elapsed'[e]
             /\ elapsed'[e] < Period(e)
  <2> DEFINE p == Period(e)
  <2>1. p \in Nat \ {0} /\ (elapsed[e] < p =>
          IF IsDue(e) THEN elapsed[e] + 1 = p ELSE elapsed[e] + 1 < p)
    BY PeriodLemma
  <2>2. Rounds = fired[e] * p + elapsed[e] /\ elapsed[e] < p
    BY <1>8 DEF EventsKeepTime
  <2>3. fired[e] \in Nat /\ elapsed[e] \in Nat
    BY <1>6
  <2>4. \A f, q \in Nat : (f + 1) * q = f * q + q
    OBVIOUS
  <2>5. CASE IsDue(e)
    <3>1. elapsed'[e] = 0 /\ fired'[e] = fired[e] + 1
      BY <1>6, <1>8, <2>5
    <3>2. elapsed[e] + 1 = p
      BY <2>1, <2>2, <2>5
    <3>3. (fired[e] + 1) * p = fired[e] * p + p /\ fired[e] * p \in Nat
      BY <2>1, <2>3, <2>4
    <3> HIDE DEF p
    <3>4. Rounds + 1 = (fired[e] + 1) * p + 0
      BY <2>1, <2>2, <2>3, <3>2, <3>3
    <3> QED BY <2>1, <3>1, <3>4 DEF p
  <2>6. CASE ~IsDue(e)
    <3>1. elapsed'[e] = elapsed[e] + 1 /\ fired'[e] = fired[e]
      BY <1>6, <1>8, <2>6
    <3>2. elapsed[e] + 1 < p
      BY <2>1, <2>2, <2>6
    <3>3. fired[e] * p \in Nat
      BY <2>1, <2>3
    <3> QED BY <2>2, <2>3, <3>1, <3>2, <3>3
  <2> QED BY <2>5, <2>6
<1>9. ASSUME NEW e \in Events, ~Ticks(e) PROVE fired'[e] = 0
  BY <1>6, <1>9 DEF EventsKeepTime
<1>10. EventsKeepTime'
  BY <1>3, <1>4, <1>5, <1>8, <1>9 DEF EventsKeepTime
<1> QED BY <1>7, <1>10

\* Every action keeps the invariant.
LEMMA NextInv == IInv /\ [Next]_vars => IInv'
<1> SUFFICES ASSUME IInv, [Next]_vars PROVE IInv'
  OBVIOUS
<1> USE DEF IInv
<1>1. ASSUME UNCHANGED <<server, exported, loop, registered, stopVars, timerVars>>,
             notifying' \in [Slots(Tree) -> BOOLEAN],
             SequencesOK', Len(answers') <= Len(asked')
      PROVE  IInv'
  <2>1. Rounds' = Rounds
    BY <1>1 DEF Rounds, timerVars
  <2>2. TypeOK'
    BY <1>1 DEF TypeOK, timerVars, stopVars, Tree, Events
  <2>3. EventsKeepTime'
    BY <1>1, <2>1, TimeStands DEF timerVars
  <2> QED BY <1>1, <2>2, <2>3 DEF RoundsOK, timerVars, stopVars
<1>2. ASSUME NEW s, NEW m, Calls(s, m) PROVE IInv'
  <2>1. PICK S : asked \in Seq(S)
    BY DEF SequencesOK
  <2>2. PICK r : asked' = Append(asked, r)
    BY <1>2 DEF Calls
  <2>3. asked' \in Seq(S \cup {r}) /\ Len(asked') = Len(asked) + 1
    BY <2>1, <2>2, AppendLemma
  <2>4. answers' = answers /\ notifying' = notifying
    BY <1>2 DEF Calls
  <2>5. Len(answers) \in Nat /\ Len(asked) \in Nat
    BY DEF SequencesOK
  <2>6. SequencesOK'
    BY <2>3, <2>4 DEF SequencesOK
  <2>7. Len(answers') <= Len(asked')
    BY <2>3, <2>4, <2>5 DEF TypeOK
  <2> QED BY <1>1, <1>2, <2>4, <2>6, <2>7 DEF Calls, TypeOK
<1>3. ASSUME NEW a, answers' = Append(answers, a), asked' = asked,
             Len(answers) < Len(asked)
      PROVE  SequencesOK' /\ Len(answers') <= Len(asked')
  <2>1. PICK S : answers \in Seq(S)
    BY DEF SequencesOK
  <2>2. answers' \in Seq(S \cup {a}) /\ Len(answers') = Len(answers) + 1
    BY <2>1, <1>3, AppendLemma
  <2>3. Len(answers) \in Nat /\ Len(asked) \in Nat
    BY DEF SequencesOK
  <2> QED BY <1>3, <2>2, <2>3 DEF SequencesOK
<1>4. CASE HandlesMethod
  <2> DEFINE a == CallMethod(Request.at, Request.name)
  <2>1. answers' = Append(answers, a) /\ asked' = asked /\ Len(answers) < Len(asked)
    BY <1>4 DEF HandlesMethod, IsNext
  <2>2. notifying' \in [Slots(Tree) -> BOOLEAN]
    <3>1. Notify(a.slot, Request.name) \/ notifying' = notifying
      BY <1>4 DEF HandlesMethod
    <3>2. notifying \in [Slots(Tree) -> BOOLEAN]
      BY DEF TypeOK
    <3> QED BY <3>1, <3>2 DEF Notify
  <2>3. SequencesOK' /\ Len(answers') <= Len(asked')
    BY <2>1, <1>3
  <2> QED BY <1>1, <1>4, <2>2, <2>3 DEF HandlesMethod
<1>5. CASE HandlesGet
  <2>1. /\ answers' = Append(answers, GetProperty(Request.at, Request.name))
        /\ asked' = asked /\ Len(answers) < Len(asked) /\ notifying' = notifying
    BY <1>5 DEF HandlesGet, IsNext
  <2>2. SequencesOK' /\ Len(answers') <= Len(asked')
    BY <2>1, <1>3
  <2> QED BY <1>1, <1>5, <2>1, <2>2 DEF HandlesGet, TypeOK
<1>6. ASSUME UNCHANGED <<server, exported, callVars>>
      PROVE  SequencesOK' /\ Tree' = Tree /\ Events' = Events
  BY <1>6 DEF SequencesOK, callVars, Tree, Events
<1>7. CASE ApplicationIsRegistered \/ NameIsAcquired \/ ProcessorSetsRunning
            \/ TimerEnds \/ Stops \/ LoopEnds
  <2> USE DEF ApplicationIsRegistered, NameIsAcquired, ProcessorRuns,
              ProcessorSetsRunning, TimerEnds, Stops, LoopEnds, stopVars, timerVars
  <2>1. /\ UNCHANGED <<server, exported, callVars, elapsed, fired, seconds, before>>
        /\ registered' \in BOOLEAN /\ timer' \in BOOLEAN
        /\ stop' \in {"none", "standing", "undone"}
        /\ loop' \in {"free", "finish", "ticking", "ended"}
    BY <1>7 DEF TypeOK
  <2>2. (loop' = "ticking") = (loop = "ticking")
    BY <1>7
  <2>3. Rounds' = Rounds
    BY <2>1, <2>2 DEF Rounds
  <2>4. TypeOK'
    BY <1>6, <2>1 DEF TypeOK, callVars
  <2>5. EventsKeepTime'
    BY <2>1, <2>3, TimeStands
  <2>6. RoundsOK'
    <3>1. CASE Stops
      BY <3>1 DEF RoundsOK
    <3>2. CASE ~Stops
      BY <1>7, <2>2, <3>2 DEF RoundsOK
    <3> QED BY <3>1, <3>2
  <2> QED BY <1>6, <2>1, <2>4, <2>5, <2>6
<1>8. CASE TimerFires
  <2>1. /\ UNCHANGED <<server, exported, callVars, registered, stopVars, elapsed, fired, late>>
        /\ loop = "free" /\ stop # "standing" /\ seconds' = seconds + 1 /\ seconds < MaxSeconds
        /\ \/ loop' = "ticking" /\ before' = before
           \/ loop' = "free" /\ before' = before + 1
    BY <1>8 DEF TimerFires
  <2>2. seconds \in 0 .. MaxSeconds /\ before \in 0 .. seconds /\ MaxSeconds \in Nat
    BY DispatchAssumption DEF TypeOK
  <2>3. Rounds' = Rounds
    <3>1. Rounds = seconds - before - 0
      BY <2>1 DEF Rounds
    <3>2. CASE loop' = "ticking" /\ before' = before
      <4>1. Rounds' = seconds' - before' - 1
        BY <3>2 DEF Rounds
      <4> QED BY <2>1, <2>2, <3>1, <3>2, <4>1
    <3>3. CASE loop' = "free" /\ before' = before + 1
      <4>1. Rounds' = seconds' - before' - 0
        BY <3>3 DEF Rounds
      <4> QED BY <2>1, <2>2, <3>1, <3>3, <4>1
    <3> QED BY <2>1, <3>2, <3>3
  <2>4. TypeOK'
    BY <1>6, <2>1, <2>2 DEF TypeOK, callVars, stopVars
  <2>5. EventsKeepTime'
    BY <2>1, <2>3, TimeStands
  <2> QED BY <1>6, <2>1, <2>4, <2>5 DEF RoundsOK, stopVars
<1>9. CASE TicksEvents
  <2>1. /\ UNCHANGED <<server, exported, callVars, registered, stopVars, seconds, before>>
        /\ loop = "ticking" /\ loop' = "free"
        /\ late' = IF stop = "standing" THEN late + 1 ELSE late
    BY <1>9 DEF TicksEvents
  <2>2. EventsKeepTime' /\ elapsed' \in [Events -> Nat] /\ fired' \in [Events -> Nat]
    BY <1>9, TicksKeepTime
  <2>3. TypeOK'
    BY <1>6, <2>1, <2>2 DEF TypeOK, callVars, stopVars
  <2>4. RoundsOK'
    BY <2>1 DEF RoundsOK, stopVars
  <2> QED BY <1>6, <2>1, <2>2, <2>3, <2>4
<1>10. CASE UNCHANGED vars
  <2>1. SequencesOK' /\ Len(answers') <= Len(asked') /\ notifying' \in [Slots(Tree) -> BOOLEAN]
    BY <1>10 DEF vars, callVars, SequencesOK, TypeOK
  <2> QED BY <1>1, <1>10, <2>1 DEF vars
<1> QED BY <1>2, <1>4, <1>5, <1>7, <1>8, <1>9, <1>10 DEF Next

\* The types hold for every server and any number of calls and seconds.
THEOREM TypeCorrect == Spec => []TypeOK
<1>1. IInv => TypeOK
  BY DEF IInv
<1> QED BY <1>1, InitInv, NextInv, PTL DEF Spec

\* Events are due every `frequency' firings of the timers, without drift, for every
\* frequency.
THEOREM EventsAreOnTime == Spec => []EventsKeepTime
<1>1. IInv => EventsKeepTime
  BY DEF IInv
<1> QED BY <1>1, InitInv, NextInv, PTL DEF Spec

\* While a stop of the server stands, at most one round of ticks comes to its end.
THEOREM EventsEnd == Spec => []StopEndsEvents
<1>1. IInv => StopEndsEvents
  BY DEF IInv, RoundsOK, StopEndsEvents
<1> QED BY <1>1, InitInv, NextInv, PTL DEF Spec

-----------------------------------------------------------------------------
(* Calls and their answers                                                   *)

\* What paths are made of: no prover here knows that a literal is in STRING.
Elements == STRING \cup {Slash}

\* The tree of a server has paths.
LEMMA TreeIsRooted ==
  ASSUME server \in Servers
  PROVE  /\ IsRooted(Tree, Elements)
         /\ \E S : Tree \in Seq(S)
         /\ server.members \in Seq([slot : Slots(Tree), kind : {"method", "property"},
                                    name : STRING, own : BOOLEAN])
<1>1. IsTree(Tree)
      /\ server.members \in Seq([slot : Slots(Tree), kind : {"method", "property"},
                                 name : STRING, own : BOOLEAN])
  BY DispatchAssumption DEF Tree
<1> DEFINE Nodes == [depth : Nat \ {0}, name : Seq(STRING), publish : BOOLEAN,
                     interfaces : Seq(STRING)]
<1>2. Tree \in Seq(Nodes) /\ Tree[1].depth = 1
  BY <1>1 DEF IsTree
<1>3. STRING \subseteq Elements
  BY DEF Elements
<1>4. ASSUME NEW j \in DOMAIN Tree
      PROVE  /\ Tree[j].depth \in Nat \ {0} /\ Tree[j].name \in Seq(Elements)
             /\ Tree[j].depth = 1 => Tree[j].name # <<>> /\ Head(Tree[j].name) = Slash
  <2>1. Tree[j] \in Nodes
    <3> HIDE DEF Nodes
    <3> QED BY <1>2, ElementOfSeq
  <2>2. Tree[j].depth \in Nat \ {0} /\ Tree[j].name \in Seq(STRING)
    BY <2>1
  <2>3. Tree[j].name \in Seq(Elements)
    BY <1>3, <2>2, LargerSeq, Zenon
  <2> QED BY <1>1, <2>2, <2>3 DEF IsTree
<1> QED BY <1>1, <1>2, <1>4 DEF IsRooted

\* The interfaces, and their paths.
LEMMA TreeFacts ==
  ASSUME server \in Servers
  PROVE  /\ Slots(Tree) \in SUBSET (Nat \X Nat)
         /\ \A s \in Slots(Tree) : LookupPath(Tree, s[1]) = RegisteredPath(Tree, s[1])
<1>1. PICK S : Tree \in Seq(S)
  BY TreeIsRooted
<1>2. /\ Slots(Tree) \in SUBSET (Nat \X Nat)
      /\ \A s \in Slots(Tree) : s[1] \in Nat \ {0} /\ 1 .. s[1] \subseteq DOMAIN Tree
  BY <1>1, SlotsLemma
<1>3. Slash \in Elements /\ IsRooted(Tree, Elements)
  BY TreeIsRooted DEF Elements
<1> QED BY <1>2, <1>3, OnePath

\* A member that was added is found by its name.
LEMMA NamedLemma ==
  ASSUME server \in Servers, NEW i \in DOMAIN server.members
  PROVE  LET m == server.members[i] IN Named(m.slot, m.kind, m.name) \in Nat \ {0}
<1> DEFINE m     == server.members[i]
           named == {j \in DOMAIN server.members : /\ server.members[j].slot = m.slot
                                                   /\ server.members[j].kind = m.kind
                                                   /\ server.members[j].name = m.name}
<1>1. DOMAIN server.members \subseteq Nat \ {0}
  <2>1. \E S : server.members \in Seq(S)
    BY TreeIsRooted
  <2> QED BY <2>1
<1>2. i \in named /\ named \in SUBSET Nat /\ named \subseteq Nat \ {0}
  BY <1>1
<1>3. Named(m.slot, m.kind, m.name) = IF named = {} THEN 0 ELSE Min(named)
  BY DEF Named
<1> HIDE DEF named, m
<1>4. Named(m.slot, m.kind, m.name) \in named
  BY <1>2, <1>3, MinLemma
<1> QED BY <1>2, <1>4 DEF m

\* The members of the interfaces that are registered, as GDBus passes calls on.
IsCallable(i) ==
  /\ i \in DOMAIN server.members /\ server.members[i].slot \in exported
  /\ Describes(server.members[i].slot, server.members[i])

CallOf(m) ==
  [slot |-> m.slot, at |-> Wanted(m.slot), kind |-> m.kind, name |-> m.name]

\* The right answer, and all that a call can get in the way.
IsAnswer(r, a) ==
  LET i    == Named(r.slot, r.kind, r.name)
      lost == r.kind = "property" /\ Interface(Tree, r.slot) = "GattDescriptor1"
  IN a = Answer(r.slot, CASE lost -> "missing"
                          [] ~lost /\ server.members[i].own -> "called"
                          [] OTHER -> "error")

IsNotLost(r, a) ==
  a.outcome # "crash" /\ (r.kind = "method" => a.outcome # "missing")

\* What is found when every interface has its own path and name.
LEMMA OnlyOne ==
  ASSUME server \in Servers, IsExportable(exported), AllExported,
         NEW s \in Slots(Tree), NEW t \in Slots(Tree),
         LookupPath(Tree, t[1]) = Wanted(s).path, Interface(Tree, t) = Wanted(s).name
  PROVE  t = s
<1>1. Wanted(t) = Wanted(s)
  BY TreeFacts DEF Wanted
<1> QED BY <1>1 DEF IsExportable, AllExported

\* A method that GDBus passes on is found.
LEMMA MethodLemma ==
  ASSUME server \in Servers, exported \subseteq Slots(Tree), IsExportable(exported),
         NEW i, IsCallable(i), server.members[i].kind = "method"
  PROVE  LET r == CallOf(server.members[i])
             a == CallMethod(r.at, r.name)
         IN IsNotLost(r, a) /\ (AllExported => IsAnswer(r, a))
<1> DEFINE m     == server.members[i]
           s     == m.slot
           found == {t \in Slots(Tree) : /\ LookupPath(Tree, t[1]) = Wanted(s).path
                                         /\ Interface(Tree, t) = Wanted(s).name
                                         /\ Named(t, "method", m.name) # 0}
           a     == CallMethod(Wanted(s), m.name)
<1>1. s \in Slots(Tree) /\ Named(s, "method", m.name) \in Nat \ {0}
  BY NamedLemma DEF IsCallable
<1>2. s \in found /\ found \in SUBSET (Nat \X Nat)
  BY <1>1, TreeFacts DEF Wanted
<1>3. a = AnswerOf(FirstSlot(found), "method", m.name)
  <2>1. a = IF found = {} THEN Answer(<<>>, "missing")
                          ELSE AnswerOf(FirstSlot(found), "method", m.name)
    BY DEF CallMethod
  <2> HIDE DEF found, a
  <2> QED BY <1>2, <2>1
<1>4. AllExported => FirstSlot(found) = s
  <2> SUFFICES ASSUME AllExported PROVE FirstSlot(found) = s
    OBVIOUS
  <2>1. \A t \in found : t = s
    BY <1>1, OnlyOne
  <2>2. FirstSlot(found) \in found
    <3> HIDE DEF found
    <3> QED BY <1>2, FirstSlotLemma
  <2> QED BY <2>1, <2>2
<1>5. CallOf(m).slot = s /\ CallOf(m).kind = "method" /\ CallOf(m).name = m.name
      /\ CallOf(m).at = Wanted(s)
  BY DEF CallOf
<1> HIDE DEF found, a, s
<1>6. a.outcome \in {"called", "error"}
  BY <1>3 DEF AnswerOf, Answer
<1>7. IsNotLost(CallOf(m), a)
  BY <1>6 DEF IsNotLost
<1>8. AllExported => IsAnswer(CallOf(m), a)
  BY <1>3, <1>4, <1>5 DEF IsAnswer, AnswerOf
<1> HIDE DEF m
<1>9. a = CallMethod(CallOf(m).at, CallOf(m).name)
  BY <1>5 DEF a
<1> QED BY <1>7, <1>8, <1>9 DEF m

\* A property that GDBus passes on has an interface.
LEMMA PropertyLemma ==
  ASSUME server \in Servers, exported \subseteq Slots(Tree), IsExportable(exported),
         NEW i, IsCallable(i), server.members[i].kind = "property"
  PROVE  LET r == CallOf(server.members[i])
             a == GetProperty(r.at, r.name)
         IN IsNotLost(r, a) /\ (AllExported => IsAnswer(r, a))
<1> DEFINE m     == server.members[i]
           s     == m.slot
           found == {t \in Slots(Tree) : /\ LookupPath(Tree, t[1]) = Wanted(s).path
                                         /\ Interface(Tree, t) = Wanted(s).name}
           first == FindInterface(Tree, Wanted(s).path, Wanted(s).name)
           a     == GetProperty(Wanted(s), m.name)
<1>1. /\ s \in Slots(Tree) /\ Named(s, "property", m.name) \in Nat \ {0}
      /\ Wanted(s).name = Interface(Tree, s) /\ Interface(Tree, s) \in Gatt
  BY NamedLemma DEF IsCallable, Describes, Wanted
<1>2. s \in found /\ found \in SUBSET (Nat \X Nat)
  BY <1>1, TreeFacts DEF Wanted
<1>3. first = FirstSlot(found)
  <2>1. first = IF found = {} THEN <<>> ELSE FirstSlot(found)
    BY DEF FindInterface
  <2> HIDE DEF found, first
  <2> QED BY <1>2, <2>1
<1>4. first \in found /\ first # <<>>
  <2>1. FirstSlot(found) \in found
    <3> HIDE DEF found
    <3> QED BY <1>2, FirstSlotLemma
  <2>2. <<>> \notin Nat \X Nat
    OBVIOUS
  <2> HIDE DEF found, first
  <2> QED BY <1>2, <1>3, <2>1, <2>2
<1>5. AllExported => first = s
  <2> SUFFICES ASSUME AllExported PROVE first = s
    OBVIOUS
  <2>1. \A t \in found : t = s
    BY <1>1, OnlyOne
  <2> QED BY <2>1, <1>4
<1>6. CallOf(m).slot = s /\ CallOf(m).kind = "property" /\ CallOf(m).name = m.name
      /\ CallOf(m).at = Wanted(s)
  BY DEF CallOf
<1> DEFINE unknown == \/ Wanted(s).name \notin Gatt \ {"GattDescriptor1"}
                      \/ Named(first, "property", m.name) = 0
<1>7. a = IF unknown THEN Answer(first, "missing") ELSE AnswerOf(first, "property", m.name)
  <2> HIDE DEF s
  <2> QED BY <1>4 DEF GetProperty
<1> HIDE DEF found, first, a, s
<1>8. a.outcome \in {"missing", "called", "error"}
  BY <1>7 DEF AnswerOf, Answer
<1>9. IsNotLost(CallOf(m), a)
  BY <1>6, <1>8 DEF IsNotLost
<1>10. AllExported => IsAnswer(CallOf(m), a)
  <2>1. CASE Interface(Tree, s) = "GattDescriptor1"
    BY <2>1, <1>1, <1>5, <1>6, <1>7 DEF IsAnswer
  <2>2. CASE Interface(Tree, s) # "GattDescriptor1"
    BY <2>2, <1>1, <1>5, <1>6, <1>7 DEF IsAnswer, AnswerOf
  <2> QED BY <2>1, <2>2
<1> HIDE DEF m
<1>11. a = GetProperty(CallOf(m).at, CallOf(m).name)
  BY <1>6 DEF a
<1> QED BY <1>9, <1>10, <1>11 DEF m

RequestsOK ==
  \A n \in DOMAIN asked :
    \E i : IsCallable(i) /\ asked[n] = CallOf(server.members[i])

CallsInv ==
  /\ IsExportable(exported) /\ RequestsOK
  /\ \A n \in DOMAIN answers : IsNotLost(asked[n], answers[n])
  /\ AllExported => \A n \in DOMAIN answers : IsAnswer(asked[n], answers[n])

\* The calls to notify or not that a characteristic answered.
Mine(s) ==
  {n \in DOMAIN answers : /\ asked[n].slot = s
                          /\ asked[n].kind = "method"
                          /\ asked[n].name \in NotifyCalls
                          /\ answers[n].outcome = "called"}

NotifyingInv ==
  AllExported =>
    \A s \in Slots(Tree) :
      (Interface(Tree, s) = "GattCharacteristic1" /\ Mine(s) # {}) =>
        notifying[s] = (asked[Max(Mine(s))].name = "StartNotify")

JInv == CallsInv /\ NotifyingInv

LEMMA MineLemma ==
  ASSUME SequencesOK, NEW s, Mine(s) # {}
  PROVE  Max(Mine(s)) \in DOMAIN answers
<1>1. DOMAIN answers = 1 .. Len(answers) /\ Len(answers) \in Nat
  BY DEF SequencesOK
<1>2. Mine(s) \in SUBSET (0 .. Len(answers))
  BY <1>1 DEF Mine
<1>3. Max(Mine(s)) \in Mine(s)
  BY <1>1, <1>2, MaxLemma
<1> QED BY <1>3 DEF Mine

LEMMA InitJInv == Init => JInv
<1> SUFFICES ASSUME Init PROVE JInv
  OBVIOUS
<1>1. DOMAIN asked = {} /\ DOMAIN answers = {} /\ IsExportable(exported)
  BY DEF Init
<1>2. \A s : Mine(s) = {}
  BY <1>1 DEF Mine
<1> QED BY <1>1, <1>2 DEF JInv, CallsInv, RequestsOK, NotifyingInv

\* Nothing changes the server, or what of it is registered.
LEMMA ServerStands ==
  ASSUME UNCHANGED <<server, exported>>
  PROVE  /\ Tree' = Tree /\ (AllExported' <=> AllExported)
         /\ IsExportable(exported)' <=> IsExportable(exported)
         /\ \A i : IsCallable(i)' <=> IsCallable(i)
         /\ \A m : CallOf(m)' = CallOf(m)
         /\ \A r, a : IsAnswer(r, a)' <=> IsAnswer(r, a)
<1>1. Tree' = Tree
  BY DEF Tree
<1>2. \A s : Wanted(s)' = Wanted(s)
  BY <1>1 DEF Wanted
<1>3. \A s, kind, name : Named(s, kind, name)' = Named(s, kind, name)
  BY DEF Named
<1>4. IsExportable(exported)' <=> IsExportable(exported)
  BY <1>1, <1>2 DEF IsExportable
<1>5. \A i : IsCallable(i)' <=> IsCallable(i)
  BY <1>1 DEF IsCallable, Describes
<1>6. \A m : CallOf(m)' = CallOf(m)
  BY <1>2 DEF CallOf
<1>7. \A r, a : IsAnswer(r, a)' <=> IsAnswer(r, a)
  BY <1>1, <1>3 DEF IsAnswer
<1> QED BY <1>1, <1>4, <1>5, <1>6, <1>7 DEF AllExported

\* What says nothing of the calls.
LEMMA CallsStand ==
  ASSUME JInv, UNCHANGED <<server, exported, asked, answers, notifying>>
  PROVE  JInv'
<1>1. Tree' = Tree /\ (AllExported' <=> AllExported)
  BY ServerStands
<1>2. CallsInv'
  BY ServerStands DEF JInv, CallsInv, RequestsOK
<1>3. NotifyingInv'
  BY <1>1 DEF JInv, NotifyingInv, Mine
<1> QED BY <1>2, <1>3 DEF JInv

\* A call is passed on: the answers so far are to the calls before it.
LEMMA CallsJInv ==
  ASSUME IInv, JInv, NEW s \in exported, NEW i \in DOMAIN server.members,
         Calls(s, server.members[i])
  PROVE  JInv'
<1> DEFINE r == CallOf(server.members[i])
<1>1. /\ server.members[i].slot = s /\ IsCallable(i)
      /\ asked' = Append(asked, r)
      /\ UNCHANGED <<server, exported, answers, notifying>>
  BY DEF Calls, Describes, IsCallable, CallOf
<1>2. Tree' = Tree /\ (AllExported' <=> AllExported)
  BY <1>1, ServerStands
<1> HIDE DEF r
<1>3. /\ DOMAIN asked' = 1 .. Len(asked) + 1 /\ asked'[Len(asked) + 1] = r
      /\ \A n \in DOMAIN asked : asked'[n] = asked[n]
      /\ DOMAIN asked = 1 .. Len(asked) /\ Len(asked) \in Nat
  BY <1>1 DEF IInv, SequencesOK
<1>4. DOMAIN answers \subseteq DOMAIN asked
  <2>1. DOMAIN answers = 1 .. Len(answers) /\ Len(answers) \in Nat
        /\ Len(answers) <= Len(asked)
    BY DEF IInv, SequencesOK, TypeOK
  <2> QED BY <2>1, <1>3
<1>5. \A n \in DOMAIN answers : asked'[n] = asked[n]
  BY <1>3, <1>4
<1>6. RequestsOK'
  <2>3. ASSUME NEW n \in DOMAIN asked'
        PROVE  \E j : IsCallable(j) /\ asked'[n] = CallOf(server.members[j])
    <3>1. CASE n = Len(asked) + 1
      BY <3>1, <1>1, <1>3 DEF r
    <3>2. CASE n # Len(asked) + 1
      <4>1. n \in DOMAIN asked
        BY <3>2, <1>3
      <4> QED BY <4>1, <1>3 DEF JInv, CallsInv, RequestsOK
    <3> QED BY <3>1, <3>2
  <2> QED BY <2>3, <1>1, ServerStands DEF RequestsOK
<1>7. CallsInv'
  BY <1>1, <1>5, <1>6, ServerStands DEF JInv, CallsInv
<1>8. NotifyingInv'
  <2>3. \A t : Mine(t)' = Mine(t)
    BY <1>1, <1>5 DEF Mine
  <2>4. ASSUME NEW t, Mine(t) # {} PROVE Max(Mine(t)) \in DOMAIN answers
    BY <2>4, MineLemma DEF IInv
  <2> QED BY <1>1, <1>2, <1>5, <2>3, <2>4 DEF JInv, NotifyingInv
<1> QED BY <1>7, <1>8 DEF JInv

\* The next call is answered: an answer that is not lost, and the right one if
\* everything is registered, leaves all answers so.
LEMMA AnsweredLemma ==
  ASSUME IInv, JInv, Len(answers) < Len(asked),
         NEW a, answers' = Append(answers, a), UNCHANGED <<server, exported, asked>>,
         IsNotLost(Request, a), AllExported => IsAnswer(Request, a)
  PROVE  /\ CallsInv'
         /\ Len(answers) + 1 \in Nat
         /\ DOMAIN answers = 1 .. Len(answers)
         /\ DOMAIN answers' = 1 .. Len(answers) + 1
         /\ \A n \in DOMAIN answers : answers'[n] = answers[n]
         /\ answers'[Len(answers) + 1] = a
<1>1. /\ Len(answers) + 1 \in Nat
      /\ DOMAIN answers = 1 .. Len(answers)
      /\ DOMAIN answers' = 1 .. Len(answers) + 1
      /\ \A n \in DOMAIN answers : answers'[n] = answers[n]
      /\ answers'[Len(answers) + 1] = a
  BY DEF IInv, SequencesOK
<1>2. ASSUME NEW n \in DOMAIN answers'
      PROVE  /\ IsNotLost(asked[n], answers'[n])
             /\ AllExported => IsAnswer(asked[n], answers'[n])
  <2>1. CASE n = Len(answers) + 1
    BY <2>1, <1>1 DEF Request
  <2>2. CASE n # Len(answers) + 1
    <3>1. n \in DOMAIN answers /\ answers'[n] = answers[n]
      BY <2>2, <1>1
    <3> QED BY <3>1 DEF JInv, CallsInv
  <2> QED BY <2>1, <2>2
<1>3. RequestsOK'
  BY ServerStands DEF JInv, CallsInv, RequestsOK
<1>4. CallsInv'
  BY <1>2, <1>3, ServerStands DEF JInv, CallsInv
<1> QED BY <1>1, <1>4

\* The call that is next is one that GDBus passed on.
LEMMA RequestLemma ==
  ASSUME IInv, JInv, Len(answers) < Len(asked)
  PROVE  \E i : IsCallable(i) /\ Request = CallOf(server.members[i])
                /\ Request.kind = server.members[i].kind
<1>1. Len(answers) + 1 \in DOMAIN asked
  <2>1. Len(answers) \in Nat /\ Len(asked) \in Nat /\ DOMAIN asked = 1 .. Len(asked)
    BY DEF IInv, SequencesOK
  <2> QED BY <2>1
<1> QED BY <1>1 DEF JInv, CallsInv, RequestsOK, Request, CallOf

\* onGetProperty changes no characteristic.
LEMMA GetJInv == IInv /\ JInv /\ HandlesGet => JInv'
<1> SUFFICES ASSUME IInv, JInv, HandlesGet PROVE JInv'
  OBVIOUS
<1> DEFINE a == GetProperty(Request.at, Request.name)
<1>1. /\ Len(answers) < Len(asked) /\ Request.kind = "property"
      /\ answers' = Append(answers, a)
      /\ UNCHANGED <<server, exported, asked, notifying>>
  BY DEF HandlesGet, IsNext, Request
<1>2. IsNotLost(Request, a) /\ (AllExported => IsAnswer(Request, a))
  <2>1. PICK i : IsCallable(i) /\ Request = CallOf(server.members[i])
                 /\ server.members[i].kind = "property"
    BY <1>1, RequestLemma
  <2>2. server \in Servers /\ exported \subseteq Slots(Tree) /\ IsExportable(exported)
    BY DEF IInv, TypeOK, JInv, CallsInv
  <2> QED BY <2>1, <2>2, PropertyLemma
<1> HIDE DEF a
<1>3. /\ CallsInv'
      /\ Len(answers) + 1 \in Nat
      /\ DOMAIN answers = 1 .. Len(answers)
      /\ DOMAIN answers' = 1 .. Len(answers) + 1
      /\ \A n \in DOMAIN answers : answers'[n] = answers[n]
  BY <1>1, <1>2, AnsweredLemma
<1>4. \A s : Mine(s)' = Mine(s)
  <2>1. ASSUME NEW s PROVE Mine(s)' = Mine(s)
    <3>1. Mine(s)' \subseteq DOMAIN answers
      BY <1>1, <1>3 DEF Mine, Request
    <3> QED BY <1>1, <1>3, <3>1 DEF Mine
  <2> QED BY <2>1
<1>5. NotifyingInv'
  BY <1>1, <1>4, ServerStands DEF JInv, NotifyingInv
<1> QED BY <1>3, <1>5 DEF JInv

\* onMethodCall: only the characteristic that was called follows the call.
LEMMA MethodJInv == IInv /\ JInv /\ HandlesMethod => JInv'
<1> SUFFICES ASSUME IInv, JInv, HandlesMethod PROVE JInv'
  OBVIOUS
<1> DEFINE r == Request
           a == CallMethod(Request.at, Request.name)
           last == Len(answers) + 1
<1>1. /\ Len(answers) < Len(asked) /\ r.kind = "method" /\ r = asked[last]
      /\ answers' = Append(answers, a)
      /\ UNCHANGED <<server, exported, asked>>
      /\ IF a.outcome = "called" THEN Notify(a.slot, r.name) ELSE UNCHANGED notifying
  BY DEF HandlesMethod, IsNext, Request
<1>2. IsNotLost(r, a) /\ (AllExported => IsAnswer(r, a))
  <2>1. PICK i : IsCallable(i) /\ Request = CallOf(server.members[i])
                 /\ server.members[i].kind = "method"
    BY <1>1, RequestLemma
  <2>2. server \in Servers /\ exported \subseteq Slots(Tree) /\ IsExportable(exported)
    BY DEF IInv, TypeOK, JInv, CallsInv
  <2> QED BY <2>1, <2>2, MethodLemma
<1> HIDE DEF a
<1>3. /\ CallsInv'
      /\ last \in Nat
      /\ DOMAIN answers = 1 .. Len(answers)
      /\ DOMAIN answers' = 1 .. last
      /\ \A n \in DOMAIN answers : answers'[n] = answers[n]
      /\ answers'[last] = a
  BY <1>1, <1>2, AnsweredLemma
<1>4. Len(answers) \in Nat
  BY DEF IInv, SequencesOK
<1> HIDE DEF r
<1>5. DOMAIN answers' = DOMAIN answers \cup {last} /\ last \notin DOMAIN answers
  BY <1>3, <1>4
<1> HIDE DEF last
<1>6. NotifyingInv'
  <2> SUFFICES ASSUME AllExported, NEW s \in Slots(Tree),
                      Interface(Tree, s) = "GattCharacteristic1", Mine(s)' # {}
               PROVE  notifying'[s] = (asked[Max(Mine(s)')].name = "StartNotify")
    BY <1>1, ServerStands DEF NotifyingInv
  <2>1. a.slot = r.slot
    BY <1>2 DEF IsAnswer, Answer
  <2> DEFINE follows == r.slot = s /\ r.name \in NotifyCalls /\ a.outcome = "called"
  <2>2. Mine(s)' = Mine(s) \cup (IF follows THEN {last} ELSE {})
    BY <1>1, <1>3, <1>5 DEF Mine
  <2>3. CASE follows
    <3>1. last \in Mine(s)' /\ \A n \in Mine(s)' : n <= last
      <4>1. \A n \in DOMAIN answers : n <= last
        BY <1>3, <1>4 DEF last
      <4> QED BY <1>3, <2>2, <2>3, <4>1 DEF Mine
    <3>2. Mine(s)' \in SUBSET (0 .. last) /\ last \in Nat
      BY <1>3, <1>5, <2>2 DEF Mine
    <3>3. Max(Mine(s)') = last
      <4>1. Max(Mine(s)') \in Mine(s)' /\ last <= Max(Mine(s)')
        BY <3>1, <3>2, MaxLemma
      <4> QED BY <3>1, <3>2, <4>1
    <3>4. notifying' = [notifying EXCEPT ![s] = (r.name = "StartNotify")]
      BY <1>1, <2>1, <2>3 DEF Notify
    <3>5. s \in DOMAIN notifying
      BY DEF IInv, TypeOK
    <3> QED BY <1>1, <3>3, <3>4, <3>5
  <2>4. CASE ~follows
    <3>1. Mine(s)' = Mine(s)
      BY <2>2, <2>4
    <3>2. notifying'[s] = notifying[s]
      <4>1. CASE r.slot # s
        BY <4>1, <1>1, <2>1 DEF Notify, IInv, TypeOK
      <4>2. CASE r.slot = s
        BY <4>2, <1>1, <2>4 DEF Notify
      <4> QED BY <4>1, <4>2
    <3> QED BY <3>1, <3>2 DEF JInv, NotifyingInv
  <2> QED BY <2>3, <2>4
<1> QED BY <1>3, <1>6 DEF JInv

LEMMA NextJInv == IInv /\ JInv /\ [Next]_vars => JInv'
<1> SUFFICES ASSUME IInv, JInv, [Next]_vars PROVE JInv'
  OBVIOUS
<1>1. ASSUME NEW s \in exported, NEW i \in DOMAIN server.members,
             Calls(s, server.members[i])
      PROVE  JInv'
  BY <1>1, CallsJInv
<1>2. CASE HandlesMethod
  BY <1>2, MethodJInv
<1>3. CASE HandlesGet
  BY <1>3, GetJInv
<1>4. CASE ApplicationIsRegistered \/ NameIsAcquired \/ ProcessorSetsRunning
           \/ TimerFires \/ TimerEnds \/ TicksEvents \/ Stops \/ LoopEnds
           \/ UNCHANGED vars
  <2>1. UNCHANGED <<server, exported, asked, answers, notifying>>
    BY <1>4 DEF ApplicationIsRegistered, NameIsAcquired, ProcessorSetsRunning, TimerFires,
                TimerEnds, TicksEvents, Stops, LoopEnds, vars, callVars
  <2> QED BY <2>1, CallsStand
<1> QED BY <1>1, <1>2, <1>3, <1>4 DEF Next

LEMMA Invariants == Spec => [](IInv /\ JInv)
<1> QED BY InitInv, NextInv, InitJInv, NextJInv, PTL DEF Spec

\* A call that D-Bus passes on is never met with "not found", and a search never
\* follows a null pointer, for every server and whatever part of it is registered.
THEOREM CallsAreFound == Spec => []NoCallIsLost
<1>1. JInv => NoCallIsLost
  BY DEF JInv, CallsInv, IsNotLost, NoCallIsLost
<1> QED BY <1>1, Invariants, PTL

\* Calls are answered in their order, each by the interface it was sent to.
THEOREM AnswersAreRight == Spec => []AnsweredByItsObject
<1>1. JInv => AnsweredByItsObject
  BY DEF JInv, CallsInv, IsAnswer, AnsweredByItsObject
<1> QED BY <1>1, Invariants, PTL

\* A characteristic notifies if the last call that it answered says so.
THEOREM LastCallNotifies == Spec => []NotifyingIsLastAsked
<1>1. JInv => NotifyingIsLastAsked
  BY DEF JInv, NotifyingInv, Mine, NotifyingIsLastAsked
<1> QED BY <1>1, Invariants, PTL
=============================================================================

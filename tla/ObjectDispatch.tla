--------------------------- MODULE ObjectDispatch ---------------------------
(***************************************************************************)
(* What the main loop does with the objects once they are registered with    *)
(* D-Bus: it hands a client's call of a method or reading of a property to    *)
(* the interface that has it (onMethodCall, onGetProperty), and every second  *)
(* it ticks the events of the published objects (onPeriodicTimer, TickEvent). *)
(* GDBus passes on only what the introspection XML of a registered interface  *)
(* describes, in the order in which it was sent.  The XML gives every         *)
(* property as read-only, so a property is never set.                        *)
(***************************************************************************)
EXTENDS ObjectTree

CONSTANTS
  Servers,      \* descriptions of servers
  MaxCalls,     \* bound: calls of clients
  MaxSeconds    \* bound: firings of the periodic timer

\* A member is a method or a property; `own' says that it has a callback or getter.
Member(s, kind, name, own) == [slot |-> s, kind |-> kind, name |-> name, own |-> own]

\* What gattServiceBegin and gattDescriptorBegin add; the properties are alike.
Begun(s) == <<Member(s, "property", "UUID", FALSE)>>

\* gattCharacteristicBegin
CharacteristicBegun(s, flags) ==
  Begun(s) \o (IF flags \cap {"notify", "indicate"} = {} THEN <<>>
               ELSE <<Member(s, "method", "StartNotify", TRUE),
                      Member(s, "method", "StopNotify", TRUE)>>)

\* The path of a root begins with DBusObjectPath's default.
IsTree(tree) ==
  /\ tree \in Seq([depth : Nat \ {0}, name : Seq(STRING), publish : BOOLEAN,
                   interfaces : Seq(STRING)])
  /\ tree # <<>> /\ tree[1].depth = 1
  /\ \A k \in DOMAIN tree :
       tree[k].depth = 1 => tree[k].name # <<>> /\ Head(tree[k].name) = Slash

ASSUME DispatchAssumption ==
  /\ MaxCalls \in Nat /\ MaxSeconds \in Nat
  /\ \A v \in Servers :
       /\ IsTree(v.tree)
       /\ v.members \in Seq([slot : Slots(v.tree), kind : {"method", "property"},
                             name : STRING, own : BOOLEAN])
       /\ v.events \in Seq([slot : Slots(v.tree), frequency : Int])

VARIABLES
  server,        \* the tree, the members and the events, in the order of their adding
  exported,      \* the interfaces that could be registered with D-Bus
  asked,         \* the calls that GDBus has passed on, with the interface it meant
  answers,       \* the answers so far: the n-th is to the n-th call
  notifying,     \* GattCharacteristic::notifying
  loop,          \* where the main loop is
  registered,    \* bApplicationRegistered
  stop,          \* "none"; "standing", the run state being past ERunning; "undone"
  timer,         \* a periodic timer is in the main loop
  elapsed,       \* TickEvent::elapsedTicks of each event
  fired,         \* ghost: how often each event was due
  seconds,       \* ghost: firings of the timer
  before,        \* ghost: those before the application was registered
  late           \* ghost: rounds of ticks that ended since the last stop

callVars  == <<asked, answers, notifying>>
timerVars == <<elapsed, fired, seconds, before, late>>
stopVars  == <<stop, timer>>
vars == <<server, exported, callVars, loop, registered, stopVars, timerVars>>

Tree   == server.tree
Events == DOMAIN server.events

Wanted(s) == [path |-> RegisteredPath(Tree, s[1]), name |-> Interface(Tree, s)]

\* What registerNodeHierarchy may leave registered: no two interfaces with one path
\* and name, and nothing behind a failure in an object or below it.
IsExportable(slots) ==
  /\ \A s \in slots : IsObjectPath(Wanted(s).path)
  /\ \A s, t \in slots : Wanted(s) = Wanted(t) => s = t
  /\ \A s \in slots, t \in Slots(Tree) :
       (t[1] = s[1] /\ t[2] < s[2]) \/ IsAncestor(Tree, t[1], s[1]) => t \in slots

Init ==
  /\ server \in Servers
  /\ exported \in {slots \in SUBSET Slots(Tree) : IsExportable(slots)}
  /\ asked = <<>> /\ answers = <<>>
  /\ notifying = [s \in Slots(Tree) |-> FALSE]
  /\ loop = "free"
  /\ registered = FALSE /\ stop = "none" /\ timer = TRUE
  /\ elapsed = [e \in Events |-> 0] /\ fired = elapsed
  /\ seconds = 0 /\ before = 0 /\ late = 0

-----------------------------------------------------------------------------
(* Calls                                                                     *)

\* The first of the members added with this name, or 0.
Named(s, kind, name) ==
  LET named == {i \in DOMAIN server.members : /\ server.members[i].slot = s
                                               /\ server.members[i].kind = kind
                                               /\ server.members[i].name = name}
  IN IF named = {} THEN 0 ELSE Min(named)

\* A GATT interface without properties is described without its methods, any other
\* without its properties.
Describes(s, m) ==
  /\ m.slot = s
  /\ IF Interface(Tree, s) \in Gatt
       THEN \E i \in DOMAIN server.members :
              server.members[i].slot = s /\ server.members[i].kind = "property"
       ELSE m.kind = "method"

\* A client calls a method, or reads a property, of an interface that D-Bus knows.
Calls(s, m) ==
  /\ loop # "ended" /\ Len(asked) < MaxCalls
  /\ Describes(s, m)
  /\ asked' = Append(asked, [slot |-> s, at |-> Wanted(s), kind |-> m.kind,
                             name |-> m.name])
  /\ UNCHANGED <<server, exported, answers, notifying, loop, registered, stopVars,
                 timerVars>>

Answer(s, outcome) == [slot |-> s, outcome |-> outcome]

AnswerOf(s, kind, name) ==
  Answer(s, IF server.members[Named(s, kind, name)].own THEN "called" ELSE "error")

\* Mutant: whatever object has the interface.
CallMethodOfAnyObject(w, name) ==
  LET found == {s \in Slots(Tree) : /\ Interface(Tree, s) = w.name
                                    /\ Named(s, "method", name) # 0}
  IN IF found = {} THEN Answer(<<>>, "missing")
                   ELSE AnswerOf(FirstSlot(found), "method", name)

\* Server::callMethod: the search goes on behind an interface without the method.
CallMethod(w, name) ==
  LET found == {s \in Slots(Tree) : /\ LookupPath(Tree, s[1]) = w.path
                                    /\ Interface(Tree, s) = w.name
                                    /\ Named(s, "method", name) # 0}
  IN IF found = {} THEN Answer(<<>>, "missing")
                   ELSE AnswerOf(FirstSlot(found), "method", name)

\* Server::findProperty knows services and characteristics only, and uses the first
\* interface that findInterface comes to without asking whether there is one.
GetProperty(w, name) ==
  LET s == FindInterface(Tree, w.path, w.name)
  IN CASE s = <<>> -> Answer(s, "crash")
       [] s # <<>> /\ (w.name \notin Gatt \ {"GattDescriptor1"}
                        \/ Named(s, "property", name) = 0) -> Answer(s, "missing")
       [] OTHER -> AnswerOf(s, "property", name)

NotifyCalls == {"StartNotify", "StopNotify"}

\* Mutant: both callbacks set the flag.
NotifyOnly(s, name) ==
  IF name \in NotifyCalls /\ Interface(Tree, s) = "GattCharacteristic1"
    THEN notifying' = [notifying EXCEPT ![s] = TRUE]
    ELSE UNCHANGED notifying

\* The callbacks of enableNotifications; those of the application change nothing here.
Notify(s, name) ==
  IF name \in NotifyCalls /\ Interface(Tree, s) = "GattCharacteristic1"
    THEN notifying' = [notifying EXCEPT ![s] = (name = "StartNotify")]
    ELSE UNCHANGED notifying

IsNext(kind) ==
  /\ loop = "free" /\ Len(answers) < Len(asked)
  /\ asked[Len(answers) + 1].kind = kind

Request == asked[Len(answers) + 1]

\* onMethodCall
HandlesMethod ==
  /\ IsNext("method")
  /\ LET a == CallMethod(Request.at, Request.name)
     IN /\ answers' = Append(answers, a)
        /\ IF a.outcome = "called" THEN Notify(a.slot, Request.name)
                                   ELSE UNCHANGED notifying
  /\ UNCHANGED <<server, exported, asked, loop, registered, stopVars, timerVars>>

\* onGetProperty
HandlesGet ==
  /\ IsNext("property")
  /\ answers' = Append(answers, GetProperty(Request.at, Request.name))
  /\ UNCHANGED <<server, exported, asked, notifying, loop, registered, stopVars,
                 timerVars>>

-----------------------------------------------------------------------------
(* Events                                                                    *)

\* The processor of the initialisation, with nothing left to do, and what it writes
\* after its test of the run state: a stop that came in between is undone.
ProcessorRuns == loop' = IF stop = "standing" THEN "free" ELSE "finish"

ProcessorSetsRunning ==
  /\ loop = "finish" /\ loop' = "free"
  /\ stop' = IF stop = "standing" THEN "undone" ELSE stop
  /\ UNCHANGED <<server, exported, callVars, registered, timer, timerVars>>

\* The callback of doRegisterApplication.
ApplicationIsRegistered ==
  /\ loop = "free" /\ ~registered
  /\ registered' = TRUE
  /\ ProcessorRuns
  /\ UNCHANGED <<server, exported, callVars, stopVars, timerVars>>

\* The owned name was lost and is acquired again, which starts a timer.
NameIsAcquired ==
  /\ loop = "free" /\ registered
  /\ timer' = TRUE
  /\ ProcessorRuns
  /\ UNCHANGED <<server, exported, callVars, registered, stop, timerVars>>

\* Mutant: the run state is not looked at.
TimerFiresAlways ==
  /\ loop = "free" /\ timer /\ seconds < MaxSeconds
  /\ seconds' = seconds + 1
  /\ IF registered THEN loop' = "ticking" /\ UNCHANGED before
                   ELSE before' = before + 1 /\ UNCHANGED loop
  /\ UNCHANGED <<server, exported, callVars, registered, stopVars, elapsed, fired,
                 late>>

\* onPeriodicTimer, up to the ticks.
TimerFires ==
  /\ loop = "free" /\ timer /\ stop # "standing" /\ seconds < MaxSeconds
  /\ seconds' = seconds + 1
  /\ IF registered THEN loop' = "ticking" /\ UNCHANGED before
                   ELSE before' = before + 1 /\ UNCHANGED loop
  /\ UNCHANGED <<server, exported, callVars, registered, stopVars, elapsed, fired,
                 late>>

\* onPeriodicTimer in a server that stops.
TimerEnds ==
  /\ loop = "free" /\ timer /\ stop = "standing"
  /\ timer' = FALSE
  /\ UNCHANGED <<server, exported, callVars, loop, registered, stop, timerVars>>

\* The root of a tree says whether its objects tick.
Ticks(e) ==
  \E k \in DOMAIN Tree :
    /\ Tree[k].depth = 1 /\ Tree[k].publish
    /\ k = server.events[e].slot[1] \/ IsAncestor(Tree, k, server.events[e].slot[1])

\* Mutant: one tick too late.
IsDueLate(e) == elapsed[e] + 1 > server.events[e].frequency

\* TickEvent::tick
IsDue(e) == elapsed[e] + 1 >= server.events[e].frequency

TicksEvents ==
  /\ loop = "ticking" /\ loop' = "free"
  /\ elapsed' = [e \in Events |-> IF ~Ticks(e) THEN elapsed[e]
                                  ELSE IF IsDue(e) THEN 0 ELSE elapsed[e] + 1]
  /\ fired' = [e \in Events |-> IF Ticks(e) /\ IsDue(e) THEN fired[e] + 1
                                ELSE fired[e]]
  /\ late' = IF stop = "standing" THEN late + 1 ELSE late
  /\ UNCHANGED <<server, exported, callVars, registered, stopVars, seconds, before>>

\* shutdown(), by any thread.
Stops ==
  /\ stop # "standing" /\ stop' = "standing"
  /\ late' = 0
  /\ UNCHANGED <<server, exported, callVars, loop, registered, timer, elapsed, fired,
                 seconds, before>>

\* g_main_loop_run returns between two callbacks, some shutdown having got so far.
LoopEnds ==
  /\ loop = "free" /\ stop # "none"
  /\ loop' = "ended"
  /\ UNCHANGED <<server, exported, callVars, registered, stopVars, timerVars>>

Next ==
  \/ \E s \in exported, i \in DOMAIN server.members : Calls(s, server.members[i])
  \/ HandlesMethod \/ HandlesGet
  \/ ApplicationIsRegistered \/ NameIsAcquired \/ ProcessorSetsRunning
  \/ TimerFires \/ TimerEnds \/ TicksEvents \/ Stops \/ LoopEnds

Spec == Init /\ [][Next]_vars

-----------------------------------------------------------------------------
(* Properties.                                                               *)

TypeOK ==
  /\ server \in Servers /\ exported \subseteq Slots(Tree)
  /\ Len(answers) <= Len(asked)
  /\ notifying \in [Slots(Tree) -> BOOLEAN]
  /\ loop \in {"free", "finish", "ticking", "ended"}
  /\ stop \in {"none", "standing", "undone"}
  /\ {registered, timer} \subseteq BOOLEAN
  /\ elapsed \in [Events -> Nat] /\ fired \in [Events -> Nat]
  /\ seconds \in 0 .. MaxSeconds /\ before \in 0 .. seconds

AllExported == exported = Slots(Tree)

\* A call that D-Bus passes on is never met with "not found", and a search that finds
\* no interface never follows a null pointer, also when the registration of a part of
\* the tree failed, so that two objects have one path.
NoCallIsLost ==
  \A n \in DOMAIN answers :
    /\ answers[n].outcome # "crash"
    /\ asked[n].kind = "method" => answers[n].outcome # "missing"

\* The n-th answer comes from the interface that the n-th call was sent to, with what
\* it was given for that name first, if every interface could be registered.
\* Properties of descriptors are the exception: they are never found.
AnsweredByItsObject ==
  AllExported =>
    \A n \in DOMAIN answers :
      LET r == asked[n]
          i == Named(r.slot, r.kind, r.name)
          lost == r.kind = "property" /\ Interface(Tree, r.slot) = "GattDescriptor1"
      IN answers[n] = Answer(r.slot, CASE lost -> "missing"
                                       [] ~lost /\ server.members[i].own -> "called"
                                       [] OTHER -> "error")

\* The last of the calls to notify or not that a characteristic answered is the one it
\* follows, whatever other characteristics were asked, if all could be registered.
NotifyingIsLastAsked ==
  AllExported =>
    \A s \in Slots(Tree) :
      LET mine == {n \in DOMAIN answers : /\ asked[n].slot = s
                                          /\ asked[n].kind = "method"
                                          /\ asked[n].name \in NotifyCalls
                                          /\ answers[n].outcome = "called"}
      IN (Interface(Tree, s) = "GattCharacteristic1" /\ mine # {}) =>
           notifying[s] = (asked[Max(mine)].name = "StartNotify")

\* The period of an event in ticks.
Period(e) == IF server.events[e].frequency > 1 THEN server.events[e].frequency ELSE 1

Rounds == seconds - before - (IF loop = "ticking" THEN 1 ELSE 0)

\* An event of a published object is due at every `frequency'-th firing of the
\* periodic timers, without drift, counted from the registration of the
\* application; the others never are.
EventsKeepTime ==
  \A e \in Events :
    IF Ticks(e)
      THEN Rounds = fired[e] * Period(e) + elapsed[e] /\ elapsed[e] < Period(e)
      ELSE fired[e] = 0

\* While a stop stands, at most the round of ticks that had begun comes to its end;
\* only the processor's late write of the run state lets another one begin.
StopEndsEvents == stop = "standing" => late <= 1

=============================================================================

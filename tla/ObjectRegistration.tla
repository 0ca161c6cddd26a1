------------------------- MODULE ObjectRegistration -------------------------
(***************************************************************************)
(* From the description of a server to a registered application: the tree    *)
(* is built (Server.cpp, DBusObject.cpp, GattService.cpp), and the last steps *)
(* of the initialisation (Init.cpp) find an adapter, register every interface *)
(* of every object with D-Bus and the application with BlueZ.  A step that    *)
(* fails is tried again when the periodic timer fires; a shutdown can come at *)
(* any time and uninit takes back what was registered; that a late write of   *)
(* the run state can undo it is left to ServerLifecycle and ObjectDispatch.    *)
(***************************************************************************)
EXTENDS ObjectTree

CONSTANTS
  NodeNames,     \* path elements that the application uses, as sequences
  MaxNodes,      \* bound: objects in the tree of the services
  BluezObjects,  \* what objects of BlueZ can be, as sets of interfaces
  MaxObjects,    \* bound: objects that BlueZ has
  Faults,        \* which of AllFaults can happen
  MaxFaults      \* bound: faults of one behaviour

AllFaults == {"vanish", "register", "application"}

ASSUME RegistrationAssumption ==
  /\ NodeNames \subseteq Seq(STRING) \ {<<>>}
  /\ BluezObjects \subseteq SUBSET {"GattManager1", "Adapter1", "Properties"}
  /\ MaxNodes \in Nat /\ MaxObjects \in Nat /\ MaxFaults \in Nat
  /\ Faults \subseteq AllFaults

VARIABLES
  services,     \* the first object of Server::objects, with all below it
  legible,      \* names and values leave the introspection XML well-formed
  phase,        \* where the server thread is
  stopping,     \* the run state is past ERunning
  retry,        \* retryTimeStart # 0
  proxies,      \* the proxies of findAdapterInterface, and the adapter they name
  at,           \* the slot registerNodeHierarchy is at
  exported,     \* the interfaces the bus connection serves
  ids,          \* registeredObjectIds, as slots
  dead,         \* released memory was released again, and the process has ended
  faults,       \* faults so far
  failed        \* ghost: an interface could not be registered

vars == <<services, legible, phase, stopping, retry, proxies, at, exported, ids,
          dead, faults, failed>>

Phases == {"building", "ready", "walking", "calling", "running", "ended"}

ServicesRoot ==
  [depth |-> 1, name |-> <<Slash, "com", Slash, "gobbledegook">>, publish |-> TRUE,
   interfaces |-> <<>>]
ManagerRoot ==
  [depth |-> 1, name |-> <<Slash>>, publish |-> FALSE, interfaces |-> <<Manager>>]

\* Mutant: the object manager comes first.
ManagerFirst == <<ManagerRoot>> \o services

\* Server::objects
Objects == Append(services, ManagerRoot)

NoProxies == [gatt |-> 0, adapter |-> 0, properties |-> 0, name |-> 0]

Init ==
  /\ services = <<ServicesRoot>> /\ legible \in BOOLEAN
  /\ phase = "building"
  /\ stopping = FALSE /\ retry = FALSE
  /\ proxies = NoProxies
  /\ at = <<1, 1>>
  /\ exported = {} /\ ids = {}
  /\ dead = FALSE
  /\ faults = 0 /\ failed = FALSE

Fault(kind) ==
  /\ kind \in Faults /\ faults < MaxFaults
  /\ faults' = faults + 1

-----------------------------------------------------------------------------
(* The description of the server                                             *)

\* gattServiceBegin, gattCharacteristicBegin and gattDescriptorBegin add a child
\* with one interface behind the children that are there.
AddsChild(k, name) ==
  /\ phase = "building"
  /\ Len(services) < MaxNodes
  /\ k \in DOMAIN services /\ services[k].depth <= 3
  /\ \E n \in 1 .. Len(services) + 1 :
       /\ IsBehind(services, k, n)
       /\ services' = InsertAt(services, n, Child(services[k], name))
  /\ UNCHANGED <<legible, phase, stopping, retry, proxies, at, exported, ids, dead,
                 faults, failed>>

\* addInterface with an interface of no GATT type.
AddsInterface(k) ==
  /\ phase = "building"
  /\ k \in DOMAIN services /\ Len(services[k].interfaces) < 2
  /\ services' = [services EXCEPT ![k].interfaces = Append(@, "Other")]
  /\ UNCHANGED <<legible, phase, stopping, retry, proxies, at, exported, ids, dead,
                 faults, failed>>

\* ggkRun, and the initialisation up to the adapter.
Starts ==
  /\ phase = "building"
  /\ phase' = "ready"
  /\ UNCHANGED <<services, legible, stopping, retry, proxies, at, exported, ids,
                 dead, faults, failed>>

-----------------------------------------------------------------------------
(* initializationStateProcessor                                              *)

MayProceed == phase = "ready" /\ ~stopping /\ ~retry

\* Mutant: the first object with a GATT manager is the adapter.
ScannedForManager(p, object, i) ==
  IF p.name # 0 THEN p
  ELSE IF "GattManager1" \notin object THEN [p EXCEPT !.gatt = 0]
  ELSE [p EXCEPT !.gatt = i, !.name = i,
                 !.adapter = IF "Adapter1" \in object THEN i ELSE 0]

\* One object of BlueZ: a proxy is taken for each interface until one is missing;
\* only all three make it the adapter.
Scanned(p, object, i) ==
  IF p.name # 0 THEN p
  ELSE IF "GattManager1" \notin object THEN [p EXCEPT !.gatt = 0]
  ELSE IF "Adapter1" \notin object THEN [p EXCEPT !.gatt = i, !.adapter = 0]
  ELSE IF "Properties" \notin object
    THEN [p EXCEPT !.gatt = i, !.adapter = i, !.properties = 0]
  ELSE [gatt |-> i, adapter |-> i, properties |-> i, name |-> i]

BluezLists == UNION {[1 .. n -> BluezObjects] : n \in 0 .. MaxObjects}

\* All of them, in the order in which BlueZ lists them.
Found(objects) ==
  LET scan[i \in 0 .. Len(objects)] ==
        IF i = 0 THEN proxies ELSE Scanned(scan[i - 1], objects[i], i)
  IN scan[Len(objects)]

\* The object found may have left BlueZ when it is asked for again.
FindsAdapter ==
  /\ MayProceed /\ proxies.name = 0
  /\ \E objects \in BluezLists :
       LET found == Found(objects)
       IN \/ proxies' = found /\ UNCHANGED faults
          \/ /\ found.name # 0
             /\ proxies' = [found EXCEPT !.name = 0]
             /\ Fault("vanish")
  /\ retry' = (proxies'.name = 0)
  /\ UNCHANGED <<services, legible, phase, stopping, at, exported, ids, dead,
                 failed>>

RegistersObjects ==
  /\ MayProceed /\ proxies.name # 0 /\ ids = {}
  /\ phase' = "walking" /\ at' = <<1, 1>>
  /\ UNCHANGED <<services, legible, stopping, retry, proxies, exported, ids, dead,
                 faults, failed>>

AtSlot == phase = "walking" /\ legible /\ at \in Slots(Objects)

\* The rest of the object and what is below it is left out.
PassesOver ==
  \E n \in 1 .. Len(Objects) + 1 : IsBehind(Objects, at[1], n) /\ at' = <<n, 1>>

Wanted == [path |-> RegisteredPath(Objects, at[1]), name |-> Interface(Objects, at)]

\* What g_dbus_connection_register_object asks for.
IsFree(w) ==
  IsObjectPath(w.path) /\ ~\E x \in exported : x.path = w.path /\ x.name = w.name

\* Mutant: the walk goes on behind the object.
RegistersFirstInterface ==
  /\ AtSlot /\ IsFree(Wanted)
  /\ exported' = exported \cup {[path |-> Wanted.path, name |-> Wanted.name,
                                   slot |-> at]}
  /\ ids' = ids \cup {at}
  /\ PassesOver
  /\ UNCHANGED <<services, legible, phase, stopping, retry, proxies, dead, faults,
                 failed>>

RegistersInterface ==
  /\ AtSlot /\ IsFree(Wanted)
  /\ exported' = exported \cup {[path |-> Wanted.path, name |-> Wanted.name,
                                   slot |-> at]}
  /\ ids' = ids \cup {at}
  /\ at' = <<at[1], at[2] + 1>>
  /\ UNCHANGED <<services, legible, phase, stopping, retry, proxies, dead, faults,
                 failed>>

\* What is known of the interfaces registered before is thrown away, the rest of
\* the object and what is below it is passed over, and the walk goes on.  The node
\* is released here and once more with its tree: undefined, it may end the process.
RegistrationFails ==
  /\ AtSlot
  /\ \/ ~IsFree(Wanted) /\ UNCHANGED faults
     \/ Fault("register")
  /\ ids' = {}
  /\ retry' = TRUE /\ failed' = TRUE
  /\ PassesOver
  /\ dead' \in BOOLEAN
  /\ UNCHANGED <<services, legible, phase, stopping, proxies, exported>>

VisitsNextObject ==
  /\ phase = "walking" /\ legible
  /\ at[1] \in DOMAIN Objects /\ at \notin Slots(Objects)
  /\ at' = <<at[1] + 1, 1>>
  /\ UNCHANGED <<services, legible, phase, stopping, retry, proxies, exported, ids,
                 dead, faults, failed>>

\* The XML of the first root cannot be parsed: registerObjects returns at once.
IntrospectionFails ==
  /\ phase = "walking" /\ at = <<1, 1>> /\ ~legible
  /\ retry' = TRUE /\ phase' = "ready"
  /\ UNCHANGED <<services, legible, stopping, proxies, at, exported, ids, dead,
                 faults, failed>>

WalkEnds ==
  /\ phase = "walking" /\ at[1] \notin DOMAIN Objects
  /\ phase' = "ready"
  /\ UNCHANGED <<services, legible, stopping, retry, proxies, at, exported, ids,
                 dead, faults, failed>>

\* doRegisterApplication; BlueZ asks for the managed objects before it answers.
RegistersApplication ==
  /\ MayProceed /\ proxies.name # 0 /\ ids # {}
  /\ phase' = "calling"
  /\ UNCHANGED <<services, legible, stopping, retry, proxies, at, exported, ids,
                 dead, faults, failed>>

\* The callback: registered, and the processor reaches its end unless it is stopped.
ApplicationIsRegistered ==
  /\ phase = "calling"
  /\ phase' = IF stopping THEN "ready" ELSE "running"
  /\ UNCHANGED <<services, legible, stopping, retry, proxies, at, exported, ids,
                 dead, faults, failed>>

ApplicationIsRefused ==
  /\ phase = "calling"
  /\ Fault("application")
  /\ phase' = "ready" /\ retry' = TRUE
  /\ UNCHANGED <<services, legible, stopping, proxies, at, exported, ids, dead,
                 failed>>

\* onPeriodicTimer
RetryFires ==
  /\ phase = "ready" /\ retry /\ ~stopping
  /\ retry' = FALSE
  /\ UNCHANGED <<services, legible, phase, stopping, proxies, at, exported, ids,
                 dead, faults, failed>>

\* shutdown(), by any thread.
Stops ==
  /\ phase \notin {"building", "ended"} /\ ~stopping
  /\ stopping' = TRUE
  /\ UNCHANGED <<services, legible, phase, retry, proxies, at, exported, ids, dead,
                 faults, failed>>

\* Mutant: the identifiers are forgotten and not used.
UninitForgets ==
  /\ phase \in {"ready", "calling", "running"} /\ stopping
  /\ phase' = "ended"
  /\ ids' = {}
  /\ proxies' = [NoProxies EXCEPT !.name = proxies.name]
  /\ UNCHANGED <<services, legible, stopping, retry, at, exported, dead, faults,
                 failed>>

\* The main loop has ended between two callbacks.
Uninit ==
  /\ phase \in {"ready", "calling", "running"} /\ stopping
  /\ phase' = "ended"
  /\ exported' = {x \in exported : x.slot \notin ids}
  /\ ids' = {}
  /\ proxies' = [NoProxies EXCEPT !.name = proxies.name]
  /\ UNCHANGED <<services, legible, stopping, retry, at, dead, faults, failed>>

ServerStep ==
  \/ FindsAdapter \/ RegistersObjects \/ RegistersInterface \/ RegistrationFails
  \/ VisitsNextObject \/ IntrospectionFails \/ WalkEnds
  \/ RegistersApplication \/ ApplicationIsRegistered \/ ApplicationIsRefused
  \/ RetryFires \/ Uninit

Next ==
  /\ ~dead
  /\ \/ \E k \in 1 .. MaxNodes, name \in NodeNames : AddsChild(k, name)
     \/ \E k \in 1 .. MaxNodes : AddsInterface(k)
     \/ Starts \/ Stops \/ ServerStep

Spec == Init /\ [][Next]_vars

\* The server thread runs, its timer fires and GDBus gives up a call in the end.
\* Only an adapter has to be there some time.
FairSpec ==
  /\ Spec
  /\ WF_vars(~dead /\ ServerStep)
  /\ SF_vars(~dead /\ FindsAdapter /\ proxies'.name # 0)

-----------------------------------------------------------------------------
(* Properties.                                                               *)

Node ==
  [depth : 1 .. 4, name : NodeNames \cup {ServicesRoot.name}, publish : BOOLEAN,
   interfaces : Seq(Gatt \cup {"Other"})]

TypeOK ==
  /\ services \in Seq(Node)
  /\ phase \in Phases
  /\ {legible, stopping, retry, dead, failed} \subseteq BOOLEAN
  /\ proxies \in [{"gatt", "adapter", "properties", "name"} -> 0 .. MaxObjects]
  /\ at \in (Nat \ {0}) \X (Nat \ {0})
  /\ ids \subseteq Slots(Objects)
  /\ faults \in 0 .. MaxFaults

\* One object has one path, whether it is registered with D-Bus, looked up for a
\* call, told to BlueZ or named in a signal, wherever its path elements have slashes.
PathsAgree ==
  \A k \in DOMAIN Objects :
    {LookupPath(Objects, k), ManagedPath(Objects, k), GetPath(Objects, k)}
      = {RegisteredPath(Objects, k)}

\* A call that D-Bus hands over because an interface is registered finds the object
\* it was registered for, unless a registration failed: then one of two objects of
\* the same path may answer for the other.
CallsReachTheirObject ==
  \A x \in exported : failed \/ FindInterface(Objects, x.path, x.name) = x.slot

\* All that BlueZ is told of, D-Bus serves, unless a registration failed.
ToldIsServed ==
  phase \in {"calling", "running"} /\ ~failed =>
    \A m \in ManagedObjects(Objects) :
      \E x \in exported : x.path = m.path /\ x.name = m.name

\* The object manager that BlueZ asks is there whenever the application is
\* registered, whatever failed before: it comes last, so a failure before it
\* leaves it registered and a failure of its own leaves nothing that would end the
\* retries.
ManagerIsServed ==
  phase \in {"calling", "running"} => \E s \in ids : Objects[s[1]] = ManagerRoot

\* BlueZ is asked through the adapter that was chosen, and its proxies are of one
\* object, whatever lists earlier attempts went through.
ProxiesAgree ==
  phase \notin {"building", "ended"} /\ proxies.name # 0 =>
    {proxies.gatt, proxies.adapter, proxies.properties} = {proxies.name}

\* When the server has ended, D-Bus serves none of its objects, unless a
\* registration failed: then those registered before it stay.
NothingIsLeft == phase = "ended" /\ ~failed => exported = {}

\* A server that was started runs in the end, or was stopped, whatever objects it
\* was described with, if their XML can be parsed: names that are used twice and
\* paths that D-Bus rejects leave their objects out and are tried over.  The one
\* other end is that of the process, by the second release of the node, and only a
\* registration that failed leads to it.
GetsRegistered ==
  (phase = "ready" /\ legible) ~> (phase \in {"running", "ended"} \/ (dead /\ failed))
=============================================================================

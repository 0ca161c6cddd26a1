---------------------- MODULE ObjectRegistration_proofs ----------------------
(***************************************************************************)
(* Proofs about ObjectRegistration, for any path elements, trees of any size *)
(* and any number of failures: the object manager is served whenever the     *)
(* application is registered, and without a failure everything BlueZ is told *)
(* of is served while the server runs and nothing is left when it has ended. *)
(* An object has one path, its calls reach it, and one adapter is used.      *)
(***************************************************************************)
EXTENDS ObjectRegistration, ObjectTree_proofs

ManagerSlot == <<Len(services) + 1, 1>>

HasManager == ids = {} \/ ManagerSlot \in ids

\* The walk has yet to reach the object manager.
ManagerAhead ==
  /\ at[1] \in 1 .. Len(services) + 1
  /\ at[1] <= Len(services) \/ at = ManagerSlot

IsServed(s) ==
  \E x \in exported : /\ x.path = RegisteredPath(Objects, s[1])
                      /\ x.name = Interface(Objects, s)

\* The only root that the application builds on is the one of the services.
BuiltNode ==
  {v \in Node : IF v.depth = 1 THEN v.name = ServicesRoot.name ELSE v.name \in NodeNames}

ServicesInv ==
  services \in Seq(BuiltNode) /\ services # <<>> /\ services[1].depth = 1

ManagerInv ==
  /\ phase \in Phases
  /\ phase \in {"building", "ended"} => ids = {}
  /\ phase = "walking" /\ ~ManagerAhead => HasManager
  /\ phase = "walking" /\ ~legible => ids = {}
  /\ phase \in {"ready", "calling", "running"} => HasManager
  /\ phase \in {"calling", "running"} => ids # {}

KeptInv == ~failed => \A x \in exported : x.slot \in ids

ServedInv ==
  ~failed =>
    /\ phase = "walking" =>
         /\ at \in (1 .. Len(services) + 2) \X (Nat \ {0})
         /\ \A s \in Slots(Objects) : IsBefore(s, at) => IsServed(s)
    /\ phase \in {"ready", "calling", "running"} =>
         ids = {} \/ \A s \in Slots(Objects) : IsServed(s)

IInv == ServicesInv /\ ManagerInv /\ KeptInv /\ ServedInv

\* The object manager is the last object and has one interface.
LEMMA ObjectsFacts ==
  ASSUME ServicesInv
  PROVE  /\ Len(services) \in Nat
         /\ DOMAIN Objects = 1 .. Len(services) + 1
         /\ Objects[Len(services) + 1] = ManagerRoot
         /\ ManagerSlot \in Slots(Objects)
         /\ \A k \in DOMAIN Objects : Len(Objects[k].interfaces) \in Nat
         /\ \A s \in Slots(Objects) :
              /\ s[1] \in 1 .. Len(services) + 1 /\ s[2] \in 1 .. 2
              /\ s = <<s[1], s[2]>>
              /\ s[2] <= Len(Objects[s[1]].interfaces)
              /\ s[1] = Len(services) + 1 => s[2] = 1
<1> DEFINE N == Len(services)
<1>1. N \in Nat /\ DOMAIN Objects = 1 .. N + 1
  BY DEF ServicesInv, Objects
<1>2. Objects[N + 1] = ManagerRoot /\ \A k \in 1 .. N : Objects[k] = services[k]
  BY <1>1 DEF ServicesInv, Objects
<1>3. Len(ManagerRoot.interfaces) = 1
  BY DEF ManagerRoot
<1>4. ASSUME NEW k \in DOMAIN Objects PROVE Len(Objects[k].interfaces) \in Nat
  <2>1. CASE k = N + 1
    BY <2>1, <1>2, <1>3
  <2>2. CASE k # N + 1
    <3>1. services[k] \in Node
      BY <2>2, <1>1, ElementOfSeq DEF ServicesInv, BuiltNode
    <3>2. services[k].interfaces \in Seq(Gatt \cup {"Other"})
      BY <3>1 DEF Node
    <3> QED BY <2>2, <1>1, <1>2, <3>2, LenProperties
  <2> QED BY <2>1, <2>2
<1>5. ManagerSlot \in Slots(Objects)
  BY <1>1, <1>2, <1>3 DEF ManagerSlot, Slots
<1>6. ASSUME NEW s \in Slots(Objects)
      PROVE  /\ s[1] \in 1 .. N + 1 /\ s[2] \in 1 .. 2
             /\ s = <<s[1], s[2]>>
             /\ s[2] <= Len(Objects[s[1]].interfaces)
             /\ s[1] = N + 1 => s[2] = 1
  <2>1. s \in (DOMAIN Objects) \X (1 .. 2) /\ s[2] <= Len(Objects[s[1]].interfaces)
    BY DEF Slots
  <2>2. s[1] \in 1 .. N + 1 /\ s[2] \in 1 .. 2 /\ s = <<s[1], s[2]>>
    BY <2>1, <1>1
  <2>3. ASSUME s[1] = N + 1 PROVE s[2] = 1
    <3>1. Objects[s[1]] = ManagerRoot
      BY <2>3, <1>2
    <3>2. s[2] <= 1
      BY <3>1, <2>1, <1>3
    <3> QED BY <3>2, <2>2
  <2> QED BY <2>1, <2>2, <2>3
<1> QED BY <1>1, <1>2, <1>4, <1>5, <1>6

THEOREM InitIInv == Init => IInv
<1> SUFFICES ASSUME Init PROVE IInv
  OBVIOUS
<1>1. ServicesRoot \in BuiltNode /\ ServicesRoot.depth = 1
  BY DEF ServicesRoot, Node, BuiltNode
<1>2. ServicesInv
  BY <1>1 DEF Init, ServicesInv
<1> QED BY <1>2 DEF Init, IInv, ManagerInv, KeptInv, ServedInv, Phases, HasManager

\* The tree is built before anything is registered.
LEMMA BuildingIInv ==
  ASSUME IInv, NEW k \in 1 .. MaxNodes,
         (\E name \in NodeNames : AddsChild(k, name)) \/ AddsInterface(k)
  PROVE  IInv'
<1>1. phase = "building" /\ k \in DOMAIN services
      /\ UNCHANGED <<phase, at, exported, ids, legible, failed>>
  BY DEF AddsChild, AddsInterface
<1>2. /\ services \in Seq(BuiltNode) /\ services[k] \in BuiltNode /\ services[k] \in Node
      /\ services # <<>> /\ services[1].depth = 1
  BY <1>1, ElementOfSeq, LenProperties DEF IInv, ServicesInv, BuiltNode
<1>3. ServicesInv'
  <2>1. ASSUME NEW name \in NodeNames, AddsChild(k, name) PROVE ServicesInv'
    <3>1. PICK n \in 1 .. Len(services) + 1 :
            /\ services' = InsertAt(services, n, Child(services[k], name))
            /\ n > k
      BY <2>1 DEF AddsChild, IsBehind
    <3>2. services[k].depth \in 1 .. 3 /\ services[k].publish \in BOOLEAN
      BY <2>1, <1>2 DEF AddsChild, Node
    <3>3. GattKinds[services[k].depth + 1] \in Gatt
      BY <3>2 DEF Gatt
    <3>4. Child(services[k], name) \in BuiltNode
      BY <3>2, <3>3 DEF Child, Node, BuiltNode
    <3>5. \A i \in 1 .. Len(services) : services[i] \in BuiltNode
      BY <1>2, ElementOfSeq
    <3> DEFINE a == SubSeq(services, 1, n - 1)
               b == <<Child(services[k], name)>>
               c == SubSeq(services, n, Len(services))
    <3>6. a \in Seq(BuiltNode) /\ c \in Seq(BuiltNode) /\ b \in Seq(BuiltNode)
      BY <3>4, <3>5, <1>2, SubSeqProperties, LenProperties
    <3>7. a # <<>> /\ Head(a) = services[1]
      <4>1. n - 1 \in Nat \ {0} /\ n - 1 <= Len(services)
        BY <1>1, <3>1
      <4>2. Len(a) = n - 1 /\ a[1] = services[1]
        BY <1>2, <4>1
      <4> QED BY <3>6, <4>1, <4>2
    <3> HIDE DEF a, b, c
    <3>8. services' = (a \o b) \o c
      BY <3>1 DEF a, b, c, InsertAt
    <3>9. a \o b \in Seq(BuiltNode) /\ a \o b # <<>> /\ Head(a \o b) = services[1]
      BY <3>6, <3>7, EndsLemma
    <3>10. services' \in Seq(BuiltNode) /\ services' # <<>> /\ Head(services') = services[1]
      BY <3>6, <3>8, <3>9, EndsLemma
    <3> QED BY <1>2, <3>10 DEF ServicesInv
  <2>2. ASSUME AddsInterface(k) PROVE ServicesInv'
    <3> DEFINE more == Append(services[k].interfaces, "Other")
    <3>1. more \in Seq(Gatt \cup {"Other"})
      BY <1>2 DEF Node
    <3>2. /\ [services[k] EXCEPT !.interfaces = more] \in BuiltNode
          /\ [services[k] EXCEPT !.interfaces = more].depth = services[k].depth
      BY <3>1, <1>2 DEF Node, BuiltNode
    <3>3. services' = [services EXCEPT ![k] = [services[k] EXCEPT !.interfaces = more]]
      BY <2>2 DEF AddsInterface
    <3> DEFINE changed == [services[k] EXCEPT !.interfaces = more]
    <3> HIDE DEF more, changed
    <3>4. services' = [services EXCEPT ![k] = changed]
      BY <3>3 DEF changed
    <3>5. changed \in BuiltNode /\ changed.depth = services[k].depth
      BY <3>2 DEF changed
    <3>6. services' \in Seq(BuiltNode) /\ Len(services') = Len(services)
      BY <1>1, <1>2, <3>4, <3>5, ExceptSeq, LenProperties
    <3>7. 1 \in 1 .. Len(services) /\ Len(services) \in Nat
      BY <1>2
    <3>8. services'[1].depth = 1
      BY <1>1, <1>2, <3>4, <3>5, <3>7
    <3> QED BY <3>6, <3>7, <3>8 DEF ServicesInv
  <2> QED BY <2>1, <2>2
<1> QED BY <1>1, <1>3 DEF IInv, ManagerInv, KeptInv, ServedInv, HasManager

\* The walk over the objects.
LEMMA WalkIInv ==
  ASSUME IInv, RegistersInterface \/ RegistrationFails \/ VisitsNextObject \/ WalkEnds
  PROVE  IInv'
<1> USE DEF IInv
<1>0. phase = "walking" /\ UNCHANGED <<services, legible>> /\ ServicesInv'
      /\ Objects' = Objects
  BY DEF RegistersInterface, RegistrationFails, VisitsNextObject, WalkEnds, AtSlot,
         ServicesInv, Objects
<1>1. CASE RegistersInterface
  <2>1. /\ at \in Slots(Objects) /\ legible
        /\ ids' = ids \cup {at} /\ at' = <<at[1], at[2] + 1>>
        /\ exported' = exported \cup {[path |-> Wanted.path, name |-> Wanted.name,
                                       slot |-> at]}
        /\ UNCHANGED <<phase, failed>>
    BY <1>1 DEF RegistersInterface, AtSlot
  <2>2. /\ at[1] \in 1 .. Len(services) + 1 /\ at[2] \in 1 .. 2 /\ at = <<at[1], at[2]>>
        /\ at[1] = Len(services) + 1 => at[2] = 1
    BY <2>1, ObjectsFacts
  <2>3. ManagerInv'
    <3>1. ~ManagerAhead' => HasManager'
      BY <2>1, <2>2, <1>0, ObjectsFacts DEF ManagerAhead, HasManager, ManagerSlot
    <3> QED BY <3>1, <2>1, <1>0 DEF ManagerInv
  <2>4. KeptInv'
    BY <2>1 DEF KeptInv
  <2>5. ServedInv'
    <3> SUFFICES ASSUME ~failed
                 PROVE  /\ at' \in (1 .. Len(services) + 2) \X (Nat \ {0})
                        /\ \A s \in Slots(Objects) : IsBefore(s, at') => IsServed(s)'
      BY <1>0, <2>1 DEF ServedInv, IsBefore
    <3>1. at' \in (1 .. Len(services) + 2) \X (Nat \ {0})
      BY <2>1, <2>2, ObjectsFacts
    <3>2. ASSUME NEW s \in Slots(Objects), IsBefore(s, at') PROVE IsServed(s)'
      <4>1. CASE s = at
        <5>1. [path |-> Wanted.path, name |-> Wanted.name, slot |-> at] \in exported'
          BY <2>1
        <5> QED BY <4>1, <5>1, <1>0 DEF IsServed, Wanted
      <4>2. CASE s # at
        <5>1. IsBefore(s, at)
          BY <3>2, <4>2, <2>1, <2>2, ObjectsFacts DEF IsBefore
        <5>2. IsServed(s)
          BY <5>1, <1>0 DEF ServedInv
        <5> QED BY <5>2, <2>1, <1>0 DEF IsServed
      <4> QED BY <4>1, <4>2
    <3> QED BY <3>1, <3>2
  <2> QED BY <1>0, <2>3, <2>4, <2>5
<1>2. CASE RegistrationFails
  BY <1>0, <1>2 DEF RegistrationFails, ManagerInv, KeptInv, ServedInv, HasManager
<1>3. CASE VisitsNextObject
  <2>1. /\ at[1] \in DOMAIN Objects /\ at \notin Slots(Objects) /\ legible
        /\ at' = <<at[1] + 1, 1>>
        /\ UNCHANGED <<phase, exported, ids, failed>>
    BY <1>3 DEF VisitsNextObject
  <2>2. at[1] \in 1 .. Len(services) + 1 /\ Len(services) \in Nat
    BY <2>1, ObjectsFacts
  <2>3. ManagerInv'
    <3>1. HasManager' <=> HasManager
      BY <1>0, <2>1 DEF HasManager, ManagerSlot
    <3>2. ManagerAhead /\ ~ManagerAhead' => FALSE
      <4>1. ASSUME ManagerAhead, at[1] = Len(services) + 1 PROVE FALSE
        <5>1. at = ManagerSlot
          BY <4>1, <2>2 DEF ManagerAhead
        <5>2. at \in Slots(Objects)
          BY <5>1, ObjectsFacts
        <5> QED BY <5>2, <2>1
      <4>2. CASE at[1] < Len(services)
        BY <4>2, <2>1, <2>2, <1>0 DEF ManagerAhead
      <4>3. CASE at[1] = Len(services)
        <5>1. at' = ManagerSlot'
          BY <4>3, <2>1, <1>0 DEF ManagerSlot
        <5>2. at'[1] = Len(services') + 1
          BY <4>3, <2>1, <1>0
        <5> QED BY <5>1, <5>2, <2>2, <1>0 DEF ManagerAhead
      <4> QED BY <4>1, <4>2, <4>3, <2>2
    <3> QED BY <3>1, <3>2, <2>1, <1>0 DEF ManagerInv
  <2>4. KeptInv'
    BY <2>1 DEF KeptInv
  <2>5. ServedInv'
    <3> SUFFICES ASSUME ~failed
                 PROVE  /\ at' \in (1 .. Len(services) + 2) \X (Nat \ {0})
                        /\ \A s \in Slots(Objects) : IsBefore(s, at') => IsServed(s)
      BY <1>0, <2>1 DEF ServedInv, IsBefore, IsServed
    <3>1. at \in (1 .. Len(services) + 2) \X (Nat \ {0})
      BY <1>0 DEF ServedInv
    <3>2. at' \in (1 .. Len(services) + 2) \X (Nat \ {0})
      BY <2>1, <2>2
    <3>3. at[2] > 2 \/ at[2] > Len(Objects[at[1]].interfaces)
      BY <3>1, <2>1, ObjectsFacts DEF Slots
    <3>4. ASSUME NEW s \in Slots(Objects), IsBefore(s, at') PROVE IsServed(s)
      <4>1. IsBefore(s, at)
        BY <3>1, <3>3, <3>4, <2>1, ObjectsFacts DEF IsBefore
      <4> QED BY <4>1, <1>0 DEF ServedInv
    <3> QED BY <3>2, <3>4
  <2> QED BY <1>0, <2>3, <2>4, <2>5
<1>4. CASE WalkEnds
  <2>1. /\ at[1] \notin DOMAIN Objects /\ phase' = "ready"
        /\ UNCHANGED <<at, exported, ids, failed>>
    BY <1>4 DEF WalkEnds
  <2>2. ~ManagerAhead
    BY <2>1, ObjectsFacts DEF ManagerAhead
  <2>3. ManagerInv'
    BY <2>1, <2>2, <1>0 DEF ManagerInv, HasManager, ManagerSlot, Phases
  <2>4. KeptInv'
    BY <2>1 DEF KeptInv
  <2>5. ServedInv'
    <3>1. ASSUME ~failed, NEW s \in Slots(Objects) PROVE IsServed(s)
      <4>1. at[1] = Len(services) + 2
        BY <3>1, <2>1, <1>0, ObjectsFacts DEF ServedInv
      <4>2. IsBefore(s, at)
        BY <4>1, ObjectsFacts DEF IsBefore
      <4> QED BY <3>1, <4>2, <1>0 DEF ServedInv
    <3> QED BY <3>1, <2>1, <1>0 DEF ServedInv, IsServed
  <2> QED BY <1>0, <2>3, <2>4, <2>5
<1> QED BY <1>1, <1>2, <1>3, <1>4

THEOREM NextIInv == IInv /\ [Next]_vars => IInv'
<1> SUFFICES ASSUME IInv, [Next]_vars PROVE IInv'
  OBVIOUS
<1> DEFINE Building == \E k \in 1 .. MaxNodes :
             (\E name \in NodeNames : AddsChild(k, name)) \/ AddsInterface(k)
           Walk == \/ RegistersInterface \/ RegistrationFails
                   \/ VisitsNextObject \/ WalkEnds
           Calm == \/ Starts \/ Stops \/ FindsAdapter \/ IntrospectionFails
                   \/ RegistersApplication \/ ApplicationIsRegistered
                   \/ ApplicationIsRefused \/ RetryFires \/ UNCHANGED vars
<1>1. CASE Building
  BY <1>1, BuildingIInv
<1>2. CASE Walk
  BY <1>2, WalkIInv
<1>3. CASE RegistersObjects
  <2>1. /\ phase = "ready" /\ ids = {} /\ phase' = "walking" /\ at' = <<1, 1>>
        /\ UNCHANGED <<services, legible, exported, ids, failed>>
    BY <1>3 DEF RegistersObjects, MayProceed
  <2>2. ServicesInv' /\ KeptInv' /\ ManagerInv'
    BY <2>1 DEF IInv, ServicesInv, KeptInv, ManagerInv, HasManager, Phases
  <2>3. ServedInv'
    <3>1. \A s \in Slots(Objects) : ~IsBefore(s, at')
      BY <2>1, ObjectsFacts DEF IInv, IsBefore
    <3>2. at' \in (1 .. Len(services) + 2) \X (Nat \ {0})
      BY <2>1, ObjectsFacts DEF IInv
    <3> QED BY <3>1, <3>2, <2>1 DEF ServedInv, IsBefore, Objects
  <2> QED BY <2>2, <2>3 DEF IInv
<1>4. CASE Uninit
  BY <1>4 DEF Uninit, IInv, ServicesInv, ManagerInv, KeptInv, ServedInv, Phases
<1>5. CASE Calm
  <2>1. UNCHANGED <<services, legible, at, exported, ids, failed>>
    BY <1>5 DEF Starts, Stops, FindsAdapter, IntrospectionFails, RegistersApplication,
                ApplicationIsRegistered, ApplicationIsRefused, RetryFires, vars
  <2>2. UNCHANGED <<Objects, ManagerSlot>>
    BY <2>1 DEF Objects, ManagerSlot
  <2>3. ServicesInv' /\ KeptInv'
    BY <2>1 DEF IInv, ServicesInv, KeptInv
  <2>4. ManagerInv'
    BY <1>5, <2>1, <2>2 DEF IInv, ManagerInv, HasManager, ManagerAhead, Phases, MayProceed,
           Starts, Stops, FindsAdapter, IntrospectionFails, RegistersApplication,
           ApplicationIsRegistered, ApplicationIsRefused, RetryFires, vars
  <2>5. \/ phase' = phase
        \/ phase' \in {"ready", "calling", "running"}
             /\ (phase \in {"ready", "calling", "running"} \/ ids = {})
    BY <1>5 DEF IInv, ManagerInv, MayProceed, Starts, Stops, FindsAdapter,
           IntrospectionFails, RegistersApplication, ApplicationIsRegistered,
           ApplicationIsRefused, RetryFires, vars
  <2>6. \A s : IsServed(s)' <=> IsServed(s)
    BY <2>1, <2>2 DEF IsServed
  <2>7. ServedInv'
    BY <2>1, <2>2, <2>5, <2>6 DEF IInv, ServedInv, IsBefore
  <2> QED BY <2>3, <2>4, <2>7 DEF IInv
<1> QED BY <1>1, <1>2, <1>3, <1>4, <1>5 DEF Next, ServerStep

\* The object manager that BlueZ asks is registered whenever the application is,
\* whatever tree the application built and however often a registration failed.
THEOREM ManagerIsServedAlways == Spec => []ManagerIsServed
<1>1. IInv => ManagerIsServed
  <2> SUFFICES ASSUME IInv, phase \in {"calling", "running"}
               PROVE  \E s \in ids : Objects[s[1]] = ManagerRoot
    BY DEF ManagerIsServed
  <2>1. ManagerSlot \in ids
    BY DEF IInv, ManagerInv, HasManager
  <2>2. Objects[ManagerSlot[1]] = ManagerRoot
    BY ObjectsFacts DEF IInv, ManagerSlot
  <2> QED BY <2>1, <2>2
<1> QED BY <1>1, InitIInv, NextIInv, PTL DEF Spec

\* What BlueZ is told of is registered, for trees of any size, if nothing failed.
THEOREM ToldIsServedAlways == Spec => []ToldIsServed
<1>1. IInv => ToldIsServed
  <2> SUFFICES ASSUME IInv, phase \in {"calling", "running"}, ~failed,
                      NEW m \in ManagedObjects(Objects)
               PROVE  \E x \in exported : x.path = m.path /\ x.name = m.name
    BY DEF ToldIsServed
  <2>1. PICK s \in Slots(Objects) :
          m = [path |-> ManagedPath(Objects, s[1]), name |-> Interface(Objects, s)]
    BY DEF ManagedObjects
  <2>2. IsServed(s)
    BY DEF IInv, ManagerInv, ServedInv
  <2> QED BY <2>1, <2>2 DEF IsServed, ManagedPath, RegisteredPath
<1> QED BY <1>1, InitIInv, NextIInv, PTL DEF Spec

\* A server that has ended has nothing registered, if nothing failed.
THEOREM NothingIsLeftAlways == Spec => []NothingIsLeft
<1>1. IInv => NothingIsLeft
  BY DEF IInv, ManagerInv, KeptInv, NothingIsLeft
<1> QED BY <1>1, InitIInv, NextIInv, PTL DEF Spec

-----------------------------------------------------------------------------
(* The types, the adapter, and the objects that answer                       *)

Proxies == [gatt : 0 .. MaxObjects, adapter : 0 .. MaxObjects,
            properties : 0 .. MaxObjects, name : 0 .. MaxObjects]

AreOfOne(p) == p.name # 0 => {p.gatt, p.adapter, p.properties} = {p.name}

\* The proxies after the first n objects.
IsScanOf(objects, n, scan) ==
  scan = [i \in 0 .. n |-> IF i = 0 THEN proxies ELSE Scanned(scan[i - 1], objects[i], i)]

LEMMA ScanExists ==
  ASSUME NEW objects, NEW k \in Nat
  PROVE  \E scan : IsScanOf(objects, k, scan)
<1> DEFINE S == {n \in Nat : \E scan : IsScanOf(objects, n, scan)}
<1>1. 0 \in S
  <2> DEFINE scan == [i \in 0 .. 0 |-> proxies]
  <2>1. IsScanOf(objects, 0, scan)
    BY DEF IsScanOf
  <2> QED BY <2>1
<1>2. ASSUME NEW n \in Nat, n \in S, n < k PROVE n + 1 \in S
  <2>1. PICK scan : IsScanOf(objects, n, scan)
    BY <1>2
  <2> DEFINE more == [i \in 0 .. n + 1 |->
                        IF i = n + 1 THEN Scanned(scan[n], objects[n + 1], n + 1) ELSE scan[i]]
  <2>2. \A i \in 0 .. n : more[i] = scan[i]
    OBVIOUS
  <2>3. \A i \in 0 .. n : scan[i] = IF i = 0 THEN proxies ELSE Scanned(scan[i - 1], objects[i], i)
    BY <2>1 DEF IsScanOf
  <2>4. ASSUME NEW i \in 0 .. n + 1
        PROVE  more[i] = IF i = 0 THEN proxies ELSE Scanned(more[i - 1], objects[i], i)
    <3>1. CASE i = n + 1
      <4>1. i # 0 /\ i - 1 = n /\ n \in 0 .. n
            /\ more[i] = Scanned(scan[n], objects[n + 1], n + 1)
        BY <3>1
      <4> HIDE DEF more
      <4> QED BY <2>2, <3>1, <4>1
    <3>2. CASE i # n + 1
      <4>1. i \in 0 .. n /\ (i = 0 \/ i - 1 \in 0 .. n)
        BY <3>2
      <4> HIDE DEF more
      <4> QED BY <2>2, <2>3, <4>1
    <3> QED BY <3>1, <3>2
  <2>5. IsScanOf(objects, n + 1, more)
    BY <2>4 DEF IsScanOf
  <2> HIDE DEF more
  <2>6. n + 1 \in Nat /\ \E f : IsScanOf(objects, n + 1, f)
    BY <2>5
  <2> QED BY <2>6
<1> HIDE DEF S
<1>3. k \in S
  <2>1. \A n \in 0 .. k : n \in S
    BY <1>1, <1>2, SetInduction
  <2> QED BY <2>1
<1> QED BY <1>3 DEF S

\* One object leaves the proxies of one adapter, or without an adapter.
LEMMA ScannedLemma ==
  ASSUME NEW p \in Proxies, AreOfOne(p), NEW object, NEW i \in 1 .. MaxObjects
  PROVE  Scanned(p, object, i) \in Proxies /\ AreOfOne(Scanned(p, object, i))
<1> MaxObjects \in Nat
  BY RegistrationAssumption
<1>1. CASE p.name # 0
  BY <1>1 DEF Scanned
<1>2. CASE p.name = 0 /\ "GattManager1" \notin object
  BY <1>2 DEF Scanned, Proxies, AreOfOne
<1>3. CASE p.name = 0 /\ "GattManager1" \in object /\ "Adapter1" \notin object
  <2>1. Scanned(p, object, i) = [p EXCEPT !.gatt = i, !.adapter = 0]
    BY <1>3 DEF Scanned
  <2> DEFINE q == [p EXCEPT !.gatt = i]
  <2>2. q \in Proxies /\ q.name = 0
    BY <1>3 DEF Proxies
  <2>3. [p EXCEPT !.gatt = i, !.adapter = 0] = [q EXCEPT !.adapter = 0]
    BY DEF Proxies
  <2> HIDE DEF q
  <2>4. [q EXCEPT !.adapter = 0] \in Proxies /\ [q EXCEPT !.adapter = 0].name = 0
    BY <2>2 DEF Proxies
  <2> QED BY <2>1, <2>3, <2>4 DEF AreOfOne
<1>4. CASE p.name = 0 /\ "GattManager1" \in object /\ "Adapter1" \in object
           /\ "Properties" \notin object
  <2>1. Scanned(p, object, i) = [p EXCEPT !.gatt = i, !.adapter = i, !.properties = 0]
    BY <1>4 DEF Scanned
  <2> DEFINE q == [p EXCEPT !.gatt = i]
  <2>2. q \in Proxies /\ q.name = 0
    BY <1>4 DEF Proxies
  <2> DEFINE r == [q EXCEPT !.adapter = i]
  <2>3. [p EXCEPT !.gatt = i, !.adapter = i, !.properties = 0] = [r EXCEPT !.properties = 0]
    BY DEF Proxies
  <2> HIDE DEF q
  <2>4. r \in Proxies /\ r.name = 0
    BY <2>2 DEF Proxies
  <2> HIDE DEF r
  <2>5. [r EXCEPT !.properties = 0] \in Proxies /\ [r EXCEPT !.properties = 0].name = 0
    BY <2>4 DEF Proxies
  <2> QED BY <2>1, <2>3, <2>5 DEF AreOfOne
<1>5. CASE p.name = 0 /\ "GattManager1" \in object /\ "Adapter1" \in object
           /\ "Properties" \in object
  BY <1>5 DEF Scanned, Proxies, AreOfOne
<1> QED BY <1>1, <1>2, <1>3, <1>4, <1>5

\* ... and so do all of them.
LEMMA FoundLemma ==
  ASSUME proxies \in Proxies, AreOfOne(proxies), NEW objects \in BluezLists
  PROVE  Found(objects) \in Proxies /\ AreOfOne(Found(objects))
<1>1. Len(objects) \in 0 .. MaxObjects
  BY RegistrationAssumption DEF BluezLists
<1> DEFINE k    == Len(objects)
           scan == CHOOSE f : IsScanOf(objects, k, f)
<1>2. IsScanOf(objects, k, scan)
  BY <1>1, ScanExists
<1>3. Found(objects) = scan[k]
  BY DEF Found, IsScanOf
<1> HIDE DEF k, scan
<1>4. k \in 0 .. MaxObjects
  BY <1>1 DEF k
<1> DEFINE S == {n \in Nat : scan[n] \in Proxies /\ AreOfOne(scan[n])}
<1>5. 0 \in S
  BY <1>2, <1>4 DEF IsScanOf
<1>6. ASSUME NEW n \in Nat, n \in S, n < k PROVE n + 1 \in S
  <2>1. n + 1 \in 1 .. MaxObjects /\ n + 1 \in 0 .. k
    BY <1>4, <1>6, RegistrationAssumption
  <2>2. scan[n + 1] = Scanned(scan[n], objects[n + 1], n + 1)
    <3>1. n + 1 # 0 /\ (n + 1) - 1 = n
      BY <2>1
    <3> QED BY <1>2, <2>1, <3>1 DEF IsScanOf
  <2>3. scan[n + 1] \in Proxies /\ AreOfOne(scan[n + 1])
    BY <1>6, <2>1, <2>2, ScannedLemma
  <2> QED BY <2>3
<1> HIDE DEF S
<1>7. k \in Nat
  BY <1>4, RegistrationAssumption
<1>8. \A n \in 0 .. k : n \in S
  BY <1>5, <1>6, <1>7, SetInduction
<1> QED BY <1>3, <1>7, <1>8 DEF S

Flags == {legible, stopping, retry, dead, failed}

TypeInv ==
  /\ Flags \subseteq BOOLEAN
  /\ proxies \in Proxies
  /\ at \in (Nat \ {0}) \X (Nat \ {0})
  /\ ids \subseteq Slots(Objects)
  /\ faults \in 0 .. MaxFaults

ProxiesInv == phase # "ended" => AreOfOne(proxies)

\* What is served belongs to the first slot of a walk that has this path and name.
FirstInv ==
  ~failed =>
    \A x \in exported :
      /\ x.slot \in Slots(Objects)
      /\ x.path = RegisteredPath(Objects, x.slot[1])
      /\ x.name = Interface(Objects, x.slot)
      /\ \A t \in Slots(Objects) :
           RegisteredPath(Objects, t[1]) = x.path /\ Interface(Objects, t) = x.name
             => ~IsBefore(t, x.slot)

JInv == TypeInv /\ ProxiesInv /\ FirstInv

THEOREM InitJInv == Init => JInv
<1> SUFFICES ASSUME Init PROVE JInv
  OBVIOUS
<1>1. Flags \subseteq BOOLEAN
  BY DEF Init, Flags
<1>2. proxies \in Proxies /\ AreOfOne(proxies)
  BY RegistrationAssumption DEF Init, NoProxies, Proxies, AreOfOne
<1>3. at \in (Nat \ {0}) \X (Nat \ {0}) /\ ids \subseteq Slots(Objects)
      /\ faults \in 0 .. MaxFaults
  BY RegistrationAssumption DEF Init
<1> QED BY <1>1, <1>2, <1>3 DEF Init, JInv, TypeInv, ProxiesInv, FirstInv

\* Nothing is registered while the tree grows.
LEMMA BuildingJInv ==
  ASSUME IInv, JInv, NEW k \in 1 .. MaxNodes,
         (\E name \in NodeNames : AddsChild(k, name)) \/ AddsInterface(k)
  PROVE  JInv'
<1>1. /\ phase = "building"
      /\ UNCHANGED <<legible, phase, stopping, retry, proxies, at, exported, ids, dead,
                     faults, failed>>
  BY DEF AddsChild, AddsInterface
<1>2. ids = {} /\ (~failed => exported = {})
  BY <1>1 DEF IInv, ManagerInv, KeptInv
<1> QED BY <1>1, <1>2 DEF JInv, TypeInv, ProxiesInv, FirstInv, Flags

\* The search goes on from proxies that name one adapter or none.
LEMMA FindsJInv ==
  ASSUME JInv, FindsAdapter
  PROVE  JInv'
<1>1. /\ phase = "ready" /\ retry' \in BOOLEAN
      /\ UNCHANGED <<services, legible, phase, stopping, at, exported, ids, dead, failed>>
  BY DEF FindsAdapter, MayProceed
<1>2. proxies \in Proxies /\ AreOfOne(proxies) /\ faults \in 0 .. MaxFaults
  BY <1>1 DEF JInv, TypeInv, ProxiesInv
<1>3. PICK objects \in BluezLists :
        LET found == Found(objects)
        IN \/ proxies' = found /\ UNCHANGED faults
           \/ /\ found.name # 0
              /\ proxies' = [found EXCEPT !.name = 0]
              /\ Fault("vanish")
  BY DEF FindsAdapter
<1> DEFINE found == Found(objects)
<1>4. found \in Proxies /\ AreOfOne(found)
  BY <1>2, FoundLemma
<1>5. \/ proxies' = found /\ UNCHANGED faults
      \/ /\ proxies' = [found EXCEPT !.name = 0]
         /\ Fault("vanish")
  BY <1>3
<1> HIDE DEF found
<1>6. [found EXCEPT !.name = 0] \in Proxies /\ [found EXCEPT !.name = 0].name = 0
  BY <1>4, RegistrationAssumption DEF Proxies
<1>7. proxies' \in Proxies /\ AreOfOne(proxies')
  BY <1>4, <1>5, <1>6 DEF AreOfOne
<1>8. faults' \in 0 .. MaxFaults
  BY <1>2, <1>5, RegistrationAssumption DEF Fault
<1>9. Flags' \subseteq BOOLEAN
  BY <1>1 DEF JInv, TypeInv, Flags
<1>10. TypeInv'
  BY <1>1, <1>7, <1>8, <1>9 DEF JInv, TypeInv, Objects
<1> QED BY <1>1, <1>7, <1>10 DEF JInv, ProxiesInv, FirstInv, Objects

\* An interface is only registered when no interface before it has its path and name.
LEMMA RegistersJInv ==
  ASSUME IInv, JInv, RegistersInterface
  PROVE  JInv'
<1>1. /\ phase = "walking" /\ at \in Slots(Objects) /\ IsFree(Wanted)
      /\ ids' = ids \cup {at} /\ at' = <<at[1], at[2] + 1>>
      /\ exported' = exported \cup {[path |-> Wanted.path, name |-> Wanted.name,
                                     slot |-> at]}
      /\ UNCHANGED <<services, legible, phase, stopping, retry, proxies, dead, faults,
                     failed>>
  BY DEF RegistersInterface, AtSlot
<1>2. Objects' = Objects
  BY <1>1 DEF Objects
<1>3. at[1] \in Nat \ {0} /\ at[2] \in Nat \ {0}
  BY DEF JInv, TypeInv
<1>4. at' \in (Nat \ {0}) \X (Nat \ {0})
  BY <1>1, <1>3
<1>5. TypeInv'
  BY <1>1, <1>2, <1>4 DEF JInv, TypeInv, Flags
<1>6. ProxiesInv'
  BY <1>1 DEF JInv, ProxiesInv
<1>7. FirstInv'
  <2> SUFFICES ASSUME ~failed, NEW x \in exported'
               PROVE  /\ x.slot \in Slots(Objects)
                      /\ x.path = RegisteredPath(Objects, x.slot[1])
                      /\ x.name = Interface(Objects, x.slot)
                      /\ \A t \in Slots(Objects) :
                           RegisteredPath(Objects, t[1]) = x.path
                             /\ Interface(Objects, t) = x.name
                             => ~IsBefore(t, x.slot)
    BY <1>1, <1>2 DEF FirstInv, IsBefore
  <2>1. CASE x \in exported
    BY <2>1 DEF JInv, FirstInv
  <2>2. CASE x \notin exported
    <3>1. x = [path |-> Wanted.path, name |-> Wanted.name, slot |-> at]
      BY <1>1, <2>2
    <3>2. /\ x.slot = at /\ x.path = RegisteredPath(Objects, at[1])
          /\ x.name = Interface(Objects, at)
      BY <3>1 DEF Wanted
    <3>3. ASSUME NEW t \in Slots(Objects), RegisteredPath(Objects, t[1]) = x.path,
                 Interface(Objects, t) = x.name, IsBefore(t, at)
          PROVE  FALSE
      <4>1. PICK y \in exported : /\ y.path = RegisteredPath(Objects, t[1])
                                  /\ y.name = Interface(Objects, t)
        BY <1>1, <3>3 DEF IInv, ServedInv, IsServed
      <4>2. y.path = Wanted.path /\ y.name = Wanted.name
        BY <3>2, <3>3, <4>1 DEF Wanted
      <4> QED BY <1>1, <4>2 DEF IsFree
    <3> QED BY <1>1, <3>2, <3>3
  <2> QED BY <2>1, <2>2
<1> QED BY <1>5, <1>6, <1>7 DEF JInv

\* What the other steps of the server do to the variables of JInv.
LEMMA OthersJInv ==
  ASSUME IInv, JInv,
         \/ Starts \/ Stops \/ RegistersObjects \/ RegistrationFails
         \/ VisitsNextObject \/ IntrospectionFails \/ WalkEnds
         \/ RegistersApplication \/ ApplicationIsRegistered
         \/ ApplicationIsRefused \/ RetryFires
  PROVE  JInv'
<1> DEFINE Act == \/ Starts \/ Stops \/ RegistersObjects \/ RegistrationFails
                  \/ VisitsNextObject \/ IntrospectionFails \/ WalkEnds
                  \/ RegistersApplication \/ ApplicationIsRegistered
                  \/ ApplicationIsRefused \/ RetryFires
<1>1. UNCHANGED <<services, legible, proxies, exported>> /\ phase # "ended"
  BY DEF Starts, Stops, RegistersObjects, RegistrationFails, VisitsNextObject,
         IntrospectionFails, WalkEnds, RegistersApplication, ApplicationIsRegistered,
         ApplicationIsRefused, RetryFires, MayProceed, AtSlot
<1>2. Objects' = Objects /\ Len(Objects) \in Nat
  BY <1>1, ObjectsFacts DEF Objects, IInv, ServicesInv
<1>3. (failed' = failed \/ failed' = TRUE) /\ (ids' = ids \/ ids' = {})
  BY DEF Starts, Stops, RegistersObjects, RegistrationFails, VisitsNextObject,
         IntrospectionFails, WalkEnds, RegistersApplication, ApplicationIsRegistered,
         ApplicationIsRefused, RetryFires
<1>4. FirstInv'
  BY <1>1, <1>2, <1>3 DEF JInv, FirstInv, IsBefore
<1>5. ProxiesInv'
  BY <1>1 DEF JInv, ProxiesInv
<1>6. /\ stopping' \in {stopping, TRUE} /\ retry' \in {retry, TRUE, FALSE}
      /\ dead' = dead \/ dead' \in BOOLEAN
  BY DEF Starts, Stops, RegistersObjects, RegistrationFails, VisitsNextObject,
         IntrospectionFails, WalkEnds, RegistersApplication, ApplicationIsRegistered,
         ApplicationIsRefused, RetryFires
<1>7. Flags' \subseteq BOOLEAN
  BY <1>1, <1>3, <1>6 DEF JInv, TypeInv, Flags
<1>8. at' \in (Nat \ {0}) \X (Nat \ {0})
  <2>1. at \in (Nat \ {0}) \X (Nat \ {0}) /\ at[1] \in Nat \ {0}
    BY DEF JInv, TypeInv
  <2>2. \/ at' = at \/ at' = <<1, 1>> \/ at' = <<at[1] + 1, 1>>
        \/ \E n \in 1 .. Len(Objects) + 1 : at' = <<n, 1>>
    BY DEF Starts, Stops, RegistersObjects, RegistrationFails, VisitsNextObject,
           IntrospectionFails, WalkEnds, RegistersApplication, ApplicationIsRegistered,
           ApplicationIsRefused, RetryFires, PassesOver
  <2>3. at[1] + 1 \in Nat \ {0} /\ \A n \in 1 .. Len(Objects) + 1 : n \in Nat \ {0}
    BY <2>1, <1>2
  <2> QED BY <2>1, <2>2, <2>3
<1>9. faults' \in 0 .. MaxFaults
  <2>1. faults' = faults \/ (faults < MaxFaults /\ faults' = faults + 1)
    BY DEF Starts, Stops, RegistersObjects, RegistrationFails, VisitsNextObject,
           IntrospectionFails, WalkEnds, RegistersApplication, ApplicationIsRegistered,
           ApplicationIsRefused, RetryFires, Fault
  <2> QED BY <2>1, RegistrationAssumption DEF JInv, TypeInv
<1>10. TypeInv'
  BY <1>1, <1>2, <1>3, <1>7, <1>8, <1>9 DEF JInv, TypeInv
<1> QED BY <1>4, <1>5, <1>10 DEF JInv

THEOREM NextJInv == IInv /\ JInv /\ [Next]_vars => JInv'
<1> SUFFICES ASSUME IInv, JInv, [Next]_vars PROVE JInv'
  OBVIOUS
<1> DEFINE Building == \E k \in 1 .. MaxNodes :
             (\E name \in NodeNames : AddsChild(k, name)) \/ AddsInterface(k)
           Others == \/ Starts \/ Stops \/ RegistersObjects \/ RegistrationFails
                     \/ VisitsNextObject \/ IntrospectionFails \/ WalkEnds
                     \/ RegistersApplication \/ ApplicationIsRegistered
                     \/ ApplicationIsRefused \/ RetryFires
<1>1. CASE Building
  BY <1>1, BuildingJInv
<1>2. CASE FindsAdapter
  BY <1>2, FindsJInv
<1>3. CASE RegistersInterface
  BY <1>3, RegistersJInv
<1>4. CASE Others
  BY <1>4, OthersJInv
<1>5. CASE Uninit
  <2>1. /\ phase' = "ended" /\ exported' \subseteq exported /\ ids' = {}
        /\ proxies' = [NoProxies EXCEPT !.name = proxies.name]
        /\ UNCHANGED <<services, legible, stopping, retry, at, dead, faults, failed>>
    BY <1>5 DEF Uninit
  <2>2. Objects' = Objects
    BY <2>1 DEF Objects
  <2>3. proxies' \in Proxies
    BY <2>1, RegistrationAssumption DEF JInv, TypeInv, Proxies, NoProxies
  <2> QED BY <2>1, <2>2, <2>3 DEF JInv, TypeInv, ProxiesInv, FirstInv, Flags, IsBefore
<1>6. CASE UNCHANGED vars
  BY <1>6 DEF vars, JInv, TypeInv, ProxiesInv, FirstInv, Flags, Objects, IsBefore
<1> QED BY <1>1, <1>2, <1>3, <1>4, <1>5, <1>6 DEF Next, ServerStep

\* The invariants hold of every state.
THEOREM Invariants == Spec => [](IInv /\ JInv)
<1> QED BY InitIInv, NextIInv, InitJInv, NextJInv, PTL DEF Spec

THEOREM TypeCorrect == Spec => []TypeOK
<1>1. IInv /\ JInv => TypeOK
  <2> SUFFICES ASSUME IInv, JInv PROVE TypeOK
    OBVIOUS
  <2>1. services \in Seq(Node)
    BY DEF IInv, ServicesInv, BuiltNode
  <2>2. proxies \in [{"gatt", "adapter", "properties", "name"} -> 0 .. MaxObjects]
    BY DEF JInv, TypeInv, Proxies
  <2> QED BY <2>1, <2>2 DEF TypeOK, IInv, ManagerInv, JInv, TypeInv, Flags
<1> QED BY <1>1, Invariants, PTL

\* The proxies that the server works with are of the adapter it chose, whatever
\* lists of objects earlier attempts of findAdapterInterface went through and
\* wherever those attempts broke off.
THEOREM ProxiesAgreeAlways == Spec => []ProxiesAgree
<1>1. JInv => ProxiesAgree
  BY DEF JInv, ProxiesInv, AreOfOne, ProxiesAgree
<1> QED BY <1>1, Invariants, PTL

\* What paths are made of: no prover here knows that a literal is in STRING.
Elements == STRING \cup {Slash, "com", "gobbledegook"}

\* The tree of every server that the application can describe has paths.
LEMMA ObjectsAreRooted ==
  ASSUME IInv
  PROVE  IsRooted(Objects, Elements) /\ Objects \in Seq(BuiltNode \cup {ManagerRoot})
<1>1. services \in Seq(BuiltNode) /\ services # <<>> /\ services[1].depth = 1
  BY DEF IInv, ServicesInv
<1>2. Len(services) \in Nat \ {0} /\ DOMAIN services = 1 .. Len(services)
  BY <1>1
<1>3. DOMAIN Objects = 1 .. Len(services) + 1 /\ Objects[Len(services) + 1] = ManagerRoot
      /\ \A j \in 1 .. Len(services) : Objects[j] = services[j]
  BY <1>1, <1>2 DEF Objects
<1>4. \A j \in 1 .. Len(services) : services[j] \in BuiltNode
  BY <1>1, <1>2, ElementOfSeq
<1>5. Objects \in Seq(BuiltNode \cup {ManagerRoot})
  <2> DEFINE S == BuiltNode \cup {ManagerRoot}
  <2>1. services \in Seq(S) /\ ManagerRoot \in S
    <3> HIDE DEF S
    <3>1. BuiltNode \subseteq S /\ ManagerRoot \in S
      BY DEF S
    <3> QED BY <1>1, <3>1
  <2> HIDE DEF S
  <2>2. Append(services, ManagerRoot) \in Seq(S)
    BY <2>1, AppendProperties
  <2> QED BY <2>2 DEF Objects, S
<1> DEFINE IsGood(v) == /\ v.depth \in Nat \ {0} /\ v.name \in Seq(Elements)
                        /\ v.depth = 1 => v.name # <<>> /\ Head(v.name) = Slash
<1>6. IsGood(ManagerRoot)
  BY DEF ManagerRoot, Slash, Elements
<1>7. ASSUME NEW v \in BuiltNode PROVE IsGood(v)
  <2>1. ServicesRoot.name \in Seq(Elements) /\ ServicesRoot.name # <<>>
        /\ Head(ServicesRoot.name) = Slash
    BY DEF ServicesRoot, Slash, Elements
  <2>2. v.depth \in 1 .. 4 /\ v.name \in NodeNames \cup {ServicesRoot.name}
        /\ (v.depth = 1 => v.name = ServicesRoot.name)
    BY DEF BuiltNode, Node
  <2>3. STRING \subseteq Elements
    BY DEF Elements
  <2>4. ASSUME NEW name \in NodeNames PROVE name \in Seq(Elements)
    <3>1. name \in Seq(STRING)
      BY RegistrationAssumption
    <3> QED BY <2>3, <3>1, LargerSeq, Zenon
  <2>5. v.name \in Seq(Elements)
    BY <2>1, <2>2, <2>4
  <2> QED BY <2>1, <2>2, <2>5
<1> HIDE DEF IsGood
<1>8. \A j \in DOMAIN Objects : IsGood(Objects[j])
  <2>1. ASSUME NEW j \in DOMAIN Objects PROVE IsGood(Objects[j])
    <3>1. CASE j = Len(services) + 1
      BY <3>1, <1>3, <1>6
    <3>2. CASE j # Len(services) + 1
      <4>1. j \in 1 .. Len(services)
        BY <3>2, <1>2, <1>3
      <4> QED BY <4>1, <1>3, <1>4, <1>7
    <3> QED BY <3>1, <3>2
  <2> QED BY <2>1
<1>9. Objects[1].depth = 1
  BY <1>1, <1>2, <1>3
<1> QED BY <1>5, <1>8, <1>9 DEF IsRooted, IsGood

\* Every object of every tree that the application can describe has one path,
\* however it is asked for: OnePath, for the trees of this module.
THEOREM PathsAgreeAlways == Spec => []PathsAgree
<1>1. IInv => PathsAgree
  <2> SUFFICES ASSUME IInv, NEW k \in DOMAIN Objects
               PROVE  {LookupPath(Objects, k), ManagedPath(Objects, k), GetPath(Objects, k)}
                        = {RegisteredPath(Objects, k)}
    BY DEF PathsAgree
  <2>1. DOMAIN Objects = 1 .. Len(services) + 1 /\ Len(services) \in Nat
    BY ObjectsFacts DEF IInv
  <2>2. k \in Nat \ {0} /\ 1 .. k \subseteq DOMAIN Objects
    BY <2>1
  <2>3. IsRooted(Objects, Elements) /\ Slash \in Elements
    BY ObjectsAreRooted DEF Elements
  <2>4. /\ LookupPath(Objects, k) = RegisteredPath(Objects, k)
        /\ ManagedPath(Objects, k) = RegisteredPath(Objects, k)
        /\ GetPath(Objects, k) = RegisteredPath(Objects, k)
    BY <2>2, <2>3, OnePath
  <2> QED BY <2>4
<1> QED BY <1>1, Invariants, PTL

\* The first object of the walk that has the path and the interface of a call is
\* the one that was registered for them, unless a registration failed.
THEOREM CallsReachAlways == Spec => []CallsReachTheirObject
<1>1. IInv /\ JInv => CallsReachTheirObject
  <2> SUFFICES ASSUME IInv, JInv, NEW x \in exported, ~failed
               PROVE  FindInterface(Objects, x.path, x.name) = x.slot
    BY DEF CallsReachTheirObject
  <2>1. /\ x.slot \in Slots(Objects)
        /\ x.path = RegisteredPath(Objects, x.slot[1])
        /\ x.name = Interface(Objects, x.slot)
        /\ \A t \in Slots(Objects) :
             RegisteredPath(Objects, t[1]) = x.path /\ Interface(Objects, t) = x.name
               => ~IsBefore(t, x.slot)
    BY DEF JInv, FirstInv
  <2>2. Slash \in Elements /\ IsRooted(Objects, Elements)
        /\ Objects \in Seq(BuiltNode \cup {ManagerRoot})
    BY ObjectsAreRooted DEF Elements
  <2>3. /\ Slots(Objects) \in SUBSET (Nat \X Nat)
        /\ \A s \in Slots(Objects) : s[1] \in Nat \ {0} /\ 1 .. s[1] \subseteq DOMAIN Objects
    BY <2>2, SlotsLemma
  <2>4. \A s \in Slots(Objects) : LookupPath(Objects, s[1]) = RegisteredPath(Objects, s[1])
    BY <2>2, <2>3, OnePath
  <2> DEFINE found == {s \in Slots(Objects) : LookupPath(Objects, s[1]) = x.path
                                                /\ Interface(Objects, s) = x.name}
  <2>5. /\ found \in SUBSET (Nat \X Nat) /\ x.slot \in found
        /\ \A t \in found : ~IsBefore(t, x.slot)
    BY <2>1, <2>3, <2>4
  <2>6. FindInterface(Objects, x.path, x.name) = IF found = {} THEN <<>> ELSE FirstSlot(found)
    BY DEF FindInterface
  <2> HIDE DEF found
  <2>7. FirstSlot(found) = x.slot
    BY <2>5, IsFirstSlot
  <2> QED BY <2>5, <2>6, <2>7
<1> QED BY <1>1, Invariants, PTL

PathsAreAccepted == \A k \in DOMAIN Objects : IsObjectPath(RegisteredPath(Objects, k))

\* D-Bus rejects the path of an object only where a name of the application has a
\* slash: with other names all that keeps an interface from being registered is a
\* name that is used twice, or a fault.
THEOREM PlainNamesAreAccepted ==
  ASSUME \A name \in NodeNames : \A i \in 1 .. Len(name) : name[i] # Slash
  PROVE  Spec => []PathsAreAccepted
<1>1. IInv => PathsAreAccepted
  <2> SUFFICES ASSUME IInv, NEW k \in DOMAIN Objects
               PROVE  IsObjectPath(RegisteredPath(Objects, k))
    BY DEF PathsAreAccepted
  <2>1. /\ DOMAIN Objects = 1 .. Len(services) + 1 /\ Len(services) \in Nat
        /\ Objects[Len(services) + 1] = ManagerRoot
    BY ObjectsFacts DEF IInv
  <2>2. k \in Nat \ {0} /\ 1 .. k \subseteq DOMAIN Objects
    BY <2>1
  <2>3. IsRooted(Objects, Elements) /\ Slash \in Elements
    BY ObjectsAreRooted DEF Elements
  <2> DEFINE IsPlain(v) ==
               IF v.depth = 1 THEN IsObjectPath(v.name)
               ELSE v.name # <<>> /\ \A i \in 1 .. Len(v.name) : v.name[i] # Slash
  <2>4. IsPlain(ManagerRoot)
    BY DEF ManagerRoot, IsObjectPath, Slash
  <2>5. IsObjectPath(ServicesRoot.name)
    BY DEF ServicesRoot, IsObjectPath, Last, Slash
  <2>6. ASSUME NEW v \in BuiltNode PROVE IsPlain(v)
    <3>1. IF v.depth = 1 THEN v.name = ServicesRoot.name ELSE v.name \in NodeNames
      BY DEF BuiltNode
    <3>2. \A name \in NodeNames : name # <<>>
      BY RegistrationAssumption
    <3> QED BY <2>5, <3>1, <3>2
  <2> HIDE DEF IsPlain
  <2>7. \A j \in 1 .. k : IsPlain(Objects[j])
    <3>1. \A j \in DOMAIN Objects : Objects[j] \in BuiltNode \cup {ManagerRoot}
      BY ObjectsAreRooted, ElementOfSeq
    <3> QED BY <2>2, <2>4, <2>6, <3>1
  <2> QED BY <2>2, <2>3, <2>7, PlainNamesMakePaths DEF IsPlain
<1> QED BY <1>1, Invariants, PTL
=============================================================================

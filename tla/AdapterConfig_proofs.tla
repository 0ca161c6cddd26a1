------------------------ MODULE AdapterConfig_proofs ------------------------
(***************************************************************************)
(* Proofs about AdapterConfig, for any settings, instances and faults: its   *)
(* types, that the adapter is as wanted when it is said to be configured if   *)
(* the attempt's readings did not fail, and that an adapter which is as       *)
(* wanted and was read is not switched off.                                   *)
(***************************************************************************)
EXTENDS AdapterConfig, SequenceTheorems, TLAPS

\* In an attempt that could read the adapter, the copy that configureAdapter works
\* with tells what is left to change, and all that it has passed is done.
Work ==
  /\ at \in {"features", "compare"} => info = Actual
  /\ at \in {"compare", "off", "set", "advertise"} => supported = Instances
  /\ at \in {"off", "set"} => \A s \in Settings : IsFine(seen, s) => IsFine(Actual, s)
  /\ at = "off" => next = 1
  /\ at = "set" => \A i \in DOMAIN Order : i < next => IsFine(Actual, Order[i])
  /\ at = "advertise" =>
       /\ hasData /\ powered /\ SettingsAreWanted
       /\ next <= Instances + 1
       /\ allAdded => \A i \in 1 .. next - 1 : i \in fresh

WorkInv == ~misread => Work

\* WellReadMeansWanted of an attempt that was read.
ConfiguredMeansWanted == at = "configured" => AdapterIsWanted

IInv == TypeOK /\ WorkInv /\ WellReadMeansWanted

\* The order is a sequence, of the settings.
LEMMA OrderIsSequence ==
  /\ DOMAIN Order = 1 .. Len(Order) /\ Len(Order) \in Nat
  /\ \A i \in DOMAIN Order : Order[i] \in Settings
  /\ \A s \in Settings : \E i \in DOMAIN Order : s = Order[i]
<1> DEFINE Names == STRING \cup {"le", "bredr", "advertising", "name"}
<1>1. Order \in Seq(Names)
  <2>1. \A S : \A a, b \in S : <<a, b>> \in Seq(S)
    OBVIOUS
  <2>2. <<"le", "bredr">> \in Seq(Names) /\ <<"advertising", "name">> \in Seq(Names)
    BY <2>1, Zenon
  <2>3. Others \in Seq(Names)
    <3>1. \A S, T : S \subseteq T => Seq(S) \subseteq Seq(T)
      OBVIOUS
    <3> QED BY <3>1, ConfigAssumption
  <2>4. \A p, q, r \in Seq(Names) : p \o q \o r \in Seq(Names)
    BY ConcatProperties
  <2> QED BY <2>2, <2>3, <2>4, Zenon DEF Order
<1>2. DOMAIN Order = 1 .. Len(Order) /\ Len(Order) \in Nat
  BY <1>1
<1>3. /\ \A i \in DOMAIN Order : Order[i] \in Settings
      /\ \A s \in Settings : \E i \in DOMAIN Order : s = Order[i]
  BY Zenon DEF Settings
<1> QED BY <1>2, <1>3

\* Every step of Next is one of the actions, named one by one.
LEMMA NextCases ==
  ASSUME [Next]_vars
  PROVE  \/ SyncsSettings \/ SyncsInstances \/ Compares \/ Retries \/ PowersOff
         \/ \E s \in Settings : Sets(s)
         \/ \E s \in Settings : Skips(s)
         \/ PowersOn \/ AddsInstance \/ EndsAdvertising \/ WatchdogReads
         \/ UNCHANGED vars
BY DEF Next, ConfigureAdapter

\* What the server wants of a setting is on or off.
LEMMA WantedIsBoolean ==
  ASSUME TypeOK, NEW s \in DOMAIN wanted
  PROVE  wanted[s] \in BOOLEAN /\ s \in Settings
<1>1. PICK c \in Cares : wanted \in [c -> BOOLEAN]
  BY DEF TypeOK
<1> QED BY <1>1 DEF Cares

-----------------------------------------------------------------------------
(* Types.                                                                    *)

\* The initial state has the types.
LEMMA InitTypes == Init => TypeOK
<1> SUFFICES ASSUME Init PROVE TypeOK
  OBVIOUS
<1>1. PICK w \in Wishes, c \in Cares : wanted = [s \in c |-> w[s]]
  BY DEF Init
<1>2. wanted \in [c -> BOOLEAN]
  BY <1>1 DEF Wishes, Cares
<1>3. Nothing \in [powered : BOOLEAN, setting : [Settings -> BOOLEAN]]
  BY DEF Nothing
<1>4. /\ wanted \in UNION {[d -> BOOLEAN] : d \in Cares}
      /\ {info, seen} \subseteq [powered : BOOLEAN, setting : [Settings -> BOOLEAN]]
  BY <1>2, <1>3 DEF Init
<1>5. /\ hasData \in BOOLEAN /\ powered \in BOOLEAN
      /\ allAdded = TRUE /\ misread = FALSE
  BY DEF Init
<1>6. {hasData, powered, allAdded, misread} \subseteq BOOLEAN
  BY <1>5, Zenon
<1>7. /\ setting \in [Settings -> BOOLEAN] /\ fresh \subseteq 1 .. Instances
      /\ supported \in {1, Instances} /\ at = "sync" /\ next \in Nat \ {0}
      /\ faults \in 0 .. MaxFaults
  BY ConfigAssumption DEF Init
<1> QED BY <1>4, <1>6, <1>7 DEF TypeOK

\* Every action keeps the types.
LEMMA TypeStep ==
  ASSUME TypeOK, [Next]_vars
  PROVE  TypeOK'
<1> USE ConfigAssumption DEF TypeOK, serverVars, controllerVars, readVars, Command,
    Fault
<1>0. Actual \in [powered : BOOLEAN, setting : [Settings -> BOOLEAN]]
  BY DEF Actual
<1>1. CASE SyncsSettings
  BY <1>0, <1>1 DEF SyncsSettings
<1>2. CASE SyncsInstances
  BY <1>2 DEF SyncsInstances
<1>3. CASE Compares
  BY <1>3 DEF Compares
<1>4. CASE Retries
  BY <1>4 DEF Retries
<1>5. CASE PowersOff
  <2>1. powered' = FALSE \/ powered' = powered
    BY <1>5, Zenon DEF PowersOff
  <2>2. powered' \in BOOLEAN
    BY <2>1, Zenon
  <2>3. faults' \in 0 .. MaxFaults
    BY <1>5 DEF PowersOff
  <2>4. at' \in {"set", "retry"}
    BY <1>5 DEF PowersOff
  <2>5. UNCHANGED <<wanted, hasData, setting, fresh, info, supported, misread, seen, next, allAdded>>
    BY <1>5 DEF PowersOff
  <2> QED BY <2>2, <2>3, <2>4, <2>5
<1>6. ASSUME NEW s \in Settings, Sets(s) PROVE TypeOK'
  <2>1. wanted[s] \in BOOLEAN
    BY <1>6, WantedIsBoolean DEF Sets, IsFine
  <2>2. setting' \in [Settings -> BOOLEAN]
    BY <1>6, <2>1 DEF Sets
  <2>3. at' \in {"set", "retry"} /\ next' \in Nat \ {0} /\ faults' \in 0 .. MaxFaults
    BY <1>6 DEF Sets
  <2>4. UNCHANGED <<wanted, hasData, powered, fresh, info, supported, misread, seen, allAdded>>
    BY <1>6 DEF Sets
  <2> QED BY <2>2, <2>3, <2>4
<1>7. ASSUME NEW s \in Settings, Skips(s) PROVE TypeOK'
  BY <1>7 DEF Skips
<1>8. CASE PowersOn
  <2>1. powered' = TRUE \/ powered' = powered
    BY <1>8, Zenon DEF PowersOn
  <2>2. powered' \in BOOLEAN /\ allAdded' \in BOOLEAN
    BY <1>8, <2>1, Zenon DEF PowersOn
  <2>3. faults' \in 0 .. MaxFaults
    BY <1>8 DEF PowersOn
  <2>4. at' \in {"retry", "advertise", "configured"} /\ next' = 1
    BY <1>8 DEF PowersOn
  <2>5. UNCHANGED <<wanted, hasData, setting, fresh, info, supported, misread, seen>>
    BY <1>8 DEF PowersOn
  <2> QED BY <2>2, <2>3, <2>4, <2>5
<1>9. CASE AddsInstance
  <2>1. fresh' = fresh \/ fresh' = fresh \cup {next}
    BY <1>9 DEF AddsInstance
  <2>2. next \in 1 .. Instances /\ next' = next + 1
    BY <1>9 DEF AddsInstance
  <2>7. fresh' \subseteq 1 .. Instances /\ next' \in Nat \ {0}
    <3>1. fresh \subseteq 1 .. Instances
      OBVIOUS
    <3>2. fresh' \subseteq 1 .. Instances
      BY <2>1, <2>2, <3>1, Zenon
    <3> QED BY <2>2, <3>2
  <2>3. allAdded' \in BOOLEAN
    BY <1>9, Zenon DEF AddsInstance
  <2>4. faults' \in 0 .. MaxFaults
    BY <1>9 DEF AddsInstance
  <2>5. UNCHANGED <<wanted, hasData, powered, setting, info, supported, misread, seen, at>>
    BY <1>9 DEF AddsInstance
  <2>6. /\ wanted' \in UNION {[c -> BOOLEAN] : c \in Cares}
        /\ {info, seen}' \subseteq [powered : BOOLEAN, setting : [Settings -> BOOLEAN]]
    BY <2>5
  <2> QED BY <2>7, <2>3, <2>4, <2>5, <2>6
<1>10. CASE EndsAdvertising
  BY <1>10 DEF EndsAdvertising
<1>11. CASE WatchdogReads
  BY <1>0, <1>11 DEF WatchdogReads
<1>12. CASE UNCHANGED vars
  BY <1>12 DEF vars
<1> QED BY NextCases, <1>1, <1>2, <1>3, <1>4, <1>5, <1>6, <1>7, <1>8, <1>9, <1>10,
           <1>11, <1>12

\* The controller, the information about it and configureAdapter keep to their
\* states.
THEOREM TypeCorrect == Spec => []TypeOK
<1>1. TypeOK /\ [Next]_vars => TypeOK'
  BY TypeStep
<1> QED BY <1>1, InitTypes, PTL DEF Spec

-----------------------------------------------------------------------------
(* Configured means wanted.                                                  *)

\* A command for a setting brings it to what is wanted or leaves it, and succeeds
\* only in the first case.
LEMMA SettingsKeep ==
  ASSUME TypeOK, NEW s \in Settings, Sets(s)
  PROVE  /\ \A r \in Settings : IsFine(Actual, r) => IsFine(Actual, r)'
         /\ at' = "set" => IsFine(Actual, s)'
<1>1. s \in DOMAIN wanted /\ wanted' = wanted
  BY DEF Sets, IsFine, serverVars
<1>2. \/ setting' = [setting EXCEPT ![s] = wanted[s]]
      \/ setting' = setting /\ at' # "set"
  BY DEF Sets, Command
<1> QED BY <1>1, <1>2 DEF IsFine, Actual, TypeOK

\* Only a reading of the settings turns a misread attempt into one that is not.
LEMMA ReadingKeeps ==
  ASSUME [Next]_vars, ~misread'
  PROVE  SyncsSettings \/ ~misread
<1> USE DEF readVars
<1>1. CASE SyncsInstances
  BY <1>1 DEF SyncsInstances
<1>2. CASE Compares \/ Retries \/ PowersOff
  BY <1>2 DEF Compares, Retries, PowersOff
<1>3. ASSUME NEW s \in Settings, Sets(s) \/ Skips(s) PROVE ~misread
  BY <1>3 DEF Sets, Skips
<1>4. CASE PowersOn \/ AddsInstance \/ EndsAdvertising
  BY <1>4 DEF PowersOn, AddsInstance, EndsAdvertising
<1>5. CASE WatchdogReads \/ UNCHANGED vars
  BY <1>5 DEF WatchdogReads, vars
<1> QED BY NextCases, <1>1, <1>2, <1>3, <1>4, <1>5

\* In an attempt that was read, every action keeps Work and ConfiguredMeansWanted.
LEMMA WorkStep ==
  ASSUME TypeOK, Work, ConfiguredMeansWanted, [Next]_vars, ~misread'
  PROVE  (Work /\ ConfiguredMeansWanted)'
<1> USE ConfigAssumption DEF Work, ConfiguredMeansWanted, AdapterIsWanted,
    SettingsAreWanted, serverVars, controllerVars, readVars
<1>1. CASE SyncsSettings
  BY <1>1 DEF SyncsSettings, Actual
<1>2. CASE SyncsInstances
  BY <1>2 DEF SyncsInstances, Actual
<1>3. CASE Compares
  <2>1. seen' = Actual /\ UNCHANGED <<wanted, hasData, powered, setting, fresh, supported, misread>>
    BY <1>3 DEF Compares
  <2>2. at' \in {"configured", "off", "set"} /\ next' = 1
    BY <1>3 DEF Compares
  <2>3. \A s \in Settings : IsFine(seen, s)' => IsFine(Actual, s)'
    BY <2>1 DEF IsFine, Actual
  <2>4. at' = "configured" => AdapterIsWanted'
    <3>1. at' = "configured" => FlagsAreSet(Actual)
      BY <1>3 DEF Compares
    <3> QED BY <3>1, <2>1 DEF FlagsAreSet, IsFine, Actual
  <2> QED BY <2>1, <2>2, <2>3, <2>4, <1>3, OrderIsSequence DEF Compares
<1>4. CASE Retries
  BY <1>4 DEF Retries
<1>5. CASE PowersOff
  BY <1>5, OrderIsSequence DEF PowersOff, IsFine, Actual
<1>6. ASSUME NEW s \in Settings, Sets(s) PROVE (Work /\ ConfiguredMeansWanted)'
  <2>1. /\ at' \in {"set", "retry"} /\ UNCHANGED <<wanted, seen, supported, misread>>
        /\ at = "set" /\ s = Order[next]
        /\ at' = "set" => next' = next + 1
    BY <1>6 DEF Sets
  <2>2. /\ \A r \in Settings : IsFine(Actual, r) => IsFine(Actual, r)'
        /\ at' = "set" => IsFine(Actual, s)'
    BY <1>6, SettingsKeep
  <2>3. \A r \in Settings : IsFine(seen, r)' => IsFine(Actual, r)'
    BY <2>1, <2>2 DEF IsFine
  <2>4. at' = "set" => \A i \in DOMAIN Order : i < next' => IsFine(Actual, Order[i])'
    BY <2>1, <2>2, OrderIsSequence DEF TypeOK
  <2> QED BY <2>1, <2>3, <2>4
<1>7. ASSUME NEW s \in Settings, Skips(s) PROVE (Work /\ ConfiguredMeansWanted)'
  <2>1. /\ at = "set" /\ s = Order[next] /\ next' = next + 1 /\ IsFine(seen, s)
        /\ UNCHANGED <<wanted, hasData, powered, setting, fresh, supported, misread, seen, at>>
    BY <1>7 DEF Skips
  <2>2. \A r \in Settings : (IsFine(Actual, r)' <=> IsFine(Actual, r))
                           /\ (IsFine(seen, r)' <=> IsFine(seen, r))
    BY <2>1 DEF IsFine, Actual
  <2>3. \A i \in DOMAIN Order : i < next' => IsFine(Actual, Order[i])'
    BY <2>1, <2>2, OrderIsSequence DEF TypeOK
  <2> QED BY <2>1, <2>2, <2>3
<1>8. CASE PowersOn
  <2>1. UNCHANGED <<wanted, hasData, setting, fresh, supported, misread, seen>>
    BY <1>8 DEF PowersOn
  <2>2. \A i \in DOMAIN Order : IsFine(Actual, Order[i])
    BY <1>8, OrderIsSequence DEF PowersOn, TypeOK
  <2>3. SettingsAreWanted'
    BY <2>1, <2>2, OrderIsSequence DEF IsFine, Actual
  <2>4. /\ at' \in {"retry", "advertise", "configured"} /\ next' = 1
        /\ at' # "retry" => powered' = TRUE
        /\ at' = "advertise" => hasData
        /\ at' = "configured" => ~hasData
    BY <1>8 DEF PowersOn, Command, TypeOK
  <2> QED BY <2>1, <2>3, <2>4, <1>8 DEF PowersOn
<1>9. CASE AddsInstance
  <2>1. /\ UNCHANGED <<wanted, hasData, powered, setting, supported, misread, at>>
        /\ at = "advertise" /\ next' = next + 1 /\ next <= Instances
    BY <1>9 DEF AddsInstance
  <2>2. fresh \subseteq fresh' /\ (allAdded' => allAdded /\ next \in fresh')
    BY <1>9 DEF AddsInstance, Command, TypeOK
  <2>3. SettingsAreWanted'
    BY <2>1 DEF IsFine, Actual
  <2>4. allAdded' => \A i \in 1 .. next' - 1 : i \in fresh'
    BY <2>1, <2>2 DEF TypeOK
  <2>5. next' <= Instances + 1
    BY <2>1 DEF TypeOK
  <2> QED BY <2>1, <2>3, <2>4, <2>5
<1>10. CASE EndsAdvertising
  <2>1. /\ UNCHANGED <<wanted, hasData, powered, setting, fresh, supported, misread>>
        /\ at = "advertise" /\ next = Instances + 1 /\ at' \in {"configured", "retry"}
        /\ at' = "configured" => allAdded
    BY <1>10 DEF EndsAdvertising, TypeOK
  <2>2. ASSUME at' = "configured" PROVE fresh' = 1 .. Instances
    <3>1. next - 1 = Instances
      BY <2>1
    <3>2. \A i \in 1 .. Instances : i \in fresh
      BY <2>1, <2>2, <3>1
    <3>3. fresh \subseteq 1 .. Instances
      BY DEF TypeOK
    <3> QED BY <2>1, <3>2, <3>3
  <2> QED BY <2>1, <2>2 DEF IsFine, Actual
<1>11. CASE WatchdogReads
  BY <1>11 DEF WatchdogReads, IsFine, Actual
<1>12. CASE UNCHANGED vars
  BY <1>12 DEF vars, IsFine, Actual
<1> QED BY NextCases, <1>1, <1>2, <1>3, <1>4, <1>5, <1>6, <1>7, <1>8, <1>9, <1>10,
           <1>11, <1>12

\* The inductive invariant is inductive.
LEMMA InvStep ==
  ASSUME IInv, [Next]_vars
  PROVE  IInv'
<1>1. TypeOK'
  BY TypeStep DEF IInv
<1>2. ASSUME ~misread' PROVE (Work /\ ConfiguredMeansWanted)'
  <2>1. CASE SyncsSettings
    <3>1. at' = "features" /\ info' = Actual'
      BY <2>1, <1>2 DEF SyncsSettings, controllerVars, Actual
    <3> QED BY <3>1 DEF Work, ConfiguredMeansWanted
  <2>2. CASE ~misread
    BY <2>2, <1>2, WorkStep DEF IInv, WorkInv, WellReadMeansWanted, ConfiguredMeansWanted
  <2> QED BY <2>1, <2>2, <1>2, ReadingKeeps
<1> QED BY <1>1, <1>2 DEF IInv, WorkInv, WellReadMeansWanted, ConfiguredMeansWanted

\* When the adapter is said to be configured it is as the server wants it, if the
\* attempt's readings did not fail.
THEOREM ConfiguredIsWanted == Spec => []WellReadMeansWanted
<1>1. Init => IInv
  BY InitTypes DEF IInv, Init, WorkInv, Work, WellReadMeansWanted
<1>2. IInv /\ [Next]_vars => IInv'
  BY InvStep
<1>3. IInv => WellReadMeansWanted
  BY DEF IInv
<1> QED BY <1>1, <1>2, <1>3, PTL DEF Spec

-----------------------------------------------------------------------------
(* A plain adapter is left alone.                                            *)

\* An attempt that was read switches the adapter off only if something is left to
\* change.
OffHasReason == at = "off" /\ ~misread => ~AdapterIsWanted \/ hasData

\* A comparison with what was read finds an adapter that is as wanted.
LEMMA ComparesWell ==
  ASSUME Work, ~misread, Compares, AdapterIsWanted, ~hasData
  PROVE  at' = "configured"
<1>1. info = Actual
  BY DEF Compares, Work
<1>2. FlagsAreSet(info)
  BY <1>1 DEF FlagsAreSet, AdapterIsWanted, SettingsAreWanted, Actual
<1> QED BY <1>2 DEF Compares

\* Every action keeps OffHasReason, since only Compares goes to "off".
LEMMA OffStep ==
  ASSUME IInv, OffHasReason, [Next]_vars
  PROVE  OffHasReason'
<1> SUFFICES ASSUME at' = "off", ~misread' PROVE (~AdapterIsWanted \/ hasData)'
  BY DEF OffHasReason
<1> USE DEF AdapterIsWanted, SettingsAreWanted, IsFine, Actual, serverVars, controllerVars,
        readVars
<1>1. CASE SyncsSettings \/ SyncsInstances \/ Retries \/ PowersOff
  BY <1>1 DEF SyncsSettings, SyncsInstances, Retries, PowersOff
<1>2. CASE Compares
  <2>1. ~misread /\ UNCHANGED <<wanted, hasData, powered, setting, fresh>>
    BY <1>2 DEF Compares
  <2>2. ~AdapterIsWanted \/ hasData
    BY <1>2, <2>1, ComparesWell DEF IInv, WorkInv
  <2> QED BY <2>1, <2>2
<1>3. ASSUME NEW s \in Settings, Sets(s) \/ Skips(s) PROVE FALSE
  BY <1>3 DEF Sets, Skips
<1>4. CASE PowersOn \/ AddsInstance \/ EndsAdvertising
  BY <1>4 DEF PowersOn, AddsInstance, EndsAdvertising
<1>5. CASE WatchdogReads \/ UNCHANGED vars
  BY <1>5 DEF WatchdogReads, vars, OffHasReason
<1> QED BY NextCases, <1>1, <1>2, <1>3, <1>4, <1>5

\* Only PowersOff switches the adapter off.
LEMMA OnlyPowersOff ==
  ASSUME TypeOK, [Next]_vars, powered, ~powered'
  PROVE  at = "off" /\ UNCHANGED misread
<1> USE DEF controllerVars, readVars
<1>1. CASE SyncsSettings \/ SyncsInstances \/ Compares \/ Retries
  BY <1>1 DEF SyncsSettings, SyncsInstances, Compares, Retries
<1>2. CASE PowersOff
  BY <1>2 DEF PowersOff
<1>3. ASSUME NEW s \in Settings, Sets(s) \/ Skips(s) PROVE FALSE
  BY <1>3 DEF Sets, Skips
<1>4. CASE PowersOn
  BY <1>4 DEF PowersOn, Command
<1>5. CASE AddsInstance \/ EndsAdvertising
  BY <1>5 DEF AddsInstance, EndsAdvertising
<1>6. CASE WatchdogReads \/ UNCHANGED vars
  BY <1>6 DEF WatchdogReads, vars
<1> QED BY NextCases, <1>1, <1>2, <1>3, <1>4, <1>5, <1>6

\* configureAdapter never switches off an adapter that is as the server wants it and
\* that the attempt could read, if there are no advertising data, whatever settings
\* there are and however often it was tried before.
THEOREM PlainIsLeftAlone == Spec => PlainSetUpIsLeftAlone
<1>1. Init => IInv /\ OffHasReason
  BY InitTypes DEF IInv, Init, WorkInv, Work, WellReadMeansWanted, OffHasReason
<1>2. IInv /\ OffHasReason /\ [Next]_vars => (IInv /\ OffHasReason)'
  BY InvStep, OffStep
<1>3. IInv /\ OffHasReason /\ [Next]_vars =>
        [AdapterIsWanted /\ ~hasData /\ ~misread => powered']_vars
  <2> SUFFICES ASSUME IInv, OffHasReason, [Next]_vars, AdapterIsWanted, ~hasData, ~misread
               PROVE  powered'
    OBVIOUS
  <2>1. powered
    BY DEF AdapterIsWanted
  <2> QED BY <2>1, OnlyPowersOff DEF OffHasReason, IInv
<1> QED BY <1>1, <1>2, <1>3, PTL DEF Spec, PlainSetUpIsLeftAlone
=============================================================================

---------------------------- MODULE AdapterConfig ----------------------------
(***************************************************************************)
(* configureAdapter (Init.cpp) with the part of Mgmt it uses: it reads the   *)
(* controller's settings through Mgmt's constructor and HciAdapter::sync,     *)
(* compares them with what the server wants, powers the adapter off, changes  *)
(* what differs one command at a time, powers it on and adds the advertising *)
(* instances.  A command that fails ends the attempt; a retry begins with a   *)
(* new reading.  Nobody else changes the adapter meanwhile.                  *)
(*                                                                          *)
(* What a setting is does not matter here: each is on or off, and the name is *)
(* on when it is the wanted one.  The loop over the instances ends here: that  *)
(* it counts in a byte is left to AdvertisingData.                           *)
(***************************************************************************)
EXTENDS Naturals, Sequences

CONSTANTS
  Others,        \* the plain settings between "bredr" and "advertising", in order
  Instances,     \* advertising instances that the controller supports
  Faults,        \* which of AllFaults can happen
  MaxFaults      \* bound: faults of one behaviour

\* A reading fails, a command is refused, the answer to a command does not come.
AllFaults == {"read", "refused", "unanswered"}

\* Mutant: BR/EDR before the low energy mode.
BredrFirst == <<"bredr", "le">> \o Others \o <<"advertising", "name">>

\* The settings in the order in which configureAdapter changes them.
Order    == <<"le", "bredr">> \o Others \o <<"advertising", "name">>
Settings == {Order[i] : i \in DOMAIN Order}

ASSUME ConfigAssumption ==
  /\ Others \in Seq(STRING)
  /\ \A i, j \in DOMAIN Order : Order[i] = Order[j] => i = j
  /\ Instances \in Nat \ {0} /\ MaxFaults \in Nat
  /\ Faults \subseteq AllFaults

VARIABLES
  wanted,      \* what the server wants of the settings it cares about
  hasData,     \* the server has advertising data of its own
  powered,     \* the controller: is it on?
  setting,     \*                 its settings
  fresh,       \*                 the instances that carry the server's data
  info,        \* HciAdapter::controllerInformation
  supported,   \* HciAdapter::supportedAdvertisingInstances
  seen,        \* configureAdapter's copy of info
  at,          \* where configureAdapter is
  next,        \* the setting or instance that is next
  allAdded,    \* setAdvertisingDataInstances: success
  faults,      \* faults so far
  misread      \* ghost: a reading of the last attempt failed

serverVars     == <<wanted, hasData>>
controllerVars == <<powered, setting, fresh>>
readVars       == <<info, supported, misread>>
vars == <<serverVars, controllerVars, readVars, seen, at, next, allAdded, faults>>

Actual  == [powered |-> powered, setting |-> setting]
Nothing == [powered |-> FALSE, setting |-> [s \in Settings |-> FALSE]]

\* The low energy mode is always wanted on; global advertising only without data
\* of its own; a server without EnableSetLocalName does not care for the name.
Wishes == {w \in [Settings -> BOOLEAN] : w["le"] /\ w["name"]}
Cares  == {Settings, Settings \ {"name"}}

Init ==
  /\ hasData \in BOOLEAN
  /\ \E w \in Wishes, c \in Cares :
       /\ hasData => ~w["advertising"]
       /\ wanted = [s \in c |-> w[s]]
  /\ powered \in BOOLEAN
  /\ setting \in [Settings -> BOOLEAN]
  /\ fresh \in SUBSET (1 .. Instances)       \* an earlier process may have added them
  /\ info = Nothing /\ seen = Nothing        \* a static object
  /\ supported = 1 /\ misread = FALSE
  /\ at = "sync" /\ next = 1 /\ allAdded = TRUE
  /\ faults = 0

-----------------------------------------------------------------------------
(* What a command may come to.                                               *)

Fault(kind) ==
  /\ kind \in Faults /\ faults < MaxFaults
  /\ faults' = faults + 1

\* "this requries LE to already be enabled or this command will receive a
\* 'rejected' result"
Rejects(s) == s = "bredr" /\ ~setting["le"]

\* The command has its effect, or not, and sendCommand returns ok.
Command(effect, none, ok, rejected) ==
  \/ ok /\ ~rejected /\ effect /\ UNCHANGED faults
  \/ ~ok /\ rejected /\ none /\ UNCHANGED faults
  \/ ~ok /\ none /\ (Fault("refused") \/ Fault("unanswered"))
  \/ ~ok /\ ~rejected /\ effect /\ Fault("unanswered")

-----------------------------------------------------------------------------
(* configureAdapter                                                          *)

\* Mgmt's constructor: a reading that fails is logged, and info kept.
SyncsSettings ==
  /\ at = "sync"
  /\ \/ info' = Actual /\ UNCHANGED faults
     \/ UNCHANGED info /\ Fault("read")
  /\ misread' = (info' # Actual)
  /\ at' = "features"
  /\ UNCHANGED <<serverVars, controllerVars, supported, seen, next, allAdded>>

SyncsInstances ==
  /\ at = "features"
  /\ \/ supported' = Instances /\ UNCHANGED faults
     \/ UNCHANGED supported /\ Fault("read")
  /\ misread' = (misread \/ supported' # Instances)
  /\ at' = "compare"
  /\ UNCHANGED <<serverVars, controllerVars, info, seen, next, allAdded>>

\* The flag of a setting: is it as the server wants it?
IsFine(i, s) == s \in DOMAIN wanted => i.setting[s] = wanted[s]

\* HciAdapter::advertisingData is never written: data never compare equal.
FlagsAreSet(i) ==
  i.powered /\ ~hasData /\ \A s \in Settings : IsFine(i, s)

\* The local copy of controllerInformation decides all that follows.
Compares ==
  /\ at = "compare"
  /\ seen' = info
  /\ at' = IF FlagsAreSet(info) THEN "configured"
           ELSE IF info.powered THEN "off" ELSE "set"
  /\ next' = 1
  /\ UNCHANGED <<serverVars, controllerVars, readVars, allAdded, faults>>

\* Mutant: the retry goes on with the settings read before.
RetriesWithoutSync ==
  /\ at = "retry"
  /\ at' = "compare"
  /\ UNCHANGED <<serverVars, controllerVars, readVars, seen, next, allAdded, faults>>

\* setRetry, and the periodic timer after the delay.
Retries ==
  /\ at = "retry"
  /\ at' = "sync"
  /\ UNCHANGED <<serverVars, controllerVars, readVars, seen, next, allAdded, faults>>

PowersOff ==
  /\ at = "off"
  /\ \E ok \in BOOLEAN :
       /\ Command(powered' = FALSE, powered' = powered, ok, FALSE)
       /\ at' = IF ok THEN "set" ELSE "retry"
  /\ UNCHANGED <<serverVars, setting, fresh, readVars, seen, next, allAdded>>

\* Mutant: a command that fails is passed over.
SetsRegardless(s) ==
  /\ at = "set" /\ next \in DOMAIN Order /\ s = Order[next]
  /\ ~IsFine(seen, s)
  /\ \E ok \in BOOLEAN :
       Command(setting' = [setting EXCEPT ![s] = wanted[s]], setting' = setting,
               ok, Rejects(s))
  /\ next' = next + 1
  /\ UNCHANGED <<serverVars, powered, fresh, readVars, seen, at, allAdded>>

\* setLE, setBredr, setSecureConnections, ..., setName.
Sets(s) ==
  /\ at = "set" /\ next \in DOMAIN Order /\ s = Order[next]
  /\ ~IsFine(seen, s)
  /\ \E ok \in BOOLEAN :
       /\ Command(setting' = [setting EXCEPT ![s] = wanted[s]], setting' = setting,
                  ok, Rejects(s))
       /\ IF ok THEN next' = next + 1 /\ UNCHANGED at
                ELSE at' = "retry" /\ UNCHANGED next
  /\ UNCHANGED <<serverVars, powered, fresh, readVars, seen, allAdded>>

Skips(s) ==
  /\ at = "set" /\ next \in DOMAIN Order /\ s = Order[next]
  /\ IsFine(seen, s)
  /\ next' = next + 1
  /\ UNCHANGED <<serverVars, controllerVars, readVars, seen, at, allAdded, faults>>

\* The end of configureAdapter, after the data or without any.
PowersOn ==
  /\ at = "set" /\ next \notin DOMAIN Order
  /\ \E ok \in BOOLEAN :
       /\ Command(powered' = TRUE, powered' = powered, ok, FALSE)
       /\ at' = IF ~ok THEN "retry" ELSE IF hasData THEN "advertise" ELSE "configured"
  /\ next' = 1 /\ allAdded' = TRUE
  /\ UNCHANGED <<serverVars, setting, fresh, readVars, seen>>

\* setAdvertisingDataInstances goes on after an instance that fails.
AddsInstance ==
  /\ at = "advertise" /\ next <= supported
  /\ \E ok \in BOOLEAN :
       /\ Command(fresh' = fresh \cup {next}, fresh' = fresh, ok, FALSE)
       /\ allAdded' = (allAdded /\ ok)
  /\ next' = next + 1
  /\ UNCHANGED <<serverVars, powered, setting, readVars, seen, at>>

EndsAdvertising ==
  /\ at = "advertise" /\ next > supported
  /\ at' = IF allAdded THEN "configured" ELSE "retry"
  /\ UNCHANGED <<serverVars, controllerVars, readVars, seen, next, allAdded, faults>>

ConfigureAdapter ==
  \/ SyncsSettings \/ SyncsInstances \/ Compares \/ Retries \/ PowersOff
  \/ \E s \in Settings : Sets(s) \/ Skips(s)
  \/ PowersOn \/ AddsInstance \/ EndsAdvertising

\* The answer to the watchdog's command refreshes the information at any time.
WatchdogReads ==
  /\ info' = Actual
  /\ UNCHANGED <<serverVars, controllerVars, supported, misread, seen, at, next, allAdded,
                 faults>>

Next == ConfigureAdapter \/ WatchdogReads

Spec == Init /\ [][Next]_vars

\* The server thread goes on, and so does its periodic timer.
FairSpec == Spec /\ WF_vars(ConfigureAdapter)

-----------------------------------------------------------------------------
(* Properties.                                                               *)

TypeOK ==
  /\ wanted \in UNION {[c -> BOOLEAN] : c \in Cares}
  /\ {hasData, powered, allAdded, misread} \subseteq BOOLEAN
  /\ setting \in [Settings -> BOOLEAN]
  /\ fresh \subseteq 1 .. Instances
  /\ {info, seen} \subseteq [powered : BOOLEAN, setting : [Settings -> BOOLEAN]]
  /\ supported \in {1, Instances}
  /\ at \in {"sync", "features", "compare", "retry", "off", "set", "advertise",
             "configured"}
  /\ next \in Nat \ {0}
  /\ faults \in 0 .. MaxFaults

SettingsAreWanted == \A s \in Settings : IsFine(Actual, s)

AdapterIsWanted ==
  powered /\ SettingsAreWanted /\ (hasData => fresh = 1 .. Instances)

\* When the adapter is said to be configured, it is on, each setting is as the
\* server wants it and every instance carries its data, whatever commands failed
\* in this attempt's predecessors, if the attempt itself could read the adapter.
WellReadMeansWanted == at = "configured" /\ ~misread => AdapterIsWanted

\* An adapter that is as wanted and was read is not switched off, in a retry
\* either, when the server has no advertising data.
PlainSetUpIsLeftAlone ==
  [][AdapterIsWanted /\ ~hasData /\ ~misread => powered']_vars

\* The attempts end with a configured adapter once commands stop failing.
IsConfigured == <>(at = "configured")
=============================================================================

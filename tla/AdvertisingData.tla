--------------------------- MODULE AdvertisingData ---------------------------
(***************************************************************************)
(* The server's advertising data on their way to the controller: made by     *)
(* buildServices or set by the application (Server.cpp), applied by           *)
(* configureAdapter until it succeeds, and later by idleFunc once for each    *)
(* change (Init.cpp).  addAdvertisingInstance (Mgmt.cpp) walks over their     *)
(* sections, each a byte with its length and that many bytes, the first of    *)
(* which is its type, and leaves out the flags, which the kernel adds.        *)
(***************************************************************************)
EXTENDS Naturals, SequencesExt

CONSTANTS
  Data,        \* what the application may set before configureAdapter
  Updates,     \* what it may set after that
  Instances,   \* advertising instances that the controller supports
  Modulus,     \* the number of bytes: 256
  Limit,       \* bytes of an advertisement: 31
  Flags,       \* the type of a section of flags
  Name,        \* the type of a section with the local name
  MaxNames,    \* bound: the length of the advertising name
  MaxChanges,  \* bound: changes of the data
  MaxFaults    \* bound: commands that fail

Byte   == 0 .. Modulus - 1
Letter == Modulus - 1   \* what the letters of a name are here: not the type of flags

ASSUME DataAssumption ==
  /\ Data \subseteq Seq(Byte) /\ Updates \subseteq Seq(Byte)
  /\ Modulus \in Nat /\ Limit \in 3 .. Modulus - 2
  /\ Instances \in 1 .. Modulus - 1
  /\ Flags \in Byte \ {Letter} /\ Name \in Byte \ {Flags}
  /\ MaxNames \in Nat /\ MaxChanges \in Nat /\ MaxFaults \in Nat

\* buildServices: flags, and a name of n letters unless it is empty.  The length of
\* its section is cut to a byte.
DefaultData(n) ==
  <<2, Flags, 0>> \o
    (IF n = 0 THEN <<>>
     ELSE <<(n + 1) % Modulus, Name>> \o [i \in 1 .. n |-> Letter])

VARIABLES
  data,        \* Server::advertisingData
  pushed,      \* entries for them in the update queue
  phase,       \* "configuring", and "configured" when configureAdapter has
               \* succeeded, until the server is "running"
  at,          \* where the server thread is
  taken,       \* the copy that is being applied
  instance,    \* the instance that is next, a byte
  success,     \* of setAdvertisingDataInstances
  offset,      \* in addAdvertisingInstance: bytes behind us
  effective,   \*                            effectiveAdData
  advertised,  \* what the controller has for each instance, with its source (ghost)
  changes,     \* changes so far
  faults       \* faults so far

serverVars == <<data, pushed, changes>>
loopVars   == <<taken, instance, success>>
walkVars   == <<offset, effective>>
vars == <<serverVars, phase, at, loopVars, walkVars, advertised, faults>>

None == [source |-> <<>>, payload |-> <<Modulus>>]

Init ==
  /\ data \in Data \cup {DefaultData(n) : n \in 0 .. MaxNames}
  /\ pushed = 0 /\ changes = 0 /\ faults = 0
  /\ phase = "configuring" /\ at = "idle"
  /\ taken = <<>> /\ instance = 1 /\ success = TRUE
  /\ offset = 0 /\ effective = <<>>
  /\ advertised = [i \in 1 .. Instances |-> None]

-----------------------------------------------------------------------------
\* setAdvertisingData: the same data again change nothing, and only a running server
\* is told of a change.
SetsData(d) ==
  /\ d # data /\ changes < MaxChanges
  /\ data' = d /\ changes' = changes + 1
  /\ pushed' = IF phase = "running" THEN pushed + 1 ELSE pushed
  /\ UNCHANGED <<phase, at, loopVars, walkVars, advertised, faults>>

\* What is left of the initialisation.
StartsRunning ==
  /\ phase = "configured"
  /\ phase' = "running"
  /\ UNCHANGED <<serverVars, at, loopVars, walkVars, advertised, faults>>

\* Mutant: a retry applies the copy of the first attempt.
TakesFirstData ==
  /\ at = "idle"
  /\ \/ phase = "configuring" /\ at' = "configure" /\ pushed' = pushed
     \/ phase = "running" /\ at' = "loop" /\ pushed > 0 /\ pushed' = pushed - 1
  /\ taken' = (IF taken = <<>> THEN data ELSE taken)
  /\ instance' = 1 /\ success' = TRUE
  /\ UNCHANGED <<data, changes, phase, walkVars, advertised, faults>>

\* configureAdapter, or idleFunc with the entry it has popped.
TakesData ==
  /\ at = "idle"
  /\ \/ phase = "configuring" /\ at' = "configure" /\ pushed' = pushed
     \/ phase = "running" /\ at' = "loop" /\ pushed > 0 /\ pushed' = pushed - 1
  /\ taken' = data /\ instance' = 1 /\ success' = TRUE
  /\ UNCHANGED <<data, changes, phase, walkVars, advertised, faults>>

\* One of the commands before the data fails: configureAdapter is tried again.
ConfigurationFails ==
  /\ at = "configure"
  /\ faults < MaxFaults /\ faults' = faults + 1
  /\ at' = "idle"
  /\ UNCHANGED <<serverVars, phase, loopVars, walkVars, advertised>>

\* They have succeeded, and there were data when configureAdapter began.
AppliesData ==
  /\ at = "configure" /\ taken # <<>>
  /\ at' = "loop"
  /\ UNCHANGED <<serverVars, phase, loopVars, walkVars, advertised, faults>>

\* They have succeeded, and there were no data: nobody looks whether there are now.
NeedsNoData ==
  /\ at = "configure" /\ taken = <<>>
  /\ at' = "idle" /\ phase' = "configured"
  /\ UNCHANGED <<serverVars, loopVars, walkVars, advertised, faults>>

BeginsInstance ==
  /\ at = "loop" /\ instance <= Instances
  /\ at' = "walk" /\ offset' = 0 /\ effective' = <<>>
  /\ UNCHANGED <<serverVars, phase, loopVars, advertised, faults>>

\* Mutant: the last instance decides.
EndsLastInstance(ok) ==
  /\ at' = "loop"
  /\ instance' = (instance + 1) % Modulus
  /\ success' = ok
  /\ UNCHANGED <<serverVars, phase, taken, walkVars>>

\* The loop counts in a byte.
EndsInstance(ok) ==
  /\ at' = "loop"
  /\ instance' = (instance + 1) % Modulus
  /\ success' = (success /\ ok)
  /\ UNCHANGED <<serverVars, phase, taken, walkVars>>

SectionLength == taken[offset + 1]
Section       == SubSeq(taken, offset + 1, offset + SectionLength + 1)

\* Mutant: a section that is left out is not looked at.
IsMalformedUnlessFlags ==
  \/ SectionLength = 0
  \/ /\ offset + SectionLength + 1 > Len(taken)
     /\ ~(offset + 2 <= Len(taken) /\ taken[offset + 2] = Flags)

IsMalformed == SectionLength = 0 \/ offset + SectionLength + 1 > Len(taken)

InWalk == at = "walk" /\ offset < Len(taken)

RefusesSection ==
  /\ InWalk /\ IsMalformed
  /\ EndsInstance(FALSE)
  /\ UNCHANGED <<advertised, faults>>

\* Mutant: the flags are kept.
KeepsSection ==
  /\ InWalk /\ ~IsMalformed
  /\ effective' = effective \o Section
  /\ offset' = offset + SectionLength + 1
  /\ UNCHANGED <<serverVars, phase, at, loopVars, advertised, faults>>

TakesSection ==
  /\ InWalk /\ ~IsMalformed
  /\ effective' = IF taken[offset + 2] = Flags THEN effective ELSE effective \o Section
  /\ offset' = offset + SectionLength + 1
  /\ UNCHANGED <<serverVars, phase, at, loopVars, advertised, faults>>

WalkEnds == at = "walk" /\ offset >= Len(taken)

RefusesSize ==
  /\ WalkEnds /\ Len(effective) > Limit
  /\ EndsInstance(FALSE)
  /\ UNCHANGED <<advertised, faults>>

Advertises ==
  /\ WalkEnds /\ Len(effective) <= Limit /\ instance # 0
  /\ advertised' = [advertised EXCEPT ![instance] =
                      [source |-> taken, payload |-> effective]]
  /\ EndsInstance(TRUE)
  /\ UNCHANGED faults

\* The controller refuses instance 0, and now and then another.
CommandFails ==
  /\ WalkEnds /\ Len(effective) <= Limit
  /\ instance # 0 => faults < MaxFaults
  /\ faults' = IF instance = 0 THEN faults ELSE faults + 1
  /\ EndsInstance(FALSE)
  /\ UNCHANGED advertised

LoopEnds == at = "loop" /\ instance > Instances

\* Mutant: what could not be advertised is only logged, as it is later.
ConfiguresAnyway ==
  /\ LoopEnds
  /\ at' = "idle" /\ phase' = IF phase = "configuring" THEN "configured" ELSE phase
  /\ UNCHANGED <<serverVars, loopVars, walkVars, advertised, faults>>

\* configureAdapter is tried again after a failure, idleFunc only logs it.
EndsUpdate ==
  /\ LoopEnds
  /\ at' = "idle"
  /\ phase' = IF phase = "configuring" /\ success THEN "configured" ELSE phase
  /\ UNCHANGED <<serverVars, loopVars, walkVars, advertised, faults>>

ServerStep ==
  \/ TakesData \/ ConfigurationFails \/ NeedsNoData \/ AppliesData \/ StartsRunning
  \/ BeginsInstance \/ RefusesSection \/ TakesSection
  \/ RefusesSize \/ Advertises \/ CommandFails \/ EndsUpdate

Next == ServerStep \/ \E d \in Updates : SetsData(d)

Spec == Init /\ [][Next]_vars

\* The server thread goes on, and so does the timer that ends its retries.
FairSpec == Spec /\ WF_vars(ServerStep)

-----------------------------------------------------------------------------
(* What the sections of some data are, without a walk: the offsets at which   *)
(* they begin, with the end.                                                 *)

AreCuts(d, cuts) ==
  /\ {0, Len(d)} \subseteq cuts
  /\ \A c \in cuts \ {Len(d)} :
       LET next == c + d[c + 1] + 1
       IN d[c + 1] > 0 /\ next \in cuts /\ \A o \in cuts : o <= c \/ next <= o

Cuttings(d) == {cuts \in SUBSET (0 .. Len(d)) : AreCuts(d, cuts)}

\* The bytes of the sections that are no flags: a section begins with its length and
\* its type.
TypeOf(d, cuts, i) == d[Max({c \in cuts : c < i}) + 2]
Kept(d, cuts)      == {i \in 1 .. Len(d) : TypeOf(d, cuts, i) # Flags}

IsAcceptable(d) == \E cuts \in Cuttings(d) : Cardinality(Kept(d, cuts)) <= Limit

\* p is made of the bytes of d at the places S, in their order.
IsRestOf(p, d, S) ==
  /\ DOMAIN p = 1 .. Cardinality(S)
  /\ \A i \in S : p[Cardinality({k \in S : k <= i})] = d[i]

-----------------------------------------------------------------------------
(* Properties.                                                               *)

TypeOK ==
  /\ data \in Seq(Byte) /\ taken \in Seq(Byte) /\ effective \in Seq(Byte)
  /\ success \in BOOLEAN /\ pushed \in 0 .. changes
  /\ phase \in {"configuring", "configured", "running"}
  /\ at \in {"idle", "configure", "loop", "walk"}
  /\ instance \in Byte /\ (at = "walk" => instance <= Instances)
  /\ offset \in Nat
  /\ advertised \in [1 .. Instances ->
                      [source : Seq(Byte), payload : Seq(0 .. Modulus)]]
  /\ changes \in 0 .. MaxChanges /\ faults \in 0 .. MaxFaults

\* The walk never reads behind the end of the data, and what it keeps is never more
\* than what it has passed, however the lengths in the data lie.
StaysInside == at = "walk" => offset <= Len(taken) /\ Len(effective) <= offset

\* What the controller has of an instance was made of whole sections, from data that
\* end where a section ends, and fits in an advertisement.
AdvertisesWholeSections ==
  \A i \in 1 .. Instances :
    LET a == advertised[i]
    IN a # None => Cuttings(a.source) # {} /\ Len(a.payload) <= Limit

\* It is all of these data but their flags.
OnlyFlagsAreLeftOut ==
  \A i \in 1 .. Instances :
    LET a == advertised[i]
    IN a # None => \E cuts \in Cuttings(a.source) :
                     IsRestOf(a.payload, a.source, Kept(a.source, cuts))

\* An update that succeeds has brought the same data to every instance.
SuccessReachesAll ==
  LoopEnds /\ success => \A i \in 1 .. Instances : advertised[i].source = taken

\* The initialisation does not end with data that are not acceptable, whatever the
\* application sets while the adapter is being configured: an attempt that ends it
\* began without data, or it has brought acceptable ones to every instance...
NeedsGoodData ==
  [][phase = "configuring" /\ phase' = "configured" =>
       taken = <<>> \/ (LoopEnds /\ success /\ IsAcceptable(taken))]_vars

\* ... and it ends as soon as the application sets acceptable ones.
GoodDataEndRetries ==
  (phase = "configuring" /\ IsAcceptable(data)) ~>
    (phase # "configuring" \/ ~IsAcceptable(data))
=============================================================================

------------------------ MODULE AdvertisingData_proofs ------------------------
(***************************************************************************)
(* Proofs about AdvertisingData, for any data, names, numbers of instances    *)
(* and faults: the walk over the sections stays inside the data, whatever     *)
(* reaches the controller was made of whole sections and fits, and an update  *)
(* that succeeds has reached every instance.                                  *)
(***************************************************************************)
EXTENDS AdvertisingData, Integers, FiniteSetTheorems, SequenceTheorems,
        WellFoundedInduction, TLAPS

\* The sections of the first n bytes, as AreCuts has them for all of the data.
AreCutsUpTo(d, n, cuts) ==
  /\ {0, n} \subseteq cuts /\ cuts \subseteq 0 .. n
  /\ \A c \in cuts \ {n} :
       LET next == c + d[c + 1] + 1
       IN d[c + 1] > 0 /\ next \in cuts /\ \A o \in cuts : o <= c \/ next <= o

\* The bytes passed whose sections are no flags.
KeptUpTo(d, n, cuts) == {i \in 1 .. n : TypeOf(d, cuts, i) # Flags}

\* What the walk has passed are whole sections, and it has kept those that are no flags.
PassedSections ==
  at = "walk" => \E cuts \in SUBSET Nat :
                   /\ AreCutsUpTo(taken, offset, cuts)
                   /\ IsRestOf(effective, taken, KeptUpTo(taken, offset, cuts))

\* While no instance has failed, those behind the loop have the data.
PassedInstances ==
  at # "idle" /\ success =>
    \A i \in 1 .. Instances :
      i < instance => advertised[i].source = taken /\ advertised[i] # None

IInv ==
  /\ TypeOK /\ StaysInside /\ PassedSections /\ PassedInstances
  /\ AdvertisesWholeSections /\ OnlyFlagsAreLeftOut

\* A byte is a number, and the sum of three is more than the last.
LEMMA Numbers == /\ Modulus \in Nat /\ Modulus >= 5 /\ Byte \subseteq Nat
                 /\ Instances \in Nat /\ Instances < Modulus /\ 1 <= Instances
                 /\ 0 \in Byte /\ 1 \in Byte
BY DataAssumption DEF Byte

\* What buildServices makes are bytes, however long the name is.
LEMMA DefaultDataIsData ==
  ASSUME NEW n \in Nat
  PROVE  DefaultData(n) \in Seq(Byte)
<1>1. <<2, Flags, 0>> \in Seq(Byte)
  BY Numbers, DataAssumption DEF Byte
<1>2. <<(n + 1) % Modulus, Name>> \in Seq(Byte)
  BY Numbers, DataAssumption DEF Byte
<1>3. [i \in 1 .. n |-> Letter] \in Seq(Byte)
  BY Numbers DEF Byte, Letter
<1>4. <<(n + 1) % Modulus, Name>> \o [i \in 1 .. n |-> Letter] \in Seq(Byte)
  BY <1>2, <1>3, ConcatProperties
<1> QED BY <1>1, <1>4, ConcatProperties DEF DefaultData

\* A section that is not malformed, seen from inside the walk.
LEMMA SectionLemma ==
  ASSUME TypeOK, InWalk, ~IsMalformed
  PROVE  /\ SectionLength \in Byte /\ SectionLength \in Nat \ {0}
         /\ offset + SectionLength + 1 <= Len(taken)
         /\ Section \in Seq(Byte) /\ Len(Section) = SectionLength + 1
<1>1. taken \in Seq(Byte) /\ offset \in Nat /\ offset < Len(taken)
  BY DEF TypeOK, InWalk
<1>2. SectionLength \in Byte
  BY <1>1 DEF SectionLength
<1>3. SectionLength \in Nat \ {0} /\ offset + SectionLength + 1 <= Len(taken)
  BY <1>1, <1>2, Numbers DEF IsMalformed
<1>4. offset + 1 \in 1 .. Len(taken) + 1 /\ offset + SectionLength + 1 \in offset .. Len(taken)
  BY <1>1, <1>3
<1>5. Section \in Seq(Byte) /\ Len(Section) = SectionLength + 1
  BY <1>1, <1>3, <1>4, SubSeqProperties DEF Section
<1> QED BY <1>2, <1>3, <1>5

\* Bytes with or without a section of n bytes and its length.
LEMMA KeptLemma ==
  ASSUME NEW S, NEW s \in Seq(S), NEW t \in Seq(S), NEW n \in Nat, Len(t) = n + 1,
         NEW u, u = s \/ u = s \o t
  PROVE  u \in Seq(S) /\ Len(u) <= Len(s) + n + 1 /\ Len(s) \in Nat
<1>1. Len(s) \in Nat
  OBVIOUS
<1>2. s \o t \in Seq(S) /\ Len(s \o t) = Len(s) + Len(t)
  BY ConcatProperties, Zenon
<1>3. Len(s \o t) = Len(s) + n + 1
  BY <1>1, <1>2
<1>4. CASE u = s
  BY <1>1, <1>4
<1>5. CASE u = s \o t
  BY <1>1, <1>2, <1>3, <1>5
<1> QED BY <1>4, <1>5

\* The sections passed, with the next one.
LEMMA CutsGrow ==
  ASSUME NEW d \in Seq(Nat), NEW n \in Nat, n < Len(d), d[n + 1] > 0,
         NEW cuts \in SUBSET Nat, AreCutsUpTo(d, n, cuts)
  PROVE  AreCutsUpTo(d, n + d[n + 1] + 1, cuts \cup {n + d[n + 1] + 1})
<1> DEFINE m == n + d[n + 1] + 1
<1>1. d[n + 1] \in Nat
  OBVIOUS
<1>2. m \in Nat /\ n < m
  BY <1>1
<1>3. ASSUME NEW c \in (cuts \cup {m}) \ {m}
      PROVE  LET next == c + d[c + 1] + 1
             IN /\ d[c + 1] > 0 /\ next \in cuts \cup {m}
                /\ \A o \in cuts \cup {m} : o <= c \/ next <= o
  <2>1. CASE c = n
    <3>1. \A o \in cuts : o <= n
      BY DEF AreCutsUpTo
    <3> QED BY <2>1, <3>1, <1>1, <1>2
  <2>2. CASE c # n
    <3>1. c \in cuts \ {n}
      BY <1>3, <2>2
    <3>2. /\ d[c + 1] > 0 /\ c + d[c + 1] + 1 \in cuts
          /\ \A o \in cuts : o <= c \/ c + d[c + 1] + 1 <= o
      BY <3>1 DEF AreCutsUpTo
    <3>3. c + d[c + 1] + 1 <= m
      BY <3>2, <1>2 DEF AreCutsUpTo
    <3> QED BY <3>2, <3>3
  <2> QED BY <2>1, <2>2
<1>4. {0, m} \subseteq cuts \cup {m} /\ cuts \cup {m} \subseteq 0 .. m
  <2>1. 0 \in cuts /\ \A o \in cuts : o \in 0 .. n
    BY DEF AreCutsUpTo
  <2>2. 0 .. n \subseteq 0 .. m /\ m \in 0 .. m
    BY <1>2
  <2> QED BY <2>1, <2>2
<1> QED BY <1>3, <1>4 DEF AreCutsUpTo

\* Every set of numbers has a least one.
LEMMA LeastNatural ==
  ASSUME NEW S \in SUBSET Nat, S # {}
  PROVE  \E x \in S : \A y \in S : x <= y
<1> DEFINE R == {p \in Nat \X Nat : p[1] < p[2]}
<1>1. IsWellFoundedOn(R, Nat)
  <2>1. OpToRel(<, Nat) = R
    BY DEF OpToRel
  <2> QED BY <2>1, NatLessThanWellFounded
<1>2. PICK x \in S : \A y \in S : ~(<<y, x>> \in R)
  BY <1>1, WFMin
<1>3. ASSUME NEW y \in S PROVE x <= y
  <2>1. <<y, x>> \in Nat \X Nat /\ ~(y < x)
    BY <1>2
  <2> QED BY <2>1
<1> QED BY <1>3

\* ... and a greatest one if it is bounded, which is the one that Max chooses.
LEMMA MaxLemma ==
  ASSUME NEW n \in Nat, NEW S \in SUBSET (0 .. n), S # {}
  PROVE  Max(S) \in S /\ \A y \in S : y <= Max(S)
<1> DEFINE T == {n - y : y \in S}
<1>1. T \in SUBSET Nat /\ T # {}
  <2>1. \A y \in S : n - y \in Nat /\ n - y \in T
    OBVIOUS
  <2> QED BY <2>1
<1>2. PICK x \in T : \A y \in T : x <= y
  BY <1>1, LeastNatural
<1>3. PICK m \in S : x = n - m
  OBVIOUS
<1>4. \A y \in S : m >= y
  BY <1>2, <1>3
<1>5. Max(S) \in S /\ \A y \in S : Max(S) >= y
  BY <1>4 DEF Max
<1> QED BY <1>5

\* The type of the bytes of a section is the one behind its length.
LEMMA TypeLemma ==
  ASSUME NEW d, NEW n \in Nat, NEW cuts \in SUBSET (0 .. n),
         NEW c \in cuts, NEW i \in Nat, c < i, \A o \in cuts : o <= c \/ i <= o
  PROVE  TypeOf(d, cuts, i) = d[c + 2]
<1> DEFINE T == {k \in cuts : k < i}
<1>1. T \in SUBSET (0 .. n) /\ c \in T
  OBVIOUS
<1>2. T # {} /\ Max(T) \in T /\ c <= Max(T)
  BY <1>1, MaxLemma
<1>3. PICK m \in cuts : m = Max(T) /\ m < i
  BY <1>2
<1>4. m = c
  BY <1>2, <1>3
<1> QED BY <1>3, <1>4 DEF TypeOf

\* The bytes passed that are kept, with the next section.
LEMMA KeptGrows ==
  ASSUME NEW d \in Seq(Nat), NEW n \in Nat, n < Len(d), d[n + 1] > 0,
         NEW cuts \in SUBSET Nat, AreCutsUpTo(d, n, cuts)
  PROVE  LET m == n + d[n + 1] + 1
         IN KeptUpTo(d, m, cuts \cup {m}) =
              KeptUpTo(d, n, cuts) \cup (IF d[n + 2] = Flags THEN {} ELSE n + 1 .. m)
<1> DEFINE m    == n + d[n + 1] + 1
           next == cuts \cup {m}
<1>1. m \in Nat /\ n < m
  OBVIOUS
<1>2. cuts \in SUBSET (0 .. n) /\ n \in cuts
  BY DEF AreCutsUpTo
<1>3. next \in SUBSET (0 .. m)
  <2>1. 0 .. n \subseteq 0 .. m /\ m \in 0 .. m
    BY <1>1
  <2> QED BY <1>2, <2>1
<1>4. ASSUME NEW i \in 1 .. n PROVE TypeOf(d, next, i) = TypeOf(d, cuts, i)
  <2>1. {k \in next : k < i} = {k \in cuts : k < i}
    BY <1>1
  <2> QED BY <2>1 DEF TypeOf
<1>5. ASSUME NEW i \in n + 1 .. m PROVE TypeOf(d, next, i) = d[n + 2]
  <2>1. \A o \in next : o <= n \/ i <= o
    BY <1>1, <1>2
  <2>2. i \in Nat /\ n < i /\ n \in next
    BY <1>1, <1>2
  <2> HIDE DEF next, m
  <2> QED BY <1>1, <1>3, <2>1, <2>2, TypeLemma
<1>6. 1 .. m = (1 .. n) \cup (n + 1 .. m)
  BY <1>1
<1> HIDE DEF next, m
<1>7. KeptUpTo(d, m, next) = {i \in 1 .. n : TypeOf(d, cuts, i) # Flags}
                             \cup {i \in n + 1 .. m : d[n + 2] # Flags}
  BY <1>4, <1>5, <1>6 DEF KeptUpTo
<1>8. KeptUpTo(d, m, next) =
        KeptUpTo(d, n, cuts) \cup (IF d[n + 2] = Flags THEN {} ELSE n + 1 .. m)
  BY <1>7 DEF KeptUpTo
<1> QED BY <1>8 DEF next, m

\* A rest of some data, with the bytes that follow.
LEMMA RestGrows ==
  ASSUME NEW X, NEW d \in Seq(X), NEW p \in Seq(X),
         NEW a \in Nat, NEW b \in Nat, a <= b, b <= Len(d),
         NEW S \in SUBSET (1 .. a), IsRestOf(p, d, S)
  PROVE  IsRestOf(p \o SubSeq(d, a + 1, b), d, S \cup (a + 1 .. b))
<1> DEFINE t == SubSeq(d, a + 1, b)
           q == p \o t
           T == S \cup (a + 1 .. b)
<1>1. /\ t \in Seq(X) /\ Len(t) = b - a
      /\ \A i \in 1 .. b - a : t[i] = d[a + i]
  <2>1. \A i \in a + 1 .. b : d[i] \in X
    OBVIOUS
  <2>2. a + 1 \in Int /\ b \in Int
    OBVIOUS
  <2>3. /\ t \in Seq(X) /\ Len(t) = (IF a + 1 <= b THEN b - (a + 1) + 1 ELSE 0)
        /\ \A i \in 1 .. b - (a + 1) + 1 : t[i] = d[(a + 1) + i - 1]
    BY <2>1, <2>2, SubSeqProperties
  <2> HIDE DEF t
  <2>4. Len(t) = b - a
    BY <2>3
  <2>5. \A i \in 1 .. b - a : t[i] = d[a + i]
    BY <2>3
  <2> QED BY <2>3, <2>4, <2>5
<1>2. /\ DOMAIN q = 1 .. Len(p) + (b - a)
      /\ \A i \in 1 .. Len(p) + (b - a) : q[i] = IF i <= Len(p) THEN p[i] ELSE t[i - Len(p)]
  <2> HIDE DEF t
  <2>1. /\ q \in Seq(X) /\ Len(q) = Len(p) + (b - a)
        /\ \A i \in 1 .. Len(p) + (b - a) : q[i] = IF i <= Len(p) THEN p[i] ELSE t[i - Len(p)]
    <3>1. /\ q \in Seq(X) /\ Len(q) = Len(p) + Len(t)
          /\ \A i \in 1 .. Len(p) + Len(t) : q[i] = IF i <= Len(p) THEN p[i] ELSE t[i - Len(p)]
      BY <1>1, ConcatProperties, Zenon
    <3> QED BY <1>1, <3>1
  <2> QED BY <2>1
<1>3. /\ IsFiniteSet(S) /\ Cardinality(S) \in Nat /\ Len(p) = Cardinality(S)
  <2>1. IsFiniteSet(S)
    <3>1. IsFiniteSet(1 .. a)
      BY FS_Interval
    <3> QED BY <3>1, FS_Subset
  <2>2. Cardinality(S) \in Nat
    BY <2>1, FS_CardinalityType
  <2> QED BY <2>1, <2>2 DEF IsRestOf
<1>4. ASSUME NEW i \in a .. b
      PROVE  Cardinality(S \cup (a + 1 .. i)) = Cardinality(S) + i - a
  <2>1. S \cap (a + 1 .. i) = {}
    OBVIOUS
  <2>2. IsFiniteSet(a + 1 .. i) /\ Cardinality(a + 1 .. i) = i - a
    <3>1. a + 1 \in Int /\ i \in Int
      OBVIOUS
    <3>2. IsFiniteSet(a + 1 .. i)
          /\ Cardinality(a + 1 .. i) = (IF a + 1 > i THEN 0 ELSE i - (a + 1) + 1)
      BY <3>1, FS_Interval
    <3>3. (IF a + 1 > i THEN 0 ELSE i - (a + 1) + 1) = i - a
      OBVIOUS
    <3> QED BY <3>2, <3>3
  <2>3. Cardinality(S \cap (a + 1 .. i)) = 0
    BY <2>1, FS_EmptySet
  <2>4. Cardinality(S \cup (a + 1 .. i)) =
          Cardinality(S) + Cardinality(a + 1 .. i) - Cardinality(S \cap (a + 1 .. i))
    BY <1>3, <2>2, FS_Union
  <2> QED BY <1>3, <2>2, <2>3, <2>4
<1>5. ASSUME NEW i \in S PROVE q[Cardinality({k \in T : k <= i})] = d[i]
  <2> DEFINE K == {k \in S : k <= i}
  <2>1. {k \in T : k <= i} = K
    OBVIOUS
  <2>2. IsFiniteSet(K) /\ Cardinality(K) <= Cardinality(S) /\ K # {}
    <3>1. K \in SUBSET S /\ i \in K
      OBVIOUS
    <3> QED BY <1>3, <3>1, FS_Subset
  <2>3. Cardinality(K) \in 1 .. Cardinality(S)
    <3>1. Cardinality(K) \in Nat /\ Cardinality(K) # 0
      BY <2>2, FS_EmptySet, FS_CardinalityType
    <3> QED BY <1>3, <2>2, <3>1
  <2>4. p[Cardinality(K)] = d[i]
    BY DEF IsRestOf
  <2>5. Cardinality(K) \in 1 .. Len(p) + (b - a) /\ Cardinality(K) <= Len(p)
    BY <1>3, <2>3
  <2> HIDE DEF q, K, T
  <2>6. q[Cardinality(K)] = p[Cardinality(K)]
    BY <1>2, <2>5
  <2> QED BY <2>1, <2>4, <2>6
<1>6. ASSUME NEW i \in a + 1 .. b PROVE q[Cardinality({k \in T : k <= i})] = d[i]
  <2>1. {k \in T : k <= i} = S \cup (a + 1 .. i)
    <3>1. \A k \in S : k \in Int /\ k <= i
      OBVIOUS
    <3>2. \A k \in Int : k \in a + 1 .. i <=> k \in a + 1 .. b /\ k <= i
      OBVIOUS
    <3>3. \A k : k \in a + 1 .. b => k \in Int
      OBVIOUS
    <3>4. \A k : k \in a + 1 .. i => k \in Int
      OBVIOUS
    <3> QED BY <3>1, <3>2, <3>3, <3>4
  <2>2. Cardinality({k \in T : k <= i}) = Cardinality(S) + i - a
    <3>1. Cardinality(S \cup (a + 1 .. i)) = Cardinality(S) + i - a
      BY <1>4
    <3> HIDE DEF T
    <3> QED BY <2>1, <3>1, Zenon
  <2> HIDE DEF q, T, t
  <2>3. q[Cardinality(S) + i - a] = t[i - a]
    <3>1. PICK j \in 1 .. Len(p) + (b - a) :
            j = Cardinality(S) + i - a /\ ~(j <= Len(p)) /\ j - Len(p) = i - a
      BY <1>3
    <3>2. q[j] = t[j - Len(p)]
      BY <1>2, <3>1
    <3> QED BY <3>1, <3>2
  <2>4. t[i - a] = d[i]
    <3>1. PICK j \in 1 .. b - a : j = i - a /\ a + j = i
      OBVIOUS
    <3> QED BY <1>1, <3>1
  <2> QED BY <2>2, <2>3, <2>4
<1>7. Cardinality(T) = Cardinality(S) + b - a
  BY <1>4
<1> HIDE DEF q, T
<1>8. IsRestOf(q, d, T)
  <2>1. DOMAIN q = 1 .. Cardinality(T)
    BY <1>2, <1>3, <1>7
  <2>2. \A i \in T : i \in S \/ i \in a + 1 .. b
    BY DEF T
  <2> QED BY <1>5, <1>6, <2>1, <2>2 DEF IsRestOf
<1> QED BY <1>8 DEF q, T

\* The initial state.
LEMMA InitInv == Init => IInv
<1> SUFFICES ASSUME Init PROVE IInv
  OBVIOUS
<1>1. data \in Seq(Byte)
  BY DefaultDataIsData, DataAssumption DEF Init
<1>2. <<>> \in Seq(Byte)
  OBVIOUS
<1>3. None \in [source : Seq(Byte), payload : Seq(0 .. Modulus)]
  BY Numbers DEF None
<1>4. TypeOK
  BY <1>1, <1>2, <1>3, Numbers, DataAssumption DEF Init, TypeOK
<1>5. StaysInside /\ PassedSections /\ PassedInstances /\ AdvertisesWholeSections
     /\ OnlyFlagsAreLeftOut
  BY DEF Init, StaysInside, PassedSections, PassedInstances, AdvertisesWholeSections, OnlyFlagsAreLeftOut
<1> QED BY <1>4, <1>5 DEF IInv

\* The loop goes on with the next instance, which is 0 after the last byte.
LEMMA EndsInstanceLemma ==
  ASSUME TypeOK, at = "walk", NEW ok \in BOOLEAN, EndsInstance(ok)
  PROVE  /\ instance \in 0 .. Instances /\ instance' \in Byte
         /\ instance' = instance + 1 \/ instance' = 0
         /\ success' \in BOOLEAN /\ (success' => success /\ ok)
         /\ at' = "loop" /\ UNCHANGED <<data, pushed, changes, phase, taken, offset, effective>>
<1>1. instance \in 0 .. Instances /\ instance \in Byte
  BY Numbers DEF TypeOK, Byte
<1>2. instance' = instance + 1 \/ instance' = 0
  <2>1. instance' = (instance + 1) % Modulus
    BY DEF EndsInstance
  <2>2. CASE instance + 1 = Modulus
    BY <2>1, <2>2, Numbers
  <2>3. CASE instance + 1 # Modulus
    <3>1. instance + 1 < Modulus
      BY <1>1, <2>3, Numbers DEF Byte
    <3> QED BY <1>1, <2>1, <3>1, Numbers
  <2> QED BY <2>2, <2>3
<1>3. instance' \in Byte
  BY <1>1, Numbers DEF EndsInstance, Byte
<1> QED BY <1>1, <1>2, <1>3 DEF EndsInstance, serverVars, walkVars, TypeOK

\* Every action keeps the invariant.
LEMMA NextInv == IInv /\ [Next]_vars => IInv'
<1> SUFFICES ASSUME IInv, [Next]_vars PROVE IInv'
  OBVIOUS
<1> USE DEF IInv
<1> DEFINE Others == StaysInside /\ PassedSections /\ PassedInstances
                     /\ AdvertisesWholeSections /\ OnlyFlagsAreLeftOut
<1>1. ASSUME UNCHANGED <<at, loopVars, walkVars, advertised>>
      PROVE  Others'
  BY <1>1 DEF StaysInside, PassedSections, PassedInstances, AdvertisesWholeSections, OnlyFlagsAreLeftOut,
     loopVars, walkVars
<1>2. ASSUME NEW d \in Updates, SetsData(d) PROVE IInv'
  <2>1. /\ data' \in Seq(Byte) /\ changes' = changes + 1 /\ changes' \in 0 .. MaxChanges
        /\ pushed' \in 0 .. changes'
    BY <1>2, DataAssumption DEF TypeOK, SetsData
  <2>2. TypeOK'
    BY <1>2, <2>1 DEF TypeOK, SetsData, loopVars, walkVars
  <2> QED BY <2>2, <1>1, <1>2 DEF SetsData
<1>3. CASE StartsRunning
  <2>1. TypeOK'
    BY <1>3 DEF TypeOK, StartsRunning, serverVars, loopVars, walkVars
  <2> QED BY <2>1, <1>1, <1>3 DEF StartsRunning
<1>4. CASE TakesData
  <2>1. TypeOK'
    BY <1>4, Numbers DEF TypeOK, TakesData, walkVars
  <2>2. at' # "walk" /\ instance' = 1 /\ advertised' = advertised
    BY <1>4 DEF TakesData
  <2>3. PassedInstances'
    BY <2>2, Numbers DEF PassedInstances
  <2> QED BY <2>1, <2>2, <2>3 DEF StaysInside, PassedSections, AdvertisesWholeSections,
             OnlyFlagsAreLeftOut
<1>13. CASE NeedsNoData
  <2>1. TypeOK'
    BY <1>13 DEF TypeOK, NeedsNoData, serverVars, loopVars, walkVars
  <2> QED BY <2>1, <1>13 DEF NeedsNoData, StaysInside, PassedSections, PassedInstances,
             AdvertisesWholeSections, OnlyFlagsAreLeftOut, loopVars, walkVars
<1>14. CASE ConfigurationFails
  <2>1. faults' \in 0 .. MaxFaults
    BY <1>14, DataAssumption DEF ConfigurationFails, TypeOK
  <2>2. TypeOK'
    BY <1>14, <2>1 DEF TypeOK, ConfigurationFails, serverVars, loopVars, walkVars
  <2> QED BY <2>2, <1>14 DEF ConfigurationFails, StaysInside, PassedSections, PassedInstances,
             AdvertisesWholeSections, OnlyFlagsAreLeftOut, loopVars, walkVars
<1>15. CASE AppliesData
  <2>1. TypeOK'
    BY <1>15 DEF TypeOK, AppliesData, serverVars, loopVars, walkVars
  <2> QED BY <2>1, <1>15 DEF AppliesData, StaysInside, PassedSections, PassedInstances,
             AdvertisesWholeSections, OnlyFlagsAreLeftOut, loopVars, walkVars
<1>5. CASE BeginsInstance
  <2>1. TypeOK'
    BY <1>5, Numbers DEF TypeOK, BeginsInstance, serverVars, loopVars
  <2>2. StaysInside' /\ PassedInstances' /\ AdvertisesWholeSections' /\ OnlyFlagsAreLeftOut'
    BY <1>5 DEF BeginsInstance, StaysInside, PassedInstances, AdvertisesWholeSections, OnlyFlagsAreLeftOut,
       TypeOK, loopVars
  <2>3. AreCutsUpTo(taken', 0, {0})
    BY DEF AreCutsUpTo
  <2>4. IsRestOf(<<>>, taken', KeptUpTo(taken', 0, {0}))
    <3>1. KeptUpTo(taken', 0, {0}) = {}
      BY DEF KeptUpTo
    <3>2. IsRestOf(<<>>, taken', {})
      <4>1. DOMAIN <<>> = 1 .. 0 /\ Cardinality({}) = 0
        BY FS_EmptySet
      <4> QED BY <4>1 DEF IsRestOf
    <3> QED BY <3>1, <3>2
  <2> QED BY <2>1, <2>2, <2>3, <2>4, <1>5 DEF BeginsInstance, PassedSections
<1>6. ASSUME InWalk \/ WalkEnds, EndsInstance(FALSE), UNCHANGED advertised,
             faults' \in 0 .. MaxFaults
      PROVE  IInv'
  <2>1. at = "walk"
    BY <1>6 DEF InWalk, WalkEnds
  <2>2. /\ instance' \in Byte /\ ~success' /\ success' \in BOOLEAN
        /\ at' = "loop" /\ UNCHANGED <<data, pushed, changes, phase, taken, offset, effective>>
    BY <1>6, <2>1, EndsInstanceLemma
  <2>3. TypeOK'
    BY <1>6, <2>2 DEF TypeOK
  <2> QED BY <2>2, <2>3, <1>6 DEF StaysInside, PassedSections, PassedInstances,
             AdvertisesWholeSections, OnlyFlagsAreLeftOut
<1>7. CASE TakesSection
  <2> DEFINE n == offset + SectionLength + 1
  <2>1. /\ SectionLength \in Nat \ {0} /\ n <= Len(taken) /\ offset < Len(taken)
        /\ Section \in Seq(Byte) /\ Len(Section) = SectionLength + 1
    BY <1>7, SectionLemma DEF TakesSection, InWalk
  <2>2. /\ offset' = n /\ at = "walk" /\ at' = "walk"
        /\ UNCHANGED <<data, pushed, changes, phase, taken, instance, success, advertised, faults>>
    BY <1>7 DEF TakesSection, InWalk, serverVars, loopVars
  <2>3. effective' = effective \/ effective' = effective \o Section
    BY <1>7 DEF TakesSection
  <2>4. /\ effective' \in Seq(Byte) /\ Len(effective') <= Len(effective) + SectionLength + 1
        /\ Len(effective) \in Nat
    <3>1. effective \in Seq(Byte)
      BY DEF TypeOK
    <3> QED BY <2>1, <2>3, <3>1, KeptLemma
  <2>5. TypeOK'
    BY <2>1, <2>2, <2>4 DEF TypeOK
  <2>6. StaysInside'
    BY <2>1, <2>2, <2>4 DEF StaysInside, TypeOK
  <2>7. PassedSections'
    <3>1. PICK cuts \in SUBSET Nat :
            /\ AreCutsUpTo(taken, offset, cuts)
            /\ IsRestOf(effective, taken, KeptUpTo(taken, offset, cuts))
      BY <2>2 DEF PassedSections
    <3>2. taken \in Seq(Nat) /\ offset \in Nat
      <4>1. \A S, T : S \subseteq T => Seq(S) \subseteq Seq(T)
        OBVIOUS
      <4> QED BY <4>1, Numbers DEF TypeOK
    <3>3. AreCutsUpTo(taken, n, cuts \cup {n})
      <4>1. taken[offset + 1] = SectionLength
        BY DEF SectionLength
      <4>2. /\ taken[offset + 1] > 0 /\ offset < Len(taken)
            /\ offset + taken[offset + 1] + 1 = n
        BY <2>1, <4>1
      <4> HIDE DEF n
      <4>3. AreCutsUpTo(taken, offset + taken[offset + 1] + 1,
                        cuts \cup {offset + taken[offset + 1] + 1})
        BY <3>1, <3>2, <4>2, CutsGrow
      <4> QED BY <4>2, <4>3
    <3> DEFINE kept == KeptUpTo(taken, offset, cuts)
    <3>4. KeptUpTo(taken, n, cuts \cup {n}) =
            kept \cup (IF taken[offset + 2] = Flags THEN {} ELSE offset + 1 .. n)
      <4>1. /\ taken[offset + 1] > 0 /\ offset < Len(taken)
            /\ offset + taken[offset + 1] + 1 = n
        BY <2>1 DEF SectionLength
      <4> HIDE DEF n
      <4> QED BY <3>1, <3>2, <4>1, KeptGrows
    <3>5. IsRestOf(effective', taken, KeptUpTo(taken, n, cuts \cup {n}))
      <4>1. CASE taken[offset + 2] = Flags
        BY <1>7, <3>1, <3>4, <4>1 DEF TakesSection
      <4>2. CASE taken[offset + 2] # Flags
        <5>1. effective' = effective \o SubSeq(taken, offset + 1, n)
          BY <1>7, <4>2 DEF TakesSection, Section
        <5>2. kept \in SUBSET (1 .. offset)
          BY DEF KeptUpTo
        <5>3. taken \in Seq(Byte) /\ effective \in Seq(Byte) /\ n \in Nat /\ offset <= n
          BY <2>1, <3>2 DEF TypeOK
        <5> HIDE DEF n, kept
        <5>4. IsRestOf(effective \o SubSeq(taken, offset + 1, n), taken,
                       kept \cup (offset + 1 .. n))
          <6>1. IsRestOf(effective, taken, kept)
            BY <3>1 DEF kept
          <6> QED BY <2>1, <3>2, <5>2, <5>3, <6>1, RestGrows
        <5> QED BY <3>4, <4>2, <5>1, <5>4
      <4> QED BY <4>1, <4>2
    <3>6. cuts \cup {n} \in SUBSET Nat /\ offset' = n /\ taken' = taken
      BY <2>1, <2>2, <3>2
    <3> HIDE DEF n
    <3> QED BY <3>3, <3>5, <3>6 DEF PassedSections
  <2>8. PassedInstances' /\ AdvertisesWholeSections' /\ OnlyFlagsAreLeftOut'
    BY <2>2 DEF PassedInstances, AdvertisesWholeSections, OnlyFlagsAreLeftOut
  <2> QED BY <2>5, <2>6, <2>7, <2>8
<1>8. CASE Advertises
  <2>1. at = "walk" /\ offset >= Len(taken) /\ Len(effective) <= Limit /\ faults' = faults
        /\ instance # 0
    BY <1>8 DEF Advertises, WalkEnds
  <2>2. /\ instance \in 1 .. Instances /\ instance' \in Byte
        /\ instance' = instance + 1 \/ instance' = 0
        /\ success' \in BOOLEAN /\ (success' => success)
        /\ at' = "loop" /\ UNCHANGED <<data, pushed, changes, phase, taken, offset, effective>>
    <3>1. EndsInstance(TRUE)
      BY <1>8 DEF Advertises
    <3>2. /\ instance \in 0 .. Instances /\ instance' \in Byte
          /\ instance' = instance + 1 \/ instance' = 0
          /\ success' \in BOOLEAN /\ (success' => success)
          /\ at' = "loop"
          /\ UNCHANGED <<data, pushed, changes, phase, taken, offset, effective>>
      BY <2>1, <3>1, EndsInstanceLemma
    <3>3. instance \in 1 .. Instances
      BY <2>1, <3>2, Numbers
    <3> QED BY <3>2, <3>3
  <2> DEFINE new == [source |-> taken, payload |-> effective]
  <2>3. advertised' = [advertised EXCEPT ![instance] = new]
    BY <1>8 DEF Advertises
  <2>4. new \in [source : Seq(Byte), payload : Seq(0 .. Modulus)]
    <3>1. \A S, T : S \subseteq T => Seq(S) \subseteq Seq(T)
      OBVIOUS
    <3>2. Byte \subseteq 0 .. Modulus
      BY Numbers DEF Byte
    <3>3. effective \in Seq(0 .. Modulus) /\ taken \in Seq(Byte)
      BY <3>1, <3>2 DEF TypeOK
    <3> QED BY <3>3
  <2>5. TypeOK'
    BY <2>1, <2>2, <2>3, <2>4 DEF TypeOK
  <2>6. \A i \in 1 .. Instances :
          advertised'[i] = IF i = instance THEN new ELSE advertised[i]
    BY <2>2, <2>3 DEF TypeOK
  <2>7. PassedInstances'
    <3>1. effective # <<Modulus>>
      <4> SUFFICES ASSUME effective = <<Modulus>> PROVE FALSE
        OBVIOUS
      <4>1. effective \in Seq(Byte) /\ 1 \in 1 .. Len(effective) /\ effective[1] = Modulus
        BY DEF TypeOK
      <4>2. Modulus \in Byte
        BY <4>1
      <4> QED BY <4>2, Numbers DEF Byte
    <3>2. new # None
      BY <3>1 DEF None
    <3> HIDE DEF new
    <3>3. new.source = taken
      BY DEF new
    <3> QED BY <2>1, <2>2, <2>6, <3>2, <3>3, Numbers DEF PassedInstances
  <2>8. AdvertisesWholeSections' /\ OnlyFlagsAreLeftOut'
    <3>1. offset = Len(taken)
      BY <2>1 DEF StaysInside, TypeOK
    <3>2. PICK cuts \in SUBSET Nat :
            /\ AreCutsUpTo(taken, Len(taken), cuts)
            /\ IsRestOf(effective, taken, KeptUpTo(taken, Len(taken), cuts))
      BY <2>1, <3>1 DEF PassedSections
    <3>3. cuts \in Cuttings(taken)
      BY <3>2 DEF AreCutsUpTo, AreCuts, Cuttings
    <3>4. Cuttings(taken) # {} /\ Len(effective) <= Limit
      BY <3>3, <2>1
    <3>5. IsRestOf(effective, taken, Kept(taken, cuts))
      BY <3>2 DEF Kept, KeptUpTo
    <3>6. AdvertisesWholeSections'
      BY <3>4, <2>6 DEF AdvertisesWholeSections
    <3>7. OnlyFlagsAreLeftOut'
      BY <3>3, <3>5, <2>6 DEF OnlyFlagsAreLeftOut
    <3> QED BY <3>6, <3>7
  <2>9. StaysInside' /\ PassedSections'
    BY <2>2 DEF StaysInside, PassedSections
  <2> QED BY <2>5, <2>7, <2>8, <2>9
<1>9. CASE EndsUpdate
  <2>1. TypeOK'
    BY <1>9 DEF TypeOK, EndsUpdate, LoopEnds, serverVars, loopVars, walkVars
  <2> QED BY <2>1, <1>9 DEF EndsUpdate, StaysInside, PassedSections, PassedInstances,
             AdvertisesWholeSections, OnlyFlagsAreLeftOut
<1>10. CASE RefusesSection \/ RefusesSize
  BY <1>10, <1>6 DEF RefusesSection, RefusesSize, TypeOK
<1>11. CASE CommandFails
  <2>1. faults' \in 0 .. MaxFaults
    <3>1. CASE instance = 0
      BY <1>11, <3>1 DEF CommandFails, TypeOK
    <3>2. CASE instance # 0
      BY <1>11, <3>2, DataAssumption DEF CommandFails, TypeOK
    <3> QED BY <3>1, <3>2
  <2> QED BY <1>11, <2>1, <1>6 DEF CommandFails
<1>12. CASE UNCHANGED vars
  <2>1. TypeOK'
    BY <1>12 DEF TypeOK, vars, serverVars, loopVars, walkVars
  <2> QED BY <2>1, <1>1, <1>12 DEF vars
<1> QED BY <1>2, <1>3, <1>4, <1>5, <1>7, <1>8, <1>9, <1>10, <1>11, <1>12, <1>13, <1>14, <1>15
        DEF Next, ServerStep

\* The types hold for every data, name and number of instances.
THEOREM TypeCorrect == Spec => []TypeOK
<1>1. IInv => TypeOK
  BY DEF IInv
<1> QED BY <1>1, InitInv, NextInv, PTL DEF Spec

\* addAdvertisingInstance reads no byte behind the data, whatever they are.
THEOREM WalkStaysInside == Spec => []StaysInside
<1>1. IInv => StaysInside
  BY DEF IInv
<1> QED BY <1>1, InitInv, NextInv, PTL DEF Spec

\* What reaches the controller was made of whole sections, and fits.
THEOREM WholeSections == Spec => []AdvertisesWholeSections
<1>1. IInv => AdvertisesWholeSections
  BY DEF IInv
<1> QED BY <1>1, InitInv, NextInv, PTL DEF Spec

\* An update that succeeds has brought the same data to every instance.
THEOREM SuccessIsComplete == Spec => []SuccessReachesAll
<1>1. IInv => SuccessReachesAll
  BY Numbers DEF IInv, PassedInstances, SuccessReachesAll, LoopEnds, TypeOK
<1> QED BY <1>1, InitInv, NextInv, PTL DEF Spec

\* What the controller has of an instance is all of its data but the flags.
THEOREM OnlyFlags == Spec => []OnlyFlagsAreLeftOut
<1>1. IInv => OnlyFlagsAreLeftOut
  BY DEF IInv
<1> QED BY <1>1, InitInv, NextInv, PTL DEF Spec

\* The initialisation does not end with data that are not acceptable, whatever is set
\* while it configures the adapter.
THEOREM GoodDataNeeded == Spec => NeedsGoodData
<1> DEFINE Good == taken = <<>> \/ (LoopEnds /\ success /\ IsAcceptable(taken))
<1>1. ASSUME IInv, [Next]_vars, phase = "configuring", phase' = "configured"
      PROVE  Good
  <2>1. NeedsNoData \/ EndsUpdate
    BY <1>1 DEF Next, ServerStep, SetsData, StartsRunning, TakesData, ConfigurationFails,
       AppliesData, BeginsInstance, RefusesSection, TakesSection, RefusesSize, Advertises,
       CommandFails, EndsInstance, vars
  <2>2. CASE NeedsNoData
    BY <2>2 DEF NeedsNoData
  <2>3. CASE EndsUpdate
    <3>1. LoopEnds /\ success /\ at = "loop"
      BY <1>1, <2>3 DEF EndsUpdate, LoopEnds
    <3>2. 1 \in 1 .. Instances /\ 1 < instance
      <4>1. instance > Instances /\ instance \in Nat
        BY <1>1, <3>1, Numbers DEF LoopEnds, IInv, TypeOK
      <4> QED BY <4>1, Numbers
    <3> DEFINE payload == advertised[1].payload
    <3>3. advertised[1] # None /\ advertised[1].source = taken
      BY <1>1, <3>1, <3>2 DEF IInv, PassedInstances
    <3>4. /\ payload \in Seq(0 .. Modulus) /\ Len(payload) <= Limit
      BY <1>1, <3>2, <3>3 DEF IInv, TypeOK, AdvertisesWholeSections
    <3>5. PICK cuts \in Cuttings(taken) : IsRestOf(payload, taken, Kept(taken, cuts))
      BY <1>1, <3>2, <3>3 DEF IInv, OnlyFlagsAreLeftOut
    <3>6. Cardinality(Kept(taken, cuts)) \in Nat
      <4>1. Len(taken) \in Nat
        BY <1>1 DEF IInv, TypeOK
      <4>2. IsFiniteSet(1 .. Len(taken))
        BY <4>1, FS_Interval
      <4>3. IsFiniteSet(Kept(taken, cuts))
        BY <4>2, FS_Subset DEF Kept
      <4> QED BY <4>3, FS_CardinalityType
    <3>7. Cardinality(Kept(taken, cuts)) = Len(payload)
      BY <3>4, <3>5, <3>6 DEF IsRestOf
    <3> QED BY <3>1, <3>4, <3>5, <3>7 DEF IsAcceptable
  <2> QED BY <2>1, <2>2, <2>3
<1>2. IInv /\ [Next]_vars =>
        [phase = "configuring" /\ phase' = "configured" =>
           Good]_vars
  BY <1>1
<1> QED BY <1>2, InitInv, NextInv, PTL DEF Spec, NeedsGoodData

\* The bytes that buildServices makes.
LEMMA DefaultDataBytes ==
  ASSUME NEW n \in Nat, NEW d, d = DefaultData(n)
  PROVE  /\ d \in Seq(Byte) /\ d[1] = 2 /\ d[2] = Flags
         /\ n = 0 => Len(d) = 3
         /\ n > 0 => /\ Len(d) = n + 5
                     /\ d[4] = (n + 1) % Modulus /\ d[5] = Name
                     /\ \A i \in 6 .. n + 5 : d[i] = Letter
<1>1. d \in Seq(Byte)
  BY DefaultDataIsData
<1>2. CASE n = 0
  <2>1. d = <<2, Flags, 0>> \o <<>>
    BY <1>2 DEF DefaultData
  <2>2. d = <<2, Flags, 0>>
    BY <2>1
  <2> QED BY <1>1, <1>2, <2>2
<1>3. CASE n > 0
  <2> DEFINE a == <<2, Flags, 0>>
             b == <<(n + 1) % Modulus, Name>>
             c == [i \in 1 .. n |-> Letter]
  <2>1. d = a \o (b \o c)
    BY <1>3 DEF DefaultData
  <2>2. /\ a \in Seq(Byte) /\ b \in Seq(Byte) /\ c \in Seq(Byte)
        /\ Len(a) = 3 /\ Len(b) = 2 /\ Len(c) = n
    BY Numbers, DataAssumption DEF Byte, Letter
  <2>3. /\ a[1] = 2 /\ a[2] = Flags /\ b[1] = (n + 1) % Modulus /\ b[2] = Name
        /\ \A i \in 1 .. n : c[i] = Letter
    OBVIOUS
  <2> HIDE DEF a, b, c
  <2>4. /\ b \o c \in Seq(Byte) /\ Len(b \o c) = n + 2
        /\ \A i \in 1 .. n + 2 : (b \o c)[i] = IF i <= 2 THEN b[i] ELSE c[i - 2]
    <3>1. /\ b \o c \in Seq(Byte) /\ Len(b \o c) = Len(b) + Len(c)
          /\ \A i \in 1 .. Len(b) + Len(c) :
               (b \o c)[i] = IF i <= Len(b) THEN b[i] ELSE c[i - Len(b)]
      BY <2>2, ConcatProperties, Zenon
    <3> QED BY <2>2, <3>1
  <2> DEFINE t == b \o c
  <2> HIDE DEF t
  <2>5. t \in Seq(Byte) /\ Len(t) = n + 2
        /\ \A i \in 1 .. n + 2 : t[i] = IF i <= 2 THEN b[i] ELSE c[i - 2]
    BY <2>4 DEF t
  <2>6. /\ Len(d) = n + 5
        /\ \A i \in 1 .. n + 5 : d[i] = IF i <= 3 THEN a[i] ELSE t[i - 3]
    <3>1. /\ Len(a \o t) = Len(a) + Len(t)
          /\ \A i \in 1 .. Len(a) + Len(t) :
               (a \o t)[i] = IF i <= Len(a) THEN a[i] ELSE t[i - Len(a)]
      BY <2>2, <2>5, ConcatProperties, Zenon
    <3>2. d = a \o t
      BY <2>1 DEF t
    <3> QED BY <2>2, <2>5, <3>1, <3>2
  <2>7. d[1] = 2 /\ d[2] = Flags
    BY <2>3, <2>6
  <2>8. d[4] = (n + 1) % Modulus /\ d[5] = Name
    BY <1>3, <2>3, <2>5, <2>6
  <2>9. ASSUME NEW i \in 6 .. n + 5 PROVE d[i] = Letter
    <3>1. PICK j \in 1 .. n + 2 : j = i - 3 /\ ~(j <= 2)
      OBVIOUS
    <3>2. PICK k \in 1 .. n : k = j - 2
      BY <3>1
    <3> QED BY <2>3, <2>5, <2>6, <3>1, <3>2
  <2> QED BY <1>1, <1>3, <2>6, <2>7, <2>8, <2>9
<1> QED BY <1>2, <1>3

\* However they are cut, no byte of the name is in a section of flags.
LEMMA NamesAreKept ==
  ASSUME NEW n \in Nat, NEW d, d = DefaultData(n), NEW cuts \in Cuttings(d)
  PROVE  Kept(d, cuts) = 4 .. Len(d)
<1>0. /\ d \in Seq(Byte) /\ d[1] = 2 /\ d[2] = Flags
      /\ n = 0 => Len(d) = 3
      /\ n > 0 => /\ Len(d) = n + 5
                  /\ d[4] = (n + 1) % Modulus /\ d[5] = Name
                  /\ \A i \in 6 .. n + 5 : d[i] = Letter
  BY DefaultDataBytes, Zenon
<1>1. /\ d \in Seq(Byte) /\ d[1] = 2 /\ d[2] = Flags /\ Len(d) \in Nat /\ Len(d) >= 3
      /\ \A i \in 5 .. Len(d) : d[i] # Flags
  <2>1. CASE n = 0
    <3>1. Len(d) = 3 /\ 5 .. 3 = {}
      BY <1>0, <2>1
    <3> QED BY <1>0, <3>1
  <2>2. CASE n > 0
    <3>1. Len(d) = n + 5 /\ d[5] = Name /\ \A i \in 6 .. n + 5 : d[i] = Letter
      BY <1>0, <2>2, Zenon
    <3>2. \A i \in 5 .. n + 5 : i = 5 \/ i \in 6 .. n + 5
      OBVIOUS
    <3>3. \A i \in 5 .. Len(d) : d[i] # Flags
      BY <3>1, <3>2, DataAssumption
    <3>4. Len(d) \in Nat /\ Len(d) >= 3
      BY <3>1
    <3> QED BY <1>0, <3>3, <3>4
  <2> QED BY <2>1, <2>2
<1>2. /\ cuts \in SUBSET (0 .. Len(d)) /\ 0 \in cuts /\ Len(d) \in cuts
      /\ \A c \in cuts \ {Len(d)} :
           LET next == c + d[c + 1] + 1
           IN d[c + 1] > 0 /\ next \in cuts /\ \A o \in cuts : o <= c \/ next <= o
  BY DEF Cuttings, AreCuts
<1>3. 3 \in cuts /\ \A o \in cuts : o <= 0 \/ 3 <= o
  <2>1. 0 \in cuts \ {Len(d)} /\ 0 + d[0 + 1] + 1 = 3
    BY <1>1, <1>2
  <2> QED BY <1>2, <2>1
<1>4. ASSUME NEW i \in 1 .. Len(d), i <= 3 PROVE TypeOf(d, cuts, i) = Flags
  <2> DEFINE T == {k \in cuts : k < i}
  <2>1. T \in SUBSET (0 .. Len(d)) /\ 0 \in T
    <3>1. i \in Nat /\ 0 < i
      BY <1>1
    <3> QED BY <1>2, <3>1
  <2>2. Max(T) \in T
    BY <1>1, <2>1, MaxLemma
  <2>3. PICK c \in cuts : c = Max(T) /\ c < i
    BY <2>2
  <2>4. c = 0
    <3>1. c \in Nat /\ i \in Nat /\ (c <= 0 \/ 3 <= c)
      BY <1>1, <1>2, <1>3
    <3> QED BY <1>4, <2>3, <3>1
  <2> QED BY <1>1, <2>3, <2>4 DEF TypeOf
<1>5. ASSUME NEW i \in 1 .. Len(d), i > 3 PROVE TypeOf(d, cuts, i) # Flags
  <2> DEFINE T == {k \in cuts : k < i}
  <2>1. T \in SUBSET (0 .. Len(d)) /\ 3 \in T
    BY <1>2, <1>3, <1>5
  <2>2. Max(T) \in T /\ 3 <= Max(T)
    BY <1>1, <2>1, MaxLemma
  <2>3. PICK c \in cuts : c = Max(T) /\ c < i /\ 3 <= c
    BY <2>2
  <2>4. c \in cuts \ {Len(d)} /\ c \in 0 .. Len(d)
    BY <1>1, <1>2, <2>3
  <2>5. d[c + 1] > 0 /\ c + d[c + 1] + 1 \in 0 .. Len(d)
    BY <1>2, <2>4
  <2>6. d[c + 1] \in Nat
    <3>1. c + 1 \in 1 .. Len(d)
      BY <1>1, <2>4
    <3>2. d[c + 1] \in Byte
      BY <1>1, <3>1
    <3> QED BY <3>2, Numbers
  <2>7. c + 2 \in 5 .. Len(d)
    BY <1>1, <2>3, <2>4, <2>5, <2>6
  <2> QED BY <1>1, <2>3, <2>7 DEF TypeOf
<1>6. \A i \in 1 .. Len(d) : i <= 3 \/ i > 3
  BY <1>1
<1> QED BY <1>1, <1>4, <1>5, <1>6 DEF Kept

\* A name whose section fits is cut where buildServices meant it.
LEMMA ShortNamesAreSections ==
  ASSUME NEW n \in Nat, NEW d, d = DefaultData(n), Len(d) <= Limit + 3
  PROVE  Cuttings(d) # {}
<1> DEFINE cuts == {0, 3, Len(d)}
<1>1. /\ d \in Seq(Byte) /\ d[1] = 2 /\ d[2] = Flags
      /\ n = 0 => Len(d) = 3
      /\ n > 0 => /\ Len(d) = n + 5
                  /\ d[4] = (n + 1) % Modulus /\ d[5] = Name
                  /\ \A i \in 6 .. n + 5 : d[i] = Letter
  BY DefaultDataBytes, Zenon
<1>2. n > 0 => d[4] = n + 1
  BY <1>1, Numbers, DataAssumption
<1>3. Len(d) \in Nat /\ 3 <= Len(d)
  <2>1. CASE n = 0
    BY <1>1, <2>1
  <2>2. CASE n > 0
    <3>1. Len(d) = n + 5
      BY <1>1, <2>2
    <3> QED BY <3>1
  <2> QED BY <2>1, <2>2
<1>4. ASSUME NEW c \in cuts \ {Len(d)}
      PROVE  LET next == c + d[c + 1] + 1
             IN d[c + 1] > 0 /\ next \in cuts /\ \A o \in cuts : o <= c \/ next <= o
  <2>1. CASE c = 0
    <3>1. d[c + 1] = 2 /\ c + d[c + 1] + 1 = 3
      BY <1>1, <2>1
    <3> QED BY <1>3, <2>1, <3>1
  <2>2. CASE c = 3 /\ n > 0
    <3>1. Len(d) = n + 5 /\ c + 1 = 4
      BY <1>1, <2>2
    <3>2. d[c + 1] = n + 1
      BY <1>2, <2>2, <3>1
    <3>3. c + d[c + 1] + 1 = Len(d)
      BY <2>2, <3>1, <3>2
    <3> QED BY <1>3, <2>2, <3>2, <3>3
  <2> QED BY <1>1, <1>3, <1>4, <2>1, <2>2
<1>5. cuts \in SUBSET (0 .. Len(d)) /\ {0, Len(d)} \subseteq cuts
  BY <1>3
<1>6. AreCuts(d, cuts)
  BY <1>4, <1>5 DEF AreCuts
<1> HIDE DEF cuts
<1> QED BY <1>5, <1>6 DEF Cuttings

\* The data that buildServices makes of a name are acceptable if and only if the name
\* has at most Limit - 2 bytes, although the length of its section is cut to a byte: no
\* longer name turns into sections that fit.
THEOREM LongNames ==
  ASSUME NEW n \in Nat
  PROVE  IsAcceptable(DefaultData(n)) <=> n <= Limit - 2
<1> DEFINE d == DefaultData(n)
<1>0. PICK e : e = d
  OBVIOUS
<1> HIDE DEF d
<1>1. Len(e) \in Nat /\ Len(e) >= 3 /\ Limit \in Nat /\ (Len(e) <= Limit + 3 <=> n <= Limit - 2)
  <2>1. e \in Seq(Byte) /\ (n = 0 => Len(e) = 3) /\ (n > 0 => Len(e) = n + 5)
    BY <1>0, DefaultDataBytes, Zenon DEF d
  <2>2. Limit \in Nat /\ Limit >= 3
    BY DataAssumption
  <2>3. Len(e) = IF n = 0 THEN 3 ELSE n + 5
    BY <2>1
  <2> QED BY <2>2, <2>3
<1>2. Cardinality(4 .. Len(e)) = Len(e) - 3
  <2>1. 4 \in Int /\ Len(e) \in Int
    BY <1>1
  <2>2. Cardinality(4 .. Len(e)) = (IF 4 > Len(e) THEN 0 ELSE Len(e) - 4 + 1)
    BY <2>1, FS_Interval
  <2> QED BY <1>1, <2>2
<1>3. \A cuts \in Cuttings(e) : Cardinality(Kept(e, cuts)) = Len(e) - 3
  BY <1>0, <1>2, NamesAreKept DEF d
<1>4. CASE Len(e) <= Limit + 3
  <2>1. PICK cuts \in Cuttings(e) : TRUE
    BY <1>0, <1>4, ShortNamesAreSections DEF d
  <2>2. Cardinality(Kept(e, cuts)) <= Limit
    BY <1>1, <1>3, <1>4
  <2>3. IsAcceptable(e)
    BY <2>1, <2>2 DEF IsAcceptable
  <2> QED BY <1>0, <1>1, <1>4, <2>3 DEF d
<1>5. CASE ~(Len(e) <= Limit + 3)
  <2>1. ~IsAcceptable(e)
    BY <1>1, <1>3, <1>5 DEF IsAcceptable
  <2> QED BY <1>0, <1>1, <1>5, <2>1 DEF d
<1> QED BY <1>4, <1>5
=============================================================================

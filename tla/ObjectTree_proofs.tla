--------------------------- MODULE ObjectTree_proofs ---------------------------
(***************************************************************************)
(* Lemmas about ObjectTree, for trees of any size and paths of any elements:  *)
(* the operator that joins paths, the walks that build them, and the searches *)
(* of the objects.  An object has one path however it is asked for.           *)
(***************************************************************************)
EXTENDS ObjectTree, SequenceTheorems, WellFoundedInduction, TLAPS

\* Every set of numbers has a least one.
LEMMA LeastNatural ==
  ASSUME NEW S \in SUBSET Nat, S # {}
  PROVE  \E x \in S : \A y \in S : x <= y
<1> DEFINE R == {p \in Nat \X Nat : p[1] < p[2]}
<1>1. IsWellFoundedOn(R, Nat)
  <2>1. OpToRel(<, Nat) = R
    BY DEF OpToRel
  <2> QED BY <2>1, NatLessThanWellFounded
<1>2. PICK x \in S : \A y \in S : ~(<<y, x>> \in R)
  BY <1>1, WFMin
<1>3. ASSUME NEW y \in S PROVE x <= y
  <2>1. <<y, x>> \in Nat \X Nat /\ ~(y < x)
    BY <1>2
  <2> QED BY <2>1
<1> QED BY <1>3

\* Min finds it.
LEMMA MinLemma ==
  ASSUME NEW S \in SUBSET Nat, S # {}
  PROVE  Min(S) \in S
BY LeastNatural DEF Min

\* ... and Max the greatest one of a bounded set.
LEMMA MaxLemma ==
  ASSUME NEW n \in Nat, NEW S \in SUBSET (0 .. n), S # {}
  PROVE  Max(S) \in S /\ \A y \in S : y <= Max(S)
<1> DEFINE T == {n - y : y \in S}
<1>1. T \in SUBSET Nat /\ T # {} /\ \A y \in S : n - y \in T
  <2>1. \A y \in S : n - y \in Nat
    OBVIOUS
  <2> QED BY <2>1
<1>2. PICK x \in T : \A y \in T : x <= y
  BY <1>1, LeastNatural
<1>3. PICK m \in S : x = n - m
  OBVIOUS
<1>4. \A y \in S : m >= y
  BY <1>1, <1>2, <1>3
<1> QED BY <1>4 DEF Max

LEMMA LargerSeq ==
  ASSUME NEW S, NEW T, S \subseteq T, NEW s \in Seq(S)
  PROVE  s \in Seq(T)
OBVIOUS

\* Induction up to a bound, over the set of the numbers for which a fact holds.
LEMMA SetInduction ==
  ASSUME NEW k \in Nat, NEW S, 0 \in S,
         \A n \in Nat : n \in S /\ n < k => n + 1 \in S
  PROVE  \A n \in 0 .. k : n \in S
<1> SUFFICES ASSUME {n \in 0 .. k : n \notin S} # {} PROVE FALSE
  OBVIOUS
<1> DEFINE T == {n \in 0 .. k : n \notin S}
<1>0. T \in SUBSET Nat /\ T # {}
  OBVIOUS
<1> HIDE DEF T
<1>1. PICK n \in T : \A m \in T : n <= m
  BY <1>0, LeastNatural
<1> USE DEF T
<1>2. n \in Nat /\ n <= k /\ n # 0 /\ n \notin S
  BY <1>1
<1>3. n - 1 \in 0 .. k /\ n - 1 \notin T
  BY <1>1, <1>2
<1>4. n - 1 \in S /\ n - 1 < k /\ n - 1 \in Nat
  BY <1>2, <1>3
<1> QED BY <1>2, <1>4

-----------------------------------------------------------------------------
(* Joined                                                                    *)

\* A path without the slash at its end, and one with a slash at its beginning.
Cut(p)     == IF Last(p) = Slash THEN Front(p) ELSE p
Slashed(p) == IF Head(p) = Slash THEN p ELSE <<Slash>> \o p

\* What Joined does with paths that are not empty, in one line.
LEMMA JoinedLemma ==
  ASSUME NEW X, NEW p \in Seq(X), NEW q \in Seq(X), p # <<>>, q # <<>>
  PROVE  Joined(p, q) = Cut(p) \o Slashed(q)
<1>1. CASE Last(p) = Slash /\ Head(q) = Slash
  BY <1>1 DEF Joined, Cut, Slashed
<1>2. CASE Last(p) # Slash /\ Head(q) # Slash
  BY <1>2 DEF Joined, Cut, Slashed
<1>3. CASE Last(p) # Slash /\ Head(q) = Slash
  BY <1>3 DEF Joined, Cut, Slashed
<1>4. CASE Last(p) = Slash /\ Head(q) # Slash
  <2>1. p = Front(p) \o <<Slash>>
    BY <1>4 DEF Front, Last
  <2>2. Front(p) \in Seq(X) /\ <<Slash>> \in Seq(X)
    BY <1>4 DEF Front, Last
  <2>3. p \o q = Front(p) \o (<<Slash>> \o q)
    <3>1. \A a, b \in Seq(X) : (a \o b) \o q = a \o (b \o q)
      BY ConcatAssociative
    <3>2. (Front(p) \o <<Slash>>) \o q = Front(p) \o (<<Slash>> \o q)
      BY <2>2, <3>1, Zenon
    <3> QED BY <2>1, <3>2, Zenon
  <2> QED BY <1>4, <2>3 DEF Joined, Cut, Slashed
<1> QED BY <1>1, <1>2, <1>3, <1>4

\* The last and the first element of two paths in a row.
LEMMA EndsLemma ==
  ASSUME NEW X, NEW a \in Seq(X), NEW b \in Seq(X)
  PROVE  /\ a \o b \in Seq(X)
         /\ b # <<>> => /\ Last(a \o b) = Last(b)
                        /\ Front(b) \in Seq(X)
                        /\ Front(a \o b) = a \o Front(b)
         /\ a # <<>> => a \o b # <<>> /\ Head(a \o b) = Head(a)
<1>1. /\ a \o b \in Seq(X) /\ Len(a \o b) = Len(a) + Len(b)
      /\ \A i \in 1 .. Len(a) + Len(b) : (a \o b)[i] = IF i <= Len(a) THEN a[i] ELSE b[i - Len(a)]
  BY ConcatProperties, Zenon
<1>2. ASSUME b # <<>>
      PROVE  /\ Last(a \o b) = Last(b) /\ Front(b) \in Seq(X)
             /\ Front(a \o b) = a \o Front(b)
  <2> DEFINE c == a \o b
             f == Front(b)
             g == Front(c)
  <2>1. Len(b) \in Nat \ {0} /\ Len(a) \in Nat
    BY <1>2
  <2>2. Last(c) = Last(b)
    BY <1>1, <2>1 DEF Last
  <2>3. /\ f \in Seq(X) /\ Len(f) = Len(b) - 1
        /\ \A i \in 1 .. Len(b) - 1 : f[i] = b[i]
    <3>1. 1 \in Int /\ Len(b) - 1 \in Int /\ \A i \in 1 .. Len(b) - 1 : b[i] \in X
      BY <2>1
    <3>2. /\ f \in Seq(X) /\ Len(f) = (IF 1 <= Len(b) - 1 THEN (Len(b) - 1) - 1 + 1 ELSE 0)
          /\ \A i \in 1 .. (Len(b) - 1) - 1 + 1 : f[i] = b[1 + i - 1]
      BY <3>1, SubSeqProperties DEF Front
    <3> HIDE DEF f
    <3>3. Len(f) = Len(b) - 1
      <4>1. \A n \in Nat \ {0} : (IF 1 <= n - 1 THEN (n - 1) - 1 + 1 ELSE 0) = n - 1
        OBVIOUS
      <4>2. Len(f) = (IF 1 <= Len(b) - 1 THEN (Len(b) - 1) - 1 + 1 ELSE 0)
        BY <3>2
      <4> HIDE DEF f
      <4> QED BY <2>1, <4>1, <4>2, Zenon
    <3>4. \A i \in 1 .. Len(b) - 1 : i \in 1 .. (Len(b) - 1) - 1 + 1 /\ 1 + i - 1 = i
      BY <2>1
    <3>5. \A i \in 1 .. Len(b) - 1 : f[i] = b[i]
      BY <3>2, <3>4
    <3> QED BY <3>2, <3>3, <3>5
  <2>4. /\ g \in Seq(X) /\ Len(g) = Len(a) + Len(b) - 1
        /\ \A i \in 1 .. Len(a) + Len(b) - 1 : g[i] = c[i]
    BY <1>1, <2>1 DEF Front
  <2> HIDE DEF f, g
  <2>5. /\ a \o f \in Seq(X) /\ Len(a \o f) = Len(a) + Len(f)
        /\ \A i \in 1 .. Len(a) + Len(f) : (a \o f)[i] = IF i <= Len(a) THEN a[i] ELSE f[i - Len(a)]
    BY <2>3, ConcatProperties, Zenon
  <2>6. Len(g) = Len(a \o f)
    BY <2>1, <2>3, <2>4, <2>5
  <2>7. ASSUME NEW i \in 1 .. Len(g) PROVE g[i] = (a \o f)[i]
    <3>1. i \in 1 .. Len(a) + Len(b) - 1 /\ i \in 1 .. Len(a) + Len(b) /\ i \in 1 .. Len(a) + Len(f)
      BY <2>1, <2>3, <2>4
    <3>2. g[i] = IF i <= Len(a) THEN a[i] ELSE b[i - Len(a)]
      BY <1>1, <2>4, <3>1
    <3>3. CASE i <= Len(a)
      BY <2>5, <3>1, <3>2, <3>3
    <3>4. CASE ~(i <= Len(a))
      <4>1. i - Len(a) \in 1 .. Len(b) - 1
        BY <2>1, <3>1, <3>4
      <4>2. PICK j \in 1 .. Len(b) - 1 : j = i - Len(a)
        BY <4>1
      <4> QED BY <2>3, <2>5, <3>1, <3>2, <3>4, <4>2
    <3> QED BY <3>3, <3>4
  <2>8. g = a \o f
    BY <2>4, <2>5, <2>6, <2>7, SeqEqual
  <2> QED BY <2>2, <2>3, <2>8 DEF f, g
<1>3. ASSUME a # <<>> PROVE a \o b # <<>> /\ Head(a \o b) = Head(a)
  <2>1. Len(a) \in Nat \ {0} /\ Len(b) \in Nat
    BY <1>3
  <2>2. Len(a \o b) # 0 /\ (a \o b)[1] = a[1]
    BY <1>1, <2>1
  <2> QED BY <1>1, <2>1, <2>2
<1> QED BY <1>1, <1>2, <1>3

\* The parts of a path.
LEMMA PartsLemma ==
  ASSUME NEW X, Slash \in X, NEW p \in Seq(X), p # <<>>
  PROVE  /\ Cut(p) \in Seq(X) /\ Slashed(p) \in Seq(X)
         /\ Slashed(p) # <<>> /\ Head(Slashed(p)) = Slash
<1>1. Cut(p) \in Seq(X)
  BY DEF Cut, Front
<1>2. CASE Head(p) = Slash
  BY <1>1, <1>2 DEF Slashed
<1>3. CASE Head(p) # Slash
  <2>1. <<Slash>> \in Seq(X) /\ <<Slash>> # <<>> /\ Head(<<Slash>>) = Slash
    OBVIOUS
  <2> QED BY <1>1, <1>3, <2>1, EndsLemma DEF Slashed
<1> QED BY <1>2, <1>3

LEMMA JoinedType ==
  ASSUME NEW X, Slash \in X, NEW p \in Seq(X), NEW q \in Seq(X)
  PROVE  /\ Joined(p, q) \in Seq(X)
         /\ q # <<>> => Joined(p, q) # <<>>
         /\ p # <<>> => Joined(p, q) # <<>>
         /\ p # <<>> /\ Head(p) = Slash => Head(Joined(p, q)) = Slash
<1>1. CASE q = <<>>
  BY <1>1 DEF Joined
<1>2. CASE q # <<>> /\ p = <<>>
  BY <1>2 DEF Joined
<1>3. CASE q # <<>> /\ p # <<>>
  <2>1. Joined(p, q) = Cut(p) \o Slashed(q)
    BY <1>3, JoinedLemma
  <2>2. /\ Cut(p) \in Seq(X) /\ Slashed(q) \in Seq(X)
        /\ Slashed(q) # <<>> /\ Head(Slashed(q)) = Slash
    BY <1>3, PartsLemma
  <2>3. Joined(p, q) \in Seq(X) /\ Joined(p, q) # <<>>
    <3>1. Len(Cut(p)) \in Nat /\ Len(Slashed(q)) \in Nat \ {0}
      BY <2>2
    <3> QED BY <2>1, <2>2, <3>1, ConcatProperties
  <2>4. ASSUME Head(p) = Slash PROVE Head(Joined(p, q)) = Slash
    <3>1. CASE Cut(p) = <<>>
      BY <2>1, <2>2, <3>1
    <3>2. CASE Cut(p) # <<>>
      <4>1. Head(Cut(p)) = Slash
        BY <1>3, <2>4, <3>2 DEF Cut, Front
      <4> QED BY <2>1, <2>2, <3>2, <4>1, EndsLemma
    <3> QED BY <3>1, <3>2
  <2> QED BY <1>3, <2>3, <2>4
<1> QED BY <1>1, <1>2, <1>3

\* Where the parts of a path meet.
LEMMA PartsMeet ==
  ASSUME NEW X, Slash \in X, NEW q \in Seq(X), NEW t \in Seq(X), q # <<>>,
         t # <<>>, Head(t) = Slash
  PROVE  Cut(Slashed(q)) \o t = Slashed(Cut(q) \o t)
<1> DEFINE slash == <<Slash>>
<1>0. slash \in Seq(X) /\ slash # <<>>
  OBVIOUS
<1>1. Cut(q) \in Seq(X)
  BY PartsLemma
<1>2. Slashed(t) = t
  BY DEF Slashed
<1>3. CASE Head(q) = Slash
  <2>1. Slashed(q) = q
    BY <1>3 DEF Slashed
  <2>2. CASE Cut(q) = <<>>
    BY <1>2, <2>1, <2>2
  <2>3. CASE Cut(q) # <<>>
    <3>1. Head(Cut(q)) = Slash
      BY <1>3, <2>3 DEF Cut, Front
    <3>2. Head(Cut(q) \o t) = Slash
      BY <1>1, <2>3, <3>1, EndsLemma
    <3> QED BY <2>1, <3>2 DEF Slashed
  <2> QED BY <2>2, <2>3
<1>4. CASE Head(q) # Slash
  <2> HIDE DEF slash
  <2>1. Slashed(q) = slash \o q
    BY <1>4 DEF Slashed, slash
  <2>2. Cut(slash \o q) = slash \o Cut(q)
    BY <1>0, EndsLemma DEF Cut
  <2>3. Cut(q) # <<>> /\ Head(Cut(q)) # Slash
    BY <1>4 DEF Cut, Front, Last
  <2>4. Head(Cut(q) \o t) # Slash
    BY <1>1, <2>3, EndsLemma
  <2>5. Slashed(Cut(q) \o t) = slash \o (Cut(q) \o t)
    BY <2>4 DEF Slashed, slash
  <2>6. (slash \o Cut(q)) \o t = slash \o (Cut(q) \o t)
    <3>1. \A a, b \in Seq(X) : (a \o b) \o t = a \o (b \o t)
      BY ConcatAssociative
    <3> QED BY <1>0, <1>1, <3>1, Zenon
  <2> QED BY <2>1, <2>2, <2>5, <2>6
<1> QED BY <1>3, <1>4

\* In which order paths are joined does not matter, whatever their slashes.
THEOREM JoinedIsAssociative ==
  ASSUME NEW X, Slash \in X, NEW p \in Seq(X), NEW q \in Seq(X), NEW r \in Seq(X)
  PROVE  Joined(Joined(p, q), r) = Joined(p, Joined(q, r))
<1>1. CASE p = <<>> \/ q = <<>> \/ r = <<>>
  BY <1>1 DEF Joined
<1>2. CASE p # <<>> /\ q # <<>> /\ r # <<>>
  <2> DEFINE c == Cut(p)
             s == Slashed(q)
             t == Slashed(r)
  <2>1. /\ c \in Seq(X) /\ s \in Seq(X) /\ s # <<>> /\ t \in Seq(X) /\ t # <<>>
        /\ Head(t) = Slash /\ Cut(q) \in Seq(X) /\ Cut(s) \in Seq(X)
    BY <1>2, PartsLemma
  <2>2. Joined(p, q) = c \o s /\ Joined(q, r) = Cut(q) \o t
    BY <1>2, JoinedLemma
  <2>3. /\ c \o s \in Seq(X) /\ c \o s # <<>>
        /\ Cut(q) \o t \in Seq(X) /\ Cut(q) \o t # <<>>
    BY <1>2, <2>2, JoinedType
  <2> HIDE DEF c, s, t
  <2>4. Joined(c \o s, r) = Cut(c \o s) \o t
    BY <1>2, <2>3, JoinedLemma DEF t
  <2>5. Joined(p, Cut(q) \o t) = c \o Slashed(Cut(q) \o t)
    BY <1>2, <2>3, JoinedLemma DEF c
  <2>6. Cut(c \o s) = c \o Cut(s)
    <3>0. \A a, b \in Seq(X) :
            b # <<>> => Last(a \o b) = Last(b) /\ Front(a \o b) = a \o Front(b)
      BY EndsLemma
    <3>1. Last(c \o s) = Last(s) /\ Front(c \o s) = c \o Front(s)
      BY <2>1, <3>0, Zenon
    <3>2. CASE Last(s) = Slash
      BY <3>1, <3>2, Zenon DEF Cut
    <3>3. CASE Last(s) # Slash
      BY <3>1, <3>3, Zenon DEF Cut
    <3> QED BY <3>2, <3>3
  <2>7. Cut(s) \o t = Slashed(Cut(q) \o t)
    BY <1>2, <2>1, PartsMeet DEF s
  <2>8. (c \o Cut(s)) \o t = c \o (Cut(s) \o t)
    <3>1. t \in Seq(X) /\ c \in Seq(X) /\ Cut(s) \in Seq(X)
      <4>1. Cut(s) \in Seq(X)
        BY <2>1, PartsLemma
      <4> QED BY <2>1, <4>1
    <3>2. PICK a \in Seq(X), b \in Seq(X), d \in Seq(X) : a = c /\ b = Cut(s) /\ d = t
      BY <3>1
    <3>3. (a \o b) \o d = a \o (b \o d)
      BY ConcatAssociative
    <3> QED BY <3>2, <3>3, Zenon
  <2> QED BY <2>2, <2>4, <2>5, <2>6, <2>7, <2>8
<1> QED BY <1>1, <1>2

-----------------------------------------------------------------------------
(* The walks                                                                 *)

\* One step on the way down: the path that PathFrom has built up to j.
Down(tree, k, path, j) ==
  IF IsAbove(tree, j, k) THEN Joined(path[j - 1], tree[j].name) ELSE path[j - 1]

IsWalkDown(tree, base, k, path) ==
  path = [j \in 0 .. k |-> IF j = 0 THEN base ELSE Down(tree, k, path, j)]

\* The walk that PathFrom defines exists.
LEMMA WalkDownExists ==
  ASSUME NEW tree, NEW base, NEW k \in Nat
  PROVE  \E path : IsWalkDown(tree, base, k, path)
<1> DEFINE IsWalkTo(n, path) ==
             path = [j \in 0 .. n |-> IF j = 0 THEN base ELSE Down(tree, k, path, j)]
           S == {n \in Nat : \E path : IsWalkTo(n, path)}
<1>1. 0 \in S
  <2> DEFINE path == [j \in 0 .. 0 |-> base]
  <2>1. path = [j \in 0 .. 0 |-> IF j = 0 THEN base ELSE Down(tree, k, path, j)]
    OBVIOUS
  <2>2. IsWalkTo(0, path)
    BY <2>1
  <2> QED BY <2>2
<1>2. ASSUME NEW n \in Nat, n \in S, n < k PROVE n + 1 \in S
  <2>1. PICK path : IsWalkTo(n, path)
    BY <1>2
  <2> DEFINE more == [j \in 0 .. n + 1 |-> IF j = n + 1 THEN Down(tree, k, path, n + 1)
                                                        ELSE path[j]]
  <2>2. \A j \in 0 .. n : more[j] = path[j]
    OBVIOUS
  <2>3. \A j \in 0 .. n : path[j] = IF j = 0 THEN base ELSE Down(tree, k, path, j)
    BY <2>1
  <2>4. \A j \in 1 .. n + 1 : Down(tree, k, more, j) = Down(tree, k, path, j)
    <3>1. \A j \in 1 .. n + 1 : j - 1 \in 0 .. n
      OBVIOUS
    <3> HIDE DEF more
    <3> QED BY <2>2, <3>1 DEF Down
  <2>5. ASSUME NEW j \in 0 .. n + 1
        PROVE  more[j] = IF j = 0 THEN base ELSE Down(tree, k, more, j)
    <3>1. CASE j = n + 1
      <4>1. j # 0 /\ j \in 1 .. n + 1 /\ more[j] = Down(tree, k, path, n + 1)
        BY <3>1
      <4> HIDE DEF more
      <4> QED BY <2>4, <3>1, <4>1
    <3>2. CASE j # n + 1
      <4>1. j \in 0 .. n /\ (j = 0 \/ j \in 1 .. n + 1)
        BY <3>2
      <4> HIDE DEF more
      <4> QED BY <2>2, <2>3, <2>4, <4>1
    <3> QED BY <3>1, <3>2
  <2>6. IsWalkTo(n + 1, more)
    BY <2>5
  <2> HIDE DEF more, IsWalkTo
  <2>7. n + 1 \in Nat /\ \E f : IsWalkTo(n + 1, f)
    BY <2>6
  <2> QED BY <2>7
<1> HIDE DEF S
<1>3. k \in S
  <2>1. \A n \in 0 .. k : n \in S
    BY <1>1, <1>2, SetInduction
  <2> QED BY <2>1
<1> QED BY <1>3 DEF S, IsWalkDown

\* The path of an object is the end of such a walk.
LEMMA PathFromLemma ==
  ASSUME NEW tree, NEW base, NEW k \in Nat
  PROVE  \E path : /\ PathFrom(tree, base, k) = path[k]
                   /\ path[0] = base
                   /\ \A j \in 1 .. k : path[j] = Down(tree, k, path, j)
<1> DEFINE path == CHOOSE f : IsWalkDown(tree, base, k, f)
<1>1. IsWalkDown(tree, base, k, path)
  BY WalkDownExists
<1>2. PathFrom(tree, base, k) = path[k]
  BY DEF PathFrom, IsWalkDown, Down
<1> HIDE DEF path
<1>3. \A j \in 0 .. k : path[j] = IF j = 0 THEN base ELSE Down(tree, k, path, j)
  BY <1>1 DEF IsWalkDown
<1>4. path[0] = base /\ \A j \in 1 .. k : path[j] = Down(tree, k, path, j)
  BY <1>3
<1> QED BY <1>2, <1>4

\* Paths are sequences of the same elements as the names.
LEMMA PathType ==
  ASSUME NEW X, Slash \in X, NEW tree, NEW base \in Seq(X), NEW k \in Nat,
         \A j \in 1 .. k : tree[j].name \in Seq(X)
  PROVE  PathFrom(tree, base, k) \in Seq(X)
<1>1. PICK path : /\ PathFrom(tree, base, k) = path[k]
                  /\ path[0] = base
                  /\ \A j \in 1 .. k : path[j] = Down(tree, k, path, j)
  BY PathFromLemma
<1> DEFINE S == {n \in Nat : path[n] \in Seq(X)}
<1>2. 0 \in S
  BY <1>1
<1>3. ASSUME NEW n \in Nat, n \in S, n < k PROVE n + 1 \in S
  <2>1. n + 1 \in 1 .. k /\ (n + 1) - 1 = n /\ path[n] \in Seq(X)
    BY <1>3
  <2>2. path[n + 1] = IF IsAbove(tree, n + 1, k) THEN Joined(path[n], tree[n + 1].name)
                      ELSE path[n]
    BY <1>1, <2>1 DEF Down
  <2>3. Joined(path[n], tree[n + 1].name) \in Seq(X)
    BY <2>1, JoinedType
  <2>4. path[n + 1] \in Seq(X)
    BY <2>1, <2>2, <2>3, Zenon
  <2> QED BY <2>4
<1> HIDE DEF S
<1>4. \A n \in 0 .. k : n \in S
  BY <1>2, <1>3, SetInduction
<1> QED BY <1>1, <1>4 DEF S

\* What a walk begins with stands before what it finds.
LEMMA BaseLemma ==
  ASSUME NEW X, Slash \in X, NEW tree, NEW base \in Seq(X), NEW k \in Nat,
         \A j \in 1 .. k : tree[j].name \in Seq(X)
  PROVE  PathFrom(tree, base, k) = Joined(base, PathFrom(tree, <<>>, k))
<1>1. PICK f : /\ PathFrom(tree, base, k) = f[k]
               /\ f[0] = base
               /\ \A j \in 1 .. k : f[j] = Down(tree, k, f, j)
  BY PathFromLemma
<1>2. PICK g : /\ PathFrom(tree, <<>>, k) = g[k]
               /\ g[0] = <<>>
               /\ \A j \in 1 .. k : g[j] = Down(tree, k, g, j)
  BY PathFromLemma
<1> DEFINE S == {n \in Nat : g[n] \in Seq(X) /\ f[n] = Joined(base, g[n])}
<1>3. 0 \in S
  <2>1. <<>> \in Seq(X) /\ Joined(base, <<>>) = base
    BY DEF Joined
  <2> QED BY <1>1, <1>2, <2>1
<1>4. ASSUME NEW n \in Nat, n \in S, n < k PROVE n + 1 \in S
  <2> DEFINE name == tree[n + 1].name
  <2>1. /\ n + 1 \in 1 .. k /\ (n + 1) - 1 = n /\ name \in Seq(X)
        /\ g[n] \in Seq(X) /\ f[n] = Joined(base, g[n])
    BY <1>4
  <2> HIDE DEF name
  <2>2. f[n + 1] = IF IsAbove(tree, n + 1, k) THEN Joined(f[n], name) ELSE f[n]
    BY <1>1, <2>1 DEF Down, name
  <2>3. g[n + 1] = IF IsAbove(tree, n + 1, k) THEN Joined(g[n], name) ELSE g[n]
    BY <1>2, <2>1 DEF Down, name
  <2>4. Joined(g[n], name) \in Seq(X)
    BY <2>1, JoinedType
  <2>5. Joined(Joined(base, g[n]), name) = Joined(base, Joined(g[n], name))
    BY <2>1, JoinedIsAssociative
  <2>6. g[n + 1] \in Seq(X) /\ f[n + 1] = Joined(base, g[n + 1])
    BY <2>1, <2>2, <2>3, <2>4, <2>5, Zenon
  <2> QED BY <2>6
<1> HIDE DEF S
<1>5. \A n \in 0 .. k : n \in S
  BY <1>3, <1>4, SetInduction
<1> QED BY <1>1, <1>2, <1>5 DEF S

\* One step on the way up: the path that GetPath has built down to j.
Up(tree, k, path, j) ==
  IF j = k THEN tree[k].name
  ELSE IF IsAbove(tree, j, k) THEN Joined(tree[j].name, path[j + 1])
  ELSE path[j + 1]

IsWalkUp(tree, k, path) == path = [j \in 1 .. k |-> Up(tree, k, path, j)]

\* The walk that GetPath defines exists.
LEMMA WalkUpExists ==
  ASSUME NEW tree, NEW k \in Nat \ {0}
  PROVE  \E path : IsWalkUp(tree, k, path)
<1> DEFINE IsWalkFrom(n, path) ==
             path = [j \in k - n .. k |-> Up(tree, k, path, j)]
           S == {n \in Nat : \E path : IsWalkFrom(n, path)}
<1>1. 0 \in S
  <2> DEFINE path == [j \in k - 0 .. k |-> tree[k].name]
  <2>1. \A j \in k - 0 .. k : j = k
    OBVIOUS
  <2>2. \A j \in k - 0 .. k : path[j] = Up(tree, k, path, j)
    BY <2>1 DEF Up
  <2>3. IsWalkFrom(0, path)
    BY <2>2
  <2> HIDE DEF path, IsWalkFrom
  <2> QED BY <2>3
<1>2. ASSUME NEW n \in Nat, n \in S, n < k PROVE n + 1 \in S
  <2>1. PICK path : IsWalkFrom(n, path)
    BY <1>2
  <2> DEFINE m == k - (n + 1)
             more == [j \in m .. k |-> IF j = m THEN Up(tree, k, path, m) ELSE path[j]]
  <2>2. m \in Nat /\ m < k
    BY <1>2
  <2>3. \A j \in k - n .. k : more[j] = path[j]
    BY <2>2
  <2>4. \A j \in k - n .. k : path[j] = Up(tree, k, path, j)
    BY <2>1
  <2>5. \A j \in m .. k : Up(tree, k, more, j) = Up(tree, k, path, j)
    <3>1. \A j \in m .. k : j = k \/ j + 1 \in k - n .. k
      BY <2>2
    <3> HIDE DEF more, m
    <3> QED BY <2>3, <3>1 DEF Up
  <2>6. ASSUME NEW j \in m .. k PROVE more[j] = Up(tree, k, more, j)
    <3>1. CASE j = m
      <4>1. more[j] = Up(tree, k, path, m)
        BY <3>1
      <4> HIDE DEF more, m
      <4> QED BY <2>5, <3>1, <4>1
    <3>2. CASE j # m
      <4>1. j \in k - n .. k
        BY <2>2, <3>2
      <4> HIDE DEF more, m
      <4> QED BY <2>3, <2>4, <2>5, <4>1
    <3> QED BY <3>1, <3>2
  <2>7. IsWalkFrom(n + 1, more)
    BY <2>6
  <2> HIDE DEF more, IsWalkFrom
  <2>8. n + 1 \in Nat /\ \E f : IsWalkFrom(n + 1, f)
    BY <2>7
  <2> QED BY <2>8
<1> HIDE DEF S
<1>3. k - 1 \in S
  <2>1. \A n \in 0 .. k : n \in S
    BY <1>1, <1>2, SetInduction
  <2> QED BY <2>1
<1>4. k - (k - 1) = 1
  OBVIOUS
<1> QED BY <1>3, <1>4 DEF S, IsWalkUp

LEMMA GetPathLemma ==
  ASSUME NEW tree, NEW k \in Nat \ {0}
  PROVE  \E path : /\ GetPath(tree, k) = path[1]
                   /\ \A j \in 1 .. k : path[j] = Up(tree, k, path, j)
<1> DEFINE path == CHOOSE f : IsWalkUp(tree, k, f)
<1>1. IsWalkUp(tree, k, path)
  BY WalkUpExists
<1>2. GetPath(tree, k) = path[1]
  BY DEF GetPath, IsWalkUp, Up
<1> HIDE DEF path
<1>3. \A j \in 1 .. k : path[j] = Up(tree, k, path, j)
  BY <1>1 DEF IsWalkUp
<1> QED BY <1>2, <1>3

\* Up or down, the path is the same.
LEMMA UpIsDown ==
  ASSUME NEW X, Slash \in X, NEW tree, NEW k \in Nat \ {0},
         \A j \in 1 .. k : tree[j].name \in Seq(X)
  PROVE  GetPath(tree, k) = PathFrom(tree, <<>>, k)
<1>1. PICK g : /\ PathFrom(tree, <<>>, k) = g[k]
               /\ g[0] = <<>>
               /\ \A j \in 1 .. k : g[j] = Down(tree, k, g, j)
  BY PathFromLemma
<1>2. PICK h : /\ GetPath(tree, k) = h[1]
               /\ \A j \in 1 .. k : h[j] = Up(tree, k, h, j)
  BY GetPathLemma
<1>3. <<>> \in Seq(X) /\ IsAbove(tree, k, k)
  BY DEF IsAbove
<1> DEFINE T == {n \in Nat : g[n] \in Seq(X)}
           S == {n \in Nat : /\ h[k - n] \in Seq(X)
                             /\ Joined(g[k - n - 1], h[k - n]) = g[k]}
<1>4. \A n \in 0 .. k : n \in T
  <2>1. 0 \in T
    BY <1>1, <1>3
  <2>2. ASSUME NEW n \in Nat, n \in T, n < k PROVE n + 1 \in T
    <3> DEFINE name == tree[n + 1].name
    <3>1. n + 1 \in 1 .. k /\ (n + 1) - 1 = n /\ name \in Seq(X) /\ g[n] \in Seq(X)
      BY <2>2
    <3> HIDE DEF name
    <3>2. g[n + 1] = IF IsAbove(tree, n + 1, k) THEN Joined(g[n], name) ELSE g[n]
      BY <1>1, <3>1 DEF Down, name
    <3>3. Joined(g[n], name) \in Seq(X)
      BY <3>1, JoinedType
    <3>4. g[n + 1] \in Seq(X)
      BY <3>1, <3>2, <3>3, Zenon
    <3> QED BY <3>4
  <2> HIDE DEF T
  <2> QED BY <2>1, <2>2, SetInduction
<1>5. 0 \in S
  <2>1. k \in 1 .. k /\ k - 0 = k /\ k - 0 - 1 = k - 1
    OBVIOUS
  <2>2. h[k] = tree[k].name /\ g[k] = Joined(g[k - 1], tree[k].name)
    BY <1>1, <1>2, <1>3, <2>1 DEF Up, Down
  <2> QED BY <2>1, <2>2
<1>6. ASSUME NEW n \in Nat, n \in S, n < k - 1 PROVE n + 1 \in S
  <2> DEFINE m == k - n
             name == tree[m - 1].name
  <2>1. /\ m \in 1 .. k /\ m - 1 \in 1 .. k /\ m - 1 # k
        /\ m - 2 \in 0 .. k /\ (m - 1) - 1 = m - 2 /\ (m - 1) + 1 = m
        /\ k - (n + 1) = m - 1 /\ k - (n + 1) - 1 = m - 2
    BY <1>6
  <2>2. h[m] \in Seq(X) /\ Joined(g[m - 1], h[m]) = g[k]
    BY <1>6
  <2>3. g[m - 2] \in Seq(X) /\ name \in Seq(X)
    BY <1>4, <2>1
  <2> HIDE DEF m, name
  <2>4. g[m - 1] = IF IsAbove(tree, m - 1, k) THEN Joined(g[m - 2], name) ELSE g[m - 2]
    BY <1>1, <2>1 DEF Down, name
  <2>5. h[m - 1] = IF IsAbove(tree, m - 1, k) THEN Joined(name, h[m]) ELSE h[m]
    BY <1>2, <2>1 DEF Up, name
  <2>6. Joined(name, h[m]) \in Seq(X)
    BY <2>2, <2>3, JoinedType
  <2>7. Joined(Joined(g[m - 2], name), h[m]) = Joined(g[m - 2], Joined(name, h[m]))
    BY <2>2, <2>3, JoinedIsAssociative
  <2>8. h[m - 1] \in Seq(X) /\ Joined(g[m - 2], h[m - 1]) = g[k]
    BY <2>2, <2>4, <2>5, <2>6, <2>7, Zenon
  <2> QED BY <2>1, <2>8
<1>7. k - 1 \in S
  <2>1. k - 1 \in Nat /\ k - 1 \in 0 .. k - 1
    OBVIOUS
  <2> HIDE DEF S
  <2>2. \A n \in 0 .. k - 1 : n \in S
    BY <1>5, <1>6, <2>1, SetInduction
  <2> QED BY <2>1, <2>2
<1>8. Joined(g[0], h[1]) = g[k]
  <2>1. k - (k - 1) = 1 /\ k - (k - 1) - 1 = 0
    OBVIOUS
  <2> QED BY <1>7, <2>1
<1>9. Joined(<<>>, h[1]) = h[1]
  BY DEF Joined
<1> QED BY <1>1, <1>2, <1>8, <1>9

\* What Server's constructor and the builder make: the names of roots begin with a
\* slash, and every object has one.
IsRooted(tree, X) ==
  /\ tree[1].depth = 1
  /\ \A j \in DOMAIN tree :
       /\ tree[j].depth \in Nat \ {0} /\ tree[j].name \in Seq(X)
       /\ tree[j].depth = 1 => tree[j].name # <<>> /\ Head(tree[j].name) = Slash

\* The last root on the way to an object.
LEMMA RootLemma ==
  ASSUME NEW X, NEW tree, NEW k \in Nat \ {0}, 1 .. k \subseteq DOMAIN tree,
         IsRooted(tree, X)
  PROVE  \E r \in 1 .. k : /\ IsAbove(tree, r, k) /\ tree[r].depth = 1
                           /\ \A j \in 1 .. r - 1 : ~IsAbove(tree, j, k)
<1> DEFINE Behind == {k - r : r \in {r \in 1 .. k : tree[r].depth = 1}}
<1>1. Behind \in SUBSET Nat /\ Behind # {}
  <2>1. 1 \in 1 .. k /\ tree[1].depth = 1
    BY DEF IsRooted
  <2>2. \A r \in 1 .. k : k - r \in Nat
    OBVIOUS
  <2> QED BY <2>1, <2>2
<1>2. PICK x \in Behind : \A y \in Behind : x <= y
  BY <1>1, LeastNatural
<1>3. PICK r \in 1 .. k : tree[r].depth = 1 /\ x = k - r
  BY <1>2
<1>4. ASSUME NEW i \in r + 1 .. k PROVE tree[i].depth > 1
  <2>1. i \in 1 .. k /\ ~(k - r <= k - i)
    OBVIOUS
  <2>2. tree[i].depth # 1
    BY <1>2, <1>3, <2>1
  <2>3. tree[i].depth \in Nat \ {0}
    BY <2>1 DEF IsRooted
  <2> QED BY <2>2, <2>3
<1>5. IsAbove(tree, r, k)
  BY <1>3, <1>4 DEF IsAbove, IsAncestor
<1>6. ASSUME NEW j \in 1 .. r - 1 PROVE ~IsAbove(tree, j, k)
  <2>1. r \in j + 1 .. k /\ j # k /\ j \in 1 .. k
    OBVIOUS
  <2>2. tree[j].depth \in Nat \ {0}
    BY <2>1 DEF IsRooted
  <2>3. ~(tree[j].depth < tree[r].depth)
    BY <1>3, <2>2
  <2> QED BY <2>1, <2>3 DEF IsAbove, IsAncestor
<1> QED BY <1>3, <1>5, <1>6

\* What the names of the roots have, and names of other objects keep, the paths have.
LEMMA PathInSet ==
  ASSUME NEW X, NEW tree, NEW k \in Nat \ {0},
         1 .. k \subseteq DOMAIN tree, IsRooted(tree, X), NEW P,
         \A j \in 1 .. k : tree[j].depth = 1 => tree[j].name \in P,
         \A j \in 1 .. k : tree[j].depth # 1 =>
           \A p \in P : Joined(p, tree[j].name) \in P
  PROVE  PathFrom(tree, <<>>, k) \in P
<1>1. PICK g : /\ PathFrom(tree, <<>>, k) = g[k]
               /\ g[0] = <<>>
               /\ \A j \in 1 .. k : g[j] = Down(tree, k, g, j)
  BY PathFromLemma
<1>2. PICK r \in 1 .. k : /\ IsAbove(tree, r, k) /\ tree[r].depth = 1
                          /\ \A j \in 1 .. r - 1 : ~IsAbove(tree, j, k)
  BY RootLemma
<1> DEFINE S == {n \in Nat : IF n < r THEN g[n] = <<>> ELSE g[n] \in P}
<1>3. 0 \in S
  BY <1>1
<1>4. ASSUME NEW n \in Nat, n \in S, n < k PROVE n + 1 \in S
  <2> DEFINE name == tree[n + 1].name
  <2>1. n + 1 \in 1 .. k /\ (n + 1) - 1 = n
    BY <1>4
  <2>2. g[n + 1] = IF IsAbove(tree, n + 1, k) THEN Joined(g[n], name) ELSE g[n]
    BY <1>1, <2>1 DEF Down
  <2>3. CASE n + 1 < r
    <3>1. n + 1 \in 1 .. r - 1 /\ n < r
      BY <2>1, <2>3
    <3>2. g[n] = <<>> /\ ~IsAbove(tree, n + 1, k)
      BY <1>2, <1>4, <3>1
    <3> QED BY <2>2, <2>3, <3>2
  <2>4. CASE n + 1 = r
    <3>1. g[n] = <<>> /\ name \in P
      BY <1>2, <1>4, <2>1, <2>4
    <3>2. g[n + 1] = Joined(<<>>, name)
      BY <1>2, <2>2, <2>4, <3>1
    <3>3. g[n + 1] = name
      BY <3>2 DEF Joined
    <3> QED BY <2>4, <3>1, <3>3
  <2>5. CASE n + 1 > r
    <3>1. ~(n < r) /\ ~(n + 1 < r)
      BY <2>5
    <3>2. g[n] \in P
      BY <1>4, <3>1
    <3>3. tree[n + 1].depth # 1
      <4>1. r < k /\ n + 1 \in r + 1 .. k
        BY <2>1, <2>5
      <4>2. tree[r].depth < tree[n + 1].depth
        BY <1>2, <4>1 DEF IsAbove, IsAncestor
      <4> QED BY <1>2, <4>2
    <3>4. Joined(g[n], name) \in P
      BY <2>1, <3>2, <3>3
    <3> HIDE DEF name
    <3>5. g[n + 1] \in P
      BY <2>2, <3>2, <3>4
    <3> QED BY <3>1, <3>5
  <2> QED BY <2>1, <2>3, <2>4, <2>5
<1> HIDE DEF S
<1>5. \A n \in 0 .. k : n \in S
  BY <1>3, <1>4, SetInduction
<1>6. g[k] \in P
  BY <1>5 DEF S
<1> QED BY <1>1, <1>6

\* Paths begin with a slash.
LEMMA PathBegins ==
  ASSUME NEW X, Slash \in X, NEW tree, NEW k \in Nat \ {0},
         1 .. k \subseteq DOMAIN tree, IsRooted(tree, X)
  PROVE  LET p == PathFrom(tree, <<>>, k)
         IN p \in Seq(X) /\ p # <<>> /\ Head(p) = Slash
<1> DEFINE P == {p \in Seq(X) : p # <<>> /\ Head(p) = Slash}
<1>1. \A j \in 1 .. k : tree[j].name \in Seq(X)
                        /\ (tree[j].depth = 1 => tree[j].name \in P)
  BY DEF IsRooted
<1>2. ASSUME NEW j \in 1 .. k, NEW p \in P PROVE Joined(p, tree[j].name) \in P
  <2>1. p \in Seq(X) /\ p # <<>> /\ Head(p) = Slash
    OBVIOUS
  <2> DEFINE q == tree[j].name
  <2>2. q \in Seq(X)
    BY <1>1
  <2> HIDE DEF q
  <2> DEFINE joined == Joined(p, q)
  <2>3. joined \in Seq(X) /\ joined # <<>> /\ Head(joined) = Slash
    BY <2>1, <2>2, JoinedType
  <2> HIDE DEF joined
  <2>4. joined \in P
    BY <2>3
  <2> QED BY <2>4 DEF joined, q
<1> HIDE DEF P
<1>3. PathFrom(tree, <<>>, k) \in P
  BY <1>1, <1>2, PathInSet
<1> QED BY <1>3 DEF P

\* A path that D-Bus accepts stays one when a name without slashes is joined to it.
LEMMA JoinedIsPath ==
  ASSUME NEW X, Slash \in X, NEW p \in Seq(X), IsObjectPath(p),
         NEW q \in Seq(X), q # <<>>, \A i \in 1 .. Len(q) : q[i] # Slash
  PROVE  IsObjectPath(Joined(p, q))
<1>1. p # <<>> /\ Head(p) = Slash /\ Len(p) \in Nat \ {0} /\ Len(q) \in Nat \ {0}
  BY DEF IsObjectPath
<1>2. Head(q) # Slash /\ Last(q) # Slash
  BY <1>1 DEF Last
<1>3. CASE Last(p) = Slash
  <2>1. p = <<Slash>>
    BY <1>3 DEF IsObjectPath
  <2>2. Joined(p, q) = p \o q
    BY <1>1, <1>2, <1>3 DEF Joined
  <2>3. Joined(p, q) = <<Slash>> \o q
    BY <2>1, <2>2
  <2> DEFINE s == <<Slash>> \o q
  <2>4. /\ s \in Seq(X) /\ Len(s) = Len(q) + 1 /\ s[1] = Slash
        /\ \A i \in 2 .. Len(q) + 1 : s[i] # Slash
    <3>1. <<Slash>> \in Seq(X) /\ Len(<<Slash>>) = 1 /\ <<Slash>>[1] = Slash
      OBVIOUS
    <3> QED BY <3>1, <1>1
  <2> HIDE DEF s
  <2>5. s # <<>> /\ Head(s) = Slash /\ Last(s) # Slash
    BY <1>1, <2>4 DEF Last
  <2>6. \A i \in 1 .. Len(s) - 1 : s[i + 1] # Slash
    BY <1>1, <2>4
  <2> QED BY <2>3, <2>5, <2>6 DEF IsObjectPath, s
<1>4. CASE Last(p) # Slash
  <2>1. Joined(p, q) = p \o <<Slash>> \o q
    BY <1>1, <1>2, <1>4 DEF Joined
  <2> DEFINE a == p \o <<Slash>>
             s == a \o q
             m == Len(p)
             n == Len(q)
  <2>2. /\ a \in Seq(X) /\ Len(a) = m + 1 /\ a[m + 1] = Slash
        /\ \A i \in 1 .. m : a[i] = p[i]
    BY <1>1
  <2>3. m \in Nat \ {0} /\ n \in Nat \ {0} /\ p[1] = Slash /\ p[m] # Slash
    BY <1>1, <1>4 DEF Last
  <2> HIDE DEF a
  <2>4. /\ s \in Seq(X) /\ Len(s) = m + 1 + n
        /\ \A i \in 1 .. m + 1 : s[i] = a[i]
        /\ \A i \in m + 2 .. m + 1 + n : s[i] = q[i - (m + 1)]
    <3>1. /\ s \in Seq(X) /\ Len(s) = Len(a) + Len(q)
          /\ \A i \in 1 .. Len(a) + Len(q) :
               s[i] = IF i <= Len(a) THEN a[i] ELSE q[i - Len(a)]
      BY <2>2, ConcatProperties, Zenon
    <3> HIDE DEF s, m, n
    <3>2. Len(a) = m + 1 /\ Len(q) = n
      BY <2>2 DEF n
    <3>3. ASSUME NEW i \in 1 .. m + 1 PROVE s[i] = a[i]
      <4>1. i \in 1 .. m + 1 + n /\ i <= m + 1
        BY <2>3
      <4> QED BY <3>1, <3>2, <4>1
    <3>4. ASSUME NEW i \in m + 2 .. m + 1 + n PROVE s[i] = q[i - (m + 1)]
      <4>1. i \in 1 .. m + 1 + n /\ ~(i <= m + 1)
        BY <2>3
      <4> QED BY <3>1, <3>2, <4>1
    <3> QED BY <3>1, <3>2, <3>3, <3>4
  <2> HIDE DEF s
  <2>5. \A i \in 1 .. n : q[i] # Slash
    OBVIOUS
  <2>6. \A i \in 1 .. m - 1 : p[i] = Slash => p[i + 1] # Slash
    <3>1. CASE p = <<Slash>>
      BY <3>1, <1>4, <2>3
    <3>2. CASE p # <<Slash>>
      BY <3>2 DEF IsObjectPath
    <3> QED BY <3>1, <3>2
  <2> HIDE DEF m, n
  <2>7. \A i \in m + 2 .. m + 1 + n : s[i] # Slash
    <3>1. \A i \in m + 2 .. m + 1 + n : i - (m + 1) \in 1 .. n
      BY <2>3
    <3> QED BY <2>4, <2>5, <3>1
  <2>8. s # <<>> /\ Head(s) = Slash /\ Last(s) # Slash
    BY <2>2, <2>3, <2>4, <2>7 DEF Last
  <2>9. ASSUME NEW i \in 1 .. Len(s) - 1, s[i] = Slash PROVE s[i + 1] # Slash
    <3>1. i \in 1 .. m + n /\ i \in Nat
      BY <2>3, <2>4
    <3>2. CASE i < m
      <4>1. i \in 1 .. m - 1 /\ i \in 1 .. m + 1 /\ i + 1 \in 1 .. m + 1
            /\ i \in 1 .. m /\ i + 1 \in 1 .. m
        BY <2>3, <3>1, <3>2
      <4> QED BY <2>2, <2>4, <2>6, <2>9, <4>1
    <3>3. CASE i = m
      <4>1. m \in 1 .. m + 1 /\ m \in 1 .. m
        BY <2>3
      <4> QED BY <2>2, <2>3, <2>4, <2>9, <3>3, <4>1
    <3>4. CASE i > m
      <4>1. i + 1 \in m + 2 .. m + 1 + n
        BY <2>3, <3>1, <3>4
      <4> QED BY <2>7, <4>1
    <3> QED BY <2>3, <3>1, <3>2, <3>3, <3>4
  <2> QED BY <2>1, <2>8, <2>9 DEF IsObjectPath, s, a
<1> QED BY <1>3, <1>4

\* Names without slashes below roots with paths that D-Bus accepts give paths that
\* D-Bus accepts: registerNodeHierarchy is only refused a path by a name with one.
THEOREM PlainNamesMakePaths ==
  ASSUME NEW X, Slash \in X, NEW tree, NEW k \in Nat \ {0},
         1 .. k \subseteq DOMAIN tree, IsRooted(tree, X),
         \A j \in 1 .. k :
           IF tree[j].depth = 1 THEN IsObjectPath(tree[j].name)
           ELSE tree[j].name # <<>>
                /\ \A i \in 1 .. Len(tree[j].name) : tree[j].name[i] # Slash
  PROVE  IsObjectPath(RegisteredPath(tree, k))
<1> DEFINE P == {p \in Seq(X) : IsObjectPath(p)}
<1>1. \A j \in 1 .. k : tree[j].name \in Seq(X)
  BY DEF IsRooted
<1>2. \A j \in 1 .. k : tree[j].depth = 1 => tree[j].name \in P
  BY <1>1
<1>3. ASSUME NEW j \in 1 .. k, tree[j].depth # 1, NEW p \in P
      PROVE  Joined(p, tree[j].name) \in P
  <2> DEFINE q == tree[j].name
  <2>1. /\ q \in Seq(X) /\ q # <<>> /\ p \in Seq(X) /\ IsObjectPath(p)
        /\ \A i \in 1 .. Len(q) : q[i] # Slash
    BY <1>1, <1>3
  <2> HIDE DEF q
  <2>2. IsObjectPath(Joined(p, q)) /\ Joined(p, q) \in Seq(X)
    BY <2>1, JoinedIsPath, JoinedType
  <2> QED BY <2>2 DEF q
<1> HIDE DEF P
<1>4. PathFrom(tree, <<>>, k) \in P
  BY <1>2, <1>3, PathInSet
<1> QED BY <1>4 DEF P, RegisteredPath

\* An object has one path, whether it is registered, looked up, told to BlueZ or
\* carried by a signal.
THEOREM OnePath ==
  ASSUME NEW X, Slash \in X, NEW tree, NEW k \in Nat \ {0},
         1 .. k \subseteq DOMAIN tree, IsRooted(tree, X)
  PROVE  /\ LookupPath(tree, k) = RegisteredPath(tree, k)
         /\ ManagedPath(tree, k) = RegisteredPath(tree, k)
         /\ GetPath(tree, k) = RegisteredPath(tree, k)
<1> DEFINE p == RegisteredPath(tree, k)
<1>1. p \in Seq(X) /\ p # <<>> /\ Head(p) = Slash
  BY PathBegins DEF RegisteredPath
<1>2. \A j \in 1 .. k : tree[j].name \in Seq(X)
  BY DEF IsRooted
<1>3. <<Slash>> \in Seq(X)
  OBVIOUS
<1>4. LookupPath(tree, k) = Joined(<<Slash>>, p)
  BY <1>2, <1>3, BaseLemma DEF LookupPath, RegisteredPath
<1>5. Joined(<<Slash>>, p) = p
  <2>1. Last(<<Slash>>) = Slash /\ Front(<<Slash>>) = <<>> /\ <<Slash>> # <<>>
    BY DEF Last, Front
  <2> HIDE DEF p
  <2> QED BY <1>1, <2>1 DEF Joined
<1>6. GetPath(tree, k) = p
  BY <1>2, UpIsDown DEF RegisteredPath
<1> QED BY <1>4, <1>5, <1>6 DEF ManagedPath, RegisteredPath

-----------------------------------------------------------------------------
(* The searches                                                              *)

\* A walk comes to s before it comes to t.
IsBefore(s, t) == s[1] < t[1] \/ (s[1] = t[1] /\ s[2] < t[2])

\* Some slot is the first of a walk, and FirstSlot is that one.
LEMMA FirstSlotLemma ==
  ASSUME NEW slots \in SUBSET (Nat \X Nat), slots # {}
  PROVE  FirstSlot(slots) \in slots /\ \A t \in slots : ~IsBefore(t, FirstSlot(slots))
<1> DEFINE Objs == {s[1] : s \in slots}
<1>1. Objs \in SUBSET Nat /\ Objs # {}
  OBVIOUS
<1>2. PICK k \in Objs : \A x \in Objs : k <= x
  BY <1>1, LeastNatural
<1> DEFINE Places == {s[2] : s \in {s \in slots : s[1] = k}}
<1>3. Places \in SUBSET Nat /\ Places # {}
  OBVIOUS
<1>4. PICK i \in Places : \A x \in Places : i <= x
  BY <1>3, LeastNatural
<1>5. PICK s \in slots : s[1] = k /\ s[2] = i
  BY <1>4
<1>6. \A t \in slots : s[1] < t[1] \/ (s[1] = t[1] /\ s[2] <= t[2])
  <2> TAKE t \in slots
  <2>1. s[1] \in Nat /\ t[1] \in Nat /\ s[2] \in Nat /\ t[2] \in Nat /\ s[1] <= t[1]
    BY <1>2, <1>5
  <2>2. s[1] = t[1] => s[2] <= t[2]
    BY <1>4, <1>5
  <2> QED BY <2>1, <2>2
<1> DEFINE f == FirstSlot(slots)
<1>7. f \in slots /\ \A t \in slots : f[1] < t[1] \/ (f[1] = t[1] /\ f[2] <= t[2])
  BY <1>6 DEF FirstSlot
<1> HIDE DEF f
<1>8. ASSUME NEW t \in slots PROVE ~IsBefore(t, f)
  <2>1. f[1] \in Nat /\ t[1] \in Nat /\ f[2] \in Nat /\ t[2] \in Nat
    BY <1>7
  <2> QED BY <1>7, <2>1 DEF IsBefore
<1> QED BY <1>7, <1>8 DEF f

LEMMA IsFirstSlot ==
  ASSUME NEW slots \in SUBSET (Nat \X Nat), NEW s \in slots,
         \A t \in slots : t = s \/ ~IsBefore(t, s)
  PROVE  FirstSlot(slots) = s
<1> DEFINE f == FirstSlot(slots)
<1>1. f \in slots /\ ~IsBefore(s, f)
  BY FirstSlotLemma
<1>2. f = s \/ ~IsBefore(f, s)
  BY <1>1
<1>3. /\ f = <<f[1], f[2]>> /\ s = <<s[1], s[2]>>
      /\ f[1] \in Nat /\ f[2] \in Nat /\ s[1] \in Nat /\ s[2] \in Nat
  BY <1>1
<1> HIDE DEF f
<1>4. f = s
  BY <1>1, <1>2, <1>3 DEF IsBefore
<1> QED BY <1>4 DEF f

\* The slots of a tree are pairs of numbers.
LEMMA SlotsLemma ==
  ASSUME NEW S, NEW tree \in Seq(S)
  PROVE  /\ Slots(tree) \in SUBSET (Nat \X Nat)
         /\ \A s \in Slots(tree) : s[1] \in Nat \ {0} /\ s[1] \in DOMAIN tree
                                   /\ 1 .. s[1] \subseteq DOMAIN tree
<1>1. Len(tree) \in Nat /\ DOMAIN tree = 1 .. Len(tree)
  OBVIOUS
<1>2. Slots(tree) \subseteq (DOMAIN tree) \X (1 .. 2)
  BY DEF Slots
<1>3. ASSUME NEW s \in Slots(tree)
      PROVE  s \in Nat \X Nat /\ s[1] \in Nat \ {0} /\ s[1] \in 1 .. Len(tree)
             /\ 1 .. s[1] \subseteq 1 .. Len(tree)
  BY <1>1, <1>2
<1> QED BY <1>1, <1>3
=============================================================================

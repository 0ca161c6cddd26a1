------------------------- MODULE UpdateQueue_proofs -------------------------
(***************************************************************************)
(* Proofs about UpdateQueue, for any number of threads, entries and changes: *)
(* its types, that no change is swallowed, that changes of the advertising   *)
(* data are applied, and that it implements UpdateFifo.                      *)
(***************************************************************************)
EXTENDS UpdateQueue, SequenceTheorems, TLAPS

\* A push in front adds one entry, which becomes the last of the reverse.
LEMMA PushLemma ==
  ASSUME NEW S, NEW q \in Seq(S), NEW e \in S
  PROVE  /\ <<e>> \o q \in Seq(S)
         /\ ToSet(<<e>> \o q) = ToSet(q) \cup {e}
         /\ Reverse(<<e>> \o q) = Append(Reverse(q), e)
<1> DEFINE p == <<e>> \o q
<1>1. p \in Seq(S) /\ Len(p) = Len(q) + 1
  OBVIOUS
<1>2. p[1] = e /\ \A i \in 1 .. Len(q) : p[i + 1] = q[i]
  OBVIOUS
<1>3. \A i \in 2 .. Len(p) : i - 1 \in 1 .. Len(q) /\ p[i] = q[i - 1]
  BY <1>1, <1>2
<1>4. ToSet(p) = ToSet(q) \cup {e}
  <2>1. ASSUME NEW x \in ToSet(p) PROVE x \in ToSet(q) \cup {e}
    <3>1. PICK i \in 1 .. Len(p) : x = p[i]
      BY <1>1 DEF ToSet
    <3>2. CASE i = 1
      BY <3>1, <3>2, <1>2
    <3>3. CASE i # 1
      BY <3>1, <3>3, <1>1, <1>3 DEF ToSet
    <3> QED BY <3>2, <3>3
  <2>2. ASSUME NEW x \in ToSet(q) PROVE x \in ToSet(p)
    <3>1. PICK i \in 1 .. Len(q) : x = q[i]
      BY DEF ToSet
    <3>2. i + 1 \in 1 .. Len(p) /\ p[i + 1] = x
      BY <3>1, <1>1, <1>2
    <3> QED BY <3>2, <1>1 DEF ToSet
  <2>3. e \in ToSet(p)
    BY <1>1, <1>2 DEF ToSet
  <2> QED BY <2>1, <2>2, <2>3
<1>5. Reverse(p) = Append(Reverse(q), e)
  <2>1. Reverse(q) \in Seq(S) /\ Len(Reverse(q)) = Len(q)
    BY DEF Reverse
  <2>2. Reverse(p) \in Seq(S) /\ Len(Reverse(p)) = Len(q) + 1
    BY <1>1 DEF Reverse
  <2>3. ASSUME NEW i \in 1 .. Len(q) + 1 PROVE Reverse(p)[i] = Append(Reverse(q), e)[i]
    <3>1. CASE i = Len(q) + 1
      BY <3>1, <2>1, <1>1, <1>2 DEF Reverse
    <3>2. CASE i # Len(q) + 1
      <4>1. i \in 1 .. Len(q) /\ (Len(p) - i) + 1 \in 2 .. Len(p)
        BY <3>2, <1>1
      <4>2. Reverse(p)[i] = q[(Len(q) - i) + 1]
        BY <4>1, <1>1, <1>3 DEF Reverse
      <4> QED BY <4>1, <4>2, <2>1 DEF Reverse
    <3> QED BY <3>1, <3>2
  <2>4. Append(Reverse(q), e) \in Seq(S) /\ Len(Append(Reverse(q), e)) = Len(q) + 1
    BY <2>1
  <2> QED BY <2>2, <2>3, <2>4, SeqEqual
<1> QED BY <1>1, <1>4, <1>5

\* A pop at the back takes one entry, the first of the reverse.
LEMMA PopLemma ==
  ASSUME NEW S, NEW q \in Seq(S), q # <<>>
  PROVE  /\ Front(q) \in Seq(S) /\ Last(q) \in S
         /\ ToSet(q) = ToSet(Front(q)) \cup {Last(q)}
         /\ Reverse(q) # <<>> /\ Head(Reverse(q)) = Last(q)
         /\ Reverse(Front(q)) = Tail(Reverse(q))
<1> DEFINE n == Len(q)
           f == Front(q)
<1>1. n \in Nat /\ n > 0
  OBVIOUS
<1>2. /\ f \in Seq(S) /\ Len(f) = n - 1
      /\ \A i \in 1 .. n - 1 : f[i] = q[i]
  <2>1. /\ 1 \in Int /\ n - 1 \in Int
        /\ \A i \in 1 .. n - 1 : q[i] \in S
    BY <1>1
  <2>2. /\ SubSeq(q, 1, n - 1) \in Seq(S)
        /\ Len(SubSeq(q, 1, n - 1)) = IF 1 <= n - 1 THEN n - 1 - 1 + 1 ELSE 0
        /\ \A i \in 1 .. n - 1 - 1 + 1 : SubSeq(q, 1, n - 1)[i] = q[1 + i - 1]
    BY <2>1, SubSeqProperties
  <2>3. f = SubSeq(q, 1, n - 1)
    BY Zenon DEF Front
  <2> HIDE DEF f
  <2>4. \A i \in 1 .. n - 1 : 1 + i - 1 = i /\ i \in 1 .. n - 1 - 1 + 1
    BY <1>1
  <2>5. (IF 1 <= n - 1 THEN n - 1 - 1 + 1 ELSE 0) = n - 1
    <3>1. ASSUME NEW m \in Nat, m > 0
          PROVE  (IF 1 <= m - 1 THEN m - 1 - 1 + 1 ELSE 0) = m - 1
      BY <3>1
    <3> QED BY <1>1, <3>1
  <2> QED BY <2>2, <2>3, <2>4, <2>5
<1>3. Last(q) = q[n] /\ Last(q) \in S
  BY <1>1 DEF Last
<1>4. ToSet(q) = ToSet(f) \cup {Last(q)}
  <2>1. ASSUME NEW x \in ToSet(q) PROVE x \in ToSet(f) \cup {Last(q)}
    <3>1. PICK i \in 1 .. n : x = q[i]
      BY DEF ToSet
    <3> QED BY <3>1, <1>1, <1>2, <1>3 DEF ToSet
  <2>2. ASSUME NEW x \in ToSet(f) PROVE x \in ToSet(q)
    BY <1>1, <1>2 DEF ToSet
  <2>3. Last(q) \in ToSet(q)
    BY <1>1, <1>3 DEF ToSet
  <2> QED BY <2>1, <2>2, <2>3
<1>5. Reverse(q) # <<>> /\ Reverse(f) = Tail(Reverse(q))
  <2>1. Reverse(q) \in Seq(S) /\ Len(Reverse(q)) = n /\ Reverse(q) # <<>>
    BY <1>1 DEF Reverse
  <2>2. Reverse(f) \in Seq(S) /\ Len(Reverse(f)) = n - 1
    BY <1>1, <1>2 DEF Reverse
  <2>3. Tail(Reverse(q)) \in Seq(S) /\ Len(Tail(Reverse(q))) = n - 1
    BY <1>1, <2>1
  <2>4. ASSUME NEW i \in 1 .. n - 1 PROVE Reverse(f)[i] = Tail(Reverse(q))[i]
    <3>1. Tail(Reverse(q))[i] = Reverse(q)[i + 1]
      BY <2>1, <2>3, HeadTailProperties
    <3>2. Reverse(q)[i + 1] = q[n - i] /\ Reverse(f)[i] = f[n - i]
      BY <1>1, <1>2 DEF Reverse
    <3>3. q[n - i] = f[n - i]
      BY <1>1, <1>2
    <3> QED BY <3>1, <3>2, <3>3
  <2> QED BY <2>2, <2>3, <2>4, SeqEqual
<1>6. Head(Reverse(q)) = Last(q)
  <2>1. Reverse(q) \in Seq(S) /\ Reverse(q) # <<>> /\ Reverse(q)[1] = q[n]
    BY <1>1 DEF Reverse
  <2> QED BY <2>1, <1>3
<1> QED BY <1>2, <1>3, <1>4, <1>5, <1>6

-----------------------------------------------------------------------------
(* The invariants that the steps preserve.                                   *)

Pending(e) ==
  \/ e \in ToSet(queue)
  \/ \E t \in Apps : app[t].at = "push" /\ app[t].entry = e

Handling(at, e) == idle.at = at /\ idle.entry = e

\* What the handler holds of a characteristic is its last value, or another
\* update of it is coming, or the application has taken the last one.
ShownInv ==
  \A c \in Characteristics :
    \/ c \in taken
    \/ Pending(c) \/ Handling("read", c)
    \/ Handling("emit", c) /\ idle.data = value[c]
    \/ ~Handling("emit", c) /\ shown[c] = value[c]

AdPending ==
  lost \/ Pending(Advertisement) \/ \E t \in Apps : app[t].at = "check"

\* The same for the advertising data, from configureAdapter's reading on.
AdInv ==
  /\ \A t \in Apps : app[t].at = "check" => app[t].entry = Advertisement
  /\ phase = "initializing" =>
       /\ idle.at \in {"idle", "advertise"}
       /\ idle.at = "advertise" => AdPending \/ idle.data = adverts
  /\ phase \in {"configured", "running"} =>
       \/ AdPending \/ Handling("read", Advertisement)
       \/ idle.at = "advertise" /\ idle.data = adverts
       \/ idle.at # "advertise" /\ advertised = adverts

\* Every step of Next is one of the actions, named one by one.
LEMMA NextCases ==
  ASSUME [Next]_vars
  PROVE  \/ \E t \in Apps, a \in Attributes : Changes(t, a)
         \/ \E t \in Apps : Pushes(t)
         \/ \E t \in Apps : PushesUnchanged(t)
         \/ \E t \in Apps : ChangesAdvertising(t)
         \/ \E t \in Apps : ChecksRunning(t)
         \/ AppDrains \/ ReadsInitialData \/ IsConfigured \/ StartsRunning
         \/ IdleChecks \/ IdlePops \/ IdleFindsNothing \/ HandlerReads
         \/ HandlerEmits \/ FindsNoCharacteristic \/ ReadsAdvertising
         \/ Advertises \/ AdvertisingRefused \/ Stops \/ UNCHANGED vars
BY DEF Next, ServerStep

\* Every action keeps the types.
LEMMA TypeStep ==
  ASSUME TypeOK, [Next]_vars
  PROVE  TypeOK'
<1>0. /\ Advertisement \in Entries /\ Attributes \subseteq Entries
      /\ Characteristics \subseteq Attributes
  BY DEF Entries, Attributes
<1> USE <1>0, QueueAssumption DEF TypeOK, dataVars, adVars, Free, NoWork,
    Versions, Phases
<1>1. ASSUME NEW t \in Apps, NEW a \in Attributes, Changes(t, a) PROVE TypeOK'
  BY <1>1 DEF Changes
<1>2. ASSUME NEW t \in Apps, Pushes(t) PROVE TypeOK'
  <2>1. app[t].entry \in Entries
    OBVIOUS
  <2>2. queue' \in Seq(Entries)
    BY <1>2, <2>1, PushLemma DEF Pushes, PushFront
  <2> QED BY <1>2, <2>2 DEF Pushes
<1>3. ASSUME NEW t \in Apps, PushesUnchanged(t) PROVE TypeOK'
  <2>1. queue' \in Seq(Entries)
    BY <1>3, PushLemma DEF PushesUnchanged, PushFront
  <2> QED BY <1>3, <2>1 DEF PushesUnchanged
<1>4. ASSUME NEW t \in Apps, ChangesAdvertising(t) PROVE TypeOK'
  BY <1>4 DEF ChangesAdvertising
<1>5. ASSUME NEW t \in Apps, ChecksRunning(t) PROVE TypeOK'
  <2>1. CASE phase = "running"
    <3>1. /\ app' = [app EXCEPT ![t] = [app[t] EXCEPT !.at = "push"]]
          /\ lost' = lost
      BY <1>5, <2>1, Zenon DEF ChecksRunning
    <3>2. [app[t] EXCEPT !.at = "push"] \in [at : {"free", "check", "push"},
                                             entry : Entries]
      OBVIOUS
    <3>3. app' \in [Apps -> [at : {"free", "check", "push"}, entry : Entries]]
      BY <3>1, <3>2
    <3>4. UNCHANGED <<queue, given, phase, value, shown, taken, adverts, advertised, idle>>
      BY <1>5 DEF ChecksRunning
    <3>5. lost' \in BOOLEAN
      BY <3>1, Zenon
    <3> QED BY <3>3, <3>4, <3>5
  <2>2. CASE phase # "running"
    <3>1. app' = [app EXCEPT ![t] = Free] /\ lost' = TRUE
      BY <1>5, <2>2, Zenon DEF ChecksRunning
    <3>2. app' \in [Apps -> [at : {"free", "check", "push"}, entry : Entries]]
      BY <3>1
    <3>3. UNCHANGED <<queue, given, phase, value, shown, taken, adverts, advertised, idle>>
      BY <1>5 DEF ChecksRunning
    <3>4. lost' \in BOOLEAN
      BY <3>1, Zenon
    <3> QED BY <3>2, <3>3, <3>4
  <2> QED BY <2>1, <2>2
<1>6. CASE AppDrains
  <2>1. CASE \E keep \in BOOLEAN : PopBack(keep)
    <3>1. /\ queue # <<>> /\ (queue' = queue \/ queue' = Front(queue))
          /\ given' = Last(queue)
      BY <2>1 DEF PopBack
    <3>2. Front(queue) \in Seq(Entries) /\ Last(queue) \in Entries
      BY <3>1, PopLemma
    <3> QED BY <3>1, <3>2, <1>6 DEF AppDrains
  <2>2. CASE queue' = <<>> /\ UNCHANGED given
    BY <2>2, <1>6 DEF AppDrains
  <2> QED BY <1>6, <2>1, <2>2 DEF AppDrains
<1>7. CASE ReadsInitialData
  BY <1>7 DEF ReadsInitialData
<1>8. CASE IsConfigured
  BY <1>8 DEF IsConfigured
<1>9. CASE StartsRunning
  BY <1>9 DEF StartsRunning
<1>10. CASE IdleChecks
  BY <1>10 DEF IdleChecks
<1>11. CASE IdlePops
  <2>0. queue # <<>> /\ queue' = Front(queue) /\ given' = Last(queue)
    BY <1>11 DEF IdlePops, PopBack, BackFits
  <2>1. queue' \in Seq(Entries) /\ given' \in Entries
    BY <2>0, PopLemma
  <2> QED BY <1>11, <2>1 DEF IdlePops
<1>12. CASE IdleFindsNothing
  BY <1>12 DEF IdleFindsNothing
<1>13. CASE HandlerReads
  BY <1>13 DEF HandlerReads
<1>14. CASE HandlerEmits
  BY <1>14 DEF HandlerEmits
<1>15. CASE FindsNoCharacteristic
  BY <1>15 DEF FindsNoCharacteristic
<1>16. CASE ReadsAdvertising
  BY <1>16 DEF ReadsAdvertising
<1>17. CASE Advertises
  BY <1>17 DEF Advertises
<1>18. CASE Stops
  BY <1>18 DEF Stops
<1>19. CASE UNCHANGED vars
  BY <1>19 DEF vars
<1>20. CASE AdvertisingRefused
  BY <1>20 DEF AdvertisingRefused
<1> QED
  BY NextCases, <1>1, <1>2, <1>3, <1>4, <1>5, <1>6, <1>7, <1>8, <1>9, <1>10,
     <1>11, <1>12, <1>13, <1>14, <1>15, <1>16, <1>17, <1>18, <1>19, <1>20

\* The initial state has the types.
LEMMA InitTypes == Init => TypeOK
<1> SUFFICES ASSUME Init PROVE TypeOK
  OBVIOUS
<1> USE QueueAssumption DEF Init, Entries, Attributes, Versions
<1>1. queue \in Seq(Entries) /\ given \in Entries /\ phase \in Phases
  BY DEF Phases
<1>2. /\ value \in [Attributes -> Versions] /\ shown \in [Attributes -> Versions]
      /\ adverts \in Versions /\ advertised \in 0 .. MaxChanges + 1
  OBVIOUS
<1>3. app \in [Apps -> [at : {"free", "check", "push"}, entry : Entries]]
  BY DEF Free
<1>4. /\ idle \in [at : {"idle", "pop", "read", "emit", "advertise"},
                   entry : Entries, data : Versions]
      /\ idle.at # "emit"
  BY DEF NoWork
<1>5. lost \in BOOLEAN
  BY Zenon
<1> QED BY <1>1, <1>2, <1>3, <1>4, <1>5, Zenon DEF TypeOK

\* The queue holds entries, and every thread and the server keep to their states.
THEOREM TypeCorrect == Spec => []TypeOK
<1>1. Init => TypeOK
  BY InitTypes
<1>2. TypeOK /\ [Next]_vars => TypeOK'
  BY TypeStep
<1> QED BY <1>1, <1>2, PTL DEF Spec

-----------------------------------------------------------------------------
(* No change is swallowed.                                                   *)

\* How the two operations change the set of entries.
LEMMA QueueSets ==
  ASSUME TypeOK
  PROVE  /\ \A e \in Entries : PushFront(e) => ToSet(queue') = ToSet(queue) \cup {e}
         /\ BackFits /\ PopBack(FALSE) => ToSet(queue) = ToSet(queue') \cup {Last(queue)}
<1>1. ASSUME NEW e \in Entries, PushFront(e)
      PROVE  ToSet(queue') = ToSet(queue) \cup {e}
  BY <1>1, PushLemma DEF PushFront, TypeOK
<1>2. ASSUME BackFits, PopBack(FALSE)
      PROVE  ToSet(queue) = ToSet(queue') \cup {Last(queue)}
  <2>1. queue # <<>> /\ queue' = Front(queue)
    BY <1>2 DEF BackFits, PopBack
  <2> QED BY <2>1, PopLemma DEF TypeOK
<1> QED BY <1>1, <1>2

\* Every action keeps ShownInv.
LEMMA ShownStep ==
  ASSUME TypeOK, ShownInv, [Next]_vars
  PROVE  ShownInv'
<1>0. /\ Advertisement \in Entries /\ Attributes \subseteq Entries
      /\ Characteristics \subseteq Attributes /\ Advertisement \notin Characteristics
      /\ Characteristics \cap Descriptors = {} /\ Characteristics \cap Strangers = {}
  BY QueueAssumption DEF Entries, Attributes
<1> USE <1>0 DEF ShownInv, TypeOK, Pending, Handling, dataVars, adVars, Free, NoWork
<1>1. ASSUME NEW t \in Apps, NEW a \in Attributes, Changes(t, a)
      PROVE  ShownInv'
  <2>1. ASSUME NEW d \in Characteristics, a = d PROVE Pending(d)'
    BY <1>1, <2>1 DEF Changes
  <2>2. ASSUME NEW d \in Characteristics, a # d, Pending(d) PROVE Pending(d)'
    BY <1>1, <2>2 DEF Changes
  <2>3. ASSUME NEW d \in Characteristics, a # d PROVE value'[d] = value[d]
    BY <1>1, <2>3 DEF Changes
  <2>4. idle' = idle /\ shown' = shown /\ taken' = taken
    BY <1>1 DEF Changes
  <2> QED BY <2>1, <2>2, <2>3, <2>4
<1>2. ASSUME NEW t \in Apps, Pushes(t) PROVE ShownInv'
  <2>1. app[t].entry \in Entries /\ PushFront(app[t].entry)
    BY <1>2 DEF Pushes
  <2>2. ToSet(queue') = ToSet(queue) \cup {app[t].entry}
    BY <2>1, QueueSets
  <2>3. ASSUME NEW d \in Characteristics, Pending(d) PROVE Pending(d)'
    BY <1>2, <2>2, <2>3 DEF Pushes
  <2>4. idle' = idle /\ shown' = shown /\ value' = value
    BY <1>2 DEF Pushes
  <2>5. ASSUME NEW d \in taken, d \notin taken' PROVE Pending(d)'
    BY <1>2, <2>2, <2>5 DEF Pushes
  <2> QED BY <2>3, <2>4, <2>5
<1>3. ASSUME NEW t \in Apps, PushesUnchanged(t) PROVE ShownInv'
  <2>0. PICK e \in Entries : PushFront(e) /\ taken' = taken \ {e}
    BY <1>3 DEF PushesUnchanged
  <2>1. ToSet(queue') = ToSet(queue) \cup {e}
    BY <2>0, QueueSets
  <2>2. idle' = idle /\ shown' = shown /\ value' = value /\ app' = app
    BY <1>3 DEF PushesUnchanged
  <2>3. ASSUME NEW d \in Characteristics, Pending(d) PROVE Pending(d)'
    BY <2>1, <2>2, <2>3
  <2>4. ASSUME NEW d \in taken, d \notin taken' PROVE Pending(d)'
    BY <2>0, <2>1, <2>4
  <2> QED BY <2>2, <2>3, <2>4
<1>4. ASSUME NEW t \in Apps, ChangesAdvertising(t) PROVE ShownInv'
  <2>1. ASSUME NEW d \in Characteristics, Pending(d) PROVE Pending(d)'
    BY <1>4, <2>1 DEF ChangesAdvertising
  <2> QED BY <1>4, <2>1 DEF ChangesAdvertising
<1>5. ASSUME NEW t \in Apps, ChecksRunning(t) PROVE ShownInv'
  <2>1. ASSUME NEW d \in Characteristics, Pending(d) PROVE Pending(d)'
    BY <1>5, <2>1 DEF ChecksRunning
  <2> QED BY <1>5, <2>1 DEF ChecksRunning
<1>6. CASE AppDrains
  <2>1. /\ taken' = taken \cup ((ToSet(queue) \ ToSet(queue')) \cap Characteristics)
        /\ UNCHANGED <<app, idle, shown, value>>
    BY <1>6 DEF AppDrains
  <2>2. ASSUME NEW d \in Characteristics, Pending(d) PROVE d \in taken' \/ Pending(d)'
    BY <2>1, <2>2
  <2> QED BY <2>1, <2>2
<1>7. CASE ReadsInitialData
  BY <1>7 DEF ReadsInitialData
<1>8. CASE IsConfigured
  BY <1>8 DEF IsConfigured
<1>9. CASE StartsRunning
  BY <1>9 DEF StartsRunning
<1>10. CASE IdleChecks
  BY <1>10 DEF IdleChecks
<1>11. CASE IdlePops
  <2>1. ToSet(queue) = ToSet(queue') \cup {Last(queue)}
    BY <1>11, QueueSets DEF IdlePops
  <2>2. /\ idle' = [at |-> "read", entry |-> Last(queue), data |-> 0]
        /\ idle.at = "pop" /\ UNCHANGED <<app, value, shown, taken>>
    BY <1>11 DEF IdlePops, PopBack
  <2> QED BY <2>1, <2>2
<1>12. CASE IdleFindsNothing
  BY <1>12 DEF IdleFindsNothing
<1>13. CASE HandlerReads
  BY <1>13 DEF HandlerReads
<1>14. CASE HandlerEmits
  BY <1>14 DEF HandlerEmits
<1>15. CASE FindsNoCharacteristic
  BY <1>15 DEF FindsNoCharacteristic
<1>16. CASE ReadsAdvertising
  BY <1>16 DEF ReadsAdvertising
<1>17. CASE Advertises
  BY <1>17 DEF Advertises
<1>18. CASE Stops
  BY <1>18 DEF Stops
<1>19. CASE UNCHANGED vars
  BY <1>19 DEF vars
<1>20. CASE AdvertisingRefused
  BY <1>20 DEF AdvertisingRefused
<1> QED
  BY NextCases, <1>1, <1>2, <1>3, <1>4, <1>5, <1>6, <1>7, <1>8, <1>9, <1>10,
     <1>11, <1>12, <1>13, <1>14, <1>15, <1>16, <1>17, <1>18, <1>19, <1>20

\* Every action keeps AdInv.
LEMMA AdStep ==
  ASSUME TypeOK, AdInv, [Next]_vars
  PROVE  AdInv'
<1>0. /\ Advertisement \in Entries /\ Advertisement \notin Attributes
      /\ Advertisement \notin Characteristics
      /\ Advertisement \notin Descriptors \cup Strangers
  BY QueueAssumption DEF Entries, Attributes
<1> USE <1>0 DEF AdInv, AdPending, TypeOK, Pending, Handling, dataVars, adVars,
    Free, NoWork
<1>1. ASSUME NEW t \in Apps, NEW a \in Attributes, Changes(t, a) PROVE AdInv'
  <2>1. AdPending => AdPending'
    BY <1>1 DEF Changes
  <2>2. \A u \in Apps : app'[u].at = "check" => app[u].at = "check" /\ app'[u] = app[u]
    BY <1>1 DEF Changes
  <2>3. UNCHANGED <<phase, idle, adverts, advertised>>
    BY <1>1 DEF Changes
  <2> QED BY <2>1, <2>2, <2>3
<1>2. ASSUME NEW t \in Apps, Pushes(t) PROVE AdInv'
  <2>1. app[t].entry \in Entries /\ PushFront(app[t].entry)
    BY <1>2 DEF Pushes
  <2>2. ToSet(queue') = ToSet(queue) \cup {app[t].entry}
    BY <2>1, QueueSets
  <2>3. AdPending => AdPending'
    <3>1. CASE app[t].entry = Advertisement
      BY <3>1, <2>2
    <3>2. CASE app[t].entry # Advertisement
      BY <3>2, <2>2, <1>2 DEF Pushes
    <3> QED BY <3>1, <3>2
  <2>4. \A u \in Apps : app'[u].at = "check" => app[u].at = "check" /\ app'[u] = app[u]
    BY <1>2 DEF Pushes
  <2>5. UNCHANGED <<phase, idle, adverts, advertised>>
    BY <1>2 DEF Pushes
  <2> QED BY <2>3, <2>4, <2>5
<1>3. ASSUME NEW t \in Apps, PushesUnchanged(t) PROVE AdInv'
  <2>1. ToSet(queue) \subseteq ToSet(queue')
    BY <1>3, QueueSets DEF PushesUnchanged
  <2>2. UNCHANGED <<phase, idle, adverts, advertised, app, lost>>
    BY <1>3 DEF PushesUnchanged
  <2>3. AdPending => AdPending'
    BY <2>1, <2>2
  <2> QED BY <2>2, <2>3
<1>4. ASSUME NEW t \in Apps, ChangesAdvertising(t) PROVE AdInv'
  <2>1. app'[t].at = "check" /\ AdPending'
    BY <1>4 DEF ChangesAdvertising
  <2>2. \A u \in Apps : app'[u].at = "check" => app'[u].entry = Advertisement
    BY <1>4 DEF ChangesAdvertising
  <2>3. UNCHANGED <<phase, idle, advertised>>
    BY <1>4 DEF ChangesAdvertising
  <2> QED BY <2>1, <2>2, <2>3
<1>5. ASSUME NEW t \in Apps, ChecksRunning(t) PROVE AdInv'
  <2>1. AdPending'
    <3>1. CASE phase = "running"
      <4>1. app'[t].at = "push" /\ app'[t].entry = app[t].entry
        BY <1>5, <3>1 DEF ChecksRunning
      <4>2. app[t].entry = Advertisement
        BY <1>5 DEF ChecksRunning
      <4> QED BY <4>1, <4>2
    <3>2. CASE phase # "running"
      BY <1>5, <3>2 DEF ChecksRunning
    <3> QED BY <3>1, <3>2
  <2>2. \A u \in Apps : app'[u].at = "check" => app'[u] = app[u]
    BY <1>5 DEF ChecksRunning
  <2>3. UNCHANGED <<phase, idle, adverts, advertised>>
    BY <1>5 DEF ChecksRunning
  <2> QED BY <2>1, <2>2, <2>3
<1>6. CASE AppDrains
  <2>1. /\ lost' = (lost \/ Advertisement \in ToSet(queue) \ ToSet(queue'))
        /\ UNCHANGED <<app, phase, idle, adverts, advertised>>
    BY <1>6 DEF AppDrains
  <2>2. AdPending => AdPending'
    BY <2>1
  <2> QED BY <2>1, <2>2
<1>7. CASE ReadsInitialData
  BY <1>7 DEF ReadsInitialData
<1>8. CASE IsConfigured
  BY <1>8 DEF IsConfigured
<1>9. CASE StartsRunning
  BY <1>9 DEF StartsRunning
<1>10. CASE IdleChecks
  BY <1>10 DEF IdleChecks
<1>11. CASE IdlePops
  <2>1. ToSet(queue) = ToSet(queue') \cup {Last(queue)}
    BY <1>11, QueueSets DEF IdlePops
  <2>2. /\ idle' = [at |-> "read", entry |-> Last(queue), data |-> 0]
        /\ idle.at = "pop"
        /\ UNCHANGED <<app, phase, adverts, advertised, lost>>
    BY <1>11 DEF IdlePops, PopBack
  <2>3. AdPending => AdPending' \/ Handling("read", Advertisement)'
    BY <2>1, <2>2
  <2> QED BY <2>2, <2>3
<1>12. CASE IdleFindsNothing
  BY <1>12 DEF IdleFindsNothing
<1>13. CASE HandlerReads
  BY <1>13 DEF HandlerReads
<1>14. CASE HandlerEmits
  BY <1>14 DEF HandlerEmits
<1>15. CASE FindsNoCharacteristic
  BY <1>15 DEF FindsNoCharacteristic
<1>16. CASE ReadsAdvertising
  BY <1>16 DEF ReadsAdvertising
<1>17. CASE Advertises
  BY <1>17 DEF Advertises
<1>18. CASE Stops
  BY <1>18 DEF Stops
<1>19. CASE UNCHANGED vars
  BY <1>19 DEF vars
<1>20. CASE AdvertisingRefused
  BY <1>20 DEF AdvertisingRefused
<1> QED
  BY NextCases, <1>1, <1>2, <1>3, <1>4, <1>5, <1>6, <1>7, <1>8, <1>9, <1>10,
     <1>11, <1>12, <1>13, <1>14, <1>15, <1>16, <1>17, <1>18, <1>19, <1>20

\* No change of a characteristic is swallowed between the application's threads and
\* idleFunc, unless the application itself takes the entry.
THEOREM ChangesNotSwallowed == Spec => []SettledIsShown
<1>1. Init => TypeOK /\ ShownInv
  <2>1. Init => TypeOK
    BY InitTypes
  <2>2. Init => ShownInv
    BY DEF Init, ShownInv, Handling, NoWork, Attributes
  <2> QED BY <2>1, <2>2
<1>2. TypeOK /\ ShownInv /\ [Next]_vars => (TypeOK /\ ShownInv)'
  BY TypeStep, ShownStep
<1>3. TypeOK /\ ShownInv => SettledIsShown
  BY DEF ShownInv, SettledIsShown, IsSettled, UnderWay, Pending, Handling
<1> QED BY <1>1, <1>2, <1>3, PTL DEF Spec

\* Every change of the advertising data that was pushed reaches the controller,
\* unless it refuses the data or the application itself takes the entry.
THEOREM PushedIsAdvertised == Spec => []SettledIsAdvertised
<1>1. Init => TypeOK /\ AdInv
  <2>1. Init => TypeOK
    BY InitTypes
  <2>2. Init => AdInv
    BY DEF Init, AdInv, NoWork, Free
  <2> QED BY <2>1, <2>2
<1>2. TypeOK /\ AdInv /\ [Next]_vars => (TypeOK /\ AdInv)'
  BY TypeStep, AdStep
<1>3. TypeOK /\ AdInv => SettledIsAdvertised
  BY DEF AdInv, AdPending, SettledIsAdvertised, UnderWay, Pending, Handling
<1> QED BY <1>1, <1>2, <1>3, PTL DEF Spec

-----------------------------------------------------------------------------
(* The queue is a FIFO, whoever takes from it.                               *)

\* Each operation on the queue is a step of UpdateFifo, every other step none.
LEMMA FifoStep ==
  ASSUME TypeOK, [Next]_vars
  PROVE  [Fifo!Next]_(Fifo!vars)
<1>1. ASSUME NEW e \in Entries, PushFront(e), UNCHANGED given PROVE Fifo!Put
  BY <1>1, PushLemma DEF PushFront, TypeOK, Fifo!Put
<1>2. ASSUME NEW keep \in BOOLEAN, PopBack(keep) PROVE Fifo!Peek \/ Fifo!Take
  <2>1. queue # <<>> /\ given' = Last(queue)
    BY <1>2 DEF PopBack
  <2>2. Reverse(queue) # <<>> /\ given' = Head(Reverse(queue))
    BY <2>1, PopLemma DEF TypeOK
  <2>3. CASE keep
    <3>1. queue' = queue
      BY <1>2, <2>3 DEF PopBack
    <3> QED BY <2>2, <3>1 DEF Fifo!Peek
  <2>4. CASE ~keep
    <3>1. queue' = Front(queue)
      BY <1>2, <2>4 DEF PopBack
    <3>2. Reverse(queue') = Tail(Reverse(queue))
      BY <2>1, <3>1, PopLemma DEF TypeOK
    <3> QED BY <2>2, <3>2 DEF Fifo!Take
  <2> QED BY <2>3, <2>4
<1>3. ASSUME queue' = <<>>, UNCHANGED given PROVE Fifo!Discard
  BY <1>3 DEF Fifo!Discard, Reverse
<1>4. ASSUME NEW t \in Apps, Pushes(t) PROVE Fifo!Put
  <2>1. app[t].entry \in Entries
    BY DEF TypeOK
  <2> QED BY <1>1, <1>4, <2>1 DEF Pushes
<1>5. ASSUME NEW t \in Apps, PushesUnchanged(t) PROVE Fifo!Put
  BY <1>1, <1>5 DEF PushesUnchanged
<1>6. CASE AppDrains
  BY <1>2, <1>3, <1>6 DEF AppDrains, Fifo!Next
<1>7. CASE IdlePops
  BY <1>2, <1>7 DEF IdlePops, Fifo!Next
<1>8. ASSUME UNCHANGED <<queue, given>> PROVE UNCHANGED Fifo!vars
  BY <1>8 DEF Fifo!vars
<1> QED
  BY NextCases, <1>4, <1>5, <1>6, <1>7, <1>8
  DEF Changes, ChangesAdvertising, ChecksRunning, ReadsInitialData, IsConfigured,
      StartsRunning, IdleChecks, IdleFindsNothing, HandlerReads, HandlerEmits,
      FindsNoCharacteristic, ReadsAdvertising, Advertises, AdvertisingRefused, Stops, vars, Fifo!Next

\* Every pop of updateQueue gives its caller the oldest entry that was pushed and
\* is still there, and takes out that one and no other, whichever threads push and
\* pop in between.
THEOREM ImplementsFifo == Spec => FifoSpec
<1>1. Init => Fifo!Init
  BY DEF Init, Fifo!Init, Reverse, Entries
<1>2. TypeOK /\ [Next]_vars => [Fifo!Next]_(Fifo!vars)
  BY FifoStep
<1> QED BY <1>1, <1>2, TypeCorrect, PTL DEF Spec, FifoSpec, Fifo!Spec
=============================================================================

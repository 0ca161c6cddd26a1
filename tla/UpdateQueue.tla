---------------------------- MODULE UpdateQueue ----------------------------
(***************************************************************************)
(* The update queue of Gobbledegook.cpp between the application's threads,   *)
(* which change data and push what changed, and the server thread, whose     *)
(* idleFunc (Init.cpp) pops one update at a time and hands it to the         *)
(* characteristic, or to the adapter when the advertising data changed.      *)
(* Each thread-safe call is one step: updateQueueMutex and                   *)
(* advertisingDataMutex are held for the whole of it.                        *)
(*                                                                          *)
(* Data are versions: a change makes the next one.  An entry stands for the  *)
(* pair of object path and interface name.                                   *)
(***************************************************************************)
EXTENDS Naturals, SequencesExt

CONSTANTS
  Apps,              \* the application's threads
  Characteristics,   \* entries that name a characteristic of the tree
  Descriptors,       \* entries that name a descriptor of the tree
  Strangers,         \* entries that name nothing, or nothing with a handler
  Advertisement,     \* the entry "/|org.gobbledegook.Advertisement"
  TooLong,           \* entries of 1024 bytes or more with their terminator
  Refuses,           \* may a command of an advertising update fail?
  MaxChanges,        \* bound: changes of each datum
  MaxQueue           \* bound: entries above which nothing unchanged is pushed

Attributes == Characteristics \cup Descriptors
Entries    == Attributes \cup Strangers \cup {Advertisement}

ASSUME QueueAssumption ==
  /\ Advertisement \notin Attributes \cup Strangers
  /\ Attributes \cap Strangers = {} /\ Characteristics \cap Descriptors = {}
  /\ TooLong \subseteq Entries \ {Advertisement}
  /\ Refuses \in BOOLEAN
  /\ MaxChanges \in Nat /\ MaxQueue \in Nat

VARIABLES
  queue,        \* updateQueue, front first
  given,        \* the element that the last ggkPopUpdateQueue gave its caller
  phase,        \* the run state, with the end of configureAdapter
  value,        \* the application's data behind each attribute
  shown,        \* what the subscribers of each attribute were last notified of
  adverts,      \* Server::advertisingData
  advertised,   \* what the controller advertises
  app,          \* where each application thread is
  idle,         \* where the server thread is
  lost,         \* ghost: the newest advertising data were not pushed, or refused, or
                \* the application has taken their entry
  taken         \* ghost: characteristics whose entry the application has taken

dataVars == <<value, shown, taken>>
adVars   == <<adverts, advertised, lost>>
vars == <<queue, given, phase, dataVars, adVars, app, idle>>

Phases   == {"initializing", "configured", "running", "stopping"}
Versions == 0 .. MaxChanges
Free     == [at |-> "free", entry |-> Advertisement]
NoWork   == [at |-> "idle", entry |-> Advertisement, data |-> 0]

Init ==
  /\ queue = <<>> /\ given = Advertisement
  /\ phase = "initializing"
  /\ value = [a \in Attributes |-> 0] /\ shown = value /\ taken = {}
  /\ adverts = 0 /\ advertised = MaxChanges + 1     \* no one version
  /\ lost = FALSE
  /\ app = [t \in Apps |-> Free]
  /\ idle = NoWork

-----------------------------------------------------------------------------
(* The queue                                                                 *)

\* Mutant: an entry that waits or is being handled is not pushed again.
PushCoalesced(e) ==
  queue' = IF e \in ToSet(queue) \/ (idle.at # "idle" /\ idle.entry = e)
             THEN queue ELSE <<e>> \o queue

PushFront(e) == queue' = <<e>> \o queue

\* There is an oldest entry and it fits in idleFunc's buffer.
BackFits == queue # <<>> /\ Last(queue) \notin TooLong

\* Mutant: the back is copied, the front removed.
PopFront(keep) ==
  /\ queue # <<>> /\ given' = Last(queue)
  /\ queue' = IF keep THEN queue ELSE Tail(queue)

PopBack(keep) ==
  /\ queue # <<>> /\ given' = Last(queue)
  /\ queue' = IF keep THEN queue ELSE Front(queue)

-----------------------------------------------------------------------------
(* The application                                                           *)

Changes(t, a) ==
  /\ app[t].at = "free"
  /\ value[a] < MaxChanges
  /\ value' = [value EXCEPT ![a] = @ + 1]
  /\ app' = [app EXCEPT ![t] = [at |-> "push", entry |-> a]]
  /\ UNCHANGED <<queue, given, phase, shown, taken, adVars, idle>>

\* ggkNotifyUpdatedCharacteristic, ggkNotifyUpdatedDescriptor, and the push of
\* setAdvertisingData.
Pushes(t) ==
  /\ app[t].at = "push"
  /\ PushFront(app[t].entry)
  /\ app' = [app EXCEPT ![t] = Free]
  /\ lost' = (lost /\ app[t].entry # Advertisement)
  /\ taken' = taken \ {app[t].entry}
  /\ UNCHANGED <<given, phase, value, shown, adverts, advertised, idle>>

\* An update of something that has not changed, or that nobody knows.
PushesUnchanged(t) ==
  /\ app[t].at = "free" /\ Len(queue) < MaxQueue
  /\ \E e \in Entries \ {Advertisement} : PushFront(e) /\ taken' = taken \ {e}
  /\ UNCHANGED <<given, phase, value, shown, adVars, app, idle>>

\* setAdvertisingData: the data, then the run state, then the push.
ChangesAdvertising(t) ==
  /\ app[t].at = "free"
  /\ adverts < MaxChanges
  /\ adverts' = adverts + 1
  /\ app' = [app EXCEPT ![t] = [at |-> "check", entry |-> Advertisement]]
  /\ UNCHANGED <<queue, given, phase, dataVars, advertised, lost, idle>>

ChecksRunning(t) ==
  /\ app[t].at = "check"
  /\ IF phase = "running"
       THEN app' = [app EXCEPT ![t].at = "push"] /\ UNCHANGED lost
       ELSE app' = [app EXCEPT ![t] = Free] /\ lost' = TRUE
  /\ UNCHANGED <<queue, given, phase, dataVars, adverts, advertised, idle>>

\* ggkPopUpdateQueue and ggkUpdateQueueClear, which take the last entry of some.
AppDrains ==
  /\ \/ \E keep \in BOOLEAN : PopBack(keep)
     \/ queue' = <<>> /\ UNCHANGED given
  /\ LET gone == ToSet(queue) \ ToSet(queue')
     IN /\ taken' = taken \cup (gone \cap Characteristics)
        /\ lost' = (lost \/ Advertisement \in gone)
  /\ UNCHANGED <<phase, value, shown, adverts, advertised, app, idle>>

-----------------------------------------------------------------------------
(* The server thread: configureAdapter, then idleFunc again and again        *)

ReadsInitialData ==
  /\ phase = "initializing" /\ idle.at = "idle"
  /\ idle' = [at |-> "advertise", entry |-> Advertisement, data |-> adverts]
  /\ UNCHANGED <<queue, given, phase, dataVars, adVars, app>>

IsConfigured ==
  /\ phase = "initializing" /\ idle.at = "advertise"
  /\ advertised' = idle.data
  /\ idle' = NoWork
  /\ phase' = "configured"
  /\ UNCHANGED <<queue, given, dataVars, adverts, lost, app>>

StartsRunning ==
  /\ phase = "configured"
  /\ phase' = "running"
  /\ UNCHANGED <<queue, given, dataVars, adVars, app, idle>>

\* shutdown(), by any thread.
Stops ==
  /\ phase # "stopping"
  /\ phase' = "stopping"
  /\ UNCHANGED <<queue, given, dataVars, adVars, app, idle>>

IdleChecks ==
  /\ phase = "running" /\ idle.at = "idle"
  /\ idle' = [NoWork EXCEPT !.at = "pop"]
  /\ UNCHANGED <<queue, given, phase, dataVars, adVars, app>>

IdlePops ==
  /\ idle.at = "pop" /\ BackFits
  /\ PopBack(FALSE)
  /\ idle' = [at |-> "read", entry |-> given', data |-> 0]
  /\ UNCHANGED <<phase, dataVars, adVars, app>>

\* ggkPopUpdateQueue returned 0, or -1 for an entry that stays where it is.
IdleFindsNothing ==
  /\ idle.at = "pop" /\ ~BackFits
  /\ idle' = NoWork
  /\ UNCHANGED <<queue, given, phase, dataVars, adVars, app>>

\* The onUpdatedValue handler gets the current value from the application.
HandlerReads ==
  /\ idle.at = "read" /\ idle.entry \in Characteristics
  /\ idle' = [idle EXCEPT !.at = "emit", !.data = value[idle.entry]]
  /\ UNCHANGED <<queue, given, phase, dataVars, adVars, app>>

HandlerEmits ==
  /\ idle.at = "emit"
  /\ shown' = [shown EXCEPT ![idle.entry] = idle.data]
  /\ idle' = NoWork
  /\ UNCHANGED <<queue, given, phase, value, taken, adVars, app>>

\* The interface found is no characteristic, or has no handler, or none is found.
FindsNoCharacteristic ==
  /\ idle.at = "read" /\ idle.entry \in Descriptors \cup Strangers
  /\ idle' = NoWork
  /\ UNCHANGED <<queue, given, phase, dataVars, adVars, app>>

ReadsAdvertising ==
  /\ idle.at = "read" /\ idle.entry = Advertisement
  /\ idle' = [idle EXCEPT !.at = "advertise", !.data = adverts]
  /\ UNCHANGED <<queue, given, phase, dataVars, adVars, app>>

Advertises ==
  /\ phase # "initializing" /\ idle.at = "advertise"
  /\ advertised' = idle.data
  /\ idle' = NoWork
  /\ UNCHANGED <<queue, given, phase, dataVars, adverts, lost, app>>

\* A command of the update fails: configureAdapter is tried again, idleFunc only
\* logs it.  Some instances may have the new data all the same.
AdvertisingRefused ==
  /\ Refuses
  /\ idle.at = "advertise"
  /\ \/ UNCHANGED advertised
     \/ advertised' = MaxChanges + 1
  /\ lost' = (lost \/ (phase # "initializing" /\ idle.data = adverts))
  /\ idle' = NoWork
  /\ UNCHANGED <<queue, given, phase, dataVars, adverts, app>>

ServerStep ==
  \/ ReadsInitialData \/ IsConfigured \/ StartsRunning
  \/ IdleChecks \/ IdlePops \/ IdleFindsNothing
  \/ HandlerReads \/ HandlerEmits \/ FindsNoCharacteristic
  \/ ReadsAdvertising \/ Advertises \/ AdvertisingRefused

Next ==
  \/ \E t \in Apps :
       \/ \E a \in Attributes : Changes(t, a)
       \/ Pushes(t) \/ PushesUnchanged(t)
       \/ ChangesAdvertising(t) \/ ChecksRunning(t)
  \/ AppDrains
  \/ ServerStep
  \/ Stops

Spec == Init /\ [][Next]_vars

\* The main loop runs the idle source for ever, and a call that has begun ends.
Fairness ==
  /\ WF_vars(ServerStep)
  /\ \A t \in Apps : WF_vars(Pushes(t) \/ ChecksRunning(t))

FairSpec == Spec /\ Fairness

-----------------------------------------------------------------------------
(* Properties.                                                               *)

TypeOK ==
  /\ queue \in Seq(Entries) /\ given \in Entries
  /\ phase \in Phases
  /\ value \in [Attributes -> Versions] /\ shown \in [Attributes -> Versions]
  /\ adverts \in Versions /\ advertised \in 0 .. MaxChanges + 1
  /\ app \in [Apps -> [at : {"free", "check", "push"}, entry : Entries]]
  /\ idle \in [at : {"idle", "pop", "read", "emit", "advertise"},
               entry : Entries, data : Versions]
  /\ taken \subseteq Characteristics
  /\ idle.at = "emit" => idle.entry \in Characteristics
  /\ lost \in BOOLEAN

\* The update is on its way: pushed or about to be, or taken and not yet read.
UnderWay(e) ==
  \/ e \in ToSet(queue)
  \/ \E t \in Apps : app[t].at = "push" /\ app[t].entry = e
  \/ idle.at \in {"read", "emit"} /\ idle.entry = e

IsSettled(a) == ~UnderWay(a) => shown[a] = value[a]

\* No change of a characteristic is swallowed: whenever no update of it is on its
\* way, its subscribers have seen its last value, although the handler reads the
\* value after the entry has left the queue and while other threads change it, unless
\* the application itself has popped or cleared the last entry for it.
SettledIsShown == \A c \in Characteristics \ taken : IsSettled(c)

\* A change of the advertising data that setAdvertisingData pushed reaches the
\* controller, in the newest version, unless the controller refuses that one or the
\* application takes the entry.
SettledIsAdvertised ==
  /\ phase = "running" /\ ~lost /\ idle.at # "advertise" /\ ~UnderWay(Advertisement)
  /\ \A t \in Apps : app[t].at # "check"
  => advertised = adverts

\* An entry that idleFunc cannot pop: it stays at the back, and all the others
\* behind it.
IsBlocked == ToSet(queue) \cap TooLong # {}

\* Once the server runs, every change of a characteristic is shown, however busy
\* other threads keep the queue, unless the server stops or the application takes the
\* entry: entries leave the queue in the order they came, and nothing but an entry that
\* is too long for the buffer of idleFunc holds them up.
ChangesAreShown ==
  \A c \in Characteristics, v \in Versions :
    (value[c] >= v /\ phase = "running") ~>
      (shown[c] >= v \/ phase = "stopping" \/ IsBlocked \/ c \in taken)

\* ggkPopUpdateQueue gives each caller, idleFunc or the application, the oldest
\* entry that was pushed and is still there, whichever calls came between, and
\* takes out that one and no other; only ggkUpdateQueueClear loses entries.
Fifo == INSTANCE UpdateFifo WITH Updates <- Entries, waiting <- Reverse(queue)
FifoSpec == Fifo!Spec
=============================================================================

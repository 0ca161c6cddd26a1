---------------------------- MODULE ServerHandle ----------------------------
(***************************************************************************)
(* What the public functions promise to the application thread that calls   *)
(* ggkRun and, later, ggkShutdownAndWait or ggkWait:                         *)
(*   - ggkRun returns 1 only while the server thread exists, and 0 only when *)
(*     there is no server thread, or none any more;                          *)
(*   - the server thread ends only when the run state says so, which nothing *)
(*     changes afterwards, and a wait returns only when it has ended;        *)
(*   - after ggkRun has returned 1, a stop that stands ends the thread and    *)
(*     the wait.  The end of the initialisation may undo a stop that came     *)
(*     while it was under way (SetBack).                                      *)
(***************************************************************************)
VARIABLES
  thread,    \* "none", "live" or "ended"
  outcome,   \* "pending", "failed", "ok" (ggkRun returned 1) or "joined"
  stop,      \* after ggkRun returned 1: the application stops or awaits it
  held       \* the run state tells every thread that the server stops

vars == <<thread, outcome, stop, held>>

Init ==
  /\ thread = "none"
  /\ outcome = "pending"
  /\ stop = FALSE
  /\ held = FALSE

Start ==
  /\ thread = "none" /\ outcome = "pending"
  /\ thread' = "live"
  /\ UNCHANGED <<outcome, stop, held>>

\* ggkRun returns 0: the thread was never created, or has been joined.
Fail ==
  /\ outcome = "pending"
  /\ thread \in {"none", "ended"}
  /\ outcome' = "failed"
  /\ held' = TRUE
  /\ UNCHANGED <<thread, stop>>

Succeed ==
  /\ outcome = "pending"
  /\ thread = "live"
  /\ ~held
  /\ outcome' = "ok"
  /\ UNCHANGED <<thread, stop, held>>

AskToStop ==
  /\ outcome = "ok" /\ ~stop
  /\ stop' = TRUE
  /\ UNCHANGED <<thread, outcome, held>>

\* Any thread that calls shutdown(), and the server thread at its end.
Hold ==
  /\ ~held
  /\ held' = TRUE
  /\ UNCHANGED <<thread, outcome, stop>>

\* The server thread announces its start or the end of its initialisation, having
\* looked at the state before the stop.
SetBack ==
  /\ held
  /\ thread = "live"
  /\ held' = FALSE
  /\ UNCHANGED <<thread, outcome, stop>>

\* The thread ends by itself too: a signal, or a failure of the server.
End ==
  /\ thread = "live"
  /\ held
  /\ thread' = "ended"
  /\ UNCHANGED <<outcome, stop, held>>

Join ==
  /\ outcome = "ok" /\ stop /\ thread = "ended"
  /\ outcome' = "joined"
  /\ UNCHANGED <<thread, stop, held>>

Next ==
  Start \/ Fail \/ Succeed \/ AskToStop \/ Hold \/ SetBack \/ End \/ Join

Spec ==
  /\ Init /\ [][Next]_vars
  /\ WF_vars(stop /\ End)
  /\ WF_vars(Join)
=============================================================================

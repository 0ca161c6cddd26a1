----------------------------- MODULE UpdateFifo -----------------------------
(* What the update queue of Gobbledegook.cpp promises its threads: a pop      *)
(* gives the oldest update and takes it out, unless it is to be kept; nothing *)
(* else takes updates out but a call that discards them all.                  *)
EXTENDS Sequences

CONSTANT Updates

VARIABLES
  waiting,                        \* oldest first
  given                           \* what the last pop gave its caller

vars == <<waiting, given>>

Init == waiting = <<>> /\ given \in Updates      \* no pop yet: anything

Put == (\E u \in Updates : waiting' = Append(waiting, u)) /\ UNCHANGED given

\* The oldest is given, and stays.
Peek == waiting # <<>> /\ given' = Head(waiting) /\ UNCHANGED waiting

\* The oldest is given, and goes.
Take == waiting # <<>> /\ given' = Head(waiting) /\ waiting' = Tail(waiting)

Discard == waiting' = <<>> /\ UNCHANGED given

Next == Put \/ Peek \/ Take \/ Discard

Spec == Init /\ [][Next]_vars
=============================================================================

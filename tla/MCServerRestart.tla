-------------------------- MODULE MCServerRestart --------------------------
(* The seven steps of the code; uninit takes back the bus connection, the     *)
(* object manager and the registered objects.                                *)
EXTENDS ServerRestart

MCKept == {2, 4, 5, 7}
=============================================================================

---------------------------- MODULE MCHciAdapter ----------------------------
(* Small instances of HciAdapter: the cfg files give the threads, the         *)
(* identities and the faults.                                                *)
EXTENDS HciAdapter
=============================================================================

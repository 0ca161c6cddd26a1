--------------------------- MODULE MCUpdateQueue ---------------------------
(* Small instances of UpdateQueue: the cfg files give the threads, the        *)
(* entries and the bounds.                                                    *)
EXTENDS UpdateQueue
=============================================================================

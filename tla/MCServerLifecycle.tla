------------------------- MODULE MCServerLifecycle -------------------------
(* ServerLifecycle on small instances.  The initialisation has seven steps in *)
(* the code; three tell apart the bus (fatal), the name (fatal once, then     *)
(* retried, and lost again) and a step that is only ever retried.             *)
EXTENDS ServerLifecycle
=============================================================================

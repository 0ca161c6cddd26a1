------------------------ MODULE MCObjectRegistration ------------------------
(* Small trees: one name without slashes, and one with a slash at both ends,  *)
(* which makes a path that D-Bus rejects.                                     *)
EXTENDS ObjectRegistration

MCNodeNames == {<<"a">>, <<Slash, "b", Slash>>}

\* findAdapterInterface asks in this order and stops at the first that is missing.
MCBluezObjects ==
  {{}, {"GattManager1"}, {"GattManager1", "Adapter1"},
   {"GattManager1", "Adapter1", "Properties"}}
=============================================================================

-------------------------- MODULE MCAdapterConfig --------------------------
(* Small instances of AdapterConfig: one plain setting stands for secure      *)
(* connections, bondable, connectable and discoverable.                      *)
EXTENDS AdapterConfig

MCOthers == <<"discoverable">>
MCNone   == <<>>
=============================================================================

------------------------- MODULE MCAdvertisingData -------------------------
(* Bytes count to eight, so that names are long enough to wrap.              *)
EXTENDS AdvertisingData

MCData == UNION {[1 .. n -> 0 .. 3] : n \in 0 .. 4}

\* None, flags and a section, a section that is cut off and one that is too long.
MCUpdates == {<<>>, <<1, 1, 2, 2, 0>>, <<1, 2, 3>>, <<4, 2, 0, 0, 0>>}
=============================================================================

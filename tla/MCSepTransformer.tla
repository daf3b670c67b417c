-------------------------- MODULE MCSepTransformer --------------------------
(***************************************************************************)
(* Instances of SepTransformer for TLC: four records, some of which share  *)
(* a key, and one of which is bad.                                         *)
(***************************************************************************)
EXTENDS SepTransformer

MCKey == {"k1", "k2", "k3"}
\* Two records of one key in one chunk, and one more in another.
MCKeyOf == <<"k1", "k1", "k2", "k1">>
DistinctKeyOf == <<"k1", "k2", "k3", "k1">>

AllFaults == FaultKinds
NoFaults == {}
=============================================================================

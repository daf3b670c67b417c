--------------------------- MODULE MCSepIngestor ---------------------------
(***************************************************************************)
(* Instances of SepIngestor for TLC: two files, two invocations, and the   *)
(* rows that make the interesting cases: a key that two files share, a row *)
(* that fails validation, a file that can never be read, and two distinct  *)
(* events of the same entity in the same second.                           *)
(***************************************************************************)
EXTENDS SepIngestor, TLC

CONSTANTS m1, m2, w1, w2

MCRow == {"a", "b", "c", "malformed", "unreadable"}
MCKey == {"k1", "k2"}
MCMalformed == {"malformed"}
MCUnreadable == {"unreadable"}

\* a and c are two events of one entity within one second: one sort key.
MCKeyOf == [r \in MCRow |-> IF r \in {"a", "c"} THEN "k1" ELSE "k2"]

HealthyRows == (m1 :> <<"a", "malformed", "b">>) @@ (m2 :> <<"b", "c">>)
PoisonRows == (m1 :> <<"a", "unreadable">>) @@ (m2 :> <<"b", "malformed", "c">>)

AllFaults == FaultKinds
NoFaults == {}
=============================================================================

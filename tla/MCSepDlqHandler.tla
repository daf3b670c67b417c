-------------------------- MODULE MCSepDlqHandler --------------------------
(***************************************************************************)
(* Instances of SepDlqHandler for TLC.  The events: one whose              *)
(* failure_reason matches both keyword lists (so TRANSIENT wins), one with *)
(* an explicit permanent error_type, one that nothing classifies.          *)
(***************************************************************************)
EXTENDS SepDlqHandler, TLC

CONSTANTS ambiguous, invalid, strange, c1, c2, c3, c4, h1, h2

MCErrorType == [e \in Event |-> IF e = invalid THEN "PERMANENT" ELSE None]
MCReasonWords == [e \in Event |-> IF e = ambiguous THEN Named ELSE {}]
MCBodyWords == [e \in Event |-> IF e # ambiguous THEN {} ELSE {"TRANSIENT"}]

TwoFirst == (ambiguous :> c1) @@ (strange :> c2)
ThreeFirst == (ambiguous :> c1) @@ (strange :> c2) @@ (invalid :> c3)
OneFirst == (ambiguous :> c1)

AllFaults == FaultKinds
Outages == {"outage"}
NoFaults == {}

InvocationSymmetry == Permutations(Invocation)
=============================================================================

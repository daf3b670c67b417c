-------------------------- MODULE MCSepAggregator --------------------------
(***************************************************************************)
(* Instances of SepPaths for TLC: a purchase and one without a price in    *)
(* the same second, a refused one, and a view written in lower case and in *)
(* the time of a zone where it was still the day before.                   *)
(***************************************************************************)
EXTENDS SepPaths

U1 == [type |-> "user", id |-> "u1", capitals |-> TRUE]
At(s) == [utc |-> s, offset |-> 0, fraction |-> FALSE, zone |-> "Z"]
Made(kind, value, s) ==
  [entity |-> U1, kind |-> kind, time |-> At(s), value |-> value,
   metadata |-> "absent", click |-> "absent"]

Bought == Made("PURCHASE", 2, 10)
Unpriced == Made("PURCHASE", None, 10)   \* taken by the ingestor only
Refused == Made("PURCHASE", -1, 12)
Viewed == Made("VIEW", None, 11)
ViewedAbroad ==
  [Viewed EXCEPT !.entity.capitals = FALSE,
                 !.time = [utc |-> 11, offset |-> -5, fraction |-> TRUE, zone |-> "offset"]]

MCEvents == {Bought, Unpriced, Refused, ViewedAbroad}
\* The sort key does not name the type of an event.
Retyping == {Bought, Made("VIEW", None, 10)}

Aggregates == {AggregateKey(k) : k \in PathKeys}
AggregateOfKey == [k \in PathKeys |-> AggregateKey(k)]
TypesOfKey ==
  [k \in PathKeys |->
     {IngestedItem(e).type : e \in {e \in Event : ValidateAndNormalize(e) /\ IngestedKey(e) = k}}
     \cup {TransformedItem(e).type : e \in {e \in Event : TransformRecord(e) /\ TransformedKey(e) = k}}]

\* The theorems about the totals have this hypothesis.
ASSUME Event = MCEvents => OneTypePerKey

NoFaults == {}
AllFaults == FaultKinds
Redelivery == {"timeout"}
=============================================================================

---------------------------- MODULE MCGpuOperator ----------------------------
(***************************************************************************)
(* An instance of GpuOperator for TLC.  Users send a spec that leaves the  *)
(* limits to the webhook, a second one with another image and other        *)
(* bounds, and one that the webhook refuses.                               *)
(***************************************************************************)
EXTENDS GpuOperator

First == [image |-> 1, min |-> 1, max |-> 3, target |-> 10, source |-> "gpu",
          queue |-> FALSE, prometheus |-> TRUE, heal |-> "restart", attempts |-> 1,
          fallback |-> TRUE, pool |-> TRUE, gpus |-> NoResources]
Second == [First EXCEPT !.image = 2, !.min = 0, !.prometheus = FALSE, !.gpus = 1]
Refused == [First EXCEPT !.max = 0]

Specs == {First, Second, Refused}
Metrics == {25}
\* Two replicas.
TwoReplicas == {15}
=============================================================================

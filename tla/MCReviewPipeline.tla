-------------------------- MODULE MCReviewPipeline --------------------------
(***************************************************************************)
(* An instance of ReviewPipeline for TLC: the four reviewers of the        *)
(* project and two S3 events, for one PUT that S3 reports twice or for two *)
(* PUTs with the same URL.                                                 *)
(***************************************************************************)
EXTENDS ReviewPipeline

Reviewer == {"security", "cost", "reliability", "operations"}
TwoEvents == {"first", "second"}
AnyFile == FileKinds
=============================================================================

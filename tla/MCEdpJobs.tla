------------------------------ MODULE MCEdpJobs ------------------------------
(***************************************************************************)
(* Instances of EdpMetrics, and so of EdpJobs, for TLC: jobs share nothing *)
(* but the list of the cleanup, so one job that two dispatchers may handle *)
(* at a time shows the races; its payload is any of the three kinds.       *)
(***************************************************************************)
EXTENDS EdpMetrics

CONSTANTS j1, j2, w1, w2

AllFaults == FaultKinds
=============================================================================

------------------------------- MODULE EdpJobs -------------------------------
(***************************************************************************)
(* event-driven-pipeline-sandbox: the life of a job.  A request waits in   *)
(* the input queue; the dispatcher puts a PENDING row in the jobs table    *)
(* and starts a Step Functions execution named after the job; the          *)
(* execution calls the model, saves the result and notifies in parallel,   *)
(* and records a failure.  EventBridge tells the dlq-handler about failed  *)
(* executions, and on a schedule the same Lambda turns rows that have been *)
(* PENDING for an hour into TIMEOUT.                                       *)
(***************************************************************************)
EXTENDS Naturals, FiniteSets

CONSTANTS
  Job,         \* messages of the input queue; the message id is the job id
  Worker,      \* concurrent dispatcher invocations, one message each
  MaxReceive,  \* max_receive_count of the redrive policy
  Faults,      \* what may go wrong: subset of FaultKinds
  None

\* aws: a call of a Lambda or of the workflow raises; crash: a Lambda dies;
\* duplicate: SQS delivers twice; model: Bedrock refuses;
\* lost: EventBridge gives an event up.
FaultKinds == {"aws", "crash", "duplicate", "model", "lost"}

ASSUME JobsAssumption ==
  /\ MaxReceive \in Nat \ {0}
  /\ Faults \subseteq FaultKinds
  /\ None \notin Job
  /\ None \notin {"PENDING", "COMPLETED", "FAILED", "TIMEOUT"}

VARIABLES
  faults,    \* what goes wrong in this behaviour
  payload,   \* payload[j]: what validate_payload or the JSON parser say of j
  queue,     \* queue[j]: where SQS keeps the message of j
  receives,  \* receives[j]: how often it was received
  job,       \* job[w]: the message dispatcher w handles, or None
  pc,        \* pc[w]: what w does next with it
  status,    \* status[j]: the status in the jobs table, or None without a row
  old,       \* old[j]: created_at lies more than STUCK_JOB_HOURS back
  exec,      \* exec[j]: where the execution job-<j> is
  branches,  \* branches[j]: branches of ParallelFinalize that are through
  event,     \* event[j]: EventBridge has a failure of j to deliver
  stuck      \* jobs the running cleanup has found and not yet handled

given == <<faults, payload>>
messages == <<queue, receives>>
dispatchers == <<job, pc>>
row == <<status, old>>
workflow == <<exec, branches, event>>
vars == <<given, messages, dispatchers, row, workflow, stuck>>

Final == {"COMPLETED", "FAILED", "TIMEOUT"}
Running == {"invoke", "finalize", "handle", "notify"}
Closed == {"succeeded", "failed"}

TypeOK ==
  /\ faults \subseteq Faults
  /\ payload \in [Job -> {"valid", "invalid", "broken"}]
  /\ queue \in [Job -> {"visible", "inflight", "deleted", "dlq"}]
  /\ receives \in [Job -> 0..MaxReceive]
  /\ job \in [Worker -> Job \cup {None}]
  /\ pc \in [Worker -> {"idle", "validate", "start", "ack", "fail"}]
  /\ status \in [Job -> Final \cup {"PENDING", None}]
  /\ old \in [Job -> BOOLEAN]
  /\ exec \in [Job -> Running \cup Closed \cup {"none"}]
  /\ branches \in [Job -> SUBSET {"save", "notify"}]
  /\ event \in [Job -> BOOLEAN]
  /\ stuck \subseteq Job

Init ==
  /\ faults \in SUBSET Faults
  /\ payload \in [Job -> {"valid", "invalid", "broken"}]
  /\ queue = [j \in Job |-> "visible"]
  /\ receives = [j \in Job |-> 0]
  /\ job = [w \in Worker |-> None] /\ pc = [w \in Worker |-> "idle"]
  /\ status = [j \in Job |-> None] /\ old = [j \in Job |-> FALSE]
  /\ exec = [j \in Job |-> "none"]
  /\ branches = [j \in Job |-> {}]
  /\ event = [j \in Job |-> FALSE]
  /\ stuck = {}

-----------------------------------------------------------------------------
(* The input queue.                                                        *)

Receive(w, j) ==
  /\ pc[w] = "idle"
  /\ receives[j] < MaxReceive
  /\ queue[j] = "visible" \/ ("duplicate" \in faults /\ queue[j] = "inflight")
  /\ queue' = [queue EXCEPT ![j] = "inflight"]
  /\ receives' = [receives EXCEPT ![j] = @ + 1]
  /\ job' = [job EXCEPT ![w] = j]
  /\ pc' = [pc EXCEPT ![w] = "validate"]
  /\ UNCHANGED <<given, row, workflow, stuck>>

Redrive(j) ==
  /\ queue[j] = "visible" /\ receives[j] = MaxReceive
  /\ queue' = [queue EXCEPT ![j] = "dlq"]
  /\ UNCHANGED <<given, receives, dispatchers, row, workflow, stuck>>

\* Dispatcher w is through with its message, which SQS keeps in place q.
Release(w, q) ==
  /\ queue' = [queue EXCEPT ![job[w]] = IF @ = "inflight" THEN q ELSE @]
  /\ job' = [job EXCEPT ![w] = None]
  /\ pc' = [pc EXCEPT ![w] = "idle"]
  /\ UNCHANGED <<given, receives, row, workflow, stuck>>

-----------------------------------------------------------------------------
(* The dispatcher.                                                         *)

Goto(w, step) == pc' = [pc EXCEPT ![w] = step]

\* An invalid payload is dropped, an unreadable one goes back to SQS.
Reject(w) ==
  /\ pc[w] = "validate"
  /\ \/ payload[job[w]] = "broken" /\ Goto(w, "fail")
     \/ payload[job[w]] = "invalid" /\ Goto(w, "ack")
  /\ UNCHANGED <<given, messages, job, row, workflow, stuck>>

\* put_item replaces the whole row.
PutPending(j) ==
  /\ status' = [status EXCEPT ![j] = "PENDING"]
  /\ old' = [old EXCEPT ![j] = FALSE]

PutJob(w) ==
  /\ pc[w] = "validate" /\ payload[job[w]] = "valid"
  /\ PutPending(job[w])
  /\ Goto(w, "start")
  /\ UNCHANGED <<given, messages, job, workflow, stuck>>

\* Mutant: executions have no name, each call starts the job anew.
StartUnnamed(j) == exec' = [exec EXCEPT ![j] = "invoke"]

\* start_execution with the name of a running execution has no effect.
StartExecution(j) ==
  exec' = [exec EXCEPT ![j] = IF @ = "none" THEN "invoke" ELSE @]

StartJob(w) ==
  /\ pc[w] = "start" /\ exec[job[w]] \notin Closed
  /\ StartExecution(job[w])
  /\ Goto(w, "ack")
  /\ UNCHANGED <<given, messages, job, row, branches, event, stuck>>

\* The name of an execution that is over is refused.
StartRefused(w) ==
  /\ pc[w] = "start" /\ exec[job[w]] \in Closed
  /\ Goto(w, "fail")
  /\ UNCHANGED <<given, messages, job, row, workflow, stuck>>

\* Mutant: the exception is logged and the message not reported.
DispatchErrorSwallowed(w) ==
  /\ "aws" \in faults
  /\ pc[w] \in {"validate", "start"} /\ payload[job[w]] = "valid"
  /\ Goto(w, "ack")
  /\ UNCHANGED <<given, messages, job, row, workflow, stuck>>

\* put_item or start_execution raises, with or without effect.
DispatchError(w) ==
  /\ "aws" \in faults
  /\ pc[w] \in {"validate", "start"} /\ payload[job[w]] = "valid"
  /\ \/ UNCHANGED <<row, exec>>
     \/ pc[w] = "validate" /\ PutPending(job[w]) /\ UNCHANGED exec
     \/ pc[w] = "start" /\ StartExecution(job[w]) /\ UNCHANGED row
  /\ Goto(w, "fail")
  /\ UNCHANGED <<given, messages, job, branches, event, stuck>>

\* Mutant: the answer names every message as failed.
AckAsFailure(w) == pc[w] \in {"ack", "fail"} /\ Release(w, "visible")

\* The answer lists the messages that failed; SQS deletes the others.
Answer(w) ==
  \/ pc[w] = "ack" /\ Release(w, "deleted")
  \/ pc[w] = "fail" /\ Release(w, "visible")

\* The Lambda dies before it answers.
Crash(w) ==
  /\ "crash" \in faults /\ pc[w] # "idle"
  /\ Release(w, "visible")

-----------------------------------------------------------------------------
(* The workflow.                                                           *)

SetStatus(j, s) == status' = [status EXCEPT ![j] = s]
Enter(j, state) == exec' = [exec EXCEPT ![j] = state]

\* InvokeHaiku or InvokeSonnet answers, or gives up after its retries.
InvokeModel(j) ==
  /\ exec[j] = "invoke"
  /\ Enter(j, "finalize") \/ ("model" \in faults /\ Enter(j, "handle"))
  /\ UNCHANGED <<given, messages, dispatchers, row, branches, event, stuck>>

SaveResult(j) ==
  /\ exec[j] = "finalize" /\ "save" \notin branches[j]
  /\ SetStatus(j, "COMPLETED")
  /\ branches' = [branches EXCEPT ![j] = @ \cup {"save"}]
  /\ UNCHANGED <<given, messages, dispatchers, old, exec, event, stuck>>

NotifyCompletion(j) ==
  /\ exec[j] = "finalize" /\ "notify" \notin branches[j]
  /\ branches' = [branches EXCEPT ![j] = @ \cup {"notify"}]
  /\ UNCHANGED <<given, messages, dispatchers, row, exec, event, stuck>>

\* One branch raises, with or without effect: the Parallel state fails.
FinalizeFails(j) ==
  /\ "aws" \in faults
  /\ exec[j] = "finalize" /\ branches[j] # {"save", "notify"}
  /\ \/ UNCHANGED status
     \/ "save" \notin branches[j] /\ SetStatus(j, "COMPLETED")
  /\ Enter(j, "handle")
  /\ UNCHANGED <<given, messages, dispatchers, old, branches, event, stuck>>

JobCompleted(j) ==
  /\ exec[j] = "finalize" /\ branches[j] = {"save", "notify"}
  /\ Enter(j, "succeeded")
  /\ UNCHANGED <<given, messages, dispatchers, row, branches, event, stuck>>

HandleFailure(j) ==
  /\ exec[j] = "handle"
  /\ SetStatus(j, "FAILED")
  /\ Enter(j, "notify")
  /\ UNCHANGED <<given, messages, dispatchers, old, branches, event, stuck>>

\* NotifyFailure succeeds or raises, or HandleFailure raises: the execution
\* ends as failed and EventBridge hears of it.
JobFailed(j) ==
  /\ \/ exec[j] = "notify" /\ UNCHANGED status
     \/ /\ exec[j] = "handle" /\ "aws" \in faults
        /\ UNCHANGED status \/ SetStatus(j, "FAILED")
  /\ Enter(j, "failed")
  /\ event' = [event EXCEPT ![j] = TRUE]
  /\ UNCHANGED <<given, messages, dispatchers, old, branches, stuck>>

-----------------------------------------------------------------------------
(* The dlq-handler.                                                        *)

FailUnlessCompleted(j) ==
  SetStatus(j, IF status[j] = "COMPLETED" THEN "COMPLETED" ELSE "FAILED")

\* An asynchronous invocation that raised is repeated, so the event stays.
HandleSfnFailure(j) ==
  /\ event[j]
  /\ FailUnlessCompleted(j)
  /\ \/ event' = [event EXCEPT ![j] = FALSE]
     \/ "aws" \in faults /\ UNCHANGED event
  /\ UNCHANGED <<given, messages, dispatchers, old, exec, branches, stuck>>

LoseEvent(j) ==
  /\ "lost" \in faults /\ event[j]
  /\ event' = [event EXCEPT ![j] = FALSE]
  /\ UNCHANGED <<given, messages, dispatchers, row, exec, branches, stuck>>

\* An hour passes.
Age(j) ==
  /\ status[j] # None /\ ~old[j]
  /\ old' = [old EXCEPT ![j] = TRUE]
  /\ UNCHANGED <<given, messages, dispatchers, status, workflow, stuck>>

\* The index lags behind the table: it may still list a row as PENDING.
FindStuck(S) ==
  /\ stuck = {} /\ S # {}
  /\ {j \in Job : status[j] = "PENDING" /\ old[j]} \subseteq S
  /\ S \subseteq {j \in Job : old[j]}
  /\ stuck' = S
  /\ UNCHANGED <<given, messages, dispatchers, row, workflow>>

\* Mutant: the update has no ConditionExpression.
TimeOutBlindly(j) == SetStatus(j, "TIMEOUT")

TimeOutIfPending(j) ==
  SetStatus(j, IF status[j] = "PENDING" THEN "TIMEOUT" ELSE status[j])

\* Mutant: the row is looked at and not updated.
CleanNothing(j) ==
  /\ j \in stuck
  /\ stuck' = stuck \ {j}
  /\ UNCHANGED <<given, messages, dispatchers, row, workflow>>

CleanUp(j) ==
  /\ j \in stuck
  /\ TimeOutIfPending(j)
  /\ stuck' = stuck \ {j}
  /\ UNCHANGED <<given, messages, dispatchers, old, workflow>>

\* update_item raises, which is logged.
CleanUpError(j) ==
  /\ "aws" \in faults /\ j \in stuck
  /\ stuck' = stuck \ {j}
  /\ UNCHANGED <<given, messages, dispatchers, row, workflow>>

CleanUpCrash ==
  /\ "crash" \in faults /\ stuck # {}
  /\ stuck' = {}
  /\ UNCHANGED <<given, messages, dispatchers, row, workflow>>

-----------------------------------------------------------------------------
Dispatch(w) ==
  Reject(w) \/ PutJob(w) \/ StartJob(w) \/ StartRefused(w) \/ Answer(w)

Execute(j) ==
  \/ InvokeModel(j) \/ SaveResult(j) \/ NotifyCompletion(j)
  \/ JobCompleted(j) \/ HandleFailure(j) \/ JobFailed(j)

Next ==
  \/ \E w \in Worker :
       \/ \E j \in Job : Receive(w, j)
       \/ Dispatch(w) \/ DispatchError(w) \/ Crash(w)
  \/ \E j \in Job :
       \/ Redrive(j) \/ Execute(j) \/ FinalizeFails(j)
       \/ HandleSfnFailure(j) \/ LoseEvent(j)
       \/ Age(j) \/ CleanUp(j) \/ CleanUpError(j)
  \/ \E S \in SUBSET Job : FindStuck(S)
  \/ CleanUpCrash

(* The mapping polls, dispatchers and executions go on, time passes, and   *)
(* the cleanup comes round again until an update of a stuck row succeeds.  *)
Fairness ==
  /\ \A w \in Worker : WF_vars(Dispatch(w))
  /\ \A j \in Job :
       /\ WF_vars(\E w \in Worker : queue[j] = "visible" /\ Receive(w, j))
       /\ WF_vars(Redrive(j)) /\ WF_vars(Execute(j)) /\ WF_vars(Age(j))
       /\ SF_vars(\E S \in SUBSET Job : j \in S /\ status[j] = "PENDING" /\ FindStuck(S))
       /\ SF_vars(status[j] = "PENDING" /\ CleanUp(j))

Spec == Init /\ [][Next]_vars
FairSpec == Spec /\ Fairness

-----------------------------------------------------------------------------
(* Properties.                                                             *)

(* A request that leaves the queue as done was refused as invalid or has   *)
(* had its execution started, and the jobs table has a row of it, whatever *)
(* raised, died or was delivered twice.                                    *)
AcknowledgedIsStarted ==
  \A j \in Job :
    queue[j] = "deleted" /\ payload[j] # "invalid" => exec[j] # "none" /\ status[j] # None

(* The name of the execution makes the model run once for a job: no        *)
(* redelivery puts an execution back to its start.                         *)
ModelRunsOnce ==
  [][\A j \in Job : exec[j] # "none" /\ exec[j] # "invoke"
                      => exec'[j] # "invoke"]_vars

(* The cleanup works from a list that may be out of date, but never turns  *)
(* a job that ended in the meantime into TIMEOUT.                          *)
CleanupSparesEnded ==
  [][\A j \in Job : status[j] \in {"COMPLETED", "FAILED"}
                      => status'[j] # "TIMEOUT"]_vars

(* Unless a call raises, a Lambda dies or SQS delivers twice, COMPLETED    *)
(* and FAILED are final: the workflow and the safety net that records its  *)
(* failures a second time do not undo each other.                          *)
EndedStaysEnded ==
  [][faults \subseteq {"model", "lost"} =>
       \A j \in Job : status[j] \in {"COMPLETED", "FAILED"}
                        => status'[j] = status[j]]_vars

(* No job stays PENDING: what the workflow and its safety net leave is     *)
(* ended by the cleanup, and a job without a row is in the dead-letter     *)
(* queue or was refused.                                                   *)
EveryJobEnds ==
  \A j \in Job :
    <>[](\/ status[j] \in Final
         \/ status[j] = None /\ (queue[j] = "dlq" \/ payload[j] = "invalid"))

(* ARCHITECTURE.md draws COMPLETED, FAILED and TIMEOUT as final states.    *)
FinalIsFinal ==
  [][\A j \in Job : status[j] \in Final => status'[j] = status[j]]_vars

=============================================================================

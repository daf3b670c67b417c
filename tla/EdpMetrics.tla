----------------------------- MODULE EdpMetrics -----------------------------
(***************************************************************************)
(* event-driven-pipeline-sandbox: the jobs of EdpJobs together with the    *)
(* stream-processor, which follows the stream of the jobs table and adds   *)
(* the jobs that ended to the daily metrics of their tenant.  Tenants and  *)
(* days share nothing, so what each job has added to its counters is kept. *)
(***************************************************************************)
EXTENDS EdpJobs, Sequences

CONSTANT MaxCount   \* bound: how often one job is counted

ASSUME CountAssumption == MaxCount \in Nat

VARIABLES
  changes,   \* the stream: changes of a status to COMPLETED or FAILED, those of
             \* the batch in hand first
  through,   \* how many records of that batch are through
  metrics    \* metrics[j]: what j has added to completed_jobs and failed_jobs

metricsVars == <<changes, through, metrics>>
allVars == <<vars, metricsVars>>

Counters == {"completed", "failed"}

InitMetrics ==
  /\ Init
  /\ changes = <<>> /\ through = 0
  /\ metrics = [j \in Job |-> [c \in Counters |-> 0]]

\* Mutant: the status before is not looked at.
PassesTheFilter(j) ==
  /\ status[j] # None
  /\ status'[j] \in {"COMPLETED", "FAILED"}

\* The filter of the mapping lets in updates of a row whose new status is one of
\* the two; where the status was the same before, the handler passes on.
Passes(j) ==
  /\ status[j] # None
  /\ status'[j] \in {"COMPLETED", "FAILED"} /\ status'[j] # status[j]

JobStep ==
  /\ Next
  /\ \/ \E j \in Job : Passes(j) /\ changes' = Append(changes, [job |-> j, new |-> status'[j]])
     \/ (\A j \in Job : ~Passes(j)) /\ UNCHANGED changes
  /\ UNCHANGED <<through, metrics>>

\* How SaveResult writes the token counts into the row.
TokenType == "S"

\* parse_dynamodb_value: the value of an N is a number, that of an S a string.
ParseDynamodbValue(type) == IF type = "N" THEN "number" ELSE "string"

Add(j, counter) == metrics' = [metrics EXCEPT ![j][counter] = @ + 1]

\* ADD takes numbers only, and one that is not makes the whole update fail.
ProcessJobCompleted(j) ==
  IF ParseDynamodbValue(TokenType) = "number" THEN Add(j, "completed")
  ELSE UNCHANGED metrics

ProcessJobFailed(j) == Add(j, "failed")

\* A failing update is logged, and the record is through.
ProcessRecord ==
  /\ through < Len(changes)
  /\ LET r == changes[through + 1]
     IN  /\ metrics[r.job]["failed"] < MaxCount
         /\ \/ r.new = "COMPLETED" /\ ProcessJobCompleted(r.job)
            \/ r.new = "FAILED" /\ ProcessJobFailed(r.job)
            \/ "aws" \in faults /\ UNCHANGED metrics
  /\ through' = through + 1
  /\ UNCHANGED <<vars, changes>>

\* The Lambda returns, and the stream goes on after the batch.
Return ==
  /\ through > 0
  /\ changes' = SubSeq(changes, through + 1, Len(changes))
  /\ through' = 0
  /\ UNCHANGED <<vars, metrics>>

\* The Lambda dies: the batch comes again, also the records that are through.
ProcessorDies ==
  /\ "crash" \in faults /\ through > 0
  /\ through' = 0
  /\ UNCHANGED <<vars, changes, metrics>>

NextMetrics == JobStep \/ ProcessRecord \/ Return \/ ProcessorDies

SpecMetrics ==
  /\ InitMetrics /\ [][NextMetrics]_allVars
  /\ Fairness /\ WF_allVars(ProcessRecord) /\ WF_allVars(Return)

-----------------------------------------------------------------------------
(* Once the stream of a job is read, its failure is counted: exactly once  *)
(* although the workflow and the EventBridge handler both record it, if no *)
(* call raises, no Lambda dies and SQS delivers once; at least once if     *)
(* Lambdas die.  A job that cannot have failed is not counted as failed.   *)
FailuresAreCounted ==
  \A j \in Job : changes = <<>> =>
    /\ faults \subseteq {"model", "lost"} =>
         metrics[j]["failed"] = IF status[j] = "FAILED" THEN 1 ELSE 0
    /\ "aws" \notin faults /\ status[j] = "FAILED" => metrics[j]["failed"] >= 1
    /\ faults \cap {"model", "aws"} = {} => metrics[j]["failed"] = 0

(* The completed jobs of a tenant and a day are counted too.               *)
CompletionsAreCounted ==
  \A j \in Job :
    changes = <<>> /\ faults = {} /\ status[j] = "COMPLETED" => metrics[j]["completed"] = 1
=============================================================================

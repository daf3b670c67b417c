# terraform-lab in TLA+

`src/` is a portfolio of 58 independent labs: infrastructure as code around
AWS, and in some of them programs that run on it.  This directory holds TLA+
specifications of the programs whose behaviour is more than one library call:
two event pipelines, a Kubernetes operator, a review workflow, an items API
with an audit stream, an advisor that opens pull requests, a monthly cost
report, and the suppression list of a mail system.  In all of them calls are
repeated, caches are stale, batches fail in part, processes die half way, and
several writers share one row, object or branch.  The specifications are
model-checked with TLC on small instances, and their safety properties are
proved with TLAPS for every instance; what must eventually happen is checked
with TLC only.

`PROJECT.json` is the index: components, runs, mutants, the source lines each
definition models (`map`), findings, hazards and theorems.

## 1. Inventory

### 1.1 serverless-event-pipeline (SEP)

Files arrive in S3 and records in Kinesis; both end as items of a DynamoDB
table whose stream feeds daily totals.

| part | state it keeps | operations | talks to |
|---|---|---|---|
| main queue (`terraform/modules/sqs-pipeline`) | messages, their receive counts | deliver a batch, redrive after `maxReceiveCount`, take the partial batch answer | S3 notifications in, ingestor out, DLQ |
| ingestor (`src/ingestor`) | the batch and position of an invocation | read a file, validate a row, conditional `PutItem`, answer with `batchItemFailures` | queue, S3, events table |
| Kinesis mapping (`terraform/modules/kinesis-pipeline`) | checkpoint, batch under delivery, retries | poll, halve, retry, dead-letter a single record | transformer, transform DLQ |
| transformer (`src/transformer`) | items to write, chunk, `retry_count` | transform records, `BatchWriteItem` in chunks, repeat `UnprocessedItems` | events table |
| events table and stream (`terraform/modules/dynamodb`) | items, sequence of changes | insert, replace, expire | ingestor, transformer, aggregator |
| aggregator (`src/aggregator`) | totals per entity and day, error metric | `ADD` the effect of each change, count failures | stream, aggregations table |
| dlq-handler (`src/dlq_handler`) | messages received, `attempt_count` | classify, send back with a delay, archive, alert, delete | DLQ, source queue, S3, SNS |

What is hard: SQS and the streams deliver more than once; a batch fails in
part; a call raises after it took effect; an invocation dies between two
steps; the schedule and an alarm start overlapping drains whose visibility
timeout is shorter than they may run; records of one key must not overtake
one another; retries must end, or be reported.

What makes it correct: an acknowledged file has its rows stored; an item once
stored by the ingestor stays; a poison file or record does not drag its
neighbours along; no failed event disappears, and one nobody can classify is
reported; totals equal the items, or the difference has left a trace.

### 1.2 event-driven-pipeline-sandbox (EDP)

A request becomes a row in the jobs table and a Step Functions execution.

| part | state it keeps | operations | talks to |
|---|---|---|---|
| input queue (`modules/messaging`) | messages, receive counts | deliver, redrive | dispatcher |
| dispatcher (`modules/dispatcher`) | the message it handles | validate, `put_item` PENDING, `start_execution`, answer | jobs table, workflow |
| workflow (`modules/workflow`) | the state of each execution | call the model, save and notify in parallel, record a failure | Bedrock, jobs table, SNS |
| dlq-handler (`modules/event-router`) | list of stuck jobs | record failed executions, turn rows PENDING for an hour into TIMEOUT | EventBridge, jobs table |
| stream-processor (`modules/stream-processor`) | daily counters | count ends of jobs | jobs table stream |

What is hard: dispatcher, workflow, failure handler and cleanup all write the
`status` of one row, the first two without looking at it; events are delivered
again or lost; the cleanup works from an index that lags behind; two writers
record one failure, and the stream brings both.  What makes it correct: an
acknowledged request was started, the model runs once, every job ends, an end
is not turned into another one while nothing fails, and a failure is counted
once.

### 1.3 gpu-inference-operator-lab (GPU)

A Kubernetes operator keeps one Deployment and one Service per
AIInferenceService.

| part | state it keeps | operations | talks to |
|---|---|---|---|
| webhook (`webhooks`) | none | defaults, validation | API server |
| reconcile loop (`controllers`) | the copy it works on; status and annotation of the object | finalizer, scaling, Deployment, Service, self-healing, fallback, status | API server through caches, Prometheus |
| detectors and calculator (`internal`) | none | degrade or bump, start, wait or fall back, replicas from a metric | the loop |

What is hard: the caches trail what the loop wrote itself, a write made from
an old copy is refused, a pass ends early after the annotation, users edit and
delete meanwhile, the manager is replaced between any two calls.  What makes
it correct: repairs are counted, no pass leaves Degraded, Bedrock takes
over after a whole timeout and not before, nothing created outlives the
object uncleaned, and the replica calculation settles: a constant load is
answered once, a moving one makes replicas come and go only across the dead band.

### 1.4 aws-infra-review-ai (review)

| part | state it keeps | operations | talks to |
|---|---|---|---|
| API (`modules/api`) | the session row | create a session with an upload URL, read it | sessions table, S3 |
| workflow starter (`modules/workflow/src`) | the event it handles | check, read, mark, start | S3, Bedrock, sessions table, Step Functions |
| state machine (`modules/workflow/main.tf`) | the state of the execution | every state, with and without Catch | the Lambdas |
| four reviewers, supervisor, report generator, notifier (`modules/agents`, ...) | nested maps of the row, the report | write a round, the report, its link | sessions table, S3, Chatwork |

What is hard: every PUT with the URL is an event and events repeat; the
starter reads the status long before it writes it; four Lambdas write into one
nested map, also after the execution has moved on.  What makes it correct: one
review per session, no result lost, completed means readable, failures reach
the row.

### 1.5 serverless-api-platform (items)

Five handlers over one table, its time to live, and a stream processor that
writes an audit object per change.  What is hard: owner check and write are
two calls with expiry in between; pages are read while items change, from an
index that lags behind the table; batches report the records they failed on.
What makes it correct: what is gone stays gone, a listing has every item that
was there and indexed all the time, no change is passed over.

### 1.6 iam-least-privilege-advisor (advisor)

| part | state it keeps | operations | talks to |
|---|---|---|---|
| analyzer-trigger (`lambda/analyzer_trigger`) | findings file of the day | scan, store, start the other Lambda | Access Analyzer, S3 |
| policy-advisor (`lambda/policy_advisor`) | position in the loops over roles and policies | fetch policies, ask the model, validate, branch, file, pull request, notify | S3, IAM, Bedrock, GitHub, Chatwork |

What is hard: the invocation is asynchronous, so what fails is repeated from
the beginning next to an invocation by hand; three calls to GitHub make one
proposal and each may fail after its effect; branch and file are named after
the day and the first letters of the role, which several policies and roles
share; what is proposed was written by a language model.  What makes it
correct: a proposal keeps what the findings do not call unused, there is one
per policy and day, and it shows what its title says.

### 1.7 bedrock-finops-automation (FinOps)

| part | state it keeps | operations | talks to |
|---|---|---|---|
| state machine (`modules/workflow`) | state, attempts and payload of an execution | five states in a row, Retry and Catch of each | the Lambdas |
| collector, anomaly-detector, ai-reporter, html-formatter (`modules/...`) | none between calls | month and its boundaries, bills, rules, the model's risk, the page | Cost Explorer, Bedrock, S3, history table |
| sns-notifier | none | publish the link, mark the row | SNS, history table |

What is hard: the payload travels through the states while a row and four
objects follow it, the row under the id of an invocation, the objects under
the month alone; a state is retried when its answer is lost, and a second
execution may run beside the first.  What makes it correct: a mail is about
its month, also in January, and its link shows what it says; the row of a
success is its own; every execution ends.

### 1.8 mail-infra-handson (mail)

| part | state it keeps | operations | talks to |
|---|---|---|---|
| bounce_handler (`modules/bounce-pipeline`) | recipients it has not handled yet | write a row per recipient | SNS, suppression table |
| suppression_manager (`modules/suppression-sync`) | rows it has scanned | add to SES what is missing there, delete what has expired | the table, SES |
| spam_handler (`modules/inbound-pipeline`) | none | judge a mail, log it | SES, the table, spam log |

What is hard: all three work on one table without conditions, while its time
to live runs; no read asks for consistency, so each may show an older version of
a row; notifications come late, twice, and in any order; a run of the manager
may end anywhere.  What makes it correct: what is meant to last lasts,
reaches SES, and blocks the sender.

### 1.9 The other labs

Not modelled, with the reasons in section 8: **order-pipeline-lab**, the
secret rotation of **aurora-rds-proxy-lab**, the approvals of
**bedrock-multi-agent-ops-autopilot**; Lambdas that
collect data, ask a model, write a report and keep nothing between calls;
remediations that are one idempotent call; sample services of a few dozen
lines; and labs that are Terraform, Ansible and Kubernetes manifests only.
`PROJECT.json` names them all.

## 2. Modules

| module | models |
|---|---|
| `SepDelivery` | what the ingestor promises about a message, without queue, batches or retries |
| `SepIngestor` | main queue and ingestor; implements `SepDelivery` |
| `SepTransformer` | one Kinesis shard, its mapping and the transformer |
| `SepAggregator` | events table, its stream and mapping, the aggregator |
| `SepPaths` | `SepAggregator` composed with the validation, keys and values of its two writers |
| `SepDlqHandler` | dead-letter queue, source queue and overlapping drains |
| `EdpJobs` | input queue, dispatchers, workflow, EventBridge and cleanup |
| `EdpMetrics` | `EdpJobs` composed with the stream of the jobs table and its processor |
| `GpuPolicy` | webhook, replica calculation, self-heal and fallback decisions |
| `GpuOperator` | the reconcile loop, its caches and its surroundings; uses `GpuPolicy` |
| `ReviewPipeline` | one review session from the API to the report |
| `ServerlessItems` | the items API, the time to live and the audit stream |
| `IamAdvisor` | both Lambdas of the advisor, GitHub and the engineers |
| `FinopsReport` | the state machine of the cost report and its five Lambdas |
| `MailSuppression` | the suppression list and the three Lambdas around it |
| `MC...` | instances of the modules for TLC |
| `SepIngestorProofs`, `SepDlqHandlerProofs`, `SepTransformerProofs` | theorems about the module of that name |
| `EdpJobsProofs` | theorems about `EdpJobs` and `EdpMetrics` |
| `GpuOperatorProofs` | theorems about `GpuOperator` and `GpuPolicy` |
| `ReviewAndTotalsProofs` | theorems about `SepAggregator` with `SepPaths`, and about `ReviewPipeline` |
| `ItemsAndAdvisorProofs` | theorems about `ServerlessItems`, and about `IamAdvisor` |
| `MailAndReportProofs` | theorems about `MailSuppression`, and about `FinopsReport` |

The last three hold two systems each that do not interact; so that both can be
extended, the aggregator, the advisor and the report prefix their `Init`,
`Next`, `Spec`, `vars` and `TypeOK`.

Each module has one action per step after which another process may run, a
call may raise or the process may die.  In the SEP and EDP modules what goes
wrong is a parameter `Faults`; in the others a bound says how often something
does.  Where `Faults` is a parameter, but for `SepDlqHandler` and
`FinopsReport`, a variable `faults` (`troubles` in `SepAggregator`) picks a
subset in `Init`, so that one run holds calm and faulty behaviours side by side
and a property may speak of the calm ones (`faults = {} => ...`) without being
cut off from the rest.

**SepIngestor.**  A message is the sequence of the rows of its files, in the
order `_record_handler` visits them; a row is valid, malformed (counted and
skipped) or unreadable (the download or the parser raises).  `Receive` and
`Redrive` are the queue; `StartMessage`, `PutRow`, `SkipMalformed`,
`RaiseUnreadable`, `RaiseAwsError`, `FinishMessage` and `Return` the handler,
where `RaiseAwsError` may have written the row (a reply that was lost).
`ConditionalPut` is `attribute_not_exists`, whose failure the code takes for
success.  `Settle` is SQS acting on the partial batch answer; `Crash` answers
nothing.  Row values matter by their key only.

**SepTransformer.**  A record is its position in the shard; it is bad
(`transform_record` raises) or good with a key.  `Raised` is the reaction of
the mapping to a failed invocation: halve the batch, else retry, else
dead-letter.  `Transform` and `TransformFails` are the Powertools
`BatchProcessor`, which raises only when all records failed.  `StartChunk` and
`WriteChunk` are `_batch_write_to_dynamodb` and `_write_chunk_with_retry`;
after the last retry the unprocessed items are dropped and counted.
`WriteRaises` is a client error, a lost reply, or the refusal of a request
that names a key twice.  `Return` passes the batch: the mapping sets no
`function_response_types`, so the answer of the handler is not read.

**SepAggregator.**  `Insert`, `Overwrite` and `Expire` change the table and
append to the stream.  `TypesOf[k]` are the event types that the item of key
`k` may have.  `Delta` is `_process_record`: what a record adds.
`AggregateFails` is the `except` branch, which counts and goes on; the metric
is published when the invocation ends, so `TimeOut` loses it.  `LoseReply` and
`TimeOut` make the mapping deliver again.

**SepPaths.**  An event is a record of the fields that either path looks at:
entity, type, value, metadata, the coordinates of a click, and a time, which
is the second it means together with how it is written (offset, fraction, no
zone, unreadable).  `Ingest` validates and normalises as `InputPayload` does
and writes unless the key is taken; `Stream` validates as `transform_record`
does, keeps the text of the time and writes in any case; `ExtractDate` takes
the day in the zone of the text.  Spaces around fields, fields of a wrong type
and the payload that no total depends on are abstracted away.

**SepDlqHandler.**  A message is a copy out of a pool, because sending an
event back makes a new message with a new id.  `ReceiveMessages`, `Requeue`,
`Archive`, `Alert`, `DeleteMessage` and `EndDrain` are the drain; each has its
failing counterpart.  `Classify` keeps the order of the code: explicit
`error_type`, then `failure_reason`, then the body, TRANSIENT keywords before
PERMANENT ones; keywords are abstracted to the categories they stand for.
`Expire` is the visibility timeout running out under a drain at work.

**EdpJobs.**  `PutJob` replaces the whole row, `StartExecution` is idempotent
while the execution of that name runs and refused when it is over.  Of the
workflow every state is there; the two branches of `ParallelFinalize`
interleave and one may fail when the other is through.  `FindStuck` may list
rows that are not PENDING any more.

**EdpMetrics.**  A step of `EdpJobs` that gives a row another final status
appends to `changes` (`Passes`: the filter of the mapping and the comparison
with the old image).  `ProcessRecord` is the loop over the batch, where an
update that raises is logged and passed; `Return` ends the batch,
`ProcessorDies` brings it again.  `ParseDynamodbValue` is the conversion that
keeps the token counts strings.

**GpuOperator.**  `ais`, `dep` are the API server, `seen`, `depSeen` the
caches, `obj` the copy of the pass; `seenCurrent`, `objCurrent`, `depCurrent`
say whether a copy has the latest version, which is all that optimistic locking
compares.  A pass is `StartPass` (with `evaluateScaling`),
`ReconcileDeployment`, `ReconcileService`, `ReconcileSelfHeal`,
`ReconcileFallback`, `ReconcileStatus`, in the order of `Reconcile` and with
its early returns; `Degrade` is `setDegradedCondition`.  The repeated pass
after an annotation, and the count that it loses, are kept: `uncounted` is what
the stored count lacks because a pass raised the limit and did not store its
count, or because a person set the count back.  `Edit` writes a spec or a
malformed annotation; `ResetStatus` is the status patch of the runbook
(`docs/runbook.md:107-138`), with the phase or without; `setBack` remembers the
greatest count that was set back.  Time is the age of the annotation: `fresh`
or `old`.

**ReviewPipeline.**  `starter[e]` walks through the handler of the workflow
starter for event `e`; `StartExecution` knows the idempotence of Step
Functions by name and input, and the input matters because the description of
an image is another one at each call.  `exec.at` is the state of the state
machine, `Caught` and `Uncaught` its states with and without Catch; a reviewer
goes on when its execution has failed.  `exec.results` and `exec.synthesis`
are the payload that reviewers and supervisor hand on, `report` the object in
S3 and `posted` what the chat was told.

**ServerlessItems.**  `CheckOwner` and `UpdateItem` are the two calls of a PUT
or DELETE, `Expire` may come between them.  No read of the table asks for
consistency, and the listing queries an index that cannot give it: `stale[i]`
has the older versions of item `i` that a read may still show, as far as a
reader tells them apart (the owner, or that it is not there), until `Replicate`.
`CheckOwner` reads one of them; `NextPage` is a query below the cursor in the
order of `created_at` that may miss what some copy lacks and find what some copy
still has.  Conditional writes see the latest version.  `batch` is the position of the stream
processor; `Checkpoint` what Lambda makes of `batchItemFailures`.

**IamAdvisor.**  analyzer-trigger is `Scan`, which fixes the key of the day,
`Save` and `InvokePolicyAdvisor`; either call may fail after its effect
(`TriggerFails`).  `InvokeByHand` gives no key: `ResolveKey` takes that of the day
the invocation runs on, and it raises if there is no file.  `run[i]` is an invocation of policy-advisor with the roles and
policies that its loops have still to visit, as places in the lists, of which
the least is next; `Fail` is Lambda repeating it.  `Validate` is
`validate_ai_policy` with the dictionaries it builds by `_stmt_key`; a
statement is a record whose actions are a set, and `Lower` is what
`NormalizeActions` does to their letter case.  `Answers` has what the code does
not check as well: a list of removed actions that is empty or no list, which
leaves the policy out or raises before GitHub is called, and warnings that are no
list (`~listed`), which raises when the text of the pull request is composed and
the file is on its branch.
`CreateBranch`, `CommitFile` and `CreatePullRequest` refuse what GitHub
refuses: a branch that exists, a file put without its SHA, a second pull
request of a branch.  `Merge` and `Reject` are the engineers.

**FinopsReport.**  `at[e]` is the state of an execution, `pc[e]` the position
in the Lambda of that state, `payload[e]` what is handed on.  `Retry` follows
an invocation that was not accepted or whose answer was lost, `Fail` any other
error.  `CostIncrease`, `ServiceConcentration` and `NewServices` are the rules
of the detector, in cents and whole percents.  `html` keeps the page of a
month; of the other objects, which nothing reads, only that they are there.

**MailSuppression.**  A row is permanent, temporary, expired or gone: `Expire`
is the clock, `TtlDelete` DynamoDB.  `HandleRecipient` is one turn of the
handler's loop; `ScanTable`, `ListSes`, `AddToSes`, `FindExpired`,
`DeleteExpired` are the calls of the manager; `JudgeMail` is the spam handler,
which reads the table once, `PassUnparsed` its way past a malformed event.
`stale[r]` has the older versions of a row that `get_item` and the scans may still
return until `Replicate`: a scan finds the rows of which every copy matches and
any of those of which some copy does (`Found`).  `overtaken` has the rows that
were written again while a sweep took them for expired, or could.

### How they compose

The parts meet in the events table.  `SepAggregator` reduces its writers to
`Insert` and `Overwrite` of any item; `SepPaths` lets them write what either
path makes of the events that are sent, one at a time, while `SepIngestor` and
`SepTransformer` have their batches, failures and retries; `SepDlqHandler` has the ingestor reduced
to "accepts" or "dead-letters"; `SepIngestor` is shown to be no more than
`SepDelivery`.  `EdpMetrics` runs the stream-processor beside the whole of
`EdpJobs`.  The other systems share nothing with each other.

## 3. What the runs check

| run | expected | properties | shows |
|---|---|---|---|
| `ingestor` | holds | `DeletedMeansStored`, `HealthyNotDeadLettered`, `FirstWriterWins`, `EventuallySettled`, `DeliverySpec` | with two invocations, a file that cannot be read, lost replies, timeouts and duplicate deliveries |
| `transformer` | holds | `PassedIsStored`, `GoodRecordNotDeadLettered`, `ShardDrains` | no older record ends on top of a newer one, no good record is dead-lettered for its neighbours, the shard drains |
| `aggregator` | holds | `TotalsAccounted`, `EventsCountOnce` | exact totals when nothing fails, else every missed purchase or view left a trace; a plainly written event counts once and on its day, whichever way and however often it came |
| `dlq_safety` | holds | `NothingVanishes`, `UnknownIsReported` | two overlapping drains with every fault |
| `dlq_outage` | holds | `DrainsAreSound`, `BackoffGrows`, `NonTransientLeaves` | an outage of the consumer, liveness included |
| `edp_jobs` | holds | `AcknowledgedIsStarted`, `FailuresAreCounted`, `ModelRunsOnce`, `CleanupSparesEnded`, `EndedStaysEnded`, `EveryJobEnds` | two dispatchers and the stream-processor with every fault |
| `gpu_operator` | holds | `OperatorIsSound`, `ScalingSettles`, `PhaseMoves`, `ServiceSettles` | stale caches, refused writes, edits, status patches by hand, restarts and failing pods, liveness included; replicas for every load up to four times the target |
| `review` | holds | `ResultsAreComplete`, `ReviewedOnce`, `ReviewsAccumulate`, `SessionsAreAnswered` | two starters for one session, a failing call or a dying Lambda |
| `items` | holds | `NothingIsMissed`, `NoGhosts`, `ChangesSettle` | writes and expiry between two calls and between pages, old copies and a lagging index, failing records and batches |
| `iam_advisor` | holds | `PullRequestsAreSound`, `FilesKeepTheRest` | two invocations, repetitions, a lost answer or a death in either Lambda, two roles of one short name, well-formed and malformed answers of the model |
| `finops` | holds | `MailsAreRight`, `SuccessIsRecorded`, `ExecutionsEnd` | two executions of one month or of two, across the turn of a year, with raising calls and lost answers |
| `mail_suppression` | holds | `PermanentRecordsStay`, `ComplaintsReachSes`, `SendersStayBlocked` | soft and hard bounces of one address in any order and twice, which complains besides, with old copies of the rows, beside the sync and incoming mail |

The type invariants of `SepIngestor`, `SepTransformer`, `EdpJobs`,
`MailSuppression` and `FinopsReport` are proved and not listed as properties
(section 6); that of `SepAggregator` is a conjunct of its inductive invariant.
That of `SepDlqHandler` is part of `DrainsAreSound`, beside `NoMultiplication`;
those of `GpuOperator`, `ReviewPipeline`, `ServerlessItems` and `IamAdvisor` are
parts of `OperatorIsSound`, `ResultsAreComplete`, `NothingIsMissed` and
`PullRequestsAreSound`, which are proved too.  Those four, and
`TotalsAccounted`, `ServiceSettles`, `SessionsAreAnswered` and `ChangesSettle`,
are conjunctions of parts with a comment each.  Every property has a mutant: a definition of the module
replaced by one with a plausible bug (marked in the modules), under which TLC
finds the property violated.  `MailsAreRight`, `TotalsAccounted` and
`OperatorIsSound` have several, for parts that a single one would leave
unused.

### Where code and documents disagree

Fifteen properties state what a comment, a test or a document says and are false
in the model.  They are in the modules, outside the listed runs; the
configuration named here reproduces the counterexample
(`tlc -config <cfg> <module>`; where one configuration names two properties,
`-continue` shows the second as well).

| property | configuration, module | code | says otherwise |
|---|---|---|---|
| `NoEventLost` | `SepIngestorSecond.cfg`, `MCSepIngestor` | two events of an entity in one second share a sort key (`utils.py:70`); the second is dropped as a duplicate and acknowledged | `src/ingestor/handler.py:215`, `docs/adr/003` |
| `RetriesAreLimited` | `SepDlqForever.cfg`, `MCSepDlqHandler` | nothing limits `attempt_count` (`dlq_handler/handler.py:307`) | `src/dlq_handler/handler.py:197` |
| `ModifyAgainIsHarmless` | `SepAggregatorModify.cfg`, `MCSepAggregator` | a MODIFY delivered again adds its difference again (`aggregator/handler.py:138`) | `src/aggregator/handler.py:10`, a unit test |
| `TotalsExact` | `SepAggregatorRetyped.cfg`, `MCSepAggregator` | an item replaced by one of another type is not taken off the totals (`:135`) | `src/aggregator/handler.py:9` |
| `BadRecordIsKept` | `SepTransformerBad.cfg`, `MCSepTransformer` | the mapping sets no `function_response_types`, so a bad record in a batch with a good one is passed in silence (`kinesis-pipeline/main.tf:135`) | `src/transformer/handler.py:17` |
| `DegradedMeansExhausted` | `GpuOperatorDocuments.cfg`, `MCGpuOperator` | without any fault, a second pass misses its own Deployment in the cache, creates it again, and the refusal makes the service Degraded for good (`aiinferenceservice_controller.go:119`) | `api/v1alpha1/aiinferenceservice_types.go:37`, `ARCHITECTURE.md:245` |
| `ResetLeavesDegraded` | `GpuOperatorReset.cfg`, `MCGpuOperator` | `updateStatus` keeps a Degraded phase, so a service whose spec was edited and whose `restartCount` was set to 0 stays Degraded for good unless the phase is patched too (`aiinferenceservice_controller.go:516`) | `docs/runbook.md:117-138`, `ARCHITECTURE.md:250` |
| `NeverFlaps` | `GpuOperatorDocuments.cfg`, `MCGpuOperator` | of two replicas one is given up as soon as the load fits one, and asked for again when it grows by the least bit: the test for the dead band (`calculator.go:69-73`) stops nothing below three | `internal/scaling/calculator.go:14-17` |
| `CompletionsAreCounted` | `EdpJobsDocuments.cfg`, `MCEdpJobs` | `SaveResult` stores the token counts as strings, ADD refuses them, and the error is swallowed (`stream-processor/src/index.py:67`) | `ARCHITECTURE.md:349` |
| `HardBouncesStay` | `MailSuppressionDocuments.cfg`, `MCMailSuppression` | a soft bounce handled later replaces the permanent row (`bounce_handler.py:187`), which then expires | `ARCHITECTURE.md:331`, `bounce_handler.py:173` |
| `SoftBouncesAreLifted` | `MailSuppressionDocuments.cfg`, `MCMailSuppression` | the sync adds soft bounces to SES as well (`suppression_manager.py:160`), and nothing takes an address off that list | `bounce_handler.py:93` |
| `FinalIsFinal` | `EdpJobsDocuments.cfg`, `MCEdpJobs` | COMPLETED becomes FAILED when only the notification failed | `ARCHITECTURE.md:435` |
| `StatusFollowsDiagram` | `ReviewPipelineStatus.cfg`, `MCReviewPipeline` | the second starter writes starting over running or completed (`workflow/src/index.py:376`) | `ARCHITECTURE.md:427` |
| `ListContainsCreated` | `ServerlessItemsListing.cfg`, `MCServerlessItems` | a listing asked for after an item was created may lack it: the query (`repository.py:91`) reads an index, which is always eventually consistent | `tests/integration/test_api_e2e.py:92` |
| `AuditKeepsEveryChange` | `ServerlessItemsAudit.cfg`, `MCServerlessItems` | two logs of an item in one second have one object key (`stream_processor/handler.py:128`) | `stream_processor/handler.py:123`, `README.md:33` |

Met while modelling, and kept in the models as the code has them:

* GPU: a failed metrics query scales to the minimum, where the comment at
  `aiinferenceservice_controller.go:103` says the current number is kept; the
  status becomes "recovered" only when the annotation cannot be written; the
  return after the annotation loses the restart count of the pass; a service that
  an API error made Degraded sends no alert, so that `ServiceSettles`, which
  accepts Degraded, does not say that somebody was called.
* Review: `SendNotification` has no Catch, although a comment
  (`workflow/main.tf:332`) and `ARCHITECTURE.md:691` say that a failed
  notification does not stop the workflow; a starter that dies after the mark
  leaves the session starting for ever, because the repeated event finds it no
  longer pending; the size check at `workflow/src/index.py:272` is never true,
  the read being cut at `:229`.
* SEP: an event that is not written plainly (letters of the entity type, a
  zone other than Z, a fraction of a second) becomes two items when it comes
  both ways, because the ingestor rewrites its time and the transformer
  (`transform.py:174`) keeps it, and the item of the stream is filed under the
  day of its own zone; `EventsCountOnce` is therefore about plain events.  The
  two paths also accept different events: any type with `value` missing is a
  row, but not a record.
* FinOps: a success ends as `notified`, where `ARCHITECTURE.md:416` and the
  comment of the last state have `completed`; the comment of
  `SendSnsNotification` says that a failed notification does not fail the
  workflow, its Catch leads to `WorkflowFailed`; a row is named after month
  and request, `storage/main.tf:88` says month alone, so a repeated collector
  leaves a row that stays `collected`; a service is called new when it is
  missing among the first ten of the month before.
* Mail: the sender of an incoming mail is looked up as it is spelled, and a
  row that has expired still blocks it until it is removed.  `get_item` does not
  ask for a consistent read (`spam_handler.py:87`), so a sender whose bounce was
  just written may pass; a table that cannot be read lets the mail pass, and so
  does an event that cannot be parsed, without a lookup or a log
  (`spam_handler.py:145-150`).  `SendersStayBlocked` names these exceptions.
* Items: restoring an archived item keeps its `expires_at`.  No `get_item` asks for
  a consistent read: a request that follows the creation of its item may be
  answered 404.
* Advisor: the second policy of a role, a second role of the same short name,
  or a second run on one day meets a branch that exists, and the whole
  invocation fails with the roles after it; once a proposal is merged, every
  later one for that role is refused for want of a SHA; a finding about a user
  makes `list_attached_role_policies` raise, which stops every repetition
  although the comment at `handler.py:308` says such roles are skipped;
  `validate_ai_policy` does not compare the effect of an Allow statement,
  looks at no statement that was added, and of two statements with one key
  sees the last only, for which `FilesKeepTheRest` makes an exception; warnings
  that are no list raise when the text of the pull request is composed
  (`github_pr_creator.py:292`), and the branch stays with its file and no pull
  request; an invocation by hand raises on a day without findings
  (`handler.py:252`).

## 4. Bounds

* `ingestor`: two messages, two invocations, batches of two, two receptions.
  One file is poisoned, the other has a good, a malformed and a good row, two
  of the rows share a key.  Two invocations are what a duplicate delivery
  needs; the second reception is a retry, the limit its end.
* `transformer`: four records, of which three share a key and one is bad, in
  batches of up to four and requests of two: a batch takes two requests, can be
  halved twice, and holds a key twice in one request and across two.
* `aggregator`: four events of one user: a purchase, one without a price in
  the same second, which only the ingestor takes, a purchase that both refuse,
  and a view written in lower case in a zone where it is still the day before.
  Days have 8 seconds.  Three changes, batches of two, one retry: enough for
  an insertion, a replacement and an expiry to be delivered
  in different batches and again.  Aggregates do not interact.
* `dlq_safety`: two events and three messages, so one is free to send an event
  back while both travel; two invocations, two messages per receive and drain.
  `dlq_outage`: three events, one for each outcome, and four messages.  In the
  model the pool bounds how many messages exist at once; `attempts` stops
  counting at `AttemptCap`, from where the delay is the largest one anyway
  (`DlqAssumption` asks that of it).
  `MaxDelay` is 15 instead of 900, so that the limit is reached.
* `edp_jobs`: one job, two dispatchers, two receptions; a job counts up to
  twice (`MaxCount`), so that a repeated batch may count it again.  Jobs share
  nothing but the list of the cleanup, and its entries are handled one by one; the
  theorems hold for any number of jobs.

* `gpu_operator`: two specs that differ in image, bounds and scaling and one
  that the webhook refuses; one metric value, which asks for three replicas, the
  least for which the dead band works; two upsets, so that a failure of pods can
  meet a failing call, a restart, an edit or a status patch.  One raise of the
  memory limit: with one attempt allowed, the next failure degrades.
  `ScalingSettles` is checked for every metric up to four times the target, and
  its dead band for every growth of it by up to nine tenths.  919 000 states.
* `review`: four reviewers, two events, three kinds of files, one fault; a race
  needs two starters, and sessions share nothing.  Lambda repeats an event twice,
  so the module allows no more than two faults; with the second one
  `SessionsAreAnswered` is not checked.  167 000 states.
* `items`: two users, two items, three writes, one request between its two
  calls, one fault of the processor: a listing of two pages can be overtaken
  by creation, update and expiry.  What an old copy may show is any of the
  versions since the last `Replicate`, without another bound.  1 843 000 states.
* `iam_advisor`: two invocations of two tries each, two scans or starts by
  hand, two days, one trouble; two roles of one short name, one with two
  policies, and a user.  Of the documents the model may answer with, one passes
  the validation of its policy, the others each break one rule.  1 941 000 states, with the invocations symmetric (the run has safety
  properties only).

* `finops`: two executions, both on schedule or one by hand for the other side
  of the year's turn; two bills of two services, each of which may be the
  later one, so that every rule of the detector answers both ways; a summary
  of one service, so that one is left out; one retry per state.  Figures and
  pages of different months share nothing but names.
* `mail_suppression`: three notices about one address in two spellings, of which
  one has a soft and a hard bounce, delivered twice each, and both a complaint,
  delivered once; one fault.  So a complaint, and a hard bounce, of the address
  that bounced softly meet the expiry and the sweep of the softer row.  Scans and
  lists have one page: rows written between two pages are as good as rows written
  after the scan.  870 000 states.

`CHECK_DEADLOCK FALSE` is set where the system may come to rest, with its
queues empty or the bound on changes reached: everywhere but in
`mail_suppression`, whose manager runs every day.

## 5. Fairness

* `SepIngestor`: the mapping polls as long as a message is visible, an
  invocation goes on with its work, SQS redrives.  Errors, deaths and
  duplicates are never owed.
* `SepTransformer`: some step is taken as long as one is possible; retries
  are bounded, so the mapping need not be promised a good invocation.
* `SepDlqHandler`: the schedule triggers drains again and again, drains work,
  hidden messages reappear, and a receive that can return a message time and
  again sooner or later does (strong fairness: a short poll may miss a
  message, not for ever).
* `EdpJobs`: mapping, dispatchers and executions go on and time passes.  The
  cleanup is scheduled for ever, so strong fairness says that it finds a row
  that is PENDING again and again and that an update of it succeeds once;
  its calls may raise or the Lambda die any number of times before.
* `GpuOperator`: the work queue runs the loop, which polls; the watches fill
  the caches; time passes.  Users, pods and faults owe nothing, so the
  properties start from pods that stay up or away (`<>[]`).
* `ReviewPipeline`: Lambda runs every accepted event and each reviewer, Step
  Functions every execution.  Nobody owes an upload.
* `ServerlessItems`: the time to live removes what has expired, Lambda reads
  the shard and ends its batches.  The mapping has no limit on
  retries and the stream keeps a record for a day; the bound on faults says
  that they end before.  A client owes neither its second call nor the
  next page, and no property needs the copies of an item to catch up.
* `EdpMetrics`: the mapping of the stream goes on with its batch.
* `FinopsReport`: Step Functions goes on with a started execution.  It may be
  answered by a fault each time: the attempts are limited.
* `MailSuppression`: the scheduler starts the manager every day and Lambda runs
  it on, and the copies of a row catch up, which is what eventual consistency
  promises.  Notices, mails and the clock owe nothing.
* `SepAggregator`, `SepPaths` and `IamAdvisor` have no liveness property; the advisor
  gives the roles after a failing one no second chance, so none would hold.

## 6. What is proved

Every theorem holds for every value of the constants that satisfies the named
assumption of its module, which TLC also evaluates.  The assumptions type the
constants, ask limits to be positive where the services do, and keep `None`
apart from the values it stands beside.  Beyond that:

* `DlqAssumption`: the pool of messages is finite, and `AttemptCap` is large
  enough that the delay has reached `MaxDelay` there, without which the bound
  would show (the code counts on, and its delay stays at 900).
* `ReviewAssumption`: the four reviewers that the state machine names are among
  `Agents`, and no more than two invocations fail, for Lambda repeats an
  asynchronous one twice.
* `OperatorAssumption`: specs are of the CRD schema (`SpecType`), and the
  webhook lets one of them pass.
* `KeysAssumption`: the aggregator's keys and aggregates are those that the two
  paths make of the events, and `Amount` and `TypesOf` have room for their items.
* `FinopsAssumption`: the executions run in a month later than year 2 and are
  asked for one later than year 1, so that there are two months before it.
* `AdvisorAssumption`: what is attached, listed or written in a policy is a
  sequence, and the effect of a statement is Allow or Deny.

The theorems about the totals have a hypothesis that the code does not
guarantee.  They account for every item as long as no item is replaced by one of
another type (`OneTypePerKey`): without it they do not, which is the
counterexample `SepAggregatorRetyped.cfg` of section 3.  The instance of the run
`aggregator` satisfies the hypothesis, and `MCSepAggregator` has TLC check that.

The arguments, module by module.  An invariant in parentheses is the part that
had to be added because the property alone is not kept by every step; all of
them were checked with TLC before they were proved.

**SepIngestorProofs**: `TypeCorrect`, `FirstWriterAlwaysWins`,
`AcknowledgedIsStored`, `IngestorDelivers` (refinement of `SepDelivery`),
`HealthyNeverDeadLettered`.  That an acknowledged message is stored needs what
an invocation knows on the way: the rows of the current message before the
position are stored (`ProgressInv`), a message of the batch neither waiting nor
failed nor current is stored (`HandledInv`), and where the messages of a batch
may be (`BatchInv`).  The table only grows, so none of this is undone by
another invocation.  A readable message is kept from the dead-letter queue by
never being visible a second time and being failed in no invocation
(`HealthyInv`).

**SepDlqHandlerProofs**: `NoEventVanishes`, `UnknownAlwaysReported`,
`TypeCorrect`, `BackoffAlwaysGrows`, `DrainsAlwaysSound`.  An invocation about
to delete a message makes it `Doomed`; `CarriedOn` says that an event is in a
live message nobody is about to delete, or accepted, or archived and, if
unknown, alerted.  Delays grow because the delay of a message is the one that
belongs to its `attempt_count` (`DelayInv`), and `Backoff` doubles; the facts
about `Backoff` are proved by taking the least number that breaks them.  A
drain stays within its limit together with what it has received and not yet
handled (`BatchFits`).  That no event is multiplied rests on one holder per
message, which hides it from the others (`HoldInv`); a failing delete or an
expired visibility timeout breaks that, and the event is then multiplied, so
`DrainsAlwaysSound` is about `Faults \subseteq {"outage"}`, as its run is.

**SepTransformerProofs**: `TypeCorrect`, `PassedAlwaysStored`,
`GoodRecordNeverDeadLettered`.  The ranges to deliver follow one another from
the checkpoint on (`RangesInv`), so whatever an invocation writes is newer than
all that was passed; the records of its range that it is through with are
stored and either older than, or of another key than, those to come
(`WriteInv`).  `ChunkFacts` proves that `Chunk` takes the oldest records and no
more than fit.  A record is dead-lettered alone, and a request of one record
names no key twice.

**EdpJobsProofs**: `TypeCorrect`, `AcknowledgedWasStarted`,
`ModelAlwaysRunsOnce`, `CleanupAlwaysSparesEnded`, `EndedAlwaysStaysEnded`,
`FailuresAlwaysCounted`.  That an end stays needs the whole life of a job:
which statuses go with which state of the execution (`LifeInv`), and that in a
system that only suffers from the model and lost events a message has one
holder at a time and its job is new until that holder starts it (`CalmInv`).
The count of failures is a fact about three stores, so `MetricsInv` says where
a failure is on its way from row to counter: ahead in the stream or counted,
and in calm systems never both or twice (`CountedOnceInv`, `NotLostInv`).  An
update that the filter of the stream leaves out would be lost, hence `RowInv`:
whatever failed has a row.

**GpuOperatorProofs**: `OperatorAlwaysSound`, `PhaseAlwaysMoves`,
`ScalingAlwaysSettles`.  What a pass may rely on depends on its copy.  One of
the latest version agrees with the object up to a repair it has not stored
(`CopyInv`); an old one has at least not counted ahead of what was stored, now or
before a person set it back (`CountInv`, with `WasStored`), which makes its alert
true although its status update will be refused; what a pass has made is under the stored finalizer until the clean-up
ran (`FinalizerInv`); Bedrock is chosen on an old start only (`ChoiceInv`).
`ScalingAlwaysSettles` is arithmetic of the quotient rounded up, between the
bounds that the webhook enforces; for the dead band (`DesiredHasDeadBand`), that
three replicas or more stay until the load, less the share of one of them, is no
more than seven tenths of the target of one.

**ReviewAndTotalsProofs**, the totals: `AggregatorAccounts`,
`TotalsAlwaysAccounted`, `PathsAreChanges`, `EventsAlwaysCountOnce`.
`TotalsAccounted` speaks of an aggregator that has caught up; on the way the
account is between three sums.  If nothing fails, the totals of an aggregate and
what the records from the position on will add (`Pending`) are together the
worth of its items (`ExactInv`).  Whatever fails, its items are as many as the
records that insert them (`CountInv`), and of those up to the checkpoint each is
in a total, an error or discarded, of those up to the position also in the
failures of the invocation at work (`TraceInv`); a batch that comes again can
only add to that.  For a step from one range to the next the ranges must follow
one another from the checkpoint (`BatchInv`), and a record must hold what was in
the table (`ChangesInv`).  `SumFunction` takes the elements of a set in an order
nobody knows, and no induction rule can be used here.  The lemmas about it take a
smallest subset for which the claim fails instead (`SmallestSubset`, from the
well-founded order of cardinalities): a sum is the same whichever element goes
first (`AddsAny`), so one value changed, added or left behind changes it by that
much (`SumChange`, `SumAppend`, `SumBehind`), and a sum over keys is one over
the events behind them (`SumReindex`).
`PathsAreChanges` is the refinement: the writers do nothing to the table that
`SepAggregator` does not let anybody do, so its invariant holds under
`SpecPaths`.  That plain events count once needs where items come from: each is
that of an event that was sent, and each such event has its item, unless it
counts for nothing or something has expired (`SentInv`).

**ReviewAndTotalsProofs**, the reviews: `ResultsAlwaysComplete`,
`AlwaysReviewedOnce`, `ReviewsAlwaysAccumulate`.  Each state of the execution
may rely on what the states before it have left in row and report (`StartInv`,
`SavedInv`, `JoinedInv`, `ProgressInv`, `OutcomeInv`), while reviewers that
outlive a failed execution only add to the row.

**ItemsAndAdvisorProofs**, the items: `NothingIsEverMissed`, `NeverGhosts`.
What `NothingIsEverMissed` says of a listing is about the items that every copy
and the index showed when it began and that have not expired since: writes of the
owner leave them in the index (`stable \subseteq Shown`), whatever other reads are
behind.  Between two pages they lie below the cursor or have been got, in falling
order (`ListingInv`); between two records, what is behind the record in
hand was logged or is reported as failed, and the checkpoint is below the first
failure (`ShardInv`).

**ItemsAndAdvisorProofs**, the advisor: `PullRequestsAlwaysSound`,
`FilesAlwaysKeepTheRest`.  From the creation of its branch to its pull request
an invocation has the branch to itself, because GitHub refuses to create it a
second time, and the branch holds what the pull request will propose
(`OwnerInv`); an open pull request is the only one of its branch and agrees with
its file (`RequestInv`); a branch without either was left by a failure, a merge or
an answer with malformed warnings (`OrphanInv`, `Unlisted`).  Between the put of
the findings and the start the file is there (`TriggerInv`), and nothing removes
it.  That files keep what is not unused is a fact about
`Validate` (`ValidatedIsKept`): where the keys of the statements are distinct,
each finds its original again, and what it may not lose is put back.

**MailAndReportProofs**, the suppression list: `TypeCorrect`,
`PermanentRecordsAlwaysStay`, `SendersAlwaysBlocked`.  The manager deletes by key
what some copy showed to be expired some time ago, so the invariant is about every
row with all its copies (`RowsInv`).  One last written for a hard bounce that no
sweep could overtake is permanent, and no copy is expired or in the hands of the
sweep (`SettledRow`); one for a complaint was never anything else
(`ComplaintRow`).  What a lookup may then return is permanent or an absence that
has not been replicated yet, which is the exception `SendersStayBlocked` names.

**MailAndReportProofs**, the report: `ReportTypeCorrect`, `MailsAlwaysRight`,
`SuccessAlwaysRecorded`.  What an execution hands on is about its month
(`PayloadInv`); its row has as much of that as the Lambdas it is through with
have recorded (`RowInv`), and no other execution has the key.  The page of a
month is one object that all its executions write, so it agrees with the payload
only of an execution that ran alone (`PageInv`), and two that overlap are known
to (`CompanyInv`).

### Only model-checked

* Everything that must eventually happen, which the prover cannot express with
  fairness: `EventuallySettled`, `ShardDrains`, `NonTransientLeaves`,
  `EveryJobEnds`, `ServiceSettles`, `SessionsAreAnswered`, `ChangesSettle`,
  `ExecutionsEnd`, `ComplaintsReachSes`.
* The counterexamples of section 3, by their nature.

## 7. Plan

Every invariant and action property of the runs is proved.  What is left:

1. **SepAggregator**: the account of `MissesAreCounted` without `OneTypePerKey`;
   it only needs that no click is replaced by a purchase or a view.
2. **SepAggregator**: that the Lambda catches up with the stream once the table
   rests, which needs a fairness for the mapping.
3. The parts listed as not modelled below, as far as they get a state of their own.

## 8. What the models leave out

* The text of logs, alerts and summaries, metrics other than
  `AggregationErrors`, tracing, and IAM.
* Payload enrichment, and what parsing and validation do beyond `SepPaths`; in
  `SepIngestor` and `SepTransformer` a row or record is valid or not.
* Time as a number: delays are recorded, not waited for, visibility timeouts
  and Lambda timeouts may happen at any moment, and the hour of the cleanup is
  a flag that is set when it has passed.
* The services (SQS, DynamoDB, streams, Step Functions, EventBridge) beyond
  the guarantees the code relies on; definitions that stand for them are
  marked external in the map.
* Concurrency between shards: Kinesis and DynamoDB keep the records of a key
  in one shard, and each shard has one invocation at a time.

### Not modelled

* **order-pipeline-lab**: the state machine as written cannot get past
  `CheckInventory` (its `ResultSelector` reads `$.Payload.reason`, which a
  successful check does not return), and `RunTask` is given both `LaunchType`
  and `CapacityProviderStrategy`.  What comes after has no behaviour to model.
* **aurora-rds-proxy-lab**: four steps of a secret's rotation, whose order and
  repetition lie in Secrets Manager, outside the code.
* **bedrock-multi-agent-ops-autopilot**: what is approved and run is decided
  by an agent that is not in the code.
* The report Lambdas, sample services and declarative labs of section 1.9:
  no state of their own, or no program logic.
* In the modelled systems: prompts, HTML, Terraform and message texts, field
  validation that answers 400 and changes nothing, Kubernetes Events and the
  conditions beside the phase.

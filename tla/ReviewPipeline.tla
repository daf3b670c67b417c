--------------------------- MODULE ReviewPipeline ---------------------------
(***************************************************************************)
(* aws-infra-review-ai: the life of one review session.  The API creates a *)
(* row and hands out an upload URL; every PUT to it is an S3 event for the *)
(* workflow starter, which turns the file into text and starts the state   *)
(* machine; four reviewers write their findings side by side, a supervisor *)
(* joins them, a report goes to S3 and the row becomes completed.  Clients *)
(* poll the row.  Sessions share nothing, so one stands for all.           *)
(***************************************************************************)
EXTENDS Naturals

CONSTANTS
  Agents,     \* the reviewers that work in parallel
  Events,     \* S3 events: repeated PUTs with the URL, or S3 delivering again
  Kinds,      \* what may be uploaded: subset of FileKinds
  MaxFaults   \* bound: calls that fail and Lambdas that die

FileKinds == {"text", "empty", "image"}

\* Lambda retries an asynchronous invocation twice, so no crash loses an event.
ASSUME ReviewAssumption ==
  /\ MaxFaults \in 0..2
  /\ Kinds \subseteq FileKinds
  /\ Events \cap FileKinds = {}
  /\ {"security", "cost", "reliability", "operations"} \subseteq Agents

VARIABLES
  session,    \* the row of the sessions table
  file,       \* the uploaded object, or "none"
  starter,    \* starter[e]: where the invocation for event e is
  content,    \* content[e]: the review_content it made
  exec,       \* the execution review-<session_id>: its state, its input, the
              \* reviews it collected and the ones its synthesis joins
  branch,     \* branch[a]: where the Lambda of reviewer a is
  report,     \* what the report object in the bucket shows, or NoReport
  posted,     \* the messages in the Chatwork room
  faults      \* what went wrong so far, up to MaxFaults

workflow == <<exec, branch, report, posted>>
vars == <<session, file, starter, content, workflow, faults>>

Statuses == {"absent", "pending", "starting", "running", "completed", "failed"}
Caught == {"ParallelReview", "SupervisorReview", "GenerateReport", "SaveUrl"}
Uncaught == {"UpdateStatusRunning", "SendNotification", "UpdateStatusCompleted", "ReviewFailed"}
Closed == {"succeeded", "aborted"}

\* By the extension: pictures and PDFs are for the model to look at, everything
\* else counts as text.
GetFileType(kind) == IF kind = "image" THEN "vision" ELSE "text"

\* get_review_content: text is cut but the same every time; the description of
\* an image is the model's, and another one at each call.
ReviewContent(e) == IF GetFileType(file) = "vision" THEN e ELSE file

NewSession == [status |-> "pending", round1 |-> {}, round2 |-> {}, url |-> FALSE]

NoReport == [overall |-> {}, details |-> {}]

Init ==
  /\ session = [NewSession EXCEPT !.status = "absent"]
  /\ file = "none"
  /\ starter = [e \in Events |-> "idle"]
  /\ content = [e \in Events |-> "none"]
  /\ exec = [at |-> "none", input |-> "none", results |-> {}, synthesis |-> {}]
  /\ branch = [a \in Agents |-> "idle"]
  /\ report = NoReport
  /\ posted = {}
  /\ faults = 0

Fault == faults < MaxFaults /\ faults' = faults + 1
NoFault == UNCHANGED faults

(***************************************************************************)
(* The API and its client.                                                 *)
(***************************************************************************)
CreateSession ==
  /\ session.status = "absent"
  /\ session' = NewSession
  /\ UNCHANGED <<file, starter, content, workflow, faults>>

Upload(e) ==
  /\ session.status # "absent" /\ starter[e] = "idle"
  /\ \E k \in Kinds : file' = k
  /\ starter' = [starter EXCEPT ![e] = "queued"]
  /\ UNCHANGED <<session, content, workflow, faults>>

\* S3 delivers an event again.
Redeliver(e) ==
  /\ file # "none" /\ starter[e] = "idle"
  /\ starter' = [starter EXCEPT ![e] = "queued"]
  /\ UNCHANGED <<session, content, file, workflow, faults>>

\* What GET /reviews/{id} answers: results only go out with a completed session.
HandleGetSession ==
  [status |-> session.status,
   scores |-> session.status = "completed" /\ session.round2 # {},
   url |-> session.status = "completed" /\ session.url]

(***************************************************************************)
(* The workflow starter, one invocation per event.                         *)
(***************************************************************************)
Move(e, from, to) == starter[e] = from /\ starter' = [starter EXCEPT ![e] = to]

SetStatus(s) == session' = [session EXCEPT !.status = s]

StarterChecks(e) ==
  /\ Move(e, "queued", IF session.status = "pending" THEN "reading" ELSE "done")
  /\ UNCHANGED <<session, file, content, workflow, faults>>

StarterReads(e) ==
  /\ Move(e, "reading", "marking")
  /\ content' = [content EXCEPT ![e] = ReviewContent(e)]
  /\ UNCHANGED <<session, file, workflow, faults>>

StarterMarks(e) ==
  /\ Move(e, "marking", "starting")
  /\ SetStatus("starting")
  /\ UNCHANGED <<file, content, workflow, faults>>

\* A bug: the name of the execution is a fresh one.
StartAnother(e) ==
  /\ exec' = [exec EXCEPT !.at = "UpdateStatusRunning", !.input = content[e]]
  /\ Move(e, "starting", "done")

\* StartExecution with a name in use: fine for a running execution with the
\* same input, ExecutionAlreadyExists otherwise.
StartExecution(e) ==
  /\ IF exec.at = "none"
     THEN exec' = [exec EXCEPT !.at = "UpdateStatusRunning", !.input = content[e]]
     ELSE UNCHANGED exec
  /\ Move(e, "starting",
          IF exec.at = "none" \/ (exec.at \notin Closed /\ exec.input = content[e])
          THEN "done" ELSE "failing")

StarterStarts(e) ==
  /\ StartExecution(e)
  /\ UNCHANGED <<session, file, content, branch, report, posted, faults>>

StarterGetsError(e) ==
  /\ \E pc \in {"queued", "reading", "marking", "starting"} : Move(e, pc, "failing")
  /\ Fault
  /\ UNCHANGED <<session, file, content, workflow>>

\* An error of this last write is swallowed.
StarterFails(e) ==
  /\ Move(e, "failing", "done")
  /\ \/ SetStatus("failed") /\ NoFault
     \/ UNCHANGED session /\ Fault
  /\ UNCHANGED <<file, content, workflow>>

\* A bug: a timed out event is not tried again.
StarterDiesForGood(e) ==
  /\ \E pc \in {"queued", "reading", "marking", "starting", "failing"} : Move(e, pc, "done")
  /\ Fault
  /\ UNCHANGED <<session, file, content, workflow>>

\* Bedrock outlasts the 30 s of the Lambda: Lambda tries the event again.
StarterDies(e) ==
  /\ \E pc \in {"queued", "reading", "marking", "starting", "failing"} : Move(e, pc, "queued")
  /\ Fault
  /\ UNCHANGED <<session, file, content, workflow>>

Starter(e) ==
  \/ StarterChecks(e) \/ StarterReads(e) \/ StarterMarks(e) \/ StarterStarts(e)
  \/ StarterGetsError(e) \/ StarterFails(e) \/ StarterDies(e)

(***************************************************************************)
(* The state machine.  A task that fails goes to ReviewFailed when its     *)
(* state has a Catch, else the execution ends with the row as it is.       *)
(***************************************************************************)
Goto(from, to) == exec.at = from /\ exec' = [exec EXCEPT !.at = to]

UpdateStatusRunning ==
  /\ Goto("UpdateStatusRunning", "ParallelReview")
  /\ SetStatus("running")
  /\ branch' = [a \in Agents |-> "invoked"]
  /\ UNCHANGED <<file, starter, content, report, posted, faults>>

Advance(a, from, to) == branch[a] = from /\ branch' = [branch EXCEPT ![a] = to]

\* A bug: the reviewer writes the whole round back.
SaveWholeRound(a) == session' = [session EXCEPT !.round1 = {a}]

SaveReviewResult(a) == session' = [session EXCEPT !.round1 = @ \cup {a}]

\* A Lambda that runs goes on although its execution has left the state.
Review(a) ==
  /\ \/ exec.input = "empty" /\ Advance(a, "invoked", "reviewed") /\ UNCHANGED session
     \/ exec.input # "empty" /\ Advance(a, "invoked", "saved") /\ SaveReviewResult(a)
     \/ Advance(a, "saved", "reviewed") /\ UNCHANGED session
  /\ UNCHANGED <<file, starter, content, exec, report, posted, faults>>

SecurityReview == Review("security")
CostReview == Review("cost")
ReliabilityReview == Review("reliability")
OperationsReview == Review("operations")

\* Bedrock refuses, answers no JSON or a score DynamoDB does not take, or the
\* Lambda dies after its write.
ReviewerFails(a) ==
  /\ \E pc \in {"invoked", "saved"} : Advance(a, pc, "broken")
  /\ Fault
  /\ UNCHANGED <<session, file, starter, content, exec, report, posted>>

\* $.agent_results: the answers of the branches.
Collect ==
  /\ exec.at = "ParallelReview"
  /\ exec' = [exec EXCEPT !.at = "SupervisorReview",
                          !.results = {a \in Agents : branch[a] = "reviewed"}]
  /\ UNCHANGED <<session, file, starter, content, branch, report, posted, faults>>

\* A bug: the first review that is in is enough.
JoinFirst == (\E a \in Agents : branch[a] = "reviewed") /\ Collect

JoinReviews == (\A a \in Agents : branch[a] = "reviewed") /\ Collect

BranchFailed ==
  /\ \E a \in Agents : branch[a] = "broken"
  /\ Goto("ParallelReview", "ReviewFailed")
  /\ UNCHANGED <<session, file, starter, content, branch, report, posted, faults>>

\* The reviews that the synthesis joins; without content or without reviews it
\* is an answer that rates nothing.
Synthesize(input, results) == IF input = "empty" THEN {} ELSE results

\* save_review_result: only a synthesis is written to the row.
SaveRound2(reviews) ==
  session' = [session EXCEPT !.round2 = IF reviews = {} THEN @ ELSE reviews]

SupervisorReview ==
  LET synthesis == Synthesize(exec.input, exec.results)
  IN  /\ exec.at = "SupervisorReview"
      /\ exec' = [exec EXCEPT !.at = "GenerateReport", !.synthesis = synthesis]
      /\ SaveRound2(synthesis)
      /\ UNCHANGED <<file, starter, content, branch, report, posted, faults>>

\* Scores, summary, actions and tradeoffs are the supervisor's, the details are
\* the reviewers'.
GenerateHtmlReport(results, synthesis) == [overall |-> synthesis, details |-> results]

GenerateReport ==
  /\ Goto("GenerateReport", "SaveUrl")
  /\ report' = GenerateHtmlReport(exec.results, exec.synthesis)
  /\ UNCHANGED <<session, file, starter, content, branch, posted, faults>>

UpdateReportUrl ==
  /\ Goto("SaveUrl", "SendNotification")
  /\ session' = [session EXCEPT !.url = TRUE]
  /\ UNCHANGED <<file, starter, content, branch, report, posted, faults>>

\* The supervisor may have written its round before it failed.
SupervisorOrReportFails ==
  /\ \/ Goto("SupervisorReview", "ReviewFailed")
        /\ (UNCHANGED session \/ SaveRound2(Synthesize(exec.input, exec.results)))
     \/ Goto("GenerateReport", "ReviewFailed") /\ UNCHANGED session
     \/ Goto("SaveUrl", "ReviewFailed") /\ UNCHANGED session
  /\ Fault
  /\ UNCHANGED <<file, starter, content, branch, report, posted>>

\* The scores and the link to the report.
FormatMessage == [overall |-> exec.synthesis, linked |-> report # NoReport]

\* The notifier does nothing when no room is set, and swallows what SSM and
\* Chatwork raise.
SendNotification ==
  /\ Goto("SendNotification", "UpdateStatusCompleted")
  /\ posted' \in {posted, posted \cup {FormatMessage}}
  /\ UNCHANGED <<session, file, starter, content, branch, report, faults>>

UpdateStatusCompleted ==
  /\ Goto("UpdateStatusCompleted", "succeeded")
  /\ SetStatus("completed")
  /\ UNCHANGED <<file, starter, content, branch, report, posted, faults>>

ReviewFailed ==
  /\ Goto("ReviewFailed", "succeeded")
  /\ SetStatus("failed")
  /\ UNCHANGED <<file, starter, content, branch, report, posted, faults>>

UncaughtFailure ==
  /\ exec.at \in Uncaught /\ Goto(exec.at, "aborted")
  /\ \/ UNCHANGED posted
     \/ exec.at = "SendNotification" /\ posted' = posted \cup {FormatMessage}
  /\ Fault
  /\ UNCHANGED <<session, file, starter, content, branch, report>>

Reviewers ==
  \/ SecurityReview \/ CostReview \/ ReliabilityReview \/ OperationsReview
  \/ \E a \in Agents : ReviewerFails(a)

StateMachine ==
  \/ UpdateStatusRunning \/ JoinReviews \/ BranchFailed \/ SupervisorReview
  \/ GenerateReport \/ UpdateReportUrl \/ SupervisorOrReportFails
  \/ SendNotification \/ UpdateStatusCompleted \/ ReviewFailed \/ UncaughtFailure

Next ==
  \/ CreateSession
  \/ \E e \in Events : Upload(e) \/ Redeliver(e) \/ Starter(e)
  \/ Reviewers \/ StateMachine

Spec == Init /\ [][Next]_vars

\* Lambda runs every accepted event and Step Functions every execution; nobody
\* owes an upload or a poll.
FairSpec ==
  /\ Spec
  /\ \A e \in Events : WF_vars(Starter(e))
  /\ \A a \in Agents : WF_vars(Review(a))
  /\ WF_vars(StateMachine)

-----------------------------------------------------------------------------
TypeOK ==
  /\ session \in [status : Statuses, round1 : SUBSET Agents, round2 : SUBSET Agents, url : BOOLEAN]
  /\ file \in Kinds \cup {"none"}
  /\ starter \in [Events -> {"idle", "queued", "reading", "marking", "starting", "failing", "done"}]
  /\ content \in [Events -> Kinds \cup Events \cup {"none"}]
  /\ exec \in [at : Caught \cup Uncaught \cup Closed \cup {"none"}, input : Kinds \cup Events \cup {"none"},
              results : SUBSET Agents, synthesis : SUBSET Agents]
  /\ branch \in [Agents -> {"idle", "invoked", "saved", "reviewed", "broken"}]
  /\ report \in [overall : SUBSET Agents, details : SUBSET Agents]
  /\ posted \subseteq [overall : SUBSET Agents, linked : BOOLEAN]
  /\ faults \in 0..MaxFaults

\* However often the file is uploaded or its event delivered, and whatever the
\* starters that race for it do, the session is reviewed once: an execution that
\* has ended stays as it ended.
ReviewedOnce == [][exec.at \in Closed => exec' = exec]_exec

\* The synthesis joins every review and all of them are in the row: when round_2
\* is there, so is the round_1 entry of every reviewer.
SynthesisHasAllReviews ==
  session.round2 # {} => session.round2 = Agents /\ session.round1 = Agents

\* Reviewers write at the same time, also after their execution has failed, and
\* none takes another's result away.
ReviewsAccumulate == [][session.round1 \subseteq session'.round1]_session

\* A client that reads completed gets the link to a report that is in the bucket
\* and shows what each reviewer found, and the scores, in the row and in the
\* report, unless there was nothing to review.
CompletedIsReadable ==
  HandleGetSession.status = "completed" =>
    /\ HandleGetSession.url /\ report.details = Agents
    /\ exec.input # "empty" => HandleGetSession.scores /\ report.overall = session.round2

\* What goes to the room is backed: the row has the link, and the scores of the
\* message are the ones of the report behind it.
MessagesAreBacked ==
  \A m \in posted : m.linked /\ session.url /\ m.overall = report.overall

\* The type invariant, and what a session, its report and its message hold: a
\* synthesis rests on all reviews, and nobody is promised more than there is.
ResultsAreComplete ==
  TypeOK /\ SynthesisHasAllReviews /\ CompletedIsReadable /\ MessagesAreBacked

\* A failure on the way, a dying starter included, does not leave the session of
\* an uploaded file pending, for Lambda repeats the event more often than faults
\* are allowed; and a failure inside a state with a Catch reaches the row, unless
\* the very write of it fails.
SessionsAreAnswered ==
  /\ (file # "none") ~> session.status # "pending"
  /\ (exec.at = "ReviewFailed") ~> (session.status = "failed" \/ exec.at = "aborted")

\* The state diagram of ARCHITECTURE.md, 7.2.
Diagram ==
  {<<"pending", "starting">>, <<"starting", "running">>, <<"running", "completed">>,
   <<"pending", "failed">>, <<"starting", "failed">>, <<"running", "failed">>}

\* The status of a session only takes the transitions of that diagram.
StatusFollowsDiagram ==
  [][session.status # "absent" /\ session'.status # session.status
     => <<session.status, session'.status>> \in Diagram]_session
=============================================================================

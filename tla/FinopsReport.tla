---------------------------- MODULE FinopsReport ----------------------------
(***************************************************************************)
(* bedrock-finops-automation: the monthly cost report.  EventBridge starts *)
(* an execution on the first of a month, EventBridge again or an operator  *)
(* another one; five Lambdas in a row collect two months of costs, look    *)
(* for anomalies, have a model comment on them, write a page and mail its  *)
(* link.  Their results travel in the payload of the execution; a row of   *)
(* the history table follows it, under a key of its own, and the objects   *)
(* in S3 are named after the month alone.                                  *)
(***************************************************************************)
EXTENDS Integers, Sequences, FiniteSets, Functions

CONSTANTS
  Execution,    \* executions of the state machine
  Service,      \* AWS services on the bill
  Ledger,       \* answers of Cost Explorer for a month and the one before it, as
                \* pairs of bills: service -> cents, for some services
  Requests,     \* what the executions may ask for: for each a month [y, m] or Nothing
  Today,        \* the month in which the executions run
  Risk,         \* risk levels the model may answer
  TopServices,  \* how many services a summary names, 10 in the code
  MaxAttempts,  \* retries of a state
  Faults,       \* what may go wrong: subset of FaultKinds
  Nothing

\* aws: a call of a Lambda raises, or its time is up; lost: Lambda refuses the
\* invocation, or its answer does not reach Step Functions.
FaultKinds == {"aws", "lost"}

IsMonth(d) == d \in [y : Nat, m : 1..12]

\* A month that Python has, with a year before it.
IsTarget(d) == IsMonth(d) /\ d.y > 1

\* MEDIUM_THRESHOLD_PCT, HIGH_THRESHOLD_PCT, SERVICE_CONCENTRATION_THRESHOLD,
\* and the amounts in cents below which the detector looks away.
MediumPct == 20
HighPct == 50
ConcentrationPct == 60
SmallTotal == 100
SmallService == 10

ASSUME FinopsAssumption ==
  /\ \A pair \in Ledger, i \in 1..2 : DOMAIN pair[i] \subseteq Service
  /\ \A pair \in Ledger, i \in 1..2 : \A s \in DOMAIN pair[i] : pair[i][s] \in Int
  /\ IsMonth(Today) /\ Today.y > 2
  /\ \A r \in Requests, e \in Execution : r[e] = Nothing \/ IsTarget(r[e])
  /\ TopServices \in Nat \ {0} /\ MaxAttempts \in Nat
  /\ Faults \subseteq FaultKinds
  /\ Nothing \notin Risk \cup Service

VARIABLES
  asked,     \* asked[e]: target_year_month of the input, or Nothing
  at,        \* at[e]: state of execution e
  pc,        \* pc[e]: what the Lambda of that state does next
  tries,     \* tries[e]: retries of that state so far
  payload,   \* payload[e]: what the Lambdas have returned so far
  rows,      \* the history table: key -> row
  stored,    \* the objects of raw/, anomaly/ and ai-report/ there are: kind and month
  html,      \* html/<month>/report.html: what the page shows
  mails,     \* what was published, and the page its link led to then
  shared     \* history: executions that ran beside another of their month

execution == <<at, pc, tries, payload>>
objects == <<stored, html>>
reportVars == <<asked, execution, rows, objects, mails, shared>>

Closed == {"succeeded", "failed"}
Order == <<"CollectCostData", "DetectAnomalies", "GenerateAIReport",
           "FormatHTMLReport", "SendSnsNotification", "succeeded">>

-----------------------------------------------------------------------------
(* The calendar.                                                           *)

\* Mutant: the month before January is month 0.
MonthBeforeInYear(d) == [d EXCEPT !.m = @ - 1]

MonthBefore(d) == IF d.m = 1 THEN [y |-> d.y - 1, m |-> 12] ELSE [d EXCEPT !.m = @ - 1]
MonthAfter(d) == IF d.m = 12 THEN [y |-> d.y + 1, m |-> 1] ELSE [d EXCEPT !.m = @ + 1]

\* Both periods run up to the first day of a month, which they do not contain.
MonthBoundaries(d) ==
  [prev |-> [start |-> MonthBefore(d), end |-> d],
   current |-> [start |-> d, end |-> MonthAfter(d)]]

TargetMonth(e) == IF asked[e] = Nothing THEN MonthBefore(Today) ELSE asked[e]

-----------------------------------------------------------------------------
(* The numbers.                                                            *)

TotalCost(bill) == SumFunction(bill)

\* The n services with the highest costs; which of two equal ones is arbitrary.
Highest(bill, n) ==
  CHOOSE S \in SUBSET DOMAIN bill :
    /\ Cardinality(S) = n \/ (Cardinality(S) < n /\ S = DOMAIN bill)
    /\ \A s \in S, t \in DOMAIN bill \ S : bill[s] >= bill[t]

ServiceSummary(bill) == Restrict(bill, Highest(bill, TopServices))

Summary(bill, period) ==
  [period |-> period, total |-> TotalCost(bill), services |-> ServiceSummary(bill)]

CostIncrease(current, prev) ==
  LET grown == 100 * (current.total - prev.total)
      found(severity) == {[type |-> "COST_INCREASE", severity |-> severity, service |-> Nothing]}
  IN  CASE prev.total < 1 -> {}
        [] prev.total >= 1 /\ grown > HighPct * prev.total -> found("HIGH")
        [] prev.total >= 1 /\ grown > MediumPct * prev.total /\ grown <= HighPct * prev.total
             -> found("MEDIUM")
        [] OTHER -> {}

\* The first service of the summary, of a bill that is not a small one.
ServiceConcentration(current) ==
  {[type |-> "SERVICE_CONCENTRATION", severity |-> "MEDIUM", service |-> s] :
     s \in {t \in Highest(current.services, 1) :
              /\ current.total >= SmallTotal
              /\ 100 * current.services[t] > ConcentrationPct * current.total}}

\* Only the summary of the month before is looked at.
NewServices(current, prev) ==
  {[type |-> "NEW_SERVICE", severity |-> "LOW", service |-> s] :
     s \in {t \in DOMAIN current.services \ DOMAIN prev.services :
              current.services[t] >= SmallService}}

AnomalyDetection(p) ==
  CostIncrease(p.current, p.prev) \cup ServiceConcentration(p.current)
    \cup NewServices(p.current, p.prev)

HasHighSeverity(anomalies) == \E a \in anomalies : a.severity = "HIGH"

\* The prompt names five services at most.
Prompt(p) == [month |-> p.month, current |-> p.current.total, prev |-> p.prev.total,
              services |-> Restrict(p.current.services, Highest(p.current.services, 5)),
              anomalies |-> p.anomalies]

\* Each service of the page has a bar, which is cut where refunds of other
\* services make its share more than the whole.
ServicesSection(current) ==
  [s \in DOMAIN current.services |->
     LET share == IF current.total > 0 THEN (100 * current.services[s]) \div current.total ELSE 0
     IN  [cost |-> current.services[s], bar |-> IF share > 100 THEN 100 ELSE share]]

\* A table of the anomalies with their count above, or a sentence for none; the
\* service of an anomaly is in its description.
AnomalySection(anomalies) ==
  [count |-> Cardinality(anomalies),
   lines |-> {<<a.severity, a.type, a.service>> : a \in anomalies}]

\* What the page shows of a payload, and what the mail says.
Page(p) == [month |-> p.month, current |-> p.current.total, prev |-> p.prev.total,
            services |-> ServicesSection(p.current),
            anomalies |-> AnomalySection(p.anomalies), risk |-> p.risk]

Message(p) == [row |-> p.row, month |-> p.month, current |-> p.current,
               prev |-> p.prev, anomalies |-> p.anomalies, risk |-> p.risk]

-----------------------------------------------------------------------------
NoPayload == [row |-> Nothing]

ReportInit ==
  /\ asked \in Requests
  /\ at = [e \in Execution |-> "none"]
  /\ pc = [e \in Execution |-> "run"]
  /\ tries = [e \in Execution |-> 0]
  /\ payload = [e \in Execution |-> NoPayload]
  /\ rows = [k \in {} |-> Nothing]
  /\ stored = {} /\ html = [d \in {} |-> Nothing]
  /\ mails = {}
  /\ shared = {}

Running(e) == at[e] \notin Closed \cup {"none"}

\* S3 or the table replace what they have under a key.
Put(store, key, value) ==
  [k \in DOMAIN store \cup {key} |-> IF k = key THEN value ELSE store[k]]

\* The schedule, EventBridge delivering it again, or an operator.
StartExecution(e) ==
  /\ at[e] = "none"
  /\ at' = [at EXCEPT ![e] = Order[1]]
  /\ shared' = LET others == {x \in Execution : Running(x) /\ TargetMonth(x) = TargetMonth(e)}
               IN  IF others = {} THEN shared ELSE shared \cup others \cup {e}
  /\ UNCHANGED <<asked, pc, tries, payload, rows, objects, mails>>

Step(e, state, from, to) ==
  /\ at[e] = state /\ pc[e] = from
  /\ pc' = [pc EXCEPT ![e] = to]
  /\ UNCHANGED <<asked, at, tries, shared>>

SetPayload(e, p) == payload' = [payload EXCEPT ![e] = p]

\* update_item names the attributes it sets and leaves the others.
UpdateRow(e, fields) ==
  rows' = Put(rows, payload[e].row,
              [f \in DOMAIN rows[payload[e].row] |->
                 IF f \in DOMAIN fields THEN fields[f] ELSE rows[payload[e].row][f]])

\* put_object replaces the object of the month; no code reads these back, so
\* the two of the collector are one step with the calls before them.
Store(kind, month) == stored' = stored \cup {<<kind, month>>}

-----------------------------------------------------------------------------
(* The collector.                                                          *)

\* Mutant: a report is named after its month, as a comment of the table has it.
MonthlyReportId(e) == <<TargetMonth(e)>>

\* The month and the request id, another one at each invocation.
ReportId(e) == <<TargetMonth(e), e, tries[e]>>

\* Cost Explorer is asked twice, and revises what it has answered before.
CostAndUsage == Ledger

Collect(e) ==
  /\ Step(e, "CollectCostData", "run", "record")
  /\ \E bills \in CostAndUsage :
       LET b == MonthBoundaries(TargetMonth(e))
       IN  SetPayload(e, [row |-> ReportId(e), month |-> TargetMonth(e),
                          current |-> Summary(bills[1], b.current),
                          prev |-> Summary(bills[2], b.prev),
                          anomalies |-> {}, risk |-> Nothing])
  /\ Store("raw", TargetMonth(e))
  /\ UNCHANGED <<rows, html, mails>>

SaveHistory(e) ==
  /\ Step(e, "CollectCostData", "record", "return")
  /\ rows' = Put(rows, payload[e].row,
                 [status |-> "collected", current |-> payload[e].current.total,
                  prev |-> payload[e].prev.total,
                  count |-> Nothing, high |-> Nothing, risk |-> Nothing])
  /\ UNCHANGED <<payload, objects, mails>>

-----------------------------------------------------------------------------
(* The three Lambdas that work on the payload.                             *)

DetectAnomalies(e) ==
  /\ Step(e, "DetectAnomalies", "run", "record")
  /\ SetPayload(e, [payload[e] EXCEPT !.anomalies = AnomalyDetection(payload[e])])
  /\ Store("anomaly", payload[e].month)
  /\ UNCHANGED <<rows, html, mails>>

RecordAnomalies(e) ==
  /\ Step(e, "DetectAnomalies", "record", "return")
  /\ UpdateRow(e, [status |-> "anomaly_detected",
                   count |-> Cardinality(payload[e].anomalies),
                   high |-> HasHighSeverity(payload[e].anomalies)])
  /\ UNCHANGED <<payload, objects, mails>>

\* Whatever it is asked; UNKNOWN when the answer of the model is not JSON.
InvokeBedrock(prompt) == Risk \cup {"UNKNOWN"}

GenerateAIReport(e) ==
  /\ Step(e, "GenerateAIReport", "run", "record")
  /\ \E risk \in InvokeBedrock(Prompt(payload[e])) :
       SetPayload(e, [payload[e] EXCEPT !.risk = risk])
  /\ Store("ai-report", payload[e].month)
  /\ UNCHANGED <<rows, html, mails>>

RecordAIReport(e) ==
  /\ Step(e, "GenerateAIReport", "record", "return")
  /\ UpdateRow(e, [status |-> "ai_analyzed", risk |-> payload[e].risk])
  /\ UNCHANGED <<payload, objects, mails>>

\* Mutant: one name for the page of every month.
SaveOnePage(e) ==
  /\ Step(e, "FormatHTMLReport", "run", "record")
  /\ html' = [d \in DOMAIN html \cup {payload[e].month} |-> Page(payload[e])]
  /\ UNCHANGED <<payload, rows, stored, mails>>

FormatHTMLReport(e) ==
  /\ Step(e, "FormatHTMLReport", "run", "record")
  /\ html' = Put(html, payload[e].month, Page(payload[e]))
  /\ UNCHANGED <<payload, rows, stored, mails>>

RecordHTMLReport(e) ==
  /\ Step(e, "FormatHTMLReport", "record", "return")
  /\ UpdateRow(e, [status |-> "html_generated"])
  /\ UNCHANGED <<payload, objects, mails>>

\* The state WorkflowFailed: the execution is over and its payload gone.
Fail(e) ==
  /\ at' = [at EXCEPT ![e] = "failed"]
  /\ pc' = [pc EXCEPT ![e] = "run"]
  /\ tries' = [tries EXCEPT ![e] = 0]
  /\ SetPayload(e, NoPayload)

-----------------------------------------------------------------------------
(* The notifier.  Its except clause follows the publication as well as the *)
(* update of the row after it.                                             *)

Publish(e) ==
  /\ Step(e, "SendSnsNotification", "run", "record")
  /\ mails' = mails \cup {[message |-> Message(payload[e]), page |-> html[payload[e].month],
                           alone |-> e \notin shared]}
  /\ UNCHANGED <<payload, rows, objects>>

RecordNotified(e) ==
  /\ Step(e, "SendSnsNotification", "record", "return")
  /\ UpdateRow(e, [status |-> "notified"])
  /\ UNCHANGED <<payload, objects, mails>>

NotifierGetsError(e) ==
  /\ "aws" \in Faults
  /\ \E from \in {"run", "record"} : Step(e, "SendSnsNotification", from, "except")
  /\ UNCHANGED <<payload, rows, objects, mails>>

RecordNotifyFailed(e) ==
  /\ at[e] = "SendSnsNotification" /\ pc[e] = "except"
  /\ UpdateRow(e, [status |-> "notify_failed"])
  /\ Fail(e)
  /\ UNCHANGED <<asked, objects, mails, shared>>

-----------------------------------------------------------------------------
(* The state machine.                                                      *)

NextState(state) == CHOOSE i \in 2..Len(Order) : Order[i - 1] = state

\* The answer of the Lambda is the payload of the next state.
LambdaReturns(e) ==
  /\ Running(e) /\ pc[e] = "return"
  /\ at' = [at EXCEPT ![e] = Order[NextState(at[e])]]
  /\ pc' = [pc EXCEPT ![e] = "run"]
  /\ tries' = [tries EXCEPT ![e] = 0]
  /\ UNCHANGED <<asked, payload, rows, objects, mails, shared>>

\* Mutant: the attempts are not counted.
RetryUncounted(e) ==
  /\ tries' = tries
  /\ pc' = [pc EXCEPT ![e] = "run"]
  /\ UNCHANGED <<at, payload>>

\* Retry: the state is run again, unless its attempts are used up.
Retry(e) ==
  \/ /\ tries[e] < MaxAttempts
     /\ tries' = [tries EXCEPT ![e] = @ + 1]
     /\ pc' = [pc EXCEPT ![e] = "run"]
     /\ UNCHANGED <<at, payload>>
  \/ /\ tries[e] = MaxAttempts
     /\ Fail(e)

\* Lambda did not take the invocation, or was through with it.
LambdaUnanswered(e) ==
  /\ "lost" \in Faults
  /\ Running(e) /\ pc[e] \in {"run", "return"}
  /\ Retry(e)
  /\ UNCHANGED <<asked, rows, objects, mails, shared>>

\* Catch: whatever a Lambda raises ends the execution, and nothing marks the row.
LambdaRaises(e) ==
  /\ "aws" \in Faults
  /\ Running(e) /\ pc[e] # "return"
  /\ Fail(e)
  /\ UNCHANGED <<asked, rows, objects, mails, shared>>

LambdaSteps(e) ==
  \/ Collect(e) \/ SaveHistory(e)
  \/ DetectAnomalies(e) \/ RecordAnomalies(e)
  \/ GenerateAIReport(e) \/ RecordAIReport(e)
  \/ FormatHTMLReport(e) \/ RecordHTMLReport(e)
  \/ Publish(e) \/ RecordNotified(e) \/ NotifierGetsError(e) \/ RecordNotifyFailed(e)

Progress(e) == LambdaSteps(e) \/ LambdaReturns(e) \/ LambdaUnanswered(e) \/ LambdaRaises(e)

ReportNext == \E e \in Execution : StartExecution(e) \/ Progress(e)

ReportSpec == ReportInit /\ [][ReportNext]_reportVars

\* Step Functions and Lambda go on with what they have started.
ReportFairness == \A e \in Execution : WF_reportVars(Progress(e))
FairReportSpec == ReportSpec /\ ReportFairness

-----------------------------------------------------------------------------
ReportTypeOK ==
  /\ at \in [Execution -> Closed \cup {"none"} \cup {Order[i] : i \in 1..5}]
  /\ pc \in [Execution -> {"run", "record", "except", "return"}]
  /\ tries \in [Execution -> 0..MaxAttempts]
  /\ shared \subseteq Execution

Index(d) == 12 * d.y + d.m

(* What is mailed about a month is about that month and the one before it, *)
(* also in January, and the linked page shows the very numbers, anomalies  *)
(* and risk of the mail, unless another execution of the month ran beside  *)
(* this one: the objects of a month have one name for all its executions.  *)
MailsAreRight ==
  \A mail \in mails :
    LET said == mail.message
    IN  /\ said.current.period.start = said.month
        /\ said.prev.period.end = said.month
        /\ Index(said.current.period.end) = Index(said.month) + 1
        /\ Index(said.prev.period.start) = Index(said.month) - 1
        /\ IsMonth(said.current.period.end) /\ IsMonth(said.prev.period.start)
        /\ mail.alone => /\ mail.page.month = said.month
                         /\ mail.page.current = said.current.total
                         /\ \A s \in DOMAIN said.current.services :
                              mail.page.services[s].cost = said.current.services[s]
                         /\ mail.page.prev = said.prev.total
                         /\ mail.page.anomalies = AnomalySection(said.anomalies)
                         /\ mail.page.risk = said.risk

(* An execution that succeeded leaves a row that is its own: it says       *)
(* notified, has the totals, the count, the severity and the risk of a     *)
(* mail that was sent, and no other execution has written into it.         *)
SuccessIsRecorded ==
  \A e \in Execution : at[e] = "succeeded" =>
    LET p == payload[e]
        row == rows[p.row]
    IN  /\ row.status = "notified"
        /\ row.current = p.current.total /\ row.prev = p.prev.total
        /\ row.count = Cardinality(p.anomalies)
        /\ row.high = HasHighSeverity(p.anomalies)
        /\ row.risk = p.risk
        /\ \E mail \in mails : mail.message = Message(p)

(* An execution that was started ends, whatever raises or is not answered. *)
ExecutionsEnd ==
  \A e \in Execution : Running(e) ~> at[e] \in Closed
=============================================================================

--------------------------- MODULE EdpJobsProofs ---------------------------
(***************************************************************************)
(* Proofs about EdpJobs and EdpMetrics for any number of jobs and          *)
(* dispatchers: what the dispatcher acknowledges was started, the model    *)
(* runs once for a job, the cleanup spares what has ended, in a calm       *)
(* system COMPLETED and FAILED are final, and the metrics count failures.  *)
(*                                                                         *)
(* The first needs to know what a dispatcher has done when it is about to  *)
(* acknowledge (HeldInv).  Finality needs the whole life of a job: which   *)
(* statuses go with which state of its execution (LifeInv), and that only  *)
(* one dispatcher at a time has to do with a job, which is new until that  *)
(* dispatcher starts it (CalmInv).  The metrics rest on all of these: a    *)
(* failure is a record ahead in the stream or counted (NotLostInv), in a   *)
(* calm system never both and once (CountedOnceInv), because FAILED is     *)
(* final there and a job with an execution has a row (RowInv), so that its *)
(* failure is an update that the filter of the stream lets in.             *)
(***************************************************************************)
EXTENDS EdpMetrics, TLAPS

USE JobsAssumption, CountAssumption DEF FaultKinds, Final, Running, Closed

\* What a dispatcher knows of the job it holds.
HeldInv ==
  \A w \in Worker :
    /\ pc[w] # "idle" => job[w] \in Job
    /\ pc[w] = "start" => payload[job[w]] = "valid" /\ status[job[w]] # None
    /\ pc[w] = "ack" /\ payload[job[w]] # "invalid"
         => exec[job[w]] # "none" /\ status[job[w]] # None

JobsInv == TypeOK /\ HeldInv /\ AcknowledgedIsStarted

Calm == faults \subseteq {"model", "lost"}

\* In a calm system a message in flight has one holder, and a job is new
\* until its holder has started it.
CalmInv ==
  Calm =>
    /\ \A w \in Worker : pc[w] # "idle" => queue[job[w]] = "inflight"
    /\ \A v, w \in Worker : pc[v] # "idle" /\ pc[w] # "idle" /\ job[v] = job[w] => v = w
    /\ \A w \in Worker : pc[w] \in {"validate", "start", "fail"} => exec[job[w]] = "none"
    /\ \A w \in Worker : pc[w] = "fail" => payload[job[w]] = "broken"
    /\ \A w \in Worker : pc[w] = "validate" => status[job[w]] = None
    /\ \A j \in Job : queue[j] = "visible" => exec[j] = "none" /\ status[j] = None
    /\ \A j \in Job : payload[j] = "broken" => status[j] = None /\ exec[j] = "none"

\* The statuses that go with a state of the execution.
Open(j) == status[j] \in {None, "PENDING", "TIMEOUT"}

LifeInv ==
  Calm => \A j \in Job :
    /\ exec[j] \in {"none", "invoke", "handle"} => Open(j) /\ branches[j] = {}
    /\ exec[j] = "finalize" =>
         IF "save" \in branches[j] THEN status[j] = "COMPLETED" ELSE Open(j)
    /\ exec[j] = "succeeded" => status[j] = "COMPLETED"
    /\ exec[j] \in {"notify", "failed"} => status[j] = "FAILED"
    /\ event[j] => exec[j] = "failed"

-----------------------------------------------------------------------------
(* No job has a row, an execution or a holder at the start.                *)
LEMMA InitHolds == Init => JobsInv /\ CalmInv /\ LifeInv
BY DEF Init, JobsInv, TypeOK, HeldInv, AcknowledgedIsStarted, CalmInv,
       LifeInv, Open

(* The actions that touch neither the messages nor the dispatchers: the    *)
(* workflow and the dlq-handler, which only ever write a final status and  *)
(* take no execution back to its start.                                    *)
Behind ==
  /\ UNCHANGED <<given, messages, dispatchers>>
  /\ TypeOK'
  /\ \A j \in Job : status[j] # None => status'[j] # None
  /\ \A j \in Job : exec[j] # "none" => exec'[j] # "none"

LEMMA WorkflowIsBehind ==
  ASSUME TypeOK, NEW j \in Job, Execute(j) \/ FinalizeFails(j)
  PROVE  Behind
<1>1. CASE InvokeModel(j)
  BY <1>1 DEF InvokeModel, Enter, Behind, TypeOK, given, messages, dispatchers, row
<1>2. CASE SaveResult(j)
  BY <1>2 DEF SaveResult, SetStatus, Behind, TypeOK, given, messages, dispatchers
<1>7. CASE NotifyCompletion(j)
  BY <1>7 DEF NotifyCompletion, Behind, TypeOK, given, messages, dispatchers, row
<1>3. CASE JobCompleted(j)
  BY <1>3 DEF JobCompleted, Enter, Behind, TypeOK, given, messages, dispatchers, row
<1>4. CASE HandleFailure(j)
  BY <1>4 DEF HandleFailure, SetStatus, Enter, Behind, TypeOK, given, messages,
              dispatchers
<1>5. CASE JobFailed(j)
  BY <1>5 DEF JobFailed, SetStatus, Enter, Behind, TypeOK, given, messages,
              dispatchers
<1>6. CASE FinalizeFails(j)
  BY <1>6 DEF FinalizeFails, SetStatus, Enter, Behind, TypeOK, given, messages,
              dispatchers
<1> QED
  BY <1>1, <1>2, <1>3, <1>4, <1>5, <1>6, <1>7 DEF Execute

SafetyNet(j) ==
  \/ HandleSfnFailure(j) \/ LoseEvent(j) \/ Age(j)
  \/ CleanUp(j) \/ CleanUpError(j)

LEMMA SafetyNetIsBehind ==
  ASSUME TypeOK, NEW j \in Job, SafetyNet(j)
  PROVE  Behind
<1>1. CASE HandleSfnFailure(j)
  <2>1. UNCHANGED <<given, messages, dispatchers>>
    BY <1>1 DEF HandleSfnFailure
  <2>2. TypeOK'
    BY <1>1 DEF HandleSfnFailure, FailUnlessCompleted, SetStatus, TypeOK, given,
                messages, dispatchers
  <2>3. /\ \A i \in Job : status[i] # None => status'[i] # None
        /\ exec' = exec
    BY <1>1 DEF HandleSfnFailure, FailUnlessCompleted, SetStatus, TypeOK
  <2> QED
    BY <2>1, <2>2, <2>3 DEF Behind
<1>2. CASE LoseEvent(j) \/ Age(j)
  <2>1. UNCHANGED <<given, messages, dispatchers, status, exec>>
    BY <1>2 DEF LoseEvent, Age, row, workflow
  <2>2. TypeOK'
    <3>1. old' \in [Job -> BOOLEAN] /\ event' \in [Job -> BOOLEAN]
      <4>1. CASE LoseEvent(j)
        BY <4>1 DEF LoseEvent, TypeOK, row
      <4>2. CASE Age(j)
        BY <4>2 DEF Age, TypeOK, workflow
      <4> QED
        BY <1>2, <4>1, <4>2
    <3>2. UNCHANGED <<branches, stuck>>
      BY <1>2 DEF LoseEvent, Age, workflow
    <3> QED
      BY <2>1, <3>1, <3>2 DEF TypeOK, given, messages, dispatchers
  <2> QED
    BY <2>1, <2>2 DEF Behind
<1>3. CASE CleanUp(j)
  BY <1>3 DEF CleanUp, TimeOutIfPending, SetStatus, Behind, TypeOK, given,
              messages, dispatchers, workflow
<1>4. CASE CleanUpError(j)
  BY <1>4 DEF CleanUpError, Behind, TypeOK, given, messages, dispatchers, row,
              workflow
<1> QED
  BY <1>1, <1>2, <1>3, <1>4 DEF SafetyNet

(* A step behind the queue keeps what the dispatchers know.                *)
LEMMA BehindKeepsInv == JobsInv /\ Behind => JobsInv'
<1> SUFFICES ASSUME JobsInv, Behind PROVE JobsInv'
  OBVIOUS
<1>1. HeldInv'
  BY DEF JobsInv, HeldInv, Behind, dispatchers, given
<1>2. AcknowledgedIsStarted'
  BY DEF JobsInv, AcknowledgedIsStarted, Behind, messages, given
<1> QED
  BY <1>1, <1>2 DEF JobsInv, Behind

(* Putting the row of a job gives it a status, starting it an execution.   *)
LEMMA PutFacts ==
  ASSUME TypeOK, NEW j \in Job, PutPending(j)
  PROVE  /\ status' \in [Job -> Final \cup {"PENDING", None}]
         /\ old' \in [Job -> BOOLEAN]
         /\ status'[j] = "PENDING"
         /\ \A i \in Job : i # j => status'[i] = status[i]
BY DEF PutPending, TypeOK

LEMMA StartFacts ==
  ASSUME TypeOK, NEW j \in Job, StartExecution(j)
  PROVE  /\ exec' \in [Job -> Running \cup Closed \cup {"none"}]
         /\ exec'[j] # "none"
         /\ exec'[j] = "invoke" \/ exec'[j] = exec[j]
         /\ \A i \in Job : i # j => exec'[i] = exec[i]
         /\ exec[j] # "none" => exec' = exec
BY DEF StartExecution, TypeOK

(* Every step keeps the strengthened invariant.                            *)
LEMMA NextKeepsInv == JobsInv /\ [Next]_vars => JobsInv'
<1> SUFFICES ASSUME JobsInv, [Next]_vars PROVE JobsInv'
  OBVIOUS
<1> USE DEF JobsInv
<1>1. ASSUME NEW w \in Worker, NEW j \in Job, Receive(w, j) PROVE JobsInv'
  <2>1. TypeOK'
    BY <1>1 DEF Receive, TypeOK, given, row, workflow
  <2>2. HeldInv'
    BY <1>1 DEF Receive, TypeOK, HeldInv, given, row, workflow
  <2>3. AcknowledgedIsStarted'
    BY <1>1 DEF Receive, TypeOK, AcknowledgedIsStarted, given, row, workflow
  <2> QED
    BY <2>1, <2>2, <2>3
<1>2. ASSUME NEW j \in Job, Redrive(j) PROVE JobsInv'
  <2>1. TypeOK'
    BY <1>2 DEF Redrive, TypeOK, given, dispatchers, row, workflow
  <2>2. HeldInv'
    BY <1>2 DEF Redrive, HeldInv, given, dispatchers, row, workflow
  <2>3. AcknowledgedIsStarted'
    BY <1>2 DEF Redrive, TypeOK, AcknowledgedIsStarted, given, row, workflow
  <2> QED
    BY <2>1, <2>2, <2>3
<1>3. ASSUME NEW w \in Worker, Reject(w) \/ StartRefused(w) PROVE JobsInv'
  <2>1. TypeOK'
    <3>1. pc' \in [Worker -> {"idle", "validate", "start", "ack", "fail"}]
      BY <1>3 DEF Reject, StartRefused, Goto, TypeOK
    <3>2. UNCHANGED <<given, messages, job, row, workflow, stuck>>
      BY <1>3 DEF Reject, StartRefused
    <3> QED
      BY <3>1, <3>2 DEF TypeOK, given, messages, row, workflow
  <2>2. HeldInv'
    BY <1>3 DEF Reject, StartRefused, Goto, TypeOK, HeldInv, given, row, workflow
  <2>3. AcknowledgedIsStarted'
    BY <1>3 DEF Reject, StartRefused, AcknowledgedIsStarted, given, messages, row,
                workflow
  <2> QED
    BY <2>1, <2>2, <2>3
<1>4. ASSUME NEW w \in Worker, PutJob(w) PROVE JobsInv'
  <2>1. job[w] \in Job
    BY <1>4 DEF PutJob, HeldInv
  <2>2. TypeOK'
    BY <1>4, <2>1, PutFacts DEF PutJob, Goto, TypeOK, given, messages, workflow
  <2>3. HeldInv'
    BY <1>4, <2>1, PutFacts DEF PutJob, Goto, TypeOK, HeldInv, given, messages,
                                workflow
  <2>4. AcknowledgedIsStarted'
    BY <1>4, <2>1, PutFacts DEF PutJob, AcknowledgedIsStarted, given, messages,
                                workflow
  <2> QED
    BY <2>2, <2>3, <2>4
<1>5. ASSUME NEW w \in Worker, StartJob(w) PROVE JobsInv'
  <2>1. job[w] \in Job
    BY <1>5 DEF StartJob, HeldInv
  <2>2. TypeOK'
    BY <1>5, <2>1, StartFacts DEF StartJob, Goto, TypeOK, given, messages, row
  <2>3. HeldInv'
    BY <1>5, <2>1, StartFacts DEF StartJob, Goto, TypeOK, HeldInv, given,
                                  messages, row
  <2>4. AcknowledgedIsStarted'
    BY <1>5, <2>1, StartFacts DEF StartJob, AcknowledgedIsStarted, given,
                                  messages, row
  <2> QED
    BY <2>2, <2>3, <2>4
<1>6. ASSUME NEW w \in Worker, DispatchError(w) PROVE JobsInv'
  <2>1. job[w] \in Job
    BY <1>6 DEF DispatchError, HeldInv
  <2>2. /\ status' \in [Job -> Final \cup {"PENDING", None}]
        /\ old' \in [Job -> BOOLEAN]
        /\ exec' \in [Job -> Running \cup Closed \cup {"none"}]
        /\ \A j \in Job : status[j] # None => status'[j] # None
        /\ \A j \in Job : exec[j] # "none" => exec'[j] # "none"
    BY <1>6, <2>1, PutFacts, StartFacts DEF DispatchError, TypeOK, row
  <2>3. TypeOK'
    BY <1>6, <2>2 DEF DispatchError, Goto, TypeOK, given, messages
  <2>4. HeldInv' /\ AcknowledgedIsStarted'
    BY <1>6, <2>2 DEF DispatchError, Goto, TypeOK, HeldInv,
                      AcknowledgedIsStarted, given, messages
  <2> QED
    BY <2>3, <2>4
<1>7. ASSUME NEW w \in Worker, Answer(w) \/ Crash(w) PROVE JobsInv'
  <2>1. PICK q \in {"visible", "deleted"} :
          /\ Release(w, q) /\ pc[w] # "idle"
          /\ q = "deleted" => pc[w] = "ack"
    BY <1>7 DEF Answer, Crash
  <2>2. job[w] \in Job
    BY <2>1 DEF HeldInv
  <2>3. TypeOK'
    BY <2>1, <2>2 DEF Release, TypeOK, given, row, workflow
  <2>4. HeldInv'
    BY <2>1 DEF Release, TypeOK, HeldInv, given, row, workflow
  <2>5. AcknowledgedIsStarted'
    <3>1. /\ UNCHANGED <<payload, exec, status>>
          /\ queue' = [queue EXCEPT ![job[w]] = IF @ = "inflight" THEN q ELSE @]
      BY <2>1 DEF Release, given, row, workflow
    <3>2. q = "deleted" /\ payload[job[w]] # "invalid"
            => exec[job[w]] # "none" /\ status[job[w]] # None
      BY <2>1 DEF HeldInv
    <3>3. \A j \in Job : queue'[j] = "deleted" =>
            queue[j] = "deleted" \/ (j = job[w] /\ q = "deleted")
      BY <2>2, <3>1 DEF TypeOK
    <3> QED
      BY <3>1, <3>2, <3>3 DEF AcknowledgedIsStarted
  <2> QED
    BY <2>3, <2>4, <2>5
<1>8. ASSUME NEW j \in Job, Execute(j) \/ FinalizeFails(j) \/ SafetyNet(j)
      PROVE  JobsInv'
  BY <1>8, WorkflowIsBehind, SafetyNetIsBehind, BehindKeepsInv
<1>9. CASE (\E S \in SUBSET Job : FindStuck(S)) \/ CleanUpCrash \/ UNCHANGED vars
  <2>1. Behind
    <3>1. UNCHANGED <<given, messages, dispatchers, row, workflow>>
      BY <1>9 DEF FindStuck, CleanUpCrash, vars
    <3>2. stuck' \subseteq Job
      BY <1>9 DEF FindStuck, CleanUpCrash, vars, TypeOK
    <3> QED
      BY <3>1, <3>2 DEF Behind, TypeOK, given, messages, dispatchers, row, workflow
  <2> QED
    BY <2>1, BehindKeepsInv
<1> QED
  BY <1>1, <1>2, <1>3, <1>4, <1>5, <1>6, <1>7, <1>8, <1>9
  DEF Next, Dispatch, SafetyNet

(* In every behaviour the strengthened invariant always holds.             *)
THEOREM JobsInvariant == Spec => []JobsInv
<1>1. Init => JobsInv
  BY InitHolds
<1> QED
  BY <1>1, NextKeepsInv, PTL DEF Spec

-----------------------------------------------------------------------------
(* Every variable keeps its type: in particular no request is received     *)
(* more often than the redrive policy allows.                              *)
THEOREM TypeCorrect == Spec => []TypeOK
BY JobsInvariant, PTL DEF JobsInv

(* A request acknowledged to SQS was refused as invalid or has a row and   *)
(* an execution.                                                           *)
THEOREM AcknowledgedWasStarted == Spec => []AcknowledgedIsStarted
BY JobsInvariant, PTL DEF JobsInv

(* A step takes no execution back to its first state.                      *)
LEMMA StepRunsOnce ==
  ASSUME JobsInv, [Next]_vars, NEW i \in Job, exec[i] # "none", exec[i] # "invoke"
  PROVE  exec'[i] # "invoke"
<1> USE DEF JobsInv
<1>1. ASSUME NEW w \in Worker, StartJob(w) \/ DispatchError(w)
      PROVE  exec'[i] # "invoke"
  <2>1. job[w] \in Job
    BY <1>1 DEF StartJob, DispatchError, HeldInv
  <2> QED
    BY <1>1, <2>1, StartFacts DEF StartJob, DispatchError
<1>2. ASSUME NEW j \in Job, Execute(j) \/ FinalizeFails(j)
      PROVE  exec'[i] # "invoke"
  BY <1>2 DEF Execute, InvokeModel, SaveResult, NotifyCompletion, JobCompleted,
              HandleFailure, JobFailed, FinalizeFails, Enter, TypeOK
<1>3. CASE UNCHANGED exec
  BY <1>3
<1> QED
  BY <1>1, <1>2, <1>3
  DEF Next, vars, workflow, Receive, Redrive, Dispatch, Reject, PutJob,
      StartRefused, Answer, Crash, Release, HandleSfnFailure, LoseEvent, Age,
      CleanUp, CleanUpError, FindStuck, CleanUpCrash

(* Whatever is delivered again or fails, the model is called in one phase  *)
(* of the execution only, at its beginning.                                *)
THEOREM ModelAlwaysRunsOnce == Spec => ModelRunsOnce
<1>1. JobsInv /\ [Next]_vars =>
        [\A j \in Job : exec[j] # "none" /\ exec[j] # "invoke"
                          => exec'[j] # "invoke"]_vars
  BY StepRunsOnce
<1> QED
  BY <1>1, JobsInvariant, PTL DEF Spec, ModelRunsOnce

(* A step makes no job that has ended time out.                            *)
LEMMA StepSparesEnded ==
  ASSUME JobsInv, [Next]_vars, NEW i \in Job, status[i] \in {"COMPLETED", "FAILED"}
  PROVE  status'[i] # "TIMEOUT"
<1> USE DEF JobsInv
<1>1. ASSUME NEW w \in Worker, PutJob(w) \/ DispatchError(w)
      PROVE  status'[i] # "TIMEOUT"
  <2>1. job[w] \in Job
    BY <1>1 DEF PutJob, DispatchError, HeldInv
  <2> QED
    BY <1>1, <2>1, PutFacts DEF PutJob, DispatchError, row
<1>2. ASSUME NEW j \in Job, Execute(j) \/ FinalizeFails(j)
      PROVE  status'[i] # "TIMEOUT"
  BY <1>2 DEF Execute, InvokeModel, SaveResult, NotifyCompletion, JobCompleted,
              HandleFailure, JobFailed, FinalizeFails, SetStatus, TypeOK, row
<1>3. ASSUME NEW j \in Job, HandleSfnFailure(j) \/ CleanUp(j)
      PROVE  status'[i] # "TIMEOUT"
  BY <1>3 DEF HandleSfnFailure, FailUnlessCompleted, CleanUp, TimeOutIfPending,
              SetStatus, TypeOK
<1>4. CASE UNCHANGED status
  BY <1>4
<1> QED
  BY <1>1, <1>2, <1>3, <1>4
  DEF Next, vars, row, Receive, Redrive, Dispatch, Reject, StartJob,
      StartRefused, Answer, Crash, Release, LoseEvent, Age, CleanUpError,
      FindStuck, CleanUpCrash

(* The scheduled cleanup, which works from a stale list, never turns a job *)
(* that completed or failed into one that timed out.                       *)
THEOREM CleanupAlwaysSparesEnded == Spec => CleanupSparesEnded
<1>1. JobsInv /\ [Next]_vars =>
        [\A j \in Job : status[j] \in {"COMPLETED", "FAILED"}
                          => status'[j] # "TIMEOUT"]_vars
  BY StepSparesEnded
<1> QED
  BY <1>1, JobsInvariant, PTL DEF Spec, CleanupSparesEnded

-----------------------------------------------------------------------------
(* The calm system.                                                        *)

CalmJobs == JobsInv /\ CalmInv /\ LifeInv

(* A step of the workflow or of the safety net takes a job from one        *)
(* consistent pair of status and execution to another.                     *)
LEMMA LifeGoesOn ==
  ASSUME CalmJobs, Calm, NEW j \in Job,
         Execute(j) \/ FinalizeFails(j) \/ SafetyNet(j)
  PROVE  LifeInv' /\ UNCHANGED <<given, messages, dispatchers>>
<1> USE DEF CalmJobs, JobsInv, Calm, Open
<1>1. ~FinalizeFails(j)
  BY DEF FinalizeFails
<1>2. CASE InvokeModel(j)
  BY <1>2 DEF InvokeModel, Enter, LifeInv, TypeOK, row, given
<1>3. CASE SaveResult(j)
  BY <1>3 DEF SaveResult, SetStatus, LifeInv, TypeOK, given
<1>4. CASE NotifyCompletion(j)
  BY <1>4 DEF NotifyCompletion, LifeInv, TypeOK, row, given
<1>5. CASE JobCompleted(j)
  BY <1>5 DEF JobCompleted, Enter, LifeInv, TypeOK, row, given
<1>6. CASE HandleFailure(j)
  BY <1>6 DEF HandleFailure, SetStatus, Enter, LifeInv, TypeOK, given
<1>7. CASE JobFailed(j)
  BY <1>7 DEF JobFailed, SetStatus, Enter, LifeInv, TypeOK, given
<1>8. CASE HandleSfnFailure(j)
  BY <1>8 DEF HandleSfnFailure, FailUnlessCompleted, SetStatus, LifeInv, TypeOK, given
<1>9. CASE LoseEvent(j) \/ Age(j)
  BY <1>9 DEF LoseEvent, Age, LifeInv, TypeOK, row, workflow, given
<1>10. CASE CleanUp(j) \/ CleanUpError(j)
  BY <1>10 DEF CleanUp, CleanUpError, TimeOutIfPending, SetStatus, LifeInv,
               TypeOK, row, workflow, given
<1>11. UNCHANGED <<given, messages, dispatchers>>
  BY <1>1, WorkflowIsBehind, SafetyNetIsBehind DEF Behind
<1> QED
  BY <1>1, <1>2, <1>3, <1>4, <1>5, <1>6, <1>7, <1>8, <1>9, <1>10, <1>11
  DEF Execute, SafetyNet

(* Nor does it touch a job without an execution and a row.                 *)
LEMMA NewStaysNew ==
  ASSUME CalmJobs, Calm, NEW j \in Job, NEW i \in Job,
         Execute(j) \/ FinalizeFails(j) \/ SafetyNet(j)
  PROVE  /\ exec[i] = "none" => exec'[i] = "none"
         /\ exec[i] = "none" /\ status[i] = None => status'[i] = None
<1> USE DEF CalmJobs, JobsInv, Calm, TypeOK
<1>1. CASE Execute(j) \/ FinalizeFails(j)
  BY <1>1 DEF Execute, InvokeModel, SaveResult, NotifyCompletion, JobCompleted,
              HandleFailure, JobFailed, FinalizeFails, SetStatus, Enter, row
<1>2. CASE SafetyNet(j)
  BY <1>2 DEF SafetyNet, HandleSfnFailure, FailUnlessCompleted, LoseEvent, Age,
              CleanUp, TimeOutIfPending, CleanUpError, SetStatus, LifeInv, row,
              workflow
<1> QED
  BY <1>1, <1>2

(* Every step keeps the invariant of the calm system.                      *)
LEMMA NextKeepsCalm == CalmJobs /\ [Next]_vars => CalmJobs'
<1> SUFFICES ASSUME CalmJobs, [Next]_vars PROVE CalmInv' /\ LifeInv'
  BY NextKeepsInv DEF CalmJobs
<1>0. faults' = faults /\ payload' = payload
  BY DEF Next, vars, given, Receive, Redrive, Dispatch, Reject, PutJob, StartJob,
         StartRefused, Answer, DispatchError, Crash, Release, Execute, InvokeModel,
         SaveResult, NotifyCompletion, JobCompleted, HandleFailure, JobFailed,
         FinalizeFails, HandleSfnFailure, LoseEvent, Age, CleanUp, CleanUpError,
         FindStuck, CleanUpCrash
<1> SUFFICES ASSUME Calm PROVE CalmInv' /\ LifeInv'
  BY <1>0 DEF Calm, CalmInv, LifeInv
<1> USE DEF CalmJobs, JobsInv, Calm
<1>1. ASSUME NEW w \in Worker, NEW j \in Job, Receive(w, j)
      PROVE  CalmInv' /\ LifeInv'
  <2>1. queue[j] = "visible" /\ pc[w] = "idle"
    BY <1>1 DEF Receive
  <2>2. CalmInv'
    BY <1>1, <2>1 DEF Receive, CalmInv, TypeOK, HeldInv, given, row, workflow
  <2>3. LifeInv'
    BY <1>1 DEF Receive, LifeInv, Open, given, row, workflow
  <2> QED
    BY <2>2, <2>3
<1>2. ASSUME NEW j \in Job, Redrive(j) PROVE CalmInv' /\ LifeInv'
  BY <1>2 DEF Redrive, CalmInv, LifeInv, Open, TypeOK, given, dispatchers, row,
              workflow
<1>3. ASSUME NEW w \in Worker, Reject(w) PROVE CalmInv' /\ LifeInv'
  BY <1>3 DEF Reject, Goto, CalmInv, LifeInv, Open, TypeOK, given, messages, row,
              workflow
<1>4. ASSUME NEW w \in Worker, PutJob(w) PROVE CalmInv' /\ LifeInv'
  <2>1. job[w] \in Job /\ exec[job[w]] = "none" /\ queue[job[w]] = "inflight"
    BY <1>4 DEF PutJob, HeldInv, CalmInv
  <2>2. CalmInv'
    BY <1>4, <2>1, PutFacts DEF PutJob, Goto, CalmInv, TypeOK, HeldInv, given,
                                messages, workflow
  <2>3. LifeInv'
    BY <1>4, <2>1, PutFacts DEF PutJob, LifeInv, Open, given, workflow
  <2> QED
    BY <2>2, <2>3
<1>5. ASSUME NEW w \in Worker, StartJob(w) PROVE CalmInv' /\ LifeInv'
  <2>1. /\ job[w] \in Job /\ exec[job[w]] = "none" /\ queue[job[w]] = "inflight"
        /\ payload[job[w]] = "valid"
    BY <1>5 DEF StartJob, HeldInv, CalmInv
  <2>2. exec' = [exec EXCEPT ![job[w]] = "invoke"]
    BY <1>5, <2>1 DEF StartJob, StartExecution
  <2>3. CalmInv'
    BY <1>5, <2>1, <2>2 DEF StartJob, Goto, CalmInv, TypeOK, HeldInv, given,
                            messages, row
  <2>4. LifeInv'
    BY <1>5, <2>1, <2>2 DEF StartJob, LifeInv, Open, TypeOK, given, row
  <2> QED
    BY <2>3, <2>4
<1>6. ASSUME NEW w \in Worker, StartRefused(w) \/ DispatchError(w) \/ Crash(w)
      PROVE  FALSE
  BY <1>6 DEF StartRefused, DispatchError, Crash, CalmInv, HeldInv
<1>7. ASSUME NEW w \in Worker, Answer(w) PROVE CalmInv' /\ LifeInv'
  <2>1. PICK q \in {"visible", "deleted"} :
          /\ Release(w, q)
          /\ q = "visible" => pc[w] = "fail"
          /\ q = "deleted" => pc[w] = "ack"
    BY <1>7 DEF Answer
  <2>2. /\ job[w] \in Job
        /\ q = "visible" => exec[job[w]] = "none" /\ status[job[w]] = None
    BY <2>1 DEF HeldInv, CalmInv
  <2>3. CalmInv'
    BY <2>1, <2>2 DEF Release, CalmInv, TypeOK, HeldInv, given, row, workflow
  <2>4. LifeInv'
    BY <2>1 DEF Release, LifeInv, Open, given, row, workflow
  <2> QED
    BY <2>3, <2>4
<1>8. ASSUME NEW j \in Job, Execute(j) \/ FinalizeFails(j) \/ SafetyNet(j)
      PROVE  CalmInv' /\ LifeInv'
  <2>1. LifeInv' /\ UNCHANGED <<given, messages, dispatchers>>
    BY <1>8, LifeGoesOn
  <2>2. \A i \in Job : /\ exec[i] = "none" => exec'[i] = "none"
                       /\ exec[i] = "none" /\ status[i] = None => status'[i] = None
    BY <1>8, NewStaysNew
  <2>3. CalmInv'
    BY <2>1, <2>2 DEF CalmInv, HeldInv, given, messages, dispatchers
  <2> QED
    BY <2>1, <2>3
<1>9. CASE (\E S \in SUBSET Job : FindStuck(S)) \/ CleanUpCrash \/ UNCHANGED vars
  BY <1>9 DEF FindStuck, CleanUpCrash, CalmInv, LifeInv, Open, vars, given,
              messages, dispatchers, row, workflow
<1> QED
  BY <1>1, <1>2, <1>3, <1>4, <1>5, <1>6, <1>7, <1>8, <1>9
  DEF Next, Dispatch, SafetyNet

(* A step of a calm system leaves a job that has ended as it is.           *)
LEMMA StepLeavesEnded ==
  ASSUME CalmJobs, [Next]_vars, Calm, NEW i \in Job,
         status[i] \in {"COMPLETED", "FAILED"}
  PROVE  status'[i] = status[i]
<1> USE DEF CalmJobs, JobsInv, Calm
<1>1. ASSUME NEW w \in Worker, PutJob(w) \/ DispatchError(w)
      PROVE  status'[i] = status[i]
  <2>1. PutJob(w) /\ job[w] \in Job /\ status[job[w]] = None
    BY <1>1 DEF DispatchError, PutJob, HeldInv, CalmInv
  <2> QED
    BY <2>1, PutFacts DEF PutJob
<1>2. ASSUME NEW j \in Job, Execute(j) \/ FinalizeFails(j)
      PROVE  status'[i] = status[i]
  BY <1>2 DEF Execute, InvokeModel, SaveResult, NotifyCompletion, JobCompleted,
              HandleFailure, JobFailed, FinalizeFails, SetStatus, TypeOK, LifeInv,
              Open, row
<1>3. ASSUME NEW j \in Job, HandleSfnFailure(j) \/ CleanUp(j)
      PROVE  status'[i] = status[i]
  BY <1>3 DEF HandleSfnFailure, FailUnlessCompleted, CleanUp, TimeOutIfPending,
              SetStatus, TypeOK, LifeInv
<1>4. CASE UNCHANGED status
  BY <1>4
<1> QED
  BY <1>1, <1>2, <1>3, <1>4
  DEF Next, vars, row, Receive, Redrive, Dispatch, Reject, StartJob,
      StartRefused, Answer, Crash, Release, LoseEvent, Age, CleanUpError,
      FindStuck, CleanUpCrash

(* Unless a call raises, a Lambda dies or SQS delivers twice, no job that  *)
(* completed or failed changes its status again, although the workflow,    *)
(* the handler of its failures and the cleanup all write it.               *)
THEOREM EndedAlwaysStaysEnded == Spec => EndedStaysEnded
<1>1. CalmJobs /\ [Next]_vars =>
        [faults \subseteq {"model", "lost"} =>
           \A j \in Job : status[j] \in {"COMPLETED", "FAILED"}
                            => status'[j] = status[j]]_vars
  BY StepLeavesEnded DEF Calm
<1>2. Init => CalmJobs
  BY InitHolds DEF CalmJobs
<1> QED
  BY <1>1, <1>2, NextKeepsCalm, PTL DEF Spec, EndedStaysEnded

-----------------------------------------------------------------------------
(* The metrics.                                                            *)

\* An execution or a failure event belongs to a job with a row, so every
\* failure is an update of a row, which the filter of the stream lets in.
RowInv == \A j \in Job : exec[j] # "none" \/ event[j] => status[j] # None

\* A workflow whose calls all succeed knows no failure.
SmoothInv ==
  faults \cap {"model", "aws"} = {} =>
    \A j \in Job : ~event[j] /\ exec[j] \notin {"handle", "notify", "failed"}
                  /\ status[j] # "FAILED"

StreamType ==
  /\ changes \in Seq([job : Job, new : {"COMPLETED", "FAILED"}])
  /\ through \in 0..Len(changes)
  /\ metrics \in [Job -> [Counters -> Nat]]

\* Record i says that j failed; it is ahead when it is not through.
Reports(i, j) == changes[i].job = j /\ changes[i].new = "FAILED"
Ahead(i, j) == i \in through + 1 .. Len(changes) /\ Reports(i, j)

\* Without crashes a failure is ahead or counted, never both, and once.
CountedOnceInv ==
  Calm => \A j \in Job :
    /\ metrics[j]["failed"] \in {0, 1}
    /\ metrics[j]["failed"] = 1 => status[j] = "FAILED"
    /\ \A i \in 1..Len(changes) :
         Ahead(i, j) => status[j] = "FAILED" /\ metrics[j]["failed"] = 0
    /\ \A i, k \in 1..Len(changes) : Ahead(i, j) /\ Ahead(k, j) => i = k

\* Unless an update raises, a failure is ahead or counted.
NotLostInv ==
  "aws" \notin faults =>
    \A j \in Job : status[j] = "FAILED" =>
      metrics[j]["failed"] >= 1 \/ \E i \in 1..Len(changes) : Ahead(i, j)

SmoothStreamInv ==
  faults \cap {"model", "aws"} = {} =>
    /\ \A i \in 1..Len(changes) : changes[i].new # "FAILED"
    /\ \A j \in Job : metrics[j]["failed"] = 0

MetricsInv ==
  /\ CalmJobs /\ RowInv /\ SmoothInv
  /\ StreamType /\ CountedOnceInv /\ NotLostInv /\ SmoothStreamInv

-----------------------------------------------------------------------------
(* What a record put at the end of the stream, and a batch taken from its  *)
(* beginning, leave of the others.                                         *)
Change == [job : Job, new : {"COMPLETED", "FAILED"}]

LEMMA AppendFacts ==
  ASSUME NEW s \in Seq(Change), NEW e \in Change
  PROVE  /\ Append(s, e) \in Seq(Change)
         /\ Len(Append(s, e)) = Len(s) + 1
         /\ \A i \in 1..Len(s) : Append(s, e)[i] = s[i]
         /\ Append(s, e)[Len(s) + 1] = e
OBVIOUS

LEMMA RestFacts ==
  ASSUME NEW s \in Seq(Change), NEW n \in 0..Len(s)
  PROVE  /\ SubSeq(s, n + 1, Len(s)) \in Seq(Change)
         /\ Len(SubSeq(s, n + 1, Len(s))) = Len(s) - n
         /\ \A i \in 1 .. Len(s) - n : SubSeq(s, n + 1, Len(s))[i] = s[n + i]
OBVIOUS

(* A step writes the status of one job at most, and a failure of a job     *)
(* with a row only.                                                        *)
LEMMA OneStatusChanges ==
  ASSUME JobsInv, RowInv, [Next]_vars
  PROVE  /\ \A i, k \in Job : status'[i] # status[i] /\ status'[k] # status[k] => i = k
         /\ \A i \in Job : status'[i] = "FAILED" /\ status[i] = None => FALSE
<1> USE DEF JobsInv
<1>1. ASSUME NEW w \in Worker, PutJob(w) \/ DispatchError(w)
      PROVE  /\ \A i \in Job : i # job[w] => status'[i] = status[i]
             /\ \A i \in Job : status'[i] = "FAILED" => status[i] = "FAILED"
  <2>1. job[w] \in Job
    BY <1>1 DEF PutJob, DispatchError, HeldInv
  <2> QED
    BY <1>1, <2>1, PutFacts DEF PutJob, DispatchError, row
<1>2. ASSUME NEW j \in Job, Execute(j) \/ FinalizeFails(j)
      PROVE  /\ \A i \in Job : i # j => status'[i] = status[i]
             /\ \A i \in Job : status'[i] = "FAILED" => status[i] # None
  BY <1>2 DEF Execute, InvokeModel, SaveResult, NotifyCompletion, JobCompleted,
              HandleFailure, JobFailed, FinalizeFails, SetStatus, TypeOK, RowInv,
              row
<1>3. ASSUME NEW j \in Job, HandleSfnFailure(j) \/ CleanUp(j)
      PROVE  /\ \A i \in Job : i # j => status'[i] = status[i]
             /\ \A i \in Job : status'[i] = "FAILED" => status[i] # None
  BY <1>3 DEF HandleSfnFailure, FailUnlessCompleted, CleanUp, TimeOutIfPending,
              SetStatus, TypeOK, RowInv
<1>4. CASE UNCHANGED status
  BY <1>4
<1> QED
  BY <1>1, <1>2, <1>3, <1>4
  DEF Next, vars, row, Receive, Redrive, Dispatch, Reject, StartJob,
      StartRefused, Answer, Crash, Release, LoseEvent, Age, CleanUpError,
      FindStuck, CleanUpCrash

(* No step gives an execution or an event to a job without a row.          *)
LEMMA NextKeepsRows == JobsInv /\ RowInv /\ [Next]_vars => RowInv'
<1> SUFFICES ASSUME JobsInv, RowInv, [Next]_vars PROVE RowInv'
  OBVIOUS
<1> USE DEF JobsInv
<1>1. ASSUME NEW w \in Worker, PutJob(w) PROVE RowInv'
  <2>1. job[w] \in Job
    BY <1>1 DEF PutJob, HeldInv
  <2> QED
    BY <1>1, <2>1, PutFacts DEF PutJob, RowInv, workflow
<1>2. ASSUME NEW w \in Worker, StartJob(w) PROVE RowInv'
  <2>1. job[w] \in Job /\ status[job[w]] # None
    BY <1>2 DEF StartJob, HeldInv
  <2> QED
    BY <1>2, <2>1, StartFacts DEF StartJob, RowInv, row
<1>3. ASSUME NEW w \in Worker, DispatchError(w) PROVE RowInv'
  <2>1. job[w] \in Job /\ (pc[w] = "start" => status[job[w]] # None)
    BY <1>3 DEF DispatchError, HeldInv
  <2>2. CASE UNCHANGED <<row, exec>>
    BY <1>3, <2>2 DEF DispatchError, RowInv, row
  <2>3. CASE PutPending(job[w]) /\ UNCHANGED exec
    BY <1>3, <2>1, <2>3, PutFacts DEF DispatchError, RowInv
  <2>4. CASE pc[w] = "start" /\ StartExecution(job[w]) /\ UNCHANGED row
    BY <1>3, <2>1, <2>4, StartFacts DEF DispatchError, RowInv, row
  <2> QED
    BY <1>3, <2>2, <2>3, <2>4 DEF DispatchError
<1>4. ASSUME NEW j \in Job, Execute(j) PROVE RowInv'
  BY <1>4, WorkflowIsBehind
  DEF Execute, InvokeModel, SaveResult, NotifyCompletion, JobCompleted,
      HandleFailure, JobFailed, SetStatus, Enter, Behind, TypeOK, RowInv, row
<1>5. ASSUME NEW j \in Job, FinalizeFails(j) PROVE RowInv'
  BY <1>5 DEF FinalizeFails, SetStatus, Enter, TypeOK, RowInv
<1>6. ASSUME NEW j \in Job, SafetyNet(j) PROVE RowInv'
  BY <1>6 DEF SafetyNet, HandleSfnFailure, FailUnlessCompleted, LoseEvent, Age,
              CleanUp, TimeOutIfPending, CleanUpError, SetStatus, TypeOK, RowInv,
              row, workflow
<1>7. CASE UNCHANGED <<status, exec, event>>
  BY <1>7 DEF RowInv
<1> QED
  BY <1>1, <1>2, <1>3, <1>4, <1>5, <1>6, <1>7
  DEF Next, vars, row, workflow, Receive, Redrive, Dispatch, Reject,
      StartRefused, Answer, Crash, Release, FindStuck, CleanUpCrash, SafetyNet

(* Every step leaves as it is what goes wrong in the behaviour.            *)
LEMMA FaultsStay == [Next]_vars => faults' = faults
BY DEF Next, vars, given, Receive, Redrive, Dispatch, Reject, PutJob, StartJob,
       StartRefused, Answer, DispatchError, Crash, Release, Execute, InvokeModel,
       SaveResult, NotifyCompletion, JobCompleted, HandleFailure, JobFailed,
       FinalizeFails, HandleSfnFailure, LoseEvent, Age, CleanUp, CleanUpError,
       FindStuck, CleanUpCrash

(* Where no call fails, no step leads to a failure.                        *)
LEMMA NextKeepsSmooth == JobsInv /\ SmoothInv /\ [Next]_vars => SmoothInv'
<1> SUFFICES ASSUME JobsInv, SmoothInv, [Next]_vars, faults \cap {"model", "aws"} = {}
             PROVE  SmoothInv'
  BY FaultsStay DEF SmoothInv
<1>0. /\ "model" \notin faults /\ "aws" \notin faults
      /\ \A i \in Job : ~event[i] /\ exec[i] \notin {"handle", "notify", "failed"}
                     /\ status[i] # "FAILED"
  BY DEF SmoothInv
<1> SUFFICES ASSUME NEW i \in Job
             PROVE  ~event'[i] /\ exec'[i] \notin {"handle", "notify", "failed"}
                    /\ status'[i] # "FAILED"
  BY DEF SmoothInv
<1> USE <1>0 DEF JobsInv
<1>1. ASSUME NEW w \in Worker, PutJob(w) \/ StartJob(w)
      PROVE  ~event'[i] /\ exec'[i] \notin {"handle", "notify", "failed"}
             /\ status'[i] # "FAILED"
  <2>1. job[w] \in Job
    BY <1>1 DEF PutJob, StartJob, HeldInv
  <2> QED
    BY <1>1, <2>1, PutFacts, StartFacts DEF PutJob, StartJob, row, workflow
<1>2. ASSUME NEW j \in Job, Execute(j)
      PROVE  ~event'[i] /\ exec'[i] \notin {"handle", "notify", "failed"}
             /\ status'[i] # "FAILED"
  BY <1>2 DEF Execute, InvokeModel, SaveResult, NotifyCompletion, JobCompleted,
              HandleFailure, JobFailed, SetStatus, Enter, TypeOK, row
<1>3. ASSUME NEW j \in Job, SafetyNet(j)
      PROVE  ~event'[i] /\ exec'[i] \notin {"handle", "notify", "failed"}
             /\ status'[i] # "FAILED"
  BY <1>3 DEF SafetyNet, HandleSfnFailure, LoseEvent, Age, CleanUp,
              TimeOutIfPending, CleanUpError, SetStatus, TypeOK, row, workflow
<1>4. CASE UNCHANGED <<status, exec, event>>
  BY <1>4
<1> QED
  BY <1>1, <1>2, <1>3, <1>4
  DEF Next, vars, row, workflow, Receive, Redrive, Dispatch, Reject,
      StartRefused, Answer, DispatchError, Crash, Release, FinalizeFails,
      FindStuck, CleanUpCrash, SafetyNet

(* A step of the jobs: the stream gets the record of the job whose status  *)
(* changes to one of the two, and every failure is such a change.          *)
LEMMA JobStepAppends ==
  ASSUME MetricsInv, JobStep
  PROVE  /\ StreamType'
         /\ UNCHANGED <<through, metrics, faults>>
         /\ \A i \in 1..Len(changes) : changes'[i] = changes[i]
         /\ \/ UNCHANGED changes /\ \A j \in Job : ~Passes(j)
            \/ /\ Len(changes') = Len(changes) + 1
               /\ \E j \in Job :
                    /\ Passes(j) /\ \A i \in Job : i # j => ~Passes(i)
                    /\ changes'[Len(changes) + 1] = [job |-> j, new |-> status'[j]]
         /\ \A i \in Job : status'[i] = "FAILED" /\ status[i] # "FAILED" => Passes(i)
<1> USE DEF MetricsInv, CalmJobs
<1>1. /\ [Next]_vars /\ faults' = faults /\ JobsInv'
      /\ UNCHANGED <<through, metrics>>
  BY FaultsStay, NextKeepsInv DEF JobStep
<1>2. \A i, k \in Job : Passes(i) /\ Passes(k) => i = k
  BY <1>1, OneStatusChanges DEF Passes
<1>3. \A i \in Job : status'[i] = "FAILED" /\ status[i] # "FAILED" => Passes(i)
  BY <1>1, OneStatusChanges DEF Passes
<1>4. CASE UNCHANGED changes /\ \A j \in Job : ~Passes(j)
  BY <1>1, <1>3, <1>4 DEF StreamType
<1>5. ASSUME NEW j \in Job, Passes(j),
             changes' = Append(changes, [job |-> j, new |-> status'[j]])
      PROVE  /\ StreamType'
             /\ \A i \in 1..Len(changes) : changes'[i] = changes[i]
             /\ Len(changes') = Len(changes) + 1
             /\ changes'[Len(changes) + 1] = [job |-> j, new |-> status'[j]]
  <2>1. [job |-> j, new |-> status'[j]] \in Change
    BY <1>5 DEF Passes, Change
  <2>2. changes \in Seq(Change) /\ through \in 0..Len(changes)
    BY DEF StreamType, Change
  <2>3. /\ changes' \in Seq(Change) /\ Len(changes') = Len(changes) + 1
        /\ \A i \in 1..Len(changes) : changes'[i] = changes[i]
        /\ changes'[Len(changes) + 1] = [job |-> j, new |-> status'[j]]
    BY <1>5, <2>1, <2>2, AppendFacts
  <2>4. Len(changes) \in Nat
    BY <2>2
  <2>5. through' \in 0..Len(changes')
    BY <1>1, <2>2, <2>3, <2>4
  <2> QED
    BY <1>1, <2>3, <2>5 DEF StreamType, Change
<1> QED
  BY <1>1, <1>2, <1>3, <1>4, <1>5 DEF JobStep

LEMMA JobStepKeepsMetrics == MetricsInv /\ JobStep => MetricsInv'
<1> SUFFICES ASSUME MetricsInv, JobStep PROVE MetricsInv'
  OBVIOUS
<1>1. CalmJobs' /\ RowInv' /\ SmoothInv'
  BY NextKeepsCalm, NextKeepsRows, NextKeepsSmooth DEF MetricsInv, JobStep, CalmJobs
<1>2. /\ StreamType' /\ UNCHANGED <<through, metrics, faults>>
      /\ \A i \in 1..Len(changes) : changes'[i] = changes[i]
      /\ \A i \in Job : status'[i] = "FAILED" /\ status[i] # "FAILED" => Passes(i)
  BY JobStepAppends
<1>3. Len(changes) \in Nat /\ Len(changes') \in Nat /\ through \in Nat
      /\ \A j \in Job : metrics[j]["failed"] \in Nat
  BY <1>2 DEF MetricsInv, StreamType, Counters
<1>4. CASE UNCHANGED changes /\ \A j \in Job : ~Passes(j)
  <2>1. CountedOnceInv'
    <3> SUFFICES ASSUME Calm PROVE CountedOnceInv'
      BY <1>2 DEF CountedOnceInv, Calm
    <3>1. \A j \in Job : status[j] = "FAILED" => status'[j] = "FAILED"
      BY StepLeavesEnded DEF MetricsInv, JobStep
    <3> QED
      BY <1>2, <1>4, <3>1 DEF MetricsInv, CountedOnceInv, Ahead, Reports
  <2>2. NotLostInv'
    BY <1>2, <1>4 DEF MetricsInv, NotLostInv, Ahead, Reports
  <2>3. SmoothStreamInv'
    BY <1>2, <1>4 DEF MetricsInv, SmoothStreamInv
  <2> QED
    BY <1>1, <1>2, <2>1, <2>2, <2>3 DEF MetricsInv
<1>5. ASSUME NEW j \in Job, Passes(j), \A i \in Job : i # j => ~Passes(i),
             Len(changes') = Len(changes) + 1,
             changes'[Len(changes) + 1] = [job |-> j, new |-> status'[j]]
      PROVE  MetricsInv'
  <2> PICK n \in Nat : n = Len(changes) + 1
    BY <1>3
  <2>0. /\ \A i \in 1..Len(changes) : \A k \in Job : Ahead(i, k)' <=> Ahead(i, k)
        /\ \A k \in Job : Ahead(n, k)' <=> k = j /\ status'[j] = "FAILED"
    BY <1>2, <1>3, <1>5 DEF MetricsInv, StreamType, Ahead, Reports
  <2>1. CountedOnceInv'
    <3> SUFFICES ASSUME Calm PROVE CountedOnceInv'
      BY <1>2 DEF CountedOnceInv, Calm
    <3>1. \A k \in Job : status[k] = "FAILED" => status'[k] = "FAILED"
      BY StepLeavesEnded DEF MetricsInv, JobStep
    <3>2. status[j] # "FAILED"
      BY <1>5, <3>1 DEF Passes
    <3>3. \A i \in 1..Len(changes') :
            i \in 1..Len(changes) \/ i = n
      BY <1>3, <1>5
    <3>4. ASSUME NEW k \in Job
          PROVE  /\ metrics'[k]["failed"] \in {0, 1}
                 /\ metrics'[k]["failed"] = 1 => status'[k] = "FAILED"
      BY <1>2, <3>1 DEF MetricsInv, CountedOnceInv
    <3>5. ASSUME NEW k \in Job, NEW i \in 1..Len(changes'), Ahead(i, k)'
          PROVE  status'[k] = "FAILED" /\ metrics'[k]["failed"] = 0
      <4>1. CASE i \in 1..Len(changes)
        BY <1>2, <2>0, <3>1, <3>5, <4>1 DEF MetricsInv, CountedOnceInv
      <4>2. CASE i = n
        BY <1>2, <2>0, <3>2, <3>5, <4>2 DEF MetricsInv, CountedOnceInv
      <4> QED
        BY <3>3, <4>1, <4>2
    <3>6. ASSUME NEW k \in Job, NEW i \in 1..Len(changes'), NEW m \in 1..Len(changes'),
                 Ahead(i, k)', Ahead(m, k)'
          PROVE  i = m
      <4>1. \A q \in 1..Len(changes) : ~Ahead(q, j)
        BY <3>2 DEF MetricsInv, CountedOnceInv
      <4>2. \A q \in 1..Len(changes) : q # n
        BY <1>3
      <4> QED
        BY <2>0, <3>3, <3>6, <4>1, <4>2 DEF MetricsInv, CountedOnceInv
    <3> QED
      BY <3>4, <3>5, <3>6 DEF CountedOnceInv
  <2>2. NotLostInv'
    <3>1. 1..Len(changes) \subseteq 1..Len(changes') /\ n \in 1..Len(changes')
      BY <1>3, <1>5
    <3> QED
      BY <1>2, <1>5, <2>0, <3>1 DEF MetricsInv, NotLostInv
  <2>3. SmoothStreamInv'
    <3> SUFFICES ASSUME faults \cap {"model", "aws"} = {} PROVE SmoothStreamInv'
      BY <1>2 DEF SmoothStreamInv
    <3>1. status'[j] # "FAILED"
      BY <1>1, <1>2 DEF SmoothInv
    <3>2. \A i \in 1..Len(changes') :
            i \in 1..Len(changes) \/ i = Len(changes) + 1
      BY <1>3, <1>5
    <3> QED
      BY <1>2, <1>5, <3>1, <3>2 DEF MetricsInv, SmoothStreamInv
  <2> QED
    BY <1>1, <1>2, <2>1, <2>2, <2>3 DEF MetricsInv
<1> QED
  BY <1>4, <1>5, JobStepAppends

(* The steps of the stream-processor leave the jobs as they are.           *)
LEMMA JobsStay == MetricsInv /\ UNCHANGED vars => CalmJobs' /\ RowInv' /\ SmoothInv'
BY NextKeepsCalm, NextKeepsRows, NextKeepsSmooth DEF MetricsInv, CalmJobs

LEMMA ProcessKeepsMetrics == MetricsInv /\ ProcessRecord => MetricsInv'
<1> SUFFICES ASSUME MetricsInv, ProcessRecord PROVE MetricsInv'
  OBVIOUS
<1>1. CalmJobs' /\ RowInv' /\ SmoothInv'
  BY JobsStay DEF ProcessRecord
<1>2. /\ UNCHANGED <<changes, status, faults>> /\ through' = through + 1
      /\ through \in Nat /\ Len(changes) \in Nat /\ through + 1 <= Len(changes)
  BY DEF ProcessRecord, MetricsInv, StreamType, vars, given, row
<1> DEFINE r == changes[through + 1]
<1>3. r \in [job : Job, new : {"COMPLETED", "FAILED"}] /\ r.job \in Job
  <2>1. changes \in Seq(Change) /\ through + 1 \in 1..Len(changes)
    BY <1>2 DEF MetricsInv, StreamType, Change
  <2>2. r \in Change
    BY <2>1
  <2> QED
    BY <2>2 DEF Change
<1>4. /\ metrics \in [Job -> [Counters -> Nat]]
      /\ metrics' \in [Job -> [Counters -> Nat]]
      /\ \A j \in Job :
           \/ metrics'[j]["failed"] = metrics[j]["failed"]
                + (IF "aws" \notin faults /\ r.job = j /\ r.new = "FAILED" THEN 1 ELSE 0)
           \/ /\ "aws" \in faults /\ metrics'[j]["failed"] >= metrics[j]["failed"]
              /\ r.new # "FAILED" => metrics' = metrics
  <2>1. metrics \in [Job -> [Counters -> Nat]]
    BY DEF MetricsInv, StreamType
  <2>2. \/ r.new = "FAILED" /\ metrics' = [metrics EXCEPT ![r.job]["failed"] = @ + 1]
        \/ metrics' = metrics /\ ("aws" \in faults \/ r.new # "FAILED")
    BY DEF ProcessRecord, ProcessJobCompleted, ProcessJobFailed, Add,
           ParseDynamodbValue, TokenType
  <2> HIDE DEF r
  <2>3. CASE metrics' = metrics /\ ("aws" \in faults \/ r.new # "FAILED")
    BY <2>1, <2>3 DEF Counters
  <2>4. CASE r.new = "FAILED" /\ metrics' = [metrics EXCEPT ![r.job]["failed"] = @ + 1]
    BY <1>3, <2>1, <2>4 DEF Counters
  <2> QED
    BY <2>2, <2>3, <2>4
<1>5. StreamType'
  BY <1>2, <1>4 DEF MetricsInv, StreamType
<1> PICK n \in 1..Len(changes) : n = through + 1
  BY <1>2
<1>6. \A i \in 1..Len(changes) : \A j \in Job :
        /\ Ahead(i, j)' <=> Ahead(i, j) /\ i # n
        /\ Ahead(n, j) <=> r.job = j /\ r.new = "FAILED"
  BY <1>2 DEF Ahead, Reports
<1>7. \A j \in Job : metrics[j]["failed"] \in Nat /\ metrics'[j]["failed"] \in Nat
  BY <1>4 DEF Counters
<1>8. CountedOnceInv'
  <2> SUFFICES ASSUME Calm PROVE CountedOnceInv'
    BY <1>2 DEF CountedOnceInv, Calm
  <2>1. "aws" \notin faults
    BY DEF Calm
  <2> SUFFICES ASSUME NEW j \in Job
               PROVE  /\ metrics'[j]["failed"] \in {0, 1}
                      /\ metrics'[j]["failed"] = 1 => status[j] = "FAILED"
                      /\ \A i \in 1..Len(changes) :
                           Ahead(i, j)' => status[j] = "FAILED" /\ metrics'[j]["failed"] = 0
                      /\ \A i, k \in 1..Len(changes) : Ahead(i, j)' /\ Ahead(k, j)' => i = k
    BY <1>2 DEF CountedOnceInv
  <2>2. CASE Ahead(n, j)
    BY <1>4, <1>6, <1>7, <2>1, <2>2 DEF MetricsInv, CountedOnceInv
  <2>3. CASE ~Ahead(n, j)
    <3>1. metrics'[j]["failed"] = metrics[j]["failed"]
      BY <1>4, <1>6, <1>7, <2>1, <2>3
    <3> QED
      BY <1>6, <2>3, <3>1 DEF MetricsInv, CountedOnceInv
  <2> QED
    BY <2>2, <2>3
<1>9. NotLostInv'
  <2> SUFFICES ASSUME "aws" \notin faults, NEW j \in Job, status[j] = "FAILED"
               PROVE  \/ metrics'[j]["failed"] >= 1
                      \/ \E i \in 1..Len(changes) : Ahead(i, j)'
    BY <1>2 DEF NotLostInv
  <2>1. CASE metrics[j]["failed"] >= 1 \/ Ahead(n, j)
    BY <1>4, <1>6, <1>7, <2>1
  <2>2. CASE \E i \in 1..Len(changes) : Ahead(i, j) /\ i # n
    BY <1>6, <2>2
  <2> QED
    BY <2>1, <2>2 DEF MetricsInv, NotLostInv
<1>10. SmoothStreamInv'
  <2> SUFFICES ASSUME faults \cap {"model", "aws"} = {} PROVE SmoothStreamInv'
    BY <1>2 DEF SmoothStreamInv
  <2>1. r.new # "FAILED" /\ "aws" \notin faults
    BY <1>2 DEF MetricsInv, SmoothStreamInv
  <2> QED
    BY <1>2, <1>4, <1>7, <2>1 DEF MetricsInv, SmoothStreamInv
<1> QED
  BY <1>1, <1>5, <1>8, <1>9, <1>10 DEF MetricsInv

LEMMA ReturnKeepsMetrics == MetricsInv /\ Return => MetricsInv'
<1> SUFFICES ASSUME MetricsInv, Return PROVE MetricsInv'
  OBVIOUS
<1>1. CalmJobs' /\ RowInv' /\ SmoothInv'
  BY JobsStay DEF Return
<1>2. UNCHANGED <<metrics, status, faults>> /\ through' = 0
  BY DEF Return, vars, given, row
<1>3. changes \in Seq(Change) /\ through \in 0..Len(changes) /\ Len(changes) \in Nat
  BY DEF MetricsInv, StreamType, Change
<1>4. /\ changes' \in Seq(Change) /\ Len(changes') = Len(changes) - through
      /\ \A i \in 1 .. Len(changes) - through : changes'[i] = changes[through + i]
  BY <1>3, RestFacts DEF Return
<1>5. StreamType'
  BY <1>2, <1>3, <1>4 DEF MetricsInv, StreamType, Change
<1> DEFINE Rest == 1 .. Len(changes) - through
<1>6. /\ 1..Len(changes') = Rest
      /\ \A i \in Rest : through + i \in 1..Len(changes)
      /\ \A i \in Rest : \A j \in Job : Ahead(i, j)' <=> Ahead(through + i, j)
  BY <1>2, <1>3, <1>4 DEF Ahead, Reports
<1>7. \A i \in 1..Len(changes) : \A j \in Job :
        Ahead(i, j) => i - through \in Rest /\ i = through + (i - through)
  BY <1>3 DEF Ahead
<1>8. CountedOnceInv'
  <2>1. \A i, k \in Rest : through + i = through + k => i = k
    BY <1>3
  <2> SUFFICES ASSUME Calm, NEW j \in Job
               PROVE  /\ metrics[j]["failed"] \in {0, 1}
                      /\ metrics[j]["failed"] = 1 => status[j] = "FAILED"
                      /\ \A i \in Rest :
                           Ahead(i, j)' => status[j] = "FAILED" /\ metrics[j]["failed"] = 0
                      /\ \A i, k \in Rest : Ahead(i, j)' /\ Ahead(k, j)' => i = k
    BY <1>2, <1>6 DEF CountedOnceInv, Calm
  <2> HIDE DEF Rest
  <2> QED
    BY <1>6, <2>1 DEF MetricsInv, CountedOnceInv
<1>9. NotLostInv'
  <2> SUFFICES ASSUME "aws" \notin faults, NEW j \in Job, status[j] = "FAILED"
               PROVE  metrics[j]["failed"] >= 1 \/ \E i \in Rest : Ahead(i, j)'
    BY <1>2, <1>6 DEF NotLostInv
  <2>1. metrics[j]["failed"] >= 1 \/ \E i \in 1..Len(changes) : Ahead(i, j)
    BY DEF MetricsInv, NotLostInv
  <2> HIDE DEF Rest
  <2>2. ASSUME NEW i \in 1..Len(changes), Ahead(i, j)
        PROVE  \E k \in Rest : Ahead(k, j)'
    <3>1. PICK k \in Rest : i = through + k
      BY <1>7, <2>2
    <3> QED
      BY <1>6, <2>2, <3>1
  <2> QED
    BY <2>1, <2>2
<1>10. SmoothStreamInv'
  BY <1>2, <1>4, <1>6 DEF MetricsInv, SmoothStreamInv
<1> QED
  BY <1>1, <1>5, <1>8, <1>9, <1>10 DEF MetricsInv

(* Only a Lambda that dies brings records again; what is ahead stays so.   *)
LEMMA DiesKeepsMetrics == MetricsInv /\ ProcessorDies => MetricsInv'
<1> SUFFICES ASSUME MetricsInv, ProcessorDies PROVE MetricsInv'
  OBVIOUS
<1>1. CalmJobs' /\ RowInv' /\ SmoothInv'
  BY JobsStay DEF ProcessorDies
<1>2. /\ UNCHANGED <<changes, metrics, status, faults>> /\ through' = 0
      /\ through \in Nat /\ Len(changes) \in Nat /\ ~Calm
  <2>1. through \in 0..Len(changes) /\ Len(changes) \in Nat
    BY DEF MetricsInv, StreamType
  <2>2. ~Calm
    BY DEF ProcessorDies, Calm
  <2> QED
    BY <2>1, <2>2 DEF ProcessorDies, vars, given, row
<1>3. StreamType' /\ CountedOnceInv' /\ SmoothStreamInv'
  BY <1>2 DEF MetricsInv, StreamType, CountedOnceInv, SmoothStreamInv, Calm
<1>4. \A i \in 1..Len(changes) : \A j \in Job : Ahead(i, j) => Ahead(i, j)'
  BY <1>2 DEF Ahead, Reports
<1>5. NotLostInv'
  BY <1>2, <1>4 DEF MetricsInv, NotLostInv
<1> QED
  BY <1>1, <1>3, <1>5 DEF MetricsInv

(* The initial state and every step have the invariant of the metrics.     *)
LEMMA InitHasMetrics == InitMetrics => MetricsInv
<1> SUFFICES ASSUME InitMetrics PROVE MetricsInv
  OBVIOUS
<1>1. CalmJobs /\ RowInv /\ SmoothInv
  BY InitHolds DEF InitMetrics, CalmJobs, RowInv, SmoothInv, Init
<1>2. StreamType /\ Len(changes) = 0
  BY DEF InitMetrics, StreamType, Counters
<1>3. CountedOnceInv /\ NotLostInv /\ SmoothStreamInv
  BY <1>2 DEF InitMetrics, Init, CountedOnceInv, NotLostInv, SmoothStreamInv,
              Ahead, Counters
<1> QED
  BY <1>1, <1>2, <1>3 DEF MetricsInv

LEMMA NextKeepsMetrics == MetricsInv /\ [NextMetrics]_allVars => MetricsInv'
<1> SUFFICES ASSUME MetricsInv, [NextMetrics]_allVars PROVE MetricsInv'
  OBVIOUS
<1>1. CASE UNCHANGED allVars
  <2>1. CalmJobs' /\ RowInv' /\ SmoothInv'
    BY <1>1, JobsStay DEF allVars
  <2>2. StreamType' /\ CountedOnceInv' /\ NotLostInv' /\ SmoothStreamInv'
    BY <1>1 DEF MetricsInv, StreamType, CountedOnceInv, NotLostInv,
                SmoothStreamInv, Calm, Ahead, Reports, allVars, metricsVars, vars,
                given, row
  <2> QED
    BY <2>1, <2>2 DEF MetricsInv
<1> QED
  BY <1>1, JobStepKeepsMetrics, ProcessKeepsMetrics, ReturnKeepsMetrics,
     DiesKeepsMetrics DEF NextMetrics

(* When the stream is read to its end, each failure is in the metrics of   *)
(* its tenant: once in a calm system, although the workflow and the        *)
(* handler of its failures both write it, at least once if Lambdas die,    *)
(* and never a failure that was none.                                      *)
THEOREM FailuresAlwaysCounted == SpecMetrics => []FailuresAreCounted
<1>1. MetricsInv => FailuresAreCounted
  <2> SUFFICES ASSUME MetricsInv, NEW j \in Job, changes = <<>>
               PROVE  /\ Calm => metrics[j]["failed"]
                                   = IF status[j] = "FAILED" THEN 1 ELSE 0
                      /\ "aws" \notin faults /\ status[j] = "FAILED"
                           => metrics[j]["failed"] >= 1
                      /\ faults \cap {"model", "aws"} = {} => metrics[j]["failed"] = 0
    BY DEF FailuresAreCounted, Calm
  <2>1. \A i \in 1..Len(changes) : FALSE
    OBVIOUS
  <2>2. "aws" \notin faults /\ status[j] = "FAILED" => metrics[j]["failed"] >= 1
    BY <2>1 DEF MetricsInv, NotLostInv
  <2>3. Calm => metrics[j]["failed"] = IF status[j] = "FAILED" THEN 1 ELSE 0
    BY <2>2 DEF MetricsInv, CountedOnceInv, Calm
  <2> QED
    BY <2>2, <2>3 DEF MetricsInv, SmoothStreamInv
<1> QED
  BY <1>1, InitHasMetrics, NextKeepsMetrics, PTL DEF SpecMetrics
=============================================================================

----------------------------- MODULE GpuOperator -----------------------------
(***************************************************************************)
(* gpu-inference-operator-lab: the reconcile loop of one                   *)
(* AIInferenceService.  The operator reads from the caches of the manager, *)
(* which trail the API server, works on a copy of the object and writes    *)
(* back under optimistic locking: a write made from an outdated copy is    *)
(* refused.  Users edit and delete the object and set its restart count    *)
(* back as the runbook tells them, pods fail and come back, calls fail and *)
(* the operator dies between any two calls.                                *)
(***************************************************************************)
EXTENDS GpuPolicy, FiniteSets

CONSTANTS
  Submitted,       \* specs that users send to the API server
  Metric,          \* values Prometheus may answer with
  MaxMemory,       \* bound: how often the node lets the memory limit grow
  MaxUpsets        \* bound: failing calls, crashes of the operator, pod
                   \* failures, lost nodes, and edits of the object

\* What the schema of the CRD lets through to the webhook.
SpecType ==
  [image : {s.image : s \in Submitted},
   min : Nat, max : Nat, target : Nat \ {0}, source : {"gpu", "queue"},
   queue : BOOLEAN, prometheus : BOOLEAN, heal : {"none", "off", "restart"},
   attempts : Int, fallback : BOOLEAN, pool : BOOLEAN, gpus : Int]

ASSUME OperatorAssumption ==
  /\ MaxMemory \in Nat /\ MaxUpsets \in Nat
  /\ Submitted \subseteq SpecType /\ Admit(Submitted) # {}
  /\ Metric \subseteq Int

VARIABLES
  ais,          \* the object in the API server
  seen,         \* the copy in the cache of the manager
  seenCurrent,  \* the cache holds the latest version
  obj,          \* the copy the running pass works on
  objCurrent,   \* that copy is of the latest version
  pc,           \* the next step of the pass
  want,         \* replicas the pass asks for
  bumped,       \* the pass has raised the memory limit
  choice,       \* what the fallback detector told the pass
  dep,          \* the Deployment (exists, image, replicas, raises of its
                \* memory) and whether the Service exists
  depSeen,      \* their cached copy
  depCurrent,   \* that copy is of the latest version
  ready,        \* ready replicas in the status of the Deployment: none or one
  failure,      \* the termination that the status of the pods still shows
  alerted,      \* NotifyDegraded has been called
  cleaned,      \* the external resources were cleaned up
  uncounted,    \* history: passes that raised the memory and did not store the
                \* count, and counts that a person has set back
  setBack,      \* history: the greatest restart count a person has set back
  upsets        \* how often something has gone wrong

object == <<ais, seen, seenCurrent>>
pass == <<obj, objCurrent, pc, want, bumped, choice>>
deployment == <<dep, depSeen, depCurrent>>
pods == <<ready, failure>>
history == <<alerted, cleaned, uncounted, setBack>>
vars == <<object, pass, deployment, pods, history, upsets>>

Phases == {"", "Running", "Provisioning", "Fallback", "Degraded"}

\* What InspectPods tells apart in the status of the containers.
Terminations == {"OOMKilled", "CrashLoopBackOff"}

Objects ==
  [gone : BOOLEAN, deleting : BOOLEAN, finalizer : BOOLEAN,
   spec : Admit(Submitted),
   since : {"none", "fresh", "old", "malformed"},
   phase : Phases, backend : {"", "gpu", "bedrock"},
   restarts : Nat]

Deployments == [exists : BOOLEAN, image : {s.image : s \in Submitted},
                replicas : Nat, memory : 0..MaxMemory,
                service : BOOLEAN]

TypeOK ==
  /\ ais \in Objects /\ seen \in Objects /\ obj \in Objects
  /\ seenCurrent \in BOOLEAN /\ objCurrent \in BOOLEAN /\ depCurrent \in BOOLEAN
  /\ bumped \in BOOLEAN /\ alerted \in BOOLEAN /\ cleaned \in BOOLEAN
  /\ pc \in {"idle", "deployment", "service", "heal", "fallback", "status"}
  /\ want \in Nat
  /\ choice \in {"nothing", "recover", "clear", "start", "fallback", "wait"}
  /\ dep \in Deployments /\ depSeen \in Deployments
  /\ ready \in 0..1
  /\ failure \in {"none"} \cup Terminations
  /\ uncounted \in Nat /\ setBack \in Nat
  /\ upsets \in 0..MaxUpsets
  /\ seenCurrent => seen = ais
  /\ depCurrent => depSeen = dep

New(s) ==
  [gone |-> FALSE, deleting |-> FALSE, finalizer |-> FALSE,
   spec |-> s, since |-> "none", phase |-> "", backend |-> "",
   restarts |-> 0]

\* What the pass works on while there is none.
NoObject == New(CHOOSE s \in Admit(Submitted) : TRUE)

Init ==
  /\ \E s \in Admit(Submitted) :
       /\ ais = New(s)
       /\ dep = [exists |-> FALSE, image |-> s.image, replicas |-> 0, memory |-> 0,
                 service |-> FALSE]
  /\ seen = ais /\ obj = NoObject /\ depSeen = dep
  /\ seenCurrent = TRUE /\ objCurrent = FALSE /\ depCurrent = TRUE
  /\ pc = "idle" /\ want = 0 /\ bumped = FALSE /\ choice = "nothing"
  /\ ready = 0 /\ failure = "none"
  /\ alerted = FALSE /\ cleaned = FALSE /\ uncounted = 0 /\ setBack = 0
  /\ upsets = 0

----------------------------------------------------------------------------
(* Writing to the API server.                                               *)

Upset == upsets < MaxUpsets /\ upsets' = upsets + 1

\* A write of the object; one that changes nothing makes no new version.
Put(o) ==
  /\ ais' = o
  /\ seenCurrent' = (seenCurrent /\ o = ais)
  /\ UNCHANGED seen

\* A bug: the write does not look at the version of the copy.
UpdateStatusBlindly(o) ==
  Put([ais EXCEPT !.phase = o.phase, !.backend = o.backend, !.restarts = o.restarts])

\* r.Status().Update(ctx, ais): refused when the copy is outdated.
UpdateStatus(o) ==
  IF objCurrent THEN Put(o) ELSE UNCHANGED object

PutDeployment(d) ==
  /\ dep' = d
  /\ depCurrent' = FALSE
  /\ UNCHANGED depSeen

\* A failure to send is logged and the pass goes on.
NotifyDegraded == alerted' = TRUE

\* The pass ends, with the outcome of its last status update if it made one.
StopPass(stored) ==
  /\ pc' = "idle"
  /\ objCurrent' = FALSE /\ bumped' = FALSE /\ obj' = NoObject
  /\ uncounted' = IF bumped /\ ~stored THEN uncounted + 1 ELSE uncounted
  /\ want' = 0 /\ choice' = "nothing"

\* setDegradedCondition, then the error that ends the pass.
Degrade ==
  /\ UpdateStatus([obj EXCEPT !.phase = "Degraded"])
  /\ StopPass(objCurrent)

----------------------------------------------------------------------------
(* Reconcile.                                                               *)

Reconcilable == pc = "idle" /\ ~seen.gone

\* A refused Update of an outdated copy leaves everything as it was.
HandleDeletion ==
  /\ Reconcilable /\ seen.deleting /\ seen.finalizer /\ seenCurrent
  /\ cleaned' = TRUE
  /\ Put([seen EXCEPT !.finalizer = FALSE, !.gone = TRUE])
  /\ UNCHANGED <<pass, deployment, pods, alerted, uncounted, setBack, upsets>>

AddFinalizer ==
  /\ Reconcilable /\ ~seen.deleting /\ ~seen.finalizer /\ seenCurrent
  /\ Put([seen EXCEPT !.finalizer = TRUE])
  /\ UNCHANGED <<pass, deployment, pods, history, upsets>>

\* What a query of Prometheus may answer.
Fetched == IF seen.spec.prometheus THEN Metric ELSE {}

\* Without a URL and after a failed query the pass asks for the minimum; the
\* webhook sees to it that a queue name is there.
EvaluateScaling ==
  \/ /\ want' = seen.spec.min
     /\ IF seen.spec.prometheus THEN Upset ELSE UNCHANGED upsets
  \/ /\ \E metric \in Fetched :
          want' = CalculateDesiredReplicas(seen.spec,
                    IF depSeen.exists THEN depSeen.replicas ELSE seen.spec.min, metric)
     /\ UNCHANGED upsets

\* A bug: the pass does not wait for the finalizer.
StartPassUnprotected ==
  /\ Reconcilable /\ ~seen.deleting
  /\ obj' = seen /\ objCurrent' = seenCurrent
  /\ pc' = "deployment" /\ bumped' = FALSE /\ choice' = "nothing"
  /\ EvaluateScaling
  /\ UNCHANGED <<object, deployment, pods, history>>

StartPass ==
  /\ Reconcilable /\ ~seen.deleting /\ seen.finalizer
  /\ obj' = seen /\ objCurrent' = seenCurrent
  /\ pc' = "deployment" /\ bumped' = FALSE /\ choice' = "nothing"
  /\ EvaluateScaling
  /\ UNCHANGED <<object, deployment, pods, history>>

\* Create fails when the cache has missed the Deployment, Update when the copy
\* is outdated, and either may fail by itself.
ReconcileDeployment ==
  /\ pc = "deployment"
  /\ LET fits == depSeen.image = obj.spec.image /\ depSeen.replicas = want
         desired == [IF depSeen.exists THEN depSeen ELSE dep EXCEPT
                       !.exists = TRUE, !.image = obj.spec.image, !.replicas = want]
         accepted == IF depSeen.exists THEN fits \/ depCurrent ELSE ~dep.exists
     IN \/ /\ accepted
           /\ IF depSeen.exists /\ fits THEN UNCHANGED deployment
                                        ELSE PutDeployment(desired)
           /\ pc' = "service"
           /\ UNCHANGED <<object, obj, objCurrent, want, bumped, choice, uncounted, upsets>>
        \/ /\ ~accepted
           /\ Degrade
           /\ UNCHANGED <<deployment, upsets>>
        \/ /\ Upset /\ Degrade
           /\ UNCHANGED <<deployment>>
  /\ UNCHANGED <<pods, alerted, cleaned, setBack>>

ReconcileService ==
  /\ pc = "service"
  /\ \/ /\ depSeen.service \/ ~dep.service
        /\ IF depSeen.service THEN UNCHANGED deployment
                              ELSE PutDeployment([dep EXCEPT !.service = TRUE])
        /\ pc' = "heal"
        /\ UNCHANGED <<object, obj, objCurrent, want, bumped, choice, uncounted, upsets>>
     \/ /\ ~depSeen.service /\ dep.service
        /\ Degrade
        /\ UNCHANGED <<deployment, upsets>>
     \/ /\ Upset /\ Degrade
        /\ UNCHANGED <<deployment>>
  /\ UNCHANGED <<pods, alerted, cleaned, setBack>>

\* A bug: the pass forgets that it raised the limit.
BumpUncounted ==
  /\ depSeen.exists /\ depCurrent /\ dep.memory < MaxMemory
  /\ PutDeployment([depSeen EXCEPT !.memory = @ + 1])
  /\ UNCHANGED <<bumped, obj>>

\* bumpMemoryLimit: reads the cached Deployment and updates it.
BumpMemoryLimit ==
  /\ depSeen.exists /\ depCurrent /\ dep.memory < MaxMemory
  /\ PutDeployment([depSeen EXCEPT !.memory = @ + 1])
  /\ bumped' = TRUE
  /\ obj' = [obj EXCEPT !.restarts = @ + 1]

\* Errors of the listing and of the bump are logged and the pass goes on.
ReconcileSelfHeal ==
  /\ pc = "heal"
  /\ pc' = "fallback"
  /\ LET decision == IF obj.spec.heal = "none" \/ obj.phase = "Degraded" THEN "nothing"
                     ELSE HealDecision(obj.spec, obj.restarts, failure)
     IN \/ /\ decision = "degrade"
           /\ NotifyDegraded
           /\ obj' = [obj EXCEPT !.phase = "Degraded"]
           /\ UpdateStatus(obj')
           /\ UNCHANGED <<bumped, deployment, upsets>>
        \/ /\ decision = "bump"
           /\ \/ BumpMemoryLimit
              \/ ~(depSeen.exists /\ depCurrent /\ dep.memory < MaxMemory)
                 /\ UNCHANGED <<obj, bumped, deployment>>
           /\ UNCHANGED <<object, alerted, upsets>>
        \/ /\ decision = "record"
           /\ obj' = [obj EXCEPT !.restarts = @ + 1]
           /\ UNCHANGED <<object, bumped, deployment, alerted, upsets>>
        \/ /\ decision = "nothing" /\ UNCHANGED upsets
           /\ UNCHANGED <<object, obj, bumped, deployment, alerted>>
        \/ /\ decision # "nothing" /\ Upset
           /\ UNCHANGED <<object, obj, bumped, deployment, alerted>>
  /\ UNCHANGED <<objCurrent, want, choice, pods, cleaned, uncounted, setBack>>

\* The annotation is written with Update, which stores no status; after it the
\* pass ends and is repeated.  When the write is refused the pass goes on with
\* the decision, a failure to set the start being no decision at all.
ReconcileFallback ==
  /\ pc = "fallback"
  /\ LET decision == FallbackDecision(obj.spec, obj.since, obj.backend,
                                      IF depSeen.exists THEN ready ELSE 0)
         annotates == decision \in {"recover", "clear", "start"}
     IN \/ /\ annotates /\ objCurrent
           /\ Put([ais EXCEPT !.since = IF decision = "start" THEN "fresh" ELSE "none"])
           /\ StopPass(FALSE)
           /\ UNCHANGED upsets
        \/ /\ IF annotates /\ objCurrent
              THEN Upset
              ELSE UNCHANGED upsets
           /\ choice' = decision
           /\ pc' = "status"
           /\ UNCHANGED <<object, obj, objCurrent, want, bumped, uncounted>>
  /\ UNCHANGED <<deployment, pods, alerted, cleaned, setBack>>

NewStatus ==
  CASE obj.phase = "Degraded" -> obj
    [] obj.phase # "Degraded" /\ choice = "fallback" ->
         [obj EXCEPT !.phase = "Fallback", !.backend = "bedrock"]
    [] obj.phase # "Degraded" /\ choice = "recover" ->
         [obj EXCEPT !.phase = "Running", !.backend = "gpu"]
    [] obj.phase # "Degraded" /\ choice \notin {"fallback", "recover"} /\ ready > 0 ->
         [obj EXCEPT !.phase = "Running", !.backend = "gpu"]
    [] OTHER -> [obj EXCEPT !.phase = "Provisioning"]

ReconcileStatus ==
  /\ pc = "status"
  /\ \/ /\ depSeen.exists
        /\ UpdateStatus(NewStatus)
        /\ StopPass(objCurrent)
        /\ UNCHANGED upsets
     \/ /\ ~depSeen.exists /\ UNCHANGED <<object, upsets>> /\ StopPass(FALSE)
     \/ /\ Upset /\ UNCHANGED <<object>> /\ StopPass(FALSE)
  /\ UNCHANGED <<deployment, pods, alerted, cleaned, setBack>>

Reconcile ==
  \/ HandleDeletion \/ AddFinalizer \/ StartPass
  \/ ReconcileDeployment \/ ReconcileService \/ ReconcileSelfHeal
  \/ ReconcileFallback \/ ReconcileStatus

----------------------------------------------------------------------------
(* The surroundings.                                                        *)

SyncObject ==
  /\ ~seenCurrent
  /\ seen' = ais /\ seenCurrent' = TRUE
  /\ UNCHANGED <<ais, pass, deployment, pods, history, upsets>>

SyncDeployment ==
  /\ ~depCurrent
  /\ depSeen' = dep /\ depCurrent' = TRUE
  /\ UNCHANGED <<object, pass, dep, pods, history, upsets>>

\* The manager is replaced: a new leader starts with full caches.
Restart ==
  /\ pc # "idle" /\ Upset
  /\ seen' = ais /\ seenCurrent' = TRUE
  /\ depSeen' = dep /\ depCurrent' = TRUE
  /\ UNCHANGED <<ais, dep>>
  /\ StopPass(FALSE)
  /\ UNCHANGED <<pods, alerted, cleaned, setBack>>

\* The provisioning timeout elapses, for every copy of the annotation.
Age(o) == IF o.since = "fresh" THEN [o EXCEPT !.since = "old"] ELSE o
TimeOut ==
  /\ ais.since = "fresh"
  /\ ais' = Age(ais) /\ seen' = Age(seen) /\ obj' = Age(obj)
  /\ UNCHANGED <<seenCurrent, objCurrent, pc, want, bumped, choice>>
  /\ UNCHANGED <<deployment, pods, history, upsets>>

\* Somebody else writes the object: the copies are outdated.
Edit ==
  /\ ~ais.gone /\ ~ais.deleting /\ Upset
  /\ \/ \E s \in Admit(Submitted) \ {ais.spec} : Put([ais EXCEPT !.spec = s])
     \/ ais.since # "none" /\ Put([ais EXCEPT !.since = "malformed"])
  /\ objCurrent' = FALSE
  /\ UNCHANGED <<obj, pc, want, bumped, choice>>
  /\ UNCHANGED <<deployment, pods, history>>

\* docs/runbook.md: with every remedy of a Degraded service a person patches
\* restartCount to 0, and after a new memory limit also the phase.
ResetStatus ==
  /\ ~ais.gone /\ Upset
  /\ ais.phase = "Degraded"
  /\ \E p \in {"Degraded", "Provisioning"} :
       Put([ais EXCEPT !.restarts = 0, !.phase = p])
  /\ uncounted' = uncounted + ais.restarts
  /\ setBack' = IF ais.restarts > setBack THEN ais.restarts ELSE setBack
  /\ objCurrent' = FALSE
  /\ UNCHANGED <<obj, pc, want, bumped, choice>>
  /\ UNCHANGED <<deployment, pods, alerted, cleaned>>

Delete ==
  /\ ~ais.gone /\ ~ais.deleting
  /\ Put([ais EXCEPT !.deleting = TRUE, !.gone = ~ais.finalizer])
  /\ objCurrent' = FALSE
  /\ UNCHANGED <<obj, pc, want, bumped, choice, deployment, pods, history, upsets>>

Pods(r, f) ==
  /\ ~ais.gone
  /\ ready' = r /\ failure' = f /\ <<r, f>> # pods
  /\ UNCHANGED <<object, pass, deployment, history>>

\* A restarted container shows the OOM kill of its last run, ready or not.
PodsReady ==
  /\ dep.exists /\ dep.replicas > 0
  /\ Pods(1, IF failure = "OOMKilled" THEN failure ELSE "none")
  /\ UNCHANGED upsets

PodsFail ==
  /\ ready = 1 /\ Upset
  /\ \E f \in Terminations : Pods(0, f)

\* New pods take the place of the old ones: a roll-out or a lost node.
PodsReplaced ==
  /\ \/ failure # "none" /\ UNCHANGED upsets
     \/ Upset
  /\ Pods(0, "none")

ScaleToZero ==
  /\ dep.replicas = 0
  /\ Pods(0, "none")
  /\ UNCHANGED upsets

Environment ==
  \/ SyncObject \/ SyncDeployment \/ Restart \/ TimeOut
  \/ Edit \/ ResetStatus \/ Delete \/ PodsReady \/ PodsFail \/ PodsReplaced \/ ScaleToZero

Next == Reconcile \/ Environment

Spec == Init /\ [][Next]_vars

\* The work queue and the polling interval run the loop, the watches fill the
\* caches, time passes.  Users, pods and faults owe nothing.
Fairness ==
  /\ WF_vars(Reconcile)
  /\ WF_vars(SyncObject) /\ WF_vars(SyncDeployment)
  /\ WF_vars(TimeOut)

FairSpec == Spec /\ Fairness

----------------------------------------------------------------------------
(* Properties.                                                              *)

\* No raise of the memory limit is lost: it is in the stored restart count or
\* in that of the running pass, unless the write of its pass was refused or
\* failed, or a person has set the count back.  A pass that counts from an
\* outdated copy never overwrites a count (reconcileSelfHeal, bumpMemoryLimit).
RaisesAreCounted ==
  dep.memory <= ais.restarts + uncounted + (IF bumped THEN 1 ELSE 0)

\* The alert that says self-healing is exhausted is sent only when the stored
\* count has reached the limit of an admitted spec, or had before a person set
\* it back, however old the copy of the pass is (Evaluate, NotifyDegraded).
DegradedAlertIsTrue ==
  alerted =>
    \E s \in Admit(Submitted) :
      s.heal = "restart" /\ (ais.restarts >= MaxAttempts(s) \/ setBack >= MaxAttempts(s))

\* An object whose Deployment was created goes only after the clean-up ran:
\* the finalizer is stored before anything else is made (Reconcile,
\* handleDeletion).
CleanedBeforeRemoval == ais.gone /\ dep.exists => cleaned

\* The type invariant, and the three facts above: no repair is lost but by a
\* write that did not take place or by hand, no alert comes before the stored
\* count justifies it, and no object goes before it was cleaned up after.
OperatorIsSound ==
  TypeOK /\ RaisesAreCounted /\ DegradedAlertIsTrue /\ CleanedBeforeRemoval

\* No pass leaves Degraded, also none that began before it was stored: only a
\* person who patches the phase does.  And Bedrock takes over only while the
\* stored start of provisioning lies a whole timeout back, whatever a pass read
\* from the cache (Evaluate, updateStatus).
PhaseMoves ==
  [][/\ ais.phase = "Degraded" /\ ais'.phase # "Degraded" => ResetStatus
     /\ ais.phase # "Fallback" /\ ais'.phase = "Fallback" => ais.since = "old"]_vars

\* The replicas asked for carry the load unless the maximum stops them, keep to
\* the bounds when the present number does, and are asked for again under the
\* same load.
Settles(s, current, metric) ==
  LET n == CalculateDesiredReplicas(s, current, metric)
  IN /\ n * s.target >= metric \/ n >= s.max
     /\ current \in s.min..s.max => n \in s.min..s.max
     /\ CalculateDesiredReplicas(s, n, metric) = n

\* The dead band: from three replicas on, those that are given up under a load
\* are not asked for again before the load has grown by nine tenths.
HasDeadBand(s, current, metric) ==
  LET n == CalculateDesiredReplicas(s, current, metric)
  IN current >= 3 /\ metric > 0 /\ n < current =>
       \A later \in metric..(19 * metric) \div 10 :
         CalculateDesiredReplicas(s, n, later) < current

\* The number a pass finds, under every load: a constant load is answered once
\* and for all, and a load that moves about makes three or more replicas come
\* and go only when it nearly doubles (CalculateDesiredReplicas).
ScalingSettles ==
  pc = "deployment" =>
    \A s \in Admit(Submitted) : \A metric \in 0..4 * s.target :
      Settles(s, dep.replicas, metric) /\ HasDeadBand(s, dep.replicas, metric)

Kept == ~ais.deleting /\ ~ais.gone /\ ais.spec.fallback

\* Somebody serves in the end.  When the GPU pods stay away Bedrock does, and
\* when they stay up the GPU does again, unless the service stays Degraded; and
\* an object that is being deleted goes (reconcileFallback, updateStatus,
\* handleDeletion).
ServiceSettles ==
  /\ <>[](Kept /\ ready = 0) => <>[](ais.phase \in {"Fallback", "Degraded"})
  /\ <>[](Kept /\ ready = 1) => <>[](ais.phase \in {"Running", "Degraded"})
  /\ ais.deleting ~> ais.gone

\* The state diagram of ARCHITECTURE.md enters Degraded when the attempts are
\* used up, and the type of the phase says so.
DegradedMeansExhausted ==
  ais.phase = "Degraded" =>
    ais.spec.heal = "restart" /\ ais.restarts >= MaxAttempts(ais.spec)

\* docs/runbook.md:117-137 has a service leave Degraded after its spec was
\* edited and restartCount set to 0; updateStatus keeps a Degraded phase.
ResetLeavesDegraded ==
  (ais.phase = "Degraded" /\ ais.restarts = 0 /\ setBack > 0)
    ~> (ais.phase # "Degraded" \/ ais.deleting)

\* calculator.go:14-17 promises that the number of replicas does not go up and
\* down around a threshold.  Of two replicas the code gives one up at once.
NeverFlaps ==
  \A s \in Admit(Submitted) : \A metric \in 1..4 * s.target :
    LET n == CalculateDesiredReplicas(s, dep.replicas, metric)
    IN n < dep.replicas => CalculateDesiredReplicas(s, n, metric + 1) < dep.replicas
=============================================================================

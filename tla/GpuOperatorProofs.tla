-------------------------- MODULE GpuOperatorProofs --------------------------
(***************************************************************************)
(* Proofs about GpuOperator and GpuPolicy for any specs that users send,   *)
(* any load and any number of upsets: repairs are counted, alerts are      *)
(* true, an object goes after its clean-up, phases move as the code means  *)
(* them to, and the replica calculation settles.                           *)
(*                                                                         *)
(* All but the last turn on what a pass knows of the object while caches   *)
(* trail: one that holds the latest version holds what is stored, up to    *)
(* the repair it has not stored yet (CopyInv); one that holds an old       *)
(* version has at least not counted ahead of what was stored (CountInv),    *)
(* so that its alert is true although its status update is refused; and    *)
(* whatever a pass has made is under the stored finalizer until the        *)
(* clean-up ran (FinalizerInv).  The replica calculation needs the bounds  *)
(* of an admitted spec and what a quotient rounded up is.                  *)
(***************************************************************************)
EXTENDS GpuOperator, TLAPS

USE OperatorAssumption

\* The pass that holds the latest version holds what is stored, except that it
\* may have counted a repair that is not stored yet, and has if it raised the
\* limit.
CopyInv ==
  objCurrent =>
    /\ pc # "idle"
    /\ obj.gone = ais.gone /\ obj.deleting = ais.deleting
    /\ obj.finalizer = ais.finalizer /\ obj.spec = ais.spec
    /\ obj.since = ais.since /\ obj.phase = ais.phase /\ obj.backend = ais.backend
    /\ obj.restarts >= ais.restarts
    /\ bumped => obj.restarts > ais.restarts

\* The count of a copy, up to the repair of the pass, which raises the limit at
\* most once, was stored: it is not above the stored one, or a person has set
\* such a count back.
WasStored(n) == n <= ais.restarts \/ n <= setBack

CountInv ==
  /\ WasStored(seen.restarts)
  /\ pc \in {"deployment", "service", "heal"} => WasStored(obj.restarts)
  /\ bumped => pc \in {"fallback", "status"}

\* Bedrock is chosen on a start of provisioning that lies a timeout back.
ChoiceInv == choice = "fallback" => obj.since = "old"

\* What a pass has begun with, or has made, is under the finalizer until the
\* clean-up ran.
FinalizerInv ==
  /\ pc # "idle" \/ dep.exists \/ seen.finalizer => ais.finalizer \/ cleaned
  /\ ais.gone => ~ais.finalizer

OperatorInv ==
  /\ TypeOK /\ CopyInv /\ CountInv /\ ChoiceInv /\ FinalizerInv
  /\ RaisesAreCounted /\ DegradedAlertIsTrue

-----------------------------------------------------------------------------
(* What the webhook admits has the fields of a spec, its bounds in order.  *)
LEMMA AdmitFacts ==
  ASSUME NEW s \in Admit(Submitted)
  PROVE  /\ s \in SpecType /\ s.min <= s.max
         /\ s.image \in {t.image : t \in Submitted}
         /\ s.min \in Nat /\ s.max \in Nat /\ s.target \in Nat \ {0}
<1>1. PICK t \in Submitted : s = Default(t) /\ Valid(s)
  BY DEF Admit
<1>2. t \in SpecType
  OBVIOUS
<1>3. s \in SpecType
  <2> DEFINE Images == {i.image : i \in Submitted}
             a == IF t.heal = "restart" /\ t.attempts = 0
                  THEN DefaultMaxRestartAttempts ELSE t.attempts
             g == IF t.pool /\ t.gpus = NoResources THEN 1 ELSE t.gpus
  <2>1. t \in [image : Images, min : Nat, max : Nat, target : Nat \ {0},
              source : {"gpu", "queue"}, queue : BOOLEAN, prometheus : BOOLEAN,
              heal : {"none", "off", "restart"}, attempts : Int,
              fallback : BOOLEAN, pool : BOOLEAN, gpus : Int]
    BY <1>2 DEF SpecType
  <2>2. s = [t EXCEPT !.attempts = a, !.gpus = g]
    BY <1>1, <2>1 DEF Default
  <2>3. a \in Int /\ g \in Int
    BY <2>1 DEF DefaultMaxRestartAttempts
  <2> HIDE DEF Images, a, g
  <2>4. s \in [image : Images, min : Nat, max : Nat, target : Nat \ {0},
              source : {"gpu", "queue"}, queue : BOOLEAN, prometheus : BOOLEAN,
              heal : {"none", "off", "restart"}, attempts : Int,
              fallback : BOOLEAN, pool : BOOLEAN, gpus : Int]
    BY <2>1, <2>2, <2>3
  <2> QED
    BY <2>4 DEF SpecType, Images
<1> QED
  BY <1>1, <1>3 DEF SpecType, Valid

(* The quotient rounded up carries the load and no smaller number does.    *)
LEMMA Ceiling ==
  ASSUME NEW m \in Nat \ {0}, NEW t \in Nat \ {0}
  PROVE  /\ (m + t - 1) \div t \in Nat
         /\ ((m + t - 1) \div t) * t >= m
OBVIOUS

LEMMA Monotone ==
  ASSUME NEW a \in Nat, NEW b \in Nat, NEW t \in Nat, a <= b
  PROVE  a * t <= b * t
OBVIOUS

(* The replicas asked for are a number, whatever the metric says.          *)
LEMMA DesiredType ==
  ASSUME NEW s \in Admit(Submitted), NEW current \in Nat, NEW metric \in Int
  PROVE  CalculateDesiredReplicas(s, current, metric) \in Nat
<1>1. s.min \in Nat /\ s.max \in Nat /\ s.target \in Nat \ {0}
  BY AdmitFacts
<1>2. CASE metric <= 0
  BY <1>1, <1>2 DEF CalculateDesiredReplicas
<1>3. CASE metric > 0
  <2>1. (metric + s.target - 1) \div s.target \in Nat
    BY <1>1, <1>3, Ceiling
  <2> QED
    BY <1>1, <1>3, <2>1 DEF CalculateDesiredReplicas, Within
<1> QED
  BY <1>2, <1>3

(* They carry the load, keep to the bounds and are asked for again.        *)
LEMMA DesiredSettles ==
  ASSUME NEW s \in Admit(Submitted), NEW current \in Nat, NEW metric \in Nat,
         NEW n, n = CalculateDesiredReplicas(s, current, metric)
  PROVE  /\ n * s.target >= metric \/ n >= s.max
         /\ current \in s.min..s.max => n \in s.min..s.max
         /\ CalculateDesiredReplicas(s, n, metric) = n
<1>1. s.min \in Nat /\ s.max \in Nat /\ s.target \in Nat \ {0} /\ s.min <= s.max
  BY AdmitFacts
<1>2. n \in Nat
  BY DesiredType
<1>3. CASE metric = 0
  <2>1. n = s.min /\ n * s.target >= 0
    BY <1>1, <1>3 DEF CalculateDesiredReplicas
  <2> QED
    BY <1>1, <1>3, <2>1 DEF CalculateDesiredReplicas
<1>4. CASE metric # 0
  <2> PICK raw \in Nat : raw = (metric + s.target - 1) \div s.target
    BY <1>1, <1>4, Ceiling
  <2>1. raw * s.target >= metric
    BY <1>1, <1>4, Ceiling
  <2>2. \A k \in Nat :
          CalculateDesiredReplicas(s, k, metric) =
            IF Suppressed(s, k, metric, raw) THEN k ELSE Within(raw, s)
    BY <1>4 DEF CalculateDesiredReplicas
  <2>3. CASE Suppressed(s, current, metric, raw)
    <3>1. n = current /\ raw <= n
      BY <2>2, <2>3, <1>2 DEF Suppressed
    <3>2. n * s.target >= raw * s.target
      BY <1>1, <1>2, <3>1, Monotone
    <3>3. n * s.target \in Int /\ raw * s.target \in Int
      BY <1>1, <1>2
    <3> QED
      BY <2>1, <2>2, <2>3, <3>1, <3>2, <3>3
  <2>4. CASE ~Suppressed(s, current, metric, raw)
    <3>1. n = Within(raw, s)
      BY <2>2, <2>4
    <3>2. CalculateDesiredReplicas(s, n, metric) = n
      BY <1>2, <2>2, <3>1
    <3>3. n \in s.min..s.max
      BY <1>1, <3>1 DEF Within
    <3>4. CASE raw > s.max
      BY <1>1, <3>1, <3>2, <3>3, <3>4 DEF Within
    <3>5. CASE raw <= s.max
      <4>1. raw <= n
        BY <1>1, <3>1, <3>5 DEF Within
      <4>2. n * s.target >= raw * s.target
        BY <1>1, <1>2, <4>1, Monotone
      <4>3. n * s.target \in Int /\ raw * s.target \in Int
        BY <1>1, <1>2
      <4> QED
        BY <2>1, <3>2, <3>3, <4>2, <4>3
    <3> QED
      BY <1>1, <3>4, <3>5
  <2> QED
    BY <2>3, <2>4
<1> QED
  BY <1>3, <1>4

(* A product of the calculation, written in another order.                 *)
LEMMA Products ==
  ASSUME NEW m \in Nat, NEW t \in Nat, NEW d \in Nat
  PROVE  /\ 10 * m * d = 10 * (m * d)
         /\ 7 * t * (d + 1) = 7 * (t * (d + 1))
         /\ t * (d + 1) = t * d + t
OBVIOUS

(* A load that makes the calculation give up one of d + 1 replicas is so   *)
(* small that d replicas carry it when it has grown by nine tenths.        *)
LEMMA Slack ==
  ASSUME NEW m \in Nat, NEW t \in Nat \ {0}, NEW d \in Nat, NEW l \in Nat,
         d >= 2, 10 * (m * d) <= 7 * (t * (d + 1)), 10 * l <= 19 * m
  PROVE  l <= t * d
<1> SUFFICES ASSUME l > t * d PROVE FALSE
  OBVIOUS
<1>1. PICK x \in Nat : x = t * d
  OBVIOUS
<1>2. PICK y \in Nat : y = m * d
  OBVIOUS
<1>3. t * (d + 1) = x + t
  BY <1>1, Products
<1>4. 10 * y <= 7 * x + 7 * t
  BY <1>2, <1>3
<1>5. 2 * t <= x
  <2>1. 2 * t <= d * t
    BY Monotone
  <2> QED
    BY <1>1, <2>1
<1>6. (10 * l) * d <= (19 * m) * d
  BY Monotone
<1>7. (10 * l) * d = 10 * (l * d) /\ (19 * m) * d = 19 * y
  BY <1>2
<1>8. PICK z \in Nat : z = l * d
  OBVIOUS
<1>9. 100 * z <= 133 * x + 133 * t
  BY <1>4, <1>6, <1>7, <1>8
<1>10. (x + 1) * d <= l * d
  BY <1>1, Monotone
<1>11. (x + 1) * d = x * d + d
  OBVIOUS
<1>12. 2 * x <= d * x
  BY Monotone
<1>13. z >= 2 * x + 2
  BY <1>8, <1>10, <1>11, <1>12
<1> QED
  BY <1>5, <1>9, <1>13

LEMMA CeilingBelow ==
  ASSUME NEW l \in Nat \ {0}, NEW t \in Nat \ {0}, NEW d \in Nat, l <= t * d
  PROVE  (l + t - 1) \div t <= d
<1> PICK r \in Nat : r = (l + t - 1) \div t
  BY Ceiling
<1>1. r * t <= l + t - 1
  OBVIOUS
<1> SUFFICES ASSUME r >= d + 1 PROVE FALSE
  OBVIOUS
<1>2. (d + 1) * t <= r * t
  BY Monotone
<1>3. (d + 1) * t = t * d + t
  OBVIOUS
<1> QED
  BY <1>1, <1>2, <1>3

(* Replicas that are given up stay away until the load has nearly doubled. *)
LEMMA DesiredHasDeadBand ==
  ASSUME NEW s \in Admit(Submitted), NEW c \in Nat, NEW m \in Nat
  PROVE  HasDeadBand(s, c, m)
<1>0. s.min \in Nat /\ s.max \in Nat /\ s.target \in Nat \ {0} /\ s.min <= s.max
  BY AdmitFacts
<1> PICK n \in Nat : n = CalculateDesiredReplicas(s, c, m)
  BY DesiredType
<1> SUFFICES ASSUME c >= 3, m > 0, n < c, NEW l \in m..(19 * m) \div 10
             PROVE  CalculateDesiredReplicas(s, n, l) < c
  BY DEF HasDeadBand
<1>1. l \in Nat \ {0} /\ 10 * l <= 19 * m
  OBVIOUS
<1> PICK t \in Nat \ {0} : t = s.target
  BY <1>0
<1> PICK raw \in Nat : raw = (m + t - 1) \div t
  BY Ceiling
<1> PICK later \in Nat : later = (l + t - 1) \div t
  BY <1>1, Ceiling
<1>2. n = IF Suppressed(s, c, m, raw) THEN c ELSE Within(raw, s)
  BY DEF CalculateDesiredReplicas
<1>3. CalculateDesiredReplicas(s, n, l) =
        IF Suppressed(s, n, l, later) THEN n ELSE Within(later, s)
  BY <1>1 DEF CalculateDesiredReplicas
<1>4. ~Suppressed(s, c, m, raw) /\ n = Within(raw, s)
  BY <1>2
<1>5. CASE s.max < c
  BY <1>0, <1>3, <1>5 DEF Within
<1>6. CASE s.max >= c
  <2>1. raw <= n /\ s.min <= n
    BY <1>0, <1>4, <1>6 DEF Within
  <2>2. 10 * m * (c - 1) <= 7 * t * c
    <3>1. ~(10 * m * (c - 1) > 7 * t * c)
      BY <1>4, <2>1 DEF Suppressed
    <3>2. 10 * m * (c - 1) \in Int /\ 7 * t * c \in Int
      OBVIOUS
    <3> QED
      BY <3>1, <3>2
  <2> PICK d \in Nat : d = c - 1
    OBVIOUS
  <2>3. 10 * (m * d) <= 7 * (t * (d + 1))
    <3>1. c = d + 1
      OBVIOUS
    <3>2. 10 * m * d <= 7 * t * (d + 1)
      BY <2>2, <3>1
    <3>3. 10 * m * d = 10 * (m * d) /\ 7 * t * (d + 1) = 7 * (t * (d + 1))
      BY Products
    <3> QED
      BY <3>2, <3>3
  <2>4. d >= 2
    OBVIOUS
  <2>5. l <= t * d
    BY <1>1, <2>3, <2>4, Slack
  <2>6. later <= d
    BY <1>1, <2>5, CeilingBelow
  <2>7. Within(later, s) < c
    BY <1>0, <1>6, <2>1, <2>6 DEF Within
  <2> QED
    BY <1>3, <2>7
<1> QED
  BY <1>0, <1>5, <1>6

(* The replicas asked for settle in every reachable state: a consequence   *)
(* of the types alone, whatever the spec, the load and the present number. *)
LEMMA TypesSettle == TypeOK => ScalingSettles
<1> SUFFICES ASSUME TypeOK, NEW s \in Admit(Submitted), NEW metric \in 0..4 * s.target
             PROVE  Settles(s, dep.replicas, metric) /\ HasDeadBand(s, dep.replicas, metric)
  BY DEF ScalingSettles
<1>1. dep.replicas \in Nat
  BY DEF TypeOK, Deployments
<1>2. metric \in Nat
  BY AdmitFacts
<1>3. Settles(s, dep.replicas, metric)
  BY <1>1, <1>2, DesiredSettles DEF Settles
<1> QED
  BY <1>1, <1>2, <1>3, DesiredHasDeadBand

-----------------------------------------------------------------------------
(* The fields of an object and of a Deployment.                            *)
LEMMA ObjectFields ==
  ASSUME NEW o \in Objects
  PROVE  /\ o.gone \in BOOLEAN /\ o.deleting \in BOOLEAN /\ o.finalizer \in BOOLEAN
         /\ o.spec \in Admit(Submitted) /\ o.restarts \in Nat
         /\ o.since \in {"none", "fresh", "old", "malformed"}
         /\ o.phase \in Phases /\ o.backend \in {"", "gpu", "bedrock"}
BY DEF Objects

LEMMA DeploymentFields ==
  ASSUME NEW d \in Deployments
  PROVE  /\ d.exists \in BOOLEAN /\ d.service \in BOOLEAN
         /\ d.replicas \in Nat /\ d.memory \in 0..MaxMemory
BY DEF Deployments

LEMMA NewType ==
  ASSUME NEW s \in Admit(Submitted)
  PROVE  New(s) \in Objects /\ New(s).restarts = 0 /\ New(s).gone = FALSE
         /\ New(s).finalizer = FALSE
BY DEF New, Objects, Phases

LEMMA NoObjectType == NoObject \in Objects /\ NoObject.restarts = 0
BY NewType DEF NoObject

(* The initial state.                                                      *)
LEMMA InitHolds == Init => OperatorInv
<1> SUFFICES ASSUME Init PROVE OperatorInv
  OBVIOUS
<1> PICK s \in Admit(Submitted) :
      /\ ais = New(s)
      /\ dep = [exists |-> FALSE, image |-> s.image, replicas |-> 0, memory |-> 0,
                service |-> FALSE]
  BY DEF Init
<1>1. ais \in Objects /\ ais.restarts = 0 /\ ais.gone = FALSE /\ ais.finalizer = FALSE
  BY NewType
<1>2. dep \in Deployments
  BY AdmitFacts DEF Deployments
<1>3. TypeOK
  <2>1. seen \in Objects /\ obj \in Objects /\ depSeen \in Deployments
    BY <1>1, <1>2, NoObjectType DEF Init
  <2> QED
    <3>1. /\ seenCurrent = TRUE /\ objCurrent = FALSE /\ depCurrent = TRUE
          /\ bumped = FALSE /\ alerted = FALSE /\ cleaned = FALSE
          /\ seen = ais /\ depSeen = dep
      BY DEF Init
    <3>2. /\ pc = "idle" /\ want = 0 /\ choice = "nothing" /\ ready = 0
          /\ failure = "none" /\ uncounted = 0 /\ setBack = 0 /\ upsets = 0
      BY DEF Init
    <3>3. /\ seenCurrent \in BOOLEAN /\ objCurrent \in BOOLEAN /\ depCurrent \in BOOLEAN
          /\ bumped \in BOOLEAN /\ alerted \in BOOLEAN /\ cleaned \in BOOLEAN
      BY <3>1
    <3>4. /\ want \in Nat /\ ready \in 0..1 /\ uncounted \in Nat /\ setBack \in Nat
          /\ upsets \in 0..MaxUpsets
      BY <3>2
    <3>5. /\ failure \in {"none"} \cup Terminations
          /\ pc \in {"idle", "deployment", "service", "heal", "fallback", "status"}
          /\ choice \in {"nothing", "recover", "clear", "start", "fallback", "wait"}
      BY <3>2
    <3> QED
      BY <1>1, <1>2, <2>1, <3>1, <3>3, <3>4, <3>5 DEF TypeOK
<1> QED
  BY <1>1, <1>3
  DEF Init, OperatorInv, CopyInv, CountInv, WasStored, ChoiceInv, FinalizerInv,
      RaisesAreCounted, DegradedAlertIsTrue

(* The end of a pass keeps the invariant when its last write stores no     *)
(* smaller count, and a greater one where the pass has raised the limit.   *)
LEMMA EndKeepsInv ==
  ASSUME OperatorInv, pc # "idle", NEW stored \in BOOLEAN, StopPass(stored),
         ais' \in Objects, seen' \in Objects, seen' = seen \/ seen' = ais',
         seenCurrent' \in BOOLEAN, seenCurrent' => seen' = ais',
         ais'.restarts >= ais.restarts,
         stored /\ bumped => ais'.restarts > ais.restarts,
         ais'.finalizer = ais.finalizer, ais'.gone = ais.gone,
         dep' \in Deployments, depSeen' \in Deployments,
         depCurrent' \in BOOLEAN, depCurrent' => depSeen' = dep',
         dep'.memory = dep.memory, upsets' \in 0..MaxUpsets,
         UNCHANGED <<pods, alerted, cleaned, setBack>>
  PROVE  OperatorInv'
<1> USE DEF OperatorInv
<1>0. /\ bumped \in BOOLEAN /\ objCurrent \in BOOLEAN
      /\ ais.restarts \in Nat /\ ais'.restarts \in Nat /\ seen.restarts \in Nat
      /\ dep.memory \in Nat /\ uncounted \in Nat /\ setBack \in Nat
  <2>1. ais \in Objects /\ seen \in Objects /\ dep \in Deployments
    BY DEF TypeOK
  <2>2. dep.memory \in 0..MaxMemory
    BY <2>1, DeploymentFields
  <2>3. ais.restarts \in Nat /\ ais'.restarts \in Nat /\ seen.restarts \in Nat
    BY <2>1, ObjectFields
  <2> QED
    BY <2>2, <2>3 DEF TypeOK
<1>1. TypeOK'
  <2>1. obj' \in Objects
    BY NoObjectType DEF StopPass
  <2>2. /\ pc' = "idle" /\ objCurrent' = FALSE /\ bumped' = FALSE /\ want' = 0
        /\ choice' = "nothing" /\ uncounted' \in Nat
    BY <1>0 DEF StopPass
  <2> QED
    BY <2>1, <2>2 DEF TypeOK, pods
<1>2. CopyInv' /\ ChoiceInv'
  BY DEF StopPass, CopyInv, ChoiceInv
<1>3. CountInv'
  BY <1>0 DEF StopPass, CountInv, WasStored
<1>4. FinalizerInv'
  BY DEF FinalizerInv
<1>5. RaisesAreCounted'
  BY <1>0 DEF StopPass, RaisesAreCounted
<1>6. DegradedAlertIsTrue'
  <2> SUFFICES ASSUME alerted PROVE DegradedAlertIsTrue'
    BY DEF DegradedAlertIsTrue
  <2> PICK s \in Admit(Submitted) :
        /\ s.heal = "restart"
        /\ ais.restarts >= MaxAttempts(s) \/ setBack >= MaxAttempts(s)
    BY DEF DegradedAlertIsTrue
  <2>1. MaxAttempts(s) \in Int
    BY AdmitFacts DEF MaxAttempts, SpecType, DefaultMaxRestartAttempts
  <2> QED
    BY <1>0, <2>1 DEF DegradedAlertIsTrue
<1> QED
  BY <1>1, <1>2, <1>3, <1>4, <1>5, <1>6

(* What a status update from the copy of the pass leaves in the API server *)
(* and in the cache: it stores no smaller count of repairs.                *)
LEMMA UpdateFacts ==
  ASSUME OperatorInv, NEW o \in Objects, UpdateStatus(o),
         o.gone = obj.gone, o.deleting = obj.deleting, o.finalizer = obj.finalizer,
         o.spec = obj.spec, o.since = obj.since, o.restarts >= obj.restarts
  PROVE  /\ ais' \in Objects /\ seen' = seen
         /\ seenCurrent' \in BOOLEAN /\ (seenCurrent' => seen' = ais')
         /\ ais'.restarts >= ais.restarts
         /\ objCurrent /\ bumped => ais'.restarts > ais.restarts
         /\ ais'.finalizer = ais.finalizer /\ ais'.gone = ais.gone
         /\ ais' = IF objCurrent THEN o ELSE ais
<1> USE DEF OperatorInv
<1>1. /\ seenCurrent \in BOOLEAN /\ objCurrent \in BOOLEAN /\ bumped \in BOOLEAN
      /\ ais \in Objects /\ seen \in Objects /\ obj \in Objects
      /\ seenCurrent => seen = ais
  BY DEF TypeOK
<1>2. /\ ais.restarts \in Nat /\ obj.restarts \in Nat /\ o.restarts \in Nat
  BY <1>1, ObjectFields
<1>3. CASE objCurrent
  <2>1. ais' = o /\ seen' = seen /\ seenCurrent' = (seenCurrent /\ o = ais)
    BY <1>3 DEF UpdateStatus, Put
  <2>2. /\ obj.finalizer = ais.finalizer /\ obj.gone = ais.gone
        /\ obj.restarts >= ais.restarts /\ (bumped => obj.restarts > ais.restarts)
    BY <1>3 DEF CopyInv
  <2>3. seenCurrent' \in BOOLEAN /\ (seenCurrent' => seen' = ais')
    BY <1>1, <2>1
  <2> QED
    BY <1>2, <1>3, <2>1, <2>2, <2>3
<1>4. CASE ~objCurrent
  BY <1>1, <1>2, <1>4 DEF UpdateStatus, object
<1> QED
  BY <1>3, <1>4

(* A failing step makes the object Degraded and ends the pass.             *)
LEMMA DegradeKeepsInv ==
  ASSUME OperatorInv, pc # "idle", Degrade, UNCHANGED <<deployment, pods, alerted, cleaned, setBack>>,
         upsets' \in 0..MaxUpsets
  PROVE  OperatorInv'
<1> USE DEF OperatorInv
<1> DEFINE o == [obj EXCEPT !.phase = "Degraded"]
<1>1. obj \in Objects /\ objCurrent \in BOOLEAN
  BY DEF TypeOK
<1>2. /\ o \in Objects /\ o.gone = obj.gone /\ o.deleting = obj.deleting
      /\ o.finalizer = obj.finalizer /\ o.spec = obj.spec /\ o.since = obj.since
      /\ o.restarts = obj.restarts
  BY <1>1 DEF Objects, Phases
<1>3. obj.restarts \in Nat
  BY <1>1, ObjectFields
<1>4. UpdateStatus(o) /\ StopPass(objCurrent)
  BY DEF Degrade
<1> HIDE DEF o
<1>5. /\ ais' \in Objects /\ seen' = seen
      /\ seenCurrent' \in BOOLEAN /\ (seenCurrent' => seen' = ais')
      /\ ais'.restarts >= ais.restarts
      /\ objCurrent /\ bumped => ais'.restarts > ais.restarts
      /\ ais'.finalizer = ais.finalizer /\ ais'.gone = ais.gone
  BY <1>2, <1>3, <1>4, UpdateFacts
<1>6. /\ dep' = dep /\ depSeen' = depSeen /\ depCurrent' = depCurrent
      /\ dep \in Deployments /\ depSeen \in Deployments /\ depCurrent \in BOOLEAN
      /\ (depCurrent => depSeen = dep) /\ seen \in Objects
  BY DEF TypeOK, deployment
<1> QED
  <2>1. dep'.memory = dep.memory /\ (depCurrent' => depSeen' = dep')
    BY <1>6
  <2>2. seen' \in Objects /\ (seen' = seen \/ seen' = ais')
    BY <1>5, <1>6
  <2> QED
    BY <1>1, <1>4, <1>5, <1>6, <2>1, <2>2, EndKeepsInv

-----------------------------------------------------------------------------
(* The numbers that the invariant compares.                                *)
LEMMA Numbers ==
  ASSUME TypeOK
  PROVE  /\ ais \in Objects /\ seen \in Objects /\ obj \in Objects
         /\ dep \in Deployments /\ depSeen \in Deployments
         /\ ais.restarts \in Nat /\ seen.restarts \in Nat /\ obj.restarts \in Nat
         /\ dep.memory \in Nat /\ uncounted \in Nat /\ setBack \in Nat
         /\ \A s \in Admit(Submitted) : MaxAttempts(s) \in Int
<1>1. /\ ais \in Objects /\ seen \in Objects /\ obj \in Objects
      /\ dep \in Deployments /\ depSeen \in Deployments /\ uncounted \in Nat
      /\ setBack \in Nat
  BY DEF TypeOK
<1>2. dep.memory \in 0..MaxMemory
  BY <1>1, DeploymentFields
<1>3. \A s \in Admit(Submitted) : MaxAttempts(s) \in Int
  BY AdmitFacts DEF MaxAttempts, SpecType, DefaultMaxRestartAttempts
<1> QED
  <2>1. ais.restarts \in Nat /\ seen.restarts \in Nat /\ obj.restarts \in Nat
    BY <1>1, ObjectFields
  <2>2. dep.memory \in Nat
    BY <1>2
  <2> QED
    BY <1>1, <1>3, <2>1, <2>2

(* A greater count leaves the alert true.                                  *)
LEMMA AlertStaysTrue ==
  ASSUME TypeOK, DegradedAlertIsTrue, ais' \in Objects,
         ais'.restarts >= ais.restarts, alerted' = alerted, setBack' = setBack
  PROVE  DegradedAlertIsTrue'
<1>1. ais.restarts \in Nat /\ ais'.restarts \in Nat
      /\ \A s \in Admit(Submitted) : MaxAttempts(s) \in Int
  BY Numbers, ObjectFields
<1> QED
  BY <1>1 DEF DegradedAlertIsTrue

(* Between passes: the finalizer, the clean-up, and the caches.            *)
LEMMA HandleDeletionKeepsInv == OperatorInv /\ HandleDeletion => OperatorInv'
<1> SUFFICES ASSUME OperatorInv, HandleDeletion PROVE OperatorInv'
  OBVIOUS
<1> USE DEF OperatorInv
<1>1. /\ pc = "idle" /\ seen = ais /\ cleaned' = TRUE /\ seen' = seen
      /\ ais' = [ais EXCEPT !.finalizer = FALSE, !.gone = TRUE]
      /\ seenCurrent' = (seenCurrent /\ ais' = ais)
      /\ UNCHANGED <<pass, deployment, pods, alerted, uncounted, setBack, upsets>>
  BY DEF HandleDeletion, Reconcilable, Put, TypeOK
<1>2. ais \in Objects /\ ais.restarts \in Nat /\ seen.restarts \in Nat
  BY Numbers
<1>3. /\ ais' \in Objects /\ ais'.restarts = ais.restarts /\ ais'.finalizer = FALSE
  BY <1>1, <1>2 DEF Objects
<1>4. seenCurrent' \in BOOLEAN /\ (seenCurrent' => seen' = ais')
  BY <1>1 DEF TypeOK
<1>5. TypeOK'
  BY <1>1, <1>3, <1>4 DEF TypeOK, pass, deployment, pods
<1>6. CopyInv' /\ ChoiceInv' /\ CountInv'
  BY <1>1, <1>2, <1>3 DEF CopyInv, ChoiceInv, CountInv, WasStored, pass
<1>7. FinalizerInv' /\ RaisesAreCounted'
  BY <1>1, <1>3 DEF FinalizerInv, RaisesAreCounted, pass, deployment
<1>8. DegradedAlertIsTrue'
  BY <1>1, <1>2, <1>3, AlertStaysTrue
<1> QED
  BY <1>5, <1>6, <1>7, <1>8

LEMMA AddFinalizerKeepsInv == OperatorInv /\ AddFinalizer => OperatorInv'
<1> SUFFICES ASSUME OperatorInv, AddFinalizer PROVE OperatorInv'
  OBVIOUS
<1> USE DEF OperatorInv
<1>1. /\ pc = "idle" /\ seen = ais /\ seen' = seen /\ ~ais.gone
      /\ ais' = [ais EXCEPT !.finalizer = TRUE]
      /\ seenCurrent' = (seenCurrent /\ ais' = ais)
      /\ UNCHANGED <<pass, deployment, pods, alerted, cleaned, uncounted, setBack, upsets>>
  BY DEF AddFinalizer, Reconcilable, Put, TypeOK, history
<1>2. ais \in Objects /\ ais.restarts \in Nat /\ seen.restarts \in Nat
  BY Numbers
<1>3. /\ ais' \in Objects /\ ais'.restarts = ais.restarts /\ ais'.finalizer = TRUE
      /\ ais'.gone = ais.gone
  BY <1>1, <1>2 DEF Objects
<1>4. seenCurrent' \in BOOLEAN /\ (seenCurrent' => seen' = ais')
  BY <1>1 DEF TypeOK
<1>5. TypeOK'
  BY <1>1, <1>3, <1>4 DEF TypeOK, pass, deployment, pods
<1>6. CopyInv' /\ ChoiceInv' /\ CountInv'
  BY <1>1, <1>2, <1>3 DEF CopyInv, ChoiceInv, CountInv, WasStored, pass
<1>7. FinalizerInv' /\ RaisesAreCounted'
  BY <1>1, <1>3 DEF FinalizerInv, RaisesAreCounted, pass, deployment
<1>8. DegradedAlertIsTrue'
  BY <1>1, <1>2, <1>3, AlertStaysTrue
<1> QED
  BY <1>5, <1>6, <1>7, <1>8

(* A pass begins with the cached object, which has its finalizer.          *)
LEMMA StartPassKeepsInv == OperatorInv /\ StartPass => OperatorInv'
<1> SUFFICES ASSUME OperatorInv, StartPass PROVE OperatorInv'
  OBVIOUS
<1> USE DEF OperatorInv
<1>1. /\ pc' = "deployment" /\ obj' = seen /\ objCurrent' = seenCurrent
      /\ bumped' = FALSE /\ choice' = "nothing" /\ seen.finalizer
      /\ UNCHANGED <<object, deployment, pods, alerted, cleaned, uncounted, setBack>>
  BY DEF StartPass, history
<1>2. want' \in Nat /\ upsets' \in 0..MaxUpsets
  <2>1. /\ seen.spec \in Admit(Submitted) /\ depSeen.replicas \in Nat
        /\ seen.spec.min \in Nat
    BY Numbers, ObjectFields, DeploymentFields, AdmitFacts
  <2>2. upsets' \in 0..MaxUpsets
    BY DEF StartPass, EvaluateScaling, Upset, TypeOK
  <2>3. \A metric \in Fetched : metric \in Int
    BY DEF Fetched
  <2> DEFINE current == IF depSeen.exists THEN depSeen.replicas ELSE seen.spec.min
  <2>4. current \in Nat
    BY <2>1
  <2>5. \/ want' = seen.spec.min
        \/ \E metric \in Fetched :
             want' = CalculateDesiredReplicas(seen.spec, current, metric)
    BY DEF StartPass, EvaluateScaling
  <2> HIDE DEF current
  <2> QED
    BY <2>1, <2>2, <2>3, <2>4, <2>5, DesiredType
<1>3. TypeOK'
  BY <1>1, <1>2 DEF TypeOK, object, deployment, pods
<1>4. CopyInv'
  BY <1>1, Numbers DEF CopyInv, TypeOK, object
<1>5. CountInv' /\ ChoiceInv' /\ FinalizerInv'
  BY <1>1 DEF CountInv, WasStored, ChoiceInv, FinalizerInv, object, deployment
<1>6. RaisesAreCounted' /\ DegradedAlertIsTrue'
  <2>1. ~bumped
    BY DEF StartPass, Reconcilable, CountInv
  <2> QED
    BY <1>1, <2>1 DEF RaisesAreCounted, DegradedAlertIsTrue, object, deployment
<1> QED
  BY <1>3, <1>4, <1>5, <1>6

-----------------------------------------------------------------------------
(* The Deployment and the Service are made as wanted, with the limit of    *)
(* memory as it is: only an up-to-date copy is put over what is there.     *)
LEMMA MakeKeepsInv ==
  ASSUME OperatorInv, pc \in {"deployment", "service"}, pc' \in {"service", "heal"},
         dep' \in Deployments, depSeen' = depSeen, depCurrent' \in BOOLEAN,
         depCurrent' => depSeen' = dep', dep'.memory = dep.memory,
         UNCHANGED <<object, obj, objCurrent, want, bumped, choice, pods, history, upsets>>
  PROVE  OperatorInv'
<1> USE DEF OperatorInv
<1>1. TypeOK'
  BY DEF TypeOK, object, pods, history
<1>2. CopyInv' /\ ChoiceInv'
  BY DEF CopyInv, ChoiceInv, object
<1>3. CountInv' /\ FinalizerInv'
  BY DEF CountInv, WasStored, FinalizerInv, object, history
<1>4. RaisesAreCounted' /\ DegradedAlertIsTrue'
  BY DEF RaisesAreCounted, DegradedAlertIsTrue, object, history
<1> QED
  BY <1>1, <1>2, <1>3, <1>4

LEMMA ReconcileDeploymentKeepsInv == OperatorInv /\ ReconcileDeployment => OperatorInv'
<1> SUFFICES ASSUME OperatorInv, ReconcileDeployment PROVE OperatorInv'
  OBVIOUS
<1> USE DEF OperatorInv
<1> DEFINE fits == depSeen.image = obj.spec.image /\ depSeen.replicas = want
           desired == [IF depSeen.exists THEN depSeen ELSE dep EXCEPT
                         !.exists = TRUE, !.image = obj.spec.image, !.replicas = want]
           accepted == IF depSeen.exists THEN fits \/ depCurrent ELSE ~dep.exists
<1>1. pc = "deployment" /\ UNCHANGED <<pods, alerted, cleaned, setBack>>
  BY DEF ReconcileDeployment
<1>2. CASE /\ accepted
           /\ IF depSeen.exists /\ fits THEN UNCHANGED deployment
                                        ELSE PutDeployment(desired)
           /\ pc' = "service"
           /\ UNCHANGED <<object, obj, objCurrent, want, bumped, choice, uncounted, upsets>>
  <2>1. CASE UNCHANGED deployment
    BY <1>1, <1>2, <2>1, MakeKeepsInv DEF deployment, history, TypeOK
  <2>2. CASE ~(depSeen.exists /\ fits)
    <3> DEFINE base == IF depSeen.exists THEN depSeen ELSE dep
    <3>1. base \in Deployments /\ base.memory = dep.memory
      BY <1>2, <2>2, Numbers DEF TypeOK
    <3>2. obj.spec.image \in {s.image : s \in Submitted} /\ want \in Nat
      BY Numbers, ObjectFields, AdmitFacts DEF TypeOK
    <3>3. dep' = [base EXCEPT !.exists = TRUE, !.image = obj.spec.image, !.replicas = want]
          /\ depCurrent' = FALSE /\ depSeen' = depSeen
      BY <1>2, <2>2 DEF PutDeployment
    <3> HIDE DEF base
    <3>4. dep' \in Deployments /\ dep'.memory = dep.memory
      BY <3>1, <3>2, <3>3 DEF Deployments
    <3> QED
      BY <1>1, <1>2, <3>3, <3>4, MakeKeepsInv DEF history
  <2> QED
    BY <1>2, <2>1, <2>2
<1>3. CASE ~accepted /\ Degrade /\ UNCHANGED <<deployment, upsets>>
  BY <1>1, <1>3, DegradeKeepsInv DEF TypeOK
<1>4. CASE Upset /\ Degrade /\ UNCHANGED deployment
  <2>1. upsets' \in 0..MaxUpsets
    BY <1>4 DEF Upset, TypeOK
  <2> QED
    BY <1>1, <1>4, <2>1, DegradeKeepsInv
<1> QED
  BY <1>2, <1>3, <1>4 DEF ReconcileDeployment

LEMMA ReconcileServiceKeepsInv == OperatorInv /\ ReconcileService => OperatorInv'
<1> SUFFICES ASSUME OperatorInv, ReconcileService PROVE OperatorInv'
  OBVIOUS
<1> USE DEF OperatorInv
<1>1. pc = "service" /\ UNCHANGED <<pods, alerted, cleaned, setBack>>
  BY DEF ReconcileService
<1>2. CASE /\ depSeen.service \/ ~dep.service
           /\ IF depSeen.service THEN UNCHANGED deployment
                                 ELSE PutDeployment([dep EXCEPT !.service = TRUE])
           /\ pc' = "heal"
           /\ UNCHANGED <<object, obj, objCurrent, want, bumped, choice, uncounted, upsets>>
  <2>1. CASE UNCHANGED deployment
    BY <1>1, <1>2, <2>1, MakeKeepsInv DEF deployment, history, TypeOK
  <2>2. CASE PutDeployment([dep EXCEPT !.service = TRUE])
    <3>1. dep' \in Deployments /\ dep'.memory = dep.memory
      BY <2>2, Numbers DEF PutDeployment, Deployments
    <3> QED
      BY <1>1, <1>2, <2>2, <3>1, MakeKeepsInv DEF PutDeployment, history
  <2> QED
    BY <1>2, <2>1, <2>2
<1>3. CASE Degrade /\ UNCHANGED <<deployment, upsets>>
  BY <1>1, <1>3, DegradeKeepsInv DEF TypeOK
<1>4. CASE Upset /\ Degrade /\ UNCHANGED deployment
  <2>1. upsets' \in 0..MaxUpsets
    BY <1>4 DEF Upset, TypeOK
  <2> QED
    BY <1>1, <1>4, <2>1, DegradeKeepsInv
<1> QED
  BY <1>2, <1>3, <1>4 DEF ReconcileService

-----------------------------------------------------------------------------
LEMMA CountFacts ==
  ASSUME NEW o \in Objects, NEW q, q = [o EXCEPT !.restarts = @ + 1]
  PROVE  /\ q \in Objects
         /\ q.gone = o.gone /\ q.deleting = o.deleting
         /\ q.finalizer = o.finalizer /\ q.spec = o.spec
         /\ q.since = o.since /\ q.phase = o.phase
         /\ q.backend = o.backend /\ q.restarts = o.restarts + 1
<1>0. o.restarts \in Nat
  BY ObjectFields
<1> PICK n \in Nat : n = o.restarts + 1
  BY <1>0
<1>1. q = [o EXCEPT !.restarts = n]
  OBVIOUS
<1> QED
  BY <1>1 DEF Objects

(* Self-healing without a write to the object: the pass counts a repair in *)
(* its copy, and one that raised the limit has counted it.                 *)
LEMMA RepairKeepsInv ==
  ASSUME OperatorInv, pc = "heal", pc' = "fallback", obj' \in Objects,
         obj' = obj \/ obj' = [obj EXCEPT !.restarts = @ + 1],
         bumped' \in BOOLEAN, bumped' => obj'.restarts > obj.restarts,
         dep' \in Deployments, depSeen' = depSeen, depCurrent' \in BOOLEAN,
         depCurrent' => depSeen' = dep', dep'.exists => dep.exists \/ depSeen.exists,
         dep'.memory <= dep.memory + (IF bumped' THEN 1 ELSE 0),
         upsets' \in 0..MaxUpsets,
         UNCHANGED <<object, objCurrent, want, choice, pods, history>>
  PROVE  OperatorInv'
<1> USE DEF OperatorInv
<1>1. /\ obj'.gone = obj.gone /\ obj'.deleting = obj.deleting
      /\ obj'.finalizer = obj.finalizer /\ obj'.spec = obj.spec
      /\ obj'.since = obj.since /\ obj'.phase = obj.phase
      /\ obj'.backend = obj.backend /\ obj'.restarts >= obj.restarts
  <2>1. obj \in Objects /\ obj.restarts \in Nat
    BY Numbers
  <2>2. CASE obj' = obj
    BY <2>1, <2>2
  <2>3. CASE obj' = [obj EXCEPT !.restarts = @ + 1]
    <3> PICK q : q = [obj EXCEPT !.restarts = @ + 1]
      OBVIOUS
    <3> QED
      BY <2>1, <2>3, CountFacts
  <2> QED
    BY <2>2, <2>3
<1>2. obj.restarts \in Nat /\ obj'.restarts \in Nat /\ ais.restarts \in Nat
      /\ dep.memory \in Nat /\ dep'.memory \in Nat /\ uncounted \in Nat
  <2>1. dep'.memory \in 0..MaxMemory
    BY DeploymentFields
  <2> QED
    <3>1. dep'.memory \in Nat
      BY <2>1
    <3>2. obj'.restarts \in Nat
      BY ObjectFields
    <3> QED
      BY <3>1, <3>2, Numbers
<1>3. ~bumped
  BY DEF CountInv, WasStored
<1>4. TypeOK'
  BY DEF TypeOK, object, pods, history
<1>5. CopyInv'
  BY <1>1, <1>2, <1>3 DEF CopyInv, object
<1>6. CountInv' /\ ChoiceInv' /\ FinalizerInv'
  BY <1>1 DEF CountInv, WasStored, ChoiceInv, FinalizerInv, object, history
<1>7. RaisesAreCounted' /\ DegradedAlertIsTrue'
  BY <1>2, <1>3 DEF RaisesAreCounted, DegradedAlertIsTrue, object, history
<1> QED
  BY <1>4, <1>5, <1>6, <1>7

(* The alert comes when the count in the copy, which was stored, has       *)
(* reached the limit of the spec.                                          *)
LEMMA GiveUpKeepsInv ==
  ASSUME OperatorInv, pc = "heal", pc' = "fallback", NotifyDegraded,
         obj.spec.heal = "restart", obj.restarts >= MaxAttempts(obj.spec),
         NEW o, o = [obj EXCEPT !.phase = "Degraded"], obj' = o, UpdateStatus(o),
         UNCHANGED <<bumped, deployment, upsets, objCurrent, want, choice, pods, cleaned, uncounted, setBack>>
  PROVE  OperatorInv'
<1> USE DEF OperatorInv
<1>1. /\ o \in Objects
      /\ o.gone = obj.gone /\ o.deleting = obj.deleting
      /\ o.finalizer = obj.finalizer /\ o.spec = obj.spec
      /\ o.since = obj.since /\ o.restarts = obj.restarts
  BY Numbers DEF Objects, Phases
<1>2. obj.restarts \in Nat /\ ais.restarts \in Nat /\ seen.restarts \in Nat
  BY Numbers
<1>3. /\ ais' \in Objects /\ seen' = seen
      /\ seenCurrent' \in BOOLEAN /\ (seenCurrent' => seen' = ais')
      /\ ais'.restarts >= ais.restarts
      /\ ais'.finalizer = ais.finalizer /\ ais'.gone = ais.gone
      /\ ais' = IF objCurrent THEN o ELSE ais
  <2>1. o.restarts >= obj.restarts
    BY <1>1, <1>2
  <2> QED
    BY <1>1, <2>1, UpdateFacts
<1>4. ais'.restarts \in Nat /\ ~bumped
  BY <1>3, ObjectFields DEF CountInv, WasStored
<1>5. TypeOK'
  BY <1>1, <1>3 DEF TypeOK, deployment, pods, NotifyDegraded
<1>6. CopyInv'
  BY <1>1, <1>2, <1>3, <1>4 DEF CopyInv
<1>7. CountInv' /\ ChoiceInv' /\ FinalizerInv'
  BY <1>1, <1>2, <1>3, <1>4 DEF CountInv, WasStored, ChoiceInv, FinalizerInv, deployment
<1>8. RaisesAreCounted'
  BY <1>2, <1>3, <1>4, Numbers DEF RaisesAreCounted, deployment
<1>9. DegradedAlertIsTrue'
  <2>1. obj.spec \in Admit(Submitted) /\ MaxAttempts(obj.spec) \in Int
    BY Numbers, ObjectFields
  <2>2. obj.restarts <= ais.restarts \/ obj.restarts <= setBack
    BY DEF CountInv, WasStored
  <2>3. ais'.restarts >= MaxAttempts(obj.spec) \/ setBack' >= MaxAttempts(obj.spec)
    BY <1>2, <1>3, <1>4, <2>1, <2>2, Numbers
  <2> QED
    BY <2>1, <2>3 DEF DegradedAlertIsTrue
<1> QED
  BY <1>5, <1>6, <1>7, <1>8, <1>9

LEMMA ReconcileSelfHealKeepsInv == OperatorInv /\ ReconcileSelfHeal => OperatorInv'
<1> SUFFICES ASSUME OperatorInv, ReconcileSelfHeal PROVE OperatorInv'
  OBVIOUS
<1> USE DEF OperatorInv
<1> DEFINE decision == IF obj.spec.heal = "none" \/ obj.phase = "Degraded" THEN "nothing"
                       ELSE HealDecision(obj.spec, obj.restarts, failure)
<1>1. /\ pc = "heal" /\ pc' = "fallback"
      /\ UNCHANGED <<objCurrent, want, choice, pods, cleaned, uncounted, setBack>>
  BY DEF ReconcileSelfHeal
<1>2. /\ obj \in Objects /\ dep \in Deployments /\ depCurrent \in BOOLEAN
      /\ (depCurrent => depSeen = dep) /\ upsets \in 0..MaxUpsets
      /\ bumped \in BOOLEAN /\ ~bumped /\ dep.memory \in Nat /\ obj.restarts \in Nat
  BY <1>1, Numbers DEF TypeOK, CountInv, WasStored
<1>3. [obj EXCEPT !.restarts = @ + 1] \in Objects
  BY <1>2, CountFacts
<1>4. CASE /\ decision = "degrade"
           /\ NotifyDegraded
           /\ obj' = [obj EXCEPT !.phase = "Degraded"]
           /\ UpdateStatus(obj')
           /\ UNCHANGED <<bumped, deployment, upsets>>
  <2>1. obj.spec.heal = "restart" /\ obj.restarts >= MaxAttempts(obj.spec)
    BY <1>4 DEF HealDecision
  <2> PICK o : o = [obj EXCEPT !.phase = "Degraded"]
    OBVIOUS
  <2>2. obj' = o /\ UpdateStatus(o)
    BY <1>4 DEF UpdateStatus, Put
  <2> QED
    BY <1>1, <1>4, <2>1, <2>2, GiveUpKeepsInv
<1>5. CASE BumpMemoryLimit /\ UNCHANGED <<object, alerted, upsets>>
  <2>1. /\ depSeen = dep /\ dep' = [dep EXCEPT !.memory = @ + 1]
        /\ depSeen' = depSeen /\ depCurrent' = FALSE /\ bumped' = TRUE
        /\ obj' = [obj EXCEPT !.restarts = @ + 1] /\ dep.memory < MaxMemory
    BY <1>2, <1>5 DEF BumpMemoryLimit, PutDeployment
  <2>2. dep' \in Deployments /\ dep'.memory = dep.memory + 1 /\ dep'.exists = dep.exists
    BY <1>2, <2>1 DEF Deployments
  <2>3. obj' \in Objects /\ obj'.restarts > obj.restarts
    BY <1>2, <1>3, <2>1, CountFacts
  <2>4. dep'.memory <= dep.memory + (IF bumped' THEN 1 ELSE 0)
    BY <1>2, <2>1, <2>2
  <2> QED
    BY <1>1, <1>2, <1>5, <2>1, <2>2, <2>3, <2>4, RepairKeepsInv DEF history
<1>6. CASE /\ obj' = obj \/ obj' = [obj EXCEPT !.restarts = @ + 1]
           /\ UNCHANGED <<object, bumped, deployment, alerted>>
           /\ UNCHANGED upsets \/ Upset
  <2>1. upsets' \in 0..MaxUpsets
    BY <1>2, <1>6 DEF Upset
  <2>2. dep'.memory <= dep.memory + (IF bumped' THEN 1 ELSE 0)
    BY <1>2, <1>6 DEF deployment
  <2> QED
    BY <1>1, <1>2, <1>3, <1>6, <2>1, <2>2, RepairKeepsInv DEF history, deployment
<1> QED
  BY <1>4, <1>5, <1>6 DEF ReconcileSelfHeal

-----------------------------------------------------------------------------
(* The fallback detector: the start of provisioning is stored or taken     *)
(* away and the pass ends, or its decision goes on to the status.          *)
LEMMA ReconcileFallbackKeepsInv == OperatorInv /\ ReconcileFallback => OperatorInv'
<1> SUFFICES ASSUME OperatorInv, ReconcileFallback PROVE OperatorInv'
  OBVIOUS
<1> USE DEF OperatorInv
<1> DEFINE decision == FallbackDecision(obj.spec, obj.since, obj.backend,
                                        IF depSeen.exists THEN ready ELSE 0)
<1>1. pc = "fallback" /\ UNCHANGED <<deployment, pods, alerted, cleaned, setBack>>
  BY DEF ReconcileFallback
<1>2. CASE /\ Put([ais EXCEPT !.since = IF decision = "start" THEN "fresh" ELSE "none"])
           /\ StopPass(FALSE) /\ UNCHANGED upsets
  <2> PICK t \in {"fresh", "none"} : Put([ais EXCEPT !.since = t])
    BY <1>2
  <2>1. ais \in Objects /\ seen \in Objects /\ seenCurrent \in BOOLEAN
    BY DEF TypeOK
  <2>2. /\ ais' \in Objects /\ ais'.finalizer = ais.finalizer /\ ais'.gone = ais.gone
        /\ ais'.restarts = ais.restarts /\ seen' = seen
    BY <2>1 DEF Put, Objects
  <2>3. seenCurrent' \in BOOLEAN /\ (seenCurrent' => seen' = ais')
    BY DEF Put, TypeOK
  <2>4. ais'.restarts >= ais.restarts
    BY <2>2, Numbers
  <2>5. /\ dep' \in Deployments /\ depSeen' \in Deployments /\ depCurrent' \in BOOLEAN
        /\ (depCurrent' => depSeen' = dep') /\ dep'.memory = dep.memory
        /\ upsets' \in 0..MaxUpsets
    BY <1>1, <1>2 DEF TypeOK, deployment
  <2> QED
    BY <1>1, <1>2, <2>1, <2>2, <2>3, <2>4, <2>5, EndKeepsInv
<1>3. CASE /\ UNCHANGED upsets \/ Upset
           /\ choice' = decision /\ pc' = "status"
           /\ UNCHANGED <<object, obj, objCurrent, want, bumped, uncounted>>
  <2>1. decision \in {"nothing", "recover", "clear", "start", "fallback", "wait"}
        /\ (decision = "fallback" => obj.since = "old")
    <3>1. obj.spec.fallback \in BOOLEAN
      BY Numbers, ObjectFields, AdmitFacts DEF SpecType
    <3>2. ready \in 0..1
      BY DEF TypeOK
    <3>3. (IF depSeen.exists THEN ready ELSE 0) \in 0..1
      BY <3>2
    <3> QED
      BY <3>1, <3>3 DEF FallbackDecision
  <2> HIDE DEF decision
  <2>2. upsets' \in 0..MaxUpsets
    BY <1>3 DEF Upset, TypeOK
  <2>3. TypeOK'
    BY <1>1, <1>3, <2>1, <2>2 DEF TypeOK, object, deployment, pods
  <2>4. CopyInv' /\ CountInv' /\ ChoiceInv' /\ FinalizerInv'
    BY <1>1, <1>3, <2>1 DEF CopyInv, CountInv, WasStored, ChoiceInv, FinalizerInv, object,
                           deployment
  <2>5. RaisesAreCounted' /\ DegradedAlertIsTrue'
    BY <1>1, <1>3 DEF RaisesAreCounted, DegradedAlertIsTrue, object, deployment
  <2> QED
    BY <2>3, <2>4, <2>5
<1> QED
  BY <1>2, <1>3 DEF ReconcileFallback

(* The last step writes the status of the copy, with the count it has.     *)
LEMMA NewStatusFacts ==
  ASSUME TypeOK
  PROVE  /\ NewStatus \in Objects
         /\ NewStatus.gone = obj.gone /\ NewStatus.deleting = obj.deleting
         /\ NewStatus.finalizer = obj.finalizer /\ NewStatus.spec = obj.spec
         /\ NewStatus.since = obj.since /\ NewStatus.restarts = obj.restarts
         /\ obj.phase = "Degraded" => NewStatus.phase = "Degraded"
         /\ obj.phase # "Fallback" /\ NewStatus.phase = "Fallback" => choice = "fallback"
<1>1. obj \in Objects /\ ready \in 0..1
  BY DEF TypeOK
<1>2. CASE obj.phase = "Degraded"
  BY <1>1, <1>2 DEF NewStatus
<1>3. CASE obj.phase # "Degraded"
  <2>1. \E p \in {"Fallback", "Running", "Provisioning"} : \E b \in {"", "gpu", "bedrock"} :
          /\ NewStatus = [obj EXCEPT !.phase = p, !.backend = b]
          /\ p = "Fallback" => choice = "fallback"
    <3>1. obj.backend \in {"", "gpu", "bedrock"}
          /\ [obj EXCEPT !.phase = "Provisioning"]
               = [obj EXCEPT !.phase = "Provisioning", !.backend = obj.backend]
      BY <1>1 DEF Objects
    <3>2. CASE choice = "fallback"
      BY <1>3, <3>2 DEF NewStatus
    <3>3. CASE choice = "recover"
      BY <1>3, <3>3 DEF NewStatus
    <3>4. CASE choice \notin {"fallback", "recover"} /\ ready > 0
      BY <1>3, <3>4 DEF NewStatus
    <3>5. CASE choice \notin {"fallback", "recover"} /\ ~(ready > 0)
      BY <1>3, <3>1, <3>5 DEF NewStatus
    <3> QED
      BY <3>2, <3>3, <3>4, <3>5
  <2> QED
    BY <1>1, <1>3, <2>1 DEF Objects, Phases
<1> QED
  BY <1>2, <1>3

LEMMA ReconcileStatusKeepsInv == OperatorInv /\ ReconcileStatus => OperatorInv'
<1> SUFFICES ASSUME OperatorInv, ReconcileStatus PROVE OperatorInv'
  OBVIOUS
<1> USE DEF OperatorInv
<1>1. pc = "status" /\ UNCHANGED <<deployment, pods, alerted, cleaned, setBack>>
  BY DEF ReconcileStatus
<1>2. /\ dep' \in Deployments /\ depSeen' \in Deployments /\ depCurrent' \in BOOLEAN
      /\ (depCurrent' => depSeen' = dep') /\ dep'.memory = dep.memory
      /\ seen \in Objects /\ objCurrent \in BOOLEAN
  BY <1>1 DEF TypeOK, deployment
<1>3. upsets' \in 0..MaxUpsets
  <2>1. upsets' = upsets \/ Upset
    BY DEF ReconcileStatus
  <2> QED
    BY <2>1 DEF Upset, TypeOK
<1>4. CASE UpdateStatus(NewStatus) /\ StopPass(objCurrent)
  <2>1. NewStatus.restarts >= obj.restarts
    BY NewStatusFacts, Numbers
  <2>2. /\ ais' \in Objects /\ seen' = seen
        /\ seenCurrent' \in BOOLEAN /\ (seenCurrent' => seen' = ais')
        /\ ais'.restarts >= ais.restarts
        /\ objCurrent /\ bumped => ais'.restarts > ais.restarts
        /\ ais'.finalizer = ais.finalizer /\ ais'.gone = ais.gone
    BY <1>4, <2>1, NewStatusFacts, UpdateFacts
  <2>3. seen' \in Objects
    BY <1>2, <2>2
  <2> QED
    BY <1>1, <1>2, <1>3, <1>4, <2>2, <2>3, EndKeepsInv
<1>5. CASE UNCHANGED object /\ StopPass(FALSE)
  <2>1. /\ ais' \in Objects /\ seen' \in Objects /\ seenCurrent' \in BOOLEAN
        /\ (seenCurrent' => seen' = ais') /\ ais' = ais /\ seen' = seen
        /\ ais'.restarts >= ais.restarts
    BY <1>5, Numbers DEF TypeOK, object
  <2> QED
    BY <1>1, <1>2, <1>3, <1>5, <2>1, EndKeepsInv
<1> QED
  BY <1>4, <1>5 DEF ReconcileStatus

-----------------------------------------------------------------------------
(* The surroundings.  The caches catch up, and a new leader starts with    *)
(* full ones.                                                              *)
LEMMA SyncKeepsInv == OperatorInv /\ (SyncObject \/ SyncDeployment) => OperatorInv'
<1> SUFFICES ASSUME OperatorInv, SyncObject \/ SyncDeployment PROVE OperatorInv'
  OBVIOUS
<1> USE DEF OperatorInv
<1>1. /\ UNCHANGED <<ais, pass, dep, pods, history, upsets>>
      /\ seen' \in Objects /\ (seen' = seen \/ seen' = ais)
      /\ depSeen' \in Deployments
      /\ seenCurrent' \in BOOLEAN /\ (seenCurrent' => seen' = ais)
      /\ depCurrent' \in BOOLEAN /\ (depCurrent' => depSeen' = dep)
  <2>1. CASE SyncObject
    <3>1. UNCHANGED <<depSeen, depCurrent, dep>> /\ seen' = ais /\ seenCurrent' = TRUE
      BY <2>1 DEF SyncObject, deployment
    <3> QED
      BY <2>1, <3>1 DEF SyncObject, TypeOK
  <2>2. CASE SyncDeployment
    <3>1. UNCHANGED <<ais, seen, seenCurrent>> /\ depSeen' = dep /\ depCurrent' = TRUE
      BY <2>2 DEF SyncDeployment, object
    <3> QED
      BY <2>2, <3>1 DEF SyncDeployment, TypeOK
  <2> QED
    BY <2>1, <2>2
<1>2. TypeOK'
  BY <1>1 DEF TypeOK, pass, pods, history
<1>3. CopyInv' /\ ChoiceInv'
  BY <1>1 DEF CopyInv, ChoiceInv, pass
<1>4. CountInv' /\ FinalizerInv'
  BY <1>1, Numbers DEF CountInv, WasStored, FinalizerInv, pass, history
<1>5. RaisesAreCounted' /\ DegradedAlertIsTrue'
  BY <1>1 DEF RaisesAreCounted, DegradedAlertIsTrue, pass, history
<1> QED
  BY <1>2, <1>3, <1>4, <1>5

LEMMA RestartKeepsInv == OperatorInv /\ Restart => OperatorInv'
<1> SUFFICES ASSUME OperatorInv, Restart PROVE OperatorInv'
  OBVIOUS
<1>1. /\ pc # "idle" /\ ais' = ais /\ dep' = dep /\ seen' = ais /\ depSeen' = dep
      /\ seenCurrent' = TRUE /\ depCurrent' = TRUE /\ StopPass(FALSE)
      /\ UNCHANGED <<pods, alerted, cleaned, setBack>>
  BY DEF Restart
<1>2. /\ ais \in Objects /\ dep \in Deployments /\ ais.restarts >= ais.restarts
      /\ upsets' \in 0..MaxUpsets
  <2>1. upsets' \in 0..MaxUpsets
    BY DEF Restart, Upset, OperatorInv, TypeOK
  <2> QED
    BY <2>1, Numbers DEF OperatorInv
<1> QED
  BY <1>1, <1>2, EndKeepsInv

(* The timeout elapses in every copy of the annotation alike.              *)
LEMMA AgeFacts ==
  ASSUME NEW o \in Objects
  PROVE  /\ Age(o) \in Objects
         /\ Age(o).gone = o.gone /\ Age(o).deleting = o.deleting
         /\ Age(o).finalizer = o.finalizer /\ Age(o).spec = o.spec
         /\ Age(o).phase = o.phase /\ Age(o).backend = o.backend
         /\ Age(o).restarts = o.restarts
         /\ Age(o).since = IF o.since = "fresh" THEN "old" ELSE o.since
<1>1. CASE o.since = "fresh"
  BY <1>1 DEF Age, Objects
<1>2. CASE o.since # "fresh"
  BY <1>2 DEF Age
<1> QED
  BY <1>1, <1>2

LEMMA TimeOutKeepsInv == OperatorInv /\ TimeOut => OperatorInv'
<1> SUFFICES ASSUME OperatorInv, TimeOut PROVE OperatorInv'
  OBVIOUS
<1> USE DEF OperatorInv
<1>1. /\ ais' = Age(ais) /\ seen' = Age(seen) /\ obj' = Age(obj)
      /\ UNCHANGED <<seenCurrent, objCurrent, pc, want, bumped, choice>>
      /\ UNCHANGED <<deployment, pods, history, upsets>>
  BY DEF TimeOut
<1>2. ais \in Objects /\ seen \in Objects /\ obj \in Objects
  BY DEF TypeOK
<1>3. /\ ais'.restarts = ais.restarts /\ seen'.restarts = seen.restarts
      /\ obj'.restarts = obj.restarts
      /\ ais'.finalizer = ais.finalizer /\ seen'.finalizer = seen.finalizer
      /\ ais'.gone = ais.gone
      /\ obj.since = "old" => obj'.since = "old"
  BY <1>1, <1>2, AgeFacts
<1>4. TypeOK'
  BY <1>1, <1>2, AgeFacts DEF TypeOK, deployment, pods, history
<1>5. CopyInv'
  BY <1>1, <1>2, AgeFacts DEF CopyInv
<1>6. CountInv' /\ ChoiceInv' /\ FinalizerInv'
  BY <1>1, <1>3 DEF CountInv, WasStored, ChoiceInv, FinalizerInv, deployment, history
<1>7. RaisesAreCounted' /\ DegradedAlertIsTrue'
  BY <1>1, <1>3 DEF RaisesAreCounted, DegradedAlertIsTrue, deployment, history
<1> QED
  BY <1>4, <1>5, <1>6, <1>7

(* Users edit and delete the object, which outdates the copy of a pass.    *)
LEMMA UsersKeepInv == OperatorInv /\ (Edit \/ Delete) => OperatorInv'
<1> SUFFICES ASSUME OperatorInv, Edit \/ Delete PROVE OperatorInv'
  OBVIOUS
<1> USE DEF OperatorInv
<1>1. ais \in Objects
  BY DEF TypeOK
<1>2. PICK o \in Objects :
        /\ Put(o) /\ o.restarts = ais.restarts /\ o.finalizer = ais.finalizer
        /\ o.gone => ~ais.finalizer
  <2>1. ASSUME NEW s \in Admit(Submitted)
        PROVE  /\ [ais EXCEPT !.spec = s] \in Objects
               /\ [ais EXCEPT !.spec = s].restarts = ais.restarts
               /\ [ais EXCEPT !.spec = s].finalizer = ais.finalizer
               /\ [ais EXCEPT !.spec = s].gone = ais.gone
    BY <1>1 DEF Objects
  <2>2. /\ [ais EXCEPT !.since = "malformed"] \in Objects
        /\ [ais EXCEPT !.since = "malformed"].restarts = ais.restarts
        /\ [ais EXCEPT !.since = "malformed"].finalizer = ais.finalizer
        /\ [ais EXCEPT !.since = "malformed"].gone = ais.gone
    BY <1>1 DEF Objects
  <2>3. /\ [ais EXCEPT !.deleting = TRUE, !.gone = ~ais.finalizer] \in Objects
        /\ [ais EXCEPT !.deleting = TRUE, !.gone = ~ais.finalizer].restarts = ais.restarts
        /\ [ais EXCEPT !.deleting = TRUE, !.gone = ~ais.finalizer].finalizer = ais.finalizer
        /\ [ais EXCEPT !.deleting = TRUE, !.gone = ~ais.finalizer].gone => ~ais.finalizer
    BY <1>1 DEF Objects
  <2>4. CASE Edit
    BY <2>1, <2>2, <2>4 DEF Edit
  <2>5. CASE Delete
    BY <2>3, <2>5 DEF Delete
  <2> QED
    BY <2>4, <2>5
<1>3. /\ ais' = o /\ seen' = seen /\ seenCurrent' \in BOOLEAN
      /\ (seenCurrent' => seen' = ais') /\ objCurrent' = FALSE
      /\ UNCHANGED <<obj, pc, want, bumped, choice, deployment, pods, history>>
  BY <1>2 DEF Edit, Delete, Put, TypeOK
<1>4. upsets' \in 0..MaxUpsets
  BY DEF Edit, Delete, Upset, TypeOK
<1>5. TypeOK'
  BY <1>3, <1>4 DEF TypeOK, deployment, pods, history
<1>6. CopyInv' /\ CountInv' /\ ChoiceInv' /\ FinalizerInv'
  BY <1>2, <1>3 DEF CopyInv, CountInv, WasStored, ChoiceInv, FinalizerInv, deployment, history
<1>7. RaisesAreCounted' /\ DegradedAlertIsTrue'
  BY <1>2, <1>3 DEF RaisesAreCounted, DegradedAlertIsTrue, deployment, history
<1> QED
  BY <1>5, <1>6, <1>7

(* A person sets the count back: what copies have of it was stored.        *)
LEMMA ResetKeepsInv == OperatorInv /\ ResetStatus => OperatorInv'
<1> SUFFICES ASSUME OperatorInv, ResetStatus PROVE OperatorInv'
  OBVIOUS
<1> USE DEF OperatorInv
<1>0. /\ ais \in Objects /\ ais.restarts \in Nat /\ seen.restarts \in Nat
      /\ obj.restarts \in Nat /\ uncounted \in Nat /\ setBack \in Nat
      /\ dep.memory \in Nat /\ bumped \in BOOLEAN
      /\ \A s \in Admit(Submitted) : MaxAttempts(s) \in Int
  BY Numbers DEF TypeOK
<1>1. PICK p \in Phases : Put([ais EXCEPT !.restarts = 0, !.phase = p])
  BY DEF ResetStatus, Phases
<1>2. /\ ais' \in Objects /\ ais'.restarts = 0 /\ ais'.finalizer = ais.finalizer
      /\ ais'.gone = ais.gone
  BY <1>0, <1>1 DEF Put, Objects
<1>3. /\ seen' = seen /\ seenCurrent' \in BOOLEAN /\ (seenCurrent' => seen' = ais')
      /\ objCurrent' = FALSE /\ uncounted' = uncounted + ais.restarts
      /\ setBack' = IF ais.restarts > setBack THEN ais.restarts ELSE setBack
      /\ UNCHANGED <<obj, pc, want, bumped, choice, deployment, pods, alerted, cleaned>>
  BY <1>1 DEF ResetStatus, Put, TypeOK
<1>4. upsets' \in 0..MaxUpsets
  BY DEF ResetStatus, Upset, TypeOK
<1>5. /\ setBack' \in Nat /\ setBack' >= ais.restarts /\ setBack' >= setBack
      /\ uncounted' \in Nat
  BY <1>0, <1>3
<1>6. TypeOK'
  BY <1>2, <1>3, <1>4, <1>5 DEF TypeOK, deployment, pods
<1>7. CopyInv' /\ ChoiceInv' /\ FinalizerInv'
  BY <1>2, <1>3 DEF CopyInv, ChoiceInv, FinalizerInv, deployment
<1>8. CountInv'
  BY <1>0, <1>3, <1>5 DEF CountInv, WasStored
<1>9. RaisesAreCounted'
  BY <1>0, <1>2, <1>3 DEF RaisesAreCounted, deployment
<1>10. DegradedAlertIsTrue'
  BY <1>0, <1>2, <1>3, <1>5 DEF DegradedAlertIsTrue
<1> QED
  BY <1>6, <1>7, <1>8, <1>9, <1>10

(* Pods come and go.                                                       *)
PodStep == PodsReady \/ PodsFail \/ PodsReplaced \/ ScaleToZero

LEMMA PodsKeepInv == OperatorInv /\ PodStep => OperatorInv'
<1> SUFFICES ASSUME OperatorInv, PodStep PROVE OperatorInv'
  OBVIOUS
<1> USE DEF OperatorInv
<1>1. /\ ready' \in 0..1 /\ failure' \in {"none"} \cup Terminations
      /\ UNCHANGED <<object, pass, deployment, history>>
  BY DEF PodStep, PodsReady, PodsFail, PodsReplaced, ScaleToZero, Pods, TypeOK
<1>2. upsets' \in 0..MaxUpsets
  BY DEF PodStep, PodsReady, PodsFail, PodsReplaced, ScaleToZero, Upset, TypeOK
<1>3. TypeOK'
  BY <1>1, <1>2 DEF TypeOK, object, pass, deployment, history
<1> QED
  BY <1>1, <1>3
  DEF CopyInv, CountInv, WasStored, ChoiceInv, FinalizerInv, RaisesAreCounted,
      DegradedAlertIsTrue, object, pass, deployment, history

-----------------------------------------------------------------------------
(* Every step keeps the invariant.                                         *)
LEMMA NextKeepsInv == OperatorInv /\ [Next]_vars => OperatorInv'
<1> SUFFICES ASSUME OperatorInv, [Next]_vars PROVE OperatorInv'
  OBVIOUS
<1>1. CASE UNCHANGED vars
  BY <1>1
  DEF OperatorInv, TypeOK, CopyInv, CountInv, WasStored, ChoiceInv, FinalizerInv,
      RaisesAreCounted, DegradedAlertIsTrue, vars, object, pass, deployment, pods,
      history
<1>2. CASE Reconcile
  BY <1>2, HandleDeletionKeepsInv, AddFinalizerKeepsInv, StartPassKeepsInv,
     ReconcileDeploymentKeepsInv, ReconcileServiceKeepsInv,
     ReconcileSelfHealKeepsInv, ReconcileFallbackKeepsInv, ReconcileStatusKeepsInv
  DEF Reconcile
<1>3. CASE Environment
  BY <1>3, SyncKeepsInv, RestartKeepsInv, TimeOutKeepsInv, UsersKeepInv, ResetKeepsInv,
     PodsKeepInv
  DEF Environment, PodStep
<1> QED
  BY <1>1, <1>2, <1>3 DEF Next

LEMMA OperatorInvariant == Spec => []OperatorInv
BY InitHolds, NextKeepsInv, PTL DEF Spec

(* For any specs, loads and numbers of upsets: the variables keep their    *)
(* types, no repair that reaches a status update stays uncounted, no alert *)
(* comes before the stored count justifies it, and no object whose         *)
(* Deployment was made goes before the clean-up ran.                       *)
THEOREM OperatorAlwaysSound == Spec => []OperatorIsSound
<1>1. OperatorInv => OperatorIsSound
  BY DEF OperatorInv, OperatorIsSound, FinalizerInv, CleanedBeforeRemoval
<1> QED
  BY <1>1, OperatorInvariant, PTL

(* The replica calculation carries the load up to the maximum, keeps to    *)
(* the bounds, answers a constant load once and for all, and from three    *)
(* replicas on asks again for those it gave up only when the load has      *)
(* grown by nine tenths, for every admitted spec.                          *)
THEOREM ScalingAlwaysSettles == Spec => []ScalingSettles
<1>1. OperatorInv => ScalingSettles
  BY TypesSettle DEF OperatorInv
<1> QED
  BY <1>1, OperatorInvariant, PTL

(* A step that writes the object writes what it had read, or Degraded, or  *)
(* Fallback on a decision that the stored start justifies.                 *)
LEMMA StepMovesPhase ==
  ASSUME OperatorInv, [Next]_vars
  PROVE  /\ ais.phase = "Degraded" /\ ais'.phase # "Degraded" => ResetStatus
         /\ ais.phase # "Fallback" /\ ais'.phase = "Fallback" => ais.since = "old"
<1> USE DEF OperatorInv
<1>0. ais \in Objects /\ obj \in Objects /\ seen \in Objects
  BY DEF TypeOK
<1>1. ASSUME ais'.phase = ais.phase \/ ais'.phase = "Degraded"
      PROVE  /\ ais.phase = "Degraded" /\ ais'.phase # "Degraded" => ResetStatus
             /\ ais.phase # "Fallback" /\ ais'.phase = "Fallback" => ais.since = "old"
  BY <1>1
<1>2. ASSUME NEW o, UpdateStatus(o), o.phase = "Degraded" \/ o.phase = obj.phase
      PROVE  ais'.phase = ais.phase \/ ais'.phase = "Degraded"
  BY <1>2 DEF UpdateStatus, Put, CopyInv, object
<1>3. CASE HandleDeletion \/ AddFinalizer
  <2>1. seen = ais
    BY <1>3 DEF HandleDeletion, AddFinalizer, TypeOK
  <2>2. ais'.phase = ais.phase
    BY <1>0, <1>3, <2>1 DEF HandleDeletion, AddFinalizer, Put, Objects
  <2> QED
    BY <1>1, <2>2
<1>4. CASE ReconcileDeployment \/ ReconcileService
  <2>1. CASE UNCHANGED object
    BY <1>1, <2>1 DEF object
  <2>2. CASE Degrade
    <3>1. [obj EXCEPT !.phase = "Degraded"].phase = "Degraded"
      BY <1>0 DEF Objects
    <3> QED
      BY <1>1, <1>2, <2>2, <3>1 DEF Degrade
  <2> QED
    BY <1>4, <2>1, <2>2 DEF ReconcileDeployment, ReconcileService
<1>5. CASE ReconcileSelfHeal
  <2>1. CASE UNCHANGED object
    BY <1>1, <2>1 DEF object
  <2>2. CASE obj' = [obj EXCEPT !.phase = "Degraded"] /\ UpdateStatus(obj')
    <3> PICK o : o = [obj EXCEPT !.phase = "Degraded"]
      OBVIOUS
    <3>1. UpdateStatus(o) /\ o.phase = "Degraded"
      BY <1>0, <2>2 DEF UpdateStatus, Put, Objects
    <3> QED
      BY <1>1, <1>2, <3>1
  <2> QED
    BY <1>5, <2>1, <2>2 DEF ReconcileSelfHeal
<1>6. CASE ReconcileFallback
  <2>1. ais'.phase = ais.phase
    BY <1>0, <1>6 DEF ReconcileFallback, Put, Objects, object
  <2> QED
    BY <1>1, <2>1
<1>7. CASE ReconcileStatus
  <2>1. CASE UNCHANGED object
    BY <1>1, <2>1 DEF object
  <2>2. CASE UpdateStatus(NewStatus)
    <3>1. CASE objCurrent
      <4>1. ais' = NewStatus /\ obj.phase = ais.phase /\ obj.since = ais.since
        BY <2>2, <3>1 DEF UpdateStatus, Put, CopyInv
      <4> QED
        BY <4>1, NewStatusFacts DEF ChoiceInv
    <3>2. CASE ~objCurrent
      BY <1>1, <2>2, <3>2 DEF UpdateStatus, object
    <3> QED
      BY <3>1, <3>2
  <2> QED
    BY <1>7, <2>1, <2>2 DEF ReconcileStatus
<1>8. CASE StartPass \/ SyncObject \/ SyncDeployment \/ Restart \/ PodStep \/ UNCHANGED vars
  <2>1. ais' = ais
    BY <1>8 DEF StartPass, SyncObject, SyncDeployment, Restart, PodStep, PodsReady,
                PodsFail, PodsReplaced, ScaleToZero, Pods, vars, object
  <2> QED
    BY <1>1, <2>1
<1>9. CASE TimeOut \/ Edit \/ Delete
  <2>1. ais'.phase = ais.phase
    <3>1. CASE TimeOut
      BY <1>0, <3>1, AgeFacts DEF TimeOut
    <3>2. CASE Edit \/ Delete
      BY <1>0, <3>2 DEF Edit, Delete, Put, Objects
    <3> QED
      BY <1>9, <3>1, <3>2
  <2> QED
    BY <1>1, <2>1
<1>10. CASE ResetStatus
  <2>1. ais'.phase # "Fallback"
    BY <1>0, <1>10 DEF ResetStatus, Put, Objects
  <2> QED
    BY <1>10, <2>1
<1> QED
  BY <1>3, <1>4, <1>5, <1>6, <1>7, <1>8, <1>9, <1>10
  DEF Next, Reconcile, Environment, PodStep

(* However old the copy of a pass is, it never takes the object out of     *)
(* Degraded, which only a person who patches the phase does, and puts      *)
(* Bedrock in charge only a whole timeout after the stored start of        *)
(* provisioning.                                                           *)
THEOREM PhaseAlwaysMoves == Spec => PhaseMoves
<1>1. OperatorInv /\ [Next]_vars =>
        [/\ ais.phase = "Degraded" /\ ais'.phase # "Degraded" => ResetStatus
         /\ ais.phase # "Fallback" /\ ais'.phase = "Fallback" => ais.since = "old"]_vars
  BY StepMovesPhase
<1> QED
  BY <1>1, OperatorInvariant, PTL DEF Spec, PhaseMoves
=============================================================================

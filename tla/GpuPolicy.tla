------------------------------ MODULE GpuPolicy ------------------------------
(***************************************************************************)
(* gpu-inference-operator-lab: the decisions of the operator that read     *)
(* state and change none: the admission webhook, the replica calculation,  *)
(* the self-healing detector and the fallback detector.                    *)
(***************************************************************************)
EXTENDS Integers

DefaultMaxRestartAttempts == 3
NoResources == -1

----------------------------------------------------------------------------
(* The admission webhook.  A spec is a record: image, min and max replicas, *)
(* target, source of the metric, queue (a queue name is given), prometheus  *)
(* (a URL is given), heal (no selfHealing, restartOnOOM off or on),         *)
(* attempts, fallback (enabled), pool (a node pool is named) and gpus.      *)

Default(s) ==
  [s EXCEPT !.attempts = IF s.heal = "restart" /\ @ = 0
                         THEN DefaultMaxRestartAttempts ELSE @,
            !.gpus = IF s.pool /\ @ = NoResources THEN 1 ELSE @]

Valid(s) ==
  /\ s.max >= s.min
  /\ s.source = "queue" => s.queue
  /\ s.heal = "restart" => s.attempts > 0
  /\ s.pool => s.gpus >= 1

Admit(S) == {s \in {Default(t) : t \in S} : Valid(s)}

----------------------------------------------------------------------------
(* CalculateDesiredReplicas.  The metric is a whole number here, so that    *)
(* math.Ceil is the division below and the ratio 0.7 is seven tenths.       *)

Within(n, s) == IF n > s.max THEN s.max ELSE IF n < s.min THEN s.min ELSE n

\* The metric less the share of one replica is over 70 % of the target.
Suppressed(s, current, metric, raw) ==
  /\ raw < current /\ current > 1
  /\ 10 * metric * (current - 1) > 7 * s.target * current

\* A bug: the quotient is cut, and nothing dampens it.
CalculateRoundingDown(s, current, metric) ==
  IF metric <= 0 THEN s.min ELSE Within(metric \div s.target, s)

\* A bug: nothing dampens it.
CalculateUndamped(s, current, metric) ==
  IF metric <= 0 THEN s.min ELSE Within((metric + s.target - 1) \div s.target, s)

CalculateDesiredReplicas(s, current, metric) ==
  LET raw == (metric + s.target - 1) \div s.target
  IN IF metric <= 0 THEN s.min
     ELSE IF Suppressed(s, current, metric, raw) THEN current
     ELSE Within(raw, s)

----------------------------------------------------------------------------
(* selfheal.Evaluate and fallback.Evaluate.                                 *)

MaxAttempts(s) == IF s.attempts > 0 THEN s.attempts ELSE DefaultMaxRestartAttempts

HealDecision(s, restarts, failure) ==
  CASE failure = "none" -> "nothing"
    [] failure # "none" /\ s.heal # "restart" -> "record"
    [] failure # "none" /\ s.heal = "restart" /\ restarts >= MaxAttempts(s) -> "degrade"
    [] failure = "OOMKilled" /\ s.heal = "restart" /\ restarts < MaxAttempts(s) -> "bump"
    [] OTHER -> "record"

\* A bug: every pass sets the start of provisioning anew.
FallbackRestartsClock(s, since, backend, ready) ==
  CASE ~s.fallback -> "nothing"
    [] s.fallback /\ ready > 0 -> IF since = "none" THEN "nothing" ELSE "clear"
    [] s.fallback /\ ready = 0 -> "start"

\* since: the annotation that holds the start of provisioning.  It is absent,
\* unreadable, younger than the timeout (fresh) or not (old).
FallbackDecision(s, since, backend, ready) ==
  CASE ~s.fallback -> "nothing"
    [] s.fallback /\ ready > 0 ->
         IF since = "none" THEN "nothing"
         ELSE IF backend = "bedrock" THEN "recover" ELSE "clear"
    [] s.fallback /\ ready = 0 ->
         IF since \in {"none", "malformed"} THEN "start"
         ELSE IF since = "old" THEN "fallback" ELSE "wait"
=============================================================================

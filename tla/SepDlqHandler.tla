---------------------------- MODULE SepDlqHandler ----------------------------
(***************************************************************************)
(* serverless-event-pipeline: the dlq-handler Lambda.  The scheduler and   *)
(* the DLQ alarm start invocations that may overlap.  Each drains the      *)
(* dead-letter queue: it classifies every message and then sends it back   *)
(* to its source queue with a growing delay (TRANSIENT), archives it       *)
(* (PERMANENT), or archives it and raises an alert (UNKNOWN); only then is *)
(* the message deleted.                                                    *)
(*                                                                         *)
(* An SQS message is a member of Copy: sending an event back creates a new *)
(* copy of it, and the pool bounds how many exist at once.  The consumer   *)
(* of the source queue is reduced to its two outcomes.                     *)
(***************************************************************************)
EXTENDS Naturals, FiniteSets

CONSTANTS
  Event,        \* the bodies of the messages
  Copy,         \* pool of SQS messages
  FirstCopy,    \* FirstCopy[e]: the message event e first travels in
  Invocation,   \* concurrent invocations of dlq-handler
  ErrorType,    \* ErrorType[e]: the category its error_type names, or None
  ReasonWords,  \* ReasonWords[e]: categories whose keywords failure_reason has
  BodyWords,    \* BodyWords[e]: categories whose keywords the body has
  Poison,       \* events the consumer of the source queue never accepts
  MaxDelay,     \* _MAX_DELAY_SECONDS
  MaxMessages,  \* _MAX_MESSAGES_PER_DLQ
  MaxReceive,   \* _MAX_RECEIVE_PER_CALL
  AttemptCap,   \* bound on attempt_count; from there on the delay is MaxDelay
  Faults,       \* what may go wrong: subset of FaultKinds
  None

FaultKinds == {"outage", "aws", "crash", "expire"}
Named == {"TRANSIENT", "PERMANENT"}

\* 2^n * 10 seconds.
Backoff[n \in Nat] == IF n = 0 THEN 10 ELSE 2 * Backoff[n - 1]

ASSUME DlqAssumption ==
  /\ FirstCopy \in [Event -> Copy]
  /\ \A e, f \in Event : FirstCopy[e] = FirstCopy[f] => e = f
  /\ ErrorType \in [Event -> Named \cup {None}]
  /\ ReasonWords \in [Event -> SUBSET Named]
  /\ BodyWords \in [Event -> SUBSET Named]
  /\ Poison \subseteq Event
  /\ MaxDelay \in Nat /\ MaxMessages \in Nat /\ MaxReceive \in Nat
  /\ AttemptCap \in Nat /\ Backoff[AttemptCap] >= MaxDelay
  /\ IsFiniteSet(Copy)
  /\ Faults \subseteq FaultKinds
  /\ None \notin Copy /\ None \notin Named /\ None \notin Nat

VARIABLES
  place,      \* place[c]: "source", "dlq", "held" (in flight in the DLQ), "gone"
  event,      \* event[c]: the event c carries
  attempts,   \* attempts[c]: its attempt_count attribute, or None
  delay,      \* delay[c]: the DelaySeconds c was sent with
  pc,         \* pc[h]: where invocation h is
  batch,      \* batch[h]: messages of the last receive not yet handled
  current,    \* current[h]: the message handled and not yet deleted, or None
  processed,  \* processed[h]: processed_count of the drain
  done,       \* events the consumer of the source queue accepted
  archived,   \* events in the dead-letter archive
  alerted     \* events an alert was published for

copies == <<place, event, attempts, delay>>
invocations == <<pc, batch, current, processed>>
outcomes == <<done, archived, alerted>>
vars == <<copies, invocations, outcomes>>

TypeOK ==
  /\ place \in [Copy -> {"source", "dlq", "held", "gone"}]
  /\ event \in [Copy -> Event]
  /\ attempts \in [Copy -> 0..AttemptCap \cup {None}]
  /\ delay \in [Copy -> 0..MaxDelay]
  /\ pc \in [Invocation -> {"idle", "drain", "alert", "delete"}]
  /\ batch \in [Invocation -> SUBSET Copy]
  /\ current \in [Invocation -> Copy \cup {None}]
  /\ processed \in [Invocation -> 0..MaxMessages]
  /\ done \subseteq Event /\ archived \subseteq Event /\ alerted \subseteq Event

\* Every event waits in the source queue and was never dead-lettered.
Init ==
  /\ place = [c \in Copy |-> IF \E e \in Event : FirstCopy[e] = c
                             THEN "source" ELSE "gone"]
  /\ event \in [Copy -> Event] /\ \A e \in Event : event[FirstCopy[e]] = e
  /\ attempts = [c \in Copy |-> None]
  /\ delay = [c \in Copy |-> 0]
  /\ pc = [h \in Invocation |-> "idle"]
  /\ batch = [h \in Invocation |-> {}]
  /\ current = [h \in Invocation |-> None]
  /\ processed = [h \in Invocation |-> 0]
  /\ done = {} /\ archived = {} /\ alerted = {}

Live(e) == \E c \in Copy : place[c] # "gone" /\ event[c] = e
HeldBy(h) == batch[h] \cup ({current[h]} \ {None})
\* A message of the pool that neither a queue nor an invocation knows.
Fresh(d) == place[d] = "gone" /\ \A h \in Invocation : d \notin HeldBy(h)

Smaller(a, b) == IF a <= b THEN a ELSE b

-----------------------------------------------------------------------------
(* The source queue, its consumer, and the visibility timeout of the DLQ.  *)

Consume(c) ==
  /\ place[c] = "source"
  /\ event[c] \notin Poison
  /\ done' = done \cup {event[c]}
  /\ place' = [place EXCEPT ![c] = "gone"]
  /\ UNCHANGED <<event, attempts, delay, invocations, archived, alerted>>

\* After maxReceiveCount receptions; the attributes of the message stay.
DeadLetter(c) ==
  /\ place[c] = "source"
  /\ event[c] \in Poison \/ "outage" \in Faults
  /\ place' = [place EXCEPT ![c] = "dlq"]
  /\ UNCHANGED <<event, attempts, delay, invocations, outcomes>>

\* The message becomes visible again; an invocation may still work on it.
Expire(c) ==
  /\ place[c] = "held"
  /\ "expire" \in Faults \/ \A h \in Invocation : c \notin HeldBy(h)
  /\ place' = [place EXCEPT ![c] = "dlq"]
  /\ UNCHANGED <<event, attempts, delay, invocations, outcomes>>

-----------------------------------------------------------------------------
(* Classification and backoff.                                             *)

FirstNamed(words) ==
  IF "TRANSIENT" \in words THEN "TRANSIENT" ELSE "PERMANENT"

\* Mutant: what nothing classifies is retried.
RetryByDefault(e) ==
  IF ErrorType[e] # None THEN ErrorType[e]
  ELSE IF ReasonWords[e] # {} THEN FirstNamed(ReasonWords[e])
  ELSE IF BodyWords[e] # {} THEN FirstNamed(BodyWords[e])
  ELSE "TRANSIENT"

\* The explicit error_type, else failure_reason, else the body decides.
Classify(e) ==
  IF ErrorType[e] # None THEN ErrorType[e]
  ELSE IF ReasonWords[e] # {} THEN FirstNamed(ReasonWords[e])
  ELSE IF BodyWords[e] # {} THEN FirstNamed(BodyWords[e])
  ELSE "UNKNOWN"

\* The attribute; without one, what the approximate receive count suggests.
AttemptCount(c) == IF attempts[c] # None THEN {attempts[c]} ELSE 0..AttemptCap

\* Mutant: the backoff is not limited to what SQS accepts.
UnlimitedDelay(n) == Backoff[n]

Delay(n) == Smaller(Backoff[n], MaxDelay)

\* Mutant: the attempt count of the message is passed on as it is.
SendUncounted(c, d) ==
  /\ Fresh(d)
  /\ place' = [place EXCEPT ![d] = "source"]
  /\ event' = [event EXCEPT ![d] = event[c]]
  /\ \E n \in AttemptCount(c) :
       /\ attempts' = [attempts EXCEPT ![d] = n]
       /\ delay' = [delay EXCEPT ![d] = Delay(n)]

\* _reenqueue: a new message d with the body and the attributes of c.
Send(c, d) ==
  /\ Fresh(d)
  /\ place' = [place EXCEPT ![d] = "source"]
  /\ event' = [event EXCEPT ![d] = event[c]]
  /\ \E n \in AttemptCount(c) :
       /\ attempts' = [attempts EXCEPT ![d] = Smaller(n + 1, AttemptCap)]
       /\ delay' = [delay EXCEPT ![d] = Delay(n)]

-----------------------------------------------------------------------------
(* The drain.                                                              *)

\* The schedule or the alarm starts an invocation.
Trigger(h) ==
  /\ pc[h] = "idle"
  /\ \E c \in Copy : place[c] = "dlq"
  /\ pc' = [pc EXCEPT ![h] = "drain"]
  /\ processed' = [processed EXCEPT ![h] = 0]
  /\ UNCHANGED <<copies, batch, current, outcomes>>

ReceiveMessages(h, B) ==
  /\ pc[h] = "drain" /\ batch[h] = {} /\ processed[h] < MaxMessages
  /\ B # {} /\ \A c \in B : place[c] = "dlq"
  /\ Cardinality(B) <= Smaller(MaxReceive, MaxMessages - processed[h])
  /\ place' = [c \in Copy |-> IF c \in B THEN "held" ELSE place[c]]
  /\ batch' = [batch EXCEPT ![h] = B]
  /\ UNCHANGED <<event, attempts, delay, pc, current, processed, outcomes>>

\* The limit is reached or a short poll found nothing: the drain is over.
EndDrain(h) ==
  /\ pc[h] = "drain" /\ batch[h] = {}
  /\ pc' = [pc EXCEPT ![h] = "idle"]
  /\ UNCHANGED <<copies, batch, current, processed, outcomes>>

\* h turns to message c of its batch and goes to step next with it.
Take(h, c, next) ==
  /\ pc[h] = "drain" /\ c \in batch[h]
  /\ batch' = [batch EXCEPT ![h] = @ \ {c}]
  /\ processed' = [processed EXCEPT ![h] = @ + 1]
  /\ pc' = [pc EXCEPT ![h] = next]
  /\ current' = [current EXCEPT ![h] = IF next = "drain" THEN None ELSE c]

Requeue(h, c) ==
  /\ Take(h, c, "delete")
  /\ Classify(event[c]) = "TRANSIENT"
  /\ \E d \in Copy : Send(c, d)
  /\ UNCHANGED outcomes

Archive(h, c) ==
  /\ Classify(event[c]) # "TRANSIENT"
  /\ Take(h, c, IF Classify(event[c]) = "PERMANENT" THEN "delete" ELSE "alert")
  /\ archived' = archived \cup {event[c]}
  /\ UNCHANGED <<copies, done, alerted>>

Alert(h) ==
  /\ pc[h] = "alert"
  /\ alerted' = alerted \cup {event[current[h]]}
  /\ pc' = [pc EXCEPT ![h] = "delete"]
  /\ UNCHANGED <<copies, batch, current, processed, done, archived>>

\* Mutant: success is not looked at, the message is deleted.
FailsAndDeletes(h, c) ==
  /\ "aws" \in Faults
  /\ Take(h, c, "delete")
  /\ UNCHANGED <<copies, outcomes>>

\* The exception is caught: the message stays in the DLQ.  The call that
\* raised may have had its effect.
ProcessingFails(h, c) ==
  /\ "aws" \in Faults
  /\ Take(h, c, "drain")
  /\ \/ UNCHANGED <<copies, archived>>
     \/ /\ Classify(event[c]) = "TRANSIENT"
        /\ \E d \in Copy : Send(c, d)
        /\ UNCHANGED archived
     \/ /\ Classify(event[c]) # "TRANSIENT"
        /\ archived' = archived \cup {event[c]}
        /\ UNCHANGED copies
  /\ UNCHANGED <<done, alerted>>

\* Mutant: a message whose alert could not be sent is deleted all the same.
AlertFailsAndDeletes(h) ==
  /\ "aws" \in Faults
  /\ pc[h] = "alert"
  /\ pc' = [pc EXCEPT ![h] = "delete"]
  /\ UNCHANGED <<copies, batch, current, processed, outcomes>>

AlertFails(h) ==
  /\ "aws" \in Faults
  /\ pc[h] = "alert"
  /\ alerted' \in {alerted, alerted \cup {event[current[h]]}}
  /\ pc' = [pc EXCEPT ![h] = "drain"]
  /\ current' = [current EXCEPT ![h] = None]
  /\ UNCHANGED <<copies, batch, processed, done, archived>>

\* Mutant: the drain forgets to delete what it has handled.
NoDelete(h) ==
  /\ pc[h] = "delete"
  /\ pc' = [pc EXCEPT ![h] = "drain"]
  /\ current' = [current EXCEPT ![h] = None]
  /\ UNCHANGED <<copies, batch, processed, outcomes>>

DeleteMessage(h) ==
  /\ pc[h] = "delete"
  /\ place' = [place EXCEPT ![current[h]] = "gone"]
  /\ pc' = [pc EXCEPT ![h] = "drain"]
  /\ current' = [current EXCEPT ![h] = None]
  /\ UNCHANGED <<event, attempts, delay, batch, processed, outcomes>>

\* The invocation is over, whatever it still held.
Abandon(h) ==
  /\ pc' = [pc EXCEPT ![h] = "idle"]
  /\ batch' = [batch EXCEPT ![h] = {}]
  /\ current' = [current EXCEPT ![h] = None]
  /\ UNCHANGED <<event, attempts, delay, processed, outcomes>>

\* delete_message raises through _drain_dlq: the rest of the batch is dropped.
DeleteFails(h) ==
  /\ "aws" \in Faults
  /\ pc[h] = "delete"
  /\ place' \in {place, [place EXCEPT ![current[h]] = "gone"]}
  /\ Abandon(h)

\* The Lambda times out or dies.
Crash(h) ==
  /\ "crash" \in Faults
  /\ pc[h] # "idle"
  /\ Abandon(h)
  /\ UNCHANGED place

Work(h) ==
  \/ \E c \in Copy : Requeue(h, c) \/ Archive(h, c)
  \/ Alert(h) \/ DeleteMessage(h)

Next ==
  \/ \E c \in Copy : Consume(c) \/ DeadLetter(c) \/ Expire(c)
  \/ \E h \in Invocation :
       \/ Trigger(h) \/ EndDrain(h) \/ Work(h)
       \/ \E B \in SUBSET Copy : ReceiveMessages(h, B)
       \/ \E c \in Copy : ProcessingFails(h, c)
       \/ AlertFails(h) \/ DeleteFails(h) \/ Crash(h)

(* The schedule comes round every five minutes, a running invocation goes  *)
(* on, hidden messages reappear, and the consumer of the source queue does *)
(* what it is going to do.  A short poll may miss a message, not for ever. *)
Fairness ==
  /\ \A h \in Invocation :
       /\ WF_vars(Trigger(h)) /\ WF_vars(EndDrain(h)) /\ WF_vars(Work(h))
  /\ \A c \in Copy :
       /\ SF_vars(\E h \in Invocation, B \in SUBSET Copy :
                    c \in B /\ ReceiveMessages(h, B))
       /\ WF_vars(Expire(c))
       /\ WF_vars(Consume(c)) /\ WF_vars(DeadLetter(c))

Spec == Init /\ [][Next]_vars
FairSpec == Spec /\ Fairness

-----------------------------------------------------------------------------
(* Properties.                                                             *)

NoSign(e) == ErrorType[e] = None /\ ReasonWords[e] = {} /\ BodyWords[e] = {}
TransientSign(e) ==
  ErrorType[e] = "TRANSIENT" \/ "TRANSIENT" \in ReasonWords[e] \cup BodyWords[e]

(* No event disappears: until the consumer accepted it or the archive has  *)
(* it, some queue holds a message that carries it.  This is what acting    *)
(* first and deleting last is for.                                         *)
NothingVanishes ==
  \A e \in Event : Live(e) \/ e \in done \cup archived

(* An unclassifiable event leaves the queues only archived and alerted,    *)
(* even if the alert failed after the archive was written.                 *)
UnknownIsReported ==
  \A e \in Event :
    NoSign(e) /\ ~Live(e) /\ e \notin done
      => e \in archived \cap alerted

(* Each time an event is sent back it waits longer than the last time, up  *)
(* to the largest delay SQS accepts, across invocations and message ids.   *)
BackoffGrows ==
  [][\A h \in Invocation, d \in Copy :
       Fresh(d) /\ place'[d] = "source" =>
         \E c \in Copy : /\ \E g \in Invocation : c \in batch[g] \ batch'[g]
                         /\ event'[d] = event[c]
                         /\ \/ delay'[d] > delay[c]
                            \/ delay'[d] = MaxDelay]_vars

(* While nothing fails and no visibility timeout cuts an invocation short, *)
(* overlapping invocations never multiply an event: outside the moment     *)
(* between sending it back and deleting it, one message carries it.        *)
NoMultiplication ==
  \A c, d \in Copy :
    /\ c # d /\ event[c] = event[d]
    /\ place[c] # "gone" /\ place[d] # "gone"
    => \E h \in Invocation : pc[h] = "delete" /\ current[h] \in {c, d}

(* Overlapping drains keep order: no event is multiplied, no delay is      *)
(* longer than SQS accepts, and no invocation exceeds its limit.           *)
DrainsAreSound == TypeOK /\ NoMultiplication

(* An event nothing about which suggests a transient failure does not stay *)
(* in the queues, even if the consumer never accepts it.                   *)
NonTransientLeaves ==
  \A e \in Event : ~TransientSign(e) => <>[](~Live(e))

(* The comment on the classification says that a permanent failure mistaken *)
(* for a transient one is stopped by an upper limit on attempt_count.       *)
RetriesAreLimited ==
  \A e \in Event : <>[](~Live(e))

=============================================================================

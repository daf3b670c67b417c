----------------------------- MODULE SepIngestor -----------------------------
(***************************************************************************)
(* serverless-event-pipeline: the ingestor Lambda and the SQS queue that   *)
(* drives it.  S3 notifications wait in the main queue; an invocation      *)
(* receives a batch of messages, walks over the rows of the files each     *)
(* message names, writes every valid row to the events table with a        *)
(* conditional PutItem, and reports the messages that raised so that only  *)
(* those become visible again.  After MaxReceive receptions a message is   *)
(* moved to the dead-letter queue.                                         *)
(*                                                                         *)
(* The files of a message are flattened to the sequence of their rows, in  *)
(* the order the two nested loops of the handler visit them.  A file that  *)
(* cannot be read at all (unsupported extension, undecodable content) is a *)
(* row of Unreadable: reaching it always raises.                           *)
(***************************************************************************)
EXTENDS Naturals, Sequences, FiniteSets

CONSTANTS
  Message,      \* SQS messages (S3 notifications)
  Worker,       \* concurrent invocations of the Lambda
  Row,          \* rows of the uploaded files, one per distinct event
  Key,          \* primary keys (entity_id, event_ts) of the events table
  RowsOf,       \* RowsOf[m]: the rows of the files named by message m
  KeyOf,        \* KeyOf[r]: the key the row is stored under
  Malformed,    \* rows that fail the validation of InputPayload
  Unreadable,   \* places where the download or the parser always raises
  BatchSize,    \* batch_size of the event source mapping
  MaxReceive,   \* maxReceiveCount of the redrive policy
  Faults,       \* what the environment may do: subset of FaultKinds
  None

FaultKinds == {"aws", "crash", "duplicate"}

ASSUME IngestorAssumption ==
  /\ RowsOf \in [Message -> Seq(Row)]
  /\ KeyOf \in [Row -> Key]
  /\ Malformed \subseteq Row
  /\ Unreadable \subseteq Row
  /\ BatchSize \in Nat \ {0}
  /\ MaxReceive \in Nat \ {0}
  /\ Faults \subseteq FaultKinds
  /\ None \notin Row
  /\ None \notin Message

VARIABLES
  faults,     \* what the environment does in this behaviour
  queue,      \* queue[m]: where SQS keeps message m
  receives,   \* receives[m]: ApproximateReceiveCount of m in the main queue
  batch,      \* batch[w]: the messages invocation w was given, {} when idle
  todo,       \* todo[w]: messages of the batch not yet handled
  current,    \* current[w]: the message in _record_handler, or None
  pos,        \* pos[w]: index of the next row of the current message
  failed,     \* failed[w]: batchItemFailures collected so far
  table       \* table[k]: the row stored under k in the events table, or None

vars == <<faults, queue, receives, batch, todo, current, pos, failed, table>>
invocation == <<batch, todo, current, pos, failed>>

QueuePlace == {"visible", "inflight", "deleted", "dlq"}

TypeOK ==
  /\ faults \subseteq Faults
  /\ queue \in [Message -> QueuePlace]
  /\ receives \in [Message -> 0..MaxReceive]
  /\ batch \in [Worker -> SUBSET Message]
  /\ todo \in [Worker -> SUBSET Message]
  /\ current \in [Worker -> Message \cup {None}]
  /\ pos \in [Worker -> Nat \ {0}]
  /\ failed \in [Worker -> SUBSET Message]
  /\ table \in [Key -> Row \cup {None}]

Init ==
  /\ faults \in SUBSET Faults
  /\ queue = [m \in Message |-> "visible"]
  /\ receives = [m \in Message |-> 0]
  /\ batch = [w \in Worker |-> {}]
  /\ todo = [w \in Worker |-> {}]
  /\ current = [w \in Worker |-> None]
  /\ pos = [w \in Worker |-> 1]
  /\ failed = [w \in Worker |-> {}]
  /\ table = [k \in Key |-> None]

-----------------------------------------------------------------------------
(* SQS.  A visible message can be received; a standard queue may also      *)
(* deliver a message that another invocation holds.                        *)

Receivable ==
  {m \in Message : /\ receives[m] < MaxReceive
                   /\ \/ queue[m] = "visible"
                      \/ "duplicate" \in faults /\ queue[m] = "inflight"}

\* The event source mapping invokes the Lambda with a batch of messages.
Receive(w, B) ==
  /\ batch[w] = {}
  /\ B # {}
  /\ B \subseteq Receivable
  /\ Cardinality(B) <= BatchSize
  /\ queue' = [m \in Message |-> IF m \in B THEN "inflight" ELSE queue[m]]
  /\ receives' = [m \in Message |->
                    IF m \in B THEN receives[m] + 1 ELSE receives[m]]
  /\ batch' = [batch EXCEPT ![w] = B]
  /\ todo' = [todo EXCEPT ![w] = B]
  /\ failed' = [failed EXCEPT ![w] = {}]
  /\ UNCHANGED <<faults, current, pos, table>>

\* Mutant: the limit is compared with > and is never reached.
RedriveBeyondLimit(m) ==
  /\ queue[m] = "visible"
  /\ receives[m] > MaxReceive
  /\ queue' = [queue EXCEPT ![m] = "dlq"]
  /\ UNCHANGED <<faults, receives, invocation, table>>

\* A message received MaxReceive times is moved instead of being delivered.
Redrive(m) ==
  /\ queue[m] = "visible"
  /\ receives[m] = MaxReceive
  /\ queue' = [queue EXCEPT ![m] = "dlq"]
  /\ UNCHANGED <<faults, receives, invocation, table>>

-----------------------------------------------------------------------------
(* The Lambda.                                                             *)

\* process_partial_response calls _record_handler on the next message.
StartMessage(w, m) ==
  /\ current[w] = None
  /\ m \in todo[w]
  /\ current' = [current EXCEPT ![w] = m]
  /\ pos' = [pos EXCEPT ![w] = 1]
  /\ todo' = [todo EXCEPT ![w] = @ \ {m}]
  /\ UNCHANGED <<faults, queue, receives, batch, failed, table>>

RowsLeft(w) == current[w] # None /\ pos[w] <= Len(RowsOf[current[w]])
NextRow(w) == RowsOf[current[w]][pos[w]]

\* Mutant: PutItem without its ConditionExpression.
UnconditionalPut(r) == table' = [table EXCEPT ![KeyOf[r]] = r]

\* PutItem under attribute_not_exists: the stored row, if any, stays.
ConditionalPut(r) ==
  table' = [table EXCEPT ![KeyOf[r]] = IF @ = None THEN r ELSE @]

\* A valid row is written; a rejected condition counts as success.
PutRow(w) ==
  /\ RowsLeft(w)
  /\ NextRow(w) \notin Malformed \cup Unreadable
  /\ ConditionalPut(NextRow(w))
  /\ pos' = [pos EXCEPT ![w] = @ + 1]
  /\ UNCHANGED <<faults, queue, receives, batch, todo, current, failed>>

\* A row that fails validation is counted and skipped, the file goes on.
SkipMalformed(w) ==
  /\ RowsLeft(w)
  /\ NextRow(w) \in Malformed \ Unreadable
  /\ pos' = [pos EXCEPT ![w] = @ + 1]
  /\ UNCHANGED <<faults, queue, receives, batch, todo, current, failed, table>>

\* BatchProcessor catches the exception and records the message.
FailCurrent(w) ==
  /\ failed' = [failed EXCEPT ![w] = @ \cup {current[w]}]
  /\ current' = [current EXCEPT ![w] = None]

\* The download or the parser raises on the file itself.
RaiseUnreadable(w) ==
  /\ RowsLeft(w)
  /\ NextRow(w) \in Unreadable
  /\ FailCurrent(w)
  /\ UNCHANGED <<faults, queue, receives, batch, todo, pos, table>>

\* S3 or DynamoDB raises; the reply of a write that took place may be lost.
RaiseAwsError(w) ==
  /\ "aws" \in faults
  /\ RowsLeft(w)
  /\ FailCurrent(w)
  /\ \/ UNCHANGED table
     \/ NextRow(w) \notin Malformed \cup Unreadable /\ ConditionalPut(NextRow(w))
  /\ UNCHANGED <<faults, queue, receives, batch, todo, pos>>

\* Every row of the message has been handled.
FinishMessage(w) ==
  /\ current[w] # None
  /\ ~RowsLeft(w)
  /\ current' = [current EXCEPT ![w] = None]
  /\ UNCHANGED <<faults, queue, receives, batch, todo, pos, failed, table>>

\* Mutant: the batch response is ignored, the whole batch is deleted.
SettleIgnoringFailures(m, w) ==
  IF m \notin batch[w] \/ queue[m] = "dlq" THEN queue[m] ELSE "deleted"

\* Mutant: one failure makes the whole batch visible again.
SettleWholeBatch(m, w) ==
  IF m \notin batch[w] \/ queue[m] \in {"deleted", "dlq"} THEN queue[m]
  ELSE IF failed[w] = {} THEN "deleted" ELSE "visible"

\* Mutant: a message already dead-lettered is acknowledged as well.
SettleDeadLettered(m, w) ==
  IF m \notin batch[w] \/ queue[m] = "deleted" THEN queue[m]
  ELSE IF m \notin failed[w] THEN "deleted"
  ELSE IF queue[m] = "inflight" THEN "visible" ELSE queue[m]

\* SQS gets the batch response: failures become visible, the rest is deleted.
Settle(m, w) ==
  IF m \notin batch[w] \/ queue[m] \in {"deleted", "dlq"} THEN queue[m]
  ELSE IF m \notin failed[w] THEN "deleted"
  ELSE IF queue[m] = "inflight" THEN "visible" ELSE queue[m]

Return(w) ==
  /\ batch[w] # {}
  /\ todo[w] = {}
  /\ current[w] = None
  /\ queue' = [m \in Message |-> Settle(m, w)]
  /\ batch' = [batch EXCEPT ![w] = {}]
  /\ UNCHANGED <<faults, receives, todo, current, pos, failed, table>>

\* The invocation times out or dies: nothing of its batch is deleted.
Crash(w) ==
  /\ "crash" \in faults
  /\ batch[w] # {}
  /\ queue' = [m \in Message |->
                 IF m \in batch[w] /\ queue[m] = "inflight"
                 THEN "visible" ELSE queue[m]]
  /\ batch' = [batch EXCEPT ![w] = {}]
  /\ todo' = [todo EXCEPT ![w] = {}]
  /\ current' = [current EXCEPT ![w] = None]
  /\ UNCHANGED <<faults, receives, pos, failed, table>>

Handle(w) ==
  \/ \E m \in Message : StartMessage(w, m)
  \/ PutRow(w) \/ SkipMalformed(w) \/ RaiseUnreadable(w)
  \/ FinishMessage(w) \/ Return(w)

Next ==
  \/ \E w \in Worker, B \in SUBSET Message : Receive(w, B)
  \/ \E w \in Worker : Handle(w) \/ RaiseAwsError(w) \/ Crash(w)
  \/ \E m \in Message : Redrive(m)

(* The event source mapping keeps polling, an invocation that has work     *)
(* does it, and SQS moves exhausted messages; errors, crashes and          *)
(* duplicate deliveries owe nothing.                                       *)
Fairness ==
  /\ \A w \in Worker : WF_vars(Handle(w))
  /\ \A m \in Message : WF_vars(\E w \in Worker, B \in SUBSET Message :
                                   m \in B /\ queue[m] = "visible" /\ Receive(w, B))
  /\ \A m \in Message : WF_vars(Redrive(m))

Spec == Init /\ [][Next]_vars
FairSpec == Spec /\ Fairness

-----------------------------------------------------------------------------
(* Properties.                                                             *)

Valid(r) == r \notin Malformed \cup Unreadable
RowsIn(m) == {RowsOf[m][i] : i \in DOMAIN RowsOf[m]}
Stored(m) == \A r \in RowsIn(m) : Valid(r) => table[KeyOf[r]] # None

(* A message leaves SQS for good only when every valid row of its files    *)
(* has an item in the events table, whatever crashed, raised or was        *)
(* delivered twice on the way.                                             *)
DeletedMeansStored ==
  \A m \in Message : queue[m] = "deleted" => Stored(m)

(* The conditional PutItem makes the first writer of a key win: no retry,  *)
(* duplicate delivery or later file changes an item that exists.           *)
FirstWriterWins ==
  [][\A k \in Key : table[k] # None => table'[k] = table[k]]_vars

(* The partial batch response isolates a poison message: while AWS itself  *)
(* neither raises nor kills an invocation, a message whose files are all   *)
(* readable never reaches the dead-letter queue, even when it shares every *)
(* batch with one that always fails.                                       *)
HealthyNotDeadLettered ==
  faults \cap {"aws", "crash"} = {} =>
    \A m \in Message : queue[m] = "dlq" => RowsIn(m) \cap Unreadable # {}

(* Every notification is eventually settled: acknowledged or dead-lettered. *)
EventuallySettled ==
  <>[](\A m \in Message : queue[m] \in {"deleted", "dlq"})

(* ADR-003 sets the goal that no event is lost: an acknowledged message    *)
(* would leave each of its valid rows, not merely some row of the same     *)
(* key, in the table.  The key keeps whole seconds only, so it does not.   *)
NoEventLost ==
  \A m \in Message :
    queue[m] = "deleted" =>
      \A r \in RowsIn(m) : Valid(r) => table[KeyOf[r]] = r

-----------------------------------------------------------------------------
(* Refinement.                                                             *)

Fate == [m \in Message |-> IF queue[m] = "deleted" THEN "consumed"
                           ELSE IF queue[m] = "dlq" THEN "dead" ELSE "queued"]

Delivery == INSTANCE SepDelivery WITH
  KeysOf <- [m \in Message |-> {KeyOf[r] : r \in {q \in RowsIn(m) : Valid(q)}}],
  fate <- Fate,
  filled <- {k \in Key : table[k] # None}

(* Queue, batches, retries and concurrent invocations together do no more  *)
(* than SepDelivery: keys are filled only for messages not yet consumed,   *)
(* messages are consumed only when their keys are filled, and a message in *)
(* the dead-letter queue is never acknowledged afterwards.                 *)
DeliverySpec == Delivery!Spec

=============================================================================

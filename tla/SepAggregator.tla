---------------------------- MODULE SepAggregator ----------------------------
(***************************************************************************)
(* serverless-event-pipeline: the events table, its stream, and the        *)
(* aggregator Lambda that keeps daily totals.  The ingestor inserts items, *)
(* the transformer inserts or replaces them, TTL removes them; every       *)
(* change enters the stream.  The mapping hands the stream to the Lambda   *)
(* in order, a batch at a time; a batch whose invocation timed out it      *)
(* halves, and a single record it discards after MaxRetry more tries.  The *)
(* Lambda adds the effect of each record to the aggregations table, goes   *)
(* on with the next when one fails, and counts failures in a metric.       *)
(***************************************************************************)
EXTENDS Integers, Sequences, FiniteSets, Functions

CONSTANTS
  Key,         \* primary keys of the events table
  Aggregate,   \* aggregate keys: entity and day
  AggregateOf, \* AggregateOf[k]: the aggregate an item of key k counts for
  TypesOf,     \* TypesOf[k]: the event types that items of key k may have
  Amount,      \* the value field of items
  BatchSize,   \* batch_size of the event source mapping
  MaxChanges,  \* bound on the length of the stream
  MaxRetry,    \* maximum_retry_attempts of the event source mapping
  Faults,      \* what may go wrong: subset of FaultKinds
  None

Item == [type : {"PURCHASE", "VIEW", "CLICK"}, value : Amount]

FaultKinds == {"timeout", "lostReply", "error"}

ASSUME AggregatorAssumption ==
  /\ IsFiniteSet(Key) /\ AggregateOf \in [Key -> Aggregate]
  /\ TypesOf \in [Key -> SUBSET {"PURCHASE", "VIEW", "CLICK"}]
  /\ Amount \subseteq Nat /\ None \notin Item
  /\ BatchSize \in Nat \ {0} /\ MaxChanges \in Nat /\ MaxRetry \in Nat
  /\ Faults \subseteq FaultKinds

VARIABLES
  troubles,    \* what goes wrong in this behaviour
  table,       \* table[k]: the item of key k, or None
  stream,      \* the changes so far: [event, key, new, old]
  checkpoint,  \* records of the stream the mapping is done with
  ranges,      \* <<first, last>> of the batches to deliver, the next one first
  tries,       \* retries of the first range so far
  pos,         \* records of the stream the invocation has handled
  failed,      \* failed[a]: records of a that failed in the invocation
  totals,      \* totals[a]: [amount, purchases, views] of the aggregations table
  errors,      \* errors[a]: records of a in the published AggregationErrors
  discarded,   \* records the mapping gave up
  seen,        \* ghost: records handled or discarded at least once
  expired      \* ghost: expired[a]: [amount, purchases, views] of removed items

source == <<troubles, table, stream, expired>>
mapping == <<checkpoint, ranges, tries, discarded>>
lambda == <<mapping, pos, failed, totals, errors, seen>>
aggregatorVars == <<source, lambda>>

Sums == [amount : Int, purchases : Nat, views : Nat]

AggregatorTypeOK ==
  /\ troubles \subseteq Faults
  /\ table \in [Key -> Item \cup {None}]
  /\ stream \in Seq([event : {"INSERT", "MODIFY", "REMOVE"}, key : Key,
                     new : Item \cup {None}, old : Item \cup {None}])
  /\ checkpoint \in 0..pos
  /\ ranges \in Seq((1..Len(stream)) \X (1..Len(stream)))
  /\ tries \in 0..MaxRetry
  /\ pos \in 0..seen /\ seen \in 0..Len(stream)
  /\ totals \in [Aggregate -> Sums] /\ expired \in [Aggregate -> Sums]
  /\ failed \in [Aggregate -> Nat] /\ errors \in [Aggregate -> Nat]
  /\ discarded \in SUBSET (1..checkpoint)

Nothing == [amount |-> 0, purchases |-> 0, views |-> 0]
Plus(s, t) == [f \in DOMAIN s |-> s[f] + t[f]]

AggregatorInit ==
  /\ troubles \in SUBSET Faults
  /\ table = [k \in Key |-> None]
  /\ stream = <<>>
  /\ checkpoint = 0 /\ ranges = <<>> /\ tries = 0 /\ discarded = {}
  /\ pos = 0 /\ seen = 0
  /\ totals = [a \in Aggregate |-> Nothing]
  /\ failed = [a \in Aggregate |-> 0] /\ errors = [a \in Aggregate |-> 0]
  /\ expired = [a \in Aggregate |-> Nothing]

-----------------------------------------------------------------------------
(* The events table and its stream.                                        *)

\* What one item contributes to its aggregate.
Worth(item) ==
  CASE item.type = "PURCHASE" ->
         [amount |-> item.value, purchases |-> 1, views |-> 0]
    [] item.type = "VIEW" -> [amount |-> 0, purchases |-> 0, views |-> 1]
    [] OTHER -> Nothing

Change(event, k, new) ==
  /\ Len(stream) < MaxChanges
  /\ table' = [table EXCEPT ![k] = new]
  /\ stream' = Append(stream, [event |-> event, key |-> k,
                               new |-> new, old |-> table[k]])
  /\ UNCHANGED <<troubles, lambda>>

\* put_item of the ingestor or batch_write_item of the transformer.
Insert(k, item) ==
  /\ table[k] = None
  /\ item.type \in TypesOf[k]
  /\ Change("INSERT", k, item)
  /\ UNCHANGED expired

\* batch_write_item of the transformer replaces an item.
Overwrite(k, item) ==
  /\ table[k] # None
  /\ item.type \in TypesOf[k]
  /\ Change("MODIFY", k, item)
  /\ UNCHANGED expired

\* expires_at has passed.
Expire(k) ==
  /\ table[k] # None
  /\ Change("REMOVE", k, None)
  /\ expired' = [expired EXCEPT ![AggregateOf[k]] = Plus(@, Worth(table[k]))]

-----------------------------------------------------------------------------
(* The Lambda.                                                             *)

\* Mutant: a removed item is taken off its aggregate.
DeltaOfRemoval(r) ==
  CASE r.event = "INSERT" -> Worth(r.new)
    [] r.event = "MODIFY" /\ r.new.type = "PURCHASE" ->
         [Nothing EXCEPT !.amount = r.new.value - r.old.value]
    [] r.event = "REMOVE" -> [f \in DOMAIN Nothing |-> -Worth(r.old)[f]]
    [] OTHER -> Nothing

\* Mutant: a purchase of value 0 is skipped, although it is a new event.
DeltaSkippingZero(r) ==
  CASE r.event = "INSERT" /\ r.new.value # 0 -> Worth(r.new)
    [] r.event = "MODIFY" /\ r.new.type = "PURCHASE" ->
         [Nothing EXCEPT !.amount = r.new.value - r.old.value]
    [] OTHER -> Nothing

\* _process_record: what a record of the stream adds to its aggregate.  For an
\* item that was replaced only the difference of a purchase counts, for one that
\* was removed nothing.
Delta(r) ==
  CASE r.event = "INSERT" -> Worth(r.new)
    [] r.event = "MODIFY" /\ r.new.type = "PURCHASE" ->
         [Nothing EXCEPT !.amount = r.new.value - r.old.value]
    [] OTHER -> Nothing

First == ranges[1][1]
Last == ranges[1][2]
Highest(m, n) == IF m > n THEN m ELSE n

\* _update_aggregation adds the effect of the next record.
Aggregated ==
  LET r == stream[pos + 1] IN
    totals' = [totals EXCEPT ![AggregateOf[r.key]] = Plus(@, Delta(r))]

NextRecord ==
  /\ ranges # <<>> /\ pos < Last
  /\ pos' = pos + 1
  /\ seen' = Highest(seen, pos + 1)
  /\ UNCHANGED <<source, mapping, errors>>

AggregateRecord == NextRecord /\ Aggregated /\ UNCHANGED failed

\* Mutant: the exception is swallowed without a trace.
FailsSilently ==
  /\ "error" \in troubles
  /\ NextRecord
  /\ UNCHANGED <<totals, failed>>

\* UpdateItem raises, with or without effect; the record is counted and skipped.
AggregateFails ==
  /\ "error" \in troubles
  /\ NextRecord
  /\ Delta(stream[pos + 1]) # Nothing
  /\ UNCHANGED totals \/ Aggregated
  /\ failed' = [failed EXCEPT ![AggregateOf[stream[pos + 1].key]] = @ + 1]

\* log_metrics publishes what the invocation counted when it ends.
Published == errors' = [a \in Aggregate |-> errors[a] + failed[a]]

-----------------------------------------------------------------------------
(* The event source mapping.                                               *)

Poll(n) ==
  /\ ranges = <<>>
  /\ n \in 1..BatchSize /\ checkpoint + n <= Len(stream)
  /\ ranges' = << <<checkpoint + 1, checkpoint + n>> >>
  /\ UNCHANGED <<source, checkpoint, tries, discarded, pos, failed, totals,
                 errors, seen>>

\* The records of the first range are done with.
PassRange ==
  /\ checkpoint' = Last
  /\ ranges' = Tail(ranges)
  /\ tries' = 0
  /\ pos' = Last
  /\ failed' = [a \in Aggregate |-> 0]

Return ==
  /\ ranges # <<>> /\ pos = Last
  /\ Published
  /\ PassRange
  /\ UNCHANGED <<source, discarded, totals, seen>>

\* The mapping takes the invocation for failed: its range is halved, or
\* delivered again, or discarded.
Retry ==
  LET mid == (First + Last) \div 2 IN
    \/ /\ First < Last
       /\ ranges' = << <<First, mid>>, <<mid + 1, Last>> >> \o Tail(ranges)
       /\ tries' = 0
       /\ pos' = checkpoint
       /\ failed' = [a \in Aggregate |-> 0]
       /\ UNCHANGED <<checkpoint, discarded>>
    \/ /\ First = Last /\ tries < MaxRetry
       /\ tries' = tries + 1
       /\ pos' = checkpoint
       /\ failed' = [a \in Aggregate |-> 0]
       /\ UNCHANGED <<checkpoint, ranges, discarded>>
    \/ /\ First = Last /\ tries = MaxRetry
       /\ discarded' = discarded \cup {First}
       /\ PassRange

\* The invocation is cut off before it publishes its metrics.
TimeOut ==
  /\ "timeout" \in troubles /\ ranges # <<>>
  /\ Retry
  /\ UNCHANGED <<source, totals, errors>> /\ seen' = Highest(seen, pos')

\* The invocation ends well, but the mapping does not learn of it.
LoseReply ==
  /\ "lostReply" \in troubles /\ ranges # <<>> /\ pos = Last
  /\ Published
  /\ Retry
  /\ UNCHANGED <<source, totals, seen>>

AggregatorNext ==
  \/ \E k \in Key, item \in Item : Insert(k, item) \/ Overwrite(k, item)
  \/ \E k \in Key : Expire(k)
  \/ \E n \in 1..BatchSize : Poll(n)
  \/ AggregateRecord \/ AggregateFails \/ Return \/ TimeOut \/ LoseReply

AggregatorSpec == AggregatorInit /\ [][AggregatorNext]_aggregatorVars

-----------------------------------------------------------------------------
(* Properties.                                                             *)

\* No item is replaced by one of another type.
OneTypePerKey == \A k \in Key : \A s, t \in TypesOf[k] : s = t

\* What the items of a in the table, and those that expired, are worth.
Truth(a) ==
  LET items == {k \in Key : AggregateOf[k] = a /\ table[k] # None}
      Sum(f) == SumFunction([k \in items |-> Worth(table[k])[f]])
  IN  [f \in DOMAIN Nothing |-> Sum(f) + expired[a][f]]

CaughtUp == checkpoint = Len(stream)

(* Once the Lambda has caught up with the stream, the totals are the worth *)
(* of the items there are and were, however often an item was replaced and *)
(* whether or not it expired, as long as nothing went wrong (and no item   *)
(* was replaced by one of another type).                                   *)
TotalsExact == CaughtUp /\ troubles = {} => \A a \in Aggregate : totals[a] = Truth(a)

Dropped(a) == {i \in discarded : AggregateOf[stream[i].key] = a}

(* Every purchase and view that the totals miss was published as an error  *)
(* or belongs to a record the mapping discarded, also when batches come    *)
(* again: the handler loses no update without a trace.                     *)
MissesAreCounted ==
  CaughtUp => \A a \in Aggregate :
    totals[a].purchases + totals[a].views + errors[a] + Cardinality(Dropped(a))
      >= Truth(a).purchases + Truth(a).views

(* The totals account for every item: exactly when nothing fails, and with *)
(* an error or a discarded record for each that they miss otherwise.       *)
TotalsAccounted == TotalsExact /\ MissesAreCounted

(* The module comment and a unit test say that delivering a MODIFY record  *)
(* again does not change the totals, because only differences are added.   *)
ModifyAgainIsHarmless ==
  [][pos' = pos + 1 /\ pos' <= seen /\ stream[pos'].event = "MODIFY"
       => totals' = totals]_aggregatorVars

=============================================================================

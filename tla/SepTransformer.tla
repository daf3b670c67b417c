--------------------------- MODULE SepTransformer ---------------------------
(***************************************************************************)
(* serverless-event-pipeline: the transformer Lambda on one Kinesis shard. *)
(* The event source mapping delivers the records in order, a batch at a    *)
(* time, halves a batch whose invocation raised, and gives a single record *)
(* up to the dead-letter queue after MaxRetry more tries.  The Lambda      *)
(* transforms the records of a batch and writes the good ones with         *)
(* BatchWriteItem, a chunk at a time, repeating what DynamoDB leaves       *)
(* unprocessed.                                                            *)
(*                                                                         *)
(* A record is its position in the shard.                                  *)
(***************************************************************************)
EXTENDS Integers, Sequences, FiniteSets

CONSTANTS
  N,           \* records in the shard
  Key,         \* primary keys of the events table
  KeyOf,       \* KeyOf[i]: the key record i is stored under
  Bad,         \* records that transform_record rejects
  BatchSize,   \* batch_size of the event source mapping
  MaxRetry,    \* maximum_retry_attempts of the event source mapping
  ChunkSize,   \* _DYNAMODB_BATCH_LIMIT
  MaxUnprocessedRetries,  \* _MAX_UNPROCESSED_RETRIES
  Faults       \* what may go wrong: subset of FaultKinds

FaultKinds == {"raise", "throttle", "crash"}

ASSUME TransformerAssumption ==
  /\ N \in Nat
  /\ KeyOf \in [1..N -> Key]
  /\ Bad \subseteq 1..N
  /\ BatchSize \in Nat \ {0} /\ ChunkSize \in Nat \ {0}
  /\ MaxRetry \in Nat /\ MaxUnprocessedRetries \in Nat
  /\ Faults \subseteq FaultKinds

VARIABLES
  faults,      \* what goes wrong in this behaviour
  checkpoint,  \* records up to here are done with
  ranges,      \* <<first, last>> of the batches to deliver, the next one first
  tries,       \* retries of the first range so far
  pc,          \* "idle" or "write": an invocation is writing
  items,       \* records transformed and not yet part of a chunk
  chunk,       \* records of the BatchWriteItem request under way
  retries,     \* retry_count of the chunk
  table,       \* table[k]: the record stored under k, 0 for none
  dlq,         \* records sent to the dead-letter queue
  givenUp      \* records left unprocessed when the retries ran out

delivery == <<checkpoint, ranges, tries>>
invocation == <<pc, items, chunk, retries>>
vars == <<faults, delivery, invocation, table, dlq, givenUp>>

TypeOK ==
  /\ faults \subseteq Faults
  /\ checkpoint \in 0..N
  /\ ranges \in Seq((1..N) \X (1..N))
  /\ tries \in 0..MaxRetry
  /\ pc \in {"idle", "write"}
  /\ items \in SUBSET (1..N) /\ chunk \in SUBSET (1..N)
  /\ Cardinality(chunk) <= ChunkSize
  /\ retries \in 0..MaxUnprocessedRetries
  /\ table \in [Key -> 0..N]
  /\ dlq \in SUBSET (1..N) /\ givenUp \in SUBSET (1..N)

Init ==
  /\ faults \in SUBSET Faults
  /\ checkpoint = 0 /\ ranges = <<>> /\ tries = 0
  /\ pc = "idle" /\ items = {} /\ chunk = {} /\ retries = 0
  /\ table = [k \in Key |-> 0]
  /\ dlq = {} /\ givenUp = {}

First == ranges[1][1]
Last == ranges[1][2]

-----------------------------------------------------------------------------
(* The event source mapping.                                               *)

Poll(n) ==
  /\ ranges = <<>>
  /\ n \in 1..BatchSize /\ checkpoint + n <= N
  /\ ranges' = << <<checkpoint + 1, checkpoint + n>> >>
  /\ tries' = 0
  /\ UNCHANGED <<faults, checkpoint, invocation, table, dlq, givenUp>>

\* The records of the first range are done with.
PassRange ==
  /\ checkpoint' = Last
  /\ ranges' = Tail(ranges)
  /\ tries' = 0

Bisect ==
  LET mid == (First + Last) \div 2 IN
    /\ First < Last
    /\ ranges' = << <<First, mid>>, <<mid + 1, Last>> >> \o Tail(ranges)
    /\ tries' = 0
    /\ UNCHANGED <<checkpoint, dlq>>

\* Mutant: without bisection the whole range is retried and given up.
RaisedNoBisect ==
  /\ pc' = "idle" /\ items' = {} /\ chunk' = {} /\ retries' = 0
  /\ \/ /\ tries < MaxRetry
        /\ tries' = tries + 1
        /\ UNCHANGED <<checkpoint, ranges, dlq>>
     \/ /\ tries = MaxRetry
        /\ dlq' = dlq \cup First..Last
        /\ PassRange

\* Mutant: retries are not counted.
RaisedForEver ==
  /\ pc' = "idle" /\ items' = {} /\ chunk' = {} /\ retries' = 0
  /\ \/ Bisect
     \/ First = Last /\ UNCHANGED <<delivery, dlq>>

\* Mutant: the mapping moves on although the invocation raised.
RaisedAndPassed ==
  /\ pc' = "idle" /\ items' = {} /\ chunk' = {} /\ retries' = 0
  /\ PassRange
  /\ UNCHANGED dlq

\* The invocation raised: its range is halved, or retried, or given up.
Raised ==
  /\ pc' = "idle" /\ items' = {} /\ chunk' = {} /\ retries' = 0
  /\ \/ Bisect
     \/ /\ First = Last /\ tries < MaxRetry
        /\ tries' = tries + 1
        /\ UNCHANGED <<checkpoint, ranges, dlq>>
     \/ /\ First = Last /\ tries = MaxRetry
        /\ dlq' = dlq \cup {First}
        /\ PassRange

-----------------------------------------------------------------------------
(* The Lambda.                                                             *)

\* BatchProcessor collects what record_handler returns; the rest failed.
Transform ==
  /\ pc = "idle" /\ ranges # <<>>
  /\ (First..Last) \ Bad # {}
  /\ items' = (First..Last) \ Bad
  /\ pc' = "write"
  /\ UNCHANGED <<faults, delivery, chunk, retries, table, dlq, givenUp>>

\* BatchProcessor raises when every record of the batch failed.
TransformFails ==
  /\ pc = "idle" /\ ranges # <<>>
  /\ First..Last \subseteq Bad
  /\ Raised
  /\ UNCHANGED <<faults, table, givenUp>>

\* The first ChunkSize of a set of records.
Chunk(S) == {i \in S : Cardinality({j \in S : j < i}) < ChunkSize}

StartChunk ==
  /\ pc = "write" /\ chunk = {} /\ items # {}
  /\ chunk' = Chunk(items)
  /\ items' = items \ Chunk(items)
  /\ retries' = 0
  /\ UNCHANGED <<faults, delivery, pc, table, dlq, givenUp>>

\* BatchWriteItem refuses a request that names a key twice.
DuplicateKeys == \E i, j \in chunk : i # j /\ KeyOf[i] = KeyOf[j]

\* PutRequest replaces whatever item there was.
Written(S) ==
  [k \in Key |-> IF \E i \in S : KeyOf[i] = k
                 THEN CHOOSE i \in S : KeyOf[i] = k ELSE table[k]]

\* DynamoDB writes the request but for the records U, which are tried again
\* until the retries run out; then the rest of the batch goes on.
WriteChunk(U) ==
  /\ pc = "write" /\ chunk # {} /\ ~DuplicateKeys
  /\ U \subseteq chunk /\ (U # {} => "throttle" \in faults)
  /\ table' = Written(chunk \ U)
  /\ IF retries < MaxUnprocessedRetries
     THEN /\ chunk' = U
          /\ retries' = IF U = {} THEN retries ELSE retries + 1
          /\ givenUp' = givenUp \ (chunk \ U)
     ELSE /\ chunk' = {}
          /\ retries' = retries
          /\ givenUp' = (givenUp \ (chunk \ U)) \cup U
  /\ UNCHANGED <<faults, delivery, pc, items, dlq>>

\* The client raises, after the request was refused or its reply lost.
WriteRaises ==
  /\ pc = "write" /\ chunk # {}
  /\ \/ (DuplicateKeys \/ "raise" \in faults) /\ UNCHANGED table
     \/ /\ ~DuplicateKeys /\ "raise" \in faults
        /\ \E S \in SUBSET chunk : table' = Written(S)
  /\ Raised
  /\ UNCHANGED <<faults, givenUp>>

Crash ==
  /\ "crash" \in faults
  /\ pc = "write"
  /\ Raised
  /\ UNCHANGED <<faults, table, givenUp>>

\* Every chunk is written.  The mapping has no function_response_types, so
\* the batchItemFailures that the handler returns are not looked at.
Return ==
  /\ pc = "write" /\ chunk = {} /\ items = {}
  /\ PassRange
  /\ pc' = "idle"
  /\ UNCHANGED <<faults, items, chunk, retries, table, dlq, givenUp>>

Next ==
  \/ \E n \in 1..BatchSize : Poll(n)
  \/ Transform \/ TransformFails \/ StartChunk
  \/ \E U \in SUBSET (1..N) : WriteChunk(U)
  \/ WriteRaises \/ Crash \/ Return

Spec == Init /\ [][Next]_vars
\* The mapping polls and Lambda runs; every step of theirs gets its turn.
FairSpec == Spec /\ WF_vars(Next)

-----------------------------------------------------------------------------
(* Properties.                                                             *)

(* A good record the shard has moved past is in the table, itself or a     *)
(* newer record of its key, unless it was dead-lettered or given up:       *)
(* whatever raised, was halved or delivered again, no older record is left *)
(* on top of a newer one.                                                  *)
PassedIsStored ==
  \A i \in (1..checkpoint) \ (Bad \cup dlq \cup givenUp) : table[KeyOf[i]] >= i

(* Unless calls raise or invocations die, a record that can be transformed *)
(* and written is not dead-lettered for the company it keeps: bad records, *)
(* or others with its key.                                                 *)
GoodRecordNotDeadLettered ==
  faults \cap {"raise", "crash"} = {} => dlq \subseteq Bad

(* The shard is read to its end: no poison record holds it up for ever.    *)
ShardDrains == <>(checkpoint = N)

(* The module comment and the docstrings say that a failed record of a     *)
(* batch is processed again from its sequence number on; then it would     *)
(* end in the dead-letter queue and not be passed in silence.              *)
BadRecordIsKept == \A i \in Bad : i <= checkpoint => i \in dlq

=============================================================================

------------------------- MODULE SepIngestorProofs -------------------------
(***************************************************************************)
(* Proofs about SepIngestor for every set of messages, rows, keys and      *)
(* invocations: the type invariant, that the first writer of a key wins,   *)
(* and that an acknowledged message has all its valid rows in the table.   *)
(***************************************************************************)
EXTENDS SepIngestor, TLAPS

USE IngestorAssumption DEF FaultKinds

-----------------------------------------------------------------------------
(* Type correctness.                                                       *)

(* Putting a row, conditionally, keeps the table a function from keys to   *)
(* rows or None, never replaces an item and leaves one under the row's key *)
LEMMA PutFacts ==
  ASSUME table \in [Key -> Row \cup {None}], NEW r \in Row, ConditionalPut(r)
  PROVE  /\ table' \in [Key -> Row \cup {None}]
         /\ \A k \in Key : table[k] # None => table'[k] = table[k]
         /\ table'[KeyOf[r]] # None
BY DEF ConditionalPut

(* The row an invocation is about to handle is a row.                      *)
LEMMA NextRowIsRow ==
  ASSUME TypeOK, NEW w \in Worker, RowsLeft(w)
  PROVE  NextRow(w) \in Row
BY DEF TypeOK, RowsLeft, NextRow

(* Every variable keeps its type: in particular a message is never         *)
(* received more often than the redrive policy allows.                     *)
THEOREM TypeCorrect == Spec => []TypeOK
<1>1. Init => TypeOK
  BY DEF Init, TypeOK, QueuePlace
<1>2. TypeOK /\ [Next]_vars => TypeOK'
  <2> SUFFICES ASSUME TypeOK, [Next]_vars PROVE TypeOK'
    OBVIOUS
  <2> USE DEF TypeOK, QueuePlace
  <2>1. ASSUME NEW w \in Worker, NEW B \in SUBSET Message, Receive(w, B)
        PROVE  TypeOK'
    BY <2>1 DEF Receive, Receivable
  <2>2. ASSUME NEW m \in Message, Redrive(m) PROVE TypeOK'
    BY <2>2 DEF Redrive, invocation
  <2>3. ASSUME NEW w \in Worker, NEW m \in Message, StartMessage(w, m)
        PROVE  TypeOK'
    BY <2>3 DEF StartMessage
  <2>4. ASSUME NEW w \in Worker, PutRow(w) PROVE TypeOK'
    BY <2>4, NextRowIsRow, PutFacts DEF PutRow
  <2>5. ASSUME NEW w \in Worker, SkipMalformed(w) PROVE TypeOK'
    BY <2>5 DEF SkipMalformed
  <2>6. ASSUME NEW w \in Worker, RaiseUnreadable(w) PROVE TypeOK'
    BY <2>6 DEF RaiseUnreadable, FailCurrent, RowsLeft
  <2>7. ASSUME NEW w \in Worker, RaiseAwsError(w) PROVE TypeOK'
    BY <2>7, NextRowIsRow, PutFacts DEF RaiseAwsError, FailCurrent, RowsLeft
  <2>8. ASSUME NEW w \in Worker, FinishMessage(w) PROVE TypeOK'
    BY <2>8 DEF FinishMessage
  <2>9. ASSUME NEW w \in Worker, Return(w) PROVE TypeOK'
    BY <2>9 DEF Return, Settle
  <2>10. ASSUME NEW w \in Worker, Crash(w) PROVE TypeOK'
    BY <2>10 DEF Crash
  <2>11. CASE UNCHANGED vars
    BY <2>11 DEF vars
  <2> QED
    BY <2>1, <2>2, <2>3, <2>4, <2>5, <2>6, <2>7, <2>8, <2>9, <2>10, <2>11
       DEF Next, Handle
<1> QED
  BY <1>1, <1>2, PTL DEF Spec

-----------------------------------------------------------------------------
(* What any step does to the table.                                        *)

(* No step removes or replaces an item.                                    *)
LEMMA TableOnlyGrows ==
  ASSUME TypeOK, [Next]_vars
  PROVE  \A k \in Key : table[k] # None => table'[k] = table[k]
<1>1. ASSUME NEW w \in Worker, PutRow(w)
      PROVE  \A k \in Key : table[k] # None => table'[k] = table[k]
  BY <1>1, NextRowIsRow, PutFacts DEF PutRow, TypeOK
<1>2. ASSUME NEW w \in Worker, RaiseAwsError(w)
      PROVE  \A k \in Key : table[k] # None => table'[k] = table[k]
  BY <1>2, NextRowIsRow, PutFacts DEF RaiseAwsError, TypeOK
<1>3. \/ UNCHANGED table
      \/ \E w \in Worker : PutRow(w) \/ RaiseAwsError(w)
  BY DEF Next, Handle, vars, Receive, Redrive, StartMessage, SkipMalformed,
         RaiseUnreadable, FinishMessage, Return, Crash
<1> QED
  BY <1>1, <1>2, <1>3

(* The conditional PutItem makes the first writer of a key win, for any    *)
(* files, retries, crashes and duplicate deliveries.                       *)
THEOREM FirstWriterAlwaysWins == Spec => FirstWriterWins
<1>1. TypeOK /\ [Next]_vars =>
        [\A k \in Key : table[k] # None => table'[k] = table[k]]_vars
  BY TableOnlyGrows
<1> QED
  BY <1>1, TypeCorrect, PTL DEF Spec, FirstWriterWins
-----------------------------------------------------------------------------
(* Acknowledged messages.  DeletedMeansStored is not inductive: a message  *)
(* is deleted because an invocation finished it, so the invariant has to   *)
(* follow the progress of every invocation through its batch.              *)

RowDone(r) == Valid(r) => table[KeyOf[r]] # None

\* The message being handled and those to come belong to the batch.
BatchInv ==
  \A w \in Worker :
    /\ todo[w] \subseteq batch[w]
    /\ current[w] # None => current[w] \in batch[w]

\* The rows before pos of the current message are in the table.
ProgressInv ==
  \A w \in Worker : current[w] # None =>
    \A i \in DOMAIN RowsOf[current[w]] :
      i < pos[w] => RowDone(RowsOf[current[w]][i])

\* A message of the batch that was handled and did not fail is stored.
HandledInv ==
  \A w \in Worker : \A m \in batch[w] :
    m \notin todo[w] \cup failed[w] /\ m # current[w] => Stored(m)

IngestorInv ==
  TypeOK /\ BatchInv /\ ProgressInv /\ HandledInv /\ DeletedMeansStored

(* What has been stored stays stored, since no step empties a key.         *)
LEMMA StoredStays ==
  ASSUME TypeOK, [Next]_vars
  PROVE  /\ \A r \in Row : RowDone(r) => RowDone(r)'
         /\ \A m \in Message : Stored(m) => Stored(m)'
<1>1. \A r \in Row : RowDone(r) => RowDone(r)'
  BY TableOnlyGrows DEF RowDone, Valid
<1> QED
  BY <1>1 DEF Stored, RowsIn, RowDone

(* A message all of whose rows have been passed is stored.                 *)
LEMMA AllRowsPassed ==
  ASSUME TypeOK, ProgressInv, NEW w \in Worker, current[w] # None, ~RowsLeft(w)
  PROVE  Stored(current[w])
<1>1. current[w] \in Message /\ RowsOf[current[w]] \in Seq(Row)
  BY DEF TypeOK
<1>2. \A i \in DOMAIN RowsOf[current[w]] : i < pos[w]
  BY <1>1 DEF TypeOK, RowsLeft
<1> QED
  BY <1>1, <1>2 DEF ProgressInv, Stored, RowsIn, RowDone

(* A step that handles one row of the current message and moves on keeps   *)
(* the invariant, provided the row is now done.                            *)
LEMMA RowPassed ==
  ASSUME IngestorInv, [Next]_vars, NEW w \in Worker, RowsLeft(w),
         NEW r \in Row, r = NextRow(w), RowDone(r)', pos' = [pos EXCEPT ![w] = @ + 1],
         UNCHANGED <<queue, batch, todo, current, failed>>
  PROVE  BatchInv' /\ ProgressInv' /\ HandledInv' /\ DeletedMeansStored'
<1> USE DEF IngestorInv
<1>1. BatchInv'
  BY DEF BatchInv
<1>2. ProgressInv'
  <2> SUFFICES ASSUME NEW v \in Worker, current[v] # None,
                      NEW i \in DOMAIN RowsOf[current[v]], i < pos'[v]
               PROVE  RowDone(RowsOf[current[v]][i])'
    BY DEF ProgressInv
  <2>1. RowsOf[current[v]] \in Seq(Row) /\ RowsOf[current[v]][i] \in Row
    BY DEF TypeOK
  <2>2. CASE i < pos[v]
    BY <2>1, <2>2, StoredStays DEF ProgressInv
  <2>3. CASE ~(i < pos[v])
    <3>1. v = w /\ i = pos[w]
      BY <2>1, <2>3 DEF TypeOK
    <3>2. RowsOf[current[v]][i] = r
      BY <3>1 DEF NextRow
    <3> QED
      BY <3>2 DEF RowDone, Valid
  <2> QED
    BY <2>2, <2>3
<1>3. HandledInv'
  BY StoredStays DEF HandledInv, TypeOK
<1>4. DeletedMeansStored'
  BY StoredStays DEF DeletedMeansStored
<1> QED
  BY <1>1, <1>2, <1>3, <1>4

(* A step that gives up the current message as failed keeps the invariant. *)
LEMMA CurrentFailed ==
  ASSUME IngestorInv, [Next]_vars, NEW w \in Worker, FailCurrent(w),
         UNCHANGED <<queue, batch, todo, pos>>
  PROVE  BatchInv' /\ ProgressInv' /\ HandledInv' /\ DeletedMeansStored'
<1> USE DEF IngestorInv, FailCurrent
<1>1. BatchInv'
  BY DEF BatchInv, TypeOK
<1>2. ProgressInv'
  <2> SUFFICES ASSUME NEW v \in Worker, current'[v] # None,
                      NEW i \in DOMAIN RowsOf[current'[v]], i < pos[v]
               PROVE  RowDone(RowsOf[current[v]][i])'
    BY DEF ProgressInv
  <2>1. current'[v] = current[v] /\ RowsOf[current[v]] \in Seq(Row)
    BY DEF TypeOK
  <2> QED
    BY <2>1, StoredStays DEF ProgressInv
<1>3. HandledInv'
  BY StoredStays DEF HandledInv, TypeOK
<1>4. DeletedMeansStored'
  BY StoredStays DEF DeletedMeansStored
<1> QED
  BY <1>1, <1>2, <1>3, <1>4

(* The strengthened invariant, one step per action.                        *)
THEOREM IngestorInvariant == Spec => []IngestorInv
<1>1. Init => IngestorInv
  <2>1. Init => TypeOK
    BY DEF Init, TypeOK, QueuePlace
  <2> QED
    BY <2>1 DEF Init, IngestorInv, BatchInv, ProgressInv, HandledInv, DeletedMeansStored
<1>2. IngestorInv /\ TypeOK' /\ [Next]_vars => IngestorInv'
  <2> SUFFICES ASSUME IngestorInv, TypeOK', [Next]_vars
               PROVE  BatchInv' /\ ProgressInv' /\ HandledInv' /\ DeletedMeansStored'
    BY DEF IngestorInv
  <2> USE DEF IngestorInv
  <2>1. ASSUME NEW w \in Worker, NEW B \in SUBSET Message, Receive(w, B)
        PROVE  BatchInv' /\ ProgressInv' /\ HandledInv' /\ DeletedMeansStored'
    <3>1. BatchInv'
      BY <2>1 DEF BatchInv, Receive, TypeOK
    <3>2. ProgressInv'
      BY <2>1 DEF ProgressInv, RowDone, Valid, Receive
    <3>3. HandledInv'
      BY <2>1, StoredStays DEF HandledInv, Receive, TypeOK
    <3>4. DeletedMeansStored'
      BY <2>1, StoredStays DEF DeletedMeansStored, Receive, TypeOK
    <3> QED
      BY <3>1, <3>2, <3>3, <3>4
  <2>2. ASSUME NEW m \in Message, Redrive(m)
        PROVE  BatchInv' /\ ProgressInv' /\ HandledInv' /\ DeletedMeansStored'
    <3>1. UNCHANGED <<batch, todo, current, pos, failed, table>>
      BY <2>2 DEF Redrive, invocation
    <3>2. BatchInv' /\ ProgressInv' /\ HandledInv'
      BY <3>1 DEF BatchInv, ProgressInv, HandledInv, RowDone, Valid, Stored
    <3>3. DeletedMeansStored'
      BY <2>2, StoredStays DEF DeletedMeansStored, Redrive, TypeOK
    <3> QED
      BY <3>2, <3>3
  <2>3. ASSUME NEW w \in Worker, NEW m \in Message, StartMessage(w, m)
        PROVE  BatchInv' /\ ProgressInv' /\ HandledInv' /\ DeletedMeansStored'
    <3>1. BatchInv'
      BY <2>3 DEF BatchInv, StartMessage, TypeOK
    <3>2. ProgressInv'
      BY <2>3 DEF ProgressInv, RowDone, Valid, StartMessage, TypeOK
    <3>3. HandledInv'
      BY <2>3, StoredStays DEF HandledInv, StartMessage, TypeOK
    <3>4. DeletedMeansStored'
      BY <2>3, StoredStays DEF DeletedMeansStored, StartMessage
    <3> QED
      BY <3>1, <3>2, <3>3, <3>4
  <2>4. ASSUME NEW w \in Worker, PutRow(w)
        PROVE  BatchInv' /\ ProgressInv' /\ HandledInv' /\ DeletedMeansStored'
    <3>1. PICK r \in Row : r = NextRow(w)
      BY <2>4, NextRowIsRow DEF PutRow
    <3>2. RowDone(r)'
      BY <2>4, <3>1, PutFacts DEF PutRow, RowDone, TypeOK
    <3> QED
      BY <2>4, <3>1, <3>2, RowPassed DEF PutRow
  <2>5. ASSUME NEW w \in Worker, SkipMalformed(w)
        PROVE  BatchInv' /\ ProgressInv' /\ HandledInv' /\ DeletedMeansStored'
    <3>1. PICK r \in Row : r = NextRow(w)
      BY <2>5, NextRowIsRow DEF SkipMalformed
    <3>2. RowDone(r)'
      BY <2>5, <3>1 DEF SkipMalformed, RowDone, Valid
    <3> QED
      BY <2>5, <3>1, <3>2, RowPassed DEF SkipMalformed
  <2>6. ASSUME NEW w \in Worker, RaiseUnreadable(w)
        PROVE  BatchInv' /\ ProgressInv' /\ HandledInv' /\ DeletedMeansStored'
    BY <2>6, CurrentFailed DEF RaiseUnreadable, RowsLeft
  <2>7. ASSUME NEW w \in Worker, RaiseAwsError(w)
        PROVE  BatchInv' /\ ProgressInv' /\ HandledInv' /\ DeletedMeansStored'
    BY <2>7, CurrentFailed DEF RaiseAwsError, RowsLeft
  <2>8. ASSUME NEW w \in Worker, FinishMessage(w)
        PROVE  BatchInv' /\ ProgressInv' /\ HandledInv' /\ DeletedMeansStored'
    <3>1. Stored(current[w])
      BY <2>8, AllRowsPassed DEF FinishMessage
    <3>2. BatchInv'
      BY <2>8 DEF BatchInv, FinishMessage, TypeOK
    <3>3. ProgressInv'
      BY <2>8 DEF ProgressInv, RowDone, Valid, FinishMessage, TypeOK
    <3>4. HandledInv'
      BY <2>8, <3>1, StoredStays DEF HandledInv, FinishMessage, TypeOK
    <3>5. DeletedMeansStored'
      BY <2>8, StoredStays DEF DeletedMeansStored, FinishMessage
    <3> QED
      BY <3>2, <3>3, <3>4, <3>5
  <2>9. ASSUME NEW w \in Worker, Return(w)
        PROVE  BatchInv' /\ ProgressInv' /\ HandledInv' /\ DeletedMeansStored'
    <3>1. BatchInv'
      BY <2>9 DEF BatchInv, Return, TypeOK
    <3>2. ProgressInv'
      BY <2>9 DEF ProgressInv, RowDone, Valid, Return
    <3>3. HandledInv'
      BY <2>9, StoredStays DEF HandledInv, Return, TypeOK
    <3>4. DeletedMeansStored'
      <4> SUFFICES ASSUME NEW m \in Message, queue'[m] = "deleted"
                   PROVE  Stored(m)
        BY StoredStays DEF DeletedMeansStored
      <4>1. queue[m] = "deleted" \/ m \in batch[w] \ failed[w]
        BY <2>9 DEF Return, Settle
      <4>2. m \in batch[w] \ failed[w] => Stored(m)
        BY <2>9 DEF Return, HandledInv
      <4> QED
        BY <4>1, <4>2 DEF DeletedMeansStored
    <3> QED
      BY <3>1, <3>2, <3>3, <3>4
  <2>10. ASSUME NEW w \in Worker, Crash(w)
         PROVE  BatchInv' /\ ProgressInv' /\ HandledInv' /\ DeletedMeansStored'
    <3>1. BatchInv'
      BY <2>10 DEF BatchInv, Crash, TypeOK
    <3>2. ProgressInv'
      BY <2>10 DEF ProgressInv, RowDone, Valid, Crash, TypeOK
    <3>3. HandledInv'
      BY <2>10, StoredStays DEF HandledInv, Crash, TypeOK
    <3>4. DeletedMeansStored'
      BY <2>10, StoredStays DEF DeletedMeansStored, Crash, TypeOK
    <3> QED
      BY <3>1, <3>2, <3>3, <3>4
  <2>11. CASE UNCHANGED vars
    BY <2>11 DEF vars, BatchInv, ProgressInv, HandledInv, DeletedMeansStored,
                 RowDone, Valid, Stored
  <2> QED
    BY <2>1, <2>2, <2>3, <2>4, <2>5, <2>6, <2>7, <2>8, <2>9, <2>10, <2>11
       DEF Next, Handle
<1> QED
  BY <1>1, <1>2, TypeCorrect, PTL DEF Spec

(* A message leaves the queue only when each of its valid rows has an item *)
(* in the table, for any files, batches, retries, crashes and duplicates.  *)
THEOREM AcknowledgedIsStored == Spec => []DeletedMeansStored
<1>1. IngestorInv => DeletedMeansStored
  BY DEF IngestorInv
<1> QED
  BY <1>1, IngestorInvariant, PTL

-----------------------------------------------------------------------------
(* Refinement: every step is a step of SepDelivery or changes neither the  *)
(* fate of a message nor the set of filled keys.                           *)

Filled == {k \in Key : table[k] # None}
KeysNamed(m) == {KeyOf[r] : r \in {q \in RowsIn(m) : Valid(q)}}

(* A stored message has all its keys filled.                               *)
LEMMA StoredIsFilled ==
  ASSUME TypeOK, NEW m \in Message, Stored(m)
  PROVE  KeysNamed(m) \subseteq Filled
<1>1. RowsIn(m) \subseteq Row
  BY DEF RowsIn
<1> QED
  BY <1>1 DEF Stored, KeysNamed, Filled

(* A put fills a key of a message that was not consumed, or nothing new.   *)
LEMMA PutFills ==
  ASSUME IngestorInv, NEW w \in Worker, RowsLeft(w), Valid(NextRow(w)),
         ConditionalPut(NextRow(w)), UNCHANGED queue
  PROVE  [Delivery!Next]_(Delivery!vars)
<1> USE DEF IngestorInv
<1>1. PICK m \in Message : m = current[w]
  BY DEF TypeOK, RowsLeft
<1>2. PICK k \in KeysNamed(m) : k = KeyOf[NextRow(w)] /\ k \in Key
  <2>1. NextRow(w) \in RowsIn(m) /\ NextRow(w) \in Row
    BY <1>1, NextRowIsRow DEF TypeOK, RowsLeft, NextRow, RowsIn
  <2> QED
    BY <2>1 DEF KeysNamed
<1>3. Filled' = Filled \cup {k}
  BY <1>2, NextRowIsRow DEF Filled, ConditionalPut, TypeOK
<1>4. Fate' = Fate
  BY DEF Fate
<1>5. CASE queue[m] = "deleted"
  <2>1. k \in Filled
    BY <1>1, <1>2, <1>5, StoredIsFilled DEF DeletedMeansStored
  <2>2. Filled' = Filled
    BY <1>3, <2>1
  <2> QED
    BY <1>4, <2>2 DEF Delivery!vars, Filled
<1>6. CASE queue[m] # "deleted"
  <2>1. Fate[m] # "consumed"
    BY <1>1, <1>6 DEF Fate
  <2>2. Delivery!Fill(m, k)
    BY <1>2, <1>3, <1>4, <2>1 DEF Delivery!Fill, Filled, KeysNamed
  <2> QED
    BY <2>2 DEF Delivery!Next, KeysNamed
<1> QED
  BY <1>5, <1>6

(* The ingestor and its queue implement SepDelivery, for any files,        *)
(* batches, crashes, duplicates and number of concurrent invocations.      *)
THEOREM IngestorDelivers == Spec => DeliverySpec
<1>1. Init => Delivery!Init
  BY DEF Init, Delivery!Init, Fate
<1>2. IngestorInv /\ [Next]_vars => [Delivery!Next]_(Delivery!vars)
  <2> SUFFICES ASSUME IngestorInv, [Next]_vars
               PROVE  [Delivery!Next]_(Delivery!vars)
    OBVIOUS
  <2>1. ASSUME UNCHANGED <<Fate, table>> PROVE UNCHANGED Delivery!vars
    BY <2>1 DEF Delivery!vars
  <2>2. ASSUME NEW w \in Worker, NEW B \in SUBSET Message, Receive(w, B)
        PROVE  UNCHANGED <<Fate, table>>
    <3>1. \A m \in B : queue[m] \in {"visible", "inflight"} /\ queue'[m] = "inflight"
      BY <2>2 DEF Receive, Receivable
    <3>2. \A m \in Message \ B : queue'[m] = queue[m]
      BY <2>2 DEF Receive
    <3> QED
      BY <2>2, <3>1, <3>2 DEF Fate, Receive
  <2>3. ASSUME NEW m \in Message, Redrive(m) PROVE Delivery!GiveUp(m)
    <3>1. Fate[m] = "queued" /\ Fate' = [Fate EXCEPT ![m] = "dead"]
      BY <2>3 DEF Redrive, Fate, IngestorInv, TypeOK
    <3> QED
      BY <2>3, <3>1 DEF Delivery!GiveUp, Redrive
  <2>4. ASSUME NEW w \in Worker, PutRow(w) PROVE [Delivery!Next]_(Delivery!vars)
    BY <2>4, PutFills DEF PutRow, Valid
  <2>5. ASSUME NEW w \in Worker, RaiseAwsError(w)
        PROVE  [Delivery!Next]_(Delivery!vars)
    <3>1. CASE UNCHANGED table
      BY <2>1, <2>5, <3>1 DEF RaiseAwsError, Fate
    <3>2. CASE Valid(NextRow(w)) /\ ConditionalPut(NextRow(w))
      BY <2>5, <3>2, PutFills DEF RaiseAwsError
    <3> QED
      BY <2>5, <3>1, <3>2 DEF RaiseAwsError, Valid
  <2>6. ASSUME NEW w \in Worker, Return(w) PROVE [Delivery!Next]_(Delivery!vars)
    <3> DEFINE S == {m \in Message : queue[m] # "deleted" /\ queue'[m] = "deleted"}
    <3>1. \A m \in S : Fate[m] = "queued" /\ KeysNamed(m) \subseteq Filled
      <4> SUFFICES ASSUME NEW m \in S
                   PROVE  Fate[m] = "queued" /\ KeysNamed(m) \subseteq Filled
        OBVIOUS
      <4>1. queue[m] # "dlq" /\ m \in batch[w] \ failed[w]
        BY <2>6 DEF Return, Settle
      <4>2. Stored(m)
        BY <2>6, <4>1 DEF Return, IngestorInv, HandledInv
      <4> QED
        BY <4>1, <4>2, StoredIsFilled DEF Fate, IngestorInv
    <3>2. Fate' = [m \in Message |-> IF m \in S THEN "consumed" ELSE Fate[m]]
      <4> SUFFICES ASSUME NEW m \in Message
                   PROVE  Fate'[m] = IF m \in S THEN "consumed" ELSE Fate[m]
        BY DEF Fate
      <4>1. CASE m \in S
        BY <4>1 DEF Fate
      <4>2. CASE m \notin S
        BY <2>6, <4>2 DEF Fate, Return, Settle
      <4> QED
        BY <4>1, <4>2
    <3>3. Delivery!Consume(S)
      BY <2>6, <3>1, <3>2 DEF Delivery!Consume, Return, KeysNamed, Filled
    <3> QED
      BY <3>3 DEF Delivery!Next
  <2>7. ASSUME NEW w \in Worker, Crash(w) PROVE UNCHANGED <<Fate, table>>
    BY <2>7 DEF Crash, Fate
  <2>8. ASSUME NEW w \in Worker,
               \/ \E m \in Message : StartMessage(w, m)
               \/ SkipMalformed(w) \/ RaiseUnreadable(w) \/ FinishMessage(w)
        PROVE  UNCHANGED <<Fate, table>>
    BY <2>8 DEF StartMessage, SkipMalformed, RaiseUnreadable, FinishMessage, Fate
  <2>9. CASE UNCHANGED vars
    BY <2>1, <2>9 DEF vars, Fate
  <2> QED
    BY <2>1, <2>2, <2>3, <2>4, <2>5, <2>6, <2>7, <2>8, <2>9
       DEF Next, Handle, Delivery!Next
<1> QED
  BY <1>1, <1>2, IngestorInvariant, PTL DEF Spec, DeliverySpec, Delivery!Spec
-----------------------------------------------------------------------------
(* Isolation of poison messages.  HealthyNotDeadLettered is about one      *)
(* place of a message; what keeps it from there is that a readable message *)
(* fails in no invocation and so is never visible a second time.           *)

Calm == faults \cap {"aws", "crash"} = {}
Healthy(m) == RowsIn(m) \cap Unreadable = {}

HealthyInv ==
  Calm => \A m \in Message : Healthy(m) =>
    /\ queue[m] # "dlq"
    /\ queue[m] = "visible" => receives[m] = 0
    /\ \A w \in Worker : m \notin failed[w]

(* The row at which an invocation stands is one of its message's rows.     *)
LEMMA NextRowIsInMessage ==
  ASSUME TypeOK, NEW w \in Worker, RowsLeft(w)
  PROVE  current[w] \in Message /\ NextRow(w) \in RowsIn(current[w])
<1>1. current[w] \in Message /\ RowsOf[current[w]] \in Seq(Row)
  BY DEF TypeOK, RowsLeft
<1>2. pos[w] \in DOMAIN RowsOf[current[w]]
  BY <1>1 DEF TypeOK, RowsLeft
<1> QED
  BY <1>1, <1>2 DEF NextRow, RowsIn

(* No step lets a readable message fail or become visible again.           *)
LEMMA HealthyStays ==
  ASSUME TypeOK, HealthyInv, [Next]_vars
  PROVE  HealthyInv'
<1> USE DEF HealthyInv, Calm, Healthy, RowsIn
<1>1. ASSUME NEW w \in Worker, NEW B \in SUBSET Message, Receive(w, B)
      PROVE  HealthyInv'
  BY <1>1 DEF Receive, TypeOK
<1>2. ASSUME NEW m \in Message, Redrive(m) PROVE HealthyInv'
  BY <1>2 DEF Redrive, invocation, TypeOK
<1>3. ASSUME NEW w \in Worker, RaiseUnreadable(w) PROVE HealthyInv'
  <2>1. NextRow(w) \in RowsIn(current[w]) \cap Unreadable
    BY <1>3, NextRowIsInMessage DEF RaiseUnreadable
  <2>2. \A m \in Message, v \in Worker :
          Healthy(m) /\ m \notin failed[v] => m \notin failed'[v]
    BY <1>3, <2>1 DEF RaiseUnreadable, FailCurrent, TypeOK
  <2> QED
    BY <1>3, <2>2 DEF RaiseUnreadable
<1>4. ASSUME NEW w \in Worker, Return(w) PROVE HealthyInv'
  BY <1>4 DEF Return, Settle, TypeOK
<1>5. ASSUME NEW w \in Worker, RaiseAwsError(w) \/ Crash(w) PROVE HealthyInv'
  BY <1>5 DEF RaiseAwsError, Crash
<1>6. ASSUME NEW w \in Worker,
             \/ \E m \in Message : StartMessage(w, m)
             \/ PutRow(w) \/ SkipMalformed(w) \/ FinishMessage(w)
      PROVE  HealthyInv'
  BY <1>6 DEF StartMessage, PutRow, SkipMalformed, FinishMessage
<1>7. CASE UNCHANGED vars
  BY <1>7 DEF vars
<1> QED
  BY <1>1, <1>2, <1>3, <1>4, <1>5, <1>6, <1>7 DEF Next, Handle

(* While AWS neither raises nor kills an invocation, no readable message   *)
(* is dead-lettered, whatever poison it shares its batches with and        *)
(* however often it is delivered.                                          *)
THEOREM HealthyNeverDeadLettered == Spec => []HealthyNotDeadLettered
<1>1. Init => HealthyInv
  BY DEF Init, HealthyInv
<1>2. TypeOK /\ HealthyInv /\ [Next]_vars => HealthyInv'
  BY HealthyStays
<1>3. HealthyInv => HealthyNotDeadLettered
  BY DEF HealthyInv, HealthyNotDeadLettered, Calm, Healthy
<1> QED
  BY <1>1, <1>2, <1>3, TypeCorrect, PTL DEF Spec
=============================================================================

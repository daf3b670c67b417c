--------------------------- MODULE ServerlessItems ---------------------------
(***************************************************************************)
(* serverless-api-platform: the items API and its audit log.  Handlers     *)
(* read an item, compare its owner and write it in a second call; DynamoDB *)
(* removes what has expired; a client pages through its items while they   *)
(* change; the stream of the table is written to S3 in batches that report *)
(* the records they failed on.  No read of the table asks for consistency  *)
(* and its index cannot give it: each may show an older version of an item.*)
(***************************************************************************)
EXTENDS Naturals, Sequences

CONSTANTS
  User,        \* Cognito subjects
  Request,     \* PUT and DELETE requests under way at a time
  MaxItems,    \* bound: items created
  MaxChanges,  \* bound: writes to the table
  MaxSecond,   \* bound: seconds in which the processor puts logs
  MaxFaults,   \* bound: records and batches of the processor that fail
  None

Row == [owner : User, status : {"ACTIVE", "ARCHIVED"}, expires : BOOLEAN]

ASSUME ItemsAssumption ==
  /\ {MaxItems, MaxChanges, MaxSecond, MaxFaults} \subseteq Nat
  /\ None \notin User \cup Row

VARIABLES
  item,      \* the table: item[i], or None; i counts the creations
  stale,     \* stale[i]: owners of i, or None, that a read or the index may still show
  created,   \* items created so far, in the order of created_at
  request,   \* request[r]: a write between its two calls, or None
  listing,   \* a client that pages through its items
  stream,    \* the item of every change, in the order of the stream
  saved,     \* history: changes whose log was put to S3
  audit,     \* the bucket: the change in object <item_id>-<second>, 0 without one
  batch,     \* the shard: checkpoint, record in hand, failures reported
  faults

table == <<item, stale, created, stream>>
processor == <<saved, audit, batch, faults>>
vars == <<table, request, listing, processor>>

Id == 1..MaxItems
Ops == {"rename", "archive", "restore"}

\* What is read of an item, or None when there is none.
OwnerOf(row) == IF row = None THEN None ELSE row.owner

\* What a read of the table or of its index may show of i.
Readable(i) == stale[i] \cup {OwnerOf(item[i])}

Owned(u) == {i \in Id : OwnerOf(item[i]) = u}

NoListing == [user |-> None, cursor |-> 0, got |-> <<>>, stable |-> {}, done |-> FALSE]

Init ==
  /\ item = [i \in Id |-> None] /\ stale = [i \in Id |-> {}] /\ created = 0 /\ stream = <<>>
  /\ request = [r \in Request |-> None]
  /\ listing = NoListing
  /\ saved = {}
  /\ audit = [key \in Id \X (1..MaxSecond) |-> 0]
  /\ batch = [ckpt |-> 0, next |-> 0, failed |-> {}]
  /\ faults = 0

Write(i, row) ==
  /\ Len(stream) < MaxChanges
  /\ item' = [item EXCEPT ![i] = row]
  /\ stale' = [stale EXCEPT ![i] = Readable(i) \ {OwnerOf(row)}]
  /\ stream' = Append(stream, i)

\* All copies of the item, and the index, have its last version.
Replicate(i) ==
  /\ stale[i] # {}
  /\ stale' = [stale EXCEPT ![i] = {}]
  /\ UNCHANGED <<item, created, stream, request, listing, processor>>

(***************************************************************************)
(* The handlers of the API.                                                *)
(***************************************************************************)
\* put_item with attribute_not_exists(PK).
Create(i, row) == item[i] = None /\ Write(i, row)

CreateItem(u) ==
  /\ created < MaxItems
  /\ created' = created + 1
  /\ \E expires \in BOOLEAN :
       Create(created', [owner |-> u, status |-> "ACTIVE", expires |-> expires])
  /\ UNCHANGED <<request, listing, processor>>

Found(owner) == owner # None

\* What GET answers, and PUT and DELETE when they end after reading.
Answer(u, owner) == IF ~Found(owner) THEN 404 ELSE IF owner # u THEN 403 ELSE 200

\* get, then the check of the owner: 404 and 403 end the request here.
CheckOwner(r) ==
  /\ request[r] = None
  /\ \E u \in User, op \in Ops, i \in Id : \E owner \in Readable(i) :
       /\ Answer(u, owner) = 200
       /\ request' = [request EXCEPT ![r] = [user |-> u, op |-> op, id |-> i]]
  /\ UNCHANGED <<table, listing, processor>>

\* PUT with a name, with a status, or DELETE, which archives.
Updated(row, op) ==
  [row EXCEPT !.status = CASE op = "archive" -> "ARCHIVED" [] op = "restore" -> "ACTIVE" [] OTHER -> @,
              !.expires = @ \/ op = "archive"]

\* A bug: no attribute_exists, and UpdateItem makes a new row.
WriteOrMake(q) ==
  IF item[q.id] = None
  THEN Write(q.id, [owner |-> q.user, status |-> "ACTIVE", expires |-> FALSE])
  ELSE Write(q.id, Updated(item[q.id], q.op))

\* attribute_exists(PK) fails for an item that went in the meantime.
WriteIfThere(q) ==
  IF item[q.id] = None THEN UNCHANGED <<item, stale, stream>>
  ELSE Write(q.id, Updated(item[q.id], q.op))

UpdateItem(r) ==
  /\ request[r] # None
  /\ WriteIfThere(request[r])
  /\ request' = [request EXCEPT ![r] = None]
  /\ UNCHANGED <<created, listing, processor>>

\* The time to live of DynamoDB, some time after expires_at.
Expire(i) ==
  /\ item[i] # None /\ item[i].expires
  /\ Write(i, None)
  /\ listing' = [listing EXCEPT !.stable = @ \ {i}]
  /\ UNCHANGED <<created, request, processor>>

(***************************************************************************)
(* GET /items, one item a page, newest first; the cursor is the key of the *)
(* last item of the page before.                                           *)
(***************************************************************************)
\* The items of which every read shows that they are there, and of u.
Shown(u) == {i \in Id : Readable(i) = {u}}

StartListing(u) ==
  /\ listing = NoListing
  /\ listing' = [user |-> u, cursor |-> 1 + MaxItems + MaxChanges, got |-> <<>>,
                 stable |-> Shown(u), done |-> FALSE]
  /\ UNCHANGED <<table, request, processor>>

\* A bug: the index sorts by the last update.
UpdateKey(i) == CHOOSE k \in DOMAIN stream : stream[k] = i /\ \A j \in DOMAIN stream : stream[j] = i => j <= k

\* created_at is the range key of user-index.
SortKey(i) == i

\* What a query for the items of u may find; every page is a query of its own.
Views(u) == {view \in SUBSET {i \in Id : u \in Readable(i)} : Shown(u) \subseteq view}

\* The newest item behind the cursor; without one the listing is at its end.
Page(view) ==
  LET rest == {i \in view : SortKey(i) < listing.cursor} IN
  IF rest = {} THEN listing' = [listing EXCEPT !.done = TRUE]
  ELSE \E i \in rest :
         /\ \A j \in rest : SortKey(j) <= SortKey(i)
         /\ listing' = [listing EXCEPT !.got = Append(@, i), !.cursor = SortKey(i)]

NextPage ==
  /\ listing.user # None /\ ~listing.done
  /\ \E view \in Views(listing.user) : Page(view)
  /\ UNCHANGED <<table, request, processor>>

(***************************************************************************)
(* The stream processor.  A batch may end after any of its records.        *)
(***************************************************************************)
\* The object is named after the item and the second of the processing, here
\* any: records follow each other within a second or not.
ProcessRecord ==
  LET k == batch.next + 1 IN
  /\ k <= Len(stream)
  /\ batch' = [batch EXCEPT !.next = k]
  /\ \E second \in 1..MaxSecond : audit' = [audit EXCEPT ![<<stream[k], second>>] = k]
  /\ saved' = saved \cup {k}
  /\ UNCHANGED <<table, request, listing, faults>>

RecordFails ==
  /\ batch.next < Len(stream) /\ faults < MaxFaults /\ faults' = faults + 1
  /\ batch' = [batch EXCEPT !.next = @ + 1, !.failed = @ \cup {batch.next + 1}]
  /\ UNCHANGED <<table, request, listing, saved, audit>>

\* Lambda goes on at the lowest sequence number reported.
Checkpoint(failed, next) == IF failed = {} THEN next ELSE (CHOOSE k \in failed : \A j \in failed : k <= j) - 1

\* A bug: the list of failures outlives the invocation.
EndBatchKeepingFailures ==
  LET ckpt == Checkpoint(batch.failed, batch.next) IN
  /\ batch.next > batch.ckpt
  /\ batch' = [batch EXCEPT !.ckpt = ckpt, !.next = ckpt]
  /\ UNCHANGED <<table, request, listing, saved, audit, faults>>

EndBatch ==
  LET ckpt == Checkpoint(batch.failed, batch.next) IN
  /\ batch.next > batch.ckpt
  /\ batch' = [ckpt |-> ckpt, next |-> ckpt, failed |-> {}]
  /\ UNCHANGED <<table, request, listing, saved, audit, faults>>

\* The invocation itself fails: the batch is halved and tried again.
BatchFails ==
  /\ batch.next > batch.ckpt /\ faults < MaxFaults /\ faults' = faults + 1
  /\ batch' = [batch EXCEPT !.next = batch.ckpt, !.failed = {}]
  /\ UNCHANGED <<table, request, listing, saved, audit>>

Next ==
  \/ \E u \in User : CreateItem(u) \/ StartListing(u)
  \/ \E r \in Request : CheckOwner(r) \/ UpdateItem(r)
  \/ \E i \in Id : Replicate(i) \/ Expire(i)
  \/ NextPage \/ ProcessRecord \/ RecordFails \/ EndBatch \/ BatchFails

Spec == Init /\ [][Next]_vars

\* The time to live removes what has expired, and Lambda reads the shard.
FairSpec ==
  /\ Spec
  /\ \A i \in Id : WF_vars(Expire(i))
  /\ WF_vars(ProcessRecord) /\ WF_vars(EndBatch)

-----------------------------------------------------------------------------
TypeOK ==
  /\ item \in [Id -> {None} \cup Row] /\ stale \in [Id -> SUBSET (User \cup {None})]
  /\ created \in 0..MaxItems
  /\ stream \in Seq(Id) /\ Len(stream) <= MaxChanges
  /\ \A r \in Request : request[r] = None \/ request[r] \in [user : User, op : Ops, id : Id]
  /\ listing.user \in User \cup {None} /\ listing.got \in Seq(Id) /\ listing.stable \subseteq Id
  /\ saved \subseteq 1..MaxChanges
  /\ audit \in [Id \X (1..MaxSecond) -> 0..MaxChanges]
  /\ batch \in [ckpt : 0..Len(stream), next : 0..Len(stream), failed : SUBSET (1..Len(stream))]
  /\ faults \in 0..MaxFaults

\* A write that is past its owner check when the item expires brings nothing
\* back: an item that is gone stays gone.
NoGhosts == [][\A i \in 1..created : item[i] = None => item'[i] = None]_item

\* A client that follows the cursor to the end gets every item exactly once that
\* it had all the time and that the index showed when it began, whatever is
\* created, updated or expires between the pages and however the index lags.
PagesAreComplete ==
  /\ listing.done => \A i \in listing.stable : \E k \in DOMAIN listing.got : listing.got[k] = i
  /\ \A j, k \in DOMAIN listing.got : listing.got[j] = listing.got[k] => j = k

\* The shard is never read past a change that was not logged, however failures
\* of single records and of batches mix.
CheckpointIsSafe == 1..batch.ckpt \subseteq saved

\* The type invariant, and the two readers of what changes under them: a listing
\* leaves no item out, and the audit passes no change over.
NothingIsMissed == TypeOK /\ PagesAreComplete /\ CheckpointIsSafe

\* Time and again every change of the table has been logged, and every archived
\* item is gone, restored, or stays only because the bound on writes is reached.
ChangesSettle ==
  []<>(/\ 1..Len(stream) \subseteq saved
       /\ \/ Len(stream) = MaxChanges
          \/ \A i \in Id : item[i] = None \/ item[i].status = "ACTIVE")

\* tests/integration/test_api_e2e.py:94 says that a list asked for after an item
\* was created contains it.  The index may not have got it yet.
ListContainsCreated ==
  [][LET u == listing.user
     IN  NextPage /\ listing.got = <<>> /\ Owned(u) # {}
           => listing'.got # <<>> /\ \A i \in Owned(u) : i <= listing'.got[1]]_vars

\* A change that was logged has its object in the bucket for good.
AuditKeepsEveryChange == \A k \in saved : \E key \in DOMAIN audit : audit[key] = k
=============================================================================

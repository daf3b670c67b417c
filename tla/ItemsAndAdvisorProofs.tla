------------------------ MODULE ItemsAndAdvisorProofs ------------------------
(***************************************************************************)
(* Proofs about ServerlessItems and IamAdvisor.  The two components have   *)
(* nothing in common but the lemma on least elements.                      *)
(*                                                                         *)
(* ServerlessItems, for any users, requests and bounds: a listing leaves   *)
(* no item out and repeats none, the audit passes no change over, and an   *)
(* item that is gone stays gone.  PagesAreComplete speaks of the end of a  *)
(* listing only.  Its strengthening says what is true between two pages:   *)
(* what is owed to the user is shown as its own by every read, and lies    *)
(* ahead of the cursor or has been got, in falling order.  CheckpointIsSafe speaks of the checkpoint; behind the   *)
(* record in hand every change was logged or is reported as failed.        *)
(*                                                                         *)
(* IamAdvisor, for any roles, policies, findings and answers of the model  *)
(* and any number of overlapping invocations: what the pull requests and   *)
(* the files are promised to be.  NoDuplicateProposal and                  *)
(* PullRequestsShowTheirProposal need to know who may touch a branch:      *)
(* OwnerInv says that from the branch to its pull request one invocation   *)
(* works on it, and what the branch holds meanwhile; RequestInv that an    *)
(* open pull request is alone on its branch.                               *)
(***************************************************************************)
EXTENDS ServerlessItems, IamAdvisor, WellFoundedInduction, TLAPS

(* A set of naturals that is not empty has a least element.                *)
LEMMA LeastExists ==
  ASSUME NEW S \in SUBSET Nat, S # {}
  PROVE  \E k \in S : \A j \in S : k <= j
<1> DEFINE R == {p \in Nat \X Nat : p[1] < p[2]}
<1>1. IsWellFoundedOn(R, Nat)
  BY NatLessThanWellFounded DEF OpToRel
<1>2. PICK k \in S : \A j \in S : <<j, k>> \notin R
  <2> HIDE DEF R
  <2> QED BY <1>1, WFMin
<1>3. ASSUME NEW j \in S PROVE k <= j
  <2>1. j \in Nat /\ k \in Nat
    OBVIOUS
  <2>2. ~ j < k
    BY <1>2, <2>1
  <2> QED BY <2>1, <2>2
<1> QED BY <1>3

USE ItemsAssumption DEF Id, Ops

\* The bounds, one by one.
LEMMA Bounds == MaxItems \in Nat /\ MaxChanges \in Nat /\ MaxSecond \in Nat /\ MaxFaults \in Nat
OBVIOUS

\* The listing as a whole; TypeOK has what the others use of it.
ListingType ==
  listing \in [user : User \cup {None}, cursor : Nat, got : Seq(Id), stable : SUBSET Id,
               done : BOOLEAN]

\* Between two pages.
ListingInv ==
  /\ ListingType
  /\ listing.user = None => listing = NoListing
  /\ listing.stable \subseteq Shown(listing.user)
  /\ \A k \in DOMAIN listing.got : listing.cursor <= listing.got[k]
  /\ \A j, k \in DOMAIN listing.got : j < k => listing.got[k] < listing.got[j]
  /\ \A i \in listing.stable :
       i >= listing.cursor \/ listing.done => \E k \in DOMAIN listing.got : listing.got[k] = i

\* Between two records.
ShardInv ==
  /\ batch.ckpt <= batch.next
  /\ \A k \in batch.failed : batch.ckpt < k /\ k <= batch.next
  /\ \A k \in 1..batch.next : k \in saved \/ k \in batch.failed

ItemsInv == TypeOK /\ ListingInv /\ ShardInv

(* The strengthening says more than the property.                          *)
LEMMA ItemsInvSuffices == ItemsInv => NothingIsMissed
<1> SUFFICES ASSUME ItemsInv PROVE NothingIsMissed
  OBVIOUS
<1>1. PagesAreComplete
  <2>1. ASSUME NEW j \in DOMAIN listing.got, NEW k \in DOMAIN listing.got,
               listing.got[j] = listing.got[k]
        PROVE  j = k
    <3>1. j \in Nat /\ k \in Nat /\ listing.got[j] \in Nat /\ listing.got[k] \in Nat
      BY DEF ItemsInv, ListingInv, ListingType
    <3>2. ~ j < k /\ ~ k < j
      BY <2>1, <3>1 DEF ItemsInv, ListingInv
    <3> QED BY <3>1, <3>2
  <2>2. listing.done => \A i \in listing.stable : \E k \in DOMAIN listing.got : listing.got[k] = i
    BY DEF ItemsInv, ListingInv
  <2> QED BY <2>1, <2>2 DEF PagesAreComplete
<1>2. CheckpointIsSafe
  <2>1. batch.ckpt \in Nat /\ batch.next \in Nat
    BY DEF ItemsInv, TypeOK
  <2> SUFFICES ASSUME NEW k \in 1..batch.ckpt PROVE k \in saved
    BY DEF CheckpointIsSafe
  <2>2. k \in 1..batch.next /\ k \notin batch.failed
    BY <2>1 DEF ItemsInv, ShardInv
  <2> QED BY <2>2 DEF ItemsInv, ShardInv
<1> QED
  BY <1>1, <1>2 DEF ItemsInv, NothingIsMissed

(* The table, the listing and the bucket are empty at the start.           *)
LEMMA InitItems == Init => ItemsInv
<1> SUFFICES ASSUME Init PROVE ItemsInv
  OBVIOUS
<1>1. listing = [user |-> None, cursor |-> 0, got |-> <<>>, stable |-> {}, done |-> FALSE]
      /\ batch = [ckpt |-> 0, next |-> 0, failed |-> {}] /\ stream = <<>> /\ saved = {}
  BY DEF Init, NoListing
<1>2. ListingInv
  BY <1>1 DEF ListingInv, ListingType, NoListing
<1>3. ShardInv
  BY <1>1 DEF ShardInv
<1>4. TypeOK
  BY <1>1 DEF Init, TypeOK
<1> QED
  BY <1>2, <1>3, <1>4 DEF ItemsInv

-----------------------------------------------------------------------------
(* A write makes the stream longer and changes one item.                   *)
LEMMA WriteFacts ==
  ASSUME TypeOK, NEW i \in Id, NEW row \in Row \cup {None}, Write(i, row)
  PROVE  /\ item' = [item EXCEPT ![i] = row] /\ item' \in [Id -> {None} \cup Row]
         /\ stream' \in Seq(Id) /\ Len(stream') <= MaxChanges /\ Len(stream') = Len(stream) + 1
         /\ stale' \in [Id -> SUBSET (User \cup {None})]
         /\ \A j \in Id : j # i => Readable(j)' = Readable(j)
         /\ Readable(i)' = Readable(i) \cup {OwnerOf(row)}
<1>1. Len(stream) \in Nat /\ stream \in Seq(Id)
  BY DEF TypeOK
<1>2. OwnerOf(item[i]) \in User \cup {None}
  BY DEF OwnerOf, TypeOK, Row
<1>3. item' = [item EXCEPT ![i] = row] /\ stale' = [stale EXCEPT ![i] = Readable(i) \ {OwnerOf(row)}]
  BY DEF Write
<1>4. stale' \in [Id -> SUBSET (User \cup {None})]
  <2>1. Readable(i) \ {OwnerOf(row)} \in SUBSET (User \cup {None})
    BY <1>2 DEF Readable, TypeOK
  <2> HIDE DEF ItemsAssumption
  <2> QED BY <1>3, <2>1 DEF TypeOK
<1>5. \A j \in Id : j # i => Readable(j)' = Readable(j)
  BY <1>3 DEF Readable, TypeOK
<1>6. Readable(i)' = Readable(i) \cup {OwnerOf(row)}
  BY <1>3 DEF Readable, TypeOK
<1> QED
  BY <1>1, <1>3, <1>4, <1>5, <1>6 DEF Write, TypeOK

(* An update keeps the owner.                                              *)
LEMMA UpdatedFacts ==
  ASSUME NEW row \in Row, NEW op \in Ops
  PROVE  Updated(row, op) \in Row /\ Updated(row, op).owner = row.owner
<1> DEFINE status == CASE op = "archive" -> "ARCHIVED" [] op = "restore" -> "ACTIVE"
                       [] OTHER -> row.status
<1>1. status \in {"ACTIVE", "ARCHIVED"}
  BY DEF Row
<1> HIDE DEF status
<1>2. Updated(row, op) = [row EXCEPT !.status = status, !.expires = row.expires \/ op = "archive"]
  BY DEF Updated, status
<1> QED
  BY <1>1, <1>2 DEF Row

(* When the stream grows, what the processor knows of it stays right.      *)
LEMMA LongerStream ==
  ASSUME TypeOK, stream' \in Seq(Id), Len(stream') <= MaxChanges, Len(stream') >= Len(stream),
         UNCHANGED processor
  PROVE  /\ batch' \in [ckpt : 0..Len(stream'), next : 0..Len(stream'),
                        failed : SUBSET (1..Len(stream'))]
         /\ saved' \subseteq 1..MaxChanges /\ audit' \in [Id \X (1..MaxSecond) -> 0..MaxChanges]
         /\ faults' \in 0..MaxFaults
<1>1. Len(stream) \in Nat /\ Len(stream') \in Nat
  BY DEF TypeOK
<1>2. 0..Len(stream) \subseteq 0..Len(stream') /\ 1..Len(stream) \subseteq 1..Len(stream')
  BY <1>1
<1>3. batch \in [ckpt : 0..Len(stream'), next : 0..Len(stream'), failed : SUBSET (1..Len(stream'))]
  BY <1>2 DEF TypeOK
<1> QED
  BY <1>3 DEF TypeOK, processor

-----------------------------------------------------------------------------
(* A step of the API or of the database leaves a listing on its way right, *)
(* when what every read shows as the user's is still shown so.             *)
LEMMA TableKeepsListing ==
  ASSUME ListingInv, listing' = listing,
         \A u \in User, i \in Id : Readable(i) = {u} => Readable(i)' = {u}
  PROVE  ListingInv'
<1>1. listing.user \in User => Shown(listing.user) \subseteq Shown(listing.user)'
  BY DEF Shown
<1>2. listing.user \in User \/ listing.stable = {}
  BY DEF ListingInv, ListingType, NoListing
<1>3. listing.stable \subseteq Shown(listing.user)'
  BY <1>1, <1>2 DEF ListingInv
<1> QED
  BY <1>3 DEF ListingInv, ListingType, NoListing

(* What expires is no longer owed.                                         *)
LEMMA ExpiryKeepsListing ==
  ASSUME TypeOK, ListingInv, NEW i \in Id, \A j \in Id : j # i => Readable(j)' = Readable(j),
         listing' = [listing EXCEPT !.stable = @ \ {i}]
  PROVE  ListingInv'
<1>1. /\ listing'.user = listing.user /\ listing'.cursor = listing.cursor
      /\ listing'.got = listing.got /\ listing'.done = listing.done
      /\ listing'.stable = listing.stable \ {i} /\ ListingType'
  BY DEF ListingInv, ListingType
<1>2. listing'.stable \subseteq Shown(listing.user)'
  <2> SUFFICES ASSUME NEW j \in listing'.stable PROVE j \in Shown(listing.user)'
    OBVIOUS
  <2>1. j \in Shown(listing.user) /\ j # i
    BY <1>1 DEF ListingInv
  <2> QED BY <1>1, <2>1 DEF Shown
<1>3. listing.user = None => listing' = listing
  BY DEF ListingInv, NoListing
<1>4. listing.user = None => listing' = NoListing'
  BY <1>3 DEF ListingInv, NoListing
<1> QED
  BY <1>1, <1>2, <1>4 DEF ListingInv

(* A new listing owes its user everything, and has got nothing.            *)
LEMMA StartKeepsListing ==
  ASSUME TypeOK, ListingInv, NEW u \in User, StartListing(u)
  PROVE  ListingInv'
<1>1. /\ listing' = [user |-> u, cursor |-> 1 + MaxItems + MaxChanges, got |-> <<>>,
                     stable |-> Shown(u), done |-> FALSE]
      /\ UNCHANGED <<item, stale>>
  BY DEF StartListing, table
<1>2. ListingType'
  BY <1>1, Bounds DEF ListingType, Shown
<1>3. /\ listing'.user = u /\ listing'.got = <<>> /\ listing'.done = FALSE
      /\ listing'.cursor > MaxItems /\ listing'.stable = Shown(u)
  BY <1>1, Bounds
<1>4. Shown(u)' = Shown(u) /\ \A i \in Shown(u) : i <= MaxItems /\ i \in Nat
  BY <1>1, Bounds DEF Shown, Readable
<1>5. \A i \in listing'.stable : ~ (i >= listing'.cursor \/ listing'.done)
  BY <1>2, <1>3, <1>4, Bounds DEF ListingType
<1>6. u # None /\ DOMAIN listing'.got = {}
  BY <1>3
<1> QED
  BY <1>2, <1>3, <1>4, <1>5, <1>6 DEF ListingInv

(* A page takes the newest item behind the cursor; when there is none, all *)
(* that is owed has been got.                                              *)
LEMMA PageKeepsListing ==
  ASSUME TypeOK, ListingInv, NextPage
  PROVE  ListingInv'
<1> PICK view \in SUBSET Id : Shown(listing.user) \subseteq view /\ Page(view)
  BY DEF NextPage, Views
<1> DEFINE rest == {i \in view : i < listing.cursor}
<1>0. /\ listing.user # None /\ ~listing.done /\ UNCHANGED <<item, stale>>
      /\ listing.cursor \in Nat /\ listing.got \in Seq(Id) /\ listing.stable \subseteq Id
      /\ listing.user \in User
  BY DEF NextPage, ListingInv, ListingType, table
<1>1. CASE rest = {}
  <2>1. listing' = [listing EXCEPT !.done = TRUE]
    BY <1>1 DEF Page, SortKey
  <2>2. /\ listing'.user = listing.user /\ listing'.cursor = listing.cursor
        /\ listing'.got = listing.got /\ listing'.done = TRUE
        /\ listing'.stable = listing.stable /\ ListingType'
    BY <2>1 DEF ListingInv, ListingType
  <2>3. Shown(listing.user)' = Shown(listing.user)
    BY <1>0, <2>2 DEF Shown, Readable
  <2>4. ASSUME NEW i \in listing.stable PROVE i >= listing.cursor
    <3>1. i \in view /\ i \in Nat
      BY <1>0, Bounds DEF ListingInv
    <3>2. ~ i < listing.cursor
      BY <1>1, <3>1
    <3> QED BY <1>0, <3>1, <3>2
  <2> QED
    BY <1>0, <2>2, <2>3, <2>4 DEF ListingInv
<1>2. CASE rest # {}
  <2>1. PICK i \in rest : /\ \A j \in rest : j <= i
                          /\ listing' = [listing EXCEPT !.got = Append(listing.got, i), !.cursor = i]
    BY <1>2 DEF Page, SortKey
  <2>2. i \in Id /\ i \in Nat /\ i < listing.cursor
    BY <2>1, Bounds
  <2> DEFINE got == listing.got
             n == Len(got)
  <2>3. /\ n \in Nat /\ DOMAIN got = 1..n /\ Append(got, i) \in Seq(Id)
        /\ DOMAIN Append(got, i) = 1..(n + 1) /\ Append(got, i)[n + 1] = i
        /\ \A k \in 1..n : Append(got, i)[k] = got[k] /\ got[k] \in Nat
    BY <1>0, <2>2, Bounds
  <2>4. /\ listing'.user = listing.user /\ listing'.cursor = i
        /\ listing'.got = Append(got, i) /\ listing'.done = FALSE
        /\ listing'.stable = listing.stable /\ ListingType'
    <3> HIDE DEF got, n
    <3>1. listing' = [listing EXCEPT !.got = Append(got, i), !.cursor = i]
      BY <2>1 DEF got
    <3> QED BY <1>0, <2>2, <2>3, <3>1 DEF ListingInv, ListingType
  <2>5. Shown(listing.user)' = Shown(listing.user)
    BY <1>0, <2>4 DEF Shown, Readable
  <2> HIDE DEF got, n
  <2>6. \A k \in DOMAIN listing'.got : listing'.cursor <= listing'.got[k]
    <3> SUFFICES ASSUME NEW k \in 1..(n + 1) PROVE i <= Append(got, i)[k]
      BY <2>3, <2>4
    <3>1. CASE k = n + 1
      BY <2>2, <2>3, <3>1
    <3>2. CASE k \in 1..n
      <4>1. listing.cursor <= got[k]
        BY <2>3, <3>2 DEF ListingInv, got
      <4> QED BY <1>0, <2>2, <2>3, <3>2, <4>1
    <3> QED BY <2>3, <3>1, <3>2
  <2>7. \A j, k \in DOMAIN listing'.got : j < k => listing'.got[k] < listing'.got[j]
    <3> SUFFICES ASSUME NEW j \in 1..(n + 1), NEW k \in 1..(n + 1), j < k
                 PROVE  Append(got, i)[k] < Append(got, i)[j]
      BY <2>3, <2>4
    <3>1. j \in 1..n
      BY <2>3
    <3>2. CASE k \in 1..n
      <4>1. got[k] < got[j]
        BY <2>3, <3>1, <3>2 DEF ListingInv, got
      <4> QED BY <2>3, <3>1, <3>2, <4>1
    <3>3. CASE k = n + 1
      <4>1. listing.cursor <= got[j]
        BY <2>3, <3>1 DEF ListingInv, got
      <4>2. Append(got, i)[k] = i /\ Append(got, i)[j] = got[j] /\ got[j] \in Nat
        BY <2>3, <3>1, <3>3
      <4>3. i < got[j]
        BY <1>0, <2>2, <4>1, <4>2
      <4> QED BY <4>2, <4>3
    <3>4. k \in 1..n \/ k = n + 1
      BY <2>3
    <3> QED BY <3>2, <3>3, <3>4
  <2>8. ASSUME NEW j \in listing.stable, j >= i PROVE \E k \in DOMAIN listing'.got : listing'.got[k] = j
    <3>1. j \in Nat /\ j \in view
      BY <1>0, Bounds DEF ListingInv
    <3>2. CASE j >= listing.cursor
      <4>1. PICK k \in 1..n : got[k] = j
        BY <2>3, <3>2 DEF ListingInv, got
      <4>2. k \in 1..(n + 1) /\ Append(got, i)[k] = j
        BY <2>3, <4>1
      <4> QED BY <2>3, <2>4, <4>2
    <3>3. CASE j < listing.cursor
      <4>1. j = i
        BY <2>1, <2>2, <2>8, <3>1, <3>3
      <4>2. n + 1 \in 1..(n + 1)
        BY <2>3
      <4> QED BY <2>3, <2>4, <4>1, <4>2
    <3> QED BY <1>0, <3>1, <3>2, <3>3
  <2> QED
    BY <1>0, <2>4, <2>5, <2>6, <2>7, <2>8 DEF ListingInv
<1> QED
  BY <1>1, <1>2

-----------------------------------------------------------------------------
(* The stream processor.                                                   *)

(* A log, or a failure to write one, moves on by one change.               *)
LEMMA RecordKeepsShard ==
  ASSUME TypeOK, ShardInv, ProcessRecord \/ RecordFails
  PROVE  TypeOK' /\ ShardInv'
<1> DEFINE k == batch.next + 1
<1>0. /\ batch.ckpt \in Nat /\ batch.next \in Nat /\ batch.failed \subseteq 1..Len(stream)
      /\ Len(stream) \in Nat /\ Len(stream) <= MaxChanges
      /\ batch \in [ckpt : 0..Len(stream), next : 0..Len(stream), failed : SUBSET (1..Len(stream))]
  BY DEF TypeOK
<1>1. /\ k \in 1..Len(stream) /\ UNCHANGED <<item, stale, created, stream, request, listing>>
      /\ \/ /\ batch' = [batch EXCEPT !.next = k] /\ saved' = saved \cup {k} /\ faults' = faults
            /\ \E second \in 1..MaxSecond : audit' = [audit EXCEPT ![<<stream[k], second>>] = k]
         \/ /\ batch' = [batch EXCEPT !.next = k, !.failed = batch.failed \cup {k}]
            /\ UNCHANGED <<saved, audit>> /\ faults' \in 0..MaxFaults
  <2>1. CASE ProcessRecord
    <3>1. k <= Len(stream) /\ batch' = [batch EXCEPT !.next = k] /\ saved' = saved \cup {k}
          /\ UNCHANGED <<table, request, listing, faults>>
      BY <2>1 DEF ProcessRecord
    <3>2. \E second \in 1..MaxSecond : audit' = [audit EXCEPT ![<<stream[k], second>>] = k]
      BY <2>1 DEF ProcessRecord
    <3>3. k \in 1..Len(stream)
      BY <1>0, <3>1
    <3> HIDE DEF k
    <3> QED BY <3>1, <3>2, <3>3 DEF table
  <2>2. CASE RecordFails
    <3>1. faults' \in 0..MaxFaults
      BY <2>2, Bounds DEF RecordFails, TypeOK
    <3>2. k \in 1..Len(stream)
      BY <1>0, <2>2 DEF RecordFails
    <3> QED BY <2>2, <3>1, <3>2 DEF RecordFails, table
  <2> QED BY <2>1, <2>2
<1> HIDE DEF k
<1>9. k \in 0..Len(stream) /\ batch.failed \cup {k} \in SUBSET (1..Len(stream))
  BY <1>0, <1>1
<1>2. /\ batch'.ckpt = batch.ckpt /\ batch'.next = k
      /\ \/ batch'.failed = batch.failed /\ saved' = saved \cup {k}
         \/ batch'.failed = batch.failed \cup {k} /\ saved' = saved
      /\ batch' \in [ckpt : 0..Len(stream), next : 0..Len(stream), failed : SUBSET (1..Len(stream))]
  <2>1. CASE batch' = [batch EXCEPT !.next = k] /\ saved' = saved \cup {k}
    BY <1>0, <1>9, <2>1
  <2>2. CASE /\ batch' = [batch EXCEPT !.next = k, !.failed = batch.failed \cup {k}]
             /\ saved' = saved
    BY <1>0, <1>9, <2>2
  <2> QED BY <1>1, <2>1, <2>2
<1>3. audit' \in [Id \X (1..MaxSecond) -> 0..MaxChanges]
  <2>1. k \in 0..MaxChanges /\ audit \in [Id \X (1..MaxSecond) -> 0..MaxChanges]
    BY <1>0, <1>1, Bounds DEF TypeOK
  <2>2. audit' = audit \/ \E key : audit' = [audit EXCEPT ![key] = k]
    BY <1>1
  <2> QED BY <2>1, <2>2
<1>4. saved' \subseteq 1..MaxChanges /\ faults' \in 0..MaxFaults
  BY <1>0, <1>1, Bounds DEF TypeOK
<1>5. TypeOK'
  BY <1>1, <1>2, <1>3, <1>4 DEF TypeOK
<1>6. ShardInv'
  <2>1. k = batch.next + 1
    BY DEF k
  <2>2. \A j \in batch'.failed : batch'.ckpt < j /\ j <= batch'.next
    <3> SUFFICES ASSUME NEW j \in batch'.failed PROVE batch.ckpt < j /\ j <= k
      BY <1>2
    <3>1. CASE j = k
      BY <1>0, <2>1, <3>1 DEF ShardInv
    <3>2. CASE j \in batch.failed
      <4>1. j \in Nat /\ batch.ckpt < j /\ j <= batch.next
        BY <1>0, <3>2 DEF ShardInv
      <4> QED BY <1>0, <2>1, <4>1
    <3> QED BY <1>2, <3>1, <3>2
  <2>3. \A j \in 1..batch'.next : j \in saved' \/ j \in batch'.failed
    <3> SUFFICES ASSUME NEW j \in 1..k PROVE j \in saved' \/ j \in batch'.failed
      BY <1>2
    <3>1. j = k \/ j \in 1..batch.next
      BY <1>0, <2>1
    <3> QED BY <1>2, <3>1 DEF ShardInv
  <2> QED BY <1>0, <1>2, <2>1, <2>2, <2>3 DEF ShardInv
<1> QED
  BY <1>5, <1>6

(* The checkpoint is never moved past a failure, nor back.                 *)
LEMMA CheckpointFacts ==
  ASSUME TypeOK, ShardInv
  PROVE  LET c == Checkpoint(batch.failed, batch.next)
         IN  c \in Nat /\ batch.ckpt <= c /\ c <= batch.next /\ 1..c \subseteq saved
<1>0. /\ batch.ckpt \in Nat /\ batch.next \in Nat /\ batch.failed \subseteq 1..Len(stream)
      /\ Len(stream) \in Nat
  BY DEF TypeOK
<1>1. CASE batch.failed = {}
  BY <1>0, <1>1 DEF Checkpoint, ShardInv
<1>2. CASE batch.failed # {}
  <2> DEFINE m == CHOOSE k \in batch.failed : \A j \in batch.failed : k <= j
  <2>1. batch.failed \subseteq Nat
    BY <1>0
  <2>2. m \in batch.failed /\ \A j \in batch.failed : m <= j
    BY <1>2, <2>1, LeastExists
  <2>3. Checkpoint(batch.failed, batch.next) = m - 1
    BY <1>2 DEF Checkpoint
  <2> HIDE DEF m
  <2>4. m \in Nat /\ batch.ckpt < m /\ m <= batch.next
    BY <2>1, <2>2 DEF ShardInv
  <2>5. ASSUME NEW j \in 1..(m - 1) PROVE j \in saved
    <3>1. j \in 1..batch.next /\ ~ m <= j
      BY <1>0, <2>4
    <3> QED BY <2>2, <3>1 DEF ShardInv
  <2> QED BY <1>0, <2>3, <2>4, <2>5
<1> QED BY <1>1, <1>2

(* The end of a batch, or its failure, leaves nothing between.             *)
LEMMA BatchKeepsShard ==
  ASSUME TypeOK, ShardInv, EndBatch \/ BatchFails
  PROVE  TypeOK' /\ ShardInv'
<1>0. /\ batch.ckpt \in Nat /\ batch.next \in Nat /\ Len(stream) \in Nat
      /\ batch.next <= Len(stream) /\ batch.ckpt <= batch.next
      /\ batch \in [ckpt : 0..Len(stream), next : 0..Len(stream), failed : SUBSET (1..Len(stream))]
  BY DEF TypeOK, ShardInv
<1>1. 1..batch.ckpt \subseteq saved
  <2> SUFFICES ASSUME NEW k \in 1..batch.ckpt PROVE k \in saved
    OBVIOUS
  <2>1. k \in 1..batch.next /\ k \notin batch.failed
    BY <1>0 DEF ShardInv
  <2> QED BY <2>1 DEF ShardInv
<1>2. PICK c \in Nat : /\ batch.ckpt <= c /\ c <= batch.next /\ 1..c \subseteq saved
                       /\ batch' = [ckpt |-> c, next |-> c, failed |-> {}]
  <2>1. CASE EndBatch
    <3> DEFINE d == Checkpoint(batch.failed, batch.next)
    <3>1. batch' = [ckpt |-> d, next |-> d, failed |-> {}]
      BY <2>1 DEF EndBatch
    <3>2. d \in Nat /\ batch.ckpt <= d /\ d <= batch.next /\ 1..d \subseteq saved
      BY CheckpointFacts
    <3> HIDE DEF d
    <3> QED
      <4> USE <3>1, <3>2
      <4> WITNESS d \in Nat
      <4> QED OBVIOUS
  <2>2. CASE BatchFails
    <3>1. batch' = [batch EXCEPT !.next = batch.ckpt, !.failed = {}]
      BY <2>2 DEF BatchFails
    <3>2. batch' = [ckpt |-> batch.ckpt, next |-> batch.ckpt, failed |-> {}]
      BY <1>0, <3>1
    <3> QED
      <4> USE <1>0, <1>1, <3>2
      <4> WITNESS batch.ckpt \in Nat
      <4> QED OBVIOUS
  <2> QED BY <2>1, <2>2
<1>3. /\ UNCHANGED <<item, stale, created, stream, request, listing, saved, audit>>
      /\ faults' \in 0..MaxFaults
  BY Bounds DEF EndBatch, BatchFails, table, TypeOK
<1>4. batch' \in [ckpt : 0..Len(stream), next : 0..Len(stream), failed : SUBSET (1..Len(stream))]
  BY <1>0, <1>2
<1> QED
  BY <1>2, <1>3, <1>4 DEF TypeOK, ShardInv

-----------------------------------------------------------------------------
(* Every step keeps the strengthened invariant.                            *)
LEMMA NextKeepsItems == ItemsInv /\ [Next]_vars => ItemsInv'
<1> SUFFICES ASSUME ItemsInv, [Next]_vars PROVE ItemsInv'
  OBVIOUS
<1>0. TypeOK /\ ListingInv /\ ShardInv
  BY DEF ItemsInv
<1>1. ASSUME NEW u \in User, CreateItem(u) PROVE ItemsInv'
  <2>1. /\ created' = created + 1 /\ created' \in Id /\ UNCHANGED <<request, listing, processor>>
    BY <1>0, <1>1, Bounds DEF CreateItem, TypeOK
  <2>2. PICK expires \in BOOLEAN :
          Create(created', [owner |-> u, status |-> "ACTIVE", expires |-> expires])
    BY <1>1 DEF CreateItem
  <2> DEFINE row == [owner |-> u, status |-> "ACTIVE", expires |-> expires]
  <2>3. row \in Row
    BY <1>0, Bounds DEF Row, TypeOK
  <2> HIDE DEF row
  <2>4. item[created'] = None /\ Write(created', row)
    BY <2>2 DEF Create, row
  <2>5. /\ item' = [item EXCEPT ![created'] = row] /\ item' \in [Id -> {None} \cup Row]
        /\ stream' \in Seq(Id) /\ Len(stream') <= MaxChanges /\ Len(stream') = Len(stream) + 1
        /\ stale' \in [Id -> SUBSET (User \cup {None})]
        /\ \A j \in Id : j # created' => Readable(j)' = Readable(j)
    BY <1>0, <2>1, <2>3, <2>4, WriteFacts
  <2>6. Len(stream') >= Len(stream)
    BY <1>0, <2>5 DEF TypeOK
  <2>7. TypeOK'
    <3>1. /\ batch' \in [ckpt : 0..Len(stream'), next : 0..Len(stream'),
                         failed : SUBSET (1..Len(stream'))]
          /\ saved' \subseteq 1..MaxChanges /\ audit' \in [Id \X (1..MaxSecond) -> 0..MaxChanges]
          /\ faults' \in 0..MaxFaults
      BY <1>0, <2>1, <2>5, <2>6, LongerStream
    <3>2. created' \in 0..MaxItems
      BY <2>1, Bounds
    <3> QED BY <1>0, <2>1, <2>5, <3>1, <3>2 DEF TypeOK
  <2>8. ListingInv'
    <3>1. None \in Readable(created')
      BY <2>4 DEF Readable, OwnerOf
    <3>2. \A v \in User, j \in Id : Readable(j) = {v} => Readable(j)' = {v}
      BY <2>5, <3>1
    <3> QED BY <1>0, <2>1, <3>2, TableKeepsListing
  <2>9. ShardInv'
    BY <1>0, <2>1 DEF ShardInv, processor
  <2> QED BY <2>7, <2>8, <2>9 DEF ItemsInv
<1>2. ASSUME NEW u \in User, StartListing(u) PROVE ItemsInv'
  <2>1. ListingInv'
    BY <1>0, <1>2, StartKeepsListing
  <2>2. TypeOK'
    BY <1>0, <1>2, <2>1 DEF StartListing, table, processor, TypeOK, ListingInv, ListingType
  <2>3. ShardInv'
    BY <1>0, <1>2 DEF StartListing, ShardInv, processor
  <2> QED BY <2>1, <2>2, <2>3 DEF ItemsInv
<1>3. ASSUME NEW r \in Request, CheckOwner(r) PROVE ItemsInv'
  <2>1. UNCHANGED <<item, stale, created, stream, listing, saved, audit, batch, faults>>
    BY <1>3 DEF CheckOwner, table, processor
  <2>2. \A q \in Request : request'[q] = None \/ request'[q] \in [user : User, op : Ops, id : Id]
    <3>1. PICK u \in User, op \in Ops, i \in Id :
            request' = [request EXCEPT ![r] = [user |-> u, op |-> op, id |-> i]]
      BY <1>3 DEF CheckOwner
    <3> DEFINE q == [user |-> u, op |-> op, id |-> i]
    <3>2. q \in [user : User, op : Ops, id : Id]
      OBVIOUS
    <3> HIDE DEF q
    <3>3. request' = [request EXCEPT ![r] = q]
      BY <3>1 DEF q
    <3> QED BY <1>0, <3>2, <3>3 DEF TypeOK
  <2>3. TypeOK'
    BY <1>0, <2>1, <2>2 DEF TypeOK
  <2>4. ListingInv' /\ ShardInv'
    BY <1>0, <2>1, TableKeepsListing DEF ShardInv, Readable
  <2> QED BY <2>3, <2>4 DEF ItemsInv
<1>4. ASSUME NEW r \in Request, UpdateItem(r) PROVE ItemsInv'
  <2>1. /\ request[r] # None /\ WriteIfThere(request[r])
        /\ request' = [request EXCEPT ![r] = None] /\ UNCHANGED <<created, listing, processor>>
    BY <1>4 DEF UpdateItem
  <2>2. request[r] \in [user : User, op : Ops, id : Id]
    BY <1>0, <2>1 DEF TypeOK
  <2>3. /\ item' \in [Id -> {None} \cup Row] /\ stream' \in Seq(Id)
        /\ Len(stream') <= MaxChanges /\ Len(stream') >= Len(stream)
        /\ stale' \in [Id -> SUBSET (User \cup {None})]
        /\ \A v \in User, i \in Id : Readable(i) = {v} => Readable(i)' = {v}
    <3> PICK i \in Id : i = request[r].id
      BY <2>2
    <3> DEFINE row == Updated(item[i], request[r].op)
    <3>1. i \in Id /\ request[r].op \in Ops
      BY <2>2
    <3>2. CASE item[i] = None
      BY <1>0, <2>1, <3>2 DEF WriteIfThere, TypeOK, Readable
    <3>3. CASE item[i] # None
      <4>1. item[i] \in Row
        BY <1>0, <3>1, <3>3 DEF TypeOK
      <4>2. row \in Row /\ row.owner = item[i].owner
        BY <1>0, <3>1, <4>1, UpdatedFacts
      <4>3. Write(i, row)
        BY <2>1, <3>3 DEF WriteIfThere
      <4> HIDE DEF row
      <4>4. /\ item' = [item EXCEPT ![i] = row] /\ item' \in [Id -> {None} \cup Row]
            /\ stream' \in Seq(Id) /\ Len(stream') <= MaxChanges /\ Len(stream') = Len(stream) + 1
            /\ stale' \in [Id -> SUBSET (User \cup {None})]
            /\ \A j \in Id : j # i => Readable(j)' = Readable(j)
            /\ Readable(i)' = Readable(i) \cup {OwnerOf(row)}
        <5>1. row \in Row \cup {None}
          BY <4>2
        <5> QED BY <1>0, <3>1, <4>3, <5>1, WriteFacts
      <4>5. Len(stream') >= Len(stream)
        BY <1>0, <4>4 DEF TypeOK
      <4>6. OwnerOf(row) \in Readable(i)
        <5>1. row # None /\ item[i] # None
          BY <4>1, <4>2
        <5> QED BY <4>2, <5>1 DEF Readable, OwnerOf
      <4>7. ASSUME NEW v \in User, NEW j \in Id, Readable(j) = {v} PROVE Readable(j)' = {v}
        <5>1. CASE j = i
          <6>1. Readable(i) \cup {OwnerOf(row)} = Readable(i)
            BY <4>6
          <6> QED BY <4>4, <4>7, <5>1, <6>1
        <5>2. CASE j # i
          BY <4>4, <4>7, <5>2
        <5> QED BY <5>1, <5>2
      <4> QED BY <4>4, <4>5, <4>7
    <3> QED BY <3>2, <3>3
  <2>4. \A q \in Request : request'[q] = None \/ request'[q] \in [user : User, op : Ops, id : Id]
    BY <1>0, <2>1 DEF TypeOK
  <2>5. TypeOK'
    BY <1>0, <2>1, <2>3, <2>4, LongerStream DEF TypeOK
  <2>6. ListingInv'
    BY <1>0, <2>1, <2>3, TableKeepsListing
  <2>7. ShardInv'
    BY <1>0, <2>1 DEF ShardInv, processor
  <2> QED BY <2>5, <2>6, <2>7 DEF ItemsInv
<1>5. ASSUME NEW i \in Id, Expire(i) PROVE ItemsInv'
  <2>1. /\ Write(i, None) /\ listing' = [listing EXCEPT !.stable = @ \ {i}]
        /\ UNCHANGED <<created, request, processor>>
    BY <1>5 DEF Expire
  <2>2. /\ item' = [item EXCEPT ![i] = None] /\ item' \in [Id -> {None} \cup Row]
        /\ stream' \in Seq(Id) /\ Len(stream') <= MaxChanges /\ Len(stream') = Len(stream) + 1
        /\ stale' \in [Id -> SUBSET (User \cup {None})]
        /\ \A j \in Id : j # i => Readable(j)' = Readable(j)
    BY <1>0, <2>1, WriteFacts
  <2>3. Len(stream') >= Len(stream)
    BY <1>0, <2>2 DEF TypeOK
  <2>4. ListingInv'
    BY <1>0, <2>1, <2>2, ExpiryKeepsListing
  <2>5. TypeOK'
    BY <1>0, <2>1, <2>2, <2>3, <2>4, LongerStream DEF TypeOK, ListingInv, ListingType
  <2>6. ShardInv'
    BY <1>0, <2>1 DEF ShardInv, processor
  <2> QED BY <2>4, <2>5, <2>6 DEF ItemsInv
<1>6. ASSUME NextPage PROVE ItemsInv'
  <2>1. ListingInv'
    BY <1>0, <1>6, PageKeepsListing
  <2>2. TypeOK'
    BY <1>0, <1>6, <2>1 DEF NextPage, table, processor, TypeOK, ListingInv, ListingType
  <2>3. ShardInv'
    BY <1>0, <1>6 DEF NextPage, ShardInv, processor
  <2> QED BY <2>1, <2>2, <2>3 DEF ItemsInv
<1>7. ASSUME ProcessRecord \/ RecordFails \/ EndBatch \/ BatchFails PROVE ItemsInv'
  <2>1. TypeOK' /\ ShardInv'
    BY <1>0, <1>7, RecordKeepsShard, BatchKeepsShard
  <2>2. UNCHANGED <<item, stale, listing>>
    BY <1>7 DEF ProcessRecord, RecordFails, EndBatch, BatchFails, table
  <2>3. ListingInv'
    BY <1>0, <2>2, TableKeepsListing DEF Readable
  <2> QED BY <2>1, <2>3 DEF ItemsInv
<1>8. CASE UNCHANGED vars
  <2>1. TypeOK' /\ ShardInv'
    BY <1>0, <1>8 DEF vars, table, processor, TypeOK, ShardInv
  <2>2. ListingInv'
    BY <1>0, <1>8, TableKeepsListing DEF vars, table, Readable
  <2> QED BY <2>1, <2>2 DEF ItemsInv
<1>9. ASSUME NEW i \in Id, Replicate(i) PROVE ItemsInv'
  <2>1. /\ stale' = [stale EXCEPT ![i] = {}]
        /\ UNCHANGED <<item, created, stream, request, listing, processor>>
    BY <1>9 DEF Replicate
  <2>2. \A u \in User, j \in Id : Readable(j) = {u} => Readable(j)' = {u}
    BY <1>0, <2>1 DEF Readable, TypeOK
  <2>3. ListingInv'
    BY <1>0, <2>1, <2>2, TableKeepsListing
  <2>4. TypeOK' /\ ShardInv'
    BY <1>0, <2>1 DEF TypeOK, ShardInv, processor
  <2> QED BY <2>3, <2>4 DEF ItemsInv
<1> QED
  BY <1>1, <1>2, <1>3, <1>4, <1>5, <1>6, <1>7, <1>8, <1>9 DEF Next

(* The strengthened invariant holds throughout.                            *)
LEMMA ItemsInvHolds == Spec => []ItemsInv
BY InitItems, NextKeepsItems, PTL DEF Spec

(* A client that follows the cursor to the end gets every item exactly     *)
(* once that it had all the time and that every read showed when it began, *)
(* though each page is a new query of an index that lags; and the shard is *)
(* never read past a change that was not logged.                           *)
THEOREM NothingIsEverMissed == Spec => []NothingIsMissed
BY ItemsInvHolds, ItemsInvSuffices, PTL

(* An item that is gone stays gone, whatever requests passed their owner   *)
(* check while it was there.                                               *)
THEOREM NeverGhosts == Spec => NoGhosts
<1> DEFINE Gone == \A i \in 1..created : item[i] = None => item'[i] = None
<1>1. ASSUME ItemsInv, [Next]_vars PROVE Gone
  <2>0. TypeOK
    BY <1>1 DEF ItemsInv
  <2> SUFFICES ASSUME NEW i \in 1..created, item[i] = None PROVE item'[i] = None
    OBVIOUS
  <2>1. i \in Id /\ i \in Nat /\ created \in Nat /\ i <= created
    BY <2>0, Bounds DEF TypeOK
  <2>2. ASSUME NEW u \in User, CreateItem(u) PROVE item'[i] = None
    <3>1. \E row : item' = [item EXCEPT ![created + 1] = row]
      BY <2>2 DEF CreateItem, Create, Write
    <3>2. i # created + 1
      BY <2>1
    <3> QED BY <2>0, <2>1, <3>1, <3>2 DEF TypeOK
  <2>3. ASSUME NEW r \in Request, UpdateItem(r) PROVE item'[i] = None
    <3>1. \/ item' = item
          \/ \E row : item[request[r].id] # None /\ item' = [item EXCEPT ![request[r].id] = row]
      BY <2>3 DEF UpdateItem, WriteIfThere, Write
    <3> QED BY <2>0, <2>1, <3>1 DEF TypeOK
  <2>4. ASSUME NEW j \in Id, Expire(j) PROVE item'[i] = None
    <3>1. item' = [item EXCEPT ![j] = None]
      BY <2>4 DEF Expire, Write
    <3> QED BY <2>0, <2>1, <3>1 DEF TypeOK
  <2>5. \/ item' = item
        \/ \E u \in User : CreateItem(u)
        \/ \E r \in Request : UpdateItem(r)
        \/ \E j \in Id : Expire(j)
    BY <1>1 DEF Next, Replicate, StartListing, CheckOwner, NextPage, ProcessRecord, RecordFails, EndBatch,
                BatchFails, table, vars
  <2> QED BY <2>2, <2>3, <2>4, <2>5
<1>2. ItemsInv /\ [Next]_vars => [Gone]_item
  BY <1>1
<1> HIDE DEF Gone
<1>3. Spec => [][Gone]_item
  BY <1>2, ItemsInvHolds, PTL DEF Spec
<1> QED
  BY <1>3 DEF Gone, NoGhosts

-----------------------------------------------------------------------------
Working == {"branch", "commit", "pull", "notify"}

\* Every statement of the policy is kept, as FilesKeepTheRest has it.
Kept(file) ==
  LET doc == Document[file.policy]
  IN  IsInjective([n \in DOMAIN doc |-> StmtKey(doc[n])]) =>
        \A s \in Range(doc) : Keeps(file.statements, s, file.unused)

\* Between two calls an invocation has what it needs for the next one.
RunInv(i) ==
  /\ run[i].key # Nothing => run[i].key \in Day /\ stored[run[i].key] # Nothing
  /\ run[i].policies # {} =>
       /\ run[i].pc \in Working \cup {"policy"}
       /\ run[i].policies \subseteq DOMAIN Attached[RoleOf(i)]
       /\ Attached[RoleOf(i)] # Nothing
  /\ run[i].roles \subseteq DOMAIN run[i].findings
  /\ run[i].pc \in Working \cup {"policy"} => run[i].roles # {}
  /\ run[i].pc \in Working =>
       run[i].policies # {} /\ run[i].file \in Proposals /\ Kept(run[i].file)
  /\ IF run[i].pc \in Working \ {"branch"}
     THEN run[i].head \in BranchNames /\ run[i].head.short = ShortName[run[i].file.role]
     ELSE run[i].head = Nothing

\* An invocation owns the branch it has created until its pull request is open.
Owns(i) == run[i].pc \in {"commit", "pull"}

OwnerInv(i) ==
  Owns(i) =>
    /\ run[i].head \in DOMAIN branch
    /\ \A pr \in prs : pr.head # run[i].head
    /\ \A j \in Invocation \ {i} : Owns(j) => run[j].head # run[i].head
    /\ run[i].pc = "pull" => branch[run[i].head] = run[i].file
    /\ run[i].pc = "commit" /\ branch[run[i].head] # Nothing =>
         main[run[i].head.short] # Nothing

\* One pull request for a branch, which has the file it is about.
RequestInv ==
  /\ \A pr \in prs :
       /\ pr.head \in DOMAIN branch /\ branch[pr.head] # Nothing
       /\ branch[pr.head].role = pr.role /\ branch[pr.head].policy = pr.policy
       /\ pr.head.short = ShortName[pr.role]
  /\ \A a, b \in prs : a.head = b.head => a = b

\* What is on the branch came with warnings that are no list.
Unlisted(n) == branch[n] # Nothing /\ ~ branch[n].listed

\* A branch without an owner has a reason to be there.
OrphanInv ==
  \A n \in DOMAIN branch :
    \/ \E i \in Invocation : Owns(i) /\ run[i].head = n
    \/ \E pr \in prs : pr.head = n
    \/ troubles > 0 \/ main[n.short] # Nothing \/ Unlisted(n)

\* Between the put and the start the file is there.
TriggerInv ==
  scanned # Nothing =>
    scanned \in Scans /\ (scanned.saved => stored[scanned.key] # Nothing)

AdvisorInv ==
  /\ AdvisorTypeOK /\ TriggerInv
  /\ \A i \in Invocation : RunInv(i) /\ OwnerInv(i)
  /\ RequestInv /\ OrphanInv
  /\ \A file \in Files : Kept(file)

LEMMA FirstIn ==
  ASSUME NEW S \in SUBSET Nat, S # {}
  PROVE  First(S) \in S /\ \A m \in S : First(S) <= m
BY LeastExists DEF First

(* A set of places in a list has a last one.                               *)
LEMMA LastExists ==
  ASSUME NEW n \in Nat, NEW S \in SUBSET (1..n), S # {}
  PROVE  \E k \in S : \A j \in S : j <= k
<1> DEFINE U == {u \in Nat : \A j \in S : j <= u}
<1>1. n \in U
  OBVIOUS
<1>2. PICK u \in U : \A v \in U : u <= v
  BY <1>1, LeastExists
<1>3. PICK s \in S : TRUE
  OBVIOUS
<1>4. u - 1 \in Nat
  BY <1>2, <1>3
<1>5. PICK j \in S : ~ j <= u - 1
  BY <1>2, <1>4
<1>6. j = u
  BY <1>2, <1>5
<1> QED BY <1>2, <1>6

(* What the dictionary has under a key is a statement with that key.       *)
LEMMA ByKeyIn ==
  ASSUME NEW doc, doc \in Seq(Range(doc)), NEW k \in DOMAIN ByKey(doc)
  PROVE  ByKey(doc)[k] \in Range(doc) /\ StmtKey(ByKey(doc)[k]) = k
<1> DEFINE S == {n \in DOMAIN doc : StmtKey(doc[n]) = k}
           LastOf == CHOOSE n \in DOMAIN doc :
                       /\ StmtKey(doc[n]) = k
                       /\ \A m \in DOMAIN doc : StmtKey(doc[m]) = k => m <= n
<1>1. S # {} /\ ByKey(doc)[k] = doc[LastOf]
  BY DEF ByKey
<1>2. Len(doc) \in Nat /\ DOMAIN doc = 1..Len(doc)
  OBVIOUS
<1>3. PICK n \in S : \A m \in S : m <= n
  <2>1. S \in SUBSET (1..Len(doc))
    BY <1>2
  <2> HIDE DEF S
  <2> QED BY <1>1, <1>2, <2>1, LastExists
<1>4. LastOf \in DOMAIN doc /\ StmtKey(doc[LastOf]) = k
  BY <1>3
<1> QED BY <1>1, <1>4 DEF Range

(* What validate_ai_policy lets through keeps the policy.                  *)
LEMMA ValidatedIsKept ==
  ASSUME NEW p \in Policy, NEW d \in Revisions[p], NEW unused, NEW role, NEW listed,
         Validate(Document[p], d, unused)
  PROVE  Kept([role |-> role, policy |-> p, statements |-> d, unused |-> unused,
               listed |-> listed])
<1> DEFINE doc == Document[p]
<1> SUFFICES ASSUME IsInjective([n \in DOMAIN doc |-> StmtKey(doc[n])]),
                    NEW s \in Range(doc)
             PROVE  Keeps(d, s, unused)
  BY DEF Kept
<1>1. doc \in Seq(Range(doc)) /\ d \in Seq(Range(d)) /\ s.effect \in {"Allow", "Deny"}
  BY AdvisorAssumption DEF Validate
<1>2. PICK n \in DOMAIN doc : s = doc[n]
  BY DEF Range
<1> DEFINE k == StmtKey(s)
<1>3. k \in DOMAIN ByKey(doc)
  BY <1>2 DEF ByKey
<1>4. ByKey(doc)[k] = s
  <2>1. ByKey(doc)[k] \in Range(doc) /\ StmtKey(ByKey(doc)[k]) = k
    BY <1>1, <1>3, ByKeyIn
  <2>2. PICK m \in DOMAIN doc : ByKey(doc)[k] = doc[m]
    BY <2>1 DEF Range
  <2>3. StmtKey(doc[m]) = StmtKey(doc[n])
    BY <1>2, <2>1, <2>2
  <2>4. m = n
    BY <2>3 DEF IsInjective
  <2> QED BY <1>2, <2>2, <2>4
<1>5. ASSUME k \in DOMAIN ByKey(d) PROVE ByKey(d)[k] \in Range(d)
  BY <1>1, <1>5, ByKeyIn
<1> HIDE DEF doc, k
<1> DEFINE used(stmt) == NormalizeActions(stmt.actions) \ NormalizeActions(unused)
<1>6. IF s.effect = "Deny" THEN k \in DOMAIN ByKey(d) /\ ByKey(d)[k] = s
      ELSE IF k \notin DOMAIN ByKey(d) THEN used(s) = {}
      ELSE /\ used(s) \subseteq NormalizeActions(ByKey(d)[k].actions)
           /\ s.resource = ByKey(d)[k].resource
           /\ s.condition = ByKey(d)[k].condition
  BY <1>3, <1>4, Zenon DEF Validate, doc
<1>7. CASE s.effect = "Deny"
  BY <1>5, <1>6, <1>7 DEF Keeps
<1>8. CASE s.effect = "Allow" /\ k \notin DOMAIN ByKey(d)
  BY <1>6, <1>8 DEF Keeps
<1>9. CASE s.effect = "Allow" /\ k \in DOMAIN ByKey(d)
  BY <1>5, <1>6, <1>9 DEF Keeps
<1> QED BY <1>1, <1>7, <1>8, <1>9

(* Findings are of resources, and the actions among them are those of a    *)
(* summary.                                                                *)
LEMMA FindingsFacts ==
  ASSUME NEW findings \in Findings \cup {<<>>}
  PROVE  /\ DOMAIN findings \subseteq Nat
         /\ \A n \in DOMAIN findings : findings[n].resource \in Resource
         /\ \A r : UnusedOf(findings, r) \in
              SUBSET UNION {{f.action : f \in Range(s)} : s \in Summaries}
<1>1. CASE findings = <<>>
  BY <1>1 DEF UnusedOf
<1>2. CASE findings \in Findings
  <2>1. PICK s \in Summaries : findings = Extract(s)
    BY <1>2 DEF Findings
  <2>2. s \in Seq(Range(s)) /\ \A n \in DOMAIN s : s[n].resource \in Resource
    BY AdvisorAssumption
  <2>3. /\ DOMAIN findings \subseteq DOMAIN s
        /\ \A n \in DOMAIN findings : findings[n] = s[n]
    BY <2>1 DEF Extract, Restrict
  <2>4. DOMAIN s \subseteq Nat
    BY <2>2
  <2>5. ASSUME NEW r, NEW a \in UnusedOf(findings, r)
        PROVE  a \in {f.action : f \in Range(s)}
    BY <2>3, <2>5 DEF UnusedOf, Range
  <2> QED BY <2>2, <2>3, <2>4, <2>5
<1> QED BY <1>1, <1>2

LEMMA AdvisorBounds ==
  /\ MaxAttempts \in Nat \ {0} /\ MaxDay \in Nat \ {0}
  /\ MaxScans \in Nat /\ MaxTroubles \in Nat
  /\ Nothing \notin Proposals /\ Nothing \notin Findings
BY AdvisorAssumption

(* Nothing is stored, started or proposed at the start.                    *)
LEMMA InitAdvisor == AdvisorInit => AdvisorInv
<1> SUFFICES ASSUME AdvisorInit PROVE AdvisorInv
  OBVIOUS
<1> USE AdvisorBounds DEF AdvisorInit
<1>1. \A i \in Invocation : run[i] = Idle
  OBVIOUS
<1>2. Idle \in RunState
  BY DEF Idle, Waiting, RunState
<1>3. AdvisorTypeOK
  BY <1>2 DEF AdvisorTypeOK, Day
<1>4. \A i \in Invocation : RunInv(i)
  BY <1>1 DEF RunInv, Idle, Waiting, Working
<1>5. \A i \in Invocation : OwnerInv(i)
  BY <1>1 DEF OwnerInv, Owns, Idle, Waiting
<1>6. RequestInv /\ OrphanInv /\ TriggerInv
  BY DEF RequestInv, OrphanInv, TriggerInv
<1>7. Files = {}
  BY DEF Files
<1> QED BY <1>3, <1>4, <1>5, <1>6, <1>7 DEF AdvisorInv

-----------------------------------------------------------------------------
(* An invocation that another step leaves alone keeps what it has.         *)
LEMMA RunKept ==
  ASSUME NEW i \in Invocation, RunInv(i), run'[i] = run[i],
         \A d \in Day : stored[d] # Nothing => stored'[d] # Nothing
  PROVE  RunInv(i)'
<1>1. RoleOf(i)' = RoleOf(i)
  BY DEF RoleOf
<1>2. Kept(run[i].file)' = Kept(run[i].file)
  BY DEF Kept, Keeps, StmtKey, NormalizeActions
<1> QED BY <1>1, <1>2 DEF RunInv

(* Where GitHub stays as it is, its clauses stay while no branch loses its *)
(* owner without a trouble or the file of main to show for it.             *)
LEMMA GithubKept ==
  ASSUME AdvisorInv, UNCHANGED github, troubles' \in Nat, troubles <= troubles',
         \A j \in Invocation : Owns(j)' =>
           run'[j].pc = run[j].pc /\ run'[j].head = run[j].head /\ run'[j].file = run[j].file,
         \A j \in Invocation : Owns(j) =>
           \/ Owns(j)' \/ troubles' > 0
           \/ main[run[j].head.short] # Nothing \/ Unlisted(run[j].head)
  PROVE  /\ \A i \in Invocation : OwnerInv(i)'
         /\ RequestInv' /\ OrphanInv' /\ \A file \in Files' : Kept(file)
<1> USE DEF AdvisorInv
<1>1. branch' = branch /\ main' = main /\ prs' = prs
  BY DEF github
<1>2. \A i \in Invocation : OwnerInv(i)'
  BY <1>1 DEF OwnerInv, Owns
<1>3. RequestInv'
  BY <1>1 DEF RequestInv
<1>4. OrphanInv'
  <2> SUFFICES ASSUME NEW n \in DOMAIN branch
               PROVE  \/ \E i \in Invocation : Owns(i)' /\ run'[i].head = n
                      \/ \E pr \in prs : pr.head = n
                      \/ troubles' > 0 \/ main[n.short] # Nothing \/ Unlisted(n)
    BY <1>1 DEF OrphanInv, Unlisted
  <2>1. CASE \E i \in Invocation : Owns(i) /\ run[i].head = n
    BY <2>1
  <2>2. CASE \E pr \in prs : pr.head = n
    BY <2>2
  <2>3. CASE troubles > 0
    BY <2>3 DEF AdvisorTypeOK
  <2>4. CASE main[n.short] # Nothing \/ Unlisted(n)
    BY <2>4
  <2> QED BY <2>1, <2>2, <2>3, <2>4 DEF OrphanInv
<1>5. Files' = Files
  BY <1>1 DEF Files
<1> QED BY <1>2, <1>3, <1>4, <1>5

LEMMA TriggerKept ==
  ASSUME TriggerInv, UNCHANGED analyzer
  PROVE  TriggerInv'
BY DEF TriggerInv, analyzer

(* An invocation that waits.                                               *)
LEMMA QueuedFacts ==
  ASSUME NEW key \in Day \cup {Nothing}, NEW tries \in 0..(MaxAttempts - 1)
  PROVE  /\ Queued(key, tries) \in RunState
         /\ Queued(key, tries).pc = "queued" /\ Queued(key, tries).key = key
         /\ Queued(key, tries).roles = {} /\ Queued(key, tries).policies = {}
         /\ Queued(key, tries).head = Nothing
BY DEF Queued, Waiting, RunState

LEMMA IdleFacts ==
  /\ Idle \in RunState /\ Idle.pc = "idle" /\ Idle.key = Nothing
  /\ Idle.roles = {} /\ Idle.policies = {} /\ Idle.head = Nothing
BY AdvisorBounds DEF Idle, Waiting, RunState

(* A failed invocation is queued again or over.                            *)
LEMMA FailFacts ==
  ASSUME AdvisorTypeOK, NEW i \in Invocation, RunInv(i), run[i].pc # "idle", Fail(i),
         stored' = stored
  PROVE  /\ run' \in [Invocation -> RunState] /\ ~ Owns(i)' /\ RunInv(i)'
         /\ \A j \in Invocation \ {i} : run'[j] = run[j]
<1> USE AdvisorBounds
<1> DEFINE again == Queued(run[i].key, run[i].tries + 1)
<1>1. run[i] \in RunState
  BY DEF AdvisorTypeOK
<1>2. CASE run[i].tries + 1 < MaxAttempts
  <2>1. run' = [run EXCEPT ![i] = again]
    BY <1>2 DEF Fail
  <2>2. run[i].key \in Day \cup {Nothing} /\ run[i].tries + 1 \in 0..(MaxAttempts - 1)
    BY <1>1, <1>2 DEF RunState
  <2>3. /\ again \in RunState /\ again.pc = "queued" /\ again.key = run[i].key
        /\ again.roles = {} /\ again.policies = {} /\ again.head = Nothing
    <3> HIDE AdvisorBounds
    <3> QED BY <2>2, QueuedFacts, Zenon
  <2> HIDE DEF again
  <2>4. run' \in [Invocation -> RunState] /\ run'[i] = again
        /\ \A j \in Invocation \ {i} : run'[j] = run[j]
    BY <2>1, <2>3 DEF AdvisorTypeOK
  <2> QED BY <2>3, <2>4 DEF RunInv, Owns, Working
<1>3. CASE ~ run[i].tries + 1 < MaxAttempts
  <2>1. run' = [run EXCEPT ![i] = Idle]
    BY <1>3 DEF Fail
  <2>2. run' \in [Invocation -> RunState] /\ run'[i] = Idle
        /\ \A j \in Invocation \ {i} : run'[j] = run[j]
    BY <2>1, IdleFacts DEF AdvisorTypeOK
  <2> QED BY <2>2, IdleFacts DEF RunInv, Owns, Working
<1> QED BY <1>2, <1>3

(* The scan, its file and the invocations it starts.                       *)
LEMMA TriggerKeeps ==
  ASSUME AdvisorInv,
         Scan \/ Save \/ InvokePolicyAdvisor \/ TriggerFails \/ InvokeByHand \/ NextDay
  PROVE  AdvisorInv'
<1> USE AdvisorBounds DEF AdvisorInv, analyzer
<1>0. /\ stored \in [Day -> Findings \cup {Nothing}] /\ day \in Day /\ scans \in 0..MaxScans
      /\ troubles \in 0..MaxTroubles /\ day \in Nat /\ run \in [Invocation -> RunState]
      /\ scanned \in Scans \cup {Nothing}
      /\ scanned # Nothing => /\ scanned.findings \in Findings /\ scanned.key \in Day
                              /\ scanned.saved => stored[scanned.key] # Nothing
  BY DEF AdvisorTypeOK, Day, TriggerInv, Scans
<1>1. /\ UNCHANGED github /\ troubles' \in Nat
      /\ troubles <= troubles' /\ troubles' \in 0..MaxTroubles
  BY <1>0 DEF Scan, Save, InvokePolicyAdvisor, TriggerFails, InvokeByHand, NextDay, Trouble
<1>2. /\ stored' \in [Day -> Findings \cup {Nothing}]
      /\ \A d \in Day : stored[d] # Nothing => stored'[d] # Nothing
  <2>1. CASE stored' = stored
    BY <1>0, <2>1
  <2>2. CASE scanned # Nothing /\ PutFindings
    BY <1>0, <2>2 DEF PutFindings
  <2> QED BY <2>1, <2>2 DEF Scan, Save, InvokePolicyAdvisor, TriggerFails, InvokeByHand, NextDay
<1>3. \/ run' = run
      \/ \E key \in Day \cup {Nothing} :
           Enqueue(key) /\ (key # Nothing => stored'[key] # Nothing)
  <2>1. CASE scanned # Nothing /\ scanned.saved /\ Enqueue(scanned.key) /\ UNCHANGED stored
    BY <1>0, <2>1
  <2>2. CASE InvokeByHand
    BY <2>2 DEF InvokeByHand
  <2> QED BY <2>1, <2>2 DEF Scan, Save, InvokePolicyAdvisor, TriggerFails, NextDay
<1>4. scanned' \in Scans \cup {Nothing} /\ TriggerInv' /\ scans' \in 0..MaxScans /\ day' \in Day
  <2>1. CASE Scan
    <3>1. PICK f \in Findings : scanned' = [findings |-> f, key |-> day, saved |-> FALSE]
      BY <2>1 DEF Scan, Findings
    <3> QED BY <1>0, <2>1, <3>1 DEF Scan, Scans, TriggerInv
  <2>2. CASE Save
    <3>1. scanned' \in Scans /\ scanned'.key = scanned.key
      BY <1>0, <2>2 DEF Save, Scans
    <3>2. stored'[scanned.key] # Nothing
      BY <1>0, <2>2 DEF Save, PutFindings
    <3> QED BY <1>0, <2>2, <3>1, <3>2 DEF Save, TriggerInv
  <2>3. CASE InvokePolicyAdvisor
    BY <1>0, <2>3 DEF InvokePolicyAdvisor, TriggerInv
  <2>4. CASE TriggerFails
    BY <1>0, <2>4 DEF TriggerFails, TriggerInv
  <2>5. CASE InvokeByHand
    BY <1>0, <2>5 DEF InvokeByHand, TriggerInv
  <2>6. CASE NextDay
    BY <1>0, <2>6 DEF NextDay, Day, TriggerInv
  <2> QED BY <2>1, <2>2, <2>3, <2>4, <2>5, <2>6
<1>5. /\ run' \in [Invocation -> RunState]
      /\ \A i \in Invocation :
           run'[i] = run[i] \/ (RunInv(i)' /\ ~ Owns(i)' /\ run[i].pc = "idle")
  <2>1. CASE run' = run
    BY <1>0, <2>1
  <2>2. ASSUME NEW key \in Day \cup {Nothing}, Enqueue(key),
               key # Nothing => stored'[key] # Nothing
        PROVE  /\ run' \in [Invocation -> RunState]
               /\ \A i \in Invocation :
                    run'[i] = run[i] \/ (RunInv(i)' /\ ~ Owns(i)' /\ run[i].pc = "idle")
    <3> DEFINE new == Queued(key, 0)
    <3>1. PICK i \in Invocation : run[i].pc = "idle" /\ run' = [run EXCEPT ![i] = new]
      BY <2>2 DEF Enqueue
    <3>2. 0 \in 0..(MaxAttempts - 1)
      BY <1>0
    <3>3. /\ new \in RunState /\ new.pc = "queued" /\ new.key = key /\ new.roles = {}
          /\ new.policies = {} /\ new.head = Nothing
      BY <3>2, QueuedFacts
    <3> HIDE DEF new
    <3>4. run'[i] = new
      BY <1>0, <3>1
    <3>5. RunInv(i)' /\ ~ Owns(i)'
      BY <2>2, <3>3, <3>4 DEF RunInv, Owns, Working
    <3> QED BY <1>0, <3>1, <3>3, <3>5
  <2> QED BY <1>3, <2>1, <2>2
<1>6. \A i \in Invocation : RunInv(i)'
  BY <1>2, <1>5, RunKept
<1>7. AdvisorTypeOK'
  BY <1>1, <1>2, <1>4, <1>5 DEF AdvisorTypeOK, github
<1>8. /\ \A j \in Invocation : Owns(j)' =>
           run'[j].pc = run[j].pc /\ run'[j].head = run[j].head /\ run'[j].file = run[j].file
      /\ \A j \in Invocation : Owns(j) => Owns(j)'
  BY <1>5 DEF Owns
<1>9. /\ \A i \in Invocation : OwnerInv(i)'
      /\ RequestInv' /\ OrphanInv' /\ \A file \in Files' : Kept(file)
  BY <1>1, <1>8, GithubKept
<1>10. \A file \in Files' : Kept(file)'
  BY <1>9 DEF Kept, Keeps, StmtKey, NormalizeActions
<1> QED BY <1>4, <1>6, <1>7, <1>9, <1>10

(* A step of an invocation in which nothing changes but its own state.     *)
LEMMA MoveKeeps ==
  ASSUME AdvisorInv, NEW i \in Invocation, UNCHANGED <<day, analyzer, github>>,
         run' \in [Invocation -> RunState], \A j \in Invocation \ {i} : run'[j] = run[j],
         RunInv(i)', troubles' \in 0..MaxTroubles, troubles <= troubles',
         Owns(i)' => /\ run'[i].pc = run[i].pc /\ run'[i].head = run[i].head
                     /\ run'[i].file = run[i].file,
         Owns(i) => \/ Owns(i)' \/ troubles' > 0
                    \/ main[run[i].head.short] # Nothing \/ Unlisted(run[i].head)
  PROVE  AdvisorInv'
<1> USE AdvisorBounds
<1>1. AdvisorTypeOK /\ \A j \in Invocation : RunInv(j)
  BY DEF AdvisorInv
<1>2. AdvisorTypeOK'
  BY <1>1 DEF AdvisorTypeOK, analyzer, github
<1>3. \A j \in Invocation : RunInv(j)'
  BY <1>1, RunKept DEF analyzer
<1>4. /\ \A j \in Invocation : Owns(j)' =>
           run'[j].pc = run[j].pc /\ run'[j].head = run[j].head /\ run'[j].file = run[j].file
      /\ \A j \in Invocation : Owns(j) =>
           \/ Owns(j)' \/ troubles' > 0
           \/ main[run[j].head.short] # Nothing \/ Unlisted(run[j].head)
  BY DEF Owns
<1>5. troubles' \in Nat
  OBVIOUS
<1>6. /\ \A j \in Invocation : OwnerInv(j)'
      /\ RequestInv' /\ OrphanInv' /\ \A file \in Files' : Kept(file)
  BY <1>1, <1>4, <1>5, GithubKept
<1>7. \A file \in Files' : Kept(file)'
  BY <1>6 DEF Kept, Keeps, StmtKey, NormalizeActions
<1>8. TriggerInv'
  BY TriggerKept DEF AdvisorInv
<1> QED BY <1>2, <1>3, <1>6, <1>7, <1>8 DEF AdvisorInv

(* An invocation fails where its branch, if it has one, is not an orphan.  *)
LEMMA FailKeeps ==
  ASSUME AdvisorInv, NEW i \in Invocation, run[i].pc # "idle", Fail(i),
         UNCHANGED <<day, analyzer, github>>,
         troubles' \in 0..MaxTroubles, troubles <= troubles',
         Owns(i) => \/ troubles' > 0 \/ main[run[i].head.short] # Nothing
                    \/ Unlisted(run[i].head)
  PROVE  AdvisorInv'
<1>1. /\ run' \in [Invocation -> RunState] /\ ~ Owns(i)' /\ RunInv(i)'
      /\ \A j \in Invocation \ {i} : run'[j] = run[j]
  BY FailFacts DEF AdvisorInv, analyzer
<1> QED BY <1>1, MoveKeeps

(* The findings are loaded.                                                *)
LEMMA BeginKeeps ==
  ASSUME AdvisorInv, NEW i \in Invocation, Begin(i)
  PROVE  AdvisorInv'
<1> DEFINE findings == stored[ResolveKey(i)]
<1>1. AdvisorTypeOK /\ RunInv(i) /\ run[i].pc = "queued"
  BY DEF AdvisorInv, Begin
<1>a. UNCHANGED <<day, analyzer, github, troubles>> /\ ~ Owns(i)
      /\ troubles' \in 0..MaxTroubles /\ troubles <= troubles'
  BY <1>1, AdvisorBounds DEF Begin, Owns, AdvisorTypeOK
<1>b. CASE findings = Nothing
  <2>1. Fail(i)
    BY <1>b DEF Begin, LoadFindings
  <2> QED BY <1>1, <1>a, <2>1, FailKeeps
<1> SUFFICES ASSUME findings # Nothing PROVE AdvisorInv'
  BY <1>b
<1>2. findings \in Findings
  BY <1>1 DEF AdvisorTypeOK, RunInv, ResolveKey
<1>3. RolesOf(findings) \subseteq DOMAIN findings /\ RolesOf(findings) \in SUBSET Nat
  BY <1>2, FindingsFacts DEF RolesOf
<1>4. run[i] \in RunState /\ run \in [Invocation -> RunState]
  BY <1>1 DEF AdvisorTypeOK
<1>5. run' = [run EXCEPT ![i].pc = "role", ![i].findings = findings,
                         ![i].roles = RolesOf(findings)]
  BY DEF Begin, LoadFindings
<1>6. UNCHANGED <<day, analyzer, github, troubles>>
  BY DEF Begin
<1> HIDE DEF findings
<1>7. /\ run'[i].pc = "role" /\ run'[i].findings = findings
      /\ run'[i].roles = RolesOf(findings) /\ run'[i].key = run[i].key
      /\ run'[i].policies = run[i].policies /\ run'[i].head = run[i].head
      /\ \A j \in Invocation \ {i} : run'[j] = run[j]
  BY <1>4, <1>5 DEF RunState
<1>8. run' \in [Invocation -> RunState]
  <2>1. findings \in Findings \cup {<<>>}
    BY <1>2
  <2> DEFINE loaded == [run[i] EXCEPT !.pc = "role", !.findings = findings,
                                      !.roles = RolesOf(findings)]
  <2>2. loaded \in RunState
    BY <1>3, <1>4, <2>1 DEF RunState
  <2>3. run' = [run EXCEPT ![i] = loaded]
    BY <1>4, <1>5
  <2> HIDE DEF loaded
  <2> QED BY <1>4, <2>2, <2>3
<1>9. RunInv(i)'
  BY <1>1, <1>3, <1>6, <1>7 DEF RunInv, Working, analyzer
<1>10. troubles' \in 0..MaxTroubles /\ troubles <= troubles'
  BY <1>1, <1>6, AdvisorBounds DEF AdvisorTypeOK
<1>11. ~ Owns(i) /\ ~ Owns(i)'
  BY <1>1, <1>7 DEF Owns
<1> QED BY <1>6, <1>7, <1>8, <1>9, <1>10, <1>11, MoveKeeps

(* The loop over the roles.                                                *)
LEMMA NextRoleKeeps ==
  ASSUME AdvisorInv, NEW i \in Invocation, NextRole(i)
  PROVE  AdvisorInv'
<1>1. /\ AdvisorTypeOK /\ RunInv(i) /\ run[i].pc = "role"
      /\ UNCHANGED <<day, analyzer, github>>
      /\ run[i] \in RunState /\ run \in [Invocation -> RunState]
      /\ troubles \in 0..MaxTroubles /\ ~ Owns(i)
  BY DEF AdvisorInv, NextRole, AdvisorTypeOK, Owns
<1>2. CASE run[i].roles = {}
  <2>1. run' = [run EXCEPT ![i] = Idle] /\ troubles' = troubles
    BY <1>2 DEF NextRole
  <2>2. run' \in [Invocation -> RunState] /\ run'[i] = Idle
        /\ \A j \in Invocation \ {i} : run'[j] = run[j]
    BY <1>1, <2>1, IdleFacts
  <2>3. RunInv(i)' /\ ~ Owns(i)'
    BY <2>2, IdleFacts DEF RunInv, Owns, Working
  <2>4. troubles' \in 0..MaxTroubles /\ troubles <= troubles'
    BY <1>1, <2>1, AdvisorBounds
  <2> QED BY <1>1, <2>2, <2>3, <2>4, MoveKeeps
<1>3. CASE run[i].roles # {}
  <2>1. FetchPolicies(i)
    BY <1>3 DEF NextRole
  <2>2. CASE Attached[RoleOf(i)] = Nothing /\ Fail(i) /\ UNCHANGED troubles
    <3>1. troubles' \in 0..MaxTroubles /\ troubles <= troubles'
      BY <1>1, <2>2, AdvisorBounds
    <3> QED BY <1>1, <2>2, <3>1, FailKeeps
  <2>3. ASSUME NEW readable \in SUBSET DOMAIN Attached[RoleOf(i)],
               Attached[RoleOf(i)] # Nothing,
               UNCHANGED troubles \/ Trouble,
               run' = [run EXCEPT
                   ![i].pc = IF readable = {} THEN "role" ELSE "policy",
                   ![i].roles = IF readable = {} THEN @ \ {First(@)} ELSE @,
                   ![i].policies = readable]
        PROVE  AdvisorInv'
    <3>1. RoleOf(i) \in Resource
      <4>1. First(run[i].roles) \in run[i].roles
        BY <1>1, <1>3, FirstIn DEF RunState
      <4> QED BY <1>1, <4>1, FindingsFacts DEF RoleOf, RunInv, RunState
    <3>0. /\ Attached[RoleOf(i)] # Nothing /\ readable \subseteq DOMAIN Attached[RoleOf(i)]
          /\ troubles' = troubles \/ Trouble
      BY <2>3
    <3>2. readable \in SUBSET Nat
      <4>1. Attached[RoleOf(i)] \in Seq(Policy)
        BY <3>0, <3>1, AdvisorAssumption
      <4>2. DOMAIN Attached[RoleOf(i)] \subseteq Nat
        BY <4>1
      <4> QED BY <3>0, <4>2
    <3>3. /\ run'[i].pc = IF readable = {} THEN "role" ELSE "policy"
          /\ run'[i].roles = IF readable = {} THEN run[i].roles \ {First(run[i].roles)}
                             ELSE run[i].roles
          /\ run'[i].policies = readable
          /\ run'[i].findings = run[i].findings /\ run'[i].key = run[i].key
          /\ run'[i].head = run[i].head /\ run'[i].file = run[i].file
          /\ \A j \in Invocation \ {i} : run'[j] = run[j]
      BY <1>1, <2>3 DEF RunState
    <3>4. run' \in [Invocation -> RunState]
      <4> DEFINE next == [run[i] EXCEPT
                   !.pc = IF readable = {} THEN "role" ELSE "policy",
                   !.roles = IF readable = {} THEN @ \ {First(@)} ELSE @,
                   !.policies = readable]
      <4>1. next \in RunState
        BY <1>1, <3>2 DEF RunState
      <4>2. run' = [run EXCEPT ![i] = next]
        BY <1>1, <2>3
      <4> HIDE DEF next
      <4> QED BY <1>1, <4>1, <4>2
    <3>5. readable # {} => RoleOf(i)' = RoleOf(i)
      BY <3>3 DEF RoleOf
    <3>6. RunInv(i)' /\ ~ Owns(i)'
      <4>1. ~ Owns(i)' /\ run'[i].pc \notin Working
        BY <3>3 DEF Owns, Working
      <4>2. CASE readable = {}
        BY <1>1, <3>3, <4>1, <4>2 DEF RunInv, Working, analyzer
      <4>3. CASE readable # {}
        BY <1>1, <1>3, <3>0, <3>3, <3>5, <4>1, <4>3 DEF RunInv, Working, analyzer
      <4> QED BY <4>1, <4>2, <4>3
    <3>7. troubles' \in 0..MaxTroubles /\ troubles <= troubles'
      BY <1>1, <3>0, AdvisorBounds DEF Trouble
    <3> QED BY <1>1, <3>3, <3>4, <3>6, <3>7, MoveKeeps
  <2> QED BY <2>1, <2>2, <2>3 DEF FetchPolicies
<1> QED BY <1>2, <1>3

(* What the generated file says.                                           *)
LEMMA ProposalIn ==
  ASSUME NEW r \in Resource, NEW p \in Policy,
         NEW d \in UNION {Revisions[q] : q \in Policy},
         NEW unused \in SUBSET UNION {{f.action : f \in Range(s)} : s \in Summaries},
         NEW listed \in BOOLEAN
  PROVE  [role |-> r, policy |-> p, statements |-> d, unused |-> unused,
          listed |-> listed] \in Proposals
BY Zenon DEF Proposals

(* The loop over the policies: a file is one that the validation passed.   *)
LEMMA NextPolicyKeeps ==
  ASSUME AdvisorInv, NEW i \in Invocation, NextPolicy(i)
  PROVE  AdvisorInv'
<1>1. /\ AdvisorTypeOK /\ RunInv(i) /\ run[i].pc = "policy"
      /\ UNCHANGED <<day, analyzer, github, troubles>>
      /\ run[i] \in RunState /\ run \in [Invocation -> RunState]
      /\ troubles \in 0..MaxTroubles /\ ~ Owns(i)
  BY DEF AdvisorInv, NextPolicy, AdvisorTypeOK, Owns
<1>2. troubles' \in 0..MaxTroubles /\ troubles <= troubles'
  BY <1>1, AdvisorBounds
<1>3. run[i].roles # {} /\ First(run[i].roles) \in run[i].roles
  BY <1>1, FirstIn DEF RunState, RunInv
<1>4. RoleOf(i) \in Resource
  BY <1>1, <1>3, FindingsFacts DEF RoleOf, RunInv, RunState
<1>5. CASE run[i].policies = {}
  <2>1. run' = [run EXCEPT ![i].pc = "role", ![i].roles = @ \ {First(@)}]
    BY <1>5 DEF NextPolicy
  <2>2. /\ run'[i].pc = "role" /\ run'[i].roles = run[i].roles \ {First(run[i].roles)}
        /\ run'[i].policies = {} /\ run'[i].findings = run[i].findings
        /\ run'[i].key = run[i].key /\ run'[i].head = run[i].head
        /\ \A j \in Invocation \ {i} : run'[j] = run[j]
    BY <1>1, <1>5, <2>1 DEF RunState
  <2>3. run' \in [Invocation -> RunState]
    BY <1>1, <2>1 DEF RunState
  <2>4. RunInv(i)' /\ ~ Owns(i)'
    BY <1>1, <2>2 DEF RunInv, Working, Owns, analyzer
  <2> QED BY <1>1, <1>2, <2>2, <2>3, <2>4, MoveKeeps
<1>6. CASE run[i].policies # {}
  <2> DEFINE p == Attached[RoleOf(i)][First(run[i].policies)]
             unused == UnusedOf(run[i].findings, RoleOf(i))
             file(d, listed) == [role |-> RoleOf(i), policy |-> p, statements |-> d,
                                 unused |-> unused, listed |-> listed]
  <2>1. First(run[i].policies) \in run[i].policies
    BY <1>1, <1>6, FirstIn DEF RunState
  <2>2. p \in Policy
    <3>1. /\ First(run[i].policies) \in DOMAIN Attached[RoleOf(i)]
          /\ Attached[RoleOf(i)] # Nothing
      BY <1>1, <1>6, <2>1 DEF RunInv
    <3>2. Attached[RoleOf(i)] \in Seq(Policy)
      BY <1>4, <3>1, AdvisorAssumption
    <3> QED BY <3>1, <3>2
  <2>3. ASSUME NEW d \in Revisions[p], NEW listed \in BOOLEAN,
               Validate(Document[p], d, unused),
               run' = [run EXCEPT ![i].pc = "branch", ![i].file = file(d, listed)]
        PROVE  AdvisorInv'
    <3>1. Kept(file(d, listed))
      BY <2>2, <2>3, ValidatedIsKept
    <3>2. file(d, listed) \in Proposals
      <4>1. d \in UNION {Revisions[q] : q \in Policy}
        BY <2>2, <2>3
      <4>2. unused \in SUBSET UNION {{f.action : f \in Range(s)} : s \in Summaries}
        BY <1>1, FindingsFacts DEF RunState
      <4> QED BY <1>4, <2>2, <4>1, <4>2, ProposalIn
    <3> HIDE DEF file
    <3>3. /\ run'[i].pc = "branch" /\ run'[i].file = file(d, listed)
          /\ run'[i].policies = run[i].policies /\ run'[i].roles = run[i].roles
          /\ run'[i].findings = run[i].findings
          /\ run'[i].key = run[i].key /\ run'[i].head = run[i].head
          /\ \A j \in Invocation \ {i} : run'[j] = run[j]
      BY <1>1, <2>3 DEF RunState
    <3>4. run' \in [Invocation -> RunState]
      BY <1>1, <2>3, <3>2 DEF RunState
    <3>5. RoleOf(i)' = RoleOf(i)
      BY <3>3 DEF RoleOf
    <3>6. Kept(run'[i].file)
      BY <3>1, <3>3
    <3>7. Kept(run[i].file)'
      BY <3>6 DEF Kept, Keeps, StmtKey, NormalizeActions
    <3>8. RunInv(i)' /\ ~ Owns(i)'
      BY <1>1, <1>3, <1>6, <3>2, <3>3, <3>5, <3>7 DEF RunInv, Working, Owns, analyzer
    <3> QED BY <1>1, <1>2, <3>3, <3>4, <3>8, MoveKeeps
  <2>4. ASSUME run' = [run EXCEPT ![i].policies = @ \ {First(@)}]
        PROVE  AdvisorInv'
    <3>1. /\ run'[i].policies = run[i].policies \ {First(run[i].policies)}
          /\ run'[i].pc = run[i].pc /\ run'[i].roles = run[i].roles
          /\ run'[i].findings = run[i].findings /\ run'[i].file = run[i].file
          /\ run'[i].key = run[i].key /\ run'[i].head = run[i].head
          /\ \A j \in Invocation \ {i} : run'[j] = run[j]
      BY <1>1, <2>4 DEF RunState
    <3>2. run' \in [Invocation -> RunState]
      BY <1>1, <2>4 DEF RunState
    <3>3. RoleOf(i)' = RoleOf(i)
      BY <3>1 DEF RoleOf
    <3>4. RunInv(i)' /\ ~ Owns(i)'
      BY <1>1, <1>3, <3>1, <3>3 DEF RunInv, Working, Owns, analyzer
    <3> QED BY <1>1, <1>2, <3>1, <3>2, <3>4, MoveKeeps
  <2>5. PICK answer \in Answers(p) :
          IF ~Accepted(answer, p, unused)
          THEN run' = [run EXCEPT ![i].policies = @ \ {First(@)}]
          ELSE IF answer.removed = "no list" THEN Fail(i)
          ELSE run' = [run EXCEPT ![i].pc = "branch",
                                  ![i].file = file(answer.document, answer.listed)]
    BY <1>6, Zenon DEF NextPolicy
  <2>6. answer.document \in Revisions[p] \cup {Nothing} /\ answer.listed \in BOOLEAN
    BY <2>5 DEF Answers
  <2>7. CASE Fail(i)
    BY <1>1, <1>2, <2>7, FailKeeps
  <2> HIDE DEF p, unused, file
  <2> QED BY <2>3, <2>4, <2>5, <2>6, <2>7 DEF Accepted
<1> QED BY <1>5, <1>6

(* The message is sent: what was proposed is no longer needed.             *)
LEMMA NotifyKeeps ==
  ASSUME AdvisorInv, NEW i \in Invocation, Notify(i)
  PROVE  AdvisorInv'
<1>1. /\ AdvisorTypeOK /\ RunInv(i) /\ run[i].pc = "notify"
      /\ UNCHANGED <<day, analyzer, github, troubles>>
      /\ run[i] \in RunState /\ run \in [Invocation -> RunState]
      /\ troubles \in 0..MaxTroubles /\ ~ Owns(i)
  BY DEF AdvisorInv, Notify, AdvisorTypeOK, Owns
<1>2. troubles' \in 0..MaxTroubles /\ troubles <= troubles'
  BY <1>1, AdvisorBounds
<1>3. run' = [run EXCEPT ![i].pc = "policy", ![i].policies = @ \ {First(@)},
                         ![i].file = Nothing, ![i].head = Nothing]
  BY DEF Notify
<1>4. /\ run'[i].pc = "policy"
      /\ run'[i].policies = run[i].policies \ {First(run[i].policies)}
      /\ run'[i].head = Nothing /\ run'[i].roles = run[i].roles
      /\ run'[i].findings = run[i].findings /\ run'[i].key = run[i].key
      /\ \A j \in Invocation \ {i} : run'[j] = run[j]
  BY <1>1, <1>3 DEF RunState
<1>5. run' \in [Invocation -> RunState]
  <2> DEFINE next == [run[i] EXCEPT !.pc = "policy", !.policies = @ \ {First(@)},
                                    !.file = Nothing, !.head = Nothing]
  <2>1. next \in RunState
    BY <1>1 DEF RunState
  <2>2. run' = [run EXCEPT ![i] = next]
    BY <1>1, <1>3
  <2> HIDE DEF next
  <2> QED BY <1>1, <2>1, <2>2
<1>6. RoleOf(i)' = RoleOf(i)
  BY <1>4 DEF RoleOf
<1>7. RunInv(i)' /\ ~ Owns(i)'
  BY <1>1, <1>4, <1>6 DEF RunInv, Working, Owns, analyzer
<1> QED BY <1>1, <1>2, <1>4, <1>5, <1>7, MoveKeeps

LEMMA DieKeeps ==
  ASSUME AdvisorInv, NEW i \in Invocation, Die(i)
  PROVE  AdvisorInv'
<1>1. /\ Trouble /\ Fail(i) /\ run[i].pc # "idle" /\ UNCHANGED <<day, analyzer, github>>
      /\ troubles \in 0..MaxTroubles
  BY DEF Die, AdvisorInv, AdvisorTypeOK
<1>2. troubles' \in 0..MaxTroubles /\ troubles <= troubles' /\ troubles' > 0
  BY <1>1, AdvisorBounds DEF Trouble
<1> QED BY <1>1, <1>2, FailKeeps

-----------------------------------------------------------------------------
(* The calls to GitHub that have their effect: after each the invocation   *)
(* goes on, or it fails because the answer is lost.                        *)

LEMMA BranchNameIn ==
  ASSUME AdvisorTypeOK, NEW i \in Invocation, run[i].file \in Proposals
  PROVE  BranchName(i) \in BranchNames /\ BranchName(i).short = ShortName[run[i].file.role]
<1>1. run[i].file.role \in Resource
  BY DEF Proposals
<1> QED BY <1>1 DEF BranchName, BranchNames, AdvisorTypeOK

(* A branch that did not exist is created.                                 *)
LEMMA BranchAdded ==
  ASSUME AdvisorInv, NEW i \in Invocation, run[i].pc = "branch",
         BranchName(i) \notin DOMAIN branch,
         branch' = [m \in DOMAIN branch \cup {BranchName(i)} |->
                      IF m = BranchName(i) THEN main[m.short] ELSE branch[m]],
         UNCHANGED <<day, analyzer, main, prs>>,
         run' \in [Invocation -> RunState], \A j \in Invocation \ {i} : run'[j] = run[j],
         RunInv(i)', troubles' \in 0..MaxTroubles, troubles <= troubles',
         \/ run'[i].pc = "commit" /\ run'[i].head = BranchName(i)
         \/ ~ Owns(i)' /\ troubles' > 0
  PROVE  AdvisorInv'
<1> DEFINE n == BranchName(i)
<1>1. /\ AdvisorTypeOK /\ RequestInv /\ OrphanInv
      /\ \A j \in Invocation : RunInv(j) /\ OwnerInv(j)
      /\ \A file \in Files : Kept(file)
  BY DEF AdvisorInv
<1>2. n \in BranchNames /\ n.short \in DOMAIN main
  <2>1. run[i].file \in Proposals
    BY <1>1 DEF RunInv, Working
  <2>2. run[i].file.role \in Resource
    BY <2>1 DEF Proposals
  <2> QED BY <1>1, <2>1, <2>2, BranchNameIn DEF AdvisorTypeOK
<1>3. n \notin DOMAIN branch /\ DOMAIN branch' = DOMAIN branch \cup {n}
      /\ branch'[n] = main[n.short] /\ \A m \in DOMAIN branch : branch'[m] = branch[m]
  OBVIOUS
<1>4. \/ run'[i].pc = "commit" /\ run'[i].head = n
      \/ ~ Owns(i)' /\ troubles' > 0
  OBVIOUS
<1>5. AdvisorTypeOK'
  <2>1. branch' \in [DOMAIN branch' -> Proposals \cup {Nothing}]
    <3>1. main[n.short] \in Proposals \cup {Nothing}
      BY <1>1, <1>2 DEF AdvisorTypeOK
    <3>2. \A m \in DOMAIN branch : branch[m] \in Proposals \cup {Nothing}
      BY <1>1 DEF AdvisorTypeOK
    <3> QED BY <3>1, <3>2
  <2> HIDE DEF n
  <2>2. DOMAIN branch' \subseteq BranchNames
    BY <1>1, <1>2, <1>3 DEF AdvisorTypeOK
  <2>3. day' = day /\ scanned' = scanned /\ stored' = stored /\ scans' = scans
        /\ main' = main /\ prs' = prs
    BY DEF analyzer
  <2> QED BY <1>1, <2>1, <2>2, <2>3 DEF AdvisorTypeOK
<1> HIDE DEF n
<1>6. \A j \in Invocation : RunInv(j)'
  BY <1>1, RunKept DEF analyzer
<1>7. ASSUME NEW j \in Invocation PROVE OwnerInv(j)'
  <2>1. CASE j # i
    <3>1. run'[j] = run[j] /\ OwnerInv(j)
      BY <1>1, <2>1
    <3>2. Owns(j) => run[j].head \in DOMAIN branch /\ run[j].head # n
      BY <1>3, <3>1 DEF OwnerInv
    <3>3. Owns(i)' => run'[i].head = n
      BY <1>4
    <3>4. \A k \in Invocation \ {i} : run'[k] = run[k]
      OBVIOUS
    <3> QED BY <1>3, <2>1, <3>1, <3>2, <3>3, <3>4 DEF OwnerInv, Owns
  <2>2. CASE j = i
    <3>1. \A pr \in prs : pr.head # n
      BY <1>1, <1>3 DEF RequestInv
    <3>2. \A k \in Invocation \ {i} : Owns(k)' => run'[k].head # n
      BY <1>1, <1>3 DEF OwnerInv, Owns
    <3> QED BY <1>3, <1>4, <2>2, <3>1, <3>2 DEF OwnerInv, Owns
  <2> QED BY <2>1, <2>2
<1>8. RequestInv'
  BY <1>1, <1>3 DEF RequestInv
<1>9. OrphanInv'
  <2> SUFFICES ASSUME NEW m \in DOMAIN branch'
               PROVE  \/ \E j \in Invocation : Owns(j)' /\ run'[j].head = m
                      \/ \E pr \in prs : pr.head = m
                      \/ troubles' > 0 \/ main[m.short] # Nothing \/ Unlisted(m)'
    BY DEF OrphanInv
  <2>1. CASE m = n
    BY <1>4, <2>1 DEF Owns
  <2>2. CASE m \in DOMAIN branch
    <3>1. ASSUME NEW j \in Invocation, Owns(j), run[j].head = m
          PROVE  Owns(j)' /\ run'[j].head = m
      BY <3>1 DEF Owns
    <3>2. troubles > 0 => troubles' > 0
      BY <1>1 DEF AdvisorTypeOK
    <3>3. Unlisted(m) => Unlisted(m)'
      BY <1>3, <2>2 DEF Unlisted
    <3> QED BY <1>1, <2>2, <3>1, <3>2, <3>3 DEF OrphanInv
  <2> QED BY <1>3, <2>1, <2>2
<1>10. \A file \in Files' : Kept(file)
  <2>1. Files' \subseteq Files
    BY <1>2, <1>3 DEF Files
  <2> QED BY <1>1, <2>1
<1>11. \A file \in Files' : Kept(file)'
  BY <1>10 DEF Kept, Keeps, StmtKey, NormalizeActions
<1>12. TriggerInv'
  BY TriggerKept DEF AdvisorInv
<1> QED BY <1>5, <1>6, <1>7, <1>8, <1>9, <1>11, <1>12 DEF AdvisorInv

(* The file is put on the branch of its invocation.                        *)
LEMMA FileCommitted ==
  ASSUME AdvisorInv, NEW i \in Invocation, run[i].pc = "commit",
         branch' = [branch EXCEPT ![run[i].head] = run[i].file],
         UNCHANGED <<day, analyzer, main, prs>>,
         run' \in [Invocation -> RunState], \A j \in Invocation \ {i} : run'[j] = run[j],
         RunInv(i)', troubles' \in 0..MaxTroubles, troubles <= troubles',
         \/ /\ run'[i].pc = "pull" /\ run'[i].head = run[i].head
            /\ run'[i].file = run[i].file
         \/ ~ Owns(i)' /\ troubles' > 0
  PROVE  AdvisorInv'
<1> DEFINE n == run[i].head
           file == run[i].file
<1>1. /\ AdvisorTypeOK /\ RequestInv /\ OrphanInv
      /\ \A j \in Invocation : RunInv(j) /\ OwnerInv(j)
      /\ \A f \in Files : Kept(f)
  BY DEF AdvisorInv
<1>2. /\ n \in DOMAIN branch /\ (\A pr \in prs : pr.head # n)
      /\ \A j \in Invocation \ {i} : Owns(j) => run[j].head # n
  BY <1>1 DEF OwnerInv, Owns
<1>3. file \in Proposals /\ Kept(file)
  BY <1>1 DEF RunInv, Working
<1>4. DOMAIN branch' = DOMAIN branch /\ branch'[n] = file
      /\ \A m \in DOMAIN branch \ {n} : branch'[m] = branch[m]
  BY <1>2
<1>5. \/ run'[i].pc = "pull" /\ run'[i].head = n /\ run'[i].file = file
      \/ ~ Owns(i)' /\ troubles' > 0
  OBVIOUS
<1>6. AdvisorTypeOK'
  <2>1. branch' \in [DOMAIN branch -> Proposals \cup {Nothing}]
    BY <1>1, <1>3 DEF AdvisorTypeOK
  <2> HIDE DEF n, file
  <2>3. day' = day /\ scanned' = scanned /\ stored' = stored /\ scans' = scans
        /\ main' = main /\ prs' = prs
    BY DEF analyzer
  <2> QED BY <1>1, <1>4, <2>1, <2>3 DEF AdvisorTypeOK
<1> HIDE DEF n, file
<1>7. \A j \in Invocation : RunInv(j)'
  BY <1>1, RunKept DEF analyzer
<1>8. ASSUME NEW j \in Invocation PROVE OwnerInv(j)'
  <2>1. CASE j # i
    <3>1. run'[j] = run[j] /\ OwnerInv(j)
      BY <1>1, <2>1
    <3>2. Owns(j) => run[j].head \in DOMAIN branch \ {n}
      BY <1>2, <2>1, <3>1 DEF OwnerInv
    <3>3. Owns(i)' => run'[i].head = n
      BY <1>5
    <3>4. \A k \in Invocation \ {i} : run'[k] = run[k]
      OBVIOUS
    <3> QED BY <1>4, <2>1, <3>1, <3>2, <3>3, <3>4 DEF OwnerInv, Owns
  <2>2. CASE j = i
    <3>1. \A k \in Invocation \ {i} : Owns(k)' => run'[k].head # n
      BY <1>2 DEF Owns
    <3> QED BY <1>2, <1>4, <1>5, <2>2, <3>1 DEF OwnerInv, Owns
  <2> QED BY <2>1, <2>2
<1>9. RequestInv'
  BY <1>1, <1>2, <1>4 DEF RequestInv
<1>10. OrphanInv'
  <2> SUFFICES ASSUME NEW m \in DOMAIN branch
               PROVE  \/ \E j \in Invocation : Owns(j)' /\ run'[j].head = m
                      \/ \E pr \in prs : pr.head = m
                      \/ troubles' > 0 \/ main[m.short] # Nothing \/ Unlisted(m)'
    BY <1>4 DEF OrphanInv
  <2>1. CASE m = n
    BY <1>5, <2>1 DEF Owns
  <2>2. CASE m # n
    <3>1. ASSUME NEW j \in Invocation, Owns(j), run[j].head = m
          PROVE  Owns(j)' /\ run'[j].head = m
      BY <2>2, <3>1 DEF Owns, n
    <3>2. troubles > 0 => troubles' > 0
      BY <1>1 DEF AdvisorTypeOK
    <3>3. Unlisted(m) => Unlisted(m)'
      BY <1>4, <2>2 DEF Unlisted
    <3> QED BY <1>1, <3>1, <3>2, <3>3 DEF OrphanInv
  <2> QED BY <2>1, <2>2
<1>11. \A f \in Files' : Kept(f)
  <2>1. Files' \subseteq Files \cup {file}
    BY <1>4 DEF Files
  <2> QED BY <1>1, <1>3, <2>1
<1>12. \A f \in Files' : Kept(f)'
  BY <1>11 DEF Kept, Keeps, StmtKey, NormalizeActions
<1>13. TriggerInv'
  BY TriggerKept DEF AdvisorInv
<1> QED BY <1>6, <1>7, <1>8, <1>9, <1>10, <1>12, <1>13 DEF AdvisorInv

(* The pull request is opened for the branch of its invocation.            *)
LEMMA RequestOpened ==
  ASSUME AdvisorInv, NEW i \in Invocation, run[i].pc = "pull",
         prs' = prs \cup {PullRequest(i)},
         UNCHANGED <<day, analyzer, main, branch>>,
         run' \in [Invocation -> RunState], \A j \in Invocation \ {i} : run'[j] = run[j],
         RunInv(i)', ~ Owns(i)', troubles' \in 0..MaxTroubles, troubles <= troubles'
  PROVE  AdvisorInv'
<1> DEFINE n == run[i].head
           file == run[i].file
           new == PullRequest(i)
<1>1. /\ AdvisorTypeOK /\ RequestInv /\ OrphanInv
      /\ \A j \in Invocation : RunInv(j) /\ OwnerInv(j)
      /\ \A f \in Files : Kept(f)
  BY DEF AdvisorInv
<1>2. /\ n \in DOMAIN branch /\ (\A pr \in prs : pr.head # n)
      /\ \A j \in Invocation \ {i} : Owns(j) => run[j].head # n
      /\ branch[n] = file
  BY <1>1 DEF OwnerInv, Owns
<1>3. /\ file \in Proposals /\ n \in BranchNames /\ n.short = ShortName[file.role]
      /\ file # Nothing
  BY <1>1, AdvisorBounds DEF RunInv, Working
<1>4. new.head = n /\ new.role = file.role /\ new.policy = file.policy
  BY DEF PullRequest
<1>5. AdvisorTypeOK'
  <2>1. file.role \in Resource /\ file.policy \in Policy
    BY <1>3 DEF Proposals
  <2>2. new \in [head : BranchNames, role : Resource, policy : Policy]
    BY <1>3, <2>1 DEF PullRequest
  <2> HIDE DEF n, file, new
  <2>3. day' = day /\ scanned' = scanned /\ stored' = stored /\ scans' = scans
        /\ main' = main /\ branch' = branch
    BY DEF analyzer
  <2>4. prs' \subseteq [head : BranchNames, role : Resource, policy : Policy]
    BY <1>1, <2>2 DEF AdvisorTypeOK, new
  <2> QED BY <1>1, <2>3, <2>4 DEF AdvisorTypeOK
<1>6. prs' = prs \cup {new}
  OBVIOUS
<1> HIDE DEF n, file, new
<1>7. \A j \in Invocation : RunInv(j)'
  BY <1>1, RunKept DEF analyzer
<1>8. ASSUME NEW j \in Invocation PROVE OwnerInv(j)'
  <2>1. CASE j # i
    <3>1. run'[j] = run[j] /\ OwnerInv(j)
      BY <1>1, <2>1
    <3>2. \A k \in Invocation \ {i} : run'[k] = run[k]
      OBVIOUS
    <3>3. \A pr \in prs' : Owns(j) => pr.head # run[j].head
      BY <1>2, <1>4, <1>6, <2>1, <3>1 DEF OwnerInv
    <3> QED BY <2>1, <3>1, <3>2, <3>3 DEF OwnerInv, Owns
  <2>2. CASE j = i
    BY <2>2 DEF OwnerInv
  <2> QED BY <2>1, <2>2
<1>9. RequestInv'
  <2>1. \A pr \in prs' :
          /\ pr.head \in DOMAIN branch /\ branch[pr.head] # Nothing
          /\ branch[pr.head].role = pr.role /\ branch[pr.head].policy = pr.policy
          /\ pr.head.short = ShortName[pr.role]
    BY <1>1, <1>2, <1>3, <1>4, <1>6 DEF RequestInv
  <2>2. \A a, b \in prs' : a.head = b.head => a = b
    BY <1>1, <1>2, <1>4, <1>6 DEF RequestInv
  <2> QED BY <2>1, <2>2 DEF RequestInv
<1>10. OrphanInv'
  <2> SUFFICES ASSUME NEW m \in DOMAIN branch
               PROVE  \/ \E j \in Invocation : Owns(j)' /\ run'[j].head = m
                      \/ \E pr \in prs' : pr.head = m
                      \/ troubles' > 0 \/ main[m.short] # Nothing \/ Unlisted(m)
    BY DEF OrphanInv, Unlisted
  <2>1. CASE m = n
    BY <1>4, <1>6, <2>1
  <2>2. CASE m # n
    <3>1. ASSUME NEW j \in Invocation, Owns(j), run[j].head = m
          PROVE  Owns(j)' /\ run'[j].head = m
      BY <2>2, <3>1 DEF Owns, n
    <3>2. troubles > 0 => troubles' > 0
      BY <1>1 DEF AdvisorTypeOK
    <3> QED BY <1>1, <1>6, <3>1, <3>2 DEF OrphanInv
  <2> QED BY <2>1, <2>2
<1>11. Files' = Files
  BY DEF Files
<1>12. \A f \in Files' : Kept(f)'
  BY <1>1, <1>11 DEF Kept, Keeps, StmtKey, NormalizeActions
<1>13. TriggerInv'
  BY TriggerKept DEF AdvisorInv
<1> QED BY <1>5, <1>7, <1>8, <1>9, <1>10, <1>12, <1>13 DEF AdvisorInv

(* create_pr: GitHub refuses a call only where another invocation holds    *)
(* the branch, or main has the file.                                       *)
LEMMA GithubCallKeeps ==
  ASSUME AdvisorInv, NEW i \in Invocation, GithubCall(i)
  PROVE  AdvisorInv'
<1>1. /\ AdvisorTypeOK /\ RunInv(i) /\ OwnerInv(i)
      /\ UNCHANGED <<day, analyzer, main, troubles>>
      /\ run[i] \in RunState /\ run \in [Invocation -> RunState]
      /\ troubles \in 0..MaxTroubles
  BY DEF AdvisorInv, GithubCall, AdvisorTypeOK
<1>2. troubles' \in 0..MaxTroubles /\ troubles <= troubles'
  BY <1>1, AdvisorBounds
<1>3. CASE run[i].pc = "branch" /\ CreateBranch(i) /\ UNCHANGED prs
  <2>1. CASE BranchName(i) \in DOMAIN branch
    <3>1. Fail(i) /\ UNCHANGED branch
      BY <1>3, <2>1 DEF CreateBranch
    <3> QED BY <1>1, <1>2, <1>3, <3>1, FailKeeps DEF github, Owns
  <2>2. CASE BranchName(i) \notin DOMAIN branch
    <3>1. /\ branch' = [m \in DOMAIN branch \cup {BranchName(i)} |->
                          IF m = BranchName(i) THEN main[m.short] ELSE branch[m]]
          /\ run' = [run EXCEPT ![i].pc = "commit", ![i].head = BranchName(i)]
      BY <1>3, <2>2 DEF CreateBranch
    <3>2. run[i].file \in Proposals
      BY <1>1, <1>3 DEF RunInv, Working
    <3>3. BranchName(i) \in BranchNames /\ BranchName(i).short = ShortName[run[i].file.role]
      BY <1>1, <3>2, BranchNameIn
    <3> DEFINE n == BranchName(i)
    <3> HIDE DEF n
    <3>4. /\ run'[i].pc = "commit" /\ run'[i].head = BranchName(i)
          /\ run'[i].file = run[i].file /\ run'[i].findings = run[i].findings
          /\ run'[i].roles = run[i].roles /\ run'[i].policies = run[i].policies
          /\ run'[i].key = run[i].key
          /\ \A j \in Invocation \ {i} : run'[j] = run[j]
      BY <1>1, <3>1 DEF RunState
    <3>5. run' \in [Invocation -> RunState]
      BY <1>1, <3>1, <3>3 DEF RunState
    <3>6. RoleOf(i)' = RoleOf(i)
      BY <3>4 DEF RoleOf
    <3>7. Kept(run[i].file)'
      <4>1. Kept(run'[i].file)
        BY <1>1, <1>3, <3>4 DEF RunInv, Working
      <4> QED BY <4>1 DEF Kept, Keeps, StmtKey, NormalizeActions
    <3>8. RunInv(i)'
      BY <1>1, <1>3, <3>2, <3>3, <3>4, <3>6, <3>7 DEF RunInv, Working, analyzer
    <3> QED BY <1>1, <1>2, <1>3, <2>2, <3>1, <3>4, <3>5, <3>8, BranchAdded
  <2> QED BY <2>1, <2>2
<1>4. CASE run[i].pc = "commit" /\ CommitFile(i) /\ UNCHANGED prs
  <2>0. run[i].head \in DOMAIN branch
        /\ (branch[run[i].head] # Nothing => main[run[i].head.short] # Nothing)
    BY <1>1, <1>4 DEF OwnerInv, Owns
  <2>1. CASE branch[run[i].head] # Nothing
    <3>1. Fail(i) /\ UNCHANGED branch
      BY <1>4, <2>1 DEF CommitFile
    <3> QED BY <1>1, <1>2, <1>4, <2>0, <2>1, <3>1, FailKeeps DEF github
  <2>2. CASE branch[run[i].head] = Nothing
    <3>1. /\ branch' = [branch EXCEPT ![run[i].head] = run[i].file]
          /\ run' = [run EXCEPT ![i].pc = "pull"]
      BY <1>4, <2>0, <2>2 DEF CommitFile
    <3>2. /\ run'[i].pc = "pull" /\ run'[i].head = run[i].head
          /\ run'[i].file = run[i].file /\ run'[i].findings = run[i].findings
          /\ run'[i].roles = run[i].roles /\ run'[i].policies = run[i].policies
          /\ run'[i].key = run[i].key
          /\ \A j \in Invocation \ {i} : run'[j] = run[j]
      BY <1>1, <3>1 DEF RunState
    <3>3. run' \in [Invocation -> RunState]
      BY <1>1, <3>1 DEF RunState
    <3>4. RoleOf(i)' = RoleOf(i)
      BY <3>2 DEF RoleOf
    <3>5. Kept(run[i].file)'
      <4>1. Kept(run'[i].file)
        BY <1>1, <1>4, <3>2 DEF RunInv, Working
      <4> QED BY <4>1 DEF Kept, Keeps, StmtKey, NormalizeActions
    <3>6. RunInv(i)'
      BY <1>1, <1>4, <3>2, <3>4, <3>5 DEF RunInv, Working, analyzer
    <3> QED BY <1>1, <1>2, <1>4, <3>1, <3>2, <3>3, <3>6, FileCommitted
  <2> QED BY <2>1, <2>2
<1>5. CASE run[i].pc = "pull" /\ CreatePullRequest(i) /\ UNCHANGED branch
  <2>1. /\ run[i].head \in DOMAIN branch /\ \A pr \in prs : pr.head # run[i].head
        /\ branch[run[i].head] = run[i].file /\ run[i].file # Nothing
    BY <1>1, <1>5, AdvisorBounds DEF OwnerInv, Owns, RunInv, Working
  <2>a. CASE ~ run[i].file.listed
    <3>1. Fail(i) /\ UNCHANGED prs
      BY <1>5, <2>a DEF CreatePullRequest
    <3>2. Unlisted(run[i].head)
      BY <2>1, <2>a DEF Unlisted
    <3> QED BY <1>1, <1>2, <1>5, <3>1, <3>2, FailKeeps DEF github
  <2> SUFFICES ASSUME run[i].file.listed PROVE AdvisorInv'
    BY <2>a
  <2>2. /\ prs' = prs \cup {PullRequest(i)}
        /\ run' = [run EXCEPT ![i].pc = "notify"]
    BY <1>5, <2>1 DEF CreatePullRequest
  <2>3. /\ run'[i].pc = "notify" /\ run'[i].head = run[i].head
        /\ run'[i].file = run[i].file /\ run'[i].findings = run[i].findings
        /\ run'[i].roles = run[i].roles /\ run'[i].policies = run[i].policies
        /\ run'[i].key = run[i].key
        /\ \A j \in Invocation \ {i} : run'[j] = run[j]
    BY <1>1, <2>2 DEF RunState
  <2>4. run' \in [Invocation -> RunState]
    BY <1>1, <2>2 DEF RunState
  <2>5. RoleOf(i)' = RoleOf(i)
    BY <2>3 DEF RoleOf
  <2>6. Kept(run[i].file)'
    <3>1. Kept(run'[i].file)
      BY <1>1, <1>5, <2>3 DEF RunInv, Working
    <3> QED BY <3>1 DEF Kept, Keeps, StmtKey, NormalizeActions
  <2>7. RunInv(i)' /\ ~ Owns(i)'
    BY <1>1, <1>5, <2>3, <2>5, <2>6 DEF RunInv, Working, Owns, analyzer
  <2> QED BY <1>1, <1>2, <1>5, <2>2, <2>3, <2>4, <2>7, RequestOpened
<1> QED BY <1>3, <1>4, <1>5 DEF GithubCall

(* A call that raises, with or without its effect: the invocation fails    *)
(* and what it leaves behind is put down to a trouble.                     *)
LEMMA GithubCallFailsKeeps ==
  ASSUME AdvisorInv, NEW i \in Invocation, GithubCallFails(i)
  PROVE  AdvisorInv'
<1>1. /\ Trouble /\ Fail(i) /\ run[i].pc \in {"branch", "commit", "pull"}
      /\ UNCHANGED <<day, analyzer, main>> /\ troubles \in 0..MaxTroubles
      /\ AdvisorTypeOK /\ RunInv(i) /\ OwnerInv(i)
  BY DEF GithubCallFails, AdvisorInv, AdvisorTypeOK
<1>2. troubles' \in 0..MaxTroubles /\ troubles <= troubles' /\ troubles' > 0
  BY <1>1, AdvisorBounds DEF Trouble
<1>3. /\ run' \in [Invocation -> RunState] /\ ~ Owns(i)' /\ RunInv(i)'
      /\ \A j \in Invocation \ {i} : run'[j] = run[j]
  BY <1>1, FailFacts DEF analyzer
<1>4. CASE UNCHANGED <<branch, prs>>
  BY <1>1, <1>2, <1>4, FailKeeps DEF github
<1>5. CASE /\ run[i].pc = "branch" /\ BranchName(i) \notin DOMAIN branch
           /\ branch' = [m \in DOMAIN branch \cup {BranchName(i)} |->
                           IF m = BranchName(i) THEN main[m.short] ELSE branch[m]]
           /\ UNCHANGED prs
  BY <1>1, <1>2, <1>3, <1>5, BranchAdded
<1>6. CASE /\ run[i].pc = "commit"
           /\ branch' = [branch EXCEPT ![run[i].head] = run[i].file]
           /\ UNCHANGED prs
  BY <1>1, <1>2, <1>3, <1>6, FileCommitted
<1>7. CASE run[i].pc = "pull" /\ prs' = prs \cup {PullRequest(i)} /\ UNCHANGED branch
  BY <1>1, <1>2, <1>3, <1>7, RequestOpened
<1> QED BY <1>4, <1>5, <1>6, <1>7 DEF GithubCallFails

-----------------------------------------------------------------------------
(* An engineer takes a pull request away, merged or not.                   *)
LEMMA RequestClosed ==
  ASSUME AdvisorInv, NEW pr \in prs, prs' = prs \ {pr},
         UNCHANGED <<day, analyzer, run, troubles>>,
         \/ main' = main
         \/ main' = [main EXCEPT ![pr.head.short] = branch[pr.head]],
         \/ branch' = [n \in DOMAIN branch \ {pr.head} |-> branch[n]]
         \/ branch' = branch /\ main' # main,
         main' # main => main[pr.head.short] = Nothing
  PROVE  AdvisorInv'
<1>1. /\ AdvisorTypeOK /\ RequestInv /\ OrphanInv
      /\ \A j \in Invocation : RunInv(j) /\ OwnerInv(j)
      /\ \A f \in Files : Kept(f)
  BY DEF AdvisorInv
<1>2. /\ pr.head \in DOMAIN branch /\ branch[pr.head] # Nothing
      /\ branch[pr.head] \in Proposals \cup {Nothing}
      /\ pr.head.short \in DOMAIN main
  <2>1. pr.head \in BranchNames
    BY <1>1 DEF AdvisorTypeOK
  <2> QED BY <1>1, <2>1 DEF RequestInv, AdvisorTypeOK, BranchNames
<1>3. /\ DOMAIN branch' \in {DOMAIN branch, DOMAIN branch \ {pr.head}}
      /\ \A n \in DOMAIN branch' : branch'[n] = branch[n]
      /\ branch' \in [DOMAIN branch' -> Proposals \cup {Nothing}]
      /\ DOMAIN branch' \subseteq BranchNames
  <2>1. /\ branch \in [DOMAIN branch -> Proposals \cup {Nothing}]
        /\ DOMAIN branch \subseteq BranchNames
    BY <1>1 DEF AdvisorTypeOK
  <2>2. CASE branch' = branch
    BY <2>1, <2>2
  <2>3. CASE branch' = [n \in DOMAIN branch \ {pr.head} |-> branch[n]]
    BY <2>1, <2>3
  <2> QED BY <2>2, <2>3
<1>4. /\ DOMAIN main' = DOMAIN main
      /\ \A s \in DOMAIN main : main[s] # Nothing => main'[s] = main[s]
      /\ \A s \in DOMAIN main : main'[s] = main[s] \/ main'[s] = branch[pr.head]
      /\ main' \in [{ShortName[r] : r \in Resource} -> Proposals \cup {Nothing}]
  <2>1. main \in [{ShortName[r] : r \in Resource} -> Proposals \cup {Nothing}]
    BY <1>1 DEF AdvisorTypeOK
  <2>2. CASE main' = main
    BY <2>1, <2>2
  <2>3. CASE main' = [main EXCEPT ![pr.head.short] = branch[pr.head]] /\ main' # main
    BY <1>2, <2>1, <2>3
  <2> QED BY <2>2, <2>3
<1>5. main' # main => main'[pr.head.short] # Nothing
  BY <1>2
<1>6. AdvisorTypeOK'
  BY <1>1, <1>3, <1>4 DEF AdvisorTypeOK, analyzer
<1>7. \A j \in Invocation : RunInv(j)'
  BY <1>1, RunKept DEF analyzer
<1>8. ASSUME NEW j \in Invocation PROVE OwnerInv(j)'
  <2>1. OwnerInv(j) /\ run' = run
    BY <1>1
  <2>2. Owns(j) => run[j].head \in DOMAIN branch'
    BY <1>3, <2>1 DEF OwnerInv
  <2>3. Owns(j) => run[j].head.short \in DOMAIN main
    <3>1. Owns(j) => run[j].head \in BranchNames
      BY <1>1 DEF Owns, RunInv, Working
    <3> QED BY <1>1, <3>1 DEF BranchNames, AdvisorTypeOK
  <2> QED BY <1>3, <1>4, <2>1, <2>2, <2>3 DEF OwnerInv, Owns
<1>9. RequestInv'
  <2>1. \A other \in prs \ {pr} : other.head \in DOMAIN branch'
    BY <1>1, <1>3 DEF RequestInv
  <2> QED BY <1>1, <1>3, <2>1 DEF RequestInv
<1>10. OrphanInv'
  <2> SUFFICES ASSUME NEW m \in DOMAIN branch'
               PROVE  \/ \E j \in Invocation : Owns(j) /\ run[j].head = m
                      \/ \E other \in prs \ {pr} : other.head = m
                      \/ troubles > 0 \/ main'[m.short] # Nothing \/ Unlisted(m)'
    BY DEF OrphanInv, Owns
  <2>1. m \in DOMAIN branch /\ m.short \in DOMAIN main
    BY <1>1, <1>3 DEF BranchNames, AdvisorTypeOK
  <2>2. CASE m = pr.head
    <3>1. main' # main
      BY <2>2, <1>3
    <3> QED BY <1>5, <2>2, <3>1
  <2>3. CASE m # pr.head
    BY <1>1, <1>3, <1>4, <2>1, <2>3 DEF OrphanInv, Unlisted
  <2> QED BY <2>2, <2>3
<1>11. \A f \in Files' : Kept(f)
  <2>1. Files' \subseteq Files
    BY <1>2, <1>3, <1>4 DEF Files
  <2> QED BY <1>1, <2>1
<1>12. \A f \in Files' : Kept(f)'
  BY <1>11 DEF Kept, Keeps, StmtKey, NormalizeActions
<1>13. TriggerInv'
  BY TriggerKept DEF AdvisorInv
<1> QED BY <1>6, <1>7, <1>8, <1>9, <1>10, <1>12, <1>13 DEF AdvisorInv

LEMMA EngineerKeeps ==
  ASSUME AdvisorInv, NEW pr \in prs, Merge(pr) \/ Reject(pr)
  PROVE  AdvisorInv'
<1>1. CASE Reject(pr)
  BY <1>1, RequestClosed DEF Reject
<1>2. CASE Merge(pr)
  <2>1. pr.head.short \in DOMAIN main /\ branch[pr.head] # Nothing
    <3>1. pr.head \in BranchNames
      BY DEF AdvisorInv, AdvisorTypeOK
    <3> QED BY <3>1 DEF AdvisorInv, RequestInv, AdvisorTypeOK, BranchNames
  <2>2. main' # main
    BY <1>2, <2>1 DEF Merge
  <2> QED BY <1>2, <2>2, RequestClosed DEF Merge
<1> QED BY <1>1, <1>2

LEMMA AdvisorStep ==
  ASSUME AdvisorInv, [AdvisorNext]_advisorVars
  PROVE  AdvisorInv'
<1>1. CASE UNCHANGED advisorVars
  <2>1. AdvisorTypeOK'
    BY <1>1 DEF AdvisorInv, AdvisorTypeOK, advisorVars, analyzer, github
  <2>2. \A j \in Invocation : RunInv(j)'
    BY <1>1, RunKept DEF AdvisorInv, advisorVars, analyzer
  <2>3. /\ \A j \in Invocation : OwnerInv(j)'
        /\ RequestInv' /\ OrphanInv' /\ TriggerInv'
    BY <1>1 DEF AdvisorInv, advisorVars, analyzer, github, OwnerInv, Owns, RequestInv,
                OrphanInv, Unlisted, TriggerInv
  <2>4. \A f \in Files' : Kept(f)
    BY <1>1 DEF AdvisorInv, advisorVars, github, Files
  <2>5. \A f \in Files' : Kept(f)'
    BY <2>4 DEF Kept, Keeps, StmtKey, NormalizeActions
  <2> QED BY <2>1, <2>2, <2>3, <2>5 DEF AdvisorInv
<1>2. CASE Scan \/ Save \/ InvokePolicyAdvisor \/ TriggerFails \/ InvokeByHand \/ NextDay
  BY <1>2, TriggerKeeps
<1>3. ASSUME NEW i \in Invocation,
             \/ Begin(i) \/ NextRole(i) \/ NextPolicy(i)
             \/ GithubCall(i) \/ GithubCallFails(i) \/ Notify(i) \/ Die(i)
      PROVE  AdvisorInv'
  BY <1>3, BeginKeeps, NextRoleKeeps, NextPolicyKeeps, GithubCallKeeps,
     GithubCallFailsKeeps, NotifyKeeps, DieKeeps
<1>4. ASSUME NEW pr \in prs, Merge(pr) \/ Reject(pr)
      PROVE  AdvisorInv'
  BY <1>4, EngineerKeeps
<1> QED BY <1>1, <1>2, <1>3, <1>4 DEF AdvisorNext

LEMMA AdvisorInvHolds == AdvisorSpec => []AdvisorInv
<1>1. AdvisorInit => AdvisorInv
  BY InitAdvisor
<1>2. AdvisorInv /\ [AdvisorNext]_advisorVars => AdvisorInv'
  BY AdvisorStep
<1> QED BY <1>1, <1>2, PTL DEF AdvisorSpec

(* For every set of roles, policies, findings and answers of the model,    *)
(* and however often invocations overlap, fail and are repeated: a day has *)
(* one pull request for a policy of a role, a pull request shows the       *)
(* proposal it names, a branch without a pull request has a cause, and     *)
(* analyzer-trigger starts policy-advisor only for findings that are there.*)
THEOREM PullRequestsAlwaysSound == AdvisorSpec => []PullRequestsAreSound
<1>1. AdvisorInv => PullRequestsAreSound
  <2> SUFFICES ASSUME AdvisorInv PROVE PullRequestsAreSound
    OBVIOUS
  <2>1. AdvisorTypeOK /\ FindingsAreThere
    BY DEF AdvisorInv, RunInv, FindingsAreThere
  <2>2. NoDuplicateProposal
    <3> SUFFICES ASSUME NEW a \in prs, NEW b \in prs, a.role = b.role,
                        a.head.day = b.head.day
                 PROVE  a = b
      BY DEF NoDuplicateProposal
    <3>1. a.head \in BranchNames /\ b.head \in BranchNames
      BY DEF AdvisorInv, AdvisorTypeOK
    <3>2. a.head.short = b.head.short
      BY DEF AdvisorInv, RequestInv
    <3>3. a.head = b.head
      BY <3>1, <3>2 DEF BranchNames
    <3> QED BY <3>3 DEF AdvisorInv, RequestInv
  <2>3. PullRequestsShowTheirProposal
    BY DEF AdvisorInv, RequestInv, PullRequestsShowTheirProposal
  <2>4. OrphanBranchesHaveACause
    BY DEF AdvisorInv, OrphanInv, Unlisted, OrphanBranchesHaveACause
  <2> QED BY <2>1, <2>2, <2>3, <2>4 DEF PullRequestsAreSound
<1> QED BY <1>1, AdvisorInvHolds, PTL

(* Whatever the model answers, a file on a branch or on main keeps the     *)
(* statements of its policy that the findings do not call unused.          *)
THEOREM FilesAlwaysKeepTheRest == AdvisorSpec => []FilesKeepTheRest
<1>1. AdvisorInv => FilesKeepTheRest
  BY DEF AdvisorInv, FilesKeepTheRest, Kept
<1> QED BY <1>1, AdvisorInvHolds, PTL
=============================================================================

------------------------ MODULE SepTransformerProofs ------------------------
(***************************************************************************)
(* Proofs about SepTransformer for a shard of any length, any batch and    *)
(* chunk size and any mixture of throttling, exceptions and crashes: the   *)
(* records behind the checkpoint are stored, dead-lettered or counted as   *)
(* given up, and no older record lies on top of a newer one.               *)
(*                                                                         *)
(* The property is about records the mapping has passed.  The invariant    *)
(* adds that the ranges to deliver follow one another from the checkpoint  *)
(* on (RangesInv), so that whatever is written is newer than what was      *)
(* passed, and says of an invocation at work that the records of its range *)
(* it is through with are stored, older than those to come, or of another  *)
(* key than those in the request under way (WriteInv).                     *)
(***************************************************************************)
EXTENDS SepTransformer, FiniteSetTheorems, SequenceTheorems, TLAPS

USE TransformerAssumption

Records == 1..N

\* The ranges follow one another from the checkpoint on.
RangesInv ==
  /\ ranges # <<>> => First = checkpoint + 1
  /\ \A n \in 1..Len(ranges) : ranges[n][1] <= ranges[n][2]
  /\ \A m, n \in 1..Len(ranges) : n = m + 1 => ranges[n][1] = ranges[m][2] + 1

Good == (First..Last) \ Bad
ToWrite == items \cup chunk

\* The invocation is through with p.
Through(p) ==
  /\ p \in givenUp \/ table[KeyOf[p]] >= p
  /\ \A i \in items : p < i
  /\ \A i \in chunk : p < i \/ KeyOf[p] # KeyOf[i]

WriteInv ==
  /\ pc = "write" =>
       /\ ranges # <<>>
       /\ ToWrite \subseteq Good
       /\ \A c \in chunk, i \in items : c < i
       /\ \A p \in Good \ ToWrite : Through(p)
  /\ pc = "idle" => items = {} /\ chunk = {}

TransformerInv == TypeOK /\ RangesInv /\ WriteInv /\ PassedIsStored

-----------------------------------------------------------------------------
(* A set of records is finite.                                             *)
LEMMA RecordsFinite == ASSUME NEW S \in SUBSET Records PROVE IsFiniteSet(S)
<1>1. IsFiniteSet(1..N)
  BY FS_Interval
<1> QED
  BY <1>1, FS_Subset DEF Records

\* How many records of S come before i.
Before(S, i) == Cardinality({j \in S : j < i})

LEMMA BeforeGrows ==
  ASSUME NEW S \in SUBSET Records, NEW c \in S, NEW i \in S, c < i
  PROVE  Before(S, c) \in Nat /\ Before(S, i) \in Nat /\ Before(S, c) < Before(S, i)
<1> DEFINE C == {j \in S : j < c}  I == {j \in S : j < i}
<1>1. IsFiniteSet(S)
  BY RecordsFinite
<1>2. IsFiniteSet(C) /\ IsFiniteSet(I)
  BY <1>1, FS_Subset
<1>0. S \subseteq Int
  BY DEF Records
<1>3. C \subseteq I /\ c \in I \ C
  <2>1. \A j \in S : j < c => j < i
    BY <1>0
  <2>2. c < i /\ ~(c < c)
    BY <1>0
  <2> QED
    BY <2>1, <2>2
<1>4. Cardinality(C) \in Nat /\ Cardinality(I) \in Nat
  BY <1>2, FS_CardinalityType
<1>5. Cardinality(C) <= Cardinality(I) /\ Cardinality(C) # Cardinality(I)
  BY <1>2, <1>3, FS_Subset
<1> QED
  BY <1>4, <1>5 DEF Before

(* The first chunk of a set of records precedes the rest of them and fits  *)
(* into a request.                                                         *)
LEMMA ChunkFacts ==
  ASSUME NEW S \in SUBSET Records
  PROVE  /\ Chunk(S) \subseteq S
         /\ \A c \in Chunk(S), i \in S \ Chunk(S) : c < i
         /\ Cardinality(Chunk(S)) <= ChunkSize
<1>1. Chunk(S) = {i \in S : Before(S, i) < ChunkSize}
  BY DEF Chunk, Before
<1>2. ASSUME NEW c \in Chunk(S), NEW i \in S \ Chunk(S) PROVE c < i
  <2>1. c # i /\ c \in S /\ Before(S, c) < ChunkSize /\ ~(Before(S, i) < ChunkSize)
    BY <1>1, <1>2
  <2>2. CASE i < c
    BY <2>1, <2>2, BeforeGrows
  <2> QED
    BY <2>1, <2>2 DEF Records
<1>3. Cardinality(Chunk(S)) <= ChunkSize
  <2> DEFINE f == [c \in Chunk(S) |-> Before(S, c)]
  <2>1. IsFiniteSet(S)
    BY RecordsFinite
  <2>2. \A c \in Chunk(S) : Before(S, c) \in 0..(ChunkSize - 1)
    <3> TAKE c \in Chunk(S)
    <3>1. Before(S, c) \in Nat
      BY <1>1, <2>1, FS_Subset, FS_CardinalityType DEF Before
    <3> QED
      BY <1>1, <3>1
  <2>3. f \in Injection(Chunk(S), 0..(ChunkSize - 1))
    <3>1. ASSUME NEW c \in Chunk(S), NEW d \in Chunk(S), f[c] = f[d] PROVE c = d
      <4>1. c \in S /\ d \in S /\ Before(S, c) = Before(S, d)
        BY <1>1, <3>1
      <4>2. ~(c < d) /\ ~(d < c)
        BY <4>1, BeforeGrows
      <4> QED
        BY <4>1, <4>2 DEF Records
    <3>2. f \in [Chunk(S) -> 0..(ChunkSize - 1)]
      BY <2>2
    <3> QED
      BY <3>1, <3>2 DEF Injection, IsInjective
  <2>4. IsFiniteSet(0..(ChunkSize - 1)) /\ Cardinality(0..(ChunkSize - 1)) = ChunkSize
    BY FS_Interval
  <2> QED
    BY <2>3, <2>4, FS_Injection
<1> QED
  BY <1>1, <1>2, <1>3

(* A request whose records have distinct keys stores each of them and      *)
(* touches no other key.                                                   *)
LEMMA WrittenFacts ==
  ASSUME TypeOK, NEW S \in SUBSET chunk, ~DuplicateKeys
  PROVE  /\ Written(S) \in [Key -> 0..N]
         /\ \A i \in S : Written(S)[KeyOf[i]] = i
         /\ \A k \in Key : Written(S)[k] = table[k] \/
              \E i \in S : KeyOf[i] = k /\ Written(S)[k] = i
<1>1. \A i \in S, j \in S : KeyOf[i] = KeyOf[j] => i = j
  BY DEF DuplicateKeys
<1>2. S \subseteq 1..N
  BY DEF TypeOK
<1>3. \A k \in Key : IF \E i \in S : KeyOf[i] = k
                     THEN Written(S)[k] \in S /\ KeyOf[Written(S)[k]] = k
                     ELSE Written(S)[k] = table[k]
  BY DEF Written
<1>4. Written(S) \in [Key -> 0..N]
  <2>1. ASSUME NEW k \in Key PROVE Written(S)[k] \in 0..N
    <3>1. table[k] \in 0..N /\ 1..N \subseteq 0..N
      BY DEF TypeOK
    <3> QED
      BY <1>2, <1>3, <3>1
  <2> QED
    BY <2>1 DEF Written
<1>5. \A i \in S : Written(S)[KeyOf[i]] = i
  BY <1>1, <1>2, <1>3
<1> QED
  BY <1>3, <1>4, <1>5

-----------------------------------------------------------------------------
(* The range to deliver next lies in the shard, right behind the           *)
(* checkpoint.                                                             *)
LEMMA FirstRange ==
  ASSUME TypeOK, RangesInv, ranges # <<>>
  PROVE  /\ First \in Records /\ Last \in Records /\ First <= Last
         /\ First = checkpoint + 1 /\ checkpoint < Last
<1>1. Len(ranges) \in Nat /\ 1 \in 1..Len(ranges)
  BY DEF TypeOK
<1>2. ranges[1] \in (1..N) \X (1..N)
  BY <1>1 DEF TypeOK
<1>3. ranges[1][1] <= ranges[1][2]
  BY <1>1 DEF RangesInv
<1>4. First \in Records /\ Last \in Records /\ First <= Last
  BY <1>2, <1>3 DEF First, Last, Records
<1> QED
  BY <1>4 DEF RangesInv, Records, TypeOK

(* The ranges still follow one another when the first one is done with.    *)
LEMMA PassKeepsRanges ==
  ASSUME TypeOK, RangesInv, ranges # <<>>, PassRange
  PROVE  /\ RangesInv' /\ checkpoint' \in 0..N /\ tries' \in 0..MaxRetry
         /\ ranges' \in Seq((1..N) \X (1..N))
<1>1. /\ ranges' = Tail(ranges) /\ ranges \in Seq((1..N) \X (1..N))
      /\ checkpoint' = Last /\ tries' = 0
  BY DEF PassRange, TypeOK
<1>2. /\ ranges' \in Seq((1..N) \X (1..N)) /\ Len(ranges') = Len(ranges) - 1
      /\ \A n \in 1..Len(ranges') : ranges'[n] = ranges[n + 1]
  BY <1>1, HeadTailProperties
<1>3. Len(ranges) \in Nat /\ Len(ranges') \in Nat
  BY <1>1, <1>2
<1>4. ASSUME NEW n \in 1..Len(ranges') PROVE ranges'[n][1] <= ranges'[n][2]
  <2>1. n + 1 \in 1..Len(ranges) /\ ranges'[n] = ranges[n + 1]
    BY <1>2, <1>3
  <2>2. ranges[n + 1][1] <= ranges[n + 1][2]
    BY <2>1 DEF RangesInv
  <2> QED
    BY <2>1, <2>2
<1>5. ASSUME NEW m \in 1..Len(ranges'), NEW n \in 1..Len(ranges'), n = m + 1
      PROVE  ranges'[n][1] = ranges'[m][2] + 1
  <2>1. /\ n + 1 \in 1..Len(ranges) /\ ranges'[n] = ranges[n + 1]
        /\ m + 1 \in 1..Len(ranges) /\ ranges'[m] = ranges[m + 1]
        /\ n + 1 = (m + 1) + 1
    BY <1>2, <1>3, <1>5
  <2>2. ranges[n + 1][1] = ranges[m + 1][2] + 1
    BY <2>1 DEF RangesInv
  <2> QED
    BY <2>1, <2>2
<1>6. ASSUME ranges' # <<>> PROVE ranges'[1][1] = checkpoint' + 1
  <2>1. 1 \in 1..Len(ranges) /\ 2 \in 1..Len(ranges) /\ ranges'[1] = ranges[2] /\ 2 = 1 + 1
    BY <1>2, <1>3, <1>6, EmptySeq
  <2>2. ranges[2][1] = ranges[1][2] + 1
    BY <2>1 DEF RangesInv
  <2> QED
    BY <1>1, <2>1, <2>2 DEF Last
<1>7. checkpoint' \in 0..N /\ tries' \in 0..MaxRetry
  BY <1>1, FirstRange DEF Records
<1> QED
  BY <1>2, <1>4, <1>5, <1>6, <1>7 DEF RangesInv, First

(* Nor does halving the first range change that.                           *)
LEMMA BisectKeepsRanges ==
  ASSUME TypeOK, RangesInv, ranges # <<>>, Bisect
  PROVE  /\ RangesInv' /\ tries' \in 0..MaxRetry
         /\ ranges' \in Seq((1..N) \X (1..N))
<1> DEFINE mid == (First + Last) \div 2
           R == (1..N) \X (1..N)
           halves == << <<First, mid>>, <<mid + 1, Last>> >>
<1>1. /\ ranges' = halves \o Tail(ranges) /\ ranges \in Seq(R)
      /\ First < Last /\ checkpoint' = checkpoint /\ tries' = 0
  BY DEF Bisect, TypeOK
<1>2. /\ First \in 1..N /\ Last \in 1..N /\ mid \in 1..N /\ mid + 1 \in 1..N
      /\ First <= mid /\ mid + 1 <= Last
  BY <1>1, FirstRange DEF Records
<1>3. halves \in Seq(R) /\ Len(halves) = 2
  BY <1>2
<1> HIDE DEF mid
<1>4. /\ Tail(ranges) \in Seq(R) /\ Len(Tail(ranges)) = Len(ranges) - 1
      /\ \A n \in 1..Len(Tail(ranges)) : Tail(ranges)[n] = ranges[n + 1]
  BY <1>1, HeadTailProperties
<1>5. Len(ranges) \in Nat \ {0}
  BY <1>1, EmptySeq
<1>6. /\ ranges' \in Seq(R) /\ Len(ranges') = Len(ranges) + 1
      /\ ranges'[1] = <<First, mid>> /\ ranges'[2] = <<mid + 1, Last>>
  BY <1>1, <1>3, <1>4, <1>5, ConcatProperties
<1>7. ASSUME NEW n \in 3..Len(ranges')
      PROVE  n - 1 \in 1..Len(ranges) /\ ranges'[n] = ranges[n - 1]
  <2>1. \A k \in 1..(2 + Len(Tail(ranges))) :
          ranges'[k] = IF k <= 2 THEN halves[k] ELSE Tail(ranges)[k - 2]
    BY <1>1, <1>3, <1>4, ConcatProperties
  <2>2. /\ n - 2 \in 1..Len(Tail(ranges)) /\ (n - 2) + 1 = n - 1 /\ ~(n <= 2)
        /\ n \in 1..(2 + Len(Tail(ranges))) /\ n - 1 \in 1..Len(ranges)
    BY <1>4, <1>5, <1>6
  <2>3. ranges'[n] = Tail(ranges)[n - 2]
    BY <2>1, <2>2
  <2>4. Tail(ranges)[n - 2] = ranges[n - 1]
    BY <1>4, <2>2
  <2> QED
    BY <2>2, <2>3, <2>4
<1>8. ASSUME NEW n \in 1..Len(ranges') PROVE ranges'[n][1] <= ranges'[n][2]
  <2>1. CASE n \in 3..Len(ranges')
    <3>1. ranges[n - 1][1] <= ranges[n - 1][2]
      BY <1>7, <2>1 DEF RangesInv
    <3> QED
      BY <1>7, <2>1, <3>1
  <2>2. CASE n \in {1, 2}
    BY <1>2, <1>6, <2>2
  <2> QED
    BY <1>5, <1>6, <2>1, <2>2
<1>9. ASSUME NEW m \in 1..Len(ranges'), NEW n \in 1..Len(ranges'), n = m + 1
      PROVE  ranges'[n][1] = ranges'[m][2] + 1
  <2>1. CASE m = 1
    BY <1>2, <1>6, <1>9, <2>1
  <2>2. CASE m = 2
    <3>1. 1 \in 1..Len(ranges) /\ n \in 3..Len(ranges') /\ n - 1 = 2 /\ 2 = 1 + 1
      BY <1>5, <1>6, <1>9, <2>2
    <3>2. 2 \in 1..Len(ranges) /\ ranges'[n] = ranges[2]
      BY <1>7, <3>1
    <3>3. ranges[2][1] = ranges[1][2] + 1
      BY <3>1, <3>2 DEF RangesInv
    <3>4. ranges'[m][2] = Last
      BY <1>6, <2>2
    <3> QED
      BY <3>2, <3>3, <3>4 DEF Last
  <2>3. CASE m \in 3..Len(ranges')
    <3>1. n \in 3..Len(ranges') /\ n - 1 = (m - 1) + 1
      BY <1>5, <1>6, <1>9, <2>3
    <3>2. /\ n - 1 \in 1..Len(ranges) /\ ranges'[n] = ranges[n - 1]
          /\ m - 1 \in 1..Len(ranges) /\ ranges'[m] = ranges[m - 1]
      BY <1>7, <2>3, <3>1
    <3>3. ranges[n - 1][1] = ranges[m - 1][2] + 1
      BY <3>1, <3>2 DEF RangesInv
    <3> QED
      BY <3>2, <3>3
  <2> QED
    BY <1>5, <1>6, <2>1, <2>2, <2>3
<1>10. ranges'[1][1] = checkpoint' + 1
  BY <1>1, <1>6, FirstRange
<1>11. RangesInv'
  BY <1>8, <1>9, <1>10 DEF RangesInv, First
<1> QED
  BY <1>1, <1>6, <1>11

-----------------------------------------------------------------------------
(* What an invocation may do to the table: leave a key alone, or put a     *)
(* record under it that is newer than every record passed.                 *)
NewerOnTop ==
  /\ table' \in [Key -> 0..N]
  /\ \A k \in Key : table'[k] = table[k] \/ table'[k] > checkpoint

(* Writing records of the request under way does no more than that.        *)
LEMMA WritesAreNewer ==
  ASSUME TransformerInv, pc = "write", NEW S \in SUBSET chunk, ~DuplicateKeys,
         table' = Written(S)
  PROVE  NewerOnTop
<1>1. ASSUME NEW i \in S PROVE i > checkpoint
  <2>1. i \in First..Last
    BY DEF TransformerInv, WriteInv, ToWrite, Good
  <2>2. First = checkpoint + 1 /\ First \in Records /\ Last \in Records
    BY FirstRange DEF TransformerInv, WriteInv
  <2>3. checkpoint \in 0..N
    BY DEF TransformerInv, TypeOK
  <2> QED
    BY <2>1, <2>2, <2>3 DEF Records
<1> QED
  BY <1>1, WrittenFacts DEF TransformerInv, NewerOnTop

(* As long as the checkpoint stays, what was passed remains stored.        *)
LEMMA PassedRemains ==
  ASSUME TransformerInv, NewerOnTop, checkpoint' = checkpoint, dlq' = dlq,
         \A i \in 1..checkpoint : i \in givenUp => i \in givenUp'
  PROVE  PassedIsStored'
<1> SUFFICES ASSUME NEW i \in 1..checkpoint, i \notin Bad \cup dlq \cup givenUp'
             PROVE  table'[KeyOf[i]] >= i
  BY DEF PassedIsStored
<1>1. checkpoint \in 0..N /\ i \in 1..N /\ KeyOf[i] \in Key
  BY DEF TransformerInv, TypeOK
<1>2. table[KeyOf[i]] >= i
  BY DEF TransformerInv, PassedIsStored
<1>3. table'[KeyOf[i]] \in 0..N
  BY <1>1 DEF NewerOnTop
<1> QED
  BY <1>1, <1>2, <1>3 DEF NewerOnTop

(* The type of the state after an invocation has ended.                    *)
LEMMA EndedType ==
  ASSUME TypeOK, faults' = faults, pc' = "idle",
         items' = {}, chunk' = {}, retries' = 0,
         checkpoint' \in 0..N, tries' \in 0..MaxRetry,
         ranges' \in Seq((1..N) \X (1..N)), table' \in [Key -> 0..N],
         dlq' \in SUBSET (1..N), givenUp' \in SUBSET (1..N)
  PROVE  TypeOK'
<1>1. Cardinality(chunk') <= ChunkSize
  BY FS_EmptySet
<1>2. 0 \in 0..MaxUnprocessedRetries
  OBVIOUS
<1> QED
  BY <1>1, <1>2 DEF TypeOK

(* An invocation that raised leaves the records of its range to be         *)
(* delivered again, or the only one of them in the dead-letter queue.      *)
LEMMA RaisedKeepsInv ==
  ASSUME TransformerInv, ranges # <<>>, Raised, NewerOnTop,
         UNCHANGED <<faults, givenUp>>
  PROVE  TransformerInv'
<1>0. TypeOK /\ RangesInv /\ PassedIsStored
  BY DEF TransformerInv
<1>1. /\ pc' = "idle" /\ items' = {} /\ chunk' = {} /\ retries' = 0
      /\ faults' = faults /\ givenUp' = givenUp /\ table' \in [Key -> 0..N]
  BY DEF Raised, NewerOnTop
<1>2. WriteInv'
  BY <1>1 DEF WriteInv
<1>3. ASSUME checkpoint' = checkpoint, dlq' = dlq, RangesInv', tries' \in 0..MaxRetry,
             ranges' \in Seq((1..N) \X (1..N))
      PROVE  TransformerInv'
  <2>1. checkpoint \in 0..N /\ dlq \in SUBSET (1..N) /\ givenUp \in SUBSET (1..N)
    BY <1>0 DEF TypeOK
  <2>2. TypeOK'
    BY <1>0, <1>1, <1>3, <2>1, EndedType
  <2>3. PassedIsStored'
    BY <1>1, <1>3, PassedRemains
  <2> QED
    BY <1>2, <1>3, <2>2, <2>3 DEF TransformerInv
<1>4. CASE Bisect
  BY <1>0, <1>3, <1>4, BisectKeepsRanges DEF Bisect
<1>5. CASE tries < MaxRetry /\ tries' = tries + 1 /\ UNCHANGED <<checkpoint, ranges, dlq>>
  <2>1. tries' \in 0..MaxRetry
    BY <1>0, <1>5 DEF TypeOK
  <2>2. ranges' \in Seq((1..N) \X (1..N))
    BY <1>0, <1>5 DEF TypeOK
  <2>3. RangesInv'
    BY <1>0, <1>5 DEF RangesInv, First
  <2> QED
    BY <1>3, <1>5, <2>1, <2>2, <2>3
<1>6. CASE First = Last /\ dlq' = dlq \cup {First} /\ PassRange
  <2>1. /\ RangesInv' /\ checkpoint' \in 0..N /\ tries' \in 0..MaxRetry
        /\ ranges' \in Seq((1..N) \X (1..N))
    BY <1>0, <1>6, PassKeepsRanges
  <2>2. First \in 1..N /\ First = checkpoint + 1 /\ checkpoint' = First
    BY <1>0, <1>6, FirstRange DEF PassRange, Records
  <2>3. dlq' \in SUBSET (1..N) /\ givenUp' \in SUBSET (1..N)
    BY <1>0, <1>1, <1>6, <2>2 DEF TypeOK
  <2>4. TypeOK'
    BY <1>0, <1>1, <2>1, <2>3, EndedType
  <2>5. ASSUME NEW i \in 1..checkpoint', i \notin Bad \cup dlq' \cup givenUp'
        PROVE  table'[KeyOf[i]] >= i
    <3>1. checkpoint \in 0..N /\ i \in 1..checkpoint /\ i \notin Bad \cup dlq \cup givenUp
      BY <1>0, <1>1, <1>6, <2>2, <2>5 DEF TypeOK
    <3>2. table[KeyOf[i]] >= i /\ KeyOf[i] \in Key
      BY <1>0, <3>1 DEF PassedIsStored
    <3>3. table'[KeyOf[i]] \in 0..N
      BY <1>1, <3>2
    <3> QED
      BY <3>1, <3>2, <3>3 DEF NewerOnTop
  <2>6. PassedIsStored'
    BY <2>5 DEF PassedIsStored
  <2> QED
    BY <1>2, <2>1, <2>4, <2>6 DEF TransformerInv
<1> QED
  BY <1>4, <1>5, <1>6 DEF Raised

-----------------------------------------------------------------------------
LEMMA InitHolds == Init => TransformerInv
<1> SUFFICES ASSUME Init PROVE TransformerInv
  OBVIOUS
<1>1. Cardinality(chunk) <= ChunkSize /\ 0 \in 0..N
  BY FS_EmptySet DEF Init
<1>2. TypeOK
  BY <1>1 DEF Init, TypeOK
<1>3. RangesInv
  BY DEF Init, RangesInv
<1>4. WriteInv
  BY DEF Init, WriteInv
<1>5. PassedIsStored
  BY DEF Init, PassedIsStored
<1> QED
  BY <1>2, <1>3, <1>4, <1>5 DEF TransformerInv

(* A new batch begins right behind the checkpoint.                         *)
LEMMA PollKeepsInv ==
  ASSUME TransformerInv, NEW n \in 1..BatchSize, Poll(n) PROVE TransformerInv'
<1> DEFINE r == <<checkpoint + 1, checkpoint + n>>
<1>0. TypeOK /\ RangesInv /\ WriteInv /\ PassedIsStored /\ checkpoint \in 0..N
  BY DEF TransformerInv, TypeOK
<1>1. r \in (1..N) \X (1..N) /\ r[1] <= r[2] /\ r[1] = checkpoint + 1
  BY <1>0 DEF Poll
<1>2. ranges' = <<r>> /\ Len(ranges') = 1 /\ ranges'[1] = r /\ checkpoint' = checkpoint
  BY DEF Poll
<1> HIDE DEF r
<1>3. TypeOK'
  BY <1>0, <1>1, <1>2 DEF Poll, TypeOK, invocation
<1>4. RangesInv'
  <2>1. \A m \in 1..Len(ranges') : m = 1
    BY <1>2
  <2>2. \A m, k \in 1..Len(ranges') : k # m + 1
    BY <2>1
  <2> QED
    BY <1>1, <1>2, <2>1, <2>2 DEF RangesInv, First
<1>5. WriteInv'
  <2>1. pc # "write"
    BY <1>0 DEF Poll, WriteInv
  <2> QED
    BY <1>0, <2>1 DEF Poll, WriteInv, invocation
<1>6. PassedIsStored'
  BY <1>0 DEF Poll, PassedIsStored
<1> QED
  BY <1>3, <1>4, <1>5, <1>6 DEF TransformerInv

(* Every good record of the range is yet to be written.                    *)
LEMMA TransformKeepsInv ==
  ASSUME TransformerInv, Transform PROVE TransformerInv'
<1>0. TypeOK /\ RangesInv /\ WriteInv /\ PassedIsStored
  BY DEF TransformerInv
<1>1. First \in Records /\ Last \in Records
  BY <1>0, FirstRange DEF Transform
<1>2. items' = Good /\ chunk' = {} /\ pc' = "write" /\ ranges' = ranges /\ ranges # <<>>
  BY <1>0 DEF Transform, Good, WriteInv, delivery
<1>3. Good \subseteq 1..N
  BY <1>1 DEF Good, Records
<1>4. TypeOK'
  BY <1>0, <1>2, <1>3 DEF Transform, TypeOK, delivery
<1>5. RangesInv' /\ PassedIsStored'
  BY <1>0 DEF Transform, RangesInv, First, PassedIsStored, delivery
<1>6. Good' = Good /\ ToWrite' = Good
  BY <1>2 DEF Good, First, Last, ToWrite
<1>7. WriteInv'
  BY <1>2, <1>6 DEF WriteInv
<1> QED
  BY <1>4, <1>5, <1>7 DEF TransformerInv

(* The next request takes the first of the items.                          *)
LEMMA StartChunkKeepsInv ==
  ASSUME TransformerInv, StartChunk PROVE TransformerInv'
<1>0. TypeOK /\ RangesInv /\ WriteInv /\ PassedIsStored /\ items \in SUBSET Records
  BY DEF TransformerInv, TypeOK, Records
<1>1. /\ pc = "write" /\ pc' = "write" /\ chunk = {}
      /\ chunk' = Chunk(items) /\ items' = items \ Chunk(items)
      /\ UNCHANGED <<faults, checkpoint, ranges, tries, table, dlq, givenUp>>
      /\ retries' = 0
  BY DEF StartChunk, delivery
<1>2. /\ Chunk(items) \subseteq items /\ Cardinality(Chunk(items)) <= ChunkSize
      /\ \A c \in Chunk(items), i \in items \ Chunk(items) : c < i
  BY <1>0, ChunkFacts
<1>3. TypeOK'
  <2>1. Cardinality(chunk') <= ChunkSize /\ 0 \in 0..MaxUnprocessedRetries
    BY <1>1, <1>2
  <2>2. items' \in SUBSET (1..N) /\ chunk' \in SUBSET (1..N)
    BY <1>0, <1>1, <1>2 DEF Records
  <2> QED
    BY <1>0, <1>1, <2>1, <2>2 DEF TypeOK
<1>4. RangesInv' /\ PassedIsStored'
  BY <1>0, <1>1 DEF RangesInv, First, PassedIsStored
<1>5. Good' = Good /\ ToWrite' = ToWrite
  BY <1>1, <1>2 DEF Good, First, Last, ToWrite
<1>6. ASSUME NEW p \in Good' \ ToWrite' PROVE Through(p)'
  <2>1. Through(p)
    BY <1>0, <1>1, <1>5, <1>6 DEF WriteInv
  <2> QED
    BY <1>1, <1>2, <2>1 DEF Through
<1>7. WriteInv'
  BY <1>0, <1>1, <1>2, <1>5, <1>6 DEF WriteInv
<1> QED
  BY <1>3, <1>4, <1>7 DEF TransformerInv

(* Records that were written are stored under their keys, and every other  *)
(* record the invocation is through with is still at least as new there.   *)
LEMMA WriteKeepsInv ==
  ASSUME TransformerInv, NEW U \in SUBSET (1..N), WriteChunk(U)
  PROVE  TransformerInv'
<1> DEFINE W == chunk \ U
<1>0. /\ TypeOK /\ RangesInv /\ WriteInv /\ PassedIsStored
      /\ pc = "write" /\ ~DuplicateKeys /\ U \subseteq chunk
  BY DEF TransformerInv, WriteChunk
<1>1. /\ pc' = "write" /\ items' = items /\ ranges' = ranges /\ ranges # <<>>
      /\ UNCHANGED <<faults, checkpoint, ranges, tries, dlq>>
      /\ table' = Written(W)
  BY <1>0 DEF WriteChunk, WriteInv, delivery
<1>2. /\ chunk' \subseteq U
      /\ \A i \in U : i \in chunk' \/ i \in givenUp'
      /\ \A i \in givenUp : i \in givenUp' \/ i \in W
      /\ givenUp' \subseteq givenUp \cup U
  BY <1>0 DEF WriteChunk
<1>3. /\ table' \in [Key -> 0..N]
      /\ \A i \in W : table'[KeyOf[i]] = i
      /\ \A k \in Key : table'[k] = table[k] \/
           \E i \in W : KeyOf[i] = k /\ table'[k] = i
  <2>1. W \in SUBSET chunk
    OBVIOUS
  <2> HIDE DEF W
  <2>2. /\ Written(W) \in [Key -> 0..N]
        /\ \A i \in W : Written(W)[KeyOf[i]] = i
        /\ \A k \in Key : Written(W)[k] = table[k] \/
             \E i \in W : KeyOf[i] = k /\ Written(W)[k] = i
    BY <1>0, <2>1, WrittenFacts
  <2> QED
    BY <1>1, <2>2
<1>4. NewerOnTop
  BY <1>0, <1>1, WritesAreNewer
<1>5. TypeOK'
  <2>1. IsFiniteSet(chunk) /\ Cardinality(chunk) \in Nat /\ Cardinality(chunk) <= ChunkSize
    BY <1>0, RecordsFinite, FS_CardinalityType DEF TypeOK, Records
  <2>2. chunk' \subseteq chunk
    BY <1>0, <1>2
  <2>3. Cardinality(chunk') \in Nat /\ Cardinality(chunk') <= Cardinality(chunk)
    BY <2>1, <2>2, FS_Subset, FS_CardinalityType
  <2>4. Cardinality(chunk') <= ChunkSize
    BY <2>1, <2>3
  <2>5. retries' \in 0..MaxUnprocessedRetries
    BY <1>0 DEF WriteChunk, TypeOK
  <2>6. givenUp' \in SUBSET (1..N) /\ chunk' \in SUBSET (1..N)
    BY <1>0, <1>2, <2>2 DEF TypeOK
  <2>7. items' \in SUBSET (1..N) /\ pc' \in {"idle", "write"}
    BY <1>0, <1>1 DEF TypeOK
  <2>8. /\ faults' \in SUBSET Faults /\ checkpoint' \in 0..N /\ dlq' \in SUBSET (1..N)
        /\ ranges' \in Seq((1..N) \X (1..N))
    BY <1>0, <1>1 DEF TypeOK
  <2> QED
    BY <1>0, <1>1, <1>3, <2>4, <2>5, <2>6, <2>7, <2>8 DEF TypeOK
<1>6. RangesInv'
  BY <1>0, <1>1 DEF RangesInv, First
<1>7. PassedIsStored'
  <2>1. \A i \in W : i > checkpoint
    <3>1. First = checkpoint + 1 /\ First \in Records /\ Last \in Records
      BY <1>0, <1>1, FirstRange
    <3>2. \A i \in W : i \in First..Last
      BY <1>0 DEF WriteInv, ToWrite, Good
    <3> QED
      BY <1>0, <3>1, <3>2 DEF TypeOK, Records
  <2>2. \A i \in 1..checkpoint : i \in givenUp => i \in givenUp'
    BY <1>0, <1>2, <2>1 DEF TypeOK
  <2> QED
    BY <1>1, <1>4, <2>2, PassedRemains
<1>8. WriteInv'
  <2>1. Good' = Good /\ Good \subseteq 1..N /\ ToWrite \subseteq Good
    <3>1. First \in Records /\ Last \in Records
      BY <1>0, <1>1, FirstRange
    <3> QED
      BY <1>0, <1>1, <3>1 DEF WriteInv, Good, First, Last, Records
  <2>2. ToWrite' \subseteq Good' /\ \A c \in chunk', i \in items' : c < i
    BY <1>0, <1>1, <1>2, <2>1 DEF WriteInv, ToWrite
  <2>3. ASSUME NEW p \in Good \ ToWrite' PROVE Through(p)'
    <3>0. p \in 1..N /\ KeyOf[p] \in Key /\ chunk \subseteq 1..N
      BY <1>0, <2>1 DEF TypeOK
    <3>1. CASE p \notin ToWrite
      <4>1. Through(p)
        BY <1>0, <2>3, <3>1 DEF WriteInv
      <4>2. \A i \in chunk : p < i \/ KeyOf[p] # KeyOf[i]
        BY <4>1 DEF Through
      <4>3. p \notin W
        BY <3>1 DEF ToWrite
      <4>4. p \in givenUp' \/ table'[KeyOf[p]] >= p
        <5>1. CASE p \in givenUp
          BY <1>2, <4>3, <5>1
        <5>2. CASE table[KeyOf[p]] >= p
          <6>1. table'[KeyOf[p]] = table[KeyOf[p]] \/
                \E i \in W : KeyOf[i] = KeyOf[p] /\ table'[KeyOf[p]] = i
            BY <1>3, <3>0
          <6>2. \A i \in W : KeyOf[i] = KeyOf[p] => i >= p
            BY <3>0, <4>2
          <6> QED
            BY <5>2, <6>1, <6>2
        <5> QED
          BY <4>1, <5>1, <5>2 DEF Through
      <4> QED
        BY <1>0, <1>1, <1>2, <4>1, <4>2, <4>4 DEF Through
    <3>2. CASE p \in chunk
      <4>1. p \in givenUp' \/ table'[KeyOf[p]] >= p
        <5>1. p \notin chunk'
          BY <2>3 DEF ToWrite
        <5>2. CASE p \in U
          BY <1>2, <5>1, <5>2
        <5>3. CASE p \in W
          BY <1>3, <3>0, <5>3
        <5> QED
          BY <3>2, <5>2, <5>3
      <4>2. \A i \in items' : p < i
        BY <1>0, <1>1, <3>2 DEF WriteInv
      <4>3. \A i \in chunk' : KeyOf[p] # KeyOf[i]
        BY <1>0, <1>2, <2>3, <3>2 DEF DuplicateKeys, ToWrite
      <4> QED
        BY <4>1, <4>2, <4>3 DEF Through
    <3> QED
      BY <1>1, <2>3, <3>1, <3>2 DEF ToWrite
  <2> QED
    BY <1>1, <2>1, <2>2, <2>3 DEF WriteInv
<1> QED
  BY <1>5, <1>6, <1>7, <1>8 DEF TransformerInv

(* A call that raised may have written some of the request, a death none.  *)
LEMMA InvocationDiesKeepsInv ==
  ASSUME TransformerInv, WriteRaises \/ Crash \/ TransformFails
  PROVE  TransformerInv'
<1>0. TypeOK /\ WriteInv
  BY DEF TransformerInv
<1>1. ranges # <<>> /\ Raised /\ UNCHANGED <<faults, givenUp>>
  BY <1>0 DEF WriteRaises, Crash, TransformFails, WriteInv
<1>2. CASE table' = table
  <2>1. NewerOnTop
    BY <1>0, <1>2 DEF NewerOnTop, TypeOK
  <2> QED
    BY <1>1, <2>1, RaisedKeepsInv
<1>3. ASSUME NEW S \in SUBSET chunk, pc = "write", ~DuplicateKeys, table' = Written(S)
      PROVE  TransformerInv'
  <2>1. NewerOnTop
    BY <1>3, WritesAreNewer
  <2> QED
    BY <1>1, <2>1, RaisedKeepsInv
<1> QED
  BY <1>2, <1>3 DEF WriteRaises, Crash, TransformFails

(* What the invocation is through with is what the mapping passes.         *)
LEMMA ReturnKeepsInv ==
  ASSUME TransformerInv, Return PROVE TransformerInv'
<1>0. /\ TypeOK /\ RangesInv /\ WriteInv /\ PassedIsStored
      /\ ranges # <<>> /\ PassRange /\ items = {} /\ chunk = {}
      /\ pc' = "idle"
      /\ UNCHANGED <<faults, items, chunk, retries, table, dlq, givenUp>>
  BY DEF TransformerInv, Return, WriteInv
<1>1. /\ RangesInv' /\ checkpoint' \in 0..N /\ tries' \in 0..MaxRetry
      /\ ranges' \in Seq((1..N) \X (1..N))
  BY <1>0, PassKeepsRanges
<1>2. TypeOK'
  BY <1>0, <1>1 DEF TypeOK
<1>3. WriteInv'
  BY <1>0 DEF WriteInv
<1>4. ASSUME NEW i \in 1..checkpoint', i \notin Bad \cup dlq' \cup givenUp'
      PROVE  table'[KeyOf[i]] >= i
  <2>1. /\ checkpoint \in 0..N /\ checkpoint' = Last /\ Last \in 1..N
        /\ First = checkpoint + 1
    BY <1>0, FirstRange DEF PassRange, TypeOK, Records
  <2>2. CASE i <= checkpoint
    BY <1>0, <1>4, <2>1, <2>2 DEF PassedIsStored
  <2>3. CASE i > checkpoint
    <3>1. i \in Good \ ToWrite
      BY <1>0, <1>4, <2>1, <2>3 DEF Good, ToWrite
    <3>2. Through(i)
      BY <1>0, <3>1 DEF Return, WriteInv
    <3> QED
      BY <1>0, <1>4, <3>2 DEF Through
  <2> QED
    BY <1>4, <2>1, <2>2, <2>3
<1>5. PassedIsStored'
  BY <1>4 DEF PassedIsStored
<1> QED
  BY <1>1, <1>2, <1>3, <1>5 DEF TransformerInv

LEMMA NextKeepsInv == TransformerInv /\ [Next]_vars => TransformerInv'
<1> SUFFICES ASSUME TransformerInv, [Next]_vars PROVE TransformerInv'
  OBVIOUS
<1>1. ASSUME NEW n \in 1..BatchSize, Poll(n) PROVE TransformerInv'
  BY <1>1, PollKeepsInv
<1>2. CASE Transform
  BY <1>2, TransformKeepsInv
<1>3. CASE StartChunk
  BY <1>3, StartChunkKeepsInv
<1>4. ASSUME NEW U \in SUBSET (1..N), WriteChunk(U) PROVE TransformerInv'
  BY <1>4, WriteKeepsInv
<1>5. CASE TransformFails \/ WriteRaises \/ Crash
  BY <1>5, InvocationDiesKeepsInv
<1>6. CASE Return
  BY <1>6, ReturnKeepsInv
<1>7. CASE UNCHANGED vars
  BY <1>7 DEF vars, delivery, invocation, TransformerInv, TypeOK, RangesInv,
     WriteInv, PassedIsStored, First, Last, Good, ToWrite, Through
<1> QED
  BY <1>1, <1>2, <1>3, <1>4, <1>5, <1>6, <1>7 DEF Next

-----------------------------------------------------------------------------
(* The records of a shard, what is delivered of it and what is written     *)
(* keep to their types; in particular no request is larger than            *)
(* _DYNAMODB_BATCH_LIMIT and no retry_count above the limit.               *)
THEOREM TypeCorrect == Spec => []TypeOK
<1>1. TransformerInv => TypeOK
  BY DEF TransformerInv
<1> QED
  BY <1>1, InitHolds, NextKeepsInv, PTL DEF Spec

(* Whatever raised, died, was throttled, halved and delivered again: a good *)
(* record the mapping has passed is in the table, itself or a newer record  *)
(* of its key, unless it was dead-lettered or counted as left unprocessed.  *)
THEOREM PassedAlwaysStored == Spec => []PassedIsStored
<1>1. TransformerInv => PassedIsStored
  BY DEF TransformerInv
<1> QED
  BY <1>1, InitHolds, NextKeepsInv, PTL DEF Spec

-----------------------------------------------------------------------------
(* Good records in bad company.  A record is dead-lettered alone: its      *)
(* range is down to one record, so the request it raised in names no key   *)
(* twice, and what raised is the record itself.                            *)

(* In a range of one record a request cannot name a key twice.             *)
LEMMA SingleHasNoDuplicate ==
  ASSUME TypeOK, WriteInv, pc = "write", First = Last, First \in Records
  PROVE  ~DuplicateKeys
BY DEF WriteInv, ToWrite, Good, DuplicateKeys, Records

(* Dead-lettering is the last resort of a range of one record.             *)
LEMMA RaisedDeadLetters ==
  ASSUME Raised, dlq' # dlq
  PROVE  First = Last /\ dlq' = dlq \cup {First}
BY DEF Raised, Bisect

(* While only DynamoDB throttles, no step dead-letters a good record.      *)
LEMMA GoodNotDeadLetteredStays ==
  ASSUME TransformerInv, GoodRecordNotDeadLettered, [Next]_vars
  PROVE  GoodRecordNotDeadLettered'
<1> USE DEF GoodRecordNotDeadLettered
<1>0. TypeOK /\ RangesInv /\ WriteInv
  BY DEF TransformerInv
<1> SUFFICES ASSUME faults' \cap {"raise", "crash"} = {}, dlq' # dlq
             PROVE  dlq' \subseteq Bad
  BY DEF Next, vars, Poll, Transform, TransformFails, StartChunk, WriteChunk,
         WriteRaises, Crash, Return
<1>1. TransformFails \/ WriteRaises \/ Crash
  BY DEF Next, vars, Poll, Transform, StartChunk, WriteChunk, Return, delivery
<1>2. faults \cap {"raise", "crash"} = {} /\ Raised /\ ranges # <<>>
  BY <1>0, <1>1 DEF TransformFails, WriteRaises, Crash, WriteInv
<1>3. First = Last /\ dlq' = dlq \cup {First} /\ First \in Records
  BY <1>0, <1>2, RaisedDeadLetters, FirstRange
<1>4. CASE TransformFails
  <2>1. First \in First..Last
    BY <1>3 DEF Records
  <2> QED
    BY <1>2, <1>3, <1>4, <2>1 DEF TransformFails
<1>5. CASE WriteRaises
  BY <1>0, <1>2, <1>3, <1>5, SingleHasNoDuplicate DEF WriteRaises
<1>6. CASE Crash
  BY <1>2, <1>6 DEF Crash
<1> QED
  BY <1>1, <1>4, <1>5, <1>6

(* Bad neighbours, neighbours with its key and any amount of throttling do *)
(* not bring a record that can be written into the dead-letter queue.      *)
THEOREM GoodRecordNeverDeadLettered == Spec => []GoodRecordNotDeadLettered
<1>1. Init => GoodRecordNotDeadLettered
  BY DEF Init, GoodRecordNotDeadLettered
<1> QED
  BY <1>1, GoodNotDeadLetteredStays, InitHolds, NextKeepsInv, PTL DEF Spec
=============================================================================

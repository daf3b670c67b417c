----------------------- MODULE ReviewAndTotalsProofs -----------------------
(***************************************************************************)
(* Proofs about two systems that share no name: the totals that the SEP    *)
(* aggregator keeps, with the writers of the events table it counts, and   *)
(* the review pipeline.                                                    *)
(*                                                                         *)
(* SepAggregator and SepPaths, for any finite set of keys and any amounts. *)
(* The strengthening is an account: with what is still ahead of the Lambda *)
(* (Pending) the totals of an aggregate are what its items are worth       *)
(* (Truth), however the shard's batch was bisected, as long as nothing has *)
(* gone wrong; and whatever goes wrong, each counted insert is in a total, *)
(* in an error, or in what the stream dropped.  Both sides of the account  *)
(* are sums over sets, so the lemmas about SumFunction come first.  The    *)
(* two writers are then shown to do nothing to the table that the          *)
(* aggregator's specification does not allow.                              *)
(*                                                                         *)
(* ReviewPipeline, for any set of S3 events and any reviewers that include *)
(* the four: a session is reviewed once, no review is taken away, and what *)
(* a session, its report and its message hold is complete.  The            *)
(* strengthening says what each state of the execution may rely on: how    *)
(* many reviews are in the row, what the synthesis and the report are made *)
(* of, and that reviewers which still run after their execution has failed *)
(* only add to the row.                                                    *)
(***************************************************************************)
EXTENDS ReviewPipeline, SepPaths,
        FiniteSetTheorems, SequenceTheorems, WellFoundedInduction, TLAPS

-----------------------------------------------------------------------------
(* Sums.  SumFunction goes through a set in an order that CHOOSE decides;  *)
(* the lemmas say that the order does not matter.                          *)

\* h adds up F over the subsets of S.
Adds(h, F, S) ==
  h = [s \in SUBSET S |->
         IF s = {} THEN 0
         ELSE LET x == CHOOSE x \in s : TRUE IN F[x] + h[s \ {x}]]

(* Among the subsets of a finite set with some property there is one from  *)
(* which no element can be taken.                                          *)
LEMMA SmallestSubset ==
  ASSUME NEW S, IsFiniteSet(S), NEW B \in SUBSET SUBSET S, B # {}
  PROVE  \E s \in B : \A x \in s : s \ {x} \notin B
<1> DEFINE R == {p \in Nat \X Nat : p[1] < p[2]}
           C == {Cardinality(s) : s \in B}
<1>1. IsWellFoundedOn(R, Nat)
  BY NatLessThanWellFounded DEF OpToRel
<1>2. ASSUME NEW s \in B PROVE IsFiniteSet(s) /\ Cardinality(s) \in Nat
  <2>1. s \subseteq S
    OBVIOUS
  <2> QED BY <2>1, FS_Subset, FS_CardinalityType
<1>3. C \subseteq Nat /\ C # {}
  BY <1>2
<1>4. PICK n \in C : \A m \in C : <<m, n>> \notin R
  <2> HIDE DEF R, C
  <2> QED BY <1>1, <1>3, WFMin
<1>5. PICK s \in B : Cardinality(s) = n
  BY <1>4
<1>6. ASSUME NEW x \in s, s \ {x} \in B PROVE FALSE
  <2>1. Cardinality(s \ {x}) = n - 1
    BY <1>2, <1>5, FS_RemoveElement
  <2>2. Cardinality(s \ {x}) \in C /\ Cardinality(s \ {x}) \in Nat /\ n \in Nat
    BY <1>2, <1>3, <1>4, <1>6
  <2>3. <<Cardinality(s \ {x}), n>> \in R
    BY <2>1, <2>2
  <2> QED BY <1>4, <2>2, <2>3
<1> QED BY <1>5, <1>6

LEMMA AddsExists ==
  ASSUME NEW F, NEW S, IsFiniteSet(S)
  PROVE  \E h : Adds(h, F, S)
<1> DEFINE Small(n) == {s \in SUBSET S : Cardinality(s) <= n}
           Some(s) == CHOOSE x \in s : TRUE
           Upto(h, n) == h = [s \in Small(n) |->
                                IF s = {} THEN 0 ELSE F[Some(s)] + h[s \ {Some(s)}]]
           B == {n \in Nat : ~ \E h : Upto(h, n)}
           R == {p \in Nat \X Nat : p[1] < p[2]}
<1>1. IsWellFoundedOn(R, Nat)
  BY NatLessThanWellFounded DEF OpToRel
<1>2. \A s \in SUBSET S : IsFiniteSet(s) /\ Cardinality(s) \in Nat
  BY FS_Subset, FS_CardinalityType
<1>3. ASSUME NEW s \in SUBSET S, s # {}
      PROVE  Some(s) \in s /\ Cardinality(s \ {Some(s)}) = Cardinality(s) - 1
  <2>1. Some(s) \in s
    BY <1>3
  <2> QED BY <1>2, <2>1, FS_RemoveElement
<1> HIDE DEF Some
<1>4. ASSUME B # {} PROVE FALSE
  <2>1. PICK n \in B : \A m \in B : <<m, n>> \notin R
    <3>1. B \subseteq Nat
      OBVIOUS
    <3> HIDE DEF R, B
    <3> QED BY <1>1, <1>4, <3>1, WFMin
  <2>2. n \in Nat /\ ~ \E h : Upto(h, n)
    OBVIOUS
  <2>3. CASE n = 0
    <3> DEFINE h == [s \in Small(0) |-> 0]
    <3>1. \A s \in Small(0) : s = {}
      BY <1>2, FS_EmptySet
    <3>2. Upto(h, 0)
      BY <3>1
    <3> QED BY <2>2, <2>3, <3>2
  <2>4. CASE n # 0
    <3>1. n - 1 \in Nat /\ n - 1 \notin B
      <4>1. n - 1 \in Nat /\ <<n - 1, n>> \in R
        BY <2>2, <2>4
      <4> QED BY <2>1, <4>1
    <3>2. PICK g : Upto(g, n - 1)
      BY <3>1
    <3> DEFINE h == [s \in Small(n) |->
                       IF s = {} THEN 0 ELSE F[Some(s)] + g[s \ {Some(s)}]]
    <3>3. ASSUME NEW s \in Small(n), s # {} PROVE s \ {Some(s)} \in Small(n - 1)
      BY <1>2, <1>3, <2>2, <3>3
    <3>4. Small(n - 1) \subseteq Small(n)
      BY <1>2, <2>2
    <3> HIDE DEF Small
    <3>5. ASSUME NEW t \in Small(n - 1) PROVE h[t] = g[t]
      BY <3>2, <3>4, <3>5
    <3>6. Upto(h, n)
      BY <3>3, <3>5
    <3> QED BY <2>2, <3>6
  <2> QED BY <2>3, <2>4
<1>5. Cardinality(S) \in Nat
  BY FS_CardinalityType
<1>6. Small(Cardinality(S)) = SUBSET S
  BY <1>2, FS_Subset
<1>7. PICK h : Upto(h, Cardinality(S))
  BY <1>4, <1>5
<1>8. h = [s \in SUBSET S |-> IF s = {} THEN 0 ELSE F[Some(s)] + h[s \ {Some(s)}]]
  BY <1>6, <1>7
<1> QED BY <1>8 DEF Adds, Some

LEMMA SumAdds ==
  ASSUME NEW F, IsFiniteSet(DOMAIN F)
  PROVE  \E h : Adds(h, F, DOMAIN F) /\ SumFunction(F) = h[DOMAIN F]
<1> DEFINE S == DOMAIN F
           h == CHOOSE h : h = [s \in SUBSET S |->
                  IF s = {} THEN 0
                  ELSE LET x == CHOOSE x \in s : TRUE IN F[x] + h[s \ {x}]]
<1>1. \E g : g = [s \in SUBSET S |->
                  IF s = {} THEN 0
                  ELSE LET x == CHOOSE x \in s : TRUE IN F[x] + g[s \ {x}]]
  <2>1. PICK g : Adds(g, F, S)
    BY AddsExists
  <2> QED BY <2>1, Zenon DEF Adds
<1>2. Adds(h, F, S)
  BY <1>1, Zenon DEF Adds
<1>3. SumFunction(F) = h[S]
  BY Zenon DEF SumFunction, SumFunctionOnSet, FoldFunctionOnSet, MapThenFoldSet
<1> QED BY <1>2, <1>3

LEMMA AddsStep ==
  ASSUME NEW h, NEW F, NEW S, Adds(h, F, S)
  PROVE  /\ h[{}] = 0
         /\ \A s \in SUBSET S : s # {} => \E x \in s : h[s] = F[x] + h[s \ {x}]
<1>1. ASSUME NEW s \in SUBSET S
      PROVE  h[s] = IF s = {} THEN 0
                    ELSE LET x == CHOOSE x \in s : TRUE IN F[x] + h[s \ {x}]
  BY Zenon DEF Adds
<1>2. ASSUME NEW s \in SUBSET S, s # {}
      PROVE  \E x \in s : h[s] = F[x] + h[s \ {x}]
  <2>1. (CHOOSE x \in s : TRUE) \in s
    BY <1>2
  <2>2. h[s] = F[CHOOSE x \in s : TRUE] + h[s \ {CHOOSE x \in s : TRUE}]
    BY <1>1, <1>2
  <2> QED BY <2>1, <2>2
<1>3. {} \in SUBSET S
  OBVIOUS
<1> QED BY <1>1, <1>2, <1>3

LEMMA AddsInt ==
  ASSUME NEW S, IsFiniteSet(S), NEW F, \A x \in S : F[x] \in Int, NEW h, Adds(h, F, S)
  PROVE  \A s \in SUBSET S : h[s] \in Int
<1> DEFINE B == {s \in SUBSET S : h[s] \notin Int}
<1>1. ASSUME B # {} PROVE FALSE
  <2>1. B \in SUBSET SUBSET S
    OBVIOUS
  <2>2. PICK s \in B : \A x \in s : s \ {x} \notin B
    <3> HIDE DEF B
    <3> QED BY <1>1, <2>1, SmallestSubset
  <2>3. CASE s = {}
    BY <2>2, <2>3, AddsStep
  <2>4. CASE s # {}
    <3>1. PICK x \in s : h[s] = F[x] + h[s \ {x}]
      BY <2>4, AddsStep
    <3>2. h[s \ {x}] \in Int /\ F[x] \in Int
      BY <2>2
    <3> QED BY <3>1, <3>2
  <2> QED BY <2>3, <2>4
<1> QED BY <1>1

(* An element can be taken first.                                          *)
LEMMA AddsAny ==
  ASSUME NEW S, IsFiniteSet(S), NEW F, \A x \in S : F[x] \in Int, NEW h, Adds(h, F, S)
  PROVE  \A s \in SUBSET S : \A x \in s : h[s] = F[x] + h[s \ {x}]
<1> DEFINE B == {s \in SUBSET S : \E x \in s : h[s] # F[x] + h[s \ {x}]}
<1>1. ASSUME B # {} PROVE FALSE
  <2>1. B \in SUBSET SUBSET S
    OBVIOUS
  <2>2. PICK s \in B : \A x \in s : s \ {x} \notin B
    <3> HIDE DEF B
    <3> QED BY <1>1, <2>1, SmallestSubset
  <2>3. PICK x \in s : h[s] # F[x] + h[s \ {x}]
    OBVIOUS
  <2>4. PICK y \in s : h[s] = F[y] + h[s \ {y}]
    BY <2>3, AddsStep
  <2>5. x # y
    BY <2>3, <2>4
  <2>6. h[s \ {y}] = F[x] + h[(s \ {y}) \ {x}]
    BY <2>2, <2>5
  <2>7. h[s \ {x}] = F[y] + h[(s \ {x}) \ {y}]
    BY <2>2, <2>5
  <2>8. (s \ {y}) \ {x} = (s \ {x}) \ {y}
    OBVIOUS
  <2>9. F[x] \in Int /\ F[y] \in Int /\ h[(s \ {x}) \ {y}] \in Int
    <3>1. (s \ {x}) \ {y} \in SUBSET S
      OBVIOUS
    <3>2. h[(s \ {x}) \ {y}] \in Int
      BY <3>1, AddsInt
    <3> QED BY <3>2
  <2> DEFINE rest == h[(s \ {x}) \ {y}]
  <2>10. h[s \ {y}] = F[x] + rest /\ h[s \ {x}] = F[y] + rest
    BY <2>6, <2>7, <2>8
  <2>11. rest \in Int /\ F[x] \in Int /\ F[y] \in Int
    BY <2>9
  <2> HIDE DEF rest, B
  <2> QED BY <2>3, <2>4, <2>10, <2>11
<1> QED BY <1>1

(* What lies outside a set is of no account for its sum.                   *)
LEMMA AddsSame ==
  ASSUME NEW S, IsFiniteSet(S), NEW F, NEW T \in SUBSET S, NEW G,
         \A x \in T : F[x] = G[x], \A x \in S : F[x] \in Int,
         NEW h, Adds(h, F, S), NEW g, Adds(g, G, T)
  PROVE  \A t \in SUBSET T : h[t] = g[t]
<1> DEFINE B == {t \in SUBSET T : h[t] # g[t]}
<1>0. IsFiniteSet(T) /\ \A x \in T : G[x] \in Int
  BY FS_Subset
<1>1. ASSUME B # {} PROVE FALSE
  <2>1. B \in SUBSET SUBSET T
    OBVIOUS
  <2>2. PICK t \in B : \A x \in t : t \ {x} \notin B
    <3> HIDE DEF B
    <3> QED BY <1>0, <1>1, <2>1, SmallestSubset
  <2>3. CASE t = {}
    BY <2>2, <2>3, AddsStep
  <2>4. CASE t # {}
    <3>1. PICK x \in t : g[t] = G[x] + g[t \ {x}]
      BY <2>4, AddsStep
    <3>2. h[t] = F[x] + h[t \ {x}]
      BY AddsAny
    <3>3. h[t \ {x}] = g[t \ {x}] /\ F[x] = G[x]
      BY <2>2
    <3> QED BY <3>1, <3>2, <3>3
  <2> QED BY <2>3, <2>4
<1> QED BY <1>1

(* A function with values in Int has a sum; taking one argument out of the *)
(* domain takes its value off the sum.                                     *)
LEMMA SumInt ==
  ASSUME NEW S, IsFiniteSet(S), NEW F \in [S -> Int]
  PROVE  SumFunction(F) \in Int
<1>1. PICK h : Adds(h, F, S) /\ SumFunction(F) = h[S]
  BY SumAdds
<1> QED BY <1>1, AddsInt

LEMMA SumEmpty ==
  ASSUME NEW F, DOMAIN F = {}
  PROVE  SumFunction(F) = 0
<1>1. PICK h : Adds(h, F, {}) /\ SumFunction(F) = h[{}]
  BY SumAdds, FS_EmptySet
<1> QED BY <1>1, AddsStep

LEMMA SumWithout ==
  ASSUME NEW S, IsFiniteSet(S), NEW F \in [S -> Int], NEW x \in S
  PROVE  SumFunction(F) = F[x] + SumFunction([y \in S \ {x} |-> F[y]])
<1> DEFINE T == S \ {x}
           G == [y \in T |-> F[y]]
<1>0. IsFiniteSet(T)
  BY FS_RemoveElement
<1>1. PICK h : Adds(h, F, S) /\ SumFunction(F) = h[S]
  BY SumAdds
<1>2. PICK g : Adds(g, G, T) /\ SumFunction(G) = g[T]
  <2>1. DOMAIN G = T
    OBVIOUS
  <2> HIDE DEF G, T
  <2> QED BY <1>0, <2>1, SumAdds
<1>3. h[S] = F[x] + h[T]
  BY <1>1, AddsAny
<1>4. h[T] = g[T]
  <2>1. (\A y \in T : F[y] = G[y]) /\ T \in SUBSET S /\ \A y \in S : F[y] \in Int
    OBVIOUS
  <2> HIDE DEF G, T
  <2>2. \A t \in SUBSET T : h[t] = g[t]
    BY <1>1, <1>2, <2>1, AddsSame
  <2> QED BY <2>2
<1> QED BY <1>1, <1>2, <1>3, <1>4

(* Adding an argument adds its value.                                      *)
LEMMA SumWith ==
  ASSUME NEW S, NEW T, IsFiniteSet(T), NEW x, x \notin S, T = S \cup {x},
         NEW F \in [S -> Int], NEW G \in [T -> Int], \A y \in S : G[y] = F[y]
  PROVE  SumFunction(G) = SumFunction(F) + G[x]
<1>1. [y \in T \ {x} |-> G[y]] = F
  OBVIOUS
<1>2. SumFunction(G) = G[x] + SumFunction(F)
  BY <1>1, SumWithout
<1>3. IsFiniteSet(S) /\ S = T \ {x}
  BY FS_Subset
<1> QED BY <1>2, <1>3, SumInt

(* Where one value changes, the sum changes by as much.                    *)
LEMMA SumChange ==
  ASSUME NEW S, IsFiniteSet(S), NEW F \in [S -> Int], NEW G \in [S -> Int], NEW x \in S,
         \A y \in S \ {x} : G[y] = F[y]
  PROVE  SumFunction(G) = SumFunction(F) + G[x] - F[x]
<1>1. [y \in S \ {x} |-> G[y]] = [y \in S \ {x} |-> F[y]]
  OBVIOUS
<1>2. /\ SumFunction(F) = F[x] + SumFunction([y \in S \ {x} |-> F[y]])
      /\ SumFunction(G) = G[x] + SumFunction([y \in S \ {x} |-> F[y]])
  BY <1>1, SumWithout
<1>3. SumFunction([y \in S \ {x} |-> F[y]]) \in Int
  BY FS_RemoveElement, SumInt
<1> QED BY <1>2, <1>3

(* A value more at the end of a range of numbers.                          *)
LEMMA SumAppend ==
  ASSUME NEW m \in Nat, NEW n \in Nat, m <= n + 1, NEW F \in [m..n -> Int], NEW d \in Int
  PROVE  SumFunction([i \in m..(n + 1) |-> IF i = n + 1 THEN d ELSE F[i]]) = SumFunction(F) + d
<1> DEFINE G == [i \in m..(n + 1) |-> IF i = n + 1 THEN d ELSE F[i]]
<1>1. PICK S, T, x : S = m..n /\ T = m..(n + 1) /\ x = n + 1
  OBVIOUS
<1>2. T = S \cup {x} /\ x \notin S /\ IsFiniteSet(T)
  <2>1. IsFiniteSet(m..(n + 1))
    BY FS_Interval
  <2> QED BY <1>1, <2>1
<1>3. F \in [S -> Int] /\ G \in [T -> Int] /\ (\A y \in S : G[y] = F[y]) /\ G[x] = d
  BY <1>1
<1> HIDE DEF G
<1>4. SumFunction(G) = SumFunction(F) + G[x]
  BY <1>2, <1>3, SumWith
<1> QED BY <1>3, <1>4 DEF G

(* A value less at the beginning.                                          *)
LEMMA SumBehind ==
  ASSUME NEW m \in Nat, NEW n \in Nat, m <= n, NEW F \in [m..n -> Int]
  PROVE  SumFunction(F) = F[m] + SumFunction([i \in (m + 1)..n |-> F[i]])
<1> DEFINE G == [i \in (m + 1)..n |-> F[i]]
<1>1. PICK S, T, x : S = (m + 1)..n /\ T = m..n /\ x = m
  OBVIOUS
<1>2. T = S \cup {x} /\ x \notin S /\ IsFiniteSet(T) /\ S \subseteq T
  <2>1. IsFiniteSet(m..n)
    BY FS_Interval
  <2> QED BY <1>1, <2>1
<1>3. F \in [T -> Int] /\ G \in [S -> Int] /\ (\A y \in S : F[y] = G[y]) /\ F[x] = F[m]
      /\ F[m] \in Int
  BY <1>1
<1>4. IsFiniteSet(S)
  BY <1>1, FS_Interval
<1> HIDE DEF G
<1>5. SumFunction(F) = SumFunction(G) + F[x]
  BY <1>2, <1>3, SumWith
<1>6. SumFunction(G) \in Int
  BY <1>3, <1>4, SumInt
<1> QED BY <1>3, <1>5, <1>6 DEF G

(* Two sums are equal when the terms of one are those of the other, but    *)
(* for terms that are 0.                                                   *)
LEMMA SumReindex ==
  ASSUME NEW E, IsFiniteSet(E), NEW K, IsFiniteSet(K),
         NEW G \in [E -> Int], NEW F \in [K -> Int], NEW key,
         \A x, y \in E : key[x] = key[y] => x = y,
         \A x \in E : key[x] \in K => F[key[x]] = G[x],
         \A x \in E : key[x] \notin K => G[x] = 0,
         \A k \in K : \E x \in E : key[x] = k
  PROVE  SumFunction(F) = SumFunction(G)
<1> DEFINE Image(s) == {k \in K : \E x \in s : key[x] = k}
           On(s) == [x \in s |-> G[x]]
           At(s) == [k \in Image(s) |-> F[k]]
           B == {s \in SUBSET E : SumFunction(On(s)) # SumFunction(At(s))}
<1>1. ASSUME NEW s \in SUBSET E
      PROVE  /\ IsFiniteSet(s) /\ IsFiniteSet(Image(s))
             /\ On(s) \in [s -> Int] /\ At(s) \in [Image(s) -> Int]
             /\ SumFunction(At(s)) \in Int
  <2>1. IsFiniteSet(s) /\ IsFiniteSet(Image(s))
    <3>1. Image(s) \subseteq K
      OBVIOUS
    <3> QED BY <3>1, FS_Subset
  <2>2. On(s) \in [s -> Int]
    OBVIOUS
  <2>3. At(s) \in [Image(s) -> Int]
    OBVIOUS
  <2> HIDE DEF Image, At
  <2> QED BY <2>1, <2>2, <2>3, SumInt
<1>2. ASSUME B # {} PROVE FALSE
  <2>1. PICK s \in B : \A x \in s : s \ {x} \notin B
    <3>1. B \in SUBSET SUBSET E
      OBVIOUS
    <3> HIDE DEF B
    <3> QED BY <1>2, <3>1, SmallestSubset
  <2>2. s \in SUBSET E /\ SumFunction(On(s)) # SumFunction(At(s))
    OBVIOUS
  <2>3. CASE s = {}
    <3>1. DOMAIN On(s) = {} /\ DOMAIN At(s) = {}
      BY <2>3
    <3> HIDE DEF On, At
    <3> QED BY <2>2, <3>1, SumEmpty
  <2>4. CASE s # {}
    <3>1. PICK x \in s : TRUE
      BY <2>4
    <3> DEFINE t == s \ {x}
    <3>2. t \in SUBSET E /\ s = t \cup {x} /\ x \notin t /\ x \in E
      BY <2>2
    <3>3. SumFunction(On(t)) = SumFunction(At(t))
      BY <2>1, <3>2
    <3> HIDE DEF t, B
    <3>4. SumFunction(On(s)) = SumFunction(On(t)) + G[x]
      <4>0. PICK p, q : p = On(s) /\ q = On(t)
        OBVIOUS
      <4>1. /\ IsFiniteSet(s) /\ x \notin t /\ s = t \cup {x}
            /\ q \in [t -> Int] /\ p \in [s -> Int]
        BY <1>1, <2>2, <3>2, <4>0
      <4>2. (\A y \in t : p[y] = q[y]) /\ p[x] = G[x]
        BY <3>2, <4>0
      <4> HIDE DEF On
      <4>3. SumFunction(p) = SumFunction(q) + p[x]
        BY <4>1, <4>2, SumWith
      <4> QED BY <4>0, <4>2, <4>3
    <3>5. CASE key[x] \in K
      <4>1. Image(s) = Image(t) \cup {key[x]}
        BY <3>2, <3>5
      <4>2. key[x] \notin Image(t)
        BY <3>2
      <4>3. PICK k : k = key[x]
        OBVIOUS
      <4>4. /\ IsFiniteSet(Image(s)) /\ At(t) \in [Image(t) -> Int]
            /\ At(s) \in [Image(s) -> Int]
        BY <1>1, <2>2, <3>2
      <4>5. (\A y \in Image(t) : At(s)[y] = At(t)[y]) /\ At(s)[k] = G[x]
        BY <3>2, <3>5, <4>1, <4>3
      <4>6. Image(s) = Image(t) \cup {k} /\ k \notin Image(t)
        BY <4>1, <4>2, <4>3
      <4> HIDE DEF Image, At, On
      <4>7. SumFunction(At(s)) = SumFunction(At(t)) + At(s)[k]
        BY <4>4, <4>5, <4>6, SumWith
      <4> QED BY <2>2, <3>3, <3>4, <4>5, <4>7
    <3>6. CASE key[x] \notin K
      <4>1. Image(s) = Image(t)
        BY <3>2, <3>6
      <4>2. At(s) = At(t)
        BY <4>1
      <4>3. G[x] = 0 /\ SumFunction(At(t)) \in Int
        BY <1>1, <3>2, <3>6
      <4> HIDE DEF Image, At, On
      <4> QED BY <2>2, <3>3, <3>4, <4>2, <4>3
    <3> QED BY <3>5, <3>6
  <2> QED BY <2>3, <2>4
<1>3. E \in SUBSET E
  OBVIOUS
<1>4. SumFunction(On(E)) = SumFunction(At(E))
  BY <1>2, <1>3
<1>5. On(E) = G
  OBVIOUS
<1>6. At(E) = F
  <2>1. Image(E) = K
    OBVIOUS
  <2> QED BY <2>1
<1> HIDE DEF On, At, B, Image
<1> QED BY <1>4, <1>5, <1>6

-----------------------------------------------------------------------------
(* What a record adds.                                                     *)

Fields == {"amount", "purchases", "views"}
Changed == [event : {"INSERT", "MODIFY", "REMOVE"}, key : Key,
            new : Item \cup {None}, old : Item \cup {None}]

\* A record of the stream has the images that its event comes with.
IsChange(r) ==
  /\ r \in Changed
  /\ r.event # "REMOVE" => r.new \in Item
  /\ r.event = "MODIFY" => r.old \in Item

\* A record that adds a purchase or a view.
Counts(r) == r.event = "INSERT" /\ r.new.type \in {"PURCHASE", "VIEW"}

\* No item of a was replaced by one of another type.
KeepsType(r) == r.event = "MODIFY" => r.new.type = r.old.type

LEMMA AggregatorBounds ==
  /\ IsFiniteSet(Key) /\ AggregateOf \in [Key -> Aggregate] /\ Amount \subseteq Nat
  /\ None \notin Item
  /\ BatchSize \in Nat \ {0} /\ MaxChanges \in Nat /\ MaxRetry \in Nat
  /\ Faults \subseteq FaultKinds
BY AggregatorAssumption

LEMMA NothingFacts ==
  /\ DOMAIN Nothing = Fields /\ Nothing \in Sums
  /\ \A f \in Fields : Nothing[f] = 0
BY DEF Nothing, Fields, Sums

LEMMA PlusFacts ==
  ASSUME NEW s \in Sums, NEW t \in Sums
  PROVE  /\ Plus(s, t) \in Sums
         /\ \A f \in Fields : Plus(s, t)[f] = s[f] + t[f]
<1>1. DOMAIN s = Fields
  BY DEF Sums, Fields
<1>2. Plus(s, t) = [f \in Fields |-> s[f] + t[f]]
  BY <1>1 DEF Plus
<1>3. Plus(s, t) = [amount |-> s.amount + t.amount, purchases |-> s.purchases + t.purchases,
                    views |-> s.views + t.views]
  BY <1>2 DEF Fields
<1> QED BY <1>2, <1>3 DEF Sums

LEMMA WorthFacts ==
  ASSUME NEW item \in Item
  PROVE  /\ Worth(item) \in Sums
         /\ Worth(item).amount = IF item.type = "PURCHASE" THEN item.value ELSE 0
         /\ Worth(item).purchases = IF item.type = "PURCHASE" THEN 1 ELSE 0
         /\ Worth(item).views = IF item.type = "VIEW" THEN 1 ELSE 0
<1>1. item.value \in Nat /\ item.type \in {"PURCHASE", "VIEW", "CLICK"}
  BY AggregatorBounds DEF Item
<1>2. CASE item.type = "PURCHASE"
  BY <1>1, <1>2 DEF Worth, Sums
<1>3. CASE item.type = "VIEW"
  BY <1>1, <1>3 DEF Worth, Sums
<1>4. CASE item.type = "CLICK"
  BY <1>1, <1>4 DEF Worth, Sums, Nothing
<1> QED BY <1>1, <1>2, <1>3, <1>4

LEMMA DeltaFacts ==
  ASSUME NEW r, IsChange(r)
  PROVE  /\ Delta(r) \in Sums
         /\ Delta(r).purchases + Delta(r).views = IF Counts(r) THEN 1 ELSE 0
         /\ r.event = "REMOVE" => Delta(r) = Nothing
         /\ r.event = "INSERT" => Delta(r) = Worth(r.new)
         /\ r.event = "MODIFY" /\ KeepsType(r) =>
              \A f \in Fields : Delta(r)[f] = Worth(r.new)[f] - Worth(r.old)[f]
<1>1. r.event \in {"INSERT", "MODIFY", "REMOVE"}
  BY DEF IsChange, Changed
<1>2. CASE r.event = "REMOVE"
  BY <1>2 DEF Delta, Nothing, Sums, Counts
<1>3. CASE r.event = "INSERT"
  <2>1. Delta(r) = Worth(r.new) /\ r.new \in Item
    BY <1>3 DEF Delta, IsChange
  <2>2. r.new.type \in {"PURCHASE", "VIEW", "CLICK"}
    BY <2>1 DEF Item
  <2> QED BY <1>3, <2>1, <2>2, WorthFacts DEF Counts
<1>4. CASE r.event = "MODIFY"
  <2>1. r.new \in Item /\ r.old \in Item /\ r.new.value \in Nat /\ r.old.value \in Nat
    BY <1>4, AggregatorBounds DEF IsChange, Item
  <2>2. CASE r.new.type = "PURCHASE"
    <3>1. Delta(r) = [amount |-> r.new.value - r.old.value, purchases |-> 0, views |-> 0]
      BY <1>4, <2>2 DEF Delta, Nothing
    <3> QED BY <1>4, <2>1, <2>2, <3>1, WorthFacts DEF Counts, KeepsType, Sums, Fields
  <2>3. CASE r.new.type # "PURCHASE"
    <3>1. Delta(r) = [amount |-> 0, purchases |-> 0, views |-> 0]
      BY <1>4, <2>3 DEF Delta, Nothing
    <3> QED BY <1>4, <2>1, <2>3, <3>1, WorthFacts DEF Counts, KeepsType, Sums, Fields
  <2> QED BY <2>2, <2>3
<1> QED BY <1>1, <1>2, <1>3, <1>4

-----------------------------------------------------------------------------
(* What the items of an aggregate are worth.                               *)

ItemsOf(a) == {k \in Key : AggregateOf[k] = a /\ table[k] # None}
Worths(a, f) == [k \in ItemsOf(a) |-> Worth(table[k])[f]]

LEMMA ItemsOfFinite ==
  ASSUME NEW a
  PROVE  IsFiniteSet(ItemsOf(a))
<1>1. ItemsOf(a) \subseteq Key
  BY DEF ItemsOf
<1> QED BY <1>1, AggregatorBounds, FS_Subset

LEMMA WorthsInt ==
  ASSUME table \in [Key -> Item \cup {None}], NEW a, NEW f \in Fields
  PROVE  /\ Worths(a, f) \in [ItemsOf(a) -> Int] /\ DOMAIN Worths(a, f) = ItemsOf(a)
         /\ \A k \in ItemsOf(a) : Worths(a, f)[k] = Worth(table[k])[f]
         /\ SumFunction(Worths(a, f)) \in Int
<1>1. ASSUME NEW k \in ItemsOf(a) PROVE Worth(table[k])[f] \in Int
  <2>1. table[k] \in Item
    BY DEF ItemsOf
  <2>2. Worth(table[k]) \in Sums
    BY <2>1, WorthFacts
  <2> QED BY <2>2 DEF Sums, Fields
<1>2. Worths(a, f) \in [ItemsOf(a) -> Int]
  BY <1>1 DEF Worths
<1> QED BY <1>2, ItemsOfFinite, SumInt DEF Worths

LEMMA TruthIs ==
  ASSUME NEW a, NEW f \in Fields
  PROVE  Truth(a)[f] = SumFunction(Worths(a, f)) + expired[a][f]
BY NothingFacts, Zenon DEF Truth, Worths, ItemsOf

LEMMA TruthFields ==
  ASSUME NEW a
  PROVE  Truth(a) = [f \in Fields |-> SumFunction(Worths(a, f)) + expired[a][f]]
BY NothingFacts, Zenon DEF Truth, Worths, ItemsOf

(* A change of one item changes the sum of its aggregate by as much.       *)
LEMMA WorthsChange ==
  ASSUME table \in [Key -> Item \cup {None}], NEW k \in Key, NEW new \in Item \cup {None},
         table' = [table EXCEPT ![k] = new], NEW a \in Aggregate, NEW f \in Fields
  PROVE  SumFunction(Worths(a, f))' = SumFunction(Worths(a, f)) +
           IF a # AggregateOf[k] THEN 0
           ELSE (IF new = None THEN 0 ELSE Worth(new)[f])
                - (IF table[k] = None THEN 0 ELSE Worth(table[k])[f])
<1> DEFINE F == Worths(a, f)
           G == Worths(a, f)'
           S == ItemsOf(a)
           T == ItemsOf(a)'
<1>1. table' \in [Key -> Item \cup {None}] /\ table'[k] = new
      /\ \A j \in Key \ {k} : table'[j] = table[j]
  OBVIOUS
<1>2. /\ F \in [S -> Int] /\ SumFunction(F) \in Int /\ IsFiniteSet(S)
      /\ \A j \in S : F[j] = Worth(table[j])[f]
  BY WorthsInt, ItemsOfFinite
<1>3. /\ T = {j \in Key : AggregateOf[j] = a /\ table'[j] # None} /\ T \subseteq Key
      /\ G = [j \in T |-> Worth(table'[j])[f]]
  BY DEF ItemsOf, Worths
<1>4. S = {j \in Key : AggregateOf[j] = a /\ table[j] # None}
  BY DEF ItemsOf
<1>5. G \in [T -> Int]
  <2>1. ASSUME NEW j \in T PROVE Worth(table'[j])[f] \in Int
    <3>1. table'[j] \in Item
      BY <1>1, <1>3
    <3>2. Worth(table'[j]) \in Sums
      BY <3>1, WorthFacts
    <3> QED BY <3>2 DEF Sums, Fields
  <2> QED BY <1>3, <2>1
<1>6. IsFiniteSet(T)
  BY <1>3, AggregatorBounds, FS_Subset
<1>7. /\ SumFunction(Worths(a, f))' = SumFunction(G)
      /\ SumFunction(Worths(a, f)) = SumFunction(F)
  BY DEF SumFunction, SumFunctionOnSet, FoldFunctionOnSet, MapThenFoldSet
<1> HIDE DEF F, G, S, T
<1>8. \A j \in (S \cap T) \ {k} : G[j] = F[j]
  BY <1>1, <1>2, <1>3, <1>4
<1>9. (k \in S <=> AggregateOf[k] = a /\ table[k] # None)
      /\ (k \in T <=> AggregateOf[k] = a /\ new # None) /\ S \ {k} = T \ {k}
  BY <1>1, <1>3, <1>4
<1>10. CASE k \notin S /\ k \notin T
  <2>1. S = T
    BY <1>9, <1>10
  <2>2. F = G
    BY <1>2, <1>5, <1>8, <1>10, <2>1
  <2>3. AggregateOf[k] = a => table[k] = None /\ new = None
    BY <1>9, <1>10
  <2>4. SumFunction(G) = SumFunction(F)
    BY <2>2
  <2>5. SumFunction(F) = SumFunction(F) +
           IF a # AggregateOf[k] THEN 0
           ELSE (IF new = None THEN 0 ELSE Worth(new)[f])
                - (IF table[k] = None THEN 0 ELSE Worth(table[k])[f])
    BY <1>2, <2>3
  <2> HIDE <2>2
  <2> QED BY <1>7, <2>4, <2>5
<1>11. CASE k \in S /\ k \notin T
  <2>1. S = T \cup {k}
    BY <1>9, <1>11
  <2>2. /\ IsFiniteSet(S) /\ k \notin T /\ G \in [T -> Int]
        /\ F \in [S -> Int] /\ \A j \in T : F[j] = G[j]
    BY <1>2, <1>5, <1>6, <1>8, <1>9, <1>11, <2>1
  <2>3. SumFunction(F) = SumFunction(G) + F[k]
    BY <2>1, <2>2, SumWith
  <2>4. SumFunction(G) \in Int
    BY <1>5, <1>6, SumInt
  <2>5. F[k] = Worth(table[k])[f] /\ F[k] \in Int
    BY <1>2, <1>11
  <2>6. SumFunction(G) = SumFunction(F) + (0 - F[k])
    BY <1>2, <2>3, <2>4, <2>5
  <2>7. AggregateOf[k] = a /\ table[k] # None /\ new = None
    BY <1>9, <1>11
  <2> QED BY <1>2, <1>7, <2>5, <2>6, <2>7
<1>12. CASE k \notin S /\ k \in T
  <2>1. T = S \cup {k}
    BY <1>9, <1>12
  <2>2. /\ IsFiniteSet(T) /\ k \notin S /\ F \in [S -> Int]
        /\ G \in [T -> Int] /\ \A j \in S : G[j] = F[j]
    BY <1>2, <1>5, <1>6, <1>8, <1>9, <1>12, <2>1
  <2>3. SumFunction(G) = SumFunction(F) + G[k]
    BY <2>1, <2>2, SumWith
  <2>4. G[k] = Worth(new)[f] /\ G[k] \in Int
    BY <1>1, <1>3, <1>5, <1>12
  <2>5. AggregateOf[k] = a /\ table[k] = None /\ new # None
    BY <1>9, <1>12
  <2> QED BY <1>2, <1>7, <2>3, <2>4, <2>5
<1>13. CASE k \in S /\ k \in T
  <2>1. S = T
    BY <1>9, <1>13
  <2>2. \A j \in S \ {k} : G[j] = F[j]
    BY <1>8, <2>1
  <2>3. SumFunction(G) = SumFunction(F) + G[k] - F[k]
    BY <1>2, <1>5, <1>13, <2>1, <2>2, SumChange
  <2>4. G[k] = Worth(new)[f] /\ F[k] = Worth(table[k])[f] /\ G[k] \in Int /\ F[k] \in Int
    BY <1>1, <1>2, <1>3, <1>5, <1>13
  <2>5. AggregateOf[k] = a /\ table[k] # None /\ new # None
    BY <1>9, <1>13
  <2> QED BY <1>2, <1>7, <2>3, <2>4, <2>5
<1> QED BY <1>10, <1>11, <1>12, <1>13

-----------------------------------------------------------------------------
(* The inductive invariant.                                                *)

\* What stream[i] adds to the field f of aggregate a.
Effect(a, f, i) == IF AggregateOf[stream[i].key] = a THEN Delta(stream[i])[f] ELSE 0
\* What the records that are not handled yet will add.
Pending(a, f) == SumFunction([i \in (pos + 1)..Len(stream) |-> Effect(a, f, i)])
\* The records of a up to n that add a purchase or a view.
Counted(a, n) == {i \in 1..n : AggregateOf[stream[i].key] = a /\ Counts(stream[i])}
\* The purchases and views of a that were added or left a trace.
Traced(a) ==
  totals[a].purchases + totals[a].views + errors[a] + Cardinality(Dropped(a))

ItemsHaveType == \A k \in Key : table[k] # None => table[k].type \in TypesOf[k]

ChangesInv == \A i \in 1..Len(stream) : IsChange(stream[i]) /\ KeepsType(stream[i])

BatchInv ==
  /\ ranges # <<>> => First = checkpoint + 1
  /\ \A n \in 1..Len(ranges) : ranges[n][1] <= ranges[n][2]
  /\ \A m, n \in 1..Len(ranges) : n = m + 1 => ranges[n][1] = ranges[m][2] + 1

ExactInv ==
  troubles = {} => \A a \in Aggregate, f \in Fields :
    totals[a][f] + Pending(a, f) = Truth(a)[f]

CountInv ==
  \A a \in Aggregate :
    Truth(a).purchases + Truth(a).views = Cardinality(Counted(a, Len(stream)))

TraceInv ==
  \A a \in Aggregate :
    /\ Traced(a) >= Cardinality(Counted(a, checkpoint))
    /\ Traced(a) + failed[a] >= Cardinality(Counted(a, pos))

AggregatorInv ==
  /\ AggregatorTypeOK /\ ItemsHaveType /\ ChangesInv /\ BatchInv
  /\ ExactInv /\ CountInv /\ TraceInv

-----------------------------------------------------------------------------
(* Types and batches.                                                      *)

LEMMA StreamFacts ==
  ASSUME AggregatorTypeOK
  PROVE  /\ stream \in Seq(Changed) /\ Len(stream) \in Nat
         /\ \A i \in 1..Len(stream) : stream[i] \in Changed /\ AggregateOf[stream[i].key] \in Aggregate
         /\ checkpoint \in Nat /\ pos \in Nat /\ seen \in Nat
         /\ checkpoint <= pos /\ pos <= seen /\ seen <= Len(stream)
<1>1. stream \in Seq(Changed)
  BY DEF AggregatorTypeOK, Changed
<1>2. ASSUME NEW i \in 1..Len(stream)
      PROVE  stream[i] \in Changed /\ AggregateOf[stream[i].key] \in Aggregate
  <2>1. stream[i] \in Changed
    BY <1>1
  <2> QED BY <2>1, AggregatorBounds DEF Changed
<1> QED BY <1>1, <1>2 DEF AggregatorTypeOK

(* The range to deliver next follows the checkpoint.                       *)
LEMMA FirstBatch ==
  ASSUME AggregatorTypeOK, BatchInv, ranges # <<>>
  PROVE  /\ First \in 1..Len(stream) /\ Last \in 1..Len(stream) /\ First <= Last
         /\ First = checkpoint + 1
<1>1. Len(ranges) \in Nat /\ 1 \in 1..Len(ranges)
  BY EmptySeq DEF AggregatorTypeOK
<1>2. ranges[1] \in (1..Len(stream)) \X (1..Len(stream))
  BY <1>1 DEF AggregatorTypeOK
<1>3. ranges[1][1] <= ranges[1][2]
  BY <1>1 DEF BatchInv
<1> QED BY <1>2, <1>3 DEF BatchInv, First, Last

LEMMA PassKeepsBatches ==
  ASSUME AggregatorTypeOK, BatchInv, ranges # <<>>, PassRange, stream' = stream
  PROVE  /\ BatchInv' /\ checkpoint' = Last /\ pos' = Last /\ tries' \in 0..MaxRetry
         /\ ranges' \in Seq((1..Len(stream)) \X (1..Len(stream)))
<1>1. /\ ranges' = Tail(ranges) /\ ranges \in Seq((1..Len(stream)) \X (1..Len(stream)))
      /\ checkpoint' = Last /\ tries' = 0 /\ pos' = Last
  BY DEF PassRange, AggregatorTypeOK
<1>2. /\ ranges' \in Seq((1..Len(stream)) \X (1..Len(stream)))
      /\ Len(ranges') = Len(ranges) - 1
      /\ \A n \in 1..Len(ranges') : ranges'[n] = ranges[n + 1]
  BY <1>1, HeadTailProperties
<1>3. Len(ranges) \in Nat /\ Len(ranges') \in Nat
  BY <1>1, <1>2
<1>4. ASSUME NEW n \in 1..Len(ranges') PROVE ranges'[n][1] <= ranges'[n][2]
  <2>1. n + 1 \in 1..Len(ranges) /\ ranges'[n] = ranges[n + 1]
    BY <1>2, <1>3
  <2>2. ranges[n + 1][1] <= ranges[n + 1][2]
    BY <2>1 DEF BatchInv
  <2> QED BY <2>1, <2>2
<1>5. ASSUME NEW m \in 1..Len(ranges'), NEW n \in 1..Len(ranges'), n = m + 1
      PROVE  ranges'[n][1] = ranges'[m][2] + 1
  <2>1. /\ n + 1 \in 1..Len(ranges) /\ ranges'[n] = ranges[n + 1]
        /\ m + 1 \in 1..Len(ranges) /\ ranges'[m] = ranges[m + 1]
        /\ n + 1 = (m + 1) + 1
    BY <1>2, <1>3, <1>5
  <2>2. ranges[n + 1][1] = ranges[m + 1][2] + 1
    BY <2>1 DEF BatchInv
  <2> QED BY <2>1, <2>2
<1>6. ASSUME ranges' # <<>> PROVE ranges'[1][1] = checkpoint' + 1
  <2>1. 1 \in 1..Len(ranges) /\ 2 \in 1..Len(ranges) /\ ranges'[1] = ranges[2] /\ 2 = 1 + 1
    BY <1>2, <1>3, <1>6, EmptySeq
  <2>2. ranges[2][1] = ranges[1][2] + 1
    BY <2>1 DEF BatchInv
  <2> QED BY <1>1, <2>1, <2>2 DEF Last
<1>7. tries' \in 0..MaxRetry
  BY <1>1, AggregatorBounds
<1> QED BY <1>1, <1>2, <1>4, <1>5, <1>6, <1>7 DEF BatchInv, First

\* A batch is halved.
Halved ==
  LET mid == (First + Last) \div 2 IN
    ranges' = << <<First, mid>>, <<mid + 1, Last>> >> \o Tail(ranges)

LEMMA HalvingKeepsBatches ==
  ASSUME AggregatorTypeOK, BatchInv, ranges # <<>>, First < Last, Halved,
         stream' = stream, checkpoint' = checkpoint
  PROVE  BatchInv' /\ ranges' \in Seq((1..Len(stream)) \X (1..Len(stream)))
<1> DEFINE mid == (First + Last) \div 2
           N == Len(stream)
           R == (1..N) \X (1..N)
           halves == << <<First, mid>>, <<mid + 1, Last>> >>
<1>1. ranges' = halves \o Tail(ranges) /\ ranges \in Seq(R) /\ N \in Nat
  BY StreamFacts DEF Halved, AggregatorTypeOK
<1>2. /\ First \in 1..N /\ Last \in 1..N /\ mid \in 1..N /\ mid + 1 \in 1..N
      /\ First <= mid /\ mid + 1 <= Last
  BY <1>1, FirstBatch
<1>3. halves \in Seq(R) /\ Len(halves) = 2
  BY <1>2
<1> HIDE DEF mid, N
<1>4. /\ Tail(ranges) \in Seq(R) /\ Len(Tail(ranges)) = Len(ranges) - 1
      /\ \A n \in 1..Len(Tail(ranges)) : Tail(ranges)[n] = ranges[n + 1]
  BY <1>1, HeadTailProperties
<1>5. Len(ranges) \in Nat \ {0}
  BY <1>1, EmptySeq
<1>6. /\ ranges' \in Seq(R) /\ Len(ranges') = Len(ranges) + 1
      /\ ranges'[1] = <<First, mid>> /\ ranges'[2] = <<mid + 1, Last>>
  BY <1>1, <1>3, <1>4, <1>5, ConcatProperties
<1>7. ASSUME NEW n \in 3..Len(ranges')
      PROVE  n - 1 \in 1..Len(ranges) /\ ranges'[n] = ranges[n - 1]
  <2>1. \A k \in 1..(2 + Len(Tail(ranges))) :
          ranges'[k] = IF k <= 2 THEN halves[k] ELSE Tail(ranges)[k - 2]
    BY <1>1, <1>3, <1>4, ConcatProperties
  <2>2. /\ n - 2 \in 1..Len(Tail(ranges)) /\ (n - 2) + 1 = n - 1 /\ ~(n <= 2)
        /\ n \in 1..(2 + Len(Tail(ranges))) /\ n - 1 \in 1..Len(ranges)
    BY <1>4, <1>5, <1>6
  <2>3. ranges'[n] = Tail(ranges)[n - 2]
    BY <2>1, <2>2
  <2>4. Tail(ranges)[n - 2] = ranges[n - 1]
    BY <1>4, <2>2
  <2> QED BY <2>2, <2>3, <2>4
<1>8. ASSUME NEW n \in 1..Len(ranges') PROVE ranges'[n][1] <= ranges'[n][2]
  <2>1. CASE n \in 3..Len(ranges')
    <3>1. ranges[n - 1][1] <= ranges[n - 1][2]
      BY <1>7, <2>1 DEF BatchInv
    <3> QED BY <1>7, <2>1, <3>1
  <2>2. CASE n = 1 \/ n = 2
    BY <1>2, <1>6, <2>2
  <2>3. n = 1 \/ n = 2 \/ n \in 3..Len(ranges')
    <3>1. Len(ranges') \in Nat
      BY <1>5, <1>6
    <3> QED BY <3>1
  <2> QED BY <2>1, <2>2, <2>3
<1>9. ASSUME NEW m \in 1..Len(ranges'), NEW n \in 1..Len(ranges'), n = m + 1
      PROVE  ranges'[n][1] = ranges'[m][2] + 1
  <2>1. CASE m = 1
    BY <1>2, <1>6, <1>9, <2>1
  <2>2. CASE m = 2
    <3>1. 1 \in 1..Len(ranges) /\ n \in 3..Len(ranges') /\ n - 1 = 2 /\ 2 = 1 + 1
      BY <1>5, <1>6, <1>9, <2>2
    <3>2. 2 \in 1..Len(ranges) /\ ranges'[n] = ranges[2]
      BY <1>7, <3>1
    <3>3. ranges[2][1] = ranges[1][2] + 1
      BY <3>1, <3>2 DEF BatchInv
    <3>4. ranges'[m][2] = Last
      BY <1>6, <2>2
    <3> QED BY <3>2, <3>3, <3>4 DEF Last
  <2>3. CASE m \in 3..Len(ranges')
    <3>1. n \in 3..Len(ranges') /\ n - 1 = (m - 1) + 1
      BY <1>5, <1>6, <1>9, <2>3
    <3>2. /\ n - 1 \in 1..Len(ranges) /\ ranges'[n] = ranges[n - 1]
          /\ m - 1 \in 1..Len(ranges) /\ ranges'[m] = ranges[m - 1]
      BY <1>7, <2>3, <3>1
    <3>3. ranges[n - 1][1] = ranges[m - 1][2] + 1
      BY <3>1, <3>2 DEF BatchInv
    <3> QED BY <3>2, <3>3
  <2>4. m = 1 \/ m = 2 \/ m \in 3..Len(ranges')
    BY <1>5, <1>6
  <2> QED BY <2>1, <2>2, <2>3, <2>4
<1>10. ranges'[1][1] = checkpoint' + 1
  BY <1>1, <1>6, FirstBatch
<1>11. BatchInv'
  BY <1>8, <1>9, <1>10 DEF BatchInv, First
<1> QED BY <1>6, <1>11 DEF N

-----------------------------------------------------------------------------
(* What the stream adds, and how a new change of the table matters.        *)

LEMMA EffectInt ==
  ASSUME AggregatorTypeOK, ChangesInv, NEW a, NEW f \in Fields, NEW i \in 1..Len(stream)
  PROVE  Effect(a, f, i) \in Int
<1>1. Delta(stream[i]) \in Sums
  BY DeltaFacts DEF ChangesInv
<1> QED BY <1>1 DEF Effect, Sums, Fields

\* Records m to n of the stream.
Effects(a, f, m, n) == [i \in m..n |-> Effect(a, f, i)]

LEMMA EffectsFacts ==
  ASSUME AggregatorTypeOK, ChangesInv, NEW a, NEW f \in Fields,
         NEW m \in Nat \ {0}, NEW n \in Nat, n <= Len(stream)
  PROVE  /\ Effects(a, f, m, n) \in [m..n -> Int]
         /\ IsFiniteSet(m..n)
         /\ \A i \in m..n : Effects(a, f, m, n)[i] = Effect(a, f, i)
         /\ SumFunction(Effects(a, f, m, n)) \in Int
<1>1. ASSUME NEW i \in m..n PROVE Effect(a, f, i) \in Int
  <2>1. i \in 1..Len(stream)
    BY StreamFacts
  <2> QED BY <2>1, EffectInt
<1>2. Effects(a, f, m, n) \in [m..n -> Int]
  BY <1>1 DEF Effects
<1>3. IsFiniteSet(m..n)
  BY FS_Interval
<1> QED BY <1>2, <1>3, SumInt DEF Effects

LEMMA PendingFacts ==
  ASSUME AggregatorTypeOK, ChangesInv, NEW a, NEW f \in Fields
  PROVE  /\ Pending(a, f) = SumFunction(Effects(a, f, pos + 1, Len(stream)))
         /\ Pending(a, f) \in Int
<1>1. Pending(a, f) = SumFunction(Effects(a, f, pos + 1, Len(stream)))
  BY Zenon DEF Pending, Effects
<1>2. PICK m \in Nat \ {0}, n \in Nat : m = pos + 1 /\ n = Len(stream) /\ n <= Len(stream)
  BY StreamFacts
<1>3. SumFunction(Effects(a, f, m, n)) \in Int
  BY <1>2, EffectsFacts
<1> QED BY <1>1, <1>2, <1>3

(* A record is appended to the stream.                                     *)
LEMMA AppendFacts ==
  ASSUME AggregatorTypeOK, NEW r \in Changed, stream' = Append(stream, r)
  PROVE  /\ stream' \in Seq(Changed) /\ Len(stream') = Len(stream) + 1
         /\ \A i \in 1..Len(stream) : stream'[i] = stream[i]
         /\ stream'[Len(stream) + 1] = r
<1>1. stream \in Seq(Changed)
  BY StreamFacts
<1> QED BY <1>1, AppendProperties

LEMMA PendingAppend ==
  ASSUME AggregatorTypeOK, ChangesInv, NEW r, IsChange(r), stream' = Append(stream, r),
         pos' = pos, NEW a, NEW f \in Fields
  PROVE  Pending(a, f)' = Pending(a, f) + IF AggregateOf[r.key] = a THEN Delta(r)[f] ELSE 0
<1> DEFINE d == IF AggregateOf[r.key] = a THEN Delta(r)[f] ELSE 0
<1>0. PICK N \in Nat : N = Len(stream)
  BY StreamFacts
<1> DEFINE S == (pos + 1)..N
           F == Effects(a, f, pos + 1, N)
<1>1. r \in Changed /\ pos \in Nat /\ pos <= N
  BY <1>0, StreamFacts DEF IsChange
<1>2. /\ Len(stream') = N + 1 /\ stream'[N + 1] = r
      /\ \A i \in 1..N : stream'[i] = stream[i]
  BY <1>0, <1>1, AppendFacts
<1>3. F \in [S -> Int] /\ IsFiniteSet(S) /\ \A i \in S : F[i] = Effect(a, f, i)
  <2>1. pos + 1 \in Nat \ {0} /\ N \in Nat /\ N <= Len(stream)
    BY <1>0, <1>1
  <2> QED BY <2>1, EffectsFacts
<1>4. \A i \in S : Effect(a, f, i)' = Effect(a, f, i)
  BY <1>1, <1>2 DEF Effect
<1>5. Effect(a, f, N + 1)' = d
  BY <1>2 DEF Effect
<1>6. d \in Int
  <2>1. Delta(r) \in Sums
    BY DeltaFacts
  <2> QED BY <2>1 DEF Sums, Fields
<1>7. (pos + 1)..(N + 1) = S \cup {N + 1} /\ N + 1 \notin S
  BY <1>1
<1>8. Pending(a, f)' = SumFunction([i \in (pos + 1)..(N + 1) |-> IF i = N + 1 THEN d ELSE F[i]])
  <2>1. Pending(a, f)' = SumFunction([i \in (pos + 1)..(N + 1) |-> Effect(a, f, i)'])
    BY <1>2 DEF Pending, SumFunction, SumFunctionOnSet, FoldFunctionOnSet, MapThenFoldSet
  <2>2. [i \in (pos + 1)..(N + 1) |-> Effect(a, f, i)'] =
          [i \in (pos + 1)..(N + 1) |-> IF i = N + 1 THEN d ELSE F[i]]
    BY <1>3, <1>4, <1>5, <1>7
  <2> QED BY <2>1, <2>2
<1>9. Pending(a, f) = SumFunction(F)
  BY <1>0, PendingFacts
<1>10. pos + 1 \in Nat /\ pos + 1 <= N + 1
  BY <1>1
<1> HIDE DEF d, F
<1>11. SumFunction([i \in (pos + 1)..(N + 1) |-> IF i = N + 1 THEN d ELSE F[i]])
         = SumFunction(F) + d
  BY <1>3, <1>6, <1>10, SumAppend
<1> QED BY <1>8, <1>9, <1>11 DEF d

(* Counted grows by the new record if it counts for a.                     *)
LEMMA CountedFacts ==
  ASSUME AggregatorTypeOK, NEW a, NEW n \in Nat
  PROVE  /\ IsFiniteSet(Counted(a, n)) /\ Cardinality(Counted(a, n)) \in Nat
         /\ Counted(a, n) \subseteq 1..n
<1>1. Counted(a, n) \subseteq 1..n
  BY DEF Counted
<1>2. IsFiniteSet(1..n)
  BY FS_Interval
<1> QED BY <1>1, <1>2, FS_Subset, FS_CardinalityType

LEMMA CountedNext ==
  ASSUME AggregatorTypeOK, NEW a, NEW n \in Nat
  PROVE  Cardinality(Counted(a, n + 1)) = Cardinality(Counted(a, n)) +
           IF AggregateOf[stream[n + 1].key] = a /\ Counts(stream[n + 1]) THEN 1 ELSE 0
<1>1. IsFiniteSet(Counted(a, n)) /\ Cardinality(Counted(a, n)) \in Nat
      /\ Counted(a, n) \subseteq 1..n /\ n + 1 \notin 1..n
  BY CountedFacts
<1>2. 1..(n + 1) = (1..n) \cup {n + 1}
  OBVIOUS
<1>3. CASE AggregateOf[stream[n + 1].key] = a /\ Counts(stream[n + 1])
  <2>1. Counted(a, n + 1) = Counted(a, n) \cup {n + 1}
    BY <1>2, <1>3 DEF Counted
  <2>2. n + 1 \notin Counted(a, n)
    BY <1>1
  <2>3. Cardinality(Counted(a, n) \cup {n + 1}) = Cardinality(Counted(a, n)) + 1
    BY <1>1, <2>2, FS_AddElement
  <2> QED BY <1>3, <2>1, <2>3
<1>4. CASE ~ (AggregateOf[stream[n + 1].key] = a /\ Counts(stream[n + 1]))
  <2>1. Counted(a, n + 1) = Counted(a, n)
    BY <1>2, <1>4 DEF Counted
  <2> QED BY <1>1, <1>4, <2>1
<1> QED BY <1>3, <1>4

LEMMA CountedAppend ==
  ASSUME AggregatorTypeOK, NEW r, IsChange(r), stream' = Append(stream, r), NEW a
  PROVE  /\ \A n \in 0..Len(stream) : Counted(a, n)' = Counted(a, n)
         /\ Cardinality(Counted(a, Len(stream)))' = Cardinality(Counted(a, Len(stream))) +
              IF AggregateOf[r.key] = a /\ Counts(r) THEN 1 ELSE 0
<1>0. PICK N \in Nat : N = Len(stream)
  BY StreamFacts
<1>1. r \in Changed
  BY DEF IsChange
<1>2. /\ Len(stream') = N + 1 /\ stream'[N + 1] = r
      /\ \A i \in 1..N : stream'[i] = stream[i]
  BY <1>0, <1>1, AppendFacts
<1>3. ASSUME NEW n \in 0..N PROVE Counted(a, n)' = Counted(a, n)
  <2>1. \A i \in 1..n : stream'[i] = stream[i]
    BY <1>2
  <2> QED BY <2>1 DEF Counted
<1>4. /\ IsFiniteSet(Counted(a, N)) /\ Cardinality(Counted(a, N)) \in Nat
      /\ N + 1 \notin Counted(a, N)
  <2>1. N + 1 \notin 1..N
    OBVIOUS
  <2> QED BY <2>1, CountedFacts
<1>5. Counted(a, Len(stream))' =
        Counted(a, N) \cup (IF AggregateOf[r.key] = a /\ Counts(r) THEN {N + 1} ELSE {})
  <2>1. Counted(a, N) = {i \in 1..N : AggregateOf[stream[i].key] = a /\ Counts(stream[i])}
    BY DEF Counted
  <2>2. Counted(a, Len(stream))' =
          {i \in 1..(N + 1) : AggregateOf[stream'[i].key] = a /\ Counts(stream'[i])}
    BY <1>2 DEF Counted
  <2>3. 1..(N + 1) = (1..N) \cup {N + 1}
    OBVIOUS
  <2> QED BY <1>2, <2>1, <2>2, <2>3
<1>6. CASE AggregateOf[r.key] = a /\ Counts(r)
  <2>1. Cardinality(Counted(a, N) \cup {N + 1}) = Cardinality(Counted(a, N)) + 1
    BY <1>4, FS_AddElement
  <2>2. Counted(a, Len(stream))' = Counted(a, N) \cup {N + 1}
    BY <1>5, <1>6
  <2> QED BY <1>0, <1>3, <1>6, <2>1, <2>2
<1>7. CASE ~ (AggregateOf[r.key] = a /\ Counts(r))
  <2>1. Counted(a, Len(stream))' = Counted(a, N)
    BY <1>5, <1>7
  <2> QED BY <1>0, <1>3, <1>4, <1>7, <2>1
<1> QED BY <1>6, <1>7

-----------------------------------------------------------------------------
(* The truth about an aggregate, before and after a change of the table.   *)

LEMMA TruthNext ==
  ASSUME NEW a, NEW f \in Fields
  PROVE  (Truth(a)[f])' = (SumFunction(Worths(a, f)))' + expired'[a][f]
<1>1. DOMAIN Nothing = Fields
  BY NothingFacts
<1> QED
  BY <1>1, Zenon DEF Truth, Worths, ItemsOf, SumFunction, SumFunctionOnSet,
                     FoldFunctionOnSet, MapThenFoldSet

LEMMA TruthInt ==
  ASSUME AggregatorTypeOK, NEW a \in Aggregate, NEW f \in Fields
  PROVE  Truth(a)[f] \in Int
<1>1. table \in [Key -> Item \cup {None}] /\ expired[a] \in Sums
  BY DEF AggregatorTypeOK
<1>2. SumFunction(Worths(a, f)) \in Int
  BY <1>1, WorthsInt
<1>3. expired[a][f] \in Int
  BY <1>1 DEF Sums, Fields
<1> QED BY <1>2, <1>3, TruthIs

(* Whatever leaves the table and the expired items leaves the truth.       *)
LEMMA TruthSame ==
  ASSUME table' = table, expired' = expired, NEW a
  PROVE  Truth(a)' = Truth(a)
BY DEF Truth, SumFunction, SumFunctionOnSet, FoldFunctionOnSet, MapThenFoldSet

\* A change of the table with what enters the stream.
Changes(r) ==
  /\ IsChange(r) /\ KeepsType(r)
  /\ r.old = table[r.key] /\ (r.event = "INSERT" => table[r.key] = None)
  /\ r.event # "INSERT" => table[r.key] # None
  /\ r.event = "REMOVE" => r.new = None
  /\ table' = [table EXCEPT ![r.key] = r.new]
  /\ stream' = Append(stream, r)
  /\ r.new # None => r.new.type \in TypesOf[r.key]
  /\ expired' = IF r.event # "REMOVE" THEN expired
                ELSE [expired EXCEPT ![AggregateOf[r.key]] = Plus(@, Worth(table[r.key]))]
  /\ UNCHANGED <<troubles, lambda>>

LEMMA ChangesFacts ==
  ASSUME AggregatorTypeOK, NEW r, Changes(r)
  PROVE  /\ r \in Changed /\ r.key \in Key /\ AggregateOf[r.key] \in Aggregate
         /\ r.new \in Item \cup {None} /\ table \in [Key -> Item \cup {None}]
         /\ r.event \in {"INSERT", "MODIFY", "REMOVE"}
BY AggregatorBounds DEF Changes, IsChange, Changed, AggregatorTypeOK

(* The truth changes by what the record adds.                              *)
LEMMA TruthChange ==
  ASSUME AggregatorTypeOK, NEW r, Changes(r), NEW a \in Aggregate, NEW f \in Fields
  PROVE  (Truth(a)[f])' = Truth(a)[f] + IF AggregateOf[r.key] = a THEN Delta(r)[f] ELSE 0
<1> DEFINE k == r.key
           new == r.new
           b == AggregateOf[k]
           W == SumFunction(Worths(a, f))
<1>1. /\ table \in [Key -> Item \cup {None}] /\ k \in Key /\ b \in Aggregate
      /\ new \in Item \cup {None} /\ table' = [table EXCEPT ![k] = new]
      /\ r.event \in {"INSERT", "MODIFY", "REMOVE"}
  BY ChangesFacts DEF Changes
<1>2. (SumFunction(Worths(a, f)))' = W +
           IF a # AggregateOf[k] THEN 0
           ELSE (IF new = None THEN 0 ELSE Worth(new)[f])
                - (IF table[k] = None THEN 0 ELSE Worth(table[k])[f])
  <2>1. PICK j \in Key, item \in Item \cup {None} : j = k /\ item = new
    BY <1>1
  <2>2. table' = [table EXCEPT ![j] = item]
    BY <1>1, <2>1
  <2>3. (SumFunction(Worths(a, f)))' = SumFunction(Worths(a, f)) +
           IF a # AggregateOf[j] THEN 0
           ELSE (IF item = None THEN 0 ELSE Worth(item)[f])
                - (IF table[j] = None THEN 0 ELSE Worth(table[j])[f])
    <3>1. table \in [Key -> Item \cup {None}]
      BY <1>1
    <3> HIDE <1>1
    <3> QED BY <2>2, <3>1, WorthsChange
  <2> QED BY <2>1, <2>3
<1>3. W \in Int /\ expired[a] \in Sums /\ expired[a][f] \in Int
  <2>1. expired[a] \in Sums
    BY DEF AggregatorTypeOK
  <2> QED BY <1>1, <2>1, WorthsInt DEF Sums, Fields
<1>4. Truth(a)[f] = W + expired[a][f]
  BY TruthIs
<1>5. (Truth(a)[f])' = (SumFunction(Worths(a, f)))' + expired'[a][f]
  BY TruthNext
<1> HIDE DEF W
<1>6. CASE a # b
  <2>1. expired'[a] = expired[a]
    BY <1>6 DEF Changes, AggregatorTypeOK
  <2>2. (SumFunction(Worths(a, f)))' = W
    BY <1>2, <1>3, <1>6
  <2> QED BY <1>3, <1>4, <1>5, <1>6, <2>1, <2>2
<1>7. CASE a = b /\ r.event = "INSERT"
  <2>1. table[k] = None /\ new \in Item /\ new # None /\ expired' = expired
        /\ Delta(r) = Worth(new)
    BY <1>7, AggregatorBounds, DeltaFacts DEF Changes, IsChange
  <2>2. Worth(new)[f] \in Int
    BY <2>1, WorthFacts DEF Sums, Fields
  <2>3. (SumFunction(Worths(a, f)))' = W + Worth(new)[f]
    BY <1>2, <1>7, <2>1, <2>2
  <2> QED BY <1>3, <1>4, <1>5, <1>7, <2>1, <2>2, <2>3
<1>8. CASE a = b /\ r.event = "MODIFY"
  <2>1. table[k] # None /\ new \in Item /\ new # None /\ expired' = expired
        /\ r.old = table[k] /\ Delta(r)[f] = Worth(new)[f] - Worth(r.old)[f]
    BY <1>8, AggregatorBounds, DeltaFacts DEF Changes, IsChange
  <2>2. Worth(new)[f] \in Int /\ Worth(table[k])[f] \in Int
    <3>1. table[k] \in Item
      BY <1>1, <2>1
    <3>2. Worth(new) \in Sums /\ Worth(table[k]) \in Sums
      BY <2>1, <3>1, WorthFacts
    <3> QED BY <3>2 DEF Sums, Fields
  <2>3. (SumFunction(Worths(a, f)))' = W + (Worth(new)[f] - Worth(table[k])[f])
    BY <1>2, <1>8, <2>1, <2>2
  <2> QED BY <1>3, <1>4, <1>5, <1>8, <2>1, <2>2, <2>3
<1>9. CASE a = b /\ r.event = "REMOVE"
  <2>1. table[k] # None /\ new = None /\ Delta(r) = Nothing
        /\ expired'[a] = Plus(expired[a], Worth(table[k]))
    BY <1>1, <1>9, DeltaFacts DEF Changes, AggregatorTypeOK
  <2>2. Worth(table[k]) \in Sums /\ Worth(table[k])[f] \in Int
    <3>1. table[k] \in Item
      BY <1>1, <2>1
    <3>2. Worth(table[k]) \in Sums
      BY <3>1, WorthFacts
    <3> QED BY <3>2 DEF Sums, Fields
  <2>3. (SumFunction(Worths(a, f)))' = W - Worth(table[k])[f]
    BY <1>2, <1>3, <1>9, <2>1, <2>2
  <2>4. expired'[a][f] = expired[a][f] + Worth(table[k])[f]
    BY <1>3, <2>1, <2>2, PlusFacts
  <2>5. Delta(r)[f] = 0
    BY <2>1, NothingFacts
  <2> QED BY <1>3, <1>4, <1>5, <1>9, <2>2, <2>3, <2>4, <2>5
<1> QED BY <1>1, <1>6, <1>7, <1>8, <1>9

(* A change of the table preserves the invariant.                          *)
LEMMA ChangesKeepInv ==
  ASSUME AggregatorInv, NEW r, Changes(r)
  PROVE  AggregatorInv'
<1> USE DEF AggregatorInv
<1>0. PICK N \in Nat : N = Len(stream)
  BY StreamFacts
<1>1. /\ r \in Changed /\ r.key \in Key /\ AggregateOf[r.key] \in Aggregate
      /\ r.new \in Item \cup {None} /\ r.event \in {"INSERT", "MODIFY", "REMOVE"}
  BY ChangesFacts
<1>2. /\ table' = [table EXCEPT ![r.key] = r.new] /\ troubles' = troubles
      /\ checkpoint' = checkpoint /\ ranges' = ranges /\ tries' = tries
      /\ discarded' = discarded /\ pos' = pos /\ failed' = failed /\ totals' = totals
      /\ errors' = errors /\ seen' = seen /\ IsChange(r) /\ KeepsType(r)
  BY DEF Changes, lambda, mapping
<1>3. /\ stream' \in Seq(Changed) /\ Len(stream') = N + 1
      /\ stream'[N + 1] = r /\ \A i \in 1..N : stream'[i] = stream[i]
  BY <1>0, <1>1, AppendFacts DEF Changes
<1>4. 0 <= checkpoint /\ checkpoint <= pos /\ pos <= seen /\ seen <= N
      /\ checkpoint \in Nat /\ pos \in Nat /\ seen \in Nat
  BY <1>0, StreamFacts
<1>5. AggregatorTypeOK'
  <2>1. table' \in [Key -> Item \cup {None}]
    BY <1>1, <1>2 DEF AggregatorTypeOK
  <2>2. ranges' \in Seq((1..Len(stream')) \X (1..Len(stream')))
    <3>1. Len(ranges) \in Nat /\ ranges = [n \in 1..Len(ranges) |-> ranges[n]]
      BY DEF AggregatorTypeOK
    <3>2. ASSUME NEW n \in 1..Len(ranges)
          PROVE  ranges[n] \in (1..(N + 1)) \X (1..(N + 1))
      <4>1. ranges[n] \in (1..N) \X (1..N)
        BY <1>0 DEF AggregatorTypeOK
      <4> QED BY <4>1
    <3>3. ranges \in Seq((1..(N + 1)) \X (1..(N + 1)))
      BY <3>1, <3>2, SeqDef
    <3> QED BY <1>2, <1>3, <3>3
  <2>3. expired' \in [Aggregate -> Sums]
    <3>1. CASE r.event = "REMOVE"
      <4>1. table[r.key] \in Item /\ expired[AggregateOf[r.key]] \in Sums
        BY <1>1, <3>1 DEF Changes, AggregatorTypeOK
      <4>2. Plus(expired[AggregateOf[r.key]], Worth(table[r.key])) \in Sums
        BY <4>1, WorthFacts, PlusFacts
      <4> QED BY <3>1, <4>2 DEF Changes, AggregatorTypeOK
    <3>2. CASE r.event # "REMOVE"
      BY <3>2 DEF Changes, AggregatorTypeOK
    <3> QED BY <3>1, <3>2
  <2>4. seen' \in 0..Len(stream')
    BY <1>2, <1>3, <1>4
  <2>5. stream' \in Seq([event : {"INSERT", "MODIFY", "REMOVE"}, key : Key,
                         new : Item \cup {None}, old : Item \cup {None}])
    BY <1>3 DEF Changed
  <2> QED BY <1>2, <2>1, <2>2, <2>3, <2>4, <2>5 DEF AggregatorTypeOK
<1>6. ItemsHaveType'
  <2> SUFFICES ASSUME NEW k \in Key, table'[k] # None PROVE table'[k].type \in TypesOf[k]
    BY DEF ItemsHaveType
  <2>1. CASE k = r.key
    BY <1>1, <1>2, <2>1 DEF Changes, AggregatorTypeOK
  <2>2. CASE k # r.key
    BY <1>1, <1>2, <2>2 DEF AggregatorTypeOK, ItemsHaveType
  <2> QED BY <2>1, <2>2
<1>7. ChangesInv'
  <2> SUFFICES ASSUME NEW i \in 1..(N + 1) PROVE IsChange(stream'[i]) /\ KeepsType(stream'[i])
    BY <1>3 DEF ChangesInv
  <2>1. CASE i = N + 1
    BY <1>2, <1>3, <2>1
  <2>2. CASE i \in 1..N
    BY <1>0, <1>3, <2>2 DEF ChangesInv
  <2> QED BY <2>1, <2>2
<1>8. BatchInv'
  BY <1>2 DEF BatchInv, First
<1>9. ExactInv'
  <2> SUFFICES ASSUME troubles = {}, NEW a \in Aggregate, NEW f \in Fields
               PROVE  totals[a][f] + Pending(a, f)' = (Truth(a)[f])'
    BY <1>2 DEF ExactInv
  <2> DEFINE d == IF AggregateOf[r.key] = a THEN Delta(r)[f] ELSE 0
  <2>1. Pending(a, f)' = Pending(a, f) + d
    BY <1>2, PendingAppend DEF Changes
  <2>2. (Truth(a)[f])' = Truth(a)[f] + d
    BY TruthChange
  <2>3. totals[a][f] + Pending(a, f) = Truth(a)[f]
    BY DEF ExactInv
  <2>4. d \in Int /\ Pending(a, f) \in Int /\ Truth(a)[f] \in Int /\ totals[a][f] \in Int
    <3>1. Delta(r) \in Sums /\ totals[a] \in Sums
      BY <1>2, DeltaFacts DEF AggregatorTypeOK
    <3> QED BY <3>1, PendingFacts, TruthInt DEF Sums, Fields
  <2> HIDE DEF d
  <2> QED BY <2>1, <2>2, <2>3, <2>4
<1>10. CountInv'
  <2> SUFFICES ASSUME NEW a \in Aggregate
               PROVE  (Truth(a)["purchases"])' + (Truth(a)["views"])'
                        = (Cardinality(Counted(a, Len(stream))))'
    BY DEF CountInv
  <2> DEFINE own == AggregateOf[r.key] = a
  <2>1. /\ (Truth(a)["purchases"])'
              = Truth(a)["purchases"] + IF own THEN Delta(r)["purchases"] ELSE 0
        /\ (Truth(a)["views"])' = Truth(a)["views"] + IF own THEN Delta(r)["views"] ELSE 0
    <3>1. "purchases" \in Fields /\ "views" \in Fields
      BY DEF Fields
    <3> QED BY <3>1, TruthChange
  <2>2. (Cardinality(Counted(a, Len(stream))))' = Cardinality(Counted(a, Len(stream))) +
          IF own /\ Counts(r) THEN 1 ELSE 0
    BY <1>2, CountedAppend DEF Changes
  <2>3. Truth(a)["purchases"] + Truth(a)["views"] = Cardinality(Counted(a, Len(stream)))
    BY DEF CountInv
  <2>4. /\ Delta(r)["purchases"] + Delta(r)["views"] = IF Counts(r) THEN 1 ELSE 0
        /\ Delta(r)["purchases"] \in Int /\ Delta(r)["views"] \in Int
    BY <1>2, DeltaFacts DEF Sums
  <2>5. Truth(a)["purchases"] \in Int /\ Truth(a)["views"] \in Int
    BY TruthInt DEF Fields
  <2> HIDE DEF own
  <2> QED BY <2>1, <2>2, <2>3, <2>4, <2>5
<1>11. TraceInv'
  <2> SUFFICES ASSUME NEW a \in Aggregate
               PROVE  /\ Traced(a)' >= Cardinality(Counted(a, checkpoint)')
                      /\ Traced(a)' + failed[a] >= Cardinality(Counted(a, pos)')
    BY <1>2 DEF TraceInv
  <2>1. Counted(a, checkpoint)' = Counted(a, checkpoint) /\ Counted(a, pos)' = Counted(a, pos)
    <3>1. PICK m \in 0..N, n \in 0..N : m = checkpoint /\ n = pos
      BY <1>4
    <3>2. Counted(a, m)' = Counted(a, m) /\ Counted(a, n)' = Counted(a, n)
      BY <1>0, <1>2, CountedAppend DEF Changes
    <3>3. m = checkpoint' /\ n = pos'
      BY <1>2, <3>1
    <3> QED BY <3>1, <3>2, <3>3
  <2>2. Dropped(a)' = Dropped(a)
    <3>1. discarded \subseteq 1..N
      BY <1>4 DEF AggregatorTypeOK
    <3> QED BY <1>2, <1>3, <3>1 DEF Dropped
  <2>3. Traced(a)' = Traced(a)
    BY <1>2, <2>2 DEF Traced
  <2> QED BY <2>1, <2>3 DEF TraceInv
<1> QED BY <1>5, <1>6, <1>7, <1>8, <1>9, <1>10, <1>11

-----------------------------------------------------------------------------
(* The Lambda handles a record.                                            *)

(* What the Lambda and the mapping do leaves the table and its stream.     *)
LEMMA SourceKept ==
  ASSUME AggregatorInv, UNCHANGED source
  PROVE  /\ ItemsHaveType' /\ ChangesInv' /\ CountInv' /\ stream' = stream /\ troubles' = troubles
         /\ table' \in [Key -> Item \cup {None}] /\ expired' \in [Aggregate -> Sums]
         /\ \A a : Truth(a)' = Truth(a)
         /\ \A a, n : Counted(a, n)' = Counted(a, n)
<1>1. table' = table /\ stream' = stream /\ expired' = expired /\ troubles' = troubles
  BY DEF source
<1>2. \A a : Truth(a)' = Truth(a)
  BY <1>1, TruthSame
<1>3. \A a, n : Counted(a, n)' = Counted(a, n)
  BY <1>1 DEF Counted
<1>4. ItemsHaveType' /\ ChangesInv'
  BY <1>1 DEF AggregatorInv, ItemsHaveType, ChangesInv
<1>5. CountInv'
  <2> SUFFICES ASSUME NEW a \in Aggregate
               PROVE  Truth(a)'.purchases + Truth(a)'.views = Cardinality(Counted(a, Len(stream))')
    BY DEF CountInv
  <2>1. Truth(a)' = Truth(a)
    BY <1>2
  <2>2. Counted(a, Len(stream))' = Counted(a, Len(stream))
    BY <1>1 DEF Counted
  <2> QED BY <2>1, <2>2 DEF AggregatorInv, CountInv
<1> QED BY <1>1, <1>2, <1>3, <1>4, <1>5 DEF AggregatorInv, AggregatorTypeOK

LEMMA PendingNext ==
  ASSUME stream' = stream, NEW i, NEW j, i = pos' + 1, j = Len(stream), NEW a, NEW f
  PROVE  Pending(a, f)' = SumFunction(Effects(a, f, i, j))
<1>1. Pending(a, f)' = SumFunction([l \in i..j |-> Effect(a, f, l)])
  BY DEF Pending, Effect, SumFunction, SumFunctionOnSet, FoldFunctionOnSet, MapThenFoldSet
<1> QED BY <1>1 DEF Effects

LEMMA PendingHandled ==
  ASSUME AggregatorTypeOK, ChangesInv, pos < Len(stream), pos' = pos + 1, stream' = stream,
         NEW a, NEW f \in Fields
  PROVE  Pending(a, f) = Effect(a, f, pos + 1) + Pending(a, f)'
<1>0. PICK m \in Nat \ {0}, n \in Nat : m = pos + 1 /\ n = Len(stream) /\ m <= n
  BY StreamFacts
<1> DEFINE F == Effects(a, f, m, n)
<1>1. F \in [m..n -> Int] /\ F[m] = Effect(a, f, m)
  <2>1. n <= Len(stream)
    BY <1>0
  <2>2. Effects(a, f, m, n) \in [m..n -> Int]
    BY <2>1, EffectsFacts
  <2>3. \A i \in m..n : Effects(a, f, m, n)[i] = Effect(a, f, i)
    BY <2>1, EffectsFacts
  <2>4. m \in m..n
    BY <1>0
  <2> QED BY <2>2, <2>3, <2>4
<1>2. Pending(a, f) = SumFunction(F)
  BY <1>0, PendingFacts
<1>3. Pending(a, f)' = SumFunction([i \in (m + 1)..n |-> F[i]])
  <2>1. Pending(a, f)' = SumFunction([i \in (m + 1)..n |-> Effect(a, f, i)])
    BY <1>0 DEF Pending, Effect, SumFunction, SumFunctionOnSet, FoldFunctionOnSet, MapThenFoldSet
  <2>2. \A i \in (m + 1)..n : i \in m..n
    BY <1>0
  <2>3. [i \in (m + 1)..n |-> Effect(a, f, i)] = [i \in (m + 1)..n |-> F[i]]
    BY <2>2 DEF Effects
  <2> QED BY <2>1, <2>3
<1> HIDE DEF F
<1>4. SumFunction(F) = F[m] + SumFunction([i \in (m + 1)..n |-> F[i]])
  BY <1>0, <1>1, SumBehind
<1> QED BY <1>0, <1>1, <1>2, <1>3, <1>4

(* A record adds to its aggregate and to no other.                         *)
LEMMA AggregatedFacts ==
  ASSUME AggregatorTypeOK, ChangesInv, pos < Len(stream), Aggregated
  PROVE  /\ totals' \in [Aggregate -> Sums]
         /\ \A a \in Aggregate, f \in Fields :
              totals'[a][f] = totals[a][f] + Effect(a, f, pos + 1)
<1> DEFINE r == stream[pos + 1]
           b == AggregateOf[r.key]
<1>1. pos + 1 \in 1..Len(stream)
  BY StreamFacts
<1>2. b \in Aggregate /\ IsChange(r) /\ totals \in [Aggregate -> Sums]
  BY <1>1, StreamFacts DEF ChangesInv, AggregatorTypeOK
<1>3. Delta(r) \in Sums
  BY <1>2, DeltaFacts
<1>4. totals' = [totals EXCEPT ![b] = Plus(totals[b], Delta(r))]
  BY DEF Aggregated
<1>5. ASSUME NEW f \in Fields
      PROVE  Plus(totals[b], Delta(r)) \in Sums
             /\ Plus(totals[b], Delta(r))[f] = totals[b][f] + Delta(r)[f]
  BY <1>2, <1>3, PlusFacts
<1>6. "views" \in Fields
  BY DEF Fields
<1>7. totals' \in [Aggregate -> Sums]
  BY <1>2, <1>4, <1>5, <1>6
<1>8. ASSUME NEW a \in Aggregate, NEW f \in Fields
      PROVE  totals'[a][f] = totals[a][f] + Effect(a, f, pos + 1)
  <2>1. CASE a = b
    BY <1>2, <1>4, <1>5, <2>1 DEF Effect
  <2>2. CASE a # b
    <3>1. totals[a][f] \in Int
      BY <1>2 DEF Sums, Fields
    <3> QED BY <1>2, <1>4, <2>2, <3>1 DEF Effect
  <2> QED BY <2>1, <2>2
<1> QED BY <1>7, <1>8

\* Traced in the fields of the totals, for the provers.
LEMMA TracedInt ==
  ASSUME AggregatorTypeOK, NEW a \in Aggregate
  PROVE  /\ totals[a]["purchases"] \in Nat /\ totals[a]["views"] \in Nat
         /\ errors[a] \in Nat /\ failed[a] \in Nat /\ Cardinality(Dropped(a)) \in Nat
         /\ IsFiniteSet(Dropped(a)) /\ Traced(a) \in Nat
<1>1. totals[a] \in Sums /\ errors[a] \in Nat /\ failed[a] \in Nat
  BY DEF AggregatorTypeOK
<1>2. totals[a]["purchases"] \in Nat /\ totals[a]["views"] \in Nat
  BY <1>1 DEF Sums
<1>3. IsFiniteSet(Dropped(a)) /\ Cardinality(Dropped(a)) \in Nat
  <2>1. Dropped(a) \subseteq 1..checkpoint
    BY DEF Dropped, AggregatorTypeOK
  <2>2. IsFiniteSet(1..checkpoint)
    BY StreamFacts, FS_Interval
  <2> QED BY <2>1, <2>2, FS_Subset, FS_CardinalityType
<1> QED BY <1>1, <1>2, <1>3 DEF Traced

LEMMA RecordKeepsInv ==
  ASSUME AggregatorInv, AggregateRecord \/ AggregateFails
  PROVE  AggregatorInv'
<1> USE DEF AggregatorInv
<1> DEFINE r == stream[pos + 1]
           b == AggregateOf[r.key]
<1>1. /\ ranges # <<>> /\ pos < Last /\ pos' = pos + 1 /\ seen' = Highest(seen, pos + 1)
      /\ UNCHANGED source /\ checkpoint' = checkpoint /\ ranges' = ranges /\ tries' = tries
      /\ discarded' = discarded /\ errors' = errors
  BY DEF AggregateRecord, AggregateFails, NextRecord, mapping
<1>2. \/ Aggregated /\ failed' = failed
      \/ /\ "error" \in troubles /\ (totals' = totals \/ Aggregated)
         /\ failed' = [failed EXCEPT ![b] = @ + 1]
  BY DEF AggregateRecord, AggregateFails
<1>3. /\ ItemsHaveType' /\ ChangesInv' /\ CountInv' /\ stream' = stream /\ troubles' = troubles
      /\ table' \in [Key -> Item \cup {None}] /\ expired' \in [Aggregate -> Sums]
      /\ \A a : Truth(a)' = Truth(a)
      /\ \A a, n : Counted(a, n)' = Counted(a, n)
  BY <1>1, SourceKept
<1>4. PICK n \in Nat : n = pos /\ n + 1 \in 1..Len(stream) /\ n < Len(stream)
  BY <1>1, FirstBatch, StreamFacts
<1>5. b \in Aggregate /\ IsChange(r)
  BY <1>4, StreamFacts DEF ChangesInv
<1>6. Aggregated => /\ totals' \in [Aggregate -> Sums]
                    /\ \A a \in Aggregate, f \in Fields :
                         totals'[a][f] = totals[a][f] + Effect(a, f, n + 1)
  BY <1>4, AggregatedFacts
<1>7. AggregatorTypeOK'
  <2>1. totals' \in [Aggregate -> Sums]
    <3>1. CASE Aggregated
      BY <1>6, <3>1
    <3>2. CASE totals' = totals
      BY <3>2 DEF AggregatorTypeOK
    <3> QED BY <1>2, <3>1, <3>2
  <2>2. failed' \in [Aggregate -> Nat]
    <3>1. failed' = failed \/ failed' = [failed EXCEPT ![b] = @ + 1]
      BY <1>2
    <3>2. failed \in [Aggregate -> Nat]
      BY DEF AggregatorTypeOK
    <3> HIDE DEF b
    <3> QED BY <3>1, <3>2
  <2>3. pos' \in 0..seen' /\ seen' \in 0..Len(stream) /\ checkpoint' \in 0..pos'
    BY <1>1, <1>4, StreamFacts DEF Highest
  <2> QED BY <1>1, <1>3, <2>1, <2>2, <2>3 DEF AggregatorTypeOK
<1>8. BatchInv'
  BY <1>1 DEF BatchInv, First
<1>9. ExactInv'
  <2> SUFFICES ASSUME troubles = {}, NEW a \in Aggregate, NEW f \in Fields
               PROVE  totals'[a][f] + Pending(a, f)' = Truth(a)'[f]
    BY <1>3 DEF ExactInv
  <2>1. totals'[a][f] = totals[a][f] + Effect(a, f, n + 1)
    BY <1>2, <1>6
  <2>2. Pending(a, f) = Effect(a, f, n + 1) + Pending(a, f)'
    BY <1>1, <1>3, <1>4, PendingHandled
  <2>3. totals[a][f] + Pending(a, f) = Truth(a)[f]
    BY DEF ExactInv
  <2>4. Pending(a, f)' \in Int
    <3>1. PICK j \in Nat : j = Len(stream) /\ j <= Len(stream)
      BY StreamFacts
    <3>2. PICK i \in Nat \ {0} : i = n + 2
      OBVIOUS
    <3>3. Pending(a, f)' = SumFunction(Effects(a, f, i, j))
      <4>1. pos' + 1 = i /\ Len(stream) = j /\ stream' = stream
        BY <1>1, <1>3, <1>4, <3>1, <3>2
      <4> QED BY <4>1, PendingNext
    <3>4. SumFunction(Effects(a, f, i, j)) \in Int
      BY <3>1, EffectsFacts
    <3> QED BY <3>3, <3>4
  <2>5. totals[a][f] \in Int /\ Effect(a, f, n + 1) \in Int
    <3>1. totals[a] \in Sums
      BY DEF AggregatorTypeOK
    <3>2. Effect(a, f, n + 1) \in Int
      BY <1>4, EffectInt
    <3> QED BY <3>1, <3>2 DEF Sums, Fields
  <2>6. Truth(a)'[f] = Truth(a)[f]
    BY <1>3
  <2> QED BY <2>1, <2>2, <2>3, <2>4, <2>5, <2>6
<1>10. TraceInv'
  <2> SUFFICES ASSUME NEW a \in Aggregate
               PROVE  /\ Traced(a)' >= Cardinality(Counted(a, checkpoint)')
                      /\ Traced(a)' + failed'[a] >= Cardinality(Counted(a, pos)')
    BY DEF TraceInv
  <2> DEFINE c == IF b = a /\ Counts(r) THEN 1 ELSE 0
             old == Traced(a)
             new == totals'[a]["purchases"] + totals'[a]["views"]
                      + errors[a] + Cardinality(Dropped(a))
  <2>1. Traced(a)' = new
    <3>1. Dropped(a)' = Dropped(a)
      BY <1>1, <1>3 DEF Dropped
    <3> QED BY <1>1, <3>1 DEF Traced
  <2>2. Cardinality(Counted(a, n + 1)) = Cardinality(Counted(a, n)) + c
    BY <1>4, CountedNext
  <2>3. Counted(a, pos)' = Counted(a, n + 1) /\ Counted(a, checkpoint)' = Counted(a, checkpoint)
    BY <1>1, <1>3, <1>4 DEF Counted
  <2>4. old >= Cardinality(Counted(a, checkpoint)) /\ old + failed[a] >= Cardinality(Counted(a, n))
    BY <1>4 DEF TraceInv
  <2>5. /\ old = totals[a]["purchases"] + totals[a]["views"] + errors[a] + Cardinality(Dropped(a))
        /\ totals[a]["purchases"] \in Nat /\ totals[a]["views"] \in Nat /\ errors[a] \in Nat
        /\ failed[a] \in Nat /\ Cardinality(Dropped(a)) \in Nat
    BY TracedInt DEF Traced
  <2>6. Aggregated => new = old + c
    <3> SUFFICES ASSUME Aggregated PROVE new = old + c
      OBVIOUS
    <3>1. /\ totals'[a]["purchases"] = totals[a]["purchases"] + Effect(a, "purchases", n + 1)
          /\ totals'[a]["views"] = totals[a]["views"] + Effect(a, "views", n + 1)
      BY <1>6 DEF Fields
    <3>2. Effect(a, "purchases", n + 1) + Effect(a, "views", n + 1) = c
      <4>1. Delta(r).purchases + Delta(r).views = IF Counts(r) THEN 1 ELSE 0
        BY <1>5, DeltaFacts
      <4> QED BY <1>4, <4>1 DEF Effect
    <3>3. Effect(a, "purchases", n + 1) \in Int /\ Effect(a, "views", n + 1) \in Int
      BY <1>4, EffectInt DEF Fields
    <3> HIDE DEF c
    <3> QED BY <2>5, <3>1, <3>2, <3>3
  <2>7. totals' = totals => new = old
    BY <2>5
  <2>8. Cardinality(Counted(a, n)) \in Nat /\ Cardinality(Counted(a, checkpoint)) \in Nat
    <3>1. checkpoint \in Nat
      BY StreamFacts
    <3> QED BY <3>1, CountedFacts
  <2>9. (failed'[a] = failed[a] \/ failed'[a] = failed[a] + 1)
        /\ (~Aggregated => totals' = totals /\ failed'[a] >= failed[a] + c)
    <3>1. CASE Aggregated /\ failed' = failed
      BY <3>1
    <3>2. CASE failed' = [failed EXCEPT ![b] = @ + 1] /\ (totals' = totals \/ Aggregated)
      <4>1. failed \in [Aggregate -> Nat] /\ failed[a] \in Nat
        BY DEF AggregatorTypeOK
      <4>2. (a = b => failed'[a] = failed[a] + 1) /\ (a # b => failed'[a] = failed[a])
        BY <3>2, <4>1
      <4>3. c \in {0, 1} /\ (a # b => c = 0)
        OBVIOUS
      <4> HIDE DEF c, b
      <4> QED BY <3>2, <4>1, <4>2, <4>3
    <3> QED BY <1>2, <3>1, <3>2
  <2>10. c \in {0, 1} /\ old \in Nat
    BY <2>5
  <2> HIDE DEF c, old, new
  <2>11. new >= Cardinality(Counted(a, checkpoint))
    BY <2>4, <2>6, <2>7, <2>8, <2>9, <2>10
  <2>12. new + failed'[a] >= Cardinality(Counted(a, n + 1))
    BY <2>2, <2>4, <2>5, <2>6, <2>7, <2>8, <2>9, <2>10
  <2> QED BY <2>1, <2>3, <2>11, <2>12
<1> QED BY <1>3, <1>7, <1>8, <1>9, <1>10

-----------------------------------------------------------------------------
(* The mapping delivers, passes and delivers again.                        *)

LEMMA MappingKeepsInv ==
  ASSUME AggregatorInv, UNCHANGED source, totals' = totals, troubles = {} => pos' = pos,
         AggregatorTypeOK', BatchInv', TraceInv'
  PROVE  AggregatorInv'
<1>1. /\ ItemsHaveType' /\ ChangesInv' /\ CountInv' /\ stream' = stream /\ troubles' = troubles
      /\ \A a : Truth(a)' = Truth(a)
  BY SourceKept
<1>2. ExactInv'
  <2> SUFFICES ASSUME troubles = {}, NEW a \in Aggregate, NEW f \in Fields
               PROVE  totals[a][f] + Pending(a, f)' = Truth(a)'[f]
    BY <1>1 DEF ExactInv
  <2>1. stream' = stream /\ pos' = pos
    BY <1>1
  <2>2. Pending(a, f)' = Pending(a, f)
    BY <2>1 DEF Pending, Effect, SumFunction, SumFunctionOnSet, FoldFunctionOnSet, MapThenFoldSet
  <2>3. Truth(a)' = Truth(a)
    BY <1>1
  <2>4. totals[a][f] + Pending(a, f) = Truth(a)[f]
    BY DEF AggregatorInv, ExactInv
  <2> QED BY <2>2, <2>3, <2>4
<1> QED BY <1>1, <1>2 DEF AggregatorInv

LEMMA PollKeepsInv ==
  ASSUME AggregatorInv, NEW n \in 1..BatchSize, Poll(n)
  PROVE  AggregatorInv'
<1>1. /\ checkpoint + n <= Len(stream) /\ ranges' = << <<checkpoint + 1, checkpoint + n>> >>
      /\ UNCHANGED <<source, checkpoint, tries, discarded, pos, failed, totals, errors, seen>>
      /\ AggregatorTypeOK /\ n \in Nat /\ n >= 1
  BY AggregatorBounds DEF Poll, AggregatorInv
<1>2. /\ stream' = stream /\ troubles' = troubles /\ table' = table /\ expired' = expired
      /\ checkpoint \in Nat /\ Len(stream) \in Nat
  BY <1>1, StreamFacts DEF source
<1>3. <<checkpoint + 1, checkpoint + n>> \in (1..Len(stream)) \X (1..Len(stream))
  BY <1>1, <1>2
<1>4. /\ ranges' \in Seq((1..Len(stream)) \X (1..Len(stream))) /\ Len(ranges') = 1
      /\ ranges'[1] = <<checkpoint + 1, checkpoint + n>>
  BY <1>1, <1>3
<1>5. AggregatorTypeOK'
  BY <1>1, <1>2, <1>4 DEF AggregatorTypeOK
<1>6. BatchInv'
  <2>1. ranges'[1][1] = checkpoint' + 1 /\ ranges'[1][1] <= ranges'[1][2]
    BY <1>1, <1>2, <1>4
  <2>2. \A i \in 1..Len(ranges') : i = 1
    BY <1>4
  <2> QED BY <2>1, <2>2 DEF BatchInv, First
<1>7. TraceInv'
  <2> SUFFICES ASSUME NEW a \in Aggregate
               PROVE  /\ Traced(a)' >= Cardinality(Counted(a, checkpoint)')
                      /\ Traced(a)' + failed[a] >= Cardinality(Counted(a, pos)')
    BY <1>1 DEF TraceInv
  <2>1. Counted(a, checkpoint)' = Counted(a, checkpoint) /\ Counted(a, pos)' = Counted(a, pos)
    BY <1>1, <1>2 DEF Counted
  <2>2. Traced(a)' = Traced(a)
    BY <1>1, <1>2 DEF Traced, Dropped
  <2> QED BY <2>1, <2>2 DEF AggregatorInv, TraceInv
<1> QED BY <1>1, <1>5, <1>6, <1>7, MappingKeepsInv

(* Records up to a later place cannot be fewer.                            *)
LEMMA CountedMonotonic ==
  ASSUME AggregatorTypeOK, NEW a, NEW m \in Nat, NEW n \in Nat, m <= n
  PROVE  Cardinality(Counted(a, m)) <= Cardinality(Counted(a, n))
<1>1. Counted(a, m) \subseteq Counted(a, n)
  BY DEF Counted
<1> QED BY <1>1, CountedFacts, FS_Subset

(* Errors that are published still leave a trace.                          *)
LEMMA PublishedTrace ==
  ASSUME AggregatorInv, Published, NEW a \in Aggregate
  PROVE  errors'[a] = errors[a] + failed[a]
BY DEF Published

LEMMA ReturnKeepsInv ==
  ASSUME AggregatorInv, Return
  PROVE  AggregatorInv'
<1> USE DEF AggregatorInv
<1>1. /\ ranges # <<>> /\ pos = Last /\ Published /\ PassRange
      /\ UNCHANGED <<source, discarded, totals, seen>>
  BY DEF Return
<1>2. stream' = stream /\ troubles' = troubles /\ table' = table /\ expired' = expired
  BY <1>1 DEF source
<1>3. /\ BatchInv' /\ checkpoint' = Last /\ pos' = Last /\ tries' \in 0..MaxRetry
      /\ ranges' \in Seq((1..Len(stream)) \X (1..Len(stream)))
  BY <1>1, <1>2, PassKeepsBatches
<1>4. failed' = [a \in Aggregate |-> 0] /\ errors' = [a \in Aggregate |-> errors[a] + failed[a]]
  BY <1>1 DEF PassRange, Published
<1>5. AggregatorTypeOK'
  <2>1. errors' \in [Aggregate -> Nat] /\ failed' \in [Aggregate -> Nat]
    BY <1>4 DEF AggregatorTypeOK
  <2>2. checkpoint' = pos /\ pos' = pos /\ seen' = seen /\ checkpoint <= checkpoint' /\ pos \in Nat
        /\ checkpoint \in Nat
    BY <1>1, <1>3, StreamFacts
  <2>3. discarded' \in SUBSET (1..checkpoint')
    BY <1>1, <2>2 DEF AggregatorTypeOK
  <2> QED BY <1>1, <1>2, <1>3, <2>1, <2>2, <2>3 DEF AggregatorTypeOK
<1>6. TraceInv'
  <2> SUFFICES ASSUME NEW a \in Aggregate
               PROVE  /\ Traced(a)' >= Cardinality(Counted(a, checkpoint)')
                      /\ Traced(a)' + failed'[a] >= Cardinality(Counted(a, pos)')
    BY DEF TraceInv
  <2>1. Counted(a, checkpoint)' = Counted(a, pos) /\ Counted(a, pos)' = Counted(a, pos)
    BY <1>1, <1>2, <1>3 DEF Counted
  <2>2. Traced(a)' = Traced(a) + failed[a]
    <3>1. Dropped(a)' = Dropped(a)
      BY <1>1, <1>2 DEF Dropped
    <3>2. Traced(a)' = totals[a]["purchases"] + totals[a]["views"]
                         + (errors[a] + failed[a]) + Cardinality(Dropped(a))
      BY <1>1, <1>4, <3>1 DEF Traced
    <3> QED BY <3>2, TracedInt DEF Traced
  <2>3. Traced(a) + failed[a] >= Cardinality(Counted(a, pos))
    BY DEF TraceInv
  <2>4. failed'[a] = 0 /\ Traced(a) \in Nat /\ failed[a] \in Nat
    BY <1>4, TracedInt
  <2>5. Cardinality(Counted(a, pos)) \in Nat
    BY StreamFacts, CountedFacts
  <2> QED BY <2>1, <2>2, <2>3, <2>4, <2>5
<1> QED BY <1>1, <1>3, <1>5, <1>6, MappingKeepsInv

(* What is published and what is discarded both leave a trace.             *)
LEMMA TracedGrows ==
  ASSUME AggregatorTypeOK, NEW a \in Aggregate, totals' = totals,
         errors'[a] \in Nat, errors'[a] >= errors[a],
         NEW w \in Nat, Cardinality(Dropped(a)') = Cardinality(Dropped(a)) + w
  PROVE  Traced(a)' >= Traced(a) + w /\ Traced(a)' \in Nat /\ Traced(a) \in Nat
<1>1. PICK p, q, d : /\ p = totals[a]["purchases"] /\ q = totals[a]["views"]
                     /\ d = Cardinality(Dropped(a))
  OBVIOUS
<1>2. PICK old, new, s, t : /\ old = errors[a] /\ new = errors'[a]
                            /\ s = Traced(a) /\ t = Traced(a)'
  OBVIOUS
<1>3. s = p + q + old + d
  BY <1>1, <1>2 DEF Traced
<1>4. t = p + q + new + (d + w)
  BY <1>1, <1>2 DEF Traced
<1>5. p \in Nat /\ q \in Nat /\ old \in Nat /\ d \in Nat /\ new \in Nat /\ new >= old
  BY <1>1, <1>2, TracedInt
<1>6. t >= s + w /\ t \in Nat /\ s \in Nat
  BY <1>3, <1>4, <1>5
<1> QED BY <1>2, <1>6

(* A range that comes again or is discarded: what was published and what   *)
(* is discarded accounts for all that the checkpoint has passed.           *)
LEMMA RetryKeepsInv ==
  ASSUME AggregatorInv, ranges # <<>>, Retry, UNCHANGED <<source, totals>>,
         troubles # {}, errors' = errors \/ Published,
         seen' = Highest(seen, pos') \/ (seen' = seen /\ pos = Last)
  PROVE  AggregatorInv'
<1> USE DEF AggregatorInv
<1>1. /\ stream' = stream /\ troubles' = troubles /\ table' = table /\ expired' = expired
      /\ totals' = totals
  BY DEF source
<1>2. /\ First \in 1..Len(stream) /\ Last \in 1..Len(stream) /\ First <= Last
      /\ First = checkpoint + 1
  BY FirstBatch
<1>3. /\ checkpoint \in Nat /\ pos \in Nat /\ seen \in Nat /\ Len(stream) \in Nat
      /\ checkpoint <= pos /\ pos <= seen /\ seen <= Len(stream)
  BY StreamFacts
<1>4. \/ /\ checkpoint' = checkpoint /\ pos' = checkpoint /\ discarded' = discarded
         /\ ranges' = ranges \/ (First < Last /\ Halved)
         /\ tries' \in 0..MaxRetry
      \/ First = Last /\ discarded' = discarded \cup {First} /\ PassRange
  <2>1. tries \in 0..MaxRetry /\ MaxRetry \in Nat
    BY AggregatorBounds DEF AggregatorTypeOK
  <2>2. \/ /\ First < Last /\ Halved /\ tries' = 0
           /\ pos' = checkpoint /\ UNCHANGED <<checkpoint, discarded>>
        \/ /\ tries < MaxRetry /\ tries' = tries + 1
           /\ pos' = checkpoint /\ UNCHANGED <<checkpoint, ranges, discarded>>
        \/ First = Last /\ discarded' = discarded \cup {First} /\ PassRange
    BY Zenon DEF Retry, Halved
  <2>3. tries < MaxRetry => tries + 1 \in 0..MaxRetry
    BY <2>1
  <2>4. 0 \in 0..MaxRetry
    BY <2>1
  <2> QED BY <2>2, <2>3, <2>4
<1>5. failed' = [a \in Aggregate |-> 0]
  BY DEF Retry, PassRange
<1>6. errors' \in [Aggregate -> Nat] /\ \A a \in Aggregate : errors'[a] >= errors[a]
  <2>1. errors \in [Aggregate -> Nat] /\ failed \in [Aggregate -> Nat]
    BY DEF AggregatorTypeOK
  <2>2. CASE errors' = errors
    BY <2>1, <2>2
  <2>3. CASE errors' = [a \in Aggregate |-> errors[a] + failed[a]]
    BY <2>1, <2>3
  <2> QED BY <2>2, <2>3 DEF Published
<1>7. ASSUME checkpoint' = checkpoint, pos' = checkpoint, discarded' = discarded,
             ranges' = ranges \/ (First < Last /\ Halved), tries' \in 0..MaxRetry
      PROVE  AggregatorTypeOK' /\ BatchInv' /\ TraceInv'
  <2>1. BatchInv' /\ ranges' \in Seq((1..Len(stream)) \X (1..Len(stream)))
    <3>1. CASE ranges' = ranges
      BY <1>7, <3>1 DEF BatchInv, First, AggregatorTypeOK
    <3>2. CASE First < Last /\ Halved
      BY <1>1, <1>7, <3>2, HalvingKeepsBatches
    <3> QED BY <1>7, <3>1, <3>2
  <2>2. seen' = seen
    BY <1>3, <1>7 DEF Highest
  <2>3. AggregatorTypeOK'
    BY <1>1, <1>3, <1>5, <1>6, <1>7, <2>1, <2>2 DEF AggregatorTypeOK
  <2>4. TraceInv'
    <3> SUFFICES ASSUME NEW a \in Aggregate
                 PROVE  /\ Traced(a)' >= Cardinality(Counted(a, checkpoint)')
                        /\ Traced(a)' + failed'[a] >= Cardinality(Counted(a, pos)')
      BY DEF TraceInv
    <3>1. Counted(a, checkpoint)' = Counted(a, checkpoint)
          /\ Counted(a, pos)' = Counted(a, checkpoint)
      BY <1>1, <1>7 DEF Counted
    <3>2. Dropped(a)' = Dropped(a)
      BY <1>1, <1>7 DEF Dropped
    <3>3. Traced(a)' >= Traced(a) /\ Traced(a)' \in Nat /\ Traced(a) \in Nat
      <4>1. errors'[a] \in Nat /\ errors'[a] >= errors[a] /\ totals' = totals
        BY <1>1, <1>6
      <4>2. Cardinality(Dropped(a)') = Cardinality(Dropped(a)) + 0
        BY <3>2, TracedInt
      <4>3. Traced(a)' >= Traced(a) + 0 /\ Traced(a)' \in Nat /\ Traced(a) \in Nat
        BY <4>1, <4>2, TracedGrows
      <4> QED BY <4>3
    <3>4. Traced(a) >= Cardinality(Counted(a, checkpoint))
      BY DEF TraceInv
    <3>5. failed'[a] = 0
      BY <1>5
    <3>6. Cardinality(Counted(a, checkpoint)) \in Nat
      BY <1>3, CountedFacts
    <3> QED BY <3>1, <3>3, <3>4, <3>5, <3>6
  <2> QED BY <2>1, <2>3, <2>4
<1>8. ASSUME First = Last, discarded' = discarded \cup {First}, PassRange
      PROVE  AggregatorTypeOK' /\ BatchInv' /\ TraceInv'
  <2>1. /\ BatchInv' /\ checkpoint' = Last /\ pos' = Last /\ tries' \in 0..MaxRetry
        /\ ranges' \in Seq((1..Len(stream)) \X (1..Len(stream)))
    BY <1>1, <1>8, PassKeepsBatches
  <2>2. PICK n \in Nat : n = checkpoint /\ n + 1 = Last /\ n + 1 = First
    BY <1>2, <1>3, <1>8
  <2>3. pos' \in 0..seen' /\ seen' \in 0..Len(stream)
    BY <1>2, <1>3, <2>1 DEF Highest
  <2>4. discarded' \in SUBSET (1..checkpoint') /\ n + 1 \notin discarded
    <3>1. discarded \subseteq 1..n
      BY <2>2 DEF AggregatorTypeOK
    <3>2. n + 1 \notin 1..n /\ 1..n \subseteq 1..(n + 1) /\ n + 1 \in 1..(n + 1)
      OBVIOUS
    <3>3. discarded' = discarded \cup {n + 1} /\ checkpoint' = n + 1
      BY <1>8, <2>1, <2>2
    <3> QED BY <3>1, <3>2, <3>3
  <2>5. AggregatorTypeOK'
    BY <1>1, <1>5, <1>6, <2>1, <2>2, <2>3, <2>4 DEF AggregatorTypeOK
  <2>6. TraceInv'
    <3> SUFFICES ASSUME NEW a \in Aggregate
                 PROVE  /\ Traced(a)' >= Cardinality(Counted(a, checkpoint)')
                        /\ Traced(a)' + failed'[a] >= Cardinality(Counted(a, pos)')
      BY DEF TraceInv
    <3> DEFINE own == AggregateOf[stream[n + 1].key] = a
               w == IF own THEN 1 ELSE 0
    <3>1. Counted(a, checkpoint)' = Counted(a, n + 1) /\ Counted(a, pos)' = Counted(a, n + 1)
      BY <1>1, <2>1, <2>2 DEF Counted
    <3>2. Cardinality(Counted(a, n + 1)) <= Cardinality(Counted(a, n)) + w
      <4>1. Cardinality(Counted(a, n + 1)) = Cardinality(Counted(a, n)) +
              IF own /\ Counts(stream[n + 1]) THEN 1 ELSE 0
        BY CountedNext
      <4>2. Cardinality(Counted(a, n)) \in Nat
        BY CountedFacts
      <4> QED BY <4>1, <4>2
    <3>3. Cardinality(Dropped(a)') = Cardinality(Dropped(a)) + w
      <4>1. Dropped(a)' = Dropped(a) \cup (IF own THEN {n + 1} ELSE {})
        BY <1>1, <1>8, <2>2 DEF Dropped
      <4>2. n + 1 \notin Dropped(a)
        BY <2>4 DEF Dropped
      <4>3. IsFiniteSet(Dropped(a)) /\ Cardinality(Dropped(a)) \in Nat
        BY TracedInt
      <4>4. Cardinality(Dropped(a) \cup {n + 1}) = Cardinality(Dropped(a)) + 1
        BY <4>2, <4>3, FS_AddElement
      <4>5. CASE own
        BY <4>1, <4>4, <4>5
      <4>6. CASE ~own
        <5>1. Dropped(a)' = Dropped(a)
          BY <4>1, <4>6
        <5> QED BY <4>3, <4>6, <5>1
      <4> QED BY <4>5, <4>6
    <3>5. Traced(a) >= Cardinality(Counted(a, n))
      BY <2>2 DEF TraceInv
    <3>6. failed'[a] = 0 /\ errors'[a] \in Nat /\ errors'[a] >= errors[a]
      BY <1>5, <1>6
    <3>8. Cardinality(Counted(a, n)) \in Nat /\ Cardinality(Counted(a, n + 1)) \in Nat
      BY CountedFacts
    <3>9. w \in Nat
      OBVIOUS
    <3> HIDE DEF own, w
    <3>10. Traced(a)' >= Traced(a) + w /\ Traced(a) \in Nat /\ Traced(a)' \in Nat
      <4>1. totals' = totals
        BY <1>1
      <4> QED BY <3>3, <3>6, <3>9, <4>1, TracedGrows
    <3>11. Cardinality(Counted(a, checkpoint)') = Cardinality(Counted(a, n + 1))
           /\ Cardinality(Counted(a, pos)') = Cardinality(Counted(a, n + 1))
      BY <3>1
    <3>12. Traced(a)' >= Cardinality(Counted(a, n + 1))
      BY <3>2, <3>5, <3>8, <3>9, <3>10
    <3> QED BY <3>6, <3>10, <3>11, <3>12
  <2> QED BY <2>1, <2>5, <2>6
<1>9. AggregatorTypeOK' /\ BatchInv' /\ TraceInv'
  BY <1>4, <1>7, <1>8
<1> QED BY <1>1, <1>9, MappingKeepsInv

-----------------------------------------------------------------------------
(* The theorems.                                                           *)

LEMMA AggregatorInitInv ==
  ASSUME AggregatorInit
  PROVE  AggregatorInv
<1> USE DEF AggregatorInit
<1>1. /\ Len(stream) = 0 /\ stream \in Seq(Changed) /\ ranges \in Seq((1..0) \X (1..0))
      /\ Len(ranges) = 0
  OBVIOUS
<1>2. AggregatorTypeOK
  <2>1. Nothing \in Sums
    BY NothingFacts
  <2>2. stream \in Seq([event : {"INSERT", "MODIFY", "REMOVE"}, key : Key,
                        new : Item \cup {None}, old : Item \cup {None}])
    BY <1>1 DEF Changed
  <2>3. 0 \in 0..MaxRetry /\ 0 \in 0..0 /\ {} \in SUBSET (1..0)
    BY AggregatorBounds
  <2> QED BY <1>1, <2>1, <2>2, <2>3 DEF AggregatorTypeOK
<1>3. ItemsHaveType
  BY DEF ItemsHaveType
<1>4. ChangesInv
  BY <1>1 DEF ChangesInv
<1>5. BatchInv
  BY <1>1 DEF BatchInv
<1>6. ASSUME NEW a \in Aggregate, NEW f \in Fields PROVE Truth(a)[f] = 0
  <2>1. DOMAIN Worths(a, f) = {}
    BY DEF Worths, ItemsOf
  <2>2. SumFunction(Worths(a, f)) = 0
    BY <2>1, SumEmpty
  <2>3. expired[a][f] = 0
    BY NothingFacts
  <2> QED BY <2>2, <2>3, TruthIs
<1>7. ExactInv
  <2> SUFFICES ASSUME NEW a \in Aggregate, NEW f \in Fields
               PROVE  totals[a][f] + Pending(a, f) = Truth(a)[f]
    BY DEF ExactInv
  <2>1. (pos + 1)..Len(stream) = {}
    BY <1>1
  <2>2. DOMAIN Effects(a, f, pos + 1, Len(stream)) = {}
    BY <2>1 DEF Effects
  <2>3. Pending(a, f) = 0
    BY <1>2, <1>4, <2>2, PendingFacts, SumEmpty
  <2>4. totals[a][f] = 0
    BY NothingFacts
  <2> QED BY <1>6, <2>3, <2>4
<1>8. ASSUME NEW a PROVE Cardinality(Counted(a, 0)) = 0
  <2>1. Counted(a, 0) = {}
    BY DEF Counted
  <2> QED BY <2>1, FS_EmptySet
<1>9. CountInv
  <2> SUFFICES ASSUME NEW a \in Aggregate
               PROVE  Truth(a)["purchases"] + Truth(a)["views"] = Cardinality(Counted(a, Len(stream)))
    BY DEF CountInv
  <2>1. Truth(a)["purchases"] = 0 /\ Truth(a)["views"] = 0
    BY <1>6 DEF Fields
  <2> QED BY <1>1, <1>8, <2>1
<1>10. TraceInv
  <2> SUFFICES ASSUME NEW a \in Aggregate
               PROVE  Traced(a) >= 0 /\ Traced(a) + failed[a] >= 0
    BY <1>8 DEF TraceInv
  <2> QED BY <1>2, TracedInt
<1> QED BY <1>2, <1>3, <1>4, <1>5, <1>7, <1>9, <1>10 DEF AggregatorInv

\* The record of a change.
Record(event, k, new) == [event |-> event, key |-> k, new |-> new, old |-> table[k]]

(* What is inserted, replaced and expired are changes as above.            *)
LEMMA TableActionsChange ==
  ASSUME AggregatorInv, OneTypePerKey, NEW k \in Key
  PROVE  /\ \A item \in Item : Insert(k, item) => Changes(Record("INSERT", k, item))
         /\ \A item \in Item : Overwrite(k, item) => Changes(Record("MODIFY", k, item))
         /\ Expire(k) => Changes(Record("REMOVE", k, None))
<1>1. table[k] \in Item \cup {None} /\ (table[k] # None => table[k].type \in TypesOf[k])
  BY DEF AggregatorInv, AggregatorTypeOK, ItemsHaveType
<1>2. ASSUME NEW item \in Item, Insert(k, item) PROVE Changes(Record("INSERT", k, item))
  BY <1>1, <1>2 DEF Insert, Change, Changes, Record, IsChange, Changed, KeepsType
<1>3. ASSUME NEW item \in Item, Overwrite(k, item) PROVE Changes(Record("MODIFY", k, item))
  <2>1. item.type = table[k].type
    BY <1>1, <1>3 DEF Overwrite, OneTypePerKey
  <2> QED
    BY <1>1, <1>3, <2>1 DEF Overwrite, Change, Changes, Record, IsChange, Changed, KeepsType
<1>4. ASSUME Expire(k) PROVE Changes(Record("REMOVE", k, None))
  BY <1>1, <1>4 DEF Expire, Change, Changes, Record, IsChange, Changed, KeepsType
<1> QED BY <1>2, <1>3, <1>4

LEMMA AggregatorNextKeepsInv ==
  ASSUME AggregatorInv, OneTypePerKey, [AggregatorNext]_aggregatorVars
  PROVE  AggregatorInv'
<1>1. ASSUME NEW k \in Key, NEW item \in Item, Insert(k, item) \/ Overwrite(k, item)
      PROVE  AggregatorInv'
  BY <1>1, TableActionsChange, ChangesKeepInv
<1>2. ASSUME NEW k \in Key, Expire(k) PROVE AggregatorInv'
  BY <1>2, TableActionsChange, ChangesKeepInv
<1>3. ASSUME NEW n \in 1..BatchSize, Poll(n) PROVE AggregatorInv'
  BY <1>3, PollKeepsInv
<1>4. CASE AggregateRecord \/ AggregateFails
  BY <1>4, RecordKeepsInv
<1>5. CASE Return
  BY <1>5, ReturnKeepsInv
<1>6. CASE TimeOut
  <2>1. /\ ranges # <<>> /\ Retry /\ UNCHANGED <<source, totals>> /\ troubles # {}
        /\ errors' = errors /\ seen' = Highest(seen, pos')
    BY <1>6 DEF TimeOut
  <2> QED BY <2>1, RetryKeepsInv
<1>7. CASE LoseReply
  <2>1. /\ ranges # <<>> /\ Retry /\ UNCHANGED <<source, totals>> /\ troubles # {}
        /\ Published /\ seen' = seen /\ pos = Last
    BY <1>7 DEF LoseReply
  <2> QED BY <2>1, RetryKeepsInv
<1>8. CASE UNCHANGED aggregatorVars
  <2>1. UNCHANGED <<source, checkpoint, ranges, tries, discarded, pos, failed, totals, errors, seen>>
    BY <1>8 DEF aggregatorVars, lambda, mapping
  <2>2. stream' = stream /\ troubles' = troubles /\ table' = table /\ expired' = expired
    BY <2>1 DEF source
  <2>3. AggregatorTypeOK' /\ BatchInv'
    BY <2>1, <2>2 DEF AggregatorInv, AggregatorTypeOK, BatchInv, First
  <2>4. TraceInv'
    <3> SUFFICES ASSUME NEW a \in Aggregate
                 PROVE  /\ Traced(a)' >= Cardinality(Counted(a, checkpoint)')
                        /\ Traced(a)' + failed[a] >= Cardinality(Counted(a, pos)')
      BY <2>1 DEF TraceInv
    <3>1. Counted(a, checkpoint)' = Counted(a, checkpoint) /\ Counted(a, pos)' = Counted(a, pos)
      BY <2>1, <2>2 DEF Counted
    <3>2. Traced(a)' = Traced(a)
      BY <2>1, <2>2 DEF Traced, Dropped
    <3> QED BY <3>1, <3>2 DEF AggregatorInv, TraceInv
  <2> QED BY <2>1, <2>3, <2>4, MappingKeepsInv
<1> QED
  BY <1>1, <1>2, <1>3, <1>4, <1>5, <1>6, <1>7, <1>8 DEF AggregatorNext

LEMMA InvMeansAccounted ==
  ASSUME AggregatorInv
  PROVE  TotalsAccounted
<1> SUFFICES ASSUME CaughtUp, NEW a \in Aggregate
             PROVE  /\ troubles = {} => totals[a] = Truth(a)
                    /\ Traced(a) >= Truth(a).purchases + Truth(a).views
  BY DEF TotalsAccounted, TotalsExact, MissesAreCounted, Traced
<1> USE DEF AggregatorInv
<1>1. checkpoint = Len(stream) /\ pos = Len(stream) /\ Len(stream) \in Nat
  BY StreamFacts DEF CaughtUp
<1>2. ASSUME troubles = {} PROVE totals[a] = Truth(a)
  <2>1. ASSUME NEW f \in Fields PROVE totals[a][f] = Truth(a)[f]
    <3>1. (pos + 1)..Len(stream) = {}
      BY <1>1
    <3>2. DOMAIN Effects(a, f, pos + 1, Len(stream)) = {}
      BY <3>1 DEF Effects
    <3>3. Pending(a, f) = 0
      BY <3>2, PendingFacts, SumEmpty
    <3>4. totals[a][f] + Pending(a, f) = Truth(a)[f]
      BY <1>2 DEF ExactInv
    <3>5. totals[a][f] \in Int
      BY DEF AggregatorTypeOK, Sums, Fields
    <3> QED BY <3>3, <3>4, <3>5
  <2>2. totals[a] = [f \in Fields |-> totals[a][f]]
    <3>1. totals[a] \in [amount : Int, purchases : Nat, views : Nat]
      BY DEF AggregatorTypeOK, Sums
    <3> QED BY <3>1 DEF Fields
  <2>3. Truth(a) = [f \in Fields |-> Truth(a)[f]]
    BY TruthFields
  <2> QED BY <2>1, <2>2, <2>3
<1>3. Traced(a) >= Cardinality(Counted(a, checkpoint))
  BY DEF TraceInv
<1>4. Truth(a).purchases + Truth(a).views = Cardinality(Counted(a, Len(stream)))
  BY DEF CountInv
<1> QED BY <1>1, <1>2, <1>3, <1>4

(* The aggregator, whatever is written to the table: as long as no item is *)
(* replaced by one of another type, the totals account for every item.     *)
THEOREM AggregatorAccounts ==
  ASSUME OneTypePerKey
  PROVE  AggregatorSpec => []TotalsAccounted
<1>1. AggregatorInit => AggregatorInv
  BY AggregatorInitInv
<1>2. AggregatorInv /\ [AggregatorNext]_aggregatorVars => AggregatorInv'
  BY AggregatorNextKeepsInv
<1>3. AggregatorInv => TotalsAccounted
  BY InvMeansAccounted
<1> QED BY <1>1, <1>2, <1>3, PTL DEF AggregatorSpec

-----------------------------------------------------------------------------
(* The two paths.                                                          *)

\* A path may store e under k.
Stores(e, k) ==
  \/ ValidateAndNormalize(e) /\ k = IngestedKey(e)
  \/ TransformRecord(e) /\ k = TransformedKey(e)

(* What a path stores has a key of the table, a type that items of the key *)
(* have, and the worth of the event.                                       *)
LEMMA IngestedFacts ==
  ASSUME NEW e \in Event, ValidateAndNormalize(e)
  PROVE  /\ IngestedKey(e) \in Key /\ IngestedItem(e) \in Item
         /\ IngestedItem(e).type \in TypesOf[IngestedKey(e)]
<1>1. IngestedKey(e) \in Key
  BY KeysAssumption DEF PathKeys
<1>2. e.value \in Nat \cup {None}
  BY DEF ValidateAndNormalize
<1>3. (IF e.value = None THEN 0 ELSE e.value) \in Amount
  BY <1>2, KeysAssumption
<1>4. IngestedItem(e) \in Item
  BY <1>3 DEF IngestedItem, AsRead, Item
<1> QED BY <1>1, <1>4, KeysAssumption

LEMMA TransformedFacts ==
  ASSUME NEW e \in Event, TransformRecord(e)
  PROVE  /\ TransformedKey(e) \in Key /\ TransformedItem(e) \in Item
         /\ TransformedItem(e).type \in TypesOf[TransformedKey(e)]
         /\ TransformedItem(e).type = IngestedItem(e).type
         /\ Worth(TransformedItem(e)) = Worth(IngestedItem(e))
<1>1. TransformedKey(e) \in Key
  BY KeysAssumption DEF PathKeys
<1>2. e.kind \in {"PURCHASE", "VIEW", "CLICK"} /\ ApplyEventTypeRules(e)
  BY DEF TransformRecord, ValidateSchema, Supported
<1>3. CASE e.kind = "PURCHASE"
  <2>1. TransformPurchase(e)
    BY <1>2, <1>3 DEF ApplyEventTypeRules
  <2>2. TransformedItem(e) = IngestedItem(e)
    BY <1>3 DEF TransformedItem, IngestedItem
  <2>3. (IF e.value = None THEN 0 ELSE e.value) \in Amount
    BY <2>1, KeysAssumption DEF TransformPurchase
  <2>4. TransformedItem(e) \in Item
    BY <2>2, <2>3 DEF IngestedItem, AsRead, Item
  <2> QED BY <1>1, <2>2, <2>4, KeysAssumption
<1>4. CASE e.kind \in {"VIEW", "CLICK"}
  <2>1. TransformedItem(e) = [type |-> e.kind, value |-> 0]
    BY <1>4 DEF TransformedItem, AsRead
  <2>2. IngestedItem(e).type = e.kind
    BY <1>4 DEF IngestedItem, AsRead
  <2>3. TransformedItem(e) \in Item /\ TransformedItem(e).type = e.kind
    BY <1>4, <2>1, KeysAssumption DEF Item
  <2>4. Worth(TransformedItem(e)) = Worth(IngestedItem(e))
    BY <1>4, <2>2, <2>3 DEF Worth
  <2> QED BY <1>1, <2>2, <2>3, <2>4, KeysAssumption
<1> QED BY <1>2, <1>3, <1>4

LEMMA StoresFacts ==
  ASSUME NEW e \in Event, NEW k, Stores(e, k)
  PROVE  /\ k \in Key /\ IngestedItem(e).type \in TypesOf[k]
         /\ \E item \in Item : /\ item.type = IngestedItem(e).type
                               /\ Worth(item) = Worth(IngestedItem(e))
<1>1. CASE ValidateAndNormalize(e) /\ k = IngestedKey(e)
  BY <1>1, IngestedFacts
<1>2. CASE TransformRecord(e) /\ k = TransformedKey(e)
  <2>1. TransformedItem(e) \in Item
    BY <1>2, TransformedFacts
  <2> QED BY <1>2, <2>1, TransformedFacts
<1> QED BY <1>1, <1>2 DEF Stores

\* Something of a has expired that a total would show.
Gone(a) == expired[a].purchases + expired[a].views >= 1

(* As long as nothing goes wrong each item comes from an event that was    *)
(* sent, and each event is in the table unless it adds to no total or      *)
(* something has expired.                                                  *)
SentInv ==
  /\ sent \subseteq Event
  /\ troubles = {} => \A k \in Key :
       table[k] # None => \E e \in sent : Stores(e, k) /\ Worth(table[k]) = Worth(IngestedItem(e))
  /\ \A e \in sent : \E k \in Key :
       /\ Stores(e, k)
       /\ table[k] # None \/ IngestedItem(e).type = "CLICK" \/ Gone(AggregateOf[k])

(* What has expired stays so, and an item that expires shows.              *)
LEMMA GoneStays ==
  ASSUME AggregatorInv, NEW r, Changes(r)
  PROVE  /\ \A a \in Aggregate : Gone(a) => Gone(a)'
         /\ r.event = "REMOVE" /\ table[r.key].type # "CLICK" => Gone(AggregateOf[r.key])'
<1> DEFINE k == r.key
           b == AggregateOf[k]
<1>1. k \in Key /\ b \in Aggregate /\ table[k] \in Item \cup {None} /\ AggregatorTypeOK
  BY ChangesFacts DEF AggregatorInv, AggregatorTypeOK
<1>2. CASE r.event # "REMOVE"
  <2>1. expired' = expired
    BY <1>2 DEF Changes
  <2> QED BY <1>2, <2>1 DEF Gone
<1>3. CASE r.event = "REMOVE"
  <2> DEFINE w == Worth(table[k])
  <2>1. table[k] \in Item
    BY <1>1, <1>3 DEF Changes
  <2>2. /\ w \in Sums /\ w["purchases"] \in Nat /\ w["views"] \in Nat
        /\ table[k].type # "CLICK" => w["purchases"] + w["views"] = 1
    <3>1. w \in Sums
      BY <2>1, WorthFacts
    <3>2. table[k].type \in {"PURCHASE", "VIEW", "CLICK"}
      BY <2>1 DEF Item
    <3>3. table[k].type # "CLICK" => w["purchases"] + w["views"] = 1
      BY <2>1, <3>2, WorthFacts
    <3> QED BY <3>1, <3>3 DEF Sums
  <2>3. expired' = [expired EXCEPT ![b] = Plus(expired[b], w)] /\ expired \in [Aggregate -> Sums]
    BY <1>1, <1>3 DEF Changes, AggregatorTypeOK
  <2>4. /\ expired'[b] = Plus(expired[b], w) /\ expired[b] \in Sums
        /\ expired[b]["purchases"] \in Nat /\ expired[b]["views"] \in Nat
    BY <1>1, <2>3 DEF Sums
  <2>5. /\ expired'[b]["purchases"] = expired[b]["purchases"] + w["purchases"]
        /\ expired'[b]["views"] = expired[b]["views"] + w["views"]
    <3>1. "purchases" \in Fields /\ "views" \in Fields
      BY DEF Fields
    <3> QED BY <2>2, <2>4, <3>1, PlusFacts
  <2>6. ASSUME NEW a \in Aggregate, Gone(a) PROVE Gone(a)'
    <3>1. CASE a = b
      <4> HIDE DEF w, b
      <4> QED BY <2>2, <2>4, <2>5, <2>6, <3>1 DEF Gone
    <3>2. CASE a # b
      <4>1. expired'[a] = expired[a]
        BY <2>3, <3>2
      <4> QED BY <2>6, <4>1 DEF Gone
    <3> QED BY <3>1, <3>2
  <2>7. ASSUME table[k].type # "CLICK" PROVE Gone(b)'
    <3>1. expired'[b]["purchases"] + expired'[b]["views"] >= 1
      <4> HIDE DEF w, b
      <4> QED BY <2>2, <2>4, <2>5, <2>7
    <3>2. b = AggregateOf[r.key]
      OBVIOUS
    <3> QED BY <3>1 DEF Gone
  <2> QED BY <2>6, <2>7
<1> QED BY <1>2, <1>3

(* A change of the table, made by a path with an event or by the expiry.   *)
LEMMA ChangesKeepSent ==
  ASSUME AggregatorInv, OneTypePerKey, SentInv, NEW r, Changes(r),
         \/ r.event = "REMOVE" /\ sent' = sent
         \/ /\ r.event # "REMOVE"
            /\ \E e \in Event : /\ Stores(e, r.key) /\ Worth(r.new) = Worth(IngestedItem(e))
                                /\ Remember(e)
  PROVE  SentInv'
<1>1. /\ r.key \in Key /\ r.new \in Item \cup {None} /\ table \in [Key -> Item \cup {None}]
      /\ AggregateOf[r.key] \in Aggregate /\ AggregateOf \in [Key -> Aggregate]
  BY ChangesFacts, AggregatorBounds DEF AggregatorInv
<1>2. /\ table' = [table EXCEPT ![r.key] = r.new] /\ troubles' = troubles
      /\ r.event = "REMOVE" => r.new = None
      /\ r.event # "REMOVE" => r.new # None
  BY AggregatorBounds DEF Changes, IsChange
<1>3. sent' \subseteq Event /\ sent \subseteq sent'
  BY DEF Remember, SentInv
<1>4. ASSUME troubles = {}, NEW k \in Key, table'[k] # None
      PROVE  \E e \in sent' : Stores(e, k) /\ Worth(table'[k]) = Worth(IngestedItem(e))
  <2>1. CASE k = r.key
    <3>1. r.event # "REMOVE" /\ table'[k] = r.new
      BY <1>1, <1>2, <1>4, <2>1
    <3>2. PICK e \in Event : /\ Stores(e, r.key) /\ Worth(r.new) = Worth(IngestedItem(e))
                             /\ Remember(e)
      BY <3>1
    <3>3. e \in sent'
      BY <1>4, <3>2 DEF Remember
    <3> QED BY <2>1, <3>1, <3>2, <3>3
  <2>2. CASE k # r.key
    <3>1. table'[k] = table[k]
      BY <1>1, <1>2, <2>2
    <3>2. PICK e \in sent : Stores(e, k) /\ Worth(table[k]) = Worth(IngestedItem(e))
      BY <1>4, <3>1 DEF SentInv
    <3> QED BY <1>3, <3>1, <3>2
  <2> QED BY <2>1, <2>2
<1>5. ASSUME NEW e \in sent'
      PROVE  \E k \in Key :
               /\ Stores(e, k)
               /\ table'[k] # None \/ IngestedItem(e).type = "CLICK" \/ Gone(AggregateOf[k])'
  <2>1. CASE e \in sent
    <3>1. PICK k \in Key :
            /\ Stores(e, k)
            /\ table[k] # None \/ IngestedItem(e).type = "CLICK" \/ Gone(AggregateOf[k])
      BY <2>1 DEF SentInv
    <3>2. AggregateOf[k] \in Aggregate /\ e \in Event
      BY <1>1, <1>3, <1>5
    <3>3. CASE IngestedItem(e).type = "CLICK"
      BY <3>1, <3>3
    <3>4. CASE Gone(AggregateOf[k])
      BY <3>1, <3>2, <3>4, GoneStays
    <3>5. CASE table[k] # None /\ IngestedItem(e).type # "CLICK"
      <4>1. CASE k = r.key /\ r.event = "REMOVE"
        <5>1. table[k].type = IngestedItem(e).type
          <6>1. table[k].type \in TypesOf[k]
            BY <3>5 DEF AggregatorInv, ItemsHaveType
          <6>2. IngestedItem(e).type \in TypesOf[k]
            BY <3>1, <3>2, StoresFacts
          <6> QED BY <6>1, <6>2 DEF OneTypePerKey
        <5>2. Gone(AggregateOf[k])'
          BY <3>5, <4>1, <5>1, GoneStays
        <5> QED BY <3>1, <5>2
      <4>2. CASE ~ (k = r.key /\ r.event = "REMOVE")
        <5>1. table'[k] # None
          BY <1>1, <1>2, <3>5, <4>2
        <5> QED BY <3>1, <5>1
      <4> QED BY <4>1, <4>2
    <3> QED BY <3>1, <3>3, <3>4, <3>5
  <2>2. CASE e \notin sent
    <3>1. PICK d \in Event : Stores(d, r.key) /\ Remember(d) /\ r.event # "REMOVE"
      BY <1>5, <2>2
    <3>2. e = d
      BY <1>5, <2>2, <3>1 DEF Remember
    <3>3. table'[r.key] # None
      BY <1>1, <1>2, <3>1
    <3> QED BY <1>1, <3>1, <3>2, <3>3
  <2> QED BY <2>1, <2>2
<1> QED BY <1>2, <1>3, <1>4, <1>5 DEF SentInv

(* The paths do nothing to the table that the aggregator does not expect.  *)
LEMMA PathStep ==
  ASSUME [NextPaths]_allVars
  PROVE  [AggregatorNext]_aggregatorVars
<1>1. ASSUME NEW e \in Event, Ingest(e) PROVE [AggregatorNext]_aggregatorVars
  <2>1. ValidateAndNormalize(e)
    BY <1>1 DEF Ingest
  <2>2. IngestedKey(e) \in Key /\ IngestedItem(e) \in Item
    BY <2>1, IngestedFacts
  <2>3. Insert(IngestedKey(e), IngestedItem(e)) \/ UNCHANGED aggregatorVars
    BY <1>1 DEF Ingest
  <2> QED BY <2>2, <2>3 DEF AggregatorNext
<1>2. ASSUME NEW e \in Event, Stream(e) PROVE AggregatorNext
  <2>1. TransformRecord(e)
    BY <1>2 DEF Stream
  <2>2. TransformedKey(e) \in Key /\ TransformedItem(e) \in Item
    BY <2>1, TransformedFacts
  <2>3. Insert(TransformedKey(e), TransformedItem(e)) \/ Overwrite(TransformedKey(e), TransformedItem(e))
    BY <1>2 DEF Stream
  <2> QED BY <2>2, <2>3 DEF AggregatorNext
<1>3. ASSUME \/ \E k \in Key : Expire(k)
             \/ \E n \in 1..BatchSize : Poll(n)
             \/ AggregateRecord \/ AggregateFails \/ Return \/ TimeOut \/ LoseReply
      PROVE  AggregatorNext
  BY <1>3 DEF AggregatorNext
<1>4. CASE UNCHANGED allVars
  BY <1>4 DEF allVars
<1> QED BY <1>1, <1>2, <1>3, <1>4 DEF NextPaths

(* What leaves the table, the expired items and the sent events leaves     *)
(* their relation.                                                         *)
LEMMA SentKept ==
  ASSUME SentInv, UNCHANGED source, sent' = sent
  PROVE  SentInv'
<1>1. table' = table /\ troubles' = troubles /\ expired' = expired
  BY DEF source
<1>2. \A a : Gone(a)' = Gone(a)
  BY <1>1 DEF Gone
<1> QED BY <1>1, <1>2 DEF SentInv

LEMMA NextPathsKeepsSent ==
  ASSUME AggregatorInv, OneTypePerKey, SentInv, [NextPaths]_allVars
  PROVE  SentInv'
<1>1. ASSUME NEW e \in Event, Ingest(e) PROVE SentInv'
  <2>1. ValidateAndNormalize(e) /\ Remember(e)
    BY <1>1 DEF Ingest
  <2>2. IngestedKey(e) \in Key /\ IngestedItem(e) \in Item
    BY <2>1, IngestedFacts
  <2>3. CASE Insert(IngestedKey(e), IngestedItem(e))
    <3> DEFINE r == Record("INSERT", IngestedKey(e), IngestedItem(e))
    <3>1. Changes(r)
      BY <2>2, <2>3, TableActionsChange
    <3>2. /\ r.event # "REMOVE" /\ Stores(e, r.key) /\ Worth(r.new) = Worth(IngestedItem(e))
      BY <2>1 DEF Record, Stores
    <3> HIDE DEF r
    <3> QED BY <2>1, <3>1, <3>2, ChangesKeepSent
  <2>4. CASE table[IngestedKey(e)] # None /\ UNCHANGED aggregatorVars
    <3>1. table' = table /\ troubles' = troubles /\ expired' = expired /\ UNCHANGED source
      BY <2>4 DEF aggregatorVars, source
    <3>2. \A a : Gone(a)' = Gone(a)
      BY <3>1 DEF Gone
    <3>3. Stores(e, IngestedKey(e))
      BY <2>1 DEF Stores
    <3>4. CASE troubles = {}
      <4>1. sent' = sent \cup {e}
        BY <2>1, <3>4 DEF Remember
      <4> QED BY <2>2, <2>4, <3>1, <3>2, <3>3, <4>1 DEF SentInv
    <3>5. CASE troubles # {}
      BY <2>1, <3>1, <3>5, SentKept DEF Remember
    <3> QED BY <3>4, <3>5
  <2> QED BY <1>1, <2>3, <2>4 DEF Ingest
<1>2. ASSUME NEW e \in Event, Stream(e) PROVE SentInv'
  <2>1. TransformRecord(e) /\ Remember(e)
    BY <1>2 DEF Stream
  <2>2. /\ TransformedKey(e) \in Key /\ TransformedItem(e) \in Item
        /\ Worth(TransformedItem(e)) = Worth(IngestedItem(e))
    BY <2>1, TransformedFacts
  <2>3. \E event \in {"INSERT", "MODIFY"} :
          Changes(Record(event, TransformedKey(e), TransformedItem(e)))
    BY <1>2, <2>2, TableActionsChange DEF Stream
  <2>4. PICK event \in {"INSERT", "MODIFY"} :
          Changes(Record(event, TransformedKey(e), TransformedItem(e)))
    BY <2>3
  <2> DEFINE r == Record(event, TransformedKey(e), TransformedItem(e))
  <2>5. /\ r.event # "REMOVE" /\ Stores(e, r.key) /\ Worth(r.new) = Worth(IngestedItem(e))
    BY <2>1, <2>2 DEF Record, Stores
  <2>6. Changes(r)
    BY <2>4
  <2> HIDE DEF r
  <2> QED BY <2>1, <2>5, <2>6, ChangesKeepSent
<1>3. ASSUME NEW k \in Key, Expire(k), sent' = sent PROVE SentInv'
  <2> DEFINE r == Record("REMOVE", k, None)
  <2>1. Changes(r)
    BY <1>3, TableActionsChange
  <2>2. r.event = "REMOVE"
    BY DEF Record
  <2> HIDE DEF r
  <2> QED BY <1>3, <2>1, <2>2, ChangesKeepSent
<1>4. ASSUME \/ \E n \in 1..BatchSize : Poll(n)
             \/ AggregateRecord \/ AggregateFails \/ Return \/ TimeOut \/ LoseReply,
             sent' = sent
      PROVE  SentInv'
  <2>1. UNCHANGED source
    BY <1>4 DEF Poll, AggregateRecord, AggregateFails, NextRecord, Return, TimeOut, LoseReply
  <2> QED BY <1>4, <2>1, SentKept
<1>5. CASE UNCHANGED allVars
  BY <1>5, SentKept DEF allVars, aggregatorVars, source
<1> QED BY <1>1, <1>2, <1>3, <1>4, <1>5 DEF NextPaths

PathsInv == AggregatorInv /\ SentInv

LEMMA PathsAlways ==
  ASSUME OneTypePerKey
  PROVE  SpecPaths => []PathsInv
<1>1. InitPaths => PathsInv
  <2> SUFFICES ASSUME InitPaths PROVE PathsInv
    OBVIOUS
  <2>1. AggregatorInv
    BY AggregatorInitInv DEF InitPaths
  <2>2. SentInv
    BY DEF InitPaths, AggregatorInit, SentInv
  <2> QED BY <2>1, <2>2 DEF PathsInv
<1>2. PathsInv /\ [NextPaths]_allVars => PathsInv'
  BY PathStep, AggregatorNextKeepsInv, NextPathsKeepsSent DEF PathsInv
<1> QED BY <1>1, <1>2, PTL DEF SpecPaths

(* With the two paths that write the table: the totals account for every   *)
(* item.                                                                   *)
THEOREM TotalsAlwaysAccounted ==
  ASSUME OneTypePerKey
  PROVE  SpecPaths => []TotalsAccounted
<1>1. PathsInv => TotalsAccounted
  BY InvMeansAccounted DEF PathsInv
<1> QED BY <1>1, PathsAlways, PTL

(* The paths together with the aggregator are a case of the aggregator     *)
(* whose table anybody may change.                                         *)
THEOREM PathsAreChanges == SpecPaths => AggregatorSpec
<1>1. InitPaths => AggregatorInit
  BY DEF InitPaths
<1>2. [NextPaths]_allVars => [AggregatorNext]_aggregatorVars
  BY PathStep
<1> QED BY <1>1, <1>2, PTL DEF SpecPaths, AggregatorSpec

-----------------------------------------------------------------------------
(* Each event counts once.                                                 *)

\* What EventsCountOnce asks of an aggregate.
WrittenPlainly(a) ==
  /\ a[1].capitals
  /\ \A e \in SentFor(a[1]) : Plain(e)
  /\ \A e, f \in SentFor(a[1]) : e.time.utc = f.time.utc => e = f
  /\ \A b \in Aggregate : expired[b] = Nothing

\* The events of a.
EventsOf(a) == {e \in SentFor(a[1]) : e.time.utc \div DayLength = a[2]}

(* An event that is written plainly has one key, and its day is that of    *)
(* its time.                                                               *)
LEMMA PlainKey ==
  ASSUME NEW e \in Event, Plain(e)
  PROVE  /\ IngestedKey(e) = [entity |-> e.entity, ts |-> e.time]
         /\ TransformedKey(e) = [entity |-> e.entity, ts |-> e.time]
         /\ AggregateKey([entity |-> e.entity, ts |-> e.time])
              = <<e.entity, e.time.utc \div DayLength>>
         /\ NormalizeEntityId(e.entity) = e.entity
<1>1. /\ e.entity \in [type : Texts, id : Texts, capitals : BOOLEAN]
      /\ e.time \in [utc : Nat, offset : Int, fraction : BOOLEAN, zone : Zones]
      /\ e.time.zone # "offset" => e.time.offset = 0
  BY PathsAssumption
<1>2. /\ e.entity.capitals = TRUE /\ e.time.zone = "Z" /\ e.time.fraction = FALSE
      /\ e.time.offset = 0
  BY <1>1 DEF Plain
<1>3. NormalizeEntityId(e.entity) = e.entity
  BY <1>1, <1>2 DEF NormalizeEntityId
<1>4. MakeEventSk(e.time) = e.time
  BY <1>1, <1>2 DEF MakeEventSk, EventDatetime
<1>5. ExtractDate(e.time) = e.time.utc \div DayLength
  <2>1. e.time.utc + e.time.offset = e.time.utc
    BY <1>1, <1>2
  <2> QED BY <1>2, <2>1 DEF ExtractDate
<1>6. AggregateKey([entity |-> e.entity, ts |-> e.time]) = <<e.entity, ExtractDate(e.time)>>
  BY DEF AggregateKey
<1> QED BY <1>3, <1>4, <1>5, <1>6 DEF IngestedKey, TransformedKey, BuildSortKey

\* The key of an event that is written plainly.
KeyOf(e) == [entity |-> e.entity, ts |-> e.time]

(* The entity of a key is that of the event, in capitals if the key's is.  *)
LEMMA StoresEntity ==
  ASSUME NEW e \in Event, NEW k, Stores(e, k), NEW entity, k.entity = entity,
         entity.capitals
  PROVE  NormalizeEntityId(e.entity) = entity
<1>1. e.entity \in [type : Texts, id : Texts, capitals : BOOLEAN]
  BY PathsAssumption
<1>2. CASE k = IngestedKey(e)
  <2>1. e.entity = entity
    BY <1>2 DEF IngestedKey
  <2>2. e.entity.capitals = TRUE
    BY <1>1, <2>1
  <2> QED BY <1>1, <2>1, <2>2 DEF NormalizeEntityId
<1>3. CASE k = TransformedKey(e)
  BY <1>3 DEF TransformedKey
<1> QED BY <1>2, <1>3 DEF Stores

LEMMA AggregateIsPair ==
  ASSUME NEW a \in Aggregate
  PROVE  a = <<a[1], a[2]>>
<1>1. PICK k \in PathKeys : a = AggregateKey(k)
  BY KeysAssumption
<1> QED BY <1>1 DEF AggregateKey

LEMMA KeysAggregate ==
  ASSUME NEW k \in Key
  PROVE  AggregateOf[k] = AggregateKey(k) /\ AggregateOf[k][1] = k.entity
<1>1. AggregateOf[k] = AggregateKey(k)
  BY KeysAssumption
<1> QED BY <1>1 DEF AggregateKey

(* The items of a are those of its events.                                 *)
LEMMA ItemsAreEvents ==
  ASSUME PathsInv, troubles = {}, NEW a \in Aggregate, WrittenPlainly(a)
  PROVE  /\ \A k \in ItemsOf(a) : \E e \in EventsOf(a) :
              KeyOf(e) = k /\ Worth(table[k]) = Worth(IngestedItem(e))
         /\ \A e \in EventsOf(a) : KeyOf(e) \notin ItemsOf(a) => IngestedItem(e).type = "CLICK"
         /\ \A d, e \in EventsOf(a) : KeyOf(d) = KeyOf(e) => d = e
<1>1. sent \subseteq Event /\ a = <<a[1], a[2]>>
  BY AggregateIsPair DEF PathsInv, SentInv
<1>2. ASSUME NEW k \in ItemsOf(a)
      PROVE  \E e \in EventsOf(a) : KeyOf(e) = k /\ Worth(table[k]) = Worth(IngestedItem(e))
  <2>1. k \in Key /\ AggregateOf[k] = a /\ table[k] # None
    BY DEF ItemsOf
  <2>2. PICK e \in sent : Stores(e, k) /\ Worth(table[k]) = Worth(IngestedItem(e))
    BY <2>1 DEF PathsInv, SentInv
  <2>3. k.entity = a[1] /\ a[1].capitals
    BY <2>1, KeysAggregate DEF WrittenPlainly
  <2>4. e \in Event /\ NormalizeEntityId(e.entity) = a[1]
    BY <1>1, <2>2, <2>3, StoresEntity
  <2>5. e \in SentFor(a[1]) /\ Plain(e)
    BY <2>4 DEF SentFor, WrittenPlainly
  <2>6. k = KeyOf(e) /\ AggregateKey(k) = <<e.entity, e.time.utc \div DayLength>>
    BY <2>2, <2>4, <2>5, PlainKey DEF Stores, KeyOf
  <2>7. a[2] = e.time.utc \div DayLength
    BY <2>1, <2>6, KeysAggregate
  <2>8. e \in EventsOf(a)
    BY <2>5, <2>7 DEF EventsOf
  <2> QED BY <2>2, <2>6, <2>8
<1>3. ASSUME NEW e \in EventsOf(a), KeyOf(e) \notin ItemsOf(a)
      PROVE  IngestedItem(e).type = "CLICK"
  <2>1. /\ e \in SentFor(a[1]) /\ e \in sent /\ e \in Event /\ Plain(e)
        /\ e.time.utc \div DayLength = a[2] /\ NormalizeEntityId(e.entity) = a[1]
    BY <1>1 DEF EventsOf, SentFor, WrittenPlainly
  <2>2. PICK k \in Key :
          /\ Stores(e, k)
          /\ table[k] # None \/ IngestedItem(e).type = "CLICK" \/ Gone(AggregateOf[k])
    BY <2>1 DEF PathsInv, SentInv
  <2>3. k = KeyOf(e) /\ AggregateKey(k) = <<a[1], a[2]>>
    BY <2>1, <2>2, PlainKey DEF Stores, KeyOf
  <2>4. AggregateOf[k] = a
    BY <1>1, <2>3, KeysAggregate
  <2>5. table[k] = None
    BY <1>3, <2>3, <2>4 DEF ItemsOf
  <2>6. ~ Gone(a)
    BY NothingFacts DEF Gone, WrittenPlainly, Fields
  <2> QED BY <2>2, <2>4, <2>5, <2>6
<1>4. ASSUME NEW d \in EventsOf(a), NEW e \in EventsOf(a), KeyOf(d) = KeyOf(e)
      PROVE  d = e
  <2>1. d.time = e.time
    BY <1>4 DEF KeyOf
  <2> QED BY <2>1 DEF EventsOf, WrittenPlainly
<1> QED BY <1>2, <1>3, <1>4

(* So what the items are worth is what the events are worth.               *)
LEMMA TruthIsSentWorth ==
  ASSUME PathsInv, troubles = {}, NEW a \in Aggregate, WrittenPlainly(a)
  PROVE  Truth(a) = SentWorth(a[1], a[2])
<1> DEFINE E == EventsOf(a)
           K == ItemsOf(a)
<1>1. sent \subseteq Event /\ table \in [Key -> Item \cup {None}]
  BY DEF PathsInv, SentInv, AggregatorInv, AggregatorTypeOK
<1>2. ASSUME NEW e \in E PROVE Worth(IngestedItem(e)) \in Sums
  <2>1. e \in sent /\ e \in Event
    BY <1>1 DEF EventsOf, SentFor
  <2>2. PICK k \in Key : Stores(e, k)
    BY <2>1 DEF PathsInv, SentInv
  <2>3. PICK item \in Item : Worth(item) = Worth(IngestedItem(e))
    BY <2>1, <2>2, StoresFacts
  <2> QED BY <2>3, WorthFacts
<1>3. IsFiniteSet(E)
  <2>1. E \subseteq Event
    BY <1>1 DEF EventsOf, SentFor
  <2> QED BY <2>1, PathsAssumption, FS_Subset
<1>4. ASSUME NEW f \in Fields
      PROVE  SumFunction(Worths(a, f)) = SumFunction([e \in E |-> Worth(IngestedItem(e))[f]])
  <2>1. PICK F, G, key : /\ F = Worths(a, f) /\ G = [e \in E |-> Worth(IngestedItem(e))[f]]
                         /\ key = [e \in E |-> KeyOf(e)]
    OBVIOUS
  <2>2. G \in [E -> Int]
    <3>1. ASSUME NEW e \in E PROVE Worth(IngestedItem(e))[f] \in Int
      BY <1>2 DEF Sums, Fields
    <3> QED BY <2>1, <3>1
  <2>3. F \in [K -> Int] /\ IsFiniteSet(K) /\ \A k \in K : F[k] = Worth(table[k])[f]
    BY <1>1, <2>1, WorthsInt, ItemsOfFinite
  <2>4. \A x, y \in E : key[x] = key[y] => x = y
    BY <2>1, ItemsAreEvents
  <2>5. \A k \in K : \E x \in E : key[x] = k
    BY <2>1, ItemsAreEvents
  <2>6. ASSUME NEW x \in E, key[x] \in K PROVE F[key[x]] = G[x]
    <3>1. PICK e \in E : KeyOf(e) = key[x] /\ Worth(table[key[x]]) = Worth(IngestedItem(e))
      BY <2>6, ItemsAreEvents
    <3>2. e = x
      BY <2>1, <2>4, <3>1
    <3> QED BY <2>1, <2>3, <2>6, <3>1, <3>2
  <2>7. ASSUME NEW x \in E, key[x] \notin K PROVE G[x] = 0
    <3>1. IngestedItem(x).type = "CLICK"
      BY <2>1, <2>7, ItemsAreEvents
    <3>2. Worth(IngestedItem(x)) = Nothing
      BY <3>1 DEF Worth
    <3> QED BY <2>1, <3>2, NothingFacts
  <2> HIDE DEF E, K
  <2>8. SumFunction(F) = SumFunction(G)
    BY <1>3, <2>2, <2>3, <2>4, <2>5, <2>6, <2>7, SumReindex
  <2> QED BY <2>1, <2>8
<1>5. ASSUME NEW f \in Fields
      PROVE  SumFunction(Worths(a, f)) + expired[a][f]
               = SumFunction([e \in E |-> Worth(IngestedItem(e))[f]])
  <2>1. expired[a][f] = 0
    BY NothingFacts DEF WrittenPlainly
  <2>2. SumFunction(Worths(a, f)) \in Int
    BY <1>1, WorthsInt
  <2> QED BY <1>4, <2>1, <2>2
<1>6. SentWorth(a[1], a[2]) = [f \in Fields |-> SumFunction([e \in E |-> Worth(IngestedItem(e))[f]])]
  BY NothingFacts, Zenon DEF SentWorth, EventsOf
<1> QED BY <1>5, <1>6, TruthFields

(* Whether they come in a file, in the stream or both ways, and however    *)
(* often, the events of an entity that are written plainly count once.     *)
THEOREM EventsAlwaysCountOnce ==
  ASSUME OneTypePerKey
  PROVE  SpecPaths => []EventsCountOnce
<1>1. ASSUME PathsInv PROVE EventsCountOnce
  <2> SUFFICES ASSUME CaughtUp, troubles = {}, NEW a \in Aggregate, WrittenPlainly(a)
               PROVE  totals[a] = SentWorth(a[1], a[2])
    BY DEF EventsCountOnce, WrittenPlainly
  <2>1. totals[a] = Truth(a)
    BY <1>1, InvMeansAccounted DEF PathsInv, TotalsAccounted, TotalsExact
  <2> QED BY <1>1, <2>1, TruthIsSentWorth
<1> QED BY <1>1, PathsAlways, PTL

-----------------------------------------------------------------------------
(* The review pipeline.                                                    *)

USE ReviewAssumption DEF FileKinds, Statuses, Caught, Uncaught, Closed

\* Before there is a session nothing else happens.
AbsentInv ==
  session.status = "absent" =>
    file = "none" /\ exec.at = "none" /\ \A e \in Events : starter[e] = "idle"

\* No reviewer runs before the execution, and no synthesis is in the row.
StartInv ==
  /\ exec.at = "none" => session.round1 = {} /\ posted = {}
  /\ exec.at \in {"none", "UpdateStatusRunning"} => \A a \in Agents : branch[a] = "idle"
  /\ exec.at \in {"none", "UpdateStatusRunning", "ParallelReview", "SupervisorReview"}
       => session.round2 = {}

\* A reviewer that has something to review is in the row when it answers.
SavedInv ==
  \A a \in Agents :
    branch[a] = "saved" \/ (branch[a] = "reviewed" /\ exec.input # "empty")
      => a \in session.round1

\* The synthesis joins all reviews.
JoinedInv ==
  /\ exec.at \in {"SupervisorReview", "GenerateReport", "SaveUrl", "SendNotification",
                  "UpdateStatusCompleted"}
       => exec.results = Agents /\ (exec.input # "empty" => session.round1 = Agents)
  /\ SynthesisHasAllReviews

\* What is behind the supervisor, the report and the link.
ProgressInv ==
  /\ exec.at \in {"GenerateReport", "SaveUrl", "SendNotification", "UpdateStatusCompleted"}
       => /\ exec.synthesis = IF exec.input = "empty" THEN {} ELSE Agents
          /\ session.round2 = exec.synthesis
  /\ exec.at \in {"SaveUrl", "SendNotification", "UpdateStatusCompleted"}
       => report.overall = exec.synthesis /\ report.details = Agents
  /\ exec.at \in {"SendNotification", "UpdateStatusCompleted"} => session.url

\* A completed session and a message outlive the execution unchanged.
OutcomeInv ==
  /\ session.status = "completed" =>
       /\ exec.at = "succeeded" /\ session.url /\ report.details = Agents
       /\ exec.input # "empty" => session.round2 # {} /\ report.overall = session.round2
  /\ posted # {} => exec.at \in {"UpdateStatusCompleted", "succeeded", "aborted"}
  /\ MessagesAreBacked

ReviewInv ==
  /\ TypeOK /\ AbsentInv /\ StartInv /\ SavedInv /\ JoinedInv /\ ProgressInv /\ OutcomeInv

(* There is nothing at the start.                                          *)
LEMMA InitReview == Init => ReviewInv
<1> SUFFICES ASSUME Init PROVE ReviewInv
  OBVIOUS
<1>1. TypeOK
  <2>1. session = [status |-> "absent", round1 |-> {}, round2 |-> {}, url |-> FALSE]
    BY DEF Init, NewSession
  <2>2. starter \in [Events -> {"idle"}] /\ content \in [Events -> {"none"}]
        /\ branch \in [Agents -> {"idle"}]
    BY DEF Init
  <2>3. exec = [at |-> "none", input |-> "none", results |-> {}, synthesis |-> {}]
        /\ report = [overall |-> {}, details |-> {}] /\ posted = {} /\ file = "none" /\ faults = 0
    BY DEF Init, NoReport
  <2>4. session \in [status : Statuses, round1 : SUBSET Agents, round2 : SUBSET Agents, url : BOOLEAN]
    BY <2>1
  <2>5. exec \in [at : Caught \cup Uncaught \cup Closed \cup {"none"}, input : Kinds \cup Events \cup {"none"},
                 results : SUBSET Agents, synthesis : SUBSET Agents]
    BY <2>3
  <2>6. report \in [overall : SUBSET Agents, details : SUBSET Agents]
        /\ posted \subseteq [overall : SUBSET Agents, linked : BOOLEAN]
        /\ file \in Kinds \cup {"none"} /\ faults \in 0..MaxFaults
    BY <2>3
  <2>7. /\ starter \in [Events -> {"idle", "queued", "reading", "marking", "starting", "failing", "done"}]
        /\ content \in [Events -> Kinds \cup Events \cup {"none"}]
        /\ branch \in [Agents -> {"idle", "invoked", "saved", "reviewed", "broken"}]
    BY <2>2
  <2> QED BY <2>4, <2>5, <2>6, <2>7 DEF TypeOK
<1> QED
  BY <1>1 DEF Init, ReviewInv, AbsentInv, StartInv, SavedInv, JoinedInv, ProgressInv, OutcomeInv,
              NewSession, SynthesisHasAllReviews, MessagesAreBacked

(* What a completed session shows follows.                                 *)
LEMMA ReviewInvSuffices == ReviewInv => ResultsAreComplete
BY DEF ReviewInv, ResultsAreComplete, JoinedInv, OutcomeInv, CompletedIsReadable,
       HandleGetSession, TypeOK

-----------------------------------------------------------------------------
(* The API: the first thing that happens.                                  *)
LEMMA CreateKeepsInv == ReviewInv /\ CreateSession => ReviewInv'
<1> SUFFICES ASSUME ReviewInv, CreateSession PROVE ReviewInv'
  OBVIOUS
<1> USE DEF ReviewInv, TypeOK
<1>1. TypeOK'
  BY DEF CreateSession, NewSession, workflow
<1>2. /\ session'.status = "pending" /\ session'.round1 = {} /\ session'.round2 = {}
      /\ session.round1 = {} /\ session.round2 = {} /\ exec.at = "none" /\ posted = {}
      /\ UNCHANGED <<file, starter, exec, branch, report, posted>>
  BY DEF CreateSession, NewSession, workflow, AbsentInv, StartInv
<1> QED
  BY <1>1, <1>2 DEF AbsentInv, StartInv, SavedInv, JoinedInv, ProgressInv, OutcomeInv,
                    SynthesisHasAllReviews, MessagesAreBacked

(* The client and the starters.                                            *)
LEMMA OutsideKeepsInv ==
  ASSUME ReviewInv, NEW e \in Events, Upload(e) \/ Redeliver(e) \/ Starter(e)
  PROVE  ReviewInv'
<1> USE DEF ReviewInv, TypeOK
<1>2. CASE Upload(e) \/ Redeliver(e)
  <2>1. TypeOK'
    BY <1>2 DEF Upload, Redeliver, workflow
  <2>2. session.status # "absent" /\ UNCHANGED <<session, exec, branch, report, posted>>
    BY <1>2 DEF Upload, Redeliver, workflow, AbsentInv
  <2> QED
    BY <2>1, <2>2 DEF AbsentInv, StartInv, SavedInv, JoinedInv, ProgressInv, OutcomeInv,
                      SynthesisHasAllReviews, MessagesAreBacked
<1>3. CASE StarterStarts(e)
  <2>1. /\ UNCHANGED <<session, file, content, branch, report, posted, faults>>
        /\ starter[e] = "starting"
        /\ starter' \in [Events -> {"idle", "queued", "reading", "marking", "starting", "failing", "done"}]
        /\ \/ exec' = exec
           \/ exec.at = "none" /\ exec' = [exec EXCEPT !.at = "UpdateStatusRunning", !.input = content[e]]
    BY <1>3 DEF StarterStarts, StartExecution, Move
  <2>2. TypeOK'
    BY <2>1
  <2>3. session.status # "absent"
    BY <2>1 DEF AbsentInv
  <2>4. CASE exec' = exec
    BY <2>1, <2>2, <2>3, <2>4 DEF AbsentInv, StartInv, SavedInv, JoinedInv, ProgressInv, OutcomeInv,
                      SynthesisHasAllReviews, MessagesAreBacked
  <2>5. CASE exec.at = "none" /\ exec' = [exec EXCEPT !.at = "UpdateStatusRunning", !.input = content[e]]
    <3>1. exec'.at = "UpdateStatusRunning"
      BY <2>5
    <3> QED
      BY <2>1, <2>2, <2>3, <2>5, <3>1
         DEF AbsentInv, StartInv, SavedInv, JoinedInv, ProgressInv, OutcomeInv,
             SynthesisHasAllReviews, MessagesAreBacked
  <2> QED BY <2>1, <2>4, <2>5
<1>4. CASE \/ StarterChecks(e) \/ StarterReads(e) \/ StarterMarks(e)
           \/ StarterGetsError(e) \/ StarterFails(e) \/ StarterDies(e)
  <2>1. /\ UNCHANGED <<file, exec, branch, report, posted>>
        /\ starter[e] # "idle"
        /\ starter' \in [Events -> {"idle", "queued", "reading", "marking", "starting", "failing", "done"}]
        /\ content' \in [Events -> Kinds \cup Events \cup {"none"}]
        /\ faults' \in 0..MaxFaults
    BY <1>4 DEF StarterChecks, StarterReads, StarterMarks, StarterGetsError, StarterFails,
                StarterDies, Move, ReviewContent, Fault, NoFault, workflow
  <2>2. \/ session' = session
        \/ session' = [session EXCEPT !.status = "starting"]
        \/ session' = [session EXCEPT !.status = "failed"]
    BY <1>4 DEF StarterChecks, StarterReads, StarterMarks, StarterGetsError, StarterFails,
                StarterDies, SetStatus
  <2>3. /\ session' \in [status : Statuses, round1 : SUBSET Agents, round2 : SUBSET Agents, url : BOOLEAN]
        /\ session'.round1 = session.round1 /\ session'.round2 = session.round2
        /\ session'.url = session.url
        /\ session'.status = session.status \/ session'.status \in {"starting", "failed"}
    BY <2>2
  <2>4. TypeOK'
    BY <2>1, <2>3
  <2>5. session.status # "absent" /\ session'.status # "absent"
    BY <2>1, <2>3 DEF AbsentInv
  <2> QED
    BY <2>1, <2>3, <2>4, <2>5 DEF AbsentInv, StartInv, SavedInv, JoinedInv, ProgressInv, OutcomeInv,
                      SynthesisHasAllReviews, MessagesAreBacked
<1> QED BY <1>2, <1>3, <1>4 DEF Starter

-----------------------------------------------------------------------------
(* The reviewers.  They may still run after their execution has failed.    *)
LEMMA ReviewersKeepInv ==
  ASSUME ReviewInv, NEW a \in Agents, Review(a) \/ ReviewerFails(a)
  PROVE  ReviewInv'
<1> USE DEF ReviewInv, TypeOK
<1>1. /\ UNCHANGED <<file, starter, content, exec, report, posted>>
      /\ branch[a] \in {"invoked", "saved"}
      /\ \/ /\ branch[a] = "invoked" /\ exec.input # "empty"
            /\ branch' = [branch EXCEPT ![a] = "saved"]
            /\ session' = [session EXCEPT !.round1 = session.round1 \cup {a}]
            /\ faults' = faults
         \/ /\ UNCHANGED session
            /\ \/ branch' = [branch EXCEPT ![a] = "reviewed"]
                  /\ (exec.input = "empty" \/ branch[a] = "saved") /\ faults' = faults
               \/ branch' = [branch EXCEPT ![a] = "broken"] /\ faults' \in 0..MaxFaults
  BY DEF Review, ReviewerFails, Advance, SaveReviewResult, Fault
<1>2. /\ exec.at \notin {"none", "UpdateStatusRunning"}
      /\ session'.round1 \in {session.round1, session.round1 \cup {a}}
      /\ session'.round2 = session.round2 /\ session'.url = session.url
      /\ session'.status = session.status
      /\ session' \in [status : Statuses, round1 : SUBSET Agents, round2 : SUBSET Agents, url : BOOLEAN]
  BY <1>1 DEF StartInv
<1>3. TypeOK'
  BY <1>1, <1>2
<1>4. SavedInv'
  <2>1. CASE session' = session
    BY <1>1, <2>1 DEF SavedInv
  <2>2. CASE session' = [session EXCEPT !.round1 = session.round1 \cup {a}]
    <3>1. session'.round1 = session.round1 \cup {a}
      BY <2>2
    <3> QED BY <1>1, <3>1 DEF SavedInv
  <2> QED BY <1>1, <2>1, <2>2
<1>5. session.round1 \subseteq Agents
  OBVIOUS
<1> QED
  BY <1>1, <1>2, <1>3, <1>4, <1>5
     DEF AbsentInv, StartInv, JoinedInv, ProgressInv, OutcomeInv, SynthesisHasAllReviews,
         MessagesAreBacked

(* The states of the execution.                                            *)
LEMMA StateMachineKeepsInv == ReviewInv /\ StateMachine => ReviewInv'
<1> SUFFICES ASSUME ReviewInv, StateMachine PROVE ReviewInv'
  OBVIOUS
<1> USE DEF ReviewInv, TypeOK, Goto
<1>0. exec.at # "none" => session.status # "absent"
  BY DEF AbsentInv
<1>1. ASSUME UpdateStatusRunning PROVE ReviewInv'
  <2>1. /\ exec.at = "UpdateStatusRunning" /\ exec' = [exec EXCEPT !.at = "ParallelReview"]
        /\ session' = [session EXCEPT !.status = "running"]
        /\ branch' = [a \in Agents |-> "invoked"]
        /\ UNCHANGED <<file, starter, content, report, posted, faults>>
    BY <1>1 DEF UpdateStatusRunning, SetStatus
  <2>2. /\ exec'.at = "ParallelReview" /\ exec'.input = exec.input
        /\ session'.status = "running" /\ session'.round1 = session.round1
        /\ session'.round2 = session.round2 /\ session'.url = session.url
    BY <2>1
  <2>3. TypeOK'
    BY <2>1
  <2> QED
    BY <2>1, <2>2, <2>3
       DEF AbsentInv, StartInv, SavedInv, JoinedInv, ProgressInv, OutcomeInv,
           SynthesisHasAllReviews, MessagesAreBacked
<1>2. ASSUME JoinReviews PROVE ReviewInv'
  <2>1. /\ exec.at = "ParallelReview" /\ \A a \in Agents : branch[a] = "reviewed"
        /\ exec' = [exec EXCEPT !.at = "SupervisorReview", !.results = Agents]
        /\ UNCHANGED <<session, file, starter, content, branch, report, posted, faults>>
    <3>1. \A a \in Agents : branch[a] = "reviewed"
      BY <1>2 DEF JoinReviews
    <3>2. {a \in Agents : branch[a] = "reviewed"} = Agents
      BY <3>1
    <3> QED BY <1>2, <3>1, <3>2 DEF JoinReviews, Collect
  <2>2. exec'.at = "SupervisorReview" /\ exec'.results = Agents /\ exec'.input = exec.input
    BY <2>1
  <2>3. exec.input # "empty" => session.round1 = Agents
    BY <2>1 DEF SavedInv
  <2>4. TypeOK'
    BY <2>1
  <2> QED
    BY <1>0, <2>1, <2>2, <2>3, <2>4
       DEF AbsentInv, StartInv, SavedInv, JoinedInv, ProgressInv, OutcomeInv,
           SynthesisHasAllReviews, MessagesAreBacked
<1>3. ASSUME BranchFailed PROVE ReviewInv'
  <2>1. /\ exec.at = "ParallelReview" /\ exec' = [exec EXCEPT !.at = "ReviewFailed"]
        /\ UNCHANGED <<session, file, starter, content, branch, report, posted, faults>>
    BY <1>3 DEF BranchFailed
  <2>2. exec'.at = "ReviewFailed" /\ exec'.input = exec.input
    BY <2>1
  <2>3. TypeOK'
    BY <2>1
  <2> QED
    BY <1>0, <2>1, <2>2, <2>3
       DEF AbsentInv, StartInv, SavedInv, JoinedInv, ProgressInv, OutcomeInv,
           SynthesisHasAllReviews, MessagesAreBacked
<1>4. ASSUME SupervisorReview \/ (SupervisorOrReportFails /\ exec.at = "SupervisorReview")
      PROVE  ReviewInv'
  <2> DEFINE synthesis == IF exec.input = "empty" THEN {} ELSE Agents
  <2>1. /\ exec.at = "SupervisorReview" /\ exec.results = Agents
        /\ exec.input # "empty" => session.round1 = Agents
        /\ session.round2 = {} /\ session.status # "completed" /\ posted = {}
    BY <1>4 DEF SupervisorReview, JoinedInv, StartInv, OutcomeInv
  <2>2. Synthesize(exec.input, exec.results) = synthesis
    BY <2>1 DEF Synthesize
  <2>3. /\ \/ session' = session
           \/ session' = [session EXCEPT !.round2 = IF synthesis = {} THEN @ ELSE synthesis]
        /\ \/ /\ exec' = [exec EXCEPT !.at = "GenerateReport", !.synthesis = synthesis]
              /\ session' = [session EXCEPT !.round2 = IF synthesis = {} THEN @ ELSE synthesis]
           \/ exec' = [exec EXCEPT !.at = "ReviewFailed"]
        /\ UNCHANGED <<file, starter, content, branch, report, posted>>
        /\ faults' \in 0..MaxFaults
    BY <1>4, <2>2, <2>1 DEF SupervisorReview, SupervisorOrReportFails, SaveRound2, Fault
  <2>4. /\ session'.status = session.status /\ session'.round1 = session.round1
        /\ session'.url = session.url /\ session'.round2 \in {session.round2, synthesis}
        /\ session' \in [status : Statuses, round1 : SUBSET Agents, round2 : SUBSET Agents, url : BOOLEAN]
        /\ exec' \in [at : Caught \cup Uncaught \cup Closed \cup {"none"},
                      input : Kinds \cup Events \cup {"none"},
                      results : SUBSET Agents, synthesis : SUBSET Agents]
        /\ exec'.at \in {"GenerateReport", "ReviewFailed"} /\ exec'.input = exec.input
        /\ exec'.results = exec.results
        /\ exec'.at = "GenerateReport" =>
             exec'.synthesis = synthesis /\ session'.round2 = synthesis
    <3>1. synthesis \subseteq Agents
      OBVIOUS
    <3> HIDE DEF synthesis
    <3>2. /\ session'.status = session.status /\ session'.round1 = session.round1
          /\ session'.url = session.url /\ session'.round2 \in {session.round2, synthesis}
          /\ session' \in [status : Statuses, round1 : SUBSET Agents, round2 : SUBSET Agents, url : BOOLEAN]
      BY <2>1, <2>3, <3>1
    <3>3. CASE /\ exec' = [exec EXCEPT !.at = "GenerateReport", !.synthesis = synthesis]
               /\ session' = [session EXCEPT !.round2 = IF synthesis = {} THEN @ ELSE synthesis]
      <4>1. session'.round2 = synthesis
        BY <2>1, <3>3
      <4> QED BY <3>1, <3>2, <3>3, <4>1
    <3>4. CASE exec' = [exec EXCEPT !.at = "ReviewFailed"]
      BY <3>2, <3>4
    <3> QED BY <2>3, <3>3, <3>4
  <2>5. TypeOK'
    BY <2>3, <2>4
  <2>6. /\ UNCHANGED <<file, starter, branch, report, posted>>
        /\ synthesis # {} => synthesis = Agents /\ session.round1 = Agents
    BY <2>1, <2>3
  <2> HIDE DEF TypeOK
  <2>7. AbsentInv' /\ StartInv' /\ SavedInv'
    BY <1>0, <2>1, <2>4, <2>6 DEF AbsentInv, StartInv, SavedInv
  <2>8. JoinedInv'
    BY <2>1, <2>4, <2>6 DEF JoinedInv, SynthesisHasAllReviews
  <2>9. ProgressInv' /\ OutcomeInv'
    BY <2>1, <2>4, <2>6 DEF ProgressInv, OutcomeInv, MessagesAreBacked
  <2> QED
    BY <2>5, <2>7, <2>8, <2>9
<1>5. ASSUME GenerateReport PROVE ReviewInv'
  <2>1. /\ exec.at = "GenerateReport" /\ exec' = [exec EXCEPT !.at = "SaveUrl"]
        /\ report' = [overall |-> exec.synthesis, details |-> exec.results]
        /\ UNCHANGED <<session, file, starter, content, branch, posted, faults>>
    BY <1>5 DEF GenerateReport, GenerateHtmlReport
  <2>2. /\ exec'.at = "SaveUrl" /\ exec'.input = exec.input /\ exec'.results = exec.results
        /\ exec'.synthesis = exec.synthesis
    BY <2>1
  <2>3. TypeOK'
    BY <2>1
  <2>4. posted = {} /\ session.status # "completed"
    BY <2>1 DEF OutcomeInv
  <2> QED
    BY <1>0, <2>1, <2>2, <2>3, <2>4
       DEF AbsentInv, StartInv, SavedInv, JoinedInv, ProgressInv, OutcomeInv,
           SynthesisHasAllReviews, MessagesAreBacked
<1>6. ASSUME UpdateReportUrl PROVE ReviewInv'
  <2>1. /\ exec.at = "SaveUrl" /\ exec' = [exec EXCEPT !.at = "SendNotification"]
        /\ session' = [session EXCEPT !.url = TRUE]
        /\ UNCHANGED <<file, starter, content, branch, report, posted, faults>>
    BY <1>6 DEF UpdateReportUrl
  <2>2. /\ exec'.at = "SendNotification" /\ exec'.input = exec.input
        /\ exec'.results = exec.results /\ exec'.synthesis = exec.synthesis
        /\ session'.status = session.status /\ session'.round1 = session.round1
        /\ session'.round2 = session.round2 /\ session'.url = TRUE
    BY <2>1
  <2>3. TypeOK'
    BY <2>1
  <2>4. posted = {} /\ session.status # "completed"
    BY <2>1 DEF OutcomeInv
  <2> QED
    BY <1>0, <2>1, <2>2, <2>3, <2>4
       DEF AbsentInv, StartInv, SavedInv, JoinedInv, ProgressInv, OutcomeInv,
           SynthesisHasAllReviews, MessagesAreBacked
<1>7. ASSUME SupervisorOrReportFails, exec.at # "SupervisorReview" PROVE ReviewInv'
  <2>1. /\ exec.at \in {"GenerateReport", "SaveUrl"}
        /\ exec' = [exec EXCEPT !.at = "ReviewFailed"]
        /\ UNCHANGED <<session, file, starter, content, branch, report, posted>>
        /\ faults' \in 0..MaxFaults
    BY <1>7 DEF SupervisorOrReportFails, Fault
  <2>2. exec'.at = "ReviewFailed" /\ exec'.input = exec.input
    BY <2>1
  <2>3. TypeOK'
    BY <2>1
  <2> QED
    BY <1>0, <2>1, <2>2, <2>3
       DEF AbsentInv, StartInv, SavedInv, JoinedInv, ProgressInv, OutcomeInv,
           SynthesisHasAllReviews, MessagesAreBacked
<1>8. ASSUME SendNotification \/ UncaughtFailure PROVE ReviewInv'
  <2>1. /\ exec.at \in Uncaught
        /\ \/ exec.at = "SendNotification" /\ exec' = [exec EXCEPT !.at = "UpdateStatusCompleted"]
           \/ exec' = [exec EXCEPT !.at = "aborted"]
        /\ \/ posted' = posted
           \/ exec.at = "SendNotification" /\ posted' = posted \cup {FormatMessage}
        /\ UNCHANGED <<session, file, starter, content, branch, report>>
        /\ faults' \in 0..MaxFaults
    BY <1>8 DEF SendNotification, UncaughtFailure, Fault
  <2>2. /\ exec'.input = exec.input /\ exec'.results = exec.results
        /\ exec'.synthesis = exec.synthesis
        /\ \/ exec'.at = "UpdateStatusCompleted" /\ exec.at = "SendNotification"
           \/ exec'.at = "aborted"
    BY <2>1
  <2>3. ASSUME exec.at = "SendNotification"
        PROVE  FormatMessage = [overall |-> report.overall, linked |-> TRUE]
    <3>1. report.overall = exec.synthesis /\ report.details = Agents
      BY <2>3 DEF ProgressInv
    <3>2. report # NoReport
      <4>1. Agents # {}
        OBVIOUS
      <4>2. NoReport.details = {}
        BY DEF NoReport
      <4> QED BY <3>1, <4>1, <4>2
    <3> QED BY <3>1, <3>2 DEF FormatMessage
  <2>4. TypeOK'
    <3>1. posted' \subseteq [overall : SUBSET Agents, linked : BOOLEAN]
      <4>1. [overall |-> report.overall, linked |-> TRUE] \in [overall : SUBSET Agents, linked : BOOLEAN]
        OBVIOUS
      <4>2. posted \subseteq [overall : SUBSET Agents, linked : BOOLEAN]
        OBVIOUS
      <4> HIDE DEF ReviewInv, TypeOK
      <4> QED BY <2>1, <2>3, <4>1, <4>2
    <3>2. exec' \in [at : Caught \cup Uncaught \cup Closed \cup {"none"},
                     input : Kinds \cup Events \cup {"none"},
                     results : SUBSET Agents, synthesis : SUBSET Agents]
      BY <2>1
    <3> QED BY <2>1, <3>1, <3>2
  <2>5. session.status # "completed"
    BY <2>1 DEF OutcomeInv
  <2>6. MessagesAreBacked'
    <3> SUFFICES ASSUME NEW m \in posted'
                 PROVE  m.linked /\ session.url /\ m.overall = report.overall
      BY <2>1 DEF MessagesAreBacked
    <3>1. CASE m \in posted
      BY <3>1 DEF OutcomeInv, MessagesAreBacked
    <3>2. CASE m \notin posted
      <4>1. exec.at = "SendNotification" /\ m = FormatMessage
        BY <2>1, <3>2
      <4> QED BY <2>3, <4>1 DEF ProgressInv
    <3> QED BY <3>1, <3>2
  <2> QED
    BY <1>0, <2>1, <2>2, <2>4, <2>5, <2>6
       DEF AbsentInv, StartInv, SavedInv, JoinedInv, ProgressInv, OutcomeInv,
           SynthesisHasAllReviews
<1>9. ASSUME UpdateStatusCompleted \/ ReviewFailed PROVE ReviewInv'
  <2>1. /\ exec' = [exec EXCEPT !.at = "succeeded"]
        /\ \/ exec.at = "UpdateStatusCompleted" /\ session' = [session EXCEPT !.status = "completed"]
           \/ exec.at = "ReviewFailed" /\ session' = [session EXCEPT !.status = "failed"]
        /\ UNCHANGED <<file, starter, content, branch, report, posted, faults>>
    BY <1>9 DEF UpdateStatusCompleted, ReviewFailed, SetStatus
  <2>2. /\ exec'.at = "succeeded" /\ exec'.input = exec.input
        /\ session'.round1 = session.round1 /\ session'.round2 = session.round2
        /\ session'.url = session.url
        /\ \/ session'.status = "completed" /\ exec.at = "UpdateStatusCompleted"
           \/ session'.status = "failed"
    BY <2>1
  <2>3. TypeOK'
    BY <2>1
  <2>4. Agents # {}
    OBVIOUS
  <2> QED
    BY <2>1, <2>2, <2>3, <2>4
       DEF AbsentInv, StartInv, SavedInv, JoinedInv, ProgressInv, OutcomeInv,
           SynthesisHasAllReviews, MessagesAreBacked
<1> HIDE DEF ReviewInv
<1> QED
  BY <1>1, <1>2, <1>3, <1>4, <1>5, <1>6, <1>7, <1>8, <1>9 DEF StateMachine

(* Every step keeps the strengthened invariant.                            *)
LEMMA NextKeepsReview == ReviewInv /\ [Next]_vars => ReviewInv'
<1> SUFFICES ASSUME ReviewInv, [Next]_vars PROVE ReviewInv'
  OBVIOUS
<1>1. ASSUME Reviewers PROVE ReviewInv'
  BY <1>1, ReviewersKeepInv
     DEF Reviewers, SecurityReview, CostReview, ReliabilityReview, OperationsReview
<1>3. CASE UNCHANGED vars
  BY <1>3 DEF vars, workflow, ReviewInv, TypeOK, AbsentInv, StartInv, SavedInv, JoinedInv,
              ProgressInv, OutcomeInv, SynthesisHasAllReviews, MessagesAreBacked
<1> QED
  BY <1>1, <1>3, CreateKeepsInv, OutsideKeepsInv, StateMachineKeepsInv DEF Next

(* The strengthened invariant holds throughout.                            *)
LEMMA ReviewInvHolds == Spec => []ReviewInv
BY InitReview, NextKeepsReview, PTL DEF Spec

(* A synthesis rests on all reviews; a client that reads completed gets    *)
(* the link, the report and the scores; and a message in the room is       *)
(* backed by the report behind its link.                                   *)
THEOREM ResultsAlwaysComplete == Spec => []ResultsAreComplete
BY ReviewInvHolds, ReviewInvSuffices, PTL

(* An execution that has ended stays as it ended, however often the file   *)
(* is uploaded or its event delivered.                                     *)
THEOREM AlwaysReviewedOnce == Spec => ReviewedOnce
<1>1. ReviewInv /\ [Next]_vars => [exec.at \in Closed => exec' = exec]_exec
  <2> SUFFICES ASSUME ReviewInv, [Next]_vars, exec.at \in Closed PROVE exec' = exec
    OBVIOUS
  <2>1. ASSUME NEW e \in Events, Upload(e) \/ Redeliver(e) \/ Starter(e) PROVE exec' = exec
    BY <2>1 DEF Upload, Redeliver, Starter, StarterChecks, StarterReads, StarterMarks,
                StarterStarts, StartExecution, StarterGetsError, StarterFails, StarterDies, workflow
  <2>2. ASSUME NEW a \in Agents, Review(a) \/ ReviewerFails(a) PROVE exec' = exec
    BY <2>2 DEF Review, ReviewerFails
  <2>3. ~StateMachine
    BY DEF StateMachine, UpdateStatusRunning, JoinReviews, Collect, BranchFailed, SupervisorReview,
           GenerateReport, UpdateReportUrl, SupervisorOrReportFails, SendNotification,
           UpdateStatusCompleted, ReviewFailed, UncaughtFailure, Goto
  <2> QED
    BY <2>1, <2>2, <2>3
       DEF Next, Reviewers, SecurityReview, CostReview, ReliabilityReview, OperationsReview,
           CreateSession, vars, workflow
<1> QED
  BY <1>1, ReviewInvHolds, PTL DEF Spec, ReviewedOnce

(* Reviewers write at the same time, also after their execution has failed, *)
(* and none takes the result of another away.                              *)
THEOREM ReviewsAlwaysAccumulate == Spec => ReviewsAccumulate
<1>1. ReviewInv /\ [Next]_vars => [session.round1 \subseteq session'.round1]_session
  <2> SUFFICES ASSUME ReviewInv, [Next]_vars PROVE session.round1 \subseteq session'.round1
    OBVIOUS
  <2> USE DEF ReviewInv, TypeOK
  <2>1. ASSUME CreateSession PROVE session.round1 \subseteq session'.round1
    BY <2>1 DEF CreateSession, AbsentInv, StartInv
  <2>2. ASSUME NEW e \in Events, Upload(e) \/ Redeliver(e) \/ Starter(e)
        PROVE  session'.round1 = session.round1
    BY <2>2 DEF Upload, Redeliver, Starter, StarterChecks, StarterReads, StarterMarks,
                StarterStarts, StarterGetsError, StarterFails, StarterDies, SetStatus
  <2>3. ASSUME NEW a \in Agents, Review(a) \/ ReviewerFails(a)
        PROVE  session.round1 \subseteq session'.round1
    BY <2>3 DEF Review, ReviewerFails, SaveReviewResult
  <2>4. ASSUME StateMachine PROVE session'.round1 = session.round1
    BY <2>4 DEF StateMachine, UpdateStatusRunning, JoinReviews, Collect, BranchFailed, SupervisorReview,
           GenerateReport, UpdateReportUrl, SupervisorOrReportFails, SendNotification,
           UpdateStatusCompleted, ReviewFailed, UncaughtFailure, SetStatus, SaveRound2
  <2> QED
    BY <2>1, <2>2, <2>3, <2>4
       DEF Next, Reviewers, SecurityReview, CostReview, ReliabilityReview, OperationsReview, vars
<1> QED
  BY <1>1, ReviewInvHolds, PTL DEF Spec, ReviewsAccumulate
=============================================================================

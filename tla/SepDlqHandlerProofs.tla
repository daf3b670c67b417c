------------------------ MODULE SepDlqHandlerProofs ------------------------
(***************************************************************************)
(* Proofs about SepDlqHandler for any events, pool of messages and number  *)
(* of overlapping invocations: no event vanishes, an unclassifiable event  *)
(* leaves the queues only when it was archived and alerted, drains and     *)
(* delays stay within their limits, each delay is longer than the last,    *)
(* and while nothing fails no event is multiplied.                         *)
(*                                                                         *)
(* None of these is inductive.  The strengthenings:                        *)
(*   CarriedOn   a live message that no invocation is about to delete      *)
(*               keeps an event safe: what carries the event on is not     *)
(*               the message being deleted;                                *)
(*   BatchFits   what an invocation has received and not handled fits into *)
(*               what is left of its limit;                                *)
(*   DelayInv    the delay of a message is the one of its attempt_count;   *)
(*   HoldInv     no two invocations hold the same message.                 *)
(***************************************************************************)
EXTENDS SepDlqHandler, WellFoundedInduction, FiniteSetTheorems, TLAPS

-----------------------------------------------------------------------------
(* The backoff, a recursive function: that it is one, and that it grows.   *)

(* A set that has 0 and with every natural the next one has them all.     *)
LEMMA SetInduction ==
  ASSUME NEW S, 0 \in S, \A n \in Nat : n \in S => n + 1 \in S
  PROVE  Nat \subseteq S
<1> DEFINE R == {p \in Nat \X Nat : p[1] < p[2]}
<1>1. IsWellFoundedOn(R, Nat)
  BY NatLessThanWellFounded DEF OpToRel
<1> SUFFICES ASSUME Nat \ S # {} PROVE FALSE
  OBVIOUS
<1>2. PICK x \in Nat \ S : \A y \in Nat \ S : <<y, x>> \notin R
  <2> HIDE DEF R
  <2> QED BY <1>1, WFMin
<1>3. x - 1 \in Nat \ S /\ x - 1 < x
  BY <1>2
<1> QED BY <1>2, <1>3

\* f is the beginning of the backoff up to n.
Doubles(f, n) ==
  /\ f \in [0..n -> Nat] /\ f[0] = 10
  /\ \A i \in 1..n : f[i] = 2 * f[i - 1]

(* There are such beginnings of every length.                              *)
LEMMA DoublesExists == \A n \in Nat : \E f : Doubles(f, n)
<1> DEFINE S == {n \in Nat : \E f : Doubles(f, n)}
<1>1. 0 \in S
  <2>1. Doubles([i \in 0..0 |-> 10], 0)
    BY DEF Doubles
  <2> QED BY <2>1
<1>2. ASSUME NEW n \in Nat, n \in S PROVE n + 1 \in S
  <2>1. PICK f : Doubles(f, n)
    BY <1>2
  <2> DEFINE g == [i \in 0..(n + 1) |-> IF i = n + 1 THEN 2 * f[n] ELSE f[i]]
  <2>2. Doubles(g, n + 1)
    BY <2>1 DEF Doubles
  <2> QED BY <2>2
<1> HIDE DEF S
<1>3. Nat \subseteq S
  BY <1>1, <1>2, SetInduction
<1> QED BY <1>3 DEF S

(* Two of them agree where both are defined.                               *)
LEMMA DoublesUnique ==
  ASSUME NEW f, NEW g, NEW m \in Nat, NEW n \in Nat, Doubles(f, m), Doubles(g, n)
  PROVE  \A i \in Nat : i <= m /\ i <= n => f[i] = g[i]
<1> DEFINE S == {i \in Nat : i <= m /\ i <= n => f[i] = g[i]}
<1>1. 0 \in S
  BY DEF Doubles
<1>2. ASSUME NEW i \in Nat, i \in S PROVE i + 1 \in S
  BY <1>2 DEF Doubles
<1> HIDE DEF S
<1>3. Nat \subseteq S
  BY <1>1, <1>2, SetInduction
<1> QED BY <1>3 DEF S

(* The recursion defines a function.                                       *)
LEMMA BackoffDef == Backoff = [n \in Nat |-> IF n = 0 THEN 10 ELSE 2 * Backoff[n - 1]]
<1> DEFINE F(n) == CHOOSE f : Doubles(f, n)
           h == [n \in Nat |-> F(n)[n]]
<1>1. \A n \in Nat : Doubles(F(n), n)
  BY DoublesExists
<1> HIDE DEF F
<1>2. ASSUME NEW n \in Nat PROVE h[n] = IF n = 0 THEN 10 ELSE 2 * h[n - 1]
  <2>1. CASE n = 0
    BY <1>1, <2>1 DEF Doubles
  <2>2. CASE n # 0
    <3>1. n - 1 \in Nat /\ h[n] = 2 * F(n)[n - 1]
      BY <1>1, <2>2 DEF Doubles
    <3>2. F(n)[n - 1] = F(n - 1)[n - 1]
      BY <1>1, <3>1, DoublesUnique
    <3> QED BY <2>2, <3>1, <3>2
  <2> QED BY <2>1, <2>2
<1>3. h = [n \in Nat |-> IF n = 0 THEN 10 ELSE 2 * h[n - 1]]
  BY <1>2
<1> HIDE DEF h
<1> QED BY <1>3 DEF Backoff

(* Each backoff is a positive number of seconds and doubles the one before. *)
LEMMA BackoffFacts ==
  ASSUME NEW n \in Nat
  PROVE  Backoff[n] \in Nat /\ Backoff[n] > 0 /\ Backoff[n + 1] = 2 * Backoff[n]
<1> DEFINE S == {i \in Nat : Backoff[i] \in Nat /\ Backoff[i] > 0}
<1>1. \A i \in Nat : Backoff[i] = IF i = 0 THEN 10 ELSE 2 * Backoff[i - 1]
  BY BackoffDef
<1>2. 0 \in S
  BY <1>1
<1>3. ASSUME NEW i \in Nat, i \in S PROVE i + 1 \in S
  BY <1>1, <1>3
<1> HIDE DEF S
<1>4. Nat \subseteq S
  BY <1>2, <1>3, SetInduction
<1> QED BY <1>1, <1>4 DEF S

-----------------------------------------------------------------------------
(* No event vanishes.                                                      *)

USE DlqAssumption DEF FaultKinds, Named

\* What the proofs need of the types.
TypeInv ==
  /\ place \in [Copy -> {"source", "dlq", "held", "gone"}]
  /\ event \in [Copy -> Event]
  /\ pc \in [Invocation -> {"idle", "drain", "alert", "delete"}]
  /\ batch \in [Invocation -> SUBSET Copy]
  /\ current \in [Invocation -> Copy \cup {None}]

Doomed(c) == \E h \in Invocation : pc[h] = "delete" /\ current[h] = c
Safe(e) == \E c \in Copy : place[c] # "gone" /\ event[c] = e /\ ~Doomed(c)

\* The message an invocation alerts about was archived as unknown.
AlertInv ==
  \A h \in Invocation :
    /\ pc[h] \in {"alert", "delete"} => current[h] \in Copy
    /\ pc[h] = "alert" =>
         /\ Classify(event[current[h]]) = "UNKNOWN"
         /\ event[current[h]] \in archived

CarriedOn ==
  \A e \in Event :
    \/ Safe(e) \/ e \in done
    \/ e \in archived /\ (Classify(e) = "UNKNOWN" => e \in alerted)

DlqInv == TypeInv /\ AlertInv /\ CarriedOn

(* The strengthened invariant gives both properties.                       *)
LEMMA DlqInvSuffices == DlqInv => NothingVanishes /\ UnknownIsReported
BY DEF DlqInv, CarriedOn, Safe, NothingVanishes, UnknownIsReported, Live,
       NoSign, Classify

(* A queue holds every event at the start.                                 *)
LEMMA InitSafe == Init => DlqInv
BY DEF Init, DlqInv, TypeInv, AlertInv, CarriedOn, Safe, Doomed

-----------------------------------------------------------------------------
(* Sending an event back makes it safe and disturbs no message that is     *)
(* live or that an invocation holds.                                       *)
LEMMA SendFacts ==
  ASSUME TypeInv, NEW c \in Copy, NEW d \in Copy, Send(c, d)
  PROVE  /\ place' \in [Copy -> {"source", "dlq", "held", "gone"}]
         /\ event' \in [Copy -> Event]
         /\ place'[d] # "gone" /\ event'[d] = event[c]
         /\ \A h \in Invocation : current[h] # d /\ d \notin batch[h]
         /\ \A x \in Copy : x # d => place'[x] = place[x] /\ event'[x] = event[x]
         /\ place[d] = "gone"
BY DEF Send, Fresh, HeldBy, TypeInv

(* A step that lets no invocation newly delete, keeps live messages and    *)
(* only adds outcomes keeps every event carried on.                        *)
LEMMA NothingNewDoomed ==
  ASSUME DlqInv,
         \A c \in Copy : place[c] # "gone" =>
           place'[c] # "gone" /\ event'[c] = event[c],
         \A h \in Invocation : pc'[h] = "delete" =>
           pc[h] = "delete" /\ current'[h] = current[h],
         done \subseteq done', archived \subseteq archived',
         alerted \subseteq alerted'
  PROVE  CarriedOn'
BY DEF DlqInv, CarriedOn, Safe, Doomed

(* Deleting a message that was handled, and leaving the "delete" step,     *)
(* keeps every event carried on: the message was not what kept it safe.    *)
LEMMA DeletionIsSafe ==
  ASSUME DlqInv, NEW h \in Invocation, pc[h] = "delete",
         place' \in {place, [place EXCEPT ![current[h]] = "gone"]},
         \A g \in Invocation : pc'[g] = "delete" =>
           pc[g] = "delete" /\ current'[g] = current[g],
         UNCHANGED <<event, outcomes>>
  PROVE  CarriedOn'
<1> USE DEF DlqInv
<1> SUFFICES ASSUME NEW e \in Event, Safe(e) PROVE Safe(e)'
  BY DEF CarriedOn, outcomes
<1>1. PICK x \in Copy : place[x] # "gone" /\ event[x] = e /\ ~Doomed(x)
  BY DEF Safe
<1>2. x # current[h]
  BY <1>1 DEF Doomed
<1>3. place'[x] = place[x]
  BY <1>2 DEF TypeInv
<1> QED
  BY <1>1, <1>3 DEF Safe, Doomed

(* Every step keeps the strengthened invariant.                            *)
LEMMA NextKeepsInv == DlqInv /\ [Next]_vars => DlqInv'
<1> SUFFICES ASSUME DlqInv, [Next]_vars PROVE DlqInv'
  OBVIOUS
<1> USE DEF DlqInv
<1>1. ASSUME NEW c \in Copy, Consume(c) PROVE DlqInv'
  <2>1. TypeInv' /\ AlertInv'
    BY <1>1 DEF Consume, TypeInv, AlertInv, invocations
  <2>2. CarriedOn'
    <3> SUFFICES ASSUME NEW e \in Event, Safe(e), e \notin done'
                 PROVE  Safe(e)'
      BY <1>1 DEF CarriedOn, Consume
    <3>1. PICK x \in Copy : place[x] # "gone" /\ event[x] = e /\ ~Doomed(x)
      BY DEF Safe
    <3>2. x # c
      BY <1>1, <3>1 DEF Consume
    <3> QED
      BY <1>1, <3>1, <3>2 DEF Consume, Safe, Doomed, TypeInv, invocations
  <2> QED
    BY <2>1, <2>2
<1>2. ASSUME NEW c \in Copy, DeadLetter(c) \/ Expire(c) PROVE DlqInv'
  <2>1. TypeInv' /\ AlertInv'
    BY <1>2 DEF DeadLetter, Expire, TypeInv, AlertInv, invocations, outcomes
  <2> QED
    BY <1>2, <2>1, NothingNewDoomed
       DEF DeadLetter, Expire, TypeInv, invocations, outcomes
<1>3. ASSUME NEW h \in Invocation, Trigger(h) \/ EndDrain(h) PROVE DlqInv'
  <2>1. TypeInv' /\ AlertInv'
    BY <1>3 DEF Trigger, EndDrain, TypeInv, AlertInv, copies, outcomes
  <2> QED
    BY <1>3, <2>1, NothingNewDoomed DEF Trigger, EndDrain, TypeInv, copies, outcomes
<1>4. ASSUME NEW h \in Invocation, NEW B \in SUBSET Copy, ReceiveMessages(h, B)
      PROVE  DlqInv'
  <2>1. TypeInv' /\ AlertInv'
    BY <1>4 DEF ReceiveMessages, TypeInv, AlertInv, outcomes
  <2> QED
    BY <1>4, <2>1, NothingNewDoomed DEF ReceiveMessages, TypeInv, outcomes
<1>5. ASSUME NEW h \in Invocation, NEW c \in Copy, Requeue(h, c) PROVE DlqInv'
  <2>1. PICK d \in Copy : Send(c, d)
    BY <1>5 DEF Requeue
  <2>2. c # d
    BY <1>5, <2>1, SendFacts DEF Requeue, Take
  <2>3. TypeInv'
    BY <1>5, <2>1, SendFacts DEF Requeue, Take, TypeInv
  <2>4. AlertInv'
    <3>1. \A g \in Invocation : pc'[g] = "alert" =>
            pc[g] = "alert" /\ current'[g] = current[g]
      BY <1>5 DEF Requeue, Take, TypeInv
    <3>2. \A g \in Invocation : pc'[g] = "delete" => current'[g] \in Copy
      BY <1>5 DEF Requeue, Take, TypeInv, AlertInv
    <3>3. \A g \in Invocation : current[g] \in Copy =>
            event'[current[g]] = event[current[g]]
      BY <2>1, SendFacts
    <3>4. archived' = archived
      BY <1>5 DEF Requeue, outcomes
    <3> QED
      BY <3>1, <3>2, <3>3, <3>4 DEF AlertInv
  <2>5. CarriedOn'
    <3> SUFFICES ASSUME NEW e \in Event, Safe(e) PROVE Safe(e)'
      BY <1>5 DEF CarriedOn, Requeue, outcomes
    <3>1. PICK x \in Copy : place[x] # "gone" /\ event[x] = e /\ ~Doomed(x)
      BY DEF Safe
    <3>2. CASE x # c
      <4>1. place'[x] # "gone" /\ event'[x] = e
        BY <2>1, <3>1, SendFacts
      <4>2. ~Doomed(x)'
        BY <1>5, <3>1, <3>2 DEF Requeue, Take, Doomed, TypeInv
      <4> QED
        BY <4>1, <4>2 DEF Safe
    <3>3. CASE x = c
      <4>1. place'[d] # "gone" /\ event'[d] = e
        BY <2>1, <3>1, <3>3, SendFacts
      <4>2. ~Doomed(d)'
        BY <1>5, <2>1, <2>2, SendFacts DEF Requeue, Take, Doomed, TypeInv
      <4> QED
        BY <4>1, <4>2 DEF Safe
    <3> QED
      BY <3>2, <3>3
  <2> QED
    BY <2>3, <2>4, <2>5
<1>6. ASSUME NEW h \in Invocation, NEW c \in Copy, Archive(h, c) PROVE DlqInv'
  <2>1. TypeInv'
    BY <1>6 DEF Archive, Take, TypeInv, copies
  <2>2. AlertInv'
    BY <1>6 DEF Archive, Take, TypeInv, AlertInv, copies, Classify, FirstNamed
  <2>3. CarriedOn'
    <3> SUFFICES ASSUME NEW e \in Event, Safe(e),
                        ~(e \in archived' /\ (Classify(e) = "UNKNOWN" => e \in alerted'))
                 PROVE  Safe(e)'
      BY <1>6 DEF CarriedOn, Archive
    <3>1. PICK x \in Copy : place[x] # "gone" /\ event[x] = e /\ ~Doomed(x)
      BY DEF Safe
    <3>2. ~Doomed(x)'
      <4> SUFFICES ASSUME NEW g \in Invocation, pc'[g] = "delete", current'[g] = x
                   PROVE  FALSE
        BY DEF Doomed
      <4>1. g = h /\ x = c /\ Classify(event[c]) = "PERMANENT"
        BY <1>6, <3>1 DEF Archive, Take, Doomed, TypeInv
      <4> QED
        BY <1>6, <3>1, <4>1 DEF Archive
    <3> QED
      BY <1>6, <3>1, <3>2 DEF Archive, Safe, copies
  <2> QED
    BY <2>1, <2>2, <2>3
<1>7. ASSUME NEW h \in Invocation, Alert(h) PROVE DlqInv'
  <2>1. TypeInv' /\ AlertInv'
    BY <1>7 DEF Alert, TypeInv, AlertInv, copies
  <2>2. CarriedOn'
    <3> SUFFICES ASSUME NEW e \in Event, Safe(e), e # event[current[h]]
                 PROVE  Safe(e)'
      BY <1>7 DEF CarriedOn, Alert, AlertInv
    <3>1. PICK x \in Copy : place[x] # "gone" /\ event[x] = e /\ ~Doomed(x)
      BY DEF Safe
    <3>2. ~Doomed(x)'
      BY <1>7, <3>1 DEF Alert, Doomed, TypeInv
    <3> QED
      BY <1>7, <3>1, <3>2 DEF Alert, Safe, copies
  <2> QED
    BY <2>1, <2>2
<1>8. ASSUME NEW h \in Invocation, NEW c \in Copy, ProcessingFails(h, c)
      PROVE  DlqInv'
  <2>1. \/ UNCHANGED copies
        \/ \E d \in Copy : Send(c, d)
    BY <1>8 DEF ProcessingFails, copies
  <2>2. TypeInv' /\ \A x \in Copy : place[x] # "gone" =>
                      place'[x] # "gone" /\ event'[x] = event[x]
    BY <1>8, <2>1, SendFacts DEF ProcessingFails, Take, TypeInv, copies
  <2>3. \A g \in Invocation : pc'[g] # "drain" =>
          pc'[g] = pc[g] /\ current'[g] = current[g]
    BY <1>8 DEF ProcessingFails, Take, TypeInv
  <2>4. archived \subseteq archived' /\ UNCHANGED <<done, alerted>>
    BY <1>8 DEF ProcessingFails
  <2>5. \A g \in Invocation : current[g] \in Copy => event'[current[g]] = event[current[g]]
    BY <2>1, SendFacts DEF copies
  <2>6. AlertInv'
    BY <2>3, <2>4, <2>5 DEF AlertInv, TypeInv
  <2> QED
    BY <2>2, <2>3, <2>4, <2>6, NothingNewDoomed
<1>9. ASSUME NEW h \in Invocation, AlertFails(h) PROVE DlqInv'
  <2>1. TypeInv' /\ AlertInv'
    BY <1>9 DEF AlertFails, TypeInv, AlertInv, copies
  <2> QED
    BY <1>9, <2>1, NothingNewDoomed DEF AlertFails, TypeInv, copies
<1>10. ASSUME NEW h \in Invocation, DeleteMessage(h) \/ DeleteFails(h)
       PROVE  DlqInv'
  <2>1. TypeInv'
    BY <1>10 DEF DeleteMessage, DeleteFails, Abandon, TypeInv, AlertInv
  <2>2. \A g \in Invocation : pc'[g] \in {"alert", "delete"} =>
          pc'[g] = pc[g] /\ current'[g] = current[g]
    BY <1>10 DEF DeleteMessage, DeleteFails, Abandon, TypeInv
  <2>3. UNCHANGED <<event, archived>>
    BY <1>10 DEF DeleteMessage, DeleteFails, Abandon, outcomes
  <2>4. AlertInv'
    BY <2>2, <2>3 DEF AlertInv
  <2> QED
    BY <1>10, <2>1, <2>4, DeletionIsSafe DEF DeleteMessage, DeleteFails, Abandon, TypeInv
<1>11. ASSUME NEW h \in Invocation, Crash(h) PROVE DlqInv'
  <2>1. TypeInv' /\ AlertInv'
    BY <1>11 DEF Crash, Abandon, TypeInv, AlertInv, outcomes
  <2> QED
    BY <1>11, <2>1, NothingNewDoomed DEF Crash, Abandon, TypeInv, outcomes
<1>12. CASE UNCHANGED vars
  BY <1>12 DEF vars, copies, invocations, outcomes, TypeInv, AlertInv, CarriedOn,
               Safe, Doomed
<1> QED
  BY <1>1, <1>2, <1>3, <1>4, <1>5, <1>6, <1>7, <1>8, <1>9, <1>10, <1>11, <1>12
     DEF Next, Work

(* The strengthened invariant holds throughout.                            *)
LEMMA DlqInvHolds == Spec => []DlqInv
BY InitSafe, NextKeepsInv, PTL DEF Spec

(* No event is lost by the dlq-handler, however its invocations overlap,   *)
(* fail, time out or are cut short by the visibility timeout.              *)
THEOREM NoEventVanishes == Spec => []NothingVanishes
<1>1. DlqInv => NothingVanishes
  BY DlqInvSuffices
<1> QED
  BY <1>1, DlqInvHolds, PTL

(* An unclassifiable event leaves the queues only archived and alerted.    *)
THEOREM UnknownAlwaysReported == Spec => []UnknownIsReported
<1>1. DlqInv => UnknownIsReported
  BY DlqInvSuffices
<1> QED
  BY <1>1, DlqInvHolds, PTL

-----------------------------------------------------------------------------
(* Types and delays.  That a drain stays within its limit rests on what it *)
(* has received and not yet handled; that the delays grow, on the delay of *)
(* a message being the one that belongs to its attempt_count.              *)

BatchFits ==
  \A h \in Invocation : Cardinality(batch[h]) + processed[h] <= MaxMessages

DelayInv ==
  \A c \in Copy :
    \/ attempts[c] = None /\ delay[c] = 0
    \/ \E n \in 0..AttemptCap :
         attempts[c] = Smaller(n + 1, AttemptCap) /\ delay[c] = Delay(n)

DrainInv == TypeOK /\ BatchFits /\ DelayInv

(* Every attempt count has a delay, which SQS accepts.                     *)
LEMMA DelayFacts ==
  ASSUME NEW n \in 0..AttemptCap
  PROVE  /\ Delay(n) \in 0..MaxDelay
         /\ Delay(n) > 0 \/ Delay(n) = MaxDelay
         /\ Delay(Smaller(n + 1, AttemptCap)) > Delay(n)
              \/ Delay(Smaller(n + 1, AttemptCap)) = MaxDelay
         /\ Smaller(n + 1, AttemptCap) \in 0..AttemptCap
<1>1. /\ n \in Nat /\ Backoff[n] \in Nat /\ Backoff[n] > 0
      /\ n + 1 \in Nat /\ Backoff[n + 1] = 2 * Backoff[n]
  BY BackoffFacts
<1>2. Delay(AttemptCap) = MaxDelay
  BY BackoffFacts DEF Delay, Smaller
<1>3. CASE n + 1 <= AttemptCap
  BY <1>1, <1>3 DEF Delay, Smaller
<1>4. CASE n = AttemptCap
  <2>1. Smaller(n + 1, AttemptCap) = AttemptCap
    BY <1>1, <1>4 DEF Smaller
  <2> QED BY <1>1, <1>2, <1>4, <2>1
<1> QED BY <1>3, <1>4

(* A message sent back waits as long as belongs to its new attempt count,  *)
(* which is longer than it waited the time before, or the longest delay.   *)
LEMMA SendDelays ==
  ASSUME DrainInv, NEW c \in Copy, NEW d \in Copy, Send(c, d)
  PROVE  /\ attempts' \in [Copy -> 0..AttemptCap \cup {None}]
         /\ delay' \in [Copy -> 0..MaxDelay]
         /\ DelayInv'
         /\ delay'[d] > delay[c] \/ delay'[d] = MaxDelay
<1> USE DEF DrainInv, TypeOK
<1>1. PICK n \in AttemptCount(c) :
        /\ attempts' = [attempts EXCEPT ![d] = Smaller(n + 1, AttemptCap)]
        /\ delay' = [delay EXCEPT ![d] = Delay(n)]
  BY DEF Send
<1>2. n \in 0..AttemptCap
  BY DEF AttemptCount
<1>3. /\ Delay(n) \in 0..MaxDelay /\ Smaller(n + 1, AttemptCap) \in 0..AttemptCap
      /\ Delay(n) > 0 \/ Delay(n) = MaxDelay
  BY <1>2, DelayFacts
<1>4. DelayInv'
  <2> SUFFICES ASSUME NEW x \in Copy
               PROVE  \/ attempts'[x] = None /\ delay'[x] = 0
                      \/ \E k \in 0..AttemptCap :
                           attempts'[x] = Smaller(k + 1, AttemptCap) /\ delay'[x] = Delay(k)
    BY DEF DelayInv
  <2>1. CASE x = d
    <3>1. attempts'[d] = Smaller(n + 1, AttemptCap) /\ delay'[d] = Delay(n)
      BY <1>1
    <3> QED BY <1>2, <2>1, <3>1
  <2>2. CASE x # d
    BY <1>1, <2>2 DEF DelayInv
  <2> QED BY <2>1, <2>2
<1>5. delay'[d] > delay[c] \/ delay'[d] = MaxDelay
  <2>1. CASE attempts[c] = None
    <3>1. delay[c] = 0
      BY <2>1, DelayFacts DEF DelayInv
    <3>2. delay'[d] = Delay(n)
      BY <1>1
    <3> QED BY <1>3, <3>1, <3>2
  <2>2. CASE attempts[c] # None
    <3>1. n = attempts[c]
      BY <2>2 DEF AttemptCount
    <3>2. PICK k \in 0..AttemptCap :
            attempts[c] = Smaller(k + 1, AttemptCap) /\ delay[c] = Delay(k)
      BY <2>2 DEF DelayInv
    <3> QED
      BY <1>1, <3>1, <3>2, DelayFacts
  <2> QED
    BY <2>1, <2>2
<1> QED
  BY <1>1, <1>3, <1>4, <1>5

(* Only sending a message back changes attributes, or fills a fresh one.   *)
LEMMA OnlySendsChange ==
  ASSUME TypeInv, [Next]_vars
  PROVE  \/ /\ UNCHANGED <<attempts, delay>>
            /\ \A d \in Copy : place[d] = "gone" => place'[d] = "gone"
         \/ \E h \in Invocation, c, d \in Copy :
              /\ pc[h] = "drain" /\ c \in batch[h] \ batch'[h]
              /\ Send(c, d)
<1> USE DEF TypeInv
<1>1. ASSUME NEW h \in Invocation, NEW c \in Copy, Requeue(h, c) \/ ProcessingFails(h, c)
      PROVE  \/ UNCHANGED copies
             \/ \E d \in Copy : c \in batch[h] \ batch'[h] /\ pc[h] = "drain" /\ Send(c, d)
  BY <1>1 DEF Requeue, ProcessingFails, Take
<1>2. ASSUME NEW c \in Copy, Consume(c) \/ DeadLetter(c) \/ Expire(c)
      PROVE  /\ UNCHANGED <<attempts, delay>>
             /\ \A d \in Copy : place[d] = "gone" => place'[d] = "gone"
  BY <1>2 DEF Consume, DeadLetter, Expire
<1>3. ASSUME NEW h \in Invocation, NEW B \in SUBSET Copy, ReceiveMessages(h, B)
      PROVE  /\ UNCHANGED <<attempts, delay>>
             /\ \A d \in Copy : place[d] = "gone" => place'[d] = "gone"
  BY <1>3 DEF ReceiveMessages
<1>4. ASSUME NEW h \in Invocation, DeleteMessage(h) \/ DeleteFails(h) \/ Crash(h)
      PROVE  /\ UNCHANGED <<attempts, delay>>
             /\ \A d \in Copy : place[d] = "gone" => place'[d] = "gone"
  BY <1>4 DEF DeleteMessage, DeleteFails, Crash, Abandon
<1>5. ASSUME NEW h \in Invocation,
             \/ Trigger(h) \/ EndDrain(h) \/ Alert(h) \/ AlertFails(h)
             \/ \E c \in Copy : Archive(h, c)
      PROVE  UNCHANGED copies
  BY <1>5 DEF Trigger, EndDrain, Alert, AlertFails, Archive
<1>6. CASE UNCHANGED vars
  BY <1>6 DEF vars, copies
<1> QED
  BY <1>1, <1>2, <1>3, <1>4, <1>5, <1>6 DEF Next, Work, copies

(* Turning to a message of the batch takes it out and counts it.           *)
LEMMA TakeFits ==
  ASSUME DrainInv, NEW h \in Invocation, NEW c \in Copy,
         NEW next \in {"drain", "alert", "delete"}, Take(h, c, next)
  PROVE  /\ batch' \in [Invocation -> SUBSET Copy]
         /\ processed' \in [Invocation -> 0..MaxMessages]
         /\ pc' \in [Invocation -> {"idle", "drain", "alert", "delete"}]
         /\ current' \in [Invocation -> Copy \cup {None}]
         /\ BatchFits'
<1> USE DEF DrainInv, TypeOK
<1>1. IsFiniteSet(batch[h]) /\ c \in batch[h]
  BY FS_Subset DEF Take
<1>2. Cardinality(batch[h] \ {c}) = Cardinality(batch[h]) - 1 /\ Cardinality(batch[h]) \in Nat
      /\ Cardinality(batch[h] \ {c}) \in Nat
  BY <1>1, FS_RemoveElement, FS_CardinalityType
<1>3. processed[h] + 1 \in 0..MaxMessages
  BY <1>2 DEF BatchFits
<1>4. BatchFits'
  BY <1>2, <1>3 DEF BatchFits, Take
<1> QED
  BY <1>3, <1>4 DEF Take

(* Every step keeps types, limits and delays.                              *)
LEMMA NextKeepsDrainInv ==
  ASSUME DlqInv, DrainInv, [Next]_vars
  PROVE  DrainInv'
<1> USE DEF DrainInv
<1>1. TypeInv' /\ TypeInv /\ AlertInv
  BY NextKeepsInv DEF DlqInv
<1>2. /\ attempts' \in [Copy -> 0..AttemptCap \cup {None}]
      /\ delay' \in [Copy -> 0..MaxDelay]
      /\ DelayInv'
  BY <1>1, OnlySendsChange, SendDelays DEF TypeOK, DelayInv
<1>3. /\ done' \subseteq Event /\ archived' \subseteq Event /\ alerted' \subseteq Event
  <2> USE DEF TypeOK
  <2>1. ASSUME NEW c \in Copy, Consume(c) \/ DeadLetter(c) \/ Expire(c)
        PROVE  done' \cup archived' \cup alerted' \subseteq Event
    BY <2>1 DEF Consume, DeadLetter, Expire, outcomes
  <2>2. ASSUME NEW h \in Invocation, NEW c \in Copy,
               Requeue(h, c) \/ Archive(h, c) \/ ProcessingFails(h, c)
        PROVE  done' \cup archived' \cup alerted' \subseteq Event
    BY <2>2 DEF Requeue, Archive, ProcessingFails, outcomes
  <2>3. ASSUME NEW h \in Invocation, Alert(h) \/ AlertFails(h)
        PROVE  done' \cup archived' \cup alerted' \subseteq Event
    BY <1>1, <2>3 DEF Alert, AlertFails, AlertInv
  <2>4. ASSUME NEW h \in Invocation,
               \/ Trigger(h) \/ EndDrain(h) \/ DeleteMessage(h) \/ DeleteFails(h)
               \/ Crash(h) \/ \E B \in SUBSET Copy : ReceiveMessages(h, B)
        PROVE  UNCHANGED outcomes
    BY <2>4 DEF Trigger, EndDrain, DeleteMessage, DeleteFails, Crash, Abandon,
                ReceiveMessages, outcomes
  <2>5. CASE UNCHANGED vars
    BY <2>5 DEF vars, outcomes
  <2> QED
    BY <2>1, <2>2, <2>3, <2>4, <2>5 DEF Next, Work, outcomes
<1>4. BatchFits' /\ processed' \in [Invocation -> 0..MaxMessages]
  <2> DEFINE Goal == BatchFits' /\ processed' \in [Invocation -> 0..MaxMessages]
  <2> USE DEF TypeOK
  <2>1. CASE UNCHANGED <<batch, processed>>
    BY <2>1 DEF BatchFits
  <2>2. ASSUME NEW h \in Invocation, Trigger(h) PROVE Goal
    <3>1. Cardinality(batch[h]) <= MaxMessages
      <4>1. IsFiniteSet(batch[h])
        BY FS_Subset
      <4>2. Cardinality(batch[h]) \in Nat
        BY <4>1, FS_CardinalityType
      <4> QED BY <4>2 DEF BatchFits
    <3>2. batch' = batch /\ processed' = [processed EXCEPT ![h] = 0]
      BY <2>2 DEF Trigger
    <3>3. Cardinality(batch[h]) \in Nat
      BY FS_Subset, FS_CardinalityType
    <3> QED BY <3>1, <3>2, <3>3 DEF BatchFits
  <2>3. ASSUME NEW h \in Invocation, NEW B \in SUBSET Copy, ReceiveMessages(h, B)
        PROVE  Goal
    <3>1. Cardinality(B) \in Nat
      BY FS_Subset, FS_CardinalityType
    <3>2. Cardinality(B) <= Smaller(MaxReceive, MaxMessages - processed[h])
          /\ batch' = [batch EXCEPT ![h] = B] /\ processed' = processed
      BY <2>3 DEF ReceiveMessages
    <3>3. Cardinality(B) + processed[h] <= MaxMessages
      BY <3>1, <3>2 DEF Smaller
    <3> QED BY <3>2, <3>3 DEF BatchFits
  <2>4. ASSUME NEW h \in Invocation, NEW c \in Copy,
               Requeue(h, c) \/ Archive(h, c) \/ ProcessingFails(h, c)
        PROVE  Goal
    <3>1. PICK next \in {"drain", "alert", "delete"} : Take(h, c, next)
      BY <2>4 DEF Requeue, Archive, ProcessingFails
    <3> QED BY <3>1, TakeFits
  <2>5. ASSUME NEW h \in Invocation, DeleteFails(h) \/ Crash(h) PROVE Goal
    <3>1. batch' = [batch EXCEPT ![h] = {}] /\ processed' = processed
      BY <2>5 DEF DeleteFails, Crash, Abandon
    <3>2. Cardinality({}) = 0
      BY FS_EmptySet
    <3> QED BY <3>1, <3>2 DEF BatchFits
  <2>6. ASSUME NEW c \in Copy, Consume(c) \/ DeadLetter(c) \/ Expire(c)
        PROVE  UNCHANGED <<batch, processed>>
    BY <2>6 DEF Consume, DeadLetter, Expire, invocations
  <2>7. ASSUME NEW h \in Invocation,
               EndDrain(h) \/ Alert(h) \/ AlertFails(h) \/ DeleteMessage(h)
        PROVE  UNCHANGED <<batch, processed>>
    BY <2>7 DEF EndDrain, Alert, AlertFails, DeleteMessage
  <2>8. UNCHANGED vars => UNCHANGED <<batch, processed>>
    BY DEF vars, invocations
  <2> HIDE DEF Goal, TypeOK
  <2>9. Goal \/ UNCHANGED <<batch, processed>>
    BY <2>2, <2>3, <2>4, <2>5, <2>6, <2>7, <2>8 DEF Next, Work
  <2> QED
    BY <2>1, <2>9 DEF Goal
<1> QED
  BY <1>1, <1>2, <1>3, <1>4 DEF TypeOK, TypeInv

(* The start fits.                                                         *)
LEMMA InitFits == Init => DrainInv
<1> SUFFICES ASSUME Init PROVE DrainInv
  OBVIOUS
<1>1. TypeOK
  BY DEF Init, TypeOK
<1>2. BatchFits
  BY FS_EmptySet DEF Init, BatchFits
<1>3. DelayInv
  BY DEF Init, DelayInv
<1> QED
  BY <1>1, <1>2, <1>3 DEF DrainInv

(* The types, the limits and the delays hold throughout.                   *)
LEMMA DrainInvHolds == Spec => []DrainInv
BY InitFits, NextKeepsDrainInv, DlqInvHolds, PTL DEF Spec

(* Whatever fails, the state is one the drains can be in: in particular no *)
(* invocation handles more than its limit and no delay is longer than SQS  *)
(* accepts.                                                                *)
THEOREM TypeCorrect == Spec => []TypeOK
<1>1. DrainInv => TypeOK
  BY DEF DrainInv
<1> QED
  BY <1>1, DrainInvHolds, PTL

(* Each time an event is sent back it waits longer than the last time, up  *)
(* to the largest delay SQS accepts.                                       *)
THEOREM BackoffAlwaysGrows == Spec => BackoffGrows
<1> DEFINE Grows ==
      \A h \in Invocation, d \in Copy :
        Fresh(d) /\ place'[d] = "source" =>
          \E c \in Copy : /\ \E g \in Invocation : c \in batch[g] \ batch'[g]
                          /\ event'[d] = event[c]
                          /\ \/ delay'[d] > delay[c]
                             \/ delay'[d] = MaxDelay
<1>1. ASSUME DlqInv, DrainInv, [Next]_vars PROVE Grows
  <2> SUFFICES ASSUME NEW d \in Copy, Fresh(d), place'[d] = "source"
               PROVE  \E c \in Copy : /\ \E g \in Invocation : c \in batch[g] \ batch'[g]
                                      /\ event'[d] = event[c]
                                      /\ \/ delay'[d] > delay[c]
                                         \/ delay'[d] = MaxDelay
    OBVIOUS
  <2>1. place[d] = "gone" /\ TypeInv
    BY <1>1 DEF Fresh, DlqInv
  <2>2. PICK h \in Invocation, c \in Copy, x \in Copy :
          c \in batch[h] \ batch'[h] /\ Send(c, x)
    BY <1>1, <2>1, OnlySendsChange
  <2>3. x = d
    BY <2>1, <2>2, SendFacts
  <2>4. event'[d] = event[c]
    BY <2>1, <2>2, <2>3, SendFacts
  <2> QED
    BY <1>1, <2>2, <2>3, <2>4, SendDelays
<1>2. DlqInv /\ DrainInv /\ [Next]_vars => [Grows]_vars
  BY <1>1
<1> HIDE DEF Grows
<1>3. Spec => [][Grows]_vars
  BY <1>2, DlqInvHolds, DrainInvHolds, PTL DEF Spec
<1> QED
  BY <1>3 DEF Grows, BackoffGrows

-----------------------------------------------------------------------------
(* No event is multiplied while nothing fails.  That a second live message *)
(* of an event is about to be deleted survives only because no two         *)
(* invocations ever work on the same message: whoever holds one hides it   *)
(* from the others, and nothing makes it visible again before it is gone.  *)

HoldInv ==
  /\ \A h \in Invocation :
       /\ current[h] # None <=> pc[h] \in {"alert", "delete"}
       /\ current[h] \notin batch[h]
       /\ pc[h] = "idle" => batch[h] = {}
       /\ \A c \in Copy : c \in batch[h] \/ c = current[h] => place[c] = "held"
  /\ \A g, h \in Invocation : \A c \in Copy :
       /\ c \in batch[g] \/ c = current[g]
       /\ c \in batch[h] \/ c = current[h]
       => g = h

NoFailure == Faults \subseteq {"outage"}

(* Sending back is harmless: the other live messages of the event are all  *)
(* about to be deleted.                                                    *)
LEMMA SendMultipliesNothing ==
  ASSUME TypeInv, HoldInv, NoMultiplication,
         NEW h \in Invocation, NEW c \in Copy, NEW d \in Copy,
         Take(h, c, "delete"), Send(c, d)
  PROVE  HoldInv' /\ NoMultiplication'
<1>0. /\ \A x \in Copy : x # d => place'[x] = place[x] /\ event'[x] = event[x]
      /\ event'[d] = event[c] /\ place[d] = "gone"
      /\ \A g \in Invocation : current[g] # d /\ d \notin batch[g]
  BY SendFacts
<1> USE DEF TypeInv
<1>1. /\ pc[h] = "drain" /\ c \in batch[h] /\ c # d
      /\ pc' = [pc EXCEPT ![h] = "delete"]
      /\ batch' = [batch EXCEPT ![h] = batch[h] \ {c}]
      /\ current' = [current EXCEPT ![h] = c]
  BY <1>0 DEF Take
<1>2. HoldInv'
  BY <1>0, <1>1 DEF HoldInv
<1>3. NoMultiplication'
  <2> DEFINE Doom(x) == \E g \in Invocation : pc'[g] = "delete" /\ current'[g] = x
  <2>1. Doom(c)
    BY <1>1
  <2>2. ASSUME NEW x \in Copy, NEW g \in Invocation, pc[g] = "delete", current[g] = x
        PROVE  Doom(x)
    BY <1>1, <2>2
  <2>3. ASSUME NEW x \in Copy, x # c, x # d, place[x] # "gone", event[x] = event[c]
        PROVE  Doom(x)
    <3>1. place[c] # "gone"
      BY <1>1 DEF HoldInv
    <3>2. PICK g \in Invocation : pc[g] = "delete" /\ current[g] \in {c, x}
      BY <2>3, <3>1 DEF NoMultiplication
    <3>3. current[g] # c
      BY <1>1, <3>2 DEF HoldInv
    <3> QED BY <2>2, <3>2, <3>3
  <2> SUFFICES ASSUME NEW x \in Copy, NEW y \in Copy, x # y, event'[x] = event'[y],
                      place'[x] # "gone", place'[y] # "gone"
               PROVE  Doom(x) \/ Doom(y)
    BY DEF NoMultiplication
  <2>5. CASE x = d
    BY <1>0, <2>1, <2>3, <2>5
  <2>6. CASE y = d
    BY <1>0, <2>1, <2>3, <2>6
  <2>7. CASE x # d /\ y # d
    <3>1. PICK g \in Invocation : pc[g] = "delete" /\ current[g] \in {x, y}
      BY <1>0, <2>7 DEF NoMultiplication
    <3> QED BY <2>2, <3>1
  <2> QED BY <2>5, <2>6, <2>7
<1> QED BY <1>2, <1>3

(* Every step keeps messages apart and events single.                      *)
LEMMA NextKeepsHolds ==
  ASSUME NoFailure, DlqInv, HoldInv, NoMultiplication, [Next]_vars
  PROVE  HoldInv' /\ NoMultiplication'
<1> USE DEF TypeInv
<1>0. TypeInv /\ "aws" \notin Faults /\ "crash" \notin Faults /\ "expire" \notin Faults
  BY DEF DlqInv, NoFailure
<1>1. ASSUME NEW c \in Copy, Consume(c) \/ DeadLetter(c) \/ Expire(c)
      PROVE  HoldInv' /\ NoMultiplication'
  <2>1. /\ UNCHANGED <<event, pc, batch, current>>
        /\ \A x \in Copy : place'[x] # place[x] =>
             x = c /\ place[c] # "gone"
               /\ \A h \in Invocation : c \notin batch[h] /\ c # current[h]
    BY <1>0, <1>1 DEF Consume, DeadLetter, Expire, HoldInv, HeldBy, invocations
  <2>2. \A x \in Copy : place[x] = "gone" => place'[x] = "gone"
    BY <2>1
  <2>3. HoldInv'
    BY <2>1 DEF HoldInv
  <2>4. NoMultiplication'
    BY <2>1, <2>2 DEF NoMultiplication
  <2> QED BY <2>3, <2>4
<1>2. ASSUME NEW h \in Invocation, Trigger(h) \/ EndDrain(h)
      PROVE  HoldInv' /\ NoMultiplication'
  <2>1. /\ UNCHANGED <<place, event, batch, current>>
        /\ pc[h] \in {"idle", "drain"} /\ batch[h] = {}
        /\ \/ pc' = [pc EXCEPT ![h] = "idle"]
           \/ pc' = [pc EXCEPT ![h] = "drain"]
    BY <1>2 DEF Trigger, EndDrain, copies, HoldInv
  <2>2. HoldInv'
    <3>1. \A g \in Invocation :
            /\ pc'[g] \in {"alert", "delete"} <=> pc[g] \in {"alert", "delete"}
            /\ pc'[g] = "idle" => batch[g] = {}
      BY <1>0, <2>1 DEF HoldInv
    <3>2. UNCHANGED <<place, batch, current>>
      BY <2>1
    <3> QED BY <3>1, <3>2 DEF HoldInv
  <2>3. \A g \in Invocation : pc[g] = "delete" => pc'[g] = "delete"
    BY <1>0, <2>1
  <2>4. NoMultiplication'
    BY <2>1, <2>3 DEF NoMultiplication
  <2> QED BY <2>2, <2>4
<1>3. ASSUME NEW h \in Invocation, NEW B \in SUBSET Copy, ReceiveMessages(h, B)
      PROVE  HoldInv' /\ NoMultiplication'
  <2>1. /\ UNCHANGED <<event, pc, current>>
        /\ pc[h] = "drain" /\ \A c \in B : place[c] = "dlq"
        /\ place' = [c \in Copy |-> IF c \in B THEN "held" ELSE place[c]]
        /\ batch' = [batch EXCEPT ![h] = B] /\ batch[h] = {}
    BY <1>3 DEF ReceiveMessages
  <2>2. \A c \in B : \A g \in Invocation : c \notin batch[g] /\ c # current[g]
    BY <2>1 DEF HoldInv
  <2>3. HoldInv'
    BY <1>0, <2>1, <2>2 DEF HoldInv
  <2>4. \A c \in Copy : place[c] = "gone" => place'[c] = "gone"
    BY <2>1
  <2>5. NoMultiplication'
    BY <2>1, <2>4 DEF NoMultiplication
  <2> QED BY <2>3, <2>5
<1>4. ASSUME NEW h \in Invocation, NEW c \in Copy, Requeue(h, c)
      PROVE  HoldInv' /\ NoMultiplication'
  BY <1>0, <1>4, SendMultipliesNothing DEF Requeue
<1>5. ASSUME NEW h \in Invocation, NEW c \in Copy, Archive(h, c)
      PROVE  HoldInv' /\ NoMultiplication'
  <2>1. PICK next \in {"alert", "delete"} : Take(h, c, next) /\ UNCHANGED copies
    BY <1>5 DEF Archive
  <2>2. /\ pc[h] = "drain" /\ c \in batch[h]
        /\ pc' = [pc EXCEPT ![h] = next]
        /\ batch' = [batch EXCEPT ![h] = batch[h] \ {c}]
        /\ current' = [current EXCEPT ![h] = c]
        /\ UNCHANGED <<place, event>>
    BY <2>1 DEF Take, copies
  <2>3. HoldInv'
    BY <1>0, <2>2 DEF HoldInv
  <2>4. \A g \in Invocation : pc[g] = "delete" => pc'[g] = "delete" /\ current'[g] = current[g]
    BY <1>0, <2>2
  <2>5. NoMultiplication'
    BY <2>2, <2>4 DEF NoMultiplication
  <2> QED BY <2>3, <2>5
<1>6. ASSUME NEW h \in Invocation, Alert(h)
      PROVE  HoldInv' /\ NoMultiplication'
  <2>1. /\ UNCHANGED <<place, event, batch, current>>
        /\ pc[h] = "alert" /\ pc' = [pc EXCEPT ![h] = "delete"]
    BY <1>6 DEF Alert, copies
  <2>2. HoldInv'
    BY <1>0, <2>1 DEF HoldInv
  <2>3. \A g \in Invocation : pc[g] = "delete" => pc'[g] = "delete"
    BY <1>0, <2>1
  <2>4. NoMultiplication'
    BY <2>1, <2>3 DEF NoMultiplication
  <2> QED BY <2>2, <2>4
<1>7. ASSUME NEW h \in Invocation, DeleteMessage(h)
      PROVE  HoldInv' /\ NoMultiplication'
  <2>1. /\ UNCHANGED <<event, batch>> /\ pc[h] = "delete" /\ current[h] \in Copy
        /\ place' = [place EXCEPT ![current[h]] = "gone"]
        /\ pc' = [pc EXCEPT ![h] = "drain"]
        /\ current' = [current EXCEPT ![h] = None]
    BY <1>7 DEF DeleteMessage, DlqInv, AlertInv
  <2>2. HoldInv'
    BY <1>0, <2>1 DEF HoldInv
  <2>3. NoMultiplication'
    <3> SUFFICES ASSUME NEW x \in Copy, NEW y \in Copy, x # y, event'[x] = event'[y],
                        place'[x] # "gone", place'[y] # "gone"
                 PROVE  \E g \in Invocation : pc'[g] = "delete" /\ current'[g] \in {x, y}
      BY DEF NoMultiplication
    <3>1. x # current[h] /\ y # current[h] /\ place[x] # "gone" /\ place[y] # "gone"
      BY <1>0, <2>1
    <3>2. PICK g \in Invocation : pc[g] = "delete" /\ current[g] \in {x, y}
      BY <2>1, <3>1 DEF NoMultiplication
    <3> QED BY <1>0, <2>1, <3>1, <3>2
  <2> QED BY <2>2, <2>3
<1>8. CASE UNCHANGED vars
  BY <1>8 DEF vars, copies, invocations, HoldInv, NoMultiplication
<1>9. ASSUME NEW h \in Invocation, NEW c \in Copy
      PROVE  ~ProcessingFails(h, c) /\ ~AlertFails(h) /\ ~DeleteFails(h) /\ ~Crash(h)
  BY <1>0 DEF ProcessingFails, AlertFails, DeleteFails, Crash
<1>10. ASSUME NEW h \in Invocation
       PROVE  ~AlertFails(h) /\ ~DeleteFails(h) /\ ~Crash(h)
  BY <1>0 DEF AlertFails, DeleteFails, Crash
<1> QED
  BY <1>1, <1>2, <1>3, <1>4, <1>5, <1>6, <1>7, <1>8, <1>9, <1>10 DEF Next, Work

(* Nothing is held at the start, and every event has one message.          *)
LEMMA InitHolds == Init => HoldInv /\ NoMultiplication
BY DEF Init, HoldInv, NoMultiplication

(* While no call fails, no invocation dies and no visibility timeout runs  *)
(* out during the work on a message, overlapping drains stay within their  *)
(* limits and never multiply an event.                                     *)
THEOREM DrainsAlwaysSound ==
  ASSUME Faults \subseteq {"outage"}
  PROVE  Spec => []DrainsAreSound
<1>1. NoFailure
  BY DEF NoFailure
<1>2. DlqInv /\ HoldInv /\ NoMultiplication /\ [Next]_vars
        => HoldInv' /\ NoMultiplication'
  BY <1>1, NextKeepsHolds
<1>3. Spec => [](HoldInv /\ NoMultiplication)
  BY <1>2, InitHolds, DlqInvHolds, PTL DEF Spec
<1>4. TypeOK /\ HoldInv /\ NoMultiplication => DrainsAreSound
  BY DEF DrainsAreSound
<1> QED
  BY <1>3, <1>4, TypeCorrect, PTL
=============================================================================

------------------------ MODULE MailAndReportProofs ------------------------
(***************************************************************************)
(* Proofs about MailSuppression for any notifications, addresses and       *)
(* mails: the rows that are to last do, and their senders stay blocked;    *)
(* and, in the second half, about FinopsReport: what is mailed is right,   *)
(* and the success of an execution is on record.                           *)
(*                                                                         *)
(* That a row stays is not inductive, because the manager deletes by key   *)
(* what it, or an old copy of the table, showed as expired some time ago.  *)
(* The strengthening says of a row that is to last that no sweep has or    *)
(* can still read it as expired, and of a complaint that it never was.     *)
(***************************************************************************)
EXTENDS MailSuppression, FinopsReport, TLAPS

USE MailAssumption DEF Kinds, Reasons, Row, RowStates

\* A row whose last notification was for good and escapes the sweep.
Settled(r) == last[r] \in {"Permanent", "Complaint"} /\ r \notin overtaken

SettledRow(r) == Settled(r) => table[r] = "permanent" /\ ~Swept(r)

\* A row of a complaint is there or not; it never runs out.
ComplaintRow(r) ==
  r[2] = "complaint" =>
    /\ Readable(r) \subseteq {"permanent", None}
    /\ last[r] \in {"Complaint", None}
    /\ ~Swept(r) /\ r \notin overtaken

RowsInv == \A r \in Row : SettledRow(r) /\ ComplaintRow(r)

MailInv == TypeOK /\ RowsInv

(* No notification has come at the start, and no list has anything.        *)
LEMMA InitMail == Init => MailInv
<1> SUFFICES ASSUME Init PROVE MailInv
  OBVIOUS
<1>1. TypeOK
  BY DEF Init, TypeOK
<1>2. ASSUME NEW r \in Row PROVE SettledRow(r) /\ ComplaintRow(r)
  <2>1. Readable(r) = {None} /\ last[r] = None /\ r \notin overtaken /\ ~Swept(r)
    BY DEF Init, Readable, Swept
  <2> QED BY <2>1 DEF SettledRow, ComplaintRow, Settled
<1> QED
  BY <1>1, <1>2 DEF MailInv, RowsInv

-----------------------------------------------------------------------------
(* Every step keeps the types.                                             *)
LEMMA WriteTypes ==
  ASSUME TypeOK, NEW r \in Row, NEW version \in RowStates, Write(r, version)
  PROVE  table' \in [Row -> RowStates] /\ stale' \in [Row -> SUBSET RowStates]
<1>1. Readable(r) \ {version} \in SUBSET RowStates
  BY DEF Readable, TypeOK
<1> QED
  BY <1>1 DEF Write, TypeOK

LEMMA NextKeepsTypes == TypeOK /\ [Next]_vars => TypeOK'
<1> SUFFICES ASSUME TypeOK, [Next]_vars PROVE TypeOK'
  OBVIOUS
<1> USE DEF TypeOK
<1>1. ASSUME NEW r \in Row, Replicate(r) \/ Expire(r) \/ TtlDelete(r) PROVE TypeOK'
  <2>1. CASE Replicate(r)
    BY <2>1 DEF Replicate, handler, manager, inbound, history
  <2>2. CASE Expire(r)
    <3>1. {Expired(version) : version \in stale[r]} \in SUBSET RowStates
      BY DEF Expired
    <3>2. Expired(table[r]) \in RowStates
      BY DEF Expired
    <3>3. table' \in [Row -> RowStates] /\ stale' \in [Row -> SUBSET RowStates]
      BY <2>2, <3>1, <3>2 DEF Expire
    <3> QED BY <2>2, <3>3 DEF Expire, handler, manager, inbound
  <2>3. CASE TtlDelete(r)
    BY <2>3, WriteTypes DEF TtlDelete, handler, manager, inbound, history
  <2> QED BY <1>1, <2>1, <2>2, <2>3
<1>2. ASSUME NEW n \in Notice, Invoke(n) PROVE TypeOK'
  <2>1. deliveries' \in [Notice -> Nat] /\ \A k \in Notice : deliveries'[k] <= MaxDeliveries[k]
    BY <1>2 DEF Invoke
  <2>2. left' \in [Notice -> SUBSET Email]
    BY <1>2 DEF Invoke
  <2> QED BY <1>2, <2>1, <2>2 DEF Invoke, database, manager, inbound, history
<1>3. ASSUME NEW n \in Notice, HandlerRaises(n) PROVE TypeOK'
  <2>1. faults' \in 0..MaxFaults
    BY <1>3 DEF HandlerRaises, Fault
  <2>2. left' \in [Notice -> SUBSET Email]
    BY <1>3 DEF HandlerRaises
  <2> QED BY <1>3, <2>1, <2>2 DEF HandlerRaises, database, manager, inbound, history
<1>4. ASSUME NEW n \in Notice, NEW e \in Email, HandleRecipient(n, e) PROVE TypeOK'
  <2>0. <<e, ReasonOf(KindOf[n])>> \in Row
    <3>1. ReasonOf(KindOf[n]) \in Reasons
      BY DEF ReasonOf
    <3> QED BY <3>1
  <2> DEFINE r == <<e, ReasonOf(KindOf[n])>>
  <2>1. /\ Write(r, IF IsPermanent(KindOf[n]) THEN "permanent" ELSE "temporary")
        /\ last' = [last EXCEPT ![r] = KindOf[n]]
        /\ overtaken' = overtaken \cup {r} \/ overtaken' = overtaken \ {r}
    BY <1>4 DEF HandleRecipient, PutSuppressionRecord
  <2> HIDE DEF r
  <2>2. table' \in [Row -> RowStates] /\ stale' \in [Row -> SUBSET RowStates]
    BY <2>0, <2>1, WriteTypes DEF r
  <2>3. left' \in [Notice -> SUBSET Email] /\ last' \in [Row -> Kinds \cup {None}]
        /\ overtaken' \subseteq Row
    BY <1>4, <2>0, <2>1 DEF HandleRecipient, r
  <2> QED BY <1>4, <2>2, <2>3 DEF HandleRecipient, manager, inbound
<1>5. ASSUME ScanTable \/ ListSes \/ FindExpired \/ SyncEnds \/ ManagerDies PROVE TypeOK'
  BY <1>5 DEF ScanTable, ListSes, FindExpired, SyncEnds, ManagerDies, ValidRows, Found,
              MissingInSes, ExpiredRows, Fault, database, handler, inbound, history
<1>6. ASSUME NEW r \in Row, AddToSes(r) PROVE TypeOK'
  <2>1. LowerCase[r[1]] \in Email
    OBVIOUS
  <2> QED BY <1>6, <2>1 DEF AddToSes, Fault, database, handler, inbound, history
<1>7. ASSUME NEW r \in Row, DeleteExpired(r) PROVE TypeOK'
  <2>1. table' \in [Row -> RowStates] /\ stale' \in [Row -> SUBSET RowStates]
    BY <1>7, WriteTypes DEF DeleteExpired, database
  <2> QED BY <1>7, <2>1 DEF DeleteExpired, Fault, handler, inbound, history
<1>8. ASSUME NEW m \in Mail, PassUnparsed(m) \/ \E source, readable : JudgeMail(m, source, readable)
      PROVE  TypeOK'
  <2>1. decision' \in [Mail -> {"CONTINUE", "STOP_RULE_SET", None}]
    <3>1. CASE PassUnparsed(m)
      BY <3>1 DEF PassUnparsed
    <3>2. CASE \E source, readable : JudgeMail(m, source, readable)
      <4>1. PICK failed, suppressed :
              decision' = [decision EXCEPT ![m] = Disposition(failed, suppressed)]
        BY <3>2 DEF JudgeMail
      <4>2. Disposition(failed, suppressed) \in {"CONTINUE", "STOP_RULE_SET"}
        BY DEF Disposition
      <4> QED BY <4>1, <4>2
    <3> QED BY <1>8, <3>1, <3>2
  <2>2. logged' \subseteq Mail
    BY <1>8 DEF JudgeMail, PassUnparsed
  <2>3. faults' \in 0..MaxFaults
    BY <1>8 DEF JudgeMail, PassUnparsed, Fault
  <2>4. UNCHANGED <<database, ses, handler, manager, history>>
    BY <1>8 DEF JudgeMail, PassUnparsed
  <2> QED BY <2>1, <2>2, <2>3, <2>4 DEF database, handler, manager, history
<1>9. CASE UNCHANGED vars
  BY <1>9 DEF vars, database, handler, manager, inbound, history
<1> QED
  BY <1>1, <1>2, <1>3, <1>4, <1>5, <1>6, <1>7, <1>8, <1>9 DEF Next, SyncStep

-----------------------------------------------------------------------------
(* A row that a step does not write, and of which it shows nothing more to *)
(* a sweep, stays as it was.                                               *)
LEMMA RowKept ==
  ASSUME NEW r \in Row, SettledRow(r), ComplaintRow(r),
         table'[r] = table[r], Readable(r)' \subseteq Readable(r), Swept(r)' => Swept(r),
         last'[r] = last[r], r \in overtaken' <=> r \in overtaken
  PROVE  SettledRow(r)' /\ ComplaintRow(r)'
BY DEF SettledRow, ComplaintRow, Settled

(* The database changes a row: its copies catch up, its time runs out or   *)
(* it is removed.                                                          *)
LEMMA DatabaseKeepsRows ==
  ASSUME MailInv, NEW d \in Row, Replicate(d) \/ Expire(d) \/ TtlDelete(d), NEW r \in Row
  PROVE  SettledRow(r)' /\ ComplaintRow(r)'
<1> USE DEF MailInv, TypeOK
<1>0. SettledRow(r) /\ ComplaintRow(r) /\ SettledRow(d) /\ ComplaintRow(d)
  BY DEF RowsInv
<1>1. UNCHANGED <<sync, todo, last>>
  BY DEF Replicate, Expire, TtlDelete, manager, history
<1>2. CASE r # d
  <2>1. table'[r] = table[r] /\ stale'[r] = stale[r] /\ (r \in overtaken' <=> r \in overtaken)
    BY <1>2 DEF Replicate, Expire, TtlDelete, Write, history
  <2> QED
    BY <1>0, <1>1, <2>1, RowKept DEF Readable, Swept
<1>3. CASE r = d /\ Replicate(d)
  <2>1. table' = table /\ stale'[r] = {} /\ overtaken' = overtaken
    BY <1>3 DEF Replicate, history
  <2> QED
    BY <1>0, <1>1, <2>1, RowKept DEF Readable, Swept
<1>4. CASE r = d /\ Expire(d)
  <2>1. "temporary" \in Readable(d)
    BY <1>4 DEF Expire
  <2>2. r[2] # "complaint"
    BY <1>0, <1>4, <2>1 DEF ComplaintRow
  <2>3. ~Settled(r)'
    <3> SUFFICES ASSUME Settled(r)' PROVE FALSE
      OBVIOUS
    <3>1. "temporary" \notin stale[d] /\ overtaken' = overtaken
      BY <1>4 DEF Expire, Settled
    <3>2. table[d] = "temporary"
      BY <2>1, <3>1 DEF Readable
    <3>3. Settled(d)
      BY <1>1, <1>4, <3>1 DEF Settled
    <3> QED
      BY <1>0, <3>2, <3>3 DEF SettledRow
  <2> QED
    BY <2>2, <2>3 DEF SettledRow, ComplaintRow
<1>5. CASE r = d /\ TtlDelete(d)
  <2>1. Swept(d) /\ overtaken' = overtaken
    BY <1>5 DEF TtlDelete, Swept, Readable, history
  <2>2. ~Settled(r)' /\ r[2] # "complaint"
    BY <1>0, <1>1, <1>5, <2>1 DEF SettledRow, ComplaintRow, Settled
  <2> QED
    BY <2>2 DEF SettledRow, ComplaintRow
<1> QED
  BY <1>2, <1>3, <1>4, <1>5

(* A notification writes a row; for good, unless it is softer.             *)
LEMMA HandlerKeepsRows ==
  ASSUME MailInv, NEW n \in Notice, NEW e \in Email, HandleRecipient(n, e), NEW r \in Row
  PROVE  SettledRow(r)' /\ ComplaintRow(r)'
<1> USE DEF MailInv, TypeOK
<1> PICK d \in Row : d = <<e, ReasonOf(KindOf[n])>>
  BY DEF ReasonOf
<1> PICK version \in {"permanent", "temporary"} :
      version = IF IsPermanent(KindOf[n]) THEN "permanent" ELSE "temporary"
  OBVIOUS
<1>0. SettledRow(r) /\ ComplaintRow(r)
  BY DEF RowsInv
<1>1. /\ Write(d, version) /\ last' = [last EXCEPT ![d] = KindOf[n]]
      /\ overtaken' = IF Swept(d) THEN overtaken \cup {d} ELSE overtaken \ {d}
      /\ UNCHANGED <<sync, todo>>
  BY DEF HandleRecipient, PutSuppressionRecord, manager
<1>2. CASE r # d
  <2>1. table'[r] = table[r] /\ stale'[r] = stale[r] /\ (r \in overtaken' <=> r \in overtaken)
        /\ last'[r] = last[r]
    BY <1>1, <1>2 DEF Write
  <2> QED
    BY <1>0, <1>1, <2>1, RowKept DEF Readable, Swept
<1>3. CASE r = d
  <2>1. table'[r] = version /\ Readable(r)' = Readable(r) \cup {version} /\ last'[r] = KindOf[n]
    BY <1>1, <1>3 DEF Write, Readable
  <2>2. Swept(r)' <=> Swept(r)
    BY <1>1, <2>1 DEF Swept
  <2>3. r \in overtaken' <=> Swept(r)
    BY <1>1, <1>3
  <2>4. SettledRow(r)'
    BY <2>1, <2>2, <2>3 DEF SettledRow, Settled, IsPermanent
  <2>5. ComplaintRow(r)'
    <3> SUFFICES ASSUME r[2] = "complaint"
                 PROVE  /\ Readable(r)' \subseteq {"permanent", None}
                        /\ last'[r] \in {"Complaint", None}
                        /\ ~Swept(r)' /\ r \notin overtaken'
      BY DEF ComplaintRow
    <3>1. KindOf[n] = "Complaint" /\ version = "permanent"
      BY <1>3 DEF ReasonOf, IsPermanent
    <3> QED
      BY <1>0, <2>1, <2>2, <2>3, <3>1 DEF ComplaintRow
  <2> QED
    BY <2>4, <2>5
<1> QED
  BY <1>2, <1>3

(* The manager takes into its hands only what some copy shows as expired,  *)
(* and deletes only what it has there.                                     *)
LEMMA ManagerKeepsRows ==
  ASSUME MailInv, SyncStep \/ ManagerDies, NEW r \in Row
  PROVE  SettledRow(r)' /\ ComplaintRow(r)'
<1> USE DEF MailInv, TypeOK
<1>0. SettledRow(r) /\ ComplaintRow(r)
  BY DEF RowsInv
<1>1. CASE ScanTable \/ ListSes \/ SyncEnds \/ ManagerDies \/ \E d \in Row : AddToSes(d)
  <2>1. UNCHANGED <<table, stale, last, overtaken>> /\ sync' # "delete"
    BY <1>1 DEF ScanTable, ListSes, SyncEnds, ManagerDies, AddToSes, database, history
  <2> QED
    BY <1>0, <2>1, RowKept DEF Readable, Swept
<1>2. CASE FindExpired
  <2>1. UNCHANGED <<table, stale, last, overtaken>> /\ todo' \in Found({"expired"})
    BY <1>2 DEF FindExpired, ExpiredRows, database, history
  <2>2. r \in todo' => "expired" \in Readable(r)
    BY <2>1 DEF Found
  <2>3. Readable(r)' = Readable(r)
    BY <2>1 DEF Readable
  <2> QED
    BY <1>0, <2>1, <2>2, <2>3, RowKept DEF Swept
<1>3. ASSUME NEW d \in Row, DeleteExpired(d) PROVE SettledRow(r)' /\ ComplaintRow(r)'
  <2>1. /\ d \in todo /\ sync = "delete" /\ sync' = sync /\ todo' \subseteq todo
        /\ UNCHANGED <<last, overtaken>>
        /\ Write(d, None) \/ UNCHANGED database
    BY <1>3 DEF DeleteExpired, history
  <2>2. CASE r # d \/ UNCHANGED database
    <3>1. table'[r] = table[r] /\ stale'[r] = stale[r]
      BY <2>1, <2>2 DEF Write, database
    <3> QED
      BY <1>0, <2>1, <3>1, RowKept DEF Readable, Swept
  <2>3. CASE r = d /\ Write(d, None)
    <3>1. Swept(r)
      BY <2>1, <2>3 DEF Swept
    <3>2. ~Settled(r)' /\ r[2] # "complaint"
      BY <1>0, <2>1, <3>1 DEF SettledRow, ComplaintRow, Settled
    <3> QED
      BY <3>2 DEF SettledRow, ComplaintRow
  <2> QED
    BY <2>1, <2>2, <2>3
<1> QED
  BY <1>1, <1>2, <1>3 DEF SyncStep

(* Every step keeps the rows that are to last out of the sweep.            *)
LEMMA NextKeepsMail == MailInv /\ [Next]_vars => MailInv'
<1> SUFFICES ASSUME MailInv, [Next]_vars PROVE MailInv'
  OBVIOUS
<1>1. TypeOK'
  BY NextKeepsTypes DEF MailInv
<1>2. RowsInv'
  <2> SUFFICES ASSUME NEW r \in Row PROVE SettledRow(r)' /\ ComplaintRow(r)'
    BY DEF RowsInv
  <2>1. CASE UNCHANGED <<database, sync, todo, history>>
    <3>1. SettledRow(r) /\ ComplaintRow(r)
      BY DEF MailInv, RowsInv
    <3> QED
      BY <2>1, <3>1, RowKept DEF Readable, Swept, database, history
  <2>2. CASE \E d \in Row : Replicate(d) \/ Expire(d) \/ TtlDelete(d)
    BY <2>2, DatabaseKeepsRows
  <2>3. CASE \E n \in Notice, e \in Email : HandleRecipient(n, e)
    BY <2>3, HandlerKeepsRows
  <2>4. CASE SyncStep \/ ManagerDies
    BY <2>4, ManagerKeepsRows
  <2>5. CASE \/ \E n \in Notice : Invoke(n) \/ HandlerRaises(n)
             \/ \E m \in Mail : PassUnparsed(m) \/ \E source, readable : JudgeMail(m, source, readable)
             \/ UNCHANGED vars
    BY <2>1, <2>5 DEF Invoke, HandlerRaises, PassUnparsed, JudgeMail, manager, vars
  <2> QED
    BY <2>2, <2>3, <2>4, <2>5 DEF Next
<1> QED
  BY <1>1, <1>2 DEF MailInv

(* The strengthened invariant holds throughout.                            *)
LEMMA MailInvHolds == Spec => []MailInv
BY InitMail, NextKeepsMail, PTL DEF Spec

(* What is to last is in the table.                                        *)
LEMMA MailInvSuffices == MailInv => PermanentRecordsStay
<1> SUFFICES ASSUME MailInv, NEW e \in Email
             PROVE  /\ last[<<e, "complaint">>] # None => table[<<e, "complaint">>] = "permanent"
                    /\ Lasting(e) => table[<<e, "bounce">>] = "permanent"
  BY DEF PermanentRecordsStay
<1> PICK c \in Row : c = <<e, "complaint">>
  OBVIOUS
<1> PICK b \in Row : b = <<e, "bounce">>
  OBVIOUS
<1>1. ComplaintRow(c) /\ SettledRow(c) /\ SettledRow(b)
  BY DEF MailInv, RowsInv
<1>2. last[c] # None => table[c] = "permanent"
  BY <1>1 DEF ComplaintRow, SettledRow, Settled
<1>3. Lasting(e) => table[b] = "permanent"
  BY <1>1 DEF Lasting, SettledRow, Settled
<1> QED
  BY <1>2, <1>3

(* An address that complained keeps its row for ever, and one that bounced *)
(* for good until it bounces softly again, however the handler, the sweep, *)
(* the TTL and reads of old copies interleave, unless the row still looked *)
(* expired to a sweep when it was written.                                 *)
THEOREM PermanentRecordsAlwaysStay == Spec => []PermanentRecordsStay
BY MailInvSuffices, MailInvHolds, PTL

-----------------------------------------------------------------------------
(* A sender that bounced for good is let through only while a copy of the  *)
(* table lacks its row, the table cannot be read, or the event of its mail *)
(* cannot be parsed.                                                       *)
THEOREM SendersAlwaysBlocked == Spec => SendersStayBlocked
<1> DEFINE Blocked ==
      \A m \in Mail, e \in Email :
        Lasting(e) /\ None \notin stale[<<e, "bounce">>] /\ JudgeMail(m, e, TRUE)
          => decision'[m] = "STOP_RULE_SET"
<1>1. MailInv => Blocked
  <2> SUFFICES ASSUME MailInv, NEW m \in Mail, NEW e \in Email, Lasting(e),
                      None \notin stale[<<e, "bounce">>], JudgeMail(m, e, TRUE)
               PROVE  decision'[m] = "STOP_RULE_SET"
    OBVIOUS
  <2>1. table[<<e, "bounce">>] = "permanent"
    BY MailInvSuffices DEF PermanentRecordsStay
  <2>2. None \notin Readable(<<e, "bounce">>)
    BY <2>1 DEF Readable
  <2>3. e # None
    BY <2>2
  <2>4. \A listed \in OnSuppressionList(e) : listed = TRUE
    BY <2>2 DEF OnSuppressionList
  <2>5. PICK failed \in BOOLEAN :
          decision' = [decision EXCEPT ![m] = Disposition(failed, TRUE)]
    BY <2>4 DEF JudgeMail
  <2>6. decision' = [decision EXCEPT ![m] = "STOP_RULE_SET"]
    BY <2>5 DEF Disposition
  <2> QED
    BY <2>6 DEF MailInv, TypeOK
<1> HIDE DEF Blocked
<1>2. Spec => [][Blocked]_vars
  BY <1>1, MailInvHolds, PTL DEF Spec
<1> QED
  BY <1>2 DEF Blocked, SendersStayBlocked

(* Every variable keeps its type, whatever fails or dies.                  *)
THEOREM TypeCorrect == Spec => []TypeOK
<1>1. MailInv => TypeOK
  BY DEF MailInv
<1> QED
  BY <1>1, MailInvHolds, PTL

-----------------------------------------------------------------------------
(* The monthly cost report, FinopsReport, for any executions, bills and    *)
(* requests.  The row of a success is its own because its key names the    *)
(* execution, and its numbers are right because each state leaves the row  *)
(* in agreement with the payload it hands on; the page of a month has one  *)
(* name for all its executions, so what it shows can be told only of an    *)
(* execution that had no other of its month beside it.                     *)

Fields == {"row", "month", "current", "prev", "anomalies", "risk"}
RowFields == {"status", "current", "prev", "count", "high", "risk"}

AfterReport == {"FormatHTMLReport", "SendSnsNotification", "succeeded"}
AfterDetection == AfterReport \cup {"GenerateAIReport"}
AfterCollection == AfterDetection \cup {"DetectAnomalies"}
States == AfterCollection \cup {"none", "CollectCostData", "failed"}

\* The Lambda of the state has come as far as one of the positions in past, or
\* the execution is in a state of later.
Reached(e, state, past, later) == (at[e] = state /\ pc[e] \in past) \/ at[e] \in later

Collected(e) == Reached(e, "CollectCostData", {"record", "return"}, AfterCollection)
Saved(e) == Reached(e, "CollectCostData", {"return"}, AfterCollection)

\* What an execution hands on is about its month, under a key of its own.
PayloadInv(e) ==
  Collected(e) =>
    /\ DOMAIN payload[e] = Fields
    /\ payload[e].month = TargetMonth(e)
    /\ \E n \in Nat : payload[e].row = <<TargetMonth(e), e, n>>
    /\ payload[e].current.period = MonthBoundaries(TargetMonth(e)).current
    /\ payload[e].prev.period = MonthBoundaries(TargetMonth(e)).prev

\* The row follows the payload.
RowInv(e) ==
  LET p == payload[e]
  IN  /\ Saved(e) =>
           /\ p.row \in DOMAIN rows /\ DOMAIN rows[p.row] = RowFields
           /\ rows[p.row].current = p.current.total /\ rows[p.row].prev = p.prev.total
      /\ Reached(e, "DetectAnomalies", {"return"}, AfterDetection) =>
           /\ rows[p.row].count = Cardinality(p.anomalies)
           /\ rows[p.row].high = HasHighSeverity(p.anomalies)
      /\ Reached(e, "GenerateAIReport", {"return"}, AfterReport) => rows[p.row].risk = p.risk
      /\ Reached(e, "SendSnsNotification", {"return"}, {"succeeded"}) =>
           rows[p.row].status = "notified"
      /\ Reached(e, "SendSnsNotification", {"record", "return"}, {"succeeded"}) =>
           \E mail \in mails : mail.message = Message(p)

\* The page of the month is that of an execution without company.
PageInv(e) ==
  Reached(e, "FormatHTMLReport", {"record", "return"}, {"SendSnsNotification"})
    /\ e \notin shared =>
      /\ payload[e].month \in DOMAIN html
      /\ html[payload[e].month] = Page(payload[e])

\* Executions of one month that run at the same time know it.
CompanyInv ==
  \A e, x \in Execution :
    e # x /\ Running(e) /\ Running(x)
      /\ TargetMonth(e) = TargetMonth(x) => e \in shared

ReportTypes ==
  /\ asked \in Requests
  /\ at \in [Execution -> States]
  /\ pc \in [Execution -> {"run", "record", "except", "return"}]
  /\ tries \in [Execution -> 0..MaxAttempts]
  /\ shared \subseteq Execution
  /\ payload = [e \in Execution |-> payload[e]]

OwnInv(e) ==
  /\ at[e] = "none" => pc[e] = "run"
  /\ PayloadInv(e) /\ RowInv(e) /\ PageInv(e)

ReportInv ==
  /\ ReportTypes
  /\ \A e \in Execution : OwnInv(e)
  /\ CompanyInv
  /\ MailsAreRight

(* At the start no execution has a payload and nothing was mailed.         *)
LEMMA InitReport == ReportInit => ReportInv
<1> SUFFICES ASSUME ReportInit PROVE ReportInv
  OBVIOUS
<1> USE DEF ReportInit
<1>1. MaxAttempts \in Nat
  BY FinopsAssumption
<1>2. ReportTypes
  BY <1>1 DEF ReportTypes, States
<1>3. \A e \in Execution : OwnInv(e)
  BY DEF OwnInv, PayloadInv, RowInv, PageInv, Collected, Saved, Reached, AfterCollection,
         AfterDetection, AfterReport
<1>4. CompanyInv
  BY DEF CompanyInv, Running
<1>5. MailsAreRight
  BY DEF MailsAreRight
<1> QED BY <1>2, <1>3, <1>4, <1>5 DEF ReportInv

-----------------------------------------------------------------------------
(* The state after each of the five.                                       *)
LEMMA StateAfter ==
  /\ Order[NextState("CollectCostData")] = "DetectAnomalies"
  /\ Order[NextState("DetectAnomalies")] = "GenerateAIReport"
  /\ Order[NextState("GenerateAIReport")] = "FormatHTMLReport"
  /\ Order[NextState("FormatHTMLReport")] = "SendSnsNotification"
  /\ Order[NextState("SendSnsNotification")] = "succeeded"
<1> DEFINE order == Order
<1>0. /\ Len(order) = 6 /\ order[1] = "CollectCostData" /\ order[2] = "DetectAnomalies"
      /\ order[3] = "GenerateAIReport" /\ order[4] = "FormatHTMLReport"
      /\ order[5] = "SendSnsNotification" /\ order[6] = "succeeded"
  BY DEF Order
<1> HIDE DEF order
<1>1. ASSUME NEW state, NEW i \in 2..6, order[i - 1] = state,
             \A j \in 2..6 : order[j - 1] = state => j = i
      PROVE  NextState(state) = i
  BY <1>0, <1>1 DEF NextState, order
<1>2. NextState("CollectCostData") = 2
  BY <1>0, <1>1
<1>3. NextState("DetectAnomalies") = 3
  BY <1>0, <1>1
<1>4. NextState("GenerateAIReport") = 4
  BY <1>0, <1>1
<1>5. NextState("FormatHTMLReport") = 5
  BY <1>0, <1>1
<1>6. NextState("SendSnsNotification") = 6
  BY <1>0, <1>1
<1> QED BY <1>0, <1>2, <1>3, <1>4, <1>5, <1>6 DEF order

(* A step of one execution leaves what is another's alone: it writes to    *)
(* the row and the page its own payload names.                             *)
LEMMA StepOfOne ==
  ASSUME ReportTypes, NEW x \in Execution, StartExecution(x) \/ Progress(x)
  PROVE  /\ asked' = asked /\ mails \subseteq mails' /\ shared \subseteq shared'
         /\ \A e \in Execution \ {x} :
              at'[e] = at[e] /\ pc'[e] = pc[e] /\ payload'[e] = payload[e]
         /\ \/ rows' = rows
            \/ Collected(x) /\ \E v : rows' = Put(rows, payload[x].row, v)
         /\ \/ html' = html
            \/ at[x] = "FormatHTMLReport" /\ pc[x] = "run"
               /\ html' = Put(html, payload[x].month, Page(payload[x]))
<1> USE DEF ReportTypes, Step, SetPayload, Fail, objects,
        UpdateRow, Collected, Reached, AfterCollection, AfterDetection, AfterReport
<1>1. CASE StartExecution(x)
  BY <1>1 DEF StartExecution
<1>2. CASE Collect(x) \/ SaveHistory(x)
  BY <1>2 DEF Collect, SaveHistory
<1>3. CASE DetectAnomalies(x) \/ RecordAnomalies(x)
  BY <1>3 DEF DetectAnomalies, RecordAnomalies
<1>4. CASE GenerateAIReport(x) \/ RecordAIReport(x)
  BY <1>4 DEF GenerateAIReport, RecordAIReport
<1>5. CASE FormatHTMLReport(x) \/ RecordHTMLReport(x)
  BY <1>5 DEF FormatHTMLReport, RecordHTMLReport
<1>6. CASE Publish(x) \/ RecordNotified(x) \/ NotifierGetsError(x)
  BY <1>6 DEF Publish, RecordNotified, NotifierGetsError
<1>7. CASE RecordNotifyFailed(x)
  BY <1>7 DEF RecordNotifyFailed
<1>8. CASE LambdaReturns(x)
  BY <1>8 DEF LambdaReturns
<1>9. CASE LambdaUnanswered(x) \/ LambdaRaises(x)
  BY <1>9 DEF LambdaUnanswered, LambdaRaises, Retry
<1> QED
  BY <1>1, <1>2, <1>3, <1>4, <1>5, <1>6, <1>7, <1>8, <1>9
     DEF Progress, LambdaSteps

(* An execution keeps its clauses while its own state, the row it has and  *)
(* the page it counts on stay.                                             *)
LEMMA OwnKept ==
  ASSUME NEW e, OwnInv(e), asked' = asked, mails \subseteq mails',
         at'[e] = at[e], pc'[e] = pc[e], payload'[e] = payload[e], shared \subseteq shared',
         Saved(e) /\ payload[e].row \in DOMAIN rows =>
           payload[e].row \in DOMAIN rows' /\ rows'[payload[e].row] = rows[payload[e].row],
         Collected(e) /\ Running(e) /\ e \notin shared /\ payload[e].month \in DOMAIN html =>
           payload[e].month \in DOMAIN html' /\ html'[payload[e].month] = html[payload[e].month]
  PROVE  OwnInv(e)'
<1> USE DEF OwnInv, Collected, Saved, Reached, AfterCollection, AfterDetection, AfterReport
<1>1. TargetMonth(e)' = TargetMonth(e)
  BY DEF TargetMonth, MonthBefore
<1>2. PayloadInv(e)'
  BY <1>1 DEF PayloadInv, MonthBoundaries, MonthBefore, MonthAfter
<1>3. RowInv(e)'
  BY DEF RowInv, Message, HasHighSeverity
<1>4. PageInv(e)'
  <2>1. Page(payload[e])' = Page(payload[e])
    BY DEF Page, ServicesSection, AnomalySection
  <2> QED BY <2>1 DEF PageInv, Running, Closed
<1> QED BY <1>2, <1>3, <1>4

(* The clauses of the others outlive the step of one: rows carry the name  *)
(* of their execution, and of those that share a page all but one know.    *)
LEMMA OthersKept ==
  ASSUME ReportInv, NEW x \in Execution, StartExecution(x) \/ Progress(x),
         NEW e \in Execution, e # x
  PROVE  OwnInv(e)'
<1> USE DEF ReportInv
<1>1. /\ asked' = asked /\ mails \subseteq mails' /\ shared \subseteq shared'
      /\ at'[e] = at[e] /\ pc'[e] = pc[e] /\ payload'[e] = payload[e]
      /\ \/ rows' = rows
         \/ Collected(x) /\ \E v : rows' = Put(rows, payload[x].row, v)
      /\ \/ html' = html
         \/ at[x] = "FormatHTMLReport" /\ pc[x] = "run"
            /\ html' = Put(html, payload[x].month, Page(payload[x]))
  BY StepOfOne
<1>2. OwnInv(e) /\ OwnInv(x)
  OBVIOUS
<1>3. ASSUME Saved(e), payload[e].row \in DOMAIN rows
      PROVE  payload[e].row \in DOMAIN rows' /\ rows'[payload[e].row] = rows[payload[e].row]
  <2>1. CASE rows' = rows
    BY <1>3, <2>1
  <2>2. CASE Collected(x) /\ \E v : rows' = Put(rows, payload[x].row, v)
    <3>1. Collected(e)
      BY <1>3 DEF Saved, Collected, Reached
    <3>2. payload[e].row # payload[x].row
      BY <1>2, <2>2, <3>1 DEF OwnInv, PayloadInv
    <3>3. PICK v : rows' = Put(rows, payload[x].row, v)
      BY <2>2
    <3> QED BY <1>3, <3>2, <3>3 DEF Put
  <2> QED BY <1>1, <2>1, <2>2
<1>4. ASSUME Collected(e), Running(e), e \notin shared, payload[e].month \in DOMAIN html
      PROVE  payload[e].month \in DOMAIN html' /\ html'[payload[e].month] = html[payload[e].month]
  <2>1. CASE html' = html
    BY <1>4, <2>1
  <2>2. CASE /\ at[x] = "FormatHTMLReport" /\ pc[x] = "run"
             /\ html' = Put(html, payload[x].month, Page(payload[x]))
    <3>1. Running(x)
      BY <2>2 DEF Running, Closed
    <3>2. payload[x].month = TargetMonth(x) /\ payload[e].month = TargetMonth(e)
      BY <1>2, <1>4, <2>2 DEF OwnInv, PayloadInv, Collected, Reached, AfterCollection,
                              AfterDetection, AfterReport
    <3>3. payload[x].month # payload[e].month
      BY <1>4, <3>1, <3>2 DEF CompanyInv
    <3> QED BY <1>4, <2>2, <3>3 DEF Put
  <2> QED BY <1>1, <2>1, <2>2
<1> HIDE DEF ReportInv
<1> QED BY <1>1, <1>2, <1>3, <1>4, OwnKept

-----------------------------------------------------------------------------
(* The types hold, whatever is raised or lost.                             *)
LEMMA ReportTypesStep ==
  ASSUME ReportTypes, NEW x \in Execution,
         StartExecution(x) \/ Progress(x)
  PROVE  ReportTypes'
<1>0. MaxAttempts \in Nat
  BY FinopsAssumption
<1> USE DEF ReportTypes, Step, SetPayload, Fail, States, AfterCollection,
        AfterDetection, AfterReport
<1>1. CASE StartExecution(x)
  <2>1. at' \in [Execution -> States]
    BY <1>1 DEF StartExecution, Order
  <2>2. shared' \subseteq Execution
    BY <1>1 DEF StartExecution
  <2> QED BY <1>1, <2>1, <2>2 DEF StartExecution
<1>2. CASE Collect(x) \/ SaveHistory(x)
  <2>1. CASE Collect(x)
    BY <2>1 DEF Collect
  <2>2. CASE SaveHistory(x)
    BY <2>2 DEF SaveHistory
  <2> QED BY <1>2, <2>1, <2>2
<1>3. CASE DetectAnomalies(x) \/ RecordAnomalies(x)
  <2>1. CASE DetectAnomalies(x)
    BY <2>1 DEF DetectAnomalies
  <2>2. CASE RecordAnomalies(x)
    BY <2>2 DEF RecordAnomalies
  <2> QED BY <1>3, <2>1, <2>2
<1>4. CASE GenerateAIReport(x) \/ RecordAIReport(x)
  <2>1. CASE GenerateAIReport(x)
    BY <2>1 DEF GenerateAIReport
  <2>2. CASE RecordAIReport(x)
    BY <2>2 DEF RecordAIReport
  <2> QED BY <1>4, <2>1, <2>2
<1>5. CASE FormatHTMLReport(x) \/ RecordHTMLReport(x)
  <2>1. CASE FormatHTMLReport(x)
    BY <2>1 DEF FormatHTMLReport
  <2>2. CASE RecordHTMLReport(x)
    BY <2>2 DEF RecordHTMLReport
  <2> QED BY <1>5, <2>1, <2>2
<1>6. CASE Publish(x) \/ RecordNotified(x) \/ NotifierGetsError(x)
  BY <1>6 DEF Publish, RecordNotified, NotifierGetsError
<1>f. ASSUME Fail(x), asked' = asked, shared' = shared PROVE ReportTypes'
  <2>1. at' \in [Execution -> States]
    BY <1>f
  <2>2. pc' \in [Execution -> {"run", "record", "except", "return"}]
    BY <1>f
  <2>3. tries' \in [Execution -> 0..MaxAttempts]
    BY <1>0, <1>f
  <2>4. payload' = [e \in Execution |-> payload'[e]]
    BY <1>f
  <2> QED BY <1>f, <2>1, <2>2, <2>3, <2>4
<1> HIDE DEF Fail
<1>7. CASE RecordNotifyFailed(x)
  BY <1>7, <1>f DEF RecordNotifyFailed
<1>8. CASE LambdaReturns(x)
  <2>1. Order[NextState(at[x])] \in States
    BY <1>8, StateAfter DEF LambdaReturns, Running, Closed
  <2>2. at' \in [Execution -> States]
    BY <1>8, <2>1 DEF LambdaReturns
  <2> QED BY <1>0, <1>8, <2>2 DEF LambdaReturns
<1>9. CASE LambdaUnanswered(x) \/ LambdaRaises(x)
  <2>1. CASE Fail(x)
    BY <1>9, <1>f, <2>1 DEF LambdaUnanswered, LambdaRaises
  <2>2. CASE /\ tries[x] < MaxAttempts /\ tries' = [tries EXCEPT ![x] = @ + 1]
             /\ pc' = [pc EXCEPT ![x] = "run"]
             /\ UNCHANGED <<asked, at, payload, shared>>
    BY <1>0, <2>2
  <2> QED BY <1>9, <2>1, <2>2 DEF LambdaUnanswered, LambdaRaises, Retry
<1> QED
  BY <1>1, <1>2, <1>3, <1>4, <1>5, <1>6, <1>7, <1>8, <1>9
     DEF Progress, LambdaSteps

-----------------------------------------------------------------------------
(* What an execution writes agrees with the payload it goes on with.       *)

(* The detector sets the count and the severity and keeps the totals.      *)
LEMMA AnomaliesRecorded ==
  ASSUME NEW e \in Execution, RecordAnomalies(e),
         payload[e].row \in DOMAIN rows, DOMAIN rows[payload[e].row] = RowFields
  PROVE  /\ payload[e].row \in DOMAIN rows' /\ DOMAIN rows'[payload[e].row] = RowFields
         /\ rows'[payload[e].row].current = rows[payload[e].row].current
         /\ rows'[payload[e].row].prev = rows[payload[e].row].prev
         /\ rows'[payload[e].row].count = Cardinality(payload[e].anomalies)
         /\ rows'[payload[e].row].high = HasHighSeverity(payload[e].anomalies)
<1> DEFINE high == HasHighSeverity(payload[e].anomalies)
           fields == [status |-> "anomaly_detected",
                      count |-> Cardinality(payload[e].anomalies), high |-> high]
<1>1. rows' = Put(rows, payload[e].row,
              [f \in DOMAIN rows[payload[e].row] |->
                 IF f \in DOMAIN fields THEN fields[f] ELSE rows[payload[e].row][f]])
  BY Zenon DEF RecordAnomalies, UpdateRow
<1> HIDE DEF high
<1>2. /\ DOMAIN fields = {"status", "count", "high"}
      /\ fields.count = Cardinality(payload[e].anomalies) /\ fields.high = high
  OBVIOUS
<1> HIDE DEF fields
<1>4. /\ payload[e].row \in DOMAIN rows'
      /\ rows'[payload[e].row] = [f \in RowFields |->
            IF f \in DOMAIN fields THEN fields[f] ELSE rows[payload[e].row][f]]
  BY <1>1 DEF Put
<1>5. rows'[payload[e].row].high = high
  BY <1>2, <1>4 DEF RowFields
<1>6. /\ DOMAIN rows'[payload[e].row] = RowFields
      /\ rows'[payload[e].row].current = rows[payload[e].row].current
      /\ rows'[payload[e].row].prev = rows[payload[e].row].prev
      /\ rows'[payload[e].row].count = Cardinality(payload[e].anomalies)
  BY <1>2, <1>4 DEF RowFields
<1> QED BY <1>4, <1>5, <1>6, Zenon DEF high

(* A step of a Lambda of e, except for the notifier.                       *)
LEMMA OwnWork ==
  ASSUME ReportTypes, NEW e \in Execution, OwnInv(e),
         \/ Collect(e) \/ SaveHistory(e)
         \/ DetectAnomalies(e) \/ RecordAnomalies(e)
         \/ GenerateAIReport(e) \/ RecordAIReport(e)
         \/ FormatHTMLReport(e) \/ RecordHTMLReport(e)
  PROVE  OwnInv(e)'
<1> USE DEF OwnInv
<1>none. at'[e] # "none"
  BY DEF Step, Collect, SaveHistory, DetectAnomalies,
         RecordAnomalies, GenerateAIReport, RecordAIReport,
         FormatHTMLReport, RecordHTMLReport
<1>0. /\ asked' = asked /\ TargetMonth(e)' = TargetMonth(e)
      /\ MonthBoundaries(TargetMonth(e))' = MonthBoundaries(TargetMonth(e))
      /\ at' = at /\ shared' = shared
  <2>1. asked' = asked /\ at' = at /\ shared' = shared
    BY DEF Step, Collect, SaveHistory, DetectAnomalies,
           RecordAnomalies, GenerateAIReport, RecordAIReport,
           FormatHTMLReport, RecordHTMLReport
  <2> QED BY <2>1 DEF TargetMonth, MonthBoundaries, MonthBefore, MonthAfter
<1> USE DEF PayloadInv, Collected, Saved, Reached, AfterCollection, AfterDetection,
        AfterReport, ReportTypes, Step, SetPayload, objects
<1>1. CASE Collect(e)
  <2>1. tries[e] \in Nat
    BY FinopsAssumption
  <2>2. at'[e] = "CollectCostData" /\ pc'[e] = "record"
    BY <1>0, <1>1 DEF Collect
  <2>3. PICK bills \in CostAndUsage :
          payload'[e] = [row |-> ReportId(e), month |-> TargetMonth(e),
             current |-> Summary(bills[1], MonthBoundaries(TargetMonth(e)).current),
             prev |-> Summary(bills[2], MonthBoundaries(TargetMonth(e)).prev),
             anomalies |-> {}, risk |-> Nothing]
    BY <1>1 DEF Collect
  <2>4. PayloadInv(e)'
    BY <1>0, <2>1, <2>3 DEF Fields, ReportId, Summary
  <2>5. RowInv(e)' /\ PageInv(e)'
    BY <2>2 DEF RowInv, PageInv
  <2> QED BY <1>none, <2>4, <2>5
<1>2. CASE SaveHistory(e)
  <2>1. at'[e] = "CollectCostData" /\ pc'[e] = "return" /\ payload' = payload
    BY <1>0, <1>2 DEF SaveHistory
  <2>2. PayloadInv(e)'
    BY <1>0, <1>2, <2>1 DEF SaveHistory
  <2>3. PageInv(e)'
    BY <2>1 DEF PageInv
  <2>4. rows' = Put(rows, payload[e].row,
                 [status |-> "collected", current |-> payload[e].current.total,
                  prev |-> payload[e].prev.total, count |-> Nothing, high |-> Nothing, risk |-> Nothing])
    BY <1>2 DEF SaveHistory
  <2>5. RowInv(e)'
    BY <2>1, <2>4 DEF RowInv, Put, RowFields
  <2> QED BY <1>none, <2>2, <2>3, <2>5
<1>3. CASE DetectAnomalies(e)
  <2>1. at'[e] = "DetectAnomalies" /\ pc'[e] = "record" /\ rows' = rows
    BY <1>0, <1>3 DEF DetectAnomalies
  <2>2. Saved(e) /\ Collected(e)
    BY <1>3 DEF DetectAnomalies
  <2>3. payload'[e] = [payload[e] EXCEPT !.anomalies = AnomalyDetection(payload[e])]
    BY <1>3 DEF DetectAnomalies
  <2>4. /\ DOMAIN payload'[e] = Fields
        /\ \A f \in Fields \ {"anomalies"} : payload'[e][f] = payload[e][f]
    BY <2>2, <2>3
  <2>5. PayloadInv(e)'
    BY <1>0, <2>2, <2>4 DEF Fields
  <2>6. RowInv(e)'
    BY <2>1, <2>2, <2>4 DEF RowInv, Fields
  <2>7. PageInv(e)'
    BY <2>1 DEF PageInv
  <2> QED BY <1>none, <2>5, <2>6, <2>7
<1>4. CASE GenerateAIReport(e)
  <2>1. at'[e] = "GenerateAIReport" /\ pc'[e] = "record" /\ rows' = rows
    BY <1>0, <1>4 DEF GenerateAIReport
  <2>2. Saved(e) /\ Collected(e) /\ at[e] = "GenerateAIReport"
    BY <1>4 DEF GenerateAIReport
  <2>3. PICK risk : payload'[e] = [payload[e] EXCEPT !.risk = risk]
    BY <1>4 DEF GenerateAIReport
  <2>4. /\ DOMAIN payload'[e] = Fields
        /\ \A f \in Fields \ {"risk"} : payload'[e][f] = payload[e][f]
    BY <2>2, <2>3
  <2>5. PayloadInv(e)'
    BY <1>0, <2>2, <2>4 DEF Fields
  <2>6. RowInv(e)'
    <3>1. HasHighSeverity(payload[e].anomalies)' = HasHighSeverity(payload[e].anomalies)
      BY <2>4 DEF Fields, HasHighSeverity
    <3> QED BY <2>1, <2>2, <2>4, <3>1 DEF RowInv, Fields
  <2>7. PageInv(e)'
    BY <2>1 DEF PageInv
  <2> QED BY <1>none, <2>5, <2>6, <2>7
<1>5. CASE FormatHTMLReport(e)
  <2>1. /\ at[e] = "FormatHTMLReport" /\ at'[e] = "FormatHTMLReport" /\ pc'[e] = "record"
        /\ rows' = rows /\ payload' = payload
        /\ html' = Put(html, payload[e].month, Page(payload[e]))
    BY <1>0, <1>5 DEF FormatHTMLReport
  <2>2. PayloadInv(e)'
    BY <1>0, <2>1
  <2>3. RowInv(e)'
    <3>1. HasHighSeverity(payload[e].anomalies)' = HasHighSeverity(payload[e].anomalies)
      BY <2>1 DEF HasHighSeverity
    <3> QED BY <2>1, <3>1 DEF RowInv
  <2>4. Page(payload[e])' = Page(payload[e])
    BY <2>1 DEF Page, ServicesSection, AnomalySection
  <2>5. PageInv(e)'
    BY <2>1, <2>4 DEF PageInv, Put
  <2> QED BY <1>none, <2>2, <2>3, <2>5
<1>6. ASSUME \/ RecordAnomalies(e) \/ RecordAIReport(e) \/ RecordHTMLReport(e)
      PROVE  /\ PayloadInv(e)' /\ payload' = payload /\ html' = html
             /\ pc'[e] = "return" /\ pc[e] = "record"
             /\ payload[e].row \in DOMAIN rows /\ DOMAIN rows[payload[e].row] = RowFields
  <2>1. /\ payload' = payload /\ html' = html /\ pc'[e] = "return" /\ pc[e] = "record"
        /\ at[e] \in {"DetectAnomalies", "GenerateAIReport", "FormatHTMLReport"}
    BY <1>6 DEF RecordAnomalies, RecordAIReport, RecordHTMLReport
  <2>2. payload[e].row \in DOMAIN rows /\ DOMAIN rows[payload[e].row] = RowFields
    BY <2>1 DEF RowInv
  <2>3. PayloadInv(e)'
    BY <1>0, <2>1
  <2> QED BY <1>none, <2>1, <2>2, <2>3
<1>7. CASE RecordAnomalies(e)
  <2>0. at[e] = "DetectAnomalies" /\ at'[e] = "DetectAnomalies"
    BY <1>0, <1>7 DEF RecordAnomalies
  <2>1. /\ payload[e].row \in DOMAIN rows' /\ DOMAIN rows'[payload[e].row] = RowFields
        /\ rows'[payload[e].row].current = rows[payload[e].row].current
        /\ rows'[payload[e].row].prev = rows[payload[e].row].prev
        /\ rows'[payload[e].row].count = Cardinality(payload[e].anomalies)
        /\ rows'[payload[e].row].high = HasHighSeverity(payload[e].anomalies)
    BY <1>6, <1>7, AnomaliesRecorded
  <2>2. RowInv(e)'
    <3>1. HasHighSeverity(payload[e].anomalies)' = HasHighSeverity(payload[e].anomalies)
      BY <1>6, <1>7, <2>0, <2>1 DEF HasHighSeverity
    <3> QED BY <1>6, <1>7, <2>0, <2>1, <3>1 DEF RowInv
  <2>3. PageInv(e)'
    BY <2>0 DEF PageInv
  <2> QED BY <1>none, <1>6, <1>7, <2>2, <2>3
<1>8. CASE RecordAIReport(e)
  <2>0. at[e] = "GenerateAIReport" /\ at'[e] = "GenerateAIReport"
    BY <1>0, <1>8 DEF RecordAIReport
  <2>1. /\ payload[e].row \in DOMAIN rows' /\ DOMAIN rows'[payload[e].row] = RowFields
        /\ \A f \in {"current", "prev", "count", "high"} :
             rows'[payload[e].row][f] = rows[payload[e].row][f]
        /\ rows'[payload[e].row].risk = payload[e].risk
    BY <1>6, <1>8 DEF RecordAIReport, UpdateRow, Put, RowFields
  <2>2. RowInv(e)'
    <3>1. HasHighSeverity(payload[e].anomalies)' = HasHighSeverity(payload[e].anomalies)
      BY <1>6, <1>8, <2>0, <2>1 DEF HasHighSeverity
    <3>2. payload' = payload /\ pc[e] = "record" /\ pc'[e] = "return"
      BY <1>6, <1>8
    <3>3. /\ rows[payload[e].row].current = payload[e].current.total
          /\ rows[payload[e].row].prev = payload[e].prev.total
          /\ rows[payload[e].row].count = Cardinality(payload[e].anomalies)
          /\ rows[payload[e].row].high = HasHighSeverity(payload[e].anomalies)
      BY <2>0 DEF RowInv
    <3> QED BY <2>0, <2>1, <3>1, <3>2, <3>3 DEF RowInv
  <2>3. PageInv(e)'
    BY <2>0 DEF PageInv
  <2> QED BY <1>none, <1>6, <1>8, <2>2, <2>3
<1>9. CASE RecordHTMLReport(e)
  <2>0. at[e] = "FormatHTMLReport" /\ at'[e] = "FormatHTMLReport"
    BY <1>0, <1>9 DEF RecordHTMLReport
  <2>1. /\ payload[e].row \in DOMAIN rows' /\ DOMAIN rows'[payload[e].row] = RowFields
        /\ \A f \in {"current", "prev", "count", "high", "risk"} :
             rows'[payload[e].row][f] = rows[payload[e].row][f]
    BY <1>6, <1>9 DEF RecordHTMLReport, UpdateRow, Put, RowFields
  <2>2. RowInv(e)'
    <3>1. HasHighSeverity(payload[e].anomalies)' = HasHighSeverity(payload[e].anomalies)
      BY <1>6, <1>9, <2>0, <2>1 DEF HasHighSeverity
    <3>2. payload' = payload /\ pc[e] = "record" /\ pc'[e] = "return"
      BY <1>6, <1>9
    <3>3. /\ rows[payload[e].row].current = payload[e].current.total
          /\ rows[payload[e].row].prev = payload[e].prev.total
          /\ rows[payload[e].row].count = Cardinality(payload[e].anomalies)
          /\ rows[payload[e].row].high = HasHighSeverity(payload[e].anomalies)
          /\ rows[payload[e].row].risk = payload[e].risk
      BY <2>0 DEF RowInv
    <3> QED BY <2>0, <2>1, <3>1, <3>2, <3>3 DEF RowInv
  <2>3. Page(payload[e])' = Page(payload[e])
    BY <1>6, <1>9 DEF Page, ServicesSection, AnomalySection
  <2>4. PageInv(e)'
    BY <1>0, <1>6, <1>9, <2>0, <2>3 DEF PageInv
  <2> QED BY <1>none, <1>6, <1>9, <2>2, <2>4
<1> QED BY <1>1, <1>2, <1>3, <1>4, <1>5, <1>7, <1>8, <1>9

(* The notifier publishes what the execution has, and marks its row.       *)
LEMMA OwnNotification ==
  ASSUME ReportTypes, NEW e \in Execution, OwnInv(e),
         Publish(e) \/ RecordNotified(e) \/ NotifierGetsError(e)
  PROVE  OwnInv(e)'
<1>0. /\ asked' = asked /\ at[e] = "SendSnsNotification" /\ at' = at /\ shared' = shared
      /\ payload' = payload /\ html' = html
      /\ TargetMonth(e)' = TargetMonth(e)
  <2>1. /\ asked' = asked /\ at[e] = "SendSnsNotification" /\ at' = at /\ shared' = shared
        /\ payload' = payload /\ html' = html
    BY DEF Step, Publish, RecordNotified, NotifierGetsError,
           objects
  <2> QED BY <2>1 DEF TargetMonth, MonthBefore
<1> USE DEF OwnInv, Collected, Saved, Reached, AfterCollection, AfterDetection, AfterReport
<1>1. PayloadInv(e)'
  BY <1>0 DEF PayloadInv, MonthBoundaries, MonthBefore, MonthAfter
<1>2. PageInv(e)'
  <2>1. Page(payload[e])' = Page(payload[e])
    BY <1>0 DEF Page, ServicesSection, AnomalySection
  <2> QED BY <1>0, <2>1 DEF PageInv
<1>3. Message(payload[e])' = Message(payload[e])
  BY <1>0 DEF Message
<1>4. CASE Publish(e)
  <2>1. rows' = rows /\ pc'[e] = "record"
    BY <1>4 DEF ReportTypes, Publish, Step
  <2>2. \E mail \in mails' : mail.message = Message(payload[e])
    <3> DEFINE alone == e \notin shared
               mail == [message |-> Message(payload[e]),
                        page |-> html[payload[e].month], alone |-> alone]
    <3>1. mail \in mails'
      BY <1>4, Zenon DEF Publish
    <3> HIDE DEF alone
    <3>2. mail.message = Message(payload[e])
      OBVIOUS
    <3> QED BY <3>1, <3>2, Zenon
  <2>3. RowInv(e)'
    <3>1. HasHighSeverity(payload[e].anomalies)' = HasHighSeverity(payload[e].anomalies)
      BY <1>0, <1>3, <2>1, <2>2 DEF HasHighSeverity
    <3> QED BY <1>0, <1>3, <2>1, <2>2, <3>1 DEF RowInv
  <2> QED BY <1>0, <1>1, <1>2, <2>3
<1>5. CASE RecordNotified(e)
  <2>1. /\ payload[e].row \in DOMAIN rows' /\ DOMAIN rows'[payload[e].row] = RowFields
        /\ \A f \in {"current", "prev", "count", "high", "risk"} :
             rows'[payload[e].row][f] = rows[payload[e].row][f]
        /\ rows'[payload[e].row].status = "notified"
    BY <1>0, <1>5 DEF RecordNotified, UpdateRow, Put, RowInv, RowFields
  <2>2. pc[e] = "record" /\ mails' = mails
    BY <1>5 DEF RecordNotified, Step
  <2>3. RowInv(e)'
    <3>1. HasHighSeverity(payload[e].anomalies)' = HasHighSeverity(payload[e].anomalies)
      BY <1>0, <1>3, <2>1, <2>2 DEF HasHighSeverity
    <3> QED BY <1>0, <1>3, <2>1, <2>2, <3>1 DEF RowInv
  <2> QED BY <1>0, <1>1, <1>2, <2>3
<1>6. CASE NotifierGetsError(e)
  <2>1. rows' = rows /\ pc'[e] = "except" /\ mails' = mails
    BY <1>6 DEF ReportTypes, NotifierGetsError, Step
  <2>2. RowInv(e)'
    <3>1. HasHighSeverity(payload[e].anomalies)' = HasHighSeverity(payload[e].anomalies)
      BY <1>0, <1>3, <2>1 DEF HasHighSeverity
    <3> QED BY <1>0, <1>3, <2>1, <3>1 DEF RowInv
  <2> QED BY <1>0, <1>1, <1>2, <2>2
<1> QED BY <1>4, <1>5, <1>6

(* What the state machine does with an execution.                          *)
LEMMA OwnTransition ==
  ASSUME ReportTypes, NEW e \in Execution, OwnInv(e),
         \/ StartExecution(e) \/ RecordNotifyFailed(e)
         \/ LambdaReturns(e) \/ LambdaUnanswered(e) \/ LambdaRaises(e)
  PROVE  OwnInv(e)'
<1> USE DEF OwnInv, Collected, Saved, Reached, AfterCollection, AfterDetection, AfterReport,
        ReportTypes
<1>1. ASSUME at'[e] = "failed" PROVE OwnInv(e)'
  BY <1>1 DEF PayloadInv, RowInv, PageInv
<1>2. CASE StartExecution(e)
  <2>1. at'[e] = "CollectCostData" /\ pc'[e] = pc[e] /\ at[e] = "none"
    BY <1>2 DEF StartExecution, Order
  <2> QED BY <2>1 DEF PayloadInv, RowInv, PageInv
<1>3. CASE RecordNotifyFailed(e)
  BY <1>1, <1>3 DEF RecordNotifyFailed, Fail
<1>4. ASSUME UNCHANGED <<asked, payload, rows, html, mails>>,
             Running(e), pc'[e] = "run",
             \/ at'[e] = at[e]
             \/ at'[e] = Order[NextState(at[e])] /\ pc[e] = "return",
             shared' = shared
      PROVE  OwnInv(e)'
  <2>0. /\ TargetMonth(e)' = TargetMonth(e)
        /\ Message(payload[e])' = Message(payload[e])
        /\ Page(payload[e])' = Page(payload[e])
    BY <1>4 DEF TargetMonth, MonthBefore, Message, Page,
                ServicesSection, AnomalySection
  <2>1. \/ at'[e] = at[e]
        \/ pc[e] = "return" /\ at[e] = "CollectCostData" /\ at'[e] = "DetectAnomalies"
        \/ pc[e] = "return" /\ at[e] = "DetectAnomalies" /\ at'[e] = "GenerateAIReport"
        \/ pc[e] = "return" /\ at[e] = "GenerateAIReport" /\ at'[e] = "FormatHTMLReport"
        \/ pc[e] = "return" /\ at[e] = "FormatHTMLReport" /\ at'[e] = "SendSnsNotification"
        \/ pc[e] = "return" /\ at[e] = "SendSnsNotification" /\ at'[e] = "succeeded"
    BY <1>4, StateAfter DEF Running, Closed, States
  <2>2. PayloadInv(e)'
    BY <1>4, <2>0, <2>1
       DEF PayloadInv, MonthBoundaries, MonthBefore, MonthAfter
  <2>3. RowInv(e)'
    <3>1. HasHighSeverity(payload[e].anomalies)' = HasHighSeverity(payload[e].anomalies)
      BY <1>4, <2>0, <2>1 DEF HasHighSeverity
    <3> QED BY <1>4, <2>0, <2>1, <3>1 DEF RowInv
  <2>4. PageInv(e)'
    BY <1>4, <2>0, <2>1 DEF PageInv
  <2>5. at'[e] # "none"
    BY <1>4, <2>1 DEF Running
  <2> QED BY <2>2, <2>3, <2>4, <2>5
<1>5. CASE LambdaReturns(e)
  BY <1>4, <1>5 DEF LambdaReturns, objects
<1>6. CASE LambdaUnanswered(e)
  <2>1. CASE at'[e] = "failed"
    BY <1>1, <2>1
  <2>2. CASE at' = at /\ payload' = payload /\ pc'[e] = "run"
    BY <1>4, <1>6, <2>2 DEF LambdaUnanswered, objects
  <2> QED BY <1>6, <2>1, <2>2 DEF LambdaUnanswered, Retry, Fail
<1>7. CASE LambdaRaises(e)
  BY <1>1, <1>7 DEF LambdaRaises, Fail
<1> QED BY <1>2, <1>3, <1>5, <1>6, <1>7

(* So every execution keeps its clauses, whoever takes a step.             *)
LEMMA OwnKeptByAll ==
  ASSUME ReportInv, NEW x \in Execution,
         StartExecution(x) \/ Progress(x), NEW e \in Execution
  PROVE  OwnInv(e)'
<1>1. CASE e # x
  BY <1>1, OthersKept
<1>2. CASE e = x
  <2>1. ReportTypes /\ OwnInv(e)
    BY DEF ReportInv
  <2>2. CASE \/ Collect(e) \/ SaveHistory(e)
             \/ DetectAnomalies(e) \/ RecordAnomalies(e)
             \/ GenerateAIReport(e) \/ RecordAIReport(e)
             \/ FormatHTMLReport(e) \/ RecordHTMLReport(e)
    BY <2>1, <2>2, OwnWork
  <2>3. CASE Publish(e) \/ RecordNotified(e) \/ NotifierGetsError(e)
    BY <2>1, <2>3, OwnNotification
  <2>4. CASE \/ StartExecution(e) \/ RecordNotifyFailed(e)
             \/ LambdaReturns(e) \/ LambdaUnanswered(e) \/ LambdaRaises(e)
    BY <2>1, <2>4, OwnTransition
  <2> QED BY <1>2, <2>2, <2>3, <2>4 DEF Progress, LambdaSteps
<1> QED BY <1>1, <1>2

-----------------------------------------------------------------------------
(* An execution that starts beside others of its month is told, and they.  *)
LEMMA CompanyKept ==
  ASSUME ReportInv, NEW x \in Execution, StartExecution(x) \/ Progress(x)
  PROVE  CompanyInv'
<1>1. /\ ReportTypes /\ CompanyInv /\ asked' = asked /\ shared \subseteq shared'
      /\ \A e \in Execution \ {x} : at'[e] = at[e]
  BY StepOfOne DEF ReportInv
<1>2. \A e : TargetMonth(e)' = TargetMonth(e)
  BY <1>1 DEF TargetMonth, MonthBefore
<1>3. \A e \in Execution \ {x} : Running(e)' <=> Running(e)
  BY <1>1 DEF Running
<1>4. CASE Progress(x)
  <2>1. Running(x)
    BY <1>4 DEF Progress, LambdaSteps, Running, Closed, Step,
         Collect, SaveHistory, DetectAnomalies, RecordAnomalies,
         GenerateAIReport, RecordAIReport, FormatHTMLReport,
         RecordHTMLReport, Publish, RecordNotified,
         NotifierGetsError, RecordNotifyFailed, LambdaReturns,
         LambdaUnanswered, LambdaRaises
  <2> QED BY <1>1, <1>2, <1>3, <2>1 DEF CompanyInv
<1>5. CASE StartExecution(x)
  <2> DEFINE others == {y \in Execution : Running(y)
                                          /\ TargetMonth(y) = TargetMonth(x)}
  <2>1. ~Running(x)
    BY <1>5 DEF StartExecution, Running
  <2>2. IF others = {} THEN shared' = shared ELSE shared' = shared \cup others \cup {x}
    BY <1>5 DEF StartExecution
  <2> SUFFICES ASSUME NEW e \in Execution, NEW y \in Execution, e # y, Running(e)',
                      Running(y)', TargetMonth(e)' = TargetMonth(y)'
               PROVE  e \in shared'
    BY DEF CompanyInv
  <2>3. TargetMonth(e) = TargetMonth(y)
    BY <1>2
  <2>4. CASE e # x /\ y # x
    BY <1>1, <1>3, <2>3, <2>4 DEF CompanyInv
  <2>5. CASE e = x
    <3>1. y \in others
      BY <1>3, <2>3, <2>5
    <3> QED BY <2>2, <2>5, <3>1
  <2>6. CASE y = x
    <3>1. e \in others
      BY <1>3, <2>3, <2>6
    <3> QED BY <2>2, <3>1
  <2> QED BY <2>4, <2>5, <2>6
<1> QED BY <1>4, <1>5

(* The months beside a month that has one before it.                       *)
LEMMA MonthsBeside ==
  ASSUME NEW d, IsTarget(d)
  PROVE  /\ IsMonth(MonthBefore(d)) /\ IsMonth(MonthAfter(d))
         /\ Index(MonthAfter(d)) = Index(d) + 1
         /\ Index(MonthBefore(d)) = Index(d) - 1
<1> USE DEF IsTarget, IsMonth
<1>1. d \in [y : Nat, m : 1..12] /\ d.y > 1
  OBVIOUS
<1>2. CASE d.m = 1
  <2>1. /\ MonthBefore(d) = [y |-> d.y - 1, m |-> 12]
        /\ MonthAfter(d) = [y |-> d.y, m |-> 2]
    BY <1>1, <1>2 DEF MonthBefore, MonthAfter
  <2> QED BY <1>1, <1>2, <2>1 DEF Index
<1>3. CASE d.m = 12
  <2>1. /\ MonthBefore(d) = [y |-> d.y, m |-> 11]
        /\ MonthAfter(d) = [y |-> d.y + 1, m |-> 1]
    BY <1>1, <1>3 DEF MonthBefore, MonthAfter
  <2> QED BY <1>1, <1>3, <2>1 DEF Index
<1>4. CASE d.m \in 2..11
  <2>1. /\ MonthBefore(d) = [y |-> d.y, m |-> d.m - 1]
        /\ MonthAfter(d) = [y |-> d.y, m |-> d.m + 1]
    BY <1>1, <1>4 DEF MonthBefore, MonthAfter
  <2> QED BY <1>1, <1>4, <2>1 DEF Index
<1> QED BY <1>1, <1>2, <1>3, <1>4

(* A mail is about the month of its execution, and its page is the one of  *)
(* that execution where no other was beside it.                            *)
LEMMA MailsKeptRight ==
  ASSUME ReportInv, NEW x \in Execution,
         StartExecution(x) \/ Progress(x)
  PROVE  MailsAreRight'
<1> DEFINE Right(mail) ==
      LET said == mail.message
      IN  /\ said.current.period.start = said.month
          /\ said.prev.period.end = said.month
          /\ Index(said.current.period.end) = Index(said.month) + 1
          /\ Index(said.prev.period.start) = Index(said.month) - 1
          /\ IsMonth(said.current.period.end) /\ IsMonth(said.prev.period.start)
          /\ mail.alone => /\ mail.page.month = said.month
                           /\ mail.page.current = said.current.total
                           /\ \A s \in DOMAIN said.current.services :
                                mail.page.services[s].cost = said.current.services[s]
                           /\ mail.page.prev = said.prev.total
                           /\ mail.page.anomalies = AnomalySection(said.anomalies)
                           /\ mail.page.risk = said.risk
<1>1. \A mail \in mails : Right(mail)
  BY DEF ReportInv, MailsAreRight
<1>2. ASSUME NEW mail \in mails', mail \notin mails PROVE Right(mail)
  <2>1. Publish(x)
    BY <1>2
       DEF StartExecution, Progress, LambdaSteps,
         Collect, SaveHistory, DetectAnomalies, RecordAnomalies,
         GenerateAIReport, RecordAIReport, FormatHTMLReport,
         RecordHTMLReport, RecordNotified,
         NotifierGetsError, RecordNotifyFailed, LambdaReturns,
         LambdaUnanswered, LambdaRaises
  <2> DEFINE p == payload[x]
             d == TargetMonth(x)
             alone == x \notin shared
  <2>2. mail = [message |-> Message(p), page |-> html[p.month], alone |-> alone]
    BY <1>2, <2>1, Zenon DEF Publish
  <2>3. at[x] = "SendSnsNotification" /\ pc[x] = "run" /\ OwnInv(x)
    BY <2>1 DEF Publish, Step, ReportInv
  <2>4. /\ p.month = d /\ p.current.period = MonthBoundaries(d).current
        /\ p.prev.period = MonthBoundaries(d).prev
    BY <2>3 DEF OwnInv, PayloadInv, Collected, Reached, AfterCollection, AfterDetection, AfterReport
  <2>5. alone => html[p.month] = Page(p)
    BY <2>3 DEF OwnInv, PageInv, Reached
  <2> HIDE DEF alone
  <2>6. /\ mail.message = Message(p) /\ mail.page = html[p.month]
        /\ mail.alone = alone
    BY <2>2
  <2>7. IsTarget(d)
    <3>1. asked \in Requests
      BY DEF ReportInv, ReportTypes
    <3>2. CASE asked[x] = Nothing
      <4>1. Today \in [y : Nat, m : 1..12] /\ Today.y > 2
        BY FinopsAssumption DEF IsMonth
      <4>2. MonthBefore(Today) \in [y : Nat, m : 1..12] /\ MonthBefore(Today).y > 1
        BY <4>1 DEF MonthBefore
      <4> QED BY <3>2, <4>2 DEF TargetMonth, IsTarget, IsMonth
    <3>3. CASE asked[x] # Nothing
      BY <3>1, <3>3, FinopsAssumption DEF TargetMonth
    <3> QED BY <3>2, <3>3
  <2> HIDE DEF p, d
  <2>8. /\ p.current.period.start = d /\ p.current.period.end = MonthAfter(d)
        /\ p.prev.period.start = MonthBefore(d) /\ p.prev.period.end = d
    BY <2>4 DEF MonthBoundaries
  <2>9. /\ Message(p).month = p.month /\ Message(p).current = p.current
        /\ Message(p).prev = p.prev /\ Message(p).anomalies = p.anomalies
        /\ Message(p).risk = p.risk
    BY DEF Message
  <2>10. mail.alone => mail.page = Page(p)
    BY <2>5, <2>6
  <2>11. /\ Page(p).month = p.month /\ Page(p).current = p.current.total
         /\ Page(p).services = ServicesSection(p.current)
         /\ Page(p).prev = p.prev.total
         /\ Page(p).anomalies = AnomalySection(p.anomalies)
         /\ Page(p).risk = p.risk
    BY DEF Page
  <2>12. \A s \in DOMAIN p.current.services :
           ServicesSection(p.current)[s].cost = p.current.services[s]
    BY DEF ServicesSection
  <2>13. IsMonth(MonthBefore(d)) /\ IsMonth(MonthAfter(d))
    BY <2>7, MonthsBeside
  <2>14. /\ Index(MonthAfter(d)) = Index(d) + 1
         /\ Index(MonthBefore(d)) = Index(d) - 1
    BY <2>7, MonthsBeside
  <2> QED BY <2>4, <2>6, <2>8, <2>9, <2>10, <2>11, <2>12, <2>13, <2>14
<1> QED BY <1>1, <1>2 DEF MailsAreRight, Index, IsMonth, AnomalySection

(* The invariant of the report holds in every state.                       *)
LEMMA ReportInvHolds ==
  ReportSpec => []ReportInv
<1>1. ReportInit => ReportInv
  BY InitReport
<1>2. ReportInv /\ [ReportNext]_reportVars => ReportInv'
  <2> SUFFICES ASSUME ReportInv, [ReportNext]_reportVars PROVE ReportInv'
    OBVIOUS
  <2>1. CASE ReportNext
    <3>1. PICK x \in Execution : StartExecution(x) \/ Progress(x)
      BY <2>1 DEF ReportNext
    <3>2. ReportTypes'
      BY <3>1, ReportTypesStep DEF ReportInv
    <3>3. \A e \in Execution : OwnInv(e)'
      BY <3>1, OwnKeptByAll
    <3>4. CompanyInv'
      BY <3>1, CompanyKept
    <3>5. MailsAreRight'
      BY <3>1, MailsKeptRight
    <3> QED BY <3>2, <3>3, <3>4, <3>5 DEF ReportInv
  <2>2. CASE UNCHANGED reportVars
    <3>1. /\ asked' = asked /\ at' = at /\ pc' = pc /\ tries' = tries /\ payload' = payload
          /\ rows' = rows /\ html' = html /\ mails' = mails /\ shared' = shared
      BY <2>2 DEF reportVars, execution, objects
    <3>2. ReportTypes'
      BY <3>1 DEF ReportInv, ReportTypes
    <3>3. \A e \in Execution : OwnInv(e)'
      BY <3>1, OwnKept DEF ReportInv
    <3>4. CompanyInv'
      BY <3>1 DEF ReportInv, CompanyInv, Running, TargetMonth, MonthBefore
    <3>5. MailsAreRight'
      BY <3>1 DEF ReportInv, MailsAreRight, Index, IsMonth,
                  AnomalySection
    <3> QED BY <3>2, <3>3, <3>4, <3>5 DEF ReportInv
  <2> QED BY <2>1, <2>2
<1> QED BY <1>1, <1>2, PTL DEF ReportSpec

(* What is mailed about a month is about that month and the one before it, *)
(* across a new year too, and links a page with the same numbers unless    *)
(* executions of the month ran side by side: MailsAreRight, for any bills, *)
(* requests and number of executions.                                      *)
THEOREM MailsAlwaysRight ==
  ReportSpec => []MailsAreRight
<1>1. ReportInv => MailsAreRight
  BY DEF ReportInv
<1> QED BY <1>1, ReportInvHolds, PTL

(* An execution that succeeds leaves a row of its own which says so, with  *)
(* the numbers of a mail that was sent: SuccessIsRecorded.                 *)
THEOREM SuccessAlwaysRecorded ==
  ReportSpec => []SuccessIsRecorded
<1>1. ReportInv => SuccessIsRecorded
  <2> SUFFICES ASSUME ReportInv, NEW e \in Execution, at[e] = "succeeded"
               PROVE  LET p == payload[e]
                          row == rows[p.row]
                      IN  /\ row.status = "notified"
                          /\ row.current = p.current.total /\ row.prev = p.prev.total
                          /\ row.count = Cardinality(p.anomalies)
                          /\ row.high = HasHighSeverity(p.anomalies)
                          /\ row.risk = p.risk
                          /\ \E mail \in mails : mail.message = Message(p)
    BY DEF SuccessIsRecorded
  <2>1. OwnInv(e)
    BY DEF ReportInv
  <2> QED BY <2>1 DEF OwnInv, RowInv, Saved, Reached, AfterCollection, AfterDetection, AfterReport
<1> QED BY <1>1, ReportInvHolds, PTL

(* The report's variables keep their types, and no state is retried more   *)
(* often than it may be.                                                   *)
THEOREM ReportTypeCorrect ==
  ReportSpec => []ReportTypeOK
<1>1. States = Closed \cup {"none"} \cup {Order[i] : i \in 1..5}
  <2>1. {Order[i] : i \in 1..5} = {"CollectCostData", "DetectAnomalies", "GenerateAIReport",
                                          "FormatHTMLReport", "SendSnsNotification"}
    BY DEF Order
  <2> QED BY <2>1 DEF States, AfterCollection, AfterDetection, AfterReport, Closed
<1>2. ReportInv => ReportTypeOK
  BY <1>1 DEF ReportInv, ReportTypes, ReportTypeOK
<1> QED BY <1>2, ReportInvHolds, PTL
=============================================================================

-------------------------- MODULE MailSuppression --------------------------
(***************************************************************************)
(* mail-infra-handson: the list of addresses that get no more mail.  SES   *)
(* tells bounce_handler of bounces and complaints through SNS; it keeps a  *)
(* row for each address and reason.  Once a day suppression_manager copies *)
(* the rows to the list of the SES account and sweeps expired ones.  The   *)
(* spam_handler looks senders of incoming mail up in the same table.  No   *)
(* reader asks for a consistent read, so each may get an older version of  *)
(* a row than the last that was written.                                   *)
(***************************************************************************)
EXTENDS Naturals

CONSTANTS
  Notice,         \* notifications of SES
  KindOf,         \* KindOf[n]: notificationType and bounceType of n
  Recipients,     \* Recipients[n]: the addresses it names
  Email,          \* addresses as they are spelled
  LowerCase,      \* LowerCase[e]: the spelling of e that the lists compare
  Mail,           \* incoming mails
  MaxDeliveries,  \* bound: MaxDeliveries[n]: invocations for n, retries and duplicates
  MaxFaults,      \* bound: calls that fail and Lambdas that die
  None

Kinds == {"Permanent", "Transient", "Undetermined", "Complaint", "Delivery"}
Reasons == {"bounce", "complaint"}

ASSUME MailAssumption ==
  /\ KindOf \in [Notice -> Kinds]
  /\ Recipients \in [Notice -> SUBSET Email]
  /\ LowerCase \in [Email -> Email]
  /\ \A e \in Email : LowerCase[LowerCase[e]] = LowerCase[e]
  /\ None \notin Email
  /\ MaxDeliveries \in [Notice -> Nat] /\ MaxFaults \in Nat
  /\ None \notin Kinds \cup {"permanent", "temporary", "expired"}

VARIABLES
  table,       \* the suppression list: <<address, reason>> -> row or None
  stale,       \* stale[r]: older versions of row r that a read may still return
  ses,         \* the list of the SES account, in lower case
  deliveries,  \* deliveries[n]: how often the handler was invoked for n
  left,        \* left[n]: recipients its invocation has not handled yet
  sync,        \* what the manager does next
  items,       \* the rows it has scanned
  todo,        \* rows it has still to copy or to delete
  decision,    \* decision[m]: what the spam handler made of mail m, or None
  logged,      \* mails in the spam log
  faults,      \* what went wrong so far
  last,        \* history: last[r]: the kind of bounce row r was last written for
  overtaken    \* history: rows a sweep may still take for expired, as they were
               \* before they were last written

database == <<table, stale>>
history == <<last, overtaken>>
handler == <<deliveries, left>>
manager == <<sync, items, todo>>
inbound == <<decision, logged>>
vars == <<database, ses, handler, manager, inbound, faults, history>>

Row == Email \X Reasons
RowStates == {"permanent", "temporary", "expired", None}

Init ==
  /\ table = [r \in Row |-> None] /\ stale = [r \in Row |-> {}]
  /\ ses = {}
  /\ deliveries = [n \in Notice |-> 0] /\ left = [n \in Notice |-> {}]
  /\ sync = "idle" /\ items = {} /\ todo = {}
  /\ decision = [m \in Mail |-> None] /\ logged = {}
  /\ faults = 0
  /\ last = [r \in Row |-> None] /\ overtaken = {}

Fault == faults < MaxFaults /\ faults' = faults + 1

-----------------------------------------------------------------------------
(* The table.                                                              *)

\* What an eventually consistent read of a row may return.
Readable(r) == stale[r] \cup {table[r]}

Write(r, version) ==
  /\ table' = [table EXCEPT ![r] = version]
  /\ stale' = [stale EXCEPT ![r] = Readable(r) \ {version}]

\* All copies of the row have the last version.
Replicate(r) ==
  /\ stale[r] # {}
  /\ stale' = [stale EXCEPT ![r] = {}]
  /\ UNCHANGED <<table, ses, handler, manager, inbound, faults, history>>

\* The thirty days of a soft bounce are over, in every copy of the row.
Expired(version) == IF version = "temporary" THEN "expired" ELSE version

Expire(r) ==
  /\ "temporary" \in Readable(r)
  /\ table' = [table EXCEPT ![r] = Expired(@)]
  /\ stale' = [stale EXCEPT ![r] = {Expired(version) : version \in @}]
  /\ overtaken' = IF "temporary" \in stale[r] THEN overtaken \cup {r} ELSE overtaken
  /\ UNCHANGED <<ses, handler, manager, inbound, faults, last>>

\* DynamoDB takes up to two days to remove it.
TtlDelete(r) ==
  /\ table[r] = "expired"
  /\ Write(r, None)
  /\ UNCHANGED <<ses, handler, manager, inbound, faults, history>>

-----------------------------------------------------------------------------
(* bounce_handler.                                                         *)

\* Other notifications are ignored.
Suppresses(kind) == kind # "Delivery"

\* SNS delivers, Lambda retries an invocation that raised, or SNS repeats one.
Invoke(n) ==
  /\ deliveries[n] < MaxDeliveries[n] /\ left[n] = {}
  /\ deliveries' = [deliveries EXCEPT ![n] = @ + 1]
  /\ left' = [left EXCEPT ![n] = IF Suppresses(KindOf[n]) THEN Recipients[n] ELSE {}]
  /\ UNCHANGED <<database, ses, manager, inbound, faults, history>>

\* A bounce that is not known to be permanent is kept for thirty days.
IsPermanent(kind) == kind \in {"Permanent", "Complaint"}
ReasonOf(kind) == IF kind = "Complaint" THEN "complaint" ELSE "bounce"

\* The sweep has found the row expired, or may still read it so.
Swept(r) == (sync = "delete" /\ r \in todo) \/ "expired" \in Readable(r)

\* Mutant: the row is updated and keeps the expires_at of a soft bounce.
PutKeepingExpiry(r, kind) ==
  /\ Write(r, IF IsPermanent(kind) /\ table[r] # "temporary" THEN "permanent" ELSE "temporary")
  /\ last' = [last EXCEPT ![r] = kind]
  /\ overtaken' = IF Swept(r) THEN overtaken \cup {r} ELSE overtaken \ {r}

\* put_item replaces the row, whatever it is.
PutSuppressionRecord(r, kind) ==
  /\ Write(r, IF IsPermanent(kind) THEN "permanent" ELSE "temporary")
  /\ last' = [last EXCEPT ![r] = kind]
  /\ overtaken' = IF Swept(r) THEN overtaken \cup {r} ELSE overtaken \ {r}

HandleRecipient(n, e) ==
  /\ e \in left[n]
  /\ PutSuppressionRecord(<<e, ReasonOf(KindOf[n])>>, KindOf[n])
  /\ left' = [left EXCEPT ![n] = @ \ {e}]
  /\ UNCHANGED <<ses, deliveries, manager, inbound, faults>>

\* The recipients after the one that failed wait for the next invocation.
HandlerRaises(n) ==
  /\ left[n] # {} /\ Fault
  /\ left' = [left EXCEPT ![n] = {}]
  /\ UNCHANGED <<database, ses, deliveries, manager, inbound, history>>

-----------------------------------------------------------------------------
(* suppression_manager.                                                    *)

\* What a scan that looks for such versions may find: the rows of which every
\* copy is one, and any of those of which some copy is.
Found(versions) ==
  {found \in SUBSET {r \in Row : Readable(r) \cap versions # {}} :
     {r \in Row : Readable(r) \subseteq versions} \subseteq found}

\* FilterExpression expires_at < :now; a row without the attribute is no match.
ExpiredRows == Found({"expired"})

ValidRows == Found({"permanent", "temporary"})

\* Mutant: the comparison is the wrong way round.
KnownToSes == {r \in items : LowerCase[r[1]] \in ses}

MissingInSes == {r \in items : LowerCase[r[1]] \notin ses}

ScanTable ==
  /\ sync = "idle"
  /\ sync' = "list" /\ items' \in ValidRows
  /\ UNCHANGED <<database, ses, handler, todo, inbound, faults, history>>

ListSes ==
  /\ sync = "list"
  /\ sync' = "add" /\ todo' = MissingInSes /\ items' = {}
  /\ UNCHANGED <<database, ses, handler, inbound, faults, history>>

\* An address SES does not take is left for the next day.
AddToSes(r) ==
  /\ sync = "add" /\ r \in todo
  /\ todo' = todo \ {r}
  /\ \/ ses' = ses \cup {LowerCase[r[1]]} /\ UNCHANGED faults
     \/ Fault /\ UNCHANGED ses
  /\ UNCHANGED <<database, handler, sync, items, inbound, history>>

FindExpired ==
  /\ sync = "add" /\ todo = {}
  /\ sync' = "delete" /\ todo' \in ExpiredRows
  /\ UNCHANGED <<database, ses, handler, items, inbound, faults, history>>

\* delete_item does not look at the row again, which may be another by now.
DeleteExpired(r) ==
  /\ sync = "delete" /\ r \in todo
  /\ todo' = todo \ {r}
  /\ \/ Write(r, None) /\ UNCHANGED faults
     \/ Fault /\ UNCHANGED database
  /\ UNCHANGED <<ses, handler, sync, items, inbound, history>>

SyncEnds ==
  /\ sync = "delete" /\ todo = {}
  /\ sync' = "idle"
  /\ UNCHANGED <<database, ses, handler, items, todo, inbound, faults, history>>

\* The scan, the list or the time limit ends the run of that day.
ManagerDies ==
  /\ sync # "idle" /\ Fault
  /\ sync' = "idle" /\ items' = {} /\ todo' = {}
  /\ UNCHANGED <<database, ses, handler, inbound, history>>

SyncStep ==
  \/ ScanTable \/ ListSes \/ FindExpired \/ SyncEnds
  \/ \E r \in Row : AddToSes(r) \/ DeleteExpired(r)

-----------------------------------------------------------------------------
(* spam_handler.                                                           *)

\* Mutant: the complaints are looked up.
OnComplaintList(source) ==
  {version # None : version \in IF source = None THEN {None}
                                ELSE Readable(<<source, "complaint">>)}

\* What get_item may answer, with the spelling of the mail and whether or not
\* the row expired.  A mail without a sender is not looked up.
OnSuppressionList(source) ==
  {version # None : version \in IF source = None THEN {None}
                                ELSE Readable(<<source, "bounce">>)}

\* One check that finds something is enough, whichever it is.
Disposition(failed, suppressed) ==
  IF failed \/ suppressed THEN "STOP_RULE_SET" ELSE "CONTINUE"

\* A verdict of SES (virus, spam, DMARC) may have failed.  A table that cannot
\* be read lets the mail pass; a log that cannot be written does not change what
\* happens to it.
JudgeMail(m, source, readable) ==
  /\ decision[m] = None
  /\ \E failed, written \in BOOLEAN, listed \in OnSuppressionList(source) :
       /\ IF readable /\ written THEN UNCHANGED faults ELSE Fault
       /\ decision' = [decision EXCEPT ![m] = Disposition(failed, readable /\ listed)]
       /\ logged' = IF written THEN logged \cup {m} ELSE logged
  /\ UNCHANGED <<database, ses, handler, manager, history>>

\* An event without the expected fields lets its mail pass, unread and unlogged.
PassUnparsed(m) ==
  /\ decision[m] = None
  /\ decision' = [decision EXCEPT ![m] = "CONTINUE"]
  /\ UNCHANGED <<database, ses, handler, manager, logged, faults, history>>

-----------------------------------------------------------------------------
Next ==
  \/ \E r \in Row : Replicate(r) \/ Expire(r) \/ TtlDelete(r)
  \/ \E n \in Notice : Invoke(n) \/ HandlerRaises(n) \/ \E e \in Email : HandleRecipient(n, e)
  \/ SyncStep \/ ManagerDies
  \/ \E m \in Mail, source \in Email \cup {None}, readable \in BOOLEAN :
       JudgeMail(m, source, readable)
  \/ \E m \in Mail : PassUnparsed(m)

Spec == Init /\ [][Next]_vars

\* The scheduler starts the manager every day, and Lambda runs it on; the
\* copies of a row catch up.
FairSpec ==
  Spec /\ WF_vars(SyncStep) /\ \A r \in Row : WF_vars(Replicate(r))

-----------------------------------------------------------------------------
TypeOK ==
  /\ table \in [Row -> RowStates] /\ stale \in [Row -> SUBSET RowStates]
  /\ ses \subseteq Email
  /\ deliveries \in [Notice -> Nat] /\ \A n \in Notice : deliveries[n] <= MaxDeliveries[n]
  /\ left \in [Notice -> SUBSET Email]
  /\ sync \in {"idle", "list", "add", "delete"}
  /\ items \subseteq Row /\ todo \subseteq Row
  /\ decision \in [Mail -> {"CONTINUE", "STOP_RULE_SET", None}]
  /\ logged \subseteq Mail
  /\ faults \in 0..MaxFaults
  /\ last \in [Row -> Kinds \cup {None}] /\ overtaken \subseteq Row

\* An address that must not get mail again: the last bounce was for good, and
\* when it was recorded no sweep took the row for expired or still could.
Lasting(e) ==
  last[<<e, "bounce">>] = "Permanent" /\ <<e, "bounce">> \notin overtaken

(* An address that complained keeps its row for ever, whatever bounces     *)
(* besides, expires or is swept.  So does one that bounced for good, also  *)
(* after softer bounces whose row ran out, until it bounces softly again:  *)
(* the sweep, which deletes by key what an old copy may have shown it,     *)
(* takes only rows that were expired, or still looked so, when they were   *)
(* written.                                                                *)
PermanentRecordsStay ==
  \A e \in Email :
    /\ last[<<e, "complaint">>] # None => table[<<e, "complaint">>] = "permanent"
    /\ Lasting(e) => table[<<e, "bounce">>] = "permanent"

(* The manager brings every complaint to the SES account, though it runs   *)
(* beside the handler, reads old copies, is cut off, or is refused by SES  *)
(* for a time.                                                             *)
ComplaintsReachSes ==
  \A e \in Email : last[<<e, "complaint">>] # None ~> LowerCase[e] \in ses

(* A sender that bounced for good is not let through, once no copy of the  *)
(* table lacks its row.  The exceptions are the code's own: a table that   *)
(* cannot be read, and an event that cannot be parsed.                     *)
SendersStayBlocked ==
  [][\A m \in Mail, e \in Email :
       Lasting(e) /\ None \notin stale[<<e, "bounce">>] /\ JudgeMail(m, e, TRUE)
         => decision'[m] = "STOP_RULE_SET"]_vars

(* ARCHITECTURE.md:331 says that a permanent bounce is suppressed for ever *)
(* and bounce_handler.py:173 that the last write leaves the right state.   *)
(* A soft bounce delivered late replaces the row, and the manager deletes  *)
(* by key a row that a permanent bounce has replaced since it was found.   *)
HardBouncesStay ==
  [][\A e \in Email :
       table[<<e, "bounce">>] = "permanent" => table'[<<e, "bounce">>] = "permanent"]_vars

(* bounce_handler.py:93 says that a soft bounce is lifted after 30 days.   *)
(* Nothing takes an address off the list of the SES account.               *)
SoftBouncesAreLifted ==
  [](\A e \in Email : (\A f \in Email : LowerCase[f] = LowerCase[e] =>
                          \A r \in Reasons : table[<<f, r>>] = None)
       => <>(LowerCase[e] \notin ses \/ \E f \in Email, r \in Reasons :
               LowerCase[f] = LowerCase[e] /\ table[<<f, r>>] # None))
=============================================================================

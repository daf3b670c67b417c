------------------------- MODULE MCMailSuppression -------------------------
(***************************************************************************)
(* Instances of MailSuppression for TLC: an address in two spellings, of   *)
(* which both complain and one bounces softly and for good as well.        *)
(***************************************************************************)
EXTENDS MailSuppression

CONSTANTS bob, Bob, soft, hard, spam, m1

KindOfNotice ==
  [n \in Notice |-> CASE n = soft -> "Transient" [] n = hard -> "Permanent" [] n = spam -> "Complaint"]
RecipientsOf ==
  [n \in Notice |-> CASE n = soft -> {Bob} [] n = hard -> {Bob} [] n = spam -> {bob, Bob}]
Twice == [n \in Notice |-> IF n = spam THEN 1 ELSE 2]
Once == [n \in Notice |-> 1]
Lowered == [e \in Email |-> bob]
=============================================================================

--------------------------- MODULE MCFinopsReport ---------------------------
(***************************************************************************)
(* Instances of FinopsReport for TLC: two executions, of one month or of   *)
(* two, across the turn of a year.                                         *)
(***************************************************************************)
EXTENDS FinopsReport

CONSTANTS e1, e2, ec2, s3

January == [y |-> 2025, m |-> 1]

\* Both executions follow the schedule, or one is started by hand.
SameOrOther == {[e \in {e1, e2} |-> Nothing], [e \in {e1, e2} |-> IF e = e1 THEN Nothing ELSE January]}

AllFaults == FaultKinds
NoRisk == {}

\* From the first bill to the second the costs double and the service in front
\* changes, so each rule of the detector answers both ways.
FirstBill == [x \in {ec2} |-> 100]
SecondBill == [x \in {ec2, s3} |-> IF x = ec2 THEN 90 ELSE 110]
Bills == {<<FirstBill, SecondBill>>, <<SecondBill, FirstBill>>}
=============================================================================

SPECIFICATION FairSpec
CONSTANTS
  bob = bob  Bob = Bob  soft = soft  hard = hard  spam = spam  m1 = m1
  Notice = {soft, hard, spam}
  KindOf <- KindOfNotice
  Recipients <- RecipientsOf
  Email = {bob, Bob}
  LowerCase <- Lowered
  Mail = {m1}
  MaxDeliveries <- Twice
  MaxFaults = 1
  None = None
INVARIANTS PermanentRecordsStay
PROPERTIES ComplaintsReachSes SendersStayBlocked

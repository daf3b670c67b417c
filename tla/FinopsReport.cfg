SPECIFICATION FairReportSpec
CONSTANTS
  e1 = e1  e2 = e2  ec2 = ec2  s3 = s3
  Execution = {e1, e2}
  Service = {ec2, s3}
  Ledger <- Bills
  Requests <- SameOrOther
  Today <- January
  Risk <- NoRisk
  TopServices = 1
  MaxAttempts = 1
  Faults <- AllFaults
  Nothing = Nothing
INVARIANTS MailsAreRight SuccessIsRecorded
PROPERTIES ExecutionsEnd
CHECK_DEADLOCK FALSE

SPECIFICATION AdvisorSpec
CONSTANTS
  reader = reader  reader2 = reader2  user = user  bucket = bucket
  policy1 = policy1  policy2 = policy2  long = long  i1 = i1  i2 = i2
  Resource <- MCResource
  ResourceType <- MCType
  ShortName <- MCShortName
  Attached <- MCAttached
  Document <- MCDocument
  Revisions <- MCRevisions
  Summaries <- MCSummaries
  Invocation = {i1, i2}
  Lower <- MCLower
  MaxAttempts = 2
  MaxDay = 2
  MaxScans = 2
  MaxTroubles = 1
  Malformed = Malformed
  Nothing = Nothing
SYMMETRY InvocationSymmetry
INVARIANTS PullRequestsAreSound FilesKeepTheRest
CHECK_DEADLOCK FALSE

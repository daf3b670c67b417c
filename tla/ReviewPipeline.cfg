SPECIFICATION FairSpec
CONSTANTS
  Agents <- Reviewer
  Events <- TwoEvents
  Kinds <- AnyFile
  MaxFaults = 1
INVARIANTS ResultsAreComplete
PROPERTIES ReviewedOnce ReviewsAccumulate SessionsAreAnswered
CHECK_DEADLOCK FALSE

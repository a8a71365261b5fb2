SPECIFICATION FairSpec
CONSTANTS
  MaxCommits = 2
  MaxRuns = 1
  MaxAttempts = 3
  Publishers = {p1}
  Intents = {"pr", "workitem", "closure"}
  MaxLosses = 0
  MaxRetries = 1
CHECK_DEADLOCK FALSE
INVARIANT ShownIsHighestAuthority
PROPERTY CertificationSettles

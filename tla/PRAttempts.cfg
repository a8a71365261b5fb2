SPECIFICATION FairSpec
CONSTANTS
  MaxHeads = 2
  MaxMain = 2
  WorkflowCount = 1
  MaxRuns = 1
  MaxAttempts = 2
  Publishers = {p1, p2}
  MaxLosses = 0
  MaxRetries = 0
CHECK_DEADLOCK FALSE
INVARIANTS SuccessIsWitnessed AuthorityAgrees
PROPERTY VerdictArrives

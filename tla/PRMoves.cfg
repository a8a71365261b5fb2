SPECIFICATION Spec
CONSTANTS
  MaxHeads = 2
  MaxMain = 2
  WorkflowCount = 2
  MaxRuns = 2
  MaxAttempts = 1
  Publishers = {p1}
  MaxLosses = 1
  MaxRetries = 1
CHECK_DEADLOCK FALSE
INVARIANTS TypeOK SuccessIsWitnessed AuthorityNamesOneVerdict SettledCheckAgrees

SPECIFICATION Spec
CONSTANTS
  MaxHeads = 1
  MaxMain = 1
  WorkflowCount = 1
  MaxRuns = 1
  MaxAttempts = 2
  Publishers = {p1}
  MaxLosses = 0
  MaxRetries = 0
CHECK_DEADLOCK FALSE
INVARIANTS NewerWorkRevokes

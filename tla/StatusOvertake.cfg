SPECIFICATION Spec
CONSTANTS
  MaxCommits = 1
  MaxRuns = 1
  MaxAttempts = 2
  Publishers = {p1, p2}
  Intents = {"closure"}
  MaxLosses = 0
  MaxRetries = 0
SYMMETRY Runners
CHECK_DEADLOCK FALSE
INVARIANT LaterFailureRevokes

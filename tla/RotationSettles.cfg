SPECIFICATION FairSpec
CONSTANTS
  Runners = {r1, r2}
  MaxCommit = 2
  MaxAttempts = 4
  MaxRotationAttempts = 3
  Faults = {"job", "kill", "outcome", "admission", "rotation"}
  MaxFaults = 1
  Normalizes = FALSE
CHECK_DEADLOCK FALSE
INVARIANTS TypeOK ActiveBuildIsHeld OneRerunPerTransition
PROPERTY RotationSettles

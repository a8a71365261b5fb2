SPECIFICATION Spec
CONSTANTS
  Runners = {r1, r2}
  MaxCommit = 3
  MaxAttempts = 2
  MaxRotationAttempts = 2
  Faults = {"rotation", "outcome"}
  MaxFaults = 1
  Normalizes = TRUE
SYMMETRY Symmetry
CHECK_DEADLOCK FALSE
INVARIANT ChainIsLinear
PROPERTY SuccessionSpec

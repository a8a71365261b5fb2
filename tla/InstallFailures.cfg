SPECIFICATION Spec
CONSTANTS
  FileCount = 3
  MaxInterrupts = 1
  MaxKills = 1
  MaxRuns = 3
CHECK_DEADLOCK FALSE
INVARIANTS TypeOK AtomicUnlessInterrupted OneFileAstray

SPECIFICATION Spec
CONSTANTS
  MaxCommits = 2
  MaxRuns = 1
  MaxAttempts = 3
  Publishers = {p1, p2}
  Intents = {"pr", "workitem", "closure"}
  MaxLosses = 1
  MaxRetries = 1
SYMMETRY Runners
CHECK_DEADLOCK FALSE
INVARIANTS
  TypeOK
  CertifiedByItsAttempt
  NeverWedged
  AdmissionRevokesFirst
PROPERTY AuthorityNeverRegresses

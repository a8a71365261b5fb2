SPECIFICATION Spec
CONSTANTS
  p1 = p1
  p2 = p2
  p3 = p3
  c1 = c1
  c2 = c2
  notes = notes
  x1 = x1
  x2 = x2
  y1 = y1
  y2 = y2
  z = z
  Absent = Absent
  Publishers = {p1, p2}
  Commits = {c1, c2}
  Bodies = {notes}
  Digests = {x1, x2, y1, y2, z}
  PathCount = 3
  TransactionOf <- OneBuildTwice
  DuplicateDrafts = TRUE
  MaxReleases = 3
  MaxLosses = 0
  MaxRetries = 0
  MaxDeletions = 0
CHECK_DEADLOCK FALSE
INVARIANTS ExactOperationsConverge

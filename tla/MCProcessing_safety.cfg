SPECIFICATION Spec
CONSTANTS
  single = single  shared = shared  refused = refused
  Sources = {single, shared, refused}
  Accepted = {single, shared}
  Bound = {shared}
  MaxCommits = 4
  MaxFaults = 2
INVARIANTS
  QualityIsEarned
  ReportsAreTrue
PROPERTIES
  PushedIsKept
CHECK_DEADLOCK FALSE

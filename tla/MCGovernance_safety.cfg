SPECIFICATION GovernanceSpec
CONSTANTS
  NoProtection = NoProtection
  MaxDrifts = 1  MaxFailures = 1  MaxApplies = 1
  Heads = {code1, code2, mixed, empty}
  NoHead = NoHead
  code1 = code1  code2 = code2  mixed = mixed  empty = empty
  Change <- MCChange
  Matrix = {"model-schemas", "pytest"}
  MaxRuns = 2  MaxMain = 1
  FileSize = 8  Chunk = 3  Overlap = 2  SecretSize = 3
  NoSecret = NoSecret
  MaxDeaths = 3
INVARIANTS
  SuccessIsConverged
  StatusesAreTrue
  VerdictsAreEarned
PROPERTIES
  MainIsVerified
SYMMETRY Interchangeable
CHECK_DEADLOCK FALSE

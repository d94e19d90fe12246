SPECIFICATION PipelineSpec
CONSTANTS
  p1 = p1  p2 = p2  p3 = p3  k1 = k1  k2 = k2
  l1 = l1  l2 = l2  t1 = t1  t2 = t2
  c1 = c1  c2 = c2  cs = cs
  n1 = n1  n2 = n2
  Products = {p1, p2, p3}
  Keys = {k1, k2}
  Tables = {t1, t2}
  Locators = {l1, l2}
  Columns = {c1, c2}
  Changesets = {cs}
  PRs = {n1, n2}
  Requests <- MCRequests
  Definitions <- MCDefinitions
  AutoId = AutoId
  NoChangeset = NoChangeset
  Absent = Absent
  MaxVersion = 3
  N = 3
  Others = {o1, o2}
  Inputs = {i1, i2}
  NoInput = NoInput
  NoDirectory = NoDirectory
  MaxCrashes = 2
  root = root  product1 = product1  product2 = product2  quality = quality  made = made
  Level <- MCLevel
  Top = root
  Created = made
  Siblings = {"version-report.json"}
  Diagnostics = {"manifest.json"}
  MaxFailures = 1
  MaxMoves = 2
INVARIANTS
  UniqueIdentities
  CrashIsRecoverable
  ReportIsWrittenLast
  EndsAreClean
PROPERTIES
  VersionsCountChanges
  IdentitiesAreStable
  SharedChangesAreCoordinated
  PromotesAtomically
SYMMETRY AnyPR
CHECK_DEADLOCK FALSE

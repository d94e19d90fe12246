SPECIFICATION Spec
CONSTANTS
  a = a  b = b  c = c
  c1 = c1  c2 = c2
  pa = pa  pb = pb  tab = tab
  good = good  other = other  bad = bad
  Jobs = {a, b, c}
  Commits = {c1, c2}
  Tags = {pa, pb, tab}
  Contents = {good, other, bad}
  Releasable = {good, other}
  JobCommit <- MCJobCommit
  ProductTag <- MCProductTag
  TableTags <- MCTableTags
  Committed <- MCCommitted
  FreshCheckout = TRUE
  None = None  NoRelease = NoRelease  NoAsset = NoAsset
  MaxFaults = 2
INVARIANTS
  SuccessIsPublished
  OnlyVerifiedContent
PROPERTIES
  PublishedIsImmutable
  NoRedelivery

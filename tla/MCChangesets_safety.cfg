SPECIFICATION PlansSpec
CONSTANTS
  a = a  b = b
  commit = commit  elsewhere = elsewhere
  pa = pa  pb = pb  tab = tab
  good = good  bad = bad
  None = None  NoRelease = NoRelease  NoAsset = NoAsset
  Products = {a, b}
  MaxVersion = 3
  Strict = FALSE
  MaxMishaps = 3
  MaxFaults = 2
INVARIANTS
  MergedAtRecordedHeads
  ReleasesAreWhole
  LastMergeReleases
PROPERTIES
  ReleasesConverge
CHECK_DEADLOCK FALSE

SPECIFICATION FairSpec
CONSTANTS
  Products = {a, b}
  MaxVersion = 3
  Strict = TRUE
  MaxMishaps = 0
PROPERTIES
  ChangesetIsReleased
CHECK_DEADLOCK FALSE

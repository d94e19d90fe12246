SPECIFICATION PromotionSpec
CONSTANTS
  N = 3
  Others = {o1, o2}
  Inputs = {i1, i2}
  NoInput = NoInput
  NoDirectory = NoDirectory
  MaxCrashes = 1
INVARIANT OtherRecordsSurvive

SPECIFICATION FairSpec
CONSTANTS
  cut = cut
  trim = trim
  grow = grow
  swap = swap
  NoPass = NoPass
  TestCases = {1, 2}
  Contents = {0, 1, 2, 3, 4}
  SizeOf <- Sizes
  Interesting <- Everything
  Passes = {cut, trim, grow, swap}
  ReprOf <- Names
  Makes <- Transformations
  MaxTransforms <- OneTransform
  Categories <- AllCategories
  Available = {cut, trim, grow, swap}
  Options <- CommandLines
  StartPasses = {NoPass, cut}
  MaxItems = 3
  ThresholdNum = 3
  ThresholdDen = 4
  MaxSuccesses = 3
INVARIANTS
  CacheSound
  CacheDirsOwned
PROPERTIES
  SessionEnds

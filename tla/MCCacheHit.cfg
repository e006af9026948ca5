SPECIFICATION Spec
CONSTANTS
  cut = cut
  trim = trim
  grow = grow
  swap = swap
  NoPass = NoPass
  TestCases = {1, 2}
  Contents = {0, 1, 2, 3, 4}
  SizeOf <- Sizes
  Interesting <- SomeLeft
  Passes = {cut, trim, grow, swap}
  ReprOf <- Names
  Makes <- Transformations
  MaxTransforms <- OneTransform
  Categories <- OneLoop
  Available = {cut, trim, grow, swap}
  Options <- DefaultOnly
  StartPasses = {NoPass}
  MaxItems = 3
  ThresholdNum = 3
  ThresholdDen = 4
  MaxSuccesses = 3
INVARIANTS
  InterestingKept

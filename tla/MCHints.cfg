SPECIFICATION FairSpec
CONSTANTS
  NumTypes = 2
  Hints <- FourAndTwo
  Subsegment <- SecondType
  MinChunk = 1
  MaxChunk = 2
  ParallelTests = 2
  Collateral <- EveryType
INVARIANTS
  HintsInv
  RangesValid
  EveryBisectedHintTriedAlone
PROPERTIES
  EnumerationEnds

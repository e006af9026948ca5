SPECIFICATION Spec
CONSTANTS
  NumTypes = 1
  Hints <- Five
  Subsegment <- EveryType
  MinChunk = 1
  MaxChunk = 1
  ParallelTests = 2
  Collateral <- NoType
INVARIANTS
  EveryHintTriedAlone

SPECIFICATION Spec
CONSTANTS
  FoldInterval = 2
  JobCountFactor = 4
  N = 1
  HintBased <- NoPasses
  special = special
  untyped = untyped
  Types <- AllTypes
  Special <- SpecialTypes
  Untyped = untyped
  Inputs <- NoTypes
  Outputs <- NoTypes
  SupportsDir <- FirstPass
  MaxPos = 3
  Covers <- BinaryCovers
  Gains <- TwoGains
  ParallelTests = 2
  Interleaving = FALSE
  MaxTimeouts = 2
  GiveUp = 4
  RestartInterval = 2
  SkipAfter = 2
  TestCases = 2
INVARIANTS
  SucceededStateSupplied
PROPERTIES
  FirstSuccessIsTaken

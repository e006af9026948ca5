SPECIFICATION Spec
CONSTANTS
  FoldInterval = 2
  JobCountFactor = 1
  N = 2
  HintBased <- AllPasses
  special = special
  untyped = untyped
  Types <- AllTypes
  Special <- SpecialTypes
  Untyped = untyped
  Inputs <- FeederInputs
  Outputs <- FeederOutputs
  SupportsDir <- FirstPass
  MaxPos = 2
  Covers <- BinaryCovers
  Gains <- OneGain
  ParallelTests = 2
  Interleaving = TRUE
  MaxTimeouts = 1
  GiveUp = 2
  RestartInterval = 2
  SkipAfter = 1
  TestCases = 1
PROPERTIES
  WorkExhausted

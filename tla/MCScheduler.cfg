SPECIFICATION FairSpec
CONSTANTS
  FoldInterval = 5
  JobCountFactor = 4
  N = 2
  HintBased <- AllPasses
  special = special
  untyped = untyped
  Types <- AllTypes
  Special <- SpecialTypes
  Untyped = untyped
  Inputs <- FeederInputs
  Outputs <- FeederOutputs
  SupportsDir <- FirstPass
  MaxPos = 2
  Covers <- BinaryCovers
  Gains <- OneGain
  ParallelTests = 2
  Interleaving = TRUE
  MaxTimeouts = 1
  GiveUp = 2
  RestartInterval = 2
  SkipAfter = 2
  TestCases = 1
INVARIANTS
  TypeOK
  FreshWork
  InputsAlive
  RunningMatchesJobs
  TempDirsOwned
  QueueSound
PROPERTIES
  NothingUncheckedIsSkipped
  ReductionSpec
  BatchEnds
  FoldExtendsBest
  IndependentWorkExhausted

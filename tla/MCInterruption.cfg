SPECIFICATION FairSpec
CONSTANTS
  MaxSignals = 3
INVARIANTS
  SwapInv
  FileAlwaysThere
  NeverLost
  InPlaceAtEnd
  NothingLeftBeside
  ReturnMeansReplaced
PROPERTIES
  SignalEndsProgram

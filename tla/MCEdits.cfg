SPECIFICATION FairSpec
CONSTANTS
  LetterCount = 2
  Commands <- AllCommands
  Inputs <- Instances
  CommentChars <- Room
  MaxPatches = 3
CHECK_DEADLOCK FALSE
INVARIANTS
  PatchesApply
  PositionsFollow
  HintsAgree
  SweepIsComplete
PROPERTIES
  NamesKeptApart
  PassEnds

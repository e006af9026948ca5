SPECIFICATION FairSpec
CONSTANTS
  d1 = d1
  d2 = d2
  d3 = d3
  Names <- ThreeNames
  NoName = NoName
  SaveTemps = FALSE
INVARIANTS
  UsedDirsSafe
PROPERTIES
  LeftoversVanish

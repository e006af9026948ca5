SPECIFICATION FairSpec
CONSTANTS
  Workers = {w1, w2}
  Procs = {p1, p2}
  None = None
  MaxRecent = 1
INVARIANTS
  OnlyAbandonedKilled
  BooksAreRight
  NothingSurvives
PROPERTIES
  AbandonedEnds

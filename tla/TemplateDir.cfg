SPECIFICATION FairSpec
CONSTANTS
  Starts = {s1, s2, s3}
  Files = 3
  Ibd = 2
  None = None
INVARIANTS
  CopiesWhole
  LeftoversHarmless
PROPERTY EveryStartAnswered
CHECK_DEADLOCK FALSE

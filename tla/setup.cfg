SPECIFICATION FairSpec

CONSTANTS
  A = a
  B = b
  Capacity = 2
  Blank = blank
  MaxRuns = 2
  MaxSends = 3

INVARIANTS
  SetupInv
  NoGap
  HeardFromFirst

PROPERTIES
  SetupEnds

\* The runs end.
CHECK_DEADLOCK FALSE

SPECIFICATION FairSpec

CONSTANTS
  Writers = {main}
  Values = {m1, m2}
  RingSize = 4
  None = none

INVARIANTS
  TypeOK
  CopyIntact
  SoloInv

PROPERTIES
  FifoSafety
  FifoSpec

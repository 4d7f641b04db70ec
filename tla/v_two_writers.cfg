SPECIFICATION Spec

CONSTANTS
  Writers = {main, flexus}
  Values = {m1, m2}
  RingSize = 4
  None = none

PROPERTIES
  FifoSafety

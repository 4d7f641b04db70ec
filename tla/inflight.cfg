SPECIFICATION Spec

CONSTANTS
  Data = {x, y}
  NoFile = nofile
  MaxTime = 2
  MaxPackets = 3

INVARIANTS
  PendingInv
  ListIsPending
  NothingLate


  

\* Everything that arrives is delivered.
CHECK_DEADLOCK FALSE

SPECIFICATION FairSpec

CONSTANTS
  Master = master
  Follower = follower
  ShouldSync = TRUE
  Quantum = 2
  RingCap = 3
  KeyMod = 100
  PauseWaits = TRUE
  MaxRound = 3
  MaxPackets = 0
  StopTimes = {100}
  InitNodes = {master, follower}
  MasterLast = TRUE

INVARIANTS
  SameCut
  CheckpointNotPassed

PROPERTIES
  CheckpointCompletes
  Progress
  BarrierSpec

\* The clocks stop at MaxRound and processes exit.
CHECK_DEADLOCK FALSE

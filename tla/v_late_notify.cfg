SPECIFICATION Spec

CONSTANTS
  Master = master
  Follower = follower
  ShouldSync = TRUE
  Quantum = 1
  RingCap = 3
  KeyMod = 100
  PauseWaits = TRUE
  MaxRound = 2
  MaxPackets = 0
  StopTimes = {100}
  InitNodes = {master, follower}
  MasterLast = FALSE

INVARIANTS
  SameCut

\* The clocks stop at MaxRound and processes exit.
CHECK_DEADLOCK FALSE

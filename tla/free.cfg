SPECIFICATION Spec

CONSTANTS
  Master = master
  Follower = follower
  ShouldSync = FALSE
  Quantum = 1
  RingCap = 2
  KeyMod = 100
  PauseWaits = TRUE
  MaxRound = 1
  MaxPackets = 1
  StopTimes = {100}
  InitNodes = {master, follower}
  MasterLast = TRUE

INVARIANTS
  
  PacketInv

\* The clocks stop at MaxRound and processes exit.
CHECK_DEADLOCK FALSE

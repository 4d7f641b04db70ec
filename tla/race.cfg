SPECIFICATION Spec

CONSTANTS
  Master = master
  Follower = follower
  ShouldSync = TRUE
  Quantum = 1
  RingCap = 2
  KeyMod = 100
  PauseWaits = FALSE
  MaxRound = 2
  MaxPackets = 0
  StopTimes = {2}
  InitNodes = {master, follower}
  MasterLast = TRUE

INVARIANTS
  EndSentOnce

PROPERTIES
  BarrierSafety

\* The clocks stop at MaxRound and processes exit.
CHECK_DEADLOCK FALSE

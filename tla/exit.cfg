SPECIFICATION FairSpec

CONSTANTS
  Master = master
  Follower = follower
  ShouldSync = TRUE
  Quantum = 1
  RingCap = 2
  KeyMod = 100
  PauseWaits = TRUE
  MaxRound = 5
  MaxPackets = 0
  StopTimes = {1, 2}
  InitNodes = {}
  MasterLast = TRUE

INVARIANTS
  EndAfterPermission
  NotCutShort
  NoOrphan
  OnceInv
  StopInv


  

\* The clocks stop at MaxRound and processes exit.
CHECK_DEADLOCK FALSE

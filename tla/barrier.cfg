SPECIFICATION Spec

CONSTANTS
  Master = master
  Follower = follower
  ShouldSync = TRUE
  Quantum = 2
  RingCap = 2
  KeyMod = 100
  PauseWaits = TRUE
  MaxRound = 2
  MaxPackets = 1
  StopTimes = {100}
  InitNodes = {}
  MasterLast = TRUE

INVARIANTS
  TypeOK
  SyncRoundValid
  
  
  NoStalePause
  PacketsInOrder
  DueSoon
  NoMutualBlock
  

\* The clocks stop at MaxRound and processes exit.
CHECK_DEADLOCK FALSE

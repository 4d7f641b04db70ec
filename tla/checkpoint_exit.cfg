SPECIFICATION Spec

CONSTANTS
  Master = master
  Follower = follower
  ShouldSync = TRUE
  Quantum = 1
  RingCap = 3
  KeyMod = 100
  PauseWaits = TRUE
  MaxRound = 3
  MaxPackets = 0
  StopTimes = {1}
  InitNodes = {master, follower}
  MasterLast = TRUE

INVARIANTS
  InductiveInv
  PermissionSentOnce
  HandshakeInv

\* The clocks stop at MaxRound and processes exit.
CHECK_DEADLOCK FALSE

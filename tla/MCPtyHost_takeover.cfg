CONSTANTS
  o1 = o1
  o2 = o2
  Owners = {o1, o2}
  NoOwner = NoOwner
  MaxPane = 1
  MaxShell = 1
  MaxConn = 2
  MaxOut = 0
  MaxUp = 1
  MaxDown = 1
  PendingMax = 1
  MaxPreauth = 1
  PeerMoves = {"owner","die","probe","list","reset","stranger","recv"}
  WatchOn = TRUE
  LateFirst = TRUE
  SettleGivesUp = FALSE
  SpawnErrs = TRUE
  AliveErrs = TRUE
SPECIFICATION FairHostSpec
INVARIANTS OneServer
PROPERTY OrphanReclaimed
CHECK_DEADLOCK FALSE

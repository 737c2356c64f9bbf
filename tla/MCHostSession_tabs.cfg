CONSTANTS
  s1 = s1
  s2 = s2
  Owners = {s1,s2}
  NoOwner = NoOwner
  MaxPane = 3
  MaxShell = 3
  MaxConn = 3
  MaxOut = 0
  MaxUp = 2
  MaxDown = 3
  PendingMax = 2
  MaxPreauth = 1
  PeerMoves = {}
  WatchOn = FALSE
  LateFirst = FALSE
  SettleGivesUp = FALSE
  AliveErrs = FALSE
  SpawnErrs = FALSE
  Events = {"tab", "split", "kill", "restart", "crash"}
SPECIFICATION SessionSpec
SYMMETRY ServerSymmetry
INVARIANTS  NothingLeaked
PROPERTIES ShownShellsSurvive RestartKeepsTabs
CHECK_DEADLOCK FALSE

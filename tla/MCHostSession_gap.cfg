CONSTANTS
  s1 = s1
  s2 = s2
  Owners = {s1,s2}
  NoOwner = NoOwner
  MaxPane = 1
  MaxShell = 1
  MaxConn = 2
  MaxOut = 3
  MaxUp = 2
  MaxDown = 3
  PendingMax = 2
  MaxPreauth = 1
  PeerMoves = {}
  WatchOn = FALSE
  LateFirst = FALSE
  SettleGivesUp = FALSE
  AliveErrs = FALSE
  SpawnErrs = FALSE
  Events = {"restart"}
SPECIFICATION SessionSpec
PROPERTY GapOutputShown
CHECK_DEADLOCK FALSE

CONSTANTS
  s1 = s1
  s2 = s2
  Owners = {s1,s2}
  NoOwner = NoOwner
  MaxPane = 2
  MaxShell = 2
  MaxConn = 2
  MaxOut = 2
  MaxUp = 2
  MaxDown = 2
  PendingMax = 1
  MaxPreauth = 1
  PeerMoves = {}
  WatchOn = FALSE
  LateFirst = FALSE
  SettleGivesUp = FALSE
  AliveErrs = FALSE
  SpawnErrs = TRUE
  Events = {"tab", "kill", "restart", "list_timeout"}
SPECIFICATION SessionSpec
SYMMETRY ServerSymmetry
INVARIANTS SessionTypeOK ScreenInOrder TypeOK KeptOnlyWhenDetached KeptIsNewest InFlightInOrder
CHECK_DEADLOCK FALSE

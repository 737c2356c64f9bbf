CONSTANTS
  Owners = {}
  NoOwner = NoOwner
  MaxPane = 1
  MaxShell = 2
  MaxConn = 2
  MaxOut = 1
  MaxUp = 1
  MaxDown = 1
  PendingMax = 1
  MaxPreauth = 1
  PeerMoves = {"spawn","close","pause","resume","shutdown","half","leave"}
  WatchOn = FALSE
  LateFirst = FALSE
  SettleGivesUp = TRUE
  SpawnErrs = TRUE
  AliveErrs = FALSE
SPECIFICATION HostSpec
INVARIANTS ShellsAccounted SpawnsReserved
PROPERTY NothingRegisteredAfterStop
CHECK_DEADLOCK FALSE

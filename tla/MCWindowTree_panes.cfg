CONSTANTS
  c1 = c1
  MaxPane = 3
  MaxTab = 3
  MaxSess = 1
  Clients = {c1}
  ExitEmpty = TRUE
  Rearranging = TRUE
SPECIFICATION Spec
CHECK_DEADLOCK FALSE
INVARIANTS TreeTypeOK LinksAgree CacheFresh
PROPERTIES TabMovesKeepZones

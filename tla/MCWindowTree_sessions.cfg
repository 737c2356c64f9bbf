CONSTANTS
  c1 = c1
  c2 = c2
  MaxPane = 4
  MaxTab = 3
  MaxSess = 2
  Clients = {c1,c2}
  ExitEmpty = FALSE
  Rearranging = FALSE
SPECIFICATION Spec
SYMMETRY ClientSymmetry
CHECK_DEADLOCK FALSE
INVARIANTS NoPaneLost ViewsRegistered

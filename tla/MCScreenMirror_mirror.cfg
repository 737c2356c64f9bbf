SPECIFICATION Spec
CONSTANTS
  p1 = p1
  p2 = p2
  Clients = {c1, c2}
  Tabs <- MCTabs
  PanesOf <- MCPanesOf
  Vals = {0, 1}
  Blank = 0
  Lines = 2
  Yields = FALSE
  MaxEvents = 3
INVARIANTS
  MirrorTypeOK
  
PROPERTY
  LoneMirrored
CHECK_DEADLOCK FALSE

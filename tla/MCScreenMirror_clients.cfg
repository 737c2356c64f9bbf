SPECIFICATION Spec
CONSTANTS
  p1 = p1
  p2 = p2
  Clients = {c1, c2}
  Tabs <- MCTab
  PanesOf <- MCPanePair
  Vals = {0, 1}
  Blank = 0
  Lines = 2
  Yields = FALSE
  MaxEvents = 2
PROPERTY
  EventuallyMirrored
CHECK_DEADLOCK FALSE

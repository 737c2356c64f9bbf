SPECIFICATION FairSpec
CONSTANTS
  p1 = p1
  p2 = p2
  Panes = {p1, p2}
  PanesOf <- MCPanesOf
  Coalesces = TRUE
  Script <- MCScript
  Batch = 2
  MaxEvents = 1
INVARIANTS
  FeedTypeOK
  FedInOrder
  LossOnlyRepaints
  CollectorBack
  
PROPERTIES
  EofFindsNothing
  ReaderComesBack
CHECK_DEADLOCK FALSE

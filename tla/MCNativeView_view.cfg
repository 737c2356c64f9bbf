SPECIFICATION Spec
CONSTANTS
  ncd = ncd
  mdir = mdir
  Plugins <- MCPlugins
  MaxSpecs = 2
  MaxEvents = 3
INVARIANTS
  ViewTypeOK
  RestartsBegun
PROPERTIES
  RestartDecided
  QueuedIsSent
CHECK_DEADLOCK FALSE

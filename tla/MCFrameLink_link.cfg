SPECIFICATION LinkSpec
CONSTANTS
  bye = bye
  long = long
  odd = odd
  Msgs <- MCMsgs
  Unreadable <- MCUnreadable
  Farewells <- MCFarewells
  Size <- MCSize
  Header = 2
  MaxSent = 3
INVARIANTS
  LinkTypeOK
  StaysAligned
PROPERTIES
  KeepsPromise
  ReplacedLinkCloses
CHECK_DEADLOCK FALSE

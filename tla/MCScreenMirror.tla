--------------------------- MODULE MCScreenMirror ---------------------------
(* The instances of ScreenMirror that TLC checks.                          *)
EXTENDS ScreenMirror

CONSTANTS p1, p2

\* Two tabs of a single pane.
MCTabs == {"t1", "t2"}
MCPanesOf == [t \in MCTabs |-> IF t = "t1" THEN <<p1>> ELSE <<p2>>]
\* One tab of two panes.
MCTab == {"t1"}
MCPanePair == [t \in MCTab |-> <<p1, p2>>]
=============================================================================

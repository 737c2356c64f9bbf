------------------------------ MODULE MCPaneFeed ------------------------------
(* The instance of PaneFeed that TLC checks.                               *)
EXTENDS PaneFeed

CONSTANTS p1, p2

\* A program that repaints the alternate screen and leaves it.
MCScript == <<"enter", "clear", "clear", "leave">>
\* The drains of two panes share the collector; the other backends differ in how
\* the output of a pane arrives.
MCPanesOf ==
  [b \in {"fd", "thread", "daemon"} |-> IF b = "fd" THEN {p1, p2} ELSE {p1}]
=============================================================================

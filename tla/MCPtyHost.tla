------------------------------ MODULE MCPtyHost ------------------------------
(* The daemon alone, with peers that may send anything. *)
EXTENDS PtyHost, TLC
=============================================================================

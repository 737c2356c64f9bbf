----------------------------- MODULE MCFrameLink -----------------------------
(* The instance of FrameLink that TLC checks: a goodbye, a longer message   *)
(* and one the client cannot decode.                                        *)
EXTENDS FrameLink

CONSTANTS bye, long, odd

MCMsgs == {bye, long, odd}
MCUnreadable == {odd}
MCFarewells == {bye}
MCSize == [m \in MCMsgs |-> IF m = long THEN 2 ELSE 1]
=============================================================================

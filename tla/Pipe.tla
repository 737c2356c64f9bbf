-------------------------------- MODULE Pipe --------------------------------
(***************************************************************************)
(* What a link of the native client promises to the view that holds it:    *)
(* the messages of the server arrive complete, once and in order, until    *)
(* the link is over; and as long as it is not over, what was sent arrives. *)
(***************************************************************************)
EXTENDS Integers, Sequences

CONSTANT Msgs      \* the messages of the server

VARIABLES
  sent,    \* what the server sent
  got,     \* what the view has been given
  over     \* the view was told that the link ended, or let it go

pipeVars == <<sent, got, over>>

PipeInit == sent = <<>> /\ got = <<>> /\ over = FALSE

Put(m) == sent' = Append(sent, m) /\ UNCHANGED <<got, over>>

\* The view is given the next messages, none skipped.
Get ==
  /\ ~over
  /\ \E n \in (Len(got) + 1)..Len(sent) : got' = SubSeq(sent, 1, n)
  /\ over' \in BOOLEAN
  /\ UNCHANGED sent

End == over' = TRUE /\ UNCHANGED <<sent, got>>

PipeNext == (\E m \in Msgs : Put(m)) \/ Get \/ End

\* The safety part, and with it the promise that messages arrive.
PipeSafe == PipeInit /\ [][PipeNext]_pipeVars
PipeSpec == PipeSafe /\ WF_pipeVars(Get)
=============================================================================

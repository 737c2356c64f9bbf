------------------------------ MODULE FrameLink ------------------------------
(***************************************************************************)
(* One connection of the native client as it is read: the frames of the    *)
(* server as bytes on a socket with a read timeout (proto/src/framing.rs), *)
(* the reading thread and its channel (proto/src/link.rs), and the view,   *)
(* which drains the channel once per pump and may replace the link.        *)
(*                                                                         *)
(* A frame is a header of Header bytes and a payload of Size[m] bytes.     *)
(* What a byte says is left out; where it stands is not: a position is the *)
(* number of whole frames before it and the number of bytes of its frame.  *)
(***************************************************************************)
EXTENDS Integers, Sequences

CONSTANTS
  Msgs,        \* the messages of the server
  Unreadable,  \* those the client cannot decode
  Farewells,   \* those that say the server goes (bye)
  Header,      \* length of the length prefix
  Size,        \* Size[m]: the length of a payload
  MaxSent      \* bound: frames the server writes

ASSUME LinkAssumption ==
  /\ Unreadable \subseteq Msgs /\ Farewells \subseteq Msgs
  /\ Header \in Nat \ {0}
  /\ Size \in [Msgs -> Nat \ {0}]
  /\ MaxSent \in Nat

VARIABLES
  sent,      \* the frames the server has written
  owed,      \* the server is about to resynchronise this connection
  arrived,   \* position up to which bytes have reached the client
  cut,       \* nothing more will arrive: the server or a write error closed it
  pos,       \* position up to which the thread has read: of a frame all of
             \* whose bytes are read, its end
  part,      \* what the thread is filling: the header or the payload
  filled,    \* how much of that it has
  from,      \* the byte of a frame at which it began to read a header
  thread,    \* the thread reads, has sent its last event, or is gone
  chan,      \* messages in the channel
  notice,    \* the channel ends in LinkEvent::Ended
  held,      \* the view holds this link
  got,       \* messages the view has been given
  ended      \* is_ended: the connection ended, or the server said goodbye

netVars == <<sent, owed, arrived, cut>>
readVars == <<pos, part, filled, from>>
viewVars == <<held, got, ended>>
linkVars == <<sent, owed, arrived, cut, pos, part, filled, from, thread, chan,
              notice, held, got, ended>>

Start == [frame |-> 0, byte |-> 0]

\* The frame at a position, and its length.
FrameAt(p) == sent[p.frame + 1]
Length(p) == Header + Size[FrameAt(p)]

\* n bytes further, within the frame or to the start of the next.
Forward(p, n) ==
  IF p.byte + n = Length(p)
  THEN [frame |-> p.frame + 1, byte |-> 0]
  ELSE [p EXCEPT !.byte = @ + n]

\* How many bytes of the frame at pos can be read now.
Available ==
  IF pos.frame < arrived.frame THEN Length(pos) - pos.byte
  ELSE IF pos.frame = arrived.frame THEN arrived.byte - pos.byte
  ELSE 0

\* How many bytes the thread asks for.  A header that was not read from the
\* first byte of a frame announces a length that is none.
Misread == from # 0
Wanted == IF part = "header" THEN Header ELSE Size[FrameAt(pos)]

-----------------------------------------------------------------------------
(* The server and the network.                                             *)

Write(m) ==
  /\ ~cut
  /\ Len(sent) < MaxSent
  /\ sent' = Append(sent, m)
  /\ owed' = FALSE
  /\ UNCHANGED <<arrived, cut, readVars, thread, chan, notice, viewVars>>

Arrive ==
  /\ ~cut
  /\ arrived.frame < Len(sent)
  /\ \E n \in 1..(Length(arrived) - arrived.byte) :
       arrived' = Forward(arrived, n)
  /\ UNCHANGED <<sent, owed, cut, readVars, thread, chan, notice, viewVars>>

\* The server closes the connection or dies: a frame may be left incomplete.
Cut ==
  /\ ~cut
  /\ cut' = TRUE
  /\ UNCHANGED <<sent, owed, arrived, readVars, thread, chan, notice, viewVars>>

-----------------------------------------------------------------------------
(* The reading thread.                                                     *)

\* The thread ends: with an event for the view, or silently when it panicked.
Stop(event) ==
  /\ thread' = "last"
  /\ notice' = (notice \/ (event /\ held))

\* fill: some bytes are there.  Once one was taken the frame is read to its
\* end, however often the read times out; a timeout before the first byte
\* takes nothing and is read as "not yet".  Mutant: what was taken before a
\* timeout is forgotten.
FillForgetting ==
  /\ thread = "reads"
  /\ filled < Wanted
  /\ \E n \in 1..Wanted, timeout \in BOOLEAN :
       /\ n <= Available /\ n <= Wanted - filled
       /\ filled' = IF timeout /\ filled + n < Wanted THEN 0 ELSE filled + n
       /\ pos' = [pos EXCEPT !.byte = @ + n]
  /\ from' = IF part = "header" /\ filled = 0 THEN pos.byte ELSE from
  /\ UNCHANGED <<netVars, part, thread, chan, notice, viewVars>>

Fill ==
  /\ thread = "reads"
  /\ filled < Wanted
  /\ \E n \in 1..Wanted :
       /\ n <= Available /\ n <= Wanted - filled
       /\ filled' = filled + n
       /\ pos' = [pos EXCEPT !.byte = @ + n]
  /\ from' = IF part = "header" /\ filled = 0 THEN pos.byte ELSE from
  /\ UNCHANGED <<netVars, part, thread, chan, notice, viewVars>>

\* read_frame: the header is complete.
HeaderRead ==
  /\ thread = "reads" /\ part = "header" /\ filled = Header
  /\ IF Misread
     THEN Stop(TRUE) /\ UNCHANGED <<part, filled>>
     ELSE /\ part' = "payload" /\ filled' = 0
          /\ UNCHANGED <<thread, notice>>
  /\ UNCHANGED <<netVars, pos, from, chan, viewVars>>

\* The payload is complete: the message goes into the channel, unless it
\* cannot be decoded or the view has let the channel go.  Mutants: only the
\* newest message is kept; that the channel is gone is not noticed.
PayloadReadNewest ==
  /\ thread = "reads" /\ part = "payload" /\ filled = Wanted
  /\ LET m == FrameAt(pos)
     IN  IF m \in Unreadable \/ ~held
         THEN Stop(held) /\ UNCHANGED chan
         ELSE chan' = <<m>> /\ UNCHANGED <<thread, notice>>
  /\ pos' = [frame |-> pos.frame + 1, byte |-> 0]
  /\ part' = "header" /\ filled' = 0
  /\ UNCHANGED <<netVars, from, viewVars>>

PayloadReadDeaf ==
  /\ thread = "reads" /\ part = "payload" /\ filled = Wanted
  /\ LET m == FrameAt(pos)
     IN  IF m \in Unreadable
         THEN Stop(TRUE) /\ UNCHANGED chan
         ELSE /\ chan' = IF held THEN Append(chan, m) ELSE chan
              /\ UNCHANGED <<thread, notice>>
  /\ pos' = [frame |-> pos.frame + 1, byte |-> 0]
  /\ part' = "header" /\ filled' = 0
  /\ UNCHANGED <<netVars, from, viewVars>>

PayloadRead ==
  /\ thread = "reads" /\ part = "payload" /\ filled = Wanted
  /\ LET m == FrameAt(pos)
     IN  IF m \in Unreadable
         THEN Stop(TRUE) /\ UNCHANGED chan
         ELSE IF held
         THEN chan' = Append(chan, m) /\ UNCHANGED <<thread, notice>>
         ELSE thread' = "last" /\ UNCHANGED <<chan, notice>>
  /\ pos' = [frame |-> pos.frame + 1, byte |-> 0]
  /\ part' = "header" /\ filled' = 0
  /\ UNCHANGED <<netVars, from, viewVars>>

\* The read fails because the connection is cut, before or after the bytes that
\* had arrived, or the rest of a frame did not come for PARTIAL_FRAME_PATIENCE.
GiveUp ==
  /\ thread = "reads"
  /\ filled < Wanted
  /\ cut \/ (Available = 0 /\ (part = "payload" \/ filled > 0))
  /\ Stop(TRUE)
  /\ UNCHANGED <<netVars, readVars, chan, viewVars>>

\* The thread dies without a word.
Panic ==
  /\ thread = "reads"
  /\ Stop(FALSE)
  /\ UNCHANGED <<netVars, readVars, chan, viewVars>>

\* The thread returns: its sender and its half of the socket are dropped.
ThreadGone ==
  /\ thread = "last"
  /\ thread' = "gone"
  /\ UNCHANGED <<netVars, readVars, chan, notice, viewVars>>

-----------------------------------------------------------------------------
(* The view.                                                               *)

\* drain and the pump that applies it: everything that arrived, and the news
\* that the link ended when the thread said so, is gone, or the server goes.
\* An ended view is not pumped again.  Mutant: the news is handed on as a
\* message.
DrainInBand ==
  /\ held /\ ~ended
  /\ chan # <<>> \/ notice \/ thread = "gone"
  /\ got' = IF notice THEN Append(got \o chan, "ended") ELSE got \o chan
  /\ chan' = <<>>
  /\ ended' = (notice \/ thread = "gone")
  /\ notice' = FALSE
  /\ UNCHANGED <<netVars, readVars, thread, held>>

Drain ==
  /\ held /\ ~ended
  /\ chan # <<>> \/ notice \/ thread = "gone"
  /\ got' = got \o chan
  /\ chan' = <<>>
  /\ ended' = \/ notice \/ thread = "gone"
              \/ \E i \in DOMAIN chan : chan[i] \in Farewells
  /\ notice' = FALSE
  /\ UNCHANGED <<netVars, readVars, thread, held>>

\* A command cannot be written: the socket is shut down (fold_on_error) and the
\* view takes the connection for ended.
SendFails ==
  /\ held /\ ~ended
  /\ cut' = TRUE
  /\ ended' = TRUE
  /\ UNCHANGED <<sent, owed, arrived, readVars, thread, chan, notice, held, got>>

\* reconnect: the view takes another link, and the server resynchronises every
\* client of the session, this old connection too.
Replace ==
  /\ held
  /\ held' = FALSE
  /\ chan' = <<>> /\ notice' = FALSE
  /\ owed' = TRUE
  /\ UNCHANGED <<sent, arrived, cut, readVars, thread, got, ended>>

-----------------------------------------------------------------------------
LinkInit ==
  /\ sent = <<>> /\ owed = FALSE /\ arrived = Start /\ cut = FALSE
  /\ pos = Start /\ part = "header" /\ filled = 0 /\ from = 0
  /\ thread = "reads" /\ chan = <<>> /\ notice = FALSE
  /\ held = TRUE /\ got = <<>> /\ ended = FALSE

LinkNext ==
  \/ \E m \in Msgs : Write(m)
  \/ Arrive
  \/ Cut
  \/ Fill
  \/ HeaderRead
  \/ PayloadRead
  \/ GiveUp
  \/ Panic
  \/ ThreadGone
  \/ Drain
  \/ SendFails
  \/ Replace

\* The thread runs, bytes travel, the pump comes round every 33 ms; the server
\* writes the resynchronisation it owes, or the connection is cut.
LinkFairness ==
  /\ WF_linkVars(Fill \/ HeaderRead \/ PayloadRead \/ ThreadGone)
  /\ WF_linkVars(GiveUp)
  /\ WF_linkVars(Arrive)
  /\ WF_linkVars(Drain)
  /\ WF_linkVars(owed /\ ((\E m \in Msgs : Write(m)) \/ Cut))

LinkSafe == LinkInit /\ [][LinkNext]_linkVars
LinkSpec == LinkSafe /\ LinkFairness

-----------------------------------------------------------------------------
(* Properties.                                                             *)

Positions == [frame : Nat, byte : Nat]

\* Every variable holds a value of its type.
LinkTypeOK ==
  /\ sent \in Seq(Msgs) /\ owed \in BOOLEAN /\ cut \in BOOLEAN
  /\ arrived \in Positions /\ pos \in Positions
  /\ part \in {"header", "payload"} /\ filled \in Nat /\ from \in Nat
  /\ thread \in {"reads", "last", "gone"}
  /\ chan \in Seq(Msgs) /\ notice \in BOOLEAN
  /\ held \in BOOLEAN /\ got \in Seq(Msgs) /\ ended \in BOOLEAN

\* However the bytes were cut up and whatever timed out in between, the thread
\* reads each frame from its first byte: no length is taken from the middle of
\* a payload.
StaysAligned ==
  /\ thread = "reads" /\ part = "header" /\ filled = 0 => pos.byte = 0
  /\ from = 0

\* The link keeps the promise of a pipe.
P == INSTANCE Pipe WITH over <- (ended \/ ~held)
KeepsPromise == P!PipeSpec
KeepsOrder == P!PipeSafe

\* The thread and the socket of a link the view has replaced do not stay for
\* ever.
ReplacedLinkCloses == ~held ~> thread = "gone"
=============================================================================

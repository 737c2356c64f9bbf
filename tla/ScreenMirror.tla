---------------------------- MODULE ScreenMirror ----------------------------
(***************************************************************************)
(* How the screens of the server reach the screens of a native client: the *)
(* full resynchronisation and the periodic flush of the server             *)
(* (pytmuxlib/serverio.py), which share one writer per client and one      *)
(* memory of what that client was last sent, and the accumulator of the    *)
(* client (client/crates/proto/src/session.rs), which applies full frames  *)
(* and deltas to its own copy.                                             *)
(*                                                                         *)
(* One session.  A row is a value, a screen a sequence of rows; cursors,   *)
(* wrap marks, blocks, the status line and pop-ups ride on the same frames *)
(* and are left out.                                                       *)
(***************************************************************************)
EXTENDS Integers, FiniteSets, SequencesExt

CONSTANTS
  Clients,     \* the connections a native client may hold
  Tabs,        \* the tabs of the session
  PanesOf,     \* PanesOf[t]: the panes of tab t, the active pane first
  Vals,        \* what a row may show
  Blank,       \* the row a pane grows by when it is made taller
  Lines,       \* the tallest pane
  Yields,      \* may other code run while a frame is drained
  MaxEvents    \* bound: outputs, commands and reconnections of a behaviour

\* A tab has a pane, and the session a tab.
ASSUME MirrorAssumption ==
  /\ Tabs # {}
  /\ \A t \in Tabs : PanesOf[t] # <<>> /\ PanesOf[t] \in Seq(ToSet(PanesOf[t]))
  /\ Blank \in Vals
  /\ Lines \in Nat \ {0}
  /\ Yields \in BOOLEAN
  /\ MaxEvents \in Nat

VARIABLES
  content,   \* what the emulator of each pane shows
  dirty,     \* Pane.dirty
  inFrame,   \* Pane.sync_output: the program is inside a synchronised frame
  active,    \* the active tab of the session
  height,    \* the height each client reported
  acted,     \* the clients that did something, the latest last (last_active)
  applied,   \* Session._applied_size
  clients,   \* Server.clients
  sent,      \* ClientConn._sent_rows
  flush,     \* the flush loop: the clients it still writes to, and what
  waiting,   \* _send_full calls that have not taken the write lock yet
  full,      \* the _send_full that holds the write lock of each client
  down,      \* what is written to each client and not yet applied
  shown,     \* the layout and the screens of each client (SessionState)
  events     \* how much has happened (bounded by MaxEvents)

screenVars == <<content, dirty, inFrame>>
sizeVars == <<height, acted, applied>>
vars == <<content, dirty, inFrame, active, height, acted, applied, clients, sent, flush,
          waiting, full, down, shown, events>>

Panes == UNION {ToSet(PanesOf[t]) : t \in Tabs}
Screens == UNION {[1..n -> Vals] : n \in 1..Lines}
NoScreens == [p \in {} |-> <<>>]
Copies == UNION {[S -> Screens] : S \in SUBSET Panes}

IdleFull == [on |-> FALSE, todo |-> <<>>, rows |-> <<>>]
FreshClient == [panes |-> {}, screens |-> NoScreens]

-----------------------------------------------------------------------------
(* Messages and what the client does with them.                            *)

Layout(panes) == [t |-> "layout", panes |-> panes]
Screen(p, rows) == [t |-> "screen", pane |-> p, rows |-> rows]
Delta(p, rows) == [t |-> "delta", pane |-> p, rows |-> rows]

\* The elements of seq that are in S, in their order.
Selected(seq, S) ==
  FoldLeft(LAMBDA kept, x : IF x \in S THEN Append(kept, x) ELSE kept, <<>>, seq)
Without(seq, x) == Selected(seq, ToSet(seq) \ {x})

\* A function without the arguments outside S.
Only(f, S) == [x \in DOMAIN f \cap S |-> f[x]]
Put(f, x, v) == [y \in DOMAIN f \cup {x} |-> IF y = x THEN v ELSE f[y]]

\* The changed rows laid on a base: a row below the end is appended when it is
\* the next one and dropped when there is a gap.
Overlay(base, rows) ==
  LET n == CHOOSE m \in Len(base)..Lines :
             /\ (Len(base) + 1)..m \subseteq DOMAIN rows
             /\ m + 1 \notin DOMAIN rows \/ m = Lines
  IN  [y \in 1..n |-> IF y \in DOMAIN rows THEN rows[y] ELSE base[y]]

ApplyLayout(s, m) ==
  [s EXCEPT !.panes = m.panes, !.screens = Only(s.screens, m.panes)]

ApplyScreen(s, m) ==
  [s EXCEPT !.screens = Put(@, m.pane, m.rows)]

\* A delta without a base is dropped.
ApplyDelta(s, m) ==
  IF m.pane \in DOMAIN s.screens
  THEN [s EXCEPT !.screens[m.pane] = Overlay(@, m.rows)]
  ELSE s

Apply(s, m) ==
  CASE m.t = "layout" -> ApplyLayout(s, m)
    [] m.t = "screen" -> ApplyScreen(s, m)
    [] m.t = "delta"  -> ApplyDelta(s, m)

-----------------------------------------------------------------------------
(* The server.                                                             *)

Smallest(S) == CHOOSE n \in S : \A m \in S : n <= m

\* window_size "latest": the session is as tall as the client that acted last,
\* and as the smallest one as long as none did.
SessionHeight(order) ==
  IF order = <<>> THEN Smallest({height[c] : c \in clients})
  ELSE height[Last(order)]

\* Mutant: one row too many.
ResizedPast(rows, n) ==
  [y \in 1..(n + 1) |-> IF y <= Len(rows) THEN rows[y] ELSE Blank]

Resized(rows, n) ==
  [y \in 1..n |-> IF y <= Len(rows) THEN rows[y] ELSE Blank]

ActivePanes == ToSet(PanesOf[active])

\* The frame for one pane and what the client is then taken to hold: the
\* changed rows when the client holds as many and at most 0.7 of them changed.
ScreenFrame(c, p) ==
  LET rows    == content[p]
      changed == {y \in 1..Len(rows) : rows[y] # sent[c][p][y]}
  IN  IF /\ p \in DOMAIN sent[c]
         /\ Len(sent[c][p]) = Len(rows)
         /\ 10 * Cardinality(changed) <= 7 * Len(rows)
      THEN Delta(p, [y \in changed |-> rows[y]])
      ELSE Screen(p, rows)

\* No handler, flush or resynchronisation is between two of its awaits.
AtRest ==
  /\ flush.todo = {}
  /\ \A c \in Clients : waiting[c] = 0 /\ ~full[c].on

\* Whether the event loop can turn to something else now.
LoopFree == Yields \/ AtRest

\* The handler of c reads its next command after the last one was answered.
HandlerFree(c) ==
  /\ c \in clients
  /\ waiting[c] = 0
  /\ ~full[c].on
  /\ LoopFree

Count == events < MaxEvents /\ events' = events + 1

Resync(S) == [c \in Clients |-> IF c \in S THEN waiting[c] + 1 ELSE waiting[c]]

\* The program of p writes a row, or clears the screen; `frame' says that the
\* bytes end inside a synchronised frame.
Output(p, rows, frame) ==
  /\ LoopFree
  /\ Count
  /\ rows # content[p]
  /\ content' = [content EXCEPT ![p] = rows]
  /\ dirty' = [dirty EXCEPT ![p] = TRUE]
  /\ inFrame' = [inFrame EXCEPT ![p] = frame]
  /\ UNCHANGED <<active, sizeVars, clients, sent, flush, waiting, full, down,
                 shown>>

\* The frame ends, or lasts longer than SYNC_OUTPUT_MAX_DEFER.
FrameEnds(p) ==
  /\ inFrame[p]
  /\ inFrame' = [inFrame EXCEPT ![p] = FALSE]
  /\ UNCHANGED <<content, dirty, active, sizeVars, clients, sent, flush, waiting,
                 full, down, shown, events>>

\* select_window: only the client that asked is answered.
SelectTab(c, t) ==
  /\ HandlerFree(c)
  /\ Count
  /\ active' = t
  /\ waiting' = Resync({c})
  /\ UNCHANGED <<screenVars, sizeVars, clients, sent, flush, full, down,
                 shown>>

ActedLast(c) == Append(Without(acted, c), c)

\* A client reports its size: every client of the session is resynchronised.
Resize(c, n) ==
  /\ HandlerFree(c)
  /\ Count
  /\ n # height[c]
  /\ height' = [height EXCEPT ![c] = n]
  /\ acted' = ActedLast(c)
  /\ waiting' = Resync(clients)
  /\ UNCHANGED <<screenVars, active, applied, clients, sent, flush, full, down,
                 shown>>

\* Keys typed by a client other than the last: every client is resynchronised
\* when the session takes another size by it (_remirror_if_size_changed).
Type(c) ==
  /\ HandlerFree(c)
  /\ Count
  /\ acted' = ActedLast(c)
  /\ acted' # acted
  /\ applied' = SessionHeight(acted')
  /\ waiting' = IF applied' = applied THEN waiting ELSE Resync(clients)
  /\ UNCHANGED <<screenVars, active, height, clients, sent, flush, full, down,
                 shown>>

\* request_redraw
Redraw(c) ==
  /\ HandlerFree(c)
  /\ Count
  /\ waiting' = Resync({c})
  /\ UNCHANGED <<screenVars, active, sizeVars, clients, sent, flush, full, down,
                 shown>>

\* Who is resynchronised when c is gone.  Mutant: nobody.
LeftUnaware(c) == {}
LeftBehind(c) == clients \ {c}

\* The connection of c ends: the client left, or was dropped because a drain
\* or the lock took too long.  The others are resynchronised.
Leave(c) ==
  /\ LoopFree
  /\ Count
  /\ c \in clients
  /\ clients' = clients \ {c}
  /\ waiting' = [Resync(LeftBehind(c)) EXCEPT ![c] = 0]
  /\ full' = [full EXCEPT ![c] = IdleFull]
  /\ flush' = [flush EXCEPT !.todo = @ \ {c}]
  /\ sent' = [sent EXCEPT ![c] = NoScreens]
  /\ down' = [down EXCEPT ![c] = <<>>]
  /\ acted' = Without(acted, c)
  /\ UNCHANGED <<screenVars, active, height, applied, shown>>

\* A hello: a client attaches, anew or (`keep') with the screens it had.
Attach(c, n, keep) ==
  /\ LoopFree
  /\ Count
  /\ c \notin clients
  /\ clients' = clients \cup {c}
  /\ height' = [height EXCEPT ![c] = n]
  /\ waiting' = Resync(clients')
  /\ shown' = IF keep THEN shown ELSE [shown EXCEPT ![c] = FreshClient]
  /\ UNCHANGED <<screenVars, active, acted, applied, sent, flush, full, down>>

\* _send_full takes the lock, resizes the panes it lays out and writes the
\* layout.
FullStart(c) ==
  /\ waiting[c] > 0
  /\ ~full[c].on
  /\ Yields \/ \A d \in Clients : ~full[d].on
  /\ LET n == SessionHeight(acted)
     IN  /\ applied' = n
         /\ content' = [p \in Panes |-> IF p \in ActivePanes
                                        THEN Resized(content[p], n)
                                        ELSE content[p]]
         /\ dirty' = [p \in Panes |-> dirty[p] \/ content'[p] # content[p]]
  /\ waiting' = [waiting EXCEPT ![c] = @ - 1]
  /\ full' = [full EXCEPT ![c] = [on |-> TRUE, todo |-> <<>>, rows |-> <<>>]]
  /\ down' = [down EXCEPT ![c] = Append(@, Layout(ActivePanes))]
  /\ UNCHANGED <<inFrame, active, height, acted, clients, sent, flush,
                 shown, events>>

\* The layout is drained: the memory of the client is forgotten, the panes of
\* the tab that is active by now are listed, and the first is written.  Mutant:
\* the memory is kept.
FullFirstKeeping(c) ==
  /\ full[c].on
  /\ full[c].todo = <<>>
  /\ LET panes == PanesOf[active]
         rows  == content[panes[1]]
     IN  /\ full' = [full EXCEPT ![c] = [on |-> TRUE, todo |-> panes,
                                         rows |-> rows]]
         /\ down' = [down EXCEPT ![c] = Append(@, Screen(panes[1], rows))]
  /\ UNCHANGED <<screenVars, active, sizeVars, clients, sent, flush, waiting,
                 shown, events>>

FullFirst(c) ==
  /\ full[c].on
  /\ full[c].todo = <<>>
  /\ LET panes == PanesOf[active]
         rows  == content[panes[1]]
     IN  /\ full' = [full EXCEPT ![c] = [on |-> TRUE, todo |-> panes,
                                         rows |-> rows]]
         /\ down' = [down EXCEPT ![c] = Append(@, Screen(panes[1], rows))]
  /\ sent' = [sent EXCEPT ![c] = NoScreens]
  /\ UNCHANGED <<screenVars, active, sizeVars, clients, flush, waiting,
                 shown, events>>

\* A pane is drained: it is clean, the client is taken to hold the rows that
\* were written, and the next pane is written or the lock released.
FullNext(c) ==
  /\ full[c].on
  /\ full[c].todo # <<>>
  /\ LET p    == Head(full[c].todo)
         rest == Tail(full[c].todo)
     IN  /\ dirty' = [dirty EXCEPT ![p] = FALSE]
         /\ sent' = [sent EXCEPT ![c] = Put(@, p, full[c].rows)]
         /\ IF rest = <<>>
            THEN /\ full' = [full EXCEPT ![c] = IdleFull]
                 /\ UNCHANGED down
            ELSE /\ full' = [full EXCEPT ![c] =
                               [on |-> TRUE, todo |-> rest,
                                rows |-> content[rest[1]]]]
                 /\ down' = [down EXCEPT ![c] =
                               Append(@, Screen(rest[1], content[rest[1]]))]
  /\ UNCHANGED <<content, inFrame, active, sizeVars, clients, flush, waiting,
                 shown, events>>

\* One turn of the flush loop: every dirty pane of the active tab that is not
\* inside a synchronised frame is rendered once and becomes a frame for every
\* client, and what the clients hold is recorded.
FlushBuild ==
  LET due == {p \in ActivePanes : dirty[p] /\ ~inFrame[p]}
      seq == Selected(PanesOf[active], due)
  IN  /\ IF Yields THEN flush.todo = {} ELSE AtRest
      /\ clients # {} /\ due # {}
      /\ flush' = [todo |-> clients,
                   frames |-> [c \in clients |->
                     [i \in DOMAIN seq |-> ScreenFrame(c, seq[i])]]]
      /\ sent' = [c \in Clients |->
                   IF c \in clients
                   THEN [p \in DOMAIN sent[c] \cup due |->
                           IF p \in due THEN content[p] ELSE sent[c][p]]
                   ELSE sent[c]]
      /\ dirty' = [p \in Panes |-> dirty[p] /\ p \notin due]
      /\ UNCHANGED <<content, inFrame, active, sizeVars, clients, waiting, full,
                     down, shown, events>>

\* _flush_to_client: the frames of c are written under its lock.
FlushWrite(c) ==
  /\ c \in flush.todo
  /\ ~full[c].on
  /\ down' = [down EXCEPT ![c] = @ \o flush.frames[c]]
  /\ flush' = IF flush.todo = {c}
              THEN [todo |-> {}, frames |-> NoScreens]
              ELSE [flush EXCEPT !.todo = @ \ {c}]
  /\ UNCHANGED <<screenVars, active, sizeVars, clients, sent, waiting, full,
                 shown, events>>

-----------------------------------------------------------------------------
(* The client.                                                             *)

\* SessionState::apply.
Receive(c) ==
  /\ down[c] # <<>>
  /\ shown' = [shown EXCEPT ![c] = Apply(@, Head(down[c]))]
  /\ down' = [down EXCEPT ![c] = Tail(@)]
  /\ UNCHANGED <<screenVars, active, sizeVars, clients, sent, flush, waiting,
                 full, events>>

-----------------------------------------------------------------------------
Init ==
  /\ content = [p \in Panes |-> [y \in 1..Lines |-> Blank]]
  /\ dirty = [p \in Panes |-> TRUE]
  /\ inFrame = [p \in Panes |-> FALSE]
  /\ active = CHOOSE t \in Tabs : TRUE
  /\ height = [c \in Clients |-> Lines]
  /\ acted = <<>> /\ applied = 0
  /\ clients = Clients
  /\ sent = [c \in Clients |-> NoScreens]
  /\ flush = [todo |-> {}, frames |-> NoScreens]
  /\ waiting = [c \in Clients |-> 1]
  /\ full = [c \in Clients |-> IdleFull]
  /\ down = [c \in Clients |-> <<>>]
  /\ shown = [c \in Clients |-> FreshClient]
  /\ events = 0

\* One write of a program: a row changes, or every row is overwritten.
Written(p) ==
  {[content[p] EXCEPT ![y] = v] : y \in DOMAIN content[p], v \in Vals}
    \cup {[y \in DOMAIN content[p] |-> v] : v \in Vals}

FullStep(c) == FullStart(c) \/ FullFirst(c) \/ FullNext(c)

Next ==
  \/ \E p \in Panes : \E rows \in Written(p), frame \in BOOLEAN :
       Output(p, rows, frame)
  \/ \E p \in Panes : FrameEnds(p)
  \/ \E c \in Clients, t \in Tabs : SelectTab(c, t)
  \/ \E c \in Clients, n \in 1..Lines : Resize(c, n)
  \/ \E c \in Clients : Type(c) \/ Redraw(c) \/ Leave(c)
  \/ \E c \in Clients, n \in 1..Lines, keep \in BOOLEAN : Attach(c, n, keep)
  \/ \E c \in Clients : FullStart(c) \/ FullFirst(c) \/ FullNext(c)
  \/ FlushBuild
  \/ \E c \in Clients : FlushWrite(c) \/ Receive(c)

\* The event loop runs what is ready, the flush loop wakes at FLUSH_HZ, a
\* synchronised frame is cut off after SYNC_OUTPUT_MAX_DEFER, and the client
\* pumps every 33 ms.  Nothing makes a program write or a user act.
Fairness ==
  /\ WF_vars(FlushBuild)
  /\ \A p \in Panes : WF_vars(FrameEnds(p))
  /\ \A c \in Clients :
       /\ WF_vars(FullStep(c))
       /\ WF_vars(FlushWrite(c))
       /\ WF_vars(Receive(c))

Spec == Init /\ [][Next]_vars /\ Fairness

-----------------------------------------------------------------------------
(* Properties.                                                             *)

\* Every variable holds a value of its type.
MirrorTypeOK ==
  /\ content \in [Panes -> Screens]
  /\ dirty \in [Panes -> BOOLEAN]
  /\ inFrame \in [Panes -> BOOLEAN]
  /\ active \in Tabs
  /\ height \in [Clients -> 1..Lines]
  /\ ToSet(acted) \subseteq clients /\ applied \in 0..Lines
  /\ clients \subseteq Clients
  /\ \A c \in Clients : sent[c] \in Copies /\ shown[c].screens \in Copies
  /\ flush.todo \subseteq clients
  /\ waiting \in [Clients -> Nat]
  /\ events \in 0..MaxEvents

\* What client c will show once it has applied all that was built for it.
Outcome(c) ==
  FoldLeft(Apply, shown[c],
           down[c] \o (IF c \in flush.todo THEN flush.frames[c] ELSE <<>>))

\* The server computes every delta against what it believes the client holds.
\* The belief is true: once the client has applied the frames that were built
\* for it, each remembered pane shows exactly the remembered rows.
BaselineTrue ==
  \A c \in clients : ~full[c].on =>
    \A p \in DOMAIN sent[c] :
      /\ p \in DOMAIN Outcome(c).screens
      /\ Outcome(c).screens[p] = sent[c][p]

Mirrored(c) ==
  /\ shown[c].panes = ActivePanes
  /\ \A p \in ActivePanes :
       p \in DOMAIN shown[c].screens /\ shown[c].screens[p] = content[p]

\* When programs, users and connections come to rest, every attached client
\* ends up showing the panes of the active tab as they are.
EventuallyMirrored == <>[](\A c \in clients : Mirrored(c))

\* Whatever the others made clean before they left, a client that is alone in
\* the end shows the panes as they are.
LoneMirrored ==
  <>[](Cardinality(clients) <= 1) => <>[](\A c \in clients : Mirrored(c))
=============================================================================

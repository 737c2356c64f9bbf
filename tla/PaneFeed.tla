------------------------------- MODULE PaneFeed -------------------------------
(***************************************************************************)
(* How the output of a shell reaches the screen of its pane                *)
(* (pytmuxlib/serverpty.py): a small chunk is fed at once, a burst waits   *)
(* in a buffer that a task of the event loop, the drain, feeds one slice   *)
(* per turn while the reader is paused.  Panes are respawned and closed,   *)
(* shells exit and the server restarts in place in between.                *)
(*                                                                         *)
(* A chunk is one slice (FEED_SLICE bytes) of what a shell writes; what    *)
(* matters of it is whether it begins with a full clear or switches to or  *)
(* from the alternate screen.  The event loop is its queue of ready        *)
(* callbacks, run from the head.                                           *)
(***************************************************************************)
EXTENDS Integers, FiniteSets, SequencesExt

CONSTANTS
  Panes,      \* the panes of the server
  PanesOf,    \* PanesOf[b]: the panes a server with the backend b begins with
  Coalesces,  \* the option coalesce_repaints
  Script,     \* Script[n]: what the n-th chunk of every shell is
  Batch,      \* bound: chunks that one read returns
  MaxEvents   \* bound: respawns and restarts the user asks for

ASSUME FeedAssumption ==
  /\ DOMAIN PanesOf \subseteq {"fd", "thread", "daemon"}
  /\ \A b \in DOMAIN PanesOf : PanesOf[b] \subseteq Panes
  /\ Coalesces \in BOOLEAN
  /\ Script \in Seq({"text", "clear", "enter", "leave"})
  /\ Batch \in Nat \ {0} /\ MaxEvents \in Nat

VARIABLES
  backend,   \* who reads the PTYs: the loop ("fd", POSIX), a thread that posts to the
             \* loop ("thread", Windows), the PTY host daemon ("daemon")
  shell,     \* the number of the shell in each pane
  up,        \* the panes that are open
  taken,     \* how many chunks of its shell were read from the PTY
  ended,     \* the panes whose shell has exited
  reading,   \* the panes whose reader is not paused
  inRead,    \* the panes whose thread or daemon passed the gate of the pause
  fed,       \* what the emulator of each pane was given
  feedbuf,   \* Pane._feedbuf
  task,      \* Pane._feed_task, 0 for None
  ready,     \* the callbacks that the event loop has to run
  gc,        \* the collector: is it on, was it on, and _gc_drain_depth
  events,    \* respawns and restarts asked for (bounded by MaxEvents)
  restart,   \* what became of the restarts: "none", "saved", "given up" (any of them)
  saved      \* the screens of a restart that was saved and not executed yet

ptyVars == <<backend, shell, up, taken, ended>>
readVars == <<reading, inRead>>
restartVars == <<events, restart, saved>>
vars == <<backend, shell, up, taken, ended, reading, inRead, fed, feedbuf, task, ready, gc,
          events, restart, saved>>

NotSaved == [p \in {} |-> <<>>]

-----------------------------------------------------------------------------
(* Chunks.                                                                 *)

Chunk(s, n) == [of |-> s, n |-> n]
Kind(c) == Script[c.n]
IsSwitch(c) == Kind(c) \in {"enter", "leave"}

\* Is the alternate screen shown after these chunks?
AltAfter(cs) ==
  \E i \in DOMAIN cs :
    Kind(cs[i]) = "enter" /\ \A j \in DOMAIN cs : j > i => ~IsSwitch(cs[j])

Clears(cs) == {i \in DOMAIN cs : Kind(cs[i]) = "clear"}

\* Mutant: one clear is enough, and is dropped too.
CoalescedPast(p, cs) ==
  IF /\ Coalesces /\ AltAfter(fed[p])
     /\ \A i \in DOMAIN cs : ~IsSwitch(cs[i])
     /\ Cardinality(Clears(cs)) >= 1
  THEN SubSeq(cs, Max(Clears(cs)) + 1, Len(cs))
  ELSE cs

\* What is left of a buffer of repaints: the last frame.
Coalesced(p, cs) ==
  IF /\ Coalesces /\ AltAfter(fed[p])
     /\ \A i \in DOMAIN cs : ~IsSwitch(cs[i])
     /\ Cardinality(Clears(cs)) >= 2
  THEN SubSeq(cs, Max(Clears(cs)), Len(cs))
  ELSE cs

-----------------------------------------------------------------------------
(* The queue of the loop.                                                  *)

ReadEvent(p) == [t |-> "read", pane |-> p]
Posted(p, cs) == [t |-> "data", pane |-> p, of |-> shell[p], chunks |-> cs]
PostedEnd(p) == [t |-> "eof", pane |-> p, of |-> shell[p]]
Drain(p, id, started, cancelled, rest) ==
  [t |-> "drain", pane |-> p, id |-> id, started |-> started, cancelled |-> cancelled,
   rest |-> rest]

IsDrain(e) == e.t = "drain"
DrainIds == {e.id : e \in {x \in ToSet(ready) : IsDrain(x)}}
FreeId == CHOOSE i \in 1..(Cardinality(DrainIds) + 1) : i \notin DrainIds

\* remove_reader takes the event of the descriptor, if there is one, out of the queue.
Unread(q, p) ==
  IF ReadEvent(p) \in ToSet(q)
  THEN RemoveAt(q, CHOOSE i \in DOMAIN q : q[i] = ReadEvent(p))
  ELSE q

\* Mutant: the task is forgotten and not cancelled.
Forgotten(q, ps) == q

\* Task.cancel: the drain of these panes gets the cancellation at its next turn.
Cancelled(q, ps) ==
  [i \in DOMAIN q |->
     IF IsDrain(q[i]) /\ q[i].pane \in ps /\ q[i].id = task[q[i].pane]
     THEN [q[i] EXCEPT !.cancelled = TRUE] ELSE q[i]]

\* _stop_pane_feed
StopFeed(ps) ==
  /\ task' = [p \in Panes |-> IF p \in ps THEN 0 ELSE task[p]]
  /\ feedbuf' = [p \in Panes |-> IF p \in ps THEN <<>> ELSE feedbuf[p]]

-----------------------------------------------------------------------------
(* The collector is off while a drain runs.                                *)

\* Mutant: every drain remembers anew whether the collector was on.
EnteredAnew(g) == [on |-> FALSE, was |-> g.on, depth |-> g.depth + 1]

Entered(g) ==
  IF g.depth = 0 THEN [on |-> FALSE, was |-> g.on, depth |-> 1]
  ELSE [g EXCEPT !.depth = @ + 1]

Left(g) ==
  LET d == IF g.depth > 0 THEN g.depth - 1 ELSE 0
  IN  [g EXCEPT !.depth = d, !.on = @ \/ (d = 0 /\ g.was)]

-----------------------------------------------------------------------------
Init ==
  /\ backend \in DOMAIN PanesOf /\ up = PanesOf[backend]
  /\ shell = [p \in Panes |-> 1]
  /\ taken = [p \in Panes |-> 0] /\ ended = {}
  /\ reading = up /\ inRead = {}
  /\ fed = [p \in Panes |-> <<>>] /\ feedbuf = [p \in Panes |-> <<>>]
  /\ task = [p \in Panes |-> 0]
  /\ ready = <<>>
  /\ gc = [on |-> TRUE, was |-> TRUE, depth |-> 0]
  /\ events = 0 /\ restart = "none" /\ saved = NotSaved

-----------------------------------------------------------------------------
(* The PTY.                                                                *)

ShellExits(p) ==
  /\ p \in up \ ended
  /\ ended' = ended \cup {p}
  /\ UNCHANGED <<backend, shell, up, taken, readVars, fed, feedbuf, task, ready, gc, restartVars>>

\* The chunks that one read of the PTY may return.
Reads(p) ==
  {[i \in 1..k |-> Chunk(shell[p], taken[p] + i)] : k \in 1..Min({Batch, Len(Script) - taken[p]})}

\* The selector finds the descriptor of a pane readable.
Select(p) ==
  /\ backend = "fd"
  /\ p \in up \cap reading
  /\ taken[p] < Len(Script) \/ p \in ended
  /\ ReadEvent(p) \notin ToSet(ready)
  /\ ready' = Append(ready, ReadEvent(p))
  /\ UNCHANGED <<ptyVars, readVars, fed, feedbuf, task, gc, restartVars>>

\* Another reader finds the gate of the pause open and goes into its read,
ThreadEnters(p) ==
  /\ backend # "fd"
  /\ p \in (up \cap reading) \ inRead
  /\ PostedEnd(p) \notin ToSet(ready)
  /\ inRead' = inRead \cup {p}
  /\ UNCHANGED <<ptyVars, reading, fed, feedbuf, task, ready, gc, restartVars>>

\* and posts what it read, whatever became of the gate meanwhile.  The thread
\* looks at the gate before the next read; the daemon reads on until the frame
\* that pauses it has arrived.
ThreadPosts(p) ==
  /\ p \in up \cap inRead
  /\ taken[p] < Len(Script)
  /\ \E cs \in Reads(p) :
       /\ taken' = [taken EXCEPT ![p] = @ + Len(cs)]
       /\ ready' = Append(ready, Posted(p, cs))
  /\ \/ inRead' = inRead \ {p}
     \/ backend = "daemon" /\ UNCHANGED inRead
  /\ UNCHANGED <<backend, shell, up, ended, reading, fed, feedbuf, task, gc, restartVars>>

\* Of a shell that exited it posts the end and reads no more.
ThreadEnds(p) ==
  /\ p \in up \cap inRead \cap ended
  /\ ready' = Append(ready, PostedEnd(p))
  /\ inRead' = inRead \ {p}
  /\ UNCHANGED <<ptyVars, reading, fed, feedbuf, task, gc, restartVars>>

-----------------------------------------------------------------------------
(* Callbacks of the loop.  q is the queue without the one that runs.       *)

\* A drain of the pane exists: it will find the chunks.
JoinDrain(p, cs, q) ==
  /\ task[p] # 0
  /\ feedbuf' = [feedbuf EXCEPT ![p] = Coalesced(p, @ \o cs)]
  /\ ready' = q
  /\ UNCHANGED <<reading, fed, task>>

\* A small chunk outside a burst goes straight to the screen.
FeedInline(p, cs, q) ==
  /\ task[p] = 0
  /\ Len(cs) = 1
  /\ fed' = [fed EXCEPT ![p] = @ \o cs]
  /\ ready' = q
  /\ UNCHANGED <<reading, feedbuf, task>>

\* Mutant: the reader is not paused.
BeginDrainUnpaused(p, cs, q) ==
  /\ task[p] = 0
  /\ feedbuf' = [feedbuf EXCEPT ![p] = Coalesced(p, @ \o cs)]
  /\ task' = [task EXCEPT ![p] = FreeId]
  /\ ready' = Append(q, Drain(p, FreeId, FALSE, FALSE, <<>>))
  /\ UNCHANGED <<reading, fed>>

\* A burst: by size, or by the pace of small chunks, which is left open here.
BeginDrain(p, cs, q) ==
  /\ task[p] = 0
  /\ feedbuf' = [feedbuf EXCEPT ![p] = Coalesced(p, @ \o cs)]
  /\ reading' = reading \ {p}
  /\ task' = [task EXCEPT ![p] = FreeId]
  /\ ready' = Append(Unread(q, p), Drain(p, FreeId, FALSE, FALSE, <<>>))
  /\ UNCHANGED fed

\* Mutant: a small chunk does not look for a drain.
OnPaneDataInline(p, cs, q) ==
  \/ JoinDrain(p, cs, q)
  \/ /\ Len(cs) = 1
     /\ fed' = [fed EXCEPT ![p] = @ \o cs]
     /\ ready' = q
     /\ UNCHANGED <<reading, feedbuf, task>>
  \/ BeginDrain(p, cs, q)

OnPaneData(p, cs, q) ==
  \/ JoinDrain(p, cs, q)
  \/ FeedInline(p, cs, q)
  \/ BeginDrain(p, cs, q)

\* Mutant: the reader is not stopped.
PaneEofAttached(p, q) ==
  /\ ready' = Cancelled(q, {p})
  /\ StopFeed({p})
  /\ up' = up \ {p}
  /\ UNCHANGED <<backend, shell, taken, ended, readVars, fed, gc, restartVars>>

\* The feed stops, the reader stops and the pane goes.
PaneEof(p, q) ==
  /\ ready' = Unread(Cancelled(q, {p}), p)
  /\ StopFeed({p})
  /\ up' = up \ {p}
  /\ reading' = reading \ {p}
  /\ inRead' = inRead \ {p}
  /\ UNCHANGED <<backend, shell, taken, ended, fed, gc, restartVars>>

Runs(t) == ready # <<>> /\ Head(ready).t = t

\* The read of the descriptor: data as long as there is some.
RunRead ==
  /\ Runs("read")
  /\ LET p == Head(ready).pane IN
     \/ /\ taken[p] < Len(Script)
        /\ \E cs \in Reads(p) :
             /\ taken' = [taken EXCEPT ![p] = @ + Len(cs)]
             /\ OnPaneData(p, cs, Tail(ready))
        /\ UNCHANGED <<backend, shell, up, ended, inRead, gc, restartVars>>
     \/ /\ p \in ended
        /\ PaneEof(p, Tail(ready))

\* The reader was not stopped since.
Live(e) == e.pane \in up /\ e.of = shell[e.pane]

RunData ==
  /\ Runs("data")
  /\ LET e == Head(ready) IN
     /\ \/ Live(e) /\ OnPaneData(e.pane, e.chunks, Tail(ready))
        \/ ~Live(e) /\ ready' = Tail(ready) /\ UNCHANGED <<reading, fed, feedbuf, task>>
     /\ UNCHANGED <<ptyVars, inRead, gc, restartVars>>

RunEof ==
  /\ Runs("eof")
  /\ LET e == Head(ready) IN
     \/ Live(e) /\ PaneEof(e.pane, Tail(ready))
     \/ /\ ~Live(e) /\ ready' = Tail(ready)
        /\ UNCHANGED <<ptyVars, readVars, fed, feedbuf, task, gc, restartVars>>

-----------------------------------------------------------------------------
(* A turn of a drain: _feed_drain from one await to the next.              *)

\* Cancelled before its first turn it never begins, and nothing of it is undone.
DrainVanishes(d) ==
  /\ d.cancelled /\ ~d.started
  /\ ready' = Tail(ready)
  /\ UNCHANGED <<reading, fed, feedbuf, task, gc>>

\* Cancelled later it runs its finally clause: the reader stays paused.
DrainStops(d) ==
  /\ d.cancelled /\ d.started
  /\ task' = [task EXCEPT ![d.pane] = 0]
  /\ gc' = Left(gc)
  /\ ready' = Tail(ready)
  /\ UNCHANGED <<reading, fed, feedbuf>>

\* What is left of the buffer it took, else the buffer that filled meanwhile.
Todo(d) == IF d.rest # <<>> THEN d.rest ELSE feedbuf[d.pane]

DrainSlice(d) ==
  /\ ~d.cancelled /\ Todo(d) # <<>>
  /\ fed' = [fed EXCEPT ![d.pane] = Append(@, Head(Todo(d)))]
  /\ feedbuf' = IF d.rest # <<>> THEN feedbuf ELSE [feedbuf EXCEPT ![d.pane] = <<>>]
  /\ ready' = Append(Tail(ready), Drain(d.pane, d.id, TRUE, FALSE, Tail(Todo(d))))
  /\ gc' = IF d.started THEN gc ELSE Entered(gc)
  /\ UNCHANGED <<reading, task>>

\* Mutant: the reader is not resumed.
DrainEndsPaused(d) ==
  /\ ~d.cancelled /\ Todo(d) = <<>>
  /\ task' = [task EXCEPT ![d.pane] = 0]
  /\ gc' = Left(gc)
  /\ ready' = Tail(ready)
  /\ UNCHANGED <<reading, fed, feedbuf>>

DrainEnds(d) ==
  /\ ~d.cancelled /\ Todo(d) = <<>>
  /\ task' = [task EXCEPT ![d.pane] = 0]
  /\ gc' = Left(gc)
  /\ reading' = reading \cup ({d.pane} \cap up)
  /\ ready' = Tail(ready)
  /\ UNCHANGED <<fed, feedbuf>>

RunDrain ==
  /\ Runs("drain")
  /\ LET d == Head(ready) IN DrainVanishes(d) \/ DrainStops(d) \/ DrainSlice(d) \/ DrainEnds(d)
  /\ UNCHANGED <<ptyVars, inRead, restartVars>>

-----------------------------------------------------------------------------
(* Commands: turns of the loop that a client causes.                       *)

\* The shell of a pane is replaced: feed stopped, PTY retired, screen made anew.
Respawn(p) ==
  /\ saved = NotSaved
  /\ p \in up
  /\ events < MaxEvents /\ events' = events + 1
  /\ StopFeed({p})
  /\ ready' = Unread(Cancelled(ready, {p}), p)
  /\ shell' = [shell EXCEPT ![p] = @ + 1]
  /\ taken' = [taken EXCEPT ![p] = 0]
  /\ ended' = ended \ {p}
  /\ fed' = [fed EXCEPT ![p] = <<>>]
  /\ reading' = reading \cup {p}
  /\ inRead' = inRead \ {p}
  /\ UNCHANGED <<backend, up, gc, restart, saved>>

\* A pane, its window or its popup is closed.
ClosePane(p) ==
  /\ saved = NotSaved
  /\ p \in up
  /\ PaneEof(p, ready)

\* restart_server: what waits is fed, the screens are saved, and the new image
\* is executed a moment later - unless they could not be saved.
Restart ==
  /\ backend = "fd"
  /\ saved = NotSaved /\ up # {}
  /\ events < MaxEvents /\ events' = events + 1
  /\ fed' = [p \in Panes |-> IF p \in up THEN fed[p] \o feedbuf[p] ELSE fed[p]]
  /\ StopFeed(up)
  /\ ready' = Cancelled(ready, up)
  /\ \/ /\ saved' = [p \in up |-> fed'[p]]
        /\ restart' = IF restart = "none" THEN "saved" ELSE restart
     \/ saved' = saved /\ restart' = "given up"
  /\ UNCHANGED <<ptyVars, readVars, gc>>

\* The new image adopts the PTYs and shows the saved screens.
Exec ==
  /\ saved # NotSaved
  /\ fed' = [p \in Panes |-> IF p \in up THEN saved[p] ELSE fed[p]]
  /\ reading' = up
  /\ ready' = <<>>
  /\ feedbuf' = [p \in Panes |-> <<>>]
  /\ task' = [p \in Panes |-> 0]
  /\ gc' = [on |-> TRUE, was |-> TRUE, depth |-> 0]
  /\ saved' = NotSaved
  /\ UNCHANGED <<ptyVars, inRead, events, restart>>

RunReady == RunRead \/ RunData \/ RunEof \/ RunDrain

Next ==
  \/ \E p \in Panes :
       \/ ShellExits(p)
       \/ Select(p) \/ ThreadEnters(p) \/ ThreadPosts(p) \/ ThreadEnds(p)
       \/ Respawn(p) \/ ClosePane(p)
  \/ RunReady \/ Restart \/ Exec

Spec == Init /\ [][Next]_vars

\* The loop keeps running its callbacks, and the timer of a restart fires.
FairSpec == Spec /\ WF_vars(RunReady) /\ WF_vars(Exec)

-----------------------------------------------------------------------------
(* Properties.                                                             *)

Chunks == {Chunk(s, n) : s \in 1..(MaxEvents + 1), n \in DOMAIN Script}

\* Types of the state of the feed.
FeedTypeOK ==
  /\ shell \in [Panes -> 1..(MaxEvents + 1)]
  /\ taken \in [Panes -> 0..Len(Script)]
  /\ up \subseteq Panes /\ ended \subseteq Panes
  /\ reading \subseteq up /\ inRead \subseteq up
  /\ \A p \in Panes : ToSet(fed[p]) \cup ToSet(feedbuf[p]) \subseteq Chunks
  /\ \A p \in Panes : task[p] \in {0} \cup DrainIds
  /\ gc.depth \in 0..Cardinality(DrainIds)

\* The chunks of a pane that a callback in the queue still has to feed.
Held(p, e) ==
  CASE e.t = "drain" /\ e.pane = p /\ ~e.cancelled -> ToSet(e.rest)
    [] e.t = "data" /\ e.pane = p                   -> ToSet(e.chunks)
    [] OTHER                                        -> {}

Waiting(p) == ToSet(feedbuf[p]) \cup UNION {Held(p, e) : e \in ToSet(ready)}

\* The n-th chunk was drawn over: it belongs to the alternate screen, and that
\* same screen is cleared by a later chunk that was read too.
DrawnOver(p, n) ==
  /\ AltAfter([i \in 1..(n - 1) |-> Chunk(shell[p], i)])
  /\ \E m \in (n + 1)..taken[p] :
       /\ Script[m] = "clear"
       /\ \A i \in n..m : Script[i] \notin {"enter", "leave"}

ReachesScreen(p, n) ==
  Chunk(shell[p], n) \in ToSet(fed[p]) \cup Waiting(p) \/ DrawnOver(p, n)

\* What a pane shows comes from its present shell, in the order that shell wrote
\* it, each chunk at most once: no drain of an earlier shell, and no second drain,
\* mixes into it (_stop_pane_feed, _on_pane_data).
FedInOrder ==
  \A p \in up : \A i \in DOMAIN fed[p] :
    /\ fed[p][i].of = shell[p]
    /\ i > 1 => fed[p][i - 1].n < fed[p][i].n

\* Of what the loop read from a descriptor nothing is lost but repaints that a later
\* frame of the same alternate screen draws over (coalesce_alt_repaints), as long as
\* no restart throws away what a drain holds.
LossOnlyRepaints ==
  backend = "fd" /\ restart = "none" =>
  \A p \in up : \A n \in 1..taken[p] : ReachesScreen(p, n)

\* The end of a shell that is read by a descriptor is handled when all that was read
\* is fed: the cancellation of the drain in _pane_eof finds nothing (its comment).
EofFindsNothing ==
  [][backend = "fd" /\ RunReady => \A p \in up \ up' : Waiting(p) = {}]_vars

\* The collector is off exactly while drains run, in whatever order the drains of
\* several panes begin, end and are cancelled (_gc_drain_enter, _gc_drain_exit).
CollectorBack ==
  /\ gc.depth = Cardinality({e \in ToSet(ready) : IsDrain(e) /\ e.started})
  /\ gc.on <=> gc.depth = 0

\* A pane has one drain that was not cancelled, and knows it: none is left over by
\* a respawn, an end of file or a restart that was given up.
OneDrain ==
  \A p \in Panes :
    {e.id : e \in {x \in ToSet(ready) : IsDrain(x) /\ x.pane = p /\ ~x.cancelled}}
      = {task[p]} \ {0}

\* The reader is detached only for a while (_on_pane_data), unless a restart was
\* given up in the middle of a burst.
ReaderComesBack ==
  \A p \in Panes : (p \in up \ reading) ~> (p \in reading \/ p \notin up \/ restart = "given up")
=============================================================================

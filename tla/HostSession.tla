----------------------------- MODULE HostSession -----------------------------
(***************************************************************************)
(* The PTY host composed with the pytmux servers that use it, one after    *)
(* the other: a server lists what the host kept, restores its tabs from    *)
(* the resume file, prunes the shells of a dead predecessor, opens, splits *)
(* and kills panes, and restarts into a successor or crashes.              *)
(*                                                                         *)
(* It replaces the arbitrary peers of PtyHost by the server's own code     *)
(* (serverio.serve, serverpersist, serverpty, ptyhostclient).  A server is *)
(* one event loop: what it does between two awaits is one action.          *)
(***************************************************************************)
EXTENDS PtyHost

CONSTANT Events  \* what may happen besides a first start: see EventNames

EventNames == {"tab", "split", "kill", "restart", "crash", "list_timeout", "slow_host"}
ASSUME EventsAssumption == Events \subseteq EventNames

VARIABLES
  phase,    \* how far a server process is: see Phases
  cur,      \* self._pty_host: its connection, 0 = None
  cbs,      \* PtyHostClient._cb: panes with callbacks on that connection
  tabs,     \* the tree: one sequence of pane ids (leaf order) per tab
  seq,      \* self._pane_seq
  listed,   \* what list_panes returned
  screen,   \* what was fed to a pane's screen: <<PTY, chunk>> in order
  resume    \* the resume file a server was started with

srvVars == <<phase, cur, cbs, tabs, seq, listed, screen, resume>>
sessionVars == <<hostVars, srvVars>>
hostSide == <<hostUp, stop, writer, ownVars, spawning, paneVars, reaping, connVars,
              wdVars, shell, out>>

Phases == {"none", "boot", "listing", "listed", "run", "leaving", "ending", "gone"}
Blank  == [p \in PaneIds |-> <<>>]
NoFile == [tabs |-> {}, screen |-> Blank]
NoList == [panes |-> {}, prev |-> "unknown"]

PanesOf(ts) == UNION {{t[i] : i \in 1..Len(t)} : t \in ts}
\* A tab without one of its panes; the others keep their order.
Removed(t, p) ==
  IF \E i \in 1..Len(t) : t[i] = p
  THEN LET i == CHOOSE j \in 1..Len(t) : t[j] = p
       IN SubSeq(t, 1, i - 1) \o SubSeq(t, i + 1, Len(t))
  ELSE t

\* A tab goes with its last pane.  Mutant: it stays behind, empty.
WithoutButTab(ts, p) == {Removed(t, p) : t \in ts}
Without(ts, p) == {Removed(t, p) : t \in ts} \ {<<>>}

SessionInit ==
  /\ HostInit
  /\ phase = [s \in Owners |-> "none"] /\ cur = [s \in Owners |-> 0]
  /\ cbs = [s \in Owners |-> {}] /\ tabs = [s \in Owners |-> {}]
  /\ seq = [s \in Owners |-> 0] /\ listed = [s \in Owners |-> NoList]
  /\ screen = [s \in Owners |-> Blank] /\ resume = [s \in Owners |-> NoFile]

-----------------------------------------------------------------------------
(* The wire, seen from the server *)

\* One frame op(p) for every pane of S, in the order in which a Python set yields
\* them: any.
Frames(op, S) ==
  {fs \in [1..Cardinality(S) -> {PaneCtl(op, p) : p \in S}] :
     \A p \in S : \E i \in 1..Cardinality(S) : fs[i] = PaneCtl(op, p)}

\* Fire and forget: _send writes to a transport that may be dead.
Send(s, fs) ==
  up' = IF cur[s] # 0 /\ popen[cur[s]] = "open" /\ ~hclosed[cur[s]]
          THEN [up EXCEPT ![cur[s]] = @ \o fs] ELSE up

FreshConn(c) == popen[c] = "none" /\ \A d \in Conns : d < c => popen[d] # "none"
Open(s, c, fs) ==
  /\ hostUp /\ ~stop /\ FreshConn(c)
  /\ popen' = [popen EXCEPT ![c] = "open"]
  /\ powner' = [powner EXCEPT ![c] = s] /\ good' = [good EXCEPT ![c] = TRUE]
  /\ up' = [up EXCEPT ![c] = fs]

Busy(s) == phase[s] \in {"listing", "listed", "run", "leaving", "ending"}
Got(s, op) == /\ Busy(s) /\ cur[s] # 0
              /\ down[cur[s]] # <<>> /\ Head(down[cur[s]]).op = op
              /\ down' = [down EXCEPT ![cur[s]] = Tail(@)]
Received(s) == Head(down[cur[s]])

\* Starting a server takes longer (0.4 s and more) than the host needs for what it
\* has already received, unless a spawn, a reap or its event loop is slow.
HostCaughtUp ==
  \/ "slow_host" \in Events
  \/ /\ reaping = {}
     /\ \A c \in Conns : popen[c] # "none" =>
          hpc[c] = "closed" \/ (hpc[c] = "serve" /\ up[c] = <<>>)

-----------------------------------------------------------------------------
(* serve(): connect, list, restore or start fresh, prune *)

\* The launcher starts a server when none is there to attach to.
Launch(s) ==
  /\ phase[s] = "none" /\ \A t \in Owners : phase[t] \in {"none", "gone"}
  /\ phase' = [phase EXCEPT ![s] = "boot"]
  /\ UNCHANGED <<hostVars, cur, cbs, tabs, seq, listed, screen, resume>>

\* ensure_connected, then list_panes.  A predecessor that is still leaving (0.2 s)
\* is gone by the time its successor has started.
Connect(s, c) ==
  /\ phase[s] = "boot" /\ HostCaughtUp /\ \A t \in Owners : phase[t] # "leaving"
  /\ Open(s, c, <<OwnerCtl(s), Ctl("list")>>)
  /\ phase' = [phase EXCEPT ![s] = "listing"] /\ cur' = [cur EXCEPT ![s] = c]
  /\ UNCHANGED <<hostSide, down, alive, cbs, tabs, seq, listed, screen, resume>>

\* The reply resolves the future; the read loop may go on before serve() does.
GotList(s) ==
  /\ phase[s] = "listing" /\ Got(s, "list_reply")
  /\ listed' = [listed EXCEPT ![s] = [panes |-> Received(s).panes,
                                      prev |-> Received(s).prev]]
  /\ phase' = [phase EXCEPT ![s] = "listed"]
  /\ UNCHANGED <<hostSide, peerVars, up, alive, cur, cbs, tabs, seq, screen, resume>>

\* No reply within 3 s: serve() goes on with the empty set.
ListTimesOut(s) ==
  /\ "list_timeout" \in Events /\ phase[s] = "listing"
  /\ phase' = [phase EXCEPT ![s] = "listed"]
  /\ UNCHANGED <<hostVars, cur, cbs, tabs, seq, listed, screen, resume>>

Highest(S) == IF S = {} THEN 0 ELSE CHOOSE p \in S : \A q \in S : q <= p

\* A tab comes back only if every pane of it is alive.  Mutant: one dead pane
\* fails the whole restore.
RestorableAll(s) ==
  IF PanesOf(resume[s].tabs) \subseteq listed[s].panes THEN resume[s].tabs ELSE {}
Restorable(s) == {t \in resume[s].tabs : PanesOf({t}) \subseteq listed[s].panes}
\* Of a tab that does not, the panes built before the missing one are closed.
HalfBuilt(s) ==
  UNION {{t[i] : i \in {j \in 1..Len(t) : \A k \in 1..j : t[k] \in listed[s].panes}}
           : t \in resume[s].tabs \ Restorable(s)}

\* Panes nobody restored, if the previous owner is certainly dead.  Mutants: never;
\* before the restored panes are in the tree.
PrunedNone(s, known) == {}
PrunedEarly(s, known) == IF listed[s].prev = "dead" THEN listed[s].panes ELSE {}
Pruned(s, known) == IF listed[s].prev = "dead" THEN listed[s].panes \ known ELSE {}

\* The id allocator after adoption.  Mutant: only what was restored counts, as it
\* was before _adopt_host_panes.
SeqFromFile(s) == Highest(PanesOf(Restorable(s)))
SeqAdopted(s) == Highest(listed[s].panes)

\* _adopt_host_panes, restore_resume_state, the default session when nothing came
\* back, and _prune_unknown_host_panes: no await in between.
Restore(s) ==
  LET back  == Restorable(s)
      top   == SeqAdopted(s)
      fresh == IF back = {} THEN {top + 1} ELSE {}
      shown == PanesOf(back) \cup fresh
  IN /\ phase[s] = "listed" /\ fresh \subseteq PaneIds
     /\ tabs' = [tabs EXCEPT ![s] = back \cup {<<p>> : p \in fresh}]
     /\ screen' = [screen EXCEPT ![s] = [p \in PaneIds |->
                     IF p \in PanesOf(back) THEN resume[s].screen[p] ELSE <<>>]]
     /\ cbs' = [cbs EXCEPT ![s] = shown]
     /\ seq' = [seq EXCEPT ![s] = top + Cardinality(fresh)]
     /\ \E half \in Frames("close", HalfBuilt(s)), new \in Frames("spawn", fresh),
           stale \in Frames("close", Pruned(s, shown)) : Send(s, half \o new \o stale)
     /\ resume' = [resume EXCEPT ![s] = NoFile]
     /\ listed' = [listed EXCEPT ![s] = NoList]
     /\ phase' = [phase EXCEPT ![s] = "run"]
     /\ UNCHANGED <<hostSide, peerVars, down, alive, cur>>

-----------------------------------------------------------------------------
(* The read loop of the client *)

\* Output goes to the callback of its pane and nowhere if there is none.
ShowOutput(s) ==
  LET f == Received(s)
  IN /\ Got(s, "data")
     /\ screen' = [screen EXCEPT ![s] = [p \in PaneIds |->
          IF p \in cbs[s]
            THEN @[p] \o [i \in 1..Len(f.data[p]) |-> <<f.src[p], f.data[p][i]>>]
            ELSE @[p]]]
     /\ UNCHANGED <<hostSide, peerVars, up, alive, phase, cur, cbs, tabs, seq, listed, resume>>

\* _pane_eof, of an exit frame or of a killed pane: close at the host, unregister,
\* take it out of the tree.  A server without panes ends.
DropPane(s, p) ==
  /\ cbs' = [cbs EXCEPT ![s] = @ \ {p}]
  /\ tabs' = [tabs EXCEPT ![s] = Without(@, p)]
  /\ screen' = [screen EXCEPT ![s][p] = <<>>]
  /\ phase' = IF tabs'[s] = {} /\ phase[s] = "run"
                THEN [phase EXCEPT ![s] = "ending"] ELSE phase
  /\ IF p \in cbs[s] THEN Send(s, <<PaneCtl("close", p)>>) ELSE UNCHANGED up

OnExit(s) ==
  /\ Got(s, "exit") /\ Received(s).pane \in cbs[s]
  /\ DropPane(s, Received(s).pane)
  /\ UNCHANGED <<hostSide, peerVars, alive, cur, seq, listed, resume>>

OnOther(s) ==
  /\ \/ Got(s, "spawned")
     \/ phase[s] # "listing" /\ Got(s, "list_reply")
     \/ Got(s, "exit") /\ Received(s).pane \notin cbs[s]
  /\ UNCHANGED <<hostSide, peerVars, up, alive, srvVars>>

-----------------------------------------------------------------------------
(* What users do *)

\* Pane ids only grow.  Mutant: the smallest id that is free in the tree.
NextFreeId(s) ==
  IF PaneIds \subseteq PanesOf(tabs[s]) THEN MaxPane + 1
  ELSE CHOOSE p \in PaneIds \ PanesOf(tabs[s]) : \A q \in PaneIds \ PanesOf(tabs[s]) : p <= q
NextPaneId(s) == seq[s] + 1

\* _spawn_pane_host: the callbacks are registered before the spawn frame leaves.
SpawnPane(s, newTabs) ==
  LET p == NextPaneId(s)
  IN /\ phase[s] = "run" /\ cur[s] # 0 /\ p \in PaneIds /\ Len(up[cur[s]]) < MaxUp
     /\ seq' = [seq EXCEPT ![s] = p]
     /\ cbs' = [cbs EXCEPT ![s] = @ \cup {p}]
     /\ tabs' = [tabs EXCEPT ![s] = newTabs]
     /\ Send(s, <<PaneCtl("spawn", p)>>)
     /\ UNCHANGED <<hostSide, peerVars, down, alive, phase, cur, listed, screen, resume>>

NewTab(s) == "tab" \in Events /\ SpawnPane(s, tabs[s] \cup {<<NextPaneId(s)>>})
SplitTab(s, t) ==
  /\ "split" \in Events /\ t \in tabs[s]
  /\ SpawnPane(s, (tabs[s] \ {t}) \cup {Append(t, NextPaneId(s))})

KillPane(s, p) ==
  /\ "kill" \in Events /\ phase[s] = "run" /\ p \in PanesOf(tabs[s])
  /\ DropPane(s, p)
  /\ UNCHANGED <<hostSide, peerVars, down, alive, cur, seq, listed, resume>>

-----------------------------------------------------------------------------
(* The end of a server *)

\* _restart_server_host: the resume file is written, the successor started, and
\* the exit follows 0.2 s later.  Until then the server still reads and shows.
Restart(s, t) ==
  /\ "restart" \in Events /\ phase[s] = "run" /\ phase[t] = "none"
  /\ tabs[s] # {}
  /\ resume' = [resume EXCEPT ![t] = [tabs |-> tabs[s], screen |-> screen[s]]]
  /\ phase' = [phase EXCEPT ![s] = "leaving", ![t] = "boot"]
  /\ UNCHANGED <<hostVars, cur, cbs, tabs, seq, listed, screen>>

Forget(s) ==
  /\ phase' = [phase EXCEPT ![s] = "gone"] /\ cur' = [cur EXCEPT ![s] = 0]
  /\ cbs' = [cbs EXCEPT ![s] = {}] /\ tabs' = [tabs EXCEPT ![s] = {}]
  /\ screen' = [screen EXCEPT ![s] = Blank] /\ listed' = [listed EXCEPT ![s] = NoList]
  /\ UNCHANGED <<seq, resume>>

\* _host_restart_exit: the connection goes, the panes stay with the host.
RestartExit(s) == phase[s] = "leaving" /\ OwnerDies(s) /\ Forget(s)
Crash(s) ==
  "crash" \in Events /\ Busy(s) /\ phase[s] # "leaving" /\ OwnerDies(s) /\ Forget(s)

\* shutdown(): a probe connection of its own carries the `shutdown` frame.
EndServer(s, c) ==
  /\ phase[s] = "ending" /\ hostUp /\ ~stop /\ FreshConn(c)
  /\ up' = [up EXCEPT ![c] = <<Ctl("probe"), Ctl("shutdown")>>]
  /\ popen' = [d \in Conns |-> IF d = c \/ d = cur[s] THEN "closed" ELSE popen[d]]
  /\ down' = [d \in Conns |-> IF d = cur[s] THEN <<>> ELSE down[d]]
  /\ powner' = [powner EXCEPT ![c] = s] /\ good' = [good EXCEPT ![c] = TRUE]
  /\ alive' = alive \ {s}
  /\ Forget(s)
  /\ UNCHANGED hostSide

\* _on_host_lost and _reconnect_host: a new client, on which no pane is registered.
OnHostLost(s) ==
  /\ phase[s] \in {"run", "leaving"} /\ cur[s] # 0
  /\ hclosed[cur[s]] /\ down[cur[s]] = <<>>
  /\ cur' = [cur EXCEPT ![s] = 0] /\ cbs' = [cbs EXCEPT ![s] = {}]
  /\ UNCHANGED <<hostVars, phase, tabs, seq, listed, screen, resume>>

Reconnect(s, c) ==
  /\ phase[s] \in {"run", "leaving"} /\ cur[s] = 0
  /\ Open(s, c, <<OwnerCtl(s)>>)
  /\ cur' = [cur EXCEPT ![s] = c]
  /\ UNCHANGED <<hostSide, down, alive, phase, cbs, tabs, seq, listed, screen, resume>>

-----------------------------------------------------------------------------
ServerStep(s) ==
  \/ GotList(s) \/ ListTimesOut(s) \/ Restore(s)
  \/ ShowOutput(s) \/ OnExit(s) \/ OnOther(s)
  \/ RestartExit(s) \/ OnHostLost(s)
  \/ \E c \in Conns : Connect(s, c) \/ EndServer(s, c) \/ Reconnect(s, c)

UserStep(s) ==
  \/ Launch(s) \/ NewTab(s) \/ Crash(s)
  \/ \E t \in tabs[s] : SplitTab(s, t)
  \/ \E p \in PaneIds : KillPane(s, p)
  \/ \E t \in Owners : Restart(s, t)

SessionNext ==
  \/ (HostStep \/ ShellStep) /\ UNCHANGED srvVars
  \/ \E s \in Owners : ServerStep(s) \/ UserStep(s)
SessionSpec == SessionInit /\ [][SessionNext]_sessionVars

-----------------------------------------------------------------------------
(* Safety *)

Files == [tabs : SUBSET Seq(PaneIds), screen : [PaneIds -> Seq(Shells \X Nat)]]

\* The shape of a server's state: what serve() and PtyHostClient keep.
SessionTypeOK ==
  /\ TypeOK
  /\ phase \in [Owners -> Phases] /\ cur \in [Owners -> Conns \cup {0}]
  /\ cbs \in [Owners -> SUBSET PaneIds] /\ seq \in [Owners -> PaneIds \cup {0}]
  /\ \A s \in Owners :
       /\ \A t \in tabs[s] \cup resume[s].tabs : t \in Seq(PaneIds) /\ t # <<>>
       /\ \A p \in PaneIds : screen[s][p] \in Seq(Shells \X Nat)
       /\ listed[s].panes \subseteq PaneIds

Shown(s) == PanesOf(tabs[s])
Living(s) == phase[s] \notin {"none", "gone"}

\* Whatever restarts, crashes and spawns race, a screen shows the output of one
\* PTY, every chunk at most once and in the order it was read, as long as servers hear
\* of all panes when they start: one that is told of none gives out old numbers again.
ScreenInOrder ==
  \A s \in Owners, p \in PaneIds : \A i, j \in 1..Len(screen[s][p]) :
    i < j => /\ screen[s][p][i][1] = screen[s][p][j][1]
             /\ screen[s][p][i][2] < screen[s][p][j][2]

\* A living shell that some server shows, or that a resume file still promises to
\* one, is closed by nothing but the end of the whole host.
Claimed(p) == \E s \in Owners : Living(s) /\ p \in Shown(s) \cup PanesOf(resume[s].tabs)
ShownShellsSurvive ==
  [][~stop => \A p \in Registered :
       Claimed(p) /\ shell[shellOf[p]] = "live" => shell'[shellOf[p]] # "closed"]_sessionVars

\* A server's spawn never names a pane that the host has or is making: the new
\* tab would show somebody's old shell.
SpawnsAreFresh ==
  \A c \in Conns : hpc[c] = "serve" /\ up[c] # <<>> /\ Head(up[c]).op = "spawn"
                     => Head(up[c]).pane \notin Taken

\* A restart keeps every tab whose panes the host still has when its successor
\* restores, whatever else died, was opened or crashed in between.
RestartKeepsTabs ==
  [][\A s \in Owners : phase[s] = "listed" /\ phase'[s] = "run" =>
       \A t \in resume[s].tabs : PanesOf({t}) \subseteq Registered => t \in tabs'[s]]_sessionVars

\* When everything has settled, the host keeps no pane that no server shows.
Settling == \/ \E c \in Conns : /\ hpc[c] # "closed"
                                /\ up[c] # <<>> \/ hpc[c] \notin {"none", "serve"}
            \/ \E s \in Owners : phase[s] \notin {"none", "run", "gone"}
NothingLeaked ==
  hostUp /\ ~Settling /\ (\E s \in Owners : Living(s)) =>
    \A p \in Registered : \E s \in Owners : Living(s) /\ p \in Shown(s)

\* What the host kept while no server was connected is flushed to the successor for
\* the screens it restores: no output of a pane that is still to be restored is read
\* and thrown away.
GapOutputShown ==
  [][\A s \in Owners : cur[s] # 0 /\ down[cur[s]] # <<>> /\ Head(down[cur[s]]).op = "data"
         /\ down'[cur[s]] = Tail(down[cur[s]]) =>
       \A p \in PanesOf(resume[s].tabs) : Head(down[cur[s]]).data[p] = <<>>]_sessionVars
=============================================================================

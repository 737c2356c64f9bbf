------------------------------- MODULE PtyHost -------------------------------
(***************************************************************************)
(* The PTY host daemon (pytmuxlib/ptyhost.py): a long-lived process that   *)
(* owns every shell, serves one server connection at a time, keeps the     *)
(* output that nobody reads, and goes down on a `shutdown` frame or when   *)
(* its orphan watchdog finds the owning server dead.                       *)
(*                                                                         *)
(* The module is open: the peers (servers, probes, strangers) may send any *)
(* frame of the protocol at any time.  HostSession closes it with the      *)
(* server's side.  Every coroutine of the daemon is split exactly at its   *)
(* await points; what lies between two awaits is one action.               *)
(***************************************************************************)
EXTENDS Naturals, Sequences, FiniteSets

CONSTANTS
  Owners,       \* the server processes (their pids)
  NoOwner,      \* "no pid known"
  MaxPane,      \* pane ids are 1..MaxPane
  MaxShell,     \* bound: PTYs the backend creates
  MaxConn,      \* bound: connections ever opened
  MaxOut,       \* bound: chunks of output one shell produces
  MaxUp,        \* bound: frames to the host in flight on a connection
  MaxDown,      \* bound: frames from the host in flight on a connection
  PendingMax,   \* _PENDING_MAX, in chunks
  MaxPreauth,   \* _MAX_PREAUTH_CONNS
  PeerMoves,    \* what the peers do: ops they send, and the names in Moves
  WatchOn,      \* BOOLEAN: orphan_grace() > 0, the watchdog runs
  LateFirst,    \* BOOLEAN: a first frame may come after _PROBE_DECL_TIMEOUT
  SettleGivesUp,\* BOOLEAN: _settle_spawns may run into its 3 s limit
  AliveErrs,    \* BOOLEAN: is_alive may miss a living process (tasklist timeout)
  SpawnErrs     \* BOOLEAN: the backend may fail to make a PTY (OSError)

ASSUME BoundsAssumption ==
  /\ MaxPane \in Nat /\ MaxShell \in Nat /\ MaxConn \in Nat /\ MaxOut \in Nat
  /\ MaxUp \in Nat /\ MaxDown \in Nat /\ PendingMax \in Nat \ {0} /\ MaxPreauth \in Nat
ASSUME SwitchAssumption ==
  /\ WatchOn \in BOOLEAN /\ LateFirst \in BOOLEAN /\ SettleGivesUp \in BOOLEAN
  /\ AliveErrs \in BOOLEAN /\ SpawnErrs \in BOOLEAN
ASSUME PeersAssumption ==
  NoOwner \notin Owners


PaneIds == 1..MaxPane
Shells  == 1..MaxShell
Conns   == 1..MaxConn

VARIABLES
  hostUp,     \* the process runs (serve() has not returned)
  stop,       \* self._stop is set
  writer,     \* self._writer: the adopted connection, 0 = None
  ownerPid,   \* self._owner_pid
  prevOwner,  \* self._prev_owner_pid
  spawning,   \* self._spawning
  shellOf,    \* self.panes: the PTY of each registered pane, 0 = not there
  pending,    \* _PaneEntry.pending: output kept while no server is connected
  paused,     \* panes whose reader is paused
  reaping,    \* <<pane, PTY>> of the _finish_eof tasks inside reap()
  hpc,        \* where the _handle_conn coroutine of a connection stands
  harg,       \* the pane id of the control frame it is awaiting on
  hshell,     \* the PTY its executor call has created, not yet registered
  probe,      \* the connection declared itself a one-shot probe
  hclosed,    \* the host closed its side of the connection
  wdpc,       \* the orphan watchdog: "sleep", "check", "settle", "done"
  wdOwner,    \* the pid whose liveness it is awaiting
  strikes,    \* consecutive "dead" verdicts
  popen,      \* the peer's side: "none", "open", "half" (SHUT_WR), "closed"
  powner,     \* the process that opened the connection
  good,       \* it knows the token
  up,         \* frames from the peer to the host
  down,       \* frames from the host to the peer
  shell,      \* the child process: "none", "live", "exited", "closed"
  out,        \* chunks of output read from it so far
  alive       \* living owner processes

paneVars == <<shellOf, pending, paused>>
connVars == <<hpc, harg, hshell, probe, hclosed>>
wdVars   == <<wdpc, wdOwner, strikes>>
peerVars == <<popen, powner, good>>
ownVars  == <<ownerPid, prevOwner>>
hostVars == <<hostUp, stop, writer, ownVars, spawning, paneVars, reaping,
              connVars, wdVars, peerVars, up, down, shell, out, alive>>

-----------------------------------------------------------------------------
(* Frames (ptyhostproto) *)

CtlOps  == {"probe", "list", "shutdown"}
PaneOps == {"spawn", "close", "pause", "resume"}
UpFrame == [op : {"owner"}, pane : {0}, pid : Owners]
             \cup [op : CtlOps, pane : {0}, pid : {NoOwner}]
             \cup [op : PaneOps, pane : PaneIds, pid : {NoOwner}]
OwnerCtl(o)    == [op |-> "owner", pane |-> 0, pid |-> o]
Ctl(op)        == [op |-> op, pane |-> 0, pid |-> NoOwner]
PaneCtl(op, p) == [op |-> op, pane |-> p, pid |-> NoOwner]

NoData == [p \in PaneIds |-> <<>>]
DataFrame(data) == [op |-> "data", data |-> data, src |-> shellOf]
DownFrame ==
  [op : {"data"}, data : [PaneIds -> Seq(Nat)], src : [PaneIds -> Shells \cup {0}]]
    \cup [op : {"exit"}, pane : PaneIds]
    \cup [op : {"spawned"}, pane : PaneIds, sh : Shells \cup {0}]
    \cup [op : {"list_reply"}, panes : SUBSET PaneIds,
          prev : {"unknown", "alive", "dead"}]

\* A write goes to the transport; it reaches nobody once either side is closed.
Written(c, f) ==
  IF popen[c] \in {"open", "half"} /\ ~hclosed[c]
    THEN [down EXCEPT ![c] = Append(@, f)] ELSE down

-----------------------------------------------------------------------------
Registered == {p \in PaneIds : shellOf[p] # 0}

HandlerStates == {"none", "preauth", "first", "serve", "spawning", "listing",
                  "settling", "closed"}

\* The shape of the daemon's fields, of the frames on the wire and of the
\* children: PtyHost.__init__, _PaneEntry and the frames of ptyhostproto.
TypeOK ==
  /\ hostUp \in BOOLEAN /\ stop \in BOOLEAN
  /\ writer \in Conns \cup {0}
  /\ ownerPid \in Owners \cup {NoOwner} /\ prevOwner \in Owners \cup {NoOwner}
  /\ spawning \subseteq PaneIds
  /\ shellOf \in [PaneIds -> Shells \cup {0}]
  /\ pending \in [PaneIds -> Seq(Nat)]
  /\ paused \subseteq PaneIds
  /\ reaping \subseteq PaneIds \X Shells
  /\ hpc \in [Conns -> HandlerStates]
  /\ harg \in [Conns -> PaneIds \cup {0}]
  /\ hshell \in [Conns -> Shells \cup {0}]
  /\ probe \in [Conns -> BOOLEAN] /\ hclosed \in [Conns -> BOOLEAN]
  /\ wdpc \in {"sleep", "check", "settle", "done"}
  /\ wdOwner \in Owners \cup {NoOwner} /\ strikes \in Nat
  /\ popen \in [Conns -> {"none", "open", "half", "closed"}]
  /\ powner \in [Conns -> Owners \cup {NoOwner}] /\ good \in [Conns -> BOOLEAN]
  /\ up \in [Conns -> Seq(UpFrame)] /\ down \in [Conns -> Seq(DownFrame)]
  /\ shell \in [Shells -> {"none", "live", "exited", "closed"}]
  /\ out \in [Shells -> Nat]
  /\ alive \subseteq Owners

HostInit ==
  /\ hostUp = TRUE /\ stop = FALSE /\ writer = 0
  /\ ownerPid = NoOwner /\ prevOwner = NoOwner
  /\ spawning = {} /\ paused = {} /\ reaping = {}
  /\ shellOf = [p \in PaneIds |-> 0] /\ pending = NoData
  /\ hpc = [c \in Conns |-> "none"]
  /\ harg = [c \in Conns |-> 0] /\ hshell = [c \in Conns |-> 0]
  /\ probe = [c \in Conns |-> FALSE] /\ hclosed = [c \in Conns |-> FALSE]
  /\ wdpc = (IF WatchOn THEN "sleep" ELSE "done")
  /\ wdOwner = NoOwner /\ strikes = 0
  /\ popen = [c \in Conns |-> "none"] /\ powner = [c \in Conns |-> NoOwner]
  /\ good = [c \in Conns |-> FALSE]
  /\ up = [c \in Conns |-> <<>>] /\ down = [c \in Conns |-> <<>>]
  /\ shell = [k \in Shells |-> "none"] /\ out = [k \in Shells |-> 0]
  /\ alive = Owners

-----------------------------------------------------------------------------
(* The peers.  They are not part of the daemon: this is all it may assume. *)

\* Connections are numbered in the order they are opened.
PeerOpen(c, o, g) ==
  /\ hostUp /\ ~stop /\ popen[c] = "none"
  /\ \A d \in Conns : d < c => popen[d] # "none"
  /\ o \in alive \cup {NoOwner}
  /\ popen' = [popen EXCEPT ![c] = "open"]
  /\ powner' = [powner EXCEPT ![c] = o] /\ good' = [good EXCEPT ![c] = g]
  /\ UNCHANGED <<hostUp, stop, writer, ownVars, spawning, paneVars, reaping,
                 connVars, wdVars, up, down, shell, out, alive>>

PeerSend(c, f) ==
  /\ popen[c] = "open" /\ ~hclosed[c] /\ Len(up[c]) < MaxUp /\ Len(down[c]) < MaxDown
  /\ up' = [up EXCEPT ![c] = Append(@, f)]
  /\ UNCHANGED <<hostUp, stop, writer, ownVars, spawning, paneVars, reaping,
                 connVars, wdVars, peerVars, down, shell, out, alive>>

PeerRecv(c) ==
  /\ popen[c] \in {"open", "half"} /\ down[c] # <<>>
  /\ down' = [down EXCEPT ![c] = Tail(@)]
  /\ UNCHANGED <<hostUp, stop, writer, ownVars, spawning, paneVars, reaping,
                 connVars, wdVars, peerVars, up, shell, out, alive>>

PeerHalfClose(c) ==
  /\ popen[c] = "open"
  /\ popen' = [popen EXCEPT ![c] = "half"]
  /\ UNCHANGED <<hostUp, stop, writer, ownVars, spawning, paneVars, reaping,
                 connVars, wdVars, powner, good, up, down, shell, out, alive>>

PeerClose(c) ==
  /\ popen[c] \in {"open", "half"}
  /\ popen' = [popen EXCEPT ![c] = "closed"]
  /\ down' = [down EXCEPT ![c] = <<>>]
  /\ UNCHANGED <<hostUp, stop, writer, ownVars, spawning, paneVars, reaping,
                 connVars, wdVars, powner, good, up, shell, out, alive>>

\* A server process dies; the kernel closes its connections.
OwnerDies(o) ==
  /\ o \in alive /\ alive' = alive \ {o}
  /\ popen' = [c \in Conns |->
                 IF powner[c] = o /\ popen[c] # "none" THEN "closed" ELSE popen[c]]
  /\ down' = [c \in Conns |-> IF powner[c] = o THEN <<>> ELSE down[c]]
  /\ UNCHANGED <<hostUp, stop, writer, ownVars, spawning, paneVars, reaping,
                 connVars, wdVars, powner, good, up, shell, out>>

\* RST: frames the host has not read are dropped with the closed socket.
ConnReset(c) ==
  /\ popen[c] = "closed" \/ hclosed[c]
  /\ up[c] # <<>>
  /\ up' = [up EXCEPT ![c] = <<>>]
  /\ UNCHANGED <<hostUp, stop, writer, ownVars, spawning, paneVars, reaping,
                 connVars, wdVars, peerVars, down, shell, out, alive>>

-----------------------------------------------------------------------------
(* _handle_conn: accept, authenticate, adopt, serve frames until EOF *)

Accept(c) ==
  /\ hostUp /\ ~stop /\ popen[c] # "none" /\ hpc[c] = "none"
  /\ IF Cardinality({d \in Conns : hpc[d] = "preauth"}) >= MaxPreauth
       THEN /\ hpc' = [hpc EXCEPT ![c] = "closed"]
            /\ hclosed' = [hclosed EXCEPT ![c] = TRUE]
       ELSE /\ hpc' = [hpc EXCEPT ![c] = "preauth"]
            /\ UNCHANGED hclosed
  /\ UNCHANGED <<hostUp, stop, writer, ownVars, spawning, paneVars, reaping, harg,
                 hshell, probe, wdVars, peerVars, up, down, shell, out, alive>>

\* The token matches, or it does not (or does not come within the timeout).
Authenticate(c) ==
  /\ hpc[c] = "preauth"
  /\ \/ /\ good[c] /\ hpc' = [hpc EXCEPT ![c] = "first"]
        /\ UNCHANGED hclosed
     \/ /\ hpc' = [hpc EXCEPT ![c] = "closed"]
        /\ hclosed' = [hclosed EXCEPT ![c] = TRUE]
  /\ UNCHANGED <<hostUp, stop, writer, ownVars, spawning, paneVars, reaping, harg,
                 hshell, probe, wdVars, peerVars, up, down, shell, out, alive>>

DeclareProbe(c) ==
  /\ hpc[c] = "first" /\ up[c] # <<>> /\ Head(up[c]).op = "probe"
  /\ hpc' = [hpc EXCEPT ![c] = "serve"] /\ probe' = [probe EXCEPT ![c] = TRUE]
  /\ up' = [up EXCEPT ![c] = Tail(@)]
  /\ UNCHANGED <<hostUp, stop, writer, ownVars, spawning, paneVars, reaping, harg,
                 hshell, hclosed, wdVars, peerVars, down, shell, out, alive>>

Gone(c) == up[c] = <<>> /\ (popen[c] \in {"half", "closed"} \/ hclosed[c])

\* Everything kept while nobody was connected goes into the new transport in one
\* go, with no await in between.  Mutant: the ring is not cleared.
FlushAndKeep(c) ==
  /\ down' = IF pending = NoData THEN down ELSE Written(c, DataFrame(pending))
  /\ UNCHANGED pending
Flush(c) ==
  /\ down' = IF pending = NoData THEN down ELSE Written(c, DataFrame(pending))
  /\ pending' = NoData

\* A connection that does not declare itself a probe replaces the server.
AdoptServer(c) ==
  /\ hpc[c] = "first"
  /\ \/ up[c] # <<>> /\ Head(up[c]).op # "probe"
     \/ Gone(c)
     \/ LateFirst
  /\ hpc' = [hpc EXCEPT ![c] = "serve"]
  /\ writer' = c
  /\ hclosed' = IF writer = 0 THEN hclosed ELSE [hclosed EXCEPT ![writer] = TRUE]
  /\ Flush(c)
  /\ UNCHANGED <<hostUp, stop, ownVars, spawning, shellOf, paused, reaping, harg,
                 hshell, probe, wdVars, peerVars, up, shell, out, alive>>

\* The finally clause: only the adopted connection clears _writer.  Mutants: any
\* connection does; the field is reset to something that is no connection.
CloseConnAny(c) ==
  /\ hpc' = [hpc EXCEPT ![c] = "closed"]
  /\ hclosed' = [hclosed EXCEPT ![c] = TRUE]
  /\ writer' = 0
CloseConnNone(c) ==
  /\ hpc' = [hpc EXCEPT ![c] = "closed"]
  /\ hclosed' = [hclosed EXCEPT ![c] = TRUE]
  /\ writer' = IF writer = c THEN NoOwner ELSE writer
CloseConn(c) ==
  /\ hpc' = [hpc EXCEPT ![c] = "closed"]
  /\ hclosed' = [hclosed EXCEPT ![c] = TRUE]
  /\ writer' = IF writer = c THEN 0 ELSE writer

OnEof(c) ==
  /\ hpc[c] = "serve" /\ Gone(c)
  /\ CloseConn(c)
  /\ UNCHANGED <<hostUp, stop, ownVars, spawning, paneVars, reaping, harg,
                 hshell, probe, wdVars, peerVars, up, down, shell, out, alive>>

Taking(c, op) == /\ hpc[c] = "serve" /\ up[c] # <<>> /\ Head(up[c]).op = op
                 /\ up' = [up EXCEPT ![c] = Tail(@)]
Arg(c) == Head(up[c]).pane

\* _close_pane for every pane of S.
ClosePanes(S) ==
  /\ shell' = [k \in Shells |-> IF shell[k] = "live" /\ \E p \in S : shellOf[p] = k
                                  THEN "closed" ELSE shell[k]]
  /\ shellOf' = [p \in PaneIds |-> IF p \in S THEN 0 ELSE shellOf[p]]
  /\ pending' = [p \in PaneIds |-> IF p \in S THEN <<>> ELSE pending[p]]
  /\ paused' = paused \ S

-----------------------------------------------------------------------------
(* _on_control, one action per op and one per await inside it *)

OnOwner(c) ==
  /\ Taking(c, "owner")
  /\ prevOwner' = IF ownerPid = NoOwner THEN NoOwner
                  ELSE IF ownerPid # Head(up[c]).pid THEN ownerPid ELSE prevOwner
  /\ ownerPid' = Head(up[c]).pid
  /\ UNCHANGED <<hostUp, stop, writer, spawning, paneVars, reaping,
                 connVars, wdVars, peerVars, down, shell, out, alive>>

\* A probe declaration that came too late is an op _on_control does not know.
OnUnknown(c) ==
  /\ Taking(c, "probe")
  /\ UNCHANGED <<hostUp, stop, writer, ownVars, spawning, paneVars, reaping,
                 connVars, wdVars, peerVars, down, shell, out, alive>>

SpawnedFrame(p, k) == [op |-> "spawned", pane |-> p, sh |-> k]

\* Panes a spawn must not make again.  Mutant: those being made are forgotten.
TakenRegistered == Registered
Taken == Registered \cup spawning

\* A spawn of a pane that exists or is being made is ignored, and answered.
OnSpawnAgain(c) ==
  /\ Taking(c, "spawn") /\ Arg(c) \in Taken
  /\ down' = Written(c, SpawnedFrame(Arg(c), shellOf[Arg(c)]))
  /\ UNCHANGED <<hostUp, stop, writer, ownVars, spawning, paneVars, reaping,
                 connVars, wdVars, peerVars, shell, out, alive>>

OnSpawn(c) ==
  /\ Taking(c, "spawn") /\ Arg(c) \notin Taken
  /\ spawning' = spawning \cup {Arg(c)}
  /\ hpc' = [hpc EXCEPT ![c] = "spawning"] /\ harg' = [harg EXCEPT ![c] = Arg(c)]
  /\ UNCHANGED <<hostUp, stop, writer, ownVars, paneVars, reaping, hshell, probe,
                 hclosed, wdVars, peerVars, down, shell, out, alive>>

\* The executor thread creates the PTY and its child.
BackendSpawn(c, k) ==
  /\ hpc[c] = "spawning" /\ hshell[c] = 0
  /\ shell[k] = "none" /\ \A j \in Shells : j < k => shell[j] # "none"
  /\ shell' = [shell EXCEPT ![k] = "live"]
  /\ hshell' = [hshell EXCEPT ![c] = k]
  /\ UNCHANGED <<hostUp, stop, writer, ownVars, spawning, paneVars, reaping, hpc,
                 harg, probe, hclosed, wdVars, peerVars, up, down, out, alive>>

\* An OSError of the backend is not one of those the frame loop drops: it
\* unwinds through _handle_conn and takes the connection with it.
SpawnFails(c) ==
  /\ SpawnErrs /\ hpc[c] = "spawning" /\ hshell[c] = 0
  /\ spawning' = spawning \ {harg[c]}
  /\ CloseConn(c)
  /\ UNCHANGED <<hostUp, stop, ownVars, paneVars, reaping, harg, hshell, probe,
                 wdVars, peerVars, up, down, shell, out, alive>>

\* What was made while the world changed is not registered but closed.  Mutants:
\* the second look at _stop is missing; the early return leaves the PTY open.
RefusedTaken(p) == p \in Registered
Refused(p) == stop \/ p \in Registered
RefuseLeaking(k) == UNCHANGED shell
Refuse(k) == shell' = [shell EXCEPT ![k] = IF @ = "live" THEN "closed" ELSE @]

\* Back on the loop: register the pane, or close it.
SpawnLands(c) ==
  LET p == harg[c]
      k == hshell[c]
  IN /\ hpc[c] = "spawning" /\ k # 0
     /\ spawning' = spawning \ {p}
     /\ IF Refused(p)
          THEN Refuse(k) /\ UNCHANGED paneVars
          ELSE /\ shellOf' = [shellOf EXCEPT ![p] = k]
               /\ pending' = [pending EXCEPT ![p] = <<>>]
               /\ paused' = paused \ {p}
               /\ UNCHANGED shell
     /\ hpc' = [hpc EXCEPT ![c] = "serve"] /\ hshell' = [hshell EXCEPT ![c] = 0]
     /\ down' = Written(c, SpawnedFrame(p, shellOf'[p]))
     /\ UNCHANGED <<hostUp, stop, writer, ownVars, reaping, harg, probe, hclosed,
                    wdVars, peerVars, up, out, alive>>

OnClose(c) ==
  /\ Taking(c, "close")
  /\ ClosePanes({Arg(c)})
  /\ UNCHANGED <<hostUp, stop, writer, ownVars, spawning, reaping,
                 connVars, wdVars, peerVars, down, out, alive>>

OnPause(c) ==
  /\ Taking(c, "pause")
  /\ paused' = paused \cup ({Arg(c)} \cap Registered)
  /\ UNCHANGED <<hostUp, stop, writer, ownVars, spawning, shellOf, pending, reaping,
                 connVars, wdVars, peerVars, down, shell, out, alive>>

OnResume(c) ==
  /\ Taking(c, "resume")
  /\ paused' = paused \ {Arg(c)}
  /\ UNCHANGED <<hostUp, stop, writer, ownVars, spawning, shellOf, pending, reaping,
                 connVars, wdVars, peerVars, down, shell, out, alive>>

\* What proc.is_alive may answer about a pid.
Verdicts(o) == {o \in alive} \cup (IF AliveErrs THEN {FALSE} ELSE {})

ListReply(c, prev) ==
  down' = Written(c, [op |-> "list_reply", panes |-> Registered, prev |-> prev])

OnList(c) ==
  /\ Taking(c, "list")
  /\ IF prevOwner = NoOwner
       THEN ListReply(c, "unknown") /\ UNCHANGED hpc
       ELSE hpc' = [hpc EXCEPT ![c] = "listing"] /\ UNCHANGED down
  /\ UNCHANGED <<hostUp, stop, writer, ownVars, spawning, paneVars, reaping, harg,
                 hshell, probe, hclosed, wdVars, peerVars, shell, out, alive>>

\* is_alive ran in the executor; the pane list is the one of now.
ListAnswered(c) ==
  /\ hpc[c] = "listing"
  /\ \E v \in Verdicts(prevOwner) : ListReply(c, IF v THEN "alive" ELSE "dead")
  /\ hpc' = [hpc EXCEPT ![c] = "serve"]
  /\ UNCHANGED <<hostUp, stop, writer, ownVars, spawning, paneVars, reaping, harg,
                 hshell, probe, hclosed, wdVars, peerVars, up, shell, out, alive>>

Settled == spawning = {} \/ SettleGivesUp

OnShutdown(c) ==
  /\ Taking(c, "shutdown")
  /\ stop' = TRUE
  /\ hpc' = [hpc EXCEPT ![c] = "settling"]
  /\ UNCHANGED <<hostUp, writer, ownVars, spawning, paneVars, reaping, harg, hshell,
                 probe, hclosed, wdVars, peerVars, down, shell, out, alive>>

ShutdownSettled(c) ==
  /\ hpc[c] = "settling" /\ Settled
  /\ ClosePanes(PaneIds)
  /\ hpc' = [hpc EXCEPT ![c] = "serve"]
  /\ UNCHANGED <<hostUp, stop, writer, ownVars, spawning, reaping, harg, hshell,
                 probe, hclosed, wdVars, peerVars, up, down, out, alive>>

-----------------------------------------------------------------------------
(* The shells: output, exit, and what the host does about either *)

\* The ring keeps the newest.  Mutant: once full it takes nothing more.
KeptOldest(p, n) ==
  IF Len(pending[p]) >= PendingMax THEN pending[p] ELSE Append(pending[p], n)
Kept(p, n) ==
  LET kept == Append(pending[p], n)
  IN IF Len(kept) > PendingMax THEN Tail(kept) ELSE kept

\* Output is kept when there is no server.  Mutant: also when it is slow.
DetachedOrSlow == writer = 0 \/ down[writer] # <<>>
Detached == writer = 0

\* Only a shell whose pane has an active reader is read.  With a server
\* connected the chunk goes straight to its transport, else into the ring.
ShellOutput(p) ==
  LET k == shellOf[p]
      n == out[k] + 1
  IN /\ hostUp /\ p \in Registered \ paused
     /\ shell[k] = "live" /\ out[k] < MaxOut
     /\ out' = [out EXCEPT ![k] = n]
     /\ \/ /\ Detached
           /\ pending' = [pending EXCEPT ![p] = Kept(p, n)]
           /\ UNCHANGED down
        \/ /\ ~Detached
           /\ Len(down[writer]) < MaxDown
           /\ down' = Written(writer, DataFrame([NoData EXCEPT ![p] = <<n>>]))
           /\ UNCHANGED pending
     /\ UNCHANGED <<hostUp, stop, writer, ownVars, spawning, shellOf, paused, reaping,
                    connVars, wdVars, peerVars, up, shell, alive>>

ShellExit(k) ==
  /\ shell[k] = "live"
  /\ shell' = [shell EXCEPT ![k] = "exited"]
  /\ UNCHANGED <<hostUp, stop, writer, ownVars, spawning, paneVars, reaping,
                 connVars, wdVars, peerVars, up, down, out, alive>>

\* The reader sees EOF: a task is started that reaps the child in the executor.
ReaderEof(p) ==
  /\ hostUp /\ p \in Registered \ paused
  /\ shell[shellOf[p]] = "exited" /\ <<p, shellOf[p]>> \notin reaping
  /\ reaping' = reaping \cup {<<p, shellOf[p]>>}
  /\ UNCHANGED <<hostUp, stop, writer, ownVars, spawning, paneVars,
                 connVars, wdVars, peerVars, up, down, shell, out, alive>>

\* After reap(): the exit frame goes to the server connected now, if any, and
\* the pane registered under the id now is closed.
FinishEof(p, k) ==
  /\ <<p, k>> \in reaping /\ reaping' = reaping \ {<<p, k>>}
  /\ down' = IF writer = 0 THEN down
             ELSE Written(writer, [op |-> "exit", pane |-> p])
  /\ ClosePanes({p})
  /\ UNCHANGED <<hostUp, stop, writer, ownVars, spawning, connVars, wdVars, peerVars,
                 up, out, alive>>

-----------------------------------------------------------------------------
(* _orphan_watchdog; "idle for at least the grace" may hold at any poll that  *)
(* finds no server connected                                                  *)

WatchAttached ==
  /\ hostUp /\ wdpc = "sleep" /\ writer # 0 /\ strikes # 0
  /\ strikes' = 0
  /\ UNCHANGED <<hostUp, stop, writer, ownVars, spawning, paneVars, reaping, connVars,
                 wdpc, wdOwner, peerVars, up, down, shell, out, alive>>

\* Mutant: a host nobody ever claimed is left alone.
WatchIdleClaimed ==
  /\ hostUp /\ wdpc = "sleep" /\ writer = 0 /\ ownerPid # NoOwner
  /\ wdpc' = "check" /\ wdOwner' = ownerPid
  /\ UNCHANGED <<hostUp, stop, writer, ownVars, spawning, paneVars, reaping, connVars,
                 strikes, peerVars, up, down, shell, out, alive>>
WatchIdle ==
  /\ hostUp /\ wdpc = "sleep" /\ writer = 0
  /\ IF ownerPid = NoOwner
       THEN wdpc' = "settle" /\ stop' = TRUE /\ UNCHANGED wdOwner
       ELSE wdpc' = "check" /\ wdOwner' = ownerPid /\ UNCHANGED stop
  /\ UNCHANGED <<hostUp, writer, ownVars, spawning, paneVars, reaping, connVars,
                 strikes, peerVars, up, down, shell, out, alive>>

\* The verdict is back; nothing is read again before it is acted upon.
WatchVerdict ==
  /\ hostUp /\ wdpc = "check"
  /\ \E v \in Verdicts(wdOwner) :
       IF v THEN strikes' = 0 /\ wdpc' = "sleep" /\ UNCHANGED stop
       ELSE /\ strikes' = strikes + 1
            /\ wdpc' = IF strikes + 1 < 2 THEN "sleep" ELSE "settle"
            /\ stop' = (stop \/ strikes + 1 >= 2)
  /\ UNCHANGED <<hostUp, writer, ownVars, spawning, paneVars, reaping, connVars,
                 wdOwner, peerVars, up, down, shell, out, alive>>

WatchSettled ==
  /\ hostUp /\ wdpc = "settle" /\ Settled
  /\ ClosePanes(PaneIds) /\ wdpc' = "done"
  /\ UNCHANGED <<hostUp, stop, writer, ownVars, spawning, reaping, connVars, wdOwner,
                 strikes, peerVars, up, down, out, alive>>

\* serve() wakes on _stop, gives serve_forever half a second, closes what is
\* registered and os._exit()s.  It does not wait for _settle_spawns.
HostExit ==
  /\ hostUp /\ stop
  /\ hostUp' = FALSE
  /\ ClosePanes(PaneIds)
  /\ writer' = 0 /\ spawning' = {} /\ reaping' = {} /\ wdpc' = "done"
  /\ hpc' = [c \in Conns |-> "closed"] /\ hclosed' = [c \in Conns |-> TRUE]
  /\ UNCHANGED <<stop, ownVars, harg, hshell, probe, wdOwner, strikes, peerVars,
                 up, down, out, alive>>

-----------------------------------------------------------------------------
ConnStep(c) ==
  \/ Accept(c) \/ Authenticate(c) \/ DeclareProbe(c) \/ AdoptServer(c) \/ OnEof(c)
  \/ OnOwner(c) \/ OnUnknown(c) \/ OnSpawnAgain(c) \/ OnSpawn(c)
  \/ SpawnFails(c) \/ SpawnLands(c) \/ OnClose(c) \/ OnPause(c) \/ OnResume(c)
  \/ OnList(c) \/ ListAnswered(c) \/ OnShutdown(c) \/ ShutdownSettled(c)
  \/ \E k \in Shells : BackendSpawn(c, k)

Watchdog == WatchAttached \/ WatchIdle \/ WatchVerdict \/ WatchSettled

HostStep ==
  \/ \E c \in Conns : ConnStep(c)
  \/ \E p \in PaneIds : ReaderEof(p) \/ \E k \in Shells : FinishEof(p, k)
  \/ Watchdog \/ HostExit

ShellStep == \/ \E p \in PaneIds : ShellOutput(p)
             \/ \E k \in Shells : ShellExit(k)

PeerFrame == {Ctl(op) : op \in CtlOps} \cup {PaneCtl(op, p) : op \in PaneOps, p \in PaneIds}
Moves == {"stranger", "recv", "half", "leave", "reset", "die"}
PeerStep ==
  \/ \E c \in Conns :
       \/ \E o \in Owners \cup {NoOwner} : PeerOpen(c, o, TRUE)
       \/ "stranger" \in PeerMoves /\ PeerOpen(c, NoOwner, FALSE)
       \/ \E f \in PeerFrame : f.op \in PeerMoves /\ PeerSend(c, f)
       \/ "owner" \in PeerMoves /\ powner[c] # NoOwner
            /\ PeerSend(c, OwnerCtl(powner[c]))
       \/ "recv" \in PeerMoves /\ PeerRecv(c)
       \/ "half" \in PeerMoves /\ PeerHalfClose(c)
       \/ "leave" \in PeerMoves /\ PeerClose(c)
       \/ "reset" \in PeerMoves /\ ConnReset(c)
  \/ "die" \in PeerMoves /\ \E o \in Owners : OwnerDies(o)

HostNext == HostStep \/ ShellStep \/ PeerStep
HostSpec == HostInit /\ [][HostNext]_hostVars
-----------------------------------------------------------------------------
(* Safety *)

\* At most one connection drives the host: the adopted one.  A connection that
\* was replaced or lost may still have frames to work off, but its socket is
\* closed, and its end must not take _writer away from its successor.
Serving(c) == hpc[c] \in {"serve", "spawning", "listing", "settling"}
OneServer ==
  /\ \A c \in Conns : Serving(c) /\ ~probe[c] /\ ~hclosed[c] => c = writer
  /\ writer # 0 => Serving(writer) /\ ~probe[writer] /\ ~hclosed[writer]

\* Output is kept only while no server is connected: nothing a server could
\* have had waits behind newer output.
KeptOnlyWhenDetached == writer # 0 => pending = NoData

\* What is kept of a pane is an unbroken run of its shell's newest output.
KeptIsNewest ==
  \A p \in PaneIds :
    /\ Len(pending[p]) <= PendingMax
    /\ pending[p] # <<>> => p \in Registered
    /\ \A i \in 1..Len(pending[p]) :
         pending[p][i] + Len(pending[p]) = out[shellOf[p]] + i

\* Chunks of one shell cross a connection in the order they were read, every
\* chunk at most once, and none that is in flight is also still kept.
ChunksIn(f, p) == IF f.op = "data" THEN {f.data[p][i] : i \in 1..Len(f.data[p])} ELSE {}
InFlightInOrder ==
  \A c \in Conns, p \in PaneIds :
    /\ \A i, j \in 1..Len(down[c]) :
         i < j /\ down[c][i].op = "data" /\ down[c][j].op = "data"
               /\ down[c][i].src[p] = down[c][j].src[p] =>
           \A m \in ChunksIn(down[c][i], p), n \in ChunksIn(down[c][j], p) : m < n
    /\ \A i \in 1..Len(down[c]) :
         down[c][i].op = "data" /\ down[c][i].src[p] = shellOf[p] =>
           \A m \in ChunksIn(down[c][i], p), n \in 1..Len(pending[p]) : m < pending[p][n]

\* Every living child has exactly one owner inside the daemon: a registered
\* pane or the executor call that has just made it.  After the exit only the
\* latter can be left.
ShellsAccounted ==
  \A k \in Shells : shell[k] = "live" =>
    Cardinality({p \in PaneIds : shellOf[p] = k} \cup
                {<<c>> : c \in {d \in Conns : hshell[d] = k}}) = 1

\* Two executor calls never make the same pane, and _spawning is exactly the
\* panes being made.
SpawnsReserved ==
  hostUp =>
    /\ spawning = {harg[c] : c \in {d \in Conns : hpc[d] = "spawning"}}
    /\ \A c, d \in Conns : hpc[c] = "spawning" /\ hpc[d] = "spawning"
                            /\ harg[c] = harg[d] => c = d

\* Once the host is going down no pane is registered any more: what lands then
\* would miss the cleanup loop of the shutdown or of the watchdog.
NothingRegisteredAfterStop == [][stop => Registered' \subseteq Registered]_hostVars

-----------------------------------------------------------------------------
(* Liveness.  The coroutines are scheduled fairly by one event loop, and the   *)
(* watchdog's timer fires again and again.                                     *)
HostFairness ==
  /\ \A c \in Conns : WF_hostVars(ConnStep(c))
  /\ WF_hostVars(Watchdog) /\ WF_hostVars(HostExit)
FairHostSpec == HostSpec /\ HostFairness

\* A host that stays without a server, and whose owner is dead or was never
\* announced, goes down instead of holding its shells for ever.
OrphanReclaimed ==
  <>[](writer = 0 /\ ownerPid \notin alive) => <>(~hostUp)

=============================================================================

# Verification of pytmux

TLA+ specifications of pytmux, a terminal multiplexer: model-checked with TLC on
small instances, with theorems proved by TLAPS for every value of the constants.
Paths are relative to the repository root; Python modules are under `pytmuxlib/`.

Contents: 1 the system and its components, 2 the modules and how they correspond to the code,
3 what is checked, 4 what is proved, 5 where code and comments disagree,
6 what is abstracted or not modelled, 7 plan.

## 1. The system

A user's terminal client attaches to a **server** process, which keeps sessions, tabs,
windows and panes and renders each pane's screen. The shells themselves belong to another
process, the **PTY host** daemon, so that a server can be restarted, updated or crash while
the shells run on. A server may also be a client of servers on other machines and show
their tabs among its own (**federation**).

    client (Python TUI or Rust GUI)
        |  JSON frames (protocol.py), over an endpoint found through files (ipc.py)
    server (server*.py): sessions > tabs > windows > split trees > panes; screens
        |  frames (ptyhostproto.py), one connection that counts; spawn lock (ptyhostmgr.py)
    PTY host daemon (ptyhost.py): shells, output rings, orphan watchdog
        |  PTY reads and writes (pty_backend.py, conpty.py)
    shells

Every process is one asyncio event loop. What runs between two `await`s is atomic in its
process; calls that may block (making a PTY, asking whether a process lives, reaping a child)
go through an executor and come back later. The concurrency is therefore of three kinds:
coroutines of one loop that interleave at their awaits, executor calls that outlive the
state they were started in, and processes that exchange frames over sockets that may close
at any moment.

### Components

**PTY host daemon** (`ptyhost.py`).
State: registered panes with PTY and output ring, panes being made (`_spawning`), the adopted
connection (`_writer`), the owning server's pid and the one before it, `_stop`.
Operations: accept and authenticate a connection; take a first frame that makes it a
one-shot probe or *the* server; flush what was kept; spawn (in the executor), close, pause,
resume, list; read output, notice end of file, reap; shut down; reclaim itself when its owner
is dead (`_orphan_watchdog`).
Hard: every await in a handler is a window in which the connection is replaced, the pane
closed or the daemon stopped. Correct when: one server drives it; output is kept exactly
while nobody is there and reaches the next server once and in order; every child has one
owner; nothing is registered on the way down; an orphaned daemon goes and an owned one stays.

**Host wire protocol** (`ptyhostproto.py`). Length-prefixed frames: data, control, resize.
Stateless but for a read cancelled between header and body.

**PTY backends** (`pty_backend.py`, `conpty.py`). forkpty and ConPTY calls, reader threads,
pause and resume. Slow (up to 1.5 s on Windows) and fallible.

**Host client** (`ptyhostclient.py`). State: callbacks per pane, the future of a list request,
time of the last pong. Operations: send control frames without waiting, read loop that
dispatches data and exit frames to callbacks, list with a time limit, keepalive.
Hard: frames for panes that have no callback yet are dropped; a frame sent just before the
socket closes may be lost. Correct when: a pane's screen gets its shell's output in order.

**Host manager** (`ptyhostmgr.py`). Finds the daemon through port, pid and token files, or starts
one under a lock file with a time to live. Hard: two servers starting at once.
Correct when: one daemon per endpoint.

**Server lifecycle and resume** (`server.py`, `serverpersist.py`). State: resume file, endpoint
ownership, options, saved layouts. Operations: start (connect, list, restore, default
session, prune), restart into a successor with shells kept, eviction of an older server,
saving layouts. Hard: two processes overlap; shells die meanwhile; a step fails half way.
Correct when: a restart keeps every tab whose shells live, and no shell is killed that
somebody shows nor kept that nobody will.

**Panes of the server** (`serverpty.py`). State: pane numbers, child handle and read state of a pane,
paced feeding of bursts, the depth at which the garbage collector is off. Operations: spawn,
adopt, prune, feed, end of file, respawn. Hard: bytes, end of file, respawn and restart arrive
while a burst is fed in slices. Correct when: bytes are fed in order, none is lost, a paused
reader is resumed and the collector comes back on.

**Sessions, tabs, windows, split trees** (`servertree.py`, `model.py`). State: sessions with
tabs, active and last index, popup; pins; a binary tree per window with parent links, an active pane
and a cached pane list. Operations: some thirty commands that split, close, join, break off, swap,
rotate, arrange, move, pin, open and drop. Hard: links, caches and indices are maintained by
hand in each command; shells exit by themselves between commands; several clients look at one session.
Correct when: the links agree, the cache is fresh, no pane is lost or shown twice, pinned tabs
come last, and no client looks at a session that is gone.

**Command dispatch** (`servercmd.py`). Maps client messages to the above; mostly one call each.

**Client connections and flushing** (`serverio.py`). State: per client its session, viewport,
write lock, what it was sent last; the host connection. Operations: attach, detach, broadcast,
flush loop with deltas, dropping slow clients, evicting idle ones, loss of the host and
reconnection. Hard: full frames and deltas are written by different tasks. Correct when: a
client that gets all its frames shows what the server has.

**Federation** (`serverremote.py`, `sshwrap.py`). State: links to upstream servers, the reconnection
task per link, pins and hidden tabs of remote windows, the remote tab a client views. Hard:
keys are the upstream's and change while the link is down. Correct when: a command reaches the tab
that the user sees.

**Endpoints and launcher** (`ipc.py`, `launcher.py`, `proc.py`). Socket paths, ports, tokens, pid files;
starting a server when none answers. Hard: stale files, two launchers at once.
Correct when: one server owns an endpoint and only its files are published.

**Client wire protocol** (`protocol.py`). JSON frames; stateless.

**Terminal emulation** (`vtparse.py`, `nativescreen.py`, `cellwidth.py`). A parser and a grid; sequential.

**Terminal client in Python** (`client*.py`). Rendering and input, a mirror of the session,
reconnection with a generation number for its reader task.

**Native client protocol in Rust** (`client/crates/proto`). State: the reading thread of a link, its
channel, the copy of the session (`SessionState`). Operations: read frames from a socket with a
read timeout, decode, hand over, apply layouts, full screens and deltas; encode commands; find the
endpoint; shake hands. Hard: a timeout in the middle of a frame, a thread that dies, a link that is replaced,
deltas without a base. Correct when: a link is a pipe until it says it is over, and the copy is what the server sent.

**Native client user interface in Rust** (`client/crates/gui`, `base`, `command`, `clip`, `claude`). State: the
stack of screens over the terminal, the one question they may ask, screens pushed by plugins, a gate for
restarts, the queue of commands, the task that pumps. Hard: keys, pushed screens, replies and
reconnections arrive in any order and share one question and one gate. Correct when: a question is answered by the screen that
asks it, what was begun is decided, what was queued is sent or the user is told that the connection ended.

**Plugins** (`plugins/`), **sinks and diagnostics** (`pipesink.py`, `serverdiag.py`, ...),
**vendored UI crates**, **tests and tools**. Outside the core logic.

The hazards of these components, each at its line and with the properties that would
catch it going wrong, are listed in `PROJECT.json` under `hazards`.

## 2. The modules

| module | models | uses |
|---|---|---|
| `PtyHost` | the daemon with arbitrary peers | |
| `PtyHostProofs` | theorems about `PtyHost`: types, connections, the way down, children, reservations, rings, the order of output on the wire | EXTENDS `PtyHost`, TLAPS |
| `HostSession` | the daemon with the servers that follow one another on it | EXTENDS `PtyHost` |
| `HostSessionProofs` | theorems about `HostSession`: types, the daemon's promises under real servers, pane numbers, restored tabs, the shells that somebody shows, the order of output on screens, panes that nobody shows | EXTENDS `HostSession`, `PtyHostProofs` |
| `WindowTree` | sessions, tabs, windows, split trees, views of clients | |
| `WindowTreeProofs` | theorems about `WindowTree`: the views of clients, the order of tabs, the trees of panes | EXTENDS `WindowTree`, `FoldLemmas` |
| `PaneFeed` | how output gets from a PTY to a pane's screen: bursts, drains, pauses, restarts in place | |
| `PaneFeedProofs` | theorems about `PaneFeed`: the drains, the collector, types and bounds, order on the screen, ends of shells, what is lost | EXTENDS `PaneFeed`, `FoldLemmas` |
| `ScreenMirror` | how screens get from the server to native clients: resynchronisation, flush, the client's copy | |
| `ScreenMirrorProofs` | theorems about `ScreenMirror`: types, what the server remembers as sent | EXTENDS `ScreenMirror`, `FoldLemmas` |
| `Pipe` | abstract: what a link promises | |
| `FrameLink` | a link of the native client: bytes, reading thread, channel, view | INSTANCE `Pipe` (refinement) |
| `FrameLinkProofs` | theorems about `FrameLink`: types, alignment, refinement of `Pipe` | EXTENDS `FrameLink`, TLAPS |
| `NativeView` | screens, questions, restart gate, command queue and pump of the native client | |
| `NativeViewProofs` | theorems about `NativeView`: types, one command for each restart begun | EXTENDS `NativeView`, `FoldLemmas` |
| `FoldLemmas` | lemmas that several proofs share: sequences, bounded sets, what a fold computes | EXTENDS TLAPS and the library's theorem modules |
| `MC...` | entry points for TLC (symmetry sets, functions as constants) | EXTENDS the above |

`PROJECT.json` maps every definition that models code to its lines. The definitions named
in comments as mutants are deliberate slips for testing the properties; nothing uses them.

### PtyHost: the daemon

An open module. Its environment, the peers, may connect, send any frame of the protocol,
stop reading, close either direction or die at any time; `PeerMoves` names what of that a
run lets them do. What is shown of the daemon holds whatever a server does.

| code | specification |
|---|---|
| `_handle_conn` at its awaits | `hpc[c]`: `preauth` (token), `first` (first frame), `serve`, `closed` |
| `_on_control` at its awaits | `spawning`, `listing`, `settling`; one action per op (`OnSpawn`, `OnClose`, `OnList`, ...) |
| `_spawn` | `OnSpawn` reserves the id, `BackendSpawn` is the executor thread, `SpawnLands` or `SpawnFails` the return |
| `_on_data`, the ring | `ShellOutput`; `Kept` is the ring, counted in chunks |
| flush on adoption | `Flush`, inside `AdoptServer` (no await between them in the code) |
| `_on_eof`, `_finish_eof` | `ReaderEof` starts the task, `FinishEof` is what follows `reap()` |
| `_orphan_watchdog` at its awaits | `wdpc`: `sleep`, `check` (liveness asked in the executor), `settle` |
| `serve` after `_stop` | `HostExit`: closes what is registered and leaves; does not wait for executor calls |
| a child process | `shell[k]`: `none`, `live`, `exited`, `closed`; `out[k]` counts the chunks read of it |
| a socket | two sequences of frames, `up[c]` and `down[c]`; a closed side loses what is written to it (`Written`), and the kernel may drop what was not read (`ConnReset`) |

A chunk of output is its number in the shell's output, so order, loss and duplication are
visible, and a data frame also records (`src`) which PTY each pane's bytes came from: a
history the code does not have, used by properties only.

### HostSession: servers on the daemon

Replaces the arbitrary peers by the servers' own code. A server's `phase` follows `serve()`:
`boot`, `listing` (awaits `list_panes`), `listed` (the reply is there, `serve()` has not run yet), `run`, and
`leaving` (restart: resume file written, 0.2 s until exit) or `ending` (no tab left).

| code | specification |
|---|---|
| `ensure_connected` + `list_panes` | `Connect`, `GotList` or `ListTimesOut` |
| `_adopt_host_panes`, `restore_resume_state`, default session, `_prune_unknown_host_panes` | `Restore`: one action, there is no await in between |
| `PtyHostClient._read_loop` | `ShowOutput`, `OnExit`, `OnOther`: frames without a callback are dropped |
| `_spawn_pane_host`, `_next_pane_id` | `SpawnPane` from `NewTab` and `SplitTab` |
| `_pane_eof`, `kill_pane` | `DropPane` |
| `_restart_server_host`, `_host_restart_exit` | `Restart`, `RestartExit` |
| process death | `Crash`: the kernel closes its connections (`OwnerDies`) |
| `shutdown`, `shutdown_host_sync` | `EndServer`: a probe connection with the `shutdown` frame, closed at once |
| `_on_host_lost`, `_reconnect_host` | `OnHostLost`, `Reconnect`: a new client on which no old pane is registered |

A tab is the sequence of its panes in leaf order; a screen the sequence of the chunks
that were fed to it, each with its PTY. `Events` names what users and faults do in a run.

### WindowTree: what the server shows

Handlers run to completion on the server's loop, so each command is one action. The tree
is kept as the code keeps it: children of splits, a parent link per node, and per window a
root, the active pane, the one before it and the cached list. Tree surgery is written as
operators on the record of these functions (`Detach`, `Beside`, `InSlot`, `Arranged`,
`Permuted`, ...), one per helper of the code, and commands are compositions of them.

- `Window.panes` visits child b before child a (a stack), so `Leaves` does, and with it
  the presets and rotation, which work on that list.
- Reading the list fills the cache (`Listed`); the flush loop lists every window (`Flush`).
- A stale `active_index` is repaired by `Session.active_tab` when it is read, and the
  broadcast at the end of each command reads it; the model repairs it in the step that
  shortens the list (`Clamped`). Nothing in the code repairs `last_index`, and nothing does here.
- `move_tab`, `move_current_tab` and `move_window` differ in how they name the tab: one action, `MoveTab`.
  Directional selection is a choice of another pane of the window.
- A client is `Away`, or looks at a session, or at none (`None`) after its session went.
- Panes, tabs and sessions have fresh numbers, as object identity and `_pane_seq` give them.

### PaneFeed: from the PTY to the screen

The event loop is its queue of ready callbacks, run from the head; what a callback does between two awaits is one
action. A chunk is one slice of output (`FEED_SLICE`), known by its shell and number; `Script` says which chunks
begin with a full clear or switch screens. What the emulator was given is a sequence, and the screen it
shows follows from it.

| code | specification |
|---|---|
| `_UnixPty`: reader of a descriptor | `Select` puts the read in the queue, `RunRead` reads, delivers or fires the end; a pause takes the read out of the queue |
| reading thread of `_OwnedConPty`; the daemon | `ThreadEnters` (gate), `ThreadPosts`, `ThreadEnds`; `RunData`, `RunEof`. The thread has one read under way when it is paused, the daemon any number |
| `_on_pane_data` | `JoinDrain`, `FeedInline`, `BeginDrain`; whether small chunks come fast enough to be a burst is left open |
| `coalesce_alt_repaints` | `Coalesced` |
| `_feed_drain` between its awaits, and when cancelled | `DrainSlice`, `DrainEnds`; `DrainVanishes` (before its first turn), `DrainStops` (its finally clause) |
| `_gc_drain_enter`, `_gc_drain_exit` | `Entered`, `Left` |
| `_stop_pane_feed`, `_pane_eof` | `StopFeed` with `Cancelled`, `PaneEof` |
| `respawn_pane`; `kill_window`, `_destroy_pane_proc`, `popup_close` | `Respawn`; `ClosePane` |
| `restart_server`, `_do_execv`, `_build_resume_node` | `Restart` (saved or given up), `Exec` |

### ScreenMirror: from the server's screens to the client's

One session and the connections of native clients to it. The resynchronisation (`_send_full_inner`) and
the flush loop are coroutines with awaits inside; they share one lock and one memory (`_sent_rows`) per client,
and one `dirty` flag per pane for all clients.

| code | specification |
|---|---|
| `_send_full`, waiting for the lock | `waiting[c]` (how many wait) |
| `_send_full_inner` between its drains | `full[c]`; `FullStart` (lock, sizes, layout), `FullFirst` (memory forgotten, first pane), `FullNext` |
| `_flush_loop`, one turn | `FlushBuild`: renders every dirty pane of the active tab that is not inside a synchronised frame, records what each client will hold |
| `_screen_frame` | `ScreenFrame`: delta or full screen |
| `_flush_to_client` | `FlushWrite`, once the lock is free |
| `_session_size`, window_size `latest` | `SessionHeight`; `acted` is the order of `last_active` |
| `_remirror_if_size_changed` | `Type` |
| messages of `handle_client` | `SelectTab`, `Resize`, `Type`, `Redraw`, `Leave`, `Attach` |
| `SessionState::apply` | `Apply` with `ApplyLayout`, `ApplyScreen`, `ApplyDelta`; `Receive` |

A row is a value and a screen a sequence of rows. A socket is a sequence of frames; closing it loses them.
`Yields` says whether a drain lets other code of the loop run. It does when the transport's buffer is
full, and `asyncio.wait_for` around it makes a task of its own before Python 3.12.

### FrameLink and Pipe: one link

`FrameLink` works on byte positions: a frame has a header and a payload, any number of bytes may have arrived, and a
read may time out between any two of them.

| code | specification |
|---|---|
| `framing::fill` | `Fill`; a timeout after the first byte of a frame goes on waiting, so it changes nothing; `GiveUp` is its patience running out, or the end of the stream |
| `framing::read_frame` | `HeaderRead`, `PayloadRead` |
| the thread of `link.rs`, its last event, its end | `thread`: `reads`, `last`, `gone`; `Panic` ends it without an event |
| `Link::drain` and the pump | `Drain` |
| `fold_on_error` | `SendFails` |
| `reconnect` of the view | `Replace` |

`Pipe` has three variables: what was sent, what was given to the view, and whether the view was told that it is over. The
refinement mapping is the identity on the first two; a link is over when the view knows it ended or let it go.

### NativeView: the view of the native client

The view is one record `ui`, as the code keeps one struct, and its operations are operators on it: `Open`,
`CloseTop`, `Ask`, `Confirm`, `Answer`, `Dismiss`, `Enter`, `ReceiveSpec`, `ReceiveClose`, `ReceiveCheck`, each named after its method.

| code | specification |
|---|---|
| `ScreenStack`, `asking`, the chosen button | `ui.stack`, `ui.asking`, `ui.pick` |
| `plugin_screens` (at most `MAX_PLUGIN_SCREENS`) | `ui.specs` |
| `pending_restart` | `ui.gate` |
| the queue of commands | `ui.pending` |
| the task of `main.rs` that pumps every 33 ms | `pumping`; `Pump` |
| `begin_restart`, `gate_restart` | `BeginRestart`, `ReceiveCheck` |
| `reconnect_now` | `Reconnect` |
| a server that answers in order, or dies of what it was asked | `Serve`; plugins push unasked with `Push` |

## 3. What is checked

Two workers, a few seconds to two minutes per run. State counts are distinct states.

| run | instance | states | properties |
|---|---|---|---|
| `host_lifecycle` | 1 pane, 2 PTYs, 2 connections, a chunk of output, failing backend, pauses, closes, half-closes, settling that gives up | 691 k | `ShellsAccounted`, `SpawnsReserved`, `NothingRegisteredAfterStop` |
| `host_takeover` | 2 owners, 2 connections, probes, strangers, lists, resets, late first frames, watchdog with wrong verdicts, fairness | 321 k | `OneServer`, `OrphanReclaimed` |
| `session_tabs` | 2 servers, 3 panes, 3 connections; tabs, splits, kills, restart, crash | 597 k | `SpawnsAreFresh`, `NothingLeaked`, `ShownShellsSurvive`, `RestartKeepsTabs` |
| `session_output` | 2 servers, 2 panes, 2 chunks, ring of 1; lost connections, failed spawns, list timeouts | 784 k | `SessionTypeOK`, `ScreenInOrder`, and of the daemon `TypeOK`, `KeptOnlyWhenDetached`, `KeptIsNewest`, `InFlightInOrder` |
| `tree_panes` | 3 panes, 3 tabs, 1 session, 1 client, all rearrangements | 295 k | `TreeTypeOK`, `LinksAgree`, `CacheFresh`, `TabMovesKeepZones` |
| `tree_sessions` | 4 panes, 3 tabs, 2 sessions, 2 clients, exit-empty off | 298 k | `NoPaneLost`, `ViewsRegistered` |
| `mirror` | 2 clients, 2 tabs of a pane each, 2 rows, 2 values, 3 events, fairness | 469 k | `MirrorTypeOK`, `BaselineTrue`, `LoneMirrored` |
| `link` | 3 frames of 3 kinds, header of 2 bytes, payloads of 1 and 2, fairness | 108 k | `LinkTypeOK`, `StaysAligned`, `KeepsPromise`, `ReplacedLinkCloses` |
| `view` | 2 plugins, 2 plugin screens, 3 events, fairness | 129 k | `ViewTypeOK`, `RestartsBegun`, `RestartDecided`, `QueuedIsSent` |
| `feed` | 2 panes read by a descriptor, or 1 by a thread or the daemon; 4 chunks, reads of 1 or 2, coalescing, a respawn or a restart, fairness | 491 k | `FeedTypeOK`, `FedInOrder`, `LossOnlyRepaints`, `CollectorBack`, `OneDrain`, `EofFindsNothing`, `ReaderComesBack` |

Two more runs show disagreements (section 5): `session_gap`, `mirror_clients`.

### What the properties say

*Daemon.* `OneServer`: at most one open, adopted connection, and `_writer` names it;
the late end of a replaced one does not take it away. `KeptOnlyWhenDetached`,
`KeptIsNewest`, `InFlightInOrder` together: output waits only while no server is connected; what waits
is an unbroken run of the newest chunks of the shell registered now; and what crosses a
connection is in order, once, with nothing both sent and still kept. `ShellsAccounted`: a living child
belongs to exactly one registered pane or to the executor call that made it, across closes, failures,
shutdown and the exit of the daemon. `SpawnsReserved`: no two executor calls make the same
pane. `NothingRegisteredAfterStop`: a spawn that lands on the way down is closed, not
registered behind the cleanup's back. `OrphanReclaimed` (liveness): a daemon that stays
without a server, and whose owner is dead or never came, goes down.

*Servers on it.* `SpawnsAreFresh`: a new tab never gets a pane number that the host has or is making.
`ScreenInOrder`: a screen shows one PTY's chunks, in order and once, through restarts and
losses of the connection. With two servers it also holds when the list times out, as the run shows; with a third it then fails: the
second server, which was told of no pane, gives out number 1 again, shows what the old shell of pane 1 has written, and restarts; its own
spawn of pane 1 lands after that, and the third server restores a screen with output of the old shell and feeds it with the new one's. The
theorem therefore excludes a list that times out (section 4). `ShownShellsSurvive`: a living shell that a server shows, or that a
resume file promises, is closed by nothing but a kill of that pane or the end of the host.
`RestartKeepsTabs`: a tab whose panes all live when the successor restores is there again.
`NothingLeaked`: once everything has settled, no pane is left that no server shows. That, too, holds only as long as the backend
makes the shells it is asked for: its `OSError` ends the handler of the connection (`_handle_conn` of `ptyhost.py`), and the close frames that wait on that
connection are lost with it, while the server has already taken the panes out of its tree; the instance of `session_tabs` with `SpawnErrs = TRUE` reaches the leak.

*Tree.* `LinksAgree`, `CacheFresh`: after any sequence of commands parent and child
links are inverse, the active pane is a leaf, no split is orphaned, and a cached list is
what a walk would give. `NoPaneLost`: each running shell has exactly one place, and each leaf a
running shell. `ViewsRegistered`: no client keeps looking at a dropped session.
`TabMovesKeepZones`: commands that move tabs leave the pinned ones last, if they were, and the
active tab active.

*Feed.* `FedInOrder`: a pane shows its present shell's output, in order and once; no drain of an earlier shell and no second
drain mixes in. `LossOnlyRepaints`: with a descriptor, what was read and is not shown is waiting or is drawn over by a later
frame of the same alternate screen, as long as no restart interrupts. `OneDrain`: a pane has one drain that was not cancelled and knows it, through
respawns, ends and restarts, given up or not. `CollectorBack`: the collector is off exactly while drains run, in whatever order those of several panes
begin, end and are cancelled. `EofFindsNothing`: with a descriptor, the end of a shell is handled when all that was read is fed.
`ReaderComesBack` (liveness): a paused reader reads again or its pane is gone, unless a restart was given up.

*Screens.* `BaselineTrue`: what the server believes a client holds, and computes every delta against, is what the client
will hold once it has applied what was built for it; through resizes, tab changes, full frames that overtake, closed
connections. `LoneMirrored` (liveness): a client that stays alone ends up showing the panes as they are, whatever was
swallowed for it while it had company. With two clients that stay, the same is not true (`mirror_clients`).

*Link.* `KeepsPromise`: the link implements `Pipe`, the liveness included: nothing is lost, repeated or reordered
before the view is told that it is over, and what was sent arrives or it is told.
`StaysAligned`: a length is never taken from the middle of a frame, whatever timed out.
`ReplacedLinkCloses` (liveness): a replaced link's thread ends. Nobody tells it to: it finds out with the next
message that the server sends it, and the server resynchronises the old connection because another one attached.

*View.* `RestartsBegun`: the server is not told to restart more often than the user began to, although
the reply to any dry run may open the gate. `RestartDecided`, `QueuedIsSent` (liveness): a begun restart is decided and a queued
command is sent, or the connection was lost or replaced.

Each property has a mutant in `PROJECT.json`: a plausible slip in one definition (a ring that
keeps the oldest, a missing second look at `_stop`, the successor's numbers taken from the resume file alone,
a cache not dropped, viewers not reassigned) that makes TLC report the property.

### Bounds, and why they are enough

- *Connections.* Two let one replace another while the first one's handler is at any of its awaits;
  three (`session_tabs`) add a probe or a reconnection to two servers.
- *Panes and PTYs.* One pane with two PTYs shows every race on one id, two panes (the session runs) those between two ids; three are needed for a split tab beside a tab of its own. The PTYs of a
  behaviour are bounded by `MaxShell`: a spawn beyond it stays in the executor.
- *Output.* Three chunks overflow a ring of two and reach it from both sides. `MaxDown`
  and `MaxUp` bound frames in flight: beyond them the sender waits, as a full socket makes it.
  `MaxOut` is 0 where output does not matter.
- *Owners.* A dead owner, its successor, and `NoOwner` are the three cases the code tells apart.
- *Trees.* Three panes are the smallest tree with a nested split (sibling promotion below a grandparent and at the root); tiled
  arrangement then has two rows. Four panes over three tabs and two sessions let a session die by the last
  shell, the last tab or a kill while the other lives, with a popup. `made` bounds the panes, tabs
  and sessions of a behaviour, not only those alive.
- *Feed.* Four chunks enter the alternate screen, clear it twice and leave it; reads of two let a burst be coalesced, or drained over
  several turns. Two panes have drains that overlap; one is enough for how a thread or the daemon delivers. One event is a respawn,
  so that a cancelled drain meets the next shell, or a restart at any moment of a burst.
- *Screens.* Two rows are the fewest for which a delta is sent (one of two rows changed) and refused (both). Three events
  are enough for an output, a resynchronisation that swallows it and the leaving of who asked; what follows an event
  (frames built, written, applied, redraws) is not bounded. Tabs of one pane are enough for `BaselineTrue`, as the memory is kept per pane;
  `mirror_clients` has a tab of two.
- *Link.* A header of two bytes and a payload of two can each be cut in the middle. Three frames let one be applied, one wait in
  the channel and one be half read.
- *View.* Two plugin screens reach the cap with the third push. Three events: two restarts begun, or one with a plugin or a
  reconnection in between; keys and pumps are not bounded.
- *Deadlock* is not checked: daemon and server stop, and bounded behaviours end.
- *Symmetry*: servers in the session runs (safety and step properties only), clients in `tree_sessions`.

Switches: `WatchOn` (the watchdog exists; off where it would only multiply states),
`LateFirst` (a server's first frame after the probe time limit), `SettleGivesUp` (3 s limit), `SpawnErrs`,
`AliveErrs` (a liveness query that misses a living process).
The theorems hold for every value of the switches. "Idle for at least the grace"
may hold at any poll that finds no server. `slow_host` drops the assumption
(`HostCaughtUp`) that the daemon has dealt with what it received before a freshly started server, which takes 0.4 s and more, connects.

### Fairness

`FairHostSpec` assumes weak fairness of each connection's coroutine, of the watchdog and of the exit.
The event loop runs every ready coroutine, the executor returns, the authentication has a time limit,
and the watchdog sleeps and polls for ever; so a step that stays possible is taken. Nothing is assumed of
peers, shells or of a shell's end. `OrphanReclaimed` needs no more: its premise is that no server stays connected and
the recorded owner is not alive.

`PaneFeed` assumes that the loop runs the callbacks in its queue and that the timer of a restart fires.
`ScreenMirror` assumes that the event loop runs what is ready (the parts of a resynchronisation, the writes), that the
flush loop wakes (`FLUSH_HZ`), that a synchronised frame is cut off (`SYNC_OUTPUT_MAX_DEFER`), and that the client pumps
(every 33 ms) and reads. `LinkFairness`: the thread is scheduled, bytes that were sent travel while the connection
is open, the view pumps, and the server writes the resynchronisation it owes an open connection. In
`NativeView` the task pumps as long as it lives and the server answers while the connection lives. Weak
fairness is enough everywhere, and nothing is assumed of users, programs, plugins or the network's failures.

## 4. What is proved

The theorems of `PtyHostProofs` hold for every value of the constants (any number of panes, PTYs, connections,
frames in flight, any peers, every switch), from two assumptions that TLC evaluates on each run:
`BoundsAssumption` (the bounds are natural numbers, the ring holds at least one chunk) and
`SwitchAssumption` (the switches are Boolean). Those of `FrameLinkProofs` hold for any messages and any frame lengths, from
`LinkAssumption` (headers and payloads have at least one byte). Those of `WindowTreeProofs` hold for any number of sessions, tabs,
panes and clients, from `WindowTreeAssumption` (the bounds are positive naturals, the switches Boolean). Those of
`ScreenMirrorProofs` hold for any tabs, panes, heights and clients, from `MirrorAssumption`, and those of `NativeViewProofs` for any
plugins, commands and events, from `ViewAssumption` (the specifications of plugins are limited by a positive number, events by a natural one). Those of
`PaneFeedProofs` hold for any panes and backends, any program, reads of any size, coalescing on or off, and any number of respawns and
restarts, from `FeedAssumption` (a script is a sequence of the four kinds of chunks, a read may return at least one). Those of
`HostSessionProofs` hold for any number of servers, panes, PTYs and connections, from the daemon's assumptions and
`EventsAssumption` (`Events` is a set of event names). Five of them have the hypothesis `Prompt`: neither `list_timeout` nor
`slow_host` is among the events, that is, a starting server gets the list of panes from a daemon that has worked off
what its predecessor sent. It is the condition of the run `session_tabs`, and it is needed: after a list that timed out numbers start at 1
again, and a daemon that is still making a pane leaves it out of its list (section 5).
One of the five, `NothingLeakedCorrect`, also has the hypothesis `~SpawnErrs`, as that run has: the backend never fails to make a shell (section 3).

| theorem | says | by |
|---|---|---|
| `TypeCorrect` | `HostSpec => []TypeOK` | `TypeInv` = `TypeOK` and: a coroutine that makes a PTY makes it for a pane (`ArgOK`). Without `ArgOK` a spawn could land at pane 0, which is outside `shellOf`. |
| `OneServerCorrect` | `HostSpec => []OneServer` | `ServerInv` adds `Fresh`: a connection that is not adopted yet is neither closed by the host nor a probe. Without it adoption could make a dead connection the server. |
| `KeptOnlyWhenDetachedCorrect` | `HostSpec => []KeptOnlyWhenDetached` | `KeptInv` = `TypeInv` and the property: it is inductive once the types are known. Adoption flushes, output to a server does not touch the ring, nothing else adds to it. |
| `NothingRegisteredAfterStopCorrect` | `HostSpec => NothingRegisteredAfterStop` | an action property: of all steps only `SpawnLands` registers (`OnlyLandingRegisters`), and it looks at `stop` again. |
| `SpawnsReservedCorrect` | `HostSpec => []SpawnsReserved` | `ReservedInv` = `TypeInv` and the property. A spawn takes an id that is not in `_spawning`, so no other call has it; a return gives back its own id only, because ids being made are distinct. |
| `ShellsAccountedCorrect` | `HostSpec => []ShellsAccounted` | `HeldInv`: no child has two holders, dead or alive (`HeldOnce`); one that is not made yet has none (`UnmadeFree`); a living one has one (`LiveHeld`). The property speaks of living children only; without the first two parts a new child could be given to a second holder. |
| `KeptIsNewestCorrect` | `HostSpec => []KeptIsNewest` | `RingInv` = `KeptInv`, `HeldInv` and the property. It needs `HeldOnce` (no other pane reads the shell, so its count of chunks moves with this ring) and `KeptOnlyWhenDetached` (while a server takes the chunks, the rings are empty). `KeptGrows` is the lemma about the ring operator. |
| `InFlightInOrderCorrect` | `HostSpec => []InFlightInOrder` | `FlightInv` = `RingInv` and, of every connection, `Sound`: what is in flight is in order, older than the ring, and was read (`Read`: no chunk in flight is beyond its shell's count). The last part is what makes the next chunk newer than all of them; `KeptIsNewest` makes it hold of a ring that is flushed. The lemmas `SoundTail`, `SoundAppend`, `SoundLater` say what a step may do to one queue. |
| `SessionTypeCorrect` | `SessionSpec => []SessionTypeOK` | `SessionInv` = the daemon's `HostInv` and `ServersOK`, which also gives the type of what is waiting to be restored (`resume`, `listed`): pane numbers come from there (`HighestIs`: the highest of a set of panes is one, or 0). |
| `SessionKeepsDaemon` | `SessionSpec => []` of `OneServer`, `KeptOnlyWhenDetached`, `KeptIsNewest`, `InFlightInOrder`, `SpawnsReserved` | each server's step is one that an arbitrary peer may take (`GuestStep`, `ServerGuest`, `UserGuest`), and those keep `HostInv` (`GuestKeeps`). |
| `SpawnsAreFreshCorrect` | `Prompt` implies `SessionSpec => []SpawnsAreFresh` | `NumberInv`, eleven named parts. A number asked for and not yet taken by the daemon is asked for once (`AskedOnce`) and not in use (`AskedFresh`); the allocator of a running server is past every number in use or asked for (`Below`). What makes `Below` true of a successor: while it starts nothing is being made, asked for or closed (`Quiescent`), the answer that travels to it covers what is registered (`Replies`), and so does what it read (`Lists`). That in turn needs that no two servers run at once (`Alone`). |
| `RestartKeepsTabsCorrect` | `Prompt` implies `SessionSpec => RestartKeepsTabs` | an action property, from `Lists`: only `Restore` makes a server run (`OnlyRestoreRuns`), and what it was told covers what the daemon has. |
| `ShownShellsSurviveCorrect` | `Prompt` implies `SessionSpec => ShownShellsSurvive` | an action property, from `ShownInv`. Shells are closed without a stop only by a close frame, by the end of a child (`_finish_eof`) and by a spawn that finds its number taken, and the first two go by number. So the invariant says that a number is never somebody else's: no pane is in two tabs (`TreesApart`), the allocator is past what is shown and what is being closed (`TabsBelow`), a child is made once (`OnceMade`), who settles has stopped (`StopSet`); and until the host stops, nobody makes a pane again whose end is under way (`EndedOver`), the pane of a waiting reap is still its own child's or free (`ReapsOK`), an exit frame finds no new pane under its number (`ExitsOK`), and a close frame under way names no pane that anybody claims (`CloseSafe`). It contains `NumberInv`. |
| `ScreenInOrderCorrect` | `Prompt` implies `SessionSpec => []ScreenInOrder` | `ScreenInv` = `ShownInv` and: what a screen shows of a pane, and what a resume file keeps of it for a successor that will restore it, is in order and older than all that is still to come, on the server's connection, in the ring and from the shell (`ScreensFit`); what is on a connection for a pane is of one shell and rises (`FlightsFit`). The pane of a chunk that was shown or will be gets no new shell (`SeenOver`), a starting server hears of a pane before it gets its output (`Heralded`), and who has restored nothing shows nothing (`Unfed`). On the daemon's side it stands on `FlightInv`: `HostOutput` says that a step of the daemon sends or keeps nothing but what was in the ring or is new. |
| `NothingLeakedCorrect` | `Prompt` and `~SpawnErrs` imply `SessionSpec => []NothingLeaked` | `LeakInv` = `ShownInv` and: all that the daemon has, is making or is asked for is shown by the running server, or a close frame for it stands behind its spawn frame on the server's connection (`Accounted`). A close frame that is under way is not lost, because the connection of a server that attends to it is open at both ends until the daemon stops, and all other connections have nothing more to say (`Link`, `Hushed`). A successor can account for what it inherits, because it closes what it does not restore, and it does so because it is told that its predecessor is dead: its greeting names it before it asks for the list (`Greets`), the daemon then knows a previous owner that is not alive, or has no panes (`Inherited`, `Unclaimed`), and the answer says so until it is read (`Answered`, `Pruning`). `GoneDead` and `Named` say that who is gone is dead and that owners the daemon hears of have connected. When all has settled no frame waits, so what is accounted for is shown (`SettledShows`). |
| `LinkTypeCorrect` | `LinkSpec => []LinkTypeOK` | part of `LinkInv`, the inductive invariant that the three theorems share: types, what has arrived is within what was sent (`ArrivedOK`), where the thread stands (`ReadOK`), what it has handed on (`StreamOK`). |
| `Aligned` | `LinkSpec => []StaysAligned` | `ReadOK`: the thread is `filled` bytes into a header, or a header and `filled` bytes into a frame, and never past what has arrived. |
| `LinkIsPipe` | `LinkSpec => KeepsOrder` | refinement, safety part. `StreamOK`: the messages given, then those in the channel, are the first frames, and as long as the thread reads for a view all that it has read. A step of the link is a `Put`, a `Get` of the whole channel, an `End` or a stutter. |
| `ViewsRegisteredCorrect` | `Spec => []ViewsRegistered` | `RegistryInv`, which speaks of the registry of sessions and the views only and is inductive without the trees: a step that drops a session gives its clients another one or detaches them in the same step. |
| `OneDrainCorrect` | `Spec => []OneDrain` | `DrainInv` = `Types`, `FlagsOK` (a descriptor whose pane has a drain is detached), `QueueOK` and `Driven` (a task names a drain in the queue). The property is not inductive: the `finally` clause of a cancelled drain clears the task of its pane, whoever owns it by then. `ZombiesFirst` is why it does no harm: whatever may start another drain stands behind the cancelled one in the queue. `ArrivalsOK` says who may stand there: data of earlier shells is recognised by its shell. |
| `CollectorBackCorrect` | `Spec => []CollectorBack` | `CollectorInv` = `DrainInv`, `QueueFilled` and `CollectorOK`. A drain that ends before its first slice would give back a count it never took; it cannot, because a drain that has not begun finds chunks in its buffer (`BuffersFilled`) and its buffer empties only when it is cancelled, which it then notices without the `finally` clause. Numbers of drains are distinct (`DrainsApart`), so that the count is one of drains. |
| `FeedTypeCorrect` | `Spec => []FeedTypeOK` | `FeedTypeInv` = `CollectorInv`, `NumbersOK`, `AttachedOK` (only open panes have readers) and `ChunksOK`: whatever a screen, a buffer, a callback or a saved screen holds was written by a shell. |
| `FedInOrderCorrect` | `Spec => []FedInOrder` | `OrderInv` = `DrainInv` and `OrderOK`: the chunks of a pane go from callbacks to the buffer, to its drain and to the screen, and each place holds later chunks than the next (`PaneOrder`); without a drain the buffer is empty, or a small chunk fed at once would overtake it; saved screens fit. |
| `EofFindsNothingCorrect` | `Spec => EofFindsNothing` | an action property, from `EofInv` = `OrderInv` and: no end is posted with descriptors. A read runs only for an attached pane, which has no drain, hence no buffer. |
| `LossOnlyRepaintsCorrect` | `Spec => []LossOnlyRepaints` | `LossInv` = `EofInv`, `FeedTypeInv` and `LossOK`. The step that matters is a burst that is coalesced (`BurstLosesNothing`): the decision looks at the screen as it is now, the property at all chunks written so far. They agree because a switch is never drawn over, so that with no drain and no buffer every switch read is on the screen, in order (`AltAfterAll`). |
| `TabMovesKeepZonesCorrect` | `Spec => TabMovesKeepZones` | an action property, from `TabsInv` = `RegistryInv` and `TabsOK`: the tabs of a session are distinct, one of them is active, no tab is in two sessions, a session outside the dict has none, numbers of tabs and sessions that were given out are behind the counters. Moving and exchanging are permutations of the positions (`MovedIs`, `SwappedIs` by `ExchangeKeeps`); a move inside a zone keeps every position on its side of the first pinned tab (`ZonesAre`, `IntoZone`); sorting the pinned tabs to the end is two selections from the list (`DividedIs`). |
| `LinksAgreeCorrect` | `Spec => []LinksAgree` | `TreeInv` = `TabsInv` and `TreeOK`: there is a numbering of the nodes that fits the links (`Sound`) and the panes are where it says (`Placed`). It gives every node the tab it belongs to (`own`) and the run of places in the order of `Window.panes` that it stands for (`lo` to `hi`), and every split the place after which its second child begins (`cut`). `LinksAgree` alone is not inductive: a ring of splits or a part of a tree that hangs in another one has agreeing links, and a surgery there loses panes. With the numbering a tree is one because runs get shorter downwards (`Shares`), every pane has its own place (`PlacesOK`) and every gap between places its own split (`CutsOK`). Each surgery (split, detach, join, break out, exchange, rotate, presets, a saved layout) has a lemma that gives the numbering it leaves; the steps of the commands are composed of them. |
| `CacheFreshCorrect` | `Spec => []CacheFresh` | `TreeInv`: the list a window has cached is empty or the order of the numbering (`WindowsOK`), and that order is what a walk over the tree finds (`LeavesIs`). |
| `NoPaneLostCorrect` | `Spec => []NoPaneLost` | `TreeInv`: a pane that has a tab in the numbering has a running shell and is in no popup, one with a running shell and no tab is in exactly one popup, and panes that were not made yet are nowhere (`Placed`). |
| `TreeTypeCorrect` | `Spec => []TreeTypeOK` | `TreeInv` and that no more tabs were made than there are. |
| `MirrorTypeCorrect` | `Spec => []MirrorTypeOK` | `Types`: of the server, of the parts of a resynchronisation, of the clients, and nothing is kept for a client that left. |
| `BaselineTrueCorrect` | `~Yields` implies `Spec => []BaselineTrue` | `Trust` = `Types`, `Alone` (without yields at most one part of a resynchronisation is between two writes) and, of each client, `Believed`: what the server remembers as sent is what the client's screens will be when all that is on its way has been applied. What a client makes of the frames on its way is a fold; the lemmas say what one more frame at the end adds to it, and that taking the first one over changes nothing. |
| `ViewTypeCorrect` | `Spec => []ViewTypeOK` | part of `ViewInv`. |
| `RestartsBegunCorrect` | `Spec => []RestartsBegun` | `ViewInv`: the restarts queued so far, the question whether to restart (`Asked`) and the gate (`Gated`) are together at most the restarts begun. What happens in the view moves one of these to the next, or drops it, and a fold over what is pumped never adds one (`Follows`). |

The proofs follow the next-state relation: one lemma per group of actions (peers,
connections, shells, daemon), one step per action, and below it one per conjunct the action can
disturb. Facts on frames and on the operators the actions are made of (`WrittenType`, `TakingType`,
`ClosePanesType`, ...) are lemmas of their own.

What a fold or another recursive function computes for every input needs induction over data, which the prover cannot take from the library.
`FoldLemmas` gets it in first-order form: a fold over a sequence is shown to be the last value of a path of intermediate results (`PathExists`), and
what holds of every step of a path holds at its end, because a least step at which it fails cannot exist (`Climb`). `SelectSeq` and
`SortSeq` are opaque to the prover, so the modules write a selection as a fold. No module declares a RECURSIVE operator: recursion is written as
recursive functions, so that every module can be proved about.

With these, every safety property that the passing runs check is also proved: all their invariants and all their action properties. Only
model-checked are the liveness properties, which are out of the prover's reach (fairness needs ENABLED): `OrphanReclaimed`,
`ReaderComesBack`, `LoneMirrored`, `ReplacedLinkCloses`, `RestartDecided`, `QueuedIsSent`, and `KeepsPromise` beyond `KeepsOrder`.

## 5. Where code and comments disagree

Two runs in which TLC finds a behaviour that contradicts a sentence of the repository:

1. `session_gap` / `GapOutputShown`. A comment in `_restart_server_host` (`serverpersist.py:925`) calls
   the restart free of gaps: output written meanwhile is kept and flushed to the successor. It is
   flushed on adoption, before the successor has the callbacks of the panes it restores, and
   the read loop drops data of panes without callbacks.
2. `mirror_clients` / `EventuallyMirrored`. The comment on `_sent_rows` (`model.py:1467`) says that several clients stay
   consistent without a resynchronisation, as each has a memory of its own. The flag that says that a pane must be sent
   is not per client: a resynchronisation of one client clears it (`serverio.py:572`), and output that came since the last
   flush never reaches the other, until the pane changes again.

Found with the same modules, not kept as runs:

- A comment in `_spawn` (`ptyhost.py:338`) says that a shutdown waits for PTYs being made. It does in the coroutine that took
  the frame, but `serve()` wakes on the same event, allows half a second and exits (`ptyhost.py:564`).
- The watchdog's docstring (`ptyhost.py:462`) says that it judges only while no server is connected. It looks before it
  asks for the owner's liveness and not after (`ptyhost.py:483`), so that a server adopted during the question is taken down.
- `_next_pane_id` (`serverpty.py:148`) says that the counter is raised above what the host has. The host's list leaves out
  panes still being made; on a daemon that is slow with a spawn a successor hands out the number again.
- The comment on pins (`servertree.py:377`) says that `_normalize_pins` restores "unpinned, then pinned" at the end of
  every change. `break_pane` (`servertree.py:529`) and `load_tab_layout` append an unpinned tab at the very end.
- `restart_server` says that it feeds the remaining bytes before it saves the screens (`serverpersist.py:893`). It feeds `_feedbuf`, which a
  drain that has begun emptied into a local variable (`serverpty.py:518`); what the drain has not fed is lost. `LossOnlyRepaints`
  fails without its exception for restarts.
- Main-screen output must never be dropped (`model.py:250`). While a drain still holds the sequence that leaves the alternate screen,
  what arrives behind it is coalesced as if that screen were shown (`serverpty.py:481`). Only panes whose output arrives
  after a pause are affected: with the daemon, `LossOnlyRepaints` fails for a script that leaves the alternate screen, writes text and clears twice.
- On a normal end the feed is said to be empty already (`serverpty.py:592`). A thread or the daemon delivers the end right behind the last
  output, and what was not fed is dropped (from the screen, recordings and `pipe-pane`): `EofFindsNothing` fails there.
- The reader is detached for a while only (`serverpty.py:376`). A restart that cannot write its file has cancelled the drains, and cancelled drains
  do not resume their readers (`serverpty.py:532`): those panes stay mute until they are respawned. `ReaderComesBack` excepts it.
- Only a y or the chosen yes button confirms (`screens.rs:2758`). Opening a confirmation that is already on top closes it but sets its question
  all the same (`screens.rs:1389`), and Enter in the input below answers it.
- "No mismatch of the baseline" (`serverio.py:1186`) and the order of frames that the write lock is there for (`model.py:1456`) hold only if
  a drain does not yield: the flush loop records what a client holds before it has the client's lock, and a
  resynchronisation that runs in between forgets it again. With `Yields = TRUE`, `BaselineTrue` fails in six states. `mirror` checks the other build.

Seen in the native client:

- The task that pumps returns when the view has ended (`main.rs:407-415`), and `reconnect` does not start another
  (`session_view.rs:7464`): the new link is not read (`docs/landing/guide/restart.html:70` describes the opposite).
- `state.closed` is not reset by a reconnection.
- A restart waits for the next reply to a dry run, of whichever one (`session_view.rs:7422`), and `pending_restart` survives a reconnection.
- A prompt that another screen covers forgets its question (`screens.rs:882`).
- A plugin screen that is closed under another one leaves an empty one behind.
- The pair of commands that joins a tab can be split by another client's selection (`session_view.rs:1411`).
- The answer to a plugin's question goes to the newest plugin screen, whichever asked.

Seen in the server, not covered by a run:

- An exit frame that is read between the list reply and the restoration of its pane is dropped; the
  dead pane stays on the screen (`ptyhostclient.py:145`, `serverio.py:2118`).
- `_finish_eof` closes by pane number after a slow reap (`ptyhost.py:419`).
- After a failed spawn has cost the connection, the reconnected client registers none of the old panes:
  they stay on the screen without output (`ptyhost.py:345`, `serverio.py:844`).
- A list request that times out drops all tabs and starts pane numbers at 1 (`serverio.py:2120`).
- One dead pane of a split tab loses the tab on restart (`serverpersist.py:619`; intended).
- Output that is read between the save of a restart and the `execv` 0.1 s later is shown to nobody afterwards (`serverpersist.py:915`).
- In host mode a restart that is given up leaves a cancelled drain whose finally clause clears `_feed_task` (`serverpty.py:530`), also when a
  new drain has begun meanwhile: two drains may then feed one pane.
- Closing a tab in front of the active one moves the view to the next tab (`servertree.py:81`).
- The popup shell of a dropped session keeps running (`servertree.py:871`).
- Applying the same layout preset twice reverses the panes (`model.py:1266`, `1342`).
- A client without a session that asks for a new tab gets two (`serverio.py:1331`).

## 6. Abstractions, and what is not modelled

*Daemon and servers.*
- Input, resize, signal and keepalive frames change nothing the daemon keeps and are left out; the
  close that a missed keepalive causes is the loss of the connection.
- A flush is one data frame with the chunks of all panes; the code writes one frame per chunk
  without an await in between. The `drain()` inside a frame write is not a point of interleaving.
- Chunks that a child wrote before it exited and that are read afterwards appear as an exit
  that happens later.
- On Windows one read may still come through after a pause; `paused` takes effect at once.
- In `HostSession` a leaving predecessor is gone before its successor connects, and the successor's request that
  the previous owner go is not modelled; nor are two servers alive at once, a second daemon, a daemon crash,
  and the in-process fallback when no daemon can be had. They belong to the planned module Endpoint.
- Feeding a screen is one step (`ShowOutput`); its pacing is the subject of `PaneFeed`.
- The watchdog is off in session runs: the owner lives in all but the crash, and its action
  is the subject of `host_takeover`.

*Tree.*
- Sizes, split ratios and directions, zoom, names, titles, borders, synchronised input, auto-rename, remote tabs
  and respawn are left out: no property depends on them. The tiled preset keeps its shape, the others differ
  only in what is left out.
- A dropped window's links are reset, so that states that differ only in garbage are one.
- Errors that a command reports without changing state are guards.

*Feed.*
- Slices are fed whole: sequences that are cut by a slice, and what the emulator does with them, are left out; so are
  queries answered on the way, activity and mode flags, recordings and `pipe-pane`.
- A respawned pane's old reader posts nothing more: the code ignores what it posts (`_stop`, `unregister`).
- No command arrives in the 0.1 s between the save of a restart and its `execv`, and the `execv` succeeds. A restart in host mode is the subject of
  `HostSession`; its feeding of the buffers is the same loop as here.
- What was read between save and `execv` is lost in the model as in the code, so `LossOnlyRepaints` is checked without restarts.

*Screens and links.*
- Cursors, wrap marks, blocks, scroll positions, the status line, pop-ups and remote views ride on the same frames and are left out,
  and so are the window_size settings other than the default, `latest`.
- `Type` stands for all that makes a client the one that acted last (keys, paste, mouse, scrolling). A client that
  is that already changes nothing by it.
- A client that is dropped because a drain or a lock took too long is `Leave`; how long that takes is not modelled.
- The runs of `ScreenMirror` have `Yields = FALSE`: drains that complete at once. Section 5 says what `TRUE` shows.
  A delta for a pane whose screen the client does not have, and the redraw the client asks for then, cannot happen so
  (`BaselineTrue`): the delta is dropped in the model and the request left out.
- `FrameLink` leaves out what a byte says. A header that is not read from the start of a frame is taken to announce a length the
  code refuses. The decoder's choice is by message (`Unreadable`).
- The channel is not bounded, as it is not in the code; the frames of a behaviour are (`MaxSent`).

*View.*
- Left out: restart-all and the relaunch of the client, letter keys, mouse and tab cycling on plugin screens, the palette, menus and
  search, empty answers, goodbyes of the server, and an attach that fails (it changes nothing but a message).
- A pump applies any prefix of what has arrived; the code applies what is in the channel at that moment.
- A command is sent whole or not at all: a partial write ends the connection.

*Not modelled.* Terminal emulation and the JSON framing are sequential code over data that TLC cannot
enumerate usefully. PTY and ConPTY calls, diagnostics and drawing are I/O. Plugins, vendored crates
and tools are outside the core. By far most Rust code is of that kind (a vendored UI toolkit, drawing, key tables, encoders), so that
the share of it that the modules stand for is small. Federation and endpoints are planned.

## 7. Plan

Done, in the order of what costs users most when it goes wrong (lost shells, lost output, lost tabs, wrong screens): `PtyHost` with its
proofs, `HostSession`, `WindowTree` (sessions, tabs and trees), `ScreenMirror`, `FrameLink` with `Pipe`,
`NativeView` and `PaneFeed`, each with its proofs.

Next, in this order:

1. `Endpoint` (`ipc`, `launcher`, `ptyhostmgr`, `serverpersist`): two servers at once, eviction, pid
   and port files, spawn lock with its time to live, and what the leaving server's shutdown does to the daemon.
   Abstract specification: at most one owner, whose files are published.
2. `Federation` (`serverremote`): link loss, reconnection, keys of remote tabs.
3. Refinement: the life of a pane (absent, being made, running, ended, gone) as an abstract specification
   that `PtyHost` implements; liveness of a restart in `HostSession`.

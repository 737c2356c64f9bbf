---------------------------- MODULE WindowTree ----------------------------
(***************************************************************************)
(* Sessions, tabs, windows and the split trees of panes that the server    *)
(* keeps (servertree.py, model.py) and the commands that work on them      *)
(* (servercmd.py).  A tab holds exactly one window, so a tab and its       *)
(* window share a number.  A tree is kept as the code keeps it: a split    *)
(* has two children, every node a link to its parent, a window a root, an  *)
(* active pane, the one active before it, and a cached list of its leaves. *)
(*                                                                         *)
(* Handlers run to completion on the server's event loop, so one command   *)
(* is one action.  Geometry, zoom, names and titles are left out; pane,     *)
(* tab and session numbers are never used twice, as in the code.           *)
(***************************************************************************)
EXTENDS Naturals, Integers, Sequences, SequencesExt, FiniteSets

CONSTANTS
  MaxPane,     \* panes made in a behaviour (bound)
  MaxTab,      \* tabs made in a behaviour (bound)
  MaxSess,     \* sessions made in a behaviour (bound)
  Clients,     \* client connections
  ExitEmpty,   \* the exit-empty option: stop when the last session goes
  Rearranging  \* whether commands that only rearrange are taken (bound)

ASSUME WindowTreeAssumption ==
  /\ {MaxPane, MaxTab, MaxSess} \subseteq Nat \ {0}
  /\ {ExitEmpty, Rearranging} \subseteq BOOLEAN

None == 0
Panes == 1..MaxPane
Splits == (MaxPane + 1)..(2 * MaxPane)
Nodes == Panes \cup Splits
Tabs == 1..MaxTab
Sess == 1..MaxSess
Away == -1           \* a client that is not connected
NoKids == <<None, None>>

VARIABLES
  running,   \* Server.running
  sessions,  \* Server.sessions in the order of the dict
  tabs,      \* Session.tabs
  active,    \* Session.active_index
  last,      \* Session.last_index
  popup,     \* the pane of Session.popup, or None
  pinned,    \* tabs with Tab.pinned
  tree,      \* kids of splits, parents of nodes, and each window's fields
  shells,    \* panes whose shell runs
  made,      \* panes, tabs and sessions made so far
  views      \* ClientConn.session

sessVars == <<sessions, tabs, active, last, popup>>
vars == <<running, sessVars, pinned, tree, shells, made, views>>

-----------------------------------------------------------------------------
(* Trees *)

NoTree == [kids  |-> [s \in Splits |-> NoKids],
           up    |-> [n \in Nodes |-> None],
           root  |-> [t \in Tabs |-> None],
           act   |-> [t \in Tabs |-> None],
           prev  |-> [t \in Tabs |-> None],
           cache |-> [t \in Tabs |-> <<>>]]

\* The leaves below a node in the order in which Window.panes visits them:
\* its stack takes child b before child a.  A split without children is one
\* that no window uses.
Leaves(f, node) ==
  LET below[n \in Nodes] ==
        IF n \in Panes THEN <<n>>
        ELSE IF f.kids[n] = NoKids THEN <<>>
        ELSE below[f.kids[n][2]] \o below[f.kids[n][1]]
  IN below[node]

\* What Window.panes answers: the cached list if there is one.
PaneList(f, t) == IF f.cache[t] = <<>> THEN Leaves(f, f.root[t]) ELSE f.cache[t]

\* Window.panes also stores what it answers.
Listed(f, t) == [f EXCEPT !.cache[t] = PaneList(f, t)]

\* Mutant: a tree surgery that forgets the cache.
UncachedNever(f, t) == f

Uncached(f, t) == [f EXCEPT !.cache[t] = <<>>]

FirstPane(f, node) ==
  LET first[n \in Nodes] ==
        IF n \in Panes THEN n
        ELSE IF f.kids[n] = NoKids THEN None
        ELSE first[f.kids[n][1]]
  IN first[node]

\* The active_pane setter remembers the pane that was active before.
Activate(f, t, p) ==
  IF p = f.act[t] THEN f ELSE [f EXCEPT !.prev[t] = f.act[t], !.act[t] = p]

\* Mutant: only the first child of a split is ever replaced.
InSlotFirst(f, t, gp, old, new) ==
  IF gp = None THEN [f EXCEPT !.root[t] = new] ELSE [f EXCEPT !.kids[gp][1] = new]

\* Puts a node into the slot another one holds: under split gp, or as root.
InSlot(f, t, gp, old, new) ==
  IF gp = None THEN [f EXCEPT !.root[t] = new]
  ELSE [f EXCEPT !.kids[gp] = [i \in 1..2 |-> IF @[i] = old THEN new ELSE @[i]]]

SplitsOf(f, t) ==
  LET below[n \in Nodes] ==
        IF n \in Panes \/ f.kids[n] = NoKids THEN {}
        ELSE {n} \cup below[f.kids[n][1]] \cup below[f.kids[n][2]]
  IN below[f.root[t]]

FreeSplit(f) == CHOOSE s \in Splits : f.kids[s] = NoKids

\* Takes a pane that has a parent out of its window: the sibling takes the
\* place of the parent, and the focus moves to the sibling's first pane.
Detach(f, t, p) ==
  LET parent == f.up[p]
      sibling == IF f.kids[parent][1] = p THEN f.kids[parent][2] ELSE f.kids[parent][1]
      gp == f.up[parent]
      cut == [InSlot(f, t, gp, parent, sibling)
                EXCEPT !.up[sibling] = gp, !.up[p] = None,
                       !.up[parent] = None, !.kids[parent] = NoKids]
  IN Uncached(IF f.act[t] = p THEN Activate(cut, t, FirstPane(cut, sibling)) ELSE cut, t)

\* Splits the place of a target pane in two and puts a pane beside it.
Beside(f, t, target, p) ==
  LET s == FreeSplit(f)
      gp == f.up[target]
      put == [InSlot(f, t, gp, target, s)
                EXCEPT !.kids[s] = <<target, p>>, !.up[s] = gp,
                       !.up[target] = s, !.up[p] = s]
  IN Uncached(Activate(put, t, p), t)

\* A window with one pane.
Single(f, t, p) == [f EXCEPT !.root[t] = p, !.act[t] = p, !.up[p] = None]

\* Forgets the windows of tabs that are gone.
Forget(f, ts) ==
  LET gone == UNION {SplitsOf(f, t) : t \in ts}
      loose == gone \cup UNION {Range(Leaves(f, f.root[t])) : t \in ts}
  IN [kids |-> [s \in Splits |-> IF s \in gone THEN NoKids ELSE f.kids[s]],
      up |-> [n \in Nodes |-> IF n \in loose THEN None ELSE f.up[n]],
      root |-> [t \in Tabs |-> IF t \in ts THEN None ELSE f.root[t]],
      act |-> [t \in Tabs |-> IF t \in ts THEN None ELSE f.act[t]],
      prev |-> [t \in Tabs |-> IF t \in ts THEN None ELSE f.prev[t]],
      cache |-> [t \in Tabs |-> IF t \in ts THEN <<>> ELSE f.cache[t]]]

\* The presets put the listed panes into rows.  A row is a chain: a split has
\* one pane and the rest of the row; and the rows are chained in the same way.
\* The even- and main- presets have rows of one pane (they differ in direction
\* and size only), tiled has about as many columns as rows.  The split that
\* separates pane k from the next one is ss[k].
Columns(n) == CHOOSE c \in 1..n : c * c >= n /\ (c - 1) * (c - 1) < n

\* The rest of a row, from pane i on.
Row(nodes, ss, w, i) == IF i % w = 0 \/ i = Len(nodes) THEN nodes[i] ELSE ss[i]

\* The rows behind pane k, which ends one.
Rows(nodes, ss, w, k) ==
  IF k + w < Len(nodes) THEN ss[k + w] ELSE Row(nodes, ss, w, k + 1)

Halves(nodes, ss, w, k) ==
  IF k % w = 0 THEN <<Row(nodes, ss, w, k - w + 1), Rows(nodes, ss, w, k)>>
  ELSE <<nodes[k], Row(nodes, ss, w, k + 1)>>

\* Window.apply_preset rebuilds the tree from the listed leaves and sets
\* every parent link again.
Arranged(f, t, tiled) ==
  LET nodes == PaneList(f, t)
      n == Len(nodes)
      w == IF tiled THEN Columns(n) ELSE 1
      own == SplitsOf(f, t)
      ss == CHOOSE q \in Bijection(1..(n - 1), own) : TRUE
      kids == [s \in own |-> Halves(nodes, ss, w, CHOOSE k \in 1..(n - 1) : ss[k] = s)]
      root == Rows(nodes, ss, w, 0)
      parent(x) == IF x = root THEN None ELSE CHOOSE s \in own : x \in Range(kids[s])
  IN Uncached([f EXCEPT
       !.root[t] = root,
       !.kids = [s \in Splits |-> IF s \in own THEN kids[s] ELSE @[s]],
       !.up = [x \in Nodes |-> IF x \in Range(nodes) \cup own THEN parent(x) ELSE @[x]]], t)

\* Moves panes into each other's slots: the slot of q gets new[q].
Permuted(f, t, new) ==
  LET to(n) == IF n \in DOMAIN new THEN new[n] ELSE n
      from(n) == CHOOSE q \in DOMAIN new : new[q] = n
  IN Uncached([f EXCEPT
       !.kids = [s \in Splits |-> <<to(@[s][1]), to(@[s][2])>>],
       !.up = [n \in Nodes |-> IF n \in DOMAIN new THEN @[from(n)] ELSE @[n]]], t)

Exchanged(f, t, p, q) == Permuted(f, t, [n \in {p, q} |-> IF n = p THEN q ELSE p])

-----------------------------------------------------------------------------
(* Sessions and their tabs.  Indices count from 0 as in the code. *)

At(seq, i) == seq[i + 1]
PosOf(seq, t) == CHOOSE i \in 0..(Len(seq) - 1) : At(seq, i) = t

\* Mutant: the index is left as it was.
ClampedNever(i, seq) == i

\* Session.active_tab brings a stale index back into range when it is read,
\* which the broadcast after every command does.
Clamped(i, seq) == IF seq = <<>> THEN 0 ELSE IF i < Len(seq) THEN i ELSE Len(seq) - 1

ActiveTab(s) == At(tabs[s], active[s])

OpenTabs == UNION {Range(tabs[s]) : s \in Range(sessions)}

\* Mutant: only the tabs on display are searched.
HomesShown(p) == {t \in {ActiveTab(s) : s \in Range(sessions)} :
                    p \in Range(PaneList(tree, t))}

\* The tab of a registered session whose window lists the pane.
HomesOf(p) == {t \in OpenTabs : p \in Range(PaneList(tree, t))}
SessionOf(t) == CHOOSE s \in Range(sessions) : t \in Range(tabs[s])

\* The registered sessions whose popup shows the pane.
PopupsWith(p) == {s \in Range(sessions) : popup[s] = p}

\* The position of the first pinned tab: new tabs go there.
FirstPinned(seq) ==
  LET first == SelectInSeq(seq, LAMBDA t : t \in pinned)
  IN IF first = 0 THEN Len(seq) ELSE first - 1

\* Mutant: the whole list is one zone.
ZoneWhole(seq, i) == <<0, Len(seq) - 1>>

\* The zone of an index: a tab moves only inside it.
Zone(seq, i) == IF i < FirstPinned(seq) THEN <<0, FirstPinned(seq) - 1>>
                ELSE <<FirstPinned(seq), Len(seq) - 1>>
Into(zone, i) == IF i < zone[1] THEN zone[1] ELSE IF i > zone[2] THEN zone[2] ELSE i

\* list.pop(i) followed by list.insert(j, ...).
Moved(seq, i, j) == InsertAt(RemoveAt(seq, i + 1), j + 1, At(seq, i))

\* list.pop at the tab's index, list.remove, dict.pop: the others keep their order.
Without(seq, t) ==
  IF t \in Range(seq) THEN RemoveAt(seq, PosOf(seq, t) + 1) ELSE seq

\* The elements of seq that are in S, in their order.
Selected(seq, S) ==
  FoldLeft(LAMBDA kept, t : IF t \in S THEN Append(kept, t) ELSE kept, <<>>, seq)

NewPanes(n) == (made.pane + 1)..(made.pane + n)
CanMake(np, nt, ns) ==
  /\ made.pane + np <= MaxPane
  /\ made.tab + nt <= MaxTab
  /\ made.sess + ns <= MaxSess
Made(np, nt, ns) ==
  /\ made' = [pane |-> made.pane + np, tab |-> made.tab + nt, sess |-> made.sess + ns]
  /\ shells' = shells \cup NewPanes(np)

\* A command of a client whose session is s.
Commands(s) == running /\ \E c \in Clients : views[c] = s /\ s \notin {None, Away}

\* Mutant: the session goes and its viewers stay.
ReassignedNever(s, heir) == views

\* The viewers of a dropped session look at another one.
Reassigned(s, heir) == [c \in Clients |-> IF views[c] = s THEN heir ELSE views[c]]

\* Removes tabs from sessions.  A session left without tabs is dropped and its
\* viewers are given the first of those that remain; without any session the
\* server stops when exit-empty is set.
SetTabs(s, seq, idx) ==
  LET rest == IF seq = <<>> THEN Without(sessions, s) ELSE sessions
      heir == IF rest = <<>> THEN None ELSE rest[1]
  IN /\ tabs' = [tabs EXCEPT ![s] = seq]
     /\ active' = [active EXCEPT ![s] = Clamped(idx, seq)]
     /\ sessions' = rest
     /\ views' = IF seq # <<>> THEN views ELSE Reassigned(s, heir)
     /\ running' = (running /\ ~(rest = <<>> /\ ExitEmpty))

-----------------------------------------------------------------------------
(* Panes of a window *)

\* split_pane: the new pane goes beside the active one and becomes active.
SplitPane(s) ==
  /\ Commands(s)
  /\ CanMake(1, 0, 0)
  /\ tree' = Beside(tree, ActiveTab(s), tree.act[ActiveTab(s)], made.pane + 1)
  /\ Made(1, 0, 0)
  /\ UNCHANGED <<running, sessVars, pinned, views>>

\* _remove_pane_from_tree, for a pane that shares its window.
LeavesWindow(p) ==
  /\ \E t \in HomesOf(p) : tree.up[p] # None /\ tree' = Detach(tree, t, p)
  /\ UNCHANGED <<running, sessVars, pinned, views>>

\* The last pane of a window takes its tab with it.
LeavesTab(p) ==
  /\ \E t \in HomesOf(p) :
       /\ tree.up[p] = None
       /\ SetTabs(SessionOf(t), Without(tabs[SessionOf(t)], t), active[SessionOf(t)])
       /\ tree' = Forget(tree, {t})
       /\ pinned' = pinned \ {t}
  /\ UNCHANGED <<last, popup>>

\* A popup is not in any tree.
LeavesPopup(p) ==
  /\ popup' = [s \in Sess |-> IF s \in PopupsWith(p) THEN None ELSE popup[s]]
  /\ UNCHANGED <<running, sessions, tabs, active, last, pinned, tree, views>>

\* _pane_eof: the shell is gone, and the pane leaves the place it has.
PaneEof(p) ==
  /\ shells' = shells \ {p}
  /\ IF PopupsWith(p) # {} THEN LeavesPopup(p)
     ELSE \/ LeavesWindow(p)
          \/ LeavesTab(p)
          \/ /\ HomesOf(p) = {}
             /\ UNCHANGED <<running, sessVars, pinned, tree, views>>
  /\ UNCHANGED made

\* A shell ends by itself.
ShellExits(p) == running /\ p \in shells /\ PaneEof(p)

\* kill_pane ends the shell of the active pane.
KillPane(s) == Commands(s) /\ PaneEof(tree.act[ActiveTab(s)])

\* A command that only rearranges the window of the active tab.
Rearrange(f) ==
  /\ tree' = f
  /\ UNCHANGED <<running, sessVars, pinned, shells, made, views>>

\* select_pane, select_pane_id, cycle_pane: another pane of the window.
SelectPane(s, p) ==
  /\ Commands(s)
  /\ p \in Range(PaneList(tree, ActiveTab(s))) \ {tree.act[ActiveTab(s)]}
  /\ Rearrange(Activate(Listed(tree, ActiveTab(s)), ActiveTab(s), p))

\* last_pane: back to the pane that was active before, if it is still there.
LastPane(s) ==
  /\ Commands(s)
  /\ LET t == ActiveTab(s)
     IN /\ tree.prev[t] \in Range(PaneList(tree, t))
        /\ Rearrange(Activate(Listed(tree, t), t, tree.prev[t]))

\* select_layout, cycle_layout.
SelectLayout(s, tiled) ==
  /\ Commands(s)
  /\ Rearrange(Arranged(tree, ActiveTab(s), tiled))

\* rotate_panes: every slot gets the pane of the next one in the list.
RotatePanes(s, forward) ==
  /\ Commands(s)
  /\ LET t == ActiveTab(s)
         l == PaneList(tree, t)
         n == Len(l)
         next(i) == IF forward THEN (i % n) + 1 ELSE IF i = 1 THEN n ELSE i - 1
     IN Rearrange(
          IF n < 2 THEN Listed(tree, t)
          ELSE Permuted(tree, t, [p \in Range(l) |->
                 l[next(CHOOSE i \in 1..n : l[i] = p)]]))

\* swap_pane, swap_pane_ids: two panes of the window change places; the
\* active pane stays active.
SwapPanes(s, p, q) ==
  /\ Commands(s)
  /\ p # q
  /\ {p, q} \subseteq Range(PaneList(tree, ActiveTab(s)))
  /\ Rearrange(Exchanged(tree, ActiveTab(s), p, q))

-----------------------------------------------------------------------------
(* Panes between tabs *)

\* break_pane: the active pane gets a tab of its own at the end of the list.
BreakPane(s) ==
  /\ Commands(s)
  /\ CanMake(0, 1, 0)
  /\ LET t == ActiveTab(s)
         p == tree.act[t]
         u == made.tab + 1
     IN /\ tree.up[p] # None
        /\ tree' = Single(Detach(tree, t, p), u, p)
        /\ tabs' = [tabs EXCEPT ![s] = Append(@, u)]
        /\ active' = [active EXCEPT ![s] = Len(tabs[s])]
  /\ Made(0, 1, 0)
  /\ UNCHANGED <<running, sessions, last, popup, pinned, views>>

\* The pane leaves tab from and is put beside the active pane of tab to,
\* which becomes the active tab; a tab that loses its only pane goes.
Carry(s, p, from, to) ==
  LET only == tree.up[p] = None
      taken == IF only THEN Forget(tree, {from}) ELSE Detach(tree, from, p)
      seq == IF only THEN Without(tabs[s], from) ELSE tabs[s]
  IN /\ tree' = Beside(taken, to, tree.act[to], p)
     /\ pinned' = IF only THEN pinned \ {from} ELSE pinned
     /\ tabs' = [tabs EXCEPT ![s] = seq]
     /\ active' = [active EXCEPT ![s] = PosOf(seq, to)]
     /\ UNCHANGED <<running, sessions, last, popup, shells, made, views>>

\* join_pane pulls the active pane of another tab into the active one.
JoinPane(s, i) ==
  /\ Commands(s)
  /\ i \in 0..(Len(tabs[s]) - 1) \ {active[s]}
  /\ Carry(s, tree.act[At(tabs[s], i)], At(tabs[s], i), ActiveTab(s))

\* move_pane_to_tab pushes a pane of the active tab into another one.
MovePaneToTab(s, p, i) ==
  /\ Commands(s)
  /\ i \in 0..(Len(tabs[s]) - 1) \ {active[s]}
  /\ p \in Range(PaneList(tree, ActiveTab(s)))
  /\ Carry(s, p, ActiveTab(s), At(tabs[s], i))

-----------------------------------------------------------------------------
(* Tabs *)

\* A new tab goes to the end of the unpinned zone and becomes the active one.
OpenTab(s, p, u) ==
  LET seq == InsertAt(tabs[s], FirstPinned(tabs[s]) + 1, u)
  IN /\ tabs' = [tabs EXCEPT ![s] = seq]
     /\ active' = [active EXCEPT ![s] = FirstPinned(tabs[s])]
     /\ last' = [last EXCEPT ![s] = PosOf(seq, ActiveTab(s))]
     /\ tree' = Single(tree, u, p)
     /\ Made(1, 1, 0)
     /\ UNCHANGED sessions

\* A session of the given tabs, the last one active, with one pane each.
OpenSession(ts) ==
  LET s == made.sess + 1
  IN /\ sessions' = Append(sessions, s)
     /\ tabs' = [tabs EXCEPT ![s] = ts]
     /\ active' = [active EXCEPT ![s] = Len(ts) - 1]
     /\ tree' = FoldLeft(LAMBDA f, t : Single(f, t, made.pane + t - made.tab), tree, ts)
     /\ Made(Len(ts), Len(ts), 1)
     /\ UNCHANGED last

\* new_window.  A client left without a session is first given one.
NewTab(c) ==
  LET s == IF views[c] = None /\ sessions # <<>> THEN sessions[1] ELSE views[c]
  IN /\ running
     /\ views[c] # Away
     /\ IF s = None
        THEN /\ CanMake(2, 2, 1)
             /\ OpenSession(<<made.tab + 1, made.tab + 2>>)
             /\ views' = [views EXCEPT ![c] = made.sess + 1]
        ELSE /\ CanMake(1, 1, 0)
             /\ OpenTab(s, made.pane + 1, made.tab + 1)
             /\ views' = [views EXCEPT ![c] = s]
     /\ UNCHANGED <<running, popup, pinned>>

\* A command that changes the order of a session's tabs or the choice of one.
Reorder(s, seq, act, lst) ==
  /\ tabs' = [tabs EXCEPT ![s] = seq]
  /\ active' = [active EXCEPT ![s] = act]
  /\ last' = [last EXCEPT ![s] = lst]
  /\ UNCHANGED <<running, sessions, popup, tree, shells, made, views>>

\* select_window, next_window, prev_window.
SelectTab(s, i) ==
  /\ Commands(s)
  /\ i \in 0..(Len(tabs[s]) - 1) \ {active[s]}
  /\ Reorder(s, tabs[s], i, active[s])
  /\ UNCHANGED pinned

LastTab(s) == SelectTab(s, last[s])

\* move_tab; move_current_tab and move_window do the same to the active tab.
\* A tab moves inside its zone, and the active tab stays active.
MoveTab(s, i, j) ==
  /\ Commands(s)
  /\ i \in 0..(Len(tabs[s]) - 1)
  /\ LET to == Into(Zone(tabs[s], i), j)
         seq == Moved(tabs[s], i, to)
     IN to # i /\ Reorder(s, seq, PosOf(seq, ActiveTab(s)), last[s])
  /\ UNCHANGED pinned

\* swap_window: the active tab changes places with one of its zone.
SwapTabs(s, j) ==
  /\ Commands(s)
  /\ j \in 0..(Len(tabs[s]) - 1) \ {active[s]}
  /\ j \in Zone(tabs[s], active[s])[1]..Zone(tabs[s], active[s])[2]
  /\ Reorder(s, [tabs[s] EXCEPT ![j + 1] = ActiveTab(s), ![active[s] + 1] = At(tabs[s], j)],
             j, last[s])
  /\ UNCHANGED pinned

\* set_pinned, toggle_pin: pinned tabs go to the end; active and last follow
\* the tabs they point to.
SetPinned(s, i, value) ==
  /\ Commands(s)
  /\ i \in 0..(Len(tabs[s]) - 1)
  /\ pinned' = IF value THEN pinned \cup {At(tabs[s], i)} ELSE pinned \ {At(tabs[s], i)}
  /\ LET seq == Selected(tabs[s], Tabs \ pinned') \o Selected(tabs[s], pinned')
     IN Reorder(s, seq, PosOf(seq, ActiveTab(s)),
                IF last[s] < Len(seq) THEN PosOf(seq, At(tabs[s], last[s])) ELSE last[s])

\* kill_window: every shell of the active tab ends and the tab goes.
KillTab(s) ==
  /\ Commands(s)
  /\ LET t == ActiveTab(s)
     IN /\ shells' = shells \ Range(PaneList(tree, t))
        /\ SetTabs(s, Without(tabs[s], t), active[s])
        /\ tree' = Forget(tree, {t})
        /\ pinned' = pinned \ {t}
  /\ UNCHANGED <<last, popup, made>>

\* A window over one or two new panes, the first of them active.
Built(f, t, ps) ==
  IF Len(ps) = 1 THEN Single(f, t, ps[1])
  ELSE LET s == FreeSplit(f)
       IN [f EXCEPT !.root[t] = s, !.act[t] = ps[1], !.kids[s] = ps,
                    !.up = [n \in Nodes |-> IF n \in Range(ps) THEN s ELSE @[n]]]

\* load_tab_layout into a new tab at the end of the list.
LoadLayoutNew(s, n) ==
  /\ Commands(s)
  /\ CanMake(n, 1, 0)
  /\ tree' = Built(tree, made.tab + 1, [i \in 1..n |-> made.pane + i])
  /\ tabs' = [tabs EXCEPT ![s] = Append(@, made.tab + 1)]
  /\ last' = [last EXCEPT ![s] = active[s]]
  /\ active' = [active EXCEPT ![s] = Len(tabs[s])]
  /\ Made(n, 1, 0)
  /\ UNCHANGED <<running, sessions, popup, pinned, views>>

\* load_tab_layout over the active tab: its panes end, the window is replaced.
LoadLayoutOver(s, n) ==
  /\ Commands(s)
  /\ CanMake(n, 0, 0)
  /\ LET t == ActiveTab(s)
     IN /\ tree' = Built(Forget(tree, {t}), t, [i \in 1..n |-> made.pane + i])
        /\ shells' = (shells \ Range(PaneList(tree, t))) \cup NewPanes(n)
  /\ made' = [made EXCEPT !.pane = @ + n]
  /\ UNCHANGED <<running, sessVars, pinned, views>>

-----------------------------------------------------------------------------
(* Popups, sessions and clients *)

\* popup_open closes the popup that is open and runs a command in a new one.
PopupOpen(s) ==
  /\ Commands(s)
  /\ CanMake(1, 0, 0)
  /\ popup' = [popup EXCEPT ![s] = made.pane + 1]
  /\ shells' = (shells \ {popup[s]}) \cup NewPanes(1)
  /\ made' = [made EXCEPT !.pane = @ + 1]
  /\ UNCHANGED <<running, sessions, tabs, active, last, pinned, tree, views>>

PopupClose(s) ==
  /\ Commands(s)
  /\ popup[s] # None
  /\ popup' = [popup EXCEPT ![s] = None]
  /\ shells' = shells \ {popup[s]}
  /\ UNCHANGED <<running, sessions, tabs, active, last, pinned, tree, made, views>>

\* new_session: the client that asks moves to it.
NewSession(c) ==
  /\ running
  /\ views[c] \in Sess
  /\ CanMake(1, 1, 1)
  /\ OpenSession(<<made.tab + 1>>)
  /\ views' = [views EXCEPT ![c] = made.sess + 1]
  /\ UNCHANGED <<running, popup, pinned>>

\* rename_session puts the session at the end of the dict.
RenameSession(s) ==
  /\ Commands(s)
  /\ sessions' = Append(Without(sessions, s), s)
  /\ UNCHANGED <<running, tabs, active, last, popup, pinned, tree, shells, made, views>>

\* restore_layout adds a session from the layout file; pins come with it.
RestoreLayout(s) ==
  /\ Commands(s)
  /\ CanMake(1, 1, 1)
  /\ OpenSession(<<made.tab + 1>>)
  /\ \E pins \in SUBSET {made.tab + 1} : pinned' = pinned \cup pins
  /\ UNCHANGED <<running, popup, views>>

SwitchSession(c, s) ==
  /\ running
  /\ views[c] \in Sess
  /\ s \in Range(sessions)
  /\ views' = [views EXCEPT ![c] = s]
  /\ UNCHANGED <<running, sessVars, pinned, tree, shells, made>>

\* kill_session ends the shells of all tabs of a session; its popup is not
\* among them.
KillSession(s) ==
  /\ running
  /\ \E c \in Clients : views[c] \in Sess
  /\ s \in Range(sessions)
  /\ shells' = shells \ UNION {Range(PaneList(tree, t)) : t \in Range(tabs[s])}
  /\ SetTabs(s, <<>>, 0)
  /\ tree' = Forget(tree, Range(tabs[s]))
  /\ pinned' = pinned \ Range(tabs[s])
  /\ UNCHANGED <<last, popup, made>>

\* hello: the client gets the first session, or a new one if there is none.
Attach(c) ==
  /\ running
  /\ views[c] = Away
  /\ IF sessions = <<>>
     THEN CanMake(1, 1, 1) /\ OpenSession(<<made.tab + 1>>)
     ELSE UNCHANGED <<sessions, tabs, active, last, tree, shells, made>>
  /\ views' = [views EXCEPT ![c] = IF sessions = <<>> THEN made.sess + 1 ELSE sessions[1]]
  /\ UNCHANGED <<running, popup, pinned>>

\* The connection of a client ends, or it is evicted for being idle.
DetachClient(c) ==
  /\ running
  /\ views[c] # Away
  /\ views' = [views EXCEPT ![c] = Away]
  /\ UNCHANGED <<running, sessVars, pinned, tree, shells, made>>

\* The flush loop lists the panes of every window.
Flush ==
  /\ running
  /\ tree' = [tree EXCEPT !.cache =
       [t \in Tabs |-> IF t \in OpenTabs THEN PaneList(tree, t) ELSE @[t]]]
  /\ UNCHANGED <<running, sessVars, pinned, shells, made, views>>

-----------------------------------------------------------------------------

Init ==
  /\ running = TRUE
  /\ sessions = <<>>
  /\ tabs = [s \in Sess |-> <<>>]
  /\ active = [s \in Sess |-> 0]
  /\ last = [s \in Sess |-> 0]
  /\ popup = [s \in Sess |-> None]
  /\ pinned = {}
  /\ tree = NoTree
  /\ shells = {}
  /\ made = [pane |-> 0, tab |-> 0, sess |-> 0]
  /\ views = [c \in Clients |-> Away]

Indices == 0..(MaxTab - 1)

\* Commands that only rearrange the panes of a window or the tabs of a session.
Rearranged(s) ==
  /\ Rearranging
  /\ \/ LastPane(s) \/ LastTab(s)
     \/ \E p \in Panes : SelectPane(s, p)
     \/ \E p, q \in Panes : SwapPanes(s, p, q)
     \/ \E choice \in BOOLEAN : SelectLayout(s, choice) \/ RotatePanes(s, choice)
     \/ \E i \in Indices : SelectTab(s, i) \/ SwapTabs(s, i)
     \/ \E i, j \in Indices : MoveTab(s, i, j)
     \/ \E i \in Indices, value \in BOOLEAN : SetPinned(s, i, value)

Command(s) ==
  \/ SplitPane(s) \/ KillPane(s) \/ BreakPane(s) \/ KillTab(s)
  \/ PopupOpen(s) \/ PopupClose(s) \/ RenameSession(s) \/ KillSession(s) \/ RestoreLayout(s)
  \/ \E i \in Indices : JoinPane(s, i)
  \/ \E i \in Indices, p \in Panes : MovePaneToTab(s, p, i)
  \/ \E n \in 1..2 : LoadLayoutNew(s, n) \/ LoadLayoutOver(s, n)

Next ==
  \/ \E s \in Sess : Command(s) \/ Rearranged(s)
  \/ \E c \in Clients : NewTab(c) \/ NewSession(c) \/ Attach(c) \/ DetachClient(c)
  \/ \E c \in Clients, s \in Sess : SwitchSession(c, s)
  \/ \E p \in Panes : ShellExits(p)
  \/ Flush

Spec == Init /\ [][Next]_vars

-----------------------------------------------------------------------------
(* Properties *)

PanesOf(t) == Range(Leaves(tree, tree.root[t]))

\* Every variable keeps its type, and the indices of sessions are in range.
TreeTypeOK ==
  /\ running \in BOOLEAN
  /\ Range(sessions) \subseteq Sess
  /\ \A s \in Range(sessions) :
       /\ tabs[s] # <<>> /\ Range(tabs[s]) \subseteq Tabs
       /\ active[s] \in 0..(Len(tabs[s]) - 1)
       /\ last[s] \in Nat
  /\ popup \in [Sess -> Panes \cup {None}]
  /\ pinned \subseteq Tabs
  /\ tree.kids \in [Splits -> (Nodes \cup {None}) \X (Nodes \cup {None})]
  /\ tree.up \in [Nodes -> Splits \cup {None}]
  /\ shells \subseteq 1..made.pane
  /\ views \in [Clients -> Sess \cup {None, Away}]

\* The links of a tree agree in both directions: a root has no parent, the
\* children of a split have it as parent, no split is lost; and the active
\* pane is a leaf of its window.  split_pane, _detach_pane, join_pane,
\* apply_preset and rotate_panes each relink by hand.
LinksAgree ==
  /\ \A t \in OpenTabs :
       /\ tree.up[tree.root[t]] = None
       /\ tree.act[t] \in PanesOf(t)
       /\ \A s \in SplitsOf(tree, t), i \in 1..2 : tree.up[tree.kids[s][i]] = s
  /\ \A s \in Splits : tree.kids[s] # NoKids =>
       \E t \in OpenTabs : s \in SplitsOf(tree, t)

\* A cached pane list is the list a walk over the tree would give, in its
\* order: every surgery on a tree must drop the cache.
CacheFresh ==
  \A t \in OpenTabs : tree.cache[t] \in {<<>>, Leaves(tree, tree.root[t])}

\* No pane is lost and none is shown twice: a pane whose shell runs has
\* exactly one place, a leaf of an open tab or a popup (one that outlives its
\* session included), and every leaf of an open tab has a running shell.
NoPaneLost ==
  /\ \A p \in shells :
       Cardinality({t \in OpenTabs : p \in PanesOf(t)})
         + Cardinality({s \in Sess : popup[s] = p}) = 1
  /\ \A t \in OpenTabs :
       PanesOf(t) \subseteq shells /\ IsInjective(Leaves(tree, tree.root[t]))

\* No client is left looking at a session that was dropped (SESSION-DEATH),
\* and one without a session is only there when exit-empty is off.
ViewsRegistered ==
  \A c \in Clients :
    /\ views[c] \in Sess => views[c] \in Range(sessions)
    /\ views[c] = None /\ ExitEmpty => ~running

PinsLastIn(s) == \A i, j \in 1..Len(tabs[s]) :
                   i < j /\ tabs[s][i] \in pinned => tabs[s][j] \in pinned

\* Commands that move tabs or change pins keep the pinned tabs at the end
\* and leave the active tab of a session active, unless the command chooses
\* another one (move_tab, move_window, set_pinned).
TabMovesKeepZones ==
  [][\A s \in Range(sessions) :
       s \in Range(sessions') /\ Range(tabs'[s]) = Range(tabs[s]) /\ tabs'[s] # tabs[s]
         => /\ PinsLastIn(s) => PinsLastIn(s)'
            /\ ActiveTab(s)' = ActiveTab(s)]_vars
=============================================================================

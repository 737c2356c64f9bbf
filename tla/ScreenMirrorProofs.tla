------------------------- MODULE ScreenMirrorProofs -------------------------
(***************************************************************************)
(* The screens of the clients, proved for any number of clients, tabs,     *)
(* panes and rows and any number of events: every variable keeps its type  *)
(* whether or not writes yield to the loop (MirrorTypeOK), and, when they  *)
(* do not, what the server believes a client holds is what that client     *)
(* holds once it has applied all that was built for it (BaselineTrue).     *)
(***************************************************************************)
EXTENDS ScreenMirror, FoldLemmas

-----------------------------------------------------------------------------
(* What is on its way and what a client holds.                             *)

Rows == UNION {[S -> Vals] : S \in SUBSET (1..Lines)}
Msgs == {Layout(panes) : panes \in SUBSET Panes}
          \cup {Screen(p, rows) : p \in Panes, rows \in Screens}
          \cup {Delta(p, rows) : p \in Panes, rows \in Rows}
States == [panes : SUBSET Panes, screens : Copies]

LEMMA ScreenIs ==
  ASSUME NEW n \in 1..Lines, NEW f \in [1..n -> Vals]
  PROVE  f \in Screens
BY DEF Screens

LEMMA ScreenLen ==
  ASSUME NEW f \in Screens
  PROVE  Len(f) \in 1..Lines /\ f \in [1..Len(f) -> Vals] /\ DOMAIN f = 1..Len(f)
<1>1. PICK n \in 1..Lines : f \in [1..n -> Vals]
  BY DEF Screens
<1>2. n \in Nat /\ f \in Seq(Vals)
  BY <1>1, MirrorAssumption
<1>3. Len(f) = n
  BY <1>1, <1>2
<1> QED BY <1>1, <1>3

LEMMA CopyIs ==
  ASSUME NEW S, S \subseteq Panes, NEW f \in [S -> Screens]
  PROVE  f \in Copies
BY DEF Copies

LEMMA CopyHas ==
  ASSUME NEW f \in Copies
  PROVE  /\ f \in [DOMAIN f -> Screens] /\ DOMAIN f \subseteq Panes
         /\ \A p \in DOMAIN f : f[p] \in Screens
BY DEF Copies

LEMMA NoScreensType == NoScreens \in Copies /\ DOMAIN NoScreens = {}
<1>1. NoScreens \in [{} -> Screens] /\ DOMAIN NoScreens = {}
  BY DEF NoScreens
<1> QED BY <1>1, CopyIs

LEMMA OnlyType ==
  ASSUME NEW f \in Copies, NEW S
  PROVE  Only(f, S) \in Copies
<1>1. DOMAIN f \cap S \subseteq Panes /\ \A p \in DOMAIN f : f[p] \in Screens
  BY CopyHas
<1>2. Only(f, S) \in [DOMAIN f \cap S -> Screens]
  BY <1>1 DEF Only
<1> QED BY <1>1, <1>2, CopyIs

\* g is f with these rows at p.
WithRows(g, f, p, rows) ==
  /\ DOMAIN g = DOMAIN f \cup {p}
  /\ \A q \in DOMAIN f \cup {p} : g[q] = IF q = p THEN rows ELSE f[q]

LEMMA PutType ==
  ASSUME NEW f \in Copies, NEW p \in Panes, NEW rows \in Screens
  PROVE  Put(f, p, rows) \in Copies /\ WithRows(Put(f, p, rows), f, p, rows)
<1>1. DOMAIN f \cup {p} \subseteq Panes /\ \A q \in DOMAIN f : f[q] \in Screens
  BY CopyHas
<1>2. /\ DOMAIN Put(f, p, rows) = DOMAIN f \cup {p}
      /\ \A q \in DOMAIN f \cup {p} : Put(f, p, rows)[q] = IF q = p THEN rows ELSE f[q]
  BY DEF Put
<1>3. Put(f, p, rows) \in [DOMAIN f \cup {p} -> Screens]
  BY <1>1 DEF Put
<1> QED BY <1>1, <1>2, <1>3, CopyIs DEF WithRows

-----------------------------------------------------------------------------
(* The changed rows on a base.                                             *)

OverlaidTo(base, rows, n) ==
  /\ n \in Len(base)..Lines
  /\ (Len(base) + 1)..n \subseteq DOMAIN rows
  /\ n + 1 \notin DOMAIN rows \/ n = Lines

\* There is an end of the overlay: the first row that is missing, or the tallest pane.
LEMMA OverlayEnds ==
  ASSUME NEW base \in Screens, NEW rows
  PROVE  \E n \in Len(base)..Lines : OverlaidTo(base, rows, n)
<1> DEFINE S == {m \in Len(base)..Lines : m + 1 \notin DOMAIN rows \/ m = Lines}
<1>1. Len(base) \in Nat /\ Lines \in Nat /\ Len(base) <= Lines
  BY ScreenLen, MirrorAssumption
<1>2. S \subseteq Nat /\ Lines \in S
  BY <1>1
<1>3. PICK n \in S : \A m \in S : n <= m
  BY <1>2, LeastMember
<1>4. ASSUME NEW k \in (Len(base) + 1)..n
      PROVE  k \in DOMAIN rows
  <2>1. n \in Len(base)..Lines
    OBVIOUS
  <2>2. k - 1 \in Len(base)..Lines /\ ~(n <= k - 1)
    BY <1>1, <2>1
  <2>3. k - 1 \notin S
    BY <1>3, <2>2
  <2>4. (k - 1) + 1 = k
    BY <1>1
  <2> QED BY <2>2, <2>3, <2>4
<1> QED BY <1>4 DEF OverlaidTo

LEMMA OverlayIs ==
  ASSUME NEW base \in Screens, NEW rows
  PROVE  \E n \in Len(base)..Lines :
           /\ OverlaidTo(base, rows, n)
           /\ Overlay(base, rows) = [y \in 1..n |-> IF y \in DOMAIN rows THEN rows[y]
                                                    ELSE base[y]]
<1> DEFINE n == CHOOSE m \in Len(base)..Lines :
                  /\ (Len(base) + 1)..m \subseteq DOMAIN rows
                  /\ m + 1 \notin DOMAIN rows \/ m = Lines
<1>1. n \in Len(base)..Lines /\ OverlaidTo(base, rows, n)
  BY OverlayEnds DEF OverlaidTo
<1>2. Overlay(base, rows) = [y \in 1..n |-> IF y \in DOMAIN rows THEN rows[y] ELSE base[y]]
  BY DEF Overlay
<1> HIDE DEF n
<1> QED BY <1>1, <1>2

LEMMA OverlayType ==
  ASSUME NEW base \in Screens, NEW rows \in Rows
  PROVE  Overlay(base, rows) \in Screens
<1>1. PICK n \in Len(base)..Lines :
        /\ OverlaidTo(base, rows, n)
        /\ Overlay(base, rows) = [y \in 1..n |-> IF y \in DOMAIN rows THEN rows[y]
                                                 ELSE base[y]]
  BY OverlayIs
<1>2. Len(base) \in 1..Lines /\ Lines \in Nat /\ \A y \in 1..Len(base) : base[y] \in Vals
  BY ScreenLen, MirrorAssumption
<1>3. \A y \in DOMAIN rows : rows[y] \in Vals
  BY DEF Rows
<1>4. n \in 1..Lines
  BY <1>2
<1>5. ASSUME NEW y \in 1..n, y \notin DOMAIN rows
      PROVE  base[y] \in Vals
  <2>1. y \notin (Len(base) + 1)..n
    BY <1>1, <1>5 DEF OverlaidTo
  <2>2. y \in 1..Len(base)
    BY <1>2, <2>1
  <2> QED BY <1>2, <2>2
<1>6. Overlay(base, rows) \in [1..n -> Vals]
  BY <1>1, <1>3, <1>5
<1> QED BY <1>4, <1>6, ScreenIs

\* What changed, laid on a base of the same height that is right elsewhere,
\* gives the whole.
LEMMA OverlayCompletes ==
  ASSUME NEW base \in Screens, NEW whole \in Screens, Len(base) = Len(whole),
         NEW S, S \subseteq 1..Len(whole),
         \A y \in 1..Len(whole) : y \notin S => base[y] = whole[y]
  PROVE  Overlay(base, [y \in S |-> whole[y]]) = whole
<1> DEFINE rows == [y \in S |-> whole[y]]
<1>1. PICK n \in Len(base)..Lines :
        /\ OverlaidTo(base, rows, n)
        /\ Overlay(base, rows) = [y \in 1..n |-> IF y \in DOMAIN rows THEN rows[y]
                                                 ELSE base[y]]
  BY OverlayIs
<1>2. DOMAIN rows = S /\ \A y \in S : rows[y] = whole[y]
  OBVIOUS
<1> HIDE DEF rows
<1>3. Len(whole) \in 1..Lines /\ DOMAIN whole = 1..Len(whole) /\ Lines \in Nat
      /\ whole \in [1..Len(whole) -> Vals]
  BY ScreenLen, MirrorAssumption
<1>4. n = Len(whole)
  <2>1. n \in Int /\ n >= Len(whole) /\ (Len(whole) + 1)..n \subseteq 1..Len(whole)
    BY <1>1, <1>2, <1>3 DEF OverlaidTo
  <2>2. n # Len(whole) => n \in (Len(whole) + 1)..n
    BY <1>3, <2>1
  <2> QED BY <1>3, <2>1, <2>2
<1>5. \A y \in 1..Len(whole) : (IF y \in DOMAIN rows THEN rows[y] ELSE base[y]) = whole[y]
  BY <1>2
<1>6. Overlay(base, rows) = [y \in 1..Len(whole) |-> whole[y]]
  BY <1>1, <1>4, <1>5
<1>7. whole = [y \in 1..Len(whole) |-> whole[y]]
  BY <1>3
<1> QED BY <1>6, <1>7 DEF rows

-----------------------------------------------------------------------------
(* Messages.                                                               *)

LEMMA MsgKinds ==
  ASSUME NEW m \in Msgs
  PROVE  \/ m.t = "layout" /\ m.panes \in SUBSET Panes
         \/ m.t = "screen" /\ m.pane \in Panes /\ m.rows \in Screens
         \/ m.t = "delta" /\ m.pane \in Panes /\ m.rows \in Rows
BY DEF Msgs, Layout, Screen, Delta

LEMMA StateParts ==
  ASSUME NEW s \in States
  PROVE  s = [panes |-> s.panes, screens |-> s.screens]
         /\ s.panes \in SUBSET Panes /\ s.screens \in Copies
BY DEF States

\* Applying a message gives a state, and this one.
LEMMA ApplyType ==
  ASSUME NEW s \in States, NEW m \in Msgs
  PROVE  Apply(s, m) \in States
<1>0. s.panes \in SUBSET Panes /\ s.screens \in Copies
  BY StateParts
<1>1. CASE m.t = "layout" /\ m.panes \in SUBSET Panes
  <2>1. Only(s.screens, m.panes) \in Copies
    BY <1>0, OnlyType
  <2>2. Apply(s, m) = [s EXCEPT !.panes = m.panes, !.screens = Only(s.screens, m.panes)]
    BY <1>1 DEF Apply, ApplyLayout
  <2> QED BY <1>1, <2>1, <2>2 DEF States
<1>2. CASE m.t = "screen" /\ m.pane \in Panes /\ m.rows \in Screens
  <2>1. Put(s.screens, m.pane, m.rows) \in Copies
    BY <1>0, <1>2, PutType
  <2>2. Apply(s, m) = [s EXCEPT !.screens = Put(s.screens, m.pane, m.rows)]
    BY <1>2 DEF Apply, ApplyScreen
  <2> QED BY <2>1, <2>2 DEF States
<1>3. CASE m.t = "delta" /\ m.pane \in Panes /\ m.rows \in Rows
  <2>1. CASE m.pane \in DOMAIN s.screens
    <3> DEFINE new == [s.screens EXCEPT ![m.pane] = Overlay(s.screens[m.pane], m.rows)]
    <3>1. s.screens \in [DOMAIN s.screens -> Screens] /\ DOMAIN s.screens \subseteq Panes
      BY <1>0, CopyHas
    <3>2. Overlay(s.screens[m.pane], m.rows) \in Screens
      BY <1>3, <2>1, <3>1, OverlayType
    <3>3. new \in [DOMAIN s.screens -> Screens]
      BY <3>1, <3>2
    <3>4. new \in Copies
      <4> HIDE DEF new
      <4> QED BY <3>1, <3>3, CopyIs
    <3>5. Apply(s, m) = [s EXCEPT !.screens = new]
      BY <1>3, <2>1 DEF Apply, ApplyDelta
    <3> HIDE DEF new
    <3> QED BY <3>4, <3>5 DEF States
  <2>2. CASE m.pane \notin DOMAIN s.screens
    BY <1>3, <2>2 DEF Apply, ApplyDelta
  <2> QED BY <2>1, <2>2
<1> QED BY <1>1, <1>2, <1>3, MsgKinds

LEMMA ApplyScreenIs ==
  ASSUME NEW s \in States, NEW p \in Panes, NEW rows \in Screens
  PROVE  Apply(s, Screen(p, rows)).screens = Put(s.screens, p, rows)
<1>1. /\ Screen(p, rows).t = "screen" /\ Screen(p, rows).pane = p
      /\ Screen(p, rows).rows = rows
  BY DEF Screen
<1>2. Apply(s, Screen(p, rows)) = [s EXCEPT !.screens = Put(s.screens, p, rows)]
  BY <1>1 DEF Apply, ApplyScreen
<1> QED BY <1>2 DEF States

LEMMA ApplyDeltaIs ==
  ASSUME NEW s \in States, NEW p \in DOMAIN s.screens, NEW rows
  PROVE  /\ DOMAIN Apply(s, Delta(p, rows)).screens = DOMAIN s.screens
         /\ \A q \in DOMAIN s.screens :
              Apply(s, Delta(p, rows)).screens[q] =
                IF q = p THEN Overlay(s.screens[p], rows) ELSE s.screens[q]
<1>1. Delta(p, rows).t = "delta" /\ Delta(p, rows).pane = p /\ Delta(p, rows).rows = rows
  BY DEF Delta
<1>2. Apply(s, Delta(p, rows)) =
        [s EXCEPT !.screens = [s.screens EXCEPT ![p] = Overlay(s.screens[p], rows)]]
  BY <1>1 DEF Apply, ApplyDelta
<1>3. Apply(s, Delta(p, rows)).screens =
        [s.screens EXCEPT ![p] = Overlay(s.screens[p], rows)]
  BY <1>2 DEF States
<1> QED BY <1>3

-----------------------------------------------------------------------------
(* What a client ends up with after a queue of messages.                   *)

Final(s, q) == FoldLeft(Apply, s, q)

\* p is the way of the state s through the messages q.
Passes(p, s, q) ==
  p[0] = s /\ \A i \in 1..Len(q) : p[i] = Apply(p[i - 1], q[i])

LEMMA PassExists ==
  ASSUME NEW s \in States, NEW q \in Seq(Msgs)
  PROVE  \E p \in [0..Len(q) -> States] : Passes(p, s, q)
<1> DEFINE n == Len(q)  st == [x \in States \X Msgs |-> Apply(x[1], x[2])]
<1>1. n \in Nat /\ q \in [1..n -> Msgs]
  OBVIOUS
<1>2. st \in [States \X Msgs -> States]
  BY ApplyType
<1>3. \A a \in States, m \in Msgs : st[<<a, m>>] = Apply(a, m)
  OBVIOUS
<1> HIDE DEF st, n
<1>4. PICK p \in [0..n -> States] : Path(p, st, s, q, n)
  BY <1>1, <1>2, PathExists, Zenon
<1>5. ASSUME NEW i \in 1..n
      PROVE  p[i] = Apply(p[i - 1], q[i])
  <2>1. p[i - 1] \in States /\ q[i] \in Msgs
    BY <1>1
  <2> QED BY <1>3, <1>4, <2>1 DEF Path
<1>6. p[0] = s
  BY <1>4 DEF Path
<1> QED BY <1>5, <1>6 DEF Passes, n

\* The fold goes that way.
LEMMA FinalIs ==
  ASSUME NEW s \in States, NEW q \in Seq(Msgs),
         NEW p \in [0..Len(q) -> States], Passes(p, s, q)
  PROVE  Final(s, q) = p[Len(q)]
<1> DEFINE n == Len(q)
           Fits(g) == g = [x \in SUBSET (DOMAIN q) |->
                        IF x = {} THEN s ELSE Apply(g[x \ {Max(x)}], q[Max(x)])]
           it == CHOOSE g : Fits(g)
<1>1. n \in Nat /\ DOMAIN q = 1..n /\ q \in [1..n -> Msgs]
  OBVIOUS
<1>2. \E g : Fits(g)
  <2> DEFINE st == [x \in States \X Msgs |-> Apply(x[1], x[2])]
  <2>1. st \in [States \X Msgs -> States]
    BY ApplyType
  <2>2. \A a \in States, m \in Msgs : st[<<a, m>>] = Apply(a, m)
    OBVIOUS
  <2> HIDE DEF st, n
  <2>3. PICK g \in [SUBSET (1..n) -> States] : Way(g, st, s, q, n)
    BY <1>1, <2>1, FoldExists, Zenon
  <2>4. ASSUME NEW x \in SUBSET (1..n)
        PROVE  g[x] = IF x = {} THEN s ELSE Apply(g[x \ {Max(x)}], q[Max(x)])
    <3>1. CASE x = {}
      BY <2>3, <3>1 DEF Way
    <3>2. CASE x # {}
      <4>1. Max(x) \in 1..n
        BY <1>1, <3>2, MaxIsMember
      <4>2. g[x \ {Max(x)}] \in States /\ q[Max(x)] \in Msgs
        BY <1>1, <4>1
      <4> QED BY <2>2, <2>3, <3>2, <4>2 DEF Way
    <3> QED BY <3>1, <3>2
  <2>5. g = [x \in SUBSET (1..n) |-> g[x]]
    OBVIOUS
  <2>6. Fits(g)
    BY <1>1, <2>4, <2>5, Zenon
  <2> QED BY <2>6
<1>3. Fits(it)
  <2> HIDE DEF Fits
  <2> QED BY <1>2, Zenon
<1>4. Final(s, q) = it[1..n]
  BY <1>1, Zenon DEF Final, FoldLeft, MapThenFoldSet
<1> HIDE DEF it
<1>5. \A x \in SUBSET (1..n) :
        it[x] = IF x = {} THEN s ELSE Apply(it[x \ {Max(x)}], q[Max(x)])
  BY <1>1, <1>3, Zenon
<1> DEFINE S == {k \in 0..n : it[1..k] = p[k]}
<1>6. 0 \in S
  <2>1. 1..0 = {} /\ 0 \in 0..n
    BY <1>1
  <2>2. it[1..0] = s
    BY <1>5, <2>1
  <2> QED BY <2>1, <2>2 DEF Passes
<1>7. ASSUME NEW k \in 1..n, k - 1 \in S
      PROVE  k \in S
  <2>1. 1..k \in SUBSET (1..n) /\ k \in Nat /\ k >= 1 /\ k \in 0..n
    BY <1>1
  <2>2. it[1..k] = Apply(it[(1..k) \ {Max(1..k)}], q[Max(1..k)])
    BY <1>5, <2>1, UpToStep
  <2>3. it[1..k] = Apply(it[1..(k - 1)], q[k])
    BY <2>1, <2>2, UpToStep
  <2>4. it[1..(k - 1)] = p[k - 1] /\ p[k] = Apply(p[k - 1], q[k])
    BY <1>7 DEF Passes
  <2> QED BY <2>1, <2>3, <2>4
<1> HIDE DEF S, n
<1>8. n \in S
  BY <1>1, <1>6, <1>7, Climb
<1> QED BY <1>4, <1>8 DEF S, n

LEMMA FinalType ==
  ASSUME NEW s \in States, NEW q \in Seq(Msgs)
  PROVE  Final(s, q) \in States
<1>1. PICK p \in [0..Len(q) -> States] : Passes(p, s, q)
  BY PassExists
<1>2. Final(s, q) = p[Len(q)]
  BY <1>1, FinalIs
<1>3. Len(q) \in 0..Len(q)
  OBVIOUS
<1> QED BY <1>2, <1>3

\* The messages of one queue after those of another.
LEMMA FinalConcat ==
  ASSUME NEW s \in States, NEW q \in Seq(Msgs), NEW r \in Seq(Msgs)
  PROVE  Final(s, q \o r) = Final(Final(s, q), r)
<1> DEFINE n == Len(q)  m == Len(r)  both == q \o r
<1>1. /\ n \in Nat /\ m \in Nat /\ both \in Seq(Msgs) /\ Len(both) = n + m
      /\ \A i \in 1..n : both[i] = q[i]
      /\ \A i \in (n + 1)..(n + m) : both[i] = r[i - n]
  OBVIOUS
<1>2. PICK a \in [0..n -> States] : Passes(a, s, q)
  BY PassExists
<1>3. Final(s, q) = a[n] /\ a[n] \in States
  <2>1. n \in 0..n
    BY <1>1
  <2> QED BY <1>2, <2>1, FinalIs
<1>4. PICK b \in [0..m -> States] : Passes(b, a[n], r)
  BY <1>3, PassExists
<1>5. Final(a[n], r) = b[m]
  BY <1>3, <1>4, FinalIs
<1> DEFINE c == [i \in 0..(n + m) |-> IF i <= n THEN a[i] ELSE b[i - n]]
<1>6. \A i \in 0..(n + m) : c[i] = IF i <= n THEN a[i] ELSE b[i - n]
  OBVIOUS
<1>7. c \in [0..(n + m) -> States]
  <2>1. \A i \in 0..(n + m) : IF i <= n THEN i \in 0..n ELSE i - n \in 0..m
    BY <1>1
  <2> QED BY <2>1
<1> HIDE DEF c, both, n, m
<1>8. Passes(c, s, both)
  <2>1. c[0] = s
    BY <1>1, <1>2, <1>6 DEF Passes
  <2>2. ASSUME NEW i \in 1..(n + m)
        PROVE  c[i] = Apply(c[i - 1], both[i])
    <3>1. i - 1 \in 0..(n + m) /\ i \in 0..(n + m)
      BY <1>1
    <3>2. CASE i <= n
      <4>1. i \in 1..n /\ i - 1 <= n
        BY <1>1, <3>2
      <4>2. a[i] = Apply(a[i - 1], q[i])
        BY <1>2, <4>1 DEF Passes, n
      <4> QED BY <1>1, <1>6, <3>1, <3>2, <4>1, <4>2
    <3>3. CASE i = n + 1
      <4>1. c[i - 1] = a[n] /\ i - n = 1 /\ c[i] = b[1] /\ 1 \in 1..m
        BY <1>1, <1>6, <3>1, <3>3
      <4>2. b[0] = a[n] /\ b[1] = Apply(b[1 - 1], r[1])
        BY <1>4, <4>1 DEF Passes, m
      <4>3. both[i] = r[1]
        BY <1>1, <3>3, <4>1
      <4> QED BY <4>1, <4>2, <4>3
    <3>4. CASE i > n + 1
      <4>1. /\ c[i - 1] = b[(i - n) - 1] /\ c[i] = b[i - n] /\ i - n \in 1..m
            /\ i \in (n + 1)..(n + m)
        BY <1>1, <1>6, <3>1, <3>4
      <4>2. b[i - n] = Apply(b[(i - n) - 1], r[i - n])
        BY <1>4, <4>1 DEF Passes, m
      <4>3. both[i] = r[i - n]
        BY <1>1, <4>1
      <4> QED BY <4>1, <4>2, <4>3
    <3> QED BY <1>1, <3>2, <3>3, <3>4
  <2> QED BY <1>1, <2>1, <2>2 DEF Passes
<1>9. Final(s, both) = c[n + m]
  BY <1>1, <1>7, <1>8, FinalIs
<1>10. c[n + m] = b[m]
  <2>1. CASE m = 0
    BY <1>1, <1>4, <1>6, <2>1 DEF Passes
  <2>2. CASE m # 0
    <3>1. n + m \in 0..(n + m) /\ ~(n + m <= n) /\ (n + m) - n = m
      BY <1>1, <2>2
    <3> QED BY <1>6, <3>1
  <2> QED BY <2>1, <2>2
<1> QED BY <1>3, <1>5, <1>9, <1>10 DEF both

LEMMA FinalNone ==
  ASSUME NEW s \in States
  PROVE  Final(s, <<>>) = s
<1> DEFINE none == <<>>  p == [i \in 0..0 |-> s]
<1>1. none \in Seq(Msgs) /\ Len(none) = 0
  OBVIOUS
<1>2. p \in [0..0 -> States] /\ p[0] = s
  OBVIOUS
<1> HIDE DEF none, p
<1>3. Passes(p, s, none)
  BY <1>1, <1>2 DEF Passes
<1> QED BY <1>1, <1>2, <1>3, FinalIs DEF none

LEMMA FinalOne ==
  ASSUME NEW s \in States, NEW m \in Msgs
  PROVE  Final(s, <<m>>) = Apply(s, m)
<1> DEFINE one == <<m>>  p == [i \in 0..1 |-> IF i = 0 THEN s ELSE Apply(s, m)]
<1>1. one \in Seq(Msgs) /\ Len(one) = 1 /\ one[1] = m
  OBVIOUS
<1>2. p \in [0..1 -> States] /\ p[0] = s /\ p[1] = Apply(s, m)
  BY ApplyType
<1> HIDE DEF one, p
<1>3. \A i \in 1..1 : i = 1 /\ i - 1 = 0
  OBVIOUS
<1>4. Passes(p, s, one)
  BY <1>1, <1>2, <1>3 DEF Passes
<1> QED BY <1>1, <1>2, <1>4, FinalIs DEF one

LEMMA FinalAppend ==
  ASSUME NEW s \in States, NEW q \in Seq(Msgs), NEW m \in Msgs
  PROVE  Final(s, Append(q, m)) = Apply(Final(s, q), m)
<1> DEFINE one == <<m>>
<1>1. Append(q, m) = q \o one /\ one \in Seq(Msgs)
  OBVIOUS
<1>2. Final(Final(s, q), one) = Apply(Final(s, q), m)
  BY FinalType, FinalOne
<1> HIDE DEF one
<1> QED BY <1>1, <1>2, FinalConcat

LEMMA FinalHead ==
  ASSUME NEW s \in States, NEW q \in Seq(Msgs), q # <<>>
  PROVE  /\ Head(q) \in Msgs /\ Tail(q) \in Seq(Msgs)
         /\ Final(Apply(s, Head(q)), Tail(q)) = Final(s, q)
<1> DEFINE one == <<Head(q)>>  rest == Tail(q)
<1>1. /\ Head(q) \in Msgs /\ rest \in Seq(Msgs) /\ one \in Seq(Msgs)
      /\ q = one \o rest
  OBVIOUS
<1>2. Final(s, one) = Apply(s, Head(q))
  BY <1>1, FinalOne
<1> HIDE DEF one, rest
<1>3. Final(s, q) = Final(Final(s, one), rest)
  BY <1>1, FinalConcat
<1> QED BY <1>1, <1>2, <1>3 DEF rest

-----------------------------------------------------------------------------
(* The elements of a sequence that are in a set.                           *)

LEMMA SelectedIs ==
  ASSUME NEW T, NEW q \in Seq(T), NEW S
  PROVE  /\ Selected(q, S) \in Seq(T \cap S)
         /\ ToSet(Selected(q, S)) = ToSet(q) \cap S
<1>1. Selected(q, S) = Picked(q, S)
  BY Zenon DEF Selected, Picked
<1>2. /\ Picked(q, S) \in Seq(T \cap S)
      /\ ToSet(Picked(q, S)) = ToSet(q) \cap S
  BY PickedIs
<1> QED BY <1>1, <1>2

LEMMA WithoutType ==
  ASSUME NEW T, NEW q \in Seq(T), NEW x
  PROVE  Without(q, x) \in Seq(T \ {x})
<1> DEFINE S == ToSet(q) \ {x}
<1>1. Selected(q, S) \in Seq(T \cap S)
  <2> HIDE DEF S
  <2> QED BY SelectedIs
<1>2. T \cap S \subseteq T \ {x}
  OBVIOUS
<1> QED BY <1>1, <1>2 DEF Without

-----------------------------------------------------------------------------
(* Types, as strong as the steps below need them.                          *)

Fulls == [on : BOOLEAN, todo : Seq(Panes), rows : Screens \cup {<<>>}]

ServerTypes ==
  /\ content \in [Panes -> Screens]
  /\ dirty \in [Panes -> BOOLEAN] /\ inFrame \in [Panes -> BOOLEAN]
  /\ active \in Tabs
  /\ height \in [Clients -> 1..Lines] /\ acted \in Seq(clients) /\ applied \in 0..Lines
  /\ clients \subseteq Clients
  /\ sent \in [Clients -> Copies]
  /\ waiting \in [Clients -> Nat]
  /\ events \in 0..MaxEvents

WriterTypes ==
  /\ flush = [todo |-> flush.todo, frames |-> flush.frames]
  /\ flush.todo \subseteq clients
  /\ \A c \in flush.todo : flush.frames[c] \in Seq(Msgs)
  /\ full \in [Clients -> Fulls]
  /\ \A c \in Clients : full[c].todo # <<>> => full[c].rows \in Screens

ClientTypes ==
  /\ down \in [Clients -> Seq(Msgs)]
  /\ shown \in [Clients -> States]

\* Nothing is remembered or written for a connection that is gone.
NothingForGone ==
  \A c \in Clients \ clients : DOMAIN sent[c] = {} /\ waiting[c] = 0 /\ ~full[c].on

Types == ServerTypes /\ WriterTypes /\ ClientTypes /\ NothingForGone

LEMMA TabPanes ==
  ASSUME NEW t \in Tabs
  PROVE  /\ PanesOf[t] \in Seq(Panes) /\ PanesOf[t] # <<>>
         /\ ToSet(PanesOf[t]) \subseteq Panes
         /\ Len(PanesOf[t]) \in Nat \ {0} /\ PanesOf[t][1] \in Panes
<1>1. PanesOf[t] \in Seq(ToSet(PanesOf[t])) /\ PanesOf[t] # <<>>
  BY MirrorAssumption
<1>2. ToSet(PanesOf[t]) \subseteq Panes
  BY DEF Panes
<1>3. PanesOf[t] \in Seq(Panes)
  BY <1>1, <1>2
<1> QED BY <1>1, <1>2, <1>3

LEMMA CountType ==
  ASSUME events \in 0..MaxEvents, Count
  PROVE  events' \in 0..MaxEvents
BY MirrorAssumption DEF Count

\* With a client attached there is a height to choose.
LEMMA SessionHeightType ==
  ASSUME height \in [Clients -> 1..Lines], clients \subseteq Clients, clients # {},
         NEW order \in Seq(clients)
  PROVE  SessionHeight(order) \in 1..Lines
<1>1. CASE order = <<>>
  <2> DEFINE H == {height[c] : c \in clients}
  <2>1. H \subseteq 1..Lines /\ H # {}
    OBVIOUS
  <2>2. H \subseteq Nat
    BY <2>1, MirrorAssumption
  <2>3. \E n \in H : \A m \in H : n <= m
    BY <2>1, <2>2, LeastMember
  <2>4. Smallest(H) \in H
    BY <2>3 DEF Smallest
  <2>5. SessionHeight(order) = Smallest(H)
    BY <1>1 DEF SessionHeight
  <2> HIDE DEF H
  <2> QED BY <2>1, <2>4, <2>5
<1>2. CASE order # <<>>
  <2>1. Last(order) \in clients
    BY <1>2, ElementOfSeq DEF Last
  <2>2. SessionHeight(order) = height[Last(order)]
    BY <1>2 DEF SessionHeight
  <2> QED BY <2>1, <2>2
<1> QED BY <1>1, <1>2

LEMMA ResizedType ==
  ASSUME NEW rows \in Screens, NEW n \in 1..Lines
  PROVE  Resized(rows, n) \in Screens
<1>1. Len(rows) \in 1..Lines /\ \A y \in 1..Len(rows) : rows[y] \in Vals
  BY ScreenLen
<1>2. Resized(rows, n) \in [1..n -> Vals]
  <2>1. \A y \in 1..n : y <= Len(rows) => y \in 1..Len(rows)
    BY <1>1
  <2> QED BY <1>1, <2>1, MirrorAssumption DEF Resized
<1> QED BY <1>2, ScreenIs

LEMMA WrittenType ==
  ASSUME content \in [Panes -> Screens], NEW p \in Panes, NEW rows \in Written(p)
  PROVE  rows \in Screens
<1>1. PICK n \in 1..Lines : content[p] \in [1..n -> Vals]
  BY DEF Screens
<1>2. rows \in [1..n -> Vals]
  BY <1>1 DEF Written
<1> QED BY <1>2, ScreenIs

LEMMA ActedLastType ==
  ASSUME acted \in Seq(clients), NEW c \in clients
  PROVE  ActedLast(c) \in Seq(clients) /\ ActedLast(c) # <<>>
<1>1. Without(acted, c) \in Seq(clients \ {c})
  BY WithoutType
<1>2. Without(acted, c) \in Seq(clients)
  BY <1>1
<1> QED BY <1>2 DEF ActedLast

LEMMA ResyncType ==
  ASSUME waiting \in [Clients -> Nat], NEW S
  PROVE  /\ Resync(S) \in [Clients -> Nat]
         /\ \A c \in Clients : c \notin S => Resync(S)[c] = waiting[c]
BY DEF Resync

\* The frame for a pane: the whole screen, or the rows that changed.
LEMMA ScreenFrameIs ==
  ASSUME ServerTypes, NEW c \in Clients, NEW p \in Panes
  PROVE  \/ ScreenFrame(c, p) = Screen(p, content[p])
         \/ /\ p \in DOMAIN sent[c] /\ Len(sent[c][p]) = Len(content[p])
            /\ \E S \in SUBSET (1..Len(content[p])) :
                 /\ ScreenFrame(c, p) = Delta(p, [y \in S |-> content[p][y]])
                 /\ \A y \in 1..Len(content[p]) \ S : content[p][y] = sent[c][p][y]
<1> DEFINE rows == content[p]
           S == {y \in 1..Len(rows) : rows[y] # sent[c][p][y]}
           Small == /\ p \in DOMAIN sent[c] /\ Len(sent[c][p]) = Len(rows)
                    /\ 10 * Cardinality(S) <= 7 * Len(rows)
<1>1. ScreenFrame(c, p) = IF Small THEN Delta(p, [y \in S |-> rows[y]]) ELSE Screen(p, rows)
  BY DEF ScreenFrame
<1>2. Small => p \in DOMAIN sent[c] /\ Len(sent[c][p]) = Len(rows)
  OBVIOUS
<1>3. S \in SUBSET (1..Len(rows)) /\ \A y \in 1..Len(rows) \ S : rows[y] = sent[c][p][y]
  OBVIOUS
<1> HIDE DEF S, Small
<1> QED BY <1>1, <1>2, <1>3

LEMMA ScreenFrameType ==
  ASSUME ServerTypes, NEW c \in Clients, NEW p \in Panes
  PROVE  ScreenFrame(c, p) \in Msgs
<1>1. content[p] \in Screens
  BY DEF ServerTypes
<1>2. Len(content[p]) \in 1..Lines /\ \A y \in 1..Len(content[p]) : content[p][y] \in Vals
  BY <1>1, ScreenLen
<1>3. ASSUME NEW S \in SUBSET (1..Len(content[p]))
      PROVE  [y \in S |-> content[p][y]] \in Rows
  <2>1. S \in SUBSET (1..Lines)
    BY <1>2, MirrorAssumption
  <2>2. [y \in S |-> content[p][y]] \in [S -> Vals]
    BY <1>2
  <2> QED BY <2>1, <2>2 DEF Rows
<1>4. \A rows \in Rows : Delta(p, rows) \in Msgs
  BY DEF Msgs
<1>5. Screen(p, content[p]) \in Msgs
  BY <1>1 DEF Msgs
<1>6. CASE ScreenFrame(c, p) = Screen(p, content[p])
  BY <1>5, <1>6
<1>7. ASSUME NEW S \in SUBSET (1..Len(content[p])),
             ScreenFrame(c, p) = Delta(p, [y \in S |-> content[p][y]])
      PROVE  ScreenFrame(c, p) \in Msgs
  BY <1>3, <1>4, <1>7
<1> QED BY <1>6, <1>7, ScreenFrameIs

-----------------------------------------------------------------------------
(* Types are kept.                                                         *)

LEMMA TypesInit ==
  ASSUME Init
  PROVE  Types
<1> DEFINE none == <<>>
<1>1. [y \in 1..Lines |-> Blank] \in Screens
  <2>1. Lines \in 1..Lines
    BY MirrorAssumption
  <2>2. [y \in 1..Lines |-> Blank] \in [1..Lines -> Vals]
    BY MirrorAssumption
  <2> QED BY <2>1, <2>2, ScreenIs
<1>2. Lines \in 1..Lines /\ active \in Tabs /\ 0 \in 0..Lines /\ 0 \in 0..MaxEvents
  BY MirrorAssumption DEF Init
<1>3. acted \in Seq(clients)
  <2>1. none \in Seq(clients)
    OBVIOUS
  <2> QED BY <2>1 DEF Init
<1>4. ServerTypes
  <2>1. /\ content \in [Panes -> Screens] /\ dirty \in [Panes -> BOOLEAN]
        /\ inFrame \in [Panes -> BOOLEAN]
    BY <1>1, Zenon DEF Init
  <2>2. height \in [Clients -> 1..Lines] /\ sent \in [Clients -> Copies]
    BY <1>2, NoScreensType, Zenon DEF Init
  <2>3. waiting \in [Clients -> Nat]
    BY DEF Init
  <2>4. applied = 0 /\ events = 0 /\ clients \subseteq Clients
    BY DEF Init
  <2> QED BY <1>2, <1>3, <2>1, <2>2, <2>3, <2>4 DEF ServerTypes
<1>5. IdleFull \in Fulls /\ IdleFull.todo = <<>>
  <2>1. none \in Seq(Panes) /\ IdleFull = [on |-> FALSE, todo |-> none, rows |-> none]
    BY DEF IdleFull
  <2>2. none \in Screens \cup {<<>>}
    OBVIOUS
  <2> HIDE DEF none
  <2>3. IdleFull \in Fulls /\ IdleFull.todo = none
    BY <2>1, <2>2 DEF Fulls
  <2> QED BY <2>3 DEF none
<1>6. WriterTypes
  <2>1. flush = [todo |-> {}, frames |-> NoScreens]
    BY DEF Init
  <2>2. flush.todo = {} /\ flush.frames = NoScreens
    BY <2>1
  <2>3. full = [c \in Clients |-> IdleFull]
    BY DEF Init
  <2>4. full \in [Clients -> Fulls] /\ \A c \in Clients : full[c].todo = <<>>
    BY <1>5, <2>3
  <2> QED BY <2>1, <2>2, <2>4 DEF WriterTypes
<1>7. ClientTypes
  <2>1. none \in Seq(Msgs) /\ down = [c \in Clients |-> none]
    BY DEF Init
  <2>2. FreshClient \in States
    BY NoScreensType DEF FreshClient, States
  <2> HIDE DEF none
  <2> QED BY <2>1, <2>2 DEF Init, ClientTypes
<1>8. NothingForGone
  BY DEF Init, NothingForGone
<1> QED BY <1>4, <1>6, <1>7, <1>8 DEF Types

\* What leaves the writers, the clients and what is gone as they are.
LEMMA ServerOnly ==
  ASSUME Types, ServerTypes', UNCHANGED <<clients, sent, flush, full, down, shown>>,
         \A c \in Clients \ clients : waiting'[c] = waiting[c]
  PROVE  Types'
<1>1. WriterTypes'
  BY DEF Types, WriterTypes
<1>2. ClientTypes'
  BY DEF Types, ClientTypes
<1>3. NothingForGone'
  BY DEF Types, NothingForGone
<1> QED BY <1>1, <1>2, <1>3 DEF Types

LEMMA OutputTypes ==
  ASSUME Types, NEW p \in Panes, NEW rows \in Written(p), NEW frame \in BOOLEAN,
         Output(p, rows, frame)
  PROVE  Types'
<1>1. rows \in Screens /\ events' \in 0..MaxEvents
  BY WrittenType, CountType DEF Types, ServerTypes, Output
<1>2. /\ content' \in [Panes -> Screens] /\ dirty' \in [Panes -> BOOLEAN]
      /\ inFrame' \in [Panes -> BOOLEAN]
  BY <1>1 DEF Types, ServerTypes, Output
<1>3. UNCHANGED <<active, sizeVars, clients, sent, flush, waiting, full, down, shown>>
  BY DEF Output
<1>4. ServerTypes'
  BY <1>1, <1>2, <1>3 DEF Types, ServerTypes, sizeVars
<1> QED BY <1>3, <1>4, ServerOnly

LEMMA FrameEndsTypes ==
  ASSUME Types, NEW p \in Panes, FrameEnds(p)
  PROVE  Types'
<1>1. inFrame' \in [Panes -> BOOLEAN]
  BY DEF Types, ServerTypes, FrameEnds
<1>2. UNCHANGED <<content, dirty, active, sizeVars, clients, sent, flush, waiting, full,
                  down, shown, events>>
  BY DEF FrameEnds
<1>3. ServerTypes'
  BY <1>1, <1>2 DEF Types, ServerTypes, sizeVars
<1> QED BY <1>2, <1>3, ServerOnly

LEMMA CommandTypes ==
  ASSUME Types, NEW c \in Clients,
         \/ \E t \in Tabs : SelectTab(c, t)
         \/ \E n \in 1..Lines : Resize(c, n)
         \/ Type(c)
         \/ Redraw(c)
  PROVE  Types'
<1>1. c \in clients /\ clients \subseteq Clients /\ clients # {}
  BY DEF SelectTab, Resize, Type, Redraw, HandlerFree, Types, ServerTypes
<1>2. events' \in 0..MaxEvents
  BY CountType DEF SelectTab, Resize, Type, Redraw, Types, ServerTypes
<1>3. ActedLast(c) \in Seq(clients)
  BY <1>1, ActedLastType DEF Types, ServerTypes
<1>4. UNCHANGED <<screenVars, clients, sent, flush, full, down, shown>>
  BY DEF SelectTab, Resize, Type, Redraw
<1>5. waiting' \in {Resync({c}), Resync(clients), waiting}
  BY DEF SelectTab, Resize, Type, Redraw
<1>6. /\ waiting' \in [Clients -> Nat]
      /\ \A d \in Clients \ clients : waiting'[d] = waiting[d]
  <2>1. waiting \in [Clients -> Nat]
    BY DEF Types, ServerTypes
  <2> QED BY <1>1, <1>5, <2>1, ResyncType
<1>7. /\ active' \in Tabs /\ height' \in [Clients -> 1..Lines] /\ acted' \in Seq(clients)
      /\ applied' \in 0..Lines
  <2>1. /\ active \in Tabs /\ height \in [Clients -> 1..Lines] /\ acted \in Seq(clients)
        /\ applied \in 0..Lines
    BY DEF Types, ServerTypes
  <2>2. CASE \E t \in Tabs : SelectTab(c, t)
    BY <2>1, <2>2 DEF SelectTab, sizeVars
  <2>3. CASE \E n \in 1..Lines : Resize(c, n)
    BY <1>3, <2>1, <2>3 DEF Resize
  <2>4. CASE Type(c)
    <3>1. applied' = SessionHeight(acted') /\ acted' = ActedLast(c)
      BY <2>4 DEF Type
    <3>2. applied' \in 1..Lines
      BY <1>1, <1>3, <2>1, <3>1, SessionHeightType
    <3>3. applied' \in 0..Lines
      BY <3>2, MirrorAssumption
    <3> QED BY <1>3, <2>1, <2>4, <3>1, <3>3 DEF Type
  <2>5. CASE Redraw(c)
    BY <2>1, <2>5 DEF Redraw, sizeVars
  <2> QED BY <2>2, <2>3, <2>4, <2>5
<1>8. ServerTypes'
  BY <1>2, <1>4, <1>6, <1>7 DEF Types, ServerTypes, screenVars
<1> QED BY <1>4, <1>6, <1>8, ServerOnly

LEMMA IdleFullType == IdleFull \in Fulls /\ IdleFull.todo = <<>> /\ ~IdleFull.on
<1> DEFINE none == <<>>
<1>1. none \in Seq(Panes) /\ IdleFull = [on |-> FALSE, todo |-> none, rows |-> none]
  BY DEF IdleFull
<1>2. none \in Screens \cup {<<>>}
  OBVIOUS
<1> HIDE DEF none
<1>3. IdleFull \in Fulls /\ IdleFull.todo = none /\ ~IdleFull.on
  BY <1>1, <1>2 DEF Fulls
<1> QED BY <1>3 DEF none

LEMMA LeaveTypes ==
  ASSUME Types, NEW c \in Clients, Leave(c)
  PROVE  Types'
<1>1. clients' = clients \ {c} /\ clients' \subseteq Clients /\ events' \in 0..MaxEvents
  BY CountType DEF Types, ServerTypes, Leave
<1>2. acted' \in Seq(clients')
  BY <1>1, WithoutType DEF Types, ServerTypes, Leave
<1>3. /\ waiting' \in [Clients -> Nat] /\ waiting'[c] = 0
      /\ \A d \in Clients : d # c /\ d \notin clients => waiting'[d] = waiting[d]
  <2>1. waiting \in [Clients -> Nat]
    BY DEF Types, ServerTypes
  <2> QED BY <2>1, ResyncType DEF Leave, LeftBehind
<1>4. sent' = [sent EXCEPT ![c] = NoScreens]
  BY DEF Leave
<1>5. sent' \in [Clients -> Copies] /\ DOMAIN sent'[c] = {}
  BY <1>4, NoScreensType DEF Types, ServerTypes
<1>6. full' \in [Clients -> Fulls] /\ ~full'[c].on /\ full'[c].todo = <<>>
      /\ \A d \in Clients : d # c => full'[d] = full[d]
  BY IdleFullType DEF Types, WriterTypes, Leave
<1>7. ServerTypes'
  <2>1. UNCHANGED <<screenVars, active, height, applied>>
    BY DEF Leave
  <2> QED BY <1>1, <1>2, <1>3, <1>5, <2>1 DEF Types, ServerTypes, screenVars
<1>8. WriterTypes'
  <2>1. flush' = [flush EXCEPT !.todo = flush.todo \ {c}]
    BY DEF Leave
  <2>2. /\ flush'.todo = flush.todo \ {c} /\ flush'.frames = flush.frames
        /\ flush' = [todo |-> flush'.todo, frames |-> flush'.frames]
    BY <2>1 DEF Types, WriterTypes
  <2>3. \A d \in Clients : full'[d].todo # <<>> => full'[d].rows \in Screens
    BY <1>6 DEF Types, WriterTypes
  <2>4. flush'.todo \subseteq clients'
    BY <1>1, <2>2 DEF Types, WriterTypes
  <2>5. \A d \in flush'.todo : flush'.frames[d] \in Seq(Msgs)
    BY <2>2 DEF Types, WriterTypes
  <2> QED BY <1>6, <2>2, <2>3, <2>4, <2>5 DEF WriterTypes
<1>9. ClientTypes'
  <2> DEFINE none == <<>>
  <2>1. none \in Seq(Msgs) /\ down' = [down EXCEPT ![c] = none]
    BY DEF Leave
  <2> HIDE DEF none
  <2>2. down' \in [Clients -> Seq(Msgs)] /\ shown' = shown
    BY <2>1 DEF Types, ClientTypes, Leave
  <2> QED BY <2>2 DEF Types, ClientTypes
<1>10. NothingForGone'
  <2> SUFFICES ASSUME NEW d \in Clients \ clients'
               PROVE  DOMAIN sent'[d] = {} /\ waiting'[d] = 0 /\ ~full'[d].on
    BY DEF NothingForGone
  <2>1. CASE d = c
    BY <1>3, <1>5, <1>6, <2>1
  <2>2. CASE d # c
    <3>1. d \notin clients
      BY <1>1, <2>2
    <3>2. sent'[d] = sent[d]
      BY <1>4, <2>2 DEF Types, ServerTypes
    <3> QED BY <1>3, <1>6, <2>2, <3>1, <3>2 DEF Types, NothingForGone
  <2> QED BY <2>1, <2>2
<1> QED BY <1>7, <1>8, <1>9, <1>10 DEF Types

LEMMA AttachTypes ==
  ASSUME Types, NEW c \in Clients, NEW n \in 1..Lines, NEW keep \in BOOLEAN,
         Attach(c, n, keep)
  PROVE  Types'
<1>1. clients' = clients \cup {c} /\ clients' \subseteq Clients /\ events' \in 0..MaxEvents
  BY CountType DEF Types, ServerTypes, Attach
<1>2. /\ waiting' \in [Clients -> Nat]
      /\ \A d \in Clients : d \notin clients' => waiting'[d] = waiting[d]
  <2>1. waiting \in [Clients -> Nat]
    BY DEF Types, ServerTypes
  <2> QED BY <2>1, ResyncType DEF Attach
<1>3. UNCHANGED <<screenVars, active, acted, applied, sent, flush, full, down>>
  BY DEF Attach
<1>4. height' \in [Clients -> 1..Lines] /\ acted' \in Seq(clients')
  <2>1. acted \in Seq(clients) /\ clients \subseteq clients'
    BY <1>1 DEF Types, ServerTypes
  <2>2. acted \in Seq(clients')
    BY <2>1
  <2> QED BY <1>3, <2>2 DEF Types, ServerTypes, Attach
<1>5. ServerTypes'
  BY <1>1, <1>2, <1>3, <1>4 DEF Types, ServerTypes, screenVars
<1>6. WriterTypes'
  BY <1>1, <1>3 DEF Types, WriterTypes
<1>7. ClientTypes'
  <2>1. FreshClient \in States
    BY NoScreensType DEF FreshClient, States
  <2>2. shown' = IF keep THEN shown ELSE [shown EXCEPT ![c] = FreshClient]
    BY DEF Attach
  <2> HIDE DEF FreshClient
  <2> QED BY <1>3, <2>1, <2>2 DEF Types, ClientTypes
<1>8. NothingForGone'
  BY <1>1, <1>2, <1>3 DEF Types, NothingForGone
<1> QED BY <1>5, <1>6, <1>7, <1>8 DEF Types

LEMMA MsgTypes ==
  /\ \A t \in Tabs : Layout(ToSet(PanesOf[t])) \in Msgs
  /\ \A p \in Panes, rows \in Screens : Screen(p, rows) \in Msgs
<1>1. \A S \in SUBSET Panes : Layout(S) \in Msgs
  BY DEF Msgs
<1>2. \A p \in Panes, rows \in Screens : Screen(p, rows) \in Msgs
  BY DEF Msgs
<1>3. \A t \in Tabs : ToSet(PanesOf[t]) \in SUBSET Panes
  BY TabPanes
<1> QED BY <1>1, <1>2, <1>3

\* The parts of a resynchronisation that lays the panes out.
LEMMA FullStartIs ==
  ASSUME Types, NEW c \in Clients, FullStart(c)
  PROVE  /\ c \in clients /\ SessionHeight(acted) \in 1..Lines
         /\ content' \in [Panes -> Screens]
         /\ full' \in [Clients -> Fulls] /\ full'[c].on /\ full'[c].todo = <<>>
         /\ \A d \in Clients : d # c => full'[d] = full[d]
         /\ down' = [down EXCEPT ![c] = Append(down[c], Layout(ActivePanes))]
         /\ waiting' \in [Clients -> Nat]
         /\ \A d \in Clients : d # c => waiting'[d] = waiting[d]
<1>1. waiting[c] > 0 /\ waiting \in [Clients -> Nat]
  BY DEF Types, ServerTypes, FullStart
<1>2. c \in clients
  BY <1>1 DEF Types, NothingForGone
<1>3. SessionHeight(acted) \in 1..Lines
  BY <1>2, SessionHeightType DEF Types, ServerTypes
<1>4. content' = [p \in Panes |-> IF p \in ActivePanes
                                  THEN Resized(content[p], SessionHeight(acted))
                                  ELSE content[p]]
  BY DEF FullStart
<1>5. content' \in [Panes -> Screens]
  <2>1. \A p \in Panes : content[p] \in Screens
    BY DEF Types, ServerTypes
  <2>2. \A p \in Panes : Resized(content[p], SessionHeight(acted)) \in Screens
    BY <1>3, <2>1, ResizedType
  <2> QED BY <1>4, <2>1, <2>2
<1>6. full' \in [Clients -> Fulls] /\ full'[c].on /\ full'[c].todo = <<>>
      /\ \A d \in Clients : d # c => full'[d] = full[d]
  <2> DEFINE none == <<>>  new == [on |-> TRUE, todo |-> none, rows |-> none]
  <2>1. none \in Seq(Panes) /\ none \in Screens \cup {<<>>}
    OBVIOUS
  <2>2. full' = [full EXCEPT ![c] = new]
    BY DEF FullStart
  <2> HIDE DEF none
  <2>3. new \in Fulls /\ new.on /\ new.todo = none
    BY <2>1 DEF Fulls
  <2> HIDE DEF new
  <2>4. full' \in [Clients -> Fulls] /\ full'[c] = new
        /\ \A d \in Clients : d # c => full'[d] = full[d]
    BY <2>2, <2>3 DEF Types, WriterTypes
  <2> QED BY <2>3, <2>4 DEF none
<1>7. waiting' \in [Clients -> Nat] /\ \A d \in Clients : d # c => waiting'[d] = waiting[d]
  BY <1>1 DEF FullStart
<1>8. down' = [down EXCEPT ![c] = Append(down[c], Layout(ActivePanes))]
  BY DEF FullStart
<1> QED BY <1>2, <1>3, <1>5, <1>6, <1>7, <1>8

LEMMA FullStartTypes ==
  ASSUME Types, NEW c \in Clients, FullStart(c)
  PROVE  Types'
<1>1. UNCHANGED <<inFrame, active, height, acted, clients, sent, flush, shown, events>>
      /\ applied' = SessionHeight(acted)
  BY DEF FullStart
<1>2. applied' \in 0..Lines
  BY <1>1, FullStartIs, MirrorAssumption
<1>3. dirty' \in [Panes -> BOOLEAN]
  <2>1. dirty' = [p \in Panes |-> dirty[p] \/ content'[p] # content[p]]
    BY DEF FullStart
  <2> QED BY <2>1 DEF Types, ServerTypes
<1>4. content' \in [Panes -> Screens] /\ waiting' \in [Clients -> Nat]
  BY FullStartIs
<1>5. ServerTypes'
  BY <1>1, <1>2, <1>3, <1>4 DEF Types, ServerTypes
<1>6. WriterTypes'
  <2>1. /\ full' \in [Clients -> Fulls] /\ full'[c].todo = <<>>
        /\ \A d \in Clients : d # c => full'[d] = full[d]
    BY FullStartIs
  <2> QED BY <1>1, <2>1 DEF Types, WriterTypes
<1>7. ClientTypes'
  <2>1. Layout(ActivePanes) \in Msgs
    BY MsgTypes DEF Types, ServerTypes, ActivePanes
  <2>2. Append(down[c], Layout(ActivePanes)) \in Seq(Msgs)
    BY <2>1 DEF Types, ClientTypes
  <2>3. down' \in [Clients -> Seq(Msgs)]
    BY <2>2, FullStartIs DEF Types, ClientTypes
  <2> QED BY <1>1, <2>3 DEF Types, ClientTypes
<1>8. NothingForGone'
  <2>1. c \in clients /\ \A d \in Clients : d # c => waiting'[d] = waiting[d] /\ full'[d] = full[d]
    BY FullStartIs
  <2> QED BY <1>1, <2>1 DEF Types, NothingForGone
<1> QED BY <1>5, <1>6, <1>7, <1>8 DEF Types

\* A step of a resynchronisation of c that writes the screen of a pane, or is over.
Writes(c, p, todo) ==
  /\ full' = [full EXCEPT ![c] = [on |-> TRUE, todo |-> todo, rows |-> content[p]]]
  /\ down' = [down EXCEPT ![c] = Append(down[c], Screen(p, content[p]))]
Rests(c) == full' = [full EXCEPT ![c] = IdleFull] /\ UNCHANGED down

LEMMA FullStepTypes ==
  ASSUME Types, NEW c \in clients, NEW rows \in Copies,
         sent' = [sent EXCEPT ![c] = rows], dirty' \in [Panes -> BOOLEAN],
         UNCHANGED <<content, inFrame, active, sizeVars, clients, flush, waiting, shown,
                     events>>,
         Rests(c) \/ \E p \in Panes, todo \in Seq(Panes) : Writes(c, p, todo)
  PROVE  Types'
<1>0. c \in Clients
  BY DEF Types, ServerTypes
<1>1. ServerTypes'
  <2>1. sent' \in [Clients -> Copies]
    BY <1>0 DEF Types, ServerTypes
  <2> QED BY <2>1 DEF Types, ServerTypes, sizeVars
<1>2. /\ full' \in [Clients -> Fulls] /\ down' \in [Clients -> Seq(Msgs)]
      /\ full'[c].todo # <<>> => full'[c].rows \in Screens
      /\ \A d \in Clients : d # c => full'[d] = full[d]
  <2>1. full \in [Clients -> Fulls] /\ down \in [Clients -> Seq(Msgs)]
    BY DEF Types, WriterTypes, ClientTypes
  <2>2. CASE Rests(c)
    BY <1>0, <2>1, <2>2, IdleFullType DEF Rests
  <2>3. ASSUME NEW p \in Panes, NEW todo \in Seq(Panes), Writes(c, p, todo)
        PROVE  <1>2!:
    <3> DEFINE new == [on |-> TRUE, todo |-> todo, rows |-> content[p]]
               more == Append(down[c], Screen(p, content[p]))
    <3>1. content[p] \in Screens
      BY DEF Types, ServerTypes
    <3>2. new \in Fulls /\ new.rows \in Screens
      BY <3>1 DEF Fulls
    <3>3. more \in Seq(Msgs)
      BY <1>0, <2>1, <3>1, MsgTypes
    <3>4. full' = [full EXCEPT ![c] = new] /\ down' = [down EXCEPT ![c] = more]
      BY <2>3 DEF Writes
    <3> HIDE DEF new, more
    <3> QED BY <1>0, <2>1, <3>2, <3>3, <3>4
  <2> QED BY <2>2, <2>3
<1>3. WriterTypes'
  BY <1>2 DEF Types, WriterTypes
<1>4. ClientTypes'
  BY <1>2 DEF Types, ClientTypes
<1>5. NothingForGone'
  <2>1. \A d \in Clients : d # c => sent'[d] = sent[d]
    BY DEF Types, ServerTypes
  <2> QED BY <1>2, <2>1 DEF Types, NothingForGone
<1> QED BY <1>1, <1>3, <1>4, <1>5 DEF Types

LEMMA FullFirstIs ==
  ASSUME Types, NEW c \in Clients, FullFirst(c)
  PROVE  /\ c \in clients /\ PanesOf[active] \in Seq(Panes) /\ PanesOf[active] # <<>>
         /\ PanesOf[active][1] \in Panes
         /\ Writes(c, PanesOf[active][1], PanesOf[active])
         /\ sent' = [sent EXCEPT ![c] = NoScreens]
         /\ UNCHANGED <<screenVars, active, sizeVars, clients, flush, waiting, shown, events>>
<1>1. c \in clients
  BY DEF Types, NothingForGone, FullFirst
<1>2. active \in Tabs
  BY DEF Types, ServerTypes
<1>3. Writes(c, PanesOf[active][1], PanesOf[active])
  BY DEF FullFirst, Writes
<1>4. /\ sent' = [sent EXCEPT ![c] = NoScreens]
      /\ UNCHANGED <<screenVars, active, sizeVars, clients, flush, waiting, shown, events>>
  BY DEF FullFirst
<1> QED BY <1>1, <1>2, <1>3, <1>4, TabPanes

LEMMA FullFirstTypes ==
  ASSUME Types, NEW c \in Clients, FullFirst(c)
  PROVE  Types'
<1>1. dirty' \in [Panes -> BOOLEAN]
  BY FullFirstIs DEF Types, ServerTypes, screenVars
<1>2. UNCHANGED <<content, inFrame, active, sizeVars, clients, flush, waiting, shown, events>>
  BY FullFirstIs DEF screenVars
<1>3. \E p \in Panes, todo \in Seq(Panes) : Writes(c, p, todo)
  BY FullFirstIs
<1> QED BY <1>1, <1>2, <1>3, FullFirstIs, FullStepTypes, NoScreensType

LEMMA FullNextIs ==
  ASSUME Types, NEW c \in Clients, FullNext(c)
  PROVE  /\ c \in clients /\ full[c].todo \in Seq(Panes) /\ full[c].todo # <<>>
         /\ Head(full[c].todo) \in Panes /\ full[c].rows \in Screens
         /\ dirty' = [dirty EXCEPT ![Head(full[c].todo)] = FALSE]
         /\ sent' = [sent EXCEPT ![c] = Put(sent[c], Head(full[c].todo), full[c].rows)]
         /\ \/ Rests(c)
            \/ /\ Tail(full[c].todo) # <<>> /\ Tail(full[c].todo) \in Seq(Panes)
               /\ Tail(full[c].todo)[1] \in Panes
               /\ Writes(c, Tail(full[c].todo)[1], Tail(full[c].todo))
         /\ UNCHANGED <<content, inFrame, active, sizeVars, clients, flush, waiting, shown,
                        events>>
<1>1. full[c].on /\ full[c].todo # <<>>
  BY DEF FullNext
<1>2. c \in clients
  BY <1>1 DEF Types, NothingForGone
<1>3. full[c].todo \in Seq(Panes) /\ full[c].rows \in Screens
  BY <1>1 DEF Types, WriterTypes, Fulls
<1>4. Head(full[c].todo) \in Panes /\ Tail(full[c].todo) \in Seq(Panes)
  BY <1>1, <1>3
<1> DEFINE rest == Tail(full[c].todo)
<1>5. /\ dirty' = [dirty EXCEPT ![Head(full[c].todo)] = FALSE]
      /\ sent' = [sent EXCEPT ![c] = Put(sent[c], Head(full[c].todo), full[c].rows)]
      /\ UNCHANGED <<content, inFrame, active, sizeVars, clients, flush, waiting, shown, events>>
  BY DEF FullNext
<1>6. IF rest = <<>> THEN Rests(c) ELSE Writes(c, rest[1], rest)
  BY DEF FullNext, Rests, Writes
<1>7. rest # <<>> => rest[1] \in Panes
  BY <1>4
<1> HIDE DEF rest
<1> QED BY <1>1, <1>2, <1>3, <1>4, <1>5, <1>6, <1>7 DEF rest

LEMMA FullNextTypes ==
  ASSUME Types, NEW c \in Clients, FullNext(c)
  PROVE  Types'
<1>1. dirty' \in [Panes -> BOOLEAN]
  BY FullNextIs DEF Types, ServerTypes
<1>2. Put(sent[c], Head(full[c].todo), full[c].rows) \in Copies
  BY FullNextIs, PutType DEF Types, ServerTypes
<1>3. Rests(c) \/ \E p \in Panes, todo \in Seq(Panes) : Writes(c, p, todo)
  BY FullNextIs
<1> QED BY <1>1, <1>2, <1>3, FullNextIs, FullStepTypes

\* The panes a turn of the flush loop renders, and the order of their frames.
Due == {p \in ActivePanes : dirty[p] /\ ~inFrame[p]}
DueSeq == Selected(PanesOf[active], Due)

LEMMA DueIs ==
  ASSUME Types
  PROVE  /\ Due \subseteq Panes /\ DueSeq \in Seq(Panes) /\ ToSet(DueSeq) = Due
         /\ Len(DueSeq) \in Nat /\ DOMAIN DueSeq = 1..Len(DueSeq)
         /\ \A i \in 1..Len(DueSeq) : DueSeq[i] \in Due /\ DueSeq[i] \in Panes
<1>1. PanesOf[active] \in Seq(Panes) /\ ToSet(PanesOf[active]) \subseteq Panes
  BY TabPanes DEF Types, ServerTypes
<1>2. Due \subseteq ToSet(PanesOf[active])
  BY DEF Due, ActivePanes
<1>3. DueSeq \in Seq(Panes \cap Due) /\ ToSet(DueSeq) = ToSet(PanesOf[active]) \cap Due
  BY <1>1, SelectedIs DEF DueSeq
<1>4. DueSeq \in Seq(Panes)
  <2>1. Panes \cap Due \subseteq Panes
    OBVIOUS
  <2> QED BY <1>3, <2>1
<1>5. Len(DueSeq) \in Nat /\ DOMAIN DueSeq = 1..Len(DueSeq)
      /\ \A i \in 1..Len(DueSeq) : DueSeq[i] \in Panes \cap Due
  BY <1>3
<1> QED BY <1>1, <1>2, <1>3, <1>4, <1>5

\* What is taken to be held by the clients when the frames are built.
NowHeld(c) == [p \in DOMAIN sent[c] \cup Due |-> IF p \in Due THEN content[p] ELSE sent[c][p]]

LEMMA NowHeldType ==
  ASSUME Types, NEW c \in Clients
  PROVE  /\ NowHeld(c) \in Copies /\ DOMAIN NowHeld(c) = DOMAIN sent[c] \cup Due
         /\ \A p \in DOMAIN sent[c] \cup Due :
              NowHeld(c)[p] = IF p \in Due THEN content[p] ELSE sent[c][p]
<1>1. DOMAIN sent[c] \subseteq Panes /\ \A p \in DOMAIN sent[c] : sent[c][p] \in Screens
  BY CopyHas DEF Types, ServerTypes
<1>2. Due \subseteq Panes /\ \A p \in Panes : content[p] \in Screens
  BY DueIs DEF Types, ServerTypes
<1>3. NowHeld(c) \in [DOMAIN sent[c] \cup Due -> Screens]
  BY <1>1, <1>2 DEF NowHeld
<1>4. DOMAIN sent[c] \cup Due \subseteq Panes
  BY <1>1, <1>2
<1>5. NowHeld(c) \in Copies
  BY <1>3, <1>4, CopyIs
<1> QED BY <1>5 DEF NowHeld

Frames(c) == [i \in DOMAIN DueSeq |-> ScreenFrame(c, DueSeq[i])]

LEMMA FramesType ==
  ASSUME Types, NEW c \in Clients
  PROVE  Frames(c) \in Seq(Msgs) /\ Len(Frames(c)) = Len(DueSeq)
         /\ \A i \in 1..Len(DueSeq) : Frames(c)[i] = ScreenFrame(c, DueSeq[i])
<1> DEFINE n == Len(DueSeq)
<1>1. n \in Nat /\ DOMAIN DueSeq = 1..n /\ \A i \in 1..n : DueSeq[i] \in Panes
  BY DueIs
<1> HIDE DEF n
<1>2. \A i \in 1..n : ScreenFrame(c, DueSeq[i]) \in Msgs
  BY <1>1, ScreenFrameType DEF Types
<1>3. Frames(c) = [i \in 1..n |-> ScreenFrame(c, DueSeq[i])]
  BY <1>1 DEF Frames
<1>4. Frames(c) \in [1..n -> Msgs]
  BY <1>2, <1>3
<1>5. Frames(c) \in Seq(Msgs) /\ Len(Frames(c)) = n
  BY <1>1, <1>4
<1> QED BY <1>3, <1>5 DEF n

LEMMA FlushBuildIs ==
  ASSUME Types, FlushBuild
  PROVE  /\ IF Yields THEN flush.todo = {} ELSE AtRest
         /\ flush' = [todo |-> clients, frames |-> [c \in clients |-> Frames(c)]]
         /\ sent' = [c \in Clients |-> IF c \in clients THEN NowHeld(c) ELSE sent[c]]
         /\ dirty' = [p \in Panes |-> dirty[p] /\ p \notin Due]
         /\ UNCHANGED <<content, inFrame, active, sizeVars, clients, waiting, full, down,
                        shown, events>>
BY DEF FlushBuild, Due, DueSeq, Frames, NowHeld

LEMMA FlushBuildTypes ==
  ASSUME Types, FlushBuild
  PROVE  Types'
<1>1. /\ flush' = [todo |-> clients, frames |-> [c \in clients |-> Frames(c)]]
      /\ sent' = [c \in Clients |-> IF c \in clients THEN NowHeld(c) ELSE sent[c]]
      /\ dirty' = [p \in Panes |-> dirty[p] /\ p \notin Due]
      /\ UNCHANGED <<content, inFrame, active, sizeVars, clients, waiting, full, down,
                     shown, events>>
  BY FlushBuildIs
<1>2. sent' \in [Clients -> Copies]
  BY <1>1, NowHeldType DEF Types, ServerTypes
<1>3. dirty' \in [Panes -> BOOLEAN]
  BY <1>1 DEF Types, ServerTypes
<1>4. ServerTypes'
  BY <1>1, <1>2, <1>3 DEF Types, ServerTypes, sizeVars
<1>5. WriterTypes'
  <2>1. flush'.todo = clients /\ flush'.frames = [c \in clients |-> Frames(c)]
        /\ flush' = [todo |-> flush'.todo, frames |-> flush'.frames]
    BY <1>1
  <2>2. \A c \in clients : flush'.frames[c] = Frames(c) /\ Frames(c) \in Seq(Msgs)
    BY <2>1, FramesType DEF Types, ServerTypes
  <2> QED BY <1>1, <2>1, <2>2 DEF Types, WriterTypes
<1>6. ClientTypes'
  BY <1>1 DEF Types, ClientTypes
<1>7. NothingForGone'
  <2>1. \A c \in Clients \ clients : sent'[c] = sent[c]
    BY <1>1
  <2> QED BY <1>1, <2>1 DEF Types, NothingForGone
<1> QED BY <1>4, <1>5, <1>6, <1>7 DEF Types

LEMMA FlushWriteIs ==
  ASSUME Types, NEW c \in Clients, FlushWrite(c)
  PROVE  /\ c \in flush.todo /\ flush.frames[c] \in Seq(Msgs)
         /\ down' = [down EXCEPT ![c] = down[c] \o flush.frames[c]]
         /\ down' \in [Clients -> Seq(Msgs)]
         /\ flush' = [todo |-> flush'.todo, frames |-> flush'.frames]
         /\ flush'.todo = flush.todo \ {c}
         /\ \A d \in flush'.todo : flush'.frames[d] = flush.frames[d]
         /\ UNCHANGED <<screenVars, active, sizeVars, clients, sent, waiting, full, shown,
                        events>>
<1>1. c \in flush.todo /\ flush.frames[c] \in Seq(Msgs)
  BY DEF Types, WriterTypes, FlushWrite
<1>2. down' = [down EXCEPT ![c] = down[c] \o flush.frames[c]]
  BY DEF FlushWrite
<1>3. down' \in [Clients -> Seq(Msgs)]
  <2>1. down[c] \o flush.frames[c] \in Seq(Msgs)
    BY <1>1 DEF Types, ClientTypes
  <2> QED BY <1>2, <2>1 DEF Types, ClientTypes
<1>4. /\ flush' = [todo |-> flush'.todo, frames |-> flush'.frames]
      /\ flush'.todo = flush.todo \ {c}
      /\ \A d \in flush'.todo : flush'.frames[d] = flush.frames[d]
  <2>1. CASE flush.todo = {c}
    <3>1. flush' = [todo |-> {}, frames |-> NoScreens]
      BY <2>1 DEF FlushWrite
    <3>2. flush'.todo = {} /\ flush'.frames = NoScreens
      BY <3>1
    <3> QED BY <2>1, <3>1, <3>2
  <2>2. CASE flush.todo # {c}
    <3>1. flush' = [flush EXCEPT !.todo = flush.todo \ {c}]
      BY <2>2 DEF FlushWrite
    <3> QED BY <3>1 DEF Types, WriterTypes
  <2> QED BY <2>1, <2>2
<1>5. UNCHANGED <<screenVars, active, sizeVars, clients, sent, waiting, full, shown, events>>
  BY DEF FlushWrite
<1> QED BY <1>1, <1>2, <1>3, <1>4, <1>5

LEMMA FlushWriteTypes ==
  ASSUME Types, NEW c \in Clients, FlushWrite(c)
  PROVE  Types'
<1>1. UNCHANGED <<screenVars, active, sizeVars, clients, sent, waiting, full, shown, events>>
  BY FlushWriteIs
<1>2. ServerTypes'
  BY <1>1 DEF Types, ServerTypes, screenVars, sizeVars
<1>3. WriterTypes'
  BY <1>1, FlushWriteIs DEF Types, WriterTypes
<1>4. ClientTypes'
  BY <1>1, FlushWriteIs DEF Types, ClientTypes
<1>5. NothingForGone'
  BY <1>1 DEF Types, NothingForGone
<1> QED BY <1>2, <1>3, <1>4, <1>5 DEF Types

LEMMA ReceiveIs ==
  ASSUME Types, NEW c \in Clients, Receive(c)
  PROVE  /\ down[c] \in Seq(Msgs) /\ down[c] # <<>> /\ shown[c] \in States
         /\ Apply(shown[c], Head(down[c])) \in States /\ Tail(down[c]) \in Seq(Msgs)
         /\ shown' = [shown EXCEPT ![c] = Apply(shown[c], Head(down[c]))]
         /\ down' = [down EXCEPT ![c] = Tail(down[c])]
         /\ UNCHANGED <<screenVars, active, sizeVars, clients, sent, flush, waiting, full,
                        events>>
<1>1. down[c] \in Seq(Msgs) /\ down[c] # <<>> /\ shown[c] \in States
  BY DEF Types, ClientTypes, Receive
<1>2. Head(down[c]) \in Msgs /\ Tail(down[c]) \in Seq(Msgs)
  BY <1>1
<1>3. Apply(shown[c], Head(down[c])) \in States
  BY <1>1, <1>2, ApplyType
<1> QED BY <1>1, <1>2, <1>3 DEF Receive

LEMMA ReceiveTypes ==
  ASSUME Types, NEW c \in Clients, Receive(c)
  PROVE  Types'
<1>1. UNCHANGED <<screenVars, active, sizeVars, clients, sent, flush, waiting, full, events>>
  BY ReceiveIs
<1>2. shown' \in [Clients -> States] /\ down' \in [Clients -> Seq(Msgs)]
  <2>1. shown \in [Clients -> States] /\ down \in [Clients -> Seq(Msgs)]
    BY DEF Types, ClientTypes
  <2> QED BY <2>1, ReceiveIs
<1>3. ServerTypes'
  BY <1>1 DEF Types, ServerTypes, screenVars, sizeVars
<1>4. WriterTypes' /\ NothingForGone'
  BY <1>1 DEF Types, WriterTypes, NothingForGone
<1>5. ClientTypes'
  BY <1>2 DEF ClientTypes
<1> QED BY <1>3, <1>4, <1>5 DEF Types

LEMMA TypesKept == Types /\ [Next]_vars => Types'
<1> SUFFICES ASSUME Types, [Next]_vars PROVE Types'
  OBVIOUS
<1>1. ASSUME NEW p \in Panes, NEW rows \in Written(p), NEW frame \in BOOLEAN,
             Output(p, rows, frame)
      PROVE  Types'
  BY <1>1, OutputTypes
<1>2. ASSUME NEW p \in Panes, FrameEnds(p)
      PROVE  Types'
  BY <1>2, FrameEndsTypes
<1>3. ASSUME NEW c \in Clients, NEW t \in Tabs, SelectTab(c, t)
      PROVE  Types'
  BY <1>3, CommandTypes
<1>4. ASSUME NEW c \in Clients, NEW n \in 1..Lines, Resize(c, n)
      PROVE  Types'
  BY <1>4, CommandTypes
<1>5. ASSUME NEW c \in Clients, Type(c) \/ Redraw(c)
      PROVE  Types'
  BY <1>5, CommandTypes
<1>6. ASSUME NEW c \in Clients, Leave(c)
      PROVE  Types'
  BY <1>6, LeaveTypes
<1>7. ASSUME NEW c \in Clients, NEW n \in 1..Lines, NEW keep \in BOOLEAN, Attach(c, n, keep)
      PROVE  Types'
  BY <1>7, AttachTypes
<1>8. ASSUME NEW c \in Clients, FullStart(c) \/ FullFirst(c) \/ FullNext(c)
      PROVE  Types'
  BY <1>8, FullStartTypes, FullFirstTypes, FullNextTypes
<1>9. CASE FlushBuild
  BY <1>9, FlushBuildTypes
<1>10. ASSUME NEW c \in Clients, FlushWrite(c) \/ Receive(c)
       PROVE  Types'
  BY <1>10, FlushWriteTypes, ReceiveTypes
<1>11. CASE UNCHANGED vars
  BY <1>11 DEF vars, Types, ServerTypes, WriterTypes, ClientTypes, NothingForGone
<1> QED BY <1>1, <1>2, <1>3, <1>4, <1>5, <1>6, <1>7, <1>8, <1>9, <1>10, <1>11 DEF Next

LEMMA TypesCorrect == Spec => []Types
<1> QED BY TypesInit, TypesKept, PTL DEF Spec

\* Every variable of the mirror keeps its type, whether or not a write yields to
\* the loop: the session has a height whenever a resynchronisation asks for
\* one, every frame is one that can be built, and nothing a client applies
\* leaves it with rows beyond the tallest pane (MirrorTypeOK).
THEOREM MirrorTypeCorrect == Spec => []MirrorTypeOK
<1>1. Types => MirrorTypeOK
  <2> SUFFICES ASSUME Types PROVE MirrorTypeOK
    OBVIOUS
  <2>1. ToSet(acted) \subseteq clients
    BY DEF Types, ServerTypes, ToSet
  <2>2. \A c \in Clients : shown[c].screens \in Copies
    BY StateParts DEF Types, ClientTypes
  <2> QED BY <2>1, <2>2 DEF Types, ServerTypes, WriterTypes, MirrorTypeOK
<1> QED BY <1>1, TypesCorrect, PTL

-----------------------------------------------------------------------------
(* What the server believes, when no write yields.                         *)

\* Client c will show these rows in pane p.
Holds(c, p, rows) ==
  p \in DOMAIN Outcome(c).screens /\ Outcome(c).screens[p] = rows

\* Between resynchronisations the belief is true; inside one it is true of the
\* panes that were drained, of the one that is being drained, and all of them
\* are as they are.  Before the first it is about to be forgotten.
Believed(c) ==
  IF ~full[c].on
  THEN \A p \in DOMAIN sent[c] : Holds(c, p, sent[c][p])
  ELSE full[c].todo # <<>> =>
         /\ full[c].rows = content[Head(full[c].todo)]
         /\ Holds(c, Head(full[c].todo), full[c].rows)
         /\ \A p \in DOMAIN sent[c] :
              sent[c][p] = content[p] /\ Holds(c, p, sent[c][p])

\* While the flush loop writes, nobody resynchronises or is about to.
Alone == flush.todo # {} => \A c \in Clients : waiting[c] = 0 /\ ~full[c].on

Trust == Types /\ Alone /\ \A c \in Clients : Believed(c)

\* What was built for c and is not written yet.
Unwritten(c) == IF c \in flush.todo THEN flush.frames[c] ELSE <<>>

LEMMA OutcomeIs ==
  ASSUME NEW c
  PROVE  Outcome(c) = Final(shown[c], down[c] \o Unwritten(c))
BY Zenon DEF Outcome, Final, Unwritten

LEMMA OutcomeNext ==
  ASSUME NEW c
  PROVE  Outcome(c)' = Final(shown'[c], down'[c] \o Unwritten(c)')
BY Zenon DEF Outcome, Final, Unwritten

LEMMA Queues ==
  ASSUME Types, NEW c \in Clients
  PROVE  /\ shown[c] \in States /\ down[c] \in Seq(Msgs) /\ Unwritten(c) \in Seq(Msgs)
         /\ Outcome(c) \in States
         /\ c \notin flush.todo => Outcome(c) = Final(shown[c], down[c])
<1>1. shown[c] \in States /\ down[c] \in Seq(Msgs)
  BY DEF Types, ClientTypes
<1>2. Unwritten(c) \in Seq(Msgs)
  <2> DEFINE none == <<>>
  <2>1. none \in Seq(Msgs) /\ Unwritten(c) = IF c \in flush.todo THEN flush.frames[c] ELSE none
    BY DEF Unwritten
  <2> HIDE DEF none
  <2> QED BY <2>1 DEF Types, WriterTypes
<1>3. down[c] \o Unwritten(c) \in Seq(Msgs)
  BY <1>1, <1>2
<1>4. c \notin flush.todo => down[c] \o Unwritten(c) = down[c]
  BY <1>1 DEF Unwritten
<1>5. Outcome(c) \in States
  BY <1>1, <1>3, OutcomeIs, FinalType
<1> QED BY <1>1, <1>2, <1>4, <1>5, OutcomeIs

\* What nobody disturbs stays believed.
LEMMA StillBelieved ==
  ASSUME NEW c, Believed(c), Outcome(c)' = Outcome(c), sent'[c] = sent[c],
         full'[c] = full[c], full[c].on => content' = content
  PROVE  Believed(c)'
BY DEF Believed, Holds

LEMMA SameOutcome ==
  ASSUME NEW c, shown'[c] = shown[c], down'[c] = down[c], Unwritten(c)' = Unwritten(c)
  PROVE  Outcome(c)' = Outcome(c)
BY OutcomeIs, OutcomeNext

\* At rest the flush loop has nothing to write, and no client is inside a resynchronisation.
LEMMA AtRestIs ==
  ASSUME AtRest
  PROVE  flush.todo = {} /\ \A c \in Clients : waiting[c] = 0 /\ ~full[c].on
BY DEF AtRest

\* Steps of programs and handlers: they happen at rest and touch neither queues nor memories.
LEMMA QuietTrust ==
  ASSUME Trust, Types', UNCHANGED <<clients, sent, flush, full, down, shown>>,
         AtRest \/ UNCHANGED <<content, waiting>>
  PROVE  Trust'
<1>1. Alone'
  BY AtRestIs DEF Trust, Alone
<1>2. ASSUME NEW c \in Clients
      PROVE  Believed(c)'
  <2>1. Outcome(c)' = Outcome(c)
    BY SameOutcome DEF Unwritten
  <2>2. full[c].on => content' = content
    BY AtRestIs
  <2> QED BY <2>1, <2>2, StillBelieved DEF Trust
<1> QED BY <1>1, <1>2 DEF Trust

\* Coming and going.
LEMMA LeaveTrust ==
  ASSUME Trust, Types', NEW c \in Clients, Leave(c), AtRest
  PROVE  Trust'
<1>1. /\ flush.todo = {} /\ flush'.todo = {} /\ UNCHANGED <<content, shown>>
      /\ sent' = [sent EXCEPT ![c] = NoScreens] /\ full' = [full EXCEPT ![c] = IdleFull]
      /\ down' = [down EXCEPT ![c] = <<>>]
  <2>1. flush' = [flush EXCEPT !.todo = flush.todo \ {c}]
    BY DEF Leave
  <2>2. flush'.todo = flush.todo \ {c}
    BY <2>1 DEF Trust, Types, WriterTypes
  <2> QED BY <2>2, AtRestIs DEF Leave, screenVars
<1>2. /\ sent \in [Clients -> Copies] /\ full \in [Clients -> Fulls]
      /\ down \in [Clients -> Seq(Msgs)]
  BY DEF Trust, Types, ServerTypes, WriterTypes, ClientTypes
<1>3. Alone'
  BY <1>1 DEF Alone
<1>4. Believed(c)'
  BY <1>1, <1>2, NoScreensType, IdleFullType DEF Believed
<1>5. ASSUME NEW d \in Clients, d # c
      PROVE  Believed(d)'
  <2>1. sent'[d] = sent[d] /\ full'[d] = full[d] /\ down'[d] = down[d]
    BY <1>1, <1>2, <1>5
  <2>2. Outcome(d)' = Outcome(d)
    BY <1>1, <2>1, SameOutcome DEF Unwritten
  <2> QED BY <1>1, <2>1, <2>2, StillBelieved DEF Trust
<1> QED BY <1>3, <1>4, <1>5 DEF Trust

LEMMA AttachTrust ==
  ASSUME Trust, Types', NEW c \in Clients, NEW n, NEW keep, Attach(c, n, keep), AtRest
  PROVE  Trust'
<1>1. /\ flush.todo = {} /\ c \notin clients
      /\ UNCHANGED <<content, sent, flush, full, down>>
      /\ shown' = IF keep THEN shown ELSE [shown EXCEPT ![c] = FreshClient]
  BY AtRestIs DEF Attach, screenVars
<1>2. Alone'
  BY <1>1 DEF Alone
<1>3. Believed(c)'
  <2>1. DOMAIN sent[c] = {} /\ ~full[c].on
    BY <1>1 DEF Trust, Types, NothingForGone
  <2> QED BY <1>1, <2>1 DEF Believed
<1>4. ASSUME NEW d \in Clients, d # c
      PROVE  Believed(d)'
  <2>1. shown'[d] = shown[d]
    <3>1. shown \in [Clients -> States]
      BY DEF Trust, Types, ClientTypes
    <3> QED BY <1>1, <1>4, <3>1
  <2>2. Outcome(d)' = Outcome(d)
    BY <1>1, <2>1, SameOutcome DEF Unwritten
  <2> QED BY <1>1, <2>2, StillBelieved DEF Trust
<1> QED BY <1>2, <1>3, <1>4 DEF Trust

-----------------------------------------------------------------------------
(* A resynchronisation.                                                    *)

LEMMA FullStartTrust ==
  ASSUME Trust, Types', ~Yields, NEW c \in Clients, FullStart(c)
  PROVE  Trust'
<1>1. /\ full'[c].on /\ full'[c].todo = <<>>
      /\ \A d \in Clients : d # c => full'[d] = full[d]
      /\ down' = [down EXCEPT ![c] = Append(down[c], Layout(ActivePanes))]
  BY FullStartIs DEF Trust
<1>2. waiting[c] > 0 /\ (\A d \in Clients : ~full[d].on) /\ UNCHANGED <<sent, flush, shown>>
  BY DEF FullStart
<1>3. flush.todo = {} /\ Alone'
  <2>1. waiting[c] # 0
    BY <1>2 DEF Trust, Types, ServerTypes
  <2> QED BY <1>2, <2>1 DEF Trust, Alone
<1>4. Believed(c)'
  BY <1>1 DEF Believed
<1>5. ASSUME NEW d \in Clients, d # c
      PROVE  Believed(d)'
  <2>1. down'[d] = down[d]
    <3>1. down \in [Clients -> Seq(Msgs)]
      BY DEF Trust, Types, ClientTypes
    <3> QED BY <1>1, <1>5, <3>1
  <2>2. Outcome(d)' = Outcome(d)
    BY <1>2, <2>1, SameOutcome DEF Unwritten
  <2> QED BY <1>1, <1>2, <1>5, <2>2, StillBelieved DEF Trust
<1> QED BY <1>3, <1>4, <1>5 DEF Trust

\* A screen that is written replaces what the client will show in that pane alone.
LEMMA WritesOutcome ==
  ASSUME Types, NEW c \in Clients, c \notin flush.todo, UNCHANGED <<flush, shown>>,
         NEW p \in Panes, NEW todo, Writes(c, p, todo)
  PROVE  /\ Outcome(c) \in States
         /\ WithRows(Outcome(c)'.screens, Outcome(c).screens, p, content[p])
<1>1. /\ shown[c] \in States /\ down[c] \in Seq(Msgs) /\ Outcome(c) \in States
      /\ Outcome(c) = Final(shown[c], down[c])
  BY Queues
<1>2. content[p] \in Screens /\ Screen(p, content[p]) \in Msgs
  BY MsgTypes DEF Types, ServerTypes
<1>3. down'[c] = Append(down[c], Screen(p, content[p])) /\ shown'[c] = shown[c]
  BY DEF Writes, Types, ClientTypes
<1>4. down'[c] \o Unwritten(c)' = down'[c]
  <2>1. down'[c] \in Seq(Msgs)
    BY <1>1, <1>2, <1>3
  <2> QED BY <2>1 DEF Unwritten
<1>5. Outcome(c)' = Final(shown[c], Append(down[c], Screen(p, content[p])))
  <2>1. Outcome(c)' = Final(shown'[c], down'[c] \o Unwritten(c)')
    BY OutcomeNext
  <2>2. Outcome(c)' = Final(shown[c], down'[c])
    BY <1>3, <1>4, <2>1
  <2> QED BY <1>3, <2>2, Zenon
<1>6. Outcome(c)' = Apply(Outcome(c), Screen(p, content[p]))
  BY <1>1, <1>2, <1>5, FinalAppend
<1>7. Outcome(c)'.screens = Put(Outcome(c).screens, p, content[p])
  BY <1>1, <1>2, <1>6, ApplyScreenIs
<1>8. Outcome(c).screens \in Copies
  BY <1>1, StateParts
<1>9. WithRows(Put(Outcome(c).screens, p, content[p]), Outcome(c).screens, p, content[p])
  BY <1>2, <1>8, PutType
<1> QED BY <1>1, <1>7, <1>9

\* The other clients see nothing of it.
LEMMA OthersBelieved ==
  ASSUME Trust, NEW c \in Clients, NEW d \in Clients, d # c,
         UNCHANGED <<content, flush, shown>>,
         full'[d] = full[d], down'[d] = down[d], sent'[d] = sent[d]
  PROVE  Believed(d)'
<1>1. Outcome(d)' = Outcome(d)
  BY SameOutcome DEF Unwritten
<1> QED BY <1>1, StillBelieved DEF Trust

LEMMA FullFirstTrust ==
  ASSUME Trust, Types', NEW c \in Clients, FullFirst(c)
  PROVE  Trust'
<1> DEFINE p == PanesOf[active][1]  todo == PanesOf[active]
<1>1. /\ todo \in Seq(Panes) /\ todo # <<>> /\ p \in Panes /\ Writes(c, p, todo)
      /\ sent' = [sent EXCEPT ![c] = NoScreens]
      /\ UNCHANGED <<content, flush, waiting, shown>>
  BY FullFirstIs DEF Trust, screenVars
<1>2. Head(todo) = p
  BY <1>1
<1> HIDE DEF p, todo
<1>3. full[c].on
  BY DEF FullFirst
<1>4. flush.todo = {} /\ Alone'
  BY <1>1, <1>3 DEF Trust, Alone
<1>5. /\ sent \in [Clients -> Copies] /\ full \in [Clients -> Fulls]
      /\ down \in [Clients -> Seq(Msgs)] /\ content[p] \in Screens
  BY <1>1 DEF Trust, Types, ServerTypes, WriterTypes, ClientTypes
<1>6. Believed(c)'
  <2>1. full'[c] = [on |-> TRUE, todo |-> todo, rows |-> content[p]]
    BY <1>1, <1>5 DEF Writes
  <2>2. full'[c].on /\ full'[c].todo = todo /\ full'[c].rows = content[p]
    BY <2>1
  <2> DEFINE was == Outcome(c).screens  out == Outcome(c)'.screens
  <2>3. WithRows(out, was, p, content[p])
    BY <1>1, <1>4, WritesOutcome DEF Trust
  <2> HIDE DEF was, out
  <2>4. p \in DOMAIN out /\ out[p] = content[p]
    BY <2>3 DEF WithRows
  <2>5. DOMAIN sent'[c] = {}
    BY <1>1, <1>5, NoScreensType
  <2> QED BY <1>1, <1>2, <2>2, <2>4, <2>5 DEF Believed, Holds, out
<1>7. ASSUME NEW d \in Clients, d # c
      PROVE  Believed(d)'
  <2>1. full'[d] = full[d] /\ down'[d] = down[d] /\ sent'[d] = sent[d]
    BY <1>1, <1>5, <1>7 DEF Writes
  <2> QED BY <1>1, <1>7, <2>1, OthersBelieved
<1> QED BY <1>4, <1>6, <1>7 DEF Trust

LEMMA FullNextTrust ==
  ASSUME Trust, Types', NEW c \in Clients, FullNext(c)
  PROVE  Trust'
<1> DEFINE todo == full[c].todo  p == Head(todo)  rest == Tail(todo)
<1>1. /\ todo \in Seq(Panes) /\ todo # <<>> /\ p \in Panes /\ full[c].rows \in Screens
      /\ sent' = [sent EXCEPT ![c] = Put(sent[c], p, full[c].rows)]
      /\ UNCHANGED <<content, flush, waiting, shown>>
      /\ \/ Rests(c)
         \/ rest # <<>> /\ rest \in Seq(Panes) /\ rest[1] \in Panes /\ Writes(c, rest[1], rest)
  BY FullNextIs DEF Trust
<1>2. full[c].on
  BY DEF FullNext
<1>3. /\ full[c].rows = content[p] /\ Holds(c, p, content[p])
      /\ \A x \in DOMAIN sent[c] : sent[c][x] = content[x] /\ Holds(c, x, content[x])
  BY <1>1, <1>2 DEF Trust, Believed
<1>4. flush.todo = {} /\ Alone'
  BY <1>1, <1>2 DEF Trust, Alone
<1>5. /\ sent \in [Clients -> Copies] /\ full \in [Clients -> Fulls]
      /\ down \in [Clients -> Seq(Msgs)] /\ content \in [Panes -> Screens]
  BY DEF Trust, Types, ServerTypes, WriterTypes, ClientTypes
<1> HIDE DEF todo, p, rest
<1>6. /\ DOMAIN sent'[c] = DOMAIN sent[c] \cup {p}
      /\ \A x \in DOMAIN sent'[c] : sent'[c][x] = content[x] /\ Holds(c, x, content[x])
  <2>1. sent'[c] = Put(sent[c], p, full[c].rows) /\ sent[c] \in Copies
    BY <1>1, <1>5
  <2>2. /\ DOMAIN sent'[c] = DOMAIN sent[c] \cup {p}
        /\ \A x \in DOMAIN sent[c] \cup {p} :
             sent'[c][x] = IF x = p THEN full[c].rows ELSE sent[c][x]
    <3>1. WithRows(Put(sent[c], p, full[c].rows), sent[c], p, full[c].rows)
      BY <1>1, <2>1, PutType
    <3>2. WithRows(sent'[c], sent[c], p, full[c].rows)
      BY <2>1, <3>1
    <3> QED BY <3>2 DEF WithRows
  <2> QED BY <1>3, <2>2
<1>7. Believed(c)'
  <2>1. CASE Rests(c)
    <3>1. ~full'[c].on /\ down'[c] = down[c]
      BY <1>5, <2>1, IdleFullType DEF Rests
    <3>2. Outcome(c)' = Outcome(c)
      BY <1>1, <3>1, SameOutcome DEF Unwritten
    <3> QED BY <1>6, <3>1, <3>2 DEF Believed, Holds
  <2>2. CASE rest # <<>> /\ rest \in Seq(Panes) /\ rest[1] \in Panes /\ Writes(c, rest[1], rest)
    <3> DEFINE next == rest[1]
    <3>1. next \in Panes /\ Head(rest) = next /\ Writes(c, next, rest)
      BY <2>2
    <3> HIDE DEF next
    <3>2. full'[c] = [on |-> TRUE, todo |-> rest, rows |-> content[next]]
      BY <1>5, <3>1 DEF Writes
    <3>3. full'[c].on /\ full'[c].todo = rest /\ full'[c].rows = content[next]
      BY <3>2
    <3> DEFINE was == Outcome(c).screens  out == Outcome(c)'.screens
    <3>4. WithRows(out, was, next, content[next])
      BY <1>1, <1>4, <3>1, WritesOutcome DEF Trust
    <3>5. \A x \in DOMAIN sent'[c] :
            sent'[c][x] = content[x] /\ x \in DOMAIN was /\ was[x] = content[x]
      BY <1>6 DEF Holds
    <3> HIDE DEF was, out
    <3>6. next \in DOMAIN out /\ out[next] = content[next]
      BY <3>4 DEF WithRows
    <3>7. \A x \in DOMAIN sent'[c] :
            sent'[c][x] = content[x] /\ x \in DOMAIN out /\ out[x] = content[x]
      BY <3>4, <3>5 DEF WithRows
    <3>8. /\ full'[c].rows = content'[Head(full'[c].todo)]
          /\ Head(full'[c].todo) \in DOMAIN out
          /\ out[Head(full'[c].todo)] = full'[c].rows
      BY <1>1, <3>1, <3>3, <3>6
    <3>9. \A x \in DOMAIN sent'[c] :
            sent'[c][x] = content'[x] /\ x \in DOMAIN out /\ out[x] = sent'[c][x]
      BY <1>1, <3>7
    <3> QED BY <3>3, <3>8, <3>9, Zenon DEF Believed, Holds, out
  <2> QED BY <1>1, <2>1, <2>2
<1>8. ASSUME NEW d \in Clients, d # c
      PROVE  Believed(d)'
  <2>1. full'[d] = full[d] /\ down'[d] = down[d] /\ sent'[d] = sent[d]
    BY <1>1, <1>5, <1>8 DEF Writes, Rests
  <2> QED BY <1>1, <1>8, <2>1, OthersBelieved
<1> QED BY <1>4, <1>7, <1>8 DEF Trust

-----------------------------------------------------------------------------
(* A turn of the flush loop.                                               *)

\* Behind the first k frames the rendered panes show what the emulators show
\* and the others what was sent.
ShowsAfter(s, c, k) ==
  /\ s \in States
  /\ \A p \in DOMAIN sent[c] : p \in DOMAIN s.screens
  /\ \A i \in 1..k : DueSeq[i] \in DOMAIN s.screens
                       /\ s.screens[DueSeq[i]] = content[DueSeq[i]]
  /\ \A p \in DOMAIN sent[c] : s.screens[p] \in {sent[c][p], content[p]}
  /\ \A p \in DOMAIN sent[c] : p \notin Due => s.screens[p] = sent[c][p]

\* One frame: a whole screen, or changed rows on a base that is right elsewhere.
LEMMA FrameShows ==
  ASSUME Types, NEW c \in Clients, NEW s \in States, NEW p \in Panes,
         p \in DOMAIN sent[c] => /\ p \in DOMAIN s.screens
                                 /\ s.screens[p] \in {sent[c][p], content[p]}
  PROVE  WithRows(Apply(s, ScreenFrame(c, p)).screens, s.screens, p, content[p])
<1>1. s.screens \in Copies /\ content[p] \in Screens /\ ServerTypes
  BY StateParts DEF Types, ServerTypes
<1>2. CASE ScreenFrame(c, p) = Screen(p, content[p])
  <2>1. Apply(s, ScreenFrame(c, p)).screens = Put(s.screens, p, content[p])
    BY <1>1, <1>2, ApplyScreenIs
  <2>2. WithRows(Put(s.screens, p, content[p]), s.screens, p, content[p])
    BY <1>1, PutType
  <2> QED BY <2>1, <2>2
<1>3. ASSUME p \in DOMAIN sent[c], Len(sent[c][p]) = Len(content[p]),
             NEW S \in SUBSET (1..Len(content[p])),
             ScreenFrame(c, p) = Delta(p, [y \in S |-> content[p][y]]),
             \A y \in 1..Len(content[p]) \ S : content[p][y] = sent[c][p][y]
      PROVE  WithRows(Apply(s, ScreenFrame(c, p)).screens, s.screens, p, content[p])
  <2> DEFINE base == s.screens[p]  rows == [y \in S |-> content[p][y]]
             out == Apply(s, ScreenFrame(c, p)).screens
  <2>1. p \in DOMAIN s.screens /\ base \in {sent[c][p], content[p]} /\ base \in Screens
    BY <1>1, <1>3, CopyHas
  <2>2. Len(base) = Len(content[p])
        /\ \A y \in 1..Len(content[p]) : y \notin S => base[y] = content[p][y]
    <3> HIDE DEF base
    <3>1. CASE base = sent[c][p]
      BY <1>3, <3>1
    <3>2. CASE base = content[p]
      BY <3>2
    <3> QED BY <2>1, <3>1, <3>2
  <2>3. Overlay(base, rows) = content[p]
    <3> HIDE DEF base
    <3> QED BY <1>1, <2>1, <2>2, OverlayCompletes
  <2> HIDE DEF rows
  <2>4. /\ DOMAIN Apply(s, Delta(p, rows)).screens = DOMAIN s.screens
        /\ \A q \in DOMAIN s.screens :
             Apply(s, Delta(p, rows)).screens[q] =
               IF q = p THEN Overlay(s.screens[p], rows) ELSE s.screens[q]
    BY <2>1, ApplyDeltaIs
  <2>5. Apply(s, Delta(p, rows)).screens = out
    BY <1>3 DEF rows
  <2>6. DOMAIN out = DOMAIN s.screens /\ DOMAIN s.screens = DOMAIN s.screens \cup {p}
    BY <2>1, <2>4, <2>5
  <2>7. \A q \in DOMAIN s.screens : out[q] = IF q = p THEN content[p] ELSE s.screens[q]
    BY <2>3, <2>4, <2>5
  <2> HIDE DEF out
  <2>8. WithRows(out, s.screens, p, content[p])
    BY <2>6, <2>7 DEF WithRows
  <2> QED BY <2>8 DEF out
<1> QED BY <1>1, <1>2, <1>3, ScreenFrameIs

\* All of them.
LEMMA FramesShow ==
  ASSUME Types, NEW c \in Clients, NEW s \in States, ShowsAfter(s, c, 0)
  PROVE  ShowsAfter(Final(s, Frames(c)), c, Len(DueSeq))
<1> DEFINE n == Len(DueSeq)  q == Frames(c)
<1>1. /\ n \in Nat /\ q \in Seq(Msgs) /\ Len(q) = n
      /\ \A i \in 1..n : q[i] = ScreenFrame(c, DueSeq[i]) /\ DueSeq[i] \in Due
                           /\ DueSeq[i] \in Panes
  BY FramesType, DueIs
<1> HIDE DEF n, q
<1>2. PICK g \in [0..n -> States] : Passes(g, s, q)
  BY <1>1, PassExists
<1>3. Final(s, q) = g[n]
  BY <1>1, <1>2, FinalIs
<1> DEFINE Done == {k \in 0..n : ShowsAfter(g[k], c, k)}
<1>4. 0 \in Done
  <2>1. 0 \in 0..n /\ g[0] = s
    BY <1>1, <1>2 DEF Passes
  <2> QED BY <2>1
<1>5. ASSUME NEW k \in 1..n, k - 1 \in Done
      PROVE  k \in Done
  <2>1. ShowsAfter(g[k - 1], c, k - 1) /\ k \in 0..n
    BY <1>1, <1>5
  <2>2. g[k] = Apply(g[k - 1], q[k]) /\ g[k] \in States
    BY <1>1, <1>2, <2>1 DEF Passes
  <2> DEFINE was == g[k - 1]  now == g[k]  p == DueSeq[k]
  <2>3. p \in Due /\ p \in Panes /\ q[k] = ScreenFrame(c, p) /\ was \in States
    BY <1>1, <2>1 DEF ShowsAfter
  <2>4. WithRows(now.screens, was.screens, p, content[p])
    <3>1. p \in DOMAIN sent[c] => /\ p \in DOMAIN was.screens
                                  /\ was.screens[p] \in {sent[c][p], content[p]}
      BY <2>1 DEF ShowsAfter
    <3>2. now = Apply(was, ScreenFrame(c, p))
      BY <2>2, <2>3
    <3> HIDE DEF was, now, p
    <3>3. WithRows(Apply(was, ScreenFrame(c, p)).screens, was.screens, p, content[p])
      BY <2>3, <3>1, FrameShows
    <3> QED BY <3>2, <3>3
  <2>5. ShowsAfter(was, c, k - 1) /\ now \in States
    BY <2>1, <2>2
  <2> HIDE DEF was, now
  <2>6. \A i \in 1..k : i \in 1..(k - 1) \/ i = k
    BY <1>1
  <2>7. \A i \in 1..k : DueSeq[i] \in DOMAIN now.screens
                          /\ now.screens[DueSeq[i]] = content[DueSeq[i]]
    BY <2>4, <2>5, <2>6 DEF ShowsAfter, WithRows
  <2>8. \A x \in DOMAIN sent[c] :
          /\ x \in DOMAIN now.screens
          /\ now.screens[x] \in {sent[c][x], content[x]}
          /\ x \notin Due => now.screens[x] = sent[c][x]
    BY <2>3, <2>4, <2>5 DEF ShowsAfter, WithRows
  <2>9. ShowsAfter(now, c, k)
    BY <2>5, <2>7, <2>8 DEF ShowsAfter
  <2> QED BY <2>1, <2>9 DEF now
<1> HIDE DEF Done
<1>6. n \in Done
  BY <1>1, <1>4, <1>5, Climb
<1> QED BY <1>3, <1>6 DEF Done, n, q

LEMMA FlushBuildTrust ==
  ASSUME Trust, Types', ~Yields, FlushBuild
  PROVE  Trust'
<1>1. /\ AtRest
      /\ flush' = [todo |-> clients, frames |-> [c \in clients |-> Frames(c)]]
      /\ sent' = [c \in Clients |-> IF c \in clients THEN NowHeld(c) ELSE sent[c]]
      /\ UNCHANGED <<content, clients, waiting, full, down, shown>>
  BY FlushBuildIs DEF Trust
<1>2. flush.todo = {} /\ \A c \in Clients : waiting[c] = 0 /\ ~full[c].on
  BY <1>1, AtRestIs
<1>3. Alone'
  BY <1>1, <1>2 DEF Alone
<1>4. ASSUME NEW c \in Clients
      PROVE  Believed(c)'
  <2>1. CASE c \in clients
    <3> DEFINE s == Outcome(c)  out == Outcome(c)'
    <3>1. /\ shown[c] \in States /\ down[c] \in Seq(Msgs) /\ s \in States
          /\ s = Final(shown[c], down[c])
      BY <1>2, Queues DEF Trust
    <3>2. Unwritten(c)' = Frames(c)
      BY <1>1, <2>1 DEF Unwritten
    <3>3. out = Final(s, Frames(c))
      <4>1. Frames(c) \in Seq(Msgs)
        BY FramesType DEF Trust
      <4>2. out = Final(shown[c], down[c] \o Frames(c))
        <5>1. out = Final(shown'[c], down'[c] \o Unwritten(c)')
          BY OutcomeNext
        <5>2. shown' = shown /\ down' = down
          BY <1>1
        <5> QED BY <3>2, <5>1, <5>2
      <4> QED BY <3>1, <4>1, <4>2, FinalConcat
    <3>4. \A p \in DOMAIN sent[c] : p \in DOMAIN s.screens /\ s.screens[p] = sent[c][p]
      BY <1>2 DEF Trust, Believed, Holds
    <3> HIDE DEF s, out
    <3>5. ShowsAfter(s, c, 0)
      <4>1. 1..0 = {}
        OBVIOUS
      <4> QED BY <3>1, <3>4, <4>1 DEF ShowsAfter
    <3>6. ShowsAfter(out, c, Len(DueSeq))
      BY <3>1, <3>3, <3>5, FramesShow DEF Trust
    <3>7. \A p \in Due : p \in DOMAIN out.screens /\ out.screens[p] = content[p]
      <4>1. \A p \in Due : \E i \in 1..Len(DueSeq) : p = DueSeq[i]
        BY DueIs DEF Trust, ToSet
      <4> QED BY <3>6, <4>1 DEF ShowsAfter
    <3>8. /\ sent'[c] = NowHeld(c) /\ DOMAIN NowHeld(c) = DOMAIN sent[c] \cup Due
          /\ \A p \in DOMAIN sent[c] \cup Due :
               NowHeld(c)[p] = IF p \in Due THEN content[p] ELSE sent[c][p]
      BY <1>1, <2>1, NowHeldType DEF Trust
    <3>9. \A p \in DOMAIN sent'[c] : p \in DOMAIN out.screens /\ out.screens[p] = sent'[c][p]
      BY <3>6, <3>7, <3>8 DEF ShowsAfter
    <3> QED BY <1>1, <1>2, <3>9 DEF Believed, Holds, out
  <2>2. CASE c \notin clients
    <3>1. sent'[c] = sent[c] /\ DOMAIN sent[c] = {}
      BY <1>1, <2>2 DEF Trust, Types, NothingForGone
    <3> QED BY <1>1, <1>2, <3>1 DEF Believed
  <2> QED BY <2>1, <2>2
<1> QED BY <1>3, <1>4 DEF Trust

LEMMA FlushWriteTrust ==
  ASSUME Trust, Types', NEW c \in Clients, FlushWrite(c)
  PROVE  Trust'
<1>1. /\ c \in flush.todo /\ flush.frames[c] \in Seq(Msgs)
      /\ down' = [down EXCEPT ![c] = down[c] \o flush.frames[c]]
      /\ flush'.todo = flush.todo \ {c}
      /\ \A d \in flush'.todo : flush'.frames[d] = flush.frames[d]
      /\ UNCHANGED <<content, sent, waiting, full, shown>>
  BY FlushWriteIs DEF Trust, screenVars
<1>2. Alone'
  BY <1>1 DEF Trust, Alone
<1>3. ASSUME NEW d \in Clients
      PROVE  Outcome(d)' = Outcome(d)
  <2>1. down \in [Clients -> Seq(Msgs)]
    BY DEF Trust, Types, ClientTypes
  <2>2. CASE d = c
    <3>1. down'[d] = down[d] \o Unwritten(d) /\ Unwritten(d)' = <<>>
      BY <1>1, <2>1, <2>2 DEF Unwritten
    <3>2. down'[d] \o Unwritten(d)' = down[d] \o Unwritten(d)
      <4>1. down[d] \o Unwritten(d) \in Seq(Msgs)
        BY Queues DEF Trust
      <4> QED BY <3>1, <4>1
    <3>3. shown'[d] = shown[d]
      BY <1>1
    <3> QED BY <3>2, <3>3, OutcomeIs, OutcomeNext
  <2>3. CASE d # c
    <3>1. down'[d] = down[d] /\ Unwritten(d)' = Unwritten(d)
      BY <1>1, <2>1, <2>3 DEF Unwritten
    <3> QED BY <1>1, <3>1, SameOutcome
  <2> QED BY <2>2, <2>3
<1>4. ASSUME NEW d \in Clients
      PROVE  Believed(d)'
  BY <1>1, <1>3, StillBelieved DEF Trust
<1> QED BY <1>2, <1>4 DEF Trust

\* A client that applies a message is on its way to the same end.
LEMMA ReceiveTrust ==
  ASSUME Trust, Types', NEW c \in Clients, Receive(c)
  PROVE  Trust'
<1>1. /\ down[c] \in Seq(Msgs) /\ down[c] # <<>> /\ shown[c] \in States
      /\ Apply(shown[c], Head(down[c])) \in States /\ Tail(down[c]) \in Seq(Msgs)
      /\ shown' = [shown EXCEPT ![c] = Apply(shown[c], Head(down[c]))]
      /\ down' = [down EXCEPT ![c] = Tail(down[c])]
      /\ UNCHANGED <<content, sent, flush, waiting, full>>
  BY ReceiveIs DEF Trust, screenVars
<1>2. Alone'
  BY <1>1 DEF Trust, Alone
<1>3. ASSUME NEW d \in Clients
      PROVE  Outcome(d)' = Outcome(d)
  <2>1. down \in [Clients -> Seq(Msgs)] /\ shown \in [Clients -> States]
    BY DEF Trust, Types, ClientTypes
  <2>2. Unwritten(d)' = Unwritten(d) /\ Unwritten(d) \in Seq(Msgs)
    BY <1>1, Queues DEF Trust, Unwritten
  <2>3. CASE d = c
    <3> DEFINE s == Apply(shown[c], Head(down[c]))
    <3>1. shown'[d] = s /\ down'[d] = Tail(down[c]) /\ s \in States
      BY <1>1, <2>1, <2>3
    <3>2. Final(s, Tail(down[c])) = Final(shown[c], down[c])
      BY <1>1, FinalHead
    <3> HIDE DEF s
    <3>3. Outcome(d)' = Final(s, Tail(down[c]) \o Unwritten(d))
      BY <2>2, <3>1, OutcomeNext
    <3>4. Outcome(d)' = Final(Final(s, Tail(down[c])), Unwritten(d))
      BY <1>1, <2>2, <3>1, <3>3, FinalConcat
    <3>5. Outcome(d) = Final(Final(shown[c], down[c]), Unwritten(d))
      BY <1>1, <2>2, <2>3, OutcomeIs, FinalConcat
    <3> QED BY <3>2, <3>4, <3>5
  <2>4. CASE d # c
    <3>1. down'[d] = down[d] /\ shown'[d] = shown[d]
      BY <1>1, <2>1, <2>4
    <3> QED BY <2>2, <3>1, SameOutcome
  <2> QED BY <2>3, <2>4
<1>4. ASSUME NEW d \in Clients
      PROVE  Believed(d)'
  BY <1>1, <1>3, StillBelieved DEF Trust
<1> QED BY <1>2, <1>4 DEF Trust

-----------------------------------------------------------------------------
(* The belief is true.                                                     *)

LEMMA TrustInit ==
  ASSUME Init
  PROVE  Trust
<1>1. Types
  BY TypesInit
<1>2. flush.todo = {}
  BY DEF Init
<1>3. ASSUME NEW c \in Clients
      PROVE  Believed(c)
  <2>1. sent[c] = NoScreens /\ full[c] = IdleFull
    BY DEF Init
  <2> QED BY <2>1, NoScreensType, IdleFullType DEF Believed
<1> QED BY <1>1, <1>2, <1>3 DEF Trust, Alone

LEMMA TrustKept ==
  ASSUME ~Yields, Trust, [Next]_vars
  PROVE  Trust'
<1>0. Types'
  BY TypesKept DEF Trust
<1>1. ASSUME NEW p \in Panes, NEW rows, NEW frame, Output(p, rows, frame)
      PROVE  Trust'
  <2>1. AtRest /\ UNCHANGED <<clients, sent, flush, full, down, shown>>
    BY <1>1 DEF Output, LoopFree
  <2> QED BY <1>0, <2>1, QuietTrust
<1>2. ASSUME NEW p \in Panes, FrameEnds(p)
      PROVE  Trust'
  <2>1. UNCHANGED <<content, waiting, clients, sent, flush, full, down, shown>>
    BY <1>2 DEF FrameEnds
  <2> QED BY <1>0, <2>1, QuietTrust
<1>3. ASSUME NEW c \in Clients,
             \/ \E t \in Tabs : SelectTab(c, t)
             \/ \E n \in 1..Lines : Resize(c, n)
             \/ Type(c)
             \/ Redraw(c)
      PROVE  Trust'
  <2>1. AtRest
    BY <1>3 DEF SelectTab, Resize, Type, Redraw, HandlerFree, LoopFree
  <2>2. UNCHANGED <<clients, sent, flush, full, down, shown>>
    BY <1>3 DEF SelectTab, Resize, Type, Redraw
  <2> QED BY <1>0, <2>1, <2>2, QuietTrust
<1>4. ASSUME NEW c \in Clients, Leave(c)
      PROVE  Trust'
  <2>1. AtRest
    BY <1>4 DEF Leave, LoopFree
  <2> QED BY <1>0, <1>4, <2>1, LeaveTrust
<1>5. ASSUME NEW c \in Clients, NEW n \in 1..Lines, NEW keep \in BOOLEAN, Attach(c, n, keep)
      PROVE  Trust'
  <2>1. AtRest
    BY <1>5 DEF Attach, LoopFree
  <2> QED BY <1>0, <1>5, <2>1, AttachTrust
<1>6. ASSUME NEW c \in Clients, FullStart(c) \/ FullFirst(c) \/ FullNext(c)
      PROVE  Trust'
  BY <1>0, <1>6, FullStartTrust, FullFirstTrust, FullNextTrust
<1>7. CASE FlushBuild
  BY <1>0, <1>7, FlushBuildTrust
<1>8. ASSUME NEW c \in Clients, FlushWrite(c) \/ Receive(c)
      PROVE  Trust'
  BY <1>0, <1>8, FlushWriteTrust, ReceiveTrust
<1>9. CASE UNCHANGED vars
  <2>1. UNCHANGED <<content, waiting, clients, sent, flush, full, down, shown>>
    BY <1>9 DEF vars
  <2> QED BY <1>0, <2>1, QuietTrust
<1> QED BY <1>1, <1>2, <1>3, <1>4, <1>5, <1>6, <1>7, <1>8, <1>9 DEF Next

\* The server computes every delta against what the client will hold: when the
\* drain of a frame never yields to the loop, then for any number of clients,
\* tabs and panes, through resizes, tab switches, synchronised frames,
\* departures and reconnections, every remembered pane shows, once the client
\* has applied what was built for it, exactly the remembered rows
\* (BaselineTrue).  The condition is needed: when a drain yields, the program
\* writes between the frames of a resynchronisation, and the belief is false.
THEOREM BaselineTrueCorrect == ~Yields => (Spec => []BaselineTrue)
<1> SUFFICES ASSUME ~Yields PROVE Spec => []BaselineTrue
  OBVIOUS
<1>1. Init => Trust
  BY TrustInit
<1>2. Trust /\ [Next]_vars => Trust'
  BY TrustKept
<1>3. Trust => BaselineTrue
  BY DEF Trust, Types, ServerTypes, Believed, Holds, BaselineTrue
<1> QED BY <1>1, <1>2, <1>3, PTL DEF Spec

=============================================================================

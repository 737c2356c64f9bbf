--------------------------- MODULE PaneFeedProofs ---------------------------
(***************************************************************************)
(* The feed of the screens, proved for any number of panes, any program,   *)
(* any size of reads and any number of respawns and restarts: a pane has   *)
(* one drain that was not cancelled at most, and knows it (OneDrain); the  *)
(* collector is off exactly while drains run (CollectorBack); types and    *)
(* bounds (FeedTypeOK); output is shown in order (FedInOrder), is all fed  *)
(* when a descriptor ends (EofFindsNothing), and only repaints of it are   *)
(* lost (LossOnlyRepaints).                                                *)
(***************************************************************************)
EXTENDS PaneFeed, FoldLemmas

(* Types, as strong as the steps below need them. *)

Pieces == [of : Nat, n : Nat]
Events ==
  [t : {"read"}, pane : Panes]
    \cup [t : {"data"}, pane : Panes, of : Nat, chunks : Seq(Pieces)]
    \cup [t : {"eof"}, pane : Panes, of : Nat]
    \cup [t : {"drain"}, pane : Panes, id : Nat \ {0}, started : BOOLEAN,
          cancelled : BOOLEAN, rest : Seq(Pieces)]

Types ==
  /\ shell \in [Panes -> Nat] /\ taken \in [Panes -> Nat] /\ up \subseteq Panes
  /\ fed \in [Panes -> Seq(Pieces)] /\ feedbuf \in [Panes -> Seq(Pieces)]
  /\ task \in [Panes -> Nat]
  /\ ready \in Seq(Events)
  /\ \A p \in DOMAIN saved : saved[p] \in Seq(Pieces)
  /\ saved # NotSaved => up \subseteq DOMAIN saved

-----------------------------------------------------------------------------
(* Numbers.                                                                *)

LEMMA MinOfTwo ==
  ASSUME NEW a \in Int, NEW b \in Int
  PROVE  Min({a, b}) \in Int /\ Min({a, b}) <= a /\ Min({a, b}) <= b
<1> DEFINE IsMin(x) == x \in {a, b} /\ \A y \in {a, b} : x <= y
<1>1. \E x : IsMin(x)
  <2>1. CASE a <= b
    <3>1. IsMin(a)
      BY <2>1
    <3> QED BY <3>1
  <2>2. CASE b <= a
    <3>1. IsMin(b)
      BY <2>2
    <3> QED BY <3>1
  <2> QED BY <2>1, <2>2
<1>2. Min({a, b}) = CHOOSE x : IsMin(x)
  BY DEF Min
<1>3. IsMin(CHOOSE x : IsMin(x))
  BY <1>1
<1> QED BY <1>2, <1>3

-----------------------------------------------------------------------------
(* Sequences of chunks.                                                    *)

\* ds is a part of cs that only leaves out a beginning.
Shift(ds, cs, k) ==
  /\ ds \in Seq(Pieces)
  /\ \A i \in 1..Len(ds) : i + k \in 1..Len(cs) /\ ds[i] = cs[i + k]
Suffix(ds, cs) == \E k \in Nat : Shift(ds, cs, k)

LEMMA WholeIsSuffix ==
  ASSUME NEW cs \in Seq(Pieces)
  PROVE  Suffix(cs, cs)
<1>1. Shift(cs, cs, 0)
  BY DEF Shift
<1> QED BY <1>1 DEF Suffix

LEMMA TailIsSuffix ==
  ASSUME NEW cs \in Seq(Pieces), cs # <<>>
  PROVE  Suffix(Tail(cs), cs)
<1>1. Shift(Tail(cs), cs, 1)
  BY DEF Shift
<1> QED BY <1>1 DEF Suffix

\* Coalescing only leaves out a beginning.
LEMMA CoalescedIsSuffix ==
  ASSUME NEW STATE p, NEW cs \in Seq(Pieces)
  PROVE  Suffix(Coalesced(p, cs), cs)
<1>1. CASE Coalesced(p, cs) = cs
  BY <1>1, WholeIsSuffix
<1>2. CASE Coalesced(p, cs) # cs
  <2>1. /\ Coalesced(p, cs) = SubSeq(cs, Max(Clears(cs)), Len(cs))
        /\ Cardinality(Clears(cs)) >= 2
    BY <1>2 DEF Coalesced
  <2>2. Clears(cs) \subseteq 1..Len(cs)
    BY DEF Clears
  <2>3. Clears(cs) # {}
    <3>1. Cardinality({}) = 0
      BY FS_EmptySet
    <3>2. ~(0 >= 2)
      OBVIOUS
    <3> HIDE DEF Clears
    <3> QED BY <2>1, <3>1, <3>2
  <2>4. PICK m \in 1..Len(cs) : Coalesced(p, cs) = SubSeq(cs, m, Len(cs))
    <3>1. Len(cs) \in Nat
      OBVIOUS
    <3>2. Max(Clears(cs)) \in Clears(cs)
      BY <2>2, <2>3, <3>1, MaxIsMember
    <3> QED BY <2>1, <2>2, <3>2
  <2>5. Shift(Coalesced(p, cs), cs, m - 1)
    BY <2>4 DEF Shift
  <2> QED BY <2>5 DEF Suffix
<1> QED BY <1>1, <1>2

\* Chunks of one shell, in the order in which it wrote them; none after the
\* m-th; all of them before those of another sequence.
Ordered(cs, s) ==
  /\ \A i \in 1..Len(cs) : cs[i].of = s
  /\ \A i, j \in 1..Len(cs) : i < j => cs[i].n < cs[j].n
UpTo(cs, m) == \A i \in 1..Len(cs) : cs[i].n <= m
Before(cs, ds) == \A i \in 1..Len(cs), j \in 1..Len(ds) : cs[i].n < ds[j].n

LEMMA NothingIsOrdered ==
  /\ \A s, m : Ordered(<<>>, s) /\ UpTo(<<>>, m)
  /\ \A cs : Before(<<>>, cs) /\ Before(cs, <<>>)
BY DEF Ordered, UpTo, Before

LEMMA SuffixOrdered ==
  ASSUME NEW cs \in Seq(Pieces), NEW ds, Suffix(ds, cs)
  PROVE  /\ ds \in Seq(Pieces)
         /\ \A s : Ordered(cs, s) => Ordered(ds, s)
         /\ \A m : UpTo(cs, m) => UpTo(ds, m)
         /\ \A es : Before(cs, es) => Before(ds, es)
         /\ \A es : Before(es, cs) => Before(es, ds)
<1>1. PICK k \in Nat : Shift(ds, cs, k)
  BY DEF Suffix
<1>2. ds \in Seq(Pieces)
  BY <1>1 DEF Shift
<1>3. \A i \in 1..Len(ds) : i + k \in 1..Len(cs) /\ ds[i] = cs[i + k]
  BY <1>1 DEF Shift
<1>4. \A i, j \in 1..Len(ds) : i < j => i + k < j + k
  BY <1>2
<1>5. \A s : Ordered(cs, s) => Ordered(ds, s)
  BY <1>3, <1>4 DEF Ordered
<1>6. \A m : UpTo(cs, m) => UpTo(ds, m)
  BY <1>3 DEF UpTo
<1>7. /\ \A es : Before(cs, es) => Before(ds, es)
      /\ \A es : Before(es, cs) => Before(es, ds)
  BY <1>3 DEF Before
<1> QED BY <1>2, <1>5, <1>6, <1>7

LEMMA ConcatOrdered ==
  ASSUME NEW a \in Seq(Pieces), NEW b \in Seq(Pieces)
  PROVE  /\ a \o b \in Seq(Pieces)
         /\ \A s : Ordered(a, s) /\ Ordered(b, s) /\ Before(a, b) => Ordered(a \o b, s)
         /\ \A m : UpTo(a, m) /\ UpTo(b, m) => UpTo(a \o b, m)
         /\ \A es : Before(a, es) /\ Before(b, es) => Before(a \o b, es)
         /\ \A es : Before(es, a) /\ Before(es, b) => Before(es, a \o b)
<1> DEFINE ab == a \o b
<1>1. /\ ab \in Seq(Pieces)
      /\ Len(ab) = Len(a) + Len(b)
      /\ \A i \in 1..(Len(a) + Len(b)) :
           ab[i] = IF i <= Len(a) THEN a[i] ELSE b[i - Len(a)]
  BY ConcatProperties
<1> HIDE DEF ab
<1>2. ASSUME NEW i \in 1..Len(ab)
      PROVE  \/ i \in 1..Len(a) /\ ab[i] = a[i]
             \/ i > Len(a) /\ i - Len(a) \in 1..Len(b) /\ ab[i] = b[i - Len(a)]
  BY <1>1
<1>3. ASSUME NEW s, Ordered(a, s), Ordered(b, s), Before(a, b)
      PROVE  Ordered(ab, s)
  <2>1. ASSUME NEW i \in 1..Len(ab)
        PROVE  ab[i].of = s
    BY <1>2, <1>3 DEF Ordered
  <2>2. ASSUME NEW i \in 1..Len(ab), NEW j \in 1..Len(ab), i < j
        PROVE  ab[i].n < ab[j].n
    <3>1. CASE j <= Len(a)
      <4>1. i \in 1..Len(a) /\ j \in 1..Len(a) /\ ab[i] = a[i] /\ ab[j] = a[j]
        BY <1>1, <2>2, <3>1
      <4> QED BY <1>3, <2>2, <4>1 DEF Ordered
    <3>2. CASE ~(j <= Len(a)) /\ i <= Len(a)
      <4>1. /\ i \in 1..Len(a) /\ ab[i] = a[i]
            /\ j - Len(a) \in 1..Len(b) /\ ab[j] = b[j - Len(a)]
        BY <1>1, <3>2
      <4> QED BY <1>3, <4>1 DEF Before
    <3>3. CASE ~(i <= Len(a))
      <4>1. /\ i - Len(a) \in 1..Len(b) /\ ab[i] = b[i - Len(a)]
            /\ j - Len(a) \in 1..Len(b) /\ ab[j] = b[j - Len(a)]
            /\ i - Len(a) < j - Len(a)
        BY <1>1, <2>2, <3>3
      <4> QED BY <1>3, <4>1 DEF Ordered
    <3> QED BY <3>1, <3>2, <3>3
  <2> QED BY <2>1, <2>2 DEF Ordered
<1>4. \A m : UpTo(a, m) /\ UpTo(b, m) => UpTo(ab, m)
  BY <1>2 DEF UpTo
<1>5. /\ \A es : Before(a, es) /\ Before(b, es) => Before(ab, es)
      /\ \A es : Before(es, a) /\ Before(es, b) => Before(es, ab)
  BY <1>2 DEF Before
<1> QED BY <1>1, <1>3, <1>4, <1>5 DEF ab

\* A drain hands over the head of what it holds.
LEMMA HeadOrdered ==
  ASSUME NEW t \in Seq(Pieces), t # <<>>
  PROVE  /\ <<Head(t)>> \in Seq(Pieces)
         /\ \A s : Ordered(t, s) => Ordered(<<Head(t)>>, s) /\ Before(<<Head(t)>>, Tail(t))
         /\ \A m : UpTo(t, m) => UpTo(<<Head(t)>>, m)
         /\ \A es : Before(t, es) => Before(<<Head(t)>>, es)
         /\ \A es : Before(es, t) => Before(es, <<Head(t)>>)
<1> DEFINE h == <<Head(t)>>
<1>1. /\ 1 \in 1..Len(t) /\ h \in Seq(Pieces) /\ Len(h) = 1 /\ h[1] = t[1]
      /\ Len(Tail(t)) = Len(t) - 1
      /\ \A i \in 1..(Len(t) - 1) : Tail(t)[i] = t[i + 1] /\ i + 1 \in 1..Len(t) /\ 1 < i + 1
  OBVIOUS
<1> HIDE DEF h
<1>2. \A i \in 1..Len(h) : i = 1
  BY <1>1
<1>3. \A s : Ordered(t, s) => Ordered(h, s) /\ Before(h, Tail(t))
  BY <1>1, <1>2 DEF Ordered, Before
<1>4. \A m : UpTo(t, m) => UpTo(h, m)
  BY <1>1, <1>2 DEF UpTo
<1>5. /\ \A es : Before(t, es) => Before(h, es)
      /\ \A es : Before(es, t) => Before(es, h)
  BY <1>1, <1>2 DEF Before
<1> QED BY <1>1, <1>3, <1>4, <1>5 DEF h

\* What is read now comes after all that was read.
LEMMA ReadsOrdered ==
  ASSUME Types, NEW STATE p, p \in Panes, NEW STATE cs, cs \in Reads(p)
  PROVE  /\ cs \in Seq(Pieces) /\ Len(cs) \in Nat
         /\ Ordered(cs, shell[p]) /\ UpTo(cs, taken[p] + Len(cs))
         /\ \A ds \in Seq(Pieces) : UpTo(ds, taken[p]) => Before(ds, cs)
<1>1. PICK k \in 1..Min({Batch, Len(Script) - taken[p]}) :
        cs = [i \in 1..k |-> Chunk(shell[p], taken[p] + i)]
  BY DEF Reads
<1>2. k \in Nat
  <2>1. Batch \in Int /\ Len(Script) - taken[p] \in Int
    BY FeedAssumption DEF Types
  <2>2. Min({Batch, Len(Script) - taken[p]}) \in Int
    BY <2>1, MinOfTwo
  <2> QED BY <2>2
<1>3. shell[p] \in Nat /\ taken[p] \in Nat
  BY DEF Types
<1>4. /\ cs \in Seq(Pieces) /\ Len(cs) = k
      /\ \A i \in 1..k : cs[i].of = shell[p] /\ cs[i].n = taken[p] + i
  <2>1. cs = [i \in 1..k |-> [of |-> shell[p], n |-> taken[p] + i]]
    BY <1>1 DEF Chunk
  <2>2. \A i \in 1..k : [of |-> shell[p], n |-> taken[p] + i] \in Pieces
    BY <1>2, <1>3 DEF Pieces
  <2>3. cs \in Seq(Pieces) /\ Len(cs) = k
    BY <1>2, <2>1, <2>2
  <2> QED BY <2>1, <2>3
<1>5. Ordered(cs, shell[p]) /\ UpTo(cs, taken[p] + Len(cs))
  BY <1>2, <1>3, <1>4 DEF Ordered, UpTo
<1>6. ASSUME NEW ds \in Seq(Pieces), UpTo(ds, taken[p])
      PROVE  Before(ds, cs)
  <2>1. \A i \in 1..Len(ds) : ds[i].n \in Nat /\ ds[i].n <= taken[p]
    <3>1. \A i \in 1..Len(ds) : ds[i] \in Pieces
      OBVIOUS
    <3> QED BY <1>6, <3>1 DEF UpTo, Pieces
  <2> QED BY <1>2, <1>3, <1>4, <2>1 DEF Before
<1> QED BY <1>2, <1>4, <1>5, <1>6

-----------------------------------------------------------------------------
(* The queue of the loop.                                                  *)

\* q is r with some events taken out of it.
Places(q, r, f) ==
  /\ \A i \in 1..Len(q) : f[i] \in 1..Len(r) /\ q[i] = r[f[i]]
  /\ \A i, j \in 1..Len(q) : i < j => f[i] < f[j]
Thinned(q, r) == q \in Seq(Events) /\ \E f : Places(q, r, f)
\* An event that is in both.
Stays(e, q, r) == (\E j \in 1..Len(r) : r[j] = e) => \E i \in 1..Len(q) : q[i] = e

LEMMA SameIsThinned ==
  ASSUME NEW q \in Seq(Events)
  PROVE  Thinned(q, q)
<1>1. Places(q, q, [i \in 1..Len(q) |-> i])
  BY DEF Places
<1> QED BY <1>1 DEF Thinned

LEMMA TailIsThinned ==
  ASSUME NEW q \in Seq(Events), q # <<>>
  PROVE  /\ Thinned(Tail(q), q)
         /\ \A e : e # Head(q) => Stays(e, Tail(q), q)
<1>1. /\ Tail(q) \in Seq(Events) /\ Len(Tail(q)) = Len(q) - 1
      /\ \A i \in 1..(Len(q) - 1) : Tail(q)[i] = q[i + 1]
  OBVIOUS
<1>2. Places(Tail(q), q, [i \in 1..Len(Tail(q)) |-> i + 1])
  BY <1>1 DEF Places
<1>3. ASSUME NEW e, e # Head(q), NEW j \in 1..Len(q), q[j] = e
      PROVE  \E i \in 1..Len(Tail(q)) : Tail(q)[i] = e
  <2>1. j # 1
    BY <1>3
  <2>2. j - 1 \in 1..(Len(q) - 1) /\ Tail(q)[j - 1] = q[j]
    BY <1>1, <2>1
  <2> QED BY <1>1, <1>3, <2>2
<1> QED BY <1>1, <1>2, <1>3 DEF Thinned, Stays

LEMMA RemovedIsThinned ==
  ASSUME NEW q \in Seq(Events), NEW k \in 1..Len(q)
  PROVE  /\ Thinned(RemoveAt(q, k), q)
         /\ \A e : e # q[k] => Stays(e, RemoveAt(q, k), q)
         /\ \A i \in 1..Len(RemoveAt(q, k)) : \E j \in 1..Len(q) : j # k /\ RemoveAt(q, k)[i] = q[j]
<1> DEFINE head == SubSeq(q, 1, k - 1)
           tail == SubSeq(q, k + 1, Len(q))
           r == head \o tail
<1>1. /\ head \in Seq(Events) /\ Len(head) = k - 1
      /\ \A i \in 1..(k - 1) : head[i] = q[i]
  OBVIOUS
<1>2. /\ tail \in Seq(Events) /\ Len(tail) = Len(q) - k
      /\ \A i \in 1..(Len(q) - k) : tail[i] = q[k + i]
  OBVIOUS
<1>3. RemoveAt(q, k) = r
  BY DEF RemoveAt
<1> HIDE DEF head, tail
<1>4. /\ r \in Seq(Events)
      /\ Len(r) = Len(head) + Len(tail)
      /\ \A i \in 1..(Len(head) + Len(tail)) :
           r[i] = IF i <= Len(head) THEN head[i] ELSE tail[i - Len(head)]
  BY <1>1, <1>2, ConcatProperties
<1> HIDE DEF r
<1>5. Len(r) = Len(q) - 1
  BY <1>1, <1>2, <1>4
<1>6. \A i \in 1..(k - 1) : i \in 1..Len(r) /\ r[i] = q[i]
  BY <1>1, <1>2, <1>4
<1>7. ASSUME NEW i \in k..(Len(q) - 1)
      PROVE  i \in 1..Len(r) /\ r[i] = q[i + 1]
  <2>1. /\ i \in 1..(Len(head) + Len(tail)) /\ ~(i <= Len(head))
        /\ i - Len(head) \in 1..(Len(q) - k) /\ k + (i - Len(head)) = i + 1
    BY <1>1, <1>2
  <2> QED BY <1>2, <1>4, <2>1
<1> DEFINE f == [i \in 1..Len(r) |-> IF i < k THEN i ELSE i + 1]
<1>8. ASSUME NEW i \in 1..Len(r)
      PROVE  f[i] \in 1..Len(q) /\ f[i] # k /\ r[i] = q[f[i]]
  <2>1. CASE i < k
    BY <1>5, <1>6, <2>1
  <2>2. CASE ~(i < k)
    <3>1. i \in k..(Len(q) - 1)
      BY <1>5, <2>2
    <3> QED BY <1>5, <1>7, <2>2, <3>1
  <2> QED BY <2>1, <2>2
<1>9. Places(r, q, f)
  BY <1>4, <1>5, <1>8 DEF Places
<1>10. ASSUME NEW e, e # q[k], NEW j \in 1..Len(q), q[j] = e
       PROVE  \E i \in 1..Len(r) : r[i] = e
  <2>1. CASE j < k
    BY <1>6, <1>10, <2>1
  <2>2. CASE ~(j < k)
    <3>1. j - 1 \in k..(Len(q) - 1) /\ (j - 1) + 1 = j
      BY <1>10, <2>2
    <3> QED BY <1>7, <1>10, <3>1
  <2> QED BY <2>1, <2>2
<1> HIDE DEF f
<1> QED BY <1>3, <1>4, <1>8, <1>9, <1>10 DEF Thinned, Stays

\* Detaching the reader takes at most its event out of the queue; that was all
\* of them if there was one.
LEMMA UnreadIsThinned ==
  ASSUME NEW q \in Seq(Events), NEW p
  PROVE  /\ Thinned(Unread(q, p), q)
         /\ \A e : e # ReadEvent(p) => Stays(e, Unread(q, p), q)
         /\ (\A i, j \in 1..Len(q) : q[i] = ReadEvent(p) /\ q[j] = ReadEvent(p) => i = j)
              => \A i \in 1..Len(Unread(q, p)) : Unread(q, p)[i] # ReadEvent(p)
<1>1. CASE ReadEvent(p) \notin ToSet(q)
  <2>1. Unread(q, p) = q
    BY <1>1 DEF Unread
  <2> QED BY <1>1, <2>1, SameIsThinned DEF Stays, ToSet
<1>2. CASE ReadEvent(p) \in ToSet(q)
  <2> DEFINE k == CHOOSE i \in DOMAIN q : q[i] = ReadEvent(p)
  <2>1. k \in 1..Len(q) /\ q[k] = ReadEvent(p)
    BY <1>2 DEF ToSet
  <2>2. Unread(q, p) = RemoveAt(q, k)
    BY <1>2 DEF Unread
  <2> HIDE DEF k
  <2> QED BY <2>1, <2>2, RemovedIsThinned
<1> QED BY <1>1, <1>2

LEMMA QueueItems ==
  ASSUME NEW q \in Seq(Events)
  PROVE  Len(q) \in Nat /\ \A i \in 1..Len(q) : i \in Nat /\ q[i] \in Events
OBVIOUS

LEMMA AppendEvent ==
  ASSUME NEW q \in Seq(Events), NEW e \in Events
  PROVE  /\ Append(q, e) \in Seq(Events)
         /\ Len(Append(q, e)) = Len(q) + 1
         /\ \A i \in 1..Len(q) : Append(q, e)[i] = q[i]
         /\ Append(q, e)[Len(q) + 1] = e
OBVIOUS

LEMMA ThinnedTwice ==
  ASSUME NEW q, NEW r, NEW s, Thinned(q, r), Thinned(r, s)
  PROVE  Thinned(q, s)
<1>1. PICK f : Places(q, r, f)
  BY DEF Thinned
<1>2. PICK g : Places(r, s, g)
  BY DEF Thinned
<1> DEFINE h == [i \in 1..Len(q) |-> g[f[i]]]
<1>3. Places(q, s, h)
  BY <1>1, <1>2 DEF Places
<1> HIDE DEF h
<1> QED BY <1>3 DEF Thinned

\* A cancellation changes no event but the drains it cancels.
LEMMA CancelledKeeps ==
  ASSUME Types, NEW q \in Seq(Events), NEW ps
  PROVE  /\ Cancelled(q, ps) \in Seq(Events) /\ Len(Cancelled(q, ps)) = Len(q)
         /\ \A i \in 1..Len(q) :
              \/ Cancelled(q, ps)[i] = q[i]
                   /\ ~(q[i].t = "drain" /\ q[i].pane \in ps /\ q[i].id = task[q[i].pane])
              \/ /\ q[i].t = "drain" /\ q[i].pane \in ps /\ q[i].id = task[q[i].pane]
                 /\ Cancelled(q, ps)[i] = [q[i] EXCEPT !.cancelled = TRUE]
<1> DEFINE c == Cancelled(q, ps)
<1>1. c = [i \in 1..Len(q) |->
             IF q[i].t = "drain" /\ q[i].pane \in ps /\ q[i].id = task[q[i].pane]
             THEN [q[i] EXCEPT !.cancelled = TRUE] ELSE q[i]]
  BY DEF Cancelled, IsDrain
<1>2. ASSUME NEW i \in 1..Len(q)
      PROVE  c[i] \in Events
  <2>1. q[i] \in Events
    OBVIOUS
  <2>2. CASE q[i].t = "drain"
    <3>1. q[i] \in [t : {"drain"}, pane : Panes, id : Nat \ {0}, started : BOOLEAN,
                    cancelled : BOOLEAN, rest : Seq(Pieces)]
      BY <2>1, <2>2 DEF Events
    <3>2. [q[i] EXCEPT !.cancelled = TRUE]
            \in [t : {"drain"}, pane : Panes, id : Nat \ {0}, started : BOOLEAN,
                 cancelled : BOOLEAN, rest : Seq(Pieces)]
      BY <3>1
    <3> QED BY <1>1, <2>1, <3>2 DEF Events
  <2>3. CASE q[i].t # "drain"
    BY <1>1, <2>1, <2>3
  <2> QED BY <2>2, <2>3
<1>3. c \in Seq(Events) /\ Len(c) = Len(q)
  BY <1>1, <1>2
<1> QED BY <1>1, <1>3

-----------------------------------------------------------------------------
(* The drains.                                                             *)

LiveDrain(e, p) == e.t = "drain" /\ e.pane = p /\ ~e.cancelled
\* A drain that will run its finally clause.
Zombie(e, p) == e.t = "drain" /\ e.pane = p /\ e.cancelled /\ e.started
\* A callback that will hand chunks to the pane.
Brings(e, p) == e.pane = p /\ (e.t = "read" \/ (e.t = "data" /\ e.of = shell[p]))

\* A pane has one drain at most that was not cancelled, and its task names it.
OneEach(q) ==
  /\ \A p \in Panes : \A i, j \in 1..Len(q) :
       LiveDrain(q[i], p) /\ LiveDrain(q[j], p) => i = j
  /\ \A p \in Panes : \A i \in 1..Len(q) : LiveDrain(q[i], p) => task[p] = q[i].id

\* The finally clause of a cancelled drain clears the task of its pane.  It does
\* no harm because the task is clear then, and stays so until the clause has
\* run: every callback that may start another drain comes later in the queue.
ZombiesFirst(q) ==
  \A p \in up : \A i \in 1..Len(q) : Zombie(q[i], p) =>
    task[p] = 0 /\ \A j \in 1..Len(q) : Brings(q[j], p) => i < j

\* A read waits once, for an open pane that is attached; data comes from
\* threads or the daemon, of the present shell or an earlier one.
ArrivalsOK(q) ==
  /\ \A i \in 1..Len(q) :
       /\ q[i].t = "read" => backend = "fd" /\ q[i].pane \in up \cap reading
       /\ q[i].t = "data" => backend # "fd" /\ q[i].of <= shell[q[i].pane]
  /\ \A p : \A i, j \in 1..Len(q) : q[i] = ReadEvent(p) /\ q[j] = ReadEvent(p) => i = j

QueueOK(q) == OneEach(q) /\ ZombiesFirst(q) /\ ArrivalsOK(q)
Driven(q) == \A p \in Panes : task[p] # 0 => \E i \in 1..Len(q) : LiveDrain(q[i], p)

\* The reader of a descriptor is detached as long as its pane has a drain.
FlagsOK ==
  /\ backend = "fd" => inRead = {} /\ \A p \in Panes \cap reading : task[p] = 0
  /\ \A p \in Panes \ up : task[p] = 0

DrainInv == Types /\ FlagsOK /\ QueueOK(ready) /\ Driven(ready)

\* An event of each kind has the fields of its kind.
LEMMA EventKinds ==
  ASSUME NEW e \in Events
  PROVE  /\ e.pane \in Panes /\ e.t \in {"read", "data", "eof", "drain"}
         /\ e.t = "read" => e = ReadEvent(e.pane)
         /\ e.t = "data" => e.of \in Nat /\ e.chunks \in Seq(Pieces)
         /\ e.t = "eof" => e.of \in Nat
         /\ e.t = "drain" => /\ e.id \in Nat \ {0} /\ e.started \in BOOLEAN
                             /\ e.cancelled \in BOOLEAN /\ e.rest \in Seq(Pieces)
                             /\ e = Drain(e.pane, e.id, e.started, e.cancelled, e.rest)
<1>1. CASE e.t = "read"
  BY <1>1 DEF Events, ReadEvent
<1>2. CASE e.t = "data"
  BY <1>2 DEF Events
<1>3. CASE e.t = "eof"
  BY <1>3 DEF Events
<1>4. CASE e.t = "drain"
  BY <1>4 DEF Events, Drain
<1> QED BY <1>1, <1>2, <1>3, <1>4 DEF Events

\* Taking events out of the queue disturbs none of this.
LEMMA ThinnedOK ==
  ASSUME NEW q \in Seq(Events), NEW r \in Seq(Events), Thinned(q, r), QueueOK(r)
  PROVE  QueueOK(q)
<1>1. PICK f : Places(q, r, f)
  BY DEF Thinned
<1>2. \A i \in 1..Len(q) : f[i] \in 1..Len(r) /\ q[i] = r[f[i]]
  BY <1>1 DEF Places
<1>3. \A i, j \in 1..Len(q) : f[i] = f[j] => i = j
  <2> SUFFICES ASSUME NEW i \in 1..Len(q), NEW j \in 1..Len(q), i # j
               PROVE  f[i] # f[j]
    OBVIOUS
  <2>1. i < j \/ j < i
    OBVIOUS
  <2>2. f[i] \in Nat /\ f[j] \in Nat
    BY <1>2
  <2> QED BY <1>1, <2>1, <2>2 DEF Places
<1>4. \A i, j \in 1..Len(q) : f[i] < f[j] => i < j
  <2> SUFFICES ASSUME NEW i \in 1..Len(q), NEW j \in 1..Len(q), f[i] < f[j]
               PROVE  i < j
    OBVIOUS
  <2>1. i = j \/ i < j \/ j < i
    OBVIOUS
  <2>2. f[i] \in Nat /\ f[j] \in Nat
    BY <1>2
  <2> QED BY <1>1, <2>1, <2>2 DEF Places
<1>5. OneEach(q)
  <2>1. ASSUME NEW p \in Panes, NEW i \in 1..Len(q), NEW j \in 1..Len(q),
               LiveDrain(q[i], p), LiveDrain(q[j], p)
        PROVE  i = j
    <3>1. f[i] = f[j]
      BY <1>2, <2>1 DEF QueueOK, OneEach
    <3> QED BY <1>3, <3>1
  <2>2. ASSUME NEW p \in Panes, NEW i \in 1..Len(q), LiveDrain(q[i], p)
        PROVE  task[p] = q[i].id
    <3>1. f[i] \in 1..Len(r) /\ LiveDrain(r[f[i]], p) /\ q[i].id = r[f[i]].id
      BY <1>2, <2>2
    <3> QED BY <3>1 DEF QueueOK, OneEach
  <2> QED BY <2>1, <2>2 DEF OneEach
<1>6. ZombiesFirst(q)
  BY <1>2, <1>4 DEF QueueOK, ZombiesFirst
<1>7. ArrivalsOK(q)
  <2>1. ASSUME NEW i \in 1..Len(q)
        PROVE  /\ q[i].t = "read" => backend = "fd" /\ q[i].pane \in up \cap reading
               /\ q[i].t = "data" => backend # "fd" /\ q[i].of <= shell[q[i].pane]
    BY <1>2 DEF QueueOK, ArrivalsOK
  <2>2. ASSUME NEW p, NEW i \in 1..Len(q), NEW j \in 1..Len(q),
               q[i] = ReadEvent(p), q[j] = ReadEvent(p)
        PROVE  i = j
    <3>1. f[i] = f[j]
      BY <1>2, <2>2 DEF QueueOK, ArrivalsOK
    <3> QED BY <1>3, <3>1
  <2> QED BY <2>1, <2>2 DEF ArrivalsOK
<1> QED BY <1>5, <1>6, <1>7 DEF QueueOK

-----------------------------------------------------------------------------
(* Types, step by step.                                                    *)

\* A number for a new drain can be found.
LEMMA FreeIdExists ==
  ASSUME ready \in Seq(Events)
  PROVE  FreeId \in Nat \ {0} /\ FreeId \notin DrainIds /\ IsFiniteSet(DrainIds)
<1> DEFINE D == {i \in 1..Len(ready) : IsDrain(ready[i])}
           f == [i \in D |-> ready[i].id]
<1>1. IsFiniteSet(D)
  <2>1. IsFiniteSet(1..Len(ready))
    BY FS_Interval
  <2> QED BY <2>1, FS_Subset
<1>2. f \in Surjection(D, DrainIds)
  <2>1. ASSUME NEW i \in D
        PROVE  f[i] \in DrainIds
    BY DEF DrainIds, ToSet
  <2>2. ASSUME NEW n \in DrainIds
        PROVE  \E i \in D : f[i] = n
    <3>1. PICK x \in ToSet(ready) : IsDrain(x) /\ n = x.id
      BY <2>2 DEF DrainIds
    <3>2. PICK i \in 1..Len(ready) : ready[i] = x
      BY DEF ToSet
    <3> QED BY <3>1, <3>2
  <2> QED BY <2>1, <2>2 DEF Surjection
<1>3. IsFiniteSet(DrainIds)
  BY <1>1, <1>2, FS_Surjection
<1> DEFINE n == Cardinality(DrainIds)
<1>4. n \in Nat
  BY <1>3, FS_CardinalityType
<1>5. \E i \in 1..(n + 1) : i \notin DrainIds
  <2>1. SUFFICES ASSUME 1..(n + 1) \subseteq DrainIds
                 PROVE  FALSE
    OBVIOUS
  <2>2. Cardinality(1..(n + 1)) = n + 1
    <3>1. 1 \in Int /\ n + 1 \in Int /\ ~(1 > n + 1) /\ (n + 1) - 1 + 1 = n + 1
      BY <1>4
    <3> HIDE DEF n
    <3>2. Cardinality(1..(n + 1)) = IF 1 > n + 1 THEN 0 ELSE (n + 1) - 1 + 1
      BY <3>1, FS_Interval
    <3> QED BY <3>1, <3>2
  <2>3. Cardinality(1..(n + 1)) <= n
    BY <1>3, <2>1, FS_Subset
  <2> QED BY <1>4, <2>2, <2>3
<1> HIDE DEF n
<1>6. FreeId \in 1..(n + 1) /\ FreeId \notin DrainIds
  BY <1>5 DEF FreeId, n
<1> QED BY <1>3, <1>4, <1>6

LEMMA DrainIsEvent ==
  ASSUME NEW p \in Panes, NEW id \in Nat \ {0}, NEW started \in BOOLEAN,
         NEW cancelled \in BOOLEAN, NEW rest \in Seq(Pieces)
  PROVE  Drain(p, id, started, cancelled, rest) \in Events
BY DEF Drain, Events

LEMMA CoalescedTypes ==
  ASSUME NEW STATE p, NEW cs \in Seq(Pieces)
  PROVE  Coalesced(p, cs) \in Seq(Pieces)
BY CoalescedIsSuffix, SuffixOrdered

LEMMA OnPaneDataTypes ==
  ASSUME Types, NEW STATE p, p \in Panes, NEW STATE cs, cs \in Seq(Pieces),
         NEW STATE q, q \in Seq(Events), OnPaneData(p, cs, q)
  PROVE  /\ fed' \in [Panes -> Seq(Pieces)] /\ feedbuf' \in [Panes -> Seq(Pieces)]
         /\ task' \in [Panes -> Nat] /\ ready' \in Seq(Events)
<1>1. /\ fed[p] \o cs \in Seq(Pieces)
      /\ Coalesced(p, feedbuf[p] \o cs) \in Seq(Pieces)
  <2>1. fed[p] \o cs \in Seq(Pieces) /\ feedbuf[p] \o cs \in Seq(Pieces)
    BY DEF Types
  <2> QED BY <2>1, CoalescedTypes
<1>2. CASE JoinDrain(p, cs, q)
  BY <1>1, <1>2 DEF JoinDrain, Types
<1>3. CASE FeedInline(p, cs, q)
  BY <1>1, <1>3 DEF FeedInline, Types
<1>4. CASE BeginDrain(p, cs, q)
  <2>1. FreeId \in Nat \ {0}
    BY FreeIdExists DEF Types
  <2>2. Drain(p, FreeId, FALSE, FALSE, <<>>) \in Events
    <3>1. <<>> \in Seq(Pieces) /\ FALSE \in BOOLEAN
      OBVIOUS
    <3> HIDE DEF Drain
    <3> QED BY <2>1, <3>1, DrainIsEvent
  <2>3. Unread(q, p) \in Seq(Events)
    BY UnreadIsThinned DEF Thinned
  <2>4. ready' \in Seq(Events)
    <3>1. ready' = Append(Unread(q, p), Drain(p, FreeId, FALSE, FALSE, <<>>))
      BY <1>4 DEF BeginDrain
    <3> QED BY <2>2, <2>3, <3>1, AppendEvent
  <2>5. task' \in [Panes -> Nat]
    BY <1>4, <2>1 DEF BeginDrain, Types
  <2>6. fed' \in [Panes -> Seq(Pieces)] /\ feedbuf' \in [Panes -> Seq(Pieces)]
    BY <1>1, <1>4 DEF BeginDrain, Types
  <2> QED BY <2>4, <2>5, <2>6
<1> QED BY <1>2, <1>3, <1>4 DEF OnPaneData

LEMMA StopFeedTypes ==
  ASSUME Types, NEW STATE ps, StopFeed(ps)
  PROVE  task' \in [Panes -> Nat] /\ feedbuf' \in [Panes -> Seq(Pieces)]
<1>1. \A p \in Panes : task[p] \in Nat /\ feedbuf[p] \in Seq(Pieces)
  BY DEF Types
<1>2. 0 \in Nat /\ <<>> \in Seq(Pieces)
  OBVIOUS
<1>3. task' \in [Panes -> Nat]
  BY <1>1, <1>2 DEF StopFeed
<1>4. feedbuf' \in [Panes -> Seq(Pieces)]
  BY <1>1, <1>2 DEF StopFeed
<1> QED BY <1>3, <1>4

LEMMA PaneEofTypes ==
  ASSUME Types, NEW STATE p, NEW STATE q, q \in Seq(Events), PaneEof(p, q)
  PROVE  Types'
<1>1. Cancelled(q, {p}) \in Seq(Events)
  BY CancelledKeeps
<1>2. ready' \in Seq(Events)
  BY <1>1, UnreadIsThinned DEF Thinned, PaneEof
<1>3. task' \in [Panes -> Nat] /\ feedbuf' \in [Panes -> Seq(Pieces)]
  BY StopFeedTypes DEF PaneEof
<1> QED BY <1>2, <1>3 DEF PaneEof, Types, restartVars

\* Which drain runs, and what is left of it.
LEMMA HeadIsEvent ==
  ASSUME Types, ready # <<>>
  PROVE  /\ Head(ready) = ready[1] /\ Head(ready) \in Events /\ 1 \in 1..Len(ready)
         /\ Tail(ready) \in Seq(Events)
BY DEF Types

LEMMA TodoTypes ==
  ASSUME Types, NEW STATE d, d \in Events, d.t = "drain"
  PROVE  Todo(d) \in Seq(Pieces)
BY EventKinds DEF Todo, Types

LEMMA TypesInit == Init => Types
BY FeedAssumption DEF Init, Types, NotSaved

LEMMA TypesKept == Types /\ [Next]_vars => Types'
<1> SUFFICES ASSUME Types, [Next]_vars
             PROVE  Types'
  OBVIOUS
<1>1. ASSUME NEW p \in Panes, ShellExits(p) \/ Select(p) \/ ThreadEnters(p) \/ ThreadEnds(p)
      PROVE  Types'
  <2>1. CASE ShellExits(p)
    BY <2>1 DEF ShellExits, Types, restartVars
  <2>2. CASE Select(p)
    <3>1. ReadEvent(p) \in Events
      BY DEF ReadEvent, Events
    <3> QED BY <2>2, <3>1, AppendEvent DEF Select, Types, restartVars, ptyVars
  <2>3. CASE ThreadEnters(p)
    BY <2>3 DEF ThreadEnters, Types, restartVars, ptyVars
  <2>4. CASE ThreadEnds(p)
    <3>1. PostedEnd(p) \in Events
      BY DEF PostedEnd, Events, Types
    <3> QED BY <2>4, <3>1, AppendEvent DEF ThreadEnds, Types, restartVars, ptyVars
  <2> QED BY <1>1, <2>1, <2>2, <2>3, <2>4
<1>2. ASSUME NEW p \in Panes, ThreadPosts(p)
      PROVE  Types'
  <2>1. PICK cs \in Reads(p) :
          /\ taken' = [taken EXCEPT ![p] = @ + Len(cs)]
          /\ ready' = Append(ready, Posted(p, cs))
    BY <1>2 DEF ThreadPosts
  <2>2. cs \in Seq(Pieces) /\ Len(cs) \in Nat
    BY ReadsOrdered
  <2>3. Posted(p, cs) \in Events
    BY <2>2 DEF Posted, Events, Types
  <2>4. ready' \in Seq(Events) /\ taken' \in [Panes -> Nat]
    BY <2>1, <2>2, <2>3, AppendEvent DEF Types
  <2> QED BY <1>2, <2>4 DEF ThreadPosts, Types, restartVars
<1>3. CASE RunRead
  <2> DEFINE p == Head(ready).pane
  <2>1. p \in Panes /\ Tail(ready) \in Seq(Events)
    BY <1>3, HeadIsEvent, EventKinds DEF RunRead, Runs
  <2>2. CASE PaneEof(p, Tail(ready))
    BY <2>1, <2>2, PaneEofTypes
  <2>3. CASE ~PaneEof(p, Tail(ready))
    <3>1. PICK cs \in Reads(p) :
            /\ taken' = [taken EXCEPT ![p] = @ + Len(cs)]
            /\ OnPaneData(p, cs, Tail(ready))
      BY <1>3, <2>3 DEF RunRead
    <3>2. cs \in Seq(Pieces) /\ Len(cs) \in Nat
      BY <2>1, ReadsOrdered
    <3>3. taken' \in [Panes -> Nat]
      <4>1. taken[p] + Len(cs) \in Nat
        BY <2>1, <3>2 DEF Types
      <4> QED BY <3>1, <4>1 DEF Types
    <3>4. UNCHANGED <<shell, up, saved>>
      BY <1>3, <2>3 DEF RunRead, restartVars
    <3> HIDE DEF p
    <3>5. /\ fed' \in [Panes -> Seq(Pieces)] /\ feedbuf' \in [Panes -> Seq(Pieces)]
          /\ task' \in [Panes -> Nat] /\ ready' \in Seq(Events)
      BY <2>1, <3>1, <3>2, OnPaneDataTypes
    <3> QED BY <3>3, <3>4, <3>5 DEF Types
  <2> QED BY <2>2, <2>3
<1>4. CASE RunData
  <2> DEFINE e == Head(ready)
  <2>1. e \in Events /\ e.t = "data" /\ Tail(ready) \in Seq(Events)
    BY <1>4, HeadIsEvent DEF RunData, Runs
  <2>2. e.pane \in Panes /\ e.chunks \in Seq(Pieces)
    BY <2>1, EventKinds
  <2>3. UNCHANGED <<shell, taken, up, saved>>
    BY <1>4 DEF RunData, ptyVars, restartVars
  <2>4. CASE OnPaneData(e.pane, e.chunks, Tail(ready))
    <3> HIDE DEF e
    <3>1. /\ fed' \in [Panes -> Seq(Pieces)] /\ feedbuf' \in [Panes -> Seq(Pieces)]
          /\ task' \in [Panes -> Nat] /\ ready' \in Seq(Events)
      BY <2>1, <2>2, <2>4, OnPaneDataTypes
    <3> QED BY <2>3, <3>1 DEF Types
  <2>5. CASE ready' = Tail(ready) /\ UNCHANGED <<reading, fed, feedbuf, task>>
    BY <2>1, <2>3, <2>5 DEF Types
  <2> QED BY <1>4, <2>4, <2>5 DEF RunData
<1>5. CASE RunEof
  <2>1. Tail(ready) \in Seq(Events)
    BY <1>5, HeadIsEvent DEF RunEof, Runs
  <2>2. CASE PaneEof(Head(ready).pane, Tail(ready))
    BY <2>1, <2>2, PaneEofTypes
  <2>3. CASE ~PaneEof(Head(ready).pane, Tail(ready))
    BY <1>5, <2>1, <2>3 DEF RunEof, Types, ptyVars, restartVars
  <2> QED BY <2>2, <2>3
<1>6. CASE RunDrain
  <2> DEFINE d == Head(ready)
  <2>1. d \in Events /\ d.t = "drain" /\ Tail(ready) \in Seq(Events)
    BY <1>6, HeadIsEvent DEF RunDrain, Runs
  <2>2. d.pane \in Panes /\ d.id \in Nat \ {0} /\ Todo(d) \in Seq(Pieces)
    BY <2>1, EventKinds, TodoTypes
  <2>3. UNCHANGED <<shell, taken, up, saved>>
    BY <1>6 DEF RunDrain, ptyVars, restartVars
  <2> HIDE DEF d
  <2>4. CASE DrainVanishes(d)
    BY <2>1, <2>3, <2>4 DEF DrainVanishes, Types
  <2>5. CASE DrainStops(d) \/ DrainEnds(d)
    <3>1. /\ task' = [task EXCEPT ![d.pane] = 0]
          /\ ready' = Tail(ready)
          /\ UNCHANGED <<fed, feedbuf>>
      BY <2>5 DEF DrainStops, DrainEnds
    <3>2. task' \in [Panes -> Nat]
      BY <3>1 DEF Types
    <3> QED BY <2>1, <2>3, <3>1, <3>2 DEF Types
  <2>6. CASE DrainSlice(d)
    <3>1. Todo(d) # <<>> /\ Head(Todo(d)) \in Pieces /\ Tail(Todo(d)) \in Seq(Pieces)
      BY <2>2, <2>6 DEF DrainSlice
    <3>2. Drain(d.pane, d.id, TRUE, FALSE, Tail(Todo(d))) \in Events
      BY <2>2, <3>1, DrainIsEvent
    <3>3. ready' \in Seq(Events)
      BY <2>1, <2>6, <3>2, AppendEvent DEF DrainSlice
    <3>4. fed' \in [Panes -> Seq(Pieces)] /\ feedbuf' \in [Panes -> Seq(Pieces)]
      BY <2>2, <2>6, <3>1 DEF DrainSlice, Types
    <3> QED BY <2>3, <2>6, <3>3, <3>4 DEF DrainSlice, Types
  <2> QED BY <1>6, <2>4, <2>5, <2>6 DEF RunDrain, d
<1>7. ASSUME NEW p \in Panes, Respawn(p)
      PROVE  Types'
  <2>1. Cancelled(ready, {p}) \in Seq(Events)
    BY CancelledKeeps DEF Types
  <2>2. ready' \in Seq(Events)
    BY <1>7, <2>1, UnreadIsThinned DEF Thinned, Respawn
  <2>3. task' \in [Panes -> Nat] /\ feedbuf' \in [Panes -> Seq(Pieces)]
    BY <1>7, StopFeedTypes DEF Respawn
  <2>4. shell' \in [Panes -> Nat] /\ taken' \in [Panes -> Nat]
    BY <1>7 DEF Respawn, Types
  <2>5. fed' \in [Panes -> Seq(Pieces)]
    BY <1>7 DEF Respawn, Types
  <2>6. UNCHANGED <<up, saved>>
    BY <1>7 DEF Respawn
  <2> QED BY <2>2, <2>3, <2>4, <2>5, <2>6 DEF Types
<1>8. ASSUME NEW p \in Panes, ClosePane(p)
      PROVE  Types'
  <2>1. ready \in Seq(Events)
    BY DEF Types
  <2> QED BY <1>8, <2>1, PaneEofTypes DEF ClosePane
<1>9. CASE Restart
  <2>1. ready' \in Seq(Events)
    BY <1>9, CancelledKeeps DEF Restart, Types
  <2>2. task' \in [Panes -> Nat] /\ feedbuf' \in [Panes -> Seq(Pieces)]
    BY <1>9, StopFeedTypes DEF Restart
  <2>3. fed' \in [Panes -> Seq(Pieces)]
    <3>1. \A p \in Panes : fed[p] \in Seq(Pieces) /\ fed[p] \o feedbuf[p] \in Seq(Pieces)
      BY DEF Types
    <3> QED BY <1>9, <3>1 DEF Restart
  <2>4. UNCHANGED <<shell, taken, up>>
    BY <1>9 DEF Restart, ptyVars
  <2>5. \A p \in DOMAIN saved' : saved'[p] \in Seq(Pieces)
    <3>1. CASE saved' = saved
      BY <3>1 DEF Types
    <3>2. CASE saved' = [p \in up |-> fed'[p]]
      BY <2>3, <3>2 DEF Types
    <3> QED BY <1>9, <3>1, <3>2 DEF Restart
  <2>6. saved' # NotSaved => up' \subseteq DOMAIN saved'
    BY <1>9, <2>4 DEF Restart
  <2> QED BY <2>1, <2>2, <2>3, <2>4, <2>5, <2>6 DEF Types
<1>10. CASE Exec
  <2>1. \A p \in Panes : IF p \in up THEN saved[p] \in Seq(Pieces) ELSE fed[p] \in Seq(Pieces)
    BY <1>10 DEF Exec, Types
  <2>2. fed' \in [Panes -> Seq(Pieces)]
    BY <1>10, <2>1 DEF Exec
  <2>3. feedbuf' \in [Panes -> Seq(Pieces)] /\ task' \in [Panes -> Nat] /\ ready' \in Seq(Events)
    BY <1>10 DEF Exec
  <2>4. saved' = NotSaved /\ UNCHANGED <<shell, taken, up>>
    BY <1>10 DEF Exec, ptyVars
  <2>5. DOMAIN saved' = {}
    BY <2>4 DEF NotSaved
  <2> QED BY <2>2, <2>3, <2>4, <2>5 DEF Types
<1>11. CASE UNCHANGED vars
  BY <1>11 DEF vars, Types
<1> QED
  BY <1>1, <1>2, <1>3, <1>4, <1>5, <1>6, <1>7, <1>8, <1>9, <1>10, <1>11 DEF Next, RunReady

-----------------------------------------------------------------------------
(* The drains, step by step.                                               *)

\* The queue is q now and nothing else that matters has changed.
LEMMA QueueMoves ==
  ASSUME NEW STATE q, QueueOK(q), Driven(q), ready' = q,
         UNCHANGED <<backend, shell, up, reading, task>>
  PROVE  QueueOK(ready)' /\ Driven(ready)'
<1>1. OneEach(ready)'
  BY DEF QueueOK, OneEach, LiveDrain
<1>2. ZombiesFirst(ready)'
  BY DEF QueueOK, ZombiesFirst, Zombie, Brings
<1>3. ArrivalsOK(ready)'
  BY DEF QueueOK, ArrivalsOK, ReadEvent
<1>4. Driven(ready)'
  BY DEF Driven, LiveDrain
<1> QED BY <1>1, <1>2, <1>3, <1>4 DEF QueueOK

\* Adding an event that is no drain: the arrival of something for an open pane.
LEMMA ArrivalKept ==
  ASSUME DrainInv, NEW STATE e, e \in Events, e.t # "drain", ready' = Append(ready, e),
         UNCHANGED <<backend, shell, up, reading, task>>,
         e.t = "read" => /\ backend = "fd" /\ e.pane \in up \cap reading
                         /\ e \notin ToSet(ready),
         e.t = "data" => backend # "fd" /\ e.of <= shell[e.pane]
  PROVE  QueueOK(ready)' /\ Driven(ready)'
<1>1. /\ ready \in Seq(Events) /\ Len(ready') = Len(ready) + 1
      /\ \A i \in 1..Len(ready) : ready'[i] = ready[i]
      /\ ready'[Len(ready) + 1] = e
  BY AppendEvent DEF DrainInv, Types
<1>2. \A i \in 1..Len(ready') : i \in 1..Len(ready) \/ i = Len(ready) + 1
  BY <1>1
<1>3. OneEach(ready)'
  BY <1>1, <1>2 DEF DrainInv, QueueOK, OneEach, LiveDrain
<1>4. ZombiesFirst(ready)'
  <2> SUFFICES ASSUME NEW p \in up, NEW i \in 1..Len(ready'), Zombie(ready'[i], p)
               PROVE  /\ task[p] = 0
                      /\ \A j \in 1..Len(ready') : Brings(ready'[j], p) => i < j
    BY DEF ZombiesFirst, Zombie, Brings
  <2>1. i \in 1..Len(ready) /\ Zombie(ready[i], p)
    BY <1>1, <1>2 DEF Zombie
  <2>2. task[p] = 0 /\ \A j \in 1..Len(ready) : Brings(ready[j], p) => i < j
    BY <2>1 DEF DrainInv, QueueOK, ZombiesFirst
  <2>3. i < Len(ready) + 1
    BY <1>1, <2>1
  <2> QED BY <1>1, <1>2, <2>2, <2>3
<1>5. ArrivalsOK(ready)'
  <2>1. ASSUME NEW i \in 1..Len(ready')
        PROVE  /\ ready'[i].t = "read" => backend = "fd" /\ ready'[i].pane \in up \cap reading
               /\ ready'[i].t = "data" => backend # "fd" /\ ready'[i].of <= shell[ready'[i].pane]
    BY <1>1, <1>2 DEF DrainInv, QueueOK, ArrivalsOK
  <2>2. ASSUME NEW p, NEW i \in 1..Len(ready'), NEW j \in 1..Len(ready'),
               ready'[i] = ReadEvent(p), ready'[j] = ReadEvent(p)
        PROVE  i = j
    <3>1. CASE e = ReadEvent(p)
      <4>1. e.t = "read"
        BY <3>1 DEF ReadEvent
      <4>2. \A k \in 1..Len(ready) : ready[k] # e
        BY <4>1 DEF ToSet
      <4> QED BY <1>1, <1>2, <2>2, <3>1, <4>2
    <3>2. CASE e # ReadEvent(p)
      <4>1. /\ i \in 1..Len(ready) /\ ready[i] = ReadEvent(p)
            /\ j \in 1..Len(ready) /\ ready[j] = ReadEvent(p)
        BY <1>1, <1>2, <2>2, <3>2
      <4> QED BY <4>1 DEF DrainInv, QueueOK, ArrivalsOK
    <3> QED BY <3>1, <3>2
  <2> QED BY <2>1, <2>2 DEF ArrivalsOK, ReadEvent
<1>6. Driven(ready)'
  BY <1>1 DEF DrainInv, Driven, LiveDrain
<1> QED BY <1>3, <1>4, <1>5, <1>6 DEF QueueOK

\* The queue without its head, when that is no drain of the pane that has one.
LEMMA TailKept ==
  ASSUME DrainInv, ready # <<>>, \A p \in Panes : ~LiveDrain(Head(ready), p)
  PROVE  QueueOK(Tail(ready)) /\ Driven(Tail(ready))
<1>1. ready \in Seq(Events) /\ Tail(ready) \in Seq(Events)
  BY HeadIsEvent DEF DrainInv, Types
<1>2. QueueOK(Tail(ready))
  BY <1>1, TailIsThinned, ThinnedOK DEF DrainInv
<1>3. ASSUME NEW p \in Panes, task[p] # 0
      PROVE  \E i \in 1..Len(Tail(ready)) : LiveDrain(Tail(ready)[i], p)
  <2>1. PICK j \in 1..Len(ready) : LiveDrain(ready[j], p)
    BY <1>3 DEF DrainInv, Driven
  <2>2. ready[j] # Head(ready)
    BY <2>1
  <2>3. \E i \in 1..Len(Tail(ready)) : Tail(ready)[i] = ready[j]
    BY <1>1, <2>2, TailIsThinned DEF Stays
  <2> QED BY <2>1, <2>3
<1> QED BY <1>2, <1>3 DEF Driven

\* Whatever becomes of the chunks that a callback brings, the pane has one
\* drain at most: the callback runs only after the drains that were cancelled.
LEMMA OnPaneDataKept ==
  ASSUME Types, NEW STATE q, q \in Seq(Events), QueueOK(q), Driven(q), FlagsOK,
         NEW STATE p, p \in up, \A i \in 1..Len(q) : ~Zombie(q[i], p),
         NEW STATE cs, OnPaneData(p, cs, q), UNCHANGED <<backend, shell, up, inRead>>
  PROVE  QueueOK(ready)' /\ Driven(ready)' /\ FlagsOK'
<1>0. p \in Panes
  BY DEF Types
<1>1. CASE JoinDrain(p, cs, q) \/ FeedInline(p, cs, q)
  <2>1. ready' = q /\ UNCHANGED <<reading, task>>
    BY <1>1 DEF JoinDrain, FeedInline
  <2> QED BY <2>1, QueueMoves DEF FlagsOK
<1>2. CASE BeginDrain(p, cs, q)
  <2> DEFINE u == Unread(q, p)
             e == Drain(p, FreeId, FALSE, FALSE, <<>>)
  <2>1. /\ task[p] = 0 /\ reading' = reading \ {p}
        /\ task' = [task EXCEPT ![p] = FreeId]
        /\ ready' = Append(u, e)
    BY <1>2 DEF BeginDrain
  <2>2. FreeId \in Nat \ {0}
    BY FreeIdExists DEF Types
  <2>3. e \in Events /\ e.t = "drain" /\ e.pane = p /\ ~e.cancelled /\ e.id = FreeId
    <3>1. <<>> \in Seq(Pieces) /\ FALSE \in BOOLEAN
      OBVIOUS
    <3>2. e \in Events
      <4> HIDE DEF Drain
      <4> QED BY <1>0, <2>2, <3>1, DrainIsEvent
    <3> QED BY <3>2 DEF Drain
  <2> HIDE DEF e
  <2>4. Thinned(u, q) /\ u \in Seq(Events)
    BY UnreadIsThinned DEF Thinned
  <2>5. QueueOK(u)
    BY <2>4, ThinnedOK
  <2>6. \A i \in 1..Len(u) : u[i] # ReadEvent(p)
    BY UnreadIsThinned DEF QueueOK, ArrivalsOK
  <2>7. \A x : x # ReadEvent(p) => Stays(x, u, q)
    BY UnreadIsThinned
  <2>8. \A i \in 1..Len(u) : \E j \in 1..Len(q) : u[i] = q[j]
    BY <2>4 DEF Thinned, Places
  <2>9. \A i \in 1..Len(u) : ~Zombie(u[i], p)
    BY <2>8
  <2>10. \A i \in 1..Len(u) : u[i] \in Events
    BY <2>4
  <2>11. \A i \in 1..Len(u) : ~LiveDrain(u[i], p)
    <3> SUFFICES ASSUME NEW i \in 1..Len(u), LiveDrain(u[i], p)
                 PROVE  FALSE
      OBVIOUS
    <3>1. task[p] = u[i].id
      BY <1>0, <2>5 DEF QueueOK, OneEach
    <3>2. u[i].id # 0
      BY <2>10, EventKinds DEF LiveDrain
    <3> QED BY <2>1, <3>1, <3>2
  <2> HIDE DEF u
  <2>12. /\ Len(ready') = Len(u) + 1
         /\ \A i \in 1..Len(u) : ready'[i] = u[i]
         /\ ready'[Len(u) + 1] = e
    BY <2>1, <2>3, <2>4, AppendEvent
  <2>13. \A i \in 1..Len(ready') : i \in 1..Len(u) \/ i = Len(u) + 1
    BY <2>4, <2>12
  <2>14. task'[p] = FreeId /\ \A r \in Panes : r # p => task'[r] = task[r]
    BY <1>0, <2>1 DEF Types
  <2>15. OneEach(ready)'
    <3>1. ASSUME NEW r \in Panes, NEW i \in 1..Len(ready'), NEW j \in 1..Len(ready'),
                 LiveDrain(ready'[i], r), LiveDrain(ready'[j], r)
          PROVE  i = j
      <4>1. CASE r = p
        BY <2>11, <2>12, <2>13, <3>1, <4>1
      <4>2. CASE r # p
        <5>1. i \in 1..Len(u) /\ j \in 1..Len(u) /\ ready'[i] = u[i] /\ ready'[j] = u[j]
          BY <2>3, <2>12, <2>13, <3>1, <4>2 DEF LiveDrain
        <5> QED BY <2>5, <3>1, <5>1 DEF QueueOK, OneEach
      <4> QED BY <4>1, <4>2
    <3>2. ASSUME NEW r \in Panes, NEW i \in 1..Len(ready'), LiveDrain(ready'[i], r)
          PROVE  task'[r] = ready'[i].id
      <4>1. CASE r = p
        BY <2>3, <2>11, <2>12, <2>13, <2>14, <3>2, <4>1
      <4>2. CASE r # p
        <5>1. i \in 1..Len(u) /\ ready'[i] = u[i]
          BY <2>3, <2>12, <2>13, <3>2, <4>2 DEF LiveDrain
        <5> QED BY <2>5, <2>14, <3>2, <4>2, <5>1 DEF QueueOK, OneEach
      <4> QED BY <4>1, <4>2
    <3> QED BY <3>1, <3>2 DEF OneEach, LiveDrain
  <2>16. ZombiesFirst(ready)'
    <3> SUFFICES ASSUME NEW r \in up, NEW i \in 1..Len(ready'), Zombie(ready'[i], r)
                 PROVE  /\ task'[r] = 0
                        /\ \A j \in 1..Len(ready') : Brings(ready'[j], r) => i < j
      BY DEF ZombiesFirst, Zombie, Brings
    <3>1. i \in 1..Len(u) /\ Zombie(u[i], r) /\ r # p /\ r \in Panes
      BY <2>3, <2>9, <2>12, <2>13 DEF Zombie, Types
    <3>2. task[r] = 0 /\ \A j \in 1..Len(u) : Brings(u[j], r) => i < j
      BY <2>5, <3>1 DEF QueueOK, ZombiesFirst
    <3>3. ~Brings(e, r)
      BY <2>3 DEF Brings
    <3> QED BY <2>12, <2>13, <2>14, <3>1, <3>2, <3>3
  <2>17. ArrivalsOK(ready)'
    <3>1. ASSUME NEW i \in 1..Len(ready')
          PROVE  /\ ready'[i].t = "read" => backend = "fd" /\ ready'[i].pane \in up \cap reading'
                 /\ ready'[i].t = "data" => backend # "fd" /\ ready'[i].of <= shell[ready'[i].pane]
      <4>1. CASE i = Len(u) + 1
        BY <2>3, <2>12, <4>1
      <4>2. CASE i \in 1..Len(u)
        <5>1. /\ u[i].t = "read" => backend = "fd" /\ u[i].pane \in up \cap reading
              /\ u[i].t = "data" => backend # "fd" /\ u[i].of <= shell[u[i].pane]
          BY <2>5, <4>2 DEF QueueOK, ArrivalsOK
        <5>2. u[i].t = "read" => u[i].pane # p
          BY <2>6, <2>10, <4>2, EventKinds
        <5> QED BY <2>1, <2>12, <4>2, <5>1, <5>2
      <4> QED BY <2>13, <4>1, <4>2
    <3>2. ASSUME NEW r, NEW i \in 1..Len(ready'), NEW j \in 1..Len(ready'),
                 ready'[i] = ReadEvent(r), ready'[j] = ReadEvent(r)
          PROVE  i = j
      <4>1. e # ReadEvent(r)
        BY <2>3 DEF ReadEvent
      <4>2. /\ i \in 1..Len(u) /\ u[i] = ReadEvent(r)
            /\ j \in 1..Len(u) /\ u[j] = ReadEvent(r)
        BY <2>12, <2>13, <3>2, <4>1
      <4> QED BY <2>5, <4>2 DEF QueueOK, ArrivalsOK
    <3> QED BY <3>1, <3>2 DEF ArrivalsOK, ReadEvent
  <2>18. Driven(ready)'
    <3> SUFFICES ASSUME NEW r \in Panes, task'[r] # 0
                 PROVE  \E i \in 1..Len(ready') : LiveDrain(ready'[i], r)
      BY DEF Driven, LiveDrain
    <3>1. CASE r = p
      <4>1. LiveDrain(e, p) /\ Len(u) + 1 \in 1..Len(ready')
        BY <2>3, <2>4, <2>12 DEF LiveDrain
      <4> QED BY <2>12, <3>1, <4>1
    <3>2. CASE r # p
      <4>1. PICK j \in 1..Len(q) : LiveDrain(q[j], r)
        BY <2>14, <3>2 DEF Driven
      <4>2. q[j] # ReadEvent(p)
        BY <4>1 DEF LiveDrain, ReadEvent
      <4>3. PICK i \in 1..Len(u) : u[i] = q[j]
        BY <2>7, <4>2 DEF Stays
      <4>4. i \in 1..Len(ready') /\ ready'[i] = q[j]
        BY <2>4, <2>12, <4>3
      <4> QED BY <4>1, <4>4
    <3> QED BY <3>1, <3>2
  <2>19. FlagsOK'
    <3>1. backend = "fd" => \A r \in Panes \cap reading' : task'[r] = 0
      BY <2>1, <2>14 DEF FlagsOK, Types
    <3>2. \A r \in Panes \ up : task'[r] = 0
      BY <2>14 DEF FlagsOK
    <3> QED BY <3>1, <3>2 DEF FlagsOK
  <2> QED BY <2>15, <2>16, <2>17, <2>18, <2>19 DEF QueueOK
<1> QED BY <1>1, <1>2 DEF OnPaneData

\* What stopping the feed of some panes leaves of a queue.  No drain of these
\* panes is live any more; the other events are as they were.
LEMMA CancelledOK ==
  ASSUME Types, NEW STATE q, q \in Seq(Events), QueueOK(q), NEW STATE ps, ps \subseteq Panes,
         NEW STATE c, c = Cancelled(q, ps)
  PROVE  /\ c \in Seq(Events) /\ Len(c) = Len(q)
         /\ \A i \in 1..Len(q) : c[i] = q[i] \/ (c[i].t = "drain" /\ q[i].t = "drain")
         /\ \A i \in 1..Len(q) : \A p \in Panes :
              LiveDrain(c[i], p) <=> LiveDrain(q[i], p) /\ p \notin ps
         /\ \A i \in 1..Len(q) : \A p \in Panes :
              LiveDrain(q[i], p) /\ p \notin ps => c[i] = q[i]
         /\ \A i \in 1..Len(q) : \A p \in Panes :
              Zombie(c[i], p) => Zombie(q[i], p) \/ (p \in ps /\ task[p] # 0)
<1>1. /\ c \in Seq(Events) /\ Len(c) = Len(q)
      /\ \A i \in 1..Len(q) :
           \/ c[i] = q[i] /\ ~(q[i].t = "drain" /\ q[i].pane \in ps /\ q[i].id = task[q[i].pane])
           \/ /\ q[i].t = "drain" /\ q[i].pane \in ps /\ q[i].id = task[q[i].pane]
              /\ c[i] = [q[i] EXCEPT !.cancelled = TRUE]
  BY CancelledKeeps
<1>2. ASSUME NEW i \in 1..Len(q)
      PROVE  /\ c[i] = q[i] \/ (c[i].t = "drain" /\ q[i].t = "drain")
             /\ \A p \in Panes : LiveDrain(c[i], p) <=> LiveDrain(q[i], p) /\ p \notin ps
             /\ \A p \in Panes : LiveDrain(q[i], p) /\ p \notin ps => c[i] = q[i]
             /\ \A p \in Panes : Zombie(c[i], p) => Zombie(q[i], p) \/ (p \in ps /\ task[p] # 0)
  <2>0. q[i] \in Events
    OBVIOUS
  <2>1. \A p \in Panes : LiveDrain(q[i], p) => task[p] = q[i].id
    BY DEF QueueOK, OneEach
  <2>2. CASE c[i] = q[i] /\ ~(q[i].t = "drain" /\ q[i].pane \in ps /\ q[i].id = task[q[i].pane])
    BY <2>1, <2>2 DEF LiveDrain
  <2>3. CASE /\ q[i].t = "drain" /\ q[i].pane \in ps /\ q[i].id = task[q[i].pane]
             /\ c[i] = [q[i] EXCEPT !.cancelled = TRUE]
    <3>1. q[i].id # 0 /\ q[i] = Drain(q[i].pane, q[i].id, q[i].started, q[i].cancelled, q[i].rest)
      BY <2>0, <2>3, EventKinds
    <3>2. /\ c[i].t = "drain" /\ c[i].pane = q[i].pane /\ c[i].cancelled = TRUE
          /\ c[i].started = q[i].started
      BY <2>3, <3>1 DEF Drain
    <3> QED BY <2>1, <2>3, <3>1, <3>2 DEF LiveDrain, Zombie
  <2> QED BY <1>1, <2>2, <2>3
<1> QED BY <1>1, <1>2

\* The feed of p stops, its reader is taken off the queue, and the pane is gone
\* or has a new shell: nothing is left that could touch it.
LEMMA StopKept ==
  ASSUME Types, NEW STATE q, q \in Seq(Events), QueueOK(q), Driven(q), FlagsOK,
         NEW STATE p, p \in Panes, StopFeed({p}),
         ready' = Unread(Cancelled(q, {p}), p),
         UNCHANGED backend, inRead' \subseteq inRead,
         \A r \in Panes \ {p} : shell'[r] = shell[r] /\ (r \in up' <=> r \in up)
                              /\ (r \in reading' <=> r \in reading),
         shell'[p] \in {shell[p], shell[p] + 1}, p \in up' => shell'[p] = shell[p] + 1,
         up' \subseteq Panes
  PROVE  QueueOK(ready)' /\ Driven(ready)' /\ FlagsOK'
<1> DEFINE c == Cancelled(q, {p})
<1>1. /\ c \in Seq(Events) /\ Len(c) = Len(q)
      /\ \A i \in 1..Len(q) : c[i] = q[i] \/ (c[i].t = "drain" /\ q[i].t = "drain")
      /\ \A i \in 1..Len(q) : \A r \in Panes :
           LiveDrain(c[i], r) <=> LiveDrain(q[i], r) /\ r \notin {p}
      /\ \A i \in 1..Len(q) : \A r \in Panes :
           LiveDrain(q[i], r) /\ r \notin {p} => c[i] = q[i]
      /\ \A i \in 1..Len(q) : \A r \in Panes :
           Zombie(c[i], r) => Zombie(q[i], r) \/ (r \in {p} /\ task[r] # 0)
  BY CancelledOK
<1> HIDE DEF c
<1>2. \A i, j \in 1..Len(c) : \A r : c[i] = ReadEvent(r) /\ c[j] = ReadEvent(r) => i = j
  <2> SUFFICES ASSUME NEW i \in 1..Len(c), NEW j \in 1..Len(c), NEW r,
                      c[i] = ReadEvent(r), c[j] = ReadEvent(r)
               PROVE  i = j
    OBVIOUS
  <2>1. q[i] = ReadEvent(r) /\ q[j] = ReadEvent(r)
    BY <1>1 DEF ReadEvent
  <2> QED BY <1>1, <2>1 DEF QueueOK, ArrivalsOK
<1>3. ready' = Unread(c, p)
  BY DEF c
<1>4. /\ Thinned(ready', c)
      /\ \A e : e # ReadEvent(p) => Stays(e, ready', c)
      /\ \A i \in 1..Len(ready') : ready'[i] # ReadEvent(p)
  <2> DEFINE u == Unread(c, p)
  <2>1. /\ Thinned(u, c)
        /\ \A e : e # ReadEvent(p) => Stays(e, u, c)
        /\ \A i \in 1..Len(u) : u[i] # ReadEvent(p)
    BY <1>1, <1>2, UnreadIsThinned
  <2> HIDE DEF u
  <2>2. ready' = u
    BY <1>3 DEF u
  <2> QED BY <2>1, <2>2
<1>5. PICK f : Places(ready', c, f)
  BY <1>4 DEF Thinned
<1>6. /\ \A i \in 1..Len(ready') : f[i] \in 1..Len(q) /\ ready'[i] = c[f[i]] /\ ready'[i] \in Events
      /\ \A i, j \in 1..Len(ready') : i < j => f[i] < f[j]
      /\ \A i \in 1..Len(ready') : i \in Nat /\ f[i] \in Nat
  <2>1. ready' \in Seq(Events)
    BY <1>4 DEF Thinned
  <2>2. /\ \A i \in 1..Len(ready') : f[i] \in 1..Len(c) /\ ready'[i] = c[f[i]]
        /\ \A i, j \in 1..Len(ready') : i < j => f[i] < f[j]
    BY <1>5 DEF Places
  <2>3. \A i \in 1..Len(ready') : i \in Nat /\ f[i] \in Nat /\ ready'[i] \in Events
    <3>1. Len(c) \in Nat /\ \A i \in 1..Len(c) : i \in Nat
      BY <1>1
    <3>2. Len(ready') \in Nat /\ \A i \in 1..Len(ready') : i \in Nat /\ ready'[i] \in Events
      BY <2>1, QueueItems
    <3> QED BY <2>2, <3>1, <3>2
  <2> QED BY <1>1, <2>2, <2>3
<1>7. task'[p] = 0 /\ \A r \in Panes : r # p => task'[r] = task[r]
  BY DEF StopFeed
<1> DEFINE Back(i, j) == (f[i] = f[j] => i = j) /\ (f[i] < f[j] => i < j)
<1>0. ASSUME NEW i \in 1..Len(ready'), NEW j \in 1..Len(ready')
      PROVE  Back(i, j)
  <2>1. i = j \/ i < j \/ j < i
    BY <1>6
  <2>2. f[i] \in Nat /\ f[j] \in Nat
    BY <1>6
  <2>3. (i < j => f[i] < f[j]) /\ (j < i => f[j] < f[i])
    BY <1>6
  <2> QED BY <2>1, <2>2, <2>3
<1>8. OneEach(ready)'
  <2>1. ASSUME NEW r \in Panes, NEW i \in 1..Len(ready'), NEW j \in 1..Len(ready'),
               LiveDrain(ready'[i], r), LiveDrain(ready'[j], r)
        PROVE  i = j
    <3>1. LiveDrain(q[f[i]], r) /\ LiveDrain(q[f[j]], r)
      BY <1>1, <1>6, <2>1
    <3>2. f[i] = f[j]
      BY <1>6, <3>1 DEF QueueOK, OneEach
    <3> QED BY <1>0, <3>2
  <2>2. ASSUME NEW r \in Panes, NEW i \in 1..Len(ready'), LiveDrain(ready'[i], r)
        PROVE  task'[r] = ready'[i].id
    <3>1. LiveDrain(c[f[i]], r) /\ f[i] \in 1..Len(q)
      BY <1>6, <2>2
    <3>2. LiveDrain(q[f[i]], r) /\ r # p
      BY <1>1, <3>1
    <3>3. c[f[i]] = q[f[i]]
      BY <1>1, <3>1, <3>2
    <3>4. task[r] = q[f[i]].id
      BY <3>1, <3>2 DEF QueueOK, OneEach
    <3> QED BY <1>6, <1>7, <3>2, <3>3, <3>4
  <2> QED BY <2>1, <2>2, ZenonT(30) DEF OneEach, LiveDrain
<1>9. ZombiesFirst(ready)'
  <2> SUFFICES ASSUME NEW r \in up', NEW i \in 1..Len(ready'), Zombie(ready'[i], r)
               PROVE  /\ task'[r] = 0
                      /\ \A j \in 1..Len(ready') : Brings(ready[j], r)' => i < j
    BY DEF ZombiesFirst, Zombie, Brings
  <2>0. r \in Panes
    OBVIOUS
  <2>1. CASE r = p
    <3>1. ASSUME NEW j \in 1..Len(ready'), Brings(ready[j], r)'
          PROVE  FALSE
      <4>1. ready'[j].pane = p /\ (ready'[j].t = "read" \/ (ready'[j].t = "data" /\ ready'[j].of = shell'[p]))
        BY <2>1, <3>1 DEF Brings
      <4>2. ready'[j].t # "read"
        BY <1>4, <1>6, <4>1, EventKinds
      <4>3. f[j] \in 1..Len(q) /\ ready'[j] = q[f[j]]
        BY <1>1, <1>6, <4>1
      <4>4. ready'[j].of <= shell[p]
        BY <4>1, <4>2, <4>3 DEF QueueOK, ArrivalsOK
      <4>5. shell'[p] = shell[p] + 1 /\ shell[p] \in Nat
        BY <2>1 DEF Types
      <4> QED BY <4>1, <4>2, <4>4, <4>5
    <3> QED BY <1>7, <2>1, <3>1
  <2>2. CASE r # p
    <3>1. r \in up /\ shell'[r] = shell[r]
      BY <2>0, <2>2
    <3>2. f[i] \in 1..Len(q) /\ Zombie(q[f[i]], r)
      BY <1>1, <1>6, <2>0, <2>2
    <3>3. task[r] = 0 /\ \A j \in 1..Len(q) : Brings(q[j], r) => f[i] < j
      BY <3>1, <3>2 DEF QueueOK, ZombiesFirst
    <3>4. ASSUME NEW j \in 1..Len(ready'), Brings(ready[j], r)'
          PROVE  i < j
      <4>0. ready'[j].t \in {"read", "data"} /\ ready'[j] = c[f[j]] /\ f[j] \in 1..Len(q)
        BY <1>6, <3>4 DEF Brings
      <4>1. f[j] \in 1..Len(q) /\ Brings(q[f[j]], r)
        BY <1>1, <3>1, <3>4, <4>0 DEF Brings
      <4>2. f[i] < f[j]
        BY <3>3, <4>1
      <4> QED BY <1>0, <4>2
    <3> QED BY <1>7, <2>0, <2>2, <3>3, <3>4
  <2> QED BY <2>1, <2>2
<1>10. ArrivalsOK(ready)'
  <2>1. ASSUME NEW i \in 1..Len(ready')
        PROVE  /\ ready'[i].t = "read" => backend' = "fd" /\ ready'[i].pane \in up' \cap reading'
               /\ ready'[i].t = "data" => backend' # "fd" /\ ready'[i].of <= shell'[ready'[i].pane]
    <3>1. f[i] \in 1..Len(q) /\ ready'[i].pane \in Panes
      BY <1>6, EventKinds
    <3>2. CASE ready'[i].t = "read"
      <4>1. ready'[i] = q[f[i]] /\ ready'[i].pane # p
        <5>1. ready'[i] = c[f[i]] /\ ready'[i] \in Events /\ f[i] \in 1..Len(q)
          BY <1>6
        <5>2. c[f[i]] = q[f[i]]
          BY <1>1, <3>2, <5>1
        <5>3. ready'[i] = ReadEvent(ready'[i].pane)
          BY <3>2, <5>1, EventKinds
        <5> QED BY <1>4, <5>1, <5>2, <5>3
      <4>2. backend = "fd" /\ ready'[i].pane \in up \cap reading
        BY <3>1, <3>2, <4>1 DEF QueueOK, ArrivalsOK
      <4> QED BY <3>1, <3>2, <4>1, <4>2
    <3>3. CASE ready'[i].t = "data"
      <4>1. ready'[i] = q[f[i]]
        BY <1>1, <1>6, <3>3
      <4>2. backend # "fd" /\ ready'[i].of <= shell[ready'[i].pane] /\ ready'[i].of \in Nat
        BY <1>6, <3>1, <3>3, <4>1, EventKinds DEF QueueOK, ArrivalsOK
      <4>3. ready'[i].pane # p => shell'[ready'[i].pane] = shell[ready'[i].pane]
        BY <3>1
      <4>4. CASE ready'[i].pane # p
        BY <3>3, <4>2, <4>3, <4>4
      <4>5. CASE ready'[i].pane = p
        BY <3>3, <4>2, <4>5 DEF Types
      <4> QED BY <4>4, <4>5
    <3> QED BY <3>2, <3>3
  <2>2. ASSUME NEW r, NEW i \in 1..Len(ready'), NEW j \in 1..Len(ready'),
               ready'[i] = ReadEvent(r), ready'[j] = ReadEvent(r)
        PROVE  i = j
    <3>1. /\ f[i] \in 1..Len(c) /\ c[f[i]] = ReadEvent(r)
          /\ f[j] \in 1..Len(c) /\ c[f[j]] = ReadEvent(r)
      BY <1>1, <1>6, <2>2
    <3>2. f[i] = f[j]
      BY <1>2, <3>1
    <3> QED BY <1>0, <3>2
  <2> QED BY <2>1, <2>2 DEF ArrivalsOK, ReadEvent
<1>11. Driven(ready)'
  <2> SUFFICES ASSUME NEW r \in Panes, task'[r] # 0
               PROVE  \E i \in 1..Len(ready') : LiveDrain(ready'[i], r)
    BY DEF Driven, LiveDrain
  <2>1. r # p /\ task[r] # 0
    BY <1>7
  <2>2. PICK j \in 1..Len(q) : LiveDrain(q[j], r)
    BY <2>1 DEF Driven
  <2>3. j \in 1..Len(c) /\ c[j] = q[j]
    BY <1>1, <2>1, <2>2
  <2>4. c[j] # ReadEvent(p)
    BY <2>2, <2>3 DEF LiveDrain, ReadEvent
  <2>5. \E i \in 1..Len(ready') : ready'[i] = c[j]
    BY <1>4, <2>3, <2>4 DEF Stays
  <2> QED BY <2>2, <2>3, <2>5
<1>12. FlagsOK'
  <2>1. backend' = "fd" => inRead' = {} /\ \A r \in Panes \cap reading' : task'[r] = 0
    BY <1>7 DEF FlagsOK
  <2>2. \A r \in Panes \ up' : task'[r] = 0
    BY <1>7 DEF FlagsOK
  <2> QED BY <2>1, <2>2 DEF FlagsOK
<1> QED BY <1>8, <1>9, <1>10, <1>11, <1>12 DEF QueueOK

\* A restart cancels every drain.  The PTYs are descriptors then, and a pane
\* with a drain is detached: no read of it waits in the queue.
LEMMA RestartKept ==
  ASSUME DrainInv, Restart
  PROVE  QueueOK(ready)' /\ Driven(ready)' /\ FlagsOK'
<1> DEFINE c == Cancelled(ready, up)
<1>0. ready \in Seq(Events) /\ up \subseteq Panes
  BY DEF DrainInv, Types
<1>1. /\ c \in Seq(Events) /\ Len(c) = Len(ready)
      /\ \A i \in 1..Len(ready) : c[i] = ready[i] \/ (c[i].t = "drain" /\ ready[i].t = "drain")
      /\ \A i \in 1..Len(ready) : \A p \in Panes :
           LiveDrain(c[i], p) <=> LiveDrain(ready[i], p) /\ p \notin up
      /\ \A i \in 1..Len(ready) : \A p \in Panes :
           Zombie(c[i], p) => Zombie(ready[i], p) \/ (p \in up /\ task[p] # 0)
  BY <1>0, CancelledOK DEF DrainInv
<1>2. ready' = c /\ backend = "fd" /\ UNCHANGED <<backend, shell, up, reading, inRead>>
  BY DEF Restart, ptyVars, readVars
<1> HIDE DEF c
<1>3. \A p \in Panes : task'[p] = 0
  BY DEF Restart, StopFeed, DrainInv, FlagsOK
<1>4. ASSUME NEW i \in 1..Len(ready'), NEW p \in Panes
      PROVE  ~LiveDrain(ready'[i], p)
  <2> SUFFICES ASSUME LiveDrain(ready'[i], p) PROVE FALSE
    OBVIOUS
  <2>1. i \in 1..Len(ready) /\ LiveDrain(ready[i], p) /\ p \notin up
    BY <1>1, <1>2
  <2>2. task[p] = ready[i].id /\ task[p] = 0
    BY <2>1 DEF DrainInv, QueueOK, OneEach, FlagsOK
  <2>3. ready[i] \in Events /\ ready[i].t = "drain"
    BY <1>0, <2>1, QueueItems DEF LiveDrain
  <2> QED BY <2>2, <2>3, EventKinds
<1>5. OneEach(ready)'
  BY <1>4 DEF OneEach, LiveDrain
<1>6. ASSUME NEW p \in up, NEW j \in 1..Len(ready'), Brings(ready[j], p)'
      PROVE  ready[j] = ready'[j] /\ Brings(ready[j], p) /\ task[p] = 0
  <2>1. ready'[j].t \in {"read", "data"} /\ j \in 1..Len(ready)
    BY <1>1, <1>2, <1>6 DEF Brings
  <2>2. ready'[j] = ready[j]
    BY <1>1, <1>2, <2>1
  <2>3. Brings(ready[j], p)
    BY <1>2, <1>6, <2>2 DEF Brings
  <2>4. ready[j].t = "read" /\ p \in reading
    BY <1>2, <2>1, <2>2, <2>3 DEF DrainInv, QueueOK, ArrivalsOK, Brings
  <2>5. task[p] = 0
    BY <1>0, <1>2, <2>4 DEF DrainInv, FlagsOK
  <2> QED BY <2>2, <2>3, <2>5
<1>7. ZombiesFirst(ready)'
  <2> SUFFICES ASSUME NEW p \in up', NEW i \in 1..Len(ready'), Zombie(ready'[i], p)
               PROVE  /\ task'[p] = 0
                      /\ \A j \in 1..Len(ready') : Brings(ready[j], p)' => i < j
    BY DEF ZombiesFirst, Zombie, Brings
  <2>0. p \in up /\ p \in Panes /\ i \in 1..Len(ready)
    BY <1>0, <1>1, <1>2
  <2>1. ASSUME NEW j \in 1..Len(ready'), Brings(ready[j], p)'
        PROVE  i < j
    <3>1. Brings(ready[j], p) /\ task[p] = 0 /\ j \in 1..Len(ready)
      BY <1>1, <1>2, <1>6, <2>0, <2>1
    <3>2. Zombie(ready[i], p)
      BY <1>1, <1>2, <2>0, <3>1
    <3> QED BY <2>0, <3>1, <3>2 DEF DrainInv, QueueOK, ZombiesFirst
  <2> QED BY <1>3, <2>0, <2>1
<1>8. ArrivalsOK(ready)'
  <2>1. ASSUME NEW i \in 1..Len(ready')
        PROVE  /\ ready'[i].t = "read" => backend' = "fd" /\ ready'[i].pane \in up' \cap reading'
               /\ ready'[i].t = "data" => backend' # "fd" /\ ready'[i].of <= shell'[ready'[i].pane]
    <3>1. i \in 1..Len(ready)
      BY <1>1, <1>2
    <3>2. CASE ready'[i] = ready[i]
      BY <1>2, <3>1, <3>2 DEF DrainInv, QueueOK, ArrivalsOK
    <3>3. CASE ready'[i].t = "drain"
      BY <3>3
    <3> QED BY <1>1, <1>2, <3>1, <3>2, <3>3
  <2>2. ASSUME NEW p, NEW i \in 1..Len(ready'), NEW j \in 1..Len(ready'),
               ready'[i] = ReadEvent(p), ready'[j] = ReadEvent(p)
        PROVE  i = j
    <3>1. ready[i] = ReadEvent(p) /\ ready[j] = ReadEvent(p)
      BY <1>1, <1>2, <2>2 DEF ReadEvent
    <3> QED BY <1>1, <1>2, <3>1 DEF DrainInv, QueueOK, ArrivalsOK
  <2> QED BY <2>1, <2>2 DEF ArrivalsOK, ReadEvent
<1>9. Driven(ready)' /\ FlagsOK'
  BY <1>2, <1>3 DEF Driven, FlagsOK, DrainInv
<1> QED BY <1>5, <1>7, <1>8, <1>9 DEF QueueOK

LEMMA TailItems ==
  ASSUME NEW q \in Seq(Events), q # <<>>
  PROVE  /\ Tail(q) \in Seq(Events) /\ Len(Tail(q)) = Len(q) - 1
         /\ \A i \in 1..Len(Tail(q)) : i + 1 \in 1..Len(q) /\ Tail(q)[i] = q[i + 1]
         /\ \A i \in 1..Len(q) : i # 1 => i - 1 \in 1..Len(Tail(q)) /\ Tail(q)[i - 1] = q[i]
         /\ Head(q) = q[1] /\ 1 \in 1..Len(q)
OBVIOUS

\* No drain that was cancelled is left when a callback brings chunks.
LEMMA NoZombieBehind ==
  ASSUME DrainInv, ready # <<>>, NEW STATE p, p \in up, Brings(Head(ready), p)
  PROVE  \A i \in 1..Len(Tail(ready)) : ~Zombie(Tail(ready)[i], p)
<1>1. ready \in Seq(Events)
  BY DEF DrainInv, Types
<1> SUFFICES ASSUME NEW i \in 1..Len(Tail(ready)), Zombie(Tail(ready)[i], p)
             PROVE  FALSE
  OBVIOUS
<1>2. /\ i + 1 \in 1..Len(ready) /\ Zombie(ready[i + 1], p)
      /\ 1 \in 1..Len(ready) /\ Brings(ready[1], p) /\ i \in Nat
  BY <1>1, TailItems
<1>3. i + 1 < 1
  BY <1>2 DEF DrainInv, QueueOK, ZombiesFirst
<1> QED BY <1>2, <1>3

\* A turn of a drain.  d is the head of the queue.
LEMMA DrainTurnKept ==
  ASSUME DrainInv, RunDrain
  PROVE  QueueOK(ready)' /\ Driven(ready)' /\ FlagsOK'
<1> DEFINE d == Head(ready)
<1>1. /\ ready \in Seq(Events) /\ ready # <<>> /\ d = ready[1] /\ d \in Events
      /\ d.t = "drain" /\ UNCHANGED <<backend, shell, up, inRead>>
  BY HeadIsEvent DEF DrainInv, Types, RunDrain, Runs, ptyVars
<1>2. /\ d.pane \in Panes /\ d.id \in Nat \ {0} /\ d.cancelled \in BOOLEAN
      /\ d.started \in BOOLEAN /\ task \in [Panes -> Nat]
  BY <1>1, EventKinds DEF DrainInv, Types
<1>3. DrainVanishes(d) \/ DrainStops(d) \/ DrainSlice(d) \/ DrainEnds(d)
  BY DEF RunDrain
<1> DEFINE q == Tail(ready)
<1>4. /\ q \in Seq(Events) /\ Len(q) = Len(ready) - 1 /\ Len(ready) \in Nat
      /\ \A i \in 1..Len(q) : i \in Nat /\ i + 1 \in 1..Len(ready) /\ q[i] = ready[i + 1]
      /\ \A i \in 1..Len(ready) : i # 1 => i - 1 \in 1..Len(q) /\ q[i - 1] = ready[i]
      /\ 1 \in 1..Len(ready)
  BY <1>1, TailItems
<1> HIDE DEF d, q
<1>5. CASE d.cancelled
  <2>1. \A p \in Panes : ~LiveDrain(d, p)
    BY <1>5 DEF LiveDrain
  <2>2. QueueOK(q) /\ Driven(q)
    BY <1>1, <2>1, TailKept DEF d, q
  <2>3. task' = task
    <3>1. CASE DrainVanishes(d)
      BY <3>1 DEF DrainVanishes
    <3>2. CASE DrainStops(d)
      <4>1. Zombie(ready[1], d.pane)
        BY <1>1, <3>2 DEF DrainStops, Zombie
      <4>2. task[d.pane] = 0
        BY <1>2, <1>4, <4>1 DEF DrainInv, QueueOK, ZombiesFirst, FlagsOK
      <4>3. task' = [task EXCEPT ![d.pane] = 0]
        BY <3>2 DEF DrainStops
      <4> QED BY <1>2, <4>2, <4>3
    <3> QED BY <1>3, <1>5, <3>1, <3>2 DEF DrainSlice, DrainEnds
  <2>4. ready' = q /\ reading' = reading
    BY <1>3, <1>5 DEF DrainVanishes, DrainStops, DrainSlice, DrainEnds, q
  <2>5. QueueOK(ready)' /\ Driven(ready)'
    BY <1>1, <2>2, <2>3, <2>4, QueueMoves
  <2> QED BY <1>1, <2>3, <2>4, <2>5 DEF FlagsOK, DrainInv
<1>6. CASE ~d.cancelled
  <2>1. LiveDrain(ready[1], d.pane)
    BY <1>1, <1>6 DEF LiveDrain
  <2>2. ASSUME NEW i \in 1..Len(q), NEW p \in Panes, LiveDrain(q[i], p)
        PROVE  p # d.pane /\ task[p] = q[i].id
    <3>1. i + 1 \in 1..Len(ready) /\ LiveDrain(ready[i + 1], p) /\ i + 1 # 1
      BY <1>4, <2>2
    <3>2. task[p] = q[i].id
      BY <1>4, <3>1 DEF DrainInv, QueueOK, OneEach
    <3>3. p # d.pane
      BY <1>2, <1>4, <2>1, <3>1 DEF DrainInv, QueueOK, OneEach
    <3> QED BY <3>2, <3>3
  <2>3. QueueOK(q)
    <3>1. Thinned(q, ready)
      BY <1>1, TailIsThinned DEF q
    <3> QED BY <1>1, <1>4, <3>1, ThinnedOK DEF DrainInv
  <2>4. ASSUME NEW p \in Panes, p # d.pane, task[p] # 0
        PROVE  \E i \in 1..Len(q) : LiveDrain(q[i], p)
    <3>1. PICK j \in 1..Len(ready) : LiveDrain(ready[j], p)
      BY <2>4 DEF DrainInv, Driven
    <3>2. j # 1
      BY <2>1, <2>4, <3>1 DEF LiveDrain
    <3> QED BY <1>4, <3>1, <3>2
  <2>5. CASE DrainEnds(d)
    <3>1. /\ ready' = q /\ task' = [task EXCEPT ![d.pane] = 0]
          /\ reading' = reading \cup ({d.pane} \cap up)
      BY <2>5 DEF DrainEnds, q
    <3>2. task'[d.pane] = 0 /\ \A p \in Panes : p # d.pane => task'[p] = task[p]
      BY <1>2, <3>1
    <3>3. OneEach(ready)'
      BY <2>2, <2>3, <3>1, <3>2 DEF QueueOK, OneEach, LiveDrain
    <3>4. ZombiesFirst(ready)'
      <4> SUFFICES ASSUME NEW p \in up, NEW i \in 1..Len(q), Zombie(q[i], p)
                   PROVE  task'[p] = 0 /\ \A j \in 1..Len(q) : Brings(q[j], p) => i < j
        BY <1>1, <3>1 DEF ZombiesFirst, Zombie, Brings
      <4>1. p \in Panes
        BY DEF DrainInv, Types
      <4> QED BY <2>3, <3>2, <4>1 DEF QueueOK, ZombiesFirst
    <3>5. ArrivalsOK(ready)'
      BY <1>1, <2>3, <3>1 DEF QueueOK, ArrivalsOK, ReadEvent
    <3>6. Driven(ready)'
      BY <2>4, <3>1, <3>2 DEF Driven, LiveDrain
    <3>7. FlagsOK'
      BY <1>1, <3>1, <3>2 DEF FlagsOK, DrainInv
    <3> QED BY <3>3, <3>4, <3>5, <3>6, <3>7 DEF QueueOK
  <2>6. CASE DrainSlice(d)
    <3> DEFINE e == Drain(d.pane, d.id, TRUE, FALSE, Tail(Todo(d)))
    <3>1. ready' = Append(q, e) /\ UNCHANGED <<reading, task>>
      BY <2>6 DEF DrainSlice, q
    <3>2. e.t = "drain" /\ e.pane = d.pane /\ ~e.cancelled /\ e.id = d.id /\ e \in Events
      <4>1. Todo(d) \in Seq(Pieces) /\ Todo(d) # <<>>
        BY <1>1, <2>6, TodoTypes DEF DrainInv, DrainSlice
      <4>2. Tail(Todo(d)) \in Seq(Pieces) /\ TRUE \in BOOLEAN /\ FALSE \in BOOLEAN
        BY <4>1
      <4>3. e \in Events
        <5> HIDE DEF Drain
        <5> QED BY <1>2, <4>2, DrainIsEvent
      <4> QED BY <4>3 DEF Drain
    <3> HIDE DEF e
    <3>3. /\ Len(ready') = Len(q) + 1 /\ ready'[Len(q) + 1] = e
          /\ \A i \in 1..Len(q) : ready'[i] = q[i]
          /\ \A i \in 1..Len(ready') : i \in 1..Len(q) \/ i = Len(q) + 1
      BY <1>4, <3>1, <3>2, AppendEvent
    <3>4. OneEach(ready)'
      <4>1. task[d.pane] = d.id
        BY <1>1, <1>2, <1>4, <2>1 DEF DrainInv, QueueOK, OneEach
      <4>2. ASSUME NEW p \in Panes, NEW i \in 1..Len(ready'), NEW j \in 1..Len(ready'),
                   LiveDrain(ready'[i], p), LiveDrain(ready'[j], p)
            PROVE  i = j
        <5>1. CASE p = d.pane
          BY <2>2, <3>3, <4>2, <5>1
        <5>2. CASE p # d.pane
          <6>1. i \in 1..Len(q) /\ j \in 1..Len(q) /\ LiveDrain(q[i], p) /\ LiveDrain(q[j], p)
            BY <3>2, <3>3, <4>2, <5>2 DEF LiveDrain
          <6> QED BY <2>3, <6>1 DEF QueueOK, OneEach
        <5> QED BY <5>1, <5>2
      <4>3. ASSUME NEW p \in Panes, NEW i \in 1..Len(ready'), LiveDrain(ready'[i], p)
            PROVE  task'[p] = ready'[i].id
        <5>1. CASE i = Len(q) + 1
          BY <3>1, <3>2, <3>3, <4>1, <4>3, <5>1 DEF LiveDrain
        <5>2. CASE i \in 1..Len(q)
          BY <2>2, <3>1, <3>3, <4>3, <5>2
        <5> QED BY <3>3, <5>1, <5>2
      <4> QED BY <4>2, <4>3 DEF OneEach, LiveDrain
    <3>5. ZombiesFirst(ready)'
      <4> SUFFICES ASSUME NEW p \in up, NEW i \in 1..Len(ready'), Zombie(ready'[i], p)
                   PROVE  /\ task[p] = 0
                          /\ \A j \in 1..Len(ready') : Brings(ready'[j], p) => i < j
        BY <1>1, <3>1 DEF ZombiesFirst, Zombie, Brings
      <4>1. i \in 1..Len(q) /\ Zombie(q[i], p)
        BY <3>2, <3>3 DEF Zombie
      <4>2. task[p] = 0 /\ \A j \in 1..Len(q) : Brings(q[j], p) => i < j
        BY <2>3, <4>1 DEF QueueOK, ZombiesFirst
      <4>3. ~Brings(e, p)
        BY <3>2 DEF Brings
      <4> QED BY <3>3, <4>2, <4>3
    <3>6. ArrivalsOK(ready)'
      <4>1. ASSUME NEW i \in 1..Len(ready')
            PROVE  /\ ready'[i].t = "read" => backend = "fd" /\ ready'[i].pane \in up \cap reading
                   /\ ready'[i].t = "data" => backend # "fd" /\ ready'[i].of <= shell[ready'[i].pane]
        BY <2>3, <3>2, <3>3 DEF QueueOK, ArrivalsOK
      <4>2. ASSUME NEW p, NEW i \in 1..Len(ready'), NEW j \in 1..Len(ready'),
                   ready'[i] = ReadEvent(p), ready'[j] = ReadEvent(p)
            PROVE  i = j
        <5>1. e # ReadEvent(p)
          BY <3>2 DEF ReadEvent
        <5>2. /\ i \in 1..Len(q) /\ q[i] = ReadEvent(p)
              /\ j \in 1..Len(q) /\ q[j] = ReadEvent(p)
          BY <3>3, <4>2, <5>1
        <5> QED BY <2>3, <5>2 DEF QueueOK, ArrivalsOK
      <4> QED BY <1>1, <3>1, <4>1, <4>2 DEF ArrivalsOK, ReadEvent
    <3>7. Driven(ready)'
      <4> SUFFICES ASSUME NEW p \in Panes, task[p] # 0
                   PROVE  \E i \in 1..Len(ready') : LiveDrain(ready'[i], p)
        BY <3>1 DEF Driven, LiveDrain
      <4>1. CASE p = d.pane
        <5>1. LiveDrain(e, p) /\ Len(q) + 1 \in 1..Len(ready')
          BY <1>4, <3>2, <3>3, <4>1 DEF LiveDrain
        <5> QED BY <3>3, <5>1
      <4>2. CASE p # d.pane
        <5>1. PICK i \in 1..Len(q) : LiveDrain(q[i], p)
          BY <2>4, <4>2
        <5> QED BY <1>4, <3>3, <5>1
      <4> QED BY <4>1, <4>2
    <3>8. FlagsOK'
      BY <1>1, <3>1 DEF FlagsOK, DrainInv
    <3> QED BY <3>4, <3>5, <3>6, <3>7, <3>8 DEF QueueOK
  <2> QED BY <1>3, <1>6, <2>5, <2>6 DEF DrainVanishes, DrainStops
<1> QED BY <1>2, <1>5, <1>6

LEMMA DrainInvInit == Init => DrainInv
<1> SUFFICES ASSUME Init
             PROVE  DrainInv
  OBVIOUS
<1>1. Types
  BY TypesInit
<1>2. ready = <<>> /\ \A p \in Panes : task[p] = 0
  BY DEF Init
<1>3. QueueOK(ready) /\ Driven(ready)
  BY <1>2 DEF QueueOK, OneEach, ZombiesFirst, ArrivalsOK, Driven
<1>4. FlagsOK
  BY <1>2 DEF Init, FlagsOK
<1> QED BY <1>1, <1>3, <1>4 DEF DrainInv

\* A reader arrives: nothing but the queue, and who is in a read, changes.
LEMMA ArrivalStep ==
  ASSUME DrainInv, NEW p \in Panes,
         ShellExits(p) \/ Select(p) \/ ThreadEnters(p) \/ ThreadPosts(p) \/ ThreadEnds(p)
  PROVE  QueueOK(ready)' /\ Driven(ready)' /\ FlagsOK'
<1>0. Types /\ ready \in Seq(Events)
  BY DEF DrainInv, Types
<1>1. UNCHANGED <<backend, shell, up, reading, task>>
  BY DEF ShellExits, Select, ThreadEnters, ThreadPosts, ThreadEnds, ptyVars, readVars
<1>2. backend = "fd" => inRead' = inRead
  BY DEF DrainInv, FlagsOK, ShellExits, Select, ThreadEnters, ThreadPosts, ThreadEnds, readVars
<1>3. FlagsOK'
  BY <1>1, <1>2 DEF DrainInv, FlagsOK
<1>4. CASE ready' = ready
  BY <1>1, <1>3, <1>4, QueueMoves DEF DrainInv
<1>5. CASE Select(p)
  <2>1. ReadEvent(p) \in Events /\ ReadEvent(p).t = "read" /\ ReadEvent(p).pane = p
    BY DEF ReadEvent, Events
  <2>2. /\ ready' = Append(ready, ReadEvent(p)) /\ backend = "fd" /\ p \in up \cap reading
        /\ ReadEvent(p) \notin ToSet(ready)
    BY <1>5 DEF Select
  <2> QED BY <1>1, <1>3, <2>1, <2>2, ArrivalKept
<1>6. CASE ThreadPosts(p)
  <2>1. PICK cs \in Reads(p) : ready' = Append(ready, Posted(p, cs))
    BY <1>6 DEF ThreadPosts
  <2>2. /\ Posted(p, cs) \in Events /\ Posted(p, cs).t = "data"
        /\ Posted(p, cs).pane = p /\ Posted(p, cs).of = shell[p]
    <3>1. cs \in Seq(Pieces)
      BY <1>0, ReadsOrdered
    <3> QED BY <1>0, <3>1 DEF Posted, Events, Types
  <2>3. backend # "fd" /\ shell[p] \in Nat
    BY <1>0, <1>6 DEF DrainInv, FlagsOK, ThreadPosts, Types
  <2> QED BY <1>1, <1>3, <2>1, <2>2, <2>3, ArrivalKept
<1>7. CASE ThreadEnds(p)
  <2>1. PostedEnd(p) \in Events /\ PostedEnd(p).t = "eof"
    BY <1>0 DEF PostedEnd, Events, Types
  <2>2. ready' = Append(ready, PostedEnd(p))
    BY <1>7 DEF ThreadEnds
  <2> QED BY <1>1, <1>3, <2>1, <2>2, ArrivalKept
<1> QED
  BY <1>3, <1>4, <1>5, <1>6, <1>7 DEF ShellExits, ThreadEnters

\* The end of a pane, and the replacement of its shell.
LEMMA PaneEofKept ==
  ASSUME Types, NEW STATE q, q \in Seq(Events), QueueOK(q), Driven(q), FlagsOK,
         NEW STATE p, p \in Panes, PaneEof(p, q)
  PROVE  QueueOK(ready)' /\ Driven(ready)' /\ FlagsOK'
<1>1. /\ StopFeed({p}) /\ ready' = Unread(Cancelled(q, {p}), p)
      /\ UNCHANGED backend /\ inRead' \subseteq inRead
      /\ up' \subseteq Panes /\ p \notin up' /\ shell' = shell
      /\ \A r \in Panes \ {p} : (r \in up' <=> r \in up) /\ (r \in reading' <=> r \in reading)
  BY DEF PaneEof, Types
<1> QED BY <1>1, StopKept

LEMMA RespawnKept ==
  ASSUME DrainInv, NEW p \in Panes, Respawn(p)
  PROVE  QueueOK(ready)' /\ Driven(ready)' /\ FlagsOK'
<1>1. /\ StopFeed({p}) /\ ready' = Unread(Cancelled(ready, {p}), p)
      /\ UNCHANGED backend /\ inRead' \subseteq inRead
      /\ up' \subseteq Panes /\ shell'[p] = shell[p] + 1 /\ ready \in Seq(Events)
      /\ \A r \in Panes \ {p} : shell'[r] = shell[r]
      /\ \A r \in Panes \ {p} : (r \in up' <=> r \in up) /\ (r \in reading' <=> r \in reading)
  BY DEF Respawn, DrainInv, Types
<1> QED BY <1>1, StopKept DEF DrainInv

LEMMA DrainInvKept == DrainInv /\ [Next]_vars => DrainInv'
<1> SUFFICES ASSUME DrainInv, [Next]_vars
             PROVE  QueueOK(ready)' /\ Driven(ready)' /\ FlagsOK'
  BY TypesKept DEF DrainInv
<1>0. Types /\ FlagsOK /\ QueueOK(ready) /\ Driven(ready) /\ ready \in Seq(Events)
  BY DEF DrainInv, Types
<1>1. ASSUME NEW p \in Panes,
             ShellExits(p) \/ Select(p) \/ ThreadEnters(p) \/ ThreadPosts(p) \/ ThreadEnds(p)
      PROVE  QueueOK(ready)' /\ Driven(ready)' /\ FlagsOK'
  BY <1>1, ArrivalStep
<1>2. ASSUME NEW p \in Panes, Respawn(p)
      PROVE  QueueOK(ready)' /\ Driven(ready)' /\ FlagsOK'
  BY <1>2, RespawnKept
<1>3. ASSUME NEW p \in Panes, ClosePane(p)
      PROVE  QueueOK(ready)' /\ Driven(ready)' /\ FlagsOK'
  BY <1>0, <1>3, PaneEofKept DEF ClosePane
<1>4. ASSUME ready # <<>>, Head(ready).t # "drain"
      PROVE  /\ QueueOK(Tail(ready)) /\ Driven(Tail(ready)) /\ Tail(ready) \in Seq(Events)
             /\ Head(ready) \in Events /\ Head(ready) = ready[1] /\ 1 \in 1..Len(ready)
             /\ Head(ready).pane \in Panes
  <2>1. \A p \in Panes : ~LiveDrain(Head(ready), p)
    BY <1>4 DEF LiveDrain
  <2>2. QueueOK(Tail(ready)) /\ Driven(Tail(ready))
    BY <1>4, <2>1, TailKept
  <2>3. Head(ready) \in Events
    BY <1>0, <1>4, HeadIsEvent
  <2> QED BY <1>0, <1>4, <2>2, <2>3, HeadIsEvent, EventKinds
<1>5. CASE RunRead
  <2> DEFINE p == Head(ready).pane
  <2>1. ready # <<>> /\ Head(ready).t = "read"
    BY <1>5 DEF RunRead, Runs
  <2>2. p \in up
    BY <1>0, <1>4, <2>1 DEF QueueOK, ArrivalsOK
  <2>3. CASE PaneEof(p, Tail(ready))
    <3> HIDE DEF p
    <3>1. p \in Panes
      BY <1>4, <2>1 DEF p
    <3> QED BY <1>0, <1>4, <2>1, <2>3, <3>1, PaneEofKept
  <2>4. CASE ~PaneEof(p, Tail(ready))
    <3>1. PICK cs \in Reads(p) : OnPaneData(p, cs, Tail(ready))
      BY <1>5, <2>4 DEF RunRead
    <3>2. UNCHANGED <<backend, shell, up, inRead>>
      BY <1>5, <2>4 DEF RunRead
    <3>3. \A i \in 1..Len(Tail(ready)) : ~Zombie(Tail(ready)[i], p)
      <4>1. Brings(Head(ready), p)
        BY <2>1 DEF Brings
      <4> HIDE DEF p
      <4> QED BY <2>1, <2>2, <4>1, NoZombieBehind
    <3> HIDE DEF p
    <3> QED BY <1>0, <1>4, <2>1, <2>2, <3>1, <3>2, <3>3, OnPaneDataKept
  <2> QED BY <2>3, <2>4
<1>6. CASE RunData
  <2> DEFINE e == Head(ready)
  <2>1. ready # <<>> /\ e.t = "data"
    BY <1>6 DEF RunData, Runs
  <2>2. UNCHANGED <<backend, shell, up, inRead>>
    BY <1>6 DEF RunData, ptyVars
  <2>3. CASE Live(e) /\ OnPaneData(e.pane, e.chunks, Tail(ready))
    <3>1. e.pane \in up /\ Brings(e, e.pane)
      BY <2>1, <2>3 DEF Live, Brings
    <3>2. \A i \in 1..Len(Tail(ready)) : ~Zombie(Tail(ready)[i], e.pane)
      BY <2>1, <3>1, NoZombieBehind
    <3> HIDE DEF e
    <3>3. QueueOK(Tail(ready)) /\ Driven(Tail(ready)) /\ Tail(ready) \in Seq(Events)
      BY <1>4, <2>1 DEF e
    <3> QED BY <1>0, <2>2, <2>3, <3>1, <3>2, <3>3, OnPaneDataKept
  <2>4. CASE ready' = Tail(ready) /\ UNCHANGED <<reading, fed, feedbuf, task>>
    <3>1. QueueOK(ready)' /\ Driven(ready)'
      BY <1>4, <2>1, <2>2, <2>4, QueueMoves
    <3> QED BY <1>0, <2>2, <2>4, <3>1 DEF FlagsOK
  <2> QED BY <1>6, <2>3, <2>4 DEF RunData
<1>7. CASE RunEof
  <2>1. ready # <<>> /\ Head(ready).t = "eof"
    BY <1>7 DEF RunEof, Runs
  <2>2. CASE PaneEof(Head(ready).pane, Tail(ready))
    BY <1>0, <1>4, <2>1, <2>2, PaneEofKept
  <2>3. CASE ~PaneEof(Head(ready).pane, Tail(ready))
    <3>1. ready' = Tail(ready) /\ UNCHANGED <<backend, shell, up, reading, inRead, task>>
      BY <1>7, <2>3 DEF RunEof, ptyVars, readVars
    <3>2. QueueOK(ready)' /\ Driven(ready)'
      BY <1>4, <2>1, <3>1, QueueMoves
    <3> QED BY <1>0, <3>1, <3>2 DEF FlagsOK
  <2> QED BY <2>2, <2>3
<1>8. CASE RunDrain
  BY <1>8, DrainTurnKept
<1>9. CASE Restart
  BY <1>9, RestartKept
<1>10. CASE Exec
  <2>1. /\ ready' = <<>> /\ \A p \in Panes : task'[p] = 0
        /\ UNCHANGED <<backend, inRead>>
    BY <1>10 DEF Exec, ptyVars
  <2>2. QueueOK(ready)' /\ Driven(ready)'
    BY <2>1 DEF QueueOK, OneEach, ZombiesFirst, ArrivalsOK, Driven
  <2> QED BY <1>0, <2>1, <2>2 DEF FlagsOK
<1>11. CASE UNCHANGED vars
  <2>1. QueueOK(ready)' /\ Driven(ready)'
    BY <1>0, <1>11, QueueMoves DEF vars
  <2> QED BY <1>0, <1>11, <2>1 DEF vars, FlagsOK
<1> QED
  BY <1>1, <1>2, <1>3, <1>5, <1>6, <1>7, <1>8, <1>9, <1>10, <1>11 DEF Next, RunReady

\* A pane has one drain that was not cancelled, and knows it, however respawns,
\* ends of file, restarts and reads follow one another (_stop_pane_feed,
\* _feed_drain): the finally clause of a cancelled drain clears the task of no
\* other drain, and no drain goes on behind the back of its pane.
THEOREM OneDrainCorrect == Spec => []OneDrain
<1>1. ASSUME DrainInv
      PROVE  OneDrain
  <2> SUFFICES ASSUME NEW p \in Panes
               PROVE  {e.id : e \in {x \in ToSet(ready) : IsDrain(x) /\ x.pane = p /\ ~x.cancelled}}
                        = {task[p]} \ {0}
    BY DEF OneDrain
  <2> DEFINE L == {x \in ToSet(ready) : IsDrain(x) /\ x.pane = p /\ ~x.cancelled}
  <2>0. ready \in Seq(Events)
    BY <1>1 DEF DrainInv, Types
  <2>1. ASSUME NEW x \in L
        PROVE  x.id = task[p] /\ task[p] # 0
    <3>1. PICK i \in 1..Len(ready) : ready[i] = x
      BY DEF ToSet
    <3>2. LiveDrain(ready[i], p) /\ x \in Events
      BY <2>0, <3>1 DEF LiveDrain, IsDrain
    <3>3. task[p] = x.id
      BY <1>1, <3>1, <3>2 DEF DrainInv, QueueOK, OneEach
    <3> QED BY <3>1, <3>2, <3>3, EventKinds DEF LiveDrain
  <2>2. ASSUME task[p] # 0
        PROVE  \E x \in L : x.id = task[p]
    <3>1. PICK i \in 1..Len(ready) : LiveDrain(ready[i], p)
      BY <1>1, <2>2 DEF DrainInv, Driven
    <3>2. ready[i] \in L
      BY <3>1 DEF LiveDrain, IsDrain, ToSet
    <3> QED BY <2>1, <3>2
  <2> HIDE DEF L
  <2>3. {e.id : e \in L} = {task[p]} \ {0}
    BY <2>1, <2>2
  <2> QED BY <2>3 DEF L
<1> QED BY <1>1, DrainInvInit, DrainInvKept, PTL DEF Spec

-----------------------------------------------------------------------------
(* The collector counts the drains that have begun.  A number belongs to   *)
(* one drain at a time, and a drain that has not begun finds chunks in its *)
(* buffer, so that it counts itself before it gives the count back.        *)

DrainsApart(q) ==
  \A i, j \in 1..Len(q) : IsDrain(q[i]) /\ IsDrain(q[j]) /\ q[i].id = q[j].id => i = j
Begun(q) == {i \in 1..Len(q) : IsDrain(q[i]) /\ q[i].started}
BegunIds(q) == {q[i].id : i \in Begun(q)}
DataFilled(q) == \A i \in 1..Len(q) : q[i].t = "data" => q[i].chunks # <<>>
\* b stands for the buffers of the panes.
BuffersFilled(q, b) ==
  \A i \in 1..Len(q) : IsDrain(q[i]) /\ ~q[i].cancelled /\ ~q[i].started => b[q[i].pane] # <<>>

\* n drains have begun, and the collector was on before the first of them.
CollectorOK(g, n) == g = [on |-> n = 0, was |-> TRUE, depth |-> n]

QueueFilled(q, b) == DrainsApart(q) /\ DataFilled(q) /\ BuffersFilled(q, b)

CollectorInv ==
  /\ DrainInv
  /\ QueueFilled(ready, feedbuf)
  /\ CollectorOK(gc, Cardinality(BegunIds(ready)))

\* Callbacks that are not drains leave the queue.
LEMMA ThinnedApart ==
  ASSUME NEW q \in Seq(Events), NEW r \in Seq(Events), Thinned(q, r), NEW b, QueueFilled(r, b),
         \A e : e.t = "drain" => Stays(e, q, r)
  PROVE  QueueFilled(q, b) /\ BegunIds(q) = BegunIds(r)
<1>1. PICK f : Places(q, r, f)
  BY DEF Thinned
<1>2. \A i \in 1..Len(q) : f[i] \in 1..Len(r) /\ q[i] = r[f[i]]
  BY <1>1 DEF Places
<1>3. DrainsApart(q)
  <2> SUFFICES ASSUME NEW i \in 1..Len(q), NEW j \in 1..Len(q), i < j,
                      IsDrain(q[i]), IsDrain(q[j]), q[i].id = q[j].id
               PROVE  FALSE
    BY DEF DrainsApart
  <2>1. f[i] < f[j] /\ f[i] \in Nat /\ f[j] \in Nat
    BY <1>1, <1>2 DEF Places
  <2>2. /\ f[i] \in 1..Len(r) /\ IsDrain(r[f[i]])
        /\ f[j] \in 1..Len(r) /\ IsDrain(r[f[j]]) /\ r[f[i]].id = r[f[j]].id
    BY <1>2
  <2>3. f[i] = f[j]
    BY <2>2 DEF QueueFilled, DrainsApart
  <2> QED BY <2>1, <2>3
<1>4. DataFilled(q) /\ BuffersFilled(q, b)
  BY <1>2 DEF QueueFilled, DataFilled, BuffersFilled
<1>5. ASSUME NEW i \in Begun(q)
      PROVE  q[i].id \in BegunIds(r)
  <2>1. f[i] \in Begun(r) /\ r[f[i]].id = q[i].id
    BY <1>2 DEF Begun
  <2> QED BY <2>1 DEF BegunIds
<1>6. ASSUME NEW j \in Begun(r)
      PROVE  r[j].id \in BegunIds(q)
  <2>1. PICK i \in 1..Len(q) : q[i] = r[j]
    BY DEF Begun, IsDrain, Stays
  <2> QED BY <2>1 DEF Begun, BegunIds
<1>7. BegunIds(q) = BegunIds(r)
  BY <1>5, <1>6 DEF BegunIds
<1> QED BY <1>3, <1>4, <1>7 DEF QueueFilled

\* In particular the one of a reader that is removed.
LEMMA UnreadApart ==
  ASSUME NEW q \in Seq(Events), NEW b, QueueFilled(q, b), NEW p
  PROVE  /\ Unread(q, p) \in Seq(Events)
         /\ QueueFilled(Unread(q, p), b) /\ BegunIds(Unread(q, p)) = BegunIds(q)
<1>1. Thinned(Unread(q, p), q) /\ \A e : e # ReadEvent(p) => Stays(e, Unread(q, p), q)
  BY UnreadIsThinned
<1>2. Unread(q, p) \in Seq(Events)
  BY <1>1 DEF Thinned
<1>3. \A e : e.t = "drain" => Stays(e, Unread(q, p), q)
  BY <1>1 DEF ReadEvent
<1> QED BY <1>1, <1>2, <1>3, ThinnedApart

\* The callback that runs is not a drain.
LEMMA OtherHeadApart ==
  ASSUME NEW q \in Seq(Events), q # <<>>, Head(q).t # "drain", NEW b, QueueFilled(q, b)
  PROVE  /\ Tail(q) \in Seq(Events)
         /\ QueueFilled(Tail(q), b) /\ BegunIds(Tail(q)) = BegunIds(q)
<1>1. Thinned(Tail(q), q) /\ \A e : e # Head(q) => Stays(e, Tail(q), q)
  BY TailIsThinned
<1>2. Tail(q) \in Seq(Events)
  OBVIOUS
<1>3. \A e : e.t = "drain" => Stays(e, Tail(q), q)
  BY <1>1
<1> QED BY <1>1, <1>2, <1>3, ThinnedApart

\* The callback that runs is one.
LEMMA DrainHeadApart ==
  ASSUME NEW q \in Seq(Events), q # <<>>, IsDrain(Head(q)), NEW b, QueueFilled(q, b)
  PROVE  /\ Tail(q) \in Seq(Events) /\ QueueFilled(Tail(q), b)
         /\ \A i \in 1..Len(Tail(q)) : IsDrain(Tail(q)[i]) => Tail(q)[i].id # Head(q).id
         /\ Head(q).id \notin BegunIds(Tail(q))
         /\ Head(q).started => BegunIds(q) = BegunIds(Tail(q)) \cup {Head(q).id}
         /\ ~Head(q).started => BegunIds(q) = BegunIds(Tail(q))
<1> DEFINE r == Tail(q)
           d == Head(q)
<1>1. /\ r \in Seq(Events) /\ Len(r) = Len(q) - 1
      /\ \A i \in 1..Len(r) : i + 1 \in 1..Len(q) /\ r[i] = q[i + 1]
      /\ \A i \in 1..Len(q) : i # 1 => i - 1 \in 1..Len(r) /\ r[i - 1] = q[i]
      /\ d = q[1] /\ 1 \in 1..Len(q)
  BY TailItems
<1> HIDE DEF r, d
<1>2. DrainsApart(r)
  <2> SUFFICES ASSUME NEW i \in 1..Len(r), NEW j \in 1..Len(r),
                      IsDrain(r[i]), IsDrain(r[j]), r[i].id = r[j].id
               PROVE  i = j
    BY DEF DrainsApart
  <2>1. i + 1 = j + 1
    BY <1>1 DEF QueueFilled, DrainsApart
  <2> QED BY <2>1
<1>3. DataFilled(r) /\ BuffersFilled(r, b)
  BY <1>1 DEF QueueFilled, DataFilled, BuffersFilled
<1>4. ASSUME NEW i \in 1..Len(r), IsDrain(r[i])
      PROVE  r[i].id # d.id
  <2>1. i + 1 # 1
    OBVIOUS
  <2>2. IsDrain(d)
    BY DEF d
  <2> QED BY <1>1, <1>4, <2>1, <2>2 DEF QueueFilled, DrainsApart
<1>5. d.id \notin BegunIds(r)
  BY <1>4 DEF BegunIds, Begun
<1>6. ASSUME NEW i \in Begun(r)
      PROVE  r[i].id \in BegunIds(q)
  <2>1. i + 1 \in Begun(q) /\ q[i + 1] = r[i]
    BY <1>1 DEF Begun
  <2> QED BY <2>1 DEF BegunIds
<1>7. ASSUME NEW i \in Begun(q), i # 1
      PROVE  q[i].id \in BegunIds(r)
  <2>1. i - 1 \in Begun(r) /\ r[i - 1] = q[i]
    BY <1>1, <1>7 DEF Begun
  <2> QED BY <2>1 DEF BegunIds
<1>8. d.started => 1 \in Begun(q) /\ q[1].id = d.id
  <2>1. IsDrain(d)
    BY DEF d
  <2> QED BY <1>1, <2>1 DEF Begun
<1>9. ~d.started => 1 \notin Begun(q)
  BY <1>1 DEF Begun
<1>10. d.started => BegunIds(q) = BegunIds(r) \cup {d.id}
  <2> SUFFICES ASSUME d.started PROVE BegunIds(q) = BegunIds(r) \cup {d.id}
    OBVIOUS
  <2>1. BegunIds(r) \subseteq BegunIds(q)
    BY <1>6 DEF BegunIds
  <2>2. d.id \in BegunIds(q)
    BY <1>8 DEF BegunIds
  <2>3. BegunIds(q) \subseteq BegunIds(r) \cup {d.id}
    BY <1>1, <1>7 DEF BegunIds
  <2> QED BY <2>1, <2>2, <2>3
<1>11. ~d.started => BegunIds(q) = BegunIds(r)
  <2> SUFFICES ASSUME ~d.started PROVE BegunIds(q) = BegunIds(r)
    OBVIOUS
  <2>1. BegunIds(r) \subseteq BegunIds(q)
    BY <1>6 DEF BegunIds
  <2>2. BegunIds(q) \subseteq BegunIds(r)
    BY <1>7, <1>9 DEF BegunIds
  <2> QED BY <2>1, <2>2
<1> QED BY <1>1, <1>2, <1>3, <1>4, <1>5, <1>10, <1>11 DEF QueueFilled, r, d

\* A callback is added: not a drain, or one with a number of its own.
LEMMA AppendApart ==
  ASSUME NEW q \in Seq(Events), NEW b, QueueFilled(q, b), NEW e \in Events,
         e.t = "data" => e.chunks # <<>>,
         IsDrain(e) => \A i \in 1..Len(q) : IsDrain(q[i]) => q[i].id # e.id,
         IsDrain(e) /\ ~e.cancelled /\ ~e.started => b[e.pane] # <<>>
  PROVE  /\ QueueFilled(Append(q, e), b)
         /\ BegunIds(Append(q, e))
              = BegunIds(q) \cup (IF IsDrain(e) /\ e.started THEN {e.id} ELSE {})
<1> DEFINE r == Append(q, e)
           n == Len(q) + 1
<1>1. /\ r \in Seq(Events) /\ Len(r) = n /\ r[n] = e /\ n \in 1..n
      /\ \A i \in 1..Len(q) : r[i] = q[i] /\ i \in 1..n
      /\ \A i \in 1..n : i \in 1..Len(q) \/ i = n
  BY AppendEvent
<1> HIDE DEF r, n
<1>2. DrainsApart(r)
  <2> SUFFICES ASSUME NEW i \in 1..n, NEW j \in 1..n,
                      IsDrain(r[i]), IsDrain(r[j]), r[i].id = r[j].id
               PROVE  i = j
    BY <1>1 DEF DrainsApart
  <2> QED BY <1>1 DEF QueueFilled, DrainsApart
<1>3. DataFilled(r) /\ BuffersFilled(r, b)
  BY <1>1 DEF QueueFilled, DataFilled, BuffersFilled
<1>4. Begun(r) = Begun(q) \cup (IF IsDrain(e) /\ e.started THEN {n} ELSE {})
  BY <1>1 DEF Begun
<1>5. \A i \in Begun(q) : r[i] = q[i]
  BY <1>1 DEF Begun
<1>6. BegunIds(r) = BegunIds(q) \cup (IF IsDrain(e) /\ e.started THEN {e.id} ELSE {})
  BY <1>1, <1>4, <1>5 DEF BegunIds
<1> QED BY <1>2, <1>3, <1>6 DEF QueueFilled, r

\* A feed is stopped: its drains are cancelled, and its buffer is empty.
LEMMA CancelledApart ==
  ASSUME Types, NEW STATE q, q \in Seq(Events), QueueOK(q), QueueFilled(q, feedbuf),
         NEW STATE ps, ps \subseteq Panes, StopFeed(ps)
  PROVE  /\ Cancelled(q, ps) \in Seq(Events)
         /\ QueueFilled(Cancelled(q, ps), feedbuf') /\ BegunIds(Cancelled(q, ps)) = BegunIds(q)
<1> DEFINE c == Cancelled(q, ps)
<1>1. /\ c \in Seq(Events) /\ Len(c) = Len(q)
      /\ \A i \in 1..Len(q) :
              \/ c[i] = q[i]
                   /\ ~(q[i].t = "drain" /\ q[i].pane \in ps /\ q[i].id = task[q[i].pane])
              \/ /\ q[i].t = "drain" /\ q[i].pane \in ps /\ q[i].id = task[q[i].pane]
                 /\ c[i] = [q[i] EXCEPT !.cancelled = TRUE]
  BY CancelledKeeps
<1>2. /\ \A i \in 1..Len(q) : \A p \in Panes :
           LiveDrain(c[i], p) <=> LiveDrain(q[i], p) /\ p \notin ps
  BY CancelledOK
<1> HIDE DEF c
<1>3. ASSUME NEW i \in 1..Len(q)
      PROVE  /\ c[i].t = q[i].t /\ c[i].pane = q[i].pane
             /\ IsDrain(q[i]) => c[i].id = q[i].id /\ c[i].started = q[i].started
             /\ q[i].t = "data" => c[i] = q[i]
  <2>1. CASE c[i] = q[i]
    BY <2>1
  <2>2. CASE q[i].t = "drain" /\ c[i] = [q[i] EXCEPT !.cancelled = TRUE]
    <3>1. q[i] = Drain(q[i].pane, q[i].id, q[i].started, q[i].cancelled, q[i].rest)
      BY <2>2, EventKinds
    <3>2. c[i] = Drain(q[i].pane, q[i].id, q[i].started, TRUE, q[i].rest)
      BY <2>2, <3>1 DEF Drain
    <3> QED BY <2>2, <3>2 DEF Drain
  <2> QED BY <1>1, <2>1, <2>2
<1>4. DrainsApart(c)
  BY <1>1, <1>3 DEF QueueFilled, DrainsApart, IsDrain
<1>5. DataFilled(c)
  BY <1>1, <1>3 DEF QueueFilled, DataFilled
<1>6. ASSUME NEW i \in 1..Len(q), IsDrain(c[i]), ~c[i].cancelled, ~c[i].started
      PROVE  feedbuf'[c[i].pane] # <<>>
  <2>1. c[i] \in Events /\ c[i].pane \in Panes
    BY <1>1, EventKinds
  <2>2. LiveDrain(q[i], c[i].pane) /\ c[i].pane \notin ps
    BY <1>2, <1>6, <2>1 DEF LiveDrain, IsDrain
  <2>3. feedbuf[c[i].pane] # <<>>
    BY <1>3, <1>6, <2>2 DEF QueueFilled, BuffersFilled, LiveDrain, IsDrain
  <2> QED BY <2>1, <2>2, <2>3 DEF StopFeed
<1>7. BuffersFilled(c, feedbuf')
  BY <1>1, <1>6 DEF BuffersFilled
<1>8. Begun(c) = Begun(q)
  BY <1>1, <1>3 DEF Begun, IsDrain
<1>9. \A i \in Begun(q) : c[i].id = q[i].id
  BY <1>3 DEF Begun
<1>10. BegunIds(c) = BegunIds(q)
  BY <1>8, <1>9 DEF BegunIds
<1> QED BY <1>1, <1>4, <1>5, <1>7, <1>10 DEF QueueFilled, c

\* One more drain has begun,
LEMMA EnteredCounts ==
  ASSUME NEW g, NEW S, IsFiniteSet(S), CollectorOK(g, Cardinality(S)), NEW id, id \notin S
  PROVE  CollectorOK(Entered(g), Cardinality(S \cup {id}))
<1> DEFINE n == Cardinality(S)
<1>1. n \in Nat /\ Cardinality(S \cup {id}) = n + 1
  BY FS_CardinalityType, FS_AddElement
<1>2. g = [on |-> n = 0, was |-> TRUE, depth |-> n]
  BY DEF CollectorOK
<1> HIDE DEF n
<1>3. Entered(g) = [on |-> FALSE, was |-> TRUE, depth |-> n + 1]
  <2>1. CASE n = 0
    <3>1. g = [on |-> TRUE, was |-> TRUE, depth |-> 0]
      BY <1>2, <2>1
    <3> QED BY <2>1, <3>1 DEF Entered
  <2>2. CASE n # 0
    <3>1. g = [on |-> FALSE, was |-> TRUE, depth |-> n]
      BY <1>2, <2>2
    <3> QED BY <2>2, <3>1 DEF Entered
  <2> QED BY <2>1, <2>2
<1>4. (n + 1 = 0) = FALSE
  BY <1>1
<1> QED BY <1>1, <1>3, <1>4 DEF CollectorOK

\* and one of those that had begun is over.
LEMMA LeftCounts ==
  ASSUME NEW g, NEW S, IsFiniteSet(S), NEW id, id \notin S,
         CollectorOK(g, Cardinality(S \cup {id}))
  PROVE  CollectorOK(Left(g), Cardinality(S))
<1> DEFINE n == Cardinality(S)
<1>1. n \in Nat /\ Cardinality(S \cup {id}) = n + 1
  BY FS_CardinalityType, FS_AddElement
<1>2. g = [on |-> n + 1 = 0, was |-> TRUE, depth |-> n + 1]
  BY <1>1 DEF CollectorOK
<1> HIDE DEF n
<1>3. (n + 1 = 0) = FALSE /\ n + 1 > 0 /\ (n + 1) - 1 = n
  BY <1>1
<1>4. g = [on |-> FALSE, was |-> TRUE, depth |-> n + 1]
  BY <1>2, <1>3
<1>5. Left(g) = [g EXCEPT !.depth = n, !.on = @ \/ (n = 0 /\ TRUE)]
  BY <1>3, <1>4 DEF Left
<1>6. Left(g) = [on |-> n = 0, was |-> TRUE, depth |-> n]
  <2>1. CASE n = 0
    BY <1>4, <1>5, <2>1
  <2>2. CASE n # 0
    BY <1>4, <1>5, <2>2
  <2> QED BY <2>1, <2>2
<1> QED BY <1>6 DEF CollectorOK, n

LEMMA BegunIsFinite ==
  ASSUME NEW q \in Seq(Events)
  PROVE  IsFiniteSet(BegunIds(q))
<1>1. IsFiniteSet(Begun(q))
  BY FS_Interval, FS_Subset DEF Begun
<1> DEFINE f == [i \in Begun(q) |-> q[i].id]
<1>2. f \in Surjection(Begun(q), BegunIds(q))
  BY DEF Surjection, BegunIds
<1> QED BY <1>1, <1>2, FS_Surjection

-----------------------------------------------------------------------------
(* The collector, step by step.                                            *)

\* A step that moves no drain and leaves the collector alone.
LEMMA CollectorRests ==
  ASSUME CollectorInv, UNCHANGED gc,
         QueueFilled(ready', feedbuf'), BegunIds(ready') = BegunIds(ready)
  PROVE  QueueFilled(ready', feedbuf') /\ CollectorOK(gc', Cardinality(BegunIds(ready')))
BY DEF CollectorInv

\* Whoever feeds a pane, what it adds to the buffer is not nothing.
LEMMA CoalescedFilled ==
  ASSUME NEW STATE p, NEW cs \in Seq(Pieces), cs # <<>>
  PROVE  Coalesced(p, cs) # <<>>
<1>1. CASE Coalesced(p, cs) = cs
  BY <1>1
<1>2. CASE Coalesced(p, cs) # cs
  <2>1. /\ Coalesced(p, cs) = SubSeq(cs, Max(Clears(cs)), Len(cs))
        /\ Cardinality(Clears(cs)) >= 2
    BY <1>2 DEF Coalesced
  <2>2. Clears(cs) \subseteq 1..Len(cs)
    BY DEF Clears
  <2>3. Clears(cs) # {}
    <3>1. Cardinality({}) = 0
      BY FS_EmptySet
    <3>2. ~(0 >= 2)
      OBVIOUS
    <3> HIDE DEF Clears
    <3> QED BY <2>1, <3>1, <3>2
  <2>4. PICK m \in 1..Len(cs) : Coalesced(p, cs) = SubSeq(cs, m, Len(cs))
    <3>1. Len(cs) \in Nat
      OBVIOUS
    <3>2. Max(Clears(cs)) \in Clears(cs)
      BY <2>2, <2>3, <3>1, MaxIsMember
    <3> QED BY <2>1, <2>2, <3>2
  <2>5. Len(Coalesced(p, cs)) = Len(cs) - m + 1
    BY <2>4
  <2>6. Len(Coalesced(p, cs)) # Len(<<>>)
    BY <2>5
  <2> QED BY <2>6
<1> QED BY <1>1, <1>2

\* Buffers that do not get empty disturb nothing.
LEMMA BufferGrowsFilled ==
  ASSUME NEW b, NEW b2, NEW q, QueueFilled(q, b), \A p : b[p] # <<>> => b2[p] # <<>>
  PROVE  QueueFilled(q, b2)
BY DEF QueueFilled, BuffersFilled

\* Chunks are handed to a pane.
LEMMA OnPaneDataFilled ==
  ASSUME Types, NEW STATE p, p \in Panes, NEW STATE cs, cs \in Seq(Pieces), cs # <<>>,
         NEW STATE q, q \in Seq(Events), QueueFilled(q, feedbuf),
         \A i \in 1..Len(q) : IsDrain(q[i]) => q[i].id \in DrainIds,
         OnPaneData(p, cs, q)
  PROVE  QueueFilled(ready', feedbuf') /\ BegunIds(ready') = BegunIds(q)
<1> DEFINE b == Coalesced(p, feedbuf[p] \o cs)
<1>1. b # <<>> /\ b \in Seq(Pieces)
  <2>1. feedbuf[p] \in Seq(Pieces)
    BY DEF Types
  <2>2. feedbuf[p] \o cs \in Seq(Pieces) /\ feedbuf[p] \o cs # <<>>
    BY <2>1
  <2> QED BY <2>2, CoalescedFilled, CoalescedTypes
<1> HIDE DEF b
<1>2. ASSUME feedbuf' = [feedbuf EXCEPT ![p] = b]
      PROVE  QueueFilled(q, feedbuf') /\ feedbuf'[p] # <<>>
  <2>1. feedbuf'[p] = b
    BY <1>2 DEF Types
  <2>2. ASSUME NEW i \in 1..Len(q), IsDrain(q[i]), ~q[i].cancelled, ~q[i].started
        PROVE  feedbuf'[q[i].pane] # <<>>
    <3>1. q[i].pane \in Panes /\ feedbuf[q[i].pane] # <<>>
      BY <2>2, EventKinds DEF QueueFilled, BuffersFilled
    <3> QED BY <1>1, <1>2, <3>1 DEF Types
  <2> QED BY <1>1, <2>1, <2>2 DEF QueueFilled, BuffersFilled
<1>3. CASE JoinDrain(p, cs, q)
  BY <1>2, <1>3 DEF JoinDrain, b
<1>4. CASE FeedInline(p, cs, q)
  BY <1>4 DEF FeedInline
<1>5. CASE BeginDrain(p, cs, q)
  <2> DEFINE e == Drain(p, FreeId, FALSE, FALSE, <<>>)
             r == Unread(q, p)
  <2>1. QueueFilled(q, feedbuf') /\ feedbuf'[p] # <<>>
    BY <1>2, <1>5 DEF BeginDrain, b
  <2>2. r \in Seq(Events) /\ QueueFilled(r, feedbuf') /\ BegunIds(r) = BegunIds(q)
    BY <2>1, UnreadApart
  <2>3. FreeId \in Nat \ {0} /\ FreeId \notin DrainIds
    BY FreeIdExists DEF Types
  <2>4. e \in Events
    <3>1. <<>> \in Seq(Pieces) /\ FALSE \in BOOLEAN
      OBVIOUS
    <3> QED BY <2>3, <3>1, DrainIsEvent
  <2>5. IsDrain(e) /\ e.t # "data" /\ e.id = FreeId /\ ~e.started /\ e.pane = p
    BY DEF Drain, IsDrain
  <2>6. ASSUME NEW i \in 1..Len(r), IsDrain(r[i])
        PROVE  r[i].id # e.id
    <3>1. Thinned(r, q)
      BY UnreadIsThinned
    <3>2. PICK j \in 1..Len(q) : r[i] = q[j]
      BY <3>1 DEF Thinned, Places
    <3> QED BY <2>3, <2>5, <2>6, <3>2
  <2>7. ready' = Append(r, e)
    BY <1>5 DEF BeginDrain
  <2> HIDE DEF e, r
  <2>8. /\ QueueFilled(Append(r, e), feedbuf')
        /\ BegunIds(Append(r, e)) = BegunIds(r) \cup (IF IsDrain(e) /\ e.started THEN {e.id} ELSE {})
    BY <2>1, <2>2, <2>4, <2>5, <2>6, AppendApart
  <2> QED BY <2>2, <2>5, <2>7, <2>8
<1> QED BY <1>3, <1>4, <1>5 DEF OnPaneData

\* The feed of some panes stops.
LEMMA StopFilled ==
  ASSUME CollectorInv, NEW STATE q, q \in Seq(Events), QueueOK(q), QueueFilled(q, feedbuf),
         NEW STATE p, p \in Panes, StopFeed({p}), ready' = Unread(Cancelled(q, {p}), p)
  PROVE  QueueFilled(ready', feedbuf') /\ BegunIds(ready') = BegunIds(q)
<1>1. /\ Cancelled(q, {p}) \in Seq(Events)
      /\ QueueFilled(Cancelled(q, {p}), feedbuf')
      /\ BegunIds(Cancelled(q, {p})) = BegunIds(q)
  BY CancelledApart DEF CollectorInv, DrainInv
<1> QED BY <1>1, UnreadApart

\* A read returns something.
LEMMA ReadsFilled ==
  ASSUME Types, NEW STATE p, p \in Panes, NEW STATE cs, cs \in Reads(p)
  PROVE  cs \in Seq(Pieces) /\ cs # <<>>
<1>1. cs \in Seq(Pieces)
  BY ReadsOrdered
<1>2. PICK k \in 1..Min({Batch, Len(Script) - taken[p]}) :
        cs = [i \in 1..k |-> Chunk(shell[p], taken[p] + i)]
  BY DEF Reads
<1>3. 1 \in 1..k
  <2>1. Batch \in Int /\ Len(Script) - taken[p] \in Int
    BY FeedAssumption DEF Types
  <2>2. Min({Batch, Len(Script) - taken[p]}) \in Int
    BY <2>1, MinOfTwo
  <2> QED BY <2>2
<1>4. 1 \in DOMAIN cs
  BY <1>2, <1>3
<1> QED BY <1>1, <1>4

\* The readers, and shells that exit.
LEMMA ArrivalFilled ==
  ASSUME CollectorInv, NEW p \in Panes,
         ShellExits(p) \/ Select(p) \/ ThreadEnters(p) \/ ThreadPosts(p) \/ ThreadEnds(p)
  PROVE  QueueFilled(ready', feedbuf') /\ CollectorOK(gc', Cardinality(BegunIds(ready')))
<1>0. Types /\ ready \in Seq(Events) /\ QueueFilled(ready, feedbuf)
  BY DEF CollectorInv, DrainInv, Types
<1>1. UNCHANGED <<feedbuf, gc>>
  BY DEF ShellExits, Select, ThreadEnters, ThreadPosts, ThreadEnds, restartVars
<1>2. ASSUME NEW e \in Events, e.t # "drain", e.t = "data" => e.chunks # <<>>,
             ready' = Append(ready, e)
      PROVE  QueueFilled(ready', feedbuf') /\ BegunIds(ready') = BegunIds(ready)
  <2>1. ~IsDrain(e)
    BY <1>2 DEF IsDrain
  <2>2. /\ QueueFilled(Append(ready, e), feedbuf)
        /\ BegunIds(Append(ready, e))
             = BegunIds(ready) \cup (IF IsDrain(e) /\ e.started THEN {e.id} ELSE {})
    BY <1>0, <1>2, <2>1, AppendApart
  <2> QED BY <1>1, <1>2, <2>1, <2>2
<1>3. QueueFilled(ready', feedbuf') /\ BegunIds(ready') = BegunIds(ready)
  <2>1. CASE ready' = ready
    BY <1>0, <1>1, <2>1
  <2>2. CASE Select(p)
    <3>1. ReadEvent(p) \in Events /\ ReadEvent(p).t = "read"
      BY DEF ReadEvent, Events
    <3> QED BY <1>2, <2>2, <3>1 DEF Select
  <2>3. CASE ThreadPosts(p)
    <3>1. PICK cs \in Reads(p) : ready' = Append(ready, Posted(p, cs))
      BY <2>3 DEF ThreadPosts
    <3>2. cs \in Seq(Pieces) /\ cs # <<>>
      BY <1>0, ReadsFilled
    <3>3. /\ Posted(p, cs) \in Events /\ Posted(p, cs).t = "data"
          /\ Posted(p, cs).chunks = cs
      BY <1>0, <3>2 DEF Posted, Events, Types
    <3> QED BY <1>2, <3>1, <3>2, <3>3
  <2>4. CASE ThreadEnds(p)
    <3>1. PostedEnd(p) \in Events /\ PostedEnd(p).t = "eof"
      BY <1>0 DEF PostedEnd, Events, Types
    <3> QED BY <1>2, <2>4, <3>1 DEF ThreadEnds
  <2> QED BY <2>1, <2>2, <2>3, <2>4 DEF ShellExits, ThreadEnters
<1> QED BY <1>1, <1>3, CollectorRests

\* The end of a pane, and the replacement of its shell.
LEMMA PaneEofFilled ==
  ASSUME CollectorInv, NEW STATE q, q \in Seq(Events), QueueOK(q), QueueFilled(q, feedbuf),
         BegunIds(q) = BegunIds(ready),
         NEW STATE p, p \in Panes, PaneEof(p, q) \/ (q = ready /\ Respawn(p))
  PROVE  QueueFilled(ready', feedbuf') /\ CollectorOK(gc', Cardinality(BegunIds(ready')))
<1>1. StopFeed({p}) /\ ready' = Unread(Cancelled(q, {p}), p) /\ UNCHANGED gc
  BY DEF PaneEof, Respawn
<1>2. QueueFilled(ready', feedbuf') /\ BegunIds(ready') = BegunIds(q)
  BY <1>1, StopFilled
<1> QED BY <1>1, <1>2, CollectorRests

\* A read, posted chunks, a posted end: the callback is not a drain.
LEMMA CallbackFilled ==
  ASSUME CollectorInv, RunRead \/ RunData \/ RunEof
  PROVE  QueueFilled(ready', feedbuf') /\ CollectorOK(gc', Cardinality(BegunIds(ready')))
<1> DEFINE e == Head(ready)
           q == Tail(ready)
<1>0. /\ Types /\ ready \in Seq(Events) /\ QueueOK(ready) /\ QueueFilled(ready, feedbuf)
  BY DEF CollectorInv, DrainInv, Types
<1>1. /\ ready # <<>> /\ e.t \in {"read", "data", "eof"}
      /\ RunData => e.t = "data"
  BY DEF RunRead, RunData, RunEof, Runs
<1>2. e = ready[1] /\ e \in Events /\ 1 \in 1..Len(ready)
  BY <1>0, <1>1, HeadIsEvent
<1>3. /\ q \in Seq(Events) /\ QueueFilled(q, feedbuf) /\ BegunIds(q) = BegunIds(ready)
  BY <1>0, <1>1, OtherHeadApart
<1>4. QueueOK(q)
  BY <1>0, <1>1, <1>3, TailIsThinned, ThinnedOK
<1>5. ASSUME NEW i \in 1..Len(q), IsDrain(q[i])
      PROVE  q[i].id \in DrainIds
  <2>1. i + 1 \in 1..Len(ready) /\ q[i] = ready[i + 1]
    BY <1>0, <1>1, TailItems
  <2>2. q[i] \in ToSet(ready)
    BY <2>1 DEF ToSet
  <2> QED BY <1>5, <2>2 DEF DrainIds
<1>6. e.pane \in Panes /\ (e.t = "data" => e.chunks \in Seq(Pieces) /\ e.chunks # <<>>)
  BY <1>0, <1>2, EventKinds DEF QueueFilled, DataFilled
<1>7. ASSUME NEW STATE cs, cs \in Seq(Pieces), cs # <<>>, OnPaneData(e.pane, cs, q),
             UNCHANGED gc
      PROVE  QueueFilled(ready', feedbuf') /\ CollectorOK(gc', Cardinality(BegunIds(ready')))
  <2>1. QueueFilled(ready', feedbuf') /\ BegunIds(ready') = BegunIds(q)
    <3> HIDE DEF e, q
    <3> QED BY <1>0, <1>3, <1>5, <1>6, <1>7, OnPaneDataFilled
  <2> QED BY <1>3, <1>7, <2>1, CollectorRests
<1>8. ASSUME PaneEof(e.pane, q)
      PROVE  QueueFilled(ready', feedbuf') /\ CollectorOK(gc', Cardinality(BegunIds(ready')))
  <2> HIDE DEF e, q
  <2> QED BY <1>3, <1>4, <1>6, <1>8, PaneEofFilled
<1>9. ASSUME ready' = q, UNCHANGED <<feedbuf, gc>>
      PROVE  QueueFilled(ready', feedbuf') /\ CollectorOK(gc', Cardinality(BegunIds(ready')))
  <2>1. QueueFilled(ready', feedbuf') /\ BegunIds(ready') = BegunIds(ready)
    BY <1>3, <1>9
  <2> QED BY <1>9, <2>1, CollectorRests
<1>10. CASE RunRead
  <2>1. CASE PaneEof(e.pane, q)
    BY <1>8, <2>1
  <2>2. CASE ~PaneEof(e.pane, q)
    <3>1. PICK cs \in Reads(e.pane) : OnPaneData(e.pane, cs, q)
      BY <1>10, <2>2 DEF RunRead
    <3>2. cs \in Seq(Pieces) /\ cs # <<>>
      <4> HIDE DEF e
      <4> QED BY <1>0, <1>6, ReadsFilled
    <3>3. UNCHANGED gc
      BY <1>10, <2>2 DEF RunRead
    <3> QED BY <1>7, <3>1, <3>2, <3>3
  <2> QED BY <2>1, <2>2
<1>11. CASE RunData
  <2>1. UNCHANGED gc
    BY <1>11 DEF RunData
  <2>2. CASE OnPaneData(e.pane, e.chunks, q)
    BY <1>1, <1>6, <1>7, <1>11, <2>1, <2>2
  <2>3. CASE ready' = q /\ UNCHANGED feedbuf
    BY <1>9, <2>1, <2>3
  <2> QED BY <1>11, <2>2, <2>3 DEF RunData
<1>12. CASE RunEof
  <2>1. CASE PaneEof(e.pane, q)
    BY <1>8, <2>1
  <2>2. CASE ~PaneEof(e.pane, q)
    <3>1. ready' = q /\ UNCHANGED <<feedbuf, gc>>
      BY <1>12, <2>2 DEF RunEof
    <3> QED BY <1>9, <3>1
  <2> QED BY <2>1, <2>2
<1> QED BY <1>10, <1>11, <1>12

\* A turn of a drain counts it when it begins and when it stops or ends.
LEMMA DrainTurnFilled ==
  ASSUME CollectorInv, RunDrain
  PROVE  QueueFilled(ready', feedbuf') /\ CollectorOK(gc', Cardinality(BegunIds(ready')))
<1> DEFINE d == Head(ready)
           q == Tail(ready)
<1>0. /\ Types /\ ready \in Seq(Events) /\ QueueOK(ready) /\ QueueFilled(ready, feedbuf)
      /\ CollectorOK(gc, Cardinality(BegunIds(ready)))
  BY DEF CollectorInv, DrainInv, Types
<1>1. ready # <<>> /\ IsDrain(d)
  BY DEF RunDrain, Runs, IsDrain
<1>2. d = ready[1] /\ d \in Events /\ 1 \in 1..Len(ready)
  BY <1>0, <1>1, HeadIsEvent
<1>3. /\ d.pane \in Panes /\ d.id \in Nat \ {0} /\ d.started \in BOOLEAN /\ Todo(d) \in Seq(Pieces)
  BY <1>0, <1>1, <1>2, EventKinds, TodoTypes DEF IsDrain
<1>4. /\ q \in Seq(Events) /\ QueueFilled(q, feedbuf)
      /\ \A i \in 1..Len(q) : IsDrain(q[i]) => q[i].id # d.id
      /\ d.id \notin BegunIds(q)
      /\ d.started => BegunIds(ready) = BegunIds(q) \cup {d.id}
      /\ ~d.started => BegunIds(ready) = BegunIds(q)
  BY <1>0, <1>1, DrainHeadApart
<1>5. IsFiniteSet(BegunIds(q))
  BY <1>4, BegunIsFinite
<1>6. \A i \in 1..Len(q) : i + 1 \in 1..Len(ready) /\ q[i] = ready[i + 1]
  BY <1>0, <1>1, TailItems
<1>7. DrainVanishes(d) \/ DrainStops(d) \/ DrainSlice(d) \/ DrainEnds(d)
  BY DEF RunDrain
<1>8. ~d.started /\ ~d.cancelled => Todo(d) # <<>>
  BY <1>0, <1>1, <1>2 DEF QueueFilled, BuffersFilled, Todo
<1>9. CASE DrainVanishes(d)
  <2>1. ready' = q /\ UNCHANGED <<feedbuf, gc>> /\ ~d.started
    BY <1>9 DEF DrainVanishes
  <2>2. QueueFilled(ready', feedbuf') /\ BegunIds(ready') = BegunIds(ready)
    BY <1>4, <2>1
  <2> QED BY <2>1, <2>2, CollectorRests
<1>10. CASE DrainStops(d) \/ DrainEnds(d)
  <2>1. ready' = q /\ UNCHANGED feedbuf /\ gc' = Left(gc)
    BY <1>10 DEF DrainStops, DrainEnds
  <2>2. d.started
    BY <1>8, <1>10 DEF DrainStops, DrainEnds
  <2>3. CollectorOK(gc, Cardinality(BegunIds(q) \cup {d.id}))
    BY <1>0, <1>4, <2>2
  <2> HIDE DEF d, q
  <2>4. CollectorOK(Left(gc), Cardinality(BegunIds(q)))
    BY <1>4, <1>5, <2>3, LeftCounts
  <2> QED BY <1>4, <2>1, <2>4
<1>11. CASE DrainSlice(d)
  <2> DEFINE e == Drain(d.pane, d.id, TRUE, FALSE, Tail(Todo(d)))
  <2>1. /\ ready' = Append(q, e)
        /\ feedbuf' = IF d.rest # <<>> THEN feedbuf ELSE [feedbuf EXCEPT ![d.pane] = <<>>]
        /\ gc' = IF d.started THEN gc ELSE Entered(gc)
        /\ ~d.cancelled /\ Todo(d) # <<>>
    BY <1>11 DEF DrainSlice
  <2>2. e \in Events
    <3>1. Tail(Todo(d)) \in Seq(Pieces)
      BY <1>3, <2>1
    <3> HIDE DEF d
    <3> QED BY <1>3, <3>1, DrainIsEvent
  <2>3. e.t = "drain" /\ IsDrain(e) /\ e.id = d.id /\ e.started
    BY DEF Drain, IsDrain
  <2>4. QueueFilled(q, feedbuf')
    <3>1. ASSUME NEW i \in 1..Len(q), IsDrain(q[i]), ~q[i].cancelled
          PROVE  q[i].pane # d.pane
      <4> SUFFICES ASSUME q[i].pane = d.pane
                   PROVE  FALSE
        OBVIOUS
      <4>1. LiveDrain(ready[1], d.pane) /\ LiveDrain(ready[i + 1], d.pane)
        BY <1>1, <1>2, <1>6, <2>1, <3>1 DEF LiveDrain, IsDrain
      <4>2. 1 = i + 1
        BY <1>0, <1>2, <1>3, <1>6, <4>1 DEF QueueOK, OneEach
      <4> QED BY <4>2
    <3>2. ASSUME NEW i \in 1..Len(q), IsDrain(q[i]), ~q[i].cancelled, ~q[i].started
          PROVE  feedbuf'[q[i].pane] # <<>>
      <4>1. q[i].pane \in Panes /\ feedbuf[q[i].pane] # <<>>
        BY <1>4, <3>2, EventKinds DEF QueueFilled, BuffersFilled
      <4>2. feedbuf'[q[i].pane] = feedbuf[q[i].pane]
        <5> HIDE DEF d, q
        <5> QED BY <1>0, <2>1, <3>1, <3>2, <4>1 DEF Types
      <4> QED BY <4>1, <4>2
    <3> QED BY <1>4, <3>2 DEF QueueFilled, BuffersFilled
  <2> HIDE DEF e, d, q
  <2>5. /\ QueueFilled(Append(q, e), feedbuf')
        /\ BegunIds(Append(q, e)) = BegunIds(q) \cup (IF IsDrain(e) /\ e.started THEN {e.id} ELSE {})
    BY <1>4, <2>2, <2>3, <2>4, AppendApart
  <2>6. QueueFilled(ready', feedbuf') /\ BegunIds(ready') = BegunIds(q) \cup {d.id}
    BY <2>1, <2>3, <2>5
  <2>7. CASE d.started
    <3>1. BegunIds(ready') = BegunIds(ready) /\ gc' = gc
      BY <1>4, <2>1, <2>6, <2>7
    <3> QED BY <1>0, <2>6, <3>1
  <2>8. CASE ~d.started
    <3>1. CollectorOK(gc, Cardinality(BegunIds(q))) /\ gc' = Entered(gc)
      BY <1>0, <1>4, <2>1, <2>8
    <3>2. CollectorOK(Entered(gc), Cardinality(BegunIds(q) \cup {d.id}))
      BY <1>4, <1>5, <3>1, EnteredCounts
    <3> QED BY <2>6, <3>1, <3>2
  <2> QED BY <2>7, <2>8
<1> QED BY <1>7, <1>9, <1>10, <1>11

LEMMA CollectorInit == Init => CollectorInv
<1> SUFFICES ASSUME Init
             PROVE  QueueFilled(ready, feedbuf) /\ CollectorOK(gc, Cardinality(BegunIds(ready)))
  BY DrainInvInit DEF CollectorInv
<1>1. ready = <<>> /\ gc = [on |-> TRUE, was |-> TRUE, depth |-> 0]
  BY DEF Init
<1>2. BegunIds(<<>>) = {} /\ Cardinality({}) = 0
  BY FS_EmptySet DEF BegunIds, Begun
<1>3. CollectorOK(gc, Cardinality(BegunIds(ready)))
  BY <1>1, <1>2 DEF CollectorOK
<1> QED BY <1>1, <1>3 DEF QueueFilled, DrainsApart, DataFilled, BuffersFilled

LEMMA CollectorKept == CollectorInv /\ [Next]_vars => CollectorInv'
<1> DEFINE Goal == QueueFilled(ready', feedbuf') /\ CollectorOK(gc', Cardinality(BegunIds(ready')))
<1> SUFFICES ASSUME CollectorInv, [Next]_vars
             PROVE  Goal
  BY DrainInvKept DEF CollectorInv
<1>0. Types /\ ready \in Seq(Events) /\ QueueOK(ready) /\ QueueFilled(ready, feedbuf)
  BY DEF CollectorInv, DrainInv, Types
<1>1. ASSUME NEW p \in Panes,
             ShellExits(p) \/ Select(p) \/ ThreadEnters(p) \/ ThreadPosts(p) \/ ThreadEnds(p)
      PROVE  Goal
  BY <1>1, ArrivalFilled
<1>2. ASSUME NEW p \in Panes, Respawn(p) \/ ClosePane(p)
      PROVE  Goal
  <2>1. PaneEof(p, ready) \/ Respawn(p)
    BY <1>2 DEF ClosePane
  <2> HIDE DEF Goal
  <2>2. QueueFilled(ready', feedbuf') /\ CollectorOK(gc', Cardinality(BegunIds(ready')))
    BY <1>0, <2>1, PaneEofFilled
  <2> QED BY <2>2 DEF Goal
<1>3. CASE RunRead \/ RunData \/ RunEof
  BY <1>3, CallbackFilled
<1>4. CASE RunDrain
  BY <1>4, DrainTurnFilled
<1>5. CASE Restart
  <2>1. StopFeed(up) /\ ready' = Cancelled(ready, up) /\ UNCHANGED gc /\ up \subseteq Panes
    BY <1>0, <1>5 DEF Restart, Types
  <2>2. QueueFilled(ready', feedbuf') /\ BegunIds(ready') = BegunIds(ready)
    BY <1>0, <2>1, CancelledApart
  <2> QED BY <2>1, <2>2, CollectorRests
<1>6. CASE Exec
  <2>1. ready' = <<>> /\ gc' = [on |-> TRUE, was |-> TRUE, depth |-> 0]
    BY <1>6 DEF Exec
  <2>2. BegunIds(<<>>) = {} /\ Cardinality({}) = 0
    BY FS_EmptySet DEF BegunIds, Begun
  <2>3. CollectorOK(gc', Cardinality(BegunIds(ready')))
    BY <2>1, <2>2 DEF CollectorOK
  <2> QED BY <2>1, <2>3 DEF QueueFilled, DrainsApart, DataFilled, BuffersFilled
<1>7. CASE UNCHANGED vars
  BY <1>7 DEF vars, CollectorInv
<1> QED BY <1>1, <1>2, <1>3, <1>4, <1>5, <1>6, <1>7 DEF Next, RunReady

\* The collector is off exactly while drains run, and comes back on when the last
\* of them ends, in whatever order the drains of several panes begin, end and are
\* cancelled before or after their first turn (_gc_drain_enter, _gc_drain_exit).
THEOREM CollectorBackCorrect == Spec => []CollectorBack
<1>1. ASSUME CollectorInv
      PROVE  CollectorBack
  <2> DEFINE S == {e \in ToSet(ready) : IsDrain(e) /\ e.started}
             n == Cardinality(BegunIds(ready))
             f == [e \in S |-> e.id]
  <2>1. ready \in Seq(Events) /\ DrainsApart(ready) /\ CollectorOK(gc, n)
    BY <1>1 DEF CollectorInv, DrainInv, Types, QueueFilled
  <2>2. \A e \in S : \E i \in Begun(ready) : ready[i] = e
    BY DEF ToSet, Begun
  <2>3. \A i \in Begun(ready) : ready[i] \in S
    BY DEF ToSet, Begun
  <2>4. ASSUME NEW e1 \in S, NEW e2 \in S, e1.id = e2.id
        PROVE  e1 = e2
    <3>1. PICK i \in Begun(ready) : ready[i] = e1
      BY <2>2
    <3>2. PICK j \in Begun(ready) : ready[j] = e2
      BY <2>2
    <3>3. i = j
      BY <2>1, <2>4, <3>1, <3>2 DEF DrainsApart, Begun
    <3> QED BY <3>1, <3>2, <3>3
  <2>5. \A e \in S : e.id \in BegunIds(ready)
    BY <2>2 DEF BegunIds
  <2>6. \A id \in BegunIds(ready) : \E e \in S : e.id = id
    BY <2>3 DEF BegunIds
  <2>7. IsFiniteSet(S)
    <3> DEFINE g == [i \in Begun(ready) |-> ready[i]]
    <3>1. g \in Surjection(Begun(ready), S)
      BY <2>2, <2>3 DEF Surjection
    <3>2. IsFiniteSet(Begun(ready))
      BY <2>1, FS_Interval, FS_Subset DEF Begun
    <3> QED BY <3>1, <3>2, FS_Surjection
  <2> HIDE DEF S
  <2>8. f \in Bijection(S, BegunIds(ready))
    BY <2>4, <2>5, <2>6 DEF Bijection, Injection, Surjection, IsInjective
  <2>9. Cardinality(S) = n
    BY <2>7, <2>8, FS_Bijection DEF ExistsBijection
  <2>10. n \in Nat
    BY <2>1, BegunIsFinite, FS_CardinalityType
  <2> HIDE DEF n
  <2>11. gc.depth = Cardinality(S) /\ (gc.on <=> gc.depth = 0)
    BY <2>1, <2>9 DEF CollectorOK
  <2> QED BY <2>11 DEF CollectorBack, S
<1> QED BY <1>1, CollectorInit, CollectorKept, PTL DEF Spec

-----------------------------------------------------------------------------
(* Types, with their bounds: every chunk anywhere is one that a shell of   *)
(* some pane has written.                                                  *)

Written(cs) == \A i \in 1..Len(cs) : cs[i] \in Chunks

NumbersOK ==
  /\ events \in 0..MaxEvents
  /\ shell \in [Panes -> 1..(events + 1)]
  /\ taken \in [Panes -> 0..Len(Script)]
AttachedOK == ended \subseteq Panes /\ reading \subseteq up /\ inRead \subseteq up
ScreensWritten(f, b) == \A p \in Panes : Written(f[p]) /\ Written(b[p])
SavedWritten(s) == \A p \in DOMAIN s : Written(s[p])
QueueWritten(q) ==
  \A i \in 1..Len(q) :
    /\ q[i].t = "data" => Written(q[i].chunks)
    /\ q[i].t = "drain" => Written(q[i].rest)
ChunksOK == ScreensWritten(fed, feedbuf) /\ SavedWritten(saved) /\ QueueWritten(ready)

FeedTypeInv == CollectorInv /\ NumbersOK /\ AttachedOK /\ ChunksOK

\* The parts and the sums of what was written were written.
LEMMA WrittenParts ==
  /\ Written(<<>>)
  /\ \A cs \in Seq(Pieces) : \A ds : Written(cs) /\ Suffix(ds, cs) => Written(ds)
  /\ \A a, b \in Seq(Pieces) : Written(a) /\ Written(b) => Written(a \o b)
<1>1. Written(<<>>)
  BY DEF Written
<1>2. ASSUME NEW cs \in Seq(Pieces), NEW ds, Written(cs), Suffix(ds, cs)
      PROVE  Written(ds)
  <2>1. PICK k \in Nat : Shift(ds, cs, k)
    BY <1>2 DEF Suffix
  <2> QED BY <1>2, <2>1 DEF Shift, Written
<1>3. ASSUME NEW a \in Seq(Pieces), NEW b \in Seq(Pieces), Written(a), Written(b)
      PROVE  Written(a \o b)
  <2>1. /\ Len(a \o b) = Len(a) + Len(b)
        /\ \A i \in 1..(Len(a) + Len(b)) :
             (a \o b)[i] = IF i <= Len(a) THEN a[i] ELSE b[i - Len(a)]
    BY ConcatProperties
  <2>2. ASSUME NEW i \in 1..(Len(a) + Len(b))
        PROVE  (a \o b)[i] \in Chunks
    <3>1. CASE i <= Len(a)
      <4>1. i \in 1..Len(a)
        BY <3>1
      <4> QED BY <1>3, <2>1, <3>1, <4>1 DEF Written
    <3>2. CASE ~(i <= Len(a))
      <4>1. i - Len(a) \in 1..Len(b)
        BY <3>2
      <4> QED BY <1>3, <2>1, <3>2, <4>1 DEF Written
    <3> QED BY <3>1, <3>2
  <2> QED BY <2>1, <2>2 DEF Written
<1> QED BY <1>1, <1>2, <1>3

\* What a drain hands over, and what it keeps.
LEMMA WrittenSlice ==
  ASSUME NEW f \in Seq(Pieces), NEW t \in Seq(Pieces), t # <<>>, Written(f), Written(t)
  PROVE  Written(Append(f, Head(t))) /\ Written(Tail(t))
<1>1. Written(Tail(t))
  BY TailIsSuffix, WrittenParts
<1>2. Head(t) \in Chunks /\ Head(t) \in Pieces
  <2>1. 1 \in 1..Len(t) /\ Head(t) = t[1] /\ t[1] \in Pieces
    OBVIOUS
  <2> QED BY <2>1 DEF Written
<1>3. /\ Len(Append(f, Head(t))) = Len(f) + 1
      /\ \A i \in 1..(Len(f) + 1) : Append(f, Head(t))[i] = IF i = Len(f) + 1 THEN Head(t) ELSE f[i]
  BY <1>2
<1>4. \A i \in 1..(Len(f) + 1) : i = Len(f) + 1 \/ i \in 1..Len(f)
  OBVIOUS
<1>5. Written(Append(f, Head(t)))
  BY <1>2, <1>3, <1>4 DEF Written
<1> QED BY <1>1, <1>5

\* What a read returns was written.
LEMMA WrittenReads ==
  ASSUME Types, NumbersOK, NEW STATE p, p \in Panes, NEW STATE cs, cs \in Reads(p)
  PROVE  /\ Written(cs) /\ cs \in Seq(Pieces) /\ Len(cs) \in Nat
         /\ taken[p] + Len(cs) \in 0..Len(Script)
<1>1. PICK k \in 1..Min({Batch, Len(Script) - taken[p]}) :
        cs = [i \in 1..k |-> Chunk(shell[p], taken[p] + i)]
  BY DEF Reads
<1>2. cs \in Seq(Pieces) /\ Len(cs) \in Nat
  BY ReadsOrdered
<1>3. /\ Batch \in Int /\ Len(Script) \in Nat /\ DOMAIN Script = 1..Len(Script)
      /\ taken[p] \in 0..Len(Script) /\ shell[p] \in 1..(MaxEvents + 1)
  BY FeedAssumption DEF NumbersOK
<1>4. k \in Nat /\ k <= Len(Script) - taken[p]
  <2> DEFINE m == Len(Script) - taken[p]
  <2>1. m \in Int
    BY <1>3
  <2>2. Min({Batch, m}) \in Int /\ Min({Batch, m}) <= m
    BY <1>3, <2>1, MinOfTwo
  <2> QED BY <2>1, <2>2
<1>5. DOMAIN cs = 1..k /\ Len(cs) = k
  BY <1>1, <1>2, <1>4
<1>6. ASSUME NEW i \in 1..k
      PROVE  cs[i] \in Chunks
  <2>1. taken[p] + i \in DOMAIN Script
    BY <1>3, <1>4
  <2>2. cs[i] = Chunk(shell[p], taken[p] + i)
    BY <1>1
  <2> QED BY <1>3, <2>1, <2>2 DEF Chunks
<1> QED BY <1>2, <1>3, <1>4, <1>5, <1>6 DEF Written

\* What the program does, what is read and what the user asks for.
LEMMA NumbersKept ==
  ASSUME Types, NumbersOK, [Next]_vars
  PROVE  NumbersOK'
<1>0. MaxEvents \in Nat /\ Len(Script) \in Nat /\ ready \in Seq(Events)
  BY FeedAssumption DEF Types
<1>1. CASE UNCHANGED <<events, shell, taken>>
  BY <1>1 DEF NumbersOK
<1>2. ASSUME NEW STATE p, p \in Panes, NEW STATE cs, cs \in Reads(p), UNCHANGED <<events, shell>>,
             taken' = [taken EXCEPT ![p] = @ + Len(cs)]
      PROVE  NumbersOK'
  <2>1. taken[p] + Len(cs) \in 0..Len(Script)
    BY <1>2, WrittenReads
  <2> QED BY <1>2, <2>1 DEF NumbersOK
<1>3. ASSUME NEW p \in Panes, ThreadPosts(p)
      PROVE  NumbersOK'
  BY <1>2, <1>3 DEF ThreadPosts, restartVars
<1>4. CASE RunRead
  <2> DEFINE p == Head(ready).pane
  <2>1. p \in Panes
    BY <1>0, <1>4, HeadIsEvent, EventKinds DEF RunRead, Runs
  <2>2. CASE PaneEof(p, Tail(ready))
    BY <1>1, <2>2 DEF PaneEof, restartVars
  <2>3. CASE ~PaneEof(p, Tail(ready))
    <3>1. /\ \E cs \in Reads(p) : taken' = [taken EXCEPT ![p] = @ + Len(cs)]
          /\ UNCHANGED <<events, shell>>
      BY <1>4, <2>3 DEF RunRead, restartVars
    <3> HIDE DEF p
    <3> QED BY <1>2, <2>1, <3>1
  <2> QED BY <2>2, <2>3
<1>5. ASSUME NEW p \in Panes, Respawn(p)
      PROVE  NumbersOK'
  <2>1. /\ events < MaxEvents /\ events' = events + 1
        /\ shell' = [shell EXCEPT ![p] = @ + 1] /\ taken' = [taken EXCEPT ![p] = 0]
    BY <1>5 DEF Respawn
  <2>2. events' \in 0..MaxEvents /\ taken' \in [Panes -> 0..Len(Script)]
    BY <1>0, <2>1 DEF NumbersOK
  <2>3. shell' \in [Panes -> 1..(events' + 1)]
    BY <1>0, <2>1 DEF NumbersOK
  <2> QED BY <2>2, <2>3 DEF NumbersOK
<1>6. CASE Restart
  <2>1. events < MaxEvents /\ events' = events + 1 /\ UNCHANGED <<shell, taken>>
    BY <1>6 DEF Restart, ptyVars
  <2>2. shell' \in [Panes -> 1..(events' + 1)]
    BY <1>0, <2>1 DEF NumbersOK
  <2> QED BY <1>0, <2>1, <2>2 DEF NumbersOK
<1>7. ASSUME NEW p \in Panes,
             ShellExits(p) \/ Select(p) \/ ThreadEnters(p) \/ ThreadEnds(p) \/ ClosePane(p)
      PROVE  NumbersOK'
  BY <1>1, <1>7
  DEF ShellExits, Select, ThreadEnters, ThreadEnds, ClosePane, PaneEof, ptyVars, restartVars
<1>8. CASE RunData \/ RunEof \/ RunDrain
  BY <1>1, <1>8 DEF RunData, RunEof, RunDrain, PaneEof, ptyVars, restartVars
<1>9. CASE Exec
  BY <1>1, <1>9 DEF Exec, ptyVars
<1>10. CASE UNCHANGED vars
  BY <1>1, <1>10 DEF vars
<1> QED BY <1>3, <1>4, <1>5, <1>6, <1>7, <1>8, <1>9, <1>10 DEF Next, RunReady

\* Only open panes have a reader.
LEMMA AttachedKept ==
  ASSUME Types, AttachedOK, [Next]_vars
  PROVE  AttachedOK'
<1>1. CASE UNCHANGED <<ended, reading, inRead, up>>
  BY <1>1 DEF AttachedOK
<1>2. ASSUME NEW p \in Panes, ShellExits(p)
      PROVE  AttachedOK'
  BY <1>2 DEF ShellExits, AttachedOK, readVars
<1>3. ASSUME NEW p \in Panes,
             Select(p) \/ ThreadEnters(p) \/ ThreadPosts(p) \/ ThreadEnds(p)
      PROVE  AttachedOK'
  BY <1>3 DEF Select, ThreadEnters, ThreadPosts, ThreadEnds, AttachedOK, ptyVars, readVars
<1>4. ASSUME NEW STATE p, NEW STATE q, PaneEof(p, q)
      PROVE  AttachedOK'
  BY <1>4 DEF PaneEof, AttachedOK
<1>5. ASSUME NEW STATE p, NEW STATE cs, NEW STATE q, OnPaneData(p, cs, q), UNCHANGED <<ended, inRead, up>>
      PROVE  AttachedOK'
  BY <1>5 DEF OnPaneData, JoinDrain, FeedInline, BeginDrain, AttachedOK
<1>6. CASE RunRead
  <2>1. CASE PaneEof(Head(ready).pane, Tail(ready))
    BY <1>4, <2>1
  <2>2. CASE ~PaneEof(Head(ready).pane, Tail(ready))
    <3>1. /\ \E cs \in Reads(Head(ready).pane) : OnPaneData(Head(ready).pane, cs, Tail(ready))
          /\ UNCHANGED <<ended, inRead, up>>
      BY <1>6, <2>2 DEF RunRead
    <3> QED BY <1>5, <3>1
  <2> QED BY <2>1, <2>2
<1>7. CASE RunData
  <2>1. UNCHANGED <<ended, inRead, up>>
    BY <1>7 DEF RunData, ptyVars
  <2>2. CASE OnPaneData(Head(ready).pane, Head(ready).chunks, Tail(ready))
    BY <1>5, <2>1, <2>2
  <2>3. CASE UNCHANGED reading
    BY <1>1, <2>1, <2>3
  <2> QED BY <1>7, <2>2, <2>3 DEF RunData
<1>8. CASE RunEof
  <2>1. CASE PaneEof(Head(ready).pane, Tail(ready))
    BY <1>4, <2>1
  <2>2. CASE ~PaneEof(Head(ready).pane, Tail(ready))
    BY <1>1, <1>8, <2>2 DEF RunEof, ptyVars, readVars
  <2> QED BY <2>1, <2>2
<1>9. CASE RunDrain
  BY <1>9 DEF RunDrain, DrainVanishes, DrainStops, DrainSlice, DrainEnds, AttachedOK, ptyVars
<1>10. ASSUME NEW p \in Panes, Respawn(p)
       PROVE  AttachedOK'
  BY <1>10 DEF Respawn, AttachedOK
<1>11. ASSUME NEW p \in Panes, ClosePane(p)
       PROVE  AttachedOK'
  BY <1>4, <1>11 DEF ClosePane
<1>12. CASE Restart
  BY <1>1, <1>12 DEF Restart, ptyVars, readVars
<1>13. CASE Exec
  BY <1>13 DEF Exec, AttachedOK, ptyVars
<1>14. CASE UNCHANGED vars
  BY <1>1, <1>14 DEF vars
<1> QED
  BY <1>2, <1>3, <1>6, <1>7, <1>8, <1>9, <1>10, <1>11, <1>12, <1>13, <1>14 DEF Next, RunReady

\* The queue loses callbacks, or gets one.
LEMMA ThinnedWritten ==
  ASSUME NEW q, NEW r, Thinned(q, r), QueueWritten(r)
  PROVE  QueueWritten(q)
BY DEF Thinned, Places, QueueWritten

LEMMA AppendWritten ==
  ASSUME NEW q \in Seq(Events), QueueWritten(q), NEW e \in Events,
         e.t = "data" => Written(e.chunks), e.t = "drain" => Written(e.rest)
  PROVE  QueueWritten(Append(q, e))
<1> DEFINE r == Append(q, e)
<1>1. /\ Len(r) = Len(q) + 1 /\ r[Len(q) + 1] = e
      /\ \A i \in 1..Len(q) : r[i] = q[i]
      /\ \A i \in 1..(Len(q) + 1) : i \in 1..Len(q) \/ i = Len(q) + 1
  BY AppendEvent
<1> HIDE DEF r
<1> SUFFICES ASSUME NEW i \in 1..(Len(q) + 1)
             PROVE  /\ r[i].t = "data" => Written(r[i].chunks)
                    /\ r[i].t = "drain" => Written(r[i].rest)
  BY <1>1 DEF QueueWritten, r
<1> QED BY <1>1 DEF QueueWritten

\* A feed that is stopped, with whatever then leaves the queue.
LEMMA StopWritten ==
  ASSUME Types, NEW STATE q, q \in Seq(Events), QueueWritten(q), NEW STATE ps, StopFeed(ps),
         ScreensWritten(fed, feedbuf)
  PROVE  /\ Cancelled(q, ps) \in Seq(Events) /\ QueueWritten(Cancelled(q, ps))
         /\ \A p : QueueWritten(Unread(Cancelled(q, ps), p))
         /\ \A p \in Panes : Written(feedbuf'[p])
<1> DEFINE c == Cancelled(q, ps)
<1>1. /\ c \in Seq(Events) /\ Len(c) = Len(q)
      /\ \A i \in 1..Len(q) :
              \/ c[i] = q[i]
                   /\ ~(q[i].t = "drain" /\ q[i].pane \in ps /\ q[i].id = task[q[i].pane])
              \/ /\ q[i].t = "drain" /\ q[i].pane \in ps /\ q[i].id = task[q[i].pane]
                 /\ c[i] = [q[i] EXCEPT !.cancelled = TRUE]
  BY CancelledKeeps
<1> HIDE DEF c
<1>2. ASSUME NEW i \in 1..Len(q)
      PROVE  /\ c[i].t = "data" => Written(c[i].chunks)
             /\ c[i].t = "drain" => Written(c[i].rest)
  <2>1. CASE c[i] = q[i]
    BY <2>1 DEF QueueWritten
  <2>2. CASE q[i].t = "drain" /\ c[i] = [q[i] EXCEPT !.cancelled = TRUE]
    <3>1. q[i] = Drain(q[i].pane, q[i].id, q[i].started, q[i].cancelled, q[i].rest)
      BY <2>2, EventKinds
    <3>2. c[i] = Drain(q[i].pane, q[i].id, q[i].started, TRUE, q[i].rest)
      BY <2>2, <3>1 DEF Drain
    <3>3. c[i].t = "drain" /\ c[i].rest = q[i].rest
      BY <3>2 DEF Drain
    <3> QED BY <2>2, <3>3 DEF QueueWritten
  <2> QED BY <1>1, <2>1, <2>2
<1>3. QueueWritten(c)
  BY <1>1, <1>2 DEF QueueWritten
<1>4. \A p : QueueWritten(Unread(c, p))
  BY <1>1, <1>3, UnreadIsThinned, ThinnedWritten
<1>5. \A p \in Panes : Written(feedbuf'[p])
  <2>1. \A p \in Panes : feedbuf'[p] = <<>> \/ feedbuf'[p] = feedbuf[p]
    BY DEF StopFeed
  <2> QED BY <2>1, WrittenParts DEF ScreensWritten
<1> QED BY <1>1, <1>3, <1>4, <1>5 DEF c

\* Chunks are handed to a pane.
LEMMA OnPaneDataWritten ==
  ASSUME Types, NEW STATE p, p \in Panes, NEW STATE cs, cs \in Seq(Pieces), Written(cs),
         NEW STATE q, q \in Seq(Events), QueueWritten(q), ScreensWritten(fed, feedbuf),
         OnPaneData(p, cs, q)
  PROVE  ScreensWritten(fed', feedbuf') /\ QueueWritten(ready')
<1> DEFINE b == Coalesced(p, feedbuf[p] \o cs)
<1>1. fed[p] \in Seq(Pieces) /\ feedbuf[p] \in Seq(Pieces) /\ Written(fed[p]) /\ Written(feedbuf[p])
  BY DEF Types, ScreensWritten
<1>2. Written(b)
  <2>1. feedbuf[p] \o cs \in Seq(Pieces) /\ Written(feedbuf[p] \o cs)
    BY <1>1, ConcatProperties, WrittenParts
  <2>2. Suffix(b, feedbuf[p] \o cs)
    BY <2>1, CoalescedIsSuffix
  <2> QED BY <2>1, <2>2, WrittenParts
<1>3. Written(fed[p] \o cs)
  BY <1>1, WrittenParts
<1> HIDE DEF b
<1>4. ASSUME feedbuf' = [feedbuf EXCEPT ![p] = b], UNCHANGED fed
      PROVE  ScreensWritten(fed', feedbuf')
  BY <1>2, <1>4 DEF ScreensWritten, Types
<1>5. CASE JoinDrain(p, cs, q)
  BY <1>4, <1>5 DEF JoinDrain, b
<1>6. CASE FeedInline(p, cs, q)
  BY <1>3, <1>6 DEF FeedInline, ScreensWritten, Types
<1>7. CASE BeginDrain(p, cs, q)
  <2> DEFINE e == Drain(p, FreeId, FALSE, FALSE, <<>>)
             r == Unread(q, p)
  <2>1. ready' = Append(r, e)
    BY <1>7 DEF BeginDrain
  <2>2. r \in Seq(Events) /\ QueueWritten(r)
    BY UnreadIsThinned, ThinnedWritten DEF Thinned
  <2>3. e \in Events
    <3>1. <<>> \in Seq(Pieces) /\ FALSE \in BOOLEAN
      OBVIOUS
    <3> QED BY <3>1, FreeIdExists, DrainIsEvent DEF Types
  <2>4. e.t = "drain" /\ e.rest = <<>>
    BY DEF Drain
  <2> HIDE DEF e, r
  <2>5. QueueWritten(ready')
    BY <2>1, <2>2, <2>3, <2>4, AppendWritten, WrittenParts
  <2> QED BY <1>4, <1>7, <2>5 DEF BeginDrain, b
<1> QED BY <1>5, <1>6, <1>7 DEF OnPaneData

\* The turns of the loop that feed a pane or end it.
LEMMA CallbackWritten ==
  ASSUME Types, NumbersOK, ChunksOK, RunRead \/ RunData \/ RunEof
  PROVE  ChunksOK'
<1> DEFINE e == Head(ready)
           q == Tail(ready)
<1>0. ready \in Seq(Events)
  BY DEF Types
<1>1. /\ ready # <<>> /\ (RunData => e.t = "data")
  BY DEF RunRead, RunData, RunEof, Runs
<1>2. e = ready[1] /\ e \in Events /\ 1 \in 1..Len(ready) /\ q \in Seq(Events) /\ e.pane \in Panes
  BY <1>1, HeadIsEvent, EventKinds
<1>3. QueueWritten(q)
  BY <1>0, <1>1, TailIsThinned, ThinnedWritten DEF ChunksOK
<1>4. e.t = "data" => e.chunks \in Seq(Pieces) /\ Written(e.chunks)
  BY <1>2, EventKinds DEF ChunksOK, QueueWritten
<1>5. ASSUME NEW STATE cs, cs \in Seq(Pieces), Written(cs), OnPaneData(e.pane, cs, q), UNCHANGED saved
      PROVE  ChunksOK'
  <2> HIDE DEF e, q
  <2>1. ScreensWritten(fed', feedbuf') /\ QueueWritten(ready')
    BY <1>2, <1>3, <1>5, OnPaneDataWritten DEF ChunksOK
  <2> QED BY <1>5, <2>1 DEF ChunksOK
<1>6. ASSUME PaneEof(e.pane, q)
      PROVE  ChunksOK'
  <2> HIDE DEF e, q
  <2>1. /\ StopFeed({e.pane}) /\ ready' = Unread(Cancelled(q, {e.pane}), e.pane)
        /\ UNCHANGED <<fed, saved>>
    BY <1>6 DEF PaneEof, restartVars
  <2>2. QueueWritten(ready') /\ \A p \in Panes : Written(feedbuf'[p])
    BY <1>2, <1>3, <2>1, StopWritten DEF ChunksOK
  <2> QED BY <2>1, <2>2 DEF ChunksOK, ScreensWritten
<1>7. ASSUME ready' = q, UNCHANGED <<fed, feedbuf, saved>>
      PROVE  ChunksOK'
  BY <1>3, <1>7 DEF ChunksOK
<1>8. CASE RunRead
  <2>1. CASE ~PaneEof(e.pane, q)
    <3>1. PICK cs \in Reads(e.pane) : OnPaneData(e.pane, cs, q)
      BY <1>8, <2>1 DEF RunRead
    <3>2. cs \in Seq(Pieces) /\ Written(cs)
      <4> HIDE DEF e
      <4> QED BY <1>2, WrittenReads
    <3>3. UNCHANGED saved
      BY <1>8, <2>1 DEF RunRead, restartVars
    <3> QED BY <1>5, <3>1, <3>2, <3>3
  <2> QED BY <1>6, <2>1
<1>9. CASE RunData
  <2>1. UNCHANGED saved
    BY <1>9 DEF RunData, restartVars
  <2>2. CASE OnPaneData(e.pane, e.chunks, q)
    BY <1>1, <1>4, <1>5, <1>9, <2>1, <2>2
  <2>3. CASE ready' = q /\ UNCHANGED <<fed, feedbuf>>
    BY <1>7, <2>1, <2>3
  <2> QED BY <1>9, <2>2, <2>3 DEF RunData
<1>10. CASE RunEof
  <2>1. CASE ~PaneEof(e.pane, q)
    <3>1. ready' = q /\ UNCHANGED <<fed, feedbuf, saved>>
      BY <1>10, <2>1 DEF RunEof, restartVars
    <3> QED BY <1>7, <3>1
  <2> QED BY <1>6, <2>1
<1> QED BY <1>8, <1>9, <1>10

\* A turn of a drain.
LEMMA DrainTurnWritten ==
  ASSUME Types, ChunksOK, RunDrain
  PROVE  ChunksOK'
<1> DEFINE d == Head(ready)
           q == Tail(ready)
<1>0. ready \in Seq(Events) /\ UNCHANGED saved
  BY DEF Types, RunDrain, restartVars
<1>1. ready # <<>> /\ d.t = "drain"
  BY DEF RunDrain, Runs
<1>2. /\ d = ready[1] /\ d \in Events /\ 1 \in 1..Len(ready) /\ q \in Seq(Events)
      /\ d.pane \in Panes /\ d.id \in Nat \ {0} /\ Todo(d) \in Seq(Pieces)
  BY <1>1, HeadIsEvent, EventKinds, TodoTypes
<1>3. QueueWritten(q)
  BY <1>0, <1>1, TailIsThinned, ThinnedWritten DEF ChunksOK
<1>4. Written(Todo(d))
  BY <1>1, <1>2 DEF ChunksOK, QueueWritten, ScreensWritten, Todo
<1>5. DrainVanishes(d) \/ DrainStops(d) \/ DrainSlice(d) \/ DrainEnds(d)
  BY DEF RunDrain
<1>6. CASE DrainVanishes(d) \/ DrainStops(d) \/ DrainEnds(d)
  <2>1. ready' = q /\ UNCHANGED <<fed, feedbuf>>
    BY <1>6 DEF DrainVanishes, DrainStops, DrainEnds
  <2> QED BY <1>0, <1>3, <2>1 DEF ChunksOK
<1>7. CASE DrainSlice(d)
  <2> DEFINE t == Todo(d)
             e == Drain(d.pane, d.id, TRUE, FALSE, Tail(t))
  <2>1. /\ ready' = Append(q, e) /\ t # <<>>
        /\ fed' = [fed EXCEPT ![d.pane] = Append(@, Head(t))]
        /\ feedbuf' = IF d.rest # <<>> THEN feedbuf ELSE [feedbuf EXCEPT ![d.pane] = <<>>]
    BY <1>7 DEF DrainSlice
  <2>2. /\ e \in Events /\ e.t = "drain" /\ e.rest = Tail(t)
    <3>1. Tail(t) \in Seq(Pieces)
      BY <1>2, <2>1
    <3>2. e.t = "drain" /\ e.rest = Tail(t)
      BY DEF Drain
    <3> HIDE DEF d, t
    <3> QED BY <1>2, <3>1, <3>2, DrainIsEvent
  <2> HIDE DEF t, e, d, q
  <2>3. fed[d.pane] \in Seq(Pieces) /\ Written(fed[d.pane]) /\ t \in Seq(Pieces) /\ Written(t)
    BY <1>2, <1>4 DEF t, Types, ChunksOK, ScreensWritten
  <2>4. Written(Append(fed[d.pane], Head(t))) /\ Written(Tail(t))
    BY <2>1, <2>3, WrittenSlice
  <2>5. QueueWritten(ready')
    BY <1>2, <1>3, <2>1, <2>2, <2>4, AppendWritten
  <2>6. \A p \in Panes : Written(fed'[p])
    BY <1>2, <2>1, <2>4 DEF Types, ChunksOK, ScreensWritten
  <2>7. \A p \in Panes : Written(feedbuf'[p])
    BY <1>2, <2>1, WrittenParts DEF Types, ChunksOK, ScreensWritten
  <2> QED BY <1>0, <2>5, <2>6, <2>7 DEF ChunksOK, ScreensWritten
<1> QED BY <1>5, <1>6, <1>7

LEMMA ChunksKept ==
  ASSUME Types, NumbersOK, ChunksOK, [Next]_vars
  PROVE  ChunksOK'
<1>0. ready \in Seq(Events) /\ up \subseteq Panes
  BY DEF Types
<1>1. ASSUME NEW p \in Panes,
             ShellExits(p) \/ Select(p) \/ ThreadEnters(p) \/ ThreadPosts(p) \/ ThreadEnds(p)
      PROVE  ChunksOK'
  <2>1. UNCHANGED <<fed, feedbuf, saved>>
    BY <1>1 DEF ShellExits, Select, ThreadEnters, ThreadPosts, ThreadEnds, restartVars
  <2>2. QueueWritten(ready')
    <3>1. CASE ready' = ready
      BY <3>1 DEF ChunksOK
    <3>2. CASE Select(p)
      <4>1. ReadEvent(p) \in Events /\ ReadEvent(p).t = "read"
        BY DEF ReadEvent, Events
      <4> QED BY <1>0, <3>2, <4>1, AppendWritten DEF Select, ChunksOK
    <3>3. CASE ThreadPosts(p)
      <4>1. PICK cs \in Reads(p) : ready' = Append(ready, Posted(p, cs))
        BY <3>3 DEF ThreadPosts
      <4>2. cs \in Seq(Pieces) /\ Written(cs)
        BY WrittenReads
      <4>3. /\ Posted(p, cs) \in Events /\ Posted(p, cs).t = "data"
            /\ Posted(p, cs).chunks = cs
        BY <4>2 DEF Posted, Events, Types
      <4> QED BY <1>0, <4>1, <4>2, <4>3, AppendWritten DEF ChunksOK
    <3>4. CASE ThreadEnds(p)
      <4>1. PostedEnd(p) \in Events /\ PostedEnd(p).t = "eof"
        BY DEF PostedEnd, Events, Types
      <4> QED BY <1>0, <3>4, <4>1, AppendWritten DEF ThreadEnds, ChunksOK
    <3> QED BY <1>1, <3>1, <3>2, <3>3, <3>4 DEF ShellExits, ThreadEnters
  <2> QED BY <2>1, <2>2 DEF ChunksOK
<1>2. ASSUME NEW p \in Panes, Respawn(p) \/ ClosePane(p)
      PROVE  ChunksOK'
  <2>1. /\ StopFeed({p}) /\ ready' = Unread(Cancelled(ready, {p}), p)
        /\ UNCHANGED saved
        /\ fed' = fed \/ fed' = [fed EXCEPT ![p] = <<>>]
    BY <1>2 DEF Respawn, ClosePane, PaneEof, restartVars
  <2>2. QueueWritten(ready') /\ \A r \in Panes : Written(feedbuf'[r])
    BY <1>0, <2>1, StopWritten DEF ChunksOK
  <2>3. \A r \in Panes : Written(fed'[r])
    BY <2>1, WrittenParts DEF ChunksOK, ScreensWritten, Types
  <2> QED BY <2>1, <2>2, <2>3 DEF ChunksOK, ScreensWritten
<1>3. CASE RunRead \/ RunData \/ RunEof
  BY <1>3, CallbackWritten
<1>4. CASE RunDrain
  BY <1>4, DrainTurnWritten
<1>5. CASE Restart
  <2>1. /\ StopFeed(up) /\ ready' = Cancelled(ready, up)
        /\ fed' = [p \in Panes |-> IF p \in up THEN fed[p] \o feedbuf[p] ELSE fed[p]]
        /\ saved' = [p \in up |-> fed'[p]] \/ saved' = saved
    BY <1>5 DEF Restart
  <2>2. QueueWritten(ready') /\ \A p \in Panes : Written(feedbuf'[p])
    BY <1>0, <2>1, StopWritten DEF ChunksOK
  <2>3. ASSUME NEW p \in Panes
        PROVE  Written(fed'[p])
    <3>1. /\ fed[p] \in Seq(Pieces) /\ feedbuf[p] \in Seq(Pieces)
          /\ Written(fed[p]) /\ Written(feedbuf[p])
      BY DEF Types, ChunksOK, ScreensWritten
    <3>2. Written(fed[p] \o feedbuf[p])
      BY <3>1, WrittenParts
    <3> QED BY <2>1, <3>1, <3>2
  <2>4. SavedWritten(saved')
    BY <1>0, <2>1, <2>3 DEF ChunksOK, SavedWritten
  <2> QED BY <2>2, <2>3, <2>4 DEF ChunksOK, ScreensWritten
<1>6. CASE Exec
  <2>1. /\ saved # NotSaved /\ ready' = <<>> /\ saved' = NotSaved
        /\ fed' = [p \in Panes |-> IF p \in up THEN saved[p] ELSE fed[p]]
        /\ feedbuf' = [p \in Panes |-> <<>>]
    BY <1>6 DEF Exec
  <2>2. \A p \in up : Written(saved[p])
    BY <2>1 DEF Types, ChunksOK, SavedWritten
  <2>3. ScreensWritten(fed', feedbuf')
    BY <2>1, <2>2, WrittenParts DEF ChunksOK, ScreensWritten
  <2>4. SavedWritten(saved') /\ QueueWritten(ready')
    BY <2>1 DEF SavedWritten, QueueWritten, NotSaved
  <2> QED BY <2>3, <2>4 DEF ChunksOK
<1>7. CASE UNCHANGED vars
  BY <1>7 DEF vars, ChunksOK
<1> QED BY <1>1, <1>2, <1>3, <1>4, <1>5, <1>6, <1>7 DEF Next, RunReady

LEMMA FeedTypeInit == Init => FeedTypeInv
<1> SUFFICES ASSUME Init
             PROVE  NumbersOK /\ AttachedOK /\ ChunksOK
  BY CollectorInit DEF FeedTypeInv
<1>1. NumbersOK
  BY FeedAssumption DEF Init, NumbersOK
<1>2. AttachedOK
  BY DEF Init, AttachedOK
<1>3. ChunksOK
  BY WrittenParts DEF Init, ChunksOK, ScreensWritten, SavedWritten, QueueWritten, NotSaved
<1> QED BY <1>1, <1>2, <1>3

LEMMA FeedTypeKept == FeedTypeInv /\ [Next]_vars => FeedTypeInv'
BY CollectorKept, NumbersKept, AttachedKept, ChunksKept DEF FeedTypeInv, CollectorInv, DrainInv

\* The feed keeps its types and bounds; in particular a pane's task names a drain
\* that is in the queue, and the collector counts no more drains than there are.
THEOREM FeedTypeCorrect == Spec => []FeedTypeOK
<1>1. ASSUME FeedTypeInv
      PROVE  FeedTypeOK
  <2>0. /\ Types /\ NumbersOK /\ AttachedOK /\ ChunksOK /\ ready \in Seq(Events)
        /\ QueueOK(ready) /\ Driven(ready) /\ CollectorOK(gc, Cardinality(BegunIds(ready)))
    BY <1>1 DEF FeedTypeInv, CollectorInv, DrainInv, Types
  <2>1. shell \in [Panes -> 1..(MaxEvents + 1)]
    BY <2>0, FeedAssumption DEF NumbersOK
  <2>2. ASSUME NEW p \in Panes
        PROVE  ToSet(fed[p]) \cup ToSet(feedbuf[p]) \subseteq Chunks
    <3>1. fed[p] \in Seq(Pieces) /\ feedbuf[p] \in Seq(Pieces) /\ Written(fed[p]) /\ Written(feedbuf[p])
      BY <2>0 DEF Types, ChunksOK, ScreensWritten
    <3> QED BY <3>1 DEF ToSet, Written
  <2>3. ASSUME NEW p \in Panes
        PROVE  task[p] \in {0} \cup DrainIds
    <3>1. CASE task[p] # 0
      <4>1. PICK i \in 1..Len(ready) : LiveDrain(ready[i], p)
        BY <2>0, <3>1 DEF Driven
      <4>2. task[p] = ready[i].id
        BY <2>0, <4>1 DEF QueueOK, OneEach
      <4>3. ready[i] \in ToSet(ready) /\ IsDrain(ready[i])
        BY <4>1 DEF ToSet, LiveDrain, IsDrain
      <4> QED BY <4>2, <4>3 DEF DrainIds
    <3> QED BY <3>1
  <2>4. gc.depth \in 0..Cardinality(DrainIds)
    <3>1. BegunIds(ready) \subseteq DrainIds
      BY DEF BegunIds, Begun, DrainIds, ToSet
    <3>2. IsFiniteSet(DrainIds)
      BY <2>0, FreeIdExists
    <3>3. /\ Cardinality(BegunIds(ready)) \in Nat /\ Cardinality(DrainIds) \in Nat
          /\ Cardinality(BegunIds(ready)) <= Cardinality(DrainIds)
      BY <3>1, <3>2, FS_Subset, FS_CardinalityType
    <3>4. gc.depth = Cardinality(BegunIds(ready))
      BY <2>0 DEF CollectorOK
    <3> QED BY <3>3, <3>4
  <2> QED BY <2>0, <2>1, <2>2, <2>3, <2>4 DEF FeedTypeOK, Types, NumbersOK, AttachedOK
<1> QED BY <1>1, FeedTypeInit, FeedTypeKept, PTL DEF Spec

-----------------------------------------------------------------------------
(* What becomes of the output of a shell: the pane shows it in the order   *)
(* the shell wrote it, all of it was fed when a descriptor ends, and only  *)
(* repaints are lost.                                                      *)


\* Chunks that the shell s sent for the pane p.
Datum(e, p, s) == e.t = "data" /\ e.pane = p /\ e.of = s
\* Chunks of the shell s, in order, none after its m-th.
Fits(cs, s, m) == Ordered(cs, s) /\ UpTo(cs, m)

\* The way of the chunks of one pane: on the screen (f), held by its drain, in
\* its buffer (b), in callbacks that wait.  Each place has later chunks than
\* the one before.
PaneOrder(p, f, b, q, s, m) ==
  /\ Fits(f, s, m) /\ Fits(b, s, m) /\ Before(f, b)
  /\ \A i \in 1..Len(q) : LiveDrain(q[i], p) =>
       Fits(q[i].rest, s, m) /\ Before(f, q[i].rest) /\ Before(q[i].rest, b)
  /\ \A i \in 1..Len(q) : Datum(q[i], p, s) =>
       Fits(q[i].chunks, s, m) /\ Before(f, q[i].chunks) /\ Before(b, q[i].chunks)
  /\ \A i, j \in 1..Len(q) : LiveDrain(q[i], p) /\ Datum(q[j], p, s) =>
       Before(q[i].rest, q[j].chunks)
  /\ \A i, j \in 1..Len(q) : Datum(q[i], p, s) /\ Datum(q[j], p, s) /\ i < j =>
       Before(q[i].chunks, q[j].chunks)

OrderOK ==
  /\ \A p \in up : PaneOrder(p, fed[p], feedbuf[p], ready, shell[p], taken[p])
  /\ \A p \in up : task[p] = 0 => feedbuf[p] = <<>>
  /\ saved # NotSaved => \A p \in up : Fits(saved[p], shell[p], taken[p])

OrderInv == DrainInv /\ OrderOK

-----------------------------------------------------------------------------
(* One pane.                                                               *)

\* The callbacks of q that matter to the pane were in r, in this order.
PartOf(q, r, p, s) ==
  \E g :
    /\ \A i \in 1..Len(q) : LiveDrain(q[i], p) \/ Datum(q[i], p, s) =>
         g[i] \in 1..Len(r) /\ q[i] = r[g[i]]
    /\ \A i, j \in 1..Len(q) :
         Datum(q[i], p, s) /\ Datum(q[j], p, s) /\ i < j => g[i] < g[j]

LEMMA PartKeepsOrder ==
  ASSUME NEW p, NEW f, NEW b, NEW q, NEW r, NEW s, NEW m,
         PaneOrder(p, f, b, r, s, m), PartOf(q, r, p, s)
  PROVE  PaneOrder(p, f, b, q, s, m)
<1>1. PICK g :
        /\ \A i \in 1..Len(q) : LiveDrain(q[i], p) \/ Datum(q[i], p, s) =>
             g[i] \in 1..Len(r) /\ q[i] = r[g[i]]
        /\ \A i, j \in 1..Len(q) :
             Datum(q[i], p, s) /\ Datum(q[j], p, s) /\ i < j => g[i] < g[j]
  BY DEF PartOf
<1>2. Fits(f, s, m) /\ Fits(b, s, m) /\ Before(f, b)
  BY DEF PaneOrder
<1>3. ASSUME NEW i \in 1..Len(q), LiveDrain(q[i], p)
      PROVE  Fits(q[i].rest, s, m) /\ Before(f, q[i].rest) /\ Before(q[i].rest, b)
  <2>1. g[i] \in 1..Len(r) /\ q[i] = r[g[i]]
    BY <1>1, <1>3
  <2> QED BY <1>3, <2>1 DEF PaneOrder
<1>4. ASSUME NEW i \in 1..Len(q), Datum(q[i], p, s)
      PROVE  Fits(q[i].chunks, s, m) /\ Before(f, q[i].chunks) /\ Before(b, q[i].chunks)
  <2>1. g[i] \in 1..Len(r) /\ q[i] = r[g[i]]
    BY <1>1, <1>4
  <2> QED BY <1>4, <2>1 DEF PaneOrder
<1>5. ASSUME NEW i \in 1..Len(q), NEW j \in 1..Len(q), LiveDrain(q[i], p), Datum(q[j], p, s)
      PROVE  Before(q[i].rest, q[j].chunks)
  <2>1. g[i] \in 1..Len(r) /\ q[i] = r[g[i]] /\ g[j] \in 1..Len(r) /\ q[j] = r[g[j]]
    BY <1>1, <1>5
  <2> QED BY <1>5, <2>1 DEF PaneOrder
<1>6. ASSUME NEW i \in 1..Len(q), NEW j \in 1..Len(q), Datum(q[i], p, s), Datum(q[j], p, s), i < j
      PROVE  Before(q[i].chunks, q[j].chunks)
  <2>1. g[i] \in 1..Len(r) /\ q[i] = r[g[i]] /\ g[j] \in 1..Len(r) /\ q[j] = r[g[j]] /\ g[i] < g[j]
    BY <1>1, <1>6
  <2> QED BY <1>6, <2>1 DEF PaneOrder
<1> QED BY <1>2, <1>3, <1>4, <1>5, <1>6 DEF PaneOrder

LEMMA ThinnedIsPart ==
  ASSUME NEW q, NEW r, Thinned(q, r), NEW p, NEW s
  PROVE  PartOf(q, r, p, s)
BY DEF Thinned, Places, PartOf

\* A callback that the pane does not see.
LEMMA StrangerIsPart ==
  ASSUME NEW r \in Seq(Events), NEW e \in Events, NEW p, NEW s, ~LiveDrain(e, p), ~Datum(e, p, s)
  PROVE  PartOf(Append(r, e), r, p, s)
<1> DEFINE q == Append(r, e)
           g == [i \in 1..Len(q) |-> i]
<1>1. /\ \A i \in 1..Len(r) : q[i] = r[i]
      /\ q[Len(r) + 1] = e
      /\ \A i \in 1..Len(q) : i \in 1..Len(r) \/ i = Len(r) + 1
  BY AppendEvent
<1> HIDE DEF q
<1>2. \A i \in 1..Len(q) : LiveDrain(q[i], p) \/ Datum(q[i], p, s) =>
        g[i] \in 1..Len(r) /\ q[i] = r[g[i]]
  BY <1>1
<1>3. \A i, j \in 1..Len(q) : i < j => g[i] < g[j]
  OBVIOUS
<1> HIDE DEF g
<1>4. PartOf(q, r, p, s)
  BY <1>2, <1>3 DEF PartOf
<1> QED BY <1>4 DEF q

LEMMA PartTwice ==
  ASSUME NEW q, NEW r, NEW t, NEW p, NEW s, PartOf(q, r, p, s), PartOf(r, t, p, s)
  PROVE  PartOf(q, t, p, s)
<1>1. PICK f :
        /\ \A i \in 1..Len(q) : LiveDrain(q[i], p) \/ Datum(q[i], p, s) =>
             f[i] \in 1..Len(r) /\ q[i] = r[f[i]]
        /\ \A i, j \in 1..Len(q) :
             Datum(q[i], p, s) /\ Datum(q[j], p, s) /\ i < j => f[i] < f[j]
  BY DEF PartOf
<1>2. PICK g :
        /\ \A i \in 1..Len(r) : LiveDrain(r[i], p) \/ Datum(r[i], p, s) =>
             g[i] \in 1..Len(t) /\ r[i] = t[g[i]]
        /\ \A i, j \in 1..Len(r) :
             Datum(r[i], p, s) /\ Datum(r[j], p, s) /\ i < j => g[i] < g[j]
  BY DEF PartOf
<1> DEFINE h == [i \in 1..Len(q) |-> g[f[i]]]
<1>3. \A i \in 1..Len(q) : h[i] = g[f[i]]
  OBVIOUS
<1> HIDE DEF h
<1>4. \A i \in 1..Len(q) : LiveDrain(q[i], p) \/ Datum(q[i], p, s) =>
        h[i] \in 1..Len(t) /\ q[i] = t[h[i]]
  BY <1>1, <1>2, <1>3
<1>5. ASSUME NEW i \in 1..Len(q), NEW j \in 1..Len(q), Datum(q[i], p, s), Datum(q[j], p, s), i < j
      PROVE  h[i] < h[j]
  <2>1. /\ f[i] \in 1..Len(r) /\ Datum(r[f[i]], p, s)
        /\ f[j] \in 1..Len(r) /\ Datum(r[f[j]], p, s) /\ f[i] < f[j]
    BY <1>1, <1>5
  <2> QED BY <1>2, <1>3, <2>1
<1> QED BY <1>4, <1>5 DEF PartOf

\* A cancellation leaves to a pane what it had, but for its drain.
LEMMA CancelledIsPart ==
  ASSUME Types, NEW STATE q, q \in Seq(Events), QueueOK(q), NEW STATE ps, ps \subseteq Panes,
         NEW p \in Panes, NEW s
  PROVE  /\ PartOf(Cancelled(q, ps), q, p, s)
         /\ p \in ps => \A i \in 1..Len(Cancelled(q, ps)) : ~LiveDrain(Cancelled(q, ps)[i], p)
<1> DEFINE c == Cancelled(q, ps)
           g == [i \in 1..Len(c) |-> i]
<1>1. /\ c \in Seq(Events) /\ Len(c) = Len(q)
      /\ \A i \in 1..Len(q) : c[i] = q[i] \/ (c[i].t = "drain" /\ q[i].t = "drain")
      /\ \A i \in 1..Len(q) : \A r \in Panes :
           LiveDrain(c[i], r) <=> LiveDrain(q[i], r) /\ r \notin ps
      /\ \A i \in 1..Len(q) : \A r \in Panes :
           LiveDrain(q[i], r) /\ r \notin ps => c[i] = q[i]
  BY CancelledOK
<1> HIDE DEF c
<1>2. \A i \in 1..Len(c) : LiveDrain(c[i], p) \/ Datum(c[i], p, s) =>
        g[i] \in 1..Len(q) /\ c[i] = q[g[i]]
  BY <1>1 DEF Datum
<1>3. \A i, j \in 1..Len(c) : i < j => g[i] < g[j]
  OBVIOUS
<1> HIDE DEF g
<1>4. PartOf(c, q, p, s)
  BY <1>2, <1>3 DEF PartOf
<1>5. p \in ps => \A i \in 1..Len(c) : ~LiveDrain(c[i], p)
  BY <1>1
<1> QED BY <1>4, <1>5 DEF c

\* Chunks that come after all the pane has in hand and before all that waits.
NextUp(cs, p, f, b, q, s, m) ==
  /\ cs \in Seq(Pieces) /\ Fits(cs, s, m) /\ Before(f, cs) /\ Before(b, cs)
  /\ \A i \in 1..Len(q) : LiveDrain(q[i], p) => Before(q[i].rest, cs)
  /\ \A i \in 1..Len(q) : Datum(q[i], p, s) => Before(cs, q[i].chunks)

LEMMA UpToLater ==
  ASSUME NEW cs \in Seq(Pieces), NEW m \in Nat, NEW k \in Nat, m <= k, UpTo(cs, m)
  PROVE  UpTo(cs, k)
<1>1. \A i \in 1..Len(cs) : cs[i].n \in Nat
  <2>1. \A i \in 1..Len(cs) : cs[i] \in Pieces
    OBVIOUS
  <2> QED BY <2>1 DEF Pieces
<1> QED BY <1>1 DEF UpTo

\* What was just read comes after everything.
LEMMA NewestComesLast ==
  ASSUME NEW p, NEW s, NEW m \in Nat, NEW k \in Nat, m <= k,
         NEW f \in Seq(Pieces), NEW b \in Seq(Pieces), NEW q \in Seq(Events),
         PaneOrder(p, f, b, q, s, m),
         NEW cs \in Seq(Pieces), \A ds \in Seq(Pieces) : UpTo(ds, m) => Before(ds, cs)
  PROVE  /\ PaneOrder(p, f, b, q, s, k) /\ Before(f, cs) /\ Before(b, cs)
         /\ \A i \in 1..Len(q) : LiveDrain(q[i], p) => Before(q[i].rest, cs)
         /\ \A i \in 1..Len(q) : Datum(q[i], p, s) => Before(q[i].chunks, cs)
<1>1. /\ \A i \in 1..Len(q) : LiveDrain(q[i], p) => q[i].rest \in Seq(Pieces)
      /\ \A i \in 1..Len(q) : Datum(q[i], p, s) => q[i].chunks \in Seq(Pieces)
  BY QueueItems, EventKinds DEF LiveDrain, Datum
<1>2. /\ UpTo(f, m) /\ UpTo(b, m)
      /\ \A i \in 1..Len(q) : LiveDrain(q[i], p) => UpTo(q[i].rest, m)
      /\ \A i \in 1..Len(q) : Datum(q[i], p, s) => UpTo(q[i].chunks, m)
  BY DEF PaneOrder, Fits
<1>3. /\ Fits(f, s, k) /\ Fits(b, s, k)
      /\ \A i \in 1..Len(q) : LiveDrain(q[i], p) => Fits(q[i].rest, s, k)
      /\ \A i \in 1..Len(q) : Datum(q[i], p, s) => Fits(q[i].chunks, s, k)
  BY <1>1, <1>2, UpToLater DEF PaneOrder, Fits
<1>4. PaneOrder(p, f, b, q, s, k)
  BY <1>3 DEF PaneOrder
<1> QED BY <1>1, <1>2, <1>4

LEMMA ReadIsNext ==
  ASSUME NEW p, NEW s, NEW m \in Nat, NEW k \in Nat, m <= k,
         NEW f \in Seq(Pieces), NEW b \in Seq(Pieces), NEW q \in Seq(Events),
         PaneOrder(p, f, b, q, s, m), \A i \in 1..Len(q) : ~Datum(q[i], p, s),
         NEW cs \in Seq(Pieces), \A ds \in Seq(Pieces) : UpTo(ds, m) => Before(ds, cs),
         Fits(cs, s, k)
  PROVE  PaneOrder(p, f, b, q, s, k) /\ NextUp(cs, p, f, b, q, s, k)
<1>1. PaneOrder(p, f, b, q, s, k)
  BY NewestComesLast, Zenon
<1>2. Before(f, cs) /\ Before(b, cs)
  BY DEF PaneOrder, Fits
<1>3. ASSUME NEW i \in 1..Len(q), LiveDrain(q[i], p)
      PROVE  Before(q[i].rest, cs)
  <2>1. q[i].rest \in Seq(Pieces)
    BY <1>3, QueueItems, EventKinds DEF LiveDrain
  <2>2. UpTo(q[i].rest, m)
    BY <1>3 DEF PaneOrder, Fits
  <2> QED BY <2>1, <2>2
<1> QED BY <1>1, <1>2, <1>3 DEF NextUp

LEMMA PostedKeepsOrder ==
  ASSUME NEW p, NEW s, NEW m \in Nat, NEW k \in Nat, m <= k,
         NEW f \in Seq(Pieces), NEW b \in Seq(Pieces), NEW q \in Seq(Events),
         PaneOrder(p, f, b, q, s, m),
         NEW e \in Events, Datum(e, p, s), Fits(e.chunks, s, k),
         \A ds \in Seq(Pieces) : UpTo(ds, m) => Before(ds, e.chunks)
  PROVE  PaneOrder(p, f, b, Append(q, e), s, k)
<1> DEFINE r == Append(q, e)
<1>1. /\ \A i \in 1..Len(q) : r[i] = q[i]
      /\ r[Len(q) + 1] = e /\ Len(q) \in Nat
      /\ \A i \in 1..Len(r) : i \in 1..Len(q) \/ i = Len(q) + 1
  BY AppendEvent
<1> HIDE DEF r
<1>2. ~LiveDrain(e, p)
  BY DEF Datum, LiveDrain
<1>3. e.chunks \in Seq(Pieces)
  BY EventKinds DEF Datum
<1>4. /\ PaneOrder(p, f, b, q, s, k) /\ Before(f, e.chunks) /\ Before(b, e.chunks)
      /\ \A i \in 1..Len(q) : LiveDrain(q[i], p) => Before(q[i].rest, e.chunks)
      /\ \A i \in 1..Len(q) : Datum(q[i], p, s) => Before(q[i].chunks, e.chunks)
  BY <1>3, NewestComesLast
<1>5. Fits(f, s, k) /\ Fits(b, s, k) /\ Before(f, b)
  BY <1>4 DEF PaneOrder
<1>6. ASSUME NEW i \in 1..Len(r), LiveDrain(r[i], p)
      PROVE  /\ i \in 1..Len(q) /\ r[i] = q[i]
             /\ Fits(r[i].rest, s, k) /\ Before(f, r[i].rest) /\ Before(r[i].rest, b)
  BY <1>1, <1>2, <1>4, <1>6 DEF PaneOrder
<1>7. ASSUME NEW i \in 1..Len(r), Datum(r[i], p, s)
      PROVE  Fits(r[i].chunks, s, k) /\ Before(f, r[i].chunks) /\ Before(b, r[i].chunks)
  BY <1>1, <1>4, <1>7 DEF PaneOrder
<1>8. ASSUME NEW i \in 1..Len(r), NEW j \in 1..Len(r), LiveDrain(r[i], p), Datum(r[j], p, s)
      PROVE  Before(r[i].rest, r[j].chunks)
  <2>1. i \in 1..Len(q) /\ r[i] = q[i]
    BY <1>6, <1>8
  <2>2. CASE j \in 1..Len(q)
    BY <1>1, <1>4, <1>8, <2>1, <2>2 DEF PaneOrder
  <2>3. CASE j = Len(q) + 1
    BY <1>1, <1>4, <1>8, <2>1, <2>3
  <2> QED BY <1>1, <2>2, <2>3
<1>9. ASSUME NEW i \in 1..Len(r), NEW j \in 1..Len(r), Datum(r[i], p, s), Datum(r[j], p, s), i < j
      PROVE  Before(r[i].chunks, r[j].chunks)
  <2>1. i \in 1..Len(q) /\ r[i] = q[i]
    BY <1>1, <1>9
  <2>2. CASE j \in 1..Len(q)
    BY <1>1, <1>4, <1>9, <2>1, <2>2 DEF PaneOrder
  <2>3. CASE j = Len(q) + 1
    BY <1>1, <1>4, <1>9, <2>1, <2>3
  <2> QED BY <1>1, <2>2, <2>3
<1>10. PaneOrder(p, f, b, r, s, k)
  BY <1>5, <1>6, <1>7, <1>8, <1>9 DEF PaneOrder
<1> QED BY <1>10 DEF r

\* The chunks at the head of the queue are the next ones.
LEMMA HeadIsNext ==
  ASSUME NEW p, NEW f, NEW b, NEW s, NEW m, NEW r \in Seq(Events), r # <<>>,
         PaneOrder(p, f, b, r, s, m), Datum(Head(r), p, s)
  PROVE  /\ PaneOrder(p, f, b, Tail(r), s, m)
         /\ NextUp(Head(r).chunks, p, f, b, Tail(r), s, m)
<1> DEFINE q == Tail(r)
           cs == Head(r).chunks
<1>1. /\ q \in Seq(Events)
      /\ \A i \in 1..Len(q) : i + 1 \in 1..Len(r) /\ q[i] = r[i + 1] /\ 1 < i + 1
      /\ Head(r) = r[1] /\ 1 \in 1..Len(r) /\ Head(r) \in Events
  BY TailItems
<1>2. cs \in Seq(Pieces)
  BY <1>1, EventKinds DEF Datum
<1>3. PaneOrder(p, f, b, q, s, m)
  <2>1. PartOf(q, r, p, s)
    BY TailIsThinned, ThinnedIsPart
  <2> QED BY <2>1, PartKeepsOrder
<1> HIDE DEF q
<1>4. Fits(cs, s, m) /\ Before(f, cs) /\ Before(b, cs)
  BY <1>1 DEF PaneOrder
<1>5. ASSUME NEW i \in 1..Len(q), LiveDrain(q[i], p)
      PROVE  Before(q[i].rest, cs)
  <2>1. i + 1 \in 1..Len(r) /\ LiveDrain(r[i + 1], p) /\ q[i] = r[i + 1]
    BY <1>1, <1>5
  <2> QED BY <1>1, <2>1 DEF PaneOrder
<1>6. ASSUME NEW i \in 1..Len(q), Datum(q[i], p, s)
      PROVE  Before(cs, q[i].chunks)
  <2>1. i + 1 \in 1..Len(r) /\ Datum(r[i + 1], p, s) /\ q[i] = r[i + 1] /\ 1 < i + 1
    BY <1>1, <1>6
  <2> QED BY <1>1, <2>1 DEF PaneOrder
<1> HIDE DEF cs
<1>7. NextUp(cs, p, f, b, q, s, m)
  BY <1>2, <1>4, <1>5, <1>6 DEF NextUp
<1> QED BY <1>3, <1>7 DEF q, cs

\* They join the buffer, of which a beginning may be left out,
LEMMA BufferKeepsOrder ==
  ASSUME NEW p, NEW s, NEW m, NEW f \in Seq(Pieces), NEW b \in Seq(Pieces), NEW q,
         PaneOrder(p, f, b, q, s, m), NEW cs, NextUp(cs, p, f, b, q, s, m),
         NEW ds, Suffix(ds, b \o cs)
  PROVE  PaneOrder(p, f, ds, q, s, m)
<1> DEFINE bc == b \o cs
<1>0. cs \in Seq(Pieces)
  BY DEF NextUp
<1>1. /\ bc \in Seq(Pieces) /\ Fits(bc, s, m) /\ Before(f, bc)
      /\ \A es : Before(es, b) /\ Before(es, cs) => Before(es, bc)
      /\ \A es : Before(b, es) /\ Before(cs, es) => Before(bc, es)
  BY <1>0, ConcatOrdered DEF PaneOrder, NextUp, Fits
<1> HIDE DEF bc
<1>2. Suffix(ds, bc)
  BY DEF bc
<1>3. /\ Fits(ds, s, m) /\ Before(f, ds)
      /\ \A es : Before(es, bc) => Before(es, ds)
      /\ \A es : Before(bc, es) => Before(ds, es)
  BY <1>1, <1>2, SuffixOrdered DEF Fits
<1>4. \A i \in 1..Len(q) : LiveDrain(q[i], p) => Before(q[i].rest, ds)
  BY <1>1, <1>3 DEF PaneOrder, NextUp
<1>5. \A i \in 1..Len(q) : Datum(q[i], p, s) => Before(ds, q[i].chunks)
  BY <1>1, <1>3 DEF PaneOrder, NextUp
<1> QED BY <1>3, <1>4, <1>5 DEF PaneOrder

\* or go to the screen when nothing is before them.
LEMMA ScreenKeepsOrder ==
  ASSUME NEW p, NEW s, NEW m, NEW f \in Seq(Pieces), NEW q, NEW cs \in Seq(Pieces),
         PaneOrder(p, f, <<>>, q, s, m), \A i \in 1..Len(q) : ~LiveDrain(q[i], p),
         Fits(cs, s, m), Before(f, cs),
         \A i \in 1..Len(q) : Datum(q[i], p, s) => Before(cs, q[i].chunks)
  PROVE  PaneOrder(p, f \o cs, <<>>, q, s, m)
<1> DEFINE fc == f \o cs
<1>1. /\ Fits(fc, s, m)
      /\ \A es : Before(f, es) /\ Before(cs, es) => Before(fc, es)
  BY ConcatOrdered DEF PaneOrder, Fits
<1> HIDE DEF fc
<1>2. Before(fc, <<>>)
  BY NothingIsOrdered
<1>3. \A i \in 1..Len(q) : Datum(q[i], p, s) => Before(fc, q[i].chunks)
  BY <1>1 DEF PaneOrder
<1>4. PaneOrder(p, fc, <<>>, q, s, m)
  BY <1>1, <1>2, <1>3 DEF PaneOrder
<1> QED BY <1>4 DEF fc

LEMMA EmptyBufferOrder ==
  ASSUME NEW p, NEW f, NEW b, NEW q, NEW s, NEW m, PaneOrder(p, f, b, q, s, m)
  PROVE  PaneOrder(p, f, <<>>, q, s, m)
BY NothingIsOrdered DEF PaneOrder, Fits

\* A drain waits at the end of the queue for its next turn.
LEMMA DrainKeepsOrder ==
  ASSUME NEW p, NEW s, NEW m, NEW f, NEW b, NEW q \in Seq(Events), NEW e \in Events,
         PaneOrder(p, f, b, q, s, m), LiveDrain(e, p),
         Fits(e.rest, s, m), Before(f, e.rest), Before(e.rest, b),
         \A i \in 1..Len(q) : Datum(q[i], p, s) => Before(e.rest, q[i].chunks)
  PROVE  PaneOrder(p, f, b, Append(q, e), s, m)
<1> DEFINE r == Append(q, e)
<1>1. /\ \A i \in 1..Len(q) : r[i] = q[i]
      /\ r[Len(q) + 1] = e
      /\ \A i \in 1..Len(r) : i \in 1..Len(q) \/ i = Len(q) + 1
  BY AppendEvent
<1> HIDE DEF r
<1>2. \A i \in 1..Len(r) : Datum(r[i], p, s) => i \in 1..Len(q) /\ r[i] = q[i]
  BY <1>1 DEF Datum, LiveDrain
<1>3. Fits(f, s, m) /\ Fits(b, s, m) /\ Before(f, b)
  BY DEF PaneOrder
<1>4. ASSUME NEW i \in 1..Len(r), LiveDrain(r[i], p)
      PROVE  Fits(r[i].rest, s, m) /\ Before(f, r[i].rest) /\ Before(r[i].rest, b)
  BY <1>1, <1>4 DEF PaneOrder
<1>5. ASSUME NEW i \in 1..Len(r), Datum(r[i], p, s)
      PROVE  Fits(r[i].chunks, s, m) /\ Before(f, r[i].chunks) /\ Before(b, r[i].chunks)
  BY <1>2, <1>5 DEF PaneOrder
<1>6. ASSUME NEW i \in 1..Len(r), NEW j \in 1..Len(r), LiveDrain(r[i], p), Datum(r[j], p, s)
      PROVE  Before(r[i].rest, r[j].chunks)
  <2>1. j \in 1..Len(q) /\ r[j] = q[j]
    BY <1>2, <1>6
  <2>2. CASE i \in 1..Len(q)
    BY <1>1, <1>6, <2>1, <2>2 DEF PaneOrder
  <2>3. CASE i = Len(q) + 1
    BY <1>1, <1>6, <2>1, <2>3
  <2> QED BY <1>1, <2>2, <2>3
<1>7. ASSUME NEW i \in 1..Len(r), NEW j \in 1..Len(r), Datum(r[i], p, s), Datum(r[j], p, s), i < j
      PROVE  Before(r[i].chunks, r[j].chunks)
  BY <1>2, <1>7 DEF PaneOrder
<1>8. PaneOrder(p, f, b, r, s, m)
  BY <1>3, <1>4, <1>5, <1>6, <1>7 DEF PaneOrder
<1> QED BY <1>8 DEF r

\* A drain feeds the head of what it holds, and holds the tail.
LEMMA SliceKeepsOrder ==
  ASSUME NEW p, NEW s, NEW m, NEW f \in Seq(Pieces), NEW b, NEW q \in Seq(Events),
         PaneOrder(p, f, b, q, s, m), \A i \in 1..Len(q) : ~LiveDrain(q[i], p),
         NEW t \in Seq(Pieces), t # <<>>, Fits(t, s, m), Before(f, t), Before(t, b),
         \A i \in 1..Len(q) : Datum(q[i], p, s) => Before(t, q[i].chunks),
         NEW e \in Events, LiveDrain(e, p), e.rest = Tail(t)
  PROVE  PaneOrder(p, Append(f, Head(t)), b, Append(q, e), s, m)
<1> DEFINE h == <<Head(t)>>
           u == Tail(t)
           fh == f \o h
<1>1. /\ h \in Seq(Pieces) /\ Fits(h, s, m) /\ Before(h, u) /\ Before(f, h)
      /\ \A es : Before(t, es) => Before(h, es)
  BY HeadOrdered DEF Fits
<1>2. /\ u \in Seq(Pieces) /\ Fits(u, s, m) /\ Before(f, u)
      /\ \A es : Before(t, es) => Before(u, es)
  BY TailIsSuffix, SuffixOrdered DEF Fits
<1>3. Append(f, Head(t)) = fh
  <2>1. Head(t) \in Pieces
    OBVIOUS
  <2> QED BY <2>1
<1> HIDE DEF h, u
<1>4. /\ fh \in Seq(Pieces) /\ Fits(fh, s, m)
      /\ \A es : Before(f, es) /\ Before(h, es) => Before(fh, es)
  BY <1>1, ConcatOrdered DEF PaneOrder, Fits
<1> HIDE DEF fh
<1>5. Before(fh, b) /\ Before(fh, u)
  BY <1>1, <1>2, <1>4 DEF PaneOrder
<1>6. \A i \in 1..Len(q) : Datum(q[i], p, s) => Before(fh, q[i].chunks) /\ Before(u, q[i].chunks)
  BY <1>1, <1>2, <1>4 DEF PaneOrder
<1>7. PaneOrder(p, fh, b, q, s, m)
  BY <1>4, <1>5, <1>6 DEF PaneOrder
<1>8. e.rest = u
  BY DEF u
<1>9. Before(u, b)
  BY <1>2
<1>10. PaneOrder(p, fh, b, Append(q, e), s, m)
  BY <1>2, <1>5, <1>6, <1>7, <1>8, <1>9, DrainKeepsOrder
<1> QED BY <1>3, <1>10

-----------------------------------------------------------------------------
(* The callbacks.                                                          *)

\* A pane that no drain is named for has none.
LEMMA NoDrainWhenIdle ==
  ASSUME NEW STATE q, q \in Seq(Events), QueueOK(q), NEW STATE p, p \in Panes, task[p] = 0
  PROVE  \A i \in 1..Len(q) : ~LiveDrain(q[i], p)
<1> SUFFICES ASSUME NEW i \in 1..Len(q), LiveDrain(q[i], p)
             PROVE  FALSE
  OBVIOUS
<1>1. task[p] = q[i].id
  BY DEF QueueOK, OneEach
<1>2. q[i] \in Events /\ q[i].t = "drain"
  BY QueueItems DEF LiveDrain
<1> QED BY <1>1, <1>2, EventKinds

\* The next chunks of a pane are handed to it.
LEMMA OnPaneDataOrder ==
  ASSUME Types, NEW STATE q, q \in Seq(Events), QueueOK(q), NEW STATE p, p \in Panes,
         NEW s, NEW m, NEW STATE cs, OnPaneData(p, cs, q),
         PaneOrder(p, fed[p], feedbuf[p], q, s, m),
         NextUp(cs, p, fed[p], feedbuf[p], q, s, m),
         task[p] = 0 => feedbuf[p] = <<>>
  PROVE  /\ PaneOrder(p, fed'[p], feedbuf'[p], ready', s, m)
         /\ task'[p] = 0 => feedbuf'[p] = <<>>
         /\ \A r \in Panes : r # p =>
              /\ fed'[r] = fed[r] /\ feedbuf'[r] = feedbuf[r] /\ task'[r] = task[r]
              /\ \A z : PartOf(ready', q, r, z)
<1>1. /\ cs \in Seq(Pieces) /\ fed[p] \in Seq(Pieces) /\ feedbuf[p] \in Seq(Pieces)
      /\ feedbuf[p] \o cs \in Seq(Pieces)
  BY DEF NextUp, Types
<1>2. \A r, z : PartOf(q, q, r, z)
  BY SameIsThinned, ThinnedIsPart
<1> DEFINE ds == Coalesced(p, feedbuf[p] \o cs)
<1>3. PaneOrder(p, fed[p], ds, q, s, m)
  <2>1. Suffix(ds, feedbuf[p] \o cs)
    BY <1>1, CoalescedIsSuffix
  <2> HIDE DEF ds
  <2> QED BY <1>1, <2>1, BufferKeepsOrder
<1>4. CASE JoinDrain(p, cs, q)
  <2>1. /\ task[p] # 0 /\ ready' = q /\ UNCHANGED <<fed, task>>
        /\ feedbuf' = [feedbuf EXCEPT ![p] = ds]
    BY <1>4 DEF JoinDrain
  <2> HIDE DEF ds
  <2>2. feedbuf'[p] = ds /\ \A r \in Panes : r # p => feedbuf'[r] = feedbuf[r]
    BY <2>1 DEF Types
  <2> QED BY <1>2, <1>3, <2>1, <2>2
<1>5. CASE FeedInline(p, cs, q)
  <2>1. /\ task[p] = 0 /\ ready' = q /\ UNCHANGED <<feedbuf, task>>
        /\ fed' = [fed EXCEPT ![p] = @ \o cs]
    BY <1>5 DEF FeedInline
  <2>2. fed'[p] = fed[p] \o cs /\ \A r \in Panes : r # p => fed'[r] = fed[r]
    BY <2>1 DEF Types
  <2>3. feedbuf[p] = <<>> /\ \A i \in 1..Len(q) : ~LiveDrain(q[i], p)
    BY <2>1, NoDrainWhenIdle
  <2>4. PaneOrder(p, fed[p] \o cs, <<>>, q, s, m)
    BY <1>1, <2>3, ScreenKeepsOrder DEF NextUp
  <2> QED BY <1>2, <2>1, <2>2, <2>3, <2>4
<1>6. CASE BeginDrain(p, cs, q)
  <2> DEFINE u == Unread(q, p)
             e == Drain(p, FreeId, FALSE, FALSE, <<>>)
  <2>1. /\ feedbuf' = [feedbuf EXCEPT ![p] = ds]
        /\ task' = [task EXCEPT ![p] = FreeId]
        /\ ready' = Append(u, e) /\ fed' = fed
    BY <1>6 DEF BeginDrain
  <2>2. FreeId \in Nat \ {0}
    BY FreeIdExists DEF Types
  <2>3. e \in Events /\ LiveDrain(e, p) /\ e.rest = <<>> /\ e.pane = p /\ e.t = "drain"
    <3>1. <<>> \in Seq(Pieces) /\ FALSE \in BOOLEAN
      OBVIOUS
    <3>2. e \in Events
      <4> HIDE DEF Drain
      <4> QED BY <2>2, <3>1, DrainIsEvent
    <3> QED BY <3>2 DEF Drain, LiveDrain
  <2> HIDE DEF e, ds
  <2>4. Thinned(u, q) /\ u \in Seq(Events)
    BY UnreadIsThinned DEF Thinned
  <2> HIDE DEF u
  <2>5. PaneOrder(p, fed[p], ds, u, s, m)
    BY <1>3, <2>4, ThinnedIsPart, PartKeepsOrder
  <2>6. PaneOrder(p, fed[p], ds, Append(u, e), s, m)
    <3>1. Fits(e.rest, s, m) /\ Before(fed[p], e.rest) /\ Before(e.rest, ds)
      BY <2>3, NothingIsOrdered DEF Fits
    <3>2. \A i \in 1..Len(u) : Before(e.rest, u[i].chunks)
      BY <2>3, NothingIsOrdered
    <3> QED BY <2>3, <2>4, <2>5, <3>1, <3>2, DrainKeepsOrder
  <2>7. ASSUME NEW r \in Panes, r # p, NEW z
        PROVE  PartOf(Append(u, e), q, r, z)
    <3>1. ~LiveDrain(e, r) /\ ~Datum(e, r, z)
      BY <2>3, <2>7 DEF LiveDrain, Datum
    <3>2. PartOf(Append(u, e), u, r, z)
      BY <2>3, <2>4, <3>1, StrangerIsPart
    <3>3. PartOf(u, q, r, z)
      BY <2>4, ThinnedIsPart
    <3> QED BY <3>2, <3>3, PartTwice
  <2>8. /\ feedbuf'[p] = ds /\ task'[p] # 0
        /\ \A r \in Panes : r # p => feedbuf'[r] = feedbuf[r] /\ task'[r] = task[r]
    BY <2>1, <2>2 DEF Types
  <2> QED BY <2>1, <2>6, <2>7, <2>8
<1> QED BY <1>4, <1>5, <1>6 DEF OnPaneData

\* The feed of a pane stops.
LEMMA StopKeepsOrder ==
  ASSUME Types, NEW STATE q, q \in Seq(Events), QueueOK(q), NEW STATE p, p \in Panes,
         StopFeed({p}), ready' = Unread(Cancelled(q, {p}), p)
  PROVE  /\ \A r \in Panes : \A z : PartOf(ready', q, r, z)
         /\ \A i \in 1..Len(ready') : ~LiveDrain(ready'[i], p)
         /\ \A r \in Panes : r # p => task'[r] = task[r] /\ feedbuf'[r] = feedbuf[r]
<1> DEFINE c == Cancelled(q, {p})
           u == Unread(c, p)
<1>1. /\ \A r \in Panes : \A z : PartOf(c, q, r, z)
      /\ \A i \in 1..Len(c) : ~LiveDrain(c[i], p)
      /\ c \in Seq(Events)
  BY CancelledIsPart, CancelledOK
<1>2. ready' = u
  OBVIOUS
<1> HIDE DEF c
<1>3. Thinned(u, c)
  BY <1>1, UnreadIsThinned
<1> HIDE DEF u
<1>4. ASSUME NEW r \in Panes, NEW z
      PROVE  PartOf(u, q, r, z)
  <2>1. PartOf(u, c, r, z)
    BY <1>3, ThinnedIsPart
  <2>2. PartOf(c, q, r, z)
    BY <1>1
  <2> QED BY <2>1, <2>2, PartTwice
<1>5. \A i \in 1..Len(u) : ~LiveDrain(u[i], p)
  BY <1>1, <1>3 DEF Thinned, Places
<1>6. \A r \in Panes : r # p => task'[r] = task[r] /\ feedbuf'[r] = feedbuf[r]
  BY DEF StopFeed
<1> QED BY <1>2, <1>4, <1>5, <1>6

\* What a restart saved stays what the panes showed.
LEMMA SavedKept ==
  ASSUME Types, OrderOK, UNCHANGED saved, up' \subseteq up,
         saved # NotSaved => \A p \in up' : /\ shell'[p] = shell[p]
                                            /\ taken'[p] \in Nat /\ taken[p] <= taken'[p]
  PROVE  (saved # NotSaved => \A p \in up : Fits(saved[p], shell[p], taken[p]))'
<1> SUFFICES ASSUME saved # NotSaved, NEW p \in up'
             PROVE  Fits(saved[p], shell'[p], taken'[p])
  OBVIOUS
<1>1. /\ saved[p] \in Seq(Pieces) /\ Fits(saved[p], shell[p], taken[p])
      /\ shell'[p] = shell[p] /\ taken[p] \in Nat
      /\ taken'[p] \in Nat /\ taken[p] <= taken'[p]
  BY DEF Types, OrderOK
<1> QED BY <1>1, UpToLater DEF Fits

-----------------------------------------------------------------------------
(* The steps.                                                              *)

\* Nothing happens but that some callbacks leave the queue, or one arrives that
\* brings nothing.
LEMMA QuietStep ==
  ASSUME OrderInv, UNCHANGED <<fed, feedbuf, task, shell, up, taken, saved>>,
         \A p \in up : PartOf(ready', ready, p, shell[p])
  PROVE  OrderOK'
<1>1. \A p \in up : PaneOrder(p, fed[p], feedbuf[p], ready', shell[p], taken[p])
  BY PartKeepsOrder DEF OrderInv, OrderOK
<1> QED BY <1>1 DEF OrderInv, OrderOK

LEMMA ArrivalOrder ==
  ASSUME OrderInv, NEW p \in Panes,
         ShellExits(p) \/ Select(p) \/ ThreadEnters(p) \/ ThreadEnds(p)
  PROVE  OrderOK'
<1>0. Types /\ ready \in Seq(Events)
  BY DEF OrderInv, DrainInv, Types
<1>1. UNCHANGED <<fed, feedbuf, task, shell, up, taken, saved>>
  BY DEF ShellExits, Select, ThreadEnters, ThreadEnds, ptyVars, restartVars
<1>2. ASSUME NEW e \in Events, e.t \in {"read", "eof"}, ready' = Append(ready, e)
      PROVE  OrderOK'
  <2>1. \A r \in up : PartOf(ready', ready, r, shell[r])
    BY <1>0, <1>2, StrangerIsPart DEF LiveDrain, Datum
  <2> QED BY <1>1, <2>1, QuietStep
<1>3. CASE Select(p)
  <2>1. ReadEvent(p) \in Events /\ ReadEvent(p).t = "read"
    BY DEF ReadEvent, Events
  <2>2. ready' = Append(ready, ReadEvent(p))
    BY <1>3 DEF Select
  <2> QED BY <1>2, <2>1, <2>2
<1>4. CASE ThreadEnds(p)
  <2>1. PostedEnd(p) \in Events /\ PostedEnd(p).t = "eof"
    BY <1>0 DEF PostedEnd, Events, Types
  <2>2. ready' = Append(ready, PostedEnd(p))
    BY <1>4 DEF ThreadEnds
  <2> QED BY <1>2, <2>1, <2>2
<1>5. CASE ready' = ready
  <2>1. \A r \in up : PartOf(ready', ready, r, shell[r])
    BY <1>0, <1>5, SameIsThinned, ThinnedIsPart
  <2> QED BY <1>1, <2>1, QuietStep
<1> QED BY <1>3, <1>4, <1>5 DEF ShellExits, ThreadEnters

LEMMA PostOrder ==
  ASSUME OrderInv, NEW p \in Panes, ThreadPosts(p)
  PROVE  OrderOK'
<1>0. Types /\ ready \in Seq(Events)
  BY DEF OrderInv, DrainInv, Types
<1>1. PICK cs \in Reads(p) :
        taken' = [taken EXCEPT ![p] = @ + Len(cs)] /\ ready' = Append(ready, Posted(p, cs))
  BY DEF ThreadPosts
<1>2. UNCHANGED <<fed, feedbuf, task, shell, up, saved>>
  BY DEF ThreadPosts, restartVars
<1>3. /\ cs \in Seq(Pieces) /\ Len(cs) \in Nat
      /\ Fits(cs, shell[p], taken[p] + Len(cs))
      /\ \A ds \in Seq(Pieces) : UpTo(ds, taken[p]) => Before(ds, cs)
  BY <1>0, ReadsOrdered DEF Fits
<1> DEFINE e == Posted(p, cs)
<1>4. e \in Events /\ Datum(e, p, shell[p]) /\ e.chunks = cs /\ e.t = "data" /\ e.pane = p
  BY <1>0, <1>3 DEF Posted, Events, Datum, Types
<1> HIDE DEF e
<1>5. /\ taken[p] \in Nat /\ taken'[p] = taken[p] + Len(cs)
      /\ \A r \in Panes : r # p => taken'[r] = taken[r]
  BY <1>0, <1>1 DEF Types
<1>6. ASSUME NEW r \in up
      PROVE  PaneOrder(r, fed[r], feedbuf[r], Append(ready, e), shell[r], taken'[r])
  <2>1. /\ PaneOrder(r, fed[r], feedbuf[r], ready, shell[r], taken[r])
        /\ r \in Panes /\ fed[r] \in Seq(Pieces) /\ feedbuf[r] \in Seq(Pieces)
    BY <1>0 DEF OrderInv, OrderOK, Types
  <2>2. CASE r = p
    <3>1. taken[p] + Len(cs) \in Nat /\ taken[p] <= taken[p] + Len(cs)
      BY <1>3, <1>5
    <3>2. PaneOrder(p, fed[p], feedbuf[p], Append(ready, e), shell[p], taken[p] + Len(cs))
      BY <1>0, <1>3, <1>4, <1>5, <2>1, <2>2, <3>1, PostedKeepsOrder
    <3> QED BY <1>5, <2>2, <3>2
  <2>3. CASE r # p
    <3>1. ~LiveDrain(e, r) /\ ~Datum(e, r, shell[r])
      BY <1>4, <2>3 DEF LiveDrain, Datum
    <3>2. PartOf(Append(ready, e), ready, r, shell[r])
      BY <1>0, <1>4, <3>1, StrangerIsPart
    <3> QED BY <1>5, <2>1, <2>3, <3>2, PartKeepsOrder
  <2> QED BY <2>2, <2>3
<1>7. (saved # NotSaved => \A r \in up : Fits(saved[r], shell[r], taken[r]))'
  <2>1. ASSUME NEW r \in up
        PROVE  shell'[r] = shell[r] /\ taken'[r] \in Nat /\ taken[r] <= taken'[r]
    <3>1. taken[r] \in Nat /\ r \in Panes
      BY <1>0 DEF Types
    <3>2. CASE r = p
      BY <1>2, <1>3, <1>5, <3>2
    <3>3. CASE r # p
      BY <1>2, <1>5, <3>1, <3>3
    <3> QED BY <3>2, <3>3
  <2> QED BY <1>0, <1>2, <2>1, SavedKept DEF OrderInv
<1>8. ready' = Append(ready, e)
  BY <1>1 DEF e
<1> QED BY <1>2, <1>6, <1>7, <1>8 DEF OrderInv, OrderOK

\* The queue without its head.
LEMMA TailOrder ==
  ASSUME OrderInv, ready # <<>>
  PROVE  /\ Tail(ready) \in Seq(Events) /\ QueueOK(Tail(ready))
         /\ \A p, z : PartOf(Tail(ready), ready, p, z)
         /\ \A p \in up : PaneOrder(p, fed[p], feedbuf[p], Tail(ready), shell[p], taken[p])
<1>1. ready \in Seq(Events) /\ QueueOK(ready)
  BY DEF OrderInv, DrainInv, Types
<1>2. Thinned(Tail(ready), ready) /\ Tail(ready) \in Seq(Events)
  BY <1>1, TailIsThinned DEF Thinned
<1>3. QueueOK(Tail(ready))
  BY <1>1, <1>2, ThinnedOK
<1>4. \A p, z : PartOf(Tail(ready), ready, p, z)
  BY <1>2, ThinnedIsPart
<1> QED BY <1>2, <1>3, <1>4, PartKeepsOrder DEF OrderInv, OrderOK

\* The feed of p stops and p is gone, or has a new shell and an empty screen.
LEMMA StopOrder ==
  ASSUME OrderInv, NEW STATE q, q \in Seq(Events), QueueOK(q),
         \A r, z : PartOf(q, ready, r, z),
         NEW STATE p, p \in Panes, StopFeed({p}), ready' = Unread(Cancelled(q, {p}), p),
         UNCHANGED saved, up' \subseteq up,
         \A r \in Panes : r # p =>
           fed'[r] = fed[r] /\ shell'[r] = shell[r] /\ taken'[r] = taken[r],
         p \in up' => /\ saved = NotSaved /\ fed'[p] = <<>>
                      /\ \A i \in 1..Len(q) : ~Datum(q[i], p, shell'[p])
  PROVE  OrderOK'
<1>0. Types /\ up \subseteq Panes /\ taken \in [Panes -> Nat] /\ OrderOK
  BY DEF OrderInv, DrainInv, Types
<1>1. /\ \A r \in Panes : \A z : PartOf(ready', q, r, z)
      /\ \A i \in 1..Len(ready') : ~LiveDrain(ready'[i], p)
      /\ \A r \in Panes : r # p => task'[r] = task[r] /\ feedbuf'[r] = feedbuf[r]
  BY <1>0, StopKeepsOrder, ZenonT(30)
<1>2. ASSUME NEW r \in up', r # p
      PROVE  PaneOrder(r, fed'[r], feedbuf'[r], ready', shell'[r], taken'[r])
  <2>1. PaneOrder(r, fed[r], feedbuf[r], ready, shell[r], taken[r]) /\ r \in Panes
    BY <1>0 DEF OrderOK
  <2>2. PartOf(ready', ready, r, shell[r])
    <3>1. PartOf(ready', q, r, shell[r]) /\ PartOf(q, ready, r, shell[r])
      BY <1>1, <2>1
    <3> QED BY <3>1, PartTwice
  <2>3. PaneOrder(r, fed[r], feedbuf[r], ready', shell[r], taken[r])
    BY <2>1, <2>2, PartKeepsOrder
  <2> QED BY <1>1, <1>2, <2>1, <2>3
<1>3. ASSUME p \in up'
      PROVE  PaneOrder(p, fed'[p], feedbuf'[p], ready', shell'[p], taken'[p])
  <2>1. fed'[p] = <<>> /\ feedbuf'[p] = <<>>
    BY <1>3 DEF StopFeed
  <2>2. \A i \in 1..Len(ready') : ~Datum(ready'[i], p, shell'[p])
    <3>1. PartOf(ready', q, p, shell'[p])
      BY <1>1
    <3> QED BY <1>3, <3>1 DEF PartOf
  <2>3. Fits(<<>>, shell'[p], taken'[p]) /\ Before(<<>>, <<>>)
    BY NothingIsOrdered DEF Fits
  <2>4. PaneOrder(p, <<>>, <<>>, ready', shell'[p], taken'[p])
    BY <1>1, <2>2, <2>3 DEF PaneOrder
  <2> QED BY <2>1, <2>4
<1>4. ASSUME NEW r \in up', task'[r] = 0
      PROVE  feedbuf'[r] = <<>>
  <2>1. CASE r = p
    BY <2>1 DEF StopFeed
  <2>2. CASE r # p
    BY <1>0, <1>1, <1>4, <2>2 DEF OrderOK
  <2> QED BY <2>1, <2>2
<1>5. (saved # NotSaved => \A r \in up : Fits(saved[r], shell[r], taken[r]))'
  <2>1. saved # NotSaved => \A r \in up' : /\ shell'[r] = shell[r]
                                           /\ taken'[r] \in Nat /\ taken[r] <= taken'[r]
    <3> SUFFICES ASSUME saved # NotSaved, NEW r \in up'
                 PROVE  shell'[r] = shell[r] /\ taken'[r] \in Nat /\ taken[r] <= taken'[r]
      OBVIOUS
    <3>1. r # p /\ r \in Panes /\ taken[r] \in Nat
      BY <1>0
    <3> QED BY <3>1
  <2> QED BY <1>0, <2>1, SavedKept
<1> QED BY <1>2, <1>3, <1>4, <1>5 DEF OrderOK

LEMMA PaneEofOrder ==
  ASSUME OrderInv, NEW STATE q, q \in Seq(Events), QueueOK(q),
         \A r, z : PartOf(q, ready, r, z), NEW STATE p, p \in Panes, PaneEof(p, q)
  PROVE  OrderOK'
<1>1. /\ StopFeed({p}) /\ ready' = Unread(Cancelled(q, {p}), p)
      /\ UNCHANGED <<saved, fed, shell, taken>> /\ up' \subseteq up /\ p \notin up'
  BY DEF PaneEof, restartVars
<1> QED BY <1>1, StopOrder

LEMMA RespawnOrder ==
  ASSUME OrderInv, NEW p \in Panes, Respawn(p)
  PROVE  OrderOK'
<1>0. Types /\ ready \in Seq(Events) /\ QueueOK(ready)
  BY DEF OrderInv, DrainInv, Types
<1>1. /\ StopFeed({p}) /\ ready' = Unread(Cancelled(ready, {p}), p)
      /\ UNCHANGED <<saved, up>> /\ saved = NotSaved
      /\ fed' = [fed EXCEPT ![p] = <<>>] /\ shell' = [shell EXCEPT ![p] = @ + 1]
      /\ taken' = [taken EXCEPT ![p] = 0]
  BY DEF Respawn
<1>2. /\ fed'[p] = <<>> /\ shell'[p] = shell[p] + 1 /\ shell[p] \in Nat
      /\ \A r \in Panes : r # p =>
           fed'[r] = fed[r] /\ shell'[r] = shell[r] /\ taken'[r] = taken[r]
  BY <1>0, <1>1 DEF Types
<1>3. \A i \in 1..Len(ready) : ~Datum(ready[i], p, shell'[p])
  <2> SUFFICES ASSUME NEW i \in 1..Len(ready), Datum(ready[i], p, shell'[p])
               PROVE  FALSE
    OBVIOUS
  <2>1. ready[i].of <= shell[p] /\ ready[i].of = shell[p] + 1
    BY <1>0, <1>2 DEF QueueOK, ArrivalsOK, Datum
  <2> QED BY <1>2, <2>1
<1>4. \A r, z : PartOf(ready, ready, r, z)
  BY <1>0, SameIsThinned, ThinnedIsPart
<1> QED BY <1>0, <1>1, <1>2, <1>3, <1>4, StopOrder

\* The next chunks of p are handed to it.
LEMMA DataOrder ==
  ASSUME OrderInv, ready # <<>>, NEW STATE p, p \in up, NEW STATE cs,
         OnPaneData(p, cs, Tail(ready)), UNCHANGED <<shell, up, saved>>,
         PaneOrder(p, fed[p], feedbuf[p], Tail(ready), shell[p], taken'[p]),
         NextUp(cs, p, fed[p], feedbuf[p], Tail(ready), shell[p], taken'[p]),
         taken'[p] \in Nat, taken[p] <= taken'[p],
         \A r \in Panes : r # p => taken'[r] = taken[r]
  PROVE  OrderOK'
<1>0. Types /\ up \subseteq Panes /\ taken \in [Panes -> Nat] /\ OrderOK /\ p \in Panes
  BY DEF OrderInv, DrainInv, Types
<1> DEFINE q == Tail(ready)
<1>1. /\ q \in Seq(Events) /\ QueueOK(q)
      /\ \A r \in up : PaneOrder(r, fed[r], feedbuf[r], q, shell[r], taken[r])
  BY TailOrder
<1>2. /\ PaneOrder(p, fed'[p], feedbuf'[p], ready', shell[p], taken'[p])
      /\ task'[p] = 0 => feedbuf'[p] = <<>>
      /\ \A r \in Panes : r # p =>
           /\ fed'[r] = fed[r] /\ feedbuf'[r] = feedbuf[r] /\ task'[r] = task[r]
           /\ \A z : PartOf(ready', q, r, z)
  <2>1. task[p] = 0 => feedbuf[p] = <<>>
    BY <1>0 DEF OrderOK
  <2> HIDE DEF q
  <2>2. /\ OnPaneData(p, cs, q)
        /\ PaneOrder(p, fed[p], feedbuf[p], q, shell[p], taken'[p])
        /\ NextUp(cs, p, fed[p], feedbuf[p], q, shell[p], taken'[p])
    BY DEF q
  <2> QED BY <1>0, <1>1, <2>1, <2>2, OnPaneDataOrder
<1> HIDE DEF q
<1>3. ASSUME NEW r \in up, r # p
      PROVE  PaneOrder(r, fed'[r], feedbuf'[r], ready', shell[r], taken'[r])
  <2>1. PaneOrder(r, fed[r], feedbuf[r], q, shell[r], taken[r]) /\ PartOf(ready', q, r, shell[r])
    BY <1>0, <1>1, <1>2, <1>3
  <2>2. PaneOrder(r, fed[r], feedbuf[r], ready', shell[r], taken[r])
    BY <2>1, PartKeepsOrder
  <2> QED BY <1>0, <1>2, <1>3, <2>2
<1>4. \A r \in up : task'[r] = 0 => feedbuf'[r] = <<>>
  BY <1>0, <1>2 DEF OrderOK
<1>5. (saved # NotSaved => \A r \in up : Fits(saved[r], shell[r], taken[r]))'
  <2>1. \A r \in up : shell'[r] = shell[r] /\ taken'[r] \in Nat /\ taken[r] <= taken'[r]
    BY <1>0
  <2> QED BY <1>0, <2>1, SavedKept
<1> QED BY <1>2, <1>3, <1>4, <1>5 DEF OrderOK

LEMMA ReadOrder ==
  ASSUME OrderInv, RunRead
  PROVE  OrderOK'
<1> DEFINE p == Head(ready).pane
<1>0. Types /\ ready \in Seq(Events) /\ QueueOK(ready)
  BY DEF OrderInv, DrainInv, Types
<1>1. ready # <<>> /\ Head(ready).t = "read"
  BY DEF RunRead, Runs
<1>2. /\ Head(ready) = ready[1] /\ 1 \in 1..Len(ready) /\ Head(ready) \in Events
      /\ p \in Panes /\ p \in up /\ backend = "fd"
  <2>1. Head(ready) = ready[1] /\ 1 \in 1..Len(ready) /\ Head(ready) \in Events
    BY <1>0, <1>1, HeadIsEvent
  <2>2. p \in up /\ backend = "fd"
    BY <1>0, <1>1, <2>1 DEF QueueOK, ArrivalsOK
  <2> QED BY <1>0, <2>1, <2>2 DEF Types
<1>3. /\ Tail(ready) \in Seq(Events) /\ QueueOK(Tail(ready))
      /\ \A r, z : PartOf(Tail(ready), ready, r, z)
      /\ \A r \in up : PaneOrder(r, fed[r], feedbuf[r], Tail(ready), shell[r], taken[r])
  BY <1>1, TailOrder
<1>4. CASE PaneEof(p, Tail(ready))
  <2> HIDE DEF p
  <2> QED BY <1>2, <1>3, <1>4, PaneEofOrder
<1>5. CASE ~PaneEof(p, Tail(ready))
  <2>1. PICK cs \in Reads(p) :
          taken' = [taken EXCEPT ![p] = @ + Len(cs)] /\ OnPaneData(p, cs, Tail(ready))
    BY <1>5 DEF RunRead
  <2>2. UNCHANGED <<shell, up, saved>>
    BY <1>5 DEF RunRead, restartVars
  <2> HIDE DEF p
  <2>3. /\ cs \in Seq(Pieces) /\ Len(cs) \in Nat
        /\ Fits(cs, shell[p], taken[p] + Len(cs))
        /\ \A ds \in Seq(Pieces) : UpTo(ds, taken[p]) => Before(ds, cs)
    BY <1>0, <1>2, ReadsOrdered DEF Fits
  <2>4. /\ taken[p] \in Nat /\ taken'[p] = taken[p] + Len(cs)
        /\ \A r \in Panes : r # p => taken'[r] = taken[r]
    BY <1>0, <1>2, <2>1 DEF Types
  <2>5. taken'[p] \in Nat /\ taken[p] <= taken'[p]
    BY <2>3, <2>4
  <2>6. fed[p] \in Seq(Pieces) /\ feedbuf[p] \in Seq(Pieces)
    BY <1>0, <1>2 DEF Types
  <2> DEFINE q == Tail(ready)
  <2>7. q \in Seq(Events) /\ PaneOrder(p, fed[p], feedbuf[p], q, shell[p], taken[p])
    BY <1>2, <1>3
  <2>8. \A i \in 1..Len(q) : ~Datum(q[i], p, shell[p])
    BY <1>2, <1>3 DEF QueueOK, ArrivalsOK, Datum
  <2> HIDE DEF q
  <2>9. \A ds \in Seq(Pieces) : UpTo(ds, taken[p]) => Before(ds, cs)
    BY <2>3
  <2>10. cs \in Seq(Pieces) /\ taken[p] \in Nat /\ Fits(cs, shell[p], taken'[p])
    BY <2>3, <2>4
  <2>11. /\ PaneOrder(p, fed[p], feedbuf[p], q, shell[p], taken'[p])
         /\ NextUp(cs, p, fed[p], feedbuf[p], q, shell[p], taken'[p])
    BY <2>5, <2>6, <2>7, <2>8, <2>9, <2>10, ReadIsNext
  <2> QED BY <1>1, <1>2, <2>1, <2>2, <2>4, <2>5, <2>11, DataOrder DEF q
<1> QED BY <1>4, <1>5

LEMMA PostedOrder ==
  ASSUME OrderInv, RunData
  PROVE  OrderOK'
<1> DEFINE e == Head(ready)
<1>0. Types /\ ready \in Seq(Events) /\ OrderOK
  BY DEF OrderInv, DrainInv, Types
<1>1. ready # <<>> /\ e.t = "data" /\ e \in Events /\ e.pane \in Panes
  BY <1>0, HeadIsEvent, EventKinds DEF RunData, Runs
<1>2. UNCHANGED <<shell, taken, up, saved>>
  BY DEF RunData, ptyVars, restartVars
<1>3. CASE Live(e) /\ OnPaneData(e.pane, e.chunks, Tail(ready))
  <2>1. e.pane \in up /\ Datum(e, e.pane, shell[e.pane])
    BY <1>1, <1>3 DEF Live, Datum
  <2>2. PaneOrder(e.pane, fed[e.pane], feedbuf[e.pane], ready, shell[e.pane], taken[e.pane])
    BY <1>0, <2>1 DEF OrderOK
  <2>3. /\ PaneOrder(e.pane, fed[e.pane], feedbuf[e.pane], Tail(ready), shell[e.pane], taken[e.pane])
        /\ NextUp(e.chunks, e.pane, fed[e.pane], feedbuf[e.pane], Tail(ready), shell[e.pane],
                  taken[e.pane])
    BY <1>0, <1>1, <2>1, <2>2, HeadIsNext
  <2>4. taken[e.pane] \in Nat /\ taken[e.pane] <= taken[e.pane]
    BY <1>0, <1>1 DEF Types
  <2>5. taken' = taken
    BY <1>2
  <2> HIDE DEF e
  <2> QED BY <1>1, <1>2, <1>3, <2>1, <2>3, <2>4, <2>5, DataOrder
<1>4. CASE ready' = Tail(ready) /\ UNCHANGED <<reading, fed, feedbuf, task>>
  BY <1>1, <1>2, <1>4, TailOrder, QuietStep
<1> QED BY <1>3, <1>4 DEF RunData

LEMMA EofOrder ==
  ASSUME OrderInv, RunEof
  PROVE  OrderOK'
<1>1. ready # <<>> /\ Head(ready).pane \in Panes
  BY HeadIsEvent, EventKinds DEF OrderInv, DrainInv, RunEof, Runs
<1>2. CASE PaneEof(Head(ready).pane, Tail(ready))
  BY <1>1, <1>2, TailOrder, PaneEofOrder
<1>3. CASE ~PaneEof(Head(ready).pane, Tail(ready))
  <2>1. ready' = Tail(ready) /\ UNCHANGED <<fed, feedbuf, task, shell, up, taken, saved>>
    BY <1>3 DEF RunEof, ptyVars, restartVars
  <2> QED BY <1>1, <2>1, TailOrder, QuietStep
<1> QED BY <1>2, <1>3

\* A turn of a drain.
LEMMA DrainTurnOrder ==
  ASSUME OrderInv, RunDrain
  PROVE  OrderOK'
<1> DEFINE d == Head(ready)
           q == Tail(ready)
<1>0. /\ Types /\ ready \in Seq(Events) /\ QueueOK(ready) /\ FlagsOK /\ OrderOK
      /\ task \in [Panes -> Nat] /\ up \subseteq Panes
  BY DEF OrderInv, DrainInv, Types
<1>1. /\ ready # <<>> /\ d = ready[1] /\ 1 \in 1..Len(ready) /\ d \in Events
      /\ d.t = "drain" /\ UNCHANGED <<shell, up, taken, saved>>
  BY <1>0, HeadIsEvent DEF RunDrain, Runs, ptyVars, restartVars
<1>2. /\ d.pane \in Panes /\ d.id \in Nat \ {0} /\ d.rest \in Seq(Pieces)
  BY <1>1, EventKinds
<1>3. DrainVanishes(d) \/ DrainStops(d) \/ DrainSlice(d) \/ DrainEnds(d)
  BY DEF RunDrain
<1>4. /\ q \in Seq(Events) /\ QueueOK(q)
      /\ \A p, z : PartOf(q, ready, p, z)
      /\ \A p \in up : PaneOrder(p, fed[p], feedbuf[p], q, shell[p], taken[p])
  BY <1>1, TailOrder
<1>5. /\ \A i \in 1..Len(q) : i + 1 \in 1..Len(ready) /\ q[i] = ready[i + 1] /\ i + 1 # 1
  BY <1>0, <1>1, TailItems
<1>6. ready' = q \/ DrainSlice(d)
  BY <1>3 DEF DrainVanishes, DrainStops, DrainEnds
<1> HIDE DEF d, q
<1>7. CASE DrainVanishes(d)
  <2>1. UNCHANGED <<fed, feedbuf, task>> /\ ready' = q
    BY <1>7 DEF DrainVanishes, q
  <2> QED BY <1>1, <1>4, <2>1, QuietStep
<1>8. CASE DrainStops(d)
  <2>1. task[d.pane] = 0
    <3>1. Zombie(ready[1], d.pane)
      BY <1>1, <1>8 DEF DrainStops, Zombie
    <3> QED BY <1>0, <1>1, <1>2, <3>1 DEF QueueOK, ZombiesFirst, FlagsOK
  <2>2. UNCHANGED <<fed, feedbuf>> /\ ready' = q /\ task' = [task EXCEPT ![d.pane] = 0]
    BY <1>8 DEF DrainStops, q
  <2>3. task' = task
    BY <1>0, <1>2, <2>1, <2>2
  <2> QED BY <1>1, <1>4, <2>2, <2>3, QuietStep
<1>9. CASE DrainEnds(d)
  <2>1. /\ UNCHANGED <<fed, feedbuf>> /\ ready' = q /\ task' = [task EXCEPT ![d.pane] = 0]
        /\ feedbuf[d.pane] = <<>>
    BY <1>9 DEF DrainEnds, Todo, q
  <2>2. \A p \in Panes : p # d.pane => task'[p] = task[p]
    BY <1>0, <2>1
  <2>3. \A p \in up : task'[p] = 0 => feedbuf[p] = <<>>
    BY <1>0, <2>1, <2>2 DEF OrderOK
  <2> QED BY <1>0, <1>1, <1>4, <2>1, <2>3 DEF OrderOK
<1>10. CASE DrainSlice(d)
  <2> DEFINE t == Todo(d)
             e == Drain(d.pane, d.id, TRUE, FALSE, Tail(t))
             p == d.pane
  <2>1. /\ ~d.cancelled /\ t # <<>> /\ UNCHANGED task
        /\ fed' = [fed EXCEPT ![p] = Append(@, Head(t))]
        /\ feedbuf' = IF d.rest # <<>> THEN feedbuf ELSE [feedbuf EXCEPT ![p] = <<>>]
        /\ ready' = Append(q, e)
    BY <1>10 DEF DrainSlice, q
  <2>2. t \in Seq(Pieces)
    BY <1>0, <1>1, TodoTypes
  <2>3. e \in Events /\ LiveDrain(e, p) /\ e.rest = Tail(t) /\ e.t = "drain"
    <3>1. Tail(t) \in Seq(Pieces) /\ TRUE \in BOOLEAN /\ FALSE \in BOOLEAN
      BY <2>1, <2>2
    <3>2. e \in Events
      <4> HIDE DEF Drain, t
      <4> QED BY <1>2, <3>1, DrainIsEvent
    <3> QED BY <3>2 DEF Drain, LiveDrain
  <2>4. LiveDrain(ready[1], p)
    BY <1>1, <2>1 DEF LiveDrain
  <2>5. \A i \in 1..Len(q) : ~LiveDrain(q[i], p)
    BY <1>0, <1>1, <1>2, <1>5, <2>4 DEF QueueOK, OneEach
  <2> HIDE DEF e
  <2>6. fed'[p] = Append(fed[p], Head(t)) /\ \A r \in Panes : r # p => fed'[r] = fed[r]
    BY <1>0, <1>2, <2>1 DEF Types
  <2>7. \A r \in Panes : r # p => feedbuf'[r] = feedbuf[r]
    BY <1>0, <2>1 DEF Types
  <2>8. \A r \in Panes : feedbuf'[r] = feedbuf[r] \/ feedbuf'[r] = <<>>
    BY <1>0, <1>2, <2>1 DEF Types
  <2>9. ASSUME p \in up
        PROVE  PaneOrder(p, fed'[p], feedbuf'[p], ready', shell[p], taken[p])
    <3>1. /\ PaneOrder(p, fed[p], feedbuf[p], ready, shell[p], taken[p])
          /\ PaneOrder(p, fed[p], feedbuf[p], q, shell[p], taken[p])
      BY <1>0, <1>4, <2>9 DEF OrderOK
    <3>2. /\ Fits(t, shell[p], taken[p]) /\ Before(fed[p], t) /\ Before(t, feedbuf'[p])
          /\ \A i \in 1..Len(q) : Datum(q[i], p, shell[p]) => Before(t, q[i].chunks)
      <4>1. CASE d.rest # <<>>
        <5>1. t = d.rest /\ feedbuf'[p] = feedbuf[p]
          BY <2>1, <4>1 DEF Todo
        <5>2. Fits(t, shell[p], taken[p]) /\ Before(fed[p], t) /\ Before(t, feedbuf[p])
          BY <1>1, <2>4, <3>1, <5>1 DEF PaneOrder
        <5>3. ASSUME NEW i \in 1..Len(q), Datum(q[i], p, shell[p])
              PROVE  Before(t, q[i].chunks)
          <6>1. i + 1 \in 1..Len(ready) /\ Datum(ready[i + 1], p, shell[p]) /\ q[i] = ready[i + 1]
            BY <1>5, <5>3
          <6>2. Before(ready[1].rest, ready[i + 1].chunks)
            BY <1>1, <2>4, <3>1, <6>1 DEF PaneOrder
          <6> QED BY <1>1, <5>1, <6>1, <6>2
        <5> QED BY <5>1, <5>2, <5>3
      <4>2. CASE d.rest = <<>>
        <5>1. t = feedbuf[p] /\ feedbuf'[p] = <<>>
          BY <1>0, <1>2, <2>1, <4>2 DEF Todo, Types
        <5> QED BY <3>1, <5>1, NothingIsOrdered DEF PaneOrder
      <4> QED BY <4>1, <4>2
    <3>3. PaneOrder(p, fed[p], feedbuf'[p], q, shell[p], taken[p])
      BY <1>2, <2>8, <3>1, EmptyBufferOrder
    <3>4. fed[p] \in Seq(Pieces)
      BY <1>0, <1>2 DEF Types
    <3> HIDE DEF t, p
    <3>5. PaneOrder(p, Append(fed[p], Head(t)), feedbuf'[p], Append(q, e), shell[p], taken[p])
      BY <1>4, <2>1, <2>2, <2>3, <2>5, <3>2, <3>3, <3>4, SliceKeepsOrder
    <3> QED BY <2>1, <2>6, <3>5
  <2>10. ASSUME NEW r \in up, r # p
         PROVE  PaneOrder(r, fed'[r], feedbuf'[r], ready', shell[r], taken[r])
    <3>1. ~LiveDrain(e, r) /\ ~Datum(e, r, shell[r])
      BY <2>3, <2>10 DEF LiveDrain, Datum
    <3>2. PartOf(Append(q, e), q, r, shell[r])
      BY <1>4, <2>3, <3>1, StrangerIsPart
    <3>3. PaneOrder(r, fed[r], feedbuf[r], Append(q, e), shell[r], taken[r])
      BY <1>4, <3>2, PartKeepsOrder
    <3> QED BY <1>0, <2>1, <2>6, <2>7, <2>10, <3>3
  <2>11. \A r \in up : task'[r] = 0 => feedbuf'[r] = <<>>
    BY <1>0, <2>1, <2>8 DEF OrderOK
  <2> QED BY <1>0, <1>1, <2>9, <2>10, <2>11 DEF OrderOK
<1> QED BY <1>3, <1>7, <1>8, <1>9, <1>10

\* What waits in the buffers is fed, and that is saved.
LEMMA RestartOrder ==
  ASSUME OrderInv, Restart
  PROVE  OrderOK'
<1>0. Types /\ ready \in Seq(Events) /\ QueueOK(ready) /\ up \subseteq Panes /\ OrderOK
  BY DEF OrderInv, DrainInv, Types
<1>1. /\ saved = NotSaved
      /\ fed' = [p \in Panes |-> IF p \in up THEN fed[p] \o feedbuf[p] ELSE fed[p]]
      /\ StopFeed(up) /\ ready' = Cancelled(ready, up)
      /\ saved' = [p \in up |-> fed'[p]] \/ saved' = saved
      /\ UNCHANGED <<shell, taken, up>>
  BY DEF Restart, ptyVars
<1>2. /\ \A p \in up : fed'[p] = fed[p] \o feedbuf[p] /\ feedbuf'[p] = <<>>
  BY <1>0, <1>1 DEF StopFeed
<1>3. ASSUME NEW p \in up
      PROVE  PaneOrder(p, fed'[p], <<>>, ready', shell[p], taken[p])
  <2> DEFINE c == Cancelled(ready, up)
  <2>1. PartOf(c, ready, p, shell[p]) /\ \A i \in 1..Len(c) : ~LiveDrain(c[i], p)
    BY <1>0, CancelledIsPart
  <2>2. ready' = c
    BY <1>1
  <2> HIDE DEF c
  <2>3. PaneOrder(p, fed[p], feedbuf[p], ready, shell[p], taken[p])
    BY <1>0 DEF OrderOK
  <2>4. PaneOrder(p, fed[p], feedbuf[p], c, shell[p], taken[p])
    BY <2>1, <2>3, PartKeepsOrder
  <2>5. PaneOrder(p, fed[p], <<>>, c, shell[p], taken[p])
    BY <2>4, EmptyBufferOrder
  <2>6. fed[p] \in Seq(Pieces) /\ feedbuf[p] \in Seq(Pieces)
    BY <1>0 DEF Types
  <2>7. /\ Fits(feedbuf[p], shell[p], taken[p]) /\ Before(fed[p], feedbuf[p])
        /\ \A i \in 1..Len(c) : Datum(c[i], p, shell[p]) => Before(feedbuf[p], c[i].chunks)
    BY <2>4 DEF PaneOrder
  <2>8. PaneOrder(p, fed[p] \o feedbuf[p], <<>>, c, shell[p], taken[p])
    BY <2>1, <2>5, <2>6, <2>7, ScreenKeepsOrder
  <2> QED BY <1>2, <2>2, <2>8
<1>4. ASSUME saved' # NotSaved, NEW p \in up
      PROVE  Fits(saved'[p], shell[p], taken[p])
  <2>1. saved'[p] = fed'[p]
    BY <1>1, <1>4
  <2> QED BY <1>3, <2>1 DEF PaneOrder
<1> QED BY <1>1, <1>2, <1>3, <1>4 DEF OrderOK

\* The new image shows what was saved.
LEMMA ExecOrder ==
  ASSUME OrderInv, Exec
  PROVE  OrderOK'
<1>1. /\ saved # NotSaved /\ ready' = <<>> /\ UNCHANGED <<shell, taken, up>> /\ saved' = NotSaved
      /\ \A p \in up : fed'[p] = saved[p] /\ feedbuf'[p] = <<>>
  BY DEF OrderInv, DrainInv, Types, Exec, ptyVars
<1>2. ASSUME NEW p \in up
      PROVE  PaneOrder(p, saved[p], <<>>, <<>>, shell[p], taken[p])
  <2>1. Fits(saved[p], shell[p], taken[p])
    BY <1>1 DEF OrderInv, OrderOK
  <2>2. Fits(<<>>, shell[p], taken[p]) /\ Before(saved[p], <<>>)
    BY NothingIsOrdered DEF Fits
  <2>3. 1..Len(<<>>) = {}
    OBVIOUS
  <2> QED BY <2>1, <2>2, <2>3 DEF PaneOrder
<1> QED BY <1>1, <1>2 DEF OrderOK

LEMMA OrderInvInit == Init => OrderInv
<1> SUFFICES ASSUME Init
             PROVE  OrderOK
  BY DrainInvInit DEF OrderInv
<1>1. /\ ready = <<>> /\ saved = NotSaved /\ up \subseteq Panes
      /\ \A p \in Panes : fed[p] = <<>> /\ feedbuf[p] = <<>>
  BY FeedAssumption DEF Init
<1>2. \A p, s, m : PaneOrder(p, <<>>, <<>>, <<>>, s, m)
  <2>1. 1..Len(<<>>) = {}
    OBVIOUS
  <2> QED BY <2>1, NothingIsOrdered DEF PaneOrder, Fits
<1> QED BY <1>1, <1>2 DEF OrderOK

LEMMA OrderInvKept == OrderInv /\ [Next]_vars => OrderInv'
<1> SUFFICES ASSUME OrderInv, [Next]_vars
             PROVE  OrderOK'
  BY DrainInvKept DEF OrderInv
<1>1. ASSUME NEW p \in Panes,
             ShellExits(p) \/ Select(p) \/ ThreadEnters(p) \/ ThreadPosts(p) \/ ThreadEnds(p)
      PROVE  OrderOK'
  BY <1>1, ArrivalOrder, PostOrder
<1>2. ASSUME NEW p \in Panes, Respawn(p)
      PROVE  OrderOK'
  BY <1>2, RespawnOrder
<1>3. ready \in Seq(Events) /\ QueueOK(ready) /\ \A r, z : PartOf(ready, ready, r, z)
  BY SameIsThinned, ThinnedIsPart DEF OrderInv, DrainInv, Types
<1>4. ASSUME NEW p \in Panes, ClosePane(p)
      PROVE  OrderOK'
  <2>1. PaneEof(p, ready)
    BY <1>4 DEF ClosePane
  <2> QED BY <1>3, <2>1, PaneEofOrder
<1>5. CASE RunReady
  BY <1>5, ReadOrder, PostedOrder, EofOrder, DrainTurnOrder DEF RunReady
<1>6. CASE Restart
  BY <1>6, RestartOrder
<1>7. CASE Exec
  BY <1>7, ExecOrder
<1>8. CASE UNCHANGED vars
  <2>1. /\ UNCHANGED <<fed, feedbuf, task, shell, up, taken, saved>>
        /\ \A p \in up : PartOf(ready', ready, p, shell[p])
    BY <1>3, <1>8 DEF vars
  <2> QED BY <2>1, QuietStep
<1> QED BY <1>1, <1>2, <1>4, <1>5, <1>6, <1>7, <1>8 DEF Next

\* What a pane shows comes from its present shell, in the order that shell wrote
\* it, each chunk at most once (_on_pane_data, _feed_drain, _stop_pane_feed,
\* coalesce_alt_repaints), whichever backend reads the PTYs.
THEOREM FedInOrderCorrect == Spec => []FedInOrder
<1>1. ASSUME OrderInv
      PROVE  FedInOrder
  <2> SUFFICES ASSUME NEW p \in up, NEW i \in DOMAIN fed[p]
               PROVE  fed[p][i].of = shell[p] /\ (i > 1 => fed[p][i - 1].n < fed[p][i].n)
    BY DEF FedInOrder
  <2>1. fed[p] \in Seq(Pieces)
    BY <1>1 DEF OrderInv, DrainInv, Types
  <2>2. Ordered(fed[p], shell[p])
    BY <1>1 DEF OrderInv, OrderOK, PaneOrder, Fits
  <2>3. i \in 1..Len(fed[p]) /\ (i > 1 => i - 1 \in 1..Len(fed[p]) /\ i - 1 < i)
    BY <2>1
  <2> QED BY <2>2, <2>3 DEF Ordered
<1> QED BY <1>1, OrderInvInit, OrderInvKept, PTL DEF Spec

-----------------------------------------------------------------------------
(* The ends of descriptors are read, never posted.                         *)

NoPostedEnd(q) == \A i \in 1..Len(q) : q[i].t # "eof"

EofInv == OrderInv /\ (backend = "fd" => NoPostedEnd(ready))

\* Callbacks leave the queue, another one comes, a feed stops.
LEMMA ThinnedNoEnd ==
  ASSUME NEW q, NEW r, Thinned(q, r), NoPostedEnd(r)
  PROVE  NoPostedEnd(q)
BY DEF Thinned, Places, NoPostedEnd

LEMMA AppendNoEnd ==
  ASSUME NEW q \in Seq(Events), NoPostedEnd(q), NEW e \in Events, e.t # "eof"
  PROVE  NoPostedEnd(Append(q, e))
<1> DEFINE r == Append(q, e)
<1>1. /\ \A i \in 1..Len(q) : r[i] = q[i]
      /\ r[Len(q) + 1] = e
      /\ \A i \in 1..Len(r) : i \in 1..Len(q) \/ i = Len(q) + 1
  BY AppendEvent
<1> HIDE DEF r
<1>2. NoPostedEnd(r)
  BY <1>1 DEF NoPostedEnd
<1> QED BY <1>2 DEF r

LEMMA CancelledNoEnd ==
  ASSUME Types, NEW STATE q, q \in Seq(Events), QueueOK(q), NoPostedEnd(q),
         NEW STATE ps, ps \subseteq Panes
  PROVE  NoPostedEnd(Cancelled(q, ps)) /\ Cancelled(q, ps) \in Seq(Events)
<1> DEFINE c == Cancelled(q, ps)
<1>1. /\ c \in Seq(Events) /\ Len(c) = Len(q)
      /\ \A i \in 1..Len(q) : c[i] = q[i] \/ (c[i].t = "drain" /\ q[i].t = "drain")
  BY CancelledOK
<1> HIDE DEF c
<1>2. NoPostedEnd(c)
  BY <1>1 DEF NoPostedEnd
<1> QED BY <1>1, <1>2 DEF c

LEMMA StopNoEnd ==
  ASSUME Types, NEW STATE q, q \in Seq(Events), QueueOK(q), NoPostedEnd(q), NEW STATE p, p \in Panes
  PROVE  NoPostedEnd(Unread(Cancelled(q, {p}), p))
<1> DEFINE c == Cancelled(q, {p})
<1>1. NoPostedEnd(c) /\ c \in Seq(Events)
  BY CancelledNoEnd
<1> HIDE DEF c
<1>2. Thinned(Unread(c, p), c)
  BY <1>1, UnreadIsThinned
<1>3. NoPostedEnd(Unread(c, p))
  BY <1>1, <1>2, ThinnedNoEnd
<1> QED BY <1>3 DEF c

\* Chunks are handed to a pane.
LEMMA OnPaneDataNoEnd ==
  ASSUME Types, NEW STATE q, q \in Seq(Events), NoPostedEnd(q), NEW STATE p, p \in Panes,
         NEW STATE cs, OnPaneData(p, cs, q)
  PROVE  NoPostedEnd(ready')
<1>1. CASE ready' = q
  BY <1>1
<1>2. CASE BeginDrain(p, cs, q)
  <2> DEFINE u == Unread(q, p)
             e == Drain(p, FreeId, FALSE, FALSE, <<>>)
  <2>1. ready' = Append(u, e)
    BY <1>2 DEF BeginDrain
  <2>2. Thinned(u, q) /\ u \in Seq(Events)
    BY UnreadIsThinned DEF Thinned
  <2> HIDE DEF u
  <2>3. e \in Events /\ e.t = "drain"
    <3>1. FreeId \in Nat \ {0}
      BY FreeIdExists DEF Types
    <3>2. <<>> \in Seq(Pieces) /\ FALSE \in BOOLEAN
      OBVIOUS
    <3>3. e \in Events
      <4> HIDE DEF Drain
      <4> QED BY <3>1, <3>2, DrainIsEvent
    <3> QED BY <3>3 DEF Drain
  <2> HIDE DEF e
  <2>4. NoPostedEnd(u)
    BY <2>2, ThinnedNoEnd
  <2> QED BY <2>1, <2>2, <2>3, <2>4, AppendNoEnd
<1> QED BY <1>1, <1>2 DEF OnPaneData, JoinDrain, FeedInline

LEMMA EofInvKept == EofInv /\ [Next]_vars => EofInv'
<1> SUFFICES ASSUME EofInv, [Next]_vars, backend' = "fd"
             PROVE  NoPostedEnd(ready')
  BY OrderInvKept DEF EofInv
<1>0. /\ backend = "fd" /\ OrderInv /\ NoPostedEnd(ready) /\ Types /\ ready \in Seq(Events)
      /\ QueueOK(ready) /\ inRead = {} /\ up \subseteq Panes
  <2>1. backend' = backend
    BY DEF Next, ShellExits, Select, ThreadEnters, ThreadPosts, ThreadEnds, Respawn, ClosePane,
           PaneEof, RunReady, RunRead, RunData, RunEof, RunDrain, Restart, Exec, ptyVars, vars
  <2> QED BY <2>1 DEF EofInv, OrderInv, DrainInv, Types, FlagsOK
<1>1. CASE ready' = ready
  BY <1>0, <1>1
<1>2. ASSUME ready # <<>>
      PROVE  /\ Tail(ready) \in Seq(Events) /\ QueueOK(Tail(ready)) /\ NoPostedEnd(Tail(ready))
             /\ Head(ready) \in Events /\ Head(ready).pane \in Panes
  <2>1. Thinned(Tail(ready), ready)
    BY <1>0, <1>2, TailIsThinned
  <2>2. Head(ready) \in Events
    BY <1>0, <1>2, HeadIsEvent
  <2> QED BY <1>0, <1>2, <2>1, <2>2, TailOrder, ThinnedNoEnd, EventKinds
<1>3. ASSUME NEW p \in Panes, Select(p)
      PROVE  NoPostedEnd(ready')
  <2>1. ready' = Append(ready, ReadEvent(p)) /\ ReadEvent(p).t # "eof"
    BY <1>3 DEF Select, ReadEvent
  <2>2. ReadEvent(p) \in Events
    BY DEF ReadEvent, Events
  <2> QED BY <1>0, <2>1, <2>2, AppendNoEnd
<1>4. ASSUME NEW p \in Panes
      PROVE  ~ThreadPosts(p) /\ ~ThreadEnds(p)
  BY <1>0 DEF ThreadPosts, ThreadEnds
<1>5. ASSUME NEW p \in Panes, Respawn(p) \/ ClosePane(p)
      PROVE  NoPostedEnd(ready')
  <2>1. ready' = Unread(Cancelled(ready, {p}), p)
    BY <1>5 DEF Respawn, ClosePane, PaneEof
  <2> QED BY <1>0, <2>1, StopNoEnd
<1>6. ASSUME ready # <<>>, NEW STATE p, p \in Panes, PaneEof(p, Tail(ready))
      PROVE  NoPostedEnd(ready')
  <2>1. ready' = Unread(Cancelled(Tail(ready), {p}), p)
    BY <1>6 DEF PaneEof
  <2> QED BY <1>0, <1>2, <1>6, <2>1, StopNoEnd
<1>7. ASSUME ready # <<>>, NEW STATE p, p \in Panes, NEW STATE cs, OnPaneData(p, cs, Tail(ready))
      PROVE  NoPostedEnd(ready')
  BY <1>0, <1>2, <1>7, OnPaneDataNoEnd
<1>8. CASE RunRead
  BY <1>2, <1>6, <1>7, <1>8 DEF RunRead, Runs
<1>9. CASE RunData
  BY <1>2, <1>7, <1>9 DEF RunData, Runs
<1>10. CASE RunEof
  BY <1>2, <1>6, <1>10 DEF RunEof, Runs
<1>11. CASE RunDrain
  <2> DEFINE d == Head(ready)
  <2>1. ready # <<>> /\ d.t = "drain"
    BY <1>11 DEF RunDrain, Runs
  <2>2. CASE ready' = Tail(ready)
    BY <1>2, <2>1, <2>2
  <2>3. CASE DrainSlice(d)
    <3> DEFINE e == Drain(d.pane, d.id, TRUE, FALSE, Tail(Todo(d)))
    <3>1. ready' = Append(Tail(ready), e) /\ Todo(d) # <<>>
      BY <2>3 DEF DrainSlice
    <3>2. Tail(Todo(d)) \in Seq(Pieces)
      <4>1. Todo(d) \in Seq(Pieces)
        BY <1>0, <1>2, <2>1, TodoTypes
      <4> QED BY <3>1, <4>1
    <3>3. d.pane \in Panes /\ d.id \in Nat \ {0} /\ TRUE \in BOOLEAN /\ FALSE \in BOOLEAN
      BY <1>2, <2>1, EventKinds
    <3>4. e \in Events /\ e.t = "drain"
      <4>1. e \in Events
        <5> HIDE DEF Drain, d
        <5> QED BY <3>2, <3>3, DrainIsEvent
      <4> QED BY <4>1 DEF Drain
    <3> HIDE DEF e
    <3> QED BY <1>2, <2>1, <3>1, <3>4, AppendNoEnd
  <2> QED BY <1>11, <2>2, <2>3 DEF RunDrain, DrainVanishes, DrainStops, DrainEnds
<1>12. CASE Restart
  <2>1. ready' = Cancelled(ready, up)
    BY <1>12 DEF Restart
  <2> QED BY <1>0, <2>1, CancelledNoEnd
<1>13. CASE Exec
  BY <1>13 DEF Exec, NoPostedEnd
<1> QED
  BY <1>1, <1>3, <1>4, <1>5, <1>8, <1>9, <1>10, <1>11, <1>12, <1>13
  DEF Next, RunReady, ShellExits, ThreadEnters, vars

LEMMA EofInvInit == Init => EofInv
BY OrderInvInit DEF EofInv, Init, NoPostedEnd

\* The end of a shell that is read by a descriptor is handled when all that was read
\* is fed, so that the cancellation in _pane_eof finds no drain and no buffer of its
\* pane (_pane_eof, _on_pty_read, _stop_pane_feed).
THEOREM EofFindsNothingCorrect == Spec => EofFindsNothing
<1>1. ASSUME EofInv, [Next]_vars
      PROVE  [backend = "fd" /\ RunReady => \A p \in up \ up' : Waiting(p) = {}]_vars
  <2> SUFFICES ASSUME backend = "fd", RunReady, NEW p \in up, p \notin up'
               PROVE  Waiting(p) = {}
    OBVIOUS
  <2>0. /\ Types /\ FlagsOK /\ QueueOK(ready) /\ OrderOK /\ NoPostedEnd(ready)
        /\ ready \in Seq(Events) /\ p \in Panes
    BY <1>1 DEF EofInv, OrderInv, DrainInv, Types
  <2>1. ready # <<>> /\ Head(ready).t = "read" /\ Head(ready).pane = p
    <3>1. ready # <<>> /\ Head(ready) = ready[1] /\ 1 \in 1..Len(ready)
      BY <2>0, HeadIsEvent DEF RunReady, RunRead, RunData, RunEof, RunDrain, Runs
    <3>2. ~RunEof
      BY <2>0, <3>1 DEF RunEof, Runs, NoPostedEnd
    <3>3. RunRead
      BY <3>2 DEF RunReady, RunData, RunDrain, ptyVars
    <3> QED BY <3>1, <3>3 DEF RunRead, Runs, PaneEof
  <2>2. task[p] = 0 /\ feedbuf[p] = <<>>
    <3>1. p \in reading
      BY <2>0, <2>1, HeadIsEvent DEF QueueOK, ArrivalsOK
    <3> QED BY <2>0, <3>1 DEF FlagsOK, OrderOK
  <2>3. ASSUME NEW e \in ToSet(ready)
        PROVE  Held(p, e) = {}
    <3>1. PICK i \in 1..Len(ready) : ready[i] = e
      <4>1. DOMAIN ready = 1..Len(ready)
        BY <2>0
      <4> QED BY <4>1 DEF ToSet
    <3>2. e.t # "data" /\ ~LiveDrain(e, p)
      BY <2>0, <2>2, <3>1, NoDrainWhenIdle DEF QueueOK, ArrivalsOK
    <3> QED BY <3>2 DEF Held, LiveDrain
  <2>4. ToSet(feedbuf[p]) = {}
    BY <2>2 DEF ToSet
  <2> QED BY <2>3, <2>4 DEF Waiting
<1> QED BY <1>1, EofInvInit, EofInvKept, PTL DEF Spec, EofFindsNothing

-----------------------------------------------------------------------------
(* What was read from a descriptor is on the screen, in the buffer or held *)
(* by the drain; else a frame that was read later draws over it.           *)

Among(c, cs) == \E i \in 1..Len(cs) : cs[i] = c
InHand(p, f, b, q, c) ==
  \/ Among(c, f) \/ Among(c, b)
  \/ \E i \in 1..Len(q) : LiveDrain(q[i], p) /\ Among(c, q[i].rest)

\* DrawnOver, for the first m chunks of the shell s.
Hidden(s, m, n) ==
  /\ AltAfter([i \in 1..(n - 1) |-> Chunk(s, i)])
  /\ \E k \in (n + 1)..m :
       /\ Script[k] = "clear"
       /\ \A i \in n..k : Script[i] \notin {"enter", "leave"}

NothingLost(p, f, b, q, s, m) ==
  \A n \in 1..m : InHand(p, f, b, q, Chunk(s, n)) \/ Hidden(s, m, n)

LossOK ==
  /\ restart = "none" => saved = NotSaved
  /\ backend = "fd" /\ restart = "none" =>
       \A p \in up : NothingLost(p, fed[p], feedbuf[p], ready, shell[p], taken[p])

LossInv == EofInv /\ FeedTypeInv /\ LossOK

\* Nothing gets lost when sequences are joined, or the head of one is taken.
LEMMA AmongParts ==
  /\ \A c : ~Among(c, <<>>)
  /\ \A a, b \in Seq(Pieces) : \A c : Among(c, a) \/ Among(c, b) => Among(c, a \o b)
  /\ \A t \in Seq(Pieces) : \A c : t # <<>> /\ Among(c, t) => c = Head(t) \/ Among(c, Tail(t))
<1>1. \A c : ~Among(c, <<>>)
  BY DEF Among
<1>2. ASSUME NEW a \in Seq(Pieces), NEW b \in Seq(Pieces), NEW c, Among(c, a) \/ Among(c, b)
      PROVE  Among(c, a \o b)
  <2>1. /\ Len(a \o b) = Len(a) + Len(b) /\ Len(a) \in Nat /\ Len(b) \in Nat
        /\ \A i \in 1..(Len(a) + Len(b)) :
             (a \o b)[i] = IF i <= Len(a) THEN a[i] ELSE b[i - Len(a)]
    BY ConcatProperties
  <2>2. CASE Among(c, a)
    <3>1. PICK i \in 1..Len(a) : a[i] = c
      BY <2>2 DEF Among
    <3>2. i \in 1..Len(a \o b) /\ (a \o b)[i] = c
      BY <2>1, <3>1
    <3> QED BY <3>2 DEF Among
  <2>3. CASE Among(c, b)
    <3>1. PICK i \in 1..Len(b) : b[i] = c
      BY <2>3 DEF Among
    <3>2. i + Len(a) \in 1..Len(a \o b) /\ (a \o b)[i + Len(a)] = c
      BY <2>1, <3>1
    <3> QED BY <3>2 DEF Among
  <2> QED BY <1>2, <2>2, <2>3
<1>3. ASSUME NEW t \in Seq(Pieces), NEW c, t # <<>>, Among(c, t)
      PROVE  c = Head(t) \/ Among(c, Tail(t))
  <2>1. PICK i \in 1..Len(t) : t[i] = c
    BY <1>3 DEF Among
  <2>2. CASE i = 1
    BY <1>3, <2>1, <2>2
  <2>3. CASE i # 1
    <3>1. i - 1 \in 1..Len(Tail(t)) /\ Tail(t)[i - 1] = c
      BY <1>3, <2>1, <2>3
    <3> QED BY <3>1 DEF Among
  <2> QED BY <2>2, <2>3
<1> QED BY <1>1, <1>2, <1>3

\* The drain of the pane, if any, is in q as it was in r.
SameDrain(q, r, p) ==
  \A i \in 1..Len(r) : LiveDrain(r[i], p) => \E j \in 1..Len(q) : q[j] = r[i]

LEMMA SameDrainLosesNothing ==
  ASSUME NEW p, NEW f, NEW b, NEW q, NEW r, NEW s, NEW m, SameDrain(q, r, p),
         NothingLost(p, f, b, r, s, m)
  PROVE  NothingLost(p, f, b, q, s, m)
<1> SUFFICES ASSUME NEW n \in 1..m, InHand(p, f, b, r, Chunk(s, n))
             PROVE  InHand(p, f, b, q, Chunk(s, n))
  BY DEF NothingLost
<1> QED BY DEF InHand, SameDrain

\* So it is when other callbacks come and go.
LEMMA StaysSameDrain ==
  ASSUME NEW q, NEW r, NEW p, \A e : LiveDrain(e, p) => Stays(e, q, r)
  PROVE  SameDrain(q, r, p)
BY DEF Stays, SameDrain

LEMMA AppendSameDrain ==
  ASSUME NEW r \in Seq(Events), NEW e \in Events, NEW p
  PROVE  SameDrain(Append(r, e), r, p)
<1> DEFINE q == Append(r, e)
<1>1. /\ \A i \in 1..Len(r) : q[i] = r[i]
      /\ \A i \in 1..Len(r) : i \in 1..Len(q)
  BY AppendEvent
<1> HIDE DEF q
<1>2. SameDrain(q, r, p)
  BY <1>1 DEF SameDrain
<1> QED BY <1>2 DEF q

LEMMA UnreadSameDrain ==
  ASSUME NEW r \in Seq(Events), NEW z, NEW p
  PROVE  SameDrain(Unread(r, z), r, p) /\ Unread(r, z) \in Seq(Events)
<1>1. Thinned(Unread(r, z), r) /\ \A e : e # ReadEvent(z) => Stays(e, Unread(r, z), r)
  BY UnreadIsThinned
<1>2. \A e : LiveDrain(e, p) => e # ReadEvent(z)
  BY DEF LiveDrain, ReadEvent
<1> QED BY <1>1, <1>2, StaysSameDrain DEF Thinned

LEMMA SameDrainTwice ==
  ASSUME NEW q, NEW r, NEW t, NEW p, SameDrain(q, r, p), SameDrain(r, t, p)
  PROVE  SameDrain(q, t, p)
<1> SUFFICES ASSUME NEW i \in 1..Len(t), LiveDrain(t[i], p)
             PROVE  \E j \in 1..Len(q) : q[j] = t[i]
  BY DEF SameDrain
<1>1. PICK k \in 1..Len(r) : r[k] = t[i]
  BY DEF SameDrain
<1>2. PICK j \in 1..Len(q) : q[j] = r[k]
  BY <1>1 DEF SameDrain
<1> QED BY <1>1, <1>2

LEMMA CancelledSameDrain ==
  ASSUME Types, NEW STATE q, q \in Seq(Events), QueueOK(q), NEW STATE ps, ps \subseteq Panes,
         NEW STATE p, p \in Panes \ ps
  PROVE  SameDrain(Cancelled(q, ps), q, p) /\ Cancelled(q, ps) \in Seq(Events)
<1> DEFINE c == Cancelled(q, ps)
<1>1. /\ c \in Seq(Events) /\ Len(c) = Len(q)
      /\ \A i \in 1..Len(q) : \A r \in Panes :
           LiveDrain(q[i], r) /\ r \notin ps => c[i] = q[i]
  BY CancelledOK
<1> HIDE DEF c
<1>2. SameDrain(c, q, p)
  BY <1>1 DEF SameDrain
<1> QED BY <1>1, <1>2 DEF c

\* The callback that runs is not the drain of the pane.
LEMMA TailSameDrain ==
  ASSUME NEW q \in Seq(Events), q # <<>>, NEW p, ~LiveDrain(Head(q), p)
  PROVE  SameDrain(Tail(q), q, p)
<1>1. \A e : e # Head(q) => Stays(e, Tail(q), q)
  BY TailIsThinned
<1> QED BY <1>1, StaysSameDrain

\* What is drawn over stays drawn over.
LEMMA HiddenLater ==
  ASSUME NEW s, NEW m \in Nat, NEW k \in Nat, m <= k, NEW n \in 1..m, Hidden(s, m, n)
  PROVE  Hidden(s, k, n)
BY DEF Hidden

\* What is drawn over is no switch.
LEMMA HiddenIsNoSwitch ==
  ASSUME NEW s, NEW m \in Nat, NEW n \in 1..m, Hidden(s, m, n)
  PROVE  Script[n] \notin {"enter", "leave"}
<1>1. PICK k \in (n + 1)..m : \A i \in n..k : Script[i] \notin {"enter", "leave"}
  BY DEF Hidden
<1>2. n \in n..k
  OBVIOUS
<1> QED BY <1>1, <1>2

\* The alternate screen that is shown now is shown after each of the first chunks up
\* to n: a switch that came later is either on the screen or among them.
LEMMA AltAfterAll ==
  ASSUME NEW p, NEW f \in Seq(Pieces), NEW q, NEW s \in Nat, NEW m \in Nat,
         Fits(f, s, m), Written(f), NothingLost(p, f, <<>>, q, s, m),
         \A i \in 1..Len(q) : ~LiveDrain(q[i], p), AltAfter(f),
         NEW n \in Nat, m < n, \A j \in (m + 1)..(n - 1) : Script[j] \notin {"enter", "leave"}
  PROVE  AltAfter([i \in 1..(n - 1) |-> Chunk(s, i)])
<1> DEFINE g == [i \in 1..(n - 1) |-> Chunk(s, i)]
<1>1. DOMAIN g = 1..(n - 1) /\ \A j \in 1..(n - 1) : Kind(g[j]) = Script[j]
  BY DEF Chunk, Kind
<1>2. PICK i \in 1..Len(f) :
        Kind(f[i]) = "enter" /\ \A j \in 1..Len(f) : j > i => ~IsSwitch(f[j])
  BY DEF AltAfter
<1> DEFINE a == f[i].n
<1>3. a \in DOMAIN Script /\ a <= m /\ Script[a] = "enter" /\ a \in Nat
  <2>1. f[i] \in Chunks
    BY DEF Written
  <2>2. a \in DOMAIN Script
    BY <2>1 DEF Chunks, Chunk
  <2>3. a \in Nat /\ a <= m
    <3>1. f[i] \in Pieces
      OBVIOUS
    <3> QED BY <3>1 DEF Pieces, Fits, UpTo
  <2> QED BY <1>2, <2>2, <2>3 DEF Kind
<1>4. a \in 1..(n - 1)
  <2>1. DOMAIN Script = 1..Len(Script)
    BY FeedAssumption
  <2> HIDE DEF a
  <2> QED BY <1>3, <2>1
<1>5. ASSUME NEW j \in 1..(n - 1), j > a, IsSwitch(g[j])
      PROVE  FALSE
  <2>1. Script[j] \in {"enter", "leave"}
    BY <1>1, <1>5 DEF IsSwitch
  <2>2. j \in 1..m
    BY <2>1
  <2>3. InHand(p, f, <<>>, q, Chunk(s, j))
    BY <2>1, <2>2, HiddenIsNoSwitch DEF NothingLost
  <2>4. PICK y \in 1..Len(f) : f[y] = Chunk(s, j)
    BY <2>3, AmongParts DEF InHand, Among
  <2>5. f[y].n = j
    BY <2>4 DEF Chunk
  <2>6. y > i
    <3>1. \A z \in 1..Len(f) : f[z].n \in Nat
      <4>1. \A z \in 1..Len(f) : f[z] \in Pieces
        OBVIOUS
      <4> QED BY <4>1 DEF Pieces
    <3>2. y < i => f[y].n < f[i].n
      BY DEF Fits, Ordered
    <3>3. y # i
      BY <1>5, <2>5, <3>1
    <3>4. ~(f[y].n < f[i].n)
      BY <1>5, <2>5, <3>1
    <3> QED BY <3>2, <3>3, <3>4
  <2>7. ~IsSwitch(f[y])
    BY <1>2, <2>6
  <2> QED BY <2>1, <2>5, <2>7 DEF IsSwitch, Kind
<1> HIDE DEF a, g
<1>6. AltAfter(g)
  BY <1>1, <1>3, <1>4, <1>5 DEF AltAfter
<1> QED BY <1>6 DEF g

\* A burst that is coalesced keeps its last frame, which draws over the others.
LEMMA BurstLosesNothing ==
  ASSUME Types, NEW STATE p, p \in Panes, NEW STATE q, NEW STATE cs, cs \in Reads(p),
         Fits(fed[p], shell[p], taken[p]), Written(fed[p]),
         \A i \in 1..Len(q) : ~LiveDrain(q[i], p),
         NothingLost(p, fed[p], <<>>, q, shell[p], taken[p])
  PROVE  NothingLost(p, fed[p], Coalesced(p, cs), q, shell[p], taken[p] + Len(cs))
<1> DEFINE f == fed[p]
           s == shell[p]
           m == taken[p]
           k == Len(cs)
           ds == Coalesced(p, cs)
<1>1. f \in Seq(Pieces) /\ s \in Nat /\ m \in Nat /\ k \in Nat /\ cs \in Seq(Pieces)
  BY ReadsOrdered DEF Types
<1>2. \A i \in 1..k : cs[i] = Chunk(s, m + i) /\ Kind(cs[i]) = Script[m + i]
  <2>1. PICK z \in 1..Min({Batch, Len(Script) - m}) : cs = [i \in 1..z |-> Chunk(s, m + i)]
    BY DEF Reads
  <2>2. Min({Batch, Len(Script) - m}) \in Int
    <3>1. Batch \in Int /\ Len(Script) - m \in Int
      BY <1>1, FeedAssumption
    <3> HIDE DEF m
    <3> QED BY <3>1, MinOfTwo
  <2>3. z \in Nat
    BY <2>2
  <2>4. k = z /\ \A i \in 1..k : cs[i] = Chunk(s, m + i)
    BY <2>1, <2>3
  <2> HIDE DEF k, m, s
  <2>5. \A i \in 1..k : Kind(Chunk(s, m + i)) = Script[m + i]
    BY DEF Kind, Chunk
  <2> QED BY <2>4, <2>5
<1>3. ASSUME NEW n \in 1..m
      PROVE  InHand(p, f, ds, q, Chunk(s, n)) \/ Hidden(s, m + k, n)
  <2>1. InHand(p, f, <<>>, q, Chunk(s, n)) \/ Hidden(s, m, n)
    BY DEF NothingLost
  <2> HIDE DEF f, s, m, k, ds
  <2>2. Hidden(s, m, n) => Hidden(s, m + k, n)
    <3>1. m + k \in Nat /\ m <= m + k
      BY <1>1
    <3> QED BY <1>1, <3>1, HiddenLater
  <2> QED BY <2>1, <2>2, AmongParts DEF InHand
<1>4. ASSUME NEW i \in 1..k, Among(cs[i], ds)
      PROVE  InHand(p, f, ds, q, Chunk(s, m + i))
  BY <1>2, <1>4 DEF InHand
<1>5. CASE ds = cs
  <2>1. \A i \in 1..k : Among(cs[i], ds)
    BY <1>5 DEF Among
  <2> HIDE DEF f, s, m, k, ds
  <2>2. ASSUME NEW n \in 1..(m + k), n \notin 1..m
        PROVE  InHand(p, f, ds, q, Chunk(s, n))
    <3>1. n - m \in 1..k /\ m + (n - m) = n
      BY <1>1, <2>2
    <3> QED BY <1>4, <2>1, <3>1
  <2>3. NothingLost(p, f, ds, q, s, m + k)
    BY <1>3, <2>2 DEF NothingLost
  <2> QED BY <2>3 DEF f, s, m, k, ds
<1>6. CASE ds # cs
  <2> DEFINE x == Max(Clears(cs))
  <2>1. /\ ds = SubSeq(cs, x, k) /\ AltAfter(f) /\ \A i \in 1..k : ~IsSwitch(cs[i])
        /\ Cardinality(Clears(cs)) >= 2
    <3>1. DOMAIN cs = 1..k
      BY <1>1
    <3> HIDE DEF k
    <3>2. ds = SubSeq(cs, x, Len(cs)) /\ AltAfter(fed[p]) /\ Cardinality(Clears(cs)) >= 2
      BY <1>6 DEF Coalesced
    <3>3. \A i \in DOMAIN cs : ~IsSwitch(cs[i])
      BY <1>6 DEF Coalesced
    <3> QED BY <3>1, <3>2, <3>3 DEF k
  <2>2. x \in 1..k /\ Kind(cs[x]) = "clear"
    <3>1. Clears(cs) # {}
      <4>1. Cardinality({}) = 0 /\ ~(0 >= 2)
        BY FS_EmptySet
      <4> HIDE DEF Clears
      <4> QED BY <2>1, <4>1
    <3>2. Clears(cs) \subseteq 1..k
      BY DEF Clears
    <3>3. x \in Clears(cs)
      <4> HIDE DEF k
      <4> QED BY <1>1, <3>1, <3>2, MaxIsMember
    <3> QED BY <3>3 DEF Clears
  <2> HIDE DEF x
  <2>3. \A j \in 1..k : Script[m + j] \notin {"enter", "leave"}
    <3> HIDE DEF f, s, m, k, ds
    <3> QED BY <1>2, <2>1 DEF IsSwitch
  <2>4. Script[m + x] = "clear"
    <3> HIDE DEF s, m, k
    <3> QED BY <1>2, <2>2
  <2>5. ASSUME NEW i \in 1..k, x <= i
        PROVE  Among(cs[i], ds)
    <3> HIDE DEF ds, f, s, m
    <3>1. Len(ds) = k - x + 1 /\ \A j \in 1..(k - x + 1) : ds[j] = cs[x + j - 1]
      BY <1>1, <2>1, <2>2, SMTT(60)
    <3>2. i - x + 1 \in 1..(k - x + 1) /\ x + (i - x + 1) - 1 = i
      <4> HIDE DEF k
      <4> QED BY <1>1, <2>2, <2>5
    <3>3. i - x + 1 \in 1..Len(ds) /\ ds[i - x + 1] = cs[i]
      <4> DEFINE j == i - x + 1
      <4>1. j \in 1..Len(ds) /\ ds[j] = cs[x + j - 1]
        <5> HIDE DEF j, k
        <5>1. j \in 1..(k - x + 1)
          BY <3>2 DEF j
        <5> QED BY <3>1, <5>1
      <4> QED BY <3>2, <4>1
    <3> QED BY <3>3 DEF Among
  <2>6. ASSUME NEW n \in 1..(m + k), m < n, n < m + x
        PROVE  Hidden(s, m + k, n)
    <3>1. \A j \in (m + 1)..(m + k) : Script[j] \notin {"enter", "leave"}
      <4> SUFFICES ASSUME NEW j \in (m + 1)..(m + k)
                   PROVE  Script[j] \notin {"enter", "leave"}
        OBVIOUS
      <4>1. j - m \in 1..k /\ m + (j - m) = j
        BY <1>1
      <4> QED BY <2>3, <4>1
    <3> HIDE DEF f, s, m, k, ds
    <3>2. AltAfter([i \in 1..(n - 1) |-> Chunk(s, i)])
      <4>1. Fits(f, s, m) /\ Written(f) /\ NothingLost(p, f, <<>>, q, s, m)
        BY DEF f, s, m
      <4>2. n \in Nat /\ \A j \in (m + 1)..(n - 1) : Script[j] \notin {"enter", "leave"}
        BY <1>1, <3>1
      <4>3. AltAfter(f) /\ m < n /\ f \in Seq(Pieces) /\ s \in Nat /\ m \in Nat
        BY <1>1, <2>1, <2>6
      <4> QED BY <4>1, <4>2, <4>3, AltAfterAll, SMTT(60)
    <3>3. m + x \in (n + 1)..(m + k) /\ \A i \in n..(m + x) : i \in (m + 1)..(m + k)
      BY <1>1, <2>2, <2>6
    <3> QED BY <2>4, <3>1, <3>2, <3>3 DEF Hidden
  <2> HIDE DEF f, s, m, k, ds
  <2>7. ASSUME NEW n \in 1..(m + k), n \notin 1..m
        PROVE  InHand(p, f, ds, q, Chunk(s, n)) \/ Hidden(s, m + k, n)
    <3>1. n - m \in 1..k /\ m + (n - m) = n /\ m < n
      BY <1>1, <2>7
    <3>2. CASE x <= n - m
      BY <1>4, <2>5, <3>1, <3>2
    <3>3. CASE ~(x <= n - m)
      <4>1. n < m + x
        BY <1>1, <2>2, <3>1, <3>3
      <4> QED BY <2>6, <3>1, <4>1
    <3> QED BY <3>2, <3>3
  <2>8. NothingLost(p, f, ds, q, s, m + k)
    BY <1>3, <2>7 DEF NothingLost
  <2> QED BY <2>8 DEF f, s, m, k, ds
<1> QED BY <1>5, <1>6

-----------------------------------------------------------------------------
(* The steps.                                                              *)

\* What a pane has in hand moves on, and no more was read.
LEMMA MovedOnLosesNothing ==
  ASSUME NEW p, NEW f, NEW b, NEW q, NEW g, NEW a, NEW r, NEW s, NEW m,
         NothingLost(p, f, b, q, s, m),
         \A c : InHand(p, f, b, q, c) => InHand(p, g, a, r, c)
  PROVE  NothingLost(p, g, a, r, s, m)
BY DEF NothingLost

\* A feed stops, which the other panes do not notice.
LEMMA StopLosesNothing ==
  ASSUME Types, NEW STATE q, q \in Seq(Events), QueueOK(q), NEW STATE p, p \in Panes,
         NEW STATE r, r \in Panes, r # p, StopFeed({p}), ready' = Unread(Cancelled(q, {p}), p),
         fed'[r] = fed[r], shell'[r] = shell[r], taken'[r] = taken[r],
         NothingLost(r, fed[r], feedbuf[r], q, shell[r], taken[r])
  PROVE  NothingLost(r, fed'[r], feedbuf'[r], ready', shell'[r], taken'[r])
<1> DEFINE c == Cancelled(q, {p})
           u == Unread(c, p)
<1>1. SameDrain(c, q, r) /\ c \in Seq(Events)
  BY CancelledSameDrain
<1>2. ready' = u
  OBVIOUS
<1> HIDE DEF c
<1>3. SameDrain(u, c, r)
  BY <1>1, UnreadSameDrain
<1> HIDE DEF u
<1>4. SameDrain(u, q, r)
  BY <1>1, <1>3, SameDrainTwice
<1>5. feedbuf'[r] = feedbuf[r]
  BY DEF StopFeed
<1>6. NothingLost(r, fed[r], feedbuf[r], u, shell[r], taken[r])
  BY <1>4, SameDrainLosesNothing
<1> QED BY <1>2, <1>5, <1>6

\* A read of a descriptor finds its pane without a drain.
LEMMA ReadLosesNothing ==
  ASSUME Types, FlagsOK, QueueOK(ready), OrderOK, ChunksOK, backend = "fd", RunRead,
         \A r \in up : NothingLost(r, fed[r], feedbuf[r], ready, shell[r], taken[r]),
         NEW STATE r, r \in up', r \in up
  PROVE  NothingLost(r, fed'[r], feedbuf'[r], ready', shell'[r], taken'[r])
<1> DEFINE p == Head(ready).pane
           q == Tail(ready)
<1>0. ready \in Seq(Events) /\ up \subseteq Panes /\ r \in Panes
  BY DEF Types
<1>1. ready # <<>> /\ Head(ready).t = "read"
  BY DEF RunRead, Runs
<1>2. /\ Head(ready) \in Events /\ p \in Panes /\ p \in up /\ task[p] = 0 /\ feedbuf[p] = <<>>
  <2>1. Head(ready) = ready[1] /\ 1 \in 1..Len(ready) /\ Head(ready) \in Events
    BY <1>1, HeadIsEvent
  <2>2. p \in up /\ p \in reading
    BY <1>1, <2>1 DEF QueueOK, ArrivalsOK
  <2> QED BY <1>0, <2>1, <2>2 DEF FlagsOK, OrderOK
<1>3. /\ q \in Seq(Events) /\ QueueOK(q) /\ \A z : SameDrain(q, ready, z)
  <2>1. \A z : ~LiveDrain(Head(ready), z)
    BY <1>1 DEF LiveDrain
  <2>2. Thinned(q, ready)
    BY <1>0, <1>1, TailIsThinned
  <2>3. q \in Seq(Events)
    BY <1>0, <1>1, TailItems
  <2>4. QueueOK(q)
    BY <1>0, <2>2, <2>3, ThinnedOK
  <2> QED BY <1>0, <1>1, <2>1, <2>3, <2>4, TailSameDrain
<1>4. NothingLost(r, fed[r], feedbuf[r], q, shell[r], taken[r])
  BY <1>3, SameDrainLosesNothing
<1>5. CASE PaneEof(p, q)
  <2>1. /\ StopFeed({p}) /\ ready' = Unread(Cancelled(q, {p}), p) /\ r # p
        /\ UNCHANGED <<fed, shell, taken>>
    BY <1>5 DEF PaneEof
  <2> HIDE DEF p, q
  <2> QED BY <1>0, <1>2, <1>3, <1>4, <2>1, StopLosesNothing
<1>6. CASE ~PaneEof(p, q)
  <2>1. PICK cs \in Reads(p) :
          taken' = [taken EXCEPT ![p] = @ + Len(cs)] /\ OnPaneData(p, cs, q)
    BY <1>6 DEF RunRead
  <2>2. UNCHANGED shell
    BY <1>6 DEF RunRead
  <2> HIDE DEF p, q
  <2>3. cs \in Seq(Pieces) /\ Len(cs) \in Nat
    BY <1>2, ReadsOrdered
  <2>4. /\ \A i \in 1..Len(q) : ~LiveDrain(q[i], p)
    BY <1>2, <1>3, NoDrainWhenIdle
  <2>5. taken'[p] = taken[p] + Len(cs) /\ \A z \in Panes : z # p => taken'[z] = taken[z]
    BY <1>2, <2>1 DEF Types
  <2>6. SameDrain(ready', q, r)
    <3>1. CASE ready' = q
      BY <3>1 DEF SameDrain
    <3>2. CASE BeginDrain(p, cs, q)
      <4> DEFINE u == Unread(q, p)
                 e == Drain(p, FreeId, FALSE, FALSE, <<>>)
      <4>1. ready' = Append(u, e)
        BY <3>2 DEF BeginDrain
      <4>2. e \in Events
        <5>1. FreeId \in Nat \ {0} /\ <<>> \in Seq(Pieces) /\ FALSE \in BOOLEAN
          BY <1>0, FreeIdExists
        <5> HIDE DEF Drain
        <5> QED BY <1>2, <5>1, DrainIsEvent
      <4> HIDE DEF e
      <4>3. SameDrain(u, q, r) /\ u \in Seq(Events)
        BY <1>3, UnreadSameDrain
      <4> HIDE DEF u
      <4>4. SameDrain(Append(u, e), u, r)
        BY <4>2, <4>3, AppendSameDrain
      <4> QED BY <4>1, <4>3, <4>4, SameDrainTwice
    <3> QED BY <2>1, <3>1, <3>2 DEF OnPaneData, JoinDrain, FeedInline
  <2>7. CASE r # p
    <3>1. fed'[r] = fed[r] /\ feedbuf'[r] = feedbuf[r]
      BY <1>0, <2>1, <2>7 DEF OnPaneData, JoinDrain, FeedInline, BeginDrain, Types
    <3>2. taken'[r] = taken[r]
      BY <1>0, <2>5, <2>7
    <3> QED BY <1>4, <2>2, <2>6, <3>1, <3>2, SameDrainLosesNothing
  <2>8. CASE r = p
    <3> DEFINE f == fed[p]
               ds == Coalesced(p, cs)
    <3>1. f \in Seq(Pieces)
      BY <1>2 DEF Types
    <3>2. NothingLost(p, f, <<>>, q, shell[p], taken[p])
      BY <1>2, <1>4, <2>8
    <3>3. NothingLost(p, f, ds, q, shell[p], taken[p] + Len(cs))
      <4>1. Fits(f, shell[p], taken[p]) /\ Written(f)
        BY <1>2 DEF OrderOK, PaneOrder, ChunksOK, ScreensWritten
      <4> QED BY <1>2, <2>4, <3>2, <4>1, BurstLosesNothing
    <3>4. CASE FeedInline(p, cs, q)
      <4>1. fed'[p] = f \o cs /\ feedbuf'[p] = <<>> /\ ready' = q
        BY <1>2, <3>4 DEF FeedInline, Types
      <4>2. \A c : Among(c, ds) => Among(c, cs)
        <5>1. Suffix(ds, cs)
          BY <2>3, CoalescedIsSuffix
        <5> HIDE DEF ds
        <5> QED BY <5>1 DEF Suffix, Shift, Among
      <4> HIDE DEF f, ds
      <4>3. \A c : InHand(p, f, ds, q, c) => InHand(p, f \o cs, <<>>, q, c)
        BY <2>3, <3>1, <4>2, AmongParts DEF InHand
      <4>4. NothingLost(p, f \o cs, <<>>, q, shell[p], taken[p] + Len(cs))
        BY <3>3, <4>3, MovedOnLosesNothing
      <4> QED BY <2>2, <2>5, <2>8, <4>1, <4>4
    <3>5. CASE BeginDrain(p, cs, q)
      <4>1. feedbuf[p] \o cs = cs
        BY <1>2, <2>3
      <4>2. fed'[p] = f /\ feedbuf'[p] = ds
        BY <1>2, <3>5, <4>1 DEF BeginDrain, Types
      <4> HIDE DEF f, ds
      <4>3. NothingLost(p, f, ds, ready', shell[p], taken[p] + Len(cs))
        BY <2>6, <2>8, <3>3, SameDrainLosesNothing
      <4> QED BY <2>2, <2>5, <2>8, <4>2, <4>3
    <3> QED BY <1>2, <2>1, <3>4, <3>5 DEF OnPaneData, JoinDrain
  <2> QED BY <2>7, <2>8
<1> QED BY <1>5, <1>6

\* A turn of a drain moves what the pane has in hand, and drops nothing.
LEMMA DrainTurnLosesNothing ==
  ASSUME Types, RunDrain, NEW STATE r, r \in Panes,
         NothingLost(r, fed[r], feedbuf[r], ready, shell[r], taken[r])
  PROVE  NothingLost(r, fed'[r], feedbuf'[r], ready', shell'[r], taken'[r])
<1> DEFINE d == Head(ready)
           q == Tail(ready)
<1>0. ready \in Seq(Events)
  BY DEF Types
<1>1. /\ ready # <<>> /\ d = ready[1] /\ 1 \in 1..Len(ready) /\ d \in Events
      /\ d.t = "drain" /\ UNCHANGED <<shell, taken>> /\ q \in Seq(Events)
  BY <1>0, HeadIsEvent DEF RunDrain, Runs, ptyVars
<1>2. d.pane \in Panes /\ d.id \in Nat \ {0} /\ d.rest \in Seq(Pieces)
  BY <1>1, EventKinds
<1>3. ~LiveDrain(d, r) => SameDrain(q, ready, r)
  BY <1>0, <1>1, TailSameDrain
<1>4. CASE DrainVanishes(d) \/ DrainStops(d)
  <2>1. ready' = q /\ UNCHANGED <<fed, feedbuf>> /\ ~LiveDrain(d, r)
    BY <1>4 DEF DrainVanishes, DrainStops, LiveDrain
  <2> HIDE DEF d, q
  <2> QED BY <1>1, <1>3, <2>1, SameDrainLosesNothing
<1>5. \A c, f, b : InHand(r, f, b, ready, c) =>
        \/ InHand(r, f, b, q, c)
        \/ LiveDrain(d, r) /\ Among(c, d.rest)
  <2> SUFFICES ASSUME NEW c, NEW f, NEW b, InHand(r, f, b, ready, c), ~InHand(r, f, b, q, c)
               PROVE  LiveDrain(d, r) /\ Among(c, d.rest)
    OBVIOUS
  <2>1. PICK i \in 1..Len(ready) : LiveDrain(ready[i], r) /\ Among(c, ready[i].rest)
    BY DEF InHand
  <2>2. i = 1
    <3> SUFFICES ASSUME i # 1
                 PROVE  FALSE
      OBVIOUS
    <3>1. i - 1 \in 1..Len(q) /\ q[i - 1] = ready[i]
      BY <1>0, <1>1, TailItems
    <3> HIDE DEF q
    <3> QED BY <2>1, <3>1 DEF InHand
  <2> QED BY <1>1, <2>1, <2>2
<1>6. CASE DrainEnds(d)
  <2>1. ready' = q /\ UNCHANGED <<fed, feedbuf>> /\ d.rest = <<>>
    BY <1>6 DEF DrainEnds, Todo
  <2> HIDE DEF d, q
  <2>2. \A c : InHand(r, fed[r], feedbuf[r], ready, c) => InHand(r, fed[r], feedbuf[r], q, c)
    BY <1>5, <2>1, AmongParts
  <2>3. NothingLost(r, fed[r], feedbuf[r], q, shell[r], taken[r])
    BY <2>2, MovedOnLosesNothing
  <2> QED BY <1>1, <2>1, <2>3
<1>7. CASE DrainSlice(d)
  <2> DEFINE t == Todo(d)
             e == Drain(d.pane, d.id, TRUE, FALSE, Tail(t))
             p == d.pane
  <2>1. /\ ~d.cancelled /\ t # <<>>
        /\ fed' = [fed EXCEPT ![p] = Append(@, Head(t))]
        /\ feedbuf' = IF d.rest # <<>> THEN feedbuf ELSE [feedbuf EXCEPT ![p] = <<>>]
        /\ ready' = Append(q, e)
    BY <1>7 DEF DrainSlice
  <2>2. t \in Seq(Pieces)
    BY <1>1, TodoTypes
  <2>3. e \in Events /\ LiveDrain(e, p) /\ e.rest = Tail(t)
    <3>1. Tail(t) \in Seq(Pieces) /\ TRUE \in BOOLEAN /\ FALSE \in BOOLEAN
      BY <2>1, <2>2
    <3>2. e \in Events
      <4> HIDE DEF Drain, t
      <4> QED BY <1>2, <3>1, DrainIsEvent
    <3> QED BY <3>2 DEF Drain, LiveDrain
  <2> HIDE DEF e
  <2>4. SameDrain(ready', q, r)
    BY <1>1, <2>1, <2>3, AppendSameDrain
  <2>5. CASE r # p
    <3>1. fed'[r] = fed[r] /\ feedbuf'[r] = feedbuf[r]
      BY <2>1, <2>5 DEF Types
    <3>2. ~LiveDrain(d, r)
      BY <2>5 DEF LiveDrain
    <3> HIDE DEF d, q, p
    <3>3. NothingLost(r, fed[r], feedbuf[r], q, shell[r], taken[r])
      BY <1>3, <3>2, SameDrainLosesNothing
    <3>4. NothingLost(r, fed[r], feedbuf[r], ready', shell[r], taken[r])
      BY <2>4, <3>3, SameDrainLosesNothing
    <3> QED BY <1>1, <3>1, <3>4
  <2>6. CASE r = p
    <3> DEFINE f == fed[r]
               g == Append(f, Head(t))
    <3>1. f \in Seq(Pieces) /\ feedbuf[r] \in Seq(Pieces)
      BY DEF Types
    <3>2. fed'[r] = g
      BY <1>2, <2>1, <2>6 DEF Types
    <3>3. d.rest # <<>> => t = d.rest /\ feedbuf'[r] = feedbuf[r]
      BY <2>1 DEF Todo
    <3>4. d.rest = <<>> => t = feedbuf[r]
      BY <2>6 DEF Todo
    <3>5. \E i \in 1..Len(ready') : LiveDrain(ready'[i], r) /\ ready'[i].rest = Tail(t)
      <4>1. ready'[Len(q) + 1] = e /\ Len(q) + 1 \in 1..Len(ready')
        BY <1>1, <2>1, <2>3, AppendEvent
      <4> QED BY <2>3, <2>6, <4>1
    <3>6. \A c : Among(c, f) \/ c = Head(t) => Among(c, g)
      <4>1. Len(g) = Len(f) + 1 /\ g[Len(f) + 1] = Head(t) /\ \A i \in 1..Len(f) : g[i] = f[i]
        <5>1. Head(t) \in Pieces
          BY <2>1, <2>2
        <5> HIDE DEF t, f
        <5> QED BY <3>1, <5>1
      <4>2. Len(f) \in Nat
        BY <3>1
      <4> HIDE DEF g, f, t
      <4>3. Len(f) + 1 \in 1..Len(g) /\ \A i \in 1..Len(f) : i \in 1..Len(g)
        BY <4>1, <4>2
      <4> QED BY <4>1, <4>3 DEF Among
    <3> HIDE DEF d, q, t, p, g, f
    <3>7. \A c : Among(c, t) => InHand(r, g, feedbuf'[r], ready', c)
      <4> SUFFICES ASSUME NEW c, Among(c, t)
                   PROVE  InHand(r, g, feedbuf'[r], ready', c)
        OBVIOUS
      <4>1. c = Head(t) \/ Among(c, Tail(t))
        BY <2>1, <2>2, AmongParts
      <4> QED BY <3>5, <3>6, <4>1 DEF InHand
    <3>8. ASSUME NEW c, InHand(r, f, feedbuf[r], ready, c)
          PROVE  InHand(r, g, feedbuf'[r], ready', c)
      <4>1. CASE LiveDrain(d, r) /\ Among(c, d.rest)
        BY <3>3, <3>7, <4>1, AmongParts
      <4>2. CASE InHand(r, f, feedbuf[r], q, c)
        <5>1. CASE Among(c, f)
          BY <3>6, <5>1 DEF InHand
        <5>2. CASE Among(c, feedbuf[r])
          BY <3>3, <3>4, <3>7, <5>2 DEF InHand
        <5>3. CASE \E i \in 1..Len(q) : LiveDrain(q[i], r) /\ Among(c, q[i].rest)
          BY <2>4, <5>3 DEF InHand, SameDrain
        <5> QED BY <4>2, <5>1, <5>2, <5>3 DEF InHand
      <4> QED BY <1>5, <3>8, <4>1, <4>2
    <3>9. NothingLost(r, f, feedbuf[r], ready, shell[r], taken[r])
      BY DEF f
    <3>10. NothingLost(r, g, feedbuf'[r], ready', shell[r], taken[r])
      BY <3>8, <3>9, MovedOnLosesNothing
    <3> QED BY <1>1, <3>2, <3>10
  <2> QED BY <2>5, <2>6
<1> QED BY <1>4, <1>6, <1>7 DEF RunDrain

LEMMA LossKept == LossInv /\ [Next]_vars => LossInv'
<1> SUFFICES ASSUME LossInv, [Next]_vars
             PROVE  LossOK'
  BY EofInvKept, FeedTypeKept DEF LossInv
<1>0. /\ EofInv /\ FeedTypeInv /\ LossOK /\ Types /\ FlagsOK /\ QueueOK(ready) /\ OrderOK
      /\ ChunksOK /\ ready \in Seq(Events) /\ up \subseteq Panes
  BY DEF LossInv, EofInv, OrderInv, DrainInv, FeedTypeInv, Types
<1>1. (restart = "none" => saved = NotSaved)'
  <2>1. CASE UNCHANGED <<restart, saved>>
    BY <1>0, <2>1 DEF LossOK
  <2>2. CASE Restart \/ Exec
    BY <2>2 DEF Restart, Exec
  <2> QED
    BY <2>1, <2>2
    DEF Next, ShellExits, Select, ThreadEnters, ThreadPosts, ThreadEnds, Respawn, ClosePane,
        PaneEof, RunReady, RunRead, RunData, RunEof, RunDrain, restartVars, vars
<1>2. SUFFICES ASSUME backend' = "fd", restart' = "none", NEW r \in up'
               PROVE  NothingLost(r, fed'[r], feedbuf'[r], ready', shell'[r], taken'[r])
  BY <1>1 DEF LossOK
<1>3. backend = "fd" /\ up' \subseteq up /\ r \in up /\ r \in Panes
  <2>1. backend' = backend /\ up' \subseteq up
    BY DEF Next, ShellExits, Select, ThreadEnters, ThreadPosts, ThreadEnds, Respawn, ClosePane,
           PaneEof, RunReady, RunRead, RunData, RunEof, RunDrain, Restart, Exec, ptyVars, vars
  <2> QED BY <1>0, <1>2, <2>1
<1>4. ~Restart /\ ~Exec /\ restart = "none"
  <2>1. ~Restart
    BY <1>2 DEF Restart
  <2>2. CASE Exec
    BY <1>0, <1>2, <2>2 DEF Exec, LossOK
  <2>3. CASE ~Exec
    BY <1>2, <2>1, <2>3
    DEF Next, ShellExits, Select, ThreadEnters, ThreadPosts, ThreadEnds, Respawn, ClosePane,
        PaneEof, RunReady, RunRead, RunData, RunEof, RunDrain, restartVars, vars
  <2> QED BY <2>1, <2>2, <2>3
<1>5. \A z \in up : NothingLost(z, fed[z], feedbuf[z], ready, shell[z], taken[z])
  BY <1>0, <1>3, <1>4 DEF LossOK
<1>6. CASE UNCHANGED <<fed, feedbuf, ready, shell, taken>>
  BY <1>3, <1>5, <1>6
<1>7. ASSUME NEW p \in Panes, Select(p)
      PROVE  NothingLost(r, fed'[r], feedbuf'[r], ready', shell'[r], taken'[r])
  <2>1. /\ ready' = Append(ready, ReadEvent(p)) /\ ReadEvent(p) \in Events
        /\ UNCHANGED <<fed, feedbuf, shell, taken>>
    BY <1>7 DEF Select, ReadEvent, Events, ptyVars
  <2>2. SameDrain(ready', ready, r)
    BY <1>0, <2>1, AppendSameDrain
  <2> QED BY <1>3, <1>5, <2>1, <2>2, SameDrainLosesNothing
<1>8. ASSUME NEW p \in Panes
      PROVE  ~ThreadEnters(p) /\ ~ThreadPosts(p) /\ ~ThreadEnds(p)
  BY <1>0, <1>3 DEF ThreadEnters, ThreadPosts, ThreadEnds, FlagsOK
<1>9. ASSUME NEW p \in Panes, Respawn(p)
      PROVE  NothingLost(r, fed'[r], feedbuf'[r], ready', shell'[r], taken'[r])
  <2>1. /\ StopFeed({p}) /\ ready' = Unread(Cancelled(ready, {p}), p)
        /\ taken' = [taken EXCEPT ![p] = 0] /\ shell' = [shell EXCEPT ![p] = @ + 1]
        /\ fed' = [fed EXCEPT ![p] = <<>>]
    BY <1>9 DEF Respawn
  <2>2. CASE r = p
    <3>1. 1..taken'[r] = {}
      BY <1>0, <1>3, <2>1, <2>2 DEF Types
    <3> QED BY <3>1 DEF NothingLost
  <2>3. CASE r # p
    <3>1. fed'[r] = fed[r] /\ shell'[r] = shell[r] /\ taken'[r] = taken[r]
      BY <1>0, <1>3, <2>1, <2>3 DEF Types
    <3> QED BY <1>0, <1>3, <1>5, <2>1, <2>3, <3>1, StopLosesNothing
  <2> QED BY <2>2, <2>3
<1>10. ASSUME NEW p \in Panes, ClosePane(p)
       PROVE  NothingLost(r, fed'[r], feedbuf'[r], ready', shell'[r], taken'[r])
  <2>1. /\ StopFeed({p}) /\ ready' = Unread(Cancelled(ready, {p}), p) /\ r # p
        /\ UNCHANGED <<fed, shell, taken>>
    BY <1>2, <1>10 DEF ClosePane, PaneEof
  <2> QED BY <1>0, <1>3, <1>5, <2>1, StopLosesNothing
<1>11. CASE RunRead
  BY <1>0, <1>2, <1>3, <1>5, <1>11, ReadLosesNothing
<1>12. ~RunData /\ ~RunEof
  <2>1. NoPostedEnd(ready)
    BY <1>0, <1>3 DEF EofInv
  <2>2. ready # <<>> => Head(ready).t # "data" /\ Head(ready).t # "eof"
    BY <1>0, <1>3, <2>1, HeadIsEvent DEF NoPostedEnd, QueueOK, ArrivalsOK
  <2> QED BY <2>2 DEF RunData, RunEof, Runs
<1>13. CASE RunDrain
  BY <1>0, <1>3, <1>5, <1>13, DrainTurnLosesNothing
<1> QED
  BY <1>4, <1>6, <1>7, <1>8, <1>9, <1>10, <1>11, <1>12, <1>13
  DEF Next, RunReady, ShellExits, ptyVars, vars

LEMMA LossInit == Init => LossInv
<1> SUFFICES ASSUME Init
             PROVE  LossOK
  BY EofInvInit, FeedTypeInit DEF LossInv
<1>1. \A p \in up : 1..taken[p] = {}
  BY FeedAssumption DEF Init
<1> QED BY <1>1 DEF Init, LossOK, NothingLost

\* Of what the loop read from a descriptor nothing is lost but repaints that a later
\* frame of the same alternate screen draws over: a frame is dropped only when the
\* switches before it are on the screen (coalesce_alt_repaints, _on_pane_data,
\* _feed_drain), in any program and with any respawns and closed panes.
THEOREM LossOnlyRepaintsCorrect == Spec => []LossOnlyRepaints
<1>1. ASSUME LossInv
      PROVE  LossOnlyRepaints
  <2> SUFFICES ASSUME backend = "fd", restart = "none", NEW p \in up, NEW n \in 1..taken[p]
               PROVE  ReachesScreen(p, n)
    BY DEF LossOnlyRepaints
  <2>1. InHand(p, fed[p], feedbuf[p], ready, Chunk(shell[p], n)) \/ Hidden(shell[p], taken[p], n)
    BY <1>1 DEF LossInv, LossOK, NothingLost
  <2>2. CASE Hidden(shell[p], taken[p], n)
    BY <2>2 DEF Hidden, DrawnOver, ReachesScreen
  <2>3. ASSUME NEW c, InHand(p, fed[p], feedbuf[p], ready, c)
        PROVE  c \in ToSet(fed[p]) \cup Waiting(p)
    <3>1. \A s, z : Among(z, s) => z \in ToSet(s)
      <4>1. \A s : \A i \in 1..Len(s) : s[i] \in ToSet(s)
        BY DEF ToSet
      <4> QED BY <4>1 DEF Among
    <3>2. CASE Among(c, fed[p]) \/ Among(c, feedbuf[p])
      BY <3>1, <3>2 DEF Waiting
    <3>3. ASSUME NEW i \in 1..Len(ready), LiveDrain(ready[i], p), Among(c, ready[i].rest)
          PROVE  c \in Waiting(p)
      <4>1. ready[i] \in ToSet(ready)
        BY DEF ToSet
      <4>2. c \in Held(p, ready[i])
        BY <3>1, <3>3 DEF Held, LiveDrain
      <4> QED BY <4>1, <4>2 DEF Waiting
    <3> QED BY <2>3, <3>2, <3>3 DEF InHand
  <2> QED BY <2>1, <2>2, <2>3 DEF ReachesScreen
<1> QED BY <1>1, LossInit, LossKept, PTL DEF Spec
=============================================================================

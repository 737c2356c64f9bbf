-------------------------- MODULE WindowTreeProofs --------------------------
(***************************************************************************)
(* What the commands of the server keep true, for any number of clients,   *)
(* sessions, tabs and panes, with exit-empty on or off: of its sessions    *)
(* and of what its clients look at (RegistryInv), of the order of the tabs *)
(* (TabsInv), and of the trees of panes (TreeInv).  The first two do not   *)
(* look at the trees.  What the trees are is said by a numbering of their  *)
(* nodes: every node stands for a run of the panes of its window in the    *)
(* order in which Window.panes lists them, and every surgery on a tree is  *)
(* shown to leave one that fits.                                           *)
(***************************************************************************)
EXTENDS WindowTree, FoldLemmas

(* The inductive invariant: the types that the steps below rest on, and    *)
(* that no client looks at a session the dict does not hold.  The count of *)
(* sessions made must stay a natural number for a new one to be a session. *)

Counts == [pane : Nat, tab : Nat, sess : Nat]

RegistryOK ==
  /\ running \in BOOLEAN
  /\ sessions \in Seq(Sess)
  /\ views \in [Clients -> Sess \cup {None, Away}]
  /\ made \in Counts

RegistryInv == RegistryOK /\ ViewsRegistered

-----------------------------------------------------------------------------
(* Sequences.                                                              *)

\* Taking an element out moves those after it one place forward.
LEMMA RemovedIs ==
  ASSUME NEW S, NEW q \in Seq(S), NEW i \in 1..Len(q),
         NEW r, r = RemoveAt(q, i)
  PROVE  /\ r \in Seq(S) /\ Len(r) = Len(q) - 1
         /\ \A k \in 1..(Len(q) - 1) : r[k] = IF k < i THEN q[k] ELSE q[k + 1]
<1> DEFINE n == Len(q)
           h == SubSeq(q, 1, i - 1)
           t == SubSeq(q, i + 1, n)
<1>1. n \in Nat /\ i \in 1..n
  OBVIOUS
<1>2. h \in Seq(S) /\ Len(h) = i - 1 /\ \A k \in 1..(i - 1) : h[k] = q[k]
  OBVIOUS
<1>3. t \in Seq(S) /\ Len(t) = n - i /\ \A k \in 1..(n - i) : t[k] = q[i + k]
  OBVIOUS
<1>4. r = h \o t
  BY DEF RemoveAt
<1> HIDE DEF h, t, n
<1>5. /\ r \in Seq(S) /\ Len(r) = Len(h) + Len(t)
      /\ \A k \in 1..(Len(h) + Len(t)) :
           r[k] = IF k <= Len(h) THEN h[k] ELSE t[k - Len(h)]
  BY <1>2, <1>3, <1>4, ConcatProperties
<1>6. Len(r) = n - 1
  BY <1>1, <1>2, <1>3, <1>5
<1>7. ASSUME NEW k \in 1..(n - 1)
      PROVE  r[k] = IF k < i THEN q[k] ELSE q[k + 1]
  <2>1. k \in 1..(Len(h) + Len(t))
    BY <1>1, <1>2, <1>3
  <2>2. CASE k < i
    <3>1. k <= Len(h) /\ k \in 1..(i - 1)
      BY <1>1, <1>2, <2>2
    <3> QED BY <1>2, <1>5, <2>1, <2>2, <3>1
  <2>3. CASE ~(k < i)
    <3>1. ~(k <= Len(h)) /\ k - Len(h) \in 1..(n - i) /\ i + (k - Len(h)) = k + 1
      BY <1>1, <1>2, <2>3
    <3> QED BY <1>3, <1>5, <2>1, <2>3, <3>1, Zenon
  <2> QED BY <2>2, <2>3
<1> QED BY <1>5, <1>6, <1>7 DEF n

\* r is q with e put in at place i.
Grown(r, q, i, e) ==
  /\ Len(r) = Len(q) + 1
  /\ \A k \in 1..(Len(q) + 1) :
       r[k] = IF k < i THEN q[k] ELSE IF k = i THEN e ELSE q[k - 1]

\* Putting one in moves those from its place on one place back.
LEMMA InsertedIs ==
  ASSUME NEW S, NEW q \in Seq(S), NEW i \in 1..(Len(q) + 1), NEW e \in S,
         NEW r, r = InsertAt(q, i, e)
  PROVE  r \in Seq(S) /\ Grown(r, q, i, e)
<1> DEFINE n == Len(q)
           h == SubSeq(q, 1, i - 1)
           t == SubSeq(q, i, n)
           one == <<e>>
           ht == h \o one
<1>1. n \in Nat /\ i \in 1..(n + 1)
  OBVIOUS
<1>2. h \in Seq(S) /\ Len(h) = i - 1 /\ \A k \in 1..(i - 1) : h[k] = q[k]
  OBVIOUS
<1>3. t \in Seq(S) /\ Len(t) = n - i + 1 /\ \A k \in 1..(n - i + 1) : t[k] = q[i + k - 1]
  OBVIOUS
<1>4. one \in Seq(S) /\ Len(one) = 1 /\ one[1] = e
  OBVIOUS
<1>5. r = ht \o t
  BY DEF InsertAt
<1>6. ht = h \o one
  OBVIOUS
<1> HIDE DEF h, t, n, one, ht
<1>10. /\ ht \in Seq(S) /\ Len(ht) = i
       /\ \A k \in 1..i : ht[k] = IF k <= i - 1 THEN h[k] ELSE one[k - (i - 1)]
  <2>1. h \in Seq(S) /\ one \in Seq(S)
    BY <1>2, <1>4
  <2>2. /\ ht \in Seq(S) /\ Len(ht) = Len(h) + Len(one)
        /\ \A k \in 1..(Len(h) + Len(one)) :
             ht[k] = IF k <= Len(h) THEN h[k] ELSE one[k - Len(h)]
    BY <1>6, <2>1, ConcatProperties
  <2> QED BY <1>1, <1>2, <1>4, <2>2
<1>7. /\ r \in Seq(S) /\ Len(r) = i + (n - i + 1)
      /\ \A k \in 1..(i + (n - i + 1)) : r[k] = IF k <= i THEN ht[k] ELSE t[k - i]
  <2>1. Len(ht) = i /\ Len(t) = n - i + 1
    BY <1>3, <1>10
  <2>3. ht \in Seq(S) /\ t \in Seq(S)
    BY <1>3, <1>10
  <2>2. /\ r \in Seq(S) /\ Len(r) = Len(ht) + Len(t)
        /\ \A k \in 1..(Len(ht) + Len(t)) :
             r[k] = IF k <= Len(ht) THEN ht[k] ELSE t[k - Len(ht)]
    BY <1>5, <2>3, ConcatProperties
  <2> QED BY <2>1, <2>2
<1>8. ASSUME NEW k \in 1..(n + 1)
      PROVE  r[k] = IF k < i THEN q[k] ELSE IF k = i THEN e ELSE q[k - 1]
  <2>1. k \in 1..(i + (n - i + 1))
    BY <1>1
  <2>2. CASE k < i
    <3>1. k <= i /\ k <= i - 1 /\ k \in 1..i /\ k \in 1..(i - 1)
      BY <1>1, <2>2
    <3> QED BY <1>2, <1>10, <1>7, <2>1, <2>2, <3>1, Zenon
  <2>3. CASE k = i
    <3>1. k <= i /\ ~(k <= i - 1) /\ k \in 1..i /\ k - (i - 1) = 1 /\ ~(k < i)
      BY <1>1, <2>3
    <3> QED BY <1>4, <1>10, <1>7, <2>1, <2>3, <3>1
  <2>4. CASE k > i
    <3>1. ~(k <= i) /\ ~(k < i) /\ k # i /\ k - i \in 1..(n - i + 1) /\ i + (k - i) - 1 = k - 1
      BY <1>1, <2>4
    <3> QED BY <1>3, <1>7, <2>1, <3>1
  <2> QED BY <1>1, <2>2, <2>3, <2>4
<1>9. Len(r) = n + 1
  BY <1>1, <1>7
<1> QED BY <1>7, <1>8, <1>9 DEF n, Grown

\* Where an element stands.
LEMMA PosOfIs ==
  ASSUME NEW S, NEW q \in Seq(S), NEW e \in Range(q)
  PROVE  PosOf(q, e) \in 0..(Len(q) - 1) /\ q[PosOf(q, e) + 1] = e
<1>1. PICK k \in 1..Len(q) : q[k] = e
  BY DEF Range
<1>2. k - 1 \in 0..(Len(q) - 1) /\ At(q, k - 1) = e
  BY <1>1 DEF At
<1>3. PosOf(q, e) \in 0..(Len(q) - 1) /\ At(q, PosOf(q, e)) = e
  BY <1>2 DEF PosOf
<1> QED BY <1>3 DEF At

\* What a sequence contains after one element has been taken out of it: all
\* elements but that one, and nothing else.  Distinct elements stay distinct.
LEMMA WithoutKeepsOthers ==
  ASSUME NEW S, NEW q \in Seq(S), NEW e
  PROVE  /\ Without(q, e) \in Seq(S)
         /\ Range(q) \ {e} \subseteq Range(Without(q, e))
         /\ Range(Without(q, e)) \subseteq Range(q)
         /\ IsInjective(q) => /\ IsInjective(Without(q, e))
                              /\ Range(Without(q, e)) = Range(q) \ {e}
<1>1. CASE e \notin Range(q)
  BY <1>1 DEF Without
<1>2. CASE e \in Range(q)
  <2> DEFINE i == PosOf(q, e) + 1  n == Len(q)  r == Without(q, e)
  <2>1. i \in 1..n /\ q[i] = e /\ n \in Nat /\ DOMAIN q = 1..n
    BY <1>2, PosOfIs
  <2>2. r = RemoveAt(q, i)
    BY <1>2 DEF Without
  <2> HIDE DEF i, r
  <2>3. /\ r \in Seq(S) /\ Len(r) = n - 1
        /\ \A k \in 1..(n - 1) : r[k] = IF k < i THEN q[k] ELSE q[k + 1]
    BY <2>1, <2>2, RemovedIs, ZenonT(30)
  <2> HIDE DEF n
  <2>4. DOMAIN r = 1..(n - 1)
    BY <2>1, <2>3
  <2>5. ASSUME NEW x \in Range(q) \ {e}
        PROVE  x \in Range(r)
    <3>1. PICK j \in 1..n : q[j] = x
      BY <2>1 DEF Range
    <3>2. CASE j < i
      <4>1. j \in 1..(n - 1) /\ r[j] = x
        BY <2>1, <2>3, <3>1, <3>2
      <4> QED BY <2>4, <4>1 DEF Range
    <3>3. CASE j > i
      <4>1. j - 1 \in 1..(n - 1) /\ r[j - 1] = x
        <5>1. j - 1 \in 1..(n - 1) /\ ~(j - 1 < i) /\ (j - 1) + 1 = j
          BY <2>1, <3>1, <3>3
        <5> QED BY <2>3, <3>1, <5>1
      <4> QED BY <2>4, <4>1 DEF Range
    <3>4. j # i
      BY <2>1, <3>1
    <3> QED BY <2>1, <3>2, <3>3, <3>4
  <2>6. ASSUME NEW k \in 1..(n - 1)
        PROVE  \E j \in 1..n : r[k] = q[j] /\ j = IF k < i THEN k ELSE k + 1
    BY <2>1, <2>3
  <2>7. Range(r) \subseteq Range(q)
    BY <2>1, <2>4, <2>6, Zenon DEF Range
  <2>8. ASSUME IsInjective(q)
        PROVE  IsInjective(r) /\ Range(r) = Range(q) \ {e}
    <3>1. \A a, b \in 1..n : q[a] = q[b] => a = b
      BY <2>1, <2>8 DEF IsInjective
    <3>2. \A a, b \in 1..(n - 1) : r[a] = r[b] => a = b
      BY <2>1, <2>3, <3>1
    <3>3. \A k \in 1..(n - 1) : r[k] # e
      BY <2>1, <2>3, <3>1
    <3>4. e \notin Range(r)
      BY <2>4, <3>3 DEF Range
    <3> QED BY <2>4, <2>5, <2>7, <3>2, <3>4 DEF IsInjective
  <2> QED BY <2>3, <2>5, <2>7, <2>8 DEF r
<1> QED BY <1>1, <1>2

\* Appending keeps every element and adds the new one.
LEMMA AppendAdds ==
  ASSUME NEW S, NEW seq \in Seq(S), NEW e \in S
  PROVE  /\ Append(seq, e) \in Seq(S)
         /\ Range(seq) \cup {e} \subseteq Range(Append(seq, e))
<1>1. /\ Append(seq, e) \in Seq(S)
      /\ Len(Append(seq, e)) = Len(seq) + 1
      /\ \A i \in 1..Len(seq) : Append(seq, e)[i] = seq[i]
      /\ Append(seq, e)[Len(seq) + 1] = e
  OBVIOUS
<1>2. ASSUME NEW x \in Range(seq) \cup {e}
      PROVE  \E i \in 1..(Len(seq) + 1) : Append(seq, e)[i] = x
  <2>1. CASE x = e
    BY <1>1, <2>1
  <2>2. CASE x \in Range(seq)
    <3>1. PICK i \in 1..Len(seq) : seq[i] = x
      BY <2>2 DEF Range
    <3> QED BY <1>1, <3>1
  <2> QED BY <2>1, <2>2
<1> QED BY <1>1, <1>2 DEF Range

\* The first session of a dict that is not empty is one of it.
LEMMA FirstIsIn ==
  ASSUME NEW S, NEW seq \in Seq(S), seq # <<>>
  PROVE  seq[1] \in S /\ seq[1] \in Range(seq)
<1>1. 1 \in 1..Len(seq) /\ seq[1] \in S
  OBVIOUS
<1> QED BY <1>1 DEF Range
\* f exchanges n places, and r is q with its places exchanged by f.
Exchange(f, n) ==
  /\ f \in [1..n -> 1..n]
  /\ \A a, b \in 1..n : f[a] = f[b] => a = b
  /\ \A b \in 1..n : \E a \in 1..n : f[a] = b

Follows(r, q, f) == Len(r) = Len(q) /\ \A k \in 1..Len(q) : r[k] = q[f[k]]

\* A sequence whose places were exchanged has the same elements, each once.
LEMMA ExchangeKeeps ==
  ASSUME NEW S, NEW q \in Seq(S), IsInjective(q), NEW r \in Seq(S),
         NEW f, Exchange(f, Len(q)), Follows(r, q, f)
  PROVE  IsInjective(r) /\ Range(r) = Range(q)
<1> DEFINE n == Len(q)
<1>9. /\ f \in [1..n -> 1..n]
      /\ \A a, b \in 1..n : f[a] = f[b] => a = b
      /\ \A b \in 1..n : \E a \in 1..n : f[a] = b
      /\ \A k \in 1..n : r[k] = q[f[k]]
      /\ Len(r) = n
  BY DEF Exchange, Follows
<1>1. DOMAIN q = 1..n /\ DOMAIN r = 1..n
  BY <1>9
<1>2. \A a, b \in 1..n : q[a] = q[b] => a = b
  BY <1>1 DEF IsInjective
<1>3. \A a, b \in 1..n : r[a] = r[b] => a = b
  <2> SUFFICES ASSUME NEW a \in 1..n, NEW b \in 1..n, r[a] = r[b] PROVE a = b
    OBVIOUS
  <2>1. f[a] \in 1..n /\ f[b] \in 1..n /\ q[f[a]] = q[f[b]]
    BY <1>9, Zenon
  <2> QED BY <1>2, <1>9, <2>1, Zenon
<1>4. Range(r) \subseteq Range(q)
  <2> SUFFICES ASSUME NEW k \in 1..n PROVE r[k] \in Range(q)
    BY <1>1 DEF Range
  <2>1. f[k] \in 1..n /\ r[k] = q[f[k]]
    BY <1>9, Zenon
  <2> QED BY <1>1, <2>1 DEF Range
<1>5. Range(q) \subseteq Range(r)
  <2> SUFFICES ASSUME NEW k \in 1..n PROVE q[k] \in Range(r)
    BY <1>1 DEF Range
  <2>1. PICK a \in 1..n : f[a] = k
    BY <1>9
  <2>2. r[a] = q[k]
    BY <1>9, <2>1, Zenon
  <2> QED BY <1>1, <2>2 DEF Range
<1> QED BY <1>1, <1>3, <1>4, <1>5, Zenon DEF IsInjective

\* The place from which the k-th element comes when the one at index i is
\* popped and put back at index j.
Source(i, j, k) ==
  IF k = j + 1 THEN i + 1
  ELSE IF k <= j THEN (IF k <= i THEN k ELSE k + 1)
  ELSE (IF k - 1 <= i THEN k - 1 ELSE k)

LEMMA SourceIs ==
  ASSUME NEW n \in Nat, NEW i \in 0..(n - 1), NEW j \in 0..(n - 1)
  PROVE  /\ \A k \in 1..n : Source(i, j, k) \in 1..n
         /\ \A a, b \in 1..n : Source(i, j, a) = Source(i, j, b) => a = b
         /\ \A b \in 1..n : \E a \in 1..n : Source(i, j, a) = b
<1>1. \A k \in 1..n : Source(i, j, k) \in 1..n
  BY DEF Source
<1>2. \A a, b \in 1..n : Source(i, j, a) = Source(i, j, b) => a = b
  BY DEF Source
<1>3. ASSUME NEW b \in 1..n
      PROVE  \E a \in 1..n : Source(i, j, a) = b
  <2>1. CASE b = i + 1
    <3>1. j + 1 \in 1..n /\ Source(i, j, j + 1) = b
      BY <2>1 DEF Source
    <3> QED BY <3>1
  <2>2. CASE b <= i /\ b <= j
    BY <2>2 DEF Source
  <2>3. CASE b <= i /\ b > j
    <3>1. b + 1 \in 1..n /\ Source(i, j, b + 1) = b
      BY <2>3 DEF Source
    <3> QED BY <3>1
  <2>4. CASE b > i + 1 /\ b <= j + 1
    <3>1. b - 1 \in 1..n /\ Source(i, j, b - 1) = b
      BY <2>4 DEF Source
    <3> QED BY <3>1
  <2>5. CASE b > i + 1 /\ b > j + 1
    BY <2>5 DEF Source
  <2> QED BY <2>1, <2>2, <2>3, <2>4, <2>5
<1> QED BY <1>1, <1>2, <1>3

LEMMA MovedIs ==
  ASSUME NEW S, NEW q \in Seq(S), IsInjective(q),
         NEW i \in 0..(Len(q) - 1), NEW j \in 0..(Len(q) - 1),
         NEW r, r = Moved(q, i, j)
  PROVE  /\ r \in Seq(S) /\ Len(r) = Len(q)
         /\ \A k \in 1..Len(q) : r[k] = q[Source(i, j, k)]
         /\ IsInjective(r) /\ Range(r) = Range(q)
<1> DEFINE n == Len(q)  rest == RemoveAt(q, i + 1)
<1>1. n \in Nat /\ i + 1 \in 1..n /\ j + 1 \in 1..n /\ q[i + 1] \in S
  OBVIOUS
<1>2. r = InsertAt(rest, j + 1, q[i + 1])
  BY DEF Moved, At
<1> HIDE DEF rest
<1>3. /\ rest \in Seq(S) /\ Len(rest) = n - 1
      /\ \A k \in 1..(n - 1) : rest[k] = IF k < i + 1 THEN q[k] ELSE q[k + 1]
  BY <1>1, RemovedIs DEF rest
<1> HIDE DEF n
<1>4. /\ r \in Seq(S) /\ Len(r) = n
      /\ \A k \in 1..n :
           r[k] = IF k < j + 1 THEN rest[k] ELSE IF k = j + 1 THEN q[i + 1] ELSE rest[k - 1]
  <2>1. Len(rest) + 1 = n /\ j + 1 \in 1..(Len(rest) + 1)
    BY <1>1, <1>3
  <2>2. r \in Seq(S) /\ Grown(r, rest, j + 1, q[i + 1])
    BY <1>1, <1>2, <1>3, <2>1, InsertedIs, Zenon
  <2> QED BY <2>1, <2>2 DEF Grown
<1>5. ASSUME NEW k \in 1..n
      PROVE  r[k] = q[Source(i, j, k)]
  <2>1. CASE k < j + 1
    <3>1. k \in 1..(n - 1) /\ r[k] = rest[k]
      BY <1>1, <1>4, <2>1
    <3> QED BY <1>1, <1>3, <2>1, <3>1 DEF Source
  <2>2. CASE k = j + 1
    BY <1>1, <1>4, <2>2 DEF Source
  <2>3. CASE k > j + 1
    <3>1. k - 1 \in 1..(n - 1) /\ r[k] = rest[k - 1]
      BY <1>1, <1>4, <2>3
    <3>2. rest[k - 1] = IF k - 1 < i + 1 THEN q[k - 1] ELSE q[(k - 1) + 1]
      BY <1>3, <3>1
    <3>3. (k - 1) + 1 = k /\ ~(k <= j) /\ k # j + 1 /\ (k - 1 < i + 1 <=> k - 1 <= i)
      BY <1>1, <2>3
    <3> QED BY <3>1, <3>2, <3>3 DEF Source
  <2> QED BY <1>1, <2>1, <2>2, <2>3
<1> DEFINE f == [k \in 1..n |-> Source(i, j, k)]
<1>6. Exchange(f, n) /\ Follows(r, q, f)
  <2>1. i \in 0..(n - 1) /\ j \in 0..(n - 1)
    BY DEF n
  <2>2. /\ \A k \in 1..n : Source(i, j, k) \in 1..n
        /\ \A a, b \in 1..n : Source(i, j, a) = Source(i, j, b) => a = b
        /\ \A b \in 1..n : \E a \in 1..n : Source(i, j, a) = b
    BY <1>1, <2>1, SourceIs, ZenonT(30)
  <2>3. Exchange(f, n)
    BY <2>2 DEF Exchange
  <2>4. Len(r) = n /\ \A k \in 1..n : r[k] = q[f[k]]
    BY <1>4, <1>5
  <2> QED BY <2>3, <2>4 DEF Follows, n
<1> HIDE DEF f
<1>7. IsInjective(r) /\ Range(r) = Range(q)
  BY <1>4, <1>6, ExchangeKeeps DEF n
<1> QED BY <1>4, <1>5, <1>7 DEF n

\* Two places of a sequence exchanged.
LEMMA SwappedIs ==
  ASSUME NEW S, NEW q \in Seq(S), IsInjective(q),
         NEW i \in 1..Len(q), NEW j \in 1..Len(q),
         NEW r, r = [q EXCEPT ![j] = q[i], ![i] = q[j]]
  PROVE  /\ r \in Seq(S) /\ Len(r) = Len(q)
         /\ \A k \in 1..Len(q) :
              r[k] = q[IF k = i THEN j ELSE IF k = j THEN i ELSE k]
         /\ IsInjective(r) /\ Range(r) = Range(q)
<1> DEFINE n == Len(q)
           f == [k \in 1..n |-> IF k = i THEN j ELSE IF k = j THEN i ELSE k]
<1>1. r \in Seq(S) /\ Len(r) = n
  OBVIOUS
<1>2. ASSUME NEW k \in 1..n
      PROVE  r[k] = q[IF k = i THEN j ELSE IF k = j THEN i ELSE k]
  OBVIOUS
<1>3. Exchange(f, n) /\ Follows(r, q, f)
  <2>1. f \in [1..n -> 1..n]
    OBVIOUS
  <2>2. \A a, b \in 1..n : f[a] = f[b] => a = b
    OBVIOUS
  <2>3. \A b \in 1..n : f[f[b]] = b /\ f[b] \in 1..n
    OBVIOUS
  <2>4. \A k \in 1..n : r[k] = q[f[k]]
    BY <1>2
  <2> HIDE DEF f
  <2> QED BY <1>1, <2>1, <2>2, <2>3, <2>4 DEF Exchange, Follows
<1> HIDE DEF f
<1>4. IsInjective(r) /\ Range(r) = Range(q)
  BY <1>1, <1>3, ExchangeKeeps, Zenon
<1> QED BY <1>1, <1>2, <1>4

\* A new element put in anywhere.
LEMMA InsertedKeeps ==
  ASSUME NEW S, NEW q \in Seq(S), IsInjective(q), NEW i \in 1..(Len(q) + 1),
         NEW e \in S, e \notin Range(q), NEW r, r = InsertAt(q, i, e)
  PROVE  IsInjective(r) /\ Range(r) = Range(q) \cup {e}
<1> DEFINE n == Len(q)
<1>1. n \in Nat /\ DOMAIN q = 1..n /\ i \in 1..(n + 1)
  OBVIOUS
<1>2. /\ r \in Seq(S) /\ Len(r) = n + 1
      /\ \A k \in 1..(n + 1) :
           r[k] = IF k < i THEN q[k] ELSE IF k = i THEN e ELSE q[k - 1]
  <2>1. r \in Seq(S) /\ Grown(r, q, i, e)
    BY InsertedIs
  <2> QED BY <2>1 DEF Grown
<1>3. \A k \in 1..n : q[k] # e
  BY <1>1 DEF Range
<1>4. \A a, b \in 1..n : q[a] = q[b] => a = b
  BY <1>1 DEF IsInjective
<1> HIDE DEF n
<1>5. DOMAIN r = 1..(n + 1)
  BY <1>1, <1>2
<1>6. \A a, b \in 1..(n + 1) : r[a] = r[b] => a = b
  <2> SUFFICES ASSUME NEW a \in 1..(n + 1), NEW b \in 1..(n + 1), r[a] = r[b] PROVE a = b
    OBVIOUS
  <2>1. CASE a < i
    BY <1>1, <1>2, <1>3, <1>4, <2>1
  <2>2. CASE a = i
    BY <1>1, <1>2, <1>3, <1>4, <2>2
  <2>3. CASE a > i
    BY <1>1, <1>2, <1>3, <1>4, <2>3
  <2> QED BY <1>1, <2>1, <2>2, <2>3
<1>7. Range(r) \subseteq Range(q) \cup {e}
  <2> SUFFICES ASSUME NEW k \in 1..(n + 1) PROVE r[k] \in Range(q) \cup {e}
    BY <1>5 DEF Range
  <2>1. CASE k < i
    <3>1. k \in 1..n /\ r[k] = q[k]
      BY <1>1, <1>2, <2>1
    <3> QED BY <1>1, <3>1 DEF Range
  <2>2. CASE k = i
    BY <1>1, <1>2, <2>2
  <2>3. CASE k > i
    <3>1. k - 1 \in 1..n /\ r[k] = q[k - 1]
      BY <1>1, <1>2, <2>3
    <3> QED BY <1>1, <3>1 DEF Range
  <2> QED BY <1>1, <2>1, <2>2, <2>3
<1>8. Range(q) \cup {e} \subseteq Range(r)
  <2>1. ASSUME NEW k \in 1..n
        PROVE  q[k] \in Range(r)
    <3>1. CASE k < i
      <4>1. k \in 1..(n + 1) /\ r[k] = q[k]
        BY <1>1, <1>2, <3>1
      <4> QED BY <1>5, <4>1 DEF Range
    <3>2. CASE k >= i
      <4>1. k + 1 \in 1..(n + 1) /\ r[k + 1] = q[k]
        <5>1. k + 1 \in 1..(n + 1) /\ ~(k + 1 < i) /\ k + 1 # i /\ (k + 1) - 1 = k
          BY <1>1, <3>2
        <5> QED BY <1>2, <5>1
      <4> QED BY <1>5, <4>1 DEF Range
    <3> QED BY <1>1, <3>1, <3>2
  <2>2. e \in Range(r)
    <3>1. i \in 1..(n + 1) /\ r[i] = e
      BY <1>1, <1>2
    <3> QED BY <1>5, <3>1 DEF Range
  <2>3. ASSUME NEW x \in Range(q)
        PROVE  x \in Range(r)
    <3>1. PICK k \in 1..n : q[k] = x
      BY <1>1 DEF Range
    <3> QED BY <2>1, <3>1
  <2> QED BY <2>2, <2>3
<1> QED BY <1>5, <1>6, <1>7, <1>8 DEF IsInjective

\* An empty sequence has nothing in it, and the other way round.
LEMMA EmptyRange ==
  ASSUME NEW S, NEW q \in Seq(S)
  PROVE  Range(q) = {} <=> q = <<>>
<1>1. q = <<>> => Range(q) = {}
  BY DEF Range
<1>2. q # <<>> => Range(q) # {}
  <2> SUFFICES ASSUME q # <<>> PROVE Range(q) # {}
    OBVIOUS
  <2>1. 1 \in DOMAIN q
    OBVIOUS
  <2> QED BY <2>1 DEF Range
<1> QED BY <1>1, <1>2

-----------------------------------------------------------------------------
(* The kinds of steps.                                                     *)

\* The numbers of a step that makes panes, tabs or sessions stay natural.
LEMMA CountsStayNatural ==
  ASSUME RegistryOK, NEW np \in Nat, NEW nt \in Nat, NEW ns \in Nat, Made(np, nt, ns)
  PROVE  made' \in Counts
BY DEF RegistryOK, Made, Counts

\* A step that touches neither the dict nor a view, which is what every
\* command on panes and tabs does, keeps the invariant.
LEMMA ElsewhereKeeps ==
  ASSUME RegistryInv, UNCHANGED <<running, sessions, views>>,
         made' \in Counts
  PROVE  RegistryInv'
BY DEF RegistryInv, RegistryOK, ViewsRegistered

\* Taking tabs from a session, to the point where the session is dropped,
\* keeps the invariant: its viewers go to one that remains, and if none does
\* they have none, which with exit-empty stops the server in the same step.
LEMMA SetTabsKeeps ==
  ASSUME RegistryInv, UNCHANGED made, NEW STATE s, NEW STATE seq, NEW STATE idx,
         SetTabs(s, seq, idx)
  PROVE  RegistryInv'
<1> DEFINE rest == IF seq = <<>> THEN Without(sessions, s) ELSE sessions
           heir == IF rest = <<>> THEN None ELSE rest[1]
<1>1. /\ sessions' = rest
      /\ views' = IF seq # <<>> THEN views ELSE Reassigned(s, heir)
      /\ running' = (running /\ ~(rest = <<>> /\ ExitEmpty))
  BY DEF SetTabs
<1>2. /\ rest \in Seq(Sess)
      /\ \A x \in Range(sessions) : seq # <<>> \/ x # s => x \in Range(rest)
  BY WithoutKeepsOthers DEF RegistryInv, RegistryOK
<1>3. /\ rest # <<>> => heir \in Sess /\ heir \in Range(rest)
      /\ rest = <<>> => heir = None
  BY <1>2, FirstIsIn
<1> HIDE DEF rest, heir
<1>4. views' \in [Clients -> Sess \cup {None, Away}]
  BY <1>1, <1>3 DEF RegistryInv, RegistryOK, Reassigned
<1>5. ASSUME NEW c \in Clients
      PROVE  /\ views'[c] \in Sess => views'[c] \in Range(sessions')
             /\ views'[c] = None /\ ExitEmpty => ~running'
  <2>1. /\ views[c] \in Sess => views[c] \in Range(sessions)
        /\ views[c] = None /\ ExitEmpty => ~running
    BY DEF RegistryInv, ViewsRegistered
  <2>2. CASE seq # <<>>
    BY <1>1, <1>2, <2>1, <2>2, Zenon
  <2>3. CASE seq = <<>> /\ views[c] # s
    <3>1. views'[c] = views[c]
      BY <1>1, <2>3 DEF Reassigned
    <3> QED BY <1>1, <1>2, <2>1, <2>3, <3>1, Zenon
  <2>4. CASE seq = <<>> /\ views[c] = s
    <3>1. views'[c] = heir
      BY <1>1, <2>4 DEF Reassigned
    <3>2. CASE rest # <<>>
      BY <1>1, <1>3, <3>1, <3>2 DEF Sess, None
    <3>3. CASE rest = <<>>
      <4>1. ExitEmpty => ~running'
        BY <1>1, <3>3, Zenon
      <4>2. views'[c] \notin Sess
        BY <1>3, <3>1, <3>3 DEF Sess, None
      <4> QED BY <4>1, <4>2
    <3> QED BY <3>2, <3>3
  <2> QED BY <2>2, <2>3, <2>4
<1>6. running' \in BOOLEAN
  BY <1>1 DEF RegistryInv, RegistryOK
<1> QED BY <1>1, <1>2, <1>4, <1>5, <1>6 DEF RegistryInv, RegistryOK, ViewsRegistered

\* A session that is opened is one of the dict afterwards, with the others.
LEMMA OpenSessionAdds ==
  ASSUME RegistryInv, NEW STATE ts, Len(ts) \in Nat, OpenSession(ts),
         NEW STATE np, NEW STATE nt, CanMake(np, nt, 1)
  PROVE  /\ sessions' \in Seq(Sess)
         /\ made.sess + 1 \in Sess
         /\ Range(sessions) \cup {made.sess + 1} \subseteq Range(sessions')
         /\ made' \in Counts
<1>1. made.sess + 1 \in Sess
  BY DEF RegistryInv, RegistryOK, CanMake, Sess, Counts
<1>2. sessions' = Append(sessions, made.sess + 1)
  BY Zenon DEF OpenSession
<1>3. made' \in Counts
  BY CountsStayNatural, Zenon DEF OpenSession, RegistryInv
<1> QED BY <1>1, <1>2, <1>3, AppendAdds DEF RegistryInv, RegistryOK

\* Clients that look at another session of the dict, or go away, with the
\* dict grown or left alone, keep the invariant.
LEMMA LookingKeeps ==
  ASSUME RegistryInv, UNCHANGED running,
         sessions' \in Seq(Sess), Range(sessions) \subseteq Range(sessions'),
         made' \in Counts,
         NEW c \in Clients, NEW v \in {Away} \cup (Sess \cap Range(sessions')),
         views' = [views EXCEPT ![c] = v]
  PROVE  RegistryInv'
<1>1. views' \in [Clients -> Sess \cup {None, Away}]
  BY DEF RegistryInv, RegistryOK
<1>2. ASSUME NEW d \in Clients
      PROVE  /\ views'[d] \in Sess => views'[d] \in Range(sessions')
             /\ views'[d] = None /\ ExitEmpty => ~running'
  <2>1. /\ views[d] \in Sess => views[d] \in Range(sessions)
        /\ views[d] = None /\ ExitEmpty => ~running
    BY DEF RegistryInv, ViewsRegistered
  <2>2. CASE d = c
    <3>1. views'[d] = v
      BY <2>2 DEF RegistryInv, RegistryOK
    <3> QED BY <3>1 DEF Away, None, Sess
  <2>3. CASE d # c
    <3>1. views'[d] = views[d]
      BY <2>3 DEF RegistryInv, RegistryOK
    <3> QED BY <2>1, <3>1
  <2> QED BY <2>2, <2>3
<1> QED BY <1>1, <1>2 DEF RegistryInv, RegistryOK, ViewsRegistered
-----------------------------------------------------------------------------
(* One lemma per part of Next.                                             *)

\* Whatever place a pane has when its shell ends, the step keeps the
\* invariant: only the last pane of the last tab takes the session with it.
LEMMA PaneEofKeeps ==
  ASSUME RegistryInv, NEW STATE p, PaneEof(p)
  PROVE  RegistryInv'
<1>1. UNCHANGED made
  BY DEF PaneEof
<1>2. CASE LeavesPopup(p)
  BY <1>1, <1>2, ElsewhereKeeps DEF LeavesPopup, RegistryInv, RegistryOK
<1>3. CASE LeavesWindow(p)
  BY <1>1, <1>3, ElsewhereKeeps DEF LeavesWindow, sessVars, RegistryInv, RegistryOK
<1>4. CASE LeavesTab(p)
  <2>1. PICK t \in HomesOf(p) :
          SetTabs(SessionOf(t), Without(tabs[SessionOf(t)], t), active[SessionOf(t)])
    BY <1>4 DEF LeavesTab
  <2> QED BY <1>1, <2>1, SetTabsKeeps
<1>5. CASE UNCHANGED <<running, sessVars, pinned, tree, views>>
  BY <1>1, <1>5, ElsewhereKeeps DEF sessVars, RegistryInv, RegistryOK
<1> QED BY <1>2, <1>3, <1>4, <1>5 DEF PaneEof

\* Commands that only rearrange leave the dict and the views alone.
LEMMA RearrangedKeeps ==
  ASSUME RegistryInv, NEW s \in Sess, Rearranged(s)
  PROVE  RegistryInv'
<1>1. UNCHANGED <<running, sessions, views, made>>
  <2>1. CASE LastPane(s)
    BY <2>1 DEF LastPane, Rearrange, sessVars
  <2>2. CASE LastTab(s) \/ \E i \in Indices : SelectTab(s, i)
    BY <2>2 DEF LastTab, SelectTab, Reorder
  <2>3. CASE \E p \in Panes : SelectPane(s, p)
    BY <2>3 DEF SelectPane, Rearrange, sessVars
  <2>4. CASE \E p, q \in Panes : SwapPanes(s, p, q)
    BY <2>4 DEF SwapPanes, Rearrange, sessVars
  <2>5. CASE \E choice \in BOOLEAN : SelectLayout(s, choice) \/ RotatePanes(s, choice)
    BY <2>5 DEF SelectLayout, RotatePanes, Rearrange, sessVars
  <2>6. CASE \E i \in Indices : SwapTabs(s, i)
    BY <2>6 DEF SwapTabs, Reorder
  <2>7. CASE \E i, j \in Indices : MoveTab(s, i, j)
    BY <2>7 DEF MoveTab, Reorder
  <2>8. CASE \E i \in Indices, value \in BOOLEAN : SetPinned(s, i, value)
    BY <2>8 DEF SetPinned, Reorder
  <2> QED BY <2>1, <2>2, <2>3, <2>4, <2>5, <2>6, <2>7, <2>8 DEF Rearranged
<1> QED BY <1>1, ElsewhereKeeps DEF RegistryInv, RegistryOK

\* The commands on panes, tabs, popups and the session itself.
LEMMA CommandKeeps ==
  ASSUME RegistryInv, NEW s \in Sess, Command(s)
  PROVE  RegistryInv'
<1>1. CASE SplitPane(s)
  BY <1>1, ElsewhereKeeps, CountsStayNatural DEF SplitPane, sessVars, RegistryInv
<1>2. CASE KillPane(s)
  BY <1>2, PaneEofKeeps DEF KillPane
<1>3. CASE BreakPane(s)
  BY <1>3, ElsewhereKeeps, CountsStayNatural DEF BreakPane, RegistryInv
<1>4. CASE KillTab(s)
  BY <1>4, SetTabsKeeps DEF KillTab
<1>5. CASE PopupOpen(s)
  <2>1. made' \in Counts
    BY <1>5 DEF PopupOpen, RegistryInv, RegistryOK, Counts
  <2> QED BY <1>5, <2>1, ElsewhereKeeps DEF PopupOpen
<1>6. CASE PopupClose(s)
  BY <1>6, ElsewhereKeeps DEF PopupClose, RegistryInv, RegistryOK
<1>7. CASE RenameSession(s)
  <2>1. /\ Without(sessions, s) \in Seq(Sess)
        /\ \A x \in Range(sessions) : x # s => x \in Range(Without(sessions, s))
    BY WithoutKeepsOthers DEF RegistryInv, RegistryOK
  <2>2. /\ sessions' \in Seq(Sess)
        /\ Range(Without(sessions, s)) \cup {s} \subseteq Range(sessions')
    BY <1>7, <2>1, AppendAdds DEF RenameSession
  <2>3. Range(sessions) \subseteq Range(sessions')
    BY <2>1, <2>2
  <2>4. UNCHANGED <<running, views, made>>
    BY <1>7 DEF RenameSession
  <2> QED BY <2>2, <2>3, <2>4 DEF RegistryInv, RegistryOK, ViewsRegistered
<1>8. CASE KillSession(s)
  BY <1>8, SetTabsKeeps DEF KillSession
<1>9. CASE RestoreLayout(s)
  <2>1. OpenSession(<<made.tab + 1>>) /\ CanMake(1, 1, 1) /\ UNCHANGED <<running, views>>
    BY <1>9 DEF RestoreLayout
  <2>2. /\ sessions' \in Seq(Sess)
        /\ Range(sessions) \subseteq Range(sessions')
        /\ made' \in Counts
    BY <2>1, OpenSessionAdds
  <2> QED BY <2>1, <2>2 DEF RegistryInv, RegistryOK, ViewsRegistered
<1>10. CASE \E i \in Indices : JoinPane(s, i)
  BY <1>10, ElsewhereKeeps DEF JoinPane, Carry, RegistryInv, RegistryOK
<1>11. CASE \E i \in Indices, p \in Panes : MovePaneToTab(s, p, i)
  BY <1>11, ElsewhereKeeps DEF MovePaneToTab, Carry, RegistryInv, RegistryOK
<1>12. CASE \E n \in 1..2 : LoadLayoutNew(s, n)
  BY <1>12, ElsewhereKeeps, CountsStayNatural DEF LoadLayoutNew, RegistryInv
<1>13. CASE \E n \in 1..2 : LoadLayoutOver(s, n)
  <2>1. made' \in Counts
    BY <1>13 DEF LoadLayoutOver, RegistryInv, RegistryOK, Counts
  <2> QED BY <1>13, <2>1, ElsewhereKeeps DEF LoadLayoutOver, sessVars
<1> QED
  BY <1>1, <1>2, <1>3, <1>4, <1>5, <1>6, <1>7, <1>8, <1>9, <1>10, <1>11, <1>12, <1>13
  DEF Command
\* new_window, which also gives a session to a client that is left without.
LEMMA NewTabKeeps ==
  ASSUME RegistryInv, NEW c \in Clients, NewTab(c)
  PROVE  RegistryInv'
<1> DEFINE s == IF views[c] = None /\ sessions # <<>> THEN sessions[1] ELSE views[c]
<1>1. views[c] # Away /\ UNCHANGED running
  BY DEF NewTab
<1>2. CASE s = None
  <2>1. /\ OpenSession(<<made.tab + 1, made.tab + 2>>) /\ CanMake(2, 2, 1)
        /\ views' = [views EXCEPT ![c] = made.sess + 1]
    BY <1>2 DEF NewTab
  <2>2. /\ sessions' \in Seq(Sess)
        /\ made.sess + 1 \in Sess
        /\ Range(sessions) \cup {made.sess + 1} \subseteq Range(sessions')
        /\ made' \in Counts
    BY <2>1, OpenSessionAdds
  <2> QED BY <1>1, <2>1, <2>2, LookingKeeps, Zenon
<1>3. CASE s # None
  <2>1. /\ OpenTab(s, made.pane + 1, made.tab + 1)
        /\ views' = [views EXCEPT ![c] = s]
    BY <1>3 DEF NewTab
  <2>2. UNCHANGED sessions /\ made' \in Counts
    BY <2>1, CountsStayNatural DEF OpenTab, RegistryInv
  <2>3. s \in Sess /\ s \in Range(sessions)
    <3>1. CASE views[c] = None /\ sessions # <<>>
      BY <3>1, FirstIsIn DEF RegistryInv, RegistryOK
    <3>2. CASE ~(views[c] = None /\ sessions # <<>>)
      <4>1. s = views[c]
        BY <3>2
      <4>2. views[c] \in Sess
        BY <1>1, <1>3, <4>1 DEF RegistryInv, RegistryOK
      <4> QED BY <4>1, <4>2 DEF RegistryInv, ViewsRegistered
    <3> QED BY <3>1, <3>2
  <2>4. sessions \in Seq(Sess)
    BY DEF RegistryInv, RegistryOK
  <2> HIDE DEF s
  <2> QED BY <1>1, <2>1, <2>2, <2>3, <2>4, LookingKeeps, Zenon
<1> QED BY <1>2, <1>3

\* hello: the first session, or the one that is opened because there is none.
LEMMA AttachKeeps ==
  ASSUME RegistryInv, NEW c \in Clients, Attach(c)
  PROVE  RegistryInv'
<1>1. sessions \in Seq(Sess) /\ UNCHANGED running
  BY DEF RegistryInv, RegistryOK, Attach
<1>2. CASE sessions = <<>>
  <2>1. /\ OpenSession(<<made.tab + 1>>) /\ CanMake(1, 1, 1)
        /\ views' = [views EXCEPT ![c] = made.sess + 1]
    BY <1>2 DEF Attach
  <2>2. /\ sessions' \in Seq(Sess)
        /\ made.sess + 1 \in Sess
        /\ Range(sessions) \cup {made.sess + 1} \subseteq Range(sessions')
        /\ made' \in Counts
    BY <2>1, OpenSessionAdds
  <2> QED BY <1>1, <2>1, <2>2, LookingKeeps, Zenon
<1>3. CASE sessions # <<>>
  <2>1. UNCHANGED <<sessions, made>> /\ views' = [views EXCEPT ![c] = sessions[1]]
    BY <1>3 DEF Attach
  <2>2. sessions[1] \in Sess /\ sessions[1] \in Range(sessions) /\ made \in Counts
    BY <1>1, <1>3, FirstIsIn DEF RegistryInv, RegistryOK
  <2> QED BY <1>1, <2>1, <2>2, LookingKeeps, Zenon
<1> QED BY <1>2, <1>3

\* new_session, switching, and the end of a connection.
LEMMA ClientKeeps ==
  ASSUME RegistryInv, NEW c \in Clients,
         \/ NewSession(c) \/ DetachClient(c)
         \/ \E s \in Sess : SwitchSession(c, s)
  PROVE  RegistryInv'
<1>1. sessions \in Seq(Sess) /\ made \in Counts
  BY DEF RegistryInv, RegistryOK
<1>2. CASE NewSession(c)
  <2>1. /\ OpenSession(<<made.tab + 1>>) /\ CanMake(1, 1, 1) /\ UNCHANGED running
        /\ views' = [views EXCEPT ![c] = made.sess + 1]
    BY <1>2 DEF NewSession
  <2>2. /\ sessions' \in Seq(Sess)
        /\ made.sess + 1 \in Sess
        /\ Range(sessions) \cup {made.sess + 1} \subseteq Range(sessions')
        /\ made' \in Counts
    BY <2>1, OpenSessionAdds
  <2> QED BY <2>1, <2>2, LookingKeeps, Zenon
<1>3. CASE DetachClient(c)
  BY <1>1, <1>3, LookingKeeps, Zenon DEF DetachClient, sessVars
<1>4. ASSUME NEW s \in Sess, SwitchSession(c, s)
      PROVE  RegistryInv'
  <2>1. /\ UNCHANGED <<running, sessions, made>>
        /\ views' = [views EXCEPT ![c] = s]
        /\ s \in Range(sessions)
    BY <1>4 DEF SwitchSession, sessVars
  <2> QED BY <1>1, <2>1, LookingKeeps, Zenon
<1> QED BY <1>2, <1>3, <1>4

-----------------------------------------------------------------------------
(* The invariant.                                                          *)

LEMMA InitRegistry == Init => RegistryInv
BY DEF Init, RegistryInv, RegistryOK, ViewsRegistered, Counts, Sess, Away, None

LEMMA NextRegistry == RegistryInv /\ [Next]_vars => RegistryInv'
<1> SUFFICES ASSUME RegistryInv, [Next]_vars
             PROVE  RegistryInv'
  OBVIOUS
<1>1. ASSUME NEW s \in Sess, Command(s) \/ Rearranged(s)
      PROVE  RegistryInv'
  BY <1>1, CommandKeeps, RearrangedKeeps
<1>2. ASSUME NEW c \in Clients,
             NewTab(c) \/ NewSession(c) \/ Attach(c) \/ DetachClient(c)
      PROVE  RegistryInv'
  BY <1>2, NewTabKeeps, AttachKeeps, ClientKeeps
<1>3. ASSUME NEW c \in Clients, NEW s \in Sess, SwitchSession(c, s)
      PROVE  RegistryInv'
  BY <1>3, ClientKeeps
<1>4. ASSUME NEW p \in Panes, ShellExits(p)
      PROVE  RegistryInv'
  BY <1>4, PaneEofKeeps DEF ShellExits
<1>5. CASE Flush
  BY <1>5, ElsewhereKeeps DEF Flush, sessVars, RegistryInv, RegistryOK
<1>6. CASE UNCHANGED vars
  BY <1>6, ElsewhereKeeps DEF vars, sessVars, RegistryInv, RegistryOK
<1> QED BY <1>1, <1>2, <1>3, <1>4, <1>5, <1>6 DEF Next

\* In every behaviour, whatever the order in which sessions are opened,
\* killed, renamed, switched or emptied by exiting shells, no client looks at
\* a session that was dropped, and with exit-empty a client is without one
\* only when the server stops (_drop_session, _handle_cmd, ensure_default_session).
THEOREM ViewsRegisteredCorrect == Spec => []ViewsRegistered
<1>1. RegistryInv => ViewsRegistered
  BY DEF RegistryInv
<1> QED BY <1>1, InitRegistry, NextRegistry, PTL DEF Spec
-----------------------------------------------------------------------------
(* The tabs of the sessions.                                               *)

\* A session of the dict has tabs, each once, and one of them is active; one
\* that is not in the dict has none.  No tab is in two sessions, numbers of
\* tabs and sessions are used once.
SessionOK(s) ==
  /\ IsInjective(tabs[s])
  /\ Range(tabs[s]) \subseteq 1..made.tab
  /\ s \in Range(sessions) =>
       s <= made.sess /\ tabs[s] # <<>> /\ active[s] < Len(tabs[s])
  /\ s \notin Range(sessions) => tabs[s] = <<>>

TabsOK ==
  /\ tabs \in [Sess -> Seq(Tabs)]
  /\ active \in [Sess -> Nat]
  /\ last \in [Sess -> Nat]
  /\ pinned \subseteq 1..made.tab
  /\ IsInjective(sessions)
  /\ \A s \in Sess : SessionOK(s)
  /\ \A s, r \in Sess : s # r => Range(tabs[s]) \cap Range(tabs[r]) = {}

TabsInv == RegistryInv /\ TabsOK

\* What TabMovesKeepZones says of a step.
ZonesKept ==
  \A s \in Range(sessions) :
    s \in Range(sessions') /\ Range(tabs'[s]) = Range(tabs[s]) /\ tabs'[s] # tabs[s]
      => /\ PinsLastIn(s) => PinsLastIn(s)'
         /\ ActiveTab(s)' = ActiveTab(s)

\* What the rest of this section shows of every step.
TabsKept == TabsOK' /\ ZonesKept

\* Every session keeps the tabs it has, in any order.
SameTabs == \A r \in Sess : Range(tabs'[r]) = Range(tabs[r])

\* The numbers that were given out only grow.
Later == made' \in Counts /\ made'.tab >= made.tab /\ made'.sess >= made.sess

\* A client that gives a command looks at a session of the dict.
LEMMA CommandsIn ==
  ASSUME RegistryInv, NEW s \in Sess, Commands(s)
  PROVE  s \in Range(sessions)
BY DEF Commands, RegistryInv, ViewsRegistered

\* Steps that leave the tabs where they are.
LEMMA TabsAlone ==
  ASSUME TabsInv, UNCHANGED <<sessions, tabs, active, last>>,
         Later, pinned' \subseteq 1..made'.tab
  PROVE  TabsKept
<1>1. ZonesKept
  BY DEF ZonesKept
<1>2. made.tab \in Nat /\ made'.tab \in Nat /\ made.sess \in Nat /\ made'.sess \in Nat
  BY DEF TabsInv, RegistryInv, RegistryOK, Later, Counts
<1>3. ASSUME NEW s \in Sess
      PROVE  SessionOK(s)'
  <2>1. SessionOK(s)
    BY DEF TabsInv, TabsOK
  <2>2. 1..made.tab \subseteq 1..made'.tab
    BY <1>2 DEF Later
  <2>3. s <= made.sess => s <= made'.sess
    BY <1>2 DEF Later, Sess
  <2> QED BY <2>1, <2>2, <2>3 DEF SessionOK
<1>4. /\ tabs' \in [Sess -> Seq(Tabs)] /\ active' \in [Sess -> Nat] /\ last' \in [Sess -> Nat]
      /\ IsInjective(sessions')
      /\ \A s, r \in Sess : s # r => Range(tabs'[s]) \cap Range(tabs'[r]) = {}
  BY DEF TabsInv, TabsOK
<1> QED BY <1>1, <1>3, <1>4 DEF TabsKept, TabsOK

\* Steps that give one session other tabs: some it had and some new ones.  A
\* session left without tabs leaves the dict.
Turned(s, seq, a) ==
  /\ seq \in Seq(Tabs) /\ IsInjective(seq)
  /\ Range(seq) \subseteq Range(tabs[s]) \cup (made.tab + 1)..made'.tab
  /\ a \in Nat /\ (seq # <<>> => a < Len(seq))
  /\ tabs' = [tabs EXCEPT ![s] = seq]
  /\ active' = [active EXCEPT ![s] = a]
  /\ last' \in [Sess -> Nat]
  /\ sessions' = IF seq = <<>> THEN Without(sessions, s) ELSE sessions
  /\ pinned' \subseteq 1..made'.tab

LEMMA TurnedKeeps ==
  ASSUME TabsInv, NEW s \in Range(sessions), NEW seq, NEW a, Turned(s, seq, a), Later
  PROVE  TabsOK'
<1>1. /\ made.tab \in Nat /\ made'.tab \in Nat /\ made.sess \in Nat /\ made'.sess \in Nat
      /\ made'.tab >= made.tab /\ made'.sess >= made.sess
  BY DEF TabsInv, RegistryInv, RegistryOK, Later, Counts
<1>2. /\ tabs \in [Sess -> Seq(Tabs)] /\ active \in [Sess -> Nat]
      /\ \A r \in Sess : SessionOK(r)
      /\ \A r, q \in Sess : r # q => Range(tabs[r]) \cap Range(tabs[q]) = {}
      /\ sessions \in Seq(Sess) /\ IsInjective(sessions)
  BY DEF TabsInv, TabsOK, RegistryInv, RegistryOK
<1>3. s \in Sess
  BY <1>2 DEF Range
<1>4. tabs'[s] = seq /\ active'[s] = a /\ \A r \in Sess : r # s => tabs'[r] = tabs[r] /\ active'[r] = active[r]
  BY <1>2, <1>3 DEF Turned
<1>5. /\ IsInjective(sessions')
      /\ Range(sessions') = IF seq = <<>> THEN Range(sessions) \ {s} ELSE Range(sessions)
  BY <1>2, WithoutKeepsOthers, Zenon DEF Turned
<1>6. ASSUME NEW r \in Sess
      PROVE  SessionOK(r)'
  <2>1. SessionOK(r)
    BY <1>2
  <2>2. 1..made.tab \subseteq 1..made'.tab /\ (r <= made.sess => r <= made'.sess)
    BY <1>1 DEF Sess
  <2>3. CASE r # s
    <3>1. tabs'[r] = tabs[r] /\ active'[r] = active[r] /\ (r \in Range(sessions') <=> r \in Range(sessions))
      BY <1>4, <1>5, <2>3
    <3> QED BY <2>1, <2>2, <3>1 DEF SessionOK
  <2>4. CASE r = s
    <3>1. Range(seq) \subseteq 1..made'.tab
      <4>1. Range(tabs[s]) \subseteq 1..made'.tab
        BY <2>1, <2>2, <2>4 DEF SessionOK
      <4>2. (made.tab + 1)..made'.tab \subseteq 1..made'.tab
        BY <1>1
      <4> QED BY <4>1, <4>2 DEF Turned
    <3>2. r \in Range(sessions') <=> seq # <<>>
      BY <1>5, <2>4
    <3>3. r <= made'.sess
      BY <2>1, <2>2, <2>4 DEF SessionOK
    <3>4. seq # <<>> => a < Len(seq)
      BY DEF Turned
    <3>5. IsInjective(seq)
      BY DEF Turned
    <3> QED BY <1>4, <2>4, <3>1, <3>2, <3>3, <3>4, <3>5 DEF SessionOK
  <2> QED BY <2>3, <2>4
<1>7. ASSUME NEW r \in Sess, NEW q \in Sess, r # q
      PROVE  Range(tabs'[r]) \cap Range(tabs'[q]) = {}
  <2>1. Range(tabs[r]) \cap Range(tabs[q]) = {}
    BY <1>2, <1>7
  <2>2. \A x \in Sess : Range(tabs[x]) \cap (made.tab + 1)..made'.tab = {}
    <3> SUFFICES ASSUME NEW x \in Sess PROVE Range(tabs[x]) \cap (made.tab + 1)..made'.tab = {}
      OBVIOUS
    <3>1. Range(tabs[x]) \subseteq 1..made.tab
      BY <1>2 DEF SessionOK
    <3>2. 1..made.tab \cap (made.tab + 1)..made'.tab = {}
      BY <1>1
    <3> QED BY <3>1, <3>2
  <2>3. Range(seq) \subseteq Range(tabs[s]) \cup (made.tab + 1)..made'.tab
    BY DEF Turned
  <2>4. CASE r = s
    <3>1. tabs'[r] = seq /\ tabs'[q] = tabs[q]
      BY <1>4, <1>7, <2>4
    <3>2. Range(tabs[q]) \cap (made.tab + 1)..made'.tab = {}
      BY <2>2
    <3> QED BY <2>1, <2>3, <2>4, <3>1, <3>2
  <2>5. CASE q = s
    <3>1. tabs'[q] = seq /\ tabs'[r] = tabs[r]
      BY <1>4, <1>7, <2>5
    <3>2. Range(tabs[r]) \cap (made.tab + 1)..made'.tab = {}
      BY <2>2
    <3> QED BY <2>1, <2>3, <2>5, <3>1, <3>2
  <2>6. CASE r # s /\ q # s
    BY <1>4, <2>1, <2>6
  <2> QED BY <2>4, <2>5, <2>6
<1>8. tabs' \in [Sess -> Seq(Tabs)] /\ active' \in [Sess -> Nat] /\ last' \in [Sess -> Nat]
  <2>1. seq \in Seq(Tabs) /\ a \in Nat
    BY DEF Turned
  <2> QED BY <1>2, <2>1, Zenon DEF Turned
<1>9. pinned' \subseteq 1..made'.tab
  BY DEF Turned
<1> QED BY <1>5, <1>6, <1>7, <1>8, <1>9 DEF TabsOK

\* When the session gets or loses a tab the zones are not at issue.
LEMMA OtherTabsKeeps ==
  ASSUME TabsInv, NEW s \in Range(sessions), NEW seq, NEW a, Turned(s, seq, a), Later,
         Range(seq) # Range(tabs[s])
  PROVE  TabsKept
<1>1. TabsOK'
  BY TurnedKeeps
<1>2. tabs \in [Sess -> Seq(Tabs)] /\ sessions \in Seq(Sess)
  BY DEF TabsInv, TabsOK, RegistryInv, RegistryOK
<1>3. \A r \in Range(sessions) : r \in Sess
  BY <1>2 DEF Range
<1>4. tabs' = [tabs EXCEPT ![s] = seq]
  BY DEF Turned
<1>5. tabs'[s] = seq /\ \A r \in Sess : r # s => tabs'[r] = tabs[r]
  BY <1>2, <1>3, <1>4
<1>6. ZonesKept
  <2> SUFFICES ASSUME NEW r \in Range(sessions), Range(tabs'[r]) = Range(tabs[r]), tabs'[r] # tabs[r]
               PROVE  FALSE
    BY Zenon DEF ZonesKept
  <2> QED BY <1>3, <1>5
<1> QED BY <1>1, <1>6 DEF TabsKept

\* Where the pinned zone begins.
LEMMA FirstPinnedIs ==
  ASSUME NEW q \in Seq(Tabs)
  PROVE  /\ FirstPinned(q) \in 0..Len(q)
         /\ \A k \in 1..FirstPinned(q) : q[k] \notin pinned
         /\ FirstPinned(q) < Len(q) => q[FirstPinned(q) + 1] \in pinned
<1> DEFINE n == Len(q)
           I == {i \in 1..n : q[i] \in pinned}
           first == SelectInSeq(q, LAMBDA t : t \in pinned)
<1>1. n \in Nat
  OBVIOUS
<1>2. first = IF I # {} THEN Min(I) ELSE 0
  BY Zenon DEF SelectInSeq
<1>3. FirstPinned(q) = IF first = 0 THEN n ELSE first - 1
  BY DEF FirstPinned
<1> HIDE DEF first
<1>4. CASE I = {}
  <2>1. FirstPinned(q) = n
    BY <1>2, <1>3, <1>4
  <2>2. \A k \in 1..n : q[k] \notin pinned
    BY <1>4
  <2> HIDE DEF n
  <2> QED BY <1>1, <2>1, <2>2 DEF n
<1>5. CASE I # {}
  <2>1. I \subseteq Nat
    OBVIOUS
  <2>2. \E m \in I : \A y \in I : m <= y
    BY <1>5, <2>1, LeastMember, Zenon
  <2>3. Min(I) \in I /\ \A y \in I : Min(I) <= y
    BY <2>2 DEF Min
  <2>4. first \in I /\ \A y \in I : first <= y
    BY <1>2, <1>5, <2>3
  <2>5. first \in 1..n /\ q[first] \in pinned /\ FirstPinned(q) = first - 1
    BY <1>3, <2>4
  <2>6. ASSUME NEW k \in 1..(first - 1)
        PROVE  q[k] \notin pinned
    <3>1. k \in 1..n /\ ~(first <= k)
      BY <1>1, <2>5
    <3> QED BY <2>4, <3>1
  <2> QED BY <1>1, <2>5, <2>6
<1> QED BY <1>4, <1>5

\* A list of tabs with the pinned ones at its end.
PinsLast(q, pins) == \A i, j \in 1..Len(q) : i < j /\ q[i] \in pins => q[j] \in pins

LEMMA ZonesAre ==
  ASSUME NEW q \in Seq(Tabs), PinsLast(q, pinned), NEW k \in 1..Len(q)
  PROVE  q[k] \in pinned <=> k > FirstPinned(q)
<1> DEFINE n == Len(q)  fp == FirstPinned(q)
<1>1. /\ n \in Nat /\ fp \in 0..n
      /\ \A i \in 1..fp : q[i] \notin pinned
      /\ fp < n => q[fp + 1] \in pinned
  BY FirstPinnedIs
<1> HIDE DEF fp
<1>2. CASE k <= fp
  <2>1. k \in 1..fp /\ ~(k > fp)
    BY <1>1, <1>2
  <2> QED BY <1>1, <2>1 DEF fp
<1>3. CASE k > fp
  <2>1. fp + 1 \in 1..n /\ q[fp + 1] \in pinned
    BY <1>1, <1>3
  <2>2. k = fp + 1 \/ fp + 1 < k
    BY <1>1, <1>3
  <2>3. q[k] \in pinned
    BY <1>1, <2>1, <2>2 DEF PinsLast
  <2> QED BY <1>3, <2>3 DEF fp
<1> QED BY <1>1, <1>2, <1>3 DEF fp

\* The target of a move is an index of the zone the tab is in.
LEMMA IntoZone ==
  ASSUME NEW q \in Seq(Tabs), NEW i \in 0..(Len(q) - 1), NEW j \in Int
  PROVE  /\ Into(Zone(q, i), j) \in 0..(Len(q) - 1)
         /\ i < FirstPinned(q) <=> Into(Zone(q, i), j) < FirstPinned(q)
<1> DEFINE n == Len(q)  fp == FirstPinned(q)  z == Zone(q, i)
<1>1. n \in Nat /\ fp \in 0..n
  BY FirstPinnedIs
<1>2. z = IF i < fp THEN <<0, fp - 1>> ELSE <<fp, n - 1>>
  BY DEF Zone
<1> HIDE DEF fp, z
<1>3. CASE i < fp
  <2>1. z[1] = 0 /\ z[2] = fp - 1
    BY <1>2, <1>3
  <2> QED BY <1>1, <1>3, <2>1 DEF Into, fp, z
<1>4. CASE ~(i < fp)
  <2>1. z[1] = fp /\ z[2] = n - 1
    BY <1>2, <1>4
  <2> QED BY <1>1, <1>4, <2>1 DEF Into, fp, z
<1> QED BY <1>3, <1>4

\* What every command on the tabs of a session finds.
LEMMA TabsOfSession ==
  ASSUME TabsInv, NEW s \in Range(sessions)
  PROVE  /\ s \in Sess /\ tabs[s] \in Seq(Tabs) /\ tabs[s] # <<>>
         /\ IsInjective(tabs[s])
         /\ Range(tabs[s]) \subseteq 1..made.tab
         /\ Len(tabs[s]) \in Nat /\ Len(tabs[s]) > 0
         /\ active[s] \in 0..(Len(tabs[s]) - 1) /\ last[s] \in Nat
         /\ ActiveTab(s) = tabs[s][active[s] + 1]
         /\ ActiveTab(s) \in Range(tabs[s])
         /\ tabs[s] \in [1..Len(tabs[s]) -> Tabs]
<1>1. s \in Sess
  BY DEF Range, TabsInv, RegistryInv, RegistryOK
<1>2. /\ tabs[s] \in Seq(Tabs) /\ SessionOK(s) /\ active[s] \in Nat /\ last[s] \in Nat
  BY <1>1 DEF TabsInv, TabsOK
<1>3. /\ tabs[s] # <<>> /\ active[s] < Len(tabs[s])
      /\ IsInjective(tabs[s]) /\ Range(tabs[s]) \subseteq 1..made.tab
  BY <1>2 DEF SessionOK
<1> DEFINE q == tabs[s]  a == active[s]
<1>4. q \in Seq(Tabs) /\ a \in Nat /\ a < Len(q)
  BY <1>2, <1>3
<1>5. ActiveTab(s) = q[a + 1]
  BY DEF ActiveTab, At
<1> HIDE DEF q, a
<1>6. /\ Len(q) \in Nat /\ Len(q) > 0 /\ a \in 0..(Len(q) - 1) /\ a + 1 \in DOMAIN q
      /\ q \in [1..Len(q) -> Tabs]
  BY <1>4
<1>7. q[a + 1] \in Range(q)
  BY <1>6 DEF Range
<1> QED BY <1>1, <1>2, <1>3, <1>5, <1>6, <1>7 DEF q, a

\* A command that puts the tabs of a session in another order keeps zones and
\* the active tab if the pinned tabs stay last and active follows its tab.
LEMMA ReorderKeeps ==
  ASSUME TabsInv, NEW s \in Range(sessions), NEW seq, NEW a, NEW l \in Nat,
         Reorder(s, seq, a, l), pinned' \subseteq 1..made.tab,
         seq \in Seq(Tabs), IsInjective(seq), Range(seq) = Range(tabs[s]),
         a \in 0..(Len(seq) - 1),
         seq # tabs[s] => seq[a + 1] = ActiveTab(s),
         PinsLast(tabs[s], pinned) => PinsLast(seq, pinned')
  PROVE  TabsKept /\ SameTabs
<1>1. /\ s \in Sess /\ tabs[s] \in Seq(Tabs) /\ tabs[s] # <<>>
  BY TabsOfSession
<1>2. /\ UNCHANGED made /\ made \in Counts /\ UNCHANGED sessions
      /\ tabs' = [tabs EXCEPT ![s] = seq] /\ active' = [active EXCEPT ![s] = a]
      /\ last' = [last EXCEPT ![s] = l]
  BY DEF Reorder, TabsInv, RegistryInv, RegistryOK
<1>3. Later
  BY <1>2 DEF Later, Counts
<1>4. tabs \in [Sess -> Seq(Tabs)] /\ active \in [Sess -> Nat] /\ last \in [Sess -> Nat]
  BY DEF TabsInv, TabsOK
<1>5. seq # <<>>
  <2>1. Range(tabs[s]) # {}
    BY <1>1, EmptyRange
  <2> QED BY <2>1, EmptyRange
<1>6. Turned(s, seq, a)
  <2>1. last' \in [Sess -> Nat]
    BY <1>2, <1>4, Zenon
  <2>2. a \in Nat /\ a < Len(seq)
    BY <1>5
  <2>3. pinned' \subseteq 1..made'.tab
    BY <1>2
  <2>4. sessions' = IF seq = <<>> THEN Without(sessions, s) ELSE sessions
    BY <1>2, <1>5
  <2> QED BY <1>2, <2>1, <2>2, <2>3, <2>4 DEF Turned
<1>7. TabsOK'
  BY <1>3, <1>6, TurnedKeeps
<1>8. tabs'[s] = seq /\ active'[s] = a /\ \A r \in Sess : r # s => tabs'[r] = tabs[r]
  BY <1>1, <1>2, <1>4
<1>9. ASSUME NEW r \in Range(sessions), tabs'[r] # tabs[r]
      PROVE  /\ PinsLastIn(r) => PinsLastIn(r)'
             /\ ActiveTab(r)' = ActiveTab(r)
  <2>1. r \in Sess
    BY TabsOfSession
  <2>2. r = s /\ seq # tabs[s]
    BY <1>8, <1>9, <2>1
  <2>3. ActiveTab(r)' = seq[a + 1]
    BY <1>8, <2>2 DEF ActiveTab, At
  <2>4. PinsLastIn(r) = PinsLast(tabs[s], pinned)
    BY <2>2 DEF PinsLastIn, PinsLast
  <2>5. PinsLastIn(r)' = PinsLast(seq, pinned')
    BY <1>8, <2>2, Zenon DEF PinsLastIn, PinsLast
  <2> QED BY <2>2, <2>3, <2>4, <2>5
<1>10. ZonesKept
  BY <1>9, Zenon DEF ZonesKept
<1>11. SameTabs
  BY <1>8 DEF SameTabs
<1> QED BY <1>7, <1>10, <1>11 DEF TabsKept

LEMMA SelectTabKeeps ==
  ASSUME TabsInv, NEW s \in Sess, NEW i, SelectTab(s, i)
  PROVE  TabsKept /\ SameTabs
<1>1. s \in Range(sessions)
  BY CommandsIn DEF SelectTab, TabsInv
<1>2. /\ Reorder(s, tabs[s], i, active[s]) /\ UNCHANGED pinned
      /\ i \in 0..(Len(tabs[s]) - 1)
  BY DEF SelectTab
<1>3. active[s] \in Nat /\ tabs[s] \in Seq(Tabs) /\ IsInjective(tabs[s])
  BY <1>1, TabsOfSession
<1>4. pinned' \subseteq 1..made.tab
  BY <1>2 DEF TabsInv, TabsOK
<1>5. PICK q, l : q = tabs[s] /\ l = active[s]
  OBVIOUS
<1>6. /\ Reorder(s, q, i, l) /\ l \in Nat /\ q \in Seq(Tabs) /\ IsInjective(q)
      /\ Range(q) = Range(tabs[s]) /\ i \in 0..(Len(q) - 1) /\ q = tabs[s]
      /\ PinsLast(tabs[s], pinned) => PinsLast(q, pinned')
  BY <1>2, <1>3, <1>5
<1> QED BY <1>1, <1>4, <1>6, ReorderKeeps

\* A tab that moves inside its zone.
LEMMA MoveTabKeeps ==
  ASSUME TabsInv, NEW s \in Sess, NEW i \in Indices, NEW j \in Indices, MoveTab(s, i, j)
  PROVE  TabsKept /\ SameTabs
<1>1. s \in Range(sessions)
  BY CommandsIn DEF MoveTab, TabsInv
<1>2. PICK q, to, seq, l, a :
        /\ q = tabs[s] /\ to = Into(Zone(q, i), j) /\ seq = Moved(q, i, to)
        /\ l = last[s] /\ a = PosOf(seq, ActiveTab(s))
  OBVIOUS
<1>3. /\ Reorder(s, seq, a, l) /\ UNCHANGED pinned /\ i \in 0..(Len(q) - 1)
  BY <1>2 DEF MoveTab
<1>4. /\ q \in Seq(Tabs) /\ IsInjective(q) /\ l \in Nat /\ ActiveTab(s) \in Range(q)
  BY <1>1, <1>2, TabsOfSession
<1>5. /\ to \in 0..(Len(q) - 1)
      /\ i < FirstPinned(q) <=> to < FirstPinned(q)
  <2>1. j \in Int
    BY DEF Indices
  <2> QED BY <1>2, <1>3, <1>4, <2>1, IntoZone, Zenon
<1>6. /\ seq \in Seq(Tabs) /\ Len(seq) = Len(q)
      /\ \A k \in 1..Len(q) : seq[k] = q[Source(i, to, k)]
      /\ IsInjective(seq) /\ Range(seq) = Range(q)
  BY <1>2, <1>3, <1>4, <1>5, MovedIs
<1>7. a \in 0..(Len(seq) - 1) /\ seq[a + 1] = ActiveTab(s)
  BY <1>2, <1>4, <1>6, PosOfIs
<1>8. ASSUME PinsLast(q, pinned)
      PROVE  PinsLast(seq, pinned')
  <2>1. \A k \in 1..Len(q) : q[k] \in pinned <=> k > FirstPinned(q)
    BY <1>4, <1>8, ZonesAre
  <2>2. Len(q) \in Nat /\ FirstPinned(q) \in 0..Len(q)
    BY <1>4, FirstPinnedIs
  <2>3. \A k \in 1..Len(q) : Source(i, to, k) \in 1..Len(q)
    BY <1>3, <1>5, <2>2, SourceIs
  <2>4. \A k \in 1..Len(q) : Source(i, to, k) > FirstPinned(q) <=> k > FirstPinned(q)
    BY <1>3, <1>5, <2>2 DEF Source
  <2>5. \A k \in 1..Len(q) : seq[k] \in pinned <=> k > FirstPinned(q)
    BY <1>6, <2>1, <2>3, <2>4
  <2> QED BY <1>3, <1>6, <2>2, <2>5 DEF PinsLast
<1>9. pinned' \subseteq 1..made.tab
  BY <1>3 DEF TabsInv, TabsOK
<1> QED BY <1>1, <1>2, <1>3, <1>4, <1>6, <1>7, <1>8, <1>9, ReorderKeeps, Zenon

\* The active tab changes places with another one of its zone.
LEMMA SwapTabsKeeps ==
  ASSUME TabsInv, NEW s \in Sess, NEW j \in Indices, SwapTabs(s, j)
  PROVE  TabsKept /\ SameTabs
<1>1. s \in Range(sessions)
  BY CommandsIn DEF SwapTabs, TabsInv
<1>2. PICK q, b, seq, l :
        /\ q = tabs[s] /\ b = active[s] + 1 /\ l = last[s]
        /\ seq = [q EXCEPT ![j + 1] = q[b], ![b] = q[j + 1]]
  BY Zenon
<1>3. /\ q \in Seq(Tabs) /\ IsInjective(q) /\ l \in Nat /\ ActiveTab(s) = q[b]
      /\ b \in 1..Len(q) /\ b - 1 = active[s]
  <2>1. /\ tabs[s] \in Seq(Tabs) /\ IsInjective(tabs[s]) /\ last[s] \in Nat
        /\ Len(tabs[s]) \in Nat /\ active[s] \in 0..(Len(tabs[s]) - 1)
        /\ ActiveTab(s) = tabs[s][active[s] + 1]
    BY <1>1, TabsOfSession
  <2> QED BY <1>2, <2>1
<1>4. /\ Reorder(s, seq, j, l) /\ UNCHANGED pinned /\ j \in 0..(Len(q) - 1)
      /\ j \in Zone(q, b - 1)[1]..Zone(q, b - 1)[2]
  <2>1. /\ Reorder(s, [tabs[s] EXCEPT ![j + 1] = ActiveTab(s), ![active[s] + 1] = At(tabs[s], j)],
                   j, last[s])
        /\ UNCHANGED pinned /\ j \in 0..(Len(tabs[s]) - 1)
        /\ j \in Zone(tabs[s], active[s])[1]..Zone(tabs[s], active[s])[2]
    BY DEF SwapTabs
  <2>2. seq = [tabs[s] EXCEPT ![j + 1] = ActiveTab(s), ![active[s] + 1] = At(tabs[s], j)]
    BY <1>2, <1>3 DEF At
  <2> QED BY <1>2, <1>3, <2>1, <2>2, Zenon
<1>5. j + 1 \in 1..Len(q)
  BY <1>3, <1>4
<1>6. /\ seq \in Seq(Tabs) /\ Len(seq) = Len(q)
      /\ \A k \in 1..Len(q) : seq[k] = q[IF k = b THEN j + 1 ELSE IF k = j + 1 THEN b ELSE k]
      /\ IsInjective(seq) /\ Range(seq) = Range(q)
  BY <1>2, <1>3, <1>5, SwappedIs
<1>7. seq[j + 1] = ActiveTab(s) /\ j \in 0..(Len(seq) - 1)
  BY <1>3, <1>4, <1>5, <1>6
<1>8. ASSUME PinsLast(q, pinned)
      PROVE  PinsLast(seq, pinned')
  <2>1. \A k \in 1..Len(q) : q[k] \in pinned <=> k > FirstPinned(q)
    BY <1>3, <1>8, ZonesAre
  <2>2. Len(q) \in Nat /\ FirstPinned(q) \in 0..Len(q)
    BY <1>3, FirstPinnedIs
  <2>3. b > FirstPinned(q) <=> j + 1 > FirstPinned(q)
    <3>1. CASE b - 1 < FirstPinned(q)
      <4>1. Zone(q, b - 1)[2] = FirstPinned(q) - 1
        BY <3>1 DEF Zone
      <4> QED BY <1>3, <1>4, <2>2, <3>1, <4>1
    <3>2. CASE ~(b - 1 < FirstPinned(q))
      <4>1. Zone(q, b - 1)[1] = FirstPinned(q)
        BY <3>2 DEF Zone
      <4> QED BY <1>3, <1>4, <2>2, <3>2, <4>1
    <3> QED BY <3>1, <3>2
  <2>5. \A k \in 1..Len(q) : seq[k] \in pinned <=> k > FirstPinned(q)
    BY <1>3, <1>5, <1>6, <2>1, <2>2, <2>3
  <2> QED BY <1>4, <1>6, <2>2, <2>5 DEF PinsLast
<1>9. pinned' \subseteq 1..made.tab
  BY <1>4 DEF TabsInv, TabsOK
<1> QED BY <1>1, <1>2, <1>3, <1>4, <1>6, <1>7, <1>8, <1>9, ReorderKeeps, Zenon

\* A sequence of distinct elements is as long as there are elements.
LEMMA DistinctCount ==
  ASSUME NEW S, NEW q \in Seq(S), IsInjective(q)
  PROVE  Cardinality(Range(q)) = Len(q)
<1> DEFINE n == Len(q)  R == Range(q)
<1>1. n \in Nat /\ DOMAIN q = 1..n /\ q \in [1..n -> S]
  OBVIOUS
<1> HIDE DEF n
<1>2. q \in Bijection(1..n, R)
  <2>1. q \in [1..n -> R]
    BY <1>1 DEF Range
  <2>2. \A a, b \in 1..n : q[a] = q[b] => a = b
    BY <1>1 DEF IsInjective
  <2>3. \A t \in R : \E a \in 1..n : q[a] = t
    BY <1>1 DEF Range
  <2> HIDE DEF R
  <2> QED BY <2>1, <2>2, <2>3 DEF Bijection, Injection, Surjection, IsInjective
<1> HIDE DEF R
<1>3. IsFiniteSet(1..n) /\ Cardinality(1..n) = n
  BY <1>1, FS_Interval
<1>4. ExistsBijection(1..n, R)
  BY <1>2 DEF ExistsBijection
<1>5. Cardinality(R) = n
  BY <1>3, <1>4, FS_Bijection
<1> QED BY <1>5 DEF R, n

\* set_pinned and toggle_pin divide the tabs again: those that are not pinned
\* first, in their order, then those that are.
Divided(q, pins) == Selected(q, Tabs \ pins) \o Selected(q, pins)

LEMMA DividedIs ==
  ASSUME NEW q \in Seq(Tabs), IsInjective(q), NEW pins,
         NEW r, r = Divided(q, pins)
  PROVE  /\ r \in Seq(Tabs) /\ IsInjective(r) /\ Range(r) = Range(q)
         /\ PinsLast(r, pins)
<1> DEFINE a == Selected(q, Tabs \ pins)  b == Selected(q, pins)
<1>1. a = Picked(q, Tabs \ pins) /\ b = Picked(q, pins)
  BY Zenon DEF Selected, Picked
<1> DEFINE loose == Tabs \ pins
<1>2. /\ a \in Seq(Tabs \cap loose) /\ ToSet(a) = ToSet(q) \cap loose /\ IsInjective(a)
  <2> HIDE DEF a, loose
  <2>1. a = Picked(q, loose)
    BY <1>1 DEF loose
  <2> QED BY <2>1, PickedIs
<1>3. /\ b \in Seq(Tabs \cap pins) /\ ToSet(b) = ToSet(q) \cap pins /\ IsInjective(b)
  <2> HIDE DEF b
  <2> QED BY <1>1, PickedIs
<1>4. r = a \o b
  BY DEF Divided
<1> HIDE DEF a, b
<1>5. a \in Seq(Tabs) /\ b \in Seq(Tabs)
  <2>1. Tabs \cap loose \subseteq Tabs /\ Tabs \cap pins \subseteq Tabs
    OBVIOUS
  <2> HIDE DEF loose
  <2> QED BY <1>2, <1>3, <2>1, SeqMonotonic
<1>6. /\ r \in Seq(Tabs) /\ Len(r) = Len(a) + Len(b)
      /\ \A i \in 1..(Len(a) + Len(b)) : r[i] = IF i <= Len(a) THEN a[i] ELSE b[i - Len(a)]
  BY <1>4, <1>5, ConcatProperties
<1>7. Range(r) = Range(q)
  <2>1. Range(r) = Range(a) \cup Range(b)
    BY <1>4, <1>5, RangeConcatenation
  <2>2. Range(a) = Range(q) \cap loose /\ Range(b) = Range(q) \cap pins
    BY <1>2, <1>3, Zenon DEF Range, ToSet
  <2>3. Range(q) \subseteq Tabs
    BY DEF Range
  <2> QED BY <2>1, <2>2, <2>3
<1> DEFINE m == Len(a)  n == Len(b)
<1>8. /\ m \in Nat /\ n \in Nat /\ DOMAIN a = 1..m /\ DOMAIN b = 1..n
      /\ \A i \in 1..m : a[i] \notin pins
      /\ \A i \in 1..n : b[i] \in pins
      /\ DOMAIN r = 1..(m + n)
  <2>1. m \in Nat /\ n \in Nat /\ DOMAIN a = 1..m /\ DOMAIN b = 1..n
    BY <1>5
  <2>2. \A i \in 1..m : a[i] \in loose
    BY <1>2
  <2>3. \A i \in 1..n : b[i] \in pins
    BY <1>3
  <2> QED BY <1>6, <2>1, <2>2, <2>3
<1>9. /\ \A i, j \in 1..m : a[i] = a[j] => i = j
      /\ \A i, j \in 1..n : b[i] = b[j] => i = j
  BY <1>2, <1>3, <1>8, Zenon DEF IsInjective
<1> HIDE DEF m, n, loose
<1>10. ASSUME NEW i \in 1..(m + n)
       PROVE  /\ i <= m => i \in 1..m /\ r[i] = a[i] /\ r[i] \notin pins
              /\ i > m => i - m \in 1..n /\ r[i] = b[i - m] /\ r[i] \in pins
  <2>1. i \in 1..(Len(a) + Len(b)) /\ r[i] = IF i <= m THEN a[i] ELSE b[i - m]
    BY <1>6 DEF m, n
  <2>2. i <= m => i \in 1..m
    BY <1>8
  <2>3. i > m => i - m \in 1..n /\ ~(i <= m)
    BY <1>8
  <2> QED BY <1>8, <2>1, <2>2, <2>3
<1>13. \A i \in 1..(m + n) : r[i] \in pins <=> i > m
  BY <1>8, <1>10
<1>11. IsInjective(r)
  <2> SUFFICES ASSUME NEW i \in 1..(m + n), NEW j \in 1..(m + n), r[i] = r[j] PROVE i = j
    BY <1>8 DEF IsInjective
  <2>1. CASE i <= m
    <3>1. ~(j > m) /\ ~(i > m)
      BY <1>8, <1>13, <2>1
    <3>2. /\ i \in 1..m /\ r[i] = a[i]
          /\ j \in 1..m /\ r[j] = a[j]
      BY <1>8, <1>10, <3>1
    <3> QED BY <1>9, <3>2, Zenon
  <2>2. CASE i > m
    <3>1. j > m
      BY <1>8, <1>13, <2>2
    <3>2. /\ i - m \in 1..n /\ r[i] = b[i - m]
          /\ j - m \in 1..n /\ r[j] = b[j - m]
      BY <1>10, <2>2, <3>1
    <3>3. i - m = j - m
      BY <1>9, <3>2, Zenon
    <3> QED BY <1>8, <3>3
  <2> QED BY <1>8, <2>1, <2>2
<1>12. PinsLast(r, pins)
  <2> SUFFICES ASSUME NEW i \in 1..(m + n), NEW j \in 1..(m + n), i < j, r[i] \in pins
               PROVE  r[j] \in pins
    BY <1>6 DEF PinsLast, m, n
  <2>1. i > m
    BY <1>13
  <2>2. j > m
    BY <1>8, <2>1
  <2> QED BY <1>13, <2>2
<1> QED BY <1>6, <1>7, <1>11, <1>12

LEMMA SetPinnedKeeps ==
  ASSUME TabsInv, NEW s \in Sess, NEW i \in Indices, NEW value \in BOOLEAN, SetPinned(s, i, value)
  PROVE  TabsKept /\ SameTabs
<1>1. s \in Range(sessions)
  BY CommandsIn DEF SetPinned, TabsInv
<1>2. PICK q, pins, seq, l, a :
        /\ q = tabs[s] /\ pins = pinned'
        /\ seq = Divided(q, pins)
        /\ l = IF last[s] < Len(seq) THEN PosOf(seq, At(tabs[s], last[s])) ELSE last[s]
        /\ a = PosOf(seq, ActiveTab(s))
  OBVIOUS
<1>3. /\ q \in Seq(Tabs) /\ IsInjective(q) /\ last[s] \in Nat /\ ActiveTab(s) \in Range(q)
      /\ q \in [1..Len(q) -> Tabs] /\ Len(q) \in Nat
      /\ Range(q) \subseteq 1..made.tab
  BY <1>1, <1>2, TabsOfSession
<1>4. /\ Reorder(s, seq, a, l) /\ i \in 0..(Len(q) - 1)
      /\ pins = IF value THEN pinned \cup {At(q, i)} ELSE pinned \ {At(q, i)}
  <2>1. LET ordered == Selected(tabs[s], Tabs \ pinned') \o Selected(tabs[s], pinned')
        IN Reorder(s, ordered, PosOf(ordered, ActiveTab(s)),
                   IF last[s] < Len(ordered) THEN PosOf(ordered, At(tabs[s], last[s])) ELSE last[s])
    BY Zenon DEF SetPinned
  <2>4. seq = Selected(q, Tabs \ pins) \o Selected(q, pins)
    BY <1>2 DEF Divided
  <2>2. i \in 0..(Len(tabs[s]) - 1)
    BY DEF SetPinned
  <2>3. pinned' = IF value THEN pinned \cup {At(tabs[s], i)} ELSE pinned \ {At(tabs[s], i)}
    BY DEF SetPinned
  <2> QED BY <1>2, <2>1, <2>2, <2>3, <2>4, Zenon
<1>5. /\ seq \in Seq(Tabs) /\ IsInjective(seq) /\ Range(seq) = Range(q)
      /\ PinsLast(seq, pins)
  BY <1>2, <1>3, DividedIs
<1>6. a \in 0..(Len(seq) - 1) /\ seq[a + 1] = ActiveTab(s)
  BY <1>2, <1>3, <1>5, PosOfIs
<1>7. pinned' \subseteq 1..made.tab
  <2>1. At(q, i) \in Range(q)
    <3>1. i + 1 \in DOMAIN q
      BY <1>3, <1>4
    <3> QED BY <3>1 DEF At, Range
  <2>2. pinned \subseteq 1..made.tab
    BY DEF TabsInv, TabsOK
  <2> QED BY <1>2, <1>3, <1>4, <2>1, <2>2, Zenon
<1>8. l \in Nat
  <2>1. CASE last[s] < Len(seq)
    <3>1. Cardinality(Range(seq)) = Len(seq) /\ Cardinality(Range(q)) = Len(q)
      BY <1>3, <1>5, DistinctCount
    <3>2. last[s] + 1 \in DOMAIN q
      BY <1>3, <1>5, <2>1, <3>1
    <3>3. At(q, last[s]) \in Range(seq)
      BY <1>5, <3>2, Zenon DEF At, Range
    <3>4. l = PosOf(seq, At(q, last[s]))
      BY <1>2, <2>1
    <3> QED BY <1>5, <3>3, <3>4, PosOfIs
  <2>2. CASE ~(last[s] < Len(seq))
    BY <1>2, <1>3, <2>2
  <2> QED BY <2>1, <2>2
<1> QED BY <1>1, <1>2, <1>3, <1>4, <1>5, <1>6, <1>7, <1>8, ReorderKeeps, Zenon

-----------------------------------------------------------------------------
(* Tabs that come and go.                                                  *)

LEMMA NothingMade ==
  ASSUME TabsInv, UNCHANGED made
  PROVE  Later
BY DEF TabsInv, RegistryInv, RegistryOK, Later, Counts

LEMMA MadeLater ==
  ASSUME TabsInv, NEW np \in Nat, NEW nt \in Nat, NEW ns \in Nat, Made(np, nt, ns)
  PROVE  Later /\ made'.tab = made.tab + nt /\ made'.sess = made.sess + ns
BY DEF TabsInv, RegistryInv, RegistryOK, Later, Counts, Made

LEMMA PinsGrow ==
  ASSUME TabsInv, Later
  PROVE  1..made.tab \subseteq 1..made'.tab /\ pinned \subseteq 1..made'.tab
<1>1. /\ made.tab \in Nat /\ made'.tab \in Nat /\ made'.tab >= made.tab
      /\ pinned \subseteq 1..made.tab
  BY DEF TabsInv, TabsOK, RegistryInv, RegistryOK, Later, Counts
<1>2. 1..made.tab \subseteq 1..made'.tab
  BY <1>1
<1> QED BY <1>1, <1>2

\* A step on panes only.
LEMMA PanesOnly ==
  ASSUME TabsInv, UNCHANGED <<sessions, tabs, active, last, pinned>>, Later
  PROVE  TabsKept
BY PinsGrow, TabsAlone

\* Tabs taken from a session, all of them perhaps.
LEMMA DroppedKeeps ==
  ASSUME TabsInv, NEW s \in Range(sessions), NEW q \in Seq(Tabs), IsInjective(q),
         Range(q) \subseteq Range(tabs[s]), Range(q) # Range(tabs[s]),
         NEW a \in Nat, SetTabs(s, q, a), UNCHANGED <<last, made>>, pinned' \subseteq pinned
  PROVE  TabsKept
<1>1. Later
  BY NothingMade
<1>2. PICK b : b = Clamped(a, q)
  OBVIOUS
<1>3. b \in Nat /\ (q # <<>> => b < Len(q))
  <2>1. CASE q = <<>>
    BY <1>2, <2>1 DEF Clamped
  <2>2. CASE q # <<>>
    <3>1. Len(q) \in Nat /\ Len(q) > 0
      BY <2>2
    <3> QED BY <1>2, <2>2, <3>1 DEF Clamped
  <2> QED BY <2>1, <2>2
<1>4. Turned(s, q, b)
  <2>1. /\ tabs' = [tabs EXCEPT ![s] = q]
        /\ active' = [active EXCEPT ![s] = b]
        /\ sessions' = IF q = <<>> THEN Without(sessions, s) ELSE sessions
    BY <1>2 DEF SetTabs
  <2>2. last' \in [Sess -> Nat]
    BY DEF TabsInv, TabsOK
  <2>3. pinned' \subseteq 1..made'.tab
    BY <1>1, PinsGrow
  <2> QED BY <1>3, <2>1, <2>2, <2>3 DEF Turned
<1> QED BY <1>1, <1>4, OtherTabsKeeps

\* One tab that goes.
LEMMA TabGoes ==
  ASSUME TabsInv, NEW s \in Range(sessions), NEW t \in Range(tabs[s]),
         SetTabs(s, Without(tabs[s], t), active[s]), UNCHANGED <<last, made>>,
         pinned' \subseteq pinned
  PROVE  TabsKept
<1>1. PICK q, a : q = Without(tabs[s], t) /\ a = active[s]
  OBVIOUS
<1>2. tabs[s] \in Seq(Tabs) /\ IsInjective(tabs[s]) /\ a \in Nat
  BY <1>1, TabsOfSession
<1>3. q \in Seq(Tabs) /\ IsInjective(q) /\ Range(q) = Range(tabs[s]) \ {t}
  BY <1>1, <1>2, WithoutKeepsOthers
<1>4. SetTabs(s, q, a)
  BY <1>1
<1> QED BY <1>2, <1>3, <1>4, DroppedKeeps

\* Where a shell ends: in a popup, beside other panes, or with its tab.
LEMMA PaneEofTabs ==
  ASSUME TabsInv, NEW STATE p, PaneEof(p)
  PROVE  TabsKept
<1>1. UNCHANGED made /\ Later
  BY NothingMade DEF PaneEof
<1>2. CASE LeavesPopup(p)
  BY <1>1, <1>2, PanesOnly DEF LeavesPopup
<1>3. CASE LeavesWindow(p)
  BY <1>1, <1>3, PanesOnly DEF LeavesWindow, sessVars
<1>4. CASE LeavesTab(p)
  <2>1. PICK t \in HomesOf(p) :
          /\ SetTabs(SessionOf(t), Without(tabs[SessionOf(t)], t), active[SessionOf(t)])
          /\ pinned' = pinned \ {t}
    BY <1>4 DEF LeavesTab
  <2>2. PICK s : s = SessionOf(t)
    OBVIOUS
  <2>3. s \in Range(sessions) /\ t \in Range(tabs[s])
    <3>1. \E r \in Range(sessions) : t \in Range(tabs[r])
      BY DEF HomesOf, OpenTabs
    <3> QED BY <2>2, <3>1 DEF SessionOf
  <2>4. SetTabs(s, Without(tabs[s], t), active[s])
    BY <2>1, <2>2
  <2>5. pinned' \subseteq pinned /\ UNCHANGED last
    BY <1>4, <2>1 DEF LeavesTab
  <2> QED BY <1>1, <2>3, <2>4, <2>5, TabGoes
<1>5. CASE UNCHANGED <<running, sessVars, pinned, tree, views>>
  BY <1>1, <1>5, PanesOnly DEF sessVars
<1> QED BY <1>2, <1>3, <1>4, <1>5 DEF PaneEof

LEMMA KillTabKeeps ==
  ASSUME TabsInv, NEW s \in Sess, KillTab(s)
  PROVE  TabsKept
<1>1. s \in Range(sessions)
  BY CommandsIn DEF KillTab, TabsInv
<1>2. ActiveTab(s) \in Range(tabs[s])
  BY <1>1, TabsOfSession
<1>3. PICK t : t = ActiveTab(s)
  OBVIOUS
<1>4. /\ SetTabs(s, Without(tabs[s], t), active[s]) /\ pinned' = pinned \ {t}
      /\ UNCHANGED <<last, made>>
  BY <1>3 DEF KillTab
<1> QED BY <1>1, <1>2, <1>3, <1>4, TabGoes

LEMMA KillSessionKeeps ==
  ASSUME TabsInv, NEW s \in Sess, KillSession(s)
  PROVE  TabsKept
<1>1. /\ s \in Range(sessions) /\ SetTabs(s, <<>>, 0) /\ UNCHANGED <<last, made>>
      /\ pinned' \subseteq pinned
  BY DEF KillSession
<1>2. tabs[s] \in Seq(Tabs) /\ tabs[s] # <<>>
  BY <1>1, TabsOfSession
<1>3. Range(tabs[s]) # {}
  BY <1>2, EmptyRange
<1>4. PICK q : q = <<>>
  OBVIOUS
<1>5. q \in Seq(Tabs) /\ IsInjective(q) /\ Range(q) = {}
  BY <1>4 DEF IsInjective, Range
<1>6. SetTabs(s, q, 0)
  BY <1>1, <1>4
<1> QED BY <1>1, <1>3, <1>5, <1>6, DroppedKeeps

\* A new element put at the end.
LEMMA AppendKeeps ==
  ASSUME NEW S, NEW q \in Seq(S), IsInjective(q), NEW e \in S, e \notin Range(q)
  PROVE  /\ Append(q, e) \in Seq(S) /\ Append(q, e) # <<>>
         /\ Len(Append(q, e)) = Len(q) + 1
         /\ IsInjective(Append(q, e))
         /\ Range(Append(q, e)) = Range(q) \cup {e}
<1> DEFINE r == Append(q, e)  n == Len(q)
<1>1. /\ r \in Seq(S) /\ Len(r) = n + 1 /\ n \in Nat /\ DOMAIN q = 1..n /\ DOMAIN r = 1..(n + 1)
      /\ \A i \in 1..n : r[i] = q[i]
      /\ r[n + 1] = e
  OBVIOUS
<1> HIDE DEF r, n
<1>2. \A i \in 1..n : q[i] # e
  BY <1>1 DEF Range
<1>3. \A a, b \in 1..n : q[a] = q[b] => a = b
  BY <1>1 DEF IsInjective
<1>4. \A a, b \in 1..(n + 1) : r[a] = r[b] => a = b
  BY <1>1, <1>2, <1>3
<1>5. Range(r) \subseteq Range(q) \cup {e}
  <2> SUFFICES ASSUME NEW k \in 1..(n + 1) PROVE r[k] \in Range(q) \cup {e}
    BY <1>1 DEF Range
  <2>1. CASE k \in 1..n
    BY <1>1, <2>1 DEF Range
  <2>2. CASE k = n + 1
    BY <1>1, <2>2
  <2> QED BY <1>1, <2>1, <2>2
<1>6. Range(q) \cup {e} \subseteq Range(r)
  BY AppendAdds DEF r
<1>7. r # <<>>
  BY <1>1
<1> QED BY <1>1, <1>4, <1>5, <1>6, <1>7 DEF IsInjective, r, n

\* A new tab put at the end of the list becomes the active one.
LEMMA AppendedTabKeeps ==
  ASSUME TabsInv, NEW s \in Sess, s \in Range(sessions), NEW n \in Nat, CanMake(n, 1, 0), Made(n, 1, 0),
         tabs' = [tabs EXCEPT ![s] = Append(@, made.tab + 1)],
         active' = [active EXCEPT ![s] = Len(tabs[s])],
         last' \in [Sess -> Nat],
         UNCHANGED <<sessions, pinned>>
  PROVE  TabsKept
<1>1. Later /\ made'.tab = made.tab + 1
  BY MadeLater
<1>2. PICK q, u, a : q = Append(tabs[s], u) /\ u = made.tab + 1 /\ a = Len(tabs[s])
  BY Zenon
<1>3. made.tab \in Nat
  BY DEF TabsInv, RegistryInv, RegistryOK, Counts
<1>4. u \in Tabs /\ u \notin 1..made.tab
  BY <1>2, <1>3 DEF CanMake, Tabs
<1>5. /\ tabs[s] \in Seq(Tabs) /\ IsInjective(tabs[s]) /\ Range(tabs[s]) \subseteq 1..made.tab
      /\ a \in Nat
  BY <1>2, TabsOfSession
<1>6. u \notin Range(tabs[s])
  BY <1>4, <1>5
<1>7. /\ q \in Seq(Tabs) /\ q # <<>> /\ Len(q) = a + 1 /\ IsInjective(q)
      /\ Range(q) = Range(tabs[s]) \cup {u}
  BY <1>2, <1>4, <1>5, <1>6, AppendKeeps, Zenon
<1>8. Turned(s, q, a)
  <2>1. Range(q) \subseteq Range(tabs[s]) \cup (made.tab + 1)..made'.tab
    <3>1. u \in (made.tab + 1)..made'.tab
      BY <1>1, <1>2, <1>3
    <3> QED BY <1>7, <3>1
  <2>2. tabs' = [tabs EXCEPT ![s] = q]
    BY <1>2
  <2>3. active' = [active EXCEPT ![s] = a]
    BY <1>2
  <2>4. pinned' \subseteq 1..made'.tab
    BY <1>1, PinsGrow
  <2>5. a < Len(q)
    BY <1>5, <1>7
  <2> QED BY <1>5, <1>7, <2>1, <2>2, <2>3, <2>4, <2>5, Zenon DEF Turned
<1>9. Range(q) # Range(tabs[s])
  BY <1>6, <1>7
<1> QED BY <1>1, <1>8, <1>9, OtherTabsKeeps

LEMMA BreakPaneKeeps ==
  ASSUME TabsInv, NEW s \in Sess, BreakPane(s)
  PROVE  TabsKept
<1>1. s \in Range(sessions)
  BY CommandsIn DEF BreakPane, TabsInv
<1>2. last' \in [Sess -> Nat]
  BY DEF BreakPane, TabsInv, TabsOK
<1> QED BY <1>1, <1>2, AppendedTabKeeps, Zenon DEF BreakPane

LEMMA LoadLayoutNewKeeps ==
  ASSUME TabsInv, NEW s \in Sess, NEW n \in 1..2, LoadLayoutNew(s, n)
  PROVE  TabsKept
<1>1. s \in Range(sessions)
  BY CommandsIn DEF LoadLayoutNew, TabsInv
<1>2. last' \in [Sess -> Nat]
  <2>1. active[s] \in Nat /\ last \in [Sess -> Nat]
    BY DEF TabsInv, TabsOK
  <2> QED BY <2>1 DEF LoadLayoutNew
<1>3. n \in Nat
  OBVIOUS
<1> QED BY <1>1, <1>2, <1>3, AppendedTabKeeps, Zenon DEF LoadLayoutNew

\* A pane that moves to another tab of the session, with its own tab if it
\* was the only one there.
LEMMA CarryKeeps ==
  ASSUME TabsInv, NEW s \in Sess, s \in Range(sessions), NEW p, NEW from \in Range(tabs[s]),
         NEW to \in Range(tabs[s]), from # to, Carry(s, p, from, to)
  PROVE  TabsKept
<1>1. PICK only, q, a :
        /\ only = (tree.up[p] = None)
        /\ q = IF only THEN Without(tabs[s], from) ELSE tabs[s]
        /\ a = PosOf(q, to)
  OBVIOUS
<1>2. /\ tabs' = [tabs EXCEPT ![s] = q] /\ active' = [active EXCEPT ![s] = a]
      /\ pinned' = IF only THEN pinned \ {from} ELSE pinned
      /\ UNCHANGED <<sessions, last, made>>
  BY <1>1, Zenon DEF Carry
<1>3. Later
  BY <1>2, NothingMade
<1>4. tabs[s] \in Seq(Tabs) /\ IsInjective(tabs[s])
  BY TabsOfSession
<1>5. /\ q \in Seq(Tabs) /\ IsInjective(q)
      /\ Range(q) = IF only THEN Range(tabs[s]) \ {from} ELSE Range(tabs[s])
  BY <1>1, <1>4, WithoutKeepsOthers, Zenon
<1>6. to \in Range(q)
  BY <1>5
<1>7. a \in 0..(Len(q) - 1) /\ q # <<>> /\ Len(q) \in Nat
  <2>1. a \in 0..(Len(q) - 1)
    BY <1>1, <1>5, <1>6, PosOfIs
  <2>2. Len(q) \in Nat
    BY <1>5
  <2>3. q # <<>>
    BY <1>5, <1>6, EmptyRange
  <2> QED BY <2>1, <2>2, <2>3
<1>8. Turned(s, q, a)
  <2>1. pinned' \subseteq 1..made'.tab
    BY <1>2, <1>3, PinsGrow
  <2>2. last' \in [Sess -> Nat]
    BY <1>2 DEF TabsInv, TabsOK
  <2>3. a \in Nat /\ a < Len(q)
    BY <1>7
  <2>4. Range(q) \subseteq Range(tabs[s]) \cup (made.tab + 1)..made'.tab
    BY <1>5
  <2>5. sessions' = IF q = <<>> THEN Without(sessions, s) ELSE sessions
    BY <1>2, <1>7
  <2> QED BY <1>2, <1>5, <2>1, <2>2, <2>3, <2>4, <2>5 DEF Turned
<1>9. CASE only
  BY <1>3, <1>5, <1>8, <1>9, OtherTabsKeeps
<1>10. CASE ~only
  <2>1. tabs' = tabs
    <3>1. tabs \in [Sess -> Seq(Tabs)]
      BY DEF TabsInv, TabsOK
    <3> QED BY <1>1, <1>2, <1>10, <3>1
  <2>2. ZonesKept
    BY <2>1 DEF ZonesKept
  <2> QED BY <1>3, <1>8, <2>2, TurnedKeeps DEF TabsKept
<1> QED BY <1>1, <1>9, <1>10

LEMMA PaneMovesKeeps ==
  ASSUME TabsInv, NEW s \in Sess, NEW i \in Indices,
         JoinPane(s, i) \/ \E p \in Panes : MovePaneToTab(s, p, i)
  PROVE  TabsKept
<1>1. s \in Range(sessions)
  BY CommandsIn DEF JoinPane, MovePaneToTab, TabsInv
<1>2. i \in 0..(Len(tabs[s]) - 1) \ {active[s]}
  BY DEF JoinPane, MovePaneToTab
<1>3. /\ tabs[s] \in Seq(Tabs) /\ IsInjective(tabs[s])
      /\ active[s] \in 0..(Len(tabs[s]) - 1)
      /\ ActiveTab(s) = tabs[s][active[s] + 1] /\ ActiveTab(s) \in Range(tabs[s])
  BY <1>1, TabsOfSession
<1>4. PICK q, a, t, u : q = tabs[s] /\ a = active[s] /\ t = At(tabs[s], i) /\ u = ActiveTab(s)
  OBVIOUS
<1>5. t \in Range(q) /\ u \in Range(q) /\ t # u
  <2>1. i + 1 \in DOMAIN q /\ a + 1 \in DOMAIN q /\ i + 1 # a + 1
    BY <1>2, <1>3, <1>4
  <2>2. t = q[i + 1] /\ u = q[a + 1]
    BY <1>3, <1>4 DEF At
  <2> QED BY <1>3, <1>4, <2>1, <2>2 DEF Range, IsInjective
<1>6. CASE JoinPane(s, i)
  <2>1. PICK p : p = tree.act[t]
    OBVIOUS
  <2>2. Carry(s, p, t, u)
    BY <1>4, <1>6, <2>1 DEF JoinPane
  <2> QED BY <1>1, <1>4, <1>5, <2>2, CarryKeeps
<1>7. ASSUME NEW p \in Panes, MovePaneToTab(s, p, i)
      PROVE  TabsKept
  <2>1. Carry(s, p, u, t)
    BY <1>4, <1>7 DEF MovePaneToTab
  <2> QED BY <1>1, <1>4, <1>5, <2>1, CarryKeeps
<1> QED BY <1>6, <1>7

\* A new tab goes before the pinned ones; last follows the tab that was active.
LEMMA OpenTabKeeps ==
  ASSUME TabsInv, NEW s \in Sess, s \in Range(sessions), NEW p, CanMake(1, 1, 0),
         OpenTab(s, p, made.tab + 1), UNCHANGED pinned
  PROVE  TabsKept
<1>1. Later /\ made'.tab = made.tab + 1
  BY MadeLater DEF OpenTab
<1>2. PICK o, q, u, a :
        /\ o = tabs[s] /\ u = made.tab + 1 /\ a = FirstPinned(o)
        /\ q = InsertAt(o, a + 1, u)
  OBVIOUS
<1>3. made.tab \in Nat
  BY DEF TabsInv, RegistryInv, RegistryOK, Counts
<1>4. u \in Tabs /\ u \notin 1..made.tab /\ u \in (made.tab + 1)..made'.tab
  BY <1>1, <1>2, <1>3 DEF CanMake, Tabs
<1>5. /\ o \in Seq(Tabs) /\ IsInjective(o) /\ Range(o) \subseteq 1..made.tab
      /\ ActiveTab(s) \in Range(o) /\ Len(o) \in Nat
  BY <1>2, TabsOfSession
<1>6. a \in 0..Len(o)
  BY <1>2, <1>5, FirstPinnedIs
<1>7. u \notin Range(o) /\ a + 1 \in 1..(Len(o) + 1)
  BY <1>4, <1>5, <1>6
<1>8. /\ q \in Seq(Tabs) /\ IsInjective(q) /\ Range(q) = Range(o) \cup {u} /\ Len(q) = Len(o) + 1
  <2>1. q \in Seq(Tabs) /\ Grown(q, o, a + 1, u)
    BY <1>2, <1>4, <1>5, <1>7, InsertedIs
  <2>2. IsInjective(q) /\ Range(q) = Range(o) \cup {u}
    BY <1>2, <1>4, <1>5, <1>7, InsertedKeeps
  <2> QED BY <2>1, <2>2 DEF Grown
<1>9. PICK l : l = PosOf(q, ActiveTab(s))
  OBVIOUS
<1>10. l \in Nat
  BY <1>5, <1>8, <1>9, PosOfIs
<1>11. /\ tabs' = [tabs EXCEPT ![s] = q] /\ active' = [active EXCEPT ![s] = a]
       /\ last' = [last EXCEPT ![s] = l] /\ UNCHANGED sessions
  BY <1>2, <1>9 DEF OpenTab
<1>12. Turned(s, q, a)
  <2>1. pinned' \subseteq 1..made'.tab
    BY <1>1, PinsGrow
  <2>2. last' \in [Sess -> Nat]
    BY <1>10, <1>11 DEF TabsInv, TabsOK
  <2>3. a \in Nat /\ a < Len(q)
    BY <1>5, <1>6, <1>8
  <2>4. Range(q) \subseteq Range(tabs[s]) \cup (made.tab + 1)..made'.tab
    BY <1>2, <1>4, <1>8
  <2>5. q # <<>>
    BY <1>5, <1>8
  <2> QED BY <1>8, <1>11, <2>1, <2>2, <2>3, <2>4, <2>5 DEF Turned
<1>13. Range(q) # Range(tabs[s])
  BY <1>2, <1>7, <1>8
<1> QED BY <1>1, <1>12, <1>13, OtherTabsKeeps

\* A session that is opened has a number of its own, and so have its tabs.
LEMMA OpenedKeeps ==
  ASSUME TabsInv, NEW ts \in Seq(Tabs), IsInjective(ts), ts # <<>>,
         Range(ts) = (made.tab + 1)..(made.tab + Len(ts)), OpenSession(ts),
         made.sess + 1 \in Sess, pinned' \subseteq pinned \cup {made.tab + 1}
  PROVE  TabsKept
<1> DEFINE s == made.sess + 1  n == Len(ts)
<1>1. n \in Nat /\ n > 0
  OBVIOUS
<1>2. Later /\ made'.tab = made.tab + n /\ made'.sess = s
  BY <1>1, MadeLater, Zenon DEF OpenSession
<1>3. made.tab \in Nat /\ made.sess \in Nat
  BY DEF TabsInv, RegistryInv, RegistryOK, Counts
<1>4. /\ tabs \in [Sess -> Seq(Tabs)] /\ active \in [Sess -> Nat] /\ last \in [Sess -> Nat]
      /\ \A r \in Sess : SessionOK(r)
      /\ \A r, q \in Sess : r # q => Range(tabs[r]) \cap Range(tabs[q]) = {}
      /\ sessions \in Seq(Sess) /\ IsInjective(sessions)
  BY DEF TabsInv, TabsOK, RegistryInv, RegistryOK
<1>5. s \in Sess /\ s \notin Range(sessions)
  <2>1. ~(s <= made.sess)
    BY <1>3
  <2> QED BY <1>4, <2>1 DEF SessionOK
<1>6. /\ sessions' = Append(sessions, s)
      /\ tabs' = [tabs EXCEPT ![s] = ts]
      /\ active' = [active EXCEPT ![s] = n - 1]
      /\ UNCHANGED last
  BY Zenon DEF OpenSession
<1> HIDE DEF s, n
<1>7. IsInjective(sessions') /\ Range(sessions') = Range(sessions) \cup {s}
  BY <1>4, <1>5, <1>6, AppendKeeps
<1>8. /\ tabs'[s] = ts /\ active'[s] = n - 1
      /\ \A r \in Sess : r # s => tabs'[r] = tabs[r] /\ active'[r] = active[r]
  BY <1>4, <1>5, <1>6
<1>9. 1..made.tab \subseteq 1..made'.tab
  BY <1>2, PinsGrow
<1>10. Range(ts) \subseteq 1..made'.tab /\ Range(ts) \cap 1..made.tab = {} /\ made.tab + 1 \in 1..made'.tab
  <2>1. Range(ts) = (made.tab + 1)..(made.tab + n)
    BY DEF n
  <2> QED BY <1>1, <1>2, <1>3, <2>1
<1>11. ASSUME NEW r \in Sess
       PROVE  SessionOK(r)'
  <2>1. SessionOK(r)
    BY <1>4
  <2>2. CASE r = s
    <3>1. n - 1 < Len(ts)
      BY <1>1 DEF n
    <3>2. r <= made'.sess
      BY <1>2, <1>3, <2>2 DEF s
    <3>3. IsInjective(tabs'[r]) /\ Range(tabs'[r]) \subseteq 1..made'.tab /\ tabs'[r] # <<>>
      BY <1>8, <1>10, <2>2, Zenon
    <3> QED BY <1>7, <1>8, <2>2, <3>1, <3>2, <3>3 DEF SessionOK
  <2>3. CASE r # s
    <3>1. tabs'[r] = tabs[r] /\ active'[r] = active[r] /\ (r \in Range(sessions') <=> r \in Range(sessions))
      BY <1>7, <1>8, <2>3
    <3>2. r <= made.sess => r <= made'.sess
      BY <1>2, <1>3 DEF Sess, s
    <3> QED BY <1>9, <2>1, <3>1, <3>2 DEF SessionOK
  <2> QED BY <2>2, <2>3
<1>12. ASSUME NEW r \in Sess, NEW q \in Sess, r # q
       PROVE  Range(tabs'[r]) \cap Range(tabs'[q]) = {}
  <2>1. Range(tabs[r]) \cap Range(tabs[q]) = {}
    BY <1>4, <1>12
  <2>2. \A x \in Sess : Range(tabs[x]) \cap Range(ts) = {}
    BY <1>4, <1>10, Zenon DEF SessionOK
  <2> QED BY <1>8, <1>12, <2>1, <2>2, Zenon
<1>13. tabs' \in [Sess -> Seq(Tabs)] /\ active' \in [Sess -> Nat] /\ last' \in [Sess -> Nat]
  <2>1. n - 1 \in Nat
    BY <1>1
  <2> QED BY <1>4, <1>6, <2>1, Zenon
<1>14. pinned' \subseteq 1..made'.tab
  BY <1>2, <1>10, PinsGrow
<1>15. TabsOK'
  BY <1>7, <1>11, <1>12, <1>13, <1>14 DEF TabsOK
<1>16. ZonesKept
  <2> SUFFICES ASSUME NEW r \in Range(sessions), tabs'[r] # tabs[r]
               PROVE  FALSE
    BY Zenon DEF ZonesKept
  <2>1. r \in Sess
    BY TabsOfSession
  <2> QED BY <1>5, <1>8, <2>1
<1> QED BY <1>15, <1>16 DEF TabsKept

\* One or two tabs, with the next numbers.
LEMMA NewTabsAre ==
  ASSUME TabsInv, NEW np, NEW nt \in {1, 2}, CanMake(np, nt, 1),
         NEW ts, ts = IF nt = 1 THEN <<made.tab + 1>> ELSE <<made.tab + 1, made.tab + 2>>
  PROVE  /\ ts \in Seq(Tabs) /\ IsInjective(ts) /\ ts # <<>>
         /\ Range(ts) = (made.tab + 1)..(made.tab + Len(ts))
         /\ made.sess + 1 \in Sess
<1>1. made.tab \in Nat /\ made.sess \in Nat
  BY DEF TabsInv, RegistryInv, RegistryOK, Counts
<1>2. PICK m : m = made.tab
  OBVIOUS
<1>3. made.sess + 1 \in Sess
  BY <1>1 DEF CanMake, Sess
<1>4. CASE nt = 1
  <2>1. ts = <<m + 1>> /\ m \in Nat /\ m + 1 \in Tabs
    BY <1>1, <1>2, <1>4 DEF CanMake, Tabs
  <2>2. Len(ts) = 1 /\ ts[1] = m + 1 /\ DOMAIN ts = {1} /\ ts \in Seq(Tabs)
    BY <2>1
  <2>3. Range(ts) = {m + 1}
    BY <2>2 DEF Range
  <2>4. (m + 1)..(m + 1) = {m + 1}
    BY <2>1
  <2> QED BY <1>2, <1>3, <2>2, <2>3, <2>4, Zenon DEF IsInjective
<1>5. CASE nt = 2
  <2>1. ts = <<m + 1, m + 2>> /\ m \in Nat /\ m + 1 \in Tabs /\ m + 2 \in Tabs
    <3>1. made.tab + 2 <= MaxTab
      BY <1>5 DEF CanMake
    <3>2. MaxTab \in Nat
      BY WindowTreeAssumption
    <3>3. m + 1 \in Tabs /\ m + 2 \in Tabs
      BY <1>1, <1>2, <3>1, <3>2 DEF Tabs
    <3>4. ts = <<m + 1, m + 2>>
      BY <1>2, <1>5
    <3> QED BY <1>1, <1>2, <3>3, <3>4
  <2>2. Len(ts) = 2 /\ ts[1] = m + 1 /\ ts[2] = m + 2 /\ DOMAIN ts = {1, 2} /\ ts \in Seq(Tabs)
    BY <2>1
  <2>3. Range(ts) = {m + 1, m + 2}
    BY <2>2 DEF Range
  <2>4. (m + 1)..(m + 2) = {m + 1, m + 2}
    BY <2>1
  <2>5. IsInjective(ts)
    BY <2>1, <2>2 DEF IsInjective
  <2>6. ts # <<>>
    BY <2>2
  <2> QED BY <1>2, <1>3, <2>2, <2>3, <2>4, <2>5, <2>6, Zenon
<1> QED BY <1>4, <1>5

\* new_session, restore_layout and hello open a session of one tab.
LEMMA OneTabOpened ==
  ASSUME TabsInv, CanMake(1, 1, 1), OpenSession(<<made.tab + 1>>),
         pinned' \subseteq pinned \cup {made.tab + 1}
  PROVE  TabsKept
<1>1. PICK ts : ts = <<made.tab + 1>>
  OBVIOUS
<1>2. /\ ts \in Seq(Tabs) /\ IsInjective(ts) /\ ts # <<>>
      /\ Range(ts) = (made.tab + 1)..(made.tab + Len(ts))
      /\ made.sess + 1 \in Sess
  <2>1. ts = IF 1 = 1 THEN <<made.tab + 1>> ELSE <<made.tab + 1, made.tab + 2>>
    BY <1>1
  <2>2. 1 \in {1, 2}
    OBVIOUS
  <2> QED BY <2>1, <2>2, NewTabsAre, Zenon
<1>3. OpenSession(ts)
  BY <1>1
<1> QED BY <1>2, <1>3, OpenedKeeps

\* rename_session puts a session elsewhere in the dict.
LEMMA RenameKeeps ==
  ASSUME TabsInv, NEW s \in Sess, RenameSession(s)
  PROVE  TabsKept
<1>1. s \in Range(sessions)
  BY CommandsIn DEF RenameSession, TabsInv
<1>2. /\ UNCHANGED <<tabs, active, last, pinned, made>>
      /\ sessions' = Append(Without(sessions, s), s)
  BY DEF RenameSession
<1>3. sessions \in Seq(Sess) /\ IsInjective(sessions)
  BY DEF TabsInv, TabsOK, RegistryInv, RegistryOK
<1>4. PICK rest : rest = Without(sessions, s)
  OBVIOUS
<1>5. rest \in Seq(Sess) /\ IsInjective(rest) /\ Range(rest) = Range(sessions) \ {s}
  BY <1>3, <1>4, WithoutKeepsOthers
<1>6. sessions' = Append(rest, s) /\ s \notin Range(rest)
  BY <1>2, <1>4, <1>5
<1>7. IsInjective(sessions') /\ Range(sessions') = Range(rest) \cup {s}
  BY <1>5, <1>6, AppendKeeps
<1>8. Range(sessions') = Range(sessions)
  BY <1>1, <1>5, <1>7
<1>9. ASSUME NEW r \in Sess
      PROVE  SessionOK(r)'
  <2>1. SessionOK(r)
    BY DEF TabsInv, TabsOK
  <2> QED BY <1>2, <1>8, <2>1 DEF SessionOK
<1>10. /\ tabs' \in [Sess -> Seq(Tabs)] /\ active' \in [Sess -> Nat] /\ last' \in [Sess -> Nat]
       /\ pinned' \subseteq 1..made'.tab
       /\ \A r, q \in Sess : r # q => Range(tabs'[r]) \cap Range(tabs'[q]) = {}
  BY <1>2 DEF TabsInv, TabsOK
<1>11. ZonesKept
  BY <1>2 DEF ZonesKept
<1> QED BY <1>7, <1>9, <1>10, <1>11 DEF TabsKept, TabsOK

LEMMA RearrangedTabs ==
  ASSUME TabsInv, NEW s \in Sess, Rearranged(s)
  PROVE  TabsKept /\ SameTabs
<1>1. CASE LastPane(s) \/ (\E p \in Panes : SelectPane(s, p))
            \/ (\E p, q \in Panes : SwapPanes(s, p, q))
            \/ \E choice \in BOOLEAN : SelectLayout(s, choice) \/ RotatePanes(s, choice)
  <2>1. UNCHANGED <<sessions, tabs, active, last, pinned, made>>
    BY <1>1, Zenon DEF LastPane, SelectPane, SwapPanes, SelectLayout, RotatePanes, Rearrange, sessVars
  <2>2. SameTabs
    BY <2>1 DEF SameTabs
  <2> QED BY <2>1, <2>2, NothingMade, PanesOnly
<1>2. CASE LastTab(s)
  <2>1. PICK i : i = last[s]
    OBVIOUS
  <2>2. SelectTab(s, i)
    BY <1>2, <2>1 DEF LastTab
  <2> QED BY <2>2, SelectTabKeeps
<1>3. ASSUME NEW i \in Indices, SelectTab(s, i) \/ SwapTabs(s, i)
      PROVE  TabsKept /\ SameTabs
  BY <1>3, SelectTabKeeps, SwapTabsKeeps
<1>4. ASSUME NEW i \in Indices, NEW j \in Indices, MoveTab(s, i, j)
      PROVE  TabsKept /\ SameTabs
  BY <1>4, MoveTabKeeps
<1>5. ASSUME NEW i \in Indices, NEW value \in BOOLEAN, SetPinned(s, i, value)
      PROVE  TabsKept /\ SameTabs
  BY <1>5, SetPinnedKeeps
<1> QED BY <1>1, <1>2, <1>3, <1>4, <1>5 DEF Rearranged

LEMMA CommandTabs ==
  ASSUME TabsInv, NEW s \in Sess, Command(s)
  PROVE  TabsKept
<1>1. CASE SplitPane(s)
  <2>1. Made(1, 0, 0) /\ UNCHANGED <<sessions, tabs, active, last, pinned>>
    BY <1>1 DEF SplitPane, sessVars
  <2> QED BY <2>1, MadeLater, PanesOnly
<1>2. CASE KillPane(s)
  BY <1>2, PaneEofTabs DEF KillPane
<1>3. CASE PopupOpen(s) \/ PopupClose(s) \/ \E n \in 1..2 : LoadLayoutOver(s, n)
  <2>1. UNCHANGED <<sessions, tabs, active, last, pinned>>
    BY <1>3 DEF PopupOpen, PopupClose, LoadLayoutOver, sessVars
  <2>2. Later
    BY <1>3, SMTT(30) DEF PopupOpen, PopupClose, LoadLayoutOver, Later, Counts, TabsInv, RegistryInv, RegistryOK
  <2> QED BY <2>1, <2>2, PanesOnly
<1>4. CASE RestoreLayout(s)
  <2>1. CanMake(1, 1, 1) /\ OpenSession(<<made.tab + 1>>) /\ pinned' \subseteq pinned \cup {made.tab + 1}
    BY <1>4, Zenon DEF RestoreLayout
  <2> QED BY <2>1, OneTabOpened
<1>5. ASSUME NEW n \in 1..2, LoadLayoutNew(s, n)
      PROVE  TabsKept
  BY <1>5, LoadLayoutNewKeeps
<1>6. ASSUME NEW i \in Indices, JoinPane(s, i) \/ \E p \in Panes : MovePaneToTab(s, p, i)
      PROVE  TabsKept
  BY <1>6, PaneMovesKeeps
<1> QED BY <1>1, <1>2, <1>3, <1>4, <1>5, <1>6, BreakPaneKeeps, KillTabKeeps, RenameKeeps, KillSessionKeeps
        DEF Command

LEMMA NewTabTabs ==
  ASSUME TabsInv, NEW c \in Clients, NewTab(c)
  PROVE  TabsKept
<1>1. PICK s : s = IF views[c] = None /\ sessions # <<>> THEN sessions[1] ELSE views[c]
  OBVIOUS
<1>2. views[c] # Away /\ UNCHANGED pinned
  BY DEF NewTab
<1>3. CASE s = None
  <2>1. PICK ts : ts = <<made.tab + 1, made.tab + 2>>
    BY Zenon
  <2>2. OpenSession(ts) /\ CanMake(2, 2, 1)
    BY <1>1, <1>3, <2>1 DEF NewTab
  <2>3. /\ ts \in Seq(Tabs) /\ IsInjective(ts) /\ ts # <<>>
        /\ Range(ts) = (made.tab + 1)..(made.tab + Len(ts))
        /\ made.sess + 1 \in Sess
    <3>1. ts = IF 2 = 1 THEN <<made.tab + 1>> ELSE <<made.tab + 1, made.tab + 2>>
      BY <2>1
    <3>2. 2 \in {1, 2}
      OBVIOUS
    <3> QED BY <2>2, <3>1, <3>2, NewTabsAre, Zenon
  <2> QED BY <1>2, <2>2, <2>3, OpenedKeeps
<1>4. CASE s # None
  <2>1. OpenTab(s, made.pane + 1, made.tab + 1) /\ CanMake(1, 1, 0)
    BY <1>1, <1>4 DEF NewTab
  <2>2. PICK p : p = made.pane + 1
    OBVIOUS
  <2>3. OpenTab(s, p, made.tab + 1)
    BY <2>1, <2>2
  <2>4. s \in Sess /\ s \in Range(sessions)
    <3>1. sessions \in Seq(Sess) /\ views \in [Clients -> Sess \cup {None, Away}]
      BY DEF TabsInv, RegistryInv, RegistryOK
    <3>2. CASE views[c] = None /\ sessions # <<>>
      BY <1>1, <3>1, <3>2, FirstIsIn
    <3>3. CASE ~(views[c] = None /\ sessions # <<>>)
      <4>1. s = views[c]
        BY <1>1, <3>3
      <4>2. views[c] \in Sess
        BY <1>2, <1>4, <3>1, <4>1
      <4> QED BY <4>1, <4>2 DEF TabsInv, RegistryInv, ViewsRegistered
    <3> QED BY <3>2, <3>3
  <2> QED BY <1>2, <2>1, <2>3, <2>4, OpenTabKeeps
<1> QED BY <1>3, <1>4

LEMMA AttachTabs ==
  ASSUME TabsInv, NEW c \in Clients, Attach(c)
  PROVE  TabsKept
<1>1. CASE sessions = <<>>
  BY <1>1, OneTabOpened DEF Attach
<1>2. CASE sessions # <<>>
  <2>1. UNCHANGED <<sessions, tabs, active, last, pinned, made>>
    BY <1>2 DEF Attach
  <2> QED BY <2>1, NothingMade, PanesOnly
<1> QED BY <1>1, <1>2

LEMMA InitTabs == Init => TabsInv
<1> SUFFICES ASSUME Init PROVE TabsInv
  OBVIOUS
<1>1. RegistryInv
  BY InitRegistry
<1>2. /\ tabs = [s \in Sess |-> <<>>] /\ active = [s \in Sess |-> 0] /\ last = [s \in Sess |-> 0]
      /\ pinned = {} /\ sessions = <<>> /\ made = [pane |-> 0, tab |-> 0, sess |-> 0]
  BY DEF Init
<1>3. IsInjective(<<>>) /\ Range(<<>>) = {}
  BY DEF IsInjective, Range
<1>4. \A s \in Sess : SessionOK(s)
  BY <1>2, <1>3 DEF SessionOK
<1>5. tabs \in [Sess -> Seq(Tabs)] /\ active \in [Sess -> Nat] /\ last \in [Sess -> Nat]
  BY <1>2
<1> QED BY <1>1, <1>2, <1>3, <1>4, <1>5 DEF TabsInv, TabsOK

LEMMA NextTabs == TabsInv /\ [Next]_vars => TabsInv' /\ ZonesKept
<1> SUFFICES ASSUME TabsInv, [Next]_vars
             PROVE  TabsInv' /\ ZonesKept
  OBVIOUS
<1>1. ASSUME NEW s \in Sess, Command(s) \/ Rearranged(s)
      PROVE  TabsKept
  BY <1>1, CommandTabs, RearrangedTabs
<1>2. ASSUME NEW c \in Clients, NewTab(c) \/ Attach(c)
      PROVE  TabsKept
  BY <1>2, NewTabTabs, AttachTabs
<1>3. ASSUME NEW c \in Clients, NewSession(c)
      PROVE  TabsKept
  BY <1>3, OneTabOpened DEF NewSession
<1>4. ASSUME NEW p \in Panes, ShellExits(p)
      PROVE  TabsKept
  BY <1>4, PaneEofTabs DEF ShellExits
<1>5. ASSUME \/ \E c \in Clients : DetachClient(c) \/ \E s \in Sess : SwitchSession(c, s)
             \/ Flush \/ UNCHANGED vars
      PROVE  TabsKept
  <2>1. UNCHANGED <<sessions, tabs, active, last, pinned, made>>
    BY <1>5 DEF DetachClient, SwitchSession, Flush, vars, sessVars
  <2> QED BY <2>1, NothingMade, PanesOnly
<1>6. TabsKept
  BY <1>1, <1>2, <1>3, <1>4, <1>5 DEF Next
<1>7. RegistryInv'
  BY NextRegistry DEF TabsInv
<1> QED BY <1>6, <1>7 DEF TabsKept, TabsInv

\* In every behaviour, a command that puts the tabs of a session in another
\* order or changes which are pinned leaves the pinned ones at the end, if
\* they were there, and the active tab active (move_tab, swap_window,
\* set_pinned with _normalize_pins, which compute the indices by hand).
THEOREM TabMovesKeepZonesCorrect == Spec => TabMovesKeepZones
<1>1. TabsInv /\ [Next]_vars =>
        [\A s \in Range(sessions) :
           s \in Range(sessions') /\ Range(tabs'[s]) = Range(tabs[s]) /\ tabs'[s] # tabs[s]
             => /\ PinsLastIn(s) => PinsLastIn(s)'
                /\ ActiveTab(s)' = ActiveTab(s)]_vars
  BY NextTabs DEF ZonesKept
<1> QED BY <1>1, InitTabs, NextTabs, PTL DEF Spec, TabMovesKeepZones

-----------------------------------------------------------------------------
(* The trees of the windows.                                               *)

\* A numbering of the nodes of all trees.  A node has an owner, the tab whose
\* window it is in, and stands for the panes lo to hi in the order in which
\* Window.panes lists those of its window.  The panes of child b come first:
\* they end at cut.
Marks == [own : [Nodes -> Tabs \cup {None}], lo : [Nodes -> Nat], hi : [Nodes -> Nat],
          cut : [Splits -> Nat], order : [Tabs -> Seq(Panes)]]

Trees == [kids  : [Splits -> (Nodes \cup {None}) \X (Nodes \cup {None})],
          up    : [Nodes -> Splits \cup {None}],
          root  : [Tabs -> Nodes \cup {None}],
          act   : [Tabs -> Panes \cup {None}],
          prev  : [Tabs -> Panes \cup {None}],
          cache : [Tabs -> Seq(Panes)]]

\* A node that is in a tree stands for a part of the panes of an open tab.
NodesOK(open, m) ==
  \A n \in Nodes : m.own[n] # None =>
    /\ m.own[n] \in open
    /\ 1 <= m.lo[n] /\ m.lo[n] <= m.hi[n] /\ m.hi[n] <= Len(m.order[m.own[n]])

\* A pane stands for itself, and each place in the order is that of one pane.
PlacesOK(open, m) ==
  /\ \A p \in Panes : m.own[p] # None =>
       m.lo[p] = m.hi[p] /\ m.order[m.own[p]][m.lo[p]] = p
  /\ \A t \in open : \A k \in 1..Len(m.order[t]) :
       m.own[m.order[t][k]] = t /\ m.lo[m.order[t][k]] = k

\* Between two neighbours in the order one split cuts, and only one.
CutsOK(open, m) ==
  /\ \A s, r \in Splits : m.own[s] # None /\ m.own[s] = m.own[r] /\ m.cut[s] = m.cut[r] => s = r
  /\ \A t \in open : \A k \in 1..(Len(m.order[t]) - 1) :
       \E s \in Splits : m.own[s] = t /\ m.cut[s] = k

\* The children of a split share its panes and have it as parent.
Shares(f, m, s) ==
  LET a == f.kids[s][1]
      b == f.kids[s][2]
  IN /\ a \in Nodes /\ b \in Nodes
     /\ m.own[a] = m.own[s] /\ m.own[b] = m.own[s]
     /\ f.up[a] = s /\ f.up[b] = s
     /\ m.lo[b] = m.lo[s] /\ m.hi[b] = m.cut[s]
     /\ m.lo[a] = m.cut[s] + 1 /\ m.hi[a] = m.hi[s]

SplitsOK(f, m) ==
  \A s \in Splits : IF m.own[s] = None THEN f.kids[s] = NoKids ELSE Shares(f, m, s)

\* A node is a root, or a child of its parent.
Hangs(f, m, n) ==
  IF m.own[n] = None \/ n = f.root[m.own[n]] THEN f.up[n] = None
  ELSE /\ f.up[n] \in Splits /\ m.own[f.up[n]] = m.own[n]
       /\ n = f.kids[f.up[n]][1] \/ n = f.kids[f.up[n]][2]

RootOK(f, m, t) ==
  /\ f.root[t] \in Nodes /\ m.own[f.root[t]] = t
  /\ m.lo[f.root[t]] = 1 /\ m.hi[f.root[t]] = Len(m.order[t])

\* The links of the trees of the open tabs fit the numbering.
Numbered(f, open, m) ==
  /\ f \in Trees /\ m \in Marks /\ open \subseteq Tabs
  /\ NodesOK(open, m) /\ PlacesOK(open, m) /\ CutsOK(open, m)
  /\ SplitsOK(f, m)
  /\ \A n \in Nodes : Hangs(f, m, n)
  /\ \A t \in open : RootOK(f, m, t)

\* The active pane of a window is one of its panes, and a cached list is fresh.
WindowsOK(f, open, m) ==
  /\ \A t \in open : f.act[t] \in Panes /\ m.own[f.act[t]] = t
  /\ \A t \in open : f.cache[t] \in {<<>>, m.order[t]}
  /\ \A t \in Tabs \ open : f.cache[t] = <<>>

Sound(f, open, m) == Numbered(f, open, m) /\ WindowsOK(f, open, m)

-----------------------------------------------------------------------------
(* What a walk over a tree finds.                                          *)

LEMMA NodesAre ==
  /\ MaxPane \in Nat /\ MaxPane > 0 /\ MaxTab \in Nat
  /\ Panes \subseteq Nat /\ Splits \subseteq Nat /\ Nodes \subseteq Nat /\ Tabs \subseteq Nat
  /\ None \notin Nodes /\ None \notin Tabs /\ Panes \cap Splits = {}
  /\ \A n \in Nodes : n \notin Panes => n \in Splits
BY WindowTreeAssumption DEF Panes, Splits, Nodes, Tabs, None

\* A split that is in use has children, one that is not has none.
LEMMA UsedHaveKids ==
  ASSUME NEW f, NEW open, NEW m, Numbered(f, open, m), NEW s \in Splits
  PROVE  m.own[s] = None <=> f.kids[s] = NoKids
<1>1. CASE m.own[s] = None
  BY <1>1 DEF Numbered, SplitsOK
<1>2. CASE m.own[s] # None
  <2>1. f.kids[s][1] \in Nodes
    BY <1>2 DEF Numbered, SplitsOK, Shares
  <2>2. f.kids[s] # NoKids
    BY <2>1, NodesAre DEF NoKids
  <2> QED BY <1>2, <2>2
<1> QED BY <1>1, <1>2

\* Two answers to a recursion over the trees agree everywhere if they agree on
\* panes and on splits that are not in use, and on a split whenever they
\* agree on its children.
LEMMA OneAnswer ==
  ASSUME NEW f, NEW open, NEW m, Numbered(f, open, m), NEW g, NEW h,
         \A p \in Panes : g[p] = h[p],
         \A s \in Splits : m.own[s] = None => g[s] = h[s],
         \A s \in Splits : /\ m.own[s] # None
                           /\ g[f.kids[s][1]] = h[f.kids[s][1]]
                           /\ g[f.kids[s][2]] = h[f.kids[s][2]]
                           => g[s] = h[s]
  PROVE  \A n \in Nodes : g[n] = h[n]
<1> DEFINE S == {k \in Nat : \A n \in Nodes : m.own[n] # None /\ m.hi[n] - m.lo[n] < k => g[n] = h[n]}
<1>1. m \in Marks /\ \A n \in Nodes : m.lo[n] \in Nat /\ m.hi[n] \in Nat
  BY DEF Numbered, Marks
<1>2. \A n \in Nodes : m.own[n] # None => m.lo[n] <= m.hi[n]
  BY DEF Numbered, NodesOK
<1>3. 0 \in S
  BY <1>1, <1>2
<1>4. ASSUME NEW k \in Nat, k >= 1, k - 1 \in S
      PROVE  k \in S
  <2> SUFFICES ASSUME NEW n \in Nodes, m.own[n] # None, m.hi[n] - m.lo[n] < k
               PROVE  g[n] = h[n]
    BY <1>4
  <2>1. CASE n \in Panes
    BY <2>1
  <2>2. CASE n \in Splits
    <3>1. Shares(f, m, n)
      BY <2>2 DEF Numbered, SplitsOK
    <3>2. PICK a, b : a = f.kids[n][1] /\ b = f.kids[n][2]
      BY Zenon
    <3>3. /\ a \in Nodes /\ b \in Nodes /\ m.own[a] # None /\ m.own[b] # None
          /\ m.lo[b] = m.lo[n] /\ m.hi[b] = m.cut[n] /\ m.lo[a] = m.cut[n] + 1 /\ m.hi[a] = m.hi[n]
      BY <3>1, <3>2 DEF Shares
    <3>4. m.hi[a] - m.lo[a] < k - 1 /\ m.hi[b] - m.lo[b] < k - 1
      <4>1. m.cut[n] \in Nat
        BY <2>2, <1>1 DEF Marks
      <4> QED BY <1>1, <1>2, <3>3, <4>1, <1>4
    <3>5. g[a] = h[a] /\ g[b] = h[b]
      BY <1>4, <3>3, <3>4
    <3> QED BY <2>2, <3>2, <3>5
  <2> QED BY <2>1, <2>2, NodesAre
<1> HIDE DEF S
<1>5. \A k \in Nat : k \in S
  <2> SUFFICES ASSUME NEW k \in Nat PROVE k \in S
    OBVIOUS
  <2>1. \A i \in 1..k : i - 1 \in S => i \in S
    BY <1>4
  <2> QED BY <1>3, <2>1, Climb
<1> SUFFICES ASSUME NEW n \in Nodes PROVE g[n] = h[n]
  OBVIOUS
<1>6. CASE m.own[n] # None
  <2>1. m.hi[n] - m.lo[n] + 1 \in Nat
    BY <1>1, <1>2, <1>6
  <2>2. m.hi[n] - m.lo[n] + 1 \in S
    BY <1>5, <2>1
  <2>3. m.hi[n] - m.lo[n] < m.hi[n] - m.lo[n] + 1
    BY <1>1
  <2> QED BY <1>6, <2>2, <2>3 DEF S
<1>7. CASE m.own[n] = None
  BY <1>7, NodesAre
<1> QED BY <1>6, <1>7

\* A part of a list.
LEMMA PartIs ==
  ASSUME NEW S, NEW q \in Seq(S), NEW i \in Nat, NEW j \in Nat, 1 <= i, i <= j + 1, j <= Len(q)
  PROVE  /\ SubSeq(q, i, j) \in Seq(S) /\ Len(SubSeq(q, i, j)) = j - i + 1
         /\ \A k \in 1..(j - i + 1) : SubSeq(q, i, j)[k] = q[i + k - 1]
<1>1. \A k \in i..j : q[k] \in S
  OBVIOUS
<1> QED BY <1>1

\* Two neighbouring parts of a list, put together.
LEMMA PartsJoin ==
  ASSUME NEW S, NEW q \in Seq(S), NEW i \in Nat, NEW j \in Nat, NEW k \in Nat,
         1 <= i, i <= j, j < k, k <= Len(q)
  PROVE  SubSeq(q, i, j) \o SubSeq(q, j + 1, k) = SubSeq(q, i, k)
<1> DEFINE x == SubSeq(q, i, j)  y == SubSeq(q, j + 1, k)  z == SubSeq(q, i, k)
<1>1. /\ x \in Seq(S) /\ Len(x) = j - i + 1
      /\ \A e \in 1..(j - i + 1) : x[e] = q[i + e - 1]
  BY PartIs
<1>2. /\ y \in Seq(S) /\ Len(y) = k - j
      /\ \A e \in 1..(k - j) : y[e] = q[j + e]
  <2>1. j + 1 \in Nat /\ j + 1 <= k + 1 /\ k - (j + 1) + 1 = k - j
    OBVIOUS
  <2>2. \A e \in 1..(k - j) : (j + 1) + e - 1 = j + e
    OBVIOUS
  <2>3. /\ y \in Seq(S) /\ Len(y) = k - (j + 1) + 1
        /\ \A e \in 1..(k - (j + 1) + 1) : y[e] = q[(j + 1) + e - 1]
    BY <2>1, PartIs
  <2> QED BY <2>1, <2>2, <2>3
<1>3. /\ z \in Seq(S) /\ Len(z) = k - i + 1
      /\ \A e \in 1..(k - i + 1) : z[e] = q[i + e - 1]
  BY PartIs
<1> HIDE DEF x, y, z
<1>7. /\ x \o y \in Seq(S) /\ Len(x \o y) = Len(x) + Len(y)
      /\ \A e \in 1..(Len(x) + Len(y)) :
           (x \o y)[e] = IF e <= Len(x) THEN x[e] ELSE y[e - Len(x)]
  BY <1>1, <1>2, ConcatProperties, Zenon
<1> DEFINE w == x \o y
<1> HIDE DEF w
<1>8. /\ w \in Seq(S) /\ Len(w) = k - i + 1
      /\ \A e \in 1..(k - i + 1) : w[e] = IF e <= j - i + 1 THEN x[e] ELSE y[e - (j - i + 1)]
  BY <1>1, <1>2, <1>7 DEF w
<1>5. \A e \in 1..(k - i + 1) : w[e] = q[i + e - 1]
  <2> SUFFICES ASSUME NEW e \in 1..(k - i + 1) PROVE w[e] = q[i + e - 1]
    BY Zenon
  <2>1. CASE e <= j - i + 1
    <3>1. e \in 1..(j - i + 1) /\ w[e] = x[e]
      BY <1>8, <2>1
    <3> QED BY <1>1, <3>1
  <2>2. CASE e > j - i + 1
    <3>1. w[e] = y[e - (j - i + 1)] /\ e - (j - i + 1) \in 1..(k - j)
      BY <1>8, <2>2
    <3>2. j + (e - (j - i + 1)) = i + e - 1
      OBVIOUS
    <3> QED BY <1>2, <3>1, <3>2
  <2> QED BY <2>1, <2>2
<1>6. w = z
  BY <1>3, <1>5, <1>8, SeqEqual, Zenon
<1> QED BY <1>6 DEF w, x, y, z

\* The leaves below a node are its part of the order.
Part(m, n) == SubSeq(m.order[m.own[n]], m.lo[n], m.hi[n])

LEMMA LeavesIs ==
  ASSUME NEW f, NEW open, NEW m, Numbered(f, open, m), NEW n \in Nodes
  PROVE  Leaves(f, n) = IF m.own[n] = None THEN IF n \in Panes THEN <<n>> ELSE <<>>
                        ELSE Part(m, n)
<1> DEFINE Step(g) == [x \in Nodes |-> IF x \in Panes THEN <<x>>
                                       ELSE IF f.kids[x] = NoKids THEN <<>>
                                       ELSE g[f.kids[x][2]] \o g[f.kids[x][1]]]
           below == CHOOSE g : g = Step(g)
           L == [x \in Nodes |-> IF x \in Panes THEN <<x>>
                                 ELSE IF m.own[x] = None THEN <<>> ELSE Part(m, x)]
<1>1. Leaves(f, n) = below[n]
  BY DEF Leaves
<1>2. /\ m \in Marks /\ \A x \in Nodes : m.lo[x] \in Nat /\ m.hi[x] \in Nat
      /\ \A t \in Tabs : m.order[t] \in Seq(Panes)
      /\ \A x \in Nodes : m.own[x] # None => m.own[x] \in Tabs
  BY DEF Numbered, Marks
<1>3. \A x \in Nodes : m.own[x] # None =>
        1 <= m.lo[x] /\ m.lo[x] <= m.hi[x] /\ m.hi[x] <= Len(m.order[m.own[x]])
  BY DEF Numbered, NodesOK
<1>4. ASSUME NEW p \in Panes, m.own[p] # None
      PROVE  Part(m, p) = <<p>>
  <2> DEFINE q == m.order[m.own[p]]  k == m.lo[p]
  <2>0. p \in Nodes
    BY DEF Nodes
  <2>1. m.hi[p] = k /\ q[k] = p
    BY <1>4 DEF Numbered, PlacesOK
  <2>2. q \in Seq(Panes) /\ k \in Nat /\ 1 <= k /\ k <= Len(q)
    BY <1>2, <1>3, <1>4, <2>0, <2>1
  <2>3. Part(m, p) = SubSeq(q, k, k)
    BY <2>1 DEF Part
  <2> HIDE DEF q, k
  <2>4. k <= k + 1 /\ k - k + 1 = 1 /\ k + 1 - 1 = k
    BY <2>2
  <2>5. /\ SubSeq(q, k, k) \in Seq(Panes) /\ Len(SubSeq(q, k, k)) = k - k + 1
        /\ \A e \in 1..(k - k + 1) : SubSeq(q, k, k)[e] = q[k + e - 1]
    BY <2>2, <2>4, PartIs
  <2>6. SubSeq(q, k, k)[1] = p /\ Len(SubSeq(q, k, k)) = 1
    BY <2>1, <2>4, <2>5
  <2>7. SubSeq(q, k, k) = <<p>>
    <3> DEFINE r == SubSeq(q, k, k)
    <3>1. r \in Seq(Panes) /\ Len(r) = 1 /\ r[1] = p
      BY <2>5, <2>6
    <3> HIDE DEF r
    <3>2. <<p>> \in Seq(Panes) /\ Len(<<p>>) = 1 /\ <<p>>[1] = p
      OBVIOUS
    <3>3. r = <<p>>
      BY <3>1, <3>2, SeqEqual
    <3> QED BY <3>3 DEF r
  <2> QED BY <2>3, <2>7
<1>5. \A x \in Nodes : m.own[x] # None => L[x] = Part(m, x)
  BY <1>4, SMTT(30)
<1>6. ASSUME NEW s \in Splits, m.own[s] # None
      PROVE  /\ f.kids[s][1] \in Nodes /\ f.kids[s][2] \in Nodes
             /\ L[s] = L[f.kids[s][2]] \o L[f.kids[s][1]]
  <2>1. PICK a, b : a = f.kids[s][1] /\ b = f.kids[s][2]
    BY Zenon
  <2>2. Shares(f, m, s) /\ s \in Nodes
    BY <1>6 DEF Numbered, SplitsOK, Nodes
  <2>3. /\ a \in Nodes /\ b \in Nodes /\ m.own[a] = m.own[s] /\ m.own[b] = m.own[s]
        /\ m.lo[b] = m.lo[s] /\ m.hi[b] = m.cut[s] /\ m.lo[a] = m.cut[s] + 1 /\ m.hi[a] = m.hi[s]
    BY <2>1, <2>2 DEF Shares
  <2>4. PICK q, i, j, k : q = m.order[m.own[s]] /\ i = m.lo[s] /\ j = m.cut[s] /\ k = m.hi[s]
    BY SMTT(30)
  <2>5. L[s] = SubSeq(q, i, k) /\ L[b] = SubSeq(q, i, j) /\ L[a] = SubSeq(q, j + 1, k)
    <3>1. L[s] = Part(m, s) /\ L[a] = Part(m, a) /\ L[b] = Part(m, b)
      BY <1>5, <1>6, <2>2, <2>3
    <3> QED BY <2>3, <2>4, <3>1, Zenon DEF Part
  <2>6. q \in Seq(Panes) /\ i \in Nat /\ j \in Nat /\ k \in Nat /\ 1 <= i /\ i <= j /\ j < k /\ k <= Len(q)
    <3>1. m.cut[s] \in Nat
      BY <1>2 DEF Marks
    <3>2. m.lo[a] <= m.hi[a] /\ m.lo[b] <= m.hi[b] /\ 1 <= m.lo[s] /\ m.hi[s] <= Len(m.order[m.own[s]])
      BY <1>3, <1>6, <2>2, <2>3
    <3> QED BY <1>2, <1>6, <2>2, <2>3, <2>4, <3>1, <3>2
  <2>7. SubSeq(q, i, j) \o SubSeq(q, j + 1, k) = SubSeq(q, i, k)
    BY <2>6, PartsJoin
  <2> HIDE DEF L
  <2> QED BY <2>1, <2>3, <2>5, <2>7, Zenon
<1>7. \A s \in Splits : m.own[s] = None <=> f.kids[s] = NoKids
  BY UsedHaveKids
<1>8. L = Step(L)
  <2> SUFFICES ASSUME NEW x \in Nodes
               PROVE  L[x] = IF x \in Panes THEN <<x>>
                             ELSE IF f.kids[x] = NoKids THEN <<>>
                             ELSE L[f.kids[x][2]] \o L[f.kids[x][1]]
    BY Zenon
  <2>1. CASE x \in Panes
    BY <2>1
  <2>2. CASE x \notin Panes /\ m.own[x] = None
    BY <1>7, <2>2, NodesAre
  <2>3. CASE x \notin Panes /\ m.own[x] # None
    <3>1. x \in Splits
      BY <2>3, NodesAre
    <3>2. f.kids[x] # NoKids
      BY <1>7, <2>3, <3>1
    <3> HIDE DEF L
    <3> QED BY <1>6, <2>3, <3>1, <3>2, Zenon
  <2> QED BY <2>1, <2>2, <2>3
<1> HIDE DEF L
<1>9. below = Step(below)
  BY <1>8, Zenon
<1> HIDE DEF below
<1>10. \A x \in Nodes : below[x] = L[x]
  <2>1. \A p \in Panes : below[p] = L[p]
    <3> SUFFICES ASSUME NEW p \in Panes PROVE below[p] = L[p]
      OBVIOUS
    <3>1. p \in Nodes
      BY DEF Nodes
    <3>2. L[p] = <<p>>
      BY <3>1 DEF L
    <3>3. below[p] = <<p>>
      BY <1>9, <3>1, Zenon
    <3> QED BY <3>2, <3>3
  <2>2. \A s \in Splits : m.own[s] = None => below[s] = L[s]
    <3> SUFFICES ASSUME NEW s \in Splits, m.own[s] = None PROVE below[s] = L[s]
      OBVIOUS
    <3>1. s \in Nodes /\ s \notin Panes /\ f.kids[s] = NoKids
      BY <1>7, NodesAre DEF Nodes
    <3>2. L[s] = <<>>
      BY <3>1 DEF L
    <3>3. below[s] = <<>>
      BY <1>9, <3>1, Zenon
    <3> QED BY <3>2, <3>3
  <2>3. ASSUME NEW s \in Splits, m.own[s] # None,
               below[f.kids[s][1]] = L[f.kids[s][1]], below[f.kids[s][2]] = L[f.kids[s][2]]
        PROVE  below[s] = L[s]
    <3>1. s \in Nodes /\ s \notin Panes /\ f.kids[s] # NoKids
      BY <1>7, <2>3, NodesAre DEF Nodes
    <3>2. below[s] = below[f.kids[s][2]] \o below[f.kids[s][1]]
      BY <1>9, <3>1, Zenon
    <3>3. L[s] = L[f.kids[s][2]] \o L[f.kids[s][1]]
      BY <1>6, <2>3, Zenon
    <3> QED BY <2>3, <3>2, <3>3, Zenon
  <2> QED BY <2>1, <2>2, <2>3, OneAnswer
<1> QED BY <1>1, <1>5, <1>10 DEF L

\* What the parts of a numbering are.
LEMMA NumberTypes ==
  ASSUME NEW f, NEW open, NEW m, Numbered(f, open, m)
  PROVE  /\ \A n \in Nodes : m.lo[n] \in Nat /\ m.hi[n] \in Nat
         /\ \A s \in Splits : m.cut[s] \in Nat
         /\ \A t \in Tabs : m.order[t] \in Seq(Panes) /\ Len(m.order[t]) \in Nat
         /\ \A n \in Nodes : m.own[n] # None =>
              /\ m.own[n] \in open /\ m.own[n] \in Tabs
              /\ 1 <= m.lo[n] /\ m.lo[n] <= m.hi[n] /\ m.hi[n] <= Len(m.order[m.own[n]])
<1>1. m \in Marks /\ open \subseteq Tabs /\ NodesOK(open, m)
  BY DEF Numbered
<1>2. \A t \in Tabs : m.order[t] \in Seq(Panes)
  BY <1>1 DEF Marks
<1>3. \A t \in Tabs : Len(m.order[t]) \in Nat
  BY <1>2
<1>4. /\ \A n \in Nodes : m.lo[n] \in Nat /\ m.hi[n] \in Nat
      /\ \A s \in Splits : m.cut[s] \in Nat
  BY <1>1 DEF Marks
<1> QED BY <1>1, <1>2, <1>3, <1>4 DEF NodesOK

\* The children of a split in use.
LEMMA ChildrenAre ==
  ASSUME NEW f, NEW open, NEW m, Numbered(f, open, m), NEW s \in Splits, m.own[s] # None,
         NEW a, a = f.kids[s][1], NEW b, b = f.kids[s][2]
  PROVE  /\ s \in Nodes /\ a \in Nodes /\ b \in Nodes
         /\ m.own[a] = m.own[s] /\ m.own[b] = m.own[s]
         /\ f.up[a] = s /\ f.up[b] = s
         /\ m.lo[b] = m.lo[s] /\ m.hi[b] = m.cut[s]
         /\ m.lo[a] = m.cut[s] + 1 /\ m.hi[a] = m.hi[s]
         /\ m.lo[s] <= m.cut[s] /\ m.cut[s] < m.hi[s]
         /\ a # b
<1>1. Shares(f, m, s) /\ s \in Nodes
  BY DEF Numbered, SplitsOK, Nodes
<1>2. /\ a \in Nodes /\ b \in Nodes
      /\ m.own[a] = m.own[s] /\ m.own[b] = m.own[s]
      /\ f.up[a] = s /\ f.up[b] = s
      /\ m.lo[b] = m.lo[s] /\ m.hi[b] = m.cut[s]
      /\ m.lo[a] = m.cut[s] + 1 /\ m.hi[a] = m.hi[s]
  BY <1>1 DEF Shares
<1>3. /\ m.lo[a] <= m.hi[a] /\ m.lo[b] <= m.hi[b] /\ m.cut[s] \in Nat /\ m.hi[s] \in Nat
      /\ m.lo[s] \in Nat
  BY <1>1, <1>2, NumberTypes, Zenon
<1>4. m.lo[s] <= m.cut[s] /\ m.cut[s] < m.hi[s]
  BY <1>2, <1>3
<1>5. a # b
  BY <1>2, <1>3, <1>4
<1> QED BY <1>1, <1>2, <1>4, <1>5

\* The splits of a tab that cut between the panes of a node.
CutsIn(m, n) == {s \in Splits : m.own[s] = m.own[n] /\ m.lo[n] <= m.cut[s] /\ m.cut[s] < m.hi[n]}

\* The splits of a window are those its tab owns.
LEMMA SplitsOfIs ==
  ASSUME NEW f, NEW open, NEW m, Numbered(f, open, m), NEW t \in open
  PROVE  SplitsOf(f, t) = {s \in Splits : m.own[s] = t}
<1> DEFINE Step(g) == [x \in Nodes |-> IF x \in Panes \/ f.kids[x] = NoKids THEN {}
                                       ELSE {x} \cup g[f.kids[x][1]] \cup g[f.kids[x][2]]]
           below == CHOOSE g : g = Step(g)
           L == [x \in Nodes |-> IF x \in Panes \/ m.own[x] = None THEN {} ELSE CutsIn(m, x)]
<1>1. SplitsOf(f, t) = below[f.root[t]]
  BY DEF SplitsOf
<1>2. PICK r : r = f.root[t]
  OBVIOUS
<1>3. r \in Nodes /\ m.own[r] = t /\ m.lo[r] = 1 /\ m.hi[r] = Len(m.order[t])
  BY <1>2 DEF Numbered, RootOK
<1>4. \A p \in Panes : m.own[p] # None => CutsIn(m, p) = {}
  <2> SUFFICES ASSUME NEW p \in Panes, m.own[p] # None, NEW s \in Splits,
                      m.lo[p] <= m.cut[s], m.cut[s] < m.hi[p]
               PROVE  FALSE
    BY DEF CutsIn
  <2>1. p \in Nodes /\ m.lo[p] = m.hi[p]
    BY DEF Numbered, PlacesOK, Nodes
  <2> QED BY <2>1, NumberTypes
<1>5. \A x \in Nodes : L[x] = IF m.own[x] = None THEN {} ELSE CutsIn(m, x)
  BY <1>4
<1>6. ASSUME NEW s \in Splits, m.own[s] # None
      PROVE  L[s] = {s} \cup L[f.kids[s][1]] \cup L[f.kids[s][2]]
  <2>1. PICK a, b : a = f.kids[s][1] /\ b = f.kids[s][2]
    BY Zenon
  <2>2. /\ s \in Nodes /\ a \in Nodes /\ b \in Nodes
        /\ m.own[a] = m.own[s] /\ m.own[b] = m.own[s]
        /\ m.lo[b] = m.lo[s] /\ m.hi[b] = m.cut[s]
        /\ m.lo[a] = m.cut[s] + 1 /\ m.hi[a] = m.hi[s]
        /\ m.lo[s] <= m.cut[s] /\ m.cut[s] < m.hi[s]
    BY <1>6, <2>1, ChildrenAre
  <2>3. L[s] = CutsIn(m, s) /\ L[a] = CutsIn(m, a) /\ L[b] = CutsIn(m, b)
    BY <1>5, <1>6, <2>2
  <2>4. ASSUME NEW x \in Splits
        PROVE  x \in CutsIn(m, s) <=> x = s \/ x \in CutsIn(m, a) \/ x \in CutsIn(m, b)
    <3>1. m.cut[x] \in Nat /\ m.cut[s] \in Nat /\ m.lo[s] \in Nat /\ m.hi[s] \in Nat
      BY <2>2, NumberTypes
    <3>2. m.own[x] = m.own[s] /\ m.cut[x] = m.cut[s] => x = s
      BY <1>6 DEF Numbered, CutsOK
    <3> QED BY <2>2, <3>1, <3>2 DEF CutsIn
  <2> HIDE DEF L
  <2>5. CutsIn(m, s) = {s} \cup CutsIn(m, a) \cup CutsIn(m, b)
    <3>1. CutsIn(m, s) \subseteq Splits /\ CutsIn(m, a) \subseteq Splits /\ CutsIn(m, b) \subseteq Splits
      BY DEF CutsIn
    <3> QED BY <2>4, <3>1
  <2> QED BY <2>1, <2>3, <2>5
<1>7. \A s \in Splits : m.own[s] = None <=> f.kids[s] = NoKids
  BY UsedHaveKids
<1>8. L = Step(L)
  <2> SUFFICES ASSUME NEW x \in Nodes
               PROVE  L[x] = IF x \in Panes \/ f.kids[x] = NoKids THEN {}
                             ELSE {x} \cup L[f.kids[x][1]] \cup L[f.kids[x][2]]
    BY Zenon
  <2>1. CASE x \in Panes
    BY <2>1
  <2>2. CASE x \notin Panes
    <3>1. x \in Splits
      BY <2>2, NodesAre
    <3>2. CASE m.own[x] = None
      <4>1. f.kids[x] = NoKids
        BY <1>7, <3>1, <3>2
      <4> QED BY <2>2, <3>2, <4>1
    <3>3. CASE m.own[x] # None
      <4>1. f.kids[x] # NoKids
        BY <1>7, <3>1, <3>3
      <4> HIDE DEF L
      <4> QED BY <1>6, <2>2, <3>1, <3>3, <4>1
    <3> QED BY <3>2, <3>3
  <2> QED BY <2>1, <2>2
<1> HIDE DEF L
<1>9. below = Step(below)
  BY <1>8, Zenon
<1> HIDE DEF below
<1>10. \A x \in Nodes : below[x] = L[x]
  <2>1. \A x \in Nodes : x \in Panes \/ m.own[x] = None => below[x] = L[x]
    <3> SUFFICES ASSUME NEW x \in Nodes, x \in Panes \/ m.own[x] = None PROVE below[x] = L[x]
      OBVIOUS
    <3>1. x \in Panes \/ f.kids[x] = NoKids
      BY <1>7, NodesAre
    <3>2. L[x] = {}
      BY DEF L
    <3>3. below[x] = {}
      BY <1>9, <3>1, Zenon
    <3> QED BY <3>2, <3>3
  <2>2. \A p \in Panes : below[p] = L[p]
    BY <2>1 DEF Nodes
  <2>3. \A s \in Splits : m.own[s] = None => below[s] = L[s]
    BY <2>1 DEF Nodes
  <2>4. ASSUME NEW s \in Splits, m.own[s] # None,
               below[f.kids[s][1]] = L[f.kids[s][1]], below[f.kids[s][2]] = L[f.kids[s][2]]
        PROVE  below[s] = L[s]
    <3>1. s \in Nodes /\ s \notin Panes /\ f.kids[s] # NoKids
      BY <1>7, <2>4, NodesAre DEF Nodes
    <3>2. below[s] = {s} \cup below[f.kids[s][1]] \cup below[f.kids[s][2]]
      BY <1>9, <3>1, Zenon
    <3>3. L[s] = {s} \cup L[f.kids[s][1]] \cup L[f.kids[s][2]]
      BY <1>6, <2>4
    <3> QED BY <2>4, <3>2, <3>3
  <2> QED BY <2>2, <2>3, <2>4, OneAnswer
<1>11. t # None
  BY NodesAre DEF Numbered
<1>12. SplitsOf(f, t) = CutsIn(m, r)
  BY <1>1, <1>2, <1>3, <1>5, <1>10, <1>11
<1>13. ASSUME NEW s \in Splits, m.own[s] = t
       PROVE  m.lo[r] <= m.cut[s] /\ m.cut[s] < m.hi[r]
  <2>1. PICK a, b : a = f.kids[s][1] /\ b = f.kids[s][2]
    BY Zenon
  <2>2. m.lo[s] <= m.cut[s] /\ m.cut[s] < m.hi[s] /\ s \in Nodes
    BY <1>11, <1>13, <2>1, ChildrenAre
  <2>3. 1 <= m.lo[s] /\ m.hi[s] <= Len(m.order[t]) /\ m.lo[s] \in Nat /\ m.hi[s] \in Nat
        /\ m.cut[s] \in Nat /\ Len(m.order[t]) \in Nat
    <3>1. t \in Tabs
      BY DEF Numbered
    <3> QED BY <1>11, <1>13, <2>2, <3>1, NumberTypes
  <2> QED BY <1>3, <2>2, <2>3
<1> QED BY <1>3, <1>12, <1>13 DEF CutsIn

\* The first pane of a node, child a before child b, is the last in the list.
LEMMA FirstPaneIs ==
  ASSUME NEW f, NEW open, NEW m, Numbered(f, open, m), NEW n \in Nodes, m.own[n] # None
  PROVE  FirstPane(f, n) = m.order[m.own[n]][m.hi[n]]
<1> DEFINE Step(g) == [x \in Nodes |-> IF x \in Panes THEN x
                                       ELSE IF f.kids[x] = NoKids THEN None
                                       ELSE g[f.kids[x][1]]]
           first == CHOOSE g : g = Step(g)
           L == [x \in Nodes |-> IF x \in Panes THEN x ELSE IF m.own[x] = None THEN None
                                 ELSE m.order[m.own[x]][m.hi[x]]]
<1>1. FirstPane(f, n) = first[n]
  BY DEF FirstPane
<1>2. \A p \in Panes : m.own[p] # None => m.order[m.own[p]][m.hi[p]] = p
  BY DEF Numbered, PlacesOK
<1>3. \A x \in Nodes : m.own[x] # None => L[x] = m.order[m.own[x]][m.hi[x]]
  BY <1>2
<1>4. \A s \in Splits : m.own[s] # None => L[s] = L[f.kids[s][1]]
  <2> SUFFICES ASSUME NEW s \in Splits, m.own[s] # None PROVE L[s] = L[f.kids[s][1]]
    BY Zenon
  <2>1. PICK a, b : a = f.kids[s][1] /\ b = f.kids[s][2]
    OBVIOUS
  <2>2. s \in Nodes /\ a \in Nodes /\ m.own[a] = m.own[s] /\ m.hi[a] = m.hi[s]
    BY <2>1, ChildrenAre
  <2>3. L[s] = m.order[m.own[s]][m.hi[s]] /\ L[a] = m.order[m.own[a]][m.hi[a]]
    BY <1>3, <2>2
  <2> HIDE DEF L
  <2> QED BY <2>1, <2>2, <2>3, SMTT(30)
<1>7. \A s \in Splits : m.own[s] = None <=> f.kids[s] = NoKids
  BY UsedHaveKids
<1>5. \A p \in Panes : L[p] = p
  BY DEF Nodes
<1>6. \A s \in Splits : m.own[s] = None => L[s] = None
  BY NodesAre DEF Nodes
<1> HIDE DEF L
<1>8. L = Step(L)
  <2> SUFFICES ASSUME NEW x \in Nodes
               PROVE  L[x] = IF x \in Panes THEN x
                             ELSE IF f.kids[x] = NoKids THEN None
                             ELSE L[f.kids[x][1]]
    BY Zenon DEF L
  <2>1. CASE x \in Panes
    BY <1>5, <2>1
  <2>2. CASE x \notin Panes
    BY <1>4, <1>6, <1>7, <2>2, NodesAre
  <2> QED BY <2>1, <2>2
<1>9. first = Step(first)
  BY <1>8, Zenon
<1> HIDE DEF first
<1>10. \A x \in Nodes : first[x] = L[x]
  <2>1. \A p \in Panes : first[p] = L[p]
    <3> SUFFICES ASSUME NEW p \in Panes PROVE first[p] = L[p]
      OBVIOUS
    <3>1. p \in Nodes
      BY DEF Nodes
    <3>2. first[p] = p
      BY <1>9, <3>1, Zenon
    <3> QED BY <1>5, <3>2
  <2>2. \A s \in Splits : m.own[s] = None => first[s] = L[s]
    <3> SUFFICES ASSUME NEW s \in Splits, m.own[s] = None PROVE first[s] = L[s]
      OBVIOUS
    <3>1. s \in Nodes /\ s \notin Panes /\ f.kids[s] = NoKids
      BY <1>7, NodesAre DEF Nodes
    <3>2. first[s] = None
      BY <1>9, <3>1, Zenon
    <3> QED BY <1>6, <3>2
  <2>3. ASSUME NEW s \in Splits, m.own[s] # None,
               first[f.kids[s][1]] = L[f.kids[s][1]]
        PROVE  first[s] = L[s]
    <3>1. s \in Nodes /\ s \notin Panes /\ f.kids[s] # NoKids
      BY <1>7, <2>3, NodesAre DEF Nodes
    <3>2. first[s] = first[f.kids[s][1]]
      BY <1>9, <3>1, Zenon
    <3> QED BY <1>4, <2>3, <3>2
  <2> QED BY <2>1, <2>2, <2>3, OneAnswer
<1> QED BY <1>1, <1>3, <1>10

\* The leaves of a window are the panes its tab owns, in the order.
LEMMA OrderIs ==
  ASSUME NEW f, NEW open, NEW m, Numbered(f, open, m), NEW t \in open
  PROVE  /\ t \in Tabs /\ t # None
         /\ m.order[t] \in Seq(Panes) /\ Len(m.order[t]) \in Nat /\ Len(m.order[t]) >= 1
         /\ Leaves(f, f.root[t]) = m.order[t]
         /\ IsInjective(m.order[t])
         /\ Range(m.order[t]) = {p \in Panes : m.own[p] = t}
<1>1. t \in Tabs /\ t # None
  BY NodesAre DEF Numbered
<1>2. PICK r, q : r = f.root[t] /\ q = m.order[t]
  OBVIOUS
<1>3. r \in Nodes /\ m.own[r] = t /\ m.lo[r] = 1 /\ m.hi[r] = Len(q)
  BY <1>2 DEF Numbered, RootOK
<1>4. q \in Seq(Panes) /\ Len(q) \in Nat /\ Len(q) >= 1
  BY <1>1, <1>2, <1>3, NumberTypes
<1>5. Leaves(f, r) = q
  <2>0. Leaves(f, r) = Part(m, r)
    BY <1>1, <1>3, LeavesIs
  <2>1. Leaves(f, r) = SubSeq(q, 1, Len(q))
    BY <1>2, <1>3, <2>0 DEF Part
  <2>2. 1 \in Nat /\ 1 <= Len(q) + 1
    BY <1>4
  <2>3. /\ SubSeq(q, 1, Len(q)) \in Seq(Panes) /\ Len(SubSeq(q, 1, Len(q))) = Len(q) - 1 + 1
        /\ \A k \in 1..(Len(q) - 1 + 1) : SubSeq(q, 1, Len(q))[k] = q[1 + k - 1]
    BY <1>4, <2>2, PartIs
  <2>4. Len(q) - 1 + 1 = Len(q) /\ \A k \in 1..Len(q) : 1 + k - 1 = k
    BY <1>4
  <2>5. PICK z : z = SubSeq(q, 1, Len(q))
    BY Zenon
  <2>6. z \in Seq(Panes) /\ Len(z) = Len(q) /\ \A k \in 1..Len(q) : z[k] = q[k]
    BY <2>3, <2>4, <2>5
  <2>7. z = q
    BY <1>4, <2>6, SeqEqual
  <2> QED BY <2>1, <2>5, <2>7
<1>6. \A k \in 1..Len(q) : q[k] \in Panes /\ m.own[q[k]] = t /\ m.lo[q[k]] = k
  BY <1>2, <1>4 DEF Numbered, PlacesOK
<1>7. IsInjective(q)
  BY <1>4, <1>6 DEF IsInjective
<1>8. Range(q) = {p \in Panes : m.own[p] = t}
  <2>1. Range(q) \subseteq {p \in Panes : m.own[p] = t}
    BY <1>4, <1>6 DEF Range
  <2>2. ASSUME NEW p \in Panes, m.own[p] = t
        PROVE  p \in Range(q)
    <3>1. p \in Nodes /\ m.order[m.own[p]][m.lo[p]] = p
      BY <1>1, <2>2 DEF Numbered, PlacesOK, Nodes
    <3>2. m.lo[p] \in 1..Len(q)
      BY <1>1, <1>2, <1>4, <2>2, <3>1, NumberTypes
    <3> QED BY <1>2, <1>4, <2>2, <3>1, <3>2 DEF Range
  <2> QED BY <2>1, <2>2
<1> QED BY <1>1, <1>2, <1>4, <1>5, <1>7, <1>8

\* Window.panes answers the panes the tab owns, from the cache or not.
LEMMA ListIs ==
  ASSUME NEW f, NEW open, NEW m, Sound(f, open, m), NEW t \in open
  PROVE  PaneList(f, t) = m.order[t]
<1>1. Leaves(f, f.root[t]) = m.order[t]
  BY OrderIs DEF Sound
<1>2. f.cache[t] = <<>> \/ f.cache[t] = m.order[t]
  BY DEF Sound, WindowsOK
<1> QED BY <1>1, <1>2 DEF PaneList

\* Where a pane stands in the order.
LEMMA PlaceIs ==
  ASSUME NEW f, NEW open, NEW m, Numbered(f, open, m), NEW p \in Panes, m.own[p] # None
  PROVE  /\ p \in Nodes /\ m.own[p] \in open /\ m.own[p] \in Tabs
         /\ m.lo[p] \in Nat /\ m.hi[p] = m.lo[p]
         /\ 1 <= m.lo[p] /\ m.lo[p] <= Len(m.order[m.own[p]])
         /\ m.order[m.own[p]][m.lo[p]] = p
<1>1. p \in Nodes
  BY DEF Nodes
<1>2. m.lo[p] = m.hi[p] /\ m.order[m.own[p]][m.lo[p]] = p
  BY DEF Numbered, PlacesOK
<1> QED BY <1>1, <1>2, NumberTypes

-----------------------------------------------------------------------------
(* Changes that leave the links of the windows alone.                      *)

LEMMA LinksStay ==
  ASSUME NEW f, NEW open, NEW m, Numbered(f, open, m), NEW g \in Trees,
         g.kids = f.kids, g.up = f.up, \A t \in open : g.root[t] = f.root[t]
  PROVE  Numbered(g, open, m)
<1>1. SplitsOK(g, m)
  BY DEF Numbered, SplitsOK, Shares
<1>2. \A n \in Nodes : m.own[n] # None => m.own[n] \in open
  BY NumberTypes
<1>3. ASSUME NEW n \in Nodes
      PROVE  Hangs(g, m, n)
  <2>1. Hangs(f, m, n)
    BY DEF Numbered
  <2>2. m.own[n] # None => g.root[m.own[n]] = f.root[m.own[n]]
    BY <1>2
  <2> QED BY <2>1, <2>2 DEF Hangs
<1>4. \A t \in open : RootOK(g, m, t)
  BY DEF Numbered, RootOK
<1> QED BY <1>1, <1>3, <1>4 DEF Numbered

\* The fields of a tree.
LEMMA TreeFields ==
  ASSUME NEW f \in Trees
  PROVE  /\ f.kids \in [Splits -> (Nodes \cup {None}) \X (Nodes \cup {None})]
         /\ f.up \in [Nodes -> Splits \cup {None}]
         /\ f.root \in [Tabs -> Nodes \cup {None}]
         /\ f.act \in [Tabs -> Panes \cup {None}]
         /\ f.prev \in [Tabs -> Panes \cup {None}]
         /\ f.cache \in [Tabs -> Seq(Panes)]
         /\ f = [kids |-> f.kids, up |-> f.up, root |-> f.root, act |-> f.act,
                 prev |-> f.prev, cache |-> f.cache]
BY DEF Trees

\* The active_pane setter.
LEMMA ActivateIs ==
  ASSUME NEW f \in Trees, NEW t \in Tabs, NEW p \in Panes, NEW g, g = Activate(f, t, p)
  PROVE  /\ g \in Trees
         /\ g.kids = f.kids /\ g.up = f.up /\ g.root = f.root /\ g.cache = f.cache
         /\ g.act = [f.act EXCEPT ![t] = p]
<1>1. CASE p = f.act[t]
  BY <1>1, TreeFields DEF Activate
<1>2. CASE p # f.act[t]
  <2>1. g = [f EXCEPT !.prev[t] = f.act[t], !.act[t] = p]
    BY <1>2 DEF Activate
  <2>2. f.act[t] \in Panes \cup {None}
    BY DEF Trees
  <2>3. g = [kids |-> f.kids, up |-> f.up, root |-> f.root, act |-> [f.act EXCEPT ![t] = p],
             prev |-> [f.prev EXCEPT ![t] = f.act[t]], cache |-> f.cache]
    BY <2>1, Zenon DEF Trees
  <2>4. /\ [f.act EXCEPT ![t] = p] \in [Tabs -> Panes \cup {None}]
        /\ [f.prev EXCEPT ![t] = f.act[t]] \in [Tabs -> Panes \cup {None}]
    BY <2>2, TreeFields
  <2> QED BY <2>3, <2>4, TreeFields DEF Trees
<1> QED BY <1>1, <1>2

\* A surgery drops the cached list.
LEMMA UncachedIs ==
  ASSUME NEW f \in Trees, NEW t \in Tabs, NEW g, g = Uncached(f, t)
  PROVE  /\ g \in Trees
         /\ g.kids = f.kids /\ g.up = f.up /\ g.root = f.root /\ g.act = f.act
         /\ g.cache = [f.cache EXCEPT ![t] = <<>>]
<1>1. g = [f EXCEPT !.cache[t] = <<>>]
  BY DEF Uncached
<1>2. g = [kids |-> f.kids, up |-> f.up, root |-> f.root, act |-> f.act, prev |-> f.prev,
           cache |-> [f.cache EXCEPT ![t] = <<>>]]
  BY <1>1, Zenon DEF Trees
<1>3. [f.cache EXCEPT ![t] = <<>>] \in [Tabs -> Seq(Panes)]
  <2>1. <<>> \in Seq(Panes)
    OBVIOUS
  <2> QED BY <2>1, TreeFields
<1>4. g \in Trees
  BY <1>2, <1>3, TreeFields DEF Trees
<1>5. /\ g.kids = f.kids /\ g.up = f.up /\ g.root = f.root /\ g.act = f.act
      /\ g.cache = [f.cache EXCEPT ![t] = <<>>]
  BY <1>2
<1> QED BY <1>4, <1>5

LEMMA ActivateKeeps ==
  ASSUME NEW f, NEW open, NEW m, Sound(f, open, m), NEW t \in open,
         NEW p \in Panes, m.own[p] = t
  PROVE  Sound(Activate(f, t, p), open, m)
<1>1. PICK g : g = Activate(f, t, p)
  OBVIOUS
<1>2. f \in Trees /\ t \in Tabs /\ open \subseteq Tabs
  BY DEF Sound, Numbered
<1>3. /\ g \in Trees
      /\ g.kids = f.kids /\ g.up = f.up /\ g.root = f.root /\ g.cache = f.cache
      /\ g.act = [f.act EXCEPT ![t] = p]
  BY <1>1, <1>2, ActivateIs
<1>4. Numbered(g, open, m)
  BY <1>3, LinksStay DEF Sound
<1>5. \A u \in open : g.act[u] \in Panes /\ m.own[g.act[u]] = u
  <2>1. f.act \in [Tabs -> Panes \cup {None}]
    BY <1>2, TreeFields
  <2>2. \A u \in open : f.act[u] \in Panes /\ m.own[f.act[u]] = u
    BY DEF Sound, WindowsOK
  <2> QED BY <1>2, <1>3, <2>1, <2>2
<1>6. WindowsOK(g, open, m)
  BY <1>3, <1>5 DEF Sound, WindowsOK
<1> QED BY <1>1, <1>4, <1>6 DEF Sound

\* Another content of the caches.
LEMMA CachesKeep ==
  ASSUME NEW f, NEW open, NEW m, Sound(f, open, m), NEW cache,
         cache \in [Tabs -> Seq(Panes)],
         \A t \in open : cache[t] \in {<<>>, m.order[t]},
         \A t \in Tabs \ open : cache[t] = <<>>
  PROVE  Sound([f EXCEPT !.cache = cache], open, m)
<1>1. PICK g : g = [f EXCEPT !.cache = cache]
  BY Zenon
<1>2. f \in Trees
  BY DEF Sound, Numbered
<1>3. /\ g \in Trees /\ g.kids = f.kids /\ g.up = f.up /\ g.root = f.root
      /\ g.act = f.act /\ g.cache = cache
  BY <1>1, <1>2, Zenon DEF Trees
<1>4. Numbered(g, open, m)
  BY <1>3, LinksStay DEF Sound
<1>5. WindowsOK(g, open, m)
  BY <1>3 DEF Sound, WindowsOK
<1> QED BY <1>1, <1>4, <1>5 DEF Sound

LEMMA ListedKeeps ==
  ASSUME NEW f, NEW open, NEW m, Sound(f, open, m), NEW t \in open
  PROVE  Sound(Listed(f, t), open, m)
<1>1. PICK c : c = [f.cache EXCEPT ![t] = m.order[t]]
  BY Zenon
<1>2. f \in Trees /\ t \in Tabs /\ open \subseteq Tabs
  BY DEF Sound, Numbered
<1>3. f.cache \in [Tabs -> Seq(Panes)] /\ m.order[t] \in Seq(Panes)
  BY <1>2, TreeFields, OrderIs DEF Sound
<1>4. /\ \A u \in open : f.cache[u] \in {<<>>, m.order[u]}
      /\ \A u \in Tabs \ open : f.cache[u] = <<>>
  BY DEF Sound, WindowsOK
<1>5. /\ c \in [Tabs -> Seq(Panes)]
      /\ \A u \in open : c[u] \in {<<>>, m.order[u]}
      /\ \A u \in Tabs \ open : c[u] = <<>>
  BY <1>1, <1>2, <1>3, <1>4
<1>6. Sound([f EXCEPT !.cache = c], open, m)
  BY <1>5, CachesKeep
<1>7. Listed(f, t) = [f EXCEPT !.cache = c]
  BY <1>1, ListIs DEF Listed
<1> QED BY <1>6, <1>7

-----------------------------------------------------------------------------
(* The surgeries on trees.                                                 *)

\* A split is free as long as a pane has no place: each split in use goes
\* with the pane before its cut, and there are as many splits as panes.
LEMMA FreeSplitIs ==
  ASSUME NEW f, NEW open, NEW m, Numbered(f, open, m), NEW p \in Panes, m.own[p] = None
  PROVE  /\ FreeSplit(f) \in Splits /\ f.kids[FreeSplit(f)] = NoKids
         /\ m.own[FreeSplit(f)] = None
<1>1. ASSUME \A s \in Splits : m.own[s] # None
      PROVE  FALSE
  <2> DEFINE g == [s \in Splits |-> m.order[m.own[s]][m.cut[s]]]
  <2>1. ASSUME NEW s \in Splits
        PROVE  /\ g[s] \in Panes \ {p} /\ m.own[g[s]] = m.own[s] /\ m.lo[g[s]] = m.cut[s]
    <3>1. PICK a, b, t, q : a = f.kids[s][1] /\ b = f.kids[s][2] /\ t = m.own[s] /\ q = m.order[t]
      OBVIOUS
    <3>2. m.lo[s] <= m.cut[s] /\ m.cut[s] < m.hi[s] /\ s \in Nodes
      BY <1>1, <3>1, ChildrenAre
    <3>3. /\ t \in open /\ t # None /\ m.lo[s] \in Nat /\ m.hi[s] \in Nat /\ m.cut[s] \in Nat
          /\ 1 <= m.lo[s] /\ m.hi[s] <= Len(q) /\ Len(q) \in Nat /\ q \in Seq(Panes)
      BY <1>1, <3>1, <3>2, NumberTypes
    <3>4. m.cut[s] \in 1..Len(q)
      BY <3>2, <3>3, SMTT(30)
    <3>5. m.own[q[m.cut[s]]] = t /\ m.lo[q[m.cut[s]]] = m.cut[s]
      BY <3>1, <3>3, <3>4, Zenon DEF Numbered, PlacesOK
    <3>6. q[m.cut[s]] \in Panes
      BY <3>3, <3>4
    <3>7. g[s] = q[m.cut[s]]
      BY <3>1
    <3> QED BY <3>1, <3>3, <3>5, <3>6, <3>7, Zenon
  <2>2. g \in [Splits -> Panes \ {p}]
    BY <2>1
  <2>3. \A s, r \in Splits : g[s] = g[r] => s = r
    <3>1. \A s, r \in Splits : m.own[s] = m.own[r] /\ m.cut[s] = m.cut[r] => s = r
      BY <1>1 DEF Numbered, CutsOK
    <3> HIDE DEF g
    <3> QED BY <2>1, <3>1
  <2> HIDE DEF g
  <2>4. IsFiniteSet(Panes) /\ Cardinality(Panes) = MaxPane
    <3>1. IsFiniteSet(1..MaxPane) /\ Cardinality(1..MaxPane) = IF 1 > MaxPane THEN 0 ELSE MaxPane - 1 + 1
      BY NodesAre, FS_Interval
    <3> QED BY <3>1, NodesAre DEF Panes
  <2>5. IsFiniteSet(Splits) /\ Cardinality(Splits) = MaxPane
    <3>0. MaxPane + 1 \in Int /\ 2 * MaxPane \in Int
      BY NodesAre
    <3>1. /\ IsFiniteSet((MaxPane + 1)..(2 * MaxPane))
          /\ Cardinality((MaxPane + 1)..(2 * MaxPane))
               = IF MaxPane + 1 > 2 * MaxPane THEN 0 ELSE 2 * MaxPane - (MaxPane + 1) + 1
      BY <3>0, FS_Interval
    <3> QED BY <3>1, NodesAre DEF Splits
  <2>6. IsFiniteSet(Panes \ {p}) /\ Cardinality(Panes \ {p}) = MaxPane - 1
    BY <2>4, FS_RemoveElement
  <2>7. Cardinality(Panes \ {p}) < Cardinality(Splits)
    BY <2>5, <2>6, NodesAre
  <2>8. \E x, y \in Splits : x # y /\ g[x] = g[y]
    BY <2>2, <2>5, <2>6, <2>7, FS_PigeonHole
  <2> QED BY <2>3, <2>8, SMTT(30)
<1>2. \E s \in Splits : f.kids[s] = NoKids
  BY <1>1, UsedHaveKids
<1>3. FreeSplit(f) \in Splits /\ f.kids[FreeSplit(f)] = NoKids
  BY <1>2 DEF FreeSplit
<1> QED BY <1>3, UsedHaveKids

\* A node put into the slot of another.
LEMMA InSlotIs ==
  ASSUME NEW f \in Trees, NEW t \in Tabs, NEW gp \in Splits \cup {None},
         NEW old, NEW new \in Nodes, NEW g, g = InSlot(f, t, gp, old, new)
  PROVE  /\ g \in Trees /\ g.up = f.up /\ g.act = f.act /\ g.prev = f.prev /\ g.cache = f.cache
         /\ g.root = IF gp = None THEN [f.root EXCEPT ![t] = new] ELSE f.root
         /\ \A x \in Splits : x # gp => g.kids[x] = f.kids[x]
         /\ \A x \in Splits : x = gp =>
              /\ g.kids[x][1] = IF f.kids[x][1] = old THEN new ELSE f.kids[x][1]
              /\ g.kids[x][2] = IF f.kids[x][2] = old THEN new ELSE f.kids[x][2]
<1>1. CASE gp = None
  <2>1. g = [f EXCEPT !.root[t] = new]
    BY <1>1 DEF InSlot
  <2>2. g = [kids |-> f.kids, up |-> f.up, root |-> [f.root EXCEPT ![t] = new], act |-> f.act,
             prev |-> f.prev, cache |-> f.cache]
    BY <2>1, Zenon DEF Trees
  <2>3. [f.root EXCEPT ![t] = new] \in [Tabs -> Nodes \cup {None}]
    BY TreeFields
  <2>4. None \notin Splits
    BY NodesAre DEF Nodes
  <2>5. g \in Trees
    BY <2>2, <2>3, TreeFields DEF Trees
  <2>6. /\ g.up = f.up /\ g.act = f.act /\ g.prev = f.prev /\ g.cache = f.cache
        /\ g.root = [f.root EXCEPT ![t] = new] /\ g.kids = f.kids
    BY <2>2
  <2> QED BY <1>1, <2>4, <2>5, <2>6
<1>2. CASE gp # None
  <2>0. gp \in Splits /\ f.kids \in [Splits -> (Nodes \cup {None}) \X (Nodes \cup {None})]
    BY <1>2, TreeFields
  <2>1. PICK k : k = [i \in 1..2 |-> IF f.kids[gp][i] = old THEN new ELSE f.kids[gp][i]]
    BY Zenon
  <2>2. g = [f EXCEPT !.kids[gp] = k]
    BY <1>2, <2>1 DEF InSlot
  <2>3. f.kids[gp][1] \in Nodes \cup {None} /\ f.kids[gp][2] \in Nodes \cup {None}
    BY <2>0
  <2>4. k = <<k[1], k[2]>>
    <3>1. k \in [1..2 -> Nodes \cup {None}]
      BY <2>1, <2>3
    <3>2. k \in Seq(Nodes \cup {None})
      BY <3>1, 2 \in Nat, SeqDef, Zenon
    <3>3. Len(k) = 2
      BY <3>1, <3>2
    <3> QED BY <3>2, <3>3
  <2>5. /\ k[1] = IF f.kids[gp][1] = old THEN new ELSE f.kids[gp][1]
        /\ k[2] = IF f.kids[gp][2] = old THEN new ELSE f.kids[gp][2]
    BY <2>1
  <2>6. k \in (Nodes \cup {None}) \X (Nodes \cup {None})
    BY <2>3, <2>4, <2>5
  <2>7. g = [kids |-> [f.kids EXCEPT ![gp] = k], up |-> f.up, root |-> f.root, act |-> f.act,
             prev |-> f.prev, cache |-> f.cache]
    BY <2>2, Zenon DEF Trees
  <2>8. [f.kids EXCEPT ![gp] = k] \in [Splits -> (Nodes \cup {None}) \X (Nodes \cup {None})]
    BY <2>0, <2>6
  <2>9. /\ \A x \in Splits : x # gp => [f.kids EXCEPT ![gp] = k][x] = f.kids[x]
        /\ [f.kids EXCEPT ![gp] = k][gp] = k
    BY <2>0
  <2>10. g \in Trees
    BY <2>7, <2>8, TreeFields DEF Trees
  <2> QED BY <1>2, <2>5, <2>7, <2>9, <2>10
<1> QED BY <1>1, <1>2

\* The root of a window has no parent, every other node of a window has one.
LEMMA ParentIs ==
  ASSUME NEW f, NEW open, NEW m, Numbered(f, open, m), NEW n \in Nodes, m.own[n] # None,
         NEW gp, gp = f.up[n]
  PROVE  /\ gp = None <=> n = f.root[m.own[n]]
         /\ gp # None => /\ gp \in Splits /\ gp \in Nodes /\ m.own[gp] = m.own[n]
                         /\ n = f.kids[gp][1] \/ n = f.kids[gp][2]
<1>1. Hangs(f, m, n)
  BY DEF Numbered
<1>2. None \notin Splits
  BY NodesAre DEF Nodes
<1> QED BY <1>1, <1>2 DEF Hangs, Nodes

\* A node of a window is the child of no split but its parent.
LEMMA ChildOfParent ==
  ASSUME NEW f, NEW open, NEW m, Numbered(f, open, m), NEW s \in Splits, m.own[s] # None,
         NEW n, n = f.kids[s][1] \/ n = f.kids[s][2]
  PROVE  f.up[n] = s /\ n \in Nodes /\ m.own[n] = m.own[s] /\ n # f.root[m.own[s]]
<1>1. f.up[n] = s /\ n \in Nodes /\ m.own[n] = m.own[s]
  BY ChildrenAre
<1>2. s # None
  BY NodesAre DEF Nodes
<1> QED BY <1>1, <1>2, ParentIs

\* What Beside does to the links.
BesideLinks(f, g, t, target, p, s) ==
  LET gp == f.up[target]
  IN /\ g.root = IF gp = None THEN [f.root EXCEPT ![t] = s] ELSE f.root
     /\ \A x \in Splits : x # gp /\ x # s => g.kids[x] = f.kids[x]
     /\ \A x \in Splits : x = gp =>
          /\ g.kids[x][1] = IF f.kids[x][1] = target THEN s ELSE f.kids[x][1]
          /\ g.kids[x][2] = IF f.kids[x][2] = target THEN s ELSE f.kids[x][2]
     /\ g.kids[s] = <<target, p>>
     /\ g.up = [f.up EXCEPT ![s] = gp, ![target] = s, ![p] = s]

LEMMA BesideIs ==
  ASSUME NEW f, NEW open, NEW m, Numbered(f, open, m), NEW t \in open,
         NEW target \in Panes, m.own[target] = t, NEW p \in Panes, m.own[p] = None,
         NEW g, g = Beside(f, t, target, p), NEW s, s = FreeSplit(f)
  PROVE  /\ BesideLinks(f, g, t, target, p, s) /\ g \in Trees
         /\ g.act = [f.act EXCEPT ![t] = p] /\ g.cache = [f.cache EXCEPT ![t] = <<>>]
<1>1. /\ f \in Trees /\ t \in Tabs /\ t # None /\ target \in Nodes /\ p \in Nodes
      /\ None \notin Splits
  BY NodesAre DEF Numbered, Nodes
<1>2. s \in Splits /\ m.own[s] = None /\ s \in Nodes
  BY FreeSplitIs DEF Nodes
<1>3. PICK gp : gp = f.up[target]
  OBVIOUS
<1>4. gp \in Splits \cup {None} /\ gp # s
  <2>1. gp # None => gp \in Splits /\ m.own[gp] = t
    BY <1>1, <1>3, ParentIs
  <2> QED BY <1>1, <1>2, <2>1
<1>5. PICK h : h = InSlot(f, t, gp, target, s)
  OBVIOUS
<1>6. /\ h \in Trees /\ h.up = f.up /\ h.act = f.act /\ h.prev = f.prev /\ h.cache = f.cache
      /\ h.root = IF gp = None THEN [f.root EXCEPT ![t] = s] ELSE f.root
      /\ \A x \in Splits : x # gp => h.kids[x] = f.kids[x]
      /\ \A x \in Splits : x = gp =>
           /\ h.kids[x][1] = IF f.kids[x][1] = target THEN s ELSE f.kids[x][1]
           /\ h.kids[x][2] = IF f.kids[x][2] = target THEN s ELSE f.kids[x][2]
  BY <1>1, <1>2, <1>4, <1>5, InSlotIs
<1>7. PICK u : u = [h EXCEPT !.kids[s] = <<target, p>>, !.up[s] = gp, !.up[target] = s, !.up[p] = s]
  OBVIOUS
<1>8. u = [kids |-> [h.kids EXCEPT ![s] = <<target, p>>],
           up |-> [h.up EXCEPT ![s] = gp, ![target] = s, ![p] = s],
           root |-> h.root, act |-> h.act, prev |-> h.prev, cache |-> h.cache]
  BY <1>6, <1>7, Zenon DEF Trees
<1>9. u \in Trees
  <2>1. [h.kids EXCEPT ![s] = <<target, p>>] \in [Splits -> (Nodes \cup {None}) \X (Nodes \cup {None})]
    BY <1>1, <1>2, <1>6, TreeFields
  <2>2. [h.up EXCEPT ![s] = gp, ![target] = s, ![p] = s] \in [Nodes -> Splits \cup {None}]
    BY <1>1, <1>2, <1>4, <1>6, TreeFields, Zenon
  <2> QED BY <1>6, <1>8, <2>1, <2>2, TreeFields, Zenon DEF Trees
<1>10. /\ u.up = [f.up EXCEPT ![s] = gp, ![target] = s, ![p] = s]
       /\ u.root = h.root /\ u.act = f.act /\ u.cache = f.cache
       /\ u.kids[s] = <<target, p>> /\ \A x \in Splits : x # s => u.kids[x] = h.kids[x]
  <2>1. /\ u.up = [h.up EXCEPT ![s] = gp, ![target] = s, ![p] = s]
        /\ u.root = h.root /\ u.act = h.act /\ u.cache = h.cache
        /\ u.kids = [h.kids EXCEPT ![s] = <<target, p>>]
    BY <1>8
  <2>2. h.kids \in [Splits -> (Nodes \cup {None}) \X (Nodes \cup {None})]
    BY <1>6, TreeFields
  <2> QED BY <1>2, <1>6, <2>1, <2>2
<1>11. PICK v : v = Activate(u, t, p)
  OBVIOUS
<1>12. /\ v \in Trees /\ v.kids = u.kids /\ v.up = u.up /\ v.root = u.root /\ v.cache = u.cache
       /\ v.act = [u.act EXCEPT ![t] = p]
  BY <1>1, <1>9, <1>11, ActivateIs
<1>13. g = Uncached(v, t)
  BY <1>3, <1>5, <1>7, <1>11 DEF Beside
<1>14. /\ g \in Trees /\ g.kids = v.kids /\ g.up = v.up /\ g.root = v.root /\ g.act = v.act
       /\ g.cache = [v.cache EXCEPT ![t] = <<>>]
  BY <1>1, <1>12, <1>13, UncachedIs
<1>15. g.act = [f.act EXCEPT ![t] = p] /\ g.cache = [f.cache EXCEPT ![t] = <<>>]
  BY <1>10, <1>12, <1>14
<1>16. g.kids[s] = <<target, p>> /\ \A x \in Splits : x # s => g.kids[x] = h.kids[x]
  BY <1>10, <1>12, <1>14
<1>17. g.up = [f.up EXCEPT ![s] = gp, ![target] = s, ![p] = s] /\ g.root = h.root
  BY <1>10, <1>12, <1>14
<1>18. BesideLinks(f, g, t, target, p, s)
  BY <1>3, <1>4, <1>6, <1>16, <1>17 DEF BesideLinks
<1> QED BY <1>14, <1>15, <1>18

\* The numbering after Beside: p comes right before its target in the order,
\* and the new split s cuts between them.
Widened(m, t, target, p, s) ==
  LET k == m.lo[target]
  IN [own |-> [n \in Nodes |-> IF n \in {p, s} THEN t ELSE m.own[n]],
      lo |-> [n \in Nodes |->
        IF n \in {p, s} THEN k ELSE IF n = target THEN k + 1
        ELSE IF m.own[n] = t /\ m.lo[n] > k THEN m.lo[n] + 1 ELSE m.lo[n]],
      hi |-> [n \in Nodes |->
        IF n = p THEN k ELSE IF n \in {s, target} THEN k + 1
        ELSE IF m.own[n] = t /\ m.hi[n] >= k THEN m.hi[n] + 1 ELSE m.hi[n]],
      cut |-> [x \in Splits |->
        IF x = s THEN k ELSE IF m.own[x] = t /\ m.cut[x] >= k THEN m.cut[x] + 1 ELSE m.cut[x]],
      order |-> [m.order EXCEPT ![t] = InsertAt(m.order[t], k, p)]]

\* The same, node by node.
WidenedFacts(m, w, t, target, p, s, k) ==
  /\ w.own[p] = t /\ w.lo[p] = k /\ w.hi[p] = k
  /\ w.own[s] = t /\ w.lo[s] = k /\ w.hi[s] = k + 1 /\ w.cut[s] = k
  /\ w.own[target] = t /\ w.lo[target] = k + 1 /\ w.hi[target] = k + 1
  /\ \A n \in Nodes : n # p /\ n # s => w.own[n] = m.own[n]
  /\ \A n \in Nodes : n # p /\ n # s /\ n # target =>
       /\ w.lo[n] = IF m.own[n] = t /\ m.lo[n] > k THEN m.lo[n] + 1 ELSE m.lo[n]
       /\ w.hi[n] = IF m.own[n] = t /\ m.hi[n] >= k THEN m.hi[n] + 1 ELSE m.hi[n]
  /\ \A x \in Splits : x # s =>
       w.cut[x] = IF m.own[x] = t /\ m.cut[x] >= k THEN m.cut[x] + 1 ELSE m.cut[x]
  /\ \A u \in Tabs : u # t => w.order[u] = m.order[u]
  /\ w.order[t] \in Seq(Panes) /\ Len(w.order[t]) = Len(m.order[t]) + 1
  /\ \A j \in 1..(Len(m.order[t]) + 1) :
       w.order[t][j] = IF j < k THEN m.order[t][j] ELSE IF j = k THEN p ELSE m.order[t][j - 1]

LEMMA WidenedIs ==
  ASSUME NEW f, NEW open, NEW m, Numbered(f, open, m), NEW t \in open,
         NEW target \in Panes, m.own[target] = t, NEW p \in Panes, m.own[p] = None,
         NEW s \in Splits, m.own[s] = None, NEW k, k = m.lo[target],
         NEW w, w = Widened(m, t, target, p, s)
  PROVE  w \in Marks /\ WidenedFacts(m, w, t, target, p, s, k)
<1>1. /\ t \in Tabs /\ t # None /\ target \in Nodes /\ p \in Nodes /\ s \in Nodes
      /\ p # s /\ target # s /\ p # target
  BY NodesAre DEF Numbered, Nodes
<1>2. m \in Marks /\ \A n \in Nodes : m.lo[n] \in Nat /\ m.hi[n] \in Nat
  BY NumberTypes DEF Numbered
<1>3. k \in Nat /\ 1 <= k /\ k <= Len(m.order[t]) /\ m.order[t] \in Seq(Panes)
  BY <1>1, PlaceIs, NumberTypes
<1>4. PICK q : q = InsertAt(m.order[t], k, p)
  OBVIOUS
<1>5. q \in Seq(Panes) /\ Grown(q, m.order[t], k, p)
  <2>1. k \in 1..(Len(m.order[t]) + 1)
    BY <1>3
  <2> QED BY <1>3, <1>4, <2>1, InsertedIs
<1>6. w = [own |-> [n \in Nodes |-> IF n \in {p, s} THEN t ELSE m.own[n]],
      lo |-> [n \in Nodes |->
        IF n \in {p, s} THEN k ELSE IF n = target THEN k + 1
        ELSE IF m.own[n] = t /\ m.lo[n] > k THEN m.lo[n] + 1 ELSE m.lo[n]],
      hi |-> [n \in Nodes |->
        IF n = p THEN k ELSE IF n \in {s, target} THEN k + 1
        ELSE IF m.own[n] = t /\ m.hi[n] >= k THEN m.hi[n] + 1 ELSE m.hi[n]],
      cut |-> [x \in Splits |->
        IF x = s THEN k ELSE IF m.own[x] = t /\ m.cut[x] >= k THEN m.cut[x] + 1 ELSE m.cut[x]],
      order |-> [m.order EXCEPT ![t] = q]]
  BY <1>4 DEF Widened
<1>7. /\ w.own = [n \in Nodes |-> IF n \in {p, s} THEN t ELSE m.own[n]]
      /\ w.lo = [n \in Nodes |->
           IF n \in {p, s} THEN k ELSE IF n = target THEN k + 1
           ELSE IF m.own[n] = t /\ m.lo[n] > k THEN m.lo[n] + 1 ELSE m.lo[n]]
      /\ w.hi = [n \in Nodes |->
           IF n = p THEN k ELSE IF n \in {s, target} THEN k + 1
           ELSE IF m.own[n] = t /\ m.hi[n] >= k THEN m.hi[n] + 1 ELSE m.hi[n]]
      /\ w.cut = [x \in Splits |->
           IF x = s THEN k ELSE IF m.own[x] = t /\ m.cut[x] >= k THEN m.cut[x] + 1 ELSE m.cut[x]]
      /\ w.order = [m.order EXCEPT ![t] = q]
  BY <1>6
<1>8. m.order \in [Tabs -> Seq(Panes)] /\ m.own \in [Nodes -> Tabs \cup {None}]
      /\ m.cut \in [Splits -> Nat]
  BY <1>2 DEF Marks
<1>9. w \in Marks
  <2>1. w.own \in [Nodes -> Tabs \cup {None}]
    BY <1>1, <1>7, <1>8
  <2>2. w.lo \in [Nodes -> Nat] /\ w.hi \in [Nodes -> Nat]
    <3>1. /\ \A n \in Nodes : m.lo[n] \in Nat /\ m.lo[n] + 1 \in Nat
          /\ \A n \in Nodes : m.hi[n] \in Nat /\ m.hi[n] + 1 \in Nat
          /\ k \in Nat /\ k + 1 \in Nat
      BY <1>2, <1>3
    <3>2. w.lo \in [Nodes -> Nat]
      <4>1. \A n \in Nodes : w.lo[n] \in {k, k + 1, m.lo[n], m.lo[n] + 1}
        BY <1>7, <3>1
      <4>2. \A n \in Nodes : w.lo[n] \in Nat
        BY <3>1, <4>1
      <4>3. w.lo = [n \in Nodes |-> w.lo[n]]
        BY <1>7
      <4> QED BY <4>2, <4>3
    <3>3. w.hi \in [Nodes -> Nat]
      BY <1>7, <3>1, SMTT(30)
    <3> QED BY <3>2, <3>3
  <2>3. w.cut \in [Splits -> Nat]
    BY <1>3, <1>7, <1>8
  <2>4. w.order \in [Tabs -> Seq(Panes)]
    <3>1. q \in Seq(Panes)
      BY <1>5
    <3> QED BY <1>1, <1>7, <1>8, <3>1
  <2>5. w = [own |-> w.own, lo |-> w.lo, hi |-> w.hi, cut |-> w.cut, order |-> w.order]
    BY <1>6
  <2> QED BY <2>1, <2>2, <2>3, <2>4, <2>5 DEF Marks
<1>10. w.order[t] = q /\ \A u \in Tabs : u # t => w.order[u] = m.order[u]
  BY <1>1, <1>7, <1>8
<1>11. WidenedFacts(m, w, t, target, p, s, k)
  <2>1. /\ w.own[p] = t /\ w.lo[p] = k /\ w.hi[p] = k
        /\ w.own[s] = t /\ w.lo[s] = k /\ w.hi[s] = k + 1 /\ w.cut[s] = k
        /\ w.own[target] = t /\ w.lo[target] = k + 1 /\ w.hi[target] = k + 1
    BY <1>1, <1>7
  <2>2. \A n \in Nodes : n # p /\ n # s => w.own[n] = m.own[n]
    BY <1>7
  <2>3. \A n \in Nodes : n # p /\ n # s /\ n # target =>
       /\ w.lo[n] = IF m.own[n] = t /\ m.lo[n] > k THEN m.lo[n] + 1 ELSE m.lo[n]
       /\ w.hi[n] = IF m.own[n] = t /\ m.hi[n] >= k THEN m.hi[n] + 1 ELSE m.hi[n]
    BY <1>7
  <2>4. \A x \in Splits : x # s =>
       w.cut[x] = IF m.own[x] = t /\ m.cut[x] >= k THEN m.cut[x] + 1 ELSE m.cut[x]
    BY <1>7
  <2> QED BY <1>5, <1>10, <2>1, <2>2, <2>3, <2>4 DEF WidenedFacts, Grown
<1> QED BY <1>9, <1>11

\* split_pane and join_pane: the new numbering fits the new links.
LEMMA BesideNumbered ==
  ASSUME NEW f, NEW open, NEW m, Numbered(f, open, m), NEW t \in open,
         NEW target \in Panes, m.own[target] = t, NEW p \in Panes, m.own[p] = None,
         NEW s \in Splits, m.own[s] = None,
         NEW g \in Trees, BesideLinks(f, g, t, target, p, s),
         NEW w, w = Widened(m, t, target, p, s)
  PROVE  Numbered(g, open, w)
<1>1. PICK k, l, gp : k = m.lo[target] /\ l = Len(m.order[t]) /\ gp = f.up[target]
  BY Zenon
<1>2. w \in Marks /\ WidenedFacts(m, w, t, target, p, s, k)
  BY <1>1, WidenedIs
<1>3. /\ t \in Tabs /\ t # None /\ target \in Nodes /\ p \in Nodes /\ s \in Nodes
      /\ p # s /\ target # s /\ p # target /\ None \notin Splits /\ open \subseteq Tabs
      /\ p \notin Splits /\ target \notin Splits /\ s \notin Panes
  BY NodesAre DEF Numbered, Nodes
<1>4. /\ m.hi[target] = k /\ k \in Nat /\ 1 <= k /\ k <= l /\ l \in Nat
      /\ m.order[t][k] = target
  BY <1>1, <1>3, PlaceIs, NumberTypes
<1>5. \A n \in Nodes : m.lo[n] \in Nat /\ m.hi[n] \in Nat
  BY NumberTypes
<1>6. \A x \in Splits : m.cut[x] \in Nat
  BY NumberTypes
<1>7. /\ w.own[p] = t /\ w.lo[p] = k /\ w.hi[p] = k
      /\ w.own[s] = t /\ w.lo[s] = k /\ w.hi[s] = k + 1 /\ w.cut[s] = k
      /\ w.own[target] = t /\ w.lo[target] = k + 1 /\ w.hi[target] = k + 1
  BY <1>2 DEF WidenedFacts
<1>8. /\ \A n \in Nodes : n # p /\ n # s => w.own[n] = m.own[n]
      /\ \A n \in Nodes : n # p /\ n # s /\ n # target =>
           /\ w.lo[n] = IF m.own[n] = t /\ m.lo[n] > k THEN m.lo[n] + 1 ELSE m.lo[n]
           /\ w.hi[n] = IF m.own[n] = t /\ m.hi[n] >= k THEN m.hi[n] + 1 ELSE m.hi[n]
  BY <1>2 DEF WidenedFacts
<1>9. \A x \in Splits : x # s =>
        w.cut[x] = IF m.own[x] = t /\ m.cut[x] >= k THEN m.cut[x] + 1 ELSE m.cut[x]
  BY <1>2 DEF WidenedFacts
<1>10. /\ \A u \in Tabs : u # t => w.order[u] = m.order[u]
       /\ w.order[t] \in Seq(Panes) /\ Len(w.order[t]) = l + 1
       /\ \A j \in 1..(l + 1) :
            w.order[t][j] = IF j < k THEN m.order[t][j] ELSE IF j = k THEN p ELSE m.order[t][j - 1]
  BY <1>1, <1>2 DEF WidenedFacts
<1>11. /\ g.root = IF gp = None THEN [f.root EXCEPT ![t] = s] ELSE f.root
       /\ g.up = [f.up EXCEPT ![s] = gp, ![target] = s, ![p] = s]
       /\ g.kids[s] = <<target, p>>
  BY <1>1 DEF BesideLinks
<1>12. /\ \A x \in Splits : x # gp /\ x # s => g.kids[x] = f.kids[x]
       /\ \A x \in Splits : x = gp =>
          /\ g.kids[x][1] = IF f.kids[x][1] = target THEN s ELSE f.kids[x][1]
          /\ g.kids[x][2] = IF f.kids[x][2] = target THEN s ELSE f.kids[x][2]
  BY <1>1 DEF BesideLinks
<1>13. /\ gp = None <=> target = f.root[t]
       /\ gp # None => /\ gp \in Splits /\ gp \in Nodes /\ m.own[gp] = t
                       /\ target = f.kids[gp][1] \/ target = f.kids[gp][2]
  BY <1>1, <1>3, ParentIs
<1>14. /\ g.up[s] = gp /\ g.up[target] = s /\ g.up[p] = s
       /\ \A n \in Nodes : n # s /\ n # target /\ n # p => g.up[n] = f.up[n]
       /\ g.root[t] = IF gp = None THEN s ELSE f.root[t]
       /\ \A u \in Tabs : u # t => g.root[u] = f.root[u]
  <2>1. f.up \in [Nodes -> Splits \cup {None}] /\ f.root \in [Tabs -> Nodes \cup {None}]
    BY TreeFields DEF Numbered
  <2> QED BY <1>3, <1>11, <2>1
<1>15. NodesOK(open, w)
  <2> SUFFICES ASSUME NEW n \in Nodes, w.own[n] # None
               PROVE  /\ w.own[n] \in open
                      /\ 1 <= w.lo[n] /\ w.lo[n] <= w.hi[n] /\ w.hi[n] <= Len(w.order[w.own[n]])
    BY DEF NodesOK
  <2>1. CASE n \in {p, s, target}
    BY <1>4, <1>7, <1>10, <2>1
  <2>2. CASE n \notin {p, s, target}
    <3>1. /\ w.own[n] = m.own[n]
          /\ w.lo[n] = IF m.own[n] = t /\ m.lo[n] > k THEN m.lo[n] + 1 ELSE m.lo[n]
          /\ w.hi[n] = IF m.own[n] = t /\ m.hi[n] >= k THEN m.hi[n] + 1 ELSE m.hi[n]
      BY <1>8, <2>2
    <3>2. /\ m.own[n] \in open /\ m.own[n] \in Tabs
          /\ 1 <= m.lo[n] /\ m.lo[n] <= m.hi[n] /\ m.hi[n] <= Len(m.order[m.own[n]])
      BY <3>1, NumberTypes
    <3>3. CASE m.own[n] = t
      <4>1. m.hi[n] <= l /\ Len(w.order[w.own[n]]) = l + 1
        BY <1>1, <1>10, <3>1, <3>2, <3>3
      <4> QED BY <1>4, <1>5, <3>1, <3>2, <4>1, SMTT(30)
    <3>4. CASE m.own[n] # t
      BY <1>10, <3>1, <3>2, <3>4
    <3> QED BY <3>3, <3>4
  <2> QED BY <2>1, <2>2
<1>16. PlacesOK(open, w)
  <2>1. ASSUME NEW x \in Panes, w.own[x] # None
        PROVE  w.lo[x] = w.hi[x] /\ w.order[w.own[x]][w.lo[x]] = x
    <3>1. CASE x = p
      <4>1. k \in 1..(l + 1)
        BY <1>4
      <4> QED BY <1>7, <1>10, <3>1, <4>1
    <3>2. CASE x = target
      <4>1. k + 1 \in 1..(l + 1) /\ ~(k + 1 < k) /\ k + 1 # k /\ k + 1 - 1 = k
        BY <1>4
      <4>2. w.order[t][k + 1] = m.order[t][k]
        <5>1. PICK j : j = k + 1
          OBVIOUS
        <5>2. j \in 1..(l + 1) /\ ~(j < k) /\ j # k /\ j - 1 = k
          BY <1>4, <4>1, <5>1
        <5>3. w.order[t][j] = m.order[t][j - 1]
          BY <1>10, <5>2
        <5> QED BY <5>1, <5>2, <5>3
      <4> QED BY <1>4, <1>7, <3>2, <4>2
    <3>3. CASE x # p /\ x # target
      <4>1. x \in Nodes /\ x # s
        BY <1>3 DEF Nodes
      <4>2. /\ w.own[x] = m.own[x]
            /\ w.lo[x] = IF m.own[x] = t /\ m.lo[x] > k THEN m.lo[x] + 1 ELSE m.lo[x]
            /\ w.hi[x] = IF m.own[x] = t /\ m.hi[x] >= k THEN m.hi[x] + 1 ELSE m.hi[x]
        BY <1>8, <3>3, <4>1
      <4>3. /\ m.own[x] \in Tabs /\ m.lo[x] \in Nat /\ m.hi[x] = m.lo[x] /\ 1 <= m.lo[x]
            /\ m.lo[x] <= Len(m.order[m.own[x]]) /\ m.order[m.own[x]][m.lo[x]] = x
        BY <2>1, <4>2, PlaceIs
      <4>4. CASE m.own[x] # t
        BY <1>10, <4>2, <4>3, <4>4
      <4>5. CASE m.own[x] = t /\ m.lo[x] > k
        <5>1. m.lo[x] + 1 \in 1..(l + 1) /\ ~(m.lo[x] + 1 < k) /\ m.lo[x] + 1 # k
              /\ m.lo[x] + 1 - 1 = m.lo[x]
          BY <1>1, <1>4, <4>3, <4>5
        <5>2. w.order[t][m.lo[x] + 1] = m.order[t][m.lo[x]]
          <6>1. PICK j : j = m.lo[x] + 1
            OBVIOUS
          <6>2. j \in 1..(l + 1) /\ ~(j < k) /\ j # k /\ j - 1 = m.lo[x]
            BY <1>4, <4>3, <5>1, <6>1
          <6>3. w.order[t][j] = m.order[t][j - 1]
            BY <1>10, <6>2
          <6> QED BY <6>1, <6>2, <6>3
        <5>3. w.lo[x] = m.lo[x] + 1 /\ w.hi[x] = m.lo[x] + 1
          BY <1>4, <4>2, <4>3, <4>5
        <5> QED BY <4>2, <4>3, <4>5, <5>2, <5>3
      <4>6. CASE m.own[x] = t /\ ~(m.lo[x] > k)
        <5>1. m.lo[x] # k
          BY <1>4, <3>3, <4>3, <4>6
        <5>2. m.lo[x] < k /\ m.lo[x] \in 1..(l + 1)
          BY <1>4, <4>3, <4>6, <5>1
        <5>3. w.order[t][m.lo[x]] = m.order[t][m.lo[x]]
          BY <1>10, <5>2
        <5>4. w.lo[x] = m.lo[x] /\ w.hi[x] = m.lo[x]
          BY <1>4, <4>2, <4>3, <4>6, <5>2
        <5> QED BY <4>2, <4>3, <4>6, <5>3, <5>4
      <4> QED BY <4>4, <4>5, <4>6
    <3> QED BY <3>1, <3>2, <3>3
  <2>2. ASSUME NEW u \in open, NEW j \in 1..Len(w.order[u])
        PROVE  w.own[w.order[u][j]] = u /\ w.lo[w.order[u][j]] = j
    <3>0. \A i \in 1..Len(m.order[u]) :
            /\ m.own[m.order[u][i]] = u /\ m.lo[m.order[u][i]] = i /\ m.order[u][i] \in Panes
      BY OrderIs DEF Numbered, PlacesOK
    <3>1. CASE u # t
      <4>1. PICK x : x = m.order[u][j]
        OBVIOUS
      <4>2. w.order[u] = m.order[u] /\ x \in Panes /\ m.own[x] = u /\ m.lo[x] = j
        BY <1>3, <1>10, <3>0, <3>1, <4>1
      <4>3. u # None
        BY <1>3, OrderIs
      <4>4. x # p /\ x # s /\ x # target /\ x \in Nodes
        BY <1>3, <3>1, <4>2, <4>3 DEF Nodes
      <4> QED BY <1>8, <3>1, <4>1, <4>2, <4>4
    <3>2. CASE u = t
      <4>0. j \in 1..(l + 1)
        BY <1>10, <3>2
      <4>1. CASE j = k
        BY <1>7, <1>10, <3>2, <4>0, <4>1
      <4>2. CASE j < k
        <5>1. j \in 1..l
          BY <1>4, <4>0, <4>2
        <5>2. PICK x : x = m.order[t][j]
          OBVIOUS
        <5>3. w.order[t][j] = x /\ x \in Panes /\ m.own[x] = t /\ m.lo[x] = j
          BY <1>1, <1>10, <3>0, <3>2, <4>0, <4>2, <5>1, <5>2
        <5>4. x # p /\ x # s /\ x # target /\ x \in Nodes
          BY <1>1, <1>3, <4>2, <5>3 DEF Nodes
        <5>5. ~(m.lo[x] > k)
          BY <1>4, <4>2, <5>3
        <5> QED BY <1>8, <3>2, <5>3, <5>4, <5>5
      <4>3. CASE j = k + 1
        BY <1>4, <1>7, <1>10, <3>2, <4>0, <4>3, SMTT(30)
      <4>4. CASE j > k + 1
        <5>1. j - 1 \in 1..l /\ ~(j < k) /\ j # k
          BY <1>4, <4>0, <4>4
        <5>2. PICK x : x = m.order[t][j - 1]
          OBVIOUS
        <5>3. w.order[t][j] = x /\ x \in Panes /\ m.own[x] = t /\ m.lo[x] = j - 1
          BY <1>1, <1>10, <3>0, <3>2, <4>0, <5>1, <5>2, Zenon
        <5>4. x # p /\ x # s /\ x # target /\ x \in Nodes
          BY <1>1, <1>3, <1>4, <4>0, <4>4, <5>3 DEF Nodes
        <5>5. m.lo[x] > k /\ m.lo[x] + 1 = j
          BY <1>4, <4>0, <4>4, <5>3
        <5> QED BY <1>8, <3>2, <5>3, <5>4, <5>5
      <4> QED BY <1>4, <4>0, <4>1, <4>2, <4>3, <4>4
    <3> QED BY <3>1, <3>2
  <2> QED BY <2>1, <2>2 DEF PlacesOK
<1>17. CutsOK(open, w)
  <2>0. /\ \A x, y \in Splits : m.own[x] # None /\ m.own[x] = m.own[y] /\ m.cut[x] = m.cut[y] => x = y
        /\ \A u \in open : \A j \in 1..(Len(m.order[u]) - 1) :
             \E x \in Splits : m.own[x] = u /\ m.cut[x] = j
    BY DEF Numbered, CutsOK
  <2>1. \A x \in Splits : x # s => x \in Nodes /\ x # p /\ w.own[x] = m.own[x]
    BY <1>3, <1>8 DEF Nodes
  <2>2. \A x \in Splits : x # s /\ m.own[x] = t => w.cut[x] # k
    BY <1>4, <1>6, <1>9
  <2>3. ASSUME NEW x \in Splits, NEW y \in Splits, w.own[x] # None, w.own[x] = w.own[y], w.cut[x] = w.cut[y]
        PROVE  x = y
    <3>1. CASE x = s \/ y = s
      BY <1>7, <2>1, <2>2, <2>3, <3>1
    <3>2. CASE x # s /\ y # s
      <4>1. m.cut[x] = m.cut[y]
        BY <1>4, <1>6, <1>9, <2>1, <2>3, <3>2
      <4> QED BY <2>0, <2>1, <2>3, <3>2, <4>1
    <3> QED BY <3>1, <3>2
  <2>4. ASSUME NEW u \in open, NEW j \in 1..(Len(w.order[u]) - 1)
        PROVE  \E x \in Splits : w.own[x] = u /\ w.cut[x] = j
    <3>1. CASE u # t
      <4>1. j \in 1..(Len(m.order[u]) - 1)
        BY <1>3, <1>10, <3>1
      <4>2. PICK x \in Splits : m.own[x] = u /\ m.cut[x] = j
        BY <2>0, <4>1
      <4>3. x # s
        BY <1>3, <4>2, OrderIs
      <4> QED BY <1>9, <2>1, <3>1, <4>2, <4>3
    <3>2. CASE u = t
      <4>0. j \in 1..l
        BY <1>4, <1>10, <3>2
      <4>1. CASE j = k
        BY <1>7, <3>2, <4>1
      <4>2. CASE j < k
        <5>1. j \in 1..(l - 1)
          BY <1>4, <4>0, <4>2
        <5>2. PICK x \in Splits : m.own[x] = t /\ m.cut[x] = j
          BY <1>1, <2>0, <5>1
        <5>3. x # s
          BY <1>3, <5>2
        <5>4. w.cut[x] = j
          BY <1>4, <1>9, <4>2, <5>2, <5>3
        <5> QED BY <2>1, <3>2, <5>2, <5>3, <5>4
      <4>3. CASE j > k
        <5>1. j - 1 \in 1..(l - 1)
          BY <1>4, <4>0, <4>3
        <5>2. PICK x \in Splits : m.own[x] = t /\ m.cut[x] = j - 1
          BY <1>1, <2>0, <5>1
        <5>3. x # s
          BY <1>3, <5>2
        <5>4. w.cut[x] = j
          BY <1>4, <1>9, <4>0, <4>3, <5>2, <5>3
        <5> QED BY <2>1, <3>2, <5>2, <5>3, <5>4
      <4> QED BY <1>4, <4>0, <4>1, <4>2, <4>3
    <3> QED BY <3>1, <3>2
  <2> QED BY <2>3, <2>4 DEF CutsOK
<1>18. SplitsOK(g, w)
  <2> SUFFICES ASSUME NEW x \in Splits
               PROVE  IF w.own[x] = None THEN g.kids[x] = NoKids ELSE Shares(g, w, x)
    BY DEF SplitsOK
  <2>1. CASE x = s
    <3>1. g.kids[s][1] = target /\ g.kids[s][2] = p
      BY <1>11
    <3>2. Shares(g, w, s)
      BY <1>3, <1>7, <1>14, <3>1 DEF Shares
    <3> QED BY <1>3, <1>7, <2>1, <3>2
  <2>2. CASE x # s
    <3>0. x \in Nodes /\ x # p /\ x # target /\ w.own[x] = m.own[x]
      BY <1>3, <1>8, <2>2 DEF Nodes
    <3>1. CASE m.own[x] = None
      <4>1. f.kids[x] = NoKids
        BY <3>1, UsedHaveKids
      <4>2. x # gp
        BY <1>3, <1>13, <3>1
      <4> QED BY <1>12, <2>2, <3>0, <3>1, <4>1, <4>2
    <3>2. CASE m.own[x] # None
      <4>1. PICK a, b, c, d : a = f.kids[x][1] /\ b = f.kids[x][2] /\ c = g.kids[x][1] /\ d = g.kids[x][2]
        OBVIOUS
      <4>2. /\ a \in Nodes /\ b \in Nodes
            /\ m.own[a] = m.own[x] /\ m.own[b] = m.own[x]
            /\ f.up[a] = x /\ f.up[b] = x
            /\ m.lo[b] = m.lo[x] /\ m.hi[b] = m.cut[x]
            /\ m.lo[a] = m.cut[x] + 1 /\ m.hi[a] = m.hi[x]
            /\ m.lo[x] <= m.cut[x] /\ m.cut[x] < m.hi[x] /\ a # b
        BY <3>2, <4>1, ChildrenAre
      <4>3. /\ c = IF a = target THEN s ELSE a
            /\ d = IF b = target THEN s ELSE b
        BY <1>1, <1>12, <2>2, <4>1, <4>2
      <4>4. (a = target \/ b = target) => x = gp /\ m.own[x] = t
        BY <1>1, <4>2
      <4>5. a # s /\ b # s /\ a # p /\ b # p
        BY <3>2, <4>2
      <4>6. c \in Nodes /\ d \in Nodes
        BY <1>3, <4>2, <4>3
      <4>7. w.own[c] = w.own[x] /\ w.own[d] = w.own[x]
        BY <1>7, <1>8, <3>0, <4>2, <4>3, <4>4, <4>5
      <4>8. g.up[c] = x /\ g.up[d] = x
        BY <1>14, <4>2, <4>3, <4>4, <4>5
      <4>9. /\ w.lo[x] = IF m.own[x] = t /\ m.lo[x] > k THEN m.lo[x] + 1 ELSE m.lo[x]
            /\ w.hi[x] = IF m.own[x] = t /\ m.hi[x] >= k THEN m.hi[x] + 1 ELSE m.hi[x]
            /\ w.cut[x] = IF m.own[x] = t /\ m.cut[x] >= k THEN m.cut[x] + 1 ELSE m.cut[x]
        BY <1>8, <1>9, <2>2, <3>0
      <4>10. m.lo[x] \in Nat /\ m.hi[x] \in Nat /\ m.cut[x] \in Nat
        BY <1>5, <1>6, <3>0
      <4>11. w.lo[d] = w.lo[x] /\ w.hi[d] = w.cut[x]
        <5>1. CASE b = target
          <6>1. d = s /\ m.lo[x] = k /\ m.cut[x] = k /\ m.own[x] = t
            BY <1>1, <1>4, <4>2, <4>3, <4>4, <5>1
          <6> QED BY <1>4, <1>7, <4>9, <4>10, <6>1
        <5>2. CASE b # target
          <6>1. /\ d = b
                /\ w.lo[b] = IF m.own[b] = t /\ m.lo[b] > k THEN m.lo[b] + 1 ELSE m.lo[b]
                /\ w.hi[b] = IF m.own[b] = t /\ m.hi[b] >= k THEN m.hi[b] + 1 ELSE m.hi[b]
            BY <1>8, <4>2, <4>3, <4>5, <5>2
          <6> QED BY <4>2, <4>9, <6>1
        <5> QED BY <5>1, <5>2
      <4>12. w.lo[c] = w.cut[x] + 1 /\ w.hi[c] = w.hi[x]
        <5>1. CASE a = target
          <6>1. c = s /\ m.cut[x] + 1 = k /\ m.hi[x] = k /\ m.own[x] = t
            BY <1>1, <1>4, <4>2, <4>3, <4>4, <5>1
          <6> QED BY <1>4, <1>7, <4>9, <4>10, <6>1
        <5>2. CASE a # target
          <6>1. /\ c = a
                /\ w.lo[a] = IF m.own[a] = t /\ m.lo[a] > k THEN m.lo[a] + 1 ELSE m.lo[a]
                /\ w.hi[a] = IF m.own[a] = t /\ m.hi[a] >= k THEN m.hi[a] + 1 ELSE m.hi[a]
            BY <1>8, <4>2, <4>3, <4>5, <5>2
          <6>2. m.cut[x] + 1 > k <=> m.cut[x] >= k
            BY <1>4, <4>10
          <6> QED BY <4>2, <4>9, <4>10, <6>1, <6>2
        <5> QED BY <5>1, <5>2
      <4>13. Shares(g, w, x)
        BY <4>1, <4>6, <4>7, <4>8, <4>11, <4>12 DEF Shares
      <4> QED BY <3>0, <3>2, <4>13
    <3> QED BY <3>1, <3>2
  <2> QED BY <2>1, <2>2
<1>19. ASSUME NEW n \in Nodes
       PROVE  Hangs(g, w, n)
  <2>1. CASE n = s
    <3>1. CASE gp = None
      BY <1>7, <1>14, <2>1, <3>1 DEF Hangs
    <3>2. CASE gp # None
      <4>1. n # g.root[t]
        <5>1. f.root[t] # s
          BY <1>3 DEF Numbered, RootOK
        <5> QED BY <1>14, <2>1, <3>2, <5>1
      <4>2. gp \in Splits /\ gp \in Nodes /\ m.own[gp] = t /\ gp # p /\ gp # s
        BY <1>3, <1>13, <3>2
      <4>3. w.own[gp] = t /\ (n = g.kids[gp][1] \/ n = g.kids[gp][2])
        BY <1>8, <1>12, <1>13, <2>1, <3>2, <4>2
      <4> QED BY <1>3, <1>7, <1>14, <2>1, <4>1, <4>2, <4>3 DEF Hangs
    <3> QED BY <3>1, <3>2
  <2>2. CASE n = target \/ n = p
    <3>1. n # g.root[t]
      <4>1. m.own[f.root[t]] = t
        BY DEF Numbered, RootOK
      <4> QED BY <1>3, <1>13, <1>14, <2>2, <4>1
    <3>2. g.up[n] = s /\ w.own[n] = t /\ w.own[s] = t
      BY <1>7, <1>14, <2>2
    <3>3. n = g.kids[s][1] \/ n = g.kids[s][2]
      BY <1>11, <2>2
    <3> QED BY <1>3, <3>1, <3>2, <3>3 DEF Hangs
  <2>3. CASE n \notin {s, target, p}
    <3>1. w.own[n] = m.own[n] /\ g.up[n] = f.up[n]
      BY <1>8, <1>14, <2>3
    <3>2. CASE m.own[n] = None
      <4>1. f.up[n] = None
        BY <3>2 DEF Numbered, Hangs
      <4> QED BY <3>1, <3>2, <4>1 DEF Hangs
    <3>3. CASE m.own[n] # None
      <4>1. PICK v, u : v = f.up[n] /\ u = m.own[n]
        OBVIOUS
      <4>2. /\ v = None <=> n = f.root[u]
            /\ v # None => /\ v \in Splits /\ v \in Nodes /\ m.own[v] = u
                           /\ n = f.kids[v][1] \/ n = f.kids[v][2]
        BY <3>3, <4>1, ParentIs
      <4>3. u \in Tabs
        BY <3>3, <4>1, NumberTypes
      <4>4. n = f.root[u] <=> n = g.root[u]
        BY <1>13, <1>14, <2>3, <4>3
      <4>5. CASE v = None
        BY <3>1, <4>1, <4>2, <4>4, <4>5 DEF Hangs
      <4>6. CASE v # None
        <5>1. v # s /\ v # p
          BY <1>3, <3>3, <4>1, <4>2, <4>6
        <5>2. w.own[v] = u
          BY <1>8, <4>2, <4>6, <5>1
        <5>3. n = g.kids[v][1] \/ n = g.kids[v][2]
          BY <1>12, <2>3, <4>2, <4>6, <5>1
        <5>4. /\ g.up[n] = v /\ v \in Splits /\ w.own[v] = w.own[n] /\ n # g.root[w.own[n]]
              /\ w.own[n] # None
          BY <3>1, <3>3, <4>1, <4>2, <4>4, <4>6, <5>2
        <5> QED BY <5>3, <5>4 DEF Hangs
      <4> QED BY <4>5, <4>6
    <3> QED BY <3>2, <3>3
  <2> QED BY <2>1, <2>2, <2>3
<1>20. ASSUME NEW u \in open
       PROVE  RootOK(g, w, u)
  <2>1. PICK r : r = f.root[u]
    OBVIOUS
  <2>2. r \in Nodes /\ m.own[r] = u /\ m.lo[r] = 1 /\ m.hi[r] = Len(m.order[u]) /\ u \in Tabs /\ u # None
    BY <1>3, <2>1, OrderIs DEF Numbered, RootOK
  <2>3. r # p /\ r # s
    BY <2>2
  <2>4. CASE u # t
    <3>1. r # target
      BY <2>2, <2>4
    <3>2. w.own[r] = u /\ w.lo[r] = 1 /\ w.hi[r] = Len(w.order[u])
      BY <1>8, <1>10, <2>2, <2>3, <2>4, <3>1
    <3> QED BY <1>14, <2>1, <2>2, <2>4, <3>2 DEF RootOK
  <2>5. CASE u = t /\ gp = None
    <3>1. k = 1 /\ k = l
      BY <1>1, <1>4, <1>13, <2>1, <2>2, <2>5
    <3> QED BY <1>3, <1>7, <1>10, <1>14, <2>5, <3>1 DEF RootOK
  <2>6. CASE u = t /\ gp # None
    <3>1. r # target
      BY <1>13, <2>1, <2>6
    <3>2. ~(1 > k) /\ m.hi[r] >= k
      BY <1>1, <1>4, <2>2, <2>6
    <3>3. w.own[r] = t /\ w.lo[r] = 1 /\ w.hi[r] = l + 1
      BY <1>1, <1>8, <2>2, <2>3, <2>6, <3>1, <3>2
    <3> QED BY <1>10, <1>14, <2>1, <2>2, <2>6, <3>3 DEF RootOK
  <2> QED BY <2>4, <2>5, <2>6
<1> QED BY <1>2, <1>3, <1>15, <1>16, <1>17, <1>18, <1>19, <1>20 DEF Numbered

\* g is a sound tree over the open tabs in which panes have the given owners.
Yields(g, open, own) == \E w : Sound(g, open, w) /\ \A x \in Panes : w.own[x] = own[x]

LEMMA BesideKeeps ==
  ASSUME NEW f, NEW open, NEW m, Sound(f, open, m), NEW t \in open,
         NEW target \in Panes, m.own[target] = t, NEW p \in Panes, m.own[p] = None
  PROVE  Yields(Beside(f, t, target, p), open, [m.own EXCEPT ![p] = t])
<1>1. PICK s, g, w : s = FreeSplit(f) /\ g = Beside(f, t, target, p) /\ w = Widened(m, t, target, p, s)
  OBVIOUS
<1>2. Numbered(f, open, m) /\ WindowsOK(f, open, m)
  BY DEF Sound
<1>3. s \in Splits /\ m.own[s] = None
  BY <1>1, <1>2, FreeSplitIs
<1>4. /\ BesideLinks(f, g, t, target, p, s) /\ g \in Trees
      /\ g.act = [f.act EXCEPT ![t] = p] /\ g.cache = [f.cache EXCEPT ![t] = <<>>]
  BY <1>1, <1>2, BesideIs
<1>5. Numbered(g, open, w)
  BY <1>1, <1>2, <1>3, <1>4, BesideNumbered
<1>6. PICK k : k = m.lo[target]
  OBVIOUS
<1>7. WidenedFacts(m, w, t, target, p, s, k)
  BY <1>1, <1>2, <1>3, <1>6, WidenedIs
<1>8. \A x \in Panes : w.own[x] = [m.own EXCEPT ![p] = t][x]
  <2>1. m.own \in [Nodes -> Tabs \cup {None}] /\ Panes \subseteq Nodes
    BY <1>2 DEF Numbered, Marks, Nodes
  <2>2. \A x \in Panes : x # s
    BY <1>3, NodesAre
  <2> QED BY <1>7, <2>1, <2>2 DEF WidenedFacts
<1>9. WindowsOK(g, open, w)
  <2>1. f.act \in [Tabs -> Panes \cup {None}] /\ f.cache \in [Tabs -> Seq(Panes)]
    BY <1>2, TreeFields DEF Numbered
  <2>2. open \subseteq Tabs /\ t \in Tabs
    BY <1>2 DEF Numbered
  <2>3. \A u \in open : g.act[u] \in Panes /\ w.own[g.act[u]] = u
    <3> SUFFICES ASSUME NEW u \in open PROVE g.act[u] \in Panes /\ w.own[g.act[u]] = u
      OBVIOUS
    <3>1. CASE u = t
      <4>1. g.act[u] = p
        BY <1>4, <2>1, <2>2, <3>1
      <4> QED BY <1>7, <3>1, <4>1 DEF WidenedFacts
    <3>2. CASE u # t
      <4>1. g.act[u] = f.act[u] /\ u # None
        BY <1>2, <1>4, <2>1, <2>2, <3>2, OrderIs
      <4>2. f.act[u] \in Panes /\ m.own[f.act[u]] = u
        BY <1>2 DEF WindowsOK
      <4>3. f.act[u] # p /\ f.act[u] # s /\ f.act[u] \in Nodes
        BY <1>3, <4>1, <4>2, NodesAre DEF Nodes
      <4> QED BY <1>7, <4>1, <4>2, <4>3 DEF WidenedFacts
    <3> QED BY <3>1, <3>2
  <2>4. \A u \in Tabs : g.cache[u] = IF u = t THEN <<>> ELSE f.cache[u]
    BY <1>4, <2>1, <2>2
  <2>5. \A u \in Tabs : u # t => w.order[u] = m.order[u]
    BY <1>7 DEF WidenedFacts
  <2>6. \A u \in open : g.cache[u] \in {<<>>, w.order[u]}
    BY <1>2, <2>2, <2>4, <2>5 DEF WindowsOK
  <2>7. \A u \in Tabs \ open : g.cache[u] = <<>>
    BY <1>2, <2>4 DEF WindowsOK
  <2> QED BY <2>3, <2>6, <2>7 DEF WindowsOK
<1>10. Sound(g, open, w)
  BY <1>5, <1>9, SMTT(30) DEF Sound
<1> QED BY <1>1, <1>8, <1>10 DEF Yields

\* The tree without the pane, before the focus moves.
CutOff(f, t, p, r, sib) ==
  [InSlot(f, t, f.up[r], r, sib)
     EXCEPT !.up[sib] = f.up[r], !.up[p] = None, !.up[r] = None, !.kids[r] = NoKids]

\* What Detach does to the links: p is a child of r, sib is the other one.
DetachLinks(f, g, t, p, r, sib) ==
  LET gp == f.up[r]
  IN /\ g.root = IF gp = None THEN [f.root EXCEPT ![t] = sib] ELSE f.root
     /\ \A x \in Splits : x # gp /\ x # r => g.kids[x] = f.kids[x]
     /\ \A x \in Splits : x = gp =>
          /\ g.kids[x][1] = IF f.kids[x][1] = r THEN sib ELSE f.kids[x][1]
          /\ g.kids[x][2] = IF f.kids[x][2] = r THEN sib ELSE f.kids[x][2]
     /\ g.kids[r] = NoKids
     /\ g.up = [f.up EXCEPT ![sib] = gp, ![p] = None, ![r] = None]

\* The pane p, its parent and the other child.
Family(f, m, t, p, r, sib) ==
  /\ p \in Nodes /\ r \in Splits /\ r \in Nodes /\ sib \in Nodes
  /\ m.own[p] = t /\ m.own[r] = t /\ m.own[sib] = t
  /\ f.up[p] = r /\ f.up[sib] = r
  /\ p # sib /\ p # r /\ sib # r
  /\ \/ /\ f.kids[r][1] = p /\ f.kids[r][2] = sib
        /\ m.lo[p] = m.cut[r] + 1 /\ m.hi[p] = m.hi[r]
        /\ m.lo[sib] = m.lo[r] /\ m.hi[sib] = m.cut[r]
     \/ /\ f.kids[r][1] = sib /\ f.kids[r][2] = p
        /\ m.lo[sib] = m.cut[r] + 1 /\ m.hi[sib] = m.hi[r]
        /\ m.lo[p] = m.lo[r] /\ m.hi[p] = m.cut[r]
  /\ f.up[r] \in Splits \cup {None} /\ f.up[r] # r
  /\ f.up[r] # None => f.up[r] \in Nodes /\ m.own[f.up[r]] = t

LEMMA FamilyIs ==
  ASSUME NEW f, NEW open, NEW m, Numbered(f, open, m), NEW t \in open,
         NEW p \in Panes, m.own[p] = t, NEW r, r = f.up[p], r # None,
         NEW sib, sib = IF f.kids[r][1] = p THEN f.kids[r][2] ELSE f.kids[r][1]
  PROVE  Family(f, m, t, p, r, sib)
<1>1. t # None /\ p \in Nodes /\ p \notin Splits
  BY NodesAre, OrderIs DEF Nodes
<1>2. /\ r \in Splits /\ r \in Nodes /\ m.own[r] = t /\ (p = f.kids[r][1] \/ p = f.kids[r][2])
  BY <1>1, ParentIs
<1>3. PICK a, b : a = f.kids[r][1] /\ b = f.kids[r][2]
  BY Zenon
<1>4. /\ a \in Nodes /\ b \in Nodes
      /\ m.own[a] = t /\ m.own[b] = t /\ f.up[a] = r /\ f.up[b] = r
      /\ m.lo[b] = m.lo[r] /\ m.hi[b] = m.cut[r]
      /\ m.lo[a] = m.cut[r] + 1 /\ m.hi[a] = m.hi[r]
      /\ m.lo[r] <= m.cut[r] /\ m.cut[r] < m.hi[r] /\ a # b
  BY <1>1, <1>2, <1>3, ChildrenAre, SMTT(30)
<1>5. m.lo[r] \in Nat /\ m.hi[r] \in Nat /\ m.cut[r] \in Nat
  BY <1>2, NumberTypes
<1>6. a # r /\ b # r
  BY <1>4, <1>5
<1>7. PICK gp : gp = f.up[r]
  OBVIOUS
<1>8. gp # None => gp \in Splits /\ gp \in Nodes /\ m.own[gp] = t /\ (r = f.kids[gp][1] \/ r = f.kids[gp][2])
  BY <1>1, <1>2, <1>7, ParentIs
<1>9. gp # r
  <2>1. r # None
    BY SMTT(30)
  <2> QED BY <1>3, <1>6, <1>8, <2>1
<1>10. (p = a /\ sib = b) \/ (p = b /\ sib = a)
  BY <1>2, <1>3, <1>4
<1> QED BY <1>1, <1>2, <1>3, <1>4, <1>6, <1>7, <1>8, <1>9, <1>10, ZenonT(30) DEF Family

LEMMA CutOffIs ==
  ASSUME NEW f \in Trees, NEW open, NEW m, NEW t \in Tabs,
         NEW p \in Panes, NEW r, NEW sib, Family(f, m, t, p, r, sib),
         NEW g, g = CutOff(f, t, p, r, sib)
  PROVE  /\ DetachLinks(f, g, t, p, r, sib) /\ g \in Trees
         /\ g.act = f.act /\ g.cache = f.cache
<1>1. PICK gp : gp = f.up[r]
  OBVIOUS
<1>2. /\ p \in Nodes /\ r \in Splits /\ r \in Nodes /\ sib \in Nodes
      /\ p # sib /\ p # r /\ sib # r /\ gp \in Splits \cup {None} /\ gp # r
  BY <1>1 DEF Family
<1>5. PICK h : h = InSlot(f, t, gp, r, sib)
  OBVIOUS
<1>6. /\ h \in Trees /\ h.up = f.up /\ h.act = f.act /\ h.prev = f.prev /\ h.cache = f.cache
      /\ h.root = IF gp = None THEN [f.root EXCEPT ![t] = sib] ELSE f.root
      /\ \A x \in Splits : x # gp => h.kids[x] = f.kids[x]
      /\ \A x \in Splits : x = gp =>
           /\ h.kids[x][1] = IF f.kids[x][1] = r THEN sib ELSE f.kids[x][1]
           /\ h.kids[x][2] = IF f.kids[x][2] = r THEN sib ELSE f.kids[x][2]
  BY <1>2, <1>5, InSlotIs, SMTT(30)
<1>7. g = [h EXCEPT !.up[sib] = gp, !.up[p] = None, !.up[r] = None, !.kids[r] = NoKids]
  BY <1>1, <1>5 DEF CutOff
<1>8. g = [kids |-> [h.kids EXCEPT ![r] = NoKids],
           up |-> [h.up EXCEPT ![sib] = gp, ![p] = None, ![r] = None],
           root |-> h.root, act |-> h.act, prev |-> h.prev, cache |-> h.cache]
  BY <1>6, <1>7, Zenon DEF Trees
<1>9. g \in Trees
  <2>0. NoKids \in (Nodes \cup {None}) \X (Nodes \cup {None})
    BY DEF NoKids
  <2>1. [h.kids EXCEPT ![r] = NoKids] \in [Splits -> (Nodes \cup {None}) \X (Nodes \cup {None})]
    BY <1>2, <1>6, <2>0, TreeFields
  <2>2. [h.up EXCEPT ![sib] = gp, ![p] = None, ![r] = None] \in [Nodes -> Splits \cup {None}]
    BY <1>2, <1>6, TreeFields, Zenon
  <2> QED BY <1>6, <1>8, <2>1, <2>2, TreeFields, Zenon DEF Trees
<1>10. /\ g.up = [f.up EXCEPT ![sib] = gp, ![p] = None, ![r] = None]
       /\ g.root = h.root /\ g.act = f.act /\ g.cache = f.cache
       /\ g.kids[r] = NoKids /\ \A x \in Splits : x # r => g.kids[x] = h.kids[x]
  <2>1. /\ g.up = [h.up EXCEPT ![sib] = gp, ![p] = None, ![r] = None]
        /\ g.root = h.root /\ g.act = h.act /\ g.cache = h.cache
        /\ g.kids = [h.kids EXCEPT ![r] = NoKids]
    BY <1>8
  <2>2. h.kids \in [Splits -> (Nodes \cup {None}) \X (Nodes \cup {None})]
    BY <1>6, TreeFields
  <2> QED BY <1>2, <1>6, <2>1, <2>2
<1>18. DetachLinks(f, g, t, p, r, sib)
  BY <1>1, <1>2, <1>6, <1>10 DEF DetachLinks
<1> QED BY <1>9, <1>10, <1>18

\* The numbering after Detach: p is taken out of the order, and with its
\* parent r goes the cut on the side of the other child.
Narrowed(m, t, p, r) ==
  LET k == m.lo[p]
  IN [own |-> [n \in Nodes |-> IF n \in {p, r} THEN None ELSE m.own[n]],
      lo |-> [n \in Nodes |-> IF m.own[n] = t /\ m.lo[n] > k THEN m.lo[n] - 1 ELSE m.lo[n]],
      hi |-> [n \in Nodes |-> IF m.own[n] = t /\ m.hi[n] >= k THEN m.hi[n] - 1 ELSE m.hi[n]],
      cut |-> [x \in Splits |-> IF m.own[x] = t /\ m.cut[x] >= k THEN m.cut[x] - 1 ELSE m.cut[x]],
      order |-> [m.order EXCEPT ![t] = RemoveAt(m.order[t], k)]]

\* The same, node by node.
NarrowedFacts(m, w, t, p, r, k) ==
  /\ w.own[p] = None /\ w.own[r] = None
  /\ \A n \in Nodes : n # p /\ n # r => w.own[n] = m.own[n]
  /\ \A n \in Nodes :
       /\ w.lo[n] = IF m.own[n] = t /\ m.lo[n] > k THEN m.lo[n] - 1 ELSE m.lo[n]
       /\ w.hi[n] = IF m.own[n] = t /\ m.hi[n] >= k THEN m.hi[n] - 1 ELSE m.hi[n]
  /\ \A x \in Splits :
       w.cut[x] = IF m.own[x] = t /\ m.cut[x] >= k THEN m.cut[x] - 1 ELSE m.cut[x]
  /\ \A u \in Tabs : u # t => w.order[u] = m.order[u]
  /\ w.order[t] \in Seq(Panes) /\ Len(w.order[t]) = Len(m.order[t]) - 1
  /\ \A j \in 1..(Len(m.order[t]) - 1) :
       w.order[t][j] = IF j < k THEN m.order[t][j] ELSE m.order[t][j + 1]

LEMMA NarrowedIs ==
  ASSUME NEW f, NEW open, NEW m, Numbered(f, open, m), NEW t \in open,
         NEW p \in Panes, m.own[p] = t, NEW r \in Splits, NEW k, k = m.lo[p],
         NEW w, w = Narrowed(m, t, p, r)
  PROVE  w \in Marks /\ NarrowedFacts(m, w, t, p, r, k)
<1>1. /\ t \in Tabs /\ t # None /\ p \in Nodes /\ r \in Nodes
  BY NodesAre DEF Numbered, Nodes
<1>2. m \in Marks /\ \A n \in Nodes : m.lo[n] \in Nat /\ m.hi[n] \in Nat
  BY NumberTypes DEF Numbered
<1>3. k \in Nat /\ 1 <= k /\ k <= Len(m.order[t]) /\ m.order[t] \in Seq(Panes)
  BY <1>1, PlaceIs, NumberTypes
<1>4. PICK q : q = RemoveAt(m.order[t], k)
  OBVIOUS
<1>5. /\ q \in Seq(Panes) /\ Len(q) = Len(m.order[t]) - 1
      /\ \A j \in 1..(Len(m.order[t]) - 1) :
           q[j] = IF j < k THEN m.order[t][j] ELSE m.order[t][j + 1]
  <2>1. PICK o : o = m.order[t]
    OBVIOUS
  <2>2. o \in Seq(Panes) /\ k \in 1..Len(o) /\ q = RemoveAt(o, k)
    BY <1>3, <1>4, <2>1
  <2>3. /\ q \in Seq(Panes) /\ Len(q) = Len(o) - 1
        /\ \A j \in 1..(Len(o) - 1) : q[j] = IF j < k THEN o[j] ELSE o[j + 1]
    BY <2>2, RemovedIs
  <2> QED BY <2>1, <2>3
<1>6. w = [own |-> [n \in Nodes |-> IF n \in {p, r} THEN None ELSE m.own[n]],
      lo |-> [n \in Nodes |-> IF m.own[n] = t /\ m.lo[n] > k THEN m.lo[n] - 1 ELSE m.lo[n]],
      hi |-> [n \in Nodes |-> IF m.own[n] = t /\ m.hi[n] >= k THEN m.hi[n] - 1 ELSE m.hi[n]],
      cut |-> [x \in Splits |-> IF m.own[x] = t /\ m.cut[x] >= k THEN m.cut[x] - 1 ELSE m.cut[x]],
      order |-> [m.order EXCEPT ![t] = q]]
  BY <1>4 DEF Narrowed
<1>7. /\ w.own = [n \in Nodes |-> IF n \in {p, r} THEN None ELSE m.own[n]]
      /\ w.lo = [n \in Nodes |-> IF m.own[n] = t /\ m.lo[n] > k THEN m.lo[n] - 1 ELSE m.lo[n]]
      /\ w.hi = [n \in Nodes |-> IF m.own[n] = t /\ m.hi[n] >= k THEN m.hi[n] - 1 ELSE m.hi[n]]
      /\ w.cut = [x \in Splits |-> IF m.own[x] = t /\ m.cut[x] >= k THEN m.cut[x] - 1 ELSE m.cut[x]]
      /\ w.order = [m.order EXCEPT ![t] = q]
  BY <1>6
<1>8. m.order \in [Tabs -> Seq(Panes)] /\ m.own \in [Nodes -> Tabs \cup {None}]
      /\ m.cut \in [Splits -> Nat]
  BY <1>2 DEF Marks
<1>12. /\ \A n \in Nodes :
           /\ w.lo[n] = IF m.own[n] = t /\ m.lo[n] > k THEN m.lo[n] - 1 ELSE m.lo[n]
           /\ w.hi[n] = IF m.own[n] = t /\ m.hi[n] >= k THEN m.hi[n] - 1 ELSE m.hi[n]
       /\ \A x \in Splits :
           w.cut[x] = IF m.own[x] = t /\ m.cut[x] >= k THEN m.cut[x] - 1 ELSE m.cut[x]
  BY <1>7
<1>9. w \in Marks
  <2>1. w.own \in [Nodes -> Tabs \cup {None}]
    BY <1>7, <1>8
  <2>2. w.lo \in [Nodes -> Nat]
    <3>1. \A n \in Nodes : w.lo[n] \in Nat
      BY <1>2, <1>3, <1>12
    <3>2. w.lo = [n \in Nodes |-> w.lo[n]]
      BY <1>7
    <3> QED BY <3>1, <3>2
  <2>3. w.hi \in [Nodes -> Nat]
    <3>1. \A n \in Nodes : w.hi[n] \in Nat
      BY <1>2, <1>3, <1>12
    <3>2. w.hi = [n \in Nodes |-> w.hi[n]]
      BY <1>7
    <3> QED BY <3>1, <3>2
  <2>4. w.cut \in [Splits -> Nat]
    <3>1. \A n \in Splits : w.cut[n] \in Nat
      BY <1>3, <1>8, <1>12
    <3>2. w.cut = [n \in Splits |-> w.cut[n]]
      BY <1>7
    <3> QED BY <3>1, <3>2
  <2>5. w.order \in [Tabs -> Seq(Panes)]
    <3>1. q \in Seq(Panes)
      BY <1>5
    <3> QED BY <1>1, <1>7, <1>8, <3>1
  <2>6. w = [own |-> w.own, lo |-> w.lo, hi |-> w.hi, cut |-> w.cut, order |-> w.order]
    BY <1>6
  <2> QED BY <2>1, <2>2, <2>3, <2>4, <2>5, <2>6 DEF Marks
<1>10. w.order[t] = q /\ \A u \in Tabs : u # t => w.order[u] = m.order[u]
  BY <1>1, <1>7, <1>8
<1>11. NarrowedFacts(m, w, t, p, r, k)
  <2>1. w.own[p] = None /\ w.own[r] = None /\ \A n \in Nodes : n # p /\ n # r => w.own[n] = m.own[n]
    BY <1>1, <1>7
  <2> QED BY <1>5, <1>10, <1>12, <2>1 DEF NarrowedFacts
<1> QED BY <1>9, <1>11

\* kill_pane, break_pane, join_pane, the end of a shell: the new numbering
\* fits the tree without the pane.
LEMMA DetachNumbered ==
  ASSUME NEW f, NEW open, NEW m, Numbered(f, open, m), NEW t \in open,
         NEW p \in Panes, NEW r, NEW sib, Family(f, m, t, p, r, sib),
         NEW g \in Trees, DetachLinks(f, g, t, p, r, sib),
         NEW w, w = Narrowed(m, t, p, r)
  PROVE  Numbered(g, open, w)
<1>1. PICK k, l, gp : k = m.lo[p] /\ l = Len(m.order[t]) /\ gp = f.up[r]
  BY Zenon
<1>2. /\ p \in Nodes /\ r \in Splits /\ r \in Nodes /\ sib \in Nodes
      /\ m.own[p] = t /\ m.own[r] = t /\ m.own[sib] = t
      /\ f.up[p] = r /\ f.up[sib] = r
      /\ p # sib /\ p # r /\ sib # r
      /\ gp \in Splits \cup {None} /\ gp # r
      /\ gp # None => gp \in Nodes /\ m.own[gp] = t
  BY <1>1 DEF Family
<1>3. \/ /\ f.kids[r][1] = p /\ f.kids[r][2] = sib
         /\ m.lo[p] = m.cut[r] + 1 /\ m.hi[p] = m.hi[r]
         /\ m.lo[sib] = m.lo[r] /\ m.hi[sib] = m.cut[r]
      \/ /\ f.kids[r][1] = sib /\ f.kids[r][2] = p
         /\ m.lo[sib] = m.cut[r] + 1 /\ m.hi[sib] = m.hi[r]
         /\ m.lo[p] = m.lo[r] /\ m.hi[p] = m.cut[r]
  BY DEF Family
<1>4. w \in Marks /\ NarrowedFacts(m, w, t, p, r, k)
  BY <1>1, <1>2, NarrowedIs
<1>5. /\ t \in Tabs /\ t # None /\ None \notin Splits /\ open \subseteq Tabs
      /\ p \notin Splits /\ r \notin Panes
  BY <1>2, NodesAre DEF Numbered, Nodes
<1>6. /\ m.hi[p] = k /\ k \in Nat /\ 1 <= k /\ k <= l /\ l \in Nat /\ m.order[t][k] = p
  BY <1>1, <1>2, <1>5, PlaceIs, NumberTypes
<1>7. \A n \in Nodes : m.lo[n] \in Nat /\ m.hi[n] \in Nat
  BY NumberTypes
<1>8. \A x \in Splits : m.cut[x] \in Nat
  BY NumberTypes
<1>9. /\ w.own[p] = None /\ w.own[r] = None
      /\ \A n \in Nodes : n # p /\ n # r => w.own[n] = m.own[n]
      /\ \A n \in Nodes :
           /\ w.lo[n] = IF m.own[n] = t /\ m.lo[n] > k THEN m.lo[n] - 1 ELSE m.lo[n]
           /\ w.hi[n] = IF m.own[n] = t /\ m.hi[n] >= k THEN m.hi[n] - 1 ELSE m.hi[n]
  BY <1>4 DEF NarrowedFacts
<1>10. \A x \in Splits :
         w.cut[x] = IF m.own[x] = t /\ m.cut[x] >= k THEN m.cut[x] - 1 ELSE m.cut[x]
  BY <1>4 DEF NarrowedFacts
<1>11. /\ \A u \in Tabs : u # t => w.order[u] = m.order[u]
       /\ w.order[t] \in Seq(Panes) /\ Len(w.order[t]) = l - 1
       /\ \A j \in 1..(l - 1) :
            w.order[t][j] = IF j < k THEN m.order[t][j] ELSE m.order[t][j + 1]
  BY <1>1, <1>4 DEF NarrowedFacts
<1>12. /\ \A x \in Splits : x # gp /\ x # r => g.kids[x] = f.kids[x]
       /\ \A x \in Splits : x = gp =>
            /\ g.kids[x][1] = IF f.kids[x][1] = r THEN sib ELSE f.kids[x][1]
            /\ g.kids[x][2] = IF f.kids[x][2] = r THEN sib ELSE f.kids[x][2]
       /\ g.kids[r] = NoKids
  BY <1>1 DEF DetachLinks
<1>13. /\ g.up[sib] = gp /\ g.up[p] = None /\ g.up[r] = None
       /\ \A n \in Nodes : n # sib /\ n # p /\ n # r => g.up[n] = f.up[n]
       /\ g.root[t] = IF gp = None THEN sib ELSE f.root[t]
       /\ \A u \in Tabs : u # t => g.root[u] = f.root[u]
  <2>1. f.up \in [Nodes -> Splits \cup {None}] /\ f.root \in [Tabs -> Nodes \cup {None}]
    BY TreeFields DEF Numbered
  <2>2. /\ g.root = IF gp = None THEN [f.root EXCEPT ![t] = sib] ELSE f.root
        /\ g.up = [f.up EXCEPT ![sib] = gp, ![p] = None, ![r] = None]
    BY <1>1 DEF DetachLinks
  <2> QED BY <1>2, <1>5, <2>1, <2>2
<1>14. /\ gp = None <=> r = f.root[t]
       /\ gp # None => r = f.kids[gp][1] \/ r = f.kids[gp][2]
  BY <1>1, <1>2, <1>5, ParentIs
<1>15. p # f.root[t] /\ sib # f.root[t]
  <2>1. r # None
    BY <1>2, <1>5
  <2> QED BY <1>2, <1>5, <2>1, ParentIs
<1>16. m.lo[r] <= m.cut[r] /\ m.cut[r] < m.hi[r]
  <2>1. PICK a, b : a = f.kids[r][1] /\ b = f.kids[r][2]
    BY Zenon
  <2> QED BY <1>2, <1>5, <2>1, ChildrenAre
<1>17. w.lo[sib] = w.lo[r] /\ w.hi[sib] = w.hi[r]
  <2>1. m.lo[r] \in Nat /\ m.hi[r] \in Nat /\ m.cut[r] \in Nat
    BY <1>2, <1>7, <1>8
  <2>2. m.cut[r] = k \/ m.cut[r] + 1 = k
    BY <1>1, <1>3, <1>6
  <2>3. /\ w.lo[sib] = IF m.lo[sib] > k THEN m.lo[sib] - 1 ELSE m.lo[sib]
        /\ w.hi[sib] = IF m.hi[sib] >= k THEN m.hi[sib] - 1 ELSE m.hi[sib]
        /\ w.lo[r] = IF m.lo[r] > k THEN m.lo[r] - 1 ELSE m.lo[r]
        /\ w.hi[r] = IF m.hi[r] >= k THEN m.hi[r] - 1 ELSE m.hi[r]
    BY <1>2, <1>9
  <2>4. CASE m.lo[p] = m.cut[r] + 1 /\ m.hi[p] = m.hi[r] /\ m.lo[sib] = m.lo[r] /\ m.hi[sib] = m.cut[r]
    <3>1. k = m.cut[r] + 1 /\ m.hi[r] = k
      BY <1>1, <1>6, <2>4
    <3> QED BY <1>6, <1>16, <2>1, <2>3, <2>4, <3>1
  <2>5. CASE m.lo[sib] = m.cut[r] + 1 /\ m.hi[sib] = m.hi[r] /\ m.lo[p] = m.lo[r] /\ m.hi[p] = m.cut[r]
    <3>1. k = m.cut[r] /\ m.lo[r] = k
      BY <1>1, <1>6, <2>5
    <3> QED BY <1>6, <1>16, <2>1, <2>3, <2>5, <3>1
  <2> QED BY <1>3, <2>4, <2>5
<1>18. m.cut[r] = k \/ m.cut[r] + 1 = k
  BY <1>1, <1>3, <1>6
<1>19. NodesOK(open, w)
  <2> SUFFICES ASSUME NEW n \in Nodes, w.own[n] # None
               PROVE  /\ w.own[n] \in open
                      /\ 1 <= w.lo[n] /\ w.lo[n] <= w.hi[n] /\ w.hi[n] <= Len(w.order[w.own[n]])
    BY DEF NodesOK
  <2>1. n # p /\ n # r /\ w.own[n] = m.own[n]
    BY <1>9
  <2>2. /\ w.lo[n] = IF m.own[n] = t /\ m.lo[n] > k THEN m.lo[n] - 1 ELSE m.lo[n]
        /\ w.hi[n] = IF m.own[n] = t /\ m.hi[n] >= k THEN m.hi[n] - 1 ELSE m.hi[n]
    BY <1>9
  <2>3. /\ m.own[n] \in open /\ m.own[n] \in Tabs
        /\ 1 <= m.lo[n] /\ m.lo[n] <= m.hi[n] /\ m.hi[n] <= Len(m.order[m.own[n]])
        /\ m.lo[n] \in Nat /\ m.hi[n] \in Nat
    BY <2>1, NumberTypes
  <2>4. CASE m.own[n] # t
    BY <1>11, <2>1, <2>2, <2>3, <2>4
  <2>5. CASE m.own[n] = t
    <3>1. m.hi[n] <= l /\ Len(w.order[w.own[n]]) = l - 1
      BY <1>1, <1>11, <2>1, <2>3, <2>5
    <3>2. m.lo[n] # k \/ m.hi[n] # k
      <4>1. CASE n \in Panes
        <5>1. m.order[t][m.lo[n]] = n
          BY <1>5, <2>5, <4>1, PlaceIs
        <5> QED BY <1>6, <2>1, <5>1
      <4>2. CASE n \in Splits
        <5>1. PICK a, b : a = f.kids[n][1] /\ b = f.kids[n][2]
          BY Zenon
        <5>2. m.lo[n] <= m.cut[n] /\ m.cut[n] < m.hi[n] /\ m.cut[n] \in Nat
          BY <1>5, <1>8, <2>5, <4>2, <5>1, ChildrenAre
        <5> QED BY <2>3, <5>2
      <4> QED BY <4>1, <4>2, NodesAre
    <3>3. CASE m.lo[n] > k
      BY <1>6, <2>1, <2>2, <2>3, <2>5, <3>1, <3>3, SMTT(30)
    <3>4. CASE ~(m.lo[n] > k)
      <4>1. w.lo[n] = m.lo[n]
        BY <2>2, <3>4
      <4>2. m.hi[n] >= k => m.lo[n] <= m.hi[n] - 1
        BY <1>6, <2>3, <3>2, <3>4
      <4> QED BY <1>6, <2>1, <2>2, <2>3, <2>5, <3>1, <4>1, <4>2, SMTT(30)
    <3> QED BY <3>3, <3>4
  <2> QED BY <2>4, <2>5
<1>20. PlacesOK(open, w)
  <2>1. ASSUME NEW x \in Panes, w.own[x] # None
        PROVE  w.lo[x] = w.hi[x] /\ w.order[w.own[x]][w.lo[x]] = x
    <3>1. x \in Nodes /\ x # p /\ x # r /\ w.own[x] = m.own[x]
      BY <1>5, <1>9, <2>1 DEF Nodes
    <3>2. /\ w.lo[x] = IF m.own[x] = t /\ m.lo[x] > k THEN m.lo[x] - 1 ELSE m.lo[x]
          /\ w.hi[x] = IF m.own[x] = t /\ m.hi[x] >= k THEN m.hi[x] - 1 ELSE m.hi[x]
      BY <1>9, <3>1
    <3>3. /\ m.own[x] \in Tabs /\ m.lo[x] \in Nat /\ m.hi[x] = m.lo[x] /\ 1 <= m.lo[x]
          /\ m.lo[x] <= Len(m.order[m.own[x]]) /\ m.order[m.own[x]][m.lo[x]] = x
      BY <2>1, <3>1, PlaceIs
    <3>4. CASE m.own[x] # t
      BY <1>11, <3>1, <3>2, <3>3, <3>4, Zenon
    <3>5. CASE m.own[x] = t /\ m.lo[x] > k
      <4>1. PICK j : j = m.lo[x] - 1
        OBVIOUS
      <4>2. j \in 1..(l - 1) /\ ~(j < k) /\ j + 1 = m.lo[x]
        BY <1>1, <1>6, <3>3, <3>5, <4>1
      <4>3. w.order[t][j] = m.order[t][j + 1]
        BY <1>11, <4>2
      <4>4. w.lo[x] = j /\ w.hi[x] = j
        BY <1>6, <3>2, <3>3, <3>5, <4>1
      <4> QED BY <3>1, <3>3, <3>5, <4>2, <4>3, <4>4, Zenon
    <3>6. CASE m.own[x] = t /\ ~(m.lo[x] > k)
      <4>1. m.lo[x] # k
        BY <1>6, <3>1, <3>3, <3>6
      <4>2. m.lo[x] < k /\ m.lo[x] \in 1..(l - 1)
        BY <1>6, <3>3, <3>6, <4>1
      <4>3. w.order[t][m.lo[x]] = m.order[t][m.lo[x]]
        BY <1>11, <4>2, Zenon
      <4>4. w.lo[x] = m.lo[x] /\ w.hi[x] = m.lo[x]
        BY <1>6, <3>2, <3>3, <3>6, <4>2
      <4> QED BY <3>1, <3>3, <3>6, <4>3, <4>4
    <3> QED BY <3>4, <3>5, <3>6
  <2>2. ASSUME NEW u \in open, NEW j \in 1..Len(w.order[u])
        PROVE  w.own[w.order[u][j]] = u /\ w.lo[w.order[u][j]] = j
    <3>0. \A i \in 1..Len(m.order[u]) :
            /\ m.own[m.order[u][i]] = u /\ m.lo[m.order[u][i]] = i /\ m.order[u][i] \in Panes
      BY OrderIs DEF Numbered, PlacesOK
    <3>1. CASE u # t
      <4>1. PICK x : x = m.order[u][j]
        OBVIOUS
      <4>2. w.order[u] = m.order[u] /\ x \in Panes /\ m.own[x] = u /\ m.lo[x] = j
        BY <1>5, <1>11, <3>0, <3>1, <4>1
      <4>4. x # p /\ x # r /\ x \in Nodes
        BY <1>2, <1>5, <3>1, <4>2 DEF Nodes
      <4> QED BY <1>9, <3>1, <4>1, <4>2, <4>4
    <3>2. CASE u = t
      <4>0. j \in 1..(l - 1)
        BY <1>11, <3>2
      <4>2. CASE j < k
        <5>1. j \in 1..l
          BY <1>6, <4>0, <4>2
        <5>2. PICK x : x = m.order[t][j]
          OBVIOUS
        <5>3. w.order[t][j] = x /\ x \in Panes /\ m.own[x] = t /\ m.lo[x] = j
          BY <1>1, <1>11, <3>0, <3>2, <4>0, <4>2, <5>1, <5>2
        <5>4. x # p /\ x # r /\ x \in Nodes
          BY <1>1, <1>5, <4>2, <5>3 DEF Nodes
        <5>5. ~(m.lo[x] > k)
          BY <1>6, <4>2, <5>3
        <5> QED BY <1>9, <3>2, <5>3, <5>4, <5>5
      <4>4. CASE ~(j < k)
        <5>1. j + 1 \in 1..l
          BY <1>6, <4>0, <4>4
        <5>2. PICK x : x = m.order[t][j + 1]
          OBVIOUS
        <5>3. w.order[t][j] = x /\ x \in Panes /\ m.own[x] = t /\ m.lo[x] = j + 1
          BY <1>1, <1>11, <3>0, <3>2, <4>0, <4>4, <5>1, <5>2, Zenon
        <5>4. x # p /\ x # r /\ x \in Nodes
          BY <1>1, <1>5, <1>6, <4>0, <4>4, <5>3 DEF Nodes
        <5>5. m.lo[x] > k /\ m.lo[x] - 1 = j
          BY <1>6, <4>0, <4>4, <5>3
        <5> QED BY <1>9, <3>2, <5>3, <5>4, <5>5
      <4> QED BY <4>2, <4>4
    <3> QED BY <3>1, <3>2
  <2> QED BY <2>1, <2>2 DEF PlacesOK
<1>21. CutsOK(open, w)
  <2>0. /\ \A x, y \in Splits : m.own[x] # None /\ m.own[x] = m.own[y] /\ m.cut[x] = m.cut[y] => x = y
        /\ \A u \in open : \A j \in 1..(Len(m.order[u]) - 1) :
             \E x \in Splits : m.own[x] = u /\ m.cut[x] = j
    BY DEF Numbered, CutsOK
  <2>1. \A x \in Splits : x # r => x \in Nodes /\ x # p /\ w.own[x] = m.own[x]
    BY <1>5, <1>9 DEF Nodes
  <2>2. \A x \in Splits : x # r /\ m.own[x] = t => m.cut[x] # m.cut[r]
    BY <1>2, <1>5, <2>0
  <2>3. ASSUME NEW x \in Splits, NEW y \in Splits, w.own[x] # None, w.own[x] = w.own[y], w.cut[x] = w.cut[y]
        PROVE  x = y
    <3>1. x # r /\ y # r /\ m.own[x] = m.own[y] /\ m.own[x] # None
      BY <1>9, <2>1, <2>3
    <3>2. /\ m.own[x] = t => m.cut[x] # m.cut[r] /\ m.cut[y] # m.cut[r]
          /\ m.cut[x] \in Nat /\ m.cut[y] \in Nat /\ m.cut[r] \in Nat
      BY <1>2, <1>8, <2>2, <3>1
    <3>3. /\ w.cut[x] = IF m.own[x] = t /\ m.cut[x] >= k THEN m.cut[x] - 1 ELSE m.cut[x]
          /\ w.cut[y] = IF m.own[x] = t /\ m.cut[y] >= k THEN m.cut[y] - 1 ELSE m.cut[y]
      BY <1>10, <3>1
    <3>4. m.cut[x] = m.cut[y]
      <4>1. PICK cx, cy, cr : cx = m.cut[x] /\ cy = m.cut[y] /\ cr = m.cut[r]
        BY Zenon
      <4>2. cx \in Nat /\ cy \in Nat /\ cr \in Nat /\ (cr = k \/ cr + 1 = k)
        BY <1>18, <3>2, <4>1
      <4>3. CASE m.own[x] # t
        BY <2>3, <3>3, <4>3, Zenon
      <4>4. CASE m.own[x] = t
        <5>1. cx # cr /\ cy # cr
          BY <3>2, <4>1, <4>4
        <5>2. (IF cx >= k THEN cx - 1 ELSE cx) = (IF cy >= k THEN cy - 1 ELSE cy)
          BY <2>3, <3>3, <4>1, <4>4, Zenon
        <5> QED BY <1>6, <4>1, <4>2, <5>1, <5>2
      <4> QED BY <4>3, <4>4
    <3> QED BY <2>0, <3>1, <3>4
  <2>4. ASSUME NEW u \in open, NEW j \in 1..(Len(w.order[u]) - 1)
        PROVE  \E x \in Splits : w.own[x] = u /\ w.cut[x] = j
    <3>1. CASE u # t
      <4>1. j \in 1..(Len(m.order[u]) - 1)
        BY <1>5, <1>11, <3>1
      <4>2. PICK x \in Splits : m.own[x] = u /\ m.cut[x] = j
        BY <2>0, <4>1
      <4>3. x # r
        BY <1>2, <3>1, <4>2
      <4> QED BY <1>10, <2>1, <3>1, <4>2, <4>3
    <3>2. CASE u = t
      <4>0. j \in 1..(l - 2)
        BY <1>6, <1>11, <3>2
      <4>1. PICK i : i = IF j < k /\ j # m.cut[r] THEN j ELSE j + 1
        OBVIOUS
      <4>2. m.cut[r] \in Nat
        BY <1>2, <1>8
      <4>3. /\ i \in 1..(l - 1) /\ i # m.cut[r]
            /\ j = IF i >= k THEN i - 1 ELSE i
        <5>1. CASE j < k /\ j # m.cut[r]
          BY <1>6, <4>0, <4>1, <5>1
        <5>2. CASE j < k /\ j = m.cut[r]
          BY <1>6, <1>18, <4>0, <4>1, <4>2, <5>2
        <5>3. CASE ~(j < k)
          BY <1>6, <1>18, <4>0, <4>1, <4>2, <5>3
        <5> QED BY <5>1, <5>2, <5>3
      <4>4. PICK x \in Splits : m.own[x] = t /\ m.cut[x] = i
        BY <1>1, <2>0, <4>3
      <4>5. x # r
        BY <4>3, <4>4
      <4>6. w.cut[x] = j
        BY <1>10, <4>3, <4>4
      <4> QED BY <2>1, <3>2, <4>4, <4>5, <4>6
    <3> QED BY <3>1, <3>2
  <2> QED BY <2>3, <2>4 DEF CutsOK
<1>22. SplitsOK(g, w)
  <2> SUFFICES ASSUME NEW x \in Splits
               PROVE  IF w.own[x] = None THEN g.kids[x] = NoKids ELSE Shares(g, w, x)
    BY DEF SplitsOK
  <2>1. CASE x = r
    BY <1>9, <1>12, <2>1
  <2>2. CASE x # r
    <3>0. x \in Nodes /\ x # p /\ w.own[x] = m.own[x]
      BY <1>5, <1>9, <2>2 DEF Nodes
    <3>1. CASE m.own[x] = None
      <4>1. f.kids[x] = NoKids
        BY <3>1, UsedHaveKids
      <4>2. x # gp
        BY <1>2, <1>5, <3>1
      <4> QED BY <1>12, <2>2, <3>0, <3>1, <4>1, <4>2
    <3>2. CASE m.own[x] # None
      <4>1. PICK a, b, c, d : a = f.kids[x][1] /\ b = f.kids[x][2] /\ c = g.kids[x][1] /\ d = g.kids[x][2]
        OBVIOUS
      <4>2. /\ a \in Nodes /\ b \in Nodes
            /\ m.own[a] = m.own[x] /\ m.own[b] = m.own[x]
            /\ f.up[a] = x /\ f.up[b] = x
            /\ m.lo[b] = m.lo[x] /\ m.hi[b] = m.cut[x]
            /\ m.lo[a] = m.cut[x] + 1 /\ m.hi[a] = m.hi[x]
            /\ m.lo[x] <= m.cut[x] /\ m.cut[x] < m.hi[x] /\ a # b
        BY <3>2, <4>1, ChildrenAre
      <4>3. /\ c = IF a = r THEN sib ELSE a
            /\ d = IF b = r THEN sib ELSE b
        BY <1>1, <1>12, <2>2, <4>1, <4>2
      <4>4. /\ (a = r \/ b = r) => x = gp /\ m.own[x] = t
            /\ a # p /\ b # p /\ a # sib /\ b # sib
        BY <1>1, <1>2, <2>2, <4>2
      <4>6. c \in Nodes /\ d \in Nodes
        BY <1>2, <4>2, <4>3
      <4>7. w.own[c] = w.own[x] /\ w.own[d] = w.own[x]
        BY <1>2, <1>9, <3>0, <4>2, <4>3, <4>4
      <4>8. g.up[c] = x /\ g.up[d] = x
        BY <1>13, <4>2, <4>3, <4>4
      <4>9. /\ w.lo[x] = IF m.own[x] = t /\ m.lo[x] > k THEN m.lo[x] - 1 ELSE m.lo[x]
            /\ w.hi[x] = IF m.own[x] = t /\ m.hi[x] >= k THEN m.hi[x] - 1 ELSE m.hi[x]
            /\ w.cut[x] = IF m.own[x] = t /\ m.cut[x] >= k THEN m.cut[x] - 1 ELSE m.cut[x]
        BY <1>9, <1>10, <3>0
      <4>10. m.lo[x] \in Nat /\ m.hi[x] \in Nat /\ m.cut[x] \in Nat
        BY <1>7, <1>8, <3>0
      <4>11. /\ w.lo[c] = w.lo[a] /\ w.hi[c] = w.hi[a]
             /\ w.lo[d] = w.lo[b] /\ w.hi[d] = w.hi[b]
        BY <1>17, <4>3
      <4>12. w.lo[b] = w.lo[x] /\ w.hi[b] = w.cut[x]
        <5>1. /\ w.lo[b] = IF m.own[b] = t /\ m.lo[b] > k THEN m.lo[b] - 1 ELSE m.lo[b]
              /\ w.hi[b] = IF m.own[b] = t /\ m.hi[b] >= k THEN m.hi[b] - 1 ELSE m.hi[b]
          BY <1>9, <4>2
        <5> QED BY <4>2, <4>9, <5>1
      <4>13. w.lo[a] = w.cut[x] + 1 /\ w.hi[a] = w.hi[x]
        <5>1. /\ w.lo[a] = IF m.own[a] = t /\ m.lo[a] > k THEN m.lo[a] - 1 ELSE m.lo[a]
              /\ w.hi[a] = IF m.own[a] = t /\ m.hi[a] >= k THEN m.hi[a] - 1 ELSE m.hi[a]
          BY <1>9, <4>2
        <5>2. m.cut[x] + 1 > k <=> m.cut[x] >= k
          BY <1>6, <4>10
        <5> QED BY <1>6, <4>2, <4>9, <4>10, <5>1, <5>2
      <4>14. Shares(g, w, x)
        BY <4>1, <4>6, <4>7, <4>8, <4>11, <4>12, <4>13 DEF Shares
      <4> QED BY <3>0, <3>2, <4>14
    <3> QED BY <3>1, <3>2
  <2> QED BY <2>1, <2>2
<1>23. ASSUME NEW n \in Nodes
       PROVE  Hangs(g, w, n)
  <2>1. CASE n = p \/ n = r
    BY <1>9, <1>13, <2>1 DEF Hangs
  <2>2. CASE n = sib
    <3>0. w.own[n] = t /\ g.up[n] = gp
      BY <1>2, <1>9, <1>13, <2>2
    <3>1. CASE gp = None
      BY <1>13, <2>2, <3>0, <3>1 DEF Hangs
    <3>2. CASE gp # None
      <4>1. n # g.root[t]
        BY <1>13, <1>15, <2>2, <3>2
      <4>2. gp \in Splits /\ gp \in Nodes /\ m.own[gp] = t /\ gp # p /\ gp # r
        BY <1>2, <1>5, <3>2
      <4>3. w.own[gp] = t
        BY <1>9, <4>2
      <4>4. n = g.kids[gp][1] \/ n = g.kids[gp][2]
        BY <1>12, <1>14, <2>2, <3>2, <4>2
      <4> QED BY <1>5, <3>0, <4>1, <4>2, <4>3, <4>4 DEF Hangs
    <3> QED BY <3>1, <3>2
  <2>3. CASE n \notin {r, sib, p}
    <3>1. w.own[n] = m.own[n] /\ g.up[n] = f.up[n]
      BY <1>9, <1>13, <2>3
    <3>2. CASE m.own[n] = None
      <4>1. f.up[n] = None
        BY <3>2 DEF Numbered, Hangs
      <4> QED BY <3>1, <3>2, <4>1 DEF Hangs
    <3>3. CASE m.own[n] # None
      <4>1. PICK v, u : v = f.up[n] /\ u = m.own[n]
        OBVIOUS
      <4>2. /\ v = None <=> n = f.root[u]
            /\ v # None => /\ v \in Splits /\ v \in Nodes /\ m.own[v] = u
                           /\ n = f.kids[v][1] \/ n = f.kids[v][2]
        BY <3>3, <4>1, ParentIs
      <4>3. u \in Tabs
        BY <3>3, <4>1, NumberTypes
      <4>4. n = f.root[u] <=> n = g.root[u]
        BY <1>13, <1>14, <2>3, <4>3
      <4>5. CASE v = None
        BY <3>1, <4>1, <4>2, <4>4, <4>5 DEF Hangs
      <4>6. CASE v # None
        <5>1. v # r /\ v # p
          BY <1>3, <1>5, <2>3, <4>2, <4>6
        <5>2. w.own[v] = u
          BY <1>9, <4>2, <4>6, <5>1
        <5>3. n = g.kids[v][1] \/ n = g.kids[v][2]
          BY <1>12, <2>3, <4>2, <4>6, <5>1
        <5>4. /\ g.up[n] = v /\ v \in Splits /\ w.own[v] = w.own[n] /\ n # g.root[w.own[n]]
              /\ w.own[n] # None
          BY <3>1, <3>3, <4>1, <4>2, <4>4, <4>6, <5>2
        <5> QED BY <5>3, <5>4 DEF Hangs
      <4> QED BY <4>5, <4>6
    <3> QED BY <3>2, <3>3
  <2> QED BY <2>1, <2>2, <2>3
<1>24. ASSUME NEW u \in open
       PROVE  RootOK(g, w, u)
  <2>1. PICK q : q = f.root[u]
    OBVIOUS
  <2>2. q \in Nodes /\ m.own[q] = u /\ m.lo[q] = 1 /\ m.hi[q] = Len(m.order[u]) /\ u \in Tabs /\ u # None
    BY <1>5, <2>1, OrderIs DEF Numbered, RootOK
  <2>4. CASE u # t
    <3>1. q # p /\ q # r
      BY <1>2, <2>2, <2>4
    <3>2. w.own[q] = u /\ w.lo[q] = 1 /\ w.hi[q] = Len(w.order[u])
      BY <1>9, <1>11, <2>2, <2>4, <3>1
    <3> QED BY <1>13, <2>1, <2>2, <2>4, <3>2 DEF RootOK
  <2>5. CASE u = t
    <3>1. ~(1 > k) /\ m.hi[q] >= k /\ m.hi[q] = l
      BY <1>1, <1>6, <2>2, <2>5
    <3>2. w.lo[q] = 1 /\ w.hi[q] = l - 1
      BY <1>9, <2>2, <2>5, <3>1
    <3>3. CASE gp = None
      <4>1. q = r
        BY <1>14, <2>1, <2>5, <3>3
      <4>2. g.root[u] = sib /\ w.own[sib] = t
        BY <1>2, <1>9, <1>13, <2>5, <3>3
      <4> QED BY <1>2, <1>11, <1>17, <2>5, <3>2, <4>1, <4>2 DEF RootOK
    <3>4. CASE gp # None
      <4>1. q # r /\ q # p /\ g.root[u] = q
        BY <1>13, <1>14, <1>15, <2>1, <2>5, <3>4
      <4>2. w.own[q] = t
        BY <1>9, <2>2, <2>5, <4>1
      <4> QED BY <1>11, <2>2, <2>5, <3>2, <4>1, <4>2 DEF RootOK
    <3> QED BY <3>3, <3>4
  <2> QED BY <2>4, <2>5
<1> QED BY <1>4, <1>5, <1>19, <1>20, <1>21, <1>22, <1>23, <1>24 DEF Numbered

LEMMA DetachKeeps ==
  ASSUME NEW f, NEW open, NEW m, Sound(f, open, m), NEW t \in open,
         NEW p \in Panes, m.own[p] = t, f.up[p] # None
  PROVE  Yields(Detach(f, t, p), open, [m.own EXCEPT ![p] = None])
<1>1. PICK r, sib : r = f.up[p] /\ sib = IF f.kids[r][1] = p THEN f.kids[r][2] ELSE f.kids[r][1]
  OBVIOUS
<1>2. Numbered(f, open, m) /\ WindowsOK(f, open, m) /\ f \in Trees /\ t \in Tabs /\ open \subseteq Tabs
  BY DEF Sound, Numbered
<1>3. Family(f, m, t, p, r, sib)
  BY <1>1, <1>2, FamilyIs
<1>4. PICK h, w, g : h = CutOff(f, t, p, r, sib) /\ w = Narrowed(m, t, p, r) /\ g = Detach(f, t, p)
  OBVIOUS
<1>5. DetachLinks(f, h, t, p, r, sib) /\ h \in Trees /\ h.act = f.act /\ h.cache = f.cache
  BY <1>2, <1>3, <1>4, CutOffIs
<1>6. Numbered(h, open, w)
  BY <1>2, <1>3, <1>4, <1>5, DetachNumbered
<1>7. PICK k : k = m.lo[p]
  OBVIOUS
<1>8. NarrowedFacts(m, w, t, p, r, k)
  <2>1. r \in Splits
    BY <1>3 DEF Family
  <2> QED BY <1>2, <1>4, <1>7, <2>1, NarrowedIs
<1>9. sib \in Nodes /\ w.own[sib] = t /\ t # None /\ r \in Splits
  <2>1. sib \in Nodes /\ sib # p /\ sib # r /\ m.own[sib] = t /\ r \in Splits
    BY <1>3 DEF Family
  <2>2. w.own[sib] = m.own[sib]
    BY <1>8, <2>1 DEF NarrowedFacts
  <2> QED BY <1>2, <2>1, <2>2, OrderIs
<1>10. PICK q : q = FirstPane(h, sib)
  OBVIOUS
<1>11. q \in Panes /\ w.own[q] = t
  <2>1. PICK j : j = w.hi[sib]
    OBVIOUS
  <2>2. q = w.order[t][j]
    BY <1>6, <1>9, <1>10, <2>1, FirstPaneIs
  <2>3. j \in 1..Len(w.order[t])
    <3>1. /\ 1 <= w.lo[sib] /\ w.lo[sib] <= w.hi[sib] /\ w.hi[sib] <= Len(w.order[t])
          /\ w.lo[sib] \in Nat /\ w.hi[sib] \in Nat /\ Len(w.order[t]) \in Nat
      BY <1>2, <1>6, <1>9, NumberTypes
    <3> QED BY <2>1, <3>1
  <2>4. w.order[t] \in Seq(Panes)
    BY <1>2, <1>6, NumberTypes
  <2>5. w.own[w.order[t][j]] = t
    BY <1>6, <2>3 DEF Numbered, PlacesOK
  <2>6. w.order[t][j] \in Panes
    BY <2>3, <2>4
  <2> QED BY <2>2, <2>5, <2>6
<1>12. PICK e : e = IF f.act[t] = p THEN Activate(h, t, q) ELSE h
  OBVIOUS
<1>13. g = Uncached(e, t)
  <2>1. g = Uncached(IF h.act[t] = p THEN Activate(h, t, q) ELSE h, t)
    <3>1. f.act[t] = h.act[t]
      BY <1>5
    <3>2. sib = IF f.kids[f.up[p]][1] = p THEN f.kids[f.up[p]][2] ELSE f.kids[f.up[p]][1]
      BY <1>1
    <3>3. Detach(f, t, p) =
            Uncached(IF f.act[t] = p
                     THEN Activate(CutOff(f, t, p, f.up[p], sib), t,
                                   FirstPane(CutOff(f, t, p, f.up[p], sib), sib))
                     ELSE CutOff(f, t, p, f.up[p], sib), t)
      BY <3>2 DEF Detach, CutOff
    <3>4. h = CutOff(f, t, p, f.up[p], sib)
      BY <1>1, <1>4
    <3> QED BY <1>4, <1>10, <3>1, <3>3, <3>4
  <2> QED BY <1>5, <1>12, <2>1
<1>14. /\ e \in Trees /\ e.kids = h.kids /\ e.up = h.up /\ e.root = h.root /\ e.cache = f.cache
       /\ e.act = [f.act EXCEPT ![t] = IF f.act[t] = p THEN q ELSE f.act[t]]
  <2>0. f.act \in [Tabs -> Panes \cup {None}]
    BY <1>2, TreeFields
  <2>1. CASE f.act[t] = p
    <3>1. e = Activate(h, t, q)
      BY <1>12, <2>1
    <3>2. /\ e \in Trees /\ e.kids = h.kids /\ e.up = h.up /\ e.root = h.root /\ e.cache = h.cache
          /\ e.act = [h.act EXCEPT ![t] = q]
      BY <1>2, <1>5, <1>11, <3>1, ActivateIs
    <3> QED BY <1>5, <2>1, <3>2
  <2>2. CASE f.act[t] # p
    BY <1>5, <1>12, <2>0, <2>2
  <2> QED BY <2>1, <2>2
<1>15. /\ g \in Trees
       /\ g.kids = h.kids /\ g.up = h.up /\ g.root = h.root /\ g.act = e.act
       /\ g.cache = [f.cache EXCEPT ![t] = <<>>]
  <2>1. /\ g \in Trees
        /\ g.kids = e.kids /\ g.up = e.up /\ g.root = e.root /\ g.act = e.act
        /\ g.cache = [e.cache EXCEPT ![t] = <<>>]
    BY <1>2, <1>13, <1>14, UncachedIs
  <2> QED BY <1>14, <2>1
<1>16. Numbered(g, open, w)
  BY <1>6, <1>15, LinksStay
<1>17. WindowsOK(g, open, w)
  <2>1. f.act \in [Tabs -> Panes \cup {None}] /\ f.cache \in [Tabs -> Seq(Panes)]
    BY <1>2, TreeFields
  <2>2. \A u \in open : g.act[u] \in Panes /\ w.own[g.act[u]] = u
    <3> SUFFICES ASSUME NEW u \in open PROVE g.act[u] \in Panes /\ w.own[g.act[u]] = u
      OBVIOUS
    <3>0. f.act[u] \in Panes /\ m.own[f.act[u]] = u /\ f.act[u] \in Nodes /\ u \in Tabs
      BY <1>2 DEF WindowsOK, Nodes
    <3>1. g.act[u] = IF u = t /\ f.act[t] = p THEN q ELSE f.act[u]
      BY <1>2, <1>14, <1>15, <2>1, <3>0
    <3>2. CASE u = t /\ f.act[t] = p
      BY <1>11, <3>1, <3>2
    <3>3. CASE ~(u = t /\ f.act[t] = p)
      <4>1. f.act[u] # p /\ f.act[u] # r
        BY <1>9, <3>0, <3>3, NodesAre
      <4> QED BY <1>8, <3>0, <3>1, <3>3, <4>1 DEF NarrowedFacts
    <3> QED BY <3>2, <3>3
  <2>4. \A u \in Tabs : g.cache[u] = IF u = t THEN <<>> ELSE f.cache[u]
    BY <1>2, <1>15, <2>1
  <2>5. \A u \in Tabs : u # t => w.order[u] = m.order[u]
    BY <1>8 DEF NarrowedFacts
  <2>6. \A u \in open : g.cache[u] \in {<<>>, w.order[u]}
    BY <1>2, <2>4, <2>5 DEF WindowsOK
  <2>7. \A u \in Tabs \ open : g.cache[u] = <<>>
    BY <1>2, <2>4 DEF WindowsOK
  <2> QED BY <2>2, <2>6, <2>7 DEF WindowsOK
<1>18. \A x \in Panes : w.own[x] = [m.own EXCEPT ![p] = None][x]
  <2>1. m.own \in [Nodes -> Tabs \cup {None}] /\ Panes \subseteq Nodes
    BY <1>2 DEF Numbered, Marks, Nodes
  <2>2. \A x \in Panes : x # r
    BY <1>9, NodesAre
  <2> QED BY <1>8, <2>1, <2>2 DEF NarrowedFacts
<1>19. Sound(g, open, w)
  BY <1>16, <1>17 DEF Sound
<1> QED BY <1>4, <1>18, <1>19 DEF Yields

-----------------------------------------------------------------------------
(* Windows that come and go.                                               *)

\* A new tab with one pane, whose window has that pane alone.
LEMMA SingleKeeps ==
  ASSUME NEW f, NEW open, NEW m, Sound(f, open, m), NEW t \in Tabs \ open,
         NEW p \in Panes, m.own[p] = None
  PROVE  Yields(Single(f, t, p), open \cup {t}, [m.own EXCEPT ![p] = t])
<1>1. PICK g : g = Single(f, t, p)
  OBVIOUS
<1>2. /\ Numbered(f, open, m) /\ WindowsOK(f, open, m) /\ f \in Trees /\ open \subseteq Tabs
      /\ m \in Marks
  BY DEF Sound, Numbered
<1>3. p \in Nodes /\ t # None /\ p \notin Splits
  BY NodesAre DEF Nodes
<1>4. PICK w : w = [own |-> [m.own EXCEPT ![p] = t], lo |-> [m.lo EXCEPT ![p] = 1],
                    hi |-> [m.hi EXCEPT ![p] = 1], cut |-> m.cut,
                    order |-> [m.order EXCEPT ![t] = <<p>>]]
  BY Zenon
<1>5. /\ m.own \in [Nodes -> Tabs \cup {None}] /\ m.lo \in [Nodes -> Nat] /\ m.hi \in [Nodes -> Nat]
      /\ m.cut \in [Splits -> Nat] /\ m.order \in [Tabs -> Seq(Panes)]
  BY <1>2 DEF Marks
<1>6. w \in Marks
  <2>1. [m.own EXCEPT ![p] = t] \in [Nodes -> Tabs \cup {None}]
    BY <1>3, <1>5
  <2>2. [m.lo EXCEPT ![p] = 1] \in [Nodes -> Nat] /\ [m.hi EXCEPT ![p] = 1] \in [Nodes -> Nat]
    BY <1>3, <1>5
  <2>3. [m.order EXCEPT ![t] = <<p>>] \in [Tabs -> Seq(Panes)]
    BY <1>5
  <2> QED BY <1>4, <1>5, <2>1, <2>2, <2>3 DEF Marks
<1>7. /\ w.own[p] = t /\ w.lo[p] = 1 /\ w.hi[p] = 1
      /\ \A n \in Nodes : n # p => w.own[n] = m.own[n] /\ w.lo[n] = m.lo[n] /\ w.hi[n] = m.hi[n]
      /\ w.cut = m.cut
      /\ w.order[t] = <<p>> /\ \A u \in Tabs : u # t => w.order[u] = m.order[u]
  BY <1>3, <1>4, <1>5
<1>8. f.up[p] = None
  BY <1>2, <1>3 DEF Numbered, Hangs
<1>9. /\ g \in Trees /\ g.kids = f.kids /\ g.up = f.up /\ g.cache = f.cache
      /\ g.root = [f.root EXCEPT ![t] = p] /\ g.act = [f.act EXCEPT ![t] = p]
  <2>1. g = [f EXCEPT !.root[t] = p, !.act[t] = p, !.up[p] = None]
    BY <1>1 DEF Single
  <2>2. g = [kids |-> f.kids, up |-> [f.up EXCEPT ![p] = None], root |-> [f.root EXCEPT ![t] = p],
             act |-> [f.act EXCEPT ![t] = p], prev |-> f.prev, cache |-> f.cache]
    BY <1>2, <2>1, Zenon DEF Trees
  <2>3. [f.up EXCEPT ![p] = None] = f.up
    BY <1>2, <1>3, <1>8, TreeFields
  <2>4. /\ [f.root EXCEPT ![t] = p] \in [Tabs -> Nodes \cup {None}]
        /\ [f.act EXCEPT ![t] = p] \in [Tabs -> Panes \cup {None}]
    BY <1>2, <1>3, TreeFields
  <2>5. g \in Trees
    BY <1>2, <2>2, <2>3, <2>4, TreeFields, Zenon DEF Trees
  <2> QED BY <2>2, <2>3, <2>5
<1>10. g.root[t] = p /\ g.act[t] = p
       /\ \A u \in Tabs : u # t => g.root[u] = f.root[u] /\ g.act[u] = f.act[u]
  BY <1>2, <1>9, TreeFields
<1>11. Len(<<p>>) = 1 /\ <<p>>[1] = p
  OBVIOUS
<1>12. NodesOK(open \cup {t}, w)
  <2> SUFFICES ASSUME NEW n \in Nodes, w.own[n] # None
               PROVE  /\ w.own[n] \in open \cup {t}
                      /\ 1 <= w.lo[n] /\ w.lo[n] <= w.hi[n] /\ w.hi[n] <= Len(w.order[w.own[n]])
    BY DEF NodesOK
  <2>1. CASE n = p
    BY <1>7, <1>11, <2>1, SMTT(30)
  <2>2. CASE n # p
    <3>1. m.own[n] # None
      BY <1>7, <2>2
    <3>2. /\ m.own[n] \in open
          /\ 1 <= m.lo[n] /\ m.lo[n] <= m.hi[n] /\ m.hi[n] <= Len(m.order[m.own[n]])
      BY <1>2, <3>1, NumberTypes
    <3> QED BY <1>2, <1>7, <2>2, <3>2
  <2> QED BY <2>1, <2>2
<1>13. PlacesOK(open \cup {t}, w)
  <2>1. ASSUME NEW x \in Panes, w.own[x] # None
        PROVE  w.lo[x] = w.hi[x] /\ w.order[w.own[x]][w.lo[x]] = x
    <3>1. CASE x = p
      BY <1>7, <1>11, <3>1
    <3>2. CASE x # p
      <4>1. x \in Nodes
        BY DEF Nodes
      <4>2. m.own[x] # None /\ w.own[x] = m.own[x] /\ w.lo[x] = m.lo[x] /\ w.hi[x] = m.hi[x]
        BY <1>7, <2>1, <3>2, <4>1
      <4>3. m.own[x] \in open /\ m.hi[x] = m.lo[x] /\ m.order[m.own[x]][m.lo[x]] = x
        BY <1>2, <4>2, PlaceIs
      <4> QED BY <1>2, <1>7, <4>2, <4>3
    <3> QED BY <3>1, <3>2
  <2>2. ASSUME NEW u \in open \cup {t}, NEW j \in 1..Len(w.order[u])
        PROVE  w.own[w.order[u][j]] = u /\ w.lo[w.order[u][j]] = j
    <3>1. CASE u = t
      BY <1>7, <1>11, <3>1
    <3>2. CASE u # t
      <4>1. u \in open /\ u # None /\ w.order[u] = m.order[u]
        BY <1>2, <1>7, <3>2, OrderIs
      <4>2. PICK x : x = m.order[u][j]
        OBVIOUS
      <4>3. x \in Panes /\ m.own[x] = u /\ m.lo[x] = j
        BY <1>2, <4>1, <4>2, OrderIs DEF Numbered, PlacesOK
      <4>4. x # p /\ x \in Nodes
        BY <4>1, <4>3 DEF Nodes
      <4> QED BY <1>7, <4>1, <4>2, <4>3, <4>4
    <3> QED BY <3>1, <3>2
  <2> QED BY <2>1, <2>2 DEF PlacesOK
<1>14. \A x \in Splits : x \in Nodes /\ x # p /\ w.own[x] = m.own[x] /\ w.cut[x] = m.cut[x]
  BY <1>3, <1>7 DEF Nodes
<1>15. CutsOK(open \cup {t}, w)
  <2>1. \A j : j \notin 1..(Len(w.order[t]) - 1)
    BY <1>7, <1>11
  <2>2. \A u \in open : w.order[u] = m.order[u]
    BY <1>2, <1>7
  <2>3. CutsOK(open, m)
    BY <1>2 DEF Numbered
  <2>4. \A x, y \in Splits : w.own[x] # None /\ w.own[x] = w.own[y] /\ w.cut[x] = w.cut[y] => x = y
    BY <1>14, <2>3 DEF CutsOK
  <2>5. ASSUME NEW u \in open \cup {t}, NEW j \in 1..(Len(w.order[u]) - 1)
        PROVE  \E x \in Splits : w.own[x] = u /\ w.cut[x] = j
    <3>1. u # t
      BY <2>1, <2>5, Zenon
    <3>2. u \in open /\ j \in 1..(Len(m.order[u]) - 1)
      BY <2>2, <2>5, <3>1
    <3>3. \E x \in Splits : m.own[x] = u /\ m.cut[x] = j
      BY <2>3, <3>2 DEF CutsOK
    <3> QED BY <1>14, <3>3
  <2> QED BY <2>4, <2>5 DEF CutsOK
<1>16. SplitsOK(g, w)
  <2> SUFFICES ASSUME NEW x \in Splits
               PROVE  IF w.own[x] = None THEN g.kids[x] = NoKids ELSE Shares(g, w, x)
    BY DEF SplitsOK
  <2>1. CASE m.own[x] = None
    BY <1>2, <1>9, <1>14, <2>1 DEF Numbered, SplitsOK
  <2>2. CASE m.own[x] # None
    <3>1. Shares(f, m, x)
      BY <1>2, <2>2 DEF Numbered, SplitsOK
    <3>2. Shares(g, w, x)
      BY <1>7, <1>9, <1>14, <2>2, <3>1 DEF Shares
    <3> QED BY <1>14, <2>2, <3>2
  <2> QED BY <2>1, <2>2
<1>17. ASSUME NEW n \in Nodes
       PROVE  Hangs(g, w, n)
  <2>0. Hangs(f, m, n)
    BY <1>2 DEF Numbered
  <2>1. CASE n = p
    BY <1>7, <1>8, <1>9, <1>10, <2>1 DEF Hangs
  <2>2. CASE n # p /\ m.own[n] = None
    BY <1>7, <1>9, <2>0, <2>2 DEF Hangs
  <2>3. CASE n # p /\ m.own[n] # None
    <3>1. m.own[n] \in open /\ m.own[n] \in Tabs
      BY <1>2, <2>3, NumberTypes
    <3>2. g.root[m.own[n]] = f.root[m.own[n]]
      BY <1>10, <3>1
    <3>3. f.up[n] \in Splits => w.own[f.up[n]] = m.own[f.up[n]]
      BY <1>14
    <3> QED BY <1>7, <1>9, <2>0, <2>3, <3>2, <3>3 DEF Hangs
  <2> QED BY <2>1, <2>2, <2>3
<1>18. ASSUME NEW u \in open \cup {t}
       PROVE  RootOK(g, w, u)
  <2>1. CASE u = t
    BY <1>3, <1>7, <1>10, <1>11, <2>1, Zenon DEF RootOK
  <2>2. CASE u # t
    <3>1. RootOK(f, m, u) /\ u \in open /\ u # None /\ u \in Tabs
      BY <1>2, <2>2, OrderIs DEF Numbered
    <3>2. f.root[u] # p
      BY <3>1 DEF RootOK
    <3> QED BY <1>7, <1>10, <2>2, <3>1, <3>2, SMTT(30) DEF RootOK
  <2> QED BY <2>1, <2>2
<1>19. WindowsOK(g, open \cup {t}, w)
  <2>1. \A u \in open : g.act[u] \in Panes /\ w.own[g.act[u]] = u
    <3> SUFFICES ASSUME NEW u \in open PROVE g.act[u] \in Panes /\ w.own[g.act[u]] = u
      OBVIOUS
    <3>1. f.act[u] \in Panes /\ m.own[f.act[u]] = u /\ u \in Tabs /\ u # t /\ u # None
      BY <1>2, OrderIs DEF WindowsOK
    <3>2. f.act[u] # p /\ f.act[u] \in Nodes
      BY <3>1 DEF Nodes
    <3> QED BY <1>7, <1>10, <3>1, <3>2
  <2>2. \A u \in open \cup {t} : g.cache[u] \in {<<>>, w.order[u]}
    BY <1>2, <1>7, <1>9 DEF WindowsOK
  <2>3. \A u \in Tabs \ (open \cup {t}) : g.cache[u] = <<>>
    BY <1>2, <1>9 DEF WindowsOK
  <2> QED BY <1>7, <1>10, <2>1, <2>2, <2>3 DEF WindowsOK
<1>20. Sound(g, open \cup {t}, w)
  <2>1. open \cup {t} \subseteq Tabs
    BY <1>2
  <2> QED BY <1>6, <1>9, <1>12, <1>13, <1>15, <1>16, <1>17, <1>18, <1>19, <2>1 DEF Sound, Numbered
<1>21. \A x \in Panes : w.own[x] = [m.own EXCEPT ![p] = t][x]
  BY <1>4
<1> QED BY <1>1, <1>20, <1>21 DEF Yields

\* The windows of tabs that are gone leave nothing behind.
LEMMA ForgetKeeps ==
  ASSUME NEW f, NEW open, NEW m, Sound(f, open, m), NEW ts \in SUBSET open
  PROVE  Yields(Forget(f, ts), open \ ts, [n \in Nodes |-> IF m.own[n] \in ts THEN None ELSE m.own[n]])
<1>1. PICK g : g = Forget(f, ts)
  OBVIOUS
<1>2. /\ Numbered(f, open, m) /\ WindowsOK(f, open, m) /\ f \in Trees /\ open \subseteq Tabs
      /\ m \in Marks /\ None \notin ts /\ None \notin open
  BY NodesAre, Zenon DEF Sound, Numbered
<1>3. PICK w : w = [m EXCEPT !.own = [n \in Nodes |-> IF m.own[n] \in ts THEN None ELSE m.own[n]]]
  BY Zenon
<1>4. /\ w \in Marks /\ w.lo = m.lo /\ w.hi = m.hi /\ w.cut = m.cut /\ w.order = m.order
      /\ w.own = [n \in Nodes |-> IF m.own[n] \in ts THEN None ELSE m.own[n]]
      /\ \A n \in Nodes : w.own[n] = IF m.own[n] \in ts THEN None ELSE m.own[n]
  BY <1>2, <1>3, Zenon DEF Marks
<1>5. PICK gone, loose :
        /\ gone = UNION {SplitsOf(f, t) : t \in ts}
        /\ loose = gone \cup UNION {Range(Leaves(f, f.root[t])) : t \in ts}
  BY Zenon
<1>6. g = [kids |-> [s \in Splits |-> IF s \in gone THEN NoKids ELSE f.kids[s]],
           up |-> [n \in Nodes |-> IF n \in loose THEN None ELSE f.up[n]],
           root |-> [t \in Tabs |-> IF t \in ts THEN None ELSE f.root[t]],
           act |-> [t \in Tabs |-> IF t \in ts THEN None ELSE f.act[t]],
           prev |-> [t \in Tabs |-> IF t \in ts THEN None ELSE f.prev[t]],
           cache |-> [t \in Tabs |-> IF t \in ts THEN <<>> ELSE f.cache[t]]]
  BY <1>1, <1>5 DEF Forget
<1>7. \A s \in Splits : s \in gone <=> m.own[s] \in ts
  <2>1. \A t \in ts : SplitsOf(f, t) = {s \in Splits : m.own[s] = t}
    BY <1>2, SplitsOfIs
  <2> QED BY <1>5, <2>1
<1>8. \A n \in Nodes : n \in loose <=> m.own[n] \in ts
  <2>1. \A t \in ts : SplitsOf(f, t) = {s \in Splits : m.own[s] = t}
    BY <1>2, SplitsOfIs
  <2>2. \A t \in ts : Range(Leaves(f, f.root[t])) = {p \in Panes : m.own[p] = t}
    BY <1>2, OrderIs
  <2>3. ASSUME NEW n \in Nodes
        PROVE  n \in loose <=> \E t \in ts : n \in SplitsOf(f, t) \/ n \in Range(Leaves(f, f.root[t]))
    BY <1>5
  <2> QED BY <2>1, <2>2, <2>3 DEF Nodes
<1>9. /\ \A s \in Splits : g.kids[s] = IF m.own[s] \in ts THEN NoKids ELSE f.kids[s]
      /\ \A n \in Nodes : g.up[n] = IF m.own[n] \in ts THEN None ELSE f.up[n]
      /\ \A t \in Tabs : t \notin ts => g.root[t] = f.root[t] /\ g.act[t] = f.act[t] /\ g.cache[t] = f.cache[t]
      /\ \A t \in Tabs : t \in ts => g.cache[t] = <<>>
  BY <1>6, <1>7, <1>8
<1>10. g \in Trees
  <2>0. NoKids \in (Nodes \cup {None}) \X (Nodes \cup {None}) /\ <<>> \in Seq(Panes)
    BY DEF NoKids
  <2>1. [s \in Splits |-> IF s \in gone THEN NoKids ELSE f.kids[s]]
           \in [Splits -> (Nodes \cup {None}) \X (Nodes \cup {None})]
    BY <1>2, <2>0, TreeFields
  <2>2. /\ [n \in Nodes |-> IF n \in loose THEN None ELSE f.up[n]] \in [Nodes -> Splits \cup {None}]
        /\ [t \in Tabs |-> IF t \in ts THEN None ELSE f.root[t]] \in [Tabs -> Nodes \cup {None}]
        /\ [t \in Tabs |-> IF t \in ts THEN None ELSE f.act[t]] \in [Tabs -> Panes \cup {None}]
        /\ [t \in Tabs |-> IF t \in ts THEN None ELSE f.prev[t]] \in [Tabs -> Panes \cup {None}]
    BY <1>2, TreeFields
  <2>3. [t \in Tabs |-> IF t \in ts THEN <<>> ELSE f.cache[t]] \in [Tabs -> Seq(Panes)]
    BY <1>2, <2>0, TreeFields
  <2> QED BY <1>6, <2>1, <2>2, <2>3 DEF Trees
<1>11. NodesOK(open \ ts, w)
  <2> SUFFICES ASSUME NEW n \in Nodes, w.own[n] # None
               PROVE  /\ w.own[n] \in open \ ts
                      /\ 1 <= w.lo[n] /\ w.lo[n] <= w.hi[n] /\ w.hi[n] <= Len(w.order[w.own[n]])
    BY DEF NodesOK
  <2>1. w.own[n] = m.own[n] /\ m.own[n] \notin ts /\ m.own[n] # None
    BY <1>4
  <2> QED BY <1>2, <1>4, <2>1, NumberTypes
<1>12. PlacesOK(open \ ts, w)
  <2>0. \A x \in Panes : x \in Nodes
    BY DEF Nodes
  <2>1. ASSUME NEW x \in Panes, w.own[x] # None
        PROVE  w.lo[x] = w.hi[x] /\ w.order[w.own[x]][w.lo[x]] = x
    <3>1. w.own[x] = m.own[x]
      BY <1>4, <2>0, <2>1
    <3> QED BY <1>2, <1>4, <2>1, <3>1, PlaceIs
  <2>2. ASSUME NEW u \in open \ ts, NEW j \in 1..Len(w.order[u])
        PROVE  w.own[w.order[u][j]] = u /\ w.lo[w.order[u][j]] = j
    <3>1. PICK x : x = m.order[u][j]
      OBVIOUS
    <3>2. x \in Panes /\ m.own[x] = u /\ m.lo[x] = j
      BY <1>2, <1>4, <3>1, OrderIs DEF Numbered, PlacesOK
    <3> QED BY <1>4, <2>0, <3>1, <3>2
  <2> QED BY <2>1, <2>2 DEF PlacesOK
<1>13. \A x \in Splits : x \in Nodes
  BY DEF Nodes
<1>14. CutsOK(open \ ts, w)
  <2>3. CutsOK(open, m)
    BY <1>2 DEF Numbered
  <2>4. ASSUME NEW x \in Splits, NEW y \in Splits, w.own[x] # None, w.own[x] = w.own[y], w.cut[x] = w.cut[y]
        PROVE  x = y
    <3>1. w.own[x] = m.own[x] /\ w.own[y] = m.own[y]
      BY <1>4, <1>13, <2>4
    <3> QED BY <1>4, <2>3, <2>4, <3>1 DEF CutsOK
  <2>5. ASSUME NEW u \in open \ ts, NEW j \in 1..(Len(w.order[u]) - 1)
        PROVE  \E x \in Splits : w.own[x] = u /\ w.cut[x] = j
    <3>3. PICK x \in Splits : m.own[x] = u /\ m.cut[x] = j
      BY <1>4, <2>3, <2>5 DEF CutsOK
    <3> QED BY <1>4, <1>13, <3>3
  <2> QED BY <2>4, <2>5 DEF CutsOK
<1>16. SplitsOK(g, w)
  <2> SUFFICES ASSUME NEW x \in Splits
               PROVE  IF w.own[x] = None THEN g.kids[x] = NoKids ELSE Shares(g, w, x)
    BY DEF SplitsOK
  <2>1. CASE m.own[x] = None \/ m.own[x] \in ts
    <3>1. w.own[x] = None
      BY <1>4, <1>13, <2>1
    <3>2. m.own[x] = None => f.kids[x] = NoKids
      BY <1>2, UsedHaveKids
    <3> QED BY <1>9, <2>1, <3>1, <3>2
  <2>2. CASE m.own[x] # None /\ m.own[x] \notin ts
    <3>1. Shares(f, m, x)
      BY <1>2, <2>2, SMTT(30) DEF Numbered, SplitsOK
    <3>2. Shares(g, w, x)
      BY <1>4, <1>9, <1>13, <2>2, <3>1, SMTT(30) DEF Shares
    <3> QED BY <1>4, <1>13, <2>2, <3>2
  <2> QED BY <2>1, <2>2
<1>17. ASSUME NEW n \in Nodes
       PROVE  Hangs(g, w, n)
  <2>0. Hangs(f, m, n)
    BY <1>2 DEF Numbered
  <2>1. CASE m.own[n] = None \/ m.own[n] \in ts
    <3>1. w.own[n] = None
      BY <1>4, <2>1
    <3>2. m.own[n] = None => f.up[n] = None
      BY <2>0 DEF Hangs
    <3> QED BY <1>9, <2>1, <3>1, <3>2 DEF Hangs
  <2>3. CASE m.own[n] # None /\ m.own[n] \notin ts
    <3>1. m.own[n] \in Tabs /\ w.own[n] = m.own[n] /\ g.up[n] = f.up[n]
      BY <1>2, <1>4, <1>9, <2>3, NumberTypes
    <3>2. g.root[m.own[n]] = f.root[m.own[n]]
      BY <1>9, <2>3, <3>1
    <3>3. CASE n = f.root[m.own[n]]
      <4>1. f.up[n] = None
        BY <2>0, <3>3 DEF Hangs
      <4> QED BY <3>1, <3>2, <3>3, <4>1 DEF Hangs
    <3>4. CASE n # f.root[m.own[n]]
      <4>1. PICK v : v = f.up[n]
        OBVIOUS
      <4>2. v \in Splits /\ m.own[v] = m.own[n] /\ (n = f.kids[v][1] \/ n = f.kids[v][2])
        BY <2>0, <2>3, <3>4, <4>1 DEF Hangs
      <4>3. g.kids[v] = f.kids[v] /\ w.own[v] = m.own[n]
        BY <1>4, <1>9, <1>13, <2>3, <4>2
      <4>4. g.up[n] = v /\ w.own[n] # None /\ n # g.root[w.own[n]] /\ w.own[v] = w.own[n]
        BY <2>3, <3>1, <3>2, <3>4, <4>1, <4>3
      <4>5. n = g.kids[v][1] \/ n = g.kids[v][2]
        BY <4>2, <4>3
      <4> QED BY <4>2, <4>4, <4>5 DEF Hangs
    <3> QED BY <3>3, <3>4
  <2> QED BY <2>1, <2>3
<1>18. ASSUME NEW u \in open \ ts
       PROVE  RootOK(g, w, u)
  <2>1. RootOK(f, m, u) /\ u \in Tabs
    BY <1>2 DEF Numbered
  <2>2. g.root[u] = f.root[u]
    BY <1>9, <2>1
  <2> QED BY <1>4, <2>1, <2>2 DEF RootOK
<1>19. WindowsOK(g, open \ ts, w)
  <2>1. \A u \in open \ ts : g.act[u] \in Panes /\ w.own[g.act[u]] = u
    <3> SUFFICES ASSUME NEW u \in open \ ts PROVE g.act[u] \in Panes /\ w.own[g.act[u]] = u
      OBVIOUS
    <3>1. f.act[u] \in Panes /\ m.own[f.act[u]] = u /\ u \in Tabs /\ f.act[u] \in Nodes
      BY <1>2 DEF WindowsOK, Nodes
    <3> QED BY <1>4, <1>9, <3>1
  <2>2. \A u \in open \ ts : g.cache[u] \in {<<>>, w.order[u]}
    BY <1>2, <1>4, <1>9 DEF WindowsOK
  <2>3. \A u \in Tabs \ (open \ ts) : g.cache[u] = <<>>
    BY <1>2, <1>9 DEF WindowsOK
  <2> QED BY <2>1, <2>2, <2>3 DEF WindowsOK
<1>20. Sound(g, open \ ts, w)
  <2>1. open \ ts \subseteq Tabs
    BY <1>2
  <2> QED BY <1>4, <1>10, <1>11, <1>12, <1>14, <1>16, <1>17, <1>18, <1>19, <2>1 DEF Sound, Numbered
<1> QED BY <1>1, <1>4, <1>20 DEF Yields

\* load_tab_layout: a new window over one pane, or over two side by side.
LEMMA BuiltKeeps ==
  ASSUME NEW f, NEW open, NEW m, Sound(f, open, m), NEW t \in Tabs \ open, NEW ps,
         \/ /\ Len(ps) = 1 /\ ps[1] \in Panes /\ m.own[ps[1]] = None
         \/ /\ ps = <<ps[1], ps[2]>> /\ Len(ps) = 2 /\ ps[1] \in Panes /\ ps[2] \in Panes /\ ps[1] # ps[2]
            /\ m.own[ps[1]] = None /\ m.own[ps[2]] = None
  PROVE  Yields(Built(f, t, ps), open \cup {t},
                [n \in Nodes |-> IF n = ps[1] \/ (Len(ps) = 2 /\ n = ps[2]) THEN t ELSE m.own[n]])
<1>0. m.own \in [Nodes -> Tabs \cup {None}] /\ Panes \subseteq Nodes /\ f \in Trees /\ t # None
  BY NodesAre DEF Sound, Numbered, Marks, Nodes
<1>1. CASE Len(ps) = 1
  <2>1. Yields(Single(f, t, ps[1]), open \cup {t}, [m.own EXCEPT ![ps[1]] = t])
    BY <1>1, SingleKeeps
  <2>2. Built(f, t, ps) = Single(f, t, ps[1])
    BY <1>1 DEF Built
  <2>3. PICK w : /\ Sound(Single(f, t, ps[1]), open \cup {t}, w)
                 /\ \A x \in Panes : w.own[x] = [m.own EXCEPT ![ps[1]] = t][x]
    BY <2>1 DEF Yields
  <2>4. \A x \in Panes : w.own[x] = [n \in Nodes |-> IF n = ps[1] \/ (Len(ps) = 2 /\ n = ps[2]) THEN t ELSE m.own[n]][x]
    BY <1>0, <1>1, <2>3
  <2> QED BY <2>2, <2>3, <2>4 DEF Yields
<1>2. CASE Len(ps) # 1
  <2>1. PICK p, q : p = ps[1] /\ q = ps[2]
    OBVIOUS
  <2>2. /\ ps = <<p, q>> /\ p \in Panes /\ q \in Panes /\ p # q /\ m.own[p] = None /\ m.own[q] = None
        /\ Len(ps) = 2
    BY <1>2, <2>1
  <2>3. PICK h : h = Single(f, t, p)
    OBVIOUS
  <2>4. PICK v : Sound(h, open \cup {t}, v) /\ \A x \in Panes : v.own[x] = [m.own EXCEPT ![p] = t][x]
    BY <2>2, <2>3, SingleKeeps, SMTT(30) DEF Yields
  <2>5. v.own[p] = t /\ v.own[q] = None
    BY <1>0, <2>2, <2>4
  <2>6. PICK e : e = Beside(h, t, p, q)
    OBVIOUS
  <2>7. PICK w : Sound(e, open \cup {t}, w) /\ \A x \in Panes : w.own[x] = [v.own EXCEPT ![q] = t][x]
    <3>1. t \in open \cup {t}
      OBVIOUS
    <3> QED BY <2>2, <2>4, <2>5, <2>6, <3>1, BesideKeeps DEF Yields
  <2>8. \A x \in Panes : w.own[x] = IF x = p \/ x = q THEN t ELSE m.own[x]
    <3>1. v.own \in [Nodes -> Tabs \cup {None}]
      BY <2>4 DEF Sound, Numbered, Marks
    <3> QED BY <1>0, <2>4, <2>7, <3>1
  <2>9. PICK s, g : s = FreeSplit(f) /\ g = Built(f, t, ps)
    OBVIOUS
  <2>10. s \in Splits /\ m.own[s] = None /\ s \in Nodes
    BY <2>2, <2>9, FreeSplitIs DEF Sound, Nodes
  <2>11. Range(ps) = {p, q}
    <3>1. DOMAIN ps = {1, 2}
      BY <2>2
    <3> QED BY <2>1, <3>1 DEF Range
  <2>12. g = [f EXCEPT !.root[t] = s, !.act[t] = p, !.kids[s] = ps,
                       !.up = [n \in Nodes |-> IF n \in {p, q} THEN s ELSE f.up[n]]]
    BY <1>2, <2>1, <2>9, <2>11 DEF Built
  <2>13. g = [kids |-> [f.kids EXCEPT ![s] = ps],
              up |-> [n \in Nodes |-> IF n \in {p, q} THEN s ELSE f.up[n]],
              root |-> [f.root EXCEPT ![t] = s], act |-> [f.act EXCEPT ![t] = p],
              prev |-> f.prev, cache |-> f.cache]
    BY <1>0, <2>12, Zenon DEF Trees
  <2>14. g \in Trees
    <3>1. [f.kids EXCEPT ![s] = ps] \in [Splits -> (Nodes \cup {None}) \X (Nodes \cup {None})]
      <4>1. <<p, q>> \in (Nodes \cup {None}) \X (Nodes \cup {None})
        BY <1>0, <2>2
      <4>2. ps \in (Nodes \cup {None}) \X (Nodes \cup {None})
        BY <2>2, <4>1
      <4> QED BY <1>0, <2>10, <4>2, TreeFields
    <3>2. [n \in Nodes |-> IF n \in {p, q} THEN s ELSE f.up[n]] \in [Nodes -> Splits \cup {None}]
      BY <1>0, <2>10, TreeFields
    <3>3. /\ [f.root EXCEPT ![t] = s] \in [Tabs -> Nodes \cup {None}]
          /\ [f.act EXCEPT ![t] = p] \in [Tabs -> Panes \cup {None}]
      BY <1>0, <2>2, <2>10, TreeFields
    <3> QED BY <1>0, <2>13, <3>1, <3>2, <3>3, TreeFields DEF Trees
  <2>15. /\ h.kids = f.kids /\ h.up = f.up /\ h.root = [f.root EXCEPT ![t] = p] /\ h.cache = f.cache
         /\ h.act = [f.act EXCEPT ![t] = p]
    <3>1. f.up[p] = None
      BY <1>0, <2>2 DEF Sound, Numbered, Hangs
    <3>2. h = [f EXCEPT !.root[t] = p, !.act[t] = p, !.up[p] = None]
      BY <2>3 DEF Single
    <3>3. h = [kids |-> f.kids, up |-> [f.up EXCEPT ![p] = None], root |-> [f.root EXCEPT ![t] = p],
               act |-> [f.act EXCEPT ![t] = p], prev |-> f.prev, cache |-> f.cache]
      BY <1>0, <3>2, Zenon DEF Trees
    <3>4. [f.up EXCEPT ![p] = None] = f.up
      BY <1>0, <2>2, <3>1, TreeFields
    <3> QED BY <3>3, <3>4
  <2>16. FreeSplit(h) = s
    BY <2>9, <2>15 DEF FreeSplit
  <2>17. /\ BesideLinks(h, e, t, p, q, s) /\ e \in Trees
         /\ e.cache = [h.cache EXCEPT ![t] = <<>>]
    <3>1. PICK op : op = open \cup {t}
      BY Zenon
    <3>2. t \in op /\ Numbered(h, op, v)
      BY <2>4, <3>1 DEF Sound
    <3>3. p \in Panes /\ q \in Panes /\ v.own[p] = t /\ v.own[q] = None
      BY <2>2, <2>5
    <3>4. PICK x : x = FreeSplit(h)
      OBVIOUS
    <3>5. /\ BesideLinks(h, e, t, p, q, x) /\ e \in Trees
          /\ e.act = [h.act EXCEPT ![t] = q] /\ e.cache = [h.cache EXCEPT ![t] = <<>>]
      BY <2>6, <3>2, <3>3, <3>4, BesideIs
    <3> QED BY <2>16, <3>4, <3>5
  <2>18. f.up[p] = None /\ f.up[s] = None /\ p \in Nodes /\ q \in Nodes /\ p # s /\ q # s
    <3>1. p \in Nodes /\ q \in Nodes /\ p # s /\ q # s
      BY <1>0, <2>2, <2>10, NodesAre
    <3> QED BY <2>2, <2>10, <3>1 DEF Sound, Numbered, Hangs
  <2>19. g.up = e.up
    <3>1. e.up = [f.up EXCEPT ![s] = None, ![p] = s, ![q] = s]
      BY <2>15, <2>17, <2>18 DEF BesideLinks
    <3>2. f.up \in [Nodes -> Splits \cup {None}]
      BY <1>0, TreeFields
    <3>3. \A n \in Nodes : e.up[n] = IF n \in {p, q} THEN s ELSE f.up[n]
      BY <2>10, <2>18, <3>1, <3>2
    <3>4. e.up = [n \in Nodes |-> e.up[n]]
      BY <2>17, TreeFields
    <3>5. g.up = [n \in Nodes |-> IF n \in {p, q} THEN s ELSE f.up[n]]
      BY <2>13
    <3> QED BY <3>3, <3>4, <3>5
  <2>20. g.kids = e.kids
    <3>1. e.kids[s] = ps /\ \A x \in Splits : x # s => e.kids[x] = f.kids[x]
      <4>1. None \notin Splits
        BY NodesAre DEF Nodes
      <4> QED BY <2>2, <2>15, <2>17, <2>18, <4>1 DEF BesideLinks
    <3>2. g.kids = [f.kids EXCEPT ![s] = ps]
      BY <2>13
    <3>3. e.kids \in [Splits -> (Nodes \cup {None}) \X (Nodes \cup {None})]
          /\ f.kids \in [Splits -> (Nodes \cup {None}) \X (Nodes \cup {None})]
      BY <1>0, <2>17, TreeFields
    <3> QED BY <2>10, <3>1, <3>2, <3>3
  <2>21. \A u \in open \cup {t} : g.root[u] = e.root[u]
    <3>1. e.root = [h.root EXCEPT ![t] = s]
      BY <2>15, <2>17, <2>18 DEF BesideLinks
    <3>2. open \subseteq Tabs /\ f.root \in [Tabs -> Nodes \cup {None}]
      BY <1>0, TreeFields DEF Sound, Numbered
    <3>3. g.root = [f.root EXCEPT ![t] = s]
      BY <2>13
    <3> QED BY <2>15, <3>1, <3>2, <3>3
  <2>22. Numbered(g, open \cup {t}, w)
    BY <2>7, <2>14, <2>19, <2>20, <2>21, LinksStay DEF Sound
  <2>23. WindowsOK(g, open \cup {t}, w)
    <3>0. /\ open \subseteq Tabs /\ f.act \in [Tabs -> Panes \cup {None}]
          /\ g.act = [f.act EXCEPT ![t] = p] /\ g.cache = f.cache
          /\ e.cache = [f.cache EXCEPT ![t] = <<>>] /\ f.cache \in [Tabs -> Seq(Panes)]
      <4>1. e.cache = [h.cache EXCEPT ![t] = <<>>]
        BY <2>17
      <4> QED BY <1>0, <2>13, <2>15, <4>1, TreeFields DEF Sound, Numbered
    <3>1. \A u \in open \cup {t} : g.act[u] \in Panes /\ w.own[g.act[u]] = u
      <4> SUFFICES ASSUME NEW u \in open \cup {t} PROVE g.act[u] \in Panes /\ w.own[g.act[u]] = u
        OBVIOUS
      <4>1. CASE u = t
        BY <2>2, <2>8, <3>0, <4>1
      <4>2. CASE u # t
        <5>1. f.act[u] \in Panes /\ m.own[f.act[u]] = u /\ u # None
          BY <4>2, NodesAre DEF Sound, WindowsOK, Numbered
        <5> QED BY <2>2, <2>8, <3>0, <4>2, <5>1, Zenon
      <4> QED BY <4>1, <4>2
    <3>2. f.cache[t] = <<>>
      BY DEF Sound, WindowsOK
    <3>3. g.cache = e.cache
      BY <3>0, <3>2
    <3> QED BY <2>7, <3>1, <3>3 DEF Sound, WindowsOK
  <2>24. Sound(g, open \cup {t}, w)
    BY <2>22, <2>23 DEF Sound
  <2>25. \A x \in Panes : w.own[x] = [n \in Nodes |-> IF n = ps[1] \/ (Len(ps) = 2 /\ n = ps[2]) THEN t ELSE m.own[n]][x]
    BY <1>0, <2>1, <2>2, <2>8
  <2> QED BY <2>9, <2>24, <2>25 DEF Yields
<1> QED BY <1>1, <1>2

\* Panes of a window in each other's slots: whatever stood for the slot of q
\* stands for the slot of new[q].
Swapped(m, t, to, fr) ==
  [own |-> m.own, lo |-> [n \in Nodes |-> m.lo[fr[n]]], hi |-> [n \in Nodes |-> m.hi[fr[n]]],
   cut |-> m.cut,
   order |-> [u \in Tabs |-> IF u = t THEN [k \in 1..Len(m.order[t]) |-> to[m.order[t][k]]]
                             ELSE m.order[u]]]

LEMMA SwappedNumbered ==
  ASSUME NEW f, NEW open, NEW m, Numbered(f, open, m), NEW t \in open, NEW g \in Trees,
         NEW to \in [Nodes -> Nodes], NEW fr \in [Nodes -> Nodes],
         \A n \in Nodes : to[fr[n]] = n /\ fr[to[n]] = n,
         \A n \in Nodes : m.own[n] # t \/ n \in Splits \/ n = f.root[t] => to[n] = n /\ fr[n] = n,
         \A n \in Nodes : m.own[to[n]] = m.own[n] /\ m.own[fr[n]] = m.own[n],
         \A p \in Panes : to[p] \in Panes /\ fr[p] \in Panes,
         \A s \in Splits : m.own[s] # None =>
           g.kids[s][1] = to[f.kids[s][1]] /\ g.kids[s][2] = to[f.kids[s][2]],
         \A s \in Splits : m.own[s] = None => g.kids[s] = NoKids,
         \A n \in Nodes : g.up[n] = f.up[fr[n]], g.root = f.root
  PROVE  Numbered(g, open, Swapped(m, t, to, fr))
<1>1. PICK w : w = Swapped(m, t, to, fr)
  OBVIOUS
<1>2. /\ w.own = m.own /\ w.cut = m.cut
      /\ \A n \in Nodes : w.lo[n] = m.lo[fr[n]] /\ w.hi[n] = m.hi[fr[n]]
      /\ \A u \in Tabs : u # t => w.order[u] = m.order[u]
      /\ t \in Tabs => w.order[t] = [k \in 1..Len(m.order[t]) |-> to[m.order[t][k]]]
  BY <1>1 DEF Swapped
<1>3. /\ m \in Marks /\ t \in Tabs /\ t # None /\ open \subseteq Tabs /\ m.order[t] \in Seq(Panes)
      /\ Panes \subseteq Nodes /\ Splits \subseteq Nodes /\ Panes \cap Splits = {} /\ None \notin Nodes
  <2>1. /\ m \in Marks /\ open \subseteq Tabs
        /\ Panes \subseteq Nodes /\ Splits \subseteq Nodes /\ Panes \cap Splits = {} /\ None \notin Nodes
    BY NodesAre DEF Numbered, Nodes
  <2>2. t \in Tabs /\ t # None /\ m.order[t] \in Seq(Panes)
    BY OrderIs
  <2> QED BY <2>1, <2>2
<1>4. w.order[t] \in Seq(Panes) /\ Len(w.order[t]) = Len(m.order[t])
      /\ \A k \in 1..Len(m.order[t]) : w.order[t][k] = to[m.order[t][k]] /\ m.order[t][k] \in Panes
  <2>1. PICK o, v : o = m.order[t] /\ v = w.order[t]
    OBVIOUS
  <2>2. o \in Seq(Panes) /\ \A k \in 1..Len(o) : o[k] \in Panes
    BY <1>3, <2>1
  <2>3. v = [k \in 1..Len(o) |-> to[o[k]]]
    BY <1>2, <1>3, <2>1
  <2>4. v \in Seq(Panes) /\ Len(v) = Len(o) /\ \A k \in 1..Len(o) : v[k] = to[o[k]]
    BY <2>2, <2>3
  <2> QED BY <2>1, <2>2, <2>4
<1>5. \A u \in Tabs : Len(w.order[u]) = Len(m.order[u])
  BY <1>2, <1>4
<1>6. w \in Marks
  <2>1. [n \in Nodes |-> m.lo[fr[n]]] \in [Nodes -> Nat] /\ [n \in Nodes |-> m.hi[fr[n]]] \in [Nodes -> Nat]
    <3>1. m.lo \in [Nodes -> Nat] /\ m.hi \in [Nodes -> Nat]
      BY <1>3 DEF Marks
    <3> QED BY <3>1
  <2>2. [u \in Tabs |-> IF u = t THEN [k \in 1..Len(m.order[t]) |-> to[m.order[t][k]]]
                        ELSE m.order[u]] \in [Tabs -> Seq(Panes)]
    <3>1. m.order \in [Tabs -> Seq(Panes)]
      BY <1>3 DEF Marks
    <3>2. [k \in 1..Len(m.order[t]) |-> to[m.order[t][k]]] \in Seq(Panes)
      BY <1>2, <1>3, <1>4
    <3> QED BY <3>1, <3>2
  <2> QED BY <1>1, <1>3, <2>1, <2>2 DEF Swapped, Marks
<1>7. NodesOK(open, w)
  <2> SUFFICES ASSUME NEW n \in Nodes, m.own[n] # None
               PROVE  /\ m.own[n] \in open
                      /\ 1 <= w.lo[n] /\ w.lo[n] <= w.hi[n] /\ w.hi[n] <= Len(w.order[m.own[n]])
    BY <1>2 DEF NodesOK
  <2>1. PICK x : x = fr[n]
    OBVIOUS
  <2>2. x \in Nodes /\ m.own[x] = m.own[n]
    BY <2>1
  <2>3. m.own[x] \in open /\ 1 <= m.lo[x] /\ m.lo[x] <= m.hi[x] /\ m.hi[x] <= Len(m.order[m.own[x]])
    BY <2>2 DEF Numbered, NodesOK
  <2>4. w.lo[n] = m.lo[x] /\ w.hi[n] = m.hi[x]
    BY <1>2, <2>1
  <2> QED BY <1>3, <1>5, <2>2, <2>3, <2>4
<1>8. PlacesOK(open, w)
  <2>1. ASSUME NEW p \in Panes, m.own[p] # None
        PROVE  w.lo[p] = w.hi[p] /\ w.order[m.own[p]][w.lo[p]] = p
    <3>1. PICK x : x = fr[p]
      OBVIOUS
    <3>2. x \in Panes /\ m.own[x] = m.own[p] /\ p \in Nodes
      BY <1>3, <2>1, <3>1
    <3>3. /\ m.lo[x] \in Nat /\ m.hi[x] = m.lo[x] /\ 1 <= m.lo[x] /\ m.lo[x] <= Len(m.order[m.own[x]])
          /\ m.order[m.own[x]][m.lo[x]] = x
      BY <2>1, <3>2, PlaceIs
    <3>4. w.lo[p] = m.lo[x] /\ w.hi[p] = m.hi[x]
      BY <1>2, <3>1, <3>2
    <3>5. CASE m.own[p] = t
      <4>1. m.lo[x] \in 1..Len(m.order[t])
        <5>1. Len(m.order[t]) \in Nat
          BY <1>3
        <5> QED BY <3>2, <3>3, <3>5, <5>1
      <4>2. w.order[t][m.lo[x]] = to[x]
        BY <1>4, <3>2, <3>3, <3>5, <4>1, SMTT(30)
      <4> QED BY <3>1, <3>2, <3>3, <3>4, <3>5, <4>2
    <3>6. CASE m.own[p] # t
      <4>1. x = p /\ m.own[p] \in Tabs
        BY <1>3, <2>1, <3>1, <3>2, <3>6, NumberTypes
      <4> QED BY <1>2, <3>3, <3>4, <3>6, <4>1
    <3> QED BY <3>5, <3>6
  <2>2. ASSUME NEW u \in open, NEW k \in 1..Len(w.order[u])
        PROVE  m.own[w.order[u][k]] = u /\ w.lo[w.order[u][k]] = k
    <3>1. PICK x : x = m.order[u][k]
      OBVIOUS
    <3>2. k \in 1..Len(m.order[u]) /\ m.own[x] = u /\ m.lo[x] = k
      <4>1. k \in 1..Len(m.order[u])
        BY <1>3, <1>5
      <4> QED BY <3>1, <4>1 DEF Numbered, PlacesOK
    <3>3. x \in Panes /\ x \in Nodes
      <4>1. m.order[u] \in Seq(Panes)
        BY OrderIs
      <4>2. x \in Panes
        BY <3>1, <3>2, <4>1
      <4> QED BY <1>3, <4>2
    <3>4. w.order[u][k] = to[x]
      BY <1>2, <1>3, <1>4, <3>1, <3>2, <3>3
    <3>5. w.lo[to[x]] = m.lo[x]
      BY <1>2, <3>3
    <3> QED BY <3>2, <3>3, <3>4, <3>5
  <2> QED BY <1>2, <2>1, <2>2 DEF PlacesOK
<1>9. CutsOK(open, w)
  BY <1>2, <1>3, <1>5 DEF Numbered, CutsOK
<1>10. SplitsOK(g, w)
  <2> SUFFICES ASSUME NEW s \in Splits PROVE IF m.own[s] = None THEN g.kids[s] = NoKids ELSE Shares(g, w, s)
    BY <1>2 DEF SplitsOK
  <2>1. ASSUME m.own[s] # None PROVE Shares(g, w, s)
    <3>1. PICK a, b : a = f.kids[s][1] /\ b = f.kids[s][2]
      BY Zenon
    <3>2. /\ a \in Nodes /\ b \in Nodes
          /\ m.own[a] = m.own[s] /\ m.own[b] = m.own[s]
          /\ f.up[a] = s /\ f.up[b] = s
          /\ m.lo[b] = m.lo[s] /\ m.hi[b] = m.cut[s]
          /\ m.lo[a] = m.cut[s] + 1 /\ m.hi[a] = m.hi[s]
      BY <2>1, <3>1 DEF Numbered, SplitsOK, Shares
    <3>3. PICK x, y : x = to[a] /\ y = to[b]
      OBVIOUS
    <3>4. x = g.kids[s][1] /\ y = g.kids[s][2]
      BY <2>1, <3>1, <3>3
    <3>5. /\ x \in Nodes /\ y \in Nodes /\ m.own[x] = m.own[a] /\ m.own[y] = m.own[b]
          /\ fr[x] = a /\ fr[y] = b /\ s \in Nodes /\ fr[s] = s
      BY <1>3, <3>2, <3>3
    <3>6. /\ w.lo[x] = m.lo[a] /\ w.hi[x] = m.hi[a] /\ g.up[x] = f.up[a]
          /\ w.lo[y] = m.lo[b] /\ w.hi[y] = m.hi[b] /\ g.up[y] = f.up[b]
          /\ w.lo[s] = m.lo[s] /\ w.hi[s] = m.hi[s]
      BY <1>2, <3>5
    <3> QED BY <1>2, <3>2, <3>4, <3>5, <3>6, SMTT(30) DEF Shares
  <2> QED BY <2>1
<1>11. ASSUME NEW n \in Nodes PROVE Hangs(g, w, n)
  <2>1. PICK x : x = fr[n]
    OBVIOUS
  <2>2. x \in Nodes /\ m.own[x] = m.own[n] /\ to[x] = n /\ g.up[n] = f.up[x]
    BY <2>1
  <2>3. Hangs(f, m, x)
    BY <2>2 DEF Numbered
  <2>4. CASE m.own[n] = None \/ n = f.root[m.own[n]]
    <3>1. x = n
      BY <1>3, <2>1, <2>4
    <3> QED BY <1>2, <2>2, <2>3, <2>4, <3>1 DEF Hangs
  <2>5. CASE ~(m.own[n] = None \/ n = f.root[m.own[n]])
    <3>1. x # f.root[m.own[x]]
      <4>1. ASSUME x = f.root[m.own[x]] PROVE FALSE
        <5>1. to[x] = x
          BY <2>2, <4>1
        <5> QED BY <2>2, <2>5, <4>1, <5>1
      <4> QED BY <4>1
    <3>2. PICK r : r = f.up[x]
      OBVIOUS
    <3>3. /\ r \in Splits /\ m.own[r] = m.own[x] /\ m.own[r] # None
          /\ x = f.kids[r][1] \/ x = f.kids[r][2]
      BY <2>2, <2>3, <2>5, <3>1, <3>2 DEF Hangs
    <3>4. n = g.kids[r][1] \/ n = g.kids[r][2]
      BY <2>2, <3>3
    <3> QED BY <1>2, <2>2, <2>5, <3>2, <3>3, <3>4 DEF Hangs
  <2> QED BY <2>4, <2>5
<1>12. ASSUME NEW u \in open PROVE RootOK(g, w, u)
  <2>1. PICK r : r = f.root[u]
    OBVIOUS
  <2>2. r \in Nodes /\ m.own[r] = u /\ m.lo[r] = 1 /\ m.hi[r] = Len(m.order[u])
    BY <2>1 DEF Numbered, RootOK
  <2>3. fr[r] = r
    BY <2>1, <2>2
  <2> QED BY <1>2, <1>3, <1>5, <2>1, <2>2, <2>3 DEF RootOK
<1> QED BY <1>1, <1>3, <1>6, <1>7, <1>8, <1>9, <1>10, <1>11, <1>12 DEF Numbered

\* rotate_panes, swap_pane: panes of a window change places, and keep it.
LEMMA PermutedKeeps ==
  ASSUME NEW f, NEW open, NEW m, Sound(f, open, m), NEW t \in open,
         NEW D \in SUBSET Panes, \A p \in D : m.own[p] = t, f.root[t] \notin D,
         NEW new \in [D -> D], \A x, y \in D : new[x] = new[y] => x = y,
         \A x \in D : \E y \in D : new[y] = x
  PROVE  Yields(Permuted(f, t, new), open, m.own)
<1>1. /\ f \in Trees /\ m \in Marks /\ t \in Tabs /\ t # None /\ DOMAIN new = D
      /\ Panes \subseteq Nodes /\ Splits \subseteq Nodes /\ Panes \cap Splits = {} /\ None \notin Nodes
      /\ Numbered(f, open, m) /\ NoKids = <<None, None>>
  BY NodesAre DEF Sound, Numbered, Nodes, NoKids
<1>2. PICK inv : inv = [n \in D |-> CHOOSE q \in D : new[q] = n]
  BY Zenon
<1>3. inv \in [D -> D] /\ \A n \in D : new[inv[n]] = n /\ inv[new[n]] = n
  <2>1. \A n \in D : inv[n] \in D /\ new[inv[n]] = n
    BY <1>2
  <2>2. \A n \in D : new[n] \in D /\ inv[new[n]] \in D /\ new[inv[new[n]]] = new[n]
    BY <2>1
  <2>3. \A n \in D : inv[new[n]] = n
    BY <2>2
  <2>4. inv \in [D -> D]
    BY <1>2, <2>1
  <2> QED BY <2>1, <2>3, <2>4
<1>4. PICK to, fr : /\ to = [n \in Nodes |-> IF n \in D THEN new[n] ELSE n]
                    /\ fr = [n \in Nodes |-> IF n \in D THEN inv[n] ELSE n]
  BY Zenon
<1>5. /\ to \in [Nodes -> Nodes] /\ fr \in [Nodes -> Nodes]
      /\ \A n \in Nodes : to[n] = (IF n \in D THEN new[n] ELSE n) /\ fr[n] = IF n \in D THEN inv[n] ELSE n
  BY <1>1, <1>3, <1>4
<1>6. \A n \in Nodes : to[fr[n]] = n /\ fr[to[n]] = n
  BY <1>3, <1>5
<1>7. \A n \in Nodes : m.own[n] # t \/ n \in Splits \/ n = f.root[t] => to[n] = n /\ fr[n] = n
  BY <1>1, <1>5
<1>8. \A n \in Nodes : m.own[to[n]] = m.own[n] /\ m.own[fr[n]] = m.own[n]
  BY <1>3, <1>5
<1>9. \A p \in Panes : to[p] \in Panes /\ fr[p] \in Panes
  BY <1>1, <1>3, <1>5
<1>10. PICK g : g = Permuted(f, t, new)
  OBVIOUS
<1>11. PICK kids, up :
         /\ kids = [s \in Splits |-> <<IF f.kids[s][1] \in D THEN new[f.kids[s][1]] ELSE f.kids[s][1],
                                       IF f.kids[s][2] \in D THEN new[f.kids[s][2]] ELSE f.kids[s][2]>>]
         /\ up = [n \in Nodes |-> IF n \in D THEN f.up[CHOOSE q \in D : new[q] = n] ELSE f.up[n]]
  BY Zenon
<1>12. g = [kids |-> kids, up |-> up, root |-> f.root, act |-> f.act, prev |-> f.prev,
            cache |-> [f.cache EXCEPT ![t] = <<>>]]
  <2>1. g = [[f EXCEPT !.kids = kids, !.up = up] EXCEPT !.cache[t] = <<>>]
    BY <1>1, <1>10, <1>11 DEF Permuted, Uncached
  <2> QED BY <1>1, <2>1, Zenon DEF Trees
<1>13. g.kids = kids /\ g.up = up /\ g.root = f.root /\ g.act = f.act /\ g.prev = f.prev
       /\ g.cache = [f.cache EXCEPT ![t] = <<>>]
  BY <1>12
<1>14. \A s \in Splits : m.own[s] # None =>
         g.kids[s][1] = to[f.kids[s][1]] /\ g.kids[s][2] = to[f.kids[s][2]]
  <2> SUFFICES ASSUME NEW s \in Splits, m.own[s] # None
               PROVE  g.kids[s][1] = to[f.kids[s][1]] /\ g.kids[s][2] = to[f.kids[s][2]]
    OBVIOUS
  <2>1. f.kids[s][1] \in Nodes /\ f.kids[s][2] \in Nodes
    BY <1>1 DEF Numbered, SplitsOK, Shares
  <2> QED BY <1>5, <1>11, <1>13, <2>1
<1>15. \A s \in Splits : m.own[s] = None => g.kids[s] = NoKids
  <2> SUFFICES ASSUME NEW s \in Splits, m.own[s] = None PROVE g.kids[s] = NoKids
    OBVIOUS
  <2>1. f.kids[s] = <<None, None>>
    BY <1>1 DEF Numbered, SplitsOK
  <2>2. None \notin D
    BY <1>1
  <2> QED BY <1>1, <1>11, <1>13, <2>1, <2>2
<1>16. \A n \in Nodes : g.up[n] = f.up[fr[n]]
  BY <1>2, <1>5, <1>11, <1>13
<1>17. g \in Trees
  <2>1. kids \in [Splits -> (Nodes \cup {None}) \X (Nodes \cup {None})]
    <3>1. f.kids \in [Splits -> (Nodes \cup {None}) \X (Nodes \cup {None})]
      BY <1>1, TreeFields
    <3>2. \A n \in D : new[n] \in Nodes \cup {None}
      BY <1>1
    <3>3. \A s \in Splits : kids[s] \in (Nodes \cup {None}) \X (Nodes \cup {None})
      BY <1>11, <3>1, <3>2
    <3> QED BY <1>11, <3>3
  <2>2. up \in [Nodes -> Splits \cup {None}]
    <3>1. f.up \in [Nodes -> Splits \cup {None}]
      BY <1>1, TreeFields
    <3>2. up = [n \in Nodes |-> f.up[fr[n]]]
      BY <1>2, <1>5, <1>11
    <3> QED BY <1>5, <3>1, <3>2
  <2>3. [f.cache EXCEPT ![t] = <<>>] \in [Tabs -> Seq(Panes)]
    BY <1>1, TreeFields
  <2> QED BY <1>1, <1>12, <2>1, <2>2, <2>3, TreeFields DEF Trees
<1>18. PICK w : w = Swapped(m, t, to, fr)
  OBVIOUS
<1>19. Numbered(g, open, w)
  <2>1. Numbered(g, open, Swapped(m, t, to, fr))
    <3>1. /\ Numbered(f, open, m) /\ g \in Trees /\ to \in [Nodes -> Nodes] /\ fr \in [Nodes -> Nodes]
          /\ g.root = f.root
      BY <1>1, <1>5, <1>13, <1>17
    <3> QED BY <1>6, <1>7, <1>8, <1>9, <1>14, <1>15, <1>16, <3>1, SwappedNumbered, SMTT(30)
  <2> QED BY <1>18, <2>1
<1>20. w.own = m.own /\ \A u \in Tabs : u # t => w.order[u] = m.order[u]
  BY <1>18 DEF Swapped
<1>21. WindowsOK(g, open, w)
  <2>1. open \subseteq Tabs /\ f.cache \in [Tabs -> Seq(Panes)]
    BY <1>1, TreeFields DEF Numbered
  <2> QED BY <1>1, <1>13, <1>20, <2>1, ZenonT(30) DEF Sound, WindowsOK
<1> QED BY <1>10, <1>19, <1>20, <1>21 DEF Sound, Yields

LEMMA RootIsSplit ==
  ASSUME NEW f, NEW open, NEW m, Numbered(f, open, m), NEW t \in open, Len(m.order[t]) >= 2
  PROVE  f.root[t] \notin Panes
<1> SUFFICES ASSUME f.root[t] \in Panes PROVE FALSE
  OBVIOUS
<1>1. PICK r : r = f.root[t]
  OBVIOUS
<1>2. r \in Panes /\ m.own[r] = t /\ m.lo[r] = 1 /\ m.hi[r] = Len(m.order[t]) /\ t # None
  BY <1>1, OrderIs DEF Numbered, RootOK
<1>3. m.hi[r] = m.lo[r]
  <2>1. r \in Panes /\ m.own[r] # None
    BY <1>2
  <2>2. /\ r \in Nodes /\ m.own[r] \in open /\ m.own[r] \in Tabs
        /\ m.lo[r] \in Nat /\ m.hi[r] = m.lo[r]
        /\ 1 <= m.lo[r] /\ m.lo[r] <= Len(m.order[m.own[r]])
        /\ m.order[m.own[r]][m.lo[r]] = r
    BY <2>1, PlaceIs
  <2> QED BY <2>2
<1> QED BY <1>2, <1>3

\* swap_pane and swap_pane_ids: two panes of a window.
LEMMA SwapPanesSound ==
  ASSUME NEW f, NEW open, NEW m, Sound(f, open, m), NEW t \in open,
         NEW p \in Panes, NEW q \in Panes, p # q, m.own[p] = t, m.own[q] = t
  PROVE  Yields(Exchanged(f, t, p, q), open, m.own)
<1>1. Numbered(f, open, m) /\ t # None
  <2>1. Numbered(f, open, m)
    BY DEF Sound
  <2>2. t \in Tabs
    BY <2>1 DEF Numbered
  <2> QED BY <2>1, <2>2, NodesAre
<1>2. Len(m.order[t]) >= 2
  <2>1. /\ m.lo[p] \in Nat /\ 1 <= m.lo[p] /\ m.lo[p] <= Len(m.order[t]) /\ m.order[t][m.lo[p]] = p
        /\ m.lo[q] \in Nat /\ 1 <= m.lo[q] /\ m.lo[q] <= Len(m.order[t]) /\ m.order[t][m.lo[q]] = q
    BY <1>1, PlaceIs, SMTT(30)
  <2>2. Len(m.order[t]) \in Nat
    BY <1>1, OrderIs
  <2> QED BY <2>1, <2>2
<1>3. f.root[t] \notin Panes
  BY <1>1, <1>2, RootIsSplit
<1>4. PICK D, new : D = {p, q} /\ new = [n \in {p, q} |-> IF n = p THEN q ELSE p]
  BY Zenon
<1>5. /\ D \in SUBSET Panes /\ new \in [D -> D] /\ (\A x \in D : m.own[x] = t) /\ f.root[t] \notin D
      /\ \A x, y \in D : new[x] = new[y] => x = y
      /\ \A x \in D : \E y \in D : new[y] = x
  BY <1>3, <1>4
<1>6. Yields(Permuted(f, t, new), open, m.own)
  BY <1>5, PermutedKeeps
<1> QED BY <1>4, <1>6 DEF Exchanged

\* rotate_panes: every slot gets the pane of the next one in the list.
Passed(l, n, next) == [p \in Range(l) |-> l[next[CHOOSE i \in 1..n : l[i] = p]]]

LEMMA RotateKeeps ==
  ASSUME NEW f, NEW open, NEW m, Sound(f, open, m), NEW t \in open,
         NEW l, l = m.order[t], NEW n, n = Len(l), n >= 2, NEW next \in [1..n -> 1..n],
         \A i, j \in 1..n : next[i] = next[j] => i = j,
         \A i \in 1..n : \E j \in 1..n : next[j] = i
  PROVE  Yields(Permuted(f, t, Passed(l, n, next)), open, m.own)
<1>1. /\ Numbered(f, open, m) /\ l \in Seq(Panes) /\ n \in Nat /\ t # None
      /\ Range(l) = {p \in Panes : m.own[p] = t}
  BY OrderIs, SMTT(30) DEF Sound
<1>2. f.root[t] \notin Panes
  <2>1. Len(m.order[t]) >= 2
    OBVIOUS
  <2> QED BY <1>1, <2>1, RootIsSplit
<1>3. PICK D, new : D = Range(l) /\ new = [p \in D |-> l[next[CHOOSE i \in 1..n : l[i] = p]]]
  BY Zenon
<1>13. new = Passed(l, n, next)
  BY <1>3 DEF Passed
<1>4. \A i \in 1..n : l[i] \in D /\ m.lo[l[i]] = i
  <2>1. DOMAIN l = 1..n /\ D = {l[i] : i \in DOMAIN l}
    BY <1>1, <1>3 DEF Range
  <2>2. \A i \in 1..n : l[i] \in D
    BY <2>1, Zenon
  <2>3. \A i \in 1..n : m.lo[l[i]] = i
    BY <1>1 DEF Numbered, PlacesOK
  <2> QED BY <2>2, <2>3, Zenon
<1>5. \A p \in D : \E i \in 1..n : p = l[i]
  <2>1. DOMAIN l = 1..n /\ D = {l[i] : i \in DOMAIN l}
    BY <1>1, <1>3 DEF Range
  <2>2. \A p \in D : \E i \in DOMAIN l : p = l[i]
    BY <2>1
  <2> QED BY <2>1, <2>2
<1>6. \A i \in 1..n : (CHOOSE j \in 1..n : l[j] = l[i]) = i
  <2> SUFFICES ASSUME NEW i \in 1..n PROVE (CHOOSE j \in 1..n : l[j] = l[i]) = i
    OBVIOUS
  <2>1. \A j \in 1..n : l[j] = l[i] => j = i
    <3> SUFFICES ASSUME NEW j \in 1..n, l[j] = l[i] PROVE j = i
      BY Zenon
    <3>1. m.lo[l[j]] = j /\ m.lo[l[i]] = i
      BY <1>4, Zenon
    <3> QED BY <3>1, Zenon
  <2> QED BY <2>1
<1>7. \A i \in 1..n : new[l[i]] = l[next[i]]
  BY <1>3, <1>4, <1>6, Zenon
<1>8. new \in [D -> D]
  <2>1. ASSUME NEW p \in D PROVE new[p] \in D
    <3>1. PICK i \in 1..n : p = l[i]
      BY <1>5
    <3>2. PICK j \in 1..n : j = next[i]
      BY Zenon
    <3>3. l[j] \in D /\ new[l[i]] = l[j]
      BY <1>4, <1>7, <3>2, Zenon
    <3> QED BY <3>1, <3>3
  <2> QED BY <1>3, <2>1, Zenon
<1>9. ASSUME NEW x \in D, NEW y \in D, new[x] = new[y] PROVE x = y
  <2>1. PICK i, j \in 1..n : x = l[i] /\ y = l[j]
    BY <1>5
  <2>2. l[next[i]] = l[next[j]]
    BY <1>7, <1>9, <2>1
  <2>3. next[i] = next[j]
    <3>1. PICK u, v : u = next[i] /\ v = next[j]
      OBVIOUS
    <3>2. u \in 1..n /\ v \in 1..n /\ l[u] = l[v]
      BY <2>2, <3>1, Zenon
    <3>3. m.lo[l[u]] = u /\ m.lo[l[v]] = v
      BY <1>4, <3>2, Zenon
    <3> QED BY <3>1, <3>2, <3>3
  <2> QED BY <2>1, <2>3, Zenon
<1>10. ASSUME NEW x \in D PROVE \E y \in D : new[y] = x
  <2>1. PICK i \in 1..n : x = l[i]
    BY <1>5
  <2>2. PICK j \in 1..n : next[j] = i
    OBVIOUS
  <2> QED BY <1>4, <1>7, <2>1, <2>2, Zenon
<1>11. D \in SUBSET Panes /\ (\A p \in D : m.own[p] = t) /\ f.root[t] \notin D
  BY <1>1, <1>2, <1>3, Zenon
<1>12. Yields(Permuted(f, t, new), open, m.own)
  BY <1>8, <1>9, <1>10, <1>11, PermutedKeeps, ZenonT(30)
<1> QED BY <1>12, <1>13

-----------------------------------------------------------------------------
(* The rows of a preset.                                                   *)

LEMMA RestIs ==
  ASSUME NEW r \in Nat, NEW q \in Nat, NEW w \in Nat, w >= 1, r < w
  PROVE  (q * w + r) % w = r
OBVIOUS

LEMMA DivideIs ==
  ASSUME NEW i \in Nat, NEW w \in Nat, w >= 1
  PROVE  /\ i % w \in Nat /\ i % w < w
         /\ \E q \in Nat : i = q * w + (i % w)
<1>1. i % w \in Nat /\ i % w < w
  OBVIOUS
<1>2. i = w * (i \div w) + (i % w)
  OBVIOUS
<1>3. i \div w \in Nat
  OBVIOUS
<1>4. i = (i \div w) * w + (i % w)
  BY <1>1, <1>2, <1>3
<1> QED BY <1>1, <1>3, <1>4, Zenon

LEMMA ModAdd ==
  ASSUME NEW i \in Nat, NEW w \in Nat, w >= 1
  PROVE  (i + w) % w = i % w
<1>1. PICK r : r = i % w
  OBVIOUS
<1>2. r \in Nat /\ r < w /\ \E q \in Nat : i = q * w + r
  BY <1>1, DivideIs, Zenon
<1>3. PICK q \in Nat : i = q * w + r
  BY <1>2
<1>4. PICK q1 \in Nat : q1 = q + 1
  BY <1>3
<1>5. q1 * w = q * w + w
  BY <1>4
<1>6. i + w = q1 * w + r
  BY <1>2, <1>3, <1>5
<1>7. (q1 * w + r) % w = r
  BY <1>2, RestIs
<1> QED BY <1>1, <1>6, <1>7

LEMMA ModNext ==
  ASSUME NEW i \in Nat, NEW w \in Nat, w >= 1
  PROVE  (i + 1) % w = IF (i % w) = w - 1 THEN 0 ELSE (i % w) + 1
<1>1. PICK r : r = i % w
  OBVIOUS
<1>2. r \in Nat /\ r < w /\ \E q \in Nat : i = q * w + r
  BY <1>1, DivideIs, Zenon
<1>3. PICK q \in Nat : i = q * w + r
  BY <1>2
<1>4. q * w \in Nat
  OBVIOUS
<1>5. CASE r = w - 1
  <2>1. PICK q1 \in Nat : q1 = q + 1
    BY <1>3
  <2>2. q1 * w = q * w + w
    BY <2>1
  <2>3. i + 1 = q1 * w + 0
    BY <1>2, <1>3, <1>5, <2>2
  <2>4. (q1 * w + 0) % w = 0
    <3>1. 0 \in Nat /\ 0 < w
      OBVIOUS
    <3> QED BY <3>1, RestIs
  <2> QED BY <1>1, <1>5, <2>3, <2>4
<1>6. CASE r # w - 1
  <2>1. PICK r1 : r1 = r + 1
    OBVIOUS
  <2>2. r1 \in Nat /\ r1 < w
    BY <1>2, <1>6, <2>1
  <2>3. i + 1 = q * w + r1
    BY <1>2, <1>3, <1>4, <2>1
  <2>4. (q * w + r1) % w = r1
    BY <2>2, RestIs
  <2> QED BY <1>1, <1>6, <2>1, <2>3, <2>4
<1> QED BY <1>5, <1>6

LEMMA ModUp ==
  ASSUME NEW i \in Nat, NEW w \in Nat, w >= 1, NEW r, r = i % w
  PROVE  (i + w - r) % w = 0
<1>1. r \in Nat /\ r < w /\ \E q \in Nat : i = q * w + r
  BY DivideIs, Zenon
<1>2. PICK q \in Nat : i = q * w + r
  BY <1>1
<1>3. PICK q1 \in Nat : q1 = q + 1
  BY <1>2
<1>4. q1 * w = q * w + w
  BY <1>3
<1>5. i + w - r = q1 * w + 0
  <2>1. PICK y, z : y = q * w /\ z = q1 * w
    OBVIOUS
  <2>2. y \in Nat /\ z = y + w /\ i = y + r
    BY <1>2, <1>4, <2>1
  <2>3. i + w - r = z + 0
    BY <1>1, <2>2
  <2> QED BY <2>1, <2>3
<1>6. (q1 * w + 0) % w = 0
  <2>1. 0 \in Nat /\ 0 < w
    OBVIOUS
  <2> QED BY <2>1, RestIs
<1> QED BY <1>5, <1>6

LEMMA ModSmall ==
  ASSUME NEW i \in Nat, NEW w \in Nat, i < w
  PROVE  i % w = i
<1>1. w >= 1 /\ i = 0 * w + i
  OBVIOUS
<1>2. (0 * w + i) % w = i
  <2>1. 0 \in Nat
    OBVIOUS
  <2> QED BY <1>1, <2>1, RestIs
<1> QED BY <1>1, <1>2

LEMMA MultipleIs ==
  ASSUME NEW i \in Nat, NEW w \in Nat, i >= 1, i % w = 0
  PROVE  i >= w
<1>1. ASSUME i < w PROVE FALSE
  <2>1. i % w = i
    BY <1>1, ModSmall
  <2> QED BY <2>1
<1> QED BY <1>1

\* The pane with which the row of pane i ends, in rows of w of n panes.
RowStop(n, w, i, r) == IF r = 0 THEN i ELSE IF i + w - r > n THEN n ELSE i + w - r
RowEnd(n, w, i) == RowStop(n, w, i, i % w)

LEMMA RowEndIs ==
  ASSUME NEW n \in Nat, NEW w \in Nat, w >= 1, NEW i \in Nat, 1 <= i, i <= n
  PROVE  /\ RowEnd(n, w, i) \in Nat /\ i <= RowEnd(n, w, i) /\ RowEnd(n, w, i) <= n
         /\ i % w = 0 \/ i = n => RowEnd(n, w, i) = i
         /\ i % w # 0 /\ i < n => RowEnd(n, w, i + 1) = RowEnd(n, w, i)
         /\ i % w # 0 /\ i < n => RowEnd(n, w, i) > i
         /\ RowEnd(n, w, i) % w = 0 \/ RowEnd(n, w, i) = n
         /\ (i - 1) % w = 0 => RowEnd(n, w, i) = IF i - 1 + w > n THEN n ELSE i - 1 + w
<1>1. PICK r : r = i % w
  OBVIOUS
<1>2. r \in Nat /\ r < w /\ (i + w - r) % w = 0 /\ (i + 1) % w = IF r = w - 1 THEN 0 ELSE r + 1
  <2>1. i % w \in Nat /\ i % w < w
    BY DivideIs
  <2>2. (i + w - r) % w = 0
    BY <1>1, ModUp, Zenon
  <2>3. (i + 1) % w = IF (i % w) = w - 1 THEN 0 ELSE (i % w) + 1
    BY ModNext, Zenon
  <2> QED BY <1>1, <2>1, <2>2, <2>3, Zenon
<1>3. PICK e : e = RowEnd(n, w, i)
  OBVIOUS
<1>4. e = IF r = 0 THEN i ELSE IF i + w - r > n THEN n ELSE i + w - r
  BY <1>1, <1>3 DEF RowEnd, RowStop
<1>5. e \in Nat /\ i <= e /\ e <= n /\ (r = 0 \/ i = n => e = i) /\ (r # 0 /\ i < n => e > i)
  BY <1>2, <1>4
<1>6. e % w = 0 \/ e = n
  <2>1. CASE r = 0
    BY <1>1, <1>4, <2>1
  <2>2. CASE r # 0 /\ i + w - r > n
    BY <1>4, <2>2
  <2>3. CASE r # 0 /\ ~(i + w - r > n)
    <3>1. e = i + w - r
      BY <1>4, <2>3
    <3> QED BY <1>2, <3>1
  <2> QED BY <2>1, <2>2, <2>3
<1>7. ASSUME r # 0, i < n PROVE RowEnd(n, w, i + 1) = e
  <2>1. PICK j, x : j = i + 1 /\ x = j % w
    OBVIOUS
  <2>2. x = IF r = w - 1 THEN 0 ELSE r + 1
    BY <1>2, <2>1
  <2>3. RowEnd(n, w, j) = IF x = 0 THEN j ELSE IF j + w - x > n THEN n ELSE j + w - x
    BY <2>1 DEF RowEnd, RowStop
  <2>4. RowEnd(n, w, j) = e
    BY <1>2, <1>4, <1>7, <2>1, <2>2, <2>3
  <2> QED BY <2>1, <2>4
<1>8. ASSUME (i - 1) % w = 0 PROVE e = IF i - 1 + w > n THEN n ELSE i - 1 + w
  <2>1. PICK j : j = i - 1
    OBVIOUS
  <2>2. j \in Nat /\ j + 1 = i
    BY <2>1
  <2>3. (j + 1) % w = IF (j % w) = w - 1 THEN 0 ELSE (j % w) + 1
    BY <2>2, ModNext, Zenon
  <2>4. r = IF w = 1 THEN 0 ELSE 1
    BY <1>1, <1>8, <2>1, <2>2, <2>3
  <2> QED BY <1>4, <2>1, <2>2, <2>4
<1> QED BY <1>1, <1>3, <1>5, <1>6, <1>7, <1>8

\* The row behind pane k, which ends one.
LEMMA FirstEnds ==
  ASSUME NEW n \in Nat, NEW w \in Nat, w >= 1, NEW k \in Nat, k < n, k % w = 0
  PROVE  RowEnd(n, w, k + 1) = IF k + w > n THEN n ELSE k + w
<1>1. PICK i, r : i = k + 1 /\ r = i % w
  OBVIOUS
<1>2. (k + 1) % w = IF (k % w) = w - 1 THEN 0 ELSE (k % w) + 1
  BY ModNext, Zenon
<1>3. r = IF w = 1 THEN 0 ELSE 1
  BY <1>1, <1>2
<1>4. RowEnd(n, w, i) = IF r = 0 THEN i ELSE IF i + w - r > n THEN n ELSE i + w - r
  BY <1>1 DEF RowEnd, RowStop
<1>5. RowEnd(n, w, i) = IF k + w > n THEN n ELSE k + w
  BY <1>1, <1>3, <1>4
<1> QED BY <1>1, <1>5

\* The numbers of the nodes of rows of c panes.  The panes are listed from the
\* last to the first, as child b comes before child a.
Counted(l, ss, n, c, m) ==
  /\ n \in Nat /\ n = Len(l) /\ c \in Nat /\ c >= 1
  /\ \A i \in 1..n : m.lo[l[i]] = n + 1 - i /\ m.hi[l[i]] = n + 1 - i
  /\ \A k \in 1..(n - 1) :
       /\ m.cut[ss[k]] = n - k
       /\ m.lo[ss[k]] = IF k % c = 0 THEN 1 ELSE n + 1 - RowEnd(n, c, k)
       /\ m.hi[ss[k]] = IF k % c = 0 THEN n - k + c ELSE n + 1 - k

LEMMA RowIs ==
  ASSUME NEW l, NEW ss, NEW n, NEW c, NEW m, Counted(l, ss, n, c, m),
         NEW i \in Nat, 1 <= i, i <= n, NEW x, x = Row(l, ss, c, i)
  PROVE  /\ m.lo[x] = n + 1 - RowEnd(n, c, i) /\ m.hi[x] = n + 1 - i
         /\ x = l[i] \/ (i <= n - 1 /\ x = ss[i] /\ i % c # 0)
<1>0. n \in Nat /\ n = Len(l) /\ c \in Nat /\ c >= 1
  BY DEF Counted
<1> USE <1>0
<1>1. PICK e : e = RowEnd(n, c, i)
  OBVIOUS
<1>2. CASE i % c = 0 \/ i = n
  <2>1. x = l[i]
    BY <1>2 DEF Row
  <2>2. e = i
    BY <1>1, <1>2, RowEndIs
  <2>3. m.lo[l[i]] = n + 1 - i /\ m.hi[l[i]] = n + 1 - i
    BY DEF Counted
  <2> QED BY <1>1, <2>1, <2>2, <2>3
<1>3. CASE ~(i % c = 0 \/ i = n)
  <2>1. x = ss[i] /\ i \in 1..(n - 1)
    BY <1>3 DEF Row
  <2>2. m.lo[ss[i]] = n + 1 - e /\ m.hi[ss[i]] = n + 1 - i
    BY <1>1, <1>3, <2>1 DEF Counted
  <2> QED BY <1>1, <1>3, <2>1, <2>2
<1> QED BY <1>2, <1>3

LEMMA RowsIs ==
  ASSUME NEW l, NEW ss, NEW n, NEW c, NEW m, Counted(l, ss, n, c, m),
         NEW k \in Nat, k < n, k % c = 0, NEW x, x = Rows(l, ss, c, k)
  PROVE  /\ m.lo[x] = 1 /\ m.hi[x] = n - k
         /\ \/ k + c < n /\ x = ss[k + c]
            \/ x = l[k + 1]
            \/ k + 1 <= n - 1 /\ x = ss[k + 1]
<1>0. n \in Nat /\ n = Len(l) /\ c \in Nat /\ c >= 1
  BY DEF Counted
<1> USE <1>0
<1>1. PICK j : j = k + c
  OBVIOUS
<1>2. j \in Nat /\ j % c = 0
  <2>1. (k + c) % c = k % c
    BY ModAdd
  <2> QED BY <1>1, <2>1
<1>3. CASE j < n
  <2>1. x = ss[j] /\ j \in 1..(n - 1)
    BY <1>1, <1>2, <1>3 DEF Rows
  <2>2. m.lo[ss[j]] = 1 /\ m.hi[ss[j]] = n - j + c
    BY <1>2, <2>1, Zenon DEF Counted
  <2> QED BY <1>1, <1>3, <2>1, <2>2
<1>4. CASE ~(j < n)
  <2>1. PICK i : i = k + 1
    OBVIOUS
  <2>2. x = Row(l, ss, c, i) /\ i \in Nat /\ 1 <= i /\ i <= n /\ i - 1 = k /\ (i - 1) % c = 0
    <3>1. x = Row(l, ss, c, k + 1)
      BY <1>1, <1>4 DEF Rows
    <3>2. i \in Nat /\ 1 <= i /\ i <= n /\ i - 1 = k
      BY <2>1
    <3> QED BY <2>1, <3>1, <3>2
  <2>3. PICK e : e = RowEnd(n, c, i)
    OBVIOUS
  <2>4. /\ m.lo[x] = n + 1 - RowEnd(n, c, i) /\ m.hi[x] = n + 1 - i
        /\ x = l[i] \/ (i <= n - 1 /\ x = ss[i] /\ i % c # 0)
    BY <2>2, RowIs
  <2>5. e = IF i - 1 + c > n THEN n ELSE i - 1 + c
    <3>1. RowEnd(n, c, k + 1) = IF k + c > n THEN n ELSE k + c
      BY FirstEnds
    <3> QED BY <2>1, <2>2, <2>3, <3>1
  <2>6. e = n
    BY <1>1, <1>4, <2>2, <2>5
  <2> QED BY <2>1, <2>2, <2>3, <2>4, <2>6
<1> QED BY <1>3, <1>4

\* The children of a split share what it stands for, and are nodes of the window.
Share(l, ss, n, m, k, a, b) ==
  /\ m.lo[b] = m.lo[ss[k]] /\ m.hi[b] = n - k
  /\ m.lo[a] = n - k + 1 /\ m.hi[a] = m.hi[ss[k]]
  /\ \E i \in 1..n : a = l[i] \/ (i <= n - 1 /\ a = ss[i])
  /\ \E i \in 1..n : b = l[i] \/ (i <= n - 1 /\ b = ss[i])

LEMMA HalvesIs ==
  ASSUME NEW l, NEW ss, NEW n, NEW c, NEW m, Counted(l, ss, n, c, m),
         NEW k \in 1..(n - 1)
  PROVE  \E a, b : Halves(l, ss, c, k) = <<a, b>> /\ Share(l, ss, n, m, k, a, b)
<1>0. n \in Nat /\ n = Len(l) /\ c \in Nat /\ c >= 1
  BY DEF Counted
<1> USE <1>0
<1>a. PICK a, b : <<a, b>> = Halves(l, ss, c, k)
  BY DEF Halves
<1> SUFFICES Share(l, ss, n, m, k, a, b)
  BY <1>a
<1>1. k \in Nat /\ 1 <= k /\ k <= n - 1
  OBVIOUS
<1>2. PICK e : e = RowEnd(n, c, k)
  OBVIOUS
<1>3. /\ m.lo[ss[k]] = IF k % c = 0 THEN 1 ELSE n + 1 - e
      /\ m.hi[ss[k]] = IF k % c = 0 THEN n - k + c ELSE n + 1 - k
  BY <1>2 DEF Counted
<1>4. CASE k % c = 0
  <2>1. PICK i : i = k - c + 1
    OBVIOUS
  <2>2. k >= c
    BY <1>1, <1>4, MultipleIs
  <2>3. i \in Nat /\ 1 <= i /\ i <= n /\ i <= k
    BY <1>1, <2>1, <2>2
  <2>4. (i - 1) % c = 0
    <3>1. PICK j : j = k - c
      OBVIOUS
    <3>2. j \in Nat /\ j + c = k /\ i - 1 = j
      BY <1>1, <2>1, <2>2, <3>1
    <3>3. (j + c) % c = j % c
      BY <3>2, ModAdd
    <3> QED BY <1>4, <3>2, <3>3
  <2>5. a = Row(l, ss, c, i) /\ b = Rows(l, ss, c, k)
    BY <1>a, <1>4, <2>1 DEF Halves
  <2>6. PICK d : d = RowEnd(n, c, i)
    OBVIOUS
  <2>7. m.lo[a] = n + 1 - d /\ m.hi[a] = n + 1 - i /\ (a = l[i] \/ (i <= n - 1 /\ a = ss[i]))
    <3>1. /\ m.lo[a] = n + 1 - RowEnd(n, c, i) /\ m.hi[a] = n + 1 - i
          /\ a = l[i] \/ (i <= n - 1 /\ a = ss[i] /\ i % c # 0)
      BY <2>3, <2>5, RowIs
    <3> QED BY <2>6, <3>1
  <2>8. d = IF i - 1 + c > n THEN n ELSE i - 1 + c
    BY <2>3, <2>4, <2>6, RowEndIs, ZenonT(30)
  <2>9. d = k
    BY <1>1, <2>1, <2>8
  <2>10. /\ m.lo[b] = 1 /\ m.hi[b] = n - k
         /\ \/ k + c < n /\ b = ss[k + c]
            \/ b = l[k + 1]
            \/ k + 1 <= n - 1 /\ b = ss[k + 1]
    <3>1. k < n
      BY <1>1
    <3> QED BY <1>1, <1>4, <2>5, <3>1, RowsIs
  <2>11. \E j \in 1..n : b = l[j] \/ (j <= n - 1 /\ b = ss[j])
    <3>1. PICK u, v : u = k + c /\ v = k + 1
      OBVIOUS
    <3>2. v \in 1..n /\ (u < n => u \in 1..n /\ u <= n - 1)
      BY <1>1, <3>1
    <3> QED BY <2>10, <3>1, <3>2
  <2>12. i \in 1..n
    BY <2>3
  <2> QED BY <1>1, <1>3, <1>4, <2>1, <2>3, <2>7, <2>9, <2>10, <2>11, <2>12 DEF Share
<1>5. CASE k % c # 0
  <2>1. PICK i : i = k + 1
    OBVIOUS
  <2>2. i \in Nat /\ 1 <= i /\ i <= n
    BY <1>1, <2>1
  <2>3. a = l[k] /\ b = Row(l, ss, c, i)
    BY <1>a, <1>5, <2>1 DEF Halves
  <2>4. m.lo[a] = n + 1 - k /\ m.hi[a] = n + 1 - k
    BY <1>1, <2>3 DEF Counted
  <2>5. PICK d : d = RowEnd(n, c, i)
    OBVIOUS
  <2>6. m.lo[b] = n + 1 - d /\ m.hi[b] = n + 1 - i /\ (b = l[i] \/ (i <= n - 1 /\ b = ss[i]))
    <3>1. /\ m.lo[b] = n + 1 - RowEnd(n, c, i) /\ m.hi[b] = n + 1 - i
          /\ b = l[i] \/ (i <= n - 1 /\ b = ss[i] /\ i % c # 0)
      <4>1. b = Row(l, ss, c, i)
        BY <2>3
      <4> QED BY <2>2, <4>1, RowIs
    <3> QED BY <2>5, <3>1
  <2>7. d = e
    <3>1. k <= n /\ k < n
      BY <1>1
    <3> QED BY <1>1, <1>2, <1>5, <2>1, <2>5, <3>1, RowEndIs
  <2>8. i \in 1..n /\ k \in 1..n
    BY <1>1, <2>1
  <2> QED BY <1>1, <1>3, <1>5, <2>1, <2>3, <2>4, <2>6, <2>7, <2>8 DEF Share
<1> QED BY <1>4, <1>5

\* No node is a child of two splits.
LEMMA OneParent ==
  ASSUME NEW l, NEW ss, NEW n, NEW c, NEW m, Counted(l, ss, n, c, m),
         NEW k \in 1..(n - 1), NEW j \in 1..(n - 1), NEW x,
         x \in Range(Halves(l, ss, c, k)), x \in Range(Halves(l, ss, c, j))
  PROVE  k = j
<1>0. n \in Nat /\ n = Len(l) /\ c \in Nat /\ c >= 1
  BY DEF Counted
<1> USE <1>0
<1>1. \A i \in 1..(n - 1) : x \in Range(Halves(l, ss, c, i)) =>
        \/ m.lo[x] = n - i + 1 /\ m.hi[x] = m.hi[ss[i]]
        \/ m.hi[x] = n - i /\ m.lo[x] = m.lo[ss[i]]
  <2> SUFFICES ASSUME NEW i \in 1..(n - 1), x \in Range(Halves(l, ss, c, i))
               PROVE  \/ m.lo[x] = n - i + 1 /\ m.hi[x] = m.hi[ss[i]]
                      \/ m.hi[x] = n - i /\ m.lo[x] = m.lo[ss[i]]
    OBVIOUS
  <2>1. PICK a, b : Halves(l, ss, c, i) = <<a, b>> /\ Share(l, ss, n, m, i, a, b)
    BY HalvesIs
  <2>2. x = a \/ x = b
    <3>1. DOMAIN <<a, b>> = {1, 2}
      OBVIOUS
    <3> QED BY <2>1, <3>1 DEF Range
  <2>3. m.lo[b] = m.lo[ss[i]] /\ m.hi[b] = n - i /\ m.lo[a] = n - i + 1 /\ m.hi[a] = m.hi[ss[i]]
    BY <2>1 DEF Share
  <2> QED BY <2>2, <2>3
<1>2. ASSUME NEW p \in 1..(n - 1), NEW q \in 1..(n - 1),
             m.lo[x] = n - p + 1, m.hi[x] = m.hi[ss[p]],
             m.hi[x] = n - q, m.lo[x] = m.lo[ss[q]]
      PROVE  FALSE
  <2>1. PICK e : e = RowEnd(n, c, q)
    OBVIOUS
  <2>2. /\ m.hi[ss[p]] = IF p % c = 0 THEN n - p + c ELSE n + 1 - p
        /\ m.lo[ss[q]] = IF q % c = 0 THEN 1 ELSE n + 1 - e
    BY <2>1, Zenon DEF Counted
  <2>3. q % c # 0 /\ e = p
    <3>1. e \in Nat
      <4>1. q \in Nat /\ 1 <= q /\ q <= n
        OBVIOUS
      <4> QED BY <2>1, <4>1, RowEndIs
    <3> QED BY <1>2, <2>2, <3>1, SMTT(30)
  <2>4. p % c = 0
    <3>1. q \in Nat /\ 1 <= q /\ q <= n
      OBVIOUS
    <3>2. e % c = 0 \/ e = n
      BY <2>1, <3>1, RowEndIs
    <3> QED BY <2>3, <3>2
  <2>5. q = p - c
    <3>1. n - q = n - p + c
      BY <1>2, <2>2, <2>4, Zenon
    <3> QED BY <3>1
  <2>6. q + c = p /\ q \in Nat
    BY <2>5
  <2>7. (q + c) % c = q % c
    BY <2>6, ModAdd, Zenon
  <2> QED BY <2>3, <2>4, <2>6, <2>7
<1>3. \/ m.lo[x] = n - k + 1 /\ m.hi[x] = m.hi[ss[k]]
      \/ m.hi[x] = n - k /\ m.lo[x] = m.lo[ss[k]]
  BY <1>1
<1>4. \/ m.lo[x] = n - j + 1 /\ m.hi[x] = m.hi[ss[j]]
      \/ m.hi[x] = n - j /\ m.lo[x] = m.lo[ss[j]]
  BY <1>1
<1>5. CASE m.lo[x] = n - k + 1 /\ m.lo[x] = n - j + 1
  BY <1>5
<1>6. CASE m.hi[x] = n - k /\ m.hi[x] = n - j
  BY <1>6
<1>7. CASE m.lo[x] = n - k + 1 /\ m.hi[x] = m.hi[ss[k]] /\ m.hi[x] = n - j /\ m.lo[x] = m.lo[ss[j]]
  BY <1>2, <1>7, Zenon
<1>8. CASE m.lo[x] = n - j + 1 /\ m.hi[x] = m.hi[ss[j]] /\ m.hi[x] = n - k /\ m.lo[x] = m.lo[ss[k]]
  BY <1>2, <1>8, Zenon
<1> QED BY <1>3, <1>4, <1>5, <1>6, <1>7, <1>8

\* Every node but the root is a child of some split.
LEMMA SomeParent ==
  ASSUME NEW l, NEW ss, NEW n \in Nat, n = Len(l), NEW c \in Nat, c >= 1,
         NEW i \in 1..n, NEW x, x = l[i] \/ (i <= n - 1 /\ x = ss[i]), x # Rows(l, ss, c, 0)
  PROVE  \E k \in 1..(n - 1) : x \in Range(Halves(l, ss, c, k))
<1>1. i \in Nat /\ 1 <= i /\ i <= n
  OBVIOUS
<1>2. \A k \in 1..(n - 1) : k % c # 0 =>
        l[k] \in Range(Halves(l, ss, c, k)) /\ Row(l, ss, c, k + 1) \in Range(Halves(l, ss, c, k))
  <2> SUFFICES ASSUME NEW k \in 1..(n - 1), k % c # 0
               PROVE  l[k] \in Range(Halves(l, ss, c, k)) /\ Row(l, ss, c, k + 1) \in Range(Halves(l, ss, c, k))
    OBVIOUS
  <2>1. PICK a, b : a = l[k] /\ b = Row(l, ss, c, k + 1)
    OBVIOUS
  <2>2. Halves(l, ss, c, k) = <<a, b>>
    BY <2>1 DEF Halves
  <2>3. a \in Range(<<a, b>>) /\ b \in Range(<<a, b>>)
    BY DEF Range
  <2> QED BY <2>1, <2>2, <2>3
<1>3. \A k \in 1..(n - 1) : k % c = 0 =>
        Row(l, ss, c, k - c + 1) \in Range(Halves(l, ss, c, k)) /\ Rows(l, ss, c, k) \in Range(Halves(l, ss, c, k))
  <2> SUFFICES ASSUME NEW k \in 1..(n - 1), k % c = 0
               PROVE  Row(l, ss, c, k - c + 1) \in Range(Halves(l, ss, c, k)) /\ Rows(l, ss, c, k) \in Range(Halves(l, ss, c, k))
    OBVIOUS
  <2>1. PICK a, b : a = Row(l, ss, c, k - c + 1) /\ b = Rows(l, ss, c, k)
    OBVIOUS
  <2>2. Halves(l, ss, c, k) = <<a, b>>
    BY <2>1 DEF Halves
  <2>3. a \in Range(<<a, b>>) /\ b \in Range(<<a, b>>)
    BY DEF Range
  <2> QED BY <2>1, <2>2, <2>3
<1>4. ASSUME NEW k \in Nat, k < n, k % c = 0, x = Rows(l, ss, c, k)
      PROVE  \E j \in 1..(n - 1) : x \in Range(Halves(l, ss, c, j))
  <2>1. k \in 1..(n - 1)
    <3>1. k # 0
      BY <1>4
    <3> QED BY <1>4, <3>1
  <2> QED BY <1>3, <1>4, <2>1
<1>5. PICK j : j = i - 1
  OBVIOUS
<1>6. j \in Nat /\ j + 1 = i /\ j < n
  BY <1>1, <1>5
<1>7. CASE x = Row(l, ss, c, i)
  <2>1. CASE j % c # 0
    <3>1. j \in 1..(n - 1)
      <4>1. j # 0
        <5>1. 0 % c = 0
          BY ModSmall
        <5> QED BY <2>1, <5>1
      <4> QED BY <1>6, <4>1
    <3> QED BY <1>2, <1>6, <1>7, <2>1, <3>1
  <2>2. CASE j % c = 0
    <3>1. PICK k : k = j + c
      OBVIOUS
    <3>2. k \in Nat /\ k % c = 0 /\ k - c + 1 = i
      <4>1. (j + c) % c = j % c
        BY <1>6, ModAdd, Zenon
      <4> QED BY <1>6, <2>2, <3>1, <4>1
    <3>3. CASE k < n
      <4>1. k \in 1..(n - 1)
        BY <1>6, <3>1, <3>3
      <4> QED BY <1>3, <1>7, <3>2, <4>1, Zenon
    <3>4. CASE ~(k < n)
      <4>1. x = Rows(l, ss, c, j)
        BY <1>6, <1>7, <3>1, <3>4 DEF Rows
      <4> QED BY <1>4, <1>6, <2>2, <4>1
    <3> QED BY <3>3, <3>4
  <2> QED BY <2>1, <2>2
<1>8. CASE i % c # 0 /\ i # n /\ x = l[i]
  <2>1. i \in 1..(n - 1)
    BY <1>1, <1>8
  <2> QED BY <1>2, <1>8, <2>1
<1>9. CASE i % c = 0 /\ i # n /\ x = ss[i]
  <2>1. PICK k : k = i - c
    OBVIOUS
  <2>2. i >= c
    <3>1. i % c = 0
      BY <1>9
    <3> QED BY <1>1, <3>1, MultipleIs
  <2>3. k \in Nat /\ k + c = i /\ k < n /\ k + c < n
    BY <1>1, <1>9, <2>1, <2>2
  <2>4. k % c = 0
    <3>1. (k + c) % c = k % c
      BY <2>3, ModAdd
    <3> QED BY <1>9, <2>3, <3>1
  <2>5. x = Rows(l, ss, c, k)
    BY <1>9, <2>3 DEF Rows
  <2> QED BY <1>4, <2>3, <2>4, <2>5
<1> QED BY <1>1, <1>7, <1>8, <1>9 DEF Row

\* What a window of n panes stands for after a preset with rows of c panes;
\* at[x] is the number of a pane in the old list, and of the split behind it.
Preset(m, t, n, c, at) ==
  [own |-> m.own,
   lo |-> [x \in Nodes |-> IF m.own[x] # t THEN m.lo[x]
                           ELSE IF x \in Splits /\ at[x] % c = 0 THEN 1
                           ELSE IF x \in Splits THEN n + 1 - RowEnd(n, c, at[x])
                           ELSE n + 1 - at[x]],
   hi |-> [x \in Nodes |-> IF m.own[x] # t THEN m.hi[x]
                           ELSE IF x \in Splits /\ at[x] % c = 0 THEN n - at[x] + c
                           ELSE n + 1 - at[x]],
   cut |-> [s \in Splits |-> IF m.own[s] # t THEN m.cut[s] ELSE n - at[s]],
   order |-> [m.order EXCEPT ![t] = [k \in 1..n |-> m.order[t][n + 1 - k]]]]

PresetFacts(m, w, t, l, ss, n, c) ==
  /\ w \in Marks /\ w.own = m.own
  /\ \A x \in Nodes : m.own[x] # t => w.lo[x] = m.lo[x] /\ w.hi[x] = m.hi[x]
  /\ \A s \in Splits : m.own[s] # t => w.cut[s] = m.cut[s]
  /\ \A u \in Tabs : u # t => w.order[u] = m.order[u]
  /\ Len(w.order[t]) = n /\ \A k \in 1..n : w.order[t][k] = l[n + 1 - k]
  /\ Counted(l, ss, n, c, w)

\* ss lists the splits of a window.
SplitList(m, t, ss, n) ==
  /\ ss \in [1..(n - 1) -> {s \in Splits : m.own[s] = t}]
  /\ \A i, j \in 1..(n - 1) : ss[i] = ss[j] => i = j
  /\ \A s \in Splits : m.own[s] = t => \E k \in 1..(n - 1) : ss[k] = s

LEMMA PresetIs ==
  ASSUME NEW f, NEW open, NEW m, Numbered(f, open, m), NEW t \in open,
         NEW l, l = m.order[t], NEW n, n = Len(l), NEW c \in Nat, c >= 1,
         NEW ss, SplitList(m, t, ss, n)
  PROVE  \E w : PresetFacts(m, w, t, l, ss, n, c)
<1>1. /\ l \in Seq(Panes) /\ n \in Nat /\ n >= 1 /\ t # None /\ t \in Tabs /\ m \in Marks
      /\ Panes \cap Splits = {} /\ Panes \subseteq Nodes /\ Splits \subseteq Nodes
      /\ \A x \in Nodes : x \notin Panes => x \in Splits
  BY NodesAre, OrderIs DEF Numbered, Nodes
<1>2. PICK at : at = [x \in Nodes |-> IF x \in Splits THEN CHOOSE k \in 1..(n - 1) : ss[k] = x ELSE m.lo[x]]
  BY Zenon
<1>3. \A s \in Splits : m.own[s] = t => at[s] \in 1..(n - 1) /\ ss[at[s]] = s
  BY <1>1, <1>2, Zenon DEF SplitList
<1>4. \A k \in 1..(n - 1) : ss[k] \in Splits /\ m.own[ss[k]] = t /\ at[ss[k]] = k
  <2> SUFFICES ASSUME NEW k \in 1..(n - 1) PROVE ss[k] \in Splits /\ m.own[ss[k]] = t /\ at[ss[k]] = k
    OBVIOUS
  <2>1. ss[k] \in Splits /\ m.own[ss[k]] = t
    BY DEF SplitList
  <2>2. PICK j : j = at[ss[k]]
    OBVIOUS
  <2>3. j \in 1..(n - 1) /\ ss[j] = ss[k]
    BY <1>3, <2>1, <2>2
  <2>4. j = k
    BY <2>3 DEF SplitList
  <2> QED BY <2>1, <2>2, <2>4
<1>5. \A p \in Panes : m.own[p] = t => at[p] \in Nat /\ 1 <= at[p] /\ at[p] <= n /\ l[at[p]] = p
  <2> SUFFICES ASSUME NEW p \in Panes, m.own[p] = t
               PROVE  at[p] \in Nat /\ 1 <= at[p] /\ at[p] <= n /\ l[at[p]] = p
    OBVIOUS
  <2>1. m.lo[p] \in Nat /\ 1 <= m.lo[p] /\ m.lo[p] <= n /\ l[m.lo[p]] = p
    BY <1>1, PlaceIs
  <2> QED BY <1>1, <1>2, <2>1
<1>6. \A i \in 1..n : l[i] \in Panes /\ m.own[l[i]] = t /\ at[l[i]] = i
  <2>1. \A i \in 1..n : l[i] \in Panes
    BY <1>1
  <2>2. \A i \in 1..n : m.own[l[i]] = t /\ m.lo[l[i]] = i
    BY DEF Numbered, PlacesOK
  <2> QED BY <1>1, <1>2, <2>1, <2>2
<1>7. \A k \in 1..(n - 1) : RowEnd(n, c, k) \in Nat /\ RowEnd(n, c, k) <= n
  <2> SUFFICES ASSUME NEW k \in 1..(n - 1) PROVE RowEnd(n, c, k) \in Nat /\ RowEnd(n, c, k) <= n
    OBVIOUS
  <2>1. k \in Nat /\ 1 <= k /\ k <= n
    BY <1>1
  <2> QED BY <1>1, <2>1, RowEndIs, Zenon
<1>8. PICK w : w = Preset(m, t, n, c, at)
  OBVIOUS
<1>9. /\ w.own = m.own
      /\ \A x \in Nodes : w.lo[x] = IF m.own[x] # t THEN m.lo[x]
                           ELSE IF x \in Splits /\ at[x] % c = 0 THEN 1
                           ELSE IF x \in Splits THEN n + 1 - RowEnd(n, c, at[x])
                           ELSE n + 1 - at[x]
      /\ \A x \in Nodes : w.hi[x] = IF m.own[x] # t THEN m.hi[x]
                           ELSE IF x \in Splits /\ at[x] % c = 0 THEN n - at[x] + c
                           ELSE n + 1 - at[x]
      /\ \A s \in Splits : w.cut[s] = IF m.own[s] # t THEN m.cut[s] ELSE n - at[s]
      /\ w.lo = [x \in Nodes |-> w.lo[x]] /\ w.hi = [x \in Nodes |-> w.hi[x]]
      /\ w.cut = [s \in Splits |-> w.cut[s]]
      /\ w.order = [m.order EXCEPT ![t] = [k \in 1..n |-> l[n + 1 - k]]]
      /\ w = [own |-> w.own, lo |-> w.lo, hi |-> w.hi, cut |-> w.cut, order |-> w.order]
  BY <1>8 DEF Preset
<1>10. /\ m.lo \in [Nodes -> Nat] /\ m.hi \in [Nodes -> Nat] /\ m.cut \in [Splits -> Nat]
       /\ m.order \in [Tabs -> Seq(Panes)] /\ m.own \in [Nodes -> Tabs \cup {None}]
  BY <1>1 DEF Marks
<1>11. \A x \in Nodes : w.lo[x] \in Nat /\ w.hi[x] \in Nat
  <2> SUFFICES ASSUME NEW x \in Nodes PROVE w.lo[x] \in Nat /\ w.hi[x] \in Nat
    OBVIOUS
  <2>1. CASE m.own[x] # t
    BY <1>9, <1>10, <2>1
  <2>2. CASE m.own[x] = t /\ x \in Splits
    <3>1. PICK k, e : k = at[x] /\ e = RowEnd(n, c, k)
      OBVIOUS
    <3>2. k \in 1..(n - 1) /\ e \in Nat /\ e <= n
      BY <1>3, <1>7, <2>2, <3>1
    <3>3. /\ w.lo[x] = IF k % c = 0 THEN 1 ELSE n + 1 - e
          /\ w.hi[x] = IF k % c = 0 THEN n - k + c ELSE n + 1 - k
      BY <1>9, <2>2, <3>1
    <3> QED BY <1>1, <3>2, <3>3, SMTT(30)
  <2>3. CASE m.own[x] = t /\ x \notin Splits
    <3>1. PICK k : k = at[x]
      OBVIOUS
    <3>2. k \in Nat /\ k <= n
      BY <1>1, <1>5, <2>3, <3>1
    <3>3. w.lo[x] = n + 1 - k /\ w.hi[x] = n + 1 - k
      BY <1>9, <2>3, <3>1
    <3> QED BY <1>1, <3>2, <3>3
  <2> QED BY <2>1, <2>2, <2>3
<1>12. \A s \in Splits : w.cut[s] \in Nat
  <2> SUFFICES ASSUME NEW s \in Splits PROVE w.cut[s] \in Nat
    OBVIOUS
  <2>1. CASE m.own[s] # t
    BY <1>9, <1>10, <2>1
  <2>2. CASE m.own[s] = t
    <3>1. PICK k : k = at[s]
      OBVIOUS
    <3>2. k \in 1..(n - 1)
      BY <1>3, <2>2, <3>1
    <3> QED BY <1>1, <1>9, <2>2, <3>1, <3>2
  <2> QED BY <2>1, <2>2
<1>13. PICK v : v = [k \in 1..n |-> l[n + 1 - k]]
  BY Zenon
<1>14. v \in Seq(Panes) /\ Len(v) = n /\ \A k \in 1..n : v[k] = l[n + 1 - k]
  <2>1. \A k \in 1..n : l[n + 1 - k] \in Panes
    <3> SUFFICES ASSUME NEW k \in 1..n PROVE l[n + 1 - k] \in Panes
      OBVIOUS
    <3>1. PICK j : j = n + 1 - k
      OBVIOUS
    <3>2. j \in 1..n
      BY <1>1, <3>1
    <3> QED BY <1>6, <3>1, <3>2
  <2> QED BY <1>1, <1>13, <2>1
<1>15. w.order \in [Tabs -> Seq(Panes)] /\ w.order[t] = v /\ \A u \in Tabs : u # t => w.order[u] = m.order[u]
  BY <1>1, <1>9, <1>10, <1>13, <1>14
<1>16. w \in Marks
  <2>1. w.lo \in [Nodes -> Nat] /\ w.hi \in [Nodes -> Nat] /\ w.cut \in [Splits -> Nat]
    BY <1>9, <1>11, <1>12
  <2> QED BY <1>9, <1>10, <1>15, <2>1, Zenon DEF Marks
<1>17. Counted(l, ss, n, c, w)
  <2>1. ASSUME NEW i \in 1..n PROVE w.lo[l[i]] = n + 1 - i /\ w.hi[l[i]] = n + 1 - i
    <3>1. PICK x : x = l[i]
      OBVIOUS
    <3>2. x \in Nodes /\ x \notin Splits /\ m.own[x] = t /\ at[x] = i
      BY <1>1, <1>6, <3>1
    <3> QED BY <1>9, <3>1, <3>2
  <2>2. ASSUME NEW k \in 1..(n - 1)
        PROVE  /\ w.cut[ss[k]] = n - k
               /\ w.lo[ss[k]] = IF k % c = 0 THEN 1 ELSE n + 1 - RowEnd(n, c, k)
               /\ w.hi[ss[k]] = IF k % c = 0 THEN n - k + c ELSE n + 1 - k
    <3>1. PICK x : x = ss[k]
      OBVIOUS
    <3>2. x \in Nodes /\ x \in Splits /\ m.own[x] = t /\ at[x] = k
      BY <1>1, <1>4, <3>1
    <3> QED BY <1>9, <3>1, <3>2, SMTT(30)
  <2> QED BY <1>1, <2>1, <2>2, Zenon DEF Counted
<1>18. PresetFacts(m, w, t, l, ss, n, c)
  BY <1>9, <1>14, <1>15, <1>16, <1>17 DEF PresetFacts
<1> QED BY <1>18

LEMMA PresetNumbered ==
  ASSUME NEW f, NEW open, NEW m, Numbered(f, open, m), NEW t \in open,
         NEW l, l = m.order[t], NEW n, n = Len(l), NEW c \in Nat, c >= 1,
         NEW ss, SplitList(m, t, ss, n), NEW w, PresetFacts(m, w, t, l, ss, n, c),
         NEW g \in Trees, g.root[t] = Rows(l, ss, c, 0),
         \A u \in open : u # t => g.root[u] = f.root[u],
         \A k \in 1..(n - 1) : g.kids[ss[k]] = Halves(l, ss, c, k),
         \A s \in Splits : m.own[s] # t => g.kids[s] = f.kids[s],
         \A x \in Nodes : m.own[x] # t => g.up[x] = f.up[x],
         \A x \in Nodes : m.own[x] = t =>
           IF x = g.root[t] THEN g.up[x] = None
           ELSE g.up[x] \in Splits /\ m.own[g.up[x]] = t /\ x \in Range(g.kids[g.up[x]])
  PROVE  Numbered(g, open, w)
<1>1. /\ l \in Seq(Panes) /\ n \in Nat /\ n >= 1 /\ t # None /\ t \in Tabs /\ m \in Marks /\ open \subseteq Tabs
      /\ Panes \cap Splits = {} /\ Panes \subseteq Nodes /\ Splits \subseteq Nodes
      /\ \A x \in Nodes : x \notin Panes => x \in Splits
  <2>1. /\ m \in Marks /\ open \subseteq Tabs
        /\ Panes \cap Splits = {} /\ Panes \subseteq Nodes /\ Splits \subseteq Nodes
        /\ \A x \in Nodes : x \notin Panes => x \in Splits
    BY NodesAre DEF Numbered, Nodes
  <2>2. l \in Seq(Panes) /\ n \in Nat /\ n >= 1 /\ t # None /\ t \in Tabs
    BY OrderIs
  <2> QED BY <2>1, <2>2
<1>2. /\ w \in Marks /\ w.own = m.own
      /\ \A x \in Nodes : m.own[x] # t => w.lo[x] = m.lo[x] /\ w.hi[x] = m.hi[x]
      /\ \A s \in Splits : m.own[s] # t => w.cut[s] = m.cut[s]
      /\ \A u \in Tabs : u # t => w.order[u] = m.order[u]
      /\ Len(w.order[t]) = n /\ \A k \in 1..n : w.order[t][k] = l[n + 1 - k]
      /\ Counted(l, ss, n, c, w)
  BY DEF PresetFacts
<1>3. /\ \A i \in 1..n : w.lo[l[i]] = n + 1 - i /\ w.hi[l[i]] = n + 1 - i
      /\ \A k \in 1..(n - 1) : w.cut[ss[k]] = n - k
  BY <1>2 DEF Counted
<1>4. \A k \in 1..(n - 1) : ss[k] \in Splits /\ m.own[ss[k]] = t
  BY DEF SplitList
<1>5. \A i \in 1..n : l[i] \in Panes /\ m.own[l[i]] = t
  <2>1. \A i \in 1..n : l[i] \in Panes
    BY <1>1
  <2>2. \A i \in 1..n : m.own[l[i]] = t
    BY DEF Numbered, PlacesOK
  <2> QED BY <2>1, <2>2
<1>6. \A p \in Panes : m.own[p] = t => \E i \in 1..n : l[i] = p
  <2> SUFFICES ASSUME NEW p \in Panes, m.own[p] = t PROVE \E i \in 1..n : l[i] = p
    OBVIOUS
  <2>1. m.lo[p] \in Nat /\ 1 <= m.lo[p] /\ m.lo[p] <= n /\ l[m.lo[p]] = p
    BY <1>1, PlaceIs
  <2> QED BY <1>1, <2>1
<1>7. \A s \in Splits : m.own[s] = t => \E k \in 1..(n - 1) : ss[k] = s
  BY DEF SplitList
<1>8. \A x \in Nodes : m.own[x] # None /\ m.own[x] # t => m.own[x] \in open /\ m.own[x] \in Tabs
  BY NumberTypes
<1>9. NodesOK(open, w)
  <2> SUFFICES ASSUME NEW x \in Nodes, m.own[x] # None
               PROVE  /\ m.own[x] \in open
                      /\ 1 <= w.lo[x] /\ w.lo[x] <= w.hi[x] /\ w.hi[x] <= Len(w.order[m.own[x]])
    BY <1>2 DEF NodesOK
  <2>1. CASE m.own[x] # t
    BY <1>2, <1>8, <2>1, Zenon DEF Numbered, NodesOK
  <2>2. CASE m.own[x] = t /\ x \in Panes
    <3>1. PICK i \in 1..n : l[i] = x
      BY <1>6, <2>2
    <3>2. w.lo[x] = n + 1 - i /\ w.hi[x] = n + 1 - i
      BY <1>3, <3>1, Zenon
    <3>3. 1 <= w.lo[x] /\ w.lo[x] <= w.hi[x] /\ w.hi[x] <= n
      BY <1>1, <3>2
    <3> QED BY <1>2, <2>2, <3>3
  <2>3. CASE m.own[x] = t /\ x \in Splits
    <3>1. PICK k \in 1..(n - 1) : ss[k] = x
      BY <1>7, <2>3
    <3>2. PICK e : e = RowEnd(n, c, k)
      OBVIOUS
    <3>3. /\ w.lo[x] = IF k % c = 0 THEN 1 ELSE n + 1 - e
          /\ w.hi[x] = IF k % c = 0 THEN n - k + c ELSE n + 1 - k
      BY <1>2, <3>1, <3>2 DEF Counted
    <3>4. k \in Nat /\ 1 <= k /\ k <= n /\ k < n
      BY <1>1
    <3>5. e \in Nat /\ k <= e /\ e <= n
      BY <1>1, <3>2, <3>4, RowEndIs, Zenon
    <3>6. k % c = 0 => k >= c
      BY <3>4, MultipleIs
    <3>7. 1 <= w.lo[x] /\ w.lo[x] <= w.hi[x] /\ w.hi[x] <= n
      BY <1>1, <3>3, <3>4, <3>5, <3>6, SMTT(30)
    <3> QED BY <1>2, <2>3, <3>7
  <2> QED BY <1>1, <2>1, <2>2, <2>3
<1>10. PlacesOK(open, w)
  <2>1. ASSUME NEW p \in Panes, m.own[p] # None
        PROVE  w.lo[p] = w.hi[p] /\ w.order[m.own[p]][w.lo[p]] = p
    <3>1. p \in Nodes
      BY <1>1
    <3>2. CASE m.own[p] # t
      BY <1>2, <1>8, <2>1, <3>1, <3>2 DEF Numbered, PlacesOK
    <3>3. CASE m.own[p] = t
      <4>1. PICK i \in 1..n : l[i] = p
        BY <1>6, <3>3
      <4>2. PICK k : k = n + 1 - i
        OBVIOUS
      <4>3. k \in 1..n /\ n + 1 - k = i
        BY <1>1, <4>2
      <4>4. w.lo[p] = k /\ w.hi[p] = k
        BY <1>3, <4>1, <4>2, Zenon
      <4>5. w.order[t][k] = l[i]
        BY <1>2, <4>3, Zenon
      <4> QED BY <3>3, <4>1, <4>4, <4>5
    <3> QED BY <3>2, <3>3
  <2>2. ASSUME NEW u \in open, NEW k \in 1..Len(w.order[u])
        PROVE  m.own[w.order[u][k]] = u /\ w.lo[w.order[u][k]] = k
    <3>1. CASE u # t
      <4>1. u \in Tabs /\ u # None /\ m.order[u] \in Seq(Panes)
        BY <1>1, OrderIs
      <4>2. PICK x : x = m.order[u][k]
        OBVIOUS
      <4>3. w.order[u] = m.order[u] /\ k \in 1..Len(m.order[u])
        BY <1>2, <3>1, <4>1
      <4>4. x \in Panes /\ m.own[x] = u /\ m.lo[x] = k
        BY <4>1, <4>2, <4>3 DEF Numbered, PlacesOK
      <4> QED BY <1>1, <1>2, <3>1, <4>2, <4>3, <4>4
    <3>2. CASE u = t
      <4>1. PICK i : i = n + 1 - k
        OBVIOUS
      <4>2. k \in 1..n /\ i \in 1..n /\ n + 1 - i = k
        BY <1>1, <1>2, <3>2, <4>1
      <4>3. w.order[t][k] = l[i]
        BY <1>2, <4>1, <4>2
      <4> QED BY <1>3, <1>5, <3>2, <4>2, <4>3, SMTT(30)
    <3> QED BY <3>1, <3>2
  <2> QED BY <1>2, <2>1, <2>2 DEF PlacesOK
<1>11. CutsOK(open, w)
  <2>1. ASSUME NEW s \in Splits, NEW r \in Splits, m.own[s] # None, m.own[s] = m.own[r], w.cut[s] = w.cut[r]
        PROVE  s = r
    <3>1. CASE m.own[s] # t
      BY <1>2, <2>1, <3>1 DEF Numbered, CutsOK
    <3>2. CASE m.own[s] = t
      <4>0. m.own[r] = t
        BY <2>1, <3>2
      <4>1. PICK i, j \in 1..(n - 1) : ss[i] = s /\ ss[j] = r
        BY <1>7, <3>2, <4>0
      <4>2. n - i = n - j
        <5>1. w.cut[ss[i]] = n - i /\ w.cut[ss[j]] = n - j
          BY <1>3
        <5> QED BY <2>1, <4>1, <5>1, Zenon
      <4>3. i = j
        BY <1>1, <4>2
      <4> QED BY <4>1, <4>3
    <3> QED BY <3>1, <3>2
  <2>2. ASSUME NEW u \in open, NEW k \in 1..(Len(w.order[u]) - 1)
        PROVE  \E s \in Splits : m.own[s] = u /\ w.cut[s] = k
    <3>1. CASE u # t
      <4>1. w.order[u] = m.order[u]
        BY <1>1, <1>2, <3>1
      <4>2. PICK s \in Splits : m.own[s] = u /\ m.cut[s] = k
        BY <4>1 DEF Numbered, CutsOK
      <4> QED BY <1>2, <3>1, <4>2
    <3>2. CASE u = t
      <4>1. PICK i : i = n - k
        OBVIOUS
      <4>2. i \in 1..(n - 1) /\ n - i = k
        BY <1>1, <1>2, <3>2, <4>1
      <4> QED BY <1>3, <1>4, <3>2, <4>2, Zenon
    <3> QED BY <3>1, <3>2
  <2> QED BY <1>2, <2>1, <2>2 DEF CutsOK
<1>12. PICK r : r = g.root[t]
  OBVIOUS
<1>13. /\ w.lo[r] = 1 /\ w.hi[r] = n /\ r \in Nodes /\ m.own[r] = t
  <2>1. 0 \in Nat /\ 0 < n /\ 0 % c = 0
    BY <1>1, ModSmall
  <2>2. r = Rows(l, ss, c, 0) /\ Counted(l, ss, n, c, w)
    BY <1>2, <1>12
  <2>3. /\ w.lo[r] = 1 /\ w.hi[r] = n - 0
        /\ (0 + c < n /\ r = ss[0 + c]) \/ r = l[0 + 1] \/ (0 + 1 <= n - 1 /\ r = ss[0 + 1])
    BY <2>1, <2>2, RowsIs
  <2>4. (c \in 1..(n - 1) /\ r = ss[c]) \/ r = l[1] \/ (1 \in 1..(n - 1) /\ r = ss[1])
    BY <1>1, <2>3
  <2>5. r \in Nodes /\ m.own[r] = t
    BY <1>1, <1>4, <1>5, <2>4, SMTT(30)
  <2> QED BY <1>1, <2>3, <2>5
<1>14. ASSUME NEW s \in Splits, m.own[s] = t PROVE Shares(g, w, s)
  <2>1. PICK k \in 1..(n - 1) : ss[k] = s
    BY <1>7, <1>14
  <2>2. PICK a, b : Halves(l, ss, c, k) = <<a, b>> /\ Share(l, ss, n, w, k, a, b)
    BY <1>2, HalvesIs
  <2>3. a = g.kids[s][1] /\ b = g.kids[s][2] /\ Range(g.kids[s]) = {a, b}
    <3>1. g.kids[s] = <<a, b>>
      BY <2>1, <2>2
    <3>2. DOMAIN <<a, b>> = {1, 2}
      OBVIOUS
    <3> QED BY <3>1, <3>2 DEF Range
  <2>4. /\ w.lo[b] = w.lo[s] /\ w.hi[b] = n - k
        /\ w.lo[a] = n - k + 1 /\ w.hi[a] = w.hi[s]
        /\ \E i \in 1..n : a = l[i] \/ (i <= n - 1 /\ a = ss[i])
        /\ \E i \in 1..n : b = l[i] \/ (i <= n - 1 /\ b = ss[i])
    BY <2>1, <2>2, Zenon DEF Share
  <2>5. \A i \in 1..n : i <= n - 1 => i \in 1..(n - 1)
    BY <1>1
  <2>6. a \in Nodes /\ b \in Nodes /\ m.own[a] = t /\ m.own[b] = t
    <3>1. PICK i \in 1..n : a = l[i] \/ (i \in 1..(n - 1) /\ a = ss[i])
      BY <2>4, <2>5
    <3>2. PICK j \in 1..n : b = l[j] \/ (j \in 1..(n - 1) /\ b = ss[j])
      BY <2>4, <2>5, Zenon
    <3> QED BY <1>1, <1>4, <1>5, <3>1, <3>2, SMTT(30)
  <2>7. w.cut[s] = n - k
    BY <1>3, <2>1
  <2>8. a # r /\ b # r
    BY <1>1, <1>13, <2>4, SMTT(30)
  <2>9. ASSUME NEW x \in {a, b} PROVE g.up[x] = s
    <3>1. x \in Nodes /\ m.own[x] = t /\ x # g.root[t]
      BY <1>12, <2>6, <2>8
    <3>2. PICK q : q = g.up[x]
      OBVIOUS
    <3>3. q \in Splits /\ m.own[q] = t /\ x \in Range(g.kids[q])
      BY <3>1, <3>2
    <3>4. PICK j \in 1..(n - 1) : ss[j] = q
      BY <1>7, <3>3
    <3>5. x \in Range(Halves(l, ss, c, j))
      BY <3>3, <3>4
    <3>6. x \in Range(Halves(l, ss, c, k))
      BY <2>1, <2>3, Zenon
    <3>7. Counted(l, ss, n, c, w)
      BY <1>2
    <3>8. k = j
      BY <3>5, <3>6, <3>7, OneParent, SMTT(30)
    <3> QED BY <2>1, <3>2, <3>4, <3>8
  <2>10. g.up[a] = s /\ g.up[b] = s
    BY <2>9
  <2> QED BY <1>1, <1>2, <1>14, <2>3, <2>4, <2>6, <2>7, <2>10 DEF Shares
<1>15. SplitsOK(g, w)
  <2> SUFFICES ASSUME NEW s \in Splits PROVE IF m.own[s] = None THEN g.kids[s] = NoKids ELSE Shares(g, w, s)
    BY <1>2 DEF SplitsOK
  <2>1. CASE m.own[s] = None
    BY <1>1, <2>1 DEF Numbered, SplitsOK
  <2>2. CASE m.own[s] # None /\ m.own[s] # t
    <3>1. PICK a, b : a = f.kids[s][1] /\ b = f.kids[s][2]
      BY Zenon
    <3>2. /\ s \in Nodes /\ a \in Nodes /\ b \in Nodes
          /\ m.own[a] = m.own[s] /\ m.own[b] = m.own[s]
          /\ f.up[a] = s /\ f.up[b] = s
          /\ m.lo[b] = m.lo[s] /\ m.hi[b] = m.cut[s]
          /\ m.lo[a] = m.cut[s] + 1 /\ m.hi[a] = m.hi[s]
      BY <2>2, <3>1, ChildrenAre
    <3>3. g.kids[s] = f.kids[s]
      BY <2>2
    <3>4. /\ g.up[a] = s /\ g.up[b] = s
          /\ w.lo[s] = m.lo[s] /\ w.hi[s] = m.hi[s] /\ w.cut[s] = m.cut[s]
          /\ w.lo[a] = m.lo[a] /\ w.hi[a] = m.hi[a] /\ w.lo[b] = m.lo[b] /\ w.hi[b] = m.hi[b]
      BY <1>2, <2>2, <3>2, SMTT(30)
    <3>5. Shares(g, w, s)
      BY <1>2, <3>1, <3>2, <3>3, <3>4 DEF Shares
    <3> QED BY <2>2, <3>5
  <2>3. CASE m.own[s] = t
    BY <1>1, <1>14, <2>3
  <2> QED BY <2>1, <2>2, <2>3
<1>16. ASSUME NEW x \in Nodes PROVE Hangs(g, w, x)
  <2>1. CASE m.own[x] = None
    BY <1>1, <1>2, <2>1 DEF Numbered, Hangs
  <2>2. CASE m.own[x] # None /\ m.own[x] # t
    <3>1. g.up[x] = f.up[x] /\ g.root[m.own[x]] = f.root[m.own[x]]
      BY <1>8, <2>2
    <3>2. Hangs(f, m, x)
      BY DEF Numbered
    <3>3. CASE x = f.root[m.own[x]]
      BY <1>2, <3>1, <3>2, <3>3 DEF Hangs
    <3>4. CASE x # f.root[m.own[x]]
      <4>1. PICK q : q = f.up[x]
        OBVIOUS
      <4>2. q \in Splits /\ m.own[q] = m.own[x] /\ (x = f.kids[q][1] \/ x = f.kids[q][2])
        BY <2>2, <3>2, <3>4, <4>1 DEF Hangs
      <4>3. g.kids[q] = f.kids[q]
        BY <2>2, <4>2
      <4> QED BY <1>2, <2>2, <3>1, <3>4, <4>1, <4>2, <4>3 DEF Hangs
    <3> QED BY <3>3, <3>4
  <2>3. CASE m.own[x] = t
    <3>1. CASE x = g.root[t]
      BY <1>2, <2>3, <3>1 DEF Hangs
    <3>2. CASE x # g.root[t]
      <4>1. PICK q : q = g.up[x]
        OBVIOUS
      <4>2. q \in Splits /\ m.own[q] = t /\ x \in Range(g.kids[q])
        BY <2>3, <3>2, <4>1
      <4>3. PICK k \in 1..(n - 1) : ss[k] = q
        BY <1>7, <4>2
      <4>4. PICK a, b : <<a, b>> = Halves(l, ss, c, k)
        BY DEF Halves
      <4>5. g.kids[q] = <<a, b>>
        BY <4>3, <4>4
      <4>6. DOMAIN <<a, b>> = {1, 2}
        OBVIOUS
      <4>7. x = g.kids[q][1] \/ x = g.kids[q][2]
        BY <4>2, <4>5, <4>6 DEF Range
      <4> QED BY <1>1, <1>2, <2>3, <3>2, <4>1, <4>2, <4>7 DEF Hangs
    <3> QED BY <3>1, <3>2
  <2> QED BY <2>1, <2>2, <2>3
<1>17. ASSUME NEW u \in open PROVE RootOK(g, w, u)
  <2>1. CASE u = t
    BY <1>2, <1>12, <1>13, <2>1 DEF RootOK
  <2>2. CASE u # t
    <3>1. g.root[u] = f.root[u] /\ w.order[u] = m.order[u]
      BY <1>1, <1>2, <2>2
    <3> QED BY <1>2, <2>2, <3>1 DEF Numbered, RootOK
  <2> QED BY <2>1, <2>2
<1> QED BY <1>1, <1>2, <1>9, <1>10, <1>11, <1>15, <1>16, <1>17 DEF Numbered

LEMMA ColumnsIs ==
  ASSUME NEW n \in Nat, n >= 1
  PROVE  Columns(n) \in Nat /\ Columns(n) >= 1
<1>1. PICK S : S = {c \in Nat : c * c >= n}
  BY Zenon
<1>2. n \in S /\ S \subseteq Nat
  <2>1. n * n >= n
    OBVIOUS
  <2> QED BY <1>1, <2>1
<1>3. PICK c \in S : \A x \in S : c <= x
  BY <1>2, LeastMember, Zenon
<1>4. c \in Nat /\ c * c >= n /\ c <= n
  BY <1>1, <1>2, <1>3
<1>5. c >= 1
  <2>1. CASE c = 0
    <3>1. c * c = 0
      BY <2>1
    <3> QED BY <1>4, <3>1
  <2> QED BY <1>4, <2>1
<1>6. PICK d : d = c - 1
  OBVIOUS
<1>7. d \in Nat /\ d \notin S
  BY <1>3, <1>4, <1>5, <1>6
<1>8. d * d < n
  <2>1. d * d \in Nat
    BY <1>7
  <2> QED BY <1>1, <1>7, <2>1
<1>9. \E x \in 1..n : x * x >= n /\ (x - 1) * (x - 1) < n
  <2>1. c \in 1..n
    BY <1>4, <1>5
  <2>2. c * c >= n /\ (c - 1) * (c - 1) < n
    BY <1>4, <1>6, <1>8
  <2> QED BY <2>1, <2>2
<1>10. Columns(n) \in 1..n
  BY <1>9, Zenon DEF Columns
<1> QED BY <1>10

\* The splits of a window are one fewer than its panes, so they can be listed.
OwnSplits(m, t) == {s \in Splits : m.own[s] = t}

LEMMA SplitsListed ==
  ASSUME NEW f, NEW open, NEW m, Numbered(f, open, m), NEW t \in open
  PROVE  /\ \E q : q \in Bijection(1..(Len(m.order[t]) - 1), OwnSplits(m, t))
         /\ \A q \in Bijection(1..(Len(m.order[t]) - 1), OwnSplits(m, t)) :
              SplitList(m, t, q, Len(m.order[t]))
<1>a. PICK n, S : n = Len(m.order[t]) /\ S = {s \in Splits : m.own[s] = t}
  BY Zenon
<1> USE <1>a
<1>1. n \in Nat /\ n >= 1 /\ t # None /\ Splits \subseteq Nodes
  BY OrderIs DEF Nodes
<1>2. \A s \in S : m.cut[s] \in 1..(n - 1)
  <2> SUFFICES ASSUME NEW s \in S PROVE m.cut[s] \in 1..(n - 1)
    OBVIOUS
  <2>1. s \in Splits /\ m.own[s] = t /\ s \in Nodes /\ m.own[s] # None
    BY <1>1
  <2>2. m.lo[s] <= m.cut[s] /\ m.cut[s] < m.hi[s]
    BY <2>1, ChildrenAre
  <2>3. 1 <= m.lo[s] /\ m.hi[s] <= n /\ m.lo[s] \in Nat /\ m.hi[s] \in Nat /\ m.cut[s] \in Nat
    BY <2>1, NumberTypes
  <2> QED BY <1>1, <2>2, <2>3
<1>3. \A s, r \in S : m.cut[s] = m.cut[r] => s = r
  BY <1>1 DEF Numbered, CutsOK
<1>4. \A k \in 1..(n - 1) : \E s \in S : m.cut[s] = k
  BY DEF Numbered, CutsOK
<1>5. PICK q : q = [k \in 1..(n - 1) |-> CHOOSE s \in S : m.cut[s] = k]
  BY Zenon
<1>6. \A k \in 1..(n - 1) : q[k] \in S /\ m.cut[q[k]] = k
  BY <1>4, <1>5
<1>7. q \in [1..(n - 1) -> S]
  BY <1>5, <1>6, Zenon
<1>8. \A i, j \in 1..(n - 1) : q[i] = q[j] => i = j
  BY <1>6
<1>9. \A s \in S : \E k \in 1..(n - 1) : q[k] = s
  BY <1>2, <1>3, <1>6
<1>10. q \in Bijection(1..(n - 1), S)
  <2>1. IsInjective(q)
    BY <1>7, <1>8 DEF IsInjective
  <2> QED BY <1>7, <1>9, <2>1 DEF Bijection, Injection, Surjection
<1>11. ASSUME NEW p \in Bijection(1..(n - 1), S) PROVE SplitList(m, t, p, n)
  <2>1. p \in [1..(n - 1) -> S] /\ IsInjective(p) /\ \A s \in S : \E k \in 1..(n - 1) : p[k] = s
    BY <1>11 DEF Bijection, Injection, Surjection
  <2>2. \A i, j \in 1..(n - 1) : p[i] = p[j] => i = j
    BY <2>1 DEF IsInjective
  <2> QED BY <2>1, <2>2 DEF SplitList
<1> QED BY <1>10, <1>11, Zenon DEF OwnSplits

LEMMA Rebuilt ==
  ASSUME NEW f \in Trees, NEW t, NEW r, NEW ks, NEW up,
         NEW g, g = [f EXCEPT !.root[t] = r, !.kids = ks, !.up = up]
  PROVE  g = [kids |-> ks, up |-> up, root |-> [f.root EXCEPT ![t] = r], act |-> f.act,
              prev |-> f.prev, cache |-> f.cache]
BY Zenon DEF Trees

\* Window.apply_preset: the panes of a window in rows.
LEMMA ArrangedKeeps ==
  ASSUME NEW f, NEW open, NEW m, Sound(f, open, m), NEW t \in open, NEW tiled
  PROVE  Yields(Arranged(f, t, tiled), open, m.own)
<1> DEFINE l == PaneList(f, t)
           n == Len(l)
           c == IF tiled THEN Columns(n) ELSE 1
           S == SplitsOf(f, t)
           ss == CHOOSE q \in Bijection(1..(n - 1), S) : TRUE
           kids == [s \in S |-> Halves(l, ss, c, CHOOSE k \in 1..(n - 1) : ss[k] = s)]
           r == Rows(l, ss, c, 0)
           parent(x) == IF x = r THEN None ELSE CHOOSE s \in S : x \in Range(kids[s])
           ks == [s \in Splits |-> IF s \in S THEN kids[s] ELSE f.kids[s]]
           up == [x \in Nodes |-> IF x \in Range(l) \cup S THEN parent(x) ELSE f.up[x]]
           at == [s \in S |-> CHOOSE k \in 1..(n - 1) : ss[k] = s]
           g == [kids |-> ks, up |-> up, root |-> [f.root EXCEPT ![t] = r], act |-> f.act,
                 prev |-> f.prev, cache |-> [f.cache EXCEPT ![t] = <<>>]]
<1>1. /\ f \in Trees /\ Numbered(f, open, m) /\ open \subseteq Tabs
      /\ Panes \cap Splits = {} /\ Panes \subseteq Nodes /\ Splits \subseteq Nodes
      /\ \A x \in Nodes : x \notin Panes => x \in Splits
  BY NodesAre DEF Sound, Numbered, Nodes
<1>2. Arranged(f, t, tiled) = Uncached([f EXCEPT !.root[t] = r, !.kids = ks, !.up = up], t)
  BY <1>1 DEF Arranged, Trees
<1>3. [f EXCEPT !.root[t] = r, !.kids = ks, !.up = up]
        = [kids |-> ks, up |-> up, root |-> [f.root EXCEPT ![t] = r], act |-> f.act,
           prev |-> f.prev, cache |-> f.cache]
  <2> HIDE DEF ks, up, r
  <2>1. PICK h : h = [f EXCEPT !.root[t] = r, !.kids = ks, !.up = up]
    OBVIOUS
  <2>2. h = [kids |-> ks, up |-> up, root |-> [f.root EXCEPT ![t] = r], act |-> f.act,
             prev |-> f.prev, cache |-> f.cache]
    BY <1>1, <2>1, Rebuilt, ZenonT(30)
  <2> QED BY <2>1, <2>2, Zenon
<1>4. Arranged(f, t, tiled) = g
  <2> HIDE DEF ks, up, r
  <2> QED BY <1>2, <1>3, Zenon DEF Uncached
<1>5. l = m.order[t]
  BY ListIs
<1>6. /\ l \in Seq(Panes) /\ n \in Nat /\ n >= 1 /\ t \in Tabs /\ t # None
      /\ Range(l) = {p \in Panes : m.own[p] = t}
  BY <1>1, <1>5, OrderIs
<1>7. c \in Nat /\ c >= 1
  BY <1>6, ColumnsIs
<1>8. S = {s \in Splits : m.own[s] = t}
  BY <1>1, SplitsOfIs
<1>9. SplitList(m, t, ss, n)
  <2> HIDE DEF l, S
  <2>1. /\ \E q : q \in Bijection(1..(n - 1), S)
        /\ \A q \in Bijection(1..(n - 1), S) : SplitList(m, t, q, n)
    <3>1. n = Len(m.order[t])
      BY <1>5
    <3>2. S = OwnSplits(m, t)
      BY <1>8 DEF OwnSplits
    <3>3. /\ \E q : q \in Bijection(1..(Len(m.order[t]) - 1), OwnSplits(m, t))
          /\ \A q \in Bijection(1..(Len(m.order[t]) - 1), OwnSplits(m, t)) :
               SplitList(m, t, q, Len(m.order[t]))
      BY <1>1, SplitsListed, Zenon
    <3> HIDE DEF n
    <3> QED BY <3>1, <3>2, <3>3
  <2> QED BY <2>1
<1>10. \A s \in S : at[s] \in 1..(n - 1) /\ ss[at[s]] = s
  <2> HIDE DEF ss, n, S
  <2>1. \A s \in S : \E k \in 1..(n - 1) : ss[k] = s
    BY <1>8, <1>9 DEF SplitList
  <2> QED BY <2>1
<1>11. \A s \in S : ks[s] = Halves(l, ss, c, at[s])
  <2> HIDE DEF ss, n, S, l, c
  <2> QED BY <1>8
<1>12. \A s \in Splits : s \notin S => ks[s] = f.kids[s]
  <2> HIDE DEF kids, S
  <2> QED OBVIOUS
<1>13. \A x \in Nodes : up[x] = IF x \notin Range(l) \cup S THEN f.up[x]
                                ELSE IF x = r THEN None ELSE CHOOSE s \in S : x \in Range(kids[s])
  <2> HIDE DEF kids, S, l, r
  <2> QED OBVIOUS
<1>14. \A s \in S : ks[s] = kids[s]
  <2> HIDE DEF kids, S
  <2> QED BY <1>8
<1>15. DOMAIN up = Nodes /\ DOMAIN ks = Splits /\ up = [x \in Nodes |-> up[x]] /\ ks = [s \in Splits |-> ks[s]]
  <2> HIDE DEF kids, S, l, r
  <2> QED OBVIOUS
<1> HIDE DEF l, n, c, S, ss, kids, r, parent, ks, up, at
<1>16. \A k \in 1..(n - 1) : ss[k] \in S /\ ks[ss[k]] = Halves(l, ss, c, k)
  <2> SUFFICES ASSUME NEW k \in 1..(n - 1) PROVE ss[k] \in S /\ ks[ss[k]] = Halves(l, ss, c, k)
    OBVIOUS
  <2>1. ss[k] \in S
    BY <1>8, <1>9 DEF SplitList
  <2>2. at[ss[k]] = k
    <3>1. at[ss[k]] \in 1..(n - 1) /\ ss[at[ss[k]]] = ss[k]
      BY <1>10, <2>1
    <3> QED BY <1>9, <3>1 DEF SplitList
  <2> QED BY <1>11, <2>1, <2>2
<1>17. PICK w : PresetFacts(m, w, t, l, ss, n, c)
  <2>1. n = Len(l)
    BY DEF n
  <2> QED BY <1>1, <1>5, <1>7, <1>9, <2>1, PresetIs
<1>18. Counted(l, ss, n, c, w)
  BY <1>17 DEF PresetFacts
<1>19. \A i \in 1..n : l[i] \in Panes /\ l[i] \in Nodes /\ m.own[l[i]] = t
  <2>1. n = Len(l)
    BY DEF n
  <2>2. \A i \in 1..n : l[i] \in Panes /\ l[i] \in Range(l)
    BY <1>6, <2>1 DEF Range
  <2> QED BY <1>1, <1>6, <2>2
<1>20. \A i \in 1..n : i <= n - 1 => ss[i] \in Splits /\ ss[i] \in Nodes /\ m.own[ss[i]] = t
  <2>1. \A i \in 1..n : i <= n - 1 => i \in 1..(n - 1)
    BY <1>6
  <2> QED BY <1>1, <1>8, <1>16, <2>1
<1>21. \A k \in 1..(n - 1) : \E a, b \in Nodes : Halves(l, ss, c, k) = <<a, b>>
  <2> SUFFICES ASSUME NEW k \in 1..(n - 1) PROVE \E a, b \in Nodes : Halves(l, ss, c, k) = <<a, b>>
    OBVIOUS
  <2>1. PICK a, b : Halves(l, ss, c, k) = <<a, b>> /\ Share(l, ss, n, w, k, a, b)
    BY <1>18, HalvesIs
  <2>3. /\ \E i \in 1..n : a = l[i] \/ (i <= n - 1 /\ a = ss[i])
        /\ \E i \in 1..n : b = l[i] \/ (i <= n - 1 /\ b = ss[i])
    BY <2>1 DEF Share
  <2> QED BY <1>19, <1>20, <2>1, <2>3
<1>22. r \in Nodes
  <2>1. 0 \in Nat /\ 0 < n /\ 0 % c = 0
    BY <1>6, <1>7, ModSmall
  <2>2. r = Rows(l, ss, c, 0) /\ n = Len(l)
    BY DEF r, n
  <2>3. (0 + c < n /\ r = ss[0 + c]) \/ r = l[0 + 1] \/ (0 + 1 <= n - 1 /\ r = ss[0 + 1])
    BY <1>6, <1>7, <1>18, <2>1, <2>2, RowsIs
  <2>4. (c \in 1..n /\ c <= n - 1 /\ r = ss[c]) \/ r = l[1] \/ (1 <= n - 1 /\ r = ss[1])
    BY <1>6, <1>7, <2>3
  <2> QED BY <1>6, <1>19, <1>20, <2>4
<1>23. \A x \in Nodes : m.own[x] = t =>
         IF x = r THEN up[x] = None
         ELSE up[x] \in Splits /\ m.own[up[x]] = t /\ x \in Range(ks[up[x]])
  <2> SUFFICES ASSUME NEW x \in Nodes, m.own[x] = t
               PROVE  IF x = r THEN up[x] = None
                      ELSE up[x] \in Splits /\ m.own[up[x]] = t /\ x \in Range(ks[up[x]])
    OBVIOUS
  <2>1. x \in Range(l) \cup S
    BY <1>1, <1>6, <1>8
  <2>2. CASE x = r
    BY <1>13, <2>1, <2>2
  <2>3. CASE x # r
    <3>1. \E i \in 1..n : x = l[i] \/ (i <= n - 1 /\ x = ss[i])
      <4>1. n = Len(l)
        BY DEF n
      <4>2. CASE x \in Range(l)
        BY <1>6, <4>1, <4>2 DEF Range
      <4>3. CASE x \in S
        <5>1. PICK k : k = at[x]
          OBVIOUS
        <5>2. k \in 1..(n - 1) /\ ss[k] = x
          BY <1>10, <4>3, <5>1
        <5>3. k \in 1..n /\ k <= n - 1
          BY <1>6, <5>2
        <5> QED BY <5>2, <5>3
      <4> QED BY <2>1, <4>2, <4>3
    <3>2. \E k \in 1..(n - 1) : x \in Range(Halves(l, ss, c, k))
      <4>1. n = Len(l) /\ x # Rows(l, ss, c, 0)
        BY <2>3 DEF n, r
      <4>2. PICK i \in 1..n : x = l[i] \/ (i <= n - 1 /\ x = ss[i])
        BY <3>1
      <4> QED BY <1>6, <1>7, <4>1, <4>2, SomeParent, Zenon
    <3>3. \E s \in S : x \in Range(kids[s])
      <4>1. PICK k \in 1..(n - 1) : x \in Range(Halves(l, ss, c, k))
        BY <3>2
      <4>2. PICK s : s = ss[k]
        OBVIOUS
      <4>3. s \in S /\ kids[s] = Halves(l, ss, c, k)
        BY <1>14, <1>16, <4>2
      <4> QED BY <4>1, <4>3
    <3>4. up[x] = CHOOSE s \in S : x \in Range(kids[s])
      BY <1>13, <2>1, <2>3
    <3>5. PICK q : q = up[x]
      OBVIOUS
    <3>6. q \in S /\ x \in Range(kids[q])
      BY <3>3, <3>4, <3>5
    <3>7. x \in Range(ks[q])
      BY <1>14, <3>6
    <3> QED BY <1>8, <2>3, <3>5, <3>6, <3>7
  <2> QED BY <2>2, <2>3
<1>24. \A x \in Nodes : m.own[x] # t => up[x] = f.up[x]
  BY <1>6, <1>8, <1>13
<1>25. ks \in [Splits -> (Nodes \cup {None}) \X (Nodes \cup {None})]
  <2>1. f.kids \in [Splits -> (Nodes \cup {None}) \X (Nodes \cup {None})]
    BY <1>1, TreeFields
  <2>2. ASSUME NEW s \in Splits PROVE ks[s] \in (Nodes \cup {None}) \X (Nodes \cup {None})
    <3>1. CASE s \in S
      <4>1. PICK k : k = at[s]
        OBVIOUS
      <4>2. k \in 1..(n - 1) /\ ks[s] = Halves(l, ss, c, k)
        BY <1>10, <1>11, <3>1, <4>1
      <4>3. PICK a, b \in Nodes : Halves(l, ss, c, k) = <<a, b>>
        BY <1>21, <4>2
      <4> QED BY <4>2, <4>3
    <3>2. CASE s \notin S
      BY <1>12, <2>1, <3>2
    <3> QED BY <3>1, <3>2
  <2> QED BY <1>15, <2>2
<1>26. up \in [Nodes -> Splits \cup {None}]
  <2>1. f.up \in [Nodes -> Splits \cup {None}]
    BY <1>1, TreeFields
  <2>2. ASSUME NEW x \in Nodes PROVE up[x] \in Splits \cup {None}
    BY <1>23, <1>24, <2>1
  <2> QED BY <1>15, <2>2
<1>27. PICK h : h = g
  BY Zenon
<1>28. h.kids = ks /\ h.up = up /\ h.root = [f.root EXCEPT ![t] = r] /\ h.act = f.act
       /\ h.cache = [f.cache EXCEPT ![t] = <<>>]
  BY <1>27
<1>29. h \in Trees
  <2>1. [f.root EXCEPT ![t] = r] \in [Tabs -> Nodes \cup {None}]
        /\ [f.cache EXCEPT ![t] = <<>>] \in [Tabs -> Seq(Panes)]
    BY <1>1, <1>6, <1>22, TreeFields
  <2>2. f.act \in [Tabs -> Panes \cup {None}] /\ f.prev \in [Tabs -> Panes \cup {None}]
    BY <1>1, TreeFields
  <2> QED BY <1>25, <1>26, <1>27, <2>1, <2>2 DEF Trees
<1>30. h.root[t] = r /\ \A u \in open : u # t => h.root[u] = f.root[u]
  <2>1. f.root \in [Tabs -> Nodes \cup {None}]
    BY <1>1, TreeFields
  <2> QED BY <1>1, <1>6, <1>28, <2>1
<1>31. Numbered(h, open, w)
  <2>1. n = Len(l) /\ h.root[t] = Rows(l, ss, c, 0)
    BY <1>30 DEF n, r
  <2>2. \A s \in Splits : m.own[s] # t => h.kids[s] = f.kids[s]
    BY <1>8, <1>12, <1>28
  <2>3. \A k \in 1..(n - 1) : h.kids[ss[k]] = Halves(l, ss, c, k)
    BY <1>16, <1>28
  <2>4. \A x \in Nodes : m.own[x] # t => h.up[x] = f.up[x]
    BY <1>24, <1>28
  <2>5. \A x \in Nodes : m.own[x] = t =>
          IF x = h.root[t] THEN h.up[x] = None
          ELSE h.up[x] \in Splits /\ m.own[h.up[x]] = t /\ x \in Range(h.kids[h.up[x]])
    BY <1>23, <1>28, <1>30
  <2> QED BY <1>1, <1>5, <1>7, <1>9, <1>17, <1>29, <1>30, <2>1, <2>2, <2>3, <2>4, <2>5, PresetNumbered, SMTT(30)
<1>32. w.own = m.own /\ \A u \in Tabs : u # t => w.order[u] = m.order[u]
  BY <1>17 DEF PresetFacts
<1>33. WindowsOK(h, open, w)
  <2>1. f.cache \in [Tabs -> Seq(Panes)]
    BY <1>1, TreeFields
  <2> QED BY <1>1, <1>6, <1>28, <1>32, <2>1, SMTT(30) DEF Sound, WindowsOK
<1> QED BY <1>4, <1>27, <1>31, <1>32, <1>33 DEF Sound, Yields

-----------------------------------------------------------------------------
(* Where the panes are.                                                    *)

\* A pane that is in a tree has a running shell and is in no popup; one with a
\* running shell that is in no tree is in a popup; no two popups show the same
\* pane; and panes that were not made yet are nowhere.
Placed(own, sh, pop, n) ==
  /\ n \in Nat /\ n <= MaxPane
  /\ sh \subseteq 1..n
  /\ pop \in [Sess -> Panes \cup {None}] /\ \A s \in Sess : pop[s] <= n
  /\ \A p \in Panes : own[p] # None => p \in sh /\ \A s \in Sess : pop[s] # p
  /\ \A p \in sh : own[p] = None => \E s \in Sess : pop[s] = p
  /\ \A s, r \in Sess : pop[s] # None /\ pop[s] = pop[r] => s = r

\* Panes that move between trees, are made in one, or end.
LEMMA PlacedMoves ==
  ASSUME NEW own, NEW sh, NEW pop, NEW n, Placed(own, sh, pop, n),
         NEW to, NEW gone, NEW k \in Nat, n + k <= MaxPane,
         NEW fresh, fresh = (n + 1)..(n + k),
         \A p \in Panes : to[p] # None <=> (own[p] # None /\ p \notin gone) \/ p \in fresh
  PROVE  Placed(to, (sh \ gone) \cup fresh, pop, n + k)
<1>1. n \in Nat /\ MaxPane \in Nat /\ n + k \in Nat /\ sh \subseteq 1..n
  BY WindowTreeAssumption DEF Placed
<1>2. /\ 1..n \subseteq 1..(n + k) /\ fresh \subseteq 1..(n + k)
      /\ \A p \in fresh : p \notin 1..n /\ p > n
      /\ fresh \subseteq Panes /\ 1..n \subseteq Panes
  BY <1>1 DEF Placed, Panes
<1>3. (sh \ gone) \cup fresh \subseteq 1..(n + k)
  BY <1>1, <1>2, Zenon
<1>4. \A s \in Sess : pop[s] <= n + k /\ pop[s] \notin fresh
  <2> SUFFICES ASSUME NEW s \in Sess PROVE pop[s] <= n + k /\ pop[s] \notin fresh
    OBVIOUS
  <2>1. pop[s] \in Panes \cup {None} /\ pop[s] <= n
    BY DEF Placed
  <2>2. pop[s] \in Nat
    BY <2>1 DEF Panes, None
  <2> QED BY <1>1, <1>2, <2>1, <2>2
<1>5. ASSUME NEW p \in Panes, to[p] # None
      PROVE  p \in (sh \ gone) \cup fresh /\ \A s \in Sess : pop[s] # p
  <2>1. CASE p \in fresh
    BY <1>4, <2>1
  <2>2. CASE p \notin fresh
    BY <1>5, <2>2 DEF Placed
  <2> QED BY <2>1, <2>2
<1>6. ASSUME NEW p \in (sh \ gone) \cup fresh, to[p] = None
      PROVE  \E s \in Sess : pop[s] = p
  <2>1. p \in Panes
    BY <1>1, <1>2
  <2>2. p \notin fresh /\ p \in sh /\ p \notin gone
    BY <1>6, <2>1
  <2>3. own[p] = None
    BY <1>6, <2>1, <2>2
  <2> QED BY <2>2, <2>3 DEF Placed
<1> QED BY <1>1, <1>3, <1>4, <1>5, <1>6 DEF Placed

\* A shell that ends in a popup, which goes if its session is there.
LEMMA PopupGoes ==
  ASSUME NEW own, NEW sh, NEW pop, NEW n, Placed(own, sh, pop, n), NEW p,
         NEW x \in Sess, pop[x] = p, p # None, NEW to, DOMAIN to = Sess,
         to = [s \in Sess |-> to[s]],
         \A s \in Sess : to[s] = pop[s] \/ (pop[s] = p /\ to[s] = None)
  PROVE  Placed(own, sh \ {p}, to, n)
<1>1. to \in [Sess -> Panes \cup {None}] /\ \A s \in Sess : to[s] <= n
  <2>1. \A s \in Sess : to[s] \in Panes \cup {None} /\ to[s] <= n
    BY DEF Placed, None
  <2> QED BY <2>1
<1>2. \A q \in Panes : own[q] # None => q \in sh \ {p} /\ \A s \in Sess : to[s] # q
  <2> SUFFICES ASSUME NEW q \in Panes, own[q] # None
               PROVE  q \in sh \ {p} /\ \A s \in Sess : to[s] # q
    OBVIOUS
  <2>1. q \in sh /\ \A s \in Sess : pop[s] # q
    BY DEF Placed
  <2>2. q # None
    BY DEF Panes, None
  <2> QED BY <2>1, <2>2
<1>3. \A q \in sh \ {p} : own[q] = None => \E s \in Sess : to[s] = q
  <2> SUFFICES ASSUME NEW q \in sh \ {p}, own[q] = None PROVE \E s \in Sess : to[s] = q
    OBVIOUS
  <2>1. PICK s \in Sess : pop[s] = q
    BY DEF Placed
  <2> QED BY <2>1
<1>4. \A s, r \in Sess : to[s] # None /\ to[s] = to[r] => s = r
  BY DEF Placed
<1>5. n \in Nat /\ n <= MaxPane /\ sh \ {p} \subseteq 1..n
  BY DEF Placed
<1> QED BY <1>1, <1>2, <1>3, <1>4, <1>5 DEF Placed

\* A popup that opens, over one that may be open and ends.
LEMMA PopupComes ==
  ASSUME NEW own, NEW sh, NEW pop, NEW n, Placed(own, sh, pop, n), n + 1 <= MaxPane,
         NEW x \in Sess
  PROVE  Placed(own, (sh \ {pop[x]}) \cup {n + 1}, [pop EXCEPT ![x] = n + 1], n + 1)
<1>1. n \in Nat /\ MaxPane \in Nat /\ sh \subseteq 1..n /\ pop \in [Sess -> Panes \cup {None}]
  BY WindowTreeAssumption DEF Placed
<1>2. PICK e, to, s2 : e = n + 1 /\ to = [pop EXCEPT ![x] = e] /\ s2 = (sh \ {pop[x]}) \cup {e}
  BY Zenon
<1>3. e \in Panes /\ e \notin 1..n /\ e \in 1..e /\ 1..n \subseteq 1..e /\ e \in Nat /\ e # None
      /\ e <= MaxPane /\ e > n
  BY <1>1, <1>2 DEF Panes, None
<1>4. to[x] = e /\ \A s \in Sess : s # x => to[s] = pop[s]
  BY <1>1, <1>2
<1>5. \A s \in Sess : pop[s] # e /\ pop[s] <= n /\ pop[s] \in Nat
  <2> SUFFICES ASSUME NEW s \in Sess PROVE pop[s] # e /\ pop[s] <= n /\ pop[s] \in Nat
    OBVIOUS
  <2>1. pop[s] \in Nat /\ pop[s] <= n
    BY <1>1 DEF Placed, Panes, None
  <2> QED BY <1>1, <1>3, <2>1
<1>6. to \in [Sess -> Panes \cup {None}]
  BY <1>1, <1>2, <1>3
<1>7. \A s \in Sess : to[s] <= e
  <2> SUFFICES ASSUME NEW s \in Sess PROVE to[s] <= e
    OBVIOUS
  <2>1. CASE s = x
    BY <1>3, <1>4, <2>1
  <2>2. CASE s # x
    <3>1. to[s] = pop[s]
      BY <1>4, <2>2
    <3> QED BY <1>1, <1>3, <1>5, <3>1
  <2> QED BY <2>1, <2>2
<1>8. s2 \subseteq 1..e
  BY <1>1, <1>2, <1>3, Zenon
<1>9. ASSUME NEW p \in Panes, own[p] # None
      PROVE  p \in s2 /\ \A s \in Sess : to[s] # p
  <2>1. p \in sh /\ \A s \in Sess : pop[s] # p
    BY <1>9 DEF Placed
  <2>2. p # e
    BY <1>1, <1>3, <2>1
  <2> QED BY <1>2, <1>4, <2>1, <2>2
<1>10. ASSUME NEW p \in s2, own[p] = None
       PROVE  \E s \in Sess : to[s] = p
  <2>1. CASE p = e
    BY <1>4, <2>1
  <2>2. CASE p # e
    <3>1. p \in sh /\ p # pop[x]
      BY <1>2, <2>2
    <3>2. PICK s \in Sess : pop[s] = p
      BY <1>10, <3>1 DEF Placed
    <3> QED BY <1>4, <3>1, <3>2
  <2> QED BY <2>1, <2>2
<1>11. \A s, r \in Sess : to[s] # None /\ to[s] = to[r] => s = r
  <2> SUFFICES ASSUME NEW s \in Sess, NEW r \in Sess, to[s] # None, to[s] = to[r] PROVE s = r
    OBVIOUS
  <2>1. CASE s = x \/ r = x
    BY <1>4, <1>5, <2>1
  <2>2. CASE s # x /\ r # x
    BY <1>4, <2>2 DEF Placed
  <2> QED BY <2>1, <2>2
<1>12. Placed(own, s2, to, e)
  BY <1>3, <1>6, <1>7, <1>8, <1>9, <1>10, <1>11 DEF Placed
<1> QED BY <1>2, <1>12

\* The inductive invariant: the trees of the open tabs fit a numbering, and the
\* panes are where it says.
TreeOK == \E m : Sound(tree, OpenTabs, m) /\ Placed(m.own, shells, popup, made.pane)

TreeInv == TabsInv /\ TreeOK

LEMMA TreeSettles ==
  ASSUME NEW own, Yields(tree', OpenTabs', own), Placed(own, shells', popup', made'.pane)
  PROVE  TreeOK'
<1>1. PICK w : Sound(tree', OpenTabs', w) /\ \A x \in Panes : w.own[x] = own[x]
  BY DEF Yields
<1>2. Placed(w.own, shells', popup', made'.pane)
  <2>1. shells' \subseteq Panes
    BY WindowTreeAssumption DEF Placed, Panes
  <2> QED BY <1>1, <2>1 DEF Placed
<1> QED BY <1>1, <1>2 DEF TreeOK

-----------------------------------------------------------------------------
(* The open tabs.                                                          *)

\* A session that is not in the dict has no tabs, so the open tabs are those of
\* all sessions.
LEMMA AllTabs ==
  ASSUME NEW ses \in Seq(Sess), NEW of, \A s \in Sess : s \notin Range(ses) => of[s] = <<>>
  PROVE  UNION {Range(of[s]) : s \in Range(ses)} = UNION {Range(of[s]) : s \in Sess}
<1>1. Range(ses) \subseteq Sess
  BY DEF Range
<1>2. Range(<<>>) = {}
  BY DEF Range
<1> QED BY <1>1, <1>2

LEMMA OpenAre ==
  ASSUME TabsInv
  PROVE  OpenTabs = UNION {Range(tabs[s]) : s \in Sess}
<1>1. sessions \in Seq(Sess) /\ \A s \in Sess : s \notin Range(sessions) => tabs[s] = <<>>
  BY DEF TabsInv, TabsOK, SessionOK, RegistryInv, RegistryOK
<1> QED BY <1>1, AllTabs, Zenon DEF OpenTabs

LEMMA OpenAreNext ==
  ASSUME TabsInv'
  PROVE  OpenTabs' = UNION {Range(tabs'[s]) : s \in Sess}
<1>1. sessions' \in Seq(Sess) /\ \A s \in Sess : s \notin Range(sessions') => tabs'[s] = <<>>
  BY DEF TabsInv, TabsOK, SessionOK, RegistryInv, RegistryOK
<1> QED BY <1>1, AllTabs, Zenon DEF OpenTabs

LEMMA OpenStays ==
  ASSUME TabsInv, TabsInv', UNCHANGED tabs
  PROVE  OpenTabs' = OpenTabs
BY OpenAre, OpenAreNext, Zenon

\* A step that changes the tabs of one session.
LEMMA OpenTurns ==
  ASSUME TabsInv, TabsInv', NEW s \in Sess, NEW q, tabs' = [tabs EXCEPT ![s] = q]
  PROVE  OpenTabs' = (OpenTabs \ Range(tabs[s])) \cup Range(q)
<1>1. /\ tabs \in [Sess -> Seq(Tabs)]
      /\ \A r, p \in Sess : r # p => Range(tabs[r]) \cap Range(tabs[p]) = {}
  BY DEF TabsInv, TabsOK
<1>2. tabs'[s] = q /\ \A r \in Sess : r # s => tabs'[r] = tabs[r]
  BY <1>1
<1>3. \A t : t \in OpenTabs' <=> \E r \in Sess : t \in Range(tabs'[r])
  BY OpenAreNext
<1>4. \A t : t \in OpenTabs <=> \E r \in Sess : t \in Range(tabs[r])
  BY OpenAre
<1>5. \A t : t \in OpenTabs' => t \in (OpenTabs \ Range(tabs[s])) \cup Range(q)
  BY <1>1, <1>2, <1>3, <1>4
<1>6. \A t : t \in (OpenTabs \ Range(tabs[s])) \cup Range(q) => t \in OpenTabs'
  BY <1>1, <1>2, <1>3, <1>4
<1> QED BY <1>5, <1>6

\* What a command on a session finds.
LEMMA OpenOfSession ==
  ASSUME TabsInv, NEW s \in Range(sessions)
  PROVE  /\ s \in Sess /\ tabs[s] \in Seq(Tabs) /\ IsInjective(tabs[s])
         /\ Range(tabs[s]) \subseteq OpenTabs
         /\ ActiveTab(s) \in Range(tabs[s]) /\ ActiveTab(s) \in OpenTabs
         /\ OpenTabs \subseteq Tabs
<1>1. /\ s \in Sess /\ tabs[s] \in Seq(Tabs) /\ IsInjective(tabs[s])
      /\ ActiveTab(s) \in Range(tabs[s])
  BY TabsOfSession
<1>2. Range(tabs[s]) \subseteq OpenTabs
  BY DEF OpenTabs
<1>3. OpenTabs \subseteq Tabs
  <2>1. tabs \in [Sess -> Seq(Tabs)]
    BY DEF TabsInv, TabsOK
  <2>2. \A r \in Sess : Range(tabs[r]) \subseteq Tabs
    BY <2>1 DEF Range
  <2> QED BY <2>2, OpenAre
<1> QED BY <1>1, <1>2, <1>3

\* The numbers of the tabs that a step makes are new.
LEMMA NewAreClosed ==
  ASSUME TabsInv
  PROVE  /\ made.tab \in Nat /\ made.pane \in Nat /\ made.sess \in Nat
         /\ \A t \in OpenTabs : t \in 1..made.tab
<1>1. made.tab \in Nat /\ made.pane \in Nat /\ made.sess \in Nat
  BY DEF TabsInv, RegistryInv, RegistryOK, Counts
<1>2. \A s \in Sess : Range(tabs[s]) \subseteq 1..made.tab
  BY DEF TabsInv, TabsOK, SessionOK
<1> QED BY <1>1, <1>2, OpenAre

\* What the trees and the panes of the open tabs are.
LEMMA TreeIs ==
  ASSUME NEW m, Sound(tree, OpenTabs, m), Placed(m.own, shells, popup, made.pane)
  PROVE  /\ Numbered(tree, OpenTabs, m)
         /\ m.own \in [Nodes -> Tabs \cup {None}] /\ Panes \subseteq Nodes
         /\ \A t \in OpenTabs :
              /\ t # None /\ t \in Tabs
              /\ tree.act[t] \in Panes /\ m.own[tree.act[t]] = t
              /\ PaneList(tree, t) = m.order[t]
              /\ Range(PaneList(tree, t)) = {p \in Panes : m.own[p] = t}
         /\ \A p \in Panes : m.own[p] # None => m.own[p] \in OpenTabs
         /\ \A p \in Panes : p > made.pane => m.own[p] = None
<1>1. /\ Numbered(tree, OpenTabs, m) /\ m.own \in [Nodes -> Tabs \cup {None}]
      /\ Panes \subseteq Nodes
      /\ \A p \in Panes : m.own[p] # None => m.own[p] \in OpenTabs
  BY DEF Sound, Numbered, Marks, Nodes, NodesOK
<1>2. ASSUME NEW t \in OpenTabs
      PROVE  /\ t # None /\ t \in Tabs
             /\ tree.act[t] \in Panes /\ m.own[tree.act[t]] = t
             /\ PaneList(tree, t) = m.order[t]
             /\ Range(PaneList(tree, t)) = {p \in Panes : m.own[p] = t}
  <2>1. PaneList(tree, t) = m.order[t]
    BY ListIs
  <2>2. /\ t \in Tabs /\ t # None
        /\ Range(m.order[t]) = {p \in Panes : m.own[p] = t}
    BY <1>1, OrderIs
  <2> QED BY <2>1, <2>2 DEF Sound, WindowsOK
<1>3. ASSUME NEW p \in Panes, p > made.pane PROVE m.own[p] = None
  <2>1. shells \subseteq 1..made.pane /\ made.pane \in Nat
    BY DEF Placed
  <2>2. p \notin shells
    BY <1>3, <2>1 DEF Panes
  <2> QED BY <2>2 DEF Placed
<1> QED BY <1>1, <1>2, <1>3

\* The pane of a window that has only one.
LEMMA OnlyPane ==
  ASSUME NEW f, NEW open, NEW m, Numbered(f, open, m), NEW p \in Panes, m.own[p] # None,
         f.up[p] = None
  PROVE  \A q \in Panes : m.own[q] = m.own[p] => q = p
<1> SUFFICES ASSUME NEW q \in Panes, m.own[q] = m.own[p] PROVE q = p
  OBVIOUS
<1>1. PICK t : t = m.own[p]
  OBVIOUS
<1>2. /\ p \in Nodes /\ t \in open /\ t \in Tabs /\ m.lo[p] \in Nat /\ m.hi[p] = m.lo[p]
      /\ 1 <= m.lo[p] /\ m.lo[p] <= Len(m.order[t]) /\ m.order[t][m.lo[p]] = p
  BY <1>1, PlaceIs
<1>3. /\ m.lo[q] \in Nat /\ 1 <= m.lo[q] /\ m.lo[q] <= Len(m.order[t])
      /\ m.order[t][m.lo[q]] = q
  BY <1>1, PlaceIs
<1>4. p = f.root[t]
  <2>1. Hangs(f, m, p)
    BY <1>2 DEF Numbered
  <2>2. None \notin Splits
    BY WindowTreeAssumption DEF None, Splits
  <2> QED BY <1>1, <2>1, <2>2 DEF Hangs
<1>5. m.lo[p] = 1 /\ m.hi[p] = Len(m.order[t])
  BY <1>2, <1>4 DEF Numbered, RootOK
<1>6. m.lo[q] = m.lo[p]
  BY <1>2, <1>3, <1>5
<1> QED BY <1>2, <1>3, <1>6

\* One tab that leaves its session.
LEMMA TabTaken ==
  ASSUME TabsInv, TabsInv', NEW s \in Range(sessions), NEW t \in Range(tabs[s]),
         tabs' = [tabs EXCEPT ![s] = Without(tabs[s], t)]
  PROVE  OpenTabs' = OpenTabs \ {t}
<1>1. PICK q : q = Without(tabs[s], t)
  OBVIOUS
<1>2. s \in Sess /\ tabs[s] \in Seq(Tabs) /\ IsInjective(tabs[s]) /\ Range(tabs[s]) \subseteq OpenTabs
  BY OpenOfSession
<1>3. Range(q) = Range(tabs[s]) \ {t}
  BY <1>1, <1>2, WithoutKeepsOthers
<1>4. OpenTabs' = (OpenTabs \ Range(tabs[s])) \cup Range(q)
  BY <1>1, <1>2, OpenTurns, Zenon
<1> QED BY <1>2, <1>3, <1>4

\* One tab that joins a session.
LEMMA TabAdded ==
  ASSUME TabsInv, TabsInv', NEW s \in Sess, NEW q, NEW t,
         tabs' = [tabs EXCEPT ![s] = q], Range(q) = Range(tabs[s]) \cup {t}, Range(tabs[s]) \subseteq OpenTabs
  PROVE  OpenTabs' = OpenTabs \cup {t}
<1>1. OpenTabs' = (OpenTabs \ Range(tabs[s])) \cup Range(q)
  BY OpenTurns, Zenon
<1> QED BY <1>1
-----------------------------------------------------------------------------
(* Each command keeps the trees.                                           *)

\* A step after which the panes are in the trees as own says, gone without
\* those that ended and with the new ones.
LEMMA MovesKeep ==
  ASSUME NEW m, Placed(m.own, shells, popup, made.pane), NEW to, NEW gone, NEW k \in Nat,
         made.pane + k <= MaxPane,
         \A p \in Panes : to[p] # None <=> (m.own[p] # None /\ p \notin gone) \/ p \in NewPanes(k),
         shells' = (shells \ gone) \cup NewPanes(k), UNCHANGED popup,
         made'.pane = made.pane + k, Yields(tree', OpenTabs', to)
  PROVE  TreeOK'
<1>1. PICK own, sh, pop, n, fresh :
        own = m.own /\ sh = shells /\ pop = popup /\ n = made.pane /\ fresh = NewPanes(k)
  OBVIOUS
<1>2. fresh = (n + 1)..(n + k)
  BY <1>1 DEF NewPanes
<1>3. Placed(own, sh, pop, n)
  BY <1>1
<1>4. \A p \in Panes : to[p] # None <=> (own[p] # None /\ p \notin gone) \/ p \in fresh
  BY <1>1
<1>5. n + k <= MaxPane
  BY <1>1
<1>6. Placed(to, (sh \ gone) \cup fresh, pop, n + k)
  BY <1>2, <1>3, <1>4, <1>5, PlacedMoves, Zenon
<1>7. Placed(to, shells', popup', made'.pane)
  BY <1>1, <1>6
<1> QED BY <1>7, TreeSettles

\* Nothing is made.
LEMMA NoNewPanes ==
  ASSUME TabsInv
  PROVE  NewPanes(0) = {} /\ made.pane + 0 = made.pane
<1>1. made.pane \in Nat
  BY NewAreClosed
<1> QED BY <1>1 DEF NewPanes

LEMMA OneNewPane ==
  ASSUME TabsInv, made.pane + 1 <= MaxPane
  PROVE  made.pane + 1 \in Panes /\ NewPanes(1) = {made.pane + 1}
<1>1. made.pane \in Nat /\ MaxPane \in Nat
  BY NewAreClosed, WindowTreeAssumption
<1> QED BY <1>1 DEF NewPanes, Panes

\* A step that only rearranges the panes of the windows.
LEMMA RearrangeKeeps ==
  ASSUME TabsInv, TabsInv', NEW m, Sound(tree, OpenTabs, m),
         Placed(m.own, shells, popup, made.pane),
         Yields(tree', OpenTabs, m.own), UNCHANGED <<tabs, shells, popup, made>>
  PROVE  TreeOK'
<1>1. OpenTabs' = OpenTabs
  BY OpenStays
<1> QED BY <1>1, TreeSettles

\* A step that leaves panes and trees alone, and the set of open tabs.
LEMMA AloneKeeps ==
  ASSUME TreeOK, UNCHANGED <<tree, shells, popup>>, made'.pane = made.pane,
         OpenTabs' = OpenTabs
  PROVE  TreeOK'
BY DEF TreeOK

LEMMA SplitPaneTree ==
  ASSUME TreeInv, TabsInv', NEW s \in Sess, SplitPane(s)
  PROVE  TreeOK'
<1>1. TabsInv /\ s \in Range(sessions)
  BY CommandsIn DEF TreeInv, TabsInv, SplitPane
<1>2. PICK m : Sound(tree, OpenTabs, m) /\ Placed(m.own, shells, popup, made.pane)
  BY DEF TreeInv, TreeOK
<1>3. PICK t, a, p : t = ActiveTab(s) /\ a = tree.act[t] /\ p = made.pane + 1
  OBVIOUS
<1>4. t \in OpenTabs /\ a \in Panes /\ m.own[a] = t /\ t # None
  BY <1>1, <1>2, <1>3, OpenOfSession, TreeIs
<1>5. made.pane + 1 <= MaxPane
  BY DEF SplitPane, CanMake
<1>6. p \in Panes /\ NewPanes(1) = {p} /\ p > made.pane /\ made.pane \in Nat
  BY <1>1, <1>3, <1>5, OneNewPane, NewAreClosed
<1>7. m.own[p] = None /\ m.own \in [Nodes -> Tabs \cup {None}] /\ Panes \subseteq Nodes
  BY <1>2, <1>6, TreeIs
<1>8. tree' = Beside(tree, t, a, p)
  BY <1>3 DEF SplitPane
<1>9. PICK to : to = [m.own EXCEPT ![p] = t]
  BY Zenon
<1>10. Yields(tree', OpenTabs, to)
  BY <1>2, <1>4, <1>6, <1>7, <1>8, <1>9, BesideKeeps
<1>11. OpenTabs' = OpenTabs
  <2>1. UNCHANGED tabs
    BY DEF SplitPane, sessVars
  <2> QED BY <1>1, <2>1, OpenStays
<1>12. \A q \in Panes : to[q] # None <=> (m.own[q] # None /\ q \notin {}) \/ q \in NewPanes(1)
  BY <1>4, <1>6, <1>7, <1>9
<1>13. shells' = (shells \ {}) \cup NewPanes(1) /\ made'.pane = made.pane + 1 /\ UNCHANGED popup
  BY DEF SplitPane, Made, sessVars
<1> QED BY <1>2, <1>5, <1>10, <1>11, <1>12, <1>13, MovesKeep

\* Tabs that go with all their panes.
LEMMA ForgottenTree ==
  ASSUME TabsInv, TabsInv', NEW m, Sound(tree, OpenTabs, m),
         Placed(m.own, shells, popup, made.pane),
         NEW ts \in SUBSET OpenTabs, tree' = Forget(tree, ts), OpenTabs' = OpenTabs \ ts,
         shells' = shells \ {p \in Panes : m.own[p] \in ts}, UNCHANGED <<popup, made>>
  PROVE  TreeOK'
<1>1. PICK to : to = [n \in Nodes |-> IF m.own[n] \in ts THEN None ELSE m.own[n]]
  BY Zenon
<1>2. Yields(tree', OpenTabs', to)
  BY <1>1, ForgetKeeps
<1>3. PICK gone : gone = {p \in Panes : m.own[p] \in ts}
  BY Zenon
<1>4. \A p \in Panes : to[p] # None <=> (m.own[p] # None /\ p \notin gone) \/ p \in NewPanes(0)
  <2>1. Panes \subseteq Nodes /\ NewPanes(0) = {}
    BY NoNewPanes, TreeIs
  <2>2. \A t \in ts : t # None
    BY TreeIs
  <2> QED BY <1>1, <1>3, <2>1, <2>2
<1>5. shells' = (shells \ gone) \cup NewPanes(0) /\ made'.pane = made.pane + 0
      /\ made.pane + 0 <= MaxPane
  <2>1. NewPanes(0) = {} /\ made.pane + 0 = made.pane
    BY NoNewPanes
  <2> QED BY <1>3, <2>1 DEF Placed
<1> QED BY <1>2, <1>4, <1>5, MovesKeep

\* The windows that list a pane.
LEMMA HomesAre ==
  ASSUME NEW m, Sound(tree, OpenTabs, m), Placed(m.own, shells, popup, made.pane),
         NEW p \in Panes
  PROVE  HomesOf(p) = IF m.own[p] = None THEN {} ELSE {m.own[p]}
<1>1. \A t \in OpenTabs : p \in Range(PaneList(tree, t)) <=> m.own[p] = t
  BY TreeIs
<1>2. \A t \in OpenTabs : t # None
  BY TreeIs
<1>3. m.own[p] # None => m.own[p] \in OpenTabs
  BY TreeIs
<1> QED BY <1>1, <1>2, <1>3 DEF HomesOf

LEMMA LeavesPopupTree ==
  ASSUME TreeInv, TabsInv', NEW p \in Panes, LeavesPopup(p), PopupsWith(p) # {},
         shells' = shells \ {p}, UNCHANGED made
  PROVE  TreeOK'
<1>1. TabsInv
  BY DEF TreeInv
<1>2. PICK m : Sound(tree, OpenTabs, m) /\ Placed(m.own, shells, popup, made.pane)
  BY DEF TreeInv, TreeOK
<1>3. PICK x \in Sess : popup[x] = p
  <2>1. PICK x \in Range(sessions) : popup[x] = p
    BY DEF PopupsWith
  <2>2. x \in Sess
    BY <1>1, TabsOfSession
  <2> QED BY <2>1, <2>2
<1>4. PICK own, sh, pop, n, to :
        own = m.own /\ sh = shells /\ pop = popup /\ n = made.pane /\ to = popup'
  OBVIOUS
<1>5. Placed(own, sh, pop, n) /\ pop[x] = p
  BY <1>2, <1>3, <1>4
<1>6. to = [s \in Sess |-> IF s \in PopupsWith(p) THEN None ELSE pop[s]]
  BY <1>4 DEF LeavesPopup
<1>7. /\ DOMAIN to = Sess /\ to = [s \in Sess |-> to[s]]
      /\ \A s \in Sess : to[s] = pop[s] \/ (pop[s] = p /\ to[s] = None)
  BY <1>4, <1>6 DEF PopupsWith
<1>8. p # None
  BY DEF Panes, None
<1>9. Placed(own, sh \ {p}, to, n)
  BY <1>5, <1>7, <1>8, PopupGoes
<1>10. Placed(m.own, shells', popup', made'.pane)
  BY <1>4, <1>9
<1>11. OpenTabs' = OpenTabs /\ tree' = tree
  BY <1>1, OpenStays DEF LeavesPopup
<1> QED BY <1>2, <1>10, <1>11 DEF TreeOK

LEMMA LeavesWindowTree ==
  ASSUME TreeInv, TabsInv', NEW p \in Panes, LeavesWindow(p),
         shells' = shells \ {p}, UNCHANGED made
  PROVE  TreeOK'
<1>1. TabsInv
  BY DEF TreeInv
<1>2. PICK m : Sound(tree, OpenTabs, m) /\ Placed(m.own, shells, popup, made.pane)
  BY DEF TreeInv, TreeOK
<1>3. PICK t \in HomesOf(p) : tree.up[p] # None /\ tree' = Detach(tree, t, p)
  BY DEF LeavesWindow
<1>4. m.own[p] = t /\ t \in OpenTabs
  BY <1>2, <1>3, HomesAre DEF HomesOf
<1>5. PICK to : to = [m.own EXCEPT ![p] = None]
  BY Zenon
<1>6. Yields(tree', OpenTabs, to)
  BY <1>2, <1>3, <1>4, <1>5, DetachKeeps
<1>7. OpenTabs' = OpenTabs /\ UNCHANGED popup
  <2>1. UNCHANGED <<tabs, popup>>
    BY DEF LeavesWindow, sessVars
  <2> QED BY <1>1, <2>1, OpenStays
<1>8. NewPanes(0) = {} /\ made.pane + 0 = made.pane /\ made.pane + 0 <= MaxPane
  <2>1. NewPanes(0) = {} /\ made.pane + 0 = made.pane
    BY <1>1, NoNewPanes
  <2> QED BY <1>2, <2>1 DEF Placed
<1>9. \A q \in Panes : to[q] # None <=> (m.own[q] # None /\ q \notin {p}) \/ q \in NewPanes(0)
  <2>1. m.own \in [Nodes -> Tabs \cup {None}] /\ Panes \subseteq Nodes
    BY <1>2, TreeIs
  <2> QED BY <1>5, <1>8, <2>1
<1>10. shells' = (shells \ {p}) \cup NewPanes(0) /\ made'.pane = made.pane + 0
  BY <1>8
<1>11. Yields(tree', OpenTabs', to)
  BY <1>6, <1>7
<1>12. PICK gone : gone = {p}
  BY Zenon
<1>13. \A q \in Panes : to[q] # None <=> (m.own[q] # None /\ q \notin gone) \/ q \in NewPanes(0)
  BY <1>9, <1>12
<1>14. shells' = (shells \ gone) \cup NewPanes(0)
  BY <1>10, <1>12
<1>15. Placed(m.own, shells, popup, made.pane) /\ UNCHANGED popup /\ 0 \in Nat
  BY <1>2, <1>7
<1>16. made.pane + 0 <= MaxPane /\ made'.pane = made.pane + 0
  BY <1>8, <1>10
<1> QED BY <1>11, <1>13, <1>14, <1>15, <1>16, MovesKeep

LEMMA LeavesTabTree ==
  ASSUME TreeInv, TabsInv', NEW p \in Panes, LeavesTab(p),
         shells' = shells \ {p}, UNCHANGED made
  PROVE  TreeOK'
<1>1. TabsInv
  BY DEF TreeInv
<1>2. PICK m : Sound(tree, OpenTabs, m) /\ Placed(m.own, shells, popup, made.pane)
  BY DEF TreeInv, TreeOK
<1>3. PICK t \in HomesOf(p) :
        /\ tree.up[p] = None /\ tree' = Forget(tree, {t})
        /\ SetTabs(SessionOf(t), Without(tabs[SessionOf(t)], t), active[SessionOf(t)])
  BY Zenon DEF LeavesTab
<1>4. m.own[p] = t /\ t \in OpenTabs /\ m.own[p] # None
  BY <1>2, <1>3, HomesAre DEF HomesOf
<1>5. PICK s : s = SessionOf(t)
  OBVIOUS
<1>6. s \in Range(sessions) /\ t \in Range(tabs[s])
  <2>1. \E r \in Range(sessions) : t \in Range(tabs[r])
    BY <1>4 DEF OpenTabs
  <2> QED BY <1>5, <2>1 DEF SessionOf
<1>7. OpenTabs' = OpenTabs \ {t}
  BY <1>1, <1>3, <1>5, <1>6, TabTaken, Zenon DEF SetTabs
<1>8. {q \in Panes : m.own[q] \in {t}} = {p}
  <2>1. Numbered(tree, OpenTabs, m)
    BY <1>2 DEF Sound
  <2>2. \A q \in Panes : m.own[q] = m.own[p] => q = p
    BY <1>3, <1>4, <2>1, OnlyPane
  <2> QED BY <1>4, <2>2
<1>9. UNCHANGED popup /\ {t} \in SUBSET OpenTabs
  BY <1>4 DEF LeavesTab
<1>10. PICK ts : ts = {t}
  BY Zenon
<1> QED BY <1>1, <1>2, <1>3, <1>7, <1>8, <1>9, <1>10, ForgottenTree

LEMMA PaneEofTree ==
  ASSUME TreeInv, TabsInv', NEW p \in Panes, PaneEof(p)
  PROVE  TreeOK'
<1>1. shells' = shells \ {p} /\ UNCHANGED made
  BY DEF PaneEof
<1>2. CASE PopupsWith(p) # {}
  BY <1>1, <1>2, LeavesPopupTree DEF PaneEof
<1>3. CASE LeavesWindow(p)
  BY <1>1, <1>3, LeavesWindowTree
<1>4. CASE LeavesTab(p)
  BY <1>1, <1>4, LeavesTabTree
<1>5. CASE HomesOf(p) = {} /\ UNCHANGED <<running, sessVars, pinned, tree, views>>
  <2>1. TabsInv
    BY DEF TreeInv
  <2>2. PICK m : Sound(tree, OpenTabs, m) /\ Placed(m.own, shells, popup, made.pane)
    BY DEF TreeInv, TreeOK
  <2>3. m.own[p] = None
    BY <1>5, <2>2, HomesAre
  <2>4. OpenTabs' = OpenTabs /\ UNCHANGED <<popup, tree>>
    <3>1. UNCHANGED <<tabs, popup, tree>>
      BY <1>5 DEF sessVars
    <3> QED BY <2>1, <3>1, OpenStays
  <2>5. Yields(tree', OpenTabs', m.own)
    BY <2>2, <2>4 DEF Yields
  <2>6. NewPanes(0) = {} /\ made.pane + 0 = made.pane /\ made.pane + 0 <= MaxPane
    <3>1. NewPanes(0) = {} /\ made.pane + 0 = made.pane
      BY <2>1, NoNewPanes
    <3> QED BY <2>2, <3>1 DEF Placed
  <2>7. \A q \in Panes : m.own[q] # None <=> (m.own[q] # None /\ q \notin {p}) \/ q \in NewPanes(0)
    BY <2>3, <2>6
  <2>8. shells' = (shells \ {p}) \cup NewPanes(0) /\ made'.pane = made.pane + 0
    BY <1>1, <2>6
  <2>9. PICK to : to = m.own
    OBVIOUS
  <2> QED BY <2>2, <2>4, <2>5, <2>6, <2>7, <2>8, <2>9, MovesKeep, Zenon
<1> QED BY <1>2, <1>3, <1>4, <1>5 DEF PaneEof

LEMMA MaxOfFew ==
  /\ Max({1}) = 1 /\ Max({2}) = 2 /\ Max({1, 2}) = 2
  /\ {1} \ {1} = {} /\ {2} \ {2} = {} /\ {1, 2} \ {2} = {1}
  /\ {1} # {} /\ {2} # {} /\ {1, 2} # {} /\ {1} # {2} /\ {1, 2} # {1} /\ {1, 2} # {2}
<1>1. Max({1}) = 1 /\ Max({2}) = 2
  BY DEF Max
<1>2. Max({1, 2}) = 2
  <2>1. \E x \in {1, 2} : \A y \in {1, 2} : x >= y
    OBVIOUS
  <2>2. Max({1, 2}) \in {1, 2} /\ \A y \in {1, 2} : Max({1, 2}) >= y
    BY <2>1 DEF Max
  <2> QED BY <2>2
<1> QED BY <1>1, <1>2

LEMMA FewAre ==
  ASSUME NEW a, NEW b, NEW ts
  PROVE  /\ ts = <<a>> => DOMAIN ts = {1} /\ ts[1] = a /\ ts # <<a, b>>
         /\ ts = <<a, b>> => DOMAIN ts = {1, 2} /\ ts[1] = a /\ ts[2] = b /\ ts # <<a>>
OBVIOUS

\* The windows of the one or two tabs of a session that is opened.
LEMMA SinglesAre ==
  ASSUME NEW ts, NEW a, NEW b, ts = <<a>> \/ ts = <<a, b>>, OpenSession(ts), NEW v, v = tree'
  PROVE  v = IF ts = <<a>> THEN Single(tree, a, made.pane + a - made.tab)
             ELSE Single(Single(tree, a, made.pane + a - made.tab), b, made.pane + b - made.tab)
<1> DEFINE Put(f, t) == Single(f, t, made.pane + t - made.tab)
           Fits(g) == g = [s \in SUBSET (DOMAIN ts) |->
                        IF s = {} THEN tree ELSE Put(g[s \ {Max(s)}], ts[Max(s)])]
           it == CHOOSE g : Fits(g)
<1>1. /\ Max({1}) = 1 /\ Max({2}) = 2 /\ Max({1, 2}) = 2
      /\ {1} \ {1} = {} /\ {2} \ {2} = {} /\ {1, 2} \ {2} = {1}
      /\ {1} # {} /\ {2} # {} /\ {1, 2} # {} /\ {1} # {2} /\ {1, 2} # {1} /\ {1, 2} # {2}
  BY MaxOfFew
<1>2. /\ ts = <<a>> => DOMAIN ts = {1} /\ ts[1] = a
      /\ ts = <<a, b>> => DOMAIN ts = {1, 2} /\ ts[1] = a /\ ts[2] = b
  BY FewAre
<1>3. v = it[DOMAIN ts]
  <2>1. v = FoldLeft(LAMBDA f, t : Single(f, t, made.pane + t - made.tab), tree, ts)
    BY Zenon DEF OpenSession
  <2> QED BY <2>1, Zenon DEF FoldLeft, MapThenFoldSet
<1> HIDE DEF Put
<1>4. CASE ts = <<a>>
  <2> DEFINE g == [s \in SUBSET {1} |-> IF s = {} THEN tree ELSE Put(tree, a)]
  <2>1. Fits(g)
    <3>1. \A s \in SUBSET {1} : s = {} \/ s = {1}
      BY Zenon
    <3>2. g[{}] = tree
      OBVIOUS
    <3>3. \A s \in SUBSET {1} :
            g[s] = IF s = {} THEN tree ELSE Put(g[s \ {Max(s)}], ts[Max(s)])
      <4> SUFFICES ASSUME NEW s \in SUBSET {1}
                   PROVE  g[s] = IF s = {} THEN tree ELSE Put(g[s \ {Max(s)}], ts[Max(s)])
        BY Zenon
      <4>1. CASE s = {}
        BY <3>2, <4>1
      <4>2. CASE s = {1}
        <5>1. g[s] = Put(tree, a)
          BY <1>1, <4>2
        <5>2. s # {} /\ s \ {Max(s)} = {} /\ ts[Max(s)] = a
          BY <1>1, <1>2, <1>4, <4>2
        <5> HIDE DEF g
        <5> QED BY <3>2, <5>1, <5>2, Zenon
      <4> QED BY <3>1, <4>1, <4>2
    <3>4. g = [s \in SUBSET {1} |-> g[s]]
      OBVIOUS
    <3> HIDE DEF g
    <3>5. g = [s \in SUBSET {1} |-> IF s = {} THEN tree ELSE Put(g[s \ {Max(s)}], ts[Max(s)])]
      BY <3>3, <3>4, Zenon
    <3>6. DOMAIN ts = {1}
      BY <1>2, <1>4
    <3> QED BY <3>5, <3>6, Zenon
  <2> HIDE DEF g, Fits
  <2>2. Fits(it)
    BY <2>1, Zenon DEF it
  <2> HIDE DEF it
  <2>3. it = [s \in SUBSET {1} |-> IF s = {} THEN tree ELSE Put(it[s \ {Max(s)}], ts[Max(s)])]
    <3>1. DOMAIN ts = {1}
      BY <1>2, <1>4
    <3> QED BY <2>2, <3>1, Zenon DEF Fits
  <2>4. it[{}] = tree
    BY <2>3
  <2>5. it[{1}] = Put(it[{1} \ {Max({1})}], ts[Max({1})])
    BY <1>1, <2>3, Zenon
  <2>6. it[{1}] = Put(tree, a)
    BY <1>1, <1>2, <1>4, <2>4, <2>5
  <2> QED BY <1>2, <1>3, <1>4, <2>6 DEF Put
<1>5. CASE ts = <<a, b>>
  <2> DEFINE g == [s \in SUBSET {1, 2} |->
                     IF s = {} THEN tree ELSE IF s = {1} THEN Put(tree, a)
                     ELSE IF s = {2} THEN Put(tree, b) ELSE Put(Put(tree, a), b)]
  <2>1. Fits(g)
    <3>1. \A s \in SUBSET {1, 2} : s = {} \/ s = {1} \/ s = {2} \/ s = {1, 2}
      BY Zenon
    <3>2. g[{}] = tree /\ g[{1}] = Put(tree, a) /\ g[{2}] = Put(tree, b)
          /\ g[{1, 2}] = Put(Put(tree, a), b)
      BY <1>1
    <3>3. \A s \in SUBSET {1, 2} :
            g[s] = IF s = {} THEN tree ELSE Put(g[s \ {Max(s)}], ts[Max(s)])
      <4> HIDE DEF g
      <4> SUFFICES ASSUME NEW s \in SUBSET {1, 2}
                   PROVE  g[s] = IF s = {} THEN tree ELSE Put(g[s \ {Max(s)}], ts[Max(s)])
        BY Zenon
      <4>1. CASE s = {}
        BY <3>2, <4>1
      <4>2. CASE s = {1}
        <5>1. s # {} /\ s \ {Max(s)} = {} /\ ts[Max(s)] = a
          BY <1>1, <1>2, <1>5, <4>2
        <5> QED BY <3>2, <4>2, <5>1
      <4>3. CASE s = {2}
        <5>1. s # {} /\ s \ {Max(s)} = {} /\ ts[Max(s)] = b
          BY <1>1, <1>2, <1>5, <4>3
        <5> QED BY <3>2, <4>3, <5>1
      <4>4. CASE s = {1, 2}
        <5>1. s # {} /\ s \ {Max(s)} = {1} /\ ts[Max(s)] = b
          BY <1>1, <1>2, <1>5, <4>4
        <5> QED BY <3>2, <4>4, <5>1
      <4> QED BY <3>1, <4>1, <4>2, <4>3, <4>4
    <3>4. g = [s \in SUBSET {1, 2} |-> g[s]]
      OBVIOUS
    <3> HIDE DEF g
    <3>5. g = [s \in SUBSET {1, 2} |-> IF s = {} THEN tree ELSE Put(g[s \ {Max(s)}], ts[Max(s)])]
      BY <3>3, <3>4, Zenon
    <3>6. DOMAIN ts = {1, 2}
      BY <1>2, <1>5
    <3> QED BY <3>5, <3>6, Zenon
  <2> HIDE DEF g, Fits
  <2>2. Fits(it)
    BY <2>1, Zenon DEF it
  <2> HIDE DEF it
  <2>3. it = [s \in SUBSET {1, 2} |-> IF s = {} THEN tree ELSE Put(it[s \ {Max(s)}], ts[Max(s)])]
    <3>1. DOMAIN ts = {1, 2}
      BY <1>2, <1>5
    <3> QED BY <2>2, <3>1, Zenon DEF Fits
  <2>4. \A s \in SUBSET {1, 2} : it[s] = IF s = {} THEN tree ELSE Put(it[s \ {Max(s)}], ts[Max(s)])
    BY <2>3, Zenon
  <2>5. it[{}] = tree
    BY <2>4, Zenon
  <2>6. it[{1}] = Put(tree, a)
    <3>1. it[{1}] = Put(it[{1} \ {Max({1})}], ts[Max({1})])
      BY <1>1, <2>4, Zenon
    <3> QED BY <1>1, <1>2, <1>5, <2>5, <3>1
  <2>7. it[{1, 2}] = Put(Put(tree, a), b)
    <3>1. it[{1, 2}] = Put(it[{1, 2} \ {Max({1, 2})}], ts[Max({1, 2})])
      BY <1>1, <2>4
    <3> QED BY <1>1, <1>2, <1>5, <2>6, <3>1
  <2>8. ts # <<a>>
    BY <1>5
  <2> QED BY <1>2, <1>3, <1>5, <2>7, <2>8 DEF Put
<1> QED BY <1>4, <1>5

LEMMA FreshNumbers ==
  ASSUME TabsInv, NEW k \in 1..2, made.pane + k <= MaxPane
  PROVE  /\ made.pane + 1 \in Panes /\ made.pane + 1 > made.pane
         /\ k = 1 => NewPanes(k) = {made.pane + 1}
         /\ k = 2 => /\ made.pane + 2 \in Panes /\ made.pane + 2 > made.pane
                     /\ made.pane + 1 # made.pane + 2
                     /\ NewPanes(k) = {made.pane + 1, made.pane + 2}
<1>1. made.pane \in Nat /\ MaxPane \in Nat
  BY NewAreClosed, WindowTreeAssumption
<1>2. PICK n : n = made.pane
  OBVIOUS
<1>3. CASE k = 1
  BY <1>1, <1>2, <1>3 DEF NewPanes, Panes
<1>4. CASE k = 2
  BY <1>1, <1>2, <1>4 DEF NewPanes, Panes
<1> QED BY <1>3, <1>4

LEMMA FreshTabs ==
  ASSUME TabsInv, NEW k \in 1..2, made.tab + k <= MaxTab
  PROVE  /\ made.tab + 1 \in Tabs \ OpenTabs /\ made.tab + 1 # None
         /\ k = 2 => made.tab + 2 \in Tabs \ (OpenTabs \cup {made.tab + 1}) /\ made.tab + 2 # None
<1>1. made.tab \in Nat /\ MaxTab \in Nat /\ \A t \in OpenTabs : t \in 1..made.tab
  BY NewAreClosed, WindowTreeAssumption
<1>2. PICK n : n = made.tab
  OBVIOUS
<1>3. n + 1 \notin 1..n /\ n + 2 \notin 1..n /\ n + 1 # n + 2
  BY <1>1, <1>2
<1> QED BY <1>1, <1>2, <1>3 DEF Tabs, None

LEMMA OpenedTree ==
  ASSUME TreeInv, TabsInv', NEW k \in 1..2, NEW ts,
         ts = IF k = 1 THEN <<made.tab + 1>> ELSE <<made.tab + 1, made.tab + 2>>,
         OpenSession(ts), CanMake(k, k, 1), UNCHANGED popup
  PROVE  TreeOK'
<1>1. TabsInv
  BY DEF TreeInv
<1>2. PICK m : Sound(tree, OpenTabs, m) /\ Placed(m.own, shells, popup, made.pane)
  BY DEF TreeInv, TreeOK
<1>3. PICK a, b, p, q : a = made.tab + 1 /\ b = made.tab + 2 /\ p = made.pane + 1 /\ q = made.pane + 2
  OBVIOUS
<1>4. made.pane + k <= MaxPane /\ made.tab + k <= MaxTab
  BY DEF CanMake
<1>5. /\ p \in Panes /\ m.own[p] = None /\ a \in Tabs \ OpenTabs /\ a # None
      /\ k = 1 => NewPanes(k) = {p}
      /\ k = 2 => /\ q \in Panes /\ m.own[q] = None /\ p # q /\ NewPanes(k) = {p, q}
                  /\ b \in Tabs \ (OpenTabs \cup {a}) /\ b # None
  <2>1. /\ made.pane + 1 \in Panes /\ made.pane + 1 > made.pane
        /\ k = 1 => NewPanes(k) = {made.pane + 1}
        /\ k = 2 => /\ made.pane + 2 \in Panes /\ made.pane + 2 > made.pane
                    /\ made.pane + 1 # made.pane + 2
                    /\ NewPanes(k) = {made.pane + 1, made.pane + 2}
    BY <1>1, <1>4, FreshNumbers
  <2>2. /\ made.tab + 1 \in Tabs \ OpenTabs /\ made.tab + 1 # None
        /\ k = 2 => made.tab + 2 \in Tabs \ (OpenTabs \cup {made.tab + 1}) /\ made.tab + 2 # None
    BY <1>1, <1>4, FreshTabs
  <2>3. \A x \in Panes : x > made.pane => m.own[x] = None
    BY <1>2, TreeIs
  <2> QED BY <1>3, <2>1, <2>2, <2>3
<1>6. made.pane + a - made.tab = p /\ made.pane + b - made.tab = q
  <2>1. made.pane \in Nat /\ made.tab \in Nat
    BY <1>1, NewAreClosed
  <2> QED BY <1>3, <2>1
<1>7. OpenTabs' = OpenTabs \cup Range(ts)
  <2>1. PICK s : s = made.sess + 1
    OBVIOUS
  <2>2. s \in Sess /\ tabs[s] = <<>>
    <3>1. made.sess \in Nat /\ made.sess + 1 <= MaxSess
      BY <1>1, NewAreClosed DEF CanMake
    <3>2. s \in Sess /\ ~(s <= made.sess)
      BY <2>1, <3>1, WindowTreeAssumption DEF Sess
    <3>3. SessionOK(s)
      BY <1>1, <3>2 DEF TabsInv, TabsOK
    <3> QED BY <3>2, <3>3 DEF SessionOK
  <2>3. tabs' = [tabs EXCEPT ![s] = ts]
    BY <2>1, Zenon DEF OpenSession
  <2>4. OpenTabs' = (OpenTabs \ Range(tabs[s])) \cup Range(ts)
    BY <1>1, <2>2, <2>3, OpenTurns, Zenon
  <2>5. Range(<<>>) = {}
    BY DEF Range
  <2> QED BY <2>2, <2>4, <2>5
<1>8. PICK v : v = tree'
  OBVIOUS
<1>10. ts = IF k = 1 THEN <<a>> ELSE <<a, b>>
  BY <1>3
<1>11. v = IF ts = <<a>> THEN Single(tree, a, made.pane + a - made.tab)
           ELSE Single(Single(tree, a, made.pane + a - made.tab), b, made.pane + b - made.tab)
  BY <1>8, <1>10, SinglesAre
<1>12. m.own \in [Nodes -> Tabs \cup {None}] /\ Panes \subseteq Nodes
  BY <1>2, TreeIs
<1>13. PICK to : to = [m.own EXCEPT ![p] = a]
  BY Zenon
<1>14. Yields(Single(tree, a, p), OpenTabs \cup {a}, to)
  BY <1>2, <1>5, <1>13, SingleKeeps
<1>15. /\ shells' = (shells \ {}) \cup NewPanes(k)
       /\ made'.pane = made.pane + k /\ UNCHANGED popup
  <2>1. Len(ts) = k
    BY <1>10
  <2>2. Made(Len(ts), Len(ts), 1)
    BY Zenon DEF OpenSession
  <2> QED BY <2>1, <2>2 DEF Made
<1>16. CASE k = 1
  <2>1. tree' = Single(tree, a, p) /\ Range(ts) = {a}
    <3>1. ts = <<a>>
      BY <1>10, <1>16
    <3>2. DOMAIN ts = {1} /\ ts[1] = a
      BY <3>1
    <3>3. Range(ts) = {a}
      BY <3>2 DEF Range
    <3>4. v = Single(tree, a, made.pane + a - made.tab)
      BY <1>11, <3>1
    <3> QED BY <1>6, <1>8, <3>3, <3>4
  <2>2. Yields(tree', OpenTabs', to)
    BY <1>7, <1>14, <2>1
  <2>3. \A x \in Panes : to[x] # None <=> (m.own[x] # None /\ x \notin {}) \/ x \in NewPanes(k)
    BY <1>5, <1>12, <1>13, <1>16
  <2>4. k \in Nat
    OBVIOUS
  <2> QED BY <1>2, <1>4, <1>15, <2>2, <2>3, <2>4, MovesKeep
<1>17. CASE k = 2
  <2>1. tree' = Single(Single(tree, a, p), b, q) /\ Range(ts) = {a, b}
    <3>1. ts = <<a, b>> /\ ts # <<a>>
      BY <1>10, <1>17
    <3>2. DOMAIN ts = {1, 2} /\ ts[1] = a /\ ts[2] = b
      BY <3>1
    <3>3. Range(ts) = {a, b}
      BY <3>2 DEF Range
    <3>4. v = Single(Single(tree, a, made.pane + a - made.tab), b, made.pane + b - made.tab)
      BY <1>11, <3>1
    <3> QED BY <1>6, <1>8, <3>3, <3>4
  <2>2. PICK w : Sound(Single(tree, a, p), OpenTabs \cup {a}, w) /\ \A x \in Panes : w.own[x] = to[x]
    BY <1>14 DEF Yields
  <2>3. w.own[q] = None
    BY <1>5, <1>12, <1>13, <1>17, <2>2
  <2>4. PICK to2 : to2 = [w.own EXCEPT ![q] = b]
    BY Zenon
  <2>5. PICK f, open : f = Single(tree, a, p) /\ open = OpenTabs \cup {a}
    BY Zenon
  <2>6. Yields(Single(f, b, q), open \cup {b}, to2)
    <3>1. Sound(f, open, w) /\ b \in Tabs \ open /\ q \in Panes
      BY <1>5, <1>17, <2>2, <2>5
    <3> QED BY <2>3, <2>4, <3>1, SingleKeeps
  <2>7. Yields(tree', OpenTabs', to2)
    <3>1. OpenTabs' = open \cup {b}
      BY <1>7, <2>1, <2>5
    <3> QED BY <2>1, <2>5, <2>6, <3>1
  <2>8. \A x \in Panes : to2[x] # None <=> (m.own[x] # None /\ x \notin {}) \/ x \in NewPanes(k)
    <3>1. w.own \in [Nodes -> Tabs \cup {None}]
      BY <2>2 DEF Sound, Numbered, Marks
    <3> QED BY <1>5, <1>12, <1>13, <1>17, <2>2, <2>4, <3>1
  <2>9. k \in Nat
    OBVIOUS
  <2> QED BY <1>2, <1>4, <1>15, <2>7, <2>8, <2>9, MovesKeep
<1> QED BY <1>16, <1>17

LEMMA KillTabTree ==
  ASSUME TreeInv, TabsInv', NEW s \in Sess, KillTab(s)
  PROVE  TreeOK'
<1>1. TabsInv /\ s \in Range(sessions)
  BY CommandsIn DEF TreeInv, TabsInv, KillTab
<1>2. PICK m : Sound(tree, OpenTabs, m) /\ Placed(m.own, shells, popup, made.pane)
  BY DEF TreeInv, TreeOK
<1>3. PICK t, ts : t = ActiveTab(s) /\ ts = {t}
  BY Zenon
<1>4. t \in OpenTabs /\ t \in Range(tabs[s])
  BY <1>1, <1>3, OpenOfSession
<1>5. OpenTabs' = OpenTabs \ ts
  <2>1. tabs' = [tabs EXCEPT ![s] = Without(tabs[s], t)]
    BY <1>3 DEF KillTab, SetTabs
  <2> QED BY <1>1, <1>3, <1>4, <2>1, TabTaken, Zenon
<1>6. shells' = shells \ {p \in Panes : m.own[p] \in ts}
  <2>1. Range(PaneList(tree, t)) = {p \in Panes : m.own[p] = t}
    BY <1>2, <1>4, TreeIs
  <2>2. {p \in Panes : m.own[p] = t} = {p \in Panes : m.own[p] \in ts}
    BY <1>3
  <2> QED BY <1>3, <2>1, <2>2 DEF KillTab
<1>7. tree' = Forget(tree, ts) /\ UNCHANGED <<popup, made>>
  BY <1>3 DEF KillTab
<1>8. ts \in SUBSET OpenTabs
  BY <1>3, <1>4
<1> QED BY <1>1, <1>2, <1>5, <1>6, <1>7, <1>8, ForgottenTree

LEMMA KillSessionTree ==
  ASSUME TreeInv, TabsInv', NEW s \in Sess, KillSession(s)
  PROVE  TreeOK'
<1>1. TabsInv /\ s \in Range(sessions)
  BY DEF TreeInv, KillSession
<1>2. PICK m : Sound(tree, OpenTabs, m) /\ Placed(m.own, shells, popup, made.pane)
  BY DEF TreeInv, TreeOK
<1>3. PICK ts : ts = Range(tabs[s])
  OBVIOUS
<1>4. ts \in SUBSET OpenTabs
  BY <1>1, <1>3, OpenOfSession
<1>5. OpenTabs' = OpenTabs \ ts
  <2>1. PICK q : q = <<>>
    OBVIOUS
  <2>2. tabs' = [tabs EXCEPT ![s] = q]
    BY <2>1 DEF KillSession, SetTabs
  <2>3. Range(q) = {}
    BY <2>1 DEF Range
  <2>4. OpenTabs' = (OpenTabs \ Range(tabs[s])) \cup Range(q)
    BY <1>1, <2>2, OpenTurns, Zenon
  <2> QED BY <1>3, <2>3, <2>4
<1>6. shells' = shells \ {p \in Panes : m.own[p] \in ts}
  <2>1. \A t \in ts : Range(PaneList(tree, t)) = {p \in Panes : m.own[p] = t}
    BY <1>2, <1>4, TreeIs
  <2>2. UNION {Range(PaneList(tree, t)) : t \in ts} = {p \in Panes : m.own[p] \in ts}
    BY <2>1
  <2> QED BY <1>3, <2>2 DEF KillSession
<1>7. tree' = Forget(tree, ts) /\ UNCHANGED <<popup, made>>
  BY <1>3 DEF KillSession
<1> QED BY <1>1, <1>2, <1>4, <1>5, <1>6, <1>7, ForgottenTree

LEMMA BreakPaneTree ==
  ASSUME TreeInv, TabsInv', NEW s \in Sess, BreakPane(s)
  PROVE  TreeOK'
<1>1. TabsInv /\ s \in Range(sessions)
  BY CommandsIn DEF TreeInv, TabsInv, BreakPane
<1>2. PICK m : Sound(tree, OpenTabs, m) /\ Placed(m.own, shells, popup, made.pane)
  BY DEF TreeInv, TreeOK
<1>3. PICK t, p, u : t = ActiveTab(s) /\ p = tree.act[t] /\ u = made.tab + 1
  OBVIOUS
<1>4. /\ t \in OpenTabs /\ p \in Panes /\ m.own[p] = t /\ t # None
      /\ m.own \in [Nodes -> Tabs \cup {None}] /\ Panes \subseteq Nodes
  BY <1>1, <1>2, <1>3, OpenOfSession, TreeIs
<1>5. u \in Tabs \ OpenTabs /\ u # None
  <2>1. made.tab + 1 <= MaxTab /\ 1 \in 1..2
    BY DEF BreakPane, CanMake
  <2> QED BY <1>1, <1>3, <2>1, FreshTabs
<1>6. tree.up[p] # None /\ tree' = Single(Detach(tree, t, p), u, p)
  BY <1>3 DEF BreakPane
<1>7. OpenTabs' = OpenTabs \cup {u}
  <2>1. PICK q : q = Append(tabs[s], u)
    BY Zenon
  <2>2. tabs' = [tabs EXCEPT ![s] = q]
    BY <1>3, <2>1 DEF BreakPane
  <2>3. tabs[s] \in Seq(Tabs) /\ IsInjective(tabs[s]) /\ Range(tabs[s]) \subseteq OpenTabs
    BY <1>1, OpenOfSession
  <2>4. u \in Tabs /\ u \notin Range(tabs[s])
    BY <1>5, <2>3
  <2>5. Range(q) = Range(tabs[s]) \cup {u}
    BY <2>1, <2>3, <2>4, AppendKeeps
  <2> QED BY <1>1, <2>2, <2>3, <2>5, TabAdded, Zenon
<1>8. PICK f : f = Detach(tree, t, p)
  OBVIOUS
<1>9. PICK w : Sound(f, OpenTabs, w) /\ \A x \in Panes : w.own[x] = [m.own EXCEPT ![p] = None][x]
  BY <1>2, <1>4, <1>6, <1>8, DetachKeeps DEF Yields
<1>10. w.own[p] = None /\ (\A x \in Panes : x # p => w.own[x] = m.own[x])
       /\ w.own \in [Nodes -> Tabs \cup {None}]
  BY <1>4, <1>9 DEF Sound, Numbered, Marks
<1>11. PICK to : to = [w.own EXCEPT ![p] = u]
  BY Zenon
<1>12. Yields(tree', OpenTabs', to)
  <2>1. Yields(Single(f, u, p), OpenTabs \cup {u}, to)
    BY <1>4, <1>5, <1>9, <1>10, <1>11, SingleKeeps
  <2> QED BY <1>6, <1>7, <1>8, <2>1
<1>13. NewPanes(0) = {} /\ made.pane + 0 = made.pane /\ made.pane + 0 <= MaxPane
  <2>1. NewPanes(0) = {} /\ made.pane + 0 = made.pane
    BY <1>1, NoNewPanes
  <2> QED BY <1>2, <2>1 DEF Placed
<1>14. \A x \in Panes : to[x] # None <=> (m.own[x] # None /\ x \notin {}) \/ x \in NewPanes(0)
  BY <1>4, <1>5, <1>10, <1>11, <1>13
<1>15. shells' = (shells \ {}) \cup NewPanes(0) /\ made'.pane = made.pane + 0 /\ UNCHANGED popup
  BY DEF BreakPane, Made
<1> QED BY <1>2, <1>12, <1>13, <1>14, <1>15, MovesKeep

LEMMA CarryTree ==
  ASSUME TreeInv, TabsInv', NEW s \in Range(sessions), NEW from \in Range(tabs[s]),
         NEW to \in Range(tabs[s]), from # to, NEW m, Sound(tree, OpenTabs, m),
         Placed(m.own, shells, popup, made.pane), NEW p \in Panes, m.own[p] = from,
         Carry(s, p, from, to)
  PROVE  TreeOK'
<1>1. TabsInv
  BY DEF TreeInv
<1>2. /\ from \in OpenTabs /\ to \in OpenTabs /\ tabs[s] \in Seq(Tabs)
      /\ IsInjective(tabs[s]) /\ Range(tabs[s]) \subseteq OpenTabs /\ s \in Sess
  BY <1>1, OpenOfSession
<1>3. PICK a : a = tree.act[to]
  OBVIOUS
<1>4. /\ a \in Panes /\ m.own[a] = to /\ from # None /\ to # None
      /\ m.own \in [Nodes -> Tabs \cup {None}] /\ Panes \subseteq Nodes
      /\ Numbered(tree, OpenTabs, m)
  BY <1>2, <1>3, TreeIs
<1>5. PICK only, f, open :
        /\ only = (tree.up[p] = None)
        /\ f = IF only THEN Forget(tree, {from}) ELSE Detach(tree, from, p)
        /\ open = IF only THEN OpenTabs \ {from} ELSE OpenTabs
  BY Zenon
<1>6. tree' = Beside(f, to, a, p) /\ UNCHANGED <<popup, shells, made>>
      /\ tabs' = [tabs EXCEPT ![s] = IF only THEN Without(tabs[s], from) ELSE tabs[s]]
  BY <1>3, <1>5, Zenon DEF Carry
<1>7. PICK w : /\ Sound(f, open, w) /\ w.own[p] = None
               /\ \A x \in Panes : x # p => w.own[x] = m.own[x]
  <2>1. CASE only
    <3>1. PICK w : /\ Sound(f, open, w)
                   /\ \A x \in Panes : w.own[x] =
                        [n \in Nodes |-> IF m.own[n] \in {from} THEN None ELSE m.own[n]][x]
      <4>1. {from} \in SUBSET OpenTabs
        BY <1>2
      <4>2. Yields(Forget(tree, {from}), OpenTabs \ {from},
                   [n \in Nodes |-> IF m.own[n] \in {from} THEN None ELSE m.own[n]])
        BY <4>1, ForgetKeeps
      <4> QED BY <1>5, <2>1, <4>2 DEF Yields
    <3>2. \A x \in Panes : m.own[x] = from => x = p
      <4>1. \A x \in Panes : m.own[x] = m.own[p] => x = p
        <5>1. tree.up[p] = None /\ m.own[p] # None
          BY <1>4, <1>5, <2>1, Zenon
        <5> QED BY <1>4, <5>1, OnlyPane
      <4> QED BY <4>1
    <3>3. \A x \in Panes : w.own[x] = IF m.own[x] = from THEN None ELSE m.own[x]
      BY <1>4, <3>1, Zenon
    <3> QED BY <3>1, <3>2, <3>3
  <2>2. CASE ~only
    <3>1. PICK w : Sound(f, open, w) /\ \A x \in Panes : w.own[x] = [m.own EXCEPT ![p] = None][x]
      <4>1. tree.up[p] # None
        BY <1>5, <2>2, Zenon
      <4>2. Yields(Detach(tree, from, p), OpenTabs, [m.own EXCEPT ![p] = None])
        BY <1>2, <4>1, DetachKeeps
      <4>3. f = Detach(tree, from, p) /\ open = OpenTabs
        BY <1>5, <2>2
      <4> QED BY <4>2, <4>3 DEF Yields
    <3> QED BY <1>4, <3>1
  <2> QED BY <1>5, <2>1, <2>2, Zenon
<1>8. to \in open /\ w.own[a] = to /\ w.own \in [Nodes -> Tabs \cup {None}]
  <2>1. a # p
    BY <1>4
  <2> QED BY <1>2, <1>4, <1>5, <1>7, <2>1 DEF Sound, Numbered, Marks
<1>9. PICK own : own = [w.own EXCEPT ![p] = to]
  BY Zenon
<1>10. Yields(tree', open, own)
  BY <1>4, <1>6, <1>7, <1>8, <1>9, BesideKeeps
<1>11. OpenTabs' = open
  <2>1. CASE only
    <3>1. tabs' = [tabs EXCEPT ![s] = Without(tabs[s], from)]
      BY <1>6, <2>1
    <3> QED BY <1>1, <1>5, <2>1, <3>1, TabTaken, Zenon
  <2>2. CASE ~only
    <3>1. UNCHANGED tabs
      BY <1>1, <1>2, <1>6, <2>2 DEF TabsInv, TabsOK
    <3> QED BY <1>1, <1>5, <2>2, <3>1, OpenStays
  <2> QED BY <1>5, <2>1, <2>2
<1>12. NewPanes(0) = {} /\ made.pane + 0 = made.pane /\ made.pane + 0 <= MaxPane
  <2>1. NewPanes(0) = {} /\ made.pane + 0 = made.pane
    BY <1>1, NoNewPanes
  <2> QED BY <2>1 DEF Placed
<1>13. \A x \in Panes : own[x] # None <=> (m.own[x] # None /\ x \notin {}) \/ x \in NewPanes(0)
  BY <1>4, <1>7, <1>8, <1>9, <1>12
<1>14. shells' = (shells \ {}) \cup NewPanes(0) /\ made'.pane = made.pane + 0
  BY <1>6, <1>12
<1>15. Yields(tree', OpenTabs', own)
  BY <1>10, <1>11
<1>16. UNCHANGED popup /\ 0 \in Nat
  BY <1>6
<1> QED BY <1>12, <1>13, <1>14, <1>15, <1>16, MovesKeep

LEMMA PaneMovesTree ==
  ASSUME TreeInv, TabsInv', NEW s \in Sess, NEW i \in Indices,
         JoinPane(s, i) \/ \E p \in Panes : MovePaneToTab(s, p, i)
  PROVE  TreeOK'
<1>1. TabsInv /\ s \in Range(sessions)
  BY CommandsIn DEF TreeInv, TabsInv, JoinPane, MovePaneToTab
<1>2. i \in 0..(Len(tabs[s]) - 1) \ {active[s]}
  BY DEF JoinPane, MovePaneToTab
<1>3. /\ tabs[s] \in Seq(Tabs) /\ IsInjective(tabs[s])
      /\ active[s] \in 0..(Len(tabs[s]) - 1)
      /\ ActiveTab(s) = tabs[s][active[s] + 1] /\ ActiveTab(s) \in Range(tabs[s])
      /\ Range(tabs[s]) \subseteq OpenTabs
  BY <1>1, TabsOfSession, OpenOfSession
<1>4. PICK q, a, t, u : q = tabs[s] /\ a = active[s] /\ t = At(tabs[s], i) /\ u = ActiveTab(s)
  OBVIOUS
<1>5. t \in Range(tabs[s]) /\ u \in Range(tabs[s]) /\ t # u
  <2>1. i + 1 \in DOMAIN q /\ a + 1 \in DOMAIN q /\ i + 1 # a + 1
    BY <1>2, <1>3, <1>4
  <2>2. t = q[i + 1] /\ u = q[a + 1]
    BY <1>3, <1>4 DEF At
  <2> QED BY <1>3, <1>4, <2>1, <2>2 DEF Range, IsInjective
<1>6. PICK m : Sound(tree, OpenTabs, m) /\ Placed(m.own, shells, popup, made.pane)
  BY DEF TreeInv, TreeOK
<1>7. CASE JoinPane(s, i)
  <2>1. PICK p : p = tree.act[t]
    OBVIOUS
  <2>2. Carry(s, p, t, u)
    BY <1>4, <1>7, <2>1 DEF JoinPane
  <2>3. p \in Panes /\ m.own[p] = t
    BY <1>3, <1>5, <1>6, <2>1, TreeIs
  <2> QED BY <1>1, <1>5, <1>6, <2>2, <2>3, CarryTree
<1>8. ASSUME NEW p \in Panes, MovePaneToTab(s, p, i)
      PROVE  TreeOK'
  <2>1. Carry(s, p, u, t)
    BY <1>4, <1>8 DEF MovePaneToTab
  <2>2. p \in Range(PaneList(tree, u))
    BY <1>4, <1>8 DEF MovePaneToTab
  <2>3. m.own[p] = u
    BY <1>3, <1>5, <1>6, <2>2, TreeIs
  <2> QED BY <1>1, <1>5, <1>6, <2>1, <2>3, CarryTree
<1> QED BY <1>7, <1>8

\* The commands on tabs that open and close none.
LEMMA SameTabsAreOpen ==
  ASSUME TabsInv, TabsInv', SameTabs
  PROVE  OpenTabs' = OpenTabs
<1>1. \A t : t \in OpenTabs <=> \E s \in Sess : t \in Range(tabs[s])
  BY OpenAre
<1>2. \A t : t \in OpenTabs' <=> \E s \in Sess : t \in Range(tabs'[s])
  BY OpenAreNext
<1>3. \A t : t \in OpenTabs' <=> t \in OpenTabs
  BY <1>1, <1>2 DEF SameTabs
<1> QED BY <1>3

LEMMA PopupOpenTree ==
  ASSUME TreeInv, TabsInv', NEW s \in Sess, PopupOpen(s)
  PROVE  TreeOK'
<1>1. TabsInv
  BY DEF TreeInv
<1>2. PICK m : Sound(tree, OpenTabs, m) /\ Placed(m.own, shells, popup, made.pane)
  BY DEF TreeInv, TreeOK
<1>3. PICK own, sh, pop, n : own = m.own /\ sh = shells /\ pop = popup /\ n = made.pane
  OBVIOUS
<1>4. n + 1 <= MaxPane /\ NewPanes(1) = {n + 1}
  <2>1. made.pane + 1 <= MaxPane
    BY DEF PopupOpen, CanMake
  <2> QED BY <1>1, <1>3, <2>1, OneNewPane
<1>5. Placed(own, (sh \ {pop[s]}) \cup {n + 1}, [pop EXCEPT ![s] = n + 1], n + 1)
  BY <1>2, <1>3, <1>4, PopupComes
<1>6. /\ shells' = (sh \ {pop[s]}) \cup {n + 1} /\ popup' = [pop EXCEPT ![s] = n + 1]
      /\ made'.pane = n + 1
  <2>1. made'.pane = made.pane + 1
    BY <1>1 DEF PopupOpen, TabsInv, RegistryInv, RegistryOK, Counts
  <2> QED BY <1>3, <1>4, <2>1 DEF PopupOpen
<1>7. Placed(m.own, shells', popup', made'.pane)
  BY <1>3, <1>5, <1>6
<1>8. OpenTabs' = OpenTabs /\ tree' = tree
  BY <1>1, OpenStays DEF PopupOpen
<1> QED BY <1>2, <1>7, <1>8 DEF TreeOK

LEMMA PopupCloseTree ==
  ASSUME TreeInv, TabsInv', NEW s \in Sess, PopupClose(s)
  PROVE  TreeOK'
<1>1. TabsInv
  BY DEF TreeInv
<1>2. PICK m : Sound(tree, OpenTabs, m) /\ Placed(m.own, shells, popup, made.pane)
  BY DEF TreeInv, TreeOK
<1>3. PICK own, sh, pop, n, to, p :
        /\ own = m.own /\ sh = shells /\ pop = popup /\ n = made.pane
        /\ to = popup' /\ p = popup[s]
  OBVIOUS
<1>4. Placed(own, sh, pop, n) /\ pop[s] = p
  BY <1>2, <1>3
<1>5. to = [pop EXCEPT ![s] = None] /\ p # None
  BY <1>3 DEF PopupClose
<1>6. /\ DOMAIN to = Sess /\ to = [r \in Sess |-> to[r]]
      /\ \A r \in Sess : to[r] = pop[r] \/ (pop[r] = p /\ to[r] = None)
  <2>1. pop \in [Sess -> Panes \cup {None}]
    BY <1>4 DEF Placed
  <2> QED BY <1>4, <1>5, <2>1, Zenon
<1>7. Placed(own, sh \ {p}, to, n)
  BY <1>4, <1>5, <1>6, PopupGoes, Zenon
<1>8. Placed(m.own, shells', popup', made'.pane)
  <2>1. shells' = shells \ {popup[s]} /\ UNCHANGED made
    BY DEF PopupClose
  <2> QED BY <1>3, <1>7, <2>1
<1>9. OpenTabs' = OpenTabs /\ tree' = tree
  BY <1>1, OpenStays DEF PopupClose
<1> QED BY <1>2, <1>8, <1>9 DEF TreeOK

\* Steps that leave trees and panes alone.
LEMMA OthersTree ==
  ASSUME TreeInv, TabsInv',
         \/ \E s \in Sess : RenameSession(s)
         \/ \E c \in Clients : DetachClient(c)
         \/ \E c \in Clients, s \in Sess : SwitchSession(c, s)
         \/ UNCHANGED vars
  PROVE  TreeOK'
<1>1. UNCHANGED <<tabs, tree, shells, popup, made>>
  BY DEF RenameSession, DetachClient, SwitchSession, vars, sessVars
<1>2. OpenTabs' = OpenTabs
  BY <1>1, OpenStays DEF TreeInv
<1> QED BY <1>1, <1>2, AloneKeeps DEF TreeInv

LEMMA TabOrderTree ==
  ASSUME TreeInv, TabsInv', SameTabs, NEW s \in Sess,
         \/ \E i : SelectTab(s, i)
         \/ \E i \in Indices : SwapTabs(s, i)
         \/ \E i, j \in Indices : MoveTab(s, i, j)
         \/ \E i \in Indices, value \in BOOLEAN : SetPinned(s, i, value)
  PROVE  TreeOK'
<1>1. UNCHANGED <<tree, shells, popup, made>>
  BY DEF SelectTab, SwapTabs, MoveTab, SetPinned, Reorder
<1>2. OpenTabs' = OpenTabs
  BY SameTabsAreOpen DEF TreeInv
<1> QED BY <1>1, <1>2, AloneKeeps DEF TreeInv

\* The flush loop lists the panes of every window.
LEMMA FlushTree ==
  ASSUME TreeInv, TabsInv', Flush
  PROVE  TreeOK'
<1>1. PICK m : Sound(tree, OpenTabs, m) /\ Placed(m.own, shells, popup, made.pane)
  BY DEF TreeInv, TreeOK
<1>2. PICK cache : cache = [t \in Tabs |-> IF t \in OpenTabs THEN PaneList(tree, t) ELSE tree.cache[t]]
  BY Zenon
<1>3. tree' = [tree EXCEPT !.cache = cache]
  BY <1>2 DEF Flush
<1>4. \A t \in OpenTabs : PaneList(tree, t) = m.order[t] /\ m.order[t] \in Seq(Panes)
  BY <1>1, TreeIs, OrderIs DEF Sound
<1>5. tree.cache \in [Tabs -> Seq(Panes)] /\ \A t \in Tabs \ OpenTabs : tree.cache[t] = <<>>
  BY <1>1, TreeFields DEF Sound, Numbered, WindowsOK
<1>6. /\ cache \in [Tabs -> Seq(Panes)]
      /\ \A t \in OpenTabs : cache[t] \in {<<>>, m.order[t]}
      /\ \A t \in Tabs \ OpenTabs : cache[t] = <<>>
  <2>1. OpenTabs \subseteq Tabs
    BY <1>1 DEF Sound, Numbered
  <2> QED BY <1>2, <1>4, <1>5, <2>1
<1>7. Sound(tree', OpenTabs, m)
  BY <1>1, <1>3, <1>6, CachesKeep
<1>8. Yields(tree', OpenTabs, m.own)
  BY <1>7 DEF Yields
<1>9. UNCHANGED <<tabs, shells, popup, made>>
  BY DEF Flush, sessVars
<1> QED BY <1>1, <1>8, <1>9, RearrangeKeeps DEF TreeInv

LEMMA KillPaneTree ==
  ASSUME TreeInv, TabsInv', NEW s \in Sess, KillPane(s)
  PROVE  TreeOK'
<1>1. TabsInv /\ s \in Range(sessions)
  BY CommandsIn DEF TreeInv, TabsInv, KillPane
<1>2. PICK m : Sound(tree, OpenTabs, m) /\ Placed(m.own, shells, popup, made.pane)
  BY DEF TreeInv, TreeOK
<1>3. PICK p : p = tree.act[ActiveTab(s)]
  OBVIOUS
<1>4. ActiveTab(s) \in OpenTabs
  BY <1>1, OpenOfSession
<1>5. p \in Panes
  BY <1>2, <1>3, <1>4, TreeIs
<1>6. PaneEof(p)
  BY <1>3 DEF KillPane
<1> QED BY <1>5, <1>6, PaneEofTree

\* A tab that is opened in a session with a pane of its own.
LEMMA OpenTabTree ==
  ASSUME TreeInv, TabsInv', NEW s \in Range(sessions), NEW p, p = made.pane + 1,
         OpenTab(s, p, made.tab + 1), CanMake(1, 1, 0), UNCHANGED popup
  PROVE  TreeOK'
<1>1. TabsInv
  BY DEF TreeInv
<1>2. PICK m : Sound(tree, OpenTabs, m) /\ Placed(m.own, shells, popup, made.pane)
  BY DEF TreeInv, TreeOK
<1>3. PICK u, q, i : u = made.tab + 1 /\ i = FirstPinned(tabs[s]) + 1 /\ q = InsertAt(tabs[s], i, u)
  OBVIOUS
<1>4. made.pane + 1 <= MaxPane /\ made.tab + 1 <= MaxTab /\ 1 \in 1..2
  BY DEF CanMake
<1>5. u \in Tabs \ OpenTabs /\ u # None
  BY <1>1, <1>3, <1>4, FreshTabs
<1>6. p \in Panes /\ NewPanes(1) = {p} /\ m.own[p] = None
  <2>1. made.pane + 1 \in Panes /\ NewPanes(1) = {made.pane + 1} /\ made.pane \in Nat
    BY <1>1, <1>4, OneNewPane, NewAreClosed
  <2>2. made.pane + 1 > made.pane
    BY <2>1
  <2> QED BY <1>2, <2>1, <2>2, TreeIs
<1>7. OpenTabs' = OpenTabs \cup {u}
  <2>1. /\ s \in Sess /\ tabs[s] \in Seq(Tabs) /\ IsInjective(tabs[s])
        /\ Range(tabs[s]) \subseteq OpenTabs
    BY <1>1, OpenOfSession
  <2>2. i \in 1..(Len(tabs[s]) + 1)
    <3>1. FirstPinned(tabs[s]) \in 0..Len(tabs[s]) /\ Len(tabs[s]) \in Nat
      BY <2>1, FirstPinnedIs
    <3> QED BY <1>3, <3>1
  <2>3. Range(q) = Range(tabs[s]) \cup {u}
    <3>1. u \in Tabs /\ u \notin Range(tabs[s])
      BY <1>5, <2>1
    <3> QED BY <1>3, <2>1, <2>2, <3>1, InsertedKeeps
  <2>4. tabs' = [tabs EXCEPT ![s] = q]
    BY <1>3 DEF OpenTab
  <2> QED BY <1>1, <2>1, <2>3, <2>4, TabAdded, Zenon
<1>8. PICK to : to = [m.own EXCEPT ![p] = u]
  BY Zenon
<1>9. Yields(tree', OpenTabs', to)
  <2>1. tree' = Single(tree, u, p)
    BY <1>3 DEF OpenTab
  <2>2. Yields(Single(tree, u, p), OpenTabs \cup {u}, to)
    BY <1>2, <1>5, <1>6, <1>8, SingleKeeps
  <2> QED BY <1>7, <2>1, <2>2
<1>10. \A x \in Panes : to[x] # None <=> (m.own[x] # None /\ x \notin {}) \/ x \in NewPanes(1)
  <2>1. m.own \in [Nodes -> Tabs \cup {None}] /\ Panes \subseteq Nodes
    BY <1>2, TreeIs
  <2> QED BY <1>5, <1>6, <1>8, <2>1
<1>11. shells' = (shells \ {}) \cup NewPanes(1) /\ made'.pane = made.pane + 1
  <2>1. Made(1, 1, 0)
    BY DEF OpenTab
  <2> QED BY <2>1 DEF Made
<1>12. 1 \in Nat /\ UNCHANGED popup
  OBVIOUS
<1> QED BY <1>2, <1>4, <1>9, <1>10, <1>11, <1>12, MovesKeep

LEMMA NewTabTree ==
  ASSUME TreeInv, TabsInv', NEW c \in Clients, NewTab(c)
  PROVE  TreeOK'
<1>1. PICK s : s = IF views[c] = None /\ sessions # <<>> THEN sessions[1] ELSE views[c]
  OBVIOUS
<1>2. views[c] # Away /\ UNCHANGED popup
  BY DEF NewTab
<1>3. CASE s = None
  <2>1. PICK ts : ts = <<made.tab + 1, made.tab + 2>>
    BY Zenon
  <2>2. OpenSession(ts) /\ CanMake(2, 2, 1)
    BY <1>1, <1>3, <2>1 DEF NewTab
  <2>3. ts = IF 2 = 1 THEN <<made.tab + 1>> ELSE <<made.tab + 1, made.tab + 2>>
    BY <2>1
  <2>4. 2 \in 1..2
    OBVIOUS
  <2> QED BY <1>2, <2>2, <2>3, <2>4, OpenedTree
<1>4. CASE s # None
  <2>1. OpenTab(s, made.pane + 1, made.tab + 1) /\ CanMake(1, 1, 0)
    BY <1>1, <1>4 DEF NewTab
  <2>2. PICK p : p = made.pane + 1
    OBVIOUS
  <2>3. OpenTab(s, p, made.tab + 1)
    BY <2>1, <2>2
  <2>4. s \in Range(sessions)
    <3>1. sessions \in Seq(Sess) /\ views \in [Clients -> Sess \cup {None, Away}]
      BY DEF TreeInv, TabsInv, RegistryInv, RegistryOK
    <3>2. CASE views[c] = None /\ sessions # <<>>
      BY <1>1, <3>1, <3>2, FirstIsIn
    <3>3. CASE ~(views[c] = None /\ sessions # <<>>)
      <4>1. s = views[c]
        BY <1>1, <3>3
      <4>2. views[c] \in Sess
        BY <1>2, <1>4, <3>1, <4>1
      <4> QED BY <4>1, <4>2 DEF TreeInv, TabsInv, RegistryInv, ViewsRegistered
    <3> QED BY <3>2, <3>3
  <2> QED BY <1>2, <2>1, <2>2, <2>3, <2>4, OpenTabTree
<1> QED BY <1>3, <1>4

\* A session of one tab.
LEMMA OneTabTree ==
  ASSUME TreeInv, TabsInv', CanMake(1, 1, 1), OpenSession(<<made.tab + 1>>), UNCHANGED popup
  PROVE  TreeOK'
<1>1. PICK ts : ts = <<made.tab + 1>>
  OBVIOUS
<1>2. ts = IF 1 = 1 THEN <<made.tab + 1>> ELSE <<made.tab + 1, made.tab + 2>>
  BY <1>1
<1>3. OpenSession(ts) /\ 1 \in 1..2
  BY <1>1
<1> QED BY <1>2, <1>3, OpenedTree

LEMMA AttachTree ==
  ASSUME TreeInv, TabsInv', NEW c \in Clients, Attach(c)
  PROVE  TreeOK'
<1>1. CASE sessions = <<>>
  BY <1>1, OneTabTree DEF Attach
<1>2. CASE sessions # <<>>
  <2>1. UNCHANGED <<tabs, tree, shells, popup, made>>
    BY <1>2 DEF Attach
  <2>2. OpenTabs' = OpenTabs
    BY <2>1, OpenStays DEF TreeInv
  <2> QED BY <2>1, <2>2, AloneKeeps DEF TreeInv
<1> QED BY <1>1, <1>2

\* The panes that a loaded layout is made of.
LEMMA LayoutIs ==
  ASSUME NEW c \in Nat, NEW n \in 1..2, NEW ps, ps = [i \in 1..n |-> c + i]
  PROVE  Len(ps) = n /\ ps[1] = c + 1 /\ (n = 2 => ps[2] = c + 2 /\ ps = <<ps[1], ps[2]>>)
<1>1. n \in Nat /\ ps \in [1..n -> Nat]
  OBVIOUS
<1>2. ps \in Seq(Nat)
  BY <1>1, SeqDef
<1>3. Len(ps) \in Nat /\ DOMAIN ps = 1..Len(ps) /\ DOMAIN ps = 1..n
  BY <1>1, <1>2, LenProperties
<1>4. Len(ps) = n
  BY <1>1, <1>3
<1>5. ps[1] = c + 1 /\ (n = 2 => ps[2] = c + 2)
  OBVIOUS
<1>6. ASSUME n = 2
      PROVE  ps = <<ps[1], ps[2]>>
  <2>1. PICK a, b : a = ps[1] /\ b = ps[2]
    BY Zenon
  <2>2. a \in Nat /\ b \in Nat
    BY <1>1, <1>6, <2>1
  <2>3. <<a, b>> \in Seq(Nat) /\ Len(<<a, b>>) = 2 /\ <<a, b>>[1] = a /\ <<a, b>>[2] = b
    BY <2>2
  <2>4. \A i \in 1..Len(ps) : ps[i] = <<a, b>>[i]
    BY <1>4, <1>6, <2>1, <2>3
  <2>5. ps = <<a, b>>
    BY <1>2, <1>4, <1>6, <2>3, <2>4, SeqEqual, Zenon
  <2> QED BY <2>1, <2>5, Zenon
<1> QED BY <1>4, <1>5, <1>6

LEMMA LayoutPanes ==
  ASSUME TabsInv, NEW n \in 1..2, made.pane + n <= MaxPane,
         NEW own, \A p \in Panes : p > made.pane => own[p] = None,
         NEW ps, Len(ps) = n, ps[1] = made.pane + 1,
         n = 2 => ps[2] = made.pane + 2 /\ ps = <<ps[1], ps[2]>>
  PROVE  /\ \/ /\ Len(ps) = 1 /\ ps[1] \in Panes /\ own[ps[1]] = None
            \/ /\ ps = <<ps[1], ps[2]>> /\ Len(ps) = 2 /\ ps[1] \in Panes /\ ps[2] \in Panes
               /\ ps[1] # ps[2] /\ own[ps[1]] = None /\ own[ps[2]] = None
         /\ \A p : p \in NewPanes(n) <=> p = ps[1] \/ (Len(ps) = 2 /\ p = ps[2])
<1>1. CASE n = 1
  <2>1. /\ ps[1] \in Panes /\ ps[1] > made.pane
        /\ NewPanes(n) = {ps[1]}
    BY <1>1, FreshNumbers
  <2> QED BY <1>1, <2>1
<1>2. CASE n = 2
  <2>1. /\ ps[1] \in Panes /\ ps[1] > made.pane
        /\ ps[2] \in Panes /\ ps[2] > made.pane
        /\ ps[1] # ps[2]
        /\ NewPanes(n) = {ps[1], ps[2]}
    BY <1>2, FreshNumbers
  <2> QED BY <1>2, <2>1
<1> QED BY <1>1, <1>2

LEMMA LoadLayoutNewTree ==
  ASSUME TreeInv, TabsInv', NEW s \in Sess, NEW n \in 1..2, LoadLayoutNew(s, n)
  PROVE  TreeOK'
<1>1. TabsInv /\ s \in Range(sessions)
  BY CommandsIn DEF TreeInv, TabsInv, LoadLayoutNew
<1>2. PICK m : Sound(tree, OpenTabs, m) /\ Placed(m.own, shells, popup, made.pane)
  BY DEF TreeInv, TreeOK
<1>3. PICK u, q, ps : /\ u = made.tab + 1 /\ q = Append(tabs[s], u)
                      /\ ps = [i \in 1..n |-> made.pane + i]
  BY Zenon
<1>4. made.pane + n <= MaxPane /\ made.tab + 1 <= MaxTab /\ 1 \in 1..2
  BY DEF LoadLayoutNew, CanMake
<1>5. u \in Tabs \ OpenTabs /\ u # None
  BY <1>1, <1>3, <1>4, FreshTabs
<1>6. PICK own : own = m.own
  OBVIOUS
<1>7. /\ \/ /\ Len(ps) = 1 /\ ps[1] \in Panes /\ own[ps[1]] = None
         \/ /\ ps = <<ps[1], ps[2]>> /\ Len(ps) = 2 /\ ps[1] \in Panes /\ ps[2] \in Panes
            /\ ps[1] # ps[2] /\ own[ps[1]] = None /\ own[ps[2]] = None
      /\ \A p : p \in NewPanes(n) <=> p = ps[1] \/ (Len(ps) = 2 /\ p = ps[2])
  <2>1. \A p \in Panes : p > made.pane => own[p] = None
    BY <1>2, <1>6, TreeIs
  <2>2. Len(ps) = n /\ ps[1] = made.pane + 1 /\ (n = 2 => ps[2] = made.pane + 2 /\ ps = <<ps[1], ps[2]>>)
    BY <1>1, <1>3, NewAreClosed, LayoutIs, SMTT(30)
  <2>3. made.pane + n <= MaxPane
    BY <1>4
  <2> QED BY <1>1, <2>1, <2>2, <2>3, LayoutPanes, ZenonT(30)
<1>8. OpenTabs' = OpenTabs \cup {u}
  <2>1. /\ s \in Sess /\ tabs[s] \in Seq(Tabs) /\ IsInjective(tabs[s])
        /\ Range(tabs[s]) \subseteq OpenTabs
    BY <1>1, OpenOfSession
  <2>2. u \in Tabs /\ u \notin Range(tabs[s])
    BY <1>5, <2>1
  <2>3. Range(q) = Range(tabs[s]) \cup {u}
    BY <1>3, <2>1, <2>2, AppendKeeps
  <2>4. tabs' = [tabs EXCEPT ![s] = q]
    BY <1>3 DEF LoadLayoutNew
  <2> QED BY <1>1, <2>1, <2>3, <2>4, TabAdded, Zenon
<1>9. PICK to : to = [x \in Nodes |-> IF x = ps[1] \/ (Len(ps) = 2 /\ x = ps[2]) THEN u ELSE own[x]]
  BY Zenon
<1>10. Yields(tree', OpenTabs', to)
  <2>1. tree' = Built(tree, u, ps)
    BY <1>3 DEF LoadLayoutNew
  <2>2. Yields(Built(tree, u, ps), OpenTabs \cup {u}, to)
    <3>1. \/ /\ Len(ps) = 1 /\ ps[1] \in Panes /\ m.own[ps[1]] = None
          \/ /\ ps = <<ps[1], ps[2]>> /\ Len(ps) = 2 /\ ps[1] \in Panes /\ ps[2] \in Panes
             /\ ps[1] # ps[2] /\ m.own[ps[1]] = None /\ m.own[ps[2]] = None
      BY <1>6, <1>7
    <3>2. to = [x \in Nodes |-> IF x = ps[1] \/ (Len(ps) = 2 /\ x = ps[2]) THEN u ELSE m.own[x]]
      BY <1>6, <1>9
    <3> QED BY <1>2, <1>5, <3>1, <3>2, BuiltKeeps
  <2> QED BY <1>8, <2>1, <2>2
<1>11. \A x \in Panes : to[x] # None <=> (m.own[x] # None /\ x \notin {}) \/ x \in NewPanes(n)
  <2>1. Panes \subseteq Nodes
    BY <1>2, TreeIs
  <2> QED BY <1>5, <1>6, <1>7, <1>9, <2>1
<1>12. shells' = (shells \ {}) \cup NewPanes(n) /\ made'.pane = made.pane + n
  <2>1. Made(n, 1, 0)
    BY DEF LoadLayoutNew
  <2> QED BY <2>1 DEF Made
<1>13. n \in Nat /\ UNCHANGED popup
  BY DEF LoadLayoutNew
<1> QED BY <1>2, <1>4, <1>10, <1>11, <1>12, <1>13, MovesKeep

LEMMA LoadLayoutOverTree ==
  ASSUME TreeInv, TabsInv', NEW s \in Sess, NEW n \in 1..2, LoadLayoutOver(s, n)
  PROVE  TreeOK'
<1>1. TabsInv /\ s \in Range(sessions)
  BY CommandsIn DEF TreeInv, TabsInv, LoadLayoutOver
<1>2. PICK m : Sound(tree, OpenTabs, m) /\ Placed(m.own, shells, popup, made.pane)
  BY DEF TreeInv, TreeOK
<1>3. PICK t, ts, ps, gone : /\ t = ActiveTab(s) /\ ts = {t}
                             /\ ps = [i \in 1..n |-> made.pane + i]
                             /\ gone = Range(PaneList(tree, t))
  BY Zenon
<1>4. made.pane + n <= MaxPane
  BY DEF LoadLayoutOver, CanMake
<1>5. /\ t \in OpenTabs /\ t \in Tabs /\ t # None
      /\ gone = {p \in Panes : m.own[p] = t}
  BY <1>1, <1>2, <1>3, OpenOfSession, TreeIs
<1>6. Panes \subseteq Nodes /\ \A p \in Panes : p > made.pane => m.own[p] = None
  BY <1>2, TreeIs
<1>7. PICK f, open : f = Forget(tree, ts) /\ open = OpenTabs \ ts
  BY Zenon
<1>8. PICK w : Sound(f, open, w) /\ \A p \in Panes : w.own[p] = IF m.own[p] = t THEN None ELSE m.own[p]
  <2>1. Yields(f, open, [x \in Nodes |-> IF m.own[x] \in ts THEN None ELSE m.own[x]])
    <3>1. ts \in SUBSET OpenTabs
      BY <1>3, <1>5
    <3> QED BY <1>2, <1>7, <3>1, ForgetKeeps
  <2>2. PICK w : Sound(f, open, w) /\ \A p \in Panes : w.own[p] =
                   [x \in Nodes |-> IF m.own[x] \in ts THEN None ELSE m.own[x]][p]
    BY <2>1 DEF Yields
  <2> QED BY <1>3, <1>6, <2>2, Zenon
<1>9. /\ \/ /\ Len(ps) = 1 /\ ps[1] \in Panes /\ w.own[ps[1]] = None
         \/ /\ ps = <<ps[1], ps[2]>> /\ Len(ps) = 2 /\ ps[1] \in Panes /\ ps[2] \in Panes
            /\ ps[1] # ps[2] /\ w.own[ps[1]] = None /\ w.own[ps[2]] = None
      /\ \A p : p \in NewPanes(n) <=> p = ps[1] \/ (Len(ps) = 2 /\ p = ps[2])
  <2>1. PICK own : own = w.own
    OBVIOUS
  <2>2. \A p \in Panes : p > made.pane => own[p] = None
    BY <1>6, <1>8, <2>1
  <2>3. /\ \/ /\ Len(ps) = 1 /\ ps[1] \in Panes /\ own[ps[1]] = None
           \/ /\ ps = <<ps[1], ps[2]>> /\ Len(ps) = 2 /\ ps[1] \in Panes /\ ps[2] \in Panes
              /\ ps[1] # ps[2] /\ own[ps[1]] = None /\ own[ps[2]] = None
        /\ \A p : p \in NewPanes(n) <=> p = ps[1] \/ (Len(ps) = 2 /\ p = ps[2])
    <3>1. Len(ps) = n /\ ps[1] = made.pane + 1 /\ (n = 2 => ps[2] = made.pane + 2 /\ ps = <<ps[1], ps[2]>>)
      BY <1>1, <1>3, NewAreClosed, LayoutIs, SMTT(30)
    <3> QED BY <1>1, <1>4, <2>2, <3>1, LayoutPanes, ZenonT(30)
  <2> QED BY <2>1, <2>3
<1>10. PICK to : to = [x \in Nodes |-> IF x = ps[1] \/ (Len(ps) = 2 /\ x = ps[2]) THEN t ELSE w.own[x]]
  BY Zenon
<1>11. Yields(tree', OpenTabs', to)
  <2>1. tree' = Built(f, t, ps)
    BY <1>3, <1>7 DEF LoadLayoutOver
  <2>2. t \in Tabs \ open /\ open \cup {t} = OpenTabs
    BY <1>3, <1>5, <1>7
  <2>3. Yields(Built(f, t, ps), open \cup {t}, to)
    BY <1>8, <1>9, <1>10, <2>2, BuiltKeeps
  <2>4. OpenTabs' = OpenTabs
    <3>1. UNCHANGED tabs
      BY DEF LoadLayoutOver, sessVars
    <3> QED BY <1>1, <3>1, OpenStays
  <2> QED BY <2>1, <2>2, <2>3, <2>4
<1>12. \A x \in Panes : to[x] # None <=> (m.own[x] # None /\ x \notin gone) \/ x \in NewPanes(n)
  BY <1>5, <1>6, <1>8, <1>9, <1>10
<1>13. shells' = (shells \ gone) \cup NewPanes(n) /\ made'.pane = made.pane + n
  <2>1. made' = [made EXCEPT !.pane = @ + n] /\ made \in Counts
    BY <1>1 DEF LoadLayoutOver, TabsInv, RegistryInv, RegistryOK
  <2> QED BY <1>3, <2>1 DEF LoadLayoutOver, Counts
<1>14. n \in Nat /\ UNCHANGED popup
  BY DEF LoadLayoutOver, sessVars
<1> QED BY <1>2, <1>4, <1>11, <1>12, <1>13, <1>14, MovesKeep

\* What the commands that rearrange the panes of the active window find.
LEMMA RearrangedIs ==
  ASSUME TreeInv, TabsInv', NEW s \in Sess, Commands(s), NEW f, Rearrange(f),
         \A m : Sound(tree, OpenTabs, m) /\ ActiveTab(s) \in OpenTabs => Yields(f, OpenTabs, m.own)
  PROVE  TreeOK'
<1>1. TabsInv /\ s \in Range(sessions)
  BY CommandsIn DEF TreeInv, TabsInv
<1>2. PICK m : Sound(tree, OpenTabs, m) /\ Placed(m.own, shells, popup, made.pane)
  BY DEF TreeInv, TreeOK
<1>3. ActiveTab(s) \in OpenTabs
  BY <1>1, OpenOfSession
<1>4. Yields(tree', OpenTabs, m.own)
  BY <1>2, <1>3 DEF Rearrange
<1>5. UNCHANGED <<tabs, shells, popup, made>>
  BY DEF Rearrange, sessVars
<1> QED BY <1>1, <1>2, <1>4, <1>5, RearrangeKeeps

\* A pane of the window becomes the active one.
LEMMA ChosenKeeps ==
  ASSUME NEW f, NEW open, NEW m, Sound(f, open, m), NEW t \in open, NEW p \in Range(PaneList(f, t))
  PROVE  Yields(Activate(Listed(f, t), t, p), open, m.own)
<1>1. PICK g : g = Listed(f, t)
  OBVIOUS
<1>2. Sound(g, open, m)
  BY <1>1, ListedKeeps
<1>3. p \in Panes /\ m.own[p] = t
  <2>1. PaneList(f, t) = m.order[t]
    BY ListIs
  <2>2. Range(m.order[t]) = {x \in Panes : m.own[x] = t}
    BY OrderIs DEF Sound
  <2> QED BY <2>1, <2>2
<1>4. Sound(Activate(g, t, p), open, m)
  BY <1>2, <1>3, ActivateKeeps
<1> QED BY <1>1, <1>4 DEF Yields

LEMMA SelectPaneTree ==
  ASSUME TreeInv, TabsInv', NEW s \in Sess, NEW p, SelectPane(s, p)
  PROVE  TreeOK'
<1>1. PICK t, f : t = ActiveTab(s) /\ f = Activate(Listed(tree, t), t, p)
  OBVIOUS
<1>2. Commands(s) /\ Rearrange(f) /\ p \in Range(PaneList(tree, t))
  BY <1>1 DEF SelectPane
<1>3. \A m : Sound(tree, OpenTabs, m) /\ t \in OpenTabs => Yields(f, OpenTabs, m.own)
  BY <1>1, <1>2, ChosenKeeps
<1> QED BY <1>1, <1>2, <1>3, RearrangedIs

LEMMA LastPaneTree ==
  ASSUME TreeInv, TabsInv', NEW s \in Sess, LastPane(s)
  PROVE  TreeOK'
<1>1. PICK t, p, f : t = ActiveTab(s) /\ p = tree.prev[t] /\ f = Activate(Listed(tree, t), t, p)
  OBVIOUS
<1>2. Commands(s) /\ Rearrange(f) /\ p \in Range(PaneList(tree, t))
  BY <1>1 DEF LastPane
<1>3. \A m : Sound(tree, OpenTabs, m) /\ t \in OpenTabs => Yields(f, OpenTabs, m.own)
  BY <1>1, <1>2, ChosenKeeps
<1> QED BY <1>1, <1>2, <1>3, RearrangedIs

LEMMA SelectLayoutTree ==
  ASSUME TreeInv, TabsInv', NEW s \in Sess, NEW tiled, SelectLayout(s, tiled)
  PROVE  TreeOK'
<1>1. PICK t, f : t = ActiveTab(s) /\ f = Arranged(tree, t, tiled)
  OBVIOUS
<1>2. Commands(s) /\ Rearrange(f)
  BY <1>1 DEF SelectLayout
<1>3. \A m : Sound(tree, OpenTabs, m) /\ t \in OpenTabs => Yields(f, OpenTabs, m.own)
  BY <1>1, ArrangedKeeps
<1> QED BY <1>1, <1>2, <1>3, RearrangedIs

LEMMA SwapPanesTree ==
  ASSUME TreeInv, TabsInv', NEW s \in Sess, NEW p \in Panes, NEW q \in Panes, SwapPanes(s, p, q)
  PROVE  TreeOK'
<1>1. PICK t, f : t = ActiveTab(s) /\ f = Exchanged(tree, t, p, q)
  OBVIOUS
<1>2. Commands(s) /\ Rearrange(f) /\ p # q /\ {p, q} \subseteq Range(PaneList(tree, t))
  BY <1>1 DEF SwapPanes
<1>3. ASSUME NEW m, Sound(tree, OpenTabs, m), t \in OpenTabs
      PROVE  Yields(f, OpenTabs, m.own)
  <2>1. PaneList(tree, t) = m.order[t]
    BY <1>3, ListIs
  <2>2. Range(m.order[t]) = {x \in Panes : m.own[x] = t}
    BY <1>3, OrderIs DEF Sound
  <2>3. m.own[p] = t /\ m.own[q] = t
    BY <1>2, <2>1, <2>2
  <2> QED BY <1>1, <1>2, <1>3, <2>3, SwapPanesSound
<1> QED BY <1>1, <1>2, <1>3, RearrangedIs

\* The next place in a ring of n, in either direction.
Turn(n, forward) ==
  [i \in 1..n |-> IF forward THEN (i % n) + 1 ELSE IF i = 1 THEN n ELSE i - 1]

LEMMA TurnIs ==
  ASSUME NEW n \in Nat, n >= 2, NEW forward
  PROVE  /\ Turn(n, forward) \in [1..n -> 1..n]
         /\ \A i, j \in 1..n : Turn(n, forward)[i] = Turn(n, forward)[j] => i = j
         /\ \A i \in 1..n : \E j \in 1..n : Turn(n, forward)[j] = i
<1>1. PICK g : g = Turn(n, forward)
  OBVIOUS
<1>2. CASE forward
  <2>1. \A i \in 1..n : g[i] = IF i = n THEN 1 ELSE i + 1
    <3> SUFFICES ASSUME NEW i \in 1..n PROVE g[i] = IF i = n THEN 1 ELSE i + 1
      OBVIOUS
    <3>1. g[i] = (i % n) + 1
      BY <1>1, <1>2 DEF Turn
    <3>2. i % n = IF i = n THEN 0 ELSE i
      OBVIOUS
    <3> QED BY <3>1, <3>2
  <2>2. DOMAIN g = 1..n /\ g = [i \in 1..n |-> g[i]]
    BY <1>1 DEF Turn
  <2>3. g \in [1..n -> 1..n]
    BY <2>1, <2>2
  <2>4. \A i, j \in 1..n : g[i] = g[j] => i = j
    BY <2>1
  <2>5. ASSUME NEW i \in 1..n PROVE \E j \in 1..n : g[j] = i
    <3>1. PICK j : j = IF i = 1 THEN n ELSE i - 1
      OBVIOUS
    <3>2. j \in 1..n /\ g[j] = i
      BY <2>1, <3>1
    <3> QED BY <3>2
  <2> QED BY <1>1, <2>3, <2>4, <2>5, Zenon
<1>3. CASE ~forward
  <2>1. \A i \in 1..n : g[i] = IF i = 1 THEN n ELSE i - 1
    BY <1>1, <1>3 DEF Turn
  <2>2. DOMAIN g = 1..n /\ g = [i \in 1..n |-> g[i]]
    BY <1>1 DEF Turn
  <2>3. g \in [1..n -> 1..n]
    BY <2>1, <2>2
  <2>4. \A i, j \in 1..n : g[i] = g[j] => i = j
    BY <2>1
  <2>5. ASSUME NEW i \in 1..n PROVE \E j \in 1..n : g[j] = i
    <3>1. PICK j : j = IF i = n THEN 1 ELSE i + 1
      OBVIOUS
    <3>2. j \in 1..n /\ g[j] = i
      BY <2>1, <3>1
    <3> QED BY <3>2
  <2> QED BY <1>1, <2>3, <2>4, <2>5, Zenon
<1> QED BY <1>2, <1>3, Zenon

\* What rotate_panes makes of a window.
Rotated(f, t, forward) ==
  LET l == PaneList(f, t)
      n == Len(l)
      next(i) == IF forward THEN (i % n) + 1 ELSE IF i = 1 THEN n ELSE i - 1
  IN IF n < 2 THEN Listed(f, t)
     ELSE Permuted(f, t, [p \in Range(l) |-> l[next(CHOOSE i \in 1..n : l[i] = p)]])

LEMMA RotatedIs ==
  ASSUME NEW f, NEW t, NEW forward, NEW l, l = PaneList(f, t), NEW n, n = Len(l), n \in Nat,
         n >= 2, NEW g, g = Turn(n, forward)
  PROVE  Rotated(f, t, forward) =
           Permuted(f, t, Passed(l, n, g))
<1> DEFINE place(p) == CHOOSE i \in 1..n : l[i] = p
           after(i) == IF forward THEN (i % n) + 1 ELSE IF i = 1 THEN n ELSE i - 1
<1>1. Rotated(f, t, forward) = Permuted(f, t, [p \in Range(l) |-> l[after(place(p))]])
  <2>1. Rotated(f, t, forward) =
          IF n < 2 THEN Listed(f, t) ELSE Permuted(f, t, [p \in Range(l) |-> l[after(place(p))]])
    BY DEF Rotated
  <2>2. ~(n < 2)
    OBVIOUS
  <2> HIDE DEF after, place
  <2> QED BY <2>1, <2>2
<1>2. \A p \in Range(l) : l[after(place(p))] = l[g[place(p)]]
  <2> SUFFICES ASSUME NEW p \in Range(l) PROVE l[after(place(p))] = l[g[place(p)]]
    BY Zenon
  <2>1. \E i \in 1..n : l[i] = p
    BY DEF Range
  <2>2. place(p) \in 1..n
    BY <2>1
  <2> HIDE DEF place
  <2>3. after(place(p)) = g[place(p)]
    BY <2>2 DEF Turn
  <2> QED BY <2>3
<1>3. [p \in Range(l) |-> l[after(place(p))]] = [p \in Range(l) |-> l[g[place(p)]]]
  <2> HIDE DEF after, place
  <2> QED BY <1>2
<1>4. Passed(l, n, g) = [p \in Range(l) |-> l[g[place(p)]]]
  BY DEF Passed
<1> HIDE DEF after, place
<1> QED BY <1>1, <1>3, <1>4

LEMMA RotatedKeeps ==
  ASSUME NEW f, NEW open, NEW m, Sound(f, open, m), NEW t \in open, NEW forward
  PROVE  Yields(Rotated(f, t, forward), open, m.own)
<1>1. PICK l, n, g : l = PaneList(f, t) /\ n = Len(l) /\ g = Turn(n, forward)
  BY Zenon
<1>2. l = m.order[t] /\ n \in Nat /\ l \in Seq(Panes)
  BY <1>1, ListIs, OrderIs DEF Sound
<1>3. CASE n < 2
  <2>1. Rotated(f, t, forward) = Listed(f, t)
    BY <1>1, <1>3 DEF Rotated
  <2>2. Sound(Listed(f, t), open, m)
    BY ListedKeeps
  <2> QED BY <2>1, <2>2 DEF Yields
<1>4. CASE n >= 2
  <2>1. /\ g \in [1..n -> 1..n]
        /\ \A i, j \in 1..n : g[i] = g[j] => i = j
        /\ \A i \in 1..n : \E j \in 1..n : g[j] = i
    <3>1. /\ Turn(n, forward) \in [1..n -> 1..n]
          /\ \A i, j \in 1..n : Turn(n, forward)[i] = Turn(n, forward)[j] => i = j
          /\ \A i \in 1..n : \E j \in 1..n : Turn(n, forward)[j] = i
      BY <1>2, <1>4, TurnIs, Zenon
    <3> QED BY <1>1, <3>1
  <2>2. l = PaneList(f, t) /\ n = Len(l) /\ n \in Nat /\ n >= 2 /\ g = Turn(n, forward)
    BY <1>1, <1>2, <1>4
  <2>3. Rotated(f, t, forward) = Permuted(f, t, Passed(l, n, g))
    BY <2>2, RotatedIs
  <2>4. Yields(Permuted(f, t, Passed(l, n, g)), open, m.own)
    <3>1. l = m.order[t]
      BY <1>2
    <3>2. n = Len(l) /\ n >= 2
      BY <2>2
    <3>3. g \in [1..n -> 1..n]
      BY <2>1
    <3>4. \A i, j \in 1..n : g[i] = g[j] => i = j
      BY <2>1
    <3>5. \A i \in 1..n : \E j \in 1..n : g[j] = i
      BY <2>1
    <3> QED BY <3>1, <3>2, <3>3, <3>4, <3>5, RotateKeeps, ZenonT(30)
  <2> QED BY <2>3, <2>4
<1> QED BY <1>2, <1>3, <1>4

LEMMA RotatePanesTree ==
  ASSUME TreeInv, TabsInv', NEW s \in Sess, NEW forward, RotatePanes(s, forward)
  PROVE  TreeOK'
<1>1. Commands(s) /\ Rearrange(Rotated(tree, ActiveTab(s), forward))
  BY DEF RotatePanes, Rotated
<1>2. PICK t, f : t = ActiveTab(s) /\ f = Rotated(tree, t, forward)
  OBVIOUS
<1>3. \A m : Sound(tree, OpenTabs, m) /\ t \in OpenTabs => Yields(f, OpenTabs, m.own)
  BY <1>2, RotatedKeeps
<1>4. Commands(s) /\ Rearrange(f)
  BY <1>1, <1>2
<1> QED BY <1>2, <1>3, <1>4, RearrangedIs

-----------------------------------------------------------------------------
(* Every step.                                                             *)

LEMMA RearrangedTree ==
  ASSUME TreeInv, TabsInv', NEW s \in Sess, Rearranged(s)
  PROVE  TreeOK'
<1>1. TabsInv
  BY DEF TreeInv
<1>2. SameTabs
  BY <1>1, RearrangedTabs
<1>3. CASE LastPane(s)
  BY <1>3, LastPaneTree
<1>4. ASSUME NEW p \in Panes, SelectPane(s, p)
      PROVE  TreeOK'
  BY <1>4, SelectPaneTree
<1>5. ASSUME NEW p \in Panes, NEW q \in Panes, SwapPanes(s, p, q)
      PROVE  TreeOK'
  BY <1>5, SwapPanesTree
<1>6. ASSUME NEW choice \in BOOLEAN, SelectLayout(s, choice)
      PROVE  TreeOK'
  BY <1>6, SelectLayoutTree
<1>7. ASSUME NEW choice \in BOOLEAN, RotatePanes(s, choice)
      PROVE  TreeOK'
  BY <1>7, RotatePanesTree
<1>8. CASE LastTab(s)
  BY <1>2, <1>8, TabOrderTree DEF LastTab
<1>9. CASE \E i \in Indices : SelectTab(s, i) \/ SwapTabs(s, i)
  BY <1>2, <1>9, TabOrderTree
<1>10. CASE \E i, j \in Indices : MoveTab(s, i, j)
  BY <1>2, <1>10, TabOrderTree
<1>11. CASE \E i \in Indices, value \in BOOLEAN : SetPinned(s, i, value)
  BY <1>2, <1>11, TabOrderTree
<1> QED BY <1>3, <1>4, <1>5, <1>6, <1>7, <1>8, <1>9, <1>10, <1>11 DEF Rearranged

LEMMA CommandTree ==
  ASSUME TreeInv, TabsInv', NEW s \in Sess, Command(s)
  PROVE  TreeOK'
<1>1. CASE SplitPane(s) \/ KillPane(s) \/ BreakPane(s) \/ KillTab(s)
  BY <1>1, SplitPaneTree, KillPaneTree, BreakPaneTree, KillTabTree
<1>2. CASE PopupOpen(s) \/ PopupClose(s) \/ KillSession(s)
  BY <1>2, PopupOpenTree, PopupCloseTree, KillSessionTree
<1>3. CASE RenameSession(s)
  BY <1>3, OthersTree
<1>4. CASE RestoreLayout(s)
  BY <1>4, OneTabTree DEF RestoreLayout
<1>5. ASSUME NEW i \in Indices, JoinPane(s, i) \/ \E p \in Panes : MovePaneToTab(s, p, i)
      PROVE  TreeOK'
  BY <1>5, PaneMovesTree
<1>6. ASSUME NEW n \in 1..2, LoadLayoutNew(s, n)
      PROVE  TreeOK'
  BY <1>6, LoadLayoutNewTree
<1>7. ASSUME NEW n \in 1..2, LoadLayoutOver(s, n)
      PROVE  TreeOK'
  BY <1>7, LoadLayoutOverTree
<1> QED BY <1>1, <1>2, <1>3, <1>4, <1>5, <1>6, <1>7 DEF Command

LEMMA InitTree == Init => TreeInv
<1> SUFFICES ASSUME Init PROVE TreeInv
  OBVIOUS
<1>1. TabsInv
  BY InitTabs
<1>2. /\ OpenTabs = {} /\ tree = NoTree /\ shells = {} /\ popup = [s \in Sess |-> None]
      /\ made.pane = 0
  BY DEF Init, OpenTabs, Range
<1>3. PICK m : m = [own |-> [x \in Nodes |-> None], lo |-> [x \in Nodes |-> 0],
                    hi |-> [x \in Nodes |-> 0], cut |-> [x \in Splits |-> 0],
                    order |-> [t \in Tabs |-> <<>>]]
  BY Zenon
<1>4. m \in Marks /\ \A x \in Nodes : m.own[x] = None
  <2>1. <<>> \in Seq(Panes)
    OBVIOUS
  <2> QED BY <1>3, <2>1 DEF Marks
<1>5. NoTree \in Trees
  <2>1. <<>> \in Seq(Panes) /\ NoKids \in (Nodes \cup {None}) \X (Nodes \cup {None})
    BY DEF NoKids
  <2> QED BY <2>1 DEF NoTree, Trees
<1>6. Numbered(NoTree, {}, m)
  <2>1. NodesOK({}, m)
    BY <1>4 DEF NodesOK
  <2>2. PlacesOK({}, m)
    BY <1>4 DEF PlacesOK, Nodes
  <2>3. CutsOK({}, m)
    BY <1>4 DEF CutsOK, Nodes
  <2>4. SplitsOK(NoTree, m)
    BY <1>4 DEF SplitsOK, Nodes, NoTree
  <2>5. \A n \in Nodes : Hangs(NoTree, m, n)
    BY <1>4 DEF Hangs, NoTree
  <2> QED BY <1>4, <1>5, <2>1, <2>2, <2>3, <2>4, <2>5 DEF Numbered
<1>7. WindowsOK(NoTree, {}, m)
  BY DEF WindowsOK, NoTree
<1>8. Placed(m.own, {}, [s \in Sess |-> None], 0)
  <2>1. 0 <= MaxPane
    BY WindowTreeAssumption
  <2>2. \A p \in Panes : m.own[p] = None
    BY <1>4 DEF Nodes
  <2> QED BY <2>1, <2>2 DEF Placed, None
<1> QED BY <1>1, <1>2, <1>6, <1>7, <1>8 DEF TreeInv, TreeOK, Sound

LEMMA NextTree == TreeInv /\ [Next]_vars => TreeInv'
<1> SUFFICES ASSUME TreeInv, [Next]_vars
             PROVE  TreeInv'
  OBVIOUS
<1>1. TabsInv'
  BY NextTabs DEF TreeInv
<1>2. ASSUME NEW s \in Sess, Command(s) \/ Rearranged(s)
      PROVE  TreeOK'
  BY <1>1, <1>2, CommandTree, RearrangedTree
<1>3. ASSUME NEW c \in Clients, NewTab(c) \/ Attach(c)
      PROVE  TreeOK'
  BY <1>1, <1>3, NewTabTree, AttachTree
<1>4. ASSUME NEW c \in Clients, NewSession(c)
      PROVE  TreeOK'
  BY <1>1, <1>4, OneTabTree DEF NewSession
<1>5. ASSUME NEW p \in Panes, ShellExits(p)
      PROVE  TreeOK'
  BY <1>1, <1>5, PaneEofTree DEF ShellExits
<1>6. Flush => TreeOK'
  BY <1>1, FlushTree
<1>7. ASSUME \/ \E c \in Clients : DetachClient(c)
             \/ \E c \in Clients, s \in Sess : SwitchSession(c, s)
             \/ UNCHANGED vars
      PROVE  TreeOK'
  BY <1>1, <1>7, OthersTree
<1>8. TreeOK'
  BY <1>2, <1>3, <1>4, <1>5, <1>6, <1>7 DEF Next
<1> QED BY <1>1, <1>8 DEF TreeInv

\* Only as many tabs are made as have a number.
LEMMA NextTabNumbers ==
  ASSUME TabsInv, made.tab <= MaxTab, [Next]_vars
  PROVE  made'.tab <= MaxTab
<1>1. ASSUME NEW a \in 0..2, NEW b \in 0..2, NEW k \in 0..1, CanMake(a, b, k), Made(a, b, k)
      PROVE  made'.tab <= MaxTab
  BY <1>1 DEF CanMake, Made
<1>2. ASSUME NEW ts, NEW a, CanMake(a, Len(ts), 1), OpenSession(ts)
      PROVE  made'.tab <= MaxTab
  BY <1>2, Zenon DEF CanMake, Made, OpenSession
<1>3. ASSUME CanMake(1, 1, 1), OpenSession(<<made.tab + 1>>)
      PROVE  made'.tab <= MaxTab
  <2>1. Len(<<made.tab + 1>>) = 1
    OBVIOUS
  <2>2. CanMake(1, Len(<<made.tab + 1>>), 1)
    BY <1>3, <2>1
  <2> QED BY <1>2, <1>3, <2>2, Zenon
<1>4. ASSUME NEW s \in Sess, Command(s)
      PROVE  made'.tab <= MaxTab
  <2>1. CASE SplitPane(s) \/ BreakPane(s) \/ \E n \in 1..2 : LoadLayoutNew(s, n)
    BY <2>1 DEF SplitPane, BreakPane, LoadLayoutNew, CanMake, Made
  <2>2. CASE \/ PopupOpen(s) \/ PopupClose(s) \/ RenameSession(s) \/ KillPane(s) \/ KillTab(s)
             \/ KillSession(s) \/ \E n \in 1..2 : LoadLayoutOver(s, n)
    <3>1. made'.tab = made.tab
      BY <2>2 DEF PopupOpen, PopupClose, RenameSession, KillPane, PaneEof, KillTab, KillSession,
                  LoadLayoutOver, TabsInv, RegistryInv, RegistryOK, Counts
    <3> QED BY <3>1
  <2>3. CASE RestoreLayout(s)
    BY <1>3, <2>3 DEF RestoreLayout
  <2>4. ASSUME NEW i \in Indices, JoinPane(s, i) \/ \E p \in Panes : MovePaneToTab(s, p, i)
        PROVE  made'.tab <= MaxTab
    BY <2>4 DEF JoinPane, MovePaneToTab, Carry
  <2> QED BY <1>4, <2>1, <2>2, <2>3, <2>4 DEF Command
<1>5. ASSUME NEW s \in Sess, Rearranged(s)
      PROVE  made'.tab <= MaxTab
  <2>1. UNCHANGED made
    BY <1>5, Zenon DEF Rearranged, LastPane, LastTab, SelectPane, SwapPanes, SelectLayout, RotatePanes,
                SelectTab, SwapTabs, MoveTab, SetPinned, Rearrange, Reorder
  <2> QED BY <2>1
<1>6. ASSUME NEW c \in Clients, NewTab(c)
      PROVE  made'.tab <= MaxTab
  <2>1. CASE CanMake(2, 2, 1) /\ OpenSession(<<made.tab + 1, made.tab + 2>>)
    <3>1. PICK ts : ts = <<made.tab + 1, made.tab + 2>>
      BY Zenon
    <3>2. CanMake(2, Len(ts), 1) /\ OpenSession(ts)
      <4>1. Len(ts) = 2
        BY <3>1
      <4> QED BY <2>1, <3>1, <4>1
    <3> QED BY <1>2, <3>2
  <2>2. ASSUME NEW s, CanMake(1, 1, 0), OpenTab(s, made.pane + 1, made.tab + 1)
        PROVE  made'.tab <= MaxTab
    BY <2>2 DEF OpenTab, CanMake, Made
  <2> QED BY <1>6, <2>1, <2>2 DEF NewTab
<1>7. ASSUME NEW c \in Clients, NewSession(c) \/ Attach(c)
      PROVE  made'.tab <= MaxTab
  BY <1>3, <1>7 DEF NewSession, Attach
<1>8. ASSUME \/ \E p \in Panes : ShellExits(p)
             \/ \E c \in Clients : DetachClient(c)
             \/ \E c \in Clients, s \in Sess : SwitchSession(c, s)
             \/ Flush \/ UNCHANGED vars
      PROVE  made'.tab <= MaxTab
  <2>1. UNCHANGED made
    BY <1>8 DEF ShellExits, PaneEof, DetachClient, SwitchSession, Flush, vars
  <2> QED BY <2>1
<1> QED BY <1>4, <1>5, <1>6, <1>7, <1>8 DEF Next

\* What the invariant says of the types.
LEMMA TreesTyped ==
  ASSUME TreeInv, made.tab <= MaxTab
  PROVE  TreeTypeOK
<1>1. TabsInv
  BY DEF TreeInv
<1>2. PICK m : Sound(tree, OpenTabs, m) /\ Placed(m.own, shells, popup, made.pane)
  BY DEF TreeInv, TreeOK
<1>3. /\ running \in BOOLEAN /\ views \in [Clients -> Sess \cup {None, Away}]
      /\ Range(sessions) \subseteq Sess
  BY <1>1 DEF TabsInv, RegistryInv, RegistryOK, Range
<1>4. ASSUME NEW s \in Range(sessions)
      PROVE  /\ tabs[s] # <<>> /\ Range(tabs[s]) \subseteq Tabs
             /\ active[s] \in 0..(Len(tabs[s]) - 1)
             /\ last[s] \in Nat
  BY <1>1, TabsOfSession DEF Range
<1>5. pinned \subseteq Tabs
  <2>1. pinned \subseteq 1..made.tab /\ made.tab \in Nat
    BY <1>1, NewAreClosed DEF TabsInv, TabsOK
  <2> QED BY <2>1, WindowTreeAssumption DEF Tabs
<1>6. popup \in [Sess -> Panes \cup {None}] /\ shells \subseteq 1..made.pane
  BY <1>2 DEF Placed
<1>7. /\ tree.kids \in [Splits -> (Nodes \cup {None}) \X (Nodes \cup {None})]
      /\ tree.up \in [Nodes -> Splits \cup {None}]
  BY <1>2, TreeFields DEF Sound, Numbered
<1> QED BY <1>3, <1>4, <1>5, <1>6, <1>7 DEF TreeTypeOK

\* What the numbering says of the links of the trees.
LEMMA LinksFit ==
  ASSUME TreeInv
  PROVE  LinksAgree
<1>1. PICK m : Sound(tree, OpenTabs, m) /\ Placed(m.own, shells, popup, made.pane)
  BY DEF TreeInv, TreeOK
<1>2. Numbered(tree, OpenTabs, m) /\ m \in Marks
  BY <1>1 DEF Sound, Numbered
<1>3. ASSUME NEW t \in OpenTabs
      PROVE  tree.up[tree.root[t]] = None
  <2>1. tree.root[t] \in Nodes /\ m.own[tree.root[t]] = t
    BY <1>2 DEF Numbered, RootOK
  <2>2. Hangs(tree, m, tree.root[t])
    BY <1>2, <2>1 DEF Numbered
  <2> QED BY <2>1, <2>2 DEF Hangs
<1>4. ASSUME NEW t \in OpenTabs
      PROVE  tree.act[t] \in PanesOf(t)
  <2>1. tree.act[t] \in Panes /\ m.own[tree.act[t]] = t
    BY <1>1, TreeIs
  <2>2. Leaves(tree, tree.root[t]) = m.order[t] /\ Range(m.order[t]) = {p \in Panes : m.own[p] = t}
    BY <1>2, OrderIs
  <2> QED BY <2>1, <2>2 DEF PanesOf
<1>5. ASSUME NEW t \in OpenTabs, NEW s \in SplitsOf(tree, t), NEW i \in 1..2
      PROVE  tree.up[tree.kids[s][i]] = s
  <2>1. s \in Splits /\ m.own[s] = t /\ t # None
    BY <1>2, SplitsOfIs, OrderIs
  <2>2. Shares(tree, m, s)
    BY <1>2, <2>1 DEF Numbered, SplitsOK
  <2>3. i = 1 \/ i = 2
    OBVIOUS
  <2> QED BY <2>2, <2>3 DEF Shares
<1>6. ASSUME NEW s \in Splits, tree.kids[s] # NoKids
      PROVE  \E t \in OpenTabs : s \in SplitsOf(tree, t)
  <2>1. m.own[s] # None
    BY <1>2, <1>6 DEF Numbered, SplitsOK
  <2>2. m.own[s] \in OpenTabs
    BY <1>2, <2>1 DEF Numbered, NodesOK, Nodes
  <2>3. PICK t \in OpenTabs : m.own[s] = t
    BY <2>2
  <2>4. s \in SplitsOf(tree, t)
    BY <1>2, <2>3, SplitsOfIs
  <2> QED BY <2>4
<1> QED BY <1>3, <1>4, <1>5, <1>6 DEF LinksAgree

LEMMA CachesFit ==
  ASSUME TreeInv
  PROVE  CacheFresh
<1>1. PICK m : Sound(tree, OpenTabs, m) /\ Placed(m.own, shells, popup, made.pane)
  BY DEF TreeInv, TreeOK
<1>2. ASSUME NEW t \in OpenTabs
      PROVE  tree.cache[t] \in {<<>>, Leaves(tree, tree.root[t])}
  <2>1. Leaves(tree, tree.root[t]) = m.order[t]
    BY <1>1, OrderIs DEF Sound
  <2> QED BY <1>1, <2>1 DEF Sound, WindowsOK
<1> QED BY <1>2 DEF CacheFresh

\* What the numbering and the popups say of the places of the panes.
LEMMA PanesFit ==
  ASSUME TreeInv
  PROVE  NoPaneLost
<1>1. PICK m : Sound(tree, OpenTabs, m) /\ Placed(m.own, shells, popup, made.pane)
  BY DEF TreeInv, TreeOK
<1>2. ASSUME NEW t \in OpenTabs
      PROVE  /\ Leaves(tree, tree.root[t]) = m.order[t] /\ IsInjective(m.order[t])
             /\ PanesOf(t) = {p \in Panes : m.own[p] = t} /\ t # None
  BY <1>1, OrderIs DEF Sound, PanesOf
<1>3. ASSUME NEW t \in OpenTabs
      PROVE  PanesOf(t) \subseteq shells /\ IsInjective(Leaves(tree, tree.root[t]))
  <2>1. \A p \in Panes : m.own[p] # None => p \in shells
    BY <1>1 DEF Placed
  <2> QED BY <1>2, <2>1
<1>4. ASSUME NEW p \in shells
      PROVE  Cardinality({t \in OpenTabs : p \in PanesOf(t)})
               + Cardinality({s \in Sess : popup[s] = p}) = 1
  <2>1. p \in Panes /\ p # None
    <3>1. shells \subseteq 1..made.pane /\ made.pane \in Nat /\ made.pane <= MaxPane
      BY <1>1 DEF Placed
    <3> QED BY <3>1, WindowTreeAssumption DEF Panes, None
  <2>2. \A t \in OpenTabs : p \in PanesOf(t) <=> m.own[p] = t
    BY <1>2, <2>1
  <2>3. CASE m.own[p] = None
    <3>1. {t \in OpenTabs : p \in PanesOf(t)} = {}
      BY <1>2, <2>2, <2>3
    <3>2. PICK s \in Sess : popup[s] = p
      BY <1>1, <2>3 DEF Placed
    <3>3. \A r \in Sess : popup[r] = p => r = s
      BY <1>1, <2>1, <3>2 DEF Placed
    <3>4. {r \in Sess : popup[r] = p} = {s}
      BY <3>2, <3>3
    <3>5. Cardinality({t \in OpenTabs : p \in PanesOf(t)}) = 0
      BY <3>1, FS_EmptySet
    <3>6. Cardinality({r \in Sess : popup[r] = p}) = 1
      BY <3>4, FS_Singleton, Zenon
    <3> QED BY <3>5, <3>6
  <2>4. CASE m.own[p] # None
    <3>1. PICK t : t = m.own[p]
      OBVIOUS
    <3>2. t \in OpenTabs
      BY <1>1, <2>1, <2>4, <3>1, TreeIs
    <3>3. {u \in OpenTabs : p \in PanesOf(u)} = {t}
      BY <2>2, <3>1, <3>2
    <3>4. {s \in Sess : popup[s] = p} = {}
      <4>1. \A s \in Sess : popup[s] # p
        BY <1>1, <2>1, <2>4 DEF Placed
      <4> QED BY <4>1
    <3>5. Cardinality({u \in OpenTabs : p \in PanesOf(u)}) = 1
      BY <3>3, FS_Singleton, Zenon
    <3>6. Cardinality({s \in Sess : popup[s] = p}) = 0
      BY <3>4, FS_EmptySet
    <3> QED BY <3>5, <3>6
  <2> QED BY <2>3, <2>4
<1> QED BY <1>3, <1>4 DEF NoPaneLost

-----------------------------------------------------------------------------

\* In every behaviour the sessions, the popups and the links of the trees keep
\* their types and the indices of a session stay in range: Session.active_tab
\* clamps the active one when it is read, and the commands of servercmd.py and
\* servertree.py compute the others.
THEOREM TreeTypeCorrect == Spec => []TreeTypeOK
<1> DEFINE Inv == TreeInv /\ made.tab <= MaxTab
<1>1. Init => Inv
  BY InitTree, WindowTreeAssumption DEF Init
<1>2. Inv /\ [Next]_vars => Inv'
  BY NextTree, NextTabNumbers DEF TreeInv
<1>3. Inv => TreeTypeOK
  BY TreesTyped
<1> HIDE DEF Inv
<1> QED BY <1>1, <1>2, <1>3, PTL DEF Spec

\* In every behaviour parents and children agree in every tree, the active pane
\* of a window is one of its leaves and no split is lost, although split_pane,
\* _detach_pane, join_pane, break_pane, apply_preset, rotate_panes, swap_pane
\* and load_tab_layout each set the links by hand.
THEOREM LinksAgreeCorrect == Spec => []LinksAgree
BY InitTree, NextTree, LinksFit, PTL DEF Spec

\* In every behaviour the list that Window.panes has cached is the one a walk
\* over the tree would give: no surgery on a tree forgets to drop it, and the
\* trees that are left alone may keep theirs.
THEOREM CacheFreshCorrect == Spec => []CacheFresh
BY InitTree, NextTree, CachesFit, PTL DEF Spec

\* In every behaviour a pane whose shell runs is in one place, a leaf of one
\* open tab or one popup, and every leaf has a running shell: _pane_eof,
\* break_pane, join_pane, move_pane_to_tab, kill_window, kill_session,
\* load_tab_layout and popup_open neither lose a pane nor show one twice.
THEOREM NoPaneLostCorrect == Spec => []NoPaneLost
BY InitTree, NextTree, PanesFit, PTL DEF Spec

=============================================================================

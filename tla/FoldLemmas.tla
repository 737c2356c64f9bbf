----------------------------- MODULE FoldLemmas -----------------------------
(***************************************************************************)
(* Induction over numbers, and what a fold over a sequence computes, for   *)
(* the modules that prove something about a model.  The induction theorems *)
(* of the library take an operator as a parameter; here the property is a  *)
(* set, and the induction is the existence of a least counterexample.      *)
(***************************************************************************)
EXTENDS Integers, FiniteSets, SequencesExt, FiniteSetTheorems, SequenceTheorems,
        WellFoundedInduction, TLAPS

-----------------------------------------------------------------------------
(* Numbers.                                                                *)

\* What holds at 0 and goes from each number to the next holds up to n.
LEMMA Climb ==
  ASSUME NEW n \in Nat, NEW S, 0 \in S, \A k \in 1..n : k - 1 \in S => k \in S
  PROVE  n \in S
<1> DEFINE R == OpToRel(<, Nat)
           Missing == {k \in 0..n : k \notin S}
<1>1. IsWellFoundedOn(R, Nat)
  BY NatLessThanWellFounded
<1>2. \A i, j \in Nat : i < j => <<i, j>> \in R
  BY DEF OpToRel
<1> HIDE DEF R
<1> SUFFICES ASSUME Missing # {} PROVE FALSE
  OBVIOUS
<1>3. Missing \subseteq Nat
  OBVIOUS
<1>4. PICK k \in Missing : \A j \in Missing : ~(<<j, k>> \in R)
  BY <1>1, <1>3, WFMin
<1>5. k \in 1..n /\ k - 1 \in 0..n
  OBVIOUS
<1>6. <<k - 1, k>> \in R
  <2>1. k - 1 \in Nat /\ k \in Nat /\ k - 1 < k
    BY <1>5
  <2> QED BY <1>2, <2>1
<1>7. k - 1 \notin Missing
  BY <1>4, <1>6
<1>8. k - 1 \in S /\ k \notin S
  BY <1>5, <1>7
<1> QED BY <1>5, <1>8

\* Every set of natural numbers that is not empty has a least member.
LEMMA LeastMember ==
  ASSUME NEW S, S \subseteq Nat, S # {}
  PROVE  \E n \in S : \A m \in S : n <= m
<1> DEFINE R == OpToRel(<, Nat)
<1>1. IsWellFoundedOn(R, Nat)
  BY NatLessThanWellFounded
<1>2. \A m, n \in Nat : m < n => <<m, n>> \in R
  BY DEF OpToRel
<1> HIDE DEF R
<1>3. PICK n \in S : \A m \in S : ~(<<m, n>> \in R)
  BY <1>1, WFMin
<1>4. ASSUME NEW m \in S
      PROVE  n <= m
  <2>1. ~(m < n)
    BY <1>2, <1>3
  <2> QED BY <2>1
<1> QED BY <1>4

\* A bounded one has a greatest, which is what Max picks.
LEMMA MaxIsMember ==
  ASSUME NEW n \in Nat, NEW S, S \subseteq 1..n, S # {}
  PROVE  Max(S) \in S
<1> DEFINE T == {n - x : x \in S}
<1>1. T \subseteq Nat /\ T # {}
  <2>1. \A x \in S : x \in 1..n /\ n - x \in Nat
    OBVIOUS
  <2>2. PICK x \in S : TRUE
    OBVIOUS
  <2>3. n - x \in T
    OBVIOUS
  <2> QED BY <2>1, <2>3
<1>2. PICK t \in T : \A u \in T : t <= u
  BY <1>1, LeastMember
<1>3. PICK x \in S : t = n - x
  BY <1>2
<1>4. \A y \in S : x >= y
  <2> SUFFICES ASSUME NEW y \in S PROVE x >= y
    OBVIOUS
  <2>1. n - y \in T /\ n - x <= n - y
    BY <1>2, <1>3
  <2> QED BY <2>1
<1> QED BY <1>4 DEF Max

\* The greatest number up to k.
LEMMA MaxUpTo ==
  ASSUME NEW k \in Nat, k >= 1, NEW s \in SUBSET (1..k), k \in s
  PROVE  Max(s) = k
<1>1. \A y \in s : y \in Int /\ k >= y
  OBVIOUS
<1>2. \A x \in s : (\A y \in s : x >= y) => x = k
  BY <1>1
<1> QED BY <1>1, <1>2 DEF Max

-----------------------------------------------------------------------------
(* Slices.                                                                 *)

\* What is taken off the front or left of a sequence is of its type.
LEMMA SliceType ==
  ASSUME NEW T, NEW q \in Seq(T), NEW n \in 0..Len(q)
  PROVE  SubSeq(q, 1, n) \in Seq(T) /\ SubSeq(q, n + 1, Len(q)) \in Seq(T)
<1> DEFINE m == n + 1  k == Len(q)  one == 1
<1>1. k \in Nat /\ n \in Int /\ n <= k /\ m \in Int /\ m >= 1 /\ one \in Int
  OBVIOUS
<1>2. \A i \in one..n : q[i] \in T
  BY <1>1
<1>3. \A i \in m..k : q[i] \in T
  BY <1>1
<1> HIDE DEF one, m, k
<1>4. SubSeq(q, one, n) \in Seq(T)
  BY <1>1, <1>2, SubSeqProperties
<1>5. SubSeq(q, m, k) \in Seq(T)
  BY <1>1, <1>3, SubSeqProperties
<1> QED BY <1>4, <1>5 DEF one, m, k

-----------------------------------------------------------------------------
(* Folds.                                                                  *)

\* g is the way of a fold over the first n of msgs from v: st is the step, its
\* pairs are what was reached and the next element.
Way(g, st, v, msgs, n) ==
  \A s \in SUBSET (1..n) :
    g[s] = IF s = {} THEN v ELSE st[<<g[s \ {Max(s)}], msgs[Max(s)]>>]

\* Every fold has a way, whatever its step is.
LEMMA FoldExists ==
  ASSUME NEW V, NEW M, NEW st \in [V \X M -> V], NEW v \in V, NEW n \in Nat,
         NEW msgs \in [1..n -> M]
  PROVE  \E g \in [SUBSET (1..n) -> V] : Way(g, st, v, msgs, n)
<1> DEFINE Step(g, s) == IF s = {} THEN v ELSE st[<<g[s \ {Max(s)}], msgs[Max(s)]>>]
           Fits(g, k) == /\ g \in [SUBSET (1..k) -> V]
                         /\ \A s \in SUBSET (1..k) : g[s] = Step(g, s)
           S == {k \in Nat : \E g : Fits(g, k)}
<1>1. 0 \in S
  <2> DEFINE g0 == [s \in SUBSET (1..0) |-> v]
  <2>1. \A s \in SUBSET (1..0) : s = {}
    OBVIOUS
  <2>2. Fits(g0, 0)
    BY <2>1, Zenon
  <2> QED BY <2>2
<1>2. ASSUME NEW k \in 1..n, k - 1 \in S
      PROVE  k \in S
  <2>1. PICK g : Fits(g, k - 1)
    BY <1>2
  <2> DEFINE h == [s \in SUBSET (1..k) |->
                     IF k \in s THEN st[<<g[s \ {k}], msgs[k]>>] ELSE g[s]]
  <2>2. ASSUME NEW s \in SUBSET (1..k)
        PROVE  h[s] \in V /\ h[s] = Step(h, s)
    <3>1. CASE k \in s
      <4>1. Max(s) = k
        BY <3>1, MaxUpTo
      <4>2. s \ {k} \in SUBSET (1..k) /\ k \notin s \ {k}
        OBVIOUS
      <4>3. h[s \ {k}] = g[s \ {k}]
        BY <4>2
      <4>4. h[s] = st[<<g[s \ {k}], msgs[k]>>]
        BY <3>1
      <4>5. g[s \ {k}] \in V
        <5>1. s \ {k} \in SUBSET (1..(k - 1))
          OBVIOUS
        <5> QED BY <2>1, <5>1
      <4>6. h[s] \in V
        <5> HIDE DEF h
        <5> QED BY <4>4, <4>5
      <4> HIDE DEF h
      <4> QED BY <3>1, <4>1, <4>3, <4>4, <4>6
    <3>2. CASE k \notin s
      <4>1. s \in SUBSET (1..(k - 1)) /\ s \ {Max(s)} \in SUBSET (1..(k - 1))
        <5>1. \A x \in s : x \in 1..(k - 1)
          BY <3>2
        <5> QED BY <5>1
      <4>2. g[s] = Step(g, s) /\ g[s] \in V
        <5> HIDE DEF Step
        <5> QED BY <2>1, <4>1
      <4>3. k \notin s \ {Max(s)} /\ s \ {Max(s)} \in SUBSET (1..k)
        BY <3>2
      <4>4. h[s] = g[s] /\ h[s \ {Max(s)}] = g[s \ {Max(s)}]
        BY <3>2, <4>3
      <4> HIDE DEF h
      <4> QED BY <4>2, <4>4
    <3> QED BY <3>1, <3>2
  <2>3. h = [s \in SUBSET (1..k) |-> h[s]]
    OBVIOUS
  <2>4. Fits(h, k)
    <3> HIDE DEF h, Step
    <3> QED BY <2>2, <2>3, Zenon
  <2>5. k \in Nat
    OBVIOUS
  <2> HIDE DEF h, Fits
  <2> QED BY <2>4, <2>5
<1> HIDE DEF S
<1>3. n \in S
  BY <1>1, <1>2, Climb
<1>4. PICK g : Fits(g, n)
  BY <1>3 DEF S
<1> QED BY <1>4 DEF Way

\* The sets a fold passes through.
LEMMA UpToStep ==
  ASSUME NEW k \in Nat, k >= 1
  PROVE  /\ 1..k # {} /\ Max(1..k) = k /\ (1..k) \ {Max(1..k)} = 1..(k - 1)
<1>1. Max(1..k) = k
  BY MaxUpTo
<1> QED BY <1>1

\* What a fold has reached after each element: p[i] after the first i of msgs.
Path(p, st, v, msgs, n) ==
  p[0] = v /\ \A i \in 1..n : p[i] = st[<<p[i - 1], msgs[i]>>]

LEMMA PathExists ==
  ASSUME NEW V, NEW M, NEW st \in [V \X M -> V], NEW v \in V, NEW n \in Nat,
         NEW msgs \in [1..n -> M]
  PROVE  \E p \in [0..n -> V] : Path(p, st, v, msgs, n)
<1>1. PICK g \in [SUBSET (1..n) -> V] : Way(g, st, v, msgs, n)
  BY FoldExists, Zenon
<1> DEFINE p == [i \in 0..n |-> g[1..i]]
<1>2. \A i \in 0..n : 1..i \in SUBSET (1..n) /\ p[i] = g[1..i]
  OBVIOUS
<1>3. p \in [0..n -> V]
  BY <1>2
<1>4. p[0] = v
  <2>1. 1..0 = {} /\ 0 \in 0..n
    OBVIOUS
  <2> HIDE DEF p
  <2> QED BY <1>1, <1>2, <2>1 DEF Way
<1>5. ASSUME NEW i \in 1..n
      PROVE  p[i] = st[<<p[i - 1], msgs[i]>>]
  <2>1. i \in Nat /\ i >= 1 /\ i \in 0..n /\ i - 1 \in 0..n
    OBVIOUS
  <2>2. 1..i # {} /\ Max(1..i) = i /\ (1..i) \ {Max(1..i)} = 1..(i - 1)
    BY <2>1, UpToStep
  <2>3. p[i] = g[1..i] /\ p[i - 1] = g[1..(i - 1)] /\ 1..i \in SUBSET (1..n)
    BY <1>2, <2>1
  <2> HIDE DEF p
  <2> QED BY <1>1, <2>2, <2>3, Zenon DEF Way
<1> QED
  <2> HIDE DEF p
  <2> QED BY <1>3, <1>4, <1>5 DEF Path

-----------------------------------------------------------------------------
(* The elements of a sequence that are in a set.                           *)

\* Appending adds one element.
LEMMA ToSetAppend ==
  ASSUME NEW T, NEW q \in Seq(T), NEW x
  PROVE  ToSet(Append(q, x)) = ToSet(q) \cup {x}
<1> DEFINE r == Append(q, x)  n == Len(q)
<1>1. /\ n \in Nat /\ DOMAIN q = 1..n /\ DOMAIN r = 1..(n + 1)
      /\ r[n + 1] = x /\ \A i \in 1..n : r[i] = q[i]
  OBVIOUS
<1> HIDE DEF r, n
<1>2. \A i \in 1..(n + 1) : i \in 1..n \/ i = n + 1
  BY <1>1
<1>3. 1..n \subseteq 1..(n + 1) /\ n + 1 \in 1..(n + 1)
  BY <1>1
<1>4. ToSet(r) \subseteq ToSet(q) \cup {x}
  <2> SUFFICES ASSUME NEW i \in 1..(n + 1) PROVE r[i] \in ToSet(q) \cup {x}
    BY <1>1 DEF ToSet
  <2> QED BY <1>1, <1>2 DEF ToSet
<1>5. ToSet(q) \cup {x} \subseteq ToSet(r)
  <2>1. x \in ToSet(r)
    BY <1>1, <1>3 DEF ToSet
  <2>2. ASSUME NEW i \in 1..n PROVE q[i] \in ToSet(r)
    BY <1>1, <1>3 DEF ToSet
  <2> QED BY <1>1, <2>1, <2>2 DEF ToSet
<1> QED BY <1>4, <1>5 DEF r

\* A new element appended keeps the elements distinct.
LEMMA StaysDistinct ==
  ASSUME NEW T, NEW q \in Seq(T), IsInjective(q), NEW x, x \notin ToSet(q),
         NEW r, r = Append(q, x)
  PROVE  IsInjective(r)
<1> DEFINE n == Len(q)
<1>1. /\ n \in Nat /\ DOMAIN q = 1..n /\ DOMAIN r = 1..(n + 1)
      /\ r[n + 1] = x /\ \A i \in 1..n : r[i] = q[i]
  OBVIOUS
<1>2. \A i \in 1..n : q[i] # x
  BY <1>1 DEF ToSet
<1>3. \A i, j \in 1..n : q[i] = q[j] => i = j
  BY <1>1 DEF IsInjective
<1> HIDE DEF n
<1>4. \A i, j \in 1..(n + 1) : r[i] = r[j] => i = j
  BY <1>1, <1>2, <1>3
<1> QED BY <1>1, <1>4 DEF IsInjective

\* The elements of q that are in S, in their order.
Picked(q, S) ==
  FoldLeft(LAMBDA kept, x : IF x \in S THEN Append(kept, x) ELSE kept, <<>>, q)

\* They are elements of both, all of those, and no more often than in q.
LEMMA PickedIs ==
  ASSUME NEW T, NEW q \in Seq(T), NEW S
  PROVE  /\ Picked(q, S) \in Seq(T \cap S)
         /\ ToSet(Picked(q, S)) = ToSet(q) \cap S
         /\ IsInjective(q) => IsInjective(Picked(q, S))
<1> DEFINE n == Len(q)
           Keep(kept, x) == IF x \in S THEN Append(kept, x) ELSE kept
           Fits(g) == g = [s \in SUBSET (DOMAIN q) |->
                        IF s = {} THEN <<>> ELSE Keep(g[s \ {Max(s)}], q[Max(s)])]
           it == CHOOSE g : Fits(g)
<1>1. n \in Nat /\ DOMAIN q = 1..n /\ q \in [1..n -> T]
  OBVIOUS
<1>2. \E g : Fits(g)
  <2> DEFINE st == [x \in Seq(T) \X T |-> Keep(x[1], x[2])]
  <2>1. st \in [Seq(T) \X T -> Seq(T)]
    OBVIOUS
  <2>2. \A a \in Seq(T), b \in T : st[<<a, b>>] = Keep(a, b)
    OBVIOUS
  <2> HIDE DEF st
  <2>3. PICK g \in [SUBSET (1..n) -> Seq(T)] : Way(g, st, <<>>, q, n)
    <3> DEFINE V == Seq(T)  none == <<>>
    <3>1. none \in V /\ st \in [V \X T -> V]
      BY <2>1
    <3> HIDE DEF n, V, none
    <3>2. \E g \in [SUBSET (1..n) -> V] : Way(g, st, none, q, n)
      BY <1>1, <3>1, FoldExists, Zenon
    <3> QED BY <3>2 DEF V, none
  <2> HIDE DEF n, Keep
  <2>4. ASSUME NEW s \in SUBSET (1..n)
        PROVE  g[s] = IF s = {} THEN <<>> ELSE Keep(g[s \ {Max(s)}], q[Max(s)])
    <3>1. CASE s = {}
      BY <2>3, <3>1 DEF Way
    <3>2. CASE s # {}
      <4>1. Max(s) \in 1..n
        BY <1>1, <3>2, MaxIsMember
      <4>2. g[s \ {Max(s)}] \in Seq(T) /\ q[Max(s)] \in T
        BY <1>1, <4>1
      <4> QED BY <2>2, <2>3, <3>2, <4>2 DEF Way
    <3> QED BY <3>1, <3>2
  <2>5. g = [s \in SUBSET (1..n) |-> g[s]]
    OBVIOUS
  <2>6. Fits(g)
    BY <1>1, <2>4, <2>5, Zenon
  <2> QED BY <2>6
<1>3. Fits(it)
  <2> HIDE DEF Fits
  <2> QED BY <1>2, Zenon
<1>4. Picked(q, S) = it[1..n]
  BY <1>1, Zenon DEF Picked, FoldLeft, MapThenFoldSet
<1> HIDE DEF it, Keep
<1>5. \A s \in SUBSET (1..n) :
        it[s] = IF s = {} THEN <<>> ELSE Keep(it[s \ {Max(s)}], q[Max(s)])
  BY <1>1, <1>3, Zenon
<1> HIDE DEF n
<1> DEFINE Upto(k) == {q[i] : i \in 1..k}
           Done == {k \in 0..n : /\ it[1..k] \in Seq(T \cap S)
                                 /\ ToSet(it[1..k]) = Upto(k) \cap S
                                 /\ IsInjective(q) => IsInjective(it[1..k])}
<1>6. 0 \in Done
  <2>1. 1..0 = {} /\ 0 \in 0..n
    BY <1>1
  <2>2. it[1..0] = <<>>
    BY <1>5, <2>1
  <2>3. <<>> \in Seq(T \cap S) /\ ToSet(<<>>) = {} /\ Upto(0) = {}
    BY <2>1 DEF ToSet
  <2>4. IsInjective(<<>>)
    BY DEF IsInjective
  <2> QED BY <2>1, <2>2, <2>3, <2>4
<1>7. ASSUME NEW k \in 1..n, k - 1 \in Done
      PROVE  k \in Done
  <2>1. it[1..k] = Keep(it[1..(k - 1)], q[k])
    <3>1. 1..k \in SUBSET (1..n) /\ k \in Nat /\ k >= 1
      BY <1>1
    <3>2. it[1..k] = Keep(it[(1..k) \ {Max(1..k)}], q[Max(1..k)])
      BY <1>5, <3>1, UpToStep
    <3> QED BY <3>1, <3>2, UpToStep
  <2>2. q[k] \in T /\ k \in 0..n
    BY <1>1
  <2>3. Upto(k) = Upto(k - 1) \cup {q[k]}
    <3>1. 1..k = 1..(k - 1) \cup {k}
      BY <1>1
    <3> QED BY <3>1
  <2> DEFINE was == it[1..(k - 1)]  now == it[1..k]
  <2>4. /\ was \in Seq(T \cap S) /\ ToSet(was) = Upto(k - 1) \cap S
        /\ IsInjective(q) => IsInjective(was)
    BY <1>7
  <2>8. IsInjective(q) => q[k] \notin Upto(k - 1)
    <3> SUFFICES ASSUME IsInjective(q), NEW i \in 1..(k - 1), q[i] = q[k] PROVE FALSE
      OBVIOUS
    <3>1. i \in DOMAIN q /\ k \in DOMAIN q /\ i # k
      BY <1>1
    <3> QED BY <3>1 DEF IsInjective
  <2> HIDE DEF was, now, Upto
  <2>5. now = Keep(was, q[k])
    BY <2>1 DEF was, now
  <2>6. CASE q[k] \in S
    <3>1. now = Append(was, q[k])
      BY <2>5, <2>6 DEF Keep
    <3>2. now \in Seq(T \cap S)
      BY <2>2, <2>4, <2>6, <3>1
    <3>3. ToSet(now) = ToSet(was) \cup {q[k]}
      BY <2>4, <3>1, ToSetAppend
    <3>4. IsInjective(q) => IsInjective(now)
      <4>1. IsInjective(q) => q[k] \notin ToSet(was)
        BY <2>4, <2>8
      <4> SUFFICES ASSUME IsInjective(q) PROVE IsInjective(now)
        OBVIOUS
      <4>2. was \in Seq(T) /\ IsInjective(was) /\ q[k] \notin ToSet(was)
        BY <2>4, <4>1
      <4> QED BY <3>1, <4>2, StaysDistinct
    <3> QED BY <2>2, <2>3, <2>4, <2>6, <3>2, <3>3, <3>4 DEF now
  <2>7. CASE q[k] \notin S
    <3>1. now = was
      BY <2>5, <2>7 DEF Keep
    <3> QED BY <2>2, <2>3, <2>4, <2>7, <3>1 DEF now
  <2> QED BY <2>6, <2>7
<1> HIDE DEF Done
<1>8. n \in Done
  BY <1>1, <1>6, <1>7, Climb
<1>9. Upto(n) = ToSet(q)
  BY <1>1 DEF ToSet
<1> QED BY <1>4, <1>8, <1>9 DEF Done

=============================================================================

-------------------------- MODULE HostSessionProofs --------------------------
(***************************************************************************)
(* What the PTY host and the servers that follow one another on it keep    *)
(* true together, for any number of servers, panes, shells and connections *)
(* and whatever events the composition allows.                             *)
(***************************************************************************)
EXTENDS HostSession, PtyHostProofs, NaturalsInduction, WellFoundedInduction

-----------------------------------------------------------------------------
(* The daemon inside the composition.  Its own steps are those of PtyHost, so *)
(* they keep what is proved there.  What remains is that a server is a peer   *)
(* like any other: a guest.                                                   *)

HostInv == FlightInv /\ SpawnsReserved /\ OneServer /\ Fresh

\* What a guest may do to the daemon's world: nothing but write frames, read
\* frames, and open and close connections.
GuestStep ==
  /\ UNCHANGED hostSide
  /\ popen' \in [Conns -> {"none", "open", "half", "closed"}]
  /\ powner' \in [Conns -> Owners \cup {NoOwner}] /\ good' \in [Conns -> BOOLEAN]
  /\ up' \in [Conns -> Seq(UpFrame)] /\ down' \in [Conns -> Seq(DownFrame)]
  /\ alive' \subseteq Owners
  /\ \A d \in Conns : Quiet(d)

LEMMA HostKeeps ==
  ASSUME HostInv, HostStep \/ ShellStep
  PROVE  HostInv'
<1>1. [HostNext]_hostVars
  BY DEF HostNext
<1>2. ServerInv /\ ReservedInv
  BY DEF HostInv, ServerInv, ReservedInv, FlightInv, RingInv, KeptInv
<1>3. FlightInv' /\ ServerInv' /\ ReservedInv'
  BY <1>1, <1>2, FlightStep, OneServerStep, ReservedStep DEF HostInv
<1> QED BY <1>3 DEF HostInv, ServerInv, ReservedInv

LEMMA GuestKeeps ==
  ASSUME HostInv, GuestStep
  PROVE  HostInv'
<1>1. /\ UNCHANGED <<hostUp, stop, writer, ownerPid, prevOwner, spawning, shellOf, pending>>
      /\ UNCHANGED <<paused, reaping, hpc, harg, hshell, probe, hclosed>>
      /\ UNCHANGED <<wdpc, wdOwner, strikes, shell, out>>
  BY DEF GuestStep, hostSide, ownVars, paneVars, connVars, wdVars
<1>2. TypeInv /\ HeldInv /\ KeptIsNewest /\ FlightOK /\ KeptOnlyWhenDetached
  BY DEF HostInv, FlightInv, RingInv, KeptInv
<1>3. ServerInv /\ SpawnsReserved
  BY <1>2 DEF HostInv, ServerInv
<1>4. TypeOK'
  BY <1>1, <1>2, Zenon DEF GuestStep, TypeInv, TypeOK, Registered
<1>5. TypeInv'
  BY <1>1, <1>2, <1>4, Zenon DEF TypeInv, ArgOK
<1>6. KeptOnlyWhenDetached'
  BY <1>1, <1>2, Zenon DEF KeptOnlyWhenDetached
<1>7. Held'
  BY <1>1, <1>2, HeldKept DEF HeldInv
<1>8. KeptIsNewest'
  BY <1>1, <1>2, RingKept
<1>9. FlightOK'
  <2>1. \A d \in Conns : Quiet(d)
    BY DEF GuestStep
  <2> QED BY <1>1, <2>1, QuietAnswers DEF HostInv
<1>10. OneServer' /\ Fresh'
  BY <1>1, <1>3, ServerKept DEF serverVars
<1>11. SpawnsReserved'
  <2>1. /\ \A d \in Conns : hpc'[d] = "spawning" <=> hpc[d] = "spawning"
        /\ \A d \in Conns : hpc[d] = "spawning" => harg'[d] = harg[d]
        /\ spawning' = spawning /\ (hostUp' => hostUp)
    BY <1>1
  <2> QED BY <1>3, <2>1, ReservedKept
<1> QED BY <1>5, <1>6, <1>7, <1>8, <1>9, <1>10, <1>11
        DEF HostInv, FlightInv, RingInv, KeptInv, HeldInv

LEMMA HostBegins == HostInit => HostInv
<1> SUFFICES ASSUME HostInit PROVE HostInv
  OBVIOUS
<1>1. \A c \in Conns : down[c] = <<>>
  BY Zenon DEF HostInit
<1>2. FlightInv
  BY <1>1, RingInit, SoundEmpty, Zenon DEF FlightInv, FlightOK
<1>3. SpawnsReserved
  BY SMT DEF HostInit, SpawnsReserved
<1>4. OneServer /\ Fresh
  BY SMT DEF HostInit, OneServer, Fresh, Serving
<1> QED BY <1>2, <1>3, <1>4 DEF HostInv

-----------------------------------------------------------------------------
(* What servers write.                                                      *)

LEMMA FramesOfServers ==
  /\ \A s \in Owners : OwnerCtl(s) \in UpFrame
  /\ \A op \in CtlOps : Ctl(op) \in UpFrame
  /\ \A op \in PaneOps, p \in PaneIds : PaneCtl(op, p) \in UpFrame
BY SMT DEF OwnerCtl, Ctl, PaneCtl, UpFrame

LEMMA PanesAreFinite ==
  ASSUME NEW S, S \subseteq PaneIds
  PROVE  IsFiniteSet(S) /\ Cardinality(S) \in Nat
<1>1. IsFiniteSet(PaneIds)
  BY BoundsAssumption, FS_Interval DEF PaneIds
<1> QED BY <1>1, FS_Subset, FS_CardinalityType

\* What is written for a set of panes is frames, each for one of them.
LEMMA FramesType ==
  ASSUME NEW op \in PaneOps, NEW S, S \subseteq PaneIds, NEW fs \in Frames(op, S)
  PROVE  /\ fs \in Seq(UpFrame)
         /\ \A i \in 1..Len(fs) : \E p \in S : fs[i] = PaneCtl(op, p)
<1>1. Cardinality(S) \in Nat
  BY PanesAreFinite
<1>2. fs \in [1..Cardinality(S) -> {PaneCtl(op, p) : p \in S}]
  BY DEF Frames
<1>3. {PaneCtl(op, p) : p \in S} \subseteq UpFrame
  BY FramesOfServers
<1>4. fs \in Seq({PaneCtl(op, p) : p \in S}) /\ Len(fs) = Cardinality(S)
  BY <1>1, <1>2, SMT
<1>5. fs \in Seq(UpFrame)
  BY <1>1, <1>2, <1>3, SMT
<1> QED BY <1>2, <1>4, <1>5

-----------------------------------------------------------------------------
(* Tabs.                                                                    *)

InjTab(t) == \A i, j \in 1..Len(t) : t[i] = t[j] => i = j

\* Taking a pane out of a tab leaves the others, once each.
LEMMA RemovedKeeps ==
  ASSUME NEW t \in Seq(PaneIds), NEW p
  PROVE  /\ Removed(t, p) \in Seq(PaneIds)
         /\ \A j \in 1..Len(Removed(t, p)) : \E i \in 1..Len(t) : Removed(t, p)[j] = t[i]
         /\ InjTab(t) => /\ InjTab(Removed(t, p))
                         /\ \A j \in 1..Len(Removed(t, p)) : Removed(t, p)[j] # p
         /\ \A i \in 1..Len(t) : t[i] # p => \E j \in 1..Len(Removed(t, p)) : Removed(t, p)[j] = t[i]
<1>1. CASE ~\E i \in 1..Len(t) : t[i] = p
  BY <1>1, Zenon DEF Removed
<1>2. CASE \E i \in 1..Len(t) : t[i] = p
  <2> DEFINE i == CHOOSE j \in 1..Len(t) : t[j] = p
             head == SubSeq(t, 1, i - 1)
             tail == SubSeq(t, i + 1, Len(t))
             r == Removed(t, p)
  <2>1. i \in 1..Len(t) /\ t[i] = p
    BY <1>2
  <2>2. r = head \o tail
    BY <1>2, Zenon DEF Removed
  <2> HIDE DEF i, r
  <2>3. /\ head \in Seq(PaneIds) /\ Len(head) = i - 1
        /\ \A j \in 1..(i - 1) : head[j] = t[j]
    BY <2>1
  <2>4. /\ tail \in Seq(PaneIds) /\ Len(tail) = Len(t) - i
        /\ \A j \in 1..(Len(t) - i) : tail[j] = t[i + j]
    BY <2>1
  <2> HIDE DEF head, tail
  <2>5. /\ r \in Seq(PaneIds) /\ Len(r) = Len(head) + Len(tail)
        /\ \A j \in 1..(Len(head) + Len(tail)) :
             r[j] = IF j <= Len(head) THEN head[j] ELSE tail[j - Len(head)]
    BY <2>2, <2>3, <2>4, ConcatProperties
  <2>6. Len(r) = Len(t) - 1 /\ Len(t) \in Nat
    BY <2>1, <2>3, <2>4, <2>5
  <2>7. \A j \in 1..(i - 1) : j \in 1..Len(r) /\ j \in 1..Len(t) /\ r[j] = t[j]
    BY <2>1, <2>3, <2>5, <2>6
  <2>8. ASSUME NEW j \in i..(Len(t) - 1)
        PROVE  j \in 1..Len(r) /\ j + 1 \in 1..Len(t) /\ r[j] = t[j + 1]
    <3>1. /\ j \in 1..(Len(head) + Len(tail)) /\ ~(j <= Len(head))
          /\ j - Len(head) \in 1..(Len(t) - i) /\ i + (j - Len(head)) = j + 1
      BY <2>1, <2>3, <2>4
    <3>2. r[j] = tail[j - Len(head)] /\ tail[j - Len(head)] = t[i + (j - Len(head))]
      BY <2>4, <2>5, <3>1, Zenon
    <3>3. j \in 1..Len(r) /\ j + 1 \in 1..Len(t)
      BY <2>1, <2>6
    <3> QED BY <3>1, <3>2, <3>3
  <2>9. \A j \in 1..Len(r) : j \in 1..(i - 1) \/ j \in i..(Len(t) - 1)
    BY <2>1, <2>6
  <2>10. \A j \in 1..Len(r) : \E l \in 1..Len(t) : r[j] = t[l] /\ l # i /\ (l = j \/ l = j + 1)
                                                /\ (l < i => l = j) /\ (l > i => l = j + 1)
    <3> SUFFICES ASSUME NEW j \in 1..Len(r)
                 PROVE  \E l \in 1..Len(t) : r[j] = t[l] /\ l # i /\ (l = j \/ l = j + 1)
                                             /\ (l < i => l = j) /\ (l > i => l = j + 1)
      OBVIOUS
    <3>1. CASE j \in 1..(i - 1)
      <4>1. j \in 1..Len(t) /\ r[j] = t[j] /\ j < i
        BY <2>1, <2>7, <3>1
      <4> QED BY <2>1, <4>1
    <3>2. CASE j \in i..(Len(t) - 1)
      <4>1. j + 1 \in 1..Len(t) /\ r[j] = t[j + 1] /\ j + 1 > i
        BY <2>1, <2>8, <3>2
      <4> QED BY <2>1, <4>1
    <3> QED BY <2>9, <3>1, <3>2
  <2>11. ASSUME InjTab(t)
         PROVE  InjTab(r) /\ \A j \in 1..Len(r) : r[j] # p
    <3>1. ASSUME NEW j \in 1..Len(r), NEW k \in 1..Len(r), r[j] = r[k] PROVE j = k
      <4>1. PICK l \in 1..Len(t) : r[j] = t[l] /\ l # i /\ (l = j \/ l = j + 1)
                                   /\ (l < i => l = j) /\ (l > i => l = j + 1)
        BY <2>10
      <4>2. PICK m \in 1..Len(t) : r[k] = t[m] /\ m # i /\ (m = k \/ m = k + 1)
                                   /\ (m < i => m = k) /\ (m > i => m = k + 1)
        BY <2>10
      <4>3. l = m
        BY <2>11, <3>1, <4>1, <4>2 DEF InjTab
      <4> QED BY <2>1, <4>1, <4>2, <4>3
    <3>2. \A j \in 1..Len(r) : r[j] # p
      BY <2>1, <2>10, <2>11 DEF InjTab
    <3> QED BY <3>1, <3>2 DEF InjTab
  <2>12. ASSUME NEW l \in 1..Len(t), t[l] # p
         PROVE  \E j \in 1..Len(r) : r[j] = t[l]
    <3>1. CASE l < i
      <4>1. l \in 1..(i - 1)
        BY <2>1, <3>1
      <4> QED BY <2>7, <4>1
    <3>2. CASE l > i
      <4>1. l - 1 \in i..(Len(t) - 1) /\ (l - 1) + 1 = l
        BY <2>1, <3>2
      <4> QED BY <2>8, <4>1
    <3>3. l # i
      BY <2>1, <2>12
    <3> QED BY <2>1, <3>1, <3>2, <3>3
  <2>13. \A j \in 1..Len(r) : \E l \in 1..Len(t) : r[j] = t[l]
    BY <2>10, Zenon
  <2> QED BY <2>5, <2>11, <2>12, <2>13 DEF r
<1> QED BY <1>1, <1>2

-----------------------------------------------------------------------------
(* The type of a server's state.  The daemon's part of it is HostInv.       *)

Tab     == Seq(PaneIds) \ {<<>>}
Screens == [PaneIds -> Seq(Shells \X Nat)]
ServersOK ==
  /\ phase \in [Owners -> Phases] /\ cur \in [Owners -> Conns \cup {0}]
  /\ cbs \in [Owners -> SUBSET PaneIds] /\ seq \in [Owners -> PaneIds \cup {0}]
  /\ tabs \in [Owners -> SUBSET Tab]
  /\ listed \in [Owners -> [panes : SUBSET PaneIds, prev : {"unknown", "alive", "dead"}]]
  /\ screen \in [Owners -> Screens]
  /\ resume \in [Owners -> [tabs : SUBSET Tab, screen : Screens]]
SessionInv == HostInv /\ ServersOK

\* The panes of tabs are panes.
LEMMA PanesOfTabs ==
  ASSUME NEW ts, ts \subseteq Tab
  PROVE  PanesOf(ts) \subseteq PaneIds
<1>1. \A t \in ts : \A i \in 1..Len(t) : t[i] \in PaneIds
  BY DEF Tab
<1> QED BY <1>1 DEF PanesOf

LEMMA SendType ==
  ASSUME SessionInv, NEW s \in Owners, NEW fs \in Seq(UpFrame), Send(s, fs)
  PROVE  up' \in [Conns -> Seq(UpFrame)]
<1>1. up \in [Conns -> Seq(UpFrame)] /\ cur[s] \in Conns \cup {0}
  BY DEF SessionInv, ServersOK, HostInv, FlightInv, RingInv, KeptInv, TypeInv, TypeOK
<1>2. CASE cur[s] \in Conns
  <2>1. up[cur[s]] \o fs \in Seq(UpFrame)
    BY <1>1, <1>2
  <2> QED BY <1>1, <2>1 DEF Send
<1>3. CASE cur[s] = 0
  BY <1>1, <1>3 DEF Send
<1> QED BY <1>1, <1>2, <1>3

\* Without keeps tabs tabs.
LEMMA WithoutType ==
  ASSUME NEW ts, ts \subseteq Tab, NEW p
  PROVE  Without(ts, p) \subseteq Tab
<1>1. \A t \in ts : Removed(t, p) \in Seq(PaneIds)
  BY RemovedKeeps DEF Tab
<1> QED BY <1>1 DEF Without, Tab

\* Every set of natural numbers that is not empty has a least member.
LEMMA LeastOf ==
  ASSUME NEW S, S \subseteq Nat, S # {}
  PROVE  \E n \in S : \A m \in S : n <= m
<1> DEFINE R == OpToRel(<, Nat)
<1>1. IsWellFoundedOn(R, Nat)
  BY NatLessThanWellFounded
<1>2. \A m, n \in Nat : m < n => <<m, n>> \in R
  BY DEF OpToRel
<1> HIDE DEF R
<1>3. PICK n \in S : \A m \in S : ~(<<m, n>> \in R)
  BY <1>1, WFMin
<1>4. ASSUME NEW m \in S
      PROVE  n <= m
  <2>1. ~(m < n)
    BY <1>2, <1>3
  <2> QED BY <2>1
<1> QED BY <1>4

\* A non-empty set of panes has a highest one.
LEMMA HighestIs ==
  ASSUME NEW S, S \subseteq PaneIds
  PROVE  Highest(S) \in PaneIds \cup {0} /\ \A q \in S : q <= Highest(S)
<1>1. CASE S = {}
  BY <1>1 DEF Highest
<1>2. CASE S # {}
  <2> DEFINE B == {n \in Nat : \A q \in S : q <= n}
  <2>1. MaxPane \in B /\ B \subseteq Nat
    BY BoundsAssumption DEF PaneIds
  <2>2. PICK m \in B : \A n \in B : m <= n
    <3> HIDE DEF B
    <3> QED BY <2>1, LeastOf
  <2>4. m \in S
    <3>1. PICK q \in S : TRUE
      BY <1>2
    <3>2. CASE m = 0
      BY <3>1, <3>2 DEF PaneIds
    <3>3. CASE m # 0 /\ m \notin S
      <4>1. m - 1 \in Nat /\ ~(m <= m - 1)
        BY <3>3
      <4>2. \A r \in S : r <= m - 1
        BY <3>3 DEF PaneIds
      <4> QED BY <2>2, <4>1, <4>2
    <3> QED BY <3>2, <3>3
  <2>5. \E r \in S : \A q \in S : q <= r
    BY <2>4
  <2> QED BY <1>2, <2>5 DEF Highest
<1> QED BY <1>1, <1>2

-----------------------------------------------------------------------------
(* A server's step is a guest's.                                            *)

\* What a guest's step leaves alone or may change in the daemon's world, when it
\* sends: only what is up.
LEMMA GuestSends ==
  ASSUME SessionInv, NEW s \in Owners, NEW fs \in Seq(UpFrame), Send(s, fs),
         UNCHANGED <<hostSide, peerVars, alive>>, \A d \in Conns : Quiet(d),
         down' \in [Conns -> Seq(DownFrame)]
  PROVE  GuestStep
<1>1. up' \in [Conns -> Seq(UpFrame)]
  BY SendType
<1>2. TypeOK
  BY DEF SessionInv, HostInv, FlightInv, RingInv, KeptInv, TypeInv
<1> QED BY <1>1, <1>2, Zenon DEF GuestStep, TypeOK, peerVars

\* When it only reads, or does nothing there.
LEMMA GuestIdles ==
  ASSUME SessionInv, UNCHANGED <<hostSide, peerVars, up, alive>>,
         \A d \in Conns : Quiet(d), down' \in [Conns -> Seq(DownFrame)]
  PROVE  GuestStep
<1>1. TypeOK
  BY DEF SessionInv, HostInv, FlightInv, RingInv, KeptInv, TypeInv
<1> QED BY <1>1, Zenon DEF GuestStep, TypeOK, peerVars

\* A frame that was read came from the front of the server's connection.
LEMMA GotType ==
  ASSUME SessionInv, NEW s \in Owners, NEW op, Got(s, op)
  PROVE  /\ Received(s) \in DownFrame /\ Received(s).op = op /\ cur[s] \in Conns
         /\ Received(s) = down[cur[s]][1] /\ 1 \in 1..Len(down[cur[s]])
         /\ down' \in [Conns -> Seq(DownFrame)]
         /\ \A d \in Conns : Quiet(d)
<1>1. down \in [Conns -> Seq(DownFrame)] /\ cur[s] \in Conns \cup {0}
  BY DEF SessionInv, ServersOK, HostInv, FlightInv, RingInv, KeptInv, TypeInv, TypeOK
<1>2. /\ cur[s] \in Conns /\ down[cur[s]] # <<>> /\ Received(s).op = op
      /\ down' = [down EXCEPT ![cur[s]] = Tail(down[cur[s]])]
  BY <1>1 DEF Got, Received
<1>3. /\ Received(s) = down[cur[s]][1] /\ Received(s) \in DownFrame
      /\ 1 \in 1..Len(down[cur[s]]) /\ Tail(down[cur[s]]) \in Seq(DownFrame)
  BY <1>1, <1>2 DEF Received
<1>4. \A d \in Conns : down'[d] = down[d] \/ (down[d] # <<>> /\ down'[d] = Tail(down[d]))
  BY <1>1, <1>2
<1>5. \A d \in Conns : Quiet(d)
  BY <1>4, Zenon DEF Quiet
<1>6. down' \in [Conns -> Seq(DownFrame)]
  BY <1>1, <1>2, <1>3
<1> QED BY <1>2, <1>3, <1>5, <1>6

LEMMA GuestOpens ==
  ASSUME SessionInv, NEW s \in Owners, NEW c \in Conns, NEW fs \in Seq(UpFrame),
         Open(s, c, fs), UNCHANGED <<hostSide, down, alive>>
  PROVE  GuestStep
<1>1. TypeOK
  BY DEF SessionInv, HostInv, FlightInv, RingInv, KeptInv, TypeInv
<1>2. /\ popen' \in [Conns -> {"none", "open", "half", "closed"}]
      /\ powner' \in [Conns -> Owners \cup {NoOwner}] /\ good' \in [Conns -> BOOLEAN]
      /\ up' \in [Conns -> Seq(UpFrame)]
  BY <1>1 DEF TypeOK, Open
<1>3. \A d \in Conns : Quiet(d)
  BY Zenon DEF Quiet
<1> QED BY <1>1, <1>2, <1>3, Zenon DEF GuestStep, TypeOK

LEMMA GuestDies ==
  ASSUME SessionInv, NEW s \in Owners, OwnerDies(s)
  PROVE  GuestStep
<1>1. TypeOK
  BY DEF SessionInv, HostInv, FlightInv, RingInv, KeptInv, TypeInv
<1>2. UNCHANGED hostSide /\ UNCHANGED <<powner, good, up>>
  BY Zenon DEF OwnerDies, hostSide
<1>3. /\ popen' \in [Conns -> {"none", "open", "half", "closed"}]
      /\ down' \in [Conns -> Seq(DownFrame)] /\ alive' \subseteq Owners
  BY <1>1 DEF TypeOK, OwnerDies
<1>4. \A d \in Conns : down'[d] = down[d] \/ down'[d] = <<>>
  BY Zenon DEF OwnerDies
<1>5. \A d \in Conns : Quiet(d)
  BY <1>4, Zenon DEF Quiet
<1> QED BY <1>1, <1>2, <1>3, <1>5, Zenon DEF GuestStep, TypeOK

LEMMA GuestEnds ==
  ASSUME SessionInv, NEW s \in Owners, NEW c \in Conns, EndServer(s, c)
  PROVE  GuestStep
<1>1. TypeOK
  BY DEF SessionInv, HostInv, FlightInv, RingInv, KeptInv, TypeInv
<1>2. <<Ctl("probe"), Ctl("shutdown")>> \in Seq(UpFrame)
  BY FramesOfServers DEF CtlOps
<1>3. /\ popen' \in [Conns -> {"none", "open", "half", "closed"}]
      /\ powner' \in [Conns -> Owners \cup {NoOwner}] /\ good' \in [Conns -> BOOLEAN]
      /\ up' \in [Conns -> Seq(UpFrame)]
      /\ down' \in [Conns -> Seq(DownFrame)] /\ alive' \subseteq Owners
  BY <1>1, <1>2 DEF TypeOK, EndServer
<1>4. \A d \in Conns : down'[d] = down[d] \/ down'[d] = <<>>
  BY Zenon DEF EndServer
<1>5. \A d \in Conns : Quiet(d)
  BY <1>4, Zenon DEF Quiet
<1> QED BY <1>3, <1>5, Zenon DEF GuestStep, EndServer

LEMMA GuestWaits ==
  ASSUME SessionInv, UNCHANGED hostVars
  PROVE  GuestStep
<1>1. UNCHANGED <<hostSide, peerVars, up, down, alive>>
  BY DEF hostVars, hostSide
<1>2. down' \in [Conns -> Seq(DownFrame)]
  BY <1>1 DEF SessionInv, HostInv, FlightInv, RingInv, KeptInv, TypeInv, TypeOK
<1>3. \A d \in Conns : Quiet(d)
  BY <1>1, Zenon DEF Quiet
<1> QED BY <1>1, <1>2, <1>3, GuestIdles

LEMMA BlankTypes == Blank \in Screens /\ NoFile \in [tabs : SUBSET Tab, screen : Screens]
                    /\ NoList \in [panes : SUBSET PaneIds, prev : {"unknown", "alive", "dead"}]
<1>1. <<>> \in Seq(Shells \X Nat)
  OBVIOUS
<1>2. Blank \in Screens
  BY <1>1 DEF Blank, Screens
<1> QED BY <1>2 DEF NoFile, NoList

LEMMA ForgetType ==
  ASSUME ServersOK, NEW s \in Owners, Forget(s)
  PROVE  ServersOK'
BY BlankTypes DEF ServersOK, Forget, Phases

LEMMA SingleTab == \A p \in PaneIds : <<p>> \in Tab
<1> SUFFICES ASSUME NEW p \in PaneIds PROVE <<p>> \in Tab
  OBVIOUS
<1>1. <<p>> \in Seq(PaneIds) /\ Len(<<p>>) = 1
  OBVIOUS
<1> QED BY <1>1 DEF Tab

\* What is restored from a resume file and a list.
LEMMA RestoreType ==
  ASSUME SessionInv, NEW s \in Owners, Restore(s)
  PROVE  GuestStep /\ ServersOK'
<1> DEFINE back  == Restorable(s)
           top   == SeqAdopted(s)
           fresh == IF back = {} THEN {top + 1} ELSE {}
           shown == PanesOf(back) \cup fresh
<1>1. /\ fresh \subseteq PaneIds
      /\ tabs' = [tabs EXCEPT ![s] = back \cup {<<p>> : p \in fresh}]
      /\ screen' = [screen EXCEPT ![s] = [p \in PaneIds |->
                     IF p \in PanesOf(back) THEN resume[s].screen[p] ELSE <<>>]]
      /\ cbs' = [cbs EXCEPT ![s] = shown]
      /\ seq' = [seq EXCEPT ![s] = top + Cardinality(fresh)]
      /\ \E half \in Frames("close", HalfBuilt(s)), new \in Frames("spawn", fresh),
            stale \in Frames("close", Pruned(s, shown)) : Send(s, half \o new \o stale)
      /\ resume' = [resume EXCEPT ![s] = NoFile]
      /\ listed' = [listed EXCEPT ![s] = NoList]
      /\ phase' = [phase EXCEPT ![s] = "run"]
      /\ UNCHANGED <<hostSide, peerVars, down, alive, cur>>
  BY DEF Restore
<1>2. back \subseteq Tab /\ PanesOf(back) \subseteq PaneIds
  <2>1. back \subseteq Tab
    BY DEF SessionInv, ServersOK, Restorable
  <2> QED BY <2>1, PanesOfTabs
<1>3. listed[s].panes \subseteq PaneIds /\ resume[s].screen \in Screens
  BY DEF SessionInv, ServersOK
<1>4. top \in PaneIds \cup {0}
  BY <1>3, HighestIs DEF SeqAdopted
<1>5. top + Cardinality(fresh) \in PaneIds \cup {0}
  <2>1. CASE back = {}
    <3>1. fresh = {top + 1} /\ Cardinality(fresh) = 1
      BY <2>1, FS_Singleton
    <3> QED BY <1>1, <3>1
  <2>2. CASE back # {}
    <3>1. fresh = {} /\ Cardinality(fresh) = 0
      BY <2>2, FS_EmptySet
    <3> QED BY <1>4, <3>1 DEF PaneIds
  <2> QED BY <2>1, <2>2
<1>6. HalfBuilt(s) \subseteq PaneIds /\ Pruned(s, shown) \subseteq PaneIds
  <2>1. resume[s].tabs \subseteq Tab
    BY DEF SessionInv, ServersOK
  <2>2. HalfBuilt(s) \subseteq PaneIds
    <3>1. \A t \in resume[s].tabs : \A i \in 1..Len(t) : t[i] \in PaneIds
      BY <2>1 DEF Tab
    <3> QED BY <3>1 DEF HalfBuilt
  <2> QED BY <1>3, <2>2 DEF Pruned
<1> HIDE DEF back, top, fresh, shown
<1>7. GuestStep
  <2> PICK half \in Frames("close", HalfBuilt(s)), new \in Frames("spawn", fresh),
            stale \in Frames("close", Pruned(s, shown)) : Send(s, half \o new \o stale)
    BY <1>1
  <2>1. half \in Seq(UpFrame) /\ new \in Seq(UpFrame) /\ stale \in Seq(UpFrame)
    BY <1>1, <1>6, FramesType DEF PaneOps
  <2>2. half \o new \o stale \in Seq(UpFrame)
    BY <2>1
  <2>3. \A d \in Conns : Quiet(d)
    BY <1>1, Zenon DEF Quiet
  <2>4. down' \in [Conns -> Seq(DownFrame)]
    BY <1>1 DEF SessionInv, HostInv, FlightInv, RingInv, KeptInv, TypeInv, TypeOK
  <2> HIDE DEF Send
  <2> QED BY <1>1, <2>2, <2>3, <2>4, GuestSends
<1>8. {<<p>> : p \in fresh} \subseteq Tab
  BY <1>1, SingleTab
<1>9. [p \in PaneIds |-> IF p \in PanesOf(back) THEN resume[s].screen[p] ELSE <<>>] \in Screens
  <2>1. <<>> \in Seq(Shells \X Nat)
    OBVIOUS
  <2> QED BY <1>3, <2>1 DEF Screens
<1>10. ServersOK'
  <2>1. cbs[s] \in SUBSET PaneIds /\ shown \in SUBSET PaneIds
    BY <1>1, <1>2 DEF SessionInv, ServersOK, shown
  <2>2. back \cup {<<p>> : p \in fresh} \in SUBSET Tab
    BY <1>2, <1>8
  <2>3. /\ phase' \in [Owners -> Phases] /\ cur' \in [Owners -> Conns \cup {0}]
        /\ cbs' \in [Owners -> SUBSET PaneIds] /\ seq' \in [Owners -> PaneIds \cup {0}]
    BY <1>1, <1>5, <2>1 DEF SessionInv, ServersOK, Phases
  <2>4. tabs' \in [Owners -> SUBSET Tab] /\ screen' \in [Owners -> Screens]
    BY <1>1, <1>9, <2>2 DEF SessionInv, ServersOK
  <2>5. /\ listed' \in [Owners -> [panes : SUBSET PaneIds, prev : {"unknown", "alive", "dead"}]]
        /\ resume' \in [Owners -> [tabs : SUBSET Tab, screen : Screens]]
    BY <1>1, BlankTypes DEF SessionInv, ServersOK
  <2> QED BY <2>3, <2>4, <2>5 DEF ServersOK
<1> QED BY <1>7, <1>10

\* What is shown of a pane was read from a shell.
LEMMA ShowType ==
  ASSUME SessionInv, NEW s \in Owners, ShowOutput(s)
  PROVE  GuestStep /\ ServersOK'
<1> DEFINE f == Received(s)
           More(p) == [i \in 1..Len(f.data[p]) |-> <<f.src[p], f.data[p][i]>>]
<1>1. /\ Got(s, "data")
      /\ screen' = [screen EXCEPT ![s] = [p \in PaneIds |->
           IF p \in cbs[s] THEN screen[s][p] \o More(p) ELSE screen[s][p]]]
      /\ UNCHANGED <<hostSide, peerVars, up, alive, phase, cur, cbs, tabs, seq, listed, resume>>
  BY DEF ShowOutput
<1>2. f \in DownFrame /\ f.op = "data" /\ cur[s] \in Conns
      /\ f = down[cur[s]][1] /\ 1 \in 1..Len(down[cur[s]])
      /\ down' \in [Conns -> Seq(DownFrame)] /\ \A d \in Conns : Quiet(d)
  BY <1>1, GotType
<1>3. ASSUME NEW p \in PaneIds PROVE More(p) \in Seq(Shells \X Nat)
  <2>1. f.data[p] \in Seq(Nat)
    BY <1>2 DEF DownFrame
  <2>2. Read(f, p, out)
    BY <1>2, Zenon DEF SessionInv, HostInv, FlightInv, FlightOK, Sound
  <2>3. \A i \in 1..Len(f.data[p]) : f.src[p] \in Shells /\ f.data[p][i] \in Nat
    BY <1>2, <2>2 DEF Read, ChunksIn
  <2> HIDE DEF f
  <2>4. \A i \in 1..Len(f.data[p]) : <<f.src[p], f.data[p][i]>> \in Shells \X Nat
    BY <2>3
  <2> QED BY <2>1, <2>4
<1> HIDE DEF f, More
<1>4. \A p \in PaneIds : screen[s][p] \in Seq(Shells \X Nat)
                         /\ screen[s][p] \o More(p) \in Seq(Shells \X Nat)
  <2>1. \A p \in PaneIds : screen[s][p] \in Seq(Shells \X Nat)
    BY DEF SessionInv, ServersOK, Screens
  <2> QED BY <1>3, <2>1
<1>5. screen' \in [Owners -> Screens]
  <2>1. [p \in PaneIds |-> IF p \in cbs[s] THEN screen[s][p] \o More(p) ELSE screen[s][p]] \in Screens
    BY <1>4 DEF Screens
  <2> QED BY <1>1, <2>1 DEF SessionInv, ServersOK
<1>6. GuestStep
  BY <1>1, <1>2, GuestIdles
<1> QED BY <1>1, <1>5, <1>6, Zenon DEF SessionInv, ServersOK

LEMMA DropType ==
  ASSUME SessionInv, NEW s \in Owners, NEW p \in PaneIds, DropPane(s, p),
         UNCHANGED <<hostSide, peerVars, alive, cur, seq, listed, resume>>,
         down' \in [Conns -> Seq(DownFrame)], \A d \in Conns : Quiet(d)
  PROVE  GuestStep /\ ServersOK'
<1>1. /\ cbs' = [cbs EXCEPT ![s] = cbs[s] \ {p}]
      /\ tabs' = [tabs EXCEPT ![s] = Without(tabs[s], p)]
      /\ screen' = [screen EXCEPT ![s][p] = <<>>]
      /\ phase' = phase \/ phase' = [phase EXCEPT ![s] = "ending"]
      /\ Send(s, <<PaneCtl("close", p)>>) \/ UNCHANGED up
  BY DEF DropPane
<1>2. <<PaneCtl("close", p)>> \in Seq(UpFrame)
  <2>1. PaneCtl("close", p) \in UpFrame
    BY FramesOfServers DEF PaneOps
  <2> QED BY <2>1
<1>3. GuestStep
  BY <1>1, <1>2, GuestSends, GuestIdles
<1>4. Without(tabs[s], p) \subseteq Tab
  BY WithoutType DEF SessionInv, ServersOK
<1>5. screen' \in [Owners -> Screens]
  <2>1. <<>> \in Seq(Shells \X Nat)
    OBVIOUS
  <2> QED BY <1>1, <2>1 DEF SessionInv, ServersOK, Screens
<1>6. /\ phase' \in [Owners -> Phases] /\ cbs' \in [Owners -> SUBSET PaneIds]
      /\ tabs' \in [Owners -> SUBSET Tab]
  BY <1>1, <1>4 DEF SessionInv, ServersOK, Phases
<1> QED BY <1>3, <1>5, <1>6 DEF SessionInv, ServersOK

LEMMA SpawnType ==
  ASSUME SessionInv, NEW s \in Owners, NEW ts, SpawnPane(s, ts),
         NextPaneId(s) \in PaneIds => ts \subseteq Tab
  PROVE  GuestStep /\ ServersOK'
<1> DEFINE p == NextPaneId(s)
<1>1. /\ p \in PaneIds
      /\ seq' = [seq EXCEPT ![s] = p] /\ cbs' = [cbs EXCEPT ![s] = cbs[s] \cup {p}]
      /\ tabs' = [tabs EXCEPT ![s] = ts] /\ Send(s, <<PaneCtl("spawn", p)>>)
      /\ UNCHANGED <<hostSide, peerVars, down, alive, phase, cur, listed, screen, resume>>
  BY DEF SpawnPane
<1> HIDE DEF p
<1>2. <<PaneCtl("spawn", p)>> \in Seq(UpFrame)
  <2>1. PaneCtl("spawn", p) \in UpFrame
    BY <1>1, FramesOfServers DEF PaneOps
  <2> QED BY <2>1
<1>3. \A d \in Conns : Quiet(d)
  BY <1>1, Zenon DEF Quiet
<1>4. down' \in [Conns -> Seq(DownFrame)]
  BY <1>1 DEF SessionInv, HostInv, FlightInv, RingInv, KeptInv, TypeInv, TypeOK
<1>5. GuestStep
  BY <1>1, <1>2, <1>3, <1>4, GuestSends
<1>6. ts \subseteq Tab
  BY <1>1 DEF p
<1> QED BY <1>1, <1>5, <1>6 DEF SessionInv, ServersOK

LEMMA TabTypes ==
  ASSUME SessionInv, NEW s \in Owners, NEW p \in PaneIds
  PROVE  /\ tabs[s] \cup {<<p>>} \subseteq Tab
         /\ \A t \in tabs[s] : (tabs[s] \ {t}) \cup {Append(t, p)} \subseteq Tab
<1>1. tabs[s] \subseteq Tab
  BY DEF SessionInv, ServersOK
<1>2. ASSUME NEW t \in Tab PROVE Append(t, p) \in Tab
  <2>1. t \in Seq(PaneIds) /\ Append(t, p) \in Seq(PaneIds) /\ Len(Append(t, p)) = Len(t) + 1
        /\ Len(t) \in Nat
    BY DEF Tab
  <2> QED BY <2>1 DEF Tab
<1> QED BY <1>1, <1>2, SingleTab

LEMMA ServerGuest ==
  ASSUME SessionInv, NEW s \in Owners, ServerStep(s)
  PROVE  GuestStep /\ ServersOK'
<1>1. CASE GotList(s)
  <2>1. /\ Got(s, "list_reply")
        /\ listed' = [listed EXCEPT ![s] = [panes |-> Received(s).panes, prev |-> Received(s).prev]]
        /\ phase' = [phase EXCEPT ![s] = "listed"]
        /\ UNCHANGED <<hostSide, peerVars, up, alive, cur, cbs, tabs, seq, screen, resume>>
    BY <1>1 DEF GotList
  <2>2. /\ Received(s) \in DownFrame /\ Received(s).op = "list_reply"
        /\ down' \in [Conns -> Seq(DownFrame)] /\ \A d \in Conns : Quiet(d)
    BY <2>1, GotType
  <2>3. [panes |-> Received(s).panes, prev |-> Received(s).prev]
          \in [panes : SUBSET PaneIds, prev : {"unknown", "alive", "dead"}]
    BY <2>2 DEF DownFrame
  <2>4. GuestStep
    BY <2>1, <2>2, GuestIdles
  <2> QED BY <2>1, <2>3, <2>4 DEF SessionInv, ServersOK, Phases
<1>2. CASE ListTimesOut(s)
  <2>1. GuestStep
    BY <1>2, GuestWaits DEF ListTimesOut
  <2> QED BY <1>2, <2>1 DEF ListTimesOut, SessionInv, ServersOK, Phases
<1>3. CASE Restore(s)
  BY <1>3, RestoreType
<1>4. CASE ShowOutput(s)
  BY <1>4, ShowType
<1>5. CASE OnExit(s)
  <2>1. /\ Got(s, "exit") /\ DropPane(s, Received(s).pane)
        /\ UNCHANGED <<hostSide, peerVars, alive, cur, seq, listed, resume>>
    BY <1>5 DEF OnExit
  <2>2. /\ Received(s) \in DownFrame /\ Received(s).op = "exit"
        /\ down' \in [Conns -> Seq(DownFrame)] /\ \A d \in Conns : Quiet(d)
    BY <2>1, GotType
  <2>3. Received(s).pane \in PaneIds
    BY <2>2 DEF DownFrame
  <2> QED BY <2>1, <2>2, <2>3, DropType
<1>6. CASE OnOther(s)
  <2>1. PICK op \in {"spawned", "list_reply", "exit"} : Got(s, op)
    BY <1>6 DEF OnOther
  <2>2. UNCHANGED <<hostSide, peerVars, up, alive, srvVars>>
    BY <1>6 DEF OnOther
  <2>3. GuestStep
    BY <2>1, <2>2, GotType, GuestIdles
  <2> QED BY <2>2, <2>3 DEF SessionInv, ServersOK, srvVars
<1>7. CASE RestartExit(s)
  BY <1>7, GuestDies, ForgetType DEF RestartExit, SessionInv
<1>8. CASE OnHostLost(s)
  <2>1. GuestStep
    BY <1>8, GuestWaits DEF OnHostLost
  <2> QED BY <1>8, <2>1 DEF OnHostLost, SessionInv, ServersOK
<1>9. ASSUME NEW c \in Conns, Connect(s, c) PROVE GuestStep /\ ServersOK'
  <2>1. <<OwnerCtl(s), Ctl("list")>> \in Seq(UpFrame)
    BY FramesOfServers DEF CtlOps
  <2>2. GuestStep
    BY <1>9, <2>1, GuestOpens DEF Connect
  <2> QED BY <1>9, <2>2 DEF Connect, SessionInv, ServersOK, Phases
<1>10. ASSUME NEW c \in Conns, EndServer(s, c) PROVE GuestStep /\ ServersOK'
  BY <1>10, GuestEnds, ForgetType DEF EndServer, SessionInv
<1>11. ASSUME NEW c \in Conns, Reconnect(s, c) PROVE GuestStep /\ ServersOK'
  <2>1. <<OwnerCtl(s)>> \in Seq(UpFrame)
    BY FramesOfServers
  <2>2. GuestStep
    BY <1>11, <2>1, GuestOpens DEF Reconnect
  <2> QED BY <1>11, <2>2 DEF Reconnect, SessionInv, ServersOK
<1> QED BY <1>1, <1>2, <1>3, <1>4, <1>5, <1>6, <1>7, <1>8, <1>9, <1>10, <1>11 DEF ServerStep

LEMMA UserGuest ==
  ASSUME SessionInv, NEW s \in Owners, UserStep(s)
  PROVE  GuestStep /\ ServersOK'
<1>1. CASE Launch(s)
  <2>1. GuestStep
    BY <1>1, GuestWaits DEF Launch
  <2> QED BY <1>1, <2>1 DEF Launch, SessionInv, ServersOK, Phases
<1>2. CASE NewTab(s)
  <2>1. SpawnPane(s, tabs[s] \cup {<<NextPaneId(s)>>})
    BY <1>2 DEF NewTab
  <2>2. NextPaneId(s) \in PaneIds => tabs[s] \cup {<<NextPaneId(s)>>} \subseteq Tab
    BY TabTypes
  <2> QED BY <2>1, <2>2, SpawnType
<1>3. CASE Crash(s)
  BY <1>3, GuestDies, ForgetType DEF Crash, SessionInv
<1>4. ASSUME NEW t \in tabs[s], SplitTab(s, t) PROVE GuestStep /\ ServersOK'
  <2>1. SpawnPane(s, (tabs[s] \ {t}) \cup {Append(t, NextPaneId(s))})
    BY <1>4 DEF SplitTab
  <2>2. NextPaneId(s) \in PaneIds =>
          (tabs[s] \ {t}) \cup {Append(t, NextPaneId(s))} \subseteq Tab
    BY <1>4, TabTypes
  <2> QED BY <2>1, <2>2, SpawnType
<1>5. ASSUME NEW p \in PaneIds, KillPane(s, p) PROVE GuestStep /\ ServersOK'
  <2>1. /\ DropPane(s, p)
        /\ UNCHANGED <<hostSide, peerVars, down, alive, cur, seq, listed, resume>>
    BY <1>5 DEF KillPane
  <2>2. down' \in [Conns -> Seq(DownFrame)]
    BY <2>1 DEF SessionInv, HostInv, FlightInv, RingInv, KeptInv, TypeInv, TypeOK
  <2>3. \A d \in Conns : Quiet(d)
    BY <2>1, Zenon DEF Quiet
  <2> QED BY <2>1, <2>2, <2>3, DropType
<1>6. ASSUME NEW t \in Owners, Restart(s, t) PROVE GuestStep /\ ServersOK'
  <2>1. /\ resume' = [resume EXCEPT ![t] = [tabs |-> tabs[s], screen |-> screen[s]]]
        /\ phase' = [phase EXCEPT ![s] = "leaving", ![t] = "boot"]
        /\ UNCHANGED <<hostVars, cur, cbs, tabs, seq, listed, screen>>
    BY <1>6 DEF Restart
  <2>2. GuestStep
    BY <2>1, GuestWaits
  <2>3. resume' \in [Owners -> [tabs : SUBSET Tab, screen : Screens]]
    BY <2>1 DEF SessionInv, ServersOK
  <2>4. phase' \in [Owners -> Phases]
    BY <2>1 DEF SessionInv, ServersOK, Phases
  <2> QED BY <2>1, <2>2, <2>3, <2>4 DEF SessionInv, ServersOK
<1> QED BY <1>1, <1>2, <1>3, <1>4, <1>5, <1>6 DEF UserStep

LEMMA SessionStep == SessionInv /\ [SessionNext]_sessionVars => SessionInv'
<1> SUFFICES ASSUME SessionInv, [SessionNext]_sessionVars PROVE SessionInv'
  OBVIOUS
<1>1. CASE (HostStep \/ ShellStep) /\ UNCHANGED srvVars
  <2>1. HostInv'
    BY <1>1, HostKeeps DEF SessionInv
  <2> QED BY <1>1, <2>1 DEF SessionInv, ServersOK, srvVars
<1>2. ASSUME NEW s \in Owners, ServerStep(s) \/ UserStep(s) PROVE SessionInv'
  <2>1. GuestStep /\ ServersOK'
    BY <1>2, ServerGuest, UserGuest
  <2> QED BY <2>1, GuestKeeps DEF SessionInv
<1>3. CASE UNCHANGED sessionVars
  <2>1. GuestStep
    BY <1>3, GuestWaits DEF sessionVars
  <2>2. HostInv'
    BY <2>1, GuestKeeps DEF SessionInv
  <2> QED BY <1>3, <2>2 DEF SessionInv, ServersOK, sessionVars, srvVars
<1> QED BY <1>1, <1>2, <1>3 DEF SessionNext

LEMMA SessionBegins == SessionInit => SessionInv
BY HostBegins, BlankTypes DEF SessionInit, SessionInv, ServersOK, Phases

\* What the runs call the type of the composition.
LEMMA SessionTypes == SessionInv => SessionTypeOK
<1> SUFFICES ASSUME SessionInv PROVE SessionTypeOK
  OBVIOUS
<1>1. TypeOK
  BY DEF SessionInv, HostInv, FlightInv, RingInv, KeptInv, TypeInv
<1>2. ASSUME NEW s \in Owners
      PROVE  /\ tabs[s] \cup resume[s].tabs \subseteq Tab
             /\ screen[s] \in Screens /\ listed[s].panes \subseteq PaneIds
  BY DEF SessionInv, ServersOK
<1> QED BY <1>1, <1>2 DEF SessionTypeOK, SessionInv, ServersOK, Tab, Screens

\* Whatever servers start, restart, crash and lose their connections, what they and
\* the daemon keep has its shape: no tab without a pane, no pane number outside the
\* allocator's, no output on a screen that no shell wrote.
THEOREM SessionTypeCorrect == SessionSpec => []SessionTypeOK
BY SessionBegins, SessionStep, SessionTypes, PTL DEF SessionSpec

\* What is proved of the daemon under arbitrary peers holds under the real servers.
THEOREM SessionKeepsDaemon ==
  SessionSpec => [](OneServer /\ KeptOnlyWhenDetached /\ KeptIsNewest
                      /\ InFlightInOrder /\ SpawnsReserved)
<1>1. SessionInv => OneServer /\ KeptOnlyWhenDetached /\ KeptIsNewest
                      /\ InFlightInOrder /\ SpawnsReserved
  BY FlightOrdered DEF SessionInv, HostInv, FlightInv, RingInv, KeptInv
<1> QED BY <1>1, SessionBegins, SessionStep, PTL DEF SessionSpec

-----------------------------------------------------------------------------
(* Pane numbers.  A number is given away once as long as a starting server    *)
(* hears of every pane the daemon has: the list is answered in time, and the   *)
(* daemon has worked off what its predecessor sent (Prompt).  Otherwise the    *)
(* allocator may start too low, as the code does after a timeout.              *)

Prompt == Events \cap {"list_timeout", "slow_host"} = {}

\* A frame the daemon has yet to read: its handler has not ended.
Waits(c, i, op, p) == /\ hpc[c] # "closed" /\ i \in 1..Len(up[c])
                      /\ up[c][i] = PaneCtl(op, p)
Waiting(op, p) == \E c \in Conns : \E i \in 1..Len(up[c]) : Waits(c, i, op, p)
Asked(p)   == Waiting("spawn", p)
Closing(p) == Waiting("close", p)

\* No server runs beside another; only a successor boots while its predecessor leaves.
Alone == \A s, t \in Owners : s # t /\ Living(s) /\ Living(t) =>
           \/ phase[s] = "leaving" /\ phase[t] = "boot"
           \/ phase[s] = "boot" /\ phase[t] = "leaving"
\* Who has not restored anything has no callbacks, and no connection before it boots.
Idle == \A s \in Owners :
          /\ phase[s] \in {"none", "boot", "gone"} => cur[s] = 0
          /\ phase[s] \in {"none", "boot", "listing", "listed", "gone"} =>
               cbs[s] = {} /\ tabs[s] = {}
          /\ phase[s] \in {"none", "run", "leaving", "ending"} => resume[s].tabs = {}
Unopened == \A c \in Conns : popen[c] = "none" =>
              up[c] = <<>> /\ down[c] = <<>> /\ hpc[c] \in {"none", "closed"}
Down == ~hostUp => \A c \in Conns : hpc[c] = "closed"
\* A pane is asked for once, and only when the daemon has none of that number.
AskedOnce ==
  \A p \in PaneIds, c, d \in Conns :
    \A i \in 1..Len(up[c]), j \in 1..Len(up[d]) :
      Waits(c, i, "spawn", p) /\ Waits(d, j, "spawn", p) => c = d /\ i = j
AskedFresh == \A p \in PaneIds : Asked(p) => p \notin Taken
\* The allocator of a running server is past every number in use.
Below == \A s \in Owners : phase[s] = "run" =>
           \A p \in PaneIds : p \in Taken \/ Asked(p) => p <= seq[s]
\* While a server starts, nothing is being made, asked for or closed ...
Quiescent == \A s \in Owners : phase[s] \in {"listing", "listed"} =>
               /\ spawning = {} /\ cur[s] \in Conns
               /\ \A p \in PaneIds : ~Asked(p) /\ ~Closing(p)
\* ... so that the answer it reads still covers every registered pane.
Replies == \A s \in Owners : phase[s] = "listing" =>
             \A i \in 1..Len(down[cur[s]]) : down[cur[s]][i].op = "list_reply" =>
               Registered \subseteq down[cur[s]][i].panes
Lists == \A s \in Owners : phase[s] = "listed" => Registered \subseteq listed[s].panes

NumberInv == /\ SessionInv /\ Alone /\ Idle /\ Unopened /\ Down
             /\ AskedOnce /\ AskedFresh /\ Below /\ Quiescent /\ Replies /\ Lists

-----------------------------------------------------------------------------
(* Queues: reading them, and writing to them.                                *)

Reads(d) == /\ hpc'[d] # "closed" => hpc[d] # "closed"
            /\ up'[d] = up[d] \/ (up[d] # <<>> /\ up'[d] = Tail(up[d]))

\* The position before the step of a frame that still waits after it.
LEMMA ReadsFrom ==
  ASSUME up \in [Conns -> Seq(UpFrame)], NEW d \in Conns, Reads(d),
         NEW i, NEW op, NEW p, Waits(d, i, op, p)'
  PROVE  \/ up'[d] = up[d] /\ Waits(d, i, op, p)
         \/ up[d] # <<>> /\ up'[d] = Tail(up[d]) /\ Waits(d, i + 1, op, p)
            /\ i \in Nat /\ i + 1 # 1
<1>1. /\ hpc'[d] # "closed" /\ i \in 1..Len(up'[d])
      /\ up'[d][i] = PaneCtl(op, p)
  BY DEF Waits, PaneCtl
<1>2. hpc[d] # "closed" /\ (up'[d] = up[d] \/ (up[d] # <<>> /\ up'[d] = Tail(up[d])))
  BY <1>1 DEF Reads
<1>3. CASE up'[d] = up[d]
  BY <1>1, <1>2, <1>3, Zenon DEF Waits
<1>4. CASE up[d] # <<>> /\ up'[d] = Tail(up[d])
  <2>1. up[d] \in Seq(UpFrame)
    OBVIOUS
  <2>2. i + 1 \in 1..Len(up[d]) /\ up[d][i + 1] = Tail(up[d])[i] /\ i \in Nat /\ i + 1 # 1
    BY <1>1, <1>4, <2>1
  <2> QED BY <1>1, <1>2, <1>4, <2>2, Zenon DEF Waits
<1> QED BY <1>2, <1>3, <1>4

LEMMA OnceIs ==
  ASSUME AskedOnce, NEW p \in PaneIds, NEW c \in Conns, NEW d \in Conns, NEW i, NEW j,
         Waits(c, i, "spawn", p), Waits(d, j, "spawn", p)
  PROVE  c = d /\ i = j
<1>1. i \in 1..Len(up[c]) /\ j \in 1..Len(up[d])
  BY Zenon DEF Waits
<1>2. \A k \in 1..Len(up[c]), l \in 1..Len(up[d]) :
        Waits(c, k, "spawn", p) /\ Waits(d, l, "spawn", p) => c = d /\ k = l
  BY Zenon DEF AskedOnce
<1> QED BY <1>1, <1>2, Zenon

LEMMA ReadingKeeps ==
  ASSUME up \in [Conns -> Seq(UpFrame)], \A d \in Conns : Reads(d)
  PROVE  /\ \A op, p : Waiting(op, p)' => Waiting(op, p)
         /\ AskedOnce => AskedOnce'
<1>1. ASSUME NEW op, NEW p, Waiting(op, p)' PROVE Waiting(op, p)
  <2>1. PICK d \in Conns : \E k \in 1..Len(up'[d]) : Waits(d, k, op, p)'
    BY <1>1 DEF Waiting
  <2> PICK i \in 1..Len(up'[d]) : Waits(d, i, op, p)'
    BY <2>1
  <2>2. Waits(d, i, op, p) \/ Waits(d, i + 1, op, p)
    BY <2>1, ReadsFrom
  <2> QED BY <2>2, Zenon DEF Waiting, Waits
<1>2. ASSUME AskedOnce, NEW p \in PaneIds, NEW c \in Conns, NEW d \in Conns,
             NEW i \in 1..Len(up'[c]), NEW j \in 1..Len(up'[d]),
             Waits(c, i, "spawn", p)', Waits(d, j, "spawn", p)'
      PROVE  c = d /\ i = j
  <2>1. \/ up'[c] = up[c] /\ Waits(c, i, "spawn", p)
        \/ up[c] # <<>> /\ up'[c] = Tail(up[c]) /\ Waits(c, i + 1, "spawn", p) /\ i \in Nat
    BY <1>2, ReadsFrom
  <2>2. \/ up'[d] = up[d] /\ Waits(d, j, "spawn", p)
        \/ up[d] # <<>> /\ up'[d] = Tail(up[d]) /\ Waits(d, j + 1, "spawn", p) /\ j \in Nat
    BY <1>2, ReadsFrom
  <2>3. \A k, l : Waits(c, k, "spawn", p) /\ Waits(d, l, "spawn", p) => c = d /\ k = l
    BY <1>2, OnceIs
  <2>4. c = d
    BY <2>1, <2>2, <2>3
  <2>5. up[c] \in Seq(UpFrame) /\ (up[c] # <<>> => Tail(up[c]) # up[c])
    <3>1. up[c] # <<>> => Len(Tail(up[c])) = Len(up[c]) - 1 /\ Len(up[c]) \in Nat
      OBVIOUS
    <3> QED BY <3>1
  <2>6. i = j
    BY <2>1, <2>2, <2>3, <2>4, <2>5
  <2> QED BY <2>4, <2>6
<1> QED BY <1>1, <1>2, Zenon DEF AskedOnce

\* Where a frame that waits after a server wrote fs on c comes from.
LEMMA WritesFrom ==
  ASSUME up \in [Conns -> Seq(UpFrame)], NEW c \in Conns, NEW fs \in Seq(UpFrame),
         hpc' = hpc, up' = [up EXCEPT ![c] = up[c] \o fs],
         NEW d \in Conns, NEW i, NEW op, NEW p, Waits(d, i, op, p)'
  PROVE  \/ Waits(d, i, op, p)
         \/ d = c /\ \E j \in 1..Len(fs) : fs[j] = PaneCtl(op, p) /\ i = Len(up[c]) + j
<1>1. /\ hpc[d] # "closed" /\ i \in 1..Len(up'[d])
      /\ up'[d][i] = PaneCtl(op, p)
  BY DEF Waits, PaneCtl
<1>2. CASE d # c
  <2>1. up'[d] = up[d]
    BY <1>2
  <2> QED BY <1>1, <2>1, Zenon DEF Waits
<1>3. CASE d = c
  <2>1. up'[c] = up[c] \o fs /\ up[c] \in Seq(UpFrame)
    OBVIOUS
  <2>2. CASE i \in 1..Len(up[c])
    <3>1. up'[c][i] = up[c][i]
      BY <2>1, <2>2
    <3> QED BY <1>1, <1>3, <2>2, <3>1, Zenon DEF Waits
  <2>3. CASE ~(i \in 1..Len(up[c]))
    <3>1. /\ Len(up'[c]) = Len(up[c]) + Len(fs) /\ Len(up[c]) \in Nat /\ Len(fs) \in Nat
          /\ i \in 1..(Len(up[c]) + Len(fs))
      BY <1>1, <1>3, <2>1
    <3>2. i - Len(up[c]) \in 1..Len(fs) /\ i = Len(up[c]) + (i - Len(up[c]))
      BY <2>3, <3>1
    <3>3. up'[c][i] = fs[i - Len(up[c])]
      BY <2>1, <2>3, <3>1
    <3> QED BY <1>1, <1>3, <3>2, <3>3, Zenon
  <2> QED BY <2>2, <2>3
<1> QED BY <1>2, <1>3

LEMMA WritingKeeps ==
  ASSUME up \in [Conns -> Seq(UpFrame)], NEW c \in Conns, NEW fs \in Seq(UpFrame),
         hpc' = hpc, up' = [up EXCEPT ![c] = up[c] \o fs]
  PROVE  /\ \A op, p : Waiting(op, p)' =>
              Waiting(op, p) \/ \E i \in 1..Len(fs) : fs[i] = PaneCtl(op, p)
         /\ AskedOnce /\ (\A p \in PaneIds : \A i, j \in 1..Len(fs) :
                           fs[i] = PaneCtl("spawn", p) /\ fs[j] = PaneCtl("spawn", p) =>
                             i = j /\ ~Asked(p)) => AskedOnce'
<1>1. ASSUME NEW op, NEW p, Waiting(op, p)'
      PROVE  Waiting(op, p) \/ \E i \in 1..Len(fs) : fs[i] = PaneCtl(op, p)
  <2>1. PICK d \in Conns : \E k \in 1..Len(up'[d]) : Waits(d, k, op, p)'
    BY <1>1 DEF Waiting
  <2> PICK i \in 1..Len(up'[d]) : Waits(d, i, op, p)'
    BY <2>1
  <2>2. Waits(d, i, op, p) \/ \E j \in 1..Len(fs) : fs[j] = PaneCtl(op, p)
    <3>1. Waits(d, i, op, p)'
      BY <2>1
    <3>2. \/ Waits(d, i, op, p)
          \/ d = c /\ \E j \in 1..Len(fs) : fs[j] = PaneCtl(op, p) /\ i = Len(up[c]) + j
      BY <3>1, WritesFrom
    <3> QED BY <3>2, Zenon
  <2> QED BY <2>2, Zenon DEF Waiting, Waits
<1>2. ASSUME AskedOnce,
             \A p \in PaneIds : \A i, j \in 1..Len(fs) :
               fs[i] = PaneCtl("spawn", p) /\ fs[j] = PaneCtl("spawn", p) => i = j /\ ~Asked(p),
             NEW p \in PaneIds, NEW a \in Conns, NEW d \in Conns,
             NEW i \in 1..Len(up'[a]), NEW j \in 1..Len(up'[d]),
             Waits(a, i, "spawn", p)', Waits(d, j, "spawn", p)'
      PROVE  a = d /\ i = j
  <2>1. \/ Waits(a, i, "spawn", p)
        \/ a = c /\ \E k \in 1..Len(fs) : fs[k] = PaneCtl("spawn", p) /\ i = Len(up[c]) + k
    <3>1. Waits(a, i, "spawn", p)'
      BY <1>2
    <3> QED BY <3>1, WritesFrom, ZenonT(60)
  <2>2. \/ Waits(d, j, "spawn", p)
        \/ d = c /\ \E k \in 1..Len(fs) : fs[k] = PaneCtl("spawn", p) /\ j = Len(up[c]) + k
    <3>1. Waits(d, j, "spawn", p)'
      BY <1>2
    <3> QED BY <3>1, WritesFrom, ZenonT(60)
  <2>3. \A b, k : b \in Conns /\ Waits(b, k, "spawn", p) => Asked(p)
    BY Zenon DEF Asked, Waiting, Waits
  <2>4. CASE Asked(p)
    <3>1. Waits(a, i, "spawn", p) /\ Waits(d, j, "spawn", p)
      BY <1>2, <2>1, <2>2, <2>4, Zenon
    <3> QED BY <1>2, <3>1, OnceIs
  <2>5. CASE ~Asked(p)
    <3>1. PICK k \in 1..Len(fs) : a = c /\ fs[k] = PaneCtl("spawn", p) /\ i = Len(up[c]) + k
      BY <2>1, <2>3, <2>5, Zenon
    <3>2. PICK l \in 1..Len(fs) : d = c /\ fs[l] = PaneCtl("spawn", p) /\ j = Len(up[c]) + l
      BY <2>2, <2>3, <2>5, Zenon
    <3>3. k = l
      BY <1>2, <3>1, <3>2, Zenon
    <3> QED BY <3>1, <3>2, <3>3
  <2> QED BY <2>4, <2>5
<1> QED BY <1>1, <1>2, Zenon DEF AskedOnce

-----------------------------------------------------------------------------
(* The daemon's steps, as far as pane numbers go.                            *)

LEMMA ReadsIs ==
  ASSUME TypeOK, NEW c \in Conns, hpc[c] # "closed",
         hpc' = hpc \/ \E h : hpc' = [hpc EXCEPT ![c] = h],
         up' = up \/ (up[c] # <<>> /\ up' = [up EXCEPT ![c] = Tail(up[c])])
  PROVE  \A d \in Conns : Reads(d)
BY SMT DEF TypeOK, Reads

LEMMA ConnReads ==
  ASSUME TypeOK, NEW c \in Conns, ConnStep(c)
  PROVE  /\ hpc[c] # "closed" /\ (hpc[c] = "none" => popen[c] # "none")
         /\ \A d \in Conns : Reads(d) /\ (d # c => hpc'[d] = hpc[d])
<1>1. hpc[c] # "closed" /\ (hpc[c] = "none" => popen[c] # "none")
  BY DEF ConnStep, Accept, Authenticate, DeclareProbe, AdoptServer, OnEof, Taking, OnOwner,
         OnUnknown, OnSpawnAgain, OnSpawn, SpawnFails, SpawnLands, OnClose, OnPause, OnResume,
         OnList, ListAnswered, OnShutdown, ShutdownSettled, BackendSpawn
<1>2. hpc' = hpc \/ \E h : hpc' = [hpc EXCEPT ![c] = h]
  BY Zenon DEF ConnStep, Accept, Authenticate, DeclareProbe, AdoptServer, OnEof, OnOwner,
         OnUnknown, OnSpawnAgain, OnSpawn, SpawnFails, SpawnLands, OnClose, OnPause, OnResume,
         OnList, ListAnswered, OnShutdown, ShutdownSettled, BackendSpawn, CloseConn, connVars
<1>3. up' = up \/ (up[c] # <<>> /\ up' = [up EXCEPT ![c] = Tail(up[c])])
  BY Zenon DEF ConnStep, Accept, Authenticate, DeclareProbe, AdoptServer, OnEof, Taking, OnOwner,
         OnUnknown, OnSpawnAgain, OnSpawn, SpawnFails, SpawnLands, OnClose, OnPause, OnResume,
         OnList, ListAnswered, OnShutdown, ShutdownSettled, BackendSpawn
<1>4. \A d \in Conns : d # c => hpc'[d] = hpc[d]
  BY <1>2 DEF TypeOK
<1> QED BY <1>1, <1>2, <1>3, <1>4, ReadsIs

\* Panes come to be taken by a spawn only, and registered by its landing.
LEMMA ConnTakes ==
  ASSUME HostInv, hostUp, NEW c \in Conns, ConnStep(c)
  PROVE  /\ Taken' \subseteq Taken \/ (OnSpawn(c) /\ Taken' = Taken \cup {Arg(c)})
         /\ spawning' \subseteq spawning \/ OnSpawn(c)
         /\ Registered' \subseteq Registered \/ (SpawnLands(c) /\ harg[c] \in spawning
                                              /\ Registered' \subseteq Registered \cup {harg[c]}
                                              /\ spawning' = spawning \ {harg[c]})
<1> USE DEF paneVars, connVars
<1>t. TypeOK /\ SpawnsReserved
  BY DEF HostInv, FlightInv, RingInv, KeptInv, TypeInv
<1>1. CASE UNCHANGED <<shellOf, spawning>>
  BY <1>1 DEF Taken, Registered
<1>2. CASE OnSpawn(c)
  BY <1>2 DEF OnSpawn, Taken, Registered
<1>3. CASE SpawnFails(c)
  BY <1>3 DEF SpawnFails, Taken, Registered
<1>4. CASE SpawnLands(c)
  <2>1. harg[c] \in spawning /\ harg[c] \in PaneIds
    BY <1>4, <1>t DEF SpawnLands, SpawnsReserved, TypeOK
  <2>2. /\ spawning' = spawning \ {harg[c]}
        /\ shellOf' = shellOf \/ shellOf' = [shellOf EXCEPT ![harg[c]] = hshell[c]]
    BY <1>4 DEF SpawnLands
  <2>3. Registered' \subseteq Registered \cup {harg[c]}
    BY <1>t, <2>2 DEF Registered, TypeOK
  <2>4. Taken' \subseteq Taken
    BY <2>1, <2>2, <2>3 DEF Taken
  <2> QED BY <1>4, <2>1, <2>2, <2>3, <2>4
<1>5. CASE OnClose(c) \/ ShutdownSettled(c)
  <2>1. spawning' = spawning /\ \E S : ClosePanes(S)
    BY <1>5, Zenon DEF OnClose, ShutdownSettled
  <2>2. Registered' \subseteq Registered
    BY <2>1 DEF ClosePanes, Registered
  <2> QED BY <2>1, <2>2 DEF Taken
<1> QED BY <1>1, <1>2, <1>3, <1>4, <1>5, Zenon
        DEF ConnStep, Accept, Authenticate, DeclareProbe, AdoptServer, OnEof, OnOwner,
            OnUnknown, OnSpawnAgain, OnPause, OnResume, OnList, ListAnswered, OnShutdown,
            BackendSpawn

\* What it writes: a list reply names what is registered, and only open connections
\* are written to.
Answers(d, f) ==
  /\ f \in DownFrame /\ down'[d] = Append(down[d], f) /\ popen[d] # "none"
  /\ f.op = "list_reply" => f.panes = Registered

LEMMA WrittenAnswers ==
  ASSUME TypeOK, NEW c \in Conns, NEW f \in DownFrame, down' = Written(c, f),
         f.op = "list_reply" => f.panes = Registered
  PROVE  \A d \in Conns : down'[d] = down[d] \/ Answers(d, f)
<1>1. \A d \in Conns : down'[d] = down[d]
                        \/ (down'[d] = Append(down[d], f) /\ popen[d] # "none")
  BY SMT DEF Written, TypeOK
<1> QED BY <1>1, Zenon DEF Answers

LEMMA ConnAnswers ==
  ASSUME HostInv, hostUp, NEW c \in Conns, ConnStep(c)
  PROVE  \A d \in Conns : down'[d] = down[d] \/ \E f : Answers(d, f) /\ f.op # "exit"
<1> USE DEF paneVars, connVars
<1>t. TypeOK /\ SpawnsReserved /\ TypeOK'
  <2>1. HostInv'
    BY HostKeeps DEF HostStep
  <2> QED BY <2>1 DEF HostInv, FlightInv, RingInv, KeptInv, TypeInv
<1>1. CASE AdoptServer(c)
  <2>1. down' = down \/ down' = Written(c, DataFrame(pending))
    BY <1>1, Zenon DEF AdoptServer, Flush
  <2>2. DataFrame(pending) \in DownFrame
    BY <1>t, DataFrameIsDown DEF TypeOK
  <2>3. DataFrame(pending).op = "data"
    BY DEF DataFrame
  <2> QED BY <2>1, <2>2, <2>3, <1>t, WrittenAnswers
<1>2. CASE OnSpawnAgain(c) \/ SpawnLands(c)
  <2>1. PICK p \in PaneIds, k \in Shells \cup {0} : down' = Written(c, SpawnedFrame(p, k))
    <3>1. CASE OnSpawnAgain(c)
      <4>1. Arg(c) \in PaneIds
        BY <1>t, <3>1, TakingType DEF OnSpawnAgain, PaneOps
      <4> QED BY <1>t, <3>1, <4>1 DEF OnSpawnAgain, TypeOK
    <3>2. CASE SpawnLands(c)
      <4>1. down' = Written(c, SpawnedFrame(harg[c], shellOf'[harg[c]])) /\ hshell[c] # 0
            /\ (shellOf' = shellOf \/ shellOf' = [shellOf EXCEPT ![harg[c]] = hshell[c]])
        BY <3>2 DEF SpawnLands
      <4>2. harg[c] \in PaneIds
        BY <1>t, <3>2 DEF SpawnLands, SpawnsReserved, TypeOK
      <4>3. shellOf'[harg[c]] \in Shells \cup {0}
        BY <1>t, <4>2 DEF TypeOK
      <4> QED BY <4>1, <4>2, <4>3
    <3> QED BY <1>2, <3>1, <3>2
  <2>2. SpawnedFrame(p, k) \in DownFrame /\ SpawnedFrame(p, k).op = "spawned"
    BY SpawnedIsDown DEF SpawnedFrame
  <2> QED BY <1>t, <2>1, <2>2, WrittenAnswers
<1>3. CASE OnList(c) \/ ListAnswered(c)
  <2>1. down' = down \/ \E v \in {"unknown", "alive", "dead"} : ListReply(c, v)
    BY <1>3 DEF OnList, ListAnswered
  <2>2. ASSUME NEW v \in {"unknown", "alive", "dead"}, ListReply(c, v)
        PROVE  \A d \in Conns : down'[d] = down[d] \/ \E f : Answers(d, f) /\ f.op # "exit"
    <3> DEFINE f == [op |-> "list_reply", panes |-> Registered, prev |-> v]
    <3>1. f \in DownFrame /\ f.op = "list_reply" /\ f.panes = Registered
      BY DEF DownFrame, Registered
    <3>2. down' = Written(c, f)
      BY <2>2 DEF ListReply
    <3> HIDE DEF f
    <3> QED BY <1>t, <3>1, <3>2, WrittenAnswers
  <2> QED BY <2>1, <2>2
<1> QED BY <1>1, <1>2, <1>3, Zenon
        DEF ConnStep, Accept, Authenticate, DeclareProbe, OnEof, OnOwner, OnUnknown,
            OnSpawn, BackendSpawn, SpawnFails, OnClose, OnPause, OnResume, OnShutdown,
            ShutdownSettled

\* All that in one place, with the daemon's other tasks.
LEMMA HostMoves ==
  ASSUME HostInv, Down, HostStep \/ ShellStep
  PROVE  /\ popen' = popen /\ Down' /\ \A d \in Conns : Reads(d)
         /\ \A d \in Conns : down'[d] = down[d] \/ \E f : Answers(d, f)
         /\ Unopened => Unopened'
         /\ Registered' \subseteq Registered \cup spawning
         /\ \/ Taken' \subseteq Taken /\ spawning' \subseteq spawning
            \/ \E c \in Conns : OnSpawn(c) /\ Taken' = Taken \cup {Arg(c)}
<1> USE DEF paneVars, connVars, wdVars, peerVars
<1>t. TypeOK
  BY DEF HostInv, FlightInv, RingInv, KeptInv, TypeInv
<1>c. ASSUME NEW S, ClosePanes(S)
      PROVE  /\ Registered' \subseteq Registered
             /\ spawning' \subseteq spawning => Taken' \subseteq Taken
  <2>1. Registered' \subseteq Registered
    BY <1>c DEF ClosePanes, Registered
  <2> QED BY <2>1 DEF Taken
<1>i. UNCHANGED <<hpc, up>> => \A d \in Conns : Reads(d)
  BY DEF Reads
<1>1. ASSUME NEW c \in Conns, ConnStep(c)
      PROVE  /\ popen' = popen /\ hostUp' = hostUp /\ \A d \in Conns : Reads(d)
             /\ \A d \in Conns : down'[d] = down[d] \/ \E f : Answers(d, f)
             /\ Unopened => \A d \in Conns : popen[d] = "none" => hpc'[d] = hpc[d]
             /\ Registered' \subseteq Registered \cup spawning
             /\ \/ Taken' \subseteq Taken /\ spawning' \subseteq spawning
                \/ \E d \in Conns : OnSpawn(d) /\ Taken' = Taken \cup {Arg(d)}
  <2>1. /\ hpc[c] # "closed" /\ (hpc[c] = "none" => popen[c] # "none")
        /\ \A d \in Conns : Reads(d) /\ (d # c => hpc'[d] = hpc[d])
    BY <1>t, <1>1, ConnReads
  <2>2. hostUp
    BY <2>1 DEF Down
  <2>3. popen' = popen /\ hostUp' = hostUp
    BY <1>1, Zenon DEF ConnStep, Accept, Authenticate, DeclareProbe, AdoptServer, OnEof,
         OnOwner, OnUnknown, OnSpawnAgain, OnSpawn, SpawnFails, SpawnLands, OnClose, OnPause,
         OnResume, OnList, ListAnswered, OnShutdown, ShutdownSettled, BackendSpawn
  <2>4. \A d \in Conns : down'[d] = down[d] \/ \E f : Answers(d, f)
    BY <1>1, <2>2, ConnAnswers
  <2>5. Unopened => \A d \in Conns : popen[d] = "none" => hpc'[d] = hpc[d]
    BY <2>1 DEF Unopened
  <2>6. /\ Taken' \subseteq Taken \/ (OnSpawn(c) /\ Taken' = Taken \cup {Arg(c)})
        /\ spawning' \subseteq spawning \/ OnSpawn(c)
        /\ Registered' \subseteq Registered \/ (harg[c] \in spawning
                                              /\ Registered' \subseteq Registered \cup {harg[c]})
    BY <1>1, <2>2, ConnTakes
  <2>7. OnSpawn(c) => Taken' = Taken \cup {Arg(c)}
    BY DEF OnSpawn, Taken, Registered
  <2>8. Registered' \subseteq Registered \cup spawning
    BY <2>6
  <2> QED BY <2>1, <2>3, <2>4, <2>5, <2>6, <2>7, <2>8
<1>2. ASSUME ShellStep \/ Watchdog \/ (\E p \in PaneIds : ReaderEof(p) \/ \E k \in Shells : FinishEof(p, k))
      PROVE  /\ UNCHANGED <<popen, hostUp, hpc, up>> /\ spawning' = spawning
             /\ \A d \in Conns : down'[d] = down[d] \/ \E f : Answers(d, f)
             /\ Registered' \subseteq Registered /\ Taken' \subseteq Taken
  <2>1. ASSUME NEW p \in PaneIds, ShellOutput(p)
        PROVE  \A d \in Conns : down'[d] = down[d] \/ \E f : Answers(d, f)
    <3> DEFINE k == shellOf[p]
               n == out[k] + 1
               data == [NoData EXCEPT ![p] = <<n>>]
    <3>1. k \in Shells /\ n \in Nat
      BY <1>t, <2>1 DEF ShellOutput, Registered, TypeOK
    <3>2. data \in [PaneIds -> Seq(Nat)]
      BY <3>1, NoDataType
    <3>3. down' = down \/ (writer \in Conns /\ down' = Written(writer, DataFrame(data)))
      BY <1>t, <2>1 DEF ShellOutput, TypeOK, Detached
    <3> HIDE DEF data
    <3>4. DataFrame(data) \in DownFrame /\ DataFrame(data).op = "data"
      BY <1>t, <3>2, DataFrameIsDown DEF TypeOK, DataFrame
    <3> QED BY <1>t, <3>3, <3>4, WrittenAnswers
  <2>2. ASSUME NEW p \in PaneIds, NEW k \in Shells, FinishEof(p, k)
        PROVE  \A d \in Conns : down'[d] = down[d] \/ \E f : Answers(d, f)
    <3> DEFINE f == [op |-> "exit", pane |-> p]
    <3>1. f \in DownFrame /\ f.op = "exit"
      BY ExitIsDown
    <3>2. down' = down \/ (writer \in Conns /\ down' = Written(writer, f))
      BY <1>t, <2>2 DEF FinishEof, TypeOK
    <3> HIDE DEF f
    <3> QED BY <1>t, <3>1, <3>2, WrittenAnswers
  <2>3. \/ \E p \in PaneIds : ShellOutput(p)
        \/ \E p \in PaneIds, k \in Shells : FinishEof(p, k)
        \/ down' = down
    BY <1>2, Zenon DEF ShellStep, ShellExit, Watchdog, WatchAttached, WatchIdle, WatchVerdict,
                       WatchSettled, ReaderEof
  <2>4. UNCHANGED <<popen, hostUp, hpc, up>> /\ spawning' = spawning
    BY <1>2, Zenon DEF ShellStep, ShellOutput, ShellExit, Watchdog, WatchAttached, WatchIdle,
                       WatchVerdict, WatchSettled, ReaderEof, FinishEof
  <2>5. shellOf' = shellOf \/ \E S : ClosePanes(S)
    BY <1>2, Zenon DEF ShellStep, ShellOutput, ShellExit, Watchdog, WatchAttached, WatchIdle,
                       WatchVerdict, WatchSettled, ReaderEof, FinishEof
  <2>6. Registered' \subseteq Registered /\ Taken' \subseteq Taken
    BY <1>c, <2>4, <2>5 DEF Registered, Taken
  <2> QED BY <2>1, <2>2, <2>3, <2>4, <2>6
<1>3. ASSUME HostExit
      PROVE  /\ UNCHANGED <<popen, up, down>> /\ spawning' \subseteq spawning
             /\ \A d \in Conns : hpc'[d] = "closed"
             /\ Registered' \subseteq Registered /\ Taken' \subseteq Taken
  <2>1. UNCHANGED <<popen, up, down>> /\ spawning' = {} /\ ClosePanes(PaneIds)
        /\ \A d \in Conns : hpc'[d] = "closed"
    BY <1>3, Zenon DEF HostExit
  <2> QED BY <1>c, <2>1
<1>4. /\ popen' = popen /\ (hostUp' = hostUp \/ \A d \in Conns : hpc'[d] = "closed")
      /\ \A d \in Conns : Reads(d)
      /\ \A d \in Conns : down'[d] = down[d] \/ \E f : Answers(d, f)
      /\ Unopened => \A d \in Conns : popen[d] = "none" => hpc'[d] \in {hpc[d], "closed"}
      /\ Registered' \subseteq Registered \cup spawning
      /\ \/ Taken' \subseteq Taken /\ spawning' \subseteq spawning
         \/ \E c \in Conns : OnSpawn(c) /\ Taken' = Taken \cup {Arg(c)}
  <2>1. CASE \E c \in Conns : ConnStep(c)
    BY <1>1, <2>1
  <2>2. CASE ShellStep \/ Watchdog \/ (\E p \in PaneIds : ReaderEof(p) \/ \E k \in Shells : FinishEof(p, k))
    BY <1>i, <1>2, <2>2
  <2>3. CASE HostExit
    <3>1. \A d \in Conns : Reads(d)
      BY <1>3, <2>3 DEF Reads
    <3> QED BY <1>3, <2>3, <3>1
  <2> QED BY <2>1, <2>2, <2>3 DEF HostStep
<1>5. Down'
  BY <1>4 DEF Down, Reads
<1>6. ASSUME Unopened, NEW d \in Conns, popen'[d] = "none"
      PROVE  up'[d] = <<>> /\ down'[d] = <<>> /\ hpc'[d] \in {"none", "closed"}
  <2>1. up[d] = <<>> /\ down[d] = <<>> /\ hpc[d] \in {"none", "closed"} /\ popen[d] = "none"
    BY <1>4, <1>6 DEF Unopened
  <2>2. up'[d] = up[d]
    BY <1>4, <2>1 DEF Reads
  <2>3. down'[d] = down[d]
    BY <1>4, <2>1 DEF Answers
  <2> QED BY <1>4, <1>6, <2>1, <2>2, <2>3
<1> QED BY <1>4, <1>5, <1>6 DEF Unopened

\* A frame for a pane at the head of a connection that is served waits there.
LEMMA HeadWaits ==
  ASSUME TypeOK, NEW c \in Conns, NEW op \in PaneOps,
         hpc[c] = "serve", up[c] # <<>>, Head(up[c]).op = op
  PROVE  Arg(c) \in PaneIds /\ Waits(c, 1, op, Arg(c)) /\ Waiting(op, Arg(c))
<1>1. up[c] \in Seq(UpFrame) /\ Head(up[c]) \in UpFrame /\ Head(up[c]) = up[c][1]
      /\ 1 \in 1..Len(up[c])
  BY DEF TypeOK
<1>2. Arg(c) \in PaneIds /\ Head(up[c]) = PaneCtl(op, Arg(c))
  BY <1>1 DEF UpFrame, PaneOps, CtlOps, Arg, PaneCtl
<1>3. Waits(c, 1, op, Arg(c))
  BY <1>1, <1>2, Zenon DEF Waits
<1> QED BY <1>1, <1>2, <1>3, Zenon DEF Waiting

\* A spawn that is begun is no longer asked for.
LEMMA BegunOnce ==
  ASSUME TypeOK, AskedOnce, \A d \in Conns : Reads(d), NEW c \in Conns, OnSpawn(c),
         NEW p \in PaneIds, p = Arg(c)
  PROVE  Asked(p) /\ ~Asked(p)'
<1>1. /\ hpc[c] = "serve" /\ up[c] # <<>> /\ Head(up[c]).op = "spawn"
      /\ up' = [up EXCEPT ![c] = Tail(up[c])]
  BY DEF OnSpawn, Taking
<1>2. p \in PaneIds /\ Waits(c, 1, "spawn", p) /\ Waiting("spawn", p)
  BY <1>1, HeadWaits DEF PaneOps
<1>3. up \in [Conns -> Seq(UpFrame)]
  BY DEF TypeOK
<1>4. up'[c] # up[c]
  <2>1. up[c] \in Seq(UpFrame) /\ up'[c] = Tail(up[c])
    BY <1>1, <1>3
  <2>2. Len(Tail(up[c])) # Len(up[c])
    BY <1>1, <2>1
  <2> QED BY <2>1, <2>2, Zenon
<1>5. ASSUME NEW d \in Conns, NEW i, Waits(d, i, "spawn", p)' PROVE FALSE
  <2>1. \/ up'[d] = up[d] /\ Waits(d, i, "spawn", p)
        \/ up[d] # <<>> /\ up'[d] = Tail(up[d]) /\ Waits(d, i + 1, "spawn", p) /\ i + 1 # 1
    BY <1>3, <1>5, ReadsFrom
  <2>2. \A k : Waits(d, k, "spawn", p) => d = c /\ k = 1
    BY <1>2, OnceIs
  <2> QED BY <1>4, <2>1, <2>2
<1>6. ~Asked(p)'
  <2>1. ASSUME Asked(p)' PROVE FALSE
    <3>1. PICK d \in Conns : \E k \in 1..Len(up'[d]) : Waits(d, k, "spawn", p)'
      BY <2>1, Zenon DEF Asked, Waiting
    <3> QED BY <1>5, <3>1
  <2> QED BY <2>1
<1> QED BY <1>2, <1>6 DEF Asked

LEMMA HostNumbers ==
  ASSUME NumberInv, HostStep \/ ShellStep, UNCHANGED srvVars
  PROVE  NumberInv'
<1>t. HostInv /\ TypeOK /\ Down /\ Unopened /\ AskedOnce /\ up \in [Conns -> Seq(UpFrame)]
  BY DEF NumberInv, SessionInv, HostInv, FlightInv, RingInv, KeptInv, TypeInv, TypeOK
<1>v. UNCHANGED <<phase, cur, cbs, tabs, seq, listed, resume>>
  BY DEF srvVars
<1>1. /\ Down' /\ Unopened' /\ \A d \in Conns : Reads(d)
      /\ \A d \in Conns : down'[d] = down[d] \/ \E f : Answers(d, f)
      /\ Registered' \subseteq Registered \cup spawning
      /\ \/ Taken' \subseteq Taken /\ spawning' \subseteq spawning
         \/ \E c \in Conns : OnSpawn(c) /\ Taken' = Taken \cup {Arg(c)}
  BY <1>t, HostMoves
<1>2. AskedOnce' /\ \A op, p : Waiting(op, p)' => Waiting(op, p)
  BY <1>t, <1>1, ReadingKeeps
<1>3. \A p : (Asked(p)' => Asked(p)) /\ (Closing(p)' => Closing(p))
  BY <1>2, Zenon DEF Asked, Closing
<1>4. \A c \in Conns, p \in PaneIds : OnSpawn(c) /\ p = Arg(c) => Asked(p) /\ ~Asked(p)'
  BY <1>t, <1>1, BegunOnce
<1>5. \A p \in PaneIds : p \in Taken' => p \in Taken \/ (Asked(p) /\ ~Asked(p)')
  BY <1>1, <1>4
<1>0. \A c \in Conns : OnSpawn(c) => Arg(c) \in PaneIds
  BY <1>t, TakingType DEF OnSpawn, PaneOps
<1>6. SessionInv' /\ Alone' /\ Idle'
  <2>1. SessionInv'
    BY SessionStep DEF NumberInv, SessionNext
  <2> QED BY <1>v, <2>1 DEF NumberInv, Alone, Idle, Living
<1>7. AskedFresh'
  BY <1>3, <1>5, Zenon DEF NumberInv, AskedFresh
<1>8. Below'
  BY <1>v, <1>3, <1>5, Zenon DEF NumberInv, Below
<1>9. ASSUME NEW s \in Owners, phase[s] \in {"listing", "listed"}
      PROVE  /\ spawning' = {} /\ Registered' \subseteq Registered /\ cur[s] \in Conns
             /\ \A p \in PaneIds : ~Asked(p)' /\ ~Closing(p)'
  <2>1. /\ spawning = {} /\ cur[s] \in Conns
        /\ \A p \in PaneIds : ~Asked(p) /\ ~Closing(p)
    BY <1>9, Zenon DEF NumberInv, Quiescent
  <2>2. spawning' \subseteq spawning
    BY <1>0, <1>1, <1>4, <2>1
  <2> QED BY <1>1, <1>3, <2>1, <2>2
<1>10. Quiescent'
  BY <1>v, <1>9, Zenon DEF Quiescent
<1>11. Replies'
  <2> SUFFICES ASSUME NEW s \in Owners, phase[s] = "listing",
                      NEW i \in 1..Len(down'[cur[s]]), down'[cur[s]][i].op = "list_reply"
               PROVE  Registered' \subseteq down'[cur[s]][i].panes
    BY <1>v DEF Replies
  <2>1. /\ cur[s] \in Conns /\ Registered' \subseteq Registered
        /\ \A j \in 1..Len(down[cur[s]]) : down[cur[s]][j].op = "list_reply" =>
             Registered \subseteq down[cur[s]][j].panes
    BY <1>9 DEF NumberInv, Replies
  <2>2. CASE down'[cur[s]] = down[cur[s]]
    BY <2>1, <2>2
  <2>3. ASSUME NEW f, Answers(cur[s], f) PROVE Registered \subseteq down'[cur[s]][i].panes
    <3>1. /\ down'[cur[s]] = Append(down[cur[s]], f) /\ f \in DownFrame
          /\ down[cur[s]] \in Seq(DownFrame) /\ (f.op = "list_reply" => f.panes = Registered)
      BY <1>t, <2>1, <2>3 DEF Answers, TypeOK
    <3>2. \/ i \in 1..Len(down[cur[s]]) /\ down'[cur[s]][i] = down[cur[s]][i]
          \/ down'[cur[s]][i] = f
      BY <3>1
    <3> QED BY <2>1, <3>1, <3>2
  <2> QED BY <1>1, <2>1, <2>2, <2>3
<1>12. Lists'
  BY <1>v, <1>9 DEF NumberInv, Lists
<1> QED BY <1>1, <1>2, <1>6, <1>7, <1>8, <1>10, <1>11, <1>12 DEF NumberInv

-----------------------------------------------------------------------------
(* The servers' steps, as far as pane numbers go.  Most ask for nothing.     *)

LEMMA Solo ==
  ASSUME NumberInv, NEW s \in Owners, phase[s] \in {"listing", "listed", "run", "ending"},
         NEW t \in Owners, t # s
  PROVE  phase[t] \in {"none", "gone"}
BY Zenon DEF NumberInv, Alone, Living

LEMMA SilentAsks ==
  ASSUME NumberInv, UNCHANGED hostSide, up' = up
  PROVE  AskedOnce' /\ \A op, p : Waiting(op, p)' => Waiting(op, p)
<1>1. hpc' = hpc
  BY DEF hostSide, connVars
<1>2. up \in [Conns -> Seq(UpFrame)] /\ AskedOnce
  BY DEF NumberInv, SessionInv, HostInv, FlightInv, RingInv, KeptInv, TypeInv, TypeOK
<1>3. \A d \in Conns : Reads(d)
  BY <1>1 DEF Reads
<1> QED BY <1>2, <1>3, ReadingKeeps

LEMMA WrittenAsks ==
  ASSUME NumberInv, UNCHANGED hostSide, NEW c \in Conns, NEW fs \in Seq(UpFrame),
         up' = [up EXCEPT ![c] = up[c] \o fs],
         \A p \in PaneIds : \A i \in 1..Len(fs) : fs[i] # PaneCtl("spawn", p)
  PROVE  /\ AskedOnce' /\ \A p \in PaneIds : Asked(p)' => Asked(p)
         /\ \A p \in PaneIds : Closing(p)' =>
              Closing(p) \/ \E i \in 1..Len(fs) : fs[i] = PaneCtl("close", p)
<1>1. hpc' = hpc
  BY DEF hostSide, connVars
<1>2. up \in [Conns -> Seq(UpFrame)] /\ AskedOnce
  BY DEF NumberInv, SessionInv, HostInv, FlightInv, RingInv, KeptInv, TypeInv, TypeOK
<1>3. /\ AskedOnce'
      /\ \A op, p : Waiting(op, p)' =>
           Waiting(op, p) \/ \E i \in 1..Len(fs) : fs[i] = PaneCtl(op, p)
  BY <1>1, <1>2, WritingKeeps
<1> QED BY <1>3, Zenon DEF Asked, Closing

\* A step that asks for nothing and starts nobody.
LEMMA CalmNumbers ==
  ASSUME NumberInv, SessionInv', UNCHANGED hostSide, Alone', Idle', AskedOnce',
         \A d \in Conns : popen'[d] = "none" => popen[d] = "none" /\ up'[d] = up[d],
         \A d \in Conns : down'[d] = down[d] \/ down'[d] = <<>>
                         \/ (down[d] # <<>> /\ down'[d] = Tail(down[d])),
         \A p \in PaneIds : Asked(p)' => Asked(p),
         \A t \in Owners : phase'[t] = "run" => phase[t] = "run" /\ seq'[t] = seq[t],
         \A t \in Owners : phase'[t] \in {"listing", "listed"} =>
            /\ phase[t] \in {"listing", "listed"} /\ cur'[t] = cur[t]
            /\ \A p \in PaneIds : Closing(p)' => Closing(p)
            /\ phase'[t] = "listing" => phase[t] = "listing"
            /\ phase'[t] = "listed" => Registered \subseteq listed'[t].panes
  PROVE  NumberInv'
<1>1. UNCHANGED <<hostUp, hpc, spawning, shellOf>>
  BY DEF hostSide, connVars, paneVars
<1>2. Taken' = Taken /\ Registered' = Registered
  BY <1>1 DEF Taken, Registered
<1>3. Down' /\ Unopened'
  BY <1>1 DEF NumberInv, Down, Unopened
<1>4. AskedFresh' /\ Below'
  BY <1>2, Zenon DEF NumberInv, AskedFresh, Below
<1>5. Quiescent'
  BY <1>1, Zenon DEF NumberInv, Quiescent
<1>6. Lists'
  BY <1>2, Zenon DEF Lists
<1>7. Replies'
  <2> SUFFICES ASSUME NEW t \in Owners, phase'[t] = "listing",
                      NEW i \in 1..Len(down'[cur'[t]]), down'[cur'[t]][i].op = "list_reply"
               PROVE  Registered \subseteq down'[cur'[t]][i].panes
    BY <1>2 DEF Replies
  <2>1. phase[t] = "listing" /\ cur'[t] = cur[t] /\ cur[t] \in Conns
    BY DEF NumberInv, Quiescent
  <2>2. /\ down[cur[t]] \in Seq(DownFrame)
        /\ \A j \in 1..Len(down[cur[t]]) : down[cur[t]][j].op = "list_reply" =>
             Registered \subseteq down[cur[t]][j].panes
    BY <2>1 DEF NumberInv, Replies, SessionInv, HostInv, FlightInv, RingInv, KeptInv, TypeInv, TypeOK
  <2>3. CASE down'[cur[t]] = down[cur[t]]
    BY <2>1, <2>2, <2>3
  <2>4. CASE down'[cur[t]] = <<>>
    BY <2>1, <2>4
  <2>5. CASE down[cur[t]] # <<>> /\ down'[cur[t]] = Tail(down[cur[t]])
    <3>1. i + 1 \in 1..Len(down[cur[t]]) /\ down'[cur[t]][i] = down[cur[t]][i + 1]
      BY <2>1, <2>2, <2>5
    <3> QED BY <2>1, <2>2, <3>1
  <2> QED BY <2>1, <2>3, <2>4, <2>5
<1> QED BY <1>3, <1>4, <1>5, <1>6, <1>7 DEF NumberInv

\* Reading frames: what happens to the connection.
LEMMA GotNumbers ==
  ASSUME NumberInv, NEW s \in Owners, NEW op, Got(s, op)
  PROVE  /\ \A d \in Conns : down'[d] = down[d] \/ (down[d] # <<>> /\ down'[d] = Tail(down[d]))
         /\ cur[s] \in Conns /\ Received(s) = down[cur[s]][1] /\ 1 \in 1..Len(down[cur[s]])
         /\ Received(s) \in DownFrame /\ Received(s).op = op
<1>1. down \in [Conns -> Seq(DownFrame)]
  BY DEF NumberInv, SessionInv, HostInv, FlightInv, RingInv, KeptInv, TypeInv, TypeOK
<1>2. /\ Received(s) \in DownFrame /\ Received(s).op = op /\ cur[s] \in Conns
      /\ Received(s) = down[cur[s]][1] /\ 1 \in 1..Len(down[cur[s]])
  BY GotType DEF NumberInv
<1>3. down[cur[s]] # <<>> /\ down' = [down EXCEPT ![cur[s]] = Tail(down[cur[s]])]
  BY DEF Got
<1> QED BY <1>1, <1>2, <1>3

LEMMA GotListNumbers ==
  ASSUME NumberInv, SessionInv', NEW s \in Owners, GotList(s)
  PROVE  NumberInv'
<1>1. /\ Got(s, "list_reply") /\ phase[s] = "listing"
      /\ listed' = [listed EXCEPT ![s] = [panes |-> Received(s).panes, prev |-> Received(s).prev]]
      /\ phase' = [phase EXCEPT ![s] = "listed"]
      /\ UNCHANGED <<hostSide, peerVars, up, alive, cur, cbs, tabs, seq, screen, resume>>
  BY DEF GotList
<1>2. /\ phase \in [Owners -> Phases]
      /\ listed \in [Owners -> [panes : SUBSET PaneIds, prev : {"unknown", "alive", "dead"}]]
  BY DEF NumberInv, SessionInv, ServersOK
<1>3. \A t \in Owners : t # s => phase[t] \in {"none", "gone"} /\ phase'[t] = phase[t]
  BY <1>1, <1>2, Solo
<1>4. phase'[s] = "listed" /\ listed'[s].panes = Received(s).panes
  BY <1>1, <1>2
<1>5. Registered \subseteq listed'[s].panes
  BY <1>1, <1>4, GotNumbers DEF NumberInv, Replies
<1>6. Alone' /\ Idle'
  <2>1. Alone'
    BY <1>3 DEF Alone, Living
  <2>2. Idle'
    BY <1>1, <1>3, <1>4 DEF NumberInv, Idle
  <2> QED BY <2>1, <2>2
<1>7. AskedOnce' /\ \A p \in PaneIds : (Asked(p)' => Asked(p)) /\ (Closing(p)' => Closing(p))
  BY <1>1, SilentAsks, Zenon DEF Asked, Closing
<1>8. popen' = popen
  BY <1>1 DEF peerVars
<1>9. \A d \in Conns : down'[d] = down[d] \/ (down[d] # <<>> /\ down'[d] = Tail(down[d]))
  BY <1>1, GotNumbers
<1>10. /\ \A t \in Owners : phase'[t] = "run" => phase[t] = "run" /\ seq'[t] = seq[t]
       /\ \A t \in Owners : phase'[t] \in {"listing", "listed"} =>
            /\ phase[t] \in {"listing", "listed"} /\ cur'[t] = cur[t]
            /\ \A p \in PaneIds : Closing(p)' => Closing(p)
            /\ phase'[t] = "listing" => phase[t] = "listing"
            /\ phase'[t] = "listed" => Registered \subseteq listed'[t].panes
  BY <1>1, <1>3, <1>4, <1>5, <1>7
<1> QED BY <1>1, <1>6, <1>7, <1>8, <1>9, <1>10, CalmNumbers

\* A step that changes nobody's phase and sends nothing.
LEMMA StillNumbers ==
  ASSUME NumberInv, SessionInv', UNCHANGED <<hostSide, up, popen>>,
         UNCHANGED <<phase, cur, cbs, tabs, seq, listed, resume>>,
         \A d \in Conns : down'[d] = down[d] \/ (down[d] # <<>> /\ down'[d] = Tail(down[d]))
  PROVE  NumberInv'
<1>1. Alone' /\ Idle'
  BY DEF NumberInv, Alone, Idle, Living
<1>2. AskedOnce' /\ \A p \in PaneIds : (Asked(p)' => Asked(p)) /\ (Closing(p)' => Closing(p))
  BY SilentAsks, Zenon DEF Asked, Closing
<1>3. \A t \in Owners : phase[t] = "listed" => Registered \subseteq listed[t].panes
  BY DEF NumberInv, Lists
<1>4. \A t \in Owners : phase'[t] = "run" => phase[t] = "run" /\ seq'[t] = seq[t]
  OBVIOUS
<1>5. \A t \in Owners : phase'[t] \in {"listing", "listed"} =>
            /\ phase[t] \in {"listing", "listed"} /\ cur'[t] = cur[t]
            /\ \A p \in PaneIds : Closing(p)' => Closing(p)
            /\ phase'[t] = "listing" => phase[t] = "listing"
            /\ phase'[t] = "listed" => Registered \subseteq listed'[t].panes
  BY <1>2, <1>3
<1>6. \A d \in Conns : popen'[d] = "none" => popen[d] = "none" /\ up'[d] = up[d]
  OBVIOUS
<1> QED BY <1>1, <1>2, <1>4, <1>5, <1>6, CalmNumbers

\* The end of a server process.
LEMMA ForgetNumbers ==
  ASSUME NumberInv, SessionInv', NEW s \in Owners, Forget(s), UNCHANGED hostSide,
         AskedOnce', \A p \in PaneIds : Asked(p)' => Asked(p),
         \/ \A p \in PaneIds : Closing(p)' => Closing(p)
         \/ phase[s] \in {"listing", "listed", "run", "ending"},
         \A d \in Conns : popen'[d] = "none" => popen[d] = "none" /\ up'[d] = up[d],
         \A d \in Conns : down'[d] = down[d] \/ down'[d] = <<>>
  PROVE  NumberInv'
<1>1. /\ phase \in [Owners -> Phases] /\ cur \in [Owners -> Conns \cup {0}]
      /\ cbs \in [Owners -> SUBSET PaneIds] /\ tabs \in [Owners -> SUBSET Tab]
      /\ listed \in [Owners -> [panes : SUBSET PaneIds, prev : {"unknown", "alive", "dead"}]]
  BY DEF NumberInv, SessionInv, ServersOK
<1>2. /\ phase'[s] = "gone" /\ cur'[s] = 0 /\ cbs'[s] = {} /\ tabs'[s] = {}
      /\ \A t \in Owners : t # s =>
           /\ phase'[t] = phase[t] /\ cur'[t] = cur[t] /\ cbs'[t] = cbs[t]
           /\ tabs'[t] = tabs[t] /\ listed'[t] = listed[t]
      /\ UNCHANGED <<seq, resume>>
  BY <1>1 DEF Forget
<1>3. Alone'
  BY <1>2 DEF NumberInv, Alone, Living
<1>4. Idle'
  BY <1>2 DEF NumberInv, Idle
<1>5. \A t \in Owners : phase[t] = "listed" => Registered \subseteq listed[t].panes
  BY DEF NumberInv, Lists
<1>6. \A t \in Owners : phase'[t] = "run" => phase[t] = "run" /\ seq'[t] = seq[t]
  BY <1>2
<1>7. \A t \in Owners : phase'[t] \in {"listing", "listed"} =>
            /\ phase[t] \in {"listing", "listed"} /\ cur'[t] = cur[t]
            /\ \A p \in PaneIds : Closing(p)' => Closing(p)
            /\ phase'[t] = "listing" => phase[t] = "listing"
            /\ phase'[t] = "listed" => Registered \subseteq listed'[t].panes
  <2> SUFFICES ASSUME NEW t \in Owners, phase'[t] \in {"listing", "listed"}
               PROVE  /\ phase[t] \in {"listing", "listed"} /\ cur'[t] = cur[t]
                      /\ \A p \in PaneIds : Closing(p)' => Closing(p)
                      /\ phase'[t] = "listing" => phase[t] = "listing"
                      /\ phase'[t] = "listed" => Registered \subseteq listed'[t].panes
    OBVIOUS
  <2>1. t # s /\ phase[t] = phase'[t] /\ cur'[t] = cur[t] /\ listed'[t] = listed[t]
    BY <1>2
  <2>2. phase[s] \notin {"listing", "listed", "run", "ending"}
    BY <2>1, Solo
  <2> QED BY <1>5, <2>1, <2>2
<1> QED BY <1>3, <1>4, <1>6, <1>7, CalmNumbers

LEMMA NumberTypes ==
  ASSUME NumberInv
  PROVE  /\ TypeOK /\ HostInv /\ SpawnsReserved
         /\ up \in [Conns -> Seq(UpFrame)] /\ down \in [Conns -> Seq(DownFrame)]
         /\ popen \in [Conns -> {"none", "open", "half", "closed"}]
         /\ phase \in [Owners -> Phases] /\ cur \in [Owners -> Conns \cup {0}]
         /\ cbs \in [Owners -> SUBSET PaneIds] /\ seq \in [Owners -> PaneIds \cup {0}]
         /\ tabs \in [Owners -> SUBSET Tab]
         /\ listed \in [Owners -> [panes : SUBSET PaneIds, prev : {"unknown", "alive", "dead"}]]
         /\ resume \in [Owners -> [tabs : SUBSET Tab, screen : Screens]]
BY DEF NumberInv, SessionInv, ServersOK, HostInv, FlightInv, RingInv, KeptInv, TypeInv, TypeOK

LEMMA SendIs ==
  ASSUME NumberInv, NEW s \in Owners, NEW fs, Send(s, fs)
  PROVE  \/ up' = up
         \/ /\ cur[s] \in Conns /\ popen[cur[s]] # "none" /\ ~hclosed[cur[s]]
            /\ up' = [up EXCEPT ![cur[s]] = up[cur[s]] \o fs]
BY NumberTypes DEF Send

\* A pane that goes: what is written closes it and asks for nothing.
LEMMA DropNumbers ==
  ASSUME NumberInv, SessionInv', NEW s \in Owners, NEW p \in PaneIds, DropPane(s, p),
         phase[s] \in {"run", "leaving", "ending"},
         UNCHANGED <<hostSide, peerVars, alive, cur, seq, listed, resume>>,
         \A d \in Conns : down'[d] = down[d] \/ (down[d] # <<>> /\ down'[d] = Tail(down[d]))
  PROVE  NumberInv'
<1>1. /\ cbs' = [cbs EXCEPT ![s] = cbs[s] \ {p}]
      /\ tabs' = [tabs EXCEPT ![s] = Without(tabs[s], p)]
      /\ phase' = phase \/ (phase[s] = "run" /\ phase' = [phase EXCEPT ![s] = "ending"])
      /\ Send(s, <<PaneCtl("close", p)>>) \/ UNCHANGED up
  BY DEF DropPane
<1>2. /\ phase'[s] \in {phase[s], "ending"} /\ (phase'[s] = "ending" => phase[s] \in {"run", "ending"})
      /\ \A t \in Owners : t # s => phase'[t] = phase[t] /\ cbs'[t] = cbs[t] /\ tabs'[t] = tabs[t]
  BY <1>1, NumberTypes
<1>3. AskedOnce' /\ \A q \in PaneIds : Asked(q)' => Asked(q)
  <2>1. CASE up' = up
    BY <2>1, SilentAsks, Zenon DEF Asked
  <2>2. CASE up' # up
    <3> DEFINE c == cur[s]
               fs == <<PaneCtl("close", p)>>
    <3>1. c \in Conns /\ up' = [up EXCEPT ![c] = up[c] \o fs]
      BY <1>1, <2>2, SendIs
    <3>2. fs \in Seq(UpFrame)
      <4>1. PaneCtl("close", p) \in UpFrame
        BY FramesOfServers DEF PaneOps
      <4> QED BY <4>1
    <3>3. \A q \in PaneIds : \A i \in 1..Len(fs) : fs[i] # PaneCtl("spawn", q)
      BY DEF PaneCtl
    <3> HIDE DEF c, fs
    <3> QED BY <3>1, <3>2, <3>3, WrittenAsks
  <2> QED BY <2>1, <2>2
<1>4. \A d \in Conns : popen'[d] = "none" => popen[d] = "none" /\ up'[d] = up[d]
  BY <1>1, SendIs, NumberTypes DEF peerVars
<1>5. \A t \in Owners : phase[t] \notin {"listing", "listed"}
  BY Solo
<1>6. Alone'
  BY <1>2 DEF NumberInv, Alone, Living
<1>7. Idle'
  BY <1>2 DEF NumberInv, Idle
<1>8. \A t \in Owners : phase'[t] = "run" => phase[t] = "run" /\ seq'[t] = seq[t]
  BY <1>2
<1>9. \A t \in Owners : phase'[t] \in {"listing", "listed"} =>
            /\ phase[t] \in {"listing", "listed"} /\ cur'[t] = cur[t]
            /\ \A q \in PaneIds : Closing(q)' => Closing(q)
            /\ phase'[t] = "listing" => phase[t] = "listing"
            /\ phase'[t] = "listed" => Registered \subseteq listed'[t].panes
  BY <1>2, <1>5
<1> QED BY <1>3, <1>4, <1>6, <1>7, <1>8, <1>9, CalmNumbers

\* Someone new: only the first asks anything, and it asks for the list.
LEMMA OpenIs ==
  ASSUME NumberInv, NEW s \in Owners, NEW c \in Conns, NEW fs \in Seq(UpFrame), Open(s, c, fs)
  PROVE  /\ up' = [up EXCEPT ![c] = up[c] \o fs] /\ down[c] = <<>> /\ hostUp
         /\ \A d \in Conns : popen'[d] = "none" => popen[d] = "none" /\ up'[d] = up[d]
<1>1. popen[c] = "none" /\ up[c] = <<>> /\ down[c] = <<>> /\ hostUp /\ up' = [up EXCEPT ![c] = fs]
      /\ popen' = [popen EXCEPT ![c] = "open"]
  BY DEF Open, FreshConn, NumberInv, Unopened
<1>2. up[c] \o fs = fs
  BY <1>1
<1> QED BY <1>1, <1>2, NumberTypes

\* The frames that servers send when they connect.
LEMMA GreetingAsks ==
  ASSUME NEW s \in Owners, NEW fs \in {<<OwnerCtl(s), Ctl("list")>>, <<OwnerCtl(s)>>,
                                     <<Ctl("probe"), Ctl("shutdown")>>}
  PROVE  /\ fs \in Seq(UpFrame)
         /\ \A p \in PaneIds : \A i \in 1..Len(fs) : fs[i] # PaneCtl("spawn", p)
         /\ \A p \in PaneIds : \A i \in 1..Len(fs) : fs[i] # PaneCtl("close", p)
<1>1. OwnerCtl(s) \in UpFrame /\ Ctl("list") \in UpFrame /\ Ctl("probe") \in UpFrame
      /\ Ctl("shutdown") \in UpFrame
  BY FramesOfServers DEF CtlOps
<1>2. \A p \in PaneIds, op \in {"spawn", "close"} :
        /\ OwnerCtl(s) # PaneCtl(op, p) /\ Ctl("list") # PaneCtl(op, p)
        /\ Ctl("probe") # PaneCtl(op, p) /\ Ctl("shutdown") # PaneCtl(op, p)
  BY DEF OwnerCtl, Ctl, PaneCtl
<1>3. CASE fs = <<OwnerCtl(s), Ctl("list")>>
  BY <1>1, <1>2, <1>3
<1>4. CASE fs = <<OwnerCtl(s)>>
  BY <1>1, <1>2, <1>4
<1>5. CASE fs = <<Ctl("probe"), Ctl("shutdown")>>
  BY <1>1, <1>2, <1>5
<1> QED BY <1>3, <1>4, <1>5

\* A server connects when the daemon has caught up: nothing waits, nothing is made.
LEMMA ConnectNumbers ==
  ASSUME Prompt, NumberInv, SessionInv', NEW s \in Owners, NEW c \in Conns, Connect(s, c)
  PROVE  NumberInv'
<1> DEFINE fs == <<OwnerCtl(s), Ctl("list")>>
<1>1. /\ phase[s] = "boot" /\ HostCaughtUp /\ \A t \in Owners : phase[t] # "leaving"
      /\ Open(s, c, fs)
      /\ phase' = [phase EXCEPT ![s] = "listing"] /\ cur' = [cur EXCEPT ![s] = c]
      /\ UNCHANGED <<hostSide, down, alive, cbs, tabs, seq, listed, screen, resume>>
  BY DEF Connect
<1>2. UNCHANGED <<hostUp, hpc, spawning, shellOf>>
  BY <1>1 DEF hostSide, connVars, paneVars
<1>3. fs \in Seq(UpFrame)
      /\ \A p \in PaneIds : \A i \in 1..Len(fs) : fs[i] # PaneCtl("spawn", p) /\ fs[i] # PaneCtl("close", p)
  BY GreetingAsks
<1> HIDE DEF fs
<1>4. /\ up' = [up EXCEPT ![c] = up[c] \o fs] /\ down[c] = <<>> /\ hostUp
      /\ \A d \in Conns : popen'[d] = "none" => popen[d] = "none" /\ up'[d] = up[d]
  BY <1>1, <1>3, OpenIs
<1>5. \A d \in Conns : hpc[d] = "closed" \/ (hpc[d] # "spawning" /\ up[d] = <<>>)
  BY <1>1 DEF HostCaughtUp, Prompt, NumberInv, Unopened
<1>6. \A p \in PaneIds : ~Asked(p) /\ ~Closing(p)
  BY <1>5 DEF Asked, Closing, Waiting, Waits
<1>7. AskedOnce' /\ \A p \in PaneIds : ~Asked(p)' /\ ~Closing(p)'
  BY <1>1, <1>3, <1>4, <1>6, WrittenAsks
<1>8. spawning = {}
  BY <1>4, <1>5, NumberTypes DEF SpawnsReserved
<1>9. /\ phase'[s] = "listing" /\ cur'[s] = c
      /\ \A t \in Owners : t # s => phase'[t] = phase[t] /\ phase[t] \in {"none", "gone"}
                                   /\ cur'[t] = cur[t]
  BY <1>1, NumberTypes, Zenon DEF NumberInv, Alone, Living
<1>10. Alone' /\ Idle'
  <2>1. Alone'
    BY <1>9 DEF Alone, Living
  <2>2. Idle'
    BY <1>1, <1>9 DEF NumberInv, Idle
  <2> QED BY <2>1, <2>2
<1>11. Down' /\ Unopened'
  BY <1>1, <1>2, <1>4 DEF NumberInv, Down, Unopened
<1>12. AskedFresh' /\ Below' /\ Lists'
  BY <1>7, <1>9 DEF AskedFresh, Below, Lists
<1>13. Quiescent'
  BY <1>2, <1>7, <1>8, <1>9 DEF Quiescent
<1>14. Replies'
  BY <1>1, <1>4, <1>9 DEF Replies
<1> QED BY <1>7, <1>10, <1>11, <1>12, <1>13, <1>14 DEF NumberInv

LEMMA ReconnectNumbers ==
  ASSUME NumberInv, SessionInv', NEW s \in Owners, NEW c \in Conns, Reconnect(s, c)
  PROVE  NumberInv'
<1> DEFINE fs == <<OwnerCtl(s)>>
<1>1. /\ phase[s] \in {"run", "leaving"} /\ Open(s, c, fs) /\ cur' = [cur EXCEPT ![s] = c]
      /\ UNCHANGED <<hostSide, down, alive, phase, cbs, tabs, seq, listed, screen, resume>>
  BY DEF Reconnect
<1>2. fs \in Seq(UpFrame) /\ \A p \in PaneIds : \A i \in 1..Len(fs) : fs[i] # PaneCtl("spawn", p)
  BY GreetingAsks
<1> HIDE DEF fs
<1>3. /\ up' = [up EXCEPT ![c] = up[c] \o fs]
      /\ \A d \in Conns : popen'[d] = "none" => popen[d] = "none" /\ up'[d] = up[d]
  BY <1>1, <1>2, OpenIs
<1>4. AskedOnce' /\ \A p \in PaneIds : Asked(p)' => Asked(p)
  BY <1>1, <1>2, <1>3, WrittenAsks
<1>5. \A t \in Owners : phase[t] \notin {"listing", "listed"}
  BY <1>1, Solo
<1>6. Alone' /\ Idle'
  <2>1. \A t \in Owners : t # s => cur'[t] = cur[t]
    BY <1>1, NumberTypes
  <2> QED BY <1>1, <2>1 DEF NumberInv, Alone, Idle, Living
<1>7. \A t \in Owners : phase'[t] = "run" => phase[t] = "run" /\ seq'[t] = seq[t]
  BY <1>1
<1>8. \A t \in Owners : phase'[t] \in {"listing", "listed"} =>
            /\ phase[t] \in {"listing", "listed"} /\ cur'[t] = cur[t]
            /\ \A q \in PaneIds : Closing(q)' => Closing(q)
            /\ phase'[t] = "listing" => phase[t] = "listing"
            /\ phase'[t] = "listed" => Registered \subseteq listed'[t].panes
  BY <1>1, <1>5
<1> QED BY <1>1, <1>3, <1>4, <1>6, <1>7, <1>8, CalmNumbers

\* Steps of a server that only change how far it is, or lose the connection.
LEMMA PhaseNumbers ==
  ASSUME NumberInv, SessionInv', NEW s \in Owners,
         OnHostLost(s) \/ Launch(s) \/ \E t \in Owners : Restart(s, t)
  PROVE  NumberInv'
<1>1. UNCHANGED <<hostSide, up, down, popen>> /\ UNCHANGED <<seq, listed, tabs>>
  BY DEF OnHostLost, Launch, Restart, hostVars, hostSide, peerVars
<1>2. AskedOnce' /\ \A p \in PaneIds : (Asked(p)' => Asked(p)) /\ (Closing(p)' => Closing(p))
  BY <1>1, SilentAsks, Zenon DEF Asked, Closing
<1>3. Alone' /\ Idle' /\ (\A t \in Owners : phase'[t] = "run" => phase[t] = "run")
      /\ \A t \in Owners : phase'[t] \in {"listing", "listed"} => phase'[t] = phase[t] /\ cur'[t] = cur[t]
  <2>1. CASE OnHostLost(s)
    <3>1. /\ phase[s] \in {"run", "leaving"} /\ UNCHANGED <<phase, resume>>
          /\ \A t \in Owners : t # s => cur'[t] = cur[t] /\ cbs'[t] = cbs[t]
      BY <2>1, NumberTypes DEF OnHostLost
    <3> QED BY <1>1, <3>1 DEF NumberInv, Alone, Idle, Living
  <2>2. CASE Launch(s)
    <3>1. /\ phase[s] = "none" /\ phase'[s] = "boot" /\ UNCHANGED <<cur, cbs, resume>>
          /\ \A t \in Owners : phase[t] \in {"none", "gone"} /\ (t # s => phase'[t] = phase[t])
      BY <2>2, NumberTypes DEF Launch
    <3>2. Alone'
      BY <3>1 DEF Alone, Living
    <3>3. Idle'
      BY <1>1, <3>1 DEF NumberInv, Idle
    <3> QED BY <3>1, <3>2, <3>3
  <2>3. ASSUME NEW t \in Owners, Restart(s, t)
        PROVE  /\ Alone' /\ Idle' /\ (\A u \in Owners : phase'[u] = "run" => phase[u] = "run")
               /\ \A u \in Owners : phase'[u] \in {"listing", "listed"} =>
                    phase'[u] = phase[u] /\ cur'[u] = cur[u]
    <3>1. /\ phase[s] = "run" /\ phase[t] = "none" /\ s # t
          /\ phase'[s] = "leaving" /\ phase'[t] = "boot"
          /\ UNCHANGED <<cur, cbs>>
          /\ \A u \in Owners : u # t => resume'[u] = resume[u] /\ (u # s => phase'[u] = phase[u])
      BY <2>3, NumberTypes DEF Restart
    <3>2. \A u \in Owners : u # s => phase[u] \in {"none", "gone"}
      BY <3>1, Solo
    <3>3. Alone'
      BY <3>1, <3>2 DEF Alone, Living
    <3>4. Idle'
      BY <1>1, <3>1, <3>2 DEF NumberInv, Idle
    <3> QED BY <3>1, <3>3, <3>4
  <2> QED BY <2>1, <2>2, <2>3
<1>4. \A t \in Owners : phase'[t] = "run" => phase[t] = "run" /\ seq'[t] = seq[t]
  BY <1>1, <1>3
<1>5. \A t \in Owners : phase'[t] \in {"listing", "listed"} =>
            /\ phase[t] \in {"listing", "listed"} /\ cur'[t] = cur[t]
            /\ \A q \in PaneIds : Closing(q)' => Closing(q)
            /\ phase'[t] = "listing" => phase[t] = "listing"
            /\ phase'[t] = "listed" => Registered \subseteq listed'[t].panes
  BY <1>1, <1>2, <1>3 DEF NumberInv, Lists
<1>6. \A d \in Conns : popen'[d] = "none" => popen[d] = "none" /\ up'[d] = up[d]
  BY <1>1
<1>7. \A d \in Conns : down'[d] = down[d]
  BY <1>1
<1> QED BY <1>1, <1>2, <1>3, <1>4, <1>5, <1>6, <1>7, CalmNumbers

LEMMA AskingWrites ==
  ASSUME NumberInv, UNCHANGED hostSide, NEW c \in Conns, NEW fs \in Seq(UpFrame),
         up' = [up EXCEPT ![c] = up[c] \o fs],
         \A p \in PaneIds : \A i, j \in 1..Len(fs) :
           fs[i] = PaneCtl("spawn", p) /\ fs[j] = PaneCtl("spawn", p) => i = j /\ ~Asked(p)
  PROVE  /\ AskedOnce'
         /\ \A p : Asked(p)' => Asked(p) \/ \E i \in 1..Len(fs) : fs[i] = PaneCtl("spawn", p)
<1>1. hpc' = hpc
  BY DEF hostSide, connVars
<1>2. AskedOnce /\ up \in [Conns -> Seq(UpFrame)]
  BY NumberTypes DEF NumberInv
<1>3. /\ AskedOnce'
      /\ \A op, p : Waiting(op, p)' =>
           Waiting(op, p) \/ \E i \in 1..Len(fs) : fs[i] = PaneCtl(op, p)
  BY <1>1, <1>2, WritingKeeps
<1> QED BY <1>3, Zenon DEF Asked

\* A server that asks for panes runs alone, and asks for new numbers only.
LEMMA AskingNumbers ==
  ASSUME NumberInv, SessionInv', UNCHANGED <<hostSide, popen, down>>, Alone', Idle',
         NEW s \in Owners, phase'[s] = "run",
         \A t \in Owners : t # s => phase'[t] \in {"none", "gone"},
         up' = up \/ (cur[s] \in Conns /\ popen[cur[s]] # "none"
                      /\ \E fs \in Seq(UpFrame) :
                           /\ up' = [up EXCEPT ![cur[s]] = up[cur[s]] \o fs]
                           /\ \A p \in PaneIds : \A i, j \in 1..Len(fs) :
                                fs[i] = PaneCtl("spawn", p) /\ fs[j] = PaneCtl("spawn", p) =>
                                  i = j /\ ~Asked(p) /\ p \notin Taken /\ p <= seq'[s]),
         \A p \in PaneIds : p \in Taken \/ Asked(p) => p <= seq'[s]
  PROVE  NumberInv'
<1>1. UNCHANGED <<hostUp, hpc, spawning, shellOf>>
  BY DEF hostSide, connVars, paneVars
<1>2. Taken' = Taken /\ Registered' = Registered
  BY <1>1 DEF Taken, Registered
<1>3. AskedOnce' /\ \A p \in PaneIds : Asked(p)' => Asked(p) \/ (p \notin Taken /\ p <= seq'[s])
  <2>1. CASE up' = up
    BY <2>1, SilentAsks, Zenon DEF Asked
  <2>2. CASE up' # up
    <3> DEFINE c == cur[s]
    <3>1. PICK fs \in Seq(UpFrame) :
            /\ c \in Conns /\ up' = [up EXCEPT ![c] = up[c] \o fs]
            /\ \A p \in PaneIds : \A i, j \in 1..Len(fs) :
                 fs[i] = PaneCtl("spawn", p) /\ fs[j] = PaneCtl("spawn", p) =>
                   i = j /\ ~Asked(p) /\ p \notin Taken /\ p <= seq'[s]
      BY <2>2
    <3>2. \A p \in PaneIds : \A i, j \in 1..Len(fs) :
            fs[i] = PaneCtl("spawn", p) /\ fs[j] = PaneCtl("spawn", p) => i = j /\ ~Asked(p)
      BY <3>1
    <3>3. c \in Conns /\ up' = [up EXCEPT ![c] = up[c] \o fs]
      BY <3>1
    <3> HIDE DEF c
    <3>4. /\ AskedOnce'
          /\ \A p : Asked(p)' => Asked(p) \/ \E i \in 1..Len(fs) : fs[i] = PaneCtl("spawn", p)
      BY <3>2, <3>3, AskingWrites, ZenonT(60)
    <3> QED BY <3>1, <3>4, Zenon
  <2> QED BY <2>1, <2>2
<1>4. Down' /\ Unopened'
  <2>1. \A d \in Conns : popen[d] = "none" => up'[d] = up[d]
    BY NumberTypes
  <2> QED BY <1>1, <2>1 DEF NumberInv, Down, Unopened
<1>5. AskedFresh'
  BY <1>2, <1>3, Zenon DEF NumberInv, AskedFresh
<1>6. Below'
  BY <1>2, <1>3 DEF Below
<1>7. Quiescent' /\ Replies' /\ Lists'
  BY DEF Quiescent, Replies, Lists
<1> QED BY <1>3, <1>4, <1>5, <1>6, <1>7 DEF NumberInv

LEMMA SpawnNumbers ==
  ASSUME NumberInv, SessionInv', NEW s \in Owners, NEW ts, SpawnPane(s, ts)
  PROVE  NumberInv'
<1> DEFINE p == NextPaneId(s)
           fs == <<PaneCtl("spawn", p)>>
<1>1. /\ phase[s] = "run" /\ p \in PaneIds /\ p = seq[s] + 1
      /\ seq' = [seq EXCEPT ![s] = p] /\ cbs' = [cbs EXCEPT ![s] = cbs[s] \cup {p}]
      /\ tabs' = [tabs EXCEPT ![s] = ts] /\ Send(s, fs)
      /\ UNCHANGED <<hostSide, peerVars, down, alive, phase, cur, listed, screen, resume>>
  BY DEF SpawnPane, NextPaneId
<1>2. \A t \in Owners : t # s => phase[t] \in {"none", "gone"}
  BY <1>1, Solo
<1>3. fs \in Seq(UpFrame) /\ Len(fs) = 1 /\ fs[1] = PaneCtl("spawn", p)
  <2>1. PaneCtl("spawn", p) \in UpFrame
    BY <1>1, FramesOfServers DEF PaneOps
  <2> QED BY <2>1
<1> HIDE DEF p, fs
<1>4. Alone' /\ Idle'
  <2>1. \A t \in Owners : t # s => cbs'[t] = cbs[t] /\ tabs'[t] = tabs[t]
    BY <1>1, NumberTypes
  <2> QED BY <1>1, <2>1 DEF NumberInv, Alone, Idle, Living
<1>5. seq'[s] = p /\ seq[s] \in Nat /\ p \in Nat
  BY <1>1, NumberTypes DEF PaneIds
<1>6. \A q \in PaneIds : q \in Taken \/ Asked(q) => q <= seq[s]
  BY <1>1 DEF NumberInv, Below
<1>7. ~Asked(p) /\ p \notin Taken /\ p <= seq'[s]
  BY <1>1, <1>5, <1>6
<1>8. \A q \in PaneIds : q \in Taken \/ Asked(q) => q <= seq'[s]
  BY <1>1, <1>5, <1>6 DEF PaneIds
<1>9. \A q \in PaneIds : \A i, j \in 1..Len(fs) :
         fs[i] = PaneCtl("spawn", q) /\ fs[j] = PaneCtl("spawn", q) =>
           i = j /\ ~Asked(q) /\ q \notin Taken /\ q <= seq'[s]
  <2>1. \A q \in PaneIds : PaneCtl("spawn", p) = PaneCtl("spawn", q) => q = p
    BY DEF PaneCtl
  <2> QED BY <1>3, <1>7, <2>1
<1>10. \/ up' = up
       \/ cur[s] \in Conns /\ popen[cur[s]] # "none" /\ up' = [up EXCEPT ![cur[s]] = up[cur[s]] \o fs]
  BY <1>1, SendIs
<1>11. up' = up \/ (cur[s] \in Conns /\ popen[cur[s]] # "none"
                      /\ \E gs \in Seq(UpFrame) :
                           /\ up' = [up EXCEPT ![cur[s]] = up[cur[s]] \o gs]
                           /\ \A q \in PaneIds : \A i, j \in 1..Len(gs) :
                                gs[i] = PaneCtl("spawn", q) /\ gs[j] = PaneCtl("spawn", q) =>
                                  i = j /\ ~Asked(q) /\ q \notin Taken /\ q <= seq'[s])
  BY <1>3, <1>9, <1>10, Zenon
<1>12. UNCHANGED <<hostSide, popen, down>> /\ phase'[s] = "run"
       /\ \A t \in Owners : t # s => phase'[t] \in {"none", "gone"}
  BY <1>1, <1>2 DEF peerVars
<1> QED BY <1>4, <1>8, <1>11, <1>12, AskingNumbers

\* Three lists of frames in a row.
InRow(a, b, c) == a \o b \o c
LEMMA ThreeIn ==
  ASSUME NEW a \in Seq(UpFrame), NEW b \in Seq(UpFrame), NEW c \in Seq(UpFrame)
  PROVE  /\ InRow(a, b, c) \in Seq(UpFrame)
         /\ \A i \in 1..Len(InRow(a, b, c)) :
              \/ \E j \in 1..Len(a) : InRow(a, b, c)[i] = a[j]
              \/ \E j \in 1..Len(b) : InRow(a, b, c)[i] = b[j] /\ i = Len(a) + j
              \/ \E j \in 1..Len(c) : InRow(a, b, c)[i] = c[j]
<1> DEFINE fs == InRow(a, b, c)
<1>1. a \o b \in Seq(UpFrame) /\ Len(a \o b) = Len(a) + Len(b)
      /\ \A i \in 1..(Len(a) + Len(b)) :
           (a \o b)[i] = IF i <= Len(a) THEN a[i] ELSE b[i - Len(a)]
  BY ConcatProperties
<1>2. fs \in Seq(UpFrame) /\ Len(fs) = Len(a \o b) + Len(c)
      /\ \A i \in 1..(Len(a \o b) + Len(c)) :
           fs[i] = IF i <= Len(a \o b) THEN (a \o b)[i] ELSE c[i - Len(a \o b)]
  BY <1>1, ConcatProperties DEF InRow
<1> HIDE DEF fs
<1>3. Len(a) \in Nat /\ Len(b) \in Nat /\ Len(c) \in Nat
  OBVIOUS
<1> SUFFICES ASSUME NEW i \in 1..Len(fs)
             PROVE  \/ \E j \in 1..Len(a) : fs[i] = a[j]
                    \/ \E j \in 1..Len(b) : fs[i] = b[j] /\ i = Len(a) + j
                    \/ \E j \in 1..Len(c) : fs[i] = c[j]
  BY <1>2 DEF fs
<1>4. CASE i <= Len(a)
  <2>1. i \in 1..Len(a) /\ fs[i] = a[i]
    BY <1>1, <1>2, <1>3, <1>4
  <2> QED BY <2>1
<1>5. CASE i > Len(a) /\ i <= Len(a) + Len(b)
  <2>1. i - Len(a) \in 1..Len(b) /\ fs[i] = b[i - Len(a)] /\ i = Len(a) + (i - Len(a))
    BY <1>1, <1>2, <1>3, <1>5
  <2> QED BY <2>1
<1>6. CASE i > Len(a) + Len(b)
  <2>1. i - (Len(a) + Len(b)) \in 1..Len(c) /\ fs[i] = c[i - (Len(a) + Len(b))]
    BY <1>1, <1>2, <1>3, <1>6
  <2> QED BY <2>1
<1> QED BY <1>3, <1>4, <1>5, <1>6

\* A restored server asks at most for the pane of its default session, numbered past
\* all that the daemon has.
LEMMA RestoreNumbers ==
  ASSUME NumberInv, SessionInv', NEW s \in Owners, Restore(s)
  PROVE  NumberInv'
<1> DEFINE back  == Restorable(s)
           top   == SeqAdopted(s)
           fresh == IF back = {} THEN {top + 1} ELSE {}
           shown == PanesOf(back) \cup fresh
<1>1. /\ phase[s] = "listed" /\ fresh \subseteq PaneIds
      /\ tabs' = [tabs EXCEPT ![s] = back \cup {<<p>> : p \in fresh}]
      /\ cbs' = [cbs EXCEPT ![s] = shown]
      /\ seq' = [seq EXCEPT ![s] = top + Cardinality(fresh)]
      /\ \E half \in Frames("close", HalfBuilt(s)), new \in Frames("spawn", fresh),
            stale \in Frames("close", Pruned(s, shown)) : Send(s, half \o new \o stale)
      /\ resume' = [resume EXCEPT ![s] = NoFile]
      /\ listed' = [listed EXCEPT ![s] = NoList]
      /\ phase' = [phase EXCEPT ![s] = "run"]
      /\ UNCHANGED <<hostSide, peerVars, down, alive, cur>>
  BY DEF Restore
<1>2. \A t \in Owners : t # s => phase[t] \in {"none", "gone"}
  BY <1>1, Solo
<1>3. /\ phase'[s] = "run" /\ resume'[s] = NoFile /\ seq'[s] = top + Cardinality(fresh)
      /\ \A t \in Owners : t # s => /\ phase'[t] = phase[t] /\ resume'[t] = resume[t]
                                  /\ cbs'[t] = cbs[t] /\ tabs'[t] = tabs[t]
  BY <1>1, NumberTypes
<1>4. Alone' /\ Idle'
  <2>1. Alone'
    BY <1>2, <1>3 DEF Alone, Living
  <2>2. Idle'
    BY <1>1, <1>2, <1>3 DEF NumberInv, Idle, NoFile
  <2> QED BY <2>1, <2>2
<1>5. /\ spawning = {} /\ Registered \subseteq listed[s].panes /\ listed[s].panes \subseteq PaneIds
      /\ \A p \in PaneIds : ~Asked(p)
  BY <1>1, NumberTypes DEF NumberInv, Quiescent, Lists
<1>6. top \in Nat /\ \A p \in Taken : p <= top
  <2>1. top \in PaneIds \cup {0} /\ \A p \in listed[s].panes : p <= top
    BY <1>5, HighestIs DEF SeqAdopted
  <2> QED BY <1>5, <2>1 DEF Taken, PaneIds
<1>7. \/ fresh = {top + 1} /\ Cardinality(fresh) = 1
      \/ fresh = {} /\ Cardinality(fresh) = 0
  BY FS_Singleton, FS_EmptySet
<1>8. HalfBuilt(s) \subseteq PaneIds /\ Pruned(s, shown) \subseteq PaneIds
  <2>1. \A t \in resume[s].tabs : \A i \in 1..Len(t) : t[i] \in PaneIds
    BY NumberTypes DEF Tab
  <2>2. HalfBuilt(s) \subseteq PaneIds
    BY <2>1 DEF HalfBuilt
  <2>3. Pruned(s, shown) \subseteq listed[s].panes
    BY DEF Pruned
  <2> QED BY <1>5, <2>2, <2>3
<1> HIDE DEF back, top, fresh, shown
<1>9. \A p \in PaneIds : p \in Taken \/ Asked(p) => p <= seq'[s]
  BY <1>3, <1>5, <1>6, <1>7 DEF PaneIds
<1>10. \A p \in fresh : ~Asked(p) /\ p \notin Taken /\ p <= seq'[s]
  BY <1>1, <1>3, <1>5, <1>6, <1>7
<1>11. PICK half \in Frames("close", HalfBuilt(s)), new \in Frames("spawn", fresh),
            stale \in Frames("close", Pruned(s, shown)) : Send(s, half \o new \o stale)
  BY <1>1
<1> DEFINE fs == InRow(half, new, stale)
<1>12. /\ half \in Seq(UpFrame) /\ new \in Seq(UpFrame) /\ stale \in Seq(UpFrame)
       /\ \A i \in 1..Len(half) : \E p \in HalfBuilt(s) : half[i] = PaneCtl("close", p)
       /\ \A i \in 1..Len(new) : \E p \in fresh : new[i] = PaneCtl("spawn", p)
       /\ \A i \in 1..Len(stale) : \E p \in Pruned(s, shown) : stale[i] = PaneCtl("close", p)
       /\ Len(new) <= 1
  <2>1. new \in [1..Cardinality(fresh) -> {PaneCtl("spawn", p) : p \in fresh}]
    BY <1>11 DEF Frames
  <2>2. new \in Seq(UpFrame) /\ \A i \in 1..Len(new) : \E p \in fresh : new[i] = PaneCtl("spawn", p)
    BY <1>1, <1>11, FramesType DEF PaneOps
  <2>3. Len(new) = Cardinality(fresh)
    BY <1>7, <2>1, <2>2
  <2>4. half \in Seq(UpFrame) /\ stale \in Seq(UpFrame)
       /\ (\A i \in 1..Len(half) : \E p \in HalfBuilt(s) : half[i] = PaneCtl("close", p))
       /\ \A i \in 1..Len(stale) : \E p \in Pruned(s, shown) : stale[i] = PaneCtl("close", p)
    BY <1>8, <1>11, FramesType DEF PaneOps
  <2> QED BY <1>7, <2>2, <2>3, <2>4
<1>13. /\ fs \in Seq(UpFrame)
       /\ \A i \in 1..Len(fs) :
            \/ \E p : fs[i] = PaneCtl("close", p)
            \/ i = Len(half) + 1 /\ \E p \in fresh : fs[i] = PaneCtl("spawn", p)
  <2>1. half \in Seq(UpFrame) /\ new \in Seq(UpFrame) /\ stale \in Seq(UpFrame)
    BY <1>12
  <2>2. /\ fs \in Seq(UpFrame)
        /\ \A i \in 1..Len(fs) :
             \/ \E j \in 1..Len(half) : fs[i] = half[j]
             \/ \E j \in 1..Len(new) : fs[i] = new[j] /\ i = Len(half) + j
             \/ \E j \in 1..Len(stale) : fs[i] = stale[j]
    BY <2>1, ThreeIn, ZenonT(60)
  <2> HIDE DEF fs
  <2> SUFFICES ASSUME NEW i \in 1..Len(fs)
      PROVE  \/ \E p : fs[i] = PaneCtl("close", p)
             \/ i = Len(half) + 1 /\ \E p \in fresh : fs[i] = PaneCtl("spawn", p)
    BY <2>2
  <2>3. CASE \E j \in 1..Len(half) : fs[i] = half[j]
    BY <1>12, <2>3, Zenon
  <2>4. CASE \E j \in 1..Len(new) : fs[i] = new[j] /\ i = Len(half) + j
    <3>1. PICK j \in 1..Len(new) : fs[i] = new[j] /\ i = Len(half) + j
      BY <2>4
    <3>2. j = 1
      BY <1>12, <2>1, <3>1
    <3> QED BY <1>12, <3>1, <3>2
  <2>5. CASE \E j \in 1..Len(stale) : fs[i] = stale[j]
    BY <1>12, <2>5, Zenon
  <2> QED BY <2>2, <2>3, <2>4, <2>5, Zenon
<1>14. Send(s, fs)
  BY <1>11 DEF InRow
<1> HIDE DEF fs
<1>15. \A p \in PaneIds : \A i, j \in 1..Len(fs) :
         fs[i] = PaneCtl("spawn", p) /\ fs[j] = PaneCtl("spawn", p) =>
           i = j /\ ~Asked(p) /\ p \notin Taken /\ p <= seq'[s]
  <2>1. \A p, q : /\ PaneCtl("spawn", p) # PaneCtl("close", q)
                  /\ PaneCtl("spawn", p) = PaneCtl("spawn", q) => p = q
    BY DEF PaneCtl
  <2> QED BY <1>10, <1>13, <2>1
<1>16. \/ up' = up
       \/ cur[s] \in Conns /\ popen[cur[s]] # "none" /\ up' = [up EXCEPT ![cur[s]] = up[cur[s]] \o fs]
  BY <1>14, SendIs
<1>17. up' = up \/ (cur[s] \in Conns /\ popen[cur[s]] # "none"
                      /\ \E gs \in Seq(UpFrame) :
                           /\ up' = [up EXCEPT ![cur[s]] = up[cur[s]] \o gs]
                           /\ \A q \in PaneIds : \A i, j \in 1..Len(gs) :
                                gs[i] = PaneCtl("spawn", q) /\ gs[j] = PaneCtl("spawn", q) =>
                                  i = j /\ ~Asked(q) /\ q \notin Taken /\ q <= seq'[s])
  BY <1>13, <1>15, <1>16, Zenon
<1>18. UNCHANGED <<hostSide, popen, down>> /\ phase'[s] = "run"
       /\ \A t \in Owners : t # s => phase'[t] \in {"none", "gone"}
  BY <1>1, <1>2, <1>3 DEF peerVars
<1> QED BY <1>4, <1>9, <1>17, <1>18, AskingNumbers

\* A server process dies, or shuts down in order: what it had written stays, what
\* it then writes on the probe connection asks for no pane.
LEMMA DiesNumbers ==
  ASSUME NumberInv, SessionInv', NEW s \in Owners, OwnerDies(s), Forget(s)
  PROVE  NumberInv'
<1>1. UNCHANGED hostSide /\ up' = up
  BY Zenon DEF OwnerDies, hostSide
<1>2. AskedOnce' /\ \A p \in PaneIds : (Asked(p)' => Asked(p)) /\ (Closing(p)' => Closing(p))
  BY <1>1, SilentAsks, Zenon DEF Asked, Closing
<1>3. \A d \in Conns : popen'[d] = "none" => popen[d] = "none" /\ up'[d] = up[d]
  BY <1>1 DEF OwnerDies
<1>4. \A d \in Conns : down'[d] = down[d] \/ down'[d] = <<>>
  BY Zenon DEF OwnerDies
<1> QED BY <1>1, <1>2, <1>3, <1>4, ForgetNumbers

LEMMA EndsNumbers ==
  ASSUME NumberInv, SessionInv', NEW s \in Owners, NEW c \in Conns, EndServer(s, c)
  PROVE  NumberInv'
<1> DEFINE fs == <<Ctl("probe"), Ctl("shutdown")>>
<1>1. /\ phase[s] = "ending" /\ popen[c] = "none" /\ UNCHANGED hostSide /\ Forget(s)
      /\ up' = [up EXCEPT ![c] = fs]
      /\ popen' = [d \in Conns |-> IF d = c \/ d = cur[s] THEN "closed" ELSE popen[d]]
      /\ down' = [d \in Conns |-> IF d = cur[s] THEN <<>> ELSE down[d]]
  BY DEF EndServer, FreshConn
<1>2. fs \in Seq(UpFrame) /\ \A p \in PaneIds : \A i \in 1..Len(fs) : fs[i] # PaneCtl("spawn", p)
  BY GreetingAsks
<1> HIDE DEF fs
<1>3. up[c] \o fs = fs
  <2>1. up[c] = <<>>
    BY <1>1 DEF NumberInv, Unopened
  <2> QED BY <1>2, <2>1
<1>4. up' = [up EXCEPT ![c] = up[c] \o fs]
  BY <1>1, <1>3
<1>5. AskedOnce' /\ \A p \in PaneIds : Asked(p)' => Asked(p)
  BY <1>1, <1>2, <1>4, WrittenAsks
<1>6. \A d \in Conns : popen'[d] = "none" => popen[d] = "none" /\ up'[d] = up[d]
  BY <1>1, NumberTypes
<1>7. \A d \in Conns : down'[d] = down[d] \/ down'[d] = <<>>
  BY <1>1
<1> QED BY <1>1, <1>5, <1>6, <1>7, ForgetNumbers

LEMMA ExitNumbers ==
  ASSUME NumberInv, SessionInv', NEW s \in Owners, OnExit(s)
  PROVE  NumberInv'
<1>1. /\ Got(s, "exit") /\ Received(s).pane \in cbs[s] /\ DropPane(s, Received(s).pane)
      /\ UNCHANGED <<hostSide, peerVars, alive, cur, seq, listed, resume>>
  BY DEF OnExit
<1>2. /\ \A d \in Conns : down'[d] = down[d] \/ (down[d] # <<>> /\ down'[d] = Tail(down[d]))
  BY <1>1, GotNumbers
<1>3. cbs[s] \subseteq PaneIds
  BY NumberTypes
<1>4. phase[s] \in {"run", "leaving", "ending"}
  BY <1>1 DEF Got, Busy, NumberInv, Idle
<1>5. PICK p \in PaneIds : p = Received(s).pane
  BY <1>1, <1>3
<1>6. DropPane(s, p)
  BY <1>1, <1>5
<1> QED BY <1>1, <1>2, <1>4, <1>6, DropNumbers

LEMMA ReadNumbers ==
  ASSUME NumberInv, SessionInv', NEW s \in Owners, ShowOutput(s) \/ OnOther(s)
  PROVE  NumberInv'
<1>1. PICK op \in {"data", "spawned", "list_reply", "exit"} : Got(s, op)
  BY DEF ShowOutput, OnOther
<1>2. /\ UNCHANGED <<hostSide, peerVars, up>>
      /\ UNCHANGED <<phase, cur, cbs, tabs, seq, listed, resume>>
  BY Zenon DEF ShowOutput, OnOther, srvVars
<1>3. UNCHANGED <<hostSide, up, popen>>
  BY <1>2 DEF peerVars
<1>4. \A d \in Conns : down'[d] = down[d] \/ (down[d] # <<>> /\ down'[d] = Tail(down[d]))
  BY <1>1, GotNumbers
<1> QED BY <1>2, <1>3, <1>4, StillNumbers

LEMMA KillNumbers ==
  ASSUME NumberInv, SessionInv', NEW s \in Owners, NEW p \in PaneIds, KillPane(s, p)
  PROVE  NumberInv'
<1>1. /\ phase[s] = "run" /\ DropPane(s, p)
      /\ UNCHANGED <<hostSide, peerVars, alive, cur, seq, listed, resume>>
  BY DEF KillPane
<1>2. \A d \in Conns : down'[d] = down[d]
  BY DEF KillPane
<1> QED BY <1>1, <1>2, DropNumbers

LEMMA ServerNumbers ==
  ASSUME Prompt, NumberInv, SessionInv', NEW s \in Owners, ServerStep(s) \/ UserStep(s)
  PROVE  NumberInv'
<1>1. ASSUME ServerStep(s) PROVE NumberInv'
  <2>1. ASSUME ListTimesOut(s) PROVE FALSE
    BY <2>1 DEF ListTimesOut, Prompt
  <2>2. CASE GotList(s)
    BY <2>2, GotListNumbers
  <2>3. CASE Restore(s)
    BY <2>3, RestoreNumbers
  <2>4. CASE ShowOutput(s) \/ OnOther(s)
    BY <2>4, ReadNumbers
  <2>5. CASE OnExit(s)
    BY <2>5, ExitNumbers
  <2>6. CASE RestartExit(s)
    BY <2>6, DiesNumbers DEF RestartExit
  <2>7. CASE OnHostLost(s)
    BY <2>7, PhaseNumbers
  <2>8. ASSUME NEW c \in Conns, Connect(s, c) \/ EndServer(s, c) \/ Reconnect(s, c)
        PROVE  NumberInv'
    BY <2>8, ConnectNumbers, EndsNumbers, ReconnectNumbers
  <2> QED BY <1>1, <2>1, <2>2, <2>3, <2>4, <2>5, <2>6, <2>7, <2>8 DEF ServerStep
<1>2. ASSUME UserStep(s) PROVE NumberInv'
  <2>1. CASE Launch(s)
    BY <2>1, PhaseNumbers
  <2>2. CASE NewTab(s)
    BY <2>2, SpawnNumbers DEF NewTab
  <2>3. CASE Crash(s)
    BY <2>3, DiesNumbers DEF Crash
  <2>4. ASSUME NEW t \in tabs[s], SplitTab(s, t) PROVE NumberInv'
    BY <2>4, SpawnNumbers DEF SplitTab
  <2>5. ASSUME NEW p \in PaneIds, KillPane(s, p) PROVE NumberInv'
    BY <2>5, KillNumbers
  <2>6. ASSUME NEW t \in Owners, Restart(s, t) PROVE NumberInv'
    BY <2>6, PhaseNumbers
  <2> QED BY <1>2, <2>1, <2>2, <2>3, <2>4, <2>5, <2>6 DEF UserStep
<1> QED BY <1>1, <1>2

-----------------------------------------------------------------------------
(* The theorems about pane numbers.                                          *)

LEMMA NumberBegins == SessionInit => NumberInv
<1> SUFFICES ASSUME SessionInit PROVE NumberInv
  OBVIOUS
<1>1. SessionInv
  BY SessionBegins
<1>2. /\ \A s \in Owners : /\ phase[s] = "none" /\ cur[s] = 0 /\ cbs[s] = {} /\ tabs[s] = {}
                           /\ resume[s].tabs = {}
      /\ \A c \in Conns : up[c] = <<>> /\ down[c] = <<>> /\ hpc[c] = "none"
      /\ hostUp = TRUE
  BY DEF SessionInit, HostInit, NoFile
<1>3. Alone /\ Idle /\ Unopened /\ Down
  BY <1>2 DEF Alone, Idle, Unopened, Down, Living
<1>4. \A op, p : ~Waiting(op, p)
  BY <1>2 DEF Waiting, Waits
<1>5. AskedOnce
  BY <1>2 DEF AskedOnce
<1>6. AskedFresh
  BY <1>4 DEF AskedFresh, Asked
<1>7. Below /\ Quiescent /\ Replies /\ Lists
  BY <1>2 DEF Below, Quiescent, Replies, Lists
<1> QED BY <1>1, <1>3, <1>5, <1>6, <1>7 DEF NumberInv

LEMMA NumberStep ==
  ASSUME Prompt
  PROVE  NumberInv /\ [SessionNext]_sessionVars => NumberInv'
<1> SUFFICES ASSUME NumberInv, [SessionNext]_sessionVars PROVE NumberInv'
  OBVIOUS
<1>1. SessionInv'
  BY SessionStep DEF NumberInv
<1>2. CASE (HostStep \/ ShellStep) /\ UNCHANGED srvVars
  BY <1>1, <1>2, HostNumbers
<1>3. ASSUME NEW s \in Owners, ServerStep(s) \/ UserStep(s) PROVE NumberInv'
  BY <1>1, <1>3, ServerNumbers
<1>4. CASE UNCHANGED sessionVars
  <2>1. UNCHANGED <<hostSide, up, popen, down>>
    BY <1>4 DEF sessionVars, hostVars, hostSide, peerVars
  <2>2. UNCHANGED <<phase, cur, cbs, tabs, seq, listed, resume>>
    BY <1>4 DEF sessionVars, srvVars
  <2> QED BY <1>1, <2>1, <2>2, StillNumbers
<1> QED BY <1>2, <1>3, <1>4 DEF SessionNext

\* Whatever restarts, crashes and spawns race, a spawn frame that the daemon is about
\* to read names no pane it has or is making (_pane_seq, _adopt_host_panes), as long
\* as a starting server hears of all panes in time.
THEOREM SpawnsAreFreshCorrect ==
  ASSUME Prompt
  PROVE  SessionSpec => []SpawnsAreFresh
<1>1. NumberInv => SpawnsAreFresh
  <2> SUFFICES ASSUME NumberInv, NEW c \in Conns, hpc[c] = "serve", up[c] # <<>>,
                      Head(up[c]).op = "spawn"
               PROVE  Head(up[c]).pane \notin Taken
    BY Zenon DEF SpawnsAreFresh
  <2>1. Arg(c) \in PaneIds /\ Waiting("spawn", Arg(c))
    BY HeadWaits, NumberTypes DEF PaneOps
  <2> QED BY <2>1, Zenon DEF NumberInv, AskedFresh, Asked, Arg
<1> QED BY <1>1, NumberBegins, NumberStep, PTL DEF SessionSpec

\* A server comes to run by restoring, and in no other way.
LEMMA OnlyRestoreRuns ==
  ASSUME NumberInv, NEW s \in Owners, phase[s] = "listed", phase'[s] = "run",
         NEW u \in Owners, ServerStep(u) \/ UserStep(u)
  PROVE  Restore(s)
<1>1. \/ Restore(u) /\ phase' = [phase EXCEPT ![u] = "run"]
      \/ UNCHANGED phase
      \/ \E x \in Phases \ {"run"} : phase' = [phase EXCEPT ![u] = x]
      \/ \E t \in Owners : phase' = [phase EXCEPT ![u] = "leaving", ![t] = "boot"]
  <2>1. CASE GotList(u) \/ ListTimesOut(u) \/ ShowOutput(u) \/ OnOther(u) \/ OnHostLost(u)
    BY <2>1 DEF GotList, ListTimesOut, ShowOutput, OnOther, OnHostLost, srvVars, Phases
  <2>2. CASE Restore(u)
    BY <2>2 DEF Restore
  <2>3. CASE OnExit(u)
    BY <2>3 DEF OnExit, DropPane, Phases
  <2>4. CASE RestartExit(u) \/ Crash(u)
    BY <2>4 DEF RestartExit, Crash, Forget, Phases
  <2>5. ASSUME NEW c \in Conns, Connect(u, c) \/ EndServer(u, c) \/ Reconnect(u, c)
        PROVE  \E x \in Phases : UNCHANGED phase \/ (x # "run" /\ phase' = [phase EXCEPT ![u] = x])
    BY <2>5 DEF Connect, EndServer, Reconnect, Forget, Phases
  <2>6. CASE Launch(u) \/ NewTab(u)
    BY <2>6 DEF Launch, NewTab, SpawnPane, Phases
  <2>7. ASSUME NEW t \in tabs[u], SplitTab(u, t) PROVE UNCHANGED phase
    BY <2>7 DEF SplitTab, SpawnPane
  <2>8. ASSUME NEW p \in PaneIds, KillPane(u, p)
        PROVE  UNCHANGED phase \/ phase' = [phase EXCEPT ![u] = "ending"]
    BY <2>8 DEF KillPane, DropPane
  <2>9. ASSUME NEW t \in Owners, Restart(u, t)
        PROVE  phase' = [phase EXCEPT ![u] = "leaving", ![t] = "boot"]
    BY <2>9 DEF Restart
  <2> QED BY <2>1, <2>2, <2>3, <2>4, <2>5, <2>6, <2>7, <2>8, <2>9 DEF ServerStep, UserStep, Phases
<1> QED BY <1>1, NumberTypes

\* restore_resume_state gives back every tab whose panes the daemon still has, under
\* the same condition: what it was told covers what there is.
THEOREM RestartKeepsTabsCorrect ==
  ASSUME Prompt
  PROVE  SessionSpec => RestartKeepsTabs
<1> DEFINE TabsBack == \A s \in Owners : phase[s] = "listed" /\ phase'[s] = "run" =>
             \A t \in resume[s].tabs : PanesOf({t}) \subseteq Registered => t \in tabs'[s]
<1>1. NumberInv /\ [SessionNext]_sessionVars => [TabsBack]_sessionVars
  <2> SUFFICES ASSUME NumberInv, SessionNext, NEW s \in Owners, phase[s] = "listed",
                      phase'[s] = "run", NEW t \in resume[s].tabs,
                      PanesOf({t}) \subseteq Registered
               PROVE  t \in tabs'[s]
    OBVIOUS
  <2>1. t \in Restorable(s)
    BY DEF NumberInv, Lists, Restorable
  <2>2. PICK u \in Owners : ServerStep(u) \/ UserStep(u)
    BY Zenon DEF SessionNext, srvVars
  <2>3. Restore(s)
    BY <2>2, OnlyRestoreRuns
  <2> QED BY <2>1, <2>3, NumberTypes DEF Restore
<1> QED BY <1>1, NumberBegins, NumberStep, PTL DEF SessionSpec, RestartKeepsTabs

-----------------------------------------------------------------------------
(* Shells that somebody shows, and the order of their output on screens.   *)
(* No frame that closes a pane meets a pane that is claimed, and no reap   *)
(* that ends late meets a new pane under the old number: _finish_eof       *)
(* closes by number.  What a screen shows, a server keeps for the screen   *)
(* and the resume file hands on is older than all that is still to come.   *)

\* No pane is in two tabs, or twice in one.
Apart(ts) == /\ \A t \in ts : InjTab(t)
             /\ \A t, u \in ts : t # u => PanesOf({t}) \cap PanesOf({u}) = {}
TreesApart == \A s \in Owners : Apart(tabs[s]) /\ Apart(resume[s].tabs)
\* The allocator is also past what is shown and past what is being closed.
TabsBelow == \A s \in Owners : phase[s] = "run" =>
  \A p \in PaneIds : p \in Shown(s) \cup cbs[s] \/ Closing(p) => p <= seq[s]
\* Nothing that is registered is also being made; whoever settles has stopped the daemon.
OnceMade == Registered \cap spawning = {}
StopSet  == (\A c \in Conns : hpc[c] = "settling" => stop) /\ (wdpc = "settle" => stop)

Finished(k) == shell[k] \in {"exited", "closed"}
\* The shell of pane p has ended: it is being reaped, or its exit frame is on its way to
\* a server.
ExitAt(s, j, p) == /\ cur[s] \in Conns /\ j \in 1..Len(down[cur[s]])
                   /\ down[cur[s]][j].op = "exit" /\ down[cur[s]][j].pane = p
Ended(p) == \/ \E k \in Shells : <<p, k>> \in reaping
            \/ \E s \in Owners : \E j : ExitAt(s, j, p)
\* No server will make a pane p any more.
Over(p) == /\ p \notin spawning /\ ~Asked(p)
           /\ \A s \in Owners : /\ phase[s] = "run" => p <= seq[s]
                                /\ phase[s] = "listed" => p \in listed[s].panes
\* The answers among the first n frames to a server that is starting name pane p.
Promised(s, p, n) == \A i \in 1..n : down[cur[s]][i].op = "list_reply" => p \in down[cur[s]][i].panes

EndedOver == \A p \in PaneIds : Ended(p) => Over(p)
ReapsOK == \A p \in PaneIds, k \in Shells : <<p, k>> \in reaping =>
  /\ Finished(k) /\ shellOf[p] \in {0, k}
  /\ \A s \in Owners : phase[s] = "listing" => shellOf[p] = k /\ Promised(s, p, Len(down[cur[s]]))
ExitsOK == \A s \in Owners : \A p \in PaneIds : \A j : ExitAt(s, j, p) =>
  p \notin Registered /\ (phase[s] = "listing" => Promised(s, p, j))
CloseSafe == \A p \in PaneIds : Closing(p) /\ Claimed(p) => p \notin Taken /\ ~Asked(p)

ShownInv == /\ NumberInv /\ TreesApart /\ TabsBelow /\ OnceMade /\ StopSet
            /\ ~stop => EndedOver /\ ReapsOK /\ ExitsOK /\ CloseSafe

-----------------------------------------------------------------------------
(* The daemon's steps.                                                       *)

\* What becomes of children and of panes in a step of the daemon that does not stop it,
\* or of a shell.
Reaping == \/ \E p \in PaneIds : ReaderEof(p)
           \/ \E p \in PaneIds, k \in Shells : FinishEof(p, k)
Silent(d) == down'[d] = down[d] \/ \E f : Answers(d, f) /\ f.op # "exit"

LEMMA ConnEnds ==
  ASSUME HostInv, hostUp, StopSet, ~stop', NEW c \in Conns, ConnStep(c)
  PROVE  /\ reaping' = reaping /\ ~stop
         /\ \A k \in Shells : Finished(k) => Finished(k)'
         /\ \A p \in PaneIds : shellOf'[p] = shellOf[p] \/ (shellOf'[p] = 0 /\ Closing(p))
                               \/ p \in spawning
<1> USE DEF paneVars, connVars
<1>t. TypeOK /\ SpawnsReserved
  BY DEF HostInv, FlightInv, RingInv, KeptInv, TypeInv
<1>1. reaping' = reaping
  BY Zenon DEF ConnStep, Accept, Authenticate, DeclareProbe, AdoptServer, OnEof,
         OnOwner, OnUnknown, OnSpawnAgain, OnSpawn, SpawnFails, SpawnLands, OnClose, OnPause,
         OnResume, OnList, ListAnswered, OnShutdown, ShutdownSettled, BackendSpawn
<1>2. stop' = stop \/ stop' = TRUE
  BY Zenon DEF ConnStep, Accept, Authenticate, DeclareProbe, AdoptServer, OnEof,
         OnOwner, OnUnknown, OnSpawnAgain, OnSpawn, SpawnFails, SpawnLands, OnClose, OnPause,
         OnResume, OnList, ListAnswered, OnShutdown, ShutdownSettled, BackendSpawn
<1>3. ~stop
  BY <1>2
<1>4. CASE SpawnLands(c)
  <2>1. /\ shellOf' = shellOf \/ shellOf' = [shellOf EXCEPT ![harg[c]] = hshell[c]]
        /\ shell' = shell \/ shell' = [shell EXCEPT ![hshell[c]] =
                                          IF @ = "live" THEN "closed" ELSE @]
    BY <1>4 DEF SpawnLands, Refuse
  <2>2. harg[c] \in spawning
    BY <1>4, <1>t DEF SpawnLands, SpawnsReserved, TypeOK
  <2> QED BY <1>1, <1>3, <1>t, <2>1, <2>2 DEF TypeOK, Finished
<1>5. CASE OnClose(c)
  <2>1. ClosePanes({Arg(c)}) /\ Closing(Arg(c))
    BY <1>5, <1>t, HeadWaits DEF OnClose, Taking, PaneOps, Closing
  <2> QED BY <1>1, <1>3, <1>t, <2>1 DEF ClosePanes, TypeOK, Finished
<1>6. CASE \E k \in Shells : BackendSpawn(c, k)
  <2>1. shellOf' = shellOf /\ \E k \in Shells : shell[k] = "none" /\ shell' = [shell EXCEPT ![k] = "live"]
    BY <1>6 DEF BackendSpawn
  <2> QED BY <1>1, <1>3, <1>t, <2>1 DEF TypeOK, Finished
<1>7. CASE ShutdownSettled(c)
  BY <1>3, <1>7 DEF ShutdownSettled, StopSet
<1>8. CASE UNCHANGED <<shellOf, shell>>
  BY <1>1, <1>3, <1>8 DEF Finished
<1> QED BY <1>4, <1>5, <1>6, <1>7, <1>8, Zenon
        DEF ConnStep, Accept, Authenticate, DeclareProbe, AdoptServer, OnEof, OnOwner,
            OnUnknown, OnSpawnAgain, OnSpawn, SpawnFails, OnPause, OnResume, OnList, ListAnswered,
            OnShutdown

LEMMA HostEnds ==
  ASSUME HostInv, Down, StopSet, ~stop', HostStep \/ ShellStep
  PROVE  /\ ~stop /\ \A k \in Shells : Finished(k) => Finished(k)'
         /\ \/ Reaping
            \/ /\ reaping' = reaping /\ \A d \in Conns : Silent(d)
               /\ \A p \in PaneIds : shellOf'[p] = shellOf[p] \/ (shellOf'[p] = 0 /\ Closing(p))
                                     \/ p \in spawning
<1> USE DEF paneVars, connVars, wdVars
<1>t. TypeOK
  BY DEF HostInv, FlightInv, RingInv, KeptInv, TypeInv
<1>1. ASSUME NEW c \in Conns, ConnStep(c)
      PROVE  /\ ~stop /\ \A k \in Shells : Finished(k) => Finished(k)'
             /\ reaping' = reaping /\ \A d \in Conns : Silent(d)
             /\ \A p \in PaneIds : shellOf'[p] = shellOf[p] \/ (shellOf'[p] = 0 /\ Closing(p))
                                   \/ p \in spawning
  <2>1. hostUp
    BY <1>t, <1>1, ConnReads DEF Down
  <2>2. \A d \in Conns : Silent(d)
    BY <1>1, <2>1, ConnAnswers DEF Silent
  <2> QED BY <1>1, <2>1, <2>2, ConnEnds
<1>2. ASSUME Reaping PROVE ~stop /\ \A k \in Shells : Finished(k) => Finished(k)'
  <2>1. stop' = stop /\ (shell' = shell \/ \E S : ClosePanes(S))
    BY <1>2, Zenon DEF Reaping, ReaderEof, FinishEof
  <2> QED BY <1>t, <2>1 DEF ClosePanes, TypeOK, Finished
<1>3. ASSUME NEW p \in PaneIds, ShellOutput(p) PROVE \A d \in Conns : Silent(d)
  <2> DEFINE k == shellOf[p]
             n == out[k] + 1
             data == [NoData EXCEPT ![p] = <<n>>]
  <2>1. k \in Shells /\ n \in Nat
    BY <1>t, <1>3 DEF ShellOutput, Registered, TypeOK
  <2>2. data \in [PaneIds -> Seq(Nat)]
    BY <2>1, NoDataType
  <2>3. down' = down \/ (writer \in Conns /\ down' = Written(writer, DataFrame(data)))
    BY <1>t, <1>3 DEF ShellOutput, TypeOK, Detached
  <2> HIDE DEF data
  <2>4. DataFrame(data) \in DownFrame /\ DataFrame(data).op = "data"
    BY <1>t, <2>2, DataFrameIsDown DEF TypeOK, DataFrame
  <2> QED BY <1>t, <2>3, <2>4, WrittenAnswers DEF Silent
<1>4. ASSUME ShellStep \/ Watchdog
      PROVE  /\ ~stop /\ \A k \in Shells : Finished(k) => Finished(k)'
             /\ reaping' = reaping /\ (\A d \in Conns : Silent(d)) /\ shellOf' = shellOf
  <2>1. ~stop
    <3>1. CASE WatchVerdict
      BY <3>1 DEF WatchVerdict
    <3>2. CASE ~WatchVerdict
      <4>1. stop' = stop \/ stop' = TRUE
        BY <1>4, <3>2, Zenon DEF ShellStep, ShellOutput, ShellExit, Watchdog, WatchAttached,
                                 WatchIdle, WatchSettled
      <4> QED BY <4>1
    <3> QED BY <3>1, <3>2
  <2>2. ~WatchSettled
    BY <2>1 DEF WatchSettled, StopSet
  <2>3. reaping' = reaping /\ shellOf' = shellOf
    BY <1>4, <2>2, Zenon DEF ShellStep, ShellOutput, ShellExit, Watchdog, WatchAttached, WatchIdle,
                       WatchVerdict
  <2>4. shell' = shell \/ \E k \in Shells : ShellExit(k)
    BY <1>4, <2>2, Zenon DEF ShellStep, ShellOutput, Watchdog, WatchAttached, WatchIdle,
                       WatchVerdict
  <2>5. \A k \in Shells : Finished(k) => Finished(k)'
    BY <1>t, <2>4 DEF ShellExit, TypeOK, Finished
  <2>6. down' = down \/ \E p \in PaneIds : ShellOutput(p)
    BY <1>4, <2>2, Zenon DEF ShellStep, ShellExit, Watchdog, WatchAttached, WatchIdle,
                       WatchVerdict
  <2>7. \A d \in Conns : Silent(d)
    BY <1>3, <2>6 DEF Silent
  <2> QED BY <2>1, <2>3, <2>5, <2>7
<1>5. ~HostExit
  BY DEF HostExit
<1> QED BY <1>1, <1>2, <1>4, <1>5, Zenon DEF HostStep, Reaping

\* Requests only get fewer, and what is being made was asked for.
LEMMA HostFacts ==
  ASSUME NumberInv, HostStep \/ ShellStep
  PROVE  /\ \A p : (Asked(p)' => Asked(p)) /\ (Closing(p)' => Closing(p))
         /\ \A d \in Conns : down'[d] = down[d] \/ \E f : Answers(d, f)
         /\ Registered' \subseteq Registered \cup spawning
         /\ \A p \in PaneIds : p \in Taken' => p \in Taken \/ Asked(p)
         /\ \A p \in PaneIds : p \in spawning' => p \in spawning \/ Asked(p)
<1>t. HostInv /\ TypeOK /\ Down /\ AskedOnce /\ up \in [Conns -> Seq(UpFrame)]
  BY NumberTypes DEF NumberInv
<1>1. /\ \A d \in Conns : Reads(d)
      /\ \A d \in Conns : down'[d] = down[d] \/ \E f : Answers(d, f)
      /\ Registered' \subseteq Registered \cup spawning
      /\ \/ Taken' \subseteq Taken /\ spawning' \subseteq spawning
         \/ \E c \in Conns : OnSpawn(c) /\ Taken' = Taken \cup {Arg(c)}
  BY <1>t, HostMoves
<1>2. \A op, p : Waiting(op, p)' => Waiting(op, p)
  BY <1>t, <1>1, ReadingKeeps
<1>3. \A c \in Conns, p \in PaneIds : OnSpawn(c) /\ p = Arg(c) => Asked(p)
  BY <1>t, <1>1, BegunOnce
<1>4. \A c \in Conns : OnSpawn(c) => spawning' = spawning \cup {Arg(c)}
  BY DEF OnSpawn
<1> QED BY <1>1, <1>2, <1>3, <1>4, Zenon DEF Asked, Closing

LEMMA HostOnce ==
  ASSUME NumberInv, OnceMade, StopSet, HostStep \/ ShellStep
  PROVE  OnceMade' /\ StopSet'
<1> USE DEF paneVars, connVars, wdVars
<1>t. HostInv /\ TypeOK /\ Down
  BY NumberTypes DEF NumberInv
<1>1. ASSUME NEW c \in Conns, ConnStep(c) PROVE OnceMade' /\ StopSet'
  <2>1. hostUp
    BY <1>t, <1>1, ConnReads DEF Down
  <2>2. /\ spawning' \subseteq spawning \/ OnSpawn(c)
        /\ Registered' \subseteq Registered \/ (SpawnLands(c)
                                              /\ Registered' \subseteq Registered \cup {harg[c]}
                                              /\ spawning' = spawning \ {harg[c]})
    BY <1>t, <1>1, <2>1, ConnTakes
  <2>3. OnSpawn(c) => /\ Registered' = Registered /\ spawning' = spawning \cup {Arg(c)}
                      /\ Arg(c) \notin Registered
    BY DEF OnSpawn, Registered, Taken
  <2>4. OnceMade'
    BY <2>2, <2>3 DEF OnceMade
  <2>5. wdpc' = wdpc /\ (stop' = stop \/ stop' = TRUE)
    BY <1>1, Zenon DEF ConnStep, Accept, Authenticate, DeclareProbe, AdoptServer, OnEof,
         OnOwner, OnUnknown, OnSpawnAgain, OnSpawn, SpawnFails, SpawnLands, OnClose, OnPause,
         OnResume, OnList, ListAnswered, OnShutdown, ShutdownSettled, BackendSpawn
  <2>6. stop' = TRUE \/ hpc' = hpc \/ \E h : hpc' = [hpc EXCEPT ![c] = h] /\ h # "settling"
    <3>1. CASE Accept(c) \/ Authenticate(c) \/ DeclareProbe(c) \/ AdoptServer(c)
      BY <3>1 DEF Accept, Authenticate, DeclareProbe, AdoptServer
    <3>2. CASE OnEof(c) \/ SpawnFails(c) \/ OnSpawn(c) \/ SpawnLands(c)
      BY <3>2 DEF OnEof, SpawnFails, CloseConn, OnSpawn, SpawnLands
    <3>3. CASE OnList(c) \/ ListAnswered(c) \/ OnShutdown(c) \/ ShutdownSettled(c)
      BY <3>3 DEF OnList, ListAnswered, OnShutdown, ShutdownSettled
    <3>4. CASE hpc' = hpc
      BY <3>4
    <3> QED BY <1>1, <3>1, <3>2, <3>3, <3>4, Zenon
            DEF ConnStep, OnOwner, OnUnknown, OnSpawnAgain, OnClose, OnPause, OnResume, BackendSpawn
  <2>7. StopSet'
    BY <1>t, <2>5, <2>6 DEF StopSet, TypeOK
  <2> QED BY <2>4, <2>7
<1>2. ASSUME ShellStep \/ Watchdog \/ Reaping PROVE OnceMade' /\ StopSet'
  <2>1. /\ UNCHANGED <<hpc, spawning>> /\ (shellOf' = shellOf \/ \E S : ClosePanes(S))
    BY <1>2, Zenon DEF ShellStep, ShellOutput, ShellExit, Watchdog, WatchAttached, WatchIdle,
                       WatchVerdict, WatchSettled, Reaping, ReaderEof, FinishEof
  <2>2. Registered' \subseteq Registered
    BY <2>1 DEF ClosePanes, Registered
  <2>3. (stop' = stop /\ wdpc' = wdpc) \/ Watchdog
    BY <1>2, Zenon DEF ShellStep, ShellOutput, ShellExit, Reaping, ReaderEof, FinishEof
  <2>4. (stop => stop') /\ (wdpc' = "settle" => stop')
    BY <1>t, <2>3 DEF StopSet, TypeOK, Watchdog, WatchAttached, WatchIdle, WatchVerdict, WatchSettled
  <2> QED BY <2>1, <2>2, <2>4 DEF OnceMade, StopSet
<1>3. ASSUME HostExit PROVE OnceMade' /\ StopSet'
  BY <1>3 DEF HostExit, OnceMade, StopSet
<1> QED BY <1>1, <1>2, <1>3 DEF HostStep, Reaping

\* Nobody will make a pane that is there.
LEMMA RegisteredOver ==
  ASSUME NumberInv, OnceMade, NEW p \in Registered
  PROVE  Over(p)
<1>1. p \in PaneIds /\ p \in Taken /\ p \notin spawning
  BY DEF Registered, Taken, OnceMade
<1> QED BY <1>1, Zenon DEF NumberInv, AskedFresh, Below, Lists, Over

\* Whoever has ended was there, or had ended before.
LEMMA HostEndedOver ==
  ASSUME ShownInv, ~stop', HostStep \/ ShellStep, UNCHANGED srvVars
  PROVE  EndedOver'
<1>t. NumberInv /\ HostInv /\ Down /\ StopSet /\ OnceMade /\ TypeOK
  BY NumberTypes DEF ShownInv, NumberInv
<1>1. ~stop /\ (Reaping \/ (reaping' = reaping /\ \A d \in Conns : Silent(d)))
  BY <1>t, HostEnds
<1>2. EndedOver
  BY <1>1 DEF ShownInv
<1>3. /\ \A p : (Asked(p)' => Asked(p)) /\ (Closing(p)' => Closing(p))
      /\ \A p \in PaneIds : p \in spawning' => p \in spawning \/ Asked(p)
  BY <1>t, HostFacts
<1>4. UNCHANGED <<phase, cur, seq, listed>>
  BY DEF srvVars
<1>5. \A p \in PaneIds : Over(p) => Over(p)'
  BY <1>3, <1>4 DEF Over
<1>6. ASSUME NEW p \in PaneIds, Ended(p)' PROVE Ended(p) \/ p \in Registered
  <2>1. CASE reaping' = reaping /\ \A d \in Conns : Silent(d)
    <3>1. ASSUME NEW s \in Owners, NEW j, ExitAt(s, j, p)' PROVE ExitAt(s, j, p)
      <4>1. cur[s] \in Conns /\ j \in 1..Len(down'[cur[s]])
            /\ down'[cur[s]][j].op = "exit" /\ down'[cur[s]][j].pane = p
        BY <1>4, <3>1 DEF ExitAt
      <4>2. CASE down'[cur[s]] = down[cur[s]]
        BY <4>1, <4>2 DEF ExitAt
      <4>3. ASSUME NEW f, down'[cur[s]] = Append(down[cur[s]], f), f.op # "exit"
            PROVE  ExitAt(s, j, p)
        <5>1. down[cur[s]] \in Seq(DownFrame)
          BY <1>t, <4>1 DEF TypeOK
        <5>2. \/ j \in 1..Len(down[cur[s]]) /\ down'[cur[s]][j] = down[cur[s]][j]
              \/ down'[cur[s]][j] = f
          BY <4>1, <4>3, <5>1
        <5> QED BY <4>1, <4>3, <5>2 DEF ExitAt
      <4> QED BY <2>1, <4>1, <4>2, <4>3 DEF Silent, Answers
    <3> QED BY <1>6, <2>1, <3>1, Zenon DEF Ended
  <2>2. ASSUME NEW q \in PaneIds, ReaderEof(q) PROVE Ended(p) \/ p \in Registered
    <3>1. q \in Registered /\ down' = down /\ reaping' = reaping \cup {<<q, shellOf[q]>>}
      BY <2>2 DEF ReaderEof
    <3>2. \A s, j : ExitAt(s, j, p)' => ExitAt(s, j, p)
      BY <1>4, <3>1 DEF ExitAt
    <3> QED BY <1>6, <3>1, <3>2 DEF Ended
  <2>3. ASSUME NEW q \in PaneIds, NEW k \in Shells, FinishEof(q, k) PROVE Ended(p)
    <3>1. /\ <<q, k>> \in reaping /\ reaping' \subseteq reaping
          /\ down' = down \/ down' = Written(writer, [op |-> "exit", pane |-> q])
      BY <2>3 DEF FinishEof
    <3>2. CASE p = q
      BY <3>1, <3>2, Zenon DEF Ended
    <3>3. CASE p # q
      <4>1. ASSUME NEW s \in Owners, NEW j, ExitAt(s, j, p)' PROVE ExitAt(s, j, p)
        <5>1. cur[s] \in Conns /\ j \in 1..Len(down'[cur[s]])
              /\ down'[cur[s]][j].op = "exit" /\ down'[cur[s]][j].pane = p
          BY <1>4, <4>1 DEF ExitAt
        <5>2. down[cur[s]] \in Seq(DownFrame)
          BY <1>t, <5>1 DEF TypeOK
        <5>3. \/ down'[cur[s]] = down[cur[s]]
              \/ down'[cur[s]] = Append(down[cur[s]], [op |-> "exit", pane |-> q])
          <6>1. down \in [Conns -> Seq(DownFrame)]
            BY <1>t DEF TypeOK
          <6> QED BY <3>1, <5>1, <6>1 DEF Written
        <5>4. CASE down'[cur[s]] = down[cur[s]]
          BY <5>1, <5>4 DEF ExitAt
        <5>5. CASE down'[cur[s]] = Append(down[cur[s]], [op |-> "exit", pane |-> q])
          <6>1. \/ j \in 1..Len(down[cur[s]]) /\ down'[cur[s]][j] = down[cur[s]][j]
                \/ down'[cur[s]][j] = [op |-> "exit", pane |-> q]
            BY <5>1, <5>2, <5>5
          <6>2. j \in 1..Len(down[cur[s]]) /\ down'[cur[s]][j] = down[cur[s]][j]
            BY <3>3, <5>1, <6>1
          <6> QED BY <5>1, <6>2 DEF ExitAt
        <5> QED BY <5>3, <5>4, <5>5
      <4> QED BY <1>6, <3>1, <4>1 DEF Ended
    <3> QED BY <3>2, <3>3
  <2> QED BY <1>1, <2>1, <2>2, <2>3 DEF Reaping
<1>7. \A p \in Registered : Over(p)
  BY <1>t, RegisteredOver
<1> QED BY <1>2, <1>5, <1>6, <1>7 DEF EndedOver

LEMMA AppendedAt ==
  ASSUME NEW q \in Seq(DownFrame), NEW f \in DownFrame, NEW r, r = Append(q, f)
  PROVE  /\ Len(r) = Len(q) + 1 /\ r[Len(r)] = f /\ Len(q) \in Nat
         /\ \A j \in 1..Len(q) : j \in 1..Len(r) /\ r[j] = q[j]
         /\ \A j \in 1..Len(r) : j \in 1..Len(q) \/ j = Len(r)
OBVIOUS

\* An answer that is written while a pane is registered names it.
LEMMA HostPromises ==
  ASSUME NumberInv, HostStep \/ ShellStep, UNCHANGED srvVars,
         NEW s \in Owners, phase[s] = "listing", NEW p \in PaneIds, p \in Registered,
         Promised(s, p, Len(down[cur[s]]))
  PROVE  Promised(s, p, Len(down[cur[s]]))'
<1>1. /\ cur' = cur /\ cur[s] \in Conns /\ down[cur[s]] \in Seq(DownFrame)
  BY NumberTypes DEF srvVars, NumberInv, Quiescent
<1>2. CASE down'[cur[s]] = down[cur[s]]
  BY <1>1, <1>2 DEF Promised
<1>3. ASSUME NEW f, Answers(cur[s], f) PROVE Promised(s, p, Len(down[cur[s]]))'
  <2>1. f \in DownFrame /\ down'[cur[s]] = Append(down[cur[s]], f)
        /\ (f.op = "list_reply" => p \in f.panes)
    BY <1>3 DEF Answers
  <2>2. /\ down'[cur[s]][Len(down'[cur[s]])] = f
        /\ \A j \in 1..Len(down[cur[s]]) : down'[cur[s]][j] = down[cur[s]][j]
        /\ \A j \in 1..Len(down'[cur[s]]) : j \in 1..Len(down[cur[s]]) \/ j = Len(down'[cur[s]])
    BY <1>1, <2>1, AppendedAt
  <2> QED BY <1>1, <2>1, <2>2 DEF Promised
<1>4. \A d \in Conns : down'[d] = down[d] \/ \E f : Answers(d, f)
  BY HostFacts
<1> QED BY <1>1, <1>2, <1>3, <1>4

LEMMA HostReapsOK ==
  ASSUME ShownInv, ~stop', HostStep \/ ShellStep, UNCHANGED srvVars
  PROVE  ReapsOK'
<1>t. NumberInv /\ HostInv /\ Down /\ StopSet /\ OnceMade /\ TypeOK
  BY NumberTypes DEF ShownInv, NumberInv
<1>1. /\ ~stop /\ \A k \in Shells : Finished(k) => Finished(k)'
      /\ \/ Reaping
         \/ /\ reaping' = reaping
            /\ \A p \in PaneIds : shellOf'[p] = shellOf[p] \/ (shellOf'[p] = 0 /\ Closing(p))
                                  \/ p \in spawning
  BY <1>t, HostEnds
<1>2. EndedOver /\ ReapsOK
  BY <1>1 DEF ShownInv
<1>3. phase' = phase /\ cur' = cur
  BY DEF srvVars
<1>4. SUFFICES ASSUME NEW p \in PaneIds, NEW k \in Shells, <<p, k>> \in reaping'
               PROVE  /\ Finished(k)' /\ shellOf'[p] \in {0, k}
                      /\ \A s \in Owners : phase[s] = "listing" =>
                           shellOf'[p] = k /\ Promised(s, p, Len(down[cur[s]]))'
  BY <1>3 DEF ReapsOK, Promised
<1>5. 0 \notin Shells
  BY DEF Shells
<1>6. CASE <<p, k>> \in reaping
  <2>1. /\ Finished(k) /\ shellOf[p] \in {0, k} /\ Over(p)
        /\ \A s \in Owners : phase[s] = "listing" =>
             shellOf[p] = k /\ Promised(s, p, Len(down[cur[s]]))
    BY <1>2, <1>6 DEF ReapsOK, EndedOver, Ended
  <2>2. shellOf'[p] = shellOf[p] \/ (shellOf'[p] = 0 /\ ~\E s \in Owners : phase[s] = "listing")
    <3>1. CASE ~Reaping
      <4>1. shellOf'[p] = shellOf[p] \/ (shellOf'[p] = 0 /\ Closing(p))
        BY <1>1, <2>1, <3>1 DEF Over
      <4> QED BY <1>t, <4>1 DEF NumberInv, Quiescent
    <3>2. ASSUME NEW q \in PaneIds, ReaderEof(q) PROVE shellOf'[p] = shellOf[p]
      BY <3>2 DEF ReaderEof, paneVars
    <3>3. ASSUME NEW q \in PaneIds, NEW l \in Shells, FinishEof(q, l)
          PROVE  shellOf'[p] = shellOf[p] \/ (shellOf'[p] = 0 /\ ~\E s \in Owners : phase[s] = "listing")
      <4>1. /\ <<q, l>> \in reaping /\ <<p, k>> # <<q, l>>
            /\ p # q => shellOf'[p] = shellOf[p]
            /\ p = q => shellOf'[p] = 0
        BY <1>4, <3>3 DEF FinishEof, ClosePanes
      <4>2. ASSUME NEW s \in Owners, phase[s] = "listing" PROVE p # q
        BY <1>2, <2>1, <4>1, <4>2 DEF ReapsOK
      <4> QED BY <4>1, <4>2
    <3> QED BY <3>1, <3>2, <3>3 DEF Reaping
  <2>3. ASSUME NEW s \in Owners, phase[s] = "listing"
        PROVE  shellOf'[p] = k /\ Promised(s, p, Len(down[cur[s]]))'
    <3>1. shellOf'[p] = k /\ p \in Registered /\ Promised(s, p, Len(down[cur[s]]))
      BY <1>5, <2>1, <2>2, <2>3 DEF Registered
    <3> QED BY <1>t, <2>3, <3>1, HostPromises
  <2> QED BY <1>1, <2>1, <2>2, <2>3
<1>7. CASE <<p, k>> \notin reaping
  <2>1. PICK q \in PaneIds : ReaderEof(q)
    <3>1. Reaping
      BY <1>1, <1>4, <1>7
    <3>2. \A q \in PaneIds, l \in Shells : FinishEof(q, l) => reaping' \subseteq reaping
      BY DEF FinishEof
    <3> QED BY <1>4, <1>7, <3>1, <3>2 DEF Reaping
  <2>2. /\ q \in Registered /\ shell[shellOf[q]] = "exited" /\ UNCHANGED <<shell, shellOf, down>>
        /\ reaping' = reaping \cup {<<q, shellOf[q]>>}
    BY <2>1 DEF ReaderEof, paneVars
  <2>3. p = q /\ k = shellOf[p]
    BY <1>4, <1>7, <2>2
  <2>4. ASSUME NEW s \in Owners, phase[s] = "listing"
        PROVE  Promised(s, p, Len(down[cur[s]]))'
    BY <1>t, <1>3, <2>2, <2>3, <2>4 DEF NumberInv, Replies, Promised
  <2> QED BY <2>2, <2>3, <2>4 DEF Finished
<1> QED BY <1>6, <1>7

LEMMA HostExitsOK ==
  ASSUME ShownInv, ~stop', HostStep \/ ShellStep, UNCHANGED srvVars
  PROVE  ExitsOK'
<1>t. NumberInv /\ HostInv /\ Down /\ StopSet /\ OnceMade /\ TypeOK
  BY NumberTypes DEF ShownInv, NumberInv
<1>1. ~stop /\ (Reaping \/ \A d \in Conns : Silent(d))
  BY <1>t, HostEnds
<1>2. EndedOver /\ ReapsOK /\ ExitsOK
  BY <1>1 DEF ShownInv
<1>3. phase' = phase /\ cur' = cur
  BY DEF srvVars
<1>4. SUFFICES ASSUME NEW s \in Owners, NEW p \in PaneIds, NEW j, ExitAt(s, j, p)'
               PROVE  p \notin Registered' /\ (phase[s] = "listing" => Promised(s, p, j)')
  BY <1>3 DEF ExitsOK, Promised
<1>5. /\ cur[s] \in Conns /\ j \in 1..Len(down'[cur[s]])
      /\ down'[cur[s]][j].op = "exit" /\ down'[cur[s]][j].pane = p
      /\ down[cur[s]] \in Seq(DownFrame)
  BY <1>t, <1>3, <1>4 DEF ExitAt, TypeOK
\* The frame was on its way before.
<1>6. ASSUME j \in 1..Len(down[cur[s]]),
             \A i \in 1..Len(down[cur[s]]) : down'[cur[s]][i] = down[cur[s]][i]
      PROVE  p \notin Registered' /\ (phase[s] = "listing" => Promised(s, p, j)')
  <2>1. ExitAt(s, j, p)
    BY <1>5, <1>6 DEF ExitAt
  <2>2. Over(p) /\ p \notin Registered /\ (phase[s] = "listing" => Promised(s, p, j))
    BY <1>2, <2>1 DEF EndedOver, Ended, ExitsOK
  <2>3. Registered' \subseteq Registered \cup spawning
    BY <1>t, HostFacts
  <2>4. \A i \in 1..j : down'[cur[s]][i] = down[cur[s]][i]
    BY <1>5, <1>6
  <2>5. phase[s] = "listing" => Promised(s, p, j)'
    BY <1>3, <2>2, <2>4 DEF Promised
  <2> QED BY <2>2, <2>3, <2>5 DEF Over
<1>7. CASE down'[cur[s]] = down[cur[s]]
  BY <1>5, <1>6, <1>7
<1>8. ASSUME NEW f, Answers(cur[s], f), f.op # "exit"
      PROVE  p \notin Registered' /\ (phase[s] = "listing" => Promised(s, p, j)')
  <2>1. down'[cur[s]] = Append(down[cur[s]], f) /\ f \in DownFrame
    BY <1>8 DEF Answers
  <2> QED BY <1>5, <1>6, <1>8, <2>1, AppendedAt
<1>9. ASSUME NEW q \in PaneIds, NEW k \in Shells, FinishEof(q, k)
      PROVE  p \notin Registered' /\ (phase[s] = "listing" => Promised(s, p, j)')
  <2> DEFINE f == [op |-> "exit", pane |-> q]
  <2>1. /\ <<q, k>> \in reaping /\ ClosePanes({q})
        /\ down' = down \/ down' = Written(writer, f)
    BY <1>9 DEF FinishEof
  <2>2. f \in DownFrame /\ f.op = "exit" /\ f.pane = q
    BY ExitIsDown
  <2> HIDE DEF f
  <2>3. down'[cur[s]] = down[cur[s]] \/ down'[cur[s]] = Append(down[cur[s]], f)
    BY <1>t, <1>5, <2>1 DEF Written, TypeOK
  <2>4. CASE down'[cur[s]] = Append(down[cur[s]], f)
    <3>1. /\ down'[cur[s]][Len(down'[cur[s]])] = f
          /\ Len(down'[cur[s]]) = Len(down[cur[s]]) + 1 /\ Len(down[cur[s]]) \in Nat
          /\ \A i \in 1..Len(down[cur[s]]) : down'[cur[s]][i] = down[cur[s]][i]
          /\ \A i \in 1..Len(down'[cur[s]]) : i \in 1..Len(down[cur[s]]) \/ i = Len(down'[cur[s]])
      BY <1>5, <2>2, <2>4, AppendedAt
    <3>2. CASE j \in 1..Len(down[cur[s]])
      BY <1>6, <3>1, <3>2
    <3>3. CASE j = Len(down'[cur[s]])
      <4>1. p = q
        BY <1>5, <2>2, <3>1, <3>3
      <4>2. p \notin Registered'
        BY <2>1, <4>1 DEF ClosePanes, Registered
      <4>3. phase[s] = "listing" => Promised(s, p, Len(down[cur[s]]))
        BY <1>2, <2>1, <4>1 DEF ReapsOK
      <4>4. phase[s] = "listing" => Promised(s, p, j)'
        <5>1. \A i \in 1..j : i \in 1..Len(down[cur[s]]) \/ down'[cur[s]][i] = f
          BY <1>5, <3>1, <3>3
        <5> QED BY <1>3, <2>2, <3>1, <4>3, <5>1 DEF Promised
      <4> QED BY <4>2, <4>4
    <3> QED BY <1>5, <3>1, <3>2, <3>3
  <2> QED BY <1>7, <2>3, <2>4
<1>10. ASSUME NEW q \in PaneIds, ReaderEof(q) PROVE down' = down
  BY <1>10 DEF ReaderEof
<1> QED BY <1>1, <1>5, <1>7, <1>8, <1>9, <1>10 DEF Reaping, Silent

LEMMA HostShown ==
  ASSUME ShownInv, HostStep \/ ShellStep, UNCHANGED srvVars
  PROVE  ShownInv'
<1>t. NumberInv /\ HostInv /\ Down /\ StopSet /\ OnceMade /\ TypeOK
  BY NumberTypes DEF ShownInv, NumberInv
<1>1. NumberInv' /\ OnceMade' /\ StopSet'
  BY <1>t, HostNumbers, HostOnce
<1>2. UNCHANGED <<phase, tabs, cbs, seq, resume>>
  BY DEF srvVars
<1>3. /\ \A p : (Asked(p)' => Asked(p)) /\ (Closing(p)' => Closing(p))
      /\ \A p \in PaneIds : p \in Taken' => p \in Taken \/ Asked(p)
  BY <1>t, HostFacts
<1>4. TreesApart' /\ TabsBelow'
  BY <1>2, <1>3 DEF ShownInv, TreesApart, TabsBelow, Apart, InjTab, Shown
<1>5. ASSUME ~stop' PROVE EndedOver' /\ ReapsOK' /\ ExitsOK' /\ CloseSafe'
  <2>1. ~stop
    BY <1>t, <1>5, HostEnds
  <2>2. \A p : Claimed(p)' => Claimed(p)
    BY <1>2 DEF Claimed, Living, Shown
  <2>3. CloseSafe'
    BY <1>3, <2>1, <2>2 DEF ShownInv, CloseSafe
  <2> QED BY <1>5, <2>3, HostEndedOver, HostReapsOK, HostExitsOK
<1> QED BY <1>1, <1>4, <1>5 DEF ShownInv

-----------------------------------------------------------------------------
(* The servers' steps, as far as ended shells go: a server only reads frames,  *)
(* loses a connection or opens one.                                          *)

LEMMA EndsKept ==
  ASSUME NumberInv, UNCHANGED hostSide, EndedOver, ReapsOK, ExitsOK,
         \A d \in Conns : down'[d] = down[d] \/ down'[d] = <<>>
                         \/ (down[d] # <<>> /\ down'[d] = Tail(down[d])),
         \A t \in Owners : cur'[t] \in {cur[t], 0} \/ (cur'[t] \in Conns /\ down'[cur'[t]] = <<>>),
         \A t \in Owners : phase'[t] = "listing" =>
           (phase[t] = "listing" /\ cur'[t] = cur[t]) \/ (reaping = {} /\ down'[cur'[t]] = <<>>),
         \A p \in PaneIds : Ended(p) /\ Over(p) => Over(p)'
  PROVE  EndedOver' /\ ReapsOK' /\ ExitsOK'
<1>1. UNCHANGED <<reaping, shell, shellOf>>
  BY DEF hostSide, paneVars
<1>2. ASSUME NEW t \in Owners, NEW p \in PaneIds, NEW j, ExitAt(t, j, p)'
      PROVE  /\ cur'[t] = cur[t] /\ cur[t] \in Conns /\ down[cur[t]] \in Seq(DownFrame)
             /\ \/ down'[cur[t]] = down[cur[t]] /\ ExitAt(t, j, p)
                \/ /\ down[cur[t]] # <<>> /\ down'[cur[t]] = Tail(down[cur[t]])
                   /\ ExitAt(t, j + 1, p) /\ j \in Nat
  <2>1. /\ cur'[t] \in Conns /\ j \in 1..Len(down'[cur'[t]])
        /\ down'[cur'[t]][j].op = "exit" /\ down'[cur'[t]][j].pane = p
    BY <1>2 DEF ExitAt
  <2>2. cur'[t] = cur[t] /\ down'[cur[t]] # <<>>
    BY <2>1 DEF Conns
  <2>3. down[cur[t]] \in Seq(DownFrame)
    BY <2>1, <2>2, NumberTypes
  <2>4. CASE down'[cur[t]] = down[cur[t]]
    BY <2>1, <2>2, <2>3, <2>4 DEF ExitAt
  <2>5. CASE down[cur[t]] # <<>> /\ down'[cur[t]] = Tail(down[cur[t]])
    <3>1. j + 1 \in 1..Len(down[cur[t]]) /\ down'[cur[t]][j] = down[cur[t]][j + 1] /\ j \in Nat
      BY <2>1, <2>2, <2>3, <2>5
    <3> QED BY <2>1, <2>2, <2>3, <2>5, <3>1 DEF ExitAt
  <2> QED BY <2>1, <2>2, <2>4, <2>5
<1>3. \A p \in PaneIds : Ended(p)' => Ended(p)
  BY <1>1, <1>2, Zenon DEF Ended
<1>4. EndedOver'
  BY <1>3 DEF EndedOver
\* Promises to a server that is still starting.
<1>5. ASSUME NEW t \in Owners, phase[t] = "listing", cur'[t] = cur[t]
      PROVE  /\ \A p \in PaneIds : Promised(t, p, Len(down[cur[t]])) =>
                                     Promised(t, p, Len(down[cur[t]]))'
             /\ \A p \in PaneIds : \A j \in Nat :
                  down'[cur[t]] = Tail(down[cur[t]]) /\ ExitAt(t, j + 1, p)
                    /\ Promised(t, p, j + 1) => Promised(t, p, j)'
  <2>1. cur[t] \in Conns /\ down[cur[t]] \in Seq(DownFrame)
    BY <1>5, NumberTypes DEF NumberInv, Quiescent
  <2>2. ASSUME down[cur[t]] # <<>>, down'[cur[t]] = Tail(down[cur[t]])
        PROVE  /\ \A i \in 1..Len(down'[cur[t]]) :
                    i + 1 \in 1..Len(down[cur[t]]) /\ down'[cur[t]][i] = down[cur[t]][i + 1]
               /\ Len(down'[cur[t]]) + 1 = Len(down[cur[t]])
    BY <2>1, <2>2
  <2>3. ASSUME NEW p \in PaneIds, Promised(t, p, Len(down[cur[t]]))
        PROVE  Promised(t, p, Len(down[cur[t]]))'
    <3>1. CASE down'[cur[t]] = down[cur[t]]
      BY <1>5, <2>3, <3>1 DEF Promised
    <3>2. CASE down'[cur[t]] = <<>>
      BY <1>5, <3>2 DEF Promised
    <3>3. CASE down[cur[t]] # <<>> /\ down'[cur[t]] = Tail(down[cur[t]])
      BY <1>5, <2>2, <2>3, <3>3 DEF Promised
    <3> QED BY <2>1, <3>1, <3>2, <3>3
  <2>4. ASSUME NEW p \in PaneIds, NEW j \in Nat, down'[cur[t]] = Tail(down[cur[t]]),
               ExitAt(t, j + 1, p), Promised(t, p, j + 1)
        PROVE  Promised(t, p, j)'
    <3>1. j + 1 \in 1..Len(down[cur[t]]) /\ down[cur[t]] # <<>>
      BY <2>1, <2>4 DEF ExitAt
    <3>2. \A i \in 1..j : i + 1 \in 1..(j + 1) /\ down'[cur[t]][i] = down[cur[t]][i + 1]
      BY <2>1, <2>2, <2>4, <3>1
    <3> QED BY <1>5, <2>4, <3>2 DEF Promised
  <2> QED BY <2>3, <2>4
<1>6. ReapsOK'
  <2> SUFFICES ASSUME NEW p \in PaneIds, NEW k \in Shells, <<p, k>> \in reaping
               PROVE  /\ Finished(k)' /\ shellOf[p] \in {0, k}
                      /\ \A t \in Owners : phase'[t] = "listing" =>
                           shellOf[p] = k /\ Promised(t, p, Len(down[cur[t]]))'
    BY <1>1 DEF ReapsOK
  <2>1. /\ Finished(k) /\ shellOf[p] \in {0, k}
        /\ \A t \in Owners : phase[t] = "listing" =>
             shellOf[p] = k /\ Promised(t, p, Len(down[cur[t]]))
    BY DEF ReapsOK
  <2>2. ASSUME NEW t \in Owners, phase'[t] = "listing"
        PROVE  shellOf[p] = k /\ Promised(t, p, Len(down[cur[t]]))'
    <3>1. phase[t] = "listing" /\ cur'[t] = cur[t]
      BY <2>2
    <3> QED BY <1>5, <2>1, <3>1
  <2> QED BY <1>1, <2>1, <2>2 DEF Finished
<1>7. ExitsOK'
  <2> SUFFICES ASSUME NEW t \in Owners, NEW p \in PaneIds, NEW j, ExitAt(t, j, p)'
               PROVE  p \notin Registered /\ (phase'[t] = "listing" => Promised(t, p, j)')
    BY <1>1 DEF ExitsOK, Registered
  <2>1. /\ cur'[t] = cur[t] /\ cur[t] \in Conns
        /\ \/ down'[cur[t]] = down[cur[t]] /\ ExitAt(t, j, p)
           \/ /\ down[cur[t]] # <<>> /\ down'[cur[t]] = Tail(down[cur[t]])
              /\ ExitAt(t, j + 1, p) /\ j \in Nat
    BY <1>2
  <2>2. p \notin Registered
    BY <2>1, Zenon DEF ExitsOK
  <2>3. ASSUME phase'[t] = "listing" PROVE Promised(t, p, j)'
    <3>1. phase[t] = "listing"
      <4>1. down'[cur'[t]] # <<>>
        BY DEF ExitAt
      <4> QED BY <2>3, <4>1
    <3>2. CASE down'[cur[t]] = down[cur[t]] /\ ExitAt(t, j, p)
      <4>1. Promised(t, p, j)
        BY <3>1, <3>2 DEF ExitsOK
      <4> QED BY <2>1, <3>2, <4>1 DEF Promised
    <3>3. CASE /\ down'[cur[t]] = Tail(down[cur[t]])
               /\ ExitAt(t, j + 1, p) /\ j \in Nat
      <4>1. Promised(t, p, j + 1)
        BY <3>1, <3>3 DEF ExitsOK
      <4> QED BY <1>5, <2>1, <3>1, <3>3, <4>1
    <3> QED BY <2>1, <3>2, <3>3
  <2> QED BY <2>2, <2>3
<1> QED BY <1>4, <1>6, <1>7

\* Trees that are nobody's new ones.
LEMMA TreesKept ==
  ASSUME TreesApart,
         \A t \in Owners : tabs'[t] = {} \/ tabs'[t] = tabs[t],
         \A t \in Owners : resume'[t].tabs = resume[t].tabs
                          \/ \E u \in Owners : resume'[t].tabs = tabs[u]
  PROVE  TreesApart'
<1>1. Apart({})
  BY DEF Apart
<1>2. \A t \in Owners : Apart(tabs[t]) /\ Apart(resume[t].tabs)
  BY DEF TreesApart
<1>3. \A t \in Owners : Apart(tabs'[t]) /\ Apart(resume'[t].tabs)
  BY <1>1, <1>2
<1> QED BY <1>3 DEF TreesApart

\* A step that asks for nothing, closes nothing and claims nothing.
LEMMA CalmShown ==
  ASSUME ShownInv, NumberInv', UNCHANGED hostSide, TreesApart',
         \A p \in PaneIds : /\ Asked(p)' => Asked(p)
                            /\ Closing(p)' => Closing(p)
                            /\ Claimed(p)' => Claimed(p),
         \A d \in Conns : down'[d] = down[d] \/ down'[d] = <<>>
                         \/ (down[d] # <<>> /\ down'[d] = Tail(down[d])),
         \A t \in Owners : cur'[t] \in {cur[t], 0} \/ (cur'[t] \in Conns /\ down'[cur'[t]] = <<>>),
         \A t \in Owners : phase'[t] = "listing" =>
           (phase[t] = "listing" /\ cur'[t] = cur[t]) \/ (reaping = {} /\ down'[cur'[t]] = <<>>),
         \A t \in Owners : phase'[t] = "run" =>
           /\ phase[t] = "run" /\ seq'[t] = seq[t] /\ tabs'[t] = tabs[t]
           /\ cbs'[t] \subseteq cbs[t],
         \A t \in Owners : phase'[t] = "listed" =>
           \/ phase[t] = "listed" /\ listed'[t] = listed[t]
           \/ ~stop => \A p \in PaneIds : Ended(p) => p \in listed'[t].panes
  PROVE  ShownInv'
<1>1. UNCHANGED <<stop, hpc, wdpc, spawning, shellOf>>
  BY DEF hostSide, connVars, wdVars, paneVars
<1>2. OnceMade' /\ StopSet'
  BY <1>1 DEF ShownInv, OnceMade, StopSet, Registered
<1>3. TabsBelow'
  BY DEF ShownInv, TabsBelow, Shown
<1>4. ASSUME ~stop PROVE EndedOver' /\ ReapsOK' /\ ExitsOK' /\ CloseSafe'
  <2>1. NumberInv /\ EndedOver /\ ReapsOK /\ ExitsOK /\ CloseSafe
    BY <1>4 DEF ShownInv
  <2>2. \A p \in PaneIds : Ended(p) /\ Over(p) => Over(p)'
    BY <1>1, <1>4 DEF Over
  <2>3. EndedOver' /\ ReapsOK' /\ ExitsOK'
    BY <2>1, <2>2, EndsKept
  <2>4. CloseSafe'
    BY <1>1, <2>1 DEF CloseSafe, Taken, Registered
  <2> QED BY <2>3, <2>4
<1> QED BY <1>1, <1>2, <1>3, <1>4 DEF ShownInv

\* Reading output, or what nobody asked for.
LEMMA ReadShown ==
  ASSUME ShownInv, NumberInv', UNCHANGED <<hostSide, up>>,
         UNCHANGED <<phase, cur, cbs, tabs, seq, listed, resume>>,
         \A d \in Conns : down'[d] = down[d] \/ (down[d] # <<>> /\ down'[d] = Tail(down[d]))
  PROVE  ShownInv'
<1>1. \A p \in PaneIds : (Asked(p)' => Asked(p)) /\ (Closing(p)' => Closing(p))
  BY SilentAsks, Zenon DEF Asked, Closing, ShownInv
<1>2. TreesApart' /\ \A p \in PaneIds : Claimed(p)' => Claimed(p)
  BY TreesKept DEF ShownInv, Claimed, Living, Shown
<1>3. /\ \A t \in Owners : cur'[t] \in {cur[t], 0}
      /\ \A t \in Owners : phase'[t] = "listing" => phase[t] = "listing" /\ cur'[t] = cur[t]
      /\ \A t \in Owners : phase'[t] = "run" =>
           /\ phase[t] = "run" /\ seq'[t] = seq[t] /\ tabs'[t] = tabs[t]
           /\ cbs'[t] \subseteq cbs[t]
      /\ \A t \in Owners : phase'[t] = "listed" => phase[t] = "listed" /\ listed'[t] = listed[t]
  OBVIOUS
<1> QED BY <1>1, <1>2, <1>3, CalmShown

\* The list: whatever has ended is on it, because it was there or its end is still to be
\* read.
LEMMA GotListShown ==
  ASSUME ShownInv, NumberInv', NEW s \in Owners, GotList(s)
  PROVE  ShownInv'
<1>n. NumberInv
  BY DEF ShownInv
<1>1. /\ Got(s, "list_reply") /\ phase[s] = "listing"
      /\ listed' = [listed EXCEPT ![s] = [panes |-> Received(s).panes, prev |-> Received(s).prev]]
      /\ phase' = [phase EXCEPT ![s] = "listed"]
      /\ UNCHANGED <<hostSide, peerVars, up, alive, cur, cbs, tabs, seq, screen, resume>>
  BY DEF GotList
<1>2. /\ \A d \in Conns : down'[d] = down[d] \/ (down[d] # <<>> /\ down'[d] = Tail(down[d]))
      /\ cur[s] \in Conns /\ Received(s) = down[cur[s]][1] /\ 1 \in 1..Len(down[cur[s]])
      /\ Received(s).op = "list_reply"
  BY <1>n, <1>1, GotNumbers
<1>3. /\ phase'[s] = "listed" /\ listed'[s].panes = Received(s).panes
      /\ \A t \in Owners : t # s => phase'[t] = phase[t] /\ phase[t] \in {"none", "gone"}
                                   /\ listed'[t] = listed[t] /\ cur[t] = 0
  <2>1. \A t \in Owners : t # s => phase[t] \in {"none", "gone"}
    BY <1>n, <1>1, Solo
  <2> QED BY <1>n, <1>1, <2>1, NumberTypes DEF NumberInv, Idle
<1>4. ASSUME ~stop, NEW p \in PaneIds, Ended(p) PROVE p \in Received(s).panes
  <2>1. ReapsOK /\ ExitsOK
    BY <1>4 DEF ShownInv
  <2>2. ASSUME NEW k \in Shells, <<p, k>> \in reaping PROVE p \in Received(s).panes
    BY <1>1, <1>2, <2>1, <2>2 DEF ReapsOK, Promised
  <2>3. ASSUME NEW t \in Owners, NEW j, ExitAt(t, j, p) PROVE p \in Received(s).panes
    <3>1. t = s
      BY <1>3, <2>3 DEF ExitAt, Conns
    <3>2. 1 \in 1..j /\ Promised(s, p, j)
      BY <1>1, <2>1, <2>3, <3>1 DEF ExitsOK, ExitAt
    <3> QED BY <1>2, <3>2 DEF Promised
  <2> QED BY <1>4, <2>2, <2>3 DEF Ended
<1>5. \A p \in PaneIds : (Asked(p)' => Asked(p)) /\ (Closing(p)' => Closing(p))
  BY <1>n, <1>1, SilentAsks, Zenon DEF Asked, Closing
<1>6. TreesApart'
  BY <1>1, TreesKept DEF ShownInv
<1>7. \A p \in PaneIds : Claimed(p)' => Claimed(p)
  BY <1>1, <1>3 DEF Claimed, Living, Shown
<1>8. /\ \A t \in Owners : cur'[t] \in {cur[t], 0}
      /\ \A t \in Owners : phase'[t] # "listing" /\ phase'[t] # "run"
      /\ \A t \in Owners : phase'[t] = "listed" =>
           (~stop => \A p \in PaneIds : Ended(p) => p \in listed'[t].panes)
      /\ UNCHANGED hostSide
  BY <1>1, <1>3, <1>4
<1> QED BY <1>2, <1>5, <1>6, <1>7, <1>8, CalmShown

\* A successor is promised what its predecessor showed.
LEMMA PhaseShown ==
  ASSUME ShownInv, NumberInv', NEW s \in Owners,
         OnHostLost(s) \/ Launch(s) \/ \E t \in Owners : Restart(s, t)
  PROVE  ShownInv'
<1>n. NumberInv /\ TreesApart
  BY DEF ShownInv
<1>1. UNCHANGED hostSide /\ UNCHANGED <<up, down>> /\ UNCHANGED <<seq, listed, tabs>>
  BY DEF OnHostLost, Launch, Restart, hostVars, hostSide, peerVars
<1>2. \A p \in PaneIds : (Asked(p)' => Asked(p)) /\ (Closing(p)' => Closing(p))
  BY <1>n, <1>1, SilentAsks, Zenon DEF Asked, Closing
<1>3. /\ TreesApart' /\ \A p \in PaneIds : Claimed(p)' => Claimed(p)
      /\ \A t \in Owners : cur'[t] \in {cur[t], 0}
      /\ \A t \in Owners : phase'[t] \in {"listing", "listed", "run"} =>
           /\ phase'[t] = phase[t] /\ cbs'[t] \subseteq cbs[t]
           /\ phase'[t] = "listing" => cur'[t] = cur[t]
  <2>1. CASE OnHostLost(s)
    <3>1. /\ phase[s] \in {"run", "leaving"} /\ UNCHANGED <<phase, resume>> /\ cur'[s] = 0 /\ cbs'[s] = {}
          /\ \A t \in Owners : t # s => cur'[t] = cur[t] /\ cbs'[t] = cbs[t]
      BY <1>n, <2>1, NumberTypes DEF OnHostLost
    <3>2. TreesApart'
      BY <1>n, <1>1, <3>1, TreesKept
    <3>3. \A p \in PaneIds : Claimed(p)' => Claimed(p)
      BY <1>1, <3>1 DEF Claimed, Living, Shown
    <3> QED BY <3>1, <3>2, <3>3
  <2>2. CASE Launch(s)
    <3>1. /\ phase[s] = "none" /\ phase'[s] = "boot" /\ UNCHANGED <<cur, cbs, resume>>
          /\ \A t \in Owners : t # s => phase'[t] = phase[t]
      BY <1>n, <2>2, NumberTypes DEF Launch
    <3>2. tabs[s] = {} /\ resume[s].tabs = {}
      BY <1>n, <3>1 DEF NumberInv, Idle
    <3>3. \A p \in PaneIds : Claimed(p)' => Claimed(p)
      BY <1>1, <3>1, <3>2 DEF Claimed, Living, Shown, PanesOf
    <3>4. TreesApart'
      BY <1>n, <1>1, <3>1, TreesKept
    <3> QED BY <3>1, <3>3, <3>4
  <2>3. ASSUME NEW t \in Owners, Restart(s, t)
        PROVE  /\ TreesApart' /\ \A p \in PaneIds : Claimed(p)' => Claimed(p)
               /\ UNCHANGED <<cur, cbs>>
               /\ \A u \in Owners : phase'[u] \in {"listing", "listed", "run"} => phase'[u] = phase[u]
    <3>1. /\ phase[s] = "run" /\ phase[t] = "none" /\ s # t
          /\ phase'[s] = "leaving" /\ phase'[t] = "boot" /\ resume'[t].tabs = tabs[s]
          /\ UNCHANGED <<cur, cbs>>
          /\ \A u \in Owners : u # t => resume'[u] = resume[u] /\ (u # s => phase'[u] = phase[u])
      BY <1>n, <2>3, NumberTypes DEF Restart
    <3>2. TreesApart'
      BY <1>n, <1>1, <3>1, TreesKept
    <3>3. tabs[t] = {}
      BY <1>n, <3>1 DEF NumberInv, Idle
    <3>4. \A p \in PaneIds : Claimed(p)' => Claimed(p)
      BY <1>1, <3>1, <3>3 DEF Claimed, Living, Shown, PanesOf
    <3> QED BY <3>1, <3>2, <3>4
  <2> QED BY <2>1, <2>2, <2>3
<1>4. /\ \A t \in Owners : phase'[t] = "listing" => phase[t] = "listing" /\ cur'[t] = cur[t]
      /\ \A t \in Owners : phase'[t] = "run" =>
           /\ phase[t] = "run" /\ seq'[t] = seq[t] /\ tabs'[t] = tabs[t]
           /\ cbs'[t] \subseteq cbs[t]
      /\ \A t \in Owners : phase'[t] = "listed" => phase[t] = "listed" /\ listed'[t] = listed[t]
      /\ \A d \in Conns : down'[d] = down[d]
  BY <1>1, <1>3
<1> QED BY <1>1, <1>2, <1>3, <1>4, CalmShown

LEMMA OpenShown ==
  ASSUME Prompt, ShownInv, NumberInv', NEW s \in Owners, NEW c \in Conns,
         Connect(s, c) \/ Reconnect(s, c)
  PROVE  ShownInv'
<1>n. NumberInv /\ TreesApart
  BY DEF ShownInv
<1>1. PICK fs \in {<<OwnerCtl(s), Ctl("list")>>, <<OwnerCtl(s)>>} : Open(s, c, fs)
  BY DEF Connect, Reconnect
<1>2. /\ cur' = [cur EXCEPT ![s] = c]
      /\ UNCHANGED <<hostSide, down, tabs, cbs, seq, listed, resume>>
      /\ \/ phase[s] = "boot" /\ HostCaughtUp /\ phase' = [phase EXCEPT ![s] = "listing"]
         \/ phase' = phase /\ phase[s] \in {"run", "leaving"}
  BY DEF Connect, Reconnect
<1>3. /\ fs \in Seq(UpFrame)
      /\ \A p \in PaneIds : \A i \in 1..Len(fs) : fs[i] # PaneCtl("spawn", p)
      /\ \A p \in PaneIds : \A i \in 1..Len(fs) : fs[i] # PaneCtl("close", p)
  BY GreetingAsks
<1>4. up' = [up EXCEPT ![c] = up[c] \o fs] /\ down[c] = <<>>
  BY <1>n, <1>1, <1>3, OpenIs
<1>5. \A p \in PaneIds : (Asked(p)' => Asked(p)) /\ (Closing(p)' => Closing(p))
  BY <1>n, <1>2, <1>3, <1>4, WrittenAsks
<1>6. /\ cur'[s] = c /\ \A t \in Owners : t # s => cur'[t] = cur[t] /\ phase'[t] = phase[t]
  BY <1>n, <1>2, NumberTypes
<1>7. TreesApart'
  BY <1>n, <1>2, TreesKept
<1>8. phase'[s] # phase[s] => phase[s] = "boot" /\ phase'[s] = "listing" /\ reaping = {}
  BY <1>n, <1>2, NumberTypes DEF HostCaughtUp, Prompt
<1>9. \A p \in PaneIds : Claimed(p)' => Claimed(p)
  BY <1>2, <1>6, <1>8 DEF Claimed, Living, Shown
<1>10. phase[s] # "listing"
  BY <1>2
<1>11. /\ \A t \in Owners : cur'[t] \in {cur[t], 0} \/ (cur'[t] \in Conns /\ down'[cur'[t]] = <<>>)
       /\ \A t \in Owners : phase'[t] = "listing" =>
            (phase[t] = "listing" /\ cur'[t] = cur[t]) \/ (reaping = {} /\ down'[cur'[t]] = <<>>)
       /\ \A t \in Owners : phase'[t] = "run" =>
           /\ phase[t] = "run" /\ seq'[t] = seq[t] /\ tabs'[t] = tabs[t]
           /\ cbs'[t] \subseteq cbs[t]
       /\ \A t \in Owners : phase'[t] = "listed" => phase[t] = "listed" /\ listed'[t] = listed[t]
       /\ \A d \in Conns : down'[d] = down[d]
       /\ UNCHANGED hostSide
  BY <1>2, <1>4, <1>6, <1>8, <1>10
<1> QED BY <1>5, <1>7, <1>9, <1>11, CalmShown

\* What a process leaves behind claims nothing.
LEMMA ForgetShown ==
  ASSUME ShownInv, NumberInv', NEW s \in Owners, Forget(s), UNCHANGED hostSide,
         \A p \in PaneIds : (Asked(p)' => Asked(p)) /\ (Closing(p)' => Closing(p)),
         \A d \in Conns : down'[d] = down[d] \/ down'[d] = <<>>
  PROVE  ShownInv'
<1>n. NumberInv /\ TreesApart
  BY DEF ShownInv
<1>1. /\ phase'[s] = "gone" /\ cur'[s] = 0 /\ cbs'[s] = {} /\ tabs'[s] = {}
      /\ \A t \in Owners : t # s =>
           /\ phase'[t] = phase[t] /\ cur'[t] = cur[t] /\ cbs'[t] = cbs[t]
           /\ tabs'[t] = tabs[t] /\ listed'[t] = listed[t]
      /\ UNCHANGED <<seq, resume>>
  BY <1>n, NumberTypes DEF Forget
<1>2. TreesApart'
  BY <1>n, <1>1, TreesKept
<1>3. \A p \in PaneIds : Claimed(p)' => Claimed(p)
  BY <1>1 DEF Claimed, Living, Shown
<1>4. /\ \A t \in Owners : cur'[t] \in {cur[t], 0}
      /\ \A t \in Owners : phase'[t] = "listing" => phase[t] = "listing" /\ cur'[t] = cur[t]
      /\ \A t \in Owners : phase'[t] = "run" =>
           /\ phase[t] = "run" /\ seq'[t] = seq[t] /\ tabs'[t] = tabs[t]
           /\ cbs'[t] \subseteq cbs[t]
      /\ \A t \in Owners : phase'[t] = "listed" => phase[t] = "listed" /\ listed'[t] = listed[t]
  BY <1>1
<1> QED BY <1>2, <1>3, <1>4, CalmShown

LEMMA GoneShown ==
  ASSUME ShownInv, NumberInv', NEW s \in Owners,
         (OwnerDies(s) /\ Forget(s)) \/ \E c \in Conns : EndServer(s, c)
  PROVE  ShownInv'
<1>n. NumberInv
  BY DEF ShownInv
<1>1. CASE OwnerDies(s) /\ Forget(s)
  <2>1. UNCHANGED hostSide /\ up' = up
    BY <1>1, Zenon DEF OwnerDies, hostSide
  <2>2. \A p \in PaneIds : (Asked(p)' => Asked(p)) /\ (Closing(p)' => Closing(p))
    BY <1>n, <2>1, SilentAsks, Zenon DEF Asked, Closing
  <2>3. \A d \in Conns : down'[d] = down[d] \/ down'[d] = <<>>
    BY <1>1, Zenon DEF OwnerDies
  <2> QED BY <1>1, <2>1, <2>2, <2>3, ForgetShown
<1>2. ASSUME NEW c \in Conns, EndServer(s, c) PROVE ShownInv'
  <2> DEFINE fs == <<Ctl("probe"), Ctl("shutdown")>>
  <2>1. /\ popen[c] = "none" /\ UNCHANGED hostSide /\ Forget(s)
        /\ up' = [up EXCEPT ![c] = fs]
        /\ down' = [d \in Conns |-> IF d = cur[s] THEN <<>> ELSE down[d]]
    BY <1>2 DEF EndServer, FreshConn
  <2>2. /\ fs \in Seq(UpFrame)
        /\ \A p \in PaneIds : \A i \in 1..Len(fs) : fs[i] # PaneCtl("spawn", p)
        /\ \A p \in PaneIds : \A i \in 1..Len(fs) : fs[i] # PaneCtl("close", p)
    BY GreetingAsks
  <2> HIDE DEF fs
  <2>3. up[c] \o fs = fs
    <3>1. up[c] = <<>>
      BY <1>n, <2>1 DEF NumberInv, Unopened
    <3> QED BY <2>2, <3>1
  <2>4. up' = [up EXCEPT ![c] = up[c] \o fs]
    BY <2>1, <2>3
  <2>5. \A p \in PaneIds : (Asked(p)' => Asked(p)) /\ (Closing(p)' => Closing(p))
    BY <1>n, <2>1, <2>2, <2>4, WrittenAsks
  <2>6. \A d \in Conns : down'[d] = down[d] \/ down'[d] = <<>>
    BY <2>1
  <2> QED BY <2>1, <2>5, <2>6, ForgetShown
<1> QED BY <1>1, <1>2

\* A tree without one of its panes.
LEMMA WithoutIs ==
  ASSUME NEW ts, ts \subseteq Tab, Apart(ts), NEW p
  PROVE  /\ Apart(Without(ts, p))
         /\ PanesOf(Without(ts, p)) \subseteq PanesOf(ts) /\ p \notin PanesOf(Without(ts, p))
<1>1. ASSUME NEW r \in Without(ts, p)
      PROVE  \E t \in ts : /\ r = Removed(t, p) /\ InjTab(r)
                           /\ PanesOf({r}) \subseteq PanesOf({t}) /\ p \notin PanesOf({r})
  <2>1. PICK t \in ts : r = Removed(t, p)
    BY DEF Without
  <2>2. t \in Seq(PaneIds) /\ InjTab(t)
    BY DEF Tab, Apart
  <2>3. LET v == Removed(t, p)
        IN  /\ InjTab(v) /\ \A j \in 1..Len(v) : v[j] # p
            /\ \A j \in 1..Len(v) : \E i \in 1..Len(t) : v[j] = t[i]
    BY <2>2, RemovedKeeps
  <2>4. PanesOf({r}) = {r[j] : j \in 1..Len(r)} /\ PanesOf({t}) = {t[j] : j \in 1..Len(t)}
    BY DEF PanesOf
  <2> QED BY <2>1, <2>3, <2>4
<1>2. \A us : \A x : x \in PanesOf(us) <=> \E u \in us : x \in PanesOf({u})
  BY DEF PanesOf
<1>3. ASSUME NEW q \in Without(ts, p), NEW r \in Without(ts, p), q # r
      PROVE  PanesOf({q}) \cap PanesOf({r}) = {}
  <2>1. PICK t \in ts : q = Removed(t, p) /\ PanesOf({q}) \subseteq PanesOf({t})
    BY <1>1
  <2>2. PICK u \in ts : r = Removed(u, p) /\ PanesOf({r}) \subseteq PanesOf({u})
    BY <1>1
  <2>3. t # u
    BY <1>3, <2>1, <2>2
  <2>4. PanesOf({t}) \cap PanesOf({u}) = {}
    BY <2>3 DEF Apart
  <2> QED BY <2>1, <2>2, <2>4
<1>4. Apart(Without(ts, p))
  BY <1>1, <1>3 DEF Apart
<1>5. ASSUME NEW x \in PanesOf(Without(ts, p)) PROVE x \in PanesOf(ts) /\ x # p
  <2>1. PICK r \in Without(ts, p) : x \in PanesOf({r})
    BY <1>2
  <2>2. PICK t \in ts : PanesOf({r}) \subseteq PanesOf({t}) /\ p \notin PanesOf({r})
    BY <1>1, <2>1
  <2>3. x \in PanesOf(ts)
    BY <1>2, <2>1, <2>2
  <2> QED BY <2>1, <2>2, <2>3
<1> QED BY <1>4, <1>5

LEMMA DropAsks ==
  ASSUME NumberInv, NEW s \in Owners, NEW p \in PaneIds, UNCHANGED hostSide,
         up' = up \/ (p \in cbs[s] /\ Send(s, <<PaneCtl("close", p)>>))
  PROVE  \A q \in PaneIds : /\ Asked(q)' => Asked(q)
                            /\ Closing(q)' => Closing(q) \/ (q = p /\ p \in cbs[s])
<1>1. CASE up' = up
  BY <1>1, SilentAsks, Zenon DEF Asked, Closing
<1>2. CASE up' # up
  <2> DEFINE c == cur[s]
             fs == <<PaneCtl("close", p)>>
  <2>1. c \in Conns /\ up' = [up EXCEPT ![c] = up[c] \o fs] /\ p \in cbs[s]
    BY <1>2, SendIs
  <2>2. fs \in Seq(UpFrame)
    <3>1. PaneCtl("close", p) \in UpFrame
      BY FramesOfServers DEF PaneOps
    <3> QED BY <3>1
  <2>3. \A q \in PaneIds : \A i \in 1..Len(fs) :
          fs[i] # PaneCtl("spawn", q) /\ (fs[i] = PaneCtl("close", q) => q = p)
    BY DEF PaneCtl
  <2> HIDE DEF c, fs
  <2>4. /\ \A q \in PaneIds : Asked(q)' => Asked(q)
        /\ \A q \in PaneIds : Closing(q)' =>
             Closing(q) \/ \E i \in 1..Len(fs) : fs[i] = PaneCtl("close", q)
    BY <2>1, <2>2, <2>3, WrittenAsks
  <2> QED BY <2>1, <2>3, <2>4
<1> QED BY <1>1, <1>2

\* A pane goes out of a tree and its shell is closed: nobody else has it then.
LEMMA DropShown ==
  ASSUME ShownInv, NumberInv', NEW s \in Owners, NEW p \in PaneIds, DropPane(s, p),
         phase[s] \in {"run", "leaving", "ending"},
         UNCHANGED <<hostSide, peerVars, alive, cur, seq, listed, resume>>,
         \A d \in Conns : down'[d] = down[d] \/ (down[d] # <<>> /\ down'[d] = Tail(down[d])),
         ~stop /\ phase[s] # "run" => p \notin Taken /\ ~Asked(p)
  PROVE  ShownInv'
<1>n. NumberInv /\ TreesApart
  BY DEF ShownInv
<1>1. /\ cbs' = [cbs EXCEPT ![s] = cbs[s] \ {p}]
      /\ tabs' = [tabs EXCEPT ![s] = Without(tabs[s], p)]
      /\ phase' = phase \/ (phase[s] = "run" /\ phase' = [phase EXCEPT ![s] = "ending"])
      /\ up' = up \/ (p \in cbs[s] /\ Send(s, <<PaneCtl("close", p)>>))
  BY DEF DropPane
<1>2. /\ phase'[s] \in {phase[s], "ending"} /\ (phase'[s] = "ending" => phase[s] \in {"run", "ending"})
      /\ cbs'[s] = cbs[s] \ {p} /\ tabs'[s] = Without(tabs[s], p) /\ tabs[s] \subseteq Tab
      /\ \A t \in Owners : t # s => phase'[t] = phase[t] /\ cbs'[t] = cbs[t] /\ tabs'[t] = tabs[t]
  BY <1>n, <1>1, NumberTypes
<1>3. UNCHANGED <<stop, hpc, wdpc, spawning, shellOf>>
  BY DEF hostSide, connVars, wdVars, paneVars
<1>4. \A q \in PaneIds : /\ Asked(q)' => Asked(q)
                         /\ Closing(q)' => Closing(q) \/ (q = p /\ p \in cbs[s])
  BY <1>n, <1>1, DropAsks
<1>5. Apart(tabs[s]) /\ \A t \in Owners : Apart(tabs[t]) /\ Apart(resume[t].tabs)
  BY <1>n DEF TreesApart
<1>6. Apart(tabs'[s]) /\ PanesOf(tabs'[s]) \subseteq PanesOf(tabs[s]) /\ p \notin PanesOf(tabs'[s])
  BY <1>2, <1>5, WithoutIs
<1>7. TreesApart'
  <2>1. \A t \in Owners : Apart(tabs'[t]) /\ Apart(resume'[t].tabs)
    BY <1>2, <1>5, <1>6
  <2> QED BY <2>1 DEF TreesApart
<1>8. \A q \in PaneIds : Claimed(q)' => Claimed(q)
  BY <1>2, <1>6 DEF Claimed, Living, Shown
<1>9. phase[s] = "run" => ~Claimed(p)'
  <2> SUFFICES ASSUME phase[s] = "run" PROVE ~Claimed(p)'
    OBVIOUS
  <2>1. \A t \in Owners : t # s => phase[t] \in {"none", "gone"}
    BY <1>n, Solo
  <2>2. resume[s].tabs = {}
    BY <1>n DEF NumberInv, Idle
  <2>3. p \notin PanesOf(resume[s].tabs)
    BY <2>2 DEF PanesOf
  <2>4. \A t \in Owners : Living(t)' => t = s
    BY <1>2, <2>1 DEF Living
  <2>5. p \notin PanesOf(tabs'[s]) \cup PanesOf(resume'[s].tabs)
    BY <1>6, <2>3
  <2> QED BY <2>4, <2>5 DEF Claimed, Shown
<1>10. OnceMade' /\ StopSet'
  BY <1>3 DEF ShownInv, OnceMade, StopSet, Registered
<1>11. TabsBelow'
  <2> SUFFICES ASSUME NEW t \in Owners, phase'[t] = "run", NEW q \in PaneIds,
                      q \in PanesOf(tabs'[t]) \cup cbs'[t] \/ Closing(q)'
               PROVE  q <= seq[t]
    BY DEF TabsBelow, Shown
  <2>1. t = s /\ phase[s] = "run"
    BY <1>n, <1>2, Solo
  <2> QED BY <1>2, <1>4, <1>6, <2>1 DEF ShownInv, TabsBelow, Shown
<1>12. ASSUME ~stop PROVE EndedOver' /\ ReapsOK' /\ ExitsOK' /\ CloseSafe'
  <2>1. EndedOver /\ ReapsOK /\ ExitsOK /\ CloseSafe
    BY <1>12 DEF ShownInv
  <2>2. \A t \in Owners : phase'[t] # phase[t] => phase'[t] = "ending"
    BY <1>2
  <2>3. \A q \in PaneIds : Ended(q) /\ Over(q) => Over(q)'
    BY <1>3, <1>4, <2>2 DEF Over
  <2>4. EndedOver' /\ ReapsOK' /\ ExitsOK'
    <3>1. /\ \A t \in Owners : cur'[t] \in {cur[t], 0}
          /\ \A t \in Owners : phase'[t] = "listing" => phase[t] = "listing" /\ cur'[t] = cur[t]
      BY <2>2
    <3> QED BY <1>n, <2>1, <2>3, <3>1, EndsKept
  <2>5. CloseSafe'
    <3> SUFFICES ASSUME NEW q \in PaneIds, Closing(q)', Claimed(q)' PROVE q \notin Taken /\ ~Asked(q)'
      BY <1>3 DEF CloseSafe, Taken, Registered
    <3> QED BY <1>4, <1>8, <1>9, <1>12, <2>1 DEF CloseSafe
  <2> QED BY <2>4, <2>5
<1> QED BY <1>3, <1>7, <1>10, <1>11, <1>12 DEF ShownInv

LEMMA ExitShown ==
  ASSUME ShownInv, NumberInv', NEW s \in Owners, OnExit(s)
  PROVE  ShownInv'
<1>n. NumberInv
  BY DEF ShownInv
<1>1. /\ Got(s, "exit") /\ Received(s).pane \in cbs[s] /\ DropPane(s, Received(s).pane)
      /\ UNCHANGED <<hostSide, peerVars, alive, cur, seq, listed, resume>>
  BY DEF OnExit
<1>2. /\ \A d \in Conns : down'[d] = down[d] \/ (down[d] # <<>> /\ down'[d] = Tail(down[d]))
      /\ cur[s] \in Conns /\ Received(s) = down[cur[s]][1] /\ 1 \in 1..Len(down[cur[s]])
      /\ Received(s).op = "exit"
  BY <1>n, <1>1, GotNumbers
<1>3. PICK p \in PaneIds : p = Received(s).pane
  BY <1>n, <1>1, NumberTypes
<1>4. DropPane(s, p) /\ ExitAt(s, 1, p)
  BY <1>1, <1>2, <1>3 DEF ExitAt
<1>5. phase[s] \in {"run", "leaving", "ending"}
  BY <1>n, <1>1 DEF Got, Busy, NumberInv, Idle
<1>6. ~stop /\ phase[s] # "run" => p \notin Taken /\ ~Asked(p)
  <2> SUFFICES ASSUME ~stop PROVE p \notin Taken /\ ~Asked(p)
    OBVIOUS
  <2>1. Ended(p) /\ p \notin Registered
    BY <1>4 DEF ShownInv, ExitsOK, Ended
  <2> QED BY <2>1 DEF ShownInv, EndedOver, Over, Taken
<1> QED BY <1>1, <1>2, <1>4, <1>5, <1>6, DropShown

LEMMA KillShown ==
  ASSUME ShownInv, NumberInv', NEW s \in Owners, NEW p \in PaneIds, KillPane(s, p)
  PROVE  ShownInv'
<1>1. /\ phase[s] = "run" /\ DropPane(s, p)
      /\ UNCHANGED <<hostSide, peerVars, alive, cur, seq, listed, resume>>
  BY DEF KillPane
<1>2. \A d \in Conns : down'[d] = down[d]
  BY DEF KillPane
<1> QED BY <1>1, <1>2, DropShown

\* A step of a running server that asks for panes or closes some.
LEMMA AskingShown ==
  ASSUME ShownInv, NumberInv', UNCHANGED <<hostSide, down, cur>>, TreesApart', TabsBelow',
         \A t \in Owners : phase'[t] = "listing" => phase[t] = "listing",
         \A p \in PaneIds : Over(p) => Over(p)', ~stop => CloseSafe'
  PROVE  ShownInv'
<1>1. UNCHANGED <<stop, hpc, wdpc, spawning, shellOf>>
  BY DEF hostSide, connVars, wdVars, paneVars
<1>2. OnceMade' /\ StopSet'
  BY <1>1 DEF ShownInv, OnceMade, StopSet, Registered
<1>3. ASSUME ~stop PROVE EndedOver' /\ ReapsOK' /\ ExitsOK'
  <2>1. NumberInv /\ EndedOver /\ ReapsOK /\ ExitsOK
    BY <1>3 DEF ShownInv
  <2>2. /\ \A d \in Conns : down'[d] = down[d]
        /\ \A t \in Owners : cur'[t] \in {cur[t], 0}
        /\ \A t \in Owners : phase'[t] = "listing" => phase[t] = "listing" /\ cur'[t] = cur[t]
        /\ UNCHANGED hostSide
    OBVIOUS
  <2> QED BY <2>1, <2>2, EndsKept
<1> QED BY <1>1, <1>2, <1>3 DEF ShownInv

\* Tabs of a tree, with one that has panes of its own.
LEMMA AnotherTab ==
  ASSUME NEW ts, Apart(ts), NEW x, InjTab(x), PanesOf({x}) \cap PanesOf(ts) = {}
  PROVE  Apart(ts \cup {x}) /\ PanesOf(ts \cup {x}) = PanesOf(ts) \cup PanesOf({x})
<1>1. \A t \in ts : PanesOf({t}) \subseteq PanesOf(ts)
  BY DEF PanesOf
<1>2. PanesOf(ts \cup {x}) = PanesOf(ts) \cup PanesOf({x})
  BY DEF PanesOf
<1>3. ASSUME NEW t \in ts \cup {x}, NEW u \in ts \cup {x}, t # u
      PROVE  PanesOf({t}) \cap PanesOf({u}) = {}
  <2>1. CASE t \in ts /\ u \in ts
    BY <1>3, <2>1 DEF Apart
  <2>2. CASE t = x /\ u \in ts
    BY <1>1, <2>2
  <2>3. CASE t \in ts /\ u = x
    BY <1>1, <2>3
  <2> QED BY <1>3, <2>1, <2>2, <2>3
<1>4. \A t \in ts \cup {x} : InjTab(t)
  BY DEF Apart
<1> QED BY <1>2, <1>3, <1>4 DEF Apart

\* A new pane, in a tab of its own or behind the others of its tab.
LEMMA GrownIs ==
  ASSUME NEW ts, ts \subseteq Tab, Apart(ts), NEW p \in PaneIds, p \notin PanesOf(ts)
  PROVE  /\ Apart(ts \cup {<<p>>}) /\ PanesOf(ts \cup {<<p>>}) = PanesOf(ts) \cup {p}
         /\ \A t \in ts : LET us == (ts \ {t}) \cup {Append(t, p)}
                          IN  Apart(us) /\ PanesOf(us) \subseteq PanesOf(ts) \cup {p}
<1>1. InjTab(<<p>>) /\ PanesOf({<<p>>}) = {p}
  BY DEF InjTab, PanesOf
<1>2. ASSUME NEW t \in ts, NEW us, us = (ts \ {t}) \cup {Append(t, p)}
      PROVE  Apart(us) /\ PanesOf(us) \subseteq PanesOf(ts) \cup {p}
  <2> DEFINE x == Append(t, p)
             vs == ts \ {t}
  <2>1. t \in Seq(PaneIds) /\ InjTab(t) /\ \A i \in 1..Len(t) : t[i] # p
    BY DEF Tab, Apart, PanesOf
  <2>2. /\ Len(x) = Len(t) + 1 /\ Len(t) \in Nat /\ x[Len(x)] = p
        /\ \A i \in 1..Len(t) : x[i] = t[i]
    BY <2>1
  <2> HIDE DEF x
  <2>3. InjTab(x)
    BY <2>1, <2>2 DEF InjTab
  <2>4. PanesOf({x}) \subseteq PanesOf({t}) \cup {p}
    <3>1. PanesOf({x}) = {x[i] : i \in 1..Len(x)} /\ PanesOf({t}) = {t[i] : i \in 1..Len(t)}
      BY DEF PanesOf
    <3>2. \A i \in 1..Len(x) : i \in 1..Len(t) \/ i = Len(x)
      BY <2>2
    <3> QED BY <2>2, <3>1, <3>2
  <2>5. PanesOf({t}) \cap PanesOf(vs) = {}
    <3>1. \A u \in vs : PanesOf({t}) \cap PanesOf({u}) = {}
      BY DEF Apart
    <3> HIDE DEF vs, x
    <3>2. \A y : y \in PanesOf(vs) => \E u \in vs : y \in PanesOf({u})
      BY DEF PanesOf
    <3> QED BY <3>1, <3>2
  <2>6. Apart(vs) /\ PanesOf(vs) \subseteq PanesOf(ts) /\ PanesOf({t}) \subseteq PanesOf(ts)
    <3>1. Apart(vs)
      BY DEF Apart
    <3>2. vs \subseteq ts /\ {t} \subseteq ts
      OBVIOUS
    <3> HIDE DEF vs
    <3>3. PanesOf(vs) \subseteq PanesOf(ts) /\ PanesOf({t}) \subseteq PanesOf(ts)
      BY <3>2 DEF PanesOf
    <3> QED BY <3>1, <3>3
  <2>7. PanesOf({x}) \cap PanesOf(vs) = {}
    BY <2>4, <2>5, <2>6
  <2> HIDE DEF vs
  <2>8. Apart(vs \cup {x}) /\ PanesOf(vs \cup {x}) = PanesOf(vs) \cup PanesOf({x})
    BY <2>3, <2>6, <2>7, AnotherTab
  <2>9. us = vs \cup {x}
    BY <1>2 DEF vs, x
  <2> QED BY <2>4, <2>6, <2>8, <2>9
<1>3. Apart(ts \cup {<<p>>}) /\ PanesOf(ts \cup {<<p>>}) = PanesOf(ts) \cup {p}
  <2>1. PanesOf({<<p>>}) \cap PanesOf(ts) = {}
    BY <1>1
  <2>2. Apart(ts \cup {<<p>>}) /\ PanesOf(ts \cup {<<p>>}) = PanesOf(ts) \cup PanesOf({<<p>>})
    BY <1>1, <2>1, AnotherTab
  <2> QED BY <1>1, <2>2
<1> QED BY <1>2, <1>3

\* A pane that is asked for is beyond all that are over.
LEMMA SpawnAsks ==
  ASSUME NumberInv, NEW s \in Owners, NEW ts, SpawnPane(s, ts)
  PROVE  /\ \A q \in PaneIds : /\ Asked(q)' => Asked(q) \/ q = NextPaneId(s)
                               /\ Closing(q)' => Closing(q)
         /\ \A q \in PaneIds : Over(q) => Over(q)'
<1> DEFINE p == NextPaneId(s)
           fs == <<PaneCtl("spawn", p)>>
<1>1. /\ phase[s] = "run" /\ p \in PaneIds /\ p = seq[s] + 1
      /\ seq' = [seq EXCEPT ![s] = p] /\ Send(s, fs)
      /\ UNCHANGED <<hostSide, phase, cur, listed>>
  BY DEF SpawnPane, NextPaneId
<1>2. fs \in Seq(UpFrame) /\ Len(fs) = 1 /\ fs[1] = PaneCtl("spawn", p)
  <2>1. PaneCtl("spawn", p) \in UpFrame
    BY <1>1, FramesOfServers DEF PaneOps
  <2> QED BY <2>1
<1> HIDE DEF p, fs
<1>3. \A q \in PaneIds : (Asked(q)' => Asked(q) \/ q = p) /\ (Closing(q)' => Closing(q))
  <2>1. CASE up' = up
    BY <1>1, <2>1, SilentAsks, Zenon DEF Asked, Closing
  <2>2. CASE up' # up
    <3> DEFINE c == cur[s]
    <3>1. c \in Conns /\ up' = [up EXCEPT ![c] = up[c] \o fs]
      BY <1>1, <2>2, SendIs
    <3>2. hpc' = hpc /\ up \in [Conns -> Seq(UpFrame)]
      BY <1>1, NumberTypes DEF hostSide, connVars
    <3> HIDE DEF c
    <3>3. \A op, q : Waiting(op, q)' =>
             Waiting(op, q) \/ \E i \in 1..Len(fs) : fs[i] = PaneCtl(op, q)
      BY <1>2, <3>1, <3>2, WritingKeeps
    <3>4. \A q : \A i \in 1..Len(fs) : /\ fs[i] = PaneCtl("spawn", q) => q = p
                                       /\ fs[i] # PaneCtl("close", q)
      BY <1>2 DEF PaneCtl
    <3> QED BY <3>3, <3>4, Zenon DEF Asked, Closing
  <2> QED BY <2>1, <2>2
<1>4. ASSUME NEW q \in PaneIds, Over(q) PROVE Over(q)'
  <2>1. spawning' = spawning
    BY <1>1 DEF hostSide
  <2>2. q <= seq[s] /\ q \in Nat /\ seq[s] \in Nat
    BY <1>1, <1>4, NumberTypes DEF Over, PaneIds
  <2>3. ~Asked(q)'
    BY <1>1, <1>3, <1>4, <2>2 DEF Over
  <2>4. \A t \in Owners : phase'[t] = "run" => q <= seq'[t]
    BY <1>1, <1>4, <2>2, NumberTypes DEF Over
  <2> QED BY <1>1, <1>4, <2>1, <2>3, <2>4 DEF Over
<1> QED BY <1>3, <1>4 DEF p

LEMMA SpawnShown ==
  ASSUME ShownInv, NumberInv', NEW s \in Owners, NEW ts, SpawnPane(s, ts), Apart(ts),
         PanesOf(ts) \subseteq Shown(s) \cup {NextPaneId(s)}
  PROVE  ShownInv'
<1> DEFINE p == NextPaneId(s)
<1>n. NumberInv /\ TreesApart
  BY DEF ShownInv
<1>1. /\ phase[s] = "run" /\ p \in PaneIds /\ p = seq[s] + 1
      /\ seq' = [seq EXCEPT ![s] = p] /\ cbs' = [cbs EXCEPT ![s] = cbs[s] \cup {p}]
      /\ tabs' = [tabs EXCEPT ![s] = ts]
      /\ UNCHANGED <<hostSide, peerVars, down, alive, phase, cur, listed, screen, resume>>
  BY DEF SpawnPane, NextPaneId
<1>3. PanesOf(ts) \subseteq Shown(s) \cup {p}
  OBVIOUS
<1> HIDE DEF p
<1>4. /\ seq'[s] = p /\ cbs'[s] = cbs[s] \cup {p} /\ tabs'[s] = ts
      /\ seq[s] \in Nat /\ p \in Nat /\ p = seq[s] + 1 /\ UNCHANGED <<phase, resume, cur, listed>>
      /\ \A t \in Owners : t # s => /\ seq'[t] = seq[t] /\ cbs'[t] = cbs[t]
                                    /\ tabs'[t] = tabs[t]
  BY <1>n, <1>1, NumberTypes DEF PaneIds
<1>5. /\ \A q \in PaneIds : (Asked(q)' => Asked(q) \/ q = p) /\ (Closing(q)' => Closing(q))
      /\ \A q \in PaneIds : Over(q) => Over(q)'
  BY <1>n, SpawnAsks DEF p
<1>6. \A q \in PaneIds : q \in Shown(s) \cup cbs[s] \/ Closing(q) => q <= seq[s]
  BY <1>1 DEF ShownInv, TabsBelow
<1>7. TreesApart'
  <2>1. \A t \in Owners : Apart(tabs[t]) /\ Apart(resume[t].tabs)
    BY <1>n DEF TreesApart
  <2>2. \A t \in Owners : Apart(tabs'[t]) /\ Apart(resume'[t].tabs)
    BY <1>4, <2>1
  <2> QED BY <2>2 DEF TreesApart
<1>8. TabsBelow'
  <2> SUFFICES ASSUME NEW t \in Owners, phase'[t] = "run", NEW q \in PaneIds,
                      q \in PanesOf(tabs'[t]) \cup cbs'[t] \/ Closing(q)'
               PROVE  q <= seq'[t]
    BY DEF TabsBelow, Shown
  <2>1. t = s
    BY <1>n, <1>1, <1>4, Solo
  <2>2. q <= seq[s] \/ q = p
    BY <1>3, <1>4, <1>5, <1>6, <2>1
  <2> QED BY <1>4, <2>1, <2>2 DEF PaneIds
<1>10. ASSUME ~stop PROVE CloseSafe'
  <2> SUFFICES ASSUME NEW q \in PaneIds, Closing(q)', Claimed(q)' PROVE q \notin Taken' /\ ~Asked(q)'
    BY DEF CloseSafe
  <2>1. Closing(q) /\ q # p
    BY <1>4, <1>5, <1>6 DEF PaneIds
  <2>2. Claimed(q)
    BY <1>3, <1>4, <2>1 DEF Claimed, Living, Shown
  <2>3. q \notin Taken /\ ~Asked(q)
    BY <1>10, <2>1, <2>2 DEF ShownInv, CloseSafe
  <2>4. Taken' = Taken
    BY <1>1 DEF Taken, Registered, hostSide, paneVars
  <2> QED BY <1>5, <2>1, <2>3, <2>4
<1>11. UNCHANGED <<hostSide, down, cur>> /\ \A t \in Owners : phase'[t] = "listing" => phase[t] = "listing"
  BY <1>1
<1> QED BY <1>5, <1>7, <1>8, <1>10, <1>11, AskingShown

\* Nothing but frames op for panes of S.
Says(fs, op, S) == fs \in Seq(UpFrame) /\ \A i \in 1..Len(fs) : \E p \in S : fs[i] = PaneCtl(op, p)
LEMMA ThreeSay ==
  ASSUME NEW a, NEW b, NEW c, NEW S, NEW T, NEW U,
         Says(a, "close", S), Says(b, "spawn", T), Says(c, "close", U)
  PROVE  /\ InRow(a, b, c) \in Seq(UpFrame)
         /\ \A i \in 1..Len(InRow(a, b, c)) : \A p :
              /\ InRow(a, b, c)[i] = PaneCtl("spawn", p) => p \in T
              /\ InRow(a, b, c)[i] = PaneCtl("close", p) => p \in S \/ p \in U
<1> DEFINE fs == InRow(a, b, c)
<1>1. /\ fs \in Seq(UpFrame)
      /\ \A i \in 1..Len(fs) :
           \/ \E j \in 1..Len(a) : fs[i] = a[j]
           \/ \E j \in 1..Len(b) : fs[i] = b[j] /\ i = Len(a) + j
           \/ \E j \in 1..Len(c) : fs[i] = c[j]
  <2>1. a \in Seq(UpFrame) /\ b \in Seq(UpFrame) /\ c \in Seq(UpFrame)
    BY DEF Says
  <2> QED BY <2>1, ThreeIn, ZenonT(60)
<1> HIDE DEF fs
<1>2. \A p, q : /\ PaneCtl("spawn", p) # PaneCtl("close", q)
                /\ PaneCtl("spawn", p) = PaneCtl("spawn", q) => p = q
                /\ PaneCtl("close", p) = PaneCtl("close", q) => p = q
  BY DEF PaneCtl
<1>3. ASSUME NEW i \in 1..Len(fs), NEW p
      PROVE  /\ fs[i] = PaneCtl("spawn", p) => p \in T
             /\ fs[i] = PaneCtl("close", p) => p \in S \/ p \in U
  <2>1. \/ \E q \in S : fs[i] = PaneCtl("close", q)
        \/ \E q \in T : fs[i] = PaneCtl("spawn", q)
        \/ \E q \in U : fs[i] = PaneCtl("close", q)
    <3>1. CASE \E j \in 1..Len(a) : fs[i] = a[j]
      BY <3>1 DEF Says
    <3>2. CASE \E j \in 1..Len(b) : fs[i] = b[j]
      BY <3>2 DEF Says
    <3>3. CASE \E j \in 1..Len(c) : fs[i] = c[j]
      BY <3>3 DEF Says
    <3> QED BY <1>1, <3>1, <3>2, <3>3, Zenon
  <2> QED BY <1>2, <2>1
<1>4. fs \in Seq(UpFrame) /\ \A i \in 1..Len(fs) : \A p :
        /\ fs[i] = PaneCtl("spawn", p) => p \in T
        /\ fs[i] = PaneCtl("close", p) => p \in S \/ p \in U
  BY <1>1, <1>3
<1> QED BY <1>4 DEF fs

\* What a server writes when it restores: it closes what it built in vain and what nobody
\* restored, and asks at most for the pane of its default session.
LEMMA RestoreWrites ==
  ASSUME NumberInv, NEW s \in Owners, NEW fresh, fresh \subseteq PaneIds,
         NEW shown, UNCHANGED hostSide, phase[s] = "listed",
         \E half \in Frames("close", HalfBuilt(s)), new \in Frames("spawn", fresh),
            stale \in Frames("close", Pruned(s, shown)) : Send(s, half \o new \o stale)
  PROVE  \A p \in PaneIds : /\ Asked(p)' => p \in fresh
                            /\ Closing(p)' => p \in HalfBuilt(s) \/ p \in Pruned(s, shown)
<1>1. \A p \in PaneIds : ~Asked(p) /\ ~Closing(p)
  BY DEF NumberInv, Quiescent
<1>2. CASE up' = up
  BY <1>1, <1>2, SilentAsks, Zenon DEF Asked, Closing
<1>3. CASE up' # up
  <2>1. HalfBuilt(s) \subseteq PaneIds /\ Pruned(s, shown) \subseteq PaneIds
    <3>1. \A t \in resume[s].tabs : \A i \in 1..Len(t) : t[i] \in PaneIds
      BY NumberTypes DEF Tab
    <3>2. listed[s].panes \subseteq PaneIds
      BY NumberTypes
    <3> QED BY <3>1, <3>2 DEF HalfBuilt, Pruned
  <2> PICK half \in Frames("close", HalfBuilt(s)), new \in Frames("spawn", fresh),
            stale \in Frames("close", Pruned(s, shown)) : Send(s, half \o new \o stale)
    OBVIOUS
  <2> DEFINE fs == InRow(half, new, stale)
             c == cur[s]
  <2>2. Says(half, "close", HalfBuilt(s)) /\ Says(new, "spawn", fresh)
        /\ Says(stale, "close", Pruned(s, shown))
    BY <2>1, FramesType DEF PaneOps, Says
  <2>3. c \in Conns /\ up' = [up EXCEPT ![c] = up[c] \o fs]
    BY <1>3, SendIs DEF InRow
  <2>4. /\ fs \in Seq(UpFrame)
        /\ \A i \in 1..Len(fs) : \A p :
             /\ fs[i] = PaneCtl("spawn", p) => p \in fresh
             /\ fs[i] = PaneCtl("close", p) => p \in HalfBuilt(s) \/ p \in Pruned(s, shown)
    BY <2>2, ThreeSay
  <2>5. hpc' = hpc /\ up \in [Conns -> Seq(UpFrame)]
    BY NumberTypes DEF hostSide, connVars
  <2> HIDE DEF fs, c
  <2>6. \A op, p : Waiting(op, p)' =>
           Waiting(op, p) \/ \E i \in 1..Len(fs) : fs[i] = PaneCtl(op, p)
    BY <2>3, <2>4, <2>5, WritingKeeps
  <2> QED BY <1>1, <2>4, <2>6, Zenon DEF Asked, Closing
<1> QED BY <1>2, <1>3

\* The panes a server closes when it restores are on its list, and it shows none of them.
LEMMA RestoreCloses ==
  ASSUME NEW s \in Owners, Apart(resume[s].tabs), NEW fresh, fresh \cap listed[s].panes = {},
         NEW shown, shown = PanesOf(Restorable(s)) \cup fresh
  PROVE  /\ PanesOf(Restorable(s)) \subseteq listed[s].panes
         /\ \A p : p \in HalfBuilt(s) \/ p \in Pruned(s, shown) => p \in listed[s].panes \ shown
<1>1. \A t \in resume[s].tabs : PanesOf({t}) = {t[i] : i \in 1..Len(t)}
  BY DEF PanesOf
<1>2. ASSUME NEW p \in PanesOf(Restorable(s))
      PROVE  p \in listed[s].panes /\ \E u \in Restorable(s) : p \in PanesOf({u})
  <2>1. PICK u \in Restorable(s) : p \in PanesOf({u})
    BY DEF PanesOf
  <2> QED BY <2>1 DEF Restorable
<1>3. ASSUME NEW p \in HalfBuilt(s) PROVE p \in listed[s].panes \ shown
  <2>1. PICK t \in resume[s].tabs \ Restorable(s) : \E j \in 1..Len(t) :
           p = t[j] /\ \A k \in 1..j : t[k] \in listed[s].panes
    BY DEF HalfBuilt
  <2>2. p \in listed[s].panes /\ p \in PanesOf({t})
    BY <1>1, <2>1
  <2>3. \A u \in Restorable(s) : u \in resume[s].tabs /\ t # u
    BY DEF Restorable
  <2>4. p \notin PanesOf(Restorable(s))
    BY <1>2, <2>2, <2>3 DEF Apart
  <2> QED BY <2>2, <2>4
<1> QED BY <1>2, <1>3 DEF Pruned

\* The only pane a server asks for when it restores is one that nobody has heard of.
LEMMA RestoreOver ==
  ASSUME NumberInv, NEW s \in Owners, Restore(s)
  PROVE  \A q \in PaneIds : Over(q) => Over(q)'
<1> DEFINE back  == Restorable(s)
           top   == SeqAdopted(s)
           fresh == IF back = {} THEN {top + 1} ELSE {}
           shown == PanesOf(back) \cup fresh
<1>1. /\ phase[s] = "listed" /\ fresh \subseteq PaneIds
      /\ seq' = [seq EXCEPT ![s] = top + Cardinality(fresh)]
      /\ \E half \in Frames("close", HalfBuilt(s)), new \in Frames("spawn", fresh),
            stale \in Frames("close", Pruned(s, shown)) : Send(s, half \o new \o stale)
      /\ phase' = [phase EXCEPT ![s] = "run"] /\ UNCHANGED hostSide
  BY DEF Restore
<1>2. \A t \in Owners : t # s => phase'[t] = phase[t] /\ phase[t] \in {"none", "gone"}
  BY <1>1, Solo, NumberTypes
<1>3. phase'[s] = "run" /\ seq'[s] = top + Cardinality(fresh)
  BY <1>1, NumberTypes
<1>4. listed[s].panes \subseteq PaneIds /\ top \in Nat /\ \A p \in listed[s].panes : p <= top
  <2>1. listed[s].panes \subseteq PaneIds
    BY NumberTypes
  <2>2. top \in PaneIds \cup {0} /\ \A p \in listed[s].panes : p <= top
    BY <2>1, HighestIs DEF SeqAdopted
  <2> QED BY <2>1, <2>2 DEF PaneIds
<1>5. \/ fresh = {top + 1} /\ Cardinality(fresh) = 1
      \/ fresh = {} /\ Cardinality(fresh) = 0
  BY FS_Singleton, FS_EmptySet
<1> HIDE DEF back, top, fresh, shown
<1>6. fresh \cap listed[s].panes = {} /\ \A p \in listed[s].panes : p <= seq'[s]
  BY <1>3, <1>4, <1>5 DEF PaneIds
<1>7. \A p \in PaneIds : Asked(p)' => p \in fresh
  BY <1>1, RestoreWrites
<1>8. ASSUME NEW q \in PaneIds, Over(q) PROVE Over(q)'
  <2>1. spawning' = spawning
    BY <1>1 DEF hostSide
  <2>2. q \in listed[s].panes
    BY <1>1, <1>8 DEF Over
  <2>3. ~Asked(q)'
    BY <1>6, <1>7, <2>2
  <2>4. \A t \in Owners : /\ phase'[t] = "run" => q <= seq'[t]
                          /\ phase'[t] # "listed"
    BY <1>2, <1>3, <1>6, <2>2
  <2> QED BY <1>8, <2>1, <2>3, <2>4 DEF Over
<1> QED BY <1>8

LEMMA RestoreShown ==
  ASSUME ShownInv, NumberInv', NEW s \in Owners, Restore(s)
  PROVE  ShownInv'
<1> DEFINE back  == Restorable(s)
           top   == SeqAdopted(s)
           fresh == IF back = {} THEN {top + 1} ELSE {}
           shown == PanesOf(back) \cup fresh
<1>n. NumberInv /\ TreesApart
  BY DEF ShownInv
<1>1. /\ phase[s] = "listed" /\ fresh \subseteq PaneIds
      /\ tabs' = [tabs EXCEPT ![s] = back \cup {<<p>> : p \in fresh}]
      /\ cbs' = [cbs EXCEPT ![s] = shown]
      /\ seq' = [seq EXCEPT ![s] = top + Cardinality(fresh)]
      /\ \E half \in Frames("close", HalfBuilt(s)), new \in Frames("spawn", fresh),
            stale \in Frames("close", Pruned(s, shown)) : Send(s, half \o new \o stale)
      /\ resume' = [resume EXCEPT ![s] = NoFile]
      /\ phase' = [phase EXCEPT ![s] = "run"]
      /\ UNCHANGED <<hostSide, down, cur>>
  BY DEF Restore
<1>2. \A t \in Owners : t # s => phase[t] \in {"none", "gone"}
  BY <1>n, <1>1, Solo
<1>3. /\ phase'[s] = "run" /\ resume'[s].tabs = {} /\ seq'[s] = top + Cardinality(fresh)
      /\ tabs'[s] = back \cup {<<p>> : p \in fresh} /\ cbs'[s] = shown
      /\ \A t \in Owners : t # s => phase'[t] = phase[t] /\ tabs'[t] = tabs[t]
                                   /\ resume'[t] = resume[t]
  BY <1>n, <1>1, NumberTypes DEF NoFile
<1>4. listed[s].panes \subseteq PaneIds /\ top \in Nat /\ \A p \in listed[s].panes : p <= top
  <2>1. listed[s].panes \subseteq PaneIds
    BY <1>n, NumberTypes
  <2>2. top \in PaneIds \cup {0} /\ \A p \in listed[s].panes : p <= top
    BY <2>1, HighestIs DEF SeqAdopted
  <2> QED BY <2>1, <2>2 DEF PaneIds
<1>5. \/ fresh = {top + 1} /\ back = {} /\ Cardinality(fresh) = 1
      \/ fresh = {} /\ Cardinality(fresh) = 0
  BY FS_Singleton, FS_EmptySet
<1>6. shown = PanesOf(Restorable(s)) \cup fresh /\ back \subseteq resume[s].tabs
  BY DEF Restorable
<1>7. Apart(resume[s].tabs) /\ \A t \in Owners : Apart(tabs[t]) /\ Apart(resume[t].tabs)
  BY <1>n DEF TreesApart
<1> HIDE DEF back, top, fresh, shown
<1>8. fresh \cap listed[s].panes = {} /\ \A p \in listed[s].panes : p <= seq'[s]
  BY <1>3, <1>4, <1>5 DEF PaneIds
<1>9. /\ PanesOf(Restorable(s)) \subseteq listed[s].panes
      /\ \A p : p \in HalfBuilt(s) \/ p \in Pruned(s, shown) => p \in listed[s].panes \ shown
  BY <1>6, <1>7, <1>8, RestoreCloses
<1>10. \A p \in PaneIds : /\ Asked(p)' => p \in fresh
                          /\ Closing(p)' => p \in HalfBuilt(s) \/ p \in Pruned(s, shown)
  BY <1>n, <1>1, RestoreWrites
<1>11. PanesOf(tabs'[s]) = shown /\ Apart(tabs'[s])
  <2>1. CASE fresh = {}
    <3>1. tabs'[s] = back /\ shown = PanesOf(back)
      BY <1>3, <2>1 DEF shown
    <3>2. Apart(back)
      BY <1>6, <1>7 DEF Apart
    <3> QED BY <3>1, <3>2
  <2>2. CASE fresh # {}
    <3>1. tabs'[s] = {<<top + 1>>} /\ shown = {top + 1}
      BY <1>3, <1>5, <2>2 DEF shown, PanesOf
    <3> QED BY <3>1 DEF Apart, InjTab, PanesOf
  <2> QED BY <2>1, <2>2
<1>12. TreesApart'
  <2>1. Apart({})
    BY DEF Apart
  <2>2. \A t \in Owners : Apart(tabs'[t]) /\ Apart(resume'[t].tabs)
    BY <1>3, <1>7, <1>11, <2>1
  <2> QED BY <2>2 DEF TreesApart
<1>13. TabsBelow'
  <2> SUFFICES ASSUME NEW t \in Owners, phase'[t] = "run", NEW q \in PaneIds,
                      q \in PanesOf(tabs'[t]) \cup cbs'[t] \/ Closing(q)'
               PROVE  q <= seq'[t]
    BY DEF TabsBelow, Shown
  <2>1. t = s
    BY <1>2, <1>3
  <2>2. q \in listed[s].panes \/ q \in fresh
    BY <1>3, <1>6, <1>9, <1>10, <1>11, <2>1
  <2>3. q \in fresh => q <= seq'[s]
    BY <1>3, <1>4, <1>5
  <2> QED BY <1>8, <2>1, <2>2, <2>3
<1>14. \A q \in PaneIds : Over(q) => Over(q)'
  BY <1>n, RestoreOver
<1>15. CloseSafe'
  <2> SUFFICES ASSUME NEW q \in PaneIds, Closing(q)', Claimed(q)' PROVE FALSE
    BY DEF CloseSafe
  <2>1. PICK t \in Owners : Living(t)' /\ q \in PanesOf(tabs'[t]) \cup PanesOf(resume'[t].tabs)
    BY DEF Claimed, Shown
  <2>2. t = s
    BY <1>2, <1>3, <2>1 DEF Living
  <2>3. q \in shown
    BY <1>3, <1>11, <2>1, <2>2 DEF PanesOf
  <2> QED BY <1>9, <1>10, <2>3
<1>16. \A t \in Owners : phase'[t] = "listing" => phase[t] = "listing"
  BY <1>2, <1>3
<1> QED BY <1>1, <1>12, <1>13, <1>14, <1>15, <1>16, AskingShown

LEMMA ServerShown ==
  ASSUME Prompt, ShownInv, NumberInv', NEW s \in Owners, ServerStep(s) \/ UserStep(s)
  PROVE  ShownInv'
<1>n. NumberInv /\ TreesApart
  BY DEF ShownInv
<1>1. ASSUME ServerStep(s) PROVE ShownInv'
  <2>1. ASSUME ListTimesOut(s) PROVE FALSE
    BY <2>1 DEF ListTimesOut, Prompt
  <2>2. CASE GotList(s)
    BY <2>2, GotListShown
  <2>3. CASE Restore(s)
    BY <2>3, RestoreShown
  <2>4. CASE ShowOutput(s) \/ OnOther(s)
    <3>1. PICK op \in {"data", "spawned", "list_reply", "exit"} : Got(s, op)
      BY <2>4 DEF ShowOutput, OnOther
    <3>2. /\ UNCHANGED <<hostSide, up>>
          /\ UNCHANGED <<phase, cur, cbs, tabs, seq, listed, resume>>
      BY <2>4, Zenon DEF ShowOutput, OnOther, srvVars
    <3>3. \A d \in Conns : down'[d] = down[d] \/ (down[d] # <<>> /\ down'[d] = Tail(down[d]))
      BY <1>n, <3>1, GotNumbers
    <3> QED BY <3>2, <3>3, ReadShown
  <2>5. CASE OnExit(s)
    BY <2>5, ExitShown
  <2>6. CASE RestartExit(s)
    BY <2>6, GoneShown DEF RestartExit
  <2>7. CASE OnHostLost(s)
    BY <2>7, PhaseShown
  <2>8. ASSUME NEW c \in Conns, Connect(s, c) \/ EndServer(s, c) \/ Reconnect(s, c)
        PROVE  ShownInv'
    <3>1. CASE Connect(s, c) \/ Reconnect(s, c)
      BY <3>1, OpenShown
    <3>2. CASE EndServer(s, c)
      BY <3>2, GoneShown
    <3> QED BY <2>8, <3>1, <3>2
  <2> QED BY <1>1, <2>1, <2>2, <2>3, <2>4, <2>5, <2>6, <2>7, <2>8 DEF ServerStep
<1>2. ASSUME UserStep(s) PROVE ShownInv'
  <2> DEFINE p == NextPaneId(s)
  <2>1. tabs[s] \subseteq Tab /\ Apart(tabs[s]) /\ seq[s] \in PaneIds \cup {0}
    BY <1>n, NumberTypes DEF TreesApart
  <2>2. ASSUME NEW ts, SpawnPane(s, ts) PROVE p \in PaneIds /\ p \notin PanesOf(tabs[s])
    <3>1. p \in PaneIds /\ p = seq[s] + 1 /\ phase[s] = "run"
      BY <2>2 DEF SpawnPane, NextPaneId
    <3> HIDE DEF p
    <3>2. p \in PanesOf(tabs[s]) => p <= seq[s]
      BY <3>1 DEF ShownInv, TabsBelow, Shown
    <3> QED BY <2>1, <3>1, <3>2 DEF PaneIds
  <2>3. CASE Launch(s)
    BY <2>3, PhaseShown
  <2>4. CASE NewTab(s)
    <3>1. SpawnPane(s, tabs[s] \cup {<<p>>})
      BY <2>4 DEF NewTab
    <3>2. p \in PaneIds /\ p \notin PanesOf(tabs[s])
      BY <2>2, <3>1
    <3>3. Apart(tabs[s] \cup {<<p>>}) /\ PanesOf(tabs[s] \cup {<<p>>}) \subseteq Shown(s) \cup {NextPaneId(s)}
      BY <2>1, <3>2, GrownIs DEF Shown
    <3> QED BY <3>1, <3>3, SpawnShown
  <2>5. CASE Crash(s)
    BY <2>5, GoneShown DEF Crash
  <2>6. ASSUME NEW t \in tabs[s], SplitTab(s, t) PROVE ShownInv'
    <3> DEFINE us == (tabs[s] \ {t}) \cup {Append(t, p)}
    <3>1. SpawnPane(s, us)
      BY <2>6 DEF SplitTab
    <3>2. p \in PaneIds /\ p \notin PanesOf(tabs[s])
      BY <2>2, <3>1
    <3>3. Apart(us) /\ PanesOf(us) \subseteq Shown(s) \cup {NextPaneId(s)}
      BY <2>1, <3>2, GrownIs DEF Shown
    <3> HIDE DEF us
    <3> QED BY <3>1, <3>3, SpawnShown
  <2>7. ASSUME NEW q \in PaneIds, KillPane(s, q) PROVE ShownInv'
    BY <2>7, KillShown
  <2>8. ASSUME NEW t \in Owners, Restart(s, t) PROVE ShownInv'
    BY <2>8, PhaseShown
  <2> QED BY <1>2, <2>3, <2>4, <2>5, <2>6, <2>7, <2>8 DEF UserStep
<1> QED BY <1>1, <1>2

-----------------------------------------------------------------------------
(* The theorem about shells that somebody shows.                             *)

LEMMA ShownBegins == SessionInit => ShownInv
<1> SUFFICES ASSUME SessionInit PROVE ShownInv
  OBVIOUS
<1>1. NumberInv
  BY NumberBegins
<1>2. /\ \A s \in Owners : /\ phase[s] = "none" /\ cur[s] = 0 /\ tabs[s] = {}
                           /\ resume[s].tabs = {}
      /\ \A c \in Conns : up[c] = <<>> /\ hpc[c] = "none"
      /\ spawning = {} /\ reaping = {} /\ wdpc \in {"sleep", "done"}
  BY DEF SessionInit, HostInit, NoFile
<1>3. TreesApart
  <2>1. Apart({})
    BY DEF Apart
  <2> QED BY <1>2, <2>1 DEF TreesApart
<1>4. TabsBelow /\ OnceMade /\ StopSet
  BY <1>2 DEF TabsBelow, OnceMade, StopSet
<1>5. \A s \in Owners : \A j, p : ~ExitAt(s, j, p)
  BY <1>2 DEF ExitAt, Conns
<1>6. EndedOver /\ ReapsOK /\ ExitsOK
  BY <1>2, <1>5 DEF EndedOver, ReapsOK, ExitsOK, Ended
<1>7. CloseSafe
  <2>1. \A op, p : ~Waiting(op, p)
    BY <1>2 DEF Waiting, Waits
  <2> QED BY <2>1 DEF CloseSafe, Closing
<1> QED BY <1>1, <1>3, <1>4, <1>6, <1>7 DEF ShownInv

LEMMA ShownStep ==
  ASSUME Prompt
  PROVE  ShownInv /\ [SessionNext]_sessionVars => ShownInv'
<1> SUFFICES ASSUME ShownInv, [SessionNext]_sessionVars PROVE ShownInv'
  OBVIOUS
<1>1. NumberInv'
  BY NumberStep DEF ShownInv
<1>2. CASE (HostStep \/ ShellStep) /\ UNCHANGED srvVars
  BY <1>2, HostShown
<1>3. ASSUME NEW s \in Owners, ServerStep(s) \/ UserStep(s) PROVE ShownInv'
  BY <1>1, <1>3, ServerShown
<1>4. CASE UNCHANGED sessionVars
  <2>1. UNCHANGED <<hostSide, up, down>>
    BY <1>4 DEF sessionVars, hostVars, hostSide
  <2>2. UNCHANGED <<phase, cur, cbs, tabs, seq, listed, resume>>
    BY <1>4 DEF sessionVars, srvVars
  <2>3. \A d \in Conns : down'[d] = down[d]
    BY <2>1
  <2> QED BY <1>1, <2>1, <2>2, <2>3, ReadShown
<1> QED BY <1>2, <1>3, <1>4 DEF SessionNext

\* What the daemon closes in a step is held by no registered pane that is claimed.
LEMMA HostSpares ==
  ASSUME ShownInv, ~stop, HostStep \/ ShellStep,
         NEW p \in Registered, Claimed(p), shell[shellOf[p]] = "live"
  PROVE  shell'[shellOf[p]] # "closed"
<1> DEFINE k == shellOf[p]
<1>t. /\ TypeOK /\ HeldOnce /\ StopSet /\ ReapsOK /\ CloseSafe
      /\ p \in PaneIds /\ k \in Shells /\ p \in Taken /\ shell[k] = "live"
  BY NumberTypes DEF ShownInv, HostInv, FlightInv, RingInv, HeldInv, Held, Registered, Taken, TypeOK
<1>1. ASSUME NEW q \in PaneIds, ClosePanes({q}), shellOf[q] # k PROVE shell'[k] # "closed"
  BY <1>t, <1>1 DEF ClosePanes
<1>2. ASSUME NEW c \in Conns, OnClose(c) PROVE shell'[k] # "closed"
  <2>1. ClosePanes({Arg(c)}) /\ Closing(Arg(c)) /\ Arg(c) \in PaneIds
    BY <1>2, <1>t, HeadWaits DEF OnClose, Taking, PaneOps, Closing
  <2>2. Arg(c) # p
    BY <1>t, <2>1 DEF CloseSafe
  <2>3. shellOf[Arg(c)] # k
    BY <1>t, <2>1, <2>2 DEF HeldOnce
  <2> QED BY <1>1, <2>1, <2>3
<1>3. ASSUME NEW q \in PaneIds, NEW j \in Shells, FinishEof(q, j) PROVE shell'[k] # "closed"
  <2>1. ClosePanes({q}) /\ <<q, j>> \in reaping
    BY <1>3 DEF FinishEof
  <2>2. Finished(j) /\ shellOf[q] \in {0, j}
    BY <1>t, <2>1 DEF ReapsOK
  <2>3. shellOf[q] # k
    BY <1>t, <2>2 DEF Finished, Shells
  <2> QED BY <1>1, <2>1, <2>3
<1>4. ASSUME NEW c \in Conns, SpawnLands(c) PROVE shell'[k] # "closed"
  <2>1. hshell[c] # k
    BY <1>t DEF HeldOnce
  <2>2. \/ shell' = shell
        \/ shell' = [shell EXCEPT ![hshell[c]] = IF @ = "live" THEN "closed" ELSE @]
    BY <1>4 DEF SpawnLands, Refuse
  <2>3. shell \in [Shells -> {"none", "live", "exited", "closed"}]
    BY <1>t DEF TypeOK
  <2>4. shell'[k] = shell[k]
    BY <1>t, <2>1, <2>2, <2>3
  <2> QED BY <1>t, <2>4
<1>5. ASSUME NEW c \in Conns, NEW j \in Shells, BackendSpawn(c, j) PROVE shell'[k] # "closed"
  BY <1>t, <1>5 DEF BackendSpawn, TypeOK
<1>6. ASSUME NEW j \in Shells, ShellExit(j) PROVE shell'[k] # "closed"
  BY <1>t, <1>6 DEF ShellExit, TypeOK
<1>7. /\ \A c \in Conns : ~ShutdownSettled(c)
      /\ ~WatchSettled /\ ~HostExit
  BY <1>t DEF ShutdownSettled, WatchSettled, HostExit, StopSet
<1>8. CASE shell' = shell
  BY <1>t, <1>8
<1>9. ASSUME NEW c \in Conns, ConnStep(c) PROVE shell'[k] # "closed"
  <2>1. CASE \/ Accept(c) \/ Authenticate(c) \/ DeclareProbe(c) \/ AdoptServer(c) \/ OnEof(c)
             \/ OnOwner(c) \/ OnUnknown(c) \/ OnSpawnAgain(c) \/ OnSpawn(c)
             \/ SpawnFails(c) \/ OnPause(c) \/ OnResume(c)
             \/ OnList(c) \/ ListAnswered(c) \/ OnShutdown(c)
    <3>1. shell' = shell
      BY <2>1, Zenon DEF Accept, Authenticate, DeclareProbe, AdoptServer, OnEof,
           OnOwner, OnUnknown, OnSpawnAgain, OnSpawn, SpawnFails, OnPause,
           OnResume, OnList, ListAnswered, OnShutdown
    <3> QED BY <1>8, <3>1
  <2> QED BY <1>2, <1>4, <1>5, <1>7, <1>9, <2>1, Zenon DEF ConnStep
<1>10. CASE (\E q \in PaneIds : ReaderEof(q)) \/ WatchAttached \/ WatchIdle \/ WatchVerdict
            \/ \E q \in PaneIds : ShellOutput(q)
  <2>1. shell' = shell
    BY <1>10, Zenon DEF ReaderEof, WatchAttached, WatchIdle, WatchVerdict, ShellOutput
  <2> QED BY <1>8, <2>1
<1> QED BY <1>3, <1>6, <1>7, <1>9, <1>10, Zenon DEF HostStep, ShellStep, Watchdog

\* A living shell that some server shows, or that a resume file still promises to
\* one, is closed by nothing but the end of the whole host (_close_pane, _finish_eof,
\* _prune_unknown_host_panes), as long as starting servers hear of all panes in time.
THEOREM ShownShellsSurviveCorrect ==
  ASSUME Prompt
  PROVE  SessionSpec => ShownShellsSurvive
<1> DEFINE Spared == ~stop => \A p \in Registered :
             Claimed(p) /\ shell[shellOf[p]] = "live" => shell'[shellOf[p]] # "closed"
<1>1. ShownInv /\ [SessionNext]_sessionVars => [Spared]_sessionVars
  <2> SUFFICES ASSUME ShownInv, SessionNext, ~stop, NEW p \in Registered, Claimed(p),
                      shell[shellOf[p]] = "live"
               PROVE  shell'[shellOf[p]] # "closed"
    OBVIOUS
  <2>1. CASE HostStep \/ ShellStep
    BY <2>1, HostSpares
  <2>2. ASSUME NEW s \in Owners, ServerStep(s) \/ UserStep(s) PROVE shell' = shell
    <3>1. SessionInv
      BY DEF ShownInv, NumberInv
    <3>2. GuestStep
      BY <2>2, <3>1, ServerGuest, UserGuest
    <3> QED BY <3>2 DEF GuestStep, hostSide
  <2> QED BY <2>1, <2>2 DEF SessionNext
<1> QED BY <1>1, ShownBegins, ShownStep, PTL DEF SessionSpec, ShownShellsSurvive

-----------------------------------------------------------------------------
(* The order on the screens.  What a screen shows of a pane, and what a resume *)
(* file keeps of it for a successor, is older than all that is still to come   *)
(* to it: on the connection of its server, in the ring, from the shell.        *)

Rising(q)    == \A i, j \in 1..Len(q) : i < j => q[i] < q[j]
Feeds(f, p)  == ChunksIn(f, p) # {}
InOrder(scr) == \A i, j \in 1..Len(scr) : i < j => scr[i][1] = scr[j][1] /\ scr[i][2] < scr[j][2]

\* What is on its way to a server.
Incoming(s) == IF cur[s] \in Conns THEN down[cur[s]] ELSE <<>>

\* Chunk e of pane p came before queue q, the ring and what shell h has yet to write.
Passed(e, p, q, ring, h, o) ==
  /\ e[1] \in Shells /\ e[2] \in Nat /\ e[2] <= o[e[1]] /\ h \in {0, e[1]}
  /\ \A n \in 1..Len(ring) : e[2] < ring[n]
  /\ \A j \in 1..Len(q) : Feeds(q[j], p) =>
       q[j].src[p] = e[1] /\ \A m \in ChunksIn(q[j], p) : e[2] < m
Fit(scr, p, q, ring, h, o) ==
  InOrder(scr) /\ \A i \in 1..Len(scr) : Passed(scr[i], p, q, ring, h, o)
\* Queue q carries output of one shell for pane p, which is the one it has if it has one.
Flow(p, q, h) ==
  \A j \in 1..Len(q) : Feeds(q[j], p) =>
    /\ h \in {0, q[j].src[p]} /\ Rising(q[j].data[p])
    /\ \A i \in 1..Len(q) : Feeds(q[i], p) => q[i].src[p] = q[j].src[p]

\* A successor will restore pane p from its resume file.
Wanted(s, p) == /\ phase[s] \in {"boot", "listing", "listed"} /\ p \in PanesOf(resume[s].tabs)
                /\ phase[s] = "listed" => p \in listed[s].panes
ScreensFit == \A s \in Owners, p \in PaneIds :
  /\ Fit(screen[s][p], p, Incoming(s), pending[p], shellOf[p], out)
  /\ Wanted(s, p) => Fit(resume[s].screen[p], p, Incoming(s), pending[p], shellOf[p], out)
FlightsFit == \A s \in Owners, p \in PaneIds : Flow(p, Incoming(s), shellOf[p])
Unfed == \A s \in Owners : phase[s] \notin {"run", "leaving", "ending"} => screen[s] = Blank
\* Whoever has shown output, or will, has been made for good.
Seen(p) == \E s \in Owners :
  \/ screen[s][p] # <<>>
  \/ Wanted(s, p) /\ resume[s].screen[p] # <<>>
  \/ \E j \in 1..Len(Incoming(s)) : Feeds(Incoming(s)[j], p)
SeenOver == \A p \in PaneIds : Seen(p) => Over(p)
\* A starting server hears of a pane before it gets its output.
Heralded == \A s \in Owners, p \in PaneIds : phase[s] = "listing" =>
  \A j \in 1..Len(Incoming(s)) : Feeds(Incoming(s)[j], p) => Promised(s, p, j)

ScreenInv == ShownInv /\ ScreensFit /\ FlightsFit /\ Unfed /\ SeenOver /\ Heralded

-----------------------------------------------------------------------------
(* Queues.                                                                   *)

\* Frames of q2, each with the place it has in q, are all the frames there are.
LEMMA FlowLess ==
  ASSUME NEW q \in Seq(DownFrame), NEW p, NEW h, Flow(p, q, h)
  PROVE  Flow(p, <<>>, h) /\ (q # <<>> => Flow(p, Tail(q), h))
<1>1. Flow(p, <<>>, h)
  BY DEF Flow
<1>2. ASSUME q # <<>> PROVE Flow(p, Tail(q), h)
  <2> DEFINE r == Tail(q)
  <2>1. \A i \in 1..Len(r) : i + 1 \in 1..Len(q) /\ r[i] = q[i + 1]
    BY <1>2
  <2> HIDE DEF r
  <2>2. ASSUME NEW j \in 1..Len(r), Feeds(r[j], p)
        PROVE  /\ h \in {0, r[j].src[p]} /\ Rising(r[j].data[p])
               /\ \A i \in 1..Len(r) : Feeds(r[i], p) => r[i].src[p] = r[j].src[p]
    <3>1. /\ h \in {0, q[j + 1].src[p]} /\ Rising(q[j + 1].data[p])
          /\ \A i \in 1..Len(q) : Feeds(q[i], p) => q[i].src[p] = q[j + 1].src[p]
      BY <2>1, <2>2, Zenon DEF Flow
    <3> QED BY <2>1, <2>2, <3>1
  <2>3. Flow(p, r, h)
    BY <2>2 DEF Flow
  <2> QED BY <2>3 DEF r
<1> QED BY <1>1, <1>2

LEMMA PassedLess ==
  ASSUME NEW q \in Seq(DownFrame), NEW p, NEW h, NEW ring, NEW o, NEW e,
         Passed(e, p, q, ring, h, o)
  PROVE  Passed(e, p, <<>>, ring, h, o) /\ (q # <<>> => Passed(e, p, Tail(q), ring, h, o))
<1>1. Passed(e, p, <<>>, ring, h, o)
  BY DEF Passed
<1>2. ASSUME q # <<>> PROVE Passed(e, p, Tail(q), ring, h, o)
  <2>1. \A i \in 1..Len(Tail(q)) : i + 1 \in 1..Len(q) /\ Tail(q)[i] = q[i + 1]
    BY <1>2
  <2> QED BY <2>1, Zenon DEF Passed
<1> QED BY <1>1, <1>2

LEMMA FlowMore ==
  ASSUME NEW q \in Seq(DownFrame), NEW f \in DownFrame, NEW p, NEW h, NEW h2, Flow(p, q, h),
         (Feeds(f, p) \/ \E j \in 1..Len(q) : Feeds(q[j], p)) => h2 \in {0, h},
         Feeds(f, p) => f.src[p] = h /\ h \in Shells /\ Rising(f.data[p])
  PROVE  Flow(p, q, h2) /\ Flow(p, Append(q, f), h2)
<1> DEFINE r == Append(q, f)
<1>1. /\ \A i \in 1..Len(r) : i \in 1..Len(q) \/ r[i] = f
      /\ \A i \in 1..Len(q) : r[i] = q[i]
  OBVIOUS
<1>2. \A j \in 1..Len(q) : Feeds(q[j], p) =>
        /\ h \in {0, q[j].src[p]} /\ Rising(q[j].data[p]) /\ h2 \in {0, h}
        /\ \A i \in 1..Len(q) : Feeds(q[i], p) => q[i].src[p] = q[j].src[p]
  BY Zenon DEF Flow
<1>3. Flow(p, q, h2)
  BY <1>2 DEF Flow
<1> HIDE DEF r
<1>4. \A j \in 1..Len(r) : Feeds(r[j], p) =>
        /\ h2 \in {0, r[j].src[p]} /\ Rising(r[j].data[p])
        /\ \A i \in 1..Len(q) : Feeds(q[i], p) => q[i].src[p] = r[j].src[p]
        /\ Feeds(f, p) => f.src[p] = r[j].src[p]
  <2> SUFFICES ASSUME NEW j \in 1..Len(r), Feeds(r[j], p)
               PROVE  /\ h2 \in {0, r[j].src[p]} /\ Rising(r[j].data[p])
                      /\ \A i \in 1..Len(q) : Feeds(q[i], p) => q[i].src[p] = r[j].src[p]
                      /\ Feeds(f, p) => f.src[p] = r[j].src[p]
    OBVIOUS
  <2>1. 0 \notin Shells
    BY DEF Shells
  <2>2. CASE j \in 1..Len(q) /\ r[j] = q[j]
    BY <1>2, <2>1, <2>2
  <2>3. CASE r[j] = f
    BY <1>2, <2>1, <2>3
  <2> QED BY <1>1, <2>2, <2>3
<1>5. \A j \in 1..Len(r) : Feeds(r[j], p) =>
        \A i \in 1..Len(r) : Feeds(r[i], p) => r[i].src[p] = r[j].src[p]
  <2> SUFFICES ASSUME NEW j \in 1..Len(r), Feeds(r[j], p), NEW i \in 1..Len(r), Feeds(r[i], p)
               PROVE  r[i].src[p] = r[j].src[p]
    OBVIOUS
  <2>1. CASE i \in 1..Len(q)
    BY <1>1, <1>4, <2>1, Zenon
  <2>2. CASE r[i] = f
    BY <1>4, <2>2, Zenon
  <2> QED BY <1>1, <2>1, <2>2
<1>6. Flow(p, r, h2)
  BY <1>4, <1>5, Zenon DEF Flow
<1> QED BY <1>3, <1>6 DEF r

\* A shell writes on: all that is in the ring afterwards, and in a frame f that is sent,
\* was in the ring or is new.
Supplies(f, p, ring, h, o, ring2, h2, o2) ==
  /\ h2 \in {0, h} /\ \A k \in Shells : o[k] \in Nat /\ o2[k] \in Nat /\ o[k] <= o2[k]
  /\ \A n \in 1..Len(ring2) : /\ h \in Shells /\ ring2[n] \in Nat
       /\ \/ \E j \in 1..Len(ring) : ring2[n] = ring[j]
          \/ o[h] < ring2[n]
  /\ Feeds(f, p) => /\ f.src[p] = h /\ h \in Shells
                    /\ \A m \in ChunksIn(f, p) : /\ m \in Nat
                         /\ \/ \E j \in 1..Len(ring) : m = ring[j]
                            \/ o[h] < m

LEMMA PassedMore ==
  ASSUME NEW q \in Seq(DownFrame), NEW f \in DownFrame, NEW p, NEW h, NEW ring, NEW o, NEW e,
         NEW h2, NEW ring2, NEW o2, Passed(e, p, q, ring, h, o),
         Supplies(f, p, ring, h, o, ring2, h2, o2)
  PROVE  Passed(e, p, q, ring2, h2, o2) /\ Passed(e, p, Append(q, f), ring2, h2, o2)
<1> USE DEF Supplies
<1> DEFINE r == Append(q, f)
<1>1. /\ \A i \in 1..Len(r) : i \in 1..Len(q) \/ r[i] = f
      /\ \A i \in 1..Len(q) : r[i] = q[i]
  OBVIOUS
<1>2. /\ e[1] \in Shells /\ e[2] \in Nat /\ e[2] <= o[e[1]] /\ h \in {0, e[1]}
      /\ \A n \in 1..Len(ring) : e[2] < ring[n]
      /\ \A j \in 1..Len(q) : Feeds(q[j], p) =>
           q[j].src[p] = e[1] /\ \A m \in ChunksIn(q[j], p) : e[2] < m
  BY Zenon DEF Passed
<1>3. e[2] <= o2[e[1]] /\ h2 \in {0, e[1]}
  BY <1>2
<1>4. h \in Shells => h = e[1]
  BY <1>2 DEF Shells
<1>5. ASSUME NEW m \in Nat, h \in Shells, (\E j \in 1..Len(ring) : m = ring[j]) \/ o[h] < m
      PROVE  e[2] < m
  <2>1. e[2] <= o[h] /\ o[h] \in Nat
    BY <1>2, <1>4, <1>5
  <2> QED BY <1>2, <1>5, <2>1
<1>6. \A n \in 1..Len(ring2) : e[2] < ring2[n]
  BY <1>5
<1>7. Feeds(f, p) => f.src[p] = e[1] /\ \A m \in ChunksIn(f, p) : e[2] < m
  BY <1>4, <1>5
<1> HIDE DEF r
<1>8. \A j \in 1..Len(r) : Feeds(r[j], p) =>
           r[j].src[p] = e[1] /\ \A m \in ChunksIn(r[j], p) : e[2] < m
  BY <1>1, <1>2, <1>7, Zenon
<1>9. Passed(e, p, q, ring2, h2, o2) /\ Passed(e, p, r, ring2, h2, o2)
  BY <1>2, <1>3, <1>6, <1>8, Zenon DEF Passed
<1> QED BY <1>9 DEF r

-----------------------------------------------------------------------------
(* The daemon's steps.                                                       *)

\* A pane loses its shell, or gets one when a spawn lands.
LEMMA ShellsMove ==
  ASSUME NumberInv, HostStep \/ ShellStep, NEW p \in PaneIds
  PROVE  shellOf'[p] \in {0, shellOf[p]} \/ p \in spawning
<1> USE DEF paneVars
<1>t. TypeOK /\ HostInv /\ Down /\ SpawnsReserved
  BY NumberTypes DEF NumberInv
<1>1. (\E S : ClosePanes(S)) => shellOf'[p] \in {0, shellOf[p]}
  BY DEF ClosePanes
<1>2. ASSUME NEW c \in Conns, SpawnLands(c)
      PROVE  shellOf'[p] \in {0, shellOf[p]} \/ p \in spawning
  <2>1. hostUp
    BY <1>t, <1>2 DEF Down, SpawnLands
  <2>2. harg[c] \in spawning
    BY <1>t, <1>2, <2>1 DEF SpawnLands, SpawnsReserved
  <2>3. shellOf' = shellOf \/ shellOf' = [shellOf EXCEPT ![harg[c]] = hshell[c]]
    BY <1>2 DEF SpawnLands
  <2> QED BY <1>t, <2>2, <2>3 DEF TypeOK
<1>3. ASSUME NEW c \in Conns, ConnStep(c), ~SpawnLands(c)
      PROVE  shellOf' = shellOf \/ \E S : ClosePanes(S)
  BY <1>3, Zenon DEF ConnStep, Accept, Authenticate, DeclareProbe, AdoptServer, OnEof, OnOwner,
       OnUnknown, OnSpawnAgain, OnSpawn, SpawnFails, OnClose, OnPause, OnResume, OnList,
       ListAnswered, OnShutdown, ShutdownSettled, BackendSpawn
<1>4. ASSUME ~\E c \in Conns : ConnStep(c) PROVE shellOf' = shellOf \/ \E S : ClosePanes(S)
  BY <1>4, Zenon DEF HostStep, ShellStep, ShellOutput, ShellExit, ReaderEof, FinishEof, Watchdog,
       WatchAttached, WatchIdle, WatchVerdict, WatchSettled, HostExit
<1>5. shellOf' = shellOf => shellOf'[p] \in {0, shellOf[p]}
  OBVIOUS
<1> QED BY <1>1, <1>2, <1>3, <1>4, <1>5, Zenon

\* Chunk m of pane p was in its ring, or its shell had yet to write it.
Newer(p, m) == /\ shellOf[p] \in Shells /\ m \in Nat
               /\ \/ \E j \in 1..Len(pending[p]) : m = pending[p][j]
                  \/ out[shellOf[p]] < m
\* A frame with output, in the order in which the shell wrote it.
Fresher(f) == \A p \in PaneIds : Feeds(f, p) =>
  /\ f.src[p] = shellOf[p] /\ shellOf[p] \in Shells /\ Rising(f.data[p])
  /\ \A m \in ChunksIn(f, p) : Newer(p, m)
OnlyNewer == /\ \A k \in Shells : out[k] \in Nat /\ out'[k] \in Nat /\ out[k] <= out'[k]
             /\ \A p \in PaneIds : \A n \in 1..Len(pending'[p]) : Newer(p, pending'[p][n])
             /\ \A d \in Conns : \/ down'[d] = down[d]
                                \/ \E f \in DownFrame : Fresher(f) /\ down'[d] = Append(down[d], f)

\* What a ring keeps is of a shell, in the order in which it wrote it.
LEMMA RingRises ==
  ASSUME HostInv, NEW p \in PaneIds
  PROVE  /\ Rising(pending[p]) /\ \A n \in 1..Len(pending[p]) : Newer(p, pending[p][n])
<1>1. pending[p] \in Seq(Nat) /\ Len(pending[p]) \in Nat /\ shellOf[p] \in Shells \cup {0}
  BY DEF HostInv, FlightInv, RingInv, KeptInv, TypeInv, TypeOK
<1>2. /\ pending[p] # <<>> => p \in Registered
      /\ \A i \in 1..Len(pending[p]) : pending[p][i] + Len(pending[p]) = out[shellOf[p]] + i
  BY DEF HostInv, FlightInv, RingInv, KeptIsNewest
<1>3. pending[p] # <<>> => shellOf[p] \in Shells /\ out[shellOf[p]] \in Nat
  BY <1>1, <1>2 DEF Registered, HostInv, FlightInv, RingInv, KeptInv, TypeInv, TypeOK
<1>4. \A i \in 1..Len(pending[p]) : pending[p][i] \in Nat /\ pending[p] # <<>>
  BY <1>1
<1>5. ASSUME NEW i \in 1..Len(pending[p]), NEW j \in 1..Len(pending[p]), i < j
      PROVE  pending[p][i] < pending[p][j]
  <2> DEFINE a == pending[p][i]
             b == pending[p][j]
             l == Len(pending[p])
             o == out[shellOf[p]]
  <2>1. /\ a \in Nat /\ b \in Nat /\ l \in Nat /\ o \in Nat /\ i \in Nat /\ j \in Nat
        /\ a + l = o + i /\ b + l = o + j
    BY <1>1, <1>2, <1>3, <1>4
  <2> HIDE DEF a, b, l, o
  <2>2. a < b
    BY <1>5, <2>1
  <2> QED BY <2>2 DEF a, b
<1>6. \A n \in 1..Len(pending[p]) : Newer(p, pending[p][n])
  BY <1>3, <1>4 DEF Newer
<1> QED BY <1>5, <1>6 DEF Rising

LEMMA HostOutput ==
  ASSUME NumberInv, HostStep \/ ShellStep
  PROVE  OnlyNewer
<1>t. HostInv /\ TypeOK /\ FlightInv /\ Down
  BY NumberTypes DEF NumberInv, HostInv
<1>a. \A k \in Shells : out[k] \in Nat /\ out[k] <= out[k]
  BY <1>t DEF TypeOK
<1>b. \A d \in Conns : down'[d] = down[d] \/ \E f \in DownFrame : down'[d] = Append(down[d], f)
  BY <1>t, HostMoves, Zenon DEF Answers
<1>c. \A d \in Conns : down[d] \in Seq(DownFrame)
  BY <1>t DEF TypeOK
<1>r. \A p \in PaneIds : /\ Rising(pending[p]) /\ pending[p] \in Seq(Nat)
                         /\ \A n \in 1..Len(pending[p]) : Newer(p, pending[p][n])
  BY <1>t, RingRises DEF TypeOK
<1>1. CASE Silence
  <2>1. out' = out
    BY <1>1 DEF Silence
  <2>2. ASSUME NEW p \in PaneIds, NEW n \in 1..Len(pending'[p]) PROVE Newer(p, pending'[p][n])
    <3>1. pending'[p] = pending[p] \/ pending'[p] = <<>>
      BY <1>1, Zenon DEF Silence
    <3> QED BY <1>r, <2>2, <3>1
  <2>3. ASSUME NEW d \in Conns, down'[d] # down[d]
        PROVE  \E f \in DownFrame : Fresher(f) /\ down'[d] = Append(down[d], f)
    <3>1. PICK f \in DownFrame : down'[d] = Append(down[d], f)
      BY <1>b, <2>3
    <3>2. Quiet(d)
      BY <1>1 DEF Silence
    <3>3. down'[d] # <<>> /\ Len(down'[d]) = Len(down[d]) + 1 /\ Len(down[d]) \in Nat
      BY <1>c, <3>1
    <3>4. down[d] # <<>> => Len(Tail(down[d])) = Len(down[d]) - 1
      BY <1>c
    <3>5. ASSUME down[d] # <<>>, down'[d] = Tail(down[d]) PROVE FALSE
      <4>1. Len(down'[d]) = Len(down[d]) - 1
        BY <3>4, <3>5
      <4> QED BY <3>3, <4>1
    <3>6. PICK g \in DownFrame : g.op # "data" /\ down'[d] = Append(down[d], g)
      BY <2>3, <3>2, <3>3, <3>5 DEF Quiet
    <3>7. Fresher(g)
      BY <3>6 DEF Fresher, Feeds, ChunksIn
    <3> QED BY <3>6, <3>7
  <2> QED BY <1>a, <2>1, <2>2, <2>3, Zenon DEF OnlyNewer
<1>2. ASSUME NEW c \in Conns, AdoptServer(c) PROVE OnlyNewer
  <2> DEFINE f == DataFrame(pending)
  <2>1. /\ down' = down \/ down' = Written(c, f)
        /\ pending' = NoData /\ out' = out
    BY <1>2, Zenon DEF AdoptServer, Flush
  <2>2. \A p \in PaneIds : pending'[p] = <<>>
    BY <2>1 DEF NoData
  <2>3. f \in DownFrame /\ f.op = "data" /\ f.src = shellOf /\ f.data = pending
    BY <1>t, DataFrameIsDown DEF DataFrame, TypeOK
  <2> HIDE DEF f
  <2>4. Fresher(f)
    <3> SUFFICES ASSUME NEW p \in PaneIds, Feeds(f, p)
                 PROVE  /\ f.src[p] = shellOf[p] /\ shellOf[p] \in Shells /\ Rising(f.data[p])
                        /\ \A m \in ChunksIn(f, p) : Newer(p, m)
      BY DEF Fresher
    <3>1. ChunksIn(f, p) = {pending[p][i] : i \in 1..Len(pending[p])}
      BY <2>3 DEF ChunksIn
    <3>2. \A m \in ChunksIn(f, p) : Newer(p, m)
      BY <1>r, <3>1
    <3>3. shellOf[p] \in Shells
      BY <3>2 DEF Feeds, Newer
    <3> QED BY <1>r, <2>3, <3>2, <3>3
  <2>5. \A d \in Conns : down'[d] = down[d] \/ down'[d] = Append(down[d], f)
    BY <1>t, <2>1 DEF Written, TypeOK
  <2> QED BY <1>a, <2>1, <2>2, <2>3, <2>4, <2>5 DEF OnlyNewer
<1>3. ASSUME NEW p \in PaneIds, ShellOutput(p) PROVE OnlyNewer
  <2> DEFINE k == shellOf[p]
             n == out[k] + 1
             data == [NoData EXCEPT ![p] = <<n>>]
             f == DataFrame(data)
  <2>1. /\ k \in Shells /\ out[k] \in Nat /\ n \in Nat /\ out[k] < n
        /\ out' = [out EXCEPT ![k] = n]
        /\ \/ down' = down /\ pending' = [pending EXCEPT ![p] = Kept(p, n)]
           \/ writer \in Conns /\ down' = Written(writer, f) /\ pending' = pending
    BY <1>t, <1>3 DEF ShellOutput, Registered, TypeOK, Detached
  <2>2. \A j \in Shells : out[j] \in Nat /\ out'[j] \in Nat /\ out[j] <= out'[j]
    BY <1>t, <2>1 DEF TypeOK
  <2>3. Newer(p, n)
    BY <2>1 DEF Newer
  <2>4. data \in [PaneIds -> Seq(Nat)]
    BY <2>1, NoDataType
  <2>5. f \in DownFrame /\ f.op = "data" /\ f.src = shellOf /\ f.data = data
    BY <1>t, <2>4, DataFrameIsDown DEF DataFrame, TypeOK
  <2>6. Fresher(f)
    <3> SUFFICES ASSUME NEW q \in PaneIds, Feeds(f, q)
                 PROVE  /\ f.src[q] = shellOf[q] /\ shellOf[q] \in Shells /\ Rising(f.data[q])
                        /\ \A m \in ChunksIn(f, q) : Newer(q, m)
      BY DEF Fresher
    <3> HIDE DEF f
    <3>1. f.data[q] = IF q = p THEN <<n>> ELSE <<>>
      BY <2>5 DEF NoData
    <3>2. ChunksIn(f, q) = {f.data[q][i] : i \in 1..Len(f.data[q])}
      BY <2>5 DEF ChunksIn
    <3> HIDE DEF n, data, k
    <3>3. q = p
      BY <3>1, <3>2 DEF Feeds
    <3>4. f.data[q] = <<n>>
      BY <3>1, <3>3
    <3>5. \A m \in ChunksIn(f, q) : m = n
      BY <3>2, <3>4
    <3>6. Rising(f.data[q])
      BY <3>4 DEF Rising
    <3> QED BY <2>1, <2>3, <2>5, <3>3, <3>5, <3>6 DEF k
  <2> HIDE DEF f, n
  <2>7. \A q \in PaneIds : \A i \in 1..Len(pending'[q]) : Newer(q, pending'[q][i])
    <3>1. CASE pending' = pending
      BY <1>r, <3>1
    <3>2. CASE pending' = [pending EXCEPT ![p] = Kept(p, n)]
      <4>1. pending'[p] = Kept(p, n) /\ \A q \in PaneIds : q # p => pending'[q] = pending[q]
        BY <1>t, <3>2 DEF TypeOK
      <4>2. \A i \in 1..Len(Kept(p, n)) : Newer(p, Kept(p, n)[i])
        <5>1. \A i \in 1..Len(Kept(p, n)) :
                Kept(p, n)[i] = n \/ \E j \in 1..Len(pending[p]) : Kept(p, n)[i] = pending[p][j]
          BY <1>t, <2>1, KeptHolds DEF TypeOK
        <5> QED BY <1>r, <2>3, <5>1, Zenon
      <4> QED BY <1>r, <4>1, <4>2
    <3> QED BY <2>1, <3>1, <3>2
  <2>8. \A d \in Conns : down'[d] = down[d] \/ down'[d] = Append(down[d], f)
    BY <1>t, <2>1 DEF Written, TypeOK
  <2> QED BY <2>2, <2>5, <2>6, <2>7, <2>8 DEF OnlyNewer
<1> QED BY <1>t, <1>1, <1>2, <1>3, HostQuiet

LEMMA FitNothing ==
  ASSUME NEW p, NEW q, NEW ring, NEW h, NEW o
  PROVE  Fit(<<>>, p, q, ring, h, o)
BY DEF Fit, InOrder

LEMMA IncomingType ==
  ASSUME NumberInv, NEW s \in Owners
  PROVE  Incoming(s) \in Seq(DownFrame)
BY NumberTypes DEF Incoming

LEMMA HostSends ==
  ASSUME NumberInv, OnlyNewer, cur' = cur, NEW s \in Owners
  PROVE  \/ Incoming(s)' = Incoming(s)
         \/ /\ cur[s] \in Conns
            /\ \E f \in DownFrame : Fresher(f) /\ Incoming(s)' = Append(Incoming(s), f)
<1>1. CASE cur[s] \in Conns
  <2>1. Incoming(s) = down[cur[s]] /\ Incoming(s)' = down'[cur[s]]
    BY <1>1 DEF Incoming
  <2> QED BY <1>1, <2>1, Zenon DEF OnlyNewer
<1>2. CASE cur[s] \notin Conns
  BY <1>2 DEF Incoming
<1> QED BY <1>1, <1>2

LEMMA SomeFresher ==
  ASSUME NEW p \in PaneIds
  PROVE  \E f \in DownFrame : Fresher(f)
<1>1. [op |-> "exit", pane |-> p] \in DownFrame
  BY ExitIsDown
<1>2. Fresher([op |-> "exit", pane |-> p])
  BY DEF Fresher, Feeds, ChunksIn
<1> QED BY <1>1, <1>2

LEMMA HostFits ==
  ASSUME NumberInv, OnlyNewer, HostStep \/ ShellStep, cur' = cur,
         NEW s \in Owners, NEW p \in PaneIds, NEW scr \in Seq(Shells \X Nat),
         scr # <<>> => p \notin spawning,
         Fit(scr, p, Incoming(s), pending[p], shellOf[p], out)
  PROVE  Fit(scr, p, Incoming(s)', pending'[p], shellOf'[p], out')
<1>1. CASE scr = <<>>
  BY <1>1, FitNothing
<1>2. CASE scr # <<>>
  <2>1. shellOf'[p] \in {0, shellOf[p]}
    BY <1>2, ShellsMove
  <2>2. /\ \A k \in Shells : out[k] \in Nat /\ out'[k] \in Nat /\ out[k] <= out'[k]
        /\ \A n \in 1..Len(pending'[p]) : Newer(p, pending'[p][n])
    BY DEF OnlyNewer
  <2>3. Incoming(s) \in Seq(DownFrame)
    BY IncomingType
  <2>4. ASSUME NEW i \in 1..Len(scr), NEW f \in DownFrame, Fresher(f)
        PROVE  /\ Passed(scr[i], p, Incoming(s), pending'[p], shellOf'[p], out')
               /\ Passed(scr[i], p, Append(Incoming(s), f), pending'[p], shellOf'[p], out')
    <3>1. Passed(scr[i], p, Incoming(s), pending[p], shellOf[p], out)
      BY DEF Fit
    <3>2. Feeds(f, p) => /\ f.src[p] = shellOf[p] /\ shellOf[p] \in Shells
                         /\ \A m \in ChunksIn(f, p) : Newer(p, m)
      BY <2>4 DEF Fresher
    <3>3. Supplies(f, p, pending[p], shellOf[p], out, pending'[p], shellOf'[p], out')
      BY <2>1, <2>2, <3>2, Zenon DEF Supplies, Newer
    <3> QED BY <2>3, <3>1, <3>3, PassedMore
  <2> QED BY <2>4, SomeFresher, HostSends, Zenon DEF Fit
<1> QED BY <1>1, <1>2

LEMMA HostFlows ==
  ASSUME NumberInv, OnlyNewer, HostStep \/ ShellStep, cur' = cur, OnceMade, SeenOver,
         NEW s \in Owners, NEW p \in PaneIds, Flow(p, Incoming(s), shellOf[p])
  PROVE  Flow(p, Incoming(s)', shellOf'[p])
<1>1. Incoming(s) \in Seq(DownFrame)
  BY IncomingType
<1>2. ASSUME NEW f \in DownFrame, Fresher(f)
      PROVE  /\ Flow(p, Incoming(s), shellOf'[p])
             /\ Flow(p, Append(Incoming(s), f), shellOf'[p])
  <2>1. Feeds(f, p) => f.src[p] = shellOf[p] /\ shellOf[p] \in Shells /\ Rising(f.data[p])
    BY <1>2 DEF Fresher
  <2>2. Feeds(f, p) => p \notin spawning
    BY <2>1 DEF OnceMade, Registered, Shells
  <2>3. (\E j \in 1..Len(Incoming(s)) : Feeds(Incoming(s)[j], p)) => p \notin spawning
    BY DEF SeenOver, Seen, Over
  <2>4. p \notin spawning => shellOf'[p] \in {0, shellOf[p]}
    BY ShellsMove
  <2> QED BY <1>1, <2>1, <2>2, <2>3, <2>4, FlowMore
<1> QED BY <1>2, SomeFresher, HostSends, Zenon

LEMMA HostScreens ==
  ASSUME ScreenInv, HostStep \/ ShellStep, UNCHANGED srvVars
  PROVE  ScreenInv'
<1>n. NumberInv /\ OnceMade /\ ScreensFit /\ FlightsFit /\ SeenOver
  BY DEF ScreenInv, ShownInv
<1>1. OnlyNewer /\ ShownInv'
  BY <1>n, HostOutput, HostShown DEF ScreenInv
<1>2. UNCHANGED <<phase, cur, seq, listed, screen, resume>>
  BY DEF srvVars
<1>3. \A p \in PaneIds : Over(p) => Over(p)'
  <2>1. /\ \A p : Asked(p)' => Asked(p)
        /\ \A p \in PaneIds : p \in spawning' => p \in spawning \/ Asked(p)
    BY <1>n, HostFacts
  <2> QED BY <1>2, <2>1 DEF Over
<1>4. ASSUME NEW s \in Owners, NEW p \in PaneIds
      PROVE  /\ screen[s][p] \in Seq(Shells \X Nat) /\ resume[s].screen[p] \in Seq(Shells \X Nat)
             /\ screen[s][p] # <<>> => p \notin spawning
             /\ Wanted(s, p) /\ resume[s].screen[p] # <<>> => p \notin spawning
  <2>1. screen[s] \in Screens /\ resume[s].screen \in Screens
    BY <1>n DEF NumberInv, SessionInv, ServersOK
  <2> QED BY <1>n, <2>1 DEF Screens, SeenOver, Seen, Over
<1>5. \A s \in Owners, p \in PaneIds : Wanted(s, p)' <=> Wanted(s, p)
  BY <1>2 DEF Wanted
<1>6. ScreensFit'
  <2> SUFFICES ASSUME NEW s \in Owners, NEW p \in PaneIds
               PROVE  /\ Fit(screen[s][p], p, Incoming(s)', pending'[p], shellOf'[p], out')
                      /\ Wanted(s, p) =>
                           Fit(resume[s].screen[p], p, Incoming(s)', pending'[p], shellOf'[p], out')
    BY <1>2, <1>5 DEF ScreensFit
  <2>1. /\ Fit(screen[s][p], p, Incoming(s), pending[p], shellOf[p], out)
        /\ Wanted(s, p) => Fit(resume[s].screen[p], p, Incoming(s), pending[p], shellOf[p], out)
    BY <1>n DEF ScreensFit
  <2>2. Fit(screen[s][p], p, Incoming(s)', pending'[p], shellOf'[p], out')
    BY <1>n, <1>1, <1>2, <1>4, <2>1, HostFits
  <2>3. ASSUME Wanted(s, p)
        PROVE  Fit(resume[s].screen[p], p, Incoming(s)', pending'[p], shellOf'[p], out')
    BY <1>n, <1>1, <1>2, <1>4, <2>1, <2>3, HostFits
  <2> QED BY <2>2, <2>3
<1>7. FlightsFit'
  <2> SUFFICES ASSUME NEW s \in Owners, NEW p \in PaneIds
               PROVE  Flow(p, Incoming(s)', shellOf'[p])
    BY DEF FlightsFit
  <2> QED BY <1>n, <1>1, <1>2, HostFlows DEF FlightsFit
<1>8. Unfed'
  BY <1>2 DEF ScreenInv, Unfed
\* A frame that is new carries output of a pane that is registered.
<1>9. ASSUME NEW s \in Owners, NEW p \in PaneIds, NEW j \in 1..Len(Incoming(s)'),
             Feeds(Incoming(s)'[j], p)
      PROVE  \/ /\ j \in 1..Len(Incoming(s)) /\ Incoming(s)'[j] = Incoming(s)[j]
                /\ Feeds(Incoming(s)[j], p)
             \/ p \in Registered
  <2>1. CASE Incoming(s)' = Incoming(s)
    BY <1>9, <2>1
  <2>2. ASSUME NEW f \in DownFrame, Fresher(f), Incoming(s)' = Append(Incoming(s), f)
        PROVE  \/ /\ j \in 1..Len(Incoming(s)) /\ Incoming(s)'[j] = Incoming(s)[j]
                  /\ Feeds(Incoming(s)[j], p)
               \/ p \in Registered
    <3>1. Incoming(s) \in Seq(DownFrame)
      BY <1>n, IncomingType
    <3>2. \/ j \in 1..Len(Incoming(s)) /\ Incoming(s)'[j] = Incoming(s)[j]
          \/ Incoming(s)'[j] = f
      BY <2>2, <3>1
    <3>3. Feeds(f, p) => p \in Registered
      BY <2>2 DEF Fresher, Registered, Shells
    <3> QED BY <1>9, <3>2, <3>3
  <2> QED BY <1>n, <1>1, <1>2, <2>1, <2>2, HostSends
<1>10. SeenOver'
  <2> SUFFICES ASSUME NEW p \in PaneIds, Seen(p)' PROVE Over(p)
    BY <1>3 DEF SeenOver
  <2>1. Seen(p) \/ p \in Registered
    BY <1>2, <1>5, <1>9 DEF Seen
  <2> QED BY <1>n, <2>1, RegisteredOver DEF SeenOver
<1>11. Heralded'
  <2> SUFFICES ASSUME NEW s \in Owners, NEW p \in PaneIds, phase[s] = "listing",
                      NEW j \in 1..Len(Incoming(s)'), Feeds(Incoming(s)'[j], p)
               PROVE  Promised(s, p, j)'
    BY <1>2 DEF Heralded
  <2>1. cur[s] \in Conns /\ Incoming(s) = down[cur[s]] /\ Incoming(s)' = down'[cur[s]]
    <3>1. cur[s] \in Conns
      BY <1>n DEF NumberInv, Quiescent
    <3> QED BY <1>2, <3>1 DEF Incoming
  <2>2. Incoming(s)'[j].op = "data" /\ down'[cur[s]] \in Seq(DownFrame)
    <3>1. down' \in [Conns -> Seq(DownFrame)]
      BY <1>1 DEF ShownInv, NumberInv, SessionInv, HostInv, FlightInv, RingInv, KeptInv, TypeInv,
                  TypeOK
    <3> QED BY <2>1, <3>1 DEF Feeds, ChunksIn
  <2>3. CASE p \in Registered
    <3>1. Promised(s, p, Len(down[cur[s]]))
      BY <1>n, <2>3 DEF NumberInv, Replies, Promised
    <3>2. ASSUME NEW i \in 1..j, down'[cur[s]][i].op = "list_reply"
          PROVE  p \in down'[cur[s]][i].panes
      <4>1. i \in 1..Len(down'[cur[s]])
        BY <2>1, <2>2
      <4>2. CASE i \in 1..Len(down[cur[s]]) /\ down'[cur[s]][i] = down[cur[s]][i]
        BY <3>1, <3>2, <4>2 DEF Promised
      <4>3. CASE ~(i \in 1..Len(down[cur[s]]) /\ down'[cur[s]][i] = down[cur[s]][i])
        <5>1. PICK f \in DownFrame : down'[cur[s]] = Append(down[cur[s]], f)
          BY <1>n, <1>1, <1>2, <2>1, <4>1, <4>3, HostSends
        <5>2. down[cur[s]] \in Seq(DownFrame)
          BY <1>n, <2>1, NumberTypes
        <5>3. i = Len(down'[cur[s]])
          BY <4>1, <4>3, <5>1, <5>2
        <5>4. i = j
          BY <2>1, <2>2, <5>3
        <5> QED BY <2>1, <2>2, <3>2, <5>4
      <4> QED BY <4>2, <4>3
    <3> QED BY <1>2, <3>2 DEF Promised
  <2>4. CASE j \in 1..Len(Incoming(s)) /\ Incoming(s)'[j] = Incoming(s)[j] /\ Feeds(Incoming(s)[j], p)
    <3>1. Promised(s, p, j)
      BY <2>4 DEF ScreenInv, Heralded
    <3>2. \A i \in 1..j : down'[cur[s]][i] = down[cur[s]][i]
      <4>1. CASE down'[cur[s]] = down[cur[s]]
        BY <4>1
      <4>2. ASSUME NEW f \in DownFrame, down'[cur[s]] = Append(down[cur[s]], f)
            PROVE  \A i \in 1..j : down'[cur[s]][i] = down[cur[s]][i]
        <5>1. down[cur[s]] \in Seq(DownFrame)
          BY <1>n, <2>1, NumberTypes
        <5> QED BY <2>1, <2>4, <4>2, <5>1
      <4> QED BY <1>n, <1>1, <1>2, <2>1, <4>1, <4>2, HostSends
    <3> QED BY <1>2, <3>1, <3>2 DEF Promised
  <2> QED BY <1>9, <2>3, <2>4
<1> QED BY <1>1, <1>6, <1>7, <1>8, <1>10, <1>11 DEF ScreenInv

-----------------------------------------------------------------------------
(* The servers' steps: they read, forget, and hand their screens on.         *)

Less(t) == \/ Incoming(t)' = Incoming(t)
           \/ Incoming(t)' = <<>>
           \/ Incoming(t) # <<>> /\ Incoming(t)' = Tail(Incoming(t))

LEMMA IncomingLess ==
  ASSUME NEW t \in Owners,
         \A d \in Conns : down'[d] = down[d] \/ down'[d] = <<>>
                         \/ (down[d] # <<>> /\ down'[d] = Tail(down[d])),
         cur'[t] \in {cur[t], 0} \/ (cur'[t] \in Conns /\ down'[cur'[t]] = <<>>)
  PROVE  Less(t)
<1>1. CASE cur'[t] = cur[t] /\ cur[t] \in Conns
  BY <1>1 DEF Less, Incoming
<1>2. CASE cur'[t] = cur[t] /\ cur[t] \notin Conns
  BY <1>2 DEF Less, Incoming
<1>3. CASE cur'[t] = 0 \/ (cur'[t] \in Conns /\ down'[cur'[t]] = <<>>)
  BY <1>3 DEF Less, Incoming, Conns
<1> QED BY <1>1, <1>2, <1>3

LEMMA FitLess ==
  ASSUME NumberInv, UNCHANGED hostSide, NEW t \in Owners, Less(t), NEW p, NEW scr,
         Fit(scr, p, Incoming(t), pending[p], shellOf[p], out)
  PROVE  /\ Fit(scr, p, Incoming(t)', pending'[p], shellOf'[p], out')
         /\ Fit(scr, p, <<>>, pending'[p], shellOf'[p], out')
<1>1. UNCHANGED <<pending, shellOf, out>>
  BY DEF hostSide, paneVars
<1>2. Incoming(t) \in Seq(DownFrame)
  BY IncomingType
<1>3. ASSUME NEW i \in 1..Len(scr)
      PROVE  /\ Passed(scr[i], p, Incoming(t)', pending[p], shellOf[p], out)
             /\ Passed(scr[i], p, <<>>, pending[p], shellOf[p], out)
  <2>1. Passed(scr[i], p, Incoming(t), pending[p], shellOf[p], out)
    BY DEF Fit
  <2> QED BY <1>2, <2>1, PassedLess DEF Less
<1> QED BY <1>1, <1>3, Zenon DEF Fit

\* The places of what is still to come.
LEMMA LessPlaces ==
  ASSUME NumberInv, NEW t \in Owners, Less(t), NEW j \in 1..Len(Incoming(t)')
  PROVE  \/ /\ Incoming(t)' = Incoming(t)
            /\ j \in 1..Len(Incoming(t)) /\ Incoming(t)'[j] = Incoming(t)[j]
         \/ /\ Incoming(t) # <<>> /\ Incoming(t)' = Tail(Incoming(t))
            /\ j + 1 \in 1..Len(Incoming(t)) /\ Incoming(t)'[j] = Incoming(t)[j + 1]
<1>1. Incoming(t) \in Seq(DownFrame)
  BY IncomingType
<1>2. CASE Incoming(t)' = Incoming(t)
  BY <1>2
<1>3. CASE Incoming(t) # <<>> /\ Incoming(t)' = Tail(Incoming(t))
  BY <1>1, <1>3
<1>4. Incoming(t)' # <<>>
  OBVIOUS
<1> QED BY <1>2, <1>3, <1>4 DEF Less

LEMMA FlightsLess ==
  ASSUME NumberInv, FlightsFit, Heralded, UNCHANGED hostSide,
         \A t \in Owners : Less(t),
         \A t \in Owners : phase'[t] = "listing" =>
           Incoming(t)' = <<>> \/ (phase[t] = "listing" /\ cur'[t] = cur[t])
  PROVE  FlightsFit' /\ Heralded'
<1>1. shellOf' = shellOf
  BY DEF hostSide, paneVars
<1>2. FlightsFit'
  <2> SUFFICES ASSUME NEW t \in Owners, NEW p \in PaneIds
               PROVE  Flow(p, Incoming(t)', shellOf[p])
    BY <1>1 DEF FlightsFit
  <2>1. Flow(p, Incoming(t), shellOf[p]) /\ Incoming(t) \in Seq(DownFrame)
    BY IncomingType DEF FlightsFit
  <2> QED BY <2>1, FlowLess DEF Less
<1>3. Heralded'
  <2> SUFFICES ASSUME NEW t \in Owners, NEW p \in PaneIds, phase'[t] = "listing",
                      NEW j \in 1..Len(Incoming(t)'), Feeds(Incoming(t)'[j], p)
               PROVE  Promised(t, p, j)'
    BY DEF Heralded
  <2>1. phase[t] = "listing" /\ cur'[t] = cur[t]
    <3>1. Incoming(t)' # <<>>
      OBVIOUS
    <3> QED BY <3>1
  <2>2. cur[t] \in Conns /\ Incoming(t) = down[cur[t]] /\ Incoming(t)' = down'[cur[t]]
    <3>1. cur[t] \in Conns
      BY <2>1 DEF NumberInv, Quiescent
    <3> QED BY <2>1, <3>1 DEF Incoming
  <2>3. CASE /\ Incoming(t)' = Incoming(t)
             /\ j \in 1..Len(Incoming(t)) /\ Incoming(t)'[j] = Incoming(t)[j]
    BY <2>1, <2>2, <2>3 DEF Heralded, Promised
  <2>4. CASE /\ Incoming(t) # <<>> /\ Incoming(t)' = Tail(Incoming(t))
             /\ j + 1 \in 1..Len(Incoming(t)) /\ Incoming(t)'[j] = Incoming(t)[j + 1]
    <3>1. Promised(t, p, j + 1)
      BY <2>1, <2>4 DEF Heralded
    <3>2. Incoming(t) \in Seq(DownFrame)
      BY IncomingType
    <3>3. \A i \in 1..j : i + 1 \in 1..(j + 1) /\ down'[cur[t]][i] = down[cur[t]][i + 1]
      BY <2>2, <2>4, <3>2
    <3> QED BY <2>1, <3>1, <3>3 DEF Promised
  <2> QED BY <2>3, <2>4, LessPlaces
<1> QED BY <1>2, <1>3

\* What a server shows, or will restore, it has shown before or has from its predecessor.
LEMMA ScreensLess ==
  ASSUME NumberInv, ScreensFit, SeenOver, UNCHANGED hostSide,
         \A t \in Owners : Less(t),
         \A t \in Owners, p \in PaneIds :
           \/ screen'[t][p] = <<>>
           \/ screen'[t][p] = screen[t][p]
           \/ Wanted(t, p) /\ screen'[t][p] = resume[t].screen[p],
         \A t \in Owners, p \in PaneIds : Wanted(t, p)' =>
           \/ Wanted(t, p) /\ resume'[t].screen[p] = resume[t].screen[p]
           \/ Incoming(t)' = <<>> /\ \E u \in Owners : resume'[t].screen[p] = screen[u][p],
         \A p \in PaneIds : Seen(p)' /\ Over(p) => Over(p)'
  PROVE  ScreensFit' /\ SeenOver'
<1>1. ScreensFit'
  <2> SUFFICES ASSUME NEW t \in Owners, NEW p \in PaneIds
               PROVE  /\ Fit(screen'[t][p], p, Incoming(t)', pending'[p], shellOf'[p], out')
                      /\ Wanted(t, p)' =>
                           Fit(resume'[t].screen[p], p, Incoming(t)', pending'[p], shellOf'[p], out')
    BY DEF ScreensFit
  <2>1. ASSUME NEW u \in Owners
        PROVE  /\ Fit(screen[u][p], p, Incoming(u), pending[p], shellOf[p], out)
               /\ Wanted(u, p) =>
                    Fit(resume[u].screen[p], p, Incoming(u), pending[p], shellOf[p], out)
    BY DEF ScreensFit
  <2>2. Fit(screen'[t][p], p, Incoming(t)', pending'[p], shellOf'[p], out')
    <3>1. CASE screen'[t][p] = <<>>
      BY <3>1, FitNothing
    <3>2. CASE screen'[t][p] = screen[t][p]
      BY <2>1, <3>2, FitLess
    <3>3. CASE Wanted(t, p) /\ screen'[t][p] = resume[t].screen[p]
      BY <2>1, <3>3, FitLess
    <3> QED BY <3>1, <3>2, <3>3
  <2>3. ASSUME Wanted(t, p)'
        PROVE  Fit(resume'[t].screen[p], p, Incoming(t)', pending'[p], shellOf'[p], out')
    <3>1. CASE Wanted(t, p) /\ resume'[t].screen[p] = resume[t].screen[p]
      BY <2>1, <3>1, FitLess
    <3>2. ASSUME NEW u \in Owners, Incoming(t)' = <<>>, resume'[t].screen[p] = screen[u][p]
          PROVE  Fit(resume'[t].screen[p], p, Incoming(t)', pending'[p], shellOf'[p], out')
      BY <2>1, <3>2, FitLess
    <3> QED BY <2>3, <3>1, <3>2
  <2> QED BY <2>2, <2>3
<1>2. SeenOver'
  <2> SUFFICES ASSUME NEW p \in PaneIds, Seen(p)' PROVE Seen(p)
    BY DEF SeenOver
  <2>1. PICK t \in Owners : \/ screen'[t][p] # <<>>
                            \/ Wanted(t, p)' /\ resume'[t].screen[p] # <<>>
                            \/ \E j \in 1..Len(Incoming(t)') : Feeds(Incoming(t)'[j], p)
    BY DEF Seen
  <2>2. CASE screen'[t][p] # <<>>
    BY <2>2 DEF Seen
  <2>3. CASE Wanted(t, p)' /\ resume'[t].screen[p] # <<>>
    BY <2>3 DEF Seen
  <2>4. ASSUME NEW j \in 1..Len(Incoming(t)'), Feeds(Incoming(t)'[j], p) PROVE Seen(p)
    <3>1. \E i \in 1..Len(Incoming(t)) : Incoming(t)'[j] = Incoming(t)[i]
      BY LessPlaces
    <3> QED BY <2>4, <3>1 DEF Seen
  <2> QED BY <2>1, <2>2, <2>3, <2>4
<1> QED BY <1>1, <1>2

LEMMA ScreenTypes ==
  ASSUME NumberInv
  PROVE  /\ screen \in [Owners -> Screens] /\ resume \in [Owners -> [tabs : SUBSET Tab, screen : Screens]]
         /\ \A p \in PaneIds : Blank[p] = <<>>
BY DEF NumberInv, SessionInv, ServersOK, Blank

\* A step that asks for nothing and makes nobody start or end what it has begun.
LEMMA CalmScreens ==
  ASSUME ScreenInv, ShownInv', UNCHANGED hostSide, Unfed',
         \A p \in PaneIds : Asked(p)' => Asked(p),
         \A d \in Conns : down'[d] = down[d] \/ down'[d] = <<>>
                         \/ (down[d] # <<>> /\ down'[d] = Tail(down[d])),
         \A t \in Owners : cur'[t] \in {cur[t], 0} \/ (cur'[t] \in Conns /\ down'[cur'[t]] = <<>>),
         \A t \in Owners : phase'[t] = "listing" =>
           (phase[t] = "listing" /\ cur'[t] = cur[t]) \/ (cur'[t] \in Conns /\ down'[cur'[t]] = <<>>),
         \A t \in Owners : phase'[t] = "run" => phase[t] = "run" /\ seq'[t] = seq[t],
         \A t \in Owners : phase'[t] = "listed" => phase[t] = "listed" /\ listed'[t] = listed[t],
         \A t \in Owners, p \in PaneIds : screen'[t][p] = <<>> \/ screen'[t][p] = screen[t][p],
         \A t \in Owners, p \in PaneIds : Wanted(t, p)' =>
           \/ Wanted(t, p) /\ resume'[t].screen[p] = resume[t].screen[p]
           \/ cur'[t] = 0 /\ \E u \in Owners : resume'[t].screen[p] = screen[u][p]
  PROVE  ScreenInv'
<1>n. NumberInv /\ ScreensFit /\ FlightsFit /\ SeenOver /\ Heralded
  BY DEF ScreenInv, ShownInv
<1>1. \A t \in Owners : Less(t)
  BY IncomingLess
<1>2. \A t \in Owners : cur'[t] = 0 \/ (cur'[t] \in Conns /\ down'[cur'[t]] = <<>>) => Incoming(t)' = <<>>
  BY DEF Incoming, Conns
<1>3. FlightsFit' /\ Heralded'
  BY <1>n, <1>1, <1>2, FlightsLess
<1>4. \A p \in PaneIds : Over(p) => Over(p)'
  <2>1. spawning' = spawning
    BY DEF hostSide
  <2> QED BY <2>1 DEF Over
<1>5. ScreensFit' /\ SeenOver'
  BY <1>n, <1>1, <1>2, <1>4, ScreensLess
<1> QED BY <1>3, <1>5 DEF ScreenInv

\* Reading what carries no output.
LEMMA ReadScreens ==
  ASSUME ScreenInv, ShownInv', UNCHANGED <<hostSide, up>>, UNCHANGED srvVars,
         \A d \in Conns : down'[d] = down[d] \/ (down[d] # <<>> /\ down'[d] = Tail(down[d]))
  PROVE  ScreenInv'
<1>n. NumberInv
  BY DEF ScreenInv, ShownInv
<1>1. UNCHANGED <<phase, cur, seq, listed, screen, resume>>
  BY DEF srvVars
<1>2. Unfed' /\ \A t \in Owners, p \in PaneIds : Wanted(t, p)' => Wanted(t, p)
  BY <1>1 DEF ScreenInv, Unfed, Wanted
<1>3. \A p \in PaneIds : Asked(p)' => Asked(p)
  BY <1>n, SilentAsks, Zenon DEF Asked
<1> QED BY <1>1, <1>2, <1>3, CalmScreens

\* A successor is handed what its predecessor shows.
LEMMA PhaseScreens ==
  ASSUME ScreenInv, ShownInv', NEW s \in Owners,
         OnHostLost(s) \/ Launch(s) \/ \E t \in Owners : Restart(s, t)
  PROVE  ScreenInv'
<1>n. NumberInv /\ Unfed
  BY DEF ScreenInv, ShownInv
<1>1. UNCHANGED hostSide /\ UNCHANGED <<up, down>> /\ UNCHANGED <<seq, listed, screen>>
  BY DEF OnHostLost, Launch, Restart, hostVars, hostSide, peerVars
<1>2. \A p \in PaneIds : Asked(p)' => Asked(p)
  BY <1>n, <1>1, SilentAsks, Zenon DEF Asked
<1>3. /\ Unfed'
      /\ \A t \in Owners : cur'[t] \in {cur[t], 0}
      /\ \A t \in Owners : phase'[t] \in {"listing", "listed", "run"} =>
           phase'[t] = phase[t] /\ (phase'[t] = "listing" => cur'[t] = cur[t])
      /\ \A t \in Owners, p \in PaneIds : Wanted(t, p)' =>
           \/ Wanted(t, p) /\ resume'[t].screen[p] = resume[t].screen[p]
           \/ cur'[t] = 0 /\ \E u \in Owners : resume'[t].screen[p] = screen[u][p]
  <2>1. CASE OnHostLost(s)
    <3>1. /\ phase[s] \in {"run", "leaving"} /\ UNCHANGED <<phase, resume>> /\ cur'[s] = 0
          /\ \A t \in Owners : t # s => cur'[t] = cur[t]
      BY <1>n, <2>1, NumberTypes DEF OnHostLost
    <3>2. Unfed' /\ \A t \in Owners, p \in PaneIds : Wanted(t, p)' => Wanted(t, p)
      BY <1>n, <1>1, <3>1 DEF Unfed, Wanted
    <3> QED BY <3>1, <3>2
  <2>2. CASE Launch(s)
    <3>1. /\ phase[s] = "none" /\ phase'[s] = "boot" /\ UNCHANGED <<cur, resume>>
          /\ \A t \in Owners : t # s => phase'[t] = phase[t]
      BY <1>n, <2>2, NumberTypes DEF Launch
    <3>2. resume[s].tabs = {}
      BY <1>n, <3>1 DEF NumberInv, Idle
    <3>3. Unfed' /\ \A t \in Owners, p \in PaneIds : Wanted(t, p)' => Wanted(t, p)
      BY <1>n, <1>1, <3>1, <3>2 DEF Unfed, Wanted, PanesOf
    <3> QED BY <3>1, <3>3
  <2>3. ASSUME NEW t \in Owners, Restart(s, t)
        PROVE  /\ Unfed' /\ cur' = cur
               /\ \A u \in Owners : phase'[u] \in {"listing", "listed", "run"} => phase'[u] = phase[u]
               /\ \A u \in Owners, p \in PaneIds : Wanted(u, p)' =>
                    \/ Wanted(u, p) /\ resume'[u].screen[p] = resume[u].screen[p]
                    \/ cur'[u] = 0 /\ \E v \in Owners : resume'[u].screen[p] = screen[v][p]
    <3>1. /\ phase[s] = "run" /\ phase[t] = "none" /\ s # t
          /\ phase'[s] = "leaving" /\ phase'[t] = "boot" /\ resume'[t].screen = screen[s]
          /\ cur' = cur
          /\ \A u \in Owners : u # t => resume'[u] = resume[u] /\ (u # s => phase'[u] = phase[u])
      BY <1>n, <2>3, NumberTypes DEF Restart
    <3>2. cur[t] = 0
      BY <1>n, <3>1 DEF NumberInv, Idle
    <3>3. Unfed'
      BY <1>n, <1>1, <3>1 DEF Unfed
    <3>4. ASSUME NEW u \in Owners, NEW p \in PaneIds, Wanted(u, p)', u # t
          PROVE  Wanted(u, p) /\ resume'[u].screen[p] = resume[u].screen[p]
      BY <1>1, <3>1, <3>4 DEF Wanted
    <3> QED BY <3>1, <3>2, <3>3, <3>4
  <2> QED BY <2>1, <2>2, <2>3
<1>4. /\ \A t \in Owners : phase'[t] = "listing" => phase[t] = "listing" /\ cur'[t] = cur[t]
      /\ \A t \in Owners : phase'[t] = "run" => phase[t] = "run" /\ seq'[t] = seq[t]
      /\ \A t \in Owners : phase'[t] = "listed" => phase[t] = "listed" /\ listed'[t] = listed[t]
      /\ \A d \in Conns : down'[d] = down[d]
      /\ screen' = screen
  BY <1>1, <1>3
<1> QED BY <1>1, <1>2, <1>3, <1>4, CalmScreens

LEMMA OpenScreens ==
  ASSUME ScreenInv, ShownInv', NEW s \in Owners, NEW c \in Conns,
         Connect(s, c) \/ Reconnect(s, c)
  PROVE  ScreenInv'
<1>n. NumberInv /\ Unfed
  BY DEF ScreenInv, ShownInv
<1>1. PICK fs \in {<<OwnerCtl(s), Ctl("list")>>, <<OwnerCtl(s)>>} : Open(s, c, fs)
  BY DEF Connect, Reconnect
<1>2. /\ cur' = [cur EXCEPT ![s] = c]
      /\ UNCHANGED <<hostSide, down, seq, listed, screen, resume>>
      /\ \/ phase[s] = "boot" /\ phase' = [phase EXCEPT ![s] = "listing"]
         \/ phase' = phase /\ phase[s] \in {"run", "leaving"}
  BY DEF Connect, Reconnect
<1>3. /\ fs \in Seq(UpFrame)
      /\ \A p \in PaneIds : \A i \in 1..Len(fs) : fs[i] # PaneCtl("spawn", p)
  BY GreetingAsks
<1>4. up' = [up EXCEPT ![c] = up[c] \o fs] /\ down[c] = <<>>
  BY <1>n, <1>1, <1>3, OpenIs
<1>5. \A p \in PaneIds : Asked(p)' => Asked(p)
  BY <1>n, <1>2, <1>3, <1>4, WrittenAsks
<1>6. /\ cur'[s] = c /\ \A t \in Owners : t # s => cur'[t] = cur[t] /\ phase'[t] = phase[t]
      /\ phase'[s] # phase[s] => phase[s] = "boot" /\ phase'[s] = "listing"
  BY <1>n, <1>2, NumberTypes
<1>7. Unfed' /\ \A t \in Owners, p \in PaneIds : Wanted(t, p)' => Wanted(t, p)
  BY <1>n, <1>2, <1>6 DEF Unfed, Wanted
<1>8. /\ \A t \in Owners : cur'[t] \in {cur[t], 0} \/ (cur'[t] \in Conns /\ down'[cur'[t]] = <<>>)
      /\ \A t \in Owners : phase'[t] = "listing" =>
           (phase[t] = "listing" /\ cur'[t] = cur[t]) \/ (cur'[t] \in Conns /\ down'[cur'[t]] = <<>>)
      /\ \A t \in Owners : phase'[t] = "run" => phase[t] = "run" /\ seq'[t] = seq[t]
      /\ \A t \in Owners : phase'[t] = "listed" => phase[t] = "listed" /\ listed'[t] = listed[t]
      /\ \A d \in Conns : down'[d] = down[d]
      /\ UNCHANGED hostSide /\ screen' = screen /\ resume' = resume
  BY <1>2, <1>4, <1>6
<1> QED BY <1>5, <1>7, <1>8, CalmScreens

LEMMA ForgetScreens ==
  ASSUME ScreenInv, ShownInv', NEW s \in Owners, Forget(s), UNCHANGED hostSide,
         \A p \in PaneIds : Asked(p)' => Asked(p),
         \A d \in Conns : down'[d] = down[d] \/ down'[d] = <<>>
  PROVE  ScreenInv'
<1>n. NumberInv /\ Unfed
  BY DEF ScreenInv, ShownInv
<1>1. /\ phase'[s] = "gone" /\ cur'[s] = 0 /\ screen'[s] = Blank
      /\ \A t \in Owners : t # s =>
           /\ phase'[t] = phase[t] /\ cur'[t] = cur[t] /\ screen'[t] = screen[t]
           /\ listed'[t] = listed[t]
      /\ UNCHANGED <<seq, resume>>
  BY <1>n, NumberTypes, ScreenTypes DEF Forget
<1>2. Unfed' /\ \A t \in Owners, p \in PaneIds : Wanted(t, p)' => Wanted(t, p)
  BY <1>n, <1>1 DEF Unfed, Wanted
<1>3. \A t \in Owners, p \in PaneIds : screen'[t][p] = <<>> \/ screen'[t][p] = screen[t][p]
  BY <1>n, <1>1, ScreenTypes
<1>4. /\ \A t \in Owners : cur'[t] \in {cur[t], 0}
      /\ \A t \in Owners : phase'[t] = "listing" => phase[t] = "listing" /\ cur'[t] = cur[t]
      /\ \A t \in Owners : phase'[t] = "run" => phase[t] = "run" /\ seq'[t] = seq[t]
      /\ \A t \in Owners : phase'[t] = "listed" => phase[t] = "listed" /\ listed'[t] = listed[t]
  BY <1>1
<1> QED BY <1>1, <1>2, <1>3, <1>4, CalmScreens

LEMMA GoneScreens ==
  ASSUME ScreenInv, ShownInv', NEW s \in Owners,
         (OwnerDies(s) /\ Forget(s)) \/ \E c \in Conns : EndServer(s, c)
  PROVE  ScreenInv'
<1>n. NumberInv
  BY DEF ScreenInv, ShownInv
<1>1. CASE OwnerDies(s) /\ Forget(s)
  <2>1. UNCHANGED hostSide /\ up' = up /\ \A d \in Conns : down'[d] = down[d] \/ down'[d] = <<>>
    BY <1>1, Zenon DEF OwnerDies, hostSide
  <2>2. \A p \in PaneIds : Asked(p)' => Asked(p)
    BY <1>n, <2>1, SilentAsks, Zenon DEF Asked
  <2> QED BY <1>1, <2>1, <2>2, ForgetScreens
<1>2. ASSUME NEW c \in Conns, EndServer(s, c) PROVE ScreenInv'
  <2> DEFINE fs == <<Ctl("probe"), Ctl("shutdown")>>
  <2>1. /\ popen[c] = "none" /\ UNCHANGED hostSide /\ Forget(s)
        /\ up' = [up EXCEPT ![c] = fs]
        /\ down' = [d \in Conns |-> IF d = cur[s] THEN <<>> ELSE down[d]]
    BY <1>2 DEF EndServer, FreshConn
  <2>2. /\ fs \in Seq(UpFrame)
        /\ \A p \in PaneIds : \A i \in 1..Len(fs) : fs[i] # PaneCtl("spawn", p)
    BY GreetingAsks
  <2> HIDE DEF fs
  <2>3. up[c] \o fs = fs
    <3>1. up[c] = <<>>
      BY <1>n, <2>1 DEF NumberInv, Unopened
    <3> QED BY <2>2, <3>1
  <2>4. up' = [up EXCEPT ![c] = up[c] \o fs]
    BY <2>1, <2>3
  <2>5. \A p \in PaneIds : Asked(p)' => Asked(p)
    BY <1>n, <2>1, <2>2, <2>4, WrittenAsks
  <2>6. \A d \in Conns : down'[d] = down[d] \/ down'[d] = <<>>
    BY <2>1
  <2> QED BY <2>1, <2>5, <2>6, ForgetScreens
<1> QED BY <1>1, <1>2

LEMMA DropScreens ==
  ASSUME ScreenInv, ShownInv', NEW s \in Owners, NEW p \in PaneIds, DropPane(s, p),
         phase[s] \in {"run", "leaving", "ending"},
         UNCHANGED <<hostSide, cur, seq, listed, resume>>,
         \A d \in Conns : down'[d] = down[d] \/ (down[d] # <<>> /\ down'[d] = Tail(down[d]))
  PROVE  ScreenInv'
<1>n. NumberInv /\ Unfed
  BY DEF ScreenInv, ShownInv
<1>1. /\ screen' = [screen EXCEPT ![s] = [screen[s] EXCEPT ![p] = <<>>]]
      /\ phase' = phase \/ (phase[s] = "run" /\ phase' = [phase EXCEPT ![s] = "ending"])
      /\ up' = up \/ (p \in cbs[s] /\ Send(s, <<PaneCtl("close", p)>>))
  BY DEF DropPane
<1>2. /\ phase'[s] \in {phase[s], "ending"} /\ (phase'[s] = "ending" => phase[s] \in {"run", "ending"})
      /\ \A t \in Owners : t # s => phase'[t] = phase[t] /\ screen'[t] = screen[t]
      /\ \A q \in PaneIds : screen'[s][q] = <<>> \/ screen'[s][q] = screen[s][q]
  BY <1>n, <1>1, NumberTypes, ScreenTypes DEF Screens
<1>3. \A q \in PaneIds : Asked(q)' => Asked(q)
  BY <1>n, <1>1, DropAsks
<1>4. Unfed' /\ \A t \in Owners, q \in PaneIds : Wanted(t, q)' => Wanted(t, q)
  BY <1>n, <1>2 DEF Unfed, Wanted
<1>5. /\ \A t \in Owners : cur'[t] \in {cur[t], 0}
      /\ \A t \in Owners : phase'[t] = "listing" => phase[t] = "listing" /\ cur'[t] = cur[t]
      /\ \A t \in Owners : phase'[t] = "run" => phase[t] = "run" /\ seq'[t] = seq[t]
      /\ \A t \in Owners : phase'[t] = "listed" => phase[t] = "listed" /\ listed'[t] = listed[t]
      /\ \A t \in Owners, q \in PaneIds : screen'[t][q] = <<>> \/ screen'[t][q] = screen[t][q]
  BY <1>2
<1> QED BY <1>3, <1>4, <1>5, CalmScreens

LEMMA ExitScreens ==
  ASSUME ScreenInv, ShownInv', NEW s \in Owners, OnExit(s)
  PROVE  ScreenInv'
<1>n. NumberInv
  BY DEF ScreenInv, ShownInv
<1>1. /\ Got(s, "exit") /\ DropPane(s, Received(s).pane) /\ Received(s).pane \in cbs[s]
      /\ UNCHANGED <<hostSide, cur, seq, listed, resume>>
  BY DEF OnExit
<1>2. Received(s).pane \in PaneIds
  BY <1>n, <1>1, NumberTypes
<1>3. phase[s] \in {"run", "leaving", "ending"}
  BY <1>n, <1>1 DEF Got, Busy, NumberInv, Idle
<1>4. \A d \in Conns : down'[d] = down[d] \/ (down[d] # <<>> /\ down'[d] = Tail(down[d]))
  BY <1>n, <1>1, GotNumbers
<1> QED BY <1>1, <1>2, <1>3, <1>4, DropScreens

\* The list: whoever gets output later is on it.
LEMMA GotListScreens ==
  ASSUME ScreenInv, ShownInv', NEW s \in Owners, GotList(s)
  PROVE  ScreenInv'
<1>n. NumberInv /\ Unfed /\ ScreensFit /\ FlightsFit /\ SeenOver /\ Heralded
  BY DEF ScreenInv, ShownInv
<1>1. /\ Got(s, "list_reply") /\ phase[s] = "listing"
      /\ listed' = [listed EXCEPT ![s] = [panes |-> Received(s).panes, prev |-> Received(s).prev]]
      /\ phase' = [phase EXCEPT ![s] = "listed"]
      /\ down' = [down EXCEPT ![cur[s]] = Tail(@)]
      /\ UNCHANGED <<hostSide, up, cur, seq, screen, resume>>
  BY DEF GotList, Got
<1>2. /\ \A d \in Conns : down'[d] = down[d] \/ (down[d] # <<>> /\ down'[d] = Tail(down[d]))
      /\ cur[s] \in Conns /\ Received(s) = down[cur[s]][1] /\ 1 \in 1..Len(down[cur[s]])
      /\ Received(s).op = "list_reply"
  BY <1>n, <1>1, GotNumbers
<1>3. /\ phase'[s] = "listed" /\ listed'[s].panes = Received(s).panes
      /\ \A t \in Owners : t # s => phase'[t] = phase[t] /\ phase[t] \in {"none", "gone"}
                                   /\ cur[t] = 0
  <2>1. \A t \in Owners : t # s => phase[t] \in {"none", "gone"}
    BY <1>n, <1>1, Solo
  <2> QED BY <1>n, <1>1, <2>1, NumberTypes DEF NumberInv, Idle
<1>4. \A t \in Owners : Less(t)
  BY <1>1, <1>2, IncomingLess
<1>5. FlightsFit' /\ Heralded'
  <2>1. \A t \in Owners : phase'[t] # "listing"
    BY <1>3
  <2> QED BY <1>n, <1>1, <1>4, <2>1, FlightsLess
<1>6. \A t \in Owners : screen'[t] = Blank
  BY <1>n, <1>1, <1>3 DEF Unfed
<1>7. \A t \in Owners, p \in PaneIds : Wanted(t, p)' =>
        t = s /\ Wanted(t, p) /\ p \in Received(s).panes
  BY <1>1, <1>3 DEF Wanted
<1>8. ASSUME NEW p \in PaneIds, Seen(p)', Over(p) PROVE Over(p)'
  <2>1. p \in Received(s).panes
    <3>1. PICK t \in Owners : \/ screen'[t][p] # <<>>
                              \/ Wanted(t, p)'
                              \/ \E j \in 1..Len(Incoming(t)') : Feeds(Incoming(t)'[j], p)
      BY <1>8 DEF Seen
    <3>2. screen'[t][p] = <<>>
      BY <1>6 DEF Blank
    <3>3. ASSUME NEW j \in 1..Len(Incoming(t)'), Feeds(Incoming(t)'[j], p)
          PROVE  p \in Received(s).panes
      <4>1. t = s /\ cur'[s] = cur[s] /\ cur[s] \in Conns /\ Incoming(s) = down[cur[s]]
        BY <1>1, <1>2, <1>3, <3>3 DEF Incoming, Conns
      <4>2. PICK i \in 1..Len(Incoming(s)) : Feeds(Incoming(s)[i], p)
        BY <1>n, <1>4, <3>3, <4>1, LessPlaces
      <4>3. Promised(s, p, i)
        BY <1>n, <1>1, <4>2 DEF Heralded
      <4>4. 1 \in 1..i
        OBVIOUS
      <4> QED BY <1>2, <4>3, <4>4 DEF Promised
    <3> QED BY <1>7, <3>1, <3>2, <3>3
  <2>2. \A p1 \in PaneIds : Asked(p1)' => Asked(p1)
    BY <1>n, <1>1, SilentAsks, Zenon DEF Asked
  <2>3. spawning' = spawning
    BY <1>1 DEF hostSide
  <2> QED BY <1>3, <1>8, <2>1, <2>2, <2>3 DEF Over
<1>9. ScreensFit' /\ SeenOver'
  <2>1. \A t \in Owners, p \in PaneIds : screen'[t][p] = screen[t][p] /\ resume'[t] = resume[t]
    BY <1>1
  <2> QED BY <1>n, <1>1, <1>4, <1>7, <1>8, <2>1, ScreensLess
<1>10. Unfed'
  BY <1>6 DEF Unfed
<1> QED BY <1>5, <1>9, <1>10 DEF ScreenInv

LEMMA KillScreens ==
  ASSUME ScreenInv, ShownInv', NEW s \in Owners, NEW p \in PaneIds, KillPane(s, p)
  PROVE  ScreenInv'
<1>1. /\ phase[s] = "run" /\ DropPane(s, p) /\ UNCHANGED <<hostSide, cur, seq, listed, resume>>
      /\ \A d \in Conns : down'[d] = down[d]
  BY DEF KillPane
<1> QED BY <1>1, DropScreens

LEMMA SpawnScreens ==
  ASSUME ScreenInv, ShownInv', NEW s \in Owners, NEW ts, SpawnPane(s, ts)
  PROVE  ScreenInv'
<1>n. NumberInv /\ Unfed /\ ScreensFit /\ FlightsFit /\ SeenOver /\ Heralded
  BY DEF ScreenInv, ShownInv
<1>1. UNCHANGED <<hostSide, down, phase, cur, listed, screen, resume>>
  BY DEF SpawnPane
<1>2. \A t \in Owners : Less(t)
  BY <1>1 DEF Less, Incoming
<1>3. FlightsFit' /\ Heralded'
  BY <1>n, <1>1, <1>2, FlightsLess
<1>4. \A t \in Owners, p \in PaneIds : Wanted(t, p)' => Wanted(t, p)
  BY <1>1 DEF Wanted
<1>5. \A p \in PaneIds : Over(p) => Over(p)'
  BY <1>n, SpawnAsks
<1>6. ScreensFit' /\ SeenOver'
  BY <1>n, <1>1, <1>2, <1>4, <1>5, ScreensLess
<1>7. Unfed'
  BY <1>n, <1>1 DEF Unfed
<1> QED BY <1>3, <1>6, <1>7 DEF ScreenInv

LEMMA RestoreScreens ==
  ASSUME ScreenInv, ShownInv', NEW s \in Owners, Restore(s)
  PROVE  ScreenInv'
<1>n. NumberInv /\ Unfed /\ ScreensFit /\ FlightsFit /\ SeenOver /\ Heralded
  BY DEF ScreenInv, ShownInv
<1>1. /\ phase[s] = "listed" /\ phase' = [phase EXCEPT ![s] = "run"]
      /\ screen' = [screen EXCEPT ![s] = [p \in PaneIds |->
                      IF p \in PanesOf(Restorable(s)) THEN resume[s].screen[p] ELSE <<>>]]
      /\ UNCHANGED <<hostSide, down, cur>>
  BY DEF Restore
<1>2. /\ phase'[s] = "run"
      /\ \A p \in PaneIds : screen'[s][p] =
           IF p \in PanesOf(Restorable(s)) THEN resume[s].screen[p] ELSE <<>>
      /\ \A t \in Owners : t # s => /\ phase'[t] = phase[t] /\ phase[t] \in {"none", "gone"}
                                    /\ screen'[t] = screen[t]
  BY <1>n, <1>1, Solo, NumberTypes, ScreenTypes
<1>3. \A p \in PanesOf(Restorable(s)) : Wanted(s, p)
  <2>1. PanesOf(Restorable(s)) \subseteq listed[s].panes \cap PanesOf(resume[s].tabs)
    BY DEF PanesOf, Restorable
  <2> QED BY <1>1, <2>1 DEF Wanted
<1>4. \A t \in Owners : Less(t)
  BY <1>1 DEF Less, Incoming
<1>5. \A t \in Owners : phase'[t] \notin {"boot", "listing", "listed"}
  BY <1>2
<1>6. FlightsFit' /\ Heralded'
  BY <1>n, <1>1, <1>4, <1>5, FlightsLess
<1>7. \A t \in Owners, p \in PaneIds : ~Wanted(t, p)'
  BY <1>5 DEF Wanted
<1>8. \A t \in Owners, p \in PaneIds :
        \/ screen'[t][p] = <<>>
        \/ screen'[t][p] = screen[t][p]
        \/ Wanted(t, p) /\ screen'[t][p] = resume[t].screen[p]
  BY <1>2, <1>3
<1>9. ScreensFit' /\ SeenOver'
  BY <1>n, <1>1, <1>4, <1>7, <1>8, RestoreOver, ScreensLess
<1>10. Unfed'
  BY <1>n, <1>2 DEF Unfed
<1> QED BY <1>6, <1>9, <1>10 DEF ScreenInv

-----------------------------------------------------------------------------
(* Output is shown: what comes behind it is newer.                           *)

Entries(f, p) == [i \in 1..Len(f.data[p]) |-> <<f.src[p], f.data[p][i]>>]

LEMMA EntryPassed ==
  ASSUME NEW q \in Seq(DownFrame), q # <<>>, NEW p \in PaneIds, NEW ring, NEW h, NEW o,
         NEW f, f = q[1], f.op = "data", Flow(p, q, h), Read(f, p, o), BeforeRing(f, p, ring, h),
         \A j \in 1..Len(q) : 1 < j => Before(f, q[j], p), h = 0 => ring = <<>>,
         NEW m \in ChunksIn(f, p)
  PROVE  Passed(<<f.src[p], m>>, p, Tail(q), ring, h, o)
<1> DEFINE e == <<f.src[p], m>>
           r == Tail(q)
<1>1. e[1] = f.src[p] /\ e[2] = m
  OBVIOUS
<1>2. Feeds(f, p) /\ 1 \in 1..Len(q)
  BY DEF Feeds
<1>3. /\ h \in {0, f.src[p]}
      /\ \A i \in 1..Len(q) : Feeds(q[i], p) => q[i].src[p] = f.src[p]
  BY <1>2, Zenon DEF Flow
<1>4. f.src[p] \in Shells /\ m \in Nat /\ m <= o[f.src[p]]
  BY DEF Read
<1>5. \A n \in 1..Len(ring) : m < ring[n]
  <2>1. CASE h = 0
    BY <2>1
  <2>2. CASE h = f.src[p]
    BY <2>2 DEF BeforeRing
  <2> QED BY <1>3, <2>1, <2>2
<1>6. \A j \in 1..Len(r) : j + 1 \in 1..Len(q) /\ 1 < j + 1 /\ r[j] = q[j + 1]
  OBVIOUS
<1> HIDE DEF r
<1>7. ASSUME NEW j \in 1..Len(r), Feeds(r[j], p)
      PROVE  r[j].src[p] = f.src[p] /\ \A n \in ChunksIn(r[j], p) : m < n
  <2>1. r[j].src[p] = f.src[p] /\ r[j].op = "data" /\ Before(f, r[j], p)
    BY <1>3, <1>6, <1>7 DEF Feeds, ChunksIn
  <2> QED BY <2>1 DEF Before
<1> HIDE DEF e
<1>8. Passed(e, p, r, ring, h, o)
  BY <1>1, <1>3, <1>4, <1>5, <1>7, Zenon DEF Passed
<1> QED BY <1>8 DEF e, r

LEMMA EntriesIs ==
  ASSUME NEW f \in DownFrame, f.op = "data", NEW p \in PaneIds, NEW o, Read(f, p, o)
  PROVE  /\ Entries(f, p) \in Seq(Shells \X Nat) /\ Len(Entries(f, p)) = Len(f.data[p])
         /\ \A i \in 1..Len(f.data[p]) : /\ Entries(f, p)[i] = <<f.src[p], f.data[p][i]>>
                                         /\ f.data[p][i] \in Nat /\ f.data[p][i] \in ChunksIn(f, p)
<1>1. f.data[p] \in Seq(Nat) /\ Len(f.data[p]) \in Nat
  BY DEF DownFrame
<1>2. \A i \in 1..Len(f.data[p]) : f.data[p][i] \in ChunksIn(f, p)
  BY DEF ChunksIn
<1>3. \A i \in 1..Len(f.data[p]) : f.src[p] \in Shells /\ f.data[p][i] \in Nat
  BY <1>2 DEF Read
<1>4. \A i \in 1..Len(f.data[p]) : <<f.src[p], f.data[p][i]>> \in Shells \X Nat
  BY <1>3
<1>5. Entries(f, p) \in Seq(Shells \X Nat) /\ Len(Entries(f, p)) = Len(f.data[p])
  BY <1>1, <1>4 DEF Entries
<1>6. \A i \in 1..Len(f.data[p]) : Entries(f, p)[i] = <<f.src[p], f.data[p][i]>>
  BY DEF Entries
<1> QED BY <1>2, <1>3, <1>5, <1>6

LEMMA ShownFits ==
  ASSUME NEW q \in Seq(DownFrame), q # <<>>, NEW p \in PaneIds, NEW ring, NEW h, NEW o,
         NEW f, f = q[1], f.op = "data", Flow(p, q, h), Read(f, p, o), BeforeRing(f, p, ring, h),
         \A j \in 1..Len(q) : 1 < j => Before(f, q[j], p), h = 0 => ring = <<>>,
         NEW scr \in Seq(Shells \X Nat), Fit(scr, p, q, ring, h, o)
  PROVE  Fit(scr \o Entries(f, p), p, Tail(q), ring, h, o)
<1> DEFINE new == Entries(f, p)
           all == scr \o new
           l   == Len(scr)
<1>1. f \in DownFrame /\ 1 \in 1..Len(q)
  OBVIOUS
<1>5. /\ Len(new) = Len(f.data[p]) /\ new \in Seq(Shells \X Nat)
      /\ \A i \in 1..Len(new) : /\ new[i] = <<f.src[p], f.data[p][i]>>
                                /\ f.data[p][i] \in Nat /\ f.data[p][i] \in ChunksIn(f, p)
  BY <1>1, EntriesIs
<1> HIDE DEF new
<1>6. /\ l \in Nat /\ Len(new) \in Nat /\ Len(all) = l + Len(new)
      /\ \A i \in 1..l : all[i] = scr[i]
      /\ \A i \in 1..Len(new) : all[l + i] = new[i]
  <2>1. /\ l \in Nat /\ Len(new) \in Nat /\ Len(all) = l + Len(new)
        /\ \A i \in 1..(l + Len(new)) : all[i] = IF i <= l THEN scr[i] ELSE new[i - l]
    <3> DEFINE X == Shells \X Nat
    <3>1. scr \in Seq(X) /\ new \in Seq(X)
      BY <1>5
    <3> HIDE DEF X
    <3> QED BY <3>1, ConcatProperties, LenProperties
  <2> HIDE DEF all, l
  <2>2. \A i \in 1..l : i \in 1..(l + Len(new)) /\ i <= l
    BY <2>1
  <2>3. \A i \in 1..Len(new) : /\ l + i \in 1..(l + Len(new)) /\ ~(l + i <= l)
                               /\ l + i - l = i
    BY <2>1
  <2> QED BY <2>1, <2>2, <2>3
<1>7. \A i \in 1..Len(all) : i \in 1..l \/ \E j \in 1..Len(new) : i = l + j
  <2> SUFFICES ASSUME NEW i \in 1..Len(all), i \notin 1..l PROVE \E j \in 1..Len(new) : i = l + j
    OBVIOUS
  <2>1. i - l \in 1..Len(new) /\ i = l + (i - l)
    BY <1>6
  <2> QED BY <2>1
<1> HIDE DEF all, l
<1>8. \A i \in 1..l : Passed(scr[i], p, q, ring, h, o)
  BY Zenon DEF Fit, l
<1>9. \A i \in 1..l : Passed(scr[i], p, Tail(q), ring, h, o)
  BY <1>8, PassedLess
<1>10. \A j \in 1..Len(new) : Passed(new[j], p, Tail(q), ring, h, o)
  BY <1>5, EntryPassed
<1>11. \A i \in 1..Len(all) : Passed(all[i], p, Tail(q), ring, h, o)
  BY <1>6, <1>7, <1>9, <1>10
<1>12. ASSUME NEW i \in 1..Len(all), NEW j \in 1..Len(all), i < j
       PROVE  all[i][1] = all[j][1] /\ all[i][2] < all[j][2]
  <2>1. CASE j \in 1..l
    <3>1. i \in 1..l
      BY <1>6, <1>12, <2>1
    <3>2. scr[i][1] = scr[j][1] /\ scr[i][2] < scr[j][2]
      BY <1>12, <2>1, <3>1 DEF Fit, InOrder, l
    <3> QED BY <1>6, <2>1, <3>1, <3>2
  <2>2. ASSUME NEW b \in 1..Len(new), j = l + b
        PROVE  all[i][1] = all[j][1] /\ all[i][2] < all[j][2]
    <3>1. /\ all[j][1] = f.src[p] /\ all[j][2] = f.data[p][b] /\ f.data[p][b] \in ChunksIn(f, p)
      <4>1. all[j] = new[b]
        BY <1>6, <2>2
      <4>2. new[b] = <<f.src[p], f.data[p][b]>> /\ f.data[p][b] \in ChunksIn(f, p)
        BY <1>5
      <4> QED BY <4>1, <4>2
    <3>2. Feeds(f, p)
      BY <3>1 DEF Feeds
    <3>3. CASE i \in 1..l
      <4>1. f.src[p] = scr[i][1] /\ \A m \in ChunksIn(f, p) : scr[i][2] < m
        BY <1>1, <1>8, <3>2, <3>3, Zenon DEF Passed
      <4> QED BY <1>6, <3>1, <3>3, <4>1
    <3>4. ASSUME NEW a \in 1..Len(new), i = l + a
          PROVE  all[i][1] = all[j][1] /\ all[i][2] < all[j][2]
      <4>1. all[i][1] = f.src[p] /\ all[i][2] = f.data[p][a]
        <5>1. all[i] = new[a] /\ new[a] = <<f.src[p], f.data[p][a]>>
          BY <1>5, <1>6, <3>4
        <5> QED BY <5>1
      <4>2. a < b
        BY <1>6, <1>12, <2>2, <3>4
      <4>3. Rising(f.data[p])
        BY <1>1, <3>2, Zenon DEF Flow
      <4>4. f.data[p][a] < f.data[p][b]
        BY <1>5, <4>2, <4>3 DEF Rising
      <4> QED BY <3>1, <4>1, <4>4
    <3> QED BY <1>7, <3>3, <3>4
  <2> QED BY <1>7, <2>1, <2>2
<1>13. Fit(all, p, Tail(q), ring, h, o)
  BY <1>11, <1>12 DEF Fit, InOrder
<1> QED BY <1>13 DEF all, new

LEMMA ShowScreens ==
  ASSUME ScreenInv, ShownInv', NEW s \in Owners, ShowOutput(s)
  PROVE  ScreenInv'
<1> DEFINE f == Received(s)
<1>n. NumberInv /\ Unfed /\ ScreensFit /\ FlightsFit /\ SeenOver /\ Heralded
  BY DEF ScreenInv, ShownInv
<1>1. /\ Got(s, "data") /\ UNCHANGED <<hostSide, up, phase, cur, seq, listed, resume>>
      /\ screen' = [screen EXCEPT ![s] = [p \in PaneIds |->
           IF p \in cbs[s] THEN screen[s][p] \o Entries(f, p) ELSE screen[s][p]]]
  BY DEF ShowOutput, Entries
<1>2. /\ \A d \in Conns : down'[d] = down[d] \/ (down[d] # <<>> /\ down'[d] = Tail(down[d]))
      /\ cur[s] \in Conns /\ f = down[cur[s]][1] /\ 1 \in 1..Len(down[cur[s]])
      /\ f \in DownFrame /\ f.op = "data"
      /\ down[cur[s]] # <<>> /\ down' = [down EXCEPT ![cur[s]] = Tail(@)]
  BY <1>n, <1>1, GotNumbers DEF Got
<1>3. /\ Incoming(s) = down[cur[s]] /\ Incoming(s)' = Tail(Incoming(s)) /\ Incoming(s) # <<>>
      /\ f = Incoming(s)[1] /\ Incoming(s) \in Seq(DownFrame)
  BY <1>n, <1>1, <1>2, NumberTypes DEF Incoming
<1> HIDE DEF f
<1>4. \A t \in Owners : Less(t)
  BY <1>1, <1>2, IncomingLess
<1>5. FlightsFit' /\ Heralded'
  BY <1>n, <1>1, <1>4, FlightsLess
<1>6. /\ \A p \in PaneIds : screen'[s][p] =
           IF p \in cbs[s] THEN screen[s][p] \o Entries(f, p) ELSE screen[s][p]
      /\ \A t \in Owners : t # s => screen'[t] = screen[t]
      /\ \A p \in PaneIds : screen[s][p] \in Seq(Shells \X Nat)
  BY <1>n, <1>1, ScreenTypes DEF Screens
<1>7. \A t \in Owners, p \in PaneIds : Wanted(t, p)' <=> Wanted(t, p)
  BY <1>1 DEF Wanted
<1>8. UNCHANGED <<pending, shellOf, out>>
  BY <1>1 DEF hostSide, paneVars
<1>9. ASSUME NEW p \in PaneIds
      PROVE  /\ Read(f, p, out) /\ BeforeRing(f, p, pending[p], shellOf[p])
             /\ \A j \in 1..Len(Incoming(s)) : 1 < j => Before(f, Incoming(s)[j], p)
             /\ shellOf[p] = 0 => pending[p] = <<>>
  <2>1. Sound(Incoming(s), pending, shellOf, out) /\ KeptIsNewest
    BY <1>n, <1>2, <1>3, NumberTypes DEF HostInv, FlightInv, FlightOK, RingInv
  <2>2. 1 \in 1..Len(Incoming(s))
    BY <1>2, <1>3
  <2>3. Read(f, p, out) /\ BeforeRing(f, p, pending[p], shellOf[p])
    BY <1>3, <2>1, <2>2, Zenon DEF Sound
  <2>4. \A j \in 1..Len(Incoming(s)) : 1 < j => Before(f, Incoming(s)[j], p)
    BY <1>3, <2>1, <2>2, Zenon DEF Sound
  <2>5. shellOf[p] = 0 => pending[p] = <<>>
    BY <2>1 DEF KeptIsNewest, Registered
  <2> QED BY <2>3, <2>4, <2>5
<1>10. ScreensFit'
  <2> SUFFICES ASSUME NEW t \in Owners, NEW p \in PaneIds
               PROVE  /\ Fit(screen'[t][p], p, Incoming(t)', pending[p], shellOf[p], out)
                      /\ Wanted(t, p) =>
                           Fit(resume[t].screen[p], p, Incoming(t)', pending[p], shellOf[p], out)
    BY <1>1, <1>7, <1>8 DEF ScreensFit
  <2>1. /\ Fit(screen[t][p], p, Incoming(t), pending[p], shellOf[p], out)
        /\ Wanted(t, p) => Fit(resume[t].screen[p], p, Incoming(t), pending[p], shellOf[p], out)
    BY <1>n DEF ScreensFit
  <2>2. CASE t = s /\ p \in cbs[s]
    <3>1. Flow(p, Incoming(s), shellOf[p])
      BY <1>n DEF FlightsFit
    <3>2. Fit(screen[s][p] \o Entries(f, p), p, Tail(Incoming(s)), pending[p], shellOf[p], out)
      BY <1>2, <1>3, <1>6, <1>9, <2>1, <2>2, <3>1, ShownFits
    <3>3. Fit(screen'[s][p], p, Incoming(s)', pending[p], shellOf[p], out)
      BY <1>3, <1>6, <2>2, <3>2
    <3>4. ASSUME Wanted(s, p)
          PROVE  Fit(resume[s].screen[p], p, Incoming(s)', pending[p], shellOf[p], out)
      BY <1>n, <1>1, <1>4, <1>8, <2>1, <2>2, <3>4, FitLess
    <3> QED BY <2>2, <3>3, <3>4
  <2>3. CASE ~(t = s /\ p \in cbs[s])
    <3>1. screen'[t][p] = screen[t][p]
      BY <1>6, <2>3
    <3>2. Fit(screen[t][p], p, Incoming(t)', pending[p], shellOf[p], out)
      BY <1>n, <1>1, <1>4, <1>8, <2>1, FitLess
    <3>3. ASSUME Wanted(t, p)
          PROVE  Fit(resume[t].screen[p], p, Incoming(t)', pending[p], shellOf[p], out)
      BY <1>n, <1>1, <1>4, <1>8, <2>1, <3>3, FitLess
    <3> QED BY <3>1, <3>2, <3>3
  <2> QED BY <2>2, <2>3
<1>11. SeenOver'
  <2>1. \A p \in PaneIds : Over(p) => Over(p)'
    <3>1. \A p \in PaneIds : Asked(p)' => Asked(p)
      BY <1>n, <1>1, SilentAsks, Zenon DEF Asked
    <3>2. spawning' = spawning
      BY <1>1 DEF hostSide
    <3> QED BY <1>1, <3>1, <3>2 DEF Over
  <2> SUFFICES ASSUME NEW p \in PaneIds, Seen(p)' PROVE Seen(p)
    BY <1>n, <2>1 DEF SeenOver
  <2>2. PICK t \in Owners : \/ screen'[t][p] # <<>>
                            \/ Wanted(t, p) /\ resume[t].screen[p] # <<>>
                            \/ \E j \in 1..Len(Incoming(t)') : Feeds(Incoming(t)'[j], p)
    BY <1>1, <1>7 DEF Seen
  <2>3. ASSUME NEW j \in 1..Len(Incoming(t)'), Feeds(Incoming(t)'[j], p) PROVE Seen(p)
    <3>1. \E i \in 1..Len(Incoming(t)) : Incoming(t)'[j] = Incoming(t)[i]
      BY <1>n, <1>4, LessPlaces
    <3> QED BY <2>3, <3>1 DEF Seen
  <2>4. CASE screen'[t][p] # <<>>
    <3>1. CASE screen[t][p] # <<>>
      BY <3>1 DEF Seen
    <3>2. CASE screen[t][p] = <<>>
      <4>1. t = s /\ screen'[s][p] = screen[s][p] \o Entries(f, p)
        BY <1>6, <2>4, <3>2
      <4>2. Entries(f, p) \in Seq(Shells \X Nat) /\ Len(Entries(f, p)) = Len(f.data[p])
            /\ \A i \in 1..Len(f.data[p]) : f.data[p][i] \in ChunksIn(f, p)
        BY <1>2, <1>9, EntriesIs
      <4>3. Entries(f, p) # <<>>
        BY <2>4, <3>2, <4>1, <4>2
      <4>4. 1 \in 1..Len(f.data[p])
        BY <4>2, <4>3
      <4>5. Feeds(Incoming(s)[1], p) /\ 1 \in 1..Len(Incoming(s))
        BY <1>2, <1>3, <4>2, <4>4 DEF Feeds
      <4> QED BY <4>1, <4>5 DEF Seen
    <3> QED BY <3>1, <3>2
  <2> QED BY <2>2, <2>3, <2>4 DEF Seen
<1>12. Unfed'
  <2> SUFFICES ASSUME NEW t \in Owners, phase[t] \notin {"run", "leaving", "ending"}
               PROVE  screen'[t] = Blank
    BY <1>1 DEF Unfed
  <2>1. screen[t] = Blank
    BY <1>n DEF Unfed
  <2>2. CASE t # s
    BY <1>6, <2>1, <2>2
  <2>3. CASE t = s
    <3>1. cbs[s] = {}
      BY <1>n, <1>1, <2>3 DEF Got, Busy, NumberInv, Idle
    <3>2. screen'[s] = [p \in PaneIds |-> screen[s][p]]
      BY <1>n, <1>1, <3>1, ScreenTypes
    <3> QED BY <2>1, <2>3, <3>2 DEF Blank
  <2> QED BY <2>2, <2>3
<1> QED BY <1>5, <1>10, <1>11, <1>12 DEF ScreenInv

-----------------------------------------------------------------------------
(* The theorem about the order on screens.                                   *)

LEMMA ScreenBegins == SessionInit => ScreenInv
<1> SUFFICES ASSUME SessionInit PROVE ScreenInv
  OBVIOUS
<1>1. ShownInv
  BY ShownBegins
<1>2. \A s \in Owners : phase[s] = "none" /\ cur[s] = 0 /\ screen[s] = Blank
  BY DEF SessionInit
<1>3. \A s \in Owners : Incoming(s) = <<>>
  BY <1>2 DEF Incoming, Conns
<1>4. \A s \in Owners, p \in PaneIds : ~Wanted(s, p) /\ screen[s][p] = <<>>
  BY <1>2 DEF Wanted, Blank
<1>5. ScreensFit /\ FlightsFit
  BY <1>3, <1>4, FitNothing DEF ScreensFit, FlightsFit, Flow
<1>6. Unfed /\ SeenOver /\ Heralded
  BY <1>2, <1>3, <1>4 DEF Unfed, SeenOver, Seen, Heralded
<1> QED BY <1>1, <1>5, <1>6 DEF ScreenInv

LEMMA ServerScreens ==
  ASSUME Prompt, ScreenInv, ShownInv', NEW s \in Owners, ServerStep(s) \/ UserStep(s)
  PROVE  ScreenInv'
<1>n. NumberInv
  BY DEF ScreenInv, ShownInv
<1>1. ASSUME OnOther(s) PROVE ScreenInv'
  <2>1. PICK op \in {"spawned", "list_reply", "exit"} : Got(s, op)
    BY <1>1 DEF OnOther
  <2>2. UNCHANGED <<hostSide, up>> /\ UNCHANGED srvVars
    BY <1>1, Zenon DEF OnOther
  <2>3. \A d \in Conns : down'[d] = down[d] \/ (down[d] # <<>> /\ down'[d] = Tail(down[d]))
    BY <1>n, <2>1, GotNumbers
  <2> QED BY <2>2, <2>3, ReadScreens
<1>2. ASSUME ListTimesOut(s) PROVE FALSE
  BY <1>2 DEF ListTimesOut, Prompt
<1>3. CASE ServerStep(s)
  BY <1>1, <1>2, <1>3, GotListScreens, RestoreScreens, ShowScreens, ExitScreens, GoneScreens,
     PhaseScreens, OpenScreens DEF ServerStep, RestartExit
<1>4. CASE UserStep(s)
  BY <1>4, PhaseScreens, SpawnScreens, GoneScreens, KillScreens
     DEF UserStep, NewTab, SplitTab, Crash
<1> QED BY <1>3, <1>4

LEMMA ScreenStep ==
  ASSUME Prompt
  PROVE  ScreenInv /\ [SessionNext]_sessionVars => ScreenInv'
<1> SUFFICES ASSUME ScreenInv, [SessionNext]_sessionVars PROVE ScreenInv'
  OBVIOUS
<1>1. ShownInv'
  BY ShownStep DEF ScreenInv
<1>2. CASE (HostStep \/ ShellStep) /\ UNCHANGED srvVars
  BY <1>2, HostScreens
<1>3. ASSUME NEW s \in Owners, ServerStep(s) \/ UserStep(s) PROVE ScreenInv'
  BY <1>1, <1>3, ServerScreens
<1>4. CASE UNCHANGED sessionVars
  <2>1. UNCHANGED <<hostSide, up, down>> /\ UNCHANGED srvVars
    BY <1>4 DEF sessionVars, hostVars, hostSide
  <2>2. \A d \in Conns : down'[d] = down[d]
    BY <2>1
  <2> QED BY <1>1, <2>1, <2>2, ReadScreens
<1> QED BY <1>2, <1>3, <1>4 DEF SessionNext

\* Whatever restarts, crashes and spawns race, a screen shows the output of one PTY,
\* every chunk at most once and in the order it was read (_flush, _on_data, restoring a
\* pane from the resume file), as long as starting servers hear of all panes in time.
THEOREM ScreenInOrderCorrect ==
  ASSUME Prompt
  PROVE  SessionSpec => []ScreenInOrder
<1>1. ScreenInv => ScreenInOrder
  BY DEF ScreenInv, ScreensFit, Fit, InOrder, ScreenInOrder
<1> QED BY <1>1, ScreenBegins, ScreenStep, PTL DEF SessionSpec

-----------------------------------------------------------------------------
(* Panes that nobody shows.  The daemon loses track of none: what it has, is   *)
(* making or is asked for is in a tab of the server, or a close frame for it   *)
(* is on its way.  A server that starts inherits what its predecessor left;    *)
(* it closes what it does not restore (_prune_unknown_host_panes) because the  *)
(* daemon tells it that the predecessor is dead.  All of it needs that nothing *)
(* but the end of the daemon closes the connection: after an error of the      *)
(* backend (SpawnErrs) the close frames of killed panes are lost with it.      *)

\* A connection on which the daemon has nothing left to read or to answer.
Hushed(d) == hpc[d] = "closed" \/ (up[d] = <<>> /\ (hpc[d] = "serve" \/ popen[d] = "none"))
Attended(s) == phase[s] \in {"listing", "listed", "run"}

\* Who is gone is dead, and whom the daemon heard or will hear of has connected.
GoneDead == \A s \in Owners : phase[s] = "gone" => s \notin alive
Connected(o) == phase[o] \notin {"none", "boot"}
Named == /\ ownerPid # NoOwner => Connected(ownerPid)
         /\ \A c \in Conns : \A i \in 1..Len(up[c]) :
              up[c][i].op = "owner" => Connected(up[c][i].pid)
\* A daemon that nobody has claimed has no panes.
Unclaimed == ownerPid = NoOwner => \A p \in PaneIds : p \notin Taken /\ ~Asked(p)

\* The connection c of server s is the only one that says anything; once it was
\* answered, nothing but the end of the daemon closes it.
Link(s, c) ==
  /\ c \in Conns /\ popen[c] = "open" /\ (hclosed[c] => hpc[c] = "closed")
  /\ \A d \in Conns : d # c => Hushed(d)
  /\ phase[s] # "listing" => Serving(c) /\ ~hclosed[c] /\ ownerPid # NoOwner
\* The previous owner, as the daemon knows it, is dead, or there is nothing to inherit.
Inherited == IF prevOwner = NoOwner THEN Registered = {} ELSE prevOwner \notin alive
\* A server that starts says who it is and then asks for the list.
Greeting(s, q) == Len(q) <= 2 /\ \A i \in 1..Len(q) : q[i] = IF i = Len(q) THEN Ctl("list") ELSE OwnerCtl(s)
Greets(s, c) == hpc[c] # "closed" =>
  /\ Greeting(s, up[c])
  /\ hpc[c] = "listing" => up[c] = <<>>
  /\ Len(up[c]) = 2 => ownerPid # s
  /\ Len(up[c]) < 2 => ownerPid # NoOwner /\ Inherited
\* Nothing is kept from a server that is told that its predecessor lives.
Pruning(prev) == prev = "dead" \/ Registered = {}
Answered(c) == \A i \in 1..Len(down[c]) : down[c][i].op = "list_reply" =>
  hpc[c] = "serve" /\ up[c] = <<>> /\ Pruning(down[c][i].prev)
\* A close frame for pane p, after any frame that asks for it.
ClosedAfter(q, p) == \E j \in 1..Len(q) :
  /\ q[j] = PaneCtl("close", p)
  /\ \A i \in 1..Len(q) : q[i] = PaneCtl("spawn", p) => i < j
Accounted(s, c) == \A p \in PaneIds :
  p \in Taken \/ Asked(p) => p \in Shown(s) \/ ClosedAfter(up[c], p)

Attending(s) ==
  /\ Attended(s) => Link(s, cur[s])
  /\ phase[s] = "listing" => Greets(s, cur[s]) /\ Answered(cur[s])
  /\ phase[s] = "listed"  => Pruning(listed[s].prev)
  /\ phase[s] = "run"     => Shown(s) \subseteq cbs[s] /\ Accounted(s, cur[s])

LeakInv == /\ ShownInv /\ GoneDead /\ Named /\ Unclaimed
           /\ hostUp => \A s \in Owners : Attending(s)

\* What has nothing to say can only end.
LEMMA HushedEnds ==
  ASSUME Unopened, NEW c \in Conns, ConnStep(c), Hushed(c)
  PROVE  OnEof(c)
<1>1. hpc[c] # "closed" /\ up[c] = <<>> /\ (hpc[c] = "serve" \/ (hpc[c] = "none" /\ popen[c] = "none"))
  <2>1. hpc[c] # "closed"
    BY DEF ConnStep, Accept, Authenticate, DeclareProbe, AdoptServer, OnEof, Taking, OnOwner,
           OnUnknown, OnSpawnAgain, OnSpawn, SpawnFails, SpawnLands, OnClose, OnPause, OnResume,
           OnList, ListAnswered, OnShutdown, ShutdownSettled, BackendSpawn
  <2> QED BY <2>1 DEF Hushed, Unopened
<1> QED BY <1>1 DEF ConnStep, Accept, Authenticate, DeclareProbe, AdoptServer, Taking, OnOwner,
         OnUnknown, OnSpawnAgain, OnSpawn, SpawnFails, SpawnLands, OnClose, OnPause, OnResume,
         OnList, ListAnswered, OnShutdown, ShutdownSettled, BackendSpawn

LEMMA HostHushes ==
  ASSUME NumberInv, HostStep \/ ShellStep, hostUp', NEW d \in Conns, Hushed(d)
  PROVE  Hushed(d)'
<1>t. TypeOK /\ HostInv /\ Down /\ Unopened
  BY NumberTypes DEF NumberInv
<1>1. popen' = popen /\ Reads(d)
  BY <1>t, HostMoves
<1>2. CASE hpc[d] = "closed"
  BY <1>1, <1>2 DEF Hushed, Reads
<1>3. CASE hpc[d] # "closed"
  <2>1. up[d] = <<>> /\ up'[d] = <<>> /\ (hpc[d] = "serve" \/ popen[d] = "none")
    BY <1>1, <1>3 DEF Hushed, Reads
  <2>2. hpc'[d] = hpc[d] \/ hpc'[d] = "closed"
    <3>1. ASSUME NEW c \in Conns, ConnStep(c) PROVE hpc'[d] = hpc[d] \/ hpc'[d] = "closed"
      <4>1. CASE c # d
        BY <1>t, <3>1, <4>1, ConnReads
      <4>2. CASE c = d
        <5>1. OnEof(d)
          BY <1>t, <3>1, <4>2, HushedEnds
        <5> QED BY <1>t, <5>1 DEF OnEof, CloseConn, TypeOK
      <4> QED BY <4>1, <4>2
    <3>2. (\E c \in Conns : ConnStep(c)) \/ hpc' = hpc
      BY Zenon DEF HostStep, ShellStep, ShellOutput, ShellExit, Watchdog, WatchAttached, WatchIdle,
                   WatchVerdict, WatchSettled, ReaderEof, FinishEof, HostExit, connVars
    <3> QED BY <3>1, <3>2
  <2> QED BY <1>1, <2>1, <2>2 DEF Hushed
<1> QED BY <1>2, <1>3

\* The owner the daemon knows of changes by an owner frame only.
LEMMA HostOwners ==
  ASSUME NumberInv, HostStep \/ ShellStep
  PROVE  /\ alive' = alive
         /\ UNCHANGED <<ownerPid, prevOwner>> \/ \E d \in Conns : OnOwner(d)
         /\ ownerPid # NoOwner => ownerPid' # NoOwner
<1>t. up \in [Conns -> Seq(UpFrame)]
  BY NumberTypes
<1>1. /\ alive' = alive
      /\ UNCHANGED <<ownerPid, prevOwner>> \/ \E d \in Conns : OnOwner(d)
  BY Zenon DEF HostStep, ShellStep, ShellOutput, ShellExit, Watchdog, WatchAttached, WatchIdle,
       WatchVerdict, WatchSettled, ReaderEof, FinishEof, HostExit, ConnStep, Accept, Authenticate,
       DeclareProbe, AdoptServer, OnEof, OnOwner, OnUnknown, OnSpawnAgain, OnSpawn, SpawnFails,
       SpawnLands, OnClose, OnPause, OnResume, OnList, ListAnswered, OnShutdown, ShutdownSettled,
       BackendSpawn, ownVars
<1>2. ASSUME NEW d \in Conns, OnOwner(d) PROVE ownerPid' # NoOwner
  <2>1. up[d] # <<>> /\ Head(up[d]).op = "owner" /\ ownerPid' = Head(up[d]).pid
    BY <1>2 DEF OnOwner, Taking
  <2>2. Head(up[d]) \in UpFrame
    BY <1>t, <2>1
  <2>3. Head(up[d]).pid \in Owners
    BY <2>1, <2>2 DEF UpFrame, CtlOps, PaneOps
  <2> QED BY <2>1, <2>3, PeersAssumption
<1> QED BY <1>1, <1>2

LEMMA HostNames ==
  ASSUME NumberInv, GoneDead, Named, Unclaimed, HostStep \/ ShellStep, UNCHANGED srvVars
  PROVE  GoneDead' /\ Named' /\ Unclaimed'
<1>t. TypeOK /\ HostInv /\ Down /\ up \in [Conns -> Seq(UpFrame)]
  BY NumberTypes DEF NumberInv
<1>1. phase' = phase /\ alive' = alive
  BY HostOwners DEF srvVars
<1>2. \A d \in Conns : Reads(d)
  BY <1>t, HostMoves
<1>3. GoneDead'
  BY <1>1 DEF GoneDead
<1>4. ASSUME NEW c \in Conns, NEW i \in 1..Len(up'[c]), up'[c][i].op = "owner"
      PROVE  Connected(up'[c][i].pid)
  <2>1. \E j \in 1..Len(up[c]) : up'[c][i] = up[c][j]
    <3>1. CASE up'[c] = up[c]
      BY <3>1
    <3>2. CASE up[c] # <<>> /\ up'[c] = Tail(up[c])
      <4>1. up[c] \in Seq(UpFrame)
        BY <1>t
      <4>2. i + 1 \in 1..Len(up[c]) /\ up'[c][i] = up[c][i + 1]
        BY <3>2, <4>1
      <4> QED BY <4>2
    <3> QED BY <1>2, <3>1, <3>2 DEF Reads
  <2> QED BY <1>4, <2>1 DEF Named
<1>5. ownerPid' # NoOwner => Connected(ownerPid')
  <2>1. ASSUME NEW d \in Conns, OnOwner(d) PROVE Connected(ownerPid')
    <3>1. up[d] # <<>> /\ Head(up[d]).op = "owner" /\ ownerPid' = Head(up[d]).pid
      BY <2>1 DEF OnOwner, Taking
    <3>2. up[d] \in Seq(UpFrame)
      BY <1>t
    <3>3. 1 \in 1..Len(up[d]) /\ Head(up[d]) = up[d][1]
      BY <3>1, <3>2
    <3> QED BY <3>1, <3>3 DEF Named
  <2> QED BY <2>1, HostOwners DEF Named
<1>6. Named'
  BY <1>1, <1>4, <1>5 DEF Named, Connected
<1>7. Unclaimed'
  <2>1. ownerPid' = NoOwner => ownerPid = NoOwner
    BY HostOwners
  <2>2. \A p : Asked(p)' => Asked(p)
    BY HostFacts
  <2>3. \A p \in PaneIds : p \in Taken' => p \in Taken \/ Asked(p)
    BY HostFacts
  <2> QED BY <2>1, <2>2, <2>3 DEF Unclaimed
<1> QED BY <1>3, <1>6, <1>7

\* A connection that is served is not closed by the daemon: only what the peer has
\* closed, another server or an error of the backend could do that.
LEMMA HostLink ==
  ASSUME ~SpawnErrs, NumberInv, HostStep \/ ShellStep, UNCHANGED srvVars, hostUp',
         NEW s \in Owners, NEW c, c = cur[s], Link(s, c)
  PROVE  Link(s, c)'
<1>t. TypeOK /\ HostInv /\ Down /\ Unopened /\ OneServer
  BY NumberTypes DEF NumberInv, HostInv
<1>1. /\ c \in Conns /\ popen[c] = "open" /\ (hclosed[c] => hpc[c] = "closed")
      /\ \A d \in Conns : d # c => Hushed(d)
      /\ phase[s] # "listing" => Serving(c) /\ ~hclosed[c] /\ ownerPid # NoOwner
  BY DEF Link
<1>2. popen' = popen /\ phase' = phase
  BY <1>t, HostMoves DEF srvVars
<1>3. \A d \in Conns : d # c => Hushed(d)'
  BY <1>1, HostHushes
<1>4. /\ hclosed'[c] => hpc'[c] = "closed"
      /\ Serving(c) /\ ~hclosed[c] => Serving(c)' /\ ~hclosed'[c]
  <2>1. ASSUME NEW d \in Conns, ConnStep(d), d # c
        PROVE  hpc'[c] = hpc[c] /\ hclosed'[c] = hclosed[c]
    <3>1. OnEof(d)
      BY <1>1, <1>t, <2>1, HushedEnds
    <3> QED BY <1>1, <1>t, <2>1, <3>1 DEF OnEof, CloseConn, TypeOK
  <2>2. ASSUME ConnStep(c)
        PROVE  /\ hclosed'[c] => hpc'[c] = "closed"
               /\ Serving(c) /\ ~hclosed[c] => Serving(c)' /\ ~hclosed'[c]
    <3>1. CASE Accept(c) \/ Authenticate(c)
      BY <1>1, <1>t, <3>1 DEF Accept, Authenticate, TypeOK, Serving
    <3>2. CASE AdoptServer(c)
      <4>1. writer # c /\ hpc[c] = "first"
        BY <1>1, <1>t, <3>2 DEF AdoptServer, OneServer, Serving, Conns
      <4>2. hclosed'[c] = hclosed[c]
        BY <1>1, <1>t, <3>2, <4>1 DEF AdoptServer, TypeOK
      <4> QED BY <1>1, <4>1, <4>2 DEF Serving
    <3>3. CASE OnEof(c)
      BY <1>1, <3>3 DEF OnEof, Gone
    <3>4. CASE SpawnFails(c)
      BY <3>4 DEF SpawnFails
    <3>5. CASE hclosed' = hclosed /\ hpc[c] # "closed" /\ hpc'[c] \in {hpc[c], "serve", "spawning", "listing", "settling"}
      BY <1>1, <3>5 DEF Serving
    <3>6. CASE DeclareProbe(c)
      BY <1>1, <1>t, <3>6, <3>5 DEF DeclareProbe, TypeOK
    <3>7. CASE \/ OnOwner(c) \/ OnUnknown(c) \/ OnSpawnAgain(c) \/ OnSpawn(c) \/ SpawnLands(c)
               \/ OnClose(c) \/ OnPause(c) \/ OnResume(c) \/ OnList(c) \/ ListAnswered(c)
               \/ OnShutdown(c) \/ ShutdownSettled(c) \/ \E k \in Shells : BackendSpawn(c, k)
      <4>1. hclosed' = hclosed
        BY <3>7, Zenon DEF OnOwner, OnUnknown, OnSpawnAgain, OnSpawn, SpawnLands, OnClose, OnPause,
             OnResume, OnList, ListAnswered, OnShutdown, ShutdownSettled, BackendSpawn, connVars
      <4>2. hpc[c] # "closed"
        BY <3>7 DEF OnOwner, OnUnknown, OnSpawnAgain, OnSpawn, SpawnLands, OnClose, OnPause,
             OnResume, OnList, ListAnswered, OnShutdown, ShutdownSettled, BackendSpawn, Taking
      <4>3. hpc' = hpc \/ \E h \in {"serve", "spawning", "listing", "settling"} : hpc' = [hpc EXCEPT ![c] = h]
        BY <3>7 DEF OnOwner, OnUnknown, OnSpawnAgain, OnSpawn, SpawnLands, OnClose, OnPause,
             OnResume, OnList, ListAnswered, OnShutdown, ShutdownSettled, BackendSpawn, connVars
      <4>4. hpc'[c] \in {hpc[c], "serve", "spawning", "listing", "settling"}
        BY <1>1, <1>t, <4>3 DEF TypeOK
      <4> QED BY <3>5, <4>1, <4>2, <4>4
    <3> QED BY <2>2, <3>1, <3>2, <3>3, <3>4, <3>6, <3>7 DEF ConnStep
  <2>3. (\E d \in Conns : ConnStep(d)) \/ UNCHANGED <<hpc, hclosed>>
    BY Zenon DEF HostStep, ShellStep, ShellOutput, ShellExit, Watchdog, WatchAttached, WatchIdle,
                 WatchVerdict, WatchSettled, ReaderEof, FinishEof, HostExit, connVars
  <2> QED BY <1>1, <2>1, <2>2, <2>3 DEF Serving
<1> QED BY <1>1, <1>2, <1>3, <1>4, HostOwners DEF Link

\* Who did not ask for the list is not sent one.
LEMMA OnlyListsReply ==
  ASSUME NumberInv, HostStep \/ ShellStep, NEW c \in Conns, ~OnList(c), ~ListAnswered(c)
  PROVE  \/ down'[c] = down[c]
         \/ \E f \in DownFrame : down'[c] = Append(down[c], f) /\ f.op # "list_reply"
<1>t. TypeOK /\ down \in [Conns -> Seq(DownFrame)]
  BY NumberTypes
<1> DEFINE Other == \/ down'[c] = down[c]
                    \/ \E g : down'[c] = Append(down[c], g) /\ g.op # "list_reply"
<1>1. ASSUME NEW d \in Conns, NEW g, g.op # "list_reply", down' = Written(d, g) PROVE Other
  BY <1>t, <1>1, SMT DEF Written, TypeOK
<1>2. ASSUME NEW d \in Conns, NEW g, d # c, down' = Written(d, g) PROVE Other
  BY <1>t, <1>2, SMT DEF Written, TypeOK
<1>3. ASSUME NEW data PROVE DataFrame(data).op # "list_reply"
  BY DEF DataFrame
<1>4. ASSUME NEW p, NEW k PROVE SpawnedFrame(p, k).op # "list_reply"
  BY DEF SpawnedFrame
<1>5. ASSUME NEW d \in Conns, ConnStep(d) PROVE Other
  <2>1. CASE OnList(d) \/ ListAnswered(d)
    <3>1. d # c
      BY <2>1
    <3>2. down' = down \/ \E v : ListReply(d, v)
      BY <2>1, Zenon DEF OnList, ListAnswered
    <3> QED BY <1>2, <3>1, <3>2, Zenon DEF ListReply
  <2>2. CASE AdoptServer(d)
    <3>1. down' = down \/ down' = Written(d, DataFrame(pending))
      BY <2>2, Zenon DEF AdoptServer, Flush
    <3> QED BY <1>1, <1>3, <3>1, Zenon
  <2>3. CASE OnSpawnAgain(d)
    BY <1>1, <1>4, <2>3, Zenon DEF OnSpawnAgain
  <2>4. CASE SpawnLands(d)
    BY <1>1, <1>4, <2>4, Zenon DEF SpawnLands
  <2>5. CASE down' = down
    BY <2>5
  <2> QED BY <1>5, <2>1, <2>2, <2>3, <2>4, <2>5, Zenon
          DEF ConnStep, Accept, Authenticate, DeclareProbe, OnEof, OnOwner, OnUnknown,
              OnSpawn, BackendSpawn, SpawnFails, OnClose, OnPause, OnResume, OnShutdown,
              ShutdownSettled
<1>6. ASSUME NEW p \in PaneIds, ShellOutput(p) PROVE Other
  <2>1. down' = down \/ (writer # 0 /\ \E data : down' = Written(writer, DataFrame(data)))
    BY <1>6, Zenon DEF ShellOutput, Detached
  <2>2. writer # 0 => writer \in Conns
    BY <1>t DEF TypeOK
  <2> QED BY <1>1, <1>3, <2>1, <2>2, Zenon
<1>7. ASSUME NEW p \in PaneIds, NEW k \in Shells, FinishEof(p, k) PROVE Other
  <2>1. down' = down \/ (writer # 0 /\ down' = Written(writer, [op |-> "exit", pane |-> p]))
    BY <1>7, Zenon DEF FinishEof
  <2>2. writer # 0 => writer \in Conns
    BY <1>t DEF TypeOK
  <2>3. [op |-> "exit", pane |-> p].op # "list_reply"
    OBVIOUS
  <2> QED BY <1>1, <2>1, <2>2, <2>3, Zenon
<1>8. Other
  <2>1. CASE down' = down
    BY <2>1
  <2> QED BY <1>5, <1>6, <1>7, <2>1, Zenon
        DEF HostStep, ShellStep, ShellExit, Watchdog, WatchAttached, WatchIdle, WatchVerdict,
            WatchSettled, ReaderEof, HostExit
<1>9. down'[c] = down[c] \/ \E f \in DownFrame : down'[c] = Append(down[c], f)
  BY HostFacts, Zenon DEF Answers
<1>10. ASSUME NEW f \in DownFrame, down'[c] = Append(down[c], f), NEW g, down'[c] = Append(down[c], g)
       PROVE  f = g
  <2>1. PICK q \in Seq(DownFrame) : q = down[c]
    BY <1>t
  <2>2. Append(q, f) = Append(q, g)
    BY <1>10, <2>1
  <2>3. Append(q, f)[Len(q) + 1] = f /\ Append(q, g)[Len(q) + 1] = g
    OBVIOUS
  <2> QED BY <2>2, <2>3
<1> QED BY <1>8, <1>9, <1>10, Zenon

\* What a greeting and its answer say stays true while the daemon does something else.
LEMMA GreetsKept ==
  ASSUME NumberInv, NEW s \in Owners, NEW c \in Conns, Greets(s, c), Answered(c),
         hpc'[c] = hpc[c], up'[c] = up[c], ownVars' = ownVars, alive' = alive,
         Registered' \subseteq Registered,
         \/ down'[c] = down[c]
         \/ \E f \in DownFrame : down'[c] = Append(down[c], f) /\ f.op # "list_reply"
  PROVE  Greets(s, c)' /\ Answered(c)'
<1>t. down \in [Conns -> Seq(DownFrame)]
  BY NumberTypes
<1>1. ownerPid' = ownerPid /\ prevOwner' = prevOwner
  BY DEF ownVars
<1>2. Inherited => Inherited'
  BY <1>1 DEF Inherited
<1>3. Greets(s, c)'
  BY <1>1, <1>2, Zenon DEF Greets, Greeting
<1>4. \A v : Pruning(v) => Pruning(v)'
  BY DEF Pruning
<1>5. ASSUME NEW i \in 1..Len(down'[c]), down'[c][i].op = "list_reply"
      PROVE  hpc[c] = "serve" /\ up[c] = <<>> /\ Pruning(down'[c][i].prev)
  <2>1. CASE down'[c] = down[c]
    BY <1>5, <2>1 DEF Answered
  <2>2. ASSUME NEW f \in DownFrame, down'[c] = Append(down[c], f), f.op # "list_reply"
        PROVE  hpc[c] = "serve" /\ up[c] = <<>> /\ Pruning(down'[c][i].prev)
    <3>1. i \in 1..Len(down[c]) /\ down'[c][i] = down[c][i]
      BY <1>t, <1>5, <2>2, AppendedAt
    <3> QED BY <1>5, <3>1 DEF Answered
  <2> QED BY <2>1, <2>2
<1> QED BY <1>3, <1>4, <1>5 DEF Answered

\* A server that starts greets the daemon, which remembers the previous owner and then
\* answers: who is remembered is another one, and with a single server alive, a dead one.
LEMMA GreetingRead ==
  ASSUME NEW s \in Owners, NEW q \in Seq(UpFrame), Greeting(s, q), q # <<>>
  PROVE  /\ Greeting(s, Tail(q)) /\ Len(Tail(q)) = Len(q) - 1 /\ Len(q) \in 1..2
         /\ \/ Len(q) = 2 /\ Head(q).op = "owner" /\ Head(q).pid = s
            \/ Len(q) = 1 /\ Head(q).op = "list" /\ Tail(q) = <<>>
<1>0. Len(q) <= 2 /\ \A i \in 1..Len(q) : q[i] = IF i = Len(q) THEN Ctl("list") ELSE OwnerCtl(s)
  BY Zenon DEF Greeting
<1>1. Len(q) \in 1..2 /\ Head(q) = q[1] /\ Len(Tail(q)) = Len(q) - 1
      /\ \A i \in 1..Len(Tail(q)) : Tail(q)[i] = q[i + 1]
  <2>1. Len(q) <= 2 /\ Len(q) \in Nat /\ Len(q) # 0
    BY <1>0
  <2>2. /\ Head(q) = q[1] /\ Tail(q) \in Seq(UpFrame) /\ Len(Tail(q)) = Len(q) - 1
        /\ \A i \in 1..Len(Tail(q)) : Tail(q)[i] = q[i + 1]
    OBVIOUS
  <2> QED BY <2>1, <2>2
<1>2. \A i \in 1..Len(Tail(q)) : Tail(q)[i] = IF i = Len(Tail(q)) THEN Ctl("list") ELSE OwnerCtl(s)
  <2> TAKE i \in 1..Len(Tail(q))
  <2>1. i + 1 \in 1..Len(q) /\ (i + 1 = Len(q) <=> i = Len(Tail(q))) /\ Tail(q)[i] = q[i + 1]
    BY <1>1
  <2> QED BY <1>0, <2>1, Zenon
<1>3. Greeting(s, Tail(q))
  <2>1. Len(Tail(q)) <= 2
    BY <1>1
  <2> QED BY <1>2, <2>1, Zenon DEF Greeting
<1>4. CASE Len(q) = 2
  <2>1. Head(q) = OwnerCtl(s)
    BY <1>0, <1>1, <1>4
  <2> QED BY <1>1, <1>3, <1>4, <2>1 DEF OwnerCtl
<1>5. CASE Len(q) = 1
  <2>1. Head(q) = Ctl("list")
    BY <1>0, <1>1, <1>5
  <2>2. Tail(q) = <<>>
    <3>1. Tail(q) \in Seq(UpFrame)
      OBVIOUS
    <3>2. \A r \in Seq(UpFrame) : Len(r) = 0 => r = <<>>
      OBVIOUS
    <3>3. Len(Tail(q)) = 0
      BY <1>1, <1>5
    <3> QED BY <3>1, <3>2, <3>3, Zenon




  <2> QED BY <1>1, <1>3, <1>5, <2>1, <2>2 DEF Ctl
<1> QED BY <1>1, <1>4, <1>5

LEMMA HostGreets ==
  ASSUME ~SpawnErrs, NumberInv, GoneDead, Named, Unclaimed, HostStep \/ ShellStep,
         UNCHANGED srvVars, hostUp', hostUp,
         NEW s \in Owners, phase[s] = "listing", NEW c, c = cur[s],
         Link(s, c), Greets(s, c), Answered(c)
  PROVE  Greets(s, c)' /\ Answered(c)'
<1>t. TypeOK /\ HostInv /\ Down /\ Unopened /\ up \in [Conns -> Seq(UpFrame)]
      /\ down \in [Conns -> Seq(DownFrame)]
  BY NumberTypes DEF NumberInv
<1>1. /\ c \in Conns /\ popen[c] = "open" /\ (hclosed[c] => hpc[c] = "closed")
      /\ \A d \in Conns : d # c => Hushed(d)
  BY DEF Link
<1>2. spawning = {} /\ alive' = alive /\ phase' = phase
  BY HostOwners DEF NumberInv, Quiescent, srvVars
<1>3. Registered' \subseteq Registered
  BY <1>2, HostFacts
<1>n. \A v : Pruning(v) => Pruning(v)'
  BY <1>3 DEF Pruning
<1>4. CASE hpc'[c] = hpc[c] /\ up'[c] = up[c] /\ ownVars' = ownVars
  <2>1. ~OnList(c)
    <3>1. ASSUME OnList(c) PROVE FALSE
      <4>1. up[c] # <<>> /\ up'[c] = Tail(up[c])
        BY <1>1, <1>t, <3>1 DEF OnList, Taking
      <4>2. PICK q \in Seq(UpFrame) : q = up[c]
        BY <1>1, <1>t
      <4>3. Len(Tail(q)) # Len(q)
        BY <4>1, <4>2
      <4> QED BY <1>4, <4>1, <4>2, <4>3
    <3> QED BY <3>1
  <2>2. ~ListAnswered(c)
    BY <1>1, <1>4, <1>t DEF ListAnswered, TypeOK
  <2>3. \/ down'[c] = down[c]
        \/ \E f \in DownFrame : down'[c] = Append(down[c], f) /\ f.op # "list_reply"
    BY <1>1, <2>1, <2>2, OnlyListsReply
  <2> QED BY <1>1, <1>2, <1>3, <1>4, <2>3, GreetsKept, Zenon
\* No answer was written to a connection that is not served, or that still asks.
<1>5. ASSUME hpc[c] # "serve" \/ up[c] # <<>>, ~OnList(c), ~ListAnswered(c)
      PROVE  Answered(c)'
  <2>1. \A i \in 1..Len(down[c]) : down[c][i].op # "list_reply"
    BY <1>5 DEF Answered
  <2>2. \/ down'[c] = down[c]
        \/ \E f \in DownFrame : down'[c] = Append(down[c], f) /\ f.op # "list_reply"
    BY <1>1, <1>5, OnlyListsReply
  <2>3. PICK q \in Seq(DownFrame) : q = down[c]
    BY <1>1, <1>t
  <2>4. PICK r : r = down'[c]
    OBVIOUS
  <2>5. CASE r = q
    BY <2>1, <2>3, <2>4, <2>5 DEF Answered
  <2>6. ASSUME NEW f \in DownFrame, r = Append(q, f), f.op # "list_reply"
        PROVE  Answered(c)'
    <3>1. /\ r[Len(r)] = f /\ \A j \in 1..Len(q) : r[j] = q[j]
          /\ \A j \in 1..Len(r) : j \in 1..Len(q) \/ j = Len(r)
      BY <2>6, AppendedAt
    <3>2. \A i \in 1..Len(r) : r[i].op # "list_reply"
      BY <2>1, <2>3, <2>6, <3>1
    <3> QED BY <2>4, <3>2 DEF Answered
  <2> QED BY <2>2, <2>3, <2>4, <2>5, <2>6
<1>6. CASE \E d \in Conns : d # c /\ ConnStep(d)
  <2>1. PICK d \in Conns : d # c /\ ConnStep(d)
    BY <1>6
  <2>2. OnEof(d)
    BY <1>1, <1>t, <2>1, HushedEnds
  <2>3. hpc'[c] = hpc[c] /\ up'[c] = up[c] /\ ownVars' = ownVars
    BY <1>1, <1>t, <2>1, <2>2 DEF OnEof, CloseConn, TypeOK
  <2> QED BY <1>4, <2>3
<1>7. CASE hpc' = hpc /\ up' = up /\ ownVars' = ownVars
  BY <1>4, <1>7
<1>8. CASE ConnStep(c)
  <2>1. CASE OnOwner(c)
    <3>1. /\ hpc[c] = "serve" /\ up[c] # <<>> /\ Head(up[c]).op = "owner" /\ hpc' = hpc
          /\ up'[c] = Tail(up[c]) /\ ownerPid' = Head(up[c]).pid /\ shellOf' = shellOf
          /\ prevOwner' = IF ownerPid = NoOwner THEN NoOwner
                          ELSE IF ownerPid # Head(up[c]).pid THEN ownerPid ELSE prevOwner
      BY <1>1, <1>t, <2>1 DEF OnOwner, Taking, connVars, paneVars
    <3>2. PICK q \in Seq(UpFrame) : q = up[c]
      BY <1>1, <1>t
    <3>3. /\ Greeting(s, Tail(q)) /\ Len(Tail(q)) = 1 /\ Len(q) = 2 /\ Head(q).pid = s
      BY <3>1, <3>2, GreetingRead DEF Greets
    <3>4. ownerPid # s /\ ownerPid' = s /\ s # NoOwner
      BY <3>1, <3>2, <3>3, PeersAssumption DEF Greets
    <3>5. Inherited'
      <4>1. CASE ownerPid = NoOwner
        <5>1. Registered = {}
          BY <4>1 DEF Unclaimed, Taken, Registered
        <5> QED BY <1>3, <3>1, <4>1, <5>1 DEF Inherited
      <4>2. CASE ownerPid # NoOwner
        <5>1. prevOwner' = ownerPid /\ ownerPid \in Owners
          BY <1>t, <3>1, <3>2, <3>3, <3>4, <4>2 DEF TypeOK
        <5>2. phase[ownerPid] \in {"none", "gone"}
          BY <3>4, <5>1, Solo
        <5>3. phase[ownerPid] = "gone"
          BY <4>2, <5>2 DEF Named, Connected
        <5> QED BY <1>2, <4>2, <5>1, <5>3 DEF GoneDead, Inherited
      <4> QED BY <4>1, <4>2
    <3>6. ~OnList(c) /\ ~ListAnswered(c)
      BY <3>1 DEF OnList, ListAnswered, Taking
    <3>7. hpc'[c] = "serve" /\ Greeting(s, up'[c]) /\ Len(up'[c]) = 1 /\ ownerPid' # NoOwner
      BY <3>1, <3>2, <3>3, <3>4
    <3>8. Greets(s, c)'
      BY <3>5, <3>7 DEF Greets
    <3> QED BY <1>5, <3>1, <3>6, <3>8
  <2>2. CASE OnList(c)
    <3>1. /\ hpc[c] = "serve" /\ up[c] # <<>> /\ Head(up[c]).op = "list"
          /\ up'[c] = Tail(up[c]) /\ ownVars' = ownVars
          /\ \/ prevOwner = NoOwner /\ ListReply(c, "unknown") /\ hpc' = hpc
             \/ hpc' = [hpc EXCEPT ![c] = "listing"] /\ down' = down
      BY <1>1, <1>t, <2>2 DEF OnList, Taking
    <3>2. PICK q \in Seq(UpFrame) : q = up[c]
      BY <1>1, <1>t
    <3>3. Greeting(s, Tail(q)) /\ Len(Tail(q)) = 0 /\ Len(q) = 1 /\ Tail(q) = <<>>
      BY <3>1, <3>2, GreetingRead DEF Greets
    <3>4. ownerPid # NoOwner /\ Inherited /\ ownerPid' = ownerPid /\ prevOwner' = prevOwner
      BY <3>1, <3>2, <3>3 DEF Greets, ownVars
    <3>5. Inherited'
      BY <1>2, <1>3, <3>4 DEF Inherited
    <3>6. Greets(s, c)'
      <4>1. Greeting(s, up'[c]) /\ Len(up'[c]) = 0 /\ up'[c] = <<>> /\ ownerPid' # NoOwner
        BY <3>1, <3>2, <3>3, <3>4
      <4> QED BY <3>5, <4>1 DEF Greets
    <3>7. \A i \in 1..Len(down[c]) : down[c][i].op # "list_reply"
      BY <3>1 DEF Answered
    <3>8. CASE prevOwner = NoOwner /\ ListReply(c, "unknown") /\ hpc' = hpc
      <4>1. Pruning("unknown")'
        BY <1>n, <3>4, <3>8 DEF Inherited, Pruning
      <4> DEFINE f == [op |-> "list_reply", panes |-> Registered, prev |-> "unknown"]
      <4>2. f \in DownFrame /\ f.prev = "unknown"
        BY DEF DownFrame, Registered
      <4>3. down' = Written(c, f)
        BY <3>8 DEF ListReply
      <4> HIDE DEF f
      <4>4. down'[c] = down[c] \/ down'[c] = Append(down[c], f)
        BY <1>1, <1>t, <4>3, SMT DEF Written, TypeOK
      <4>5. PICK r \in Seq(DownFrame) : r = down[c]
        BY <1>1, <1>t
      <4>6. \A i \in 1..Len(down'[c]) : down'[c][i].op = "list_reply" => down'[c][i].prev = "unknown"
        <5>1. CASE down'[c] = down[c]
          BY <3>7, <5>1
        <5>2. CASE down'[c] = Append(r, f)
          <6>1. /\ down'[c][Len(down'[c])] = f
                /\ \A j \in 1..Len(r) : down'[c][j] = r[j]
                /\ \A j \in 1..Len(down'[c]) : j \in 1..Len(r) \/ j = Len(down'[c])
            BY <4>2, <5>2, AppendedAt
          <6> QED BY <3>7, <4>2, <4>5, <6>1, Zenon
        <5> QED BY <4>4, <4>5, <5>1, <5>2
      <4> QED BY <3>1, <3>2, <3>3, <3>6, <3>8, <4>1, <4>6 DEF Answered
    <3>9. CASE down' = down
      BY <3>6, <3>7, <3>9 DEF Answered
    <3> QED BY <3>1, <3>8, <3>9
  <2>3. CASE ListAnswered(c)
    <3>1. hpc[c] = "listing" /\ hpc'[c] = "serve" /\ up' = up /\ ownVars' = ownVars
          /\ \E v \in Verdicts(prevOwner) : ListReply(c, IF v THEN "alive" ELSE "dead")
      BY <1>1, <1>t, <2>3 DEF ListAnswered, TypeOK
    <3>2. up[c] = <<>> /\ Greeting(s, up[c]) /\ ownerPid # NoOwner /\ Inherited
      BY <3>1 DEF Greets
    <3>3. ownerPid' = ownerPid /\ prevOwner' = prevOwner
      BY <3>1 DEF ownVars
    <3>4. Inherited'
      BY <1>2, <1>3, <3>2, <3>3 DEF Inherited
    <3>5. Greets(s, c)'
      BY <3>1, <3>2, <3>3, <3>4 DEF Greets
    <3>6. PICK prev \in {"alive", "dead"} : ListReply(c, prev) /\ Pruning(prev)
      <4>1. CASE prevOwner = NoOwner
        BY <3>1, <3>2, <4>1 DEF Inherited, Pruning
      <4>2. CASE prevOwner # NoOwner
        <5>1. prevOwner \notin alive
          BY <3>2, <4>2 DEF Inherited
        <5>2. \A v \in Verdicts(prevOwner) : ~v
          BY <5>1, Zenon DEF Verdicts
        <5> QED BY <3>1, <5>2 DEF Pruning
      <4> QED BY <4>1, <4>2
    <3>7. \A i \in 1..Len(down[c]) : down[c][i].op # "list_reply"
      BY <3>1 DEF Answered
    <3> DEFINE f == [op |-> "list_reply", panes |-> Registered, prev |-> prev]
    <3>8. f \in DownFrame /\ f.prev = prev
      BY DEF DownFrame, Registered
    <3>9. down' = Written(c, f)
      BY <3>6 DEF ListReply
    <3> HIDE DEF f
    <3>10. down'[c] = down[c] \/ down'[c] = Append(down[c], f)
      BY <1>1, <1>t, <3>9, SMT DEF Written, TypeOK
    <3>11. PICK r \in Seq(DownFrame) : r = down[c]
      BY <1>1, <1>t
    <3>12. \A i \in 1..Len(down'[c]) : down'[c][i].op = "list_reply" => down'[c][i].prev = prev
      <4>1. CASE down'[c] = down[c]
        BY <3>7, <4>1
      <4>2. CASE down'[c] = Append(r, f)
        <5>1. /\ down'[c][Len(down'[c])] = f
              /\ \A j \in 1..Len(r) : down'[c][j] = r[j]
              /\ \A j \in 1..Len(down'[c]) : j \in 1..Len(r) \/ j = Len(down'[c])
          BY <3>8, <4>2, AppendedAt
        <5> QED BY <3>7, <3>8, <3>11, <5>1, Zenon
      <4> QED BY <3>10, <3>11, <4>1, <4>2

    <3> QED BY <1>n, <3>1, <3>2, <3>5, <3>6, <3>12 DEF Answered
  <2>4. CASE Accept(c) \/ Authenticate(c) \/ AdoptServer(c)
    <3>1. /\ hpc[c] \in {"none", "preauth", "first"} /\ up' = up /\ ownVars' = ownVars
          /\ hpc'[c] \in {"closed", "preauth", "first", "serve"}
      BY <1>1, <1>t, <2>4 DEF Accept, Authenticate, AdoptServer, TypeOK
    <3>2. ~OnList(c) /\ ~ListAnswered(c)
      BY <3>1 DEF OnList, ListAnswered, Taking
    <3>3. ownerPid' = ownerPid /\ prevOwner' = prevOwner
      BY <3>1 DEF ownVars
    <3>4. Inherited => Inherited'
      BY <1>2, <1>3, <3>3 DEF Inherited
    <3>5. Greets(s, c)'
      BY <3>1, <3>3, <3>4 DEF Greets
    <3> QED BY <1>5, <3>1, <3>2, <3>5
  <2>5. CASE ShutdownSettled(c)
    <3>1. hpc[c] = "settling" /\ hpc'[c] = "serve" /\ up' = up /\ ownVars' = ownVars
      BY <1>1, <1>t, <2>5 DEF ShutdownSettled, TypeOK
    <3>2. ~OnList(c) /\ ~ListAnswered(c)
      BY <3>1 DEF OnList, ListAnswered, Taking
    <3>3. ownerPid' = ownerPid /\ prevOwner' = prevOwner
      BY <3>1 DEF ownVars
    <3>4. Inherited => Inherited'
      BY <1>2, <1>3, <3>3 DEF Inherited
    <3>5. Greets(s, c)'
      BY <3>1, <3>3, <3>4 DEF Greets
    <3> QED BY <1>5, <3>1, <3>2, <3>5
  <2>6. CASE OnEof(c)
    BY <1>1, <2>6 DEF OnEof, Gone
  <2>7. CASE SpawnFails(c) \/ SpawnLands(c) \/ \E k \in Shells : BackendSpawn(c, k)
    <3>1. hpc[c] = "spawning"
      BY <2>7 DEF SpawnFails, SpawnLands, BackendSpawn
    <3>2. harg[c] \in spawning
      BY <1>1, <1>t, <3>1, NumberTypes DEF SpawnsReserved
    <3> QED BY <1>2, <3>2
  <2>8. CASE DeclareProbe(c) \/ \E op \in {"probe", "shutdown"} \cup PaneOps : Taking(c, op)
    <3>1. hpc[c] # "closed" /\ up[c] # <<>> /\ Head(up[c]).op \in {"probe", "shutdown"} \cup PaneOps
      BY <2>8 DEF DeclareProbe, Taking
    <3>2. PICK q \in Seq(UpFrame) : q = up[c]
      BY <1>1, <1>t
    <3>3. Head(q).op \in {"owner", "list"}
      BY <3>1, <3>2, GreetingRead DEF Greets
    <3> QED BY <3>1, <3>2, <3>3 DEF PaneOps
  <2> QED BY <1>8, <2>1, <2>2, <2>3, <2>4, <2>5, <2>6, <2>7, <2>8
          DEF ConnStep, OnUnknown, OnSpawnAgain, OnSpawn, OnClose, OnPause, OnResume, OnShutdown, PaneOps
<1>9. (\E d \in Conns : ConnStep(d)) \/ (hpc' = hpc /\ up' = up /\ ownVars' = ownVars) \/ HostExit
  BY Zenon DEF HostStep, ShellStep, ShellOutput, ShellExit, Watchdog, WatchAttached, WatchIdle,
               WatchVerdict, WatchSettled, ReaderEof, FinishEof, connVars
<1> QED BY <1>6, <1>7, <1>8, <1>9 DEF HostExit

LEMMA ClosedLater ==
  ASSUME NEW q \in Seq(UpFrame), NEW p, ClosedAfter(q, p), q # <<>>
  PROVE  \/ ClosedAfter(Tail(q), p)
         \/ q[1] = PaneCtl("close", p) /\ \A i \in 1..Len(q) : q[i] # PaneCtl("spawn", p)
<1>1. PICK j \in 1..Len(q) : /\ q[j] = PaneCtl("close", p)
                             /\ \A i \in 1..Len(q) : q[i] = PaneCtl("spawn", p) => i < j
  BY DEF ClosedAfter
<1>2. /\ Len(Tail(q)) = Len(q) - 1 /\ Len(q) \in Nat
      /\ \A i \in 1..Len(Tail(q)) : i + 1 \in 1..Len(q) /\ Tail(q)[i] = q[i + 1]
  OBVIOUS
<1>3. CASE j = 1
  <2>1. \A i \in 1..Len(q) : q[i] # PaneCtl("spawn", p)
    BY <1>1, <1>3
  <2> QED BY <1>1, <1>3, <2>1
<1>4. CASE j # 1
  <2>1. j - 1 \in 1..Len(Tail(q)) /\ (j - 1) + 1 = j
    BY <1>1, <1>2, <1>4
  <2>2. Tail(q)[j - 1] = PaneCtl("close", p)
    BY <1>1, <1>2, <2>1
  <2>3. ASSUME NEW i \in 1..Len(Tail(q)), Tail(q)[i] = PaneCtl("spawn", p) PROVE i < j - 1
    <3>1. i + 1 \in 1..Len(q) /\ q[i + 1] = PaneCtl("spawn", p)
      BY <1>2, <2>3
    <3>2. i + 1 < j
      BY <1>1, <3>1
    <3> QED BY <1>2, <3>2
  <2> QED BY <2>1, <2>2, <2>3, Zenon DEF ClosedAfter
<1> QED BY <1>3, <1>4

\* A pane of which the server has let go is accounted for by a close frame until the
\* daemon reads that frame, and then the pane is gone.
LEMMA HostAccounts ==
  ASSUME NumberInv, HostStep \/ ShellStep, UNCHANGED srvVars, hostUp', hostUp,
         NEW s \in Owners, NEW c, c = cur[s], Link(s, c), Accounted(s, c)
  PROVE  Accounted(s, c)'
<1>t. TypeOK /\ HostInv /\ Down /\ Unopened /\ up \in [Conns -> Seq(UpFrame)]
  BY NumberTypes DEF NumberInv
<1>1. c \in Conns /\ \A d \in Conns : d # c => Hushed(d)
  BY DEF Link
<1>2. Shown(s)' = Shown(s)
  BY DEF Shown, srvVars
<1>3. Reads(c) /\ \A d \in Conns : d # c => Hushed(d)'
  BY <1>1, <1>t, HostMoves, HostHushes
<1>4. PICK q \in Seq(UpFrame) : q = up[c]
  BY <1>1, <1>t
<1>5. ASSUME NEW p \in PaneIds, (p \in Taken \/ Asked(p))' PROVE (p \in Shown(s) \/ ClosedAfter(up[c], p))'
  <2>1. p \in Shown(s) \/ ClosedAfter(q, p)
    <3>1. p \in Taken \/ Asked(p)
      BY <1>5, HostFacts
    <3> QED BY <1>4, <3>1 DEF Accounted
  <2>2. CASE p \in Shown(s)
    BY <1>2, <2>2
  <2>3. CASE up'[c] = q /\ ClosedAfter(q, p)
    BY <2>3
  <2>4. CASE up'[c] = Tail(q) /\ q # <<>> /\ ClosedAfter(Tail(q), p)
    BY <2>4
  <2>5. CASE up'[c] = Tail(q) /\ q # <<>> /\ q[1] = PaneCtl("close", p)
           /\ \A i \in 1..Len(q) : q[i] # PaneCtl("spawn", p)
    <3>1. Head(q).op = "close" /\ Head(q).pane = p
      BY <2>5 DEF PaneCtl
    <3>2. up'[c] # up[c]
      <4>1. Len(Tail(q)) # Len(q)
        BY <2>5
      <4> QED BY <1>4, <2>5, <4>1
    <3>3. ConnStep(c)
      <4>1. ASSUME NEW d \in Conns, ConnStep(d), d # c PROVE FALSE
        <5>1. OnEof(d)
          BY <1>1, <1>t, <4>1, HushedEnds
        <5> QED BY <3>2, <5>1 DEF OnEof
      <4>2. (\E d \in Conns : ConnStep(d)) \/ up' = up
        BY Zenon DEF HostStep, ShellStep, ShellOutput, ShellExit, Watchdog, WatchAttached, WatchIdle,
                     WatchVerdict, WatchSettled, ReaderEof, FinishEof, HostExit
      <4> QED BY <3>2, <4>1, <4>2
    <3>4. OnClose(c)
      <4>1. \A op : Taking(c, op) => op = "close"
        BY <1>4, <3>1 DEF Taking
      <4>2. ~DeclareProbe(c)
        BY <1>4, <3>1 DEF DeclareProbe
      <4>3. CASE OnOwner(c) \/ OnUnknown(c) \/ OnSpawnAgain(c) \/ OnSpawn(c) \/ OnPause(c)
                 \/ OnResume(c) \/ OnList(c) \/ OnShutdown(c)
        BY <4>1, <4>3 DEF OnOwner, OnUnknown, OnSpawnAgain, OnSpawn, OnPause, OnResume, OnList, OnShutdown
      <4>4. CASE up' = up
        BY <3>2, <4>4
      <4> QED BY <3>3, <4>2, <4>3, <4>4, Zenon DEF ConnStep, Accept, Authenticate, AdoptServer, OnEof,
              SpawnFails, SpawnLands, ListAnswered, ShutdownSettled, BackendSpawn
    <3>5. spawning' = {}
      <4>1. \A d \in Conns : hpc[d] # "spawning"
        <5>1. hpc[c] = "serve"
          BY <3>4 DEF OnClose, Taking
        <5> QED BY <1>1, <1>t, <5>1 DEF Hushed, Unopened
      <4>2. spawning = {}
        BY <4>1, NumberTypes DEF SpawnsReserved
      <4> QED BY <3>4, <4>2 DEF OnClose
    <3>6. p \notin Taken'
      <4>1. shellOf'[p] = 0
        <5>1. Arg(c) = p
          BY <1>4, <3>1 DEF Arg
        <5> QED BY <3>4, <5>1 DEF OnClose, ClosePanes
      <4> QED BY <3>5, <4>1 DEF Taken, Registered
    <3>7. ~Asked(p)'
      <4>1. ASSUME NEW d \in Conns, NEW i \in 1..Len(up'[d]), hpc'[d] # "closed",
                   up'[d][i] = PaneCtl("spawn", p)
            PROVE  FALSE
        <5>1. CASE d # c
          <6>1. popen'[d] = "none" \/ hpc'[d] = "serve" => up'[d] = <<>>
            BY <1>3, <4>1, <5>1 DEF Hushed
          <6>2. up'[d] = <<>>
            BY <1>3, <4>1, <5>1 DEF Hushed
          <6> QED BY <4>1, <6>2
        <5>2. CASE d = c
          <6>1. i \in 1..Len(Tail(q)) /\ Tail(q)[i] = PaneCtl("spawn", p)
            BY <2>5, <4>1, <5>2
          <6>2. i + 1 \in 1..Len(q) /\ q[i + 1] = Tail(q)[i]
            BY <2>5, <6>1
          <6> QED BY <2>5, <6>1, <6>2
        <5> QED BY <5>1, <5>2
      <4> QED BY <4>1 DEF Asked, Waiting, Waits
    <3> QED BY <1>5, <3>6, <3>7
  <2>6. CASE ClosedAfter(q, p)
    <3>1. up'[c] = q \/ (up'[c] = Tail(q) /\ q # <<>>)
      BY <1>3, <1>4 DEF Reads
    <3>2. q # <<>> => \/ ClosedAfter(Tail(q), p)
                      \/ q[1] = PaneCtl("close", p) /\ \A i \in 1..Len(q) : q[i] # PaneCtl("spawn", p)
      BY <2>6, ClosedLater
    <3> QED BY <2>3, <2>4, <2>5, <2>6, <3>1, <3>2, Zenon
  <2> QED BY <2>1, <2>2, <2>6
<1> QED BY <1>5 DEF Accounted

LEMMA HostLeak ==
  ASSUME ~SpawnErrs, LeakInv, HostStep \/ ShellStep, UNCHANGED srvVars
  PROVE  LeakInv'
<1>t. NumberInv /\ ShownInv /\ GoneDead /\ Named /\ Unclaimed
  BY DEF LeakInv, ShownInv
<1>1. ShownInv' /\ GoneDead' /\ Named' /\ Unclaimed'
  BY <1>t, HostShown, HostNames
<1>2. ASSUME hostUp', NEW s \in Owners PROVE Attending(s)'
  <2>1. hostUp
    <3>1. hostUp' = hostUp \/ HostExit
      BY Zenon DEF HostStep, ShellStep, ShellOutput, ShellExit, Watchdog, WatchAttached, WatchIdle,
           WatchVerdict, WatchSettled, ReaderEof, FinishEof, ConnStep, Accept, Authenticate,
           DeclareProbe, AdoptServer, OnEof, OnOwner, OnUnknown, OnSpawnAgain, OnSpawn, SpawnFails,
           SpawnLands, OnClose, OnPause, OnResume, OnList, ListAnswered, OnShutdown,
           ShutdownSettled, BackendSpawn
    <3> QED BY <1>2, <3>1 DEF HostExit
  <2>2. Attending(s)
    BY <2>1 DEF LeakInv
  <2>3. PICK c : c = cur[s]
    OBVIOUS
  <2>4. phase'[s] = phase[s] /\ cur'[s] = c /\ cbs'[s] = cbs[s] /\ Shown(s)' = Shown(s)
        /\ listed'[s] = listed[s]
    BY <2>3 DEF srvVars, Shown
  <2>5. Attended(s) => Link(s, c)'
    BY <1>t, <1>2, <2>2, <2>3, HostLink DEF Attending
  <2>6. phase[s] = "listing" => Greets(s, c)' /\ Answered(c)'
    <3>1. phase[s] = "listing" => Link(s, c) /\ Greets(s, c) /\ Answered(c)
      BY <2>2, <2>3 DEF Attending, Attended
    <3> QED BY <1>t, <1>2, <2>1, <2>3, <3>1, HostGreets
  <2>7. phase[s] = "listed" => Pruning(listed[s].prev)'
    <3>1. phase[s] = "listed" => spawning = {} /\ Pruning(listed[s].prev)
      BY <1>t, <2>2 DEF Attending, NumberInv, Quiescent
    <3>2. Registered' \subseteq Registered \cup spawning
      BY <1>t, HostFacts
    <3> QED BY <2>4, <3>1, <3>2 DEF Pruning
  <2>8. phase[s] = "run" => Accounted(s, c)'
    <3>1. phase[s] = "run" => Link(s, c) /\ Accounted(s, c)
      BY <2>2, <2>3 DEF Attending, Attended
    <3> QED BY <1>t, <1>2, <2>1, <2>3, <3>1, HostAccounts
  <2>9. phase[s] = "run" => Shown(s) \subseteq cbs[s]
    BY <2>2 DEF Attending
  <2> QED BY <2>4, <2>5, <2>6, <2>7, <2>8, <2>9 DEF Attending, Attended
<1> QED BY <1>1, <1>2 DEF LeakInv

-----------------------------------------------------------------------------
(* Leaks: the steps of servers and of their users.                           *)

\* A step of server s attends to nobody else, forgets nobody and changes no daemon.
LEMMA ServerPhases ==
  ASSUME NumberInv, NEW s \in Owners, ServerStep(s) \/ UserStep(s)
  PROVE  /\ UNCHANGED hostSide /\ alive' \subseteq alive
         /\ \A o \in Owners : Connected(o) => Connected(o)'
         /\ \A o \in Owners : phase'[o] = "gone" => phase[o] = "gone" \/ (o = s /\ s \notin alive')
         /\ \A t \in Owners : t # s => ~Attended(t)'
<1>t. phase \in [Owners -> Phases] /\ cur \in [Owners -> Conns \cup {0}]
  BY NumberTypes
<1>1. UNCHANGED hostSide /\ alive' \subseteq alive
  <2>1. UNCHANGED hostVars => UNCHANGED <<hostSide, alive>>
    BY DEF hostVars, hostSide
  <2>2. OwnerDies(s) => UNCHANGED hostSide /\ alive' = alive \ {s}
    BY DEF OwnerDies, hostSide
  <2>3. \A p \in PaneIds : KillPane(s, p) => UNCHANGED <<hostSide, alive>>
    BY DEF KillPane
  <2>4. \A ts : SpawnPane(s, ts) => UNCHANGED <<hostSide, alive>>
    BY DEF SpawnPane
  <2>5. ServerStep(s) => UNCHANGED hostSide /\ alive' \subseteq alive
    BY <2>1, <2>2, Zenon DEF ServerStep, GotList, ListTimesOut, Restore, ShowOutput, OnExit, OnOther,
         RestartExit, OnHostLost, Connect, EndServer, Reconnect
  <2>6. UserStep(s) => UNCHANGED hostSide /\ alive' \subseteq alive
    BY <2>1, <2>2, <2>3, <2>4, Zenon DEF UserStep, Launch, NewTab, Crash, SplitTab, Restart
  <2> QED BY <2>5, <2>6
<1> DEFINE Up == phase[s] \notin {"none", "gone"}
           To(h) == Up /\ phase' = [phase EXCEPT ![s] = h]
<1>2. \/ Up /\ phase' = phase
      \/ /\ phase' = [phase EXCEPT ![s] = "boot"]
         /\ phase[s] = "none" /\ \A t \in Owners : phase[t] \in {"none", "gone"}
      \/ \E h \in {"listing", "listed", "run", "ending"} : To(h)
      \/ To("gone") /\ s \notin alive'
      \/ \E t \in Owners : Up /\ phase[t] = "none" /\ phase' = [phase EXCEPT ![s] = "leaving", ![t] = "boot"]
  <2>1. CASE ListTimesOut(s) \/ Restore(s) \/ GotList(s)
    <3>1. To("listed") \/ To("run")
      BY <2>1 DEF ListTimesOut, Restore, GotList
    <3> QED BY <3>1
  <2>2. CASE ShowOutput(s) \/ OnOther(s) \/ OnHostLost(s)
    BY <2>2 DEF ShowOutput, OnOther, OnHostLost, srvVars, Got, Busy
  <2>3. ASSUME NEW p, DropPane(s, p), Up
        PROVE  phase' = phase \/ To("ending")
    BY <2>3 DEF DropPane
  <2>4. CASE OnExit(s) \/ \E p \in PaneIds : KillPane(s, p)
    <3>1. \E p : DropPane(s, p) /\ Up
      BY <2>4 DEF OnExit, KillPane, Got, Busy
    <3> QED BY <2>3, <3>1
  <2>5. CASE RestartExit(s) \/ Crash(s)
    BY <2>5 DEF RestartExit, Crash, Forget, OwnerDies, Busy
  <2>6. ASSUME NEW c \in Conns, Connect(s, c) \/ EndServer(s, c) \/ Reconnect(s, c)
        PROVE  To("listing") \/ (To("gone") /\ s \notin alive') \/ (Up /\ phase' = phase)
    BY <2>6 DEF Connect, EndServer, Reconnect, Forget
  <2>7. CASE Launch(s)
    BY <2>7 DEF Launch
  <2>8. ASSUME NEW ts, SpawnPane(s, ts) PROVE Up /\ phase' = phase
    BY <2>8 DEF SpawnPane
  <2>9. CASE NewTab(s) \/ \E t \in tabs[s] : SplitTab(s, t)
    BY <2>8, <2>9 DEF NewTab, SplitTab
  <2>10. ASSUME NEW t \in Owners, Restart(s, t)
         PROVE  Up /\ phase[t] = "none" /\ phase' = [phase EXCEPT ![s] = "leaving", ![t] = "boot"]
    BY <2>10 DEF Restart
  <2> HIDE DEF Up, To
  <2> QED BY <2>1, <2>2, <2>4, <2>5, <2>6, <2>7, <2>9, <2>10, Zenon DEF ServerStep, UserStep
<1>3. ASSUME NEW o \in Owners, Connected(o) PROVE Connected(o)'
  BY <1>t, <1>2, <1>3 DEF Connected
<1>4. \A o \in Owners : phase'[o] = "gone" => phase[o] = "gone" \/ (o = s /\ s \notin alive')
  BY <1>t, <1>2
<1>5. ASSUME NEW t \in Owners, t # s, Attended(t)' PROVE FALSE
  <2>1. Attended(t) /\ phase[s] \notin {"none", "gone"}
    BY <1>t, <1>2, <1>5 DEF Attended
  <2> QED BY <1>5, <2>1, Solo DEF Attended
<1> QED BY <1>1, <1>3, <1>4, <1>5

\* What a server writes: at most to one connection, in its own name, and a pane is asked
\* for only by one that is restoring or running.
Speech(s, fs) == /\ fs \in Seq(UpFrame)
                 /\ \A i \in 1..Len(fs) :
                      /\ fs[i].op = "owner" => fs[i].pid = s /\ Connected(s)'
                      /\ \A p : fs[i] = PaneCtl("spawn", p) => phase[s] \in {"listed", "run"}

LEMMA ServerSpeaks ==
  ASSUME NumberInv, NEW s \in Owners, ServerStep(s) \/ UserStep(s)
  PROVE  up' = up \/ \E c \in Conns : \E fs : Speech(s, fs) /\ up' = [up EXCEPT ![c] = up[c] \o fs]
<1>t. phase \in [Owners -> Phases] /\ cur \in [Owners -> Conns \cup {0}]
  BY NumberTypes
<1> DEFINE Goal == up' = up \/ \E c \in Conns : \E fs : Speech(s, fs) /\ up' = [up EXCEPT ![c] = up[c] \o fs]
<1>1. ASSUME NEW fs, Speech(s, fs), Send(s, fs) PROVE Goal
  BY <1>1, SendIs, Zenon
<1>2. ASSUME NEW op \in PaneOps, NEW p \in PaneIds, op = "spawn" => phase[s] \in {"listed", "run"}
      PROVE  Speech(s, <<PaneCtl(op, p)>>)
  <2>1. PaneCtl(op, p) \in UpFrame /\ PaneCtl(op, p).op = op /\ op # "owner"
    BY FramesOfServers DEF PaneCtl, PaneOps
  <2>2. \A q : PaneCtl(op, p) = PaneCtl("spawn", q) => op = "spawn"
    BY DEF PaneCtl
  <2>3. PICK f \in UpFrame : f = PaneCtl(op, p)
    BY <2>1
  <2>4. /\ <<f>> \in Seq(UpFrame) /\ \A i \in 1..Len(<<f>>) : <<f>>[i] = f
    OBVIOUS
  <2> QED BY <1>2, <2>1, <2>2, <2>3, <2>4 DEF Speech
<1>3. ASSUME NEW p \in PaneIds, DropPane(s, p) PROVE Goal
  <2>1. Speech(s, <<PaneCtl("close", p)>>)
    BY <1>2 DEF PaneOps
  <2> QED BY <1>1, <1>3, <2>1, Zenon DEF DropPane
<1>4. ASSUME NEW ts, SpawnPane(s, ts) PROVE Goal
  <2>1. PICK p \in PaneIds : phase[s] = "run" /\ Send(s, <<PaneCtl("spawn", p)>>)
    BY <1>4 DEF SpawnPane
  <2>2. Speech(s, <<PaneCtl("spawn", p)>>)
    BY <1>2, <2>1 DEF PaneOps
  <2> QED BY <1>1, <2>1, <2>2, Zenon
<1>5. ASSUME NEW c \in Conns, NEW fs \in {<<OwnerCtl(s), Ctl("list")>>, <<OwnerCtl(s)>>,
                                          <<Ctl("probe"), Ctl("shutdown")>>},
             Connected(s)'
      PROVE  Speech(s, fs)
  <2>1. fs \in Seq(UpFrame) /\ \A p \in PaneIds : \A i \in 1..Len(fs) : fs[i] # PaneCtl("spawn", p)
    BY GreetingAsks
  <2>2. \A i \in 1..Len(fs) : fs[i] \in {OwnerCtl(s), Ctl("list"), Ctl("probe"), Ctl("shutdown")}
    BY <2>1
  <2>3. \A i \in 1..Len(fs) : fs[i].op # "spawn" /\ (fs[i].op = "owner" => fs[i].pid = s)
    BY <2>2 DEF OwnerCtl, Ctl
  <2>4. \A p : PaneCtl("spawn", p).op = "spawn"
    BY DEF PaneCtl
  <2> QED BY <1>5, <2>1, <2>3, <2>4, Zenon DEF Speech
<1>6. ASSUME NEW c \in Conns, Connect(s, c) \/ EndServer(s, c) \/ Reconnect(s, c) PROVE Goal
  <2>1. Connected(s)'
    BY <1>6, <1>t DEF Connect, EndServer, Reconnect, Forget, Connected
  <2>2. CASE Connect(s, c)
    <3> DEFINE fs == <<OwnerCtl(s), Ctl("list")>>
    <3>1. Open(s, c, fs)
      BY <2>2 DEF Connect
    <3>2. Speech(s, fs) /\ fs \in Seq(UpFrame)
      BY <1>5, <2>1, GreetingAsks
    <3> HIDE DEF fs
    <3>3. up' = [up EXCEPT ![c] = up[c] \o fs]
      BY <3>1, <3>2, OpenIs
    <3> QED BY <3>2, <3>3
  <2>3. CASE Reconnect(s, c)
    <3> DEFINE fs == <<OwnerCtl(s)>>
    <3>1. Open(s, c, fs)
      BY <2>3 DEF Reconnect
    <3>2. Speech(s, fs) /\ fs \in Seq(UpFrame)
      BY <1>5, <2>1, GreetingAsks
    <3> HIDE DEF fs
    <3>3. up' = [up EXCEPT ![c] = up[c] \o fs]
      BY <3>1, <3>2, OpenIs
    <3> QED BY <3>2, <3>3
  <2>4. CASE EndServer(s, c)
    <3> DEFINE fs == <<Ctl("probe"), Ctl("shutdown")>>
    <3>1. popen[c] = "none" /\ up' = [up EXCEPT ![c] = fs]
      BY <2>4 DEF EndServer, FreshConn
    <3>2. Speech(s, fs)
      BY <1>5, <2>1
    <3>3. up[c] = <<>> /\ fs \in Seq(UpFrame)
      BY <3>1, GreetingAsks DEF NumberInv, Unopened
    <3> HIDE DEF fs
    <3>4. up[c] \o fs = fs
      BY <3>3
    <3> QED BY <3>1, <3>2, <3>4
  <2> QED BY <1>6, <2>2, <2>3, <2>4
<1>7. ASSUME Restore(s) PROVE Goal
  <2> DEFINE fresh == IF Restorable(s) = {} THEN {SeqAdopted(s) + 1} ELSE {}
             shown == PanesOf(Restorable(s)) \cup fresh
  <2>1. phase[s] = "listed" /\ fresh \subseteq PaneIds
    BY <1>7 DEF Restore
  <2>2. PICK half \in Frames("close", HalfBuilt(s)), new \in Frames("spawn", fresh),
             stale \in Frames("close", Pruned(s, shown)) : Send(s, half \o new \o stale)
    BY <1>7 DEF Restore
  <2>3. HalfBuilt(s) \subseteq PaneIds /\ Pruned(s, shown) \subseteq PaneIds
    <3>1. \A t \in resume[s].tabs : \A i \in 1..Len(t) : t[i] \in PaneIds
      BY NumberTypes DEF Tab
    <3>2. listed[s].panes \subseteq PaneIds
      BY NumberTypes
    <3> QED BY <3>1, <3>2 DEF HalfBuilt, Pruned
  <2> HIDE DEF fresh, shown
  <2>4. /\ half \in Seq(UpFrame) /\ \A i \in 1..Len(half) : \E p \in HalfBuilt(s) : half[i] = PaneCtl("close", p)
        /\ new \in Seq(UpFrame) /\ \A i \in 1..Len(new) : \E p \in fresh : new[i] = PaneCtl("spawn", p)
        /\ stale \in Seq(UpFrame) /\ \A i \in 1..Len(stale) : \E p \in Pruned(s, shown) : stale[i] = PaneCtl("close", p)
    <3>1. "close" \in PaneOps /\ "spawn" \in PaneOps
      BY DEF PaneOps
    <3> QED BY <2>1, <2>3, <3>1, FramesType
  <2>5. /\ InRow(half, new, stale) \in Seq(UpFrame)
        /\ \A i \in 1..Len(InRow(half, new, stale)) :
             \/ \E j \in 1..Len(half) : InRow(half, new, stale)[i] = half[j]
             \/ \E j \in 1..Len(new) : InRow(half, new, stale)[i] = new[j]
             \/ \E j \in 1..Len(stale) : InRow(half, new, stale)[i] = stale[j]
    <3>1. half \in Seq(UpFrame) /\ new \in Seq(UpFrame) /\ stale \in Seq(UpFrame)
      BY <2>4
    <3> QED BY <3>1, ThreeIn
  <2>6. \A op \in PaneOps : \A p : PaneCtl(op, p).op # "owner"
    BY DEF PaneCtl, PaneOps
  <2>8. "close" \in PaneOps /\ "spawn" \in PaneOps
    BY DEF PaneOps
  <2>9. PICK fs : fs = InRow(half, new, stale)
    OBVIOUS
  <2>10. ASSUME NEW i \in 1..Len(fs)
         PROVE  fs[i].op # "owner"
    <3>1. \E op \in PaneOps : \E p : fs[i] = PaneCtl(op, p)
      <4>1. CASE \E j \in 1..Len(half) : fs[i] = half[j]
        BY <2>4, <2>8, <4>1, Zenon
      <4>2. CASE \E j \in 1..Len(new) : fs[i] = new[j]
        BY <2>4, <2>8, <4>2, Zenon
      <4>3. CASE \E j \in 1..Len(stale) : fs[i] = stale[j]
        BY <2>4, <2>8, <4>3, Zenon
      <4> QED BY <2>5, <2>9, <4>1, <4>2, <4>3, Zenon
    <3> QED BY <2>6, <3>1, Zenon
  <2>11. fs \in Seq(UpFrame) /\ phase[s] \in {"listed", "run"}
    BY <2>1, <2>5, <2>9, Zenon
  <2>7. Speech(s, InRow(half, new, stale))
    BY <2>9, <2>10, <2>11, Zenon DEF Speech
  <2> QED BY <1>1, <2>2, <2>7, Zenon DEF InRow
<1>8. OwnerDies(s) => up' = up
  BY DEF OwnerDies
<1>9. UNCHANGED hostVars => up' = up
  BY DEF hostVars
<1>10. CASE ServerStep(s)
  <2>1. CASE GotList(s) \/ ListTimesOut(s) \/ ShowOutput(s) \/ OnOther(s) \/ RestartExit(s) \/ OnHostLost(s)
    BY <1>8, <1>9, <2>1, Zenon DEF GotList, ListTimesOut, ShowOutput, OnOther, RestartExit, OnHostLost
  <2>2. CASE OnExit(s)
    <3>1. \E p \in PaneIds : DropPane(s, p)
      BY <2>2, NumberTypes DEF OnExit
    <3> QED BY <1>3, <3>1
  <2> HIDE DEF Goal
  <2> QED BY <1>6, <1>7, <1>10, <2>1, <2>2, Zenon DEF ServerStep, Goal
<1>11. CASE UserStep(s)
  <2>1. CASE Launch(s) \/ Crash(s) \/ \E t \in Owners : Restart(s, t)
    BY <1>8, <1>9, <2>1, Zenon DEF Launch, Crash, Restart
  <2>2. CASE NewTab(s) \/ \E t \in tabs[s] : SplitTab(s, t)
    BY <1>4, <2>2, Zenon DEF NewTab, SplitTab
  <2>3. CASE \E p \in PaneIds : KillPane(s, p)
    BY <1>3, <2>3, Zenon DEF KillPane
  <2> QED BY <1>11, <2>1, <2>2, <2>3, Zenon DEF UserStep
<1> QED BY <1>10, <1>11

LEMMA ServerNames ==
  ASSUME NumberInv, GoneDead, Named, Unclaimed, hostUp => \A t \in Owners : Attending(t),
         NEW s \in Owners, ServerStep(s) \/ UserStep(s)
  PROVE  GoneDead' /\ Named' /\ Unclaimed'
<1>t. up \in [Conns -> Seq(UpFrame)] /\ Down
  BY NumberTypes DEF NumberInv
<1>1. /\ UNCHANGED hostSide /\ alive' \subseteq alive
      /\ \A o \in Owners : Connected(o) => Connected(o)'
      /\ \A o \in Owners : phase'[o] = "gone" => phase[o] = "gone" \/ (o = s /\ s \notin alive')
  BY ServerPhases
<1>2. ownerPid' = ownerPid /\ hpc' = hpc /\ Taken' = Taken /\ hostUp' = hostUp
  BY <1>1 DEF hostSide, ownVars, connVars, paneVars, Taken, Registered
<1>3. GoneDead'
  BY <1>1 DEF GoneDead
<1>4. up' = up \/ \E c \in Conns : \E fs : Speech(s, fs) /\ up' = [up EXCEPT ![c] = up[c] \o fs]
  BY ServerSpeaks
<1>5. Named'
  <2>1. ownerPid' # NoOwner => ownerPid \in Owners /\ Connected(ownerPid)
    BY <1>2, NumberTypes DEF Named, TypeOK
  <2>2. \A c \in Conns : \A i \in 1..Len(up[c]) :
          up[c][i].op = "owner" => up[c][i].pid \in Owners /\ Connected(up[c][i].pid)
    <3> TAKE c \in Conns
    <3> TAKE i \in 1..Len(up[c])
    <3>1. up[c][i] \in UpFrame
      BY <1>t
    <3>2. up[c][i].op = "owner" => up[c][i].pid \in Owners
      BY <3>1 DEF UpFrame, CtlOps, PaneOps
    <3> QED BY <3>2 DEF Named
  <2>3. \A c \in Conns : \A i \in 1..Len(up'[c]) :
          up'[c][i].op = "owner" => Connected(up[c][i].pid)'
    <3>1. CASE up' = up
      BY <1>1, <2>2, <3>1, Zenon
    <3>2. ASSUME NEW d \in Conns, NEW fs, Speech(s, fs), up' = [up EXCEPT ![d] = up[d] \o fs],
                 NEW c \in Conns, NEW i \in 1..Len(up'[c]), up'[c][i].op = "owner"
          PROVE  Connected(up[c][i].pid)'
      <4>1. CASE c # d
        <5>1. up'[c] = up[c]
          BY <1>t, <3>2, <4>1
        <5> QED BY <1>1, <2>2, <3>2, <5>1, Zenon
      <4>2. CASE c = d
        <5>1. PICK q \in Seq(UpFrame) : q = up[c]
          BY <1>t
        <5>2. fs \in Seq(UpFrame) /\ up'[c] = q \o fs
          BY <1>t, <3>2, <4>2, <5>1 DEF Speech
        <5>3. \/ i \in 1..Len(q) /\ up'[c][i] = q[i]
              \/ i - Len(q) \in 1..Len(fs) /\ up'[c][i] = fs[i - Len(q)]
          <6>1. i \in 1..Len(q \o fs)
            BY <3>2, <5>2
          <6>2. \/ i \in 1..Len(q) /\ (q \o fs)[i] = q[i]
                \/ i - Len(q) \in 1..Len(fs) /\ (q \o fs)[i] = fs[i - Len(q)]
            BY <5>2, <6>1
          <6> QED BY <5>2, <6>2
        <5>4. CASE i \in 1..Len(q) /\ up'[c][i] = q[i]
          BY <1>1, <2>2, <3>2, <5>1, <5>4, Zenon
        <5>5. CASE i - Len(q) \in 1..Len(fs) /\ up'[c][i] = fs[i - Len(q)]
          BY <3>2, <5>5 DEF Speech
        <5> QED BY <5>3, <5>4, <5>5
      <4> QED BY <4>1, <4>2
    <3> QED BY <1>4, <3>1, <3>2
  <2> QED BY <1>1, <1>2, <2>1, <2>3 DEF Named
<1>6. Unclaimed'
  <2> SUFFICES ASSUME ownerPid = NoOwner, NEW p \in PaneIds, Asked(p)' PROVE FALSE
    BY <1>2 DEF Unclaimed
  <2>1. ~Asked(p)
    BY DEF Unclaimed
  <2>2. CASE ~hostUp
    BY <1>t, <1>2, <2>2 DEF Down, Asked, Waiting, Waits
  <2>3. CASE hostUp /\ phase[s] \in {"listed", "run"}
    BY <2>3 DEF Attending, Attended, Link
  <2>4. CASE phase[s] \notin {"listed", "run"}
    <3>1. up' # up
      BY <1>1, <2>1, SilentAsks, Zenon DEF Asked
    <3>5. PICK c \in Conns : \E fs : Speech(s, fs) /\ up' = [up EXCEPT ![c] = up[c] \o fs]
      BY <1>4, <3>1
    <3>2. PICK fs : Speech(s, fs) /\ up' = [up EXCEPT ![c] = up[c] \o fs]
      BY <3>5
    <3>3. fs \in Seq(UpFrame) /\ \A q \in PaneIds : \A i \in 1..Len(fs) : fs[i] # PaneCtl("spawn", q)
      BY <2>4, <3>2 DEF Speech
    <3> QED BY <1>1, <2>1, <3>2, <3>3, WrittenAsks
  <2> QED BY <2>2, <2>3, <2>4
<1> QED BY <1>3, <1>5, <1>6

\* The link outlives a step of its server that says something over it.
LEMMA LinkKept ==
  ASSUME NumberInv, UNCHANGED <<hostSide, popen>>, NEW s \in Owners, NEW c, Link(s, c),
         \A d \in Conns : d # c => up'[d] = up[d],
         phase'[s] # "listing" => Serving(c) /\ ~hclosed[c] /\ ownerPid # NoOwner
  PROVE  Link(s, c)'
<1>1. UNCHANGED <<hpc, hclosed, ownerPid>>
  BY DEF hostSide, connVars, ownVars
<1>2. \A d \in Conns : d # c => Hushed(d)'
  BY <1>1 DEF Link, Hushed
<1> QED BY <1>1, <1>2 DEF Link, Serving

\* ensure_connected and the greeting.
LEMMA ConnectLeak ==
  ASSUME Prompt, LeakInv, NEW s \in Owners, NEW c \in Conns, Connect(s, c)
  PROVE  Attending(s)'
<1> DEFINE fs == <<OwnerCtl(s), Ctl("list")>>
<1>n. NumberInv /\ Named
  BY DEF LeakInv, ShownInv
<1>t. phase \in [Owners -> Phases] /\ cur \in [Owners -> Conns \cup {0}]
      /\ popen \in [Conns -> {"none", "open", "half", "closed"}] /\ up \in [Conns -> Seq(UpFrame)]
      /\ HostInv /\ TypeOK
  BY <1>n, NumberTypes
<1>1. /\ phase[s] = "boot" /\ HostCaughtUp /\ Open(s, c, fs)
      /\ phase' = [phase EXCEPT ![s] = "listing"] /\ cur' = [cur EXCEPT ![s] = c]
      /\ UNCHANGED <<hostSide, down>>
  BY DEF Connect
<1>2. /\ popen[c] = "none" /\ popen' = [popen EXCEPT ![c] = "open"] /\ up' = [up EXCEPT ![c] = fs]
  BY <1>1 DEF Open, FreshConn
<1>3. /\ phase'[s] = "listing" /\ cur'[s] = c /\ popen'[c] = "open" /\ up'[c] = fs
      /\ \A d \in Conns : d # c => popen'[d] = popen[d] /\ up'[d] = up[d]
  BY <1>t, <1>1, <1>2
<1>4. UNCHANGED <<hpc, hclosed, ownerPid>>
  BY <1>1 DEF hostSide, connVars, ownVars
<1>5. up[c] = <<>> /\ down[c] = <<>> /\ hpc[c] \in {"none", "closed"}
  BY <1>n, <1>2 DEF NumberInv, Unopened
<1>6. ASSUME NEW d \in Conns, d # c PROVE Hushed(d)'
  <2>1. popen[d] # "none" => hpc[d] = "closed" \/ (hpc[d] = "serve" /\ up[d] = <<>>)
    BY <1>1 DEF HostCaughtUp, Prompt
  <2>2. popen[d] = "none" => up[d] = <<>>
    BY <1>n DEF NumberInv, Unopened
  <2> QED BY <1>3, <1>4, <1>6, <2>1, <2>2 DEF Hushed
<1>7. hclosed[c] => hpc[c] = "closed"
  BY <1>t, <1>5 DEF HostInv, Fresh
<1>8. Link(s, c)'
  BY <1>3, <1>4, <1>6, <1>7 DEF Link
<1>9. Greets(s, c)'
  <2>1. ownerPid # s
    BY <1>n, <1>1, PeersAssumption DEF Named, Connected
  <2>2. Greeting(s, fs) /\ Len(fs) = 2
    BY DEF Greeting
  <2> QED BY <1>3, <1>4, <1>5, <2>1, <2>2 DEF Greets
<1>10. Answered(c)'
  BY <1>1, <1>5 DEF Answered
<1> QED BY <1>3, <1>8, <1>9, <1>10 DEF Attending, Attended

\* The answer of a daemon that has heard both frames.
LEMMA GotListLeak ==
  ASSUME LeakInv, hostUp, NEW s \in Owners, GotList(s)
  PROVE  Attending(s)'
<1>n. NumberInv
  BY DEF LeakInv, ShownInv
<1>t. phase \in [Owners -> Phases]
      /\ listed \in [Owners -> [panes : SUBSET PaneIds, prev : {"unknown", "alive", "dead"}]]
  BY <1>n, NumberTypes
<1>1. /\ phase[s] = "listing" /\ Got(s, "list_reply") /\ phase' = [phase EXCEPT ![s] = "listed"]
      /\ listed' = [listed EXCEPT ![s] = [panes |-> Received(s).panes, prev |-> Received(s).prev]]
      /\ UNCHANGED <<hostSide, peerVars, up, cur>>
  BY DEF GotList
<1>2. PICK c : c = cur[s]
  OBVIOUS
<1>3. Link(s, c) /\ Greets(s, c) /\ Answered(c) /\ c \in Conns
  BY <1>1, <1>2 DEF LeakInv, Attending, Attended, Link
<1>4. 1 \in 1..Len(down[c]) /\ down[c][1].op = "list_reply" /\ Received(s) = down[c][1]
  BY <1>n, <1>1, <1>2, GotNumbers
<1>5. hpc[c] = "serve" /\ up[c] = <<>> /\ Pruning(Received(s).prev)
  BY <1>3, <1>4 DEF Answered
<1>6. ownerPid # NoOwner /\ ~hclosed[c] /\ Serving(c)
  <2>1. Len(up[c]) < 2
    BY <1>5
  <2> QED BY <1>3, <1>5, <2>1 DEF Greets, Link, Serving
<1>7. popen' = popen /\ \A d \in Conns : d # c => up'[d] = up[d]
  BY <1>1 DEF peerVars
<1>8. Link(s, c)'
  BY <1>n, <1>1, <1>3, <1>6, <1>7, LinkKept
<1>9. Pruning(listed[s].prev)'
  <2>1. listed'[s].prev = Received(s).prev
    BY <1>t, <1>1
  <2>2. Registered' = Registered
    BY <1>1 DEF Registered, hostSide, paneVars
  <2> QED BY <1>5, <2>1, <2>2 DEF Pruning
<1>10. phase'[s] = "listed" /\ cur'[s] = c
  BY <1>t, <1>1, <1>2
<1> QED BY <1>8, <1>9, <1>10 DEF Attending, Attended

\* What is read and starts nothing.
LEMMA ReadLeak ==
  ASSUME LeakInv, hostUp, NEW s \in Owners, ShowOutput(s) \/ OnOther(s)
  PROVE  Attending(s)'
<1>n. NumberInv /\ down \in [Conns -> Seq(DownFrame)]
  BY NumberTypes DEF LeakInv, ShownInv
<1>1. PICK op \in {"data", "spawned", "list_reply", "exit"} : Got(s, op)
  BY DEF ShowOutput, OnOther
<1>2. UNCHANGED <<hostSide, peerVars, up, alive, phase, cur, cbs, tabs, listed>>
  BY Zenon DEF ShowOutput, OnOther, srvVars
<1>3. PICK c : c = cur[s]
  OBVIOUS
<1>4. \A d \in Conns : down'[d] = down[d] \/ (down[d] # <<>> /\ down'[d] = Tail(down[d]))
  BY <1>n, <1>1, GotNumbers
<1>5. UNCHANGED <<ownerPid, prevOwner, hpc, popen>> /\ Registered' = Registered /\ Taken' = Taken
      /\ Shown(s)' = Shown(s)
  BY <1>2 DEF hostSide, ownVars, connVars, paneVars, peerVars, Registered, Taken, Shown
<1>6. Attending(s)
  BY DEF LeakInv
<1>7. Attended(s) => Link(s, c)'
  BY <1>n, <1>2, <1>3, <1>5, <1>6, LinkKept DEF Attending, Attended, Link
<1>8. phase[s] = "listing" => Greets(s, c)' /\ Answered(c)'
  <2> SUFFICES ASSUME phase[s] = "listing" PROVE Greets(s, c)' /\ Answered(c)'
    OBVIOUS
  <2>1. Greets(s, c) /\ Answered(c) /\ c \in Conns
    BY <1>3, <1>6 DEF Attending, Attended, Link
  <2>2. Inherited => Inherited'
    BY <1>2, <1>5 DEF Inherited
  <2>3. Greets(s, c)'
    BY <1>2, <1>5, <2>1, <2>2, Zenon DEF Greets, Greeting
  <2>4. PICK q \in Seq(DownFrame) : q = down[c]
    BY <1>n, <2>1
  <2>5. down'[c] = q \/ (q # <<>> /\ down'[c] = Tail(q))
    BY <1>4, <2>1, <2>4
  <2>6. \A i \in 1..Len(down'[c]) : \E j \in 1..Len(q) : down'[c][i] = q[j]
    <3>1. CASE down'[c] = q
      BY <3>1
    <3>2. CASE q # <<>> /\ down'[c] = Tail(q)
      <4>1. \A i \in 1..Len(Tail(q)) : i + 1 \in 1..Len(q) /\ Tail(q)[i] = q[i + 1]
        BY <3>2
      <4> QED BY <3>2, <4>1
    <3> QED BY <2>5, <3>1, <3>2
  <2>7. \A v : Pruning(v) => Pruning(v)'
    BY <1>5 DEF Pruning
  <2>8. Answered(c)'
    BY <1>2, <1>5, <2>1, <2>4, <2>6, <2>7 DEF Answered
  <2> QED BY <2>3, <2>8
<1>9. phase[s] = "listed" => Pruning(listed[s].prev)'
  BY <1>2, <1>5, <1>6 DEF Attending, Pruning
<1>10. phase[s] = "run" => Accounted(s, c)'
  <2> SUFFICES ASSUME phase[s] = "run" PROVE Accounted(s, c)'
    OBVIOUS
  <2>1. \A p : Asked(p)' => Asked(p)
    BY <1>2, <1>5 DEF Asked, Waiting, Waits
  <2> QED BY <1>2, <1>3, <1>5, <1>6, <2>1 DEF Attending, Accounted
<1>11. phase[s] = "run" => Shown(s) \subseteq cbs[s]
  BY <1>6 DEF Attending
<1> QED BY <1>2, <1>3, <1>5, <1>7, <1>8, <1>9, <1>10, <1>11 DEF Attending, Attended

\* What an open link is sent arrives behind what it has.
LEMMA LinkSends ==
  ASSUME NumberInv, UNCHANGED hostSide, NEW s \in Owners, NEW c, c = cur[s], Link(s, c),
         phase[s] # "listing", NEW fs \in Seq(UpFrame), Send(s, fs)
  PROVE  up'[c] = up[c] \o fs /\ \A d \in Conns : d # c => up'[d] = up[d]
<1>1. c \in Conns /\ popen[c] = "open" /\ ~hclosed[c]
  BY DEF Link
<1>2. c # 0
  BY <1>1 DEF Conns
<1> QED BY <1>1, <1>2, NumberTypes DEF Send

LEMMA ClosedStill ==
  ASSUME NEW q \in Seq(UpFrame), NEW fs \in Seq(UpFrame), NEW p,
         \A i \in 1..Len(fs) : fs[i] # PaneCtl("spawn", p),
         ClosedAfter(q, p) \/ \E i \in 1..Len(fs) : fs[i] = PaneCtl("close", p)
  PROVE  ClosedAfter(q \o fs, p)
<1> DEFINE r == q \o fs
<1>1. /\ Len(q) \in Nat /\ Len(fs) \in Nat /\ Len(r) = Len(q) + Len(fs)
      /\ \A i \in 1..Len(q) : i \in 1..Len(r) /\ r[i] = q[i]
      /\ \A i \in 1..Len(fs) : Len(q) + i \in 1..Len(r) /\ r[Len(q) + i] = fs[i]
      /\ \A i \in 1..Len(r) : i \in 1..Len(q) \/ (i - Len(q) \in 1..Len(fs) /\ r[i] = fs[i - Len(q)])
  OBVIOUS
<1> HIDE DEF r
<1>2. \A i \in 1..Len(r) : r[i] = PaneCtl("spawn", p) => i \in 1..Len(q) /\ q[i] = PaneCtl("spawn", p)
  BY <1>1
<1>3. CASE ClosedAfter(q, p)
  <2>1. PICK j \in 1..Len(q) : /\ q[j] = PaneCtl("close", p)
                               /\ \A i \in 1..Len(q) : q[i] = PaneCtl("spawn", p) => i < j
    BY <1>3 DEF ClosedAfter
  <2>2. j \in 1..Len(r) /\ r[j] = PaneCtl("close", p)
    BY <1>1, <2>1
  <2>3. \A i \in 1..Len(r) : r[i] = PaneCtl("spawn", p) => i < j
    BY <1>2, <2>1
  <2> QED BY <2>2, <2>3 DEF ClosedAfter, r
<1>4. ASSUME NEW k \in 1..Len(fs), fs[k] = PaneCtl("close", p) PROVE ClosedAfter(r, p)
  <2>1. PICK j : j = Len(q) + k
    OBVIOUS
  <2>2. j \in 1..Len(r) /\ r[j] = PaneCtl("close", p)
    BY <1>1, <1>4, <2>1
  <2>3. \A i \in 1..Len(r) : r[i] = PaneCtl("spawn", p) => i < j
    BY <1>1, <1>2, <2>1
  <2> QED BY <2>2, <2>3, Zenon DEF ClosedAfter
<1> QED BY <1>3, <1>4 DEF r

\* _pane_eof takes out of the tree no pane but the one that ended.
LEMMA WithoutKeeps ==
  ASSUME NEW ts, ts \subseteq Tab, NEW p
  PROVE  PanesOf(ts) \subseteq PanesOf(Without(ts, p)) \cup {p}
<1> SUFFICES ASSUME NEW t \in ts, NEW i \in 1..Len(t), t[i] # p
             PROVE  t[i] \in PanesOf(Without(ts, p))
  BY DEF PanesOf
<1>1. t \in Seq(PaneIds)
  BY DEF Tab
<1>2. PICK r : r = Removed(t, p)
  OBVIOUS
<1>3. PICK j \in 1..Len(r) : r[j] = t[i]
  BY <1>1, <1>2, RemovedKeeps
<1>4. r \in Seq(PaneIds)
  BY <1>1, <1>2, RemovedKeeps
<1>5. r # <<>>
  BY <1>3, <1>4
<1>6. r \in Without(ts, p)
  BY <1>2, <1>5 DEF Without
<1> QED BY <1>3, <1>6 DEF PanesOf

\* A pane is dropped: its close frame accounts for it from then on.
LEMMA DropLeak ==
  ASSUME LeakInv, hostUp, NEW s \in Owners, phase[s] = "run", NEW p \in PaneIds, DropPane(s, p),
         UNCHANGED <<hostSide, peerVars, cur>>
  PROVE  Attending(s)'
<1>n. NumberInv /\ TreesApart
  BY DEF LeakInv, ShownInv
<1>t. /\ phase \in [Owners -> Phases] /\ tabs \in [Owners -> SUBSET Tab]
      /\ cbs \in [Owners -> SUBSET PaneIds] /\ up \in [Conns -> Seq(UpFrame)]
  BY <1>n, NumberTypes
<1>1. PICK c : c = cur[s]
  OBVIOUS
<1>2. Link(s, c) /\ Accounted(s, c) /\ Shown(s) \subseteq cbs[s] /\ c \in Conns
  BY <1>1 DEF LeakInv, Attending, Attended, Link
<1>3. /\ cbs'[s] = cbs[s] \ {p} /\ tabs'[s] = Without(tabs[s], p)
      /\ phase'[s] \in {"run", "ending"}
      /\ IF p \in cbs[s] THEN Send(s, <<PaneCtl("close", p)>>) ELSE UNCHANGED up
  BY <1>t DEF DropPane
<1>4. Shown(s)' \subseteq Shown(s) \ {p} /\ Shown(s) \subseteq Shown(s)' \cup {p}
  <2>1. Apart(tabs[s]) /\ tabs[s] \subseteq Tab
    BY <1>n, <1>t DEF TreesApart
  <2>2. PanesOf(tabs'[s]) \subseteq PanesOf(tabs[s]) /\ p \notin PanesOf(tabs'[s])
    BY <1>3, <2>1, WithoutIs
  <2>3. PanesOf(tabs[s]) \subseteq PanesOf(tabs'[s]) \cup {p}
    BY <1>3, <2>1, WithoutKeeps
  <2> QED BY <2>2, <2>3 DEF Shown
<1>5. PICK f \in UpFrame : f = PaneCtl("close", p)
  BY FramesOfServers DEF PaneOps
<1>6. /\ \A d \in Conns : d # c => up'[d] = up[d]
      /\ p \in cbs[s] => up'[c] = up[c] \o <<f>>
      /\ p \notin cbs[s] => up'[c] = up[c]
  <2>1. <<f>> \in Seq(UpFrame)
    OBVIOUS
  <2>2. CASE p \in cbs[s]
    <3>1. Send(s, <<f>>) /\ UNCHANGED hostSide
      BY <1>3, <1>5, <2>2
    <3>2. up'[c] = up[c] \o <<f>> /\ \A d \in Conns : d # c => up'[d] = up[d]
      BY <1>n, <1>1, <1>2, <2>1, <3>1, LinkSends
    <3> QED BY <2>2, <3>2

  <2>3. CASE p \notin cbs[s]
    BY <1>3, <2>3
  <2> QED BY <2>2, <2>3
<1>7. Serving(c) /\ ~hclosed[c] /\ ownerPid # NoOwner /\ popen' = popen
  BY <1>2 DEF Link, peerVars
<1>8. Link(s, c)'
  BY <1>n, <1>2, <1>6, <1>7, LinkKept
<1>9. Accounted(s, c)'
  <2> SUFFICES ASSUME NEW q \in PaneIds, q \in Taken \/ Asked(q)', q \notin Shown(s)'
               PROVE  ClosedAfter(up'[c], q)
    BY DEF Accounted, Taken, Registered, hostSide, paneVars
  <2>1. q \in Taken \/ Asked(q)
    <3>1. up' = up \/ (p \in cbs[s] /\ Send(s, <<PaneCtl("close", p)>>))
      BY <1>3
    <3> QED BY <1>n, <3>1, DropAsks
  <2>2. q \in Shown(s) \/ ClosedAfter(up[c], q)
    BY <1>2, <2>1 DEF Accounted
  <2>3. q \in Shown(s) => q = p
    BY <1>4
  <2>4. CASE p \notin cbs[s]
    BY <1>2, <1>6, <2>2, <2>3, <2>4
  <2>5. CASE p \in cbs[s]
    <3>1. up[c] \in Seq(UpFrame) /\ <<f>> \in Seq(UpFrame)
      BY <1>t, <1>2
    <3>2. \A i \in 1..Len(<<f>>) : <<f>>[i] # PaneCtl("spawn", q)
      BY <1>5 DEF PaneCtl
    <3>3. ClosedAfter(up[c], q) \/ \E i \in 1..Len(<<f>>) : <<f>>[i] = PaneCtl("close", q)
      <4>1. 1 \in 1..Len(<<f>>) /\ <<f>>[1] = f
        OBVIOUS
      <4> QED BY <1>5, <2>2, <2>3, <4>1
    <3>4. ClosedAfter(up[c] \o <<f>>, q)
      BY <3>1, <3>2, <3>3, ClosedStill
    <3> QED BY <1>6, <2>5, <3>4
  <2> QED BY <2>4, <2>5
<1>10. Shown(s)' \subseteq cbs'[s]
  BY <1>2, <1>3, <1>4
<1>11. cur'[s] = c
  BY <1>1
<1> QED BY <1>3, <1>8, <1>9, <1>10, <1>11 DEF Attending, Attended

\* A pane is asked for: it is in the tree from then on.
LEMMA SpawnLeak ==
  ASSUME LeakInv, hostUp, NEW s \in Owners, NEW ts, SpawnPane(s, ts),
         PanesOf(ts) = Shown(s) \cup {NextPaneId(s)}
  PROVE  Attending(s)'
<1> DEFINE p == NextPaneId(s)
<1>n. NumberInv
  BY DEF LeakInv, ShownInv
<1>t. /\ phase \in [Owners -> Phases] /\ tabs \in [Owners -> SUBSET Tab]
      /\ cbs \in [Owners -> SUBSET PaneIds] /\ up \in [Conns -> Seq(UpFrame)]
  BY <1>n, NumberTypes
<1>1. PICK c : c = cur[s]
  OBVIOUS
<1>0. /\ phase[s] = "run" /\ p \in PaneIds /\ cbs' = [cbs EXCEPT ![s] = cbs[s] \cup {p}]
      /\ tabs' = [tabs EXCEPT ![s] = ts] /\ Send(s, <<PaneCtl("spawn", p)>>)
      /\ UNCHANGED <<hostSide, peerVars, phase, cur>>
  BY DEF SpawnPane
<1>2. Link(s, c) /\ Accounted(s, c) /\ Shown(s) \subseteq cbs[s] /\ c \in Conns
  BY <1>0, <1>1 DEF LeakInv, Attending, Attended, Link
<1>a. \A q \in PaneIds : Asked(q)' => Asked(q) \/ q = p
  BY <1>n, SpawnAsks
<1> HIDE DEF p
<1>3. cbs'[s] = cbs[s] \cup {p} /\ Shown(s)' = Shown(s) \cup {p}
  BY <1>t, <1>0 DEF Shown, p
<1>5. PICK f \in UpFrame : f = PaneCtl("spawn", p)
  BY <1>0, FramesOfServers DEF PaneOps
<1>6. up'[c] = up[c] \o <<f>> /\ \A d \in Conns : d # c => up'[d] = up[d]
  <2>1. <<f>> \in Seq(UpFrame)
    OBVIOUS
  <2> QED BY <1>n, <1>0, <1>1, <1>2, <1>5, <2>1, LinkSends
<1>7. Serving(c) /\ ~hclosed[c] /\ ownerPid # NoOwner /\ popen' = popen
  BY <1>0, <1>2 DEF Link, peerVars
<1>8. Link(s, c)'
  BY <1>n, <1>0, <1>2, <1>6, <1>7, LinkKept
<1>9. Accounted(s, c)'
  <2> SUFFICES ASSUME NEW q \in PaneIds, q \in Taken \/ Asked(q)', q \notin Shown(s)'
               PROVE  ClosedAfter(up'[c], q)
    BY <1>0 DEF Accounted, Taken, Registered, hostSide, paneVars
  <2>1. q # p /\ ClosedAfter(up[c], q)
    BY <1>2, <1>3, <1>a DEF Accounted
  <2>2. up[c] \in Seq(UpFrame) /\ <<f>> \in Seq(UpFrame)
    BY <1>t, <1>2
  <2>3. \A i \in 1..Len(<<f>>) : <<f>>[i] # PaneCtl("spawn", q)
    BY <1>5, <2>1 DEF PaneCtl
  <2>4. ClosedAfter(up[c] \o <<f>>, q)
    BY <2>1, <2>2, <2>3, ClosedStill
  <2> QED BY <1>6, <2>4
<1>10. Shown(s)' \subseteq cbs'[s]
  BY <1>2, <1>3
<1>11. cur'[s] = c /\ phase'[s] = "run"
  BY <1>0, <1>1
<1> QED BY <1>8, <1>9, <1>10, <1>11 DEF Attending, Attended

LEMMA SplitKeeps ==
  ASSUME NEW ts, ts \subseteq Tab, NEW t \in ts, NEW p \in PaneIds
  PROVE  PanesOf(ts) \cup {p} \subseteq PanesOf((ts \ {t}) \cup {Append(t, p)})
<1>1. t \in Seq(PaneIds)
  BY DEF Tab
<1>2. PICK x : x = Append(t, p)
  OBVIOUS
<1>3. /\ Len(x) \in 1..Len(x) /\ x[Len(x)] = p
      /\ \A i \in 1..Len(t) : i \in 1..Len(x) /\ x[i] = t[i]
  BY <1>1, <1>2
<1>4. PICK us : us = (ts \ {t}) \cup {x}
  OBVIOUS
<1>5. p \in PanesOf(us)
  BY <1>3, <1>4 DEF PanesOf
<1>6. ASSUME NEW u \in ts, NEW i \in 1..Len(u) PROVE u[i] \in PanesOf(us)
  <2>1. CASE u = t
    <3>1. i \in 1..Len(x) /\ x[i] = u[i]
      BY <1>3, <1>6, <2>1
    <3> QED BY <1>4, <3>1 DEF PanesOf
  <2>2. CASE u # t
    BY <1>4, <2>2 DEF PanesOf
  <2> QED BY <2>1, <2>2
<1>7. PanesOf(ts) \subseteq PanesOf(us)
  BY <1>6 DEF PanesOf
<1> QED BY <1>2, <1>4, <1>5, <1>7

\* What is restored is shown; what is not, of all the daemon has, is closed at once
\* (_prune_unknown_host_panes), because the predecessor is known to be dead.
LEMMA RestoreLeak ==
  ASSUME LeakInv, hostUp, NEW s \in Owners, Restore(s)
  PROVE  Attending(s)'
<1> DEFINE back  == Restorable(s)
           top   == SeqAdopted(s)
           fresh == IF back = {} THEN {top + 1} ELSE {}
           shown == PanesOf(back) \cup fresh
<1>n. NumberInv
  BY DEF LeakInv, ShownInv
<1>t. /\ phase \in [Owners -> Phases] /\ tabs \in [Owners -> SUBSET Tab]
      /\ cbs \in [Owners -> SUBSET PaneIds] /\ up \in [Conns -> Seq(UpFrame)]
      /\ listed[s].panes \subseteq PaneIds
      /\ \A t \in resume[s].tabs : t \in Tab
  BY <1>n, NumberTypes
<1>1. /\ phase[s] = "listed" /\ fresh \subseteq PaneIds
      /\ tabs' = [tabs EXCEPT ![s] = back \cup {<<p>> : p \in fresh}]
      /\ cbs' = [cbs EXCEPT ![s] = shown]
      /\ \E half \in Frames("close", HalfBuilt(s)), new \in Frames("spawn", fresh),
            stale \in Frames("close", Pruned(s, shown)) : Send(s, half \o new \o stale)
      /\ phase' = [phase EXCEPT ![s] = "run"]
      /\ UNCHANGED <<hostSide, peerVars, cur>>
  BY DEF Restore
<1>2. Shown(s)' = shown
  <2>1. tabs'[s] = back \cup {<<p>> : p \in fresh}
    BY <1>t, <1>1
  <2>2. \A p : PanesOf({<<p>>}) = {p}
    BY DEF PanesOf
  <2>3. PanesOf({<<p>> : p \in fresh}) = fresh
    <3>1. CASE fresh = {}
      BY <3>1 DEF PanesOf
    <3>2. CASE fresh # {}
      <4>1. fresh = {top + 1}
        BY <3>2
      <4>2. {<<p>> : p \in fresh} = {<<top + 1>>}
        BY <4>1
      <4> QED BY <2>2, <4>1, <4>2
    <3> QED BY <3>1, <3>2
  <2>4. \A us, vs : PanesOf(us \cup vs) = PanesOf(us) \cup PanesOf(vs)
    BY DEF PanesOf
  <2>5. PICK us : us = {<<p>> : p \in fresh}
    OBVIOUS
  <2>6. Shown(s)' = PanesOf(back \cup us)
    BY <2>1, <2>5, Zenon DEF Shown
  <2>7. PanesOf(back \cup us) = PanesOf(back) \cup fresh
    <3>1. PanesOf(back \cup us) = PanesOf(back) \cup PanesOf(us)
      BY <2>4
    <3>2. PanesOf(us) = fresh
      BY <2>3, <2>5
    <3> HIDE DEF back, fresh
    <3> QED BY <3>1, <3>2
  <2>8. shown = PanesOf(back) \cup fresh
    OBVIOUS
  <2> HIDE DEF back, fresh, shown
  <2> QED BY <2>6, <2>7, <2>8, Zenon
<1> HIDE DEF back, top, fresh, shown
<1>3. PICK c : c = cur[s]
  OBVIOUS
<1>4. Link(s, c) /\ c \in Conns /\ Pruning(listed[s].prev)
  BY <1>1, <1>3 DEF LeakInv, Attending, Attended, Link
<1>5. PICK half \in Frames("close", HalfBuilt(s)), new \in Frames("spawn", fresh),
            stale \in Frames("close", Pruned(s, shown)) : Send(s, half \o new \o stale)
  BY <1>1
<1>6. HalfBuilt(s) \subseteq PaneIds /\ Pruned(s, shown) \subseteq PaneIds
  <2>1. \A t \in resume[s].tabs : \A i \in 1..Len(t) : t[i] \in PaneIds
    BY <1>t DEF Tab
  <2> QED BY <1>t, <2>1 DEF HalfBuilt, Pruned
<1>7. /\ half \in Seq(UpFrame) /\ \A i \in 1..Len(half) : \E p \in HalfBuilt(s) : half[i] = PaneCtl("close", p)
      /\ new \in Seq(UpFrame) /\ \A i \in 1..Len(new) : \E p \in fresh : new[i] = PaneCtl("spawn", p)
      /\ stale \in Seq(UpFrame) /\ \A i \in 1..Len(stale) : \E p \in Pruned(s, shown) : stale[i] = PaneCtl("close", p)
  <2>1. "close" \in PaneOps /\ "spawn" \in PaneOps
    BY DEF PaneOps
  <2> QED BY <1>1, <1>6, <2>1, FramesType
<1>8. PICK fs : fs = half \o new \o stale
  OBVIOUS
<1>9. /\ fs \in Seq(UpFrame)
      /\ \A i \in 1..Len(fs) : \A p : fs[i] = PaneCtl("spawn", p) => p \in fresh
      /\ \A j \in 1..Len(stale) : \E i \in 1..Len(fs) : fs[i] = stale[j]
  <2>1. Says(half, "close", HalfBuilt(s)) /\ Says(new, "spawn", fresh) /\ Says(stale, "close", Pruned(s, shown))
    BY <1>7 DEF Says
  <2>2. /\ fs \in Seq(UpFrame)
        /\ \A i \in 1..Len(fs) : \A p : fs[i] = PaneCtl("spawn", p) => p \in fresh
    BY <1>8, <2>1, ThreeSay DEF InRow
  <2>3. PICK a \in Seq(UpFrame) : a = half \o new
    <3>1. PICK h \in Seq(UpFrame), n \in Seq(UpFrame) : h = half /\ n = new
      BY <1>7
    <3>2. h \o n \in Seq(UpFrame)
      OBVIOUS
    <3> QED BY <3>1, <3>2
  <2>4. ASSUME NEW j \in 1..Len(stale) PROVE \E i \in 1..Len(fs) : fs[i] = stale[j]
    <3>1. PICK b \in Seq(UpFrame) : b = stale
      BY <1>7
    <3>2. j \in 1..Len(b)
      BY <3>1
    <3>3. Len(a) + j \in 1..Len(a \o b) /\ (a \o b)[Len(a) + j] = b[j]
      BY <3>2
    <3>4. Len(a) + j \in 1..Len(a \o stale) /\ (a \o stale)[Len(a) + j] = stale[j]
      BY <3>1, <3>3
    <3> QED BY <1>8, <2>3, <3>4
  <2> QED BY <2>2, <2>4
<1>10. up'[c] = up[c] \o fs /\ \A d \in Conns : d # c => up'[d] = up[d]
  <2>1. Send(s, fs) /\ phase[s] # "listing" /\ UNCHANGED hostSide
    BY <1>1, <1>5, <1>8
  <2>2. fs \in Seq(UpFrame)
    BY <1>9
  <2> QED BY <1>n, <1>3, <1>4, <2>1, <2>2, LinkSends, Zenon
<1>11. Serving(c) /\ ~hclosed[c] /\ ownerPid # NoOwner /\ popen' = popen
  BY <1>1, <1>4 DEF Link, peerVars
<1>12. Link(s, c)'
  BY <1>n, <1>1, <1>4, <1>10, <1>11, LinkKept
<1>13. Accounted(s, c)'
  <2> SUFFICES ASSUME NEW q \in PaneIds, q \in Taken \/ Asked(q)', q \notin shown
               PROVE  ClosedAfter(up'[c], q)
    BY <1>1, <1>2 DEF Accounted, Taken, Registered, hostSide, paneVars
  <2>1. q \notin fresh
    BY DEF shown
  <2>2. ~Asked(q)'
    BY <1>n, <1>1, <2>1, RestoreWrites
  <2>3. q \in Registered /\ q \in listed[s].panes
    BY <1>n, <1>1, <2>2 DEF NumberInv, Quiescent, Lists, Taken
  <2>4. q \in Pruned(s, shown)
    BY <1>4, <2>3 DEF Pruning, Pruned
  <2>5. \E j \in 1..Len(stale) : stale[j] = PaneCtl("close", q)
    <3>1. Cardinality(Pruned(s, shown)) \in Nat
      BY <1>6, PanesAreFinite
    <3>2. DOMAIN stale = 1..Cardinality(Pruned(s, shown)) /\ DOMAIN stale = 1..Len(stale)
      BY <1>7 DEF Frames
    <3>3. \E j \in 1..Cardinality(Pruned(s, shown)) : stale[j] = PaneCtl("close", q)
      BY <2>4 DEF Frames
    <3> QED BY <3>2, <3>3
  <2>6. \A i \in 1..Len(fs) : fs[i] # PaneCtl("spawn", q)
    BY <1>9, <2>1
  <2>7. \E i \in 1..Len(fs) : fs[i] = PaneCtl("close", q)
    BY <1>9, <2>5
  <2>8. up[c] \in Seq(UpFrame)
    BY <1>t, <1>4
  <2>9. ClosedAfter(up[c] \o fs, q)
    BY <1>9, <2>6, <2>7, <2>8, ClosedStill
  <2> QED BY <1>10, <2>9
<1>14. Shown(s)' \subseteq cbs'[s]
  BY <1>t, <1>1, <1>2
<1>15. cur'[s] = c /\ phase'[s] = "run"
  BY <1>t, <1>1, <1>3
<1> QED BY <1>12, <1>13, <1>14, <1>15 DEF Attending, Attended


\* Every step of a server and of its users keeps the account.
LEMMA ServerLeak ==
  ASSUME Prompt, LeakInv, ShownInv', NEW s \in Owners, ServerStep(s) \/ UserStep(s)
  PROVE  LeakInv'
<1>n. NumberInv /\ ShownInv /\ GoneDead /\ Named /\ Unclaimed /\ (hostUp => \A t \in Owners : Attending(t))
  BY DEF LeakInv, ShownInv
<1>t. phase \in [Owners -> Phases] /\ cur \in [Owners -> Conns \cup {0}] /\ tabs[s] \subseteq Tab
      /\ cbs \in [Owners -> SUBSET PaneIds]
  BY <1>n, NumberTypes
<1>1. GoneDead' /\ Named' /\ Unclaimed'
  BY <1>n, ServerNames
<1>2. UNCHANGED hostSide /\ \A t \in Owners : t # s => ~Attended(t)'
  BY <1>n, ServerPhases
<1>3. hostUp' = hostUp
  BY <1>2 DEF hostSide
\* Who does not attend to a connection any more has nothing to account for.
<1>4. ASSUME NEW t \in Owners, ~Attended(t)' PROVE Attending(t)'
  BY <1>4 DEF Attending, Attended
\* The connection of a running server is neither lost nor closed while the daemon is up.
<1>5. hostUp /\ phase[s] = "run" => /\ cur[s] # 0 /\ ~hclosed[cur[s]]
  BY <1>n DEF Attending, Attended, Link, Conns
<1>6. ASSUME hostUp, NEW p \in PaneIds, DropPane(s, p), UNCHANGED <<hostSide, peerVars, cur>>,
             phase[s] \in {"run", "leaving", "ending"}
      PROVE  Attending(s)'
  <2>1. CASE phase[s] = "run"
    BY <1>6, <2>1, DropLeak
  <2>2. CASE phase[s] # "run"
    <3>1. phase' = phase
      BY <1>6, <2>2 DEF DropPane
    <3> QED BY <1>4, <1>6, <2>2, <3>1 DEF Attended
  <2> QED BY <2>1, <2>2
<1>7. ASSUME hostUp, ServerStep(s) PROVE Attending(s)'
  <2>1. ASSUME ListTimesOut(s) PROVE FALSE
    BY <2>1 DEF ListTimesOut, Prompt
  <2>2. CASE GotList(s)
    BY <1>7, <2>2, GotListLeak
  <2>3. CASE Restore(s)
    BY <1>7, <2>3, RestoreLeak
  <2>4. CASE ShowOutput(s) \/ OnOther(s)
    BY <1>7, <2>4, ReadLeak
  <2>5. CASE OnExit(s)
    <3>1. /\ Got(s, "exit") /\ Received(s).pane \in cbs[s] /\ DropPane(s, Received(s).pane)
          /\ UNCHANGED <<hostSide, peerVars, cur>>
      BY <2>5 DEF OnExit
    <3>2. phase[s] \in {"run", "leaving", "ending"}
      BY <1>n, <3>1 DEF Got, Busy, NumberInv, Idle
    <3>3. PICK p \in PaneIds : p = Received(s).pane
      BY <1>t, <3>1
    <3> QED BY <1>6, <1>7, <3>1, <3>2, <3>3
  <2>6. CASE RestartExit(s)
    <3>1. phase'[s] = "gone"
      BY <1>t, <2>6 DEF RestartExit, Forget
    <3> QED BY <1>4, <3>1 DEF Attended
  <2>7. CASE OnHostLost(s)
    <3>1. phase' = phase /\ phase[s] = "leaving"
      BY <1>5, <1>7, <2>7 DEF OnHostLost
    <3> QED BY <1>4, <3>1 DEF Attended
  <2>8. ASSUME NEW c \in Conns, Connect(s, c) \/ EndServer(s, c) \/ Reconnect(s, c)
        PROVE  Attending(s)'
    <3>1. CASE Connect(s, c)
      BY <3>1, ConnectLeak
    <3>2. CASE EndServer(s, c)
      <4>1. phase'[s] = "gone"
        BY <1>t, <3>2 DEF EndServer, Forget
      <4> QED BY <1>4, <4>1 DEF Attended
    <3>3. CASE Reconnect(s, c)
      <4>1. phase' = phase /\ phase[s] = "leaving"
        BY <1>5, <1>7, <3>3 DEF Reconnect
      <4> QED BY <1>4, <4>1 DEF Attended
    <3> QED BY <2>8, <3>1, <3>2, <3>3
  <2> QED BY <1>7, <2>1, <2>2, <2>3, <2>4, <2>5, <2>6, <2>7, <2>8 DEF ServerStep
<1>8. ASSUME hostUp, UserStep(s) PROVE Attending(s)'
  <2> DEFINE p == NextPaneId(s)
  <2>1. Apart(tabs[s]) /\ seq[s] \in PaneIds \cup {0}
    BY <1>n, NumberTypes DEF ShownInv, TreesApart
  <2>2. ASSUME NEW ts, SpawnPane(s, ts) PROVE p \in PaneIds /\ p \notin PanesOf(tabs[s])
    <3>1. p \in PaneIds /\ p = seq[s] + 1 /\ phase[s] = "run"
      BY <2>2 DEF SpawnPane, NextPaneId
    <3> HIDE DEF p
    <3>2. p \in PanesOf(tabs[s]) => p <= seq[s]
      BY <1>n, <3>1 DEF ShownInv, TabsBelow, Shown
    <3> QED BY <2>1, <3>1, <3>2 DEF PaneIds
  <2>3. CASE Launch(s)
    <3>1. phase'[s] = "boot"
      BY <1>t, <2>3 DEF Launch
    <3> QED BY <1>4, <3>1 DEF Attended
  <2>4. CASE NewTab(s)
    <3>1. SpawnPane(s, tabs[s] \cup {<<p>>})
      BY <2>4 DEF NewTab
    <3>2. p \in PaneIds /\ p \notin PanesOf(tabs[s])
      BY <2>2, <3>1
    <3>3. PanesOf(tabs[s] \cup {<<p>>}) = Shown(s) \cup {NextPaneId(s)}
      BY <1>t, <2>1, <3>2, GrownIs DEF Shown
    <3> QED BY <1>8, <3>1, <3>3, SpawnLeak
  <2>5. CASE Crash(s)
    <3>1. phase'[s] = "gone"
      BY <1>t, <2>5 DEF Crash, Forget
    <3> QED BY <1>4, <3>1 DEF Attended
  <2>6. ASSUME NEW t \in tabs[s], SplitTab(s, t) PROVE Attending(s)'
    <3> DEFINE us == (tabs[s] \ {t}) \cup {Append(t, p)}
    <3>1. SpawnPane(s, us)
      BY <2>6 DEF SplitTab
    <3>2. p \in PaneIds /\ p \notin PanesOf(tabs[s])
      BY <2>2, <3>1
    <3>3. PanesOf(us) \subseteq Shown(s) \cup {NextPaneId(s)}
      BY <1>t, <2>1, <3>2, GrownIs DEF Shown
    <3>4. Shown(s) \cup {NextPaneId(s)} \subseteq PanesOf(us)
      BY <1>t, <3>2, SplitKeeps DEF Shown
    <3> HIDE DEF us
    <3>5. PanesOf(us) = Shown(s) \cup {NextPaneId(s)}
      BY <3>3, <3>4
    <3> QED BY <1>8, <3>1, <3>5, SpawnLeak
  <2>7. ASSUME NEW q \in PaneIds, KillPane(s, q) PROVE Attending(s)'
    BY <1>6, <1>8, <2>7 DEF KillPane
  <2>8. ASSUME NEW t \in Owners, Restart(s, t) PROVE Attending(s)'
    <3>1. phase'[s] = "leaving"
      BY <1>t, <2>8 DEF Restart
    <3> QED BY <1>4, <3>1 DEF Attended
  <2> QED BY <1>8, <2>3, <2>4, <2>5, <2>6, <2>7, <2>8 DEF UserStep
<1>9. hostUp => Attending(s)'
  BY <1>7, <1>8
<1>10. hostUp' => \A t \in Owners : Attending(t)'
  BY <1>2, <1>3, <1>4, <1>9
<1> QED BY <1>1, <1>10 DEF LeakInv

-----------------------------------------------------------------------------
(* The theorem about panes that nobody shows.                                *)

LEMMA LeakBegins == SessionInit => LeakInv
<1> SUFFICES ASSUME SessionInit PROVE LeakInv
  OBVIOUS
<1>1. ShownInv
  BY ShownBegins
<1>2. /\ \A s \in Owners : phase[s] = "none"
      /\ \A c \in Conns : up[c] = <<>>
      /\ ownerPid = NoOwner /\ spawning = {} /\ \A p \in PaneIds : shellOf[p] = 0
  BY DEF SessionInit, HostInit
<1>3. GoneDead /\ Named /\ \A s \in Owners : Attending(s)
  BY <1>2 DEF GoneDead, Named, Attending, Attended
<1>4. Unclaimed
  BY <1>2 DEF Unclaimed, Taken, Registered, Asked, Waiting, Waits
<1> QED BY <1>1, <1>3, <1>4 DEF LeakInv

LEMMA LeakStep ==
  ASSUME Prompt, ~SpawnErrs
  PROVE  LeakInv /\ [SessionNext]_sessionVars => LeakInv'
<1> SUFFICES ASSUME LeakInv, [SessionNext]_sessionVars PROVE LeakInv'
  OBVIOUS
<1>1. ShownInv'
  BY ShownStep DEF LeakInv
<1>2. CASE (HostStep \/ ShellStep) /\ UNCHANGED srvVars
  BY <1>2, HostLeak
<1>3. ASSUME NEW s \in Owners, ServerStep(s) \/ UserStep(s) PROVE LeakInv'
  BY <1>1, <1>3, ServerLeak
<1>4. CASE UNCHANGED sessionVars
  <2>1. /\ UNCHANGED <<hostUp, ownVars, spawning, paneVars, connVars, popen, up, down, alive>>
        /\ UNCHANGED <<phase, cur, cbs, tabs, listed>>
    <3>1. UNCHANGED hostVars /\ UNCHANGED srvVars
      BY <1>4 DEF sessionVars
    <3> QED BY <3>1 DEF hostVars, peerVars, srvVars
  <2>2. UNCHANGED <<ownerPid, prevOwner, hpc, hclosed, shellOf>>
    BY <2>1 DEF ownVars, paneVars, connVars
  <2>3. \A q : Asked(q)' = Asked(q)
    BY <2>1, <2>2 DEF Asked, Waiting, Waits
  <2>4. Taken' = Taken /\ Registered' = Registered /\ spawning' = spawning
    BY <2>1, <2>2 DEF Taken, Registered
  <2>5. GoneDead' /\ Named' /\ Unclaimed'
    BY <2>1, <2>2, <2>3, <2>4 DEF LeakInv, GoneDead, Named, Unclaimed, Connected
  <2>6. ASSUME hostUp, NEW s \in Owners PROVE Attending(s)'
    <3>1. Attending(s)
      BY <2>6 DEF LeakInv
    <3> QED BY <2>1, <2>2, <2>3, <2>4, <3>1
            DEF Attending, Attended, Link, Hushed, Serving, Greets, Inherited, Answered, Pruning,
                Accounted, Shown
  <2> QED BY <1>1, <2>1, <2>5, <2>6 DEF LeakInv
<1> QED BY <1>2, <1>3, <1>4 DEF SessionNext

\* When all is quiet, no close frame waits: what is accounted for is shown.
LEMMA SettledShows == LeakInv => NothingLeaked
<1> SUFFICES ASSUME LeakInv, hostUp, ~Settling, NEW s \in Owners, Living(s), NEW p \in Registered
             PROVE  p \in Shown(s)
  BY DEF NothingLeaked
<1>1. phase[s] = "run"
  BY DEF Settling, Living
<1>2. PICK c : c = cur[s]
  OBVIOUS
<1>3. Link(s, c) /\ Accounted(s, c)
  BY <1>1, <1>2 DEF LeakInv, Attending, Attended
<1>4. up[c] = <<>>
  BY <1>1, <1>3 DEF Link, Serving, Settling
<1>5. ~ClosedAfter(up[c], p)
  BY <1>4 DEF ClosedAfter
<1>6. p \in PaneIds /\ p \in Taken
  BY DEF Registered, Taken
<1> QED BY <1>3, <1>5, <1>6 DEF Accounted

\* When everything has settled, the daemon keeps no pane that no server shows: a server
\* closes what it drops (_pane_eof), a started one what it does not restore
\* (_prune_unknown_host_panes), and no close frame of theirs is lost, as long as starting
\* servers hear of all panes in time and the backend never fails to make a shell: its
\* error ends the connection with all the frames that wait on it.
THEOREM NothingLeakedCorrect ==
  ASSUME Prompt, ~SpawnErrs
  PROVE  SessionSpec => []NothingLeaked
<1> QED BY SettledShows, LeakBegins, LeakStep, PTL DEF SessionSpec
=============================================================================

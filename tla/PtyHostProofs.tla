--------------------------- MODULE PtyHostProofs ---------------------------
(* Theorems about the PTY host daemon, for every value of its constants:    *)
(* types, connections and the way down; then the children and their output. *)
(* The lemmas first: what the frames are, and the type of what is sent.     *)
EXTENDS PtyHost, FiniteSetTheorems, SequenceTheorems, TLAPS

LEMMA DataFrameIsDown ==
  ASSUME shellOf \in [PaneIds -> Shells \cup {0}],
         NEW d \in [PaneIds -> Seq(Nat)]
  PROVE  DataFrame(d) \in DownFrame
BY SMT DEF DataFrame, DownFrame

LEMMA WrittenType ==
  ASSUME down \in [Conns -> Seq(DownFrame)],
         NEW c \in Conns, NEW f \in DownFrame
  PROVE  Written(c, f) \in [Conns -> Seq(DownFrame)]
BY SMT DEF Written

LEMMA SpawnedIsDown ==
  ASSUME NEW p \in PaneIds, NEW k \in Shells \cup {0}
  PROVE  SpawnedFrame(p, k) \in DownFrame
BY SMT DEF SpawnedFrame, DownFrame

LEMMA ExitIsDown ==
  ASSUME NEW p \in PaneIds
  PROVE  [op |-> "exit", pane |-> p] \in DownFrame
BY SMT DEF DownFrame

LEMMA ListReplyType ==
  ASSUME down \in [Conns -> Seq(DownFrame)], NEW c \in Conns,
         NEW v \in {"unknown", "alive", "dead"}, ListReply(c, v)
  PROVE  down' \in [Conns -> Seq(DownFrame)]
<1>1. [op |-> "list_reply", panes |-> Registered, prev |-> v] \in DownFrame
  BY SMT DEF DownFrame, Registered
<1> QED BY <1>1, WrittenType DEF ListReply

\* Taking a frame leaves a queue of frames, and the frame taken was one.
LEMMA TakingType ==
  ASSUME TypeOK, NEW c \in Conns, NEW op, Taking(c, op)
  PROVE  /\ up' \in [Conns -> Seq(UpFrame)]
         /\ op \in PaneOps => Arg(c) \in PaneIds
         /\ op = "owner" => Head(up[c]).pid \in Owners
<1>1. up[c] \in Seq(UpFrame) /\ up[c] # <<>> /\ Head(up[c]).op = op
  BY SMT DEF TypeOK, Taking
<1>2. Head(up[c]) \in UpFrame /\ Tail(up[c]) \in Seq(UpFrame)
  BY <1>1, SMT
<1>3. up' \in [Conns -> Seq(UpFrame)]
  BY <1>2, SMT DEF TypeOK, Taking
<1>4. /\ op \in PaneOps => Arg(c) \in PaneIds
      /\ op = "owner" => Head(up[c]).pid \in Owners
  BY <1>1, <1>2, SMT DEF UpFrame, PaneOps, CtlOps, Arg
<1> QED BY <1>3, <1>4

LEMMA NoDataType == NoData \in [PaneIds -> Seq(Nat)]
BY SMT DEF NoData

LEMMA ClosePanesType ==
  ASSUME TypeOK, NEW S, ClosePanes(S)
  PROVE  /\ shell' \in [Shells -> {"none", "live", "exited", "closed"}]
         /\ shellOf' \in [PaneIds -> Shells \cup {0}]
         /\ pending' \in [PaneIds -> Seq(Nat)]
         /\ paused' \subseteq PaneIds
BY SMT DEF TypeOK, ClosePanes

-----------------------------------------------------------------------------
(* Type correctness.  A coroutine that makes a PTY makes it for a pane.      *)

ArgOK == \A c \in Conns : hpc[c] = "spawning" => harg[c] \in PaneIds
TypeInv == TypeOK /\ ArgOK

LEMMA TypeInit == HostInit => TypeInv
<1> SUFFICES ASSUME HostInit PROVE TypeInv
  OBVIOUS
<1> USE BoundsAssumption, SwitchAssumption DEF HostInit
<1>1. /\ up \in [Conns -> Seq(UpFrame)]
      /\ down \in [Conns -> Seq(DownFrame)]
      /\ pending \in [PaneIds -> Seq(Nat)]
  BY SMT DEF NoData
<1>3. /\ hpc \in [Conns -> HandlerStates]
      /\ popen \in [Conns -> {"none", "open", "half", "closed"}]
      /\ shell \in [Shells -> {"none", "live", "exited", "closed"}]
      /\ wdpc \in {"sleep", "check", "settle", "done"}
  BY SMT DEF HandlerStates
<1>5. /\ harg \in [Conns -> PaneIds \cup {0}] /\ hshell \in [Conns -> Shells \cup {0}]
      /\ shellOf \in [PaneIds -> Shells \cup {0}] /\ out \in [Shells -> Nat]
      /\ probe \in [Conns -> BOOLEAN] /\ hclosed \in [Conns -> BOOLEAN]
      /\ good \in [Conns -> BOOLEAN] /\ powner \in [Conns -> Owners \cup {NoOwner}]
  BY SMT
<1>8. hostUp \in BOOLEAN /\ stop \in BOOLEAN
  BY Zenon
<1>6. /\ writer \in Conns \cup {0}
      /\ ownerPid \in Owners \cup {NoOwner} /\ prevOwner \in Owners \cup {NoOwner}
      /\ wdOwner \in Owners \cup {NoOwner} /\ strikes \in Nat
      /\ alive \subseteq Owners
  BY SMT
<1>7. spawning \subseteq PaneIds /\ paused \subseteq PaneIds /\ reaping \subseteq PaneIds \X Shells
  BY Zenon
<1>4. TypeOK
  BY <1>1, <1>3, <1>5, <1>6, <1>7, <1>8, Zenon DEF TypeOK
<1>2. ArgOK
  BY SMT DEF ArgOK
<1> QED BY <1>2, <1>4 DEF TypeInv

LEMMA TypePeer ==
  ASSUME TypeInv, PeerStep
  PROVE  TypeInv'
<1> USE DEF TypeInv, TypeOK, ArgOK, HandlerStates, peerVars, connVars, paneVars, wdVars, ownVars
<1>1. ASSUME NEW c \in Conns, NEW o \in Owners \cup {NoOwner}, NEW g \in BOOLEAN,
             PeerOpen(c, o, g)
      PROVE  TypeInv'
  BY <1>1, SMT DEF PeerOpen
<1>2. ASSUME NEW c \in Conns, NEW f \in UpFrame, PeerSend(c, f)
      PROVE  TypeInv'
  <2>1. up' \in [Conns -> Seq(UpFrame)]
    BY <1>2, SMT DEF PeerSend
  <2> QED BY <1>2, <2>1, SMT DEF PeerSend
<1>3. ASSUME NEW c \in Conns, PeerRecv(c)
      PROVE  TypeInv'
  <2>1. down' \in [Conns -> Seq(DownFrame)]
    BY <1>3, SMT DEF PeerRecv
  <2> QED BY <1>3, <2>1, SMT DEF PeerRecv
<1>4. ASSUME NEW c \in Conns, PeerHalfClose(c)
      PROVE  TypeInv'
  BY <1>4, SMT DEF PeerHalfClose
<1>5. ASSUME NEW c \in Conns, PeerClose(c)
      PROVE  TypeInv'
  <2>1. down' \in [Conns -> Seq(DownFrame)]
    BY <1>5, SMT DEF PeerClose
  <2> QED BY <1>5, <2>1, SMT DEF PeerClose
<1>6. ASSUME NEW c \in Conns, ConnReset(c)
      PROVE  TypeInv'
  <2>1. up' \in [Conns -> Seq(UpFrame)]
    BY <1>6, SMT DEF ConnReset
  <2> QED BY <1>6, <2>1, SMT DEF ConnReset
<1>7. ASSUME NEW o \in Owners, OwnerDies(o)
      PROVE  TypeInv'
  <2>1. down' \in [Conns -> Seq(DownFrame)]
    BY <1>7, SMT DEF OwnerDies
  <2> QED BY <1>7, <2>1, SMT DEF OwnerDies
<1>8. \A f \in PeerFrame : f \in UpFrame
  BY SMT DEF PeerFrame, UpFrame, Ctl, PaneCtl
<1>9. \A c \in Conns : powner[c] # NoOwner => OwnerCtl(powner[c]) \in UpFrame
  BY SMT DEF UpFrame, OwnerCtl
<1> QED BY <1>1, <1>2, <1>3, <1>4, <1>5, <1>6, <1>7, <1>8, <1>9 DEF PeerStep

LEMMA TypeConn ==
  ASSUME TypeInv, NEW c \in Conns, ConnStep(c)
  PROVE  TypeInv'
<1> USE DEF TypeInv, TypeOK, ArgOK, HandlerStates, peerVars, connVars, paneVars, wdVars, ownVars
<1>1. CASE Accept(c)
  <2>1. hpc' \in [Conns -> HandlerStates] /\ hclosed' \in [Conns -> BOOLEAN]
    <3>1. CASE hpc' = [hpc EXCEPT ![c] = "closed"] /\ hclosed' = [hclosed EXCEPT ![c] = TRUE]
      BY <3>1, SMT
    <3>2. CASE hpc' = [hpc EXCEPT ![c] = "preauth"] /\ hclosed' = hclosed
      BY <3>2, SMT
    <3> QED BY <1>1, <3>1, <3>2, Zenon DEF Accept
  <2>2. ArgOK'
    BY <1>1, SMT DEF Accept
  <2> QED BY <1>1, <2>1, <2>2, Zenon DEF Accept
<1>2. CASE Authenticate(c)
  <2>1. CASE hpc' = [hpc EXCEPT ![c] = "first"] /\ hclosed' = hclosed
    BY <1>2, <2>1, SMT DEF Authenticate
  <2>2. CASE hpc' = [hpc EXCEPT ![c] = "closed"] /\ hclosed' = [hclosed EXCEPT ![c] = TRUE]
    BY <1>2, <2>2, SMT DEF Authenticate
  <2> QED BY <1>2, <2>1, <2>2, Zenon DEF Authenticate
<1>3. CASE DeclareProbe(c)
  <2>1. up' \in [Conns -> Seq(UpFrame)]
    BY <1>3, SMT DEF DeclareProbe
  <2> QED BY <1>3, <2>1, SMT DEF DeclareProbe
<1>4. CASE AdoptServer(c)
  <2>1. Flush(c)
    BY <1>4 DEF AdoptServer
  <2>2. DataFrame(pending) \in DownFrame
    BY DataFrameIsDown, SMT
  <2>3. down' \in [Conns -> Seq(DownFrame)] /\ pending' \in [PaneIds -> Seq(Nat)]
    <3>1. pending' = NoData /\ (down' = down \/ down' = Written(c, DataFrame(pending)))
      BY <2>1, Zenon DEF Flush
    <3>2. Written(c, DataFrame(pending)) \in [Conns -> Seq(DownFrame)]
      BY <2>2, WrittenType, Zenon
    <3> QED BY <3>1, <3>2, NoDataType, SMT
  <2>4. hpc' \in [Conns -> HandlerStates] /\ ArgOK'
    BY <1>4, SMT DEF AdoptServer
  <2>5. hclosed' \in [Conns -> BOOLEAN] /\ writer' \in Conns \cup {0}
    BY <1>4, SMT DEF AdoptServer
  <2> QED BY <1>4, <2>3, <2>4, <2>5, Zenon DEF AdoptServer
<1>5. CASE OnEof(c)
  BY <1>5, SMT DEF OnEof, CloseConn
<1>6. CASE OnOwner(c)
  <2>1. up' \in [Conns -> Seq(UpFrame)] /\ Head(up[c]).pid \in Owners
    BY <1>6, TakingType DEF OnOwner
  <2> QED BY <1>6, <2>1, SMT DEF OnOwner
<1>7. CASE OnUnknown(c)
  <2>1. up' \in [Conns -> Seq(UpFrame)]
    BY <1>7, TakingType DEF OnUnknown
  <2> QED BY <1>7, <2>1, SMT DEF OnUnknown
<1>8. CASE OnSpawnAgain(c)
  <2>1. up' \in [Conns -> Seq(UpFrame)] /\ Arg(c) \in PaneIds
    BY <1>8, TakingType, SMT DEF OnSpawnAgain, PaneOps
  <2>2. SpawnedFrame(Arg(c), shellOf[Arg(c)]) \in DownFrame
    BY <2>1, SpawnedIsDown, SMT
  <2>3. down' \in [Conns -> Seq(DownFrame)]
    BY <1>8, <2>2, WrittenType, SMT DEF OnSpawnAgain
  <2> QED BY <1>8, <2>1, <2>3, SMTT(30) DEF OnSpawnAgain
<1>9. CASE OnSpawn(c)
  <2>1. up' \in [Conns -> Seq(UpFrame)] /\ Arg(c) \in PaneIds
    BY <1>9, TakingType, SMT DEF OnSpawn, PaneOps
  <2>2. hpc' \in [Conns -> HandlerStates] /\ harg' \in [Conns -> PaneIds \cup {0}]
    BY <1>9, <2>1, SMT DEF OnSpawn
  <2>3. ArgOK' /\ spawning' \subseteq PaneIds
    BY <1>9, <2>1, SMT DEF OnSpawn
  <2> QED BY <1>9, <2>1, <2>2, <2>3, Zenon DEF OnSpawn
<1>10. CASE \E k \in Shells : BackendSpawn(c, k)
  BY <1>10, SMT DEF BackendSpawn
<1>11. CASE SpawnFails(c)
  BY <1>11, SMT DEF SpawnFails, CloseConn
<1>12. CASE SpawnLands(c)
  <2>1. harg[c] \in PaneIds /\ hshell[c] \in Shells
    BY <1>12, SMT DEF SpawnLands
  <2>2. /\ shellOf' \in [PaneIds -> Shells \cup {0}]
        /\ pending' \in [PaneIds -> Seq(Nat)]
        /\ paused' \subseteq PaneIds
        /\ shell' \in [Shells -> {"none", "live", "exited", "closed"}]
    <3>1. CASE Refused(harg[c])
      <4>1. /\ shell' = [shell EXCEPT ![hshell[c]] = IF @ = "live" THEN "closed" ELSE @]
            /\ shellOf' = shellOf /\ pending' = pending /\ paused' = paused
        BY <1>12, <3>1, Zenon DEF SpawnLands, Refuse
      <4> QED BY <2>1, <4>1, SMT
    <3>2. CASE ~Refused(harg[c])
      <4>1. /\ shellOf' = [shellOf EXCEPT ![harg[c]] = hshell[c]]
            /\ pending' = [pending EXCEPT ![harg[c]] = <<>>]
            /\ paused' = paused \ {harg[c]}
            /\ shell' = shell
        BY <1>12, <3>2, Zenon DEF SpawnLands
      <4>3. << >> \in Seq(Nat)
        BY SMT
      <4>2. pending' \in [PaneIds -> Seq(Nat)]
        <5>1. pending \in [PaneIds -> Seq(Nat)] /\ pending' = [pending EXCEPT ![harg[c]] = <<>>]
          BY <4>1, Zenon
        <5> HIDE DEF TypeOK, TypeInv
        <5> QED BY <5>1, <4>3, Zenon
      <4> QED BY <2>1, <4>1, <4>2, SMT
    <3> QED BY <3>1, <3>2
  <2>3. SpawnedFrame(harg[c], shellOf'[harg[c]]) \in DownFrame
    BY <2>1, <2>2, SpawnedIsDown, SMT
  <2>4. down' \in [Conns -> Seq(DownFrame)]
    BY <1>12, <2>3, WrittenType, SMT DEF SpawnLands
  <2> QED BY <1>12, <2>2, <2>4, SMTT(30) DEF SpawnLands
<1>13. CASE OnClose(c)
  <2>1. up' \in [Conns -> Seq(UpFrame)]
    BY <1>13, TakingType DEF OnClose
  <2> QED BY <1>13, <2>1, ClosePanesType, SMTT(30) DEF OnClose
<1>14. CASE OnPause(c)
  <2>1. up' \in [Conns -> Seq(UpFrame)]
    BY <1>14, TakingType DEF OnPause
  <2> QED BY <1>14, <2>1, SMT DEF OnPause, Registered
<1>15. CASE OnResume(c)
  <2>1. up' \in [Conns -> Seq(UpFrame)]
    BY <1>15, TakingType DEF OnResume
  <2> QED BY <1>15, <2>1, SMT DEF OnResume
<1>16. CASE OnList(c)
  <2>1. up' \in [Conns -> Seq(UpFrame)]
    BY <1>16, TakingType DEF OnList
  <2>2. CASE prevOwner = NoOwner
    <3>1. ListReply(c, "unknown") /\ hpc' = hpc
      BY <1>16, <2>2, Zenon DEF OnList
    <3>2. down' \in [Conns -> Seq(DownFrame)]
      BY <3>1, ListReplyType, SMT
    <3> QED BY <1>16, <2>1, <3>1, <3>2, Zenon DEF OnList
  <2>3. CASE prevOwner # NoOwner
    <3>1. hpc' = [hpc EXCEPT ![c] = "listing"] /\ down' = down
      BY <1>16, <2>3, Zenon DEF OnList
    <3>2. hpc' \in [Conns -> HandlerStates] /\ ArgOK'
      BY <1>16, <3>1, SMT DEF OnList
    <3> QED BY <1>16, <2>1, <3>1, <3>2, Zenon DEF OnList
  <2> QED BY <2>2, <2>3
<1>17. CASE ListAnswered(c)
  <2>1. down' \in [Conns -> Seq(DownFrame)]
    <3>1. PICK v \in {"alive", "dead"} : ListReply(c, v)
      BY <1>17, Zenon DEF ListAnswered
    <3> QED BY <3>1, ListReplyType, SMT
  <2>2. hpc' \in [Conns -> HandlerStates] /\ ArgOK'
    BY <1>17, SMT DEF ListAnswered
  <2> QED BY <1>17, <2>1, <2>2, Zenon DEF ListAnswered
<1>18. CASE OnShutdown(c)
  <2>1. up' \in [Conns -> Seq(UpFrame)]
    BY <1>18, TakingType DEF OnShutdown
  <2>2. hpc' \in [Conns -> HandlerStates] /\ ArgOK'
    BY <1>18, SMT DEF OnShutdown
  <2> QED BY <1>18, <2>1, <2>2, Zenon DEF OnShutdown
<1>19. CASE ShutdownSettled(c)
  BY <1>19, ClosePanesType, SMT DEF ShutdownSettled
<1> QED BY <1>1, <1>2, <1>3, <1>4, <1>5, <1>6, <1>7, <1>8, <1>9, <1>10, <1>11, <1>12,
           <1>13, <1>14, <1>15, <1>16, <1>17, <1>18, <1>19 DEF ConnStep

LEMMA TypeShells ==
  ASSUME TypeInv,
         \/ ShellStep
         \/ \E p \in PaneIds : ReaderEof(p) \/ \E k \in Shells : FinishEof(p, k)
  PROVE  TypeInv'
<1> USE DEF TypeInv, TypeOK, ArgOK, HandlerStates, peerVars, connVars, paneVars, wdVars, ownVars
<1>1. ASSUME NEW p \in PaneIds, ShellOutput(p)
      PROVE  TypeInv'
  <2>1. shellOf[p] \in Shells /\ out[shellOf[p]] + 1 \in Nat
    BY <1>1, SMT DEF ShellOutput, Registered
  <2>2. CASE Detached
    <3>1. Kept(p, out[shellOf[p]] + 1) \in Seq(Nat)
      <4> DEFINE kept == Append(pending[p], out[shellOf[p]] + 1)
      <4>3. pending[p] \in Seq(Nat)
        BY SMT
      <4>1. kept \in Seq(Nat) /\ kept # <<>>
        <5>1. out[shellOf[p]] + 1 \in Nat
          BY <2>1
        <5> HIDE DEF TypeOK, TypeInv
        <5> QED BY <5>1, <4>3, AppendProperties, SMT
      <4>2. Tail(kept) \in Seq(Nat)
        BY <4>1, SMT
      <4> QED BY <4>1, <4>2, Zenon DEF Kept
    <3>2. /\ pending' = [pending EXCEPT ![p] = Kept(p, out[shellOf[p]] + 1)]
          /\ down' = down
      BY <1>1, <2>2, Zenon DEF ShellOutput
    <3>3. pending' \in [PaneIds -> Seq(Nat)]
      BY <3>1, <3>2, SMT
    <3>4. out' \in [Shells -> Nat]
      BY <1>1, <2>1, SMT DEF ShellOutput
    <3> QED BY <1>1, <3>2, <3>3, <3>4, Zenon DEF ShellOutput
  <2>3. CASE ~Detached
    <3>1. [NoData EXCEPT ![p] = <<out[shellOf[p]] + 1>>] \in [PaneIds -> Seq(Nat)]
      <4>1. <<out[shellOf[p]] + 1>> \in Seq(Nat)
        BY <2>1, SMT
      <4> QED BY <4>1, NoDataType, SMT
    <3>2. writer \in Conns
      BY <2>3, SMT DEF Detached
    <3>3. down' \in [Conns -> Seq(DownFrame)]
      <4>1. down' = Written(writer, DataFrame([NoData EXCEPT ![p] = <<out[shellOf[p]] + 1>>]))
        BY <1>1, <2>3, Zenon DEF ShellOutput
      <4>2. DataFrame([NoData EXCEPT ![p] = <<out[shellOf[p]] + 1>>]) \in DownFrame
        BY <3>1, DataFrameIsDown, Zenon
      <4> QED BY <3>2, <4>1, <4>2, WrittenType, Zenon
    <3>4. out' \in [Shells -> Nat] /\ pending' = pending
      BY <1>1, <2>1, <2>3, SMT DEF ShellOutput
    <3> QED BY <1>1, <3>3, <3>4, Zenon DEF ShellOutput
  <2> QED BY <2>2, <2>3
<1>2. ASSUME NEW k \in Shells, ShellExit(k)
      PROVE  TypeInv'
  BY <1>2, SMT DEF ShellExit
<1>3. ASSUME NEW p \in PaneIds, ReaderEof(p)
      PROVE  TypeInv'
  BY <1>3, SMT DEF ReaderEof, Registered
<1>4. ASSUME NEW p \in PaneIds, NEW k \in Shells, FinishEof(p, k)
      PROVE  TypeInv'
  <2>1. down' \in [Conns -> Seq(DownFrame)]
    BY <1>4, ExitIsDown, WrittenType, SMT DEF FinishEof
  <2>2. /\ shell' \in [Shells -> {"none", "live", "exited", "closed"}]
        /\ shellOf' \in [PaneIds -> Shells \cup {0}]
        /\ pending' \in [PaneIds -> Seq(Nat)]
        /\ paused' \subseteq PaneIds
    <3>1. ClosePanes({p})
      BY <1>4, Zenon DEF FinishEof
    <3> HIDE DEF TypeOK
    <3> QED BY <3>1, ClosePanesType, Zenon
  <2>3. reaping' \subseteq PaneIds \X Shells
    BY <1>4, SMT DEF FinishEof
  <2>4. UNCHANGED <<hostUp, stop, writer, ownVars, spawning, connVars, wdVars,
                    peerVars, up, out, alive>>
    BY <1>4, Zenon DEF FinishEof
  <2> QED BY <2>1, <2>2, <2>3, <2>4, Zenon
<1> QED BY <1>1, <1>2, <1>3, <1>4 DEF ShellStep

LEMMA TypeDaemon ==
  ASSUME TypeInv, Watchdog \/ HostExit
  PROVE  TypeInv'
<1> USE DEF TypeInv, TypeOK, ArgOK, HandlerStates, peerVars, connVars, paneVars, wdVars, ownVars
<1>1. CASE WatchAttached
  BY <1>1, SMT DEF WatchAttached
<1>2. CASE WatchIdle
  <2>1. CASE ownerPid = NoOwner
    BY <1>2, <2>1, Zenon DEF WatchIdle
  <2>2. CASE ownerPid # NoOwner
    BY <1>2, <2>2, Zenon DEF WatchIdle
  <2> QED BY <2>1, <2>2
<1>3. CASE WatchVerdict
  <2>1. /\ strikes' \in Nat /\ wdpc' \in {"sleep", "check", "settle", "done"}
        /\ stop' \in BOOLEAN
    <3>1. PICK v \in Verdicts(wdOwner) :
             IF v THEN strikes' = 0 /\ wdpc' = "sleep" /\ stop' = stop
             ELSE /\ strikes' = strikes + 1
                  /\ wdpc' = IF strikes + 1 < 2 THEN "sleep" ELSE "settle"
                  /\ stop' = (stop \/ strikes + 1 >= 2)
      BY <1>3, Zenon DEF WatchVerdict
    <3>2. CASE v
      BY <3>1, <3>2, SMT
    <3>3. CASE ~v
      <4>1. strikes' = strikes + 1 /\ wdpc' \in {"sleep", "settle"}
        BY <3>1, <3>3, Zenon
      <4>2. stop' \in BOOLEAN
        BY <3>1, <3>3, Zenon
      <4>3. strikes' \in Nat
        BY <4>1, SMT
      <4> QED BY <4>1, <4>2, <4>3, Zenon
    <3> QED BY <3>2, <3>3
  <2> QED BY <1>3, <2>1, Zenon DEF WatchVerdict
<1>4. CASE WatchSettled
  BY <1>4, ClosePanesType, SMT DEF WatchSettled
<1>5. CASE HostExit
  <2>1. /\ hpc' \in [Conns -> HandlerStates] /\ hclosed' \in [Conns -> BOOLEAN]
        /\ ArgOK'
    BY <1>5, SMT DEF HostExit
  <2>2. spawning' \subseteq PaneIds /\ reaping' \subseteq PaneIds \X Shells
    BY <1>5, Zenon DEF HostExit
  <2>3. /\ shell' \in [Shells -> {"none", "live", "exited", "closed"}]
        /\ shellOf' \in [PaneIds -> Shells \cup {0}]
        /\ pending' \in [PaneIds -> Seq(Nat)]
        /\ paused' \subseteq PaneIds
    BY <1>5, ClosePanesType DEF HostExit
  <2>4. hostUp' \in BOOLEAN /\ writer' \in Conns \cup {0} /\ wdpc' = "done"
    BY <1>5, Zenon DEF HostExit
  <2> QED BY <1>5, <2>1, <2>2, <2>3, <2>4, Zenon DEF HostExit
<1> QED BY <1>1, <1>2, <1>3, <1>4, <1>5 DEF Watchdog

LEMMA TypeStep == TypeInv /\ [HostNext]_hostVars => TypeInv'
<1> SUFFICES ASSUME TypeInv, [HostNext]_hostVars PROVE TypeInv'
  OBVIOUS
<1>1. CASE HostNext
  BY <1>1, TypePeer, TypeConn, TypeShells, TypeDaemon DEF HostNext, HostStep, ShellStep
<1>2. CASE UNCHANGED hostVars
  BY <1>2 DEF hostVars, TypeInv, TypeOK, ArgOK, peerVars, connVars, paneVars, wdVars, ownVars,
              Shells, PaneIds, Conns
<1> QED BY <1>1, <1>2

\* The fields of the daemon, the frames on the wire and the children always have
\* the shape the code gives them, whatever the peers send and in whatever order.
THEOREM TypeCorrect == HostSpec => []TypeOK
<1>1. HostInit => TypeInv
  BY TypeInit
<1>2. TypeInv /\ [HostNext]_hostVars => TypeInv'
  BY TypeStep
<1>3. TypeInv => TypeOK
  BY DEF TypeInv
<1> QED BY <1>1, <1>2, <1>3, PTL DEF HostSpec

-----------------------------------------------------------------------------
(* One server at a time.  What makes OneServer inductive is that a           *)
(* connection the handler has not adopted yet is neither closed nor a probe. *)

Fresh == \A c \in Conns :
  hpc[c] \in {"none", "preauth", "first"} => ~hclosed[c] /\ ~probe[c]
ServerInv == TypeInv /\ OneServer /\ Fresh
serverVars == <<writer, hpc, probe, hclosed>>

LEMMA ServerKept ==
  ASSUME ServerInv, UNCHANGED serverVars
  PROVE  OneServer' /\ Fresh'
BY Zenon DEF ServerInv, OneServer, Fresh, Serving, serverVars

\* A connection that moves between the awaits of one handler stays the server,
\* or stays replaced.
LEMMA ServerMoves ==
  ASSUME ServerInv, NEW c \in Conns, Serving(c), NEW s \in HandlerStates,
         s \in {"serve", "spawning", "listing", "settling"},
         hpc' = [hpc EXCEPT ![c] = s],
         UNCHANGED <<writer, probe, hclosed>>
  PROVE  OneServer' /\ Fresh'
<1>1. \A d \in Conns : Serving(d)' <=> Serving(d)
  BY SMT DEF ServerInv, TypeInv, TypeOK, Serving
<1>2. \A d \in Conns : hpc'[d] \in {"none", "preauth", "first"}
                         => hpc[d] \in {"none", "preauth", "first"}
  BY SMT DEF ServerInv, TypeInv, TypeOK, Serving
<1>3. writer = 0 \/ writer \in Conns
  BY Zenon DEF ServerInv, TypeInv, TypeOK
<1> QED BY <1>1, <1>2, <1>3, Zenon DEF ServerInv, OneServer, Fresh

LEMMA ServerCloses ==
  ASSUME ServerInv, NEW c \in Conns, CloseConn(c), UNCHANGED probe
  PROVE  OneServer' /\ Fresh'
<1>1. \A d \in Conns \ {c} : (Serving(d)' <=> Serving(d)) /\ hpc'[d] = hpc[d]
                              /\ hclosed'[d] = hclosed[d]
  BY SMT DEF ServerInv, TypeInv, TypeOK, Serving, CloseConn
<1>2. hpc'[c] = "closed" /\ hclosed'[c]
  BY SMT DEF ServerInv, TypeInv, TypeOK, CloseConn
<1>3. writer' # 0 => writer' = writer /\ writer # c
  BY SMT DEF ServerInv, TypeInv, TypeOK, CloseConn
<1>4. (\A d \in Conns : Serving(d) /\ ~probe[d] /\ ~hclosed[d] => d = writer)'
  <2> SUFFICES ASSUME NEW d \in Conns, Serving(d)', ~probe'[d], ~hclosed'[d]
               PROVE  d = writer'
    OBVIOUS
  <2>1. d # c
    BY <1>2
  <2>2. d = writer
    BY <1>1, <2>1, Zenon DEF ServerInv, OneServer
  <2> QED BY <2>1, <2>2, Zenon DEF CloseConn
<1>5. (writer # 0 => Serving(writer) /\ ~probe[writer] /\ ~hclosed[writer])'
  <2> SUFFICES ASSUME writer' # 0
               PROVE  (Serving(writer) /\ ~probe[writer] /\ ~hclosed[writer])'
    OBVIOUS
  <2>1. writer' = writer /\ writer # c /\ writer # 0
    BY <1>3
  <2>2. writer \in Conns \ {c}
    BY <2>1, Zenon DEF ServerInv, TypeInv, TypeOK
  <2>3. Serving(writer) /\ ~probe[writer] /\ ~hclosed[writer]
    BY <2>1, Zenon DEF ServerInv, OneServer
  <2> QED BY <1>1, <2>1, <2>2, <2>3, Zenon DEF Serving
<1>6. Fresh'
  BY <1>1, <1>2, SMT DEF ServerInv, Fresh
<1> QED BY <1>4, <1>5, <1>6, Zenon DEF OneServer

LEMMA ServerAdopted ==
  ASSUME ServerInv, NEW c \in Conns, AdoptServer(c)
  PROVE  OneServer' /\ Fresh'
<1> USE DEF ServerInv, TypeInv, TypeOK
<1>1. /\ hpc[c] = "first" /\ hpc' = [hpc EXCEPT ![c] = "serve"]
      /\ writer' = c /\ probe' = probe
      /\ hclosed' = IF writer = 0 THEN hclosed ELSE [hclosed EXCEPT ![writer] = TRUE]
  BY Zenon DEF AdoptServer
<1>2. ~hclosed[c] /\ ~probe[c]
  BY <1>1, Zenon DEF Fresh
<1>3. writer # c
  BY <1>1, SMT DEF OneServer, Serving, Conns
<1>4. ~hclosed'[c] /\ hpc'[c] = "serve"
  BY <1>1, <1>2, <1>3, SMT
<1>5. \A d \in Conns \ {c} : hpc'[d] = hpc[d]
  BY <1>1, SMT
<1>6. \A d \in Conns \ {c} : d # writer => hclosed'[d] = hclosed[d]
  BY <1>1, Zenon
<1>7. writer # 0 => hclosed'[writer]
  BY <1>1, Zenon
<1>8. \A d \in Conns : Serving(d)' /\ ~probe'[d] /\ ~hclosed'[d] => d = writer'
  <2> SUFFICES ASSUME NEW d \in Conns, d # c, Serving(d)', ~probe'[d], ~hclosed'[d]
               PROVE  FALSE
    BY <1>1
  <2>1. Serving(d)
    BY <1>5, Zenon DEF Serving
  <2>2. d # writer /\ ~hclosed[d]
    BY <1>6, <1>7, <1>3, SMT DEF Conns
  <2> QED BY <1>1, <2>1, <2>2, Zenon DEF OneServer
<1>9. Serving(c)'
  BY <1>4 DEF Serving
<1>10. Fresh'
  <2> SUFFICES ASSUME NEW d \in Conns, hpc'[d] \in {"none", "preauth", "first"}
               PROVE  ~hclosed'[d] /\ ~probe'[d]
    BY DEF Fresh
  <2>1. d # c
    BY <1>4
  <2>2. ~hclosed[d] /\ ~probe[d] /\ hpc[d] \in {"none", "preauth", "first"}
    BY <2>1, <1>5, Zenon DEF Fresh
  <2>3. d # writer
    BY <2>1, <2>2, SMT DEF OneServer, Serving, Conns
  <2> QED BY <1>1, <1>6, <2>1, <2>2, <2>3, Zenon
<1> QED BY <1>1, <1>2, <1>4, <1>8, <1>9, <1>10, Zenon DEF OneServer

LEMMA ServerConn ==
  ASSUME ServerInv, NEW c \in Conns, ConnStep(c)
  PROVE  OneServer' /\ Fresh'
<1> USE DEF serverVars, connVars
<1>t. hpc \in [Conns -> HandlerStates]
  BY Zenon DEF ServerInv, TypeInv, TypeOK
<1>1. CASE Accept(c)
  <2>1. CASE hpc' = [hpc EXCEPT ![c] = "preauth"] /\ hclosed' = hclosed
    <3>1. \A d \in Conns : Serving(d)' <=> Serving(d)
      BY <1>1, <1>t, <2>1, SMT DEF Accept, Serving
    <3>2. \A d \in Conns : hpc'[d] \in {"none", "preauth", "first"}
                             => hpc[d] \in {"none", "preauth", "first"}
      BY <1>1, <1>t, <2>1, SMT DEF Accept
    <3>3. writer = 0 \/ writer \in Conns
      BY Zenon DEF ServerInv, TypeInv, TypeOK
    <3> QED BY <1>1, <2>1, <3>1, <3>2, <3>3, Zenon DEF Accept, ServerInv, OneServer, Fresh
  <2>2. CASE hpc' = [hpc EXCEPT ![c] = "closed"] /\ hclosed' = [hclosed EXCEPT ![c] = TRUE]
    <3>1. writer # c
      BY <1>1, SMT DEF Accept, ServerInv, OneServer, Serving, Conns
    <3>2. CloseConn(c)
      BY <1>1, <2>2, <3>1, Zenon DEF Accept, CloseConn
    <3> QED BY <1>1, <3>2, ServerCloses DEF Accept
  <2> QED BY <1>1, <2>1, <2>2, Zenon DEF Accept
<1>2. CASE Authenticate(c)
  <2>1. CASE hpc' = [hpc EXCEPT ![c] = "first"] /\ hclosed' = hclosed
    <3>1. \A d \in Conns : Serving(d)' <=> Serving(d)
      BY <1>2, <1>t, <2>1, SMT DEF Authenticate, Serving
    <3>2. \A d \in Conns : hpc'[d] \in {"none", "preauth", "first"}
                             => hpc[d] \in {"none", "preauth", "first"}
      BY <1>2, <1>t, <2>1, SMT DEF Authenticate
    <3>3. writer = 0 \/ writer \in Conns
      BY Zenon DEF ServerInv, TypeInv, TypeOK
    <3> QED BY <1>2, <2>1, <3>1, <3>2, <3>3, Zenon DEF Authenticate, ServerInv, OneServer, Fresh
  <2>2. CASE hpc' = [hpc EXCEPT ![c] = "closed"] /\ hclosed' = [hclosed EXCEPT ![c] = TRUE]
    <3>1. writer # c
      BY <1>2, SMT DEF Authenticate, ServerInv, OneServer, Serving, Conns
    <3>2. CloseConn(c)
      BY <1>2, <2>2, <3>1, Zenon DEF Authenticate, CloseConn
    <3> QED BY <1>2, <3>2, ServerCloses DEF Authenticate
  <2> QED BY <1>2, <2>1, <2>2, Zenon DEF Authenticate
<1>3. CASE DeclareProbe(c)
  <2>1. /\ hpc[c] = "first" /\ hpc' = [hpc EXCEPT ![c] = "serve"]
        /\ probe' = [probe EXCEPT ![c] = TRUE] /\ writer' = writer /\ hclosed' = hclosed
    BY <1>3, Zenon DEF DeclareProbe
  <2>2. probe \in [Conns -> BOOLEAN] /\ (writer = 0 \/ writer \in Conns)
    BY Zenon DEF ServerInv, TypeInv, TypeOK
  <2>3. writer # c
    BY <2>1, SMT DEF ServerInv, OneServer, Serving, Conns
  <2>4. \A d \in Conns \ {c} : hpc'[d] = hpc[d] /\ probe'[d] = probe[d]
    BY <1>t, <2>1, <2>2, SMT
  <2>5. hpc'[c] = "serve" /\ probe'[c]
    BY <1>t, <2>1, <2>2, SMT
  <2> QED BY <2>1, <2>2, <2>3, <2>4, <2>5, SMT DEF ServerInv, OneServer, Fresh, Serving
<1>4. CASE AdoptServer(c)
  BY <1>4, ServerAdopted
<1>5. CASE OnEof(c) \/ SpawnFails(c)
  BY <1>5, ServerCloses DEF OnEof, SpawnFails
<1>6. CASE OnOwner(c) \/ OnUnknown(c) \/ OnSpawnAgain(c) \/ OnClose(c) \/ OnPause(c) \/ OnResume(c)
  BY <1>6, ServerKept DEF OnOwner, OnUnknown, OnSpawnAgain, OnClose, OnPause, OnResume
<1>7. CASE \E k \in Shells : BackendSpawn(c, k)
  BY <1>7, ServerKept DEF BackendSpawn
<1>8. CASE OnSpawn(c)
  BY <1>8, ServerMoves, Zenon DEF OnSpawn, Taking, Serving, HandlerStates
<1>9. CASE SpawnLands(c)
  BY <1>9, ServerMoves, Zenon DEF SpawnLands, Serving, HandlerStates
<1>10. CASE OnList(c)
  <2>1. CASE hpc' = hpc
    BY <1>10, <2>1, ServerKept DEF OnList
  <2>2. CASE hpc' = [hpc EXCEPT ![c] = "listing"]
    BY <1>10, <2>2, ServerMoves, Zenon DEF OnList, Taking, Serving, HandlerStates
  <2> QED BY <1>10, <2>1, <2>2, Zenon DEF OnList
<1>11. CASE ListAnswered(c)
  BY <1>11, ServerMoves, Zenon DEF ListAnswered, Serving, HandlerStates
<1>12. CASE OnShutdown(c)
  BY <1>12, ServerMoves, Zenon DEF OnShutdown, Taking, Serving, HandlerStates
<1>13. CASE ShutdownSettled(c)
  BY <1>13, ServerMoves, Zenon DEF ShutdownSettled, Serving, HandlerStates
<1> QED BY <1>1, <1>2, <1>3, <1>4, <1>5, <1>6, <1>7, <1>8, <1>9, <1>10, <1>11, <1>12,
           <1>13 DEF ConnStep

LEMMA OneServerStep == ServerInv /\ [HostNext]_hostVars => ServerInv'
<1> SUFFICES ASSUME ServerInv, [HostNext]_hostVars PROVE OneServer' /\ Fresh'
  BY TypeStep DEF ServerInv
<1> USE DEF serverVars, connVars
<1>1. CASE UNCHANGED hostVars
  BY <1>1, ServerKept DEF hostVars
<1>2. ASSUME NEW c \in Conns, ConnStep(c) PROVE OneServer' /\ Fresh'
  BY <1>2, ServerConn
<1>3. CASE PeerStep
  <2>1. UNCHANGED serverVars
    BY <1>3, Zenon DEF PeerStep, PeerOpen, PeerSend, PeerRecv, PeerHalfClose, PeerClose,
                       ConnReset, OwnerDies
  <2> QED BY <2>1, ServerKept
<1>4. CASE ShellStep
  <2>1. UNCHANGED serverVars
    BY <1>4, Zenon DEF ShellStep, ShellOutput, ShellExit
  <2> QED BY <2>1, ServerKept
<1>5. CASE \E p \in PaneIds : ReaderEof(p) \/ \E k \in Shells : FinishEof(p, k)
  <2>1. UNCHANGED serverVars
    BY <1>5, Zenon DEF ReaderEof, FinishEof
  <2> QED BY <2>1, ServerKept
<1>6. CASE Watchdog
  <2>1. UNCHANGED serverVars
    BY <1>6, Zenon DEF Watchdog, WatchAttached, WatchIdle, WatchVerdict, WatchSettled
  <2> QED BY <2>1, ServerKept
<1>7. CASE HostExit
  BY <1>7, SMT DEF HostExit, OneServer, Fresh, Serving
<1> QED BY <1>1, <1>2, <1>3, <1>4, <1>5, <1>6, <1>7 DEF HostNext, HostStep

\* However connections come, are replaced and go, at most one of them drives the
\* daemon, and _writer is that one.
THEOREM OneServerCorrect == HostSpec => []OneServer
<1>1. HostInit => ServerInv
  <2>1. HostInit => OneServer /\ Fresh
    BY SMT DEF HostInit, OneServer, Fresh, Serving
  <2> QED BY <2>1, TypeInit DEF ServerInv
<1>2. ServerInv => OneServer
  BY DEF ServerInv
<1> QED BY <1>1, <1>2, OneServerStep, PTL DEF HostSpec

-----------------------------------------------------------------------------
(* What is kept, and what is registered on the way down.                     *)

KeptInv == TypeInv /\ KeptOnlyWhenDetached

LEMMA KeptStep == KeptInv /\ [HostNext]_hostVars => KeptInv'
<1> SUFFICES ASSUME KeptInv, [HostNext]_hostVars PROVE KeptOnlyWhenDetached'
  BY TypeStep DEF KeptInv
<1> USE DEF KeptInv, KeptOnlyWhenDetached
<1>t. pending \in [PaneIds -> Seq(Nat)]
  BY Zenon DEF TypeInv, TypeOK
<1>1. CASE pending' = pending /\ (writer' = writer \/ writer' = 0)
  BY <1>1, Zenon
<1>2. CASE pending' = NoData
  BY <1>2, Zenon
<1>3. ASSUME NEW S, ClosePanes(S), writer' = writer \/ writer' = 0
      PROVE  KeptOnlyWhenDetached'
  BY <1>3, <1>t, SMT DEF ClosePanes, NoData
<1>4. CASE UNCHANGED hostVars
  BY <1>1, <1>4 DEF hostVars, paneVars
<1>5. ASSUME NEW c \in Conns, ConnStep(c) PROVE KeptOnlyWhenDetached'
  <2>1. CASE OnClose(c) \/ ShutdownSettled(c)
    BY <1>3, <2>1, Zenon DEF OnClose, ShutdownSettled
  <2>2. CASE AdoptServer(c)
    BY <1>2, <2>2, Zenon DEF AdoptServer, Flush
  <2>3. CASE SpawnLands(c)
    <3>1. writer' = writer /\ (pending' = pending \/ pending' = [pending EXCEPT ![harg[c]] = <<>>])
      BY <2>3, Zenon DEF SpawnLands, paneVars
    <3> QED BY <1>t, <3>1, SMT DEF NoData
  <2>4. CASE Accept(c) \/ Authenticate(c) \/ DeclareProbe(c) \/ OnEof(c) \/ OnOwner(c)
             \/ OnUnknown(c) \/ OnSpawnAgain(c) \/ OnSpawn(c) \/ SpawnFails(c)
             \/ OnPause(c) \/ OnResume(c) \/ OnList(c) \/ ListAnswered(c) \/ OnShutdown(c)
             \/ \E k \in Shells : BackendSpawn(c, k)
    BY <1>1, <2>4, Zenon DEF Accept, Authenticate, DeclareProbe, OnEof, OnOwner, OnUnknown,
         OnSpawnAgain, OnSpawn, SpawnFails, OnPause, OnResume, OnList, ListAnswered,
         OnShutdown, BackendSpawn, CloseConn, paneVars
  <2> QED BY <1>5, <2>1, <2>2, <2>3, <2>4 DEF ConnStep
<1>6. CASE PeerStep
  BY <1>1, <1>6, Zenon DEF PeerStep, PeerOpen, PeerSend, PeerRecv, PeerHalfClose, PeerClose,
       ConnReset, OwnerDies, paneVars
<1>7. ASSUME NEW p \in PaneIds, ShellOutput(p) PROVE KeptOnlyWhenDetached'
  BY <1>7, Zenon DEF ShellOutput, Detached
<1>8. ASSUME NEW p \in PaneIds, ReaderEof(p) PROVE KeptOnlyWhenDetached'
  BY <1>1, <1>8, Zenon DEF ReaderEof, paneVars
<1>9. ASSUME NEW k \in Shells, ShellExit(k) PROVE KeptOnlyWhenDetached'
  BY <1>1, <1>9, Zenon DEF ShellExit, paneVars
<1>10. ASSUME NEW p \in PaneIds, NEW k \in Shells, FinishEof(p, k) PROVE KeptOnlyWhenDetached'
  BY <1>3, <1>10, Zenon DEF FinishEof
<1>11. CASE Watchdog
  BY <1>1, <1>3, <1>11, Zenon DEF Watchdog, WatchAttached, WatchIdle, WatchVerdict, WatchSettled,
       paneVars
<1>12. CASE HostExit
  BY <1>3, <1>12, Zenon DEF HostExit
<1> QED BY <1>4, <1>5, <1>6, <1>7, <1>8, <1>9, <1>10, <1>11, <1>12 DEF HostNext, HostStep, ShellStep

\* No output waits in the ring of any pane while a server is connected, so what
\* a server is sent never has older output behind it.
THEOREM KeptOnlyWhenDetachedCorrect == HostSpec => []KeptOnlyWhenDetached
<1>1. HostInit => KeptInv
  BY TypeInit DEF KeptInv, KeptOnlyWhenDetached, HostInit
<1>2. KeptInv => KeptOnlyWhenDetached
  BY DEF KeptInv
<1> QED BY <1>1, <1>2, KeptStep, PTL DEF HostSpec

LEMMA OnlyLandingRegisters ==
  TypeInv /\ [HostNext]_hostVars => (stop => Registered' \subseteq Registered)
<1> SUFFICES ASSUME TypeInv, [HostNext]_hostVars, stop
             PROVE  Registered' \subseteq Registered
  OBVIOUS
<1>1. CASE shellOf' = shellOf
  BY <1>1 DEF Registered
<1>2. ASSUME NEW S, ClosePanes(S) PROVE Registered' \subseteq Registered
  BY <1>2, Zenon DEF ClosePanes, Registered
<1>3. ASSUME NEW c \in Conns, ConnStep(c) PROVE Registered' \subseteq Registered
  <2>1. CASE OnClose(c) \/ ShutdownSettled(c)
    BY <1>2, <2>1, Zenon DEF OnClose, ShutdownSettled
  <2>2. CASE SpawnLands(c)
    BY <1>1, <2>2, Zenon DEF SpawnLands, Refused, paneVars
  <2>3. CASE Accept(c) \/ Authenticate(c) \/ DeclareProbe(c) \/ AdoptServer(c) \/ OnEof(c)
             \/ OnOwner(c) \/ OnUnknown(c) \/ OnSpawnAgain(c) \/ OnSpawn(c) \/ SpawnFails(c)
             \/ OnPause(c) \/ OnResume(c) \/ OnList(c) \/ ListAnswered(c) \/ OnShutdown(c)
             \/ \E k \in Shells : BackendSpawn(c, k)
    BY <1>1, <2>3, Zenon DEF Accept, Authenticate, DeclareProbe, AdoptServer, OnEof, OnOwner,
         OnUnknown, OnSpawnAgain, OnSpawn, SpawnFails, OnPause, OnResume, OnList, ListAnswered,
         OnShutdown, BackendSpawn, paneVars
  <2> QED BY <1>3, <2>1, <2>2, <2>3 DEF ConnStep
<1>4. CASE PeerStep \/ ShellStep
  BY <1>1, <1>4, Zenon DEF PeerStep, PeerOpen, PeerSend, PeerRecv, PeerHalfClose, PeerClose,
       ConnReset, OwnerDies, ShellStep, ShellOutput, ShellExit, paneVars
<1>5. ASSUME NEW p \in PaneIds, ReaderEof(p) \/ \E k \in Shells : FinishEof(p, k)
      PROVE  Registered' \subseteq Registered
  BY <1>1, <1>2, <1>5, Zenon DEF ReaderEof, FinishEof, paneVars
<1>6. CASE Watchdog \/ HostExit
  BY <1>1, <1>2, <1>6, Zenon DEF Watchdog, WatchAttached, WatchIdle, WatchVerdict, WatchSettled,
       HostExit, paneVars
<1>7. CASE UNCHANGED hostVars
  BY <1>1, <1>7 DEF hostVars, paneVars
<1> QED BY <1>3, <1>4, <1>5, <1>6, <1>7 DEF HostNext, HostStep

\* From the moment _stop is set no pane is added: the loop that closes every
\* registered pane on the way down cannot be overtaken by a spawn that lands.
THEOREM NothingRegisteredAfterStopCorrect == HostSpec => NothingRegisteredAfterStop
<1>1. HostInit => TypeInv
  BY TypeInit
<1>2. TypeInv /\ [HostNext]_hostVars => [stop => Registered' \subseteq Registered]_hostVars
  BY OnlyLandingRegisters
<1> QED BY <1>1, <1>2, TypeStep, PTL DEF HostSpec, NothingRegisteredAfterStop

-----------------------------------------------------------------------------
(* Reservations.  _spawning is the set of panes being made, as long as the   *)
(* process runs; the exit forgets the coroutines, not the executor calls.    *)

ReservedInv == TypeInv /\ SpawnsReserved
Making == {c \in Conns : hpc[c] = "spawning"}

\* Steps that start and end no spawn.
LEMMA ReservedKept ==
  ASSUME SpawnsReserved, hostUp' => hostUp, spawning' = spawning,
         \A d \in Conns : hpc'[d] = "spawning" <=> hpc[d] = "spawning",
         \A d \in Conns : hpc[d] = "spawning" => harg'[d] = harg[d]
  PROVE  SpawnsReserved'
BY Zenon DEF SpawnsReserved

\* A connection that is not making a pane goes on to something else.
LEMMA ReservedMoves ==
  ASSUME ReservedInv, NEW c \in Conns, NEW s \in HandlerStates,
         hpc[c] # "spawning", s # "spawning",
         hpc' = [hpc EXCEPT ![c] = s],
         hostUp' = hostUp, spawning' = spawning, harg' = harg
  PROVE  SpawnsReserved'
<1>1. \A d \in Conns : hpc'[d] = "spawning" <=> hpc[d] = "spawning"
  BY SMT DEF ReservedInv, TypeInv, TypeOK
<1> QED BY <1>1, ReservedKept, Zenon DEF ReservedInv

\* A connection that was making a pane gives the reservation back.
LEMMA ReservedReturned ==
  ASSUME ReservedInv, NEW c \in Conns, NEW s \in HandlerStates,
         hpc[c] = "spawning", s # "spawning",
         hpc' = [hpc EXCEPT ![c] = s],
         hostUp' = hostUp, spawning' = spawning \ {harg[c]}, harg' = harg
  PROVE  SpawnsReserved'
<1> SUFFICES ASSUME hostUp PROVE SpawnsReserved'
  BY DEF SpawnsReserved
<1>1. hpc'[c] # "spawning" /\ \A d \in Conns \ {c} : hpc'[d] = hpc[d]
  BY SMT DEF ReservedInv, TypeInv, TypeOK
<1>2. \A d \in Conns \ {c} : hpc[d] = "spawning" => harg[d] # harg[c]
  BY Zenon DEF ReservedInv, SpawnsReserved
<1>3. spawning = {harg[d] : d \in Making}
  BY Zenon DEF ReservedInv, SpawnsReserved, Making
<1>4. spawning' = {harg[d] : d \in Making'}
  BY <1>1, <1>2, <1>3, SMT DEF Making
<1>5. \A a, b \in Conns : hpc'[a] = "spawning" /\ hpc'[b] = "spawning" /\ harg[a] = harg[b]
                            => a = b
  BY <1>1, Zenon DEF ReservedInv, SpawnsReserved
<1> QED BY <1>4, <1>5, Zenon DEF SpawnsReserved, Making

\* A spawn reserves a pane that no other connection is making.
LEMMA ReservedTaken ==
  ASSUME ReservedInv, NEW c \in Conns, OnSpawn(c)
  PROVE  SpawnsReserved'
<1> SUFFICES ASSUME hostUp PROVE SpawnsReserved'
  BY DEF SpawnsReserved, OnSpawn
<1> DEFINE p == Arg(c)
<1>1. /\ hpc[c] = "serve" /\ hpc' = [hpc EXCEPT ![c] = "spawning"]
      /\ harg' = [harg EXCEPT ![c] = p]
      /\ p \notin spawning /\ spawning' = spawning \cup {p} /\ hostUp' = hostUp
  BY Zenon DEF OnSpawn, Taking, Taken
<1> HIDE DEF p
<1>2. /\ hpc'[c] = "spawning" /\ harg'[c] = p
      /\ \A d \in Conns \ {c} : hpc'[d] = hpc[d] /\ harg'[d] = harg[d]
  BY <1>1, SMT DEF ReservedInv, TypeInv, TypeOK
<1>3. spawning = {harg[d] : d \in Making}
  BY Zenon DEF ReservedInv, SpawnsReserved, Making
<1>4. \A d \in Conns \ {c} : hpc[d] = "spawning" => harg[d] # p
  BY <1>1, <1>3, SMT DEF Making
<1>5. spawning' = {harg'[d] : d \in Making'}
  BY <1>1, <1>2, <1>3, SMT DEF Making
<1>6. \A a, b \in Conns : hpc'[a] = "spawning" /\ hpc'[b] = "spawning" /\ harg'[a] = harg'[b]
                            => a = b
  <2> SUFFICES ASSUME NEW a \in Conns, NEW b \in Conns, hpc'[a] = "spawning",
                      hpc'[b] = "spawning", harg'[a] = harg'[b], a # b
               PROVE  FALSE
    BY Zenon
  <2>1. CASE a # c /\ b # c
    BY <1>2, <2>1, Zenon DEF ReservedInv, SpawnsReserved
  <2>2. CASE a = c \/ b = c
    BY <1>2, <1>4, <2>2, Zenon
  <2> QED BY <2>1, <2>2
<1> QED BY <1>5, <1>6, Zenon DEF SpawnsReserved, Making

LEMMA ReservedConn ==
  ASSUME ReservedInv, NEW c \in Conns, ConnStep(c)
  PROVE  SpawnsReserved'
<1> USE DEF connVars
<1>i. SpawnsReserved
  BY DEF ReservedInv
<1>s. {"preauth", "first", "serve", "listing", "settling", "closed"} \subseteq HandlerStates
  BY DEF HandlerStates
<1>1. CASE OnOwner(c) \/ OnUnknown(c) \/ OnSpawnAgain(c) \/ OnClose(c) \/ OnPause(c)
             \/ OnResume(c) \/ \E k \in Shells : BackendSpawn(c, k)
  <2>1. UNCHANGED <<hostUp, spawning, hpc, harg>>
    BY <1>1, Zenon DEF OnOwner, OnUnknown, OnSpawnAgain, OnClose, OnPause, OnResume, BackendSpawn
  <2> QED BY <2>1, <1>i, ReservedKept, Zenon
<1>2. CASE Accept(c)
  BY <1>2, <1>s, ReservedMoves, Zenon DEF Accept
<1>3. CASE Authenticate(c)
  BY <1>3, <1>s, ReservedMoves, Zenon DEF Authenticate
<1>4. CASE DeclareProbe(c)
  BY <1>4, <1>s, ReservedMoves, Zenon DEF DeclareProbe
<1>5. CASE AdoptServer(c)
  BY <1>5, <1>s, ReservedMoves, Zenon DEF AdoptServer
<1>6. CASE OnEof(c)
  BY <1>6, <1>s, ReservedMoves, Zenon DEF OnEof, CloseConn
<1>7. CASE OnSpawn(c)
  BY <1>7, ReservedTaken
<1>8. CASE SpawnFails(c)
  BY <1>8, <1>s, ReservedReturned, Zenon DEF SpawnFails, CloseConn
<1>9. CASE SpawnLands(c)
  BY <1>9, <1>s, ReservedReturned, Zenon DEF SpawnLands
<1>10. CASE OnList(c)
  <2>1. CASE hpc' = hpc
    <3>1. UNCHANGED <<hostUp, spawning, harg>>
      BY <1>10, Zenon DEF OnList
    <3> QED BY <2>1, <3>1, <1>i, ReservedKept, Zenon
  <2>2. CASE hpc' = [hpc EXCEPT ![c] = "listing"]
    BY <1>10, <1>s, <2>2, ReservedMoves, Zenon DEF OnList, Taking
  <2> QED BY <1>10, <2>1, <2>2, Zenon DEF OnList
<1>11. CASE ListAnswered(c)
  BY <1>11, <1>s, ReservedMoves, Zenon DEF ListAnswered
<1>12. CASE OnShutdown(c)
  BY <1>12, <1>s, ReservedMoves, Zenon DEF OnShutdown, Taking
<1>13. CASE ShutdownSettled(c)
  BY <1>13, <1>s, ReservedMoves, Zenon DEF ShutdownSettled
<1> QED BY <1>1, <1>2, <1>3, <1>4, <1>5, <1>6, <1>7, <1>8, <1>9, <1>10, <1>11, <1>12, <1>13
        DEF ConnStep

LEMMA ReservedStep == ReservedInv /\ [HostNext]_hostVars => ReservedInv'
<1> SUFFICES ASSUME ReservedInv, [HostNext]_hostVars PROVE SpawnsReserved'
  BY TypeStep DEF ReservedInv
<1> USE DEF connVars
<1>i. SpawnsReserved
  BY DEF ReservedInv
<1>1. CASE UNCHANGED hostVars
  BY <1>1, <1>i, ReservedKept, Zenon DEF hostVars
<1>2. ASSUME NEW c \in Conns, ConnStep(c) PROVE SpawnsReserved'
  BY <1>2, ReservedConn
<1>3. CASE PeerStep \/ ShellStep
  <2>1. UNCHANGED <<hostUp, spawning, hpc, harg>>
    BY <1>3, Zenon DEF PeerStep, PeerOpen, PeerSend, PeerRecv, PeerHalfClose, PeerClose,
         ConnReset, OwnerDies, ShellStep, ShellOutput, ShellExit
  <2> QED BY <2>1, <1>i, ReservedKept, Zenon
<1>4. CASE \E p \in PaneIds : ReaderEof(p) \/ \E k \in Shells : FinishEof(p, k)
  <2>1. UNCHANGED <<hostUp, spawning, hpc, harg>>
    BY <1>4, Zenon DEF ReaderEof, FinishEof
  <2> QED BY <2>1, <1>i, ReservedKept, Zenon
<1>5. CASE Watchdog
  <2>1. UNCHANGED <<hostUp, spawning, hpc, harg>>
    BY <1>5, Zenon DEF Watchdog, WatchAttached, WatchIdle, WatchVerdict, WatchSettled
  <2> QED BY <2>1, <1>i, ReservedKept, Zenon
<1>6. CASE HostExit
  BY <1>6, Zenon DEF HostExit, SpawnsReserved
<1> QED BY <1>1, <1>2, <1>3, <1>4, <1>5, <1>6 DEF HostNext, HostStep

\* As long as the daemon runs, _spawning is exactly the panes that executor calls
\* are making, and no two calls make the same pane.
THEOREM SpawnsReservedCorrect == HostSpec => []SpawnsReserved
<1>1. HostInit => ReservedInv
  <2>1. HostInit => SpawnsReserved
    BY SMT DEF HostInit, SpawnsReserved
  <2> QED BY <2>1, TypeInit DEF ReservedInv
<1>2. ReservedInv => SpawnsReserved
  BY DEF ReservedInv
<1> QED BY <1>1, <1>2, ReservedStep, PTL DEF HostSpec

-----------------------------------------------------------------------------
(* Holders.  A child is held by the pane it is registered under or by the     *)
(* executor call that made it: never by two of them, by none before it is     *)
(* made, and by one as long as it lives.                                      *)

HeldOnce == \A k \in Shells :
  /\ \A p, q \in PaneIds : shellOf[p] = k /\ shellOf[q] = k => p = q
  /\ \A c, d \in Conns : hshell[c] = k /\ hshell[d] = k => c = d
  /\ \A p \in PaneIds, c \in Conns : ~(shellOf[p] = k /\ hshell[c] = k)
UnmadeFree == \A k \in Shells : shell[k] = "none" =>
  (\A p \in PaneIds : shellOf[p] # k) /\ (\A c \in Conns : hshell[c] # k)
LiveHeld == \A k \in Shells : shell[k] = "live" =>
  (\E p \in PaneIds : shellOf[p] = k) \/ (\E c \in Conns : hshell[c] = k)
Held == HeldOnce /\ UnmadeFree /\ LiveHeld
HeldInv == TypeInv /\ Held

LEMMA HeldKept ==
  ASSUME Held, UNCHANGED <<shellOf, hshell, shell>>
  PROVE  Held'
BY Zenon DEF Held, HeldOnce, UnmadeFree, LiveHeld

\* Closing panes closes the children they hold.
LEMMA HeldCloses ==
  ASSUME HeldInv, NEW S, ClosePanes(S), hshell' = hshell
  PROVE  Held'
<1>1. /\ \A p \in PaneIds : shellOf'[p] = IF p \in S THEN 0 ELSE shellOf[p]
      /\ \A k \in Shells : shell'[k] = IF shell[k] = "live" /\ \E p \in S : shellOf[p] = k
                                         THEN "closed" ELSE shell[k]
  BY Zenon DEF ClosePanes
<1>2. \A k \in Shells : k # 0
  BY SMT DEF Shells
<1>3. \A p \in PaneIds, k \in Shells : shellOf'[p] = k => shellOf[p] = k
  BY <1>1, <1>2, Zenon
<1>4. HeldOnce'
  BY <1>3, Zenon DEF HeldInv, Held, HeldOnce
<1>5. UnmadeFree'
  <2>1. \A k \in Shells : shell'[k] = "none" => shell[k] = "none"
    BY <1>1, SMT
  <2> QED BY <1>3, <2>1, Zenon DEF HeldInv, Held, UnmadeFree
<1>6. LiveHeld'
  <2>1. \A k \in Shells : shell'[k] = "live" => shell[k] = "live" /\ ~\E p \in S : shellOf[p] = k
    BY <1>1, SMT
  <2>2. \A k \in Shells, p \in PaneIds :
          shellOf[p] = k /\ (~\E q \in S : shellOf[q] = k) => shellOf'[p] = k
    BY <1>1, Zenon
  <2> QED BY <2>1, <2>2, Zenon DEF HeldInv, Held, LiveHeld
<1> QED BY <1>4, <1>5, <1>6 DEF Held

\* What the executor makes is held by the call that made it.
LEMMA HeldMade ==
  ASSUME HeldInv, NEW c \in Conns, NEW k \in Shells, BackendSpawn(c, k)
  PROVE  Held'
<1> USE DEF HeldInv, TypeInv, TypeOK
<1>1. shellOf' = shellOf /\ shell[k] = "none" /\ hshell[c] = 0
  BY Zenon DEF BackendSpawn, paneVars
<1>2. shell'[k] = "live" /\ \A j \in Shells \ {k} : shell'[j] = shell[j]
  BY SMT DEF BackendSpawn
<1>3. hshell'[c] = k /\ \A d \in Conns \ {c} : hshell'[d] = hshell[d]
  BY SMT DEF BackendSpawn
<1>4. (\A p \in PaneIds : shellOf[p] # k) /\ (\A d \in Conns : hshell[d] # k)
  BY <1>1, Zenon DEF Held, UnmadeFree
<1>5. HeldOnce'
  <2> SUFFICES ASSUME NEW j \in Shells
               PROVE  /\ \A q, r \in PaneIds : shellOf'[q] = j /\ shellOf'[r] = j => q = r
                      /\ \A a, b \in Conns : hshell'[a] = j /\ hshell'[b] = j => a = b
                      /\ \A q \in PaneIds, a \in Conns : ~(shellOf'[q] = j /\ hshell'[a] = j)
    BY DEF HeldOnce
  <2>1. CASE j = k
    BY <1>1, <1>3, <1>4, <2>1, Zenon
  <2>2. CASE j # k
    <3>1. \A d \in Conns : hshell'[d] = j => hshell[d] = j
      BY <1>3, <2>2, Zenon
    <3>2. /\ \A q, r \in PaneIds : shellOf[q] = j /\ shellOf[r] = j => q = r
          /\ \A a, b \in Conns : hshell[a] = j /\ hshell[b] = j => a = b
          /\ \A q \in PaneIds, a \in Conns : ~(shellOf[q] = j /\ hshell[a] = j)
      BY Zenon DEF Held, HeldOnce
    <3> QED BY <1>1, <3>1, <3>2, Zenon
  <2> QED BY <2>1, <2>2
<1>6. UnmadeFree'
  BY <1>1, <1>2, <1>3, SMT DEF Held, UnmadeFree
<1>7. LiveHeld'
  <2> SUFFICES ASSUME NEW j \in Shells, shell'[j] = "live", j # k
               PROVE  (\E p \in PaneIds : shellOf'[p] = j) \/ (\E d \in Conns : hshell'[d] = j)
    BY <1>3, Zenon DEF LiveHeld
  <2>1. (\E p \in PaneIds : shellOf[p] = j) \/ (\E d \in Conns : hshell[d] = j)
    BY <1>2, Zenon DEF Held, LiveHeld
  <2>2. \A d \in Conns : hshell[d] = j => d # c
    BY <1>1, SMT DEF Shells
  <2> QED BY <1>1, <1>3, <2>1, <2>2, Zenon
<1> QED BY <1>5, <1>6, <1>7 DEF Held

\* The call hands the child to the pane it was made for, or closes it.
LEMMA HeldLands ==
  ASSUME HeldInv, NEW c \in Conns, SpawnLands(c)
  PROVE  Held'
<1> USE DEF HeldInv, TypeInv, TypeOK
<1> DEFINE k == hshell[c]
           p == harg[c]
<1>1. hpc[c] = "spawning" /\ k \in Shells /\ p \in PaneIds
  BY SMT DEF SpawnLands, ArgOK
<1>2. hshell'[c] = 0 /\ \A d \in Conns \ {c} : hshell'[d] = hshell[d]
  BY SMT DEF SpawnLands
<1>3. \A j \in Shells, d \in Conns : hshell'[d] = j => d # c /\ hshell[d] = j
  BY <1>2, SMT DEF Shells
<1>4. CASE Refused(p)
  <2>1. shellOf' = shellOf /\ shell' = [shell EXCEPT ![k] = IF @ = "live" THEN "closed" ELSE @]
    BY <1>4, Zenon DEF SpawnLands, Refuse, paneVars
  <2>2. shell'[k] # "live" /\ \A j \in Shells : shell'[j] \in {"none", "live"} => shell'[j] = shell[j]
    BY <1>1, <2>1, SMT
  <2>3. HeldOnce'
    BY <1>3, <2>1, Zenon DEF Held, HeldOnce
  <2>4. UnmadeFree'
    BY <1>3, <2>1, <2>2, SMT DEF Held, UnmadeFree
  <2>5. LiveHeld'
    <3> SUFFICES ASSUME NEW j \in Shells, shell'[j] = "live"
                 PROVE  (\E q \in PaneIds : shellOf'[q] = j) \/ (\E d \in Conns : hshell'[d] = j)
      BY DEF LiveHeld
    <3>1. j # k /\ shell[j] = "live"
      BY <2>2, Zenon
    <3>2. (\E q \in PaneIds : shellOf[q] = j) \/ (\E d \in Conns : hshell[d] = j)
      BY <3>1, Zenon DEF Held, LiveHeld
    <3> QED BY <1>2, <2>1, <3>1, <3>2, Zenon
  <2> QED BY <2>3, <2>4, <2>5 DEF Held
<1>5. CASE ~Refused(p)
  <2>1. shell' = shell /\ shellOf' = [shellOf EXCEPT ![p] = k]
    BY <1>5, Zenon DEF SpawnLands
  <2>2. shellOf[p] = 0
    BY <1>1, <1>5, Zenon DEF Refused, Registered
  <2>3. shellOf'[p] = k /\ \A q \in PaneIds \ {p} : shellOf'[q] = shellOf[q]
    BY <1>1, <2>1, SMT
  <2>4. \A q \in PaneIds : shellOf[q] # k
    BY <1>1, Zenon DEF Held, HeldOnce
  <2>5. \A d \in Conns : hshell'[d] # k
    BY <1>1, <1>3, Zenon DEF Held, HeldOnce
  <2>6. HeldOnce'
    <3> SUFFICES ASSUME NEW j \in Shells
                 PROVE  /\ \A q, r \in PaneIds : shellOf'[q] = j /\ shellOf'[r] = j => q = r
                        /\ \A a, b \in Conns : hshell'[a] = j /\ hshell'[b] = j => a = b
                        /\ \A q \in PaneIds, a \in Conns : ~(shellOf'[q] = j /\ hshell'[a] = j)
      BY DEF HeldOnce
    <3>1. CASE j = k
      BY <2>3, <2>4, <2>5, <3>1, Zenon
    <3>2. CASE j # k
      <4>1. \A q \in PaneIds : shellOf'[q] = j => shellOf[q] = j
        BY <2>3, <3>2, Zenon
      <4>2. /\ \A q, r \in PaneIds : shellOf[q] = j /\ shellOf[r] = j => q = r
            /\ \A a, b \in Conns : hshell[a] = j /\ hshell[b] = j => a = b
            /\ \A q \in PaneIds, a \in Conns : ~(shellOf[q] = j /\ hshell[a] = j)
        BY Zenon DEF Held, HeldOnce
      <4> QED BY <1>3, <4>1, <4>2, Zenon
    <3> QED BY <3>1, <3>2
  <2>7. UnmadeFree'
    <3>1. shell[k] # "none"
      BY <1>1, Zenon DEF Held, UnmadeFree
    <3>2. \A j \in Shells, q \in PaneIds : shellOf'[q] = j => j = k \/ shellOf[q] = j
      BY <2>3, Zenon
    <3> QED BY <1>3, <2>1, <3>1, <3>2, Zenon DEF Held, UnmadeFree
  <2>8. LiveHeld'
    <3> SUFFICES ASSUME NEW j \in Shells, shell'[j] = "live", j # k
                 PROVE  (\E q \in PaneIds : shellOf'[q] = j) \/ (\E d \in Conns : hshell'[d] = j)
      BY <1>1, <2>3, Zenon DEF LiveHeld
    <3>1. (\E q \in PaneIds : shellOf[q] = j) \/ (\E d \in Conns : hshell[d] = j)
      BY <2>1, Zenon DEF Held, LiveHeld
    <3>2. \A q \in PaneIds : shellOf[q] = j => q # p
      BY <2>2, SMTT(30) DEF Shells
    <3> QED BY <1>2, <2>3, <3>1, <3>2, Zenon
  <2> QED BY <2>6, <2>7, <2>8 DEF Held
<1> QED BY <1>4, <1>5

LEMMA HeldStep == HeldInv /\ [HostNext]_hostVars => HeldInv'
<1> SUFFICES ASSUME HeldInv, [HostNext]_hostVars PROVE Held'
  BY TypeStep DEF HeldInv
<1> USE DEF connVars, paneVars
<1>h. Held
  BY DEF HeldInv
<1>1. CASE UNCHANGED hostVars
  BY <1>1, <1>h, HeldKept DEF hostVars
<1>2. ASSUME NEW c \in Conns, ConnStep(c) PROVE Held'
  <2>1. CASE OnClose(c) \/ ShutdownSettled(c)
    BY <2>1, HeldCloses, Zenon DEF OnClose, ShutdownSettled
  <2>2. CASE SpawnLands(c)
    BY <2>2, HeldLands
  <2>3. CASE \E k \in Shells : BackendSpawn(c, k)
    BY <2>3, HeldMade
  <2>4. CASE Accept(c) \/ Authenticate(c) \/ DeclareProbe(c) \/ AdoptServer(c) \/ OnEof(c)
             \/ OnOwner(c) \/ OnUnknown(c) \/ OnSpawnAgain(c) \/ OnSpawn(c) \/ SpawnFails(c)
             \/ OnPause(c) \/ OnResume(c) \/ OnList(c) \/ ListAnswered(c) \/ OnShutdown(c)
    <3>1. UNCHANGED <<shellOf, hshell, shell>>
      BY <2>4, Zenon DEF Accept, Authenticate, DeclareProbe, AdoptServer, OnEof, OnOwner,
           OnUnknown, OnSpawnAgain, OnSpawn, SpawnFails, OnPause, OnResume, OnList,
           ListAnswered, OnShutdown
    <3> QED BY <3>1, <1>h, HeldKept
  <2> QED BY <1>2, <2>1, <2>2, <2>3, <2>4 DEF ConnStep
<1>3. CASE PeerStep
  <2>1. UNCHANGED <<shellOf, hshell, shell>>
    BY <1>3, Zenon DEF PeerStep, PeerOpen, PeerSend, PeerRecv, PeerHalfClose, PeerClose,
         ConnReset, OwnerDies
  <2> QED BY <2>1, <1>h, HeldKept
<1>4. ASSUME NEW p \in PaneIds, ShellOutput(p) \/ ReaderEof(p) PROVE Held'
  <2>1. UNCHANGED <<shellOf, hshell, shell>>
    BY <1>4, Zenon DEF ShellOutput, ReaderEof
  <2> QED BY <2>1, <1>h, HeldKept
<1>5. ASSUME NEW k \in Shells, ShellExit(k) PROVE Held'
  <2>1. shellOf' = shellOf /\ hshell' = hshell
    BY <1>5, Zenon DEF ShellExit
  <2>2. \A j \in Shells : shell'[j] \in {"none", "live"} => shell'[j] = shell[j]
    BY <1>5, SMT DEF ShellExit, HeldInv, TypeInv, TypeOK
  <2> QED BY <2>1, <2>2, <1>h, SMT DEF Held, HeldOnce, UnmadeFree, LiveHeld
<1>6. ASSUME NEW p \in PaneIds, NEW k \in Shells, FinishEof(p, k) PROVE Held'
  BY <1>6, HeldCloses, Zenon DEF FinishEof
<1>7. CASE Watchdog
  <2>1. CASE WatchSettled
    BY <2>1, HeldCloses, Zenon DEF WatchSettled
  <2>2. CASE WatchAttached \/ WatchIdle \/ WatchVerdict
    <3>1. UNCHANGED <<shellOf, hshell, shell>>
      BY <2>2, Zenon DEF WatchAttached, WatchIdle, WatchVerdict
    <3> QED BY <3>1, <1>h, HeldKept
  <2> QED BY <1>7, <2>1, <2>2 DEF Watchdog
<1>8. CASE HostExit
  BY <1>8, HeldCloses, Zenon DEF HostExit
<1> QED BY <1>1, <1>2, <1>3, <1>4, <1>5, <1>6, <1>7, <1>8 DEF HostNext, HostStep, ShellStep

\* A living child has one holder, so it is counted once.
LEMMA HeldAccounts == Held => ShellsAccounted
<1> SUFFICES ASSUME Held, NEW k \in Shells, shell[k] = "live"
             PROVE  Cardinality({p \in PaneIds : shellOf[p] = k} \cup
                      {<<c>> : c \in {d \in Conns : hshell[d] = k}}) = 1
  BY DEF ShellsAccounted
<1>1. CASE \E p \in PaneIds : shellOf[p] = k
  <2> PICK p \in PaneIds : shellOf[p] = k
    BY <1>1
  <2>1. {q \in PaneIds : shellOf[q] = k} = {p} /\ {d \in Conns : hshell[d] = k} = {}
    BY ZenonT(60) DEF Held, HeldOnce
  <2>2. {<<c>> : c \in {d \in Conns : hshell[d] = k}} = {}
    BY <2>1, Zenon
  <2>3. {q \in PaneIds : shellOf[q] = k} \cup {<<c>> : c \in {d \in Conns : hshell[d] = k}} = {p}
    BY <2>1, <2>2, Zenon
  <2> QED BY <2>3, FS_Singleton, Zenon
<1>2. CASE \E c \in Conns : hshell[c] = k
  <2> PICK c \in Conns : hshell[c] = k
    BY <1>2
  <2>1. {q \in PaneIds : shellOf[q] = k} = {} /\ {d \in Conns : hshell[d] = k} = {c}
    BY ZenonT(60) DEF Held, HeldOnce
  <2>2. {<<b>> : b \in {d \in Conns : hshell[d] = k}} = {<<c>>}
    BY <2>1, Zenon
  <2>3. {q \in PaneIds : shellOf[q] = k} \cup {<<b>> : b \in {d \in Conns : hshell[d] = k}} = {<<c>>}
    BY <2>1, <2>2, Zenon
  <2> QED BY <2>3, FS_Singleton, Zenon
<1> QED BY <1>1, <1>2, Zenon DEF Held, LiveHeld

\* Through closes, failed and refused spawns, shutdown and the end of the process, a
\* living child is held by exactly one pane or executor call.
THEOREM ShellsAccountedCorrect == HostSpec => []ShellsAccounted
<1>1. HostInit => HeldInv
  <2>1. HostInit => Held
    BY SMT DEF HostInit, Held, HeldOnce, UnmadeFree, LiveHeld, Shells
  <2> QED BY <2>1, TypeInit DEF HeldInv
<1>2. HeldInv => ShellsAccounted
  BY HeldAccounts DEF HeldInv
<1> QED BY <1>1, <1>2, HeldStep, PTL DEF HostSpec

-----------------------------------------------------------------------------
(* The ring.  That it holds the newest output of the pane's own shell needs    *)
(* HeldOnce: no other pane reads that shell.                                   *)

\* A run of n chunks that ends with chunk o.
Newest(run, o) == \A i \in 1..Len(run) : run[i] + Len(run) = o + i

LEMMA TailIsNewest ==
  ASSUME NEW run \in Seq(Nat), run # <<>>, NEW o \in Nat, Newest(run, o)
  PROVE  Tail(run) \in Seq(Nat) /\ Len(Tail(run)) = Len(run) - 1 /\ Newest(Tail(run), o)
<1>1. /\ Tail(run) \in Seq(Nat) /\ Len(Tail(run)) = Len(run) - 1 /\ Len(run) \in Nat
      /\ \A i \in 1..Len(Tail(run)) : Tail(run)[i] = run[i + 1] /\ i + 1 \in 1..Len(run)
  BY SMT
<1>2. \A i \in 1..Len(run) : run[i] \in Nat /\ run[i] + Len(run) = o + i
  BY SMT DEF Newest
<1>3. ASSUME NEW i \in 1..Len(Tail(run)) PROVE Tail(run)[i] + Len(Tail(run)) = o + i
  <2>1. run[i + 1] \in Nat /\ run[i + 1] + Len(run) = o + (i + 1) /\ Tail(run)[i] = run[i + 1]
    BY <1>1, <1>2, Zenon
  <2>2. i \in Nat
    BY <1>1, SMT
  <2> QED BY <1>1, <2>1, <2>2, SMT
<1> QED BY <1>1, <1>3, Zenon DEF Newest

LEMMA KeptGrows ==
  ASSUME NEW p \in PaneIds, pending \in [PaneIds -> Seq(Nat)], NEW o \in Nat,
         Len(pending[p]) <= PendingMax, Newest(pending[p], o)
  PROVE  /\ Kept(p, o + 1) \in Seq(Nat) /\ Len(Kept(p, o + 1)) <= PendingMax
         /\ Newest(Kept(p, o + 1), o + 1)
<1> DEFINE run == pending[p]
           grown == Append(run, o + 1)
<1>1. run \in Seq(Nat) /\ Len(run) \in Nat /\ PendingMax \in Nat \ {0}
  BY BoundsAssumption, SMT
<1>2. grown \in Seq(Nat) /\ Len(grown) = Len(run) + 1
  BY <1>1, SMT
<1>3. \A i \in 1..Len(grown) : grown[i] + Len(grown) = o + 1 + i
  <2> SUFFICES ASSUME NEW i \in 1..Len(grown) PROVE grown[i] + Len(grown) = o + 1 + i
    OBVIOUS
  <2>1. CASE i = Len(run) + 1
    BY <1>1, <1>2, <2>1, SMT
  <2>2. CASE i \in 1..Len(run)
    <3>1. grown[i] = run[i] /\ run[i] \in Nat
      BY <1>1, <2>2, SMT
    <3>2. run[i] + Len(run) = o + i
      BY <2>2, Zenon DEF Newest
    <3> QED BY <1>1, <1>2, <2>2, <3>1, <3>2, SMTT(30)
  <2> QED BY <1>1, <1>2, <2>1, <2>2, SMT
<1>n. Newest(grown, o + 1)
  BY <1>3, Zenon DEF Newest
<1>4. CASE Len(grown) > PendingMax
  <2>1. Kept(p, o + 1) = Tail(grown)
    BY <1>4, SMT DEF Kept
  <2>2. grown # <<>>
    BY <1>1, <1>2, SMT
  <2>3. /\ Tail(grown) \in Seq(Nat) /\ Len(Tail(grown)) = Len(run)
        /\ Newest(Tail(grown), o + 1)
    <3> HIDE DEF grown
    <3> QED BY <1>1, <1>2, <1>n, <2>2, TailIsNewest, SMT
  <2> QED BY <2>1, <2>3, Zenon
<1>5. CASE ~(Len(grown) > PendingMax)
  <2>1. Kept(p, o + 1) = grown
    BY <1>5, SMT DEF Kept
  <2>2. Len(grown) <= PendingMax
    BY <1>1, <1>2, <1>5, SMT
  <2> QED BY <1>2, <1>n, <2>1, <2>2, Zenon
<1> QED BY <1>4, <1>5

RingInv == KeptInv /\ HeldInv /\ KeptIsNewest

\* The ring of one pane, as the property says it.
RingOK(p) ==
  /\ Len(pending[p]) <= PendingMax
  /\ pending[p] # <<>> => p \in Registered
  /\ Newest(pending[p], out[shellOf[p]])

LEMMA RingIs == KeptIsNewest <=> \A p \in PaneIds : RingOK(p)
BY Zenon DEF KeptIsNewest, RingOK, Newest

LEMMA RingEmpty ==
  ASSUME NEW p \in PaneIds, pending[p] = <<>>
  PROVE  RingOK(p)
BY BoundsAssumption, SMT DEF RingOK, Newest

\* Steps that leave the rings and the readers alone.
LEMMA RingKept ==
  ASSUME KeptIsNewest, UNCHANGED <<pending, shellOf, out>>
  PROVE  KeptIsNewest'
BY Zenon DEF KeptIsNewest, Registered

LEMMA RingCloses ==
  ASSUME RingInv, NEW S, ClosePanes(S), out' = out
  PROVE  KeptIsNewest'
<1> SUFFICES ASSUME NEW p \in PaneIds PROVE RingOK(p)'
  BY Zenon DEF KeptIsNewest, RingOK, Newest
<1>1. CASE p \in S
  <2>1. pending'[p] = <<>>
    BY <1>1, Zenon DEF ClosePanes
  <2> QED BY <2>1, BoundsAssumption, SMT DEF RingOK, Newest
<1>2. CASE p \notin S
  <2>1. pending'[p] = pending[p] /\ shellOf'[p] = shellOf[p]
    BY <1>2, Zenon DEF ClosePanes
  <2>2. RingOK(p)
    BY RingIs, Zenon DEF RingInv
  <2> QED BY <2>1, <2>2, Zenon DEF RingOK, Registered
<1> QED BY <1>1, <1>2

LEMMA RingLands ==
  ASSUME RingInv, NEW c \in Conns, SpawnLands(c)
  PROVE  KeptIsNewest'
<1> USE DEF RingInv, KeptInv, TypeInv, TypeOK
<1>1. CASE Refused(harg[c])
  BY <1>1, RingKept, Zenon DEF SpawnLands, paneVars
<1>2. CASE ~Refused(harg[c])
  <2>1. /\ shellOf' = [shellOf EXCEPT ![harg[c]] = hshell[c]] /\ out' = out
        /\ pending' = [pending EXCEPT ![harg[c]] = <<>>]
    BY <1>2, Zenon DEF SpawnLands
  <2> SUFFICES ASSUME NEW p \in PaneIds PROVE RingOK(p)'
    BY Zenon DEF KeptIsNewest, RingOK, Newest
  <2>2. CASE p = harg[c]
    <3>1. pending'[p] = <<>>
      BY <2>1, <2>2, SMT
    <3> QED BY <3>1, BoundsAssumption, SMT DEF RingOK, Newest
  <2>3. CASE p # harg[c]
    <3>1. pending'[p] = pending[p] /\ shellOf'[p] = shellOf[p]
      BY <2>1, <2>3, SMT
    <3>2. RingOK(p)
      BY RingIs, Zenon
    <3> QED BY <2>1, <3>1, <3>2, Zenon DEF RingOK, Registered
  <2> QED BY <2>2, <2>3
<1> QED BY <1>1, <1>2

\* A chunk is read: it goes into the ring of its pane, or every ring is empty.
LEMMA RingReads ==
  ASSUME RingInv, NEW p \in PaneIds, ShellOutput(p)
  PROVE  KeptIsNewest'
<1> USE DEF RingInv, KeptInv, TypeInv, TypeOK
<1> DEFINE k == shellOf[p]
<1>1. k \in Shells /\ shellOf' = shellOf /\ out' = [out EXCEPT ![k] = out[k] + 1]
  BY Zenon DEF ShellOutput, Registered
<1>2. out[k] \in Nat /\ out'[k] = out[k] + 1 /\ \A j \in Shells \ {k} : out'[j] = out[j]
  BY <1>1, SMT
<1> SUFFICES ASSUME NEW q \in PaneIds PROVE RingOK(q)'
  BY Zenon DEF KeptIsNewest, RingOK, Newest
<1>3. RingOK(q)
  BY RingIs, Zenon
<1>4. CASE ~Detached
  <2>1. pending'[q] = <<>>
    BY <1>4, ZenonT(60) DEF ShellOutput, Detached, KeptOnlyWhenDetached, NoData
  <2> QED BY <2>1, BoundsAssumption, SMT DEF RingOK, Newest
<1>5. CASE Detached /\ q = p
  <2>1. pending' = [pending EXCEPT ![p] = Kept(p, out[k] + 1)]
    BY <1>5, Zenon DEF ShellOutput
  <2>2. pending'[p] = Kept(p, out[k] + 1)
    BY <2>1, SMT
  <2>3. Len(pending[p]) <= PendingMax /\ Newest(pending[p], out[k])
    BY <1>3, <1>5, Zenon DEF RingOK
  <2>4. Len(Kept(p, out[k] + 1)) <= PendingMax /\ Newest(Kept(p, out[k] + 1), out[k] + 1)
    BY <1>2, <2>3, KeptGrows
  <2>5. p \in Registered'
    BY <1>1, Zenon DEF ShellOutput, Registered
  <2>6. Newest(pending[p], out[shellOf[p]])'
    BY <1>1, <1>2, <2>2, <2>4, Zenon DEF Newest
  <2> QED BY <1>5, <2>2, <2>4, <2>5, <2>6, Zenon DEF RingOK
<1>6. CASE Detached /\ q # p
  <2>1. pending'[q] = pending[q]
    BY <1>6, SMT DEF ShellOutput
  <2>2. CASE pending[q] = <<>>
    <3>1. pending'[q] = <<>>
      BY <2>1, <2>2
    <3> QED BY <3>1, BoundsAssumption, SMT DEF RingOK, Newest
  <2>3. CASE pending[q] # <<>>
    <3>1. shellOf[q] \in Shells
      BY <1>3, <2>3, Zenon DEF RingOK, Registered
    <3>2. shellOf[q] # k
      BY <1>1, <1>6, Zenon DEF HeldInv, Held, HeldOnce
    <3>3. out'[shellOf'[q]] = out[shellOf[q]]
      BY <1>1, <1>2, <3>1, <3>2, Zenon
    <3> QED BY <1>1, <1>3, <2>1, <3>3, Zenon DEF RingOK, Registered, Newest
  <2> QED BY <2>2, <2>3
<1> QED BY <1>4, <1>5, <1>6

LEMMA RingConn ==
  ASSUME RingInv, NEW c \in Conns, ConnStep(c)
  PROVE  KeptIsNewest'
<1> USE DEF connVars, paneVars
<1>1. CASE OnClose(c) \/ ShutdownSettled(c)
  BY <1>1, RingCloses, Zenon DEF OnClose, ShutdownSettled
<1>2. CASE AdoptServer(c)
  <2>1. pending' = NoData
    BY <1>2, Zenon DEF AdoptServer, Flush
  <2> SUFFICES ASSUME NEW p \in PaneIds PROVE RingOK(p)'
    BY Zenon DEF KeptIsNewest, RingOK, Newest
  <2>2. pending'[p] = <<>>
    BY <2>1, Zenon DEF NoData
  <2> QED BY <2>2, BoundsAssumption, SMT DEF RingOK, Newest
<1>3. CASE SpawnLands(c)
  BY <1>3, RingLands
<1>4. CASE Accept(c) \/ Authenticate(c) \/ DeclareProbe(c) \/ OnEof(c) \/ OnOwner(c)
           \/ OnUnknown(c) \/ OnSpawnAgain(c) \/ OnSpawn(c) \/ SpawnFails(c)
           \/ OnPause(c) \/ OnResume(c) \/ OnList(c) \/ ListAnswered(c) \/ OnShutdown(c)
           \/ \E k \in Shells : BackendSpawn(c, k)
  <2>1. UNCHANGED <<pending, shellOf, out>>
    BY <1>4, Zenon DEF Accept, Authenticate, DeclareProbe, OnEof, OnOwner, OnUnknown,
         OnSpawnAgain, OnSpawn, SpawnFails, OnPause, OnResume, OnList, ListAnswered,
         OnShutdown, BackendSpawn
  <2> QED BY <2>1, RingKept DEF RingInv
<1> QED BY <1>1, <1>2, <1>3, <1>4 DEF ConnStep

LEMMA RingStep == RingInv /\ [HostNext]_hostVars => RingInv'
<1> SUFFICES ASSUME RingInv, [HostNext]_hostVars PROVE KeptIsNewest'
  BY KeptStep, HeldStep DEF RingInv
<1> USE DEF connVars, paneVars
<1>r. KeptIsNewest
  BY DEF RingInv
<1>1. CASE UNCHANGED hostVars
  BY <1>1, <1>r, RingKept DEF hostVars
<1>2. ASSUME NEW c \in Conns, ConnStep(c) PROVE KeptIsNewest'
  BY <1>2, RingConn
<1>3. CASE PeerStep
  <2>1. UNCHANGED <<pending, shellOf, out>>
    BY <1>3, Zenon DEF PeerStep, PeerOpen, PeerSend, PeerRecv, PeerHalfClose, PeerClose,
         ConnReset, OwnerDies
  <2> QED BY <2>1, <1>r, RingKept
<1>4. ASSUME NEW p \in PaneIds, ShellOutput(p) PROVE KeptIsNewest'
  BY <1>4, RingReads
<1>5. ASSUME NEW p \in PaneIds, ReaderEof(p) PROVE KeptIsNewest'
  <2>1. UNCHANGED <<pending, shellOf, out>>
    BY <1>5, Zenon DEF ReaderEof
  <2> QED BY <2>1, <1>r, RingKept
<1>6. ASSUME NEW k \in Shells, ShellExit(k) PROVE KeptIsNewest'
  <2>1. UNCHANGED <<pending, shellOf, out>>
    BY <1>6, Zenon DEF ShellExit
  <2> QED BY <2>1, <1>r, RingKept
<1>7. ASSUME NEW p \in PaneIds, NEW k \in Shells, FinishEof(p, k) PROVE KeptIsNewest'
  BY <1>7, RingCloses, Zenon DEF FinishEof
<1>8. CASE Watchdog
  <2>1. CASE WatchSettled
    BY <2>1, RingCloses, Zenon DEF WatchSettled
  <2>2. CASE WatchAttached \/ WatchIdle \/ WatchVerdict
    <3>1. UNCHANGED <<pending, shellOf, out>>
      BY <2>2, Zenon DEF WatchAttached, WatchIdle, WatchVerdict
    <3> QED BY <3>1, <1>r, RingKept
  <2> QED BY <1>8, <2>1, <2>2 DEF Watchdog
<1>9. CASE HostExit
  BY <1>9, RingCloses, Zenon DEF HostExit
<1> QED BY <1>1, <1>2, <1>3, <1>4, <1>5, <1>6, <1>7, <1>8, <1>9 DEF HostNext, HostStep, ShellStep

LEMMA RingInit == HostInit => RingInv
<1> SUFFICES ASSUME HostInit PROVE RingInv
  OBVIOUS
<1>1. KeptInv
  BY TypeInit DEF KeptInv, KeptOnlyWhenDetached, HostInit
<1>2. HeldInv
  BY TypeInit, SMT DEF HeldInv, HostInit, Held, HeldOnce, UnmadeFree, LiveHeld, Shells
<1>3. \A p \in PaneIds : pending[p] = <<>>
  BY Zenon DEF HostInit, NoData
<1>4. \A p \in PaneIds : RingOK(p)
  BY <1>3, RingEmpty
<1> QED BY <1>1, <1>2, <1>4, RingIs DEF RingInv

\* What is kept of a pane is, at any time, an unbroken run of the newest output of
\* the shell registered under it, and no longer than _PENDING_MAX.
THEOREM KeptIsNewestCorrect == HostSpec => []KeptIsNewest
<1>1. RingInv => KeptIsNewest
  BY DEF RingInv
<1> QED BY <1>1, RingInit, RingStep, PTL DEF HostSpec

-----------------------------------------------------------------------------
(* The output on the wire: the chunks of a shell cross a connection in order,  *)
(* once, and ahead of what is kept.                                            *)
(* The order on one connection is not inductive by itself: a chunk that is     *)
(* read next is newer than what is in flight only because nothing in flight    *)
(* was never read (Read below).                                                *)

\* The chunks of f for pane p were read from the shell f says they are of.
Read(f, p, o) ==
  \A m \in ChunksIn(f, p) : f.src[p] \in Shells /\ m \in Nat /\ m <= o[f.src[p]]
\* f and then g on a connection; f on a connection, with ring kept of shell s.
Before(f, g, p) ==
  f.op = "data" /\ g.op = "data" /\ f.src[p] = g.src[p] =>
    \A m \in ChunksIn(f, p), n \in ChunksIn(g, p) : m < n
BeforeRing(f, p, ring, s) ==
  f.op = "data" /\ f.src[p] = s =>
    \A m \in ChunksIn(f, p), n \in 1..Len(ring) : m < ring[n]

\* What is in flight on one connection, with the rings, the readers and the counts.
Sound(q, ring, s, o) ==
  \A p \in PaneIds :
    /\ \A i \in 1..Len(q) : Read(q[i], p, o) /\ BeforeRing(q[i], p, ring[p], s[p])
    /\ \A i, j \in 1..Len(q) : i < j => Before(q[i], q[j], p)

FlightOK  == \A c \in Conns : Sound(down[c], pending, shellOf, out)
FlightInv == RingInv /\ FlightOK

LEMMA FlightOrdered == FlightOK => InFlightInOrder
<1> SUFFICES ASSUME FlightOK, NEW c \in Conns, NEW p \in PaneIds
    PROVE  /\ \A i, j \in 1..Len(down[c]) :
                i < j /\ down[c][i].op = "data" /\ down[c][j].op = "data"
                      /\ down[c][i].src[p] = down[c][j].src[p] =>
                  \A m \in ChunksIn(down[c][i], p), n \in ChunksIn(down[c][j], p) : m < n
           /\ \A i \in 1..Len(down[c]) :
                down[c][i].op = "data" /\ down[c][i].src[p] = shellOf[p] =>
                  \A m \in ChunksIn(down[c][i], p), n \in 1..Len(pending[p]) : m < pending[p][n]
  BY Zenon DEF InFlightInOrder
<1>1. Sound(down[c], pending, shellOf, out)
  BY DEF FlightOK
<1>2. \A i, j \in 1..Len(down[c]) : i < j => Before(down[c][i], down[c][j], p)
  BY <1>1, Zenon DEF Sound
<1>3. \A i \in 1..Len(down[c]) : BeforeRing(down[c][i], p, pending[p], shellOf[p])
  BY <1>1, Zenon DEF Sound
<1> QED BY <1>2, <1>3, Zenon DEF Before, BeforeRing

-----------------------------------------------------------------------------
(* One queue: what a step of the daemon or of a peer may do to it              *)

LEMMA SoundEmpty ==
  ASSUME NEW ring, NEW s, NEW o
  PROVE  Sound(<<>>, ring, s, o)
BY SMT DEF Sound

LEMMA SoundTail ==
  ASSUME NEW q \in Seq(DownFrame), q # <<>>, NEW ring, NEW s, NEW o, Sound(q, ring, s, o)
  PROVE  Sound(Tail(q), ring, s, o)
<1>1. /\ Len(q) \in Nat /\ Len(Tail(q)) = Len(q) - 1
      /\ \A i \in 1..Len(Tail(q)) : i + 1 \in 1..Len(q) /\ Tail(q)[i] = q[i + 1]
  BY SMT
<1>2. \A i, j \in 1..Len(Tail(q)) : i < j => i + 1 < j + 1
  BY <1>1, SMT
<1> QED BY <1>1, <1>2, Zenon DEF Sound

LEMMA SoundAppend ==
  ASSUME NEW q \in Seq(DownFrame), NEW f \in DownFrame, NEW ring, NEW s, NEW o,
         Sound(q, ring, s, o),
         \A p \in PaneIds : /\ Read(f, p, o) /\ BeforeRing(f, p, ring[p], s[p])
                            /\ \A i \in 1..Len(q) : Before(q[i], f, p)
  PROVE  Sound(Append(q, f), ring, s, o)
<1> DEFINE r == Append(q, f)
<1>1. /\ Len(q) \in Nat /\ Len(r) = Len(q) + 1 /\ r[Len(r)] = f
      /\ \A i \in 1..Len(r) : i = Len(r) \/ i \in 1..Len(q)
      /\ \A i \in 1..Len(q) : r[i] = q[i]
  BY SMT
<1>2. \A i, j \in 1..Len(r) : i < j => i \in 1..Len(q)
  BY <1>1, SMT
<1>3. \A i, j \in 1..Len(r) : i < j /\ j # Len(r) => j \in 1..Len(q)
  BY <1>1, Zenon
<1> HIDE DEF r
<1> SUFFICES ASSUME NEW p \in PaneIds
    PROVE  /\ \A i \in 1..Len(r) : Read(r[i], p, o) /\ BeforeRing(r[i], p, ring[p], s[p])
           /\ \A i, j \in 1..Len(r) : i < j => Before(r[i], r[j], p)
  BY Zenon DEF Sound, r
<1>4. \A i \in 1..Len(r) : Read(r[i], p, o) /\ BeforeRing(r[i], p, ring[p], s[p])
  BY <1>1, Zenon DEF Sound
<1>5. ASSUME NEW i \in 1..Len(r), NEW j \in 1..Len(r), i < j PROVE Before(r[i], r[j], p)
  <2>1. CASE j = Len(r)
    BY <1>1, <1>2, <1>5, <2>1, Zenon
  <2>2. CASE j # Len(r)
    BY <1>1, <1>2, <1>3, <1>5, <2>2, Zenon DEF Sound
  <2> QED BY <2>1, <2>2
<1> QED BY <1>4, <1>5

\* A frame that carries no output is sound anywhere.
LEMMA SoundQuiet ==
  ASSUME NEW q \in Seq(DownFrame), NEW f \in DownFrame, f.op # "data",
         NEW ring, NEW s, NEW o, Sound(q, ring, s, o)
  PROVE  Sound(Append(q, f), ring, s, o)
<1>1. \A p \in PaneIds : ChunksIn(f, p) = {}
  BY Zenon DEF ChunksIn
<1>2. \A p \in PaneIds : /\ Read(f, p, o) /\ BeforeRing(f, p, ring[p], s[p])
                         /\ \A i \in 1..Len(q) : Before(q[i], f, p)
  BY <1>1, Zenon DEF Read, Before, BeforeRing
<1> QED BY <1>2, SoundAppend

\* Shells are read on, and panes lose their shell or their ring.
LEMMA SoundLater ==
  ASSUME NEW q, NEW ring, NEW s, NEW o, NEW ring2, NEW s2, NEW o2,
         Sound(q, ring, s, o),
         \A k \in Shells : o[k] \in Nat /\ o2[k] \in Nat /\ o[k] <= o2[k],
         \A p \in PaneIds : (ring2[p] = ring[p] /\ s2[p] = s[p]) \/ ring2[p] = <<>>
  PROVE  Sound(q, ring2, s2, o2)
<1> SUFFICES ASSUME NEW p \in PaneIds
    PROVE  /\ \A i \in 1..Len(q) : Read(q[i], p, o2) /\ BeforeRing(q[i], p, ring2[p], s2[p])
           /\ \A i, j \in 1..Len(q) : i < j => Before(q[i], q[j], p)
  BY Zenon DEF Sound
<1>1. \A i \in 1..Len(q) : Read(q[i], p, o2)
  <2> SUFFICES ASSUME NEW i \in 1..Len(q), NEW m \in ChunksIn(q[i], p)
               PROVE  q[i].src[p] \in Shells /\ m \in Nat /\ m <= o2[q[i].src[p]]
    BY Zenon DEF Read
  <2>1. q[i].src[p] \in Shells /\ m \in Nat /\ m <= o[q[i].src[p]]
    BY Zenon DEF Sound, Read
  <2> QED BY <2>1, SMT
<1>2. \A i \in 1..Len(q) : BeforeRing(q[i], p, ring2[p], s2[p])
  <2>1. CASE ring2[p] = <<>>
    <3>1. \A n \in 1..Len(ring2[p]) : FALSE
      BY <2>1, SMT
    <3> QED BY <3>1, Zenon DEF BeforeRing
  <2>2. CASE ring2[p] = ring[p] /\ s2[p] = s[p]
    BY <2>2, Zenon DEF Sound
  <2> QED BY <2>1, <2>2
<1> QED BY <1>1, <1>2, Zenon DEF Sound

-----------------------------------------------------------------------------
(* The steps that send no output                                               *)

Quiet(d) ==
  \/ down'[d] = down[d]
  \/ down'[d] = <<>>
  \/ down[d] # <<>> /\ down'[d] = Tail(down[d])
  \/ \E f \in DownFrame : f.op # "data" /\ down'[d] = Append(down[d], f)

LEMMA FlightQuiet ==
  ASSUME FlightInv, \A d \in Conns : Quiet(d), out' = out,
         \A p \in PaneIds : \/ pending'[p] = pending[p] /\ shellOf'[p] = shellOf[p]
                            \/ pending'[p] = <<>>
  PROVE  FlightOK'
<1> SUFFICES ASSUME NEW d \in Conns PROVE Sound(down'[d], pending', shellOf', out')
  BY Zenon DEF FlightOK
<1>1. down[d] \in Seq(DownFrame) /\ \A k \in Shells : out[k] \in Nat /\ out[k] <= out[k]
  BY SMT DEF FlightInv, RingInv, KeptInv, TypeInv, TypeOK
<1>2. Sound(down[d], pending, shellOf, out)
  BY DEF FlightInv, FlightOK
<1>3. Sound(down'[d], pending, shellOf, out)
  BY <1>1, <1>2, SoundEmpty, SoundTail, SoundQuiet, Zenon DEF Quiet
<1> QED BY <1>1, <1>3, SoundLater, Zenon

\* The frames the daemon writes besides data.
LEMMA WrittenQuiet ==
  ASSUME TypeInv, NEW c \in Conns, NEW f \in DownFrame, f.op # "data", down' = Written(c, f)
  PROVE  \A d \in Conns : Quiet(d)
<1>1. down \in [Conns -> Seq(DownFrame)]
  BY DEF TypeInv, TypeOK
<1>2. \A d \in Conns : down'[d] = down[d] \/ down'[d] = Append(down[d], f)
  BY <1>1, SMT DEF Written
<1> QED BY <1>2, Zenon DEF Quiet

LEMMA QuietAnswers ==
  ASSUME FlightInv, UNCHANGED <<pending, shellOf, out>>, \A d \in Conns : Quiet(d)
  PROVE  FlightOK'
BY FlightQuiet, Zenon

\* A step that sends no output: what is kept of a pane stays, or goes with its shell.
Silence == /\ out' = out /\ \A d \in Conns : Quiet(d)
           /\ \A p \in PaneIds : \/ pending'[p] = pending[p] /\ shellOf'[p] = shellOf[p]
                                \/ pending'[p] = <<>>

LEMMA SilenceCloses ==
  ASSUME NEW S, ClosePanes(S), out' = out, \A d \in Conns : Quiet(d)
  PROVE  Silence
<1>1. \A p \in PaneIds : \/ pending'[p] = pending[p] /\ shellOf'[p] = shellOf[p]
                         \/ pending'[p] = <<>>
  BY Zenon DEF ClosePanes
<1> QED BY <1>1, Zenon DEF Silence

LEMMA SilenceAnswers ==
  ASSUME UNCHANGED <<pending, shellOf, out>>, \A d \in Conns : Quiet(d)
  PROVE  Silence
BY Zenon DEF Silence

LEMMA SilenceLands ==
  ASSUME FlightInv, NEW c \in Conns, SpawnLands(c)
  PROVE  Silence
<1> USE DEF FlightInv, RingInv, KeptInv, TypeInv, TypeOK
<1> DEFINE p == harg[c]
<1>1. p \in PaneIds /\ hshell[c] \in Shells
  BY SMT DEF SpawnLands, ArgOK
<1>2. shellOf'[p] \in Shells \cup {0}
  <2>1. CASE Refused(p)
    BY <1>1, <2>1, SMT DEF SpawnLands, paneVars
  <2>2. CASE ~Refused(p)
    BY <1>1, <2>2, SMT DEF SpawnLands
  <2> QED BY <2>1, <2>2
<1>3. out' = out /\ down' = Written(c, SpawnedFrame(p, shellOf'[p]))
  BY Zenon DEF SpawnLands
<1>4. SpawnedFrame(p, shellOf'[p]) \in DownFrame /\ SpawnedFrame(p, shellOf'[p]).op # "data"
  BY <1>1, <1>2, SpawnedIsDown, SMT DEF SpawnedFrame
<1>5. \A d \in Conns : Quiet(d)
  BY <1>3, <1>4, WrittenQuiet
<1>6. \A q \in PaneIds : \/ pending'[q] = pending[q] /\ shellOf'[q] = shellOf[q]
                         \/ pending'[q] = <<>>
  <2>1. CASE Refused(p)
    BY <2>1, Zenon DEF SpawnLands, paneVars
  <2>2. CASE ~Refused(p)
    <3>1. shellOf' = [shellOf EXCEPT ![p] = hshell[c]] /\ pending' = [pending EXCEPT ![p] = <<>>]
      BY <2>2, Zenon DEF SpawnLands
    <3> QED BY <1>1, <3>1, SMT
  <2> QED BY <2>1, <2>2
<1> QED BY <1>3, <1>5, <1>6, Zenon DEF Silence

-----------------------------------------------------------------------------
(* The steps that send output                                                  *)

\* A connection is adopted: what was kept goes behind what is in flight on it.
LEMMA FlightAdopts ==
  ASSUME FlightInv, NEW c \in Conns, AdoptServer(c)
  PROVE  FlightOK'
<1> USE DEF FlightInv, RingInv, KeptInv, TypeInv, TypeOK
<1> DEFINE f == DataFrame(pending)
<1>1. /\ down' = IF pending = NoData THEN down ELSE Written(c, f)
      /\ pending' = NoData /\ UNCHANGED <<shellOf, out>>
  BY Zenon DEF AdoptServer, Flush
<1>2. \A p \in PaneIds : pending'[p] = <<>>
  BY <1>1, Zenon DEF NoData
<1>3. f \in DownFrame
  BY DataFrameIsDown
<1>4. ASSUME NEW d \in Conns
      PROVE  down'[d] = down[d] \/ down'[d] = Append(down[d], f)
  BY <1>1, SMT DEF Written
<1>5. ASSUME NEW p \in PaneIds
      PROVE  /\ Read(f, p, out) /\ BeforeRing(f, p, pending'[p], shellOf[p])
             /\ \A d \in Conns : \A i \in 1..Len(down[d]) : Before(down[d][i], f, p)
  <2>1. f.op = "data" /\ f.src[p] = shellOf[p] /\ f.data[p] = pending[p]
    BY SMT DEF DataFrame
  <2>2. ChunksIn(f, p) = {pending[p][i] : i \in 1..Len(pending[p])}
    BY <2>1, SMT DEF ChunksIn
  <2>3. Read(f, p, out)
    <3> SUFFICES ASSUME NEW i \in 1..Len(pending[p])
                 PROVE  /\ shellOf[p] \in Shells /\ pending[p][i] \in Nat
                        /\ pending[p][i] <= out[shellOf[p]]
      BY <2>1, <2>2, Zenon DEF Read
    <3>1. /\ pending[p] \in Seq(Nat) /\ Len(pending[p]) \in Nat /\ pending[p] # <<>>
          /\ pending[p][i] \in Nat
      BY SMT
    <3>2. shellOf[p] \in Shells
      BY <3>1, SMT DEF KeptIsNewest, Registered
    <3>3. pending[p][i] + Len(pending[p]) = out[shellOf[p]] + i
      BY Zenon DEF KeptIsNewest
    <3>4. out[shellOf[p]] \in Nat /\ i \in Nat /\ i <= Len(pending[p])
      BY <3>1, <3>2, SMT
    <3> HIDE DEF FlightInv, RingInv, KeptInv, TypeInv, TypeOK
    <3> QED BY <3>1, <3>2, <3>3, <3>4, SMTT(60)
  <2>4. BeforeRing(f, p, pending'[p], shellOf[p])
    BY <1>2, SMT DEF BeforeRing
  <2>5. ASSUME NEW d \in Conns, NEW i \in 1..Len(down[d]) PROVE Before(down[d][i], f, p)
    <3> HIDE DEF f
    <3>1. BeforeRing(down[d][i], p, pending[p], shellOf[p])
      BY Zenon DEF FlightOK, Sound
    <3> QED BY <2>1, <2>2, <3>1, Zenon DEF Before, BeforeRing
  <2> QED BY <2>3, <2>4, <2>5
<1> HIDE DEF f
<1> SUFFICES ASSUME NEW d \in Conns PROVE Sound(down'[d], pending', shellOf', out')
  BY Zenon DEF FlightOK
<1>6. down[d] \in Seq(DownFrame) /\ \A k \in Shells : out[k] \in Nat /\ out[k] <= out[k]
  BY SMT
<1>7. Sound(down[d], pending', shellOf, out)
  <2>1. Sound(down[d], pending, shellOf, out)
    BY DEF FlightOK
  <2> HIDE DEF FlightInv, RingInv, KeptInv, TypeInv, TypeOK
  <2> QED BY <1>2, <1>6, <2>1, SoundLater
<1> HIDE DEF FlightInv, RingInv, KeptInv, TypeInv, TypeOK
<1>8. Sound(down'[d], pending', shellOf, out)
  BY <1>3, <1>4, <1>5, <1>6, <1>7, SoundAppend, Zenon
<1> QED BY <1>1, <1>8, Zenon

\* A chunk in the ring was there before, or is the one that is read.
LEMMA KeptHolds ==
  ASSUME NEW p \in PaneIds, pending \in [PaneIds -> Seq(Nat)], NEW n \in Nat
  PROVE  \A i \in 1..Len(Kept(p, n)) :
           Kept(p, n)[i] = n \/ \E j \in 1..Len(pending[p]) : Kept(p, n)[i] = pending[p][j]
<1> DEFINE run == pending[p]
           grown == Append(run, n)
<1>1. run \in Seq(Nat) /\ Len(run) \in Nat
  BY SMT
<1>2. /\ grown \in Seq(Nat) /\ Len(grown) = Len(run) + 1 /\ grown[Len(run) + 1] = n
      /\ \A j \in 1..Len(run) : grown[j] = run[j]
  BY <1>1, SMT
<1>3. \A j \in 1..Len(grown) : grown[j] = n \/ \E l \in 1..Len(run) : grown[j] = run[l]
  <2>1. \A j \in 1..Len(grown) : j = Len(run) + 1 \/ j \in 1..Len(run)
    BY <1>1, <1>2, SMT
  <2> QED BY <1>2, <2>1, Zenon
<1>4. \A i \in 1..Len(Tail(grown)) : i + 1 \in 1..Len(grown) /\ Tail(grown)[i] = grown[i + 1]
  BY <1>1, <1>2, SMT
<1>5. Kept(p, n) = grown \/ Kept(p, n) = Tail(grown)
  BY Zenon DEF Kept
<1> HIDE DEF run, grown
<1>6. \A i \in 1..Len(Kept(p, n)) : \E j \in 1..Len(grown) : Kept(p, n)[i] = grown[j]
  BY <1>4, <1>5, Zenon
<1> QED BY <1>3, <1>6, ZenonT(40) DEF run

\* A chunk is read: into the ring, or onto the adopted connection.
LEMMA FlightReads ==
  ASSUME FlightInv, NEW p \in PaneIds, ShellOutput(p)
  PROVE  FlightOK'
<1> USE DEF FlightInv, RingInv, KeptInv, TypeInv, TypeOK
<1> DEFINE k == shellOf[p]
           n == out[k] + 1
           f == DataFrame([NoData EXCEPT ![p] = <<n>>])
<1>1. k \in Shells /\ shellOf' = shellOf /\ out' = [out EXCEPT ![k] = n]
  BY Zenon DEF ShellOutput, Registered
<1>2. /\ out[k] \in Nat /\ n \in Nat /\ out'[k] = n /\ out[k] < n
      /\ \A j \in Shells : out[j] \in Nat /\ out'[j] \in Nat /\ out[j] <= out'[j]
  BY <1>1, SMT
<1> SUFFICES ASSUME NEW d \in Conns PROVE Sound(down'[d], pending', shellOf', out')
  BY Zenon DEF FlightOK
<1>3. Sound(down[d], pending, shellOf, out) /\ down[d] \in Seq(DownFrame)
  BY SMT DEF FlightOK
<1>4. Sound(down[d], pending, shellOf, out')
  <2> HIDE DEF FlightInv, RingInv, KeptInv, TypeInv, TypeOK, n
  <2> QED BY <1>2, <1>3, SoundLater, Zenon
<1>5. \A q \in PaneIds, i \in 1..Len(down[d]) :
        down[d][i].src[q] = k => \A m \in ChunksIn(down[d][i], q) : m < n
  <2> SUFFICES ASSUME NEW q \in PaneIds, NEW i \in 1..Len(down[d]), down[d][i].src[q] = k,
                      NEW m \in ChunksIn(down[d][i], q)
               PROVE  m < n
    BY Zenon
  <2>1. m \in Nat /\ m <= out[k]
    BY <1>3, Zenon DEF Sound, Read
  <2> HIDE DEF FlightInv, RingInv, KeptInv, TypeInv, TypeOK
  <2> QED BY <1>2, <2>1, SMT
<1>6. CASE Detached
  <2>1. down' = down /\ pending' = [pending EXCEPT ![p] = Kept(p, n)]
    BY <1>6, Zenon DEF ShellOutput
  <2>2. pending'[p] = Kept(p, n) /\ \A q \in PaneIds \ {p} : pending'[q] = pending[q]
    BY <2>1, SMT
  <2>3. ASSUME NEW i \in 1..Len(down[d]) PROVE BeforeRing(down[d][i], p, Kept(p, n), k)
    <3> SUFFICES ASSUME down[d][i].op = "data", down[d][i].src[p] = k,
                        NEW m \in ChunksIn(down[d][i], p), NEW l \in 1..Len(Kept(p, n))
                 PROVE  m < Kept(p, n)[l]
      BY Zenon DEF BeforeRing
    <3>1. m < n
      BY <1>5, Zenon
    <3>2. \A j \in 1..Len(pending[p]) : m < pending[p][j]
      BY <1>3, Zenon DEF Sound, BeforeRing
    <3>3. Kept(p, n)[l] = n \/ \E j \in 1..Len(pending[p]) : Kept(p, n)[l] = pending[p][j]
      BY <1>2, KeptHolds, Zenon
    <3> QED BY <3>1, <3>2, <3>3, Zenon
  <2>4. Sound(down[d], pending', shellOf, out')
    BY <1>4, <2>2, <2>3, Zenon DEF Sound
  <2> QED BY <1>1, <2>1, <2>4, Zenon
<1>7. CASE ~Detached
  <2>1. down' = Written(writer, f) /\ pending' = pending /\ writer \in Conns
    BY <1>7, SMT DEF ShellOutput, Detached
  <2>2. pending = NoData
    BY <1>7, Zenon DEF Detached, KeptOnlyWhenDetached
  <2>3. [NoData EXCEPT ![p] = <<n>>] \in [PaneIds -> Seq(Nat)]
    BY <1>2, NoDataType, SMT
  <2>4. f \in DownFrame
    BY <2>3, DataFrameIsDown
  <2>5. down'[d] = down[d] \/ down'[d] = Append(down[d], f)
    BY <2>1, SMT DEF Written
  <2>6. f.op = "data" /\ f.src = shellOf
    BY Zenon DEF DataFrame
  <2>7. \A q \in PaneIds : ChunksIn(f, q) = IF q = p THEN {n} ELSE {}
    <3> SUFFICES ASSUME NEW q \in PaneIds PROVE ChunksIn(f, q) = IF q = p THEN {n} ELSE {}
      OBVIOUS
    <3>1. f.data[q] = IF q = p THEN <<n>> ELSE <<>>
      BY SMT DEF DataFrame, NoData
    <3>2. ChunksIn(f, q) = {f.data[q][i] : i \in 1..Len(f.data[q])}
      BY <2>6, Zenon DEF ChunksIn
    <3> HIDE DEF f
    <3> QED BY <3>1, <3>2, SMT
  <2> HIDE DEF f
  <2>8. \A q \in PaneIds : Read(f, q, out') /\ BeforeRing(f, q, pending[q], shellOf[q])
    <3>1. \A q \in PaneIds : Len(pending[q]) = 0
      BY <2>2, SMT DEF NoData
    <3>2. \A q \in PaneIds : \A i \in 1..Len(pending[q]) : FALSE
      BY <3>1, SMT
    <3>3. \A q \in PaneIds : \A m \in ChunksIn(f, q) : q = p /\ m = n
      BY <2>7, SMT
    <3>4. n <= out'[k]
      BY <1>2, SMT
    <3>5. \A q \in PaneIds : Read(f, q, out')
      BY <1>1, <1>2, <2>6, <3>3, <3>4, Zenon DEF Read
    <3> QED BY <3>2, <3>5, Zenon DEF BeforeRing
  <2>9. \A q \in PaneIds, i \in 1..Len(down[d]) : Before(down[d][i], f, q)
    BY <1>5, <2>6, <2>7, Zenon DEF Before
  <2> HIDE DEF FlightInv, RingInv, KeptInv, TypeInv, TypeOK, n
  <2>10. Sound(down'[d], pending, shellOf, out')
    BY <1>3, <1>4, <2>4, <2>5, <2>8, <2>9, SoundAppend, Zenon
  <2> QED BY <1>1, <2>1, <2>10, Zenon
<1> QED BY <1>6, <1>7

-----------------------------------------------------------------------------
(* Every step                                                                  *)

LEMMA ConnQuiet ==
  ASSUME FlightInv, NEW c \in Conns, ConnStep(c)
  PROVE  AdoptServer(c) \/ Silence
<1> USE DEF connVars, paneVars
<1>t. TypeInv
  BY DEF FlightInv, RingInv, KeptInv
<1>q. down' = down => \A d \in Conns : Quiet(d)
  BY Zenon DEF Quiet
<1>1. CASE OnClose(c) \/ ShutdownSettled(c)
  BY <1>1, <1>q, SilenceCloses, Zenon DEF OnClose, ShutdownSettled
<1>2. CASE AdoptServer(c)
  BY <1>2
<1>3. CASE SpawnLands(c)
  BY <1>3, SilenceLands
<1>4. CASE Accept(c) \/ Authenticate(c) \/ DeclareProbe(c) \/ OnEof(c) \/ OnOwner(c)
           \/ OnUnknown(c) \/ OnSpawn(c) \/ SpawnFails(c) \/ OnPause(c) \/ OnResume(c)
           \/ OnShutdown(c) \/ \E k \in Shells : BackendSpawn(c, k)
  <2>1. UNCHANGED <<pending, shellOf, out, down>>
    BY <1>4, Zenon DEF Accept, Authenticate, DeclareProbe, OnEof, OnOwner, OnUnknown,
         OnSpawn, SpawnFails, OnPause, OnResume, OnShutdown, BackendSpawn
  <2> QED BY <2>1, <1>q, SilenceAnswers
<1>5. CASE OnSpawnAgain(c)
  <2>1. Arg(c) \in PaneIds /\ shellOf[Arg(c)] \in Shells \cup {0}
    BY <1>5, <1>t, TakingType, SMT DEF OnSpawnAgain, PaneOps, TypeInv, TypeOK
  <2>2. /\ SpawnedFrame(Arg(c), shellOf[Arg(c)]) \in DownFrame
        /\ SpawnedFrame(Arg(c), shellOf[Arg(c)]).op # "data"
    BY <2>1, SpawnedIsDown, SMT DEF SpawnedFrame
  <2>3. UNCHANGED <<pending, shellOf, out>>
        /\ down' = Written(c, SpawnedFrame(Arg(c), shellOf[Arg(c)]))
    BY <1>5, Zenon DEF OnSpawnAgain
  <2>4. \A d \in Conns : Quiet(d)
    BY <1>t, <2>2, <2>3, WrittenQuiet
  <2> QED BY <2>3, <2>4, SilenceAnswers
<1>6. CASE OnList(c) \/ ListAnswered(c)
  <2>1. UNCHANGED <<pending, shellOf, out>>
    BY <1>6, Zenon DEF OnList, ListAnswered
  <2>2. down' = down \/ \E v \in {"unknown", "alive", "dead"} : ListReply(c, v)
    BY <1>6, Zenon DEF OnList, ListAnswered
  <2>3. ASSUME NEW v \in {"unknown", "alive", "dead"}, ListReply(c, v)
        PROVE  \A d \in Conns : Quiet(d)
    <3> DEFINE f == [op |-> "list_reply", panes |-> Registered, prev |-> v]
    <3>1. f \in DownFrame /\ f.op # "data"
      BY SMT DEF DownFrame, Registered
    <3>2. down' = Written(c, f)
      BY <2>3, Zenon DEF ListReply
    <3> QED BY <1>t, <3>1, <3>2, WrittenQuiet
  <2>4. \A d \in Conns : Quiet(d)
    BY <1>q, <2>2, <2>3, Zenon
  <2> QED BY <2>1, <2>4, SilenceAnswers
<1> QED BY <1>1, <1>2, <1>3, <1>4, <1>5, <1>6 DEF ConnStep

\* All that in one place.
LEMMA HostQuiet ==
  ASSUME FlightInv, HostStep \/ ShellStep
  PROVE  Silence \/ (\E c \in Conns : AdoptServer(c)) \/ (\E p \in PaneIds : ShellOutput(p))
<1> USE DEF connVars, paneVars
<1>t. TypeInv
  BY DEF FlightInv, RingInv, KeptInv
<1>q. down' = down => \A d \in Conns : Quiet(d)
  BY Zenon DEF Quiet
<1>5. ASSUME NEW p \in PaneIds, ReaderEof(p) PROVE Silence
  <2>1. UNCHANGED <<pending, shellOf, out, down>>
    BY <1>5, Zenon DEF ReaderEof
  <2> QED BY <2>1, <1>q, SilenceAnswers
<1>6. ASSUME NEW k \in Shells, ShellExit(k) PROVE Silence
  <2>1. UNCHANGED <<pending, shellOf, out, down>>
    BY <1>6, Zenon DEF ShellExit
  <2> QED BY <2>1, <1>q, SilenceAnswers
<1>7. ASSUME NEW p \in PaneIds, NEW k \in Shells, FinishEof(p, k) PROVE Silence
  <2> DEFINE f == [op |-> "exit", pane |-> p]
  <2>1. f \in DownFrame /\ f.op # "data"
    BY ExitIsDown, SMT
  <2>2. down' = down \/ (writer \in Conns /\ down' = Written(writer, f))
    BY <1>7, <1>t, SMT DEF FinishEof, TypeInv, TypeOK
  <2>3. \A d \in Conns : Quiet(d)
    BY <1>q, <1>t, <2>1, <2>2, WrittenQuiet, Zenon
  <2>4. ClosePanes({p}) /\ out' = out
    BY <1>7, Zenon DEF FinishEof
  <2> QED BY <2>3, <2>4, SilenceCloses
<1>8. CASE Watchdog
  <2>1. CASE WatchSettled
    BY <2>1, <1>q, SilenceCloses, Zenon DEF WatchSettled
  <2>2. CASE WatchAttached \/ WatchIdle \/ WatchVerdict
    <3>1. UNCHANGED <<pending, shellOf, out, down>>
      BY <2>2, Zenon DEF WatchAttached, WatchIdle, WatchVerdict
    <3> QED BY <3>1, <1>q, SilenceAnswers
  <2> QED BY <1>8, <2>1, <2>2 DEF Watchdog
<1>9. CASE HostExit
  BY <1>9, <1>q, SilenceCloses, Zenon DEF HostExit
<1>10. ASSUME NEW c \in Conns, ConnStep(c) PROVE AdoptServer(c) \/ Silence
  BY <1>10, ConnQuiet
<1> QED BY <1>5, <1>6, <1>7, <1>8, <1>9, <1>10, Zenon DEF HostStep, ShellStep

\* A peer reads frames, or loses all those it has not read.
LEMMA FlightPeer ==
  ASSUME FlightInv, PeerStep
  PROVE  FlightOK'
<1> USE DEF connVars, paneVars
<1>t. down \in [Conns -> Seq(DownFrame)]
  BY DEF FlightInv, RingInv, KeptInv, TypeInv, TypeOK
<1>1. UNCHANGED <<pending, shellOf, out>>
  BY Zenon DEF PeerStep, PeerOpen, PeerSend, PeerRecv, PeerHalfClose, PeerClose,
       ConnReset, OwnerDies
<1>2. \/ down' = down
      \/ \E c \in Conns : PeerRecv(c) \/ PeerClose(c)
      \/ \E o \in Owners : OwnerDies(o)
  BY Zenon DEF PeerStep, PeerOpen, PeerSend, PeerHalfClose, ConnReset
<1>3. down' = down => \A d \in Conns : Quiet(d)
  BY Zenon DEF Quiet
<1>4. ASSUME NEW c \in Conns, PeerRecv(c) \/ PeerClose(c) PROVE \A d \in Conns : Quiet(d)
  <2>1. CASE PeerRecv(c)
    <3>1. down[c] # <<>> /\ down' = [down EXCEPT ![c] = Tail(@)]
      BY <2>1, Zenon DEF PeerRecv
    <3>2. \A d \in Conns : down'[d] = down[d] \/ (down[d] # <<>> /\ down'[d] = Tail(down[d]))
      BY <1>t, <3>1, SMT
    <3> QED BY <3>2, Zenon DEF Quiet
  <2>2. CASE PeerClose(c)
    <3>1. down' = [down EXCEPT ![c] = <<>>]
      BY <2>2, Zenon DEF PeerClose
    <3>2. \A d \in Conns : down'[d] = down[d] \/ down'[d] = <<>>
      BY <1>t, <3>1, SMT
    <3> QED BY <3>2, Zenon DEF Quiet
  <2> QED BY <1>4, <2>1, <2>2
<1>5. ASSUME NEW o \in Owners, OwnerDies(o) PROVE \A d \in Conns : Quiet(d)
  <2>1. \A d \in Conns : down'[d] = down[d] \/ down'[d] = <<>>
    BY <1>5, Zenon DEF OwnerDies
  <2> QED BY <2>1, Zenon DEF Quiet
<1>6. \A d \in Conns : Quiet(d)
  BY <1>2, <1>3, <1>4, <1>5, Zenon
<1> QED BY <1>1, <1>6, QuietAnswers

LEMMA FlightStep == FlightInv /\ [HostNext]_hostVars => FlightInv'
<1> SUFFICES ASSUME FlightInv, [HostNext]_hostVars PROVE FlightOK'
  BY RingStep DEF FlightInv
<1>1. CASE UNCHANGED hostVars
  <2>1. UNCHANGED <<pending, shellOf, out>> /\ \A d \in Conns : Quiet(d)
    BY <1>1, Zenon DEF hostVars, paneVars, Quiet
  <2> QED BY <2>1, QuietAnswers
<1>2. CASE PeerStep
  BY <1>2, FlightPeer
<1>3. CASE HostStep \/ ShellStep
  BY <1>3, HostQuiet, FlightAdopts, FlightReads, FlightQuiet, Zenon DEF Silence
<1> QED BY <1>1, <1>2, <1>3 DEF HostNext

\* Whatever connections come and go, the chunks of one shell cross a connection in
\* the order they were read, each at most once, and none of them is still kept.
THEOREM InFlightInOrderCorrect == HostSpec => []InFlightInOrder
<1>1. HostInit => FlightInv
  <2> SUFFICES ASSUME HostInit PROVE FlightOK
    BY RingInit DEF FlightInv
  <2>1. \A c \in Conns : down[c] = <<>>
    BY Zenon DEF HostInit
  <2> QED BY <2>1, SoundEmpty, Zenon DEF FlightOK
<1>2. FlightInv => InFlightInOrder
  BY FlightOrdered DEF FlightInv
<1> QED BY <1>1, <1>2, FlightStep, PTL DEF HostSpec

=============================================================================

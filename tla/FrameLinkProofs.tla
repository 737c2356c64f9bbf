--------------------------- MODULE FrameLinkProofs ---------------------------
(***************************************************************************)
(* What holds of a link of the native client for every set of messages,    *)
(* every length of header and payload and any number of frames: its types, *)
(* the alignment of its reads, and that its steps are those of a pipe.     *)
(***************************************************************************)
EXTENDS FrameLink, SequenceTheorems, TLAPS

(* The inductive invariant.  The thread never reads beyond what arrived, it *)
(* stands where its part and its count say, and what the view has been     *)
(* given and what the channel holds are the first frames of the stream.    *)

ArrivedOK ==
  /\ arrived.frame <= Len(sent)
  /\ arrived.frame = Len(sent) => arrived.byte = 0
  /\ arrived.frame < Len(sent) => arrived.byte < Length(arrived)

ReadOK ==
  /\ from = 0
  /\ pos.frame <= arrived.frame
  /\ pos.frame = arrived.frame => pos.byte <= arrived.byte
  /\ part = "header" => pos.byte = filled /\ filled <= Header
  /\ part = "payload" => /\ pos.byte = Header + filled
                         /\ pos.frame < Len(sent)
                         /\ filled <= Size[FrameAt(pos)]

StreamOK ==
  /\ Len(got) + Len(chan) <= pos.frame
  /\ thread = "reads" /\ held => Len(got) + Len(chan) = pos.frame
  /\ \A i \in 1..Len(got) : got[i] = sent[i]
  /\ \A i \in 1..Len(chan) : chan[i] = sent[Len(got) + i]
  /\ ~held => chan = <<>>

LinkInv == LinkTypeOK /\ ArrivedOK /\ ReadOK /\ StreamOK

-----------------------------------------------------------------------------
(* Sequences.                                                              *)

\* Appending to a sequence keeps its length and elements.
LEMMA AppendKeeps ==
  ASSUME NEW S, NEW s \in Seq(S), NEW x \in S
  PROVE  /\ Append(s, x) \in Seq(S)
         /\ Len(Append(s, x)) = Len(s) + 1
         /\ \A i \in 1..Len(s) : Append(s, x)[i] = s[i]
         /\ Append(s, x)[Len(s) + 1] = x
  OBVIOUS

\* What was handed over and what is queued are together the start of a stream.
LEMMA JoinIsPrefix ==
  ASSUME NEW S, NEW s \in Seq(S), NEW g \in Seq(S), NEW c \in Seq(S),
         Len(g) + Len(c) <= Len(s),
         \A i \in 1..Len(g) : g[i] = s[i],
         \A i \in 1..Len(c) : c[i] = s[Len(g) + i]
  PROVE  /\ g \o c \in Seq(S)
         /\ Len(g \o c) = Len(g) + Len(c)
         /\ \A i \in 1..Len(g \o c) : (g \o c)[i] = s[i]
         /\ g \o c = SubSeq(s, 1, Len(g) + Len(c))
<1> DEFINE n == Len(g) + Len(c)
           t == SubSeq(s, 1, n)
<1>1. g \o c \in Seq(S) /\ Len(g \o c) = n
  OBVIOUS
<1>2. \A i \in 1..n : (g \o c)[i] = s[i]
  <2> TAKE i \in 1..n
  <2>1. CASE i <= Len(g)
    BY <2>1
  <2>2. CASE i > Len(g)
    <3>1. i - Len(g) \in 1..Len(c) /\ Len(g) + (i - Len(g)) = i
      BY <2>2
    <3>2. (g \o c)[i] = c[i - Len(g)]
      BY <2>2
    <3> QED BY <3>1, <3>2
  <2> QED BY <2>1, <2>2
<1>3. t \in Seq(S) /\ Len(t) = n /\ \A i \in 1..n : t[i] = s[i]
  OBVIOUS
<1>4. g \o c = t
  BY <1>1, <1>2, <1>3, SeqEqual
<1> QED BY <1>1, <1>2, <1>4

-----------------------------------------------------------------------------
(* Types and the invariant, one step for each action.                      *)

LEMMA InitInv == LinkInit => LinkInv
<1> SUFFICES ASSUME LinkInit PROVE LinkInv
  OBVIOUS
<1>1. LinkTypeOK
  <2>1. Start \in Positions /\ <<>> \in Seq(Msgs)
    BY DEF Start, Positions
  <2> QED BY <2>1, Zenon DEF LinkInit, LinkTypeOK
<1>2. /\ arrived.frame = 0 /\ arrived.byte = 0 /\ pos.frame = 0 /\ pos.byte = 0
      /\ sent = <<>> /\ got = <<>> /\ chan = <<>> /\ filled = 0 /\ from = 0
      /\ part = "header" /\ held
  BY DEF LinkInit, Start
<1>3. Len(sent) = 0 /\ Len(got) = 0 /\ Len(chan) = 0
  BY <1>2
<1>4. ArrivedOK /\ ReadOK
  BY <1>2, <1>3, LinkAssumption DEF ArrivedOK, ReadOK
<1>5. StreamOK
  BY <1>2, <1>3 DEF StreamOK
<1> QED BY <1>1, <1>4, <1>5 DEF LinkInv

\* The invariant is about everything but what the server owes; a step that
\* leaves the rest alone keeps it.
LEMMA StepInv == LinkInv /\ [LinkNext]_linkVars => LinkInv'
<1> SUFFICES ASSUME LinkInv, [LinkNext]_linkVars PROVE LinkInv'
  BY Zenon
<1> USE LinkAssumption DEF LinkInv, LinkTypeOK, Positions
<1>1. ASSUME NEW m \in Msgs, Write(m) PROVE LinkInv'
  <2>0. sent \in Seq(Msgs) /\ sent' = Append(sent, m)
    BY <1>1 DEF Write
  <2>1. /\ sent' \in Seq(Msgs) /\ Len(sent') = Len(sent) + 1
        /\ \A i \in 1..Len(sent) : sent'[i] = sent[i]
        /\ sent'[Len(sent) + 1] = m
    <3> HIDE DEF LinkInv, LinkTypeOK, Positions
    <3> QED BY <2>0, AppendKeeps
  <2>2. /\ UNCHANGED <<arrived, cut, pos, part, filled, from, thread, chan,
                       notice, held, got, ended>>
        /\ owed' = FALSE
    BY <1>1 DEF Write, readVars, viewVars
  <2>3. LinkTypeOK'
    BY <2>1, <2>2
  <2>4. /\ arrived.frame < Len(sent) => FrameAt(arrived)' = FrameAt(arrived)
        /\ pos.frame < Len(sent) => FrameAt(pos)' = FrameAt(pos)
    <3>1. \A k \in Nat : k < Len(sent) => sent'[k + 1] = sent[k + 1]
      <4> TAKE k \in Nat
      <4> HAVE k < Len(sent)
      <4>1. k + 1 \in 1..Len(sent)
        OBVIOUS
      <4> QED BY <2>1, <4>1
    <3>2. arrived.frame \in Nat /\ pos.frame \in Nat
      OBVIOUS
    <3> QED BY <2>2, <3>1, <3>2 DEF FrameAt
  <2>5. arrived.frame = Len(sent) => Length(arrived)' = Header + Size[m]
    BY <2>1, <2>2 DEF Length, FrameAt
  <2>6. ArrivedOK'
    <3>1. CASE arrived.frame < Len(sent)
      BY <2>1, <2>2, <2>4, <3>1 DEF ArrivedOK, Length
    <3>2. CASE arrived.frame = Len(sent)
      <4>1. Size[m] \in Nat
        OBVIOUS
      <4> QED BY <2>1, <2>2, <2>5, <3>2, <4>1 DEF ArrivedOK
    <3> QED BY <3>1, <3>2 DEF ArrivedOK
  <2>7. ReadOK'
    BY <2>1, <2>2, <2>4 DEF ReadOK
  <2>8. StreamOK'
    <3>1. Len(got) + Len(chan) <= Len(sent)
      BY DEF StreamOK, ReadOK, ArrivedOK
    <3>2. \A i \in 1..Len(got) : got[i] = sent'[i]
      BY <2>1, <3>1 DEF StreamOK
    <3>3. \A i \in 1..Len(chan) : chan[i] = sent'[Len(got) + i]
      <4> TAKE i \in 1..Len(chan)
      <4>1. Len(got) + i \in 1..Len(sent)
        BY <3>1
      <4>2. chan[i] = sent[Len(got) + i]
        BY DEF StreamOK
      <4> QED BY <2>1, <4>1, <4>2
    <3> QED BY <2>2, <3>2, <3>3 DEF StreamOK
  <2> QED BY <2>3, <2>6, <2>7, <2>8
<1>2. CASE Arrive
  <2>1. UNCHANGED <<sent, owed, cut, pos, part, filled, from, thread, chan,
                    notice, held, got, ended>>
    BY <1>2, Zenon DEF Arrive, readVars, viewVars
  <2>2. PICK n \in 1..(Length(arrived) - arrived.byte) :
          arrived' = Forward(arrived, n)
    BY <1>2 DEF Arrive
  <2>3. arrived.frame < Len(sent) /\ Length(arrived) \in Nat
    BY <1>2 DEF Arrive, Length, FrameAt
  <2>4. /\ arrived' \in Positions /\ ArrivedOK'
        /\ \/ arrived'.frame = arrived.frame /\ arrived'.byte > arrived.byte
           \/ arrived'.frame > arrived.frame
    <3>1. n \in Nat /\ n <= Length(arrived) - arrived.byte /\ n > 0
      BY <2>2, <2>3
    <3>2. CASE arrived.byte + n = Length(arrived)
      <4>1. arrived' = [frame |-> arrived.frame + 1, byte |-> 0]
        BY <2>2, <3>2 DEF Forward
      <4>2. arrived.frame + 1 < Len(sent) => 0 < Length(arrived)'
        <5>1. arrived.frame + 1 < Len(sent) => FrameAt(arrived)' \in Msgs
          BY <2>1, <4>1 DEF FrameAt
        <5>2. \A m \in Msgs : 0 < Header + Size[m]
          OBVIOUS
        <5> QED BY <5>1, <5>2, Zenon DEF Length
      <4> QED BY <2>1, <2>3, <4>1, <4>2 DEF ArrivedOK
    <3>3. CASE arrived.byte + n # Length(arrived)
      <4>1. arrived' = [arrived EXCEPT !.byte = @ + n]
        BY <2>2, <3>3 DEF Forward
      <4>2. arrived'.frame = arrived.frame /\ arrived'.byte = arrived.byte + n
        BY <4>1
      <4>3. FrameAt(arrived)' = FrameAt(arrived)
        BY <2>1, <4>2 DEF FrameAt
      <4>4. Length(arrived)' = Length(arrived)
        BY <4>3, Zenon DEF Length
      <4>5. arrived.byte + n < Length(arrived)
        <5>1. arrived.byte \in Nat
          OBVIOUS
        <5> HIDE DEF Length, LinkInv
        <5> QED BY <2>3, <3>1, <3>3, <5>1
      <4>6. arrived' \in Positions
        <5>1. arrived.byte + n \in Nat
          BY <3>1
        <5> QED BY <4>1, <5>1
      <4> HIDE DEF Length
      <4> QED BY <2>1, <2>3, <3>1, <4>2, <4>4, <4>5, <4>6 DEF ArrivedOK
    <3> QED BY <3>2, <3>3
  <2>5. LinkTypeOK' /\ ReadOK'
    BY <2>1, <2>4 DEF ReadOK, FrameAt
  <2>6. StreamOK'
    BY <2>1 DEF StreamOK
  <2> QED BY <2>4, <2>5, <2>6
<1>3. CASE Cut
  BY <1>3
     DEF Cut, readVars, viewVars, ArrivedOK, ReadOK, StreamOK, Length, FrameAt
<1>4. CASE Fill
  <2>1. /\ UNCHANGED <<sent, owed, arrived, cut, part, thread, chan, notice,
                       held, got, ended>>
        /\ thread = "reads" /\ filled < Wanted
    BY <1>4, Zenon DEF Fill, netVars, viewVars
  <2>2. PICK n \in 1..Wanted : /\ n <= Available /\ n <= Wanted - filled
                               /\ filled' = filled + n
                               /\ pos' = [pos EXCEPT !.byte = @ + n]
    BY <1>4 DEF Fill
  <2>3. from' = 0
    BY <1>4 DEF Fill, ReadOK
  <2>4. /\ pos' \in Positions /\ pos'.frame = pos.frame
        /\ pos'.byte = pos.byte + n /\ n \in Nat
    <3>1. Wanted \in Nat
      <4>1. part = "payload" => FrameAt(pos) \in Msgs
        <5>1. pos.frame \in Nat
          OBVIOUS
        <5> QED BY <5>1 DEF ReadOK, FrameAt
      <4>2. Header \in Nat /\ \A m \in Msgs : Size[m] \in Nat
        OBVIOUS
      <4>3. CASE part = "header"
        BY <4>2, <4>3 DEF Wanted
      <4>4. CASE part = "payload"
        BY <4>1, <4>2, <4>4 DEF Wanted
      <4> QED BY <4>3, <4>4
    <3>2. n \in Nat /\ pos.byte + n \in Nat
      BY <3>1
    <3> QED BY <2>2, <3>2
  <2>5. LinkTypeOK'
    BY <2>1, <2>2, <2>3, <2>4
  <2>6. pos.frame < Len(sent)
    BY <2>2, <2>4 DEF Available, ReadOK, ArrivedOK
  <2>7. ReadOK'
    <3>1. pos'.frame = arrived'.frame => pos'.byte <= arrived'.byte
      BY <2>1, <2>2, <2>4 DEF Available, ReadOK
    <3>2. CASE part = "header"
      BY <2>1, <2>2, <2>3, <2>4, <3>1, <3>2 DEF ReadOK, Wanted
    <3>3. CASE part = "payload"
      <4>1. FrameAt(pos') = FrameAt(pos) /\ FrameAt(pos)' = FrameAt(pos')
        BY <2>1, <2>4 DEF FrameAt
      <4>2. filled' <= Size[FrameAt(pos)]
        <5>1. FrameAt(pos) \in Msgs
          BY <2>6 DEF FrameAt
        <5>2. Size[FrameAt(pos)] \in Nat /\ Wanted = Size[FrameAt(pos)]
          BY <3>3, <5>1 DEF Wanted
        <5> QED BY <2>2, <2>4, <5>2
      <4> QED BY <2>1, <2>2, <2>3, <2>4, <3>1, <3>3, <4>1, <4>2 DEF ReadOK
    <3> QED BY <3>2, <3>3
  <2>8. ArrivedOK' /\ StreamOK'
    BY <2>1, <2>4 DEF ArrivedOK, StreamOK, Length, FrameAt
  <2> QED BY <2>5, <2>7, <2>8
<1>5. CASE HeaderRead
  <2>1. /\ UNCHANGED <<sent, owed, arrived, cut, pos, from, chan, held, got,
                       ended>>
        /\ thread = "reads" /\ part = "header" /\ filled = Header
    BY <1>5, Zenon DEF HeaderRead, netVars, viewVars
  <2>2. part' = "payload" /\ filled' = 0 /\ UNCHANGED <<thread, notice>>
    BY <1>5 DEF HeaderRead, Misread, ReadOK
  <2>3. pos.byte = Header /\ pos.frame < Len(sent)
    BY <2>1 DEF ReadOK, ArrivedOK
  <2>4. ReadOK'
    BY <2>1, <2>2, <2>3 DEF ReadOK, FrameAt
  <2>5. LinkTypeOK' /\ ArrivedOK' /\ StreamOK'
    BY <2>1, <2>2 DEF ArrivedOK, StreamOK, Length, FrameAt
  <2> QED BY <2>4, <2>5
<1>6. CASE PayloadRead
  <2>1. /\ UNCHANGED <<sent, owed, arrived, cut, from, held, got, ended>>
        /\ thread = "reads" /\ part = "payload" /\ filled = Wanted
        /\ pos' = [frame |-> pos.frame + 1, byte |-> 0]
        /\ part' = "header" /\ filled' = 0
    BY <1>6, Zenon DEF PayloadRead, netVars, viewVars
  <2>2. /\ pos.frame < Len(sent) /\ FrameAt(pos) = sent[pos.frame + 1]
        /\ FrameAt(pos) \in Msgs
        /\ pos.byte = Length(pos)
    BY <2>1 DEF ReadOK, Wanted, FrameAt, Length
  <2>3. pos.frame < arrived.frame
    <3>1. pos.frame = arrived.frame => arrived.byte >= Length(arrived)
      BY <2>2 DEF ReadOK, Length, FrameAt
    <3>2. Length(arrived) \in Nat \/ arrived.frame >= Len(sent)
      BY DEF Length, FrameAt
    <3> QED BY <2>2, <3>1, <3>2 DEF ReadOK, ArrivedOK
  <2>4. \/ chan' = chan /\ notice' \in BOOLEAN /\ thread' = "last"
        \/ /\ held /\ chan' = Append(chan, FrameAt(pos))
           /\ UNCHANGED <<thread, notice>>
    BY <1>6 DEF PayloadRead, Stop
  <2>5. ReadOK' /\ ArrivedOK'
    BY <2>1, <2>3 DEF ReadOK, ArrivedOK, Length, FrameAt
  <2>6. CASE chan' = chan /\ notice' \in BOOLEAN /\ thread' = "last"
    <3>1. LinkTypeOK'
      BY <2>1, <2>6
    <3>2. StreamOK'
      BY <2>1, <2>6 DEF StreamOK
    <3> QED BY <2>5, <3>1, <3>2
  <2>7. CASE /\ held /\ chan' = Append(chan, FrameAt(pos))
             /\ UNCHANGED <<thread, notice>>
    <3>1. /\ chan' \in Seq(Msgs) /\ Len(chan') = Len(chan) + 1
          /\ \A i \in 1..Len(chan) : chan'[i] = chan[i]
          /\ chan'[Len(chan) + 1] = FrameAt(pos)
      <4>1. chan \in Seq(Msgs) /\ FrameAt(pos) \in Msgs
        BY <2>2
      <4> HIDE DEF LinkInv
      <4> QED BY <2>7, <4>1, AppendKeeps
    <3>2. LinkTypeOK'
      BY <2>1, <2>7, <3>1
    <3>3. Len(got) + Len(chan) = pos.frame
      BY <2>1, <2>7 DEF StreamOK
    <3>4. \A i \in 1..Len(chan') : chan'[i] = sent[Len(got) + i]
      <4> TAKE i \in 1..Len(chan')
      <4>1. CASE i \in 1..Len(chan)
        BY <3>1, <4>1 DEF StreamOK
      <4>2. CASE i = Len(chan) + 1
        BY <2>2, <3>1, <3>3, <4>2
      <4> QED BY <3>1, <4>1, <4>2
    <3>5. StreamOK'
      <4>1. Len(got') + Len(chan') = pos'.frame
        BY <2>1, <3>1, <3>3
      <4>2. \A i \in 1..Len(got') : got'[i] = sent'[i]
        BY <2>1 DEF StreamOK
      <4>3. \A i \in 1..Len(chan') : chan'[i] = sent'[Len(got') + i]
        BY <2>1, <3>4
      <4>4. Len(got') + Len(chan') <= pos'.frame /\ held'
        BY <2>1, <2>7, <4>1
      <4> HIDE DEF LinkInv, LinkTypeOK, Positions
      <4> QED BY <4>1, <4>2, <4>3, <4>4 DEF StreamOK
    <3> QED BY <2>5, <3>2, <3>5
  <2> QED BY <2>4, <2>6, <2>7
<1>7. CASE GiveUp
  <2>1. UNCHANGED <<sent, owed, arrived, cut, pos, part, filled, from, chan,
                    held, got, ended>>
    BY <1>7, Zenon DEF GiveUp, netVars, readVars, viewVars
  <2>2. thread' = "last" /\ notice' \in BOOLEAN
    BY <1>7 DEF GiveUp, Stop
  <2> QED BY <2>1, <2>2 DEF ArrivedOK, ReadOK, StreamOK, Length, FrameAt
<1>8. CASE Panic
  <2>1. UNCHANGED <<sent, owed, arrived, cut, pos, part, filled, from, chan,
                    held, got, ended>>
    BY <1>8, Zenon DEF Panic, netVars, readVars, viewVars
  <2>2. thread' = "last" /\ notice' \in BOOLEAN
    BY <1>8 DEF Panic, Stop
  <2> QED BY <2>1, <2>2 DEF ArrivedOK, ReadOK, StreamOK, Length, FrameAt
<1>9. CASE ThreadGone
  BY <1>9 DEF ThreadGone, netVars, readVars, viewVars, ArrivedOK, ReadOK,
              StreamOK, Length, FrameAt
<1>10. CASE Drain
  <2>1. /\ UNCHANGED <<sent, owed, arrived, cut, pos, part, filled, from,
                       thread, held>>
        /\ got' = got \o chan /\ chan' = <<>> /\ notice' = FALSE
        /\ ended' \in BOOLEAN
    BY <1>10 DEF Drain, netVars, readVars
  <2>2. Len(got) + Len(chan) <= Len(sent)
    BY DEF StreamOK, ReadOK, ArrivedOK
  <2>3. /\ got' \in Seq(Msgs) /\ Len(got') = Len(got) + Len(chan)
        /\ \A i \in 1..Len(got') : got'[i] = sent[i]
    <3>1. /\ sent \in Seq(Msgs) /\ got \in Seq(Msgs) /\ chan \in Seq(Msgs)
          /\ \A i \in 1..Len(got) : got[i] = sent[i]
          /\ \A i \in 1..Len(chan) : chan[i] = sent[Len(got) + i]
      BY DEF StreamOK
    <3>2. /\ got \o chan \in Seq(Msgs) /\ Len(got \o chan) = Len(got) + Len(chan)
          /\ \A i \in 1..Len(got \o chan) : (got \o chan)[i] = sent[i]
      <4> HIDE DEF LinkInv, LinkTypeOK
      <4> QED BY <2>2, <3>1, JoinIsPrefix, SMTT(30)
    <3> HIDE DEF LinkInv
    <3> QED BY <2>1, <3>2, SMTT(30)
  <2>4. LinkTypeOK'
    <3>1. got' \in Seq(Msgs) /\ chan' \in Seq(Msgs)
      BY <2>1, <2>3
    <3> QED BY <2>1, <3>1
  <2>5. StreamOK'
    BY <2>1, <2>3 DEF StreamOK
  <2>6. ArrivedOK' /\ ReadOK'
    BY <2>1 DEF ArrivedOK, ReadOK, Length, FrameAt
  <2> QED BY <2>4, <2>5, <2>6
<1>11. CASE SendFails
  BY <1>11 DEF SendFails, readVars, ArrivedOK, ReadOK, StreamOK, Length,
               FrameAt
<1>12. CASE Replace
  <2>1. /\ UNCHANGED <<sent, arrived, cut, pos, part, filled, from, thread, got,
                       ended>>
        /\ held' = FALSE /\ chan' = <<>> /\ notice' = FALSE /\ owed' = TRUE
    BY <1>12 DEF Replace, readVars
  <2>2. chan' \in Seq(Msgs) /\ Len(chan') = 0
    BY <2>1
  <2>3. LinkTypeOK'
    BY <2>1, <2>2
  <2>4. ArrivedOK' /\ ReadOK'
    BY <2>1 DEF ArrivedOK, ReadOK, Length, FrameAt
  <2>5. StreamOK'
    BY <2>1, <2>2 DEF StreamOK
  <2> QED BY <2>3, <2>4, <2>5
<1>13. CASE UNCHANGED linkVars
  BY <1>13 DEF linkVars, ArrivedOK, ReadOK, StreamOK, Length, FrameAt
<1> QED
  BY <1>1, <1>2, <1>3, <1>4, <1>5, <1>6, <1>7, <1>8, <1>9, <1>10, <1>11,
     <1>12, <1>13, Zenon DEF LinkNext

\* Every variable of a link keeps its type, whatever the server writes and
\* whenever the connection is cut or replaced.
THEOREM LinkTypeCorrect == LinkSpec => []LinkTypeOK
<1>1. LinkInv => LinkTypeOK
  BY DEF LinkInv
<1> QED BY InitInv, StepInv, <1>1, PTL DEF LinkSpec, LinkSafe

\* However the bytes arrive, every length is read from the first byte of a
\* frame: a timeout between two bytes never loses the place in the stream.
THEOREM Aligned == LinkSpec => []StaysAligned
<1>1. LinkInv => StaysAligned
  BY DEF LinkInv, ReadOK, StaysAligned
<1> QED BY InitInv, StepInv, <1>1, PTL DEF LinkSpec, LinkSafe

-----------------------------------------------------------------------------
(* The link implements the pipe.                                           *)

LEMMA InitIsPipe == LinkInit => P!PipeInit
BY DEF LinkInit, P!PipeInit

\* A drain that hands messages over is Get, one that only learns of the end is
\* End; Write is Put; Replace and SendFails are End; the rest is unseen.
LEMMA StepIsPipe ==
  LinkInv /\ [LinkNext]_linkVars => [P!PipeNext]_(P!pipeVars)
<1> SUFFICES ASSUME LinkInv, [LinkNext]_linkVars
             PROVE  P!PipeNext \/ UNCHANGED P!pipeVars
  BY Zenon
<1> USE DEF LinkInv, LinkTypeOK
<1>1. ASSUME NEW m \in Msgs, Write(m) PROVE P!PipeNext
  BY <1>1 DEF Write, viewVars, P!PipeNext, P!Put
<1>2. CASE Drain
  <2>1. /\ got' = got \o chan /\ UNCHANGED <<sent, held>>
        /\ held /\ ~ended /\ ended' \in BOOLEAN
        /\ chan = <<>> => ended'
    BY <1>2 DEF Drain, netVars
  <2>2. Len(got) + Len(chan) <= Len(sent)
    BY DEF StreamOK, ReadOK, ArrivedOK, Positions
  <2>3. CASE chan = <<>>
    <3>1. got' = got
      BY <2>1, <2>3, ConcatEmptySeq
    <3> QED BY <2>1, <2>3, <3>1 DEF P!PipeNext, P!End
  <2>4. CASE chan # <<>>
    <3>1. got' = SubSeq(sent, 1, Len(got) + Len(chan))
      <4>1. /\ sent \in Seq(Msgs) /\ got \in Seq(Msgs) /\ chan \in Seq(Msgs)
            /\ \A i \in 1..Len(got) : got[i] = sent[i]
            /\ \A i \in 1..Len(chan) : chan[i] = sent[Len(got) + i]
        BY DEF StreamOK
      <4> HIDE DEF LinkInv
      <4> QED BY <2>1, <2>2, <4>1, JoinIsPrefix
    <3>2. Len(got) + Len(chan) \in (Len(got) + 1)..Len(sent)
      BY <2>2, <2>4
    <3>3. P!Get
      BY <2>1, <3>1, <3>2 DEF P!Get
    <3> QED BY <3>3 DEF P!PipeNext
  <2> QED BY <2>3, <2>4
<1>3. CASE SendFails \/ Replace
  BY <1>3 DEF SendFails, Replace, readVars, P!PipeNext, P!End
<1>4. CASE Arrive \/ Cut \/ ThreadGone
  BY <1>4 DEF Arrive, Cut, ThreadGone, netVars, readVars, viewVars, P!pipeVars
<1>5. CASE Fill \/ HeaderRead \/ PayloadRead
  BY <1>5, Zenon DEF Fill, HeaderRead, PayloadRead, netVars, readVars, viewVars,
                     P!pipeVars
<1>6. CASE GiveUp \/ Panic
  BY <1>6 DEF GiveUp, Panic, netVars, readVars, viewVars, P!pipeVars
<1>7. CASE UNCHANGED linkVars
  BY <1>7 DEF linkVars, P!pipeVars
<1> QED
  BY <1>1, <1>2, <1>3, <1>4, <1>5, <1>6, <1>7, Zenon DEF LinkNext

\* What the view is given is at every moment an unbroken start of what the
\* server sent, nothing more once the link is over: the link is a pipe.
THEOREM LinkIsPipe == LinkSpec => KeepsOrder
BY InitIsPipe, InitInv, StepInv, StepIsPipe, PTL
   DEF LinkSpec, LinkSafe, KeepsOrder, P!PipeSafe
=============================================================================

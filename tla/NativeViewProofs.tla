-------------------------- MODULE NativeViewProofs --------------------------
(***************************************************************************)
(* The view of the native client, proved for any number of plugins, any    *)
(* cap on their screens, any number of commands, pushes and reconnections: *)
(* the view keeps its types and the cap (ViewTypeOK), and the server is    *)
(* never told to restart more often than the user began to                 *)
(* (RestartsBegun).                                                        *)
(***************************************************************************)
EXTENDS NativeView, FoldLemmas

-----------------------------------------------------------------------------
(* What the view holds and what reaches it.                                *)

ScreenNames == {"prompt", "confirm", "plugin", "report"}
Questions == {"nothing", "name", "kill", "restart", "plugin"}
Outcomes == {"safe", "unsafe", "cannot"}
Messages == {SpecMsg(spec) : spec \in Specs} \cup {CloseMsg(id) : id \in Plugins}
              \cup {CheckMsg(outcome) : outcome \in Outcomes}
ViewRecords == [stack : Seq(ScreenNames), asking : Questions, pick : {"yes", "no"},
                specs : Seq(Specs), gate : BOOLEAN, pending : Seq(Commands)]
Views == {v \in ViewRecords : Len(v.specs) <= MaxSpecs}

\* Taking out the screens of a plugin leaves screens, and not more.
LEMMA WithoutPluginType ==
  ASSUME NEW specs \in Seq(Specs), NEW id
  PROVE  /\ WithoutPlugin(specs, id) \in Seq(Specs)
         /\ Len(WithoutPlugin(specs, id)) <= Len(specs)
<1> DEFINE n == Len(specs)
           Keep(kept, s) == IF s.id = id THEN kept ELSE Append(kept, s)
           Fits(g) == g = [s \in SUBSET (DOMAIN specs) |->
                        IF s = {} THEN <<>> ELSE Keep(g[s \ {Max(s)}], specs[Max(s)])]
           it == CHOOSE g : Fits(g)
<1>1. n \in Nat /\ DOMAIN specs = 1..n /\ specs \in [1..n -> Specs]
  OBVIOUS
<1>2. \E g : Fits(g)
  <2> DEFINE st == [x \in Seq(Specs) \X Specs |-> Keep(x[1], x[2])]
  <2>1. st \in [Seq(Specs) \X Specs -> Seq(Specs)]
    OBVIOUS
  <2>2. \A a \in Seq(Specs), b \in Specs : st[<<a, b>>] = Keep(a, b)
    OBVIOUS
  <2> HIDE DEF st
  <2>3. <<>> \in Seq(Specs)
    OBVIOUS
  <2>4. PICK g \in [SUBSET (1..n) -> Seq(Specs)] : Way(g, st, <<>>, specs, n)
    <3> DEFINE V == Seq(Specs)  none == <<>>
    <3>1. n \in Nat /\ specs \in [1..n -> Specs] /\ none \in V /\ st \in [V \X Specs -> V]
      BY <1>1, <2>1
    <3> HIDE DEF n, V, none
    <3>2. \E g \in [SUBSET (1..n) -> V] : Way(g, st, none, specs, n)
      BY <3>1, FoldExists, Zenon
    <3> QED BY <3>2 DEF V, none
  <2> HIDE DEF n, Keep
  <2>5. ASSUME NEW s \in SUBSET (1..n)
        PROVE  g[s] = IF s = {} THEN <<>> ELSE Keep(g[s \ {Max(s)}], specs[Max(s)])
    <3>1. CASE s = {}
      BY <2>4, <3>1 DEF Way
    <3>2. CASE s # {}
      <4>1. Max(s) \in 1..n
        BY <1>1, <3>2, MaxIsMember
      <4>2. g[s \ {Max(s)}] \in Seq(Specs) /\ specs[Max(s)] \in Specs
        BY <1>1, <4>1
      <4> QED BY <2>2, <2>4, <3>2, <4>2 DEF Way
    <3> QED BY <3>1, <3>2
  <2>6. g = [s \in SUBSET (1..n) |-> g[s]]
    OBVIOUS
  <2>7. Fits(g)
    BY <1>1, <2>5, <2>6, Zenon
  <2> QED BY <2>7
<1>3. Fits(it)
  <2> HIDE DEF Fits
  <2> QED BY <1>2, Zenon
<1>4. WithoutPlugin(specs, id) = it[1..n]
  BY <1>1, Zenon DEF WithoutPlugin, FoldLeft, MapThenFoldSet
<1> HIDE DEF it, Keep
<1>5. \A s \in SUBSET (1..n) :
        it[s] = IF s = {} THEN <<>> ELSE Keep(it[s \ {Max(s)}], specs[Max(s)])
  BY <1>1, <1>3, Zenon
<1> HIDE DEF n
<1> DEFINE S == {k \in 0..n : it[1..k] \in Seq(Specs) /\ Len(it[1..k]) <= k}
<1>6. 0 \in S
  <2>1. 1..0 = {}
    OBVIOUS
  <2>2. it[1..0] = <<>>
    BY <1>1, <1>5, <2>1
  <2>3. it[1..0] \in Seq(Specs) /\ Len(it[1..0]) <= 0
    BY <2>2
  <2>4. 0 \in 0..n
    BY <1>1
  <2> QED BY <2>3, <2>4
<1>7. ASSUME NEW k \in 1..n, k - 1 \in S
      PROVE  k \in S
  <2>1. it[1..k] = Keep(it[1..(k - 1)], specs[k])
    <3>1. 1..k \in SUBSET (1..n) /\ k \in Nat /\ k >= 1
      BY <1>1
    <3>2. it[1..k] = Keep(it[(1..k) \ {Max(1..k)}], specs[Max(1..k)])
      BY <1>5, <3>1, UpToStep
    <3> QED BY <3>1, <3>2, UpToStep
  <2>2. specs[k] \in Specs /\ k \in 0..n /\ k \in Nat
    BY <1>1
  <2> DEFINE was == it[1..(k - 1)]  now == it[1..k]
  <2>3. was \in Seq(Specs) /\ Len(was) <= k - 1
    BY <1>7
  <2>4. now = was \/ now = Append(was, specs[k])
    BY <2>1 DEF Keep
  <2> HIDE DEF was, now
  <2>5. now \in Seq(Specs) /\ Len(now) <= k
    BY <2>2, <2>3, <2>4
  <2> QED BY <2>2, <2>5 DEF now
<1> HIDE DEF S
<1>8. n \in S
  BY <1>1, <1>6, <1>7, Climb
<1> QED BY <1>4, <1>8 DEF S, n

-----------------------------------------------------------------------------
(* Restarts that a view may still queue.                                   *)

Asked(v) == IF v.asking = "restart" THEN 1 ELSE 0
Gated(v) == IF v.gate THEN 1 ELSE 0
Owed(v) == Restarting(v.pending) + Asked(v) + Gated(v)

\* w is what one step makes of the view v: the queue has lost no restart, and
\* no more restarts are queued, asked for or gated than there were.
Follows(w, v) ==
  /\ w \in Views
  /\ Restarting(w.pending) >= Restarting(v.pending)
  /\ Owed(w) <= Owed(v)

LEMMA RestartingType ==
  ASSUME NEW q \in Seq(Commands)
  PROVE  Restarting(q) \in Nat
<1> DEFINE R == {i \in DOMAIN q : q[i] = Plain("restart")}
<1>1. R \subseteq 1..Len(q) /\ Len(q) \in Nat
  OBVIOUS
<1> HIDE DEF R
<1>2. IsFiniteSet(R)
  <2>1. IsFiniteSet(1..Len(q))
    BY <1>1, FS_Interval
  <2> QED BY <1>1, <2>1, FS_Subset
<1>3. Cardinality(R) \in Nat
  BY <1>2, FS_CardinalityType
<1> QED BY <1>3 DEF R, Restarting

LEMMA RestartingNone == Restarting(<<>>) = 0
<1>1. {i \in DOMAIN <<>> : <<>>[i] = Plain("restart")} = {}
  OBVIOUS
<1> QED BY <1>1, FS_EmptySet DEF Restarting

LEMMA RestartingAppend ==
  ASSUME NEW q \in Seq(Commands), NEW c \in Commands
  PROVE  Restarting(Append(q, c)) = Restarting(q) + (IF c = Plain("restart") THEN 1 ELSE 0)
<1> DEFINE R == {i \in DOMAIN q : q[i] = Plain("restart")}
           more == Append(q, c)
           T == {i \in DOMAIN more : more[i] = Plain("restart")}
           n == Len(q) + 1
<1>1. R \subseteq 1..Len(q) /\ Len(q) \in Nat /\ n \notin R
  OBVIOUS
<1>2. /\ DOMAIN q = 1..Len(q) /\ DOMAIN more = 1..n
      /\ more[n] = c /\ \A i \in 1..Len(q) : more[i] = q[i]
  OBVIOUS
<1>3. T = IF c = Plain("restart") THEN R \cup {n} ELSE R
  <2> HIDE DEF more
  <2> QED BY <1>1, <1>2
<1>4. Restarting(q) = Cardinality(R) /\ Restarting(more) = Cardinality(T)
  BY DEF Restarting
<1> HIDE DEF R, T, n, more
<1>5. IsFiniteSet(R)
  <2>1. IsFiniteSet(1..Len(q))
    BY <1>1, FS_Interval
  <2> QED BY <1>1, <2>1, FS_Subset
<1>6. Cardinality(R) \in Nat /\ Cardinality(R \cup {n}) = Cardinality(R) + 1
  BY <1>1, <1>5, FS_CardinalityType, FS_AddElement
<1> QED BY <1>3, <1>4, <1>6 DEF more

LEMMA CommandTypes ==
  /\ \A c \in {"rename", "kill", "restart", "check", "open"} : Plain(c) \in Commands
  /\ \A id \in Plugins : PluginAction(id) \in Commands /\ PluginAction(id) # Plain("restart")
  /\ \A c \in {"rename", "kill", "check", "open"} : Plain(c) # Plain("restart")
BY DEF Commands, Plain, PluginAction

LEMMA OwedType ==
  ASSUME NEW v \in Views
  PROVE  /\ Restarting(v.pending) \in Nat /\ Asked(v) \in 0..1 /\ Gated(v) \in 0..1
         /\ Owed(v) \in Nat
<1>1. v.pending \in Seq(Commands)
  BY DEF Views, ViewRecords
<1> QED BY <1>1, RestartingType DEF Owed, Asked, Gated

LEMMA FollowsReflexive ==
  ASSUME NEW v \in Views
  PROVE  Follows(v, v)
BY OwedType DEF Follows

LEMMA FollowsTransitive ==
  ASSUME NEW v \in Views, NEW w, NEW x, Follows(w, v), Follows(x, w)
  PROVE  Follows(x, v)
<1>1. w \in Views /\ x \in Views
  BY DEF Follows
<1> QED BY <1>1, OwedType DEF Follows

-----------------------------------------------------------------------------
(* One lemma per operation of the view.                                    *)

LEMMA FrontType ==
  ASSUME NEW S, NEW q \in Seq(S), q # <<>>
  PROVE  Front(q) \in Seq(S) /\ Len(Front(q)) = Len(q) - 1 /\ Last(q) \in S
<1>1. Len(q) \in Nat /\ Len(q) >= 1
  OBVIOUS
<1>2. \A i \in 1..(Len(q) - 1) : q[i] \in S
  BY <1>1
<1>3. Front(q) \in Seq(S) /\ Len(Front(q)) = Len(q) - 1
  <2> DEFINE m == 1  n == Len(q) - 1  sub == SubSeq(q, m, n)
  <2>1. m \in Int /\ n \in Int /\ n >= 0 /\ \A i \in m..n : q[i] \in S
    BY <1>1, <1>2
  <2> HIDE DEF n
  <2>2. sub \in Seq(S) /\ Len(sub) = IF m <= n THEN n - m + 1 ELSE 0
    <3> HIDE DEF m
    <3> QED BY <2>1, SubSeqProperties
  <2>3. Front(q) = sub
    BY DEF Front, n
  <2> HIDE DEF sub
  <2>4. Len(sub) = n
    BY <2>1, <2>2
  <2> QED BY <2>2, <2>3, <2>4 DEF n
<1>4. Last(q) \in S
  BY <1>1, ElementOfSeq DEF Last
<1> QED BY <1>3, <1>4

LEMMA OpenFollows ==
  ASSUME NEW v \in Views, NEW screen \in ScreenNames
  PROVE  /\ Follows(Open(v, screen), v)
         /\ Open(v, screen).asking = "nothing"
         /\ Open(v, screen).pending = v.pending /\ Open(v, screen).gate = v.gate
<1> DEFINE st == IF Top(v) = screen THEN Front(v.stack) ELSE Append(v.stack, screen)
<1>1. v.stack \in Seq(ScreenNames)
  BY DEF Views, ViewRecords
<1>2. st \in Seq(ScreenNames)
  BY <1>1, FrontType DEF Top, ScreenNames
<1>3. Open(v, screen) = [v EXCEPT !.asking = "nothing", !.stack = st]
  BY DEF Views, ViewRecords, Open
<1>4. "nothing" \in Questions
  BY DEF Questions
<1> HIDE DEF st
<1>5. /\ Open(v, screen) \in Views /\ Open(v, screen).asking = "nothing"
      /\ Open(v, screen).pending = v.pending /\ Open(v, screen).gate = v.gate
  BY <1>2, <1>3, <1>4 DEF Views, ViewRecords
<1> QED BY <1>5, OwedType DEF Follows, Owed, Asked, Gated

LEMMA CloseTopFollows ==
  ASSUME NEW v \in Views
  PROVE  /\ Follows(CloseTop(v), v)
         /\ CloseTop(v).asking = "nothing"
         /\ CloseTop(v).pending = v.pending /\ CloseTop(v).gate = v.gate
         /\ CloseTop(v).specs = v.specs
<1> DEFINE st == IF v.stack = <<>> THEN v.stack ELSE Front(v.stack)
<1>1. v.stack \in Seq(ScreenNames)
  BY DEF Views, ViewRecords
<1>2. st \in Seq(ScreenNames)
  BY <1>1, FrontType
<1>3. CloseTop(v) = [v EXCEPT !.asking = "nothing", !.stack = st]
  BY DEF Views, ViewRecords, CloseTop
<1>4. "nothing" \in Questions
  BY DEF Questions
<1> HIDE DEF st
<1>5. /\ CloseTop(v) \in Views /\ CloseTop(v).asking = "nothing"
      /\ CloseTop(v).pending = v.pending /\ CloseTop(v).gate = v.gate
      /\ CloseTop(v).specs = v.specs
  BY <1>2, <1>3, <1>4 DEF Views, ViewRecords
<1> QED BY <1>5, OwedType DEF Follows, Owed, Asked, Gated

\* A question that asks for something else than a restart asks for none.
LEMMA AskFollows ==
  ASSUME NEW v \in Views, NEW question \in Questions \ {"restart"}
  PROVE  Follows(Ask(v, question), v)
<1> DEFINE o == Open(v, "prompt")
<1>1. /\ o \in Views /\ o.pending = v.pending /\ o.gate = v.gate
      /\ Ask(v, question) = [o EXCEPT !.asking = question]
  BY OpenFollows DEF Follows, ScreenNames, Ask
<1> HIDE DEF o
<1>2. /\ Ask(v, question) \in Views /\ Ask(v, question).pending = v.pending
      /\ Ask(v, question).gate = v.gate /\ Ask(v, question).asking = question
  BY <1>1 DEF Views, ViewRecords
<1> QED BY <1>2, OwedType DEF Follows, Owed, Asked, Gated

LEMMA ConfirmIs ==
  ASSUME NEW v \in Views, NEW question \in Questions
  PROVE  /\ Confirm(v, question) \in Views /\ Confirm(v, question).pending = v.pending
         /\ Confirm(v, question).gate = v.gate /\ Confirm(v, question).asking = question
<1> DEFINE o == Open(v, "confirm")
<1>1. /\ o \in Views /\ o.pending = v.pending /\ o.gate = v.gate
      /\ Confirm(v, question) = [o EXCEPT !.asking = question, !.pick = "no"]
  BY OpenFollows DEF Follows, ScreenNames, Confirm
<1> HIDE DEF o
<1> QED BY <1>1 DEF Views, ViewRecords

LEMMA ConfirmFollows ==
  ASSUME NEW v \in Views, NEW question \in Questions \ {"restart"}
  PROVE  Follows(Confirm(v, question), v)
BY ConfirmIs, OwedType DEF Follows, Owed, Asked, Gated

\* One more command in the queue: a restart is one that was owed, or one more.
LEMMA QueueIs ==
  ASSUME NEW v \in Views, NEW command \in Commands
  PROVE  /\ Queue(v, command) \in Views
         /\ Queue(v, command).asking = v.asking /\ Queue(v, command).gate = v.gate
         /\ Restarting(Queue(v, command).pending) =
              Restarting(v.pending) + (IF command = Plain("restart") THEN 1 ELSE 0)
<1>1. v.pending \in Seq(Commands)
  BY DEF Views, ViewRecords
<1> DEFINE q == Append(v.pending, command)
<1>3. q \in Seq(Commands) /\ Queue(v, command) = [v EXCEPT !.pending = q]
  BY <1>1 DEF Queue
<1> HIDE DEF q
<1>4. /\ Queue(v, command) \in Views
      /\ Queue(v, command).asking = v.asking /\ Queue(v, command).gate = v.gate
      /\ Queue(v, command).pending = q
  BY <1>3 DEF Views, ViewRecords
<1>2. /\ Queue(v, command) \in Views
      /\ Queue(v, command).asking = v.asking /\ Queue(v, command).gate = v.gate
      /\ Queue(v, command).pending = Append(v.pending, command)
  BY <1>4 DEF q
<1> QED BY <1>1, <1>2, RestartingAppend

LEMMA QueueFollows ==
  ASSUME NEW v \in Views, NEW command \in Commands, command # Plain("restart")
  PROVE  Follows(Queue(v, command), v)
BY QueueIs, OwedType DEF Follows, Owed, Asked, Gated

LEMMA AnswerPluginFollows ==
  ASSUME NEW v \in Views, NEW answered \in BOOLEAN
  PROVE  Follows(AnswerPlugin(v, answered), v)
<1>1. CASE v.specs = <<>>
  BY <1>1, FollowsReflexive DEF AnswerPlugin
<1>2. CASE v.specs # <<>>
  <2> DEFINE w == [v EXCEPT !.specs = Front(v.specs)]
             id == Last(v.specs).id
  <2>1. v.specs \in Seq(Specs) /\ Len(v.specs) <= MaxSpecs /\ v.specs # <<>>
    BY <1>2 DEF Views, ViewRecords
  <2>2. /\ Front(v.specs) \in Seq(Specs) /\ Len(Front(v.specs)) <= MaxSpecs
        /\ Last(v.specs) \in Specs
    BY <2>1, FrontType, ViewAssumption
  <2>3. /\ w \in Views /\ w.pending = v.pending /\ w.gate = v.gate /\ w.asking = v.asking
    BY <2>2 DEF Views, ViewRecords
  <2>4. PluginAction(id) \in Commands /\ PluginAction(id) # Plain("restart")
    BY <2>2, CommandTypes DEF Specs
  <2>5. AnswerPlugin(v, answered) = IF answered THEN Queue(w, PluginAction(id)) ELSE w
    BY <1>2 DEF AnswerPlugin, Views, ViewRecords
  <2> HIDE DEF w, id
  <2>6. Follows(w, v)
    BY <2>3, OwedType DEF Follows, Owed, Asked, Gated
  <2>7. Follows(Queue(w, PluginAction(id)), w)
    BY <2>3, <2>4, QueueFollows
  <2> QED BY <2>5, <2>6, <2>7, FollowsTransitive
<1> QED BY <1>1, <1>2


\* A change of the plugin screens alone.
LEMMA SpecsFollow ==
  ASSUME NEW v \in Views, NEW sp \in Seq(Specs), Len(sp) <= MaxSpecs
  PROVE  Follows([v EXCEPT !.specs = sp], v)
<1> DEFINE w == [v EXCEPT !.specs = sp]
<1>1. w \in Views /\ w.pending = v.pending /\ w.gate = v.gate /\ w.asking = v.asking
  BY DEF Views, ViewRecords
<1> HIDE DEF w
<1>2. Follows(w, v)
  BY <1>1, OwedType DEF Follows, Owed, Asked, Gated
<1> QED BY <1>2 DEF w

LEMMA OpenPluginViewFollows ==
  ASSUME NEW v \in Views
  PROVE  Follows(OpenPluginView(v), v)
BY OpenFollows, FollowsReflexive DEF OpenPluginView, ScreenNames

\* The question was asked once, and its answer takes the question away.
LEMMA AnswerFollows ==
  ASSUME NEW v \in Views
  PROVE  Follows(Answer(CloseTop(v), v.asking), v)
<1> DEFINE w == CloseTop(v)
<1>1. Follows(w, v) /\ w \in Views
  BY CloseTopFollows DEF Follows
<1>2. w.asking = "nothing" /\ w.pending = v.pending /\ w.gate = v.gate
  BY CloseTopFollows
<1>3. v.asking \in Questions
  BY DEF Views, ViewRecords
<1> SUFFICES Follows(Answer(w, v.asking), v)
  OBVIOUS
<1> HIDE DEF w
<1>4. CASE v.asking = "name"
  <2>1. Answer(w, v.asking) = Queue(w, Plain("rename"))
    BY <1>4 DEF Answer
  <2> QED BY <1>1, <2>1, CommandTypes, QueueFollows, FollowsTransitive
<1>5. CASE v.asking = "kill"
  <2>1. Answer(w, v.asking) = Queue(w, Plain("kill"))
    BY <1>5 DEF Answer
  <2> QED BY <1>1, <2>1, CommandTypes, QueueFollows, FollowsTransitive
<1>6. CASE v.asking = "plugin"
  <2>1. Answer(w, v.asking) = AnswerPlugin(w, TRUE)
    BY <1>6 DEF Answer
  <2> QED BY <1>1, <2>1, AnswerPluginFollows, FollowsTransitive
<1>7. CASE v.asking = "nothing"
  <2>1. Answer(w, v.asking) = w
    BY <1>7 DEF Answer
  <2> QED BY <1>1, <2>1
<1>8. CASE v.asking = "restart"
  <2> DEFINE x == Queue(w, Plain("restart"))
  <2>1. Answer(w, v.asking) = x
    BY <1>8 DEF Answer
  <2>2. Plain("restart") \in Commands
    BY CommandTypes
  <2>3. /\ x \in Views /\ x.asking = "nothing" /\ x.gate = v.gate
        /\ Restarting(x.pending) = Restarting(v.pending) + 1
    BY <1>1, <1>2, <2>2, QueueIs
  <2> HIDE DEF x
  <2> QED BY <1>8, <2>1, <2>3, OwedType DEF Follows, Owed, Asked, Gated
<1> QED BY <1>3, <1>4, <1>5, <1>6, <1>7, <1>8 DEF Questions

LEMMA DismissFollows ==
  ASSUME NEW v \in Views
  PROVE  Follows(Dismiss(v), v)
<1> DEFINE w == CloseTop(v)
           x == AnswerPlugin(w, FALSE)
<1>1. Follows(w, v) /\ w \in Views
  BY CloseTopFollows DEF Follows
<1>2. Follows(x, v) /\ x \in Views
  BY <1>1, AnswerPluginFollows, FollowsTransitive DEF Follows
<1>3. Follows(OpenPluginView(x), v)
  BY <1>2, OpenPluginViewFollows, FollowsTransitive
<1>4. Dismiss(v) \in {w, x, OpenPluginView(x)}
  BY DEF Dismiss
<1> QED BY <1>1, <1>2, <1>3, <1>4

LEMMA EnterFollows ==
  ASSUME NEW v \in Views, v.stack # <<>>
  PROVE  Follows(Enter(v), v)
<1> DEFINE w == CloseTop(v)
<1>1. Follows(w, v) /\ w \in Views
  BY CloseTopFollows DEF Follows
<1>2. v.stack \in Seq(ScreenNames) /\ v.specs \in Seq(Specs)
  BY DEF Views, ViewRecords
<1>3. Top(v) \in ScreenNames
  BY <1>2, FrontType DEF Top
<1>4. CASE Top(v) = "prompt"
  BY <1>4, AnswerFollows DEF Enter
<1>5. CASE Top(v) = "confirm"
  BY <1>5, AnswerFollows, DismissFollows DEF Enter
<1>6. CASE Top(v) = "report"
  BY <1>1, <1>6 DEF Enter
<1>7. CASE Top(v) = "plugin"
  <2>1. CASE v.specs = <<>>
    BY <1>1, <1>7, <2>1 DEF Enter
  <2>2. CASE v.specs # <<>>
    <3> DEFINE id == Last(v.specs).id
    <3>1. PluginAction(id) \in Commands /\ PluginAction(id) # Plain("restart")
      <4>1. Last(v.specs) \in Specs
        BY <1>2, <2>2, FrontType
      <4> QED BY <4>1, CommandTypes DEF Specs
    <3>2. Enter(v) = Queue(w, PluginAction(id))
      BY <1>7, <2>2 DEF Enter
    <3> HIDE DEF id, w
    <3> QED BY <1>1, <3>1, <3>2, QueueFollows, FollowsTransitive
  <2> QED BY <2>1, <2>2
<1> QED BY <1>3, <1>4, <1>5, <1>6, <1>7 DEF ScreenNames

-----------------------------------------------------------------------------
(* One lemma per message.                                                  *)

LEMMA ReceiveSpecFollows ==
  ASSUME NEW v \in Views, NEW spec \in Specs
  PROVE  Follows(ReceiveSpec(v, spec), v)
<1> DEFINE update == v.specs # <<>> /\ Last(v.specs) = spec
           kept == IF update THEN Front(v.specs)
                   ELSE IF Len(v.specs) >= MaxSpecs THEN Tail(v.specs) ELSE v.specs
           sp == Append(kept, spec)
           w == [v EXCEPT !.specs = sp]
<1>1. v.specs \in Seq(Specs) /\ Len(v.specs) <= MaxSpecs /\ MaxSpecs \in Nat \ {0}
  BY ViewAssumption DEF Views, ViewRecords
<1>2. kept \in Seq(Specs) /\ Len(kept) <= MaxSpecs - 1
  <2>1. CASE update
    BY <1>1, <2>1, FrontType
  <2>2. CASE ~update /\ Len(v.specs) >= MaxSpecs
    <3>1. v.specs # <<>>
      BY <1>1, <2>2
    <3> QED BY <1>1, <2>2, <3>1
  <2>3. CASE ~update /\ ~(Len(v.specs) >= MaxSpecs)
    BY <1>1, <2>3
  <2> QED BY <2>1, <2>2, <2>3
<1> HIDE DEF kept
<1>3. sp \in Seq(Specs) /\ Len(sp) <= MaxSpecs
  BY <1>1, <1>2
<1> HIDE DEF sp
<1>4. Follows(w, v) /\ w \in Views
  BY <1>3, SpecsFollow DEF Follows
<1>5. ReceiveSpec(v, spec) =
        CASE spec.kind = "prompt"  -> Ask(w, "plugin")
          [] spec.kind = "confirm" -> Confirm(w, "plugin")
          [] spec.kind = "list"    -> OpenPluginView(w)
  BY DEF ReceiveSpec, kept, sp
<1> HIDE DEF w
<1>6. spec.kind \in Kinds /\ "plugin" \in Questions \ {"restart"}
  BY DEF Specs, Questions
<1>7. Follows(Ask(w, "plugin"), v) /\ Follows(Confirm(w, "plugin"), v)
  BY <1>4, <1>6, AskFollows, ConfirmFollows, FollowsTransitive
<1>8. Follows(OpenPluginView(w), v)
  BY <1>4, OpenPluginViewFollows, FollowsTransitive
<1> QED BY <1>5, <1>6, <1>7, <1>8 DEF Kinds

LEMMA ReceiveCloseFollows ==
  ASSUME NEW v \in Views, NEW id
  PROVE  Follows(ReceiveClose(v, id), v)
<1> DEFINE sp == WithoutPlugin(v.specs, id)
           w == [v EXCEPT !.specs = sp]
<1>1. v.specs \in Seq(Specs) /\ Len(v.specs) <= MaxSpecs /\ MaxSpecs \in Nat \ {0}
  BY ViewAssumption DEF Views, ViewRecords
<1>2. sp \in Seq(Specs) /\ Len(sp) <= Len(v.specs)
  BY <1>1, WithoutPluginType
<1> HIDE DEF sp
<1>3. Len(sp) <= MaxSpecs
  BY <1>1, <1>2
<1>4. Follows(w, v) /\ w \in Views
  BY <1>2, <1>3, SpecsFollow DEF Follows
<1>5. ReceiveClose(v, id) \in {w, CloseTop(w)}
  BY DEF ReceiveClose, sp
<1> HIDE DEF w
<1> QED BY <1>4, <1>5, CloseTopFollows, FollowsTransitive

\* The reply to a dry run closes the gate, and what it opens instead is one
\* question or one restart.
LEMMA ReceiveCheckFollows ==
  ASSUME NEW v \in Views, NEW outcome \in Outcomes
  PROVE  Follows(ReceiveCheck(v, outcome), v)
<1>1. CASE ~v.gate
  BY <1>1, FollowsReflexive DEF ReceiveCheck
<1>2. CASE v.gate
  <2> DEFINE w == [v EXCEPT !.gate = FALSE]
  <2>1. w \in Views /\ w.pending = v.pending /\ w.asking = v.asking /\ w.gate = FALSE
    BY DEF Views, ViewRecords
  <2>2. ReceiveCheck(v, outcome) =
          CASE outcome = "safe"   -> Queue(w, Plain("restart"))
            [] outcome = "unsafe" -> Confirm(w, "restart")
            [] outcome = "cannot" -> w
    BY <1>2 DEF ReceiveCheck
  <2> HIDE DEF w
  <2>3. "restart" \in Questions /\ Plain("restart") \in Commands
    BY CommandTypes DEF Questions
  <2>4. CASE outcome = "safe"
    <3> DEFINE x == Queue(w, Plain("restart"))
    <3>1. /\ x \in Views /\ x.asking = v.asking /\ x.gate = FALSE
          /\ Restarting(x.pending) = Restarting(v.pending) + 1
      BY <2>1, <2>3, QueueIs
    <3> HIDE DEF x
    <3>2. Follows(x, v)
      BY <1>2, <3>1, OwedType DEF Follows, Owed, Asked, Gated
    <3> QED BY <2>2, <2>4, <3>2 DEF x
  <2>5. CASE outcome = "unsafe"
    <3> DEFINE x == Confirm(w, "restart")
    <3>1. x \in Views /\ x.asking = "restart" /\ x.gate = FALSE /\ x.pending = v.pending
      BY <2>1, <2>3, ConfirmIs
    <3> HIDE DEF x
    <3>2. Follows(x, v)
      BY <1>2, <3>1, OwedType DEF Follows, Owed, Asked, Gated
    <3> QED BY <2>2, <2>5, <3>2 DEF x
  <2>6. CASE outcome = "cannot"
    <3>1. Follows(w, v)
      BY <1>2, <2>1, OwedType DEF Follows, Owed, Asked, Gated
    <3> QED BY <2>2, <2>6, <3>1
  <2> QED BY <2>4, <2>5, <2>6 DEF Outcomes
<1> QED BY <1>1, <1>2

LEMMA ReceiveFollows ==
  ASSUME NEW v \in Views, NEW msg \in Messages
  PROVE  Follows(Receive(v, msg), v)
<1>1. CASE \E spec \in Specs : msg = SpecMsg(spec)
  <2>1. PICK spec \in Specs : msg = SpecMsg(spec)
    BY <1>1
  <2>2. Receive(v, msg) = ReceiveSpec(v, spec)
    BY <2>1 DEF Receive, SpecMsg
  <2> QED BY <2>2, ReceiveSpecFollows
<1>2. CASE \E id \in Plugins : msg = CloseMsg(id)
  <2>1. PICK id \in Plugins : msg = CloseMsg(id)
    BY <1>2
  <2>2. Receive(v, msg) = ReceiveClose(v, id)
    BY <2>1 DEF Receive, CloseMsg
  <2> QED BY <2>2, ReceiveCloseFollows
<1>3. CASE \E outcome \in Outcomes : msg = CheckMsg(outcome)
  <2>1. PICK outcome \in Outcomes : msg = CheckMsg(outcome)
    BY <1>3
  <2>2. Receive(v, msg) = ReceiveCheck(v, outcome)
    BY <2>1 DEF Receive, CheckMsg
  <2> QED BY <2>2, ReceiveCheckFollows
<1> QED BY <1>1, <1>2, <1>3 DEF Messages


\* What a pump applies: the messages one after the other.
LEMMA AppliedFollows ==
  ASSUME NEW v \in Views, NEW msgs \in Seq(Messages)
  PROVE  Follows(FoldLeft(Receive, v, msgs), v)
<1> DEFINE n == Len(msgs)
           Fits(g) == g = [s \in SUBSET (DOMAIN msgs) |->
                        IF s = {} THEN v ELSE Receive(g[s \ {Max(s)}], msgs[Max(s)])]
           it == CHOOSE g : Fits(g)
<1>1. n \in Nat /\ DOMAIN msgs = 1..n /\ msgs \in [1..n -> Messages]
  OBVIOUS
<1>2. \E g : Fits(g)
  <2> DEFINE st == [x \in Views \X Messages |-> Receive(x[1], x[2])]
  <2>1. \A a \in Views, b \in Messages : Receive(a, b) \in Views
    BY ReceiveFollows DEF Follows
  <2>2. st \in [Views \X Messages -> Views]
    BY <2>1
  <2>3. \A a \in Views, b \in Messages : st[<<a, b>>] = Receive(a, b)
    OBVIOUS
  <2> HIDE DEF st, n
  <2>4. PICK g \in [SUBSET (1..n) -> Views] : Way(g, st, v, msgs, n)
    BY <1>1, <2>2, FoldExists, Zenon
  <2>5. ASSUME NEW s \in SUBSET (1..n)
        PROVE  g[s] = IF s = {} THEN v ELSE Receive(g[s \ {Max(s)}], msgs[Max(s)])
    <3>1. CASE s = {}
      BY <2>4, <3>1 DEF Way
    <3>2. CASE s # {}
      <4>1. Max(s) \in 1..n
        BY <1>1, <3>2, MaxIsMember
      <4>2. g[s \ {Max(s)}] \in Views /\ msgs[Max(s)] \in Messages
        BY <1>1, <4>1
      <4> QED BY <2>3, <2>4, <3>2, <4>2 DEF Way
    <3> QED BY <3>1, <3>2
  <2>6. g = [s \in SUBSET (1..n) |-> g[s]]
    OBVIOUS
  <2>7. Fits(g)
    BY <1>1, <2>5, <2>6, Zenon
  <2> QED BY <2>7
<1>3. Fits(it)
  <2> HIDE DEF Fits
  <2> QED BY <1>2, Zenon
<1>4. FoldLeft(Receive, v, msgs) = it[1..n]
  BY <1>1, Zenon DEF FoldLeft, MapThenFoldSet
<1> HIDE DEF it
<1>5. \A s \in SUBSET (1..n) :
        it[s] = IF s = {} THEN v ELSE Receive(it[s \ {Max(s)}], msgs[Max(s)])
  BY <1>1, <1>3, Zenon
<1> HIDE DEF n
<1> DEFINE S == {k \in 0..n : Follows(it[1..k], v)}
<1>6. 0 \in S
  <2>1. 1..0 = {} /\ 0 \in 0..n
    BY <1>1
  <2>2. it[1..0] = v
    BY <1>1, <1>5, <2>1
  <2> QED BY <2>1, <2>2, FollowsReflexive
<1>7. ASSUME NEW k \in 1..n, k - 1 \in S
      PROVE  k \in S
  <2>1. 1..k \in SUBSET (1..n) /\ k \in Nat /\ k >= 1 /\ k \in 0..n
    BY <1>1
  <2>2. it[1..k] = Receive(it[(1..k) \ {Max(1..k)}], msgs[Max(1..k)])
    BY <1>5, <2>1, UpToStep
  <2>3. it[1..k] = Receive(it[1..(k - 1)], msgs[k])
    BY <2>1, <2>2, UpToStep
  <2> DEFINE was == it[1..(k - 1)]
  <2>4. Follows(was, v) /\ msgs[k] \in Messages
    BY <1>1, <1>7
  <2> HIDE DEF was
  <2>5. was \in Views
    BY <2>4 DEF Follows
  <2>6. Follows(Receive(was, msgs[k]), v)
    BY <2>4, <2>5, ReceiveFollows, FollowsTransitive
  <2> QED BY <2>1, <2>3, <2>6 DEF was
<1> HIDE DEF S
<1>8. n \in S
  BY <1>1, <1>6, <1>7, Climb
<1> QED BY <1>4, <1>8 DEF S

-----------------------------------------------------------------------------
(* The invariant.                                                          *)

\* What is on its way is well formed, and whatever may still become a restart
\* was begun and has not become one yet.
ViewInv ==
  /\ ui \in Views
  /\ up \in Seq(Commands) /\ down \in Seq(Messages)
  /\ pumping \in BOOLEAN /\ ended \in BOOLEAN /\ live \in BOOLEAN
  /\ link \in Nat /\ begun \in Nat /\ restarts \in Nat
  /\ events \in 0..MaxEvents
  /\ restarts + Asked(ui) + Gated(ui) <= begun

LEMMA CountType ==
  ASSUME events \in 0..MaxEvents, Count
  PROVE  events' \in 0..MaxEvents
BY ViewAssumption DEF Count

LEMMA ViewInvInit ==
  ASSUME Init
  PROVE  ViewInv
<1>1. ui \in Views
  <2>1. ui.specs = <<>> /\ Len(ui.specs) = 0
    BY DEF Init
  <2>2. ui \in ViewRecords
    BY DEF Init, ViewRecords, Questions
  <2> QED BY <2>1, <2>2, ViewAssumption DEF Views
<1>2. Asked(ui) = 0 /\ Gated(ui) = 0
  BY DEF Init, Asked, Gated
<1>3. up \in Seq(Commands) /\ down \in Seq(Messages)
  BY DEF Init
<1>4. /\ pumping \in BOOLEAN /\ ended \in BOOLEAN /\ live \in BOOLEAN
      /\ link \in Nat /\ begun = 0 /\ restarts = 0 /\ events = 0
  BY Zenon DEF Init
<1>5. events \in 0..MaxEvents
  BY <1>4, ViewAssumption
<1> QED BY <1>1, <1>2, <1>3, <1>4, <1>5 DEF ViewInv

\* A command of the user that begins no restart.
LEMMA ActKeeps ==
  ASSUME ViewInv, NEW v, Follows(v, ui),
         Restarting(v.pending) = Restarting(ui.pending), Act(v), UNCHANGED begun
  PROVE  ViewInv'
<1>1. v \in Views /\ Owed(v) <= Owed(ui) /\ Restarting(v.pending) = Restarting(ui.pending)
  BY DEF Follows
<1>2. Asked(v) + Gated(v) <= Asked(ui) + Gated(ui)
  <2>1. ui \in Views
    BY DEF ViewInv
  <2>2. /\ Restarting(v.pending) \in Nat /\ Asked(v) \in 0..1 /\ Gated(v) \in 0..1
        /\ Asked(ui) \in 0..1 /\ Gated(ui) \in 0..1
    BY <1>1, <2>1, OwedType
  <2>3. Restarting(v.pending) + Asked(v) + Gated(v)
          <= Restarting(v.pending) + Asked(ui) + Gated(ui)
    BY <1>1 DEF Owed
  <2> QED BY <2>2, <2>3
<1>3. events' \in 0..MaxEvents
  BY CountType DEF Act, ViewInv
<1> QED BY <1>1, <1>2, <1>3, OwedType DEF ViewInv, Act, netVars, Asked, Gated

\* The restarts a step queues are among those that were owed.
LEMMA BalanceKept ==
  ASSUME ViewInv, NEW v, Follows(v, ui),
         restarts' = restarts + Restarting(v.pending) - Restarting(ui.pending)
  PROVE  restarts' \in Nat /\ restarts' + Asked(v) + Gated(v) <= begun
<1>1. v \in Views /\ Owed(v) <= Owed(ui) /\ Restarting(v.pending) >= Restarting(ui.pending)
  BY DEF Follows
<1>2. /\ Restarting(v.pending) \in Nat /\ Asked(v) \in 0..1 /\ Gated(v) \in 0..1
      /\ Restarting(ui.pending) \in Nat /\ Asked(ui) \in 0..1 /\ Gated(ui) \in 0..1
  BY <1>1, OwedType DEF ViewInv
<1>3. restarts \in Nat /\ begun \in Nat /\ restarts + Asked(ui) + Gated(ui) <= begun
  BY DEF ViewInv
<1>4. Restarting(v.pending) + Asked(v) + Gated(v)
        <= Restarting(ui.pending) + Asked(ui) + Gated(ui)
  BY <1>1 DEF Owed
<1> QED BY <1>1, <1>2, <1>3, <1>4

\* A key: what the view queues is counted.
LEMMA PressKeeps ==
  ASSUME ViewInv, NEW v, Follows(v, ui), Press(v)
  PROVE  ViewInv'
<1>1. v \in Views /\ Owed(v) <= Owed(ui) /\ Restarting(v.pending) >= Restarting(ui.pending)
  BY DEF Follows
<1>2. restarts' = restarts + Restarting(v.pending) - Restarting(ui.pending)
  BY DEF Press
<1>3. restarts' \in Nat /\ restarts' + Asked(v) + Gated(v) <= begun
  BY <1>2, BalanceKept
<1> QED BY <1>1, <1>3 DEF ViewInv, Press, netVars, Asked, Gated


\* Sends keep what they leave in the queue in order, up to the first failure.
LEMMA PumpKeeps ==
  ASSUME ViewInv, Pump
  PROVE  ViewInv'
<1>1. PICK n \in 0..Len(down), lost \in BOOLEAN :
        LET v    == FoldLeft(Receive, ui, SubSeq(down, 1, n))
            over == lost /\ ~live /\ n = Len(down)
        IN  /\ restarts' = restarts + Restarting(v.pending) - Restarting(ui.pending)
            /\ \E k \in 0..Len(v.pending) :
                 /\ ui' = [v EXCEPT !.pending = <<>>]
                 /\ down' = SubSeq(down, n + 1, Len(down))
                 /\ up' = IF live THEN up \o SubSeq(v.pending, 1, k) ELSE up
                 /\ live' = (live /\ k = Len(v.pending))
                 /\ ended' = (ended \/ over \/ k < Len(v.pending))
                 /\ pumping' = ~ended'
  BY DEF Pump
<1> DEFINE v == FoldLeft(Receive, ui, SubSeq(down, 1, n))
<1>2. PICK k \in 0..Len(v.pending) :
        /\ ui' = [v EXCEPT !.pending = <<>>]
        /\ down' = SubSeq(down, n + 1, Len(down))
        /\ up' = IF live THEN up \o SubSeq(v.pending, 1, k) ELSE up
        /\ live' = (live /\ k = Len(v.pending))
        /\ ended' \in BOOLEAN
        /\ pumping' = ~ended'
  BY <1>1
<1>3. restarts' = restarts + Restarting(v.pending) - Restarting(ui.pending)
  BY <1>1
<1>4. down \in Seq(Messages) /\ up \in Seq(Commands) /\ ui \in Views /\ live \in BOOLEAN
  BY DEF ViewInv
<1>5. SubSeq(down, 1, n) \in Seq(Messages) /\ down' \in Seq(Messages)
  BY <1>2, <1>4, SliceType
<1>6. Follows(v, ui)
  BY <1>4, <1>5, AppliedFollows
<1> HIDE DEF v
<1>7. v \in Views /\ Owed(v) <= Owed(ui) /\ Restarting(v.pending) >= Restarting(ui.pending)
  BY <1>6 DEF Follows
<1>8. v.pending \in Seq(Commands)
  BY <1>7 DEF Views, ViewRecords
<1>9. up' \in Seq(Commands)
  <2>1. SubSeq(v.pending, 1, k) \in Seq(Commands)
    BY <1>8
  <2> QED BY <1>2, <1>4, <2>1
<1>10. ui' \in Views /\ Asked(ui') = Asked(v) /\ Gated(ui') = Gated(v)
  <2> DEFINE none == <<>>
  <2>1. none \in Seq(Commands) /\ ui' = [v EXCEPT !.pending = none]
    BY <1>2
  <2> HIDE DEF none
  <2>2. ui' \in Views /\ ui'.asking = v.asking /\ ui'.gate = v.gate
    BY <1>7, <2>1 DEF Views, ViewRecords
  <2> QED BY <2>2 DEF Asked, Gated
<1>11. restarts' \in Nat /\ restarts' + Asked(v) + Gated(v) <= begun
  BY <1>3, <1>6, BalanceKept
<1>12. live' \in BOOLEAN /\ ended' \in BOOLEAN /\ pumping' \in BOOLEAN
  BY <1>2, <1>4
<1>13. UNCHANGED <<link, begun, events>>
  BY DEF Pump
<1> QED BY <1>5, <1>9, <1>10, <1>11, <1>12, <1>13 DEF ViewInv, Asked, Gated

LEMMA ServeKeeps ==
  ASSUME ViewInv, Serve
  PROVE  ViewInv'
<1>1. up \in Seq(Commands) /\ up # <<>> /\ down \in Seq(Messages)
  BY DEF ViewInv, Serve
<1>2. Head(up) \in Commands /\ up' \in Seq(Commands)
  BY <1>1 DEF Serve
<1>3. down' \in Seq(Messages)
  <2>1. \A msg \in Messages : Append(down, msg) \in Seq(Messages)
    BY <1>1
  <2>2. \A outcome \in {"safe", "unsafe", "cannot"} : CheckMsg(outcome) \in Messages
    BY DEF Messages, Outcomes
  <2>3. \A id \in Plugins, kind \in Kinds : SpecMsg([id |-> id, kind |-> kind]) \in Messages
    BY DEF Messages, Specs
  <2>4. Head(up).c = "plugin_action" => CloseMsg(Head(up).id) \in Messages
    BY <1>2 DEF Commands, Plain, PluginAction, Messages
  <2> QED BY <1>1, <2>1, <2>2, <2>3, <2>4 DEF Serve
<1>4. events' \in 0..MaxEvents /\ live' \in BOOLEAN
  BY CountType DEF Serve, ViewInv
<1>5. UNCHANGED <<ui, pumping, ended, link, begun, restarts>>
  BY DEF Serve
<1> QED BY <1>2, <1>3, <1>4, <1>5 DEF ViewInv, Asked, Gated

LEMMA NextKeeps ==
  ASSUME ViewInv, [Next]_vars
  PROVE  ViewInv'
<1> DEFINE same(v) == Restarting(v.pending) = Restarting(ui.pending)
<1>0. ui \in Views
  BY DEF ViewInv
<1>1. CASE AskName
  <2>1. Follows(Ask(ui, "name"), ui) /\ same(Ask(ui, "name"))
    <3>1. Follows(Ask(ui, "name"), ui)
      BY <1>0, AskFollows DEF Questions
    <3>2. Ask(ui, "name").pending = Open(ui, "prompt").pending
      BY <1>0, OpenFollows DEF Ask, Follows, Views, ViewRecords, ScreenNames
    <3> QED BY <1>0, <3>1, <3>2, OpenFollows DEF ScreenNames
  <2> QED BY <1>1, <2>1, ActKeeps DEF AskName
<1>2. CASE AskKill
  <2>1. Follows(Confirm(ui, "kill"), ui) /\ same(Confirm(ui, "kill"))
    BY <1>0, ConfirmFollows, ConfirmIs DEF Questions
  <2> QED BY <1>2, <2>1, ActKeeps DEF AskKill
<1>3. CASE OpenPlugin
  <2>1. Follows(Queue(ui, Plain("open")), ui) /\ same(Queue(ui, Plain("open")))
    <3>1. /\ Restarting(Queue(ui, Plain("open")).pending) = Restarting(ui.pending) + 0
      BY <1>0, CommandTypes, QueueIs
    <3> QED BY <1>0, <3>1, CommandTypes, QueueFollows, OwedType
  <2> QED BY <1>3, <2>1, ActKeeps DEF OpenPlugin
<1>4. CASE ShowCheck
  <2> DEFINE q == Queue(ui, Plain("check"))
  <2>1. /\ q \in Views /\ Restarting(q.pending) = Restarting(ui.pending) + 0
        /\ Follows(q, ui)
    BY <1>0, CommandTypes, QueueIs, QueueFollows
  <2> HIDE DEF q
  <2>2. Follows(Open(q, "report"), ui) /\ same(Open(q, "report"))
    BY <1>0, <2>1, OpenFollows, FollowsTransitive, OwedType DEF ScreenNames
  <2> QED BY <1>4, <2>2, ActKeeps DEF ShowCheck, q
<1>5. CASE BeginRestart
  <2> DEFINE q == Queue(ui, Plain("check"))
             v == [q EXCEPT !.gate = TRUE]
  <2>1. /\ q \in Views /\ Restarting(q.pending) = Restarting(ui.pending) + 0
        /\ q.asking = ui.asking
    BY <1>0, CommandTypes, QueueIs
  <2>2. ui' = v
    BY <1>5 DEF BeginRestart, Act
  <2> HIDE DEF q
  <2>3. v \in Views /\ v.asking = ui.asking /\ v.gate = TRUE
    BY <2>1 DEF Views, ViewRecords
  <2> HIDE DEF v
  <2>4. Asked(v) = Asked(ui) /\ Gated(v) <= Gated(ui) + 1
    BY <2>3, <1>0, OwedType DEF Asked, Gated
  <2>5. /\ begun' = begun + 1 /\ events' \in 0..MaxEvents
        /\ UNCHANGED <<pumping, ended, netVars, restarts>>
    BY <1>5, CountType DEF BeginRestart, Act, ViewInv
  <2>6. restarts + Asked(v) + Gated(v) <= begun + 1
    BY <1>0, <2>3, <2>4, OwedType DEF ViewInv
  <2> QED BY <2>2, <2>3, <2>5, <2>6 DEF ViewInv, netVars, Asked, Gated
<1>6. CASE PressEnter
  <2>1. Follows(Enter(ui), ui)
    BY <1>0, <1>6, EnterFollows DEF PressEnter, Press
  <2> QED BY <1>6, <2>1, PressKeeps DEF PressEnter
<1>7. CASE PressEscape
  BY <1>0, <1>7, DismissFollows, PressKeeps DEF PressEscape
<1>8. CASE PressYes
  BY <1>0, <1>8, AnswerFollows, PressKeeps DEF PressYes
<1>9. CASE PressArrow
  <2> DEFINE pick == IF ui.pick = "yes" THEN "no" ELSE "yes"
             v == [ui EXCEPT !.pick = pick]
  <2>1. v \in Views /\ v.pending = ui.pending /\ v.asking = ui.asking /\ v.gate = ui.gate
    BY <1>0 DEF Views, ViewRecords
  <2>2. Press(v)
    BY <1>9 DEF PressArrow
  <2> HIDE DEF v
  <2>3. Follows(v, ui)
    BY <1>0, <2>1, OwedType DEF Follows, Owed, Asked, Gated
  <2> QED BY <2>2, <2>3, PressKeeps
<1>10. CASE Reconnect
  <2>1. /\ events' \in 0..MaxEvents /\ link' \in Nat
        /\ up' \in Seq(Commands) /\ down' \in Seq(Messages)
    BY <1>10, CountType DEF Reconnect, ViewInv
  <2>2. /\ ended' \in BOOLEAN /\ live' \in BOOLEAN
        /\ UNCHANGED <<ui, pumping, begun, restarts>>
    BY <1>10 DEF Reconnect
  <2> QED BY <2>1, <2>2 DEF ViewInv, Asked, Gated
<1>11. CASE Pump
  BY <1>11, PumpKeeps
<1>12. ASSUME NEW spec \in Specs, Push(spec)
       PROVE  ViewInv'
  <2>1. events' \in 0..MaxEvents /\ SpecMsg(spec) \in Messages
    BY <1>12, CountType DEF Push, ViewInv, Messages
  <2>2. down' \in Seq(Messages)
    BY <1>12, <2>1 DEF Push, ViewInv
  <2> QED BY <1>12, <2>1, <2>2 DEF Push, ViewInv, Asked, Gated
<1>13. CASE Serve
  BY <1>13, ServeKeeps
<1>14. CASE Cut
  <2>1. events' \in 0..MaxEvents /\ up' \in Seq(Commands)
    BY <1>14, CountType DEF Cut, ViewInv
  <2>2. live' \in BOOLEAN /\ UNCHANGED <<ui, pumping, ended, down, link, begun, restarts>>
    BY <1>14 DEF Cut
  <2> QED BY <2>1, <2>2 DEF ViewInv, Asked, Gated
<1>15. CASE UNCHANGED vars
  BY <1>15 DEF vars, netVars, ViewInv, Asked, Gated
<1> QED BY <1>1, <1>2, <1>3, <1>4, <1>5, <1>6, <1>7, <1>8, <1>9, <1>10, <1>11, <1>12,
           <1>13, <1>14, <1>15 DEF Next

LEMMA ViewInvCorrect == Spec => []ViewInv
<1>1. Init => ViewInv
  BY ViewInvInit
<1>2. ViewInv /\ [Next]_vars => ViewInv'
  BY NextKeeps
<1> QED BY <1>1, <1>2, PTL DEF Spec

\* The view keeps its types, and plugins never stack more screens than
\* MAX_PLUGIN_SCREENS (ViewTypeOK), whatever is pushed, asked and answered.
THEOREM ViewTypeCorrect == Spec => []ViewTypeOK
<1>1. ViewInv => ViewTypeOK
  BY DEF ViewInv, ViewTypeOK, Views, ViewRecords, ScreenNames, Questions
<1> QED BY <1>1, ViewInvCorrect, PTL

\* The view queues restart_server at most once for each begin_restart,
\* whatever checks, questions, plugin screens, keys and reconnections come in
\* between: the gate, the question and the queue hold one restart between them.
THEOREM RestartsBegunCorrect == Spec => []RestartsBegun
<1>1. ViewInv => RestartsBegun
  <2> SUFFICES ASSUME ViewInv PROVE RestartsBegun
    OBVIOUS
  <2>1. Asked(ui) \in 0..1 /\ Gated(ui) \in 0..1
    BY OwedType DEF ViewInv
  <2> QED BY <2>1 DEF ViewInv, RestartsBegun
<1> QED BY <1>1, ViewInvCorrect, PTL

=============================================================================

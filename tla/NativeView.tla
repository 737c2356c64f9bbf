----------------------------- MODULE NativeView -----------------------------
(***************************************************************************)
(* The view of the native client (gui/src/session_view.rs): the screens    *)
(* that lie over the terminal and the one question they may ask            *)
(* (base/src/screens.rs), the screens plugins of the server push           *)
(* (proto/src/session.rs), the dry run that gates a restart, the commands  *)
(* waiting to be sent, and the pump that applies what arrived and sends    *)
(* what waits (gui/src/main.rs).                                           *)
(*                                                                         *)
(* The window system runs keys and pumps one after the other.  The server  *)
(* answers the commands of a connection in their order.                    *)
(***************************************************************************)
EXTENDS Integers, FiniteSets, SequencesExt

CONSTANTS
  Plugins,     \* plugins that show screens
  MaxSpecs,    \* MAX_PLUGIN_SCREENS
  MaxEvents    \* bound: commands, screens of plugins, cuts and reconnections

ASSUME ViewAssumption ==
  /\ MaxSpecs \in Nat \ {0}
  /\ MaxEvents \in Nat

VARIABLES
  ui,       \* the view: screens, question, plugin screens, gate and queue
  pumping,  \* the periodic task that pumps the view still runs
  ended,    \* SessionView.ended
  live,     \* the socket of the link is open
  up,       \* commands on their way to the server
  down,     \* messages on their way to the view
  link,     \* how many links the view has had
  begun,    \* restarts the user began
  restarts, \* restart_server commands the view queued
  events    \* how much has happened (bounded by MaxEvents)

netVars == <<live, up, down, link>>
vars == <<ui, pumping, ended, live, up, down, link, begun, restarts, events>>

Kinds == {"list", "prompt", "confirm"}
Specs == [id : Plugins, kind : Kinds]

\* Commands: those of a plugin name it.
Plain(c) == [c |-> c]
PluginAction(id) == [c |-> "plugin_action", id |-> id]
Commands == {Plain(c) : c \in {"rename", "kill", "restart", "check", "open"}}
              \cup {PluginAction(id) : id \in Plugins}

-----------------------------------------------------------------------------
(* Screens: a stack, and one question for all of it.                       *)

Top(v) == IF v.stack = <<>> THEN "none" ELSE Last(v.stack)

\* Whatever is opened forgets the question; opening what is on top closes it.
Open(v, screen) ==
  [v EXCEPT !.asking = "nothing",
            !.stack = IF Top(v) = screen THEN Front(@) ELSE Append(@, screen)]

CloseTop(v) ==
  [v EXCEPT !.asking = "nothing",
            !.stack = IF @ = <<>> THEN @ ELSE Front(@)]

Ask(v, question) == [Open(v, "prompt") EXCEPT !.asking = question]
Confirm(v, question) ==
  [Open(v, "confirm") EXCEPT !.asking = question, !.pick = "no"]

OpenPluginView(v) == IF Top(v) = "plugin" THEN v ELSE Open(v, "plugin")

Queue(v, command) == [v EXCEPT !.pending = Append(@, command)]

\* answer_plugin_ask: the newest screen goes, and if there was an answer its
\* plugin is told.
AnswerPlugin(v, answered) ==
  IF v.specs = <<>> THEN v
  ELSE LET w == [v EXCEPT !.specs = Front(@)]
       IN  IF answered THEN Queue(w, PluginAction(Last(v.specs).id)) ELSE w

\* apply_answer
Answer(v, question) ==
  CASE question = "name"    -> Queue(v, Plain("rename"))
    [] question = "kill"    -> Queue(v, Plain("kill"))
    [] question = "restart" -> Queue(v, Plain("restart"))
    [] question = "plugin"  -> AnswerPlugin(v, TRUE)
    [] question = "nothing" -> v

\* A screen was closed without an answer: what a plugin asked is dropped, and
\* a plugin screen gives way to the one it was opened from.
Dismiss(v) ==
  LET w == CloseTop(v)
  IN  IF v.asking = "plugin" THEN AnswerPlugin(w, FALSE)
      ELSE IF Top(v) = "plugin"
      THEN LET x == AnswerPlugin(w, FALSE)
           IN  IF x.specs = <<>> THEN x ELSE OpenPluginView(x)
      ELSE w

\* Enter, on each kind of screen.
Enter(v) ==
  CASE Top(v) = "prompt"  -> Answer(CloseTop(v), v.asking)
    [] Top(v) = "confirm" -> IF v.pick = "yes"
                             THEN Answer(CloseTop(v), v.asking)
                             ELSE Dismiss(v)
    [] Top(v) = "plugin"  -> IF v.specs = <<>> THEN CloseTop(v)
                             ELSE Queue(CloseTop(v),
                                        PluginAction(Last(v.specs).id))
    [] Top(v) = "report"  -> CloseTop(v)

-----------------------------------------------------------------------------
(* Messages of the server.                                                 *)

\* A screen of a plugin replaces the newest one of its kind or is put on it;
\* the oldest of too many is dropped.  What it asks uses the screens above.
\* Mutant: nothing is dropped.
ReceiveSpecUncapped(v, spec) ==
  LET w == [v EXCEPT !.specs = Append(@, spec)]
  IN  IF spec.kind = "list" THEN OpenPluginView(w) ELSE Ask(w, "plugin")

ReceiveSpec(v, spec) ==
  LET update == v.specs # <<>> /\ Last(v.specs) = spec
      kept   == IF update THEN Front(v.specs)
                ELSE IF Len(v.specs) >= MaxSpecs THEN Tail(v.specs)
                ELSE v.specs
      w      == [v EXCEPT !.specs = Append(kept, spec)]
  IN  CASE spec.kind = "prompt"  -> Ask(w, "plugin")
        [] spec.kind = "confirm" -> Confirm(w, "plugin")
        [] spec.kind = "list"    -> OpenPluginView(w)

\* The screens of one plugin are gone, the others keep their order.
WithoutPlugin(specs, id) ==
  FoldLeft(LAMBDA kept, s : IF s.id = id THEN kept ELSE Append(kept, s), <<>>, specs)

ReceiveClose(v, id) ==
  LET w == [v EXCEPT !.specs = WithoutPlugin(@, id)]
  IN  IF w.specs = <<>> /\ Top(w) = "plugin" THEN CloseTop(w) ELSE w

\* gate_restart: the dry run decides a restart that was begun.  Mutant: it
\* stays begun.
ReceiveCheckKeeping(v, outcome) ==
  IF ~v.gate THEN v
  ELSE CASE outcome = "safe"   -> Queue(v, Plain("restart"))
         [] outcome = "unsafe" -> Confirm(v, "restart")
         [] outcome = "cannot" -> v

ReceiveCheck(v, outcome) ==
  IF ~v.gate THEN v
  ELSE LET w == [v EXCEPT !.gate = FALSE]
       IN  CASE outcome = "safe"   -> Queue(w, Plain("restart"))
             [] outcome = "unsafe" -> Confirm(w, "restart")
             [] outcome = "cannot" -> w

SpecMsg(spec) == [m |-> "spec", spec |-> spec]
CloseMsg(id) == [m |-> "close", id |-> id]
CheckMsg(outcome) == [m |-> "check", outcome |-> outcome]

\* Mutant: the reply to a dry run is shown and nothing else.
ReceiveShowing(v, msg) ==
  CASE msg.m = "spec"  -> ReceiveSpec(v, msg.spec)
    [] msg.m = "close" -> ReceiveClose(v, msg.id)
    [] msg.m = "check" -> v

Receive(v, msg) ==
  CASE msg.m = "spec"  -> ReceiveSpec(v, msg.spec)
    [] msg.m = "close" -> ReceiveClose(v, msg.id)
    [] msg.m = "check" -> ReceiveCheck(v, msg.outcome)

-----------------------------------------------------------------------------
(* The user.                                                               *)

Count == events < MaxEvents /\ events' = events + 1

\* How many restarts a step of the view queued.
Restarting(seq) ==
  Cardinality({i \in DOMAIN seq : seq[i] = Plain("restart")})

\* A command of the palette, or of a key the user bound, which is looked at
\* before the screens are.
Act(v) ==
  /\ Count
  /\ ui' = v
  /\ UNCHANGED <<pumping, ended, netVars, restarts>>

AskName == Act(Ask(ui, "name")) /\ UNCHANGED begun
AskKill == Act(Confirm(ui, "kill")) /\ UNCHANGED begun
OpenPlugin == Act(Queue(ui, Plain("open"))) /\ UNCHANGED begun

\* restart-check: the report is shown, nothing is to follow.
ShowCheck == Act(Open(Queue(ui, Plain("check")), "report")) /\ UNCHANGED begun

\* begin_restart
BeginRestart ==
  /\ Act([Queue(ui, Plain("check")) EXCEPT !.gate = TRUE])
  /\ begun' = begun + 1

\* A key, when a screen is open.
Press(v) ==
  /\ ui.stack # <<>>
  /\ ui' = v
  /\ restarts' = restarts + Restarting(v.pending) - Restarting(ui.pending)
  /\ UNCHANGED <<pumping, ended, netVars, begun, events>>

PressEnter == Press(Enter(ui))
PressEscape == Press(Dismiss(ui))
PressYes == Top(ui) = "confirm" /\ Press(Answer(CloseTop(ui), ui.asking))
PressArrow ==
  /\ Top(ui) = "confirm"
  /\ Press([ui EXCEPT !.pick = IF @ = "yes" THEN "no" ELSE "yes"])

\* reconnect_now: another link to the same server, or an error message.  Nobody
\* starts the periodic task again.
Reconnect ==
  /\ Count
  /\ ended' = FALSE
  /\ live' = TRUE /\ up' = <<>> /\ down' = <<>>
  /\ link' = link + 1
  /\ UNCHANGED <<ui, pumping, begun, restarts>>

-----------------------------------------------------------------------------
(* The periodic task.                                                      *)

\* A pump that finds nothing to apply, to send or to report changes nothing.
\* Mutant: it looks at the queue only when something arrived.
WorthwhileArrivals(n, over) == n > 0 \/ over
Worthwhile(n, over) == n > 0 \/ ui.pending # <<>> \/ over

\* One pump: what has arrived is applied, then what waits is sent, up to the
\* first failure; the rest of the queue is dropped with the connection.  The
\* task looks whether the view has ended and does not come back if so.
Pump ==
  /\ pumping
  /\ \E n \in 0..Len(down), lost \in BOOLEAN :
       LET v    == FoldLeft(Receive, ui, SubSeq(down, 1, n))
           over == lost /\ ~live /\ n = Len(down)
       IN  /\ Worthwhile(n, over)
           /\ restarts' = restarts + Restarting(v.pending)
                                   - Restarting(ui.pending)
           /\ \E k \in 0..Len(v.pending) :
                /\ ui' = [v EXCEPT !.pending = <<>>]
                /\ down' = SubSeq(down, n + 1, Len(down))
                /\ up' = IF live THEN up \o SubSeq(v.pending, 1, k) ELSE up
                /\ live' = (live /\ k = Len(v.pending))
                /\ ended' = (ended \/ over \/ k < Len(v.pending))
                /\ pumping' = ~ended'
  /\ UNCHANGED <<link, begun, events>>

-----------------------------------------------------------------------------
(* The server and the network.                                             *)

\* A plugin pushes a screen, unasked.
Push(spec) ==
  /\ live
  /\ Count
  /\ down' = Append(down, SpecMsg(spec))
  /\ UNCHANGED <<ui, pumping, ended, live, up, link, begun, restarts>>

\* The next command of the connection is answered.
Serve ==
  /\ live
  /\ up # <<>>
  /\ up' = Tail(up)
  /\ LET command == Head(up)
     IN  \/ /\ command.c = "check"
            /\ \E outcome \in {"safe", "unsafe", "cannot"} :
                 down' = Append(down, CheckMsg(outcome))
            /\ UNCHANGED <<live, events>>
         \/ /\ command.c \in {"open", "plugin_action"}
            /\ \E id \in Plugins, kind \in Kinds :
                 down' = Append(down, SpecMsg([id |-> id, kind |-> kind]))
            /\ Count
            /\ UNCHANGED live
         \/ /\ command.c = "plugin_action"
            /\ down' = Append(down, CloseMsg(command.id))
            /\ UNCHANGED <<live, events>>
         \/ /\ command.c # "check"
            /\ UNCHANGED <<live, down, events>>
         \/ /\ command.c \in {"restart", "kill"}
            /\ live' = FALSE
            /\ UNCHANGED <<down, events>>
  /\ UNCHANGED <<ui, pumping, ended, link, begun, restarts>>

\* The connection is lost.
Cut ==
  /\ live
  /\ Count
  /\ live' = FALSE
  /\ up' = <<>>
  /\ UNCHANGED <<ui, pumping, ended, down, link, begun, restarts>>

-----------------------------------------------------------------------------
Init ==
  /\ ui = [stack |-> <<>>, asking |-> "nothing", pick |-> "no",
           specs |-> <<>>, gate |-> FALSE, pending |-> <<>>]
  /\ pumping = TRUE
  /\ ended = FALSE
  /\ live = TRUE /\ up = <<>> /\ down = <<>> /\ link = 1
  /\ begun = 0 /\ restarts = 0
  /\ events = 0

Next ==
  \/ AskName
  \/ AskKill
  \/ OpenPlugin
  \/ ShowCheck
  \/ BeginRestart
  \/ PressEnter
  \/ PressEscape
  \/ PressYes
  \/ PressArrow
  \/ Reconnect
  \/ Pump
  \/ \E spec \in Specs : Push(spec)
  \/ Serve
  \/ Cut

\* The task pumps every 33 ms as long as it lives, and the server answers.
Spec == Init /\ [][Next]_vars /\ WF_vars(Pump) /\ WF_vars(Serve)

-----------------------------------------------------------------------------
(* Properties.                                                             *)

\* Every variable holds a value of its type.
ViewTypeOK ==
  /\ ui.stack \in Seq({"prompt", "confirm", "plugin", "report"})
  /\ ui.asking \in {"nothing", "name", "kill", "restart", "plugin"}
  /\ ui.pick \in {"yes", "no"}
  /\ ui.specs \in Seq(Specs) /\ Len(ui.specs) <= MaxSpecs
  /\ ui.gate \in BOOLEAN
  /\ ui.pending \in Seq(Commands) /\ up \in Seq(Commands)
  /\ pumping \in BOOLEAN /\ ended \in BOOLEAN /\ live \in BOOLEAN
  /\ link \in Nat /\ begun \in Nat /\ restarts \in Nat
  /\ events \in 0..MaxEvents

\* However checks, questions, plugin screens and reconnections interleave,
\* the server is told to restart at most once for each restart begun.
RestartsBegun == restarts <= begun

\* A restart that was begun comes to a decision: the reply to the dry run is
\* not merely shown, as long as the first link is neither lost nor replaced.
RestartDecided == (ui.gate /\ link = 1) ~> (~ui.gate \/ ended \/ link > 1)

\* As long as the view is pumped, a command that was queued does not wait for
\* ever: it is sent, or the view says that the connection ended.
QueuedIsSent ==
  (ui.pending # <<>> /\ pumping) ~> (ui.pending = <<>> \/ ended)
=============================================================================

----------------------------- MODULE ToolFlight ------------------------------
(***************************************************************************)
(* How the activity reducer knows that a permission dialog is open: an     *)
(* agent runs tools side by side, asks its user about some of them, and    *)
(* reports by hooks that may be lost.  The answer itself has no hook, so   *)
(* the reducer waits for the end of the right tool.  A session that looks  *)
(* unblocked may be typed into, and the keys answer the dialog.            *)
(*                                                                         *)
(* Code: lifecycle/manager.go, applyToolPrecedenceLocked and the           *)
(* maxInflightTools cap; cli/hooks.go sends the hooks.  One launch, one    *)
(* session; module Lifecycle has the fences between launches.  No name is  *)
(* used by both, so that LifecycleProofs can speak of both.                *)
(***************************************************************************)
EXTENDS Naturals, FiniteSets, Sequences, SequencesExt

CONSTANTS
  Tools,        \* tool uses of the session
  Names,        \* tool names
  MaxTurns,     \* bound: turns
  MaxMail,      \* bound: hooks on their way
  MaxInflight,  \* maxInflightTools
  Worlds,       \* what may happen: kinds of hooks that are lost, and whether the daemon restarts
  None          \* no tool

Kinds == {"prompt", "pre", "ask", "again", "post", "stop"}
\* Does a question name its tool, its use, or has a use no id.
AgentKinds == {"named", "exact", "cursor"}

ASSUME FlightAssumption ==
  /\ IsFiniteSet(Tools) /\ None \notin Tools /\ MaxInflight \in Nat \ {0}
  /\ MaxTurns \in Nat /\ MaxMail \in Nat
  /\ Worlds \subseteq [lose : SUBSET Kinds, restarts : BOOLEAN]

VARIABLES
  world, kind, name,  \* chosen once: the transport, the agent, the name of each use
  turn,     \* turns begun, and whether one is under way
  run,      \* tool uses at work
  dialog,   \* tool uses whose permission dialog is on the screen
  over,     \* tool uses that are done, were refused, or have asked
  mail,     \* hooks on their way, oldest first
  act,      \* the session's activity
  inflight, candidate, cursorPending,  \* its toolFlight
  shown     \* dialogs whose question has been taken

agent      == <<turn, run, dialog, over>>
flight     == <<inflight, candidate, cursorPending>>
flightVars == <<world, kind, name, agent, mail, act, flight, shown>>

FlightTypeOK ==
  /\ world \in Worlds /\ kind \in AgentKinds /\ name \in [Tools -> Names]
  /\ turn \in [no : 0..MaxTurns, on : BOOLEAN] /\ run \subseteq Tools /\ dialog \subseteq run
  /\ over \in [done : SUBSET Tools, refused : SUBSET Tools, asked : SUBSET Tools]
  /\ mail \in Seq([ev : Kinds, tool : Tools \cup {None}]) /\ Len(mail) <= MaxMail
  /\ act \in {"idle", "active", "blocked"} /\ inflight \subseteq Tools
  /\ candidate \in Tools \cup {None} /\ cursorPending \in [Names -> 0..Cardinality(Tools)]
  /\ shown \subseteq Tools

FlightInit ==
  /\ world \in Worlds /\ kind \in AgentKinds /\ name \in [Tools -> Names]
  /\ turn = [no |-> 0, on |-> FALSE] /\ run = {} /\ dialog = {}
  /\ over = [done |-> {}, refused |-> {}, asked |-> {}] /\ mail = <<>> /\ act = "idle"
  /\ inflight = {} /\ candidate = None /\ cursorPending = [n \in Names |-> 0] /\ shown = {}

-----------------------------------------------------------------------------
(* The agent.                                                               *)

Send(ev, t) == Len(mail) < MaxMail /\ mail' = Append(mail, [ev |-> ev, tool |-> t])
ByAgent     == UNCHANGED <<world, kind, name, act, flight, shown>>

Prompt ==
  /\ ~turn.on /\ turn.no < MaxTurns
  /\ turn' = [no |-> turn.no + 1, on |-> TRUE] /\ Send("prompt", None)
  /\ ByAgent /\ UNCHANGED <<run, dialog, over>>

\* Cursor has no hook but the one before an execution, which is its question already.
Begin(t) ==
  /\ turn.on /\ t \notin run \cup over.done /\ run' = run \cup {t}
  /\ \/ kind # "cursor" /\ Send("pre", t) /\ UNCHANGED dialog
     \/ kind = "cursor" /\ Send("ask", t) /\ dialog' \in {dialog, dialog \cup {t}}
  /\ ByAgent /\ UNCHANGED <<turn, over>>

\* One dialog holds the composer, and a use asks once.
Ask(t) ==
  /\ kind # "cursor" /\ t \in run \ over.asked /\ dialog = {}
  /\ dialog' = {t} /\ Send("ask", t) /\ over' = [over EXCEPT !.asked = @ \cup {t}]
  /\ ByAgent /\ UNCHANGED <<turn, run>>

\* The dialog is told once more, without its identity.
Remind(t) ==
  /\ kind # "cursor" /\ t \in dialog /\ Send("again", t)
  /\ ByAgent /\ UNCHANGED <<turn, run, dialog, over>>

\* The user answers.
Allow(t) ==
  /\ t \in dialog /\ dialog' = dialog \ {t}
  /\ ByAgent /\ UNCHANGED <<turn, run, over, mail>>

\* A tool that is refused ends without a hook, but Cursor's is told as a failure.
Refuse(t) ==
  /\ t \in dialog /\ dialog' = dialog \ {t} /\ run' = run \ {t}
  /\ over' = [over EXCEPT !.done = @ \cup {t}, !.refused = @ \cup {t}]
  /\ IF kind = "cursor" THEN Send("post", t) ELSE UNCHANGED mail
  /\ ByAgent /\ UNCHANGED turn

Finish(t) ==
  /\ t \in run \ dialog /\ run' = run \ {t} /\ Send("post", t)
  /\ over' = [over EXCEPT !.done = @ \cup {t}]
  /\ ByAgent /\ UNCHANGED <<turn, dialog>>

Stop ==
  /\ turn.on /\ run = {} /\ turn' = [turn EXCEPT !.on = FALSE] /\ Send("stop", None)
  /\ ByAgent /\ UNCHANGED <<run, dialog, over>>

Agent ==
  \/ Prompt \/ Stop
  \/ \E t \in Tools : Begin(t) \/ Ask(t) \/ Remind(t) \/ Allow(t) \/ Refuse(t) \/ Finish(t)

-----------------------------------------------------------------------------
(* The reducer.                                                             *)

Boundary(e) == e.ev \in {"prompt", "stop"}

\* Faulty: nobody is forgotten at the end of a turn.
ForgetNothing == UNCHANGED flight
Forget        == inflight' = {} /\ candidate' = None /\ cursorPending' = [n \in Names |-> 0]

\* Faulty: any use of that name will do.
AnyNamed(e, uses) == IF \E t \in uses : name[t] = name[e.tool]
                     THEN CHOOSE t \in uses : name[t] = name[e.tool] ELSE None

\* The use whose end will prove the answer: the one the question names by its id, or
\* the only one in flight of its name.
Proof(e, uses) ==
  LET named == {t \in uses : name[t] = name[e.tool]}
  IN  CASE kind = "exact" /\ e.tool \in uses -> e.tool
        [] ~(kind = "exact" /\ e.tool \in uses) /\ Cardinality(named) = 1 -> CHOOSE t \in named : TRUE
        [] OTHER -> None

\* What is tracked whatever becomes of the signal.
Tracked(e) ==
  CASE e.ev = "pre"  -> (IF Cardinality(inflight) >= MaxInflight THEN {} ELSE inflight) \cup {e.tool}
    [] e.ev = "post" -> inflight \ {e.tool}
    [] OTHER         -> inflight

Asked(e) ==
  /\ e.ev = "ask" /\ act' = "blocked" /\ UNCHANGED inflight
  /\ IF kind = "cursor"
     THEN candidate' = None /\ cursorPending' = [cursorPending EXCEPT ![name[e.tool]] = @ + 1]
     ELSE candidate' = Proof(e, inflight) /\ cursorPending' = [n \in Names |-> 0]

Reminded(e) == e.ev = "again" /\ act' = "blocked" /\ UNCHANGED flight

\* What the end of a tool can be while the session is paused on a decision.
Proves(e)  == kind # "cursor" /\ e.ev = "post" /\ e.tool = candidate
Counts(e)  == kind = "cursor" /\ e.ev = "post" /\ cursorPending[name[e.tool]] > 0
Tracks(e)  == inflight' = Tracked(e)

\* Faulty: the proof is kept for the next dialog.
ProvedOnly(e) ==
  /\ act = "blocked" /\ Proves(e) /\ act' = "active" /\ Tracks(e) /\ UNCHANGED <<candidate, cursorPending>>

\* The tool of the dialog has ended: it was answered.
Proved(e) ==
  /\ act = "blocked" /\ Proves(e)
  /\ act' = "active" /\ candidate' = None /\ Tracks(e) /\ UNCHANGED cursorPending

\* One of Cursor's questions is answered; the last one unblocks.
Counted(e) ==
  /\ act = "blocked" /\ Counts(e)
  /\ cursorPending' = [cursorPending EXCEPT ![name[e.tool]] = @ - 1]
  /\ act' = (IF \A n \in Names : cursorPending'[n] = 0 THEN "active" ELSE "blocked")
  /\ UNCHANGED <<inflight, candidate>>

\* Paused on a decision, nothing else than a boundary moves the session.
Suppressed(e) ==
  /\ act = "blocked" /\ e.ev \in {"pre", "post"} /\ ~Proves(e) /\ ~Counts(e)
  /\ Tracks(e) /\ UNCHANGED <<act, candidate, cursorPending>>

Bounded(e) ==
  Boundary(e) /\ Forget /\ act' = IF e.ev = "stop" THEN "idle" ELSE "active"

Worked(e) ==
  /\ act # "blocked" /\ e.ev \in {"pre", "post"} /\ act' = "active"
  /\ Tracks(e) /\ UNCHANGED <<candidate, cursorPending>>

Reduce(e) ==
  Asked(e) \/ Reminded(e) \/ Proved(e) \/ Counted(e) \/ Suppressed(e) \/ Bounded(e) \/ Worked(e)

\* Each hook is a process of its own: it may overtake those of other tools, but no boundary
\* of a turn, and dialogs are told in the order they are raised.
Overtakes(e, f) == ~Boundary(e) /\ ~Boundary(f) /\ e.tool # f.tool /\ ~(e.ev = "ask" /\ f.ev = "ask")
Arriving        == {i \in 1..Len(mail) : \A j \in 1..i - 1 : Overtakes(mail[i], mail[j])}

Deliver ==
  /\ \E i \in Arriving :
       /\ mail' = RemoveAt(mail, i)
       /\ Reduce(mail[i])
       /\ shown' = IF mail[i].ev = "ask" THEN shown \cup {mail[i].tool} ELSE shown
  /\ UNCHANGED <<world, kind, name, agent>>

\* The daemon is away, or the projection loses every retry against other writers.
Lose ==
  /\ mail # <<>> /\ Head(mail).ev \in world.lose /\ mail' = Tail(mail)
  /\ UNCHANGED <<world, kind, name, agent, act, flight, shown>>

\* Another daemon: the tracking is in memory only, the activity is not.
Restart ==
  /\ world.restarts /\ Forget
  /\ UNCHANGED <<world, kind, name, agent, mail, act, shown>>

FlightNext == Agent \/ Deliver \/ Lose \/ Restart

FlightSpec == FlightInit /\ [][FlightNext]_flightVars

-----------------------------------------------------------------------------
(* Correctness.                                                             *)

\* What a unique name proves depends on hearing of every use that bears it.
Heard == ~world.restarts /\ (IF kind = "cursor" THEN "ask" ELSE "pre") \notin world.lose

\* A dialog whose question has been taken keeps the session blocked as long as it is on
\* the screen, whatever other tools report and whatever else is lost.
BlockedUntilAnswered == Heard /\ shown \cap dialog # {} => act = "blocked"

\* The same without the premise, as the code says it.
NeverSpuriouslyCleared == shown \cap dialog # {} => act = "blocked"

\* What lifts a block that counts on the end of a tool is still to come: the tool is at work
\* and will report its end, or it was refused, which no hook tells, and the turn under way
\* will end.
ProofIsComing ==
  world.lose = {} /\ mail = <<>> /\ candidate # None
    => turn.on /\ candidate \in run \cup over.refused

\* With every hook delivered in order and the turn over, nothing is left of it: the
\* session is idle and no tool of it can be mistaken for one of the next.
TurnLeavesNothing ==
  world.lose = {} /\ mail = <<>> /\ ~turn.on /\ turn.no > 0
    => act = "idle" /\ inflight = {} /\ candidate = None /\ \A n \in Names : cursorPending[n] = 0

=============================================================================

------------------------------ MODULE Lifecycle ------------------------------
(***************************************************************************)
(* The durable facts of one session: whether it is terminated, what its    *)
(* agent does, which launch owns it.  They are written by whoever comes:   *)
(* hooks of any launch, arriving late or never, the reaper's probes, the   *)
(* terminal observer, kill, relaunch and the handoff between terminal and  *)
(* Chat.                                                                   *)
(*                                                                         *)
(* Code: lifecycle/{manager,runtime}.go, observe/reaper, observe/activity, *)
(* and the calls of session_manager/manager.go on them.  Every writer here *)
(* holds the reducer's mutex for one step; what it read before is in its   *)
(* own record, and `seen` says whose snapshot still has the row's revision.*)
(***************************************************************************)
EXTENDS Naturals, FiniteSets

CONSTANTS
  MaxLaunches,  \* bound: launches and Chat generations, named 1, 2, ...
  MaxHooks,     \* bound: hooks in flight
  MaxKills,     \* bound: kills
  Overlap       \* does a handoff start beside a kill or a relaunch

Slots    == {"main", "move"}     \* kill or relaunch; handoff
Launches == 1..MaxLaunches
Sticky   == {"blocked"}          \* ActivityState.IsSticky
Acts     == {"active", "idle", "exited"} \cup Sticky
Events   == {"prompt", "stop", "ask", "exit"}

ASSUME BoundsAssumption == MaxLaunches \in Nat \ {0} /\ MaxHooks \in Nat /\ MaxKills \in Nat /\ Overlap \in BOOLEAN

VARIABLES
  row,     \* mode, launch or generation that owns it (0: none), terminated, activity and
           \* its age in windows of recent activity, up to 2
  term,    \* the runtime under the session's handle: who started it, is it up, does its agent run
  chat,    \* the generation of the running Chat controller, 0 for none
  pending, \* pendingLaunches: the launch whose hooks wait, 0 for none
  hooks,   \* hooks on their way: [gen, ev]
  op,      \* the kill or relaunch and the handoff in progress
  reaper,  \* a pass of the reaper over the session
  screen,  \* the terminal observer has read the row
  seen,    \* who has read the row since its last write
  made, kills,
  killed   \* a kill has been completed and nobody asked for the session since

vars == <<row, term, chat, pending, hooks, op, reaper, screen, seen, made, kills, killed>>
procs == <<term, chat>>

Idle   == [pc |-> "idle", kind |-> "none", gen |-> 0]
Asleep == [pc |-> "idle", gen |-> 0, fact |-> "none", wait |-> 0]

TypeOK ==
  /\ row \in [mode : {"tui", "chat"}, own : 0..MaxLaunches, over : BOOLEAN, act : Acts, age : 0..2]
  /\ term \in [by : 0..MaxLaunches, up : BOOLEAN, work : BOOLEAN]
  /\ chat \in 0..MaxLaunches /\ pending \in 0..MaxLaunches
  /\ hooks \subseteq [gen : Launches, ev : Events] /\ Cardinality(hooks) <= MaxHooks
  /\ op \in [Slots -> [pc : {"idle", "stop", "free", "read", "mark", "epoch", "start",
                            "create", "spawn", "restore"},
                      kind : {"none", "kill", "relaunch", "there", "back"}, gen : 0..MaxLaunches]]
  /\ reaper \in [pc : {"idle", "probe", "apply", "final"}, gen : 0..MaxLaunches,
                 fact : {"none", "dead", "gone", "alive", "failed"}, wait : 0..1]
  /\ screen \in BOOLEAN /\ seen \subseteq Slots \cup {"reaper", "screen"}
  /\ made \in 0..MaxLaunches /\ kills \in 0..MaxKills /\ killed \in BOOLEAN

\* A session that was just spawned, in a terminal or in Chat.
Init ==
  /\ \E mode \in {"tui", "chat"} :
       /\ row = [mode |-> mode, own |-> 1, over |-> FALSE, act |-> "idle", age |-> 0]
       /\ term = [by |-> 1, up |-> mode = "tui", work |-> mode = "tui"]
       /\ chat = IF mode = "chat" THEN 1 ELSE 0
  /\ pending = 0 /\ hooks = {} /\ op = [s \in Slots |-> Idle] /\ reaper = Asleep
  /\ screen = FALSE /\ seen = {} /\ made = 1 /\ kills = 0 /\ killed = FALSE

\* Every write advances the revision: nobody's snapshot is current any more.
Write(r) == row' = r /\ seen' = {}

\* sessionMutationInProgress: a handoff is not among the operations it knows.
Gate == op["main"].pc # "idle"

-----------------------------------------------------------------------------
(* The agents.                                                              *)

Emit(g, ev) == hooks' = hooks \cup {[gen |-> g, ev |-> ev]}

\* An agent at work reports what it does; every hook may be late or lost.
Works ==
  /\ Cardinality(hooks) < MaxHooks
  /\ \E ev \in Events \ {"exit"} :
       \/ term.up /\ term.work /\ Emit(term.by, ev)
       \/ chat # 0 /\ Emit(chat, ev)
  /\ UNCHANGED <<row, procs, pending, op, reaper, screen, seen, made, kills, killed>>

\* The agent leaves its shell, and its supervisor or controller says so.
AgentExits ==
  /\ Cardinality(hooks) < MaxHooks
  /\ \/ term.up /\ term.work /\ term' = [term EXCEPT !.work = FALSE]
        /\ Emit(term.by, "exit") /\ UNCHANGED chat
     \/ chat # 0 /\ chat' = 0 /\ Emit(chat, "exit") /\ UNCHANGED term
  /\ UNCHANGED <<row, pending, op, reaper, screen, seen, made, kills, killed>>

\* The runtime is gone, and its agent with it, without a word.
RuntimeDies ==
  /\ term.up /\ term' = [term EXCEPT !.up = FALSE, !.work = FALSE]
  /\ UNCHANGED <<row, chat, pending, hooks, op, reaper, screen, seen, made, kills, killed>>

Loses ==
  /\ \E h \in hooks : hooks' = hooks \ {h}
  /\ UNCHANGED <<row, procs, pending, op, reaper, screen, seen, made, kills, killed>>

\* A recent-activity window passes; a pass of the reaper takes no more than one.
Tick ==
  /\ reaper.pc # "idle" => reaper.wait = 0
  /\ row.age < 2 \/ reaper.pc # "idle"
  /\ row' = [row EXCEPT !.age = IF @ < 2 THEN @ + 1 ELSE @]
  /\ reaper' = IF reaper.pc = "idle" THEN reaper ELSE [reaper EXCEPT !.wait = 1]
  /\ UNCHANGED <<procs, pending, hooks, op, screen, seen, made, kills, killed>>

-----------------------------------------------------------------------------
(* ApplyActivitySignal.                                                     *)

After(ev) == CASE ev = "prompt" -> "active" [] ev = "stop" -> "idle"
               [] ev = "ask" -> "blocked"   [] ev = "exit" -> "exited"

\* Faulty: the generation is not compared.
OwnsAny(h) == ~row.over

Owns(h)  == h.gen = row.own /\ ~row.over
\* Only the prompt of an agent started again in the same shell revives an exited one.
Takes(h) == row.act = "exited" => h.ev \in {"exit", "prompt"}

\* A hook of the launch that is being started waits; one of another owner is dropped.
Signal ==
  /\ \E h \in hooks :
       /\ pending # h.gen /\ hooks' = hooks \ {h}
       /\ IF Owns(h) /\ Takes(h)
          THEN Write([row EXCEPT !.act = After(h.ev), !.age = 0])
          ELSE UNCHANGED <<row, seen>>
  /\ UNCHANGED <<procs, pending, op, reaper, screen, made, kills, killed>>

\* The terminal observer reads the row and the screen of a session active for too long,
ScreenRead ==
  /\ ~screen /\ ~row.over /\ row.mode = "tui" /\ row.own # 0 /\ term.up
  /\ row.act = "active" /\ row.age > 0
  /\ screen' = TRUE /\ seen' = seen \cup {"screen"}
  /\ UNCHANGED <<row, procs, pending, hooks, op, reaper, made, kills, killed>>

\* and reports idle against the revision it read.
ScreenSignal ==
  /\ screen /\ screen' = FALSE
  /\ IF "screen" \in seen /\ ~row.over
     THEN Write([row EXCEPT !.act = "idle", !.age = 0])
     ELSE UNCHANGED <<row, seen>>
  /\ UNCHANGED <<procs, pending, hooks, op, reaper, made, kills, killed>>

-----------------------------------------------------------------------------
(* The reaper.                                                              *)

\* Tick lists the rows: Chat has no runtime to probe, nor has a row without a handle.
ReaperList ==
  /\ reaper.pc = "idle" /\ ~row.over /\ row.mode = "tui" /\ row.own # 0
  /\ reaper' = [Asleep EXCEPT !.pc = "probe", !.gen = row.own]
  /\ UNCHANGED <<row, procs, pending, hooks, op, screen, seen, made, kills, killed>>

\* Faulty: only the runtime is asked for.
ProbeRuntime ==
  /\ reaper.pc = "probe"
  /\ reaper' = [reaper EXCEPT !.pc = "apply", !.fact = IF term.up THEN "alive" ELSE "dead"]
  /\ UNCHANGED <<row, procs, pending, hooks, op, screen, seen, made, kills, killed>>

\* probeOne asks for the runtime under the handle, whoever started it, and in it for
\* the agent of the launch it has read.
ReaperProbe ==
  /\ reaper.pc = "probe"
  /\ reaper' = [reaper EXCEPT !.pc = "apply",
                  !.fact = IF ~term.up THEN "dead"
                           ELSE IF term.work /\ term.by = reaper.gen THEN "alive" ELSE "gone"]
  /\ UNCHANGED <<row, procs, pending, hooks, op, screen, seen, made, kills, killed>>

\* The probe fails, or so many sessions died at once that none is believed.
ReaperDoubts ==
  /\ reaper.pc = "probe" /\ reaper' = [reaper EXCEPT !.pc = "apply", !.fact = "failed"]
  /\ UNCHANGED <<row, procs, pending, hooks, op, screen, seen, made, kills, killed>>

\* runtimeClearlyDead: activity is recent as of the beginning of the pass.
ClearlyDead ==
  /\ reaper.fact = "dead"
  /\ row.act = "exited" \/ (row.act \notin Sticky /\ row.age > reaper.wait)

\* Faulty: the launch that was probed is not compared.
MatchesAny == TRUE

\* matchesLaunch; Chat rows carry no launch, nor does a row between two owners.
Matches == row.own = 0 \/ row.mode = "chat" \/ reaper.gen = row.own

Exits ==
  /\ ~row.over /\ Matches /\ row.mode = "tui" /\ row.own # 0
  /\ reaper.fact = "gone" /\ row.act # "exited"
Dies == ~row.over /\ Matches /\ ClearlyDead /\ ~Gate

\* The first half of ApplyRuntimeObservation: a workload's end is written at once, a
\* runtime's death only after the usage of its launch has been finalized.
ReaperApply ==
  /\ reaper.pc = "apply"
  /\ \/ Exits /\ Write([row EXCEPT !.act = "exited", !.age = reaper.wait]) /\ reaper' = Asleep
     \/ Dies /\ reaper' = [reaper EXCEPT !.pc = "final"]
        /\ seen' = seen \cup {"reaper"} /\ UNCHANGED row
     \/ ~Exits /\ ~Dies /\ reaper' = Asleep /\ UNCHANGED <<row, seen>>
  /\ UNCHANGED <<procs, pending, hooks, op, screen, made, kills, killed>>

\* The second half looks at everything again, against the revision of the first.
ReaperFinal ==
  /\ reaper.pc = "final"
  /\ \/ Dies /\ "reaper" \in seen
        /\ Write([row EXCEPT !.over = TRUE, !.act = "exited", !.age = reaper.wait])
     \/ ~(Dies /\ "reaper" \in seen) /\ UNCHANGED <<row, seen>>
  /\ reaper' = Asleep
  /\ UNCHANGED <<procs, pending, hooks, op, screen, made, kills, killed>>

-----------------------------------------------------------------------------
(* Kill and MarkTerminated.                                                 *)

Go(s, pc) == op' = [op EXCEPT ![s].pc = pc]
End(s)    == op' = [op EXCEPT ![s] = Idle]
Dead      == [term EXCEPT !.up = FALSE, !.work = FALSE]

\* Faulty: transitions are not looked for.
KillBeside ==
  /\ kills < MaxKills /\ kills' = kills + 1 /\ op["main"].pc = "idle"
  /\ op' = [op EXCEPT !["main"] = [Idle EXCEPT !.pc = "stop", !.kind = "kill"]]
  /\ UNCHANGED <<row, procs, pending, hooks, reaper, screen, seen, made, killed>>

KillBegin ==
  /\ kills < MaxKills /\ kills' = kills + 1
  /\ op["main"].pc = "idle" /\ op["move"].pc = "idle"
  /\ op' = [op EXCEPT !["main"] = [Idle EXCEPT !.pc = "stop", !.kind = "kill"]]
  /\ UNCHANGED <<row, procs, pending, hooks, reaper, screen, seen, made, killed>>

\* A controller is stopped as well as it goes; a runtime that stays ends the kill.
KillStop ==
  /\ op["main"].pc = "stop"
  /\ \/ row.mode = "chat" /\ chat' \in {0, chat} /\ UNCHANGED term /\ Go("main", "free")
     \/ row.mode = "tui" /\ term' = (IF row.own = 0 THEN term ELSE Dead)
        /\ UNCHANGED chat /\ Go("main", "free")
     \/ row.mode = "tui" /\ UNCHANGED procs /\ End("main")
  /\ UNCHANGED <<row, pending, hooks, reaper, screen, seen, made, kills, killed>>

\* The reviewer, the shells and the worktree go next, or fail the kill.
KillFree ==
  /\ op["main"].pc = "free" /\ (Go("main", "read") \/ End("main"))
  /\ UNCHANGED <<row, procs, pending, hooks, reaper, screen, seen, made, kills, killed>>

\* MarkTerminated reads the row, finalizes the usage of the launch it has read,
Done(s) == End(s) /\ killed' = (killed \/ op[s].kind = "kill")

MarkRead(s) ==
  /\ op[s].pc = "read"
  /\ IF row.over THEN Done(s) /\ UNCHANGED seen
     ELSE /\ op' = [op EXCEPT ![s].pc = "mark", ![s].gen = row.own]
          /\ seen' = seen \cup {s} /\ UNCHANGED killed
  /\ UNCHANGED <<row, procs, pending, hooks, reaper, screen, made, kills>>

\* and writes against its revision, or starts over, or finds another launch.
MarkWrite(s) ==
  /\ op[s].pc = "mark"
  /\ \/ ~row.over /\ s \in seen /\ Done(s)
        /\ Write([row EXCEPT !.over = TRUE, !.act = "exited", !.age = 0])
     \/ ~row.over /\ s \notin seen /\ row.own = op[s].gen /\ Go(s, "read") /\ UNCHANGED <<row, seen, killed>>
     \/ /\ row.over \/ row.own # op[s].gen
        /\ IF row.over THEN Done(s) ELSE (End(s) /\ UNCHANGED killed)
        /\ UNCHANGED <<row, seen>>
  /\ UNCHANGED <<procs, pending, hooks, reaper, screen, made, kills>>

-----------------------------------------------------------------------------
(* Relaunch: RestoreWithMode of a terminated session, ResumeAgentWithMode of *)
(* one whose agent exited.                                                   *)

RelaunchBegin ==
  /\ op["main"].pc = "idle" /\ op["move"].pc = "idle"
  /\ row.over \/ (row.mode = "chat" /\ chat = 0) \/ (row.mode = "tui" /\ row.own # 0 /\ row.act = "exited")
  /\ op' = [op EXCEPT !["main"] = [Idle EXCEPT !.pc = "start", !.kind = "relaunch"]]
  /\ killed' = FALSE
  /\ UNCHANGED <<row, procs, pending, hooks, reaper, screen, seen, made, kills>>

\* A failed start ends a relaunch, turns a handoff back, and a second time leaves it.
Fail(s) == op' = [op EXCEPT ![s] = CASE @.kind = "there" -> [Idle EXCEPT !.pc = "restore", !.kind = "back"]
                                     [] OTHER -> Idle]

\* PrepareLaunch: from here hooks of the launch wait.
Prepare(s) ==
  /\ op[s].pc = "start" /\ row.mode = "tui"
  /\ \/ pending = 0 /\ made < MaxLaunches /\ made' = made + 1 /\ pending' = made'
        /\ op' = [op EXCEPT ![s].pc = "create", ![s].gen = made']
     \/ Fail(s) /\ UNCHANGED <<pending, made>>
  /\ UNCHANGED <<row, procs, hooks, reaper, screen, seen, kills, killed>>

\* restartRuntime or Create; a failure may have destroyed the old runtime first.
Create(s) ==
  /\ op[s].pc = "create"
  /\ \/ term' = [by |-> op[s].gen, up |-> TRUE, work |-> TRUE] /\ Go(s, "spawn") /\ UNCHANGED pending
     \/ term' \in {term, Dead} /\ pending' = 0 /\ Fail(s)
  /\ UNCHANGED <<row, chat, hooks, reaper, screen, seen, made, kills, killed>>

Spawned(g) == [row EXCEPT !.own = g, !.over = FALSE, !.act = "idle", !.age = 0]

\* MarkSpawned commits the launch and lets its hooks in; when the prompt cannot be
\* delivered after that the session is terminated, when the store fails it is as it was.
Spawn(s) ==
  /\ op[s].pc = "spawn" /\ pending' = 0
  /\ \/ Write(Spawned(op[s].gen)) /\ UNCHANGED term /\ End(s)
     \/ Write(Spawned(op[s].gen)) /\ term' \in {term, Dead} /\ Go(s, "read")
     \/ UNCHANGED <<row, seen>> /\ term' \in {term, Dead} /\ Fail(s)
  /\ UNCHANGED <<chat, hooks, reaper, screen, made, kills, killed>>

\* Chat is connected and committed by the same service call.
ChatStart(s) ==
  /\ op[s].pc = "start" /\ row.mode = "chat"
  /\ \/ made < MaxLaunches /\ made' = made + 1 /\ chat' = made' /\ Write(Spawned(made')) /\ End(s)
     \/ Fail(s) /\ UNCHANGED <<row, seen, chat, made>>
  /\ UNCHANGED <<term, pending, hooks, reaper, screen, kills, killed>>

-----------------------------------------------------------------------------
(* Handoff, in outline: module Handoff has its saga.                        *)

Other(mode) == IF mode = "tui" THEN "chat" ELSE "tui"

MoveBegin ==
  /\ op["move"].pc = "idle" /\ (Overlap \/ op["main"].pc = "idle")
  /\ ~row.over /\ row.own # 0 /\ made < MaxLaunches
  /\ op' = [op EXCEPT !["move"] = [Idle EXCEPT !.pc = "stop", !.kind = "there"]]
  /\ UNCHANGED <<row, procs, pending, hooks, reaper, screen, seen, made, kills, killed>>

MoveStop ==
  /\ op["move"].pc = "stop"
  /\ \/ row.mode = "tui" /\ term' = Dead /\ UNCHANGED chat /\ Go("move", "epoch")
     \/ row.mode = "chat" /\ chat' = 0 /\ UNCHANGED term /\ Go("move", "epoch")
     \/ UNCHANGED procs /\ End("move")
  /\ UNCHANGED <<row, pending, hooks, reaper, screen, seen, made, kills, killed>>

\* CommitControllerEpoch, and RestoreControllerEpoch on the way back.  When the first
\* is refused, of a terminated session too, the source is started again as it is.
MoveEpoch ==
  /\ op["move"].pc \in {"epoch", "restore"}
  /\ \/ ~row.over /\ Go("move", "start")
        /\ Write([row EXCEPT !.mode = Other(@), !.own = 0, !.act = "idle", !.age = 0])
     \/ op["move"].pc = "epoch" /\ UNCHANGED <<row, seen>>
        /\ op' = [op EXCEPT !["move"] = [@ EXCEPT !.pc = "start", !.kind = "back"]]
     \/ op["move"].pc = "restore" /\ End("move") /\ UNCHANGED <<row, seen>>
  /\ UNCHANGED <<procs, pending, hooks, reaper, screen, made, kills, killed>>

-----------------------------------------------------------------------------
(* Specification.                                                           *)

Agents  == Works \/ AgentExits \/ RuntimeDies \/ Loses
Reaper  == ReaperList \/ ReaperApply \/ ReaperFinal
Running == \/ KillStop \/ KillFree \/ MoveStop \/ MoveEpoch
           \/ \E s \in Slots : \/ MarkRead(s) \/ MarkWrite(s) \/ Prepare(s)
                               \/ Create(s) \/ Spawn(s) \/ ChatStart(s)
Next == \/ Agents \/ Tick \/ Signal \/ ScreenRead \/ ScreenSignal
        \/ Reaper \/ ReaperProbe \/ ReaperDoubts
        \/ KillBegin \/ RelaunchBegin \/ MoveBegin \/ Running

Spec == Init /\ [][Next]_vars

\* Every call returns, hooks are delivered or lost, the reaper goes on passing, and a
\* probe that fails does not fail for ever.
FairSpec == /\ Spec /\ WF_vars(Running) /\ WF_vars(Signal) /\ WF_vars(ScreenSignal)
            /\ WF_vars(Reaper) /\ SF_vars(ReaperProbe) /\ SF_vars(Tick)

-----------------------------------------------------------------------------
(* Correctness.                                                             *)

Owned == ~row.over /\ row.mode = "tui" /\ row.own # 0
Runs  == term.by = row.own /\ term.work

\* A probe that began before a relaunch must not end the session that came of it: the
\* reaper terminates a terminal session only when the runtime of its launch is gone.
DeadIsDead == [][row.mode = "tui" /\ reaper.pc = "final" /\ ~row.over /\ row'.over /\ reaper'.pc = "idle"
                => ~(term.up /\ term.by = row.own)]_vars

\* No late hook, probe or screen reading makes a working agent look exited, which would
\* allow a resume beside it.
ExitedIsReal == Owned /\ row.act = "exited" => ~Runs

\* A session its user has killed stays dead until somebody relaunches it, whatever a
\* handoff, the reaper and late hooks do.
KilledStaysDead == killed => row.over

Unnoticed == Owned /\ ~Runs /\ row.act # "exited" /\ \A s \in Slots : op[s].pc = "idle"

\* An agent that is gone without a word is noticed, except on a session whose last word
\* was a question and whose runtime died: the reaper lets that one wait for its user.
DeathNoticed == Unnoticed ~> ~Unnoticed \/ (row.act \in Sticky /\ ~term.up)

\* What reaper.go says of Chat, and the code does not keep: no pass of the reaper ends a
\* session that is in Chat by the time its answer is applied.
ChatIsNotProbed == [][reaper.pc = "final" /\ row.mode = "chat" /\ ~row.over /\ reaper'.pc = "idle" => ~row'.over]_vars

=============================================================================

------------------------------ MODULE Handoff ------------------------------
(***************************************************************************)
(* The interface handoff of one session: the durable saga that moves a     *)
(* native conversation between the terminal controller ("tui") and the     *)
(* structured controller ("chat").                                         *)
(*                                                                         *)
(* Code: session_manager/interface_transition.go (the saga and its boot    *)
(* recovery), lifecycle/manager.go (the controller epoch and MarkSpawned), *)
(* the transition store, the handoff gate of service/chat/controller.go,   *)
(* and the exclusive operations of session_manager/manager.go, which run   *)
(* beside the saga.                                                        *)
(*                                                                         *)
(* Every step of a worker that touches state shared with another goroutine *)
(* or that a crash can separate from the next one is an action.  Data that *)
(* only decides whether a step succeeds (native ids, surface probes, exact *)
(* error codes) is a nondeterministic outcome of that step.                *)
(***************************************************************************)
EXTENDS Naturals, FiniteSets

CONSTANTS
  Transitions,      \* identities of the transitions clients may start
  NoTransition,     \* "no worker registered"
  MaxQueued,        \* bound: turns that wait behind the running one
  MaxCrashes,       \* bound: daemon crashes
  MaxFaults,        \* bound: failed calls of the store
  OverlapOps,       \* TRUE: a transition may be created under a running
                    \* exclusive operation, as the code allows
  CleanupReliable   \* TRUE: a TUI whose MarkSpawned failed is always destroyed

ASSUME TransitionsAssumption == NoTransition \notin Transitions
ASSUME BoundsAssumption == {MaxQueued, MaxCrashes, MaxFaults} \subseteq Nat
ASSUME SwitchesAssumption == {OverlapOps, CleanupReliable} \subseteq BOOLEAN

VARIABLES
  mode,         \* sessions.session_mode: the interface that owns the session
  terminated,   \* sessions.is_terminated
  handle,       \* sessions.runtime_handle_id is not empty
  live,         \* controllers that have a process
  fence,        \* Controller.handoff of the live Chat controller
  running,      \* the agent works on an accepted turn
  queued,       \* accepted Chat turns waiting behind it (durable rows)
  row,          \* session_interface_transitions
  pc,           \* where the request, then the worker, of a transition is
  verdict,      \* how a worker that fails before the stop ends its row
  ctxDone,      \* the worker's context is cancelled
  relaunched,   \* the launch identity has changed since the worker read it
  gate,         \* workers that hold the raw terminal input gate
  run,          \* Manager.transitions[session]
  cancel,       \* the cancel request in flight
  op,           \* Manager.agentOperations[session] and its progress
  daemon,       \* boot recovery, or serving
  crashes, faults

session == <<mode, terminated, handle>>
agent   == <<live, fence, running, queued>>
worker  == <<pc, verdict, ctxDone, relaunched, gate, run>>
env     == <<daemon, crashes, faults>>
vars    == <<session, agent, row, worker, cancel, op, env>>

Modes    == {"tui", "chat"}
Policies == {"drain", "interrupt"}
Fences   == {"open"} \cup Policies

Cancellable    == {"requested", "preflighting", "draining"}
TerminalPhases == {"completed", "failed", "cancelled", "recovery_required"}
Phases         == {"absent", "source_stopping", "source_stopped", "target_starting",
                   "activating"} \cup Cancellable \cup TerminalPhases

Rows  == [phase: Phases, source: Modes, policy: Policies, unconfirmed: BOOLEAN]
NoRow == [phase |-> "absent", source |-> "tui", policy |-> "drain", unconfirmed |-> FALSE]

Opposite(m) == IF m = "tui" THEN "chat" ELSE "tui"
Source(i)   == row[i].source
Target(i)   == Opposite(row[i].source)
Active(i)   == row[i].phase \notin TerminalPhases \cup {"absent"}
NoActive    == \A i \in Transitions : ~Active(i)

\* The request half of a transition, and its worker before and after the stop.
Requesting == {"idle", "admitted", "arming", "armFailed", "registering"}
BeforeStop == {"begin", "check", "preflight", "prepare", "quiesce", "reread",
               "stopping", "aborting", "finishing"}
AfterStop  == {"stopSource", "stopped", "commit", "targetStarting", "startTarget",
               "markTarget", "unsettled", "retryTarget", "remarkTarget", "activating",
               "completing", "rbStopTarget", "rbRestore", "rbCleanup", "rbStart",
               "rbMark", "rbFinish", "recovering", "retain"}
Labels     == Requesting \cup BeforeStop \cup AfterStop \cup {"done"}

IdleCancel == [pc |-> "idle", of |-> NoTransition, phase |-> "requested"]
NoOp       == [kind |-> "none", mode |-> "tui", pc |-> "launch"]

SessionType == mode \in Modes /\ terminated \in BOOLEAN /\ handle \in BOOLEAN
AgentType   == /\ live \in SUBSET Modes /\ fence \in Fences
               /\ running \in BOOLEAN /\ queued \in 0..MaxQueued
RowType     == row \in [Transitions -> Rows]
PcType      == pc \in [Transitions -> Labels]
WorkerType  == /\ verdict \in [Transitions -> {"failed", "cancelled"}]
               /\ ctxDone \in [Transitions -> BOOLEAN]
               /\ relaunched \in [Transitions -> BOOLEAN]
               /\ gate \in SUBSET Transitions
               /\ run \in Transitions \cup {NoTransition}
RequestType == /\ cancel \in [pc: {"idle", "read", "won"},
                              of: Transitions \cup {NoTransition}, phase: Cancellable]
               /\ op \in [kind: {"none", "kill", "exit", "resume"}, mode: Modes,
                          pc: {"launch", "mark", "stop"}]
EnvType     == /\ daemon \in {"recovering", "restoring", "up"}
               /\ crashes \in 0..MaxCrashes /\ faults \in 0..MaxFaults

TypeOK == /\ SessionType /\ AgentType /\ RowType /\ PcType /\ WorkerType
          /\ RequestType /\ EnvType

Init ==
  /\ mode \in Modes
  /\ terminated = FALSE
  /\ handle = (mode = "tui")
  /\ live = {mode}
  /\ fence = "open" /\ running = FALSE /\ queued = 0
  /\ row = [i \in Transitions |-> NoRow]
  /\ pc = [i \in Transitions |-> "idle"]
  /\ verdict = [i \in Transitions |-> "failed"]
  /\ ctxDone = [i \in Transitions |-> FALSE]
  /\ relaunched = [i \in Transitions |-> FALSE]
  /\ gate = {} /\ run = NoTransition
  /\ cancel = IdleCancel /\ op = NoOp
  /\ daemon = "up" /\ crashes = 0 /\ faults = 0

-----------------------------------------------------------------------------
(* What every worker step is made of.                                      *)

Goto(i, label) == pc' = [pc EXCEPT ![i] = label]

\* A failed store call: SQLite busy past its timeout, disk full, deadline.
StoreFault == faults < MaxFaults /\ faults' = faults + 1

\* AdvanceSessionInterfaceTransition: a CAS on the phase, which also overwrites
\* the error code.  moveInterfaceTransition retries it until the row is terminal.
Advance(i, next) ==
  /\ Active(i)
  /\ row' = [row EXCEPT ![i].phase = next, ![i].unconfirmed = FALSE]

MoveRefused(i) ==
  /\ \/ ~Active(i) /\ UNCHANGED faults
     \/ StoreFault
  /\ UNCHANGED row

Move(i, next, then, else) ==
  /\ \/ Advance(i, next) /\ Goto(i, then) /\ UNCHANGED faults
     \/ MoveRefused(i) /\ Goto(i, else)
  /\ UNCHANGED <<session, agent, verdict, ctxDone, relaunched, gate, run,
                 cancel, op, daemon, crashes>>

\* The deferred calls of runInterfaceTransition.
Exit(i) ==
  /\ Goto(i, "done")
  /\ run' = IF run = i THEN NoTransition ELSE run
  /\ gate' = gate \ {i}
  /\ UNCHANGED <<session, agent, verdict, ctxDone, relaunched, cancel, op, daemon, crashes>>

\* finishInterfaceTransition, whose error every caller drops.
Finish(i, phase) ==
  /\ \/ Advance(i, phase) /\ UNCHANGED faults
     \/ MoveRefused(i)
  /\ Exit(i)

\* The fail closure before the source is stopped: Chat must reopen its intake.
FailLabel(i) == IF Source(i) = "chat" THEN "aborting" ELSE "finishing"
Fail(i, v) == Goto(i, FailLabel(i)) /\ verdict' = [verdict EXCEPT ![i] = v]

Serving == daemon = "up"
At(i, label) == Serving /\ pc[i] = label

\* A controller starts, or stops.  Only a Chat process carries the handoff gate.
StartProcess(m) ==
  /\ live' = live \cup {m}
  /\ UNCHANGED <<fence, running, queued>>

StopProcess(m) ==
  /\ live' = live \ {m}
  /\ fence' = IF m = "chat" THEN "open" ELSE fence
  /\ running' = (running /\ m \notin live)
  /\ UNCHANGED queued

\* A TUI is destroyed through the handle its row names; without one there is
\* nothing to destroy and the call succeeds.
StopOwner(m) == IF m = "tui" /\ ~handle THEN UNCHANGED agent ELSE StopProcess(m)

\* The launch identity of the session row changes: every snapshot is stale.
NewIdentity == relaunched' = [i \in Transitions |-> TRUE]

-----------------------------------------------------------------------------
(* StartInterfaceTransition: the request.                                   *)

\* The record is read first and validated; the row is written later.  A TUI
\* whose launch identity is not recorded cannot prove its native conversation.
StartRead(i, policy) ==
  /\ At(i, "idle") /\ row[i] = NoRow
  /\ ~terminated
  /\ mode = "tui" => handle
  /\ row' = [row EXCEPT ![i].source = mode, ![i].policy = policy]
  /\ Goto(i, "admitted")
  /\ UNCHANGED <<session, agent, verdict, ctxDone, relaunched, gate, run, cancel, op, env>>

\* Faulty: no unique index over the active rows of a session.
StartCreateBeside(i) ==
  /\ At(i, "admitted")
  /\ row' = [row EXCEPT ![i].phase = "requested"]
  /\ Goto(i, IF Source(i) = "chat" THEN "arming" ELSE "registering")
  /\ UNCHANGED <<session, agent, verdict, ctxDone, relaunched, gate, run, cancel, op, env>>

\* CreateSessionInterfaceTransition: one active row per session, or refused.
StartCreate(i) ==
  /\ At(i, "admitted")
  /\ OverlapOps \/ op.kind = "none"
  /\ IF NoActive
     THEN /\ row' = [row EXCEPT ![i].phase = "requested"]
          /\ Goto(i, IF Source(i) = "chat" THEN "arming" ELSE "registering")
     ELSE /\ row' = [row EXCEPT ![i] = NoRow]
          /\ Goto(i, "idle")
  /\ UNCHANGED <<session, agent, verdict, ctxDone, relaunched, gate, run, cancel, op, env>>

\* Faulty: the request returns and leaves the fence to its worker.
StartArmLater(i) ==
  /\ At(i, "arming") /\ Goto(i, "registering")
  /\ UNCHANGED <<session, agent, row, verdict, ctxDone, relaunched, gate, run, cancel, op, env>>

\* ArmHandoff on the live controller.  It knows the policy, not the transition:
\* a gate already armed with the same policy is success.  The request's own
\* context may be gone.
StartArm(i) ==
  /\ At(i, "arming")
  /\ \/ "chat" \notin live /\ Goto(i, "registering") /\ UNCHANGED fence
     \/ /\ "chat" \in live /\ fence \in {"open", row[i].policy}
        /\ fence' = row[i].policy
        /\ Goto(i, "registering")
     \/ "chat" \in live /\ Goto(i, "armFailed") /\ UNCHANGED fence
  /\ UNCHANGED <<session, live, running, queued, row, verdict, ctxDone, relaunched, gate,
                 run, cancel, op, env>>

\* SOURCE_FENCE_FAILED: the row is closed and no worker ever runs.
StartArmFailed(i) == At(i, "armFailed") /\ Finish(i, "failed")

StartWorker(i) ==
  /\ At(i, "registering")
  /\ run' = i
  /\ Goto(i, "begin")
  /\ UNCHANGED <<session, agent, row, verdict, ctxDone, relaunched, gate, cancel, op, env>>

-----------------------------------------------------------------------------
(* runInterfaceTransition up to the point of no return.                     *)

MovePreflighting(i) ==
  At(i, "begin") /\ Move(i, "preflighting", "check", FailLabel(i))

\* A context-bound call of a worker whose context is cancelled.
CtxFails(i) ==
  /\ ctxDone[i] /\ Fail(i, "cancelled")
  /\ UNCHANGED <<session, agent, row, ctxDone, relaunched, gate, run, cancel, op, env>>

\* GetSession, the SESSION_CHANGED test, the handle snapshot and, for a TUI, the
\* raw input gate, which is closed before the first idle observation.
CheckSession(i) ==
  /\ At(i, "check")
  /\ \/ CtxFails(i)
     \/ /\ ~ctxDone[i]
        /\ IF terminated \/ mode # Source(i)
           THEN Fail(i, "failed") /\ UNCHANGED <<relaunched, gate>>
           ELSE /\ Goto(i, "preflight")
                /\ relaunched' = [relaunched EXCEPT ![i] = FALSE]
                /\ gate' = IF mode = "tui" /\ handle THEN gate \cup {i} ELSE gate
                /\ UNCHANGED verdict
        /\ UNCHANGED <<session, agent, row, ctxDone, run, cancel, op, env>>

\* preflightInterfaceTarget and, when it accepts, the move to draining.
MoveDraining(i) ==
  /\ At(i, "preflight")
  /\ \/ CtxFails(i)
     \/ ~ctxDone[i] /\ Move(i, "draining", "prepare", FailLabel(i))
     \/ /\ Fail(i, "failed")
        /\ UNCHANGED <<session, agent, row, ctxDone, relaunched, gate, run, cancel, op, env>>

\* prepareSourceHandoff on Chat: BeginHandoff re-arms the gate, and an interrupt
\* settles the queue at once while a drain goes on to wait.  The interrupt of the
\* running turn may fail after the queue is gone.
PrepareChat(i) ==
  /\ At(i, "prepare") /\ Source(i) = "chat"
  /\ \/ "chat" \notin live /\ Goto(i, "reread") /\ UNCHANGED <<fence, queued, verdict, faults>>
     \/ /\ "chat" \in live /\ ctxDone[i]
        /\ Fail(i, "cancelled") /\ UNCHANGED <<fence, queued, faults>>
     \/ /\ "chat" \in live /\ fence \notin {"open", row[i].policy}
        /\ Fail(i, "failed") /\ UNCHANGED <<fence, queued, faults>>
     \/ /\ "chat" \in live /\ ~ctxDone[i] /\ fence \in {"open", row[i].policy}
        /\ \/ /\ row[i].policy = "drain"
              /\ fence' = "drain" /\ Goto(i, "quiesce") /\ UNCHANGED <<queued, verdict, faults>>
           \/ /\ row[i].policy = "interrupt"
              /\ fence' = "interrupt" /\ queued' = 0
              /\ Goto(i, "reread") /\ UNCHANGED <<verdict, faults>>
           \/ /\ row[i].policy = "interrupt"
              /\ fence' = "open" /\ Fail(i, "failed")
              /\ \/ StoreFault /\ UNCHANGED queued
                 \/ running /\ queued' = 0 /\ UNCHANGED faults
  /\ UNCHANGED <<session, live, running, row, ctxDone, relaunched, gate, run, cancel, op,
                 daemon, crashes>>

\* The wait loop of a Chat drain.  A cancelled context, or a queue that cannot be
\* read, reopens the gate here and once more in the worker's fail closure.
QuiesceChat(i) ==
  /\ At(i, "quiesce")
  /\ \/ /\ "chat" \notin live \/ (~running /\ queued = 0)
        /\ Goto(i, "reread") /\ UNCHANGED <<fence, verdict, faults>>
     \/ /\ "chat" \in live /\ ctxDone[i]
        /\ fence' = "open" /\ Fail(i, "cancelled") /\ UNCHANGED faults
     \/ /\ "chat" \in live /\ ~running
        /\ fence' = "open" /\ Fail(i, "failed") /\ StoreFault
  /\ UNCHANGED <<session, live, running, queued, row, ctxDone, relaunched, gate, run,
                 cancel, op, daemon, crashes>>

\* prepareSourceHandoff on a TUI: it ends when the agent is proved idle or its
\* process gone, or refuses (pending decision, draft, idle never proved).
PrepareTui(i) ==
  /\ At(i, "prepare") /\ Source(i) = "tui"
  /\ \/ CtxFails(i)
     \/ /\ ~ctxDone[i]
        /\ \/ /\ "tui" \notin live \/ (handle /\ (row[i].policy = "interrupt" \/ ~running))
              /\ Goto(i, "reread") /\ UNCHANGED verdict
           \/ Fail(i, "failed")
        /\ UNCHANGED <<session, agent, row, ctxDone, relaunched, gate, run, cancel, op, env>>

\* The second read, after input is frozen: a TUI (or an untouched Chat) must
\* still be the same launch in the same mode, with a provable conversation.
Reread(i) ==
  /\ At(i, "reread")
  /\ \/ CtxFails(i)
     \/ /\ \/ /\ Source(i) = "chat" \/ (~relaunched[i] /\ mode = Source(i) /\ ~ctxDone[i])
              /\ Goto(i, "stopping") /\ UNCHANGED verdict
           \/ ~ctxDone[i] /\ Fail(i, "failed")
        /\ UNCHANGED <<session, agent, row, ctxDone, relaunched, gate, run, cancel, op, env>>

\* The move a cancellation races with: the row decides which of them wins.
MoveSourceStopping(i) ==
  At(i, "stopping") /\ Move(i, "source_stopping", "stopSource", FailLabel(i))

\* abortSourceHandoff reaches whatever Chat controller the session has now.
AbortSource(i) ==
  /\ At(i, "aborting")
  /\ fence' = "open"
  /\ Goto(i, "finishing")
  /\ UNCHANGED <<session, live, running, queued, row, verdict, ctxDone, relaunched, gate,
                 run, cancel, op, env>>

FinishBeforeStop(i) == At(i, "finishing") /\ Finish(i, verdict[i])

-----------------------------------------------------------------------------
(* The stop, the epoch and the target.                                      *)

\* Faulty: a stop that could not be confirmed is taken for one that was.
StopSourceAssumed(i) ==
  /\ At(i, "stopSource") /\ Goto(i, "stopped")
  /\ UNCHANGED <<session, agent, row, verdict, ctxDone, relaunched, gate, run, cancel, op, env>>

\* stopSourceControllerConclusive: proved stopped, or SOURCE_STOP_UNCERTAIN.
StopSource(i) ==
  /\ At(i, "stopSource")
  /\ \/ StopOwner(Source(i)) /\ Goto(i, "stopped")
     \/ Goto(i, "recovering") /\ UNCHANGED agent
  /\ UNCHANGED <<session, row, verdict, ctxDone, relaunched, gate, run, cancel, op, env>>

FinishRecovery(i) == At(i, "recovering") /\ Finish(i, "recovery_required")

MoveSourceStopped(i) ==
  At(i, "stopped") /\ Move(i, "source_stopped", "commit", "rbCleanup")

\* changeControllerEpoch: a CAS on mode and is_terminated that clears the
\* process identity of the row.
ChangeEpoch(from) ==
  /\ ~terminated /\ mode = from
  /\ mode' = Opposite(from) /\ handle' = FALSE
  /\ NewIdentity
  /\ UNCHANGED terminated

\* CommitControllerEpoch under the worker's context.
CommitEpoch(i) ==
  /\ At(i, "commit")
  /\ \/ /\ ~ctxDone[i] /\ ChangeEpoch(Source(i))
        /\ Goto(i, "targetStarting") /\ UNCHANGED faults
     \/ /\ \/ (ctxDone[i] \/ terminated \/ mode # Source(i)) /\ UNCHANGED faults
           \/ StoreFault
        /\ Goto(i, "rbCleanup") /\ UNCHANGED <<session, relaunched>>
  /\ UNCHANGED <<agent, row, verdict, ctxDone, gate, run, cancel, op, daemon, crashes>>

MoveTargetStarting(i) ==
  At(i, "targetStarting") /\ Move(i, "target_starting", "startTarget", "rbStopTarget")

\* A TUI launch is registered between PrepareLaunch and MarkSpawned; a second
\* one is refused meanwhile.
LaunchLabels == {"markTarget", "remarkTarget", "rbMark"}
TuiLaunchInFlight ==
  \/ op.kind = "resume" /\ op.pc = "mark" /\ op.mode = "tui"
  \/ mode = "tui" /\ \E i \in Transitions : pc[i] \in LaunchLabels

\* relaunchSessionWithPolicy up to the live process: it starts the controller of
\* the committed mode.  Creating a TUI beside a live one fails.
Launch(i, then, else) ==
  /\ \/ /\ ~(mode = "tui" /\ ("tui" \in live \/ TuiLaunchInFlight))
        /\ StartProcess(mode) /\ Goto(i, then)
        /\ IF mode = "chat" THEN NewIdentity ELSE UNCHANGED relaunched
     \/ Goto(i, else) /\ UNCHANGED <<agent, relaunched>>
  /\ UNCHANGED <<session, row, verdict, ctxDone, gate, run, cancel, op, env>>

\* markSpawned: the session is live again, whatever it was.
MarkSpawned(m) ==
  /\ terminated' = FALSE /\ handle' = (m = "tui")
  /\ NewIdentity
  /\ UNCHANGED mode

\* The rest of the launch.  When MarkSpawned fails the process is destroyed; a
\* Chat stop is best effort.
MarkFails(m) ==
  /\ UNCHANGED <<session, relaunched>>
  /\ \/ StopProcess(m)
     \/ (m = "chat" \/ ~CleanupReliable) /\ UNCHANGED agent

\* A TUI that was recorded and cannot be given its prompt is destroyed and its
\* session terminated; neither result is looked at.
PromptFails(m) ==
  /\ m = "tui"
  /\ StopProcess(m) \/ UNCHANGED agent
  /\ terminated' \in BOOLEAN /\ handle' = TRUE
  /\ NewIdentity
  /\ UNCHANGED mode

Mark(i, bound, then, else) ==
  /\ \/ ~bound /\ MarkSpawned(mode) /\ Goto(i, then) /\ UNCHANGED agent
     \/ MarkFails(mode) /\ Goto(i, else)
     \/ ~bound /\ PromptFails(mode) /\ Goto(i, else)
  /\ UNCHANGED <<row, verdict, ctxDone, gate, run, cancel, op, env>>

StartTarget(i) ==
  /\ At(i, "startTarget")
  /\ \/ ~ctxDone[i] /\ Launch(i, "markTarget", "rbStopTarget")
     \/ /\ ctxDone[i] /\ Goto(i, "rbStopTarget")
        /\ UNCHANGED <<session, agent, row, verdict, ctxDone, relaunched, gate, run, cancel,
                       op, env>>

\* A Chat target may find its native history unsettled: it is stopped and started
\* once more inside the same transition.
MarkTarget(i) ==
  /\ At(i, "markTarget")
  /\ Mark(i, ctxDone[i], "activating", IF Target(i) = "chat" THEN "unsettled" ELSE "rbStopTarget")

\* The first start of a Chat target failed: unsettled history, or anything else.
UnsettledTarget(i) ==
  /\ At(i, "unsettled")
  /\ \/ StopOwner(Target(i)) /\ Goto(i, "retryTarget")
     \/ UNCHANGED agent /\ Goto(i, "retain")
     \/ UNCHANGED agent /\ Goto(i, "rbStopTarget")
  /\ UNCHANGED <<session, row, verdict, ctxDone, relaunched, gate, run, cancel, op, env>>

RetryTarget(i) ==
  /\ At(i, "retryTarget")
  /\ \/ ~ctxDone[i] /\ Launch(i, "remarkTarget", "rbStopTarget")
     \/ /\ ctxDone[i] /\ Goto(i, "rbStopTarget")
        /\ UNCHANGED <<session, agent, row, verdict, ctxDone, relaunched, gate, run, cancel,
                       op, env>>

RemarkTarget(i) ==
  At(i, "remarkTarget") /\ Mark(i, ctxDone[i], "activating", "rbStopTarget")

\* retainUnconfirmedTransitionTarget: the row stays active, so that the session
\* stays fenced until the next boot confirms the shutdown.
RetainTarget(i) ==
  /\ At(i, "retain")
  /\ \/ /\ Active(i) /\ UNCHANGED faults
        /\ row' = [row EXCEPT ![i].phase = "target_starting", ![i].unconfirmed = TRUE]
     \/ MoveRefused(i)
  /\ Exit(i)

MoveActivating(i) ==
  At(i, "activating") /\ Move(i, "activating", "completing", "recovering")

Complete(i) == At(i, "completing") /\ Finish(i, "completed")

-----------------------------------------------------------------------------
(* rollbackInterfaceTransition.                                             *)

\* Faulty: a target that failed to start is presumed dead.
RollbackPresumeDead(i) ==
  /\ At(i, "rbStopTarget") /\ mode = Target(i) /\ Goto(i, "rbRestore")
  /\ UNCHANGED <<session, agent, row, verdict, ctxDone, relaunched, gate, run, cancel, op, env>>

\* stopTransitionTargetConclusive, asked only after the epoch was committed.
RollbackStopTarget(i) ==
  /\ At(i, "rbStopTarget")
  /\ \/ mode = Target(i) /\ StopOwner(Target(i)) /\ Goto(i, "rbRestore")
     \/ UNCHANGED agent /\ Goto(i, "retain")
  /\ UNCHANGED <<session, row, verdict, ctxDone, relaunched, gate, run, cancel, op, env>>

\* Faulty: a failed RestoreControllerEpoch is logged and the rollback goes on.
RollbackEpochLogged(i) ==
  /\ At(i, "rbRestore") /\ Goto(i, "rbCleanup")
  /\ \/ ChangeEpoch(Target(i)) /\ UNCHANGED faults
     \/ StoreFault /\ UNCHANGED <<session, relaunched>>
  /\ UNCHANGED <<agent, row, verdict, ctxDone, gate, run, cancel, op, daemon, crashes>>

\* RestoreControllerEpoch.
RollbackEpoch(i) ==
  /\ At(i, "rbRestore")
  /\ \/ ChangeEpoch(Target(i)) /\ Goto(i, "rbCleanup") /\ UNCHANGED faults
     \/ /\ \/ (terminated \/ mode # Target(i)) /\ UNCHANGED faults
           \/ StoreFault
        /\ Goto(i, "recovering") /\ UNCHANGED <<session, relaunched>>
  /\ UNCHANGED <<agent, row, verdict, ctxDone, gate, run, cancel, op, daemon, crashes>>

\* The stale registration of the source runtime, by the handle read at the start.
RollbackCleanup(i) ==
  /\ At(i, "rbCleanup")
  /\ \/ Source(i) = "chat" /\ Goto(i, "rbStart") /\ UNCHANGED agent
     \/ Source(i) = "tui" /\ StopProcess("tui") /\ Goto(i, "rbStart")
     \/ Source(i) = "tui" /\ Goto(i, "recovering") /\ UNCHANGED agent
  /\ UNCHANGED <<session, row, verdict, ctxDone, relaunched, gate, run, cancel, op, env>>

RollbackStart(i) == At(i, "rbStart") /\ Launch(i, "rbMark", "recovering")
RollbackMark(i)  == At(i, "rbMark") /\ Mark(i, FALSE, "rbFinish", "recovering")
RollbackFinish(i) == At(i, "rbFinish") /\ Finish(i, "failed")

-----------------------------------------------------------------------------
(* CancelInterfaceTransition.                                               *)

CancelRead(i) ==
  /\ Serving /\ cancel.pc = "idle"
  /\ Active(i) /\ row[i].phase \in Cancellable
  /\ cancel' = [pc |-> "read", of |-> i, phase |-> row[i].phase]
  /\ UNCHANGED <<session, agent, row, worker, op, env>>

\* Faulty: the phase that was read is not compared again.
CancelRowBlind ==
  /\ Serving /\ cancel.pc = "read"
  /\ row' = [row EXCEPT ![cancel.of].phase = "cancelled"]
  /\ cancel' = [cancel EXCEPT !.pc = "won"]
  /\ UNCHANGED <<session, agent, worker, op, env>>

\* One CAS against the phase that was read; losing it, or failing, refuses the
\* cancellation.
CancelRow ==
  /\ Serving /\ cancel.pc = "read"
  /\ \/ /\ row[cancel.of].phase = cancel.phase
        /\ row' = [row EXCEPT ![cancel.of].phase = "cancelled",
                              ![cancel.of].unconfirmed = FALSE]
        /\ cancel' = [cancel EXCEPT !.pc = "won"]
     \/ cancel' = IdleCancel /\ UNCHANGED row
  /\ UNCHANGED <<session, agent, worker, op, env>>

\* The worker to signal is looked up by session, after the CAS.
CancelSignal ==
  /\ Serving /\ cancel.pc = "won"
  /\ ctxDone' = IF run = NoTransition THEN ctxDone ELSE [ctxDone EXCEPT ![run] = TRUE]
  /\ cancel' = IdleCancel
  /\ UNCHANGED <<session, agent, row, pc, verdict, relaunched, gate, run, op, env>>

-----------------------------------------------------------------------------
(* Exclusive operations of the session manager: Kill, ExitAgent, and the    *)
(* relaunches (ResumeAgent, Restore, startup reconciliation).  Each refuses *)
(* to begin under an active transition and then works on the record it      *)
(* read; StartInterfaceTransition does not ask for their fence.             *)

\* Faulty: the operation does not look for an active transition.
OpBeginUnfenced(kind) ==
  /\ Serving /\ op.kind = "none"
  /\ kind = "resume" => mode \notin live
  /\ op' = [kind |-> kind, mode |-> mode, pc |-> IF kind = "resume" THEN "launch" ELSE "stop"]
  /\ UNCHANGED <<session, agent, row, worker, cancel, env>>

OpBegin(kind) ==
  /\ Serving /\ op.kind = "none" /\ NoActive
  /\ kind = "exit" => ~terminated
  /\ kind = "resume" => mode \notin live
  /\ op' = [kind |-> kind, mode |-> mode, pc |-> IF kind = "resume" THEN "launch" ELSE "stop"]
  /\ UNCHANGED <<session, agent, row, worker, cancel, env>>

\* Kill goes on when a Chat stop fails; any other failed stop ends the operation,
\* and so may a later call (the reviewer, the shells of the session).
OpStop ==
  /\ Serving /\ op.kind \in {"kill", "exit"} /\ op.pc = "stop"
  /\ \/ /\ op.kind = "kill"
        /\ StopOwner(op.mode) \/ (op.mode = "chat" /\ UNCHANGED agent)
        /\ op' = [op EXCEPT !.pc = "mark"]
     \/ /\ StopOwner(op.mode) \/ UNCHANGED agent
        /\ op' = NoOp
  /\ UNCHANGED <<session, row, worker, cancel, env>>

\* MarkTerminated, which may fail.
OpTerminate ==
  /\ Serving /\ op.kind = "kill" /\ op.pc = "mark"
  /\ terminated' \in {terminated, TRUE}
  /\ op' = NoOp
  /\ UNCHANGED <<mode, handle, agent, row, worker, cancel, env>>

\* A relaunch of the mode that was read.  A Chat start claims the generation of a
\* row still in chat mode; a TUI start has no such test.
OpLaunch ==
  /\ Serving /\ op.kind = "resume" /\ op.pc = "launch"
  /\ \/ /\ op.mode = "chat" => mode = "chat"
        /\ ~(op.mode = "tui" /\ ("tui" \in live \/ TuiLaunchInFlight))
        /\ StartProcess(op.mode)
        /\ IF op.mode = "chat" THEN NewIdentity ELSE UNCHANGED relaunched
        /\ op' = [op EXCEPT !.pc = "mark"]
     \/ op' = NoOp /\ UNCHANGED <<agent, relaunched>>
  /\ UNCHANGED <<session, row, pc, verdict, ctxDone, gate, run, cancel, env>>

OpMark ==
  /\ Serving /\ op.kind = "resume" /\ op.pc = "mark"
  /\ \/ (op.mode = "chat" => mode = "chat") /\ MarkSpawned(op.mode) /\ UNCHANGED agent
     \/ MarkFails(op.mode) \/ PromptFails(op.mode)
  /\ op' = NoOp
  /\ UNCHANGED <<row, pc, verdict, ctxDone, gate, run, cancel, env>>

-----------------------------------------------------------------------------
(* The agent and its user.                                                  *)

\* Controller.Send: refused while a handoff is armed, queued while a turn runs.
ChatSend ==
  /\ Serving /\ "chat" \in live /\ fence = "open"
  /\ IF running THEN queued < MaxQueued /\ queued' = queued + 1 /\ UNCHANGED running
                ELSE running' = TRUE /\ UNCHANGED queued
  /\ UNCHANGED <<session, live, fence, row, worker, cancel, op, env>>

\* Keystrokes through the terminal mux, refused while any worker holds the gate.
TerminalInput ==
  /\ Serving /\ "tui" \in live /\ gate = {} /\ ~running
  /\ running' = TRUE
  /\ UNCHANGED <<session, live, fence, queued, row, worker, cancel, op, env>>

TurnDone ==
  /\ running /\ live # {}
  /\ running' = FALSE
  /\ UNCHANGED <<session, live, fence, queued, row, worker, cancel, op, env>>

\* Controller.drain: the oldest queued turn, unless an interrupt is armed.
Dispatch ==
  /\ Serving /\ "chat" \in live /\ ~running /\ queued > 0 /\ fence # "interrupt"
  /\ running' = TRUE /\ queued' = queued - 1
  /\ UNCHANGED <<session, live, fence, row, worker, cancel, op, env>>

ControllerExits(m) ==
  /\ m \in live
  /\ StopProcess(m)
  /\ UNCHANGED <<session, row, worker, cancel, op, env>>

-----------------------------------------------------------------------------
(* Crash and boot recovery.                                                 *)

\* The daemon's memory is lost.  A TUI runtime, or the detached host of a Chat
\* provider, may outlive it.
Crash ==
  /\ crashes < MaxCrashes /\ crashes' = crashes + 1
  /\ \E survivors \in SUBSET live :
       /\ live' = survivors
       /\ running' = (running /\ survivors # {})
  /\ fence' = "open"
  /\ row' = [i \in Transitions |-> IF row[i].phase = "absent" THEN NoRow ELSE row[i]]
  /\ pc' = [i \in Transitions |-> IF row[i].phase = "absent" THEN "idle" ELSE "done"]
  /\ verdict' = [i \in Transitions |-> "failed"]
  /\ ctxDone' = [i \in Transitions |-> FALSE]
  /\ relaunched' = [i \in Transitions |-> FALSE]
  /\ gate' = {} /\ run' = NoTransition
  /\ cancel' = IdleCancel /\ op' = NoOp
  /\ daemon' = "recovering"
  /\ UNCHANGED <<session, queued, faults>>

\* recoverInterfaceTransitions: an unfinished TUI -> Chat, or a target whose stop
\* was never confirmed, must be shut down before the source owns the row again.
NeedsTargetStop(i) ==
  /\ Active(i) /\ (Source(i) = "tui" \/ row[i].unconfirmed)
  /\ ~terminated /\ mode = Target(i)

\* Faulty: boot gives the row back without stopping what may have survived.
RecoverUnstopped(i) ==
  /\ daemon = "recovering" /\ NeedsTargetStop(i)
  /\ daemon' = "restoring"
  /\ UNCHANGED <<session, agent, row, worker, cancel, op, crashes, faults>>

RecoverStopTarget(i) ==
  /\ daemon = "recovering" /\ NeedsTargetStop(i)
  /\ StopOwner(Target(i))
  /\ daemon' = "restoring"
  /\ UNCHANGED <<session, row, worker, cancel, op, crashes, faults>>

\* The stop could not be confirmed: the session stays quarantined, the API opens.
RecoverQuarantine(i) ==
  /\ daemon = "recovering" /\ NeedsTargetStop(i)
  /\ row' = [row EXCEPT ![i].phase = "target_starting", ![i].unconfirmed = TRUE]
  /\ daemon' = "up"
  /\ UNCHANGED <<session, agent, worker, cancel, op, crashes, faults>>

RecoverEpoch(i) ==
  /\ daemon = "restoring" /\ Active(i)
  /\ ChangeEpoch(Target(i))
  /\ daemon' = "recovering"
  /\ UNCHANGED <<agent, row, pc, verdict, ctxDone, gate, run, cancel, op, crashes, faults>>

RecoverRow(i) ==
  /\ daemon = "recovering" /\ ~NeedsTargetStop(i)
  /\ Advance(i, "recovery_required")
  /\ UNCHANGED <<session, agent, worker, cancel, op, env>>

\* Faulty: the API opens before the boot pass has settled every row.
ServeAPIEarly ==
  /\ daemon = "recovering" /\ daemon' = "up"
  /\ UNCHANGED <<session, agent, row, worker, cancel, op, crashes, faults>>

ServeAPI ==
  /\ daemon = "recovering" /\ NoActive
  /\ daemon' = "up"
  /\ UNCHANGED <<session, agent, row, worker, cancel, op, crashes, faults>>

-----------------------------------------------------------------------------

Request(i) ==
  \/ \E policy \in Policies : StartRead(i, policy)
  \/ StartCreate(i) \/ StartArm(i) \/ StartArmFailed(i) \/ StartWorker(i)

WorkerBeforeStop(i) ==
  \/ MovePreflighting(i) \/ CheckSession(i) \/ MoveDraining(i)
  \/ PrepareChat(i) \/ QuiesceChat(i) \/ PrepareTui(i) \/ Reread(i)
  \/ MoveSourceStopping(i) \/ AbortSource(i) \/ FinishBeforeStop(i)

WorkerAfterStop(i) ==
  \/ StopSource(i) \/ FinishRecovery(i) \/ MoveSourceStopped(i) \/ CommitEpoch(i)
  \/ MoveTargetStarting(i) \/ StartTarget(i) \/ MarkTarget(i) \/ UnsettledTarget(i)
  \/ RetryTarget(i) \/ RemarkTarget(i) \/ RetainTarget(i) \/ MoveActivating(i) \/ Complete(i)
  \/ RollbackStopTarget(i) \/ RollbackEpoch(i) \/ RollbackCleanup(i)
  \/ RollbackStart(i) \/ RollbackMark(i) \/ RollbackFinish(i)

Work(i) == WorkerBeforeStop(i) \/ WorkerAfterStop(i)

CancelRequest == (\E i \in Transitions : CancelRead(i)) \/ CancelRow \/ CancelSignal

Operation ==
  \/ \E kind \in {"kill", "exit", "resume"} : OpBegin(kind)
  \/ OpStop \/ OpTerminate \/ OpLaunch \/ OpMark

Agent ==
  \/ ChatSend \/ TerminalInput \/ TurnDone \/ Dispatch
  \/ \E m \in Modes : ControllerExits(m)

Recovery ==
  \/ \E i \in Transitions : \/ RecoverStopTarget(i) \/ RecoverQuarantine(i)
                            \/ RecoverEpoch(i) \/ RecoverRow(i)
  \/ ServeAPI

Next ==
  \/ \E i \in Transitions : Request(i) \/ Work(i)
  \/ CancelRequest \/ Operation \/ Agent \/ Crash \/ Recovery

Spec == Init /\ [][Next]_vars

\* Once created, a request runs on to its worker and the worker on to its end;
\* the boot pass runs to its end.  The agent finishes what it accepted and the
\* controller dispatches its queue.  No client is obliged to act.
Fairness ==
  /\ \A i \in Transitions : /\ WF_vars(StartArm(i) \/ StartArmFailed(i) \/ StartWorker(i))
                            /\ WF_vars(Work(i))
  /\ WF_vars(Recovery) /\ WF_vars(TurnDone) /\ WF_vars(Dispatch)

FairSpec == Spec /\ Fairness

-----------------------------------------------------------------------------
(* Correctness.                                                             *)

PastStop(i) == pc[i] \in AfterStop

\* Only the interface that owns the session has a controller process: the code
\* stops the old writer before it commits the epoch and the new one before it
\* rolls back ("both controllers are never live at once").
OnlyOwnerLives == live \subseteq {mode}

\* A cancellation that won durably means the source was left alone: the worker of
\* a cancelled row is never at or past the stop of the source.
CancelHonoured == \A i \in Transitions : row[i].phase = "cancelled" => ~PastStop(i)

\* The stop belongs to one saga at a time, whose row is still active: a worker
\* past it never finds that another client's request owns the session.
SingleSaga == \A i \in Transitions : PastStop(i) =>
                 /\ Active(i)
                 /\ \A j \in Transitions \ {i} : ~Active(j) /\ ~PastStop(j)

\* From the moment the request returned until the source stops, a live Chat source
\* neither accepts nor, under an interrupt, dispatches a turn.
FenceHeld ==
  \A i \in Transitions :
    /\ Active(i) /\ Source(i) = "chat" /\ "chat" \in live
    /\ pc[i] \in {"registering", "begin", "check", "preflight", "prepare", "quiesce",
                  "reread", "stopping", "stopSource"}
    => fence = row[i].policy

\* An outcome is written once: no later step reopens or rewrites a finished saga.
OutcomeIsFinal ==
  [][\A i \in Transitions : row[i].phase \in TerminalPhases => row'[i] = row[i]]_vars

\* The outcome tells the truth about the owner: a saga is recorded as completed
\* only under its target, and one that had stopped its source as failed only once
\* the source owns the session again.
OutcomeMatchesOwner ==
  [][\A i \in Transitions : Active(i) /\ row'[i].phase # row[i].phase =>
       /\ row'[i].phase = "completed" => mode' = Target(i)
       /\ row'[i].phase = "failed" /\ PastStop(i) => mode' = Source(i)]_vars

\* While a target's shutdown is unconfirmed, no process is started for the session.
QuarantineHolds ==
  [][(\E i \in Transitions : Active(i) /\ row[i].unconfirmed) => live' \subseteq live]_vars

\* A worker is signalled only for the cancellation of its own transition.
CancelSignalsOwnRun ==
  [][\A i \in Transitions : ctxDone'[i] /\ ~ctxDone[i] => row[i].phase = "cancelled"]_vars

\* A handoff that was accepted ends, or keeps the session quarantined, whatever crashes;
\* only a failed read or write of the store may leave it for the next start.
HandoffEnds ==
  \A i \in Transitions :
    (row[i].phase = "requested") ~> (~Active(i) \/ row[i].unconfirmed \/ faults > 0)

=============================================================================

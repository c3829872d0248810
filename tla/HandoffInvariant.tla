-------------------------- MODULE HandoffInvariant --------------------------
(***************************************************************************)
(* The inductive invariant behind OnlyOwnerLives, and the refinement of    *)
(* ControllerOwnership.                                                    *)
(***************************************************************************)
EXTENDS Handoff

\* The handoff implements the abstract owner of a session: mode is the owner and
\* the live controller processes are its writers.
Ownership == INSTANCE ControllerOwnership
               WITH Owners <- Modes, owner <- mode, writers <- live

ImplementsOwnership == Ownership!Spec

-----------------------------------------------------------------------------

StopPhases == {"source_stopping", "source_stopped", "target_starting", "activating"}

\* Where a worker is tells who owns the session and whether anything runs.
SourceVerified == {"preflight", "prepare", "quiesce", "reread", "stopping"}
SourceStopped  == {"stopped", "commit", "rbCleanup", "rbStart"}
SourceOwns     == SourceStopped \cup {"stopSource", "rbMark", "rbFinish"}
TargetStopped  == {"targetStarting", "startTarget", "retryTarget", "rbRestore"}
TargetOwns     == TargetStopped \cup {"markTarget", "remarkTarget", "unsettled", "activating",
                                      "completing", "rbStopTarget", "retain"}

\* A TUI no handle names is not running: whoever destroys by handle misses nothing.
NoOrphan == mode = "tui" /\ ~handle => "tui" \notin live

OneActive == \A i, j \in Transitions : Active(i) /\ Active(j) => i = j

StopHoldsRow == \A i \in Transitions : PastStop(i) => row[i].phase \in StopPhases

WhoOwns ==
  \A i \in Transitions :
    /\ pc[i] \in SourceVerified /\ Active(i) => mode = Source(i)
    /\ pc[i] \in SourceOwns => mode = Source(i)
    /\ pc[i] \in TargetOwns => mode = Target(i)
    /\ pc[i] = "quiesce" => Source(i) = "chat"
    /\ pc[i] = "unsettled" => Target(i) = "chat"

WhoRuns ==
  /\ live \subseteq {mode}
  /\ \A i \in Transitions : pc[i] \in SourceStopped \cup TargetStopped => live = {}
  /\ daemon = "restoring" => live = {}

Stoppable ==
  \A i \in Transitions :
    \/ pc[i] \in {"reread", "stopping"} /\ Active(i)
    \/ pc[i] \in {"stopSource", "rbStopTarget", "retain"}
    \/ row[i].unconfirmed /\ Active(i)
    => NoOrphan

\* A finished or quarantined saga has no worker, a boot pass no rival, and a row
\* exists only once it is created.
Quiet ==
  /\ \A i \in Transitions : row[i].unconfirmed => pc[i] = "done"
  /\ \A i \in Transitions : pc[i] \in {"idle", "admitted"} => row[i].phase = "absent"
  /\ daemon # "up" => \A i \in Transitions : pc[i] \in {"idle", "done"}
  /\ cancel.pc # "idle" => cancel.of \in Transitions

OpsAlone ==
  /\ op.kind # "none" => NoActive /\ op.mode = mode
  /\ daemon # "up" => op.kind = "none"

\* The part that holds of the code as it is, and the part that needs Disciplined.
SagaInv  == OneActive /\ StopHoldsRow /\ Quiet
OwnerInv == WhoOwns /\ WhoRuns /\ Stoppable /\ OpsAlone

IInv == TypeOK /\ SagaInv /\ OwnerInv

\* No exclusive operation runs under a transition, and a TUI that could not be
\* recorded is destroyed.
Disciplined == ~OverlapOps /\ CleanupReliable
=============================================================================

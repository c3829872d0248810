--------------------------- MODULE HandoffProofs ----------------------------
(***************************************************************************)
(* Proofs about the handoff, for any set of transitions and any bounds, in *)
(* three parts that build on one another: type correctness, the saga half  *)
(* of the invariant (one active row, the stop of a source under that row   *)
(* only, quiet elsewhere), which holds of the code as it is, and its owner *)
(* half (who owns the session and what runs, at every label of every       *)
(* worker), which needs Disciplined. The gate of a Chat source follows.    *)
(***************************************************************************)
EXTENDS HandoffInvariant, TLAPS

-----------------------------------------------------------------------------
(* Type correctness: one lemma for every action, one step in it for every  *)
(* conjunct TypeOK has that the action changes; the rest comes first.      *)

(* Action by action.                                                       *)

LEMMA StartReadType ==
  ASSUME TypeOK, NEW i \in Transitions, NEW policy \in Policies,
         StartRead(i, policy)
  PROVE  TypeOK'
<1>1. SessionType' /\ AgentType' /\ WorkerType' /\ RequestType' /\ EnvType'
  BY DEF TypeOK, SessionType, AgentType, WorkerType, RequestType, EnvType, StartRead,
         session, agent, env
<1>2. RowType'
  BY DEF TypeOK, RowType, StartRead, Rows, SessionType
<1>3. PcType'
  BY DEF TypeOK, PcType, StartRead, Goto, Labels, Requesting
<1> QED BY <1>1, <1>2, <1>3 DEF TypeOK

LEMMA StartCreateType ==
  ASSUME TypeOK, NEW i \in Transitions, StartCreate(i)
  PROVE  TypeOK'
<1>1. SessionType' /\ AgentType' /\ WorkerType' /\ RequestType' /\ EnvType'
  BY DEF TypeOK, SessionType, AgentType, WorkerType, RequestType, EnvType, StartCreate,
         session, agent, env
<1>2. RowType'
  <2>1. NoRow \in Rows BY DEF NoRow, Rows, Phases, Modes, Policies
  <2>2. \/ row' = [row EXCEPT ![i].phase = "requested"]
        \/ row' = [row EXCEPT ![i] = NoRow]
    BY DEF StartCreate
  <2>3. "requested" \in Phases BY DEF Phases, Cancellable
  <2> QED BY <2>1, <2>2, <2>3 DEF TypeOK, RowType, Rows
<1>3. PcType'
  BY DEF TypeOK, PcType, StartCreate, Goto, Labels, Requesting
<1> QED BY <1>1, <1>2, <1>3 DEF TypeOK

LEMMA StartArmType ==
  ASSUME TypeOK, NEW i \in Transitions, StartArm(i)
  PROVE  TypeOK'
<1>1. SessionType' /\ RowType' /\ WorkerType' /\ RequestType' /\ EnvType'
  BY DEF TypeOK, SessionType, RowType, WorkerType, RequestType, EnvType, StartArm,
         session, env
<1>2. AgentType'
  BY BoundsAssumption DEF TypeOK, AgentType, StartArm, Fences, RowType, Rows
<1>3. PcType'
  BY DEF TypeOK, PcType, StartArm, Goto, Labels, Requesting
<1> QED BY <1>1, <1>2, <1>3 DEF TypeOK

LEMMA StartArmFailedType ==
  ASSUME TypeOK, NEW i \in Transitions, StartArmFailed(i)
  PROVE  TypeOK'
<1>1. SessionType' /\ AgentType' /\ RequestType'
  BY DEF TypeOK, SessionType, AgentType, RequestType, StartArmFailed, Finish, Exit,
         session, agent
<1>2. RowType'
  BY DEF TypeOK, RowType, StartArmFailed, Finish, Advance, MoveRefused, StoreFault,
         Rows, Phases, TerminalPhases
<1>3. PcType'
  BY DEF TypeOK, PcType, StartArmFailed, Finish, Exit, Goto, Labels
<1>4. WorkerType'
  BY DEF TypeOK, WorkerType, StartArmFailed, Finish, Exit
<1>5. EnvType'
  BY BoundsAssumption
     DEF TypeOK, EnvType, StartArmFailed, Finish, MoveRefused, StoreFault, Exit
<1> QED BY <1>1, <1>2, <1>3, <1>4, <1>5 DEF TypeOK

LEMMA StartWorkerType ==
  ASSUME TypeOK, NEW i \in Transitions, StartWorker(i)
  PROVE  TypeOK'
<1>1. SessionType' /\ AgentType' /\ RowType' /\ RequestType' /\ EnvType'
  BY DEF TypeOK, SessionType, AgentType, RowType, RequestType, EnvType, StartWorker,
         session, agent, env
<1>2. PcType'
  BY DEF TypeOK, PcType, StartWorker, Goto, Labels, BeforeStop
<1>3. WorkerType'
  BY DEF TypeOK, WorkerType, StartWorker
<1> QED BY <1>1, <1>2, <1>3 DEF TypeOK

LEMMA MovePreflightingType ==
  ASSUME TypeOK, NEW i \in Transitions, MovePreflighting(i)
  PROVE  TypeOK'
<1>1. SessionType' /\ AgentType' /\ WorkerType' /\ RequestType'
  BY DEF TypeOK, SessionType, AgentType, WorkerType, RequestType, MovePreflighting,
         Move, session, agent
<1>2. RowType'
  BY DEF TypeOK, RowType, MovePreflighting, Move, Advance, MoveRefused, Rows, Phases,
         Cancellable
<1>3. PcType'
  BY DEF TypeOK, PcType, MovePreflighting, Move, Goto, FailLabel, Labels, BeforeStop
<1>4. EnvType'
  BY BoundsAssumption
     DEF TypeOK, EnvType, MovePreflighting, Move, MoveRefused, StoreFault
<1> QED BY <1>1, <1>2, <1>3, <1>4 DEF TypeOK

LEMMA CheckSessionType ==
  ASSUME TypeOK, NEW i \in Transitions, CheckSession(i)
  PROVE  TypeOK'
<1>1. SessionType' /\ AgentType' /\ RowType' /\ RequestType' /\ EnvType'
  BY DEF TypeOK, SessionType, AgentType, RowType, RequestType, EnvType, CheckSession,
         CtxFails, session, agent, env
<1>2. PcType'
  BY DEF TypeOK, PcType, CheckSession, CtxFails, Fail, Goto, FailLabel, Labels,
         BeforeStop
<1>3. WorkerType'
  BY DEF TypeOK, WorkerType, CheckSession, CtxFails, Fail
<1> QED BY <1>1, <1>2, <1>3 DEF TypeOK

LEMMA MoveDrainingType ==
  ASSUME TypeOK, NEW i \in Transitions, MoveDraining(i)
  PROVE  TypeOK'
<1>1. SessionType' /\ AgentType' /\ RequestType'
  BY DEF TypeOK, SessionType, AgentType, RequestType, MoveDraining, CtxFails, session,
         agent, Move
<1>2. RowType'
  BY DEF TypeOK, RowType, MoveDraining, CtxFails, Move, Advance, MoveRefused,
         StoreFault, Rows, Phases, Cancellable
<1>3. PcType'
  BY DEF TypeOK, PcType, MoveDraining, CtxFails, Fail, Goto, FailLabel, Move, Labels,
         BeforeStop
<1>4. WorkerType'
  BY DEF TypeOK, WorkerType, MoveDraining, CtxFails, Fail, Move
<1>5. EnvType'
  BY BoundsAssumption
     DEF TypeOK, EnvType, MoveDraining, CtxFails, env, Move, MoveRefused, StoreFault
<1> QED BY <1>1, <1>2, <1>3, <1>4, <1>5 DEF TypeOK

LEMMA PrepareChatType ==
  ASSUME TypeOK, NEW i \in Transitions, PrepareChat(i)
  PROVE  TypeOK'
<1>1. SessionType' /\ RowType' /\ RequestType'
  BY DEF TypeOK, SessionType, RowType, RequestType, PrepareChat, session
<1>2. AgentType'
  BY BoundsAssumption DEF TypeOK, AgentType, PrepareChat, Fences, Policies
<1>3. PcType'
  BY DEF TypeOK, PcType, PrepareChat, Goto, Fail, FailLabel, StoreFault, Labels,
         BeforeStop
<1>4. WorkerType'
  BY DEF TypeOK, WorkerType, PrepareChat, Fail
<1>5. EnvType'
  BY BoundsAssumption DEF TypeOK, EnvType, PrepareChat, StoreFault
<1> QED BY <1>1, <1>2, <1>3, <1>4, <1>5 DEF TypeOK

LEMMA QuiesceChatType ==
  ASSUME TypeOK, NEW i \in Transitions, QuiesceChat(i)
  PROVE  TypeOK'
<1>1. SessionType' /\ RowType' /\ RequestType'
  BY DEF TypeOK, SessionType, RowType, RequestType, QuiesceChat, session
<1>2. AgentType'
  BY BoundsAssumption DEF TypeOK, AgentType, QuiesceChat, Fences
<1>3. PcType'
  BY DEF TypeOK, PcType, QuiesceChat, Goto, Fail, FailLabel, StoreFault, Labels,
         BeforeStop
<1>4. WorkerType'
  BY DEF TypeOK, WorkerType, QuiesceChat, Fail
<1>5. EnvType'
  BY BoundsAssumption DEF TypeOK, EnvType, QuiesceChat, StoreFault
<1> QED BY <1>1, <1>2, <1>3, <1>4, <1>5 DEF TypeOK

LEMMA PrepareTuiType ==
  ASSUME TypeOK, NEW i \in Transitions, PrepareTui(i)
  PROVE  TypeOK'
<1>1. SessionType' /\ AgentType' /\ RowType' /\ RequestType' /\ EnvType'
  BY DEF TypeOK, SessionType, AgentType, RowType, RequestType, EnvType, PrepareTui,
         CtxFails, session, agent, env
<1>2. PcType'
  BY DEF TypeOK, PcType, PrepareTui, CtxFails, Fail, Goto, FailLabel, Labels, BeforeStop
<1>3. WorkerType'
  BY DEF TypeOK, WorkerType, PrepareTui, CtxFails, Fail
<1> QED BY <1>1, <1>2, <1>3 DEF TypeOK

LEMMA RereadType ==
  ASSUME TypeOK, NEW i \in Transitions, Reread(i)
  PROVE  TypeOK'
<1>1. SessionType' /\ AgentType' /\ RowType' /\ RequestType' /\ EnvType'
  BY DEF TypeOK, SessionType, AgentType, RowType, RequestType, EnvType, Reread,
         CtxFails, session, agent, env
<1>2. PcType'
  BY DEF TypeOK, PcType, Reread, CtxFails, Fail, Goto, FailLabel, Labels, BeforeStop
<1>3. WorkerType'
  BY DEF TypeOK, WorkerType, Reread, CtxFails, Fail
<1> QED BY <1>1, <1>2, <1>3 DEF TypeOK

LEMMA MoveSourceStoppingType ==
  ASSUME TypeOK, NEW i \in Transitions, MoveSourceStopping(i)
  PROVE  TypeOK'
<1>1. SessionType' /\ AgentType' /\ WorkerType' /\ RequestType'
  BY DEF TypeOK, SessionType, AgentType, WorkerType, RequestType, MoveSourceStopping,
         Move, session, agent
<1>2. RowType'
  BY DEF TypeOK, RowType, MoveSourceStopping, Move, Advance, MoveRefused, Rows, Phases
<1>3. PcType'
  BY DEF TypeOK, PcType, MoveSourceStopping, Move, Goto, FailLabel, Labels, BeforeStop,
         AfterStop
<1>4. EnvType'
  BY BoundsAssumption
     DEF TypeOK, EnvType, MoveSourceStopping, Move, MoveRefused, StoreFault
<1> QED BY <1>1, <1>2, <1>3, <1>4 DEF TypeOK

LEMMA AbortSourceType ==
  ASSUME TypeOK, NEW i \in Transitions, AbortSource(i)
  PROVE  TypeOK'
<1>1. SessionType' /\ RowType' /\ WorkerType' /\ RequestType' /\ EnvType'
  BY DEF TypeOK, SessionType, RowType, WorkerType, RequestType, EnvType, AbortSource,
         session, env
<1>2. AgentType'
  BY BoundsAssumption DEF TypeOK, AgentType, AbortSource, Fences
<1>3. PcType'
  BY DEF TypeOK, PcType, AbortSource, Goto, Labels, BeforeStop
<1> QED BY <1>1, <1>2, <1>3 DEF TypeOK

LEMMA FinishBeforeStopType ==
  ASSUME TypeOK, NEW i \in Transitions, FinishBeforeStop(i)
  PROVE  TypeOK'
<1>1. SessionType' /\ AgentType' /\ RequestType'
  BY DEF TypeOK, SessionType, AgentType, RequestType, FinishBeforeStop, Finish, Exit,
         session, agent
<1>2. RowType'
  BY DEF TypeOK, RowType, FinishBeforeStop, Finish, Advance, MoveRefused, Rows, Phases,
         TerminalPhases, WorkerType
<1>3. PcType'
  BY DEF TypeOK, PcType, FinishBeforeStop, Finish, Exit, Goto, Labels
<1>4. WorkerType'
  BY DEF TypeOK, WorkerType, FinishBeforeStop, Finish, Exit
<1>5. EnvType'
  BY BoundsAssumption
     DEF TypeOK, EnvType, FinishBeforeStop, Finish, MoveRefused, StoreFault, Exit
<1> QED BY <1>1, <1>2, <1>3, <1>4, <1>5 DEF TypeOK

LEMMA StopSourceType ==
  ASSUME TypeOK, NEW i \in Transitions, StopSource(i)
  PROVE  TypeOK'
<1>1. SessionType' /\ RowType' /\ WorkerType' /\ RequestType' /\ EnvType'
  BY DEF TypeOK, SessionType, RowType, WorkerType, RequestType, EnvType, StopSource,
         session, env
<1>2. AgentType'
  BY BoundsAssumption
     DEF TypeOK, AgentType, StopSource, StopOwner, agent, StopProcess, Fences
<1>3. PcType'
  BY DEF TypeOK, PcType, StopSource, Goto, Labels, AfterStop
<1> QED BY <1>1, <1>2, <1>3 DEF TypeOK

LEMMA FinishRecoveryType ==
  ASSUME TypeOK, NEW i \in Transitions, FinishRecovery(i)
  PROVE  TypeOK'
<1>1. SessionType' /\ AgentType' /\ RequestType'
  BY DEF TypeOK, SessionType, AgentType, RequestType, FinishRecovery, Finish, Exit,
         session, agent
<1>2. RowType'
  BY DEF TypeOK, RowType, FinishRecovery, Finish, Advance, MoveRefused, StoreFault,
         Rows, Phases, TerminalPhases
<1>3. PcType'
  BY DEF TypeOK, PcType, FinishRecovery, Finish, Exit, Goto, Labels
<1>4. WorkerType'
  BY DEF TypeOK, WorkerType, FinishRecovery, Finish, Exit
<1>5. EnvType'
  BY BoundsAssumption
     DEF TypeOK, EnvType, FinishRecovery, Finish, MoveRefused, StoreFault, Exit
<1> QED BY <1>1, <1>2, <1>3, <1>4, <1>5 DEF TypeOK

LEMMA MoveSourceStoppedType ==
  ASSUME TypeOK, NEW i \in Transitions, MoveSourceStopped(i)
  PROVE  TypeOK'
<1>1. SessionType' /\ AgentType' /\ WorkerType' /\ RequestType'
  BY DEF TypeOK, SessionType, AgentType, WorkerType, RequestType, MoveSourceStopped,
         Move, session, agent
<1>2. RowType'
  BY DEF TypeOK, RowType, MoveSourceStopped, Move, Advance, MoveRefused, Rows, Phases
<1>3. PcType'
  BY DEF TypeOK, PcType, MoveSourceStopped, Move, Goto, Labels, AfterStop
<1>4. EnvType'
  BY BoundsAssumption
     DEF TypeOK, EnvType, MoveSourceStopped, Move, MoveRefused, StoreFault
<1> QED BY <1>1, <1>2, <1>3, <1>4 DEF TypeOK

LEMMA CommitEpochType ==
  ASSUME TypeOK, NEW i \in Transitions, CommitEpoch(i)
  PROVE  TypeOK'
<1>1. AgentType' /\ RowType' /\ RequestType'
  BY DEF TypeOK, AgentType, RowType, RequestType, CommitEpoch, agent
<1>2. SessionType'
  BY DEF TypeOK, SessionType, CommitEpoch, ChangeEpoch, session, Modes, Opposite
<1>3. PcType'
  BY DEF TypeOK, PcType, CommitEpoch, Goto, Labels, AfterStop
<1>4. WorkerType'
  BY DEF TypeOK, WorkerType, CommitEpoch, ChangeEpoch, NewIdentity
<1>5. EnvType'
  BY BoundsAssumption DEF TypeOK, EnvType, CommitEpoch, StoreFault
<1> QED BY <1>1, <1>2, <1>3, <1>4, <1>5 DEF TypeOK

LEMMA MoveTargetStartingType ==
  ASSUME TypeOK, NEW i \in Transitions, MoveTargetStarting(i)
  PROVE  TypeOK'
<1>1. SessionType' /\ AgentType' /\ WorkerType' /\ RequestType'
  BY DEF TypeOK, SessionType, AgentType, WorkerType, RequestType, MoveTargetStarting,
         Move, session, agent
<1>2. RowType'
  BY DEF TypeOK, RowType, MoveTargetStarting, Move, Advance, MoveRefused, Rows, Phases
<1>3. PcType'
  BY DEF TypeOK, PcType, MoveTargetStarting, Move, Goto, Labels, AfterStop
<1>4. EnvType'
  BY BoundsAssumption
     DEF TypeOK, EnvType, MoveTargetStarting, Move, MoveRefused, StoreFault
<1> QED BY <1>1, <1>2, <1>3, <1>4 DEF TypeOK

LEMMA StartTargetType ==
  ASSUME TypeOK, NEW i \in Transitions, StartTarget(i)
  PROVE  TypeOK'
<1>1. SessionType' /\ RowType' /\ RequestType' /\ EnvType'
  BY DEF TypeOK, SessionType, RowType, RequestType, EnvType, StartTarget, Launch,
         session, env
<1>2. AgentType'
  BY BoundsAssumption
     DEF TypeOK, AgentType, StartTarget, Launch, StartProcess, agent, SessionType
<1>3. PcType'
  BY DEF TypeOK, PcType, StartTarget, Launch, Goto, Labels, AfterStop
<1>4. WorkerType'
  BY DEF TypeOK, WorkerType, StartTarget, Launch, NewIdentity
<1> QED BY <1>1, <1>2, <1>3, <1>4 DEF TypeOK

LEMMA MarkTargetType ==
  ASSUME TypeOK, NEW i \in Transitions, MarkTarget(i)
  PROVE  TypeOK'
<1>1. RowType' /\ RequestType' /\ EnvType'
  BY DEF TypeOK, RowType, RequestType, EnvType, MarkTarget, Mark, env
<1>2. SessionType'
  BY DEF TypeOK, SessionType, MarkTarget, Mark, MarkSpawned, MarkFails, session,
         PromptFails
<1>3. AgentType'
  BY BoundsAssumption
     DEF TypeOK, AgentType, MarkTarget, Mark, Goto, agent, MarkFails, StopProcess,
         PromptFails, Fences
<1>4. PcType'
  BY DEF TypeOK, PcType, MarkTarget, Mark, Goto, MarkFails, Labels, AfterStop
<1>5. WorkerType'
  BY DEF TypeOK, WorkerType, MarkTarget, Mark, MarkSpawned, NewIdentity, MarkFails,
         PromptFails
<1> QED BY <1>1, <1>2, <1>3, <1>4, <1>5 DEF TypeOK

LEMMA UnsettledTargetType ==
  ASSUME TypeOK, NEW i \in Transitions, UnsettledTarget(i)
  PROVE  TypeOK'
<1>1. SessionType' /\ RowType' /\ WorkerType' /\ RequestType' /\ EnvType'
  BY DEF TypeOK, SessionType, RowType, WorkerType, RequestType, EnvType,
         UnsettledTarget, session, env
<1>2. AgentType'
  BY BoundsAssumption
     DEF TypeOK, AgentType, UnsettledTarget, StopOwner, agent, StopProcess, Fences
<1>3. PcType'
  BY DEF TypeOK, PcType, UnsettledTarget, Goto, Labels, AfterStop
<1> QED BY <1>1, <1>2, <1>3 DEF TypeOK

LEMMA RetryTargetType ==
  ASSUME TypeOK, NEW i \in Transitions, RetryTarget(i)
  PROVE  TypeOK'
<1>1. SessionType' /\ RowType' /\ RequestType' /\ EnvType'
  BY DEF TypeOK, SessionType, RowType, RequestType, EnvType, RetryTarget, Launch,
         session, env
<1>2. AgentType'
  BY BoundsAssumption
     DEF TypeOK, AgentType, RetryTarget, Launch, StartProcess, agent, SessionType
<1>3. PcType'
  BY DEF TypeOK, PcType, RetryTarget, Launch, Goto, Labels, AfterStop
<1>4. WorkerType'
  BY DEF TypeOK, WorkerType, RetryTarget, Launch, NewIdentity
<1> QED BY <1>1, <1>2, <1>3, <1>4 DEF TypeOK

LEMMA RemarkTargetType ==
  ASSUME TypeOK, NEW i \in Transitions, RemarkTarget(i)
  PROVE  TypeOK'
<1>1. RowType' /\ RequestType' /\ EnvType'
  BY DEF TypeOK, RowType, RequestType, EnvType, RemarkTarget, Mark, env
<1>2. SessionType'
  BY DEF TypeOK, SessionType, RemarkTarget, Mark, MarkSpawned, MarkFails, session,
         PromptFails
<1>3. AgentType'
  BY BoundsAssumption
     DEF TypeOK, AgentType, RemarkTarget, Mark, Goto, agent, MarkFails, StopProcess,
         PromptFails, Fences
<1>4. PcType'
  BY DEF TypeOK, PcType, RemarkTarget, Mark, Goto, MarkFails, Labels, AfterStop
<1>5. WorkerType'
  BY DEF TypeOK, WorkerType, RemarkTarget, Mark, MarkSpawned, NewIdentity, MarkFails,
         PromptFails
<1> QED BY <1>1, <1>2, <1>3, <1>4, <1>5 DEF TypeOK

LEMMA RetainTargetType ==
  ASSUME TypeOK, NEW i \in Transitions, RetainTarget(i)
  PROVE  TypeOK'
<1>1. SessionType' /\ AgentType' /\ RequestType'
  BY DEF TypeOK, SessionType, AgentType, RequestType, RetainTarget, Exit, session, agent
<1>2. RowType'
  BY DEF TypeOK, RowType, RetainTarget, MoveRefused, Rows, Phases
<1>3. PcType'
  BY DEF TypeOK, PcType, RetainTarget, Exit, Goto, Labels
<1>4. WorkerType'
  BY DEF TypeOK, WorkerType, RetainTarget, Exit
<1>5. EnvType'
  BY BoundsAssumption DEF TypeOK, EnvType, RetainTarget, MoveRefused, StoreFault, Exit
<1> QED BY <1>1, <1>2, <1>3, <1>4, <1>5 DEF TypeOK

LEMMA MoveActivatingType ==
  ASSUME TypeOK, NEW i \in Transitions, MoveActivating(i)
  PROVE  TypeOK'
<1>1. SessionType' /\ AgentType' /\ WorkerType' /\ RequestType'
  BY DEF TypeOK, SessionType, AgentType, WorkerType, RequestType, MoveActivating, Move,
         session, agent
<1>2. RowType'
  BY DEF TypeOK, RowType, MoveActivating, Move, Advance, MoveRefused, Rows, Phases
<1>3. PcType'
  BY DEF TypeOK, PcType, MoveActivating, Move, Goto, Labels, AfterStop
<1>4. EnvType'
  BY BoundsAssumption DEF TypeOK, EnvType, MoveActivating, Move, MoveRefused, StoreFault
<1> QED BY <1>1, <1>2, <1>3, <1>4 DEF TypeOK

LEMMA CompleteType ==
  ASSUME TypeOK, NEW i \in Transitions, Complete(i)
  PROVE  TypeOK'
<1>1. SessionType' /\ AgentType' /\ RequestType'
  BY DEF TypeOK, SessionType, AgentType, RequestType, Complete, Finish, Exit, session,
         agent
<1>2. RowType'
  BY DEF TypeOK, RowType, Complete, Finish, Advance, MoveRefused, StoreFault, Rows,
         Phases, TerminalPhases
<1>3. PcType'
  BY DEF TypeOK, PcType, Complete, Finish, Exit, Goto, Labels
<1>4. WorkerType'
  BY DEF TypeOK, WorkerType, Complete, Finish, Exit
<1>5. EnvType'
  BY BoundsAssumption
     DEF TypeOK, EnvType, Complete, Finish, MoveRefused, StoreFault, Exit
<1> QED BY <1>1, <1>2, <1>3, <1>4, <1>5 DEF TypeOK

LEMMA RollbackStopTargetType ==
  ASSUME TypeOK, NEW i \in Transitions, RollbackStopTarget(i)
  PROVE  TypeOK'
<1>1. SessionType' /\ RowType' /\ WorkerType' /\ RequestType' /\ EnvType'
  BY DEF TypeOK, SessionType, RowType, WorkerType, RequestType, EnvType,
         RollbackStopTarget, session, env
<1>2. AgentType'
  BY BoundsAssumption
     DEF TypeOK, AgentType, RollbackStopTarget, StopOwner, agent, StopProcess, Fences
<1>3. PcType'
  BY DEF TypeOK, PcType, RollbackStopTarget, Goto, Labels, AfterStop
<1> QED BY <1>1, <1>2, <1>3 DEF TypeOK

LEMMA RollbackEpochType ==
  ASSUME TypeOK, NEW i \in Transitions, RollbackEpoch(i)
  PROVE  TypeOK'
<1>1. AgentType' /\ RowType' /\ RequestType'
  BY DEF TypeOK, AgentType, RowType, RequestType, RollbackEpoch, agent
<1>2. SessionType'
  BY DEF TypeOK, SessionType, RollbackEpoch, ChangeEpoch, session, Modes, Opposite
<1>3. PcType'
  BY DEF TypeOK, PcType, RollbackEpoch, Goto, Labels, AfterStop
<1>4. WorkerType'
  BY DEF TypeOK, WorkerType, RollbackEpoch, ChangeEpoch, NewIdentity
<1>5. EnvType'
  BY BoundsAssumption DEF TypeOK, EnvType, RollbackEpoch, StoreFault
<1> QED BY <1>1, <1>2, <1>3, <1>4, <1>5 DEF TypeOK

LEMMA RollbackCleanupType ==
  ASSUME TypeOK, NEW i \in Transitions, RollbackCleanup(i)
  PROVE  TypeOK'
<1>1. SessionType' /\ RowType' /\ WorkerType' /\ RequestType' /\ EnvType'
  BY DEF TypeOK, SessionType, RowType, WorkerType, RequestType, EnvType,
         RollbackCleanup, session, env
<1>2. AgentType'
  BY BoundsAssumption DEF TypeOK, AgentType, RollbackCleanup, agent, StopProcess
<1>3. PcType'
  BY DEF TypeOK, PcType, RollbackCleanup, Goto, Labels, AfterStop
<1> QED BY <1>1, <1>2, <1>3 DEF TypeOK

LEMMA RollbackStartType ==
  ASSUME TypeOK, NEW i \in Transitions, RollbackStart(i)
  PROVE  TypeOK'
<1>1. SessionType' /\ RowType' /\ RequestType' /\ EnvType'
  BY DEF TypeOK, SessionType, RowType, RequestType, EnvType, RollbackStart, Launch,
         session, env
<1>2. AgentType'
  BY BoundsAssumption
     DEF TypeOK, AgentType, RollbackStart, Launch, StartProcess, agent, SessionType
<1>3. PcType'
  BY DEF TypeOK, PcType, RollbackStart, Launch, Goto, Labels, AfterStop
<1>4. WorkerType'
  BY DEF TypeOK, WorkerType, RollbackStart, Launch, NewIdentity
<1> QED BY <1>1, <1>2, <1>3, <1>4 DEF TypeOK

LEMMA RollbackMarkType ==
  ASSUME TypeOK, NEW i \in Transitions, RollbackMark(i)
  PROVE  TypeOK'
<1>1. RowType' /\ RequestType' /\ EnvType'
  BY DEF TypeOK, RowType, RequestType, EnvType, RollbackMark, Mark, env
<1>2. SessionType'
  BY DEF TypeOK, SessionType, RollbackMark, Mark, MarkSpawned, MarkFails, session,
         PromptFails
<1>3. AgentType'
  BY BoundsAssumption
     DEF TypeOK, AgentType, RollbackMark, Mark, Goto, agent, MarkFails, StopProcess,
         PromptFails, Fences
<1>4. PcType'
  BY DEF TypeOK, PcType, RollbackMark, Mark, Goto, MarkFails, Labels, AfterStop
<1>5. WorkerType'
  BY DEF TypeOK, WorkerType, RollbackMark, Mark, MarkSpawned, NewIdentity, MarkFails,
         PromptFails
<1> QED BY <1>1, <1>2, <1>3, <1>4, <1>5 DEF TypeOK

LEMMA RollbackFinishType ==
  ASSUME TypeOK, NEW i \in Transitions, RollbackFinish(i)
  PROVE  TypeOK'
<1>1. SessionType' /\ AgentType' /\ RequestType'
  BY DEF TypeOK, SessionType, AgentType, RequestType, RollbackFinish, Finish, Exit,
         session, agent
<1>2. RowType'
  BY DEF TypeOK, RowType, RollbackFinish, Finish, Advance, MoveRefused, StoreFault,
         Rows, Phases, TerminalPhases
<1>3. PcType'
  BY DEF TypeOK, PcType, RollbackFinish, Finish, Exit, Goto, Labels
<1>4. WorkerType'
  BY DEF TypeOK, WorkerType, RollbackFinish, Finish, Exit
<1>5. EnvType'
  BY BoundsAssumption
     DEF TypeOK, EnvType, RollbackFinish, Finish, MoveRefused, StoreFault, Exit
<1> QED BY <1>1, <1>2, <1>3, <1>4, <1>5 DEF TypeOK

LEMMA CancelReadType ==
  ASSUME TypeOK, NEW i \in Transitions, CancelRead(i)
  PROVE  TypeOK'
<1>1. SessionType' /\ AgentType' /\ RowType' /\ PcType' /\ WorkerType' /\ EnvType'
  BY DEF TypeOK, SessionType, AgentType, RowType, PcType, WorkerType, EnvType,
         CancelRead, session, agent, worker, env
<1>2. RequestType'
  BY DEF TypeOK, RequestType, CancelRead
<1> QED BY <1>1, <1>2 DEF TypeOK

LEMMA RecoverStopTargetType ==
  ASSUME TypeOK, NEW i \in Transitions, RecoverStopTarget(i)
  PROVE  TypeOK'
<1>1. SessionType' /\ RowType' /\ PcType' /\ WorkerType' /\ RequestType'
  BY DEF TypeOK, SessionType, RowType, PcType, WorkerType, RequestType,
         RecoverStopTarget, session, worker
<1>2. AgentType'
  BY BoundsAssumption
     DEF TypeOK, AgentType, RecoverStopTarget, StopOwner, agent, StopProcess, Fences
<1>3. EnvType'
  BY BoundsAssumption DEF TypeOK, EnvType, RecoverStopTarget
<1> QED BY <1>1, <1>2, <1>3 DEF TypeOK

LEMMA RecoverQuarantineType ==
  ASSUME TypeOK, NEW i \in Transitions, RecoverQuarantine(i)
  PROVE  TypeOK'
<1>1. SessionType' /\ AgentType' /\ PcType' /\ WorkerType' /\ RequestType'
  BY DEF TypeOK, SessionType, AgentType, PcType, WorkerType, RequestType,
         RecoverQuarantine, session, agent, worker
<1>2. RowType'
  BY DEF TypeOK, RowType, RecoverQuarantine, Rows, Phases
<1>3. EnvType'
  BY BoundsAssumption DEF TypeOK, EnvType, RecoverQuarantine
<1> QED BY <1>1, <1>2, <1>3 DEF TypeOK

LEMMA RecoverEpochType ==
  ASSUME TypeOK, NEW i \in Transitions, RecoverEpoch(i)
  PROVE  TypeOK'
<1>1. AgentType' /\ RowType' /\ PcType' /\ RequestType'
  BY DEF TypeOK, AgentType, RowType, PcType, RequestType, RecoverEpoch, agent
<1>2. SessionType'
  BY DEF TypeOK, SessionType, RecoverEpoch, ChangeEpoch, Modes, Opposite
<1>3. WorkerType'
  BY DEF TypeOK, WorkerType, RecoverEpoch, ChangeEpoch, NewIdentity
<1>4. EnvType'
  BY BoundsAssumption DEF TypeOK, EnvType, RecoverEpoch
<1> QED BY <1>1, <1>2, <1>3, <1>4 DEF TypeOK

LEMMA RecoverRowType ==
  ASSUME TypeOK, NEW i \in Transitions, RecoverRow(i)
  PROVE  TypeOK'
<1>1. SessionType' /\ AgentType' /\ PcType' /\ WorkerType' /\ RequestType' /\ EnvType'
  BY DEF TypeOK, SessionType, AgentType, PcType, WorkerType, RequestType, EnvType,
         RecoverRow, session, agent, worker, env
<1>2. RowType'
  BY DEF TypeOK, RowType, RecoverRow, NeedsTargetStop, Advance, Rows, Phases,
         TerminalPhases
<1> QED BY <1>1, <1>2 DEF TypeOK

LEMMA CancelRowType ==
  ASSUME TypeOK, CancelRow
  PROVE  TypeOK'
<1>1. SessionType' /\ AgentType' /\ PcType' /\ WorkerType' /\ EnvType'
  BY DEF TypeOK, SessionType, AgentType, PcType, WorkerType, EnvType, CancelRow,
         Serving, session, agent, worker, env
<1>2. RowType'
  BY DEF TypeOK, RowType, CancelRow, Serving, session, agent, worker, env, Rows, Phases,
         Cancellable, TerminalPhases
<1>3. RequestType'
  BY DEF TypeOK, RequestType, CancelRow, Serving, session, agent, worker, env,
         SessionType, IdleCancel, NoOp, Cancellable, Modes
<1> QED BY <1>1, <1>2, <1>3 DEF TypeOK

LEMMA CancelSignalType ==
  ASSUME TypeOK, CancelSignal
  PROVE  TypeOK'
<1>1. SessionType' /\ AgentType' /\ RowType' /\ PcType' /\ EnvType'
  BY DEF TypeOK, SessionType, AgentType, RowType, PcType, EnvType, CancelSignal,
         session, agent, env
<1>2. WorkerType'
  BY DEF TypeOK, WorkerType, CancelSignal
<1>3. RequestType'
  BY DEF TypeOK, RequestType, CancelSignal, IdleCancel, Cancellable
<1> QED BY <1>1, <1>2, <1>3 DEF TypeOK

LEMMA OpStopType ==
  ASSUME TypeOK, OpStop
  PROVE  TypeOK'
<1>1. SessionType' /\ RowType' /\ PcType' /\ WorkerType' /\ EnvType'
  BY DEF TypeOK, SessionType, RowType, PcType, WorkerType, EnvType, OpStop, Serving,
         StopOwner, agent, StopProcess, session, worker, env
<1>2. AgentType'
  BY BoundsAssumption
     DEF TypeOK, AgentType, OpStop, Serving, StopOwner, agent, StopProcess, session,
         worker, env, Modes, Fences, Policies, RowType, Rows
<1>3. RequestType'
  BY DEF TypeOK, RequestType, OpStop, Serving, StopOwner, agent, StopProcess, session,
         worker, env, SessionType, IdleCancel, NoOp, Cancellable, Modes
<1> QED BY <1>1, <1>2, <1>3 DEF TypeOK

LEMMA OpTerminateType ==
  ASSUME TypeOK, OpTerminate
  PROVE  TypeOK'
<1>1. AgentType' /\ RowType' /\ PcType' /\ WorkerType' /\ EnvType'
  BY DEF TypeOK, AgentType, RowType, PcType, WorkerType, EnvType, OpTerminate, Serving,
         agent, worker, env
<1>2. SessionType'
  BY DEF TypeOK, SessionType, OpTerminate, Serving, agent, worker, env, Modes, Source,
         Target, Opposite
<1>3. RequestType'
  BY DEF TypeOK, RequestType, OpTerminate, Serving, agent, worker, env, SessionType,
         IdleCancel, NoOp, Cancellable, Modes
<1> QED BY <1>1, <1>2, <1>3 DEF TypeOK

LEMMA OpLaunchType ==
  ASSUME TypeOK, OpLaunch
  PROVE  TypeOK'
<1>1. SessionType' /\ RowType' /\ PcType' /\ EnvType'
  BY DEF TypeOK, SessionType, RowType, PcType, EnvType, OpLaunch, session, env
<1>2. AgentType'
  BY BoundsAssumption DEF TypeOK, AgentType, OpLaunch, StartProcess, agent, RequestType
<1>3. WorkerType'
  BY DEF TypeOK, WorkerType, OpLaunch, NewIdentity
<1>4. RequestType'
  BY DEF TypeOK, RequestType, OpLaunch, NoOp, Modes
<1> QED BY <1>1, <1>2, <1>3, <1>4 DEF TypeOK

LEMMA OpMarkType ==
  ASSUME TypeOK, OpMark
  PROVE  TypeOK'
<1>1. RowType' /\ PcType' /\ EnvType'
  BY DEF TypeOK, RowType, PcType, EnvType, OpMark, env
<1>2. SessionType'
  BY DEF TypeOK, SessionType, OpMark, MarkSpawned, MarkFails, session, PromptFails
<1>3. AgentType'
  BY BoundsAssumption
     DEF TypeOK, AgentType, OpMark, agent, MarkFails, StopProcess, PromptFails, Fences
<1>4. WorkerType'
  BY DEF TypeOK, WorkerType, OpMark, MarkSpawned, NewIdentity, MarkFails, PromptFails
<1>5. RequestType'
  BY DEF TypeOK, RequestType, OpMark, NoOp, Modes
<1> QED BY <1>1, <1>2, <1>3, <1>4, <1>5 DEF TypeOK

LEMMA ChatSendType ==
  ASSUME TypeOK, ChatSend
  PROVE  TypeOK'
<1>1. SessionType' /\ RowType' /\ PcType' /\ WorkerType' /\ RequestType' /\ EnvType'
  BY DEF TypeOK, SessionType, RowType, PcType, WorkerType, RequestType, EnvType,
         ChatSend, session, worker, env
<1>2. AgentType'
  <2>1. live' \in SUBSET Modes /\ fence' \in Fences BY DEF TypeOK, AgentType, ChatSend
  <2>2. running' \in BOOLEAN BY DEF TypeOK, AgentType, ChatSend
  <2>3. queued' \in 0..MaxQueued BY BoundsAssumption DEF TypeOK, AgentType, ChatSend
  <2> QED BY <2>1, <2>2, <2>3 DEF AgentType
<1> QED BY <1>1, <1>2 DEF TypeOK

LEMMA TerminalInputType ==
  ASSUME TypeOK, TerminalInput
  PROVE  TypeOK'
<1>1. SessionType' /\ RowType' /\ PcType' /\ WorkerType' /\ RequestType' /\ EnvType'
  BY DEF TypeOK, SessionType, RowType, PcType, WorkerType, RequestType, EnvType,
         TerminalInput, session, worker, env
<1>2. AgentType'
  BY BoundsAssumption DEF TypeOK, AgentType, TerminalInput
<1> QED BY <1>1, <1>2 DEF TypeOK

LEMMA TurnDoneType ==
  ASSUME TypeOK, TurnDone
  PROVE  TypeOK'
<1>1. SessionType' /\ RowType' /\ PcType' /\ WorkerType' /\ RequestType' /\ EnvType'
  BY DEF TypeOK, SessionType, RowType, PcType, WorkerType, RequestType, EnvType,
         TurnDone, session, worker, env
<1>2. AgentType'
  BY BoundsAssumption DEF TypeOK, AgentType, TurnDone
<1> QED BY <1>1, <1>2 DEF TypeOK

LEMMA DispatchType ==
  ASSUME TypeOK, Dispatch
  PROVE  TypeOK'
<1>1. SessionType' /\ RowType' /\ PcType' /\ WorkerType' /\ RequestType' /\ EnvType'
  BY DEF TypeOK, SessionType, RowType, PcType, WorkerType, RequestType, EnvType,
         Dispatch, session, worker, env
<1>2. AgentType'
  BY BoundsAssumption DEF TypeOK, AgentType, Dispatch
<1> QED BY <1>1, <1>2 DEF TypeOK

LEMMA CrashType ==
  ASSUME TypeOK, Crash
  PROVE  TypeOK'
<1>1. SessionType'
  BY DEF TypeOK, SessionType, Crash, session
<1>2. AgentType'
  BY BoundsAssumption DEF TypeOK, AgentType, Crash, Fences
<1>3. RowType'
  BY DEF TypeOK, RowType, Crash, Rows, NoRow, Modes, Policies
<1>4. PcType'
  BY DEF TypeOK, PcType, Crash, Labels, Requesting
<1>5. WorkerType'
  BY DEF TypeOK, WorkerType, Crash
<1>6. RequestType'
  BY DEF TypeOK, RequestType, Crash, IdleCancel, NoOp, Cancellable, Modes
<1>7. EnvType'
  BY BoundsAssumption DEF TypeOK, EnvType, Crash
<1> QED BY <1>1, <1>2, <1>3, <1>4, <1>5, <1>6, <1>7 DEF TypeOK

LEMMA ServeAPIType ==
  ASSUME TypeOK, ServeAPI
  PROVE  TypeOK'
<1>1. SessionType' /\ AgentType' /\ RowType' /\ PcType' /\ WorkerType' /\ RequestType'
  BY DEF TypeOK, SessionType, AgentType, RowType, PcType, WorkerType, RequestType,
         ServeAPI, session, agent, worker
<1>2. EnvType'
  BY BoundsAssumption DEF TypeOK, EnvType, ServeAPI
<1> QED BY <1>1, <1>2 DEF TypeOK

LEMMA OpBeginType ==
  ASSUME TypeOK, NEW kind \in {"kill", "exit", "resume"}, OpBegin(kind)
  PROVE  TypeOK'
<1>1. SessionType' /\ AgentType' /\ RowType' /\ PcType' /\ WorkerType' /\ EnvType'
  BY DEF TypeOK, SessionType, AgentType, RowType, PcType, WorkerType, EnvType, OpBegin,
         session, agent, worker, env
<1>2. RequestType'
  BY DEF TypeOK, RequestType, OpBegin, SessionType
<1> QED BY <1>1, <1>2 DEF TypeOK

LEMMA ControllerExitsType ==
  ASSUME TypeOK, NEW m \in Modes, ControllerExits(m)
  PROVE  TypeOK'
<1>1. SessionType' /\ RowType' /\ PcType' /\ WorkerType' /\ RequestType' /\ EnvType'
  BY DEF TypeOK, SessionType, RowType, PcType, WorkerType, RequestType, EnvType,
         ControllerExits, session, worker, env
<1>2. AgentType'
  BY BoundsAssumption DEF TypeOK, AgentType, ControllerExits, StopProcess, Fences
<1> QED BY <1>1, <1>2 DEF TypeOK

-----------------------------------------------------------------------------
(* Every step together, and the theorem.                                   *)

\* Every step keeps the types.
LEMMA TypeStep == TypeOK /\ [Next]_vars => TypeOK'
<1> SUFFICES ASSUME TypeOK, [Next]_vars PROVE TypeOK'
  OBVIOUS
<1>1. CASE UNCHANGED vars
  BY <1>1
     DEF vars, session, agent, worker, env, TypeOK, SessionType, AgentType, RowType,
         PcType, WorkerType, RequestType, EnvType
<1>2. ASSUME NEW i \in Transitions, Request(i) PROVE TypeOK'
  BY <1>2, StartReadType, StartCreateType, StartArmType, StartArmFailedType,
     StartWorkerType
     DEF Request
<1>3. ASSUME NEW i \in Transitions, WorkerBeforeStop(i) PROVE TypeOK'
  BY <1>3, MovePreflightingType, CheckSessionType, MoveDrainingType, PrepareChatType,
     QuiesceChatType, PrepareTuiType, RereadType, MoveSourceStoppingType,
     AbortSourceType, FinishBeforeStopType
     DEF WorkerBeforeStop
<1>4. ASSUME NEW i \in Transitions, WorkerAfterStop(i) PROVE TypeOK'
  BY <1>4, StopSourceType, FinishRecoveryType, MoveSourceStoppedType, CommitEpochType,
     MoveTargetStartingType, StartTargetType, MarkTargetType, UnsettledTargetType,
     RetryTargetType, RemarkTargetType, RetainTargetType, MoveActivatingType,
     CompleteType, RollbackStopTargetType, RollbackEpochType, RollbackCleanupType,
     RollbackStartType, RollbackMarkType, RollbackFinishType
     DEF WorkerAfterStop
<1>5. CASE CancelRequest
  BY <1>5, CancelReadType, CancelRowType, CancelSignalType DEF CancelRequest
<1>6. CASE Operation
  BY <1>6, OpBeginType, OpStopType, OpTerminateType, OpLaunchType, OpMarkType
     DEF Operation
<1>7. CASE Agent
  BY <1>7, ChatSendType, TerminalInputType, TurnDoneType, DispatchType,
     ControllerExitsType
     DEF Agent
<1>8. CASE Crash BY <1>8, CrashType
<1>9. CASE Recovery
  BY <1>9, RecoverStopTargetType, RecoverQuarantineType, RecoverEpochType,
     RecoverRowType, ServeAPIType
     DEF Recovery
<1> QED BY <1>1, <1>2, <1>3, <1>4, <1>5, <1>6, <1>7, <1>8, <1>9 DEF Next, Work

\* The session starts well typed.
LEMMA TypeInit == Init => TypeOK
<1> SUFFICES ASSUME Init PROVE TypeOK
  OBVIOUS
<1>1. SessionType BY DEF Init, SessionType
<1>2. AgentType
  <2>1. live \in SUBSET Modes /\ fence \in Fences /\ running \in BOOLEAN
    BY DEF Init, Fences, Modes
  <2>2. queued \in 0..MaxQueued BY BoundsAssumption DEF Init
  <2> QED BY <2>1, <2>2 DEF AgentType
<1>3. RowType
  <2>1. NoRow \in Rows BY DEF NoRow, Rows, Phases, Modes, Policies
  <2> QED BY <2>1 DEF Init, RowType
<1>4. PcType BY DEF Init, PcType, Labels, Requesting
<1>5. WorkerType BY DEF Init, WorkerType
<1>6. RequestType
  BY DEF Init, RequestType, IdleCancel, NoOp, Cancellable, Modes
<1>7. EnvType BY BoundsAssumption DEF Init, EnvType
<1> QED BY <1>1, <1>2, <1>3, <1>4, <1>5, <1>6, <1>7 DEF TypeOK

\* Every variable keeps its type in every reachable state, whatever the bounds.
THEOREM TypeCorrect == Spec => []TypeOK
<1> QED BY TypeInit, TypeStep, PTL DEF Spec

-----------------------------------------------------------------------------
(* The saga half of the invariant.                                         *)

(* Action by action.                                                       *)

LEMMA StartReadSaga ==
  ASSUME TypeOK, SagaInv, NEW i \in Transitions, NEW policy \in Policies,
         StartRead(i, policy)
  PROVE  SagaInv'
<1>1. OneActive'
  BY DEF SagaInv, OneActive, StartRead, Active, TypeOK, RowType
<1>2. StopHoldsRow'
  BY DEF SagaInv, StopHoldsRow, StartRead, Goto, PastStop, AfterStop, TypeOK, RowType
<1>3. Quiet'
  BY DEF SagaInv, Quiet, StartRead, At, Serving, Goto, env, TypeOK, RowType
<1> QED BY <1>1, <1>2, <1>3 DEF SagaInv

LEMMA StartCreateSaga ==
  ASSUME TypeOK, SagaInv, NEW i \in Transitions, StartCreate(i)
  PROVE  SagaInv'
<1>1. OneActive'
  BY DEF SagaInv, OneActive, StartCreate, NoActive, NoRow, Active, TypeOK, RowType
<1>2. StopHoldsRow'
  BY DEF SagaInv, StopHoldsRow, StartCreate, Goto, PastStop, AfterStop, TypeOK, RowType,
         PcType
<1>3. Quiet'
  BY DEF SagaInv, Quiet, StartCreate, At, Goto, env, NoActive, Source, NoRow, Rows,
         TypeOK, RowType, PcType
<1> QED BY <1>1, <1>2, <1>3 DEF SagaInv

LEMMA StartArmSaga ==
  ASSUME TypeOK, SagaInv, NEW i \in Transitions, StartArm(i)
  PROVE  SagaInv'
<1>1. OneActive'
  BY DEF SagaInv, OneActive, StartArm, Active
<1>2. StopHoldsRow'
  BY DEF SagaInv, StopHoldsRow, StartArm, Goto, PastStop, AfterStop, TypeOK, PcType
<1>3. Quiet'
  BY DEF SagaInv, Quiet, StartArm, At, Goto, env, TypeOK, PcType
<1> QED BY <1>1, <1>2, <1>3 DEF SagaInv

LEMMA StartArmFailedSaga ==
  ASSUME TypeOK, SagaInv, NEW i \in Transitions, StartArmFailed(i)
  PROVE  SagaInv'
<1>1. OneActive'
  BY DEF SagaInv, OneActive, StartArmFailed, Finish, Advance, MoveRefused, Active,
         TypeOK, RowType
<1>2. StopHoldsRow'
  BY DEF SagaInv, StopHoldsRow, StartArmFailed, Finish, Advance, MoveRefused,
         StoreFault, Exit, Goto, Active, PastStop, AfterStop, StopPhases, TypeOK,
         RowType, PcType
<1>3. Quiet'
  BY DEF SagaInv, Quiet, StartArmFailed, Finish, Advance, MoveRefused, StoreFault, Exit,
         Goto, Active, TypeOK, RowType, PcType
<1> QED BY <1>1, <1>2, <1>3 DEF SagaInv

LEMMA StartWorkerSaga ==
  ASSUME TypeOK, SagaInv, NEW i \in Transitions, StartWorker(i)
  PROVE  SagaInv'
<1>1. OneActive'
  BY DEF SagaInv, OneActive, StartWorker, Active
<1>2. StopHoldsRow'
  BY DEF SagaInv, StopHoldsRow, StartWorker, Goto, PastStop, AfterStop
<1>3. Quiet'
  BY DEF SagaInv, Quiet, StartWorker, At, Goto, env
<1> QED BY <1>1, <1>2, <1>3 DEF SagaInv

LEMMA MovePreflightingSaga ==
  ASSUME TypeOK, SagaInv, NEW i \in Transitions, MovePreflighting(i)
  PROVE  SagaInv'
<1>1. OneActive'
  BY DEF SagaInv, OneActive, MovePreflighting, Move, Advance, Goto, MoveRefused, Active,
         Source, TypeOK, RowType
<1>2. StopHoldsRow'
  BY DEF SagaInv, StopHoldsRow, MovePreflighting, Move, Advance, Goto, MoveRefused,
         StoreFault, FailLabel, Active, Source, PastStop, AfterStop, StopPhases, TypeOK,
         RowType, PcType
<1>3. Quiet'
  BY DEF SagaInv, Quiet, MovePreflighting, At, Move, Advance, Goto, MoveRefused,
         StoreFault, FailLabel, Active, Rows, TypeOK, RowType, PcType
<1> QED BY <1>1, <1>2, <1>3 DEF SagaInv

LEMMA CheckSessionSaga ==
  ASSUME TypeOK, SagaInv, NEW i \in Transitions, CheckSession(i)
  PROVE  SagaInv'
<1>1. OneActive'
  BY DEF SagaInv, OneActive, CheckSession, CtxFails, Active
<1>2. StopHoldsRow'
  BY DEF SagaInv, StopHoldsRow, CheckSession, CtxFails, Fail, Goto, FailLabel, Source,
         PastStop, AfterStop, TypeOK, PcType
<1>3. Quiet'
  BY DEF SagaInv, Quiet, CheckSession, At, CtxFails, Fail, Goto, FailLabel, env, TypeOK,
         PcType
<1> QED BY <1>1, <1>2, <1>3 DEF SagaInv

LEMMA MoveDrainingSaga ==
  ASSUME TypeOK, SagaInv, NEW i \in Transitions, MoveDraining(i)
  PROVE  SagaInv'
<1>1. OneActive'
  BY DEF SagaInv, OneActive, MoveDraining, CtxFails, Move, Advance, MoveRefused,
         StoreFault, Active, TypeOK, RowType
<1>2. StopHoldsRow'
  BY DEF SagaInv, StopHoldsRow, MoveDraining, CtxFails, Fail, Goto, FailLabel, Move,
         Advance, MoveRefused, Active, PastStop, AfterStop, StopPhases, TypeOK, RowType,
         PcType
<1>3. Quiet'
  BY DEF SagaInv, Quiet, MoveDraining, At, CtxFails, Fail, Goto, FailLabel, env, Move,
         Advance, MoveRefused, Rows, TypeOK, RowType, PcType
<1> QED BY <1>1, <1>2, <1>3 DEF SagaInv

LEMMA PrepareChatSaga ==
  ASSUME TypeOK, SagaInv, NEW i \in Transitions, PrepareChat(i)
  PROVE  SagaInv'
<1>1. OneActive'
  BY DEF SagaInv, OneActive, PrepareChat, Active
<1>2. StopHoldsRow'
  BY DEF SagaInv, StopHoldsRow, PrepareChat, Goto, Fail, FailLabel, PastStop, AfterStop,
         TypeOK, PcType
<1>3. Quiet'
  BY DEF SagaInv, Quiet, PrepareChat, At, Goto, Fail, FailLabel, StoreFault, TypeOK,
         PcType
<1> QED BY <1>1, <1>2, <1>3 DEF SagaInv

LEMMA QuiesceChatSaga ==
  ASSUME TypeOK, SagaInv, NEW i \in Transitions, QuiesceChat(i)
  PROVE  SagaInv'
<1>1. OneActive'
  BY DEF SagaInv, OneActive, QuiesceChat, Active
<1>2. StopHoldsRow'
  BY DEF SagaInv, StopHoldsRow, QuiesceChat, Goto, Fail, FailLabel, PastStop, AfterStop,
         TypeOK, PcType
<1>3. Quiet'
  BY DEF SagaInv, Quiet, QuiesceChat, At, Goto, Fail, FailLabel, StoreFault, TypeOK,
         PcType
<1> QED BY <1>1, <1>2, <1>3 DEF SagaInv

LEMMA PrepareTuiSaga ==
  ASSUME TypeOK, SagaInv, NEW i \in Transitions, PrepareTui(i)
  PROVE  SagaInv'
<1>1. OneActive'
  BY DEF SagaInv, OneActive, PrepareTui, CtxFails, Active
<1>2. StopHoldsRow'
  BY DEF SagaInv, StopHoldsRow, PrepareTui, CtxFails, Fail, Goto, FailLabel, Source,
         PastStop, AfterStop, TypeOK, PcType
<1>3. Quiet'
  BY DEF SagaInv, Quiet, PrepareTui, At, CtxFails, Fail, Goto, FailLabel, env, TypeOK,
         PcType
<1> QED BY <1>1, <1>2, <1>3 DEF SagaInv

LEMMA RereadSaga ==
  ASSUME TypeOK, SagaInv, NEW i \in Transitions, Reread(i)
  PROVE  SagaInv'
<1>1. OneActive'
  BY DEF SagaInv, OneActive, Reread, CtxFails, Active
<1>2. StopHoldsRow'
  BY DEF SagaInv, StopHoldsRow, Reread, CtxFails, Fail, Goto, FailLabel, Source,
         PastStop, AfterStop, TypeOK, PcType
<1>3. Quiet'
  BY DEF SagaInv, Quiet, Reread, At, CtxFails, Fail, Goto, FailLabel, env, TypeOK,
         PcType
<1> QED BY <1>1, <1>2, <1>3 DEF SagaInv

LEMMA MoveSourceStoppingSaga ==
  ASSUME TypeOK, SagaInv, NEW i \in Transitions, MoveSourceStopping(i)
  PROVE  SagaInv'
<1>1. OneActive'
  BY DEF SagaInv, OneActive, MoveSourceStopping, Move, Advance, Goto, MoveRefused,
         Active, Source, TypeOK, RowType
<1>2. StopHoldsRow'
  BY DEF SagaInv, StopHoldsRow, MoveSourceStopping, Move, Advance, Goto, MoveRefused,
         StoreFault, FailLabel, Active, Source, PastStop, AfterStop, StopPhases, Rows,
         RequestType, TypeOK, RowType, PcType
<1>3. Quiet'
  BY DEF SagaInv, Quiet, MoveSourceStopping, At, Move, Advance, Goto, MoveRefused,
         StoreFault, FailLabel, Active, Rows, TypeOK, RowType, PcType
<1> QED BY <1>1, <1>2, <1>3 DEF SagaInv

LEMMA AbortSourceSaga ==
  ASSUME TypeOK, SagaInv, NEW i \in Transitions, AbortSource(i)
  PROVE  SagaInv'
<1>1. OneActive'
  BY DEF SagaInv, OneActive, AbortSource, Active
<1>2. StopHoldsRow'
  BY DEF SagaInv, StopHoldsRow, AbortSource, Goto, PastStop, AfterStop
<1>3. Quiet'
  BY DEF SagaInv, Quiet, AbortSource, At, Goto, env
<1> QED BY <1>1, <1>2, <1>3 DEF SagaInv

LEMMA FinishBeforeStopSaga ==
  ASSUME TypeOK, SagaInv, NEW i \in Transitions, FinishBeforeStop(i)
  PROVE  SagaInv'
<1>1. OneActive'
  BY DEF SagaInv, OneActive, FinishBeforeStop, Finish, Advance, MoveRefused, Active,
         TypeOK, RowType
<1>2. StopHoldsRow'
  BY DEF SagaInv, StopHoldsRow, FinishBeforeStop, Finish, Advance, MoveRefused,
         StoreFault, Exit, Goto, Active, PastStop, AfterStop, StopPhases, TypeOK,
         RowType, PcType
<1>3. Quiet'
  BY DEF SagaInv, Quiet, FinishBeforeStop, Finish, Advance, MoveRefused, StoreFault,
         Exit, Goto, Active, TypeOK, RowType, PcType
<1> QED BY <1>1, <1>2, <1>3 DEF SagaInv

LEMMA StopSourceSaga ==
  ASSUME TypeOK, SagaInv, NEW i \in Transitions, StopSource(i)
  PROVE  SagaInv'
<1>1. OneActive'
  BY DEF SagaInv, OneActive, StopSource, Active
<1>2. StopHoldsRow'
  BY DEF SagaInv, StopHoldsRow, StopSource, At, Goto, PastStop, AfterStop, TypeOK,
         PcType
<1>3. Quiet'
  BY DEF SagaInv, Quiet, StopSource, At, Goto, env, TypeOK, PcType
<1> QED BY <1>1, <1>2, <1>3 DEF SagaInv

LEMMA FinishRecoverySaga ==
  ASSUME TypeOK, SagaInv, NEW i \in Transitions, FinishRecovery(i)
  PROVE  SagaInv'
<1>1. OneActive'
  BY DEF SagaInv, OneActive, FinishRecovery, Finish, Advance, MoveRefused, Active,
         TypeOK, RowType
<1>2. StopHoldsRow'
  BY DEF SagaInv, StopHoldsRow, FinishRecovery, Finish, Advance, MoveRefused,
         StoreFault, Exit, Goto, Active, PastStop, AfterStop, StopPhases, TypeOK,
         RowType, PcType
<1>3. Quiet'
  BY DEF SagaInv, Quiet, FinishRecovery, Finish, Advance, MoveRefused, StoreFault, Exit,
         Goto, Active, TypeOK, RowType, PcType
<1> QED BY <1>1, <1>2, <1>3 DEF SagaInv

LEMMA MoveSourceStoppedSaga ==
  ASSUME TypeOK, SagaInv, NEW i \in Transitions, MoveSourceStopped(i)
  PROVE  SagaInv'
<1>1. OneActive'
  BY DEF SagaInv, OneActive, MoveSourceStopped, Move, Advance, Goto, MoveRefused,
         Active, TypeOK, RowType
<1>2. StopHoldsRow'
  BY DEF SagaInv, StopHoldsRow, MoveSourceStopped, At, Move, Advance, Goto, MoveRefused,
         StoreFault, Active, PastStop, AfterStop, StopPhases, Rows, RequestType, TypeOK,
         RowType, PcType
<1>3. Quiet'
  BY DEF SagaInv, Quiet, MoveSourceStopped, At, Move, Advance, Goto, MoveRefused,
         StoreFault, Rows, TypeOK, RowType, PcType
<1> QED BY <1>1, <1>2, <1>3 DEF SagaInv

LEMMA CommitEpochSaga ==
  ASSUME TypeOK, SagaInv, NEW i \in Transitions, CommitEpoch(i)
  PROVE  SagaInv'
<1>1. OneActive'
  BY DEF SagaInv, OneActive, CommitEpoch, Active
<1>2. StopHoldsRow'
  BY DEF SagaInv, StopHoldsRow, CommitEpoch, At, Goto, PastStop, AfterStop, TypeOK,
         PcType
<1>3. Quiet'
  BY DEF SagaInv, Quiet, CommitEpoch, At, Goto, TypeOK, PcType
<1> QED BY <1>1, <1>2, <1>3 DEF SagaInv

LEMMA MoveTargetStartingSaga ==
  ASSUME TypeOK, SagaInv, NEW i \in Transitions, MoveTargetStarting(i)
  PROVE  SagaInv'
<1>1. OneActive'
  BY DEF SagaInv, OneActive, MoveTargetStarting, Move, Advance, Goto, MoveRefused,
         Active, TypeOK, RowType
<1>2. StopHoldsRow'
  BY DEF SagaInv, StopHoldsRow, MoveTargetStarting, At, Move, Advance, Goto,
         MoveRefused, StoreFault, Active, PastStop, AfterStop, StopPhases, Rows,
         RequestType, TypeOK, RowType, PcType
<1>3. Quiet'
  BY DEF SagaInv, Quiet, MoveTargetStarting, At, Move, Advance, Goto, MoveRefused,
         StoreFault, Rows, TypeOK, RowType, PcType
<1> QED BY <1>1, <1>2, <1>3 DEF SagaInv

LEMMA StartTargetSaga ==
  ASSUME TypeOK, SagaInv, NEW i \in Transitions, StartTarget(i)
  PROVE  SagaInv'
<1>1. OneActive'
  BY DEF SagaInv, OneActive, StartTarget, Launch, Active
<1>2. StopHoldsRow'
  BY DEF SagaInv, StopHoldsRow, StartTarget, At, Launch, Goto, PastStop, AfterStop,
         TypeOK, PcType
<1>3. Quiet'
  BY DEF SagaInv, Quiet, StartTarget, At, Launch, Goto, env, TypeOK, PcType
<1> QED BY <1>1, <1>2, <1>3 DEF SagaInv

LEMMA MarkTargetSaga ==
  ASSUME TypeOK, SagaInv, NEW i \in Transitions, MarkTarget(i)
  PROVE  SagaInv'
<1>1. OneActive'
  BY DEF SagaInv, OneActive, MarkTarget, Mark, Active
<1>2. StopHoldsRow'
  BY DEF SagaInv, StopHoldsRow, MarkTarget, At, Mark, NewIdentity, Goto, PastStop,
         AfterStop, TypeOK, PcType
<1>3. Quiet'
  BY DEF SagaInv, Quiet, MarkTarget, At, Mark, NewIdentity, Goto, env, TypeOK, PcType
<1> QED BY <1>1, <1>2, <1>3 DEF SagaInv

LEMMA UnsettledTargetSaga ==
  ASSUME TypeOK, SagaInv, NEW i \in Transitions, UnsettledTarget(i)
  PROVE  SagaInv'
<1>1. OneActive'
  BY DEF SagaInv, OneActive, UnsettledTarget, Active
<1>2. StopHoldsRow'
  BY DEF SagaInv, StopHoldsRow, UnsettledTarget, At, Goto, PastStop, AfterStop, TypeOK,
         PcType
<1>3. Quiet'
  BY DEF SagaInv, Quiet, UnsettledTarget, At, Goto, env, TypeOK, PcType
<1> QED BY <1>1, <1>2, <1>3 DEF SagaInv

LEMMA RetryTargetSaga ==
  ASSUME TypeOK, SagaInv, NEW i \in Transitions, RetryTarget(i)
  PROVE  SagaInv'
<1>1. OneActive'
  BY DEF SagaInv, OneActive, RetryTarget, Launch, Active
<1>2. StopHoldsRow'
  BY DEF SagaInv, StopHoldsRow, RetryTarget, At, Launch, Goto, PastStop, AfterStop,
         TypeOK, PcType
<1>3. Quiet'
  BY DEF SagaInv, Quiet, RetryTarget, At, Launch, Goto, env, TypeOK, PcType
<1> QED BY <1>1, <1>2, <1>3 DEF SagaInv

LEMMA RemarkTargetSaga ==
  ASSUME TypeOK, SagaInv, NEW i \in Transitions, RemarkTarget(i)
  PROVE  SagaInv'
<1>1. OneActive'
  BY DEF SagaInv, OneActive, RemarkTarget, Mark, Active
<1>2. StopHoldsRow'
  BY DEF SagaInv, StopHoldsRow, RemarkTarget, At, Mark, Goto, MarkFails, PastStop,
         AfterStop, TypeOK, PcType
<1>3. Quiet'
  BY DEF SagaInv, Quiet, RemarkTarget, At, Mark, Goto, MarkFails, env, TypeOK, PcType
<1> QED BY <1>1, <1>2, <1>3 DEF SagaInv

LEMMA RetainTargetSaga ==
  ASSUME TypeOK, SagaInv, NEW i \in Transitions, RetainTarget(i)
  PROVE  SagaInv'
<1>1. OneActive'
  BY DEF SagaInv, OneActive, RetainTarget, MoveRefused, Active, TypeOK, RowType
<1>2. StopHoldsRow'
  BY DEF SagaInv, StopHoldsRow, RetainTarget, MoveRefused, Exit, Goto, Active, PastStop,
         AfterStop, StopPhases, TypeOK, RowType, PcType
<1>3. Quiet'
  BY DEF SagaInv, Quiet, RetainTarget, MoveRefused, Exit, Goto, Active, TypeOK, RowType,
         PcType
<1> QED BY <1>1, <1>2, <1>3 DEF SagaInv

LEMMA MoveActivatingSaga ==
  ASSUME TypeOK, SagaInv, NEW i \in Transitions, MoveActivating(i)
  PROVE  SagaInv'
<1>1. OneActive'
  BY DEF SagaInv, OneActive, MoveActivating, Move, Advance, Goto, MoveRefused, Active,
         TypeOK, RowType
<1>2. StopHoldsRow'
  BY DEF SagaInv, StopHoldsRow, MoveActivating, At, Move, Advance, Goto, MoveRefused,
         StoreFault, Active, PastStop, AfterStop, StopPhases, Rows, RequestType, TypeOK,
         RowType, PcType
<1>3. Quiet'
  BY DEF SagaInv, Quiet, MoveActivating, At, Move, Advance, Goto, MoveRefused, Rows,
         TypeOK, RowType, PcType
<1> QED BY <1>1, <1>2, <1>3 DEF SagaInv

LEMMA CompleteSaga ==
  ASSUME TypeOK, SagaInv, NEW i \in Transitions, Complete(i)
  PROVE  SagaInv'
<1>1. OneActive'
  BY DEF SagaInv, OneActive, Complete, Finish, Advance, MoveRefused, Active, TypeOK,
         RowType
<1>2. StopHoldsRow'
  BY DEF SagaInv, StopHoldsRow, Complete, Finish, Advance, MoveRefused, StoreFault,
         Exit, Goto, Active, PastStop, AfterStop, StopPhases, TypeOK, RowType, PcType
<1>3. Quiet'
  BY DEF SagaInv, Quiet, Complete, Finish, Advance, MoveRefused, StoreFault, Exit, Goto,
         Active, TypeOK, RowType, PcType
<1> QED BY <1>1, <1>2, <1>3 DEF SagaInv

LEMMA RollbackStopTargetSaga ==
  ASSUME TypeOK, SagaInv, NEW i \in Transitions, RollbackStopTarget(i)
  PROVE  SagaInv'
<1>1. OneActive'
  BY DEF SagaInv, OneActive, RollbackStopTarget, Active
<1>2. StopHoldsRow'
  BY DEF SagaInv, StopHoldsRow, RollbackStopTarget, At, Goto, PastStop, AfterStop,
         TypeOK, PcType
<1>3. Quiet'
  BY DEF SagaInv, Quiet, RollbackStopTarget, At, Goto, env, TypeOK, PcType
<1> QED BY <1>1, <1>2, <1>3 DEF SagaInv

LEMMA RollbackEpochSaga ==
  ASSUME TypeOK, SagaInv, NEW i \in Transitions, RollbackEpoch(i)
  PROVE  SagaInv'
<1>1. OneActive'
  BY DEF SagaInv, OneActive, RollbackEpoch, Active
<1>2. StopHoldsRow'
  BY DEF SagaInv, StopHoldsRow, RollbackEpoch, At, Goto, PastStop, AfterStop, TypeOK,
         PcType
<1>3. Quiet'
  BY DEF SagaInv, Quiet, RollbackEpoch, At, Goto, TypeOK, PcType
<1> QED BY <1>1, <1>2, <1>3 DEF SagaInv

LEMMA RollbackCleanupSaga ==
  ASSUME TypeOK, SagaInv, NEW i \in Transitions, RollbackCleanup(i)
  PROVE  SagaInv'
<1>1. OneActive'
  BY DEF SagaInv, OneActive, RollbackCleanup, Active
<1>2. StopHoldsRow'
  BY DEF SagaInv, StopHoldsRow, RollbackCleanup, At, Goto, PastStop, AfterStop, TypeOK,
         PcType
<1>3. Quiet'
  BY DEF SagaInv, Quiet, RollbackCleanup, At, Goto, env, TypeOK, PcType
<1> QED BY <1>1, <1>2, <1>3 DEF SagaInv

LEMMA RollbackStartSaga ==
  ASSUME TypeOK, SagaInv, NEW i \in Transitions, RollbackStart(i)
  PROVE  SagaInv'
<1>1. OneActive'
  BY DEF SagaInv, OneActive, RollbackStart, Launch, Active
<1>2. StopHoldsRow'
  BY DEF SagaInv, StopHoldsRow, RollbackStart, At, Launch, Goto, PastStop, AfterStop,
         TypeOK, PcType
<1>3. Quiet'
  BY DEF SagaInv, Quiet, RollbackStart, At, Launch, Goto, env, TypeOK, PcType
<1> QED BY <1>1, <1>2, <1>3 DEF SagaInv

LEMMA RollbackMarkSaga ==
  ASSUME TypeOK, SagaInv, NEW i \in Transitions, RollbackMark(i)
  PROVE  SagaInv'
<1>1. OneActive'
  BY DEF SagaInv, OneActive, RollbackMark, Mark, Active
<1>2. StopHoldsRow'
  BY DEF SagaInv, StopHoldsRow, RollbackMark, At, Mark, Goto, MarkFails, PastStop,
         AfterStop, TypeOK, PcType
<1>3. Quiet'
  BY DEF SagaInv, Quiet, RollbackMark, At, Mark, Goto, MarkFails, env, TypeOK, PcType
<1> QED BY <1>1, <1>2, <1>3 DEF SagaInv

LEMMA RollbackFinishSaga ==
  ASSUME TypeOK, SagaInv, NEW i \in Transitions, RollbackFinish(i)
  PROVE  SagaInv'
<1>1. OneActive'
  BY DEF SagaInv, OneActive, RollbackFinish, Finish, Advance, MoveRefused, Active,
         TypeOK, RowType
<1>2. StopHoldsRow'
  BY DEF SagaInv, StopHoldsRow, RollbackFinish, Finish, Advance, MoveRefused,
         StoreFault, Exit, Goto, Active, PastStop, AfterStop, StopPhases, TypeOK,
         RowType, PcType
<1>3. Quiet'
  BY DEF SagaInv, Quiet, RollbackFinish, Finish, Advance, MoveRefused, StoreFault, Exit,
         Goto, Active, TypeOK, RowType, PcType
<1> QED BY <1>1, <1>2, <1>3 DEF SagaInv

LEMMA CancelReadSaga ==
  ASSUME TypeOK, SagaInv, NEW i \in Transitions, CancelRead(i)
  PROVE  SagaInv'
<1>1. OneActive' /\ StopHoldsRow'
  BY DEF SagaInv, OneActive, StopHoldsRow, CancelRead, worker, Active, PastStop
<1>2. Quiet'
  BY DEF SagaInv, Quiet, CancelRead, worker, env
<1> QED BY <1>1, <1>2 DEF SagaInv

LEMMA RecoverStopTargetSaga ==
  ASSUME TypeOK, SagaInv, NEW i \in Transitions, RecoverStopTarget(i)
  PROVE  SagaInv'
<1>1. OneActive' /\ StopHoldsRow'
  BY DEF SagaInv, OneActive, StopHoldsRow, RecoverStopTarget, worker, Active, PastStop
<1>2. Quiet'
  BY DEF SagaInv, Quiet, RecoverStopTarget, worker
<1> QED BY <1>1, <1>2 DEF SagaInv

LEMMA RecoverQuarantineSaga ==
  ASSUME TypeOK, SagaInv, NEW i \in Transitions, RecoverQuarantine(i)
  PROVE  SagaInv'
<1>1. OneActive'
  BY DEF SagaInv, OneActive, RecoverQuarantine, NeedsTargetStop, Active, TypeOK, RowType
<1>2. StopHoldsRow'
  BY DEF SagaInv, StopHoldsRow, RecoverQuarantine, worker, Target, PastStop, StopPhases,
         TypeOK, RowType
<1>3. Quiet'
  BY DEF SagaInv, Quiet, RecoverQuarantine, NeedsTargetStop, worker, Active, TypeOK,
         RowType
<1> QED BY <1>1, <1>2, <1>3 DEF SagaInv

LEMMA RecoverEpochSaga ==
  ASSUME TypeOK, SagaInv, NEW i \in Transitions, RecoverEpoch(i)
  PROVE  SagaInv'
<1>1. OneActive' /\ StopHoldsRow'
  BY DEF SagaInv, OneActive, StopHoldsRow, RecoverEpoch, Active, PastStop
<1>2. Quiet'
  BY DEF SagaInv, Quiet, RecoverEpoch
<1> QED BY <1>1, <1>2 DEF SagaInv

LEMMA RecoverRowSaga ==
  ASSUME TypeOK, SagaInv, NEW i \in Transitions, RecoverRow(i)
  PROVE  SagaInv'
<1>1. OneActive'
  BY DEF SagaInv, OneActive, RecoverRow, Advance, Active, TypeOK, RowType
<1>2. StopHoldsRow'
  BY DEF SagaInv, StopHoldsRow, RecoverRow, worker, PastStop, AfterStop, Quiet
<1>3. Quiet'
  BY DEF SagaInv, Quiet, RecoverRow, Advance, worker, Active, TypeOK, RowType
<1> QED BY <1>1, <1>2, <1>3 DEF SagaInv

LEMMA CancelRowSaga ==
  ASSUME TypeOK, SagaInv, CancelRow
  PROVE  SagaInv'
<1>1. OneActive'
  BY DEF SagaInv, OneActive, CancelRow, Serving, session, agent, worker, env,
         IdleCancel, NoActive, Quiet, Rows, RequestType, Cancellable, Active,
         TerminalPhases, TypeOK, RowType, PcType
<1>2. StopHoldsRow'
  BY DEF SagaInv, StopHoldsRow, CancelRow, Serving, session, agent, worker, env,
         IdleCancel, PastStop, AfterStop, StopPhases, Rows, RequestType, Quiet,
         Cancellable, Active, TerminalPhases, TypeOK, RowType, PcType
<1>3. Quiet'
  <2>1. CASE cancel' = IdleCancel /\ UNCHANGED row
    BY <2>1 DEF SagaInv, Quiet, CancelRow, Serving, worker, env, IdleCancel
  <2>2. CASE /\ row' = [row EXCEPT ![cancel.of].phase = "cancelled",
                                  ![cancel.of].unconfirmed = FALSE]
             /\ cancel' = [cancel EXCEPT !.pc = "won"]
             /\ row[cancel.of].phase = cancel.phase
    <3>1. cancel.of \in Transitions BY DEF SagaInv, Quiet, CancelRow
    <3>2. \A j \in Transitions : row'[j].unconfirmed => row[j].unconfirmed
      BY <2>2, <3>1 DEF TypeOK, RowType
    <3>3. cancel'.of \in Transitions BY <2>2, <3>1 DEF TypeOK, RequestType
    <3>4. cancel.phase # "absent" BY DEF TypeOK, RequestType, Cancellable
    <3> QED
      BY <2>2, <3>1, <3>2, <3>3, <3>4
         DEF SagaInv, Quiet, CancelRow, Serving, worker, env, TypeOK, RowType
  <2> QED BY <2>1, <2>2 DEF CancelRow
<1> QED BY <1>1, <1>2, <1>3 DEF SagaInv

LEMMA CancelSignalSaga ==
  ASSUME TypeOK, SagaInv, CancelSignal
  PROVE  SagaInv'
<1>1. OneActive' /\ StopHoldsRow'
  BY DEF SagaInv, OneActive, StopHoldsRow, CancelSignal, Active, PastStop
<1>2. Quiet'
  BY DEF SagaInv, Quiet, CancelSignal, env, IdleCancel
<1> QED BY <1>1, <1>2 DEF SagaInv

LEMMA OpStopSaga ==
  ASSUME TypeOK, SagaInv, OpStop
  PROVE  SagaInv'
<1>1. OneActive' /\ StopHoldsRow' /\ Quiet'
  BY DEF SagaInv, OneActive, StopHoldsRow, Quiet, OpStop, Serving, StopOwner, agent,
         StopProcess, session, worker, env, NoActive, Active, Source, Target, PastStop,
         NoOrphan
<1> QED BY <1>1 DEF SagaInv

LEMMA OpTerminateSaga ==
  ASSUME TypeOK, SagaInv, OpTerminate
  PROVE  SagaInv'
<1>1. OneActive' /\ StopHoldsRow' /\ Quiet'
  BY DEF SagaInv, OneActive, StopHoldsRow, Quiet, OpTerminate, Serving, agent, worker,
         env, NoActive, Active, Source, Target, PastStop, NoOrphan
<1> QED BY <1>1 DEF SagaInv

LEMMA OpLaunchSaga ==
  ASSUME TypeOK, SagaInv, OpLaunch
  PROVE  SagaInv'
<1>1. OneActive' /\ StopHoldsRow' /\ Quiet'
  BY DEF SagaInv, OneActive, StopHoldsRow, Quiet, OpLaunch, env, Active, PastStop
<1> QED BY <1>1 DEF SagaInv

LEMMA OpMarkSaga ==
  ASSUME TypeOK, SagaInv, OpMark
  PROVE  SagaInv'
<1>1. OneActive' /\ StopHoldsRow' /\ Quiet'
  BY DEF SagaInv, OneActive, StopHoldsRow, Quiet, OpMark, env, Active, PastStop
<1> QED BY <1>1 DEF SagaInv

LEMMA ChatSendSaga ==
  ASSUME TypeOK, SagaInv, ChatSend
  PROVE  SagaInv'
<1>1. OneActive' /\ StopHoldsRow' /\ Quiet'
  BY DEF SagaInv, OneActive, StopHoldsRow, Quiet, ChatSend, worker, env, Active,
         PastStop
<1> QED BY <1>1 DEF SagaInv

LEMMA TerminalInputSaga ==
  ASSUME TypeOK, SagaInv, TerminalInput
  PROVE  SagaInv'
<1>1. OneActive' /\ StopHoldsRow' /\ Quiet'
  BY DEF SagaInv, OneActive, StopHoldsRow, Quiet, TerminalInput, worker, env, Active,
         PastStop
<1> QED BY <1>1 DEF SagaInv

LEMMA TurnDoneSaga ==
  ASSUME TypeOK, SagaInv, TurnDone
  PROVE  SagaInv'
<1>1. OneActive' /\ StopHoldsRow' /\ Quiet'
  BY DEF SagaInv, OneActive, StopHoldsRow, Quiet, TurnDone, worker, env, Active,
         PastStop
<1> QED BY <1>1 DEF SagaInv

LEMMA DispatchSaga ==
  ASSUME TypeOK, SagaInv, Dispatch
  PROVE  SagaInv'
<1>1. OneActive' /\ StopHoldsRow' /\ Quiet'
  BY DEF SagaInv, OneActive, StopHoldsRow, Quiet, Dispatch, worker, env, Active,
         PastStop
<1> QED BY <1>1 DEF SagaInv

LEMMA CrashSaga ==
  ASSUME TypeOK, SagaInv, Crash
  PROVE  SagaInv'
<1>1. OneActive'
  BY DEF SagaInv, OneActive, Crash, NoRow, Active
<1>2. StopHoldsRow'
  BY DEF SagaInv, StopHoldsRow, Crash, PastStop, AfterStop
<1>3. Quiet'
  BY DEF SagaInv, Quiet, Crash, NoRow, IdleCancel
<1> QED BY <1>1, <1>2, <1>3 DEF SagaInv

LEMMA ServeAPISaga ==
  ASSUME TypeOK, SagaInv, ServeAPI
  PROVE  SagaInv'
<1>1. OneActive' /\ StopHoldsRow'
  BY DEF SagaInv, OneActive, StopHoldsRow, ServeAPI, worker, Active, PastStop
<1>2. Quiet'
  BY DEF SagaInv, Quiet, ServeAPI, worker
<1> QED BY <1>1, <1>2 DEF SagaInv

LEMMA OpBeginSaga ==
  ASSUME TypeOK, SagaInv, NEW kind \in {"kill", "exit", "resume"}, OpBegin(kind)
  PROVE  SagaInv'
<1>1. OneActive' /\ StopHoldsRow' /\ Quiet'
  BY DEF SagaInv, OneActive, StopHoldsRow, Quiet, OpBegin, worker, env, Active, PastStop
<1> QED BY <1>1 DEF SagaInv

LEMMA ControllerExitsSaga ==
  ASSUME TypeOK, SagaInv, NEW m \in Modes, ControllerExits(m)
  PROVE  SagaInv'
<1>1. OneActive' /\ StopHoldsRow' /\ Quiet'
  BY DEF SagaInv, OneActive, StopHoldsRow, Quiet, ControllerExits, worker, env, Active,
         PastStop
<1> QED BY <1>1 DEF SagaInv

-----------------------------------------------------------------------------
(* Every step together, and the theorems.                                  *)

\* Every step keeps the sagas of a session apart.
LEMMA SagaStep == TypeOK /\ SagaInv /\ [Next]_vars => SagaInv'
<1> SUFFICES ASSUME TypeOK, SagaInv, [Next]_vars PROVE SagaInv'
  OBVIOUS
<1>1. CASE UNCHANGED vars
  BY <1>1
     DEF vars, session, agent, worker, env, SagaInv, OneActive, StopHoldsRow, Quiet,
         PastStop, Active
<1>2. ASSUME NEW i \in Transitions, Request(i) PROVE SagaInv'
  BY <1>2, StartReadSaga, StartCreateSaga, StartArmSaga, StartArmFailedSaga,
     StartWorkerSaga
     DEF Request
<1>3. ASSUME NEW i \in Transitions, WorkerBeforeStop(i) PROVE SagaInv'
  BY <1>3, MovePreflightingSaga, CheckSessionSaga, MoveDrainingSaga, PrepareChatSaga,
     QuiesceChatSaga, PrepareTuiSaga, RereadSaga, MoveSourceStoppingSaga,
     AbortSourceSaga, FinishBeforeStopSaga
     DEF WorkerBeforeStop
<1>4. ASSUME NEW i \in Transitions, WorkerAfterStop(i) PROVE SagaInv'
  BY <1>4, StopSourceSaga, FinishRecoverySaga, MoveSourceStoppedSaga, CommitEpochSaga,
     MoveTargetStartingSaga, StartTargetSaga, MarkTargetSaga, UnsettledTargetSaga,
     RetryTargetSaga, RemarkTargetSaga, RetainTargetSaga, MoveActivatingSaga,
     CompleteSaga, RollbackStopTargetSaga, RollbackEpochSaga, RollbackCleanupSaga,
     RollbackStartSaga, RollbackMarkSaga, RollbackFinishSaga
     DEF WorkerAfterStop
<1>5. CASE CancelRequest
  BY <1>5, CancelReadSaga, CancelRowSaga, CancelSignalSaga DEF CancelRequest
<1>6. CASE Operation
  BY <1>6, OpBeginSaga, OpStopSaga, OpTerminateSaga, OpLaunchSaga, OpMarkSaga
     DEF Operation
<1>7. CASE Agent
  BY <1>7, ChatSendSaga, TerminalInputSaga, TurnDoneSaga, DispatchSaga,
     ControllerExitsSaga
     DEF Agent
<1>8. CASE Crash BY <1>8, CrashSaga
<1>9. CASE Recovery
  BY <1>9, RecoverStopTargetSaga, RecoverQuarantineSaga, RecoverEpochSaga,
     RecoverRowSaga, ServeAPISaga
     DEF Recovery
<1> QED BY <1>1, <1>2, <1>3, <1>4, <1>5, <1>6, <1>7, <1>8, <1>9 DEF Next, Work

\* No saga is active at the start.
LEMMA SagaInit == Init => SagaInv
BY DEF Init, SagaInv, OneActive, StopHoldsRow, Quiet, PastStop, AfterStop, Active,
       TerminalPhases, NoRow, IdleCancel

\* The saga half of the invariant is inductive for the code as it is: whatever
\* operations overlap, and whether or not an orphan is cleaned up.
THEOREM SagaCorrect == Spec => [](TypeOK /\ SagaInv)
<1> QED BY TypeInit, TypeStep, SagaInit, SagaStep, PTL DEF Spec

\* A cancellation that won durably left the source alone: for every number of
\* transitions, crashes and failed writes.
THEOREM CancelSafe == Spec => []CancelHonoured
<1>1. SagaInv => CancelHonoured
  BY DEF SagaInv, StopHoldsRow, StopPhases, CancelHonoured
<1> QED BY <1>1, SagaCorrect, PTL

\* The stop of a source belongs to one saga, whose row is still active.
THEOREM OneSaga == Spec => []SingleSaga
<1>1. SagaInv => SingleSaga
  BY DEF SagaInv, OneActive, StopHoldsRow, StopPhases, SingleSaga, Active,
         TerminalPhases
<1> QED BY <1>1, SagaCorrect, PTL

-----------------------------------------------------------------------------
(* No step rewrites an outcome.                                            *)

\* What a step may do to the rows of finished sagas.
RowsSettle ==
  \A i \in Transitions : row[i].phase \in TerminalPhases => row'[i] = row[i]

\* No step touches a finished row.
LEMMA FinalStep ==
  ASSUME TypeOK, SagaInv, [Next]_vars
  PROVE  RowsSettle
<1>1. CASE UNCHANGED vars
  BY <1>1 DEF RowsSettle, vars, Active
<1>2. ASSUME NEW i \in Transitions, Request(i) PROVE RowsSettle
  <2>1. CASE \E policy \in Policies : StartRead(i, policy)
    BY <2>1
       DEF RowsSettle, StartRead, At, Serving, Goto, Active, TerminalPhases, TypeOK,
           RowType, SagaInv, Quiet, NoRow, RequestType, Cancellable, Source
  <2>2. CASE StartCreate(i)
    BY <2>2
       DEF RowsSettle, StartCreate, At, Serving, Goto, Active, TerminalPhases, TypeOK,
           RowType, SagaInv, Quiet, NoRow, RequestType, Cancellable, Source
  <2>3. CASE StartArm(i)
    BY <2>3 DEF RowsSettle, StartArm
  <2>4. CASE StartArmFailed(i)
    BY <2>4
       DEF RowsSettle, StartArmFailed, At, Serving, Finish, Advance, MoveRefused,
           StoreFault, Exit, Goto, Active, TerminalPhases, TypeOK, RowType
  <2>5. CASE StartWorker(i)
    BY <2>5 DEF RowsSettle, StartWorker
  <2> QED BY <1>2, <2>1, <2>2, <2>3, <2>4, <2>5 DEF Request
<1>3. ASSUME NEW i \in Transitions, WorkerBeforeStop(i) PROVE RowsSettle
  <2>1. CASE MovePreflighting(i)
    BY <2>1
       DEF RowsSettle, MovePreflighting, At, Serving, Move, Advance, Goto, MoveRefused,
           StoreFault, FailLabel, Active, TerminalPhases, TypeOK, RowType
  <2>2. CASE CheckSession(i)
    BY <2>2 DEF RowsSettle, CheckSession, CtxFails, Fail
  <2>3. CASE MoveDraining(i)
    BY <2>3
       DEF RowsSettle, MoveDraining, At, Serving, CtxFails, Fail, Goto, FailLabel, Move,
           Advance, MoveRefused, StoreFault, Active, TerminalPhases, TypeOK, RowType
  <2>4. CASE PrepareChat(i)
    BY <2>4 DEF RowsSettle, PrepareChat, Fail
  <2>5. CASE QuiesceChat(i)
    BY <2>5 DEF RowsSettle, QuiesceChat, Fail
  <2>6. CASE PrepareTui(i)
    BY <2>6 DEF RowsSettle, PrepareTui, CtxFails, Fail
  <2>7. CASE Reread(i)
    BY <2>7 DEF RowsSettle, Reread, CtxFails, Fail
  <2>8. CASE MoveSourceStopping(i)
    BY <2>8
       DEF RowsSettle, MoveSourceStopping, At, Serving, Move, Advance, Goto,
           MoveRefused, StoreFault, FailLabel, Active, TerminalPhases, TypeOK, RowType
  <2>9. CASE AbortSource(i)
    BY <2>9 DEF RowsSettle, AbortSource
  <2>10. CASE FinishBeforeStop(i)
    BY <2>10
       DEF RowsSettle, FinishBeforeStop, At, Serving, Finish, Advance, MoveRefused,
           StoreFault, Exit, Goto, Active, TerminalPhases, TypeOK, RowType
  <2> QED
    BY <1>3, <2>1, <2>2, <2>3, <2>4, <2>5, <2>6, <2>7, <2>8, <2>9, <2>10
       DEF WorkerBeforeStop
<1>4. ASSUME NEW i \in Transitions, WorkerAfterStop(i) PROVE RowsSettle
  <2>1. CASE StopSource(i)
    BY <2>1 DEF RowsSettle, StopSource, StopOwner
  <2>2. CASE FinishRecovery(i)
    BY <2>2
       DEF RowsSettle, FinishRecovery, At, Serving, Finish, Advance, MoveRefused,
           StoreFault, Exit, Goto, Active, TerminalPhases, TypeOK, RowType
  <2>3. CASE MoveSourceStopped(i)
    BY <2>3
       DEF RowsSettle, MoveSourceStopped, At, Serving, Move, Advance, Goto, MoveRefused,
           StoreFault, Active, TerminalPhases, TypeOK, RowType
  <2>4. CASE CommitEpoch(i)
    BY <2>4 DEF RowsSettle, CommitEpoch
  <2>5. CASE MoveTargetStarting(i)
    BY <2>5
       DEF RowsSettle, MoveTargetStarting, At, Serving, Move, Advance, Goto,
           MoveRefused, StoreFault, Active, TerminalPhases, TypeOK, RowType
  <2>6. CASE StartTarget(i)
    BY <2>6 DEF RowsSettle, StartTarget, Launch
  <2>7. CASE MarkTarget(i)
    BY <2>7 DEF RowsSettle, MarkTarget, Mark, MarkFails, PromptFails
  <2>8. CASE UnsettledTarget(i)
    BY <2>8 DEF RowsSettle, UnsettledTarget, StopOwner
  <2>9. CASE RetryTarget(i)
    BY <2>9 DEF RowsSettle, RetryTarget, Launch
  <2>10. CASE RemarkTarget(i)
    BY <2>10 DEF RowsSettle, RemarkTarget, Mark, MarkFails, PromptFails
  <2>11. CASE RetainTarget(i)
    BY <2>11
       DEF RowsSettle, RetainTarget, At, Serving, MoveRefused, StoreFault, Exit, Goto,
           Active, TerminalPhases, TypeOK, RowType
  <2>12. CASE MoveActivating(i)
    BY <2>12
       DEF RowsSettle, MoveActivating, At, Serving, Move, Advance, Goto, MoveRefused,
           StoreFault, Active, TerminalPhases, TypeOK, RowType
  <2>13. CASE Complete(i)
    BY <2>13
       DEF RowsSettle, Complete, At, Serving, Finish, Advance, MoveRefused, StoreFault,
           Exit, Goto, Active, TerminalPhases, TypeOK, RowType
  <2>14. CASE RollbackStopTarget(i)
    BY <2>14 DEF RowsSettle, RollbackStopTarget, StopOwner
  <2>15. CASE RollbackEpoch(i)
    BY <2>15 DEF RowsSettle, RollbackEpoch
  <2>16. CASE RollbackCleanup(i)
    BY <2>16 DEF RowsSettle, RollbackCleanup
  <2>17. CASE RollbackStart(i)
    BY <2>17 DEF RowsSettle, RollbackStart, Launch
  <2>18. CASE RollbackMark(i)
    BY <2>18 DEF RowsSettle, RollbackMark, Mark, MarkFails, PromptFails
  <2>19. CASE RollbackFinish(i)
    BY <2>19
       DEF RowsSettle, RollbackFinish, At, Serving, Finish, Advance, MoveRefused,
           StoreFault, Exit, Goto, Active, TerminalPhases, TypeOK, RowType
  <2> QED
    BY <1>4, <2>1, <2>2, <2>3, <2>4, <2>5, <2>6, <2>7, <2>8, <2>9, <2>10, <2>11, <2>12,
       <2>13, <2>14, <2>15, <2>16, <2>17, <2>18, <2>19
       DEF WorkerAfterStop
<1>5. CASE CancelRequest
  <2>1. ASSUME NEW i \in Transitions, CancelRead(i) PROVE RowsSettle
    BY <2>1 DEF RowsSettle, CancelRead
  <2>2. CASE CancelRow
    BY <2>2
       DEF RowsSettle, CancelRow, Serving, Active, TerminalPhases, TypeOK, RowType,
           SagaInv, Quiet, NoRow, RequestType, Cancellable, Source
  <2>3. CASE CancelSignal
    BY <2>3 DEF RowsSettle, CancelSignal
  <2> QED BY <1>5, <2>1, <2>2, <2>3 DEF CancelRequest
<1>6. CASE Operation
  <2>1. CASE \E kind \in {"kill", "exit", "resume"} : OpBegin(kind)
    BY <2>1 DEF RowsSettle, OpBegin
  <2>2. CASE OpStop
    BY <2>2 DEF RowsSettle, OpStop, StopOwner
  <2>3. CASE OpTerminate
    BY <2>3 DEF RowsSettle, OpTerminate
  <2>4. CASE OpLaunch
    BY <2>4 DEF RowsSettle, OpLaunch
  <2>5. CASE OpMark
    BY <2>5 DEF RowsSettle, OpMark, MarkFails, PromptFails
  <2> QED BY <1>6, <2>1, <2>2, <2>3, <2>4, <2>5 DEF Operation
<1>7. CASE Agent
  <2>1. CASE ChatSend
    BY <2>1 DEF RowsSettle, ChatSend
  <2>2. CASE TerminalInput
    BY <2>2 DEF RowsSettle, TerminalInput
  <2>3. CASE TurnDone
    BY <2>3 DEF RowsSettle, TurnDone
  <2>4. CASE Dispatch
    BY <2>4 DEF RowsSettle, Dispatch
  <2>5. CASE \E m \in Modes : ControllerExits(m)
    BY <2>5 DEF RowsSettle, ControllerExits
  <2> QED BY <1>7, <2>1, <2>2, <2>3, <2>4, <2>5 DEF Agent
<1>8. CASE Crash
  BY <1>8 DEF RowsSettle, Crash, Active, TerminalPhases, TypeOK, RowType
<1>9. CASE Recovery
  <2>1. ASSUME NEW i \in Transitions, RecoverStopTarget(i) PROVE RowsSettle
    BY <2>1 DEF RowsSettle, RecoverStopTarget, NeedsTargetStop, StopOwner
  <2>2. ASSUME NEW i \in Transitions, RecoverQuarantine(i) PROVE RowsSettle
    BY <2>2
       DEF RowsSettle, RecoverQuarantine, NeedsTargetStop, Active, TerminalPhases,
           TypeOK, RowType
  <2>3. ASSUME NEW i \in Transitions, RecoverEpoch(i) PROVE RowsSettle
    BY <2>3 DEF RowsSettle, RecoverEpoch
  <2>4. ASSUME NEW i \in Transitions, RecoverRow(i) PROVE RowsSettle
    BY <2>4
       DEF RowsSettle, RecoverRow, NeedsTargetStop, Advance, Active, TerminalPhases,
           TypeOK, RowType
  <2>5. CASE ServeAPI
    BY <2>5 DEF RowsSettle, ServeAPI
  <2> QED BY <1>9, <2>1, <2>2, <2>3, <2>4, <2>5 DEF Recovery
<1> QED BY <1>1, <1>2, <1>3, <1>4, <1>5, <1>6, <1>7, <1>8, <1>9 DEF Next, Work

\* An outcome is written once, for every number of transitions, crashes and failed
\* writes: no worker, cancel request or boot pass rewrites a saga that has ended.
THEOREM OutcomesFinal == Spec => OutcomeIsFinal
<1>1. TypeOK /\ SagaInv /\ [Next]_vars => [RowsSettle]_vars BY FinalStep
<1> QED BY <1>1, SagaCorrect, PTL DEF Spec, OutcomeIsFinal, RowsSettle

-----------------------------------------------------------------------------
(* Where a worker is tells who owns the session, for the code as it is:    *)
(* from it follows that an outcome tells the truth about the owner.        *)

\* The part of the invariant that needs neither the exclusion of operations nor a
\* cleanup that succeeds.
OwnsInv == TypeOK /\ SagaInv /\ WhoOwns

\* A step that moves no worker, row or epoch leaves the owner where it was.
LEMMA StillOwns == WhoOwns /\ UNCHANGED <<mode, pc, row>> => WhoOwns'
BY DEF WhoOwns, Active, Source, Target

(* Action by action.                                                       *)

LEMMA StartReadOwns ==
  ASSUME OwnsInv, NEW i \in Transitions, NEW policy \in Policies, StartRead(i, policy)
  PROVE  WhoOwns'
BY DEF OwnsInv, WhoOwns, StartRead, Goto, session, TargetOwns, TargetStopped, TypeOK,
       RowType, PcType, Source, Target, Active

LEMMA StartCreateOwns ==
  ASSUME OwnsInv, NEW i \in Transitions, StartCreate(i)
  PROVE  WhoOwns'
BY DEF OwnsInv, WhoOwns, StartCreate, Goto, session, Source, NoRow, SourceVerified,
       SourceOwns, SourceStopped, TargetOwns, TargetStopped, TypeOK, RowType, PcType,
       Target, Active

LEMMA StartArmOwns ==
  ASSUME OwnsInv, NEW i \in Transitions, StartArm(i)
  PROVE  WhoOwns'
BY DEF OwnsInv, WhoOwns, StartArm, Goto, session, SourceVerified, SourceOwns,
       SourceStopped, TargetOwns, TargetStopped, TypeOK, RowType, PcType, Source,
       Target, Active

LEMMA StartArmFailedOwns ==
  ASSUME OwnsInv, NEW i \in Transitions, StartArmFailed(i)
  PROVE  WhoOwns'
BY DEF OwnsInv, WhoOwns, StartArmFailed, Finish, Advance, MoveRefused, StoreFault,
       Exit, Goto, session, Active, SourceVerified, SourceOwns, SourceStopped,
       TargetOwns, TargetStopped, TypeOK, RowType, PcType, Source, Target

LEMMA StartWorkerOwns ==
  ASSUME OwnsInv, NEW i \in Transitions, StartWorker(i)
  PROVE  WhoOwns'
BY DEF OwnsInv, WhoOwns, StartWorker, Goto, session, SourceVerified, SourceOwns,
       SourceStopped, TargetOwns, TargetStopped, Source, Target, Active

LEMMA MovePreflightingOwns ==
  ASSUME OwnsInv, NEW i \in Transitions, MovePreflighting(i)
  PROVE  WhoOwns'
BY DEF OwnsInv, WhoOwns, MovePreflighting, Move, Advance, Goto, MoveRefused,
       StoreFault, session, FailLabel, Active, Source, SourceVerified, SourceOwns,
       SourceStopped, TargetOwns, TargetStopped, TypeOK, RowType, PcType, Target

LEMMA CheckSessionOwns ==
  ASSUME OwnsInv, NEW i \in Transitions, CheckSession(i)
  PROVE  WhoOwns'
BY DEF OwnsInv, WhoOwns, CheckSession, CtxFails, Fail, Goto, FailLabel, session,
       Source, SourceVerified, SourceOwns, SourceStopped, TargetOwns, TargetStopped,
       TypeOK, PcType, Target, Active

LEMMA MoveDrainingOwns ==
  ASSUME OwnsInv, NEW i \in Transitions, MoveDraining(i)
  PROVE  WhoOwns'
BY DEF OwnsInv, WhoOwns, MoveDraining, At, CtxFails, Fail, Goto, FailLabel, session,
       Move, Advance, MoveRefused, StoreFault, Source, Active, SagaInv,
       SourceVerified, SourceOwns, SourceStopped, TargetOwns, TargetStopped, TypeOK,
       RowType, PcType, Target, Rows

LEMMA PrepareChatOwns ==
  ASSUME OwnsInv, NEW i \in Transitions, PrepareChat(i)
  PROVE  WhoOwns'
BY DEF OwnsInv, WhoOwns, PrepareChat, At, Goto, Fail, FailLabel, StoreFault, session,
       Source, SourceVerified, SourceOwns, SourceStopped, TargetOwns, TargetStopped,
       TypeOK, PcType, Target, Active

LEMMA QuiesceChatOwns ==
  ASSUME OwnsInv, NEW i \in Transitions, QuiesceChat(i)
  PROVE  WhoOwns'
BY DEF OwnsInv, WhoOwns, QuiesceChat, At, Goto, Fail, FailLabel, StoreFault, session,
       Source, SourceVerified, SourceOwns, SourceStopped, TargetOwns, TargetStopped,
       TypeOK, PcType, Target, Active

LEMMA PrepareTuiOwns ==
  ASSUME OwnsInv, NEW i \in Transitions, PrepareTui(i)
  PROVE  WhoOwns'
BY DEF OwnsInv, WhoOwns, PrepareTui, At, CtxFails, Fail, Goto, FailLabel, session,
       Source, SourceVerified, SourceOwns, SourceStopped, TargetOwns, TargetStopped,
       TypeOK, PcType, Target, Active

LEMMA RereadOwns ==
  ASSUME OwnsInv, NEW i \in Transitions, Reread(i)
  PROVE  WhoOwns'
BY DEF OwnsInv, WhoOwns, Reread, At, CtxFails, Fail, Goto, FailLabel, session, Source,
       SourceVerified, SourceOwns, SourceStopped, TargetOwns, TargetStopped, TypeOK,
       PcType, Target, Active

LEMMA MoveSourceStoppingOwns ==
  ASSUME OwnsInv, NEW i \in Transitions, MoveSourceStopping(i)
  PROVE  WhoOwns'
BY DEF OwnsInv, WhoOwns, MoveSourceStopping, At, Move, Advance, Goto, MoveRefused,
       StoreFault, session, FailLabel, Active, Source, SagaInv, SourceVerified,
       SourceOwns, SourceStopped, TargetOwns, TargetStopped, TypeOK, RowType, PcType,
       Target, Rows

LEMMA AbortSourceOwns ==
  ASSUME OwnsInv, NEW i \in Transitions, AbortSource(i)
  PROVE  WhoOwns'
BY DEF OwnsInv, WhoOwns, AbortSource, Goto, session, SourceVerified, SourceOwns,
       SourceStopped, TargetOwns, TargetStopped, Source, Target, Active

LEMMA FinishBeforeStopOwns ==
  ASSUME OwnsInv, NEW i \in Transitions, FinishBeforeStop(i)
  PROVE  WhoOwns'
BY DEF OwnsInv, WhoOwns, FinishBeforeStop, Finish, Advance, MoveRefused, StoreFault,
       Exit, Goto, session, Active, SourceVerified, SourceOwns, SourceStopped,
       TargetOwns, TargetStopped, TypeOK, RowType, PcType, Source, Target

LEMMA StopSourceOwns ==
  ASSUME OwnsInv, NEW i \in Transitions, StopSource(i)
  PROVE  WhoOwns'
BY DEF OwnsInv, WhoOwns, StopSource, At, Goto, session, Source, SourceVerified,
       SourceOwns, SourceStopped, TargetOwns, TargetStopped, TypeOK, PcType, Target,
       Active

LEMMA FinishRecoveryOwns ==
  ASSUME OwnsInv, NEW i \in Transitions, FinishRecovery(i)
  PROVE  WhoOwns'
BY DEF OwnsInv, WhoOwns, FinishRecovery, Finish, Advance, MoveRefused, StoreFault,
       Exit, Goto, session, Active, SourceVerified, SourceOwns, SourceStopped,
       TargetOwns, TargetStopped, TypeOK, RowType, PcType, Source, Target

LEMMA MoveSourceStoppedOwns ==
  ASSUME OwnsInv, NEW i \in Transitions, MoveSourceStopped(i)
  PROVE  WhoOwns'
BY DEF OwnsInv, WhoOwns, MoveSourceStopped, At, Move, Advance, Goto, MoveRefused,
       StoreFault, session, Active, SagaInv, SourceVerified, SourceOwns,
       SourceStopped, TargetOwns, TargetStopped, TypeOK, RowType, PcType, Source,
       Target, Rows

LEMMA CommitEpochOwns ==
  ASSUME OwnsInv, NEW i \in Transitions, CommitEpoch(i)
  PROVE  WhoOwns'
BY DEF OwnsInv, WhoOwns, CommitEpoch, At, ChangeEpoch, Goto, session, Source,
       Opposite, SagaInv, SourceVerified, SourceOwns, SourceStopped, TargetOwns,
       TargetStopped, TypeOK, RowType, PcType, Target, Rows, OneActive, Active,
       TerminalPhases, StopHoldsRow, PastStop, AfterStop, StopPhases

LEMMA MoveTargetStartingOwns ==
  ASSUME OwnsInv, NEW i \in Transitions, MoveTargetStarting(i)
  PROVE  WhoOwns'
BY DEF OwnsInv, WhoOwns, MoveTargetStarting, At, Move, Advance, Goto, MoveRefused,
       StoreFault, session, Active, SagaInv, SourceVerified, SourceOwns,
       SourceStopped, TargetOwns, TargetStopped, TypeOK, RowType, PcType, Source,
       Target, Rows

LEMMA StartTargetOwns ==
  ASSUME OwnsInv, NEW i \in Transitions, StartTarget(i)
  PROVE  WhoOwns'
BY DEF OwnsInv, WhoOwns, StartTarget, At, Launch, Goto, session, SourceVerified,
       SourceOwns, SourceStopped, TargetOwns, TargetStopped, TypeOK, RowType, PcType,
       Source, Target, Active

LEMMA MarkTargetOwns ==
  ASSUME OwnsInv, NEW i \in Transitions, MarkTarget(i)
  PROVE  WhoOwns'
BY DEF OwnsInv, WhoOwns, MarkTarget, At, Mark, MarkSpawned, Goto, MarkFails, session,
       StopProcess, PromptFails, Target, SourceVerified, SourceOwns, SourceStopped,
       TargetOwns, TargetStopped, TypeOK, PcType, Source, Active

LEMMA UnsettledTargetOwns ==
  ASSUME OwnsInv, NEW i \in Transitions, UnsettledTarget(i)
  PROVE  WhoOwns'
BY DEF OwnsInv, WhoOwns, UnsettledTarget, At, Goto, session, Target, SourceVerified,
       SourceOwns, SourceStopped, TargetOwns, TargetStopped, TypeOK, PcType, Source,
       Active

LEMMA RetryTargetOwns ==
  ASSUME OwnsInv, NEW i \in Transitions, RetryTarget(i)
  PROVE  WhoOwns'
BY DEF OwnsInv, WhoOwns, RetryTarget, At, Launch, Goto, session, SourceVerified,
       SourceOwns, SourceStopped, TargetOwns, TargetStopped, TypeOK, RowType, PcType,
       Source, Target, Active

LEMMA RemarkTargetOwns ==
  ASSUME OwnsInv, NEW i \in Transitions, RemarkTarget(i)
  PROVE  WhoOwns'
BY DEF OwnsInv, WhoOwns, RemarkTarget, At, Mark, MarkSpawned, Goto, MarkFails,
       session, StopProcess, PromptFails, SourceVerified, SourceOwns, SourceStopped,
       TargetOwns, TargetStopped, TypeOK, RowType, PcType, Source, Target, Active

LEMMA RetainTargetOwns ==
  ASSUME OwnsInv, NEW i \in Transitions, RetainTarget(i)
  PROVE  WhoOwns'
BY DEF OwnsInv, WhoOwns, RetainTarget, MoveRefused, Exit, Goto, session, Active,
       SourceVerified, SourceOwns, SourceStopped, TargetOwns, TargetStopped, TypeOK,
       RowType, PcType, Source, Target

LEMMA MoveActivatingOwns ==
  ASSUME OwnsInv, NEW i \in Transitions, MoveActivating(i)
  PROVE  WhoOwns'
BY DEF OwnsInv, WhoOwns, MoveActivating, At, Move, Advance, Goto, MoveRefused,
       StoreFault, session, Active, SagaInv, SourceVerified, SourceOwns,
       SourceStopped, TargetOwns, TargetStopped, TypeOK, RowType, PcType, Source,
       Target, Rows

LEMMA CompleteOwns ==
  ASSUME OwnsInv, NEW i \in Transitions, Complete(i)
  PROVE  WhoOwns'
BY DEF OwnsInv, WhoOwns, Complete, Finish, Advance, MoveRefused, StoreFault, Exit,
       Goto, session, Active, SourceVerified, SourceOwns, SourceStopped, TargetOwns,
       TargetStopped, TypeOK, RowType, PcType, Source, Target

LEMMA RollbackStopTargetOwns ==
  ASSUME OwnsInv, NEW i \in Transitions, RollbackStopTarget(i)
  PROVE  WhoOwns'
BY DEF OwnsInv, WhoOwns, RollbackStopTarget, At, Goto, session, Target,
       SourceVerified, SourceOwns, SourceStopped, TargetOwns, TargetStopped, TypeOK,
       PcType, Source, Active

LEMMA RollbackEpochOwns ==
  ASSUME OwnsInv, NEW i \in Transitions, RollbackEpoch(i)
  PROVE  WhoOwns'
BY DEF OwnsInv, WhoOwns, RollbackEpoch, At, ChangeEpoch, Goto, Target, Opposite,
       SagaInv, SourceVerified, SourceOwns, SourceStopped, TargetOwns, TargetStopped,
       TypeOK, RowType, PcType, Source, SessionType, Modes, Rows, OneActive, Active,
       TerminalPhases, StopHoldsRow, PastStop, AfterStop, StopPhases

LEMMA RollbackCleanupOwns ==
  ASSUME OwnsInv, NEW i \in Transitions, RollbackCleanup(i)
  PROVE  WhoOwns'
BY DEF OwnsInv, WhoOwns, RollbackCleanup, At, Goto, session, Source, SourceVerified,
       SourceOwns, SourceStopped, TargetOwns, TargetStopped, TypeOK, PcType, Target,
       Active

LEMMA RollbackStartOwns ==
  ASSUME OwnsInv, NEW i \in Transitions, RollbackStart(i)
  PROVE  WhoOwns'
BY DEF OwnsInv, WhoOwns, RollbackStart, At, Launch, Goto, session, SourceVerified,
       SourceOwns, SourceStopped, TargetOwns, TargetStopped, TypeOK, RowType, PcType,
       Source, Target, Active

LEMMA RollbackMarkOwns ==
  ASSUME OwnsInv, NEW i \in Transitions, RollbackMark(i)
  PROVE  WhoOwns'
BY DEF OwnsInv, WhoOwns, RollbackMark, At, Mark, MarkSpawned, Goto, MarkFails,
       session, StopProcess, PromptFails, SourceVerified, SourceOwns, SourceStopped,
       TargetOwns, TargetStopped, TypeOK, RowType, PcType, Source, Target, Active

LEMMA RollbackFinishOwns ==
  ASSUME OwnsInv, NEW i \in Transitions, RollbackFinish(i)
  PROVE  WhoOwns'
BY DEF OwnsInv, WhoOwns, RollbackFinish, Finish, Advance, MoveRefused, StoreFault,
       Exit, Goto, session, Active, SourceVerified, SourceOwns, SourceStopped,
       TargetOwns, TargetStopped, TypeOK, RowType, PcType, Source, Target

LEMMA RecoverStopTargetOwns ==
  ASSUME OwnsInv, NEW i \in Transitions, RecoverStopTarget(i)
  PROVE  WhoOwns'
BY DEF OwnsInv, WhoOwns, RecoverStopTarget, session, worker, Active, Source, Target

LEMMA RecoverQuarantineOwns ==
  ASSUME OwnsInv, NEW i \in Transitions, RecoverQuarantine(i)
  PROVE  WhoOwns'
BY DEF OwnsInv, WhoOwns, RecoverQuarantine, NeedsTargetStop, session, worker, Active,
       Source, Target, TypeOK, RowType

LEMMA RecoverEpochOwns ==
  ASSUME OwnsInv, NEW i \in Transitions, RecoverEpoch(i)
  PROVE  WhoOwns'
BY DEF OwnsInv, WhoOwns, RecoverEpoch, SagaInv, SourceVerified, SourceOwns,
       SourceStopped, TargetOwns, TargetStopped, Quiet

LEMMA RecoverRowOwns ==
  ASSUME OwnsInv, NEW i \in Transitions, RecoverRow(i)
  PROVE  WhoOwns'
BY DEF OwnsInv, WhoOwns, RecoverRow, Advance, session, worker, Active, Source, Target,
       TypeOK, RowType

LEMMA CancelRowOwns ==
  ASSUME OwnsInv, CancelRow
  PROVE  WhoOwns'
BY DEF OwnsInv, WhoOwns, CancelRow, Serving, session, agent, worker, env, IdleCancel,
       SagaInv, SourceVerified, SourceOwns, SourceStopped, TargetOwns, TargetStopped,
       TypeOK, RowType, PcType, Source, Target, Opposite, SessionType, Modes,
       NoActive, NoRow, Rows, OneActive, Active, TerminalPhases, StopHoldsRow,
       PastStop, AfterStop, StopPhases

LEMMA OpStopOwns ==
  ASSUME OwnsInv, OpStop
  PROVE  WhoOwns'
BY DEF OwnsInv, WhoOwns, OpStop, Serving, StopOwner, agent, StopProcess, session,
       worker, env, NoActive, Active, Source, Target, PastStop, NoOrphan

LEMMA OpLaunchOwns ==
  ASSUME OwnsInv, OpLaunch
  PROVE  WhoOwns'
BY DEF OwnsInv, WhoOwns, OpLaunch, session, Active, Source, Target

LEMMA OpMarkOwns ==
  ASSUME OwnsInv, OpMark
  PROVE  WhoOwns'
BY DEF OwnsInv, WhoOwns, OpMark, MarkSpawned, MarkFails, session, PromptFails, Active,
       Source, Target

LEMMA CrashOwns ==
  ASSUME OwnsInv, Crash
  PROVE  WhoOwns'
BY DEF OwnsInv, WhoOwns, Crash, SourceVerified, SourceOwns, SourceStopped, TargetOwns,
       TargetStopped

(* Every step together, and the theorem.                                   *)

\* Every step keeps the owner where the workers say it is.
LEMMA WhoOwnsStep == OwnsInv /\ [Next]_vars => WhoOwns'
<1> SUFFICES ASSUME OwnsInv, [Next]_vars PROVE WhoOwns'
  OBVIOUS
<1>1. CASE UNCHANGED vars BY <1>1, StillOwns DEF vars, session, agent, worker, env, OwnsInv
<1>2. ASSUME NEW i \in Transitions, Request(i) PROVE WhoOwns'
  BY <1>2, StartReadOwns, StartCreateOwns, StartArmOwns, StartArmFailedOwns,
     StartWorkerOwns
     DEF Request
<1>3. ASSUME NEW i \in Transitions, WorkerBeforeStop(i) PROVE WhoOwns'
  BY <1>3, MovePreflightingOwns, CheckSessionOwns, MoveDrainingOwns,
     PrepareChatOwns, QuiesceChatOwns, PrepareTuiOwns, RereadOwns,
     MoveSourceStoppingOwns, AbortSourceOwns, FinishBeforeStopOwns
     DEF WorkerBeforeStop
<1>4. ASSUME NEW i \in Transitions, WorkerAfterStop(i) PROVE WhoOwns'
  BY <1>4, StopSourceOwns, FinishRecoveryOwns, MoveSourceStoppedOwns,
     CommitEpochOwns, MoveTargetStartingOwns, StartTargetOwns, MarkTargetOwns,
     UnsettledTargetOwns, RetryTargetOwns, RemarkTargetOwns, RetainTargetOwns,
     MoveActivatingOwns, CompleteOwns, RollbackStopTargetOwns, RollbackEpochOwns,
     RollbackCleanupOwns, RollbackStartOwns, RollbackMarkOwns, RollbackFinishOwns
     DEF WorkerAfterStop
<1>5. CASE CancelRequest
  BY <1>5, CancelRowOwns, StillOwns
     DEF CancelRequest, CancelRead, CancelSignal, OwnsInv, session, agent, worker
<1>6. CASE Operation
  BY <1>6, OpStopOwns, OpLaunchOwns, OpMarkOwns, StillOwns
     DEF Operation, OpBegin, OpTerminate, OwnsInv, session, agent, worker, env
<1>7. CASE Agent
  BY <1>7, StillOwns
     DEF Agent, ChatSend, TerminalInput, TurnDone, Dispatch, ControllerExits, OwnsInv,
         session, worker, env
<1>8. CASE Crash BY <1>8, CrashOwns
<1>9. CASE Recovery
  BY <1>9, RecoverStopTargetOwns, RecoverQuarantineOwns, RecoverEpochOwns,
     RecoverRowOwns, StillOwns
     DEF Recovery, ServeAPI, OwnsInv, session, agent, worker
<1> QED BY <1>1, <1>2, <1>3, <1>4, <1>5, <1>6, <1>7, <1>8, <1>9 DEF Next, Work

\* The session starts under its owner.
LEMMA WhoOwnsInit == Init => WhoOwns
BY DEF Init, WhoOwns, SourceVerified, SourceOwns, SourceStopped, TargetOwns,
       TargetStopped

\* Whatever operations overlap, crash or fail, every worker knows the owner.
THEOREM OwnerKnown == Spec => []OwnsInv
<1>1. Init => OwnsInv BY TypeInit, SagaInit, WhoOwnsInit DEF OwnsInv
<1>2. OwnsInv /\ [Next]_vars => OwnsInv'
  BY TypeStep, SagaStep, WhoOwnsStep DEF OwnsInv
<1> QED BY <1>1, <1>2, PTL DEF Spec

\* What a step may write as the outcome of a saga.
VerdictsDue ==
  \A i \in Transitions : Active(i) /\ row'[i].phase # row[i].phase =>
    /\ row'[i].phase = "completed" => pc[i] = "completing" /\ mode' = mode
    /\ row'[i].phase = "failed" /\ PastStop(i) => pc[i] = "rbFinish" /\ mode' = mode

\* The only row a step may give another phase, and the phase it gets.
Writes(i, phase) ==
  \A j \in Transitions : row'[j].phase # row[j].phase => j = i /\ row'[j].phase = phase

\* A step that changes at most the row it moves.
LEMMA RowWrites ==
  ASSUME RowType, NEW i \in Transitions, NEW phase, NEW flag,
         \/ UNCHANGED row
         \/ row' = [row EXCEPT ![i].phase = phase, ![i].unconfirmed = flag]
  PROVE  Writes(i, phase)
<1> SUFFICES ASSUME NEW j \in Transitions, row'[j].phase # row[j].phase
             PROVE  j = i /\ row'[j].phase = phase
  BY DEF Writes
<1>1. row[j] \in Rows /\ row[i] \in Rows BY DEF RowType
<1> QED BY <1>1 DEF RowType, Rows

\* A worker that moves its row on, or finishes it, writes the phase it names.
LEMMA MoveWrites ==
  ASSUME RowType, NEW i \in Transitions, NEW next, NEW then, NEW else,
         Move(i, next, then, else)
  PROVE  Writes(i, next)
BY RowWrites DEF Move, Advance, MoveRefused

LEMMA FinishWrites ==
  ASSUME RowType, NEW i \in Transitions, NEW phase, Finish(i, phase)
  PROVE  Writes(i, phase) /\ mode' = mode
BY RowWrites DEF Finish, Advance, MoveRefused, Exit, session

\* A saga is completed at the end of its worker, and failed past the stop only at the
\* end of a rollback, with the owner left as it is.
LEMMA VerdictStep ==
  ASSUME TypeOK, SagaInv, [Next]_vars
  PROVE  VerdictsDue
<1>1. CASE UNCHANGED vars
  BY <1>1 DEF VerdictsDue, vars
<1>2. ASSUME NEW i \in Transitions, Request(i) PROVE VerdictsDue
  <2>1. CASE \E policy \in Policies : StartRead(i, policy)
    BY <2>1 DEF VerdictsDue, StartRead, At, Serving, Goto, TypeOK, RowType, SagaInv,
       Quiet, NoRow, RequestType, Source
  <2>2. CASE StartCreate(i)
    BY <2>2 DEF TypeOK, VerdictsDue, StartCreate, At, Active, RowType, SagaInv, Quiet,
           Rows
  <2>3. CASE StartArm(i)
    BY <2>3 DEF VerdictsDue, StartArm
  <2>4. CASE StartArmFailed(i)
    BY <2>4, FinishWrites
       DEF TypeOK, VerdictsDue, Writes, StartArmFailed, At,
           PastStop, AfterStop
  <2>5. CASE StartWorker(i)
    BY <2>5 DEF VerdictsDue, StartWorker
  <2> QED BY <1>2, <2>1, <2>2, <2>3, <2>4, <2>5 DEF Request
<1>3. ASSUME NEW i \in Transitions, WorkerBeforeStop(i) PROVE VerdictsDue
  <2>1. CASE MovePreflighting(i)
    BY <2>1, MoveWrites DEF TypeOK, VerdictsDue, Writes, MovePreflighting
  <2>2. CASE CheckSession(i)
    BY <2>2 DEF VerdictsDue, CheckSession, CtxFails, Fail
  <2>3. CASE MoveDraining(i)
    BY <2>3, MoveWrites DEF TypeOK, VerdictsDue, Writes, MoveDraining, CtxFails, Fail
  <2>4. CASE PrepareChat(i)
    BY <2>4 DEF VerdictsDue, PrepareChat, Fail
  <2>5. CASE QuiesceChat(i)
    BY <2>5 DEF VerdictsDue, QuiesceChat, Fail
  <2>6. CASE PrepareTui(i)
    BY <2>6 DEF VerdictsDue, PrepareTui, CtxFails, Fail
  <2>7. CASE Reread(i)
    BY <2>7 DEF VerdictsDue, Reread, CtxFails, Fail
  <2>8. CASE MoveSourceStopping(i)
    BY <2>8, MoveWrites DEF TypeOK, VerdictsDue, Writes, MoveSourceStopping
  <2>9. CASE AbortSource(i)
    BY <2>9 DEF VerdictsDue, AbortSource
  <2>10. CASE FinishBeforeStop(i)
    BY <2>10, FinishWrites
       DEF TypeOK, VerdictsDue, Writes, FinishBeforeStop, At,
           PastStop, AfterStop, WorkerType
  <2> QED
    BY <1>3, <2>1, <2>2, <2>3, <2>4, <2>5, <2>6, <2>7, <2>8, <2>9, <2>10
       DEF WorkerBeforeStop
<1>4. ASSUME NEW i \in Transitions, WorkerAfterStop(i) PROVE VerdictsDue
  <2>1. CASE StopSource(i)
    BY <2>1 DEF VerdictsDue, StopSource, StopOwner
  <2>2. CASE FinishRecovery(i)
    BY <2>2, FinishWrites
       DEF TypeOK, VerdictsDue, Writes, FinishRecovery, At
  <2>3. CASE MoveSourceStopped(i)
    BY <2>3, MoveWrites DEF TypeOK, VerdictsDue, Writes, MoveSourceStopped
  <2>4. CASE CommitEpoch(i)
    BY <2>4 DEF VerdictsDue, CommitEpoch
  <2>5. CASE MoveTargetStarting(i)
    BY <2>5, MoveWrites DEF TypeOK, VerdictsDue, Writes, MoveTargetStarting
  <2>6. CASE StartTarget(i)
    BY <2>6 DEF VerdictsDue, StartTarget, Launch
  <2>7. CASE MarkTarget(i)
    BY <2>7 DEF VerdictsDue, MarkTarget, Mark, MarkFails, PromptFails
  <2>8. CASE UnsettledTarget(i)
    BY <2>8 DEF VerdictsDue, UnsettledTarget, StopOwner
  <2>9. CASE RetryTarget(i)
    BY <2>9 DEF VerdictsDue, RetryTarget, Launch
  <2>10. CASE RemarkTarget(i)
    BY <2>10 DEF VerdictsDue, RemarkTarget, Mark, MarkFails, PromptFails
  <2>11. CASE RetainTarget(i)
    BY <2>11, RowWrites DEF TypeOK, VerdictsDue, Writes, RetainTarget, MoveRefused
  <2>12. CASE MoveActivating(i)
    BY <2>12, MoveWrites DEF TypeOK, VerdictsDue, Writes, MoveActivating
  <2>13. CASE Complete(i)
    BY <2>13, FinishWrites
       DEF TypeOK, VerdictsDue, Writes, Complete, At
  <2>14. CASE RollbackStopTarget(i)
    BY <2>14 DEF VerdictsDue, RollbackStopTarget, StopOwner
  <2>15. CASE RollbackEpoch(i)
    BY <2>15 DEF VerdictsDue, RollbackEpoch
  <2>16. CASE RollbackCleanup(i)
    BY <2>16 DEF VerdictsDue, RollbackCleanup
  <2>17. CASE RollbackStart(i)
    BY <2>17 DEF VerdictsDue, RollbackStart, Launch
  <2>18. CASE RollbackMark(i)
    BY <2>18 DEF VerdictsDue, RollbackMark, Mark, MarkFails, PromptFails
  <2>19. CASE RollbackFinish(i)
    BY <2>19, FinishWrites
       DEF TypeOK, VerdictsDue, Writes, RollbackFinish, At
  <2> QED
    BY <1>4, <2>1, <2>2, <2>3, <2>4, <2>5, <2>6, <2>7, <2>8, <2>9, <2>10, <2>11, <2>12,
       <2>13, <2>14, <2>15, <2>16, <2>17, <2>18, <2>19
       DEF WorkerAfterStop
<1>5. CASE CancelRequest
  <2>1. ASSUME NEW i \in Transitions, CancelRead(i) PROVE VerdictsDue
    BY <2>1 DEF VerdictsDue, CancelRead
  <2>2. CASE CancelRow
    <3>1. cancel.of \in Transitions /\ RowType
      BY <2>2 DEF CancelRow, SagaInv, Quiet, TypeOK
    <3>2. Writes(cancel.of, "cancelled") BY <2>2, <3>1, RowWrites DEF CancelRow
    <3> QED BY <3>2 DEF VerdictsDue, Writes
  <2>3. CASE CancelSignal
    BY <2>3 DEF VerdictsDue, CancelSignal
  <2> QED BY <1>5, <2>1, <2>2, <2>3 DEF CancelRequest
<1>6. CASE Operation
  <2>1. CASE \E kind \in {"kill", "exit", "resume"} : OpBegin(kind)
    BY <2>1 DEF VerdictsDue, OpBegin
  <2>2. CASE OpStop
    BY <2>2 DEF VerdictsDue, OpStop, StopOwner
  <2>3. CASE OpTerminate
    BY <2>3 DEF VerdictsDue, OpTerminate
  <2>4. CASE OpLaunch
    BY <2>4 DEF VerdictsDue, OpLaunch
  <2>5. CASE OpMark
    BY <2>5 DEF VerdictsDue, OpMark, MarkFails, PromptFails
  <2> QED BY <1>6, <2>1, <2>2, <2>3, <2>4, <2>5 DEF Operation
<1>7. CASE Agent
  <2>1. CASE ChatSend
    BY <2>1 DEF VerdictsDue, ChatSend
  <2>2. CASE TerminalInput
    BY <2>2 DEF VerdictsDue, TerminalInput
  <2>3. CASE TurnDone
    BY <2>3 DEF VerdictsDue, TurnDone
  <2>4. CASE Dispatch
    BY <2>4 DEF VerdictsDue, Dispatch
  <2>5. CASE \E m \in Modes : ControllerExits(m)
    BY <2>5 DEF VerdictsDue, ControllerExits
  <2> QED BY <1>7, <2>1, <2>2, <2>3, <2>4, <2>5 DEF Agent
<1>8. CASE Crash
  BY <1>8 DEF VerdictsDue, Crash, Active
<1>9. CASE Recovery
  <2>1. ASSUME NEW i \in Transitions, RecoverStopTarget(i) PROVE VerdictsDue
    BY <2>1 DEF VerdictsDue, RecoverStopTarget, NeedsTargetStop, StopOwner
  <2>2. ASSUME NEW i \in Transitions, RecoverQuarantine(i) PROVE VerdictsDue
    BY <2>2 DEF VerdictsDue, RecoverQuarantine, NeedsTargetStop, TypeOK, RowType
  <2>3. ASSUME NEW i \in Transitions, RecoverEpoch(i) PROVE VerdictsDue
    BY <2>3 DEF VerdictsDue, RecoverEpoch
  <2>4. ASSUME NEW i \in Transitions, RecoverRow(i) PROVE VerdictsDue
    BY <2>4 DEF VerdictsDue, RecoverRow, NeedsTargetStop, Advance, TypeOK, RowType
  <2>5. CASE ServeAPI
    BY <2>5 DEF VerdictsDue, ServeAPI
  <2> QED BY <1>9, <2>1, <2>2, <2>3, <2>4, <2>5 DEF Recovery
<1> QED BY <1>1, <1>2, <1>3, <1>4, <1>5, <1>6, <1>7, <1>8, <1>9 DEF Next, Work

\* An outcome tells the truth about the owner, for every number of transitions,
\* crashes and failed writes: a saga is recorded as completed only under its target,
\* and as failed after its source was stopped only once the source owns again.
THEOREM OutcomesTell == Spec => OutcomeMatchesOwner
<1>1. OwnsInv /\ [Next]_vars =>
        [\A i \in Transitions : Active(i) /\ row'[i].phase # row[i].phase =>
           /\ row'[i].phase = "completed" => mode' = Target(i)
           /\ row'[i].phase = "failed" /\ PastStop(i) => mode' = Source(i)]_vars
  BY VerdictStep DEF OwnsInv, VerdictsDue, WhoOwns, SourceOwns, TargetOwns
<1> QED BY <1>1, OwnerKnown, PTL DEF Spec, OutcomeMatchesOwner

-----------------------------------------------------------------------------
(* The owner half: from it follow the safety of the session, the           *)
(* quarantine and the refinement of ControllerOwnership.  The runs that    *)
(* drop Disciplined show why it is needed.                                 *)

\* An exclusive operation runs only for the interface that owns the session, and
\* never while a saga is active.
LEMMA OpAlone ==
  ASSUME IInv, op.kind # "none"
  PROVE  op.mode = mode /\ \A j \in Transitions : ~Active(j) /\ ~PastStop(j)
BY DEF IInv, SagaInv, OwnerInv, OpsAlone, NoActive, StopHoldsRow, StopPhases, Active,
       TerminalPhases

(* Action by action.                                                       *)

LEMMA StartReadOwner ==
  ASSUME IInv, Disciplined, NEW i \in Transitions, NEW policy \in Policies,
         StartRead(i, policy)
  PROVE  OwnerInv'
<1>1. WhoOwns'
  BY StartReadOwns DEF IInv, OwnerInv, OwnsInv
<1>2. WhoRuns'
  BY DEF IInv, OwnerInv, WhoRuns, StartRead, Goto, session, agent, env, SourceStopped,
         TargetStopped
<1>3. Stoppable'
  BY DEF IInv, OwnerInv, Stoppable, StartRead, session, NoOrphan
<1>4. OpsAlone'
  BY DEF IInv, OwnerInv, OpsAlone, StartRead, session, env, NoRow, NoActive, TypeOK,
         RowType, Active
<1> QED BY <1>1, <1>2, <1>3, <1>4 DEF OwnerInv

LEMMA StartCreateOwner ==
  ASSUME IInv, Disciplined, NEW i \in Transitions, StartCreate(i)
  PROVE  OwnerInv'
<1>1. WhoOwns'
  BY StartCreateOwns DEF IInv, OwnerInv, OwnsInv
<1>2. WhoRuns'
  BY DEF IInv, OwnerInv, WhoRuns, StartCreate, Goto, session, agent, env, NoActive,
         SourceStopped, TargetStopped, TypeOK, PcType
<1>3. Stoppable'
  BY DEF IInv, OwnerInv, Stoppable, StartCreate, At, Goto, session, agent, NoActive,
         Source, NoRow, SagaInv, NoOrphan, Quiet, OneActive, Rows, Modes, TypeOK,
         RowType, PcType, Active
<1>4. OpsAlone'
  BY DEF IInv, OwnerInv, OpsAlone, StartCreate, Disciplined
<1> QED BY <1>1, <1>2, <1>3, <1>4 DEF OwnerInv

LEMMA StartArmOwner ==
  ASSUME IInv, Disciplined, NEW i \in Transitions, StartArm(i)
  PROVE  OwnerInv'
<1>1. OpsAlone'
  BY DEF IInv, OwnerInv, OpsAlone, StartArm, session, env, NoActive, Active
<1>2. WhoOwns'
  BY StartArmOwns DEF IInv, OwnerInv, OwnsInv
<1>3. WhoRuns'
  BY DEF IInv, OwnerInv, WhoRuns, StartArm, Goto, session, env, SourceStopped,
         TargetStopped, TypeOK, PcType
<1>4. Stoppable'
  BY DEF IInv, OwnerInv, Stoppable, StartArm, Goto, session, NoOrphan, TypeOK, PcType,
         Active
<1> QED BY <1>1, <1>2, <1>3, <1>4 DEF OwnerInv

LEMMA StartArmFailedOwner ==
  ASSUME IInv, Disciplined, NEW i \in Transitions, StartArmFailed(i)
  PROVE  OwnerInv'
<1>1. WhoOwns'
  BY StartArmFailedOwns DEF IInv, OwnerInv, OwnsInv
<1>2. WhoRuns'
  BY DEF IInv, OwnerInv, WhoRuns, StartArmFailed, Finish, Exit, Goto, session, agent,
         SourceStopped, TargetStopped
<1>3. Stoppable'
  BY DEF IInv, OwnerInv, Stoppable, StartArmFailed, Finish, Advance, MoveRefused,
         StoreFault, Exit, Goto, session, agent, Active, SagaInv, NoOrphan, Rows,
         TypeOK, RowType
<1>4. OpsAlone'
  BY DEF IInv, OwnerInv, OpsAlone, StartArmFailed, Finish, Advance, MoveRefused,
         StoreFault, Exit, Goto, session, Active, NoActive
<1> QED BY <1>1, <1>2, <1>3, <1>4 DEF OwnerInv

LEMMA StartWorkerOwner ==
  ASSUME IInv, Disciplined, NEW i \in Transitions, StartWorker(i)
  PROVE  OwnerInv'
<1>1. OpsAlone'
  BY DEF IInv, OwnerInv, OpsAlone, StartWorker, session, env, NoActive, Active
<1>2. WhoOwns'
  BY StartWorkerOwns DEF IInv, OwnerInv, OwnsInv
<1>3. WhoRuns'
  BY DEF IInv, OwnerInv, WhoRuns, StartWorker, Goto, session, agent, env, SourceStopped,
         TargetStopped
<1>4. Stoppable'
  BY DEF IInv, OwnerInv, Stoppable, StartWorker, Goto, session, agent, NoOrphan, Active
<1> QED BY <1>1, <1>2, <1>3, <1>4 DEF OwnerInv

LEMMA MovePreflightingOwner ==
  ASSUME IInv, Disciplined, NEW i \in Transitions, MovePreflighting(i)
  PROVE  OwnerInv'
<1>1. WhoOwns'
  BY MovePreflightingOwns DEF IInv, OwnerInv, OwnsInv
<1>2. WhoRuns'
  BY DEF IInv, OwnerInv, WhoRuns, MovePreflighting, Move, Goto, session, agent,
         FailLabel, Active, SourceStopped, TargetStopped, TypeOK, PcType
<1>3. Stoppable'
  BY DEF IInv, OwnerInv, Stoppable, MovePreflighting, Move, Advance, Goto, MoveRefused,
         StoreFault, session, agent, FailLabel, Active, NoOrphan, WhoRuns, Rows, Modes,
         TypeOK, RowType, PcType
<1>4. OpsAlone'
  BY DEF IInv, OwnerInv, OpsAlone, MovePreflighting, Move, Advance, MoveRefused,
         StoreFault, session, FailLabel, Active, NoActive
<1> QED BY <1>1, <1>2, <1>3, <1>4 DEF OwnerInv

LEMMA CheckSessionOwner ==
  ASSUME IInv, Disciplined, NEW i \in Transitions, CheckSession(i)
  PROVE  OwnerInv'
<1>1. OpsAlone'
  BY DEF IInv, OwnerInv, OpsAlone, CheckSession, CtxFails, session, env, NoActive,
         Active
<1>2. WhoOwns'
  BY CheckSessionOwns DEF IInv, OwnerInv, OwnsInv
<1>3. WhoRuns'
  BY DEF IInv, OwnerInv, WhoRuns, CheckSession, CtxFails, Fail, Goto, FailLabel,
         session, agent, env, SourceStopped, TargetStopped, TypeOK, PcType
<1>4. Stoppable'
  BY DEF IInv, OwnerInv, Stoppable, CheckSession, CtxFails, Fail, Goto, FailLabel,
         session, agent, Source, NoOrphan, TypeOK, PcType, Active
<1> QED BY <1>1, <1>2, <1>3, <1>4 DEF OwnerInv

LEMMA MoveDrainingOwner ==
  ASSUME IInv, Disciplined, NEW i \in Transitions, MoveDraining(i)
  PROVE  OwnerInv'
<1>1. WhoOwns'
  BY MoveDrainingOwns DEF IInv, OwnerInv, OwnsInv
<1>2. WhoRuns'
  BY DEF IInv, OwnerInv, WhoRuns, MoveDraining, CtxFails, Fail, Goto, FailLabel,
         session, agent, env, Move, Source, SourceStopped, TargetStopped, TypeOK, PcType
<1>3. Stoppable'
  BY DEF IInv, OwnerInv, Stoppable, MoveDraining, CtxFails, Fail, Goto, FailLabel,
         session, agent, Move, Advance, MoveRefused, Active, SagaInv, NoOrphan, WhoRuns,
         Rows, Modes, TypeOK, RowType, PcType
<1>4. OpsAlone'
  BY DEF IInv, OwnerInv, OpsAlone, MoveDraining, CtxFails, session, env, Move, Advance,
         MoveRefused, StoreFault, Active, NoActive
<1> QED BY <1>1, <1>2, <1>3, <1>4 DEF OwnerInv

LEMMA PrepareChatOwner ==
  ASSUME IInv, Disciplined, NEW i \in Transitions, PrepareChat(i)
  PROVE  OwnerInv'
<1>1. OpsAlone'
  BY DEF IInv, OwnerInv, OpsAlone, PrepareChat, session, NoActive, Active
<1>2. WhoOwns'
  BY PrepareChatOwns DEF IInv, OwnerInv, OwnsInv
<1>3. WhoRuns'
  BY DEF IInv, OwnerInv, WhoRuns, PrepareChat, Goto, Fail, FailLabel, StoreFault,
         session, SourceStopped, TargetStopped, TypeOK, PcType
<1>4. Stoppable'
  BY DEF IInv, OwnerInv, Stoppable, PrepareChat, At, Goto, Fail, FailLabel, StoreFault,
         session, Source, NoOrphan, WhoOwns, SourceVerified, SourceOwns, TypeOK, PcType,
         Active
<1> QED BY <1>1, <1>2, <1>3, <1>4 DEF OwnerInv

LEMMA QuiesceChatOwner ==
  ASSUME IInv, Disciplined, NEW i \in Transitions, QuiesceChat(i)
  PROVE  OwnerInv'
<1>1. OpsAlone'
  BY DEF IInv, OwnerInv, OpsAlone, QuiesceChat, session, NoActive, Active
<1>2. WhoOwns'
  BY QuiesceChatOwns DEF IInv, OwnerInv, OwnsInv
<1>3. WhoRuns'
  BY DEF IInv, OwnerInv, WhoRuns, QuiesceChat, Goto, Fail, FailLabel, StoreFault,
         session, SourceStopped, TargetStopped, TypeOK, PcType
<1>4. Stoppable'
  BY DEF IInv, OwnerInv, Stoppable, QuiesceChat, At, Goto, FailLabel, session, Source,
         NoOrphan, WhoRuns, WhoOwns, SourceVerified, TypeOK, PcType, Active
<1> QED BY <1>1, <1>2, <1>3, <1>4 DEF OwnerInv

LEMMA PrepareTuiOwner ==
  ASSUME IInv, Disciplined, NEW i \in Transitions, PrepareTui(i)
  PROVE  OwnerInv'
<1>1. OpsAlone'
  BY DEF IInv, OwnerInv, OpsAlone, PrepareTui, CtxFails, session, env, NoActive, Active
<1>2. WhoOwns'
  BY PrepareTuiOwns DEF IInv, OwnerInv, OwnsInv
<1>3. WhoRuns'
  BY DEF IInv, OwnerInv, WhoRuns, PrepareTui, CtxFails, Fail, Goto, FailLabel, session,
         agent, env, SourceStopped, TargetStopped, TypeOK, PcType
<1>4. Stoppable'
  BY DEF IInv, OwnerInv, Stoppable, PrepareTui, CtxFails, Fail, Goto, FailLabel,
         session, agent, Source, NoOrphan, TypeOK, PcType, Active
<1> QED BY <1>1, <1>2, <1>3, <1>4 DEF OwnerInv

LEMMA RereadOwner ==
  ASSUME IInv, Disciplined, NEW i \in Transitions, Reread(i)
  PROVE  OwnerInv'
<1>1. OpsAlone'
  BY DEF IInv, OwnerInv, OpsAlone, Reread, CtxFails, session, env, NoActive, Active
<1>2. WhoOwns'
  BY RereadOwns DEF IInv, OwnerInv, OwnsInv
<1>3. WhoRuns'
  BY DEF IInv, OwnerInv, WhoRuns, Reread, CtxFails, Fail, Goto, FailLabel, session,
         agent, env, SourceStopped, TargetStopped, TypeOK, PcType
<1>4. Stoppable'
  BY DEF IInv, OwnerInv, Stoppable, Reread, At, CtxFails, Fail, Goto, FailLabel,
         session, agent, Source, NoOrphan, TypeOK, PcType, Active
<1> QED BY <1>1, <1>2, <1>3, <1>4 DEF OwnerInv

LEMMA MoveSourceStoppingOwner ==
  ASSUME IInv, Disciplined, NEW i \in Transitions, MoveSourceStopping(i)
  PROVE  OwnerInv'
<1>1. WhoOwns'
  BY MoveSourceStoppingOwns DEF IInv, OwnerInv, OwnsInv
<1>2. WhoRuns'
  BY DEF IInv, OwnerInv, WhoRuns, MoveSourceStopping, Move, Goto, session, agent,
         FailLabel, Active, SourceStopped, TargetStopped, TypeOK, PcType
<1>3. Stoppable'
  BY DEF IInv, OwnerInv, Stoppable, MoveSourceStopping, At, Move, Advance, Goto,
         MoveRefused, StoreFault, session, agent, FailLabel, Active, NoOrphan, TypeOK,
         PcType
<1>4. OpsAlone'
  BY DEF IInv, OwnerInv, OpsAlone, MoveSourceStopping, Move, Advance, MoveRefused,
         StoreFault, session, FailLabel, Active, NoActive
<1> QED BY <1>1, <1>2, <1>3, <1>4 DEF OwnerInv

LEMMA AbortSourceOwner ==
  ASSUME IInv, Disciplined, NEW i \in Transitions, AbortSource(i)
  PROVE  OwnerInv'
<1>1. OpsAlone'
  BY DEF IInv, OwnerInv, OpsAlone, AbortSource, session, env, NoActive, Active
<1>2. WhoOwns'
  BY AbortSourceOwns DEF IInv, OwnerInv, OwnsInv
<1>3. WhoRuns'
  BY DEF IInv, OwnerInv, WhoRuns, AbortSource, Goto, session, env, SourceStopped,
         TargetStopped
<1>4. Stoppable'
  BY DEF IInv, OwnerInv, Stoppable, AbortSource, Goto, session, NoOrphan, Active
<1> QED BY <1>1, <1>2, <1>3, <1>4 DEF OwnerInv

LEMMA FinishBeforeStopOwner ==
  ASSUME IInv, Disciplined, NEW i \in Transitions, FinishBeforeStop(i)
  PROVE  OwnerInv'
<1>1. WhoOwns'
  BY FinishBeforeStopOwns DEF IInv, OwnerInv, OwnsInv
<1>2. WhoRuns'
  BY DEF IInv, OwnerInv, WhoRuns, FinishBeforeStop, Finish, Exit, Goto, session, agent,
         SourceStopped, TargetStopped
<1>3. Stoppable'
  BY DEF IInv, OwnerInv, Stoppable, FinishBeforeStop, Finish, Advance, MoveRefused,
         StoreFault, Exit, Goto, session, agent, Active, SagaInv, NoOrphan, Rows,
         TypeOK, RowType
<1>4. OpsAlone'
  BY DEF IInv, OwnerInv, OpsAlone, FinishBeforeStop, Finish, Advance, MoveRefused,
         StoreFault, Exit, Goto, session, Active, NoActive
<1> QED BY <1>1, <1>2, <1>3, <1>4 DEF OwnerInv

LEMMA StopSourceOwner ==
  ASSUME IInv, Disciplined, NEW i \in Transitions, StopSource(i)
  PROVE  OwnerInv'
<1>1. OpsAlone'
  BY DEF IInv, OwnerInv, OpsAlone, StopSource, session, env, NoActive, Active
<1>2. WhoOwns'
  BY StopSourceOwns DEF IInv, OwnerInv, OwnsInv
<1>3. WhoRuns'
  BY DEF IInv, OwnerInv, WhoRuns, StopSource, At, StopOwner, agent, StopProcess, Goto,
         session, env, Source, Stoppable, NoOrphan, WhoOwns, TypeOK, RowType, PcType,
         SourceVerified, SourceOwns, SourceStopped, TargetStopped
<1>4. Stoppable'
  BY DEF IInv, OwnerInv, Stoppable, StopSource, At, StopOwner, agent, StopProcess, Goto,
         session, NoOrphan
<1> QED BY <1>1, <1>2, <1>3, <1>4 DEF OwnerInv

LEMMA FinishRecoveryOwner ==
  ASSUME IInv, Disciplined, NEW i \in Transitions, FinishRecovery(i)
  PROVE  OwnerInv'
<1>1. WhoOwns'
  BY FinishRecoveryOwns DEF IInv, OwnerInv, OwnsInv
<1>2. WhoRuns'
  BY DEF IInv, OwnerInv, WhoRuns, FinishRecovery, Finish, Exit, Goto, session, agent,
         SourceStopped, TargetStopped
<1>3. Stoppable'
  BY DEF IInv, OwnerInv, Stoppable, FinishRecovery, Finish, Advance, MoveRefused,
         StoreFault, Exit, Goto, session, agent, Active, SagaInv, NoOrphan, Rows,
         TypeOK, RowType
<1>4. OpsAlone'
  BY DEF IInv, OwnerInv, OpsAlone, FinishRecovery, Finish, Advance, MoveRefused,
         StoreFault, Exit, Goto, session, Active, NoActive
<1> QED BY <1>1, <1>2, <1>3, <1>4 DEF OwnerInv

LEMMA MoveSourceStoppedOwner ==
  ASSUME IInv, Disciplined, NEW i \in Transitions, MoveSourceStopped(i)
  PROVE  OwnerInv'
<1>1. WhoOwns'
  BY MoveSourceStoppedOwns DEF IInv, OwnerInv, OwnsInv
<1>2. WhoRuns'
  BY DEF IInv, OwnerInv, WhoRuns, MoveSourceStopped, At, Move, agent, SourceStopped
<1>3. Stoppable'
  BY DEF IInv, OwnerInv, Stoppable, MoveSourceStopped, At, Move, agent, NoOrphan,
         WhoRuns, SourceStopped
<1>4. OpsAlone'
  BY DEF IInv, OwnerInv, OpsAlone, MoveSourceStopped, Move, Advance, MoveRefused,
         StoreFault, session, Active, NoActive
<1> QED BY <1>1, <1>2, <1>3, <1>4 DEF OwnerInv

LEMMA CommitEpochOwner ==
  ASSUME IInv, Disciplined, NEW i \in Transitions, CommitEpoch(i)
  PROVE  OwnerInv'
<1>1. WhoOwns'
  BY CommitEpochOwns DEF IInv, OwnerInv, OwnsInv
<1>2. WhoRuns'
  BY DEF IInv, OwnerInv, WhoRuns, CommitEpoch, At, agent, SourceStopped
<1>3. Stoppable'
  BY DEF IInv, OwnerInv, Stoppable, CommitEpoch, At, agent, NoOrphan, WhoRuns,
         SourceStopped
<1>4. OpsAlone'
  BY DEF IInv, OwnerInv, OpsAlone, CommitEpoch, At, SagaInv, NoActive, OneActive,
         StopHoldsRow, PastStop, AfterStop, StopPhases, Active, TerminalPhases
<1> QED BY <1>1, <1>2, <1>3, <1>4 DEF OwnerInv

LEMMA MoveTargetStartingOwner ==
  ASSUME IInv, Disciplined, NEW i \in Transitions, MoveTargetStarting(i)
  PROVE  OwnerInv'
<1>1. WhoOwns'
  BY MoveTargetStartingOwns DEF IInv, OwnerInv, OwnsInv
<1>2. WhoRuns'
  BY DEF IInv, OwnerInv, WhoRuns, MoveTargetStarting, At, Move, agent, TargetStopped
<1>3. Stoppable'
  BY DEF IInv, OwnerInv, Stoppable, MoveTargetStarting, At, Move, session, agent,
         NoOrphan, WhoRuns, TargetStopped
<1>4. OpsAlone'
  BY DEF IInv, OwnerInv, OpsAlone, MoveTargetStarting, Move, Advance, MoveRefused,
         StoreFault, session, Active, NoActive
<1> QED BY <1>1, <1>2, <1>3, <1>4 DEF OwnerInv

LEMMA StartTargetOwner ==
  ASSUME IInv, Disciplined, NEW i \in Transitions, StartTarget(i)
  PROVE  OwnerInv'
<1>1. OpsAlone'
  BY DEF IInv, OwnerInv, OpsAlone, StartTarget, Launch, session, env, NoActive, Active
<1>2. WhoOwns'
  BY StartTargetOwns DEF IInv, OwnerInv, OwnsInv
<1>3. WhoRuns'
  BY DEF IInv, OwnerInv, WhoRuns, StartTarget, At, Serving, Launch, StartProcess, Goto,
         agent, session, env, SagaInv, OneActive, StopHoldsRow, PastStop, AfterStop,
         StopPhases, TypeOK, RowType, PcType, SourceStopped, TargetOwns, TargetStopped,
         Active, TerminalPhases
<1>4. Stoppable'
  BY DEF IInv, OwnerInv, Stoppable, StartTarget, At, Launch, Goto, agent, session,
         SagaInv, NoOrphan, WhoRuns, WhoOwns, Quiet, NoActive, OneActive, TargetOwns,
         TargetStopped, TypeOK, RowType, PcType, Active, TerminalPhases, Source,
         StopHoldsRow, PastStop, AfterStop, StopPhases
<1> QED BY <1>1, <1>2, <1>3, <1>4 DEF OwnerInv

LEMMA MarkTargetOwner ==
  ASSUME IInv, Disciplined, NEW i \in Transitions, MarkTarget(i)
  PROVE  OwnerInv'
<1>1. OpsAlone'
  BY DEF IInv, OwnerInv, OpsAlone, MarkTarget, Mark, MarkSpawned, Goto, MarkFails,
         session, StopProcess, PromptFails, env, NoActive, Active
<1>2. WhoOwns'
  BY MarkTargetOwns DEF IInv, OwnerInv, OwnsInv
<1>3. WhoRuns'
  BY DEF IInv, OwnerInv, WhoRuns, MarkTarget, Mark, MarkSpawned, Goto, agent, MarkFails,
         session, StopProcess, PromptFails, env, Target, SourceStopped, TargetStopped,
         TypeOK, PcType
<1>4. Stoppable'
  BY DEF IInv, OwnerInv, Disciplined, Stoppable, MarkTarget, Mark, MarkSpawned,
         MarkFails, PromptFails, agent, StopProcess, NoOrphan, WhoRuns
<1> QED BY <1>1, <1>2, <1>3, <1>4 DEF OwnerInv

LEMMA UnsettledTargetOwner ==
  ASSUME IInv, Disciplined, NEW i \in Transitions, UnsettledTarget(i)
  PROVE  OwnerInv'
<1>1. OpsAlone'
  BY DEF IInv, OwnerInv, OpsAlone, UnsettledTarget, session, env, NoActive, Active
<1>2. WhoOwns'
  BY UnsettledTargetOwns DEF IInv, OwnerInv, OwnsInv
<1>3. WhoRuns'
  BY DEF IInv, OwnerInv, WhoRuns, UnsettledTarget, At, StopOwner, agent, StopProcess,
         Goto, session, env, Target, WhoOwns, TypeOK, PcType, SourceStopped, TargetOwns,
         TargetStopped
<1>4. Stoppable'
  BY DEF IInv, OwnerInv, Stoppable, UnsettledTarget, At, session, Target, NoOrphan,
         WhoOwns, TargetOwns
<1> QED BY <1>1, <1>2, <1>3, <1>4 DEF OwnerInv

LEMMA RetryTargetOwner ==
  ASSUME IInv, Disciplined, NEW i \in Transitions, RetryTarget(i)
  PROVE  OwnerInv'
<1>1. OpsAlone'
  BY DEF IInv, OwnerInv, OpsAlone, RetryTarget, Launch, session, env, NoActive, Active
<1>2. WhoOwns'
  BY RetryTargetOwns DEF IInv, OwnerInv, OwnsInv
<1>3. WhoRuns'
  BY DEF IInv, OwnerInv, WhoRuns, RetryTarget, At, Serving, Launch, StartProcess, Goto,
         agent, session, env, SagaInv, OneActive, StopHoldsRow, PastStop, AfterStop,
         StopPhases, TypeOK, RowType, PcType, SourceStopped, TargetOwns, TargetStopped,
         Active, TerminalPhases
<1>4. Stoppable'
  BY DEF IInv, OwnerInv, Stoppable, RetryTarget, At, Launch, Goto, agent, session,
         SagaInv, NoOrphan, WhoRuns, WhoOwns, Quiet, NoActive, OneActive, TargetOwns,
         TargetStopped, TypeOK, RowType, PcType, Active, TerminalPhases, Source,
         StopHoldsRow, PastStop, AfterStop, StopPhases
<1> QED BY <1>1, <1>2, <1>3, <1>4 DEF OwnerInv

LEMMA RemarkTargetOwner ==
  ASSUME IInv, Disciplined, NEW i \in Transitions, RemarkTarget(i)
  PROVE  OwnerInv'
<1>1. OpsAlone'
  BY DEF IInv, OwnerInv, OpsAlone, RemarkTarget, Mark, MarkSpawned, Goto, MarkFails,
         session, StopProcess, PromptFails, env, NoActive, Active
<1>2. WhoOwns'
  BY RemarkTargetOwns DEF IInv, OwnerInv, OwnsInv
<1>3. WhoRuns'
  BY DEF IInv, OwnerInv, WhoRuns, RemarkTarget, Mark, MarkSpawned, NewIdentity, Goto,
         agent, MarkFails, session, StopProcess, PromptFails, env, SourceStopped,
         TargetStopped, TypeOK, PcType
<1>4. Stoppable'
  BY DEF IInv, OwnerInv, Disciplined, Stoppable, RemarkTarget, Mark, MarkSpawned,
         MarkFails, PromptFails, agent, StopProcess, NoOrphan, WhoRuns
<1> QED BY <1>1, <1>2, <1>3, <1>4 DEF OwnerInv

LEMMA RetainTargetOwner ==
  ASSUME IInv, Disciplined, NEW i \in Transitions, RetainTarget(i)
  PROVE  OwnerInv'
<1>1. WhoOwns'
  BY RetainTargetOwns DEF IInv, OwnerInv, OwnsInv
<1>2. WhoRuns'
  BY DEF IInv, OwnerInv, WhoRuns, RetainTarget, Exit, Goto, session, agent,
         SourceStopped, TargetStopped
<1>3. Stoppable'
  BY DEF IInv, OwnerInv, Stoppable, RetainTarget, At, Exit, session, agent, NoOrphan
<1>4. OpsAlone'
  BY DEF IInv, OwnerInv, OpsAlone, RetainTarget, MoveRefused, Exit, Goto, session,
         Active, NoActive
<1> QED BY <1>1, <1>2, <1>3, <1>4 DEF OwnerInv

LEMMA MoveActivatingOwner ==
  ASSUME IInv, Disciplined, NEW i \in Transitions, MoveActivating(i)
  PROVE  OwnerInv'
<1>1. WhoOwns'
  BY MoveActivatingOwns DEF IInv, OwnerInv, OwnsInv
<1>2. WhoRuns'
  BY DEF IInv, OwnerInv, WhoRuns, MoveActivating, Move, Goto, session, agent,
         SourceStopped, TargetStopped, TypeOK, PcType
<1>3. Stoppable'
  BY DEF IInv, OwnerInv, Stoppable, MoveActivating, Move, Advance, Goto, MoveRefused,
         StoreFault, session, agent, Active, SagaInv, NoOrphan, OneActive, Rows, TypeOK,
         RowType, PcType
<1>4. OpsAlone'
  BY DEF IInv, OwnerInv, OpsAlone, MoveActivating, Move, Advance, MoveRefused,
         StoreFault, session, Active, NoActive
<1> QED BY <1>1, <1>2, <1>3, <1>4 DEF OwnerInv

LEMMA CompleteOwner ==
  ASSUME IInv, Disciplined, NEW i \in Transitions, Complete(i)
  PROVE  OwnerInv'
<1>1. WhoOwns'
  BY CompleteOwns DEF IInv, OwnerInv, OwnsInv
<1>2. WhoRuns'
  BY DEF IInv, OwnerInv, WhoRuns, Complete, Finish, Exit, Goto, session, agent,
         SourceStopped, TargetStopped
<1>3. Stoppable'
  BY DEF IInv, OwnerInv, Stoppable, Complete, Finish, Advance, MoveRefused, StoreFault,
         Exit, Goto, session, agent, Active, SagaInv, NoOrphan, Rows, TypeOK, RowType
<1>4. OpsAlone'
  BY DEF IInv, OwnerInv, OpsAlone, Complete, Finish, Advance, MoveRefused, StoreFault,
         Exit, Goto, session, Active, NoActive
<1> QED BY <1>1, <1>2, <1>3, <1>4 DEF OwnerInv

LEMMA RollbackStopTargetOwner ==
  ASSUME IInv, Disciplined, NEW i \in Transitions, RollbackStopTarget(i)
  PROVE  OwnerInv'
<1>1. OpsAlone'
  BY DEF IInv, OwnerInv, OpsAlone, RollbackStopTarget, session, env, NoActive, Active
<1>2. WhoOwns'
  BY RollbackStopTargetOwns DEF IInv, OwnerInv, OwnsInv
<1>3. WhoRuns'
  BY DEF IInv, OwnerInv, WhoRuns, RollbackStopTarget, At, StopOwner, agent, StopProcess,
         Goto, session, env, Target, Stoppable, NoOrphan, WhoOwns, TypeOK, RowType,
         PcType, SourceVerified, SourceStopped, TargetStopped
<1>4. Stoppable'
  BY DEF IInv, OwnerInv, Stoppable, RollbackStopTarget, At, StopOwner, agent, session,
         NoOrphan
<1> QED BY <1>1, <1>2, <1>3, <1>4 DEF OwnerInv

LEMMA RollbackEpochOwner ==
  ASSUME IInv, Disciplined, NEW i \in Transitions, RollbackEpoch(i)
  PROVE  OwnerInv'
<1>1. WhoOwns'
  BY RollbackEpochOwns DEF IInv, OwnerInv, OwnsInv
<1>2. WhoRuns'
  BY DEF IInv, OwnerInv, WhoRuns, RollbackEpoch, At, agent, TargetStopped
<1>3. Stoppable'
  BY DEF IInv, OwnerInv, Stoppable, RollbackEpoch, At, agent, NoOrphan, WhoRuns,
         TargetStopped
<1>4. OpsAlone'
  BY DEF IInv, OwnerInv, OpsAlone, RollbackEpoch, At, SagaInv, NoActive, OneActive,
         StopHoldsRow, PastStop, AfterStop, StopPhases, Active, TerminalPhases
<1> QED BY <1>1, <1>2, <1>3, <1>4 DEF OwnerInv

LEMMA RollbackCleanupOwner ==
  ASSUME IInv, Disciplined, NEW i \in Transitions, RollbackCleanup(i)
  PROVE  OwnerInv'
<1>1. OpsAlone'
  BY DEF IInv, OwnerInv, OpsAlone, RollbackCleanup, session, env, NoActive, Active
<1>2. WhoOwns'
  BY RollbackCleanupOwns DEF IInv, OwnerInv, OwnsInv
<1>3. WhoRuns'
  BY DEF IInv, OwnerInv, WhoRuns, RollbackCleanup, At, agent, StopProcess, SourceStopped
<1>4. Stoppable'
  BY DEF IInv, OwnerInv, Stoppable, RollbackCleanup, Goto, agent, StopProcess, session,
         Source, NoOrphan, TypeOK, PcType, Active
<1> QED BY <1>1, <1>2, <1>3, <1>4 DEF OwnerInv

LEMMA RollbackStartOwner ==
  ASSUME IInv, Disciplined, NEW i \in Transitions, RollbackStart(i)
  PROVE  OwnerInv'
<1>1. OpsAlone'
  BY DEF IInv, OwnerInv, OpsAlone, RollbackStart, Launch, session, env, NoActive, Active
<1>2. WhoOwns'
  BY RollbackStartOwns DEF IInv, OwnerInv, OwnsInv
<1>3. WhoRuns'
  BY DEF IInv, OwnerInv, WhoRuns, RollbackStart, At, Serving, Launch, StartProcess,
         Goto, agent, session, env, SagaInv, OneActive, StopHoldsRow, PastStop,
         AfterStop, StopPhases, TypeOK, RowType, PcType, SourceStopped, TargetOwns,
         TargetStopped, Active, TerminalPhases
<1>4. Stoppable'
  BY DEF IInv, OwnerInv, Stoppable, RollbackStart, At, Launch, Goto, agent, session,
         SagaInv, WhoOwns, Quiet, NoActive, OneActive, TypeOK, RowType, PcType, Active,
         TerminalPhases, Source, StopHoldsRow, PastStop, AfterStop, StopPhases
<1> QED BY <1>1, <1>2, <1>3, <1>4 DEF OwnerInv

LEMMA RollbackMarkOwner ==
  ASSUME IInv, Disciplined, NEW i \in Transitions, RollbackMark(i)
  PROVE  OwnerInv'
<1>1. OpsAlone'
  BY DEF IInv, OwnerInv, OpsAlone, RollbackMark, Mark, MarkSpawned, Goto, MarkFails,
         session, StopProcess, PromptFails, env, NoActive, Active
<1>2. WhoOwns'
  BY RollbackMarkOwns DEF IInv, OwnerInv, OwnsInv
<1>3. WhoRuns'
  BY DEF IInv, OwnerInv, WhoRuns, RollbackMark, Mark, MarkSpawned, NewIdentity, Goto,
         agent, MarkFails, session, StopProcess, PromptFails, env, SourceStopped,
         TargetStopped, TypeOK, PcType
<1>4. Stoppable'
  BY DEF IInv, OwnerInv, Stoppable, RollbackMark, Mark, MarkSpawned, Goto, agent,
         MarkFails, session, StopProcess, PromptFails, SagaInv, NoOrphan, Modes,
         SessionType, TypeOK, PcType, Active
<1> QED BY <1>1, <1>2, <1>3, <1>4 DEF OwnerInv

LEMMA RollbackFinishOwner ==
  ASSUME IInv, Disciplined, NEW i \in Transitions, RollbackFinish(i)
  PROVE  OwnerInv'
<1>1. WhoOwns'
  BY RollbackFinishOwns DEF IInv, OwnerInv, OwnsInv
<1>2. WhoRuns'
  BY DEF IInv, OwnerInv, WhoRuns, RollbackFinish, Finish, Exit, Goto, session, agent,
         SourceStopped, TargetStopped
<1>3. Stoppable'
  BY DEF IInv, OwnerInv, Stoppable, RollbackFinish, Finish, Advance, MoveRefused,
         StoreFault, Exit, Goto, session, agent, Active, SagaInv, NoOrphan, Rows,
         TypeOK, RowType
<1>4. OpsAlone'
  BY DEF IInv, OwnerInv, OpsAlone, RollbackFinish, Finish, Advance, MoveRefused,
         StoreFault, Exit, Goto, session, Active, NoActive
<1> QED BY <1>1, <1>2, <1>3, <1>4 DEF OwnerInv

LEMMA CancelReadOwner ==
  ASSUME IInv, Disciplined, NEW i \in Transitions, CancelRead(i)
  PROVE  OwnerInv'
<1>1. WhoOwns' /\ WhoRuns' /\ Stoppable' /\ OpsAlone'
  BY DEF IInv, OwnerInv, WhoOwns, WhoRuns, Stoppable, OpsAlone, CancelRead, session,
         agent, worker, env, NoActive, Active, Source, Target, NoOrphan
<1> QED BY <1>1 DEF OwnerInv

LEMMA RecoverStopTargetOwner ==
  ASSUME IInv, Disciplined, NEW i \in Transitions, RecoverStopTarget(i)
  PROVE  OwnerInv'
<1>1. WhoOwns'
  BY RecoverStopTargetOwns DEF IInv, OwnerInv, OwnsInv
<1>2. WhoRuns'
  BY DEF IInv, OwnerInv, WhoRuns, RecoverStopTarget, NeedsTargetStop, StopOwner, agent,
         StopProcess, worker, Target, Source, Stoppable, NoOrphan, Opposite
<1>3. Stoppable'
  BY DEF IInv, OwnerInv, Stoppable, RecoverStopTarget, NeedsTargetStop, StopOwner,
         agent, session, worker, Active, NoOrphan
<1>4. OpsAlone'
  BY DEF IInv, OwnerInv, OpsAlone, RecoverStopTarget
<1> QED BY <1>1, <1>2, <1>3, <1>4 DEF OwnerInv

LEMMA RecoverQuarantineOwner ==
  ASSUME IInv, Disciplined, NEW i \in Transitions, RecoverQuarantine(i)
  PROVE  OwnerInv'
<1>1. WhoOwns'
  BY RecoverQuarantineOwns DEF IInv, OwnerInv, OwnsInv
<1>2. WhoRuns'
  BY DEF IInv, OwnerInv, WhoRuns, RecoverQuarantine, session, agent, worker
<1>3. Stoppable'
  BY DEF IInv, OwnerInv, Stoppable, RecoverQuarantine, NeedsTargetStop, session, agent,
         Source, Target, NoOrphan, Opposite
<1>4. OpsAlone'
  BY DEF IInv, OwnerInv, OpsAlone, RecoverQuarantine
<1> QED BY <1>1, <1>2, <1>3, <1>4 DEF OwnerInv

LEMMA RecoverEpochOwner ==
  ASSUME IInv, Disciplined, NEW i \in Transitions, RecoverEpoch(i)
  PROVE  OwnerInv'
<1>1. WhoOwns'
  BY RecoverEpochOwns DEF IInv, OwnerInv, OwnsInv
<1>2. WhoRuns'
  BY DEF IInv, OwnerInv, WhoRuns, RecoverEpoch, agent
<1>3. Stoppable'
  BY DEF IInv, OwnerInv, Stoppable, RecoverEpoch, agent, NoOrphan, WhoRuns
<1>4. OpsAlone'
  BY DEF IInv, OwnerInv, OpsAlone, RecoverEpoch
<1> QED BY <1>1, <1>2, <1>3, <1>4 DEF OwnerInv

LEMMA RecoverRowOwner ==
  ASSUME IInv, Disciplined, NEW i \in Transitions, RecoverRow(i)
  PROVE  OwnerInv'
<1>1. WhoRuns'
  BY DEF IInv, OwnerInv, WhoRuns, RecoverRow, session, agent, worker, env
<1>2. WhoOwns'
  BY RecoverRowOwns DEF IInv, OwnerInv, OwnsInv
<1>3. Stoppable'
  BY DEF IInv, OwnerInv, Stoppable, RecoverRow, Advance, session, agent, worker, Active,
         Source, NoOrphan, TypeOK, RowType
<1>4. OpsAlone'
  BY DEF IInv, OwnerInv, OpsAlone, RecoverRow
<1> QED BY <1>1, <1>2, <1>3, <1>4 DEF OwnerInv

LEMMA CancelRowOwner ==
  ASSUME IInv, Disciplined, CancelRow
  PROVE  OwnerInv'
<1>1. WhoRuns'
  BY DEF IInv, OwnerInv, WhoRuns, CancelRow, Serving, session, agent, worker, env,
         NoActive, Active, Source, Target, PastStop, NoOrphan
<1>2. WhoOwns'
  BY CancelRowOwns DEF IInv, OwnerInv, OwnsInv
<1>3. Stoppable'
  BY DEF IInv, OwnerInv, Stoppable, CancelRow, Serving, session, agent, worker, env,
         IdleCancel, SagaInv, NoOrphan, WhoRuns, WhoOwns, Quiet, NoActive, OneActive,
         Rows, Modes, SessionType, SourceVerified, SourceOwns, SourceStopped,
         TargetOwns, TargetStopped, TypeOK, RowType, PcType, Active, TerminalPhases,
         Source, Target, Opposite, StopHoldsRow, PastStop, AfterStop, StopPhases
<1>4. OpsAlone'
  <2>1. NoActive => NoActive'
    <3>1. CASE UNCHANGED row BY <3>1 DEF NoActive, Active
    <3>2. CASE row' = [row EXCEPT ![cancel.of].phase = "cancelled",
                                  ![cancel.of].unconfirmed = FALSE]
      BY <3>2 DEF NoActive, Active, TerminalPhases, IInv, TypeOK, RowType
    <3> QED BY <3>1, <3>2 DEF CancelRow
  <2> QED BY <2>1 DEF IInv, OwnerInv, OpsAlone, CancelRow, session, env
<1> QED BY <1>1, <1>2, <1>3, <1>4 DEF OwnerInv

LEMMA CancelSignalOwner ==
  ASSUME IInv, Disciplined, CancelSignal
  PROVE  OwnerInv'
<1>1. WhoOwns' /\ WhoRuns' /\ Stoppable' /\ OpsAlone'
  BY DEF IInv, OwnerInv, WhoOwns, WhoRuns, Stoppable, OpsAlone, CancelSignal, session,
         agent, env, NoActive, Active, Source, Target, NoOrphan
<1> QED BY <1>1 DEF OwnerInv

LEMMA OpStopOwner ==
  ASSUME IInv, Disciplined, OpStop
  PROVE  OwnerInv'
<1>1. WhoOwns'
  BY OpStopOwns DEF IInv, OwnerInv, OwnsInv
<1>2. WhoRuns'
  BY DEF IInv, OwnerInv, WhoRuns, OpStop, Serving, StopOwner, agent, StopProcess,
         session, worker, env, NoOp, SourceStopped, TargetStopped, TypeOK, RowType,
         PcType
<1>3. Stoppable'
  BY DEF IInv, OwnerInv, Stoppable, OpStop, Serving, StopOwner, agent, StopProcess,
         session, worker, env, NoOp, NoOrphan, TypeOK, RowType, PcType, Active,
         TerminalPhases
<1>4. OpsAlone'
  BY DEF IInv, OwnerInv, OpsAlone, OpStop, Serving, StopOwner, agent, StopProcess,
         session, worker, env, NoOp, SagaInv, NoActive, OneActive, WhoOwns, Disciplined,
         Quiet, IdleCancel, RequestType, StopHoldsRow, PastStop, AfterStop, StopPhases,
         TypeOK, RowType, PcType, Active, TerminalPhases, Source, Target, Opposite,
         SourceVerified, SourceOwns, SourceStopped, TargetOwns, TargetStopped
<1> QED BY <1>1, <1>2, <1>3, <1>4 DEF OwnerInv

LEMMA OpTerminateOwner ==
  ASSUME IInv, Disciplined, OpTerminate
  PROVE  OwnerInv'
<1>1. WhoOwns' /\ WhoRuns' /\ Stoppable'
  BY DEF IInv, OwnerInv, WhoOwns, WhoRuns, Stoppable, OpTerminate, Serving, agent,
         worker, env, NoActive, Active, Source, Target, PastStop, NoOrphan
<1>2. OpsAlone'
  BY DEF IInv, OwnerInv, OpsAlone, OpTerminate, Serving, agent, worker, env, NoOp,
         NoActive, Active, TerminalPhases
<1> QED BY <1>1, <1>2 DEF OwnerInv

LEMMA OpLaunchOwner ==
  ASSUME IInv, Disciplined, OpLaunch
  PROVE  OwnerInv'
<1>1. WhoOwns'
  BY OpLaunchOwns DEF IInv, OwnerInv, OwnsInv
<1>2. WhoRuns'
  <2>1. live' \subseteq {mode'} /\ daemon' = "up"
    BY OpAlone
       DEF IInv, OwnerInv, WhoRuns, OpLaunch, Serving, StartProcess, session, agent, env
  <2>2. \A j \in Transitions : pc'[j] \notin SourceStopped \cup TargetStopped
    BY OpAlone DEF OpLaunch, PastStop, AfterStop, SourceStopped, TargetStopped
  <2> QED BY <2>1, <2>2 DEF WhoRuns
<1>3. Stoppable'
  BY OpAlone DEF OpLaunch, Stoppable, PastStop, AfterStop, Active
<1>4. OpsAlone'
  BY DEF IInv, OwnerInv, OpsAlone, OpLaunch, session, env, NoOp, SagaInv, NoActive,
         OneActive, RequestType, StopHoldsRow, TypeOK, Active
<1> QED BY <1>1, <1>2, <1>3, <1>4 DEF OwnerInv

LEMMA OpMarkOwner ==
  ASSUME IInv, Disciplined, OpMark
  PROVE  OwnerInv'
<1>1. WhoOwns'
  BY OpMarkOwns DEF IInv, OwnerInv, OwnsInv
<1>2. WhoRuns'
  BY DEF IInv, OwnerInv, WhoRuns, OpMark, MarkSpawned, agent, MarkFails, session,
         StopProcess, PromptFails, env
<1>3. Stoppable'
  BY OpAlone DEF OpMark, Stoppable, PastStop, AfterStop, Active
<1>4. OpsAlone'
  BY DEF IInv, OwnerInv, OpsAlone, OpMark, NoOp
<1> QED BY <1>1, <1>2, <1>3, <1>4 DEF OwnerInv

LEMMA ChatSendOwner ==
  ASSUME IInv, Disciplined, ChatSend
  PROVE  OwnerInv'
<1>1. WhoOwns' /\ WhoRuns' /\ Stoppable' /\ OpsAlone'
  BY DEF IInv, OwnerInv, WhoOwns, WhoRuns, Stoppable, OpsAlone, ChatSend, session,
         worker, env, NoActive, Active, Source, Target, NoOrphan
<1> QED BY <1>1 DEF OwnerInv

LEMMA TerminalInputOwner ==
  ASSUME IInv, Disciplined, TerminalInput
  PROVE  OwnerInv'
<1>1. WhoOwns' /\ WhoRuns' /\ Stoppable' /\ OpsAlone'
  BY DEF IInv, OwnerInv, WhoOwns, WhoRuns, Stoppable, OpsAlone, TerminalInput, session,
         worker, env, NoActive, Active, Source, Target, NoOrphan
<1> QED BY <1>1 DEF OwnerInv

LEMMA TurnDoneOwner ==
  ASSUME IInv, Disciplined, TurnDone
  PROVE  OwnerInv'
<1>1. WhoOwns' /\ WhoRuns' /\ Stoppable' /\ OpsAlone'
  BY DEF IInv, OwnerInv, WhoOwns, WhoRuns, Stoppable, OpsAlone, TurnDone, session,
         worker, env, NoActive, Active, Source, Target, NoOrphan
<1> QED BY <1>1 DEF OwnerInv

LEMMA DispatchOwner ==
  ASSUME IInv, Disciplined, Dispatch
  PROVE  OwnerInv'
<1>1. WhoOwns' /\ WhoRuns' /\ Stoppable' /\ OpsAlone'
  BY DEF IInv, OwnerInv, WhoOwns, WhoRuns, Stoppable, OpsAlone, Dispatch, session,
         worker, env, NoActive, Active, Source, Target, NoOrphan
<1> QED BY <1>1 DEF OwnerInv

LEMMA CrashOwner ==
  ASSUME IInv, Disciplined, Crash
  PROVE  OwnerInv'
<1>1. WhoOwns'
  BY CrashOwns DEF IInv, OwnerInv, OwnsInv
<1>2. WhoRuns'
  BY DEF IInv, OwnerInv, WhoRuns, Crash, session, SourceStopped, TargetStopped
<1>3. Stoppable'
  BY DEF IInv, OwnerInv, Stoppable, Crash, session, NoRow, NoOrphan, Active
<1>4. OpsAlone'
  BY DEF IInv, OwnerInv, OpsAlone, Crash, NoOp
<1> QED BY <1>1, <1>2, <1>3, <1>4 DEF OwnerInv

LEMMA ServeAPIOwner ==
  ASSUME IInv, Disciplined, ServeAPI
  PROVE  OwnerInv'
<1>1. WhoOwns' /\ Stoppable'
  BY DEF IInv, OwnerInv, WhoOwns, Stoppable, ServeAPI, session, agent, worker, Active,
         Source, Target, NoOrphan
<1>2. WhoRuns'
  BY DEF IInv, OwnerInv, WhoRuns, ServeAPI, session, agent, worker
<1>3. OpsAlone'
  BY DEF IInv, OwnerInv, OpsAlone, ServeAPI
<1> QED BY <1>1, <1>2, <1>3 DEF OwnerInv

LEMMA OpBeginOwner ==
  ASSUME IInv, Disciplined, NEW kind \in {"kill", "exit", "resume"}, OpBegin(kind)
  PROVE  OwnerInv'
<1>1. WhoOwns' /\ WhoRuns' /\ Stoppable'
  BY DEF IInv, OwnerInv, WhoOwns, WhoRuns, Stoppable, OpBegin, session, agent, worker,
         env, Active, Source, Target, NoOrphan
<1>2. OpsAlone'
  BY DEF IInv, OwnerInv, OpsAlone, OpBegin, Serving, session, env, NoActive, Active
<1> QED BY <1>1, <1>2 DEF OwnerInv

LEMMA ControllerExitsOwner ==
  ASSUME IInv, Disciplined, NEW m \in Modes, ControllerExits(m)
  PROVE  OwnerInv'
<1>1. WhoOwns' /\ OpsAlone'
  BY DEF IInv, OwnerInv, WhoOwns, OpsAlone, ControllerExits, session, worker, env,
         NoActive, Active, Source, Target
<1>2. WhoRuns'
  BY DEF IInv, OwnerInv, WhoRuns, ControllerExits, StopProcess
<1>3. Stoppable'
  BY DEF IInv, OwnerInv, Stoppable, ControllerExits, StopProcess, session, worker,
         NoOrphan, Active
<1> QED BY <1>1, <1>2, <1>3 DEF OwnerInv

-----------------------------------------------------------------------------
(* Every step together, and the theorems.                                  *)

\* Every step keeps the owner the only one that runs.
LEMMA OwnerStep == IInv /\ Disciplined /\ [Next]_vars => OwnerInv'
<1> SUFFICES ASSUME IInv, Disciplined, [Next]_vars PROVE OwnerInv'
  OBVIOUS
<1>1. CASE UNCHANGED vars
  BY <1>1
     DEF vars, session, agent, worker, env, IInv, OwnerInv, WhoOwns, WhoRuns, Stoppable,
         NoOrphan, OpsAlone, NoActive, Active, Source, Target
<1>2. ASSUME NEW i \in Transitions, Request(i) PROVE OwnerInv'
  BY <1>2, StartReadOwner, StartCreateOwner, StartArmOwner, StartArmFailedOwner,
     StartWorkerOwner
     DEF Request
<1>3. ASSUME NEW i \in Transitions, WorkerBeforeStop(i) PROVE OwnerInv'
  BY <1>3, MovePreflightingOwner, CheckSessionOwner, MoveDrainingOwner,
     PrepareChatOwner, QuiesceChatOwner, PrepareTuiOwner, RereadOwner,
     MoveSourceStoppingOwner, AbortSourceOwner, FinishBeforeStopOwner
     DEF WorkerBeforeStop
<1>4. ASSUME NEW i \in Transitions, WorkerAfterStop(i) PROVE OwnerInv'
  BY <1>4, StopSourceOwner, FinishRecoveryOwner, MoveSourceStoppedOwner,
     CommitEpochOwner, MoveTargetStartingOwner, StartTargetOwner, MarkTargetOwner,
     UnsettledTargetOwner, RetryTargetOwner, RemarkTargetOwner, RetainTargetOwner,
     MoveActivatingOwner, CompleteOwner, RollbackStopTargetOwner, RollbackEpochOwner,
     RollbackCleanupOwner, RollbackStartOwner, RollbackMarkOwner, RollbackFinishOwner
     DEF WorkerAfterStop
<1>5. CASE CancelRequest
  BY <1>5, CancelReadOwner, CancelRowOwner, CancelSignalOwner DEF CancelRequest
<1>6. CASE Operation
  BY <1>6, OpBeginOwner, OpStopOwner, OpTerminateOwner, OpLaunchOwner, OpMarkOwner
     DEF Operation
<1>7. CASE Agent
  BY <1>7, ChatSendOwner, TerminalInputOwner, TurnDoneOwner, DispatchOwner,
     ControllerExitsOwner
     DEF Agent
<1>8. CASE Crash BY <1>8, CrashOwner
<1>9. CASE Recovery
  BY <1>9, RecoverStopTargetOwner, RecoverQuarantineOwner, RecoverEpochOwner,
     RecoverRowOwner, ServeAPIOwner
     DEF Recovery
<1> QED BY <1>1, <1>2, <1>3, <1>4, <1>5, <1>6, <1>7, <1>8, <1>9 DEF Next, Work

\* The session starts under its owner.
LEMMA OwnerInit == Init => OwnerInv
<1> SUFFICES ASSUME Init PROVE OwnerInv
  OBVIOUS
<1>1. WhoOwns BY WhoOwnsInit
<1>2. WhoRuns BY DEF Init, WhoRuns, SourceStopped, TargetStopped
<1>3. Stoppable
  BY DEF Init, Stoppable, Active, NoRow
<1>4. OpsAlone BY DEF Init, OpsAlone, NoOp
<1> QED BY <1>1, <1>2, <1>3, <1>4 DEF OwnerInv

\* IInv is inductive once exclusive operations and transitions keep apart and an
\* unrecorded TUI is destroyed.
THEOREM Inductive == ASSUME Disciplined PROVE Spec => []IInv
<1>1. Init => IInv BY TypeInit, SagaInit, OwnerInit DEF IInv
<1>2. IInv /\ [Next]_vars => IInv'
  BY Disciplined, TypeStep, SagaStep, OwnerStep DEF IInv
<1> QED BY <1>1, <1>2, PTL DEF Spec

\* Both controllers of a session are never live at once, nor the wrong one alone.
THEOREM OneController == ASSUME Disciplined PROVE Spec => []OnlyOwnerLives
<1>1. IInv => OnlyOwnerLives BY DEF IInv, OwnerInv, WhoRuns, OnlyOwnerLives
<1> QED BY <1>1, Inductive, PTL

-----------------------------------------------------------------------------
(* The gate of a Chat source, while one worker is at it.  Two contend for  *)
(* the gate, which knows a policy and no transition (Handoff_fence).       *)

FencedAt   == {"registering", "begin", "check", "preflight", "prepare", "quiesce",
               "reread", "stopping", "stopSource"}
Working(i) == pc[i] \notin {"idle", "admitted", "done"}
OneWorker  == \A i, j \in Transitions : Working(i) /\ Working(j) => i = j

\* A step that only lets Chat controllers and rows go, and moves no worker under the gate.
LEMMA FenceKept ==
  ASSUME FenceHeld, UNCHANGED fence, live' \cap {"chat"} \subseteq live,
         \A j \in Transitions : pc'[j] \in FencedAt =>
           /\ pc[j] \in FencedAt /\ (Active(j)' => Active(j))
           /\ row'[j].source = row[j].source /\ row'[j].policy = row[j].policy
  PROVE  FenceHeld'
BY DEF FenceHeld, FencedAt, Source

\* The worker ends up where the gate is no longer its own, and there is no other.
LEMMA FenceLeft ==
  ASSUME PcType, OneWorker, NEW i \in Transitions, Working(i), NEW label, Goto(i, label),
         label \notin FencedAt
  PROVE  FenceHeld'
<1>1. \A j \in Transitions : pc'[j] \notin FencedAt
  BY DEF PcType, OneWorker, Working, Goto, FencedAt
<1> QED BY <1>1 DEF FenceHeld, FencedAt

\* The request arms the gate before its worker starts.
LEMMA RequestFence ==
  ASSUME TypeOK, OneWorker, FenceHeld, NEW i \in Transitions, Request(i)
  PROVE  FenceHeld'
<1> USE DEF TypeOK
<1>1. CASE (\E policy \in Policies : StartRead(i, policy)) \/ StartCreate(i)
  <2>1. \A j \in Transitions : j # i => pc'[j] = pc[j] /\ row'[j] = row[j]
    BY <1>1 DEF PcType, RowType, StartRead, StartCreate, Goto
  <2>2. pc'[i] \in FencedAt => Source(i) # "chat" /\ row'[i].source = Source(i)
    BY <1>1 DEF PcType, RowType, Rows, StartRead, StartCreate, Goto, FencedAt, Source
  <2>3. UNCHANGED agent BY <1>1 DEF StartRead, StartCreate
  <2> QED BY <2>1, <2>2, <2>3 DEF FenceHeld, FencedAt, Source, Active, agent
<1>2. CASE StartArm(i)
  <2>1. Working(i) BY <1>2 DEF StartArm, At, Working
  <2>2. \A j \in Transitions : pc'[j] \in FencedAt => j = i
    BY <1>2, <2>1 DEF PcType, StartArm, Goto, OneWorker, Working, FencedAt
  <2> QED BY <1>2, <2>2 DEF FenceHeld, FencedAt, StartArm, Goto, PcType
<1>3. CASE StartArmFailed(i)
  <2>1. Working(i) BY <1>3 DEF StartArmFailed, At, Working
  <2>2. Goto(i, "done") BY <1>3 DEF StartArmFailed, Finish, Exit
  <2> QED BY <2>1, <2>2, FenceLeft DEF FencedAt
<1>4. CASE StartWorker(i)
  BY <1>4, FenceKept DEF StartWorker, At, Goto, agent, FencedAt, PcType, Active
<1> QED BY <1>1, <1>2, <1>3, <1>4 DEF Request

\* Before the stop the worker arms the gate again, or lets go of it with its row's end.
LEMMA BeforeStopFence ==
  ASSUME TypeOK, OneWorker, FenceHeld, NEW i \in Transitions, WorkerBeforeStop(i)
  PROVE  FenceHeld'
<1> USE DEF TypeOK
<1>1. Working(i)
  BY DEF WorkerBeforeStop, MovePreflighting, CheckSession, MoveDraining, PrepareChat, QuiesceChat,
         PrepareTui, Reread, MoveSourceStopping, AbortSource, FinishBeforeStop, At, Working
<1>2. ASSUME NEW v, Fail(i, v) PROVE FenceHeld'
  BY <1>1, <1>2, FenceLeft DEF Fail, FailLabel, FencedAt
<1>3. ASSUME NEW label, Goto(i, label), UNCHANGED <<agent, row>>, pc[i] \in FencedAt
      PROVE  FenceHeld'
  BY <1>3, FenceKept DEF Goto, agent, FencedAt, PcType, Active
<1>4. ASSUME NEW next, NEW then, Move(i, next, then, FailLabel(i)), pc[i] \in FencedAt
      PROVE  FenceHeld'
  <2>1. CASE Advance(i, next) /\ Goto(i, then)
    <3>1. \A j \in Transitions : /\ Active(j)' => Active(j)
                                 /\ row'[j].source = row[j].source /\ row'[j].policy = row[j].policy
      BY <2>1 DEF Advance, RowType, Rows, Active
    <3> QED BY <1>4, <2>1, <3>1, FenceKept DEF Move, Goto, agent, FencedAt, PcType
  <2>2. CASE Goto(i, FailLabel(i))
    BY <1>1, <2>2, FenceLeft DEF FailLabel, FencedAt
  <2> QED BY <1>4, <2>1, <2>2 DEF Move
<1>5. CASE MovePreflighting(i) \/ MoveSourceStopping(i)
  BY <1>4, <1>5 DEF MovePreflighting, MoveSourceStopping, At, FencedAt
<1>6. CASE CheckSession(i) \/ PrepareTui(i) \/ Reread(i)
  <2>1. pc[i] \in FencedAt /\ UNCHANGED <<agent, row>>
    BY <1>6 DEF CheckSession, PrepareTui, Reread, CtxFails, At, FencedAt
  <2>2. (\E v : Fail(i, v)) \/ \E label : Goto(i, label)
    BY <1>6 DEF CheckSession, PrepareTui, Reread, CtxFails
  <2> QED BY <1>2, <1>3, <2>1, <2>2
<1>7. CASE MoveDraining(i)
  BY <1>2, <1>4, <1>7 DEF MoveDraining, CtxFails, At, FencedAt
<1>8. CASE PrepareChat(i) \/ QuiesceChat(i)
  <2>1. \/ \E v : Fail(i, v)
        \/ \E label : Goto(i, label) /\ UNCHANGED row /\ live' = live
             /\ ("chat" \notin live \/ fence' = row[i].policy \/ UNCHANGED fence)
    BY <1>8 DEF PrepareChat, QuiesceChat
  <2>2. pc[i] \in FencedAt BY <1>8 DEF PrepareChat, QuiesceChat, At, FencedAt
  <2>3. ASSUME NEW label, Goto(i, label), UNCHANGED row, live' = live,
               "chat" \notin live \/ fence' = row[i].policy \/ UNCHANGED fence
        PROVE  FenceHeld'
    <3>1. \A j \in Transitions : pc'[j] \in FencedAt => j = i
      BY <1>1, <2>3 DEF PcType, Goto, OneWorker, Working, FencedAt
    <3> QED BY <2>2, <2>3, <3>1 DEF FenceHeld, FencedAt, Source, Active
  <2> QED BY <1>2, <2>1, <2>3
<1>9. CASE AbortSource(i) \/ FinishBeforeStop(i)
  <2>1. Goto(i, "finishing") \/ Goto(i, "done")
    BY <1>9 DEF AbortSource, FinishBeforeStop, Finish, Exit
  <2> QED BY <1>1, <2>1, FenceLeft DEF FencedAt
<1> QED BY <1>5, <1>6, <1>7, <1>8, <1>9 DEF WorkerBeforeStop

\* Past the stop of the source there is nothing left to fence.
LEMMA AfterStopFence ==
  ASSUME TypeOK, OneWorker, NEW i \in Transitions, WorkerAfterStop(i)
  PROVE  FenceHeld'
<1>1. PcType /\ Working(i)
  BY DEF TypeOK, WorkerAfterStop, StopSource, FinishRecovery, MoveSourceStopped, CommitEpoch,
         MoveTargetStarting, StartTarget, MarkTarget, UnsettledTarget, RetryTarget, RemarkTarget,
         RetainTarget, MoveActivating, Complete, RollbackStopTarget, RollbackEpoch,
         RollbackCleanup, RollbackStart, RollbackMark, RollbackFinish, At, Working
<1>2. \E label \in AfterStop \cup {"done"} : label # "stopSource" /\ Goto(i, label)
  BY DEF WorkerAfterStop, StopSource, FinishRecovery, MoveSourceStopped, CommitEpoch,
         MoveTargetStarting, StartTarget, MarkTarget, UnsettledTarget, RetryTarget, RemarkTarget,
         RetainTarget, MoveActivating, Complete, RollbackStopTarget, RollbackEpoch,
         RollbackCleanup, RollbackStart, RollbackMark, RollbackFinish, Finish, Exit, Move,
         Launch, Mark, AfterStop
<1> QED BY <1>1, <1>2, FenceLeft DEF AfterStop, FencedAt

\* Whatever else happens beside the worker: exclusive operations meet no transition.
LEMMA FenceStep ==
  ASSUME IInv, Disciplined, OneWorker, FenceHeld, [Next]_vars
  PROVE  FenceHeld'
<1> USE DEF IInv, TypeOK
<1>1. CASE UNCHANGED vars BY <1>1, FenceKept DEF vars, agent, worker, Active
<1>2. ASSUME NEW i \in Transitions, Request(i) PROVE FenceHeld' BY <1>2, RequestFence
<1>3. ASSUME NEW i \in Transitions, Work(i) PROVE FenceHeld'
  BY <1>3, BeforeStopFence, AfterStopFence DEF Work
<1>4. CASE CancelRequest
  <2>1. UNCHANGED <<agent, pc>>
    BY <1>4 DEF CancelRequest, CancelRead, CancelRow, CancelSignal, worker
  <2>2. \A j \in Transitions : /\ Active(j)' => Active(j)
                               /\ row'[j].source = row[j].source /\ row'[j].policy = row[j].policy
    BY <1>4 DEF CancelRequest, CancelRead, CancelRow, CancelSignal, RowType, Rows, Active,
                TerminalPhases
  <2> QED BY <2>1, <2>2, FenceKept DEF agent
<1>5. CASE Operation
  <2>1. UNCHANGED <<pc, row>>
    BY <1>5 DEF Operation, OpBegin, OpStop, OpTerminate, OpLaunch, OpMark, worker
  <2>2. CASE \E kind \in {"kill", "exit", "resume"} : OpBegin(kind)
    BY <2>1, <2>2, FenceKept DEF OpBegin, agent, Active
  <2>3. CASE OpStop \/ OpTerminate \/ OpLaunch \/ OpMark
    <3>1. NoActive
      BY <2>3 DEF OpStop, OpTerminate, OpLaunch, OpMark, OwnerInv, OpsAlone
    <3> QED BY <2>1, <3>1 DEF FenceHeld, NoActive, Active
  <2> QED BY <1>5, <2>2, <2>3 DEF Operation
<1>6. CASE Agent
  <2>1. UNCHANGED <<pc, row>> /\ live' \subseteq live /\ ("chat" \in live' => UNCHANGED fence)
    BY <1>6 DEF Agent, ChatSend, TerminalInput, TurnDone, Dispatch, ControllerExits, StopProcess,
                worker
  <2> QED BY <2>1 DEF FenceHeld, Active, Source
<1>7. CASE Crash
  <2>1. \A j \in Transitions : pc'[j] \in {"idle", "done"} BY <1>7 DEF Crash
  <2> QED BY <2>1 DEF FenceHeld
<1>8. CASE Recovery
  <2>1. UNCHANGED pc /\ daemon # "up"
    BY <1>8 DEF Recovery, RecoverStopTarget, RecoverQuarantine, RecoverEpoch, RecoverRow,
                ServeAPI, worker
  <2>2. \A j \in Transitions : pc'[j] \in {"idle", "done"}
    BY <2>1 DEF SagaInv, Quiet
  <2> QED BY <2>2 DEF FenceHeld
<1> QED BY <1>1, <1>2, <1>3, <1>4, <1>5, <1>6, <1>7, <1>8 DEF Next

\* From the return of the request until the stop, a live Chat source is fenced by the policy
\* of its handoff, as long as the worker before has come to its end.
THEOREM FenceHolds == ASSUME Disciplined PROVE Spec /\ []OneWorker => []FenceHeld
<1>1. Init => FenceHeld BY DEF Init, FenceHeld, Active, NoRow
<1>2. IInv /\ OneWorker /\ FenceHeld /\ [Next]_vars => FenceHeld' BY Disciplined, FenceStep
<1> QED BY <1>1, <1>2, Inductive, PTL DEF Spec

\* So it is for the first handoff of a session.
THEOREM FenceOfOne ==
  ASSUME Disciplined, \A i, j \in Transitions : i = j PROVE Spec => []FenceHeld
<1>1. OneWorker BY DEF OneWorker
<1> QED BY <1>1, FenceHolds, PTL

-----------------------------------------------------------------------------
(* The quarantine.                                                         *)

\* What a step may do to the processes of a quarantined session.
Quarantined ==
  (\E i \in Transitions : Active(i) /\ row[i].unconfirmed) => live' \subseteq live

\* A quarantined session has no operation and no worker past the stop.
LEMMA QuarantineAlone ==
  ASSUME IInv, NEW q \in Transitions, Active(q), row[q].unconfirmed
  PROVE  op.kind = "none" /\ \A j \in Transitions : ~PastStop(j)
<1>1. op.kind = "none" BY DEF IInv, OwnerInv, OpsAlone, NoActive
<1>2. ~PastStop(q) BY DEF IInv, SagaInv, Quiet, PastStop, AfterStop
<1>3. \A j \in Transitions : PastStop(j) => j = q
  BY DEF IInv, SagaInv, OneActive, StopHoldsRow, StopPhases, Active, TerminalPhases
<1> QED BY <1>1, <1>2, <1>3

\* No step starts a process of a quarantined session.
LEMMA QuarantineStep ==
  ASSUME IInv, Disciplined, [Next]_vars
  PROVE  Quarantined
<1>1. CASE UNCHANGED vars
  BY <1>1 DEF Quarantined, vars, agent
<1>2. ASSUME NEW i \in Transitions, Request(i) PROVE Quarantined
  <2>1. CASE \E policy \in Policies : StartRead(i, policy)
    BY <2>1 DEF Quarantined, StartRead, agent
  <2>2. CASE StartCreate(i)
    BY <2>2 DEF Quarantined, StartCreate, agent
  <2>3. CASE StartArm(i)
    BY <2>3 DEF Quarantined, StartArm
  <2>4. CASE StartArmFailed(i)
    BY <2>4 DEF Quarantined, StartArmFailed, Finish, MoveRefused, Exit, agent
  <2>5. CASE StartWorker(i)
    BY <2>5 DEF Quarantined, StartWorker, agent
  <2> QED BY <1>2, <2>1, <2>2, <2>3, <2>4, <2>5 DEF Request
<1>3. ASSUME NEW i \in Transitions, WorkerBeforeStop(i) PROVE Quarantined
  <2>1. CASE MovePreflighting(i)
    BY <2>1 DEF Quarantined, MovePreflighting, Move, MoveRefused, agent
  <2>2. CASE CheckSession(i)
    BY <2>2 DEF Quarantined, CheckSession, CtxFails, Fail, agent
  <2>3. CASE MoveDraining(i)
    BY <2>3 DEF Quarantined, MoveDraining, CtxFails, Fail, agent, Move, MoveRefused
  <2>4. CASE PrepareChat(i)
    BY <2>4 DEF Quarantined, PrepareChat, Fail
  <2>5. CASE QuiesceChat(i)
    BY <2>5 DEF Quarantined, QuiesceChat, Fail
  <2>6. CASE PrepareTui(i)
    BY <2>6 DEF Quarantined, PrepareTui, CtxFails, Fail, agent
  <2>7. CASE Reread(i)
    BY <2>7 DEF Quarantined, Reread, CtxFails, Fail, agent
  <2>8. CASE MoveSourceStopping(i)
    BY <2>8 DEF Quarantined, MoveSourceStopping, Move, MoveRefused, agent
  <2>9. CASE AbortSource(i)
    BY <2>9 DEF Quarantined, AbortSource
  <2>10. CASE FinishBeforeStop(i)
    BY <2>10 DEF Quarantined, FinishBeforeStop, Finish, MoveRefused, Exit, agent
  <2> QED
    BY <1>3, <2>1, <2>2, <2>3, <2>4, <2>5, <2>6, <2>7, <2>8, <2>9, <2>10
       DEF WorkerBeforeStop
<1>4. ASSUME NEW i \in Transitions, WorkerAfterStop(i) PROVE Quarantined
  <2>1. CASE StopSource(i)
    BY <2>1
       DEF Quarantined, StopSource, At, Serving, StopOwner, agent, StopProcess, Goto
  <2>2. CASE FinishRecovery(i)
    BY <2>2 DEF Quarantined, FinishRecovery, Finish, MoveRefused, Exit, agent
  <2>3. CASE MoveSourceStopped(i)
    BY <2>3 DEF Quarantined, MoveSourceStopped, Move, MoveRefused, agent
  <2>4. CASE CommitEpoch(i)
    BY <2>4 DEF Quarantined, CommitEpoch, agent
  <2>5. CASE MoveTargetStarting(i)
    BY <2>5 DEF Quarantined, MoveTargetStarting, Move, MoveRefused, agent
  <2>6. CASE StartTarget(i)
    BY <2>6, QuarantineAlone
       DEF Quarantined, StartTarget, At, Serving, Launch, TuiLaunchInFlight,
           StartProcess, Goto, NewIdentity, agent, PastStop, AfterStop
  <2>7. CASE MarkTarget(i)
    BY <2>7
       DEF Quarantined, MarkTarget, At, Serving, Mark, MarkSpawned, NewIdentity, Goto,
           agent, MarkFails, StopProcess, PromptFails, Disciplined
  <2>8. CASE UnsettledTarget(i)
    BY <2>8
       DEF Quarantined, UnsettledTarget, At, Serving, StopOwner, agent, StopProcess,
           Goto
  <2>9. CASE RetryTarget(i)
    BY <2>9, QuarantineAlone
       DEF Quarantined, RetryTarget, At, Serving, Launch, TuiLaunchInFlight,
           StartProcess, Goto, NewIdentity, agent, PastStop, AfterStop
  <2>10. CASE RemarkTarget(i)
    BY <2>10
       DEF Quarantined, RemarkTarget, At, Serving, Mark, MarkSpawned, NewIdentity, Goto,
           agent, MarkFails, StopProcess, PromptFails, Disciplined
  <2>11. CASE RetainTarget(i)
    BY <2>11 DEF Quarantined, RetainTarget, MoveRefused, Exit, agent
  <2>12. CASE MoveActivating(i)
    BY <2>12 DEF Quarantined, MoveActivating, Move, MoveRefused, agent
  <2>13. CASE Complete(i)
    BY <2>13 DEF Quarantined, Complete, Finish, MoveRefused, Exit, agent
  <2>14. CASE RollbackStopTarget(i)
    BY <2>14
       DEF Quarantined, RollbackStopTarget, At, Serving, StopOwner, agent, StopProcess,
           Goto
  <2>15. CASE RollbackEpoch(i)
    BY <2>15 DEF Quarantined, RollbackEpoch, agent
  <2>16. CASE RollbackCleanup(i)
    BY <2>16 DEF Quarantined, RollbackCleanup, At, Serving, Goto, agent, StopProcess
  <2>17. CASE RollbackStart(i)
    BY <2>17, QuarantineAlone
       DEF Quarantined, RollbackStart, At, Serving, Launch, TuiLaunchInFlight,
           StartProcess, Goto, NewIdentity, agent, PastStop, AfterStop
  <2>18. CASE RollbackMark(i)
    BY <2>18
       DEF Quarantined, RollbackMark, At, Serving, Mark, MarkSpawned, NewIdentity, Goto,
           agent, MarkFails, StopProcess, PromptFails, Disciplined
  <2>19. CASE RollbackFinish(i)
    BY <2>19 DEF Quarantined, RollbackFinish, Finish, MoveRefused, Exit, agent
  <2> QED
    BY <1>4, <2>1, <2>2, <2>3, <2>4, <2>5, <2>6, <2>7, <2>8, <2>9, <2>10, <2>11, <2>12,
       <2>13, <2>14, <2>15, <2>16, <2>17, <2>18, <2>19
       DEF WorkerAfterStop
<1>5. CASE CancelRequest
  <2>1. ASSUME NEW i \in Transitions, CancelRead(i) PROVE Quarantined
    BY <2>1 DEF Quarantined, CancelRead, agent
  <2>2. CASE CancelRow
    BY <2>2 DEF Quarantined, CancelRow, agent
  <2>3. CASE CancelSignal
    BY <2>3 DEF Quarantined, CancelSignal, agent
  <2> QED BY <1>5, <2>1, <2>2, <2>3 DEF CancelRequest
<1>6. CASE Operation
  <2>1. CASE \E kind \in {"kill", "exit", "resume"} : OpBegin(kind)
    BY <2>1 DEF Quarantined, OpBegin, agent
  <2>2. CASE OpStop
    BY <2>2 DEF Quarantined, OpStop, Serving, StopOwner, agent, StopProcess
  <2>3. CASE OpTerminate
    BY <2>3 DEF Quarantined, OpTerminate, agent
  <2>4. CASE OpLaunch
    BY <2>4, QuarantineAlone
       DEF Quarantined, OpLaunch, Serving, TuiLaunchInFlight, StartProcess, NewIdentity,
           agent, PastStop, AfterStop
  <2>5. CASE OpMark
    BY <2>5
       DEF Quarantined, OpMark, Serving, MarkSpawned, NewIdentity, agent, MarkFails,
           StopProcess, PromptFails
  <2> QED BY <1>6, <2>1, <2>2, <2>3, <2>4, <2>5 DEF Operation
<1>7. CASE Agent
  <2>1. CASE ChatSend
    BY <2>1 DEF Quarantined, ChatSend
  <2>2. CASE TerminalInput
    BY <2>2 DEF Quarantined, TerminalInput
  <2>3. CASE TurnDone
    BY <2>3 DEF Quarantined, TurnDone
  <2>4. CASE Dispatch
    BY <2>4 DEF Quarantined, Dispatch
  <2>5. CASE \E m \in Modes : ControllerExits(m)
    BY <2>5 DEF Quarantined, ControllerExits, StopProcess
  <2> QED BY <1>7, <2>1, <2>2, <2>3, <2>4, <2>5 DEF Agent
<1>8. CASE Crash
  BY <1>8 DEF Quarantined, Crash
<1>9. CASE Recovery
  <2>1. ASSUME NEW i \in Transitions, RecoverStopTarget(i) PROVE Quarantined
    BY <2>1
       DEF Quarantined, RecoverStopTarget, NeedsTargetStop, StopOwner, agent,
           StopProcess
  <2>2. ASSUME NEW i \in Transitions, RecoverQuarantine(i) PROVE Quarantined
    BY <2>2 DEF Quarantined, RecoverQuarantine, agent
  <2>3. ASSUME NEW i \in Transitions, RecoverEpoch(i) PROVE Quarantined
    BY <2>3 DEF Quarantined, RecoverEpoch, agent
  <2>4. ASSUME NEW i \in Transitions, RecoverRow(i) PROVE Quarantined
    BY <2>4 DEF Quarantined, RecoverRow, agent
  <2>5. CASE ServeAPI
    BY <2>5 DEF Quarantined, ServeAPI, agent
  <2> QED BY <1>9, <2>1, <2>2, <2>3, <2>4, <2>5 DEF Recovery
<1> QED BY <1>1, <1>2, <1>3, <1>4, <1>5, <1>6, <1>7, <1>8, <1>9 DEF Next, Work

\* While the shutdown of a target is unconfirmed nothing is started for the session,
\* for every number of transitions, crashes and failed writes.
THEOREM Quarantine == ASSUME Disciplined PROVE Spec => QuarantineHolds
<1>1. IInv /\ [Next]_vars => [Quarantined]_vars BY Disciplined, QuarantineStep
<1> QED BY <1>1, Inductive, PTL DEF Spec, QuarantineHolds, Quarantined

-----------------------------------------------------------------------------
(* The refinement.                                                         *)

\* A step of the handoff is a step of the abstract owner, or leaves it alone.
OwnerMoves == [Ownership!Next]_(Ownership!vars)

\* Every step maps to a step of ControllerOwnership or a stutter.
LEMMA OwnsStep ==
  ASSUME IInv, Disciplined, [Next]_vars
  PROVE  OwnerMoves
<1>1. CASE UNCHANGED vars
  BY <1>1 DEF OwnerMoves, Ownership!vars, vars, session, agent
<1>2. ASSUME NEW i \in Transitions, Request(i) PROVE OwnerMoves
  <2>1. CASE \E policy \in Policies : StartRead(i, policy)
    BY <2>1 DEF OwnerMoves, Ownership!vars, StartRead, session, agent
  <2>2. CASE StartCreate(i)
    BY <2>2 DEF OwnerMoves, Ownership!vars, StartCreate, session, agent
  <2>3. CASE StartArm(i)
    BY <2>3 DEF OwnerMoves, Ownership!vars, StartArm, session
  <2>4. CASE StartArmFailed(i)
    BY <2>4
       DEF OwnerMoves, Ownership!vars, StartArmFailed, Finish, MoveRefused, Exit,
           session, agent
  <2>5. CASE StartWorker(i)
    BY <2>5 DEF OwnerMoves, Ownership!vars, StartWorker, session, agent
  <2> QED BY <1>2, <2>1, <2>2, <2>3, <2>4, <2>5 DEF Request
<1>3. ASSUME NEW i \in Transitions, WorkerBeforeStop(i) PROVE OwnerMoves
  <2>1. CASE MovePreflighting(i)
    BY <2>1
       DEF OwnerMoves, Ownership!vars, MovePreflighting, Move, MoveRefused, session,
           agent
  <2>2. CASE CheckSession(i)
    BY <2>2 DEF OwnerMoves, Ownership!vars, CheckSession, CtxFails, Fail, session, agent
  <2>3. CASE MoveDraining(i)
    BY <2>3
       DEF OwnerMoves, Ownership!vars, MoveDraining, CtxFails, Fail, session, agent,
           Move, MoveRefused
  <2>4. CASE PrepareChat(i)
    BY <2>4 DEF OwnerMoves, Ownership!vars, PrepareChat, Fail, session
  <2>5. CASE QuiesceChat(i)
    BY <2>5 DEF OwnerMoves, Ownership!vars, QuiesceChat, Fail, session
  <2>6. CASE PrepareTui(i)
    BY <2>6 DEF OwnerMoves, Ownership!vars, PrepareTui, CtxFails, Fail, session, agent
  <2>7. CASE Reread(i)
    BY <2>7 DEF OwnerMoves, Ownership!vars, Reread, CtxFails, Fail, session, agent
  <2>8. CASE MoveSourceStopping(i)
    BY <2>8
       DEF OwnerMoves, Ownership!vars, MoveSourceStopping, Move, MoveRefused, session,
           agent
  <2>9. CASE AbortSource(i)
    BY <2>9 DEF OwnerMoves, Ownership!vars, AbortSource, session
  <2>10. CASE FinishBeforeStop(i)
    BY <2>10
       DEF OwnerMoves, Ownership!vars, FinishBeforeStop, Finish, MoveRefused, Exit,
           session, agent
  <2> QED
    BY <1>3, <2>1, <2>2, <2>3, <2>4, <2>5, <2>6, <2>7, <2>8, <2>9, <2>10
       DEF WorkerBeforeStop
<1>4. ASSUME NEW i \in Transitions, WorkerAfterStop(i) PROVE OwnerMoves
  <2>1. CASE StopSource(i)
    BY <2>1
       DEF OwnerMoves, Ownership!vars, StopSource, At, Serving, StopOwner, agent,
           StopProcess, Goto, session, Ownership!Next, Ownership!Launch, Ownership!Stop,
           IInv, OwnerInv, WhoRuns
  <2>2. CASE FinishRecovery(i)
    BY <2>2
       DEF OwnerMoves, Ownership!vars, FinishRecovery, Finish, MoveRefused, Exit,
           session, agent
  <2>3. CASE MoveSourceStopped(i)
    BY <2>3
       DEF OwnerMoves, Ownership!vars, MoveSourceStopped, Move, MoveRefused, session,
           agent
  <2>4. CASE CommitEpoch(i)
    BY <2>4
       DEF OwnerMoves, Ownership!vars, CommitEpoch, At, Serving, ChangeEpoch,
           NewIdentity, Goto, StoreFault, session, agent, Ownership!Next,
           Ownership!Launch, Ownership!Stop, Ownership!Switch, Modes, IInv, OwnerInv,
           WhoRuns, SourceStopped, TargetStopped, TypeOK, SessionType, Opposite
  <2>5. CASE MoveTargetStarting(i)
    BY <2>5
       DEF OwnerMoves, Ownership!vars, MoveTargetStarting, Move, MoveRefused, session,
           agent
  <2>6. CASE StartTarget(i)
    BY <2>6
       DEF OwnerMoves, Ownership!vars, StartTarget, At, Serving, Launch,
           TuiLaunchInFlight, StartProcess, Goto, NewIdentity, agent, session,
           Ownership!Next, Ownership!Launch, Ownership!Stop, IInv, OwnerInv, WhoRuns
  <2>7. CASE MarkTarget(i)
    BY <2>7
       DEF OwnerMoves, Ownership!vars, MarkTarget, At, Serving, Mark, MarkSpawned,
           NewIdentity, Goto, agent, MarkFails, session, StopProcess, PromptFails,
           Ownership!Next, Ownership!Launch, Ownership!Stop, IInv, OwnerInv, WhoRuns,
           Disciplined
  <2>8. CASE UnsettledTarget(i)
    BY <2>8
       DEF OwnerMoves, Ownership!vars, UnsettledTarget, At, Serving, StopOwner, agent,
           StopProcess, Goto, session, Ownership!Next, Ownership!Launch, Ownership!Stop,
           IInv, OwnerInv, WhoRuns
  <2>9. CASE RetryTarget(i)
    BY <2>9
       DEF OwnerMoves, Ownership!vars, RetryTarget, At, Serving, Launch,
           TuiLaunchInFlight, StartProcess, Goto, NewIdentity, agent, session,
           Ownership!Next, Ownership!Launch, Ownership!Stop, IInv, OwnerInv, WhoRuns
  <2>10. CASE RemarkTarget(i)
    BY <2>10
       DEF OwnerMoves, Ownership!vars, RemarkTarget, At, Serving, Mark, MarkSpawned,
           NewIdentity, Goto, agent, MarkFails, session, StopProcess, PromptFails,
           Ownership!Next, Ownership!Launch, Ownership!Stop, IInv, OwnerInv, WhoRuns,
           Disciplined
  <2>11. CASE RetainTarget(i)
    BY <2>11
       DEF OwnerMoves, Ownership!vars, RetainTarget, MoveRefused, Exit, session, agent
  <2>12. CASE MoveActivating(i)
    BY <2>12
       DEF OwnerMoves, Ownership!vars, MoveActivating, Move, MoveRefused, session, agent
  <2>13. CASE Complete(i)
    BY <2>13
       DEF OwnerMoves, Ownership!vars, Complete, Finish, MoveRefused, Exit, session,
           agent
  <2>14. CASE RollbackStopTarget(i)
    BY <2>14
       DEF OwnerMoves, Ownership!vars, RollbackStopTarget, At, Serving, StopOwner,
           agent, StopProcess, Goto, session, Ownership!Next, Ownership!Launch,
           Ownership!Stop, IInv, OwnerInv, WhoRuns
  <2>15. CASE RollbackEpoch(i)
    BY <2>15
       DEF OwnerMoves, Ownership!vars, RollbackEpoch, At, Serving, ChangeEpoch,
           NewIdentity, Goto, StoreFault, session, agent, Ownership!Next,
           Ownership!Launch, Ownership!Stop, Ownership!Switch, Modes, IInv, OwnerInv,
           WhoRuns, SourceStopped, TargetStopped, TypeOK, SessionType, Opposite
  <2>16. CASE RollbackCleanup(i)
    BY <2>16
       DEF OwnerMoves, Ownership!vars, RollbackCleanup, At, Serving, Goto, agent,
           StopProcess, session, Ownership!Next, Ownership!Launch, Ownership!Stop, IInv,
           OwnerInv, WhoRuns
  <2>17. CASE RollbackStart(i)
    BY <2>17
       DEF OwnerMoves, Ownership!vars, RollbackStart, At, Serving, Launch,
           TuiLaunchInFlight, StartProcess, Goto, NewIdentity, agent, session,
           Ownership!Next, Ownership!Launch, Ownership!Stop, IInv, OwnerInv, WhoRuns
  <2>18. CASE RollbackMark(i)
    BY <2>18
       DEF OwnerMoves, Ownership!vars, RollbackMark, At, Serving, Mark, MarkSpawned,
           NewIdentity, Goto, agent, MarkFails, session, StopProcess, PromptFails,
           Ownership!Next, Ownership!Launch, Ownership!Stop, IInv, OwnerInv, WhoRuns,
           Disciplined
  <2>19. CASE RollbackFinish(i)
    BY <2>19
       DEF OwnerMoves, Ownership!vars, RollbackFinish, Finish, MoveRefused, Exit,
           session, agent
  <2> QED
    BY <1>4, <2>1, <2>2, <2>3, <2>4, <2>5, <2>6, <2>7, <2>8, <2>9, <2>10, <2>11, <2>12,
       <2>13, <2>14, <2>15, <2>16, <2>17, <2>18, <2>19
       DEF WorkerAfterStop
<1>5. CASE CancelRequest
  <2>1. ASSUME NEW i \in Transitions, CancelRead(i) PROVE OwnerMoves
    BY <2>1 DEF OwnerMoves, Ownership!vars, CancelRead, session, agent
  <2>2. CASE CancelRow
    BY <2>2 DEF OwnerMoves, Ownership!vars, CancelRow, session, agent
  <2>3. CASE CancelSignal
    BY <2>3 DEF OwnerMoves, Ownership!vars, CancelSignal, session, agent
  <2> QED BY <1>5, <2>1, <2>2, <2>3 DEF CancelRequest
<1>6. CASE Operation
  <2>1. CASE \E kind \in {"kill", "exit", "resume"} : OpBegin(kind)
    BY <2>1 DEF OwnerMoves, Ownership!vars, OpBegin, session, agent
  <2>2. CASE OpStop
    BY <2>2
       DEF OwnerMoves, Ownership!vars, OpStop, Serving, StopOwner, agent, StopProcess,
           session, Ownership!Next, Ownership!Launch, Ownership!Stop, IInv, OwnerInv,
           WhoRuns
  <2>3. CASE OpTerminate
    BY <2>3 DEF OwnerMoves, Ownership!vars, OpTerminate, agent
  <2>4. CASE OpLaunch
    BY <2>4
       DEF OwnerMoves, Ownership!vars, OpLaunch, Serving, TuiLaunchInFlight,
           StartProcess, NewIdentity, agent, session, Ownership!Next, Ownership!Launch,
           Ownership!Stop, Ownership!Switch, Modes, IInv, OwnerInv, WhoRuns, WhoOwns,
           SourceOwns, TargetOwns, SourceStopped, TargetStopped, TypeOK, SessionType,
           OpsAlone, Source, Target, Opposite
  <2>5. CASE OpMark
    BY <2>5
       DEF OwnerMoves, Ownership!vars, OpMark, Serving, MarkSpawned, NewIdentity, agent,
           MarkFails, session, StopProcess, PromptFails, Ownership!Next,
           Ownership!Launch, Ownership!Stop, IInv, OwnerInv, WhoRuns
  <2> QED BY <1>6, <2>1, <2>2, <2>3, <2>4, <2>5 DEF Operation
<1>7. CASE Agent
  <2>1. CASE ChatSend
    BY <2>1 DEF OwnerMoves, Ownership!vars, ChatSend, session
  <2>2. CASE TerminalInput
    BY <2>2 DEF OwnerMoves, Ownership!vars, TerminalInput, session
  <2>3. CASE TurnDone
    BY <2>3 DEF OwnerMoves, Ownership!vars, TurnDone, session
  <2>4. CASE Dispatch
    BY <2>4 DEF OwnerMoves, Ownership!vars, Dispatch, session
  <2>5. CASE \E m \in Modes : ControllerExits(m)
    BY <2>5
       DEF OwnerMoves, Ownership!vars, ControllerExits, StopProcess, session,
           Ownership!Next, Ownership!Launch, Ownership!Stop, IInv, OwnerInv, WhoRuns
  <2> QED BY <1>7, <2>1, <2>2, <2>3, <2>4, <2>5 DEF Agent
<1>8. CASE Crash
  BY <1>8
     DEF OwnerMoves, Ownership!vars, Crash, session, Ownership!Next, Ownership!Launch,
         Ownership!Stop, IInv, OwnerInv, WhoRuns
<1>9. CASE Recovery
  <2>1. ASSUME NEW i \in Transitions, RecoverStopTarget(i) PROVE OwnerMoves
    BY <2>1
       DEF OwnerMoves, Ownership!vars, RecoverStopTarget, NeedsTargetStop, StopOwner,
           agent, StopProcess, session, Ownership!Next, Ownership!Launch,
           Ownership!Stop, IInv, OwnerInv, WhoRuns
  <2>2. ASSUME NEW i \in Transitions, RecoverQuarantine(i) PROVE OwnerMoves
    BY <2>2
       DEF OwnerMoves, Ownership!vars, RecoverQuarantine, NeedsTargetStop, session,
           agent
  <2>3. ASSUME NEW i \in Transitions, RecoverEpoch(i) PROVE OwnerMoves
    BY <2>3
       DEF OwnerMoves, Ownership!vars, RecoverEpoch, ChangeEpoch, NewIdentity, agent,
           Ownership!Next, Ownership!Launch, Ownership!Stop, Ownership!Switch, Modes,
           IInv, OwnerInv, WhoRuns, SourceStopped, TargetStopped, TypeOK, SessionType,
           Opposite
  <2>4. ASSUME NEW i \in Transitions, RecoverRow(i) PROVE OwnerMoves
    BY <2>4 DEF OwnerMoves, Ownership!vars, RecoverRow, NeedsTargetStop, session, agent
  <2>5. CASE ServeAPI
    BY <2>5 DEF OwnerMoves, Ownership!vars, ServeAPI, session, agent
  <2> QED BY <1>9, <2>1, <2>2, <2>3, <2>4, <2>5 DEF Recovery
<1> QED BY <1>1, <1>2, <1>3, <1>4, <1>5, <1>6, <1>7, <1>8, <1>9 DEF Next, Work

\* The handoff implements ControllerOwnership: it starts only the owner's controller,
\* and ownership moves only while none runs.
THEOREM Refinement == ASSUME Disciplined PROVE Spec => ImplementsOwnership
<1>1. Init => Ownership!Init BY DEF Init, Ownership!Init
<1>2. IInv /\ [Next]_vars => [Ownership!Next]_(Ownership!vars)
  BY Disciplined, OwnsStep DEF OwnerMoves
<1> QED BY <1>1, <1>2, Inductive, PTL DEF Spec, ImplementsOwnership, Ownership!Spec

=============================================================================

----------------------------- MODULE SessionOps -----------------------------
(***************************************************************************)
(* Who may touch a session: pane writes hold input leases, mutations hold  *)
(* the session's exclusive operation, and the boot pass that recovers an   *)
(* interrupted handoff holds, or leaves behind, a fence of its own.        *)
(*                                                                         *)
(* Code: session_manager/session_input.go, recoverInterfaceTransitions of  *)
(* session_manager/interface_transition.go, and the startup passes of      *)
(* session_manager/manager.go.  Every state is of one daemon process: what *)
(* an earlier one left behind is only the rows, and Init takes them all.   *)
(***************************************************************************)
EXTENDS Naturals

CONSTANTS
  Sessions,
  Callers,       \* calls that need the exclusive operation of one session
  Reconciler,    \* the startup pass, which reserves every free session
  Writers,       \* pane writes: the guard's sends and terminal keystrokes
  NoSession,
  MaxFaults      \* bound: store errors and expired contexts of a recovery

ASSUME OpsAssumption ==
  Reconciler \notin Callers /\ NoSession \notin Sessions /\ MaxFaults \in Nat

VARIABLES
  op,         \* Manager.agentOperations, by kind
  leases,     \* Manager.inputLeases: the writes admitted and not yet released
  deferred,   \* Manager.deferredInterfaceRecovery: its sessions
  row,        \* the handoff row of a session
  holder,     \* where a caller is, and the sessions it reserved
  workers,    \* Manager.interfaceRecoveryWorkers
  pass,       \* the recovery that holds Manager.interfaceRecoveryMu
  boot,       \* ReconcileStartupSafety has yet to run, runs, or has ended
  closed,     \* Manager.interfaceRecoveryWorkersClosed
  faults

locks == <<op, leases, deferred>>
vars  == <<locks, row, holder, workers, pass, boot, closed, faults>>

Holders == Callers \cup {Reconciler}
Kinds   == {"none", "exclusive", "reconcile", "recovery"}

\* An earlier process left the handoff with its source untouched, or past that;
\* "new" is one that this process started.
Left   == {"intact", "stopping"}
Rows   == {"none", "cancelled", "new"} \cup Left
NoPass == [by |-> "none", of |-> NoSession, todo |-> {}, pc |-> "next",
           at |-> NoSession, saw |-> [s \in Sessions |-> "none"]]

TypeOK ==
  /\ op \in [Sessions -> Kinds] /\ leases \in [Sessions -> SUBSET Writers]
  /\ deferred \subseteq Sessions /\ workers \subseteq Sessions
  /\ row \in [Sessions -> Rows]
  /\ holder \in [Holders -> [pc: {"idle", "draining", "working", "leaving", "done"},
                             on: SUBSET Sessions]]
  /\ pass \in [by: {"none", "boot", "worker"}, of: Sessions \cup {NoSession},
               todo: SUBSET Sessions, pc: {"next", "drain", "stop", "advance"},
               at: Sessions \cup {NoSession}, saw: [Sessions -> Rows]]
  /\ boot \in {"start", "sweep", "serving", "failed"}
  /\ closed \in BOOLEAN /\ faults \in 0..MaxFaults

Init ==
  /\ op = [s \in Sessions |-> "none"] /\ leases = [s \in Sessions |-> {}]
  /\ deferred = {} /\ workers = {} /\ pass = NoPass
  /\ row \in [Sessions -> {"none"} \cup Left]
  /\ holder = [h \in Holders |-> [pc |-> "idle", on |-> {}]]
  /\ boot = "start" /\ closed = FALSE /\ faults = 0

Fault == faults < MaxFaults /\ faults' = faults + 1

\* agentOperationActiveLocked.
Busy(s) == op[s] # "none" \/ s \in deferred

-----------------------------------------------------------------------------
(* Input leases.                                                            *)

\* AcquireSessionInput; a refusal changes nothing.
Acquire(w, s) ==
  /\ ~Busy(s) /\ \A t \in Sessions : w \notin leases[t]
  /\ leases' = [leases EXCEPT ![s] = @ \cup {w}]
  /\ UNCHANGED <<op, deferred, row, holder, workers, pass, boot, closed, faults>>

Release(w, s) ==
  /\ w \in leases[s]
  /\ leases' = [leases EXCEPT ![s] = @ \ {w}]
  /\ UNCHANGED <<op, deferred, row, holder, workers, pass, boot, closed, faults>>

-----------------------------------------------------------------------------
(* Exclusive operations.                                                    *)

\* A caller with nothing left returns; the startup pass runs once.
Holds(h, S, at) ==
  IF S # {} THEN [pc |-> at, on |-> S]
            ELSE [pc |-> IF h = Reconciler THEN "done" ELSE "idle", on |-> {}]

Reserve(h, S, kind) ==
  /\ op' = [s \in Sessions |-> IF s \in S THEN kind ELSE op[s]]
  /\ holder' = [holder EXCEPT ![h] = Holds(h, S, "draining")]
  /\ UNCHANGED <<leases, deferred, row, workers, pass, boot, closed, faults>>

\* beginAgentOperation: admission closes before the writes drain.
Begin(c, s) ==
  /\ holder[c].pc = "idle" /\ ~Busy(s)
  /\ Reserve(c, {s}, "exclusive")

\* beginAgentOperations of reconcileLivePass, once the API is served: busy
\* sessions are skipped.
BeginAll ==
  /\ boot = "serving" /\ holder[Reconciler].pc = "idle"
  /\ Reserve(Reconciler, {s \in Sessions : ~Busy(s)}, "reconcile")

\* Faulty: a batch waits for one of its sessions only.
DrainedAny(h) ==
  /\ holder[h].pc = "draining"
  /\ \E s \in holder[h].on : leases[s] = {}
  /\ holder' = [holder EXCEPT ![h].pc = "working"]
  /\ UNCHANGED <<locks, row, workers, pass, boot, closed, faults>>

Drained(h) ==
  /\ holder[h].pc = "draining" /\ \A s \in holder[h].on : leases[s] = {}
  /\ holder' = [holder EXCEPT ![h].pc = "working"]
  /\ UNCHANGED <<locks, row, workers, pass, boot, closed, faults>>

\* resumeDeferredInterfaceRecoveryLocked, with beginInterfaceRecoveryWorker.
Admit(S) == workers' = IF closed THEN workers ELSE workers \cup (S \cap deferred)

\* endAgentOperation of the sessions in S, if the operation is still of that kind.
Free(S, kind) ==
  op' = [s \in Sessions |-> IF s \in S /\ op[s] = kind THEN "none" ELSE op[s]]

KindOf(h) == IF h = Reconciler THEN "reconcile" ELSE "exclusive"

\* Faulty: an operation that ends takes the deferred fence with it.
LeaveUnfenced(h, s) ==
  /\ s \in holder[h].on /\ Free({s}, KindOf(h)) /\ Admit({s})
  /\ deferred' = deferred \ {s}
  /\ holder' = [holder EXCEPT ![h] = Holds(h, @.on \ {s}, @.pc)]
  /\ UNCHANGED <<leases, row, pass, boot, closed, faults>>

\* The deferred fence survives the operation that caused it.
Leave(h, s) ==
  /\ s \in holder[h].on /\ Free({s}, KindOf(h)) /\ Admit({s})
  /\ holder' = [holder EXCEPT ![h] = Holds(h, @.on \ {s}, @.pc)]
  /\ UNCHANGED <<leases, deferred, row, pass, boot, closed, faults>>

\* The context of a caller that waits for the writes expires: it gives all back.
Abandon(h) ==
  /\ holder[h].pc = "draining"
  /\ holder' = [holder EXCEPT ![h].pc = "leaving"]
  /\ UNCHANGED <<locks, row, workers, pass, boot, closed, faults>>

End(h, s) == holder[h].pc \in {"working", "leaving"} /\ Leave(h, s)

-----------------------------------------------------------------------------
(* Handoffs of this process: neither the request nor the cancellation looks *)
(* at the operation fence.                                                  *)

StartHandoff(s) ==
  /\ boot = "serving" /\ row[s] \in {"none", "cancelled"}
  /\ row' = [row EXCEPT ![s] = "new"]
  /\ UNCHANGED <<locks, holder, workers, pass, boot, closed, faults>>

EndHandoff(s) ==
  /\ row[s] = "new" /\ row' = [row EXCEPT ![s] = "none"]
  /\ UNCHANGED <<locks, holder, workers, pass, boot, closed, faults>>

CancelHandoff(s) ==
  /\ boot = "serving" /\ row[s] = "intact"
  /\ row' = [row EXCEPT ![s] = "cancelled"]
  /\ UNCHANGED <<locks, holder, workers, pass, boot, closed, faults>>

-----------------------------------------------------------------------------
(* recoverInterfaceTransitions, under its mutex: swept at boot, or for the  *)
(* exact row a deferred worker was left.                                    *)

Sweep ==
  /\ boot = "start" /\ boot' = "sweep"
  /\ pass' = [NoPass EXCEPT !.by = "boot", !.saw = row,
                             !.todo = {s \in Sessions : row[s] \in Left}]
  /\ UNCHANGED <<locks, row, holder, workers, closed, faults>>

\* Faulty: a deferred worker recovers whatever handoff is active.
WorkerReadsAny(s) ==
  /\ s \in workers /\ pass = NoPass
  /\ IF row[s] \in Left \cup {"new"}
     THEN /\ pass' = [NoPass EXCEPT !.by = "worker", !.of = s, !.todo = {s}, !.saw = row]
          /\ UNCHANGED <<deferred, workers>>
     ELSE deferred' = deferred \ {s} /\ workers' = workers \ {s} /\ UNCHANGED pass
  /\ UNCHANGED <<op, leases, row, holder, boot, closed, faults>>

\* Faulty: a worker that finds its row settled keeps the fence.
WorkerReadsKeeps(s) ==
  /\ s \in workers /\ pass = NoPass
  /\ IF row[s] \in Left
     THEN /\ pass' = [NoPass EXCEPT !.by = "worker", !.of = s, !.todo = {s}, !.saw = row]
          /\ UNCHANGED workers
     ELSE workers' = workers \ {s} /\ UNCHANGED pass
  /\ UNCHANGED <<locks, row, holder, boot, closed, faults>>

\* A worker that finds its row settled lifts the fence; one that cannot read it
\* leaves the fence to the next boot.
WorkerReads(s) ==
  /\ s \in workers /\ pass = NoPass
  /\ \/ /\ row[s] \in Left /\ UNCHANGED <<deferred, workers, faults>>
        /\ pass' = [NoPass EXCEPT !.by = "worker", !.of = s, !.todo = {s}, !.saw = row]
     \/ /\ row[s] \notin Left /\ UNCHANGED <<pass, faults>>
        /\ deferred' = deferred \ {s} /\ workers' = workers \ {s}
     \/ Fault /\ workers' = workers \ {s} /\ UNCHANGED <<deferred, pass>>
  /\ UNCHANGED <<op, leases, row, holder, boot, closed>>

\* A foreign operation keeps the session and leaves an obligation behind;
\* otherwise recovery takes the fence over.
Fence(s) ==
  /\ pass.by # "none" /\ pass.pc = "next" /\ s \in pass.todo
  /\ IF op[s] \in {"none", "recovery"}
     THEN /\ op' = [op EXCEPT ![s] = "recovery"] /\ deferred' = deferred \ {s}
          /\ pass' = [pass EXCEPT !.todo = @ \ {s}, !.pc = "drain", !.at = s]
     ELSE /\ deferred' = deferred \cup {s} /\ UNCHANGED op
          /\ pass' = [pass EXCEPT !.todo = @ \ {s}]
  /\ UNCHANGED <<leases, row, holder, workers, boot, closed, faults>>

PassAt(label) == pass.by # "none" /\ pass.pc = label

PassDrained ==
  /\ PassAt("drain") /\ leases[pass.at] = {}
  /\ pass' = [pass EXCEPT !.pc = IF pass.saw[pass.at] = "intact"
                                THEN "advance" ELSE "stop"]
  /\ UNCHANGED <<locks, row, holder, workers, boot, closed, faults>>

\* The target is confirmed stopped (or owns nothing), or stays quarantined: its
\* row active and its fence up.
PassStop ==
  /\ PassAt("stop")
  /\ \/ pass' = [pass EXCEPT !.pc = "advance"]
     \/ pass' = [pass EXCEPT !.pc = "next", !.at = NoSession]
  /\ UNCHANGED <<locks, row, holder, workers, boot, closed, faults>>

\* The CAS on the phase that was read.  Only a cancellation of this very handoff
\* can have won it, whatever was started since.
PassAdvance ==
  /\ PassAt("advance")
  /\ row' = IF row[pass.at] # pass.saw[pass.at] THEN row
            ELSE [row EXCEPT ![pass.at] = "none"]
  /\ Free({pass.at}, "recovery") /\ Admit({pass.at})
  /\ pass' = [pass EXCEPT !.pc = "next", !.at = NoSession]
  /\ UNCHANGED <<leases, deferred, holder, boot, closed, faults>>

\* The pass is over.  A failed boot pass ends the daemon before it serves.
PassOver(then) ==
  /\ pass' = NoPass
  /\ IF pass.by = "boot" THEN boot' = then /\ UNCHANGED workers
                         ELSE workers' = workers \ {pass.of} /\ UNCHANGED boot
  /\ UNCHANGED <<locks, row, holder, closed>>

PassReturns ==
  PassAt("next") /\ pass.todo = {} /\ PassOver("serving") /\ UNCHANGED faults

\* A store error or an expired context: whatever fence is up stays up.
PassFails == pass.by # "none" /\ Fault /\ PassOver("failed")

\* WaitInterfaceRecoveryWorkers closes admission and then waits.
CloseAdmission ==
  /\ boot = "serving" /\ ~closed /\ closed' = TRUE
  /\ UNCHANGED <<locks, row, holder, workers, pass, boot, faults>>

-----------------------------------------------------------------------------

Write(s)   == \E w \in Writers : Acquire(w, s) \/ Release(w, s)
Holding(h) == Drained(h) \/ Abandon(h) \/ \E s \in Sessions : End(h, s)
Handoff(s) == StartHandoff(s) \/ EndHandoff(s) \/ CancelHandoff(s)
Recover    == \/ Sweep \/ PassDrained \/ PassStop \/ PassAdvance \/ PassReturns \/ PassFails
              \/ \E s \in Sessions : WorkerReads(s) \/ Fence(s)

Next ==
  \/ \E s \in Sessions : Write(s) \/ Handoff(s) \/ \E c \in Callers : Begin(c, s)
  \/ BeginAll \/ (\E h \in Holders : Holding(h)) \/ Recover \/ CloseAdmission

Spec == Init /\ [][Next]_vars

\* A write returns, an operation ends, and the recovery goroutines are scheduled.
Fairness ==
  /\ \A s \in Sessions, w \in Writers : WF_vars(Release(w, s))
  /\ \A h \in Holders : WF_vars(Holding(h))
  /\ WF_vars(Recover)

FairSpec == Spec /\ Fairness

-----------------------------------------------------------------------------
(* Correctness.                                                             *)

\* An operation at work, or a recovery past its drain, has the session to itself: no
\* admitted write is still under way and nobody else works on it.
AtWork(s) == {h \in Holders : holder[h].pc = "working" /\ s \in holder[h].on}
                \cup {r \in {"recovery"} : pass.pc \in {"stop", "advance"} /\ pass.at = s}

Exclusive ==
  \A s \in Sessions : /\ AtWork(s) # {} => leases[s] = {}
                      /\ \A a, b \in AtWork(s) : a = b

\* Once the API is served, a session whose interrupted handoff is not settled takes
\* no new write and no new operation, however its recovery was put off or failed.
InterruptedStaysFenced ==
  [][\A s \in Sessions : boot = "serving" /\ row[s] \in Left =>
       /\ leases'[s] \subseteq leases[s]
       /\ \A h \in Holders : s \in holder'[h].on => s \in holder[h].on]_vars

\* A recovery, swept or deferred, never settles a handoff that this process started.
OnlyInterruptedSettled ==
  [][\A s \in Sessions : pass.at = s /\ row[s] = "new" /\ pass' # pass
       => row'[s] = "new"]_vars

\* A fence never outlives what it is for: input reopens again and again unless the
\* session is quarantined, the pass failed, or the daemon is shutting down.
Quarantined(s) == op[s] = "recovery" /\ row[s] = "stopping"

InputReopens ==
  \A s \in Sessions :
    []<>(~Busy(s) \/ Quarantined(s) \/ closed \/ boot = "failed" \/ faults > 0)
=============================================================================

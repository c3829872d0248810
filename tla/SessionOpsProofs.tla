-------------------------- MODULE SessionOpsProofs --------------------------
(***************************************************************************)
(* What the fences of SessionOps guarantee for any sessions, callers,      *)
(* writes and failures.  LockInv is why an operation is alone: whoever     *)
(* holds a session has closed its admission first, and then waited.        *)
(* FenceInv is why an interrupted handoff stays fenced: the boot pass has  *)
(* it still to do, recovers it, or has left an obligation behind.          *)
(***************************************************************************)
EXTENDS SessionOps, TLAPS

Passes == [by: {"none", "boot", "worker"}, of: Sessions \cup {NoSession},
           todo: SUBSET Sessions, pc: {"next", "drain", "stop", "advance"},
           at: Sessions \cup {NoSession}, saw: [Sessions -> Rows]]
Places == [pc: {"idle", "draining", "working", "leaving", "done"}, on: SUBSET Sessions]

-----------------------------------------------------------------------------
(* Type correctness.                                                        *)

LEMMA NoPassType == NoPass \in Passes
BY DEF NoPass, Passes, Rows

LEMMA TypeInit == Init => TypeOK
<1> SUFFICES ASSUME Init PROVE TypeOK
  OBVIOUS
<1>1. op \in [Sessions -> Kinds] /\ row \in [Sessions -> Rows] /\ leases \in [Sessions -> SUBSET Writers]
  BY DEF Init, Kinds, Rows, Left
<1>2. pass \in Passes
  BY NoPassType DEF Init
<1>3. holder \in [Holders -> Places]
  BY DEF Init, Places
<1>4. /\ deferred \in SUBSET Sessions /\ workers \in SUBSET Sessions
      /\ boot \in {"start", "sweep", "serving", "failed"} /\ closed \in BOOLEAN
      /\ faults \in 0..MaxFaults
  <2>1. deferred = {} /\ workers = {} /\ boot = "start" /\ closed = FALSE /\ faults = 0
    BY DEF Init
  <2>2. faults \in 0..MaxFaults
    BY <2>1, OpsAssumption DEF OpsAssumption
  <2> QED BY <2>1, <2>2
<1> QED BY <1>1, <1>2, <1>3, <1>4 DEF TypeOK, Passes, Places

LEMMA ReserveType ==
  ASSUME TypeOK, NEW h \in Holders, NEW S \in SUBSET Sessions, NEW kind \in Kinds,
         Reserve(h, S, kind)
  PROVE  TypeOK'
<1>1. op' \in [Sessions -> Kinds]
  BY DEF TypeOK, Reserve
<1>2. holder' \in [Holders -> Places]
  <2>1. Holds(h, S, "draining") \in Places
    BY DEF Holds, Places
  <2> QED BY <2>1 DEF TypeOK, Reserve, Places
<1> QED BY <1>1, <1>2 DEF TypeOK, Reserve, Places

LEMMA EndType ==
  ASSUME TypeOK, NEW h \in Holders, NEW s \in Sessions, End(h, s)
  PROVE  TypeOK'
<1>1. op' \in [Sessions -> Kinds] /\ workers' \in SUBSET Sessions
  BY DEF TypeOK, End, Leave, Free, Admit, Kinds
<1>2. holder' \in [Holders -> Places]
  <2>1. Holds(h, holder[h].on \ {s}, holder[h].pc) \in Places
    BY DEF Holds, Places, TypeOK
  <2>2. holder' = [holder EXCEPT ![h] = Holds(h, holder[h].on \ {s}, holder[h].pc)]
    BY DEF End, Leave
  <2> QED BY <2>1, <2>2 DEF TypeOK, Places
<1> QED BY <1>1, <1>2 DEF TypeOK, End, Leave, Places

LEMMA HoldingType ==
  ASSUME TypeOK, NEW h \in Holders, Holding(h)
  PROVE  TypeOK'
<1>1. CASE Drained(h)
  BY <1>1 DEF TypeOK, Drained, locks
<1>2. CASE Abandon(h)
  BY <1>2 DEF TypeOK, Abandon, locks
<1> QED BY <1>1, <1>2, EndType DEF Holding

LEMMA FencedPass ==
  ASSUME pass \in Passes, NEW s \in Sessions
  PROVE  /\ [pass EXCEPT !.todo = @ \ {s}, !.pc = "drain", !.at = s] \in Passes
         /\ [pass EXCEPT !.todo = @ \ {s}] \in Passes
<1>1. [pass EXCEPT !.todo = @ \ {s}, !.pc = "drain", !.at = s] \in Passes
  BY DEF Passes
<1>2. [pass EXCEPT !.todo = @ \ {s}] \in Passes
  BY DEF Passes
<1> QED BY <1>1, <1>2

LEMMA RecoverType ==
  ASSUME TypeOK, Recover
  PROVE  TypeOK'
<1> USE DEF TypeOK, locks
<1>1. CASE Sweep
  <2>1. pass' \in Passes
    BY <1>1, NoPassType DEF Sweep, Passes, NoPass
  <2> QED BY <1>1, <2>1 DEF Sweep, Passes
<1>2. ASSUME NEW s \in Sessions, WorkerReads(s) PROVE TypeOK'
  <2>1. pass' \in Passes
    <3>1. \/ pass' = [NoPass EXCEPT !.by = "worker", !.of = s, !.todo = {s}, !.saw = row]
          \/ pass' = pass
      BY <1>2 DEF WorkerReads
    <3>2. [NoPass EXCEPT !.by = "worker", !.of = s, !.todo = {s}, !.saw = row] \in Passes
      BY DEF NoPass, Passes
    <3> QED BY <3>1, <3>2 DEF Passes
  <2> QED BY <1>2, <2>1, OpsAssumption DEF OpsAssumption, WorkerReads, Passes, Fault
<1>3. ASSUME NEW s \in Sessions, Fence(s) PROVE TypeOK'
  <2>1. pass' \in Passes
    <3> DEFINE taken == [pass EXCEPT !.todo = @ \ {s}, !.pc = "drain", !.at = s]
               left  == [pass EXCEPT !.todo = @ \ {s}]
    <3>1. taken \in Passes /\ left \in Passes
      BY FencedPass DEF Passes
    <3>2. pass' \in {taken, left}
      BY <1>3 DEF Fence
    <3> HIDE DEF taken, left
    <3> QED BY <3>1, <3>2
  <2>2. op' \in [Sessions -> Kinds]
    BY <1>3 DEF Fence, Kinds
  <2> QED BY <1>3, <2>1, <2>2 DEF Fence, Passes
<1>4. CASE PassDrained
  BY <1>4 DEF PassDrained, PassAt
<1>5. CASE PassStop
  BY <1>5 DEF PassStop, PassAt
<1>6. CASE PassAdvance
  <2>1. op' \in [Sessions -> Kinds] /\ workers' \in SUBSET Sessions
    BY <1>6 DEF PassAdvance, Free, Admit, Kinds
  <2>2. row' \in [Sessions -> Rows]
    BY <1>6 DEF PassAdvance, Rows
  <2>3. pass' \in Passes
    BY <1>6 DEF PassAdvance, Passes
  <2> QED BY <1>6, <2>1, <2>2, <2>3 DEF PassAdvance, Passes
<1>7. ASSUME NEW then \in {"serving", "failed"}, PassOver(then), faults' \in 0..MaxFaults
      PROVE  TypeOK'
  BY <1>7, NoPassType DEF PassOver, Passes
<1>8. CASE PassReturns
  BY <1>7, <1>8 DEF PassReturns
<1>9. CASE PassFails
  BY <1>7, <1>9, OpsAssumption DEF OpsAssumption, PassFails, Fault
<1> QED BY <1>1, <1>2, <1>3, <1>4, <1>5, <1>6, <1>8, <1>9 DEF Recover

LEMMA TypeStep == TypeOK /\ [Next]_vars => TypeOK'
<1> SUFFICES ASSUME TypeOK, [Next]_vars PROVE TypeOK'
  OBVIOUS
<1>1. ASSUME NEW s \in Sessions, Write(s) PROVE TypeOK'
  BY <1>1 DEF TypeOK, Write, Acquire, Release
<1>2. ASSUME NEW s \in Sessions, Handoff(s) PROVE TypeOK'
  BY <1>2 DEF TypeOK, Handoff, StartHandoff, EndHandoff, CancelHandoff, Rows, locks
<1>3. ASSUME NEW s \in Sessions, NEW c \in Callers, Begin(c, s) PROVE TypeOK'
  BY <1>3, ReserveType DEF Begin, Holders, Kinds
<1>4. CASE BeginAll
  BY <1>4, ReserveType DEF BeginAll, Holders, Kinds
<1>5. CASE CloseAdmission
  BY <1>5 DEF TypeOK, CloseAdmission, locks
<1>6. CASE UNCHANGED vars
  BY <1>6 DEF TypeOK, vars, locks
<1> QED BY <1>1, <1>2, <1>3, <1>4, <1>5, <1>6, HoldingType, RecoverType DEF Next

\* Every reachable state is well typed, for any sessions, callers, writers and faults.
THEOREM OpsTypeCorrect == Spec => []TypeOK
<1> QED BY TypeInit, TypeStep, PTL DEF Spec

-----------------------------------------------------------------------------
(* An operation at work is alone.                                           *)

\* A holder has its kind of operation on each of its sessions, and shares none of them.
HoldersOwn ==
  \A h \in Holders, s \in Sessions : s \in holder[h].on =>
    /\ op[s] = KindOf(h)
    /\ \A g \in Holders : s \in holder[g].on => g = h

\* A recovery past its fence has the operation of the session.
PassOwns ==
  pass.pc # "next" => pass.by # "none" /\ pass.at \in Sessions /\ op[pass.at] = "recovery"

\* Whoever is at work has waited for the writes.
WritesDrained ==
  /\ \A h \in Holders : holder[h].pc = "working" => \A s \in holder[h].on : leases[s] = {}
  /\ pass.pc \in {"stop", "advance"} => leases[pass.at] = {}

LockInv == HoldersOwn /\ PassOwns /\ WritesDrained

LEMMA KindsDiffer == \A h \in Holders : KindOf(h) \notin {"none", "recovery"}
BY DEF KindOf

LEMMA LockInit == Init => LockInv
BY DEF Init, LockInv, HoldersOwn, PassOwns, WritesDrained, NoPass

\* Only free sessions are reserved, so nobody loses what it has.
LEMMA ReserveLock ==
  ASSUME TypeOK, LockInv, NEW h \in Holders, NEW S \in SUBSET Sessions,
         \A s \in S : ~Busy(s), Reserve(h, S, KindOf(h))
  PROVE  LockInv'
<1>1. \A s \in S : op[s] = "none"
  BY DEF Busy
<1>2. \A g \in Holders : S \cap holder[g].on = {}
  BY <1>1, KindsDiffer DEF LockInv, HoldersOwn, TypeOK
<1>3. holder' = [holder EXCEPT ![h] = Holds(h, S, "draining")]
  BY DEF Reserve
<1>4. Holds(h, S, "draining").on = S /\ Holds(h, S, "draining").pc # "working"
  BY DEF Holds
<1>5. \A g \in Holders : holder'[g] = IF g = h THEN Holds(h, S, "draining") ELSE holder[g]
  BY <1>3 DEF TypeOK
<1>6. HoldersOwn'
  BY <1>1, <1>2, <1>4, <1>5 DEF LockInv, HoldersOwn, Reserve, TypeOK, KindOf
<1>7. PassOwns'
  BY <1>1 DEF LockInv, PassOwns, Reserve, TypeOK
<1>8. WritesDrained'
  BY <1>4, <1>5 DEF LockInv, WritesDrained, Reserve, TypeOK
<1> QED BY <1>6, <1>7, <1>8 DEF LockInv

LEMMA EndLock ==
  ASSUME TypeOK, LockInv, NEW h \in Holders, NEW s \in Sessions, End(h, s)
  PROVE  LockInv'
<1> DEFINE to == Holds(h, holder[h].on \ {s}, holder[h].pc)
<1>1. s \in holder[h].on /\ op[s] = KindOf(h)
  BY DEF End, Leave, LockInv, HoldersOwn
<1>2. to.on = holder[h].on \ {s} /\ (to.pc = "working" => holder[h].pc = "working")
  BY DEF Holds
<1>3. \A g \in Holders : holder'[g] = IF g = h THEN to ELSE holder[g]
  BY DEF End, Leave, TypeOK
<1>4. \A t \in Sessions : op'[t] = IF t = s THEN "none" ELSE op[t]
  BY <1>1 DEF End, Leave, Free, TypeOK
<1>5. pass' = pass /\ leases' = leases
  BY DEF End, Leave
<1>6. HoldersOwn'
  BY <1>1, <1>2, <1>3, <1>4 DEF LockInv, HoldersOwn, KindOf
<1>7. PassOwns'
  BY <1>1, <1>4, <1>5, KindsDiffer DEF LockInv, PassOwns
<1>8. WritesDrained'
  BY <1>2, <1>3, <1>5 DEF LockInv, WritesDrained
<1> QED BY <1>6, <1>7, <1>8 DEF LockInv

LEMMA HoldingLock ==
  ASSUME TypeOK, LockInv, NEW h \in Holders, Holding(h)
  PROVE  LockInv'
<1>1. CASE Drained(h)
  BY <1>1 DEF TypeOK, LockInv, HoldersOwn, PassOwns, WritesDrained, Drained, locks, KindOf
<1>2. CASE Abandon(h)
  BY <1>2 DEF TypeOK, LockInv, HoldersOwn, PassOwns, WritesDrained, Abandon, locks, KindOf
<1> QED BY <1>1, <1>2, EndLock DEF Holding

LEMMA RecoverLock ==
  ASSUME TypeOK, LockInv, Recover
  PROVE  LockInv'
<1> USE DEF TypeOK, LockInv, KindOf
<1>1. CASE Sweep
  BY <1>1 DEF Sweep, NoPass, HoldersOwn, PassOwns, WritesDrained, locks
<1>2. ASSUME NEW s \in Sessions, WorkerReads(s) PROVE LockInv'
  <2>1. op' = op /\ leases' = leases /\ holder' = holder
    BY <1>2 DEF WorkerReads
  <2>2. pass' = pass \/ pass'.pc = "next"
    BY <1>2 DEF WorkerReads, NoPass
  <2>3. HoldersOwn'
    BY <2>1 DEF HoldersOwn
  <2> QED BY <2>1, <2>2, <2>3 DEF PassOwns, WritesDrained
<1>3. ASSUME NEW s \in Sessions, Fence(s) PROVE LockInv'
  <2>1. CASE op[s] \in {"none", "recovery"}
    <3>1. \A h \in Holders : s \notin holder[h].on
      BY <2>1, KindsDiffer DEF HoldersOwn
    <3>2. /\ \A t \in Sessions : op'[t] = IF t = s THEN "recovery" ELSE op[t]
          /\ holder' = holder /\ leases' = leases
      BY <1>3, <2>1 DEF Fence
    <3>3. pass'.by # "none" /\ pass'.pc = "drain" /\ pass'.at = s
      BY <1>3, <2>1 DEF Fence
    <3>4. HoldersOwn'
      BY <3>1, <3>2 DEF HoldersOwn
    <3>5. PassOwns'
      BY <3>2, <3>3 DEF PassOwns
    <3>6. WritesDrained'
      BY <3>2, <3>3 DEF WritesDrained
    <3> QED BY <3>4, <3>5, <3>6
  <2>2. CASE op[s] \notin {"none", "recovery"}
    BY <1>3, <2>2 DEF Fence, HoldersOwn, PassOwns, WritesDrained
  <2> QED BY <2>1, <2>2
<1>4. CASE PassDrained
  BY <1>4 DEF PassDrained, PassAt, HoldersOwn, PassOwns, WritesDrained, locks
<1>5. CASE PassStop
  BY <1>5 DEF PassStop, PassAt, HoldersOwn, PassOwns, WritesDrained, locks
<1>6. CASE PassAdvance
  <2>1. \A h \in Holders : pass.at \notin holder[h].on
    BY <1>6, KindsDiffer DEF PassAdvance, PassAt, HoldersOwn, PassOwns
  <2> QED BY <1>6, <2>1 DEF PassAdvance, Free, HoldersOwn, PassOwns, WritesDrained
<1>7. ASSUME NEW then \in {"serving", "failed"}, PassOver(then)
      PROVE  LockInv'
  BY <1>7 DEF PassOver, NoPass, HoldersOwn, PassOwns, WritesDrained, locks
<1>8. CASE PassReturns
  BY <1>7, <1>8 DEF PassReturns
<1>9. CASE PassFails
  BY <1>7, <1>9 DEF PassFails
<1> QED BY <1>1, <1>2, <1>3, <1>4, <1>5, <1>6, <1>8, <1>9 DEF Recover

LEMMA LockStep == TypeOK /\ LockInv /\ [Next]_vars => LockInv'
<1> SUFFICES ASSUME TypeOK, LockInv, [Next]_vars PROVE LockInv'
  OBVIOUS
<1>1. ASSUME NEW s \in Sessions, NEW w \in Writers, Acquire(w, s) PROVE LockInv'
  <2>1. op[s] = "none"
    BY <1>1 DEF Acquire, Busy
  <2>2. \A h \in Holders : s \notin holder[h].on
    BY <2>1, KindsDiffer DEF LockInv, HoldersOwn
  <2>3. HoldersOwn' /\ PassOwns'
    BY <1>1 DEF Acquire, LockInv, HoldersOwn, PassOwns, KindOf
  <2>4. WritesDrained'
    BY <1>1, <2>1, <2>2 DEF Acquire, LockInv, WritesDrained, PassOwns, TypeOK
  <2> QED BY <2>3, <2>4 DEF LockInv
<1>2. ASSUME NEW s \in Sessions, NEW w \in Writers, Release(w, s) PROVE LockInv'
  BY <1>2 DEF Release, LockInv, HoldersOwn, PassOwns, WritesDrained, KindOf, TypeOK
<1>3. ASSUME NEW s \in Sessions, Handoff(s) PROVE LockInv'
  BY <1>3 DEF Handoff, StartHandoff, EndHandoff, CancelHandoff, LockInv, HoldersOwn, PassOwns,
              WritesDrained, KindOf, locks
<1>4. ASSUME NEW s \in Sessions, NEW c \in Callers, Begin(c, s) PROVE LockInv'
  BY <1>4, ReserveLock, OpsAssumption DEF OpsAssumption, Begin, Holders, KindOf
<1>5. CASE BeginAll
  BY <1>5, ReserveLock DEF BeginAll, Holders, KindOf
<1>6. CASE CloseAdmission
  BY <1>6 DEF CloseAdmission, LockInv, HoldersOwn, PassOwns, WritesDrained, KindOf, locks
<1>7. CASE UNCHANGED vars
  BY <1>7 DEF vars, LockInv, HoldersOwn, PassOwns, WritesDrained, KindOf, locks
<1> QED BY <1>1, <1>2, <1>3, <1>4, <1>5, <1>6, <1>7, HoldingLock, RecoverLock DEF Next, Write

LEMMA LockExclusive == LockInv => Exclusive
BY KindsDiffer DEF LockInv, HoldersOwn, PassOwns, WritesDrained, Exclusive, AtWork

\* Writes and mutations of a session exclude each other, and so do an exclusive
\* operation, the startup pass and a recovery, whatever fails and in any number.
THEOREM ExclusiveAlways == Spec => []Exclusive
<1> QED BY OpsTypeCorrect, LockInit, LockStep, LockExclusive, PTL DEF Spec

-----------------------------------------------------------------------------
(* An interrupted handoff stays fenced.                                     *)

Fenced(s) == op[s] = "recovery" \/ s \in deferred

\* Nothing is put off before the boot pass, which ends when it ends.
BootFirst ==
  /\ boot = "start" => deferred = {} /\ workers = {} /\ pass.by = "none"
  /\ pass.by = "boot" <=> boot = "sweep"

\* What an earlier process left is fenced, or the boot pass has it still to do.
LeftFenced ==
  \A s \in Sessions : row[s] \in Left =>
    /\ boot = "serving" => Fenced(s)
    /\ pass.by = "boot" => Fenced(s) \/ s \in pass.todo

\* A pass works from what it read of rows that an earlier process left, and only
\* a cancellation can have changed them.
SawLeft ==
  pass.by # "none" =>
    /\ \A s \in Sessions : row[s] \in Left => pass.saw[s] = row[s]
    /\ \A s \in pass.todo : pass.saw[s] \in Left
    /\ pass.pc # "next" => pass.saw[pass.at] \in Left

FenceInv == BootFirst /\ LeftFenced /\ SawLeft

LEMMA FenceInit == Init => FenceInv
BY DEF Init, FenceInv, BootFirst, LeftFenced, SawLeft, NoPass

\* A step of neither the pass nor the boot that lifts no fence.
LEMMA FenceKept ==
  ASSUME FenceInv, pass' = pass, boot' = boot,
         boot = "start" => deferred' = {} /\ workers' = {},
         \A s \in Sessions : row'[s] \in Left => row'[s] = row[s],
         \A s \in Sessions : Fenced(s) => Fenced(s)'
  PROVE  FenceInv'
<1>1. BootFirst'
  BY DEF FenceInv, BootFirst
<1>2. LeftFenced'
  BY DEF FenceInv, LeftFenced
<1>3. SawLeft'
  BY DEF FenceInv, SawLeft
<1> QED BY <1>1, <1>2, <1>3 DEF FenceInv

LEMMA ReserveFence ==
  ASSUME TypeOK, FenceInv, NEW h \in Holders, NEW S \in SUBSET Sessions,
         \A s \in S : ~Busy(s), Reserve(h, S, KindOf(h))
  PROVE  FenceInv'
<1>1. \A s \in Sessions : op[s] = "recovery" => op'[s] = "recovery"
  BY DEF Reserve, Busy
<1>2. \A s \in Sessions : Fenced(s) => Fenced(s)'
  BY <1>1 DEF Reserve, Fenced
<1> QED BY <1>2, FenceKept DEF Reserve, FenceInv, BootFirst

LEMMA EndFence ==
  ASSUME TypeOK, FenceInv, NEW h \in Holders, NEW s \in Sessions, End(h, s)
  PROVE  FenceInv'
<1>1. \A t \in Sessions : op[t] = "recovery" => op'[t] = "recovery"
  BY KindsDiffer DEF End, Leave, Free
<1>2. \A t \in Sessions : Fenced(t) => Fenced(t)'
  BY <1>1 DEF End, Leave, Fenced
<1>3. boot = "start" => deferred' = {} /\ workers' = {}
  BY DEF End, Leave, Admit, FenceInv, BootFirst
<1> QED BY <1>2, <1>3, FenceKept DEF End, Leave

LEMMA HoldingFence ==
  ASSUME TypeOK, FenceInv, NEW h \in Holders, Holding(h)
  PROVE  FenceInv'
<1>1. CASE Drained(h)
  <2>1. /\ pass' = pass /\ boot' = boot /\ row' = row /\ workers' = workers
        /\ op' = op /\ deferred' = deferred
    BY <1>1 DEF Drained, locks
  <2> QED BY <2>1, FenceKept DEF Fenced, FenceInv, BootFirst
<1>2. CASE Abandon(h)
  <2>1. /\ pass' = pass /\ boot' = boot /\ row' = row /\ workers' = workers
        /\ op' = op /\ deferred' = deferred
    BY <1>2 DEF Abandon, locks
  <2> QED BY <2>1, FenceKept DEF Fenced, FenceInv, BootFirst
<1> QED BY <1>1, <1>2, EndFence DEF Holding

\* The pass is over: a boot pass that returns has left nothing undone.
LEMMA PassOverFence ==
  ASSUME TypeOK, FenceInv, pass.by # "none", NEW then \in {"serving", "failed"},
         then = "serving" => pass.todo = {}, PassOver(then)
  PROVE  FenceInv'
<1>1. /\ pass'.by = "none" /\ row' = row /\ op' = op /\ deferred' = deferred
      /\ boot' = (IF pass.by = "boot" THEN then ELSE boot)
  BY DEF PassOver, NoPass, locks
<1>2. boot' \notin {"start", "sweep"}
  BY <1>1 DEF FenceInv, BootFirst, TypeOK
<1>3. BootFirst'
  BY <1>1, <1>2 DEF BootFirst
<1>4. \A s \in Sessions : row[s] \in Left /\ boot' = "serving" => Fenced(s)
  BY <1>1 DEF FenceInv, LeftFenced
<1>5. LeftFenced'
  BY <1>1, <1>4 DEF LeftFenced, Fenced
<1>6. SawLeft'
  BY <1>1 DEF SawLeft
<1> QED BY <1>3, <1>5, <1>6 DEF FenceInv

LEMMA FenceFence ==
  ASSUME TypeOK, FenceInv, NEW s \in Sessions, Fence(s)
  PROVE  FenceInv'
<1>1. /\ pass.by # "none" /\ s \in pass.todo /\ pass'.by = pass.by
      /\ pass'.todo = pass.todo \ {s} /\ pass'.saw = pass.saw
      /\ row' = row /\ boot' = boot
  BY DEF Fence, TypeOK
<1>2. pass'.pc # "next" => pass'.at = s
  BY DEF Fence, TypeOK
<1>3. \A t \in Sessions : Fenced(t) \/ t = s => Fenced(t)'
  BY DEF Fence, Fenced, TypeOK
<1>4. BootFirst'
  BY <1>1 DEF FenceInv, BootFirst
<1>5. LeftFenced'
  BY <1>1, <1>3 DEF FenceInv, LeftFenced
<1>6. SawLeft'
  BY <1>1, <1>2 DEF FenceInv, SawLeft
<1> QED BY <1>4, <1>5, <1>6 DEF FenceInv

\* The fence of a recovered session is lifted with its row.
LEMMA AdvanceFence ==
  ASSUME TypeOK, LockInv, FenceInv, PassAdvance
  PROVE  FenceInv'
<1>1. /\ pass.by # "none" /\ pass.pc # "next" /\ pass'.by = pass.by /\ pass'.pc = "next"
      /\ pass'.todo = pass.todo /\ pass'.saw = pass.saw
      /\ boot' = boot /\ deferred' = deferred
  BY DEF PassAdvance, PassAt, TypeOK
<1>2. boot # "start"
  BY <1>1 DEF FenceInv, BootFirst
<1>3. pass.at \in Sessions /\ pass.saw[pass.at] \in Left
  BY <1>1 DEF FenceInv, SawLeft, LockInv, PassOwns
<1>4. \A t \in Sessions : row'[t] \in Left => row'[t] = row[t] /\ t # pass.at
  BY <1>1, <1>3 DEF PassAdvance, FenceInv, SawLeft, Left, TypeOK
<1>5. \A t \in Sessions : t # pass.at /\ Fenced(t) => Fenced(t)'
  BY DEF PassAdvance, Free, Fenced
<1>6. BootFirst'
  BY <1>1, <1>2 DEF FenceInv, BootFirst
<1>7. LeftFenced'
  BY <1>1, <1>4, <1>5 DEF FenceInv, LeftFenced
<1>8. SawLeft'
  BY <1>1, <1>4 DEF FenceInv, SawLeft
<1> QED BY <1>6, <1>7, <1>8 DEF FenceInv

LEMMA RecoverFence ==
  ASSUME TypeOK, LockInv, FenceInv, Recover
  PROVE  FenceInv'
<1>1. CASE Sweep
  <2>1. /\ pass'.by = "boot" /\ pass'.pc = "next" /\ pass'.saw = row
        /\ pass'.todo = {s \in Sessions : row[s] \in Left}
        /\ boot' = "sweep" /\ row' = row
    BY <1>1 DEF Sweep, NoPass
  <2> QED BY <2>1 DEF FenceInv, BootFirst, LeftFenced, SawLeft
<1>2. ASSUME NEW s \in Sessions, WorkerReads(s) PROVE FenceInv'
  <2>1. boot' = boot /\ row' = row /\ op' = op /\ boot # "start" /\ s \in workers
    BY <1>2 DEF WorkerReads, FenceInv, BootFirst
  <2>2. pass.by = "none"
    BY <1>2 DEF WorkerReads, NoPass
  <2>3. \/ pass' = pass
        \/ /\ row[s] \in Left /\ pass'.by = "worker" /\ pass'.pc = "next"
           /\ pass'.todo = {s} /\ pass'.saw = row
    BY <1>2 DEF WorkerReads, NoPass
  <2>4. \A t \in Sessions : row[t] \in Left /\ Fenced(t) => Fenced(t)'
    BY <1>2 DEF WorkerReads, Fenced
  <2>5. BootFirst'
    BY <2>1, <2>2, <2>3 DEF FenceInv, BootFirst
  <2>6. LeftFenced'
    BY <2>1, <2>2, <2>3, <2>4 DEF FenceInv, LeftFenced
  <2>7. SawLeft'
    BY <2>1, <2>2, <2>3 DEF FenceInv, SawLeft
  <2> QED BY <2>5, <2>6, <2>7 DEF FenceInv
<1>3. CASE PassDrained
  <2>1. /\ pass.pc # "next" /\ pass'.by = pass.by /\ pass'.at = pass.at
        /\ pass'.todo = pass.todo /\ pass'.saw = pass.saw /\ row' = row /\ boot' = boot
        /\ workers' = workers /\ op' = op /\ deferred' = deferred
    BY <1>3 DEF PassDrained, PassAt, TypeOK, locks
  <2> QED BY <2>1 DEF FenceInv, BootFirst, LeftFenced, SawLeft, Fenced
<1>4. CASE PassStop
  <2>1. /\ pass'.by = pass.by /\ pass.pc # "next"
        /\ pass'.pc # "next" => pass'.at = pass.at
        /\ pass'.todo = pass.todo /\ pass'.saw = pass.saw /\ row' = row /\ boot' = boot
        /\ workers' = workers /\ op' = op /\ deferred' = deferred
    BY <1>4 DEF PassStop, PassAt, TypeOK, locks
  <2> QED BY <1>4, <2>1 DEF PassStop, PassAt, FenceInv, BootFirst, LeftFenced, SawLeft, Fenced
<1>5. CASE PassReturns
  BY <1>5, PassOverFence DEF PassReturns, PassAt
<1>6. CASE PassFails
  BY <1>6, PassOverFence DEF PassFails
<1> QED BY <1>1, <1>2, <1>3, <1>4, <1>5, <1>6, AdvanceFence, FenceFence DEF Recover

LEMMA FenceStep == TypeOK /\ LockInv /\ FenceInv /\ [Next]_vars => FenceInv'
<1> SUFFICES ASSUME TypeOK, LockInv, FenceInv, [Next]_vars PROVE FenceInv'
  OBVIOUS
<1>1. ASSUME NEW s \in Sessions, Write(s) PROVE FenceInv'
  <2>1. /\ pass' = pass /\ boot' = boot /\ row' = row /\ workers' = workers
        /\ op' = op /\ deferred' = deferred
    BY <1>1 DEF Write, Acquire, Release
  <2> QED BY <2>1, FenceKept DEF Fenced, FenceInv, BootFirst
<1>2. ASSUME NEW s \in Sessions, Handoff(s) PROVE FenceInv'
  <2>1. /\ pass' = pass /\ boot' = boot /\ workers' = workers
        /\ op' = op /\ deferred' = deferred
    BY <1>2 DEF Handoff, StartHandoff, EndHandoff, CancelHandoff, locks
  <2>2. \A t \in Sessions : row'[t] \in Left => row'[t] = row[t]
    BY <1>2 DEF Handoff, StartHandoff, EndHandoff, CancelHandoff, Left, TypeOK
  <2> QED BY <2>1, <2>2, FenceKept DEF Fenced, FenceInv, BootFirst
<1>3. ASSUME NEW s \in Sessions, NEW c \in Callers, Begin(c, s) PROVE FenceInv'
  BY <1>3, ReserveFence, OpsAssumption DEF OpsAssumption, Begin, Holders, KindOf
<1>4. CASE BeginAll
  BY <1>4, ReserveFence DEF BeginAll, Holders, KindOf
<1>5. CASE CloseAdmission
  <2>1. /\ pass' = pass /\ boot' = boot /\ row' = row /\ workers' = workers
        /\ op' = op /\ deferred' = deferred
    BY <1>5 DEF CloseAdmission, locks
  <2> QED BY <2>1, FenceKept DEF Fenced, FenceInv, BootFirst
<1>6. CASE UNCHANGED vars
  <2>1. /\ pass' = pass /\ boot' = boot /\ row' = row /\ workers' = workers
        /\ op' = op /\ deferred' = deferred
    BY <1>6 DEF vars, locks
  <2> QED BY <2>1, FenceKept DEF Fenced, FenceInv, BootFirst
<1> QED BY <1>1, <1>2, <1>3, <1>4, <1>5, <1>6, HoldingFence, RecoverFence DEF Next

\* A fenced session is reserved by nobody, and admits nothing.
LEMMA FencedRefuses ==
  ASSUME TypeOK, NEW s \in Sessions, Fenced(s), [Next]_vars
  PROVE  /\ leases'[s] \subseteq leases[s]
         /\ \A h \in Holders : s \in holder'[h].on => s \in holder[h].on
<1> DEFINE Refuses == /\ leases'[s] \subseteq leases[s]
                      /\ \A h \in Holders : s \in holder'[h].on => s \in holder[h].on
<1>1. Busy(s)
  BY DEF Fenced, Busy
<1>2. ASSUME leases' = leases, holder' = holder PROVE Refuses
  BY <1>2
<1>3. ASSUME NEW t \in Sessions, NEW w \in Writers, Acquire(w, t) PROVE Refuses
  <2>1. t # s
    BY <1>1, <1>3 DEF Acquire
  <2> QED BY <1>3, <2>1 DEF Acquire, TypeOK
<1>4. ASSUME NEW t \in Sessions, NEW w \in Writers, Release(w, t) PROVE Refuses
  BY <1>4 DEF Release, TypeOK
<1>5. ASSUME NEW h \in Holders, NEW S \in SUBSET Sessions, s \notin S,
             Reserve(h, S, KindOf(h))
      PROVE  Refuses
  <2>1. s \notin Holds(h, S, "draining").on
    BY <1>5 DEF Holds
  <2>2. \A g \in Holders : holder'[g] = IF g = h THEN Holds(h, S, "draining") ELSE holder[g]
    BY <1>5 DEF Reserve, TypeOK
  <2> QED BY <1>5, <2>1, <2>2 DEF Reserve
<1>6. ASSUME NEW h \in Holders, Holding(h) PROVE Refuses
  <2>1. CASE Drained(h)
    BY <2>1 DEF Drained, TypeOK, locks
  <2>2. CASE Abandon(h)
    BY <2>2 DEF Abandon, TypeOK, locks
  <2>3. ASSUME NEW t \in Sessions, End(h, t) PROVE Refuses
    <3> DEFINE to == Holds(h, holder[h].on \ {t}, holder[h].pc)
    <3>1. to.on \subseteq holder[h].on
      BY DEF Holds
    <3>2. leases' = leases /\ \A g \in Holders : holder'[g] = IF g = h THEN to ELSE holder[g]
      BY <2>3 DEF End, Leave, TypeOK
    <3> QED BY <3>1, <3>2
  <2> QED BY <1>6, <2>1, <2>2, <2>3 DEF Holding
<1>7. ASSUME NEW t \in Sessions, NEW c \in Callers, Begin(c, t) PROVE Refuses
  BY <1>1, <1>5, <1>7, OpsAssumption DEF OpsAssumption, Begin, Holders, KindOf
<1>8. CASE BeginAll
  BY <1>1, <1>5, <1>8 DEF BeginAll, Holders, KindOf
<1>9. CASE Recover
  BY <1>2, <1>9 DEF Recover, Sweep, WorkerReads, Fence, PassDrained, PassStop, PassAdvance,
                    PassReturns, PassFails, PassOver, locks
<1>10. ASSUME NEW t \in Sessions, Handoff(t) PROVE Refuses
  BY <1>2, <1>10 DEF Handoff, StartHandoff, EndHandoff, CancelHandoff, locks
<1>11. CASE CloseAdmission \/ UNCHANGED vars
  BY <1>2, <1>11 DEF CloseAdmission, vars, locks
<1>12. CASE Next
  BY <1>3, <1>4, <1>6, <1>7, <1>8, <1>9, <1>10, <1>11, <1>12 DEF Next, Write
<1> QED BY <1>11, <1>12

\* What the startup pass fences, or leaves behind, stays fenced, whatever fails and
\* whoever calls: FenceInv has the fence, and a fenced session refuses.
THEOREM FencedAlways == Spec => InterruptedStaysFenced
<1>1. TypeOK /\ FenceInv /\ [Next]_vars =>
        [\A s \in Sessions : boot = "serving" /\ row[s] \in Left =>
           /\ leases'[s] \subseteq leases[s]
           /\ \A h \in Holders : s \in holder'[h].on => s \in holder[h].on]_vars
  BY FencedRefuses DEF FenceInv, LeftFenced
<1> QED BY <1>1, OpsTypeCorrect, LockInit, LockStep, FenceInit, FenceStep, PTL
        DEF Spec, InterruptedStaysFenced

\* A step of the pass leaves alone the row of a handoff that this process started.
LEMMA NewRowKept ==
  ASSUME TypeOK, LockInv, FenceInv, [Next]_vars,
         NEW s \in Sessions, pass.at = s, row[s] = "new", pass' # pass
  PROVE  row'[s] = "new"
<1>1. PassAdvance => row'[s] = "new"
  <2> SUFFICES ASSUME PassAdvance PROVE row'[s] = "new"
    OBVIOUS
  <2>1. pass.saw[s] \in Left
    BY DEF PassAdvance, PassAt, FenceInv, SawLeft
  <2>2. row[pass.at] # pass.saw[pass.at]
    BY <2>1 DEF Left
  <2> QED BY <2>2 DEF PassAdvance
<1>2. Recover /\ ~PassAdvance => row' = row
  BY DEF Recover, Sweep, WorkerReads, Fence, PassDrained, PassStop, PassReturns, PassFails,
         PassOver
<1>3. Recover \/ pass' = pass
  BY DEF Next, Write, Acquire, Release, Handoff, StartHandoff, EndHandoff, CancelHandoff,
         Begin, BeginAll, Reserve, Holding, Drained, Abandon, End, Leave, CloseAdmission, vars
<1> QED BY <1>1, <1>2, <1>3

\* A recovery settles only a row it read as left by an earlier process, so a
\* handoff started since the read is out of its reach.
THEOREM OnlyInterrupted == Spec => OnlyInterruptedSettled
<1>1. TypeOK /\ LockInv /\ FenceInv /\ [Next]_vars =>
        [\A s \in Sessions : pass.at = s /\ row[s] = "new" /\ pass' # pass
           => row'[s] = "new"]_vars
  BY NewRowKept
<1> QED BY <1>1, OpsTypeCorrect, LockInit, LockStep, FenceInit, FenceStep, PTL
        DEF Spec, OnlyInterruptedSettled

=============================================================================

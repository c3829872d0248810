--------------------------- MODULE ReviewsProofs ----------------------------
(***************************************************************************)
(* Proofs about the reviews, for any set of reviewers and submissions and  *)
(* any number of events: the types with the one pane that its handle       *)
(* names, what the conversation of a reviewer knows, and what the worker   *)
(* was told.                                                               *)
(***************************************************************************)
EXTENDS Reviews, SequenceTheorems, TLAPS

-----------------------------------------------------------------------------
(* The table of runs.                                                      *)

\* What every update of the table but an insert does: runs keep their places and
\* their reviewers, and none is opened.
Keeps(rs, new) ==
  /\ new \in Seq(Run) /\ Len(new) = Len(rs) /\ DOMAIN new = DOMAIN rs
  /\ \A r \in DOMAIN rs : /\ new[r].h = rs[r].h /\ new[r].sha = rs[r].sha
                          /\ (Open(new, r) => Open(rs, r))

\* No update delivers a run.
Undelivered(rs, new) ==
  \A r \in DOMAIN rs : new[r].st = "delivered" => rs[r].st = "delivered"

\* A function of the places of a table is a table.
LEMMA SameLength ==
  ASSUME NEW S, NEW rs \in Seq(S), NEW new, NEW T, new \in [DOMAIN rs -> T]
  PROVE  new \in Seq(T) /\ Len(new) = Len(rs) /\ DOMAIN new = DOMAIN rs
<1>1. DOMAIN rs = 1..Len(rs) /\ Len(rs) \in Nat OBVIOUS
<1> QED BY <1>1

\* Ended closes the running ones among the runs it is given, and leaves the others.
LEMMA EndedKeeps ==
  ASSUME NEW rs \in Seq(Run), NEW ids, NEW st \in {"cancelled", "failed"}
  PROVE  /\ Keeps(rs, Ended(rs, ids, st)) /\ Undelivered(rs, Ended(rs, ids, st))
         /\ \A r \in DOMAIN rs : Open(Ended(rs, ids, st), r) <=> Open(rs, r) /\ r \notin ids
<1>1. \A r \in DOMAIN rs : rs[r] \in Run OBVIOUS
<1>2. \A r \in DOMAIN rs : [rs[r] EXCEPT !.st = st] \in Run BY <1>1 DEF Run
<1>3. Ended(rs, ids, st) \in [DOMAIN rs -> Run] BY <1>1, <1>2 DEF Ended
<1>4. Ended(rs, ids, st) \in Seq(Run) /\ Len(Ended(rs, ids, st)) = Len(rs)
      /\ DOMAIN Ended(rs, ids, st) = DOMAIN rs
  BY <1>3, SameLength
<1>5. \A r \in DOMAIN rs : /\ [rs[r] EXCEPT !.st = st].st = st
                          /\ [rs[r] EXCEPT !.st = st].h = rs[r].h
                          /\ [rs[r] EXCEPT !.st = st].sha = rs[r].sha
  BY <1>1 DEF Run
<1>6. \A r \in DOMAIN rs :
        Ended(rs, ids, st)[r] =
          IF Open(rs, r) /\ r \in ids THEN [rs[r] EXCEPT !.st = st] ELSE rs[r]
  BY DEF Ended
<1> QED BY <1>4, <1>5, <1>6 DEF Keeps, Undelivered, Open

\* Updates compose, and nothing is one of them.
LEMMA KeepsSelf == ASSUME NEW rs \in Seq(Run) PROVE Keeps(rs, rs) /\ Undelivered(rs, rs)
BY DEF Keeps, Undelivered

LEMMA KeepsTrans ==
  ASSUME NEW a, NEW b, NEW c, Keeps(a, b), Keeps(b, c)
  PROVE  Keeps(a, c)
BY DEF Keeps

LEMMA UndeliveredTrans ==
  ASSUME NEW a, NEW b, NEW c, Keeps(a, b), Undelivered(a, b), Undelivered(b, c)
  PROVE  Undelivered(a, c)
BY DEF Keeps, Undelivered

\* An update of one run that does not open it.
LEMMA SetKeeps ==
  ASSUME NEW rs \in Seq(Run), NEW r \in DOMAIN rs, NEW run \in Run,
         run.h = rs[r].h, run.sha = rs[r].sha, run.st # "running"
  PROVE  Keeps(rs, [rs EXCEPT ![r] = run])
<1>1. [rs EXCEPT ![r] = run] \in [DOMAIN rs -> Run] OBVIOUS
<1> QED BY <1>1, SameLength DEF Keeps, Open

-----------------------------------------------------------------------------
(* What a step does to the table: it keeps it, or a trigger adds one run.   *)

\* The step of a trigger that records a run for the head it has read.
Adds(left) ==
  /\ Keeps(runs, left) /\ Undelivered(runs, left) /\ ~Duplicate(left)
  /\ \A r \in Ids : Open(left, r) => runs[r].sha = job.sha
  /\ runs' = Append(left, NewRun) /\ told' = Append(told, 0) /\ job.at = "ready"
  /\ job' = [job EXCEPT !.at = "planned", !.seen = <<>>, !.had = HadRunning,
                        !.new = {Len(runs) + 1}]

\* A trigger that records none may still have failed the runs of other heads.
LEMMA PlanRuns ==
  ASSUME TypeOK, TriggerPlan
  PROVE  \/ Keeps(runs, runs') /\ Undelivered(runs, runs') /\ UNCHANGED told /\ Unlock
         \/ \E left : Adds(left)
<1> DEFINE old  == {r \in Ids : runs[r].sha # job.sha}
           left == FailOf(runs, old)
<1>1. runs \in Seq(Run) BY DEF TypeOK, ReviewType
<1>2. /\ Keeps(runs, left) /\ Undelivered(runs, left)
      /\ \A r \in Ids : Open(left, r) => runs[r].sha = job.sha
  BY <1>1, EndedKeeps DEF FailOf, Ids
<1>3. CASE UNCHANGED <<runs, told>> /\ Unlock BY <1>1, <1>3, KeepsSelf
<1>4. CASE runs' = left /\ Unlock /\ UNCHANGED told BY <1>2, <1>4
<1>5. CASE /\ ~Duplicate(left) /\ runs' = Append(left, NewRun) /\ told' = Append(told, 0)
           /\ job' = [job EXCEPT !.at = "planned", !.seen = <<>>, !.had = HadRunning,
                                 !.new = {Len(runs) + 1}]
  <2> HIDE DEF left
  <2>1. Adds(left) BY <1>2, <1>5 DEF Adds, TriggerPlan
  <2> QED BY <2>1
<1> QED BY <1>3, <1>4, <1>5 DEF TriggerPlan

\* Every other step keeps the table; but for Mark, none delivers a run.
LEMMA RunsKept ==
  ASSUME TypeOK, [Next]_vars, ~TriggerPlan
  PROVE  Keeps(runs, runs') /\ (Undelivered(runs, runs') \/ \E s \in Submits : Mark(s))
<1>1. runs \in Seq(Run) BY DEF TypeOK, ReviewType
<1>2. CASE UNCHANGED runs BY <1>1, <1>2, KeepsSelf
<1>3. CASE TriggerPrepare
  <2> DEFINE hs   == Others(job.h)
             rest == CancelOf(runs, hs)
  <2>1. Keeps(runs, rest) /\ Undelivered(runs, rest) BY <1>1, EndedKeeps DEF CancelOf
  <2>2. Keeps(rest, CancelAll(rest)) /\ Undelivered(rest, CancelAll(rest))
    BY <2>1, EndedKeeps DEF CancelAll, Keeps
  <2>3. Keeps(runs, CancelAll(rest)) /\ Undelivered(runs, CancelAll(rest))
    BY <2>1, <2>2, KeepsTrans, UndeliveredTrans
  <2>4. \/ runs' = rest \/ runs' = CancelAll(rest)
        \/ \E ids : runs' = Ended(runs, ids, "cancelled")
    BY <1>3 DEF TriggerPrepare, StopsShort, CancelOf
  <2> QED BY <1>1, <2>1, <2>3, <2>4, EndedKeeps
<1>4. CASE Notify \/ Spawn \/ RestoreTerminal \/ RestoreEnd
  <2>1. UNCHANGED runs \/ \E ids : runs' = FailOf(runs, ids)
    BY <1>4 DEF Notify, Spawn, RestoreTerminal, RestoreEnd, Failed
  <2> QED BY <1>1, <1>2, <2>1, EndedKeeps DEF FailOf
<1>5. CASE Switch \/ RestoreReviewer \/ Kill \/ CancelEnd
  <2>1. UNCHANGED runs \/ \E ids : runs' = Ended(runs, ids, "cancelled")
    BY <1>5 DEF Switch, RestoreReviewer, BringBack, StopsShort, Kill, TornDown, HalfDown,
                CancelEnd, CancelOf, CancelAll
  <2> QED BY <1>1, <1>2, <2>1, EndedKeeps
<1>6. ASSUME NEW s \in Submits, Submit(s)
      PROVE  Keeps(runs, runs') /\ Undelivered(runs, runs')
  <2>1. PICK r \in conv[pane.h], v \in {"approved", "changes"} :
          \/ Open(runs, r) /\ runs' = [runs EXCEPT ![r].st = "complete", ![r].verdict = v]
          \/ UNCHANGED runs
    BY <1>6 DEF Submit
  <2>2. r \in Ids BY DEF TypeOK, ReviewType
  <2>3. runs[r] \in Run BY <1>1, <2>2 DEF Ids
  <2> DEFINE run == [runs[r] EXCEPT !.st = "complete", !.verdict = v]
  <2>4. run \in Run /\ run.h = runs[r].h /\ run.sha = runs[r].sha /\ run.st = "complete"
    BY <2>3 DEF Run
  <2>5. CASE UNCHANGED runs BY <1>1, <2>5, KeepsSelf
  <2>6. CASE runs' = [runs EXCEPT ![r].st = "complete", ![r].verdict = v]
    <3>1. runs' = [runs EXCEPT ![r] = run] BY <2>2, <2>3, <2>6 DEF Run
    <3>2. Keeps(runs, runs') BY <1>1, <2>2, <2>4, <3>1, SetKeeps DEF Ids
    <3> QED BY <2>2, <2>4, <3>1, <3>2 DEF Undelivered, Ids
  <2> QED BY <2>1, <2>5, <2>6
<1>7. ASSUME NEW s \in Submits, Mark(s) PROVE Keeps(runs, runs')
  <2> DEFINE r   == sub[s].r
             run == [runs[r] EXCEPT !.st = IF @ = "complete" THEN "delivered" ELSE @]
  <2>1. r \in Ids /\ runs[r] \in Run BY <1>1, <1>7 DEF TypeOK, ActsType, Mark, None, Ids
  <2>2. run \in Run /\ run.h = runs[r].h /\ run.sha = runs[r].sha BY <2>1 DEF Run
  <2>3. runs' = [runs EXCEPT ![r] = run] BY <1>7, <2>1 DEF Mark
  <2>4. CASE runs[r].st = "complete"
    <3>1. run.st # "running" BY <2>1, <2>4 DEF Run
    <3> QED BY <1>1, <2>1, <2>2, <2>3, <3>1, SetKeeps DEF Ids
  <2>5. CASE runs[r].st # "complete"
    <3>1. run = runs[r] BY <2>1, <2>5 DEF Run
    <3>2. runs' = runs BY <1>1, <2>1, <2>3, <3>1 DEF Ids
    <3> QED BY <1>1, <3>2, KeepsSelf
  <2> QED BY <2>4, <2>5
<1>8. CASE \/ Trigger \/ AutoTrigger \/ TriggerEnd \/ Save \/ MarkTerminated \/ Relaunch
           \/ Act \/ SetAutoReview \/ Push \/ Cancel \/ PaneDies \/ Die \/ UNCHANGED vars
           \/ \E s \in Submits : Send(s) \/ Persist(s)
  <2>1. UNCHANGED runs
    BY <1>8 DEF Trigger, AutoTrigger, TriggerEnd, Save, TornDown, HalfDown, MarkTerminated,
                Relaunch, Act, SetAutoReview, Push, Cancel, PaneDies, Die, vars, Send, Persist, review
  <2> QED BY <1>2, <2>1
<1> QED BY <1>3, <1>4, <1>5, <1>6, <1>7, <1>8 DEF Next

\* The table only grows, and a run stays with its reviewer.
Longer ==
  runs' \in Seq(Run) /\ Ids \subseteq Ids' /\ \A r \in Ids : runs'[r].h = runs[r].h

\* No step takes a run away.
LEMMA RunsGrow ==
  ASSUME TypeOK, [Next]_vars
  PROVE  Longer
<1>1. CASE TriggerPlan
  <2>1. CASE Keeps(runs, runs') BY <2>1 DEF Longer, Keeps, Ids
  <2>2. ASSUME NEW left, Adds(left) PROVE Longer
    <3>1. left \in Seq(Run) /\ DOMAIN left = Ids /\ \A r \in Ids : left[r].h = runs[r].h
      BY <2>2 DEF Adds, Keeps, Ids
    <3>2. NewRun \in Run BY <2>2 DEF Adds, NewRun, Run, TypeOK, ActsType, Job, None
    <3>3. /\ runs' \in Seq(Run) /\ Len(runs') = Len(left) + 1
          /\ \A r \in 1..Len(left) : runs'[r] = left[r]
      BY <2>2, <3>1, <3>2, AppendProperties DEF Adds
    <3>4. DOMAIN left = 1..Len(left) /\ DOMAIN runs' = 1..(Len(left) + 1) BY <3>1, <3>3
    <3> QED BY <3>1, <3>3, <3>4, LenProperties DEF Longer, Ids
  <2> QED BY <1>1, <2>1, <2>2, PlanRuns
<1>2. CASE ~TriggerPlan BY <1>2, RunsKept DEF Longer, Keeps, Ids
<1> QED BY <1>1, <1>2

-----------------------------------------------------------------------------
(* Type correctness.                                                        *)

\* A head was pushed by an event.
HeadSeen == head <= events + 1

Flag == [known : BOOLEAN, handle : BOOLEAN, native : BOOLEAN]

\* The rows of reviewers lose their handles, and the pane its life, but not their type.
LEMMA DroppedType ==
  ASSUME ReviewType, NEW hs
  PROVE  /\ Dropped(hs) \in [Harnesses -> Flag]
         /\ PaneDropped(hs) \in [alive : BOOLEAN, h : Harnesses]
<1>1. \A g \in Harnesses : rows[g] \in Flag BY DEF ReviewType, Flag
<1>2. \A g \in Harnesses : [rows[g] EXCEPT !.handle = @ /\ g \notin hs] \in Flag
  BY <1>1 DEF Flag
<1>3. Dropped(hs) \in [Harnesses -> Flag] BY <1>2 DEF Dropped
<1>4. PaneDropped(hs) \in [alive : BOOLEAN, h : Harnesses]
  BY DEF ReviewType, PaneDropped
<1> QED BY <1>3, <1>4

\* So they do when the loop over them stops short.
LEMMA ShortType ==
  ASSUME ReviewType, NEW hs, StopsShort(hs)
  PROVE  rows' \in [Harnesses -> Flag] /\ pane' \in [alive : BOOLEAN, h : Harnesses]
<1>1. PICK gone \in SUBSET hs, cleared \in SUBSET hs :
        rows' = Dropped(cleared) /\ pane' = PaneDropped(gone)
  BY DEF StopsShort
<1> QED BY <1>1, DroppedType

\* What a step may make of the pane: it goes, or comes up for the reviewer of the job.
LEMMA PaneType ==
  ASSUME ReviewType, NEW h \in Harnesses,
         \/ UNCHANGED pane \/ pane' = [pane EXCEPT !.alive = FALSE]
         \/ pane' = [alive |-> TRUE, h |-> h]
  PROVE  pane' \in [alive : BOOLEAN, h : Harnesses]
<1>1. CASE UNCHANGED pane BY <1>1 DEF ReviewType
<1>2. CASE pane' = [pane EXCEPT !.alive = FALSE] BY <1>2 DEF ReviewType
<1>3. CASE pane' = [alive |-> TRUE, h |-> h] BY <1>3
<1> QED BY <1>1, <1>2, <1>3

\* The reviewers, their pane and their conversations.
LEMMA ReviewStep ==
  ASSUME TypeOK, [Next]_vars
  PROVE  ReviewType'
<1>1. runs' \in Seq(Run) /\ Ids \subseteq Ids' BY RunsGrow DEF Longer
<1>2. CASE UNCHANGED <<selected, rows, pane, conv>>
  BY <1>1, <1>2 DEF TypeOK, ReviewType
<1>3. CASE TriggerPrepare
  <2>1. rows' \in [Harnesses -> Flag] /\ pane' \in [alive : BOOLEAN, h : Harnesses]
    <3>1. CASE StopsShort(Others(job.h)) BY <3>1, ShortType DEF TypeOK
    <3>2. CASE ~StopsShort(Others(job.h))
      BY <1>3, <3>2, DroppedType DEF TypeOK, TriggerPrepare
    <3> QED BY <3>1, <3>2
  <2> QED BY <1>1, <1>3, <2>1 DEF TypeOK, ReviewType, TriggerPrepare, Flag
<1>4. CASE TriggerPlan
  <2>1. job.h \in Harnesses BY <1>4 DEF TypeOK, ActsType, TriggerPlan, None
  <2>2. rows \in [Harnesses -> Flag] BY DEF TypeOK, ReviewType, Flag
  <2>3. [rows[job.h] EXCEPT !.known = TRUE] \in Flag BY <2>1, <2>2 DEF Flag
  <2>4. UNCHANGED rows \/ rows' = [rows EXCEPT ![job.h] = [@ EXCEPT !.known = TRUE]]
    BY <1>4 DEF TriggerPlan
  <2>5. rows' \in [Harnesses -> Flag] BY <2>2, <2>3, <2>4
  <2> QED BY <1>1, <1>4, <2>5 DEF TypeOK, ReviewType, TriggerPlan, Flag
<1>5. CASE Notify \/ Spawn
  <2>1. job.h \in Harnesses /\ job.new \subseteq Ids
    BY <1>5 DEF TypeOK, ActsType, Job, Notify, Spawn, None
  <2>2. \A fresh \in BOOLEAN : Taught(fresh) \in [Harnesses -> SUBSET Ids]
    BY <2>1 DEF TypeOK, ReviewType, Taught
  <2>3. conv' \in [Harnesses -> SUBSET Ids]
    BY <1>5, <2>1, <2>2 DEF TypeOK, ReviewType, Notify, Spawn
  <2>4. pane' \in [alive : BOOLEAN, h : Harnesses]
    BY <1>5, <2>1, PaneType DEF TypeOK, Notify, Spawn
  <2> QED BY <1>1, <1>5, <2>3, <2>4 DEF TypeOK, ReviewType, Notify, Spawn
<1>6. CASE TriggerEnd \/ RestoreEnd
  <2>1. job.h \in Harnesses BY <1>6 DEF TypeOK, ActsType, TriggerEnd, RestoreEnd, None
  <2>2. rows' \in [Harnesses -> Flag]
    <3>1. rows \in [Harnesses -> Flag] /\ rows[job.h].native \in BOOLEAN
      BY <2>1 DEF TypeOK, ReviewType, Flag
    <3>2. \A n \in BOOLEAN : [known |-> TRUE, handle |-> TRUE, native |-> n] \in Flag
      BY DEF Flag
    <3> QED BY <1>6, <2>1, <3>1, <3>2 DEF TriggerEnd, RestoreEnd
  <2>3. pane' \in [alive : BOOLEAN, h : Harnesses]
    BY <1>6 DEF TypeOK, ReviewType, TriggerEnd, RestoreEnd
  <2> QED BY <1>1, <1>6, <2>2, <2>3 DEF TypeOK, ReviewType, TriggerEnd, RestoreEnd, Flag
<1>7. CASE Switch \/ RestoreReviewer
  <2>1. PICK h \in Harnesses : /\ BringBack(h) \/ StopsShort(Others(h))
                              /\ UNCHANGED conv /\ selected' \in Harnesses
    BY <1>7 DEF Switch, RestoreReviewer, TypeOK, ReviewType
  <2>2. rows' \in [Harnesses -> Flag] /\ pane' \in [alive : BOOLEAN, h : Harnesses]
    BY <2>1, DroppedType, ShortType DEF TypeOK, BringBack
  <2> QED BY <1>1, <2>1, <2>2 DEF TypeOK, ReviewType, Flag
<1>8. CASE RestoreTerminal
  <2>1. job.h \in Harnesses BY <1>8 DEF TypeOK, ActsType, RestoreTerminal, None
  <2>2. conv' \in [Harnesses -> SUBSET Ids]
    BY <1>8, <2>1 DEF TypeOK, ReviewType, RestoreTerminal
  <2>3. pane' \in [alive : BOOLEAN, h : Harnesses]
    BY <1>8, <2>1, PaneType DEF TypeOK, RestoreTerminal
  <2> QED BY <1>1, <1>8, <2>2, <2>3 DEF TypeOK, ReviewType, RestoreTerminal
<1>9. CASE Kill \/ Save
  BY <1>1, <1>9, DroppedType DEF TypeOK, ReviewType, Kill, Save, Teardown, TornDown, HalfDown, Flag
<1>10. CASE PaneDies
  BY <1>1, <1>10 DEF TypeOK, ReviewType, PaneDies
<1>11. CASE \/ Trigger \/ AutoTrigger \/ MarkTerminated \/ Relaunch \/ Act \/ SetAutoReview
            \/ Push \/ Cancel
            \/ CancelEnd \/ Die \/ UNCHANGED vars
            \/ \E s \in Submits : Submit(s) \/ Send(s) \/ Persist(s) \/ Mark(s)
  BY <1>2, <1>11
     DEF Trigger, AutoTrigger, MarkTerminated, Relaunch, Act, SetAutoReview, Push, Cancel,
         CancelEnd, Die,
         vars, Submit, Send, Persist, Mark, review
<1> QED BY <1>3, <1>4, <1>5, <1>6, <1>7, <1>8, <1>9, <1>10, <1>11 DEF Next

\* A restoration has read all the runs there are.
SeenWhole ==
  job.at = "restore" =>
    DOMAIN job.seen = Ids /\ \A r \in Ids : job.seen[r].h = runs[r].h

\* The places of the table, for jobs and submissions that name them.
JobType(ids) ==
  [at : {None, "begun", "ready", "planned", "launched", "restore", "restored"},
   h : Harnesses \cup {None}, auto : BOOLEAN, over : BOOLEAN, sha : Heads \cup {0},
   seen : Seq(Run), had : BOOLEAN, new : SUBSET ids]

\* Jobs and submissions name runs that exist.
LEMMA ActsStep ==
  ASSUME TypeOK, SeenWhole, [Next]_vars
  PROVE  ActsType'
<1>1. runs \in Seq(Run) /\ runs' \in Seq(Run) /\ Ids \subseteq Ids'
  BY RunsGrow DEF Longer, TypeOK, ReviewType
<1>2. Job = JobType(Ids) /\ Job' = JobType(Ids') /\ JobType(Ids) \subseteq JobType(Ids')
  BY <1>1 DEF Job, JobType
<1>3. /\ job \in JobType(Ids) /\ (job.at # None => job.h \in Harnesses)
      /\ job.at \in {"begun", "ready"} => job.sha \in Heads
  BY <1>2 DEF TypeOK, ActsType
<1>4. NoJob \in JobType(Ids) /\ NoJob.at = None BY <1>1 DEF NoJob, JobType, None
<1> DEFINE JobGood == /\ job' \in JobType(Ids') /\ (job'.at # None => job'.h \in Harnesses)
                      /\ job'.at \in {"begun", "ready"} => job'.sha \in Heads
<1>5. JobGood
  <2>1. CASE UNCHANGED job BY <1>2, <1>3, <2>1
  <2>2. CASE Unlock BY <1>2, <1>4, <2>2 DEF Unlock, None
  <2>3. CASE Trigger \/ AutoTrigger
    <3>1. PICK h \in Harnesses, auto \in BOOLEAN, over \in BOOLEAN : Begin(h, auto, over)
      BY <2>3 DEF Trigger, AutoTrigger, TypeOK, ReviewType
    <3> QED BY <1>1, <1>4, <3>1 DEF Begin, NoJob, JobType, TypeOK, WorkerType
  <2>4. CASE TriggerPrepare
    BY <1>1, <1>2, <1>3, <2>2, <2>4 DEF TriggerPrepare, JobType, None
  <2>5. CASE TriggerPlan
    <3>1. ASSUME NEW left, Adds(left) PROVE JobGood
      <4>1. Len(runs) + 1 \in Ids'
        <5>1. left \in Seq(Run) /\ Len(left) = Len(runs) BY <3>1 DEF Adds, Keeps
        <5>2. DOMAIN runs' = 1..(Len(left) + 1)
          BY <1>1, <3>1, <5>1 DEF Adds
        <5> QED BY <1>1, <5>1, <5>2 DEF Ids
      <4>2. HadRunning \in BOOLEAN BY DEF HadRunning, Running
      <4>3. <<>> \in Seq(Run) OBVIOUS
      <4> QED BY <1>2, <1>3, <3>1, <4>1, <4>2, <4>3 DEF Adds, JobType, None
    <3> HIDE DEF JobGood
    <3> QED BY <2>2, <2>5, <3>1, PlanRuns
  <2>6. CASE Notify \/ Spawn
    BY <1>2, <1>3, <2>2, <2>6 DEF Notify, Spawn, Failed, JobType, None
  <2>7. CASE TriggerEnd \/ RestoreEnd BY <2>2, <2>7 DEF TriggerEnd, RestoreEnd
  <2>8. CASE Switch \/ RestoreReviewer
    <3>1. PICK h \in Harnesses : BringBack(h) \/ UNCHANGED job
      BY <2>8 DEF Switch, RestoreReviewer, TypeOK, ReviewType
    <3>2. CASE job' = [NoJob EXCEPT !.at = "restore", !.h = h, !.seen = runs]
      BY <1>1, <1>2, <1>4, <3>2 DEF NoJob, JobType, None
    <3> QED BY <2>1, <3>1, <3>2 DEF BringBack
  <2>9. CASE RestoreTerminal
    <3>1. CASE Unlock BY <2>2, <3>1
    <3>2. ASSUME NEW fresh \in BOOLEAN,
                 job' = [job EXCEPT !.at = "restored", !.seen = <<>>, !.new = Lost(fresh)],
                 UNCHANGED runs
          PROVE  JobGood
      <4>1. Lost(fresh) \subseteq Ids'
        BY <1>1, <2>9 DEF Lost, Of, SeenWhole, RestoreTerminal
      <4>2. <<>> \in Seq(Run) OBVIOUS
      <4> QED BY <1>2, <1>3, <3>2, <2>9, <4>1, <4>2 DEF JobType, None, RestoreTerminal
    <3>3. rows[job.h].native \in BOOLEAN BY <1>3, <2>9 DEF RestoreTerminal, None, TypeOK, ReviewType
    <3> HIDE DEF JobGood
    <3> QED BY <2>9, <3>1, <3>2, <3>3 DEF RestoreTerminal
  <2>10. CASE \/ Kill \/ Save \/ MarkTerminated \/ Relaunch \/ Act \/ SetAutoReview \/ Push
              \/ Cancel
              \/ CancelEnd \/ PaneDies \/ UNCHANGED vars
              \/ \E s \in Submits : Submit(s) \/ Send(s) \/ Persist(s) \/ Mark(s)
    BY <2>1, <2>10
       DEF Kill, Save, Teardown, MarkTerminated, Relaunch, Act, SetAutoReview, Push, Cancel,
           CancelEnd,
           PaneDies, vars, Submit, Send, Persist, Mark, acts
  <2>11. CASE Die BY <2>2, <2>11 DEF Die, Unlock
  <2> HIDE DEF JobGood
  <2> QED BY <2>3, <2>4, <2>5, <2>6, <2>7, <2>8, <2>9, <2>10, <2>11 DEF Next
<1>6. cancel' \in Harnesses \cup {None}
  BY DEF Next, Trigger, AutoTrigger, TriggerPrepare, TriggerPlan, Notify, Spawn, TriggerEnd,
         Switch, RestoreReviewer, RestoreTerminal, RestoreEnd, Kill, Save, Teardown,
         MarkTerminated, Relaunch, Act, SetAutoReview, Push, Cancel, CancelEnd, PaneDies,
         Submit, Send,
         Persist, Mark, Die, vars, acts, Target, Handled, TypeOK, ActsType, ReviewType
<1>7. /\ sub' \in [Submits -> [at : {None, "send", "persist", "mark"}, r : Ids' \cup {0}]]
      /\ \A s \in Submits : sub'[s].at # None => sub'[s].r \in Ids'
  <2>1. CASE UNCHANGED sub BY <1>1, <2>1 DEF TypeOK, ActsType
  <2>2. ASSUME NEW s \in Submits, NEW at \in {None, "persist", "mark"}, Goto(s, at),
               sub[s].at # None
        PROVE  <1>7!1 /\ <1>7!2
    BY <1>1, <2>2 DEF TypeOK, ActsType, Goto, NoSub, None
  <2>3. ASSUME NEW s \in Submits, Submit(s) PROVE <1>7!1 /\ <1>7!2
    <3>1. PICK r \in conv[pane.h] : sub' = [sub EXCEPT ![s] = [at |-> "send", r |-> r]]
      BY <2>3 DEF Submit
    <3>2. r \in Ids BY DEF TypeOK, ReviewType
    <3> QED BY <1>1, <3>1, <3>2 DEF TypeOK, ActsType, None
  <2>4. ASSUME NEW s \in Submits, Send(s) \/ Persist(s) \/ Mark(s) PROVE <1>7!1 /\ <1>7!2
    BY <2>2, <2>4 DEF Send, Persist, Mark, None
  <2>5. CASE Die BY <2>5 DEF Die, NoSub, None
  <2>6. CASE \/ Trigger \/ AutoTrigger \/ TriggerPrepare \/ TriggerPlan \/ Notify \/ Spawn
             \/ TriggerEnd \/ Switch \/ RestoreReviewer \/ RestoreTerminal \/ RestoreEnd
             \/ Kill \/ Save \/ MarkTerminated \/ Relaunch \/ Act \/ SetAutoReview \/ Push
             \/ Cancel \/ CancelEnd \/ PaneDies \/ UNCHANGED vars
    BY <2>1, <2>6
       DEF Trigger, AutoTrigger, TriggerPrepare, TriggerPlan, Notify, Spawn, TriggerEnd,
           Switch, RestoreReviewer, RestoreTerminal, RestoreEnd, Kill, Save, Teardown,
           MarkTerminated, Relaunch, Act, SetAutoReview, Push, Cancel, CancelEnd, PaneDies,
           vars, acts
  <2> QED BY <2>3, <2>4, <2>5, <2>6 DEF Next
<1> QED BY <1>2, <1>5, <1>6, <1>7 DEF ActsType

\* How often the worker was told, action by action: a trigger adds a run nobody was told
\* of, and a Send tells of its own.
LEMMA WordsStep ==
  ASSUME TypeOK, [Next]_vars
  PROVE  WordsType'
<1>1. runs \in Seq(Run) /\ runs' \in Seq(Run) /\ Ids \subseteq Ids'
  BY RunsGrow DEF Longer, TypeOK, ReviewType
<1>2. told \in Seq(Nat) /\ Len(told) = Len(runs) /\ DOMAIN told = Ids
  BY <1>1 DEF TypeOK, WordsType, Ids
<1>3. told' \in Seq(Nat) /\ Len(told') = Len(runs')
  <2>1. CASE TriggerPlan
    <3>1. CASE Keeps(runs, runs') /\ UNCHANGED told BY <1>2, <3>1 DEF Keeps
    <3>2. ASSUME NEW left, Adds(left)
          PROVE  told' \in Seq(Nat) /\ Len(told') = Len(runs')
      <4>1. left \in Seq(Run) /\ Len(left) = Len(runs) BY <3>2 DEF Adds, Keeps
      <4>2. Len(runs') = Len(left) + 1 BY <1>1, <3>2, <4>1 DEF Adds
      <4> QED BY <1>2, <3>2, <4>1, <4>2 DEF Adds
    <3> QED BY <2>1, <3>1, <3>2, PlanRuns
  <2>2. CASE ~TriggerPlan
    <3>1. Len(runs') = Len(runs) BY <2>2, RunsKept DEF Keeps
    <3>2. CASE UNCHANGED told BY <1>2, <3>1, <3>2
    <3>3. ASSUME NEW s \in Submits, Send(s)
          PROVE  told' \in Seq(Nat) /\ Len(told') = Len(told)
      <4>1. sub[s].r \in DOMAIN told
        BY <1>2, <3>3 DEF TypeOK, ActsType, Send, None
      <4>2. told[sub[s].r] + 1 \in Nat BY <1>2, <4>1
      <4>3. UNCHANGED told \/ told' = [told EXCEPT ![sub[s].r] = @ + 1]
        BY <3>3 DEF Send
      <4>4. told' \in [DOMAIN told -> Nat] BY <1>2, <4>1, <4>2, <4>3
      <4> QED BY <1>2, <4>4, SameLength
    <3>4. CASE ~\E s \in Submits : Send(s)
      <4>1. UNCHANGED told
        BY <2>2, <3>4
           DEF Next, Trigger, AutoTrigger, TriggerPrepare, Notify, Spawn, TriggerEnd,
               Switch, RestoreReviewer, RestoreTerminal, RestoreEnd, Kill, Save, Teardown,
               MarkTerminated, Relaunch, Act, SetAutoReview, Push, Cancel, CancelEnd, PaneDies,
               Submit,
               Persist, Mark, Die, vars, words
      <4> QED BY <3>2, <4>1
    <3> QED BY <1>2, <3>1, <3>3, <3>4
  <2> QED BY <2>1, <2>2
<1>4. sent' \subseteq Ids'
  <2>1. CASE UNCHANGED sent BY <1>1, <2>1 DEF TypeOK, WordsType
  <2>2. ASSUME NEW s \in Submits, Persist(s) PROVE sent' \subseteq Ids'
    BY <1>1, <2>2 DEF TypeOK, WordsType, ActsType, Persist, None
  <2>3. UNCHANGED sent \/ \E s \in Submits : Persist(s)
    BY DEF Next, Trigger, AutoTrigger, TriggerPrepare, TriggerPlan, Notify, Spawn,
           TriggerEnd, Switch, RestoreReviewer, RestoreTerminal, RestoreEnd, Kill, Save,
           Teardown, MarkTerminated, Relaunch, Act, SetAutoReview, Push, Cancel, CancelEnd,
           PaneDies,
           Submit, Send, Mark, Die, vars, words
  <2> QED BY <2>1, <2>2, <2>3
<1>5. torn' \subseteq {"ask", "tell"} \X Ids'
  <2>1. CASE UNCHANGED torn BY <1>1, <2>1 DEF TypeOK, WordsType
  <2>2. ASSUME NEW s \in Submits, Send(s) PROVE torn' \subseteq {"ask", "tell"} \X Ids'
    <3>1. sub[s].r \in Ids BY <2>2 DEF TypeOK, ActsType, Send, None
    <3>2. torn' \subseteq torn \cup {<<"tell", sub[s].r>>} BY <2>2 DEF Send
    <3> QED BY <1>1, <3>1, <3>2 DEF TypeOK, WordsType
  <2>3. CASE Die
    <3>1. job.new \subseteq Ids BY DEF TypeOK, ActsType, Job
    <3>2. \A s \in Submits : sub[s].at = "persist" => sub[s].r \in Ids
      BY DEF TypeOK, ActsType, None
    <3> QED BY <1>1, <2>3, <3>1, <3>2 DEF TypeOK, WordsType, Die
  <2>4. UNCHANGED torn \/ Die \/ \E s \in Submits : Send(s)
    BY DEF Next, Trigger, AutoTrigger, TriggerPrepare, TriggerPlan, Notify, Spawn,
           TriggerEnd, Switch, RestoreReviewer, RestoreTerminal, RestoreEnd, Kill, Save,
           Teardown, MarkTerminated, Relaunch, Act, SetAutoReview, Push, Cancel, CancelEnd,
           PaneDies,
           Submit, Persist, Mark, vars, words
  <2> QED BY <2>1, <2>2, <2>3, <2>4
<1> QED BY <1>3, <1>4, <1>5 DEF WordsType

\* A bound that grows is still one.
LEMMA Within ==
  ASSUME NEW a \in Nat, NEW b \in Nat, NEW c \in Nat, a <= b + 1, b <= c
  PROVE  a <= c + 1
OBVIOUS

\* A head is pushed by an event.
LEMMA WorkerStep ==
  ASSUME TypeOK, HeadSeen, [Next]_vars
  PROVE  WorkerType' /\ events' \in 0..MaxEvents /\ HeadSeen'
<1>1. CASE Push
  BY <1>1, ReviewAssumption DEF TypeOK, WorkerType, HeadSeen, Heads, Push, Event
<1>2. CASE ~Push
  <2>1. UNCHANGED head
    BY <1>2
       DEF Next, Trigger, AutoTrigger, TriggerPrepare, TriggerPlan, Notify, Spawn,
           TriggerEnd, Switch, RestoreReviewer, RestoreTerminal, RestoreEnd, Kill, Save,
           Teardown, MarkTerminated, Relaunch, Act, SetAutoReview, Cancel, CancelEnd, PaneDies,
           Submit,
           Send, Persist, Mark, Die, vars
  <2>2. events' \in 0..MaxEvents /\ events <= events'
    <3>1. UNCHANGED events \/ Event
      BY DEF Next, Trigger, AutoTrigger, TriggerPrepare, TriggerPlan, Notify, Spawn,
             TriggerEnd, Switch, RestoreReviewer, RestoreTerminal, RestoreEnd, Kill, Save,
             Teardown, MarkTerminated, Relaunch, Act, SetAutoReview, Push, Cancel, CancelEnd,
             PaneDies,
             Submit, Send, Persist, Mark, Die, vars
    <3> QED BY <3>1, ReviewAssumption DEF Event, TypeOK
  <2>3. worker' \in [act : Acts, dead : BOOLEAN, op : {None, "kill", "save", "restore"},
                   auto : BOOLEAN]
    <3>1. CASE UNCHANGED worker BY <3>1 DEF TypeOK, WorkerType
    <3>2. CASE RestoreReviewer \/ Kill \/ Save \/ MarkTerminated \/ Die
      BY <3>2
         DEF TypeOK, WorkerType, RestoreReviewer, Kill, Save, TornDown, HalfDown,
             MarkTerminated, Die
    <3>3. CASE Relaunch BY <3>3, ReviewAssumption DEF TypeOK, WorkerType, Relaunch
    <3>4. CASE Act \/ SetAutoReview BY <3>4 DEF TypeOK, WorkerType, Act, SetAutoReview
    <3>5. CASE \/ Trigger \/ AutoTrigger \/ TriggerPrepare \/ TriggerPlan \/ Notify \/ Spawn
               \/ TriggerEnd \/ Switch \/ RestoreTerminal \/ RestoreEnd \/ Cancel \/ CancelEnd
               \/ PaneDies \/ UNCHANGED vars
               \/ \E s \in Submits : Submit(s) \/ Send(s) \/ Persist(s) \/ Mark(s)
      BY <3>1, <3>5
         DEF Trigger, AutoTrigger, TriggerPrepare, TriggerPlan, Notify, Spawn, TriggerEnd,
             Switch, RestoreTerminal, RestoreEnd, Cancel, CancelEnd, PaneDies, vars, Submit,
             Send, Persist, Mark
    <3> QED BY <1>2, <3>1, <3>2, <3>3, <3>4, <3>5 DEF Next
  <2>4. events \in Nat /\ head \in Nat /\ MaxEvents \in Nat /\ events' \in Nat
    BY <2>2, ReviewAssumption DEF TypeOK, WorkerType, Heads
  <2>5. HeadSeen' BY <2>1, <2>2, <2>4, Within DEF HeadSeen
  <2>6. head' \in Heads' BY <2>1 DEF TypeOK, WorkerType, Heads
  <2> QED BY <2>2, <2>3, <2>5, <2>6 DEF WorkerType
<1> QED BY <1>1, <1>2

-----------------------------------------------------------------------------
(* One pane: whoever is given it has taken it from the others.              *)

\* The job has dropped the handles of the other reviewers, and what it brought up is its own.
Prepared ==
  /\ job.at \in {"ready", "planned", "launched", "restore", "restored"} =>
       \A h \in Harnesses \ {job.h} : ~rows[h].handle
  /\ job.at \in {"launched", "restored"} /\ pane.alive => pane.h = job.h

\* Dropping takes handles away, and with the pane's own handle the pane.
LEMMA DroppedHandles ==
  ASSUME ReviewType, OnePane, NEW hs \in SUBSET Harnesses, NEW g \in Harnesses
  PROVE  /\ Dropped(hs)[g].handle <=> rows[g].handle /\ g \notin hs
         /\ PaneDropped(hs).alive => pane.alive /\ PaneDropped(hs) = pane
BY DEF ReviewType, Dropped, PaneDropped

\* So it is when more panes are taken than handles cleared.
LEMMA ShortOf ==
  ASSUME ReviewType, OnePane, NEW hs \in SUBSET Harnesses, NEW gone \in SUBSET Harnesses,
         rows' = Dropped(hs), pane' \in {PaneDropped(hs), PaneDropped(gone)}
  PROVE  OnePane'
<1>1. \A g \in Harnesses : rows'[g].handle => rows[g].handle BY DroppedHandles
<1>2. pane'.alive => pane.alive /\ pane' = pane BY DroppedHandles DEF ReviewType, PaneDropped
<1> QED BY <1>1, <1>2 DEF OnePane

LEMMA ShortPane ==
  ASSUME ReviewType, OnePane, NEW hs \in SUBSET Harnesses, StopsShort(hs)
  PROVE  OnePane'
<1>1. PICK gone \in SUBSET hs, cleared \in SUBSET hs :
        rows' = Dropped(cleared) /\ pane' = PaneDropped(gone)
  BY DEF StopsShort
<1> QED BY <1>1, ShortOf

\* Every step keeps the handle with the reviewer that runs in the pane.
LEMMA PaneStep ==
  ASSUME TypeOK, Prepared, [Next]_vars
  PROVE  OnePane' /\ Prepared'
<1> USE DEF TypeOK, None
<1>1. CASE TriggerPrepare
  <2>1. job.h \in Harnesses /\ job \in Job BY <1>1 DEF ActsType, TriggerPrepare
  <2>2. Others(job.h) \subseteq Harnesses BY DEF Others
  <2>3. CASE StopsShort(Others(job.h)) /\ Unlock
    <3>1. OnePane' BY <2>2, <2>3, ShortPane
    <3> QED BY <2>3, <3>1 DEF Prepared, Unlock, NoJob
  <2>4. CASE ~(StopsShort(Others(job.h)) /\ Unlock)
    <3>1. job'.h = job.h /\ job'.at = "ready" BY <1>1, <2>1, <2>4 DEF TriggerPrepare, Job
    <3>2. rows' = Dropped(Others(job.h)) /\ pane' = PaneDropped(Others(job.h))
      BY <1>1, <2>4 DEF TriggerPrepare
    <3>3. \A g \in Harnesses \ {job.h} : ~rows'[g].handle
      BY <2>2, <3>2, DroppedHandles DEF Others
    <3>4. OnePane' BY <2>2, <3>2, DroppedHandles DEF OnePane
    <3> QED BY <3>1, <3>3, <3>4 DEF Prepared
  <2> QED BY <2>3, <2>4
<1>2. CASE Switch \/ RestoreReviewer
  <2>1. PICK h \in Harnesses : BringBack(h) \/ (StopsShort(Others(h)) /\ UNCHANGED job)
    BY <1>2 DEF Switch, RestoreReviewer, ReviewType
  <2>2. Others(h) \subseteq Harnesses BY DEF Others
  <2>s. CASE StopsShort(Others(h)) /\ UNCHANGED job
    <3>1. OnePane' BY <2>2, <2>s, ShortPane
    <3>2. job'.at = None BY <1>2, <2>s DEF Switch, RestoreReviewer, Free
    <3> QED BY <3>1, <3>2 DEF Prepared
  <2>b. CASE BringBack(h)
    <3>1. \A g \in Harnesses \ {h} : ~rows'[g].handle
      BY <2>2, <2>b, DroppedHandles DEF BringBack, Others
    <3>2. OnePane' BY <2>2, <2>b, DroppedHandles DEF BringBack, OnePane
    <3>3. job'.at = None \/ (job'.at = "restore" /\ job'.h = h)
      <4>1. CASE UNCHANGED job BY <1>2, <4>1 DEF Switch, RestoreReviewer, Free
      <4>2. CASE job' = [NoJob EXCEPT !.at = "restore", !.h = h, !.seen = runs]
        BY <4>2 DEF NoJob
      <4> QED BY <2>b, <4>1, <4>2 DEF BringBack
    <3> QED BY <3>1, <3>2, <3>3 DEF Prepared
  <2> QED BY <2>1, <2>s, <2>b
<1>3. CASE Kill \/ Save
  <2>1. Handled \subseteq Harnesses BY DEF Handled
  <2>2. PICK hs \in {{}, Handled} :
          rows' = Dropped(hs) /\ pane' \in {PaneDropped(hs), PaneDropped(Handled)}
    BY <1>3 DEF Kill, Save, TornDown, HalfDown
  <2>4. OnePane' BY <2>1, <2>2, ShortOf
  <2>3. job'.at = None BY <1>3 DEF Kill, Save, Teardown, Free, acts
  <2> QED BY <2>3, <2>4 DEF Prepared
<1>4. CASE TriggerPlan
  <2>1. \A g \in Harnesses : rows'[g].handle = rows[g].handle
    BY <1>4 DEF TriggerPlan, ReviewType
  <2>2. UNCHANGED pane BY <1>4 DEF TriggerPlan
  <2>3. job'.at = None \/ (job'.at = "planned" /\ job'.h = job.h)
    <3>1. CASE Unlock BY <3>1 DEF Unlock, NoJob
    <3>2. ASSUME NEW left, Adds(left) PROVE job'.at = "planned" /\ job'.h = job.h
      BY <3>2 DEF Adds, ActsType, Job
    <3> QED BY <1>4, <3>1, <3>2, PlanRuns
  <2>4. job.at = "ready" BY <1>4 DEF TriggerPlan
  <2> QED BY <2>1, <2>2, <2>3, <2>4 DEF Prepared, OnePane
<1>5. CASE Notify \/ Spawn \/ RestoreTerminal
  <2>1. job.at \in {"planned", "restore"} /\ job \in Job /\ job.h \in Harnesses /\ UNCHANGED rows
    BY <1>5 DEF Notify, Spawn, RestoreTerminal, ActsType
  <2>2. \A g \in Harnesses \ {job.h} : ~rows[g].handle BY <2>1 DEF Prepared
  <2>3. job'.at = None \/ (job'.at \in {"launched", "restored"} /\ job'.h = job.h)
    <3>1. CASE Unlock BY <3>1 DEF Unlock, NoJob
    <3>2. CASE job' = [job EXCEPT !.at = "launched"] BY <2>1, <3>2 DEF Job
    <3>3. ASSUME NEW new, job' = [job EXCEPT !.at = "restored", !.seen = <<>>, !.new = new]
          PROVE  job'.at = "restored" /\ job'.h = job.h
      BY <2>1, <3>3 DEF Job
    <3>4. \/ Unlock \/ job' = [job EXCEPT !.at = "launched"]
          \/ \E new : job' = [job EXCEPT !.at = "restored", !.seen = <<>>, !.new = new]
      BY <1>5 DEF Notify, Spawn, RestoreTerminal, Failed
    <3> QED BY <3>1, <3>2, <3>3, <3>4
  <2>4. CASE Notify
    <3>1. rows[job.h].handle /\ pane.alive /\ UNCHANGED pane BY <2>4 DEF Notify, Reusable
    <3>2. pane.h = job.h BY <2>1, <3>1 DEF OnePane
    <3> QED BY <2>1, <2>2, <2>3, <3>1, <3>2 DEF OnePane, Prepared
  <2>5. CASE Spawn \/ RestoreTerminal
    <3>1. \/ pane' = [alive |-> TRUE, h |-> job.h]
          \/ (UNCHANGED pane \/ pane' = [pane EXCEPT !.alive = FALSE]) /\ Unlock
      BY <2>5 DEF Spawn, RestoreTerminal, Failed
    <3>2. CASE pane' = [alive |-> TRUE, h |-> job.h]
      BY <2>1, <2>2, <2>3, <3>2 DEF OnePane, Prepared
    <3>3. CASE (UNCHANGED pane \/ pane' = [pane EXCEPT !.alive = FALSE]) /\ Unlock
      BY <2>1, <3>3 DEF OnePane, Prepared, ReviewType, Unlock, NoJob
    <3> QED BY <3>1, <3>2, <3>3
  <2> QED BY <1>5, <2>4, <2>5
<1>6. CASE TriggerEnd \/ RestoreEnd
  <2>1. job.at \in {"launched", "restored"} /\ job.h \in Harnesses /\ Unlock
    BY <1>6 DEF TriggerEnd, RestoreEnd, ActsType
  <2>2. \A g \in Harnesses \ {job.h} : rows'[g].handle = rows[g].handle /\ ~rows[g].handle
    BY <1>6, <2>1 DEF TriggerEnd, RestoreEnd, ReviewType, Prepared
  <2>3. UNCHANGED pane \/ pane' = [pane EXCEPT !.alive = FALSE] BY <1>6 DEF TriggerEnd, RestoreEnd
  <2>4. pane'.alive => pane' = pane /\ pane.alive BY <2>3 DEF ReviewType
  <2>5. OnePane' BY <2>1, <2>2, <2>4 DEF OnePane, Prepared
  <2> QED BY <2>1, <2>5 DEF Unlock, NoJob, Prepared
<1>7. CASE PaneDies
  BY <1>7 DEF PaneDies, OnePane, Prepared, ReviewType, acts
<1>8. CASE \/ Trigger \/ AutoTrigger \/ MarkTerminated \/ Relaunch \/ Act \/ SetAutoReview
           \/ Push \/ Cancel
           \/ CancelEnd \/ Die \/ UNCHANGED vars
           \/ \E s \in Submits : Submit(s) \/ Send(s) \/ Persist(s) \/ Mark(s)
  <2>1. UNCHANGED <<rows, pane>>
    BY <1>8
       DEF Trigger, AutoTrigger, MarkTerminated, Relaunch, Act, SetAutoReview, Push, Cancel,
           CancelEnd, Die,
           vars, Submit, Send, Persist, Mark, review
  <2>2. UNCHANGED job \/ job'.at \in {None, "begun"}
    <3>1. CASE Trigger \/ AutoTrigger
      BY <3>1 DEF Trigger, AutoTrigger, Begin, NoJob
    <3>2. CASE Die BY <3>2 DEF Die, NoJob
    <3>3. CASE ~Trigger /\ ~AutoTrigger /\ ~Die
      BY <1>8, <3>3
         DEF MarkTerminated, Relaunch, Act, SetAutoReview, Push, Cancel, CancelEnd, vars,
             Submit, Send,
             Persist, Mark, acts
    <3> QED BY <3>1, <3>2, <3>3
  <2> QED BY <2>1, <2>2 DEF OnePane, Prepared
<1> QED BY <1>1, <1>2, <1>3, <1>4, <1>5, <1>6, <1>7, <1>8 DEF Next

-----------------------------------------------------------------------------
(* A run in progress is known to its reviewer.                              *)

\* What a job has recorded: a trigger the only run of its reviewer that is in progress,
\* which by the time its handle is stored the conversation knows of.
JobRuns ==
  /\ job.at \in {None, "begun", "ready", "restore"} => job.new = {}
  /\ job.at \in {"planned", "launched"} => \A r \in job.new : runs[r].h = job.h
  /\ job.at = "planned" => \A r \in Ids : Open(runs, r) /\ runs[r].h = job.h => r \in job.new
  /\ job.at = "launched" => job.new \subseteq conv[job.h]

\* Whether or not the pane is alive: for it may come back with the conversation it had.
Known ==
  \A r \in Ids : Open(runs, r) =>
    r \in conv[runs[r].h] \/ r \in job.new \/ <<"ask", r>> \in torn

KnowsInv == SeenWhole /\ JobRuns /\ Known

\* A run names its reviewer.
LEMMA ReviewersOfRuns ==
  ASSUME NEW rs \in Seq(Run), NEW r \in DOMAIN rs
  PROVE  rs[r].h \in Harnesses
<1>1. rs[r] \in Run OBVIOUS
<1> QED BY <1>1 DEF Run

\* A step that leaves job and conversations alone, and opens no run.
LEMMA KnowsKept ==
  ASSUME TypeOK, KnowsInv, Keeps(runs, runs'), UNCHANGED <<job, conv>>, torn \subseteq torn'
  PROVE  KnowsInv'
<1>1. Ids' = Ids /\ \A r \in Ids : runs'[r].h = runs[r].h /\ (Open(runs', r) => Open(runs, r))
  BY DEF Keeps, Ids
<1>2. job.new \subseteq Ids BY DEF TypeOK, ActsType, Job
<1>3. SeenWhole' BY <1>1 DEF KnowsInv, SeenWhole
<1>4. JobRuns' BY <1>1, <1>2 DEF KnowsInv, JobRuns
<1>5. Known' BY <1>1 DEF KnowsInv, Known
<1> QED BY <1>3, <1>4, <1>5 DEF KnowsInv

\* A job that ends leaves the runs it closes, and the others as they were known.
LEMMA KnowsUnlocked ==
  ASSUME TypeOK, KnowsInv, Keeps(runs, runs'), Unlock, torn \subseteq torn',
         \A r \in Ids : Open(runs', r) =>
           \/ r \in conv'[runs[r].h] \/ <<"ask", r>> \in torn'
  PROVE  KnowsInv'
<1>1. Ids' = Ids /\ \A r \in Ids : runs'[r].h = runs[r].h BY DEF Keeps, Ids
<1>2. job'.at = None /\ job'.new = {} BY DEF Unlock, NoJob
<1>3. SeenWhole' /\ JobRuns' BY <1>2 DEF SeenWhole, JobRuns, None
<1>4. Known' BY <1>1 DEF Known
<1> QED BY <1>3, <1>4 DEF KnowsInv

\* A trigger fails what it superseded before it records its run, so that no other run
\* of its reviewer is in progress.
LEMMA PlanKnows ==
  ASSUME TypeOK, KnowsInv, TriggerPlan
  PROVE  KnowsInv'
<1>1. job.at = "ready" /\ job.new = {} /\ UNCHANGED <<conv, torn>>
  BY DEF TriggerPlan, KnowsInv, JobRuns
<1>2. CASE Keeps(runs, runs') /\ Unlock
  BY <1>1, <1>2, KnowsUnlocked DEF KnowsInv, Known, Keeps, Ids
<1>3. ASSUME NEW left, Adds(left) PROVE KnowsInv'
  <2> DEFINE n == Len(runs) + 1
  <2>1. job \in Job /\ runs \in Seq(Run) BY DEF TypeOK, ActsType, ReviewType
  <2>2. job'.at = "planned" /\ job'.h = job.h /\ job'.new = {n}
    BY <1>3, <2>1 DEF Adds, Job
  <2>3. /\ left \in Seq(Run) /\ Len(left) = Len(runs) /\ DOMAIN left = Ids
        /\ \A r \in Ids : left[r].h = runs[r].h /\ (Open(left, r) => Open(runs, r))
    BY <1>3 DEF Adds, Keeps, Ids
  <2>4. runs' \in Seq(Run) BY RunsGrow DEF Longer, Next
  <2>5. NewRun \in Run
    BY <1>1 DEF NewRun, Run, TypeOK, ActsType, Job, None
  <2>6. /\ Ids' = 1..n /\ Ids = 1..Len(runs) /\ Len(runs) \in Nat
        /\ runs'[n] = NewRun /\ \A r \in Ids : runs'[r] = left[r]
    BY <1>3, <2>1, <2>3, <2>4, <2>5, AppendProperties DEF Adds, Ids
  <2>7. \A r \in Ids' : r \in Ids \/ r = n BY <2>6
  <2>8. runs'[n].h = job.h BY <2>6 DEF NewRun
  <2>9. \A r \in Ids : Open(left, r) => runs[r].h # job.h
    BY <1>3, <2>3 DEF Adds, Duplicate, Of, Keeps
  <2>10. JobRuns'
    BY <2>2, <2>3, <2>6, <2>7, <2>8, <2>9 DEF JobRuns, Open, None
  <2>11. Known'
    BY <1>1, <2>2, <2>3, <2>6, <2>7 DEF KnowsInv, Known, Open
  <2>12. SeenWhole' BY <2>2 DEF SeenWhole
  <2> QED BY <2>10, <2>11, <2>12 DEF KnowsInv
<1> QED BY <1>2, <1>3, PlanRuns

\* The prompt is in the conversation before the trigger goes on; a trigger that cannot
\* prompt fails its run.
LEMMA PromptKnows ==
  ASSUME TypeOK, KnowsInv, Notify \/ Spawn
  PROVE  KnowsInv'
<1>1. /\ job.at = "planned" /\ job \in Job /\ job.h \in Harnesses /\ UNCHANGED torn
      /\ runs \in Seq(Run) /\ conv \in [Harnesses -> SUBSET Ids] /\ job.new \subseteq Ids
  BY DEF Notify, Spawn, TypeOK, ActsType, ReviewType, WordsType, words, None, Job
<1>2. \A r \in Ids : runs[r].h \in Harnesses BY <1>1, ReviewersOfRuns DEF Ids
<1>3. CASE job' = [job EXCEPT !.at = "launched"] /\ UNCHANGED runs
  <2>1. PICK fresh \in BOOLEAN : conv' = Taught(fresh)
    <3>1. rows[job.h].native \in BOOLEAN BY <1>1 DEF TypeOK, ReviewType
    <3> QED BY <1>1, <1>3, <3>1 DEF Notify, Spawn, Failed, Unlock, NoJob, None
  <2>2. job'.at = "launched" /\ job'.h = job.h /\ job'.new = job.new BY <1>1, <1>3 DEF Job
  <2>3. /\ job.new \subseteq conv'[job.h]
        /\ \A h \in Harnesses \ {job.h} : conv'[h] = conv[h]
    BY <1>1, <2>1 DEF Taught
  <2>4. JobRuns' BY <1>1, <1>3, <2>2, <2>3 DEF KnowsInv, JobRuns, None
  <2>5. Known'
    BY <1>1, <1>2, <1>3, <2>2, <2>3 DEF KnowsInv, Known, JobRuns, Ids
  <2>6. SeenWhole' BY <2>2 DEF SeenWhole
  <2> QED BY <2>4, <2>5, <2>6 DEF KnowsInv
<1>4. CASE Failed
  <2>1. /\ Keeps(runs, runs')
        /\ \A r \in Ids : Open(runs', r) <=> Open(runs, r) /\ r \notin job.new
    BY <1>1, <1>4, EndedKeeps DEF Failed, FailOf, Ids
  <2>2. \A h \in Harnesses \ {job.h} : conv'[h] = conv[h]
    BY <1>1 DEF Notify, Spawn, Taught
  <2>3. \A r \in Ids : Open(runs', r) => runs[r].h # job.h
    BY <1>1, <2>1 DEF KnowsInv, JobRuns
  <2>4. \A r \in Ids : Open(runs', r) => r \in conv'[runs[r].h] \/ <<"ask", r>> \in torn'
    BY <1>1, <1>2, <2>1, <2>2, <2>3 DEF KnowsInv, Known
  <2> QED BY <1>1, <1>4, <2>1, <2>4, KnowsUnlocked DEF Failed
<1> QED BY <1>3, <1>4 DEF Notify, Spawn

\* A reviewer that comes back without its conversation loses what it had begun.
LEMMA RestoreKnows ==
  ASSUME TypeOK, KnowsInv, RestoreTerminal
  PROVE  KnowsInv'
<1>1. /\ job.at = "restore" /\ job \in Job /\ job.h \in Harnesses /\ job.new = {}
      /\ UNCHANGED torn /\ runs \in Seq(Run) /\ conv \in [Harnesses -> SUBSET Ids]
      /\ DOMAIN job.seen = Ids /\ \A r \in Ids : job.seen[r].h = runs[r].h
  BY DEF RestoreTerminal, TypeOK, ActsType, ReviewType, WordsType, words, None, KnowsInv,
         JobRuns, SeenWhole
<1>2. \A r \in Ids : runs[r].h \in Harnesses BY <1>1, ReviewersOfRuns DEF Ids
<1>3. \A r \in Ids : runs[r].h = job.h => r \in Of(job.seen, job.h) BY <1>1 DEF Of
<1>4. ASSUME NEW fresh \in BOOLEAN,
             conv' = (IF fresh THEN [conv EXCEPT ![job.h] = {}] ELSE conv),
             job' = [job EXCEPT !.at = "restored", !.seen = <<>>, !.new = Lost(fresh)],
             UNCHANGED runs
      PROVE  KnowsInv'
  <2>1. job'.at = "restored" /\ job'.new = Lost(fresh) BY <1>1, <1>4 DEF Job
  <2>2. JobRuns' /\ SeenWhole' BY <2>1 DEF JobRuns, SeenWhole, None
  <2>3. \A h \in Harnesses : conv'[h] = conv[h] \/ (fresh /\ h = job.h) BY <1>1, <1>4
  <2>4. Known'
    BY <1>1, <1>2, <1>3, <1>4, <2>1, <2>3 DEF KnowsInv, Known, Lost, Ids
  <2> QED BY <2>2, <2>4 DEF KnowsInv
<1>5. CASE runs' = FailOf(runs, Of(job.seen, job.h)) /\ Unlock
           /\ (UNCHANGED conv \/ conv' = [conv EXCEPT ![job.h] = {}])
  <2>1. /\ Keeps(runs, runs')
        /\ \A r \in Ids : Open(runs', r) <=> Open(runs, r) /\ r \notin Of(job.seen, job.h)
    BY <1>1, <1>5, EndedKeeps DEF FailOf, Ids
  <2>2. \A h \in Harnesses \ {job.h} : conv'[h] = conv[h] BY <1>1, <1>5
  <2>3. \A r \in Ids : Open(runs', r) => r \in conv'[runs[r].h] \/ <<"ask", r>> \in torn'
    BY <1>1, <1>2, <1>3, <2>1, <2>2 DEF KnowsInv, Known
  <2> QED BY <1>1, <1>5, <2>1, <2>3, KnowsUnlocked
<1>6. rows[job.h].native \in BOOLEAN BY <1>1 DEF TypeOK, ReviewType
<1> QED BY <1>4, <1>5, <1>6 DEF RestoreTerminal

\* Every step leaves the runs in progress known.
LEMMA KnowsStep ==
  ASSUME TypeOK, KnowsInv, [Next]_vars
  PROVE  KnowsInv'
<1>1. ~TriggerPlan => Keeps(runs, runs') BY RunsKept
<1>2. job \in Job /\ runs \in Seq(Run) BY DEF TypeOK, ActsType, ReviewType
<1>3. CASE TriggerPlan BY <1>3, PlanKnows
<1>4. CASE Notify \/ Spawn BY <1>4, PromptKnows
<1>5. CASE RestoreTerminal BY <1>5, RestoreKnows
<1>6. CASE TriggerEnd
  <2>1. Keeps(runs, runs') /\ UNCHANGED <<runs, conv, torn>> /\ Unlock
    BY <1>2, <1>6, KeepsSelf DEF TriggerEnd, words
  <2>2. \A r \in Ids : Open(runs, r) => r \in conv[runs[r].h] \/ <<"ask", r>> \in torn
    BY <1>6 DEF KnowsInv, Known, JobRuns, TriggerEnd
  <2> QED BY <2>1, <2>2, KnowsUnlocked
<1>7. CASE RestoreEnd
  <2>1. UNCHANGED <<conv, torn>> /\ Unlock /\ runs' = FailOf(runs, job.new)
    BY <1>7 DEF RestoreEnd, words
  <2>2. /\ Keeps(runs, runs')
        /\ \A r \in Ids : Open(runs', r) <=> Open(runs, r) /\ r \notin job.new
    BY <1>2, <2>1, EndedKeeps DEF FailOf, Ids
  <2> QED BY <2>1, <2>2, KnowsUnlocked DEF KnowsInv, Known
<1>8. CASE Die
  <2>1. Keeps(runs, runs') /\ UNCHANGED <<runs, conv>> /\ Unlock /\ torn \subseteq torn'
    BY <1>2, <1>8, KeepsSelf DEF Die, review, Unlock
  <2>2. \A r \in job.new : job.at # "launched" => <<"ask", r>> \in torn' BY <1>8 DEF Die
  <2>3. \A r \in Ids : Open(runs, r) => r \in conv[runs[r].h] \/ <<"ask", r>> \in torn'
    BY <2>1, <2>2 DEF KnowsInv, Known, JobRuns
  <2> QED BY <2>1, <2>3, KnowsUnlocked
<1>9. CASE Trigger \/ AutoTrigger
  <2>1. Keeps(runs, runs') /\ UNCHANGED <<runs, conv, torn>>
    BY <1>2, <1>9, KeepsSelf DEF Trigger, AutoTrigger, review, words
  <2>2. job.new = {} BY <1>9 DEF Trigger, AutoTrigger, Begin, Free, KnowsInv, JobRuns
  <2>3. job'.at = "begun" /\ job'.new = {} BY <1>9 DEF Trigger, AutoTrigger, Begin, NoJob
  <2>4. Known' BY <2>1, <2>2, <2>3 DEF KnowsInv, Known, Ids
  <2> QED BY <2>3, <2>4 DEF KnowsInv, JobRuns, SeenWhole, None
<1>10. CASE TriggerPrepare
  <2>1. Keeps(runs, runs') BY <1>1, <1>10 DEF TriggerPrepare, TriggerPlan
  <2>2. UNCHANGED <<conv, torn>> /\ job.new = {}
    BY <1>10 DEF TriggerPrepare, words, KnowsInv, JobRuns
  <2>3. job'.at \in {None, "ready"} /\ job'.new = {}
    <3>1. CASE Unlock BY <3>1 DEF Unlock, NoJob
    <3>2. CASE ~Unlock BY <1>2, <1>10, <2>2, <3>2 DEF TriggerPrepare, Job
    <3> QED BY <3>1, <3>2
  <2>4. Known' BY <2>1, <2>2, <2>3 DEF KnowsInv, Known, Keeps, Ids
  <2> QED BY <2>3, <2>4 DEF KnowsInv, JobRuns, SeenWhole, None
<1>11. CASE Switch \/ RestoreReviewer
  <2>1. PICK h : BringBack(h) \/ UNCHANGED job BY <1>11 DEF Switch, RestoreReviewer
  <2>2. Keeps(runs, runs') BY <1>1, <1>11 DEF Switch, RestoreReviewer, TriggerPlan, Free, None
  <2>3. UNCHANGED <<conv, torn>> /\ job.new = {}
    BY <1>11 DEF Switch, RestoreReviewer, Free, words, KnowsInv, JobRuns
  <2>4. CASE UNCHANGED job BY <2>2, <2>3, <2>4, KnowsKept
  <2>5. CASE job' = [NoJob EXCEPT !.at = "restore", !.h = h, !.seen = runs]
    <3>1. job'.at = "restore" /\ job'.new = {} /\ job'.seen = runs BY <2>5 DEF NoJob
    <3>2. SeenWhole' BY <2>2, <3>1 DEF SeenWhole, Keeps, Ids
    <3>3. Known' BY <2>2, <2>3, <3>1 DEF KnowsInv, Known, Keeps, Ids
    <3> QED BY <3>1, <3>2, <3>3 DEF KnowsInv, JobRuns
  <2> QED BY <2>1, <2>4, <2>5 DEF BringBack
<1>12. CASE /\ ~TriggerPlan
            /\ \/ Kill \/ Save \/ MarkTerminated \/ Relaunch \/ Act \/ SetAutoReview \/ Push
               \/ Cancel
               \/ CancelEnd \/ PaneDies \/ UNCHANGED vars
               \/ \E s \in Submits : Submit(s) \/ Send(s) \/ Persist(s) \/ Mark(s)
  <2>1. UNCHANGED <<job, conv>> /\ torn \subseteq torn'
    BY <1>12
       DEF Kill, Save, Teardown, MarkTerminated, Relaunch, Act, SetAutoReview, Push, Cancel,
           CancelEnd,
           PaneDies, vars, review, acts, words, Submit, Send, Persist, Mark
  <2> QED BY <1>1, <1>12, <2>1, KnowsKept
<1> QED BY <1>3, <1>4, <1>5, <1>6, <1>7, <1>8, <1>9, <1>10, <1>11, <1>12 DEF Next

-----------------------------------------------------------------------------
(* Feedback reaches the worker once, and before its run is delivered.        *)

\* Who was told of a run has it remembered, or is about to; and a submission that goes on
\* to mark a run has told of it.
TellInv ==
  /\ \A r \in Ids : told[r] > 0 =>
       \/ r \in sent \/ <<"tell", r>> \in torn
       \/ \E s \in Submits : sub[s].at = "persist" /\ sub[s].r = r
  /\ \A r \in Ids : told[r] > 1 => <<"tell", r>> \in torn
  /\ \A r \in sent : told[r] > 0
  /\ \A s \in Submits : sub[s].at \in {"persist", "mark"} => told[sub[s].r] > 0
  /\ \A r \in Ids : runs[r].st = "delivered" => told[r] > 0

\* A step that neither tells nor delivers.
LEMMA TellKept ==
  ASSUME TypeOK, TellInv, Keeps(runs, runs'), Undelivered(runs, runs'),
         UNCHANGED <<told, sent>>, torn \subseteq torn',
         \A s \in Submits : sub[s].at = "persist" => sub'[s] = sub[s],
         \A s \in Submits : sub'[s].at \in {"persist", "mark"} => sub'[s] = sub[s]
  PROVE  TellInv'
<1>1. Ids' = Ids BY DEF Keeps, Ids
<1>2. \A r \in Ids : runs'[r].st = "delivered" => told[r] > 0
  BY DEF Undelivered, TellInv, Ids
<1> QED BY <1>1, <1>2 DEF TellInv

\* A new run was told to nobody.
LEMMA PlanTells ==
  ASSUME TypeOK, TellInv, TriggerPlan
  PROVE  TellInv'
<1>1. UNCHANGED <<sub, sent, torn>> BY DEF TriggerPlan
<1>2. CASE Keeps(runs, runs') /\ Undelivered(runs, runs') /\ UNCHANGED told
  BY <1>1, <1>2, TellKept
<1>3. ASSUME NEW left, Adds(left) PROVE TellInv'
  <2> DEFINE n == Len(runs) + 1
  <2>1. /\ told \in Seq(Nat) /\ Len(told) = Len(runs) /\ runs \in Seq(Run)
        /\ sent \subseteq Ids /\ torn \subseteq {"ask", "tell"} \X Ids
        /\ \A s \in Submits : sub[s].at # None => sub[s].r \in Ids
    BY DEF TypeOK, WordsType, ReviewType, ActsType
  <2>2. /\ left \in Seq(Run) /\ Len(left) = Len(runs) /\ DOMAIN left = Ids
        /\ \A r \in Ids : left[r].st = "delivered" => runs[r].st = "delivered"
    BY <1>3 DEF Adds, Keeps, Undelivered, Ids
  <2>3. NewRun \in Run
    BY <1>3 DEF Adds, NewRun, Run, TypeOK, ActsType, Job, None
  <2>4. /\ runs' \in Seq(Run) /\ Ids' = 1..n /\ Ids = 1..Len(runs) /\ Len(runs) \in Nat
        /\ runs'[n] = NewRun /\ \A r \in Ids : runs'[r] = left[r]
    BY <1>3, <2>1, <2>2, <2>3, AppendProperties DEF Adds, Ids
  <2>5. told'[n] = 0 /\ \A r \in Ids : told'[r] = told[r]
    BY <1>3, <2>1, <2>4, AppendProperties DEF Adds
  <2>6. \A r \in Ids' : r \in Ids \/ r = n BY <2>4
  <2>7. runs'[n].st = "running" BY <2>4 DEF NewRun
  <2>8. \A r \in Ids : told'[r] > 0 =>
          \/ r \in sent' \/ <<"tell", r>> \in torn'
          \/ \E s \in Submits : sub'[s].at = "persist" /\ sub'[s].r = r
    BY <1>1, <2>5 DEF TellInv
  <2>9. \A r \in Ids : told'[r] > 1 => <<"tell", r>> \in torn' BY <1>1, <2>5 DEF TellInv
  <2>10. \A r \in sent' : told'[r] > 0 BY <1>1, <2>1, <2>5 DEF TellInv
  <2>11. \A s \in Submits : sub'[s].at \in {"persist", "mark"} => told'[sub'[s].r] > 0
    BY <1>1, <2>1, <2>5 DEF TellInv, None
  <2>12. \A r \in Ids : runs'[r].st = "delivered" => told'[r] > 0
    BY <2>2, <2>4, <2>5 DEF TellInv
  <2> HIDE DEF n
  <2>13. ~(told'[n] > 0) /\ ~(told'[n] > 1) /\ runs'[n].st # "delivered" BY <2>5, <2>7
  <2> QED BY <2>6, <2>8, <2>9, <2>10, <2>11, <2>12, <2>13 DEF TellInv
<1> QED BY <1>2, <1>3, PlanRuns

\* One submission at a time tells, and only what is not remembered.
LEMMA SendTells ==
  ASSUME TypeOK, TellInv, NEW s \in Submits, Send(s)
  PROVE  TellInv'
<1> DEFINE r == sub[s].r
<1>1. /\ sub \in [Submits -> [at : {None, "send", "persist", "mark"}, r : Ids \cup {0}]]
      /\ sub[s].at = "send" /\ r \in Ids /\ UNCHANGED <<runs, sent>> /\ Ids' = Ids
      /\ \A t \in Submits : sub[t].at # "persist"
      /\ told \in [Ids -> Nat]
  BY DEF Send, TypeOK, ActsType, WordsType, ReviewType, None, review, Ids
<1>2. \A t \in Submits \ {s} : sub'[t] = sub[t] BY <1>1 DEF Send, Goto
<1>3. CASE Goto(s, None) /\ UNCHANGED <<told, torn>>
  <2>1. sub'[s].at = None BY <1>1, <1>3 DEF Goto, NoSub
  <2> QED BY <1>1, <1>2, <1>3, <2>1 DEF TellInv, None
<1>4. CASE AlreadySent(r) /\ Goto(s, "mark") /\ UNCHANGED <<told, torn>>
  <2>1. sub'[s].r = r BY <1>1, <1>4 DEF Goto, None
  <2> QED BY <1>1, <1>2, <1>4, <2>1 DEF TellInv, AlreadySent
<1>5. CASE ~AlreadySent(r) /\ told' = [told EXCEPT ![r] = @ + 1] /\ Goto(s, "persist")
           /\ UNCHANGED torn
  <2>1. sub'[s].r = r /\ sub'[s].at = "persist" BY <1>1, <1>5 DEF Goto, None
  <2>2. told[r] > 0 => <<"tell", r>> \in torn
    BY <1>1, <1>5 DEF TellInv, AlreadySent
  <2>3. /\ told'[r] = told[r] + 1 /\ told'[r] > 0 /\ (told'[r] > 1 => told[r] > 0)
        /\ \A q \in Ids \ {r} : told'[q] = told[q]
    BY <1>1, <1>5
  <2>4. \A q \in Ids : told'[q] > 0 => q = r \/ told[q] > 0 BY <2>3
  <2>5. \A q \in Ids : told[q] > 0 => told'[q] > 0 BY <2>3
  <2>6. sent \subseteq Ids /\ \A t \in Submits : sub[t].at # None => sub[t].r \in Ids
    BY DEF TypeOK, WordsType, ActsType
  <2>7. \A q \in Ids : told'[q] > 0 =>
          \/ q \in sent' \/ <<"tell", q>> \in torn'
          \/ \E t \in Submits : sub'[t].at = "persist" /\ sub'[t].r = q
    BY <1>1, <1>5, <2>1, <2>4 DEF TellInv
  <2>8. \A q \in Ids : told'[q] > 1 => <<"tell", q>> \in torn'
    BY <1>1, <1>5, <2>2, <2>3 DEF TellInv
  <2>9. \A q \in sent' : told'[q] > 0 BY <1>1, <2>5, <2>6 DEF TellInv
  <2>10. \A t \in Submits : sub'[t].at \in {"persist", "mark"} => told'[sub'[t].r] > 0
    BY <1>2, <2>1, <2>3, <2>5, <2>6 DEF TellInv, None
  <2>11. \A q \in Ids : runs'[q].st = "delivered" => told'[q] > 0
    BY <1>1, <2>5 DEF TellInv
  <2> QED BY <1>1, <2>7, <2>8, <2>9, <2>10, <2>11 DEF TellInv
<1>6. CASE torn' = torn \cup {<<"tell", r>>} /\ Goto(s, None)
           /\ told' \in {told, [told EXCEPT ![r] = @ + 1]}
  <2>1. sub'[s].at = None BY <1>1, <1>6 DEF Goto, NoSub
  <2>2. /\ told'[r] = told[r] \/ told'[r] = told[r] + 1
        /\ \A q \in Ids \ {r} : told'[q] = told[q]
    BY <1>1, <1>6
  <2>3. \A q \in Ids : told[q] > 0 => told'[q] > 0 BY <1>1, <2>2
  <2>4. sent \subseteq Ids /\ \A t \in Submits : sub[t].at # None => sub[t].r \in Ids
    BY DEF TypeOK, WordsType, ActsType
  <2>5. \A q \in Ids : told'[q] > 0 => q \in sent' \/ <<"tell", q>> \in torn'
    BY <1>1, <1>6, <2>2 DEF TellInv
  <2>6. \A q \in Ids : told'[q] > 1 => <<"tell", q>> \in torn'
    BY <1>1, <1>6, <2>2 DEF TellInv
  <2>7. \A t \in Submits : sub'[t].at \in {"persist", "mark"} => told'[sub'[t].r] > 0
    BY <1>2, <2>1, <2>3, <2>4 DEF TellInv, None
  <2>8. (\A q \in sent' : told'[q] > 0) /\ \A q \in Ids : runs'[q].st = "delivered" => told'[q] > 0
    BY <1>1, <2>3, <2>4 DEF TellInv
  <2> QED BY <1>1, <2>5, <2>6, <2>7, <2>8 DEF TellInv
<1> QED BY <1>3, <1>4, <1>5, <1>6 DEF Send

\* What was told is remembered in a step of its own.
LEMMA PersistTells ==
  ASSUME TypeOK, TellInv, NEW s \in Submits, Persist(s)
  PROVE  TellInv'
<1>1. /\ sub \in [Submits -> [at : {None, "send", "persist", "mark"}, r : Ids \cup {0}]]
      /\ sub[s].at = "persist" /\ sub[s].r \in Ids /\ UNCHANGED <<runs, told, torn>>
      /\ sent' = sent \cup {sub[s].r} /\ Ids' = Ids
  BY DEF Persist, TypeOK, ActsType, None, review, Ids
<1>2. \A t \in Submits \ {s} : sub'[t] = sub[t] BY <1>1 DEF Persist, Goto
<1>3. sub'[s].r = sub[s].r /\ sub'[s].at = "mark" BY <1>1 DEF Persist, Goto, None
<1> QED BY <1>1, <1>2, <1>3 DEF TellInv

\* Only a run that was told of is marked delivered.
LEMMA MarkTells ==
  ASSUME TypeOK, TellInv, NEW s \in Submits, Mark(s), Keeps(runs, runs')
  PROVE  TellInv'
<1>1. /\ sub \in [Submits -> [at : {None, "send", "persist", "mark"}, r : Ids \cup {0}]]
      /\ sub[s].at = "mark" /\ sub[s].r \in Ids /\ UNCHANGED <<told, sent, torn>>
      /\ Ids' = Ids /\ runs \in Seq(Run)
  BY DEF Mark, TypeOK, ActsType, ReviewType, None, words, Keeps, Ids
<1>2. \A t \in Submits \ {s} : sub'[t] = sub[t] BY <1>1 DEF Mark, Goto
<1>3. sub'[s].at = None BY <1>1 DEF Mark, Goto, NoSub
<1>4. \A q \in Ids \ {sub[s].r} : runs'[q] = runs[q] BY <1>1 DEF Mark, Ids
<1>5. told[sub[s].r] > 0 BY <1>1 DEF TellInv
<1> QED BY <1>1, <1>2, <1>3, <1>4, <1>5 DEF TellInv, None

\* Every step tells at most once.
LEMMA TellStep ==
  ASSUME TypeOK, TellInv, [Next]_vars
  PROVE  TellInv'
<1>1. ~TriggerPlan =>
        Keeps(runs, runs') /\ (Undelivered(runs, runs') \/ \E s \in Submits : Mark(s))
  BY RunsKept
<1>2. CASE TriggerPlan BY <1>2, PlanTells
<1>3. ASSUME NEW s \in Submits, Send(s) \/ Persist(s) PROVE TellInv'
  BY <1>3, SendTells, PersistTells
<1>4. ASSUME NEW s \in Submits, Mark(s), ~TriggerPlan PROVE TellInv'
  BY <1>1, <1>4, MarkTells
<1>5. ASSUME NEW s \in Submits, Submit(s), ~TriggerPlan,
             Keeps(runs, runs') /\ Undelivered(runs, runs')
      PROVE  TellInv'
  <2>1. UNCHANGED <<told, sent, torn>> BY <1>5 DEF Submit, words
  <2>2. sub[s].at = None /\ \E r : sub' = [sub EXCEPT ![s] = [at |-> "send", r |-> r]]
    BY <1>5 DEF Submit
  <2>3. sub'[s].at = "send" /\ \A t \in Submits \ {s} : sub'[t] = sub[t]
    BY <2>2 DEF TypeOK, ActsType
  <2> QED BY <1>5, <2>1, <2>2, <2>3, TellKept DEF None
<1>6. CASE Die
  <2>1. UNCHANGED <<told, sent, runs>> /\ torn \subseteq torn' /\ Ids' = Ids
        /\ \A s \in Submits : sub'[s].at = None
    BY <1>6 DEF Die, review, NoSub, Ids
  <2>2. \A s \in Submits : sub[s].at = "persist" => <<"tell", sub[s].r>> \in torn'
    BY <1>6 DEF Die
  <2> QED BY <2>1, <2>2 DEF TellInv, None
<1>7. CASE /\ ~TriggerPlan /\ Keeps(runs, runs') /\ Undelivered(runs, runs')
           /\ \/ Trigger \/ AutoTrigger \/ TriggerPrepare \/ Notify \/ Spawn \/ TriggerEnd
              \/ Switch \/ RestoreReviewer \/ RestoreTerminal \/ RestoreEnd
              \/ Kill \/ Save \/ MarkTerminated \/ Relaunch \/ Act \/ SetAutoReview \/ Push
              \/ Cancel \/ CancelEnd \/ PaneDies \/ UNCHANGED vars
  <2>1. UNCHANGED <<sub, told, sent, torn>>
    BY <1>7
       DEF Trigger, AutoTrigger, TriggerPrepare, Notify, Spawn, TriggerEnd, Switch,
           RestoreReviewer, RestoreTerminal, RestoreEnd, Kill, Save, Teardown,
           MarkTerminated, Relaunch, Act, SetAutoReview, Push, Cancel, CancelEnd, PaneDies,
           vars, acts,
           words
  <2> QED BY <1>7, <2>1, TellKept
<1> QED BY <1>1, <1>2, <1>3, <1>4, <1>5, <1>6, <1>7 DEF Next

-----------------------------------------------------------------------------
(* The theorems.                                                            *)

\* The inductive invariant.
RInv == TypeOK /\ HeadSeen /\ Prepared /\ KnowsInv /\ TellInv

\* There is nothing at the start.
LEMMA RInit == Init => RInv
<1> SUFFICES ASSUME Init PROVE RInv
  OBVIOUS
<1> USE DEF Init, None, NoRow, NoJob, NoSub
<1>1. runs = <<>> /\ Ids = {} /\ <<>> \in Seq(Run) /\ <<>> \in Seq(Nat) BY DEF Ids
<1>2. ReviewType BY <1>1, ReviewAssumption DEF ReviewType
<1>3. ActsType BY <1>1 DEF ActsType, Job
<1>4. WordsType BY <1>1 DEF WordsType
<1>5. WorkerType /\ events \in 0..MaxEvents /\ HeadSeen
  <2>1. /\ worker \in [act : {"idle"}, dead : {FALSE}, op : {None}, auto : BOOLEAN]
        /\ "idle" \in Acts
    BY ReviewAssumption
  <2>2. worker \in [act : Acts, dead : BOOLEAN, op : {None, "kill", "save", "restore"},
                    auto : BOOLEAN]
    BY <2>1
  <2> QED BY <2>2, ReviewAssumption DEF WorkerType, Heads, HeadSeen
<1>6. OnePane /\ Prepared BY DEF OnePane, Prepared
<1>7. KnowsInv BY <1>1 DEF KnowsInv, SeenWhole, JobRuns, Known
<1>8. TellInv BY <1>1 DEF TellInv
<1> QED BY <1>2, <1>3, <1>4, <1>5, <1>6, <1>7, <1>8 DEF RInv, TypeOK

\* The reviews keep their types and their invariant, whatever triggers, cancels, kills
\* and restarts of the daemon meet.
THEOREM ReviewsInv == Spec => []RInv
<1>1. RInv /\ [Next]_vars => RInv'
  <2> SUFFICES ASSUME RInv, [Next]_vars PROVE RInv'
    OBVIOUS
  <2>1. TypeOK /\ HeadSeen /\ Prepared /\ KnowsInv /\ TellInv BY DEF RInv
  <2>2. SeenWhole BY <2>1 DEF KnowsInv
  <2>3. ReviewType' /\ ActsType' /\ WordsType' /\ WorkerType' /\ events' \in 0..MaxEvents
        /\ HeadSeen' /\ OnePane' /\ Prepared'
    BY <2>1, <2>2, ReviewStep, ActsStep, WordsStep, WorkerStep, PaneStep
  <2>4. KnowsInv' /\ TellInv' BY <2>1, KnowsStep, TellStep
  <2> QED BY <2>3, <2>4 DEF RInv, TypeOK
<1> QED BY <1>1, RInit, PTL DEF Spec

\* The reviewer knows of every run in progress, for any number of reviewers, runs and
\* restarts: no trigger, switch, restoration or cancellation in between leaves a live pane
\* with a run it was never told of, unless the daemon died before it could tell.
THEOREM ReviewerKnowsAlways == Spec => []ReviewerKnows
<1>1. RInv => ReviewerKnows BY DEF RInv, KnowsInv, Known, ReviewerKnows
<1> QED BY <1>1, ReviewsInv, PTL

\* Feedback reaches the worker before its run is marked delivered, and once, however many
\* submissions of it meet, unless a fault came between the paste and its record.
THEOREM FeedbackOnceAlways == Spec => []FeedbackOnce
<1>1. RInv => FeedbackOnce BY DEF RInv, TellInv, FeedbackOnce
<1> QED BY <1>1, ReviewsInv, PTL

=============================================================================

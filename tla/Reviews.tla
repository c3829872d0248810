------------------------------ MODULE Reviews ------------------------------
(***************************************************************************)
(* The reviews of one worker's pull request.  A trigger records a run for  *)
(* the head of the pull request and puts a reviewer to it, in a terminal   *)
(* of its own that outlives the run; the reviewer submits a verdict, and   *)
(* what it wants changed is pasted to the worker.  Meanwhile the head      *)
(* moves, users cancel and switch reviewers, workers are killed, saved and *)
(* restored, and a coordinator triggers by itself when the worker is idle. *)
(*                                                                         *)
(* Code: review/{review,planner,launcher}.go, service/review/review.go,    *)
(* autoreview/coordinator.go, lifecycle/reactions.go, the calls of         *)
(* session_manager/manager.go on them, store/review_store.go.              *)
(* Left out: more than one pull request, closed ones, overrides of the     *)
(* configuration, activity of the reviewer, the wording of what is sent,   *)
(* a failed write of what was sent, legacy runs without a harness,         *)
(* sessions that are no workers, the minute that a worker must have been   *)
(* idle, a kill or a restoration of the reviewer alone.                    *)
(***************************************************************************)
EXTENDS Naturals, Sequences, FiniteSetsExt

CONSTANTS
  Harnesses,   \* reviewers one can choose from
  Default,     \* the one the project is configured with
  Submits,     \* submissions in progress
  Acts,        \* what the worker does
  RetryLimit,  \* autoReviewFailedRetryLimit
  MaxEvents    \* bound: heads pushed, times the worker is busy, triggers, cancels and switches by
               \* users, changes of the automation, kills and saves, failures of one step, deaths
               \* of the daemon

ASSUME ReviewAssumption ==
  /\ Default \in Harnesses /\ Submits # {} /\ RetryLimit \in Nat \ {0}
  /\ "idle" \in Acts /\ Acts \subseteq {"idle", "active", "asks"} /\ MaxEvents \in Nat

VARIABLES
  head,      \* of the pull request
  worker,    \* [act, dead, op, auto]: activity, terminated, kill, save or restore in progress,
             \* AutoReviewEnabled
  selected,  \* the reviewer of choice
  rows,      \* review: per harness, does it exist, with a handle, with a native conversation
  runs,      \* review_run, in the order of creation
  pane,      \* the reviewer's terminal: [alive, h]
  conv,      \* per harness, the runs its conversation was told of
  job,       \* who holds lockWorker, see NoJob
  cancel,    \* the harness a Cancel is about to cancel the runs of
  sub,       \* submissions: [at, r]
  told,      \* history: how often the worker was given the feedback of a run
  sent,      \* the runs whose feedback is remembered as sent (reaction signatures)
  torn,      \* history: what a fault cut in two, ["ask" or "tell", run]
  events     \* how many of those there were

review == <<selected, rows, runs, pane, conv>>
acts   == <<job, cancel, sub>>
words  == <<told, sent, torn>>
vars   == <<head, worker, review, acts, words, events>>

None  == "none"
Heads == 1..(MaxEvents + 1)
Ids   == DOMAIN runs
NoRow == [known |-> FALSE, handle |-> FALSE, native |-> FALSE]
NoJob == [at |-> None, h |-> None, auto |-> FALSE, over |-> FALSE, sha |-> 0,
          seen |-> <<>>, had |-> FALSE, new |-> {}]
NoSub == [at |-> None, r |-> 0]

Run == [h : Harnesses, sha : Heads, auto : BOOLEAN, verdict : {None, "approved", "changes"},
        st : {"running", "complete", "delivered", "failed", "cancelled"}]

Job == [at : {None, "begun", "ready", "planned", "launched", "restore", "restored"},
        h : Harnesses \cup {None}, auto : BOOLEAN, over : BOOLEAN, sha : Heads \cup {0},
        seen : Seq(Run), had : BOOLEAN, new : SUBSET Ids]

ReviewType ==
  /\ selected \in Harnesses /\ runs \in Seq(Run)
  /\ rows \in [Harnesses -> [known : BOOLEAN, handle : BOOLEAN, native : BOOLEAN]]
  /\ pane \in [alive : BOOLEAN, h : Harnesses] /\ conv \in [Harnesses -> SUBSET Ids]
ActsType ==
  /\ job \in Job /\ (job.at # None => job.h \in Harnesses)
  /\ job.at \in {"begun", "ready"} => job.sha \in Heads
  /\ cancel \in Harnesses \cup {None}
  /\ sub \in [Submits -> [at : {None, "send", "persist", "mark"}, r : Ids \cup {0}]]
  /\ \A s \in Submits : sub[s].at # None => sub[s].r \in Ids
WordsType ==
  /\ told \in Seq(Nat) /\ Len(told) = Len(runs)
  /\ sent \subseteq Ids /\ torn \subseteq {"ask", "tell"} \X Ids
WorkerType ==
  /\ head \in Heads
  /\ worker \in [act : Acts, dead : BOOLEAN, op : {None, "kill", "save", "restore"},
                auto : BOOLEAN]
\* One pane, and the row that holds its handle is of the harness that runs in it.
OnePane == \A h \in Harnesses : rows[h].handle /\ pane.alive => pane.h = h

TypeOK == ReviewType /\ ActsType /\ WordsType /\ WorkerType /\ OnePane /\ events \in 0..MaxEvents

Init ==
  /\ head = 1 /\ worker \in [act : {"idle"}, dead : {FALSE}, op : {None}, auto : BOOLEAN]
  /\ selected = Default /\ rows = [h \in Harnesses |-> NoRow] /\ runs = <<>>
  /\ pane = [alive |-> FALSE, h |-> selected] /\ conv = [h \in Harnesses |-> {}]
  /\ job = NoJob /\ cancel = None /\ sub = [s \in Submits |-> NoSub]
  /\ told = <<>> /\ sent = {} /\ torn = {} /\ events = 0

Event   == events < MaxEvents /\ events' = events + 1
Free    == job.at = None            \* lockWorker
Unlock  == job' = NoJob

-----------------------------------------------------------------------------
(* The table of runs.  Every update is guarded by the status.               *)

Open(rs, r) == rs[r].st = "running"
Running(rs, h) == \E r \in DOMAIN rs : rs[r].h = h /\ Open(rs, r)

\* The runs `ids` that are still running end as `st`.
Ended(rs, ids, st) ==
  [r \in DOMAIN rs |-> IF Open(rs, r) /\ r \in ids THEN [rs[r] EXCEPT !.st = st] ELSE rs[r]]
CancelAll(rs)    == Ended(rs, DOMAIN rs, "cancelled")
CancelOf(rs, hs) == Ended(rs, {r \in DOMAIN rs : rs[r].h \in hs}, "cancelled")
FailOf(rs, ids)  == Ended(rs, ids, "failed")

\* Plan: what the latest of the runs `ids` says about a head.
Latest(rs, ids, sha) == Max({0} \cup {r \in ids : rs[r].sha = sha})
Plan(rs, ids, sha) ==
  LET r == Latest(rs, ids, sha)
  IN  IF r = 0 THEN "needs"
      ELSE IF Open(rs, r) THEN "running"
      ELSE IF rs[r].verdict # None THEN rs[r].verdict ELSE "needs"
Of(rs, h) == {r \in DOMAIN rs : rs[r].h = h}

\* autoReviewHeadBlocked, existingHeadReason.
Blocked(rs, h, sha) ==
  LET here == {r \in Of(rs, h) : rs[r].sha = sha}
  IN  \/ \E r \in here : rs[r].st \in {"running", "cancelled"} \/ rs[r].verdict # None
      \/ Cardinality({r \in here : rs[r].st = "failed" /\ rs[r].auto}) >= RetryLimit

-----------------------------------------------------------------------------
(* A trigger, by a user or by the coordinator.                              *)

Idle == ~worker.dead /\ worker.act = "idle"
\* autoReviewSessionReason, and the coordinator's sessionGate before it.
Gate == worker.auto /\ Idle

\* A terminated worker, or one that is busy when the coordinator asks, is not reviewed.
Begin(h, auto, over) ==
  /\ Free /\ ~worker.dead
  /\ job' = [NoJob EXCEPT !.at = "begun", !.h = h, !.auto = auto, !.over = over,
                          !.sha = head, !.seen = runs]

Trigger ==
  /\ Event
  /\ \E h \in Harnesses, over \in BOOLEAN : (~over => h = selected) /\ Begin(h, FALSE, over)
  /\ UNCHANGED <<head, worker, review, cancel, sub, words>>

\* Faulty: nothing to start, nothing to do.
EligibleOnly == Plan(runs, Of(runs, selected), head) = "needs" /\ ~Blocked(runs, selected, head)
\* Runs in progress are looked at as well, for the trigger settles the ones that lost their pane.
WorthATrigger == EligibleOnly \/ Plan(runs, Of(runs, selected), head) = "running"

\* EvaluateSession reads before it waits for the lock; the trigger reads it all again.
AutoTrigger ==
  /\ Gate /\ WorthATrigger /\ Begin(selected, TRUE, TRUE)
  /\ UNCHANGED <<head, worker, review, cancel, sub, words, events>>

\* destroyOtherReviewerHandles.
Others(h) == {g \in Harnesses \ {h} : rows[g].handle}
Dropped(hs) == [g \in Harnesses |-> [rows[g] EXCEPT !.handle = @ /\ g \notin hs]]
PaneDropped(hs) == IF hs = {} THEN pane ELSE [pane EXCEPT !.alive = FALSE]

\* A failing call ends it: of each reviewer the pane goes first, its handle is cleared next,
\* its runs are cancelled last.
StopsShort(hs) ==
  \E gone \in SUBSET hs : \E cleared \in SUBSET gone : \E settled \in SUBSET cleared :
    /\ Cardinality(gone \ settled) <= 1
    /\ rows' = Dropped(cleared) /\ pane' = PaneDropped(gone) /\ runs' = CancelOf(runs, settled)

\* The pane of another reviewer goes, and cancelStaleRunningRuns settles what has no pane.
TriggerPrepare ==
  /\ job.at = "begun"
  /\ LET hs    == Others(job.h)
         rest  == CancelOf(runs, hs)
         stale == /\ \E r \in DOMAIN job.seen : Open(job.seen, r)
                  /\ ~(rows[job.h].handle /\ PaneDropped(hs).alive)
     IN  \/ /\ rows' = Dropped(hs) /\ pane' = PaneDropped(hs)
            /\ runs' = IF stale THEN CancelAll(rest) ELSE rest
            /\ job' = [job EXCEPT !.at = "ready", !.seen = IF stale THEN runs' ELSE @]
            /\ UNCHANGED events
         \/ Event /\ StopsShort(hs) /\ Unlock
  /\ UNCHANGED <<head, worker, selected, conv, cancel, sub, words>>

HadRunning == Running(job.seen, job.h)

Due ==
  IF job.auto
  THEN Plan(job.seen, Of(job.seen, job.h), job.sha) = "needs" /\ ~Blocked(job.seen, job.h, job.sha)
  ELSE LET all == DOMAIN job.seen
           r   == Latest(job.seen, all, job.sha)
       IN  \/ Plan(job.seen, all, job.sha) \in {"needs", "changes"}
           \/ job.over /\ r # 0 /\ job.seen[r].h # job.h      \* secondOpinionWanted

\* idx_review_run_session_pr_sha_harness.
Duplicate(rs) ==
  \E r \in Of(rs, job.h) : rs[r].sha = job.sha /\ (Open(rs, r) \/ rs[r].verdict = "approved")

NewRun == [h |-> job.h, sha |-> job.sha, auto |-> job.auto, verdict |-> None, st |-> "running"]

\* A run for an older head is superseded before the new one is recorded.
TriggerPlan ==
  /\ job.at = "ready"
  /\ LET left == FailOf(runs, {r \in Ids : runs[r].sha # job.sha})
     IN  \/ job.auto /\ HadRunning /\ Unlock /\ UNCHANGED <<rows, runs, told>>
         \/ /\ ~(job.auto /\ HadRunning) /\ rows' = [rows EXCEPT ![job.h].known = TRUE]
            /\ \/ ~Due /\ Unlock /\ UNCHANGED <<runs, told>>
               \/ Due /\ Duplicate(left) /\ runs' = left /\ Unlock /\ UNCHANGED told
               \/ /\ Due /\ ~Duplicate(left)
                  /\ runs' = Append(left, NewRun) /\ told' = Append(told, 0)
                  /\ job' = [job EXCEPT !.at = "planned", !.seen = <<>>, !.had = HadRunning,
                                     !.new = {Len(runs) + 1}]
  /\ UNCHANGED <<head, worker, selected, pane, conv, cancel, sub, sent, torn, events>>

Reusable == rows[job.h].handle /\ (rows[job.h].native \/ job.had) /\ pane.alive
Taught(fresh) == [conv EXCEPT ![job.h] = (IF fresh THEN {} ELSE @) \cup job.new]
Failed == runs' = FailOf(runs, job.new) /\ Unlock

Notify ==
  /\ job.at = "planned" /\ Reusable
  /\ \/ conv' = Taught(FALSE) /\ job' = [job EXCEPT !.at = "launched"] /\ UNCHANGED <<runs, events>>
     \/ Event /\ Failed /\ UNCHANGED conv
  /\ UNCHANGED <<head, worker, selected, rows, pane, cancel, sub, words>>

\* A new process in the same terminal, with the native conversation if that can be resumed.
\* It may fail before it took the old one down, after, or with the new one up and not told.
Spawn ==
  /\ job.at = "planned" /\ ~Reusable
  /\ \/ /\ \E fresh \in {TRUE, ~rows[job.h].native} : conv' = Taught(fresh)
        /\ pane' = [alive |-> TRUE, h |-> job.h]
        /\ job' = [job EXCEPT !.at = "launched"] /\ UNCHANGED <<runs, events>>
     \/ /\ Event /\ Failed
        /\ \/ UNCHANGED <<pane, conv>>
           \/ pane' = [pane EXCEPT !.alive = FALSE] /\ UNCHANGED conv
           \/ /\ pane' = [alive |-> TRUE, h |-> job.h]
              /\ conv' = [conv EXCEPT ![job.h] = {}]
  /\ UNCHANGED <<head, worker, selected, rows, cancel, sub, words>>

\* The handle is stored, or the pane taken down again.
TriggerEnd ==
  /\ job.at = "launched" /\ Unlock
  /\ \/ /\ \E n \in {TRUE, rows[job.h].native} :
             rows' = [rows EXCEPT ![job.h] = [known |-> TRUE, handle |-> TRUE, native |-> n]]
        /\ UNCHANGED <<pane, events>>
     \/ Event /\ pane' = [pane EXCEPT !.alive = FALSE] /\ UNCHANGED rows
  /\ UNCHANGED <<head, worker, selected, runs, conv, cancel, sub, words>>

-----------------------------------------------------------------------------
(* Restore and switch: restoreReviewerLocked.                               *)

\* A pane comes back for a reviewer that has a history, if it is not there.
BringBack(h) ==
  LET hs == Others(h)
  IN  /\ rows' = Dropped(hs) /\ pane' = PaneDropped(hs) /\ runs' = CancelOf(runs, hs)
      /\ IF \/ ~rows[h].known /\ Of(runs, h) = {}
            \/ rows[h].handle /\ PaneDropped(hs).alive
         THEN UNCHANGED job
         ELSE job' = [NoJob EXCEPT !.at = "restore", !.h = h, !.seen = runs]

Switch ==
  /\ Event /\ Free /\ \E h \in Harnesses \ {selected} :
       selected' = h /\ (BringBack(h) \/ (StopsShort(Others(h)) /\ UNCHANGED job))
  /\ UNCHANGED <<head, worker, conv, cancel, sub, words>>

RestoreReviewer ==
  /\ worker.op = "restore" /\ Free /\ worker' = [worker EXCEPT !.op = None]
  /\ \/ BringBack(selected) /\ UNCHANGED events
     \/ Event /\ StopsShort(Others(selected)) /\ UNCHANGED job
  /\ UNCHANGED <<head, selected, conv, cancel, sub, words>>

\* Faulty: runs are taken to survive with their reviewer.
LostKept(fresh) == {}
\* A reviewer whose conversation is gone cannot finish what it had begun.
Lost(fresh) == IF fresh THEN Of(job.seen, job.h) ELSE {}

RestoreTerminal ==
  /\ job.at = "restore"
  /\ \/ \E fresh \in {TRUE, ~rows[job.h].native} :
          /\ pane' = [alive |-> TRUE, h |-> job.h]
          /\ conv' = IF fresh THEN [conv EXCEPT ![job.h] = {}] ELSE conv
          /\ job' = [job EXCEPT !.at = "restored", !.seen = <<>>, !.new = Lost(fresh)]
          /\ UNCHANGED <<runs, events>>
     \/ /\ Event /\ runs' = FailOf(runs, Of(job.seen, job.h)) /\ Unlock
        /\ \/ UNCHANGED <<pane, conv>>
           \/ pane' = [pane EXCEPT !.alive = FALSE] /\ UNCHANGED conv
           \/ /\ pane' = [alive |-> TRUE, h |-> job.h]
              /\ conv' = [conv EXCEPT ![job.h] = {}]
  /\ UNCHANGED <<head, worker, selected, rows, cancel, sub, words>>

RestoreEnd ==
  /\ job.at = "restored" /\ Unlock /\ runs' = FailOf(runs, job.new)
  /\ \/ /\ \E n \in {TRUE, rows[job.h].native} :
             rows' = [rows EXCEPT ![job.h] = [known |-> TRUE, handle |-> TRUE, native |-> n]]
        /\ UNCHANGED <<pane, events>>
     \/ Event /\ pane' = [pane EXCEPT !.alive = FALSE] /\ UNCHANGED rows
  /\ UNCHANGED <<head, worker, selected, conv, cancel, sub, words>>

-----------------------------------------------------------------------------
(* The worker: killed, saved at a shutdown, restored.                       *)

\* TerminateReviewer, TeardownReviewerTerminal: a pane whose handle is known goes.
Handled == {h \in Harnesses : rows[h].handle}
Teardown ==
  /\ Event /\ ~worker.dead /\ worker.op = None /\ Free
  /\ UNCHANGED <<head, selected, conv, acts, words>>
TornDown(op) ==
  worker' = [worker EXCEPT !.op = op] /\ rows' = Dropped(Handled) /\ pane' = PaneDropped(Handled)
\* A failing call ends the operation on the worker as well; the handles `hs` are cleared.
HalfDown(hs) ==
  /\ UNCHANGED <<worker, runs>> /\ rows' = Dropped(hs)
  /\ pane' \in {PaneDropped(hs), PaneDropped(Handled)}

\* Only a kill cancels the runs, last of all.
Kill ==
  Teardown /\ \/ TornDown("kill") /\ runs' = CancelAll(runs)
              \/ HalfDown({}) \/ HalfDown(Handled)
Save == Teardown /\ \/ TornDown("save") /\ UNCHANGED runs
                    \/ HalfDown({})

MarkTerminated ==
  /\ worker.op \in {"kill", "save"} /\ worker' = [worker EXCEPT !.dead = TRUE, !.op = None]
  /\ UNCHANGED <<head, review, acts, words, events>>

Relaunch ==
  /\ worker.dead /\ worker.op = None
  /\ worker' = [worker EXCEPT !.act = "idle", !.dead = FALSE, !.op = "restore"]
  /\ UNCHANGED <<head, review, acts, words, events>>

\* It works, asks its user, or is done.
Act ==
  /\ ~worker.dead /\ \E a \in Acts \ {worker.act} :
       /\ worker' = [worker EXCEPT !.act = a] /\ IF a = "idle" THEN UNCHANGED events ELSE Event
  /\ UNCHANGED <<head, review, acts, words>>

\* The user turns the automation on or off.
SetAutoReview ==
  /\ Event /\ worker' = [worker EXCEPT !.auto = ~@]
  /\ UNCHANGED <<head, review, acts, words>>

Push ==
  /\ Event /\ head' = head + 1
  /\ UNCHANGED <<worker, review, acts, words>>

-----------------------------------------------------------------------------
(* Cancel, which takes no lock.                                             *)

\* currentReviewForCancel.
Target ==
  LET busy == {h \in Handled : Running(runs, h)}
  IN  IF selected \in busy THEN {selected}
      ELSE IF busy # {} THEN busy
      ELSE IF rows[selected].known THEN {selected} \cap Handled ELSE Handled

Cancel ==
  /\ Event /\ cancel = None /\ \E h \in Harnesses : Running(runs, h) /\ cancel' \in Target
  /\ UNCHANGED <<head, worker, review, job, sub, words>>

\* An interrupt that fails is an error only if the pane is alive.
CancelEnd ==
  /\ cancel # None /\ cancel' = None
  /\ \/ runs' = CancelOf(runs, {cancel}) /\ UNCHANGED events
     \/ pane.alive /\ Event /\ UNCHANGED runs
  /\ UNCHANGED <<head, worker, selected, rows, pane, conv, job, sub, words>>

-----------------------------------------------------------------------------
(* The reviewer, and what it submits.                                       *)

PaneDies ==
  /\ pane.alive /\ pane' = [pane EXCEPT !.alive = FALSE]
  /\ UNCHANGED <<head, worker, selected, rows, runs, conv, acts, words, events>>

Goto(s, at) == sub' = [sub EXCEPT ![s] = IF at = None THEN NoSub ELSE [@ EXCEPT !.at = at]]

\* A result is recorded if the run is still running, and may be submitted once more.
Submit(s) ==
  /\ sub[s].at = None /\ pane.alive
  /\ \E r \in conv[pane.h], v \in {"approved", "changes"} :
       /\ \/ Open(runs, r) /\ runs' = [runs EXCEPT ![r].st = "complete", ![r].verdict = v]
          \/ runs[r].st = "complete" /\ runs[r].verdict = v /\ UNCHANGED runs
       /\ sub' = [sub EXCEPT ![s] = [at |-> "send", r |-> r]]
  /\ UNCHANGED <<head, worker, selected, rows, pane, conv, job, cancel, words, events>>

\* cannotNudge, and the guard, which also refuses while an exclusive operation runs.
CannotNudge == worker.dead \/ worker.act = "asks"
Refused     == CannotNudge \/ worker.op # None

\* Faulty: what was suppressed counts as sent.
SentAnyhow(r)  == r \in sent \/ Refused
AlreadySent(r) == r \in sent

\* deliverableRuns.
Deliverable(r) == runs[r].verdict = "changes" /\ runs[r].sha = head

\* sendOnce, one at a time.  An error after the paste leaves no trace of it.
Send(s) ==
  /\ sub[s].at = "send" /\ \A t \in Submits : sub[t].at # "persist"
  /\ LET r   == sub[s].r
         due == Deliverable(r) /\ ~CannotNudge
     IN  \/ ~due /\ Goto(s, None) /\ UNCHANGED <<told, torn, events>>
         \/ due /\ AlreadySent(r) /\ Goto(s, "mark") /\ UNCHANGED <<told, torn, events>>
         \/ due /\ ~AlreadySent(r) /\ Refused /\ Goto(s, None) /\ UNCHANGED <<told, torn, events>>
         \/ /\ due /\ ~AlreadySent(r) /\ ~Refused
            /\ \/ /\ told' = [told EXCEPT ![r] = @ + 1] /\ Goto(s, "persist")
                  /\ UNCHANGED <<torn, events>>
               \/ /\ Event /\ torn' = torn \cup {<<"tell", r>>} /\ Goto(s, None)
                  /\ told' \in {told, [told EXCEPT ![r] = @ + 1]}
  /\ UNCHANGED <<head, worker, review, job, cancel, sent>>

Persist(s) ==
  /\ sub[s].at = "persist" /\ sent' = sent \cup {sub[s].r} /\ Goto(s, "mark")
  /\ UNCHANGED <<head, worker, review, job, cancel, told, torn, events>>

\* MarkReviewRunDelivered.
Mark(s) ==
  /\ sub[s].at = "mark" /\ Goto(s, None)
  /\ runs' = [runs EXCEPT ![sub[s].r].st = IF @ = "complete" THEN "delivered" ELSE @]
  /\ UNCHANGED <<head, worker, selected, rows, pane, conv, job, cancel, words, events>>

\* The daemon dies and comes back; the panes stay.
Die ==
  /\ Event
  /\ torn' = torn \cup ({"ask"} \X {r \in job.new : job.at # "launched"})
                  \cup {<<"tell", sub[s].r>> : s \in {t \in Submits : sub[t].at = "persist"}}
  /\ worker' = [worker EXCEPT !.op = None] /\ job' = NoJob /\ cancel' = None
  /\ sub' = [s \in Submits |-> NoSub]
  /\ UNCHANGED <<head, review, told, sent>>

Next ==
  \/ Trigger \/ AutoTrigger
  \/ TriggerPrepare \/ TriggerPlan \/ Notify \/ Spawn \/ TriggerEnd
  \/ Switch \/ RestoreReviewer \/ RestoreTerminal \/ RestoreEnd
  \/ Kill \/ Save \/ MarkTerminated \/ Relaunch \/ Act \/ SetAutoReview \/ Push
  \/ Cancel \/ CancelEnd \/ PaneDies
  \/ \E s \in Submits : Submit(s) \/ Send(s) \/ Persist(s) \/ Mark(s)
  \/ Die

Spec     == Init /\ [][Next]_vars
Fairness ==
  /\ WF_vars(AutoTrigger)
  /\ WF_vars(TriggerPrepare) /\ WF_vars(TriggerPlan) /\ WF_vars(Notify) /\ WF_vars(Spawn)
  /\ WF_vars(TriggerEnd) /\ WF_vars(RestoreTerminal) /\ WF_vars(RestoreEnd)
FairSpec == Spec /\ Fairness

-----------------------------------------------------------------------------
(* Correctness.                                                             *)

\* A run in progress is known to its reviewer: once its trigger or restoration is over, a live
\* pane of its harness was told of it, unless the daemon died in between.
ReviewerKnows ==
  \A r \in Ids : Open(runs, r) /\ pane.alive /\ pane.h = runs[r].h =>
                   r \in conv[pane.h] \/ r \in job.new \/ <<"ask", r>> \in torn

\* Feedback reaches the worker before the run is marked delivered, and no more than once,
\* however often and at whatever moment it is submitted, unless a fault came between.
FeedbackOnce ==
  \A r \in Ids : /\ runs[r].st = "delivered" => told[r] > 0
                 /\ told[r] > 1 => <<"tell", r>> \in torn

\* A run whose reviewer is gone does not stay in progress while its worker is idle and its
\* automation is on.  With it off only the next trigger of a user settles such a run.
Stale(r) == r \in Ids /\ Open(runs, r) /\ runs[r].h = selected /\ ~pane.alive /\ Gate
StaleIsSettled == \A r \in 1..(MaxEvents + 1) : Stale(r) ~> ~Stale(r)

\* "Worker termination must remove the terminal pane itself."
NothingLeftBehind == worker.dead /\ Free => ~pane.alive

\* A reviewer that another has replaced leaves no run in progress: such a run would be beyond
\* the reach of Cancel, and in the way of the next trigger.
ReplacedIsSettled ==
  Free /\ worker.op = None /\ pane.alive /\ rows[pane.h].handle =>
    \A r \in Ids : Open(runs, r) => runs[r].h = pane.h

=============================================================================

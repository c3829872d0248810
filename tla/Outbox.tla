------------------------------- MODULE Outbox -------------------------------
(***************************************************************************)
(* The durable outbox of a session's interface transitions: a message sent *)
(* while a handoff is active is kept in a row and delivered, by the worker *)
(* that ends the handoff or by the daemon's dispatcher, through whichever  *)
(* controller owns the session then.                                       *)
(*                                                                         *)
(* Code: Manager.send and the delivery half of                             *)
(* session_manager/interface_transition.go, with the outbox queries of the *)
(* transition store.  The handoff itself is Handoff.tla; here it only      *)
(* begins and ends.                                                        *)
(***************************************************************************)
EXTENDS Naturals, Sequences, FiniteSetsExt

CONSTANTS
  Messages,      \* what callers send, each once
  Transitions,   \* handoffs of the session
  NoTransition,
  MaxCrashes,    \* bound: daemon crashes
  MaxFaults      \* bound: store writes and pane writes that report an error

ASSUME OutboxAssumption ==
  NoTransition \notin Transitions /\ {MaxCrashes, MaxFaults} \subseteq Nat

VARIABLES
  mode,       \* the controller that owns the session
  phase,      \* a transition's row: absent, active or ended
  ended,      \* the ended rows in the order of updated_at
  outbox,     \* session_interface_transition_messages, by id
  sender,     \* where the call that sends a message is, and the row it read
  settle,     \* ended transitions whose worker has yet to deliver
  scan,       \* the transitions the dispatcher still visits in this pass
  job,        \* the delivery that holds transitionDeliveryAttemptMu
  received,   \* what the agent accepted, in order
  crashes, faults

vars == <<mode, phase, ended, outbox, sender, settle, scan, job, received, crashes, faults>>

Modes   == {"tui", "chat"}
Active  == {t \in Transitions : phase[t] = "active"}
NoJob   == [pc |-> "none", of |-> NoTransition, todo |-> {}]
Idle    == [pc |-> "idle", of |-> NoTransition]

Entries == [msg: Messages, of: Transitions, delivered: BOOLEAN]

TypeOK ==
  /\ mode \in Modes
  /\ phase \in [Transitions -> {"absent", "active", "ended"}]
  /\ ended \in Seq(Transitions)
  /\ outbox \in Seq(Entries)
  /\ sender \in [Messages -> [pc: {"idle", "direct", "queue", "accepted", "refused"},
                              of: Transitions \cup {NoTransition}]]
  /\ settle \subseteq Transitions /\ scan \in Seq(Transitions)
  /\ job \in [pc: {"none", "wait", "send", "queue", "direct", "mark"},
              of: Transitions \cup {NoTransition}, todo: SUBSET (1..Len(outbox))]
  /\ job.pc = "none" <=> job.todo = {}
  /\ received \in Seq([msg: Messages, mode: Modes, by: {"send", "outbox"}])
  /\ crashes \in 0..MaxCrashes /\ faults \in 0..MaxFaults

Init ==
  /\ mode \in Modes
  /\ phase = [t \in Transitions |-> "absent"] /\ ended = <<>>
  /\ outbox = <<>> /\ sender = [m \in Messages |-> Idle]
  /\ settle = {} /\ scan = <<>> /\ job = NoJob /\ received = <<>>
  /\ crashes = 0 /\ faults = 0

Fault == faults < MaxFaults /\ faults' = faults + 1

\* ListPendingSessionInterfaceTransitionMessages: undelivered rows,
Pending(t) == {k \in 1..Len(outbox) : outbox[k].of = t /\ ~outbox[k].delivered}

\* Faulty: ORDER BY id DESC.
CurrentNewest == Max(job.todo)

\* which the delivery takes oldest first.
Current == Min(job.todo)

Enqueue(m, t) == outbox' = Append(outbox, [msg |-> m, of |-> t, delivered |-> FALSE])

\* Client message ids the Chat conversation has recorded.
ChatIds == {received[k].msg : k \in {j \in 1..Len(received) : received[j].mode = "chat"}}

-----------------------------------------------------------------------------
(* The handoffs of the session.                                             *)

BeginTransition(t) ==
  /\ phase[t] = "absent" /\ Active = {}
  /\ phase' = [phase EXCEPT ![t] = "active"]
  /\ UNCHANGED <<mode, ended, outbox, sender, settle, scan, job, received, crashes, faults>>

\* The last write of the worker's row, and its deferred settle.  The session may
\* have changed hands.
EndTransition(t) ==
  /\ phase[t] = "active"
  /\ phase' = [phase EXCEPT ![t] = "ended"] /\ ended' = Append(ended, t)
  /\ settle' = settle \cup {t}
  /\ mode' \in Modes
  /\ UNCHANGED <<outbox, sender, scan, job, received, crashes, faults>>

-----------------------------------------------------------------------------
(* Manager.send, called once for each message.                              *)

SendRead(m) ==
  /\ sender[m].pc = "idle"
  /\ \/ Active = {} /\ sender' = [sender EXCEPT ![m].pc = "direct"]
     \/ \E t \in Active : sender' = [sender EXCEPT ![m] = [pc |-> "queue", of |-> t]]
  /\ UNCHANGED <<mode, phase, ended, outbox, settle, scan, job, received, crashes, faults>>

\* The row that was read may have ended since.
SendQueue(m) ==
  /\ sender[m].pc = "queue"
  /\ \/ /\ Enqueue(m, sender[m].of) /\ UNCHANGED faults
        /\ sender' = [sender EXCEPT ![m].pc = "accepted"]
     \/ Fault /\ sender' = [sender EXCEPT ![m].pc = "refused"] /\ UNCHANGED outbox
  /\ UNCHANGED <<mode, phase, ended, settle, scan, job, received, crashes>>

\* Straight to the controller: no idempotency key, and no look at the outbox.
SendDirect(m) ==
  /\ sender[m].pc = "direct"
  /\ \/ /\ received' = Append(received, [msg |-> m, mode |-> mode, by |-> "send"])
        /\ sender' = [sender EXCEPT ![m].pc = "accepted"]
     \/ sender' = [sender EXCEPT ![m].pc = "refused"] /\ UNCHANGED received
  /\ UNCHANGED <<mode, phase, ended, outbox, settle, scan, job, crashes, faults>>

-----------------------------------------------------------------------------
(* deliverTransitionMessages, one at a time under its mutex.                *)

StartJob(t) ==
  /\ job = NoJob
  /\ job' = IF Pending(t) = {} THEN NoJob
            ELSE [pc |-> "wait", of |-> NoTransition, todo |-> Pending(t)]

\* settleTransitionMessages.
SettleStart(t) ==
  /\ t \in settle /\ settle' = settle \ {t}
  /\ StartJob(t)
  /\ UNCHANGED <<mode, phase, ended, outbox, sender, scan, received, crashes, faults>>

\* A pass of the dispatcher: its list is read before the mutex is taken.
ScanStart ==
  /\ scan = <<>>
  /\ scan' = SelectSeq(ended, LAMBDA t : Pending(t) # {})
  /\ scan' # <<>>
  /\ UNCHANGED <<mode, phase, ended, outbox, sender, settle, job, received, crashes, faults>>

ScanNext ==
  /\ scan # <<>> /\ scan' = Tail(scan)
  /\ StartJob(Head(scan))
  /\ UNCHANGED <<mode, phase, ended, outbox, sender, settle, received, crashes, faults>>

\* waitForTransitionDeliveryReady: the session is idle and, on a TUI, the raw
\* input gate is closed and the readiness checked again.
JobReady ==
  /\ job.pc = "wait" /\ job' = [job EXCEPT !.pc = "send"]
  /\ UNCHANGED <<mode, phase, ended, outbox, sender, settle, scan, received, crashes, faults>>

\* Faulty: what could not be delivered in time is written off.
JobGiveUpDrops ==
  /\ job.pc = "wait" /\ job' = NoJob
  /\ outbox' = [outbox EXCEPT ![Current].delivered = TRUE]
  /\ UNCHANGED <<mode, phase, ended, sender, settle, scan, received, crashes, faults>>

\* It is not ready within the step limit, has exited or is terminated.
JobGiveUp ==
  /\ job.pc = "wait" /\ job' = NoJob
  /\ UNCHANGED <<mode, phase, ended, outbox, sender, settle, scan, received, crashes, faults>>

\* send again: a handoff begun since puts the message into its own outbox.
JobSend ==
  /\ job.pc = "send"
  /\ \/ Active = {} /\ job' = [job EXCEPT !.pc = "direct"]
     \/ \E t \in Active : job' = [job EXCEPT !.pc = "queue", !.of = t]
  /\ UNCHANGED <<mode, phase, ended, outbox, sender, settle, scan, received, crashes, faults>>

\* Faulty: a message caught by the next handoff counts as delivered.
JobQueueSkipped ==
  /\ job.pc = "queue" /\ job' = [job EXCEPT !.pc = "mark", !.of = NoTransition]
  /\ UNCHANGED <<mode, phase, ended, outbox, sender, settle, scan, received, crashes, faults>>

JobQueue ==
  /\ job.pc = "queue"
  /\ \/ /\ Enqueue(outbox[Current].msg, job.of) /\ UNCHANGED faults
        /\ job' = [job EXCEPT !.pc = "mark", !.of = NoTransition]
     \/ Fault /\ job' = NoJob /\ UNCHANGED outbox
  /\ UNCHANGED <<mode, phase, ended, sender, settle, scan, received, crashes>>

\* Faulty: the Chat relay carries no client message id.
DeliverUnkeyed(m) == received' = Append(received, [msg |-> m, mode |-> mode, by |-> "outbox"])

\* Chat ignores a client message id it has recorded; a terminal takes every paste.
Deliver(m) ==
  received' = IF mode = "chat" /\ m \in ChatIds THEN received
              ELSE Append(received, [msg |-> m, mode |-> mode, by |-> "outbox"])

\* A pane write may be refused, or reach the agent and still report an error.
JobDirect ==
  /\ job.pc = "direct"
  /\ \/ Deliver(outbox[Current].msg) /\ job' = [job EXCEPT !.pc = "mark"] /\ UNCHANGED faults
     \/ job' = NoJob /\ UNCHANGED <<received, faults>>
     \/ Deliver(outbox[Current].msg) /\ job' = NoJob /\ Fault
  /\ UNCHANGED <<mode, phase, ended, outbox, sender, settle, scan, crashes>>

\* MarkSessionInterfaceTransitionMessageDelivered.
JobMark ==
  /\ job.pc = "mark"
  /\ \/ /\ outbox' = [outbox EXCEPT ![Current].delivered = TRUE] /\ UNCHANGED faults
        /\ job' = IF job.todo = {Current} THEN NoJob
                  ELSE [job EXCEPT !.pc = "send", !.todo = @ \ {Current}]
     \/ Fault /\ job' = NoJob /\ UNCHANGED outbox
  /\ UNCHANGED <<mode, phase, ended, sender, settle, scan, received, crashes>>

-----------------------------------------------------------------------------

\* Memory is lost, calls in flight end unanswered, and the boot pass ends every
\* row before anything is delivered.
Crash ==
  /\ crashes < MaxCrashes /\ crashes' = crashes + 1
  /\ phase' = [t \in Transitions |-> IF t \in Active THEN "ended" ELSE phase[t]]
  /\ ended' = IF Active = {} THEN ended ELSE Append(ended, CHOOSE t \in Active : TRUE)
  /\ IF Active = {} THEN mode' = mode ELSE mode' \in Modes
  /\ sender' = [m \in Messages |-> IF sender[m].pc \in {"direct", "queue"}
                                   THEN [pc |-> "refused", of |-> NoTransition] ELSE sender[m]]
  /\ settle' = {} /\ scan' = <<>> /\ job' = NoJob
  /\ UNCHANGED <<outbox, received, faults>>

Handoffs   == \E t \in Transitions : BeginTransition(t) \/ EndTransition(t)
Send(m)    == SendRead(m) \/ SendQueue(m) \/ SendDirect(m)
Dispatcher == ScanStart \/ ScanNext \/ \E t \in Transitions : SettleStart(t)
Job        == JobReady \/ JobGiveUp \/ JobSend \/ JobQueue \/ JobDirect \/ JobMark

Next == Handoffs \/ (\E m \in Messages : Send(m)) \/ Dispatcher \/ Job \/ Crash

Spec == Init /\ [][Next]_vars

\* Handoffs end, calls return and the daemon keeps polling; a session that is not
\* terminated becomes ready again, and an open pane takes a write, again and again.
Fairness ==
  /\ \A t \in Transitions : WF_vars(EndTransition(t)) /\ WF_vars(SettleStart(t))
  /\ \A m \in Messages : WF_vars(SendQueue(m))
  /\ WF_vars(ScanStart) /\ SF_vars(ScanNext)
  /\ WF_vars(JobSend) /\ WF_vars(JobQueue) /\ WF_vars(JobMark)
  /\ WF_vars(JobReady \/ JobGiveUp) /\ SF_vars(JobReady)
  /\ WF_vars(JobDirect) /\ SF_vars(JobDirect /\ job' # NoJob)

FairSpec == Spec /\ Fairness

-----------------------------------------------------------------------------
(* Correctness.                                                             *)

Received  == {received[k].msg : k \in 1..Len(received)}
First(m)  == CHOOSE k \in 1..Len(received) :
               received[k].msg = m /\ \A j \in 1..(k - 1) : received[j].msg # m

\* A row is acknowledged only once the agent has its message, or another handoff's
\* outbox has taken it over: whatever fails, the message is still somewhere.
HandedOn ==
  \A k \in 1..Len(outbox) : outbox[k].delivered =>
    \/ outbox[k].msg \in Received
    \/ \E j \in 1..Len(outbox) : j > k /\ outbox[j].msg = outbox[k].msg /\ ~outbox[j].delivered

\* A retry into Chat carries a stable key: the conversation holds no message twice.
ChatOnce ==
  \A j, k \in 1..Len(received) :
    received[j].mode = "chat" /\ received[k].mode = "chat" /\ received[j].msg = received[k].msg
    => j = k

Requeued(j) == \E n \in 1..Len(outbox) : n # j /\ outbox[n].msg = outbox[j].msg

\* The messages one handoff held back reach the agent in the order they were sent,
\* but for those that a second handoff caught on their way.
QueueOrder ==
  \A j, k \in 1..Len(outbox) :
    /\ j < k /\ outbox[j].of = outbox[k].of /\ outbox[j].msg # outbox[k].msg
    /\ outbox[k].msg \in Received
    /\ ~Requeued(j) /\ ~Requeued(k)
    => outbox[j].msg \in Received /\ First(outbox[j].msg) < First(outbox[k].msg)

\* Once a delivery to a terminal has found it ready with raw input closed, the next
\* thing the agent receives is that delivery's message.
NextInstruction ==
  [][mode = "tui" /\ job.pc = "direct" /\ received' # received
     => received'[Len(received')].by = "outbox"]_vars

\* A message the outbox took is received.
EverythingArrives ==
  \A m \in Messages : (\E k \in 1..Len(outbox) : outbox[k].msg = m) ~> (m \in Received)

=============================================================================

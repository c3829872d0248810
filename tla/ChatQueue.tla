------------------------------ MODULE ChatQueue ------------------------------
(***************************************************************************)
(* The message queue of one Chat conversation: sends, the drain that a     *)
(* completed turn triggers, Stop, guidance for a running turn, queue       *)
(* edits, and what a detached or dead controller leaves to the next one.   *)
(*                                                                         *)
(* Code: service/chat/{controller,queue,steer,service}.go, the turn        *)
(* queries of the conversation store, and the ACP driver's turn state.     *)
(* One client call at a time holds sendMu; the projector needs it for the  *)
(* two turn events.  A turn is named by its message.                       *)
(*                                                                         *)
(* A store access that fails is a step of its own wherever the code goes   *)
(* on after it; where it only ends a call that has changed nothing yet, it *)
(* is left out.  So are the gate of a handoff (module Handoff) and content *)
(* that does not parse.                                                    *)
(***************************************************************************)
EXTENDS Naturals, Sequences, SequencesExt, FiniteSets

CONSTANTS
  Sends,        \* messages clients send with Send
  Guidance,     \* messages clients send with SteerOrSend, under a stable id
  Promotable,   \* queued messages clients ask to promote
  Stops,        \* calls of Interrupt
  Outcomes,     \* how a turn the user did not stop may end
  None,         \* no turn
  MaxEdits,     \* bound: rows cancelled or reordered by a client
  MaxFaults,    \* bound: failed store writes and provider calls
  MaxDetaches,  \* bound: projections that fail for good
  MaxDeaths     \* bound: provider processes and daemons that die

Messages == Sends \cup Guidance

ASSUME QueueAssumption ==
  /\ Sends \cap Guidance = {} /\ Promotable \subseteq Messages /\ None \notin Messages
  /\ Outcomes \subseteq {"completed", "failed"}
  /\ {MaxEdits, MaxFaults, MaxDetaches, MaxDeaths} \subseteq Nat

VARIABLES
  row,        \* conversation_turns.state
  order,      \* the rows by requested_at
  held,       \* rows with promotion_started_at set
  ledger,     \* conversation_steer_deliveries, by client message id
  life,       \* the registered controller: up, ending, closed (its stream ended) or down
  pending,    \* pendingTurnID
  acked,      \* ackedTurnID
  cutoff,     \* cancelQueuedAt, as a place in the order; 0 is the zero time
  resume,     \* ResumeQueue has still to run
  call,       \* what holds sendMu
  stop,       \* each call of Interrupt
  drv,        \* the driver's conversation
  host,       \* the prompt the provider host keeps
  events,     \* driver events on their way to the projector
  agent,      \* what the agent took, in order
  edits, faults, detaches, deaths,
  unswept,    \* history: rows that a drain could not withdraw, as its write failed
  paused      \* history: what was to move the queue last did not, for a cause

rows == <<row, order, held, ledger>>
ctl  == <<life, pending, acked, cutoff, resume>>
prov == <<drv, host, events, agent>>
used == <<edits, faults, detaches, deaths, unswept, paused>>
vars == <<row, order, held, ledger, life, pending, acked, cutoff, resume, call, stop,
          drv, host, events, agent, edits, faults, detaches, deaths, unswept, paused>>

Free     == [pc |-> "free", msg |-> None, turn |-> None]
NoDriver == [prepared |-> None, active |-> None, run |-> "none", cancel |-> FALSE, out |-> "none"]
NoPrompt == [turn |-> None, st |-> "none", out |-> "none"]
NoStop   == [pc |-> "idle", turn |-> None, cut |-> 0, queue |-> {}]
Ends     == {"completed", "failed", "interrupted"}

TypeOK ==
  /\ row \in [Messages -> {"none", "queued", "running", "cancelled"} \cup Ends]
  /\ order \in Seq(Messages) /\ IsInjective(order)
  /\ ToSet(order) = {m \in Messages : row[m] # "none"} /\ held \subseteq Messages
  /\ ledger \in [Messages -> {"none", "reserved", "accepted", "refused"}]
  /\ life \in {"up", "ending", "closed", "down"}
  /\ {pending, acked} \subseteq Messages \cup {None}
  /\ cutoff \in 0..Len(order) /\ resume \in BOOLEAN
  /\ call.pc \in {"free", "send", "bind", "start", "await", "steer", "record", "refuse"}
  /\ \A s \in Stops : stop[s].pc \in {"idle", "await", "cancel", "refused", "done", "failed"}
  /\ drv.run \in {"none", "start", "ready", "prompt", "settle", "done"}
  /\ host.st \in {"none", "active", "result"}
  /\ edits \in 0..MaxEdits /\ faults \in 0..MaxFaults
  /\ detaches \in 0..MaxDetaches /\ deaths \in 0..MaxDeaths
  /\ unswept \subseteq Messages /\ paused \in BOOLEAN

\* A controller that has just been published and found nothing to resume.
Init ==
  /\ row = [m \in Messages |-> "none"] /\ order = <<>> /\ held = {}
  /\ ledger = [m \in Messages |-> "none"]
  /\ life = "up" /\ pending = None /\ acked = None /\ cutoff = 0 /\ resume = FALSE
  /\ call = Free /\ stop = [s \in Stops |-> NoStop]
  /\ drv = NoDriver /\ host = NoPrompt /\ events = <<>> /\ agent = <<>>
  /\ edits = 0 /\ faults = 0 /\ detaches = 0 /\ deaths = 0 /\ unswept = {} /\ paused = FALSE

Fault == faults < MaxFaults /\ faults' = faults + 1

\* A client finds the controller in the registry and takes sendMu.
Enter == life \in {"up", "ending"} /\ call = Free

Queued(r)  == {m \in Messages : r[m] = "queued"}
Running(r) == {m \in Messages : r[m] = "running"}
Before(k)  == {order[i] : i \in 1..k}

\* SelectNextQueuedConversationTurn, among the places of the rows that wait.
Queue(r) == {i \in 1..Len(order) : r[order[i]] = "queued" /\ order[i] \notin held}
NextTurn(r) == order[Min(Queue(r))]

Append1(m) == row' = [row EXCEPT ![m] = "queued"] /\ order' = Append(order, m)
Settle(m, s) == row' = [row EXCEPT ![m] = s]

\* drainLocked, on the rows r and with p pending, ends the caller's hold on sendMu
\* unless there is a row to dispatch.  The cutoff is taken whatever follows: when the
\* withdrawal of the rows behind it (CancelQueuedTurns) fails, they stay queued, and when
\* the next row cannot be read (NextQueuedTurn), it stays where it is.
Drain(r, p, cut, allow) ==
  LET kept == [m \in Messages |->
                 IF r[m] = "queued" /\ m \in Before(cut) THEN "interrupted" ELSE r[m]]
      next == IF p = None THEN kept ELSE r
      goes == p = None /\ (allow \/ cut > 0)
  IN  /\ cutoff' = 0
      /\ \/ /\ row' = next /\ paused' = (p = None /\ ~goes) /\ UNCHANGED <<faults, unswept>>
            /\ call' = IF goes /\ Queue(next) # {}
                       THEN [Free EXCEPT !.pc = "send", !.msg = NextTurn(next)] ELSE Free
         \/ /\ p = None /\ cut > 0 /\ Fault
            /\ row' = r /\ unswept' = unswept \cup {m \in Messages : kept[m] # r[m]}
            /\ call' = Free /\ paused' = TRUE
         \/ /\ goes /\ Fault
            /\ row' = next /\ call' = Free /\ paused' = TRUE /\ UNCHANGED unswept

-----------------------------------------------------------------------------
(* Send and dispatch.                                                       *)

\* AppendUserMessage ignores a client id it knows, so a message is sent once.
Send(m) ==
  /\ m \in Sends /\ Enter /\ row[m] = "none"
  /\ Append1(m)
  /\ call' = IF pending = None THEN [Free EXCEPT !.pc = "send", !.msg = m] ELSE Free
  /\ UNCHANGED <<held, ledger, ctl, stop, prov, used>>

\* A dispatch that n faults have failed settles its row; when that write fails as well,
\* the row stays queued.
DispatchFails(n) ==
  /\ \/ Settle(call.msg, "failed") /\ faults' = faults + n
     \/ UNCHANGED row /\ faults' = faults + n + 1
  /\ faults' <= MaxFaults /\ paused' = TRUE /\ call' = Free

\* SendTurn, or its refusal.
DispatchSend ==
  /\ call.pc = "send"
  /\ LET free == drv.prepared = None /\ drv.active = None IN
     \/ /\ free /\ drv' = [drv EXCEPT !.prepared = call.msg]
        /\ call' = [call EXCEPT !.pc = "bind"] /\ UNCHANGED <<row, faults, paused>>
     \/ DispatchFails(IF free THEN 1 ELSE 0) /\ UNCHANGED drv
  /\ UNCHANGED <<order, held, ledger, ctl, stop, host, events, agent, edits, detaches, deaths,
                 unswept>>

\* BindTurnToProvider, and the volatile owner; or the prepared turn is discarded.
DispatchBind ==
  /\ call.pc = "bind"
  /\ \/ /\ Settle(call.msg, "running") /\ pending' = call.msg /\ acked' = None
        /\ call' = [call EXCEPT !.pc = "start"] /\ paused' = FALSE /\ UNCHANGED <<drv, faults>>
     \/ /\ DispatchFails(1) /\ drv' = [drv EXCEPT !.prepared = None] /\ UNCHANGED <<pending, acked>>
  /\ UNCHANGED <<order, held, ledger, life, cutoff, resume, stop, host, events, agent,
                 edits, detaches, deaths, unswept>>

\* StartDeferredTurn.
DispatchStart ==
  /\ call.pc = "start"
  /\ drv' = [drv EXCEPT !.prepared = None, !.active = call.msg, !.run = "start"]
  /\ call' = Free
  /\ UNCHANGED <<rows, ctl, stop, host, events, agent, used>>

Dispatch == DispatchSend \/ DispatchBind \/ DispatchStart

-----------------------------------------------------------------------------
(* The driver and the agent: runTurn, finishPrompt and the host's relay.    *)

EmitStarted ==
  /\ life = "up" /\ drv.run = "start"
  /\ events' = Append(events, [kind |-> "started", turn |-> drv.active, out |-> "none"])
  /\ drv' = [drv EXCEPT !.run = "ready"]
  /\ UNCHANGED <<rows, ctl, call, stop, host, agent, used>>

\* The relay refuses a prompt while it keeps another, or one's result.
Prompt ==
  /\ life = "up" /\ drv.run = "ready"
  /\ IF host.st = "none"
     THEN /\ host' = [turn |-> drv.active, st |-> "active", out |-> "none"]
          /\ agent' = Append(agent, [msg |-> drv.active, how |-> "prompt"])
          /\ drv' = [drv EXCEPT !.run = "prompt"]
     ELSE /\ drv' = [drv EXCEPT !.run = "settle", !.out = "failed"] /\ UNCHANGED <<host, agent>>
  /\ UNCHANGED <<rows, ctl, call, stop, events, used>>

\* The agent ends the prompt; the host keeps the result until it is acknowledged.
AgentFinish ==
  /\ host.st = "active"
  /\ \E o \in Outcomes \cup (IF drv.cancel THEN {"interrupted"} ELSE {}) :
       /\ host' = [host EXCEPT !.st = "result", !.out = o]
       /\ drv' = IF life = "up" /\ drv.run = "prompt"
                 THEN [drv EXCEPT !.run = "settle", !.out = o] ELSE drv
  /\ UNCHANGED <<rows, ctl, call, stop, events, agent, used>>

\* finishPrompt announces the end first ...
EmitCompleted ==
  /\ life = "up" /\ drv.run = "settle"
  /\ events' = Append(events, [kind |-> "completed", turn |-> drv.active, out |-> drv.out])
  /\ drv' = [drv EXCEPT !.run = "done"]
  /\ UNCHANGED <<rows, ctl, call, stop, host, agent, used>>

\* ... and gives up the turn after that.
DriverIdle ==
  /\ drv.run = "done"
  /\ drv' = [NoDriver EXCEPT !.prepared = drv.prepared]
  /\ UNCHANGED <<rows, ctl, call, stop, host, events, agent, used>>

Driver == EmitStarted \/ Prompt \/ AgentFinish \/ EmitCompleted \/ DriverIdle

-----------------------------------------------------------------------------
(* project: both turn events are handled under sendMu.                      *)

ProjectStarted ==
  /\ life \in {"up", "ending"} /\ call = Free
  /\ events # <<>> /\ Head(events).kind = "started" /\ events' = Tail(events)
  /\ IF pending \in {None, Head(events).turn}
     THEN pending' = Head(events).turn /\ acked' = Head(events).turn
     ELSE UNCHANGED <<pending, acked>>
  /\ UNCHANGED <<rows, life, cutoff, resume, call, stop, drv, host, agent, used>>

\* The row is settled and the host's receipt acknowledged; the owner's completion
\* also frees the slot and drains the queue.
ProjectCompleted ==
  /\ life \in {"up", "ending"} /\ call = Free
  /\ events # <<>> /\ Head(events).kind = "completed" /\ events' = Tail(events)
  /\ LET t == Head(events).turn  r == [row EXCEPT ![t] = Head(events).out] IN
       /\ host' = IF host.st = "result" /\ host.turn = t THEN NoPrompt ELSE host
       /\ IF pending = t
          THEN /\ pending' = None /\ acked' = IF acked = t THEN None ELSE acked
               /\ Drain(r, None, cutoff, Head(events).out = "completed")
          ELSE row' = r /\ UNCHANGED <<pending, acked, cutoff, call, faults, unswept, paused>>
  /\ UNCHANGED <<order, held, ledger, life, resume, stop, drv, agent, edits, detaches, deaths>>

ResumeQueue ==
  /\ Enter /\ resume /\ resume' = FALSE
  /\ Drain(row, pending, cutoff, TRUE)
  /\ UNCHANGED <<order, held, ledger, life, pending, acked, stop, prov, edits, detaches, deaths>>

Projector == ProjectStarted \/ ProjectCompleted \/ ResumeQueue

-----------------------------------------------------------------------------
(* Interrupt.                                                               *)

\* Every visible running row is settled with the target, and the survivors drain.
Visible(t) == IF t = None THEN Running(row) ELSE Running(row) \cup {t}
Closed(ms) == [m \in Messages |-> IF m \in ms THEN "interrupted" ELSE row[m]]

Reconcile(t, cut) ==
  LET p == IF pending \in Visible(t) THEN None ELSE pending
  IN  /\ pending' = p /\ acked' = IF acked \in Visible(t) THEN None ELSE acked
      /\ Drain(Closed(Visible(t)), p, cut, TRUE)

\* The rows are settled one by one, and one that cannot be ends the call with an error
\* before anything is drained.
ReconcileFails(t) ==
  /\ Fault /\ \E ms \in SUBSET Visible(t) : row' = Closed(ms)
  /\ call' = Free /\ UNCHANGED <<pending, acked, cutoff, unswept, paused>>

\* Faulty: Stop publishes no cutoff.
StopBeginBare(s) ==
  /\ Enter /\ stop[s].pc = "idle" /\ pending # None
  /\ stop' = [stop EXCEPT ![s] = [pc |-> "await", turn |-> pending,
                                  cut |-> Len(order), queue |-> Queued(row)]]
  /\ UNCHANGED <<rows, ctl, call, prov, used>>

\* Under sendMu: the cutoff is published, or what is left on disk is closed at once.
StopBegin(s) ==
  /\ Enter /\ stop[s].pc = "idle"
  /\ IF pending # None
     THEN /\ cutoff' = Len(order)
          /\ stop' = [stop EXCEPT ![s] = [pc |-> "await", turn |-> pending,
                                          cut |-> Len(order), queue |-> Queued(row)]]
          /\ UNCHANGED <<row, pending, acked, call, drv, faults, unswept, paused>>
     ELSE /\ \/ Reconcile(None, Len(order)) /\ stop' = [stop EXCEPT ![s] =
                  [NoStop EXCEPT !.pc = "done", !.queue = Queued(row)]]
             \/ ReconcileFails(None) /\ stop' = [stop EXCEPT ![s].pc = "failed"]
          /\ drv' = IF drv.active \in Running(row) /\ drv.run \in {"start", "ready", "prompt"}
                    THEN [drv EXCEPT !.cancel = TRUE] ELSE drv
  /\ UNCHANGED <<order, held, ledger, life, resume, host, events, agent, edits, detaches, deaths>>

\* The turn is acknowledged, or the wait runs out; another owner ends the call.
StopAwait(s) ==
  /\ stop[s].pc = "await"
  /\ stop' = [stop EXCEPT ![s].pc = IF pending = stop[s].turn THEN "cancel" ELSE "done"]
  /\ UNCHANGED <<rows, ctl, call, prov, used>>

\* The driver sends the cancel, or refuses; any other error withdraws the cutoff.
StopCancel(s) ==
  /\ stop[s].pc = "cancel"
  /\ LET gone == drv.active # stop[s].turn \/ drv.run \in {"settle", "done"} IN
     \/ /\ gone /\ stop' = [stop EXCEPT ![s].pc = "refused"] /\ UNCHANGED <<drv, cutoff, faults>>
     \/ /\ ~gone /\ ~drv.cancel /\ drv' = [drv EXCEPT !.cancel = TRUE]
        /\ stop' = [stop EXCEPT ![s].pc = "done"] /\ UNCHANGED <<cutoff, faults>>
     \/ /\ ~gone /\ (drv.cancel \/ faults < MaxFaults)
        /\ faults' = IF drv.cancel THEN faults ELSE faults + 1
        /\ cutoff' = 0 /\ stop' = [stop EXCEPT ![s].pc = "failed"] /\ UNCHANGED drv
  /\ UNCHANGED <<rows, life, pending, acked, resume, call, host, events, agent,
                 edits, detaches, deaths, unswept, paused>>

\* The provider has no such turn: its row is closed, unless a completion came first.
StopReconcile(s) ==
  /\ call = Free /\ stop[s].pc = "refused"
  /\ \/ /\ stop' = [stop EXCEPT ![s].pc = "done"]
        /\ IF pending = stop[s].turn THEN Reconcile(stop[s].turn, stop[s].cut)
           ELSE UNCHANGED <<row, pending, acked, cutoff, call, faults, unswept, paused>>
     \/ /\ pending = stop[s].turn /\ ReconcileFails(stop[s].turn)
        /\ stop' = [stop EXCEPT ![s].pc = "failed"]
  /\ UNCHANGED <<order, held, ledger, life, resume, prov, edits, detaches, deaths>>

Interrupt(s) == StopBegin(s) \/ StopAwait(s) \/ StopCancel(s) \/ StopReconcile(s)

-----------------------------------------------------------------------------
(* Guidance: PromoteQueuedTurn and SteerOrSend, which hold sendMu from the  *)
(* wait for the acknowledgement to the last write.                          *)

\* What a call is about: a row that is queued is being promoted.
Promotes == row[call.msg] = "queued"

Await(m) == call' = [pc |-> "await", msg |-> m, turn |-> pending]

\* Faulty: SteerOrSend does not look for an earlier attempt.
SteerOrSendAfresh(m) ==
  /\ m \in Guidance /\ Enter /\ row[m] = "none"
  /\ IF pending # None THEN Await(m) /\ UNCHANGED <<row, order>>
     ELSE Append1(m) /\ call' = [Free EXCEPT !.pc = "send", !.msg = m]
  /\ UNCHANGED <<held, ledger, ctl, stop, prov, used>>

\* A message or an outcome on record is replayed; a refusal lets the message be sent.
SteerOrSend(m) ==
  /\ m \in Guidance /\ Enter /\ row[m] = "none" /\ ledger[m] \in {"none", "refused"}
  /\ IF pending # None /\ ledger[m] = "none" THEN Await(m) /\ UNCHANGED <<row, order>>
     ELSE Append1(m) /\ call' = [Free EXCEPT !.pc = "send", !.msg = m]
  /\ UNCHANGED <<held, ledger, ctl, stop, prov, used>>

PromoteQueued(m) ==
  /\ m \in Promotable /\ Enter /\ row[m] = "queued" /\ pending # None /\ Await(m)
  /\ UNCHANGED <<rows, ctl, stop, prov, used>>

\* ReserveQueuedTurnForPromotion or ReserveSteerDelivery.
Reserve ==
  /\ IF ~Promotes
     THEN /\ ledger' = [ledger EXCEPT ![call.msg] = "reserved"]
          /\ call' = [call EXCEPT !.pc = "steer"] /\ UNCHANGED held
     ELSE /\ held' = held \cup {call.msg}
          /\ call' = IF call.msg \in held THEN Free ELSE [call EXCEPT !.pc = "steer"]
          /\ UNCHANGED ledger
  /\ UNCHANGED <<row, order, ctl, stop, prov, used>>

AwaitForever == call.pc = "await" /\ acked = call.turn /\ Reserve   \* Faulty: no timer.
AwaitAcked   == call.pc = "await" /\ acked = call.turn /\ Reserve
AwaitTimeout == call.pc = "await" /\ acked # call.turn /\ Reserve

\* The provider injects the text into the running turn or hands it back.
SteerAnswer ==
  /\ call.pc = "steer"
  /\ \/ /\ drv.active = call.turn /\ host.st = "active" /\ host.turn = call.turn
        /\ agent' = Append(agent, [msg |-> call.msg, how |-> "steer"])
        /\ call' = [call EXCEPT !.pc = "record"]
     \/ call' = [call EXCEPT !.pc = "refuse"] /\ UNCHANGED agent
  /\ UNCHANGED <<rows, ctl, stop, drv, host, events, used>>

\* The call fails on the way there or back: a promoted row is settled, unless that fails
\* with it, and a reserved delivery stays as it is.
SteerUncertain ==
  /\ call.pc = "steer" /\ Fault /\ call' = Free
  /\ \/ /\ host.st = "active" /\ host.turn = call.turn
        /\ agent' = Append(agent, [msg |-> call.msg, how |-> "steer"])
     \/ UNCHANGED agent
  /\ UNCHANGED row \/ (Promotes /\ Settle(call.msg, "failed"))
  /\ UNCHANGED <<order, held, ledger, ctl, stop, drv, host, events, edits, detaches, deaths,
                 unswept, paused>>

\* CompleteQueuedTurnPromotion or CompleteSteerDelivery.
SteerRecord ==
  /\ call.pc = "record" /\ call' = Free
  /\ \/ /\ UNCHANGED faults
        /\ IF Promotes THEN Settle(call.msg, "completed") /\ held' = held \ {call.msg} /\ UNCHANGED ledger
           ELSE ledger' = [ledger EXCEPT ![call.msg] = "accepted"] /\ UNCHANGED <<row, held>>
     \/ /\ Fault /\ UNCHANGED <<held, ledger>>
        /\ UNCHANGED row \/ (Promotes /\ Settle(call.msg, "failed"))
  /\ UNCHANGED <<order, ctl, stop, prov, edits, detaches, deaths, unswept, paused>>

\* The reservation is released; or the refusal is recorded, and the message sent
\* whether or not a turn is pending.  A write that fails ends the call.
SteerRefuse ==
  /\ call.pc = "refuse"
  /\ \/ /\ IF Promotes
           THEN held' = held \ {call.msg} /\ call' = Free /\ UNCHANGED <<row, order, ledger>>
           ELSE IF ledger[call.msg] = "reserved"
           THEN /\ ledger' = [ledger EXCEPT ![call.msg] = "refused"]
                /\ UNCHANGED <<row, order, held, call>>
           ELSE /\ Append1(call.msg) /\ call' = [call EXCEPT !.pc = "send"]
                /\ UNCHANGED <<held, ledger>>
        /\ UNCHANGED faults
     \/ Fault /\ call' = Free /\ UNCHANGED rows
  /\ UNCHANGED <<ctl, stop, prov, edits, detaches, deaths, unswept, paused>>

Steer == AwaitAcked \/ AwaitTimeout \/ SteerAnswer \/ SteerUncertain \/ SteerRecord \/ SteerRefuse

-----------------------------------------------------------------------------
(* Queue edits, and the ends of a controller.                               *)

Edit == edits < MaxEdits /\ edits' = edits + 1 /\ Enter

CancelAnyway(m) ==   \* Faulty: the state is not in the WHERE clause.
  /\ Edit /\ row[m] \in {"queued", "running"} /\ m \notin held /\ Settle(m, "cancelled")
  /\ UNCHANGED <<order, held, ledger, ctl, call, stop, prov, faults, detaches, deaths,
                 unswept, paused>>
CancelQueued(m) ==
  /\ Edit /\ row[m] = "queued" /\ m \notin held /\ Settle(m, "cancelled")
  /\ UNCHANGED <<order, held, ledger, ctl, call, stop, prov, faults, detaches, deaths,
                 unswept, paused>>

\* ReorderQueuedTurns permutes the requested_at values of the queue among its rows;
\* here two rows change places.
Reorder(m, n) ==
  /\ Edit /\ {m, n} \subseteq Queued(row) \ held /\ m # n
  /\ order' = [i \in 1..Len(order) |-> IF order[i] = m THEN n ELSE IF order[i] = n THEN m ELSE order[i]]
  /\ UNCHANGED <<row, held, ledger, ctl, call, stop, prov, faults, detaches, deaths,
                 unswept, paused>>

\* Calls of Interrupt on a controller that is gone come to nothing.
DropStops == stop' = [s \in Stops |-> IF stop[s].pc \in {"await", "cancel", "refused"}
                                      THEN [stop[s] EXCEPT !.pc = "failed"] ELSE stop[s]]

Forget ==
  /\ pending' = None /\ acked' = None /\ cutoff' = 0 /\ resume' = FALSE /\ events' = <<>>
  /\ drv' = NoDriver /\ DropStops

\* A projection fails for good: the controller lets go of a host that lives on.
Detach ==
  /\ life = "up" /\ call = Free /\ events # <<>>
  /\ detaches < MaxDetaches /\ detaches' = detaches + 1
  /\ life' = "down" /\ Forget
  /\ UNCHANGED <<rows, call, host, agent, edits, faults, deaths, unswept, paused>>

\* The provider dies under its controller, whose event stream closes.
ProviderDies ==
  /\ life = "up" /\ deaths < MaxDeaths /\ deaths' = deaths + 1
  /\ life' = "ending" /\ host' = NoPrompt /\ drv' = [NoDriver EXCEPT !.prepared = drv.prepared]
  /\ UNCHANGED <<rows, pending, acked, cutoff, resume, call, stop, events, agent,
                 edits, faults, detaches, unswept, paused>>

\* The projector ends: CleanupOwnedControllerWork, which does not take sendMu.
StreamEnds ==
  /\ life = "ending" /\ events = <<>> /\ life' = "closed"
  /\ row' = [m \in Messages |-> IF row[m] = "running" THEN "failed" ELSE row[m]]
  /\ UNCHANGED <<order, held, ledger, pending, acked, cutoff, resume, call, stop, prov, used>>

\* The daemon dies between any two steps; its provider hosts follow it.
Crash ==
  /\ deaths < MaxDeaths /\ deaths' = deaths + 1
  /\ life' = "down" /\ host' = NoPrompt /\ call' = Free /\ Forget
  /\ UNCHANGED <<rows, agent, edits, faults, detaches, unswept, paused>>

\* Start adopts the live host: the running row that was asked for last is the owner, and
\* host and rows must agree on whether there is one.
Latest == LET run == {i \in 1..Len(order) : row[order[i]] = "running"}
          IN  IF run = {} THEN None ELSE order[Max(run)]

StartLive ==
  /\ life = "down" /\ call = Free
  /\ (host.st = "active") => (Latest # None)
  /\ (Latest # None) => (host.st # "none")
  /\ life' = "up" /\ resume' = TRUE
  /\ pending' = Latest /\ acked' = Latest /\ cutoff' = 0
  /\ IF Latest = None THEN host' = NoPrompt /\ drv' = NoDriver
     ELSE /\ drv' = [NoDriver EXCEPT !.active = Latest, !.out = host.out,
                                     !.run = IF host.st = "active" THEN "prompt" ELSE "settle"]
          /\ UNCHANGED host
  /\ DropStops /\ UNCHANGED <<rows, call, events, agent, used>>

\* Faulty: what a dead controller ran is left as it was.
StartFreshKeeps ==
  /\ life \in {"closed", "down"} /\ call = Free
  /\ life' = "up" /\ resume' = TRUE
  /\ pending' = None /\ acked' = None /\ cutoff' = 0
  /\ drv' = NoDriver /\ host' = NoPrompt
  /\ DropStops /\ UNCHANGED <<rows, call, events, agent, used>>

\* Faulty: a controller that comes back does not look at the queue.
StartFreshIdle ==
  /\ life \in {"closed", "down"} /\ call = Free
  /\ life' = "up" /\ resume' = FALSE
  /\ pending' = None /\ acked' = None /\ cutoff' = 0
  /\ drv' = NoDriver /\ host' = NoPrompt
  /\ row' = [m \in Messages |-> IF row[m] = "running" THEN "failed" ELSE row[m]]
  /\ DropStops /\ UNCHANGED <<order, held, ledger, call, events, agent, used>>

\* Start on a new provider process: settleOrphanedWork closes what ran and leaves the
\* queue of a live session alone.
StartFresh ==
  /\ life \in {"closed", "down"} /\ call = Free
  /\ life' = "up" /\ resume' = TRUE
  /\ pending' = None /\ acked' = None /\ cutoff' = 0
  /\ drv' = NoDriver /\ host' = NoPrompt
  /\ row' = [m \in Messages |-> IF row[m] = "running" THEN "failed" ELSE row[m]]
  /\ DropStops /\ UNCHANGED <<order, held, ledger, call, events, agent, used>>

Restart == StartLive \/ StartFresh

-----------------------------------------------------------------------------

Clients ==
  \/ \E m \in Messages : Send(m) \/ SteerOrSend(m) \/ PromoteQueued(m) \/ CancelQueued(m)
  \/ \E m, n \in Messages : Reorder(m, n)

Next ==
  \/ Clients \/ Dispatch \/ Steer \/ Driver \/ Projector
  \/ \E s \in Stops : Interrupt(s)
  \/ Detach \/ ProviderDies \/ StreamEnds \/ Crash \/ Restart

Spec == Init /\ [][Next]_vars

\* Calls go on, the projector and the driver run, the agent ends its turns, and a
\* session that lost its controller is opened again.  No timer is among them.
Fairness ==
  /\ WF_vars(Dispatch) /\ WF_vars(AwaitAcked) /\ WF_vars(SteerAnswer)
  /\ WF_vars(SteerRecord) /\ WF_vars(SteerRefuse)
  /\ WF_vars(EmitStarted) /\ WF_vars(Prompt) /\ WF_vars(AgentFinish)
  /\ WF_vars(EmitCompleted) /\ WF_vars(DriverIdle)
  /\ SF_vars(ProjectStarted \/ ProjectCompleted) /\ SF_vars(ResumeQueue)
  /\ \A s \in Stops : WF_vars(StopAwait(s)) /\ WF_vars(StopCancel(s)) /\ SF_vars(StopReconcile(s))
  /\ WF_vars(StreamEnds) /\ WF_vars(StartFresh)

AckSpec  == Spec /\ Fairness
FairSpec == AckSpec /\ WF_vars(AwaitTimeout)

-----------------------------------------------------------------------------
(* Correctness.                                                             *)

Taken(m) == {i \in 1..Len(agent) : agent[i].msg = m}
EndIsComing(m) ==
  \/ drv.active = m
  \/ \E i \in 1..Len(events) : events[i].kind = "completed" /\ events[i].turn = m
Prompted == {agent[i].msg : i \in {j \in 1..Len(agent) : agent[j].how = "prompt"}}

\* Whatever crashes, is retried or is answered late, the agent takes a message once:
\* a duplicate would run its work twice.
TakenOnce == \A m \in Messages : Cardinality(Taken(m)) <= 1

\* A row that was withdrawn or cancelled before it was dispatched never reaches the
\* agent, and one the agent took is never shown as withdrawn.
WithdrawnStaysWithdrawn == \A m \in Messages : row[m] = "cancelled" => Taken(m) = {}

\* A running row has something that will settle it: the call that dispatches it, the
\* driver's turn, an event on its way or the start of the next controller.
RunningIsOwned ==
  life = "up" => \A m \in Running(row) :
    EndIsComing(m) \/ (call.pc = "start" /\ call.msg = m)

\* A reservation that is not being promoted has been released by the time the controller
\* has resumed its queue: a crash does not keep a row from every later drain.
HeldIsPromoted ==
  life = "up" /\ ~resume => \A m \in held \cap Queued(row) :
    call.msg = m /\ call.pc \in {"steer", "record", "refuse"}

\* What Stop leaves of the queue that it found, once the turn it stopped has ended and the
\* queue has been seen to: messages that were prompted or wait to be.  Nothing is claimed
\* after an edit: the cutoff is a place in the order, which Reorder changes.
PastStop(s) ==
  IF /\ edits = 0 /\ stop[s].pc = "done" /\ stop[s].turn # None
     /\ row[stop[s].turn] \in Ends /\ cutoff = 0
  THEN stop[s].queue \cap (Prompted \cup Queued(row)) ELSE {}

\* Stop is a brake: what was queued when it was pressed neither waits to be sent nor was
\* prompted, whatever call, completion or refusal ended the turn and whatever else failed.
\* The rows of a drain whose own withdrawal failed are excepted (see BrakeHolds).
StopBrakes == \A s \in Stops : PastStop(s) \subseteq unswept

\* The same without the exception, as the comment of drainLocked puts it: everything queued
\* at that moment is cancelled.  The cutoff is spent before the write, so it does not hold.
BrakeHolds == \A s \in Stops : PastStop(s) = {}

\* Nothing is settled as failed that no fault, death or turn of the agent failed.
FailedForCause ==
  faults = 0 /\ deaths = 0 => \A m \in Messages : row[m] = "failed" => m \in Prompted

\* A stream that has ended leaves no turn that looks live.
EndedIsSettled == life = "closed" /\ call = Free => Running(row) = {}

\* The queue waits for a user or a restart: nothing is under way whose end would drain it,
\* and the last turn did not complete, a dispatch failed, or the store failed the drain.
Resting == life = "up" /\ ~resume /\ call = Free /\ pending = None /\ paused

\* A queued row is dispatched or settled, over turns, deaths and restarts.  It stays only
\* behind a promotion that was cut off (HeldIsPromoted), or once the code has put the queue
\* at rest: it holds the queue after a turn that did not complete and stops after a
\* dispatch, or a drain, that failed.  What takes it out of rest obliges it again.
QueueMoves ==
  \A m \in Messages : (row[m] = "queued") ~> (row[m] # "queued" \/ m \in held \/ Resting)

\* Every call that holds sendMu gives it back.
LockIsFreed == (call # Free) ~> (call = Free)

\* The acknowledgement, not the timer, ends the wait for a turn that was announced.
AckEndsWait ==
  (call.pc = "await" /\ \E i \in 1..Len(events) :
     events[i].kind = "started" /\ events[i].turn = call.turn) ~> (call.pc # "await")

=============================================================================

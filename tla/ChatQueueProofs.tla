-------------------------- MODULE ChatQueueProofs ---------------------------
(***************************************************************************)
(* Why no message reaches the agent twice, whatever is stopped, promoted,  *)
(* answered late, detached, killed or restarted.  A message has one of two *)
(* ways in, as a prompt of its own turn or as guidance for another, and a  *)
(* row that is reserved, a delivery on record and the state of its row     *)
(* each close a way before the agent could be handed the message again.    *)
(* Then, who ends a row that runs, and what a Stop keeps from the agent.   *)
(***************************************************************************)
EXTENDS ChatQueue, SequenceTheorems, FiniteSetTheorems, WellFoundedInduction, TLAPS

Turns   == Messages \cup {None}
States  == {"none", "queued", "running", "cancelled"} \cup Ends
Calls   == [pc : {"free", "send", "bind", "start", "await", "steer", "record", "refuse"},
            msg : Turns, turn : Turns]
Drivers == [prepared : Turns, active : Turns, cancel : BOOLEAN, out : Ends \cup {"none"},
            run : {"none", "start", "ready", "prompt", "settle", "done"}]
Prompts == [turn : Turns, st : {"none", "active", "result"}, out : Ends \cup {"none"}]
Events  == [kind : {"started", "completed"}, turn : Messages, out : Ends \cup {"none"}]
Takes   == [msg : Messages, how : {"prompt", "steer"}]

\* The types that the argument rests on.  A turn that has ended has an outcome.
RowsTyped ==
  /\ row \in [Messages -> States] /\ order \in Seq(Messages) /\ held \subseteq Messages
  /\ ledger \in [Messages -> {"none", "reserved", "accepted", "refused"}]
CallTyped == pending \in Turns /\ call \in Calls /\ (call.pc # "free" => call.msg \in Messages)
DrvTyped  ==
  /\ drv \in Drivers /\ (drv.run # "none" => drv.active \in Messages)
  /\ drv.run = "settle" => drv.out \in Ends
  /\ host \in Prompts /\ (host.st = "result" => host.out \in Ends)
EventsTyped ==
  /\ events \in Seq(Events)
  /\ \A i \in 1..Len(events) : events[i].kind = "completed" => events[i].out \in Ends
Typed == RowsTyped /\ CallTyped /\ DrvTyped /\ EventsTyped /\ agent \in Seq(Takes)

Took == {agent[i].msg : i \in 1..Len(agent)}

Once == \A i, j \in 1..Len(agent) : agent[i].msg = agent[j].msg => i = j

\* What the state of a row says of a message the agent has: it is not dispatched again
\* while it is reserved, nor sent again while its delivery is on record.
TakenKnown ==
  /\ \A m \in Messages \cap Took :
       /\ row[m] = "queued" => m \in held
       /\ row[m] = "none" => ledger[m] \in {"reserved", "accepted"}
       /\ row[m] # "cancelled"
  /\ \A m \in Messages : ledger[m] # "none" => m \in Guidance

\* A turn on its way to the agent has a row that no queue edit can reach any more.
Dispatched(m) == m \notin Took /\ row[m] \in {"running"} \cup Ends
Starting == drv.run \in {"start", "ready"}
TurnUntaken == Starting => Dispatched(drv.active)

\* What the call that holds sendMu is about.
CallUntaken ==
  /\ call.pc \in {"send", "bind"} => row[call.msg] = "queued" /\ call.msg \notin Took
  /\ call.pc = "start" => Dispatched(call.msg) /\ ~(Starting /\ drv.active = call.msg)
  /\ call.pc \in {"await", "steer", "record", "refuse"} => row[call.msg] \in {"none", "queued"}
  /\ call.pc = "await" /\ row[call.msg] = "none" => call.msg \in Guidance /\ ledger[call.msg] = "none"
  /\ call.pc \in {"steer", "record", "refuse"} /\ row[call.msg] = "queued" => call.msg \in held
  /\ call.pc \in {"steer", "record", "refuse"} /\ row[call.msg] = "none" => ledger[call.msg] # "none"
  /\ call.pc \in {"steer", "record"} /\ row[call.msg] = "none" => ledger[call.msg] = "reserved"
  /\ call.pc \in {"steer", "refuse"} => call.msg \notin Took

QueueInv == Once /\ TakenKnown /\ TurnUntaken /\ CallUntaken

-----------------------------------------------------------------------------
(* Data.                                                                    *)

LEMMA Distinct ==
  /\ None \notin Messages /\ Sends \cap Guidance = {} /\ Promotable \subseteq Messages
  /\ Sends \subseteq Messages /\ Guidance \subseteq Messages /\ Outcomes \subseteq Ends
BY QueueAssumption DEF QueueAssumption, Messages, Ends

LEMMA LeastExists ==
  ASSUME NEW S \in SUBSET Nat, S # {}
  PROVE  Min(S) \in S
<1>1. PICK x \in S : \A y \in S : ~(<<y, x>> \in OpToRel(<, Nat))
  BY NatLessThanWellFounded, WFMin
<1>2. \A y \in S : ~(y < x)
  BY <1>1 DEF OpToRel
<1>3. \A y \in S : x =< y
  BY <1>2
<1> QED BY <1>3 DEF Min

LEMMA GreatestExists ==
  ASSUME NEW n \in Nat, NEW S \in SUBSET (1..n), S # {}
  PROVE  Max(S) \in S
<1> DEFINE T == {n - i : i \in S}
<1>1. T \in SUBSET Nat /\ T # {}
  <2>1. \A i \in S : n - i \in Nat
    OBVIOUS
  <2> QED BY <2>1
<1>2. PICK x \in T : \A y \in T : ~(<<y, x>> \in OpToRel(<, Nat))
  BY <1>1, NatLessThanWellFounded, WFMin
<1>3. PICK i \in S : x = n - i
  BY <1>2
<1>4. \A j \in S : n - j \in T /\ ~(n - j < x)
  BY <1>1, <1>2 DEF OpToRel
<1>5. \A j \in S : i >= j
  BY <1>3, <1>4
<1> QED BY <1>5 DEF Max

\* The row a drain takes waits, and no promotion has reserved it.
LEMMA NextWaits ==
  ASSUME NEW r, order \in Seq(Messages), Queue(r) # {}
  PROVE  NextTurn(r) \in Messages /\ r[NextTurn(r)] = "queued" /\ NextTurn(r) \notin held
<1>1. Queue(r) \in SUBSET Nat
  BY DEF Queue
<1>2. Min(Queue(r)) \in Queue(r)
  BY <1>1, LeastExists
<1>3. Min(Queue(r)) \in 1..Len(order)
  BY <1>2 DEF Queue
<1>4. order[Min(Queue(r))] \in Messages
  BY <1>3, ElementOfSeq
<1> QED BY <1>2, <1>4 DEF Queue, NextTurn

LEMMA LatestRuns ==
  ASSUME order \in Seq(Messages)
  PROVE  Latest \in Turns /\ (Latest # None => Latest \in Messages)
<1> DEFINE run == {i \in 1..Len(order) : row[order[i]] = "running"}
<1>1. CASE run = {}
  BY <1>1 DEF Latest, Turns
<1>2. CASE run # {}
  <2>1. Len(order) \in Nat /\ run \in SUBSET (1..Len(order))
    OBVIOUS
  <2>2. Max(run) \in run
    BY <1>2, <2>1, GreatestExists
  <2>3. order[Max(run)] \in Messages
    BY <2>2, ElementOfSeq
  <2>4. Latest = order[Max(run)]
    BY <1>2 DEF Latest
  <2> QED BY <2>3, <2>4 DEF Turns
<1> QED BY <1>1, <1>2

\* What one more message taken changes.
LEMMA AppendTake ==
  ASSUME Typed, NEW m \in Messages, NEW h \in {"prompt", "steer"},
         agent' = Append(agent, [msg |-> m, how |-> h])
  PROVE  /\ agent' \in Seq(Takes) /\ Took' = Took \cup {m}
         /\ Once /\ m \notin Took => Once'
<1> DEFINE g == [msg |-> m, how |-> h]
<1>1. g \in Takes /\ g.msg = m /\ agent \in Seq(Takes)
  BY DEF Takes, Typed
<1>2. /\ agent' \in Seq(Takes) /\ Len(agent') = Len(agent) + 1
      /\ \A k \in 1..Len(agent) : agent'[k] = agent[k]
      /\ agent'[Len(agent) + 1] = g
  BY <1>1, AppendProperties
<1>3. Len(agent) \in Nat
  BY <1>1
<1>4. Took' = Took \cup {m}
  BY <1>1, <1>2, <1>3 DEF Took
<1>5. ASSUME Once, m \notin Took PROVE Once'
  <2>1. \A k \in 1..Len(agent) : agent'[k].msg # m /\ agent'[k].msg = agent[k].msg
    BY <1>2, <1>5 DEF Took
  <2>2. \A k \in 1..Len(agent') : k \in 1..Len(agent) \/ (k = Len(agent) + 1 /\ agent'[k].msg = m)
    BY <1>1, <1>2, <1>3
  <2> QED BY <1>5, <2>1, <2>2 DEF Once
<1> QED BY <1>2, <1>4, <1>5

LEMMA AppendEvent ==
  ASSUME Typed, NEW e \in Events, events' = Append(events, e),
         e.kind = "completed" => e.out \in Ends
  PROVE  EventsTyped'
<1>1. events \in Seq(Events) /\ Len(events) \in Nat
  BY DEF Typed, EventsTyped
<1>2. /\ events' \in Seq(Events) /\ Len(events') = Len(events) + 1
      /\ \A k \in 1..Len(events) : events'[k] = events[k]
      /\ events'[Len(events) + 1] = e
  BY <1>1, AppendProperties
<1>3. \A k \in 1..Len(events') : k \in 1..Len(events) \/ k = Len(events) + 1
  BY <1>1, <1>2
<1> QED BY <1>2, <1>3 DEF Typed, EventsTyped

LEMMA TailEvents ==
  ASSUME Typed, events # <<>>
  PROVE  /\ Head(events) \in Events /\ Head(events).turn \in Messages
         /\ Head(events).kind = "completed" => Head(events).out \in Ends
         /\ events' = Tail(events) => EventsTyped'
<1>1. events \in Seq(Events) /\ Len(events) \in Nat \ {0}
  BY EmptySeq DEF Typed, EventsTyped
<1>2. /\ Head(events) \in Events /\ Tail(events) \in Seq(Events)
      /\ Len(Tail(events)) = Len(events) - 1
      /\ \A i \in 1..Len(Tail(events)) : Tail(events)[i] = events[i + 1]
  BY <1>1, HeadTailProperties
<1>3. Head(events) = events[1] /\ 1 \in 1..Len(events)
  BY <1>1
<1>4. \A i \in 1..Len(Tail(events)) : i + 1 \in 1..Len(events)
  BY <1>1, <1>2
<1>5. Head(events).turn \in Messages /\ (Head(events).kind = "completed" => Head(events).out \in Ends)
  BY <1>2, <1>3 DEF Typed, EventsTyped, Events
<1>6. ASSUME events' = Tail(events) PROVE EventsTyped'
  <2>1. \A i \in 1..Len(events') : events'[i] = events[i + 1] /\ i + 1 \in 1..Len(events)
    BY <1>2, <1>4, <1>6
  <2> QED BY <1>2, <1>6, <2>1 DEF Typed, EventsTyped
<1> QED BY <1>2, <1>5, <1>6

-----------------------------------------------------------------------------
(* The drain.                                                               *)

Sending(m) == [Free EXCEPT !.pc = "send", !.msg = m]

LEMMA SendingIs ==
  /\ Free \in Calls /\ Free.pc = "free"
  /\ \A m \in Messages : Sending(m) \in Calls /\ Sending(m).pc = "send" /\ Sending(m).msg = m
<1>1. Free \in Calls /\ Free.pc = "free"
  BY DEF Free, Calls, Turns
<1> QED BY <1>1 DEF Sending, Calls, Turns

\* A drain withdraws rows of the queue, and goes on to send one that waits or gives back
\* sendMu.
LEMMA DrainDoes ==
  ASSUME NEW r \in [Messages -> States], NEW p, NEW cut, NEW allow,
         order \in Seq(Messages), Drain(r, p, cut, allow)
  PROVE  /\ row' \in [Messages -> States]
         /\ \A m \in Messages : row'[m] = r[m] \/ row'[m] = "interrupted"
         /\ \/ call' = Free
            \/ \E m \in Messages : call' = Sending(m) /\ row'[m] = "queued" /\ m \notin held
<1> DEFINE kept == [m \in Messages |->
                     IF r[m] = "queued" /\ m \in Before(cut) THEN "interrupted" ELSE r[m]]
           next == IF p = None THEN kept ELSE r
<1>1. kept \in [Messages -> States]
  BY DEF States, Ends
<1>2. next \in [Messages -> States] /\ \A m \in Messages : next[m] = r[m] \/ next[m] = "interrupted"
  BY <1>1
<1>3. \/ row' = next
      \/ row' = r /\ call' = Free
  BY DEF Drain
<1>4. call' = Free \/ (row' = next /\ Queue(next) # {} /\ call' = Sending(NextTurn(next)))
  BY DEF Drain, Sending
<1>5. Queue(next) # {} =>
        NextTurn(next) \in Messages /\ next[NextTurn(next)] = "queued" /\ NextTurn(next) \notin held
  BY NextWaits
<1> HIDE DEF next
<1> QED BY <1>2, <1>3, <1>4, <1>5

\* Interrupt settles rows and drains the rest, or has failed before it could.
Reconciles == \E t, cut : Reconcile(t, cut) \/ ReconcileFails(t)

LEMMA ReconcileDoes ==
  ASSUME Typed, Reconciles
  PROVE  /\ row' \in [Messages -> States] /\ pending' \in Turns
         /\ \A m \in Messages : row'[m] = row[m] \/ row'[m] = "interrupted"
         /\ \/ call' = Free
            \/ \E m \in Messages : call' = Sending(m) /\ row'[m] = "queued" /\ m \notin held
<1> PICK t, cut : Reconcile(t, cut) \/ ReconcileFails(t)
  BY DEF Reconciles
<1>1. /\ row \in [Messages -> States] /\ pending \in Turns /\ order \in Seq(Messages)
      /\ \A ms : /\ Closed(ms) \in [Messages -> States]
               /\ \A m \in Messages : Closed(ms)[m] = row[m] \/ Closed(ms)[m] = "interrupted"
  BY DEF Typed, RowsTyped, CallTyped, Closed, States, Ends
<1>2. CASE Reconcile(t, cut)
  <2> DEFINE p == IF pending \in Visible(t) THEN None ELSE pending
             r == Closed(Visible(t))
  <2>1. Drain(r, p, cut, TRUE) /\ pending' = p
    BY <1>2 DEF Reconcile
  <2>2. pending' \in Turns
    BY <1>1, <2>1 DEF Turns
  <2>3. r \in [Messages -> States] /\ \A m \in Messages : r[m] = row[m] \/ r[m] = "interrupted"
    BY <1>1
  <2> HIDE DEF r, p
  <2> QED BY <1>1, <2>1, <2>2, <2>3, DrainDoes
<1>3. CASE ReconcileFails(t)
  BY <1>1, <1>3 DEF ReconcileFails
<1> QED BY <1>2, <1>3

-----------------------------------------------------------------------------
(* Types.                                                                   *)

LEMMA TypedInit == Init => Typed
<1> SUFFICES ASSUME Init PROVE Typed
  OBVIOUS
<1>1. RowsTyped
  BY EmptySeq DEF Init, RowsTyped, States
<1>2. CallTyped
  BY DEF Init, CallTyped, Calls, Turns, Free
<1>3. DrvTyped
  BY DEF Init, DrvTyped, Drivers, Prompts, Turns, NoDriver, NoPrompt
<1>4. EventsTyped /\ agent \in Seq(Takes)
  BY EmptySeq DEF Init, EventsTyped
<1> QED BY <1>1, <1>2, <1>3, <1>4 DEF Typed

LEMMA AppendRow ==
  ASSUME Typed, NEW m \in Messages, Append1(m)
  PROVE  order' \in Seq(Messages) /\ row' \in [Messages -> States] /\ row'[m] = "queued"
         /\ \A n \in Messages \ {m} : row'[n] = row[n]
BY AppendProperties DEF Typed, RowsTyped, Append1, States

LEMMA ClientsTyped ==
  ASSUME Typed, Clients
  PROVE  Typed'
<1>1. DrvTyped' /\ EventsTyped' /\ agent' \in Seq(Takes) /\ pending' = pending
  BY DEF Clients, Send, SteerOrSend, PromoteQueued, CancelQueued, Reorder, Edit, prov, ctl, rows,
         Typed, DrvTyped, EventsTyped
<1>2. ASSUME NEW m \in Messages, Send(m) \/ SteerOrSend(m) PROVE RowsTyped' /\ CallTyped'
  <2>1. RowsTyped'
    BY <1>2, AppendRow DEF Send, SteerOrSend, Typed, RowsTyped
  <2>2. CallTyped'
    <3>1. \/ call' = Free \/ call' = Sending(m) \/ call' = [pc |-> "await", msg |-> m, turn |-> pending]
      BY <1>2 DEF Send, SteerOrSend, Await, Sending
    <3> QED BY <1>1, <3>1, SendingIs DEF Typed, CallTyped, Calls, Turns
  <2> QED BY <2>1, <2>2
<1>3. ASSUME NEW m \in Messages, PromoteQueued(m) PROVE RowsTyped' /\ CallTyped'
  BY <1>3 DEF PromoteQueued, Await, rows, ctl, Typed, RowsTyped, CallTyped, Calls, Turns
<1>4. ASSUME NEW m \in Messages, CancelQueued(m) PROVE RowsTyped' /\ CallTyped'
  BY <1>4 DEF CancelQueued, Edit, Settle, ctl, Typed, RowsTyped, CallTyped, States
<1>5. ASSUME NEW m \in Messages, NEW n \in Messages, Reorder(m, n) PROVE RowsTyped' /\ CallTyped'
  <2>1. Len(order) \in Nat /\ \A i \in 1..Len(order) : order[i] \in Messages
    BY ElementOfSeq DEF Typed, RowsTyped
  <2>2. order' \in Seq(Messages)
    <3> DEFINE e(i) == IF order[i] = m THEN n ELSE IF order[i] = n THEN m ELSE order[i]
    <3>1. \A i \in 1..Len(order) : e(i) \in Messages
      BY <2>1
    <3>2. order' = [i \in 1..Len(order) |-> e(i)]
      BY <1>5 DEF Reorder
    <3> HIDE DEF e
    <3> QED BY <2>1, <3>1, <3>2
  <2> QED BY <1>5, <2>2 DEF Reorder, Edit, ctl, Typed, RowsTyped, CallTyped
<1> QED BY <1>1, <1>2, <1>3, <1>4, <1>5 DEF Clients, Typed

LEMMA DispatchTyped ==
  ASSUME Typed, Dispatch
  PROVE  Typed'
<1>1. call.msg \in Messages
  BY DEF Dispatch, DispatchSend, DispatchBind, DispatchStart, Typed, CallTyped
<1>2. RowsTyped'
  BY <1>1 DEF Dispatch, DispatchSend, DispatchBind, DispatchStart, DispatchFails, Settle, rows,
              Typed, RowsTyped, States, Ends
<1>3. CallTyped'
  BY <1>1 DEF Dispatch, DispatchSend, DispatchBind, DispatchStart, DispatchFails, ctl, Typed,
              CallTyped, Calls, Turns, Free
<1>4. DrvTyped'
  BY <1>1 DEF Dispatch, DispatchSend, DispatchBind, DispatchStart, Typed, DrvTyped, Drivers, Turns
<1>5. EventsTyped' /\ agent' \in Seq(Takes)
  BY DEF Dispatch, DispatchSend, DispatchBind, DispatchStart, Typed, EventsTyped
<1> QED BY <1>2, <1>3, <1>4, <1>5 DEF Typed

LEMMA SteerTyped ==
  ASSUME Typed, Steer
  PROVE  Typed'
<1>1. call.msg \in Messages
  BY DEF Steer, AwaitAcked, AwaitTimeout, SteerAnswer, SteerUncertain, SteerRecord, SteerRefuse,
         Typed, CallTyped
<1>2. pending' = pending /\ DrvTyped' /\ EventsTyped'
  BY DEF Steer, AwaitAcked, AwaitTimeout, Reserve, SteerAnswer, SteerUncertain, SteerRecord,
         SteerRefuse, ctl, prov, Typed, DrvTyped, EventsTyped
<1>3. agent' \in Seq(Takes)
  <2>1. \/ UNCHANGED agent
        \/ agent' = Append(agent, [msg |-> call.msg, how |-> "steer"])
    BY DEF Steer, AwaitAcked, AwaitTimeout, Reserve, SteerAnswer, SteerUncertain, SteerRecord,
           SteerRefuse, prov
  <2> QED BY <1>1, <2>1, AppendTake DEF Typed
<1>4. RowsTyped'
  <2>1. CASE AwaitAcked \/ AwaitTimeout
    BY <1>1, <2>1 DEF AwaitAcked, AwaitTimeout, Reserve, Typed, RowsTyped
  <2>2. CASE SteerAnswer
    BY <2>2 DEF SteerAnswer, rows, Typed, RowsTyped
  <2>3. CASE SteerUncertain
    BY <1>1, <2>3 DEF SteerUncertain, Settle, Typed, RowsTyped, States, Ends
  <2>4. CASE SteerRecord
    BY <1>1, <2>4 DEF SteerRecord, Settle, Typed, RowsTyped, States, Ends
  <2>5. CASE SteerRefuse
    BY <1>1, <2>5, AppendRow DEF SteerRefuse, rows, Typed, RowsTyped
  <2> QED BY <2>1, <2>2, <2>3, <2>4, <2>5 DEF Steer
<1>5. CallTyped'
  <2>1. \/ UNCHANGED call \/ call' = Free
        \/ \E s \in {"steer", "record", "refuse", "send"} : call' = [call EXCEPT !.pc = s]
    BY DEF Steer, AwaitAcked, AwaitTimeout, Reserve, SteerAnswer, SteerUncertain, SteerRecord,
           SteerRefuse
  <2> QED BY <1>1, <1>2, <2>1 DEF Typed, CallTyped, Calls, Turns, Free
<1> QED BY <1>2, <1>3, <1>4, <1>5 DEF Typed

LEMMA DriverTyped ==
  ASSUME Typed, Driver
  PROVE  Typed'
<1>1. RowsTyped' /\ CallTyped'
  BY DEF Driver, EmitStarted, Prompt, AgentFinish, EmitCompleted, DriverIdle, rows, ctl, Typed,
         RowsTyped, CallTyped
<1>2. CASE EmitStarted
  <2>1. [kind |-> "started", turn |-> drv.active, out |-> "none"] \in Events
    BY <1>2 DEF EmitStarted, Typed, DrvTyped, Events
  <2>2. EventsTyped'
    BY <1>2, <2>1, AppendEvent DEF EmitStarted
  <2> QED BY <1>1, <1>2, <2>2 DEF EmitStarted, Typed, DrvTyped, Drivers
<1>3. CASE Prompt
  <2>1. drv.active \in Messages /\ drv \in Drivers /\ host \in Prompts
    BY <1>3 DEF Prompt, Typed, DrvTyped
  <2>2. agent' \in Seq(Takes)
    BY <1>3, <2>1, AppendTake DEF Prompt, Typed
  <2>3. DrvTyped'
    <3>1. CASE host.st = "none"
      BY <1>3, <2>1, <3>1 DEF Prompt, Typed, DrvTyped, Drivers, Prompts, Turns
    <3>2. CASE host.st # "none"
      <4>1. UNCHANGED host /\ drv' = [drv EXCEPT !.run = "settle", !.out = "failed"]
        BY <1>3, <3>2 DEF Prompt
      <4> QED BY <2>1, <4>1 DEF Typed, DrvTyped, Drivers, Ends
    <3> QED BY <3>1, <3>2
  <2> QED BY <1>1, <1>3, <2>2, <2>3 DEF Prompt, Typed, EventsTyped
<1>4. CASE AgentFinish
  <2>1. PICK o \in Ends : /\ host' = [host EXCEPT !.st = "result", !.out = o]
                          /\ \/ UNCHANGED drv
                             \/ drv.run = "prompt" /\ drv' = [drv EXCEPT !.run = "settle", !.out = o]
    BY <1>4, Distinct DEF AgentFinish, Ends
  <2>2. DrvTyped'
    BY <2>1 DEF Typed, DrvTyped, Drivers, Prompts
  <2> QED BY <1>1, <1>4, <2>2 DEF AgentFinish, Typed, EventsTyped
<1>5. CASE EmitCompleted
  <2>1. [kind |-> "completed", turn |-> drv.active, out |-> drv.out] \in Events /\ drv.out \in Ends
    BY <1>5 DEF EmitCompleted, Typed, DrvTyped, Events
  <2>2. EventsTyped'
    BY <1>5, <2>1, AppendEvent DEF EmitCompleted
  <2> QED BY <1>1, <1>5, <2>2 DEF EmitCompleted, Typed, DrvTyped, Drivers
<1>6. CASE DriverIdle
  <2>1. DrvTyped'
    BY <1>6 DEF DriverIdle, NoDriver, Typed, DrvTyped, Drivers, Turns
  <2> QED BY <1>1, <1>6, <2>1 DEF DriverIdle, Typed, EventsTyped
<1> QED BY <1>2, <1>3, <1>4, <1>5, <1>6 DEF Driver

\* A drained call is of the type, whichever it is.
LEMMA DrainedCall ==
  ASSUME pending' \in Turns,
         call' = Free \/ \E m \in Messages : call' = Sending(m)
  PROVE  CallTyped'
BY SendingIs DEF CallTyped

LEMMA ProjectorTyped ==
  ASSUME Typed, Projector
  PROVE  Typed'
<1>1. CASE ProjectStarted
  BY <1>1, TailEvents DEF ProjectStarted, rows, Typed, RowsTyped, CallTyped, DrvTyped, Turns
<1>2. CASE ProjectCompleted
  <2> DEFINE t == Head(events).turn
             r == [row EXCEPT ![t] = Head(events).out]
  <2>1. t \in Messages /\ Head(events).out \in Ends /\ EventsTyped'
    BY <1>2, TailEvents DEF ProjectCompleted
  <2>2. r \in [Messages -> States] /\ order \in Seq(Messages)
    BY <2>1 DEF Typed, RowsTyped, States
  <2>3. DrvTyped'
    BY <1>2 DEF ProjectCompleted, NoPrompt, Typed, DrvTyped, Prompts, Turns
  <2>4. CASE pending = t
    <3>1. Drain(r, None, cutoff, Head(events).out = "completed") /\ pending' = None
      BY <1>2, <2>4 DEF ProjectCompleted
    <3> HIDE DEF r, t
    <3>2. row' \in [Messages -> States] /\ (call' = Free \/ \E m \in Messages : call' = Sending(m))
      BY <2>2, <3>1, DrainDoes
    <3>3. CallTyped'
      BY <3>1, <3>2, DrainedCall DEF Turns
    <3> QED BY <1>2, <2>1, <2>3, <3>2, <3>3 DEF ProjectCompleted, Typed, RowsTyped
  <2>5. CASE pending # t
    BY <1>2, <2>1, <2>2, <2>3, <2>5 DEF ProjectCompleted, Typed, RowsTyped, CallTyped
  <2> QED BY <2>4, <2>5
<1>3. CASE ResumeQueue
  <2>1. row \in [Messages -> States] /\ order \in Seq(Messages) /\ Drain(row, pending, cutoff, TRUE)
    BY <1>3 DEF ResumeQueue, Typed, RowsTyped
  <2>2. row' \in [Messages -> States] /\ (call' = Free \/ \E m \in Messages : call' = Sending(m))
    BY <2>1, DrainDoes
  <2>3. CallTyped'
    BY <1>3, <2>2, DrainedCall DEF ResumeQueue, Typed, CallTyped
  <2> QED BY <1>3, <2>2, <2>3 DEF ResumeQueue, prov, Typed, RowsTyped, DrvTyped, EventsTyped
<1> QED BY <1>1, <1>2, <1>3 DEF Projector

LEMMA InterruptTyped ==
  ASSUME Typed, NEW s \in Stops, Interrupt(s)
  PROVE  Typed'
<1>1. EventsTyped' /\ agent' \in Seq(Takes) /\ UNCHANGED <<order, held, ledger>>
  BY DEF Interrupt, StopBegin, StopAwait, StopCancel, StopReconcile, rows, prov, Typed, EventsTyped
<1>2. DrvTyped'
  <2>1. UNCHANGED host /\ (UNCHANGED drv \/ drv' = [drv EXCEPT !.cancel = TRUE])
    BY DEF Interrupt, StopBegin, StopAwait, StopCancel, StopReconcile, prov
  <2> QED BY <2>1 DEF Typed, DrvTyped, Drivers
<1>3. UNCHANGED <<row, pending, call>> \/ Reconciles
  BY DEF Interrupt, StopBegin, StopAwait, StopCancel, StopReconcile, Reconciles, rows, ctl
<1>4. CASE UNCHANGED <<row, pending, call>>
  BY <1>1, <1>2, <1>4 DEF Typed, RowsTyped, CallTyped
<1>5. CASE Reconciles
  <2>1. /\ row' \in [Messages -> States] /\ pending' \in Turns
        /\ call' = Free \/ \E m \in Messages : call' = Sending(m)
    BY <1>5, ReconcileDoes
  <2> QED BY <1>1, <1>2, <2>1, DrainedCall DEF Typed, RowsTyped
<1> QED BY <1>3, <1>4, <1>5

LEMMA EndsTyped ==
  ASSUME Typed, Detach \/ ProviderDies \/ StreamEnds \/ Crash \/ Restart
  PROVE  Typed'
<1>1. RowsTyped'
  BY DEF Detach, ProviderDies, StreamEnds, Crash, Restart, StartLive, StartFresh, rows, Typed,
         RowsTyped, States, Ends
<1>2. CallTyped'
  BY LatestRuns DEF Detach, ProviderDies, StreamEnds, Crash, Restart, StartLive, StartFresh, Forget,
         Free, Typed, RowsTyped, CallTyped, Calls, Turns
<1>3. EventsTyped' /\ agent' \in Seq(Takes)
  <2>1. UNCHANGED agent /\ (UNCHANGED events \/ events' = <<>>)
    BY DEF Detach, ProviderDies, StreamEnds, Crash, Restart, StartLive, StartFresh, Forget, prov
  <2>2. CASE UNCHANGED events
    BY <2>1, <2>2 DEF Typed, EventsTyped
  <2>3. CASE events' = <<>>
    <3>1. events' \in Seq(Events) /\ Len(events') = 0
      BY <2>3, EmptySeq
    <3> QED BY <2>1, <3>1 DEF Typed, EventsTyped
  <2> QED BY <2>1, <2>2, <2>3
<1>4. DrvTyped'
  <2>1. NoDriver \in Drivers /\ NoDriver.run = "none" /\ NoPrompt \in Prompts /\ NoPrompt.st = "none"
    BY DEF NoDriver, NoPrompt, Drivers, Prompts, Turns
  <2>2. CASE Detach \/ Crash \/ StartFresh
    BY <2>1, <2>2 DEF Detach, Crash, StartFresh, Forget, Typed, DrvTyped
  <2>3. CASE ProviderDies \/ StreamEnds
    BY <2>1, <2>3 DEF ProviderDies, StreamEnds, prov, NoDriver, Typed, DrvTyped, Drivers
  <2>4. CASE StartLive
    <3>1. CASE Latest = None
      BY <2>1, <2>4, <3>1 DEF StartLive, Typed, DrvTyped
    <3>2. CASE Latest # None
      <4>1. Latest \in Messages /\ host.st \in {"active", "result"} /\ UNCHANGED host
        BY <2>4, <3>2, LatestRuns DEF StartLive, Typed, RowsTyped, DrvTyped, Prompts
      <4>2. drv' = [NoDriver EXCEPT !.active = Latest, !.out = host.out,
                                    !.run = IF host.st = "active" THEN "prompt" ELSE "settle"]
        BY <2>4, <3>2 DEF StartLive
      <4>3. drv' \in Drivers /\ drv'.active = Latest /\ (drv'.run = "settle" => drv'.out \in Ends)
        BY <4>1, <4>2 DEF NoDriver, Typed, DrvTyped, Prompts, Drivers, Turns
      <4> QED BY <4>1, <4>3 DEF Typed, DrvTyped
    <3> QED BY <3>1, <3>2
  <2> QED BY <2>2, <2>3, <2>4 DEF Restart
<1> QED BY <1>1, <1>2, <1>3, <1>4 DEF Typed

LEMMA TypedStep == Typed /\ [Next]_vars => Typed'
<1> SUFFICES ASSUME Typed, [Next]_vars PROVE Typed'
  OBVIOUS
<1>1. CASE UNCHANGED vars
  BY <1>1 DEF vars, Typed, RowsTyped, CallTyped, DrvTyped, EventsTyped
<1> QED BY <1>1, ClientsTyped, DispatchTyped, SteerTyped, DriverTyped, ProjectorTyped,
           InterruptTyped, EndsTyped DEF Next

-----------------------------------------------------------------------------
(* The invariant.                                                           *)

LEMMA QueueInit == Init => QueueInv
<1> SUFFICES ASSUME Init PROVE QueueInv
  OBVIOUS
<1>1. agent = <<>> /\ Len(agent) = 0 /\ Took = {}
  BY DEF Init, Took
<1>2. call.pc = "free" /\ drv.run = "none"
  BY DEF Init, Free, NoDriver
<1>3. TakenKnown
  BY <1>1 DEF Init, TakenKnown
<1> QED BY <1>1, <1>2, <1>3 DEF QueueInv, Once, TurnUntaken, Starting, CallUntaken

Late == {"running"} \cup Ends

\* Rows that only go on to run or to end, a turn that goes no further back, and a call
\* that goes on, ends, or sends what a drain found: all that most steps do.
LEMMA GoesOn ==
  ASSUME Typed, QueueInv, UNCHANGED <<held, ledger, agent>>,
         \A m \in Messages : row'[m] = row[m] \/ row'[m] \in Late,
         Starting' => Starting /\ drv'.active = drv.active,
         \/ call' = Free
         \/ UNCHANGED call /\ (call.pc # "free" =>
              row'[call.msg] = row[call.msg] \/ (row[call.msg] \in Late /\ row'[call.msg] \in Late))
         \/ \E m \in Messages : call' = Sending(m) /\ row'[m] = "queued" /\ m \notin held
  PROVE  QueueInv'
<1>1. Took' = Took /\ Once'
  BY DEF QueueInv, Took, Once
<1>2. TakenKnown'
  BY <1>1 DEF QueueInv, TakenKnown, Late, Ends
<1>3. TurnUntaken'
  <2>1. Starting => drv.active \in Messages
    BY DEF Starting, Typed, DrvTyped
  <2> QED BY <1>1, <2>1 DEF QueueInv, TurnUntaken, Dispatched, Late
<1>4. CallUntaken'
  <2>1. CASE call' = Free
    BY <2>1, SendingIs DEF CallUntaken
  <2>2. CASE UNCHANGED call /\ (call.pc # "free" =>
               row'[call.msg] = row[call.msg] \/ (row[call.msg] \in Late /\ row'[call.msg] \in Late))
    <3>1. \A s \in {"none", "queued"} : s \notin Late
      BY DEF Late, Ends
    <3> QED BY <1>1, <2>2, <3>1 DEF QueueInv, CallUntaken, Dispatched, Late
  <2>3. CASE \E m \in Messages : call' = Sending(m) /\ row'[m] = "queued" /\ m \notin held
    <3>1. PICK m \in Messages : call' = Sending(m) /\ row'[m] = "queued" /\ m \notin held
      BY <2>3
    <3>2. row[m] = "queued"
      BY <3>1 DEF Late, Ends
    <3>3. m \notin Took
      BY <3>1, <3>2 DEF QueueInv, TakenKnown
    <3> QED BY <1>1, <3>1, <3>3, SendingIs DEF CallUntaken
  <2> QED BY <2>1, <2>2, <2>3
<1> QED BY <1>1, <1>2, <1>3, <1>4 DEF QueueInv

\* One message m changes its row, or its delivery or reservation, while a call about m, or
\* none, takes the place of a call about m, or of none.
LEMMA NewCall ==
  ASSUME Typed, QueueInv, NEW m \in Messages, UNCHANGED <<agent, drv>>,
         row[m] \in {"none", "queued"},
         \A n \in Messages \ {m} :
           row'[n] = row[n] /\ ledger'[n] = ledger[n] /\ (n \in held' <=> n \in held),
         TakenKnown', CallUntaken'
  PROVE  QueueInv'
<1>1. Took' = Took /\ Once'
  BY DEF QueueInv, Took, Once
<1>2. Starting => drv.active \in Messages /\ drv.active # m
  BY DEF QueueInv, TurnUntaken, Dispatched, Starting, Typed, DrvTyped, Ends
<1>3. TurnUntaken'
  BY <1>1, <1>2 DEF QueueInv, TurnUntaken, Dispatched, Starting
<1> QED BY <1>1, <1>3 DEF QueueInv

LEMMA TookOnly == ASSUME UNCHANGED agent PROVE Took' = Took
BY DEF Took

\* A message that is sent is not with the agent: its row says so, and its delivery.
LEMMA ClientsQueue ==
  ASSUME Typed, QueueInv, Clients
  PROVE  QueueInv'
<1>1. ASSUME NEW m \in Messages, Send(m) \/ SteerOrSend(m) PROVE QueueInv'
  <2>1. /\ row[m] = "none" /\ ledger[m] \in {"none", "refused"}
        /\ UNCHANGED <<held, ledger, agent, drv>>
    BY <1>1, Distinct DEF Send, SteerOrSend, prov, QueueInv, TakenKnown, Typed, RowsTyped
  <2>2. m \notin Took /\ Took' = Took
    BY <2>1, TookOnly DEF QueueInv, TakenKnown
  <2>3. \A n \in Messages \ {m} : row'[n] = row[n]
    BY <1>1, AppendRow DEF Send, SteerOrSend
  <2>4. TakenKnown'
    BY <2>1, <2>2, <2>3 DEF QueueInv, TakenKnown
  <2>5. \/ call' = Free
        \/ call' = Sending(m) /\ row'[m] = "queued"
        \/ /\ call' = [pc |-> "await", msg |-> m, turn |-> pending] /\ row'[m] = "none"
           /\ ledger'[m] = "none" /\ m \in Guidance
    BY <1>1, <2>1, AppendRow DEF Send, SteerOrSend, Await, Sending
  <2>6. CallUntaken'
    BY <2>2, <2>5, SendingIs DEF CallUntaken
  <2> QED BY <2>1, <2>3, <2>4, <2>6, NewCall
<1>2. ASSUME NEW m \in Messages, PromoteQueued(m) PROVE QueueInv'
  <2>1. /\ row[m] = "queued" /\ UNCHANGED <<row, held, ledger, agent, drv>>
        /\ call' = [pc |-> "await", msg |-> m, turn |-> pending]
    BY <1>2 DEF PromoteQueued, Await, rows, prov
  <2>2. TakenKnown' /\ CallUntaken'
    BY <2>1, TookOnly DEF QueueInv, TakenKnown, CallUntaken
  <2> QED BY <2>1, <2>2, NewCall
<1>3. ASSUME NEW m \in Messages, CancelQueued(m) PROVE QueueInv'
  <2>1. /\ row[m] = "queued" /\ m \notin held /\ UNCHANGED <<held, ledger, agent, drv, call>>
        /\ call.pc = "free" /\ \A n \in Messages \ {m} : row'[n] = row[n]
    BY <1>3, SendingIs DEF CancelQueued, Edit, Enter, Settle, prov, Typed, RowsTyped
  <2>2. m \notin Took /\ Took' = Took
    BY <2>1, TookOnly DEF QueueInv, TakenKnown
  <2>3. TakenKnown' /\ CallUntaken'
    BY <2>1, <2>2 DEF QueueInv, TakenKnown, CallUntaken
  <2> QED BY <2>1, <2>3, NewCall
<1>4. ASSUME NEW m \in Messages, NEW n \in Messages, Reorder(m, n) PROVE QueueInv'
  BY <1>4, GoesOn DEF Reorder, prov, Starting
<1> QED BY <1>1, <1>2, <1>3, <1>4 DEF Clients

LEMMA DispatchQueue ==
  ASSUME Typed, QueueInv, Dispatch
  PROVE  QueueInv'
<1>1. call.msg \in Messages /\ call \in Calls /\ row \in [Messages -> States] /\ drv \in Drivers
  BY DEF Dispatch, DispatchSend, DispatchBind, DispatchStart, Typed, CallTyped, RowsTyped, DrvTyped
<1>2. /\ UNCHANGED <<held, ledger, agent>> /\ Took' = Took
      /\ Once'
  BY TookOnly DEF Dispatch, DispatchSend, DispatchBind, DispatchStart, rows, QueueInv, Once
<1>3. CASE DispatchSend
  <2>1. Starting' => Starting /\ drv'.active = drv.active
    BY <1>1, <1>3 DEF DispatchSend, Starting, Drivers
  <2>2. CASE call' = Free
    <3>1. \A m \in Messages : row'[m] = row[m] \/ row'[m] \in Late
      BY <1>1, <1>3 DEF DispatchSend, DispatchFails, Settle, Late, Ends
    <3> QED BY <1>2, <2>1, <2>2, <3>1, GoesOn
  <2>3. CASE call' = [call EXCEPT !.pc = "bind"] /\ UNCHANGED row
    <3>1. TakenKnown'
      BY <1>2, <2>3 DEF QueueInv, TakenKnown
    <3>2. TurnUntaken'
      BY <1>2, <2>1, <2>3 DEF QueueInv, TurnUntaken, Dispatched
    <3>3. CallUntaken'
      BY <1>1, <1>2, <1>3, <2>3 DEF DispatchSend, QueueInv, CallUntaken, Calls
    <3> QED BY <1>2, <3>1, <3>2, <3>3 DEF QueueInv
  <2> QED BY <1>3, <2>2, <2>3 DEF DispatchSend, DispatchFails
<1>4. CASE DispatchBind
  <2>1. Starting' => Starting /\ drv'.active = drv.active
    BY <1>1, <1>4 DEF DispatchBind, Starting, Drivers
  <2>2. \A m \in Messages : row'[m] = row[m] \/ row'[m] \in Late
    BY <1>1, <1>4 DEF DispatchBind, DispatchFails, Settle, Late, Ends
  <2>3. CASE call' = Free
    BY <1>2, <2>1, <2>2, <2>3, GoesOn
  <2>4. CASE /\ call' = [call EXCEPT !.pc = "start"] /\ UNCHANGED drv
             /\ Settle(call.msg, "running")
    <3>1. TakenKnown'
      BY <1>2, <2>2 DEF QueueInv, TakenKnown, Late, Ends
    <3>2. row[call.msg] = "queued" /\ call.msg \notin Took
      BY <1>4 DEF DispatchBind, QueueInv, CallUntaken
    <3>3. Starting => drv.active \in Messages /\ drv.active # call.msg
      BY <3>2 DEF QueueInv, TurnUntaken, Dispatched, Starting, Typed, DrvTyped, Ends
    <3>4. row'[call.msg] = "running"
      BY <1>1, <2>4 DEF Settle
    <3>5. TurnUntaken'
      BY <1>2, <2>2, <2>4, <3>3 DEF QueueInv, TurnUntaken, Dispatched, Starting, Late
    <3>6. CallUntaken'
      BY <1>1, <1>2, <2>4, <3>2, <3>3, <3>4 DEF CallUntaken, Calls, Dispatched, Starting
    <3> QED BY <1>2, <3>1, <3>5, <3>6 DEF QueueInv
  <2> QED BY <1>4, <2>3, <2>4 DEF DispatchBind, DispatchFails
<1>5. CASE DispatchStart
  <2>1. Dispatched(call.msg) /\ call' = Free /\ UNCHANGED row /\ drv'.active = call.msg
    BY <1>1, <1>5 DEF DispatchStart, rows, QueueInv, CallUntaken, Drivers
  <2>2. TakenKnown' /\ TurnUntaken' /\ CallUntaken'
    BY <1>2, <2>1, SendingIs DEF QueueInv, TakenKnown, TurnUntaken, CallUntaken, Dispatched
  <2> QED BY <1>2, <2>2 DEF QueueInv
<1> QED BY <1>3, <1>4, <1>5 DEF Dispatch

\* Guidance: the reservation or the delivery is on record before the agent has the message.
LEMMA SteerQueue ==
  ASSUME Typed, QueueInv, Steer
  PROVE  QueueInv'
<1> DEFINE m == call.msg
<1>1. /\ m \in Messages /\ call \in Calls /\ row \in [Messages -> States]
      /\ ledger \in [Messages -> {"none", "reserved", "accepted", "refused"}]
      /\ row[m] \in {"none", "queued"}
  BY DEF Steer, AwaitAcked, AwaitTimeout, SteerAnswer, SteerUncertain, SteerRecord, SteerRefuse,
         Typed, CallTyped, RowsTyped, QueueInv, CallUntaken
<1>2. UNCHANGED drv
  BY DEF Steer, AwaitAcked, AwaitTimeout, Reserve, SteerAnswer, SteerUncertain, SteerRecord,
         SteerRefuse, prov
<1>3. CASE AwaitAcked \/ AwaitTimeout
  <2>1. call.pc = "await" /\ UNCHANGED <<row, agent>> /\ Reserve
    BY <1>3 DEF AwaitAcked, AwaitTimeout, Reserve, prov
  <2>2. /\ \A n \in Messages \ {m} : ledger'[n] = ledger[n] /\ (n \in held' <=> n \in held)
        /\ held \subseteq held'
    BY <1>1, <2>1 DEF Reserve
  <2>3. Took' = Took
    BY <2>1, TookOnly
  <2>4. CASE row[m] = "none"
    <3>1. m \notin Took /\ m \in Guidance
      BY <1>1, <2>1, <2>4 DEF QueueInv, CallUntaken, TakenKnown
    <3>2. ledger'[m] = "reserved" /\ call' = [call EXCEPT !.pc = "steer"]
      BY <1>1, <2>1, <2>4 DEF Reserve, Promotes
    <3>3. TakenKnown' /\ CallUntaken'
      BY <1>1, <2>1, <2>2, <2>3, <2>4, <3>1, <3>2 DEF QueueInv, TakenKnown, CallUntaken, Calls
    <3> QED BY <1>1, <1>2, <2>1, <2>2, <3>3, NewCall
  <2>5. CASE row[m] = "queued"
    <3>1. /\ m \in held' /\ UNCHANGED ledger
          /\ call' = Free \/ (m \notin held /\ call' = [call EXCEPT !.pc = "steer"])
      BY <2>1, <2>5 DEF Reserve, Promotes
    <3>2. TakenKnown'
      BY <2>1, <2>2, <2>3, <3>1 DEF QueueInv, TakenKnown
    <3>3. CallUntaken'
      <4>1. CASE call' = Free
        BY <4>1, SendingIs DEF CallUntaken
      <4>2. CASE m \notin held /\ call' = [call EXCEPT !.pc = "steer"]
        <5>1. m \notin Took
          BY <1>1, <2>5, <4>2 DEF QueueInv, TakenKnown
        <5> QED BY <1>1, <2>1, <2>3, <2>5, <3>1, <4>2, <5>1 DEF CallUntaken, Calls
      <4> QED BY <3>1, <4>1, <4>2
    <3> QED BY <1>1, <1>2, <2>1, <2>2, <3>1, <3>2, <3>3, NewCall
  <2> QED BY <1>1, <2>4, <2>5
<1>4. CASE SteerAnswer
  <2>1. call.pc = "steer" /\ UNCHANGED <<row, held, ledger>> /\ m \notin Took
    BY <1>4 DEF SteerAnswer, rows, QueueInv, CallUntaken
  <2>2. CASE UNCHANGED agent /\ call' = [call EXCEPT !.pc = "refuse"]
    <3>1. TakenKnown' /\ CallUntaken'
      BY <1>1, <2>1, <2>2, TookOnly DEF QueueInv, TakenKnown, CallUntaken, Calls
    <3> QED BY <1>1, <1>2, <2>1, <2>2, <3>1, NewCall
  <2>3. CASE /\ agent' = Append(agent, [msg |-> m, how |-> "steer"])
             /\ call' = [call EXCEPT !.pc = "record"]
    <3>1. Took' = Took \cup {m} /\ Once'
      BY <1>1, <2>1, <2>3, AppendTake DEF QueueInv
    <3>2. (row[m] = "queued" => m \in held) /\ (row[m] = "none" => ledger[m] = "reserved")
      BY <2>1 DEF QueueInv, CallUntaken
    <3>3. TakenKnown' /\ CallUntaken'
      BY <1>1, <2>1, <2>3, <3>1, <3>2 DEF QueueInv, TakenKnown, CallUntaken, Calls
    <3>4. TurnUntaken'
      BY <1>1, <1>2, <2>1, <3>1 DEF QueueInv, TurnUntaken, Starting, Dispatched, Ends
    <3> QED BY <3>1, <3>3, <3>4 DEF QueueInv
  <2> QED BY <1>4, <2>2, <2>3 DEF SteerAnswer
<1>5. CASE SteerUncertain
  <2>1. /\ call.pc = "steer" /\ UNCHANGED <<held, ledger>> /\ m \notin Took /\ call' = Free
        /\ UNCHANGED row \/ (row[m] = "queued" /\ row' = [row EXCEPT ![m] = "failed"])
    BY <1>5 DEF SteerUncertain, Promotes, Settle, QueueInv, CallUntaken
  <2>2. /\ row[m] = "none" => ledger[m] = "reserved"
        /\ row[m] = "queued" => m \in held
    BY <2>1 DEF QueueInv, CallUntaken
  <2>3. Took' \subseteq Took \cup {m} /\ Once'
    <3>1. UNCHANGED agent \/ agent' = Append(agent, [msg |-> m, how |-> "steer"])
      BY <1>5 DEF SteerUncertain
    <3> QED BY <1>1, <2>1, <3>1, AppendTake, TookOnly DEF QueueInv, Once
  <2>4. \A n \in Messages \ {m} : row'[n] = row[n]
    BY <1>1, <2>1
  <2>5. row'[m] = row[m] \/ row'[m] = "failed"
    BY <1>1, <2>1
  <2>6. TakenKnown'
    BY <1>1, <2>1, <2>2, <2>3, <2>4, <2>5 DEF QueueInv, TakenKnown
  <2>7. TurnUntaken'
    <3>1. Starting => drv.active \in Messages \ {m}
      BY <1>1 DEF QueueInv, TurnUntaken, Dispatched, Starting, Typed, DrvTyped, Ends
    <3> QED BY <1>2, <2>3, <2>4, <3>1 DEF QueueInv, TurnUntaken, Starting, Dispatched
  <2>8. CallUntaken'
    BY <2>1, SendingIs DEF CallUntaken
  <2> QED BY <2>3, <2>6, <2>7, <2>8 DEF QueueInv
<1>6. CASE SteerRecord
  <2>1. call.pc = "record" /\ call' = Free /\ UNCHANGED agent
    BY <1>6 DEF SteerRecord, prov
  <2>2. /\ row[m] = "none" => ledger[m] = "reserved" /\ m \in Guidance
        /\ row[m] = "queued" => m \in held
    BY <1>1, <2>1 DEF QueueInv, CallUntaken, TakenKnown
  <2>3. /\ \A n \in Messages \ {m} :
             row'[n] = row[n] /\ ledger'[n] = ledger[n] /\ (n \in held' <=> n \in held)
        /\ \/ row'[m] \in {"completed", "failed"} /\ UNCHANGED ledger
           \/ row[m] = "queued" /\ row'[m] = "queued" /\ UNCHANGED <<ledger, held>>
           \/ row[m] = "none" /\ row'[m] = "none" /\ ledger'[m] \in {"reserved", "accepted"}
    BY <1>1, <1>6, <2>2 DEF SteerRecord, Promotes, Settle
  <2>4. TakenKnown'
    BY <2>1, <2>2, <2>3, TookOnly DEF QueueInv, TakenKnown
  <2>5. CallUntaken'
    BY <2>1, SendingIs DEF CallUntaken
  <2> QED BY <1>1, <1>2, <2>1, <2>3, <2>4, <2>5, NewCall
<1>7. CASE SteerRefuse
  <2>1. call.pc = "refuse" /\ m \notin Took /\ UNCHANGED agent /\ Took' = Took
    BY <1>7, TookOnly DEF SteerRefuse, prov, QueueInv, CallUntaken
  <2> DEFINE ends == call' = Free /\ UNCHANGED rows
  <2>2. CASE row[m] = "queued" /\ ~ends
    <3>1. held' = held \ {m} /\ call' = Free /\ UNCHANGED <<row, ledger>>
      BY <1>7, <2>1, <2>2 DEF SteerRefuse, Promotes
    <3>2. TakenKnown' /\ CallUntaken'
      BY <2>1, <3>1, SendingIs DEF QueueInv, TakenKnown, CallUntaken
    <3> QED BY <1>1, <1>2, <2>1, <3>1, <3>2, NewCall
  <2>3. CASE row[m] = "none" /\ ledger[m] = "reserved" /\ ~ends
    <3>1. ledger' = [ledger EXCEPT ![m] = "refused"] /\ UNCHANGED <<row, held, call>>
      BY <1>7, <2>3 DEF SteerRefuse, Promotes
    <3>2. /\ \A n \in Messages \ {m} : ledger'[n] = ledger[n]
          /\ ledger'[m] = "refused"
      BY <1>1, <3>1
    <3>3. TakenKnown' /\ CallUntaken'
      BY <2>1, <2>3, <3>1, <3>2 DEF QueueInv, TakenKnown, CallUntaken
    <3> QED BY <1>1, <1>2, <2>1, <3>1, <3>2, <3>3, NewCall
  <2>4. CASE row[m] = "none" /\ ledger[m] # "reserved" /\ ~ends
    <3>1. Append1(m) /\ call' = [call EXCEPT !.pc = "send"] /\ UNCHANGED <<held, ledger>>
      BY <1>7, <2>4 DEF SteerRefuse, Promotes
    <3>2. row'[m] = "queued" /\ \A n \in Messages \ {m} : row'[n] = row[n]
      BY <1>1, <3>1, AppendRow
    <3>3. TakenKnown' /\ CallUntaken'
      BY <1>1, <2>1, <3>1, <3>2 DEF QueueInv, TakenKnown, CallUntaken, Calls
    <3> QED BY <1>1, <1>2, <2>1, <3>1, <3>2, <3>3, NewCall
  <2>5. CASE ends
    BY <1>1, <1>2, <2>1, <2>5, GoesOn DEF rows, Starting
  <2> QED BY <1>1, <2>2, <2>3, <2>4, <2>5
<1> QED BY <1>3, <1>4, <1>5, <1>6, <1>7 DEF Steer

LEMMA DriverQueue ==
  ASSUME Typed, QueueInv, Driver
  PROVE  QueueInv'
<1>1. UNCHANGED <<row, held, ledger, call>> /\ drv \in Drivers
  BY DEF Driver, EmitStarted, Prompt, AgentFinish, EmitCompleted, DriverIdle, rows, Typed, DrvTyped
<1>2. CASE EmitStarted \/ AgentFinish \/ EmitCompleted \/ DriverIdle
  <2>1. UNCHANGED agent
    BY <1>2 DEF EmitStarted, AgentFinish, EmitCompleted, DriverIdle
  <2>2. Starting' => Starting /\ drv'.active = drv.active
    BY <1>1, <1>2 DEF EmitStarted, AgentFinish, EmitCompleted, DriverIdle, Starting, Drivers, NoDriver
  <2> QED BY <1>1, <2>1, <2>2, GoesOn
<1>3. CASE Prompt
  <2>1. Starting /\ drv.active \in Messages /\ ~Starting'
    BY <1>1, <1>3 DEF Prompt, Starting, Drivers, Typed, DrvTyped
  <2>2. CASE UNCHANGED agent
    BY <1>1, <2>1, <2>2, GoesOn
  <2>3. CASE agent' = Append(agent, [msg |-> drv.active, how |-> "prompt"])
    <3>1. drv.active \notin Took /\ row[drv.active] \in Late
      BY <2>1 DEF QueueInv, TurnUntaken, Dispatched, Late
    <3>2. Took' = Took \cup {drv.active} /\ Once'
      BY <2>1, <2>3, <3>1, AppendTake DEF QueueInv
    <3>3. \A s \in {"none", "queued", "cancelled"} : s \notin Late
      BY DEF Late, Ends
    <3>4. TakenKnown'
      BY <1>1, <3>1, <3>2, <3>3 DEF QueueInv, TakenKnown
    <3>5. CallUntaken'
      BY <1>1, <2>1, <3>1, <3>2, <3>3 DEF QueueInv, CallUntaken, Dispatched
    <3> QED BY <2>1, <3>2, <3>4, <3>5 DEF QueueInv, TurnUntaken
  <2> QED BY <1>3, <2>2, <2>3 DEF Prompt
<1> QED BY <1>2, <1>3 DEF Driver

LEMMA ProjectorQueue ==
  ASSUME Typed, QueueInv, Projector
  PROVE  QueueInv'
<1>1. UNCHANGED <<held, ledger, agent, drv>> /\ call.pc = "free"
  BY SendingIs DEF Projector, ProjectStarted, ProjectCompleted, ResumeQueue, Enter, rows, prov
<1>2. Starting' => Starting /\ drv'.active = drv.active
  BY <1>1 DEF Starting
<1>3. CASE ProjectStarted
  BY <1>1, <1>2, <1>3, GoesOn DEF ProjectStarted, rows
<1>4. CASE ProjectCompleted
  <2> DEFINE t == Head(events).turn
             r == [row EXCEPT ![t] = Head(events).out]
  <2>1. t \in Messages /\ Head(events).out \in Ends
    BY <1>4, TailEvents DEF ProjectCompleted
  <2>2. /\ r \in [Messages -> States] /\ order \in Seq(Messages)
        /\ \A m \in Messages : r[m] = row[m] \/ r[m] \in Ends
    BY <2>1 DEF Typed, RowsTyped, States
  <2>3. CASE pending = t
    <3>1. Drain(r, None, cutoff, Head(events).out = "completed")
      BY <1>4, <2>3 DEF ProjectCompleted
    <3> HIDE DEF r, t
    <3>2. /\ \A m \in Messages : row'[m] = r[m] \/ row'[m] = "interrupted"
          /\ \/ call' = Free
             \/ \E m \in Messages : call' = Sending(m) /\ row'[m] = "queued" /\ m \notin held
      BY <2>2, <3>1, DrainDoes
    <3>3. \A m \in Messages : row'[m] = row[m] \/ row'[m] \in Late
      BY <2>2, <3>2 DEF Late, Ends
    <3> QED BY <1>1, <1>2, <3>2, <3>3, GoesOn
  <2>4. CASE pending # t
    <3>1. row' = r /\ UNCHANGED call
      BY <1>4, <2>4 DEF ProjectCompleted
    <3>2. \A m \in Messages : row'[m] = row[m] \/ row'[m] \in Late
      BY <2>2, <3>1 DEF Late
    <3> QED BY <1>1, <1>2, <3>1, <3>2, GoesOn
  <2> QED BY <2>3, <2>4
<1>5. CASE ResumeQueue
  <2>1. row \in [Messages -> States] /\ order \in Seq(Messages) /\ Drain(row, pending, cutoff, TRUE)
    BY <1>5 DEF ResumeQueue, Typed, RowsTyped
  <2>2. /\ \A m \in Messages : row'[m] = row[m] \/ row'[m] = "interrupted"
        /\ \/ call' = Free
           \/ \E m \in Messages : call' = Sending(m) /\ row'[m] = "queued" /\ m \notin held
    BY <2>1, DrainDoes
  <2>3. \A m \in Messages : row'[m] = row[m] \/ row'[m] \in Late
    BY <2>2 DEF Late, Ends
  <2> QED BY <1>1, <1>2, <2>2, <2>3, GoesOn
<1> QED BY <1>3, <1>4, <1>5 DEF Projector

LEMMA InterruptQueue ==
  ASSUME Typed, QueueInv, NEW s \in Stops, Interrupt(s)
  PROVE  QueueInv'
<1>1. UNCHANGED <<held, ledger, agent>>
  BY DEF Interrupt, StopBegin, StopAwait, StopCancel, StopReconcile, rows, prov
<1>2. Starting' => Starting /\ drv'.active = drv.active
  <2>1. UNCHANGED drv \/ drv' = [drv EXCEPT !.cancel = TRUE]
    BY DEF Interrupt, StopBegin, StopAwait, StopCancel, StopReconcile, prov
  <2> QED BY <2>1 DEF Starting, Typed, DrvTyped, Drivers
<1>3. UNCHANGED <<row, call>> \/ Reconciles
  BY DEF Interrupt, StopBegin, StopAwait, StopCancel, StopReconcile, Reconciles, rows, ctl
<1>4. CASE UNCHANGED <<row, call>>
  BY <1>1, <1>2, <1>4, GoesOn
<1>5. CASE Reconciles
  <2>1. /\ \A m \in Messages : row'[m] = row[m] \/ row'[m] = "interrupted"
        /\ \/ call' = Free
           \/ \E m \in Messages : call' = Sending(m) /\ row'[m] = "queued" /\ m \notin held
    BY <1>5, ReconcileDoes
  <2>2. \A m \in Messages : row'[m] = row[m] \/ row'[m] \in Late
    BY <2>1 DEF Late, Ends
  <2> QED BY <1>1, <1>2, <2>1, <2>2, GoesOn
<1> QED BY <1>3, <1>4, <1>5

LEMMA EndsQueue ==
  ASSUME Typed, QueueInv, Detach \/ ProviderDies \/ StreamEnds \/ Crash \/ Restart
  PROVE  QueueInv'
<1>1. UNCHANGED <<held, ledger, agent>> /\ (UNCHANGED call \/ call' = Free)
  BY DEF Detach, ProviderDies, StreamEnds, Crash, Restart, StartLive, StartFresh, rows, prov
<1>2. \A m \in Messages : row'[m] = row[m] \/ (row[m] \in Late /\ row'[m] \in Late)
  BY DEF Detach, ProviderDies, StreamEnds, Crash, Restart, StartLive, StartFresh, rows, Late, Ends
<1>3. Starting' => Starting /\ drv'.active = drv.active
  <2>1. NoDriver.run = "none"
    BY DEF NoDriver
  <2>2. CASE Detach \/ Crash \/ StartFresh \/ StreamEnds
    BY <2>1, <2>2 DEF Detach, Crash, StartFresh, StreamEnds, Forget, prov, Starting
  <2>3. CASE ProviderDies
    BY <2>3 DEF ProviderDies, NoDriver, Starting
  <2>4. CASE StartLive
    <3>1. \/ drv' = NoDriver
          \/ drv' = [NoDriver EXCEPT !.active = Latest, !.out = host.out,
                                     !.run = IF host.st = "active" THEN "prompt" ELSE "settle"]
      BY <2>4 DEF StartLive
    <3>2. drv'.run \in {"none", "prompt", "settle"}
      BY <2>1, <3>1 DEF NoDriver
    <3> QED BY <3>2 DEF Starting
  <2> QED BY <2>2, <2>3, <2>4 DEF Restart
<1>4. call.pc # "free" => call.msg \in Messages
  BY DEF Typed, CallTyped
<1> QED BY <1>1, <1>2, <1>3, <1>4, GoesOn

LEMMA QueueStep == Typed /\ QueueInv /\ [Next]_vars => QueueInv'
<1> SUFFICES ASSUME Typed, QueueInv, [Next]_vars PROVE QueueInv'
  OBVIOUS
<1>1. CASE UNCHANGED vars
  BY <1>1, GoesOn DEF vars, Starting
<1> QED BY <1>1, ClientsQueue, DispatchQueue, SteerQueue, DriverQueue, ProjectorQueue,
           InterruptQueue, EndsQueue DEF Next

LEMMA QueueAlways == Spec => [](Typed /\ QueueInv)
<1>1. Init => Typed /\ QueueInv
  BY TypedInit, QueueInit
<1>2. Typed /\ QueueInv /\ [Next]_vars => (Typed /\ QueueInv)'
  BY TypedStep, QueueStep
<1> QED BY <1>1, <1>2, PTL DEF Spec

\* No message reaches the agent twice: not when its call is cut off and the client tries
\* again, not when a promotion and a drain are after the same row, not when a controller
\* takes over the turn of another.  Dispatch, guidance and restart of service/chat.
THEOREM TakenOnceAlways == Spec => []TakenOnce
<1>1. ASSUME Typed, Once PROVE TakenOnce
  <2>1. SUFFICES ASSUME NEW m \in Messages PROVE Cardinality(Taken(m)) <= 1
    BY DEF TakenOnce
  <2>2. CASE Taken(m) = {}
    BY <2>2, FS_EmptySet
  <2>3. CASE Taken(m) # {}
    <3>1. PICK i : i \in Taken(m)
      BY <2>3
    <3>2. Taken(m) = {i}
      BY <1>1, <3>1 DEF Taken, Once
    <3>3. Cardinality({i}) = 1
      BY FS_Singleton
    <3> QED BY <3>2, <3>3
  <2> QED BY <2>2, <2>3
<1>2. Typed /\ QueueInv => TakenOnce
  BY <1>1 DEF QueueInv
<1> QED BY <1>2, QueueAlways, PTL

\* A row withdrawn from the queue was never with the agent and never gets there: the
\* WHERE clauses of the cancellation, the reservation and the drain exclude each other.
THEOREM WithdrawnAlways == Spec => []WithdrawnStaysWithdrawn
<1>1. QueueInv => WithdrawnStaysWithdrawn
  BY DEF QueueInv, TakenKnown, WithdrawnStaysWithdrawn, Taken, Took
<1> QED BY <1>1, QueueAlways, PTL

\* What the completion of the turn t settles, and whether it drains the queue.
LEMMA CompletedDoes ==
  ASSUME Typed, ProjectCompleted, NEW t, t = Head(events).turn
  PROVE  /\ t \in Messages /\ row'[t] \in Ends
         /\ \A m \in Messages : row'[m] = row[m] \/ row'[m] \in Ends
         /\ \/ call' = Free
            \/ \E m \in Messages : call' = Sending(m) /\ row'[m] = "queued" /\ m \notin held
         /\ pending # t => UNCHANGED <<pending, call, cutoff>>
         /\ pending = t => pending' = None /\ cutoff' = 0
<1> DEFINE r == [row EXCEPT ![t] = Head(events).out]
<1>1. t \in Messages /\ Head(events).out \in Ends /\ call = Free
  BY TailEvents DEF ProjectCompleted
<1>2. /\ r \in [Messages -> States] /\ order \in Seq(Messages)
      /\ r[t] \in Ends /\ \A m \in Messages : r[m] = row[m] \/ r[m] \in Ends
  BY <1>1 DEF Typed, RowsTyped, States
<1>3. CASE pending = t
  <2>1. Drain(r, None, cutoff, Head(events).out = "completed") /\ pending' = None
    BY <1>3 DEF ProjectCompleted
  <2>2. cutoff' = 0
    BY <2>1 DEF Drain
  <2> HIDE DEF r
  <2>3. /\ \A m \in Messages : row'[m] = r[m] \/ row'[m] = "interrupted"
        /\ \/ call' = Free
           \/ \E m \in Messages : call' = Sending(m) /\ row'[m] = "queued" /\ m \notin held
    BY <1>2, <2>1, DrainDoes
  <2> QED BY <1>1, <1>2, <1>3, <2>1, <2>2, <2>3 DEF Ends
<1>4. CASE pending # t
  <2>1. row' = r /\ UNCHANGED <<pending, cutoff, call>>
    BY <1>4 DEF ProjectCompleted
  <2> QED BY <1>1, <1>2, <1>4, <2>1
<1> QED BY <1>3, <1>4

LEMMA ProjectorCall ==
  ASSUME Typed, Projector
  PROVE  UNCHANGED call \/ call' = Free \/ \E m \in Messages : call' = Sending(m)
<1>1. CASE ProjectStarted
  BY <1>1 DEF ProjectStarted
<1>2. CASE ProjectCompleted
  BY <1>2, CompletedDoes
<1>3. CASE ResumeQueue
  <2>1. row \in [Messages -> States] /\ order \in Seq(Messages) /\ Drain(row, pending, cutoff, TRUE)
    BY <1>3 DEF ResumeQueue, Typed, RowsTyped
  <2> QED BY <2>1, DrainDoes
<1> QED BY <1>1, <1>2, <1>3 DEF Projector

-----------------------------------------------------------------------------
(* What a step does to the rows.                                            *)

Settled == Ends \cup {"cancelled"}

\* A row runs from its binding, is queued from the step that appends it, and stays settled.
RowMoves ==
  \A m \in Messages :
    /\ row'[m] = "running" =>
         \/ row[m] = "running"
         \/ row[m] = "queued" /\ call.pc = "bind" /\ call.msg = m /\ DispatchBind
    /\ row'[m] = "queued" => row[m] = "queued" \/ (row[m] = "none" /\ Append1(m))
    /\ row[m] \in Late => row'[m] \in Late
    /\ row[m] # "none" => row'[m] # "none"

LEMMA StatesDiffer ==
  /\ "none" \notin Settled /\ "queued" \notin Settled /\ "running" \notin Settled
  /\ Ends \subseteq Settled /\ Ends \subseteq Late /\ "running" \in Late
  /\ "none" \notin Late /\ "queued" \notin Late
BY DEF Settled, Ends, Late

LEMMA RowsEnd ==
  ASSUME \A m \in Messages : row'[m] = row[m] \/ row'[m] \in Ends
  PROVE  RowMoves
BY StatesDiffer DEF RowMoves

LEMMA OneRowMoves ==
  ASSUME Typed, NEW m \in Messages, Append1(m), row[m] = "none"
  PROVE  RowMoves
BY AppendRow, StatesDiffer DEF RowMoves

LEMMA RowsMove ==
  ASSUME Typed, QueueInv, [Next]_vars
  PROVE  RowMoves
<1>1. CASE UNCHANGED vars
  BY <1>1, RowsEnd DEF vars
<1>2. CASE Clients
  <2>1. ASSUME NEW m \in Messages, Send(m) \/ SteerOrSend(m) PROVE RowMoves
    <3>1. row[m] = "none" /\ (Append1(m) \/ UNCHANGED row)
      BY <2>1 DEF Send, SteerOrSend
    <3> QED BY <3>1, OneRowMoves, RowsEnd
  <2>2. ASSUME NEW m \in Messages, NEW n \in Messages, PromoteQueued(m) \/ Reorder(m, n)
        PROVE RowMoves
    BY <2>2, RowsEnd DEF PromoteQueued, Reorder, rows
  <2>3. ASSUME NEW m \in Messages, CancelQueued(m) PROVE RowMoves
    <3>1. row[m] = "queued" /\ row' = [row EXCEPT ![m] = "cancelled"]
      BY <2>3 DEF CancelQueued, Settle
    <3>2. row'[m] = "cancelled" /\ \A n \in Messages \ {m} : row'[n] = row[n]
      BY <3>1 DEF Typed, RowsTyped
    <3> QED BY <3>1, <3>2, StatesDiffer DEF RowMoves
  <2> QED BY <1>2, <2>1, <2>2, <2>3 DEF Clients
<1>3. CASE Dispatch
  <2>1. CASE DispatchBind
    <3>1. call.msg \in Messages /\ call.pc = "bind" /\ row[call.msg] = "queued"
      BY <2>1 DEF DispatchBind, Typed, CallTyped, QueueInv, CallUntaken
    <3>2. \/ UNCHANGED row
          \/ \E s \in {"running", "failed"} : row' = [row EXCEPT ![call.msg] = s]
      BY <2>1 DEF DispatchBind, DispatchFails, Settle
    <3>3. /\ row'[call.msg] \in {"running", "failed", "queued"}
          /\ \A n \in Messages \ {call.msg} : row'[n] = row[n]
      BY <3>1, <3>2 DEF Typed, RowsTyped
    <3>4. "failed" \in Ends
      BY DEF Ends
    <3> QED BY <2>1, <3>1, <3>3, <3>4, StatesDiffer DEF RowMoves
  <2>2. CASE DispatchSend \/ DispatchStart
    <3>1. \A m \in Messages : row'[m] = row[m] \/ row'[m] = "failed"
      BY <2>2 DEF DispatchSend, DispatchFails, DispatchStart, Settle, rows, Typed, RowsTyped
    <3> QED BY <3>1, RowsEnd DEF Ends
  <2> QED BY <1>3, <2>1, <2>2 DEF Dispatch
<1>4. CASE Steer
  <2>1. CASE SteerRefuse
    <3>1. call.msg \in Messages /\ row[call.msg] \in {"none", "queued"}
      BY <2>1 DEF SteerRefuse, Typed, CallTyped, QueueInv, CallUntaken
    <3>2. UNCHANGED row \/ (row[call.msg] = "none" /\ Append1(call.msg))
      BY <2>1, <3>1 DEF SteerRefuse, Promotes, rows
    <3> QED BY <3>1, <3>2, OneRowMoves, RowsEnd
  <2>2. CASE AwaitAcked \/ AwaitTimeout \/ SteerAnswer \/ SteerUncertain \/ SteerRecord
    <3>1. \A m \in Messages : row'[m] = row[m] \/ row'[m] \in {"completed", "failed"}
      BY <2>2 DEF AwaitAcked, AwaitTimeout, Reserve, SteerAnswer, SteerUncertain, SteerRecord,
                  Settle, rows, Typed, RowsTyped
    <3> QED BY <3>1, RowsEnd DEF Ends
  <2> QED BY <1>4, <2>1, <2>2 DEF Steer
<1>5. CASE Driver
  BY <1>5, RowsEnd DEF Driver, EmitStarted, Prompt, AgentFinish, EmitCompleted, DriverIdle, rows
<1>6. CASE Projector
  <2>1. CASE ProjectStarted
    BY <2>1, RowsEnd DEF ProjectStarted, rows
  <2>2. CASE ProjectCompleted
    <3>1. \A m \in Messages : row'[m] = row[m] \/ row'[m] \in Ends
      BY <2>2, CompletedDoes
    <3> QED BY <3>1, RowsEnd
  <2>3. CASE ResumeQueue
    <3>1. row \in [Messages -> States] /\ order \in Seq(Messages) /\ Drain(row, pending, cutoff, TRUE)
      BY <2>3 DEF ResumeQueue, Typed, RowsTyped
    <3>2. \A m \in Messages : row'[m] = row[m] \/ row'[m] = "interrupted"
      BY <3>1, DrainDoes
    <3> QED BY <3>2, RowsEnd DEF Ends
  <2> QED BY <1>6, <2>1, <2>2, <2>3 DEF Projector
<1>7. CASE \E s \in Stops : Interrupt(s)
  <2>1. UNCHANGED row \/ Reconciles
    BY <1>7 DEF Interrupt, StopBegin, StopAwait, StopCancel, StopReconcile, Reconciles, rows
  <2>2. \A m \in Messages : row'[m] = row[m] \/ row'[m] = "interrupted"
    BY <2>1, ReconcileDoes
  <2> QED BY <2>2, RowsEnd DEF Ends
<1>8. CASE Detach \/ ProviderDies \/ StreamEnds \/ Crash \/ Restart
  <2>1. \A m \in Messages : row'[m] = row[m] \/ row'[m] = "failed"
    BY <1>8 DEF Detach, ProviderDies, StreamEnds, Crash, Restart, StartLive, StartFresh, rows
  <2> QED BY <2>1, RowsEnd DEF Ends
<1> QED BY <1>1, <1>2, <1>3, <1>4, <1>5, <1>6, <1>7, <1>8 DEF Next

\* A row that waits or runs has a place in the order.
Placed == \A m \in Messages : row[m] \in {"queued", "running"} =>
            \E i \in 1..Len(order) : order[i] = m

\* The order only changes by a message put at its end, or by an edit.
OrderMoves ==
  \/ UNCHANGED order
  \/ \E m \in Messages : order' = Append(order, m)
  \/ edits' = edits + 1 /\ \E m, n \in Messages : Reorder(m, n)

LEMMA OrderMove ==
  ASSUME Typed, [Next]_vars
  PROVE  OrderMoves
<1>1. CASE UNCHANGED vars \/ Driver \/ Projector \/ Dispatch
  BY <1>1 DEF vars, OrderMoves, Driver, EmitStarted, Prompt, AgentFinish, EmitCompleted, DriverIdle,
              Projector, ProjectStarted, ProjectCompleted, ResumeQueue,
              Dispatch, DispatchSend, DispatchBind, DispatchStart, rows
<1>2. CASE Clients
  BY <1>2 DEF Clients, Send, SteerOrSend, PromoteQueued, CancelQueued, Append1, Reorder, Edit, rows,
              OrderMoves
<1>3. CASE Steer
  <2>1. call.msg \in Messages
    BY <1>3 DEF Steer, AwaitAcked, AwaitTimeout, SteerAnswer, SteerUncertain, SteerRecord,
                SteerRefuse, Typed, CallTyped
  <2> QED BY <1>3, <2>1 DEF Steer, AwaitAcked, AwaitTimeout, Reserve, SteerAnswer, SteerUncertain,
                SteerRecord, SteerRefuse, Append1, rows, OrderMoves
<1>4. CASE \E s \in Stops : Interrupt(s)
  BY <1>4 DEF Interrupt, StopBegin, StopAwait, StopCancel, StopReconcile, rows, OrderMoves
<1>5. CASE Detach \/ ProviderDies \/ StreamEnds \/ Crash \/ Restart
  BY <1>5 DEF Detach, ProviderDies, StreamEnds, Crash, Restart, StartLive, StartFresh, rows, OrderMoves
<1> QED BY <1>1, <1>2, <1>3, <1>4, <1>5 DEF Next

LEMMA PlacedStep ==
  ASSUME Typed, QueueInv, Placed, [Next]_vars
  PROVE  Placed'
<1>1. order \in Seq(Messages) /\ Len(order) \in Nat
  BY DEF Typed, RowsTyped
<1>2. \A m \in Messages : row'[m] \in {"queued", "running"} =>
        row[m] \in {"queued", "running"} \/ Append1(m)
  BY RowsMove DEF RowMoves
<1>3. ASSUME NEW m \in Messages, order' = Append(order, m)
      PROVE  /\ Len(order') = Len(order) + 1 /\ order'[Len(order) + 1] = m
             /\ \A i \in 1..Len(order) : order'[i] = order[i]
  BY <1>1, <1>3, AppendProperties
<1>4. CASE \E m \in Messages : order' = Append(order, m)
  <2>1. PICK m \in Messages : order' = Append(order, m)
    BY <1>4
  <2>2. ASSUME NEW n \in Messages, Append1(n) PROVE n = m
    <3>1. order' = Append(order, n)
      BY <2>2 DEF Append1
    <3> QED BY <2>1, <3>1, <1>1, <1>3
  <2>3. Len(order) + 1 \in 1..Len(order') /\ \A i \in 1..Len(order) : i \in 1..Len(order')
    BY <1>1, <1>3, <2>1
  <2> QED BY <1>2, <1>3, <2>1, <2>2, <2>3 DEF Placed
<1>5. CASE UNCHANGED order
  <2>1. ASSUME NEW n \in Messages, Append1(n) PROVE FALSE
    <3>1. order' = Append(order, n)
      BY <2>1 DEF Append1
    <3>2. Len(order') = Len(order) + 1
      BY <1>3, <3>1
    <3> QED BY <1>1, <1>5, <3>2
  <2> QED BY <1>2, <1>5, <2>1 DEF Placed
<1>6. CASE \E m, n \in Messages : Reorder(m, n)
  <2>1. PICK m, n \in Messages : Reorder(m, n)
    BY <1>6
  <2>2. /\ UNCHANGED row /\ row[m] = "queued" /\ row[n] = "queued"
        /\ order' = [i \in 1..Len(order) |->
                       IF order[i] = m THEN n ELSE IF order[i] = n THEN m ELSE order[i]]
    BY <2>1 DEF Reorder, Queued
  <2>3. Len(order') = Len(order)
    BY <1>1, <2>2
  <2>4. PICK i, j \in 1..Len(order) : order[i] = m /\ order[j] = n
    BY <2>2 DEF Placed
  <2>5. order'[i] = n /\ order'[j] = m
    BY <2>2, <2>4
  <2>6. ASSUME NEW k \in Messages, row'[k] \in {"queued", "running"}
        PROVE  \E l \in 1..Len(order') : order'[l] = k
    <3>1. CASE k = m \/ k = n
      BY <2>3, <2>4, <2>5, <3>1
    <3>2. CASE k # m /\ k # n
      <4>1. PICK l \in 1..Len(order) : order[l] = k
        BY <2>2, <2>6 DEF Placed
      <4>2. order'[l] = k
        BY <2>2, <3>2, <4>1
      <4> QED BY <2>3, <4>1, <4>2
    <3> QED BY <3>1, <3>2
  <2> QED BY <2>6 DEF Placed
<1> QED BY <1>4, <1>5, <1>6, OrderMove DEF OrderMoves

-----------------------------------------------------------------------------
(* Who ends a turn that runs.                                               *)

\* The end of the turn m is on its way to the projector.
Ending(m) == \E i \in 1..Len(events) : events[i].kind = "completed" /\ events[i].turn = m

StopCalls == [pc : {"idle", "await", "cancel", "refused", "done", "failed"}, turn : Turns,
              cut : Nat, queue : SUBSET Messages]
Waits     == {"await", "cancel", "refused"}

\* No call of Interrupt waits for a controller that has let go of its session.
StopsKnown == /\ stop \in [Stops -> StopCalls]
              /\ life = "down" => \A s \in Stops : stop[s].pc \notin Waits

LEMMA StopsKept ==
  ASSUME Typed, StopsKnown, [Next]_vars
  PROVE  StopsKnown'
<1>1. CASE UNCHANGED <<stop, life>> \/ (UNCHANGED stop /\ life # "down" /\ life' # "down")
  BY <1>1 DEF StopsKnown
<1>2. CASE UNCHANGED vars \/ Clients \/ Dispatch \/ Steer \/ Driver \/ Projector
  <2>1. UNCHANGED <<stop, life>>
    BY <1>2 DEF vars, Clients, Send, SteerOrSend, PromoteQueued, CancelQueued, Reorder, Edit,
                Dispatch, DispatchSend, DispatchBind, DispatchStart,
                Steer, AwaitAcked, AwaitTimeout, Reserve, SteerAnswer, SteerUncertain, SteerRecord,
                SteerRefuse, Driver, EmitStarted, Prompt, AgentFinish, EmitCompleted, DriverIdle,
                Projector, ProjectStarted, ProjectCompleted, ResumeQueue, ctl
  <2> QED BY <1>1, <2>1
<1>3. ASSUME NEW s \in Stops, Interrupt(s) PROVE StopsKnown'
  <2>1. /\ UNCHANGED life /\ (life = "down" => stop[s].pc \in Waits)
        /\ \E c \in StopCalls : stop' = [stop EXCEPT ![s] = c]
    <3>1. CASE StopBegin(s)
      <4>1. pending \in Turns /\ Len(order) \in Nat /\ Queued(row) \in SUBSET Messages
        BY DEF Typed, RowsTyped, CallTyped, Queued
      <4>2. /\ [pc |-> "await", turn |-> pending, cut |-> Len(order), queue |-> Queued(row)] \in StopCalls
            /\ [NoStop EXCEPT !.pc = "done", !.queue = Queued(row)] \in StopCalls
            /\ [stop[s] EXCEPT !.pc = "failed"] \in StopCalls
        BY <4>1 DEF StopsKnown, StopCalls, NoStop, Turns
      <4>3. \E c \in StopCalls : stop' = [stop EXCEPT ![s] = c]
        BY <3>1, <4>2 DEF StopBegin
      <4> QED BY <3>1, <4>3 DEF StopBegin, Enter
    <3>2. CASE StopAwait(s) \/ StopCancel(s) \/ StopReconcile(s)
      <4>1. stop[s] \in StopCalls /\ stop[s].pc \in Waits /\ UNCHANGED life
        BY <3>2 DEF StopAwait, StopCancel, StopReconcile, StopsKnown, Waits, ctl
      <4>2. \E p \in {"cancel", "done", "refused", "failed"} : stop' = [stop EXCEPT ![s].pc = p]
        BY <3>2 DEF StopAwait, StopCancel, StopReconcile
      <4>3. PICK p \in {"cancel", "done", "refused", "failed"} : stop' = [stop EXCEPT ![s].pc = p]
        BY <4>2
      <4>4. [stop[s] EXCEPT !.pc = p] \in StopCalls
        BY <4>1 DEF StopCalls
      <4> QED BY <4>1, <4>3, <4>4
    <3> QED BY <1>3, <3>1, <3>2 DEF Interrupt
  <2>2. stop' \in [Stops -> StopCalls]
    BY <2>1 DEF StopsKnown
  <2>3. life # "down"
    BY <2>1 DEF StopsKnown
  <2> QED BY <2>1, <2>2, <2>3 DEF StopsKnown
<1>4. CASE Detach \/ Crash \/ Restart
  <2>1. stop' = [s \in Stops |-> IF stop[s].pc \in Waits THEN [stop[s] EXCEPT !.pc = "failed"]
                                                        ELSE stop[s]]
    BY <1>4 DEF Detach, Crash, Restart, StartLive, StartFresh, Forget, DropStops, Waits
  <2>2. \A s \in Stops : /\ [stop[s] EXCEPT !.pc = "failed"] \in StopCalls
                         /\ [stop[s] EXCEPT !.pc = "failed"].pc = "failed"
    BY DEF StopsKnown, StopCalls
  <2>3. stop' \in [Stops -> StopCalls]
    BY <2>1, <2>2 DEF StopsKnown
  <2>4. \A s \in Stops : stop'[s].pc \notin Waits
    BY <2>1, <2>2 DEF Waits
  <2> QED BY <2>3, <2>4 DEF StopsKnown
<1>5. CASE ProviderDies \/ StreamEnds
  BY <1>1, <1>5 DEF ProviderDies, StreamEnds
<1> QED BY <1>2, <1>3, <1>4, <1>5 DEF Next

\* The call that holds sendMu, the driver and the host, as far as they own a turn.
Owners ==
  /\ life = "down" => call = Free
  /\ drv.run = "none" => drv.active = None
  /\ call.pc \in {"bind", "start"} => drv.run = "none"
  /\ detaches \in Nat
  /\ MaxDetaches = 0 => detaches = 0 /\ (life = "down" => host.st = "none")

\* The driver gives up a turn after it has announced its end.
Announced == life = "up" /\ drv.run = "done" /\ row[drv.active] = "running" => Ending(drv.active)

\* Without guidance, which is dispatched beside the turn it was refused by, one turn runs.
OneRuns == Guidance = {} =>
  /\ life # "down" => Running(row) \subseteq {pending}
  /\ \A m, n \in Running(row) : m = n
  /\ call.pc \in {"send", "bind"} => pending = None

OwnedInv == Placed /\ StopsKnown /\ Owners /\ Announced /\ OneRuns /\ RunningIsOwned

LEMMA OwnedInit == Init => OwnedInv
<1> SUFFICES ASSUME Init PROVE OwnedInv
  OBVIOUS
<1>1. \A m \in Messages : row[m] = "none"
  BY DEF Init
<1>2. Running(row) = {}
  BY <1>1 DEF Running
<1>3. drv.run = "none" /\ drv.active = None /\ call.pc = "free"
  BY DEF Init, NoDriver, Free
<1>4. StopsKnown
  <2>1. NoStop \in StopCalls /\ NoStop.pc = "idle"
    BY DEF NoStop, StopCalls, Turns
  <2> QED BY <2>1 DEF Init, StopsKnown
<1> QED BY <1>1, <1>2, <1>3, <1>4 DEF Init, OwnedInv, Placed, Owners, Announced, OneRuns, RunningIsOwned

LEMMA OwnersKept ==
  ASSUME Typed, QueueInv, StopsKnown, Owners, [Next]_vars
  PROVE  Owners'
<1>1. Free.pc = "free" /\ (call = Free => call.pc = "free") /\ drv \in Drivers /\ call \in Calls
  BY SendingIs DEF Typed, DrvTyped, CallTyped
<1>2. NoDriver.run = "none" /\ NoDriver.active = None /\ NoPrompt.st = "none"
  BY DEF NoDriver, NoPrompt
<1>3. CASE UNCHANGED vars
  BY <1>3 DEF vars, Owners
<1>4. CASE Clients
  <2>1. UNCHANGED <<life, detaches, host, drv>> /\ life # "down" /\ call = Free
    BY <1>4 DEF Clients, Send, SteerOrSend, PromoteQueued, CancelQueued, Reorder, Edit, Enter,
                prov, ctl, used
  <2>2. \/ UNCHANGED call \/ call' = Free
        \/ \E m \in Messages : call' = Sending(m) \/ call' = [pc |-> "await", msg |-> m, turn |-> pending]
    BY <1>4 DEF Clients, Send, SteerOrSend, PromoteQueued, CancelQueued, Reorder, Edit, Await, Sending
  <2>3. call'.pc \notin {"bind", "start"}
    BY <1>1, <2>1, <2>2, SendingIs
  <2> QED BY <2>1, <2>3 DEF Owners
<1>5. CASE Dispatch
  <2>1. UNCHANGED <<life, detaches, host>>
    BY <1>5 DEF Dispatch, DispatchSend, DispatchBind, DispatchStart, ctl, used
  <2>2. call # Free /\ life # "down"
    BY <1>1, <1>5 DEF Dispatch, DispatchSend, DispatchBind, DispatchStart, Owners
  <2>3. CASE DispatchSend
    <3>1. \/ /\ drv.active = None /\ drv' = [drv EXCEPT !.prepared = call.msg]
          \/ call' = Free /\ UNCHANGED drv
      BY <2>3 DEF DispatchSend, DispatchFails
    <3>2. drv.active = None => drv.run = "none"
      BY Distinct DEF Typed, DrvTyped
    <3> QED BY <1>1, <2>1, <2>2, <3>1, <3>2 DEF Owners, Drivers
  <2>4. CASE DispatchBind
    <3>1. /\ call.pc = "bind"
          /\ UNCHANGED drv \/ drv' = [drv EXCEPT !.prepared = None]
      BY <2>4 DEF DispatchBind
    <3>2. drv'.run = drv.run /\ drv'.active = drv.active
      BY <1>1, <3>1 DEF Drivers
    <3> QED BY <2>1, <2>2, <3>1, <3>2 DEF Owners
  <2>5. CASE DispatchStart
    <3>1. call' = Free /\ drv'.run = "start"
      BY <1>1, <2>5 DEF DispatchStart, Drivers
    <3> QED BY <1>1, <2>1, <2>2, <3>1 DEF Owners
  <2> QED BY <1>5, <2>3, <2>4, <2>5 DEF Dispatch
<1>6. CASE Steer
  <2>1. UNCHANGED <<life, detaches, host, drv>> /\ call # Free /\ life # "down"
    BY <1>1, <1>6 DEF Steer, AwaitAcked, AwaitTimeout, Reserve, SteerAnswer, SteerUncertain,
                SteerRecord, SteerRefuse, ctl, prov, used, Owners
  <2>2. \/ UNCHANGED call \/ call' = Free
        \/ \E s \in {"steer", "record", "refuse", "send"} : call' = [call EXCEPT !.pc = s]
    BY <1>6 DEF Steer, AwaitAcked, AwaitTimeout, Reserve, SteerAnswer, SteerUncertain,
                SteerRecord, SteerRefuse
  <2>3. call'.pc \in {"bind", "start"} => UNCHANGED call
    BY <1>1, <2>2 DEF Calls
  <2> QED BY <2>1, <2>3 DEF Owners
<1>7. CASE Driver
  <2>1. UNCHANGED <<life, detaches, call>>
    BY <1>7 DEF Driver, EmitStarted, Prompt, AgentFinish, EmitCompleted, DriverIdle, ctl, used
  <2>2. /\ drv'.run = "none" => drv'.active = None
        /\ drv'.run # "none" => drv.run # "none"
    BY <1>1, <1>2, <1>7 DEF Driver, EmitStarted, Prompt, AgentFinish, EmitCompleted, DriverIdle,
                Drivers, NoDriver, Owners
  <2>3. host.st = "none" /\ life = "down" => host'.st = "none"
    BY <1>7 DEF Driver, EmitStarted, Prompt, AgentFinish, EmitCompleted, DriverIdle
  <2> QED BY <2>1, <2>2, <2>3 DEF Owners
<1>8. CASE Projector
  <2>1. life # "down" /\ UNCHANGED <<life, detaches, drv>>
    <3>1. CASE ProjectStarted \/ ProjectCompleted
      BY <3>1 DEF ProjectStarted, ProjectCompleted, used
    <3>2. CASE ResumeQueue
      BY <3>2 DEF ResumeQueue, Enter, used, prov
    <3> QED BY <1>8, <3>1, <3>2 DEF Projector
  <2>2. UNCHANGED call \/ call' = Free \/ \E m \in Messages : call' = Sending(m)
    BY <1>8, ProjectorCall
  <2>3. call'.pc \in {"bind", "start"} => UNCHANGED call
    BY <2>2, SendingIs
  <2> QED BY <2>1, <2>3 DEF Owners
<1>9. CASE \E s \in Stops : Interrupt(s)
  <2>1. /\ UNCHANGED <<life, detaches, host>>
        /\ UNCHANGED drv \/ drv' = [drv EXCEPT !.cancel = TRUE]
        /\ UNCHANGED call \/ Reconciles
    BY <1>9 DEF Interrupt, StopBegin, StopAwait, StopCancel, StopReconcile, Reconciles, rows, ctl,
                used, prov
  <2>2. life = "down" => UNCHANGED call
    BY <1>9 DEF Interrupt, StopBegin, StopAwait, StopCancel, StopReconcile, Enter, ctl, StopsKnown,
                Waits
  <2>3. UNCHANGED call \/ call' = Free \/ \E m \in Messages : call' = Sending(m)
    BY <2>1, ReconcileDoes
  <2>4. call'.pc \in {"bind", "start"} => UNCHANGED call
    BY <2>3, SendingIs
  <2>5. drv'.run = drv.run /\ drv'.active = drv.active
    BY <1>1, <2>1 DEF Drivers
  <2> QED BY <2>1, <2>2, <2>4, <2>5 DEF Owners
<1>10. CASE Detach \/ ProviderDies \/ StreamEnds \/ Crash \/ Restart
  <2>1. MaxDetaches \in Nat
    BY QueueAssumption DEF QueueAssumption
  <2>2. detaches' \in Nat /\ (MaxDetaches = 0 => detaches' = 0 /\ ~Detach)
    BY <1>10, <2>1 DEF Detach, ProviderDies, StreamEnds, Crash, Restart, StartLive, StartFresh, used,
                    Owners
  <2>3. /\ life' = "down" => call' = Free
        /\ life' = "down" => Detach \/ host' = NoPrompt
    BY <1>10 DEF Detach, ProviderDies, StreamEnds, Crash, Restart, StartLive, StartFresh, Owners
  <2>4. drv'.run = "none" => drv'.active = None
    <3>1. CASE Detach \/ Crash \/ StartFresh
      BY <1>2, <3>1 DEF Detach, Crash, StartFresh, Forget
    <3>2. CASE ProviderDies
      BY <1>2, <3>2 DEF ProviderDies, NoDriver
    <3>3. CASE StreamEnds
      BY <3>3 DEF StreamEnds, prov, Owners
    <3>4. CASE StartLive
      <4>1. \/ drv' = NoDriver
            \/ drv' = [NoDriver EXCEPT !.active = Latest, !.out = host.out,
                                       !.run = IF host.st = "active" THEN "prompt" ELSE "settle"]
        BY <3>4 DEF StartLive
      <4> QED BY <1>2, <4>1 DEF NoDriver
    <3> QED BY <1>10, <3>1, <3>2, <3>3, <3>4 DEF Restart
  <2>5. call'.pc \in {"bind", "start"} => drv'.run = "none"
    <3>1. CASE Detach \/ Crash \/ Restart
      <4>1. call' = Free
        BY <3>1 DEF Detach, Crash, Restart, StartLive, StartFresh
      <4> QED BY <1>1, <4>1
    <3>2. CASE ProviderDies
      BY <1>2, <3>2 DEF ProviderDies, NoDriver
    <3>3. CASE StreamEnds
      BY <3>3 DEF StreamEnds, prov, Owners
    <3> QED BY <1>10, <3>1, <3>2, <3>3
  <2> QED BY <1>2, <2>2, <2>3, <2>4, <2>5 DEF Owners
<1> QED BY <1>3, <1>4, <1>5, <1>6, <1>7, <1>8, <1>9, <1>10 DEF Next

LEMMA LatestRunsLast ==
  ASSUME order \in Seq(Messages), Placed, Running(row) # {}
  PROVE  Latest \in Running(row)
<1> DEFINE run == {i \in 1..Len(order) : row[order[i]] = "running"}
<1>1. run # {}
  BY DEF Running, Placed
<1>2. Len(order) \in Nat /\ run \in SUBSET (1..Len(order))
  OBVIOUS
<1>3. Max(run) \in run
  BY <1>1, <1>2, GreatestExists
<1>4. Latest = order[Max(run)]
  BY <1>1 DEF Latest
<1>5. order[Max(run)] \in Messages
  BY <1>3, ElementOfSeq
<1> QED BY <1>3, <1>4, <1>5 DEF Running

\* What a reconciliation leaves running, and of whom.
LEMMA ReconcileLeaves ==
  ASSUME Typed, NEW t, NEW cut, Reconcile(t, cut)
  PROVE  /\ \A m \in Messages : row'[m] # "running"
         /\ pending' = None \/ pending' = pending
<1> DEFINE p == IF pending \in Visible(t) THEN None ELSE pending
           r == Closed(Visible(t))
<1>1. r \in [Messages -> States] /\ \A m \in Messages : r[m] # "running"
  <2>1. \A m \in Messages : row[m] = "running" => m \in Visible(t)
    BY DEF Visible, Running
  <2> QED BY <2>1 DEF Closed, Typed, RowsTyped, States, Ends
<1>2. Drain(r, p, cut, TRUE) /\ pending' = p
  BY DEF Reconcile
<1> HIDE DEF r, p
<1>3. order \in Seq(Messages)
  BY DEF Typed, RowsTyped
<1>4. \A m \in Messages : row'[m] = r[m] \/ row'[m] = "interrupted"
  BY <1>1, <1>2, <1>3, DrainDoes
<1>5. pending' = None \/ pending' = pending
  BY <1>2 DEF p
<1> QED BY <1>1, <1>4, <1>5

\* A drain goes on to send a row only when no turn is pending.
LEMMA DrainSendsIdle ==
  ASSUME NEW r, NEW p, NEW cut, NEW allow, Drain(r, p, cut, allow)
  PROVE  call' = Free \/ p = None
BY DEF Drain

LEMMA OneRunsKept ==
  ASSUME Typed, QueueInv, StopsKnown, Placed, Owners, OneRuns, [Next]_vars
  PROVE  OneRuns'
<1> SUFFICES ASSUME Guidance = {}
             PROVE  /\ life' # "down" => Running(row') \subseteq {pending'}
                    /\ \A m, n \in Running(row') : m = n
                    /\ call'.pc \in {"send", "bind"} => pending' = None
  BY DEF OneRuns
<1>1. /\ life # "down" => Running(row) \subseteq {pending}
      /\ \A m, n \in Running(row) : m = n
      /\ call.pc \in {"send", "bind"} => pending = None
  BY DEF OneRuns
<1>2. RowMoves
  BY RowsMove
<1>3. Free.pc = "free" /\ (call = Free => call.pc = "free")
  BY SendingIs
<1>4. CASE DispatchBind
  <2>1. call.pc = "bind" /\ call.msg \in Messages /\ pending = None /\ life # "down" /\ UNCHANGED life
    BY <1>1, <1>3, <1>4 DEF DispatchBind, Typed, CallTyped, Owners
  <2>2. Running(row) = {}
    BY <1>1, <2>1, Distinct DEF Running
  <2>3. Running(row') \subseteq {call.msg}
    BY <1>2, <2>2 DEF RowMoves, Running
  <2>4. CASE pending' = call.msg /\ call' = [call EXCEPT !.pc = "start"]
    BY <2>3, <2>4 DEF Typed, CallTyped, Calls
  <2>5. CASE row' = [row EXCEPT ![call.msg] = "failed"] /\ call' = Free /\ UNCHANGED pending
    <3>1. row'[call.msg] = "failed"
      BY <2>1, <2>5 DEF Typed, RowsTyped
    <3>2. Running(row') = {}
      BY <2>3, <3>1 DEF Running
    <3> QED BY <1>3, <2>5, <3>2
  <2>6. CASE UNCHANGED <<row, pending>> /\ call' = Free
    BY <1>3, <2>2, <2>6
  <2> QED BY <1>4, <2>4, <2>5, <2>6 DEF DispatchBind, DispatchFails, Settle
<1>5. ~DispatchBind => Running(row') \subseteq Running(row)
  BY <1>2 DEF RowMoves, Running
<1>6. CASE \/ UNCHANGED <<life, pending>> /\ ~DispatchBind
              /\ (call'.pc \in {"send", "bind"} => call.pc \in {"send", "bind"} \/ pending = None)
  BY <1>1, <1>5, <1>6
<1>7. CASE UNCHANGED vars \/ Clients \/ DispatchSend \/ DispatchStart \/ Steer \/ Driver
  <2>1. UNCHANGED <<life, pending>>
    BY <1>7 DEF vars, Clients, Send, SteerOrSend, PromoteQueued, CancelQueued, Reorder, Edit,
                DispatchSend, DispatchStart,
                Steer, AwaitAcked, AwaitTimeout, Reserve, SteerAnswer, SteerUncertain, SteerRecord,
                SteerRefuse, Driver, EmitStarted, Prompt, AgentFinish, EmitCompleted, DriverIdle, ctl
  <2>2. call'.pc \in {"send", "bind"} => call.pc \in {"send", "bind"} \/ pending = None
    <3>1. CASE UNCHANGED vars \/ Driver
      BY <3>1 DEF vars, Driver, EmitStarted, Prompt, AgentFinish, EmitCompleted, DriverIdle
    <3>2. CASE Clients
      <4>1. ASSUME NEW m \in Messages, Send(m) \/ PromoteQueued(m) \/ SteerOrSend(m)
            PROVE  call'.pc \in {"send", "bind"} => pending = None
        BY <1>3, <4>1 DEF Send, PromoteQueued, SteerOrSend, Await
      <4>2. ASSUME NEW m \in Messages, NEW n \in Messages, CancelQueued(m) \/ Reorder(m, n)
            PROVE  UNCHANGED call
        BY <4>2 DEF CancelQueued, Reorder
      <4> QED BY <3>2, <4>1, <4>2 DEF Clients
    <3>3. CASE DispatchSend \/ DispatchStart
      BY <1>3, <3>3 DEF DispatchSend, DispatchFails, DispatchStart
    <3>4. CASE Steer
      <4>1. CASE SteerRefuse
        <5>1. call.pc = "refuse" /\ call.msg \in Messages /\ row[call.msg] = "queued"
          BY <4>1 DEF SteerRefuse, Typed, CallTyped, QueueInv, CallUntaken, TakenKnown
        <5> QED BY <1>3, <4>1, <5>1 DEF SteerRefuse, Promotes
      <4>2. CASE ~SteerRefuse
        <5>1. \/ UNCHANGED call \/ call' = Free
              \/ \E s \in {"steer", "record", "refuse"} : call' = [call EXCEPT !.pc = s]
          BY <3>4, <4>2 DEF Steer, AwaitAcked, AwaitTimeout, Reserve, SteerAnswer, SteerUncertain,
                            SteerRecord
        <5> QED BY <1>3, <5>1 DEF Typed, CallTyped, Calls
      <4> QED BY <4>1, <4>2
    <3> QED BY <1>7, <3>1, <3>2, <3>3, <3>4
  <2>3. CASE DispatchBind
    BY <1>4, <2>3
  <2> QED BY <1>6, <2>1, <2>2, <2>3
<1>8. CASE Projector
  <2>1. life # "down" /\ UNCHANGED life /\ call.pc = "free"
    <3>1. CASE ProjectStarted \/ ProjectCompleted
      BY <1>3, <3>1 DEF ProjectStarted, ProjectCompleted
    <3>2. CASE ResumeQueue
      BY <1>3, <3>2 DEF ResumeQueue, Enter
    <3> QED BY <1>8, <3>1, <3>2 DEF Projector
  <2>2. Running(row') \subseteq Running(row)
    BY <1>5, <2>1 DEF DispatchBind
  <2>3. CASE ProjectStarted
    <3>1. pending # None => UNCHANGED pending
      BY <2>3 DEF ProjectStarted
    <3>2. UNCHANGED call
      BY <2>3 DEF ProjectStarted
    <3>3. None \notin Running(row')
      BY Distinct DEF Running
    <3> QED BY <1>1, <2>1, <2>2, <3>1, <3>2, <3>3
  <2>4. CASE ProjectCompleted
    <3> DEFINE t == Head(events).turn
    <3>1. /\ t \in Messages /\ row'[t] \in Ends
          /\ pending # t => UNCHANGED <<pending, call>>
          /\ pending = t => pending' = None
      BY <2>4, CompletedDoes
    <3>2. t \notin Running(row')
      BY <3>1, StatesDiffer DEF Running
    <3> HIDE DEF t
    <3> QED BY <1>1, <2>1, <2>2, <3>1, <3>2
  <2>5. CASE ResumeQueue
    <3>1. UNCHANGED pending /\ (call' = Free \/ pending = None)
      BY <2>5, DrainSendsIdle DEF ResumeQueue
    <3> QED BY <1>1, <1>3, <2>1, <2>2, <3>1
  <2> QED BY <1>8, <2>3, <2>4, <2>5 DEF Projector
<1>9. CASE \E s \in Stops : Interrupt(s)
  <2>1. UNCHANGED life
    BY <1>9 DEF Interrupt, StopBegin, StopAwait, StopCancel, StopReconcile, ctl
  <2>2. \/ UNCHANGED <<row, pending, call>> \/ \E t, cut : Reconcile(t, cut)
        \/ UNCHANGED pending /\ call = Free /\ call' = Free
    BY <1>9 DEF Interrupt, StopBegin, StopAwait, StopCancel, StopReconcile, ReconcileFails, Enter,
                rows, ctl
  <2>3. CASE UNCHANGED <<row, pending, call>>
    BY <1>1, <2>1, <2>3
  <2>4. CASE \E t, cut : Reconcile(t, cut)
    <3>1. PICK t, cut : Reconcile(t, cut)
      BY <2>4
    <3>2. Running(row') = {}
      BY <3>1, ReconcileLeaves DEF Running
    <3>3. call' = Free \/ pending' = None
      BY <3>1, DrainSendsIdle DEF Reconcile
    <3> QED BY <1>3, <3>2, <3>3
  <2>5. CASE UNCHANGED pending /\ call = Free /\ call' = Free
    <3>1. Running(row') \subseteq Running(row)
      BY <1>3, <1>5, <2>5 DEF DispatchBind
    <3> QED BY <1>1, <1>3, <2>1, <2>5, <3>1
  <2> QED BY <2>2, <2>3, <2>4, <2>5
<1>10. CASE Detach \/ ProviderDies \/ StreamEnds \/ Crash \/ Restart
  <2>1. /\ Running(row') \subseteq Running(row)
        /\ call'.pc \in {"send", "bind"} => UNCHANGED pending /\ call.pc \in {"send", "bind"}
    <3>1. \A m \in Messages : row'[m] = row[m] \/ row'[m] = "failed"
      BY <1>10 DEF Detach, ProviderDies, StreamEnds, Crash, Restart, StartLive, StartFresh, rows
    <3>2. \/ call' = Free
          \/ UNCHANGED <<call, pending>>
      BY <1>10 DEF Detach, ProviderDies, StreamEnds, Crash, Restart, StartLive, StartFresh
    <3> QED BY <1>3, <3>1, <3>2 DEF Running
  <2>2. life' # "down" => Running(row') \subseteq {pending'}
    <3>1. CASE Detach \/ Crash
      BY <3>1 DEF Detach, Crash
    <3>2. CASE ProviderDies
      BY <1>1, <2>1, <3>2 DEF ProviderDies
    <3>3. CASE StreamEnds \/ StartFresh
      BY <3>3 DEF StreamEnds, StartFresh, Running
    <3>4. CASE StartLive
      <4>1. UNCHANGED row /\ pending' = Latest
        BY <3>4 DEF StartLive, rows
      <4>2. order \in Seq(Messages)
        BY DEF Typed, RowsTyped
      <4>3. Running(row) # {} => Latest \in Running(row)
        BY <4>2, LatestRunsLast
      <4> QED BY <1>1, <4>1, <4>3
    <3> QED BY <1>10, <3>1, <3>2, <3>3, <3>4 DEF Restart
  <2> QED BY <1>1, <2>1, <2>2
<1> QED BY <1>4, <1>7, <1>8, <1>9, <1>10 DEF Next, Dispatch

\* An announced end is lost with the controller, or settles its row.
LEMMA EndingKept ==
  ASSUME Typed, [Next]_vars, life = "up", life' = "up", NEW m \in Messages,
         row'[m] = "running", Ending(m), ~Restart
  PROVE  Ending(m)'
<1>1. events \in Seq(Events) /\ Len(events) \in Nat
  BY DEF Typed, EventsTyped
<1>2. CASE UNCHANGED events
  BY <1>2 DEF Ending
<1>3. CASE EmitStarted \/ EmitCompleted
  <2>1. PICK e \in Events : events' = Append(events, e)
    <3>1. drv.active \in Messages /\ drv.out \in Ends \cup {"none"}
      BY <1>3 DEF EmitStarted, EmitCompleted, Typed, DrvTyped, Drivers
    <3> QED BY <1>3, <3>1 DEF EmitStarted, EmitCompleted, Events
  <2>2. Len(events') = Len(events) + 1 /\ \A i \in 1..Len(events) : events'[i] = events[i]
    BY <1>1, <2>1, AppendProperties
  <2>3. \A i \in 1..Len(events) : i \in 1..Len(events')
    BY <1>1, <2>2
  <2> QED BY <2>2, <2>3 DEF Ending
<1>4. CASE ProjectStarted \/ ProjectCompleted
  <2>1. events # <<>> /\ events' = Tail(events)
    BY <1>4 DEF ProjectStarted, ProjectCompleted
  <2>2. Len(events) \in Nat \ {0}
    BY <1>1, <2>1, EmptySeq
  <2>3. /\ Len(events') = Len(events) - 1 /\ Head(events) = events[1]
        /\ \A i \in 1..Len(events') : events'[i] = events[i + 1]
    BY <1>1, <2>1, <2>2, HeadTailProperties
  <2>4. ~(Head(events).kind = "completed" /\ Head(events).turn = m)
    <3>1. CASE ProjectStarted
      BY <3>1 DEF ProjectStarted
    <3>2. CASE ProjectCompleted
      <4>1. Head(events).turn \in Messages /\ row'[Head(events).turn] \in Ends
        BY <3>2, CompletedDoes
      <4> QED BY <4>1, StatesDiffer
    <3> QED BY <1>4, <3>1, <3>2
  <2>5. PICK i \in 1..Len(events) : events[i].kind = "completed" /\ events[i].turn = m
    BY DEF Ending
  <2>6. i # 1
    BY <2>3, <2>4, <2>5
  <2>7. i - 1 \in 1..Len(events') /\ (i - 1) + 1 = i
    BY <2>2, <2>3, <2>6
  <2>8. events'[i - 1] = events[i]
    BY <2>3, <2>7
  <2> QED BY <2>5, <2>7, <2>8 DEF Ending
<1>5. UNCHANGED events \/ EmitStarted \/ EmitCompleted \/ ProjectStarted \/ ProjectCompleted
  <2>1. CASE UNCHANGED vars \/ Clients \/ Dispatch \/ Steer
    BY <2>1 DEF vars, Clients, Send, SteerOrSend, PromoteQueued, CancelQueued, Reorder, Edit,
                Dispatch, DispatchSend, DispatchBind, DispatchStart, Steer, AwaitAcked, AwaitTimeout,
                Reserve, SteerAnswer, SteerUncertain, SteerRecord, SteerRefuse, prov
  <2>2. CASE Driver \/ Projector
    BY <2>2 DEF Driver, Prompt, AgentFinish, DriverIdle, Projector, ResumeQueue, prov
  <2>3. CASE \E s \in Stops : Interrupt(s)
    BY <2>3 DEF Interrupt, StopBegin, StopAwait, StopCancel, StopReconcile, prov
  <2>4. CASE Detach \/ ProviderDies \/ StreamEnds \/ Crash
    BY <2>4 DEF Detach, ProviderDies, StreamEnds, Crash
  <2> QED BY <2>1, <2>2, <2>3, <2>4 DEF Next
<1> QED BY <1>2, <1>3, <1>4, <1>5

\* Within one controller the driver takes a turn, announces its end, and then gives it up.
LEMMA DriverGoesOn ==
  ASSUME Typed, QueueInv, StopsKnown, Owners, [Next]_vars, life = "up", life' = "up", ~Restart
  PROVE  \/ drv'.active = drv.active /\ drv'.run = drv.run
         \/ drv'.active = drv.active /\ drv.run # "none" /\ drv'.run # "done"
         \/ drv'.active = drv.active /\ drv'.run = "done" /\ EmitCompleted
         \/ drv.run = "done" /\ drv'.run = "none"
         \/ drv.run = "none" /\ drv'.run = "start" /\ DispatchStart
<1>1. drv \in Drivers
  BY DEF Typed, DrvTyped
<1>2. CASE UNCHANGED drv
  BY <1>2
<1>3. CASE Dispatch
  <2>1. CASE DispatchSend
    BY <1>1, <2>1 DEF DispatchSend, Drivers
  <2>2. CASE DispatchBind
    BY <1>1, <2>2 DEF DispatchBind, Drivers
  <2>3. CASE DispatchStart
    BY <1>1, <2>3 DEF DispatchStart, Drivers, Owners
  <2> QED BY <1>3, <2>1, <2>2, <2>3 DEF Dispatch
<1>4. CASE Driver
  <2>1. CASE EmitStarted
    BY <1>1, <2>1 DEF EmitStarted, Drivers
  <2>2. CASE Prompt
    BY <1>1, <2>2 DEF Prompt, Drivers
  <2>3. CASE AgentFinish
    <3>1. CASE UNCHANGED drv
      BY <3>1
    <3>2. CASE ~UNCHANGED drv
      <4>1. PICK o \in Ends : drv.run = "prompt" /\ drv' = [drv EXCEPT !.run = "settle", !.out = o]
        BY <2>3, <3>2, Distinct DEF AgentFinish, Ends
      <4> QED BY <1>1, <4>1 DEF Drivers
    <3> QED BY <3>1, <3>2
  <2>4. CASE EmitCompleted
    BY <1>1, <2>4 DEF EmitCompleted, Drivers
  <2>5. CASE DriverIdle
    BY <1>1, <2>5 DEF DriverIdle, NoDriver
  <2> QED BY <1>4, <2>1, <2>2, <2>3, <2>4, <2>5 DEF Driver
<1>5. CASE \E s \in Stops : Interrupt(s)
  <2>1. UNCHANGED drv \/ drv' = [drv EXCEPT !.cancel = TRUE]
    BY <1>5 DEF Interrupt, StopBegin, StopAwait, StopCancel, StopReconcile, prov
  <2> QED BY <1>1, <2>1 DEF Drivers
<1>6. UNCHANGED drv \/ Dispatch \/ Driver \/ \E s \in Stops : Interrupt(s)
  <2>1. CASE UNCHANGED vars \/ Clients \/ Steer \/ Projector
    BY <2>1 DEF vars, Clients, Send, SteerOrSend, PromoteQueued, CancelQueued, Reorder, Edit,
                Steer, AwaitAcked, AwaitTimeout, Reserve, SteerAnswer, SteerUncertain, SteerRecord,
                SteerRefuse, Projector, ProjectStarted, ProjectCompleted, ResumeQueue, prov
  <2>2. CASE Detach \/ ProviderDies \/ StreamEnds \/ Crash
    BY <2>2 DEF Detach, ProviderDies, StreamEnds, Crash
  <2> QED BY <2>1, <2>2 DEF Next
<1> QED BY <1>2, <1>3, <1>4, <1>5, <1>6

\* The end that EmitCompleted announces.
LEMMA EndAnnounced ==
  ASSUME Typed, EmitCompleted
  PROVE  Ending(drv.active)'
<1> DEFINE e == [kind |-> "completed", turn |-> drv.active, out |-> drv.out]
<1>1. events \in Seq(Events) /\ Len(events) \in Nat /\ e \in Events
  BY DEF EmitCompleted, Typed, DrvTyped, EventsTyped, Drivers, Events
<1>2. Len(events') = Len(events) + 1 /\ events'[Len(events) + 1] = e /\ drv'.active = drv.active
  BY <1>1, AppendProperties DEF EmitCompleted, Typed, DrvTyped, Drivers
<1>3. Len(events) + 1 \in 1..Len(events')
  BY <1>1, <1>2
<1> QED BY <1>2, <1>3 DEF Ending

\* A restart takes over the one row that runs, or finds none.
LEMMA RestartOwns ==
  ASSUME Typed, Placed, Owners, OneRuns, Guidance = {} \/ MaxDetaches = 0, Restart
  PROVE  Announced' /\ RunningIsOwned'
<1>1. NoDriver.run = "none"
  BY DEF NoDriver
<1>2. CASE StartFresh
  BY <1>1, <1>2 DEF StartFresh, Announced, RunningIsOwned, Running
<1>3. CASE StartLive
  <2>1. UNCHANGED row /\ order \in Seq(Messages) /\ host \in Prompts
    BY <1>3 DEF StartLive, rows, Typed, RowsTyped, DrvTyped
  <2>2. Running(row) # {} => Latest \in Running(row) /\ Latest # None
    BY <2>1, LatestRunsLast, Distinct DEF Running
  <2>3. CASE Latest = None
    <3>1. drv' = NoDriver /\ Running(row') = {}
      BY <1>3, <2>1, <2>2, <2>3 DEF StartLive
    <3> QED BY <1>1, <3>1 DEF Announced, RunningIsOwned
  <2>4. CASE Latest # None
    <3>1. /\ host.st # "none" /\ life = "down"
          /\ drv' = [NoDriver EXCEPT !.active = Latest, !.out = host.out,
                                     !.run = IF host.st = "active" THEN "prompt" ELSE "settle"]
      BY <1>3, <2>4 DEF StartLive
    <3>2. drv'.active = Latest /\ drv'.run # "done"
      BY <3>1 DEF NoDriver
    <3>3. Guidance = {}
      BY <3>1 DEF Owners
    <3>4. \A m \in Running(row') : m = Latest
      BY <2>1, <2>2, <3>3 DEF OneRuns
    <3> QED BY <3>2, <3>4 DEF Announced, RunningIsOwned, EndIsComing
  <2> QED BY <2>3, <2>4
<1> QED BY <1>2, <1>3 DEF Restart

\* Between the binding and the start of its turn nobody else has sendMu.
LEMMA HeldByStart ==
  ASSUME Typed, [Next]_vars, call.pc = "start", ~DispatchStart, life' = "up"
  PROVE  UNCHANGED call
<1>1. call # Free
  BY SendingIs
<1>2. CASE UNCHANGED vars \/ Clients \/ Dispatch \/ Steer
  BY <1>1, <1>2 DEF vars, Clients, Send, SteerOrSend, PromoteQueued, CancelQueued, Reorder, Edit,
                Enter, Dispatch, DispatchSend, DispatchBind, Steer, AwaitAcked, AwaitTimeout,
                SteerAnswer, SteerUncertain, SteerRecord, SteerRefuse
<1>3. CASE Driver \/ Projector
  BY <1>1, <1>3 DEF Driver, EmitStarted, Prompt, AgentFinish, EmitCompleted, DriverIdle,
                Projector, ProjectStarted, ProjectCompleted, ResumeQueue, Enter
<1>4. CASE \E s \in Stops : Interrupt(s)
  BY <1>1, <1>4 DEF Interrupt, StopBegin, StopAwait, StopCancel, StopReconcile, Enter, ctl
<1>5. CASE Detach \/ ProviderDies \/ StreamEnds \/ Crash \/ Restart
  BY <1>1, <1>5 DEF Detach, ProviderDies, StreamEnds, Crash, Restart, StartLive, StartFresh
<1> QED BY <1>2, <1>3, <1>4, <1>5 DEF Next

LEMMA OwnedStep ==
  ASSUME Typed, QueueInv, OwnedInv, Guidance = {} \/ MaxDetaches = 0, [Next]_vars
  PROVE  OwnedInv'
<1>1. Placed' /\ StopsKnown' /\ Owners' /\ OneRuns'
  BY PlacedStep, StopsKept, OwnersKept, OneRunsKept DEF OwnedInv
<1>2. CASE Restart
  BY <1>1, <1>2, RestartOwns DEF OwnedInv
<1>3. CASE life' # "up"
  BY <1>1, <1>3 DEF OwnedInv, Announced, RunningIsOwned
<1>4. CASE ~Restart /\ life' = "up"
  <2>1. life = "up"
    BY <1>4 DEF Next, vars, Clients, Send, SteerOrSend, PromoteQueued, CancelQueued, Reorder, Edit,
                Dispatch, DispatchSend, DispatchBind, DispatchStart, Steer, AwaitAcked, AwaitTimeout,
                Reserve, SteerAnswer, SteerUncertain, SteerRecord, SteerRefuse,
                Driver, EmitStarted, Prompt, AgentFinish, EmitCompleted, DriverIdle,
                Projector, ProjectStarted, ProjectCompleted, ResumeQueue,
                Interrupt, StopBegin, StopAwait, StopCancel, StopReconcile,
                Detach, ProviderDies, StreamEnds, Crash, ctl
  <2>2. /\ RowMoves /\ (drv.run # "none" => drv.active \in Messages)
        /\ \/ drv'.active = drv.active /\ drv'.run = drv.run
           \/ drv'.active = drv.active /\ drv.run # "none" /\ drv'.run # "done"
           \/ drv'.active = drv.active /\ drv'.run = "done" /\ EmitCompleted
           \/ drv.run = "done" /\ drv'.run = "none"
           \/ drv.run = "none" /\ drv'.run = "start" /\ DispatchStart
    BY <1>4, <2>1, RowsMove, DriverGoesOn DEF OwnedInv, Typed, DrvTyped
  <2>3. Announced'
    <3>1. SUFFICES ASSUME drv'.run = "done", row'[drv'.active] = "running" PROVE Ending(drv.active)'
      BY <2>2 DEF Announced, Ending
    <3>2. CASE EmitCompleted
      BY <3>2, EndAnnounced
    <3>3. CASE ~EmitCompleted
      <4>1. drv'.active = drv.active /\ drv.run = "done" /\ drv.active \in Messages
        BY <2>2, <3>1, <3>3
      <4>2. row[drv.active] = "running"
        BY <2>2, <3>1, <4>1 DEF RowMoves, OwnedInv, Owners
      <4>3. Ending(drv.active)
        BY <2>1, <4>1, <4>2 DEF OwnedInv, Announced
      <4>4. \A m \in Messages : row'[m] = "running" /\ Ending(m) => Ending(m)'
        BY <1>4, <2>1, EndingKept
      <4> QED BY <3>1, <4>1, <4>3, <4>4
    <3> QED BY <3>2, <3>3
  <2>4. RunningIsOwned'
    <3>1. SUFFICES ASSUME NEW m \in Messages, row'[m] = "running"
                   PROVE  \/ drv'.active = m \/ Ending(m)' \/ (call'.pc = "start" /\ call'.msg = m)
      BY DEF RunningIsOwned, Running, EndIsComing, Ending
    <3>2. CASE row[m] # "running"
      <4>1. DispatchBind /\ call.msg = m /\ row[m] = "queued"
        BY <2>2, <3>1, <3>2 DEF RowMoves
      <4>2. row'[m] # "failed"
        BY <3>1
      <4>3. call' = [call EXCEPT !.pc = "start"]
        BY <3>1, <4>1, <4>2 DEF DispatchBind, DispatchFails, Settle, Typed, RowsTyped
      <4> QED BY <4>1, <4>3 DEF Typed, CallTyped, Calls
    <3>3. CASE row[m] = "running"
      <4>1. drv.active = m \/ Ending(m) \/ (call.pc = "start" /\ call.msg = m)
        BY <2>1, <3>3 DEF OwnedInv, RunningIsOwned, Running, EndIsComing, Ending
      <4>2. CASE Ending(m)
        BY <1>4, <2>1, <3>1, <4>2, EndingKept
      <4>3. CASE drv.active = m
        <5>1. drv.run # "none"
          BY <4>3, Distinct DEF OwnedInv, Owners
        <5>2. CASE drv'.active = drv.active
          BY <4>3, <5>2
        <5>3. CASE drv.run = "done"
          <6>1. Ending(m)
            BY <2>1, <3>3, <4>3, <5>3 DEF OwnedInv, Announced
          <6> QED BY <1>4, <2>1, <3>1, <6>1, EndingKept
        <5> QED BY <2>2, <5>1, <5>2, <5>3
      <4>4. CASE call.pc = "start" /\ call.msg = m
        <5>1. CASE DispatchStart
          BY <4>4, <5>1 DEF DispatchStart, Typed, DrvTyped, Drivers
        <5>2. CASE ~DispatchStart
          <6>1. UNCHANGED call
            BY <1>4, <4>4, <5>2, HeldByStart
          <6> QED BY <4>4, <6>1
        <5> QED BY <5>1, <5>2
      <4> QED BY <4>1, <4>2, <4>3, <4>4
    <3> QED BY <3>2, <3>3
  <2> QED BY <1>1, <2>3, <2>4 DEF OwnedInv
<1> QED BY <1>2, <1>3, <1>4

\* A row that runs under a registered controller has something that will settle it: its
\* dispatch, the driver's turn or an announced end.  The code gives this to a session
\* without guidance, and to one whose projection never fails for good: guidance that is
\* refused is dispatched beside the pending turn, and a later takeover finds two rows and
\* owns one.  Dispatch, finishPrompt and restoreLiveTurnOwnership.
THEOREM RunningIsOwnedAlways ==
  ASSUME Guidance = {} \/ MaxDetaches = 0
  PROVE  Spec => []RunningIsOwned
<1>1. Init => Typed /\ QueueInv /\ OwnedInv
  BY TypedInit, QueueInit, OwnedInit
<1>2. Typed /\ QueueInv /\ OwnedInv /\ [Next]_vars => (Typed /\ QueueInv /\ OwnedInv)'
  BY TypedStep, QueueStep, OwnedStep
<1>3. OwnedInv => RunningIsOwned
  BY DEF OwnedInv
<1> QED BY <1>1, <1>2, <1>3, PTL DEF Spec

-----------------------------------------------------------------------------
(* Stop as a brake.                                                         *)

\* No controller was lost and one Stop was pressed.
Undisturbed ==
  /\ deaths = 0 /\ detaches = 0
  /\ \A s, t \in Stops : stop[s].pc # "idle" /\ stop[t].pc # "idle" => s = t

Counted == {edits, deaths, detaches} \subseteq Nat
Calm    == deaths = 0 /\ detaches = 0 => life = "up" /\ ~resume

\* A Stop that has not failed and did not find the controller without a turn.
Braking(s) == stop[s].pc \in {"await", "cancel", "refused", "done"} /\ stop[s].turn # None

\* A message that no step under way brings to the agent.
Stopped(q) ==
  /\ q \notin Prompted /\ row[q] \notin {"none", "running"}
  /\ call.pc \in {"send", "bind", "start"} => call.msg # q
  /\ Starting => drv.active # q

\* Until the cutoff is spent it covers the messages that were queued; after that none of
\* them waits, but those whose withdrawal failed.
BrakeOf(s) == Braking(s) =>
  /\ stop[s].cut <= Len(order)
  /\ \A q \in stop[s].queue : \E i \in 1..stop[s].cut : order[i] = q
  /\ \A q \in stop[s].queue \ unswept : Stopped(q)
  /\ cutoff = stop[s].cut \/ stop[s].queue \cap Queued(row) \subseteq unswept

PromptedLate == \A m \in Prompted : m \in Messages /\ row[m] \in Late

BrakeInv == /\ Placed /\ StopsKnown /\ Counted /\ Calm /\ PromptedLate
            /\ edits = 0 /\ Undisturbed => \A s \in Stops : BrakeOf(s)

\* What a step adds to what was prompted.
LEMMA PromptedGrows ==
  ASSUME Typed, [Next]_vars
  PROVE  Prompted' = Prompted \/ (Prompt /\ Starting /\ Prompted' \subseteq Prompted \cup {drv.active})
<1>1. agent \in Seq(Takes) /\ Len(agent) \in Nat
  BY DEF Typed
<1>2. CASE UNCHANGED agent
  BY <1>2 DEF Prompted
<1>3. ASSUME NEW m \in Messages, NEW h \in {"prompt", "steer"},
             agent' = Append(agent, [msg |-> m, how |-> h])
      PROVE  IF h = "prompt" THEN Prompted' \subseteq Prompted \cup {m} ELSE Prompted' = Prompted
  <2> DEFINE g == [msg |-> m, how |-> h]
  <2>1. g \in Takes /\ g.msg = m /\ g.how = h
    BY DEF Takes
  <2>2. /\ Len(agent') = Len(agent) + 1 /\ agent'[Len(agent) + 1] = g
        /\ \A k \in 1..Len(agent) : agent'[k] = agent[k]
    BY <1>1, <1>3, <2>1, AppendProperties
  <2>3. \A k \in 1..Len(agent') : k \in 1..Len(agent) \/ k = Len(agent) + 1
    BY <1>1, <2>2
  <2>4. \A k \in 1..Len(agent) : k \in 1..Len(agent')
    BY <1>1, <2>2
  <2>5. Prompted' \subseteq Prompted \cup {m}
    BY <2>1, <2>2, <2>3 DEF Prompted
  <2>6. CASE h = "steer"
    <3>1. Prompted' \subseteq Prompted
      <4>1. SUFFICES ASSUME NEW k \in 1..Len(agent'), agent'[k].how = "prompt"
                     PROVE agent'[k].msg \in Prompted
        BY DEF Prompted
      <4>2. k \in 1..Len(agent)
        BY <2>1, <2>2, <2>3, <2>6, <4>1
      <4> QED BY <2>2, <4>1, <4>2 DEF Prompted
    <3>2. Prompted \subseteq Prompted'
      BY <2>2, <2>4 DEF Prompted
    <3> QED BY <2>6, <3>1, <3>2
  <2> QED BY <2>5, <2>6
<1>4. CASE Prompt
  <2>1. Starting /\ drv.active \in Messages
    BY <1>4 DEF Prompt, Starting, Typed, DrvTyped
  <2>2. UNCHANGED agent \/ agent' = Append(agent, [msg |-> drv.active, how |-> "prompt"])
    BY <1>4 DEF Prompt
  <2> QED BY <1>2, <1>3, <1>4, <2>1, <2>2
<1>5. CASE Steer
  <2>1. call.msg \in Messages
    BY <1>5 DEF Steer, AwaitAcked, AwaitTimeout, SteerAnswer, SteerUncertain, SteerRecord,
                SteerRefuse, Typed, CallTyped
  <2>2. UNCHANGED agent \/ agent' = Append(agent, [msg |-> call.msg, how |-> "steer"])
    BY <1>5 DEF Steer, AwaitAcked, AwaitTimeout, Reserve, SteerAnswer, SteerUncertain, SteerRecord,
                SteerRefuse, prov
  <2> QED BY <1>2, <1>3, <2>1, <2>2
<1>6. Prompt \/ Steer \/ UNCHANGED agent
  <2>1. CASE UNCHANGED vars \/ Clients \/ Dispatch
    BY <2>1 DEF vars, Clients, Send, SteerOrSend, PromoteQueued, CancelQueued, Reorder, Edit,
                Dispatch, DispatchSend, DispatchBind, DispatchStart, prov
  <2>2. CASE Driver \/ Projector
    BY <2>2 DEF Driver, EmitStarted, AgentFinish, EmitCompleted, DriverIdle, Projector,
                ProjectStarted, ProjectCompleted, ResumeQueue, prov
  <2>3. CASE \E s \in Stops : Interrupt(s)
    BY <2>3 DEF Interrupt, StopBegin, StopAwait, StopCancel, StopReconcile, prov
  <2>4. CASE Detach \/ ProviderDies \/ StreamEnds \/ Crash \/ Restart
    BY <2>4 DEF Detach, ProviderDies, StreamEnds, Crash, Restart, StartLive, StartFresh, prov
  <2> QED BY <2>1, <2>2, <2>3, <2>4 DEF Next
<1> QED BY <1>2, <1>4, <1>5, <1>6

LEMMA PromptedLateKept ==
  ASSUME Typed, QueueInv, PromptedLate, [Next]_vars
  PROVE  PromptedLate'
<1>1. RowMoves
  BY RowsMove
<1>2. Starting => drv.active \in Messages /\ row[drv.active] \in Late
  BY DEF QueueInv, TurnUntaken, Dispatched, Starting, Late, Typed, DrvTyped
<1>3. \A m \in Prompted' : m \in Messages /\ row[m] \in Late
  BY <1>2, PromptedGrows DEF PromptedLate
<1> QED BY <1>1, <1>3 DEF PromptedLate, RowMoves

\* An edit counts, and so does what loses a controller; the rest of a step that is not
\* named here leaves the counters and the controller as they are.
LEMMA CountsMove ==
  ASSUME [Next]_vars
  PROVE  \/ UNCHANGED <<edits, deaths, detaches, life, resume>>
         \/ edits' = edits + 1 /\ UNCHANGED <<deaths, detaches, life, resume>>
         \/ deaths' = deaths + 1 /\ UNCHANGED <<edits, detaches>>
         \/ detaches' = detaches + 1 /\ UNCHANGED <<edits, deaths>>
         \/ UNCHANGED <<edits, deaths, detaches>> /\ (life # "up" \/ resume)
<1>1. CASE UNCHANGED vars \/ Dispatch
  BY <1>1 DEF vars, Dispatch, DispatchSend, DispatchBind, DispatchStart, ctl, used
<1>2. CASE Steer
  BY <1>2 DEF Steer, AwaitAcked, AwaitTimeout, Reserve, SteerAnswer, SteerUncertain, SteerRecord,
              SteerRefuse, ctl, prov, used
<1>3. CASE Clients
  <2>1. ASSUME NEW m \in Messages, Send(m) \/ SteerOrSend(m) \/ PromoteQueued(m)
        PROVE  UNCHANGED <<edits, deaths, detaches, life, resume>>
    BY <2>1 DEF Send, SteerOrSend, PromoteQueued, ctl, used
  <2>2. ASSUME NEW m \in Messages, NEW n \in Messages, CancelQueued(m) \/ Reorder(m, n)
        PROVE  edits' = edits + 1 /\ UNCHANGED <<deaths, detaches, life, resume>>
    BY <2>2 DEF CancelQueued, Reorder, Edit, ctl
  <2> QED BY <1>3, <2>1, <2>2 DEF Clients
<1>4. CASE Driver
  BY <1>4 DEF Driver, EmitStarted, Prompt, AgentFinish, EmitCompleted, DriverIdle, ctl, used
<1>5. CASE Projector
  BY <1>5 DEF Projector, ProjectStarted, ProjectCompleted, ResumeQueue, used
<1>6. CASE \E s \in Stops : Interrupt(s)
  <2>1. PICK s \in Stops : Interrupt(s)
    BY <1>6
  <2>2. UNCHANGED <<edits, deaths, detaches, life, resume>>
    BY <2>1 DEF Interrupt, StopBegin, StopAwait, StopCancel, StopReconcile, ctl, used
  <2> QED BY <2>2
<1>7. CASE Detach \/ ProviderDies \/ StreamEnds \/ Crash \/ Restart
  BY <1>7 DEF Detach, ProviderDies, StreamEnds, Crash, Restart, StartLive, StartFresh, used
<1> QED BY <1>1, <1>2, <1>3, <1>4, <1>5, <1>6, <1>7 DEF Next

LEMMA CalmKept ==
  ASSUME Counted, Calm, [Next]_vars
  PROVE  /\ Counted' /\ Calm'
         /\ edits' = 0 => edits = 0
         /\ deaths' = 0 => deaths = 0
         /\ detaches' = 0 => detaches = 0
BY CountsMove DEF Counted, Calm

\* What an undisturbed step is.
LEMMA UndisturbedStep ==
  ASSUME Counted, Calm, Next, edits' = 0, deaths' = 0, detaches' = 0
  PROVE  \/ \E m \in Messages : Send(m) \/ SteerOrSend(m) \/ PromoteQueued(m)
         \/ Dispatch \/ Steer \/ Driver \/ ProjectStarted \/ ProjectCompleted
         \/ \E s \in Stops : Interrupt(s)
<1>1. edits = 0 /\ deaths = 0 /\ detaches = 0 /\ life = "up" /\ ~resume
  BY CalmKept DEF Calm
<1>2. ~(\E m \in Messages : CancelQueued(m)) /\ ~(\E m, n \in Messages : Reorder(m, n))
  BY <1>1 DEF CancelQueued, Reorder, Edit
<1>3. ~Detach /\ ~ProviderDies /\ ~Crash
  BY <1>1 DEF Detach, ProviderDies, Crash
<1>4. ~StreamEnds /\ ~Restart /\ ~ResumeQueue
  BY <1>1 DEF StreamEnds, Restart, StartLive, StartFresh, ResumeQueue
<1> QED BY <1>2, <1>3, <1>4 DEF Next, Clients, Projector

\* What a drain could not withdraw is not forgotten.
LEMMA UnsweptGrows ==
  ASSUME [Next]_vars
  PROVE  unswept \subseteq unswept'
<1>1. CASE UNCHANGED vars \/ Clients \/ Dispatch \/ Steer \/ Driver
  BY <1>1 DEF vars, Clients, Send, SteerOrSend, PromoteQueued, CancelQueued, Reorder,
              Dispatch, DispatchSend, DispatchBind, DispatchStart, Steer, AwaitAcked, AwaitTimeout,
              Reserve, SteerAnswer, SteerUncertain, SteerRecord, SteerRefuse,
              Driver, EmitStarted, Prompt, AgentFinish, EmitCompleted, DriverIdle, used
<1>2. ASSUME NEW r, NEW p, NEW cut, NEW allow, Drain(r, p, cut, allow)
      PROVE  unswept \subseteq unswept'
  BY <1>2 DEF Drain
<1>3. CASE Projector
  BY <1>2, <1>3 DEF Projector, ProjectStarted, ProjectCompleted, ResumeQueue, used
<1>4. CASE \E s \in Stops : Interrupt(s)
  <2>1. UNCHANGED unswept \/ \E t, cut : Reconcile(t, cut)
    BY <1>4 DEF Interrupt, StopBegin, StopAwait, StopCancel, StopReconcile, ReconcileFails, used
  <2> QED BY <1>2, <2>1 DEF Reconcile
<1>5. CASE Detach \/ ProviderDies \/ StreamEnds \/ Crash \/ Restart
  BY <1>5 DEF Detach, ProviderDies, StreamEnds, Crash, Restart, StartLive, StartFresh, used
<1> QED BY <1>1, <1>3, <1>4, <1>5 DEF Next

\* A drain without a pending turn withdraws what its cutoff covers, unless that fails.
LEMMA DrainWithdraws ==
  ASSUME NEW r \in [Messages -> States], NEW cut \in Nat, NEW allow,
         Drain(r, None, cut, allow), NEW q \in Messages, \E i \in 1..cut : order[i] = q
  PROVE  row'[q] # "queued" \/ q \in unswept'
<1> DEFINE kept == [m \in Messages |->
                     IF r[m] = "queued" /\ m \in Before(cut) THEN "interrupted" ELSE r[m]]
<1>1. q \in Before(cut)
  BY DEF Before
<1>2. kept[q] # "queued"
  BY <1>1
<1>3. row' = kept \/ (row' = r /\ unswept' = unswept \cup {m \in Messages : kept[m] # r[m]})
  BY DEF Drain
<1> HIDE DEF kept
<1> QED BY <1>2, <1>3

\* A Stop that finds a turn covers the queue of that moment.
LEMMA BrakeBegins ==
  ASSUME Typed, QueueInv, BrakeInv, NEW s \in Stops, StopBegin(s), Braking(s)'
  PROVE  BrakeOf(s)'
<1>1. Len(order) \in Nat /\ stop \in [Stops -> StopCalls] /\ call.pc = "free"
  BY SendingIs DEF Typed, RowsTyped, BrakeInv, StopsKnown, StopBegin, Enter
<1>2. pending # None
  <2>1. /\ [NoStop EXCEPT !.pc = "done", !.queue = Queued(row)].turn = None
        /\ [stop[s] EXCEPT !.pc = "failed"].pc = "failed"
    BY <1>1 DEF NoStop, StopCalls
  <2>2. SUFFICES ASSUME pending = None PROVE FALSE
    OBVIOUS
  <2>3. \/ stop' = [stop EXCEPT ![s] = [NoStop EXCEPT !.pc = "done", !.queue = Queued(row)]]
        \/ stop' = [stop EXCEPT ![s].pc = "failed"]
    BY <2>2 DEF StopBegin
  <2>4. \/ stop'[s] = [NoStop EXCEPT !.pc = "done", !.queue = Queued(row)]
        \/ stop'[s] = [stop[s] EXCEPT !.pc = "failed"]
    BY <1>1, <2>3
  <2> QED BY <2>1, <2>4 DEF Braking
<1>3. /\ cutoff' = Len(order) /\ UNCHANGED <<row, order, call, drv, agent>>
      /\ stop'[s].cut = Len(order) /\ stop'[s].queue = Queued(row)
  BY <1>1, <1>2 DEF StopBegin
<1>4. Prompted' = Prompted
  BY <1>3 DEF Prompted
<1>5. ASSUME NEW q \in Queued(row) PROVE Stopped(q)' /\ \E i \in 1..Len(order) : order[i] = q
  <2>1. q \in Messages /\ row[q] = "queued" /\ q \notin Prompted
    BY StatesDiffer DEF Queued, BrakeInv, PromptedLate
  <2>2. Starting => drv.active # q
    BY <2>1, StatesDiffer DEF QueueInv, TurnUntaken, Dispatched, Late
  <2>3. \E i \in 1..Len(order) : order[i] = q
    BY <2>1 DEF BrakeInv, Placed
  <2> QED BY <1>1, <1>3, <1>4, <2>1, <2>2, <2>3 DEF Stopped, Starting
<1> QED BY <1>1, <1>3, <1>5 DEF BrakeOf

LEMMA ReconcileWithdraws ==
  ASSUME Typed, NEW t, t # None, pending = t, NEW cut \in Nat, Reconcile(t, cut),
         NEW q \in Messages, \E i \in 1..cut : order[i] = q
  PROVE  row'[q] # "queued" \/ q \in unswept'
<1> DEFINE r == Closed(Visible(t))
<1>1. r \in [Messages -> States]
  BY DEF Closed, Typed, RowsTyped, States, Ends
<1>2. t \in Visible(t)
  BY DEF Visible
<1>3. Drain(r, None, cut, TRUE)
  BY <1>2 DEF Reconcile
<1> HIDE DEF r
<1> QED BY <1>1, <1>3, DrainWithdraws

\* Either nothing was drained, or what the cutoff covered is withdrawn or is known not to be.
LEMMA DrainBrakes ==
  ASSUME Typed, QueueInv, BrakeInv, NEW s \in Stops, Braking(s), BrakeOf(s),
         ProjectCompleted \/ StopReconcile(s), RowMoves, unswept \subseteq unswept',
         NEW q \in stop[s].queue \ unswept', row'[q] = "queued"
  PROVE  UNCHANGED <<call, cutoff>>
<1>1. /\ stop[s].cut \in Nat /\ q \in Messages /\ row[q] # "none"
      /\ \E i \in 1..stop[s].cut : order[i] = q
      /\ cutoff = stop[s].cut \/ row[q] # "queued"
  BY DEF BrakeInv, StopsKnown, StopCalls, BrakeOf, Stopped, Queued
<1>2. row[q] = "queued" /\ cutoff = stop[s].cut
  BY <1>1 DEF RowMoves
<1>3. CASE ProjectCompleted
  <2> DEFINE t == Head(events).turn
             r == [row EXCEPT ![t] = Head(events).out]
  <2>1. CASE pending = t
    <3>1. t \in Messages /\ Head(events).out \in Ends
      BY <1>3, TailEvents DEF ProjectCompleted
    <3>2. r \in [Messages -> States]
      BY <3>1 DEF Typed, RowsTyped, States
    <3>3. Drain(r, None, cutoff, Head(events).out = "completed")
      BY <1>3, <2>1 DEF ProjectCompleted
    <3> HIDE DEF r
    <3> QED BY <1>1, <1>2, <3>2, <3>3, DrainWithdraws
  <2>2. CASE pending # t
    BY <1>3, <2>2, CompletedDoes
  <2> QED BY <2>1, <2>2
<1>4. CASE StopReconcile(s)
  <2>1. CASE pending = stop[s].turn /\ ~ReconcileFails(stop[s].turn)
    <3>1. Reconcile(stop[s].turn, stop[s].cut) /\ stop[s].turn # None
      BY <1>4, <2>1 DEF StopReconcile, Braking
    <3> QED BY <1>1, <2>1, <3>1, ReconcileWithdraws
  <2>2. CASE pending # stop[s].turn
    BY <1>4, <2>2 DEF StopReconcile
  <2>3. CASE ReconcileFails(stop[s].turn)
    BY <1>4, <2>3 DEF StopReconcile, ReconcileFails
  <2> QED BY <2>1, <2>2, <2>3
<1> QED BY <1>3, <1>4

\* Who a call dispatches: who it was about, a new message, or one that a drain found.
LEMMA CallSends ==
  ASSUME Typed, QueueInv, NEW s \in Stops, call'.pc \in {"send", "bind", "start"},
         \/ UNCHANGED vars \/ \E m \in Messages : Send(m) \/ SteerOrSend(m) \/ PromoteQueued(m)
         \/ Dispatch \/ Steer \/ Driver \/ ProjectStarted \/ ProjectCompleted
         \/ StopAwait(s) \/ StopCancel(s) \/ StopReconcile(s)
  PROVE  \/ call.pc \in {"send", "bind", "start"} /\ call'.msg = call.msg
         \/ row[call'.msg] = "none"
         \/ /\ ProjectCompleted \/ StopReconcile(s)
            /\ call.pc = "free" /\ row'[call'.msg] = "queued"
<1>1. Free.pc = "free" /\ call \in Calls
  BY SendingIs DEF Typed, CallTyped
<1>2. CASE UNCHANGED call
  BY <1>2
<1>3. ASSUME NEW m \in Messages, Send(m) \/ SteerOrSend(m) \/ PromoteQueued(m)
      PROVE  row[m] = "none" /\ call'.msg = m
  <2>1. \/ call' = Free \/ call' = [pc |-> "await", msg |-> m, turn |-> pending]
        \/ row[m] = "none" /\ call' = Sending(m)
    BY <1>3 DEF Send, SteerOrSend, PromoteQueued, Await, Sending
  <2> QED BY <1>1, <2>1, SendingIs
<1>4. CASE Dispatch
  BY <1>1, <1>4 DEF Dispatch, DispatchSend, DispatchBind, DispatchFails, DispatchStart, Calls
<1>5. CASE Steer
  <2>1. CASE SteerRefuse
    <3>1. call.pc = "refuse" /\ call.msg \in Messages /\ row[call.msg] \in {"none", "queued"}
      BY <2>1 DEF SteerRefuse, Typed, CallTyped, QueueInv, CallUntaken
    <3>2. row[call.msg] = "none" /\ call' = [call EXCEPT !.pc = "send"]
      BY <1>1, <2>1, <3>1 DEF SteerRefuse, Promotes
    <3> QED BY <1>1, <3>2 DEF Calls
  <2>2. CASE ~SteerRefuse
    <3>1. \/ UNCHANGED call \/ call' = Free
          \/ \E p \in {"steer", "record", "refuse"} : call' = [call EXCEPT !.pc = p]
      BY <1>5, <2>2 DEF Steer, AwaitAcked, AwaitTimeout, Reserve, SteerAnswer, SteerUncertain,
                        SteerRecord
    <3> QED BY <1>1, <1>2, <3>1 DEF Calls
  <2> QED BY <2>1, <2>2
<1>6. CASE ProjectCompleted
  <2>1. call.pc = "free"
    BY <1>1, <1>6 DEF ProjectCompleted
  <2>2. call' = Free \/ \E m \in Messages : call' = Sending(m) /\ row'[m] = "queued"
    BY <1>6, CompletedDoes
  <2> QED BY <1>1, <1>6, <2>1, <2>2, SendingIs
<1>7. CASE StopReconcile(s)
  <2>1. call.pc = "free"
    BY <1>1, <1>7 DEF StopReconcile
  <2>2. UNCHANGED call \/ Reconciles
    BY <1>7 DEF StopReconcile, Reconciles
  <2>3. UNCHANGED call \/ call' = Free \/ \E m \in Messages : call' = Sending(m) /\ row'[m] = "queued"
    BY <2>2, ReconcileDoes
  <2> QED BY <1>1, <1>2, <1>7, <2>1, <2>3, SendingIs
<1>8. CASE UNCHANGED vars \/ Driver \/ ProjectStarted \/ StopAwait(s) \/ StopCancel(s)
  BY <1>2, <1>8 DEF vars, Driver, EmitStarted, Prompt, AgentFinish, EmitCompleted, DriverIdle,
                    ProjectStarted, StopAwait, StopCancel
<1> QED BY <1>3, <1>4, <1>5, <1>6, <1>7, <1>8

\* Only the start of a turn makes the driver start one.
LEMMA DriverStarts ==
  ASSUME Typed, NEW s \in Stops,
         \/ UNCHANGED vars \/ \E m \in Messages : Send(m) \/ SteerOrSend(m) \/ PromoteQueued(m)
         \/ Dispatch \/ Steer \/ Driver \/ ProjectStarted \/ ProjectCompleted
         \/ StopAwait(s) \/ StopCancel(s) \/ StopReconcile(s)
  PROVE  Starting' => \/ Starting /\ drv'.active = drv.active
                      \/ call.pc = "start" /\ drv'.active = call.msg
<1>1. drv \in Drivers
  BY DEF Typed, DrvTyped
<1>2. CASE UNCHANGED drv
  BY <1>2 DEF Starting
<1>3. CASE Dispatch
  BY <1>1, <1>3 DEF Dispatch, DispatchSend, DispatchBind, DispatchStart, Drivers, Starting
<1>4. CASE Driver
  BY <1>1, <1>4 DEF Driver, EmitStarted, Prompt, AgentFinish, EmitCompleted, DriverIdle, NoDriver,
                    Drivers, Starting
<1>5. CASE StopCancel(s)
  <2>1. UNCHANGED drv \/ drv' = [drv EXCEPT !.cancel = TRUE]
    BY <1>5 DEF StopCancel
  <2> QED BY <1>1, <2>1 DEF Drivers, Starting
<1>6. CASE \/ UNCHANGED vars \/ \E m \in Messages : Send(m) \/ SteerOrSend(m) \/ PromoteQueued(m)
           \/ Steer \/ ProjectStarted \/ ProjectCompleted \/ StopAwait(s) \/ StopReconcile(s)
  BY <1>2, <1>6 DEF vars, Send, SteerOrSend, PromoteQueued, Steer, AwaitAcked, AwaitTimeout,
                Reserve, SteerAnswer, SteerUncertain, SteerRecord, SteerRefuse, ProjectStarted,
                ProjectCompleted, StopAwait, StopReconcile, prov
<1> QED BY <1>3, <1>4, <1>5, <1>6

LEMMA BrakeStays ==
  ASSUME Typed, QueueInv, BrakeInv, [Next]_vars, edits' = 0, NEW s \in Stops,
         Braking(s), BrakeOf(s), Braking(s)',
         \/ UNCHANGED vars \/ \E m \in Messages : Send(m) \/ SteerOrSend(m) \/ PromoteQueued(m)
         \/ Dispatch \/ Steer \/ Driver \/ ProjectStarted \/ ProjectCompleted
         \/ StopAwait(s) \/ StopCancel(s) \/ StopReconcile(s)
  PROVE  BrakeOf(s)'
<1>1. /\ stop[s].cut \in Nat /\ stop[s].cut <= Len(order) /\ stop[s].queue \subseteq Messages
      /\ order \in Seq(Messages) /\ Len(order) \in Nat
      /\ \A q \in stop[s].queue : \E i \in 1..stop[s].cut : order[i] = q
      /\ \A q \in stop[s].queue \ unswept : Stopped(q)
  BY DEF BrakeInv, StopsKnown, StopCalls, BrakeOf, Typed, RowsTyped
<1>2. stop'[s].cut = stop[s].cut /\ stop'[s].queue = stop[s].queue
  <2>1. UNCHANGED stop \/ \E p \in {"cancel", "done", "refused", "failed"} : stop' = [stop EXCEPT ![s].pc = p]
    <3>1. CASE \/ UNCHANGED vars \/ \E m \in Messages : Send(m) \/ SteerOrSend(m) \/ PromoteQueued(m)
               \/ Dispatch \/ Steer \/ Driver \/ ProjectStarted \/ ProjectCompleted
      BY <3>1 DEF vars, Send, SteerOrSend, PromoteQueued, Dispatch, DispatchSend, DispatchBind,
                  DispatchStart, Steer, AwaitAcked, AwaitTimeout, Reserve, SteerAnswer,
                  SteerUncertain, SteerRecord, SteerRefuse, Driver, EmitStarted, Prompt, AgentFinish,
                  EmitCompleted, DriverIdle, ProjectStarted, ProjectCompleted
    <3>2. CASE StopAwait(s) \/ StopCancel(s) \/ StopReconcile(s)
      BY <3>2 DEF StopAwait, StopCancel, StopReconcile
    <3> QED BY <3>1, <3>2
  <2>2. stop \in [Stops -> StopCalls]
    BY DEF BrakeInv, StopsKnown
  <2> QED BY <2>1, <2>2 DEF StopCalls
<1>3. RowMoves
  BY RowsMove
<1>4. Len(order) <= Len(order') /\ \A i \in 1..Len(order) : order'[i] = order[i]
  <2>1. ~(edits' = edits + 1)
    BY DEF BrakeInv, Counted
  <2>2. UNCHANGED order \/ \E m \in Messages : order' = Append(order, m)
    BY <2>1, OrderMove DEF OrderMoves
  <2> QED BY <1>1, <2>2, AppendProperties
<1>5. \A q \in stop[s].queue : \E i \in 1..stop[s].cut : order'[i] = q
  <2>1. \A i \in 1..stop[s].cut : i \in 1..Len(order)
    BY <1>1
  <2> QED BY <1>1, <1>4, <2>1
<1>12. unswept \subseteq unswept'
  BY UnsweptGrows
<1>6. \/ UNCHANGED cutoff
      \/ \A q \in stop[s].queue \ unswept' : row'[q] # "queued"
  <2>1. CASE ProjectCompleted \/ StopReconcile(s)
    BY <1>3, <1>12, <2>1, DrainBrakes
  <2>2. CASE StopCancel(s)
    <3>1. stop'[s].pc # "failed"
      BY DEF Braking
    <3>2. stop' = [stop EXCEPT ![s].pc = "failed"] => stop'[s].pc = "failed"
      BY DEF BrakeInv, StopsKnown, StopCalls
    <3> QED BY <2>2, <3>1, <3>2 DEF StopCancel
  <2>3. CASE \/ UNCHANGED vars \/ \E m \in Messages : Send(m) \/ SteerOrSend(m) \/ PromoteQueued(m)
             \/ Dispatch \/ Steer \/ Driver \/ ProjectStarted \/ StopAwait(s)
    BY <2>3 DEF vars, Send, SteerOrSend, PromoteQueued, Dispatch, DispatchSend, DispatchBind,
                DispatchStart, Steer, AwaitAcked, AwaitTimeout, Reserve, SteerAnswer,
                SteerUncertain, SteerRecord, SteerRefuse, Driver, EmitStarted, Prompt, AgentFinish,
                EmitCompleted, DriverIdle, ProjectStarted, StopAwait, ctl
  <2> QED BY <2>1, <2>2, <2>3
<1>7. ASSUME NEW q \in stop[s].queue \ unswept' PROVE Stopped(q)'
  <2>1. /\ q \in Messages /\ q \notin Prompted /\ row[q] \notin {"none", "running"}
        /\ call.pc \in {"send", "bind", "start"} => call.msg # q
        /\ Starting => drv.active # q
    BY <1>1, <1>12 DEF Stopped
  <2>2. q \notin Prompted'
    BY <2>1, PromptedGrows
  <2>3. row'[q] \notin {"none", "running"}
    BY <1>3, <2>1 DEF RowMoves
  <2>4. ASSUME call'.pc \in {"send", "bind", "start"}, call'.msg = q PROVE FALSE
    <3>1. /\ ProjectCompleted \/ StopReconcile(s)
          /\ call.pc = "free" /\ row'[q] = "queued"
      BY <2>1, <2>4, CallSends
    <3>2. UNCHANGED call
      BY <1>3, <1>12, <3>1, DrainBrakes
    <3> QED BY <2>4, <3>1, <3>2
  <2>5. Starting' => drv'.active # q
    BY <2>1, DriverStarts
  <2> QED BY <2>2, <2>3, <2>4, <2>5 DEF Stopped
<1>8. cutoff' = stop[s].cut \/ stop[s].queue \cap Queued(row') \subseteq unswept'
  <2>1. cutoff = stop[s].cut \/ stop[s].queue \cap Queued(row) \subseteq unswept
    BY DEF BrakeOf
  <2>2. \A q \in stop[s].queue \ unswept' : row[q] # "queued" => row'[q] # "queued"
    BY <1>1, <1>3, <1>12 DEF RowMoves, Stopped
  <2> QED BY <1>1, <1>6, <1>12, <2>1, <2>2 DEF Queued
<1>9. stop[s].cut <= Len(order')
  <2>1. Len(order') \in Nat
    BY LenProperties, TypedStep DEF Typed, RowsTyped
  <2> QED BY <1>1, <1>4, <2>1
<1> QED BY <1>2, <1>5, <1>7, <1>8, <1>9 DEF BrakeOf

LEMMA BrakeInit == Init => BrakeInv
<1> SUFFICES ASSUME Init PROVE BrakeInv
  OBVIOUS
<1>1. Placed /\ StopsKnown
  BY OwnedInit DEF OwnedInv
<1>2. Prompted = {}
  <2>1. agent = <<>> /\ Len(agent) = 0
    BY DEF Init
  <2> QED BY <2>1 DEF Prompted
<1>3. \A s \in Stops : stop[s].pc = "idle"
  BY DEF Init, NoStop
<1> QED BY <1>1, <1>2, <1>3 DEF Init, BrakeInv, Counted, Calm, PromptedLate, BrakeOf, Braking

LEMMA BrakeStep ==
  ASSUME Typed, QueueInv, BrakeInv, [Next]_vars
  PROVE  BrakeInv'
<1>1. Placed' /\ StopsKnown' /\ PromptedLate' /\ Counted' /\ Calm'
  BY PlacedStep, StopsKept, PromptedLateKept, CalmKept DEF BrakeInv
<1>2. ASSUME edits' = 0, Undisturbed', NEW s \in Stops PROVE BrakeOf(s)'
  <2>1. edits = 0 /\ deaths = 0 /\ detaches = 0 /\ deaths' = 0 /\ detaches' = 0
    BY <1>2, CalmKept DEF BrakeInv, Undisturbed
  <2>2. SUFFICES ASSUME Braking(s)' PROVE BrakeOf(s)'
    BY DEF BrakeOf
  <2>3. stop \in [Stops -> StopCalls] /\ stop'[s].pc # "idle"
    BY <2>2 DEF BrakeInv, StopsKnown, Braking
  <2>4. CASE \E t \in Stops : Interrupt(t)
    <3>1. PICK t \in Stops : Interrupt(t)
      BY <2>4
    <3>2. stop'[t].pc # "idle" /\ \A u \in Stops \ {t} : stop'[u] = stop[u]
      <4>1. CASE StopBegin(t)
        <5>1. [NoStop EXCEPT !.pc = "done", !.queue = Queued(row)].pc = "done"
          BY DEF NoStop
        <5> DEFINE a == [pc |-> "await", turn |-> pending, cut |-> Len(order), queue |-> Queued(row)]
                   d == [NoStop EXCEPT !.pc = "done", !.queue = Queued(row)]
                   e == [stop[t] EXCEPT !.pc = "failed"]
        <5>2. a.pc = "await" /\ e.pc = "failed"
          BY <2>3 DEF StopCalls
        <5>3. \E c \in {a, d, e} : stop' = [stop EXCEPT ![t] = c]
          BY <4>1 DEF StopBegin
        <5> HIDE DEF a, d, e
        <5> QED BY <2>3, <5>1, <5>2, <5>3 DEF d
      <4>2. CASE StopAwait(t) \/ StopCancel(t) \/ StopReconcile(t)
        <5>1. \E p \in {"cancel", "done", "refused", "failed"} : stop' = [stop EXCEPT ![t].pc = p]
          BY <4>2 DEF StopAwait, StopCancel, StopReconcile
        <5> QED BY <2>3, <5>1 DEF StopCalls
      <4> QED BY <3>1, <4>1, <4>2 DEF Interrupt
    <3>3. t = s
      BY <1>2, <2>3, <3>2 DEF Undisturbed
    <3>4. \A u \in Stops \ {s} : stop[u].pc = "idle"
      BY <1>2, <2>3, <3>2, <3>3 DEF Undisturbed
    <3>5. BrakeOf(s)
      BY <2>1, <3>4 DEF BrakeInv, Undisturbed
    <3>6. CASE StopBegin(s)
      BY <2>2, <3>6, BrakeBegins
    <3>7. CASE StopAwait(s) \/ StopCancel(s) \/ StopReconcile(s)
      <4>1. Braking(s)
        <5>1. stop'[s].turn = stop[s].turn
          BY <2>3, <3>7 DEF StopAwait, StopCancel, StopReconcile, StopCalls
        <5>2. stop[s].pc \in {"await", "cancel", "refused"}
          BY <3>7 DEF StopAwait, StopCancel, StopReconcile
        <5> QED BY <2>2, <5>1, <5>2 DEF Braking
      <4> QED BY <1>2, <2>2, <3>5, <3>7, <4>1, BrakeStays
    <3> QED BY <3>1, <3>3, <3>6, <3>7 DEF Interrupt
  <2>5. CASE ~\E t \in Stops : Interrupt(t)
    <3>1. \/ UNCHANGED vars \/ \E m \in Messages : Send(m) \/ SteerOrSend(m) \/ PromoteQueued(m)
          \/ Dispatch \/ Steer \/ Driver \/ ProjectStarted \/ ProjectCompleted
      BY <1>2, <2>1, <2>5, UndisturbedStep DEF BrakeInv
    <3>2. UNCHANGED stop
      BY <3>1 DEF vars, Send, SteerOrSend, PromoteQueued, Dispatch, DispatchSend, DispatchBind,
                  DispatchStart, Steer, AwaitAcked, AwaitTimeout, Reserve, SteerAnswer,
                  SteerUncertain, SteerRecord, SteerRefuse, Driver, EmitStarted, Prompt, AgentFinish,
                  EmitCompleted, DriverIdle, ProjectStarted, ProjectCompleted
    <3>3. Braking(s) /\ Undisturbed
      BY <1>2, <2>1, <2>2, <3>2 DEF Braking, Undisturbed
    <3>4. BrakeOf(s)
      BY <2>1, <3>3 DEF BrakeInv
    <3> QED BY <1>2, <2>2, <3>1, <3>3, <3>4, BrakeStays
  <2> QED BY <2>4, <2>5
<1> QED BY <1>1, <1>2 DEF BrakeInv

\* Stop is a brake for a controller that is not lost: what was queued when it was pressed
\* neither waits nor was prompted once the cutoff it published is spent, on whichever of its
\* paths: cancelled, overtaken by another turn or refused by a driver that had ended, and
\* whatever else fails.  The exception is stated, not assumed away: the rows of a drain whose
\* own withdrawal failed, which the code leaves queued (BrakeHolds is refuted).  A second
\* Stop, or a restart, may undo the brake, and an edit moves the rows the cutoff is read
\* against.  Interrupt, drainLocked and reconcileDurableTurnsLocked.
THEOREM StopBrakesAlways == Spec => [](Undisturbed => StopBrakes)
<1>1. Typed /\ BrakeInv => (Undisturbed => StopBrakes)
  <2>1. SUFFICES ASSUME Typed, BrakeInv, Undisturbed, NEW s \in Stops, edits = 0,
                        stop[s].pc = "done", stop[s].turn # None, cutoff = 0
                 PROVE  stop[s].queue \cap (Prompted \cup Queued(row)) \subseteq unswept
    BY DEF StopBrakes, PastStop
  <2>2. BrakeOf(s) /\ Braking(s)
    BY <2>1 DEF BrakeInv, Braking
  <2>3. /\ \A q \in stop[s].queue : \E i \in 1..stop[s].cut : order[i] = q
        /\ \A q \in stop[s].queue \ unswept : q \notin Prompted
    BY <2>2 DEF BrakeOf, Stopped
  <2>4. stop[s].queue \cap Queued(row) \subseteq unswept
    <3>1. CASE stop[s].cut = 0
      BY <2>3, <3>1
    <3>2. CASE stop[s].cut # 0
      BY <2>1, <2>2, <3>2 DEF BrakeOf
    <3> QED BY <3>1, <3>2
  <2> QED BY <2>3, <2>4
<1>2. Init => Typed /\ QueueInv /\ BrakeInv
  BY TypedInit, QueueInit, BrakeInit
<1>3. Typed /\ QueueInv /\ BrakeInv /\ [Next]_vars => (Typed /\ QueueInv /\ BrakeInv)'
  BY TypedStep, QueueStep, BrakeStep
<1> QED BY <1>1, <1>2, <1>3, PTL DEF Spec

=============================================================================

---------------------------- MODULE OutboxProofs ----------------------------
(***************************************************************************)
(* What becomes of a held-back message, for any messages, handoffs,        *)
(* crashes and failures.  A row is acknowledged in a step of its own, long *)
(* after the delivery: HandedOver says what the delivery had achieved by   *)
(* then, and Unsent why a retry cannot meet the call that sent the message.*)
(***************************************************************************)
EXTENDS Outbox, SequenceTheorems, WellFoundedInduction, TLAPS

Jobs  == [pc: {"none", "wait", "send", "queue", "direct", "mark"},
          of: Transitions \cup {NoTransition}, todo: SUBSET Nat]
Calls == [pc: {"idle", "direct", "queue", "accepted", "refused"},
          of: Transitions \cup {NoTransition}]
Got   == [msg: Messages, mode: Modes, by: {"send", "outbox"}]

\* The types that the argument rests on: a delivery at work has a row at hand, and
\* whoever is about to queue has a transition to queue for.
Typed ==
  /\ mode \in Modes /\ outbox \in Seq(Entries) /\ received \in Seq(Got)
  /\ sender \in [Messages -> Calls] /\ job \in Jobs
  /\ job.todo \subseteq 1..Len(outbox)
  /\ job.pc # "none" => job.todo # {}
  /\ job.pc = "queue" => job.of \in Transitions
  /\ \A m \in Messages : sender[m].pc = "queue" => sender[m].of \in Transitions

\* A message whose call has not returned is neither received nor in the outbox.
Unsent ==
  \A m \in Messages : sender[m].pc \in {"idle", "direct", "queue"} =>
    m \notin Received /\ \A k \in 1..Len(outbox) : outbox[k].msg # m

Passed(k) ==
  \/ outbox[k].msg \in Received
  \/ \E j \in 1..Len(outbox) : j > k /\ outbox[j].msg = outbox[k].msg /\ ~outbox[j].delivered

\* A row about to be acknowledged has been received or taken over.
HandedOver == job.pc = "mark" => Passed(Current)

OutboxInv == Unsent /\ HandedOver /\ HandedOn /\ ChatOnce

-----------------------------------------------------------------------------
(* Data.                                                                    *)

LEMMA LeastExists ==
  ASSUME NEW S \in SUBSET Nat, S # {}
  PROVE  \E x \in S : \A y \in S : x <= y
<1>1. PICK x \in S : \A y \in S : ~(<<y, x>> \in OpToRel(<, Nat))
  BY NatLessThanWellFounded, WFMin
<1>2. \A y \in S : ~(y < x)
  BY <1>1 DEF OpToRel
<1> QED BY <1>2

LEMMA CurrentAtHand ==
  ASSUME Typed, job.pc # "none"
  PROVE  Current \in job.todo /\ Current \in 1..Len(outbox)
<1>1. \E x \in job.todo : \A y \in job.todo : x <= y
  BY LeastExists DEF Typed, Jobs
<1> QED BY <1>1 DEF Current, Min, Typed

LEMMA CurrentLeast ==
  ASSUME Typed, job.pc # "none"
  PROVE  \A k \in job.todo : Current <= k
<1>1. \E x \in job.todo : \A y \in job.todo : x <= y
  BY LeastExists DEF Typed, Jobs
<1> QED BY <1>1 DEF Current, Min, Typed

LEMMA RowTyped ==
  ASSUME Typed, NEW k \in 1..Len(outbox)
  PROVE  outbox[k] \in Entries
BY ElementOfSeq DEF Typed

\* What one more message received changes.
LEMMA AppendGot ==
  ASSUME Typed, NEW g \in Got, received' = Append(received, g)
  PROVE  /\ received' \in Seq(Got) /\ Received' = Received \cup {g.msg}
         /\ Len(received') = Len(received) + 1 /\ received'[Len(received) + 1] = g
         /\ \A k \in 1..Len(received) : received'[k] = received[k]
<1>1. /\ received' \in Seq(Got) /\ Len(received') = Len(received) + 1
      /\ \A k \in 1..Len(received) : received'[k] = received[k]
      /\ received'[Len(received) + 1] = g
  BY AppendProperties DEF Typed
<1>2. Len(received) \in Nat
  BY DEF Typed
<1>3. Received' = Received \cup {g.msg}
  BY <1>1, <1>2 DEF Received
<1> QED BY <1>1, <1>3

\* What one more row changes.
LEMMA AppendRow ==
  ASSUME Typed, NEW m \in Messages, NEW t \in Transitions, Enqueue(m, t)
  PROVE  /\ outbox' \in Seq(Entries) /\ Len(outbox') = Len(outbox) + 1
         /\ \A k \in 1..Len(outbox) : outbox'[k] = outbox[k]
         /\ outbox'[Len(outbox) + 1].msg = m /\ ~outbox'[Len(outbox) + 1].delivered
         /\ Len(outbox) \in Nat
<1>1. [msg |-> m, of |-> t, delivered |-> FALSE] \in Entries
  BY DEF Entries
<1> QED BY <1>1, AppendProperties DEF Typed, Enqueue

\* What an acknowledgement changes.
LEMMA MarkRow ==
  ASSUME Typed, NEW c \in 1..Len(outbox),
         outbox' = [outbox EXCEPT ![c].delivered = TRUE]
  PROVE  /\ outbox' \in Seq(Entries) /\ Len(outbox') = Len(outbox)
         /\ \A k \in 1..Len(outbox) : outbox'[k].msg = outbox[k].msg
         /\ \A k \in 1..Len(outbox) \ {c} : outbox'[k] = outbox[k]
         /\ outbox'[c].delivered
<1> DEFINE e == [outbox[c] EXCEPT !.delivered = TRUE]
<1>1. e \in Entries /\ e.msg = outbox[c].msg /\ e.delivered
  BY RowTyped DEF Entries
<1>2. outbox' = [outbox EXCEPT ![c] = e]
  OBVIOUS
<1> QED BY <1>1, <1>2, ExceptSeq DEF Typed

-----------------------------------------------------------------------------
(* Types.                                                                   *)

LEMMA TypedInit == Init => Typed
<1> SUFFICES ASSUME Init PROVE Typed
  OBVIOUS
<1>1. <<>> \in Seq(Entries) /\ <<>> \in Seq(Got)
  BY EmptySeq
<1>2. NoJob \in Jobs /\ Idle \in Calls
  BY DEF NoJob, Idle, Jobs, Calls
<1> QED BY <1>1, <1>2 DEF Init, Typed, NoJob, Idle

LEMMA StartTyped ==
  ASSUME Typed, NEW t, StartJob(t), UNCHANGED <<mode, outbox, sender, received>>
  PROVE  Typed'
<1>1. Pending(t) \subseteq 1..Len(outbox)
  BY DEF Pending
<1>2. /\ job' \in Jobs /\ job'.todo \subseteq 1..Len(outbox)
      /\ job'.pc # "none" => job'.todo # {}
      /\ job'.pc # "queue"
  BY <1>1 DEF StartJob, NoJob, Jobs
<1> QED BY <1>2 DEF Typed

\* A job that goes on, with the rows it has left, or ends.
LEMMA JobGoesOn ==
  ASSUME Typed, Len(outbox) <= Len(outbox'), outbox' \in Seq(Entries), received' \in Seq(Got),
         UNCHANGED <<mode, sender>>,
         \/ job' = NoJob
         \/ /\ job' \in Jobs /\ job'.todo \subseteq job.todo /\ job'.todo # {}
            /\ job'.pc = "queue" => job'.of \in Transitions
  PROVE  Typed'
<1>1. Len(outbox) \in Nat /\ Len(outbox') \in Nat
  BY DEF Typed
<1>2. job'.todo \subseteq 1..Len(outbox') /\ job' \in Jobs
  BY <1>1 DEF Typed, NoJob, Jobs
<1> QED BY <1>2 DEF Typed, NoJob

LEMMA DeliverTyped ==
  ASSUME Typed, NEW m \in Messages, Deliver(m)
  PROVE  received' \in Seq(Got)
<1>1. [msg |-> m, mode |-> mode, by |-> "outbox"] \in Got
  BY DEF Got, Typed
<1> QED BY <1>1, AppendGot DEF Deliver, Typed

\* An acknowledgement goes on with the rows that are left, if there are any.
LEMMA MarkedJob ==
  ASSUME Typed, JobMark, Current \in job.todo
  PROVE  \/ job' = NoJob
         \/ /\ job' \in Jobs /\ job'.todo \subseteq job.todo /\ job'.todo # {}
            /\ job'.pc = "send"
<1>1. CASE job.todo # {Current}
  <2>1. job.todo \ {Current} # {}
    BY <1>1
  <2> DEFINE next == [job EXCEPT !.pc = "send", !.todo = @ \ {Current}]
  <2>2. job' = NoJob \/ job' = next
    BY <1>1 DEF JobMark
  <2>3. job \in Jobs
    BY DEF Typed
  <2>4. next.pc = "send" /\ next.todo = job.todo \ {Current} /\ next \in Jobs
    BY <2>3 DEF Jobs
  <2> QED BY <2>1, <2>2, <2>4
<1>2. CASE job.todo = {Current}
  BY <1>2 DEF JobMark
<1> QED BY <1>1, <1>2

LEMMA JobTyped ==
  ASSUME Typed, Job
  PROVE  Typed'
<1>1. Len(outbox) \in Nat
  BY DEF Typed
<1>2. job.pc # "none" /\ job.todo # {}
  BY DEF Job, JobReady, JobGiveUp, JobSend, JobQueue, JobDirect, JobMark, Typed
<1>3. Current \in job.todo /\ Current \in 1..Len(outbox) /\ outbox[Current].msg \in Messages
  BY <1>2, CurrentAtHand, RowTyped DEF Entries
<1>4. CASE JobReady \/ JobGiveUp \/ JobSend
  <2>1. \/ job' = NoJob
        \/ /\ job' \in Jobs /\ job'.todo \subseteq job.todo /\ job'.todo # {}
           /\ job'.pc = "queue" => job'.of \in Transitions
    BY <1>2, <1>4 DEF JobReady, JobGiveUp, JobSend, Jobs, Typed, Active
  <2>2. UNCHANGED <<mode, sender, outbox, received>>
    BY <1>4 DEF JobReady, JobGiveUp, JobSend
  <2> QED BY <1>1, <2>1, <2>2, JobGoesOn DEF Typed
<1>5. CASE JobQueue
  <2>1. job.of \in Transitions
    BY <1>5 DEF JobQueue, Typed
  <2>2. outbox' \in Seq(Entries) /\ Len(outbox) <= Len(outbox')
    BY <1>1, <1>3, <1>5, <2>1, AppendRow DEF JobQueue, Typed
  <2>3. job' = NoJob \/ (job' \in Jobs /\ job'.todo = job.todo /\ job'.pc = "mark")
    BY <1>5 DEF JobQueue, Jobs, Typed
  <2> QED BY <1>2, <1>5, <2>2, <2>3, JobGoesOn DEF JobQueue, Typed
<1>6. CASE JobDirect
  <2>1. received' \in Seq(Got)
    BY <1>3, <1>6, DeliverTyped DEF JobDirect, Typed
  <2>2. job' = NoJob \/ (job' \in Jobs /\ job'.todo = job.todo /\ job'.pc = "mark")
    BY <1>6 DEF JobDirect, Jobs, Typed
  <2> QED BY <1>1, <1>2, <1>6, <2>1, <2>2, JobGoesOn DEF JobDirect, Typed
<1>7. CASE JobMark
  <2>1. outbox' \in Seq(Entries) /\ Len(outbox') = Len(outbox)
    BY <1>3, <1>7, MarkRow DEF JobMark, Typed
  <2>2. \/ job' = NoJob
        \/ /\ job' \in Jobs /\ job'.todo \subseteq job.todo /\ job'.todo # {}
           /\ job'.pc = "send"
    BY <1>3, <1>7, MarkedJob
  <2>3. UNCHANGED <<mode, sender>> /\ received' \in Seq(Got)
    BY <1>7 DEF JobMark, Typed
  <2>4. job'.pc = "queue" => job'.of \in Transitions
    BY <2>2 DEF NoJob
  <2> QED BY <1>1, <2>1, <2>2, <2>3, <2>4, JobGoesOn
<1> QED BY <1>4, <1>5, <1>6, <1>7 DEF Job

LEMMA SendTyped ==
  ASSUME Typed, NEW m \in Messages, Send(m)
  PROVE  Typed'
<1>1. CASE SendRead(m)
  <2>1. sender' \in [Messages -> Calls]
    BY <1>1 DEF SendRead, Typed, Calls, Active
  <2>2. \A n \in Messages : sender'[n].pc = "queue" => sender'[n].of \in Transitions
    BY <1>1 DEF SendRead, Typed, Calls, Active
  <2> QED BY <1>1, <2>1, <2>2 DEF SendRead, Typed
<1>2. CASE SendQueue(m)
  <2>1. sender' \in [Messages -> Calls] /\ sender'[m].pc # "queue"
        /\ \A n \in Messages \ {m} : sender'[n] = sender[n]
    BY <1>2 DEF SendQueue, Typed, Calls
  <2>2. sender[m].of \in Transitions
    BY <1>2 DEF SendQueue, Typed
  <2>3. /\ outbox' \in Seq(Entries) /\ Len(outbox) \in Nat
        /\ Len(outbox') \in {Len(outbox), Len(outbox) + 1}
    BY <1>2, <2>2, AppendRow DEF SendQueue, Typed
  <2>4. 1..Len(outbox) \subseteq 1..Len(outbox')
    BY <2>3
  <2> QED BY <1>2, <2>1, <2>3, <2>4 DEF SendQueue, Typed
<1>3. CASE SendDirect(m)
  <2>1. sender' \in [Messages -> Calls] /\ sender'[m].pc # "queue"
        /\ \A n \in Messages \ {m} : sender'[n] = sender[n]
    BY <1>3 DEF SendDirect, Typed, Calls
  <2>2. received' \in Seq(Got)
    <3>1. [msg |-> m, mode |-> mode, by |-> "send"] \in Got
      BY DEF Got, Typed
    <3> QED BY <1>3, <3>1, AppendGot DEF SendDirect, Typed
  <2> QED BY <1>3, <2>1, <2>2 DEF SendDirect, Typed
<1> QED BY <1>1, <1>2, <1>3 DEF Send

LEMMA TypedStep == Typed /\ [Next]_vars => Typed'
<1> SUFFICES ASSUME Typed, [Next]_vars PROVE Typed'
  OBVIOUS
<1>1. CASE Handoffs
  BY <1>1 DEF Handoffs, BeginTransition, EndTransition, Typed
<1>2. CASE ScanStart
  BY <1>2 DEF ScanStart, Typed
<1>3. CASE ScanNext \/ \E t \in Transitions : SettleStart(t)
  BY <1>3, StartTyped DEF ScanNext, SettleStart
<1>4. CASE Crash
  <2>1. sender' \in [Messages -> Calls] /\ \A m \in Messages : sender'[m].pc # "queue"
    BY <1>4 DEF Crash, Typed, Calls
  <2>2. mode' \in Modes
    BY <1>4 DEF Crash, Typed
  <2> QED BY <1>4, <2>1, <2>2 DEF Crash, Typed, NoJob, Jobs
<1>5. CASE UNCHANGED vars
  BY <1>5 DEF vars, Typed
<1> QED BY <1>1, <1>2, <1>3, <1>4, <1>5, SendTyped, JobTyped DEF Next, Dispatcher

-----------------------------------------------------------------------------
(* What the rows and the agent have.                                        *)

LEMMA InvInit == Init => OutboxInv
BY DEF Init, OutboxInv, Unsent, HandedOver, HandedOn, ChatOnce, Received, NoJob

\* A step that leaves the rows, the agent and the callers alone, and acknowledges
\* nothing yet.
LEMMA InvQuiet ==
  ASSUME OutboxInv, UNCHANGED <<outbox, received>>,
         \A m \in Messages : sender'[m].pc \in {"idle", "direct", "queue"} =>
                             sender[m].pc \in {"idle", "direct", "queue"},
         job' = job \/ job'.pc # "mark"
  PROVE  OutboxInv'
<1>1. Received' = Received
  BY DEF Received
<1>2. Unsent'
  BY <1>1 DEF OutboxInv, Unsent
<1>3. HandedOver'
  BY <1>1 DEF OutboxInv, HandedOver, Passed, Current
<1>4. HandedOn'
  BY <1>1 DEF OutboxInv, HandedOn
<1>5. ChatOnce'
  BY DEF OutboxInv, ChatOnce
<1> QED BY <1>2, <1>3, <1>4, <1>5 DEF OutboxInv

\* A new row, of a message that nobody else is about to send.
LEMMA InvEnqueue ==
  ASSUME Typed, OutboxInv, NEW m \in Messages, NEW t \in Transitions, Enqueue(m, t),
         UNCHANGED received,
         \A n \in Messages : sender'[n].pc \in {"idle", "direct", "queue"} =>
                             n # m /\ sender[n].pc \in {"idle", "direct", "queue"}
  PROVE  /\ Unsent' /\ HandedOn' /\ ChatOnce'
         /\ \A k \in 1..Len(outbox) : Passed(k) => Passed(k)'
         /\ \A k \in 1..Len(outbox) : outbox[k].msg = m => Passed(k)'
<1>1. /\ Len(outbox') = Len(outbox) + 1 /\ Len(outbox) \in Nat
      /\ \A k \in 1..Len(outbox) : outbox'[k] = outbox[k]
      /\ outbox'[Len(outbox) + 1].msg = m /\ ~outbox'[Len(outbox) + 1].delivered
  BY AppendRow
<1>2. Received' = Received
  BY DEF Received
<1>3. \A k \in 1..Len(outbox') : k \in 1..Len(outbox) \/ k = Len(outbox) + 1
  BY <1>1
<1>4. \A k \in 1..Len(outbox) : k \in 1..Len(outbox') /\ Len(outbox) + 1 > k
  BY <1>1
<1>5. Len(outbox) + 1 \in 1..Len(outbox')
  BY <1>1
<1>6. Unsent'
  BY <1>1, <1>2, <1>3 DEF OutboxInv, Unsent
<1>7. \A k \in 1..Len(outbox) : Passed(k) => Passed(k)'
  BY <1>1, <1>2, <1>4 DEF Passed
<1>8. \A k \in 1..Len(outbox) : outbox[k].msg = m => Passed(k)'
  BY <1>1, <1>4, <1>5 DEF Passed
<1>9. HandedOn'
  BY <1>1, <1>3, <1>7 DEF OutboxInv, HandedOn, Passed
<1>10. ChatOnce'
  BY DEF OutboxInv, ChatOnce
<1> QED BY <1>6, <1>7, <1>8, <1>9, <1>10

\* One more message received, in Chat only if it is new there.
LEMMA InvReceive ==
  ASSUME Typed, OutboxInv, NEW g \in Got, received' = Append(received, g),
         g.mode = "chat" => g.msg \notin ChatIds, UNCHANGED outbox,
         \A n \in Messages : sender'[n].pc \in {"idle", "direct", "queue"} =>
                             n # g.msg /\ sender[n].pc \in {"idle", "direct", "queue"}
  PROVE  Unsent' /\ HandedOn' /\ ChatOnce' /\ Received' = Received \cup {g.msg}
<1>1. /\ Received' = Received \cup {g.msg} /\ Len(received') = Len(received) + 1
      /\ received'[Len(received) + 1] = g /\ Len(received) \in Nat
      /\ \A k \in 1..Len(received) : received'[k] = received[k]
  BY AppendGot DEF Typed
<1>2. Unsent'
  BY <1>1 DEF OutboxInv, Unsent
<1>3. HandedOn'
  BY <1>1 DEF OutboxInv, HandedOn
<1>4. ChatOnce'
  <2>1. \A k \in 1..Len(received') : k \in 1..Len(received) \/ k = Len(received) + 1
    BY <1>1
  <2>2. g.mode = "chat" => \A k \in 1..Len(received) :
                             received[k].mode = "chat" => received[k].msg # g.msg
    BY DEF ChatIds
  <2>3. ASSUME NEW j \in 1..Len(received'), NEW k \in 1..Len(received'),
               received'[j].mode = "chat", received'[k].mode = "chat",
               received'[j].msg = received'[k].msg
        PROVE  j = k
    <3>1. CASE j \in 1..Len(received) /\ k \in 1..Len(received)
      BY <1>1, <2>3, <3>1 DEF OutboxInv, ChatOnce
    <3>2. CASE j = Len(received) + 1 /\ k \in 1..Len(received)
      BY <1>1, <2>2, <2>3, <3>2
    <3>3. CASE k = Len(received) + 1 /\ j \in 1..Len(received)
      BY <1>1, <2>2, <2>3, <3>3
    <3> QED BY <2>1, <3>1, <3>2, <3>3
  <2> QED BY <2>3 DEF ChatOnce
<1> QED BY <1>1, <1>2, <1>3, <1>4

\* An acknowledgement of a row whose message is somewhere else.
LEMMA InvMark ==
  ASSUME Typed, OutboxInv, NEW c \in 1..Len(outbox), Passed(c),
         outbox' = [outbox EXCEPT ![c].delivered = TRUE],
         UNCHANGED <<received, sender>>, job'.pc # "mark"
  PROVE  OutboxInv'
<1>1. /\ Len(outbox') = Len(outbox) /\ Len(outbox) \in Nat
      /\ \A k \in 1..Len(outbox) : outbox'[k].msg = outbox[k].msg
      /\ \A k \in 1..Len(outbox) \ {c} : outbox'[k] = outbox[k]
  BY MarkRow DEF Typed
<1>2. Received' = Received
  BY DEF Received
<1>3. Passed(c)'
  BY <1>1, <1>2 DEF Passed
<1>4. ASSUME NEW k \in 1..Len(outbox), Passed(k) PROVE Passed(k)'
  <2>1. CASE outbox[k].msg \in Received
    BY <1>1, <1>2, <2>1 DEF Passed
  <2>2. CASE \E j \in 1..Len(outbox) : j > k /\ outbox[j].msg = outbox[k].msg /\ ~outbox[j].delivered
    <3>1. PICK j \in 1..Len(outbox) : j > k /\ outbox[j].msg = outbox[k].msg /\ ~outbox[j].delivered
      BY <2>2
    <3>2. CASE j # c
      BY <1>1, <3>1, <3>2 DEF Passed
    <3>3. CASE j = c
      BY <1>1, <1>2, <1>3, <3>1, <3>3 DEF Passed
    <3> QED BY <3>2, <3>3
  <2> QED BY <1>4, <2>1, <2>2 DEF Passed
<1>5. HandedOn'
  BY <1>1, <1>3, <1>4 DEF OutboxInv, HandedOn, Passed
<1>6. Unsent' /\ ChatOnce' /\ HandedOver'
  BY <1>1, <1>2 DEF OutboxInv, Unsent, ChatOnce, HandedOver
<1> QED BY <1>5, <1>6 DEF OutboxInv

LEMMA InvSend ==
  ASSUME Typed, OutboxInv, NEW m \in Messages, Send(m)
  PROVE  OutboxInv'
<1>1. \A n \in Messages \ {m} : sender'[n] = sender[n]
  BY DEF Send, SendRead, SendQueue, SendDirect, Typed
<1>2. job' = job /\ Current' = Current /\ sender[m].pc \in {"idle", "direct", "queue"}
  BY DEF Send, SendRead, SendQueue, SendDirect, Current
<1>3. job.pc = "mark" => Current \in 1..Len(outbox)
  BY CurrentAtHand
<1>4. CASE UNCHANGED <<outbox, received>>
  BY <1>1, <1>2, <1>4, InvQuiet
<1>5. CASE SendQueue(m) /\ Enqueue(m, sender[m].of) /\ sender'[m].pc = "accepted"
  <2>1. sender[m].of \in Transitions /\ UNCHANGED received
    BY <1>5 DEF SendQueue, Typed
  <2>2. \A n \in Messages : sender'[n].pc \in {"idle", "direct", "queue"} =>
                              n # m /\ sender[n].pc \in {"idle", "direct", "queue"}
    BY <1>1, <1>5
  <2>3. HandedOver'
    BY <1>2, <1>3, <1>5, <2>1, <2>2, InvEnqueue DEF OutboxInv, HandedOver
  <2> QED BY <1>5, <2>1, <2>2, <2>3, InvEnqueue DEF OutboxInv
<1>6. CASE SendDirect(m) /\ received' # received
  <2> DEFINE g == [msg |-> m, mode |-> mode, by |-> "send"]
  <2>1. /\ received' = Append(received, g) /\ sender'[m].pc = "accepted"
        /\ UNCHANGED outbox
    BY <1>6 DEF SendDirect, Typed, Calls
  <2>2. g \in Got /\ g.msg = m
    BY DEF Got, Typed
  <2>3. m \notin ChatIds
    BY <1>2 DEF OutboxInv, Unsent, ChatIds, Received
  <2>4. \A n \in Messages : sender'[n].pc \in {"idle", "direct", "queue"} =>
                              n # m /\ sender[n].pc \in {"idle", "direct", "queue"}
    BY <1>1, <2>1
  <2>5. Unsent' /\ HandedOn' /\ ChatOnce' /\ Received' = Received \cup {m}
    <3> HIDE DEF g
    <3> QED BY <2>1, <2>2, <2>3, <2>4, InvReceive
  <2>6. HandedOver'
    BY <1>2, <2>1, <2>5 DEF OutboxInv, HandedOver, Passed
  <2> QED BY <2>5, <2>6 DEF OutboxInv
<1>7. CASE SendQueue(m) /\ sender'[m].pc = "accepted"
  BY <1>5, <1>7, <1>4 DEF SendQueue
<1>8. CASE SendQueue(m) /\ sender'[m].pc # "accepted"
  BY <1>8, <1>4 DEF SendQueue, Typed, Calls
<1> QED BY <1>4, <1>6, <1>7, <1>8 DEF Send, SendRead, SendDirect

LEMMA InvJob ==
  ASSUME Typed, OutboxInv, Job
  PROVE  OutboxInv'
<1>1. UNCHANGED sender /\ job.pc # "none"
  BY DEF Job, JobReady, JobGiveUp, JobSend, JobQueue, JobDirect, JobMark
<1>2. Current \in 1..Len(outbox) /\ outbox[Current].msg \in Messages
  BY <1>1, CurrentAtHand, RowTyped DEF Entries
<1>3. \A n \in Messages : sender'[n].pc \in {"idle", "direct", "queue"} =>
        n # outbox[Current].msg /\ sender[n].pc \in {"idle", "direct", "queue"}
  BY <1>1, <1>2 DEF OutboxInv, Unsent
<1>4. CASE UNCHANGED <<outbox, received>> /\ job'.pc # "mark"
  BY <1>3, <1>4, InvQuiet
<1>5. CASE JobQueue /\ job' # NoJob
  <2>1. /\ Enqueue(outbox[Current].msg, job.of) /\ UNCHANGED received
        /\ job' = [job EXCEPT !.pc = "mark", !.of = NoTransition] /\ job.of \in Transitions
    BY <1>5 DEF JobQueue, Typed
  <2>2. Current' = Current
    BY <2>1 DEF Current, Typed, Jobs
  <2>3. HandedOver'
    BY <1>2, <1>3, <2>1, <2>2, InvEnqueue DEF HandedOver
  <2> QED BY <1>2, <1>3, <2>1, <2>3, InvEnqueue DEF OutboxInv
<1>6. CASE JobDirect /\ Deliver(outbox[Current].msg)
  <2> DEFINE m == outbox[Current].msg
             g == [msg |-> m, mode |-> mode, by |-> "outbox"]
  <2>1. UNCHANGED outbox /\ (job' = NoJob \/ job' = [job EXCEPT !.pc = "mark"])
    BY <1>6 DEF JobDirect
  <2>2. job'.pc = "mark" => Current' = Current
    BY <2>1 DEF Current, Typed, Jobs, NoJob
  <2>3. Unsent' /\ HandedOn' /\ ChatOnce' /\ m \in Received'
    <3>1. CASE mode = "chat" /\ m \in ChatIds
      <4>1. received' = received
        BY <1>6, <3>1 DEF Deliver
      <4>2. m \in Received /\ Received' = Received
        BY <3>1, <4>1 DEF ChatIds, Received
      <4> QED BY <1>3, <2>1, <4>1, <4>2 DEF OutboxInv, Unsent, HandedOn, ChatOnce
    <3>2. CASE ~(mode = "chat" /\ m \in ChatIds)
      <4>1. received' = Append(received, g)
        BY <1>6, <3>2 DEF Deliver
      <4>2. g \in Got /\ g.msg = m /\ (g.mode = "chat" => g.msg \notin ChatIds)
        BY <1>2, <3>2 DEF Got, Typed
      <4> HIDE DEF g
      <4> QED BY <1>3, <2>1, <4>1, <4>2, InvReceive
    <3> QED BY <3>1, <3>2
  <2>4. HandedOver'
    BY <2>1, <2>2, <2>3 DEF HandedOver, Passed
  <2> QED BY <2>3, <2>4 DEF OutboxInv
<1>7. CASE JobMark /\ outbox' = [outbox EXCEPT ![Current].delivered = TRUE]
  <2>1. UNCHANGED received /\ job.pc = "mark"
    BY <1>7 DEF JobMark
  <2>2. job'.pc # "mark"
    <3>1. Current \in job.todo
      BY <1>1, CurrentAtHand
    <3> QED BY <1>7, <3>1, MarkedJob DEF NoJob
  <2>3. Passed(Current)
    BY <2>1 DEF OutboxInv, HandedOver
  <2> QED BY <1>1, <1>2, <1>7, <2>1, <2>2, <2>3, InvMark
<1>8. CASE JobReady \/ JobGiveUp \/ JobSend
  <2>1. UNCHANGED <<outbox, received>>
    BY <1>8 DEF JobReady, JobGiveUp, JobSend
  <2>2. job'.pc # "mark"
    <3>1. JobReady => job'.pc = "send"
      BY DEF JobReady, Jobs, Typed
    <3>2. JobSend => job'.pc \in {"direct", "queue"}
      BY DEF JobSend, Jobs, Typed
    <3> QED BY <1>8, <3>1, <3>2 DEF JobGiveUp, NoJob
  <2> QED BY <1>4, <2>1, <2>2
<1>9. CASE JobQueue
  <2>1. CASE job' = NoJob
    <3>1. UNCHANGED <<outbox, received>>
      BY <1>9, <2>1 DEF JobQueue, NoJob, Typed, Jobs
    <3> QED BY <1>4, <2>1, <3>1 DEF NoJob
  <2> QED BY <1>5, <1>9, <2>1
<1>10. CASE JobDirect
  <2>1. CASE ~Deliver(outbox[Current].msg)
    <3>1. UNCHANGED <<outbox, received>> /\ job' = NoJob
      BY <1>10, <2>1 DEF JobDirect
    <3> QED BY <1>4, <3>1 DEF NoJob
  <2> QED BY <1>6, <1>10, <2>1
<1>11. CASE JobMark
  <2>1. CASE UNCHANGED outbox /\ job' = NoJob
    <3>1. UNCHANGED received
      BY <1>11 DEF JobMark
    <3> QED BY <1>4, <2>1, <3>1 DEF NoJob
  <2> QED BY <1>7, <1>11, <2>1 DEF JobMark
<1> QED BY <1>8, <1>9, <1>10, <1>11 DEF Job

LEMMA InvStep == Typed /\ OutboxInv /\ [Next]_vars => OutboxInv'
<1> SUFFICES ASSUME Typed, OutboxInv, [Next]_vars PROVE OutboxInv'
  OBVIOUS
<1>1. CASE Handoffs
  BY <1>1, InvQuiet DEF Handoffs, BeginTransition, EndTransition
<1>2. CASE Dispatcher
  BY <1>2, InvQuiet DEF Dispatcher, ScanStart, ScanNext, SettleStart, StartJob, NoJob
<1>3. CASE Crash
  <2>1. \A m \in Messages : sender'[m].pc \in {"idle", "direct", "queue"} => sender'[m] = sender[m]
    BY <1>3 DEF Crash
  <2> QED BY <1>3, <2>1, InvQuiet DEF Crash, NoJob
<1>4. CASE UNCHANGED vars
  BY <1>4, InvQuiet DEF vars
<1> QED BY <1>1, <1>2, <1>3, <1>4, InvSend, InvJob DEF Next

-----------------------------------------------------------------------------
(* The order in which the rows of one handoff are received.                 *)

\* A row that a delivery has at hand comes after those of its handoff that it has at hand
\* as well, or that are acknowledged.
InTurn ==
  \A k \in job.todo : \A j \in 1..k - 1 :
    outbox[j].of = outbox[k].of => j \in job.todo \/ outbox[j].delivered

\* The place of a message in what was received.
FirstIn(r, m) == CHOOSE k \in 1..Len(r) : r[k].msg = m /\ \A j \in 1..(k - 1) : r[j].msg # m

Ahead(j, k) ==
  /\ j < k /\ outbox[j].of = outbox[k].of /\ outbox[j].msg # outbox[k].msg
  /\ outbox[k].msg \in Received /\ ~Requeued(j) /\ ~Requeued(k)
  => /\ outbox[j].msg \in Received
     /\ FirstIn(received, outbox[j].msg) < FirstIn(received, outbox[k].msg)

LEMMA Aheads ==
  /\ QueueOrder <=> \A j, k \in 1..Len(outbox) : Ahead(j, k)
  /\ QueueOrder' <=> \A j, k \in 1..Len(outbox') : Ahead(j, k)'
BY DEF QueueOrder, Ahead, First, FirstIn

\* A message that was received has a first place,
LEMMA FirstPlace ==
  ASSUME NEW r \in Seq(Got), NEW m, NEW n \in 1..Len(r), r[n].msg = m
  PROVE  /\ FirstIn(r, m) \in 1..Len(r) /\ r[FirstIn(r, m)].msg = m
         /\ \A j \in 1..FirstIn(r, m) - 1 : r[j].msg # m
<1> DEFINE S == {k \in 1..Len(r) : r[k].msg = m}
<1>1. S \in SUBSET Nat /\ S # {}
  OBVIOUS
<1>2. PICK k \in S : \A j \in S : k <= j
  BY <1>1, LeastExists
<1>3. \A j \in 1..k - 1 : j \in 1..Len(r) /\ ~(k <= j)
  BY LenProperties
<1>4. \A j \in 1..k - 1 : r[j].msg # m
  BY <1>2, <1>3
<1>5. \E l \in 1..Len(r) : r[l].msg = m /\ \A j \in 1..(l - 1) : r[j].msg # m
  BY <1>4
<1> QED BY <1>5 DEF FirstIn

\* which it keeps, and a message that comes first now comes after all that were.
LEMMA FirstKept ==
  ASSUME Typed, NEW g \in Got, received' = Append(received, g)
  PROVE  /\ \A x \in Received : FirstIn(received', x) = FirstIn(received, x)
         /\ g.msg \notin Received => FirstIn(received', g.msg) = Len(received) + 1
<1> DEFINE r == received
           s == received'
<1>1. /\ r \in Seq(Got) /\ s \in Seq(Got) /\ Len(r) \in Nat
      /\ Len(s) = Len(r) + 1 /\ s[Len(r) + 1] = g
      /\ \A n \in 1..Len(r) : s[n] = r[n] /\ n \in 1..Len(s)
  BY AppendProperties, LenProperties DEF Typed
<1> HIDE DEF r, s
<1>2. ASSUME NEW m, NEW n \in 1..Len(r), r[n].msg = m PROVE FirstIn(s, m) = FirstIn(r, m)
  <2> DEFINE a == FirstIn(r, m)
             b == FirstIn(s, m)
  <2>1. a \in 1..Len(r) /\ r[a].msg = m /\ \A j \in 1..a - 1 : r[j].msg # m
    BY <1>1, <1>2, FirstPlace
  <2>2. b \in 1..Len(s) /\ s[b].msg = m /\ \A j \in 1..b - 1 : s[j].msg # m
    <3>1. n \in 1..Len(s) /\ s[n].msg = m
      BY <1>1, <1>2
    <3> QED BY <1>1, <3>1, FirstPlace
  <2> HIDE DEF a, b
  <2>3. ~(a < b)
    <3>1. a < b => a \in 1..b - 1
      BY <1>1, <2>1, <2>2
    <3> QED BY <1>1, <2>1, <2>2, <3>1
  <2>4. ~(b < a)
    <3>1. b < a => b \in 1..a - 1 /\ b \in 1..Len(r)
      BY <1>1, <2>1, <2>2
    <3> QED BY <1>1, <2>1, <2>2, <3>1
  <2>5. a = b
    BY <1>1, <2>1, <2>2, <2>3, <2>4
  <2> QED BY <2>5 DEF a, b
<1>3. ASSUME \A n \in 1..Len(r) : r[n].msg # g.msg PROVE FirstIn(s, g.msg) = Len(r) + 1
  <2>1. Len(r) + 1 \in 1..Len(s)
    BY <1>1
  <2>2. FirstIn(s, g.msg) \in 1..Len(s) /\ s[FirstIn(s, g.msg)].msg = g.msg
    BY <1>1, <1>3, <2>1, FirstPlace
  <2>3. FirstIn(s, g.msg) \notin 1..Len(r)
    BY <1>1, <1>3, <2>2
  <2> QED BY <1>1, <2>2, <2>3
<1>4. \A x \in Received : \E n \in 1..Len(r) : r[n].msg = x
  BY DEF Received, r
<1>5. g.msg \notin Received => \A n \in 1..Len(r) : r[n].msg # g.msg
  BY DEF Received, r
<1>6. \A x \in Received : FirstIn(s, x) = FirstIn(r, x)
  BY <1>2, <1>4
<1>7. g.msg \notin Received => FirstIn(s, g.msg) = Len(r) + 1
  BY <1>3, <1>5
<1> QED BY <1>6, <1>7 DEF r, s

LEMMA OrderInit == Init => InTurn /\ QueueOrder
BY DEF Init, InTurn, QueueOrder, NoJob

\* A delivery begins with all that is left of one handoff.
LEMMA StartInTurn ==
  ASSUME Typed, NEW t, StartJob(t), UNCHANGED outbox
  PROVE  InTurn'
<1>1. job'.todo = {} \/ job'.todo = Pending(t)
  BY DEF StartJob, NoJob
<1>2. CASE job'.todo = Pending(t)
  <2>1. ASSUME NEW k \in Pending(t), NEW j \in 1..k - 1, outbox[j].of = outbox[k].of
        PROVE  j \in Pending(t) \/ outbox[j].delivered
    <3>1. j \in 1..Len(outbox) /\ outbox[j].of = t
      BY <2>1 DEF Pending, Typed
    <3> QED BY <3>1 DEF Pending
  <2> QED BY <1>2, <2>1 DEF InTurn
<1> QED BY <1>1, <1>2 DEF InTurn

\* Rows keep what they say, and a delivery has no more at hand than before.
LEMMA InTurnKept ==
  ASSUME Typed, InTurn, job'.todo \subseteq job.todo,
         \A k \in 1..Len(outbox) : /\ outbox'[k].of = outbox[k].of
                                   /\ outbox[k].delivered => outbox'[k].delivered,
         \A k \in job.todo \ job'.todo : outbox'[k].delivered \/ job'.todo = {}
  PROVE  InTurn'
<1>1. SUFFICES ASSUME NEW k \in job'.todo, NEW j \in 1..k - 1, outbox'[j].of = outbox'[k].of
               PROVE  j \in job'.todo \/ outbox'[j].delivered
  BY DEF InTurn
<1>2. k \in 1..Len(outbox) /\ j \in 1..Len(outbox)
  BY DEF Typed
<1> QED BY <1>1, <1>2 DEF InTurn

\* Nothing more is received, and no row is new.
LEMMA OrderQuiet ==
  ASSUME Typed, QueueOrder, UNCHANGED received, Len(outbox') = Len(outbox),
         \A k \in 1..Len(outbox) : outbox'[k].of = outbox[k].of /\ outbox'[k].msg = outbox[k].msg
  PROVE  QueueOrder'
<1>1. Received' = Received
  BY DEF Received
<1>2. ASSUME NEW j \in 1..Len(outbox), NEW k \in 1..Len(outbox) PROVE Ahead(j, k)'
  <2>1. Ahead(j, k)
    BY Aheads
  <2>2. (Requeued(j)' <=> Requeued(j)) /\ (Requeued(k)' <=> Requeued(k))
    BY DEF Requeued
  <2> QED BY <1>1, <2>1, <2>2 DEF Ahead
<1> QED BY <1>2, Aheads

\* A new row is the last one; its message has another row, or was not received.
LEMMA OrderEnqueue ==
  ASSUME Typed, QueueOrder, NEW m \in Messages, NEW t \in Transitions, Enqueue(m, t),
         UNCHANGED received,
         m \notin Received \/ \E k \in 1..Len(outbox) : outbox[k].msg = m
  PROVE  QueueOrder'
<1> DEFINE n == Len(outbox) + 1
<1>1. /\ Len(outbox') = n /\ Len(outbox) \in Nat /\ outbox'[n].msg = m
      /\ \A k \in 1..Len(outbox) : outbox'[k] = outbox[k]
  BY AppendRow
<1>2. Received' = Received
  BY DEF Received
<1>3. \A k \in 1..n : k = n \/ k \in 1..Len(outbox)
  BY <1>1
<1>4. \A k \in 1..Len(outbox) : k \in 1..n /\ k < n
  BY <1>1
<1> HIDE DEF n
<1>5. ASSUME NEW j \in 1..n, NEW k \in 1..n PROVE Ahead(j, k)'
  <2>1. CASE j \in 1..Len(outbox) /\ k \in 1..Len(outbox)
    <3>1. Ahead(j, k)
      BY <2>1, Aheads
    <3>2. (Requeued(j) => Requeued(j)') /\ (Requeued(k) => Requeued(k)')
      BY <1>1, <1>4, <2>1 DEF Requeued
    <3> QED BY <1>1, <1>2, <2>1, <3>1, <3>2 DEF Ahead
  <2>2. CASE j = n
    <3>1. ~(j < k)
      BY <1>1, <1>3, <1>4, <2>2 DEF n
    <3> QED BY <3>1 DEF Ahead
  <2>3. CASE k = n
    <3>1. m \notin Received \/ Requeued(k)'
      <4>1. ASSUME NEW l \in 1..Len(outbox), outbox[l].msg = m PROVE Requeued(k)'
        BY <1>1, <1>4, <2>3, <4>1 DEF Requeued
      <4> QED BY <4>1
    <3> QED BY <1>1, <1>2, <2>3, <3>1 DEF Ahead
  <2> QED BY <1>3, <2>1, <2>2, <2>3
<1> QED BY <1>1, <1>5, Aheads

\* A message that has no row, or the first of those a delivery has at hand, is received.
LEMMA OrderReceive ==
  ASSUME Typed, OutboxInv, QueueOrder, InTurn, NEW g \in Got, received' = Append(received, g),
         UNCHANGED outbox,
         \/ \A k \in 1..Len(outbox) : outbox[k].msg # g.msg
         \/ job.pc # "none" /\ outbox[Current].msg = g.msg
  PROVE  QueueOrder'
<1> DEFINE m == g.msg
<1>1. /\ Received' = Received \cup {m} /\ Len(received) \in Nat /\ received \in Seq(Got)
  BY AppendGot DEF Typed
<1>2. \A x \in Received : /\ FirstIn(received', x) = FirstIn(received, x)
                          /\ FirstIn(received, x) \in 1..Len(received)
  <2>1. SUFFICES ASSUME NEW x \in Received
                 PROVE  /\ FirstIn(received', x) = FirstIn(received, x)
                        /\ FirstIn(received, x) \in 1..Len(received)
    OBVIOUS
  <2>2. PICK n \in 1..Len(received) : received[n].msg = x
    BY DEF Received
  <2>3. FirstIn(received, x) \in 1..Len(received)
    BY <1>1, <2>2, FirstPlace
  <2> QED BY <2>3, FirstKept
<1>3. m \notin Received => FirstIn(received', m) = Len(received) + 1
  BY FirstKept
<1> HIDE DEF m
<1>4. ASSUME NEW j \in 1..Len(outbox), NEW k \in 1..Len(outbox) PROVE Ahead(j, k)'
  <2>1. SUFFICES ASSUME j < k, outbox[j].of = outbox[k].of, outbox[j].msg # outbox[k].msg,
                        outbox[k].msg \in Received', ~Requeued(j), ~Requeued(k)
                 PROVE  /\ outbox[j].msg \in Received'
                        /\ FirstIn(received', outbox[j].msg) < FirstIn(received', outbox[k].msg)
    BY DEF Ahead, Requeued
  <2>2. CASE outbox[k].msg \in Received
    <3>1. /\ outbox[j].msg \in Received
          /\ FirstIn(received, outbox[j].msg) < FirstIn(received, outbox[k].msg)
      BY <2>1, <2>2, Aheads DEF Ahead
    <3> QED BY <1>1, <1>2, <2>2, <3>1
  <2>3. CASE outbox[k].msg \notin Received
    <3>1. outbox[k].msg = m
      BY <1>1, <2>1, <2>3
    <3>2. job.pc # "none" /\ outbox[Current].msg = m
      BY <3>1 DEF m
    <3>3. Current \in job.todo /\ Current \in 1..Len(outbox)
      BY <3>2, CurrentAtHand
    <3>4. Current = k
      BY <2>1, <3>1, <3>2, <3>3 DEF Requeued
    <3>5. j \notin job.todo
      BY <2>1, <3>2, <3>4, CurrentLeast DEF Typed
    <3>6. j \in 1..k - 1
      BY <2>1, <3>3 DEF Typed
    <3>7. outbox[j].delivered
      BY <2>1, <3>3, <3>4, <3>5, <3>6 DEF InTurn
    <3>8. outbox[j].msg \in Received
      <4>1. \A l \in 1..Len(outbox) : l > j => l # j
        BY DEF Typed
      <4> QED BY <2>1, <3>7, <4>1 DEF OutboxInv, HandedOn, Requeued
    <3>9. FirstIn(received', outbox[k].msg) = Len(received) + 1
      BY <1>3, <2>3, <3>1
    <3> QED BY <1>1, <1>2, <3>8, <3>9
  <2> QED BY <2>2, <2>3
<1> QED BY <1>4, Aheads

LEMMA OrderSend ==
  ASSUME Typed, OutboxInv, InTurn, QueueOrder, NEW m \in Messages, Send(m)
  PROVE  InTurn' /\ QueueOrder'
<1>1. UNCHANGED job /\ sender[m].pc \in {"idle", "direct", "queue"}
  BY DEF Send, SendRead, SendQueue, SendDirect
<1>2. m \notin Received /\ \A k \in 1..Len(outbox) : outbox[k].msg # m
  BY <1>1 DEF OutboxInv, Unsent
<1>3. CASE UNCHANGED <<outbox, received>>
  BY <1>1, <1>3, InTurnKept, OrderQuiet
<1>4. CASE SendQueue(m) /\ Enqueue(m, sender[m].of)
  <2>1. sender[m].of \in Transitions /\ UNCHANGED received
    BY <1>4 DEF SendQueue, Typed
  <2>2. \A k \in 1..Len(outbox) : outbox'[k] = outbox[k]
    BY <1>4, <2>1, AppendRow
  <2>3. InTurn'
    BY <1>1, <2>2, InTurnKept
  <2> QED BY <1>2, <1>4, <2>1, <2>3, OrderEnqueue
<1>5. CASE SendDirect(m) /\ received' # received
  <2> DEFINE g == [msg |-> m, mode |-> mode, by |-> "send"]
  <2>1. received' = Append(received, g) /\ UNCHANGED outbox
    BY <1>5 DEF SendDirect
  <2>2. g \in Got /\ g.msg = m
    BY DEF Got, Typed
  <2> HIDE DEF g
  <2>3. InTurn'
    BY <1>1, <2>1, InTurnKept
  <2> QED BY <1>2, <2>1, <2>2, <2>3, OrderReceive
<1> QED BY <1>3, <1>4, <1>5 DEF Send, SendRead, SendQueue, SendDirect

LEMMA OrderJob ==
  ASSUME Typed, OutboxInv, InTurn, QueueOrder, Job
  PROVE  InTurn' /\ QueueOrder'
<1>1. job.pc # "none" /\ job \in Jobs
  BY DEF Job, JobReady, JobGiveUp, JobSend, JobQueue, JobDirect, JobMark, Typed
<1>2. Current \in job.todo /\ Current \in 1..Len(outbox) /\ outbox[Current].msg \in Messages
  BY <1>1, CurrentAtHand, RowTyped DEF Entries
<1>3. CASE UNCHANGED <<outbox, received>> /\ (job'.todo = {} \/ job'.todo = job.todo)
  BY <1>3, InTurnKept, OrderQuiet
<1>4. CASE JobReady \/ JobGiveUp \/ JobSend
  <2>1. JobReady => job'.todo = job.todo
    BY <1>1 DEF JobReady, Jobs
  <2>2. JobSend => job'.todo = job.todo
    BY <1>1 DEF JobSend, Jobs
  <2>3. job'.todo = {} \/ job'.todo = job.todo
    BY <1>4, <2>1, <2>2 DEF JobGiveUp, NoJob
  <2> QED BY <1>3, <1>4, <2>3 DEF JobReady, JobGiveUp, JobSend
<1>5. CASE JobQueue
  <2>1. (job'.todo = {} \/ job'.todo = job.todo) /\ UNCHANGED received /\ job.of \in Transitions
    <3>1. job.of \in Transitions /\ UNCHANGED received
      BY <1>5 DEF JobQueue, Typed
    <3>2. job' = [job EXCEPT !.pc = "mark", !.of = NoTransition] => job'.todo = job.todo
      BY <1>1 DEF Jobs
    <3>3. job' = NoJob \/ job' = [job EXCEPT !.pc = "mark", !.of = NoTransition]
      BY <1>5 DEF JobQueue
    <3> QED BY <3>1, <3>2, <3>3 DEF NoJob
  <2>2. CASE Enqueue(outbox[Current].msg, job.of)
    <3>1. \A k \in 1..Len(outbox) : outbox'[k] = outbox[k]
      BY <1>2, <2>1, <2>2, AppendRow
    <3>2. InTurn'
      BY <2>1, <3>1, InTurnKept
    <3> QED BY <1>2, <2>1, <2>2, <3>2, OrderEnqueue
  <2>3. CASE UNCHANGED outbox
    BY <1>3, <2>1, <2>3
  <2> QED BY <1>5, <2>2, <2>3 DEF JobQueue
<1>6. CASE JobDirect
  <2> DEFINE m == outbox[Current].msg
             g == [msg |-> m, mode |-> mode, by |-> "outbox"]
  <2>1. (job'.todo = {} \/ job'.todo = job.todo) /\ UNCHANGED outbox
    BY <1>1, <1>6 DEF JobDirect, NoJob, Jobs
  <2>2. received' \in {received, Append(received, g)}
    BY <1>6 DEF JobDirect, Deliver
  <2>3. g \in Got /\ g.msg = m
    BY <1>2 DEF Got, Typed
  <2> HIDE DEF g
  <2>4. CASE received' = Append(received, g)
    <3>1. InTurn'
      BY <2>1, InTurnKept
    <3> QED BY <1>1, <2>1, <2>3, <2>4, <3>1, OrderReceive
  <2> QED BY <1>3, <2>1, <2>2, <2>4
<1>7. CASE JobMark
  <2>1. UNCHANGED received
    BY <1>7 DEF JobMark
  <2>2. CASE UNCHANGED outbox /\ job' = NoJob
    BY <1>3, <2>1, <2>2 DEF NoJob
  <2>3. CASE /\ outbox' = [outbox EXCEPT ![Current].delivered = TRUE]
             /\ job' = IF job.todo = {Current} THEN NoJob
                       ELSE [job EXCEPT !.pc = "send", !.todo = @ \ {Current}]
    <3>1. job'.todo = job.todo \ {Current}
      BY <1>1, <1>2, <2>3 DEF NoJob, Jobs
    <3>2. /\ Len(outbox') = Len(outbox) /\ outbox'[Current].delivered
          /\ \A k \in 1..Len(outbox) : outbox'[k].msg = outbox[k].msg
          /\ \A k \in 1..Len(outbox) \ {Current} : outbox'[k] = outbox[k]
      BY <1>2, <2>3, MarkRow
    <3>3. outbox'[Current].of = outbox[Current].of
      BY <1>2, <2>3, RowTyped, ExceptSeq DEF Typed, Entries
    <3>4. InTurn'
      BY <3>1, <3>2, <3>3, InTurnKept
    <3>5. QueueOrder'
      BY <2>1, <3>2, <3>3, OrderQuiet
    <3> QED BY <3>4, <3>5
  <2> QED BY <1>7, <2>2, <2>3 DEF JobMark
<1> QED BY <1>4, <1>5, <1>6, <1>7 DEF Job

LEMMA OrderStep == Typed /\ OutboxInv /\ InTurn /\ QueueOrder /\ [Next]_vars => InTurn' /\ QueueOrder'
<1> SUFFICES ASSUME Typed, OutboxInv, InTurn, QueueOrder, [Next]_vars PROVE InTurn' /\ QueueOrder'
  OBVIOUS
<1>1. CASE Handoffs \/ ScanStart
  <2>1. UNCHANGED <<outbox, received, job>>
    BY <1>1 DEF Handoffs, BeginTransition, EndTransition, ScanStart
  <2> QED BY <2>1, InTurnKept, OrderQuiet
<1>2. CASE ScanNext \/ \E t \in Transitions : SettleStart(t)
  <2>1. UNCHANGED <<outbox, received>> /\ \E t : StartJob(t)
    BY <1>2 DEF ScanNext, SettleStart
  <2> QED BY <2>1, StartInTurn, OrderQuiet
<1>3. CASE Crash
  <2>1. UNCHANGED <<outbox, received>> /\ job'.todo = {}
    BY <1>3 DEF Crash, NoJob
  <2> QED BY <2>1, InTurnKept, OrderQuiet
<1>4. CASE UNCHANGED vars
  <2>1. UNCHANGED <<outbox, received, job>>
    BY <1>4 DEF vars
  <2> QED BY <2>1, InTurnKept, OrderQuiet
<1> QED BY <1>1, <1>2, <1>3, <1>4, OrderSend, OrderJob DEF Next, Dispatcher

-----------------------------------------------------------------------------
\* An acknowledged message has reached the agent or waits in a later handoff's
\* outbox, for any crashes and failures.
THEOREM NothingLost == Spec => []HandedOn
<1>1. OutboxInv => HandedOn
  BY DEF OutboxInv
<1> QED BY <1>1, TypedInit, TypedStep, InvInit, InvStep, PTL DEF Spec

\* A Chat conversation holds no message twice: a retry carries the key it was
\* recorded under, and a message sent past the outbox was never in it.
THEOREM ChatOnceAlways == Spec => []ChatOnce
<1>1. OutboxInv => ChatOnce
  BY DEF OutboxInv
<1> QED BY <1>1, TypedInit, TypedStep, InvInit, InvStep, PTL DEF Spec

\* The messages that one handoff held back are received in the order they were sent, but
\* for those that a second handoff caught on their way: a delivery takes the oldest row of
\* what it has read, and goes on to the next only once that is acknowledged
\* (deliverTransitionMessages).
THEOREM QueueOrderAlways == Spec => []QueueOrder
BY TypedInit, TypedStep, InvInit, InvStep, OrderInit, OrderStep, PTL DEF Spec

=============================================================================

------------------------------ MODULE HostRelay ------------------------------
(***************************************************************************)
(* The relay that lets a Chat controller come and go while its provider    *)
(* works: the host keeps what the provider says during a prompt, what it   *)
(* asks and what was decided, and tells it all again to the next           *)
(* controller until the end of the prompt is acknowledged.                 *)
(*                                                                         *)
(* Code: adapters/chatdriver/persistenthost, acp_relay.go and host.go      *)
(* (handle, detach, forwardProvider); adapters/chatdriver/acp (conversation*)
(* and extensions) and service/chat/controller.go (project) for the        *)
(* controller.  Module HostLaunch has the life of the host itself.  Left   *)
(* out: setup requests, cancellation, requests outside a prompt, the limit *)
(* of the journal, where the provider is shut down, and requests nobody    *)
(* decides: the controller answers them itself, as cancelled, when they    *)
(* time out or the provider withdraws them (client.go, requestApproval).   *)
(***************************************************************************)
EXTENDS Naturals, Sequences, SequencesExt

CONSTANTS
  Requests,    \* interactions a provider may ask for
  Decisions,   \* what the user may decide
  LossyClose,  \* whether a broken connection may take along what was sent on it
  MaxTurns,    \* bound: turns
  MaxFrames,   \* bound: notifications of a turn
  MaxGen,      \* bound: attachments
  Nil          \* no decision, no request

ASSUME RelayAssumption ==
  LossyClose \in BOOLEAN /\ MaxTurns \in Nat /\ MaxFrames \in Nat /\ MaxGen \in Nat
    /\ Nil \notin Requests \cup Decisions

VARIABLES
  gen, att,    \* clientGeneration; whether the host has a client
  active,      \* the prompt being answered and who sent it: ActivePrompt, pending
  result,      \* PendingResultEventID, 0 without one
  replay,      \* promptReplay: what is told again, in order
  asks,        \* serverRequests that await an answer
  cmds,        \* commands: the decisions recorded
  ev,          \* nextEventID
  toHost, toCtl,  \* the connection, its two directions
  prov,        \* provider: [turn, frames], its prompt and the notifications sent for it
  asked, got,  \* requests it made, answers it got to each
  said,        \* history: the events of prompts, in the order the provider made them
  ctl,         \* the controller: a record, see NoCtl
  db           \* durable: [turn, turns, log, decided]

host      == <<gen, att, active, result, replay, asks, cmds, ev>>
provider  == <<prov, asked, got, said>>
relayVars == <<host, toHost, toCtl, provider, ctl, db>>

Turns  == 1..MaxTurns
Events == 1..(MaxTurns * (MaxFrames + 1))
NoTurn == [turn |-> 0, gen |-> 0]
NoCtl  == [at |-> "off", gen |-> 0, busy |-> FALSE, pend |-> 0, turn |-> 0, send |-> FALSE,
           ignore |-> FALSE, term |-> 0, ack |-> 0, coming |-> {}, open |-> {}, ask |-> Nil,
           dec |-> Nil, accepted |-> [r \in Requests |-> Nil], queue |-> <<>>]

RelayTypeOK ==
  /\ gen \in 0..MaxGen /\ att \in BOOLEAN /\ active \in [turn : 0..MaxTurns, gen : 0..MaxGen]
  /\ result \in 0..Len(said) /\ asks \subseteq Requests /\ asked \subseteq Requests
  /\ replay \in Seq([k : {"event"}, ev : Events] \cup [k : {"ask", "cmd"}, r : Requests])
  /\ cmds \in [Requests -> Decisions \cup {Nil}] /\ ev = Len(said)
  /\ prov \in [turn : 0..MaxTurns, frames : 0..MaxFrames] /\ got \in [Requests -> Seq(Decisions)]
  /\ said \in Seq([ev : Events, turn : Turns])
  /\ ctl.at \in {"off", "gate", "on"} /\ ctl.turn \in 0..MaxTurns /\ ctl.open \subseteq Requests
  /\ db.turn \in 0..MaxTurns /\ db.turns \in 0..MaxTurns
  /\ db.log \in Seq([ev : Events, turn : 0..MaxTurns])
  /\ db.decided \in [Requests -> Decisions \cup {Nil}]

RelayInit ==
  /\ gen = 0 /\ att = FALSE /\ active = NoTurn /\ result = 0 /\ replay = <<>> /\ asks = {}
  /\ cmds = [r \in Requests |-> Nil] /\ ev = 0 /\ toHost = <<>> /\ toCtl = <<>>
  /\ prov = [turn |-> 0, frames |-> 0] /\ asked = {} /\ got = [r \in Requests |-> <<>>]
  /\ said = <<>> /\ ctl = NoCtl
  /\ db = [turn |-> 0, turns |-> 0, log |-> <<>>, decided |-> [r \in Requests |-> Nil]]

\* The controller at the other end of the host's connection, if it is still there.
Heard   == att /\ ctl.at # "off" /\ ctl.gen = gen
Tell(f) == toCtl' = IF Heard THEN Append(toCtl, f) ELSE toCtl
\* A reply goes to the connection that was asked on.
Reply(g, f) == toCtl' = IF Heard /\ g = gen THEN Append(toCtl, f) ELSE toCtl
Send(f) == toHost' = Append(toHost, f)

-----------------------------------------------------------------------------
(* The host, what a client says.                                            *)

Empty == replay' = <<>> /\ cmds' = [r \in Requests |-> Nil]

\* A prompt is forwarded unless another runs or has ended without acknowledgement.
HearPrompt(f) ==
  /\ f.k = "prompt"
  /\ IF active # NoTurn \/ result # 0
     THEN /\ Reply(f.gen, [k |-> "end", ev |-> 0, direct |-> TRUE])
          /\ UNCHANGED <<active, replay, cmds, prov>>
     ELSE active' = [turn |-> f.turn, gen |-> f.gen] /\ Empty /\ UNCHANGED toCtl
          /\ prov' = [turn |-> f.turn, frames |-> 0]
  /\ UNCHANGED <<result, asks, got>>

Acknowledges(f) == f.ev = result /\ result # 0

HearAck(f) ==
  /\ f.k = "ack"
  /\ IF Acknowledges(f) THEN result' = 0 /\ Empty ELSE UNCHANGED <<result, replay, cmds>>
  /\ UNCHANGED <<active, asks, got, prov, toCtl>>

Records(f) == f.r \in asks /\ cmds[f.r] = Nil

\* A decision is recorded once; the same decision is confirmed again, another is refused.
HearDecision(f) ==
  /\ f.k = "cmd"
  /\ IF Records(f) THEN /\ cmds' = [cmds EXCEPT ![f.r] = f.dec]
                        /\ replay' = Append(replay, [k |-> "cmd", r |-> f.r])
                   ELSE UNCHANGED <<cmds, replay>>
  /\ Reply(f.gen, [k |-> IF Records(f) \/ cmds[f.r] = f.dec THEN "ok" ELSE "bad", r |-> f.r])
  /\ UNCHANGED <<active, result, asks, got, prov>>

\* Faulty: a request that is answered is kept.
Kept(f)       == asks
Unanswered(f) == asks \ {f.r}

HearAnswer(f) ==
  /\ f.k = "answer" /\ asks' = Unanswered(f) /\ got' = [got EXCEPT ![f.r] = Append(@, f.dec)]
  /\ UNCHANGED <<active, result, replay, cmds, prov, toCtl>>

\* Each connection is read in its own order, one that is being dropped beside the next.
HostReads ==
  \E i \in 1..Len(toHost) :
    /\ \A j \in 1..i - 1 : toHost[j].gen # toHost[i].gen
    /\ toHost' = RemoveAt(toHost, i)
    /\ \/ HearPrompt(toHost[i]) \/ HearAck(toHost[i])
       \/ HearDecision(toHost[i]) \/ HearAnswer(toHost[i])
    /\ UNCHANGED <<gen, att, ev, asked, said, ctl, db>>

\* The host reads the end of the connection, after all that was sent on it. With LossyClose
\* it may first fail to write to it, and then reads what was sent up to some frame only.
HostDetaches ==
  /\ att /\ ~Heard /\ att' = FALSE
  /\ \E n \in 0..Len(toHost) :
       /\ LossyClose \/ (n = Len(toHost) /\ \A i \in 1..n : toHost[i].gen # gen)
       /\ toHost' = SubSeq(toHost, 1, n)
  /\ UNCHANGED <<gen, active, result, replay, asks, cmds, ev, toCtl, provider, ctl, db>>

-----------------------------------------------------------------------------
(* The provider, and the host's part in what it says.                       *)

Event == ev' = ev + 1 /\ said' = Append(said, [ev |-> ev + 1, turn |-> prov.turn])
ByProvider == UNCHANGED <<gen, att, cmds, toHost, got, ctl, db>>

Say ==
  /\ prov.turn # 0 /\ prov.frames < MaxFrames /\ prov' = [prov EXCEPT !.frames = @ + 1]
  /\ Event /\ replay' = Append(replay, [k |-> "event", ev |-> ev + 1])
  /\ Tell([k |-> "event", ev |-> ev + 1])
  /\ ByProvider /\ UNCHANGED <<active, result, asks, asked>>

Ask(r) ==
  /\ prov.turn # 0 /\ r \notin asked /\ asked' = asked \cup {r} /\ asks' = asks \cup {r}
  /\ replay' = Append(replay, [k |-> "ask", r |-> r])
  /\ Tell([k |-> "ask", r |-> r, waits |-> TRUE])
  /\ ByProvider /\ UNCHANGED <<active, result, ev, prov, said>>

\* The prompt ends; its end goes to whoever is attached and is kept.
Finish ==
  /\ prov.turn # 0 /\ (\A r \in asked : got[r] # <<>>) /\ prov' = [turn |-> 0, frames |-> 0]
  /\ Event /\ active' = NoTurn /\ result' = ev + 1
  /\ Tell([k |-> "end", ev |-> ev + 1, direct |-> active.gen = gen])
  /\ ByProvider /\ UNCHANGED <<replay, asks, asked>>

-----------------------------------------------------------------------------
(* The controller.                                                          *)

ByCtl == UNCHANGED <<active, result, replay, asks, cmds, ev, provider>>

\* replayTo: what is in the journal, with what still waits for an answer, and the end.  A
\* request that has its answer is not told again: its frame says so and is read for nothing.
Again(e) ==
  CASE e.k = "event" -> e
    [] e.k = "ask"   -> [k |-> "ask", r |-> e.r, waits |-> e.r \in asks]
    [] e.k = "cmd"   -> [k |-> "cmd", r |-> e.r, dec |-> cmds[e.r], waits |-> e.r \in asks]
EndAgain == IF result = 0 THEN <<>> ELSE <<[k |-> "end", ev |-> result, direct |-> FALSE]>>

Journal  == [i \in DOMAIN replay |-> Again(replay[i])]

\* Faulty: only the end of a prompt that has ended is told again.
EndOnly == IF result = 0 THEN Journal ELSE EndAgain
Replay  == Journal \o EndAgain

Greet ==
  /\ ctl.at = "off" /\ ~att /\ gen < MaxGen /\ gen' = gen + 1 /\ att' = TRUE
  /\ ctl' = [NoCtl EXCEPT !.at = "gate", !.gen = gen + 1, !.busy = active # NoTurn, !.pend = result]
  /\ toCtl' = Replay
  /\ ByCtl /\ UNCHANGED <<toHost, db>>

\* ActivateLiveReconnect, for a first attachment a mere start: the durable turn must fit
\* what the host has, and an end that is committed already is only acknowledged.
Activate ==
  /\ ctl.at = "gate"
  /\ LET busy == db.turn # 0
     IN  \/ /\ (ctl.busy /\ ~busy) \/ (busy /\ ~ctl.busy /\ ctl.pend = 0)
            /\ ctl' = NoCtl /\ toCtl' = <<>> /\ UNCHANGED toHost
         \/ /\ ctl.pend # 0 /\ ~busy /\ ~ctl.busy
            /\ ctl' = [ctl EXCEPT !.at = "on", !.ignore = TRUE, !.term = ctl.pend]
            /\ Send([gen |-> ctl.gen, k |-> "ack", ev |-> ctl.pend]) /\ UNCHANGED toCtl
         \/ /\ IF busy THEN ctl.busy \/ ctl.pend # 0 ELSE ~ctl.busy /\ ctl.pend = 0
            /\ ctl' = [ctl EXCEPT !.at = "on", !.turn = db.turn] /\ UNCHANGED <<toHost, toCtl>>
  /\ ByCtl /\ UNCHANGED <<gen, att, db>>

\* The controller is closed, or stops because it cannot commit; the provider stays.
Detach ==
  /\ ctl.at = "on" /\ gen < MaxGen /\ ctl' = NoCtl /\ toCtl' = <<>>
  /\ ByCtl /\ UNCHANGED <<gen, att, toHost, db>>

Emit(e)      == [ctl EXCEPT !.queue = Append(@, e)]
Decided(r, d) == [k |-> "dec", r |-> r, dec |-> d]

\* SessionUpdate: what the driver makes of a notification goes to the controller's queue.
ReadEvent(f) ==
  f.k = "event" /\ ctl' = Emit([k |-> "event", ev |-> f.ev, turn |-> ctl.turn]) /\ UNCHANGED toHost
\* Each request has a handler of its own, which runs beside the frames that follow.
ReadAsk(f) ==
  /\ f.k = "ask" /\ UNCHANGED toHost
  /\ ctl' = IF f.waits THEN [ctl EXCEPT !.coming = @ \cup {f.r}] ELSE ctl
\* The host has the decision: it is published and the provider is answered.
ReadOk(f) ==
  /\ f.k = "ok" /\ ctl' = [Emit(Decided(f.r, ctl.dec)) EXCEPT !.ask = Nil, !.dec = Nil]
  /\ Send([gen |-> ctl.gen, k |-> "answer", r |-> f.r, dec |-> ctl.dec])
ReadBad(f) ==
  /\ f.k = "bad" /\ ctl' = [ctl EXCEPT !.ask = Nil, !.dec = Nil, !.open = @ \cup {f.r}]
  /\ UNCHANGED toHost
\* A decision told again is published, and carried out when the provider still waits; one
\* whose request is not open here waits for the handler of that request.
ReadDecision(f) ==
  /\ f.k = "cmd"
  /\ \/ /\ ~f.waits /\ ctl' = Emit(Decided(f.r, f.dec)) /\ UNCHANGED toHost
     \/ /\ f.waits /\ f.r \in ctl.open
        /\ ctl' = [Emit(Decided(f.r, f.dec)) EXCEPT !.open = @ \ {f.r}]
        /\ Send([gen |-> ctl.gen, k |-> "answer", r |-> f.r, dec |-> f.dec])
     \/ /\ f.waits /\ f.r \notin ctl.open /\ UNCHANGED toHost
        /\ ctl' = [ctl EXCEPT !.accepted[f.r] = f.dec]
\* The answer to the prompt, or the end told again; a refused prompt ends with no event.
ReadEnd(f) ==
  /\ f.k = "end" /\ UNCHANGED toHost
  /\ ctl' = IF ctl.ignore /\ ~f.direct THEN [ctl EXCEPT !.ignore = FALSE]
            ELSE [Emit([k |-> "end", ev |-> f.ev, turn |-> ctl.turn])
                    EXCEPT !.term = f.ev, !.turn = 0]

CtlReads ==
  /\ ctl.at = "on" /\ toCtl # <<>> /\ toCtl' = Tail(toCtl)
  /\ LET f == Head(toCtl)
     IN  \/ ReadEvent(f) \/ ReadAsk(f) \/ ReadOk(f) \/ ReadBad(f)
         \/ ReadDecision(f) \/ ReadEnd(f)
  /\ ByCtl /\ UNCHANGED <<gen, att, db>>

\* The handler of a request: it parks until it is decided, unless its decision has come
\* before it.
ServeAsk(r) ==
  /\ ctl.at = "on" /\ r \in ctl.coming
  /\ IF ctl.accepted[r] = Nil
     THEN ctl' = [ctl EXCEPT !.coming = @ \ {r}, !.open = @ \cup {r}] /\ UNCHANGED toHost
     ELSE /\ ctl' = [Emit(Decided(r, ctl.accepted[r]))
                       EXCEPT !.coming = @ \ {r}, !.accepted[r] = Nil]
          /\ Send([gen |-> ctl.gen, k |-> "answer", r |-> r, dec |-> ctl.accepted[r]])
  /\ ByCtl /\ UNCHANGED <<gen, att, toCtl, db>>

Decide(r, d) ==
  /\ ctl.at = "on" /\ r \in ctl.open /\ ctl.ask = Nil
  /\ ctl' = [ctl EXCEPT !.open = @ \ {r}, !.ask = r, !.dec = d]
  /\ Send([gen |-> ctl.gen, k |-> "cmd", r |-> r, dec |-> d])
  /\ ByCtl /\ UNCHANGED <<gen, att, toCtl, db>>

\* Faulty: no event is known already.
NeverKnown(e) == FALSE
Known(e)      == e.ev # 0 /\ \E i \in 1..Len(db.log) : db.log[i].ev = e.ev

\* One transaction: the event, unless it is known, and what it changes.
Project(e) ==
  CASE e.k = "dec"  -> [db EXCEPT !.decided[e.r] = IF @ = Nil THEN e.dec ELSE @]
    [] e.k # "dec" /\ Known(e) -> db
    [] e.k # "dec" /\ ~Known(e) ->
         [db EXCEPT !.log = IF e.ev = 0 THEN @ ELSE Append(@, [ev |-> e.ev, turn |-> e.turn]),
                    !.turn = IF e.k = "end" /\ @ = e.turn THEN 0 ELSE @]

Commit ==
  /\ ctl.at = "on" /\ ctl.queue # <<>> /\ ctl.ack = 0
  /\ LET e == Head(ctl.queue)
     IN  /\ db' = Project(e)
         /\ ctl' = [ctl EXCEPT !.queue = Tail(@),
                               !.ack = IF e.k = "end" /\ e.ev = ctl.term THEN e.ev ELSE 0]
  /\ ByCtl /\ UNCHANGED <<gen, att, toHost, toCtl>>

Acknowledge ==
  /\ ctl.at = "on" /\ ctl.ack # 0 /\ ctl' = [ctl EXCEPT !.ack = 0]
  /\ Send([gen |-> ctl.gen, k |-> "ack", ev |-> ctl.ack])
  /\ ByCtl /\ UNCHANGED <<gen, att, toCtl, db>>

\* The turn is made durable, and its prompt goes out. The end of the last one is committed and
\* acknowledged under the lock that a turn takes.
Bind ==
  /\ ctl.at = "on" /\ db.turn = 0 /\ ctl.ack = 0 /\ db.turns < MaxTurns
  /\ db' = [db EXCEPT !.turn = db.turns + 1, !.turns = @ + 1]
  /\ ctl' = [ctl EXCEPT !.turn = db.turns + 1, !.send = TRUE]
  /\ ByCtl /\ UNCHANGED <<gen, att, toHost, toCtl>>

StartTurn ==
  /\ ctl.at = "on" /\ ctl.send /\ ctl' = [ctl EXCEPT !.send = FALSE]
  /\ Send([gen |-> ctl.gen, k |-> "prompt", turn |-> ctl.turn])
  /\ ByCtl /\ UNCHANGED <<gen, att, toCtl, db>>

RelayNext ==
  \/ HostReads \/ HostDetaches \/ Finish \/ Activate \/ CtlReads \/ Commit \/ Acknowledge
  \/ StartTurn \/ Say \/ Greet \/ Detach \/ Bind
  \/ \E r \in Requests : Ask(r) \/ ServeAsk(r) \/ \E d \in Decisions : Decide(r, d)

RelaySpec     == RelayInit /\ [][RelayNext]_relayVars
RelayFairness ==
  /\ WF_relayVars(HostReads) /\ WF_relayVars(HostDetaches) /\ WF_relayVars(Finish)
  /\ WF_relayVars(Greet) /\ WF_relayVars(Activate) /\ WF_relayVars(CtlReads)
  /\ WF_relayVars(Commit) /\ WF_relayVars(Acknowledge) /\ WF_relayVars(StartTurn)
  /\ WF_relayVars(\E r \in Requests : ServeAsk(r))
RelayFairSpec == RelaySpec /\ RelayFairness

-----------------------------------------------------------------------------
(* Correctness.                                                             *)

\* However often controllers change, what the provider says in a prompt is committed once,
\* in order, without a gap and for the turn it was said in.
CommittedInOrder == IsPrefix(db.log, said)

\* A request is answered once, with the decision that is published.
OneAnswer ==
  \A r \in Requests :
    Len(got[r]) <= 1 /\ (got[r] # <<>> /\ db.decided[r] # Nil => got[r][1] = db.decided[r])

\* Nothing the provider said stays uncommitted.
SaidIsCommitted == \A n \in Events : Len(said) >= n ~> Len(db.log) >= n

\* With nothing under way, a turn that is durably running runs at the host, or its end is
\* on its way.
Quiet ==
  /\ ctl.at = "on" /\ ~ctl.send /\ ctl.queue = <<>> /\ ctl.ack = 0
  /\ toHost = <<>> /\ toCtl = <<>>
RunningRuns == Quiet /\ db.turn # 0 => active.turn = db.turn

=============================================================================

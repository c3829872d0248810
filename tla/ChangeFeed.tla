----------------------------- MODULE ChangeFeed -----------------------------
(***************************************************************************)
(* The change feed: what is written to the database reaches the screen.    *)
(* Triggers append an event to change_log, a poller hands new events to    *)
(* the live streams, a stream tells its client first what it has missed,   *)
(* and the client drops what it has cached and reads again.                *)
(*                                                                         *)
(* Code: backend cdc/{poller,broadcast,retention}.go, httpd/events.go,     *)
(* daemon/cdc_wiring.go, storage store/changelog_store.go; renderer        *)
(* lib/event-transport.ts.  One client, one cached query that every event  *)
(* concerns, as a conversation is: its version is the number of events.    *)
(* Left out: the deletion of a session with its events, a database that is *)
(* replaced, heartbeats, the terminal's subscription to the broadcaster.   *)
(***************************************************************************)
EXTENDS Naturals, Sequences, FiniteSetsExt, SequencesExt

CONSTANTS
  Buffer,       \* eventsLiveBuffer
  Batch,        \* DefaultBatch, eventsReplayBatch
  MaxEvents,    \* bound: events
  MaxFaults     \* bound: deaths of the daemon, connections that break, streams refused

ASSUME FeedAssumption ==
  /\ Buffer \in Nat \ {0} /\ Batch \in Nat \ {0}
  /\ MaxEvents \in Nat /\ MaxFaults \in Nat

VARIABLES
  head, log,   \* change_log: its AUTOINCREMENT, the events retained
  up,          \* whether the daemon runs
  poller,      \* [last, batch]: lastSeq and the events read and not yet published
  con,         \* the stream in the server: [at, sent, buf, gap], see NoCon
  wire,        \* what the client has not read yet: [k, seq]
  es,          \* EventSource: [at, last], its state and Last-Event-ID
  got,         \* history: the events the client has received
  due,         \* refreshTimer: an invalidation is due
  refresh,     \* refreshes: [on, dirty]
  fetch,       \* the request of the query: [at, seen]
  cache,       \* the version on the screen
  faults       \* how many there were

server == <<head, log, up, poller, con>>
screen == <<got, due, refresh, fetch, cache>>
vars   == <<server, wire, es, screen, faults>>

Seqs  == 1..MaxEvents
Frame(kind) == [k |-> kind, seq |-> 0]
Event(e)    == [k |-> "event", seq |-> e]
NoCon == [at |-> "off", sent |-> 0, buf |-> <<>>, gap |-> FALSE]
Idle  == [at |-> "idle", seen |-> 0]
Lost  == [at |-> "lost", seen |-> 0]

Frames(n) == {Event(e) : e \in 1..n} \cup {Frame(k) : k \in {"open", "end", "refused"}}

TypeOK ==
  /\ head \in 0..MaxEvents /\ log \subseteq 1..head /\ up \in BOOLEAN
  /\ poller \in [last : 0..head, batch : Seq(1..head)]
  /\ con \in [at : {"off", "asked", "cursor", "replay", "replayed", "live"}, sent : 0..head,
              buf : Seq(1..head), gap : BOOLEAN]
  /\ wire \in Seq(Frames(head))
  /\ es \in [at : {"connecting", "asked", "open", "closed"}, last : 0..head]
  /\ got \subseteq 1..head /\ due \in BOOLEAN /\ refresh \in [on : BOOLEAN, dirty : BOOLEAN]
  /\ fetch \in [at : {"idle", "sent", "read", "lost"}, seen : 0..head] /\ cache \in 0..head
  /\ faults \in 0..MaxFaults

Init ==
  /\ head = 0 /\ log = {} /\ up = TRUE /\ poller = [last |-> 0, batch |-> <<>>] /\ con = NoCon
  /\ wire = <<>> /\ es = [at |-> "connecting", last |-> 0]
  /\ got = {} /\ due = FALSE /\ refresh = [on |-> FALSE, dirty |-> FALSE]
  /\ fetch = Idle /\ cache = 0 /\ faults = 0

Fault == faults < MaxFaults /\ faults' = faults + 1

\* LatestSeq of the store.
Latest == Max(log \cup {0})

\* EventsAfter: the oldest events after n, in order, as many as make a batch.
Later(n) == {e \in log : e > n}
After(n) ==
  {page \in SeqOf(Later(n), Batch) :
     /\ \A i \in DOMAIN page : {e \in Later(n) : e < page[i]} = {page[j] : j \in 1..i - 1}
     /\ Len(page) < Batch => Later(n) = Range(page)}

-----------------------------------------------------------------------------
(* The log and its poller.                                                  *)

Write ==
  /\ up /\ head < MaxEvents /\ head' = head + 1 /\ log' = log \cup {head + 1}
  /\ UNCHANGED <<up, poller, con, wire, es, screen, faults>>

\* Retention takes the oldest; the poller, every tenth of a second, is ahead of it.
Prune ==
  /\ up /\ \E n \in log : n <= poller.last /\ log' = {e \in log : e > n}
  /\ UNCHANGED <<head, up, poller, con, wire, es, screen, faults>>

Poll ==
  /\ up /\ poller.batch = <<>>
  /\ \E page \in After(poller.last) : page # <<>> /\ poller' = [poller EXCEPT !.batch = page]
  /\ UNCHANGED <<head, log, up, con, wire, es, screen, faults>>

\* Faulty: the stream subscribes once it has replayed.
SubscribedLate == con.at = "live"
Subscribed     == con.at \in {"replay", "replayed", "live"}

\* A stream whose buffer is full is cut off rather than left without the event.  What comes
\* after that may still find room in the buffer, but is behind what the stream never gets to.
Publish ==
  /\ up /\ poller.batch # <<>>
  /\ poller' = [last |-> Head(poller.batch), batch |-> Tail(poller.batch)]
  /\ con' = IF ~Subscribed \/ con.gap THEN con
            ELSE IF Len(con.buf) < Buffer THEN [con EXCEPT !.buf = Append(@, Head(poller.batch))]
            ELSE [con EXCEPT !.gap = TRUE]
  /\ UNCHANGED <<head, log, up, wire, es, screen, faults>>

-----------------------------------------------------------------------------
(* A stream.                                                                *)

Connect ==
  /\ up /\ es.at = "connecting" /\ con.at = "off" /\ wire = <<>>
  /\ es' = [es EXCEPT !.at = "asked"] /\ con' = [NoCon EXCEPT !.at = "asked", !.sent = es.last]
  /\ UNCHANGED <<head, log, up, poller, wire, screen, faults>>

\* The cursor cannot be read: an error is answered.
Refuse ==
  /\ con.at = "asked" /\ Fault
  /\ con' = NoCon /\ wire' = <<Frame("refused")>>
  /\ UNCHANGED <<head, log, up, poller, es, screen>>

\* A cursor ahead of the log falls back to its end.
ReadCursor ==
  /\ con.at = "asked"
  /\ con' = [con EXCEPT !.at = "cursor", !.sent = IF @ > Latest THEN Latest ELSE @]
  /\ UNCHANGED <<head, log, up, poller, wire, es, screen, faults>>

Subscribe ==
  /\ con.at = "cursor" /\ con' = [con EXCEPT !.at = "replay"] /\ wire' = Append(wire, Frame("open"))
  /\ UNCHANGED <<head, log, up, poller, es, screen, faults>>

Replay ==
  /\ con.at = "replay" /\ ~con.gap
  /\ \E page \in After(con.sent) :
       /\ wire' = wire \o [i \in DOMAIN page |-> Event(page[i])]
       /\ con' = [con EXCEPT !.sent = IF page = <<>> THEN @ ELSE page[Len(page)],
                             !.at = IF Len(page) < Batch THEN "replayed" ELSE "replay"]
  /\ UNCHANGED <<head, log, up, poller, es, screen, faults>>

GoLive ==
  /\ con.at = "replayed" /\ con' = [con EXCEPT !.at = "live"]
  /\ UNCHANGED <<head, log, up, poller, wire, es, screen, faults>>

\* An event that the replay has sent is not sent again.  A stream that is cut off may go on
\* for a while, but the buffer is never emptied by then.
SendLive ==
  /\ con.at = "live" /\ con.buf # <<>> /\ (con.gap => Len(con.buf) > 1)
  /\ LET e == Head(con.buf)
     IN  /\ wire' = IF e > con.sent THEN Append(wire, Event(e)) ELSE wire
         /\ con' = [con EXCEPT !.buf = Tail(@), !.sent = IF e > @ THEN e ELSE @]
  /\ UNCHANGED <<head, log, up, poller, es, screen, faults>>

CutOff ==
  /\ con.at \in {"replay", "live"} /\ con.gap /\ con' = NoCon /\ wire' = Append(wire, Frame("end"))
  /\ UNCHANGED <<head, log, up, poller, es, screen, faults>>

\* What was sent is lost from some frame on.
Lose == \E n \in 0..Len(wire) : wire' = Append(SubSeq(wire, 1, n), Frame("end"))

Break ==
  /\ con.at # "off" /\ Fault
  /\ con' = NoCon /\ Lose /\ UNCHANGED <<head, log, up, poller, es, screen>>

Die ==
  /\ up /\ Fault
  /\ up' = FALSE /\ con' = NoCon /\ poller' = [last |-> 0, batch |-> <<>>]
  /\ IF con.at = "off" THEN UNCHANGED wire ELSE Lose
  /\ \/ fetch.at # "sent" /\ UNCHANGED fetch
     \/ fetch.at \in {"sent", "read"} /\ fetch' = Lost
  /\ UNCHANGED <<head, log, es, got, due, refresh, cache>>

\* startCDC: the poller begins at the end of the log.
Start ==
  /\ ~up /\ up' = TRUE /\ poller' = [poller EXCEPT !.last = Latest]
  /\ UNCHANGED <<head, log, con, wire, es, screen, faults>>

-----------------------------------------------------------------------------
(* The renderer.                                                            *)

\* An open stream and each event make an invalidation due.
Receive ==
  /\ wire # <<>> /\ wire' = Tail(wire)
  /\ LET f == Head(wire)
     IN  \/ f.k = "open" /\ es' = [es EXCEPT !.at = "open"] /\ due' = TRUE /\ UNCHANGED got
         \/ /\ f.k = "event" /\ es' = [es EXCEPT !.last = f.seq] /\ got' = got \cup {f.seq}
            /\ due' = TRUE
         \/ f.k = "end" /\ es' = [es EXCEPT !.at = "connecting"] /\ UNCHANGED <<got, due>>
         \/ f.k = "refused" /\ es' = [es EXCEPT !.at = "closed"] /\ UNCHANGED <<got, due>>
  /\ UNCHANGED <<server, refresh, fetch, cache, faults>>

\* scheduleRetry: a new EventSource, which knows of no event.
Retry ==
  /\ es.at = "closed" /\ es' = [at |-> "connecting", last |-> 0]
  /\ UNCHANGED <<server, wire, screen, faults>>

Ask == fetch' = IF up THEN [Idle EXCEPT !.at = "sent"] ELSE Lost

\* Faulty: a request that is on its way is taken to bring the change.
Joined == FALSE
\* A request that is on its way may have been answered before the change.
Early == fetch.at # "idle"

\* invalidate: one refresh at a time, and one more after it if something came meanwhile.
Flush ==
  /\ due /\ due' = FALSE
  /\ IF refresh.on THEN refresh' = [refresh EXCEPT !.dirty = TRUE] /\ UNCHANGED fetch
     ELSE /\ refresh' = [on |-> TRUE, dirty |-> Early]
          /\ IF fetch.at = "idle" THEN Ask ELSE UNCHANGED fetch
  /\ UNCHANGED <<server, wire, es, got, cache, faults>>

\* The query is mounted, or polls.
Fetch ==
  /\ fetch.at = "idle" /\ Ask /\ UNCHANGED <<server, wire, es, got, due, refresh, cache, faults>>

Answer ==
  /\ fetch.at = "sent" /\ fetch' = [at |-> "read", seen |-> head]
  /\ UNCHANGED <<server, wire, es, got, due, refresh, cache, faults>>

Settle ==
  /\ refresh' = [on |-> refresh.dirty, dirty |-> FALSE]
  /\ IF refresh.dirty THEN Ask ELSE fetch' = Idle
  /\ UNCHANGED <<server, wire, es, got, due, faults>>

Fetched == fetch.at = "read" /\ cache' = fetch.seen /\ Settle

\* The daemon did not answer.
FetchFails == fetch.at = "lost" /\ UNCHANGED cache /\ Settle

Next ==
  \/ Write \/ Prune \/ Poll \/ Publish
  \/ Connect \/ Refuse \/ ReadCursor \/ Subscribe \/ Replay \/ GoLive \/ SendLive \/ CutOff
  \/ Break \/ Die \/ Start
  \/ Receive \/ Retry \/ Flush \/ Fetch \/ Answer \/ Fetched \/ FetchFails

Spec     == Init /\ [][Next]_vars
Fairness ==
  /\ WF_vars(Poll) /\ WF_vars(Publish) /\ WF_vars(Connect) /\ WF_vars(ReadCursor)
  /\ WF_vars(Subscribe) /\ WF_vars(Replay) /\ WF_vars(GoLive) /\ WF_vars(SendLive) /\ WF_vars(CutOff)
  /\ WF_vars(Start) /\ WF_vars(Receive) /\ WF_vars(Retry) /\ WF_vars(Flush)
  /\ WF_vars(Answer) /\ WF_vars(Fetched) /\ WF_vars(FetchFails)
FairSpec == Spec /\ Fairness

-----------------------------------------------------------------------------
(* Correctness.                                                             *)

\* The cursor never passes an event: what lies behind the Last-Event-ID of the client has
\* reached it, or retention has taken it, so a stream that resumes there leaves nothing out.
NothingSkipped == \A e \in log : e <= es.last => e \in got

\* Whatever breaks, restarts, overflows or is pruned, a change is seen on the screen.
SeenOnScreen == \A v \in Seqs : (head >= v) ~> (cache >= v)

=============================================================================

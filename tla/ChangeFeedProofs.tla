--------------------------- MODULE ChangeFeedProofs ---------------------------
(***************************************************************************)
(* Proofs about the change feed, for any length of buffer and batch and    *)
(* any number of events and faults: the cursor of a client passes no event *)
(* it has not had, whatever overflows, breaks, dies or is pruned.          *)
(***************************************************************************)
EXTENDS ChangeFeed, TLAPS, SequenceTheorems, WellFoundedInduction

\* A daemon that is down streams nothing, and a stream collects from its subscription on.
Collects ==
  /\ ~up => con.at = "off" /\ poller.batch = <<>>
  /\ ~Subscribed => con.buf = <<>> /\ ~con.gap

\* The batch of the poller is what the log has next, in order.
BatchNext ==
  /\ \A i \in 1..Len(poller.batch) :
       poller.batch[i] > poller.last /\ \A j \in 1..i - 1 : poller.batch[j] < poller.batch[i]
  /\ \A i \in 1..Len(poller.batch), e \in log :
       e > poller.last /\ e <= poller.batch[i] => \E j \in 1..i : poller.batch[j] = e

\* The buffer is in order, and behind the poller.
BufferOrdered ==
  \A i \in 1..Len(con.buf) :
    con.buf[i] <= poller.last /\ \A j \in 1..i - 1 : con.buf[j] < con.buf[i]

\* Once a stream has replayed, what it has not sent is in its buffer, or still to be
\* published; if the buffer overflowed, behind all that is in it.
Buffered(e) == \E i \in 1..Len(con.buf) : con.buf[i] = e
BufferWhole ==
  con.at \in {"replayed", "live"} =>
    \A e \in log :
      \/ e <= con.sent \/ Buffered(e)
      \/ IF con.gap THEN \A i \in 1..Len(con.buf) : con.buf[i] < e ELSE e > poller.last

\* What a frame on the wire leaves behind is before it on the wire, or has arrived.
Passed(e, n) == e \in got \/ \E i \in 1..n : wire[i] = Event(e)
WireWhole ==
  \A i \in 1..Len(wire) : wire[i].k = "event" =>
    \A e \in log : e <= wire[i].seq => Passed(e, i)

\* What the stream leaves behind is on the wire, or has arrived.
SentWhole == con.at # "off" => \A e \in log : e <= con.sent => Passed(e, Len(wire))

FeedInv ==
  /\ Collects /\ BatchNext /\ BufferOrdered /\ BufferWhole
  /\ WireWhole /\ SentWhole /\ NothingSkipped

-----------------------------------------------------------------------------
(* Data.                                                                    *)

LEMMA Widen ==
  ASSUME NEW S, NEW T, S \subseteq T
  PROVE  Seq(S) \subseteq Seq(T)
BY SeqDef

LEMMA EventFrame ==
  ASSUME NEW n, NEW e \in 1..n
  PROVE  Event(e) \in Frames(n) /\ Event(e).k = "event" /\ Event(e).seq = e
BY DEF Event, Frames

LEMMA Bounds ==
  ASSUME TypeOK
  PROVE  /\ head \in Nat /\ MaxEvents \in Nat /\ MaxFaults \in Nat /\ Batch \in Nat
         /\ Buffer \in Nat /\ log \subseteq 1..head /\ log \subseteq 0..head /\ log \subseteq Nat
<1>1. /\ head \in Nat /\ MaxEvents \in Nat /\ MaxFaults \in Nat /\ Batch \in Nat
      /\ Buffer \in Nat /\ log \subseteq 1..head /\ head <= MaxEvents
  BY FeedAssumption DEF TypeOK
<1> QED BY <1>1

\* A log that is not empty has a last event.
LEMMA LatestFacts ==
  ASSUME NEW n \in Nat, log \subseteq 1..n
  PROVE  Latest \in 0..n
<1> DEFINE S == log \cup {0}
           T == {n - i : i \in S}
<1>1. S \subseteq 0..n /\ T \in SUBSET Nat /\ T # {}
  <2>1. \A i \in S : i \in 0..n /\ n - i \in Nat
    OBVIOUS
  <2>2. T # {}
    OBVIOUS
  <2> QED BY <2>1, <2>2
<1>2. PICK x \in T : \A y \in T : ~(<<y, x>> \in OpToRel(<, Nat))
  BY <1>1, NatLessThanWellFounded, WFMin
<1>3. PICK i \in S : x = n - i
  BY <1>2
<1>4. \A j \in S : n - j \in T /\ ~(n - j < x)
  BY <1>1, <1>2 DEF OpToRel
<1>5. \A j \in S : i >= j
  BY <1>1, <1>3, <1>4
<1>6. Latest \in S
  BY <1>5 DEF Latest, Max
<1> QED BY <1>1, <1>6

\* A page is in order, begins after the cursor, leaves nothing out on its way, and nothing
\* at all if it is not full.
LEMMA PageFacts ==
  ASSUME log \subseteq Nat, NEW n \in Nat, NEW page \in After(n)
  PROVE  /\ page \in Seq(Later(n)) /\ DOMAIN page = 1..Len(page) /\ Len(page) \in Nat
         /\ \A i \in 1..Len(page) : page[i] \in log /\ page[i] > n
         /\ \A i \in 1..Len(page) : \A j \in 1..i - 1 : page[j] < page[i]
         /\ \A i \in 1..Len(page), e \in log :
              e > n /\ e <= page[i] => \E j \in 1..i : page[j] = e
         /\ Len(page) < Batch =>
              \A e \in log : e > n => \E j \in 1..Len(page) : page[j] = e
<1>1. PICK m \in 0..Batch : page \in [1..m -> Later(n)]
  BY DEF After, SeqOf
<1>2. m \in Nat
  BY FeedAssumption
<1>3. page \in Seq(Later(n))
  BY <1>1, <1>2, SeqDef
<1>4. DOMAIN page = 1..Len(page) /\ Len(page) \in Nat
  BY <1>3, LenProperties
<1>5. \A i \in 1..Len(page) : page[i] \in Later(n)
  BY <1>3, ElementOfSeq
<1>6. \A i \in 1..Len(page) : {e \in Later(n) : e < page[i]} = {page[j] : j \in 1..i - 1}
  BY <1>4 DEF After
<1>7. \A i \in 1..Len(page) : page[i] \in log /\ page[i] > n
  BY <1>5 DEF Later
<1>8. \A i \in 1..Len(page) : \A j \in 1..i - 1 : page[j] < page[i]
  BY <1>6
<1>9. ASSUME NEW i \in 1..Len(page), NEW e \in log, e > n, e <= page[i]
      PROVE  \E j \in 1..i : page[j] = e
  <2>1. CASE e = page[i]
    BY <2>1, <1>4
  <2>2. CASE e < page[i]
    <3>1. e \in {page[j] : j \in 1..i - 1}
      BY <2>2, <1>6, <1>9 DEF Later
    <3> QED BY <3>1, <1>4
  <2>3. e \in Nat /\ page[i] \in Nat
    BY <1>7
  <2> QED BY <1>9, <2>1, <2>2, <2>3
<1>10. ASSUME Len(page) < Batch, NEW e \in log, e > n
       PROVE  \E j \in 1..Len(page) : page[j] = e
  <2>1. e \in Range(page)
    BY <1>10 DEF After, Later
  <2> QED BY <2>1, <1>4 DEF Range
<1> QED BY <1>3, <1>4, <1>7, <1>8, <1>9, <1>10

\* What a page adds to the wire.
LEMMA AppendPage ==
  ASSUME TypeOK, NEW page \in After(con.sent),
         wire' = wire \o [i \in DOMAIN page |-> Event(page[i])]
  PROVE  /\ wire' \in Seq(Frames(head)) /\ Len(wire') = Len(wire) + Len(page)
         /\ \A i \in 1..Len(wire) : wire'[i] = wire[i]
         /\ \A i \in 1..Len(page) : wire'[Len(wire) + i] = Event(page[i])
         /\ \A i \in Len(wire) + 1..Len(wire') :
              i - Len(wire) \in 1..Len(page) /\ wire'[i] = Event(page[i - Len(wire)])
<1> DEFINE new == [i \in DOMAIN page |-> Event(page[i])]
<1>1. /\ DOMAIN page = 1..Len(page) /\ Len(page) \in Nat
      /\ \A i \in 1..Len(page) : page[i] \in log
  <2>1. con.sent \in Nat /\ log \subseteq Nat
    BY Bounds DEF TypeOK
  <2> QED BY <2>1, PageFacts
<1>2. \A i \in 1..Len(page) : Event(page[i]) \in Frames(head)
  <2>1. \A i \in 1..Len(page) : page[i] \in 1..head
    BY <1>1, Bounds
  <2> QED BY <2>1, EventFrame
<1>3. new \in [1..Len(page) -> Frames(head)]
  BY <1>1, <1>2
<1>4. new \in Seq(Frames(head)) /\ Len(new) = Len(page)
  <2>1. new \in Seq(Frames(head))
    BY <1>1, <1>3, SeqDef
  <2>2. DOMAIN new = 1..Len(new) /\ Len(new) \in Nat
    BY <2>1, LenProperties
  <2>3. DOMAIN new = 1..Len(page)
    BY <1>1
  <2> QED BY <1>1, <2>1, <2>2, <2>3
<1>5. wire \in Seq(Frames(head)) /\ Len(wire) \in Nat
  BY LenProperties DEF TypeOK
<1>6. /\ wire \o new \in Seq(Frames(head)) /\ Len(wire \o new) = Len(wire) + Len(new)
      /\ \A i \in 1..Len(wire) + Len(new) :
           (wire \o new)[i] = IF i <= Len(wire) THEN wire[i] ELSE new[i - Len(wire)]
  BY <1>4, <1>5, ConcatProperties
<1>7. \A i \in 1..Len(page) : new[i] = Event(page[i])
  BY <1>1
<1> HIDE DEF new
<1>8. wire' = wire \o new
  BY DEF new
<1>9. /\ wire' \in Seq(Frames(head)) /\ Len(wire') = Len(wire) + Len(page)
      /\ \A i \in 1..Len(wire) : wire'[i] = wire[i]
  BY <1>1, <1>4, <1>5, <1>6, <1>8
<1>10. ASSUME NEW i \in 1..Len(page)
       PROVE  wire'[Len(wire) + i] = Event(page[i])
  BY <1>1, <1>4, <1>5, <1>6, <1>7, <1>8
<1>11. ASSUME NEW i \in Len(wire) + 1..Len(wire')
       PROVE  i - Len(wire) \in 1..Len(page) /\ wire'[i] = Event(page[i - Len(wire)])
  <2>1. i - Len(wire) \in 1..Len(page) /\ i = Len(wire) + (i - Len(wire))
    BY <1>1, <1>5, <1>9
  <2> QED BY <2>1, <1>10
<1> QED BY <1>9, <1>10, <1>11

\* What one more frame adds to it.
LEMMA AppendFrame ==
  ASSUME TypeOK, NEW f \in Frames(head), wire' = Append(wire, f)
  PROVE  /\ wire' \in Seq(Frames(head)) /\ Len(wire') = Len(wire) + 1
         /\ \A i \in 1..Len(wire) : wire'[i] = wire[i]
         /\ wire'[Len(wire) + 1] = f
BY AppendProperties DEF TypeOK

\* What is left of it when the connection breaks.
LEMMA LoseFacts ==
  ASSUME TypeOK, Lose
  PROVE  /\ wire' \in Seq(Frames(head)) /\ Len(wire') \in 1..Len(wire) + 1
         /\ \A i \in 1..Len(wire') - 1 : wire'[i] = wire[i]
         /\ wire'[Len(wire')] = Frame("end")
<1>1. PICK n \in 0..Len(wire) : wire' = Append(SubSeq(wire, 1, n), Frame("end"))
  BY DEF Lose
<1> DEFINE cut == SubSeq(wire, 1, n)
<1>2. wire \in Seq(Frames(head)) /\ Len(wire) \in Nat /\ n \in Nat
  BY LenProperties DEF TypeOK
<1>3. \A i \in 1..n : wire[i] \in Frames(head)
  BY <1>2, ElementOfSeq
<1>4. /\ cut \in Seq(Frames(head)) /\ Len(cut) = n
      /\ \A i \in 1..n : cut[i] = wire[i]
  <2>1. /\ cut \in Seq(Frames(head)) /\ Len(cut) = IF 1 <= n THEN n - 1 + 1 ELSE 0
        /\ \A i \in 1..n - 1 + 1 : cut[i] = wire[1 + i - 1]
    BY <1>2, <1>3, SubSeqProperties
  <2> QED BY <1>2, <2>1
<1>5. Frame("end") \in Frames(head)
  BY DEF Frame, Frames, TypeOK
<1> HIDE DEF cut
<1>6. /\ Append(cut, Frame("end")) \in Seq(Frames(head))
      /\ Len(Append(cut, Frame("end"))) = Len(cut) + 1
      /\ \A i \in 1..Len(cut) : Append(cut, Frame("end"))[i] = cut[i]
      /\ Append(cut, Frame("end"))[Len(cut) + 1] = Frame("end")
  BY <1>4, <1>5, AppendProperties
<1>7. wire' = Append(cut, Frame("end"))
  BY <1>1 DEF cut
<1> QED BY <1>2, <1>4, <1>6, <1>7

-----------------------------------------------------------------------------
(* Typing, action by action.                                                *)

\* What a screen action, or the client, may change.
ScreenType ==
  /\ got \subseteq 1..head /\ due \in BOOLEAN /\ refresh \in [on : BOOLEAN, dirty : BOOLEAN]
  /\ fetch \in [at : {"idle", "sent", "read", "lost"}, seen : 0..head] /\ cache \in 0..head
ClientType == es \in [at : {"connecting", "asked", "open", "closed"}, last : 0..head]
PollerType == poller \in [last : 0..head, batch : Seq(1..head)]
StreamType ==
  con \in [at : {"off", "asked", "cursor", "replay", "replayed", "live"}, sent : 0..head,
           buf : Seq(1..head), gap : BOOLEAN]
LogType    == head \in 0..MaxEvents /\ log \subseteq 1..head /\ up \in BOOLEAN
WireType   == wire \in Seq(Frames(head))

LEMMA TypedParts ==
  TypeOK <=> /\ LogType /\ PollerType /\ StreamType /\ WireType /\ ClientType /\ ScreenType
             /\ faults \in 0..MaxFaults
BY DEF TypeOK, LogType, PollerType, StreamType, WireType, ClientType, ScreenType

LEMMA TypedThen ==
  TypeOK' <=> /\ LogType' /\ PollerType' /\ StreamType' /\ WireType' /\ ClientType' /\ ScreenType'
              /\ faults' \in 0..MaxFaults
BY DEF TypeOK, LogType, PollerType, StreamType, WireType, ClientType, ScreenType

LEMMA InitTyped == Init => TypeOK
<1> SUFFICES ASSUME Init PROVE TypeOK
  OBVIOUS
<1>1. <<>> \in Seq(1..head) /\ <<>> \in Seq(Frames(head))
  BY EmptySeq
<1>2. LogType /\ faults \in 0..MaxFaults
  BY FeedAssumption DEF Init, LogType
<1>3. PollerType
  BY <1>1 DEF Init, PollerType
<1>4. StreamType
  BY <1>1 DEF Init, StreamType, NoCon
<1>5. WireType
  BY <1>1 DEF Init, WireType
<1>6. ClientType
  BY DEF Init, ClientType
<1>7. ScreenType
  <2>1. refresh \in [on : BOOLEAN, dirty : BOOLEAN]
    BY DEF Init
  <2>2. fetch \in [at : {"idle", "sent", "read", "lost"}, seen : 0..head] /\ cache \in 0..head
    BY DEF Init, Idle
  <2> QED BY <2>1, <2>2 DEF Init, ScreenType
<1> QED BY <1>2, <1>3, <1>4, <1>5, <1>6, <1>7, TypedParts

\* A log that grows widens every type.
LEMMA WriteTyped == ASSUME TypeOK, Write PROVE TypeOK'
<1>1. head \in Nat /\ head' = head + 1 /\ head' \in 0..MaxEvents
  BY Bounds DEF Write
<1>2. 1..head \subseteq 1..head' /\ 0..head \subseteq 0..head'
  BY <1>1
<1>3. Frames(head) \subseteq Frames(head')
  BY <1>2 DEF Frames
<1>4. Seq(1..head) \subseteq Seq(1..head') /\ Seq(Frames(head)) \subseteq Seq(Frames(head'))
  BY <1>2, <1>3, Widen
<1>5. LogType'
  BY <1>1, <1>2, TypedParts DEF Write, LogType
<1>6. PollerType' /\ StreamType'
  BY <1>2, <1>4, TypedParts DEF Write, PollerType, StreamType
<1>7. WireType' /\ ClientType' /\ ScreenType'
  BY <1>2, <1>4, TypedParts DEF Write, WireType, ClientType, ScreenType, screen
<1>8. (faults \in 0..MaxFaults)'
  BY TypedParts DEF Write
<1> QED BY <1>5, <1>6, <1>7, <1>8, TypedThen

LEMMA PruneTyped == ASSUME TypeOK, Prune PROVE TypeOK'
BY TypedParts, TypedThen
DEF Prune, LogType, PollerType, StreamType, WireType, ClientType, ScreenType, screen

LEMMA PollTyped == ASSUME TypeOK, Poll PROVE TypeOK'
<1>1. PICK page \in After(poller.last) : poller' = [poller EXCEPT !.batch = page]
  BY DEF Poll
<1>2. poller.last \in Nat /\ log \subseteq Nat /\ log \subseteq 1..head
  BY Bounds, TypedParts DEF PollerType
<1>3. page \in Seq(Later(poller.last))
  BY <1>2, PageFacts
<1>4. page \in Seq(1..head)
  BY <1>2, <1>3, Widen DEF Later
<1>5. PollerType'
  BY <1>1, <1>4, TypedParts DEF Poll, PollerType
<1> QED
  BY <1>5, TypedParts, TypedThen
     DEF Poll, LogType, StreamType, WireType, ClientType, ScreenType, screen

LEMMA PublishTyped == ASSUME TypeOK, Publish PROVE TypeOK'
<1>1. poller.batch \in Seq(1..head) /\ poller.batch # <<>> /\ con.buf \in Seq(1..head)
  BY TypedParts DEF Publish, PollerType, StreamType
<1>2. Head(poller.batch) \in 1..head /\ Tail(poller.batch) \in Seq(1..head)
  BY <1>1, HeadTailProperties
<1>3. Append(con.buf, Head(poller.batch)) \in Seq(1..head)
  BY <1>1, <1>2, AppendProperties
<1>4. PollerType'
  BY <1>2, Bounds DEF Publish, PollerType
<1>5. StreamType'
  BY <1>3, TypedParts DEF Publish, StreamType
<1> QED
  BY <1>4, <1>5, TypedParts, TypedThen DEF Publish, LogType, WireType, ClientType, ScreenType, screen

LEMMA FrameTyped ==
  ASSUME TypeOK, NEW k \in {"open", "end", "refused"}
  PROVE  Frame(k) \in Frames(head)
BY DEF Frames

\* What opens, moves or ends a stream.
LEMMA StreamTyped ==
  ASSUME TypeOK, Connect \/ Refuse \/ ReadCursor \/ Subscribe \/ GoLive \/ CutOff \/ Break
  PROVE  TypeOK'
<1>1. <<>> \in Seq(1..head)
  BY EmptySeq
<1>2. NoCon \in [at : {"off"}, sent : 0..head, buf : Seq(1..head), gap : BOOLEAN]
  BY <1>1, Bounds DEF NoCon
<1>3. Latest \in 0..head
  BY Bounds, LatestFacts
<1>4. LogType' /\ PollerType' /\ ScreenType'
  BY TypedParts DEF Connect, Refuse, ReadCursor, Subscribe, GoLive, CutOff, Break, LogType,
     PollerType, ScreenType, screen
<1>5. StreamType'
  BY <1>2, <1>3, TypedParts DEF Connect, Refuse, ReadCursor, Subscribe, GoLive, CutOff, Break,
     StreamType, NoCon, ClientType
<1>6. ClientType'
  BY TypedParts DEF Connect, Refuse, ReadCursor, Subscribe, GoLive, CutOff, Break, ClientType
<1>7. WireType'
  <2>1. CASE UNCHANGED wire
    BY <2>1, TypedParts DEF WireType, Connect, Refuse, ReadCursor, Subscribe, GoLive, CutOff, Break
  <2>2. CASE Refuse
    <3>1. <<>> \in Seq(Frames(head)) /\ Frame("refused") \in Frames(head)
      BY EmptySeq, FrameTyped
    <3>2. wire' = <<Frame("refused")>> /\ head' = head
      BY <2>2 DEF Refuse
    <3> QED BY <3>1, <3>2 DEF WireType
  <2>3. CASE Subscribe
    <3>1. Frame("open") \in Frames(head) /\ wire' = Append(wire, Frame("open"))
      BY <2>3, FrameTyped DEF Subscribe
    <3> QED BY <2>3, <3>1, AppendFrame DEF WireType, Subscribe
  <2>4. CASE CutOff
    <3>1. Frame("end") \in Frames(head) /\ wire' = Append(wire, Frame("end"))
      BY <2>4, FrameTyped DEF CutOff
    <3> QED BY <2>4, <3>1, AppendFrame DEF WireType, CutOff
  <2>5. CASE Break
    BY <2>5, LoseFacts DEF WireType, Break
  <2> QED BY <2>1, <2>2, <2>3, <2>4, <2>5 DEF Connect, ReadCursor, GoLive
<1>8. faults' \in 0..MaxFaults
  BY TypedParts, Bounds DEF Connect, Refuse, ReadCursor, Subscribe, GoLive, CutOff, Break, Fault
<1> QED BY <1>4, <1>5, <1>6, <1>7, <1>8, TypedThen

LEMMA ReplayTyped == ASSUME TypeOK, Replay PROVE TypeOK'
<1>1. PICK page \in After(con.sent) :
        /\ wire' = wire \o [i \in DOMAIN page |-> Event(page[i])]
        /\ con' = [con EXCEPT !.sent = IF page = <<>> THEN @ ELSE page[Len(page)],
                              !.at = IF Len(page) < Batch THEN "replayed" ELSE "replay"]
  BY DEF Replay
<1>2. con.sent \in Nat /\ con.sent \in 0..head
  BY Bounds, TypedParts DEF StreamType
<1>3. page # <<>> => page[Len(page)] \in 0..head
  <2>1. /\ page \in Seq(Later(con.sent))
        /\ \A i \in 1..Len(page) : page[i] \in log
    BY <1>2, Bounds, PageFacts
  <2>2. page # <<>> => Len(page) \in 1..Len(page)
    BY <2>1, EmptySeq
  <2> QED BY <2>1, <2>2, Bounds
<1>4. StreamType'
  BY <1>1, <1>2, <1>3, TypedParts DEF Replay, StreamType
<1>5. WireType'
  BY <1>1, AppendPage DEF Replay, WireType
<1> QED
  BY <1>4, <1>5, TypedParts, TypedThen DEF Replay, LogType, PollerType, ClientType, ScreenType, screen

LEMMA SendLiveTyped == ASSUME TypeOK, SendLive PROVE TypeOK'
<1>1. con.buf \in Seq(1..head) /\ con.buf # <<>>
  BY TypedParts DEF SendLive, StreamType
<1>2. Head(con.buf) \in 1..head /\ Tail(con.buf) \in Seq(1..head)
  BY <1>1, HeadTailProperties
<1>3. Head(con.buf) \in 0..head
  BY <1>2, Bounds
<1>4. StreamType'
  BY <1>2, <1>3, TypedParts DEF SendLive, StreamType
<1>5. WireType'
  <2>1. CASE UNCHANGED wire
    BY <2>1, TypedParts DEF SendLive, WireType
  <2>2. CASE wire' = Append(wire, Event(Head(con.buf)))
    BY <2>2, <1>2, AppendFrame, EventFrame DEF SendLive, WireType
  <2> QED BY <2>1, <2>2 DEF SendLive
<1> QED
  BY <1>4, <1>5, TypedParts, TypedThen
     DEF SendLive, LogType, PollerType, ClientType, ScreenType, screen

\* Deaths and starts of the daemon.
LEMMA DaemonTyped == ASSUME TypeOK, Die \/ Start PROVE TypeOK'
<1>1. <<>> \in Seq(1..head) /\ Latest \in 0..head
  BY EmptySeq, Bounds, LatestFacts
<1>2. LogType' /\ ClientType'
  BY TypedParts DEF Die, Start, LogType, ClientType
<1>3. PollerType' /\ StreamType'
  <2>1. CASE Die
    BY <1>1, <2>1, Bounds DEF Die, PollerType, StreamType, NoCon
  <2>2. CASE Start
    BY <1>1, <2>2, TypedParts DEF Start, PollerType, StreamType
  <2> QED BY <2>1, <2>2
<1>4. WireType'
  <2>1. CASE UNCHANGED wire
    BY <2>1, TypedParts DEF WireType, Die, Start
  <2>2. CASE Lose /\ head' = head
    BY <2>2, LoseFacts DEF WireType
  <2> QED BY <2>1, <2>2 DEF Die, Start
<1>5. ScreenType'
  BY Bounds, TypedParts DEF ScreenType, Die, Start, Lost, screen
<1>6. faults' \in 0..MaxFaults
  BY TypedParts, Bounds DEF Die, Start, Fault
<1> QED BY <1>2, <1>3, <1>4, <1>5, <1>6, TypedThen

LEMMA ReceiveTyped == ASSUME TypeOK, Receive PROVE TypeOK'
<1>1. wire \in Seq(Frames(head)) /\ wire # <<>>
  BY TypedParts DEF Receive, WireType
<1>2. Head(wire) \in Frames(head) /\ Tail(wire) \in Seq(Frames(head))
  BY <1>1, HeadTailProperties
<1>3. Head(wire).seq \in 0..head /\ (Head(wire).k = "event" => Head(wire).seq \in 1..head)
  BY <1>2, Bounds DEF Frames, Frame, Event
<1>4. WireType' /\ LogType' /\ PollerType' /\ StreamType' /\ faults' \in 0..MaxFaults
  BY <1>2, TypedParts DEF Receive, WireType, LogType, PollerType, StreamType, server
<1>5. ClientType'
  BY <1>3, TypedParts DEF Receive, ClientType, server
<1>6. ScreenType'
  BY <1>3, TypedParts DEF Receive, ScreenType, server
<1> QED BY <1>4, <1>5, <1>6, TypedThen

\* What the renderer does by itself.
LEMMA ScreenTyped ==
  ASSUME TypeOK, Retry \/ Flush \/ Fetch \/ Answer \/ Fetched \/ FetchFails
  PROVE  TypeOK'
<1>1. LogType' /\ PollerType' /\ StreamType' /\ WireType' /\ faults' \in 0..MaxFaults
  BY TypedParts DEF Retry, Flush, Fetch, Answer, Fetched, FetchFails, Settle, LogType, PollerType,
     StreamType, WireType, server
<1>2. ClientType'
  BY Bounds, TypedParts
     DEF Retry, Flush, Fetch, Answer, Fetched, FetchFails, Settle, ClientType, server
<1>3. Ask => fetch' \in [at : {"idle", "sent", "read", "lost"}, seen : 0..head]
  BY Bounds DEF Ask, Idle, Lost
<1>4. Idle \in [at : {"idle", "sent", "read", "lost"}, seen : 0..head]
  BY Bounds DEF Idle
<1>5. ScreenType'
  <2>1. CASE Retry
    BY <2>1, TypedParts DEF Retry, ScreenType, server, screen
  <2>2. CASE Flush
    <3>1. Early \in BOOLEAN /\ refresh \in [on : BOOLEAN, dirty : BOOLEAN]
      BY TypedParts DEF Early, ScreenType
    <3>2. refresh' \in [on : BOOLEAN, dirty : BOOLEAN]
      <4>1. CASE refresh.on
        BY <2>2, <3>1, <4>1 DEF Flush
      <4>2. CASE ~refresh.on
        <5>1. \A b \in BOOLEAN : [on |-> TRUE, dirty |-> b] \in [on : BOOLEAN, dirty : BOOLEAN]
          OBVIOUS
        <5>2. refresh' = [on |-> TRUE, dirty |-> Early]
          BY <2>2, <4>2 DEF Flush
        <5> QED BY <3>1, <5>1, <5>2
      <4> QED BY <4>1, <4>2
    <3>3. fetch' \in [at : {"idle", "sent", "read", "lost"}, seen : 0..head]
      BY <2>2, <1>3, TypedParts DEF Flush, ScreenType
    <3> QED BY <2>2, <3>2, <3>3, TypedParts DEF Flush, ScreenType, server
  <2>3. CASE Fetch
    BY <2>3, <1>3, TypedParts DEF Fetch, ScreenType, server
  <2>4. CASE Answer
    BY <2>4, Bounds, TypedParts DEF Answer, ScreenType, server
  <2>5. CASE Fetched
    <3>1. cache' \in 0..head' /\ fetch' \in [at : {"idle", "sent", "read", "lost"}, seen : 0..head']
      BY <2>5, <1>3, <1>4, TypedParts DEF Fetched, Settle, ScreenType, server
    <3> QED BY <2>5, <3>1, TypedParts DEF Fetched, Settle, ScreenType, server
  <2>6. CASE FetchFails
    BY <2>6, <1>3, <1>4, TypedParts DEF FetchFails, Settle, ScreenType, server
  <2> QED BY <2>1, <2>2, <2>3, <2>4, <2>5, <2>6
<1> QED BY <1>1, <1>2, <1>5, TypedThen

LEMMA TypeStep == TypeOK /\ [Next]_vars => TypeOK'
<1> SUFFICES ASSUME TypeOK, [Next]_vars PROVE TypeOK'
  OBVIOUS
<1>1. CASE UNCHANGED vars
  BY <1>1 DEF vars, server, screen, TypeOK
<1>2. CASE Next
  BY <1>2, WriteTyped, PruneTyped, PollTyped, PublishTyped, StreamTyped, ReplayTyped,
     SendLiveTyped, DaemonTyped, ReceiveTyped, ScreenTyped DEF Next
<1> QED BY <1>1, <1>2

\* Nothing that is not written is ever read, buffered, sent or counted as had, and every cursor
\* stays within the log's head.
THEOREM FeedTyped == Spec => []TypeOK
BY InitTyped, TypeStep, PTL DEF Spec

-----------------------------------------------------------------------------
(* No event is passed over, action by action.                               *)

LEMMA Elements ==
  ASSUME TypeOK
  PROVE  /\ con.buf \in Seq(1..head) /\ Len(con.buf) \in Nat
         /\ \A i \in 1..Len(con.buf) : con.buf[i] \in 1..head /\ con.buf[i] \in Nat
         /\ poller.batch \in Seq(1..head) /\ Len(poller.batch) \in Nat
         /\ \A i \in 1..Len(poller.batch) : poller.batch[i] \in 1..head /\ poller.batch[i] \in Nat
         /\ wire \in Seq(Frames(head)) /\ Len(wire) \in Nat
         /\ \A i \in 1..Len(wire) : wire[i] \in Frames(head) /\ wire[i].seq \in 0..head
<1>1. head \in Nat
  BY Bounds
<1>2. con.buf \in Seq(1..head) /\ poller.batch \in Seq(1..head) /\ wire \in Seq(Frames(head))
  BY DEF TypeOK
<1>3. Len(con.buf) \in Nat /\ Len(poller.batch) \in Nat /\ Len(wire) \in Nat
  BY <1>2, LenProperties
<1>4. \A i \in 1..Len(con.buf) : con.buf[i] \in 1..head
  BY <1>2, ElementOfSeq
<1>5. \A i \in 1..Len(poller.batch) : poller.batch[i] \in 1..head
  BY <1>2, ElementOfSeq
<1>6. \A i \in 1..Len(wire) : wire[i] \in Frames(head)
  BY <1>2, ElementOfSeq
<1>7. \A f \in Frames(head) : f.seq \in 0..head
  BY <1>1 DEF Frames, Event, Frame
<1> QED BY <1>1, <1>2, <1>3, <1>4, <1>5, <1>6, <1>7

LEMMA InitFeed == Init => FeedInv
<1> SUFFICES ASSUME Init PROVE FeedInv
  OBVIOUS
<1>1. poller.batch = <<>> /\ con.buf = <<>> /\ wire = <<>> /\ log = {} /\ con.at = "off" /\ up
  BY DEF Init, NoCon
<1>2. Collects
  BY <1>1 DEF Init, NoCon, Collects
<1>3. BatchNext /\ BufferOrdered /\ BufferWhole
  BY <1>1 DEF BatchNext, BufferOrdered, BufferWhole
<1>4. WireWhole /\ SentWhole /\ NothingSkipped
  BY <1>1 DEF WireWhole, SentWhole, NothingSkipped
<1> QED BY <1>2, <1>3, <1>4 DEF FeedInv

\* What neither log, poller, stream nor wire has part in.
LEMMA Aside ==
  ASSUME FeedInv, TypeOK, UNCHANGED <<log, up, poller, con, wire, got>>,
         es'.last = es.last \/ es'.last = 0
  PROVE  FeedInv'
<1>1. Collects' /\ BatchNext' /\ BufferOrdered' /\ BufferWhole'
  BY DEF FeedInv, Collects, Subscribed, BatchNext, BufferOrdered, BufferWhole, Buffered
<1>2. WireWhole' /\ SentWhole'
  BY DEF FeedInv, WireWhole, SentWhole, Passed
<1>3. NothingSkipped'
  BY Bounds DEF FeedInv, NothingSkipped
<1> QED BY <1>1, <1>2, <1>3 DEF FeedInv

\* A new event is behind everything that is under way.
LEMMA WriteFeed == ASSUME TypeOK, FeedInv, Write PROVE FeedInv'
<1> DEFINE new == head + 1
<1>1. /\ UNCHANGED <<up, poller, con, wire, es, got>> /\ log' = log \cup {new} /\ head \in Nat
  BY Bounds DEF Write, screen
<1>2. \A i \in 1..Len(poller.batch) : poller.batch[i] < new
  BY <1>1, ElementOfSeq DEF TypeOK
<1>3. \A i \in 1..Len(con.buf) : con.buf[i] < new
  BY <1>1, ElementOfSeq DEF TypeOK
<1>4. \A i \in 1..Len(wire) : wire[i].k = "event" => wire[i].seq < new
  <2>1. \A i \in 1..Len(wire) : wire[i] \in Frames(head)
    BY ElementOfSeq DEF TypeOK
  <2> QED BY <1>1, <2>1 DEF Frames, Event, Frame
<1>5. poller.last < new /\ con.sent < new /\ es.last < new
  BY <1>1 DEF TypeOK
<1> HIDE DEF new
<1>6. new \in Nat /\ new \notin log
  BY <1>1, Bounds DEF new
<1>7. \A i \in 1..Len(poller.batch) : poller.batch[i] \in Nat
  BY <1>1, ElementOfSeq DEF TypeOK
<1>8. Collects'
  BY <1>1 DEF FeedInv, Collects, Subscribed
<1>9. BatchNext'
  BY <1>1, <1>2, <1>6, <1>7 DEF FeedInv, BatchNext
<1>10. BufferOrdered'
  BY <1>1 DEF FeedInv, BufferOrdered
<1>11. BufferWhole'
  BY <1>1, <1>3, <1>5 DEF FeedInv, BufferWhole, Buffered
<1>12. WireWhole'
  <2>1. SUFFICES ASSUME NEW i \in 1..Len(wire), wire[i].k = "event", NEW e \in log',
                        e <= wire[i].seq
                 PROVE  Passed(e, i)
    BY <1>1 DEF WireWhole, Passed
  <2>2. wire[i].seq \in Nat
    <3>1. wire[i] \in Frames(head)
      BY ElementOfSeq DEF TypeOK
    <3> QED BY <2>1, <3>1 DEF Frames, Event, Frame
  <2>3. e # new
    BY <1>4, <1>6, <2>1, <2>2
  <2> QED BY <1>1, <2>1, <2>3 DEF FeedInv, WireWhole
<1>13. SentWhole'
  <2>1. con.sent \in Nat
    BY Bounds DEF TypeOK
  <2> QED BY <1>1, <1>5, <1>6, <2>1 DEF FeedInv, SentWhole, Passed
<1>14. NothingSkipped'
  <2>1. es.last \in Nat
    BY Bounds DEF TypeOK
  <2> QED BY <1>1, <1>5, <1>6, <2>1 DEF FeedInv, NothingSkipped
<1> QED BY <1>8, <1>9, <1>10, <1>11, <1>12, <1>13, <1>14 DEF FeedInv

\* What retention takes need not be passed on.
LEMMA PruneFeed == ASSUME TypeOK, FeedInv, Prune PROVE FeedInv'
<1>1. UNCHANGED <<up, poller, con, wire, es, got>> /\ log' \subseteq log
  BY DEF Prune, screen
<1>2. Collects' /\ BatchNext' /\ BufferOrdered' /\ BufferWhole'
  BY <1>1 DEF FeedInv, Collects, Subscribed, BatchNext, BufferOrdered, BufferWhole, Buffered
<1>3. WireWhole' /\ SentWhole' /\ NothingSkipped'
  BY <1>1 DEF FeedInv, WireWhole, SentWhole, Passed, NothingSkipped
<1> QED BY <1>2, <1>3 DEF FeedInv

LEMMA PollFeed == ASSUME TypeOK, FeedInv, Poll PROVE FeedInv'
<1>1. /\ UNCHANGED <<up, log, con, wire, es, got>> /\ up
  BY DEF Poll, screen
<1>2. PICK page \in After(poller.last) : poller' = [poller EXCEPT !.batch = page]
  BY DEF Poll
<1>3. poller'.last = poller.last /\ poller'.batch = page
  BY <1>2 DEF TypeOK
<1>4. poller.last \in Nat /\ log \subseteq Nat
  BY Bounds DEF TypeOK
<1>5. Collects'
  BY <1>1 DEF FeedInv, Collects, Subscribed
<1>6. BatchNext'
  BY <1>1, <1>3, <1>4, PageFacts DEF BatchNext
<1>7. BufferOrdered' /\ BufferWhole'
  BY <1>1, <1>3 DEF FeedInv, BufferOrdered, BufferWhole, Buffered
<1>8. WireWhole' /\ SentWhole' /\ NothingSkipped'
  BY <1>1 DEF FeedInv, WireWhole, SentWhole, Passed, NothingSkipped
<1> QED BY <1>5, <1>6, <1>7, <1>8 DEF FeedInv

\* The event that is published is the next one after the poller's cursor, so a buffer that
\* takes it has everything up to it, and one that does not is closed to what follows.
LEMMA PublishFeed == ASSUME TypeOK, FeedInv, Publish PROVE FeedInv'
<1> DEFINE e == Head(poller.batch)
           b == poller.batch
<1>1. /\ UNCHANGED <<up, log, wire, es, got>> /\ up /\ b # <<>> /\ b \in Seq(1..head)
      /\ poller'.last = e /\ poller'.batch = Tail(b)
  BY DEF Publish, screen, TypeOK
<1>2. /\ Len(b) \in Nat \ {0} /\ e = b[1] /\ e \in 1..head /\ Len(Tail(b)) = Len(b) - 1
      /\ \A i \in 1..Len(Tail(b)) : Tail(b)[i] = b[i + 1]
  <2>1. Len(b) \in Nat \ {0}
    BY <1>1, EmptySeq
  <2>2. /\ Head(b) \in 1..head /\ Len(Tail(b)) = Len(b) - 1
        /\ \A i \in 1..Len(Tail(b)) : Tail(b)[i] = b[i + 1]
    BY <1>1, HeadTailProperties
  <2>3. Head(b) = b[1]
    BY <1>1, <2>1
  <2> QED BY <2>1, <2>2, <2>3
<1>3. \A i \in 1..Len(b) : b[i] \in Nat
  BY Elements
<1>4. poller.last \in Nat /\ e > poller.last /\ e \in Nat
  BY <1>2, <1>3, Bounds DEF TypeOK, FeedInv, BatchNext
<1>5. \A f \in log : f > poller.last => f >= e
  <2>1. SUFFICES ASSUME NEW f \in log, f > poller.last, f < e PROVE FALSE
    BY <1>4, Bounds
  <2>2. \E j \in 1..1 : b[j] = f
    BY <1>2, <1>4, <2>1, Bounds DEF FeedInv, BatchNext
  <2> QED BY <1>2, <1>4, <2>1, <2>2
<1> HIDE DEF e, b
<1>6. BatchNext'
  <2>1. SUFFICES ASSUME NEW i \in 1..Len(b) - 1
                 PROVE  /\ b[i + 1] > e
                        /\ \A j \in 1..i - 1 : b[j + 1] < b[i + 1]
                        /\ \A f \in log : f > e /\ f <= b[i + 1] =>
                             \E j \in 1..i : b[j + 1] = f
    BY <1>1, <1>2 DEF BatchNext
  <2>2. i + 1 \in 1..Len(b) /\ i \in Nat
    BY <1>2
  <2>3. \A k \in 1..i : b[k] < b[i + 1]
    BY <2>2 DEF FeedInv, BatchNext, b
  <2>4. b[i + 1] > e /\ \A j \in 1..i - 1 : b[j + 1] < b[i + 1]
    <3>1. 1 \in 1..i /\ \A j \in 1..i - 1 : j + 1 \in 1..i
      BY <2>2
    <3> QED BY <1>2, <1>3, <2>2, <2>3, <3>1
  <2>5. ASSUME NEW f \in log, f > e, f <= b[i + 1]
        PROVE  \E j \in 1..i : b[j + 1] = f
    <3>1. f \in Nat /\ f > poller.last
      BY <1>4, <2>5, Bounds
    <3>2. PICK k \in 1..i + 1 : b[k] = f
      BY <2>2, <2>5, <3>1 DEF FeedInv, BatchNext, b
    <3>3. k # 1
      BY <1>2, <1>4, <2>5, <3>2
    <3>4. k - 1 \in 1..i /\ b[(k - 1) + 1] = f
      BY <2>2, <3>2, <3>3
    <3> QED BY <3>4
  <2> QED BY <2>4, <2>5
<1>7. CASE con' = con
  <2>1. Collects' /\ BufferOrdered'
    <3> QED BY <1>1, <1>4, <1>7, Elements DEF FeedInv, Collects, Subscribed, BufferOrdered
  <2>2. BufferWhole'
    <3>1. Subscribed => con.gap
      <4>1. CASE Subscribed /\ ~con.gap /\ Len(con.buf) < Buffer
        <5>1. con'.buf = Append(con.buf, e) /\ con.buf \in Seq(1..head)
          BY <4>1 DEF Publish, TypeOK, e
        <5>2. Len(con'.buf) = Len(con.buf) + 1 /\ Len(con.buf) \in Nat
          BY <1>2, <5>1, AppendProperties, LenProperties
        <5> QED BY <1>7, <5>2
      <4>2. CASE Subscribed /\ ~con.gap /\ ~(Len(con.buf) < Buffer)
        BY <1>7, <4>2 DEF Publish, TypeOK
      <4> QED BY <4>1, <4>2
    <3> QED BY <1>1, <1>7, <3>1 DEF FeedInv, BufferWhole, Buffered, Subscribed
  <2>3. WireWhole' /\ SentWhole' /\ NothingSkipped'
    BY <1>1, <1>7 DEF FeedInv, WireWhole, SentWhole, Passed, NothingSkipped
  <2> QED BY <1>6, <2>1, <2>2, <2>3 DEF FeedInv
<1>8. CASE Subscribed /\ ~con.gap /\ con' = [con EXCEPT !.buf = Append(@, e)]
  <2>1. /\ con'.buf = Append(con.buf, e) /\ con.buf \in Seq(1..head)
        /\ con'.at = con.at /\ con'.sent = con.sent /\ con'.gap = con.gap
    BY <1>8 DEF TypeOK
  <2>2. /\ Len(con'.buf) = Len(con.buf) + 1 /\ Len(con.buf) \in Nat
        /\ \A i \in 1..Len(con.buf) : con'.buf[i] = con.buf[i]
        /\ con'.buf[Len(con.buf) + 1] = e
    BY <1>2, <2>1, AppendProperties, LenProperties
  <2>3. \A i \in 1..Len(con.buf) : con.buf[i] \in Nat /\ con.buf[i] <= poller.last
    BY Elements DEF FeedInv, BufferOrdered
  <2>4. Collects'
    BY <1>1, <1>8, <2>1 DEF FeedInv, Collects, Subscribed
  <2>5. BufferOrdered'
    <3>1. ASSUME NEW i \in 1..Len(con'.buf)
          PROVE  con'.buf[i] <= e /\ \A j \in 1..i - 1 : con'.buf[j] < con'.buf[i]
      <4>1. CASE i = Len(con.buf) + 1
        BY <1>4, <2>2, <2>3, <4>1
      <4>2. CASE i \in 1..Len(con.buf)
        <5>1. \A j \in 1..i : con'.buf[j] = con.buf[j]
          BY <2>2, <4>2
        <5>2. con'.buf[i] = con.buf[i] /\ con.buf[i] <= e
          BY <1>4, <2>3, <4>2, <5>1
        <5>3. \A j \in 1..i - 1 : con'.buf[j] < con'.buf[i]
          BY <4>2, <5>1 DEF FeedInv, BufferOrdered
        <5> QED BY <5>2, <5>3
      <4> QED BY <2>2, <4>1, <4>2
    <3> QED BY <1>1, <3>1 DEF BufferOrdered
  <2>6. BufferWhole'
    <3>1. SUFFICES ASSUME con.at \in {"replayed", "live"}, NEW f \in log
                   PROVE  f <= con.sent \/ Buffered(f)' \/ f > e
      BY <1>1, <1>8, <2>1 DEF BufferWhole
    <3>2. f <= con.sent \/ Buffered(f) \/ f > poller.last
      BY <1>8, <3>1 DEF FeedInv, BufferWhole
    <3>3. CASE Buffered(f)
      BY <2>2, <3>3 DEF Buffered
    <3>4. CASE f > poller.last
      <4>1. f >= e /\ f \in Nat
        BY <1>5, <3>4, Bounds
      <4>2. f = e => Buffered(f)'
        BY <2>2 DEF Buffered
      <4> QED BY <1>4, <4>1, <4>2
    <3> QED BY <3>2, <3>3, <3>4
  <2>7. WireWhole' /\ SentWhole' /\ NothingSkipped'
    BY <1>1, <2>1 DEF FeedInv, WireWhole, SentWhole, Passed, NothingSkipped
  <2> QED BY <1>6, <2>4, <2>5, <2>6, <2>7 DEF FeedInv
<1>9. CASE Subscribed /\ ~con.gap /\ con' = [con EXCEPT !.gap = TRUE]
  <2>1. con'.buf = con.buf /\ con'.at = con.at /\ con'.sent = con.sent /\ con'.gap
    BY <1>9 DEF TypeOK
  <2>2. \A i \in 1..Len(con.buf) : con.buf[i] \in Nat /\ con.buf[i] <= poller.last
    BY Elements DEF FeedInv, BufferOrdered
  <2>3. Collects'
    BY <1>1, <1>9, <2>1 DEF FeedInv, Collects, Subscribed
  <2>4. BufferOrdered'
    BY <1>1, <1>4, <2>1, <2>2 DEF FeedInv, BufferOrdered
  <2>5. BufferWhole'
    <3>1. SUFFICES ASSUME con.at \in {"replayed", "live"}, NEW f \in log,
                          ~(f <= con.sent), ~Buffered(f), NEW i \in 1..Len(con.buf)
                   PROVE  con.buf[i] < f
      BY <1>1, <2>1 DEF BufferWhole, Buffered
    <3>2. f > poller.last /\ f \in Nat
      BY <1>9, <3>1, Bounds DEF FeedInv, BufferWhole
    <3> QED BY <1>4, <2>2, <3>1, <3>2
  <2>6. WireWhole' /\ SentWhole' /\ NothingSkipped'
    BY <1>1, <2>1 DEF FeedInv, WireWhole, SentWhole, Passed, NothingSkipped
  <2> QED BY <1>6, <2>3, <2>4, <2>5, <2>6 DEF FeedInv
<1> QED BY <1>7, <1>8, <1>9 DEF Publish, e

\* A stream that begins at the client's cursor, or that is no more.
LEMMA ConnectFeed == ASSUME TypeOK, FeedInv, Connect PROVE FeedInv'
<1>1. /\ UNCHANGED <<up, log, poller, wire, got>> /\ up /\ con.at = "off"
      /\ es'.last = es.last /\ con'.at = "asked" /\ con'.sent = es.last
      /\ con'.buf = <<>> /\ ~con'.gap
  BY DEF Connect, screen, NoCon, TypeOK
<1>2. Collects' /\ BatchNext' /\ BufferOrdered' /\ BufferWhole'
  BY <1>1 DEF FeedInv, Collects, Subscribed, BatchNext, BufferOrdered, BufferWhole
<1>3. WireWhole' /\ SentWhole' /\ NothingSkipped'
  BY <1>1 DEF FeedInv, WireWhole, SentWhole, Passed, NothingSkipped
<1> QED BY <1>2, <1>3 DEF FeedInv

\* The end of a stream adds no event to the wire, and may take some from it.
LEMMA EndFeed ==
  ASSUME TypeOK, FeedInv, con' = NoCon, UNCHANGED <<log, got>>, es'.last = es.last,
         ~up' => poller'.batch = <<>>, BatchNext',
         \A i \in 1..Len(wire') :
           \/ wire'[i].k # "event"
           \/ i <= Len(wire) /\ \A j \in 1..i : wire'[j] = wire[j]
  PROVE  FeedInv'
<1>1. con'.at = "off" /\ con'.buf = <<>> /\ ~con'.gap
  BY DEF NoCon
<1>2. Collects' /\ BufferOrdered' /\ BufferWhole'
  BY <1>1 DEF FeedInv, Collects, Subscribed, BufferOrdered, BufferWhole
<1>3. WireWhole'
  <2>1. SUFFICES ASSUME NEW i \in 1..Len(wire'), wire'[i].k = "event",
                        NEW f \in log, f <= wire'[i].seq
                 PROVE  Passed(f, i)'
    BY DEF WireWhole
  <2>2. i \in 1..Len(wire) /\ \A j \in 1..i : wire'[j] = wire[j]
    BY <2>1, Elements
  <2>3. i \in 1..i
    BY <2>2, Elements
  <2>4. wire[i].k = "event" /\ f <= wire[i].seq
    BY <2>1, <2>2, <2>3
  <2>5. Passed(f, i)
    BY <2>1, <2>2, <2>4 DEF FeedInv, WireWhole
  <2> QED BY <2>2, <2>5 DEF Passed
<1>4. SentWhole' /\ NothingSkipped'
  BY <1>1 DEF FeedInv, SentWhole, NothingSkipped
<1> QED BY <1>2, <1>3, <1>4 DEF FeedInv

LEMMA RefuseFeed == ASSUME TypeOK, FeedInv, Refuse PROVE FeedInv'
<1>1. /\ con' = NoCon /\ UNCHANGED <<up, log, poller, es, got>> /\ wire' = <<Frame("refused")>>
  BY DEF Refuse, screen
<1>2. Len(wire') = 1 /\ wire'[1].k # "event"
  BY <1>1 DEF Frame
<1>3. ~up' => poller'.batch = <<>>
  BY <1>1 DEF FeedInv, Collects
<1>4. BatchNext'
  BY <1>1 DEF FeedInv, BatchNext
<1> QED BY <1>1, <1>2, <1>3, <1>4, EndFeed

LEMMA CutOffFeed == ASSUME TypeOK, FeedInv, CutOff PROVE FeedInv'
<1>1. /\ con' = NoCon /\ UNCHANGED <<up, log, poller, es, got>>
      /\ wire' = Append(wire, Frame("end"))
  BY DEF CutOff, screen
<1>2. /\ Len(wire') = Len(wire) + 1 /\ wire'[Len(wire) + 1] = Frame("end")
      /\ \A i \in 1..Len(wire) : wire'[i] = wire[i]
  BY <1>1, FrameTyped, AppendFrame
<1>3. \A i \in 1..Len(wire') :
        \/ wire'[i].k # "event"
        \/ i <= Len(wire) /\ \A j \in 1..i : wire'[j] = wire[j]
  <2>1. Frame("end").k # "event" /\ Len(wire) \in Nat
    BY Elements DEF Frame
  <2>2. SUFFICES ASSUME NEW i \in 1..Len(wire'), wire'[i].k = "event"
                 PROVE  i <= Len(wire) /\ \A j \in 1..i : wire'[j] = wire[j]
    OBVIOUS
  <2>3. i # Len(wire) + 1
    BY <1>2, <2>1, <2>2
  <2>4. i <= Len(wire) /\ \A j \in 1..i : j \in 1..Len(wire)
    BY <1>2, <2>1, <2>3
  <2> QED BY <1>2, <2>4
<1>4. (~up' => poller'.batch = <<>>) /\ BatchNext'
  BY <1>1 DEF FeedInv, Collects, BatchNext
<1> QED BY <1>1, <1>3, <1>4, EndFeed

\* A connection that breaks, by itself or with the daemon.
LEMMA LostWhole ==
  ASSUME TypeOK, Lose
  PROVE  \A i \in 1..Len(wire') :
           \/ wire'[i].k # "event"
           \/ i <= Len(wire) /\ \A j \in 1..i : wire'[j] = wire[j]
<1>1. /\ Len(wire') \in 1..Len(wire) + 1 /\ wire'[Len(wire')] = Frame("end")
      /\ \A i \in 1..Len(wire') - 1 : wire'[i] = wire[i]
  BY LoseFacts
<1>2. Frame("end").k # "event" /\ Len(wire) \in Nat
  BY Elements DEF Frame
<1>3. ASSUME NEW i \in 1..Len(wire'), wire'[i].k = "event"
      PROVE  i <= Len(wire) /\ \A j \in 1..i : wire'[j] = wire[j]
  <2>1. i \in Nat /\ i # Len(wire')
    BY <1>1, <1>2, <1>3
  <2>2. i <= Len(wire) /\ \A j \in 1..i : j \in 1..Len(wire') - 1
    BY <1>1, <1>2, <2>1
  <2> QED BY <1>1, <2>2
<1> QED BY <1>3

LEMMA BreakFeed == ASSUME TypeOK, FeedInv, Break PROVE FeedInv'
<1>1. con' = NoCon /\ UNCHANGED <<up, log, poller, es, got>> /\ Lose
  BY DEF Break, screen
<1>2. (~up' => poller'.batch = <<>>) /\ BatchNext'
  BY <1>1 DEF FeedInv, Collects, BatchNext
<1> QED BY <1>1, <1>2, LostWhole, EndFeed

LEMMA DieFeed == ASSUME TypeOK, FeedInv, Die PROVE FeedInv'
<1>1. con' = NoCon /\ UNCHANGED <<log, es, got>> /\ poller'.batch = <<>>
  BY DEF Die
<1>2. BatchNext'
  BY <1>1 DEF BatchNext
<1>3. \A i \in 1..Len(wire') :
        \/ wire'[i].k # "event"
        \/ i <= Len(wire) /\ \A j \in 1..i : wire'[j] = wire[j]
  <2>1. CASE UNCHANGED wire
    BY <2>1, Elements
  <2>2. CASE Lose
    BY <2>2, LostWhole
  <2> QED BY <2>1, <2>2 DEF Die
<1> QED BY <1>1, <1>2, <1>3, EndFeed

\* The poller of the next daemon has nothing in hand, and no stream listens to it yet.
LEMMA StartFeed == ASSUME TypeOK, FeedInv, Start PROVE FeedInv'
<1>1. /\ UNCHANGED <<log, con, wire, es, got>> /\ ~up /\ up' /\ poller'.batch = poller.batch
  BY DEF Start, screen, TypeOK
<1>2. con.at = "off" /\ poller.batch = <<>> /\ con.buf = <<>>
  BY <1>1 DEF FeedInv, Collects, Subscribed
<1>3. Collects' /\ BatchNext' /\ BufferOrdered' /\ BufferWhole'
  BY <1>1, <1>2 DEF FeedInv, Collects, Subscribed, BatchNext, BufferOrdered, BufferWhole
<1>4. WireWhole' /\ SentWhole' /\ NothingSkipped'
  BY <1>1 DEF FeedInv, WireWhole, SentWhole, Passed, NothingSkipped
<1> QED BY <1>3, <1>4 DEF FeedInv

\* A cursor that falls back passes less.
LEMMA ReadCursorFeed == ASSUME TypeOK, FeedInv, ReadCursor PROVE FeedInv'
<1>1. /\ UNCHANGED <<up, log, poller, wire, es, got>> /\ con.at = "asked"
      /\ con'.at = "cursor" /\ con'.buf = con.buf /\ con'.gap = con.gap
      /\ con'.sent = IF con.sent > Latest THEN Latest ELSE con.sent
  BY DEF ReadCursor, screen, TypeOK
<1>2. con'.sent <= con.sent /\ con'.sent \in Nat /\ con.sent \in Nat
  BY <1>1, Bounds, LatestFacts DEF TypeOK
<1>3. Collects' /\ BatchNext' /\ BufferOrdered' /\ BufferWhole'
  BY <1>1 DEF FeedInv, Collects, Subscribed, BatchNext, BufferOrdered, BufferWhole
<1>4. SentWhole'
  <2>1. \A f \in log : f <= con'.sent => f <= con.sent
    BY <1>2, Bounds
  <2> QED BY <1>1, <2>1 DEF FeedInv, SentWhole, Passed
<1>5. WireWhole' /\ NothingSkipped'
  BY <1>1 DEF FeedInv, WireWhole, Passed, NothingSkipped
<1> QED BY <1>3, <1>4, <1>5 DEF FeedInv

\* What is added to the wire passes what it has to pass: the new events do by themselves,
\* and the rest as before.
LEMMA Extended ==
  ASSUME TypeOK, FeedInv, UNCHANGED <<log, got>>,
         Len(wire') \in Nat, Len(wire) <= Len(wire'),
         \A i \in 1..Len(wire) : wire'[i] = wire[i],
         \A i \in Len(wire) + 1..Len(wire') : wire'[i].k = "event" =>
           \A f \in log : f <= wire'[i].seq => f \in got \/ \E j \in 1..i : wire'[j] = Event(f)
  PROVE  /\ WireWhole'
         /\ \A f : Passed(f, Len(wire)) => f \in got \/ \E i \in 1..Len(wire') : wire'[i] = Event(f)
<1>1. Len(wire) \in Nat
  BY Elements
<1>2. ASSUME NEW f, NEW n \in 0..Len(wire), Passed(f, n)
      PROVE  f \in got \/ \E i \in 1..n : wire'[i] = Event(f)
  <2>1. CASE f \in got
    BY <2>1
  <2>2. CASE \E i \in 1..n : wire[i] = Event(f)
    <3>1. PICK i \in 1..n : wire[i] = Event(f)
      BY <2>2
    <3>2. i \in 1..Len(wire)
      BY <1>1
    <3> QED BY <3>1, <3>2
  <2> QED BY <1>2, <2>1, <2>2 DEF Passed
<1>3. WireWhole'
  <2>1. SUFFICES ASSUME NEW i \in 1..Len(wire'), wire'[i].k = "event",
                        NEW f \in log, f <= wire'[i].seq
                 PROVE  f \in got \/ \E j \in 1..i : wire'[j] = Event(f)
    BY DEF WireWhole, Passed
  <2>2. CASE i \in 1..Len(wire)
    <3>1. wire'[i] = wire[i] /\ i \in 0..Len(wire)
      BY <2>2, <1>1
    <3>2. Passed(f, i)
      BY <2>1, <2>2, <3>1 DEF FeedInv, WireWhole
    <3> QED BY <1>2, <3>1, <3>2
  <2>3. CASE i \in Len(wire) + 1..Len(wire')
    BY <2>1, <2>3
  <2> QED BY <1>1, <2>2, <2>3
<1>4. ASSUME NEW f, Passed(f, Len(wire))
      PROVE  f \in got \/ \E i \in 1..Len(wire') : wire'[i] = Event(f)
  <2>1. f \in got \/ \E i \in 1..Len(wire) : wire'[i] = Event(f)
    BY <1>1, <1>2, <1>4
  <2>2. \A i \in 1..Len(wire) : i \in 1..Len(wire')
    BY <1>1
  <2> QED BY <2>1, <2>2
<1> QED BY <1>3, <1>4

\* A frame that is no event passes nothing.
LEMMA SubscribeFeed == ASSUME TypeOK, FeedInv, Subscribe PROVE FeedInv'
<1>1. /\ UNCHANGED <<up, log, poller, es, got>> /\ con.at = "cursor"
      /\ con'.at = "replay" /\ con'.buf = con.buf /\ con'.gap = con.gap /\ con'.sent = con.sent
      /\ wire' = Append(wire, Frame("open"))
  BY DEF Subscribe, screen, TypeOK
<1>2. /\ Len(wire') = Len(wire) + 1 /\ wire'[Len(wire) + 1] = Frame("open")
      /\ \A i \in 1..Len(wire) : wire'[i] = wire[i]
  BY <1>1, FrameTyped, AppendFrame
<1>3. Frame("open").k # "event" /\ Len(wire) \in Nat
  BY Elements DEF Frame
<1>4. Collects' /\ BatchNext' /\ BufferOrdered' /\ BufferWhole'
  BY <1>1 DEF FeedInv, Collects, Subscribed, BatchNext, BufferOrdered, BufferWhole
<1>5. \A i \in Len(wire) + 1..Len(wire') : wire'[i].k # "event"
  BY <1>2, <1>3
<1>6. Len(wire') \in Nat /\ Len(wire) <= Len(wire')
  BY <1>2, <1>3
<1>7. /\ WireWhole'
      /\ \A f : Passed(f, Len(wire)) => f \in got \/ \E i \in 1..Len(wire') : wire'[i] = Event(f)
  BY <1>1, <1>2, <1>5, <1>6, Extended
<1>8. SentWhole' /\ NothingSkipped'
  BY <1>1, <1>7 DEF FeedInv, SentWhole, Passed, NothingSkipped
<1> QED BY <1>4, <1>7, <1>8 DEF FeedInv

\* What a page adds follows the cursor without a gap; the last page leaves nothing to send but
\* what comes later, and the buffer has had that since the subscription.
LEMMA ReplayFeed == ASSUME TypeOK, FeedInv, Replay PROVE FeedInv'
<1>1. PICK page \in After(con.sent) :
        /\ wire' = wire \o [i \in DOMAIN page |-> Event(page[i])]
        /\ con' = [con EXCEPT !.sent = IF page = <<>> THEN @ ELSE page[Len(page)],
                              !.at = IF Len(page) < Batch THEN "replayed" ELSE "replay"]
  BY DEF Replay
<1>2. /\ UNCHANGED <<up, log, poller, es, got>> /\ con.at = "replay" /\ ~con.gap
      /\ con'.buf = con.buf /\ con'.gap = con.gap
      /\ con'.at = IF Len(page) < Batch THEN "replayed" ELSE "replay"
      /\ con'.sent = IF page = <<>> THEN con.sent ELSE page[Len(page)]
  BY <1>1 DEF Replay, screen, TypeOK
<1>3. con.sent \in Nat /\ log \subseteq Nat
  BY Bounds DEF TypeOK
<1>4. /\ page \in Seq(Later(con.sent)) /\ Len(page) \in Nat
      /\ \A i \in 1..Len(page) : page[i] \in log /\ page[i] > con.sent /\ page[i] \in Nat
      /\ \A i \in 1..Len(page) : \A j \in 1..i - 1 : page[j] < page[i]
      /\ \A i \in 1..Len(page), e \in log :
           e > con.sent /\ e <= page[i] => \E j \in 1..i : page[j] = e
      /\ Len(page) < Batch => \A e \in log : e > con.sent => \E j \in 1..Len(page) : page[j] = e
  BY <1>3, PageFacts
<1>5. /\ Len(wire') = Len(wire) + Len(page) /\ Len(wire) \in Nat
      /\ \A i \in 1..Len(wire) : wire'[i] = wire[i]
      /\ \A i \in 1..Len(page) : wire'[Len(wire) + i] = Event(page[i])
      /\ \A i \in Len(wire) + 1..Len(wire') :
           i - Len(wire) \in 1..Len(page) /\ wire'[i] = Event(page[i - Len(wire)])
  BY <1>1, AppendPage, Elements
<1>6. ASSUME NEW i \in 1..Len(page), NEW f \in log, f <= page[i]
      PROVE  f \in got \/ \E j \in 1..Len(wire) + i : wire'[j] = Event(f)
  <2>1. CASE f <= con.sent
    <3>1. Passed(f, Len(wire))
      BY <1>2, <2>1 DEF FeedInv, SentWhole
    <3>2. \A j \in 1..Len(wire) : j \in 1..Len(wire) + i /\ wire'[j] = wire[j]
      BY <1>5
    <3> QED BY <3>1, <3>2 DEF Passed
  <2>2. CASE f > con.sent
    <3>1. PICK j \in 1..i : page[j] = f
      BY <1>4, <1>6, <2>2
    <3>2. j \in 1..Len(page) /\ Len(wire) + j \in 1..Len(wire) + i
      BY <1>4, <1>5
    <3>3. wire'[Len(wire) + j] = Event(f)
      BY <1>5, <3>1, <3>2
    <3> QED BY <3>2, <3>3
  <2> QED BY <1>3, <2>1, <2>2
<1>7. \A i \in Len(wire) + 1..Len(wire') : wire'[i].k = "event" =>
        \A f \in log : f <= wire'[i].seq => f \in got \/ \E j \in 1..i : wire'[j] = Event(f)
  <2>1. SUFFICES ASSUME NEW i \in Len(wire) + 1..Len(wire'), NEW f \in log, f <= wire'[i].seq
                 PROVE  f \in got \/ \E j \in 1..i : wire'[j] = Event(f)
    OBVIOUS
  <2>2. i - Len(wire) \in 1..Len(page) /\ wire'[i] = Event(page[i - Len(wire)])
    BY <1>5
  <2>3. f \in got \/ \E j \in 1..Len(wire) + (i - Len(wire)) : wire'[j] = Event(f)
    <3>1. wire'[i].seq = page[i - Len(wire)]
      BY <2>2 DEF Event
    <3> QED BY <1>6, <2>1, <2>2, <3>1
  <2>4. Len(wire) + (i - Len(wire)) = i
    BY <1>4, <1>5
  <2> QED BY <2>3, <2>4
<1>8. Len(wire') \in Nat /\ Len(wire) <= Len(wire')
  BY <1>4, <1>5
<1>9. /\ WireWhole'
      /\ \A f : Passed(f, Len(wire)) => f \in got \/ \E i \in 1..Len(wire') : wire'[i] = Event(f)
  BY <1>2, <1>5, <1>7, <1>8, Extended
<1>10. page # <<>> => Len(page) \in 1..Len(page)
  BY <1>4, EmptySeq
<1>11. SentWhole'
  <2>1. SUFFICES ASSUME NEW f \in log, f <= con'.sent
                 PROVE  f \in got \/ \E i \in 1..Len(wire') : wire'[i] = Event(f)
    BY <1>2 DEF SentWhole, Passed
  <2>2. CASE page = <<>>
    <3>1. Passed(f, Len(wire))
      BY <1>2, <2>1, <2>2 DEF FeedInv, SentWhole
    <3> QED BY <1>9, <3>1
  <2>3. CASE page # <<>>
    BY <1>2, <1>5, <1>6, <1>10, <2>1, <2>3
  <2> QED BY <2>2, <2>3
<1>12. BufferWhole'
  <2>1. SUFFICES ASSUME Len(page) < Batch, NEW f \in log PROVE f <= con'.sent
    BY <1>2 DEF BufferWhole
  <2>2. CASE f <= con.sent
    BY <1>2, <1>3, <1>4, <1>10, <2>2
  <2>3. CASE f > con.sent
    <3>1. PICK j \in 1..Len(page) : page[j] = f
      BY <1>4, <2>1, <2>3
    <3>2. Len(page) \in 1..Len(page) /\ page # <<>>
      BY <1>4, <3>1, EmptySeq
    <3>3. j = Len(page) \/ j \in 1..Len(page) - 1
      BY <1>4
    <3> QED BY <1>2, <1>4, <3>1, <3>2, <3>3
  <2> QED BY <1>3, <2>2, <2>3
<1>13. Collects' /\ BatchNext' /\ BufferOrdered' /\ NothingSkipped'
  BY <1>2 DEF FeedInv, Collects, Subscribed, BatchNext, BufferOrdered, NothingSkipped
<1> QED BY <1>9, <1>11, <1>12, <1>13 DEF FeedInv

LEMMA GoLiveFeed == ASSUME TypeOK, FeedInv, GoLive PROVE FeedInv'
<1>1. /\ UNCHANGED <<up, log, poller, wire, es, got>> /\ con.at = "replayed"
      /\ con'.at = "live" /\ con'.buf = con.buf /\ con'.gap = con.gap /\ con'.sent = con.sent
  BY DEF GoLive, screen, TypeOK
<1>2. Collects' /\ BatchNext' /\ BufferOrdered'
  BY <1>1 DEF FeedInv, Collects, Subscribed, BatchNext, BufferOrdered
<1>3. BufferWhole'
  BY <1>1 DEF FeedInv, BufferWhole, Buffered
<1>4. WireWhole' /\ SentWhole' /\ NothingSkipped'
  BY <1>1 DEF FeedInv, WireWhole, SentWhole, Passed, NothingSkipped
<1> QED BY <1>2, <1>3, <1>4 DEF FeedInv

\* The first event of the buffer is the next one that the stream has not sent, unless it is
\* one the replay has sent already.
LEMMA SendLiveFeed == ASSUME TypeOK, FeedInv, SendLive PROVE FeedInv'
<1> DEFINE b == con.buf
           e == Head(b)
<1>1. /\ UNCHANGED <<up, log, poller, es, got>> /\ con.at = "live" /\ b # <<>>
      /\ con'.at = con.at /\ con'.gap = con.gap /\ con'.buf = Tail(b)
      /\ con'.sent = (IF e > con.sent THEN e ELSE con.sent)
      /\ wire' = IF e > con.sent THEN Append(wire, Event(e)) ELSE wire
  BY DEF SendLive, screen, TypeOK
<1>2. b \in Seq(1..head) /\ Len(b) \in Nat /\ \A i \in 1..Len(b) : b[i] \in 1..head /\ b[i] \in Nat
  BY Elements
<1>3. Len(b) \in Nat \ {0} /\ 1 \in 1..Len(b)
  BY <1>1, <1>2, EmptySeq
<1>4. /\ e = b[1] /\ Len(Tail(b)) = Len(b) - 1
      /\ \A i \in 1..Len(Tail(b)) : Tail(b)[i] = b[i + 1]
  <2>1. /\ Len(Tail(b)) = Len(b) - 1 /\ \A i \in 1..Len(Tail(b)) : Tail(b)[i] = b[i + 1]
    BY <1>1, <1>2, HeadTailProperties
  <2>2. Head(b) = b[1]
    BY <1>2, <1>3
  <2> QED BY <2>1, <2>2
<1>5. e \in 1..head /\ e \in Nat
  BY <1>2, <1>3, <1>4
<1>6. con.sent \in Nat /\ poller.last \in Nat /\ log \subseteq Nat
  BY Bounds DEF TypeOK
<1>7. \A i \in 1..Len(b) : b[i] <= poller.last /\ \A j \in 1..i - 1 : b[j] < b[i]
  BY DEF FeedInv, BufferOrdered
<1>8. \A f \in log :
        \/ f <= con.sent \/ Buffered(f)
        \/ IF con.gap THEN \A i \in 1..Len(b) : b[i] < f ELSE f > poller.last
  BY <1>1 DEF FeedInv, BufferWhole
<1> HIDE DEF e, b
<1>9. ASSUME NEW f \in log, f <= e, f > con.sent PROVE f = e
  <2>1. f \in Nat
    BY <1>6
  <2>2. CASE Buffered(f)
    <3>1. PICK i \in 1..Len(b) : b[i] = f
      BY <2>2 DEF Buffered, b
    <3>2. i # 1 => 1 \in 1..i - 1
      BY <1>3
    <3>3. i # 1 => b[1] < b[i]
      BY <1>7, <3>2
    <3> QED BY <1>4, <1>5, <1>9, <2>1, <3>1, <3>3
  <2>3. CASE \A i \in 1..Len(b) : b[i] < f
    BY <1>3, <1>4, <1>5, <1>9, <2>1, <2>3
  <2>4. CASE f > poller.last
    BY <1>3, <1>4, <1>5, <1>6, <1>7, <1>9, <2>1, <2>4
  <2> QED BY <1>6, <1>8, <1>9, <2>1, <2>2, <2>3, <2>4
<1>10. Collects' /\ BatchNext'
  BY <1>1 DEF FeedInv, Collects, Subscribed, BatchNext
<1>11. BufferOrdered'
  <2>1. SUFFICES ASSUME NEW i \in 1..Len(b) - 1
                 PROVE  b[i + 1] <= poller.last /\ \A j \in 1..i - 1 : b[j + 1] < b[i + 1]
    BY <1>1, <1>3, <1>4 DEF BufferOrdered
  <2>2. i + 1 \in 1..Len(b) /\ \A j \in 1..i - 1 : j + 1 \in 1..(i + 1) - 1
    BY <1>3
  <2> QED BY <1>7, <2>2
<1>12. BufferWhole'
  <2>1. SUFFICES ASSUME NEW f \in log, ~(f <= con'.sent),
                        ~\E i \in 1..Len(b) - 1 : b[i + 1] = f
                 PROVE  IF con.gap THEN \A i \in 1..Len(b) - 1 : b[i + 1] < f
                                   ELSE f > poller.last
    BY <1>1, <1>3, <1>4 DEF BufferWhole, Buffered
  <2>2. ~(f <= con.sent) /\ f # e
    BY <1>1, <1>5, <1>6, <2>1
  <2>3. ~Buffered(f)
    <3>1. SUFFICES ASSUME NEW i \in 1..Len(b), b[i] = f PROVE FALSE
      BY DEF Buffered, b
    <3>2. i # 1
      BY <1>4, <2>2, <3>1
    <3>3. i - 1 \in 1..Len(b) - 1 /\ b[(i - 1) + 1] = f
      BY <1>3, <3>1, <3>2
    <3> QED BY <2>1, <3>3
  <2>4. \A i \in 1..Len(b) - 1 : i + 1 \in 1..Len(b)
    BY <1>3
  <2> QED BY <1>8, <2>2, <2>3, <2>4
<1>13. CASE ~(e > con.sent)
  <2>1. wire' = wire /\ con'.sent = con.sent
    BY <1>1, <1>13
  <2>2. WireWhole' /\ SentWhole' /\ NothingSkipped'
    BY <1>1, <2>1 DEF FeedInv, WireWhole, SentWhole, Passed, NothingSkipped
  <2> QED BY <1>10, <1>11, <1>12, <2>2 DEF FeedInv
<1>14. CASE e > con.sent
  <2>1. wire' = Append(wire, Event(e)) /\ con'.sent = e
    BY <1>1, <1>14
  <2>2. Event(e) \in Frames(head) /\ Event(e).k = "event" /\ Event(e).seq = e
    BY <1>5, EventFrame
  <2>3. /\ Len(wire') = Len(wire) + 1 /\ wire'[Len(wire) + 1] = Event(e)
        /\ \A i \in 1..Len(wire) : wire'[i] = wire[i]
    BY <2>1, <2>2, AppendFrame
  <2>4. Len(wire) \in Nat
    BY Elements
  <2>5. ASSUME NEW f \in log, f <= e
        PROVE  f \in got \/ \E j \in 1..Len(wire) + 1 : wire'[j] = Event(f)
    <3>1. CASE f <= con.sent
      <4>1. Passed(f, Len(wire))
        BY <1>1, <3>1 DEF FeedInv, SentWhole
      <4>2. \A j \in 1..Len(wire) : j \in 1..Len(wire) + 1 /\ wire'[j] = wire[j]
        BY <2>3, <2>4
      <4> QED BY <4>1, <4>2 DEF Passed
    <3>2. CASE f > con.sent
      <4>1. f = e /\ Len(wire) + 1 \in 1..Len(wire) + 1
        BY <1>9, <2>4, <2>5, <3>2
      <4> QED BY <2>3, <4>1
    <3> QED BY <1>6, <3>1, <3>2
  <2>6. \A i \in Len(wire) + 1..Len(wire') : i = Len(wire) + 1
    BY <2>3, <2>4
  <2>7. \A i \in Len(wire) + 1..Len(wire') : wire'[i].k = "event" =>
          \A f \in log : f <= wire'[i].seq => f \in got \/ \E j \in 1..i : wire'[j] = Event(f)
    BY <2>2, <2>3, <2>5, <2>6
  <2>8. Len(wire') \in Nat /\ Len(wire) <= Len(wire')
    BY <2>3, <2>4
  <2>9. WireWhole'
    BY <1>1, <2>3, <2>7, <2>8, Extended
  <2>10. SentWhole' /\ NothingSkipped'
    BY <1>1, <2>1, <2>3, <2>5 DEF FeedInv, SentWhole, Passed, NothingSkipped
  <2> QED BY <1>10, <1>11, <1>12, <2>9, <2>10 DEF FeedInv
<1> QED BY <1>13, <1>14

\* What the client takes from the wire has arrived, and so has all it leaves behind.
LEMMA ReceiveFeed == ASSUME TypeOK, FeedInv, Receive PROVE FeedInv'
<1> DEFINE f == Head(wire)
<1>1. /\ UNCHANGED <<up, log, poller, con>> /\ wire # <<>> /\ wire' = Tail(wire)
  BY DEF Receive, server
<1>2. /\ wire \in Seq(Frames(head)) /\ Len(wire) \in Nat
      /\ \A i \in 1..Len(wire) : wire[i] \in Frames(head) /\ wire[i].seq \in 0..head
  BY Elements
<1>3. Len(wire) \in Nat \ {0} /\ 1 \in 1..Len(wire)
  BY <1>1, <1>2, EmptySeq
<1>4. /\ f = wire[1] /\ Len(wire') = Len(wire) - 1
      /\ \A i \in 1..Len(wire') : wire'[i] = wire[i + 1]
  <2>1. Len(wire') = Len(wire) - 1 /\ \A i \in 1..Len(wire') : wire'[i] = wire[i + 1]
    BY <1>1, <1>2, HeadTailProperties
  <2>2. Head(wire) = wire[1]
    BY <1>2, <1>3
  <2> QED BY <2>1, <2>2
<1>5. \/ f.k = "event" /\ es'.last = f.seq /\ got' = got \cup {f.seq}
      \/ f.k # "event" /\ es'.last = es.last /\ got' = got
  BY DEF Receive, TypeOK
<1> HIDE DEF f
<1>6. ASSUME NEW g, NEW n \in 1..Len(wire), Passed(g, n)
      PROVE  g \in got' \/ \E i \in 1..n - 1 : wire'[i] = Event(g)
  <2>1. CASE g \in got
    BY <1>5, <2>1
  <2>2. CASE wire[1] = Event(g)
    BY <1>4, <1>5, <2>2 DEF Event
  <2>3. ASSUME NEW j \in 1..n, wire[j] = Event(g), j # 1
        PROVE  \E i \in 1..n - 1 : wire'[i] = Event(g)
    <3>1. j - 1 \in 1..n - 1 /\ j - 1 \in 1..Len(wire') /\ (j - 1) + 1 = j
      BY <1>3, <1>4, <2>3
    <3>2. wire'[j - 1] = wire[(j - 1) + 1]
      BY <1>4, <3>1
    <3> QED BY <2>3, <3>1, <3>2
  <2> QED BY <1>6, <2>1, <2>2, <2>3 DEF Passed
<1>7. WireWhole'
  <2>1. SUFFICES ASSUME NEW i \in 1..Len(wire'), wire'[i].k = "event",
                        NEW g \in log, g <= wire'[i].seq
                 PROVE  g \in got' \/ \E j \in 1..i : wire'[j] = Event(g)
    BY <1>1 DEF WireWhole, Passed
  <2>2. i + 1 \in 1..Len(wire) /\ (i + 1) - 1 = i /\ wire'[i] = wire[i + 1]
    BY <1>3, <1>4
  <2>3. Passed(g, i + 1)
    BY <2>1, <2>2 DEF FeedInv, WireWhole
  <2>4. g \in got' \/ \E j \in 1..(i + 1) - 1 : wire'[j] = Event(g)
    BY <1>6, <2>2, <2>3
  <2> QED BY <2>2, <2>4
<1>8. SentWhole'
  <2>1. SUFFICES ASSUME con.at # "off", NEW g \in log, g <= con.sent
                 PROVE  g \in got' \/ \E i \in 1..Len(wire') : wire'[i] = Event(g)
    BY <1>1 DEF SentWhole, Passed
  <2>2. Passed(g, Len(wire))
    BY <2>1 DEF FeedInv, SentWhole
  <2>3. Len(wire) \in 1..Len(wire) /\ Len(wire) - 1 = Len(wire')
    BY <1>3, <1>4
  <2> QED BY <1>6, <2>2, <2>3
<1>9. NothingSkipped'
  <2>1. SUFFICES ASSUME NEW g \in log, g <= es'.last PROVE g \in got'
    BY <1>1 DEF NothingSkipped
  <2>2. CASE f.k = "event" /\ es'.last = f.seq /\ got' = got \cup {f.seq}
    <3>1. Passed(g, 1)
      BY <1>3, <1>4, <2>1, <2>2 DEF FeedInv, WireWhole
    <3>2. g \in got' \/ \E i \in 1..1 - 1 : wire'[i] = Event(g)
      BY <1>3, <1>6, <3>1
    <3> QED BY <3>2
  <2>3. CASE es'.last = es.last /\ got' = got
    BY <2>1, <2>3 DEF FeedInv, NothingSkipped
  <2> QED BY <1>5, <2>2, <2>3
<1>10. Collects' /\ BatchNext' /\ BufferOrdered' /\ BufferWhole'
  BY <1>1 DEF FeedInv, Collects, Subscribed, BatchNext, BufferOrdered, BufferWhole, Buffered
<1> QED BY <1>7, <1>8, <1>9, <1>10 DEF FeedInv

-----------------------------------------------------------------------------
LEMMA FeedStep == ASSUME TypeOK, FeedInv, [Next]_vars PROVE FeedInv'
<1>1. CASE UNCHANGED vars
  BY <1>1, Aside DEF vars, server, screen
<1>2. CASE Write
  BY <1>2, WriteFeed
<1>3. CASE Prune
  BY <1>3, PruneFeed
<1>4. CASE Poll
  BY <1>4, PollFeed
<1>5. CASE Publish
  BY <1>5, PublishFeed
<1>6. CASE Connect
  BY <1>6, ConnectFeed
<1>7. CASE Refuse
  BY <1>7, RefuseFeed
<1>8. CASE ReadCursor
  BY <1>8, ReadCursorFeed
<1>9. CASE Subscribe
  BY <1>9, SubscribeFeed
<1>10. CASE Replay
  BY <1>10, ReplayFeed
<1>11. CASE GoLive
  BY <1>11, GoLiveFeed
<1>12. CASE SendLive
  BY <1>12, SendLiveFeed
<1>13. CASE CutOff
  BY <1>13, CutOffFeed
<1>14. CASE Break
  BY <1>14, BreakFeed
<1>15. CASE Die
  BY <1>15, DieFeed
<1>16. CASE Start
  BY <1>16, StartFeed
<1>17. CASE Receive
  BY <1>17, ReceiveFeed
<1>18. CASE Retry
  <2>1. UNCHANGED <<log, up, poller, con, wire, got>> /\ es'.last = 0
    BY <1>18 DEF Retry, server, screen
  <2> QED BY <2>1, Aside
<1>19. CASE Flush \/ Fetch \/ Answer
  <2>1. UNCHANGED <<log, up, poller, con, wire, got, es>>
    BY <1>19 DEF Flush, Fetch, Answer, server
  <2> QED BY <2>1, Aside
<1>20. CASE Fetched \/ FetchFails
  <2>1. UNCHANGED <<log, up, poller, con, wire, got, es>>
    BY <1>20 DEF Fetched, FetchFails, Settle, server
  <2> QED BY <2>1, Aside
<1> QED BY <1>1, <1>2, <1>3, <1>4, <1>5, <1>6, <1>7, <1>8, <1>9, <1>10, <1>11, <1>12, <1>13,
           <1>14, <1>15, <1>16, <1>17, <1>18, <1>19, <1>20 DEF Next

\* What lies behind the Last-Event-ID of the client has reached it, or retention has taken it:
\* the buffer of the stream takes over where its replay ends, one that overflows is closed to
\* what follows, and a stream resumes at a cursor that passes nothing (httpd/events.go).
THEOREM NothingSkippedAlways == Spec => []NothingSkipped
<1>1. FeedInv => NothingSkipped
  BY DEF FeedInv
<1> QED BY <1>1, FeedTyped, InitFeed, FeedStep, PTL DEF Spec
=============================================================================

----------------------------- MODULE HostLaunch ------------------------------
(***************************************************************************)
(* Who runs the provider of one Chat session: a daemon attaches to the     *)
(* session's detached host or starts one, daemons die and are replaced     *)
(* (for a moment by two), hosts are killed.  Two files arbitrate: the      *)
(* launch lock, made with O_EXCL and reclaimed from a dead host, and the   *)
(* descriptor, which names the host and its owner.                         *)
(*                                                                         *)
(* Code: adapters/chatdriver/persistenthost, host.go (ConnectOrStart,      *)
(* acquireHostLock, Run, handle, Shutdown) and owner.go.  Module HostRelay *)
(* has what travels between the two.  Process ids are not reused here; an  *)
(* error before the lock is held ends the host as a kill does.             *)
(***************************************************************************)
EXTENDS Naturals, FiniteSets

CONSTANTS
  Daemons,   \* daemon boots, each with an owner token of its own
  Hosts,     \* host processes that may be spawned
  Rivals,    \* whether a daemon may boot beside another, or beside an unfinished launch
  MaxKills,  \* bound: hosts killed
  None       \* no process

ASSUME LaunchAssumption ==
  Rivals \in BOOLEAN /\ MaxKills \in Nat /\ None \notin Daemons \cup Hosts /\ Daemons \cap Hosts = {}

VARIABLES
  pc,      \* step of each daemon
  seen,    \* the host whose descriptor it is working from
  st,      \* step of each host
  owner,   \* the daemon that spawned it
  client,  \* the daemon attached to it
  lock,    \* host.lock: the host that made it and whether its pid is in it
  desc,    \* host.json: the host that published it
  kills    \* hosts killed so far

daemons == <<pc, seen>>
hosts   == <<st, owner, client>>
vars    == <<daemons, hosts, lock, desc, kills>>

NoLock    == [by |-> None, full |-> FALSE]
Launching == {"open", "read", "remove", "retry", "write", "start", "publish"}
Provided  == {"publish", "up", "stopping"}  \* steps with a provider process

TypeOK ==
  /\ pc \in [Daemons -> {"off", "idle", "owner", "release", "attach", "spawn", "poll", "on", "dead"}]
  /\ seen \in [Daemons -> Hosts \cup {None}]
  /\ st \in [Hosts -> Launching \cup {"none", "up", "stopping", "unlock", "dead"}]
  /\ owner \in [Hosts -> Daemons \cup {None}] /\ client \in [Hosts -> Daemons \cup {None}]
  /\ lock \in [by : Hosts \cup {None}, full : BOOLEAN]
  /\ desc \in Hosts \cup {None} /\ kills \in 0..MaxKills

Init ==
  /\ pc = [d \in Daemons |-> "off"] /\ seen = [d \in Daemons |-> None]
  /\ st = [h \in Hosts |-> "none"] /\ owner = [h \in Hosts |-> None]
  /\ client = [h \in Hosts |-> None] /\ lock = NoLock /\ desc = None /\ kills = 0

Up(d)    == pc[d] \notin {"off", "dead"}
Alive(h) == st[h] \notin {"none", "dead"}

Goto(d, s)  == pc' = [pc EXCEPT ![d] = s]
ByDaemon    == UNCHANGED <<lock, desc, kills>>
HGoto(h, s) == st' = [st EXCEPT ![h] = s]
ByHost      == UNCHANGED <<daemons, owner, kills>>

-----------------------------------------------------------------------------
(* Daemons.                                                                 *)

Boot(d) ==
  /\ pc[d] = "off" /\ Goto(d, "idle")
  /\ ~Rivals => (\A e \in Daemons : ~Up(e)) /\ \A h \in Hosts : st[h] \notin Launching
  /\ ByDaemon /\ UNCHANGED <<seen, hosts>>

\* Faulty: whoever owns it, a host that answers is adopted.
Domestic(d)  == FALSE
Foreign(d)   == owner[desc] # d

\* ConnectOrStart reads the descriptor.
Look(d) ==
  /\ pc[d] = "idle" /\ seen' = [seen EXCEPT ![d] = desc]
  /\ Goto(d, IF desc = None THEN "spawn" ELSE IF Foreign(d) THEN "owner" ELSE "attach")
  /\ ByDaemon /\ UNCHANGED hosts

\* Another daemon's host: first its owner has to be gone, or the wait times out.
AwaitOwner(d) ==
  /\ pc[d] = "owner" /\ Goto(d, IF Up(owner[seen[d]]) THEN "idle" ELSE "release")
  /\ ByDaemon /\ UNCHANGED <<seen, hosts>>

\* Then the host itself: its descriptor gone or its process; a replacement, or time, ends
\* the wait in vain.
AwaitRelease(d) ==
  /\ pc[d] = "release"
  /\ Goto(d, IF desc = None \/ (desc = seen[d] /\ ~Alive(seen[d])) THEN "spawn" ELSE "idle")
  /\ ByDaemon /\ UNCHANGED <<seen, hosts>>

\* The handshake with the host of a descriptor; only one daemon at a time.
Attach(d, h) ==
  st[h] = "up" /\ client[h] = None /\ client' = [client EXCEPT ![h] = d] /\ Goto(d, "on")

\* A host that does not answer is replaced only when its process is gone.
Reattach(d) ==
  /\ pc[d] = "attach"
  /\ \/ Attach(d, seen[d])
     \/ ~(st[seen[d]] = "up" /\ client[seen[d]] = None) /\ UNCHANGED client
        /\ Goto(d, IF Alive(seen[d]) THEN "idle" ELSE "spawn")
  /\ ByDaemon /\ UNCHANGED <<seen, st, owner>>

Spawn(d) ==
  /\ pc[d] = "spawn" /\ Goto(d, "poll")
  /\ \E h \in Hosts :
       st[h] = "none" /\ HGoto(h, "open") /\ owner' = [owner EXCEPT ![h] = d]
  /\ ByDaemon /\ UNCHANGED <<seen, client>>

\* Whatever host is published meanwhile is attached to; the wait times out, but a launch
\* of its own is taken to be faster.
Poll(d) ==
  /\ pc[d] = "poll"
  /\ \/ desc # None /\ Attach(d, desc)
     \/ (\A h \in Hosts : owner[h] = d => st[h] \notin Launching)
        /\ Goto(d, "idle") /\ UNCHANGED client
  /\ ByDaemon /\ UNCHANGED <<seen, st, owner>>

\* The controller lets go of its host, or has it shut down.
Release(d, h) ==
  /\ pc[d] = "on" /\ client[h] = d /\ Goto(d, "idle") /\ client' = [client EXCEPT ![h] = None]
  /\ st' \in {st, [st EXCEPT ![h] = IF @ = "up" THEN "stopping" ELSE @]}
  /\ ByDaemon /\ UNCHANGED <<seen, owner>>

DaemonDies(d) ==
  /\ Up(d) /\ Goto(d, "dead")
  /\ client' = [h \in Hosts |-> IF client[h] = d THEN None ELSE client[h]]
  /\ ByDaemon /\ UNCHANGED <<seen, st, owner>>

-----------------------------------------------------------------------------
(* Hosts.                                                                   *)

Create(h) == lock' = [by |-> h, full |-> FALSE] /\ HGoto(h, "write")

OpenLock(h) ==
  /\ st[h] = "open"
  /\ IF lock = NoLock THEN Create(h) ELSE HGoto(h, "read") /\ UNCHANGED lock
  /\ ByHost /\ UNCHANGED <<client, desc>>

\* Faulty: a lock that is there is a lock of the dead.
ReclaimsAny(h) == lock # NoLock
Reclaims(h)    == lock # NoLock /\ lock.full /\ ~Alive(lock.by)

\* Only the lock of a process that is proven dead is reclaimed.
ReadLock(h) ==
  /\ st[h] = "read" /\ HGoto(h, IF Reclaims(h) THEN "remove" ELSE "dead")
  /\ ByHost /\ UNCHANGED <<client, lock, desc>>

RemoveLock(h) ==
  /\ st[h] = "remove" /\ lock' = NoLock /\ HGoto(h, "retry")
  /\ ByHost /\ UNCHANGED <<client, desc>>

RetryLock(h) ==
  /\ st[h] = "retry"
  /\ IF lock = NoLock THEN Create(h) ELSE HGoto(h, "dead") /\ UNCHANGED lock
  /\ ByHost /\ UNCHANGED <<client, desc>>

\* An error while it launches: the host ends, with the removals deferred so far.
GivesUp(h) == HGoto(h, "unlock")

\* The pid goes into the file that was made, which may have been removed since.
WriteLock(h) ==
  /\ st[h] = "write"
  /\ \/ HGoto(h, "start") /\ lock' = IF lock.by = h THEN [lock EXCEPT !.full = TRUE] ELSE lock
     \/ GivesUp(h) /\ UNCHANGED lock
  /\ ByHost /\ UNCHANGED <<client, desc>>

StartProvider(h) ==
  /\ st[h] = "start" /\ (HGoto(h, "publish") \/ GivesUp(h))
  /\ ByHost /\ UNCHANGED <<client, lock, desc>>

\* The provider is killed again when there is no descriptor or, after it, no journal.
Publish(h) ==
  /\ st[h] = "publish"
  /\ \/ desc' = h /\ (HGoto(h, "up") \/ HGoto(h, "stopping"))
     \/ UNCHANGED desc /\ GivesUp(h)
  /\ ByHost /\ UNCHANGED <<client, lock>>

\* Faulty: as long as the host had a client once, it stays.
OrphanedOnce(h) == ~Up(owner[h]) /\ client[h] = None /\ \A d \in Daemons : seen[d] # h
Orphaned(h)     == ~Up(owner[h]) /\ client[h] = None

\* The owner is gone and nobody has attached for the grace period.
WatchOwner(h) ==
  /\ st[h] = "up" /\ Orphaned(h) /\ HGoto(h, "stopping")
  /\ ByHost /\ UNCHANGED <<client, lock, desc>>

ProviderExits(h) ==
  /\ st[h] = "up" /\ HGoto(h, "stopping")
  /\ ByHost /\ UNCHANGED <<client, lock, desc>>

\* The provider is reaped, then the deferred removals run, in this order.
Unpublish(h) ==
  /\ st[h] = "stopping" /\ desc' = None /\ HGoto(h, "unlock")
  /\ client' = [client EXCEPT ![h] = None]
  /\ pc' = [d \in Daemons |-> IF client[h] = d THEN "idle" ELSE pc[d]]
  /\ UNCHANGED <<seen, owner, lock, kills>>

Unlock(h) ==
  /\ st[h] = "unlock" /\ lock' = NoLock /\ HGoto(h, "dead")
  /\ ByHost /\ UNCHANGED <<client, desc>>

\* Killed at any step: its files stay.
Die(h) ==
  /\ kills < MaxKills /\ kills' = kills + 1 /\ Alive(h) /\ HGoto(h, "dead")
  /\ client' = [client EXCEPT ![h] = None]
  /\ pc' = [d \in Daemons |-> IF client[h] = d THEN "idle" ELSE pc[d]]
  /\ UNCHANGED <<seen, owner, lock, desc>>

Daemon(d) ==
  Boot(d) \/ Look(d) \/ AwaitOwner(d) \/ AwaitRelease(d) \/ Reattach(d) \/ Spawn(d) \/ Poll(d)
    \/ (\E h \in Hosts : Release(d, h)) \/ DaemonDies(d)
Step(h) ==
  OpenLock(h) \/ ReadLock(h) \/ RemoveLock(h) \/ RetryLock(h) \/ WriteLock(h) \/ StartProvider(h)
    \/ Publish(h) \/ WatchOwner(h) \/ Unpublish(h) \/ Unlock(h)
Next ==
  \/ \E d \in Daemons : Daemon(d)
  \/ \E h \in Hosts : Step(h) \/ ProviderExits(h) \/ Die(h)

Spec     == Init /\ [][Next]_vars
FairSpec == Spec /\ \A h \in Hosts : WF_vars(Step(h))

-----------------------------------------------------------------------------
(* Correctness.                                                             *)

\* A session has one provider: no second one starts while the first may still write to
\* its conversation.
OneProvider == \A g, h \in Hosts : st[g] \in Provided /\ st[h] \in Provided => g = h

\* A host that serves is the one the descriptor names and holds the lock: what another
\* host removes on its way out is never the successor's.
ServingHoldsLock == \A h \in Hosts : st[h] = "up" => desc = h /\ lock.by = h

\* A daemon drives only the host that it spawned itself, never one of another daemon.
NeverAdopted == \A h \in Hosts : client[h] # None => client[h] = owner[h]

\* A host whose daemon is gone does not linger as an orphan with its provider.
OrphanExits ==
  \A h \in Hosts : st[h] = "up" /\ ~Up(owner[h]) ~> st[h] = "dead" \/ client[h] # None

\* The lock of a dead host can be reclaimed.
DeadLockIsReclaimable == lock # NoLock /\ ~Alive(lock.by) => lock.full

=============================================================================

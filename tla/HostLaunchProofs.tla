-------------------------- MODULE HostLaunchProofs --------------------------
(***************************************************************************)
(* Two proofs about a Chat host.                                           *)
(*                                                                         *)
(* Why one daemon after the other, with any number of hosts that are       *)
(* killed at any step, never has two providers of a session: the lock is   *)
(* held from its writing to its removal, and nobody starts a host unless   *)
(* it has seen that none is up.  It needs ~Rivals: two reclaimers of one   *)
(* dead lock are what the lock does not arbitrate.                         *)
(*                                                                         *)
(* Why one controller after the other commits what the provider says       *)
(* once, in order and for its turn, and why a request is answered once:    *)
(* what is not committed is in the journal or is the end that is kept, a   *)
(* controller is told it in order before anything new, and an end is       *)
(* acknowledged when it is committed.  It needs ~LossyClose: what a broken *)
(* connection takes along of the controller's is not sent again.           *)
(***************************************************************************)
EXTENDS HostLaunch, HostRelay, TLAPS

Stages == Launching \cup {"none", "up", "stopping", "unlock", "dead"}
Locks == [by : Hosts \cup {None}, full : BOOLEAN]

Holders == {"start", "publish", "up", "stopping", "unlock"}

\* One daemon is up, one host on its way, and only while its daemon waits for it.
OneAtATime ==
  /\ \A d, e \in Daemons : Up(d) /\ Up(e) => d = e
  /\ \A g, h \in Hosts : st[g] \in Launching /\ st[h] \in Launching => g = h
  /\ \A h \in Hosts, d \in Daemons :
       st[h] \in Launching /\ Up(d) => d = owner[h] /\ pc[d] = "poll"

\* No host is on its way beside one that is up: whoever spawns has seen that none is,
\* and whoever goes back to a host knows it for its own and the only one that may be.
NoneBeside ==
  /\ \A g, h \in Hosts : st[g] \in Launching => st[h] # "up"
  /\ \A d \in Daemons, h \in Hosts : pc[d] = "spawn" => st[h] # "up"
  /\ \A d \in Daemons, h \in Hosts : pc[d] = "attach" /\ st[h] = "up" => h = seen[d]
  /\ \A d \in Daemons, h \in Hosts : pc[d] = "poll" /\ st[h] = "up" => owner[h] = d
  /\ \A d \in Daemons : pc[d] = "attach" => seen[d] \in Hosts /\ owner[seen[d]] = d

\* From the writing of the lock to its removal the host holds it; what is about to be
\* reclaimed is the lock of a process that is dead and stays so.
LockHeld ==
  /\ \A h \in Hosts : st[h] \in Holders => lock.by = h
  /\ \A h \in Hosts : st[h] = "write" => lock.by = h
  /\ \A h \in Hosts : st[h] = "remove" => lock.by \in Hosts /\ st[lock.by] = "dead"
  /\ lock # NoLock => lock.by \in Hosts /\ st[lock.by] # "none"

\* The descriptor names the host that serves, until it removes it.
Named == \A h \in Hosts : st[h] \in {"up", "stopping"} => desc = h

\* A daemon is on one host at most, one of its own, and leaves it when either dies.
Attached ==
  /\ \A h \in Hosts : client[h] \in Daemons =>
       pc[client[h]] = "on" /\ st[h] \in {"up", "stopping"} /\ owner[h] = client[h]
  /\ \A g, h \in Hosts : client[g] \in Daemons /\ client[g] = client[h] => g = h

LaunchInv == OneAtATime /\ NoneBeside /\ LockHeld /\ Named /\ Attached

LEMMA Distinct == None \notin Daemons /\ None \notin Hosts /\ MaxKills \in Nat
BY LaunchAssumption DEF LaunchAssumption

-----------------------------------------------------------------------------
(* Type correctness.                                                        *)

LEMMA TypeInit == Init => TypeOK
BY Distinct DEF Init, TypeOK, NoLock, Launching

LEMMA DaemonType ==
  ASSUME TypeOK, NEW d \in Daemons, Daemon(d)
  PROVE  TypeOK'
<1>1. CASE Boot(d)
  BY <1>1 DEF Boot, ByDaemon, Goto, daemons, hosts, TypeOK
<1>2. CASE Look(d)
  BY <1>2 DEF Look, Foreign, ByDaemon, Goto, daemons, hosts, TypeOK
<1>3. CASE AwaitOwner(d)
  BY <1>3 DEF AwaitOwner, ByDaemon, Goto, daemons, hosts, TypeOK
<1>4. CASE AwaitRelease(d)
  BY <1>4 DEF AwaitRelease, ByDaemon, Goto, daemons, hosts, TypeOK
<1>5. CASE Reattach(d)
  BY <1>5 DEF Reattach, Attach, ByDaemon, Goto, daemons, hosts, TypeOK
<1>6. CASE Spawn(d)
  BY <1>6 DEF Spawn, ByDaemon, Goto, HGoto, Launching, daemons, hosts, TypeOK
<1>7. CASE Poll(d)
  BY <1>7 DEF Poll, Attach, ByDaemon, Goto, daemons, hosts, TypeOK
<1>8. CASE DaemonDies(d)
  BY <1>8 DEF DaemonDies, ByDaemon, Goto, Up, daemons, hosts, TypeOK
<1>9. CASE \E h \in Hosts : Release(d, h)
  BY <1>9 DEF Release, ByDaemon, Goto, TypeOK
<1> QED BY <1>1, <1>2, <1>3, <1>4, <1>5, <1>6, <1>7, <1>8, <1>9 DEF Daemon

LEMMA HostType ==
  ASSUME TypeOK, NEW h \in Hosts, Step(h) \/ ProviderExits(h) \/ Die(h)
  PROVE  TypeOK'
<1>1. CASE OpenLock(h)
  <2>1. lock' \in Locks /\ st' \in [Hosts -> Stages]
    <3>1. Create(h) \/ (HGoto(h, "read") /\ UNCHANGED lock)
      BY <1>1 DEF OpenLock
    <3>2. lock' \in Locks
      <4>1. lock \in Locks /\ [by |-> h, full |-> FALSE] \in Locks
        BY DEF TypeOK, Locks
      <4> QED BY <3>1, <4>1 DEF Create
    <3>3. st' \in [Hosts -> Stages]
      BY <3>1 DEF Create, HGoto, TypeOK, Stages, Launching
    <3> QED BY <3>2, <3>3
  <2> QED BY <1>1, <2>1 DEF OpenLock, ByHost, daemons, TypeOK, Locks, Stages
<1>2. CASE ReadLock(h)
  BY <1>2 DEF ReadLock, NoLock, ByHost, HGoto, daemons, Launching, TypeOK
<1>3. CASE RemoveLock(h)
  BY <1>3 DEF RemoveLock, NoLock, ByHost, HGoto, daemons, Launching, TypeOK
<1>4. CASE RetryLock(h)
  <2>1. lock' \in Locks /\ st' \in [Hosts -> Stages]
    <3>1. Create(h) \/ (HGoto(h, "dead") /\ UNCHANGED lock)
      BY <1>4 DEF RetryLock
    <3>2. lock' \in Locks
      <4>1. lock \in Locks /\ [by |-> h, full |-> FALSE] \in Locks
        BY DEF TypeOK, Locks
      <4> QED BY <3>1, <4>1 DEF Create
    <3>3. st' \in [Hosts -> Stages]
      BY <3>1 DEF Create, HGoto, TypeOK, Stages, Launching
    <3> QED BY <3>2, <3>3
  <2> QED BY <1>4, <2>1 DEF RetryLock, ByHost, daemons, TypeOK, Locks, Stages
<1>5. CASE WriteLock(h)
  <2>1. st' \in [Hosts -> Stages]
    BY <1>5 DEF WriteLock, GivesUp, HGoto, TypeOK, Stages, Launching
  <2>2. lock' \in Locks BY <1>5 DEF WriteLock, TypeOK, Locks
  <2> QED BY <1>5, <2>1, <2>2 DEF WriteLock, ByHost, daemons, TypeOK, Locks, Stages
<1>6. CASE StartProvider(h)
  BY <1>6 DEF StartProvider, GivesUp, ByHost, HGoto, daemons, Launching, TypeOK
<1>7. CASE Publish(h)
  BY <1>7 DEF Publish, GivesUp, ByHost, HGoto, daemons, Launching, TypeOK
<1>8. CASE WatchOwner(h)
  BY <1>8 DEF WatchOwner, ByHost, HGoto, daemons, Launching, TypeOK
<1>9. CASE ProviderExits(h)
  BY <1>9 DEF ProviderExits, ByHost, HGoto, daemons, Launching, TypeOK
<1>10. CASE Unpublish(h)
  BY <1>10 DEF Unpublish, ByHost, HGoto, daemons, Launching, TypeOK
<1>11. CASE Unlock(h)
  BY <1>11 DEF Unlock, NoLock, ByHost, HGoto, daemons, Launching, TypeOK
<1>12. CASE Die(h)
  BY <1>12, Distinct DEF Die, ByHost, HGoto, daemons, Launching, TypeOK
<1> QED BY <1>1, <1>2, <1>3, <1>4, <1>5, <1>6, <1>7, <1>8, <1>9, <1>10, <1>11, <1>12 DEF Step

LEMMA TypeStep == TypeOK /\ [Next]_vars => TypeOK'
<1> SUFFICES ASSUME TypeOK, [Next]_vars PROVE TypeOK'
  OBVIOUS
<1>1. CASE UNCHANGED vars
  BY <1>1 DEF vars, daemons, hosts, TypeOK
<1> QED BY <1>1, DaemonType, HostType DEF Next

\* Every reachable state is well typed, for any daemons and hosts.
THEOREM LaunchTyped == Spec => []TypeOK
<1> QED BY TypeInit, TypeStep, PTL DEF Spec

-----------------------------------------------------------------------------
(* One host at a time.                                                      *)

LEMMA LaunchInit == Init => LaunchInv
BY Distinct DEF Init, LaunchInv, OneAtATime, NoneBeside, LockHeld, Named, Attached, Holders,
                Launching, NoLock, Up

USE DEF Goto, HGoto, ByDaemon, ByHost, daemons, hosts

LEMMA BootInv ==
  ASSUME TypeOK, ~Rivals, LaunchInv, NEW d \in Daemons, Boot(d)
  PROVE  LaunchInv'
<1>1. OneAtATime'
  BY DEF Boot, LaunchInv, OneAtATime, Up
<1>2. NoneBeside'
  BY DEF Boot, LaunchInv, NoneBeside
<1>3. LockHeld'
  BY DEF Boot, LaunchInv, LockHeld
<1>4. Named'
  BY DEF Boot, LaunchInv, Named
<1>5. Attached'
  BY DEF Boot, LaunchInv, Attached
<1> QED BY <1>1, <1>2, <1>3, <1>4, <1>5 DEF LaunchInv

LEMMA LookInv ==
  ASSUME TypeOK, ~Rivals, LaunchInv, NEW d \in Daemons, Look(d)
  PROVE  LaunchInv'
<1>1. OneAtATime'
  BY DEF Look, LaunchInv, OneAtATime, Up
<1>2. NoneBeside'
  BY Distinct DEF Look, Foreign, LaunchInv, NoneBeside, Named, TypeOK
<1>3. LockHeld'
  BY DEF Look, LaunchInv, LockHeld
<1>4. Named'
  BY DEF Look, LaunchInv, Named
<1>5. Attached'
  BY DEF Look, LaunchInv, Attached
<1> QED BY <1>1, <1>2, <1>3, <1>4, <1>5 DEF LaunchInv

LEMMA AwaitOwnerInv ==
  ASSUME TypeOK, ~Rivals, LaunchInv, NEW d \in Daemons, AwaitOwner(d)
  PROVE  LaunchInv'
<1>1. OneAtATime'
  BY DEF AwaitOwner, LaunchInv, OneAtATime, Up
<1>2. NoneBeside'
  BY DEF AwaitOwner, LaunchInv, NoneBeside
<1>3. LockHeld'
  BY DEF AwaitOwner, LaunchInv, LockHeld
<1>4. Named'
  BY DEF AwaitOwner, LaunchInv, Named
<1>5. Attached'
  BY DEF AwaitOwner, LaunchInv, Attached
<1> QED BY <1>1, <1>2, <1>3, <1>4, <1>5 DEF LaunchInv

LEMMA AwaitReleaseInv ==
  ASSUME TypeOK, ~Rivals, LaunchInv, NEW d \in Daemons, AwaitRelease(d)
  PROVE  LaunchInv'
<1>1. OneAtATime'
  BY DEF AwaitRelease, LaunchInv, OneAtATime, Up
<1>2. NoneBeside'
  BY Distinct DEF AwaitRelease, LaunchInv, NoneBeside, Named, Alive
<1>3. LockHeld'
  BY DEF AwaitRelease, LaunchInv, LockHeld
<1>4. Named'
  BY DEF AwaitRelease, LaunchInv, Named
<1>5. Attached'
  BY DEF AwaitRelease, LaunchInv, Attached
<1> QED BY <1>1, <1>2, <1>3, <1>4, <1>5 DEF LaunchInv

LEMMA ReattachInv ==
  ASSUME TypeOK, ~Rivals, LaunchInv, NEW d \in Daemons, Reattach(d)
  PROVE  LaunchInv'
<1>1. OneAtATime'
  BY DEF Reattach, Attach, LaunchInv, OneAtATime, TypeOK, Up
<1>2. NoneBeside'
  BY DEF Reattach, Attach, LaunchInv, NoneBeside, Attached, TypeOK
<1>3. LockHeld'
  BY DEF Reattach, LaunchInv, LockHeld
<1>4. Named'
  BY DEF Reattach, LaunchInv, Named
<1>5. Attached'
  BY DEF Reattach, Attach, LaunchInv, Attached, NoneBeside, TypeOK
<1> QED BY <1>1, <1>2, <1>3, <1>4, <1>5 DEF LaunchInv

LEMMA SpawnInv ==
  ASSUME TypeOK, ~Rivals, LaunchInv, NEW d \in Daemons, Spawn(d)
  PROVE  LaunchInv'
<1>1. OneAtATime'
  BY DEF Spawn, LaunchInv, OneAtATime, TypeOK, Up
<1>2. NoneBeside'
  BY DEF Spawn, LaunchInv, NoneBeside, OneAtATime, Up
<1>3. LockHeld'
  BY DEF Spawn, LaunchInv, LockHeld, Holders
<1>4. Named'
  BY DEF Spawn, LaunchInv, Named
<1>5. Attached'
  BY DEF Spawn, LaunchInv, Attached
<1> QED BY <1>1, <1>2, <1>3, <1>4, <1>5 DEF LaunchInv

LEMMA PollInv ==
  ASSUME TypeOK, ~Rivals, LaunchInv, NEW d \in Daemons, Poll(d)
  PROVE  LaunchInv'
<1>1. OneAtATime'
  BY DEF Poll, Attach, LaunchInv, OneAtATime, NoneBeside, TypeOK, Up
<1>2. NoneBeside'
  BY DEF Poll, Attach, LaunchInv, NoneBeside, TypeOK
<1>3. LockHeld'
  BY DEF Poll, LaunchInv, LockHeld
<1>4. Named'
  BY DEF Poll, LaunchInv, Named
<1>5. Attached'
  BY DEF Poll, Attach, LaunchInv, Attached, NoneBeside, TypeOK
<1> QED BY <1>1, <1>2, <1>3, <1>4, <1>5 DEF LaunchInv

LEMMA DaemonDiesInv ==
  ASSUME TypeOK, ~Rivals, LaunchInv, NEW d \in Daemons, DaemonDies(d)
  PROVE  LaunchInv'
<1>1. OneAtATime'
  BY DEF DaemonDies, LaunchInv, OneAtATime, Up
<1>2. NoneBeside'
  BY DEF DaemonDies, LaunchInv, NoneBeside
<1>3. LockHeld'
  BY DEF DaemonDies, LaunchInv, LockHeld
<1>4. Named'
  BY DEF DaemonDies, LaunchInv, Named
<1>5. Attached'
  BY Distinct DEF DaemonDies, LaunchInv, Attached
<1> QED BY <1>1, <1>2, <1>3, <1>4, <1>5 DEF LaunchInv

LEMMA ReleaseInv ==
  ASSUME TypeOK, ~Rivals, LaunchInv, NEW d \in Daemons, NEW h \in Hosts, Release(d, h)
  PROVE  LaunchInv'
<1>1. OneAtATime'
  BY DEF Release, LaunchInv, OneAtATime, TypeOK, Launching, Up
<1>2. NoneBeside'
  BY DEF Release, LaunchInv, NoneBeside, Named, TypeOK
<1>3. LockHeld'
  BY DEF Release, LaunchInv, LockHeld, TypeOK, Holders
<1>4. Named'
  BY DEF Release, LaunchInv, Named, TypeOK
<1>5. Attached'
  BY Distinct DEF Release, LaunchInv, Attached, TypeOK
<1> QED BY <1>1, <1>2, <1>3, <1>4, <1>5 DEF LaunchInv

LEMMA OpenLockInv ==
  ASSUME TypeOK, ~Rivals, LaunchInv, NEW h \in Hosts, OpenLock(h)
  PROVE  LaunchInv'
<1>1. OneAtATime'
  BY DEF OpenLock, Create, LaunchInv, OneAtATime, TypeOK, Up
<1>2. NoneBeside'
  BY DEF OpenLock, Create, LaunchInv, NoneBeside, TypeOK
<1>3. LockHeld'
  BY Distinct DEF OpenLock, Create, NoLock, LaunchInv, LockHeld, OneAtATime, TypeOK, Holders
<1>4. Named'
  BY DEF OpenLock, Create, LaunchInv, Named, TypeOK
<1>5. Attached'
  BY DEF OpenLock, Create, LaunchInv, Attached, TypeOK
<1> QED BY <1>1, <1>2, <1>3, <1>4, <1>5 DEF LaunchInv

LEMMA ReadLockInv ==
  ASSUME TypeOK, ~Rivals, LaunchInv, NEW h \in Hosts, ReadLock(h)
  PROVE  LaunchInv'
<1>1. OneAtATime'
  BY DEF ReadLock, LaunchInv, OneAtATime, TypeOK, Up
<1>2. NoneBeside'
  BY DEF ReadLock, LaunchInv, NoneBeside, TypeOK
<1>3. LockHeld'
  BY DEF ReadLock, Reclaims, LaunchInv, LockHeld, Alive, Holders
<1>4. Named'
  BY DEF ReadLock, LaunchInv, Named
<1>5. Attached'
  BY DEF ReadLock, LaunchInv, Attached
<1> QED BY <1>1, <1>2, <1>3, <1>4, <1>5 DEF LaunchInv

LEMMA RemoveLockInv ==
  ASSUME TypeOK, ~Rivals, LaunchInv, NEW h \in Hosts, RemoveLock(h)
  PROVE  LaunchInv'
<1>1. OneAtATime'
  BY DEF RemoveLock, LaunchInv, OneAtATime, TypeOK, Up
<1>2. NoneBeside'
  BY DEF RemoveLock, LaunchInv, NoneBeside, TypeOK
<1>3. LockHeld'
  BY DEF RemoveLock, LaunchInv, LockHeld, OneAtATime, TypeOK, Holders
<1>4. Named'
  BY DEF RemoveLock, LaunchInv, Named
<1>5. Attached'
  BY DEF RemoveLock, LaunchInv, Attached
<1> QED BY <1>1, <1>2, <1>3, <1>4, <1>5 DEF LaunchInv

LEMMA RetryLockInv ==
  ASSUME TypeOK, ~Rivals, LaunchInv, NEW h \in Hosts, RetryLock(h)
  PROVE  LaunchInv'
<1>1. OneAtATime'
  BY DEF RetryLock, Create, LaunchInv, OneAtATime, TypeOK, Up
<1>2. NoneBeside'
  BY DEF RetryLock, Create, LaunchInv, NoneBeside, TypeOK
<1>3. LockHeld'
  BY Distinct DEF RetryLock, Create, NoLock, LaunchInv, LockHeld, OneAtATime, TypeOK, Holders
<1>4. Named'
  BY DEF RetryLock, Create, LaunchInv, Named, TypeOK
<1>5. Attached'
  BY DEF RetryLock, Create, LaunchInv, Attached, TypeOK
<1> QED BY <1>1, <1>2, <1>3, <1>4, <1>5 DEF LaunchInv

LEMMA WriteLockInv ==
  ASSUME TypeOK, ~Rivals, LaunchInv, NEW h \in Hosts, WriteLock(h)
  PROVE  LaunchInv'
<1>a. PICK s \in {"start", "unlock"} : st' = [st EXCEPT ![h] = s]
  BY DEF WriteLock, GivesUp
<1>b. lock'.by = lock.by /\ (lock' # NoLock => lock # NoLock)
  <2>1. CASE lock.by = h
    BY <2>1, Distinct DEF WriteLock, TypeOK, NoLock
  <2>2. CASE lock.by # h
    BY <2>2 DEF WriteLock
  <2> QED BY <2>1, <2>2
<1>c. st[h] = "write" /\ UNCHANGED <<pc, seen, owner, client, desc>>
  BY DEF WriteLock, daemons
<1>1. OneAtATime'
  BY <1>a, <1>c DEF LaunchInv, OneAtATime, Launching, TypeOK, Up
<1>2. NoneBeside'
  BY <1>a, <1>c DEF LaunchInv, NoneBeside, Launching, TypeOK
<1>3. LockHeld'
  BY <1>a, <1>b, <1>c DEF LaunchInv, LockHeld, Holders, TypeOK
<1>4. Named'
  BY <1>a, <1>c DEF LaunchInv, Named, TypeOK
<1>5. Attached'
  BY <1>a, <1>c DEF LaunchInv, Attached, TypeOK
<1> QED BY <1>1, <1>2, <1>3, <1>4, <1>5 DEF LaunchInv

LEMMA StartProviderInv ==
  ASSUME TypeOK, ~Rivals, LaunchInv, NEW h \in Hosts, StartProvider(h)
  PROVE  LaunchInv'
<1>a. PICK s \in {"publish", "unlock"} : st' = [st EXCEPT ![h] = s]
  BY DEF StartProvider, GivesUp
<1>b. st[h] = "start" /\ UNCHANGED <<pc, seen, owner, client, lock, desc>>
  BY DEF StartProvider, daemons
<1>1. OneAtATime'
  BY <1>a, <1>b DEF LaunchInv, OneAtATime, Launching, TypeOK, Up
<1>2. NoneBeside'
  BY <1>a, <1>b DEF LaunchInv, NoneBeside, Launching, TypeOK
<1>3. LockHeld'
  BY <1>a, <1>b DEF LaunchInv, LockHeld, Holders, TypeOK
<1>4. Named'
  BY <1>a, <1>b DEF LaunchInv, Named, TypeOK
<1>5. Attached'
  BY <1>a, <1>b DEF LaunchInv, Attached, TypeOK
<1> QED BY <1>1, <1>2, <1>3, <1>4, <1>5 DEF LaunchInv

LEMMA PublishInv ==
  ASSUME TypeOK, ~Rivals, LaunchInv, NEW h \in Hosts, Publish(h)
  PROVE  LaunchInv'
<1>a. PICK s \in {"up", "stopping", "unlock"} :
        st' = [st EXCEPT ![h] = s] /\ (s # "unlock" => desc' = h) /\ (s = "unlock" => desc' = desc)
  BY DEF Publish, GivesUp
<1>b. st[h] = "publish" /\ UNCHANGED <<pc, seen, owner, client, lock>>
  BY DEF Publish, daemons
<1>c. \A g \in Hosts : st[g] \in {"up", "stopping"} => g = h
  BY <1>b DEF LaunchInv, LockHeld, Holders
<1>1. OneAtATime'
  BY <1>a, <1>b DEF LaunchInv, OneAtATime, Launching, TypeOK, Up
<1>2. NoneBeside'
  BY <1>a, <1>b DEF LaunchInv, NoneBeside, OneAtATime, Launching, TypeOK, Up
<1>3. LockHeld'
  BY <1>a, <1>b DEF LaunchInv, LockHeld, Holders, TypeOK
<1>4. Named'
  BY <1>a, <1>b, <1>c DEF LaunchInv, Named, TypeOK
<1>5. Attached'
  BY <1>a, <1>b DEF LaunchInv, Attached, TypeOK
<1> QED BY <1>1, <1>2, <1>3, <1>4, <1>5 DEF LaunchInv

LEMMA WatchOwnerInv ==
  ASSUME TypeOK, ~Rivals, LaunchInv, NEW h \in Hosts, WatchOwner(h)
  PROVE  LaunchInv'
<1>1. OneAtATime'
  BY DEF WatchOwner, LaunchInv, OneAtATime, Launching, Up
<1>2. NoneBeside'
  BY DEF WatchOwner, LaunchInv, NoneBeside, Named
<1>3. LockHeld'
  BY DEF WatchOwner, LaunchInv, LockHeld, Holders
<1>4. Named'
  BY DEF WatchOwner, LaunchInv, Named
<1>5. Attached'
  BY DEF WatchOwner, LaunchInv, Attached
<1> QED BY <1>1, <1>2, <1>3, <1>4, <1>5 DEF LaunchInv

LEMMA ProviderExitsInv ==
  ASSUME TypeOK, ~Rivals, LaunchInv, NEW h \in Hosts, ProviderExits(h)
  PROVE  LaunchInv'
<1>1. OneAtATime'
  BY DEF ProviderExits, LaunchInv, OneAtATime, Launching, Up
<1>2. NoneBeside'
  BY DEF ProviderExits, LaunchInv, NoneBeside, Named
<1>3. LockHeld'
  BY DEF ProviderExits, LaunchInv, LockHeld, Holders
<1>4. Named'
  BY DEF ProviderExits, LaunchInv, Named
<1>5. Attached'
  BY DEF ProviderExits, LaunchInv, Attached
<1> QED BY <1>1, <1>2, <1>3, <1>4, <1>5 DEF LaunchInv

LEMMA UnpublishInv ==
  ASSUME TypeOK, ~Rivals, LaunchInv, NEW h \in Hosts, Unpublish(h)
  PROVE  LaunchInv'
<1>1. OneAtATime'
  BY DEF Unpublish, LaunchInv, OneAtATime, Attached, Launching, Up
<1>2. NoneBeside'
  BY DEF Unpublish, LaunchInv, NoneBeside, Named
<1>3. LockHeld'
  BY DEF Unpublish, LaunchInv, LockHeld, Holders
<1>4. Named'
  BY DEF Unpublish, LaunchInv, Named, TypeOK
<1>5. Attached'
  BY Distinct DEF Unpublish, LaunchInv, Attached, TypeOK
<1> QED BY <1>1, <1>2, <1>3, <1>4, <1>5 DEF LaunchInv

LEMMA UnlockInv ==
  ASSUME TypeOK, ~Rivals, LaunchInv, NEW h \in Hosts, Unlock(h)
  PROVE  LaunchInv'
<1>1. OneAtATime'
  BY DEF Unlock, LaunchInv, OneAtATime, Launching, Up
<1>2. NoneBeside'
  BY DEF Unlock, LaunchInv, NoneBeside, Launching
<1>3. LockHeld'
  BY DEF Unlock, LaunchInv, LockHeld, TypeOK, Holders
<1>4. Named'
  BY DEF Unlock, LaunchInv, Named
<1>5. Attached'
  BY DEF Unlock, LaunchInv, Attached
<1> QED BY <1>1, <1>2, <1>3, <1>4, <1>5 DEF LaunchInv

LEMMA DieInv ==
  ASSUME TypeOK, ~Rivals, LaunchInv, NEW h \in Hosts, Die(h)
  PROVE  LaunchInv'
<1>1. OneAtATime'
  BY DEF Die, LaunchInv, OneAtATime, Attached, Launching, Up
<1>2. NoneBeside'
  BY DEF Die, LaunchInv, NoneBeside, Launching
<1>3. LockHeld'
  BY DEF Die, LaunchInv, LockHeld, Holders
<1>4. Named'
  BY DEF Die, LaunchInv, Named
<1>5. Attached'
  BY Distinct DEF Die, LaunchInv, Attached, TypeOK
<1> QED BY <1>1, <1>2, <1>3, <1>4, <1>5 DEF LaunchInv

LEMMA LaunchStep == TypeOK /\ ~Rivals /\ LaunchInv /\ [Next]_vars => LaunchInv'
<1> SUFFICES ASSUME TypeOK, ~Rivals, LaunchInv, [Next]_vars PROVE LaunchInv'
  OBVIOUS
<1>1. CASE UNCHANGED vars
  BY <1>1 DEF vars, LaunchInv, OneAtATime, NoneBeside, LockHeld, Named, Attached, Up
<1>2. CASE \E d \in Daemons : Daemon(d)
  BY <1>2, BootInv, LookInv, AwaitOwnerInv, AwaitReleaseInv, ReattachInv, SpawnInv, PollInv,
     DaemonDiesInv, ReleaseInv DEF Daemon
<1>3. CASE \E h \in Hosts : Step(h) \/ ProviderExits(h) \/ Die(h)
  BY <1>3, OpenLockInv, ReadLockInv, RemoveLockInv, RetryLockInv, WriteLockInv,
     StartProviderInv, PublishInv, WatchOwnerInv, ProviderExitsInv, UnpublishInv, UnlockInv,
     DieInv DEF Step
<1> QED BY <1>1, <1>2, <1>3 DEF Next

\* A host that serves is the one the descriptor names and holds the lock, whichever
\* hosts and daemons died before it, as long as daemons come one after the other.
THEOREM ServingAlways == ~Rivals => (Spec => []ServingHoldsLock)
<1> SUFFICES ASSUME ~Rivals
             PROVE  Spec => []ServingHoldsLock
  OBVIOUS
<1>1. LaunchInv => ServingHoldsLock
  BY DEF LaunchInv, LockHeld, Named, Holders, ServingHoldsLock
<1>2. TypeOK /\ LaunchInv /\ [Next]_vars => LaunchInv'
  BY LaunchStep
<1> QED BY <1>1, <1>2, TypeInit, TypeStep, LaunchInit, PTL DEF Spec

\* Then no two hosts have a provider at once, not even while one is being stopped, and
\* no daemon drives a host of another one.
THEOREM OneProviderAlways == ~Rivals => (Spec => [](OneProvider /\ NeverAdopted))
<1> SUFFICES ASSUME ~Rivals
             PROVE  Spec => [](OneProvider /\ NeverAdopted)
  OBVIOUS
<1>1. TypeOK /\ LaunchInv => OneProvider /\ NeverAdopted
  BY DEF LaunchInv, LockHeld, Attached, Holders, Provided, OneProvider, NeverAdopted, TypeOK
<1>2. TypeOK /\ LaunchInv /\ [Next]_vars => LaunchInv'
  BY LaunchStep
<1> QED BY <1>1, <1>2, TypeInit, TypeStep, LaunchInit, PTL DEF Spec

-----------------------------------------------------------------------------
(* What the relay keeps and tells.                                          *)

Answers == Decisions \cup {Nil}

\* What is on the connection, in the journal and in the controller's queue.
CtlFrames  == [k : {"event"}, ev : Nat] \cup [k : {"end"}, ev : Nat, direct : BOOLEAN]
                \cup [k : {"ask"}, r : Requests, waits : BOOLEAN]
                \cup [k : {"ok", "bad"}, r : Requests]
                \cup [k : {"cmd"}, r : Requests, dec : Answers, waits : BOOLEAN]
HostFrames == [k : {"prompt"}, gen : Nat, turn : 0..MaxTurns]
                \cup [k : {"ack"}, gen : Nat, ev : Nat]
                \cup [k : {"cmd", "answer"}, gen : Nat, r : Requests, dec : Answers]
Entries    == [k : {"event"}, ev : Nat] \cup [k : {"ask", "cmd"}, r : Requests]
Outcomes   == [k : {"event", "end"}, ev : Nat, turn : 0..MaxTurns]
                \cup [k : {"dec"}, r : Requests, dec : Answers]

Ctls == [at : {"off", "gate", "on"}, gen : Nat, busy : BOOLEAN, pend : Nat, turn : 0..MaxTurns,
         send : BOOLEAN, ignore : BOOLEAN, term : Nat, ack : Nat, coming : SUBSET Requests,
         open : SUBSET Requests, ask : Requests \cup {Nil}, dec : Answers,
         accepted : [Requests -> Answers], queue : Seq(Outcomes)]
Dbs  == [turn : 0..MaxTurns, turns : 0..MaxTurns, log : Seq([ev : Nat, turn : 0..MaxTurns]),
         decided : [Requests -> Answers]]

HostTyped ==
  /\ gen \in Nat /\ att \in BOOLEAN /\ active \in [turn : 0..MaxTurns, gen : Nat]
  /\ result \in Nat /\ replay \in Seq(Entries) /\ asks \subseteq Requests
  /\ cmds \in [Requests -> Answers] /\ ev = Len(said)
  /\ prov \in [turn : 0..MaxTurns, frames : 0..MaxFrames] /\ asked \subseteq Requests
  /\ got \in [Requests -> Seq(Answers)] /\ said \in Seq([ev : Nat, turn : 0..MaxTurns])
WireTyped  == toHost \in Seq(HostFrames) /\ toCtl \in Seq(CtlFrames)
RelayTyped == HostTyped /\ WireTyped /\ ctl \in Ctls /\ db \in Dbs

\* The frames of a sequence, and those that carry a number of the provider's events.
Frames(s)   == {s[i] : i \in DOMAIN s}
Carries(f)  == f.k \in {"event", "end"}
Carriers(s) == {f \in Frames(s) : Carries(f)}
Ascends(s) ==
  \A i, j \in DOMAIN s : i < j /\ Carries(s[i]) /\ Carries(s[j]) => s[i].ev < s[j].ev

\* On its way to the host: one prompt at most, behind the acknowledgement of what has ended.
Acks(f, n)     == f.k = "ack" /\ f.ev = n
OnePrompt(s)   == \A i, j \in DOMAIN s : s[i].k = "prompt" /\ s[j].k = "prompt" => i = j
AckFirst(s, n) ==
  \A i \in DOMAIN s : s[i].k = "prompt" => \E j \in DOMAIN s : j < i /\ Acks(s[j], n)

LEMMA FramesOfAppend ==
  ASSUME NEW S, NEW s \in Seq(S), NEW f
  PROVE  Frames(Append(s, f)) = Frames(s) \cup {f}
<1>1. Len(s) \in Nat /\ DOMAIN s = 1..Len(s) /\ DOMAIN Append(s, f) = 1..Len(s) + 1
  OBVIOUS
<1>2. /\ \A i \in DOMAIN s : i \in DOMAIN Append(s, f) /\ Append(s, f)[i] = s[i]
      /\ Len(s) + 1 \in DOMAIN Append(s, f) /\ Append(s, f)[Len(s) + 1] = f
      /\ \A i \in DOMAIN Append(s, f) : i \in DOMAIN s \/ i = Len(s) + 1
  BY <1>1
<1> QED BY <1>2 DEF Frames

LEMMA FramesOfTail ==
  ASSUME NEW S, NEW s \in Seq(S), s # <<>>
  PROVE  Frames(s) = Frames(Tail(s)) \cup {Head(s)}
<1>1. Len(s) \in Nat \ {0} /\ DOMAIN s = 1..Len(s) /\ Head(s) = s[1] OBVIOUS
<1>2. /\ Tail(s) \in Seq(S) /\ Len(Tail(s)) = Len(s) - 1
      /\ \A i \in 1..Len(s) - 1 : Tail(s)[i] = s[i + 1]
  OBVIOUS
<1>3. DOMAIN Tail(s) = 1..Len(s) - 1 BY <1>2
<1>4. \A i \in 1..Len(s) : i = 1 \/ (i - 1 \in DOMAIN Tail(s) /\ Tail(s)[i - 1] = s[i])
  BY <1>1, <1>2, <1>3
<1>5. \A i \in DOMAIN Tail(s) : i + 1 \in DOMAIN s /\ s[i + 1] = Tail(s)[i] BY <1>1, <1>2, <1>3
<1>6. \A f \in Frames(s) : f \in Frames(Tail(s)) \cup {Head(s)}
  <2>1. \A i \in 1..Len(s) : i = 1 \/ s[i] \in Frames(Tail(s)) BY <1>4 DEF Frames
  <2> QED BY <1>1, <2>1 DEF Frames
<1>7. \A f \in Frames(Tail(s)) : f \in Frames(s) BY <1>5 DEF Frames
<1>8. Head(s) \in Frames(s) BY <1>1 DEF Frames
<1> QED BY <1>6, <1>7, <1>8

\* Something is said at the end of a sequence.
LEMMA Later ==
  ASSUME NEW S, NEW s \in Seq(S), NEW f
  PROVE  /\ Carries(f) => Carriers(Append(s, f)) = Carriers(s) \cup {f}
         /\ ~Carries(f) => Carriers(Append(s, f)) = Carriers(s)
         /\ /\ Ascends(s) /\ (Carries(f) => \A g \in Carriers(s) : g.ev < f.ev)
            => Ascends(Append(s, f))
         /\ f.k # "prompt" =>
              /\ OnePrompt(s) => OnePrompt(Append(s, f))
              /\ \A n : AckFirst(s, n) => AckFirst(Append(s, f), n)
         /\ (\A g \in Frames(s) : g.k # "prompt") =>
              /\ OnePrompt(Append(s, f))
              /\ \A n : (\E g \in Frames(s) : Acks(g, n)) => AckFirst(Append(s, f), n)
<1>1. Frames(Append(s, f)) = Frames(s) \cup {f} BY FramesOfAppend
<1>2. Len(s) \in Nat /\ DOMAIN s = 1..Len(s) /\ DOMAIN Append(s, f) = 1..Len(s) + 1
  OBVIOUS
<1>3. /\ \A i \in DOMAIN s : i \in DOMAIN Append(s, f) /\ Append(s, f)[i] = s[i]
      /\ Append(s, f)[Len(s) + 1] = f
      /\ \A i \in DOMAIN Append(s, f) : i \in DOMAIN s \/ i = Len(s) + 1
      /\ \A i \in DOMAIN s : i < Len(s) + 1 /\ i \in Nat
  BY <1>2
<1>4. ASSUME Ascends(s), Carries(f) => \A g \in Carriers(s) : g.ev < f.ev
      PROVE  Ascends(Append(s, f))
  <2>1. \A i \in DOMAIN s : s[i] \in Frames(s) BY DEF Frames
  <2> QED BY <1>3, <1>4, <2>1 DEF Ascends, Carriers
<1>5. ASSUME f.k # "prompt"
      PROVE  /\ OnePrompt(s) => OnePrompt(Append(s, f))
             /\ \A n : AckFirst(s, n) => AckFirst(Append(s, f), n)
  BY <1>3, <1>5 DEF OnePrompt, AckFirst
<1>6. ASSUME \A g \in Frames(s) : g.k # "prompt"
      PROVE  /\ OnePrompt(Append(s, f))
             /\ \A n : (\E g \in Frames(s) : Acks(g, n)) => AckFirst(Append(s, f), n)
  <2>1. \A i \in DOMAIN s : s[i].k # "prompt" BY <1>6 DEF Frames
  <2> QED BY <1>3, <2>1 DEF OnePrompt, AckFirst, Frames
<1> QED BY <1>1, <1>4, <1>5, <1>6 DEF Carriers

\* The first of a sequence is read.
LEMMA Sooner ==
  ASSUME NEW S, NEW s \in Seq(S), s # <<>>
  PROVE  /\ Carries(Head(s)) => Carriers(s) = Carriers(Tail(s)) \cup {Head(s)}
         /\ ~Carries(Head(s)) => Carriers(s) = Carriers(Tail(s))
         /\ Ascends(s) => Ascends(Tail(s))
         /\ Ascends(s) /\ Carries(Head(s)) => \A g \in Carriers(Tail(s)) : Head(s).ev < g.ev
         /\ OnePrompt(s) => OnePrompt(Tail(s))
         /\ OnePrompt(s) /\ Head(s).k = "prompt" => \A g \in Frames(Tail(s)) : g.k # "prompt"
         /\ \A n : AckFirst(s, n) /\ ~Acks(Head(s), n) => AckFirst(Tail(s), n)
         /\ \A n : AckFirst(s, n) => Head(s).k # "prompt"
<1>0. Frames(s) = Frames(Tail(s)) \cup {Head(s)} BY FramesOfTail
<1>1. Len(s) \in Nat \ {0} /\ DOMAIN s = 1..Len(s) /\ Head(s) = s[1] OBVIOUS
<1>2. /\ Tail(s) \in Seq(S) /\ Len(Tail(s)) = Len(s) - 1
      /\ \A i \in 1..Len(s) - 1 : Tail(s)[i] = s[i + 1]
  OBVIOUS
<1>3. \A i \in DOMAIN Tail(s) : /\ i \in Nat \ {0} /\ i + 1 \in DOMAIN s /\ 1 < i + 1
                                /\ s[i + 1] = Tail(s)[i]
  BY <1>1, <1>2
<1>4. \A i \in DOMAIN s : i # 1 => i \in Nat /\ i - 1 \in DOMAIN Tail(s)
  BY <1>1, <1>2
<1>5. 1 \in DOMAIN s BY <1>1
<1>6. Ascends(s) => Ascends(Tail(s)) BY <1>3 DEF Ascends
<1>7. \A g \in Frames(Tail(s)) : \E i \in DOMAIN s : 1 < i /\ g = s[i] BY <1>3 DEF Frames
<1>8. Ascends(s) /\ Carries(Head(s)) => \A g \in Carriers(Tail(s)) : Head(s).ev < g.ev
  BY <1>1, <1>5, <1>7 DEF Ascends, Carriers
<1>9. OnePrompt(s) => OnePrompt(Tail(s))
  <2>1. \A i, j \in DOMAIN Tail(s) : i + 1 = j + 1 => i = j BY <1>3
  <2> QED BY <1>3, <2>1 DEF OnePrompt
<1>10. OnePrompt(s) /\ Head(s).k = "prompt" => \A g \in Frames(Tail(s)) : g.k # "prompt"
  BY <1>1, <1>5, <1>7 DEF OnePrompt
<1>11. ASSUME NEW n, AckFirst(s, n), ~Acks(Head(s), n) PROVE AckFirst(Tail(s), n)
  <2>1. SUFFICES ASSUME NEW i \in DOMAIN Tail(s), Tail(s)[i].k = "prompt"
                 PROVE  \E j \in DOMAIN Tail(s) : j < i /\ Acks(Tail(s)[j], n)
    BY DEF AckFirst
  <2>2. PICK j \in DOMAIN s : j < i + 1 /\ Acks(s[j], n) BY <1>3, <1>11, <2>1 DEF AckFirst
  <2>3. j # 1 BY <1>1, <1>11, <2>2
  <2>4. /\ j - 1 \in DOMAIN Tail(s) /\ j - 1 < i /\ Tail(s)[j - 1] = s[j]
    BY <1>3, <1>4, <2>2, <2>3
  <2> QED BY <2>2, <2>4
<1>12. \A n : AckFirst(s, n) => Head(s).k # "prompt" BY <1>1, <1>5 DEF AckFirst
<1> QED BY <1>0, <1>6, <1>8, <1>9, <1>10, <1>11, <1>12 DEF Carriers

LEMMA Nothing ==
  /\ Frames(<<>>) = {} /\ Carriers(<<>>) = {} /\ Ascends(<<>>) /\ OnePrompt(<<>>)
  /\ \A n : AckFirst(<<>>, n)
BY DEF Frames, Carriers, Ascends, OnePrompt, AckFirst

-----------------------------------------------------------------------------
(* Types.                                                                   *)

LEMMA ElementTyped ==
  ASSUME NEW S, NEW s \in Seq(S), NEW i \in 1..Len(s)
  PROVE  s[i] \in S
OBVIOUS

LEMMA Appended ==
  ASSUME NEW S, NEW s \in Seq(S), NEW f \in S
  PROVE  Append(s, f) \in Seq(S)
OBVIOUS

\* The frames that are made.
LEMMA Made ==
  /\ \A n \in Nat : [k |-> "event", ev |-> n] \in CtlFrames /\ [k |-> "event", ev |-> n] \in Entries
  /\ \A n \in Nat, b \in BOOLEAN : [k |-> "end", ev |-> n, direct |-> b] \in CtlFrames
  /\ \A r \in Requests, b \in BOOLEAN : [k |-> "ask", r |-> r, waits |-> b] \in CtlFrames
  /\ \A r \in Requests, w \in {"ok", "bad"} : [k |-> w, r |-> r] \in CtlFrames
  /\ \A r \in Requests, d \in Answers, b \in BOOLEAN :
       [k |-> "cmd", r |-> r, dec |-> d, waits |-> b] \in CtlFrames
  /\ \A r \in Requests, w \in {"ask", "cmd"} : [k |-> w, r |-> r] \in Entries
  /\ \A n \in Nat, t \in 0..MaxTurns, w \in {"event", "end"} :
       [k |-> w, ev |-> n, turn |-> t] \in Outcomes
  /\ \A r \in Requests, d \in Answers : Decided(r, d) \in Outcomes
  /\ \A g \in Nat, t \in 0..MaxTurns : [gen |-> g, k |-> "prompt", turn |-> t] \in HostFrames
  /\ \A g, n \in Nat : [gen |-> g, k |-> "ack", ev |-> n] \in HostFrames
  /\ \A g \in Nat, r \in Requests, d \in Answers, w \in {"cmd", "answer"} :
       [gen |-> g, k |-> w, r |-> r, dec |-> d] \in HostFrames
BY DEF CtlFrames, Entries, Outcomes, HostFrames, Decided

\* What is read from them.
LEMMA ReadFields ==
  /\ \A f \in CtlFrames : /\ Carries(f) => f.ev \in Nat
                          /\ f.k = "end" => f.direct \in BOOLEAN
                          /\ ~Carries(f) => f.r \in Requests
                          /\ f.k = "cmd" => f.dec \in Answers
  /\ \A f \in HostFrames : /\ f.gen \in Nat /\ (f.k = "prompt" => f.turn \in 0..MaxTurns)
                           /\ f.k = "ack" => f.ev \in Nat
                           /\ f.k \in {"cmd", "answer"} => f.r \in Requests /\ f.dec \in Answers
  /\ \A f \in Outcomes : /\ f.k = "dec" => f.r \in Requests /\ f.dec \in Answers
                         /\ f.k # "dec" => f.ev \in Nat /\ f.turn \in 0..MaxTurns
BY DEF CtlFrames, HostFrames, Outcomes, Carries

\* A frame is taken out of a sequence.
LEMMA TakenOut ==
  ASSUME NEW S, NEW s \in Seq(S), NEW i \in 1..Len(s)
  PROVE  RemoveAt(s, i) \in Seq(S) /\ s[i] \in S
BY DEF RemoveAt

\* What a step adds to the connection and to the journal.
LEMMA Added ==
  ASSUME RelayTyped
  PROVE  /\ \A f \in CtlFrames : Tell(f) => toCtl' \in Seq(CtlFrames)
         /\ \A f \in CtlFrames, g \in Nat : Reply(g, f) => toCtl' \in Seq(CtlFrames)
         /\ \A f \in HostFrames : Send(f) => toHost' \in Seq(HostFrames)
         /\ \A e \in Entries : replay' = Append(replay, e) => replay' \in Seq(Entries)
<1>1. toCtl \in Seq(CtlFrames) /\ toHost \in Seq(HostFrames) /\ replay \in Seq(Entries)
  BY DEF RelayTyped, HostTyped, WireTyped
<1>2. \A f \in CtlFrames : Tell(f) => toCtl' \in Seq(CtlFrames)
  BY <1>1, Appended DEF Tell
<1>3. \A f \in CtlFrames, g \in Nat : Reply(g, f) => toCtl' \in Seq(CtlFrames)
  BY <1>1, Appended DEF Reply
<1>4. \A f \in HostFrames : Send(f) => toHost' \in Seq(HostFrames)
  BY <1>1, Appended DEF Send
<1>5. \A e \in Entries : replay' = Append(replay, e) => replay' \in Seq(Entries)
  BY <1>1, Appended
<1> QED BY <1>2, <1>3, <1>4, <1>5

LEMMA EmptyTyped == Empty => replay' \in Seq(Entries) /\ cmds' \in [Requests -> Answers]
BY DEF Empty, Answers

LEMMA HostReadsTyped == RelayTyped /\ HostReads => RelayTyped'
<1> SUFFICES ASSUME RelayTyped, HostReads PROVE RelayTyped'
  OBVIOUS
<1>1. PICK i \in 1..Len(toHost) :
        /\ toHost' = RemoveAt(toHost, i)
        /\ \/ HearPrompt(toHost[i]) \/ HearAck(toHost[i])
           \/ HearDecision(toHost[i]) \/ HearAnswer(toHost[i])
        /\ UNCHANGED <<gen, att, ev, asked, said, ctl, db>>
  BY DEF HostReads
<1> DEFINE f == toHost[i]
<1>2. toHost' \in Seq(HostFrames) /\ f \in HostFrames
  BY <1>1, TakenOut DEF RelayTyped, WireTyped
<1>3. f.gen \in Nat BY <1>2, ReadFields
<1>0. /\ HostTyped /\ toCtl \in Seq(CtlFrames) /\ ctl' \in Ctls /\ db' \in Dbs
      /\ UNCHANGED <<gen, att, ev, asked, said>>
  BY <1>1 DEF RelayTyped, WireTyped
<1> HIDE DEF f
<1>4. CASE HearPrompt(f)
  <2>1. f.turn \in 0..MaxTurns BY <1>2, <1>4, ReadFields DEF HearPrompt
  <2>2. toCtl' \in Seq(CtlFrames)
    <3>1. [k |-> "end", ev |-> 0, direct |-> TRUE] \in CtlFrames BY Made
    <3> QED BY <1>0, <1>3, <1>4, <3>1, Added DEF HearPrompt
  <2>3. replay' \in Seq(Entries) /\ cmds' \in [Requests -> Answers]
    BY <1>0, <1>4, EmptyTyped DEF HearPrompt, HostTyped
  <2>4. /\ active' \in [turn : 0..MaxTurns, gen : Nat]
        /\ prov' \in [turn : 0..MaxTurns, frames : 0..MaxFrames]
    BY <1>0, <1>3, <1>4, <2>1, RelayAssumption DEF HearPrompt, HostTyped
  <2> QED BY <1>0, <1>2, <1>4, <2>2, <2>3, <2>4 DEF HearPrompt, RelayTyped, HostTyped, WireTyped
<1>5. CASE HearAck(f)
  <2>1. replay' \in Seq(Entries) /\ cmds' \in [Requests -> Answers] /\ result' \in Nat
    BY <1>0, <1>5, EmptyTyped DEF HearAck, HostTyped
  <2> QED BY <1>0, <1>2, <1>5, <2>1 DEF HearAck, RelayTyped, HostTyped, WireTyped
<1>6. CASE HearDecision(f)
  <2>1. f.r \in Requests /\ f.dec \in Answers BY <1>2, <1>6, ReadFields DEF HearDecision
  <2>2. toCtl' \in Seq(CtlFrames)
    <3>1. \A w \in {"ok", "bad"} : [k |-> w, r |-> f.r] \in CtlFrames BY <2>1, Made
    <3> QED BY <1>0, <1>3, <1>6, <3>1, Added DEF HearDecision
  <2>3. replay' \in Seq(Entries)
    <3>1. [k |-> "cmd", r |-> f.r] \in Entries BY <2>1, Made
    <3> QED BY <1>0, <1>6, <3>1, Added DEF HearDecision, HostTyped
  <2>4. cmds' \in [Requests -> Answers] BY <1>0, <1>6, <2>1 DEF HearDecision, HostTyped
  <2> QED BY <1>0, <1>2, <1>6, <2>2, <2>3, <2>4 DEF HearDecision, RelayTyped, HostTyped, WireTyped
<1>7. CASE HearAnswer(f)
  <2>1. f.r \in Requests /\ f.dec \in Answers BY <1>2, <1>7, ReadFields DEF HearAnswer
  <2>2. got' \in [Requests -> Seq(Answers)] BY <1>0, <1>7, <2>1 DEF HearAnswer, HostTyped
  <2> QED BY <1>0, <1>2, <1>7, <2>2 DEF HearAnswer, Unanswered, RelayTyped, HostTyped, WireTyped
<1> QED BY <1>1, <1>4, <1>5, <1>6, <1>7 DEF f

LEMMA ProviderTyped ==
  ASSUME RelayTyped, Say \/ Finish \/ \E r \in Requests : Ask(r)
  PROVE  RelayTyped'
<1>0. ev + 1 \in Nat /\ (active.gen = gen) \in BOOLEAN BY DEF RelayTyped, HostTyped
<1>1. CASE Say \/ Finish
  <2>1. ev' = Len(said') /\ said' \in Seq([ev : Nat, turn : 0..MaxTurns])
    <3>1. [ev |-> ev + 1, turn |-> prov.turn] \in [ev : Nat, turn : 0..MaxTurns]
      BY <1>0 DEF RelayTyped, HostTyped
    <3>2. Event BY <1>1 DEF Say, Finish
    <3>3. said' \in Seq([ev : Nat, turn : 0..MaxTurns])
      BY <3>1, <3>2, Appended DEF Event, RelayTyped, HostTyped
    <3> QED BY <3>2, <3>3 DEF Event, RelayTyped, HostTyped
  <2>2. toCtl' \in Seq(CtlFrames)
    <3>1. /\ [k |-> "event", ev |-> ev + 1] \in CtlFrames
          /\ [k |-> "end", ev |-> ev + 1, direct |-> active.gen = gen] \in CtlFrames
      BY <1>0, Made
    <3> QED BY <1>1, <3>1, Added DEF Say, Finish
  <2>3. replay' \in Seq(Entries)
    <3>1. [k |-> "event", ev |-> ev + 1] \in Entries BY <1>0, Made
    <3> QED BY <1>1, <3>1, Added DEF Say, Finish, RelayTyped, HostTyped
  <2>4. prov' \in [turn : 0..MaxTurns, frames : 0..MaxFrames]
    BY <1>1, RelayAssumption DEF Say, Finish, RelayTyped, HostTyped
  <2>5. active' \in [turn : 0..MaxTurns, gen : Nat] /\ result' \in Nat
    <3>1. active \in [turn : 0..MaxTurns, gen : Nat] /\ result \in Nat BY DEF RelayTyped, HostTyped
    <3>2. NoTurn \in [turn : 0..MaxTurns, gen : Nat] BY RelayAssumption DEF NoTurn
    <3>3. \/ UNCHANGED <<active, result>>
          \/ active' = NoTurn /\ result' = ev + 1
      BY <1>1 DEF Say, Finish
    <3> QED BY <1>0, <3>1, <3>2, <3>3
  <2> QED BY <1>1, <2>1, <2>2, <2>3, <2>4, <2>5
          DEF Say, Finish, ByProvider, RelayTyped, HostTyped, WireTyped
<1>2. ASSUME NEW r \in Requests, Ask(r) PROVE RelayTyped'
  <2>1. toCtl' \in Seq(CtlFrames)
    <3>1. [k |-> "ask", r |-> r, waits |-> TRUE] \in CtlFrames BY Made
    <3> QED BY <1>2, <3>1, Added DEF Ask
  <2>2. replay' \in Seq(Entries)
    <3>1. [k |-> "ask", r |-> r] \in Entries BY Made
    <3> QED BY <1>2, <3>1, Added DEF Ask
  <2> QED BY <1>2, <2>1, <2>2 DEF Ask, ByProvider, RelayTyped, HostTyped, WireTyped
<1> QED BY <1>1, <1>2

\* What is told again.
LEMMA AgainTyped ==
  ASSUME RelayTyped, NEW e \in Entries
  PROVE  Again(e) \in CtlFrames
<1>1. CASE e.k = "event"
  <2>1. e \in [k : {"event"}, ev : Nat] BY <1>1 DEF Entries
  <2>2. Again(e) = e BY <1>1 DEF Again
  <2> QED BY <2>1, <2>2 DEF CtlFrames
<1>2. CASE e.k # "event"
  <2>1. e.k \in {"ask", "cmd"} /\ e.r \in Requests BY <1>2 DEF Entries
  <2>2. cmds[e.r] \in Answers /\ (e.r \in asks) \in BOOLEAN
    BY <2>1 DEF RelayTyped, HostTyped
  <2>3. CASE e.k = "ask" BY <2>1, <2>2, <2>3, Made DEF Again
  <2>4. CASE e.k = "cmd" BY <2>1, <2>2, <2>4, Made DEF Again
  <2> QED BY <2>1, <2>3, <2>4
<1> QED BY <1>1, <1>2

LEMMA JournalTyped == RelayTyped => Journal \in Seq(CtlFrames)
<1> SUFFICES ASSUME RelayTyped PROVE Journal \in Seq(CtlFrames)
  OBVIOUS
<1>1. replay \in Seq(Entries) BY DEF RelayTyped, HostTyped
<1>2. DOMAIN replay = 1..Len(replay) /\ Len(replay) \in Nat BY <1>1
<1>3. \A i \in DOMAIN replay : Again(replay[i]) \in CtlFrames BY <1>1, AgainTyped
<1> QED BY <1>2, <1>3 DEF Journal

LEMMA ReplayTyped == RelayTyped => Replay \in Seq(CtlFrames)
<1> SUFFICES ASSUME RelayTyped PROVE Replay \in Seq(CtlFrames)
  OBVIOUS
<1>1. EndAgain \in Seq(CtlFrames)
  <2>1. result \in Nat BY DEF RelayTyped, HostTyped
  <2>2. [k |-> "end", ev |-> result, direct |-> FALSE] \in CtlFrames BY <2>1, Made
  <2> QED BY <2>2 DEF EndAgain
<1> QED BY <1>1, JournalTyped DEF Replay

LEMMA NoCtlTyped == NoCtl \in Ctls
BY RelayAssumption DEF NoCtl, Ctls, Answers

LEMMA ConnectTyped ==
  ASSUME RelayTyped, HostDetaches \/ Greet \/ Activate \/ Detach
  PROVE  RelayTyped'
<1> USE DEF RelayTyped, HostTyped, WireTyped
<1>1. CASE HostDetaches
  <2>1. toHost' \in Seq(HostFrames) BY <1>1 DEF HostDetaches
  <2> QED BY <1>1, <2>1 DEF HostDetaches, provider
<1>2. CASE Greet
  <2>1. ctl' \in Ctls
    <3>1. gen + 1 \in Nat /\ (active # NoTurn) \in BOOLEAN /\ result \in Nat OBVIOUS
    <3> QED BY <1>2, <3>1, NoCtlTyped DEF Greet, Ctls
  <2> QED BY <1>2, <2>1, ReplayTyped DEF Greet, ByCtl, provider
<1>3. CASE Activate
  <2>1. UNCHANGED <<gen, att, db, active, result, replay, asks, cmds, ev, provider>>
    BY <1>3 DEF Activate, ByCtl
  <2>2. CASE ctl' = NoCtl /\ toCtl' = <<>> /\ UNCHANGED toHost
    BY <2>1, <2>2, NoCtlTyped DEF provider
  <2>3. CASE /\ ctl' = [ctl EXCEPT !.at = "on", !.ignore = TRUE, !.term = ctl.pend]
             /\ Send([gen |-> ctl.gen, k |-> "ack", ev |-> ctl.pend]) /\ UNCHANGED toCtl
    <3>1. ctl' \in Ctls BY <2>3 DEF Ctls
    <3>2. [gen |-> ctl.gen, k |-> "ack", ev |-> ctl.pend] \in HostFrames BY DEF HostFrames, Ctls
    <3> QED BY <2>1, <2>3, <3>1, <3>2 DEF provider, Send
  <2>4. CASE ctl' = [ctl EXCEPT !.at = "on", !.turn = db.turn] /\ UNCHANGED <<toHost, toCtl>>
    <3>1. ctl' \in Ctls BY <2>4 DEF Ctls, Dbs
    <3> QED BY <2>1, <2>4, <3>1 DEF provider
  <2> QED BY <1>3, <2>2, <2>3, <2>4 DEF Activate
<1>4. CASE Detach
  BY <1>4, NoCtlTyped DEF Detach, ByCtl, provider
<1> QED BY <1>1, <1>2, <1>3, <1>4

\* A step of the controller leaves the host alone.
LEMMA CtlOnly ==
  ASSUME RelayTyped, ByCtl, UNCHANGED <<gen, att>>, WireTyped', ctl' \in Ctls, db' \in Dbs
  PROVE  RelayTyped'
BY DEF RelayTyped, HostTyped, ByCtl, provider

LEMMA EmitTyped ==
  ASSUME ctl \in Ctls, NEW e \in Outcomes
  PROVE  Emit(e) \in Ctls
<1>1. Append(ctl.queue, e) \in Seq(Outcomes) BY Appended DEF Ctls
<1> QED BY <1>1 DEF Emit, Ctls

LEMMA CtlReadsTyped ==
  ASSUME RelayTyped, CtlReads
  PROVE  RelayTyped'
<1> DEFINE f == Head(toCtl)
<1>0. toCtl # <<>> /\ toCtl' = Tail(toCtl) /\ ByCtl /\ UNCHANGED <<gen, att, db>>
  BY DEF CtlReads
<1>1. /\ f \in CtlFrames /\ toCtl' \in Seq(CtlFrames) /\ toHost \in Seq(HostFrames)
      /\ ctl \in Ctls /\ db \in Dbs
  BY <1>0 DEF RelayTyped, WireTyped
<1>2. SUFFICES ctl' \in Ctls /\ toHost' \in Seq(HostFrames)
  BY <1>0, <1>1, CtlOnly DEF WireTyped
<1> HIDE DEF f
<1>3. CASE ReadEvent(f)
  <2>1. [k |-> "event", ev |-> f.ev, turn |-> ctl.turn] \in Outcomes
    BY <1>1, <1>3 DEF ReadEvent, CtlFrames, Outcomes, Ctls
  <2> QED BY <1>1, <1>3, <2>1, EmitTyped DEF ReadEvent
<1>4. CASE ReadAsk(f)
  <2>1. f.r \in Requests BY <1>1, <1>4 DEF ReadAsk, CtlFrames
  <2> QED BY <1>1, <1>4, <2>1 DEF ReadAsk, Ctls
<1>5. CASE ReadOk(f)
  <2>1. f.r \in Requests BY <1>1, <1>5 DEF ReadOk, CtlFrames
  <2>2. Decided(f.r, ctl.dec) \in Outcomes BY <1>1, <2>1 DEF Decided, Outcomes, Ctls
  <2>3. Emit(Decided(f.r, ctl.dec)) \in Ctls BY <1>1, <2>2, EmitTyped
  <2>4. ctl' \in Ctls BY <1>5, <2>3 DEF ReadOk, Ctls, Answers
  <2>5. [gen |-> ctl.gen, k |-> "answer", r |-> f.r, dec |-> ctl.dec] \in HostFrames
    BY <1>1, <2>1 DEF HostFrames, Ctls
  <2> QED BY <1>1, <1>5, <2>4, <2>5 DEF ReadOk, Send
<1>6. CASE ReadBad(f)
  <2>1. f.r \in Requests BY <1>1, <1>6 DEF ReadBad, CtlFrames
  <2> QED BY <1>1, <1>6, <2>1 DEF ReadBad, Ctls, Answers
<1>7. CASE ReadDecision(f)
  <2>1. f.r \in Requests /\ f.dec \in Answers BY <1>1, <1>7, ReadFields DEF ReadDecision, Carries
  <2>2. Emit(Decided(f.r, f.dec)) \in Ctls BY <1>1, <2>1, Made, EmitTyped
  <2>3. CASE ~f.waits /\ ctl' = Emit(Decided(f.r, f.dec)) /\ UNCHANGED toHost
    BY <1>1, <2>2, <2>3
  <2>4. CASE /\ ctl' = [Emit(Decided(f.r, f.dec)) EXCEPT !.open = @ \ {f.r}]
             /\ Send([gen |-> ctl.gen, k |-> "answer", r |-> f.r, dec |-> f.dec])
    <3>1. ctl.gen \in Nat BY <1>1 DEF Ctls
    <3>2. [gen |-> ctl.gen, k |-> "answer", r |-> f.r, dec |-> f.dec] \in HostFrames
      BY <2>1, <3>1, Made
    <3>3. ctl' \in Ctls BY <2>2, <2>4 DEF Ctls
    <3> QED BY <2>4, <3>2, <3>3, Added
  <2>5. CASE ctl' = [ctl EXCEPT !.accepted[f.r] = f.dec] /\ UNCHANGED toHost
    BY <1>1, <2>1, <2>5 DEF Ctls
  <2> QED BY <1>7, <2>3, <2>4, <2>5 DEF ReadDecision
<1>8. CASE ReadEnd(f)
  <2>1. f.ev \in Nat BY <1>1, <1>8, ReadFields DEF ReadEnd, Carries
  <2> DEFINE c == Emit([k |-> "end", ev |-> f.ev, turn |-> ctl.turn])
  <2>2. c \in Ctls
    <3>1. ctl.turn \in 0..MaxTurns BY <1>1 DEF Ctls
    <3> QED BY <1>1, <2>1, <3>1, Made, EmitTyped
  <2>3. ctl' = [ctl EXCEPT !.ignore = FALSE] \/ ctl' = [c EXCEPT !.term = f.ev, !.turn = 0]
    BY <1>8 DEF ReadEnd
  <2> HIDE DEF c
  <2>4. [ctl EXCEPT !.ignore = FALSE] \in Ctls BY <1>1 DEF Ctls
  <2>5. [c EXCEPT !.term = f.ev, !.turn = 0] \in Ctls
    <3>1. 0 \in 0..MaxTurns BY RelayAssumption
    <3>2. [c EXCEPT !.term = f.ev] \in Ctls BY <2>1, <2>2 DEF Ctls
    <3> QED BY <2>2, <2>1, <3>1 DEF Ctls
  <2> QED BY <1>1, <1>8, <2>3, <2>4, <2>5 DEF ReadEnd
<1> QED BY <1>3, <1>4, <1>5, <1>6, <1>7, <1>8 DEF CtlReads, f

LEMMA CtlWorksTyped ==
  ASSUME RelayTyped,
         \/ Commit \/ Acknowledge \/ Bind \/ StartTurn
         \/ \E r \in Requests : ServeAsk(r) \/ \E d \in Decisions : Decide(r, d)
  PROVE  RelayTyped'
<1>1. /\ toCtl \in Seq(CtlFrames) /\ ctl \in Ctls /\ db \in Dbs /\ toHost \in Seq(HostFrames)
      /\ MaxTurns \in Nat
  BY RelayAssumption DEF RelayTyped, WireTyped
<1>2. CASE Commit
  <2>1. ctl.queue \in Seq(Outcomes) /\ ctl.queue # <<>> BY <1>1, <1>2 DEF Commit, Ctls
  <2>2. Head(ctl.queue) \in Outcomes /\ Tail(ctl.queue) \in Seq(Outcomes) BY <2>1
  <2>3. ctl' \in Ctls
    <3> DEFINE e == Head(ctl.queue)
    <3>1. /\ e.k = "end" => e.ev \in Nat
          /\ ctl' = [ctl EXCEPT !.queue = Tail(@),
                               !.ack = IF e.k = "end" /\ e.ev = ctl.term THEN e.ev ELSE 0]
      BY <1>2, <2>2 DEF Commit, Outcomes
    <3> HIDE DEF e
    <3> QED BY <1>1, <2>2, <3>1 DEF Ctls
  <2>4. ASSUME NEW e \in Outcomes PROVE Project(e) \in Dbs
    <3>1. CASE e.k = "dec"
      <4>1. e.r \in Requests /\ e.dec \in Answers BY <2>4, <3>1 DEF Outcomes
      <4> QED BY <1>1, <3>1, <4>1 DEF Project, Dbs
    <3>2. CASE e.k # "dec"
      <4>1. e.ev \in Nat /\ e.turn \in 0..MaxTurns BY <2>4, <3>2 DEF Outcomes
      <4> DEFINE log == IF e.ev = 0 THEN db.log ELSE Append(db.log, [ev |-> e.ev, turn |-> e.turn])
                 turn == IF e.k = "end" /\ db.turn = e.turn THEN 0 ELSE db.turn
      <4>2. log \in Seq([ev : Nat, turn : 0..MaxTurns]) /\ turn \in 0..MaxTurns
        <5>1. /\ db.log \in Seq([ev : Nat, turn : 0..MaxTurns]) /\ db.turn \in 0..MaxTurns
              /\ [ev |-> e.ev, turn |-> e.turn] \in [ev : Nat, turn : 0..MaxTurns]
          BY <1>1, <4>1 DEF Dbs
        <5>2. log \in Seq([ev : Nat, turn : 0..MaxTurns]) BY <5>1, Appended
        <5> QED BY <1>1, <5>1, <5>2
      <4>3. Project(e) = db \/ Project(e) = [db EXCEPT !.log = log, !.turn = turn]
        BY <3>2 DEF Project
      <4> HIDE DEF log, turn
      <4> QED BY <1>1, <4>2, <4>3 DEF Dbs
    <3> QED BY <3>1, <3>2
  <2> QED BY <1>1, <1>2, <2>2, <2>3, <2>4, CtlOnly DEF Commit, WireTyped
<1>3. CASE Acknowledge
  <2>1. ctl' \in Ctls BY <1>1, <1>3 DEF Acknowledge, Ctls
  <2>2. [gen |-> ctl.gen, k |-> "ack", ev |-> ctl.ack] \in HostFrames BY <1>1 DEF HostFrames, Ctls
  <2> QED BY <1>1, <1>3, <2>1, <2>2, CtlOnly DEF Acknowledge, WireTyped, Send
<1>4. CASE Bind
  <2>1. db.turns + 1 \in 0..MaxTurns BY <1>1, <1>4 DEF Bind, Dbs
  <2>2. ctl' \in Ctls /\ db' \in Dbs BY <1>1, <1>4, <2>1 DEF Bind, Ctls, Dbs
  <2> QED BY <1>1, <1>4, <2>2, CtlOnly DEF Bind, WireTyped
<1>5. ASSUME NEW r \in Requests, ServeAsk(r) PROVE RelayTyped'
  <2> DEFINE d == ctl.accepted[r]
             c == Emit(Decided(r, d))
  <2>1. d \in Answers /\ ctl.gen \in Nat BY <1>1 DEF Ctls
  <2>2. c \in Ctls BY <1>1, <2>1, Made, EmitTyped
  <2>3. [gen |-> ctl.gen, k |-> "answer", r |-> r, dec |-> d] \in HostFrames BY <2>1, Made
  <2>4. \/ /\ ctl' = [ctl EXCEPT !.coming = @ \ {r}, !.open = @ \cup {r}] /\ UNCHANGED toHost
        \/ /\ ctl' = [c EXCEPT !.coming = @ \ {r}, !.accepted[r] = Nil]
           /\ Send([gen |-> ctl.gen, k |-> "answer", r |-> r, dec |-> d])
    BY <1>5 DEF ServeAsk
  <2> HIDE DEF c, d
  <2>5. ctl' \in Ctls
    <3>1. [ctl EXCEPT !.coming = @ \ {r}, !.open = @ \cup {r}] \in Ctls BY <1>1 DEF Ctls
    <3>2. [c EXCEPT !.coming = @ \ {r}, !.accepted[r] = Nil] \in Ctls
      BY <2>2 DEF Ctls, Answers
    <3> QED BY <2>4, <3>1, <3>2
  <2>6. toHost' \in Seq(HostFrames) BY <1>1, <2>3, <2>4, Added
  <2> QED BY <1>1, <1>5, <2>5, <2>6, CtlOnly DEF ServeAsk, WireTyped
<1>6. ASSUME NEW r \in Requests, NEW d \in Decisions, Decide(r, d) PROVE RelayTyped'
  <2>1. ctl' \in Ctls BY <1>1, <1>6 DEF Decide, Ctls, Answers
  <2>2. [gen |-> ctl.gen, k |-> "cmd", r |-> r, dec |-> d] \in HostFrames
    <3>1. ctl.gen \in Nat /\ d \in Answers BY <1>1 DEF Ctls, Answers
    <3> QED BY <3>1, Made
  <2>3. toHost' \in Seq(HostFrames) BY <1>6, <2>2, Added DEF Decide
  <2> QED BY <1>1, <1>6, <2>1, <2>3, CtlOnly DEF Decide, WireTyped
<1>7. CASE StartTurn
  <2>1. ctl' \in Ctls BY <1>1, <1>7 DEF StartTurn, Ctls
  <2>2. [gen |-> ctl.gen, k |-> "prompt", turn |-> ctl.turn] \in HostFrames
    <3>1. ctl.gen \in Nat /\ ctl.turn \in 0..MaxTurns BY <1>1 DEF Ctls
    <3> QED BY <3>1, Made
  <2>3. toHost' \in Seq(HostFrames) BY <1>7, <2>2, Added DEF StartTurn
  <2> QED BY <1>1, <1>7, <2>1, <2>3, CtlOnly DEF StartTurn, WireTyped
<1> QED BY <1>2, <1>3, <1>4, <1>5, <1>6, <1>7

LEMMA RelayTypedInit == RelayInit => RelayTyped
<1> SUFFICES ASSUME RelayInit PROVE RelayTyped
  OBVIOUS
<1>1. 0 \in 0..MaxTurns /\ 0 \in 0..MaxFrames /\ Nil \in Answers BY RelayAssumption DEF Answers
<1>2. HostTyped
  <2>1. /\ said \in Seq([ev : Nat, turn : 0..MaxTurns]) /\ ev = Len(said)
        /\ replay \in Seq(Entries) /\ got \in [Requests -> Seq(Answers)]
    BY DEF RelayInit
  <2>2. active \in [turn : 0..MaxTurns, gen : Nat] BY <1>1 DEF RelayInit, NoTurn
  <2>3. prov \in [turn : 0..MaxTurns, frames : 0..MaxFrames] BY <1>1 DEF RelayInit
  <2>4. cmds \in [Requests -> Answers] BY <1>1 DEF RelayInit
  <2> QED BY <2>1, <2>2, <2>3, <2>4 DEF RelayInit, HostTyped
<1>3. WireTyped BY DEF RelayInit, WireTyped
<1>4. db \in Dbs BY <1>1 DEF RelayInit, Dbs
<1>5. ctl \in Ctls BY NoCtlTyped DEF RelayInit
<1> QED BY <1>2, <1>3, <1>4, <1>5 DEF RelayTyped

LEMMA RelayTypedStep == RelayTyped /\ [RelayNext]_relayVars => RelayTyped'
<1> SUFFICES ASSUME RelayTyped, [RelayNext]_relayVars PROVE RelayTyped'
  OBVIOUS
<1>1. CASE UNCHANGED relayVars
  BY <1>1 DEF relayVars, host, provider, RelayTyped, HostTyped, WireTyped
<1> QED BY <1>1, HostReadsTyped, ProviderTyped, ConnectTyped, CtlReadsTyped, CtlWorksTyped
        DEF RelayNext

-----------------------------------------------------------------------------
(* The invariant: what is committed, what can be told again, and where the  *)
(* rest is on its way.                                                      *)

Held == Len(db.log)
On   == ctl.at = "on"

\* What is committed is a prefix of what was said; the rest was said in the turn that runs.
Prefixed ==
  /\ Held <= ev
  /\ \A n \in 1..ev : said[n].ev = n
  /\ \A n \in 1..Held : db.log[n] = said[n]
  /\ \A n \in Held + 1..ev : db.turn # 0 /\ said[n].turn = db.turn

Prompted ==
  /\ active.turn = prov.turn /\ (prov.turn = 0 => active = NoTurn) /\ active.gen <= gen
  /\ prov.turn # 0 => prov.turn = db.turn
  /\ result # 0 => prov.turn = 0 /\ result = ev

\* What is not committed can be told again.
Journaled ==
  /\ Ascends(replay)
  /\ \A e \in Carriers(replay) : e.ev \in 1..ev /\ e.ev # result
  /\ \A n \in Held + 1..ev : n = result \/ \E e \in Carriers(replay) : e.ev = n

\* One connection is in use at a time, and it takes nothing along.
Connected ==
  /\ \A f \in Frames(toHost) : f.gen = gen
  /\ ~att => toHost = <<>>
  /\ ctl.at # "off" => Heard /\ gen # 0
  /\ ctl.at = "off" => toCtl = <<>> /\ ctl = NoCtl

Gated ==
  ctl.at = "gate" =>
    /\ toHost = <<>> /\ active.gen # gen
    /\ ctl.queue = <<>> /\ ctl.ack = 0 /\ ~ctl.send /\ ~ctl.ignore
    /\ ctl.pend # 0 => ctl.pend = result
    /\ ctl.pend = 0 /\ ~ctl.busy => result = 0 /\ prov.turn = 0
    /\ ctl.pend = 0 /\ result # 0 => Held < ev

\* An end is acknowledged when it is committed, and not before.
AckSent(n) == \E f \in Frames(toHost) : Acks(f, n)
Acked ==
  /\ \A f \in Frames(toHost) : f.k = "ack" => f.ev <= Held
  /\ ctl.ack <= Held
  /\ result # 0 /\ Held = ev => AckSent(result) \/ (db.turn = 0 /\ (On => ctl.ack = result))

\* A prompt is never refused: it is on its way only when all that was said is committed
\* and the acknowledgement of the last end is before it.
Bound == db.turn # 0 /\ prov.turn = 0 /\ Held = ev /\ (On => ctl.turn = db.turn)
Starting ==
  /\ ctl.send => /\ Bound /\ (result # 0 => AckSent(result))
                 /\ \A f \in Frames(toHost) : f.k # "prompt"
  /\ \A f \in Frames(toHost) : f.k = "prompt" => Bound /\ f.turn = db.turn
  /\ OnePrompt(toHost) /\ (result # 0 => AckFirst(toHost, result))

\* What is not committed is on its way to the controller that is there, in order.
Streams ==
  /\ Ascends(toCtl) /\ Ascends(ctl.queue)
  /\ \A f \in Carriers(toCtl) \cup Carriers(ctl.queue) : f.ev \in 1..ev
  /\ \A e \in Carriers(ctl.queue), f \in Carriers(toCtl) : e.ev < f.ev
  /\ ctl.at # "off" =>
       \A n \in Held + 1..ev : \E f \in Carriers(toCtl) \cup Carriers(ctl.queue) : f.ev = n

\* The controller commits it for the turn it was said in.
Tagged ==
  /\ \A e \in Carriers(ctl.queue) : e.ev > Held => e.turn = db.turn
  /\ On => \A f \in Carriers(toCtl) : f.ev > Held => ctl.turn = db.turn
  /\ On /\ prov.turn # 0 => ctl.turn = db.turn

\* The end of a prompt is the last of it; one that was committed before is ignored.
Ends ==
  /\ \A e \in Carriers(ctl.queue) :
       IF e.k = "end" THEN e.ev > Held /\ e.ev = result /\ ctl.term = result ELSE e.ev # result
  /\ \A f \in Carriers(toCtl) :
       IF f.k = "end" THEN /\ f.ev > Held \/ ctl.at = "gate" => f.ev = result
                           /\ ctl.at = "gate" => ~f.direct
                           /\ On /\ f.ev <= Held => ctl.ignore /\ ~f.direct /\ f.ev = ctl.term
                           /\ On /\ f.ev > Held => f.direct \/ ~ctl.ignore
       ELSE f.ev # result
  /\ ctl.ignore /\ prov.turn # 0 => active.gen = gen

RelayInv ==
  /\ Prefixed /\ Prompted /\ Journaled /\ Connected /\ Gated
  /\ Acked /\ Starting /\ Streams /\ Tagged /\ Ends

\* What of a step matters to it.
LEMMA Beside ==
  ASSUME RelayTyped, RelayInv, UNCHANGED <<gen, att, active, result, ev, said, prov>>,
         db'.turn = db.turn, db'.log = db.log,
         ctl'.at = ctl.at, ctl'.gen = ctl.gen, ctl'.turn = ctl.turn, ctl'.send = ctl.send,
         ctl'.ignore = ctl.ignore, ctl'.term = ctl.term, ctl'.ack = ctl.ack,
         ctl.at # "on" => UNCHANGED ctl,
         ctl.at = "off" => toCtl' = <<>>, ctl.at = "gate" => UNCHANGED toHost,
         Carriers(replay') = Carriers(replay), Ascends(replay'),
         Carriers(toCtl') = Carriers(toCtl), Ascends(toCtl'),
         Carriers(ctl'.queue) = Carriers(ctl.queue), Ascends(ctl'.queue),
         \A f \in Frames(toHost') :
           f \in Frames(toHost) \/ (f.k \in {"cmd", "answer"} /\ f.gen = gen),
         \A f \in Frames(toHost) : f \in Frames(toHost') \/ f.k \in {"cmd", "answer"},
         toHost' # <<>> => att,
         OnePrompt(toHost'), \A n : AckFirst(toHost, n) => AckFirst(toHost', n)
  PROVE  RelayInv'
<1> USE DEF RelayInv
<1>0. /\ Held' = Held /\ (On' <=> On) /\ (Bound' <=> Bound)
      /\ \A n : AckSent(n)' <=> AckSent(n)
      /\ \A f \in Frames(toHost') : f.k \in {"prompt", "ack"} => f \in Frames(toHost)
  BY DEF Held, On, Bound, AckSent, Acks
<1>1. Prefixed' BY <1>0 DEF Prefixed
<1>2. Prompted' BY <1>0 DEF Prompted
<1>3. Journaled' BY <1>0 DEF Journaled
<1>4. Connected' BY DEF Connected, Heard
<1>5. Gated' BY <1>0 DEF Gated
<1>6. Acked' BY <1>0 DEF Acked
<1>7. Starting' BY <1>0 DEF Starting
<1>8. Streams' BY <1>0 DEF Streams
<1>9. Tagged' BY <1>0 DEF Tagged
<1>10. Ends' BY <1>0 DEF Ends
<1> QED BY <1>1, <1>2, <1>3, <1>4, <1>5, <1>6, <1>7, <1>8, <1>9, <1>10

-----------------------------------------------------------------------------
(* What the host hears.                                                     *)

LEMMA Numbers ==
  ASSUME RelayTyped
  PROVE  /\ Held \in Nat /\ ev \in Nat /\ gen \in Nat /\ result \in Nat
         /\ db.turn \in Nat /\ prov.turn \in Nat
         /\ ctl \in Ctls /\ db \in Dbs
         /\ toCtl \in Seq(CtlFrames) /\ toHost \in Seq(HostFrames) /\ ctl.queue \in Seq(Outcomes)
         /\ replay \in Seq(Entries)
         /\ \A f \in Frames(toCtl) : f \in CtlFrames
         /\ \A f \in Frames(toHost) : f \in HostFrames
         /\ \A f \in Frames(ctl.queue) : f \in Outcomes
<1>1. /\ toCtl \in Seq(CtlFrames) /\ toHost \in Seq(HostFrames) /\ ctl.queue \in Seq(Outcomes)
      /\ replay \in Seq(Entries) /\ db.log \in Seq([ev : Nat, turn : 0..MaxTurns])
      /\ ctl \in Ctls /\ db \in Dbs
  BY DEF RelayTyped, HostTyped, WireTyped, Ctls, Dbs
<1>2. /\ ev \in Nat /\ gen \in Nat /\ result \in Nat /\ prov.turn \in Nat
  BY DEF RelayTyped, HostTyped
<1>3. Held \in Nat /\ db.turn \in Nat BY <1>1 DEF Held, Dbs
<1>4. /\ \A f \in Frames(toCtl) : f \in CtlFrames
      /\ \A f \in Frames(toHost) : f \in HostFrames
      /\ \A f \in Frames(ctl.queue) : f \in Outcomes
  BY <1>1 DEF Frames
<1> QED BY <1>1, <1>2, <1>3, <1>4

\* There is one connection: what is read is the first of all.
LEMMA Reading ==
  ASSUME RelayTyped, RelayInv, HostReads
  PROVE  /\ toHost # <<>> /\ toHost' = Tail(toHost)
         /\ \/ HearPrompt(Head(toHost)) \/ HearAck(Head(toHost))
            \/ HearDecision(Head(toHost)) \/ HearAnswer(Head(toHost))
         /\ UNCHANGED <<gen, att, ev, asked, said, ctl, db>>
<1>1. PICK i \in 1..Len(toHost) :
        /\ \A j \in 1..i - 1 : toHost[j].gen # toHost[i].gen
        /\ toHost' = RemoveAt(toHost, i)
        /\ \/ HearPrompt(toHost[i]) \/ HearAck(toHost[i])
           \/ HearDecision(toHost[i]) \/ HearAnswer(toHost[i])
        /\ UNCHANGED <<gen, att, ev, asked, said, ctl, db>>
  BY DEF HostReads
<1>2. toHost \in Seq(HostFrames) /\ \A j \in 1..Len(toHost) : toHost[j].gen = gen
  BY Numbers DEF RelayInv, Connected, Frames
<1>3. i = 1
  <2>1. i # 1 => 1 \in 1..i - 1 /\ 1 \in 1..Len(toHost) BY <1>2
  <2> QED BY <1>1, <1>2, <2>1
<1>4. RemoveAt(toHost, 1) = Tail(toHost) /\ toHost # <<>> /\ Head(toHost) = toHost[1]
  BY <1>1, <1>2 DEF RemoveAt
<1> QED BY <1>1, <1>3, <1>4

LEMMA PromptHeard ==
  ASSUME RelayTyped, RelayInv, HostReads, HearPrompt(Head(toHost))
  PROVE  RelayInv'
<1> DEFINE f == Head(toHost)
<1>0. toHost # <<>> /\ toHost' = Tail(toHost) /\ UNCHANGED <<gen, att, ev, said, ctl, db>>
  BY Reading
<1>1. Frames(toHost) = Frames(toHost') \cup {f} BY <1>0, Numbers, FramesOfTail
<1>2. f.k = "prompt" /\ f.gen = gen /\ Bound /\ f.turn = db.turn
  BY <1>1 DEF HearPrompt, RelayInv, Connected, Starting
<1>3. result = 0 /\ active = NoTurn
  <2>1. result # 0 => f.k # "prompt" BY <1>0, Numbers, Sooner DEF RelayInv, Starting
  <2> QED BY <1>2, <2>1 DEF RelayInv, Prompted, Bound
<1>4. /\ active' = [turn |-> db.turn, gen |-> gen] /\ replay' = <<>> /\ UNCHANGED toCtl
      /\ prov' = [turn |-> db.turn, frames |-> 0] /\ UNCHANGED result
  BY <1>2, <1>3 DEF HearPrompt, Empty
<1>5. ~ctl.send /\ ctl.at # "gate" BY <1>0, <1>1, <1>2 DEF RelayInv, Starting, Gated
<1>6. \A g \in Frames(toHost') : g.k # "prompt"
  BY <1>0, <1>2, Numbers, Sooner DEF RelayInv, Starting
<1>7. OnePrompt(toHost') BY <1>0, Numbers, Sooner DEF RelayInv, Starting
<1> HIDE DEF f
<1>8. Held' = Held /\ Held = ev /\ db.turn # 0 /\ (On => ctl.turn = db.turn) /\ (On' <=> On)
  BY <1>0, <1>2 DEF Held, Bound, On
<1> USE DEF RelayInv
<1>11. Prefixed' BY <1>0, <1>8 DEF Prefixed
<1>12. Prompted' BY <1>0, <1>3, <1>4, <1>8, Numbers DEF Prompted
<1>13. Journaled' BY <1>0, <1>4, <1>8, Nothing, Numbers DEF Journaled
<1>14. Connected' BY <1>0, <1>1, <1>4 DEF Connected, Heard
<1>15. Gated' BY <1>0, <1>5 DEF Gated
<1>16. Acked' BY <1>0, <1>1, <1>3, <1>4, <1>8 DEF Acked
<1>17. Starting' BY <1>0, <1>3, <1>4, <1>5, <1>6, <1>7 DEF Starting
<1>18. Streams' BY <1>0, <1>4, <1>8 DEF Streams
<1>19. Tagged' BY <1>0, <1>4, <1>8 DEF Tagged
<1>20. Ends' BY <1>0, <1>4, <1>8 DEF Ends
<1> QED BY <1>11, <1>12, <1>13, <1>14, <1>15, <1>16, <1>17, <1>18, <1>19, <1>20

LEMMA AckHeard ==
  ASSUME RelayTyped, RelayInv, HostReads, HearAck(Head(toHost))
  PROVE  RelayInv'
<1> DEFINE f == Head(toHost)
<1>0. /\ toHost # <<>> /\ toHost' = Tail(toHost) /\ UNCHANGED <<gen, att, ev, said, ctl, db>>
      /\ UNCHANGED <<active, prov, toCtl>> /\ f.k = "ack"
  BY Reading DEF HearAck
<1>1. Frames(toHost) = Frames(toHost') \cup {f} BY <1>0, Numbers, FramesOfTail
<1>2. /\ OnePrompt(toHost')
      /\ \A n : AckFirst(toHost, n) /\ ~Acks(f, n) => AckFirst(toHost', n)
  BY <1>0, Numbers, Sooner DEF RelayInv, Starting
<1>3. ctl.at # "gate" BY <1>0 DEF RelayInv, Gated
<1>4. /\ Held' = Held /\ (On' <=> On) /\ (Bound' <=> Bound) BY <1>0 DEF Held, On, Bound
<1>5. CASE Acknowledges(f)
  <2>1. result' = 0 /\ replay' = <<>> /\ result # 0 /\ f.ev = result
    BY <1>5 DEF HearAck, Acknowledges, Empty
  <2>2. Held = ev
    BY <1>0, <1>1, <2>1, Numbers DEF RelayInv, Acked, Prefixed, Prompted
  <2> HIDE DEF f
  <2> USE DEF RelayInv
  <2>11. Prefixed' BY <1>0, <1>4 DEF Prefixed
  <2>12. Prompted' BY <1>0, <2>1 DEF Prompted
  <2>13. Journaled' BY <1>0, <1>4, <2>1, <2>2, Nothing, Numbers DEF Journaled
  <2>14. Connected' BY <1>0, <1>1 DEF Connected, Heard
  <2>15. Gated' BY <1>0, <1>3 DEF Gated
  <2>16. Acked' BY <1>0, <1>1, <1>4, <2>1 DEF Acked
  <2>17. Starting' BY <1>0, <1>1, <1>2, <1>4, <2>1 DEF Starting
  <2>18. Streams' BY <1>0, <1>4 DEF Streams
  <2>19. Tagged' BY <1>0, <1>4 DEF Tagged
  <2>20. Ends' BY <1>0, <1>3, <1>4, <2>1, <2>2, Numbers DEF Ends, Streams
  <2> QED BY <2>11, <2>12, <2>13, <2>14, <2>15, <2>16, <2>17, <2>18, <2>19, <2>20
<1>6. CASE ~Acknowledges(f)
  <2>1. UNCHANGED <<result, replay>> /\ (result # 0 => ~Acks(f, result))
    BY <1>6 DEF HearAck, Acknowledges, Acks
  <2>2. result # 0 => /\ AckSent(result)' <=> AckSent(result)
                      /\ AckFirst(toHost, result) => AckFirst(toHost', result)
    BY <1>1, <1>2, <2>1 DEF AckSent
  <2> HIDE DEF f
  <2> USE DEF RelayInv
  <2>11. Prefixed' BY <1>0, <1>4 DEF Prefixed
  <2>12. Prompted' BY <1>0, <2>1 DEF Prompted
  <2>13. Journaled' BY <1>0, <1>4, <2>1 DEF Journaled
  <2>14. Connected' BY <1>0, <1>1 DEF Connected, Heard
  <2>15. Gated' BY <1>0, <1>3 DEF Gated
  <2>16. Acked' BY <1>0, <1>1, <1>4, <2>1, <2>2 DEF Acked
  <2>17. Starting' BY <1>0, <1>1, <1>2, <1>4, <2>1, <2>2 DEF Starting
  <2>18. Streams' BY <1>0, <1>4 DEF Streams
  <2>19. Tagged' BY <1>0, <1>4 DEF Tagged
  <2>20. Ends' BY <1>0, <1>4, <2>1 DEF Ends
  <2> QED BY <2>11, <2>12, <2>13, <2>14, <2>15, <2>16, <2>17, <2>18, <2>19, <2>20
<1> QED BY <1>5, <1>6

\* A frame that carries nothing leaves the streams alone.
LEMMA AnswersHeard ==
  ASSUME RelayTyped, RelayInv, HostReads,
         HearDecision(Head(toHost)) \/ HearAnswer(Head(toHost))
  PROVE  RelayInv'
<1> DEFINE f == Head(toHost)
<1>0. /\ toHost # <<>> /\ toHost' = Tail(toHost) /\ UNCHANGED <<gen, att, ev, said, ctl, db>>
      /\ UNCHANGED <<active, result, prov>> /\ f.k \in {"cmd", "answer"}
  BY Reading DEF HearDecision, HearAnswer
<1>1. Frames(toHost) = Frames(toHost') \cup {f} BY <1>0, Numbers, FramesOfTail
<1>2. OnePrompt(toHost') /\ \A n : AckFirst(toHost, n) => AckFirst(toHost', n)
  BY <1>0, Numbers, Sooner DEF RelayInv, Starting, Acks
<1>3. Carriers(replay') = Carriers(replay) /\ Ascends(replay')
  <2>1. UNCHANGED replay \/ \E e : e.k = "cmd" /\ replay' = Append(replay, e)
    BY DEF HearDecision, HearAnswer
  <2> QED BY <2>1, Numbers, Later DEF RelayInv, Journaled, Carries
<1>4. /\ Carriers(toCtl') = Carriers(toCtl) /\ Ascends(toCtl')
      /\ ctl.at = "off" => UNCHANGED toCtl
  <2>1. UNCHANGED toCtl \/ (Heard /\ \E e : e.k \in {"ok", "bad"} /\ toCtl' = Append(toCtl, e))
    BY DEF HearDecision, HearAnswer, Reply
  <2>2. CASE UNCHANGED toCtl BY <2>2 DEF RelayInv, Streams
  <2>3. ASSUME Heard, NEW e, e.k \in {"ok", "bad"}, toCtl' = Append(toCtl, e)
        PROVE  Carriers(toCtl') = Carriers(toCtl) /\ Ascends(toCtl')
    <3>1. ~Carries(e) BY <2>3 DEF Carries
    <3> QED BY <2>3, <3>1, Numbers, Later DEF RelayInv, Streams
  <2> QED BY <2>1, <2>2, <2>3 DEF Heard
<1>5. att /\ ctl.at # "gate" BY <1>0 DEF RelayInv, Connected, Gated
<1> HIDE DEF f
<1> QED BY <1>0, <1>1, <1>2, <1>3, <1>4, <1>5, Beside DEF RelayInv, Connected, Streams

-----------------------------------------------------------------------------
(* What the provider says.                                                  *)

\* It is told to the controller that is there.
LEMMA Told ==
  ASSUME RelayTyped, RelayInv, NEW f, Tell(f),
         Carries(f) => \A g \in Carriers(toCtl) : g.ev < f.ev
  PROVE  /\ ctl.at = "off" => UNCHANGED toCtl
         /\ ctl.at # "off" /\ Carries(f) => Carriers(toCtl') = Carriers(toCtl) \cup {f}
         /\ ~Carries(f) => Carriers(toCtl') = Carriers(toCtl)
         /\ Ascends(toCtl')
<1>1. CASE Heard
  <2>1. toCtl' = Append(toCtl, f) /\ ctl.at # "off" BY <1>1 DEF Tell, Heard
  <2> QED BY <2>1, Numbers, Later DEF RelayInv, Streams
<1>2. CASE ~Heard
  <2>1. UNCHANGED toCtl /\ ctl.at = "off" BY <1>2 DEF Tell, RelayInv, Connected
  <2> QED BY <2>1 DEF RelayInv, Streams
<1> QED BY <1>1, <1>2

\* The next number is said for the turn that runs.
LEMMA Said ==
  ASSUME RelayTyped, RelayInv, Event, UNCHANGED db, prov.turn # 0
  PROVE  Prefixed' /\ Held' = Held /\ ev' = ev + 1 /\ Held < ev'
<1>1. /\ Held' = Held /\ ev' = ev + 1 /\ Held < ev' /\ Held \in Nat /\ ev \in Nat
  BY Numbers DEF Held, Event, RelayInv, Prefixed
<1>2. /\ said'[ev + 1] = [ev |-> ev + 1, turn |-> prov.turn]
      /\ \A n \in 1..ev : said'[n] = said[n]
  BY DEF Event, RelayTyped, HostTyped
<1>3. prov.turn = db.turn BY DEF RelayInv, Prompted
<1> QED BY <1>1, <1>2, <1>3 DEF Prefixed, RelayInv

LEMMA SayKeeps ==
  ASSUME RelayTyped, RelayInv, Say
  PROVE  RelayInv'
<1> DEFINE f == [k |-> "event", ev |-> ev + 1]
<1>0. /\ UNCHANGED <<gen, att, toHost, ctl, db, active, result>> /\ Tell(f) /\ prov.turn # 0
      /\ replay' = Append(replay, f) /\ prov'.turn = prov.turn /\ Event
  BY DEF Say, ByProvider, RelayTyped, HostTyped
<1>1. Prefixed' /\ Held' = Held /\ ev' = ev + 1 /\ Held < ev' /\ Held \in Nat /\ ev \in Nat
  BY <1>0, Said, Numbers
<1>2. Carries(f) /\ f.ev = ev + 1 /\ f.k = "event" BY DEF Carries
<1> HIDE DEF f
<1>3. result = 0 BY <1>0 DEF RelayInv, Prompted
<1>4. /\ ctl.at = "off" => UNCHANGED toCtl
      /\ ctl.at # "off" => Carriers(toCtl') = Carriers(toCtl) \cup {f}
      /\ Ascends(toCtl')
  <2>1. \A g \in Carriers(toCtl) : g.ev < f.ev BY <1>1, <1>2 DEF RelayInv, Streams
  <2> QED BY <1>0, <1>2, <2>1, Told
<1>5. Carriers(replay') = Carriers(replay) \cup {f} /\ Ascends(replay')
  <2>1. \A g \in Carriers(replay) : g.ev < f.ev BY <1>1, <1>2 DEF RelayInv, Journaled
  <2> QED BY <1>0, <1>2, <2>1, Numbers, Later DEF RelayInv, Journaled
<1>6. (On' <=> On) /\ (\A n : AckSent(n)' <=> AckSent(n)) /\ ~Bound
  BY <1>0 DEF On, AckSent, Bound
<1>7. ctl.at = "off" => toCtl = <<>> /\ ctl = NoCtl BY DEF RelayInv, Connected
<1> USE DEF RelayInv
<1>11. Prefixed' BY <1>1
<1>12. Prompted' BY <1>0, <1>3 DEF Prompted
<1>13. Journaled' BY <1>1, <1>2, <1>0, <1>3, <1>5 DEF Journaled
<1>14. Connected' BY <1>0, <1>4 DEF Connected, Heard
<1>15. Gated' BY <1>0, <1>1, <1>3 DEF Gated
<1>16. Acked' BY <1>0, <1>1, <1>3 DEF Acked
<1>17. Starting' BY <1>0, <1>3, <1>6 DEF Starting
<1>18. Streams'
  <2>1. /\ \A g \in Carriers(toCtl') : g \in Carriers(toCtl) \/ g = f
        /\ ctl.at # "off" => f \in Carriers(toCtl')
        /\ ctl.at = "off" => Carriers(ctl.queue) = {}
    BY <1>4, <1>7, Nothing DEF NoCtl
  <2>2. ctl.at # "off" => \A n \in Held + 1..ev + 1 : n = f.ev \/ n \in Held + 1..ev
    BY <1>1, <1>2
  <2> QED BY <1>0, <1>1, <1>2, <1>4, <2>1, <2>2 DEF Streams
<1>19. Tagged' BY <1>0, <1>1, <1>4 DEF Tagged, On
<1>20. Ends' BY <1>0, <1>1, <1>2, <1>3, <1>4, <1>6 DEF Ends
<1> QED BY <1>11, <1>12, <1>13, <1>14, <1>15, <1>16, <1>17, <1>18, <1>19, <1>20

LEMMA FinishKeeps ==
  ASSUME RelayTyped, RelayInv, Finish
  PROVE  RelayInv'
<1> DEFINE f == [k |-> "end", ev |-> ev + 1, direct |-> active.gen = gen]
<1>0. /\ UNCHANGED <<gen, att, toHost, ctl, db, replay>> /\ Tell(f) /\ prov.turn # 0
      /\ prov'.turn = 0 /\ Event /\ active' = NoTurn /\ result' = ev + 1
  BY DEF Finish, ByProvider, RelayTyped, HostTyped
<1>1. Prefixed' /\ Held' = Held /\ ev' = ev + 1 /\ Held < ev' /\ Held \in Nat /\ ev \in Nat
  BY <1>0, Said, Numbers
<1>2. Carries(f) /\ f.ev = ev + 1 /\ f.k = "end" /\ f.direct = (active.gen = gen) BY DEF Carries
<1> HIDE DEF f
<1>3. result = 0 BY <1>0 DEF RelayInv, Prompted
<1>4. /\ ctl.at = "off" => UNCHANGED toCtl
      /\ ctl.at # "off" => Carriers(toCtl') = Carriers(toCtl) \cup {f}
      /\ Ascends(toCtl')
  <2>1. \A g \in Carriers(toCtl) : g.ev < f.ev BY <1>1, <1>2 DEF RelayInv, Streams
  <2> QED BY <1>0, <1>2, <2>1, Told
<1>6. (On' <=> On) /\ (\A n : AckSent(n)' <=> AckSent(n)) /\ ~Bound
  BY <1>0 DEF On, AckSent, Bound
<1>7. ctl.at = "off" => toCtl = <<>> /\ ctl = NoCtl BY DEF RelayInv, Connected
<1>8. \A g \in Carriers(ctl.queue) : g.k # "end"
  BY <1>3 DEF RelayInv, Ends, Streams
<1>9. \A g \in Carriers(toCtl) : g.k = "end" => g.ev <= Held /\ ctl.at # "gate"
  BY <1>1, <1>3, Numbers DEF RelayInv, Ends, Streams
<1> USE DEF RelayInv
<1>11. Prefixed' BY <1>1
<1>12. Prompted' BY <1>0, <1>1, Numbers DEF Prompted, NoTurn
<1>13. Journaled'
  <2>1. \A n \in Held + 1..ev + 1 : n # 0 /\ (n = ev + 1 \/ n \in Held + 1..ev) BY <1>1
  <2>2. \A e \in Carriers(replay) : e.ev \in 1..ev + 1 /\ e.ev # ev + 1
    BY <1>1 DEF Journaled
  <2>3. \A n \in Held + 1..ev : \E e \in Carriers(replay) : e.ev = n
    BY <1>3, <2>1, <1>1 DEF Journaled
  <2> QED BY <1>0, <1>1, <2>1, <2>2, <2>3 DEF Journaled
<1>14. Connected' BY <1>0, <1>4 DEF Connected, Heard
<1>15. Gated'
  <2>1. ctl.at = "gate" => ctl.pend = 0 /\ ctl.busy BY <1>0, <1>3 DEF Gated
  <2>2. ctl.at = "gate" => active'.gen # gen
    BY <1>0 DEF NoTurn, Connected
  <2> QED BY <1>0, <1>1, <2>1, <2>2, Numbers DEF Gated
<1>16. Acked' BY <1>0, <1>1 DEF Acked
<1>17. Starting'
  <2>1. \A g \in Frames(toHost) : g.k # "prompt" BY <1>6 DEF Starting
  <2>2. \A n : AckFirst(toHost, n) BY <2>1 DEF AckFirst, Frames
  <2> QED BY <1>0, <1>6, <2>1, <2>2 DEF Starting
<1>18. Streams'
  <2>1. /\ \A g \in Carriers(toCtl') : g \in Carriers(toCtl) \/ g = f
        /\ ctl.at # "off" => f \in Carriers(toCtl')
        /\ ctl.at = "off" => Carriers(ctl.queue) = {}
    BY <1>4, <1>7, Nothing DEF NoCtl
  <2>2. ctl.at # "off" => \A n \in Held + 1..ev + 1 : n = f.ev \/ n \in Held + 1..ev
    BY <1>1, <1>2
  <2> QED BY <1>0, <1>1, <1>2, <1>4, <2>1, <2>2 DEF Streams
<1>19. Tagged' BY <1>0, <1>1, <1>4 DEF Tagged, On
<1>20. Ends'
  <2>1. \A g \in Carriers(toCtl') : g \in Carriers(toCtl) \/ g = f
    BY <1>4, <1>7, Nothing DEF NoCtl
  <2>2. \A g \in Carriers(toCtl) : g.ev <= ev BY Numbers DEF Streams
  <2>3. \A g \in Carriers(ctl.queue) : g.ev <= ev BY Numbers DEF Streams
  <2>4. /\ ctl.at = "gate" => active.gen # gen
        /\ ctl.ignore => active.gen = gen
    BY <1>0 DEF Gated, Ends
  <2>5. \A g \in Carriers(ctl.queue) : g.k # "end" /\ g.ev # ev + 1 BY <1>1, <1>8, <2>3
  <2>6. ASSUME NEW g \in Carriers(toCtl)
        PROVE  IF g.k = "end" THEN /\ g.ev <= Held /\ ctl.at # "gate"
                                   /\ On => ctl.ignore /\ ~g.direct /\ g.ev = ctl.term
               ELSE g.ev # ev + 1
    BY <1>1, <1>9, <2>2, <2>6 DEF Ends
  <2>7. \A g \in Carriers(toCtl) : g.k = "end" => ~(g.ev > Held)
    BY <1>1, <1>9, Numbers DEF Streams
  <2>8. ~(f.ev <= Held) BY <1>1, <1>2
  <2> QED BY <1>0, <1>1, <1>2, <2>1, <2>4, <2>5, <2>6, <2>7, <2>8 DEF Ends, On
<1> QED BY <1>11, <1>12, <1>13, <1>14, <1>15, <1>16, <1>17, <1>18, <1>19, <1>20

LEMMA AskKeeps ==
  ASSUME RelayTyped, RelayInv, NEW r \in Requests, Ask(r)
  PROVE  RelayInv'
<1> DEFINE f == [k |-> "ask", r |-> r, waits |-> TRUE]
           e == [k |-> "ask", r |-> r]
<1>0. /\ UNCHANGED <<gen, att, toHost, ctl, db, active, result, ev, prov, said>>
      /\ Tell(f) /\ replay' = Append(replay, e)
  BY DEF Ask, ByProvider
<1>1. ~Carries(f) /\ ~Carries(e) BY DEF Carries
<1> HIDE DEF f, e
<1>2. Carriers(toCtl') = Carriers(toCtl) /\ Ascends(toCtl') /\ (ctl.at = "off" => UNCHANGED toCtl)
  BY <1>0, <1>1, Told
<1>3. Carriers(replay') = Carriers(replay) /\ Ascends(replay')
  BY <1>0, <1>1, Numbers, Later DEF RelayInv, Journaled
<1> QED BY <1>0, <1>2, <1>3, Beside DEF RelayInv, Connected, Streams, Starting

-----------------------------------------------------------------------------
(* Connections.                                                             *)

\* What a connection is told first: what the journal has, and the end after it.
LEMMA ToldAgain ==
  ASSUME RelayTyped, RelayInv
  PROVE  /\ Ascends(Replay)
         /\ result = 0 => Carriers(Replay) = Carriers(replay)
         /\ result # 0 => Carriers(Replay) = Carriers(replay) \cup
                            {[k |-> "end", ev |-> result, direct |-> FALSE]}
         /\ \A e \in Carriers(replay) : e.k = "event"
<1>1. replay \in Seq(Entries) /\ Journal \in Seq(CtlFrames) BY Numbers, JournalTyped
<1>2. /\ DOMAIN Journal = DOMAIN replay /\ \A i \in DOMAIN replay : Journal[i] = Again(replay[i])
  BY DEF Journal
<1>3. \A e \in Entries : IF Carries(e) THEN e.k = "event" /\ Again(e) = e ELSE ~Carries(Again(e))
  <2>1. \A e \in Entries : e.k \in {"event", "ask", "cmd"} BY DEF Entries
  <2> QED BY <2>1 DEF Again, Carries
<1>4. \A i \in DOMAIN replay : replay[i] \in Entries BY <1>1
<1>5. Carriers(Journal) = Carriers(replay)
  <2>1. \A i \in DOMAIN replay : IF Carries(replay[i]) THEN Journal[i] = replay[i]
                                 ELSE ~Carries(Journal[i])
    BY <1>2, <1>3, <1>4
  <2>2. \A f \in Frames(Journal) : Carries(f) => f \in Frames(replay) BY <1>2, <2>1 DEF Frames
  <2>3. \A f \in Frames(replay) : Carries(f) => f \in Frames(Journal) BY <1>2, <2>1 DEF Frames
  <2> QED BY <2>2, <2>3 DEF Carriers
<1>6. Ascends(Journal)
  <2>1. \A i \in DOMAIN Journal :
          Carries(Journal[i]) => Carries(replay[i]) /\ Journal[i] = replay[i]
    BY <1>2, <1>3, <1>4
  <2> QED BY <1>2, <2>1 DEF RelayInv, Journaled, Ascends
<1>7. \A e \in Carriers(replay) : e.k = "event" BY <1>3, <1>4 DEF Carriers, Frames
<1>8. CASE result = 0
  <2>1. Replay = Journal BY <1>1, <1>8 DEF Replay, EndAgain
  <2> QED BY <1>5, <1>6, <1>7, <1>8, <2>1
<1>9. CASE result # 0
  <2> DEFINE f == [k |-> "end", ev |-> result, direct |-> FALSE]
  <2>1. Replay = Append(Journal, f) BY <1>1, <1>9 DEF Replay, EndAgain
  <2>2. Carries(f) /\ f.ev = result BY DEF Carries
  <2>3. \A e \in Carriers(Journal) : e.ev < f.ev
    BY <1>5, <1>9, <2>2, Numbers DEF RelayInv, Journaled, Prompted
  <2> HIDE DEF f
  <2>4. Ascends(Append(Journal, f)) /\ Carriers(Append(Journal, f)) = Carriers(Journal) \cup {f}
    BY <1>1, <1>6, <2>2, <2>3, Later
  <2> QED BY <1>5, <1>7, <1>9, <2>1, <2>4 DEF f
<1> QED BY <1>8, <1>9

LEMMA DetachesKeeps ==
  ASSUME RelayTyped, RelayInv, ~LossyClose, HostDetaches
  PROVE  RelayInv'
<1>1. /\ UNCHANGED <<gen, active, result, replay, ev, toCtl, prov, said, ctl, db>>
      /\ att' = FALSE /\ ~Heard
  BY DEF HostDetaches, provider
<1>2. PICK n \in 0..Len(toHost) : /\ n = Len(toHost) /\ \A i \in 1..n : toHost[i].gen # gen
                                  /\ toHost' = SubSeq(toHost, 1, n)
  BY DEF HostDetaches
<1>3. toHost = <<>> /\ toHost' = <<>>
  <2>1. \A i \in 1..Len(toHost) : toHost[i].gen = gen
    BY Numbers DEF RelayInv, Connected, Frames
  <2>2. Len(toHost) \in Nat /\ ~(1 \in 1..Len(toHost)) BY <1>2, <2>1, Numbers
  <2>3. Len(toHost) = 0 BY <2>2
  <2> QED BY <1>2, <2>3, Numbers
<1>4. ctl.at = "off" BY <1>1 DEF RelayInv, Connected
<1> QED BY <1>1, <1>3, <1>4
        DEF RelayInv, Prefixed, Prompted, Journaled, Connected, Gated, Acked, Starting, Streams,
            Tagged, Ends, Held, On, Bound, AckSent

LEMMA GreetKeeps ==
  ASSUME RelayTyped, RelayInv, Greet
  PROVE  RelayInv'
<1>0. /\ UNCHANGED <<active, result, replay, ev, prov, said, toHost, db>>
      /\ ctl.at = "off" /\ gen' = gen + 1 /\ att' = TRUE /\ toCtl' = Replay /\ toHost = <<>>
  BY DEF Greet, ByCtl, provider, RelayInv, Connected
<1>1. /\ ctl'.at = "gate" /\ ctl'.gen = gen + 1 /\ ctl'.pend = result
      /\ ctl'.busy = (active # NoTurn)
      /\ ctl'.queue = <<>> /\ ctl'.ack = 0 /\ ctl'.send = FALSE /\ ctl'.ignore = FALSE
  BY DEF Greet, NoCtl
<1>2. Held' = Held /\ ~On' /\ ~On BY <1>0, <1>1 DEF Held, On
<1>3. Frames(toHost) = {} /\ Carriers(ctl'.queue) = {} /\ Ascends(ctl'.queue)
  BY <1>0, <1>1, Nothing
<1> DEFINE f == [k |-> "end", ev |-> result, direct |-> FALSE]
<1>4. /\ f.k = "end" /\ f.ev = result /\ f.direct = FALSE
      /\ Ascends(toCtl') /\ (result = 0 => Carriers(toCtl') = Carriers(replay))
      /\ result # 0 => Carriers(toCtl') = Carriers(replay) \cup {f}
      /\ \A e \in Carriers(replay) : e.k = "event"
  BY <1>0, ToldAgain
<1> HIDE DEF f
<1> USE DEF RelayInv
<1>11. Prefixed' BY <1>0, <1>2 DEF Prefixed
<1>12. Prompted'
  <2>1. active.gen \in Nat BY DEF RelayTyped, HostTyped
  <2> QED BY <1>0, <2>1, Numbers DEF Prompted
<1>13. Journaled' BY <1>0, <1>2 DEF Journaled
<1>14. Connected' BY <1>0, <1>1, <1>3, Numbers DEF Connected, Heard
<1>15. Gated'
  <2>1. active.gen # gen + 1 BY Numbers DEF Prompted, RelayTyped, HostTyped
  <2>2. active = NoTurn => prov.turn = 0 BY DEF Prompted, NoTurn
  <2>3. ~(ctl'.pend = 0 /\ result # 0) BY <1>1
  <2> QED BY <1>0, <1>1, <2>1, <2>2, <2>3 DEF Gated
<1>16. Acked' BY <1>0, <1>1, <1>2, <1>3, Numbers DEF Acked, AckSent
<1>17. Starting' BY <1>0, <1>1, <1>3, Nothing DEF Starting
<1>18. Streams'
  <2>1. \A g \in Carriers(toCtl') : g \in Carriers(replay) \/ (result # 0 /\ g.ev = result)
    BY <1>4
  <2>2. result # 0 => result \in 1..ev BY Numbers DEF Prompted
  <2>3. \A n \in Held + 1..ev : \E g \in Carriers(toCtl') : g.ev = n
    <3>1. \A n \in Held + 1..ev : n = result \/ \E g \in Carriers(replay) : g.ev = n
      BY DEF Journaled
    <3>2. \A n \in Held + 1..ev : n # 0 BY Numbers
    <3> QED BY <1>4, <3>1, <3>2
  <2> QED BY <1>0, <1>2, <1>3, <1>4, <2>1, <2>2, <2>3 DEF Streams, Journaled
<1>19. Tagged' BY <1>2, <1>3 DEF Tagged
<1>20. Ends'
  <2>1. \A g \in Carriers(toCtl') : \/ g.k = "event" /\ g.ev # result
                                    \/ g.k = "end" /\ g.ev = result /\ ~g.direct
    BY <1>4 DEF Journaled
  <2> QED BY <1>0, <1>1, <1>2, <1>3, <2>1 DEF Ends
<1> QED BY <1>11, <1>12, <1>13, <1>14, <1>15, <1>16, <1>17, <1>18, <1>19, <1>20

\* A controller that leaves takes with it only what can be told again.
LEMMA LeavesKeeps ==
  ASSUME RelayTyped, RelayInv, ctl' = NoCtl, toCtl' = <<>>,
         UNCHANGED <<gen, att, active, result, replay, ev, prov, said, toHost, db>>
  PROVE  RelayInv'
<1>1. /\ ctl'.at = "off" /\ ctl'.send = FALSE /\ ctl'.ignore = FALSE /\ ctl'.queue = <<>>
      /\ ctl'.ack = 0
  BY DEF NoCtl
<1>2. Held' = Held /\ ~On' /\ (Bound => Bound') /\ \A n : AckSent(n)' <=> AckSent(n)
  BY <1>1 DEF Held, On, Bound, AckSent
<1>3. Carriers(ctl'.queue) = {} /\ Ascends(ctl'.queue) /\ Carriers(toCtl') = {} /\ Ascends(toCtl')
  BY <1>1, Nothing
<1> USE DEF RelayInv
<1>11. Prefixed' BY <1>2 DEF Prefixed
<1>12. Prompted' BY DEF Prompted
<1>13. Journaled' BY <1>2 DEF Journaled
<1>14. Connected' BY <1>1 DEF Connected
<1>15. Gated' BY <1>1 DEF Gated
<1>16. Acked' BY <1>1, <1>2, Numbers DEF Acked
<1>17. Starting' BY <1>1, <1>2 DEF Starting
<1>18. Streams' BY <1>1, <1>3 DEF Streams
<1>19. Tagged' BY <1>2, <1>3 DEF Tagged
<1>20. Ends' BY <1>1, <1>3 DEF Ends
<1> QED BY <1>11, <1>12, <1>13, <1>14, <1>15, <1>16, <1>17, <1>18, <1>19, <1>20

\* The end that the host has is committed already: it is acknowledged, and ignored when told.
LEMMA IgnoreKeeps ==
  ASSUME RelayTyped, RelayInv, ctl.at = "gate", ctl.pend # 0, db.turn = 0,
         ctl' = [ctl EXCEPT !.at = "on", !.ignore = TRUE, !.term = ctl.pend],
         Send([gen |-> ctl.gen, k |-> "ack", ev |-> ctl.pend]),
         UNCHANGED <<gen, att, active, result, replay, ev, prov, said, toCtl, db>>
  PROVE  RelayInv'
<1> DEFINE f == [gen |-> ctl.gen, k |-> "ack", ev |-> ctl.pend]
<1>0. /\ ctl'.at = "on" /\ ctl'.gen = ctl.gen /\ ctl'.send = ctl.send /\ ctl'.ignore = TRUE
      /\ ctl'.queue = ctl.queue /\ ctl'.ack = ctl.ack /\ ctl'.term = ctl.pend
  BY Numbers DEF Ctls
<1>1. /\ ctl.pend = result /\ toHost = <<>> /\ ctl.gen = gen /\ att
      /\ ctl.queue = <<>> /\ ctl.ack = 0 /\ ~ctl.send
  BY DEF RelayInv, Gated, Connected, Heard
<1>2. f.k = "ack" /\ f.gen = gen /\ f.ev = result /\ Acks(f, result) BY <1>1 DEF Acks
<1>3. toHost' = Append(toHost, f) BY DEF Send
<1> HIDE DEF f
<1>4. /\ Frames(toHost') = {f} /\ OnePrompt(toHost')
      /\ \A n : AckFirst(toHost', n)
  <2>1. Frames(toHost) = {} /\ OnePrompt(toHost) /\ \A n : AckFirst(toHost, n) BY <1>1, Nothing
  <2>2. Frames(toHost') = Frames(toHost) \cup {f} BY <1>3, Numbers, FramesOfAppend
  <2> QED BY <1>2, <1>3, <2>1, <2>2, Numbers, Later
<1>5. Held = ev /\ Held' = Held /\ prov.turn = 0 /\ On'
  BY <1>0, <1>1, Numbers DEF RelayInv, Prefixed, Prompted, Held, On
<1>6. Carriers(ctl.queue) = {} /\ Ascends(ctl.queue) BY <1>1, Nothing
<1> USE DEF RelayInv
<1>11. Prefixed' BY <1>5 DEF Prefixed
<1>12. Prompted' BY DEF Prompted
<1>13. Journaled' BY <1>5 DEF Journaled
<1>14. Connected' BY <1>0, <1>1, <1>2, <1>4, Numbers DEF Connected, Heard
<1>15. Gated' BY <1>0 DEF Gated
<1>16. Acked' BY <1>0, <1>1, <1>2, <1>4, <1>5, Numbers DEF Acked, AckSent, Prompted
<1>17. Starting' BY <1>0, <1>1, <1>2, <1>4 DEF Starting
<1>18. Streams' BY <1>0, <1>5, <1>6, Numbers DEF Streams
<1>19. Tagged' BY <1>0, <1>5, <1>6, Numbers DEF Tagged, Streams
<1>20. Ends'
  <2>1. \A g \in Carriers(toCtl) : /\ g.k = "end" => g.ev = result /\ ~g.direct
                                   /\ g.k # "end" => g.ev # result
                                   /\ ~(g.ev > Held)
    BY <1>5, Numbers DEF Ends, Streams
  <2> QED BY <1>0, <1>1, <1>5, <1>6, <2>1 DEF Ends
<1> QED BY <1>11, <1>12, <1>13, <1>14, <1>15, <1>16, <1>17, <1>18, <1>19, <1>20

\* The durable turn fits what the host has: the controller goes on with it.
LEMMA ResumeKeeps ==
  ASSUME RelayTyped, RelayInv, ctl.at = "gate",
         IF db.turn # 0 THEN ctl.busy \/ ctl.pend # 0 ELSE ~ctl.busy /\ ctl.pend = 0,
         ctl' = [ctl EXCEPT !.at = "on", !.turn = db.turn],
         UNCHANGED <<gen, att, active, result, replay, ev, prov, said, toCtl, toHost, db>>
  PROVE  RelayInv'
<1>0. /\ ctl'.at = "on" /\ ctl'.gen = ctl.gen /\ ctl'.send = ctl.send /\ ctl'.ignore = ctl.ignore
      /\ ctl'.queue = ctl.queue /\ ctl'.ack = ctl.ack /\ ctl'.turn = db.turn
  BY Numbers DEF Ctls
<1>1. /\ toHost = <<>> /\ ctl.queue = <<>> /\ ctl.ack = 0 /\ ~ctl.send /\ ~ctl.ignore
      /\ ctl.gen = gen /\ att
  BY DEF RelayInv, Gated, Connected, Heard
<1>2. Frames(toHost) = {} /\ Carriers(ctl.queue) = {} /\ Ascends(ctl.queue) BY <1>1, Nothing
<1>3. Held' = Held /\ On' /\ ~On BY <1>0 DEF Held, On
<1>4. result # 0 => Held < ev
  <2>1. result # 0 /\ Held = ev => db.turn = 0 BY <1>2 DEF RelayInv, Acked, AckSent
  <2>2. result # 0 /\ Held = ev => ctl.pend # 0 BY Numbers DEF RelayInv, Gated
  <2> QED BY <2>1, <2>2, Numbers DEF RelayInv, Prefixed
<1> USE DEF RelayInv
<1>11. Prefixed' BY <1>3 DEF Prefixed
<1>12. Prompted' BY DEF Prompted
<1>13. Journaled' BY <1>3 DEF Journaled
<1>14. Connected' BY <1>0, <1>1 DEF Connected, Heard
<1>15. Gated' BY <1>0 DEF Gated
<1>16. Acked' BY <1>0, <1>1, <1>2, <1>3, <1>4, Numbers DEF Acked
<1>17. Starting' BY <1>0, <1>1, <1>2 DEF Starting
<1>18. Streams' BY <1>0, <1>3 DEF Streams
<1>19. Tagged' BY <1>0, <1>2, <1>3 DEF Tagged, Prompted
<1>20. Ends'
  <2>1. \A g \in Carriers(toCtl) :
          IF g.k = "end" THEN g.ev = result /\ g.ev > Held /\ ~(g.ev <= Held)
                                   ELSE g.ev # result
    BY <1>4, Numbers DEF Ends, Streams, Prompted
  <2> QED BY <1>0, <1>1, <1>2, <1>3, <2>1 DEF Ends
<1> QED BY <1>11, <1>12, <1>13, <1>14, <1>15, <1>16, <1>17, <1>18, <1>19, <1>20

LEMMA ActivateKeeps ==
  ASSUME RelayTyped, RelayInv, Activate
  PROVE  RelayInv'
<1>1. /\ ctl.at = "gate"
      /\ UNCHANGED <<gen, att, active, result, replay, ev, prov, said, db>>
  BY DEF Activate, ByCtl, provider
<1>2. CASE ctl' = NoCtl /\ toCtl' = <<>> /\ UNCHANGED toHost
  BY <1>1, <1>2, LeavesKeeps
<1>3. CASE /\ ctl.pend # 0 /\ db.turn = 0
           /\ ctl' = [ctl EXCEPT !.at = "on", !.ignore = TRUE, !.term = ctl.pend]
           /\ Send([gen |-> ctl.gen, k |-> "ack", ev |-> ctl.pend]) /\ UNCHANGED toCtl
  BY <1>1, <1>3, IgnoreKeeps
<1>4. CASE /\ IF db.turn # 0 THEN ctl.busy \/ ctl.pend # 0 ELSE ~ctl.busy /\ ctl.pend = 0
           /\ ctl' = [ctl EXCEPT !.at = "on", !.turn = db.turn] /\ UNCHANGED <<toHost, toCtl>>
  BY <1>1, <1>4, ResumeKeeps
<1> QED BY <1>2, <1>3, <1>4 DEF Activate

-----------------------------------------------------------------------------
(* What the controller reads and does.                                      *)

LEMMA EventRead ==
  ASSUME RelayTyped, RelayInv, CtlReads, ReadEvent(Head(toCtl))
  PROVE  RelayInv'
<1> DEFINE f == Head(toCtl)
           e == [k |-> "event", ev |-> f.ev, turn |-> ctl.turn]
<1>0. /\ toCtl # <<>> /\ toCtl' = Tail(toCtl) /\ ctl.at = "on" /\ f.k = "event"
      /\ UNCHANGED <<gen, att, active, result, replay, ev, prov, said, toHost, db>>
      /\ ctl' = [ctl EXCEPT !.queue = Append(@, e)]
  BY DEF CtlReads, ReadEvent, ByCtl, provider, Emit
<1>1. /\ ctl'.at = "on" /\ ctl'.gen = ctl.gen /\ ctl'.send = ctl.send /\ ctl'.ignore = ctl.ignore
      /\ ctl'.ack = ctl.ack /\ ctl'.turn = ctl.turn /\ ctl'.term = ctl.term
      /\ ctl'.queue = Append(ctl.queue, e)
  BY <1>0, Numbers DEF Ctls
<1>2. e.k = "event" /\ e.ev = f.ev /\ e.turn = ctl.turn /\ Carries(e) /\ Carries(f)
  BY <1>0 DEF Carries
<1> HIDE DEF e, f
<1>3. /\ Carriers(toCtl) = Carriers(toCtl') \cup {f} /\ Ascends(toCtl')
      /\ \A g \in Carriers(toCtl') : f.ev < g.ev
  BY <1>0, <1>2, Numbers, Sooner DEF RelayInv, Streams, f
<1>4. Carriers(ctl'.queue) = Carriers(ctl.queue) \cup {e} /\ Ascends(ctl'.queue)
  <2>1. \A g \in Carriers(ctl.queue) : g.ev < e.ev BY <1>2, <1>3 DEF RelayInv, Streams
  <2> QED BY <1>1, <1>2, <2>1, Numbers, Later DEF RelayInv, Streams
<1>5. /\ Held' = Held /\ On' /\ On /\ (Bound' <=> Bound) /\ \A n : AckSent(n)' <=> AckSent(n)
  BY <1>0, <1>1 DEF Held, On, Bound, AckSent
<1> USE DEF RelayInv
<1>11. Prefixed' BY <1>0, <1>5 DEF Prefixed
<1>12. Prompted' BY <1>0 DEF Prompted
<1>13. Journaled' BY <1>0, <1>5 DEF Journaled
<1>14. Connected' BY <1>0, <1>1 DEF Connected, Heard
<1>15. Gated' BY <1>1 DEF Gated
<1>16. Acked' BY <1>0, <1>1, <1>5 DEF Acked
<1>17. Starting' BY <1>0, <1>1, <1>5 DEF Starting
<1>18. Streams' BY <1>0, <1>1, <1>2, <1>3, <1>4, <1>5 DEF Streams
<1>19. Tagged' BY <1>0, <1>1, <1>2, <1>3, <1>4, <1>5 DEF Tagged
<1>20. Ends' BY <1>0, <1>1, <1>2, <1>3, <1>4, <1>5 DEF Ends
<1> QED BY <1>11, <1>12, <1>13, <1>14, <1>15, <1>16, <1>17, <1>18, <1>19, <1>20

\* The end is read: ignored when it is committed, or put behind the events of its prompt.
LEMMA EndRead ==
  ASSUME RelayTyped, RelayInv, CtlReads, ReadEnd(Head(toCtl))
  PROVE  RelayInv'
<1> DEFINE f == Head(toCtl)
           e == [k |-> "end", ev |-> f.ev, turn |-> ctl.turn]
<1>0. /\ toCtl # <<>> /\ toCtl' = Tail(toCtl) /\ ctl.at = "on" /\ f.k = "end"
      /\ UNCHANGED <<gen, att, active, result, replay, ev, prov, said, toHost, db>>
      /\ ctl' = IF ctl.ignore /\ ~f.direct THEN [ctl EXCEPT !.ignore = FALSE]
                ELSE [[ctl EXCEPT !.queue = Append(@, e)] EXCEPT !.term = f.ev, !.turn = 0]
  BY DEF CtlReads, ReadEnd, ByCtl, provider, Emit
<1>1. /\ ctl'.at = "on" /\ ctl'.gen = ctl.gen /\ ctl'.send = ctl.send /\ ctl'.ack = ctl.ack
      /\ IF ctl.ignore /\ ~f.direct
         THEN /\ ctl'.ignore = FALSE /\ ctl'.turn = ctl.turn /\ ctl'.term = ctl.term
              /\ ctl'.queue = ctl.queue
         ELSE /\ ctl'.ignore = ctl.ignore /\ ctl'.turn = 0 /\ ctl'.term = f.ev
              /\ ctl'.queue = Append(ctl.queue, e)
  BY <1>0, Numbers DEF Ctls
<1>2. e.k = "end" /\ e.ev = f.ev /\ e.turn = ctl.turn /\ Carries(e) /\ Carries(f)
  BY <1>0 DEF Carries
<1> HIDE DEF e, f
<1>3. /\ Carriers(toCtl) = Carriers(toCtl') \cup {f} /\ Ascends(toCtl')
      /\ \A g \in Carriers(toCtl') : f.ev < g.ev
  BY <1>0, <1>2, Numbers, Sooner DEF RelayInv, Streams, f
<1>4. f \in Carriers(toCtl) /\ f.ev \in 1..ev /\ f.ev \in Nat BY <1>3, Numbers DEF RelayInv, Streams
<1>5. Held' = Held /\ On' /\ On /\ \A n : AckSent(n)' <=> AckSent(n)
  BY <1>0, <1>1 DEF Held, On, AckSent
<1>6. \A g \in Carriers(toCtl') : g \in Carriers(toCtl) /\ g.ev \in 1..ev /\ g.ev \in Nat
  BY <1>3, Numbers DEF RelayInv, Streams
<1> USE DEF RelayInv
<1>7. CASE ctl.ignore /\ ~f.direct
  <2>1. f.ev <= Held /\ f.ev = ctl.term BY <1>0, <1>4, <1>5, <1>7, Numbers DEF Ends
  <2>2. Bound' <=> Bound BY <1>0, <1>1, <1>5, <1>7 DEF Bound, Held
  <2>11. Prefixed' BY <1>0, <1>5 DEF Prefixed
  <2>12. Prompted' BY <1>0 DEF Prompted
  <2>13. Journaled' BY <1>0, <1>5 DEF Journaled
  <2>14. Connected' BY <1>0, <1>1 DEF Connected, Heard
  <2>15. Gated' BY <1>1 DEF Gated
  <2>16. Acked' BY <1>0, <1>1, <1>5 DEF Acked
  <2>17. Starting' BY <1>0, <1>1, <1>5, <2>2 DEF Starting
  <2>18. Streams'
    <3>1. \A n \in Held + 1..ev : n # f.ev BY <2>1, <1>4, Numbers
    <3> QED BY <1>0, <1>1, <1>3, <1>5, <1>7, <3>1 DEF Streams
  <2>19. Tagged' BY <1>0, <1>1, <1>3, <1>5, <1>7 DEF Tagged
  <2>20. Ends'
    <3>1. \A g \in Carriers(toCtl') : g.k = "end" => ~(g.ev <= Held) /\ g.ev # ctl.term
      BY <1>3, <1>5, <1>6, <2>1 DEF Ends
    <3> QED BY <1>0, <1>1, <1>5, <1>6, <1>7, <3>1 DEF Ends
  <2> QED BY <2>11, <2>12, <2>13, <2>14, <2>15, <2>16, <2>17, <2>18, <2>19, <2>20
<1>8. CASE ~(ctl.ignore /\ ~f.direct)
  <2>1. f.ev > Held /\ f.ev = result /\ result = ev /\ Held < ev /\ prov.turn = 0
    BY <1>0, <1>4, <1>5, <1>8, Numbers DEF Ends, Prompted
  <2>2. Carriers(toCtl') = {} BY <1>3, <1>4, <1>6, <2>1, Numbers
  <2>3. ~Bound /\ ~Bound' BY <1>0, <1>5, <2>1, Numbers DEF Bound
  <2>4. Carriers(ctl'.queue) = Carriers(ctl.queue) \cup {e} /\ Ascends(ctl'.queue)
    <3>1. \A g \in Carriers(ctl.queue) : g.ev < e.ev BY <1>2, <1>4 DEF Streams
    <3>2. ctl'.queue = Append(ctl.queue, e) BY <1>1, <1>8
    <3> QED BY <1>2, <3>1, <3>2, Numbers, Later DEF Streams
  <2>11. Prefixed' BY <1>0, <1>5 DEF Prefixed
  <2>12. Prompted' BY <1>0 DEF Prompted
  <2>13. Journaled' BY <1>0, <1>5 DEF Journaled
  <2>14. Connected' BY <1>0, <1>1 DEF Connected, Heard
  <2>15. Gated' BY <1>1 DEF Gated
  <2>16. Acked' BY <1>0, <1>1, <1>5 DEF Acked
  <2>17. Starting' BY <1>0, <1>1, <1>5, <2>3 DEF Starting
  <2>18. Streams' BY <1>0, <1>1, <1>2, <1>3, <1>4, <1>5, <2>2, <2>4 DEF Streams
  <2>19. Tagged' BY <1>0, <1>1, <1>2, <1>4, <1>5, <2>1, <2>2, <2>4 DEF Tagged
  <2>20. Ends' BY <1>0, <1>1, <1>2, <1>5, <1>8, <2>1, <2>2, <2>4 DEF Ends
  <2> QED BY <2>11, <2>12, <2>13, <2>14, <2>15, <2>16, <2>17, <2>18, <2>19, <2>20
<1> QED BY <1>7, <1>8

\* What it reads or does about a request leaves the streams alone.
LEMMA RequestsKeep ==
  ASSUME RelayTyped, RelayInv, ctl.at = "on", ByCtl, UNCHANGED <<gen, att, db>>,
         ctl'.at = ctl.at, ctl'.gen = ctl.gen, ctl'.turn = ctl.turn, ctl'.send = ctl.send,
         ctl'.ignore = ctl.ignore, ctl'.term = ctl.term, ctl'.ack = ctl.ack,
         \/ UNCHANGED toCtl
         \/ toCtl # <<>> /\ toCtl' = Tail(toCtl) /\ ~Carries(Head(toCtl)),
         \/ UNCHANGED toHost
         \/ \E f : f.k \in {"cmd", "answer"} /\ f.gen = ctl.gen /\ Send(f),
         \/ ctl'.queue = ctl.queue
         \/ \E e : ~Carries(e) /\ ctl'.queue = Append(ctl.queue, e)
  PROVE  RelayInv'
<1>1. Carriers(toCtl') = Carriers(toCtl) /\ Ascends(toCtl')
  BY Numbers, Sooner DEF RelayInv, Streams
<1>2. Carriers(ctl'.queue) = Carriers(ctl.queue) /\ Ascends(ctl'.queue)
  <2>1. CASE ctl'.queue = ctl.queue BY <2>1 DEF RelayInv, Streams
  <2>2. ASSUME NEW e, ~Carries(e), ctl'.queue = Append(ctl.queue, e)
        PROVE  Carriers(ctl'.queue) = Carriers(ctl.queue) /\ Ascends(ctl'.queue)
    BY <2>2, Numbers, Later DEF RelayInv, Streams
  <2> QED BY <2>1, <2>2
<1>3. /\ \A f \in Frames(toHost') :
           f \in Frames(toHost) \/ (f.k \in {"cmd", "answer"} /\ f.gen = gen)
      /\ \A f \in Frames(toHost) : f \in Frames(toHost')
      /\ OnePrompt(toHost') /\ \A n : AckFirst(toHost, n) => AckFirst(toHost', n)
  <2>1. CASE UNCHANGED toHost BY <2>1 DEF RelayInv, Starting
  <2>2. ASSUME NEW f, f.k \in {"cmd", "answer"}, f.gen = ctl.gen, toHost' = Append(toHost, f)
        PROVE  /\ Frames(toHost') = Frames(toHost) \cup {f} /\ f.gen = gen
               /\ OnePrompt(toHost') /\ \A n : AckFirst(toHost, n) => AckFirst(toHost', n)
    <3>1. Frames(toHost') = Frames(toHost) \cup {f} BY <2>2, Numbers, FramesOfAppend
    <3>2. f.gen = gen BY <2>2 DEF RelayInv, Connected, Heard
    <3> QED BY <2>2, <3>1, <3>2, Numbers, Later DEF RelayInv, Starting
  <2> QED BY <2>1, <2>2 DEF Send
<1>4. att BY DEF RelayInv, Connected, Heard
<1> QED BY <1>1, <1>2, <1>3, <1>4, Beside DEF RelayInv, ByCtl, provider, Journaled

LEMMA ReadsKeep ==
  ASSUME RelayTyped, RelayInv, CtlReads
  PROVE  RelayInv'
<1> DEFINE f == Head(toCtl)
<1>0. /\ ctl.at = "on" /\ toCtl # <<>> /\ toCtl' = Tail(toCtl) /\ ByCtl
      /\ UNCHANGED <<gen, att, db>> /\ ctl \in Ctls
  BY Numbers DEF CtlReads
<1> HIDE DEF f
<1>1. CASE ReadEvent(f) BY <1>1, EventRead DEF f
<1>2. CASE ReadEnd(f) BY <1>2, EndRead DEF f
<1>3. CASE ReadAsk(f)
  <2>1. f.k = "ask" /\ UNCHANGED toHost
        /\ (ctl' = ctl \/ ctl' = [ctl EXCEPT !.coming = @ \cup {f.r}])
    BY <1>3 DEF ReadAsk
  <2> QED BY <1>0, <2>1, RequestsKeep DEF Ctls, Carries, f
<1>4. CASE ReadOk(f)
  <2> DEFINE e == Decided(f.r, ctl.dec)
             g == [gen |-> ctl.gen, k |-> "answer", r |-> f.r, dec |-> ctl.dec]
  <2>1. /\ f.k = "ok" /\ Send(g)
        /\ ctl' = [[ctl EXCEPT !.queue = Append(@, e)] EXCEPT !.ask = Nil, !.dec = Nil]
    BY <1>4 DEF ReadOk, Emit
  <2>2. ~Carries(e) /\ ~Carries(f) /\ g.k = "answer" /\ g.gen = ctl.gen
    BY <2>1 DEF Decided, Carries
  <2> HIDE DEF e, g
  <2>3. /\ ctl'.at = ctl.at /\ ctl'.gen = ctl.gen /\ ctl'.turn = ctl.turn /\ ctl'.send = ctl.send
        /\ ctl'.ignore = ctl.ignore /\ ctl'.term = ctl.term /\ ctl'.ack = ctl.ack
        /\ ctl'.queue = Append(ctl.queue, e)
    BY <1>0, <2>1 DEF Ctls
  <2> QED BY <1>0, <2>1, <2>2, <2>3, RequestsKeep DEF f
<1>5. CASE ReadBad(f)
  <2>1. /\ f.k = "bad" /\ UNCHANGED toHost
        /\ ctl' = [ctl EXCEPT !.ask = Nil, !.dec = Nil, !.open = @ \cup {f.r}]
    BY <1>5 DEF ReadBad
  <2> QED BY <1>0, <2>1, RequestsKeep DEF Ctls, Carries, f
<1>6. CASE ReadDecision(f)
  <2> DEFINE e == Decided(f.r, f.dec)
             c == [ctl EXCEPT !.queue = Append(@, e)]
             g == [gen |-> ctl.gen, k |-> "answer", r |-> f.r, dec |-> f.dec]
  <2>1. /\ f.k = "cmd" /\ (UNCHANGED toHost \/ Send(g))
        /\ \/ ctl' = c \/ ctl' = [c EXCEPT !.open = @ \ {f.r}]
           \/ ctl' = [ctl EXCEPT !.accepted[f.r] = f.dec]
    BY <1>6 DEF ReadDecision, Emit
  <2>2. ~Carries(e) /\ ~Carries(f) /\ g.k = "answer" /\ g.gen = ctl.gen
    BY <2>1 DEF Decided, Carries
  <2> HIDE DEF e, g
  <2>3. /\ ctl'.at = ctl.at /\ ctl'.gen = ctl.gen /\ ctl'.turn = ctl.turn /\ ctl'.send = ctl.send
        /\ ctl'.ignore = ctl.ignore /\ ctl'.term = ctl.term /\ ctl'.ack = ctl.ack
        /\ ctl'.queue = ctl.queue \/ ctl'.queue = Append(ctl.queue, e)
    BY <1>0, <2>1 DEF Ctls
  <2> QED BY <1>0, <2>1, <2>2, <2>3, RequestsKeep DEF f
<1> QED BY <1>1, <1>2, <1>3, <1>4, <1>5, <1>6 DEF CtlReads, f

LEMMA ServeKeeps ==
  ASSUME RelayTyped, RelayInv, NEW r \in Requests, ServeAsk(r)
  PROVE  RelayInv'
<1> DEFINE d == ctl.accepted[r]
           e == Decided(r, d)
           c == [ctl EXCEPT !.queue = Append(@, e)]
           g == [gen |-> ctl.gen, k |-> "answer", r |-> r, dec |-> d]
<1>1. /\ ctl.at = "on" /\ ByCtl /\ UNCHANGED <<gen, att, toCtl, db>> /\ ctl \in Ctls
      /\ UNCHANGED toHost \/ Send(g)
      /\ \/ ctl' = [ctl EXCEPT !.coming = @ \ {r}, !.open = @ \cup {r}]
         \/ ctl' = [c EXCEPT !.coming = @ \ {r}, !.accepted[r] = Nil]
  BY Numbers DEF ServeAsk, Emit
<1>2. ~Carries(e) /\ g.k = "answer" /\ g.gen = ctl.gen BY DEF Decided, Carries
<1> HIDE DEF d, e, g
<1>3. /\ ctl'.at = ctl.at /\ ctl'.gen = ctl.gen /\ ctl'.turn = ctl.turn /\ ctl'.send = ctl.send
      /\ ctl'.ignore = ctl.ignore /\ ctl'.term = ctl.term /\ ctl'.ack = ctl.ack
      /\ ctl'.queue = ctl.queue \/ ctl'.queue = Append(ctl.queue, e)
  <2>1. ctl \in Ctls BY <1>1
  <2>2. CASE ctl' = [ctl EXCEPT !.coming = @ \ {r}, !.open = @ \cup {r}] BY <2>1, <2>2 DEF Ctls
  <2>3. CASE ctl' = [c EXCEPT !.coming = @ \ {r}, !.accepted[r] = Nil] BY <2>1, <2>3 DEF Ctls
  <2> QED BY <1>1, <2>2, <2>3
<1> QED BY <1>1, <1>2, <1>3, RequestsKeep

LEMMA DecideKeeps ==
  ASSUME RelayTyped, RelayInv, NEW r \in Requests, NEW d \in Decisions, Decide(r, d)
  PROVE  RelayInv'
<1> DEFINE g == [gen |-> ctl.gen, k |-> "cmd", r |-> r, dec |-> d]
<1>1. /\ ctl.at = "on" /\ ByCtl /\ UNCHANGED <<gen, att, toCtl, db>> /\ ctl \in Ctls /\ Send(g)
      /\ ctl' = [ctl EXCEPT !.open = @ \ {r}, !.ask = r, !.dec = d]
  BY Numbers DEF Decide
<1>2. g.k = "cmd" /\ g.gen = ctl.gen OBVIOUS
<1> HIDE DEF g
<1>3. /\ ctl'.at = ctl.at /\ ctl'.gen = ctl.gen /\ ctl'.turn = ctl.turn /\ ctl'.send = ctl.send
      /\ ctl'.ignore = ctl.ignore /\ ctl'.term = ctl.term /\ ctl'.ack = ctl.ack
      /\ ctl'.queue = ctl.queue
  BY <1>1 DEF Ctls
<1> QED BY <1>1, <1>2, <1>3, RequestsKeep

\* The step of a turn's beginning and the acknowledgement: the streams are left alone.
LEMMA AcknowledgeKeeps ==
  ASSUME RelayTyped, RelayInv, Acknowledge
  PROVE  RelayInv'
<1> DEFINE f == [gen |-> ctl.gen, k |-> "ack", ev |-> ctl.ack]
<1>0. /\ UNCHANGED <<gen, att, active, result, replay, ev, prov, said, toCtl, db>>
      /\ ctl.at = "on" /\ ctl.ack # 0 /\ ctl' = [ctl EXCEPT !.ack = 0]
      /\ toHost' = Append(toHost, f)
  BY DEF Acknowledge, ByCtl, provider, Send
<1>1. /\ ctl'.at = "on" /\ ctl'.gen = ctl.gen /\ ctl'.send = ctl.send /\ ctl'.ignore = ctl.ignore
      /\ ctl'.queue = ctl.queue /\ ctl'.turn = ctl.turn /\ ctl'.term = ctl.term /\ ctl'.ack = 0
  BY <1>0, Numbers DEF Ctls
<1>2. f.k = "ack" /\ f.gen = ctl.gen /\ Acks(f, ctl.ack) /\ f.ev = ctl.ack BY DEF Acks
<1> HIDE DEF f
<1>3. /\ Frames(toHost') = Frames(toHost) \cup {f} /\ OnePrompt(toHost')
      /\ \A n : AckFirst(toHost, n) => AckFirst(toHost', n)
  BY <1>0, <1>2, Numbers, FramesOfAppend, Later DEF RelayInv, Starting
<1>4. Held' = Held /\ On' /\ On /\ (Bound' <=> Bound) BY <1>0, <1>1 DEF Held, On, Bound
<1>5. /\ \A n : AckSent(n) => AckSent(n)'
      /\ \E g \in Frames(toHost') : Acks(g, ctl.ack)
  BY <1>2, <1>3 DEF AckSent
<1> USE DEF RelayInv
<1>11. Prefixed' BY <1>0, <1>4 DEF Prefixed
<1>12. Prompted' BY <1>0 DEF Prompted
<1>13. Journaled' BY <1>0, <1>4 DEF Journaled
<1>14. Connected'
  <2>1. att /\ ctl.gen = gen BY <1>0 DEF Connected, Heard
  <2> QED BY <1>0, <1>1, <1>2, <1>3, <2>1 DEF Connected, Heard
<1>15. Gated' BY <1>1 DEF Gated
<1>16. Acked'
  <2>1. ctl.ack = result => AckSent(result)' BY <1>0, <1>5 DEF AckSent
  <2> QED BY <1>0, <1>1, <1>2, <1>3, <1>4, <1>5, <2>1, Numbers DEF Acked
<1>17. Starting' BY <1>0, <1>1, <1>2, <1>3, <1>4, <1>5 DEF Starting
<1>18. Streams' BY <1>0, <1>1, <1>4 DEF Streams
<1>19. Tagged' BY <1>0, <1>1, <1>4 DEF Tagged
<1>20. Ends' BY <1>0, <1>1, <1>4 DEF Ends
<1> QED BY <1>11, <1>12, <1>13, <1>14, <1>15, <1>16, <1>17, <1>18, <1>19, <1>20

LEMMA BindKeeps ==
  ASSUME RelayTyped, RelayInv, Bind
  PROVE  RelayInv'
<1>0. /\ UNCHANGED <<gen, att, active, result, replay, ev, prov, said, toCtl, toHost>>
      /\ ctl.at = "on" /\ ctl.ack = 0 /\ db.turn = 0
      /\ ctl' = [ctl EXCEPT !.turn = db.turns + 1, !.send = TRUE]
      /\ db' = [db EXCEPT !.turn = db.turns + 1, !.turns = @ + 1]
  BY DEF Bind, ByCtl, provider
<1>1. /\ ctl'.at = "on" /\ ctl'.gen = ctl.gen /\ ctl'.send = TRUE /\ ctl'.ignore = ctl.ignore
      /\ ctl'.queue = ctl.queue /\ ctl'.turn = db'.turn /\ ctl'.term = ctl.term /\ ctl'.ack = 0
      /\ db'.turn # 0 /\ db'.log = db.log
  BY <1>0, Numbers DEF Ctls, Dbs
<1>2. Held' = Held /\ On' /\ On BY <1>0, <1>1 DEF Held, On
<1>3. Held = ev /\ prov.turn = 0
  <2>1. \A n \in Held + 1..ev : FALSE BY <1>0 DEF RelayInv, Prefixed
  <2>2. Held = ev BY <2>1, Numbers DEF RelayInv, Prefixed
  <2> QED BY <1>0, <2>2 DEF RelayInv, Prompted
<1>4. Bound' /\ ~Bound BY <1>0, <1>1, <1>2, <1>3 DEF Bound
<1>5. \A n : AckSent(n)' <=> AckSent(n) BY <1>0 DEF AckSent
<1> USE DEF RelayInv
<1>6. result # 0 => AckSent(result) BY <1>0, <1>2, <1>3 DEF Acked
<1>11. Prefixed' BY <1>0, <1>1, <1>2, <1>3, Numbers DEF Prefixed
<1>12. Prompted' BY <1>0, <1>3 DEF Prompted
<1>13. Journaled' BY <1>0, <1>2 DEF Journaled
<1>14. Connected' BY <1>0, <1>1 DEF Connected, Heard
<1>15. Gated' BY <1>1 DEF Gated
<1>16. Acked' BY <1>0, <1>1, <1>2, <1>5, <1>6, Numbers DEF Acked
<1>17. Starting' BY <1>0, <1>1, <1>4, <1>5, <1>6 DEF Starting
<1>18. Streams' BY <1>0, <1>1, <1>2 DEF Streams
<1>19. Tagged'
  <2>1. \A g \in Carriers(toCtl) \cup Carriers(ctl.queue) : ~(g.ev > Held)
    BY <1>3, Numbers DEF Streams
  <2> QED BY <1>0, <1>1, <1>2, <1>3, <2>1 DEF Tagged
<1>20. Ends' BY <1>0, <1>1, <1>2 DEF Ends
<1> QED BY <1>11, <1>12, <1>13, <1>14, <1>15, <1>16, <1>17, <1>18, <1>19, <1>20

LEMMA StartKeeps ==
  ASSUME RelayTyped, RelayInv, StartTurn
  PROVE  RelayInv'
<1> DEFINE f == [gen |-> ctl.gen, k |-> "prompt", turn |-> ctl.turn]
<1>0. /\ UNCHANGED <<gen, att, active, result, replay, ev, prov, said, toCtl, db>>
      /\ ctl.at = "on" /\ ctl.send /\ ctl' = [ctl EXCEPT !.send = FALSE]
      /\ toHost' = Append(toHost, f)
  BY DEF StartTurn, ByCtl, provider, Send
<1>1. /\ ctl'.at = "on" /\ ctl'.gen = ctl.gen /\ ctl'.send = FALSE /\ ctl'.ignore = ctl.ignore
      /\ ctl'.queue = ctl.queue /\ ctl'.turn = ctl.turn /\ ctl'.term = ctl.term
      /\ ctl'.ack = ctl.ack
  BY <1>0, Numbers DEF Ctls
<1>2. f.k = "prompt" /\ f.gen = ctl.gen /\ f.turn = ctl.turn /\ \A n : ~Acks(f, n) BY DEF Acks
<1> HIDE DEF f
<1>3. /\ Bound /\ (result # 0 => AckSent(result)) /\ \A g \in Frames(toHost) : g.k # "prompt"
  BY <1>0 DEF RelayInv, Starting
<1>4. /\ Frames(toHost') = Frames(toHost) \cup {f} /\ OnePrompt(toHost')
      /\ result # 0 => AckFirst(toHost', result)
  BY <1>0, <1>3, Numbers, FramesOfAppend, Later DEF AckSent
<1>5. Held' = Held /\ On' /\ On /\ Bound' /\ ctl.turn = db.turn
  BY <1>0, <1>1, <1>3 DEF Held, On, Bound
<1>6. \A n : AckSent(n)' <=> AckSent(n) BY <1>2, <1>4 DEF AckSent
<1> USE DEF RelayInv
<1>11. Prefixed' BY <1>0, <1>5 DEF Prefixed
<1>12. Prompted' BY <1>0 DEF Prompted
<1>13. Journaled' BY <1>0, <1>5 DEF Journaled
<1>14. Connected'
  <2>1. att /\ ctl.gen = gen BY <1>0 DEF Connected, Heard
  <2> QED BY <1>0, <1>1, <1>2, <1>4, <2>1 DEF Connected, Heard
<1>15. Gated' BY <1>1 DEF Gated
<1>16. Acked' BY <1>0, <1>1, <1>2, <1>4, <1>5, <1>6 DEF Acked
<1>17. Starting' BY <1>0, <1>1, <1>2, <1>3, <1>4, <1>5 DEF Starting
<1>18. Streams' BY <1>0, <1>1, <1>5 DEF Streams
<1>19. Tagged' BY <1>0, <1>1, <1>5 DEF Tagged
<1>20. Ends' BY <1>0, <1>1, <1>5 DEF Ends
<1> QED BY <1>11, <1>12, <1>13, <1>14, <1>15, <1>16, <1>17, <1>18, <1>19, <1>20

\* What is known already, or is no event, is dropped from the queue.
LEMMA KnownKeeps ==
  ASSUME RelayTyped, RelayInv, Commit, db'.log = db.log, db'.turn = db.turn, ctl'.ack = ctl.ack,
         Carries(Head(ctl.queue)) => Head(ctl.queue).ev <= Held
  PROVE  RelayInv'
<1> DEFINE e == Head(ctl.queue)
<1>0. /\ UNCHANGED <<gen, att, active, result, replay, ev, prov, said, toCtl, toHost>>
      /\ ctl.at = "on" /\ ctl.queue # <<>>
      /\ \E n : ctl' = [ctl EXCEPT !.queue = Tail(@), !.ack = n]
  BY DEF Commit, ByCtl, provider
<1>1. /\ ctl'.at = "on" /\ ctl'.gen = ctl.gen /\ ctl'.send = ctl.send /\ ctl'.ignore = ctl.ignore
      /\ ctl'.queue = Tail(ctl.queue) /\ ctl'.turn = ctl.turn /\ ctl'.term = ctl.term
  BY <1>0, Numbers DEF Ctls
<1>2. /\ Carries(e) => Carriers(ctl.queue) = Carriers(ctl'.queue) \cup {e} /\ e.ev <= Held
      /\ ~Carries(e) => Carriers(ctl.queue) = Carriers(ctl'.queue)
      /\ Ascends(ctl'.queue)
  BY <1>0, <1>1, Numbers, Sooner DEF RelayInv, Streams
<1> HIDE DEF e
<1>3. /\ \A g \in Carriers(ctl'.queue) : g \in Carriers(ctl.queue)
      /\ \A g \in Carriers(ctl.queue) : g \in Carriers(ctl'.queue) \/ (g.ev = e.ev /\ e.ev <= Held)
  BY <1>2
<1>4. /\ Held' = Held /\ On' /\ On /\ (Bound' <=> Bound) /\ \A n : AckSent(n)' <=> AckSent(n)
  BY <1>0, <1>1 DEF Held, On, Bound, AckSent
<1> USE DEF RelayInv
<1>11. Prefixed' BY <1>0, <1>4 DEF Prefixed
<1>12. Prompted' BY <1>0 DEF Prompted
<1>13. Journaled' BY <1>0, <1>4 DEF Journaled
<1>14. Connected' BY <1>0, <1>1 DEF Connected, Heard
<1>15. Gated' BY <1>1 DEF Gated
<1>16. Acked' BY <1>0, <1>1, <1>4 DEF Acked
<1>17. Starting' BY <1>0, <1>1, <1>4 DEF Starting
<1>18. Streams'
  <2>1. \A n \in Held + 1..ev : ~(n <= Held) BY Numbers
  <2> QED BY <1>0, <1>1, <1>2, <1>3, <1>4, <2>1 DEF Streams
<1>19. Tagged' BY <1>0, <1>1, <1>3, <1>4 DEF Tagged
<1>20. Ends' BY <1>0, <1>1, <1>3, <1>4 DEF Ends
<1> QED BY <1>11, <1>12, <1>13, <1>14, <1>15, <1>16, <1>17, <1>18, <1>19, <1>20

LEMMA KnownNumber ==
  ASSUME RelayTyped, RelayInv, NEW e, e.ev \in Nat
  PROVE  Known(e) <=> e.ev \in 1..Held
<1>1. Held \in Nat /\ ev \in Nat /\ Held <= ev BY Numbers DEF RelayInv, Prefixed
<1>2. \A i \in 1..Held : i \in 1..ev BY <1>1
<1>3. \A i \in 1..Held : db.log[i].ev = i BY <1>2 DEF RelayInv, Prefixed
<1>4. Known(e) <=> e.ev # 0 /\ \E i \in 1..Held : db.log[i].ev = e.ev BY DEF Known, Held
<1> QED BY <1>1, <1>3, <1>4

\* The next event is committed, and with the end of a prompt its turn ends.
LEMMA NextKeeps ==
  ASSUME RelayTyped, RelayInv, Commit, Carries(Head(ctl.queue)), Head(ctl.queue).ev > Held
  PROVE  RelayInv'
<1> DEFINE e == Head(ctl.queue)
           entry == [ev |-> e.ev, turn |-> e.turn]
<1>0. /\ UNCHANGED <<gen, att, active, result, replay, ev, prov, said, toCtl, toHost>>
      /\ ctl.at = "on" /\ ctl.queue # <<>> /\ ctl.ack = 0 /\ db' = Project(e)
      /\ ctl' = [ctl EXCEPT !.queue = Tail(@),
                            !.ack = IF e.k = "end" /\ e.ev = ctl.term THEN e.ev ELSE 0]
  BY DEF Commit, ByCtl, provider
<1>1. /\ Carriers(ctl.queue) = Carriers(ctl'.queue) \cup {e} /\ Ascends(ctl'.queue)
      /\ \A g \in Carriers(ctl'.queue) : e.ev < g.ev
      /\ ctl'.at = "on" /\ ctl'.gen = ctl.gen /\ ctl'.send = ctl.send /\ ctl'.ignore = ctl.ignore
      /\ ctl'.queue = Tail(ctl.queue) /\ ctl'.turn = ctl.turn /\ ctl'.term = ctl.term
      /\ ctl'.ack = IF e.k = "end" /\ e.ev = ctl.term THEN e.ev ELSE 0
  <2>1. /\ ctl'.at = "on" /\ ctl'.gen = ctl.gen /\ ctl'.send = ctl.send /\ ctl'.ignore = ctl.ignore
        /\ ctl'.queue = Tail(ctl.queue) /\ ctl'.turn = ctl.turn /\ ctl'.term = ctl.term
        /\ ctl'.ack = IF e.k = "end" /\ e.ev = ctl.term THEN e.ev ELSE 0
    BY <1>0, Numbers DEF Ctls
  <2>2. ctl.queue # <<>> /\ ctl.queue \in Seq(Outcomes) BY <1>0, Numbers
  <2>3. Ascends(ctl.queue) /\ Carries(e) BY DEF RelayInv, Streams
  <2>4. /\ Carriers(ctl.queue) = Carriers(Tail(ctl.queue)) \cup {e} /\ Ascends(Tail(ctl.queue))
        /\ \A g \in Carriers(Tail(ctl.queue)) : e.ev < g.ev
    BY <2>2, <2>3, Sooner
  <2> QED BY <2>1, <2>4
<1>2. e \in Carriers(ctl.queue) /\ e.ev \in 1..ev /\ e.ev \in Nat /\ Held \in Nat /\ ev \in Nat
      /\ e.k \in {"event", "end"}
  BY <1>1, Numbers DEF RelayInv, Streams, Carries
<1>3. e.ev = Held + 1
  <2>1. Held + 1 \in Held + 1..ev BY <1>2
  <2>2. PICK g \in Carriers(toCtl) \cup Carriers(ctl.queue) : g.ev = Held + 1
    BY <1>0, <2>1 DEF RelayInv, Streams
  <2>3. g = e \/ e.ev < g.ev BY <1>1, <1>2, <2>2 DEF RelayInv, Streams
  <2> QED BY <1>2, <2>2, <2>3
<1>4. /\ e.turn = db.turn /\ said[e.ev].turn = db.turn /\ db.turn # 0 /\ said[e.ev].ev = e.ev
  BY <1>2, <1>3 DEF RelayInv, Tagged, Prefixed
<1>5. said[e.ev] = entry
  <2> HIDE DEF e
  <2>1. said \in Seq([ev : Nat, turn : 0..MaxTurns]) /\ ev = Len(said)
    BY DEF RelayTyped, HostTyped
  <2>2. e.ev \in 1..Len(said) BY <1>2, <2>1
  <2>3. said[e.ev] \in [ev : Nat, turn : 0..MaxTurns] BY <2>1, <2>2, ElementTyped
  <2> QED BY <1>4, <2>3
<1>6. /\ db'.log = Append(db.log, entry)
      /\ db'.turn = IF e.k = "end" THEN 0 ELSE db.turn
  <2>1. ~Known(e) BY <1>2, <1>3, KnownNumber
  <2>2. db' = [db EXCEPT !.log = IF e.ev = 0 THEN @ ELSE Append(@, entry),
                         !.turn = IF e.k = "end" /\ @ = e.turn THEN 0 ELSE @]
    BY <1>0, <1>2, <2>1 DEF Project
  <2>3. e.ev # 0 /\ e.turn = db.turn BY <1>2, <1>4
  <2> HIDE DEF e, entry
  <2> QED BY <2>2, <2>3, Numbers DEF Dbs
<1>7. Held' = Held + 1 /\ \A n \in 1..Held' : db'.log[n] = said[n]
  <2>1. db.log \in Seq([ev : Nat, turn : 0..MaxTurns]) BY Numbers DEF Dbs
  <2>2. Held' = Held + 1 BY <1>6, <2>1 DEF Held
  <2>3. \A n \in 1..Held : db'.log[n] = db.log[n] BY <1>6, <2>1 DEF Held
  <2>4. db'.log[Held + 1] = entry BY <1>6, <2>1 DEF Held
  <2> HIDE DEF entry, e
  <2> QED BY <1>2, <1>3, <1>5, <2>2, <2>3, <2>4 DEF RelayInv, Prefixed
<1> HIDE DEF entry, e
<1>8. On' /\ On /\ ~Bound /\ (\A n : AckSent(n)' <=> AckSent(n)) /\ Held < ev
  BY <1>0, <1>1, <1>2, <1>3 DEF On, Bound, AckSent
<1>9. ~ctl.send /\ \A g \in Frames(toHost) : g.k # "prompt" BY <1>8 DEF RelayInv, Starting
<1>10. IF e.k = "end" THEN e.ev = result /\ ctl.term = result /\ result = ev /\ prov.turn = 0
       ELSE e.ev # result
  BY <1>2 DEF RelayInv, Ends, Prompted
<1> USE DEF RelayInv
<1>11. Prefixed'
  <2>1. Held + 1 <= ev /\ \A n \in Held + 2..ev : n \in Held + 1..ev BY <1>2, <1>3
  <2>2. e.k = "end" => Held + 1 = ev BY <1>3, <1>10
  <2>3. e.k # "end" => db'.turn = db.turn BY <1>6
  <2>4. \A n \in 1..ev : said[n].ev = n BY DEF Prefixed
  <2>5. \A n \in Held' + 1..ev : db'.turn # 0 /\ said[n].turn = db'.turn
    BY <1>2, <1>7, <2>1, <2>2, <2>3 DEF Prefixed
  <2> QED BY <1>0, <1>7, <2>1, <2>4, <2>5 DEF Prefixed
<1>12. Prompted' BY <1>0, <1>6, <1>10 DEF Prompted
<1>13. Journaled' BY <1>0, <1>2, <1>7 DEF Journaled
<1>14. Connected' BY <1>0, <1>1 DEF Connected, Heard
<1>15. Gated' BY <1>1 DEF Gated
<1>16. Acked'
  <2>1. CASE e.k = "end"
    <3>1. db'.turn = 0 /\ ctl'.ack = result /\ Held' = ev /\ result = ev
      BY <1>1, <1>3, <1>6, <1>7, <1>10, <2>1
    <3>2. \A g \in Frames(toHost) : g.k = "ack" => g.ev <= ev
      BY <1>2, Numbers, ReadFields DEF Acked, Prefixed
    <3> QED BY <1>0, <1>2, <3>1, <3>2 DEF Acked
  <2>2. CASE e.k # "end"
    <3>1. ~(result # 0 /\ Held' = ev) BY <1>2, <1>3, <1>7, <1>10, <2>2 DEF Prompted
    <3>2. \A g \in Frames(toHost) : g.k = "ack" => g.ev <= Held + 1
      BY <1>2, Numbers, ReadFields DEF Acked
    <3>3. ctl'.ack = 0 BY <1>1, <2>2
    <3> QED BY <1>0, <1>2, <1>7, <3>1, <3>2, <3>3 DEF Acked
  <2> QED BY <2>1, <2>2
<1>17. Starting' BY <1>0, <1>1, <1>9 DEF Starting
<1>18. Streams'
  <2>1. \A n \in Held + 2..ev : n \in Held + 1..ev /\ n # e.ev BY <1>2, <1>3
  <2> QED BY <1>0, <1>1, <1>2, <1>7, <2>1 DEF Streams
<1>19. Tagged'
  <2>1. CASE e.k = "end"
    <3>1. \A g \in Carriers(toCtl) \cup Carriers(ctl'.queue) : ~(g.ev > Held')
      BY <1>1, <1>2, <1>3, <1>7, <1>10, <2>1, Numbers DEF Streams
    <3> QED BY <1>0, <1>10, <2>1, <3>1 DEF Tagged
  <2>2. CASE e.k # "end"
    <3>1. \A g \in Carriers(toCtl) \cup Carriers(ctl'.queue) : g.ev > Held' => g.ev > Held
      BY <1>1, <1>2, <1>7, Numbers DEF Streams
    <3> QED BY <1>0, <1>1, <1>6, <1>8, <2>2, <3>1 DEF Tagged
  <2> QED BY <2>1, <2>2
<1>20. Ends'
  <2>1. \A g \in Carriers(ctl'.queue) : g \in Carriers(ctl.queue) /\ e.ev < g.ev /\ g.ev \in Nat
    BY <1>1, Numbers DEF Streams
  <2>2. \A g \in Carriers(toCtl) : e.ev < g.ev /\ g.ev \in Nat BY <1>2, Numbers DEF Streams
  <2>3. \A g \in Carriers(ctl'.queue) \cup Carriers(toCtl) :
          g.ev > Held' /\ ~(g.ev <= Held') /\ g.ev > Held
    BY <1>2, <1>3, <1>7, <2>1, <2>2
  <2> QED BY <1>0, <1>1, <1>8, <2>1, <2>2, <2>3 DEF Ends
<1> QED BY <1>11, <1>12, <1>13, <1>14, <1>15, <1>16, <1>17, <1>18, <1>19, <1>20

LEMMA CommitKeeps ==
  ASSUME RelayTyped, RelayInv, Commit
  PROVE  RelayInv'
<1> DEFINE e == Head(ctl.queue)
<1>0. /\ ctl.queue # <<>> /\ ctl.ack = 0 /\ ctl.at = "on" /\ db' = Project(e)
      /\ ctl' = [ctl EXCEPT !.queue = Tail(@),
                            !.ack = IF e.k = "end" /\ e.ev = ctl.term THEN e.ev ELSE 0]
  BY DEF Commit
<1>1. Frames(ctl.queue) = Frames(Tail(ctl.queue)) \cup {e} BY <1>0, Numbers, FramesOfTail
<1>2. e \in Outcomes BY <1>1, Numbers
<1> HIDE DEF e
<1>3. CASE ~Carries(e)
  <2>1. e.k = "dec" BY <1>2, <1>3 DEF Outcomes, Carries
  <2>2. db'.log = db.log /\ db'.turn = db.turn BY <1>0, <2>1, Numbers DEF Project, Dbs
  <2>3. ctl'.ack = ctl.ack BY <1>0, <2>1, Numbers DEF Ctls
  <2> QED BY <1>3, <2>2, <2>3, KnownKeeps DEF e
<1>4. CASE Carries(e) /\ e.ev <= Held
  <2>1. e \in Carriers(ctl.queue) BY <1>1, <1>4 DEF Carriers
  <2>2. e.k = "event" /\ e.ev \in 1..Held
    BY <1>4, <2>1, Numbers DEF RelayInv, Ends, Streams, Carries
  <2>3. Known(e) BY <2>2, KnownNumber
  <2>4. db' = db BY <1>0, <2>2, <2>3 DEF Project
  <2>5. ctl'.ack = ctl.ack BY <1>0, <2>2, Numbers DEF Ctls
  <2> QED BY <1>4, <2>4, <2>5, KnownKeeps DEF e
<1>5. CASE Carries(e) /\ e.ev > Held
  BY <1>5, NextKeeps DEF e
<1>6. Carries(e) => e.ev \in Nat BY <1>2 DEF Outcomes, Carries
<1> QED BY <1>3, <1>4, <1>5, <1>6, Numbers

-----------------------------------------------------------------------------
(* The invariant, and what follows.                                         *)

LEMMA RelayInvInit == RelayInit => RelayInv
<1> SUFFICES ASSUME RelayInit PROVE RelayInv
  OBVIOUS
<1>1. /\ ctl.at = "off" /\ ctl.queue = <<>> /\ ctl.ack = 0 /\ ctl.send = FALSE /\ ctl.ignore = FALSE
      /\ db.log = <<>> /\ Len(db.log) = 0 /\ ctl = NoCtl
  BY DEF RelayInit, NoCtl
<1>2. /\ Frames(toHost) = {} /\ Carriers(toCtl) = {} /\ Carriers(ctl.queue) = {}
      /\ Carriers(replay) = {}
      /\ Ascends(toCtl) /\ Ascends(ctl.queue) /\ Ascends(replay) /\ OnePrompt(toHost)
  BY <1>1, Nothing DEF RelayInit
<1> QED BY <1>1, <1>2
        DEF RelayInit, RelayInv, Prefixed, Prompted, Journaled, Connected, Gated, Acked, Starting,
            Streams, Tagged, Ends, Held, On, Bound, AckSent, NoTurn

LEMMA RelayInvStep ==
  ASSUME RelayTyped, RelayInv, ~LossyClose, [RelayNext]_relayVars
  PROVE  RelayInv'
<1>1. CASE UNCHANGED relayVars
  BY <1>1, Beside DEF relayVars, host, provider, RelayInv, Journaled, Streams, Starting, Connected
<1>2. CASE HostReads BY <1>2, Reading, PromptHeard, AckHeard, AnswersHeard
<1>3. CASE HostDetaches BY <1>3, DetachesKeeps
<1>4. CASE Finish BY <1>4, FinishKeeps
<1>5. CASE Activate BY <1>5, ActivateKeeps
<1>6. CASE CtlReads BY <1>6, ReadsKeep
<1>7. CASE Commit BY <1>7, CommitKeeps
<1>8. CASE Acknowledge BY <1>8, AcknowledgeKeeps
<1>9. CASE StartTurn BY <1>9, StartKeeps
<1>10. CASE Say BY <1>10, SayKeeps
<1>11. CASE Greet BY <1>11, GreetKeeps
<1>12. CASE Detach BY <1>12, LeavesKeeps DEF Detach, ByCtl, provider
<1>13. CASE Bind BY <1>13, BindKeeps
<1>14. CASE \E r \in Requests : Ask(r) \/ ServeAsk(r) \/ \E d \in Decisions : Decide(r, d)
  BY <1>14, AskKeeps, ServeKeeps, DecideKeeps
<1> QED BY <1>1, <1>2, <1>3, <1>4, <1>5, <1>6, <1>7, <1>8, <1>9, <1>10, <1>11, <1>12, <1>13, <1>14
        DEF RelayNext

\* Everything on a connection, in the journal and in the queue is well formed.
THEOREM RelayTypes == RelaySpec => []RelayTyped
<1> QED BY RelayTypedInit, RelayTypedStep, PTL DEF RelaySpec

\* Whatever controllers come and go, and whatever of the provider's work they commit before
\* they do: the events of a prompt are committed once, in order, without a gap and for the
\* turn they were said in, as long as a connection takes along nothing that was sent on it.
THEOREM CommittedInOrderAlways == ASSUME ~LossyClose PROVE RelaySpec => []CommittedInOrder
<1>1. RelayTyped /\ RelayInv => CommittedInOrder
  <2> SUFFICES ASSUME RelayTyped, RelayInv PROVE CommittedInOrder
    OBVIOUS
  <2>1. /\ db.log \in Seq([ev : Nat, turn : 0..MaxTurns])
        /\ said \in Seq([ev : Nat, turn : 0..MaxTurns])
        /\ Len(said) = ev
    BY Numbers DEF Dbs, RelayTyped, HostTyped
  <2>2. /\ Len(db.log) <= Len(said)
        /\ \A n \in 1..Len(db.log) : db.log[n] = said[n]
    BY <2>1 DEF RelayInv, Prefixed, Held
  <2>3. SubSeq(db.log, 1, Len(db.log)) = SubSeq(said, 1, Len(db.log)) BY <2>1, <2>2
  <2> QED BY <2>2, <2>3 DEF CommittedInOrder, IsPrefix
<1>2. RelayTyped /\ RelayInv /\ [RelayNext]_relayVars => RelayInv' BY RelayInvStep
<1> QED BY <1>1, <1>2, RelayInvInit, RelayTypes, PTL DEF RelaySpec

-----------------------------------------------------------------------------
(* One answer: where the handler of a request is, and what is said of its   *)
(* decision.                                                                *)

Unique(s, M) == \A i, j \in DOMAIN s : s[i] \in M /\ s[j] \in M => i = j

AskOf(r)        == [k |-> "ask", r |-> r]
TellsOf(r)      == [k |-> "ask", r |-> r, waits |-> TRUE]
AnswerFrames(r) == {f \in HostFrames : f.k = "answer" /\ f.r = r}
CmdFrames       == {f \in HostFrames : f.k = "cmd"}
ReplyFrames     == {f \in CtlFrames : f.k \in {"ok", "bad"}}
Answering(r)    == \E f \in Frames(toHost) : f \in AnswerFrames(r)

\* A request waits from its asking until its answer.
Waiting ==
  /\ asks = {r \in asked : got[r] = <<>>}
  /\ \A r \in Requests : Len(got[r]) <= 1 /\ (r \notin asked => got[r] = <<>>)
  /\ prov.turn = 0 => asks = {}

\* The journal has a request once, and a decision when there is one.
Noted ==
  \A r \in Requests :
    /\ AskOf(r) \in Frames(replay) => r \in asked
    /\ Unique(replay, {AskOf(r)})
    /\ [k |-> "cmd", r |-> r] \in Frames(replay) => cmds[r] # Nil

\* Its handler is at one place of the connection at most, and only while it waits.
Placed ==
  \A r \in Requests :
    /\ TellsOf(r) \in Frames(toCtl) =>
         r \in asks /\ r \notin ctl.coming /\ r \notin ctl.open /\ r # ctl.ask /\ ~Answering(r)
    /\ r \in ctl.coming => r \in asks /\ r \notin ctl.open /\ r # ctl.ask /\ ~Answering(r)
    /\ r \in ctl.open => r \in asks /\ r # ctl.ask /\ ~Answering(r)
    /\ r = ctl.ask => r \in asks /\ ~Answering(r)
    /\ Answering(r) => r \in asks
    /\ Unique(toCtl, {TellsOf(r)}) /\ Unique(toHost, AnswerFrames(r))

\* One decision at a time is with the host; its reply is for the controller that sent it.
Deciding ==
  /\ ctl.at # "on" => /\ ctl.coming = {} /\ ctl.open = {} /\ ctl.ask = Nil
                      /\ \A r \in Requests : ctl.accepted[r] = Nil
  /\ ctl.ask # Nil => ctl.dec \in Decisions
  /\ \A f \in Frames(toHost) :
       f \in CmdFrames /\ ctl.at # "off" =>
         /\ ctl.ask = f.r /\ ctl.dec = f.dec
         /\ \A g \in Frames(toCtl) : g \notin ReplyFrames
  /\ \A f \in Frames(toCtl) : f \in ReplyFrames => ctl.ask = f.r
  /\ Unique(toHost, CmdFrames) /\ Unique(toCtl, ReplyFrames)

\* Where a decision is told, on its way or kept.
Utters(r, d) ==
  \/ \E f \in Frames(toHost) : f.k = "answer" /\ f.r = r /\ f.dec = d
  \/ \E f \in Frames(toCtl) : f.k = "cmd" /\ f.r = r /\ f.dec = d
  \/ ctl.dec = d /\ \E f \in Frames(toCtl) : f.k = "ok" /\ f.r = r
  \/ ctl.accepted[r] = d
  \/ \E e \in Frames(ctl.queue) : e.k = "dec" /\ e.r = r /\ e.dec = d
  \/ cmds[r] = d
  \/ d \in Frames(got[r])
  \/ db.decided[r] = d

\* All that is told of a request is one decision, while it waits the one the host has recorded.
Agreed ==
  \A r \in Requests, d \in Decisions : Utters(r, d) =>
    /\ r \in asked
    /\ r \in asks => cmds[r] = d
    /\ \A e \in Decisions : Utters(r, e) => d = e
IsDecision ==
  /\ \A f \in Frames(toHost) : f.k \in {"cmd", "answer"} => f.dec \in Decisions
  /\ \A f \in Frames(toCtl) : f.k = "cmd" => f.dec \in Decisions
  /\ \A e \in Frames(ctl.queue) : e.k = "dec" => e.dec \in Decisions
  /\ \A r \in Requests : Frames(got[r]) \subseteq Decisions

AnswerInv == Waiting /\ Noted /\ Placed /\ Deciding /\ Agreed /\ IsDecision

LEMMA UniqueLater ==
  ASSUME NEW S, NEW s \in Seq(S), NEW f, NEW M, Unique(s, M),
         f \notin M \/ \A g \in Frames(s) : g \notin M
  PROVE  Unique(Append(s, f), M)
<1>1. Len(s) \in Nat /\ DOMAIN s = 1..Len(s) /\ DOMAIN Append(s, f) = 1..Len(s) + 1
  OBVIOUS
<1>2. /\ \A i \in DOMAIN s : Append(s, f)[i] = s[i] /\ s[i] \in Frames(s)
      /\ Append(s, f)[Len(s) + 1] = f
      /\ \A i \in DOMAIN Append(s, f) : i \in DOMAIN s \/ i = Len(s) + 1
  BY <1>1 DEF Frames
<1> QED BY <1>2 DEF Unique

LEMMA UniqueSooner ==
  ASSUME NEW S, NEW s \in Seq(S), s # <<>>, NEW M, Unique(s, M)
  PROVE  /\ Unique(Tail(s), M)
         /\ Head(s) \in M => \A g \in Frames(Tail(s)) : g \notin M
<1>1. Len(s) \in Nat \ {0} /\ DOMAIN s = 1..Len(s) /\ Head(s) = s[1] /\ 1 \in DOMAIN s OBVIOUS
<1>2. /\ Tail(s) \in Seq(S) /\ Len(Tail(s)) = Len(s) - 1
      /\ \A i \in 1..Len(s) - 1 : Tail(s)[i] = s[i + 1]
  OBVIOUS
<1>3. \A i \in DOMAIN Tail(s) : /\ i \in Nat \ {0} /\ i + 1 \in DOMAIN s /\ i + 1 # 1
                                /\ s[i + 1] = Tail(s)[i]
  BY <1>1, <1>2
<1>4. \A i, j \in DOMAIN Tail(s) : i + 1 = j + 1 => i = j BY <1>3
<1>5. Unique(Tail(s), M) BY <1>3, <1>4 DEF Unique
<1>6. Head(s) \in M => \A g \in Frames(Tail(s)) : g \notin M BY <1>1, <1>3 DEF Unique, Frames
<1> QED BY <1>5, <1>6

LEMMA UniqueNone == \A M : Unique(<<>>, M)
BY DEF Unique

\* A direction of the connection carries nothing new of a request.
HostFewer ==
  /\ \A f \in Frames(toHost') : f \in Frames(toHost) \/ f.k \in {"prompt", "ack"}
  /\ Unique(toHost, CmdFrames) => Unique(toHost', CmdFrames)
  /\ \A r \in Requests : Unique(toHost, AnswerFrames(r)) => Unique(toHost', AnswerFrames(r))
CtlFewer ==
  /\ \A f \in Frames(toCtl') : f \in Frames(toCtl) \/ Carries(f)
  /\ Unique(toCtl, ReplyFrames) => Unique(toCtl', ReplyFrames)
  /\ \A r \in Requests : Unique(toCtl, {TellsOf(r)}) => Unique(toCtl', {TellsOf(r)})

LEMMA HostCarriesLess ==
  ASSUME RelayTyped,
         \/ UNCHANGED toHost \/ toHost' = <<>>
         \/ toHost # <<>> /\ toHost' = Tail(toHost)
         \/ \E f : f.k \in {"prompt", "ack"} /\ toHost' = Append(toHost, f)
  PROVE  HostFewer
<1>1. CASE UNCHANGED toHost BY <1>1 DEF HostFewer
<1>2. CASE toHost' = <<>> BY <1>2, Nothing, UniqueNone DEF HostFewer
<1>3. CASE toHost # <<>> /\ toHost' = Tail(toHost)
  BY <1>3, Numbers, FramesOfTail, UniqueSooner DEF HostFewer
<1>4. ASSUME NEW f, f.k \in {"prompt", "ack"}, toHost' = Append(toHost, f) PROVE HostFewer
  <2>1. f \notin CmdFrames /\ \A r \in Requests : f \notin AnswerFrames(r)
    BY <1>4 DEF CmdFrames, AnswerFrames
  <2> QED BY <1>4, <2>1, Numbers, FramesOfAppend, UniqueLater DEF HostFewer
<1> QED BY <1>1, <1>2, <1>3, <1>4

LEMMA CtlCarriesLess ==
  ASSUME RelayTyped,
         \/ UNCHANGED toCtl \/ toCtl' = <<>>
         \/ toCtl # <<>> /\ toCtl' = Tail(toCtl)
         \/ \E f : Carries(f) /\ toCtl' = Append(toCtl, f)
  PROVE  CtlFewer
<1>1. CASE UNCHANGED toCtl BY <1>1 DEF CtlFewer
<1>2. CASE toCtl' = <<>> BY <1>2, Nothing, UniqueNone DEF CtlFewer
<1>3. CASE toCtl # <<>> /\ toCtl' = Tail(toCtl)
  BY <1>3, Numbers, FramesOfTail, UniqueSooner DEF CtlFewer
<1>4. ASSUME NEW f, Carries(f), toCtl' = Append(toCtl, f) PROVE CtlFewer
  <2>1. f \notin ReplyFrames /\ \A r \in Requests : f \notin {TellsOf(r)}
    BY <1>4 DEF ReplyFrames, TellsOf, Carries
  <2> QED BY <1>4, <2>1, Numbers, FramesOfAppend, UniqueLater DEF CtlFewer
<1> QED BY <1>1, <1>2, <1>3, <1>4

LEMMA Distinguished ==
  /\ Nil \notin Decisions /\ Nil \notin Requests
  /\ \A r \in Requests : TellsOf(r).k = "ask" /\ AskOf(r).k = "ask"
BY RelayAssumption DEF TellsOf, AskOf

LEMMA AgreedKept ==
  ASSUME AnswerInv, asked \subseteq asked',
         \A r \in Requests, d \in Decisions : Utters(r, d)' => Utters(r, d),
         \A r \in Requests : r \in asks' => (r \in asks /\ cmds'[r] = cmds[r]) \/ r \notin asked
  PROVE  Agreed'
BY DEF AnswerInv, Agreed

\* A step that tells nothing new of a request.
LEMMA LessAnswered ==
  ASSUME RelayTyped, AnswerInv, HostFewer, CtlFewer, UNCHANGED <<asked, asks, got>>,
         RelayTyped', db'.decided = db.decided, prov'.turn = 0 => asks = {},
         \/ /\ UNCHANGED cmds /\ \A e \in Frames(replay') : e \in Frames(replay) \/ e.k = "event"
            /\ \A r \in Requests : Unique(replay, {AskOf(r)}) => Unique(replay', {AskOf(r)})
         \/ asks = {} /\ replay' = <<>> /\ \A r \in Requests : cmds'[r] = Nil,
         \/ /\ ctl'.coming = ctl.coming /\ ctl'.open = ctl.open /\ ctl'.ask = ctl.ask
            /\ ctl'.dec = ctl.dec /\ ctl'.accepted = ctl.accepted
            /\ ctl'.at # "on" => ctl.at # "on"
            /\ ctl'.at # "off" => ctl.at # "off"
            /\ \A e \in Frames(ctl'.queue) : e \in Frames(ctl.queue) \/ Carries(e)
         \/ ctl' = NoCtl /\ toCtl' = <<>>
  PROVE  AnswerInv'
<1> USE DEF AnswerInv
<1>1. \/ /\ ctl'.coming = ctl.coming /\ ctl'.open = ctl.open /\ ctl'.ask = ctl.ask
         /\ ctl'.dec = ctl.dec /\ ctl'.accepted = ctl.accepted
         /\ ctl'.at # "on" => ctl.at # "on"
         /\ ctl'.at # "off" => ctl.at # "off"
         /\ \A e \in Frames(ctl'.queue) : e \in Frames(ctl.queue) \/ Carries(e)
      \/ /\ ctl'.coming = {} /\ ctl'.open = {} /\ ctl'.ask = Nil /\ ctl'.dec = Nil
         /\ ctl'.at = "off"
         /\ \A r \in Requests : ctl'.accepted[r] = Nil
         /\ Frames(ctl'.queue) = {} /\ Frames(toCtl') = {}
  BY Nothing DEF NoCtl
<1>2. /\ \A f \in Frames(toHost') : f.k \in {"cmd", "answer"} => f \in Frames(toHost)
      /\ \A f \in Frames(toHost') : f \in CmdFrames => f \in Frames(toHost)
      /\ \A r \in Requests : Answering(r)' => Answering(r)
  BY DEF HostFewer, CmdFrames, AnswerFrames, Answering
<1>3. /\ \A f \in Frames(toCtl') : ~Carries(f) => f \in Frames(toCtl)
      /\ \A f \in Frames(toCtl') : f \in ReplyFrames => f \in Frames(toCtl)
      /\ \A r \in Requests : TellsOf(r) \in Frames(toCtl') => TellsOf(r) \in Frames(toCtl)
  BY Distinguished DEF CtlFewer, Carries, ReplyFrames
<1>11. Waiting' BY DEF Waiting
<1>12. Noted'
  <2>1. CASE /\ UNCHANGED cmds /\ \A e \in Frames(replay') : e \in Frames(replay) \/ e.k = "event"
             /\ \A r \in Requests : Unique(replay, {AskOf(r)}) => Unique(replay', {AskOf(r)})
    BY <2>1, Distinguished DEF Noted
  <2>2. CASE replay' = <<>> BY <2>2, Nothing, UniqueNone DEF Noted
  <2> QED BY <2>1, <2>2
<1>13. Placed' BY <1>1, <1>2, <1>3, Distinguished DEF Placed, HostFewer, CtlFewer
<1>14. Deciding' BY <1>1, <1>2, <1>3 DEF Deciding, HostFewer, CtlFewer
<1>15. Agreed'
  <2>1. ASSUME NEW r \in Requests, NEW d \in Decisions, Utters(r, d)' PROVE Utters(r, d)
    <3>1. /\ d # Nil /\ (cmds'[r] = d => cmds[r] = d)
      BY Distinguished
    <3> QED BY <1>1, <1>2, <1>3, <2>1, <3>1 DEF Utters, Carries
  <2>2. \A r \in Requests : r \in asks' => r \in asks /\ cmds'[r] = cmds[r] OBVIOUS
  <2> QED BY <2>1, <2>2, AgreedKept
<1>16. IsDecision' BY <1>1, <1>2, <1>3 DEF IsDecision, Carries
<1> QED BY <1>11, <1>12, <1>13, <1>14, <1>15, <1>16

-----------------------------------------------------------------------------
(* What the host hears and the provider asks.                               *)

\* A prompt or an acknowledgement: the journal is dropped only when nothing waits.
LEMMA HearsAnswered ==
  ASSUME RelayTyped, RelayInv, AnswerInv, RelayTyped', HostReads,
         HearPrompt(Head(toHost)) \/ HearAck(Head(toHost))
  PROVE  AnswerInv'
<1> DEFINE f == Head(toHost)
<1>0. toHost # <<>> /\ toHost' = Tail(toHost) /\ UNCHANGED <<gen, att, ev, asked, said, ctl, db>>
  BY Reading
<1>1. HostFewer BY <1>0, HostCarriesLess
<1>2. result # 0 => prov.turn = 0 BY DEF RelayInv, Prompted
<1>3. f.k = "prompt" => /\ f.turn = db.turn /\ db.turn # 0 /\ result = 0 /\ active = NoTurn
                        /\ prov.turn = 0
  <2>1. Frames(toHost) = Frames(toHost') \cup {f} BY <1>0, Numbers, FramesOfTail
  <2>2. f.k = "prompt" => f.turn = db.turn /\ db.turn # 0 /\ prov.turn = 0
    BY <2>1 DEF RelayInv, Starting, Bound
  <2>3. result # 0 => f.k # "prompt" BY <1>0, Numbers, Sooner DEF RelayInv, Starting
  <2> QED BY <2>2, <2>3 DEF RelayInv, Prompted
<1> HIDE DEF f
<1>4. UNCHANGED <<asks, got, toCtl>> /\ (prov'.turn = 0 => asks = {})
      /\ \/ UNCHANGED <<cmds, replay>>
         \/ asks = {} /\ replay' = <<>> /\ \A r \in Requests : cmds'[r] = Nil
  BY <1>2, <1>3 DEF HearPrompt, HearAck, Acknowledges, Empty, AnswerInv, Waiting, f
<1>5. CtlFewer BY <1>4, CtlCarriesLess
<1> QED BY <1>0, <1>1, <1>4, <1>5, LessAnswered

LEMMA SpeaksAnswered ==
  ASSUME RelayTyped, AnswerInv, RelayTyped', Say \/ Finish
  PROVE  AnswerInv'
<1>1. PICK f : Tell(f) /\ Carries(f) BY DEF Say, Finish, Carries
<1>2. CtlFewer
  <2>1. UNCHANGED toCtl \/ toCtl' = Append(toCtl, f) BY <1>1 DEF Tell
  <2> QED BY <1>1, <2>1, CtlCarriesLess
<1>3. UNCHANGED <<gen, att, cmds, toHost, got, ctl, db, asks, asked>>
  BY DEF Say, Finish, ByProvider
<1>4. HostFewer BY <1>3, HostCarriesLess
<1>5. prov'.turn = 0 => asks = {}
  <2>1. CASE Say BY <2>1 DEF Say, RelayTyped, HostTyped
  <2>2. CASE Finish BY <2>2 DEF Finish, AnswerInv, Waiting
  <2> QED BY <2>1, <2>2
<1>6. /\ \A e \in Frames(replay') : e \in Frames(replay) \/ e.k = "event"
      /\ \A r \in Requests : Unique(replay, {AskOf(r)}) => Unique(replay', {AskOf(r)})
  <2>1. CASE UNCHANGED replay BY <2>1
  <2>2. ASSUME NEW e, e.k = "event", replay' = Append(replay, e)
        PROVE  /\ \A g \in Frames(replay') : g \in Frames(replay) \/ g.k = "event"
               /\ \A r \in Requests : Unique(replay, {AskOf(r)}) => Unique(replay', {AskOf(r)})
    <3>1. \A r \in Requests : e \notin {AskOf(r)} BY <2>2, Distinguished
    <3> QED BY <2>2, <3>1, Numbers, FramesOfAppend, UniqueLater
  <2> QED BY <2>1, <2>2 DEF Say, Finish
<1> QED BY <1>2, <1>3, <1>4, <1>5, <1>6, LessAnswered

\* A step of the connection or of the controller that is not about a request.
LEMMA AsideAnswered ==
  ASSUME RelayTyped, AnswerInv, RelayTyped', HostFewer, CtlFewer,
         UNCHANGED <<asked, asks, got, cmds, replay, prov>>, db'.decided = db.decided,
         \/ /\ ctl'.coming = ctl.coming /\ ctl'.open = ctl.open /\ ctl'.ask = ctl.ask
            /\ ctl'.dec = ctl.dec /\ ctl'.accepted = ctl.accepted
            /\ ctl'.at # "on" => ctl.at # "on"
            /\ ctl'.at # "off" => ctl.at # "off"
            /\ \A e \in Frames(ctl'.queue) : e \in Frames(ctl.queue) \/ Carries(e)
         \/ ctl' = NoCtl /\ toCtl' = <<>>
  PROVE  AnswerInv'
<1>1. prov'.turn = 0 => asks = {} BY DEF AnswerInv, Waiting
<1> QED BY <1>1, LessAnswered

LEMMA ConnectsAnswered ==
  ASSUME RelayTyped, AnswerInv, RelayTyped', ~LossyClose, RelayInv,
         HostDetaches \/ Activate \/ Detach \/ UNCHANGED relayVars
  PROVE  AnswerInv'
<1>0. UNCHANGED <<asked, asks, got, cmds, replay, prov, db>>
  BY DEF HostDetaches, Activate, Detach, ByCtl, provider, host, relayVars
<1>1. CASE HostDetaches
  <2>1. toHost' = <<>> /\ UNCHANGED <<toCtl, ctl>>
    <3>1. UNCHANGED <<toCtl, ctl>> BY <1>1 DEF HostDetaches
    <3>2. PICK n \in 0..Len(toHost) :
            /\ n = Len(toHost) /\ \A i \in 1..n : toHost[i].gen # gen
            /\ toHost' = SubSeq(toHost, 1, n)
      BY <1>1 DEF HostDetaches
    <3>3. \A i \in DOMAIN toHost : toHost[i].gen = gen BY DEF RelayInv, Connected, Frames
    <3>4. toHost \in Seq(HostFrames) /\ Len(toHost) \in Nat /\ DOMAIN toHost = 1..Len(toHost)
      BY Numbers
    <3>5. Len(toHost) = 0
      <4>1. ~(1 \in 1..Len(toHost)) BY <3>2, <3>3, <3>4
      <4> QED BY <3>4, <4>1
    <3>6. toHost = <<>> BY <3>4, <3>5
    <3>7. toHost' = <<>> BY <3>2, <3>4, <3>6
    <3> QED BY <3>1, <3>7
  <2> QED BY <1>0, <2>1, HostCarriesLess, CtlCarriesLess, AsideAnswered
<1>2. CASE Detach
  <2>1. UNCHANGED toHost /\ ctl' = NoCtl /\ toCtl' = <<>> BY <1>2 DEF Detach
  <2> QED BY <1>0, <2>1, HostCarriesLess, CtlCarriesLess, AsideAnswered
<1>3. CASE Activate
  <2>1. \/ UNCHANGED toHost /\ ctl' = NoCtl /\ toCtl' = <<>>
        \/ /\ UNCHANGED toCtl
           /\ ctl' = [ctl EXCEPT !.at = "on", !.ignore = TRUE, !.term = ctl.pend]
           /\ toHost' = Append(toHost, [gen |-> ctl.gen, k |-> "ack", ev |-> ctl.pend])
        \/ UNCHANGED <<toHost, toCtl>> /\ ctl' = [ctl EXCEPT !.at = "on", !.turn = db.turn]
    BY <1>3 DEF Activate, Send
  <2>2. CASE UNCHANGED toHost /\ ctl' = NoCtl /\ toCtl' = <<>>
    BY <1>0, <2>2, HostCarriesLess, CtlCarriesLess, AsideAnswered
  <2>3. CASE ~(UNCHANGED toHost /\ ctl' = NoCtl /\ toCtl' = <<>>)
    <3>1. /\ ctl'.coming = ctl.coming /\ ctl'.open = ctl.open /\ ctl'.ask = ctl.ask
          /\ ctl'.dec = ctl.dec /\ ctl'.accepted = ctl.accepted /\ ctl'.at = "on"
          /\ ctl.at = "gate" /\ ctl'.queue = ctl.queue
      BY <1>3, <2>1, <2>3, Numbers DEF Ctls, Activate
    <3>2. UNCHANGED toCtl BY <2>1, <2>3
    <3>3. UNCHANGED toHost \/ \E f : f.k \in {"prompt", "ack"} /\ toHost' = Append(toHost, f)
      BY <2>1, <2>3
    <3>4. HostFewer BY <3>3, HostCarriesLess
    <3>5. CtlFewer BY <3>2, CtlCarriesLess
    <3> QED BY <1>0, <3>1, <3>4, <3>5, AsideAnswered
  <2> QED BY <2>2, <2>3
<1>4. CASE UNCHANGED relayVars
  <2>1. UNCHANGED <<toHost, toCtl, ctl>> BY <1>4 DEF relayVars
  <2> QED BY <1>0, <2>1, HostCarriesLess, CtlCarriesLess, AsideAnswered
<1> QED BY <1>1, <1>2, <1>3, <1>4

LEMMA WorksAnswered ==
  ASSUME RelayTyped, AnswerInv, RelayTyped', Acknowledge \/ Bind \/ StartTurn
  PROVE  AnswerInv'
<1>0. UNCHANGED <<asked, asks, got, cmds, replay, prov, toCtl>>
  BY DEF Acknowledge, Bind, StartTurn, ByCtl, provider
<1>1. db'.decided = db.decided BY Numbers DEF Dbs, Acknowledge, Bind, StartTurn
<1>2. CtlFewer BY <1>0, CtlCarriesLess
<1>3. UNCHANGED toHost \/ \E f : f.k \in {"prompt", "ack"} /\ toHost' = Append(toHost, f)
  BY DEF Acknowledge, Bind, StartTurn, Send
<1>4. HostFewer BY <1>3, HostCarriesLess
<1>5. /\ ctl'.coming = ctl.coming /\ ctl'.open = ctl.open /\ ctl'.ask = ctl.ask
      /\ ctl'.dec = ctl.dec /\ ctl'.accepted = ctl.accepted /\ ctl'.at = ctl.at
      /\ ctl'.queue = ctl.queue
  BY Numbers DEF Ctls, Acknowledge, Bind, StartTurn
<1> QED BY <1>0, <1>1, <1>2, <1>4, <1>5, AsideAnswered

LEMMA EventsAnswered ==
  ASSUME RelayTyped, AnswerInv, RelayTyped', CtlReads,
         ReadEvent(Head(toCtl)) \/ ReadEnd(Head(toCtl))
  PROVE  AnswerInv'
<1> DEFINE f == Head(toCtl)
<1>0. UNCHANGED <<asked, asks, got, cmds, replay, prov, toHost, db>>
      /\ toCtl # <<>> /\ toCtl' = Tail(toCtl)
  BY DEF CtlReads, ReadEvent, ReadEnd, ByCtl, provider
<1>1. HostFewer /\ CtlFewer BY <1>0, HostCarriesLess, CtlCarriesLess
<1>2. \/ ctl' = [ctl EXCEPT !.ignore = FALSE]
      \/ \E e : Carries(e) /\ ctl' = [ctl EXCEPT !.queue = Append(@, e)]
      \/ \E e, n :
           /\ Carries(e)
           /\ ctl' = [[ctl EXCEPT !.queue = Append(@, e)] EXCEPT !.term = n, !.turn = 0]
  <2>1. CASE ReadEvent(f)
    <3> DEFINE e == [k |-> "event", ev |-> f.ev, turn |-> ctl.turn]
    <3>1. ctl' = [ctl EXCEPT !.queue = Append(@, e)] BY <2>1 DEF ReadEvent, Emit
    <3>2. Carries(e) BY DEF Carries
    <3> HIDE DEF e
    <3> QED BY <3>1, <3>2
  <2>2. CASE ReadEnd(f)
    <3> DEFINE e == [k |-> "end", ev |-> f.ev, turn |-> ctl.turn]
    <3>1. \/ ctl' = [ctl EXCEPT !.ignore = FALSE]
          \/ ctl' = [[ctl EXCEPT !.queue = Append(@, e)] EXCEPT !.term = f.ev, !.turn = 0]
      BY <2>2 DEF ReadEnd, Emit
    <3>2. Carries(e) BY DEF Carries
    <3> HIDE DEF e
    <3> QED BY <3>1, <3>2
  <2> QED BY <2>1, <2>2
<1>3. /\ ctl'.coming = ctl.coming /\ ctl'.open = ctl.open /\ ctl'.ask = ctl.ask
      /\ ctl'.dec = ctl.dec /\ ctl'.accepted = ctl.accepted /\ ctl'.at = ctl.at
      /\ ctl'.queue = ctl.queue \/ \E e : Carries(e) /\ ctl'.queue = Append(ctl.queue, e)
  BY <1>2, Numbers DEF Ctls
<1>4. \A e \in Frames(ctl'.queue) : e \in Frames(ctl.queue) \/ Carries(e)
  <2>1. CASE ctl'.queue = ctl.queue BY <2>1
  <2>2. ASSUME NEW e, Carries(e), ctl'.queue = Append(ctl.queue, e)
        PROVE  \A g \in Frames(ctl'.queue) : g \in Frames(ctl.queue) \/ Carries(g)
    <3>1. Frames(ctl'.queue) = Frames(ctl.queue) \cup {e} BY <2>2, Numbers, FramesOfAppend
    <3> QED BY <2>2, <3>1
  <2> QED BY <1>3, <2>1, <2>2
<1> QED BY <1>0, <1>1, <1>3, <1>4, AsideAnswered

\* A decision is recorded while its request waits and nothing is recorded of it.
LEMMA DecisionAnswered ==
  ASSUME RelayTyped, RelayInv, AnswerInv, HostReads, HearDecision(Head(toHost))
  PROVE  AnswerInv'
<1> DEFINE f == Head(toHost)
           g == [k |-> IF Records(f) \/ cmds[f.r] = f.dec THEN "ok" ELSE "bad", r |-> f.r]
           e == [k |-> "cmd", r |-> f.r]
<1> USE DEF AnswerInv
<1>0. /\ toHost # <<>> /\ toHost' = Tail(toHost) /\ f.k = "cmd"
      /\ UNCHANGED <<gen, att, asked, ctl, db, asks, got, prov>>
      /\ Reply(f.gen, g)
      /\ IF Records(f) THEN cmds' = [cmds EXCEPT ![f.r] = f.dec] /\ replay' = Append(replay, e)
                       ELSE UNCHANGED <<cmds, replay>>
  BY Reading DEF HearDecision
<1>1. /\ Frames(toHost) = Frames(toHost') \cup {f}
      /\ Unique(toHost, CmdFrames) => Unique(toHost', CmdFrames)
      /\ \A r \in Requests : Unique(toHost, AnswerFrames(r)) => Unique(toHost', AnswerFrames(r))
      /\ Unique(toHost, CmdFrames) /\ f \in CmdFrames =>
           \A h \in Frames(toHost') : h \notin CmdFrames
  BY <1>0, Numbers, FramesOfTail, UniqueSooner
<1>2. f \in CmdFrames /\ f.r \in Requests /\ f.dec \in Decisions
  <2>1. f \in HostFrames /\ f \in Frames(toHost) BY <1>1, Numbers
  <2> QED BY <1>0, <2>1, ReadFields DEF CmdFrames, IsDecision
<1>3. /\ g.k \in {"ok", "bad"} /\ g.r = f.r /\ g \in ReplyFrames
      /\ g.k = "ok" => Records(f) \/ cmds[f.r] = f.dec
  BY <1>2, Made DEF ReplyFrames
<1>4. e.k = "cmd" /\ e.r = f.r OBVIOUS
<1>5. \/ UNCHANGED toCtl
      \/ /\ toCtl' = Append(toCtl, g) /\ ctl.at # "off" /\ ctl.ask = f.r /\ ctl.dec = f.dec
         /\ \A h \in Frames(toCtl) : h \notin ReplyFrames
  BY <1>0, <1>1, <1>2 DEF Reply, Heard, Deciding
<1>6. \A h \in Frames(toHost') : h \in Frames(toHost) /\ h \notin CmdFrames
  BY <1>1, <1>2 DEF Deciding
<1>7. \A r \in Requests : Answering(r)' => Answering(r) BY <1>6 DEF Answering
<1>8. cmds \in [Requests -> Answers] BY DEF RelayTyped, HostTyped
<1> HIDE DEF f, g, e
<1>9. /\ \A h \in Frames(toCtl') :
           h \in Frames(toCtl) \/ (h = g /\ ctl.ask = f.r /\ ctl.dec = f.dec)
      /\ \A r \in Requests : TellsOf(r) # g
      /\ Unique(toCtl', ReplyFrames)
      /\ \A r \in Requests : Unique(toCtl', {TellsOf(r)})
  <2>1. \A r \in Requests : TellsOf(r) # g BY <1>3, Distinguished
  <2>2. CASE UNCHANGED toCtl BY <2>1, <2>2 DEF Deciding, Placed
  <2>3. CASE ~UNCHANGED toCtl
    <3>1. toCtl' = Append(toCtl, g) /\ ctl.ask = f.r /\ ctl.dec = f.dec
          /\ \A h \in Frames(toCtl) : h \notin ReplyFrames
      BY <1>5, <2>3
    <3>2. Frames(toCtl') = Frames(toCtl) \cup {g} BY <3>1, Numbers, FramesOfAppend
    <3>3. Unique(toCtl', ReplyFrames) BY <3>1, Numbers, UniqueLater DEF Deciding
    <3>4. \A r \in Requests : g \notin {TellsOf(r)} BY <2>1
    <3>5. \A r \in Requests : Unique(toCtl', {TellsOf(r)})
      BY <3>1, <3>4, Numbers, UniqueLater DEF Placed
    <3> QED BY <2>1, <3>1, <3>2, <3>3, <3>5
  <2> QED BY <2>2, <2>3
<1>11. Waiting' BY <1>0 DEF Waiting
<1>12. Noted'
  <2>1. CASE Records(f)
    <3>1. cmds' = [cmds EXCEPT ![f.r] = f.dec] /\ replay' = Append(replay, e) BY <1>0, <2>1
    <3>2. Frames(replay') = Frames(replay) \cup {e} BY <3>1, Numbers, FramesOfAppend
    <3>3. \A r \in Requests : e \notin {AskOf(r)} /\ AskOf(r) # e BY <1>4, Distinguished
    <3>4. \A r \in Requests : Unique(replay', {AskOf(r)})
      BY <3>1, <3>3, Numbers, UniqueLater DEF Noted
    <3>5. cmds'[f.r] # Nil /\ \A r \in Requests : r # f.r => cmds'[r] = cmds[r]
      BY <1>2, <1>8, <3>1, Distinguished
    <3>6. \A r \in Requests : [k |-> "cmd", r |-> r] = e => r = f.r BY <1>4
    <3> QED BY <1>0, <3>2, <3>3, <3>4, <3>5, <3>6 DEF Noted
  <2>2. CASE ~Records(f) BY <1>0, <2>2 DEF Noted
  <2> QED BY <2>1, <2>2
<1>13. Placed' BY <1>0, <1>1, <1>7, <1>9 DEF Placed
<1>14. Deciding' BY <1>0, <1>1, <1>3, <1>6, <1>9 DEF Deciding
<1>15. Agreed'
  <2>1. ASSUME NEW r \in Requests, NEW d \in Decisions, Utters(r, d)'
        PROVE  Utters(r, d) \/ (r = f.r /\ d = f.dec /\ Records(f))
    <3>1. cmds'[r] = cmds[r] \/ (r = f.r /\ cmds'[r] = f.dec /\ Records(f))
      BY <1>0, <1>2, <1>8
    <3>2. cmds[r] = d => Utters(r, d) BY DEF Utters
    <3>3. ASSUME ctl.dec = d, NEW h \in Frames(toCtl'), h.k = "ok", h.r = r
          PROVE  Utters(r, d) \/ (r = f.r /\ d = f.dec /\ Records(f))
      <4>1. CASE h \in Frames(toCtl) BY <3>3, <4>1 DEF Utters
      <4>2. CASE h = g /\ ctl.dec = f.dec BY <1>3, <3>2, <3>3, <4>2
      <4> QED BY <1>9, <4>1, <4>2
    <3>4. \A h \in Frames(toCtl') : h.k = "cmd" => h \in Frames(toCtl) BY <1>3, <1>9
    <3> QED BY <1>0, <1>6, <2>1, <3>1, <3>2, <3>3, <3>4 DEF Utters
  <2>2. CASE Records(f)
    <3>1. f.r \in asks /\ f.r \in asked /\ cmds[f.r] = Nil BY <2>2 DEF Records, Waiting
    <3>2. \A d \in Decisions : ~Utters(f.r, d) BY <1>2, <3>1, Distinguished DEF Agreed
    <3>3. /\ cmds'[f.r] = f.dec /\ \A r \in Requests : r # f.r => cmds'[r] = cmds[r]
      BY <1>0, <1>2, <1>8, <2>2
    <3>4. ASSUME NEW r \in Requests, r = f.r, NEW d \in Decisions, Utters(r, d)' PROVE d = f.dec
      BY <1>2, <2>1, <3>2, <3>4
    <3>5. ASSUME NEW r \in Requests, r # f.r, NEW d \in Decisions, Utters(r, d)' PROVE Utters(r, d)
      BY <2>1, <3>5
    <3>6. ASSUME NEW r \in Requests, NEW d \in Decisions, Utters(r, d)'
          PROVE  /\ r \in asked'
                 /\ r \in asks' => cmds'[r] = d
                 /\ \A x \in Decisions : Utters(r, x)' => d = x
      <4>1. CASE r = f.r BY <1>0, <3>1, <3>3, <3>4, <3>6, <4>1
      <4>2. CASE r # f.r BY <1>0, <3>3, <3>5, <3>6, <4>2 DEF Agreed
      <4> QED BY <4>1, <4>2
    <3> QED BY <3>6 DEF Agreed
  <2>3. CASE ~Records(f)
    <3>1. UNCHANGED cmds BY <1>0, <2>3
    <3>2. \A r \in Requests, d \in Decisions : Utters(r, d)' => Utters(r, d) BY <2>1, <2>3
    <3> QED BY <1>0, <3>1, <3>2, AgreedKept
  <2> QED BY <2>2, <2>3
<1>16. IsDecision' BY <1>0, <1>3, <1>6, <1>9 DEF IsDecision
<1> QED BY <1>11, <1>12, <1>13, <1>14, <1>15, <1>16

\* The answer comes while its request waits, and nothing else of it is on its way.
LEMMA AnswerAnswered ==
  ASSUME RelayTyped, RelayInv, AnswerInv, HostReads, HearAnswer(Head(toHost))
  PROVE  AnswerInv'
<1> DEFINE f == Head(toHost)
<1> USE DEF AnswerInv
<1>0. /\ toHost # <<>> /\ toHost' = Tail(toHost) /\ f.k = "answer"
      /\ UNCHANGED <<gen, att, asked, ctl, db, cmds, replay, prov, toCtl>>
      /\ asks' = asks \ {f.r} /\ got' = [got EXCEPT ![f.r] = Append(@, f.dec)]
  BY Reading DEF HearAnswer, Unanswered
<1>1. /\ Frames(toHost) = Frames(toHost') \cup {f}
      /\ Unique(toHost, CmdFrames) => Unique(toHost', CmdFrames)
      /\ \A r \in Requests :
           /\ Unique(toHost, AnswerFrames(r)) => Unique(toHost', AnswerFrames(r))
           /\ Unique(toHost, AnswerFrames(r)) /\ f \in AnswerFrames(r) =>
                \A h \in Frames(toHost') : h \notin AnswerFrames(r)
  BY <1>0, Numbers, FramesOfTail, UniqueSooner
<1>2. f.r \in Requests /\ f \in AnswerFrames(f.r) /\ f.dec \in Decisions
  <2>1. f \in HostFrames /\ f \in Frames(toHost) BY <1>1, Numbers
  <2> QED BY <1>0, <2>1, ReadFields DEF AnswerFrames, IsDecision
<1>3. got \in [Requests -> Seq(Answers)] BY DEF RelayTyped, HostTyped
<1> HIDE DEF f
<1>4. Answering(f.r) /\ f.r \in asks /\ f.r \in asked /\ got[f.r] = <<>>
  BY <1>1, <1>2 DEF Answering, Placed, Waiting
<1>5. \A r \in Requests : Answering(r)' => Answering(r) /\ r # f.r
  BY <1>1, <1>2 DEF Placed, Answering
<1>6. /\ got'[f.r] = <<f.dec>> /\ Len(got'[f.r]) = 1 /\ got'[f.r] # <<>>
      /\ Frames(got'[f.r]) = {f.dec}
      /\ \A r \in Requests : r # f.r => got'[r] = got[r]
  <2>1. got'[f.r] = Append(got[f.r], f.dec) /\ \A r \in Requests : r # f.r => got'[r] = got[r]
    BY <1>0, <1>2, <1>3
  <2>2. got'[f.r] = <<f.dec>> BY <1>4, <2>1
  <2>3. DOMAIN got'[f.r] = {1} /\ got'[f.r][1] = f.dec BY <2>2
  <2>4. Frames(got'[f.r]) = {f.dec} BY <2>3 DEF Frames
  <2> QED BY <2>1, <2>2, <2>4
<1>11. Waiting' BY <1>0, <1>2, <1>4, <1>6 DEF Waiting
<1>12. Noted' BY <1>0 DEF Noted
<1>13. Placed'
  <2>1. /\ TellsOf(f.r) \notin Frames(toCtl) /\ f.r \notin ctl.coming /\ f.r \notin ctl.open
        /\ f.r # ctl.ask
    BY <1>2, <1>4 DEF Placed
  <2> QED BY <1>0, <1>1, <1>5, <2>1 DEF Placed
<1>14. Deciding' BY <1>0, <1>1 DEF Deciding
<1>15. Agreed'
  <2>1. ASSUME NEW r \in Requests, NEW d \in Decisions, Utters(r, d)' PROVE Utters(r, d)
    <3>1. d \in Frames(got'[r]) => d \in Frames(got[r]) \/ (r = f.r /\ d = f.dec)
      BY <1>6
    <3> QED BY <1>0, <1>1, <2>1, <3>1 DEF Utters
  <2>2. \A r \in Requests : r \in asks' => r \in asks /\ cmds'[r] = cmds[r] BY <1>0
  <2> QED BY <1>0, <2>1, <2>2, AgreedKept
<1>16. IsDecision' BY <1>0, <1>1, <1>2, <1>6 DEF IsDecision
<1> QED BY <1>11, <1>12, <1>13, <1>14, <1>15, <1>16

LEMMA AskAnswered ==
  ASSUME RelayTyped, AnswerInv, NEW q \in Requests, Ask(q)
  PROVE  AnswerInv'
<1> USE DEF AnswerInv
<1>0. /\ UNCHANGED <<gen, att, cmds, toHost, got, ctl, db, prov>> /\ prov.turn # 0
      /\ q \notin asked /\ asked' = asked \cup {q} /\ asks' = asks \cup {q}
      /\ replay' = Append(replay, AskOf(q)) /\ Tell(TellsOf(q))
  BY DEF Ask, ByProvider, AskOf, TellsOf
<1>1. q \notin asks /\ got[q] = <<>> BY <1>0 DEF Waiting
<1>2. \A r \in Requests : /\ AskOf(r) = AskOf(q) => r = q
                          /\ TellsOf(r) = TellsOf(q) => r = q
                          /\ [k |-> "cmd", r |-> r] # AskOf(q)
  <2>1. \A r \in Requests : AskOf(r).r = r /\ TellsOf(r).r = r BY DEF AskOf, TellsOf
  <2>2. \A r \in Requests : [k |-> "cmd", r |-> r] # AskOf(q) BY DEF AskOf
  <2> QED BY <2>1, <2>2
<1>3. /\ ~Carries(TellsOf(q)) /\ TellsOf(q).k = "ask" /\ TellsOf(q) \notin ReplyFrames
  BY Distinguished DEF Carries, ReplyFrames
<1>4. /\ \A f \in Frames(toCtl') : f \in Frames(toCtl) \/ f = TellsOf(q)
      /\ Unique(toCtl', ReplyFrames)
      /\ \A r \in Requests : Unique(toCtl', {TellsOf(r)})
  <2>1. CASE UNCHANGED toCtl BY <2>1 DEF Placed, Deciding
  <2>2. CASE toCtl' = Append(toCtl, TellsOf(q))
    <3>1. Frames(toCtl') = Frames(toCtl) \cup {TellsOf(q)} BY <2>2, Numbers, FramesOfAppend
    <3>2. Unique(toCtl', ReplyFrames) BY <1>3, <2>2, Numbers, UniqueLater DEF Deciding
    <3>3. TellsOf(q) \notin Frames(toCtl) BY <1>1 DEF Placed
    <3>4. ASSUME NEW r \in Requests PROVE Unique(toCtl', {TellsOf(r)})
      <4>1. TellsOf(q) \notin {TellsOf(r)} \/ \A g \in Frames(toCtl) : g \notin {TellsOf(r)}
        BY <1>2, <3>3
      <4>2. Unique(toCtl, {TellsOf(r)}) BY DEF Placed
      <4> QED BY <2>2, <4>1, <4>2, Numbers, UniqueLater
    <3> QED BY <3>1, <3>2, <3>4
  <2> QED BY <1>0, <2>1, <2>2 DEF Tell
<1>5. /\ \A e \in Frames(replay') : e \in Frames(replay) \/ e = AskOf(q)
      /\ \A r \in Requests : Unique(replay', {AskOf(r)})
  <2>1. Frames(replay') = Frames(replay) \cup {AskOf(q)} BY <1>0, Numbers, FramesOfAppend
  <2>2. AskOf(q) \notin Frames(replay) BY <1>0 DEF Noted
  <2>3. ASSUME NEW r \in Requests PROVE Unique(replay', {AskOf(r)})
    <3>1. AskOf(q) \notin {AskOf(r)} \/ \A g \in Frames(replay) : g \notin {AskOf(r)}
      BY <1>2, <2>2
    <3>2. Unique(replay, {AskOf(r)}) BY DEF Noted
    <3> QED BY <1>0, <3>1, <3>2, Numbers, UniqueLater
  <2> QED BY <2>1, <2>3
<1>6. \A r \in Requests : Answering(r)' <=> Answering(r) BY <1>0 DEF Answering
<1>11. Waiting' BY <1>0, <1>1 DEF Waiting
<1>12. Noted' BY <1>0, <1>2, <1>5 DEF Noted
<1>13. Placed'
  <2>1. q \notin ctl.coming /\ q \notin ctl.open /\ q # ctl.ask /\ ~Answering(q)
    BY <1>1 DEF Placed
  <2>2. \A r \in Requests : TellsOf(r) \in Frames(toCtl') => TellsOf(r) \in Frames(toCtl) \/ r = q
    BY <1>2, <1>4
  <2> QED BY <1>0, <1>4, <1>6, <2>1, <2>2 DEF Placed
<1>14. Deciding' BY <1>0, <1>3, <1>4 DEF Deciding
<1>15. Agreed'
  <2>1. \A r \in Requests, d \in Decisions : Utters(r, d)' => Utters(r, d)
    BY <1>0, <1>3, <1>4 DEF Utters
  <2>2. \A r \in Requests : r \in asks' => r \in asks \/ r \notin asked BY <1>0
  <2> QED BY <1>0, <2>1, <2>2, AgreedKept
<1>16. IsDecision' BY <1>0, <1>3, <1>4 DEF IsDecision
<1> QED BY <1>11, <1>12, <1>13, <1>14, <1>15, <1>16

\* What a connection is told of the requests: those that wait, and what is recorded.
LEMMA RequestsToldAgain ==
  ASSUME RelayTyped
  PROVE  /\ \A f \in Frames(Replay) :
              /\ f \notin ReplyFrames /\ f.k # "ok"
              /\ f.k = "cmd" => /\ f.r \in Requests /\ f.dec = cmds[f.r]
                                /\ [k |-> "cmd", r |-> f.r] \in Frames(replay)
         /\ \A r \in Requests :
              /\ TellsOf(r) \in Frames(Replay) => r \in asks
              /\ Unique(replay, {AskOf(r)}) => Unique(Replay, {TellsOf(r)})
<1>1. replay \in Seq(Entries) /\ Journal \in Seq(CtlFrames) BY Numbers, JournalTyped
<1>2. /\ DOMAIN Journal = DOMAIN replay /\ \A i \in DOMAIN replay : Journal[i] = Again(replay[i])
  BY DEF Journal
<1>3. \A i \in DOMAIN replay : replay[i] \in Entries BY <1>1
<1>4. ASSUME NEW e \in Entries
      PROVE  /\ Again(e).k \in {"event", "ask", "cmd"}
             /\ Again(e).k = "cmd" => /\ e = [k |-> "cmd", r |-> e.r] /\ Again(e).r = e.r
                                      /\ e.r \in Requests /\ Again(e).dec = cmds[e.r]
             /\ \A r \in Requests : Again(e) = TellsOf(r) => e = AskOf(r) /\ r \in asks
  <2>1. CASE e.k = "event"
    <3>1. Again(e) = e BY <2>1 DEF Again
    <3> QED BY <2>1, <3>1, Distinguished
  <2>2. CASE e.k = "ask"
    <3>1. Again(e) = [k |-> "ask", r |-> e.r, waits |-> e.r \in asks] BY <2>2 DEF Again
    <3>2. e = AskOf(e.r) BY <2>2 DEF Entries, AskOf
    <3>3. ASSUME NEW r \in Requests, Again(e) = TellsOf(r) PROVE r = e.r /\ r \in asks
      <4>1. Again(e).r = TellsOf(r).r /\ Again(e).waits = TellsOf(r).waits BY <3>3
      <4>2. TellsOf(r).r = r /\ TellsOf(r).waits = TRUE BY DEF TellsOf
      <4>3. Again(e).r = e.r /\ Again(e).waits = (e.r \in asks) BY <3>1
      <4> QED BY <4>1, <4>2, <4>3
    <3> QED BY <3>1, <3>2, <3>3
  <2>3. CASE e.k = "cmd"
    <3>1. Again(e) = [k |-> "cmd", r |-> e.r, dec |-> cmds[e.r], waits |-> e.r \in asks]
      BY <2>3 DEF Again
    <3>2. e.r \in Requests /\ e = [k |-> "cmd", r |-> e.r] BY <2>3 DEF Entries
    <3>3. \A r \in Requests : Again(e) # TellsOf(r)
      <4>1. Again(e).k = "cmd" BY <3>1
      <4> QED BY <4>1, Distinguished
    <3> QED BY <3>1, <3>2, <3>3
  <2> QED BY <2>1, <2>2, <2>3 DEF Entries
<1>5. /\ \A f \in Frames(Replay) : f \in Frames(Journal) \/ f.k = "end"
      /\ \A r \in Requests : Unique(Journal, {TellsOf(r)}) => Unique(Replay, {TellsOf(r)})
  <2>1. CASE result = 0
    <3>1. Replay = Journal BY <1>1, <2>1 DEF Replay, EndAgain
    <3> QED BY <3>1
  <2>2. CASE result # 0
    <3> DEFINE f == [k |-> "end", ev |-> result, direct |-> FALSE]
    <3>1. Replay = Append(Journal, f) BY <1>1, <2>2 DEF Replay, EndAgain
    <3>2. f.k = "end" /\ \A r \in Requests : f \notin {TellsOf(r)} BY Distinguished
    <3> HIDE DEF f
    <3>3. Frames(Replay) = Frames(Journal) \cup {f} BY <1>1, <3>1, FramesOfAppend
    <3>4. \A r \in Requests : Unique(Journal, {TellsOf(r)}) => Unique(Replay, {TellsOf(r)})
      BY <1>1, <3>1, <3>2, UniqueLater
    <3> QED BY <3>2, <3>3, <3>4
  <2> QED BY <2>1, <2>2
<1>6. ASSUME NEW f \in Frames(Journal)
      PROVE  /\ f.k \in {"event", "ask", "cmd"}
             /\ f.k = "cmd" => /\ f.r \in Requests /\ f.dec = cmds[f.r]
                               /\ [k |-> "cmd", r |-> f.r] \in Frames(replay)
             /\ \A r \in Requests : f = TellsOf(r) => r \in asks
  <2>1. PICK i \in DOMAIN replay : f = Again(replay[i]) BY <1>2 DEF Frames
  <2>2. replay[i] \in Entries /\ replay[i] \in Frames(replay) BY <1>3 DEF Frames
  <2> QED BY <1>4, <2>1, <2>2
<1>7. ASSUME NEW r \in Requests, Unique(replay, {AskOf(r)}) PROVE Unique(Journal, {TellsOf(r)})
  <2>1. \A i \in DOMAIN Journal :
          Journal[i] \in {TellsOf(r)} => i \in DOMAIN replay /\ replay[i] \in {AskOf(r)}
    BY <1>2, <1>3, <1>4
  <2> QED BY <1>7, <2>1 DEF Unique
<1>8. \A f \in Frames(Replay) : f \notin ReplyFrames /\ f.k # "ok" BY <1>5, <1>6 DEF ReplyFrames
<1>9. \A r \in Requests : TellsOf(r) \in Frames(Replay) => r \in asks
  BY <1>5, <1>6, Distinguished
<1> QED BY <1>5, <1>6, <1>7, <1>8, <1>9

LEMMA GreetAnswered ==
  ASSUME RelayTyped, RelayInv, AnswerInv, Greet
  PROVE  AnswerInv'
<1> USE DEF AnswerInv
<1>0. /\ UNCHANGED <<asked, asks, got, cmds, replay, prov, db, toHost>>
      /\ toCtl' = Replay /\ toHost = <<>> /\ ctl'.at = "gate"
      /\ ctl'.coming = {} /\ ctl'.open = {} /\ ctl'.ask = Nil /\ ctl'.dec = Nil
      /\ ctl'.accepted = [r \in Requests |-> Nil] /\ ctl'.queue = <<>>
  BY DEF Greet, ByCtl, provider, RelayInv, Connected, NoCtl
<1>1. Frames(toHost') = {} /\ Frames(ctl'.queue) = {} /\ Unique(toHost', CmdFrames)
      /\ \A r \in Requests : Unique(toHost', AnswerFrames(r))
  BY <1>0, Nothing, UniqueNone
<1>2. \A r \in Requests : ~Answering(r)' BY <1>1 DEF Answering
<1>3. \A f \in Frames(toCtl') :
        /\ f \notin ReplyFrames /\ f.k # "ok"
        /\ f.k = "cmd" => f.r \in Requests /\ f.dec = cmds[f.r] /\ cmds[f.r] # Nil
  BY <1>0, RequestsToldAgain DEF Noted
<1>4. \A r \in Requests : /\ TellsOf(r) \in Frames(toCtl') => r \in asks
                          /\ Unique(toCtl', {TellsOf(r)})
  BY <1>0, RequestsToldAgain DEF Noted
<1>5. \A r \in Requests : cmds[r] \in Decisions \cup {Nil} BY DEF RelayTyped, HostTyped, Answers
<1>11. Waiting' BY <1>0 DEF Waiting
<1>12. Noted' BY <1>0 DEF Noted
<1>13. Placed' BY <1>0, <1>1, <1>2, <1>4, Distinguished DEF Placed
<1>14. Deciding'
  <2>1. Unique(toCtl', ReplyFrames)
    <3>1. \A i \in DOMAIN toCtl' : toCtl'[i] \notin ReplyFrames BY <1>3 DEF Frames
    <3> QED BY <3>1 DEF Unique
  <2> QED BY <1>0, <1>1, <1>3, <2>1 DEF Deciding
<1>15. Agreed'
  <2>1. \A r \in Requests, d \in Decisions : Utters(r, d)' => Utters(r, d)
    BY <1>0, <1>1, <1>3, Distinguished DEF Utters
  <2>2. \A r \in Requests : r \in asks' => r \in asks /\ cmds'[r] = cmds[r] BY <1>0
  <2> QED BY <1>0, <2>1, <2>2, AgreedKept
<1>16. IsDecision' BY <1>0, <1>1, <1>3, <1>5 DEF IsDecision
<1> QED BY <1>11, <1>12, <1>13, <1>14, <1>15, <1>16

-----------------------------------------------------------------------------
(* What the controller does with a request.                                 *)

\* Nothing of it changes at the host.
LEMMA CtlAnswered ==
  ASSUME AnswerInv, UNCHANGED <<asked, asks, got, cmds, replay, prov>>,
         Placed', Deciding', IsDecision',
         \A r \in Requests, d \in Decisions : Utters(r, d)' => Utters(r, d)
  PROVE  AnswerInv'
<1>1. Waiting' BY DEF AnswerInv, Waiting
<1>2. Noted' BY DEF AnswerInv, Noted
<1>3. Agreed' BY AgreedKept
<1> QED BY <1>1, <1>2, <1>3 DEF AnswerInv

\* The answer to a request is sent, and its decision is put to be published.
LEMMA AnswerSent ==
  ASSUME RelayTyped, AnswerInv, NEW q \in Requests, NEW d \in Decisions,
         toHost' = Append(toHost, [gen |-> ctl.gen, k |-> "answer", r |-> q, dec |-> d]),
         q \in asks, ~Answering(q)
  PROVE  /\ \A r \in Requests : /\ Answering(r)' <=> Answering(r) \/ r = q
                                /\ Unique(toHost', AnswerFrames(r))
         /\ Unique(toHost', CmdFrames)
         /\ \A f \in Frames(toHost') :
              \/ f \in Frames(toHost)
              \/ f.k = "answer" /\ f.r = q /\ f.dec = d /\ f \notin CmdFrames
<1> DEFINE f == [gen |-> ctl.gen, k |-> "answer", r |-> q, dec |-> d]
<1>1. f \in HostFrames
  <2>1. d \in Answers /\ ctl.gen \in Nat BY Numbers DEF Answers, Ctls
  <2> QED BY <2>1, Made
<1>2. f.k = "answer" /\ f.r = q /\ f.dec = d OBVIOUS
<1> HIDE DEF f
<1>3. f \notin CmdFrames /\ \A r \in Requests : f \in AnswerFrames(r) <=> r = q
  BY <1>1, <1>2 DEF CmdFrames, AnswerFrames
<1>4. toHost' = Append(toHost, f) BY DEF f
<1>5. Frames(toHost') = Frames(toHost) \cup {f} BY <1>4, Numbers, FramesOfAppend
<1>6. \A r \in Requests : Answering(r)' <=> Answering(r) \/ r = q BY <1>3, <1>5 DEF Answering
<1>7. ASSUME NEW r \in Requests PROVE Unique(toHost', AnswerFrames(r))
  <2>1. Unique(toHost, AnswerFrames(r)) BY DEF AnswerInv, Placed
  <2>2. f \notin AnswerFrames(r) \/ \A g \in Frames(toHost) : g \notin AnswerFrames(r)
    BY <1>3 DEF Answering
  <2> QED BY <1>4, <2>1, <2>2, Numbers, UniqueLater
<1>8. Unique(toHost', CmdFrames)
  BY <1>3, <1>4, Numbers, UniqueLater DEF AnswerInv, Deciding
<1> QED BY <1>2, <1>3, <1>5, <1>6, <1>7, <1>8

\* What is put to be published.
LEMMA Published ==
  ASSUME RelayTyped, NEW q \in Requests, NEW d,
         ctl'.queue = Append(ctl.queue, Decided(q, d))
  PROVE  \A e \in Frames(ctl'.queue) :
           e \in Frames(ctl.queue) \/ (e.k = "dec" /\ e.r = q /\ e.dec = d)
<1>1. Frames(ctl'.queue) = Frames(ctl.queue) \cup {Decided(q, d)} BY Numbers, FramesOfAppend
<1> QED BY <1>1 DEF Decided

\* The next frame is taken from the connection.
LEMMA FrameRead ==
  ASSUME RelayTyped, RelayInv, AnswerInv, CtlReads
  PROVE  /\ Frames(toCtl) = Frames(toCtl') \cup {Head(toCtl)} /\ Head(toCtl) \in CtlFrames
         /\ Unique(toCtl', ReplyFrames)
         /\ Head(toCtl) \in ReplyFrames => \A g \in Frames(toCtl') : g \notin ReplyFrames
         /\ \A r \in Requests : /\ Unique(toCtl', {TellsOf(r)})
                                /\ Head(toCtl) = TellsOf(r) => TellsOf(r) \notin Frames(toCtl')
         /\ UNCHANGED <<gen, att, asked, asks, got, cmds, replay, prov, db>> /\ ctl.at = "on"
<1>1. /\ toCtl # <<>> /\ toCtl' = Tail(toCtl) /\ ctl.at = "on"
      /\ UNCHANGED <<gen, att, asked, asks, got, cmds, replay, prov, db>>
  BY DEF CtlReads, ByCtl, provider
<1>2. Frames(toCtl) = Frames(toCtl') \cup {Head(toCtl)} BY <1>1, Numbers, FramesOfTail
<1>3. /\ Unique(toCtl', ReplyFrames)
      /\ Head(toCtl) \in ReplyFrames => \A g \in Frames(toCtl') : g \notin ReplyFrames
  BY <1>1, Numbers, UniqueSooner DEF AnswerInv, Deciding
<1>4. ASSUME NEW r \in Requests
      PROVE  /\ Unique(toCtl', {TellsOf(r)})
             /\ Head(toCtl) = TellsOf(r) => TellsOf(r) \notin Frames(toCtl')
  <2>1. Unique(toCtl, {TellsOf(r)}) BY DEF AnswerInv, Placed
  <2> QED BY <1>1, <2>1, Numbers, UniqueSooner
<1> QED BY <1>1, <1>2, <1>3, <1>4, Numbers

LEMMA AskRead ==
  ASSUME RelayTyped, RelayInv, AnswerInv, RelayTyped', CtlReads, ReadAsk(Head(toCtl))
  PROVE  AnswerInv'
<1> DEFINE f == Head(toCtl)
<1> USE DEF AnswerInv
<1>0. /\ Frames(toCtl) = Frames(toCtl') \cup {f} /\ f \in CtlFrames /\ Unique(toCtl', ReplyFrames)
      /\ \A r \in Requests : /\ Unique(toCtl', {TellsOf(r)})
                             /\ f = TellsOf(r) => TellsOf(r) \notin Frames(toCtl')
      /\ UNCHANGED <<gen, att, asked, asks, got, cmds, replay, prov, db>> /\ ctl.at = "on"
  BY FrameRead
<1>1. f.k = "ask" /\ UNCHANGED toHost
      /\ ctl' = IF f.waits THEN [ctl EXCEPT !.coming = @ \cup {f.r}] ELSE ctl
  BY DEF ReadAsk
<1>2. CASE ~f.waits
  <2>1. UNCHANGED <<ctl, toHost>> /\ toCtl # <<>> /\ toCtl' = Tail(toCtl)
    BY <1>1, <1>2 DEF CtlReads
  <2>2. HostFewer /\ CtlFewer BY <2>1, HostCarriesLess, CtlCarriesLess
  <2> HIDE DEF AnswerInv
  <2> QED BY <1>0, <2>1, <2>2, AsideAnswered
<1>3. CASE f.waits
  <2> HIDE DEF f
  <2>1. f.r \in Requests /\ f = TellsOf(f.r)
    <3>1. f.r \in Requests /\ f.waits = TRUE BY <1>0, <1>1, <1>3 DEF CtlFrames
    <3> QED BY <1>0, <1>1, <3>1 DEF CtlFrames, TellsOf
  <2>2. /\ ctl'.coming = ctl.coming \cup {f.r} /\ ctl'.open = ctl.open /\ ctl'.ask = ctl.ask
        /\ ctl'.dec = ctl.dec /\ ctl'.accepted = ctl.accepted /\ ctl'.at = ctl.at
        /\ ctl'.queue = ctl.queue
    BY <1>1, <1>3, Numbers DEF Ctls
  <2>3. /\ f.r \in asks /\ f.r \notin ctl.open /\ f.r # ctl.ask /\ ~Answering(f.r)
        /\ TellsOf(f.r) \notin Frames(toCtl')
    BY <1>0, <2>1 DEF Placed
  <2>4. \A r \in Requests : Answering(r)' <=> Answering(r) BY <1>1 DEF Answering
  <2>5. \A r \in Requests : TellsOf(r) \in Frames(toCtl') => TellsOf(r) \in Frames(toCtl) /\ r # f.r
    BY <1>0, <2>3
  <2>6. Placed' BY <1>0, <1>1, <2>2, <2>3, <2>4, <2>5 DEF Placed
  <2>7. Deciding' BY <1>0, <1>1, <2>2 DEF Deciding
  <2>8. \A r \in Requests, d \in Decisions : Utters(r, d)' => Utters(r, d)
    BY <1>0, <1>1, <2>2 DEF Utters
  <2>9. IsDecision' BY <1>0, <1>1, <2>2 DEF IsDecision
  <2> QED BY <1>0, <2>6, <2>7, <2>8, <2>9, CtlAnswered
<1> QED BY <1>2, <1>3

\* The reply to its decision: it is carried out, or the request is open again.
LEMMA ReplyRead ==
  ASSUME RelayTyped, RelayInv, AnswerInv, CtlReads, ReadOk(Head(toCtl)) \/ ReadBad(Head(toCtl))
  PROVE  AnswerInv'
<1> DEFINE f == Head(toCtl)
<1> USE DEF AnswerInv
<1>0. /\ Frames(toCtl) = Frames(toCtl') \cup {f} /\ f \in CtlFrames /\ Unique(toCtl', ReplyFrames)
      /\ f \in ReplyFrames => \A g \in Frames(toCtl') : g \notin ReplyFrames
      /\ \A r \in Requests : Unique(toCtl', {TellsOf(r)})
      /\ UNCHANGED <<gen, att, asked, asks, got, cmds, replay, prov, db>> /\ ctl.at = "on"
  BY FrameRead
<1>1. f \in ReplyFrames /\ f.r \in Requests
  <2>1. f.k \in {"ok", "bad"} BY DEF ReadOk, ReadBad
  <2> QED BY <1>0, <2>1, ReadFields DEF ReplyFrames, Carries
<1>2. /\ ctl.ask = f.r /\ f.r \in asks /\ ~Answering(f.r) /\ ctl.dec \in Decisions
      /\ f.r \notin ctl.coming /\ f.r \notin ctl.open /\ TellsOf(f.r) \notin Frames(toCtl)
  <2>1. ctl.ask = f.r BY <1>0, <1>1 DEF Deciding
  <2> QED BY <1>1, <2>1, Distinguished DEF Placed, Deciding
<1>3. /\ \A g \in Frames(toHost) : g \notin CmdFrames
      /\ \A g \in Frames(toCtl') : g \notin ReplyFrames /\ g \in Frames(toCtl) /\ g.k # "ok"
  <2>1. \A g \in Frames(toCtl') : g \in Frames(toCtl) /\ g \in CtlFrames BY <1>0, Numbers
  <2> QED BY <1>0, <1>1, <2>1 DEF Deciding, ReplyFrames
<1>4. CASE ReadOk(f)
  <2>1. /\ f.k = "ok" /\ ctl' = [[ctl EXCEPT !.queue = Append(@, Decided(f.r, ctl.dec))]
                                   EXCEPT !.ask = Nil, !.dec = Nil]
        /\ toHost' = Append(toHost, [gen |-> ctl.gen, k |-> "answer", r |-> f.r, dec |-> ctl.dec])
    BY <1>4 DEF ReadOk, Emit, Send
  <2> HIDE DEF f
  <2>2. /\ ctl'.coming = ctl.coming /\ ctl'.open = ctl.open /\ ctl'.ask = Nil
        /\ ctl'.dec = Nil /\ ctl'.accepted = ctl.accepted /\ ctl'.at = ctl.at
        /\ ctl'.queue = Append(ctl.queue, Decided(f.r, ctl.dec))
    BY <2>1, Numbers DEF Ctls
  <2>3. /\ \A r \in Requests : /\ Answering(r)' <=> Answering(r) \/ r = f.r
                               /\ Unique(toHost', AnswerFrames(r))
        /\ Unique(toHost', CmdFrames)
        /\ \A g \in Frames(toHost') :
             \/ g \in Frames(toHost)
             \/ g.k = "answer" /\ g.r = f.r /\ g.dec = ctl.dec /\ g \notin CmdFrames
    BY <1>1, <1>2, <2>1, AnswerSent
  <2>4. \A e \in Frames(ctl'.queue) :
          e \in Frames(ctl.queue) \/ (e.k = "dec" /\ e.r = f.r /\ e.dec = ctl.dec)
    BY <1>1, <2>2, Published
  <2>5. Placed' BY <1>0, <1>2, <1>3, <2>2, <2>3, Distinguished DEF Placed
  <2>6. Deciding' BY <1>0, <1>3, <2>2, <2>3 DEF Deciding
  <2>7. \A d \in Decisions : d = ctl.dec => Utters(f.r, d)
    BY <1>0, <2>1 DEF Utters
  <2>8. ASSUME NEW r \in Requests, NEW d \in Decisions, Utters(r, d)' PROVE Utters(r, d)
    BY <1>0, <1>3, <2>2, <2>3, <2>4, <2>7, <2>8 DEF Utters
  <2>9. IsDecision' BY <1>0, <1>2, <2>3, <2>4 DEF IsDecision, CmdFrames
  <2> QED BY <1>0, <2>5, <2>6, <2>8, <2>9, CtlAnswered
<1>5. CASE ReadBad(f)
  <2>1. /\ ctl' = [ctl EXCEPT !.ask = Nil, !.dec = Nil, !.open = @ \cup {f.r}] /\ UNCHANGED toHost
    BY <1>5 DEF ReadBad
  <2> HIDE DEF f
  <2>2. /\ ctl'.coming = ctl.coming /\ ctl'.open = ctl.open \cup {f.r} /\ ctl'.ask = Nil
        /\ ctl'.dec = Nil /\ ctl'.accepted = ctl.accepted /\ ctl'.at = ctl.at
        /\ ctl'.queue = ctl.queue
    BY <2>1, Numbers DEF Ctls
  <2>3. \A r \in Requests : Answering(r)' <=> Answering(r) BY <2>1 DEF Answering
  <2>5. Placed' BY <1>0, <1>2, <1>3, <2>1, <2>2, <2>3, Distinguished DEF Placed
  <2>6. Deciding' BY <1>0, <1>3, <2>1, <2>2 DEF Deciding
  <2>8. \A r \in Requests, d \in Decisions : Utters(r, d)' => Utters(r, d)
    BY <1>0, <1>3, <2>1, <2>2 DEF Utters
  <2>9. IsDecision' BY <1>0, <2>1, <2>2 DEF IsDecision
  <2> QED BY <1>0, <2>5, <2>6, <2>8, <2>9, CtlAnswered
<1> QED BY <1>4, <1>5

\* A decision told again: published, carried out, or kept for the handler of its request.
LEMMA DecisionRead ==
  ASSUME RelayTyped, RelayInv, AnswerInv, CtlReads, ReadDecision(Head(toCtl))
  PROVE  AnswerInv'
<1> DEFINE f == Head(toCtl)
           c == [ctl EXCEPT !.queue = Append(@, Decided(f.r, f.dec))]
<1> USE DEF AnswerInv
<1>0. /\ Frames(toCtl) = Frames(toCtl') \cup {f} /\ f \in CtlFrames /\ Unique(toCtl', ReplyFrames)
      /\ \A r \in Requests : Unique(toCtl', {TellsOf(r)})
      /\ UNCHANGED <<gen, att, asked, asks, got, cmds, replay, prov, db>> /\ ctl.at = "on"
  BY FrameRead
<1>1. f.k = "cmd" /\ f.r \in Requests /\ f.dec \in Decisions /\ Utters(f.r, f.dec)
  <2>1. f.k = "cmd" /\ f \in Frames(toCtl) BY <1>0 DEF ReadDecision
  <2> QED BY <1>0, <2>1, ReadFields DEF IsDecision, Utters, Carries
<1>2. \A g \in Frames(toCtl') : g \in Frames(toCtl) BY <1>0
<1>3. \/ ctl' = c /\ UNCHANGED toHost
      \/ /\ f.r \in ctl.open /\ ctl' = [c EXCEPT !.open = @ \ {f.r}]
         /\ toHost' = Append(toHost, [gen |-> ctl.gen, k |-> "answer", r |-> f.r, dec |-> f.dec])
      \/ ctl' = [ctl EXCEPT !.accepted[f.r] = f.dec] /\ UNCHANGED toHost
  BY DEF ReadDecision, Emit, Send
<1> HIDE DEF f
<1>4. CASE ctl' = c /\ UNCHANGED toHost
  <2>1. /\ ctl'.coming = ctl.coming /\ ctl'.open = ctl.open /\ ctl'.ask = ctl.ask
        /\ ctl'.dec = ctl.dec /\ ctl'.accepted = ctl.accepted /\ ctl'.at = ctl.at
        /\ ctl'.queue = Append(ctl.queue, Decided(f.r, f.dec))
    BY <1>4, Numbers DEF Ctls
  <2>2. \A e \in Frames(ctl'.queue) :
          e \in Frames(ctl.queue) \/ (e.k = "dec" /\ e.r = f.r /\ e.dec = f.dec)
    BY <1>1, <2>1, Published
  <2>3. \A r \in Requests : Answering(r)' <=> Answering(r) BY <1>4 DEF Answering
  <2>4. Placed' BY <1>0, <1>2, <1>4, <2>1, <2>3 DEF Placed
  <2>5. Deciding' BY <1>0, <1>2, <1>4, <2>1 DEF Deciding
  <2>6. \A r \in Requests, d \in Decisions : Utters(r, d)' => Utters(r, d)
    BY <1>0, <1>1, <1>2, <1>4, <2>1, <2>2 DEF Utters
  <2>7. IsDecision' BY <1>0, <1>1, <1>2, <1>4, <2>2 DEF IsDecision
  <2> QED BY <1>0, <2>4, <2>5, <2>6, <2>7, CtlAnswered
<1>5. CASE /\ f.r \in ctl.open /\ ctl' = [c EXCEPT !.open = @ \ {f.r}]
           /\ toHost' = Append(toHost, [gen |-> ctl.gen, k |-> "answer", r |-> f.r, dec |-> f.dec])
  <2>1. /\ ctl'.coming = ctl.coming /\ ctl'.open = ctl.open \ {f.r} /\ ctl'.ask = ctl.ask
        /\ ctl'.dec = ctl.dec /\ ctl'.accepted = ctl.accepted /\ ctl'.at = ctl.at
        /\ ctl'.queue = Append(ctl.queue, Decided(f.r, f.dec))
    BY <1>5, Numbers DEF Ctls
  <2>2. \A e \in Frames(ctl'.queue) :
          e \in Frames(ctl.queue) \/ (e.k = "dec" /\ e.r = f.r /\ e.dec = f.dec)
    BY <1>1, <2>1, Published
  <2>3. /\ f.r \in asks /\ f.r # ctl.ask /\ ~Answering(f.r) /\ f.r \notin ctl.coming
        /\ TellsOf(f.r) \notin Frames(toCtl)
    BY <1>1, <1>5 DEF Placed
  <2>4. /\ \A r \in Requests : /\ Answering(r)' <=> Answering(r) \/ r = f.r
                               /\ Unique(toHost', AnswerFrames(r))
        /\ Unique(toHost', CmdFrames)
        /\ \A g \in Frames(toHost') :
             \/ g \in Frames(toHost)
             \/ g.k = "answer" /\ g.r = f.r /\ g.dec = f.dec /\ g \notin CmdFrames
    BY <1>1, <1>5, <2>3, AnswerSent
  <2>5. Placed' BY <1>0, <1>2, <2>1, <2>3, <2>4 DEF Placed
  <2>6. Deciding' BY <1>0, <1>2, <2>1, <2>4 DEF Deciding
  <2>7. \A r \in Requests, d \in Decisions : Utters(r, d)' => Utters(r, d)
    BY <1>0, <1>1, <1>2, <2>1, <2>2, <2>4 DEF Utters
  <2>8. IsDecision' BY <1>0, <1>1, <1>2, <2>2, <2>4 DEF IsDecision, CmdFrames
  <2> QED BY <1>0, <2>5, <2>6, <2>7, <2>8, CtlAnswered
<1>6. CASE ctl' = [ctl EXCEPT !.accepted[f.r] = f.dec] /\ UNCHANGED toHost
  <2>1. /\ ctl'.coming = ctl.coming /\ ctl'.open = ctl.open /\ ctl'.ask = ctl.ask
        /\ ctl'.dec = ctl.dec /\ ctl'.at = ctl.at /\ ctl'.queue = ctl.queue
        /\ ctl'.accepted = [ctl.accepted EXCEPT ![f.r] = f.dec]
    BY <1>6, Numbers DEF Ctls
  <2>2. \A r \in Requests :
          ctl'.accepted[r] = ctl.accepted[r] \/ (r = f.r /\ ctl'.accepted[r] = f.dec)
    BY <1>1, <2>1, Numbers DEF Ctls
  <2>3. \A r \in Requests : Answering(r)' <=> Answering(r) BY <1>6 DEF Answering
  <2>4. Placed' BY <1>0, <1>2, <1>6, <2>1, <2>3 DEF Placed
  <2>5. Deciding' BY <1>0, <1>2, <1>6, <2>1 DEF Deciding
  <2>6. \A r \in Requests, d \in Decisions : Utters(r, d)' => Utters(r, d)
    BY <1>0, <1>1, <1>2, <1>6, <2>1, <2>2 DEF Utters
  <2>7. IsDecision' BY <1>0, <1>2, <1>6, <2>1 DEF IsDecision
  <2> QED BY <1>0, <2>4, <2>5, <2>6, <2>7, CtlAnswered
<1> QED BY <1>3, <1>4, <1>5, <1>6

LEMMA ServeAnswered ==
  ASSUME RelayTyped, AnswerInv, NEW q \in Requests, ServeAsk(q)
  PROVE  AnswerInv'
<1> DEFINE d == ctl.accepted[q]
<1> USE DEF AnswerInv
<1>0. UNCHANGED <<gen, att, asked, asks, got, cmds, replay, prov, db, toCtl>> /\ ctl.at = "on"
      /\ q \in ctl.coming
  BY DEF ServeAsk, ByCtl, provider
<1>1. /\ q \in asks /\ q \notin ctl.open /\ q # ctl.ask /\ ~Answering(q)
      /\ TellsOf(q) \notin Frames(toCtl)
  BY <1>0 DEF Placed
<1>2. CASE d = Nil
  <2>1. UNCHANGED toHost /\ ctl' = [ctl EXCEPT !.coming = @ \ {q}, !.open = @ \cup {q}]
    BY <1>2 DEF ServeAsk
  <2>2. /\ ctl'.coming = ctl.coming \ {q} /\ ctl'.open = ctl.open \cup {q} /\ ctl'.ask = ctl.ask
        /\ ctl'.dec = ctl.dec /\ ctl'.accepted = ctl.accepted /\ ctl'.at = ctl.at
        /\ ctl'.queue = ctl.queue
    BY <2>1, Numbers DEF Ctls
  <2>3. \A r \in Requests : Answering(r)' <=> Answering(r) BY <2>1 DEF Answering
  <2>4. Placed' BY <1>0, <1>1, <2>1, <2>2, <2>3 DEF Placed
  <2>5. Deciding' BY <1>0, <2>1, <2>2 DEF Deciding
  <2>6. \A r \in Requests, x \in Decisions : Utters(r, x)' => Utters(r, x)
    BY <1>0, <2>1, <2>2 DEF Utters
  <2>7. IsDecision' BY <1>0, <2>1, <2>2 DEF IsDecision
  <2> QED BY <1>0, <2>4, <2>5, <2>6, <2>7, CtlAnswered
<1>3. CASE d # Nil
  <2>1. /\ ctl' = [[ctl EXCEPT !.queue = Append(@, Decided(q, d))]
                     EXCEPT !.coming = @ \ {q}, !.accepted[q] = Nil]
        /\ toHost' = Append(toHost, [gen |-> ctl.gen, k |-> "answer", r |-> q, dec |-> d])
    BY <1>3 DEF ServeAsk, Emit, Send
  <2>2. d \in Decisions /\ Utters(q, d)
    <3>1. d \in Answers BY Numbers DEF Ctls
    <3> QED BY <1>3, <3>1 DEF Answers, Utters
  <2> HIDE DEF d
  <2>3. /\ ctl'.coming = ctl.coming \ {q} /\ ctl'.open = ctl.open /\ ctl'.ask = ctl.ask
        /\ ctl'.dec = ctl.dec /\ ctl'.at = ctl.at
        /\ ctl'.accepted = [ctl.accepted EXCEPT ![q] = Nil]
        /\ ctl'.queue = Append(ctl.queue, Decided(q, d))
    BY <2>1, Numbers DEF Ctls
  <2>4. \A r \in Requests : ctl'.accepted[r] \in {ctl.accepted[r], Nil}
    BY <2>3, Numbers DEF Ctls
  <2>5. \A e \in Frames(ctl'.queue) :
          e \in Frames(ctl.queue) \/ (e.k = "dec" /\ e.r = q /\ e.dec = d)
    BY <2>3, Published
  <2>6. /\ \A r \in Requests : /\ Answering(r)' <=> Answering(r) \/ r = q
                               /\ Unique(toHost', AnswerFrames(r))
        /\ Unique(toHost', CmdFrames)
        /\ \A g \in Frames(toHost') :
             \/ g \in Frames(toHost)
             \/ g.k = "answer" /\ g.r = q /\ g.dec = d /\ g \notin CmdFrames
    BY <1>1, <2>1, <2>2, AnswerSent
  <2>7. Placed' BY <1>0, <1>1, <2>3, <2>6 DEF Placed
  <2>8. Deciding' BY <1>0, <2>3, <2>6 DEF Deciding
  <2>9. \A r \in Requests, x \in Decisions : Utters(r, x)' => Utters(r, x)
    BY <1>0, <2>2, <2>3, <2>4, <2>5, <2>6, Distinguished DEF Utters
  <2>10. IsDecision' BY <1>0, <2>2, <2>5, <2>6 DEF IsDecision, CmdFrames
  <2> QED BY <1>0, <2>7, <2>8, <2>9, <2>10, CtlAnswered
<1> QED BY <1>2, <1>3

LEMMA DecideAnswered ==
  ASSUME RelayTyped, AnswerInv, NEW q \in Requests, NEW d \in Decisions, Decide(q, d)
  PROVE  AnswerInv'
<1> DEFINE f == [gen |-> ctl.gen, k |-> "cmd", r |-> q, dec |-> d]
<1> USE DEF AnswerInv
<1>0. /\ UNCHANGED <<gen, att, asked, asks, got, cmds, replay, prov, db, toCtl>> /\ ctl.at = "on"
      /\ q \in ctl.open /\ ctl.ask = Nil /\ toHost' = Append(toHost, f)
      /\ ctl' = [ctl EXCEPT !.open = @ \ {q}, !.ask = q, !.dec = d]
  BY DEF Decide, ByCtl, provider, Send
<1>1. q \in asks /\ ~Answering(q) /\ q \notin ctl.coming /\ TellsOf(q) \notin Frames(toCtl)
  BY <1>0 DEF Placed
<1>2. f \in HostFrames
  <2>1. d \in Answers /\ ctl.gen \in Nat BY Numbers DEF Answers, Ctls
  <2> QED BY <2>1, Made
<1>3. f.k = "cmd" /\ f.r = q /\ f.dec = d /\ \A r \in Requests : f \notin AnswerFrames(r)
  BY DEF AnswerFrames
<1> HIDE DEF f
<1>4. /\ ctl'.coming = ctl.coming /\ ctl'.open = ctl.open \ {q} /\ ctl'.ask = q
      /\ ctl'.dec = d /\ ctl'.accepted = ctl.accepted /\ ctl'.at = ctl.at
      /\ ctl'.queue = ctl.queue
  BY <1>0, Numbers DEF Ctls
<1>5. /\ \A g \in Frames(toHost) : g \notin CmdFrames
      /\ \A g \in Frames(toCtl) : g \notin ReplyFrames /\ g.k # "ok"
  <2>1. \A g \in Frames(toHost) : g \in CmdFrames => g.r \in Requests
    BY Numbers, ReadFields DEF CmdFrames
  <2>2. \A g \in Frames(toCtl) : g \in ReplyFrames => g.r \in Requests
    BY Numbers, ReadFields DEF ReplyFrames, Carries
  <2>3. \A g \in Frames(toCtl) : g.k = "ok" => g \in ReplyFrames BY Numbers DEF ReplyFrames
  <2> QED BY <1>0, <2>1, <2>2, <2>3, Distinguished DEF Deciding
<1>6. Frames(toHost') = Frames(toHost) \cup {f} BY <1>0, Numbers, FramesOfAppend
<1>7. Unique(toHost', CmdFrames) BY <1>0, <1>5, Numbers, UniqueLater DEF Deciding
<1>8. \A r \in Requests : Unique(toHost', AnswerFrames(r))
  BY <1>0, <1>3, Numbers, UniqueLater DEF Placed
<1>9. \A r \in Requests : Answering(r)' <=> Answering(r) BY <1>3, <1>6 DEF Answering
<1>10. Placed' BY <1>0, <1>1, <1>4, <1>8, <1>9 DEF Placed
<1>11. Deciding' BY <1>0, <1>3, <1>4, <1>5, <1>6, <1>7 DEF Deciding
<1>12. \A r \in Requests, x \in Decisions : Utters(r, x)' => Utters(r, x)
  BY <1>0, <1>3, <1>4, <1>5, <1>6 DEF Utters
<1>13. IsDecision' BY <1>0, <1>3, <1>4, <1>6 DEF IsDecision
<1> QED BY <1>0, <1>10, <1>11, <1>12, <1>13, CtlAnswered

\* The first decision of a request that is committed stays.
LEMMA CommitAnswered ==
  ASSUME RelayTyped, AnswerInv, Commit
  PROVE  AnswerInv'
<1> DEFINE e == Head(ctl.queue)
<1> USE DEF AnswerInv
<1>0. /\ UNCHANGED <<gen, att, asked, asks, got, cmds, replay, prov, toCtl, toHost>>
      /\ ctl.queue # <<>> /\ db' = Project(e)
      /\ ctl' = [ctl EXCEPT !.queue = Tail(@),
                            !.ack = IF e.k = "end" /\ e.ev = ctl.term THEN e.ev ELSE 0]
  BY DEF Commit, ByCtl, provider
<1>1. Frames(ctl.queue) = Frames(Tail(ctl.queue)) \cup {e} BY <1>0, Numbers, FramesOfTail
<1>2. e \in Outcomes /\ e \in Frames(ctl.queue) BY <1>1, Numbers
<1> HIDE DEF e
<1>3. /\ ctl'.coming = ctl.coming /\ ctl'.open = ctl.open /\ ctl'.ask = ctl.ask
      /\ ctl'.dec = ctl.dec /\ ctl'.accepted = ctl.accepted /\ ctl'.at = ctl.at
      /\ \A g \in Frames(ctl'.queue) : g \in Frames(ctl.queue)
  BY <1>0, <1>1, Numbers DEF Ctls
<1>4. \A r \in Requests : \/ db'.decided[r] = db.decided[r]
                          \/ e.k = "dec" /\ e.r = r /\ db'.decided[r] = e.dec
  <2>1. CASE e.k = "dec"
    <3>1. db' = [db EXCEPT !.decided[e.r] = IF @ = Nil THEN e.dec ELSE @]
      BY <1>0, <2>1 DEF Project
    <3>2. db'.decided = [db.decided EXCEPT ![e.r] = IF @ = Nil THEN e.dec ELSE @]
      BY <3>1, Numbers DEF Dbs
    <3>3. db.decided \in [Requests -> Answers] BY Numbers DEF Dbs
    <3> QED BY <2>1, <3>2, <3>3
  <2>2. CASE e.k # "dec" BY <1>0, <2>2, Numbers DEF Project, Dbs
  <2> QED BY <2>1, <2>2
<1>5. \A r \in Requests : Answering(r)' <=> Answering(r) BY <1>0 DEF Answering
<1>6. Placed' BY <1>0, <1>3, <1>5 DEF Placed
<1>7. Deciding' BY <1>0, <1>3 DEF Deciding
<1>8. \A r \in Requests, d \in Decisions : Utters(r, d)' => Utters(r, d)
  BY <1>0, <1>2, <1>3, <1>4 DEF Utters
<1>9. IsDecision' BY <1>0, <1>3 DEF IsDecision
<1> QED BY <1>0, <1>6, <1>7, <1>8, <1>9, CtlAnswered

-----------------------------------------------------------------------------
(* One answer, always.                                                      *)

LEMMA AnswerInvInit == RelayInit => AnswerInv
<1> SUFFICES ASSUME RelayInit PROVE AnswerInv
  OBVIOUS
<1>1. /\ asked = {} /\ asks = {} /\ prov.turn = 0 /\ ctl.coming = {} /\ ctl.open = {}
      /\ ctl.ask = Nil /\ ctl.dec = Nil /\ ctl.at = "off"
      /\ \A r \in Requests : /\ got[r] = <<>> /\ Len(got[r]) = 0 /\ cmds[r] = Nil
                             /\ ctl.accepted[r] = Nil /\ db.decided[r] = Nil
  BY DEF RelayInit, NoCtl
<1>2. /\ Frames(toHost) = {} /\ Frames(toCtl) = {} /\ Frames(replay) = {} /\ Frames(ctl.queue) = {}
      /\ \A r \in Requests : Frames(got[r]) = {}
  BY <1>1, Nothing DEF RelayInit, NoCtl
<1>3. \A M : Unique(toHost, M) /\ Unique(toCtl, M) /\ Unique(replay, M)
  BY UniqueNone DEF RelayInit
<1>4. \A r \in Requests : ~Answering(r) BY <1>2 DEF Answering
<1>5. \A r \in Requests, d \in Decisions : ~Utters(r, d)
  BY <1>1, <1>2, Distinguished DEF Utters
<1>6. Waiting BY <1>1 DEF Waiting
<1>7. Noted BY <1>2, <1>3 DEF Noted
<1>8. Placed BY <1>1, <1>2, <1>3, <1>4, Distinguished DEF Placed
<1>9. Deciding BY <1>1, <1>2, <1>3 DEF Deciding
<1>10. Agreed BY <1>5 DEF Agreed
<1>11. IsDecision BY <1>2 DEF IsDecision
<1> QED BY <1>6, <1>7, <1>8, <1>9, <1>10, <1>11 DEF AnswerInv

LEMMA AnswerInvStep ==
  ASSUME RelayTyped, RelayInv, AnswerInv, RelayTyped', ~LossyClose, [RelayNext]_relayVars
  PROVE  AnswerInv'
<1>1. CASE UNCHANGED relayVars \/ HostDetaches \/ Activate \/ Detach BY <1>1, ConnectsAnswered
<1>2. CASE HostReads BY <1>2, Reading, HearsAnswered, DecisionAnswered, AnswerAnswered
<1>3. CASE Say \/ Finish BY <1>3, SpeaksAnswered
<1>4. CASE CtlReads
  <2> DEFINE f == Head(toCtl)
  <2>1. ReadEvent(f) \/ ReadAsk(f) \/ ReadOk(f) \/ ReadBad(f) \/ ReadDecision(f) \/ ReadEnd(f)
    BY <1>4 DEF CtlReads
  <2> QED BY <1>4, <2>1, EventsAnswered, AskRead, ReplyRead, DecisionRead
<1>5. CASE Commit BY <1>5, CommitAnswered
<1>6. CASE Acknowledge \/ Bind \/ StartTurn BY <1>6, WorksAnswered
<1>7. CASE Greet BY <1>7, GreetAnswered
<1>8. CASE \E r \in Requests : Ask(r) \/ ServeAsk(r) \/ \E d \in Decisions : Decide(r, d)
  BY <1>8, AskAnswered, ServeAnswered, DecideAnswered
<1> QED BY <1>1, <1>2, <1>3, <1>4, <1>5, <1>6, <1>7, <1>8 DEF RelayNext

\* Whatever controllers come and go while a request waits, whoever decides it and however
\* often its decision is told again: the provider gets one answer to it, and the decision
\* that is published is the one it was answered with.
THEOREM OneAnswerAlways == ASSUME ~LossyClose PROVE RelaySpec => []OneAnswer
<1>1. RelayTyped /\ AnswerInv => OneAnswer
  <2> SUFFICES ASSUME RelayTyped, AnswerInv, NEW r \in Requests
               PROVE  Len(got[r]) <= 1
                      /\ (got[r] # <<>> /\ db.decided[r] # Nil => got[r][1] = db.decided[r])
    BY DEF OneAnswer
  <2>1. Len(got[r]) <= 1 BY DEF AnswerInv, Waiting
  <2>2. ASSUME got[r] # <<>>, db.decided[r] # Nil PROVE got[r][1] = db.decided[r]
    <3>1. got[r] \in Seq(Answers) /\ db.decided[r] \in Answers
      BY Numbers DEF Dbs, RelayTyped, HostTyped
    <3>2. db.decided[r] \in Decisions BY <2>2, <3>1 DEF Answers
    <3>3. got[r][1] \in Frames(got[r])
      <4>1. 1 \in DOMAIN got[r] BY <2>2, <3>1
      <4> QED BY <4>1 DEF Frames
    <3>4. got[r][1] \in Decisions BY <3>3 DEF AnswerInv, IsDecision
    <3>5. Utters(r, got[r][1]) /\ Utters(r, db.decided[r]) BY <3>3 DEF Utters
    <3> QED BY <3>2, <3>4, <3>5 DEF AnswerInv, Agreed
  <2> QED BY <2>1, <2>2
<1>2. /\ RelayTyped /\ RelayInv /\ [RelayNext]_relayVars => RelayInv'
      /\ RelayTyped /\ RelayInv /\ AnswerInv /\ RelayTyped' /\ [RelayNext]_relayVars => AnswerInv'
  BY RelayInvStep, AnswerInvStep
<1> QED BY <1>1, <1>2, RelayInvInit, AnswerInvInit, RelayTypes, PTL DEF RelaySpec

=============================================================================

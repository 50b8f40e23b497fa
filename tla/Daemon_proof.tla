---------------------------- MODULE Daemon_proof ----------------------------
(***************************************************************************)
(* Proofs about the daemon's processes: which of them holds the lock and   *)
(* the socket (DaemonLock), and the life of one from its start to its exit *)
(* (DaemonLife).  They hold for any processes, inodes and bounds.          *)
(***************************************************************************)
EXTENDS DaemonLock, DaemonLife, TLAPS

-----------------------------------------------------------------------------
(* DaemonLock.                                                             *)

\* A process has the lock file open exactly while it is inside TryAcquire's
\* success path or waiting for flock's verdict.
FdMatchesPC ==
    \A p \in Proc : fd[p] # Nobody <=> p \in Holding \/ pc[p] = "opened"

\* The kernel's view of who holds a flock is the program counters' view.
FlockMatchesPC == flocked = Holding

\* flock(2) itself: one holder per inode.
FlockPerInode == \A p, q \in flocked : fd[p] = fd[q] => p = q

\* Until some Release unlinks it, every open lock file is the named one.
OpenIsNamed == unlinked \/ \A p \in Proc : fd[p] # Nobody => fd[p] = lockName

\* Until then a bound listener is the one the socket path leads to.
BoundIsNamed ==
    unlinked \/ \A p \in Proc : pc[p] \in {"chmod", "serving"} => socket = p

Locking == /\ LockTypeOK
        /\ FdMatchesPC
        /\ FlockMatchesPC
        /\ FlockPerInode
        /\ OpenIsNamed
        /\ BoundIsNamed

\* The inductive invariant gives exclusion while nothing was unlinked.
LEMMA LockingExcludes == Locking => ExclusiveUntilRelease
  <1>1. SUFFICES ASSUME Locking, ~unlinked, NEW p \in Holding, NEW q \in Holding
                 PROVE  p = q
    BY DEF ExclusiveUntilRelease, Exclusive
  <1>2. fd[p] = lockName /\ fd[q] = lockName
    BY <1>1 DEF Locking, FdMatchesPC, OpenIsNamed, Holding
  <1> QED
    BY <1>1, <1>2 DEF Locking, FlockMatchesPC, FlockPerInode

LEMMA LockingInit == LockInit => Locking
  <1> SUFFICES ASSUME LockInit PROVE Locking
    OBVIOUS
  <1> USE DaemonLockAssumption DEF LockInit
  <1>1. LockTypeOK
    <2>1. pc \in [Proc -> PC] /\ fd \in [Proc -> Inode \union {Nobody}]
      BY DEF PC
    <2>2. kills \in 0..MaxKills
      BY DEF DaemonLockAssumption
    <2> QED
      BY <2>1, <2>2 DEF LockTypeOK
  <1>2. Holding = {}
    BY DEF Holding
  <1>3. FdMatchesPC /\ FlockMatchesPC /\ FlockPerInode
    BY <1>2 DEF FdMatchesPC, FlockMatchesPC, FlockPerInode
  <1>4. OpenIsNamed /\ BoundIsNamed
    BY DEF OpenIsNamed, BoundIsNamed
  <1> QED
    BY <1>1, <1>3, <1>4 DEF Locking

LEMMA LockingStep == Locking /\ [LockNext]_lockVars => Locking'
  <1> SUFFICES ASSUME Locking, [LockNext]_lockVars PROVE Locking'
    OBVIOUS
  <1> USE DaemonLockAssumption
      DEF Locking, LockTypeOK, FdMatchesPC, FlockMatchesPC, FlockPerInode,
          OpenIsNamed, BoundIsNamed, Holding, PC, Goto
  <1>1. CASE UNCHANGED lockVars
    BY <1>1 DEF lockVars
  <1>2. ASSUME NEW p \in Proc, Start(p) PROVE Locking'
    BY <1>2 DEF Start
  <1>3. ASSUME NEW p \in Proc, Open(p) PROVE Locking'
    BY <1>3 DEF Open, FreeInode
  <1>4. ASSUME NEW p \in Proc, Flock(p) PROVE Locking'
    BY <1>4 DEF Flock, Contended
  <1>5. ASSUME NEW p \in Proc, FlockRefused(p) PROVE Locking'
    BY <1>5 DEF FlockRefused, Contended
  <1>6. ASSUME NEW p \in Proc, RemoveSocket(p) PROVE Locking'
    BY <1>6, LockingExcludes DEF RemoveSocket, ExclusiveUntilRelease, Exclusive
  <1>7. ASSUME NEW p \in Proc, Listen(p) PROVE Locking'
    BY <1>7, LockingExcludes DEF Listen, ExclusiveUntilRelease, Exclusive
  <1>8. ASSUME NEW p \in Proc, Chmod(p) PROVE Locking'
    BY <1>8 DEF Chmod
  <1>9. ASSUME NEW p \in Proc, CloseListener(p) PROVE Locking'
    BY <1>9, LockingExcludes DEF CloseListener, ExclusiveUntilRelease, Exclusive
  <1>10. ASSUME NEW p \in Proc, CloseLock(p) PROVE Locking'
    BY <1>10 DEF CloseLock
  <1>11. ASSUME NEW p \in Proc, RemoveLock(p) PROVE Locking'
    BY <1>11 DEF RemoveLock
  <1>12. ASSUME NEW p \in Proc, Kill(p) PROVE Locking'
    BY <1>12 DEF Kill
  <1> QED
    BY <1>1, <1>2, <1>3, <1>4, <1>5, <1>6, <1>7, <1>8, <1>9, <1>10, <1>11,
       <1>12 DEF LockNext, Run

\* The inductive invariant holds in every reachable state.
THEOREM LockingAlways == LockSpec => []Locking
  BY LockingInit, LockingStep, PTL DEF LockSpec

\* The variables always have their types.
THEOREM LockTypeCorrect == LockSpec => []LockTypeOK
  <1>1. Locking => LockTypeOK
    BY DEF Locking
  <1> QED BY <1>1, LockingAlways, PTL

\* Whatever crashes and restarts, two daemons never hold the lock file
\* together before some daemon has released it (lock.go, TryAcquire).
THEOREM LockExcludesUntilRelease == LockSpec => []ExclusiveUntilRelease
  BY LockingExcludes, LockingAlways, PTL

\* Before any release, clients that dial the socket path reach the daemon
\* that serves (daemon.go, createListener under the lock).
THEOREM SocketLeadsToServer == LockSpec => []ServingIsReachable
  <1>1. Locking => ServingIsReachable
    BY DEF Locking, BoundIsNamed, ServingIsReachable
  <1> QED BY <1>1, LockingAlways, PTL

\* At any time at most one holder has the inode that the lock path names.
THEOREM NamedLockHasOneHolder == LockSpec => []NamedHolderUnique
  <1>1. Locking => NamedHolderUnique
    BY DEF Locking, FlockMatchesPC, FlockPerInode, NamedHolderUnique
  <1> QED BY <1>1, LockingAlways, PTL

-----------------------------------------------------------------------------
(* DaemonLife.                                                             *)

LEMMA Names ==
    /\ None # Other /\ None \notin Process /\ Other \notin Process
    /\ MaxStarts \in Nat /\ MaxCalls \in Nat /\ MaxFaults \in Nat
  BY DaemonLifeAssumption DEF DaemonLifeAssumption

-----------------------------------------------------------------------------
(* Types.                                                                  *)

LEMMA ConfigTypes ==
    ASSUME NEW c \in Config, NEW listed \in BOOLEAN
    PROVE  /\ Started(c, listed) \in Config /\ Started(c, listed).changes = c.changes
           /\ [c EXCEPT !.enabled = FALSE] \in Config
           /\ [c EXCEPT !.enabled = FALSE].changes = c.changes
           /\ [c EXCEPT !.changes = @ + 1] \in Config
           /\ [c EXCEPT !.changes = @ + 1].changes = c.changes + 1
           /\ c.changes \in Nat /\ c.listed \in BOOLEAN
  <1>1. c.changes \in Nat /\ c.enabled \in BOOLEAN /\ c.listed \in BOOLEAN
    BY DEF Config
  <1>2. Started(c, listed) \in Config
    BY DEF Config, Started
  <1>3. [c EXCEPT !.enabled = FALSE] \in Config
    BY DEF Config
  <1>4. Started(c, listed).changes = c.changes
    BY DEF Config, Started
  <1>5. [c EXCEPT !.enabled = FALSE].changes = c.changes
    BY DEF Config
  <1>6. [c EXCEPT !.changes = @ + 1] \in Config
    BY DEF Config
  <1>7. [c EXCEPT !.changes = @ + 1].changes = c.changes + 1
    BY DEF Config
  <1> QED
    BY <1>1, <1>2, <1>3, <1>4, <1>5, <1>6, <1>7

LEMMA StoredTypes ==
    ASSUME TypeOK
    PROVE  /\ Stored \in Config /\ Defaults \in Config
           /\ disk # Torn => Stored = disk /\ disk \in Config
           /\ Torn \notin Config
  <1>1. Defaults \in Config
    BY DEF Defaults, Config
  <1>2. Torn \notin Config
    BY DaemonLifeAssumption DEF DaemonLifeAssumption, Config
  <1> QED
    BY <1>1, <1>2 DEF Stored, TypeOK

LEMMA MergedTypes ==
    ASSUME TypeOK, NEW p \in Process, disk # Torn
    PROVE  Merged(p) \in Config /\ Merged(p).changes >= disk.changes
  <1>1. disk \in Config /\ disk.changes \in Nat /\ mem[p].changes \in Nat
    BY DEF TypeOK, Config
  <1>2. Merged(p) \in Config
    BY <1>1 DEF Merged, Config
  <1>3. Merged(p).changes = IF disk.changes < mem[p].changes THEN mem[p].changes ELSE disk.changes
    BY <1>1 DEF Merged, Config
  <1> QED
    BY <1>1, <1>2, <1>3

-----------------------------------------------------------------------------
(* What the steps that may save do to the configurations.                  *)

\* The daemon's file has what clients were told of, or it is torn, and the process that
\* will write it anew has that.
Held(p) ==
    /\ disk # Torn => disk.changes >= acked
    /\ disk = Torn => ~away[p]
    /\ ~away[p] => mem[p].changes >= acked

Saved(p, c) ==
    /\ mem' = [mem EXCEPT ![p] = c] /\ UNCHANGED <<away, lost>>
    /\ disk' \in {disk, c, Torn} /\ (away[p] => disk' = disk)

SyncTypes ==
    /\ syncing \in [Process -> BOOLEAN] /\ hung \in [Process -> BOOLEAN]
    /\ failed \in [Process -> BOOLEAN]

\* The types that such a step is to keep, and what it is to leave of p's and the others'.
Worked(p) ==
    /\ disk' \in Config \union {Torn} /\ mem' \in [Process -> Config]
    /\ away' \in [Process -> BOOLEAN] /\ lost' \in BOOLEAN /\ acked' \in Nat /\ faults' \in Nat
    /\ lost => lost'
    /\ Held(p) /\ ~lost' => Held(p)'

LEMMA SaveKinds ==
    ASSUME TypeOK, NEW p \in Process, NEW c \in Config, Save(p, c)
    PROVE  Saved(p, c) /\ faults' \in Nat
  BY DEF TypeOK, Save, Written, NotWritten, Fault, Saved

LEMMA SavedWorks ==
    ASSUME TypeOK, NEW p \in Process, NEW c \in Config, Saved(p, c), faults' \in Nat,
           c.changes = mem[p].changes, UNCHANGED acked
    PROVE  Worked(p)
  <1>1. /\ disk' \in Config \union {Torn} /\ mem' \in [Process -> Config] /\ mem'[p] = c
        /\ away' = away /\ lost' = lost
    BY DEF Saved, TypeOK
  <1>2. Torn \notin Config
    BY StoredTypes
  <1>3. ASSUME Held(p) PROVE Held(p)'
    <2>1. CASE away[p]
      BY <1>1, <1>3, <2>1 DEF Saved, Held
    <2>2. CASE ~away[p]
      BY <1>1, <1>2, <1>3, <2>2 DEF Saved, Held
    <2> QED
      BY <2>1, <2>2
  <1> QED
    BY <1>1, <1>3 DEF Worked, TypeOK

\* A step that leaves the configurations alone.
LEMMA NothingSaved ==
    ASSUME TypeOK, NEW p \in Process, UNCHANGED <<config, acked>>, faults' \in Nat
    PROVE  Worked(p)
  BY DEF Worked, TypeOK, config, Held

LEMMA StartWorks ==
    ASSUME TypeOK, NEW p \in Process, NEW listed \in BOOLEAN, StartAutoSync(p, listed),
           UNCHANGED acked
    PROVE  /\ Worked(p) /\ SyncTypes'
           /\ syncing' = syncing \/ syncing' = [syncing EXCEPT ![p] = TRUE]
  <1> DEFINE c == Started(mem[p], listed)
  <1>1. mem[p] \in Config
    BY DEF TypeOK
  <1>2. c \in Config /\ c.changes = mem[p].changes
    BY <1>1, ConfigTypes
  <1> HIDE DEF c
  <1>3. CASE syncing[p] /\ UNCHANGED <<config, autosync, faults>>
    <2>1. faults' \in Nat
      BY <1>3 DEF TypeOK
    <2> QED
      BY <1>3, <2>1, NothingSaved DEF TypeOK, SyncTypes, autosync
  <1>4. CASE /\ ~syncing[p] /\ Save(p, c)
             /\ syncing' = [syncing EXCEPT ![p] = TRUE]
             /\ \E b \in BOOLEAN : hung' = [hung EXCEPT ![p] = b /\ StopUnderWay(p)]
             /\ UNCHANGED failed
    <2>1. Worked(p)
      BY <1>2, <1>4, SaveKinds, SavedWorks
    <2>2. PICK b : hung' = [hung EXCEPT ![p] = b /\ StopUnderWay(p)]
      BY <1>4
    <2>3. (b /\ StopUnderWay(p)) \in BOOLEAN
      OBVIOUS
    <2>4. hung' \in [Process -> BOOLEAN]
      BY <2>2, <2>3 DEF TypeOK
    <2> QED
      BY <1>4, <2>1, <2>4 DEF TypeOK, SyncTypes
  <1>5. CASE CannotWatch(p, listed)
    <2>1. faults' \in Nat /\ SyncTypes' /\ syncing' = syncing
      BY <1>5 DEF CannotWatch, NotWritten, Fault, TypeOK, SyncTypes
    <2>2. CASE UNCHANGED config
      BY <2>1, <2>2, NothingSaved
    <2>3. CASE Written(p, c) \/ NotWritten(p, c)
      <3>1. Saved(p, c)
        BY <2>3 DEF Written, NotWritten, Saved, TypeOK
      <3> QED
        BY <1>2, <2>1, <3>1, SavedWorks
    <2> QED
      BY <1>5, <2>1, <2>2, <2>3 DEF CannotWatch, c
  <1> QED
    BY <1>3, <1>4, <1>5 DEF StartAutoSync, c

\* Stop's save.
LEMMA StopSaves ==
    ASSUME TypeOK, NEW p \in Process, Save(p, [mem[p] EXCEPT !.enabled = FALSE]), UNCHANGED acked
    PROVE  Worked(p)
  <1>1. mem[p] \in Config
    BY DEF TypeOK
  <1>2. [mem[p] EXCEPT !.enabled = FALSE] \in Config
        /\ [mem[p] EXCEPT !.enabled = FALSE].changes = mem[p].changes
    BY <1>1, ConfigTypes
  <1> QED
    BY <1>2, SaveKinds, SavedWorks

LEMMA ChangeWorks ==
    ASSUME TypeOK, NEW p \in Process, ChangeCall(p)
    PROVE  Worked(p)
  <1> DEFINE c == [mem[p] EXCEPT !.changes = @ + 1]
  <1>1. mem[p] \in Config /\ mem[p].changes \in Nat /\ acked \in Nat
    BY DEF TypeOK, Config
  <1>2. c \in Config /\ c.changes = mem[p].changes + 1
    BY <1>1, ConfigTypes
  <1>3. Torn \notin Config
    BY StoredTypes
  <1> HIDE DEF c
  <1>4. CASE Written(p, c) /\ acked' = (IF away[p] THEN acked ELSE acked + 1) /\ UNCHANGED faults
    <2>1. /\ disk' = (IF away[p] THEN disk ELSE c) /\ mem' \in [Process -> Config] /\ mem'[p] = c
          /\ away' = away /\ lost' = lost
      BY <1>2, <1>4 DEF Written, TypeOK
    <2>2. acked' \in Nat /\ faults' \in Nat /\ disk' \in Config \union {Torn}
      BY <1>1, <1>2, <1>4, <2>1 DEF TypeOK
    <2>3. Held(p) => Held(p)'
      BY <1>1, <1>2, <1>3, <1>4, <2>1 DEF Held
    <2> QED
      BY <2>1, <2>2, <2>3 DEF Worked, TypeOK
  <1>5. CASE NotWritten(p, c) /\ UNCHANGED acked
    <2>1. /\ disk' \in {disk, Torn} /\ (away[p] => disk' = disk)
          /\ mem' \in [Process -> Config] /\ mem'[p] = c
          /\ away' = away /\ lost' = lost /\ faults' \in Nat
      BY <1>2, <1>5 DEF NotWritten, Fault, TypeOK
    <2>2. Held(p) => Held(p)'
      BY <1>1, <1>2, <1>3, <1>5, <2>1 DEF Held
    <2> QED
      BY <1>5, <2>1, <2>2 DEF Worked, TypeOK
  <1> QED
    BY <1>4, <1>5 DEF ChangeCall, c

LEMMA ReplaceWorks ==
    ASSUME TypeOK, NEW p \in Process, ReplaceCall(p)
    PROVE  Worked(p)
  <1>1. mem[p].changes \in Nat /\ acked \in Nat /\ Torn \notin Config
    BY StoredTypes DEF TypeOK, Config
  <1>2. PICK c \in [enabled : BOOLEAN, listed : BOOLEAN, changes : 0..mem[p].changes] :
               /\ Save(p, c)
               /\ acked' = IF away[p] \/ acked <= c.changes THEN acked ELSE c.changes
    BY DEF ReplaceCall
  <1>3. c \in Config /\ c.changes \in Nat
    BY <1>1 DEF Config
  <1>4. Saved(p, c) /\ faults' \in Nat
    BY <1>2, <1>3, SaveKinds
  <1>5. /\ disk' \in Config \union {Torn} /\ mem' \in [Process -> Config] /\ mem'[p] = c
        /\ away' = away /\ lost' = lost /\ acked' \in Nat
    BY <1>1, <1>2, <1>3, <1>4 DEF Saved, TypeOK
  <1>6. disk # Torn => disk.changes \in Nat
    BY DEF TypeOK, Config
  <1>7. ASSUME Held(p) PROVE Held(p)'
    <2>1. CASE away[p]
      BY <1>2, <1>4, <1>5, <1>7, <2>1 DEF Saved, Held
    <2>2. CASE ~away[p]
      <3>1. acked' <= acked /\ acked' <= c.changes
        BY <1>1, <1>2, <1>3, <2>2
      <3>2. disk' # Torn => disk'.changes >= acked'
        BY <1>1, <1>3, <1>4, <1>5, <1>6, <1>7, <3>1 DEF Saved, Held
      <3> QED
        BY <1>3, <1>5, <2>2, <3>1, <3>2 DEF Held
    <2> QED
      BY <2>1, <2>2
  <1> QED
    BY <1>4, <1>5, <1>7 DEF Worked, TypeOK

LEMMA LoadWorks ==
    ASSUME TypeOK, NEW p \in Process, LoadCall(p)
    PROVE  Worked(p)
  <1>1. UNCHANGED <<disk, acked, faults>> /\ acked \in Nat /\ Torn \notin Config
    BY StoredTypes DEF LoadCall, LoadOwn, LoadOther, TypeOK
  <1>2. CASE LoadOwn(p)
    <2>1. away' = [away EXCEPT ![p] = FALSE] /\ lost' = lost
      BY <1>2 DEF LoadOwn
    <2>2. CASE disk = Torn /\ UNCHANGED mem
      BY <1>1, <2>1, <2>2 DEF Worked, Held, TypeOK
    <2>3. CASE disk # Torn /\ \E c \in {disk, Merged(p)} : mem' = [mem EXCEPT ![p] = c]
      <3>1. PICK c \in {disk, Merged(p)} : mem' = [mem EXCEPT ![p] = c]
        BY <2>3
      <3>2. c \in Config /\ disk \in Config
        BY <2>3, MergedTypes, StoredTypes
      <3>3. c.changes >= disk.changes /\ disk.changes \in Nat /\ c.changes \in Nat
        BY <2>3, <3>2, MergedTypes DEF Config
      <3>4. mem' \in [Process -> Config] /\ mem'[p] = c
        BY <3>1, <3>2 DEF TypeOK
      <3>5. Held(p) => Held(p)'
        BY <1>1, <2>1, <2>3, <3>3, <3>4 DEF Held, TypeOK
      <3> QED
        BY <1>1, <2>1, <3>4, <3>5 DEF Worked, TypeOK
    <2> QED
      BY <1>2, <2>2, <2>3 DEF LoadOwn
  <1>3. CASE LoadOther(p)
    <2>1. away' = [away EXCEPT ![p] = TRUE] /\ lost' = (lost \/ disk = Torn)
      BY <1>3 DEF LoadOther
    <2>2. mem' \in [Process -> Config]
      <3>1. CASE \E on, listed \in BOOLEAN :
                   mem' = [mem EXCEPT ![p] = [enabled |-> on, listed |-> listed, changes |-> 0]]
        BY <3>1 DEF TypeOK, Config
      <3>2. CASE UNCHANGED mem
        BY <3>2 DEF TypeOK
      <3>3. CASE disk # Torn /\ mem' = [mem EXCEPT ![p] = Merged(p)]
        BY <3>3, MergedTypes DEF TypeOK
      <3> QED
        BY <1>3, <3>1, <3>2, <3>3 DEF LoadOther
    <2>3. Held(p) /\ ~lost' => Held(p)'
      BY <1>1, <2>1 DEF Held, TypeOK
    <2> QED
      BY <1>1, <2>1, <2>2, <2>3 DEF Worked, TypeOK
  <1> QED
    BY <1>2, <1>3 DEF LoadCall

\* The steps that may save.
Works(p) ==
    \/ Handle(p)
    \/ \E i \in Invoker : PersistStopped(p, i)
    \/ DelayedStart(p) \/ MonitorStep(p)

LEMMA HandleWorks ==
    ASSUME TypeOK, NEW p \in Process, Handle(p)
    PROVE  /\ Worked(p) /\ SyncTypes'
           /\ rpcs[p] # {} /\ \E here \in SUBSET Rpc : rpcs' = [rpcs EXCEPT ![p] = here]
           /\ stop' = stop \/ stop' = [stop EXCEPT ![p].rpc = IF @ = "no" THEN "graceful" ELSE @]
           /\ \E b \in BOOLEAN : syncing' = syncing \/ syncing' = [syncing EXCEPT ![p] = b]
  <1> DEFINE Ended == rpcs[p] # {} /\ \E here \in SUBSET Rpc : rpcs' = [rpcs EXCEPT ![p] = here]
  <1>1. rpcs[p] \in SUBSET Rpc
    BY DEF TypeOK
  <1>2. ASSUME NEW k, Ends(p, k) PROVE Ended
    <2>1. (rpcs[p] \ {k}) \in SUBSET Rpc
      BY <1>1
    <2> QED
      BY <1>2, <2>1 DEF Ends
  <1>3. UNCHANGED faults => faults' \in Nat
    BY DEF TypeOK
  <1>4. CASE StartCall(p)
    <2>1. PICK listed \in BOOLEAN : /\ Ends(p, IF listed THEN "start some" ELSE "start")
                                    /\ StartAutoSync(p, listed)
      BY <1>4 DEF StartCall
    <2>2. Ended
      BY <1>2, <2>1
    <2> HIDE DEF Ended
    <2>3. UNCHANGED <<stop, acked>>
      BY <1>4 DEF StartCall
    <2>4. /\ Worked(p) /\ SyncTypes'
          /\ syncing' = syncing \/ syncing' = [syncing EXCEPT ![p] = TRUE]
      BY <2>1, <2>3, StartWorks
    <2> QED
      BY <2>2, <2>3, <2>4 DEF Ended
  <1>5. CASE StopCall(p)
    <2>1. "stopping" \in Rpc
      BY DEF Rpc
    <2>2. ((rpcs[p] \ {"stop"}) \union (IF syncing[p] THEN {"stopping"} ELSE {})) \in SUBSET Rpc
      BY <1>1, <2>1
    <2>3. Ended
      BY <1>5, <2>2 DEF StopCall
    <2> HIDE DEF Ended
    <2>4. syncing' = [syncing EXCEPT ![p] = FALSE] /\ UNCHANGED <<config, hung, failed, stop, acked, faults>>
      BY <1>5 DEF StopCall
    <2>5. Worked(p) /\ SyncTypes'
      BY <1>3, <2>4, NothingSaved DEF TypeOK, SyncTypes
    <2> QED
      BY <2>3, <2>4, <2>5 DEF Ended
  <1>6. CASE StopEnds(p) \/ ChangeCall(p) \/ ReplaceCall(p) \/ LoadCall(p) \/ ShutdownCall(p)
    <2>1. Ended
      BY <1>2, <1>6 DEF StopEnds, ChangeCall, ReplaceCall, LoadCall, ShutdownCall
    <2> HIDE DEF Ended
    <2>2. UNCHANGED autosync
      BY <1>6 DEF StopEnds, ChangeCall, ReplaceCall, LoadCall, ShutdownCall
    <2>3. SyncTypes' /\ syncing' = syncing
      BY <2>2 DEF autosync, TypeOK, SyncTypes
    <2>4. CASE StopEnds(p)
      <3>1. Worked(p)
        BY <2>4, StopSaves DEF StopEnds
      <3> QED
        BY <2>1, <2>3, <2>4, <3>1 DEF StopEnds, Ended
    <2>5. CASE ChangeCall(p) \/ ReplaceCall(p) \/ LoadCall(p)
      <3>1. Worked(p)
        BY <2>5, ChangeWorks, ReplaceWorks, LoadWorks
      <3>2. UNCHANGED stop
        BY <2>5 DEF ChangeCall, ReplaceCall, LoadCall
      <3> QED
        BY <2>1, <2>3, <3>1, <3>2 DEF Ended
    <2>6. CASE ShutdownCall(p)
      <3>1. Worked(p)
        BY <1>3, <2>6, NothingSaved DEF ShutdownCall
      <3> QED
        BY <2>1, <2>3, <2>6, <3>1 DEF ShutdownCall, Ended
    <2> QED
      BY <1>6, <2>4, <2>5, <2>6
  <1> QED
    BY <1>4, <1>5, <1>6 DEF Handle

LEMMA WorkWorks ==
    ASSUME TypeOK, NEW p \in Process, Works(p)
    PROVE  Worked(p) /\ SyncTypes' /\ UNCHANGED <<run, lock, overlap>>
  <1>1. mem[p] \in Config
    BY DEF TypeOK
  <1>2. mem[p].listed \in BOOLEAN
    BY <1>1, ConfigTypes
  <1>3. CASE Handle(p)
    BY <1>3, HandleWorks DEF Handle
  <1>4. ASSUME NEW i \in Invoker, PersistStopped(p, i)
        PROVE  Worked(p) /\ SyncTypes' /\ UNCHANGED <<run, lock, overlap>>
    <2>1. Worked(p)
      BY <1>4, StopSaves DEF PersistStopped
    <2> QED
      BY <1>4, <2>1 DEF PersistStopped, TypeOK, SyncTypes, autosync
  <1>5. CASE DelayedStart(p)
    BY <1>2, <1>5, StartWorks DEF DelayedStart
  <1>6. CASE MonitorStep(p)
    <2>1. UNCHANGED <<acked, run, lock, overlap>>
      BY <1>6 DEF MonitorStep
    <2>2. StartAutoSync(p, FALSE) \/ UNCHANGED <<config, autosync, faults>>
      BY <1>6 DEF MonitorStep
    <2>3. CASE UNCHANGED <<config, autosync, faults>>
      <3>1. faults' \in Nat /\ SyncTypes'
        BY <2>3 DEF TypeOK, SyncTypes, autosync
      <3> QED
        BY <2>1, <2>3, <3>1, NothingSaved
    <2> QED
      BY <2>1, <2>2, <2>3, StartWorks
  <1> QED
    BY <1>3, <1>4, <1>5, <1>6 DEF Works

\* The other steps of a process save nothing, apart from Arrive's.
Still(p) ==
    \/ Signal(p) \/ IdleTick(p) \/ IdleStep(p)
    \/ Step(p) /\ ~Exit(p)
    \/ \E i \in Invoker : \/ Stopping(p, i) /\ ~PersistStopped(p, i)
                          \/ WaitTimeout(p, i)
    \/ \E k \in Arrivals : Arrive(p, k)

LEMMA TypesStill ==
    ASSUME TypeOK, NEW p \in Process, Still(p)
    PROVE  TypeOK'
  <1>1. CASE Signal(p)
    BY <1>1 DEF TypeOK, Signal, config, autosync, goroutines, bounds
  <1>2. CASE Serve(p)
    BY <1>2 DEF TypeOK, Serve, config, autosync, bounds
  <1>3. CASE AlreadyRunning(p) \/ ServeReturns(p) \/ RunReturns(p)
    BY <1>3 DEF TypeOK, AlreadyRunning, ServeReturns, RunReturns, config, autosync, goroutines, bounds
  <1>4. CASE RunShutdown(p)
    BY <1>4 DEF TypeOK, RunShutdown, Invoker, config, autosync, goroutines, bounds
  <1>5. CASE Release(p)
    BY <1>5 DEF TypeOK, Release, config, autosync, goroutines, bounds
  <1>6. CASE IdleTick(p) \/ IdleStep(p)
    BY <1>6 DEF TypeOK, IdleTick, IdleStep, config, autosync, bounds
  <1>7. ASSUME NEW i \in Invoker,
               GracefulStop(p, i) \/ CancelContext(p, i) \/ WaitGroup(p, i) \/ WaitTimeout(p, i)
                 \/ StopSync(p, i)
        PROVE  TypeOK'
    <2>1. stop' \in [Process -> [Invoker -> {"no", "graceful", "cancel", "wait", "check",
                                             "persist", "done"}]]
      <3>1. PICK next \in {"cancel", "wait", "check", "persist", "done"} :
                   stop' = stop \/ stop' = [stop EXCEPT ![p][i] = next]
        BY <1>7 DEF GracefulStop, CancelContext, WaitGroup, WaitTimeout, StopSync, At
      <3> DEFINE Where == {"no", "graceful", "cancel", "wait", "check", "persist", "done"}
      <3>2. stop \in [Process -> [Invoker -> Where]] /\ next \in Where
        BY <3>1 DEF TypeOK
      <3> HIDE DEF Where
      <3>3. [stop[p] EXCEPT ![i] = next] \in [Invoker -> Where]
        BY <3>2
      <3>4. stop' = stop \/ stop' = [stop EXCEPT ![p] = [stop[p] EXCEPT ![i] = next]]
        BY <3>1
      <3>5. stop' \in [Process -> [Invoker -> Where]]
        BY <3>2, <3>3, <3>4
      <3> QED
        BY <3>5 DEF Where
    <2>2. UNCHANGED <<run, lock, config, hung, failed, rpcs, signalled, goroutines, overlap, acked, bounds>>
      BY <1>7 DEF GracefulStop, CancelContext, WaitGroup, WaitTimeout, StopSync, autosync
    <2>3. server' \in [Process -> {"serving", "draining", "stopped"}]
      BY <1>7 DEF TypeOK, GracefulStop, CancelContext, WaitGroup, WaitTimeout, StopSync
    <2>4. cancelled' \in [Process -> BOOLEAN] /\ forced' \in [Process -> BOOLEAN]
      BY <1>7 DEF TypeOK, GracefulStop, CancelContext, WaitGroup, WaitTimeout, StopSync
    <2>5. syncing' \in [Process -> BOOLEAN]
      BY <1>7 DEF TypeOK, GracefulStop, CancelContext, WaitGroup, WaitTimeout, StopSync, autosync
    <2> QED
      BY <2>1, <2>2, <2>3, <2>4, <2>5 DEF TypeOK, config, goroutines, bounds
  <1>8. ASSUME NEW k \in Arrivals, Arrive(p, k) PROVE TypeOK'
    <2>1. k \in Rpc
      BY DEF Rpc
    <2> QED
      BY <1>8, <2>1 DEF TypeOK, Arrive, config, autosync, goroutines
  <1> QED
    BY <1>1, <1>2, <1>3, <1>4, <1>5, <1>6, <1>7, <1>8 DEF Still, Step, Stopping

LEMMA TypesWork ==
    ASSUME TypeOK, NEW p \in Process, Works(p)
    PROVE  TypeOK'
  <1>1. Worked(p) /\ SyncTypes' /\ UNCHANGED <<run, lock, overlap>>
    BY WorkWorks
  <1>2. /\ disk' \in Config \union {Torn} /\ mem' \in [Process -> Config]
        /\ away' \in [Process -> BOOLEAN] /\ lost' \in BOOLEAN /\ acked' \in Nat /\ faults' \in Nat
    BY <1>1 DEF Worked
  <1>3. CASE Handle(p)
    <2>1. UNCHANGED <<server, cancelled, signalled, idle, monitor, delayed, forced, starts, calls>>
      BY <1>3 DEF Handle, goroutines
    <2>2. rpcs' \in [Process -> SUBSET Rpc]
      <3>1. PICK here \in SUBSET Rpc : rpcs' = [rpcs EXCEPT ![p] = here]
        BY <1>3, HandleWorks
      <3>2. rpcs \in [Process -> SUBSET Rpc]
        BY DEF TypeOK
      <3> QED
        BY <3>1, <3>2
    <2>3. stop' = stop \/ stop' = [stop EXCEPT ![p].rpc = IF @ = "no" THEN "graceful" ELSE @]
      BY <1>3, HandleWorks
    <2>4. stop' \in [Process -> [Invoker -> {"no", "graceful", "cancel", "wait", "check",
                                             "persist", "done"}]]
      <3>1. PICK at \in {stop[p].rpc, "graceful"} :
                   stop' = stop \/ stop' = [stop EXCEPT ![p].rpc = at]
        BY <2>3
      <3> DEFINE Where == {"no", "graceful", "cancel", "wait", "check", "persist", "done"}
      <3>2. stop \in [Process -> [Invoker -> Where]] /\ "rpc" \in Invoker /\ "graceful" \in Where
        BY DEF TypeOK, Invoker
      <3> HIDE DEF Where
      <3>3. [stop[p] EXCEPT !["rpc"] = at] \in [Invoker -> Where]
        BY <3>1, <3>2
      <3>4. stop' = stop \/ stop' = [stop EXCEPT ![p] = [stop[p] EXCEPT !["rpc"] = at]]
        BY <3>1
      <3>5. stop' \in [Process -> [Invoker -> Where]]
        BY <3>2, <3>3, <3>4
      <3> QED
        BY <3>5 DEF Where
    <2> QED
      BY <1>1, <1>2, <2>1, <2>2, <2>4 DEF TypeOK, SyncTypes
  <1>4. CASE \E i \in Invoker : PersistStopped(p, i)
    BY <1>1, <1>2, <1>4 DEF TypeOK, SyncTypes, PersistStopped, At, goroutines
  <1>5. CASE DelayedStart(p)
    BY <1>1, <1>2, <1>5 DEF TypeOK, SyncTypes, DelayedStart
  <1>6. CASE MonitorStep(p)
    BY <1>1, <1>2, <1>6 DEF TypeOK, SyncTypes, MonitorStep
  <1> QED
    BY <1>3, <1>4, <1>5, <1>6 DEF Works

LEMMA TypesGone ==
    ASSUME TypeOK, NEW p \in Process, Exit(p) \/ Crash(p)
    PROVE  TypeOK'
  <1>1. faults' \in Nat /\ disk' \in Config \union {Torn}
    BY DEF Exit, Crash, Fault, TypeOK
  <1>2. Gone(p) /\ Defaults \in Config
    BY StoredTypes DEF Exit, Crash
  <1> QED
    BY <1>1, <1>2 DEF Gone, TypeOK

LEMMA TypesNew ==
    ASSUME TypeOK, NEW p \in Process, New(p)
    PROVE  TypeOK'
  <1>1. Stored \in Config
    BY StoredTypes
  <1> QED
    BY <1>1 DEF TypeOK, New, autosync

LEMMA TypesOther ==
    ASSUME TypeOK, OtherStarts \/ OtherSaves \/ OtherEnds
    PROVE  TypeOK'
  <1>1. CASE OtherStarts
    BY <1>1 DEF TypeOK, OtherStarts, config, autosync, goroutines
  <1>2. CASE OtherSaves
    <2>1. [Stored EXCEPT !.changes = @ + 1] \in Config
      BY StoredTypes, ConfigTypes
    <2> QED
      BY <1>2, <2>1 DEF TypeOK, OtherSaves, autosync, goroutines
  <1>3. CASE OtherEnds
    <2>1. disk' \in Config \union {Torn} /\ lost' \in BOOLEAN /\ faults' \in Nat
      <3>1. CASE UNCHANGED <<disk, lost, faults>>
        BY <3>1 DEF TypeOK
      <3>2. CASE Fault /\ disk' = Torn /\ lost' = TRUE
        BY <3>2 DEF TypeOK, Fault
      <3> QED
        BY <1>3, <3>1, <3>2 DEF OtherEnds
    <2>2. lock' = None /\ UNCHANGED <<run, mem, away, autosync, server, rpcs, cancelled, signalled, goroutines,
                                    stop, forced, overlap, acked, starts, calls>>
      BY <1>3 DEF OtherEnds
    <2> QED
      BY <2>1, <2>2 DEF TypeOK, autosync, goroutines
  <1> QED
    BY <1>1, <1>2, <1>3

\* The kinds of steps that the proofs below go through.
LEMMA StepKinds ==
    ASSUME Next
    PROVE  \/ OtherStarts \/ OtherSaves \/ OtherEnds
           \/ \E p \in Process : New(p) \/ Exit(p) \/ Crash(p) \/ Still(p) \/ Works(p)
  BY DEF Next, Step, Stopping, Still, Works

LEMMA InitTypes == ASSUME Init PROVE TypeOK
  <1>1. Defaults \in Config /\ 0 \in Nat
    BY DEF Defaults, Config
  <1>2. disk \in Config /\ mem \in [Process -> Config] /\ rpcs \in [Process -> SUBSET Rpc]
    BY <1>1 DEF Init
  <1>3. stop \in [Process -> [Invoker -> {"no", "graceful", "cancel", "wait", "check",
                                           "persist", "done"}]]
    BY DEF Init
  <1> QED
    BY <1>2, <1>3 DEF Init, TypeOK

\* The daemon's and the engine's state keep their types (daemon.go:24).
THEOREM TypeCorrect == Spec => []TypeOK
  <1>1. Init => TypeOK
    BY InitTypes
  <1>2. TypeOK /\ [Next]_vars => TypeOK'
    <2>1. TypeOK /\ UNCHANGED vars => TypeOK'
      BY DEF vars, config, autosync, goroutines, bounds, TypeOK
    <2>2. TypeOK /\ Next => TypeOK'
      BY StepKinds, TypesOther, TypesNew, TypesGone, TypesStill, TypesWork
    <2> QED
      BY <2>1, <2>2
  <1> QED
    BY <1>1, <1>2, PTL DEF Spec

-----------------------------------------------------------------------------
(* What is acknowledged survives.  As long as no process was started beside *)
(* another one, the one that is there has all of it in its memory, so that  *)
(* nothing it saves takes a change back, and it can write a torn file anew. *)

Alone ==
    \A p \in Process : Alive(p) => lock # Other /\ \A q \in Process \ {p} : ~Alive(q)

Kept ==
    /\ (\A p \in Process : ~Alive(p)) => disk # Torn /\ disk.changes >= acked
    /\ \A p \in Process : Alive(p) => Held(p)

\* A process that is not there does nothing.
Absent ==
    \A p \in Process : ~Alive(p) =>
      /\ rpcs[p] = {} /\ server[p] = "stopped"
      /\ monitor[p] = "done" /\ delayed[p] = "done" /\ idle[p] = "done"

Durable ==
    /\ TypeOK /\ Absent
    /\ ~overlap => Alone /\ (lost \/ Kept)

\* Whatever a step of p does, it leaves the goroutines of the others alone.
LEMMA AbsentStep ==
    ASSUME TypeOK, Absent, NEW p \in Process, Still(p) \/ Works(p)
    PROVE  /\ Alive(p) /\ Alive(p)' /\ Absent'
           /\ \A q \in Process \ {p} : run'[q] = run[q]
  <1> DEFINE Other4(q) == /\ rpcs'[q] = rpcs[q] /\ server'[q] = server[q] /\ run'[q] = run[q]
                          /\ monitor'[q] = monitor[q] /\ delayed'[q] = delayed[q] /\ idle'[q] = idle[q]
  <1>1. ASSUME Still(p) PROVE Alive(p) /\ Alive(p)' /\ \A q \in Process \ {p} : Other4(q)
    <2>1. CASE Signal(p) \/ Serve(p) \/ AlreadyRunning(p) \/ RunShutdown(p) \/ ServeReturns(p)
               \/ RunReturns(p) \/ Release(p)
      BY <2>1 DEF Signal, Serve, AlreadyRunning, RunShutdown, ServeReturns, RunReturns, Release,
         Alive, TypeOK, goroutines
    <2>2. CASE IdleTick(p) \/ IdleStep(p)
      BY <2>2 DEF IdleTick, IdleStep, Alive, TypeOK, Absent
    <2>3. ASSUME NEW i \in Invoker,
                 GracefulStop(p, i) \/ CancelContext(p, i) \/ WaitGroup(p, i) \/ WaitTimeout(p, i)
                   \/ StopSync(p, i)
          PROVE  Alive(p) /\ Alive(p)' /\ \A q \in Process \ {p} : Other4(q)
      BY <2>3 DEF GracefulStop, CancelContext, WaitGroup, WaitTimeout, StopSync, At, Alive, TypeOK, goroutines
    <2>4. ASSUME NEW k \in Arrivals, Arrive(p, k) PROVE Alive(p) /\ Alive(p)' /\ \A q \in Process \ {p} : Other4(q)
      BY <2>4 DEF Arrive, Alive, TypeOK, goroutines
    <2> QED
      BY <1>1, <2>1, <2>2, <2>3, <2>4 DEF Still, Step, Stopping
  <1>2. ASSUME Works(p) PROVE Alive(p) /\ Alive(p)' /\ \A q \in Process \ {p} : Other4(q)
    <2>1. CASE Handle(p)
      <3>1. rpcs[p] # {} /\ \E here \in SUBSET Rpc : rpcs' = [rpcs EXCEPT ![p] = here]
        BY <2>1, HandleWorks
      <3>2. UNCHANGED <<run, server, monitor, delayed, idle>>
        BY <2>1 DEF Handle, goroutines
      <3>3. \A q \in Process \ {p} : rpcs'[q] = rpcs[q]
        BY <3>1 DEF TypeOK
      <3> QED
        BY <3>1, <3>2, <3>3 DEF Alive, Absent
    <2>2. ASSUME NEW i \in Invoker, PersistStopped(p, i)
          PROVE  Alive(p) /\ Alive(p)' /\ \A q \in Process \ {p} : Other4(q)
      BY <2>2 DEF PersistStopped, At, Alive, goroutines
    <2>3. CASE DelayedStart(p)
      BY <2>3 DEF DelayedStart, Alive, TypeOK, Absent
    <2>4. CASE MonitorStep(p)
      BY <2>4 DEF MonitorStep, Alive, TypeOK, Absent
    <2> QED
      BY <1>2, <2>1, <2>2, <2>3, <2>4 DEF Works
  <1>3. Alive(p) /\ Alive(p)' /\ \A q \in Process \ {p} : Other4(q)
    BY <1>1, <1>2
  <1>4. Absent'
    BY <1>3 DEF Absent, Alive
  <1> QED
    BY <1>3, <1>4

LEMMA DurableStep ==
    ASSUME Durable, TypeOK', Absent', NEW p \in Process, Alive(p), Alive(p)',
           \A q \in Process \ {p} : run'[q] = run[q],
           lock' \in {lock, p, None}, UNCHANGED overlap,
           lost => lost', Held(p) /\ ~lost' => Held(p)'
    PROVE  Durable'
  <1> SUFFICES ASSUME ~overlap PROVE Alone' /\ (lost' \/ Kept')
    BY DEF Durable
  <1>1. Alone /\ (lost \/ Kept)
    BY DEF Durable
  <1>2. lock # Other /\ \A q \in Process \ {p} : ~Alive(q)'
    BY <1>1 DEF Alone, Alive
  <1>3. lock' # Other
    BY <1>2, Names
  <1>4. Alone'
    BY <1>2, <1>3 DEF Alone
  <1>5. ASSUME ~lost' PROVE Kept'
    <2>1. Held(p)'
      BY <1>1, <1>5 DEF Kept
    <2> QED
      BY <1>2, <2>1 DEF Kept
  <1> QED
    BY <1>4, <1>5

LEMMA DurableStill ==
    ASSUME Durable, NEW p \in Process, Still(p)
    PROVE  Durable'
  <1>1. TypeOK' /\ Absent' /\ Alive(p) /\ Alive(p)' /\ \A q \in Process \ {p} : run'[q] = run[q]
    BY TypesStill, AbsentStep DEF Durable
  <1>2. UNCHANGED <<config, overlap, acked>> /\ lock' \in {lock, p, None}
    BY DEF Still, Step, Stopping, Signal, Serve, AlreadyRunning, RunShutdown, ServeReturns, RunReturns,
       Release, IdleTick, IdleStep, GracefulStop, CancelContext, WaitGroup, WaitTimeout, StopSync, Arrive
  <1>3. lost' = lost /\ (Held(p) => Held(p)')
    BY <1>2 DEF config, Held
  <1> QED
    BY <1>1, <1>2, <1>3, DurableStep

LEMMA DurableWork ==
    ASSUME Durable, NEW p \in Process, Works(p)
    PROVE  Durable'
  <1>1. TypeOK' /\ Absent' /\ Alive(p) /\ Alive(p)' /\ \A q \in Process \ {p} : run'[q] = run[q]
    BY TypesWork, AbsentStep DEF Durable
  <1>2. Worked(p) /\ UNCHANGED <<lock, overlap>>
    BY WorkWorks DEF Durable
  <1>3. (lost => lost') /\ (Held(p) /\ ~lost' => Held(p)')
    BY <1>2 DEF Worked
  <1> QED
    BY <1>1, <1>2, <1>3, DurableStep

LEMMA DurableNew ==
    ASSUME Durable, NEW p \in Process, New(p)
    PROVE  Durable'
  <1>1. TypeOK /\ TypeOK' /\ Absent
    BY TypesNew DEF Durable
  <1>2. ~Alive(p) /\ mem'[p] = Stored /\ \A q \in Process \ {p} : run'[q] = run[q]
    BY <1>1 DEF New, Alive, TypeOK
  <1>3. UNCHANGED <<lock, disk, away, lost, acked>>
    BY DEF New
  <1>4. Absent'
    BY <1>1 DEF Absent, New, Alive, TypeOK
  <1>5. ASSUME ~overlap' PROVE Alone' /\ (lost' \/ Kept')
    <2>1. ~overlap /\ lock # Other /\ (\A q \in Process : ~Alive(q))
      BY <1>5 DEF New
    <2>2. \A q \in Process \ {p} : ~Alive(q)'
      BY <1>2, <2>1 DEF Alive
    <2>3. Alone'
      BY <1>3, <2>1, <2>2 DEF Alone
    <2>4. ASSUME ~lost PROVE Kept'
      <3>1. disk # Torn /\ disk.changes >= acked
        BY <2>1, <2>4 DEF Durable, Kept
      <3>2. mem'[p] = disk
        BY <1>1, <1>2, <3>1, StoredTypes
      <3>3. Held(p)' /\ Alive(p)'
        BY <1>1, <1>3, <3>1, <3>2 DEF Held, Alive, New, TypeOK
      <3> QED
        BY <2>2, <3>3 DEF Kept
    <2> QED
      BY <1>3, <2>3, <2>4
  <1> QED
    BY <1>1, <1>4, <1>5 DEF Durable

LEMMA DurableGone ==
    ASSUME Durable, NEW p \in Process, Exit(p) \/ Crash(p)
    PROVE  Durable'
  <1>1. TypeOK /\ TypeOK' /\ Absent /\ Gone(p) /\ Alive(p)
    BY TypesGone DEF Durable, Exit, Crash, Alive
  <1>2. Absent'
    BY <1>1 DEF Absent, Gone, Alive, TypeOK
  <1>3. /\ ~Alive(p)' /\ lock' \in {lock, None} /\ UNCHANGED <<acked, overlap>>
        /\ disk' \in {disk, Torn} /\ lost' = (lost \/ disk' = Torn)
        /\ \A q \in Process \ {p} : run'[q] = run[q]
    BY <1>1 DEF Gone, TypeOK, Alive, Exit, Crash
  <1>4. ASSUME ~overlap PROVE Alone' /\ (lost' \/ Kept')
    <2>1. Alone /\ (lost \/ Kept)
      BY <1>4 DEF Durable
    <2>2. \A q \in Process : ~Alive(q)'
      BY <1>1, <1>3, <2>1 DEF Alone, Alive
    <2>3. ASSUME ~lost' PROVE disk' # Torn /\ disk'.changes >= acked'
      BY <1>1, <1>3, <2>1, <2>3 DEF Kept, Held
    <2> QED
      BY <2>2, <2>3 DEF Alone, Kept
  <1> QED
    BY <1>1, <1>2, <1>3, <1>4 DEF Durable

LEMMA DurableOther ==
    ASSUME Durable, OtherStarts \/ OtherSaves \/ OtherEnds
    PROVE  Durable'
  <1>1. TypeOK /\ TypeOK' /\ Absent'
    BY TypesOther DEF Durable, Absent, Alive, OtherStarts, OtherSaves, OtherEnds, goroutines
  <1>2. ASSUME ~overlap' PROVE Alone' /\ (lost' \/ Kept')
    <2>1. ~overlap /\ Alone /\ (lost \/ Kept)
      <3>1. overlap' = overlap \/ overlap' = (overlap \/ \E p \in Process : Alive(p))
        BY DEF OtherStarts, OtherSaves, OtherEnds
      <3>2. ~overlap
        BY <1>2, <3>1
      <3> QED
        BY <3>2 DEF Durable
    <2>2. CASE OtherStarts
      <3>1. (\A p \in Process : ~Alive(p)) /\ UNCHANGED <<run, config, acked>>
        BY <1>2, <2>2 DEF OtherStarts
      <3> QED
        BY <2>1, <3>1 DEF Alone, Alive, Kept, config
    <2>3. CASE OtherSaves
      <3>1. (\A p \in Process : ~Alive(p)) /\ \A p \in Process : ~Alive(p)'
        BY <2>1, <2>3 DEF OtherSaves, Alone, Alive
      <3>2. disk' = [Stored EXCEPT !.changes = @ + 1] /\ acked' = acked + 1 /\ lost' = lost
        BY <2>3 DEF OtherSaves
      <3>3. ASSUME ~lost PROVE disk' # Torn /\ disk'.changes >= acked'
        <4>1. disk # Torn /\ disk.changes >= acked
          BY <2>1, <3>1, <3>3 DEF Kept
        <4>2. Stored = disk /\ Stored \in Config /\ Torn \notin Config /\ acked \in Nat
          BY <1>1, <4>1, StoredTypes DEF TypeOK
        <4>3. disk' \in Config /\ disk'.changes = disk.changes + 1 /\ disk.changes \in Nat
          BY <3>2, <4>2, ConfigTypes
        <4> QED
          BY <3>2, <4>1, <4>2, <4>3
      <3> QED
        BY <3>1, <3>2, <3>3 DEF Alone, Kept
    <2>4. CASE OtherEnds
      <3>1. (\A p \in Process : ~Alive(p)) /\ (\A p \in Process : ~Alive(p)') /\ acked' = acked
        BY <2>1, <2>4 DEF OtherEnds, Alone, Alive
      <3>2. UNCHANGED <<disk, lost>> \/ lost'
        BY <2>4 DEF OtherEnds
      <3> QED
        BY <2>1, <3>1, <3>2 DEF Alone, Kept
    <2> QED
      BY <2>2, <2>3, <2>4
  <1> QED
    BY <1>1, <1>2 DEF Durable

\* A change that a client was told of, and has not replaced, is in the daemon's file or, while
\* that is torn, in the memory of the process that will write it anew, through any crashes,
\* restarts and failing saves, until a process is started beside another one or the torn file
\* is left behind (config_manager.go:87, daemon.go:66).
THEOREM AcknowledgedSurvives == Spec => []AckedSurvives
  <1>1. Init => Durable
    <2> SUFFICES ASSUME Init PROVE Durable
      OBVIOUS
    <2>1. TypeOK
      BY InitTypes
    <2>2. Absent /\ Alone /\ \A p \in Process : ~Alive(p)
      BY DEF Init, Absent, Alone, Alive
    <2>3. disk.changes = 0 /\ acked = 0 /\ disk # Torn
      BY <2>1, StoredTypes DEF Init, Defaults
    <2> QED
      BY <2>1, <2>2, <2>3 DEF Durable, Kept
  <1>2. Durable /\ [Next]_vars => Durable'
    <2>1. Durable /\ UNCHANGED vars => Durable'
      BY DEF vars, config, autosync, goroutines, bounds, Durable, TypeOK, Absent, Alone, Kept, Held, Alive
    <2>2. Durable /\ Next => Durable'
      BY StepKinds, DurableOther, DurableNew, DurableGone, DurableStill, DurableWork
    <2> QED
      BY <2>1, <2>2
  <1>3. Durable => AckedSurvives
    <2> SUFFICES ASSUME Durable, ~overlap, ~lost PROVE AckedSurvives
      BY DEF AckedSurvives
    <2>1. Kept
      BY DEF Durable
    <2>2. CASE \A p \in Process : ~Alive(p)
      BY <2>1, <2>2 DEF Kept, AckedSurvives
    <2>3. ASSUME NEW p \in Process, Alive(p) PROVE AckedSurvives
      BY <2>1, <2>3 DEF Kept, Held, AckedSurvives
    <2> QED
      BY <2>2, <2>3
  <1> QED
    BY <1>1, <1>2, <1>3, PTL DEF Spec

-----------------------------------------------------------------------------
(* The ways out of a process.  Whichever of Run and the Shutdown call's      *)
(* goroutine is ahead, a server that has stopped lets nobody in and has      *)
(* answered everybody, and a shutdown is past its wait only when the         *)
(* auto-sync monitor is gone or the wait was given up.                      *)

Later == {"cancel", "wait", "check", "persist", "done"}   \* than GracefulStop
Past  == {"check", "persist", "done"}                     \* the wait

WayOut(p) ==
    /\ run[p] \in {"off", "new"} =>
         server[p] = "stopped" /\ \A i \in Invoker : stop[p][i] = "no"
    /\ server[p] = "stopped" => rpcs[p] = {}
    /\ run[p] \in {"leaving", "released"} => server[p] = "stopped"
    /\ \A i \in Invoker :
         /\ stop[p][i] \in Later => server[p] = "stopped"
         /\ stop[p][i] \in Past => monitor[p] = "done" \/ forced[p]

Ordered == TypeOK /\ Absent /\ \A p \in Process : WayOut(p)

\* A process's own step leaves the ways out of the others alone.
Apart(p, q) ==
    UNCHANGED <<run[q], server[q], rpcs[q], monitor[q], forced[q], stop[q]>>

LEMMA ApartWayOut ==
    ASSUME Ordered, NEW p \in Process, NEW q \in Process, Apart(p, q)
    PROVE  WayOut(q)'
  BY DEF Apart, WayOut, Ordered

\* At moves one of the two goroutines in shutdown.
LEMMA AtMoves ==
    ASSUME TypeOK, NEW p \in Process, NEW i \in Invoker, NEW here, NEW next, At(p, i, here, next)
    PROVE  /\ Alive(p) /\ stop[p][i] = here /\ stop'[p][i] = next
           /\ \A j \in Invoker \ {i} : stop'[p][j] = stop[p][j]
           /\ \A q \in Process \ {p} : stop'[q] = stop[q]
  BY DEF At, TypeOK

LEMMA OrderedShutdown ==
    ASSUME Ordered, NEW p \in Process, NEW i \in Invoker, Stopping(p, i) \/ WaitTimeout(p, i)
    PROVE  WayOut(p)' /\ \A q \in Process \ {p} : Apart(p, q)
  <1>1. TypeOK /\ WayOut(p)
    BY DEF Ordered
  <1>2. CASE GracefulStop(p, i)
    <2>1. CASE rpcs[p] = {}
      <3>1. At(p, i, "graceful", "cancel")
        BY <1>2, <2>1 DEF GracefulStop
      <3>2. /\ server'[p] = "stopped" /\ rpcs'[p] = {} /\ run' = run /\ monitor' = monitor /\ forced' = forced
            /\ rpcs' = rpcs /\ \A q \in Process \ {p} : server'[q] = server[q]
        BY <1>1, <1>2, <2>1 DEF GracefulStop, TypeOK, goroutines
      <3> QED
        BY <1>1, <3>1, <3>2, AtMoves DEF WayOut, Apart, Later, Past
    <2>2. CASE rpcs[p] # {}
      <3>1. stop[p][i] = "graceful" /\ server[p] # "stopped" /\ UNCHANGED stop
        BY <1>1, <1>2, <2>2 DEF GracefulStop, WayOut
      <3>2. /\ server'[p] = "draining" /\ run' = run /\ monitor' = monitor /\ forced' = forced
            /\ rpcs' = rpcs /\ \A q \in Process \ {p} : server'[q] = server[q]
        BY <1>1, <1>2, <2>2 DEF GracefulStop, TypeOK, goroutines
      <3> QED
        BY <1>1, <3>1, <3>2 DEF WayOut, Apart
    <2> QED
      BY <2>1, <2>2
  <1>3. CASE CancelContext(p, i)
    <2>1. At(p, i, "cancel", "wait") /\ UNCHANGED <<run, server, rpcs, monitor, forced>>
      BY <1>3 DEF CancelContext, goroutines
    <2> QED
      BY <1>1, <2>1, AtMoves DEF WayOut, Apart, Later, Past
  <1>4. CASE WaitGroup(p, i)
    <2>1. At(p, i, "wait", "check") /\ monitor[p] = "done" /\ UNCHANGED <<run, server, rpcs, monitor, forced>>
      BY <1>4 DEF WaitGroup, goroutines
    <2> QED
      BY <1>1, <2>1, AtMoves DEF WayOut, Apart, Later, Past
  <1>5. CASE WaitTimeout(p, i)
    <2>1. At(p, i, "wait", "check") /\ UNCHANGED <<run, rpcs, monitor>>
      BY <1>5 DEF WaitTimeout, goroutines
    <2>2. /\ forced'[p] = TRUE /\ server'[p] = "stopped"
          /\ \A q \in Process \ {p} : server'[q] = server[q] /\ forced'[q] = forced[q]
      BY <1>1, <1>5 DEF WaitTimeout, TypeOK
    <2> QED
      BY <1>1, <2>1, <2>2, AtMoves DEF WayOut, Apart, Later, Past
  <1>6. CASE StopSync(p, i) \/ PersistStopped(p, i)
    <2>1. PICK here \in Past, next \in Past : At(p, i, here, next)
      BY <1>6 DEF StopSync, PersistStopped, Past
    <2>2. UNCHANGED <<run, server, rpcs, monitor, forced>>
      BY <1>6 DEF StopSync, PersistStopped, goroutines
    <2> QED
      BY <1>1, <2>1, <2>2, AtMoves DEF WayOut, Apart, Later, Past
  <1> QED
    BY <1>2, <1>3, <1>4, <1>5, <1>6 DEF Stopping

LEMMA OrderedRun ==
    ASSUME Ordered, NEW p \in Process, New(p) \/ Signal(p) \/ Step(p) \/ Crash(p)
    PROVE  WayOut(p)' /\ \A q \in Process \ {p} : Apart(p, q)
  <1>1. TypeOK /\ Absent /\ WayOut(p)
    BY DEF Ordered
  <1>2. CASE New(p)
    BY <1>1, <1>2 DEF New, WayOut, Apart, TypeOK, Later, Past
  <1>3. CASE Signal(p)
    BY <1>1, <1>3 DEF Signal, WayOut, Apart, goroutines
  <1>4. CASE Serve(p)
    BY <1>1, <1>4 DEF Serve, WayOut, Apart, TypeOK, Later, Past
  <1>5. CASE AlreadyRunning(p)
    BY <1>1, <1>5 DEF AlreadyRunning, WayOut, Apart, TypeOK, goroutines, Later, Past
  <1>6. CASE RunShutdown(p)
    <2>1. /\ run[p] = "serving" /\ run'[p] = "stopping" /\ UNCHANGED <<server, rpcs, monitor, forced>>
          /\ \A q \in Process \ {p} : run'[q] = run[q] /\ stop'[q] = stop[q]
          /\ \A j \in Invoker : stop'[p][j] \in {stop[p][j], "graceful"}
      BY <1>1, <1>6 DEF RunShutdown, TypeOK, goroutines, Invoker
    <2> QED
      BY <1>1, <2>1 DEF WayOut, Apart, Later, Past
  <1>7. CASE ServeReturns(p)
    BY <1>1, <1>7 DEF ServeReturns, WayOut, Apart, TypeOK, goroutines
  <1>8. CASE RunReturns(p)
    <2>1. "run" \in Invoker /\ "done" \in Later
      BY DEF Invoker, Later
    <2> QED
      BY <1>1, <1>8, <2>1 DEF RunReturns, WayOut, Apart, TypeOK, goroutines
  <1>9. CASE Release(p)
    BY <1>1, <1>9 DEF Release, WayOut, Apart, TypeOK, goroutines
  <1>10. CASE Exit(p) \/ Crash(p)
    <2>1. Gone(p)
      BY <1>10 DEF Exit, Crash
    <2>2. /\ run'[p] = "off" /\ server'[p] = "stopped" /\ rpcs'[p] = {}
          /\ stop'[p] = [i \in Invoker |-> "no"]
          /\ \A q \in Process \ {p} : Apart(p, q)
      BY <1>1, <2>1 DEF Gone, TypeOK, Apart
    <2> QED
      BY <2>2 DEF WayOut, Later, Past
  <1> QED
    BY <1>2, <1>3, <1>4, <1>5, <1>6, <1>7, <1>8, <1>9, <1>10 DEF Step

LEMMA OrderedRest ==
    ASSUME Ordered, NEW p \in Process, NEW k \in Arrivals,
           Arrive(p, k) \/ Handle(p) \/ DelayedStart(p) \/ MonitorStep(p) \/ IdleTick(p) \/ IdleStep(p)
    PROVE  WayOut(p)' /\ \A q \in Process \ {p} : Apart(p, q)
  <1>1. TypeOK /\ Absent /\ WayOut(p)
    BY DEF Ordered
  <1>2. CASE Arrive(p, k)
    <2>1. /\ server[p] = "serving" /\ UNCHANGED <<run, server, monitor, forced, stop>>
          /\ \A q \in Process \ {p} : rpcs'[q] = rpcs[q]
      BY <1>1, <1>2 DEF Arrive, TypeOK, goroutines
    <2> QED
      BY <1>1, <2>1 DEF WayOut, Apart
  <1>3. CASE Handle(p)
    <2>1. /\ rpcs[p] # {} /\ \E here \in SUBSET Rpc : rpcs' = [rpcs EXCEPT ![p] = here]
          /\ stop' = stop \/ stop' = [stop EXCEPT ![p].rpc = IF @ = "no" THEN "graceful" ELSE @]
      BY <1>1, <1>3, HandleWorks
    <2>2. UNCHANGED <<run, server, monitor, forced>> /\ \A q \in Process \ {p} : rpcs'[q] = rpcs[q]
      BY <1>1, <1>3, <2>1 DEF Handle, TypeOK, goroutines
    <2>3. /\ \A q \in Process \ {p} : stop'[q] = stop[q]
          /\ \A j \in Invoker : stop'[p][j] \in {stop[p][j], "graceful"}
      BY <1>1, <2>1 DEF TypeOK, Invoker
    <2>4. server[p] # "stopped" /\ run[p] \notin {"off", "new"}
      BY <1>1, <2>1 DEF WayOut
    <2> QED
      BY <1>1, <2>1, <2>2, <2>3, <2>4 DEF WayOut, Apart, Later, Past
  <1>4. CASE MonitorStep(p)
    <2>1. /\ UNCHANGED <<run, server, rpcs, forced, stop>> /\ monitor[p] # "done"
          /\ \A q \in Process \ {p} : monitor'[q] = monitor[q]
      BY <1>1, <1>4 DEF MonitorStep, TypeOK
    <2> QED
      BY <1>1, <2>1 DEF WayOut, Apart
  <1>5. CASE DelayedStart(p) \/ IdleTick(p) \/ IdleStep(p)
    BY <1>1, <1>5 DEF DelayedStart, IdleTick, IdleStep, WayOut, Apart
  <1> QED
    BY <1>2, <1>3, <1>4, <1>5

LEMMA OrderedNext ==
    ASSUME Ordered, [Next]_vars
    PROVE  Ordered'
  <1>1. TypeOK /\ Absent
    BY DEF Ordered
  <1>2. CASE UNCHANGED vars
    BY <1>2 DEF vars, config, autosync, goroutines, bounds, Ordered, TypeOK, Absent, Alive, WayOut
  <1>3. CASE OtherStarts \/ OtherSaves \/ OtherEnds
    <2>1. TypeOK'
      BY <1>1, <1>3, TypesOther
    <2>2. Absent' /\ \A p \in Process : Apart(p, p)
      BY <1>1, <1>3 DEF Absent, Alive, Apart, OtherStarts, OtherSaves, OtherEnds, goroutines
    <2> QED
      BY <2>1, <2>2, ApartWayOut DEF Ordered
  <1>4. ASSUME NEW p \in Process,
               New(p) \/ Exit(p) \/ Crash(p) \/ Still(p) \/ Works(p)
        PROVE  Ordered'
    <2>1. TypeOK' /\ Absent'
      <3>1. CASE New(p)
        BY <1>1, <3>1, TypesNew DEF Absent, New, Alive, TypeOK
      <3>2. CASE Exit(p) \/ Crash(p)
        <4>1. Gone(p)
          BY <3>2 DEF Exit, Crash
        <4>2. Absent'
          BY <1>1, <4>1 DEF Absent, Gone, Alive, TypeOK
        <4> QED
          BY <1>1, <3>2, <4>2, TypesGone
      <3> QED
        BY <1>1, <1>4, <3>1, <3>2, TypesStill, TypesWork, AbsentStep
    <2>2. WayOut(p)' /\ \A q \in Process \ {p} : Apart(p, q)
      <3>1. "change" \in Arrivals
        BY DEF Arrivals
      <3>2. CASE New(p) \/ Exit(p) \/ Crash(p)
        BY <3>2, OrderedRun DEF Step
      <3>3. CASE Still(p)
        BY <3>1, <3>3, OrderedRun, OrderedShutdown, OrderedRest DEF Still
      <3>4. CASE Works(p)
        BY <3>1, <3>4, OrderedShutdown, OrderedRest DEF Works, Stopping
      <3> QED
        BY <1>4, <3>2, <3>3, <3>4
    <2> QED
      BY <2>1, <2>2, ApartWayOut DEF Ordered
  <1> QED
    BY <1>2, <1>3, <1>4, StepKinds

THEOREM OrderInvariant == Spec => []Ordered
  <1>1. Init => Ordered
    <2> SUFFICES ASSUME Init PROVE Ordered
      OBVIOUS
    <2>1. TypeOK
      BY InitTypes
    <2>2. Absent /\ \A p \in Process : WayOut(p)
      BY DEF Init, Absent, WayOut, Alive, Later, Past
    <2> QED
      BY <2>1, <2>2 DEF Ordered
  <1> QED
    BY <1>1, OrderedNext, PTL DEF Spec

\* A process that ends without a crash has answered every call that it let in, whichever of
\* Run's two ways out it takes and whoever else is in shutdown (daemon.go:162).
THEOREM CallsAreAnswered == Spec => NoCallCutShort
  <1>1. Ordered /\ [Next]_vars
          => [\A p \in Process :
                (Alive(p) /\ run'[p] = "off" /\ faults' = faults) => rpcs[p] = {}]_vars
    <2> SUFFICES ASSUME Ordered, Next, NEW p \in Process, Alive(p), run'[p] = "off", faults' = faults
                 PROVE  rpcs[p] = {}
      BY DEF vars
    <2>1. TypeOK /\ Absent /\ WayOut(p)
      BY DEF Ordered
    <2>2. PICK q \in Process : New(q) \/ Exit(q) \/ Crash(q) \/ Still(q) \/ Works(q)
      BY <2>1, StepKinds DEF OtherStarts, OtherSaves, OtherEnds, Alive
    <2>3. q = p
      <3>1. CASE New(q) \/ Exit(q) \/ Crash(q)
        BY <2>1, <3>1 DEF New, Exit, Crash, Gone, Alive, TypeOK
      <3> QED
        BY <2>1, <2>2, <3>1, AbsentStep DEF Alive
    <2>4. ~New(p) /\ ~Crash(p)
      BY <2>1 DEF New, Alive, Crash, Fault, TypeOK
    <2>5. Exit(p)
      BY <2>1, <2>2, <2>3, <2>4, AbsentStep DEF Alive
    <2> QED
      BY <2>1, <2>5 DEF Exit, WayOut
  <1> QED
    BY <1>1, OrderInvariant, PTL DEF Spec, NoCallCutShort

\* After a shutdown that waited, only the engine's own delayed start, which nobody waits for,
\* starts auto-sync again (daemon.go:195, engine_impl.go:116).
THEOREM ShutdownEndsSync == Spec => ShutdownStopsSync
  <1>1. Ordered /\ [Next]_vars
          => [\A p \in Process, i \in Invoker :
                stop[p][i] \in {"persist", "done"} /\ ~forced[p] /\ ~syncing[p] /\ syncing'[p]
                  => delayed[p] = "asleep" /\ delayed'[p] = "done"]_vars
    <2> SUFFICES ASSUME Ordered, Next, NEW p \in Process, NEW i \in Invoker,
                        stop[p][i] \in {"persist", "done"}, ~forced[p], ~syncing[p], syncing'[p]
                 PROVE  delayed[p] = "asleep" /\ delayed'[p] = "done"
      BY DEF vars
    <2>1. TypeOK /\ monitor[p] = "done" /\ rpcs[p] = {}
      BY DEF Ordered, WayOut, Later, Past
    <2>2. DelayedStart(p)
      <3>1. ~(OtherStarts \/ OtherSaves \/ OtherEnds)
        BY DEF OtherStarts, OtherSaves, OtherEnds, autosync
      <3>2. PICK q \in Process : New(q) \/ Exit(q) \/ Crash(q) \/ Still(q) \/ Works(q)
        BY <3>1, StepKinds
      <3>3. CASE Exit(q) \/ Crash(q)
        <4>1. syncing' = [syncing EXCEPT ![q] = FALSE]
          BY <3>3 DEF Exit, Crash, Gone
        <4> QED
          BY <2>1, <4>1 DEF TypeOK
      <3>4. CASE New(q) \/ Still(q)
        <4>1. syncing' = syncing \/ syncing' = [syncing EXCEPT ![q] = FALSE]
          BY <3>4 DEF New, Still, Step, Stopping, Signal, Serve, AlreadyRunning, RunShutdown, ServeReturns,
             RunReturns, Release, IdleTick, IdleStep, GracefulStop, CancelContext, WaitGroup, WaitTimeout,
             StopSync, Arrive, autosync
        <4> QED
          BY <2>1, <4>1 DEF TypeOK
      <3>5. ASSUME Handle(q) PROVE FALSE
        <4>1. rpcs[q] # {} /\ \E b \in BOOLEAN : syncing' = syncing \/ syncing' = [syncing EXCEPT ![q] = b]
          BY <2>1, <3>5, HandleWorks
        <4>2. q # p
          BY <2>1, <4>1
        <4> QED
          BY <2>1, <4>1, <4>2 DEF TypeOK
      <3>6. ASSUME NEW j \in Invoker, PersistStopped(q, j) PROVE FALSE
        BY <3>6 DEF PersistStopped, autosync
      <3>7. CASE MonitorStep(q)
        <4>1. monitor[q] # "done" /\ q # p
          BY <2>1, <3>7 DEF MonitorStep
        <4>2. UNCHANGED syncing \/ syncing' = [syncing EXCEPT ![q] = TRUE]
          BY <3>7, <2>1 DEF MonitorStep, StartAutoSync, CannotWatch, autosync
        <4> QED
          BY <2>1, <4>1, <4>2 DEF TypeOK
      <3>8. CASE DelayedStart(q)
        <4>1. UNCHANGED syncing \/ syncing' = [syncing EXCEPT ![q] = TRUE]
          BY <3>8 DEF DelayedStart, StartAutoSync, CannotWatch, autosync
        <4>2. q = p
          BY <2>1, <4>1 DEF TypeOK
        <4> QED
          BY <3>8, <4>2
      <3> QED
        BY <3>2, <3>3, <3>4, <3>5, <3>6, <3>7, <3>8 DEF Works
    <2> QED
      BY <2>1, <2>2 DEF DelayedStart, TypeOK
  <1> QED
    BY <1>1, OrderInvariant, PTL DEF Spec, ShutdownStopsSync
=============================================================================

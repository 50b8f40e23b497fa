----------------------------- MODULE DaemonLock -----------------------------
(***************************************************************************)
(* Which process is "the" daemon.  Every daemon process runs Daemon.Run:   *)
(* it takes the lock file (daemon/lock.go), replaces the Unix socket       *)
(* (daemon.go, createListener), serves, and on the way out its deferred    *)
(* calls close the listener first and release the lock file after it.      *)
(*                                                                         *)
(* The lock is flock(2) on the INODE that the path named when the file was *)
(* opened, while Release removes the NAME: the model therefore keeps the   *)
(* directory entry, the inode each process has open, and who holds a lock. *)
(* A crash closes a process's descriptors and leaves both names behind.    *)
(***************************************************************************)
EXTENDS Naturals, FiniteSets

CONSTANTS Proc,        \* daemon processes that may be started
          Inode,       \* inode numbers of the lock file's directory
          Nobody,      \* no inode, no owner
          MaxKills     \* bound: how many crashes a behaviour has

ASSUME DaemonLockAssumption ==
    /\ Nobody \notin Proc
    /\ Nobody \notin Inode
    /\ "stale" \notin Proc
    /\ Nobody # "stale"
    /\ MaxKills \in Nat

VARIABLES pc,       \* where each process is in Daemon.Run
          lockName, \* the inode the lock path names, or Nobody
          fd,       \* the inode of each process's open lock file, or Nobody
          flocked,  \* the processes whose open lock file carries the flock
          socket,   \* the process whose listener the socket path leads to,
                    \* "stale" when that process is dead, Nobody when no name
          kills,    \* number of crashes so far
          unlinked  \* observer: some Release has removed the lock path

lockVars == <<pc, lockName, fd, flocked, socket, kills, unlinked>>

PC == {"down", "starting", "opened", "locked", "binding", "chmod", "serving",
       "releasing", "unlinking"}

LockInit ==
    /\ pc = [p \in Proc |-> "down"]
    /\ lockName = Nobody
    /\ fd = [p \in Proc |-> Nobody]
    /\ flocked = {}
    /\ socket = Nobody
    /\ kills = 0
    /\ unlinked = FALSE

Goto(p, l) == pc' = [pc EXCEPT ![p] = l]

\* The kernel keeps an inode while a name or a descriptor refers to it.
FreeInode == Inode \ ({lockName} \union {fd[p] : p \in Proc})

\* Fault variant of Start: the old socket is removed before the lock is taken.
StartRemovingSocket(p) ==
    /\ pc[p] = "down"
    /\ socket' = Nobody
    /\ Goto(p, "starting")
    /\ UNCHANGED <<lockName, fd, flocked, kills, unlinked>>

\* Run is entered; engine and configuration were loaded before any lock.
Start(p) ==
    /\ pc[p] = "down"
    /\ Goto(p, "starting")
    /\ UNCHANGED <<lockName, fd, flocked, socket, kills, unlinked>>

\* Fault variant of Open: O_EXCL, an existing lock file means "running".
OpenExclusive(p) ==
    /\ pc[p] = "starting"
    /\ IF lockName = Nobody
       THEN \E i \in FreeInode : /\ lockName' = i
                                /\ fd' = [fd EXCEPT ![p] = i]
                                /\ Goto(p, "opened")
       ELSE Goto(p, "down") /\ UNCHANGED <<lockName, fd>>
    /\ UNCHANGED <<flocked, socket, kills, unlinked>>

\* os.OpenFile(O_CREATE|O_RDWR): the inode the path names, or a new one.
Open(p) ==
    /\ pc[p] = "starting"
    /\ \E i \in IF lockName = Nobody THEN FreeInode ELSE {lockName} :
          /\ lockName' = i
          /\ fd' = [fd EXCEPT ![p] = i]
    /\ Goto(p, "opened")
    /\ UNCHANGED <<flocked, socket, kills, unlinked>>

\* Fault variant of Contended: a shared lock never conflicts.
ContendedShared(p) == p \notin Proc

\* Another open file of the same inode carries the exclusive lock.
Contended(p) == \E q \in flocked : q # p /\ fd[q] = fd[p]

Flock(p) ==
    /\ pc[p] = "opened"
    /\ ~Contended(p)
    /\ flocked' = flocked \union {p}
    /\ Goto(p, "locked")
    /\ UNCHANGED <<lockName, fd, socket, kills, unlinked>>

\* LOCK_NB failed: the file is closed and Run returns "already running".
FlockRefused(p) ==
    /\ pc[p] = "opened"
    /\ Contended(p)
    /\ fd' = [fd EXCEPT ![p] = Nobody]
    /\ Goto(p, "down")
    /\ UNCHANGED <<lockName, flocked, socket, kills, unlinked>>

\* createListener: os.Remove(SocketPath), whoever's socket it names ...
RemoveSocket(p) ==
    /\ pc[p] = "locked"
    /\ socket' = Nobody
    /\ Goto(p, "binding")
    /\ UNCHANGED <<lockName, fd, flocked, kills, unlinked>>

\* ... then net.Listen, which fails when the name is back; the deferred
\* Release then runs.
Listen(p) ==
    /\ pc[p] = "binding"
    /\ IF socket = Nobody
       THEN socket' = p /\ Goto(p, "chmod")
       ELSE UNCHANGED socket /\ Goto(p, "releasing")
    /\ UNCHANGED <<lockName, fd, flocked, kills, unlinked>>

\* os.Chmod by name: it fails when the name is gone, and the listener is
\* closed again.
Chmod(p) ==
    /\ pc[p] = "chmod"
    /\ Goto(p, IF socket = Nobody THEN "releasing" ELSE "serving")
    /\ UNCHANGED <<lockName, fd, flocked, socket, kills, unlinked>>

\* Closing a Unix listener removes the socket name it was bound to.
CloseListener(p) ==
    /\ pc[p] = "serving"
    /\ socket' = Nobody
    /\ Goto(p, "releasing")
    /\ UNCHANGED <<lockName, fd, flocked, kills, unlinked>>

\* Release: l.file.Close() drops the flock ...
CloseLock(p) ==
    /\ pc[p] = "releasing"
    /\ fd' = [fd EXCEPT ![p] = Nobody]
    /\ flocked' = flocked \ {p}
    /\ Goto(p, "unlinking")
    /\ UNCHANGED <<lockName, socket, kills, unlinked>>

\* ... and os.Remove(l.path) removes whatever inode the path names by now.
RemoveLock(p) ==
    /\ pc[p] = "unlinking"
    /\ lockName' = Nobody
    /\ unlinked' = TRUE
    /\ Goto(p, "down")
    /\ UNCHANGED <<fd, flocked, socket, kills>>

\* The process dies: the kernel closes its files, no deferred call runs.
Kill(p) ==
    /\ pc[p] # "down"
    /\ kills < MaxKills
    /\ kills' = kills + 1
    /\ fd' = [fd EXCEPT ![p] = Nobody]
    /\ flocked' = flocked \ {p}
    /\ socket' = IF socket = p THEN "stale" ELSE socket
    /\ Goto(p, "down")
    /\ UNCHANGED <<lockName, unlinked>>

\* What a running process does by itself.
Run(p) == \/ Open(p) \/ Flock(p) \/ FlockRefused(p)
          \/ RemoveSocket(p) \/ Listen(p) \/ Chmod(p)
          \/ CloseLock(p) \/ RemoveLock(p)

LockNext == \E p \in Proc : Start(p) \/ Run(p) \/ CloseListener(p) \/ Kill(p)

LockSpec == LockInit /\ [][LockNext]_lockVars

\* A process that is scheduled gets through Run's straight-line code; when
\* to start, to stop or to crash is its environment's choice.
LockFairSpec == LockSpec /\ \A p \in Proc : WF_lockVars(Run(p))

-----------------------------------------------------------------------------
LockTypeOK ==
    /\ pc \in [Proc -> PC]
    /\ lockName \in Inode \union {Nobody}
    /\ fd \in [Proc -> Inode \union {Nobody}]
    /\ flocked \in SUBSET Proc
    /\ socket \in Proc \union {Nobody, "stale"}
    /\ kills \in 0..MaxKills
    /\ unlinked \in BOOLEAN

\* Between a successful Flock and the close in Release.
Holding == {p \in Proc : pc[p] \in
                {"locked", "binding", "chmod", "serving", "releasing"}}

\* lock.go "attempts to acquire an exclusive lock", daemon.go "daemon
\* already running": two daemon processes never hold the lock together.
Exclusive == \A p, q \in Holding : p = q

\* As long as no daemon has shut down gracefully, crashes and restarts
\* included, the lock file does exclude: at most one daemon holds it.
ExclusiveUntilRelease == unlinked \/ Exclusive

\* As long as no daemon has shut down gracefully, the socket path leads to
\* the daemon that serves: no starting or refused daemon has removed or
\* rebound the socket of the running one.
ServingIsReachable ==
    unlinked \/ \A p \in Proc : pc[p] = "serving" => socket = p

\* Even after graceful shutdowns, whoever holds the lock through the inode
\* that the path names now is alone: a split pair needs an unlinked inode.
NamedHolderUnique ==
    \A p, q \in Holding : fd[p] = lockName /\ fd[q] = lockName => p = q

\* Files left behind by a crash never keep a daemon out: a process that is
\* started again and again while no other one runs serves again and again.
StaleFilesNeverBlock ==
    \A p \in Proc :
        /\ <>[](\A q \in Proc \ {p} : pc[q] = "down")
        /\ []<>(pc[p] = "starting")
        => []<>(pc[p] = "serving")

=============================================================================

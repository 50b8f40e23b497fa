------------------------------ MODULE Backups ------------------------------
(***************************************************************************)
(* Backups of the configuration and their retention (backup_manager.go)    *)
(* over the storage (storage.go).  None of these operations holds a lock   *)
(* across its storage calls, so every call of the storage is a step and    *)
(* calls interleave with each other and with the operations that change    *)
(* the configuration.                                                      *)
(*                                                                         *)
(* A configuration is a value.  A backup is known by the time its          *)
(* CreateBackup took, which its ID holds and the list is sorted by; times  *)
(* of one process are distinct and grow.  CreateBackup reads the pointer   *)
(* to the configuration under the lock, then the time, then marshals what  *)
(* the pointer leads to: what AddServer and its like change there it sees, *)
(* what SetConfig, a load or a restore put in its place it does not.  (A   *)
(* change in the midst of the marshalling, which holds no lock, is a data  *)
(* race: only its outcomes before, after and Crash are in the model.)      *)
(***************************************************************************)
EXTENDS Naturals, FiniteSets

CONSTANTS Caller,      \* goroutines that call the backup operations
          Value,       \* what the configuration may be
          None,        \* "no value", "no backup"
          Keep,        \* Settings.Backup.MaxBackups; 0 keeps everything
          OneKey,      \* the storage keeps backup-meta:ID and backup-meta/ID
                       \* in one place: FileStorage does, the others do not
          MaxIds,      \* bound: backups of a behaviour
          MaxChanges,  \* bound: changes by other operations
          MaxFailures, \* bound: failing storage calls
          MaxCrashes   \* bound: process deaths

ASSUME BackupsAssumption ==
    /\ Keep \in Nat /\ OneKey \in BOOLEAN
    /\ MaxIds \in Nat /\ MaxChanges \in Nat
    /\ MaxFailures \in Nat /\ MaxCrashes \in Nat
    /\ None \notin Value \union Nat

Id == 1..MaxIds

VARIABLES
    pc,         \* where each caller is
    wanted,     \* the value its RestoreBackup is to restore, or None
    snap,       \* the configuration its CreateBackup marshalled, or is to;
                \* None while that is the engine's own
    id,         \* the backup it makes, or None once that failed
    todo,       \* the listed keys, then the backups still to delete
    config,     \* engine.config
    stored,     \* the saved configuration
    data,       \* what each key backups/ID holds, or None
    meta,       \* the backups with a key backup-meta:ID
    next,       \* the time
    complete,   \* observer: the backups whose two keys were written
    overtaken,  \* observer: the configuration changed since CreateBackup
    late,       \* observer: the backups of what was no longer the
                \* configuration when it was marshalled
    changes, failures, crashes

calls    == <<pc, wanted, snap, id, todo>>
engine   == <<config, stored>>
storage  == <<data, meta>>
counters == <<changes, failures, crashes>>
vars == <<calls, engine, storage, next, complete, overtaken, late, counters>>

PC == {"idle", "safety", "stamp", "marshal", "data", "meta", "undo", "list", "read",
       "deleteData", "deleteMeta", "restore"}
Deleting == {"deleteData", "deleteMeta"}

Init == /\ pc = [c \in Caller |-> "idle"]
        /\ wanted = [c \in Caller |-> None]
        /\ snap = [c \in Caller |-> None]
        /\ id = [c \in Caller |-> None]
        /\ todo = [c \in Caller |-> {}]
        /\ config \in Value /\ stored = config
        /\ data = [b \in Id |-> None]
        /\ meta = {}
        /\ next = 1
        /\ complete = {}
        /\ overtaken = [c \in Caller |-> FALSE]
        /\ late = {}
        /\ changes = 0 /\ failures = 0 /\ crashes = 0

Goto(c, l) == pc' = [pc EXCEPT ![c] = l]
Fail == failures < MaxFailures /\ failures' = failures + 1

\* CreateBackup returns: to the caller, or to RestoreBackup.
AfterBackup(c) == IF wanted[c] = None THEN "idle" ELSE "restore"

\* Fault variant of Outdated: sorted oldest first.
OutdatedNewestFirst(S) == {b \in S : Cardinality({n \in S : n < b}) >= Keep}

\* Fault variant of Outdated: off by one.
OutdatedOneMore(S) == {b \in S : Cardinality({n \in S : n > b}) > Keep}

\* The backups among S that newer ones of S push out of the retention.
Outdated(S) == {b \in S : Cardinality({n \in S : n > b}) >= Keep}

\* The newest of the outdated backups, deleted first.
Newest(S) == CHOOSE b \in S : \A n \in S : n <= b

-----------------------------------------------------------------------------
(* CreateBackup *)

TakePointer(c) ==
    /\ snap' = [snap EXCEPT ![c] = None]
    /\ id' = [id EXCEPT ![c] = None]
    /\ overtaken' = [overtaken EXCEPT ![c] = FALSE]
    /\ Goto(c, "stamp")

CreateBackup(c) ==
    /\ pc[c] = "idle"
    /\ TakePointer(c)
    /\ wanted' = [wanted EXCEPT ![c] = None]
    /\ UNCHANGED <<todo, engine, storage, next, complete, late, counters>>

\* The time, and the ID made of it, are taken after the lock is given back.
TakeTime(c) ==
    /\ pc[c] = "stamp"
    /\ next <= MaxIds
    /\ id' = [id EXCEPT ![c] = next]
    /\ next' = next + 1
    /\ Goto(c, "marshal")
    /\ UNCHANGED <<wanted, snap, todo, engine, storage, complete, overtaken,
                   late, counters>>

\* Fault variant of Pointed: what was saved last.
PointedStored(c) == IF snap[c] = None THEN stored ELSE snap[c]

\* What the pointer that c took leads to.
Pointed(c) == IF snap[c] = None THEN config ELSE snap[c]

Marshal(c) ==
    /\ pc[c] = "marshal"
    /\ snap' = [snap EXCEPT ![c] = Pointed(c)]
    /\ late' = IF Pointed(c) = config THEN late ELSE late \union {id[c]}
    /\ Goto(c, "data")
    /\ UNCHANGED <<wanted, id, todo, engine, storage, next, complete,
                   overtaken, counters>>

WriteData(c) ==
    /\ pc[c] = "data"
    /\ data' = [data EXCEPT ![id[c]] = snap[c]]
    /\ Goto(c, "meta")
    /\ UNCHANGED <<wanted, snap, id, todo, engine, meta, next, complete,
                   overtaken, late, counters>>

WriteDataFails(c) ==
    /\ pc[c] = "data"
    /\ Fail
    /\ id' = [id EXCEPT ![c] = None]
    /\ Goto(c, AfterBackup(c))
    /\ UNCHANGED <<wanted, snap, todo, engine, storage, next, complete,
                   overtaken, late, changes, crashes>>

WriteMeta(c) ==
    /\ pc[c] = "meta"
    /\ meta' = meta \union {id[c]}
    /\ complete' = complete \union {id[c]}
    /\ Goto(c, IF Keep > 0 THEN "list" ELSE AfterBackup(c))
    /\ UNCHANGED <<wanted, snap, id, todo, engine, data, next, overtaken,
                   late, counters>>

WriteMetaFails(c) ==
    /\ pc[c] = "meta"
    /\ Fail
    /\ Goto(c, "undo")
    /\ UNCHANGED <<wanted, snap, id, todo, engine, storage, next, complete,
                   overtaken, late, changes, crashes>>

\* The data is removed after its metadata could not be written; an error of
\* the removal is not looked at.
Undo(c) ==
    /\ pc[c] = "undo"
    /\ \/ data' = [data EXCEPT ![id[c]] = None] /\ UNCHANGED failures
       \/ Fail /\ UNCHANGED data
    /\ id' = [id EXCEPT ![c] = None]
    /\ Goto(c, AfterBackup(c))
    /\ UNCHANGED <<wanted, snap, todo, engine, meta, next, complete,
                   overtaken, late, changes, crashes>>

-----------------------------------------------------------------------------
(* cleanupOldBackups *)

\* ListBackups lists the keys first; without them there is no cleanup.
ListKeys(c) ==
    /\ pc[c] = "list"
    /\ \/ /\ todo' = [todo EXCEPT ![c] = meta]
          /\ Goto(c, "read")
          /\ UNCHANGED failures
       \/ Fail /\ Goto(c, AfterBackup(c)) /\ UNCHANGED todo
    /\ UNCHANGED <<wanted, snap, id, engine, storage, next, complete,
                   overtaken, late, changes, crashes>>

\* Then it reads them one by one and skips what it cannot read: what has
\* gone since the listing may be missed, what is there only by a failure.
ReadMetas(c) ==
    /\ pc[c] = "read"
    /\ \E S \in SUBSET todo[c] :
          /\ \/ todo[c] \intersect meta \subseteq S /\ UNCHANGED failures
             \/ ~ (todo[c] \intersect meta \subseteq S) /\ Fail
          /\ todo' = [todo EXCEPT ![c] = Outdated(S)]
          /\ Goto(c, IF Outdated(S) = {} THEN AfterBackup(c)
                     ELSE "deleteData")
    /\ UNCHANGED <<wanted, snap, id, engine, storage, next, complete,
                   overtaken, late, changes, crashes>>

\* Fault variant of DeleteData: only the metadata is deleted.
DeleteDataForgotten(c) ==
    /\ pc[c] = "deleteData"
    /\ Goto(c, "deleteMeta")
    /\ UNCHANGED <<wanted, snap, id, todo, engine, storage, next, complete,
                   overtaken, late, counters>>

\* What is not there cannot be deleted, and no error is looked at.
DeleteData(c) ==
    /\ pc[c] = "deleteData"
    /\ \/ data' = [data EXCEPT ![Newest(todo[c])] = None]
          /\ UNCHANGED failures
       \/ Fail /\ UNCHANGED data
    /\ Goto(c, "deleteMeta")
    /\ UNCHANGED <<wanted, snap, id, todo, engine, meta, next, complete,
                   overtaken, late, changes, crashes>>

\* The key that is deleted is backup-meta/ID.
DeleteMeta(c) ==
    /\ pc[c] = "deleteMeta"
    /\ LET b == Newest(todo[c]) IN
       /\ \/ meta' = (IF OneKey THEN meta \ {b} ELSE meta)
             /\ UNCHANGED failures
          \/ Fail /\ UNCHANGED meta
       /\ todo' = [todo EXCEPT ![c] = @ \ {b}]
       /\ Goto(c, IF todo[c] = {b} THEN AfterBackup(c) ELSE "deleteData")
    /\ UNCHANGED <<wanted, snap, id, engine, data, next, complete,
                   overtaken, late, changes, crashes>>

-----------------------------------------------------------------------------
(* RestoreBackup, and what else happens to the configuration *)

RestoreBackup(c, b) ==
    /\ pc[c] = "idle"
    /\ data[b] # None
    /\ wanted' = [wanted EXCEPT ![c] = data[b]]
    /\ Goto(c, "safety")
    /\ UNCHANGED <<snap, id, todo, engine, storage, next, complete,
                   overtaken, late, counters>>

SafetyBackup(c) ==
    /\ pc[c] = "safety"
    /\ TakePointer(c)
    /\ UNCHANGED <<wanted, todo, engine, storage, next, complete, late,
                   counters>>

\* Under engine.mu: a failing save leaves the value in memory only, and what
\* was saved may be lost with it (a Crash tells).
Assign(v) ==
    /\ config' = v
    /\ \/ stored' = v /\ UNCHANGED failures
       \/ Fail /\ UNCHANGED stored

\* Another configuration takes the place of the one that is pointed to.
Replace ==
    snap' = [d \in Caller |-> IF pc[d] \in {"stamp", "marshal"} THEN Pointed(d)
                              ELSE snap[d]]

RestoreConfig(c) ==
    /\ pc[c] = "restore"
    /\ Assign(wanted[c])
    /\ Replace
    /\ overtaken' = [d \in Caller |-> TRUE]
    /\ wanted' = [wanted EXCEPT ![c] = None]
    /\ Goto(c, "idle")
    /\ UNCHANGED <<id, todo, storage, next, complete, late, changes, crashes>>

\* Any operation of ConfigStore: in place, as AddServer, or not, as SetConfig.
Change(v) ==
    /\ changes < MaxChanges /\ changes' = changes + 1
    /\ v # config
    /\ Assign(v)
    /\ Replace \/ UNCHANGED snap
    /\ overtaken' = [d \in Caller |-> TRUE]
    /\ UNCHANGED <<pc, wanted, id, todo, storage, next, complete, late,
                   crashes>>

\* The next process starts with what was saved, or, where a save in place was
\* cut short, without it: with any configuration.
Crash ==
    /\ crashes < MaxCrashes /\ crashes' = crashes + 1
    /\ pc' = [c \in Caller |-> "idle"]
    /\ wanted' = [c \in Caller |-> None]
    /\ snap' = [c \in Caller |-> None]
    /\ id' = [c \in Caller |-> None]
    /\ todo' = [c \in Caller |-> {}]
    /\ overtaken' = [c \in Caller |-> FALSE]
    /\ config' \in Value /\ stored' = config'
    /\ UNCHANGED <<storage, next, complete, late, changes, failures>>

Call(c) ==
    \/ CreateBackup(c) \/ TakeTime(c) \/ Marshal(c) \/ WriteData(c) \/ WriteDataFails(c)
    \/ WriteMeta(c) \/ WriteMetaFails(c) \/ Undo(c)
    \/ ListKeys(c) \/ ReadMetas(c) \/ DeleteData(c) \/ DeleteMeta(c)
    \/ SafetyBackup(c) \/ RestoreConfig(c)
    \/ \E b \in Id : RestoreBackup(c, b)

Next == \/ \E c \in Caller : Call(c)
        \/ \E v \in Value : Change(v)
        \/ Crash

Spec == Init /\ [][Next]_vars

-----------------------------------------------------------------------------
(* Properties *)

\* Variables keep their types; who deletes has something to delete, who
\* writes has a backup to write, and who is to restore has a value
\* (cleanupOldBackups' loop, CreateBackup's keys, RestoreBackup's parse).
TypeOK ==
    /\ pc \in [Caller -> PC]
    /\ wanted \in [Caller -> Value \union {None}]
    /\ snap \in [Caller -> Value \union {None}]
    /\ id \in [Caller -> Id \union {None}]
    /\ todo \in [Caller -> SUBSET Id]
    /\ config \in Value /\ stored \in Value
    /\ data \in [Id -> Value \union {None}]
    /\ meta \subseteq complete /\ complete \subseteq Id
    /\ next \in 1..MaxIds + 1
    /\ overtaken \in [Caller -> BOOLEAN] /\ late \subseteq Id
    /\ changes \in Nat /\ failures \in Nat /\ crashes \in Nat
    /\ \A c \in Caller :
          /\ pc[c] \in Deleting => todo[c] # {}
          /\ pc[c] \in {"marshal", "data", "meta", "undo"} => id[c] \in Id
          /\ pc[c] \in {"data", "meta", "undo"} => snap[c] \in Value
          /\ pc[c] \in {"safety", "restore"} => wanted[c] \in Value

\* The listed backups that are newer than b.
Newer(b) == {m \in meta : m > b}

\* A backup of which both keys were written can be restored until Keep newer
\* ones are listed, whatever calls overlap or fail and whenever the process
\* dies (cleanupOldBackups: "keeping only the most recent maxBackups").
RetainedAreRestorable ==
    \A b \in complete :
        Keep = 0 \/ Cardinality(Newer(b)) < Keep => data[b] # None

Quiet == \A c \in Caller : pc[c] = "idle"
Clean == failures = 0 /\ crashes = 0

\* When no call is running, and without failures, no more than Keep backups
\* are listed, also after calls that overlapped (the cleanup of CreateBackup;
\* TestBackupCleanup in export_backup_test.go).
RetentionBound == Quiet /\ Clean /\ Keep > 0 => Cardinality(meta) <= Keep

\* When no call is running, and without failures, the listed backups are
\* exactly those that can be restored (the two keys CreateBackup writes and
\* cleanupOldBackups deletes).
StorageMatchesList == Quiet /\ Clean => meta = {b \in Id : data[b] # None}

\* What a restore is about to overwrite is in a listed backup, if its safety
\* backup succeeded and nobody changed the configuration since it began,
\* although other callers' cleanups may have deleted that very backup; unless
\* Keep listed backups with newer IDs are of older configurations, each by a
\* caller that read the pointer before that was replaced (RestoreBackup:
\* "Create a backup of current config before restoring (safety)").
RestoreKeepsWork ==
    \A c \in Caller :
        pc[c] = "restore" /\ id[c] # None /\ ~ overtaken[c] =>
            \/ \E b \in meta : data[b] = config
            \/ Keep > 0 /\ Cardinality(Newer(id[c]) \intersect late) >= Keep
=============================================================================

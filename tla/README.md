# agent-master-engine: verification project

TLA+ specifications of the configuration engine and its daemon, model-checked
with TLC and, for the main safety properties, proved with TLAPS. Paths are
relative to `src/`. `PROJECT.json` holds the machine-readable side: components,
runs, mutants, the map from definitions to source lines, hazards and theorems.

## 1. The system

The engine keeps one configuration of MCP servers and copies it, transformed,
to the configuration files of other programs (the *destinations*). It is a Go
library (package `engine`); a daemon (package `daemon`) owns one engine and
offers it over gRPC on a Unix socket; a client package reconnects and retries.

### 1.1 Components, their state and operations

| Component | State | Operations |
|---|---|---|
| Engine construction (`engine_impl.go`) | storage, registries | `NewEngine`, `autoLoadConfig`, delayed auto-start goroutine |
| Configuration store (`config_manager.go`, `server_manager.go`) | `config` pointer, `configPath`, the file or storage key behind it; `e.mu` | `LoadConfig`, `SaveConfig`, `SetConfig`, `SetConfigPath`, `GetConfig`, server CRUD, enable/disable |
| Storage (`storage.go`, `storage/redis`) | key/value files, map, or Redis | `Read`, `Write`, `Delete`, `List`, `Watch`, `CopyKey`, `Export`, `Import` |
| Auto-sync manager (`autosync_manager.go`) | `isRunning`, `stopChan`, `watcher`, `debounceTimer`, `wg`; `asm.mu` | `Start`, `Stop`, `GetStatus`, `watchLoop`, `debouncedSync`, `performSync` |
| Sync to destinations (`engine_impl.go`, `generic_destinations.go`, `presets/`) | destination registry; destination file, its `.tmp`, its backups | `SyncTo`, `SyncToMultiple`, `PreviewSync`, `Transform`, `Read`, `Write`, `Backup` |
| Legacy targets (`sync.go`, `destination_manager.go`) | target registry, target files | `SyncToTarget`, `SyncToAllTargets`, `PreviewSync`, project-nested transform |
| Backups (`backup_manager.go`) | `backups/ID`, `backup-meta:ID` keys | `CreateBackup`, `ListBackups`, `RestoreBackup`, `cleanupOldBackups` |
| Import, export, merge (`import_export.go`) | the configuration | `Import`, `Export`, `MergeConfigs` |
| Event bus (`event_bus.go`) | handler lists | `on`, `emit`, unsubscribe |
| Validation, sanitising (`validation.go`, `helpers.go`) | none | pure functions |
| Projects (`project_manager.go`) | project files | scan, register, list |
| Daemon process (`daemon/daemon.go`, `daemon/lock.go`, `cmd/daemon`) | lock file, socket, contexts, wait group, connection count | `New`, `Run`, `shutdown`, monitors, interceptors |
| Daemon service (`daemon/service*.go`, `conversions.go`) | none of its own | RPC handlers over the engine |
| Client (`daemon/client/client.go`) | connection, stub; `c.mu` | `Connect`, `Close`, RPC wrappers with retry |

### 1.2 How they interact

* Every server operation takes `e.mu`, changes the configuration **in memory**,
  saves it and returns the save's error; nothing is rolled back.
* A save writes the configuration file; the auto-sync watcher sees that write
  (or anybody else's), restarts a debounce timer, and the timer's goroutine
  reloads the file and writes every destination.
* `SyncTo`, `CreateBackup` and `Export` take the `config` pointer under `e.mu`
  and use the object after the unlock.
* The daemon's RPC handlers, its monitors, the engine's own delayed auto-start
  and the debounce timers all run in goroutines of their own.
* The daemon's lock file decides which process may replace the socket and serve.

### 1.3 What is hard

Interleavings of `Start`, `Stop`, the watch loop and the timers; state read
under a lock and used after it; two writers of one `.tmp` file; a save that
fails or a crash in the middle of it; shutdown paths that race each other;
retries of calls that already took effect. `PROJECT.json` lists them as
hazards, each with its line and the properties about it.


## 2. The modules and what they cover

| Module | What | State |
|---|---|---|
| `DaemonLock` | which process is the daemon: lock file, socket, crashes | checked, safety proved |
| `AutoSync` | the auto-sync manager, its loops, timer and syncs | checked, safety proved |
| `ConfigStore` | operations, saves and loads of one or several engines over files | checked, safety and refinement proved |
| `AtomicStore` | abstract: a save replaces what is stored in one step or not at all | `ConfigStore` implements it: checked and proved |
| `Backups` | data and metadata keys, retention, restore, failures and crashes between the storage calls | checked, safety proved |
| `Remote` | the client's connection, timeouts and retries, the gRPC layer, the service's handlers, daemon crashes | checked, safety proved |
| `DaemonLife` | `New`, `Run`, the `Shutdown` call, the monitors, the delayed auto-start, restarts; composes `AutoSync` (running or not) with the holder of `DaemonLock` | checked, safety proved |
| `SyncFanout` | the workers of `SyncToAllTargets` and `SyncToMultiple` down to the destinations' files | checked, safety proved |
| `Transforms` | what targets, presets, exports, imports, merges and previews make of the servers | checked, proved |
| `Projects` | the scan of a directory tree and the reading of projects' files, as functions | checked and proved through `Wire` |
| `Wire` | the daemon's messages: what clients that read, change and write back keep or lose | checked, proved |
| `Watchers` | storage watchers, event subscribers, exports and imports of a storage | checked, proved |

`X_proof` holds the theorems about `X` (`Daemon_proof` those about `DaemonLock` and `DaemonLife`,
`Users_proof` those about `Watchers` and `Wire`), `MCX` what TLC needs beside the `.cfg`. How they fit: `DaemonLock`
says who may run, `DaemonLife` what that process does until it ends, `Remote` and
`Wire` what its clients see (control and data), `ConfigStore` how what they ask for
reaches the disk, `AutoSync` when destinations are written, `SyncFanout` how, and
`Transforms` with what. Where two modules meet, the one takes as a step what
the other takes apart. A save to a storage is one step in `Remote` because `SavesAreAtomic` says
it may be. The daemon saves to its own file in place, which nothing makes atomic
(`config_manager.go:87`): there `Remote` and `DaemonLife` have a save that is cut short by a failure
or a crash and leaves a broken file, and one that is not; both take a step, because the
save holds `engine.mu` and nobody reads the file before that process is gone.

What is left: an abstract specification of what a call to the daemon promises its caller
(carried out at most once per attempt, answered as it was), with `Remote` shown to implement it.

Fault variants (operators commented *Fault variant of ...*) stand beside the
action they alter and are used by no specification: they are the plausible
mistakes that the properties must notice.

## 3. The modules

### 3.1 DaemonLock

`pc[p]` is where a daemon process is in `Run`; `lockName` is the inode that the
lock path names, `fd[p]` the inode a process has open, `flocked` the processes
whose open file carries the lock; `socket` is the process behind the socket path.
The distinction of name and inode is the point: `flock` locks an inode, `Release`
removes a name. `Open`, `Flock`, `FlockRefused` are `TryAcquire`; `RemoveSocket`,
`Listen`, `Chmod` are `createListener`; `CloseListener` stands for the end of
serving and the deferred close; `CloseLock`, `RemoveLock` are `Release`; `Crash`
closes a process's files and leaves the names.

`unlinked` is an observer: some `Release` has removed the name. Until then the
lock excludes (`ExclusiveUntilRelease`) and the socket leads to the server
(`ServingIsReachable`). After it only holders of the *named* inode are unique
(`NamedHolderUnique`). The unconditional `Exclusive` is false (finding 1).

### 3.2 AutoSync

A configuration is a version number and the persisted `Enabled`; a destination
is the version it was given last. Every successful `Start` is a *generation*
naming its watcher and its stop channel. `mu` is `asm.mu`, held by `Start` across
its steps; every section under `engine.mu` is one action. `Stop` releases `asm.mu`
before `wg.Wait`, so its later steps (`StopWait` ... `StopPersist`) interleave with
everything; `wg` is the set `Live` of loops that have not returned, with the two
wake-up steps (`stopBlocked`, `stopWoken`) of Go's wait group and its panic on
reuse. A watch loop evaluates its select's operands (`LoopSelect`) without the
lock and waits on what it read. `Rearm` replaces the timer; a timer that fires
starts a sync in a `Syncer` slot, which reloads the file (`SyncLoad`), takes the
configuration of the moment (`SyncRead`) and writes it later (`SyncWrite`), one
destination after the other.

`kept` says how the engine keeps its configuration, which decides how a save reaches the
file and what `Start` finds to watch: at a path, written in place; at a path that begins with
`~`, which saving and loading expand and `Start` does not (`autosync_manager.go:121`); in
the `config.json` of a `FileStorage`, replaced by a rename; or in another storage. Where there
is no such file `Start` succeeds and watches nothing (`StartBlind`); otherwise it watches the
file and its directory, the latter if it can (`StartWatch`). A rename ends the watch
on the file (`watching`) and not that on its directory (`dirs`). A sync's write is
an event for that watch when the destination's file lies there (`near`). A load from a storage
may merge (`Mixed`). `SetConfig` and `RestoreBackup` replace the whole configuration, `Enabled`
included (`Replace`), and `overruled` records that it then differs from the last call's.

`SerialCalls` makes callers wait for each other; `OtherWriter` lets another
program rewrite the file, which does not parse for a while, or rename another file into
its place. A `LoadConfig` with another path while the manager runs is not modelled, nor are
events of unrelated files in the watched directory (each only asks for one sync more).

Between calls that do not overlap, a running manager has exactly its own loop,
an open watcher, an open channel and the file's directory under watch, and where it has not, a
save or watch failed or the configuration is at a `~` path or in no file
(`RunningMeansWatched`); a stopped one has neither loop nor watcher (`StoppedMeansQuiet`), nothing has panicked (`NoPanic`),
and the persisted flag agrees with it although every sync replaces the settings
by the file's, until a `SetConfig` or `RestoreBackup` puts another flag there
(`EnabledMatchesRunning`). Syncing ends when changes end, unless the watched directory
holds a destination (`SyncsQuiesce`). Even when calls overlap no stop channel
is closed twice (`ChannelClosedOnce`). With overlapping calls the others fail:
setting `SerialCalls = FALSE` and two callers in `AutoSync_serial.cfg` shows a
`Stop` that closes the watcher of a later `Start` (`RunningMeansWatched`) and the
wait group's panic (`NoPanic`); `autosync_race_blocked` is the listed one of these.

### 3.3 ConfigStore

`mem[e]` is an engine's configuration (the servers: a payload and the enabled
flag), `path[e]` its `configPath`, `pc[e]` the place in its save. Files are
inodes: `name` maps the names `store` (the storage's `config.json`), `tmp` (its
temporary file) and `file` (a file given to `LoadConfig`) to inodes, `data` maps
inodes to contents, `fd[e]` is what an engine has open. Every operation of the
engine holds `e.mu` until its save has returned, so an engine is in one operation
at a time; the save itself is modelled step by step: truncate and write in place
with a path, temporary file, rename and clean-up without. `OpenFails`,
`WriteFails`, `RenameFails` return the error; the memory keeps the change, as in
the code. `SaveConfig` holds the lock for reading only, but two of them write the
same bytes; they are modelled one after the other.

`base[e]` and `promised` are observers. When a save succeeds, every server that
the engine changed since its last load or save is promised to be in that place;
`PromisesKept` says that what is read there is what was promised. A failed
save promises nothing, and a later successful one promises what was left in
memory. `StoreParses`: the stored configuration is complete at every moment.
`HalfWrites` names the files whose write may be cut short.

`AtomicStore` is what the files are for: per place a configuration, replaced by the
whole memory in one step. `ConfigStore` implements it (`SavesAreAtomic`) with
`stored[p]` read from the file that the place's name leads to; opening,
writing and failing to write the temporary file are stutters and the rename is the
save. Writing in place is the abstract `Rewrite`, which may leave a broken file.

### 3.4 Backups

Nothing in `backup_manager.go` holds a lock across its storage calls, so each call
of the storage is an action, and the calls of several goroutines interleave with
each other and with the operations that change the configuration (`Change`). A
backup is the time its `CreateBackup` took (`id[c]`); `data` and `meta` are the keys
`backups/ID` and `backup-meta:ID`. `CreateBackup` (it takes the configuration's pointer
under the lock), `TakeTime` (after it), `Marshal` (what the pointer leads to by then: the
engine's own configuration, `snap[c] = None`, or one that a `Replace` has put aside),
`WriteData`, `WriteMeta`, `Undo` and their failures are the function of that name;
`ListKeys`, `ReadMetas`, `DeleteData`, `DeleteMeta` are `cleanupOldBackups` with the
`ListBackups` in it (`todo[c]` is what was listed, then what is still to delete);
`RestoreBackup`, `SafetyBackup`, the steps of its `CreateBackup`, and
`RestoreConfig` are `RestoreBackup`. The cleanup deletes the key `backup-meta/ID`:
`OneKey` says whether that is the place that was written (`FileStorage`'s
`keyToPath` maps both to one file) or another (memory and Redis).

`RetainedAreRestorable`: a backup whose two keys were written can be restored until
`Keep` newer ones are listed. `RetentionBound` and `StorageMatchesList`: between
calls, without failures, at most `Keep` are listed and the list is what can be
restored. `RestoreKeepsWork`: what a restore is about to overwrite is in a listed
backup with its data, although another caller's cleanup may have deleted the safety
backup itself. Its exceptions are the code's: a safety backup that failed is only
logged; a change between the start of the safety backup and the restore (`overtaken`) is
lost; and since the time is taken after the pointer, a stalled `CreateBackup` can put an
older configuration under a newer ID (`late`): `Keep` of those above the safety backup
push it out, and no listed backup has the work (with `MaxBackups` 1, one of them does).
`complete`, `overtaken` and `late` are observers. After a crash the configuration is any:
whether the file survived is `ConfigStore`'s and `Remote`'s subject. Without metadata `data` stays for ever
after a crash: no list shows it and no cleanup finds it.

### 3.5 Remote

`call[c]` is a caller's latest call: where it is in `withRetry` (`attempt`, `wait`,
`backoff`, `done`), which attempt, its request and its code. `handlers` are the attempts that
are at the daemon; one whose caller has given up goes on (`Abandon`, `Cancel`). The
handler's operation (`Serve`, `SaveFails`, `Restore`, ...) and the `GetServer` that
fetches its answer (`Reread`) are two steps, as they are two sections under
`engine.mu`. `NotSent`, `Lose`, `Close`, `Crash`, `Stopped` and `Start` are what can happen to the
connection and the daemon. All methods of the client are requests; those the
service does not override are answered `Unimplemented`. `NilStub` is a call that
finds `c.client` nil after a `Close`: the program panics.

`applied`, `clean`, `writers` and `unsaved` are observers. `AnswersMatchEffects` says what
an answer means: success is at least one effect and at most one per attempt; a
refusal of the only attempt is none. After a retry a refusal says nothing, because
`AddServer` may be refused on account of its own first attempt. `SessionOrder`: who alone
changes a server finds what its last successful call asked for in memory, unless that
call began while an attempt of an older one was still at the daemon (then the older one
may take effect later), or a process ended without having its memory in its own
file (`lost`); and in the file at the engine's path, unless the last save there failed (`behind`;
`SetConfig`'s handler ignores the error).

`path` is `engine.configPath` and `disk` what its two files hold. `Save` and `CannotSave` are
the ends of `saveConfigNoLock`, and a process that dies in a save (`CrashSaving`) leaves a
broken file. `LoadFile` and `LoadStorage` are `LoadConfig`: it takes the path first, so that every
later save goes there, and the next process, which reads its own file, misses those. `Start` goes on
without servers when that file is broken, as `New` does (`daemon.go:66`). So a daemon that dies in a
save, or after one that failed, has lost everything: that is the code, and `lost` excepts it.

### 3.6 DaemonLife

`run[p]` is where `main` and `Run` are, `stop[p][i]` where each of the two goroutines
that may be in `shutdown` is (`Run`'s own and the `Shutdown` call's); `idle`, `monitor` and
`delayed` are the goroutines beside them. `Handle` is a handler's end with its
effect, in two steps for `StopAutoSync`; `GracefulStop` lets nobody in and waits for `rpcs` to be empty, `WaitTimeout` is the
ten seconds of `shutdown`. `New` loads the configuration before `Serve` takes the lock,
as the code does, and a second daemon (`OtherStarts`, `OtherSaves`) may be there in
between: `overlap` records it, and `AckedSurvives` excepts it.

A save is in place, so one that fails may leave the file torn (`NotWritten`), and so may a
`Crash` of a process that can be in one (`MaySave`). `New` goes on with defaults then
(`Stored`). As long as the process is there and reads no other file, its memory has
everything and its next save heals the file, which is what `AckedSurvives` says; `lost` records a process that ended or read
another file (`LoadOther`, after which `away`: it saves there) while the file was torn. `acked`
counts changes answered with success and not replaced since (`ReplaceCall`: `SetConfig`
and `RestoreBackup` put any configuration in place, its `Enabled` included).
`StartAutoSync` refuses a running manager and fails without a watcher (`CannotWatch`: it may
have saved the settings by then). A `Stop` waits for loops without `asm.mu`; the loop of a
stopped manager may take the channel of a later start for its own (finding 2), and then it waits
until that one is stopped too (`hung`, `StopWaits`).

`NoCallCutShort`: a process that ends without a crash has answered whatever it let
in. `ShutdownStopsSync`: after a shutdown that waited has looked at auto-sync, only
the delayed start of `engine_impl.go:116` starts it again, because nobody waits for that goroutine.
`StopRequestsEnd` and `EnabledIsResumed` are liveness. The first excepts a hung `Stop`: `GracefulStop` waits
for its handler without a timeout (finding 17). The second excepts a start that failed and a flag that a call
has turned off.

### 3.7 SyncFanout

A goroutine of a call for a destination goes through `queued` (the semaphore),
`load`, `iterate` (over the engine's own map of servers, without its lock), `backup`,
`open`, `write` and `rename`. `handle` says where the inode is that it has open, so two
syncs that share the temporary file do to each other what they do in a file system.
`Mutate` is an operation on the map that a sync iterates over: it sees
either entry, or the runtime ends the process (`dead`); so does a worker of a
"project-nested" target whose file does not parse (`Panics`).

`ResultsComplete`: a call that returned has one result per destination, but for
those a cancelled context left out. `FilesAreWhole` and `NeverOlder` except destinations
where two syncs have overlapped (`overlap`), because there neither holds.

### 3.8 Transforms

A sync is one step here; what matters is the servers it leaves in a file for each
kind of destination, what it keeps of the file, and what exports, imports,
merges and a client's `SetConfig` make of the servers before. Variables are substituted
by a function `Subst`, the validator refuses the servers in `Refused`, and `Import` has
all its options: with `SkipInvalid` a refused server is left out, without it the
import ends there (`ImportRefused`). `Foreign` is which targets other programs'
servers name or exclude. `Written` is every map
that Go's unordered loop may leave when two names are sanitised to one.
`FilesFollowTheServers` is a statement about what the file has after any history;
`OwnersKeepTheirs` about the target that reads the file first. Presets and plain
files write the whole file anew (`Anew`), so of them nothing like it can be said.

### 3.9 Projects and Wire

`Projects` is functions over a directory tree: `ScanForProjects` is compared with `ToFind`,
a definition without recursion (what lies under the root, near enough, with
nothing excluded or unreadable on the way), and `DetectProject` with the sections
of the project's files. `Wire` composes them with the daemon's messages: `held[c]` is what a client
was answered last, and what it sends is its own or an edit of that: with `SetConfig`,
which validates nothing, each server as it was read, switched over, composed anew or
left out (`Editions`). A scan substitutes variables (`Substituted`), which
`ParseMCPConfig` always does. `behind` and
`stale` record the lost update that `GetConfig`/`SetConfig` has by design; `ServersStand` says
that it is the only way to lose anything about a server that messages carry.

### 3.10 Watchers

`Notify` starts a goroutine per registered callback; `Deliver` is that goroutine, in any
order. `wanted` and `owed` observe who had subscribed when. `Understood` is the type
switch of `emit`: it decides who is called at all. An export reads one key per step
while keys are written and deleted; a key that cannot be read is left out and the export
succeeds without it (`storage.go:400`), which `missed` records.

## 4. The runs

| Run | Shows | Bounds and why they suffice |
|---|---|---|
| `daemon_lock` | two safety properties and `StaleFilesNeverBlock` | 3 processes: a split needs two holders and one that releases; 4 inodes: one per process and one named; 2 crashes: one leaves a lock file, one a socket |
| `autosync_serial` | the guarantees between calls | 3 starts: a restart after a stop and after a failed watch; 2 overlapping syncs; 2 versions; 1 failure; every way of keeping the configuration |
| `autosync_live` | calls return, changes arrive, syncing ends | 1 start (between calls nothing of an earlier one is left but a timer: `StoppedMeansQuiet`), 2 versions, another writer, no failure, one sync at a time; a file at a path and one in file storage, a destination inside and outside of its directory |
| `autosync_race_blocked` | finding 2 | the smallest that shows it |
| `config_one` | `PromisesKept`, `StoreParses`, the refinement `SavesAreAtomic` | 1 process, 2 servers (one changed, one kept), 1 payload beside the flag, 5 operations: fill two servers, load another place, change, load again; 1 failure, 1 crash; storage, own file and the daemon's path to the storage's file in one run |
| `backups` | the four properties over file storage | 2 callers; 3 backups with a limit of 1: two of them are outdated at once; 1 change, 1 failure, 1 crash anywhere |
| `remote` | the three properties | 2 callers, 2 calls, 1 retry: a retry can meet its own first attempt, the other caller's call, or an older call's attempt; 2 faults: one that starts a retry and one that hits it; one server and one payload, since calls on different servers do not meet; eight of the methods, one or more for each path through the handlers |
| `daemon_life` | the five properties | 1 process with 2 starts and the other daemon; 2 calls: a change and a start, a stop and a start, a change and a load; 1 fault: a crash, a failing save or a failing start |
| `sync_fanout` | the four properties | 1 slot for 2 destinations, so that workers wait; a second call for one of them; 2 versions; 1 failure |
| `transforms` | the four properties | a flat and a nested target and a preset; 2 names that are sanitised to one; a configuration with a variable, refused under one name; servers that name or exclude a target; 5 operations: add, add, export, change, import or sync |
| `wire` | the types and four properties | 2 clients, 5 calls: one reads, the other changes, the first writes back, reads and writes back again; a tree with every reason not to find a project |
| `watchers` | the two properties | one callback of each kind, 2 keys, 3 notifications: an order of two and a third after; an export that meets each of them |

A type invariant is in a run where a plausible mistake breaks it (`Wire`: metadata that are no
texts in a message); the others are theorems, and adding them to a run's `INVARIANTS` checks them.

Symmetry is used in safety runs only, over sets whose members no definition
names. In `ConfigStore` the inode of a new file is a `CHOOSE`, so inodes are not
among the symmetric sets. `CHECK_DEADLOCK FALSE` is set where the system may stop:
the bounds on calls and operations are used up.

**Fairness.** `DaemonLock`: a started process gets through `Run`'s straight-line
code; starting, stopping and crashing are its environment's. `AutoSync`:
goroutines are scheduled, timers fire and an editor finishes its write (weak
fairness); `select` picks at random among ready cases, so a loop that can leave
or take an event again and again does it (strong fairness on `LoopLeave` and
`LoopEvent`). Nobody is made to call or to change anything. `Remote`: a caller's
goroutine, its timers and each attempt's handler go on; nothing is made to break and a
daemon that is down need not come back. `DaemonLife`: each goroutine of a process is
scheduled; nobody is made to start, call or signal a daemon, and no crash is forced.
`SyncFanout`: workers are scheduled, and one that waits for the semaphore gets a free
slot (Go's channels are first come, first served). All of these are weak fairness
per goroutine, which the Go runtime gives.

**What the passing runs exclude.** `autosync_live` has one sync at a time and calls
one after the other, because with a second sync slot the
older snapshot may be written last and stay (`autosync_manager.go:321` starts a sync
while one is running), and `autosync_race_blocked` shows what overlapping calls do. `config_one` cuts short only writes of the temporary
file: with `"file"` or `"store"` in `HalfWrites`, `PromisesKept` fails, because
`saveConfigNoLock` truncates the file it is about to write
(`config_manager.go:87`). It has one process: with two engines `PromisesKept`
fails too, because a save writes the whole memory of its process. `daemon_life` and `remote`
go through saves in place and except what is left behind with a broken file (`lost`).

### Findings

`PROJECT.json` lists finding 2 with its run. The others were met while modelling; where a
configuration file is named, `tlc -config X.cfg MCY` shows them.

1. `daemon/lock.go:60`: `Release` drops the lock and then removes the name; a
   daemon that had the old inode open and one that creates a new file both hold
   "the" lock (`DaemonLock_split.cfg`).
2. `autosync_manager.go:236`: the loop of a stopped manager may wait on the
   channel of a later `Start`; `Stop` never returns (`autosync_race_blocked`).
3. `autosync_manager.go:321`: destinations are written after `Stop` has returned
   (`AutoSync_v_afterstop.cfg`), and a sync that is still running when the timer fires again may write
   its older snapshot last.
4. `storage.go:75`: two processes share the temporary file; a truncated one is
   renamed into place (`ConfigStore_v_tmp.cfg`). `generic_destinations.go:72` has the same
   for two syncs of one destination.
5. `backup_manager.go:164`: the cleanup deletes another metadata key than the one
   that was written, so over memory and Redis storage the list of backups grows for
   ever and names deleted data (`Backups_v_retention.cfg`).
6. `config_manager.go:52`: a load from storage merges into what is in memory, so a
   server that the stored configuration lacks stays (`Merged` in `ConfigStore`).
7. `daemon/daemon.go:338`: an idle timeout cancels a context that `Run` does not wait for: the
   daemon stays, without its monitors (`DaemonLife_v_idle.cfg`).
8. `daemon/daemon.go:362`: after a restart the monitor starts auto-sync without the list of
   destinations that was persisted (`DaemonLife_v_list.cfg`).
9. `daemon/daemon.go:66`: `New` loads the configuration before `Run` has the lock; what
   the old daemon saves in between, the new one overwrites (`overlap`).
10. `daemon/client/client.go:145`: a `Close` beside a call sets the stub to nil under it
    (`NilStub`), although `daemon/client/README.md:165` calls the client thread-safe.
11. `daemon/client/client.go:739`: `Subscribe` succeeds although nothing serves it.
12. `daemon/service.go:244`: `SetConfig`'s handler drops the engine's error.
13. `daemon/preset_init.go:121`: disabled servers stay in the files of the daemon's own
    destinations, against the comment there (`Transforms_v_disabled.cfg`).
14. `sync.go:237`: a "project-nested" file that does not parse makes the worker panic
    (`Panics`); `engine_impl.go:252`: `SyncTo` iterates a map that operations write (`Mutate`).
15. `engine_impl.go:528`: callbacks given to `OnSyncComplete` are never called, against
    `docs/USAGE_GUIDE.md:191` and `CHANGELOG.md:70` (`Watchers_v_sync.cfg`): `emit` asserts another type. `event_bus.go:58` never
    unsubscribes anything, and server events carry a type that `emit` does not hand on.
16. `service_fixes.go:67`: `ListServers` answers with names and switches only.
17. `daemon/daemon.go:186`: `GracefulStop` has no timeout, and the ten seconds of
    `shutdown` begin after it; with finding 2 a `StopAutoSync` call that hangs keeps the daemon from
    ending (`StopRequestsEnd` without its exception fails).
18. `autosync_manager.go:128`: a destination in the configuration file's directory makes every sync
    ask for the next one, until the manager is stopped (`AutoSync_v_near.cfg`).
19. `autosync_manager.go:121`: `os.Stat` of a path that begins with `~` fails, so auto-sync starts
    and watches nothing, where `config_manager.go:21` and `:81` expand the path.
20. `config_manager.go:133`: a `SetConfig` from a client, which sends no settings, clears the
    persisted `Enabled` under a running manager; the next process does not start it again.

## 5. The proofs

All theorems hold for any values of the constants within the modules' named
assumptions (bounds are naturals, sentinels are no values, at least one
destination; for `Wire`, that configurations and trees are well formed: maps are finite,
and the directories above a directory exist). The invariants were model-checked before they were proved.

* `Daemon_proof`, first part (`DaemonLock`): the types (`LockTypeCorrect`); then, as long as nothing is unlinked, every
  process that has the lock file open has the *named* inode open, so two holders
  would carry one inode's lock: `LockExcludesUntilRelease`. Holders alone bind
  the socket, so it leads to the server: `SocketLeadsToServer`.
  `NamedLockHasOneHolder` needs no condition.
* `AutoSync_proof`: `BaseInv` (debounce kicks do not exceed the versions; `asm.mu`
  is held exactly by the caller inside `Start`; a generation's watcher is the newest
  one; the newest stop channel of a running manager is open) gives `TypeCorrect` and
  `ChannelIsClosedOnce` for any callers. `SerialInv` says for callers that wait for
  each other what holds at each step of the one call under way, among it that a `Start` about to
  watch finds the file unless a save has failed (`FileThere`); `RunningIsWatched`,
  `StoppedIsQuiet`, `SerialCallsDoNotPanic` follow. It is needed because the
  properties speak of the moments between calls only. `FlagInv` adds, for a file
  that no other program writes, that memory and file agree on `Enabled`, and
  that it is set from `StartPersist` to `StopPersist` until a whole configuration with another
  flag is put in place: `EnabledIsRunning`. Another program that
  read the file before a `Stop` and writes it after would turn the flag on again.
* `ConfigStore_proof`: `TypeCorrect` for any engines and paths (with `PathKnown`: a
  save in place has a path). For one engine with any paths (`OneEngine`), `OneInv`: no two names
  lead to one inode, the engine has the file open that its name leads to, and before the
  rename the temporary file holds the memory. With it `SavesRefine` maps every step to one of
  `AtomicStore` or to none, and `SaveEffect` says what a step of a save is for the places. If the files
  that the engine is given as paths are written whole (`WrittenWhole`; the temporary file may be cut
  short, operations may fail and the process may die anywhere), `Durable` holds: a file that is not
  being written parses and has what was promised (`Kept`), and what the engine last knew (`base`) is
  what is at its target, or, while that file is truncated, includes what was promised there
  (`Knows`). `Knows` is needed because a save promises only what differs from `base`, so what it takes to
  be unchanged must be what the file it replaces had. `StorageIsAtomic` and
  `OperationsAreDurable` follow, also for an engine that goes from one file to another. Without
  `WrittenWhole` promises are not kept: that is the in-place write of `config_manager.go:87`.
* `Backups_proof`: `IInv` says that a complete backup that lost a key, and every
  backup somebody is about to delete, has `Keep` newer ones listed (`Superseded`), and
  that who writes a backup writes its own. That is inductive because taking a
  superseded backup from the list leaves `Keep` newer ones above every superseded
  one (`SupersededWhenDeleted`), and because a stale listing marks superseded
  backups only (`OutdatedIsSuperseded`): `RetainedBackupsAreRestorable`. `WorkInv`
  (all backups from a current safety backup on hold the configuration there is or are
  late) gives `RestoreKeepsTheWork`; `BoundInv` (too long a list has a caller that will
  shorten it enough) gives `RetentionIsBounded`; `MatchInv` (a backup with one key
  has somebody about to write or delete the other) gives `ListMatchesStorage`.
* `Remote_proof`: `Effects` counts: the effects of a caller's latest call and the attempts of
  it that are still queued are together no more than the attempts sent, and what a
  handler is about to answer agrees with what its attempt did. `AnswersAgree` follows;
  it is needed because the answer comes steps after the effect, with other attempts in between.
  `Session` gives `SessionIsOrdered`: while a caller's call began when no older attempt was left
  (`clean`), every attempt still queued belongs to that call (`Fresh`); who can still change a
  server is among those who asked to (`Asked`), so for the only writer of a server what
  its attempt did is still in memory when the answer comes (`Stands`). `Filed` says that the
  file at the path has what the memory has, but for `behind`, and that the next process will find
  the memory in its own file, but for `lost`.
* `Daemon_proof`, second part (`DaemonLife`): `Durable` says that, as long as no process was started beside
  another, the one that is alive has every acknowledged change in its memory (`Held`), so that no
  save takes one back and a torn file can be written anew, and that the file is whole
  when nobody is alive, or `lost`: `AcknowledgedSurvives`. The property alone is not inductive: it does
  not say whose memory is written next. `Ordered` says of either way out that a
  stopped server has answered everybody, that who is past `GracefulStop` or out of
  `Run` finds it stopped, and that a shutdown is past its wait only when the auto-sync monitor
  is gone or the wait was given up. It is needed because two goroutines may be in
  `shutdown` at different places; `CallsAreAnswered` and `ShutdownEndsSync` follow.
* `SyncFanout_proof`: the slots given and left are always `Limit`, and a job reports once:
  `ResultsAreComplete`. Without an overlap a destination has one writer, whose inode
  is the temporary file and no other: `FilesStayWhole`, `FilesAreNeverOlder`.
* `Transforms_proof`: `IInv` says that a destination that was synced since the servers changed
  has a file that parses, whose servers are what the target makes of those it chose
  (`Synced`), and that an export is still what would be exported as long as the servers are the
  same. `FilesFollow`, `PreviewsAreRight`, `OwnersKeep` and `ExportsComeBack` follow for any
  servers and names.
* `Users_proof`, first part (`Watchers`): for every callback and notification, calls made and
  goroutines under way are as many as it is owed (`EachHearsOnce`); it needs that callbacks
  are registered only for topics whose news they understand. `ExportsAreTrue`: while an
  export runs, what is stored has been seen by it.
* `Users_proof`, second part (`Wire`): `StepEffects` reduces every call to six kinds of steps:
  an answer that is no configuration, one server changed, a configuration read, written
  back or loaded, and a project registered. `WireTypeCorrect` follows from what conversions do to well
  formed values (`FromWireTypes`, `ProjectListTypes`, `DetectedTypes`). `ServersDoStand` needs
  `Fresh`, which says of the configurations that clients still hold what the property says of the
  engine's, since they come back with `SetConfig`; that every server can be run needs in addition
  that those in the configuration files can (`FilesRunnable`), and those that clients compose
  (`ComposedRunnable`), because `LoadConfig` and `SetConfig` check nothing. `ProjectsStay`: a project's servers are what `pbToEngineProjectConfig` makes of the list it was
  last registered with (`AsAsked`), and that is the last one of every command
  (`RegisteredServers`). `EchoesChangeNothing` is an action property of the types alone.
  `ScansAreExact`, for any tree, depth and exclusions, rests on `VisitedAreReached`: the
  function that `scanDirectory` recursively defines is the one that `Reach` gives without
  recursion. `Reach` satisfies the recursion (`ReachOneMore`: what can be reached is an entry, or
  can be reached from one), and two functions that satisfy it differ nowhere, because there is
  no least depth at which they do.

Only model-checked: liveness (`StaleFilesNeverBlock`, `CallsReturn`,
`ChangesReachDestinations`, `SyncsQuiesce`, `StopRequestsEnd`, `EnabledIsResumed`): the prover
does not do liveness under fairness.

## 6. What is not modelled

* Settings other than `Enabled` and the list of destinations, log messages, formats.
* `SetConfigPath` and `CopyKey`, which nothing in the repository calls. The first sets the
  path without reading it, so the next save would replace what is there.
* Backups of several processes over one storage, and a `MaxBackups` that a restore
  changes; a change in the midst of `CreateBackup`'s marshalling, which is a data race.
* Two engines over one file beyond finding 4: each save writes the whole memory of
  its process, so the last one wins, which a property could only repeat.
* `OnError` (`engine_impl.go:531`), which does nothing.
* Redis storage: a thin wrapper of an external service, used by one example.
* The validators and sanitisers of `validation.go`: pure functions on strings that no
  operation calls. `claude_integration.go`: no caller.
* The protobuf descriptors and accessors: generated. The messages and stubs themselves are in `Wire` and
  `Remote`. The copy under `src/github.com` is an older one that nothing imports.
* Examples, `systemdWatchdog`, the command line's flags.

------------------------------ MODULE AutoSync ------------------------------
(***************************************************************************)
(* The auto-sync manager (autosync_manager.go): Start and Stop called from *)
(* several goroutines, the watch loops they spawn, the debounce timer and  *)
(* the syncs it starts, over one configuration file that the engine and    *)
(* other programs write.                                                   *)
(*                                                                         *)
(* A configuration is abstracted to a version number and the persisted     *)
(* Settings.AutoSync.Enabled; a destination to the version it was last     *)
(* given.  Every successful Start makes a watcher and a stop channel: both *)
(* are named by the number of that Start, their generation.                *)
(*                                                                         *)
(* The engine keeps its configuration in a file at a path ("path", or      *)
(* "tilde" when the path begins with ~, which Start does not expand), in   *)
(* the file of a FileStorage ("store") or in another storage ("other").    *)
(* At a path it is written in place and replaces the memory when loaded; a *)
(* storage replaces it by a rename and merges it into the memory.          *)
(*                                                                         *)
(* asm.mu is the variable mu, because Start keeps it over several steps; a *)
(* section that only takes it is one action guarded by mu = None.  Every   *)
(* section under engine.mu is one action.                                  *)
(***************************************************************************)
EXTENDS Naturals, FiniteSets

CONSTANTS Caller,      \* goroutines that call Start and Stop
          Syncer,      \* slots for performSync goroutines; with one slot a
                       \* timer only fires after the previous sync is over
          Dest,        \* registered destinations
          None,        \* "no caller", "no generation", "no edit"
          Garbled,     \* a file that does not parse
          Absent,      \* no file
          Mixed,       \* what is stored merged into a memory that had more
          Kept,        \* the ways of keeping the configuration that may occur
          Near,        \* destinations whose file may lie in the watched directory
          SerialCalls, \* whether callers wait for each other's calls
          OtherWriter, \* whether other programs write the file too
          MaxStarts,   \* bound: successful Starts of a behaviour
          MaxVersion,  \* bound: configuration changes of a behaviour
          MaxFailures  \* bound: failing saves, watches and destination writes

Gen == 1..MaxStarts
Version == 0..MaxVersion
Content == Version \union {Mixed}
Config == [ver : Content, enabled : BOOLEAN]

ASSUME AutoSyncAssumption ==
    /\ SerialCalls \in BOOLEAN /\ OtherWriter \in BOOLEAN
    /\ MaxStarts \in Nat /\ MaxVersion \in Nat /\ MaxFailures \in Nat
    /\ None \notin Caller \union Nat \union Config
    /\ Garbled \notin Config \union {Absent} /\ Absent \notin Config
    /\ Mixed \notin Nat
    /\ Kept \subseteq {"path", "tilde", "store", "other"}
    /\ Dest # {} /\ Near \subseteq Dest

VARIABLES
    pc,         \* where each caller is in Start or Stop
    mu,         \* the caller inside Start's critical section, or None
    isRunning,  \* asm.isRunning
    starts,     \* number of watchers made so far
    watcher,    \* asm.watcher
    stopChan,   \* asm.stopChan
    stopped,    \* the stop channels that are closed
    open,       \* the watchers that are not closed
    watching,   \* those of them that watch the file
    dirs,       \* those of them that watch its directory
    blind,      \* observer: the last Start could not watch the directory
    event,      \* the watchers with an undelivered file event
    loop,       \* the watchLoop goroutine of each generation
    timer,      \* asm.debounceTimer: "nil", "armed" or "fired"
    kicks,      \* goroutines started by SetConfig for debouncedSync
    sync,       \* the performSync goroutines
    mem,        \* engine.config
    file,       \* the configuration file
    edit,       \* what another program is about to write, or None
    dest,       \* the version each destination has
    lastVer,    \* the newest version
    failures,   \* failed writes so far
    panicked,   \* a panic has ended the process
    changed,    \* observer: the file changed since the watcher watches it
    overruled,  \* observer: a whole configuration that was put in place has
                \* another Enabled than the last Start or Stop
    kept, near  \* how the configuration is kept, who is near: never change

setting  == <<kept, near>>
manager  == <<isRunning, starts, watcher, stopChan, stopped, setting>>
watchers == <<open, watching, dirs, blind>>
files    == <<file, event, changed>>
config   == <<mem, edit, lastVer, overruled>>
syncing  == <<timer, kicks, sync, dest>>
outcome  == <<failures, panicked>>
vars == <<pc, mu, loop, manager, watchers, files, config, syncing, outcome>>

StartPC == {"startChan", "startPersist", "startWatch", "startSpawn"}
StopPC  == {"stopWait", "stopBlocked", "stopWoken", "stopClose", "stopTimer",
            "stopPersist"}
LoopPC  == {"none", "select", "wait", "handle", "done"}
SyncPC  == {"idle", "load", "read", "write", "finish"}
NoLoop  == [pc |-> "none", chan |-> None, watch |-> None]
NoSync  == [pc |-> "idle", todo |-> {}, snap |-> 0]

Init == /\ pc = [c \in Caller |-> "idle"]
        /\ mu = None
        /\ isRunning = FALSE
        /\ starts = 0
        /\ watcher = None
        /\ stopChan = None
        /\ stopped = {}
        /\ open = {}
        /\ watching = {}
        /\ dirs = {}
        /\ blind = FALSE
        /\ event = {}
        /\ loop = [g \in Gen |-> NoLoop]
        /\ timer = "nil"
        /\ kicks = 0
        /\ sync = [s \in Syncer |-> NoSync]
        /\ mem = [ver |-> 0, enabled |-> FALSE]
        /\ file \in {Absent, [ver |-> 0, enabled |-> FALSE]}
        /\ edit = None
        /\ dest = [d \in Dest |-> 0]
        /\ lastVer = 0
        /\ failures = 0
        /\ panicked = FALSE
        /\ changed = FALSE
        /\ overruled = FALSE
        /\ kept \in Kept
        /\ near \in SUBSET Near

\* A panic ends every goroutine of the process.
At(c, l) == ~panicked /\ pc[c] = l
LoopAt(g, l) == ~panicked /\ loop[g].pc = l
SyncAt(s, l) == ~panicked /\ sync[s].pc = l

Goto(c, l) == pc' = [pc EXCEPT ![c] = l]
Live == {g \in Gen : loop[g].pc \in {"select", "wait", "handle"}}  \* asm.wg

CanFail == failures < MaxFailures
Fail == CanFail /\ failures' = failures + 1

InPlace == kept \in {"path", "tilde"}

\* Start finds the file, in order to watch it.
Watchable == kept \in {"path", "store"} /\ file # Absent

\* The file gets new content: every watcher on it or on its directory has an
\* event to deliver.
NewContent(content) ==
    /\ file' = content
    /\ event' = event \union watching \union dirs
    /\ changed' = (changed \/ watcher \in watching \union dirs)

WriteFile(content) == NewContent(content) /\ UNCHANGED watching

\* Another file takes its name: whoever watched the file itself no longer does.
ReplaceFile(content) == NewContent(content) /\ watching' = {}

\* watcher.Close(): no more watches, no more events.
CloseWatcher(w) ==
    /\ open' = open \ {w}
    /\ watching' = watching \ {w}
    /\ dirs' = dirs \ {w}
    /\ event' = event \ {w}

\* A save that fails: nothing is there, or half of it, in place or in the
\* temporary file beside it.
HalfSave ==
    /\ Fail
    /\ \/ UNCHANGED <<file, event, changed, watching>>
       \/ InPlace /\ WriteFile(Garbled)
       \/ /\ ~InPlace /\ event' = event \union dirs
          /\ UNCHANGED <<file, changed, watching>>

\* saveConfigNoLock of an in-memory configuration, or its failure.
Save(content) ==
    \/ /\ IF InPlace THEN WriteFile(content) ELSE ReplaceFile(content)
       /\ UNCHANGED failures
    \/ HalfSave

-----------------------------------------------------------------------------
(* Start *)

MayCall(c) == /\ At(c, "idle")
              /\ SerialCalls => \A d \in Caller : pc[d] = "idle"

\* The error returns for a running manager and without a watcher change
\* nothing and are no steps.
StartCall(c) ==
    /\ MayCall(c)
    /\ mu = None /\ ~isRunning
    /\ starts < MaxStarts
    /\ mu' = c
    /\ starts' = starts + 1
    /\ watcher' = starts + 1
    /\ isRunning' = TRUE
    /\ open' = open \union {starts + 1}
    /\ changed' = FALSE
    /\ blind' = FALSE
    /\ Goto(c, "startChan")
    /\ UNCHANGED <<stopChan, stopped, setting, watching, dirs, event, loop,
                   file, config, syncing, outcome>>

\* Fault variant of StartChan: an existing stop channel is used again.
StartChanReused(c) ==
    /\ At(c, "startChan")
    /\ stopChan' = IF stopChan = None THEN watcher ELSE stopChan
    /\ Goto(c, "startPersist")
    /\ UNCHANGED <<mu, isRunning, starts, watcher, stopped, setting, loop, watchers,
                   files, config, syncing, outcome>>

\* The watch loop of an earlier Start may see the new watcher with the old
\* stop channel: it reads both without the lock.
StartChan(c) ==
    /\ At(c, "startChan")
    /\ stopChan' = watcher
    /\ Goto(c, "startPersist")
    /\ UNCHANGED <<mu, isRunning, starts, watcher, stopped, setting, loop, watchers,
                   files, config, syncing, outcome>>

\* A save that fails is only a warning.
StartPersist(c) ==
    /\ At(c, "startPersist")
    /\ mem' = [mem EXCEPT !.enabled = TRUE]
    /\ Save(mem')
    /\ overruled' = FALSE
    /\ Goto(c, "startWatch")
    /\ UNCHANGED <<mu, loop, edit, lastVer, panicked, manager, open, dirs, blind,
                   syncing>>

\* The file, and its directory, where a failure is only a warning.
StartWatch(c) ==
    /\ At(c, "startWatch")
    /\ Watchable /\ watcher \in open
    /\ watching' = watching \union {watcher}
    /\ \/ dirs' = dirs \union {watcher} /\ UNCHANGED <<blind, failures>>
       \/ Fail /\ blind' = TRUE /\ UNCHANGED dirs
    /\ Goto(c, "startSpawn")
    /\ UNCHANGED <<mu, loop, open, manager, files, config, syncing, panicked>>

\* Without a file to be found there is nothing to watch, and Start succeeds.
StartBlind(c) ==
    /\ At(c, "startWatch")
    /\ ~Watchable
    /\ blind' = TRUE
    /\ Goto(c, "startSpawn")
    /\ UNCHANGED <<mu, loop, open, watching, dirs, manager, files, config,
                   syncing, outcome>>

\* Fault variant of StartWatchFails: isRunning is not reset.
StartWatchFailsRunning(c) ==
    /\ At(c, "startWatch")
    /\ Watchable /\ Fail
    /\ CloseWatcher(watcher)
    /\ mu' = None
    /\ Goto(c, "idle")
    /\ UNCHANGED <<manager, loop, blind, panicked, file, changed, config, syncing>>

\* watcher.Add fails, as it does on a watcher that some Stop has closed: the
\* watcher is closed and Start returns the error.
StartWatchFails(c) ==
    /\ At(c, "startWatch")
    /\ Watchable
    /\ \/ watcher \notin open /\ UNCHANGED failures
       \/ Fail
    /\ CloseWatcher(watcher)
    /\ isRunning' = FALSE
    /\ mu' = None
    /\ Goto(c, "idle")
    /\ UNCHANGED <<starts, watcher, stopChan, stopped, setting, loop, blind,
                   panicked, file, changed, config, syncing>>

StartSpawn(c) ==
    /\ At(c, "startSpawn")
    /\ loop' = [loop EXCEPT ![watcher].pc = "select"]
    /\ mu' = None
    /\ Goto(c, "idle")
    /\ UNCHANGED <<manager, watchers, files, config, syncing, outcome>>

-----------------------------------------------------------------------------
(* Stop *)

\* Fault variant of StopCall: the unlock is deferred to the end of Stop.
StopCallDeferred(c) ==
    /\ MayCall(c)
    /\ mu = None /\ isRunning
    /\ mu' = c
    /\ stopped' = stopped \union {stopChan}
    /\ panicked' = (stopChan \in stopped)
    /\ isRunning' = FALSE
    /\ Goto(c, "stopWait")
    /\ UNCHANGED <<starts, watcher, stopChan, setting, loop, failures, watchers,
                   files, config, syncing>>

\* Under asm.mu: close(stopChan), which panics on a closed channel.
StopCall(c) ==
    /\ MayCall(c)
    /\ mu = None /\ isRunning
    /\ stopped' = stopped \union {stopChan}
    /\ panicked' = (stopChan \in stopped)
    /\ isRunning' = FALSE
    /\ Goto(c, "stopWait")
    /\ UNCHANGED <<mu, starts, watcher, stopChan, setting, loop, failures,
                   watchers, files, config, syncing>>

\* Fault variant of StopWait: the goroutines are not waited for.
StopWaitSkipped(c) ==
    /\ At(c, "stopWait")
    /\ Goto(c, "stopClose")
    /\ UNCHANGED <<mu, loop, manager, watchers, files, config, syncing,
                   outcome>>

\* wg.Wait: return at once, or queue for the counter's next zero.
StopWait(c) ==
    /\ At(c, "stopWait")
    /\ Goto(c, IF Live = {} THEN "stopClose" ELSE "stopBlocked")
    /\ UNCHANGED <<mu, loop, manager, watchers, files, config, syncing,
                   outcome>>

\* A woken waiter panics when the counter has left zero again meanwhile:
\* "WaitGroup is reused before previous Wait has returned".
StopWake(c) ==
    /\ At(c, "stopWoken")
    /\ panicked' = (Live # {})
    /\ Goto(c, "stopClose")
    /\ UNCHANGED <<mu, loop, failures, manager, watchers, files, config,
                   syncing>>

\* asm.watcher, read without the lock, is whatever watcher is there now.
StopClose(c) ==
    /\ At(c, "stopClose")
    /\ CloseWatcher(watcher)
    /\ Goto(c, "stopTimer")
    /\ UNCHANGED <<mu, loop, blind, file, changed, manager, config, syncing,
                   outcome>>

StopTimer(c) ==
    /\ At(c, "stopTimer")
    /\ mu = None
    /\ timer' = "nil"
    /\ Goto(c, "stopPersist")
    /\ UNCHANGED <<mu, loop, kicks, sync, dest, manager, watchers, files,
                   config, outcome>>

\* Fault variant of StopPersist: the state is saved but not cleared in memory.
StopPersistStale(c) ==
    /\ At(c, "stopPersist")
    /\ Save(mem)
    /\ Goto(c, "idle")
    /\ UNCHANGED <<mu, loop, panicked, manager, open, dirs, blind, config,
                   syncing>>

StopPersist(c) ==
    /\ At(c, "stopPersist")
    /\ mem' = [mem EXCEPT !.enabled = FALSE]
    /\ Save(mem')
    /\ overruled' = FALSE
    /\ Goto(c, "idle")
    /\ UNCHANGED <<mu, loop, edit, lastVer, panicked, manager, open, dirs, blind,
                   syncing>>

-----------------------------------------------------------------------------
(* The watch loops *)

\* One evaluation of the select's operands.
LoopSelect(g) ==
    /\ LoopAt(g, "select")
    /\ loop' = [loop EXCEPT ![g] =
                   [pc |-> "wait", chan |-> stopChan, watch |-> watcher]]
    /\ UNCHANGED <<pc, mu, manager, watchers, files, config, syncing, outcome>>

\* The stop channel or the event channel is closed: return, wg.Done().  The
\* last one out wakes whoever waits for the group.
LoopLeave(g) ==
    /\ LoopAt(g, "wait")
    /\ loop[g].chan \in stopped \/ loop[g].watch \notin open
    /\ loop' = [loop EXCEPT ![g].pc = "done"]
    /\ pc' = [c \in Caller |-> IF pc[c] = "stopBlocked" /\ Live = {g}
                               THEN "stopWoken" ELSE pc[c]]
    /\ UNCHANGED <<mu, manager, watchers, files, config, syncing, outcome>>

LoopEvent(g) ==
    /\ LoopAt(g, "wait")
    /\ loop[g].watch \in event
    /\ event' = event \ {loop[g].watch}
    /\ loop' = [loop EXCEPT ![g].pc = "handle"]
    /\ UNCHANGED <<pc, mu, file, changed, manager, watchers, config, syncing,
                   outcome>>

\* An event of another kind (shouldIgnoreEvent) or a watcher error: the loop
\* only goes round.
LoopIgnore(g) ==
    /\ LoopAt(g, "wait")
    /\ loop[g].watch \in watching \union dirs
    /\ loop' = [loop EXCEPT ![g].pc = "select"]
    /\ UNCHANGED <<pc, mu, manager, watchers, files, config, syncing, outcome>>

\* debouncedSync: whatever timer there was is replaced by a new one.
Rearm == ~panicked /\ mu = None /\ timer' = "armed"

LoopDebounce(g) ==
    /\ LoopAt(g, "handle")
    /\ Rearm
    /\ loop' = [loop EXCEPT ![g].pc = "select"]
    /\ UNCHANGED <<pc, mu, kicks, sync, dest, manager, watchers, files,
                   config, outcome>>

KickDebounce ==
    /\ kicks > 0
    /\ Rearm
    /\ kicks' = kicks - 1
    /\ UNCHANGED <<pc, mu, loop, sync, dest, manager, watchers, files, config,
                   outcome>>

-----------------------------------------------------------------------------
(* The syncs *)

SyncTo(s, l) == sync' = [sync EXCEPT ![s].pc = l]

TimerFires(s) ==
    /\ timer = "armed"
    /\ SyncAt(s, "idle")
    /\ timer' = "fired"
    /\ SyncTo(s, "load")
    /\ UNCHANGED <<pc, mu, loop, kicks, dest, manager, watchers, files,
                   config, outcome>>

\* Fault variant of SyncLoad: the file is not read again.
SyncLoadSkipped(s) ==
    /\ SyncAt(s, "load")
    /\ sync' = [sync EXCEPT ![s] = [pc |-> "read", todo |-> Dest, snap |-> 0]]
    /\ UNCHANGED <<pc, mu, loop, timer, kicks, dest, config, manager,
                   watchers, files, outcome>>

\* What a load may leave in memory.  The flag is always in what is stored.
Loaded ==
    IF file = Absent THEN {mem}
    ELSE {file} \union (IF InPlace \/ mem.ver = file.ver THEN {}
                        ELSE {[file EXCEPT !.ver = Mixed]})

\* Fault variant of SyncLoad: what was loaded is saved again.
SyncLoadSaving(s) ==
    /\ SyncAt(s, "load")
    /\ IF file = Garbled
       THEN SyncTo(s, "idle") /\ UNCHANGED <<mem, files, watching>>
       ELSE /\ mem' \in Loaded
            /\ WriteFile(mem')
            /\ sync' = [sync EXCEPT ![s] =
                           [pc |-> "read", todo |-> Dest, snap |-> 0]]
    /\ UNCHANGED <<pc, mu, loop, timer, kicks, edit, lastVer, overruled, dest,
                   manager, open, dirs, blind, outcome>>

\* LoadConfig: what does not parse ends this sync.
SyncLoad(s) ==
    /\ SyncAt(s, "load")
    /\ IF file = Garbled
       THEN SyncTo(s, "idle") /\ UNCHANGED mem
       ELSE /\ mem' \in Loaded
            /\ sync' = [sync EXCEPT ![s] =
                           [pc |-> "read", todo |-> Dest, snap |-> 0]]
    /\ UNCHANGED <<pc, mu, loop, timer, kicks, edit, lastVer, overruled, dest,
                   manager, watchers, files, outcome>>

\* SyncTo takes the configuration of the moment and transforms it ...
SyncRead(s) ==
    /\ SyncAt(s, "read")
    /\ sync' = [sync EXCEPT ![s] =
                   [pc |-> "write", todo |-> sync[s].todo, snap |-> mem.ver]]
    /\ UNCHANGED <<pc, mu, loop, timer, kicks, dest, manager, watchers, files,
                   config, outcome>>

\* ... and writes it later; destinations come in no particular order.  It
\* is written even when it is what the destination has, and that is an event
\* for whoever watches the destination's directory.
SyncWrite(s) ==
    /\ SyncAt(s, "write")
    /\ \E d \in sync[s].todo :
          /\ \/ dest' = [dest EXCEPT ![d] = sync[s].snap] /\ UNCHANGED failures
             \/ Fail /\ UNCHANGED dest
          /\ event' = IF d \in near THEN event \union dirs ELSE event
          /\ sync' = [sync EXCEPT ![s] =
                         [pc |-> IF sync[s].todo = {d} THEN "finish" ELSE "read",
                          todo |-> sync[s].todo \ {d},
                          snap |-> sync[s].snap]]
    /\ UNCHANGED <<pc, mu, loop, timer, kicks, panicked, manager, watchers,
                   file, changed, config>>

\* lastSync is set under asm.mu.
SyncFinish(s) ==
    /\ SyncAt(s, "finish")
    /\ mu = None
    /\ sync' = [sync EXCEPT ![s] = NoSync]
    /\ UNCHANGED <<pc, mu, loop, timer, kicks, dest, manager, watchers, files,
                   config, outcome>>

-----------------------------------------------------------------------------
(* Changes of the configuration *)

NewVersion == lastVer < MaxVersion /\ lastVer' = lastVer + 1

\* A server operation of the engine: memory first, then the file.
Update ==
    /\ ~panicked
    /\ NewVersion
    /\ mem' = [mem EXCEPT !.ver = lastVer']
    /\ Save(mem')
    /\ UNCHANGED <<pc, mu, loop, edit, overruled, panicked, manager, open, dirs,
                   blind, syncing>>

\* A whole configuration is put in place, Settings.AutoSync.Enabled included.
Replace ==
    /\ ~panicked
    /\ NewVersion
    /\ \E on \in BOOLEAN : mem' = [ver |-> lastVer', enabled |-> on]
    /\ overruled' = (overruled \/ mem'.enabled # mem.enabled)
    /\ Save(mem')
    /\ UNCHANGED <<pc, mu, loop, timer, sync, edit, dest, panicked, manager,
                   open, dirs, blind>>

\* A successful save while the manager runs also asks for a sync, in a
\* goroutine of its own.
SetConfig ==
    /\ Replace
    /\ kicks' = IF isRunning /\ failures' = failures THEN kicks + 1 ELSE kicks

RestoreBackup == Replace /\ UNCHANGED kicks

\* Another program rewrites the file: for a while it does not parse.
EditBegin ==
    /\ OtherWriter
    /\ edit = None /\ file \notin {Garbled, Absent}
    /\ NewVersion
    /\ edit' = [file EXCEPT !.ver = lastVer']
    /\ WriteFile(Garbled)
    /\ UNCHANGED <<pc, mu, loop, mem, overruled, manager, open, dirs, blind,
                   syncing, outcome>>

EditEnd ==
    /\ edit # None
    /\ WriteFile(edit)
    /\ edit' = None
    /\ UNCHANGED <<pc, mu, loop, mem, lastVer, overruled, manager, open, dirs,
                   blind, syncing, outcome>>

\* Another program puts another file in its place.
EditReplaces ==
    /\ OtherWriter
    /\ edit = None /\ file \notin {Garbled, Absent}
    /\ NewVersion
    /\ ReplaceFile([file EXCEPT !.ver = lastVer'])
    /\ UNCHANGED <<pc, mu, loop, mem, edit, overruled, manager, open, dirs, blind,
                   syncing, outcome>>

-----------------------------------------------------------------------------
StartStep(c) == \/ StartChan(c) \/ StartPersist(c) \/ StartWatch(c) \/ StartBlind(c)
                \/ StartWatchFails(c) \/ StartSpawn(c)
StopStep(c)  == \/ StopWait(c) \/ StopWake(c) \/ StopClose(c) \/ StopTimer(c)
                \/ StopPersist(c)
LoopStep(g)  == LoopSelect(g) \/ LoopLeave(g) \/ LoopEvent(g) \/ LoopDebounce(g)
SyncStep(s)  == SyncLoad(s) \/ SyncRead(s) \/ SyncWrite(s) \/ SyncFinish(s)
Fires        == \E s \in Syncer : TimerFires(s)

Next ==
    \/ \E c \in Caller : StartCall(c) \/ StopCall(c)
    \/ \E c \in Caller : StartStep(c) \/ StopStep(c)
    \/ \E g \in Gen : LoopStep(g) \/ LoopIgnore(g)
    \/ KickDebounce
    \/ Fires
    \/ \E s \in Syncer : SyncStep(s)
    \/ Update \/ SetConfig \/ RestoreBackup
    \/ EditBegin \/ EditEnd \/ EditReplaces

Spec == Init /\ [][Next]_vars

\* Goroutines are scheduled, timers fire, editors finish; select picks at
\* random among its ready channels, so none is passed over for ever.
\* Nothing makes anybody call Start or Stop or change the configuration.
Fairness ==
    /\ \A c \in Caller : WF_vars(StartStep(c)) /\ WF_vars(StopStep(c))
    /\ \A g \in Gen : /\ WF_vars(LoopStep(g))
                      /\ SF_vars(LoopLeave(g))
                      /\ SF_vars(LoopEvent(g))
    /\ WF_vars(KickDebounce)
    /\ WF_vars(Fires)
    /\ \A s \in Syncer : WF_vars(SyncStep(s))
    /\ WF_vars(EditEnd)

FairSpec == Spec /\ Fairness

-----------------------------------------------------------------------------
ManagerTypeOK ==
    /\ pc \in [Caller -> {"idle"} \union StartPC \union StopPC]
    /\ mu \in Caller \union {None}
    /\ isRunning \in BOOLEAN
    /\ starts \in 0..MaxStarts
    /\ watcher \in Gen \union {None}
    /\ stopChan \in Gen \union {None}
    /\ stopped \in SUBSET Gen
    /\ open \in SUBSET Gen
    /\ watching \in SUBSET open
    /\ dirs \in SUBSET open
    /\ blind \in BOOLEAN
    /\ panicked \in BOOLEAN
    /\ kept \in Kept /\ near \in SUBSET Near

LoopTypeOK ==
    loop \in [Gen -> [pc : LoopPC, chan : Gen \union {None},
                     watch : Gen \union {None}]]

SyncTypeOK ==
    /\ timer \in {"nil", "armed", "fired"}
    /\ kicks \in 0..MaxVersion
    /\ sync \in [Syncer -> [pc : SyncPC, todo : SUBSET Dest, snap : Content]]
    /\ dest \in [Dest -> Content]

FileTypeOK ==
    /\ mem \in Config
    /\ file \in Config \union {Garbled, Absent}
    /\ edit \in Config \union {None}
    /\ event \in SUBSET open
    /\ lastVer \in Version
    /\ failures \in 0..MaxFailures
    /\ changed \in BOOLEAN /\ overruled \in BOOLEAN

TypeOK == ManagerTypeOK /\ LoopTypeOK /\ SyncTypeOK /\ FileTypeOK

NoCall == \A c \in Caller : pc[c] = "idle"

\* Between calls, a manager that runs has exactly one watch loop, that of the
\* last Start, its watcher is open, its stop channel is not closed, and it
\* watches the file's directory, which outlives every replacing of the file:
\* unless Start found nothing to watch, for which there are two reasons, a
\* failure or a configuration at no place that it looks at
\* (autosync_manager.go:110-133).
RunningMeansWatched ==
    NoCall /\ isRunning =>
        /\ Live = {watcher} /\ open = {watcher}
        /\ stopChan = watcher /\ stopChan \notin stopped
        /\ dirs = {watcher} \/ blind
        /\ blind => failures > 0 \/ kept \in {"tilde", "other"}

\* Between calls, a manager that does not run has no watch loop and no open
\* watcher left.
StoppedMeansQuiet == NoCall /\ ~isRunning => Live = {} /\ open = {}

\* Between calls, and when no save or watch failed, the persisted flag that
\* decides about the next process's auto-start says what the manager does,
\* although every sync takes it from the file again; unless a SetConfig or
\* RestoreBackup has put another one in place since the last call
\* (config_manager.go:133).
EnabledMatchesRunning ==
    NoCall /\ failures = 0 /\ ~overruled =>
        /\ mem.enabled = isRunning
        /\ file \in {Absent, Garbled} \/ file.enabled = isRunning

\* No sequence of Starts and Stops ends the process in a panic.
NoPanic == ~panicked

\* close(stopChan) never hits a closed channel, whoever calls.
ChannelClosedOnce == isRunning /\ mu = None => stopChan \notin stopped

\* Every call of Start and of Stop returns.
CallsReturn == \A c \in Caller : pc[c] # "idle" ~> pc[c] = "idle"

\* A change of the file that the running manager watches reaches every
\* destination for good, once changes and failures have ended.  From a
\* storage it may come with what the memory had besides (config_manager.go:52).
ChangesReachDestinations ==
    <>[](isRunning /\ changed /\ failures = 0)
        => <>[](\A d \in Dest : /\ file \in Config
                                /\ \/ dest[d] = file.ver
                                   \/ ~InPlace /\ dest[d] = Mixed)

Quiet == timer # "armed" /\ \A s \in Syncer : sync[s].pc = "idle"

\* Syncing stops by itself once nothing changes any more, unless a destination's
\* file lies in the directory that is watched: then every sync asks for the next
\* one, until the manager is stopped (autosync_manager.go:128).
SyncsQuiesce == <>[](dirs = {} \/ near = {}) => <>[]Quiet

\* Nothing of the condition: what the end of the changes alone would bring.
SyncsEnd == <>[]Quiet

\* autosync_manager.go "StopAutoSync stops automatic synchronization": no
\* destination is written while the manager is stopped and nobody calls it.
NoWriteWhenStopped == [][dest' # dest => isRunning \/ ~NoCall]_vars

=============================================================================

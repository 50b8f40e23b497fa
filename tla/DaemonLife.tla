----------------------------- MODULE DaemonLife -----------------------------
(***************************************************************************)
(* The life of daemon processes from New to their exit (daemon/daemon.go,  *)
(* cmd/daemon/main.go, Shutdown in daemon/service.go, the auto-start in    *)
(* engine_impl.go): Run's select, the monitors, the calls under way, and   *)
(* shutdown, which Run and the Shutdown call's goroutine may both be in.   *)
(*                                                                         *)
(* How a process gets the lock and the socket is the subject of            *)
(* DaemonLock, how auto-sync starts and stops that of AutoSync; here each  *)
(* is a step, which may fail, and a stop has two: it may have to wait for  *)
(* the loop of a later start.  A configuration is the persisted Enabled,   *)
(* whether auto-sync is for listed destinations only, and how many changes *)
(* of clients it has.  It is saved in place: a failed save, or a crash in  *)
(* one, may leave a torn file.                                             *)
(***************************************************************************)
EXTENDS Naturals

CONSTANTS Process,          \* the processes followed step by step
          Other,            \* one more, of which only its lock and its saves are seen
          None, Torn,       \* nobody, and a file that is not JSON
          IdleTimeout,      \* whether one is configured
          MaxStarts, MaxCalls,
          MaxFaults         \* bounds; crashes, failing saves and starts of auto-sync together

ASSUME DaemonLifeAssumption ==
    /\ None \notin Process \union {Other} /\ Other \notin Process /\ IdleTimeout \in BOOLEAN
    /\ MaxStarts \in Nat /\ MaxCalls \in Nat /\ MaxFaults \in Nat
    /\ Torn \notin [enabled : BOOLEAN, listed : BOOLEAN, changes : Nat]

VARIABLES
    run,       \* where main and Run are
    lock,      \* who has the lock file
    disk,      \* the daemon's config.json
    mem,       \* engine.config of each process
    away,      \* engine.configPath is another file's
    syncing,   \* the auto-sync manager's isRunning
    hung,      \* a Stop that is under way waits for the loop of a later Start
    server,    \* the gRPC server
    rpcs,      \* the calls under way
    cancelled, \* d.ctx is done
    signalled, \* Run's context is done
    idle,      \* idleMonitor
    monitor,   \* autoSyncMonitor
    delayed,   \* NewEngine's goroutine that starts auto-sync
    stop,      \* where Run and the Shutdown call's goroutine are in shutdown
    forced,    \* observer: a shutdown did not wait for the monitors
    overlap,   \* observer: a process was started while another one was there
    failed,    \* observer: a start of auto-sync has failed in the process
    lost,      \* observer: the file was torn when what it had was last in a memory
    acked,     \* observer: the changes that clients were told of and have not replaced
    starts, calls, faults

goroutines == <<idle, monitor, delayed>>
bounds     == <<starts, calls, faults>>
config     == <<disk, mem, away, lost>>
autosync   == <<syncing, hung, failed>>
vars == <<run, lock, config, autosync, server, rpcs, cancelled, signalled, idle,
          monitor, delayed, stop, forced, overlap, acked, starts, calls, faults>>

Config  == [enabled : BOOLEAN, listed : BOOLEAN, changes : Nat]
Defaults == [enabled |-> FALSE, listed |-> FALSE, changes |-> 0]
Invoker == {"run", "rpc"}
Arrivals == {"start", "start some", "stop", "change", "replace", "load", "shutdown"}
Rpc     == Arrivals \union {"stopping"}        \* the second half of "stop"
Alive(p) == run[p] # "off"

Init ==
    /\ run = [p \in Process |-> "off"] /\ lock = None
    /\ disk = Defaults /\ mem = [p \in Process |-> Defaults]
    /\ away = [p \in Process |-> FALSE] /\ lost = FALSE
    /\ syncing = [p \in Process |-> FALSE] /\ hung = [p \in Process |-> FALSE]
    /\ failed = [p \in Process |-> FALSE]
    /\ server = [p \in Process |-> "stopped"] /\ rpcs = [p \in Process |-> {}]
    /\ cancelled = [p \in Process |-> FALSE] /\ signalled = [p \in Process |-> FALSE]
    /\ idle = [p \in Process |-> "done"] /\ monitor = [p \in Process |-> "done"]
    /\ delayed = [p \in Process |-> "done"]
    /\ stop = [p \in Process |-> [i \in Invoker |-> "no"]]
    /\ forced = [p \in Process |-> FALSE]
    /\ overlap = FALSE /\ acked = 0
    /\ starts = 0 /\ calls = 0 /\ faults = 0

-----------------------------------------------------------------------------
(* The engine, as the daemon uses it.                                      *)

Fault == faults < MaxFaults /\ faults' = faults + 1

Written(p, c) ==
    /\ mem' = [mem EXCEPT ![p] = c]
    /\ disk' = IF away[p] THEN disk ELSE c
    /\ UNCHANGED <<away, lost>>

NotWritten(p, c) ==
    /\ Fault
    /\ mem' = [mem EXCEPT ![p] = c]
    /\ disk' = disk \/ (~away[p] /\ disk' = Torn)
    /\ UNCHANGED <<away, lost>>

Save(p, c) == (Written(p, c) /\ UNCHANGED faults) \/ NotWritten(p, c)

\* a Stop closes the channel, waits for the loops and saves
StopUnderWay(p) == "stopping" \in rpcs[p] \/ \E i \in Invoker : stop[p][i] = "persist"
StopWaits(p)    == hung[p] /\ syncing[p] /\ StopUnderWay(p)

Started(c, listed) == [c EXCEPT !.enabled = TRUE, !.listed = listed]

\* Fault variant of StartAutoSync: the settings are saved, and the manager gives up
StartAutoSyncHalf(p, listed) ==
    /\ IF syncing[p] THEN UNCHANGED <<config, faults>> ELSE Save(p, Started(mem[p], listed))
    /\ UNCHANGED autosync

\* there is no watcher, or it cannot watch the file; by then Start has saved the settings
CannotWatch(p, listed) ==
    /\ \/ Fault /\ (UNCHANGED config \/ Written(p, Started(mem[p], listed)))
       \/ NotWritten(p, Started(mem[p], listed))
    /\ failed' = [failed EXCEPT ![p] = TRUE]
    /\ UNCHANGED <<syncing, hung>>

\* for the listed destinations only, or for all of them; the loop of a stopped manager
\* that has not left yet may wait for the new channel
StartAutoSync(p, listed) ==
    \/ syncing[p] /\ UNCHANGED <<config, autosync, faults>>
    \/ /\ ~syncing[p] /\ Save(p, Started(mem[p], listed))
       /\ syncing' = [syncing EXCEPT ![p] = TRUE]
       /\ \E b \in BOOLEAN : hung' = [hung EXCEPT ![p] = b /\ StopUnderWay(p)]
       /\ UNCHANGED failed
    \/ ~syncing[p] /\ CannotWatch(p, listed)

-----------------------------------------------------------------------------
(* main, New and Run.                                                      *)

\* Fault variant of New: the saved configuration is not loaded
NewUnloaded(p) ==
    /\ run[p] = "off" /\ starts < MaxStarts
    /\ starts' = starts + 1
    /\ run' = [run EXCEPT ![p] = "new"]
    /\ overlap' = (overlap \/ lock = Other \/ \E q \in Process : Alive(q))
    /\ UNCHANGED <<lock, config, autosync, server, rpcs, cancelled, signalled, goroutines,
                   stop, forced, acked, calls, faults>>

\* what New finds in the file; it goes on without when it cannot read it
Stored == IF disk = Torn THEN Defaults ELSE disk

\* the configuration is loaded before Run asks for the lock
New(p) ==
    /\ run[p] = "off" /\ starts < MaxStarts
    /\ starts' = starts + 1
    /\ run' = [run EXCEPT ![p] = "new"]
    /\ mem' = [mem EXCEPT ![p] = Stored]
    /\ delayed' = [delayed EXCEPT ![p] = IF Stored.enabled THEN "asleep" ELSE "done"]
    /\ overlap' = (overlap \/ lock = Other \/ \E q \in Process : Alive(q))
    /\ UNCHANGED <<lock, disk, away, lost, autosync, server, rpcs, cancelled, signalled, idle, monitor,
                   stop, forced, acked, calls, faults>>

\* the lock, the listener, the monitors and the server
Serve(p) ==
    /\ run[p] = "new" /\ lock = None
    /\ lock' = p
    /\ run' = [run EXCEPT ![p] = "serving"]
    /\ server' = [server EXCEPT ![p] = "serving"]
    /\ idle' = [idle EXCEPT ![p] = "watching"]
    /\ monitor' = [monitor EXCEPT ![p] = "checking"]
    /\ UNCHANGED <<config, autosync, rpcs, cancelled, signalled, delayed, stop, forced,
                   overlap, acked, bounds>>

AlreadyRunning(p) ==
    /\ run[p] = "new" /\ lock # None
    /\ run' = [run EXCEPT ![p] = "leaving"]
    /\ UNCHANGED <<lock, config, autosync, server, rpcs, cancelled, signalled, goroutines,
                   stop, forced, overlap, acked, bounds>>

Signal(p) ==
    /\ run[p] \in {"new", "serving"} /\ ~signalled[p]
    /\ signalled' = [signalled EXCEPT ![p] = TRUE]
    /\ UNCHANGED <<run, lock, config, autosync, server, rpcs, cancelled, goroutines, stop,
                   forced, overlap, acked, bounds>>

\* Run's select: its context is done
RunShutdown(p) ==
    /\ run[p] = "serving" /\ signalled[p]
    /\ run' = [run EXCEPT ![p] = "stopping"]
    /\ stop' = [stop EXCEPT ![p].run = "graceful"]
    /\ UNCHANGED <<lock, config, autosync, server, rpcs, cancelled, signalled, goroutines,
                   forced, overlap, acked, bounds>>

\* Fault variant of ServeReturns: Run goes on waiting for its context
ServeReturnsUnseen(p) ==
    /\ run[p] = "serving" /\ server[p] = "stopped" /\ signalled[p]
    /\ run' = [run EXCEPT ![p] = "leaving"]
    /\ UNCHANGED <<lock, config, autosync, server, rpcs, cancelled, signalled, goroutines,
                   stop, forced, overlap, acked, bounds>>

\* Run's select: Serve has returned, with nil after a GracefulStop; nil is not
\* ErrServerStopped, so Run returns without a shutdown of its own
ServeReturns(p) ==
    /\ run[p] = "serving" /\ server[p] = "stopped"
    /\ run' = [run EXCEPT ![p] = "leaving"]
    /\ UNCHANGED <<lock, config, autosync, server, rpcs, cancelled, signalled, goroutines,
                   stop, forced, overlap, acked, bounds>>

RunReturns(p) ==
    /\ run[p] = "stopping" /\ stop[p].run = "done"
    /\ run' = [run EXCEPT ![p] = "leaving"]
    /\ UNCHANGED <<lock, config, autosync, server, rpcs, cancelled, signalled, goroutines,
                   stop, forced, overlap, acked, bounds>>

\* Run's deferred calls
Release(p) ==
    /\ run[p] = "leaving"
    /\ run' = [run EXCEPT ![p] = "released"]
    /\ lock' = IF lock = p THEN None ELSE lock
    /\ UNCHANGED <<config, autosync, server, rpcs, cancelled, signalled, goroutines, stop,
                   forced, overlap, acked, bounds>>

\* the end of the process: nothing of it is left but the files, and the kernel drops its lock
Gone(p) ==
    /\ run' = [run EXCEPT ![p] = "off"]
    /\ lock' = IF lock = p THEN None ELSE lock
    /\ mem' = [mem EXCEPT ![p] = Defaults]
    /\ away' = [away EXCEPT ![p] = FALSE] /\ lost' = (lost \/ disk' = Torn)
    /\ syncing' = [syncing EXCEPT ![p] = FALSE]
    /\ hung' = [hung EXCEPT ![p] = FALSE] /\ failed' = [failed EXCEPT ![p] = FALSE]
    /\ server' = [server EXCEPT ![p] = "stopped"]
    /\ rpcs' = [rpcs EXCEPT ![p] = {}]
    /\ cancelled' = [cancelled EXCEPT ![p] = FALSE]
    /\ signalled' = [signalled EXCEPT ![p] = FALSE]
    /\ idle' = [idle EXCEPT ![p] = "done"]
    /\ monitor' = [monitor EXCEPT ![p] = "done"]
    /\ delayed' = [delayed EXCEPT ![p] = "done"]
    /\ stop' = [stop EXCEPT ![p] = [i \in Invoker |-> "no"]]
    /\ forced' = [forced EXCEPT ![p] = FALSE]
    /\ UNCHANGED <<overlap, acked, starts, calls>>

Exit(p) == run[p] = "released" /\ UNCHANGED <<disk, faults>> /\ Gone(p)

\* some goroutine of it may be in a save of the daemon's file
MaySave(p) ==
    /\ ~away[p]
    /\ \/ rpcs[p] \intersect {"start", "start some", "stopping", "change", "replace"} # {}
       \/ delayed[p] = "asleep" \/ monitor[p] = "starting"
       \/ \E i \in Invoker : stop[p][i] = "persist"

Crash(p) ==
    /\ Alive(p) /\ Fault
    /\ disk' = disk \/ (MaySave(p) /\ disk' = Torn)
    /\ Gone(p)

\* The other daemon gets the lock, changes the saved configuration, and ends, in a save too.
OtherStarts ==
    /\ lock = None /\ starts < MaxStarts
    /\ starts' = starts + 1 /\ lock' = Other
    /\ overlap' = (overlap \/ \E p \in Process : Alive(p))
    /\ UNCHANGED <<run, config, autosync, server, rpcs, cancelled, signalled, goroutines, stop,
                   forced, acked, calls, faults>>

OtherSaves ==
    /\ lock = Other /\ calls < MaxCalls
    /\ calls' = calls + 1
    /\ disk' = [Stored EXCEPT !.changes = @ + 1] /\ acked' = acked + 1
    /\ UNCHANGED <<run, lock, mem, away, lost, autosync, server, rpcs, cancelled, signalled, goroutines,
                   stop, forced, overlap, starts, faults>>

OtherEnds ==
    /\ lock = Other /\ lock' = None
    /\ \/ UNCHANGED <<disk, lost, faults>>
       \/ Fault /\ disk' = Torn /\ lost' = TRUE
    /\ UNCHANGED <<run, mem, away, autosync, server, rpcs, cancelled, signalled, goroutines, stop,
                   forced, overlap, acked, starts, calls>>

-----------------------------------------------------------------------------
(* shutdown, called by Run and by the goroutine of a Shutdown call.        *)

At(p, i, here, next) ==
    stop[p][i] = here /\ Alive(p) /\ stop' = [stop EXCEPT ![p][i] = next]

\* Fault variant of GracefulStop: Stop, which does not wait for the calls under way
StopAtOnce(p, i) ==
    /\ At(p, i, "graceful", "cancel")
    /\ server' = [server EXCEPT ![p] = "stopped"]
    /\ UNCHANGED <<run, lock, config, autosync, rpcs, cancelled, signalled, goroutines,
                   forced, overlap, acked, bounds>>

\* no new call is let in, and it returns when none is under way
GracefulStop(p, i) ==
    /\ server' = [server EXCEPT ![p] = IF rpcs[p] = {} THEN "stopped" ELSE "draining"]
    /\ IF rpcs[p] = {} THEN At(p, i, "graceful", "cancel")
       ELSE stop[p][i] = "graceful" /\ Alive(p) /\ server[p] # "draining" /\ UNCHANGED stop
    /\ UNCHANGED <<run, lock, config, autosync, rpcs, cancelled, signalled, goroutines,
                   forced, overlap, acked, bounds>>

CancelContext(p, i) ==
    /\ At(p, i, "cancel", "wait")
    /\ cancelled' = [cancelled EXCEPT ![p] = TRUE]
    /\ UNCHANGED <<run, lock, config, autosync, server, rpcs, signalled, goroutines, forced,
                   overlap, acked, bounds>>

\* Fault variant of WaitGroup: nobody waits for the monitors
WaitForNobody(p, i) ==
    /\ At(p, i, "wait", "check")
    /\ UNCHANGED <<run, lock, config, autosync, server, rpcs, cancelled, signalled,
                   goroutines, forced, overlap, acked, bounds>>

WaitGroup(p, i) ==
    /\ At(p, i, "wait", "check")
    /\ idle[p] = "done" /\ monitor[p] = "done"
    /\ UNCHANGED <<run, lock, config, autosync, server, rpcs, cancelled, signalled,
                   goroutines, forced, overlap, acked, bounds>>

\* ten seconds are over
WaitTimeout(p, i) ==
    /\ At(p, i, "wait", "check")
    /\ idle[p] # "done" \/ monitor[p] # "done"
    /\ forced' = [forced EXCEPT ![p] = TRUE]
    /\ server' = [server EXCEPT ![p] = "stopped"]
    /\ UNCHANGED <<run, lock, config, autosync, rpcs, cancelled, signalled, goroutines,
                   overlap, acked, bounds>>

\* Stop's two effects, in this order
StopSync(p, i) ==
    /\ At(p, i, "check", IF syncing[p] THEN "persist" ELSE "done")
    /\ syncing' = [syncing EXCEPT ![p] = FALSE]
    /\ UNCHANGED <<run, lock, config, hung, failed, server, rpcs, cancelled, signalled, goroutines,
                   forced, overlap, acked, bounds>>

PersistStopped(p, i) ==
    /\ At(p, i, "persist", "done") /\ ~StopWaits(p)
    /\ Save(p, [mem[p] EXCEPT !.enabled = FALSE])
    /\ UNCHANGED <<run, lock, autosync, server, rpcs, cancelled, signalled, goroutines,
                   forced, overlap, acked, starts, calls>>

-----------------------------------------------------------------------------
(* Calls.                                                                  *)

Arrive(p, k) ==
    /\ server[p] = "serving" /\ Alive(p) /\ k \notin rpcs[p] /\ calls < MaxCalls
    /\ calls' = calls + 1
    /\ rpcs' = [rpcs EXCEPT ![p] = @ \union {k}]
    /\ UNCHANGED <<run, lock, config, autosync, server, cancelled, signalled, goroutines,
                   stop, forced, overlap, acked, starts, faults>>

Ends(p, k) == k \in rpcs[p] /\ rpcs' = [rpcs EXCEPT ![p] = @ \ {k}]

StartCall(p) ==
    /\ \E listed \in BOOLEAN : /\ Ends(p, IF listed THEN "start some" ELSE "start")
                              /\ StartAutoSync(p, listed)
    /\ UNCHANGED <<stop, acked>>

\* two calls that wait for the loops are followed as one
StopCall(p) ==
    /\ "stop" \in rpcs[p]
    /\ rpcs' = [rpcs EXCEPT ![p] = (@ \ {"stop"}) \union (IF syncing[p] THEN {"stopping"} ELSE {})]
    /\ syncing' = [syncing EXCEPT ![p] = FALSE]
    /\ UNCHANGED <<config, hung, failed, stop, acked, faults>>

StopEnds(p) ==
    /\ Ends(p, "stopping") /\ ~StopWaits(p)
    /\ Save(p, [mem[p] EXCEPT !.enabled = FALSE])
    /\ UNCHANGED <<autosync, stop, acked>>

\* a change is saved before it is answered
ChangeCall(p) ==
    /\ Ends(p, "change")
    /\ LET c == [mem[p] EXCEPT !.changes = @ + 1] IN
       \/ Written(p, c) /\ acked' = (IF away[p] THEN acked ELSE acked + 1) /\ UNCHANGED faults
       \/ NotWritten(p, c) /\ UNCHANGED acked
    /\ UNCHANGED <<autosync, stop>>

\* SetConfig, whose message has no settings, and RestoreBackup
ReplaceCall(p) ==
    /\ Ends(p, "replace")
    /\ \E c \in [enabled : BOOLEAN, listed : BOOLEAN, changes : 0..mem[p].changes] :
         /\ Save(p, c)
         /\ acked' = IF away[p] \/ acked <= c.changes THEN acked ELSE c.changes
    /\ UNCHANGED <<autosync, stop>>

\* what is stored, with those servers of the memory that it lacks
Merged(p) == [disk EXCEPT !.changes = IF @ < mem[p].changes THEN mem[p].changes ELSE @]
LoadOwn(p) ==
    /\ away' = [away EXCEPT ![p] = FALSE]
    /\ \/ disk = Torn /\ UNCHANGED mem
       \/ disk # Torn /\ \E c \in {disk, Merged(p)} : mem' = [mem EXCEPT ![p] = c]
    /\ UNCHANGED <<disk, lost>>

\* a file with no change of these clients, one that is broken, and one that is not there
LoadOther(p) ==
    /\ away' = [away EXCEPT ![p] = TRUE]
    /\ \/ \E on, listed \in BOOLEAN :
            mem' = [mem EXCEPT ![p] = [enabled |-> on, listed |-> listed, changes |-> 0]]
       \/ UNCHANGED mem
       \/ disk # Torn /\ mem' = [mem EXCEPT ![p] = Merged(p)]
    /\ lost' = (lost \/ disk = Torn)
    /\ UNCHANGED disk

LoadCall(p) ==
    /\ Ends(p, "load")
    /\ LoadOwn(p) \/ LoadOther(p)
    /\ UNCHANGED <<autosync, stop, acked, faults>>

\* it only starts its goroutine
ShutdownCall(p) ==
    /\ Ends(p, "shutdown")
    /\ stop' = [stop EXCEPT ![p].rpc = IF @ = "no" THEN "graceful" ELSE @]
    /\ UNCHANGED <<config, autosync, acked, faults>>

Handle(p) ==
    /\ \/ StartCall(p) \/ StopCall(p) \/ StopEnds(p) \/ ChangeCall(p) \/ ReplaceCall(p)
       \/ LoadCall(p) \/ ShutdownCall(p)
    /\ UNCHANGED <<run, lock, server, cancelled, signalled, goroutines, forced, overlap,
                   starts, calls>>

-----------------------------------------------------------------------------
(* The goroutines beside Run.                                              *)

DelayedStart(p) ==
    /\ delayed[p] = "asleep" /\ delayed' = [delayed EXCEPT ![p] = "done"]
    /\ StartAutoSync(p, mem[p].listed)
    /\ UNCHANGED <<run, lock, server, rpcs, cancelled, signalled, idle, monitor, stop,
                   forced, overlap, acked, starts, calls>>

\* autoSyncMonitor looks at the status, starts auto-sync later, and waits for d.ctx
MonitorStep(p) ==
    /\ \/ /\ monitor[p] = "checking"
          /\ monitor' = [monitor EXCEPT ![p] =
                           IF mem[p].enabled /\ ~syncing[p] THEN "starting" ELSE "waiting"]
          /\ UNCHANGED <<config, autosync, faults>>
       \/ /\ monitor[p] = "starting"
          /\ monitor' = [monitor EXCEPT ![p] = "waiting"]
          /\ StartAutoSync(p, FALSE)
       \/ /\ monitor[p] = "waiting" /\ cancelled[p]
          /\ monitor' = [monitor EXCEPT ![p] = "done"]
          /\ UNCHANGED <<config, autosync, faults>>
    /\ UNCHANGED <<run, lock, server, rpcs, cancelled, signalled, idle, delayed, stop,
                   forced, overlap, acked, starts, calls>>

\* a tick of idleMonitor that finds neither a call nor auto-sync, long after the last call
IdleTick(p) ==
    /\ IdleTimeout /\ idle[p] = "watching" /\ rpcs[p] = {} /\ ~syncing[p]
    /\ idle' = [idle EXCEPT ![p] = "expired"]
    /\ UNCHANGED <<run, lock, config, autosync, server, rpcs, cancelled, signalled, monitor,
                   delayed, stop, forced, overlap, acked, bounds>>

IdleStep(p) ==
    /\ \/ idle[p] = "expired" /\ cancelled' = [cancelled EXCEPT ![p] = TRUE]
       \/ idle[p] = "watching" /\ cancelled[p] /\ UNCHANGED cancelled
    /\ idle' = [idle EXCEPT ![p] = "done"]
    /\ UNCHANGED <<run, lock, config, autosync, server, rpcs, signalled, monitor, delayed,
                   stop, forced, overlap, acked, bounds>>

-----------------------------------------------------------------------------
Step(p) ==
    \/ Serve(p) \/ AlreadyRunning(p) \/ RunShutdown(p) \/ ServeReturns(p) \/ RunReturns(p)
    \/ Release(p) \/ Exit(p)

Stopping(p, i) ==
    \/ GracefulStop(p, i) \/ CancelContext(p, i) \/ WaitGroup(p, i) \/ StopSync(p, i)
    \/ PersistStopped(p, i)

Next ==
    \/ OtherStarts \/ OtherSaves \/ OtherEnds
    \/ \E p \in Process :
      \/ New(p) \/ Signal(p) \/ Crash(p) \/ Step(p)
      \/ \E i \in Invoker : Stopping(p, i) \/ WaitTimeout(p, i)
      \/ Handle(p) \/ \E k \in Arrivals : Arrive(p, k)
      \/ DelayedStart(p) \/ MonitorStep(p) \/ IdleTick(p) \/ IdleStep(p)

\* every goroutine is scheduled; nobody is made to start, signal or call a daemon
Fairness ==
    \A p \in Process :
      /\ WF_vars(Step(p))
      /\ \A i \in Invoker : WF_vars(Stopping(p, i))
      /\ WF_vars(Handle(p))
      /\ WF_vars(DelayedStart(p)) /\ WF_vars(MonitorStep(p)) /\ WF_vars(IdleStep(p))

Spec     == Init /\ [][Next]_vars
FairSpec == Spec /\ Fairness

-----------------------------------------------------------------------------
(* Properties.                                                             *)

TypeOK ==
    /\ run \in [Process -> {"off", "new", "serving", "stopping", "leaving", "released"}]
    /\ lock \in Process \union {Other, None}
    /\ disk \in Config \union {Torn} /\ mem \in [Process -> Config]
    /\ away \in [Process -> BOOLEAN] /\ lost \in BOOLEAN
    /\ syncing \in [Process -> BOOLEAN] /\ hung \in [Process -> BOOLEAN]
    /\ failed \in [Process -> BOOLEAN]
    /\ server \in [Process -> {"serving", "draining", "stopped"}]
    /\ rpcs \in [Process -> SUBSET Rpc]
    /\ cancelled \in [Process -> BOOLEAN] /\ signalled \in [Process -> BOOLEAN]
    /\ idle \in [Process -> {"watching", "expired", "done"}]
    /\ monitor \in [Process -> {"checking", "starting", "waiting", "done"}]
    /\ delayed \in [Process -> {"asleep", "done"}]
    /\ stop \in [Process -> [Invoker -> {"no", "graceful", "cancel", "wait", "check",
                                         "persist", "done"}]]
    /\ forced \in [Process -> BOOLEAN] /\ overlap \in BOOLEAN /\ acked \in Nat
    /\ starts \in Nat /\ calls \in Nat /\ faults \in Nat

\* A daemon that ends without a crash has answered every call that it let in, by
\* whichever of its two ways out it goes (daemon.go:162).
NoCallCutShort ==
    [][\A p \in Process :
         (Alive(p) /\ run'[p] = "off" /\ faults' = faults) => rpcs[p] = {}]_vars

\* Once a shutdown that waited for the monitors has looked at auto-sync, nothing starts it
\* again in the process, except the engine's own delayed start, which nobody waits for
\* (daemon.go:195, engine_impl.go:116).
ShutdownStopsSync ==
    [][\A p \in Process, i \in Invoker :
         stop[p][i] \in {"persist", "done"} /\ ~forced[p] /\ ~syncing[p] /\ syncing'[p]
           => delayed[p] = "asleep" /\ delayed'[p] = "done"]_vars

\* A change that a client was told of, and has not replaced since, is in the daemon's file,
\* or, while that is torn, in the memory of the process that will write it anew, whatever
\* crashed since.  It is lost when that process ends, or reads another file, before it has
\* saved again: the file is written in place (config_manager.go:87).  And it may be when a
\* process was started while another one was there, because New reads the configuration
\* before Run asks for the lock, and may save it later (daemon.go:66).
AckedSurvives ==
    \/ overlap \/ lost
    \/ disk # Torn /\ disk.changes >= acked
    \/ disk = Torn /\ \E p \in Process : Alive(p) /\ mem[p].changes >= acked

\* A signal and a Shutdown call both end the daemon, whatever else is called, unless a Stop
\* of auto-sync waits for the loop of a later Start, again and again or for ever:
\* GracefulStop waits for the handler, without a timeout (daemon.go:186,
\* autosync_manager.go:169).
StopRequestsEnd ==
    \A p \in Process : (signalled[p] \/ stop[p].rpc # "no") ~> (~Alive(p) \/ StopWaits(p))

\* A daemon whose configuration says that auto-sync is enabled when its monitor starts runs
\* it sooner or later, also after a crash, unless a start fails (engine_impl.go:106,
\* daemon.go:359).
EnabledIsResumed ==
    \A p \in Process :
      (monitor[p] = "checking" /\ mem[p].enabled)
        ~> (syncing[p] \/ failed[p] \/ ~mem[p].enabled \/ run[p] # "serving")

\* Auto-sync that is started again after a restart is for the destinations that it was
\* for before, as the engine's own auto-start has it (engine_impl.go:112).
ListIsRestored ==
    [][\A p \in Process : MonitorStep(p) \/ DelayedStart(p) => mem'[p].listed = mem[p].listed]_vars

\* What idleMonitor's comment says: an idle timeout shuts the daemon down.
IdleEnds == \A p \in Process : idle[p] = "expired" ~> ~Alive(p)
=============================================================================

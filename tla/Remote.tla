------------------------------- MODULE Remote -------------------------------
(***************************************************************************)
(* Programs that manage servers through the daemon: the client with its    *)
(* connection, timeouts and retries (daemon/client/client.go), the gRPC    *)
(* layer between (daemon/proto/daemon_grpc.pb.go) and the service's        *)
(* handlers over the engine (daemon/service.go, service_fixes.go).         *)
(*                                                                         *)
(* Callers are goroutines that share one Client.  A call passes            *)
(* ensureConnected and then makes up to MaxRetries + 1 attempts; every     *)
(* attempt that reaches the daemon is a handler of its own there, which    *)
(* goes on when its caller has given the attempt up.  A handler's          *)
(* operation and the GetServer that fetches its answer are two sections    *)
(* under engine.mu.                                                        *)
(*                                                                         *)
(* The engine saves where its path says (daemon.go gives it its own file,  *)
(* LoadConfig any other), in place: a save that fails may leave a broken   *)
(* file, and so does a process that dies in one.  Nobody else looks at the *)
(* file in between, because the save holds engine.mu.  Without a path it   *)
(* saves to its storage, which is the own file too, written whole.         *)
(***************************************************************************)
EXTENDS Naturals, FiniteSets

CONSTANTS Callers, Names,
          Configs,          \* what a server may be configured to
          NoServer,         \* "no such server"
          NoFile, Broken,   \* a file that is not there, or is not JSON
          Ops,              \* the methods that are called
          MaxRetries,       \* ClientOptions.MaxRetries
          MaxCalls,         \* bound: calls of all callers
          MaxFaults         \* bound: timeouts, losses, cancelled contexts, closed
                            \* connections, failing saves and crashes together

ASSUME RemoteAssumption ==
    /\ MaxRetries \in Nat /\ MaxCalls \in Nat /\ MaxFaults \in Nat
    /\ NoServer \notin [cfg : Configs, on : BOOLEAN]
    /\ {NoFile, Broken} \intersect
         [Names -> [cfg : Configs, on : BOOLEAN] \union {NoServer}] = {}

Servers  == [cfg : Configs, on : BOOLEAN]
Registry == [Names -> Servers \union {NoServer}]
Nothing  == [n \in Names |-> NoServer]

\* the daemon's config.json, and a file that somebody loads
Files    == {"own", "other"}
Paths    == Files \union {""}
Where(p) == IF p = "other" THEN "other" ELSE "own"

-----------------------------------------------------------------------------
(* The methods of the client, as the requests they send.                   *)
Carrying == {"add", "update"}                       \* a name and a config
Naming   == {"remove", "enable", "disable", "get"}  \* a name
Reading  == {"get", "list", "getAutoSyncStatus", "getConfig", "listBackups", "getStatus"}
Answered == {"add", "update", "enable", "disable"}  \* answered with the server

Bare(ops) == [op : ops, name : Names, cfg : {NoServer}]

\* AddServer, UpdateServer
CarryingRequests == [op : Carrying, name : Names, cfg : Configs]

\* RemoveServer, GetServer, ListServers, EnableServer, DisableServer
NamingRequests == Bare(Naming \union {"list"})

\* SetConfig (a message with one server, whose Enabled is unset), LoadConfig, SaveConfig
ConfigRequests == [op : {"set"}, name : Names, cfg : Configs] \union Bare({"load", "save"})

\* GetAutoSyncStatus, GetConfig
StatusRequests == Bare({"getAutoSyncStatus", "getConfig"})

\* the destinations' methods, which the service does not override
UnservedRequests == Bare({"registerDestination", "removeDestination", "listDestinations"})

\* SyncTo, SyncToMultiple, and PreviewSync, which the service does not override
SyncRequests == Bare({"syncTo", "syncToMultiple", "previewSync"})

\* StartAutoSync, StopAutoSync
AutoSyncRequests == Bare({"startAutoSync", "stopAutoSync"})

\* CreateBackup, ListBackups, RestoreBackup
BackupRequests == Bare({"backup", "listBackups", "restore"})

\* GetStatus, Shutdown
LifecycleRequests == Bare({"getStatus", "shutdown"})

\* Subscribe, which the service does not override either
EventRequests == Bare({"subscribe"})

Unserved == {"registerDestination", "removeDestination", "listDestinations", "previewSync"}

\* the methods that do not go through withRetry
Unretried == {"shutdown", "subscribe"}

Requests ==
    {r \in CarryingRequests \union NamingRequests \union ConfigRequests
             \union StatusRequests \union UnservedRequests \union SyncRequests
             \union AutoSyncRequests \union BackupRequests \union LifecycleRequests
             \union EventRequests : r.op \in Ops}

\* somebody calls something
ASSUME SomeRequest == Requests # {}

Codes == {"ok", "InvalidArgument", "Internal", "NotFound", "Unimplemented", "Unavailable",
          "DeadlineExceeded", "ResourceExhausted", "Canceled", "not connected"}

isRetryable(code) == code \in {"Unavailable", "DeadlineExceeded", "ResourceExhausted"}

VARIABLES
    open,      \* Client.conn and Client.client are set
    call,      \* the latest call of each caller
    handlers,  \* requests at the daemon
    up,        \* the daemon serves; "stopping" from a Shutdown until it is down
    mem,       \* the engine's servers
    path,      \* engine.configPath
    disk,      \* the servers that each file holds
    kept,      \* the servers of the backups
    panicked,  \* a call went through the nil stub
    applied,   \* observer: how often the latest call of each caller took effect
    clean,     \* observer: no handler of an older call was left when it began
    writers,   \* observer: who has asked for a change of each name
    unsaved,   \* observer: a save has failed
    behind,    \* observer: the file at the path need not hold what the memory holds
    lost,      \* observer: a process ended and the next one may not find what it had
    made, faults

clientVars   == <<open, panicked>>
fileVars     == <<path, disk, behind, lost>>
engineVars   == <<mem, kept, unsaved, fileVars>>
observerVars == <<applied, clean, writers, made>>
vars == <<open, call, handlers, up, mem, fileVars, kept, panicked, applied,
          clean, writers, unsaved, made, faults>>

CallStates == {"attempt", "wait", "backoff", "done"}
Calls == [pc : CallStates, seq : 0..MaxCalls, try : 0..MaxRetries,
          req : Requests, code : Codes, gone : BOOLEAN]
Handlers == [caller : Callers, seq : 0..MaxCalls, try : 0..MaxRetries, req : Requests,
             pc : {"queued", "reread", "answer"}, code : Codes]

Init ==
    /\ open = TRUE /\ up = "up" /\ panicked = FALSE
    /\ call = [c \in Callers |-> [pc |-> "done", seq |-> 0, try |-> 0,
                                  req |-> CHOOSE r \in Requests : TRUE,
                                  code |-> "not connected", gone |-> FALSE]]
    /\ handlers = {}
    /\ mem = Nothing /\ kept = {}
    /\ path = "own" /\ disk = [f \in Files |-> IF f = "own" THEN Nothing ELSE NoFile]
    /\ behind = FALSE /\ lost = FALSE
    /\ applied = [c \in Callers |-> 0] /\ clean = [c \in Callers |-> TRUE]
    /\ writers = [n \in Names |-> {}]
    /\ unsaved = FALSE /\ made = 0 /\ faults = 0

-----------------------------------------------------------------------------
(* The client.                                                             *)

Fault == faults < MaxFaults /\ faults' = faults + 1

\* withRetry after a failed attempt: wait and try again, or return the error
Retrying(k, code) == isRetryable(code) /\ k.try < MaxRetries /\ k.req.op \notin Unretried
Failing(k, code) ==
    IF Retrying(k, code) THEN [k EXCEPT !.pc = "backoff"]
    ELSE [k EXCEPT !.pc = "done", !.code = code]
WithError(c, code) == [call EXCEPT ![c] = Failing(call[c], code)]

\* what becomes of the calls when the connection ends under them
Cut(code) ==
    [c \in Callers |-> IF call[c].pc = "wait" THEN Failing(call[c], code) ELSE call[c]]

Close ==
    /\ open /\ ~panicked /\ Fault
    /\ open' = FALSE
    /\ call' = Cut("Canceled")
    /\ UNCHANGED <<handlers, up, panicked, engineVars, observerVars>>

\* dialling does not wait for the daemon
Connect ==
    /\ ~open /\ ~panicked
    /\ open' = TRUE
    /\ UNCHANGED <<call, handlers, up, panicked, engineVars, observerVars, faults>>

\* the names whose servers a request may change
Touched(r) ==
    CASE r.op \in {"set", "load", "save", "restore"} -> Names
      [] r.op \in (Carrying \union Naming) \ {"get"} -> {r.name}
      [] OTHER -> {}

\* a method begins with ensureConnected
Call(c, r) ==
    /\ call[c].pc = "done" /\ made < MaxCalls /\ ~panicked
    /\ made' = made + 1
    /\ call' = [call EXCEPT ![c] =
                  [pc |-> IF open THEN "attempt" ELSE "done", seq |-> call[c].seq + 1,
                   try |-> 0, req |-> r, code |-> "not connected", gone |-> FALSE]]
    /\ applied' = [applied EXCEPT ![c] = 0]
    /\ clean' = [clean EXCEPT ![c] = \A h \in handlers : h.caller # c]
    /\ writers' = [n \in Names |-> IF n \in Touched(r) THEN writers[n] \union {c}
                                   ELSE writers[n]]
    /\ UNCHANGED <<handlers, up, clientVars, engineVars, faults>>

\* c.client is read without the lock: Close may have set it to nil
NilStub(c) ==
    /\ call[c].pc = "attempt" /\ ~panicked /\ ~open
    /\ panicked' = TRUE
    /\ UNCHANGED <<open, call, handlers, up, engineVars, observerVars, faults>>

\* the stub does not send for a context that is done, nor to a daemon that is not there;
\* a daemon that stops serves until GracefulStop has told its clients
NotSent(c) ==
    /\ call[c].pc = "attempt" /\ ~panicked /\ open
    /\ \/ call[c].gone /\ call' = WithError(c, "Canceled")
       \/ ~call[c].gone /\ up # "up" /\ call' = WithError(c, "Unavailable")
    /\ UNCHANGED <<handlers, up, clientVars, engineVars, observerVars, faults>>

Send(c) ==
    /\ call[c].pc = "attempt" /\ ~panicked /\ open /\ ~call[c].gone /\ up # "down"
    /\ call[c].req.op # "subscribe"
    /\ call' = [call EXCEPT ![c].pc = "wait"]
    /\ handlers' = handlers \union
         {[caller |-> c, seq |-> call[c].seq, try |-> call[c].try, req |-> call[c].req,
           pc |-> "queued", code |-> "ok"]}
    /\ UNCHANGED <<up, clientVars, engineVars, observerVars, faults>>

\* opening the stream succeeds; that nobody serves it is an error of its first Recv,
\* which ends the goroutine that Subscribe started
Subscribe(c) ==
    /\ call[c].pc = "attempt" /\ ~panicked /\ open /\ ~call[c].gone /\ up # "down"
    /\ call[c].req.op = "subscribe"
    /\ call' = [call EXCEPT ![c].pc = "done", ![c].code = "ok"]
    /\ UNCHANGED <<handlers, up, clientVars, engineVars, observerVars, faults>>

\* the handler that works for the attempt that c is waiting for
Own(c) == {h \in handlers : h.caller = c /\ h.seq = call[c].seq /\ h.try = call[c].try}

\* Fault variant of Abandon: no timeout, so that only a broken connection ends an attempt
AbandonBroken(c) ==
    /\ call[c].pc = "wait" /\ ~panicked /\ faults < MaxFaults
    /\ faults' = faults + 1
    /\ call' = WithError(c, "Unavailable")
    /\ UNCHANGED <<handlers, up, clientVars, engineVars, observerVars>>

\* context.WithTimeout(ctx, RequestTimeout), or the connection breaks; the handler,
\* if there is one, goes on
Abandon(c) ==
    /\ call[c].pc = "wait" /\ ~panicked
    /\ \E code \in {"DeadlineExceeded", "Unavailable"} : call' = WithError(c, code)
    /\ Own(c) # {} => faults < MaxFaults
    /\ faults' = IF Own(c) = {} THEN faults ELSE faults + 1
    /\ UNCHANGED <<handlers, up, clientVars, engineVars, observerVars>>

\* the caller's context is cancelled
Cancel(c) ==
    /\ call[c].pc # "done" /\ ~call[c].gone /\ ~panicked /\ Fault
    /\ call' = IF call[c].pc = "wait"
               THEN [call EXCEPT ![c] = [Failing(@, "Canceled") EXCEPT !.gone = TRUE]]
               ELSE [call EXCEPT ![c].gone = TRUE]
    /\ UNCHANGED <<handlers, up, clientVars, engineVars, observerVars>>

\* the select of withRetry, which takes either case when both are ready
BackoffOver(c) ==
    /\ call[c].pc = "backoff" /\ ~panicked
    /\ \/ call' = [call EXCEPT ![c].pc = "attempt", ![c].try = @ + 1]
       \/ call[c].gone /\ call' = [call EXCEPT ![c].pc = "done", ![c].code = "Canceled"]
    /\ UNCHANGED <<handlers, up, clientVars, engineVars, observerVars, faults>>

-----------------------------------------------------------------------------
(* The daemon.                                                             *)

Missing(r) == r.op \in {"update", "remove", "enable", "disable", "get"} /\ mem[r.name] = NoServer
Refused(r) == Missing(r) \/ (r.op = "add" /\ mem[r.name] # NoServer)

\* Fault variant of RefusalCode: the handler ignores the engine's error
RefusalIgnored(r) == IF r.op = "get" THEN "NotFound" ELSE "ok"

RefusalCode(r) ==
    CASE r.op \in {"enable", "disable"} -> "Internal"
      [] r.op = "get" -> "NotFound"
      [] OTHER -> "InvalidArgument"

\* SetConfig's handler ignores the engine's error
SaveErrorCode(r) ==
    CASE r.op \in {"enable", "disable", "save"} -> "Internal"
      [] r.op = "set" -> "ok"
      [] OTHER -> "InvalidArgument"

GoneCode(r) == IF r.op \in {"enable", "disable"} THEN "NotFound" ELSE "Internal"

\* what the engine's operation leaves in memory
Changed(r) ==
    CASE r.op = "add" -> [mem EXCEPT ![r.name] = [cfg |-> r.cfg, on |-> TRUE]]
      [] r.op = "update" -> [mem EXCEPT ![r.name].cfg = r.cfg]
      [] r.op = "remove" -> [mem EXCEPT ![r.name] = NoServer]
      [] r.op \in {"enable", "disable"} -> [mem EXCEPT ![r.name].on = (r.op = "enable")]
      [] r.op = "set" -> [Nothing EXCEPT ![r.name] = [cfg |-> r.cfg, on |-> FALSE]]
      [] r.op = "save" -> mem

Saving == Carrying \union (Naming \ {"get"}) \union {"set", "save"}

Becomes(h, pc, code) == handlers' = (handlers \ {h}) \union {[h EXCEPT !.pc = pc, !.code = code]}

\* the effect counts for the call that is still the caller's latest one
Count(h) ==
    applied' = [applied EXCEPT ![h.caller] = IF h.seq = call[h.caller].seq THEN @ + 1 ELSE @]

Refuse(h) ==
    /\ h.pc = "queued" /\ Refused(h.req)
    /\ Becomes(h, "answer", RefusalCode(h.req))
    /\ UNCHANGED <<call, up, clientVars, engineVars, observerVars, faults>>

\* Fault variant of Serve: the operation answers before anything is saved
ServeUnsaved(h) ==
    /\ h.pc = "queued" /\ ~Refused(h.req) /\ h.req.op \in Saving
    /\ mem' = Changed(h.req)
    /\ Becomes(h, IF h.req.op \in Answered THEN "reread" ELSE "answer", "ok")
    /\ Count(h)
    /\ UNCHANGED <<call, up, clientVars, fileVars, kept, unsaved, clean, writers, made, faults>>

\* the memory is saved, or is not: the file may then be broken
Save ==
    /\ disk' = [disk EXCEPT ![Where(path)] = mem']
    /\ behind' = FALSE
    /\ UNCHANGED <<path, lost, unsaved, faults>>

CannotSave ==
    /\ Fault /\ unsaved' = TRUE
    /\ \/ UNCHANGED disk
       \/ path # "" /\ disk' = [disk EXCEPT ![path] = Broken]
    /\ behind' = TRUE
    /\ UNCHANGED <<path, lost>>

Serve(h) ==
    /\ h.pc = "queued" /\ ~Refused(h.req) /\ h.req.op \in Saving
    /\ mem' = Changed(h.req)
    /\ Save
    /\ Becomes(h, IF h.req.op \in Answered THEN "reread" ELSE "answer", "ok")
    /\ Count(h)
    /\ UNCHANGED <<call, up, clientVars, kept, clean, writers, made>>

\* the save fails: the memory keeps the change
SaveFails(h) ==
    /\ h.pc = "queued" /\ ~Refused(h.req) /\ h.req.op \in Saving
    /\ mem' = Changed(h.req)
    /\ CannotSave
    /\ Becomes(h, "answer", SaveErrorCode(h.req))
    /\ Count(h)
    /\ UNCHANGED <<call, up, clientVars, kept, clean, writers, made>>

\* GetServer, in a section of its own
Reread(h) ==
    /\ h.pc = "reread"
    /\ Becomes(h, "answer", IF mem[h.req.name] = NoServer THEN GoneCode(h.req) ELSE "ok")
    /\ UNCHANGED <<call, up, clientVars, engineVars, observerVars, faults>>

\* what changes none of the servers: CreateBackup, and the syncs and auto-sync that
\* other modules are about
Elsewhere(h) ==
    /\ h.pc = "queued"
    /\ h.req.op \in {"backup", "syncTo", "syncToMultiple", "startAutoSync", "stopAutoSync"}
    /\ \/ /\ Becomes(h, "answer", "ok") /\ Count(h)
          /\ kept' = IF h.req.op = "backup" THEN kept \union {mem} ELSE kept
       \/ Becomes(h, "answer", "Internal") /\ UNCHANGED <<applied, kept>>
    /\ UNCHANGED <<call, up, clientVars, mem, unsaved, fileVars, clean, writers, made, faults>>

\* LoadConfig takes the path first, and every later save goes there
Load(h, p, src) ==
    /\ h.pc = "queued" /\ h.req.op = "load"
    /\ path' = p
    /\ \/ /\ disk[src] \in Registry
          /\ Becomes(h, "answer", "ok") /\ Count(h)
       \/ /\ disk[src] = Broken
          /\ Becomes(h, "answer", "Internal") /\ UNCHANGED <<applied, mem>>
          /\ behind' = TRUE
    /\ UNCHANGED <<call, up, clientVars, disk, lost, kept, unsaved, clean, writers, made, faults>>

\* the file takes the memory's place
LoadFile(h) ==
    \E p \in Files :
      /\ disk[p] # NoFile
      /\ Load(h, p, p)
      /\ disk[p] \in Registry => mem' = disk[p] /\ behind' = FALSE

\* what the storage holds, where there is no file, is put into the memory
LoadStorage(h) ==
    \E p \in Paths :
      /\ p # "" => disk[p] = NoFile
      /\ Load(h, p, "own")
      /\ disk["own"] \in Registry =>
           /\ mem' = [n \in Names |-> IF disk["own"][n] = NoServer THEN mem[n]
                                     ELSE disk["own"][n]]
           /\ behind' = TRUE

\* RestoreBackup, which first tries to keep a backup of what it replaces
Restore(h) ==
    /\ h.pc = "queued" /\ h.req.op = "restore"
    /\ \E b \in kept : mem' = b /\ kept' \in {kept, kept \union {mem}}
    /\ \/ Save /\ Becomes(h, "answer", "ok")
       \/ CannotSave /\ Becomes(h, "answer", "Internal")
    /\ Count(h)
    /\ UNCHANGED <<call, up, clientVars, clean, writers, made>>

NoSuchBackup(h) ==
    /\ h.pc = "queued" /\ h.req.op = "restore"
    /\ Becomes(h, "answer", "Internal")
    /\ UNCHANGED <<call, up, clientVars, engineVars, observerVars, faults>>

\* the handler only starts the goroutine that will shut the daemon down
Shutdown(h) ==
    /\ h.pc = "queued" /\ h.req.op = "shutdown"
    /\ up' = "stopping"
    /\ Becomes(h, "answer", "ok")
    /\ Count(h)
    /\ UNCHANGED <<call, clientVars, engineVars, clean, writers, made, faults>>

\* the methods that read, and UnimplementedAgentMasterDaemonServer's methods
Inert(h) ==
    /\ h.pc = "queued" /\ ~Refused(h.req) /\ h.req.op \in Reading \union Unserved
    /\ Becomes(h, "answer", IF h.req.op \in Reading THEN "ok" ELSE "Unimplemented")
    /\ UNCHANGED <<call, up, clientVars, engineVars, observerVars, faults>>

\* the answer reaches the caller, if it still waits for this attempt
Answer(h) ==
    /\ h.pc = "answer"
    /\ handlers' = handlers \ {h}
    /\ LET c == h.caller IN
       call' = IF call[c].pc # "wait" \/ h \notin Own(c) THEN call
               ELSE IF h.code = "ok" THEN [call EXCEPT ![c].pc = "done", ![c].code = "ok"]
               ELSE WithError(c, h.code)
    /\ UNCHANGED <<up, clientVars, engineVars, observerVars, faults>>

\* the request, or the answer, is lost on the way
Lose(h) ==
    /\ h.pc \in {"queued", "answer"} /\ Fault
    /\ handlers' = handlers \ {h}
    /\ UNCHANGED <<call, up, clientVars, engineVars, observerVars>>

\* the process dies; who waited sees the connection go, and the next one will read its
\* own file
Die ==
    /\ handlers' = {} /\ up' = "down"
    /\ call' = Cut("Unavailable")
    /\ UNCHANGED <<mem, path, kept, unsaved, clientVars, observerVars>>

Crash ==
    /\ up # "down" /\ Fault /\ Die
    /\ lost' = (lost \/ behind \/ path = "other") /\ UNCHANGED <<disk, behind>>

\* it dies in a save
CrashSaving(h) ==
    /\ up # "down" /\ Fault /\ Die
    /\ h.pc = "queued" /\ path # ""
    /\ \/ ~Refused(h.req) /\ h.req.op \in Saving
       \/ h.req.op = "restore" /\ kept # {}
    /\ disk' = [disk EXCEPT ![path] = Broken]
    /\ lost' = TRUE /\ behind' = TRUE

\* GracefulStop waits for the handlers
Stopped ==
    /\ up = "stopping" /\ handlers = {} /\ UNCHANGED faults /\ Die
    /\ lost' = (lost \/ behind \/ path = "other") /\ UNCHANGED <<disk, behind>>

\* New goes on without servers when it cannot read its file
Start ==
    /\ up = "down"
    /\ up' = "up" /\ path' = "own"
    /\ mem' = IF disk["own"] \in Registry THEN disk["own"] ELSE Nothing
    /\ behind' = (disk["own"] \notin Registry)
    /\ UNCHANGED <<call, handlers, clientVars, disk, lost, kept, unsaved, observerVars, faults>>

-----------------------------------------------------------------------------
ClientStep(c) ==
    NilStub(c) \/ NotSent(c) \/ Subscribe(c) \/ Send(c) \/ Abandon(c) \/ BackoffOver(c)

HandlerStep(h) ==
    \/ Refuse(h) \/ Serve(h) \/ SaveFails(h) \/ Reread(h) \/ Elsewhere(h)
    \/ LoadFile(h) \/ LoadStorage(h) \/ Restore(h) \/ NoSuchBackup(h) \/ Inert(h) \/ Shutdown(h) \/ Answer(h)

Next ==
    \/ Close \/ Connect \/ Crash \/ Stopped \/ Start
    \/ \E c \in Callers : \/ ClientStep(c) \/ Cancel(c)
                          \/ \E r \in Requests : Call(c, r)
    \/ \E h \in handlers : HandlerStep(h) \/ Lose(h) \/ CrashSaving(h)

\* goroutines are scheduled and timers fire; nobody is made to call or to connect,
\* nothing has to break, and a daemon that is down need not come back
Fairness ==
    \A c \in Callers :
      /\ WF_vars(ClientStep(c))
      /\ \A t \in 0..MaxRetries :
           WF_vars(\E h \in handlers : h.caller = c /\ h.try = t /\ HandlerStep(h))

Spec     == Init /\ [][Next]_vars
FairSpec == Spec /\ Fairness

-----------------------------------------------------------------------------
(* Properties.                                                             *)

TypeOK ==
    /\ open \in BOOLEAN /\ panicked \in BOOLEAN
    /\ call \in [Callers -> Calls]
    /\ handlers \subseteq Handlers
    /\ up \in {"up", "stopping", "down"}
    /\ mem \in Registry /\ kept \subseteq Registry
    /\ path \in Paths /\ disk \in [Files -> Registry \union {NoFile, Broken}]
    /\ behind \in BOOLEAN /\ lost \in BOOLEAN
    /\ applied \in [Callers -> Nat] /\ clean \in [Callers -> BOOLEAN]
    /\ writers \in [Names -> SUBSET Callers]
    /\ unsaved \in BOOLEAN /\ made \in 0..MaxCalls /\ faults \in 0..MaxFaults

Effectful == Saving \union {"load", "backup", "restore", "shutdown", "syncTo", "syncToMultiple",
                            "startAutoSync", "stopAutoSync"}

\* What a caller is told agrees with what its call did: a call that is answered took
\* effect, at most once for every attempt, and a call whose only attempt was refused
\* had none (client.go withRetry against service.go's error codes).  After a retry a
\* refusal says nothing: AddServer may be refused because of its own first attempt.
AnswersMatchEffects ==
    \A c \in Callers :
      LET k == call[c] IN
      /\ applied[c] <= k.try + 1
      /\ k.pc = "done" /\ k.code = "ok" /\ k.req.op \in Effectful => applied[c] >= 1
      /\ k.pc = "done" /\ k.code = "InvalidArgument" /\ k.try = 0 /\ ~unsaved
           => applied[c] = 0

\* what a successful call of c asked for
Holds(r, s) ==
    CASE r.op = "add" -> s = [cfg |-> r.cfg, on |-> TRUE]
      [] r.op = "update" -> s # NoServer /\ s.cfg = r.cfg
      [] r.op = "remove" -> s = NoServer
      [] r.op \in {"enable", "disable"} -> s # NoServer /\ s.on = (r.op = "enable")
      [] r.op = "set" -> s = [cfg |-> r.cfg, on |-> FALSE]
      [] OTHER -> TRUE

\* Who alone changes a server finds it as its last successful call left it, whatever
\* was retried, given up or lost on the way, whatever other saves failed and however
\* often the daemon died, unless the call began while an attempt of an older one was
\* still at the daemon, or a process ended without having the memory in its own file:
\* it died in a save, its last one had failed, or it saved elsewhere (config_manager.go).
\* The file has it too, when the last save succeeded.
SessionOrder ==
    \A c \in Callers :
      LET k == call[c] IN
      (/\ k.pc = "done" /\ k.code = "ok" /\ clean[c] /\ ~lost
       /\ k.req.op \in Saving \ {"save"} /\ writers[k.req.name] = {c})
        => /\ Holds(k.req, mem[k.req.name])
           /\ ~behind => /\ disk[Where(path)] \in Registry
                         /\ Holds(k.req, disk[Where(path)][k.req.name])

\* Every call returns, whatever is lost and whether or not a daemon is there: each
\* attempt has a timeout, and the attempts are counted (client.go:160, 226).  The
\* program ends otherwise only by the panic.
CallsReturn == \A c \in Callers : call[c].pc # "done" ~> call[c].pc = "done" \/ panicked
=============================================================================

---------------------------- MODULE Remote_proof ----------------------------
(***************************************************************************)
(* Proofs about Remote for any callers, servers, retries and bounds.       *)
(***************************************************************************)
EXTENDS Remote, FiniteSetTheorems, TLAPS

LEMMA BoundsAreNat == MaxRetries \in Nat /\ MaxCalls \in Nat /\ MaxFaults \in Nat
  BY RemoteAssumption DEF RemoteAssumption

\* What a request of each kind carries.
LEMMA RequestTypes ==
    ASSUME NEW r \in Requests
    PROVE  /\ r.name \in Names
           /\ r.op \in {"add", "update", "set"} => r.cfg \in Configs
  BY DEF Requests, CarryingRequests, NamingRequests, ConfigRequests, StatusRequests,
         UnservedRequests, SyncRequests, AutoSyncRequests, BackupRequests, LifecycleRequests,
         EventRequests, Bare, Carrying, Naming

-----------------------------------------------------------------------------
(* Types.  No attempt beyond the last retry, and no call beyond the bound,  *)
(* because a call that waits to try again has a retry left, and calls are   *)
(* counted.                                                                *)

Counted ==
    \A c \in Callers :
      /\ call[c].pc = "backoff" => call[c].try < MaxRetries
      /\ call[c].seq <= made

Types == TypeOK /\ Counted

LEMMA CallTypes ==
    ASSUME TypeOK, NEW c \in Callers
    PROVE  /\ call[c] \in Calls /\ call[c].pc \in CallStates /\ call[c].seq \in 0..MaxCalls
           /\ call[c].try \in 0..MaxRetries /\ call[c].req \in Requests
           /\ call[c].code \in Codes /\ call[c].gone \in BOOLEAN
  BY DEF TypeOK, Calls

LEMMA FailingTypes ==
    ASSUME NEW k \in Calls, NEW code \in Codes
    PROVE  /\ Failing(k, code) \in Calls
           /\ Failing(k, code).pc \in {"backoff", "done"}
           /\ Failing(k, code).pc = "backoff" => Failing(k, code).try < MaxRetries
           /\ Failing(k, code).seq = k.seq /\ Failing(k, code).try = k.try
  BY DEF Failing, Retrying, Calls, CallStates

\* A call that fails, or is cut off, keeps the types and the counts.
LEMMA WithErrorTypes ==
    ASSUME Types, NEW c \in Callers, NEW code \in Codes, call' = WithError(c, code), UNCHANGED made
    PROVE  call' \in [Callers -> Calls] /\ Counted'
  <1>1. call[c] \in Calls
    BY CallTypes DEF Types
  <1>2. call' = [call EXCEPT ![c] = Failing(call[c], code)]
    BY DEF WithError
  <1>3. call' \in [Callers -> Calls]
    BY <1>1, <1>2, FailingTypes DEF Types, TypeOK
  <1>4. call'[c] = Failing(call[c], code) /\ \A b \in Callers \ {c} : call'[b] = call[b]
    BY <1>2 DEF Types, TypeOK
  <1>5. Counted'
    BY <1>1, <1>4, FailingTypes DEF Types, Counted
  <1> QED
    BY <1>3, <1>5

LEMMA CutTypes ==
    ASSUME Types, NEW code \in Codes, call' = Cut(code), UNCHANGED made
    PROVE  call' \in [Callers -> Calls] /\ Counted'
  <1>1. \A c \in Callers : call'[c] = IF call[c].pc = "wait" THEN Failing(call[c], code) ELSE call[c]
    BY DEF Cut
  <1>2. \A c \in Callers : call[c] \in Calls
    BY DEF Types, TypeOK
  <1>3. \A c \in Callers : call'[c] \in Calls
    BY <1>1, <1>2, FailingTypes
  <1>4. call' \in [Callers -> Calls]
    BY <1>3 DEF Cut
  <1>5. Counted'
    BY <1>1, <1>2, FailingTypes DEF Types, Counted
  <1> QED
    BY <1>4, <1>5

LEMMA FaultTypes == ASSUME TypeOK, Fault PROVE faults' \in 0..MaxFaults
  BY BoundsAreNat DEF TypeOK, Fault

LEMMA ServersChanged ==
    ASSUME TypeOK, NEW r \in Requests, ~Refused(r), r.op \in Saving
    PROVE  Changed(r) \in Registry
  <1>1. r.name \in Names /\ (r.op \in {"add", "update", "set"} => r.cfg \in Configs)
    BY RequestTypes
  <1>2. mem \in [Names -> Servers \union {NoServer}]
    BY DEF TypeOK, Registry
  <1>3. CASE r.op = "add"
    <2>1. [cfg |-> r.cfg, on |-> TRUE] \in Servers
      BY <1>1, <1>3 DEF Servers
    <2>2. Changed(r) = [mem EXCEPT ![r.name] = [cfg |-> r.cfg, on |-> TRUE]]
      BY <1>3 DEF Changed
    <2> QED
      BY <1>2, <2>1, <2>2 DEF Registry
  <1>4. CASE r.op = "update"
    <2>1. mem[r.name] \in Servers
      BY <1>1, <1>2, <1>4 DEF Refused, Missing
    <2>2. [mem[r.name] EXCEPT !.cfg = r.cfg] \in Servers
      BY <1>1, <1>4, <2>1 DEF Servers
    <2>3. Changed(r) = [mem EXCEPT ![r.name].cfg = r.cfg]
      BY <1>4 DEF Changed
    <2> QED
      BY <1>2, <2>2, <2>3 DEF Registry
  <1>5. CASE r.op = "remove"
    <2>1. Changed(r) = [mem EXCEPT ![r.name] = NoServer]
      BY <1>5 DEF Changed
    <2> QED
      BY <1>2, <2>1 DEF Registry
  <1>6. CASE r.op \in {"enable", "disable"}
    <2>1. mem[r.name] \in Servers
      BY <1>1, <1>2, <1>6 DEF Refused, Missing
    <2>2. [mem[r.name] EXCEPT !.on = (r.op = "enable")] \in Servers
      BY <2>1 DEF Servers
    <2>3. Changed(r) = [mem EXCEPT ![r.name].on = (r.op = "enable")]
      BY <1>6 DEF Changed
    <2> QED
      BY <1>2, <2>2, <2>3 DEF Registry
  <1>7. CASE r.op = "set"
    <2>1. [cfg |-> r.cfg, on |-> FALSE] \in Servers
      BY <1>1, <1>7 DEF Servers
    <2>2. Changed(r) = [Nothing EXCEPT ![r.name] = [cfg |-> r.cfg, on |-> FALSE]]
      BY <1>7 DEF Changed
    <2> QED
      BY <2>1, <2>2 DEF Registry, Nothing
  <1>8. CASE r.op = "save"
    BY <1>2, <1>8 DEF Changed, Registry
  <1> QED
    BY <1>3, <1>4, <1>5, <1>6, <1>7, <1>8 DEF Saving, Carrying, Naming

LEMMA HandlerTypes ==
    ASSUME TypeOK, NEW h \in handlers, NEW pc \in {"queued", "reread", "answer"}, NEW code \in Codes,
           Becomes(h, pc, code)
    PROVE  handlers' \subseteq Handlers
  <1>1. h \in Handlers
    BY DEF TypeOK
  <1>2. [h EXCEPT !.pc = pc, !.code = code] \in Handlers
    BY <1>1 DEF Handlers
  <1> QED
    BY <1>2 DEF TypeOK, Becomes

LEMMA CountTypes ==
    ASSUME TypeOK, NEW h \in handlers, Count(h)
    PROVE  applied' \in [Callers -> Nat]
  <1>1. h.caller \in Callers
    BY DEF TypeOK, Handlers
  <1> QED
    BY <1>1 DEF TypeOK, Count

FilesTyped ==
    /\ path \in Paths /\ disk \in [Files -> Registry \union {NoFile, Broken}]
    /\ behind \in BOOLEAN /\ lost \in BOOLEAN

\* A handler's step that leaves the callers alone.
LEMMA ServedTypes ==
    ASSUME Types, handlers' \subseteq Handlers, mem' \in Registry, FilesTyped',
           kept' \subseteq Registry, applied' \in [Callers -> Nat], unsaved' \in BOOLEAN,
           faults' \in 0..MaxFaults, up' \in {"up", "stopping", "down"},
           UNCHANGED <<call, clientVars, clean, writers, made>>
    PROVE  Types'
  BY DEF Types, TypeOK, Counted, clientVars, FilesTyped

\* A step of the client that leaves the daemon and the bookkeeping of calls alone.
LEMMA ClientTypes ==
    ASSUME Types, call' \in [Callers -> Calls], Counted', handlers' \subseteq Handlers,
           faults' \in 0..MaxFaults, UNCHANGED <<up, clientVars, engineVars, observerVars>>
    PROVE  Types'
  BY DEF Types, TypeOK, clientVars, engineVars, fileVars, observerVars

\* A call that goes on where it was keeps its types.
LEMMA MovedTypes ==
    ASSUME Types, NEW c \in Callers, NEW k \in Calls, call' = [call EXCEPT ![c] = k],
           k.pc = "backoff" => k.try < MaxRetries, k.seq = call[c].seq, UNCHANGED made
    PROVE  call' \in [Callers -> Calls] /\ Counted'
  <1>1. call' \in [Callers -> Calls]
    BY DEF Types, TypeOK
  <1>2. call'[c] = k /\ \A b \in Callers \ {c} : call'[b] = call[b]
    BY DEF Types, TypeOK
  <1> QED
    BY <1>1, <1>2 DEF Types, Counted

LEMMA ConnectionSteps ==
    ASSUME Types,
           Close \/ Connect \/ Crash \/ Stopped \/ Start \/ \E h \in handlers : CrashSaving(h)
    PROVE  Types'
  <1>1. CASE Close
    <2>1. call' \in [Callers -> Calls] /\ Counted'
      BY <1>1, CutTypes DEF Close, Codes, observerVars
    <2> QED
      BY <1>1, <2>1, FaultTypes DEF Close, Types, TypeOK, engineVars, fileVars, observerVars
  <1>2. CASE Connect
    BY <1>2 DEF Connect, Types, TypeOK, Counted, engineVars, fileVars, observerVars
  <1>3. CASE Crash \/ Stopped \/ \E h \in handlers : CrashSaving(h)
    <2>1. Die
      BY <1>3 DEF Crash, CrashSaving, Stopped
    <2>2. call' \in [Callers -> Calls] /\ Counted'
      BY <2>1, CutTypes DEF Die, Codes, observerVars
    <2>3. faults' \in 0..MaxFaults
      BY <1>3, FaultTypes DEF Crash, CrashSaving, Stopped, Types, TypeOK
    <2>4. disk' = disk \/ (path # "" /\ disk' = [disk EXCEPT ![path] = Broken])
      BY <1>3 DEF Crash, CrashSaving, Stopped
    <2>5. FilesTyped'
      BY <1>3, <2>1, <2>4 DEF Crash, CrashSaving, Stopped, Die, Types, TypeOK, FilesTyped, Paths
    <2> QED
      BY <2>1, <2>2, <2>3, <2>5 DEF Die, Types, TypeOK, FilesTyped, clientVars, observerVars
  <1>4. CASE Start
    <2>1. mem' \in Registry
      BY <1>4 DEF Start, Registry, Nothing
    <2>2. FilesTyped'
      BY <1>4 DEF Start, Types, TypeOK, FilesTyped, Paths, Files
    <2> QED
      BY <1>4, <2>1, <2>2 DEF Start, Types, TypeOK, Counted, FilesTyped, clientVars, observerVars
  <1> QED
    BY <1>1, <1>2, <1>3, <1>4

LEMMA CallStep ==
    ASSUME Types, NEW c \in Callers, NEW r \in Requests, Call(c, r)
    PROVE  Types'
  <1> DEFINE k == [pc |-> IF open THEN "attempt" ELSE "done", seq |-> call[c].seq + 1,
                   try |-> 0, req |-> r, code |-> "not connected", gone |-> FALSE]
  <1>1. made \in Nat /\ MaxCalls \in Nat /\ MaxRetries \in Nat /\ made < MaxCalls /\ made' = made + 1
    <2>1. made \in 0..MaxCalls /\ made < MaxCalls /\ made' = made + 1
      BY DEF Call, Types, TypeOK
    <2> QED
      BY <2>1, BoundsAreNat
  <1>2. call[c].seq \in Nat /\ call[c].seq <= made
    BY CallTypes, BoundsAreNat DEF Types, Counted
  <1>3. call[c].seq + 1 \in 0..MaxCalls /\ call[c].seq + 1 <= made'
    BY <1>1, <1>2
  <1>4. k \in Calls
    BY <1>1, <1>3 DEF Calls, CallStates, Codes
  <1>5. call' = [call EXCEPT ![c] = k]
    BY DEF Call
  <1>6. call' \in [Callers -> Calls]
    BY <1>4, <1>5 DEF Types, TypeOK
  <1>7. \A b \in Callers : call'[b] = IF b = c THEN k ELSE call[b]
    BY <1>5 DEF Types, TypeOK
  <1>8. k.pc # "backoff" /\ k.seq <= made'
    BY <1>3
  <1>9. \A b \in Callers : call[b].seq <= made'
    <2> SUFFICES ASSUME NEW b \in Callers PROVE call[b].seq <= made'
      OBVIOUS
    <2>1. call[b].seq \in Nat /\ call[b].seq <= made
      BY CallTypes, BoundsAreNat DEF Types, Counted
    <2> QED
      BY <1>1, <2>1
  <1>10. Counted'
    BY <1>7, <1>8, <1>9 DEF Types, Counted
  <1>11. made' \in 0..MaxCalls
    BY <1>1
  <1>12. applied' \in [Callers -> Nat] /\ clean' \in [Callers -> BOOLEAN]
    BY DEF Call, Types, TypeOK
  <1>13. writers' \in [Names -> SUBSET Callers]
    BY DEF Call, Types, TypeOK
  <1> QED
    BY <1>6, <1>10, <1>11, <1>12, <1>13 DEF Call, Types, TypeOK, clientVars, engineVars, fileVars

LEMMA ClientSteps ==
    ASSUME Types, NEW c \in Callers, ClientStep(c) \/ Cancel(c)
    PROVE  Types'
  <1>1. call[c] \in Calls
    BY CallTypes DEF Types
  <1>2. CASE NilStub(c)
    BY <1>2 DEF NilStub, Types, TypeOK, Counted, engineVars, fileVars, observerVars
  <1>3. CASE NotSent(c)
    <2>1. call' \in [Callers -> Calls] /\ Counted'
      BY <1>3, WithErrorTypes DEF NotSent, Codes, observerVars
    <2> QED
      BY <1>3, <2>1, ClientTypes DEF NotSent, Types, TypeOK
  <1>4. CASE Subscribe(c)
    <2> DEFINE k == [call[c] EXCEPT !.pc = "done", !.code = "ok"]
    <2>1. k \in Calls /\ k.pc = "done" /\ k.seq = call[c].seq
      BY <1>1 DEF Calls, CallStates, Codes
    <2>2. call' = [call EXCEPT ![c] = k]
      BY <1>4 DEF Subscribe, Types, TypeOK
    <2>3. UNCHANGED <<up, clientVars, engineVars, observerVars, handlers, faults, made>>
      BY <1>4 DEF Subscribe, observerVars
    <2> HIDE DEF k
    <2>4. call' \in [Callers -> Calls] /\ Counted'
      BY <2>1, <2>2, <2>3, MovedTypes
    <2> QED
      BY <2>3, <2>4, ClientTypes DEF Types, TypeOK
  <1>5. CASE Send(c)
    <2> DEFINE k == [call[c] EXCEPT !.pc = "wait"]
    <2>1. k \in Calls /\ k.pc = "wait" /\ k.seq = call[c].seq
      BY <1>1 DEF Calls, CallStates
    <2>2. call' = [call EXCEPT ![c] = k]
      BY <1>5 DEF Send, Types, TypeOK
    <2>3. UNCHANGED <<up, clientVars, engineVars, observerVars, faults, made>>
      BY <1>5 DEF Send, observerVars
    <2>4. [caller |-> c, seq |-> call[c].seq, try |-> call[c].try, req |-> call[c].req,
           pc |-> "queued", code |-> "ok"] \in Handlers
      BY CallTypes DEF Types, Handlers, Codes
    <2>5. handlers' \subseteq Handlers
      BY <1>5, <2>4 DEF Send, Types, TypeOK
    <2> HIDE DEF k
    <2>6. call' \in [Callers -> Calls] /\ Counted'
      BY <2>1, <2>2, <2>3, MovedTypes
    <2> QED
      BY <2>3, <2>5, <2>6, ClientTypes DEF Types, TypeOK
  <1>6. CASE Abandon(c)
    <2>1. call' \in [Callers -> Calls] /\ Counted'
      BY <1>6, WithErrorTypes DEF Abandon, Codes, observerVars
    <2>2. faults' \in 0..MaxFaults
      BY <1>6, BoundsAreNat DEF Abandon, Types, TypeOK
    <2> QED
      BY <1>6, <2>1, <2>2, ClientTypes DEF Abandon, Types, TypeOK
  <1>7. CASE BackoffOver(c)
    <2> DEFINE k == [call[c] EXCEPT !.pc = "attempt", !.try = @ + 1]
    <2> DEFINE g == [call[c] EXCEPT !.pc = "done", !.code = "Canceled"]
    <2>1. call[c].try + 1 \in 0..MaxRetries
      BY <1>7, CallTypes, BoundsAreNat DEF BackoffOver, Types, Counted
    <2>2. k \in Calls /\ k.pc = "attempt" /\ k.seq = call[c].seq
      BY <1>1, <2>1 DEF Calls, CallStates
    <2>3. g \in Calls /\ g.pc = "done" /\ g.seq = call[c].seq
      BY <1>1 DEF Calls, CallStates, Codes
    <2>4. call' = [call EXCEPT ![c] = k] \/ call' = [call EXCEPT ![c] = g]
      BY <1>7 DEF BackoffOver, Types, TypeOK
    <2>5. UNCHANGED <<up, clientVars, engineVars, observerVars, handlers, faults, made>>
      BY <1>7 DEF BackoffOver, observerVars
    <2> HIDE DEF k, g
    <2>6. call' \in [Callers -> Calls] /\ Counted'
      BY <2>2, <2>3, <2>4, <2>5, MovedTypes
    <2> QED
      BY <2>5, <2>6, ClientTypes DEF Types, TypeOK
  <1>8. CASE Cancel(c)
    <2> DEFINE f == [Failing(call[c], "Canceled") EXCEPT !.gone = TRUE]
    <2> DEFINE g == [call[c] EXCEPT !.gone = TRUE]
    <2>1. Failing(call[c], "Canceled") \in Calls
          /\ Failing(call[c], "Canceled").seq = call[c].seq
          /\ (Failing(call[c], "Canceled").pc = "backoff" => Failing(call[c], "Canceled").try < MaxRetries)
      BY <1>1, FailingTypes DEF Codes
    <2>2. f \in Calls /\ (f.pc = "backoff" => f.try < MaxRetries) /\ f.seq = call[c].seq
      BY <2>1 DEF Calls
    <2>3. g \in Calls /\ (g.pc = "backoff" => g.try < MaxRetries) /\ g.seq = call[c].seq
      BY <1>1 DEF Calls, Types, Counted
    <2>4. call' = [call EXCEPT ![c] = f] \/ call' = [call EXCEPT ![c] = g]
      BY <1>8 DEF Cancel, Types, TypeOK
    <2>5. UNCHANGED <<up, clientVars, engineVars, observerVars, handlers, made>> /\ faults' \in 0..MaxFaults
      BY <1>8, FaultTypes DEF Cancel, observerVars, Types
    <2> HIDE DEF f, g
    <2>6. call' \in [Callers -> Calls] /\ Counted'
      BY <2>2, <2>3, <2>4, <2>5, MovedTypes
    <2> QED
      BY <2>5, <2>6, ClientTypes DEF Types, TypeOK
  <1> QED
    BY <1>2, <1>3, <1>4, <1>5, <1>6, <1>7, <1>8 DEF ClientStep

LEMMA ServiceSteps ==
    ASSUME Types, NEW h \in handlers,
           Refuse(h) \/ Serve(h) \/ SaveFails(h) \/ Reread(h) \/ Elsewhere(h) \/ LoadFile(h) \/ LoadStorage(h)
             \/ Restore(h)
             \/ NoSuchBackup(h) \/ Inert(h) \/ Shutdown(h)
    PROVE  Types'
  <1>1. h.req \in Requests
    BY DEF Types, TypeOK, Handlers
  <1>2. RefusalCode(h.req) \in Codes /\ SaveErrorCode(h.req) \in Codes /\ GoneCode(h.req) \in Codes
        /\ {"ok", "Internal", "Unimplemented"} \subseteq Codes
    BY DEF RefusalCode, SaveErrorCode, GoneCode, Codes
  <1>3. handlers' \subseteq Handlers
    BY <1>2, HandlerTypes DEF Types, Refuse, Serve, SaveFails, Reread, Elsewhere, Load, LoadFile,
       LoadStorage, Save, CannotSave, Restore, NoSuchBackup,
       Inert, Shutdown
  <1>4. applied' \in [Callers -> Nat]
    <2>1. CASE Count(h)
      BY <2>1, CountTypes DEF Types
    <2>2. CASE UNCHANGED applied
      BY <2>2 DEF Types, TypeOK
    <2> QED
      BY <2>1, <2>2 DEF Refuse, Serve, SaveFails, Reread, Elsewhere, Load, LoadFile, LoadStorage,
         Save, CannotSave, Restore, NoSuchBackup, Inert, Shutdown,
         observerVars
  <1>5. mem' \in Registry /\ kept' \subseteq Registry
    <2>1. mem \in Registry /\ kept \subseteq Registry
      BY DEF Types, TypeOK
    <2>2. CASE Serve(h) \/ SaveFails(h)
      <3>1. Changed(h.req) \in Registry
        BY <1>1, <2>2, ServersChanged DEF Serve, SaveFails, Types
      <3> QED
        BY <2>1, <2>2, <3>1 DEF Serve, SaveFails
    <2>3. CASE Elsewhere(h)
      BY <2>1, <2>3 DEF Elsewhere
    <2>4. CASE LoadFile(h)
      BY <2>1, <2>4 DEF LoadFile, Load
    <2>5. CASE LoadStorage(h)
      <3> DEFINE m == [n \in Names |-> IF disk["own"][n] = NoServer THEN mem[n] ELSE disk["own"][n]]
      <3>1. mem' = mem \/ (disk["own"] \in Registry /\ mem' = m)
        BY <2>5 DEF LoadStorage, Load
      <3>2. disk["own"] \in Registry => m \in Registry
        BY <2>1 DEF Registry
      <3> HIDE DEF m
      <3>3. kept' = kept
        BY <2>5 DEF LoadStorage, Load
      <3> QED
        BY <2>1, <3>1, <3>2, <3>3
    <2>6. CASE Restore(h)
      <3>1. PICK b \in kept : mem' = b /\ kept' \in {kept, kept \union {mem}}
        BY <2>6 DEF Restore
      <3> QED
        BY <2>1, <3>1
    <2>7. CASE Refuse(h) \/ Reread(h) \/ NoSuchBackup(h) \/ Inert(h) \/ Shutdown(h)
      BY <2>1, <2>7 DEF Refuse, Reread, NoSuchBackup, Inert, Shutdown, engineVars
    <2> QED
      BY <2>2, <2>3, <2>4, <2>5, <2>6, <2>7
  <1>8. FilesTyped'
    <2>1. FilesTyped
      BY DEF Types, TypeOK, FilesTyped
    <2>2. CASE Save
      BY <1>5, <2>1, <2>2 DEF Save, FilesTyped, Files, Where
    <2>3. CASE CannotSave
      BY <2>1, <2>3 DEF CannotSave, FilesTyped, Paths
    <2>4. CASE LoadFile(h) \/ LoadStorage(h)
      <3>1. PICK p \in Paths : path' = p
        BY <2>4 DEF LoadFile, LoadStorage, Load, Paths
      <3>2. disk' = disk /\ lost' = lost /\ (behind' = behind \/ behind' \in BOOLEAN)
        BY <2>4 DEF LoadFile, LoadStorage, Load
      <3>3. behind' \in BOOLEAN
        BY <2>1, <2>4 DEF LoadFile, LoadStorage, Load, FilesTyped
      <3> QED
        BY <2>1, <3>1, <3>2, <3>3 DEF FilesTyped
    <2>5. CASE UNCHANGED fileVars
      BY <2>1, <2>5 DEF FilesTyped, fileVars
    <2> QED
      BY <2>2, <2>3, <2>4, <2>5 DEF Refuse, Serve, SaveFails, Reread, Elsewhere, Restore, NoSuchBackup,
         Inert, Shutdown, engineVars
  <1>6. unsaved' \in BOOLEAN /\ faults' \in 0..MaxFaults
    <2>1. unsaved \in BOOLEAN /\ faults \in 0..MaxFaults
      BY DEF Types, TypeOK
    <2>2. Fault => faults' \in 0..MaxFaults
      BY FaultTypes DEF Types
    <2> QED
      BY <2>1, <2>2 DEF Refuse, Serve, SaveFails, Reread, Elsewhere, Load, LoadFile, LoadStorage,
         Save, CannotSave, Restore, NoSuchBackup, Inert, Shutdown,
         engineVars, fileVars
  <1>7. up' \in {"up", "stopping", "down"} /\ UNCHANGED <<call, clientVars, clean, writers, made>>
    BY DEF Refuse, Serve, SaveFails, Reread, Elsewhere, Load, LoadFile, LoadStorage, Save,
       CannotSave, Restore, NoSuchBackup, Inert, Shutdown,
       observerVars, Types, TypeOK
  <1> QED
    BY <1>3, <1>4, <1>5, <1>6, <1>7, <1>8, ServedTypes

LEMMA AnswerSteps ==
    ASSUME Types, NEW h \in handlers, Answer(h) \/ Lose(h)
    PROVE  Types'
  <1>1. h.caller \in Callers /\ h.code \in Codes
    BY DEF Types, TypeOK, Handlers
  <1>2. handlers' \subseteq Handlers
    BY DEF Answer, Lose, Types, TypeOK
  <1>3. CASE Answer(h)
    <2> DEFINE c == h.caller
    <2> DEFINE k == [call[c] EXCEPT !.pc = "done", !.code = "ok"]
    <2>1. UNCHANGED <<up, clientVars, engineVars, observerVars, faults, made>>
      BY <1>3 DEF Answer, observerVars
    <2>2. call[c] \in Calls
      BY <1>1 DEF Types, TypeOK
    <2>3. k \in Calls /\ k.pc = "done" /\ k.seq = call[c].seq
      BY <2>2 DEF Calls, CallStates, Codes
    <2>4. CASE UNCHANGED call
      BY <1>2, <2>1, <2>4, ClientTypes DEF Types, TypeOK, Counted
    <2>5. CASE call' = [call EXCEPT ![c] = k]
      <3>1. c \in Callers
        BY <1>1
      <3> HIDE DEF k, c
      <3>2. call' \in [Callers -> Calls] /\ Counted'
        BY <2>1, <2>3, <2>5, <3>1, MovedTypes
      <3> QED
        BY <1>2, <2>1, <3>2, ClientTypes DEF Types, TypeOK
    <2>6. CASE call' = WithError(c, h.code)
      <3>1. call' \in [Callers -> Calls] /\ Counted'
        BY <1>1, <2>1, <2>6, WithErrorTypes
      <3> QED
        BY <1>2, <2>1, <3>1, ClientTypes DEF Types, TypeOK
    <2>7. call' = call \/ call' = [call EXCEPT ![c].pc = "done", ![c].code = "ok"] \/ call' = WithError(c, h.code)
      BY <1>3 DEF Answer
    <2>8. call' = [call EXCEPT ![c].pc = "done", ![c].code = "ok"] => call' = [call EXCEPT ![c] = k]
      BY <1>1 DEF Types, TypeOK
    <2> QED
      BY <2>4, <2>5, <2>6, <2>7, <2>8
  <1>4. CASE Lose(h)
    <2>1. faults' \in 0..MaxFaults
      BY <1>4, FaultTypes DEF Lose, Types
    <2> QED
      BY <1>2, <1>4, <2>1, ClientTypes DEF Lose, Types, TypeOK, Counted, observerVars
  <1> QED
    BY <1>3, <1>4

LEMMA InitTypes == ASSUME Init PROVE Types
  <1>1. (CHOOSE r \in Requests : TRUE) \in Requests
    BY SomeRequest DEF SomeRequest
  <1> DEFINE k == [pc |-> "done", seq |-> 0, try |-> 0, req |-> CHOOSE r \in Requests : TRUE,
                   code |-> "not connected", gone |-> FALSE]
  <1>2. call \in [Callers -> Calls] /\ Counted
    <2>1. call = [c \in Callers |-> k] /\ made = 0
      BY DEF Init
    <2>2. 0 \in 0..MaxCalls /\ 0 \in 0..MaxRetries
      BY BoundsAreNat
    <2>3. k \in Calls
      BY <1>1, <2>2 DEF Calls, CallStates, Codes
    <2>4. k.pc = "done" /\ k.seq = 0
      OBVIOUS
    <2> HIDE DEF k
    <2> QED
      BY <2>1, <2>3, <2>4 DEF Counted
  <1>3. Nothing \in Registry
    BY DEF Nothing, Registry
  <1>4. 0 \in Nat /\ 0 \in 0..MaxCalls /\ 0 \in 0..MaxFaults
    BY BoundsAreNat
  <1>5. /\ open \in BOOLEAN /\ panicked \in BOOLEAN /\ handlers \subseteq Handlers
        /\ up \in {"up", "stopping", "down"}
        /\ mem \in Registry /\ kept \subseteq Registry
        /\ path \in Paths /\ disk \in [Files -> Registry \union {NoFile, Broken}]
        /\ behind \in BOOLEAN /\ lost \in BOOLEAN
    BY <1>3 DEF Init, Paths, Files
  <1>6. /\ applied \in [Callers -> Nat] /\ clean \in [Callers -> BOOLEAN]
        /\ writers \in [Names -> SUBSET Callers]
        /\ unsaved \in BOOLEAN /\ made \in 0..MaxCalls /\ faults \in 0..MaxFaults
    BY <1>4 DEF Init
  <1> QED
    BY <1>2, <1>5, <1>6 DEF Types, TypeOK

LEMMA TypesNext == ASSUME Types, [Next]_vars PROVE Types'
  <1>1. CASE UNCHANGED vars
    BY <1>1 DEF vars, fileVars, Types, TypeOK, Counted
  <1>2. CASE \E c \in Callers : \/ ClientStep(c) \/ Cancel(c)
                               \/ \E r \in Requests : Call(c, r)
    BY <1>2, ClientSteps, CallStep
  <1>3. ASSUME NEW h \in handlers, HandlerStep(h) \/ Lose(h) PROVE Types'
    <2>1. CASE Answer(h) \/ Lose(h)
      BY <2>1, AnswerSteps
    <2>2. CASE HandlerStep(h) /\ ~Answer(h)
      BY <2>2, ServiceSteps DEF HandlerStep
    <2> QED
      BY <1>3, <2>1, <2>2
  <1> QED
    BY <1>1, <1>2, <1>3, ConnectionSteps DEF Next

\* No attempt beyond the last retry, whichever way the attempts before it ended, and nothing
\* but servers in the engine, its file and its backups (client.go withRetry, server_manager.go).
THEOREM TypeCorrect == Spec => []TypeOK
  <1>1. Init => Types
    BY InitTypes
  <1>2. Types /\ [Next]_vars => Types'
    BY TypesNext
  <1>3. Types => TypeOK
    BY DEF Types
  <1> QED
    BY <1>1, <1>2, <1>3, PTL DEF Spec

-----------------------------------------------------------------------------
(* Answers and effects.  What took effect for a call, and what still may,   *)
(* is no more than the attempts it has sent; an answer that is on its way   *)
(* says what its own attempt did.                                          *)

\* the attempts of c's call that wait at the daemon
Queued(c) == {h \in handlers : h.caller = c /\ h.seq = call[c].seq /\ h.pc = "queued"}

Sent(c) == IF call[c].pc = "attempt" THEN call[c].try ELSE call[c].try + 1

\* a first attempt that was refused did nothing, and nothing of its call will do more
Void(c) == call[c].try = 0 /\ ~unsaved => applied[c] = 0 /\ Queued(c) = {}

HandlerOK(h) ==
    LET k == call[h.caller] IN
    /\ h.seq <= k.seq
    /\ h.seq = k.seq =>
         /\ h.try <= k.try /\ h.req = k.req
         /\ k.pc = "attempt" => h.try < k.try
         /\ h.pc # "queued" /\ h.code = "ok" /\ h.req.op \in Effectful => applied[h.caller] >= 1
         /\ h.pc = "answer" /\ h.code = "InvalidArgument" => Void(h.caller)
    /\ h.pc \in {"queued", "reread"} => h.code = "ok"

Told(c) ==
    call[c].pc = "done" =>
      /\ call[c].code = "ok" /\ call[c].req.op \in Effectful => applied[c] >= 1
      /\ call[c].code = "InvalidArgument" => Void(c)

CallOK(c) ==
    /\ applied[c] + Cardinality(Queued(c)) <= Sent(c)
    /\ Told(c)

Effects ==
    /\ Types /\ IsFiniteSet(handlers)
    /\ \A h \in handlers : HandlerOK(h)
    /\ \A c \in Callers : CallOK(c)

\* How c's call may go on while nothing happens at the daemon.
Moves(c) ==
    /\ call'[c].seq = call[c].seq /\ call'[c].req = call[c].req
    /\ call'[c].try >= call[c].try
    /\ call'[c].pc = "attempt" => call[c].pc = "attempt" \/ call'[c].try > call[c].try
    /\ \/ call'[c] = call[c] \/ call'[c].pc # "done"
       \/ /\ call'[c].code = "ok" /\ call[c].req.op \in Effectful => applied[c] >= 1
          /\ call'[c].code = "InvalidArgument" => Void(c)

LEMMA QueuedFinite ==
    ASSUME IsFiniteSet(handlers), NEW c
    PROVE  IsFiniteSet(Queued(c)) /\ Cardinality(Queued(c)) \in Nat
  BY FS_Subset, FS_CardinalityType DEF Queued

\* The client's steps, and those that only take requests and answers away.
LEMMA EffectsMove ==
    ASSUME Effects, Types', handlers' \subseteq handlers, UNCHANGED <<applied, unsaved>>,
           \A c \in Callers : Moves(c)
    PROVE  Effects'
  <1>1. IsFiniteSet(handlers')
    BY FS_Subset DEF Effects
  <1>2. \A c \in Callers : /\ call[c].try \in Nat /\ call'[c].try \in Nat /\ applied[c] \in Nat
                           /\ call[c].seq \in Nat
    BY BoundsAreNat DEF Effects, Types, TypeOK, Calls
  <1>3. \A c \in Callers : Queued(c)' \subseteq Queued(c)
    BY DEF Queued, Moves
  <1>4. \A c \in Callers : Cardinality(Queued(c)') \in Nat /\ Cardinality(Queued(c)) \in Nat
                           /\ Cardinality(Queued(c)') <= Cardinality(Queued(c))
    BY <1>3, QueuedFinite, FS_Subset, FS_CardinalityType DEF Effects
  <1>5. \A c \in Callers : Void(c) => Void(c)'
    BY <1>2, <1>3 DEF Void, Moves
  <1>6. ASSUME NEW c \in Callers PROVE CallOK(c)'
    <2>1. Moves(c) /\ CallOK(c)
      BY DEF Effects
    <2>2. Sent(c)' \in Nat /\ Sent(c) \in Nat /\ Sent(c)' >= Sent(c)
      BY <1>2, <2>1 DEF Sent, Moves
    <2>3. applied'[c] + Cardinality(Queued(c)') <= Sent(c)'
      BY <1>2, <1>4, <2>1, <2>2 DEF CallOK
    <2>4. Told(c)'
      BY <1>5, <2>1 DEF Told, Moves, CallOK
    <2> QED
      BY <2>3, <2>4 DEF CallOK
  <1>7. ASSUME NEW h \in handlers' PROVE HandlerOK(h)'
    <2>1. h \in handlers /\ HandlerOK(h) /\ h.caller \in Callers /\ h.seq \in Nat /\ h.try \in Nat
      BY BoundsAreNat DEF Effects, Types, TypeOK, Handlers
    <2>2. Moves(h.caller)
      BY <2>1
    <2>3. h.seq = call[h.caller].seq => h.try <= call'[h.caller].try
      BY <1>2, <2>1, <2>2 DEF Moves, HandlerOK
    <2>4. h.seq = call[h.caller].seq /\ call'[h.caller].pc = "attempt" => h.try < call'[h.caller].try
      BY <1>2, <2>1, <2>2 DEF Moves, HandlerOK
    <2> QED
      BY <1>5, <2>1, <2>2, <2>3, <2>4 DEF HandlerOK, Moves
  <1> QED
    BY <1>1, <1>6, <1>7 DEF Effects

LEMMA FailingMoves ==
    ASSUME Types, NEW k \in Calls, NEW code \in Codes
    PROVE  LET f == Failing(k, code) IN
           /\ f.seq = k.seq /\ f.req = k.req /\ f.try = k.try
           /\ \/ f.pc = "backoff"
              \/ f.pc = "done" /\ f.code = code
  <1>1. CASE Retrying(k, code)
    <2> DEFINE z == [k EXCEPT !.pc = "backoff"]
    <2>1. Failing(k, code) = z
      BY <1>1 DEF Failing
    <2>2. z.seq = k.seq /\ z.req = k.req /\ z.try = k.try
      BY DEF Calls
    <2>3. z.pc = "backoff"
      BY DEF Calls
    <2> HIDE DEF z
    <2> QED
      BY <2>1, <2>2, <2>3
  <1>2. CASE ~Retrying(k, code)
    <2>1. Failing(k, code) = [k EXCEPT !.pc = "done", !.code = code]
      BY <1>2 DEF Failing
    <2> QED
      BY <2>1 DEF Calls
  <1> QED
    BY <1>1, <1>2

\* An attempt that fails without an answer says neither "ok" nor "InvalidArgument".
LEMMA ErrorMoves ==
    ASSUME Types, NEW b \in Callers, NEW code \in Codes, call' = WithError(b, code),
           code # "ok", code = "InvalidArgument" => Void(b)
    PROVE  \A c \in Callers : Moves(c)
  <1>1. call \in [Callers -> Calls] /\ call[b] \in Calls
    BY DEF Types, TypeOK
  <1>2. call'[b] = Failing(call[b], code) /\ \A c \in Callers \ {b} : call'[c] = call[c]
    BY <1>1 DEF WithError
  <1>3. \A c \in Callers : call[c].try \in Nat
    BY <1>1, BoundsAreNat DEF Calls
  <1>4. Moves(b)
    BY <1>1, <1>2, <1>3, FailingMoves DEF Moves
  <1>5. \A c \in Callers \ {b} : Moves(c)
    BY <1>2, <1>3 DEF Moves
  <1> QED
    BY <1>4, <1>5

LEMMA CutMoves ==
    ASSUME Types, NEW code \in Codes, call' = Cut(code), code # "ok", code # "InvalidArgument"
    PROVE  \A c \in Callers : Moves(c)
  <1> SUFFICES ASSUME NEW c \in Callers PROVE Moves(c)
    OBVIOUS
  <1>1. call[c] \in Calls /\ call[c].try \in Nat
    BY BoundsAreNat DEF Types, TypeOK, Calls
  <1>2. call'[c] = IF call[c].pc = "wait" THEN Failing(call[c], code) ELSE call[c]
    BY DEF Cut
  <1> QED
    BY <1>1, <1>2, FailingMoves DEF Moves

\* The steps that EffectsMove is about.
Moving ==
    \/ Close \/ Connect \/ Crash \/ Stopped \/ Start
    \/ \E h \in handlers : CrashSaving(h)
    \/ \E c \in Callers : \/ NilStub(c) \/ NotSent(c) \/ Subscribe(c) \/ Abandon(c)
                          \/ BackoffOver(c) \/ Cancel(c)
    \/ \E h \in handlers : Answer(h) \/ Lose(h)

LEMMA StandStill ==
    ASSUME Types, UNCHANGED call PROVE \A c \in Callers : Moves(c)
  BY BoundsAreNat DEF Moves, Types, TypeOK, Calls

LEMMA MovingMoves ==
    ASSUME Effects, Moving
    PROVE  (\A c \in Callers : Moves(c)) /\ handlers' \subseteq handlers /\ UNCHANGED <<applied, unsaved>>
  <1>1. Types /\ {"Canceled", "Unavailable", "DeadlineExceeded"} \subseteq Codes
    BY DEF Effects, Codes
  <1>2. CASE Close \/ Crash \/ Stopped \/ \E h \in handlers : CrashSaving(h)
    BY <1>1, <1>2, CutMoves DEF Close, Crash, CrashSaving, Stopped, Die, engineVars, fileVars,
       observerVars
  <1>3. CASE Connect \/ Start
    BY <1>1, <1>3, StandStill DEF Connect, Start, engineVars, fileVars, observerVars
  <1>4. ASSUME NEW b \in Callers, NilStub(b) \/ NotSent(b) \/ Abandon(b)
        PROVE  (\A c \in Callers : Moves(c)) /\ handlers' \subseteq handlers /\ UNCHANGED <<applied, unsaved>>
    BY <1>1, <1>4, ErrorMoves, StandStill DEF NilStub, NotSent, Abandon, engineVars, fileVars,
       observerVars
  <1>5. ASSUME NEW b \in Callers, Subscribe(b) \/ BackoffOver(b) \/ Cancel(b)
        PROVE  (\A c \in Callers : Moves(c)) /\ handlers' \subseteq handlers /\ UNCHANGED <<applied, unsaved>>
    <2>1. handlers' = handlers /\ UNCHANGED <<applied, unsaved>>
      BY <1>5 DEF Subscribe, BackoffOver, Cancel, engineVars, fileVars, observerVars
    <2>2. call \in [Callers -> Calls] /\ call[b] \in Calls /\ call[b].try \in Nat
      BY <1>1, BoundsAreNat DEF Types, TypeOK, Calls
    <2>3. \A c \in Callers \ {b} : call'[c] = call[c]
      BY <1>5, <2>2 DEF Subscribe, BackoffOver, Cancel
    <2>4. Moves(b)
      <3>1. CASE Subscribe(b)
        <4>1. call'[b] = [call[b] EXCEPT !.pc = "done", !.code = "ok"] /\ call[b].req.op = "subscribe"
          BY <2>2, <3>1 DEF Subscribe
        <4>2. "subscribe" \notin Effectful
          BY DEF Effectful, Saving, Carrying, Naming
        <4> QED
          BY <2>2, <4>1, <4>2 DEF Moves, Calls
      <3>2. CASE BackoffOver(b)
        <4>1. \/ call'[b] = [call[b] EXCEPT !.pc = "attempt", !.try = @ + 1]
              \/ call'[b] = [call[b] EXCEPT !.pc = "done", !.code = "Canceled"]
          BY <2>2, <3>2 DEF BackoffOver
        <4>2. /\ call'[b].seq = call[b].seq /\ call'[b].req = call[b].req
              /\ \/ call'[b].pc = "attempt" /\ call'[b].try = call[b].try + 1
                 \/ call'[b].pc = "done" /\ call'[b].code = "Canceled" /\ call'[b].try = call[b].try
          BY <2>2, <4>1 DEF Calls
        <4> QED
          BY <2>2, <4>2 DEF Moves
      <3>3. CASE Cancel(b)
        <4>1. call[b].pc # "done"
          BY <3>3 DEF Cancel
        <4>2. CASE call[b].pc # "wait"
          <5>1. call'[b] = [call[b] EXCEPT !.gone = TRUE]
            BY <2>2, <3>3, <4>2 DEF Cancel
          <5> QED
            BY <2>2, <4>1, <5>1 DEF Moves, Calls
        <4>3. CASE call[b].pc = "wait"
          <5> DEFINE f == Failing(call[b], "Canceled")
          <5>1. call'[b] = [f EXCEPT !.gone = TRUE]
            BY <2>2, <3>3, <4>3 DEF Cancel
          <5>2. /\ f.seq = call[b].seq /\ f.req = call[b].req /\ f.try = call[b].try /\ f \in Calls
                /\ \/ f.pc = "backoff"
                   \/ f.pc = "done" /\ f.code = "Canceled"
            BY <1>1, <2>2, FailingMoves, FailingTypes
          <5> HIDE DEF f
          <5>3. /\ call'[b].seq = f.seq /\ call'[b].req = f.req /\ call'[b].try = f.try
                /\ call'[b].pc = f.pc /\ call'[b].code = f.code
            BY <5>1, <5>2 DEF Calls
          <5> QED
            BY <2>2, <5>2, <5>3 DEF Moves
        <4> QED
          BY <4>2, <4>3
      <3> QED
        BY <1>5, <3>1, <3>2, <3>3
    <2>5. \A c \in Callers \ {b} : Moves(c)
      BY <1>1, <2>3, BoundsAreNat DEF Moves, Types, TypeOK, Calls
    <2> QED
      BY <2>1, <2>4, <2>5
  <1>6. ASSUME NEW h \in handlers, Lose(h)
        PROVE  (\A c \in Callers : Moves(c)) /\ handlers' \subseteq handlers /\ UNCHANGED <<applied, unsaved>>
    BY <1>1, <1>6, StandStill DEF Lose, engineVars, fileVars, observerVars
  <1>7. ASSUME NEW h \in handlers, Answer(h)
        PROVE  (\A c \in Callers : Moves(c)) /\ handlers' \subseteq handlers /\ UNCHANGED <<applied, unsaved>>
    <2> DEFINE b == h.caller
    <2>1. handlers' \subseteq handlers /\ UNCHANGED <<applied, unsaved>> /\ h.pc = "answer"
      BY <1>7 DEF Answer, engineVars, fileVars, observerVars
    <2>2. b \in Callers /\ h.code \in Codes /\ HandlerOK(h)
      BY <1>1 DEF Effects, Types, TypeOK, Handlers
    <2>3. CASE UNCHANGED call
      BY <1>1, <2>1, <2>3, StandStill
    <2>4. CASE h \in Own(b) /\ h.code # "ok" /\ call' = WithError(b, h.code)
      <3>1. h.code = "InvalidArgument" => Void(b)
        BY <2>1, <2>2, <2>4 DEF HandlerOK, Own
      <3> QED
        BY <1>1, <2>1, <2>2, <2>4, <3>1, ErrorMoves
    <2>5. CASE /\ h \in Own(b) /\ h.code = "ok"
               /\ call' = [call EXCEPT ![b].pc = "done", ![b].code = "ok"]
      <3>1. h.req = call[b].req /\ (h.req.op \in Effectful => applied[b] >= 1)
        BY <2>1, <2>2, <2>5 DEF HandlerOK, Own
      <3>2. call \in [Callers -> Calls] /\ call[b] \in Calls /\ \A c \in Callers : call[c].try \in Nat
        BY <1>1, <2>2, BoundsAreNat DEF Types, TypeOK, Calls
      <3>3. call'[b] = [call[b] EXCEPT !.pc = "done", !.code = "ok"] /\ \A c \in Callers \ {b} : call'[c] = call[c]
        BY <2>2, <2>5, <3>2
      <3> HIDE DEF b
      <3>4. Moves(b)
        BY <3>1, <3>2, <3>3 DEF Moves, Calls
      <3>5. \A c \in Callers \ {b} : Moves(c)
        BY <3>2, <3>3 DEF Moves
      <3> QED
        BY <2>1, <3>4, <3>5
    <2>6. \/ UNCHANGED call
          \/ h \in Own(b) /\ h.code # "ok" /\ call' = WithError(b, h.code)
          \/ /\ h \in Own(b) /\ h.code = "ok"
             /\ call' = [call EXCEPT ![b].pc = "done", ![b].code = "ok"]
      BY <1>7 DEF Answer
    <2> QED
      BY <2>3, <2>4, <2>5, <2>6
  <1> QED
    BY <1>2, <1>3, <1>4, <1>5, <1>6, <1>7 DEF Moving

LEMMA SendEffects ==
    ASSUME Effects, Types', NEW b \in Callers, Send(b)
    PROVE  Effects'
  <1>0. PICK h0 : h0 = [caller |-> b, seq |-> call[b].seq, try |-> call[b].try, req |-> call[b].req,
                        pc |-> "queued", code |-> "ok"]
    OBVIOUS
  <1>1. /\ call[b].pc = "attempt" /\ handlers' = handlers \union {h0} /\ UNCHANGED <<applied, unsaved>>
        /\ call' = [call EXCEPT ![b].pc = "wait"]
    BY <1>0 DEF Send, engineVars, fileVars, observerVars
  <1>2. /\ call \in [Callers -> Calls] /\ IsFiniteSet(handlers) /\ handlers \subseteq Handlers
        /\ \A c \in Callers : call[c].try \in Nat /\ call[c].seq \in Nat /\ applied[c] \in Nat
    BY BoundsAreNat DEF Effects, Types, TypeOK, Calls
  <1>3. call'[b] = [call[b] EXCEPT !.pc = "wait"] /\ \A c \in Callers \ {b} : call'[c] = call[c]
    BY <1>1, <1>2
  <1>4. /\ call'[b].seq = call[b].seq /\ call'[b].req = call[b].req /\ call'[b].try = call[b].try
        /\ call'[b].pc = "wait"
    BY <1>2, <1>3 DEF Calls
  <1>5. h0.caller = b /\ h0.seq = call[b].seq /\ h0.try = call[b].try /\ h0.req = call[b].req
        /\ h0.pc = "queued" /\ h0.code = "ok"
    BY <1>0
  <1>6. IsFiniteSet(handlers')
    BY <1>1, <1>2, FS_AddElement
  <1>7. \A c \in Callers \ {b} : Queued(c)' = Queued(c) /\ CallOK(c)'
    <2> SUFFICES ASSUME NEW c \in Callers \ {b} PROVE Queued(c)' = Queued(c) /\ CallOK(c)'
      OBVIOUS
    <2>1. Queued(c)' = Queued(c) /\ CallOK(c)
      BY <1>1, <1>3, <1>5 DEF Queued, Effects
    <2> QED
      BY <1>1, <1>3, <2>1 DEF CallOK, Told, Void, Sent
  <1>8. CallOK(b)'
    <2>1. Queued(b)' = Queued(b) \union {h0}
      BY <1>1, <1>4, <1>5 DEF Queued
    <2>2. Cardinality(Queued(b)) \in Nat /\ Cardinality(Queued(b)') \in Nat
          /\ Cardinality(Queued(b)') <= Cardinality(Queued(b)) + 1
      <3>1. IsFiniteSet(Queued(b)) /\ Cardinality(Queued(b)) \in Nat
        BY <1>2, QueuedFinite
      <3>2. Cardinality(Queued(b) \union {h0}) =
              IF h0 \in Queued(b) THEN Cardinality(Queued(b)) ELSE Cardinality(Queued(b)) + 1
        BY <3>1, FS_AddElement
      <3> QED
        BY ONLY <2>1, <3>1, <3>2
    <2>3. applied[b] + Cardinality(Queued(b)) <= call[b].try
      BY <1>1 DEF Effects, CallOK, Sent
    <2>4. applied'[b] + Cardinality(Queued(b)') <= Sent(b)'
      BY <1>1, <1>2, <1>4, <2>2, <2>3 DEF Sent
    <2> QED
      BY <1>4, <2>4 DEF CallOK, Told
  <1>9. ASSUME NEW h \in handlers PROVE HandlerOK(h)'
    <2>1. HandlerOK(h) /\ h.caller \in Callers /\ h.try \in Nat
      BY <1>2, BoundsAreNat DEF Effects, Handlers
    <2>2. CASE h.caller # b
      <3>1. Void(h.caller) => Void(h.caller)'
        BY <1>1, <1>3, <1>7, <2>1, <2>2 DEF Void
      <3> QED
        BY <1>1, <1>3, <2>1, <2>2, <3>1 DEF HandlerOK
    <2>3. CASE h.caller = b /\ h.seq = call[b].seq
      <3>1. h.try < call[b].try /\ call[b].try # 0
        BY <1>1, <1>2, <2>1, <2>3 DEF HandlerOK
      <3>2. Void(b)'
        BY <1>4, <3>1 DEF Void
      <3> QED
        BY <1>1, <1>4, <2>1, <2>3, <3>1, <3>2 DEF HandlerOK
    <2>4. CASE h.caller = b /\ h.seq # call[b].seq
      BY <1>4, <2>1, <2>4 DEF HandlerOK
    <2> QED
      BY <2>2, <2>3, <2>4
  <1>10. HandlerOK(h0)'
    <2>1. call[b].seq \in Nat /\ call[b].try \in Nat
      BY <1>2
    <2>2. call[b].seq <= call[b].seq /\ call[b].try <= call[b].try
      BY <2>1
    <2> QED
      BY <1>4, <1>5, <2>2 DEF HandlerOK
  <1>11. \A c \in Callers : CallOK(c)'
    BY <1>7, <1>8
  <1>12. \A h \in handlers' : HandlerOK(h)'
    BY <1>1, <1>9, <1>10
  <1> QED
    BY <1>6, <1>11, <1>12 DEF Effects

LEMMA CallEffects ==
    ASSUME Effects, Types', NEW b \in Callers, NEW r \in Requests, Call(b, r)
    PROVE  Effects'
  <1> DEFINE k == [pc |-> IF open THEN "attempt" ELSE "done", seq |-> call[b].seq + 1,
                   try |-> 0, req |-> r, code |-> "not connected", gone |-> FALSE]
  <1>1. /\ call' = [call EXCEPT ![b] = k] /\ handlers' = handlers /\ unsaved' = unsaved
        /\ applied' = [applied EXCEPT ![b] = 0]
    BY DEF Call, engineVars, fileVars
  <1>2. /\ call \in [Callers -> Calls] /\ applied \in [Callers -> Nat] /\ handlers \subseteq Handlers
        /\ call[b].seq \in Nat
    BY BoundsAreNat DEF Effects, Types, TypeOK, Calls
  <1>3. k.seq = call[b].seq + 1 /\ k.try = 0 /\ k.code = "not connected" /\ k.pc \in {"attempt", "done"}
    OBVIOUS
  <1> HIDE DEF k
  <1>4. /\ call'[b] = k /\ applied'[b] = 0
        /\ \A c \in Callers \ {b} : call'[c] = call[c] /\ applied'[c] = applied[c]
    BY <1>1, <1>2
  <1>5. \A h \in handlers : h.caller = b => h.seq < k.seq
    <2> SUFFICES ASSUME NEW h \in handlers, h.caller = b PROVE h.seq < k.seq
      OBVIOUS
    <2>1. h.seq \in Nat /\ h.seq <= call[b].seq
      BY <1>2, BoundsAreNat DEF Effects, HandlerOK, Handlers
    <2> QED
      <3>1. k.seq = call[b].seq + 1 /\ call[b].seq \in Nat
        BY <1>2, <1>3
      <3> QED
        BY ONLY <2>1, <3>1
  <1>6. Queued(b)' = {}
    <2> SUFFICES ASSUME NEW h \in Queued(b)' PROVE FALSE
      OBVIOUS
    <2>1. h \in handlers /\ h.caller = b /\ h.seq = k.seq
      BY <1>1, <1>4 DEF Queued
    <2>2. h.seq \in Nat /\ k.seq \in Nat
      <3>1. h \in Handlers /\ MaxCalls \in Nat
        BY <1>2, <2>1, BoundsAreNat
      <3>2. h.seq \in Nat
        BY <3>1 DEF Handlers
      <3> QED
        BY <2>1, <3>2
    <2>3. h.seq < k.seq
      BY <1>5, <2>1
    <2> QED
      BY ONLY <2>1, <2>2, <2>3
  <1>7. CallOK(b)'
    <2>1. applied'[b] + Cardinality(Queued(b)') = 0
      BY <1>4, <1>6, FS_EmptySet
    <2>2. Sent(b)' \in {0, 1}
      <3>1. call'[b].try = 0
        BY <1>3, <1>4
      <3>2. Sent(b)' = call'[b].try \/ Sent(b)' = call'[b].try + 1
        BY DEF Sent
      <3> QED
        BY ONLY <3>1, <3>2
    <2>3. Told(b)'
      BY <1>3, <1>4 DEF Told
    <2> QED
      BY <2>1, <2>2, <2>3 DEF CallOK
  <1>8. \A c \in Callers \ {b} : Queued(c)' = Queued(c)
    BY <1>1, <1>4 DEF Queued
  <1>9. \A c \in Callers \ {b} : CallOK(c)'
    BY <1>1, <1>4, <1>8 DEF Effects, CallOK, Sent, Told, Void
  <1>10. ASSUME NEW h \in handlers PROVE HandlerOK(h)'
    <2>1. HandlerOK(h) /\ h.caller \in Callers /\ h.seq \in Nat
      BY <1>2, BoundsAreNat DEF Effects, Handlers
    <2>2. CASE h.caller = b
      <3>1. h.seq < k.seq /\ k.seq \in Nat
        <4>1. h.seq < k.seq
          BY <1>5, <2>2
        <4>2. k.seq \in Nat
          <5>1. k.seq = call[b].seq + 1 /\ call[b].seq \in Nat
            BY <1>2, <1>3
          <5> QED
            BY ONLY <5>1
        <4> QED
          BY <4>1, <4>2
      <3>2. h.seq <= k.seq /\ h.seq # k.seq
        BY <2>1, <3>1
      <3> QED
        BY <1>4, <2>1, <2>2, <3>2 DEF HandlerOK
    <2>3. CASE h.caller # b
      BY <1>1, <1>4, <1>8, <2>1, <2>3 DEF HandlerOK, Void
    <2> QED
      BY <2>2, <2>3
  <1>11. IsFiniteSet(handlers')
    BY <1>1 DEF Effects
  <1> QED
    BY <1>1, <1>7, <1>9, <1>10, <1>11 DEF Effects

\* A handler that goes on: to answer something that is not "ok" without an effect, or with one.
\* An answer that refuses a first attempt finds that nothing was done.
Goes(h, pc, code) ==
    /\ Becomes(h, pc, code) /\ pc # "queued" /\ UNCHANGED call
    /\ unsaved => unsaved'
    /\ pc = "reread" => code = "ok"
    /\ \/ h.pc = "queued" /\ Count(h) /\ (code = "InvalidArgument" => unsaved')
       \/ /\ UNCHANGED applied
          /\ h.req.op \in Effectful /\ code = "ok" => h.pc # "queued" /\ h.code = "ok"
          /\ code = "InvalidArgument" => h.pc = "queued"

LEMMA GoesEffects ==
    ASSUME Effects, Types', NEW h \in handlers, NEW pc, NEW code, Goes(h, pc, code)
    PROVE  Effects'
  <1> DEFINE g == [h EXCEPT !.pc = pc, !.code = code]
  <1> DEFINE b == h.caller
  <1>1. /\ handlers' = (handlers \ {h}) \union {g} /\ call' = call /\ pc # "queued"
        /\ IsFiniteSet(handlers) /\ handlers \subseteq Handlers /\ h \in Handlers
    BY DEF Goes, Becomes, Effects, Types, TypeOK
  <1>2. /\ applied \in [Callers -> Nat] /\ b \in Callers
        /\ \A c \in Callers : call[c].try \in Nat
    BY <1>1, BoundsAreNat DEF Effects, Types, TypeOK, Handlers, Calls
  <1>3. /\ g.caller = b /\ g.seq = h.seq /\ g.try = h.try /\ g.req = h.req /\ g.pc = pc /\ g.code = code
    BY <1>1 DEF Handlers
  <1> HIDE DEF g, b
  <1>4. IsFiniteSet(handlers')
    BY <1>1, FS_RemoveElement, FS_AddElement
  <1>5. \A c \in Callers : Queued(c)' = Queued(c) \ {h}
    BY <1>1, <1>3 DEF Queued
  <1>6. \A c \in Callers : Cardinality(Queued(c)) \in Nat
          /\ Cardinality(Queued(c)') = Cardinality(Queued(c)) - IF h \in Queued(c) THEN 1 ELSE 0
    BY <1>1, <1>5, QueuedFinite, FS_RemoveElement
  <1>7. /\ \A c \in Callers \ {b} : applied'[c] = applied[c]
        /\ \/ applied'[b] = applied[b]
           \/ applied'[b] = applied[b] + 1 /\ h \in Queued(b)
    <2>1. CASE UNCHANGED applied
      BY <2>1
    <2>2. CASE h.pc = "queued" /\ Count(h)
      <3>1. applied' = [applied EXCEPT ![b] = IF h.seq = call[b].seq THEN @ + 1 ELSE @]
        BY <2>2 DEF Count, b
      <3>2. applied'[b] = IF h.seq = call[b].seq THEN applied[b] + 1 ELSE applied[b]
        BY <1>2, <3>1
      <3>3. h.seq = call[b].seq => h \in Queued(b)
        BY <2>2 DEF Queued, b
      <3> QED
        BY <1>2, <3>1, <3>2, <3>3
    <2> QED
      BY <2>1, <2>2 DEF Goes
  <1>8. ASSUME NEW c \in Callers PROVE applied'[c] + Cardinality(Queued(c)') <= Sent(c)' /\ applied'[c] >= applied[c]
    <2>1. applied[c] + Cardinality(Queued(c)) <= Sent(c) /\ applied[c] \in Nat /\ Sent(c)' = Sent(c)
      BY <1>1, <1>2 DEF Effects, CallOK, Sent
    <2>2. Sent(c) \in Nat
      BY <1>2 DEF Sent
    <2>3. applied'[c] = applied[c] \/ (applied'[c] = applied[c] + 1 /\ h \in Queued(c))
      BY <1>7
    <2> QED
      BY <1>6, <2>1, <2>2, <2>3
  <1>9. ASSUME NEW c \in Callers, Void(c) PROVE Void(c)'
    <2> SUFFICES ASSUME call[c].try = 0, ~unsaved' PROVE applied'[c] = 0 /\ Queued(c)' = {}
      BY <1>1 DEF Void
    <2>1. ~unsaved
      BY DEF Goes
    <2>2. applied[c] = 0 /\ Queued(c) = {}
      BY <1>9, <2>1 DEF Void
    <2> QED
      BY <1>5, <1>7, <2>2
  <1>10. \A c \in Callers : CallOK(c)'
    <2> SUFFICES ASSUME NEW c \in Callers PROVE Told(c)'
      BY <1>8 DEF CallOK
    <2>1. Told(c) /\ applied[c] \in Nat /\ applied'[c] \in Nat /\ applied'[c] >= applied[c]
      BY <1>2, <1>8 DEF Effects, CallOK, Types, TypeOK
    <2> QED
      BY <1>1, <1>9, <2>1 DEF Told
  <1>11. ASSUME NEW x \in handlers PROVE HandlerOK(x)'
    <2>1. HandlerOK(x) /\ x.caller \in Callers
      BY <1>1 DEF Effects, Handlers
    <2>2. applied[x.caller] \in Nat /\ applied'[x.caller] \in Nat /\ applied'[x.caller] >= applied[x.caller]
      BY <1>2, <1>8, <2>1 DEF Effects, Types, TypeOK
    <2> QED
      BY <1>1, <1>9, <2>1, <2>2 DEF HandlerOK
  <1>12. HandlerOK(g)'
    <2>1. HandlerOK(h)
      BY DEF Effects
    <2>2. CASE h.seq # call[b].seq
      BY <1>1, <1>3, <2>1, <2>2 DEF HandlerOK, b, Goes
    <2>3. CASE h.seq = call[b].seq
      <3>1. h.req.op \in Effectful /\ code = "ok" => applied'[b] >= 1
        <4>1. CASE h.pc = "queued" /\ Count(h)
          <5>1. applied'[b] = applied[b] + 1 /\ applied[b] \in Nat
            BY <1>2, <2>3, <4>1 DEF Count, b
          <5> QED
            BY <5>1
        <4>2. CASE ~(h.pc = "queued" /\ Count(h))
          BY <2>1, <2>3, <4>2 DEF Goes, HandlerOK, b
        <4> QED
          BY <4>1, <4>2
      <3>2. code = "InvalidArgument" => Void(b)'
        <4> SUFFICES ASSUME code = "InvalidArgument", call[b].try = 0, ~unsaved' PROVE applied'[b] = 0 /\ Queued(b)' = {}
          BY <1>1 DEF Void
        <4>1. h.pc = "queued" /\ UNCHANGED applied /\ h \in Queued(b)
          BY <2>3 DEF Goes, Queued, b
        <4>2. applied[b] + Cardinality(Queued(b)) <= 1 /\ applied[b] \in Nat
          <5>1. call[b].try = 0 /\ CallOK(b) /\ applied[b] \in Nat
            BY <1>2 DEF Effects
          <5>2. Sent(b) \in {0, 1}
            <6>1. Sent(b) = call[b].try \/ Sent(b) = call[b].try + 1
              BY DEF Sent
            <6> QED
              BY ONLY <5>1, <6>1
          <5>3. Cardinality(Queued(b)) \in Nat
            BY <1>2, <1>6
          <5> QED
            BY <5>1, <5>2, <5>3 DEF CallOK
        <4>5. Cardinality(Queued(b)) \in Nat /\ Cardinality(Queued(b)') = Cardinality(Queued(b)) - 1
              /\ Cardinality(Queued(b)') \in Nat
          <5>1. IsFiniteSet(Queued(b)) /\ Queued(b)' = Queued(b) \ {h}
            BY <1>1, <1>2, <1>5, QueuedFinite
          <5>2. IsFiniteSet(Queued(b) \ {h})
            BY <5>1, FS_RemoveElement
          <5>3. Cardinality(Queued(b) \ {h}) \in Nat
            BY <5>2, FS_CardinalityType
          <5> QED
            BY <1>2, <1>6, <4>1, <5>1, <5>3
        <4>3. applied[b] = 0 /\ Cardinality(Queued(b)') = 0
          BY <1>2, <1>6, <4>1, <4>2, <4>5
        <4>4. IsFiniteSet(Queued(b)')
          BY <1>4, FS_Subset DEF Queued
        <4> QED
          BY <4>1, <4>3, <4>4, FS_EmptySet
      <3> QED
        BY <1>1, <1>3, <2>1, <2>3, <3>1, <3>2 DEF HandlerOK, b, Goes
    <2> QED
      BY <2>2, <2>3
  <1> QED
    BY <1>1, <1>4, <1>10, <1>11, <1>12 DEF Effects

LEMMA ServiceGoes ==
    ASSUME Effects, NEW h \in handlers,
           Refuse(h) \/ Serve(h) \/ SaveFails(h) \/ Reread(h) \/ Elsewhere(h) \/ LoadFile(h) \/ LoadStorage(h)
             \/ Restore(h)
             \/ NoSuchBackup(h) \/ Inert(h) \/ Shutdown(h)
    PROVE  \E pc, code : Goes(h, pc, code)
  <1>1. HandlerOK(h) /\ h.req \in Requests /\ h.pc \in {"queued", "reread", "answer"}
    BY DEF Effects, Types, TypeOK, Handlers
  <1>2. CASE Refuse(h)
    <2>1. RefusalCode(h.req) # "ok"
      BY DEF RefusalCode
    <2>2. Goes(h, "answer", RefusalCode(h.req))
      BY <1>2, <2>1 DEF Refuse, Goes, engineVars, fileVars, observerVars
    <2> QED
      BY <2>2
  <1>3. CASE Serve(h)
    <2>1. Goes(h, IF h.req.op \in Answered THEN "reread" ELSE "answer", "ok")
      BY <1>3 DEF Serve, Save, Goes
    <2> QED
      BY <2>1
  <1>4. CASE SaveFails(h)
    <2>1. Goes(h, "answer", SaveErrorCode(h.req))
      BY <1>4 DEF SaveFails, CannotSave, Goes
    <2> QED
      BY <2>1
  <1>5. CASE Reread(h)
    <2>1. h.code = "ok" /\ GoneCode(h.req) # "InvalidArgument"
      BY <1>1, <1>5 DEF Reread, HandlerOK, GoneCode
    <2>2. Goes(h, "answer", IF mem[h.req.name] = NoServer THEN GoneCode(h.req) ELSE "ok")
      BY <1>5, <2>1 DEF Reread, Goes, engineVars, fileVars, observerVars
    <2> QED
      BY <2>2
  <1>6. CASE Elsewhere(h)
    <2>1. Goes(h, "answer", "ok") \/ Goes(h, "answer", "Internal")
      BY <1>6 DEF Elsewhere, Goes
    <2> QED
      BY <2>1
  <1>10. CASE LoadFile(h) \/ LoadStorage(h)
    <2>1. Goes(h, "answer", "ok") \/ Goes(h, "answer", "Internal")
      BY <1>10 DEF LoadFile, LoadStorage, Load, Goes
    <2> QED
      BY <2>1
  <1>7. CASE Restore(h) \/ NoSuchBackup(h)
    <2>1. Goes(h, "answer", "ok") \/ Goes(h, "answer", "Internal")
      BY <1>7 DEF Restore, Save, CannotSave, NoSuchBackup, Goes, engineVars, fileVars, observerVars
    <2> QED
      BY <2>1
  <1>8. CASE Inert(h)
    <2>1. h.req.op \in Reading => h.req.op \notin Effectful
      BY DEF Reading, Effectful, Saving, Carrying, Naming
    <2>2. Goes(h, "answer", IF h.req.op \in Reading THEN "ok" ELSE "Unimplemented")
      BY <1>8, <2>1 DEF Inert, Goes, engineVars, fileVars, observerVars
    <2> QED
      BY <2>2
  <1>9. CASE Shutdown(h)
    <2>1. Goes(h, "answer", "ok")
      BY <1>9 DEF Shutdown, Goes, engineVars, fileVars
    <2> QED
      BY <2>1
  <1> QED
    BY <1>2, <1>3, <1>4, <1>5, <1>6, <1>7, <1>8, <1>9, <1>10

LEMMA EffectsInit == Init => Effects
  <1> SUFFICES ASSUME Init PROVE Effects
    OBVIOUS
  <1>1. Types
    BY InitTypes
  <1>2. handlers = {} /\ IsFiniteSet(handlers)
    BY FS_EmptySet DEF Init
  <1>3. ASSUME NEW c \in Callers PROVE CallOK(c)
    <2>1. Queued(c) = {} /\ applied[c] = 0 /\ call[c].try = 0 /\ call[c].code = "not connected"
      BY <1>2 DEF Queued, Init
    <2>2. Cardinality(Queued(c)) = 0
      BY <2>1, FS_EmptySet
    <2>3. Sent(c) = call[c].try \/ Sent(c) = call[c].try + 1
      BY DEF Sent
    <2>4. applied[c] = 0 /\ call[c].try = 0
      BY <2>1
    <2>5. applied[c] + Cardinality(Queued(c)) <= Sent(c)
      BY ONLY <2>2, <2>3, <2>4
    <2> QED
      BY <2>1, <2>5 DEF CallOK, Told
  <1> QED
    BY <1>1, <1>2, <1>3 DEF Effects

LEMMA EffectsNext == Effects /\ [Next]_vars => Effects'
  <1> SUFFICES ASSUME Effects, [Next]_vars PROVE Effects'
    OBVIOUS
  <1>1. Types'
    BY TypesNext DEF Effects
  <1>2. CASE UNCHANGED vars
    <2>1. handlers' \subseteq handlers /\ UNCHANGED <<call, applied, unsaved>> /\ Types
      BY <1>2 DEF vars, Effects
    <2> QED
      BY <1>1, <2>1, StandStill, EffectsMove
  <1>3. CASE Moving
    BY <1>1, <1>3, MovingMoves, EffectsMove
  <1>4. CASE \E c \in Callers : Send(c) \/ \E r \in Requests : Call(c, r)
    BY <1>1, <1>4, SendEffects, CallEffects
  <1>5. CASE \E h \in handlers : Refuse(h) \/ Serve(h) \/ SaveFails(h) \/ Reread(h) \/ Elsewhere(h)
               \/ LoadFile(h) \/ LoadStorage(h) \/ Restore(h) \/ NoSuchBackup(h) \/ Inert(h) \/ Shutdown(h)
    BY <1>1, <1>5, ServiceGoes, GoesEffects
  <1> QED
    BY <1>2, <1>3, <1>4, <1>5 DEF Next, Moving, ClientStep, HandlerStep

\* What a caller is told agrees with what its call did, for any callers, retries and losses
\* (client.go withRetry, service.go's error codes).
THEOREM AnswersAgree == Spec => []AnswersMatchEffects
  <1>1. Effects => AnswersMatchEffects
    <2> SUFFICES ASSUME Effects, NEW c \in Callers
                 PROVE  /\ applied[c] <= call[c].try + 1
                        /\ call[c].pc = "done" /\ call[c].code = "ok" /\ call[c].req.op \in Effectful => applied[c] >= 1
                        /\ call[c].pc = "done" /\ call[c].code = "InvalidArgument" /\ call[c].try = 0 /\ ~unsaved
                             => applied[c] = 0
      BY DEF AnswersMatchEffects
    <2>1. CallOK(c) /\ applied[c] \in Nat /\ call[c].try \in Nat
      BY BoundsAreNat DEF Effects, Types, TypeOK, Calls
    <2>2. Cardinality(Queued(c)) \in Nat
      BY QueuedFinite DEF Effects
    <2>3. applied[c] <= call[c].try + 1
      BY <2>1, <2>2 DEF CallOK, Sent
    <2> QED
      BY <2>1, <2>3 DEF CallOK, Told, Void
  <1> QED
    BY <1>1, EffectsInit, EffectsNext, PTL DEF Spec

-----------------------------------------------------------------------------
(* The order of a caller's own calls.  Whoever may still change a server is *)
(* among the ones who asked, so that what a sole writer's call has left     *)
(* there stays until the writer's next one.                                *)

Asked ==
    /\ \A h \in handlers : \A n \in Touched(h.req) : h.caller \in writers[n]
    /\ \A c \in Callers : call[c].pc # "done" => \A n \in Touched(call[c].req) : c \in writers[n]

\* no attempt of an older call is left
Fresh(c) == clean[c] => \A h \in handlers : h.caller = c => h.seq = call[c].seq

\* the calls that SessionOrder is about
Alone(c) ==
    /\ clean[c] /\ ~lost
    /\ call[c].req.op \in Saving \ {"save"} /\ writers[call[c].req.name] = {c}

CarriedOut(h) == h.pc = "reread" \/ (h.pc = "answer" /\ h.code = "ok")
Succeeded(c)  == call[c].pc = "done" /\ call[c].code = "ok"

\* an attempt that was carried out, and a call that was answered, find what they asked for
Stands(c) ==
    Alone(c) /\ (Succeeded(c) \/ \E h \in handlers : h.caller = c /\ CarriedOut(h))
      => Holds(call[c].req, mem[call[c].req.name])

\* The file that a process saves to has what the memory has, but for what `behind` says;
\* and what the next process will read has it, but for what `lost` says.
Filed ==
    /\ ~behind => disk[Where(path)] = mem
    /\ up = "down" => handlers = {}
    /\ up = "down" /\ ~lost => ~behind /\ Where(path) = "own"

Session ==
    /\ Effects /\ Filed /\ Asked
    /\ \A c \in Callers : Fresh(c) /\ Stands(c)

\* How c's call goes on without the daemon: it does not succeed, unless an attempt that
\* was carried out is answered, or the call changes nothing.
Proceeds(c) ==
    /\ call'[c].seq = call[c].seq /\ call'[c].req = call[c].req
    /\ call'[c].pc # "done" => call[c].pc # "done"
    /\ call'[c].pc = "done" /\ call'[c].code = "ok"
         => \/ Succeeded(c) \/ call[c].req.op \notin Saving
            \/ \E h \in handlers : h.caller = c /\ CarriedOut(h)

LEMMA SessionMove ==
    ASSUME Session, Effects', handlers' \subseteq handlers, UNCHANGED <<clean, writers>>, Filed',
           lost => lost', ~lost' => UNCHANGED mem, \A c \in Callers : Proceeds(c)
    PROVE  Session'
  <1>1. Asked'
    BY DEF Session, Asked, Proceeds
  <1>2. ASSUME NEW c \in Callers PROVE Fresh(c)' /\ Stands(c)'
    <2>1. Fresh(c) /\ Stands(c) /\ Proceeds(c)
      BY DEF Session
    <2>2. Alone(c)' => Alone(c) /\ UNCHANGED mem
      BY <2>1 DEF Alone, Proceeds
    <2>3. Fresh(c)'
      BY <2>1 DEF Fresh, Proceeds
    <2>4. ASSUME Alone(c)', Succeeded(c)' \/ \E h \in handlers' : h.caller = c /\ CarriedOut(h)
          PROVE  Succeeded(c) \/ \E h \in handlers : h.caller = c /\ CarriedOut(h)
      BY <2>1, <2>2, <2>4 DEF Proceeds, Succeeded, CarriedOut, Alone
    <2> QED
      BY <2>1, <2>2, <2>3, <2>4 DEF Stands, Proceeds, CarriedOut
  <1> QED
    BY <1>1, <1>2 DEF Session

LEMMA FailingProceeds ==
    ASSUME Types, NEW c \in Callers, NEW code \in Codes, code # "ok", call[c].pc # "done",
           call'[c] = Failing(call[c], code)
    PROVE  Proceeds(c)
  <1>1. call[c] \in Calls
    BY DEF Types, TypeOK
  <1> QED
    BY <1>1, FailingMoves DEF Proceeds

LEMMA StillProceeds == ASSUME NEW c \in Callers, call'[c] = call[c] PROVE Proceeds(c)
  BY DEF Proceeds, Succeeded

LEMMA MovingProceeds ==
    ASSUME Session, Moving
    PROVE  /\ \A c \in Callers : Proceeds(c)
           /\ handlers' \subseteq handlers /\ UNCHANGED <<clean, writers>>
           /\ Filed' /\ (lost => lost') /\ (~lost' => UNCHANGED mem)
  <1>1. /\ Types /\ call \in [Callers -> Calls]
        /\ {"Canceled", "Unavailable", "DeadlineExceeded"} \subseteq Codes
    BY DEF Session, Effects, Types, TypeOK, Codes
  <1>2. handlers' \subseteq handlers /\ UNCHANGED <<clean, writers>>
    BY DEF Session, Moving, Close, Connect, Crash, CrashSaving, Stopped, Die, Start, NilStub,
       NotSent, Subscribe,
       Abandon, BackoffOver, Cancel, Answer, Lose, engineVars, fileVars, observerVars
  <1>9. Filed' /\ (lost => lost') /\ (~lost' => UNCHANGED mem)
    <2>1. Filed /\ mem \in Registry /\ lost \in BOOLEAN /\ behind \in BOOLEAN
      BY DEF Session, Effects, Types, TypeOK
    <2>2. CASE Crash \/ Stopped
      <3>1. lost' = (lost \/ behind \/ path = "other") /\ UNCHANGED <<mem, path, disk, behind>>
            /\ handlers' = {}
        BY <2>2 DEF Crash, Stopped, Die
      <3>2. (lost => lost') /\ (~lost' => ~behind /\ path # "other")
        BY <3>1
      <3> QED
        BY <2>1, <3>1, <3>2 DEF Filed, Where
    <2>3. CASE \E h \in handlers : CrashSaving(h)
      <3>1. lost' /\ behind' /\ handlers' = {} /\ UNCHANGED <<mem, path>>
        BY <2>3 DEF CrashSaving, Die
      <3>2. PICK h \in handlers : CrashSaving(h)
        BY <2>3
      <3> QED
        BY <2>1, <3>1, <3>2 DEF Filed, CrashSaving
    <2>4. CASE Start
      BY <2>1, <2>4 DEF Filed, Start, Where
    <2>5. CASE UNCHANGED <<mem, fileVars, up>>
      BY <1>2, <2>1, <2>5 DEF Filed, fileVars
    <2> QED
      BY <2>2, <2>3, <2>4, <2>5 DEF Moving, Close, Connect, NilStub, NotSent, Subscribe,
         Abandon, BackoffOver, Cancel, Answer, Lose, engineVars
  <1>3. CASE Close \/ Crash \/ Stopped \/ \E h \in handlers : CrashSaving(h)
    <2>1. PICK code \in {"Canceled", "Unavailable"} : call' = Cut(code)
      BY <1>3 DEF Close, Crash, CrashSaving, Stopped, Die
    <2>2. \A c \in Callers : call'[c] = IF call[c].pc = "wait" THEN Failing(call[c], code) ELSE call[c]
      BY <2>1 DEF Cut
    <2> QED
      BY <1>1, <1>2, <1>9, <2>1, <2>2, FailingProceeds, StillProceeds
  <1>4. CASE Connect \/ Start \/ \E c \in Callers : NilStub(c)
    BY <1>2, <1>4, <1>9, StillProceeds DEF Connect, Start, NilStub
  <1>5. ASSUME NEW b \in Callers, NotSent(b) \/ Abandon(b) PROVE \A c \in Callers : Proceeds(c)
    <2>1. PICK code \in {"Canceled", "Unavailable", "DeadlineExceeded"} : call' = WithError(b, code)
      BY <1>5 DEF NotSent, Abandon
    <2>2. call'[b] = Failing(call[b], code) /\ \A c \in Callers \ {b} : call'[c] = call[c]
      BY <1>1, <2>1 DEF WithError
    <2>3. call[b].pc # "done"
      BY <1>5 DEF NotSent, Abandon
    <2> QED
      BY <1>1, <2>1, <2>2, <2>3, FailingProceeds, StillProceeds
  <1>6. ASSUME NEW b \in Callers, Subscribe(b) \/ BackoffOver(b) \/ Cancel(b)
        PROVE  \A c \in Callers : Proceeds(c)
    <2>1. call[b] \in Calls /\ call[b].pc # "done" /\ \A c \in Callers \ {b} : call'[c] = call[c]
      BY <1>1, <1>6 DEF Subscribe, BackoffOver, Cancel
    <2>2. CASE Subscribe(b)
      <3>1. call'[b] = [call[b] EXCEPT !.pc = "done", !.code = "ok"] /\ call[b].req.op = "subscribe"
        BY <1>1, <2>2 DEF Subscribe
      <3>2. "subscribe" \notin Saving
        BY DEF Saving, Carrying, Naming
      <3>3. call'[b].seq = call[b].seq /\ call'[b].req = call[b].req /\ call'[b].pc = "done"
        BY <2>1, <3>1 DEF Calls
      <3>4. Proceeds(b)
        BY <3>1, <3>2, <3>3 DEF Proceeds
      <3> QED
        BY <2>1, <3>4, StillProceeds
    <2>3. CASE BackoffOver(b)
      <3>1. \/ call'[b] = [call[b] EXCEPT !.pc = "attempt", !.try = @ + 1]
            \/ call'[b] = [call[b] EXCEPT !.pc = "done", !.code = "Canceled"]
        BY <1>1, <2>3 DEF BackoffOver
      <3> QED
        BY <2>1, <3>1, StillProceeds DEF Proceeds, Calls
    <2>4. CASE Cancel(b)
      <3>1. CASE call[b].pc # "wait"
        <4>1. call'[b] = [call[b] EXCEPT !.gone = TRUE]
          BY <1>1, <2>4, <3>1 DEF Cancel
        <4> QED
          BY <2>1, <4>1, StillProceeds DEF Proceeds, Calls
      <3>2. CASE call[b].pc = "wait"
        <4> DEFINE f == Failing(call[b], "Canceled")
        <4>1. call'[b] = [f EXCEPT !.gone = TRUE]
          BY <1>1, <2>4, <3>2 DEF Cancel
        <4>2. /\ f.seq = call[b].seq /\ f.req = call[b].req /\ f \in Calls
              /\ \/ f.pc = "backoff"
                 \/ f.pc = "done" /\ f.code = "Canceled"
          BY <1>1, <2>1, FailingMoves, FailingTypes
        <4> HIDE DEF f
        <4>3. /\ call'[b].seq = f.seq /\ call'[b].req = f.req /\ call'[b].pc = f.pc /\ call'[b].code = f.code
          BY <4>1, <4>2 DEF Calls
        <4> QED
          BY <2>1, <4>2, <4>3, StillProceeds DEF Proceeds
      <3> QED
        BY <3>1, <3>2
    <2> QED
      BY <1>6, <2>2, <2>3, <2>4
  <1>7. ASSUME NEW h \in handlers, Lose(h) PROVE \A c \in Callers : Proceeds(c)
    BY <1>7, StillProceeds DEF Lose
  <1>8. ASSUME NEW h \in handlers, Answer(h) PROVE \A c \in Callers : Proceeds(c)
    <2> DEFINE b == h.caller
    <2>1. b \in Callers /\ h.code \in Codes /\ h.pc = "answer"
      BY <1>1, <1>8 DEF Types, TypeOK, Handlers, Answer
    <2>2. CASE UNCHANGED call
      BY <2>2, StillProceeds
    <2>3. CASE call[b].pc = "wait" /\ h.code # "ok" /\ call' = WithError(b, h.code)
      <3>1. call'[b] = Failing(call[b], h.code) /\ \A c \in Callers \ {b} : call'[c] = call[c]
        BY <1>1, <2>1, <2>3 DEF WithError
      <3> QED
        BY <1>1, <2>1, <2>3, <3>1, FailingProceeds, StillProceeds
    <2>4. CASE /\ call[b].pc = "wait" /\ h.code = "ok"
               /\ call' = [call EXCEPT ![b].pc = "done", ![b].code = "ok"]
      <3>1. call'[b] = [call[b] EXCEPT !.pc = "done", !.code = "ok"] /\ \A c \in Callers \ {b} : call'[c] = call[c]
        BY <1>1, <2>1, <2>4
      <3>2. call[b] \in Calls /\ CarriedOut(h)
        BY <1>1, <2>1, <2>4 DEF CarriedOut
      <3>4. call'[b].seq = call[b].seq /\ call'[b].req = call[b].req /\ call'[b].pc = "done"
        BY <3>1, <3>2 DEF Calls
      <3>3. Proceeds(b)
        BY <2>1, <3>2, <3>4 DEF Proceeds
      <3> QED
        BY <3>1, <3>3, StillProceeds
    <2> QED
      BY <1>8, <2>2, <2>3, <2>4 DEF Answer
  <1> QED
    BY <1>2, <1>3, <1>4, <1>5, <1>6, <1>7, <1>8, <1>9 DEF Moving

LEMMA SendSession ==
    ASSUME Session, Effects', NEW b \in Callers, Send(b)
    PROVE  Session'
  <1>0. PICK h0 : h0 = [caller |-> b, seq |-> call[b].seq, try |-> call[b].try, req |-> call[b].req,
                        pc |-> "queued", code |-> "ok"]
    OBVIOUS
  <1>1. /\ call[b].pc = "attempt" /\ handlers' = handlers \union {h0}
        /\ UNCHANGED <<mem, fileVars, up, clean, writers>> /\ up # "down"
        /\ call' = [call EXCEPT ![b].pc = "wait"]
    BY <1>0 DEF Send, engineVars, fileVars, observerVars
  <1>2. call \in [Callers -> Calls] /\ call[b] \in Calls
    BY DEF Session, Effects, Types, TypeOK
  <1>3. /\ call'[b].pc = "wait" /\ \A c \in Callers \ {b} : call'[c] = call[c]
        /\ \A c \in Callers : call'[c].seq = call[c].seq /\ call'[c].req = call[c].req
    BY <1>1, <1>2 DEF Calls
  <1>4. h0.caller = b /\ h0.seq = call[b].seq /\ h0.req = call[b].req /\ ~CarriedOut(h0)
    BY <1>0 DEF CarriedOut
  <1>5. Asked'
    BY <1>1, <1>3, <1>4 DEF Session, Asked
  <1>6. ASSUME NEW c \in Callers PROVE Fresh(c)' /\ Stands(c)'
    <2>1. Fresh(c) /\ Stands(c)
      BY DEF Session
    <2>2. Fresh(c)'
      BY <1>1, <1>3, <1>4, <2>1 DEF Fresh
    <2>3. Alone(c)' = Alone(c) /\ (Succeeded(c)' => Succeeded(c))
      BY <1>1, <1>3 DEF Alone, Succeeded, fileVars
    <2>4. ASSUME NEW h \in handlers', h.caller = c, CarriedOut(h) PROVE h \in handlers
      BY <1>1, <1>4, <2>4
    <2> QED
      BY <1>1, <1>3, <2>1, <2>2, <2>3, <2>4 DEF Stands, CarriedOut
  <1>7. Filed'
    BY <1>1 DEF Session, Filed, fileVars
  <1> QED
    BY <1>5, <1>6, <1>7 DEF Session

LEMMA CallSession ==
    ASSUME Session, Effects', NEW b \in Callers, NEW r \in Requests, Call(b, r)
    PROVE  Session'
  <1>1. /\ handlers' = handlers /\ UNCHANGED <<mem, path, disk, behind, lost, up>>
        /\ clean' = [clean EXCEPT ![b] = \A h \in handlers : h.caller # b]
        /\ writers' = [n \in Names |-> IF n \in Touched(r) THEN writers[n] \union {b} ELSE writers[n]]
    BY DEF Call, engineVars, fileVars
  <1>2. /\ call \in [Callers -> Calls] /\ clean \in [Callers -> BOOLEAN]
        /\ writers \in [Names -> SUBSET Callers] /\ handlers \subseteq Handlers
    BY DEF Session, Effects, Types, TypeOK
  <1>3. /\ call'[b].req = r /\ call'[b].code = "not connected"
        /\ \A c \in Callers \ {b} : call'[c] = call[c]
    BY <1>2 DEF Call
  <1>4. \A q \in Requests : Touched(q) \subseteq Names
    BY RequestTypes DEF Touched
  <1>5. Asked'
    <2>1. \A h \in handlers : h.req \in Requests
      BY <1>2 DEF Handlers
    <2>2. \A n \in Names : writers[n] \subseteq writers'[n] /\ (n \in Touched(r) => b \in writers'[n])
      BY <1>1
    <2>3. \A c \in Callers : call[c].req \in Requests
      BY <1>2 DEF Calls
    <2> QED
      BY <1>1, <1>3, <1>4, <2>1, <2>2, <2>3 DEF Session, Asked
  <1>6. ASSUME NEW c \in Callers \ {b} PROVE Fresh(c)' /\ Stands(c)'
    <2>1. Fresh(c) /\ Stands(c) /\ call'[c] = call[c] /\ clean'[c] = clean[c]
      BY <1>1, <1>2, <1>3 DEF Session
    <2>2. call[c].req.name \in Names
      BY <1>2, RequestTypes DEF Calls
    <2>3. Alone(c)' => Alone(c)
      BY <1>1, <2>1, <2>2 DEF Alone
    <2>4. Fresh(c)'
      BY <1>1, <2>1 DEF Fresh
    <2> QED
      BY <1>1, <2>1, <2>3, <2>4 DEF Stands, Succeeded, CarriedOut
  <1>7. Fresh(b)' /\ Stands(b)'
    <2>1. clean'[b] = (\A h \in handlers : h.caller # b)
      BY <1>1, <1>2
    <2>2. ~Succeeded(b)'
      BY <1>3 DEF Succeeded
    <2> QED
      BY <1>1, <2>1, <2>2 DEF Fresh, Stands, Alone
  <1>8. Filed'
    BY <1>1 DEF Session, Filed
  <1> QED
    BY <1>5, <1>6, <1>7, <1>8 DEF Session

\* An operation leaves the servers alone that its request does not touch, and its own one
\* as it was asked for, whether an earlier attempt has been carried out or not.
LEMMA ChangesTouched ==
    ASSUME TypeOK, NEW r \in Requests, r.op \in Saving, NEW n \in Names \ Touched(r)
    PROVE  Changed(r)[n] = mem[n]
  <1>1. mem \in [Names -> Servers \union {NoServer}] /\ r.name \in Names
    BY RequestTypes DEF TypeOK, Registry
  <1>2. r.op \in {"add", "update", "remove", "enable", "disable", "save"} \/ r.op = "set"
    BY DEF Saving, Carrying, Naming
  <1>3. r.op # "set" /\ (r.op # "save" => n # r.name)
    BY DEF Touched, Saving, Carrying, Naming
  <1> QED
    BY <1>1, <1>2, <1>3 DEF Changed

LEMMA ChangesHold ==
    ASSUME TypeOK, NEW r \in Requests, r.op \in Saving \ {"save"}, ~Refused(r)
    PROVE  Holds(r, Changed(r)[r.name])
  <1>1. mem \in [Names -> Servers \union {NoServer}] /\ r.name \in Names
    BY RequestTypes DEF TypeOK, Registry
  <1>2. r.op \in {"update", "enable", "disable"} => mem[r.name] \in Servers
    BY <1>1 DEF Refused, Missing
  <1>3. \A s \in Servers : s # NoServer
    BY RemoteAssumption DEF RemoteAssumption, Servers
  <1>4. CASE r.op = "add" \/ r.op = "remove"
    BY <1>1, <1>4 DEF Changed, Holds
  <1>5. CASE r.op = "set"
    BY <1>1, <1>5 DEF Changed, Holds, Nothing
  <1>6. CASE r.op = "update"
    <2>1. Changed(r)[r.name] = [mem[r.name] EXCEPT !.cfg = r.cfg]
      BY <1>1, <1>6 DEF Changed
    <2>2. r.cfg \in Configs
      BY <1>6, RequestTypes
    <2>3. Changed(r)[r.name] \in Servers /\ Changed(r)[r.name].cfg = r.cfg
      BY <1>2, <1>6, <2>1, <2>2 DEF Servers
    <2> QED
      BY <1>3, <1>6, <2>3 DEF Holds
  <1>7. CASE r.op \in {"enable", "disable"}
    <2>1. Changed(r)[r.name] = [mem[r.name] EXCEPT !.on = (r.op = "enable")]
      BY <1>1, <1>7 DEF Changed
    <2>2. Changed(r)[r.name] \in Servers /\ Changed(r)[r.name].on = (r.op = "enable")
      BY <1>2, <1>7, <2>1 DEF Servers
    <2> QED
      BY <1>3, <1>7, <2>2 DEF Holds
  <1> QED
    BY <1>4, <1>5, <1>6, <1>7 DEF Saving, Carrying, Naming

Service(h) ==
    \/ Refuse(h) \/ Serve(h) \/ SaveFails(h) \/ Reread(h) \/ Elsewhere(h) \/ LoadFile(h) \/ LoadStorage(h)
             \/ Restore(h)
    \/ NoSuchBackup(h) \/ Inert(h) \/ Shutdown(h)

\* What a handler's step does to the servers.
LEMMA ServiceChanges ==
    ASSUME Session, NEW h \in handlers, Service(h)
    PROVE  /\ Filed' /\ UNCHANGED lost
           /\ \A n \in Names \ Touched(h.req) : mem'[n] = mem[n]
  <1>1. TypeOK /\ h.req \in Requests /\ Filed /\ up # "down"
    BY DEF Session, Effects, Types, TypeOK, Handlers, Filed
  <1>2. UNCHANGED lost /\ up' # "down"
    BY <1>1 DEF Service, Refuse, Serve, SaveFails, Reread, Elsewhere, LoadFile, LoadStorage, Load,
       Save, CannotSave, Restore, NoSuchBackup, Inert, Shutdown, engineVars, fileVars
  <1>3. ~behind' => disk'[Where(path')] = mem'
    <2>1. CASE Save
      <3>1. Where(path) \in Files /\ path' = path
        BY <2>1 DEF Save, Where, Files
      <3> QED
        BY <1>1, <2>1, <3>1 DEF Save, TypeOK
    <2>2. CASE CannotSave
      BY <2>2 DEF CannotSave
    <2>3. CASE LoadFile(h)
      <3>1. PICK p \in Files : /\ disk[p] # NoFile /\ Load(h, p, p)
                               /\ disk[p] \in Registry => mem' = disk[p] /\ behind' = FALSE
        BY <2>3 DEF LoadFile
      <3>2. path' = p /\ Where(p) = p /\ disk' = disk
        BY <3>1 DEF Load, Where, Files
      <3> QED
        BY <3>1, <3>2 DEF Load
    <2>4. CASE LoadStorage(h)
      BY <2>4 DEF LoadStorage, Load
    <2>5. CASE UNCHANGED <<mem, fileVars>>
      BY <1>1, <2>5 DEF Filed, fileVars
    <2> QED
      BY <2>1, <2>2, <2>3, <2>4, <2>5 DEF Service, Refuse, Serve, SaveFails, Reread, Elsewhere,
         Restore, NoSuchBackup, Inert, Shutdown, engineVars
  <1>4. \A n \in Names \ Touched(h.req) : mem'[n] = mem[n]
    <2>1. CASE Serve(h) \/ SaveFails(h)
      BY <1>1, <2>1, ChangesTouched DEF Serve, SaveFails
    <2>2. CASE LoadFile(h) \/ LoadStorage(h) \/ Restore(h)
      <3>1. h.req.op \in {"load", "restore"}
        BY <2>2 DEF LoadFile, LoadStorage, Load, Restore
      <3>2. Touched(h.req) = Names
        BY <3>1 DEF Touched, Carrying, Naming
      <3> QED
        BY <3>2
    <2>3. CASE UNCHANGED mem
      BY <2>3
    <2> QED
      BY <2>1, <2>2, <2>3 DEF Service, Refuse, Reread, Elsewhere, NoSuchBackup, Inert, Shutdown,
         engineVars
  <1> QED
    BY <1>1, <1>2, <1>3, <1>4 DEF Filed

\* What a handler goes on to, when it serves a call that SessionOrder is about: it has
\* carried the request out, or it has changed nothing.
LEMMA ServiceBecomes ==
    ASSUME Session, NEW h \in handlers, Service(h)
    PROVE  \E pc, code :
             /\ Becomes(h, pc, code)
             /\ h.req.op \in Saving \ {"save"}
                  => \/ Holds(h.req, mem'[h.req.name])
                     \/ UNCHANGED mem /\ (h.pc = "reread" \/ (pc = "answer" /\ code # "ok"))
  <1>1. TypeOK /\ h.req \in Requests
    BY DEF Session, Effects, Types, TypeOK, Handlers
  <1>2. CASE Serve(h)
    BY <1>1, <1>2, ChangesHold DEF Serve
  <1>3. CASE Reread(h)
    BY <1>3 DEF Reread, engineVars, fileVars
  <1>4. CASE Refuse(h)
    <2>1. RefusalCode(h.req) # "ok"
      BY DEF RefusalCode
    <2> QED
      BY <1>4, <2>1 DEF Refuse, engineVars, fileVars
  <1>5. CASE SaveFails(h)
    BY <1>1, <1>5, ChangesHold DEF SaveFails
  <1>6. CASE Elsewhere(h) \/ LoadFile(h) \/ LoadStorage(h)
             \/ Restore(h) \/ NoSuchBackup(h) \/ Inert(h) \/ Shutdown(h)
    <2>1. h.req.op \notin Saving
      BY <1>6 DEF Elsewhere, Load, LoadFile, LoadStorage, Save, CannotSave, Restore, NoSuchBackup,
         Inert, Shutdown, Saving, Carrying, Naming, Reading, Unserved
    <2>2. \E pc, code : Becomes(h, pc, code)
      BY <1>6 DEF Elsewhere, Load, LoadFile, LoadStorage, Save, CannotSave, Restore, NoSuchBackup,
         Inert, Shutdown
    <2> QED
      BY <2>1, <2>2
  <1> QED
    BY <1>2, <1>3, <1>4, <1>5, <1>6 DEF Service

LEMMA ServiceSession ==
    ASSUME Session, Effects', NEW h \in handlers, Service(h)
    PROVE  Session'
  <1>1. /\ handlers \subseteq Handlers /\ h \in Handlers /\ call \in [Callers -> Calls]
        /\ writers \in [Names -> SUBSET Callers]
    BY DEF Session, Effects, Types, TypeOK
  <1>2. UNCHANGED <<call, clean, writers>>
    BY DEF Service, Refuse, Serve, SaveFails, Reread, Elsewhere, Load, LoadFile, LoadStorage, Save,
       CannotSave, Restore, NoSuchBackup, Inert, Shutdown,
       observerVars
  <1>3. PICK pc, code :
             /\ Becomes(h, pc, code)
             /\ h.req.op \in Saving \ {"save"}
                  => \/ Holds(h.req, mem'[h.req.name])
                     \/ UNCHANGED mem /\ (h.pc = "reread" \/ (pc = "answer" /\ code # "ok"))
    BY ServiceBecomes
  <1>4. PICK g : g = [h EXCEPT !.pc = pc, !.code = code]
    OBVIOUS
  <1>5. /\ handlers' = (handlers \ {h}) \union {g}
        /\ g.caller = h.caller /\ g.seq = h.seq /\ g.req = h.req /\ g.pc = pc /\ g.code = code
    BY <1>1, <1>3, <1>4 DEF Becomes, Handlers
  <1>6. Asked'
    BY <1>2, <1>5 DEF Session, Asked
  <1>7. ASSUME NEW c \in Callers PROVE Fresh(c)'
    BY <1>2, <1>5 DEF Session, Fresh
  <1>8. ASSUME NEW c \in Callers, Alone(c)',
               Succeeded(c)' \/ \E x \in handlers' : x.caller = c /\ CarriedOut(x)
        PROVE  Holds(call[c].req, mem'[call[c].req.name])
    <2>1. Alone(c) /\ Stands(c) /\ Fresh(c) /\ call[c].req.name \in Names
      BY <1>1, <1>2, <1>8, ServiceChanges, RequestTypes DEF Alone, Session, Calls
    <2>2. CASE h.caller # c
      <3>1. call[c].req.name \notin Touched(h.req)
        BY <2>1, <2>2 DEF Session, Asked, Alone
      <3>2. mem'[call[c].req.name] = mem[call[c].req.name]
        BY <2>1, <3>1, ServiceChanges
      <3>3. Succeeded(c) \/ \E x \in handlers : x.caller = c /\ CarriedOut(x)
        BY <1>2, <1>5, <1>8, <2>2 DEF Succeeded
      <3> QED
        BY <2>1, <3>2, <3>3 DEF Stands
    <2>3. CASE h.caller = c
      <3>1. h.req = call[c].req /\ HandlerOK(h)
        BY <2>1, <2>3 DEF Fresh, Alone, Session, Effects, HandlerOK
      <3>2. h.req.op \in Saving \ {"save"}
        BY <1>8, <2>1, <3>1 DEF Alone
      <3>3. CASE Holds(h.req, mem'[h.req.name])
        BY <3>1, <3>3
      <3>4. CASE UNCHANGED mem /\ h.pc = "reread"
        BY <2>1, <2>3, <3>4 DEF Stands, CarriedOut
      <3>5. CASE UNCHANGED mem /\ pc = "answer" /\ code # "ok"
        <4>1. ~CarriedOut(g)
          BY <1>5, <3>5 DEF CarriedOut
        <4>2. Succeeded(c) \/ \E x \in handlers : x.caller = c /\ CarriedOut(x)
          BY <1>2, <1>5, <1>8, <4>1 DEF Succeeded
        <4> QED
          BY <2>1, <3>5, <4>2 DEF Stands
      <3> QED
        BY <1>3, <3>2, <3>3, <3>4, <3>5
    <2> QED
      BY <2>2, <2>3
  <1>9. \A c \in Callers : Stands(c)'
    BY <1>2, <1>8 DEF Stands, CarriedOut
  <1>10. Filed'
    BY ServiceChanges
  <1> QED
    BY <1>6, <1>7, <1>9, <1>10 DEF Session

\* Who alone changes a server finds it as its last successful call left it, for any callers,
\* retries, losses, failing saves, crashes and restarts, unless a process ended without having
\* its memory in its own file; and the file has it when the last save succeeded (client.go:160,
\* service_fixes.go, config_manager.go:77).
THEOREM SessionIsOrdered == Spec => []SessionOrder
  <1>1. Init => Session
    <2> SUFFICES ASSUME Init PROVE Session
      OBVIOUS
    <2>1. Effects
      BY EffectsInit
    <2>2. /\ handlers = {} /\ disk[Where(path)] = mem /\ up = "up"
          /\ \A c \in Callers : call[c].pc = "done" /\ call[c].code = "not connected"
      BY DEF Init, Where, Files
    <2> QED
      BY <2>1, <2>2 DEF Session, Filed, Asked, Fresh, Stands, Succeeded
  <1>2. Session /\ [Next]_vars => Session'
    <2> SUFFICES ASSUME Session, [Next]_vars PROVE Session'
      OBVIOUS
    <2>1. Effects'
      BY EffectsNext DEF Session
    <2>2. CASE UNCHANGED vars
      <3>1. /\ handlers' \subseteq handlers /\ UNCHANGED <<call, clean, writers, mem, fileVars, up>>
        BY <2>2 DEF vars
      <3>2. Filed' /\ UNCHANGED lost
        BY <2>2 DEF vars, Session, Filed, fileVars
      <3> QED
        BY <2>1, <3>1, <3>2, StillProceeds, SessionMove
    <2>3. CASE Moving
      BY <2>1, <2>3, MovingProceeds, SessionMove
    <2>4. CASE \E c \in Callers : Send(c) \/ \E r \in Requests : Call(c, r)
      BY <2>1, <2>4, SendSession, CallSession
    <2>5. CASE \E h \in handlers : Service(h)
      BY <2>1, <2>5, ServiceSession
    <2> QED
      BY <2>2, <2>3, <2>4, <2>5 DEF Next, Moving, ClientStep, HandlerStep, Service
  <1>3. Session => SessionOrder
    <2> SUFFICES ASSUME Session, NEW c \in Callers, Succeeded(c), Alone(c)
                 PROVE  /\ Holds(call[c].req, mem[call[c].req.name])
                        /\ ~behind => /\ disk[Where(path)] \in Registry
                                      /\ Holds(call[c].req, disk[Where(path)][call[c].req.name])
      BY DEF SessionOrder, Alone, Succeeded
    <2>1. Stands(c) /\ Filed /\ mem \in Registry
      BY DEF Session, Effects, Types, TypeOK
    <2> QED
      BY <2>1 DEF Stands, Filed
  <1> QED
    BY <1>1, <1>2, <1>3, PTL DEF Spec
=============================================================================

------------------------------ MODULE Watchers ------------------------------
(***************************************************************************)
(* Who hears of a change: the watchers of the storage (storage.go, in      *)
(* memory or in files) and the subscribers of the engine's events          *)
(* (event_bus.go, engine_impl.go OnConfigChange, OnSyncComplete), and the  *)
(* helpers that export and import a storage one key at a time while others *)
(* write.                                                                  *)
(*                                                                         *)
(* A notification starts a goroutine for every callback that is registered *)
(* at that moment; the goroutines run in any order.  The functions that    *)
(* Watch and on return to unsubscribe compare the addresses of their own   *)
(* variables and find nothing: they remove no callback, and are no action. *)
(***************************************************************************)
EXTENDS Naturals, FiniteSets, Sequences, Functions

CONSTANTS Keys, Values,
          Absent,          \* no value
          Events,          \* the events that are emitted here
          OfWatch,         \* callbacks given to Watch,
          OfConfigChange,  \* to OnConfigChange
          OfSyncComplete,  \* and to OnSyncComplete
          MaxNews,         \* bound: notifications
          MaxSubs          \* bound: subscriptions of one callback to one topic

Topics    == Keys \union Events
Callbacks == OfWatch \union OfConfigChange \union OfSyncComplete

ASSUME WatchersAssumption ==
    /\ MaxNews \in Nat /\ MaxSubs \in Nat /\ Absent \notin Values
    /\ OfWatch \intersect (OfConfigChange \union OfSyncComplete) = {}
    /\ OfConfigChange \intersect OfSyncComplete = {}

-----------------------------------------------------------------------------
(* The events, with what is emitted and what is done with it.              *)

ConfigEvents == {"config.loaded", "config.saved", "config.changed",
                 "autosync.started", "autosync.stopped", "autosync.file.changed"}
ServerEvents == {"server.added", "server.updated", "server.removed"}
SyncEvents   == {"sync.started", "sync.completed", "sync.failed"}
BackupEvents == {"backup.created", "backup.restored"}

\* what the engine emits: its server events too carry a ConfigChange
Payload(e) ==
    CASE e \in ConfigEvents \union ServerEvents -> "ConfigChange"
      [] e \in SyncEvents   -> "SyncResult"
      [] e \in BackupEvents -> "BackupInfo"
      [] e = "error"        -> "error"
      [] OTHER              -> "string"

\* the Go type of a callback
Type(c) ==
    CASE c \in OfWatch        -> "func([]byte)"
      [] c \in OfConfigChange -> "ConfigChangeHandler"
      [] c \in OfSyncComplete -> "SyncCompleteHandler"

\* whether the goroutine calls the callback: the type switch of emit knows one of the two
\* named types
Understood(topic, type) ==
    \/ topic \in Keys
    \/ topic \in Events /\ <<type, Payload(topic)>> \in
         CASE topic \in ConfigEvents -> {"func(ConfigChange)", "ConfigChangeHandler"} \X {"ConfigChange"}
           [] topic \in ServerEvents -> {<<"func(ServerChangeEvent)", "ServerChangeEvent">>}
           [] topic \in SyncEvents   -> {<<"func(SyncResult)", "SyncResult">>}
           [] topic \in BackupEvents -> {<<"func(BackupInfo)", "BackupInfo">>}
           [] topic = "error"        -> {<<"func(error)", "error">>}
           [] OTHER                  -> {}

-----------------------------------------------------------------------------
VARIABLES
    data,       \* the storage
    registry,   \* how often each callback is registered for each topic
    pending,    \* goroutines on their way to a callback
    heard,      \* the notifications that each callback was called with, in order
    export,     \* ExportStorage: the keys it has to read, what it has read
    import,     \* ImportStorage: what it has to write
    news,       \* notifications so far
    wanted,     \* observer: how often each callback has asked for each topic
    owed,       \* observer: for how many subscriptions a callback is owed each of them
    seen,       \* observer: the values of each key since the export began
    missed      \* observer: the keys whose read failed since then

vars == <<data, registry, pending, heard, export, import, news, wanted, owed, seen, missed>>

NoData == [k \in {} |-> k]
Idle   == [busy |-> FALSE, todo |-> {}, got |-> NoData]

Init ==
    /\ data \in [Keys -> Values \union {Absent}]
    /\ registry = [t \in Topics |-> [c \in Callbacks |-> 0]]
    /\ pending = {} /\ heard = [c \in Callbacks |-> <<>>]
    /\ export = Idle /\ import = NoData
    /\ news = 0
    /\ wanted = [c \in Callbacks |-> [t \in Topics |-> 0]]
    /\ owed = [c \in Callbacks |-> [i \in 1..MaxNews |-> 0]]
    /\ seen = [k \in Keys |-> {}] /\ missed = {}

-----------------------------------------------------------------------------
(* Subscribing.                                                            *)

\* c is registered once more for each of the topics, having asked for those of meant
Register(c, topics, meant) ==
    /\ \A t \in meant : wanted[c][t] < MaxSubs
    /\ registry' = [t \in Topics |-> IF t \in topics THEN [registry[t] EXCEPT ![c] = @ + 1]
                                     ELSE registry[t]]
    /\ wanted' = [wanted EXCEPT ![c] = [t \in Topics |-> IF t \in meant THEN @[t] + 1 ELSE @[t]]]
    /\ UNCHANGED <<data, pending, heard, export, import, news, owed, seen, missed>>

Watch(c, k) == c \in OfWatch /\ Register(c, {k}, {k})

\* Fault variant of OnConfigChange: only to the event of a load
OnConfigLoaded(c) ==
    c \in OfConfigChange /\ Register(c, Events \intersect {"config.loaded"}, Events \intersect ConfigEvents)

OnConfigChange(c) ==
    LET topics == Events \intersect ConfigEvents IN
    c \in OfConfigChange /\ Register(c, topics, topics)

OnSyncComplete(c) ==
    LET topics == Events \intersect {"sync.completed"} IN
    c \in OfSyncComplete /\ Register(c, topics, topics)

-----------------------------------------------------------------------------
(* Notifying.                                                              *)

Notify(topic) ==
    /\ news < MaxNews
    /\ news' = news + 1
    /\ pending' = pending \union
         {p \in [id : {news'}, topic : {topic}, to : Callbacks, nth : 1..MaxSubs] :
            p.nth <= registry[topic][p.to]}
    /\ owed' = [c \in Callbacks |-> [owed[c] EXCEPT ![news'] = wanted[c][topic]]]
    /\ UNCHANGED wanted

\* emit, by whatever operation
Emit(e) ==
    /\ Notify(e)
    /\ UNCHANGED <<data, registry, heard, export, import, seen, missed>>

\* Fault variant of Deliver: the goroutine calls the last callback of the loop
DeliverLast(p) ==
    /\ pending' = pending \ {p}
    /\ LET last == CHOOSE q \in pending : TRUE IN
       heard' = IF Understood(p.topic, Type(last.to)) THEN [heard EXCEPT ![last.to] = Append(@, p.id)]
                ELSE heard
    /\ UNCHANGED <<data, registry, export, import, news, wanted, owed, seen, missed>>

Deliver(p) ==
    /\ pending' = pending \ {p}
    /\ heard' = IF Understood(p.topic, Type(p.to)) THEN [heard EXCEPT ![p.to] = Append(@, p.id)]
                ELSE heard
    /\ UNCHANGED <<data, registry, export, import, news, wanted, owed, seen, missed>>

-----------------------------------------------------------------------------
(* The storage.                                                            *)

Becomes(k, v) ==
    /\ data' = [data EXCEPT ![k] = v]
    /\ seen' = IF export.busy THEN [seen EXCEPT ![k] = @ \union {v}] ELSE seen
    /\ UNCHANGED missed

\* SaveJSON too
Write(k, v) ==
    /\ Becomes(k, v) /\ Notify(k)
    /\ UNCHANGED <<registry, heard, export, import>>

\* watchers do not hear of it
Delete(k) ==
    /\ data[k] # Absent
    /\ Becomes(k, Absent)
    /\ UNCHANGED <<registry, pending, heard, export, import, news, wanted, owed>>

\* Fault variant of ExportList: an export keeps what an earlier one has read
ExportListKeeping ==
    /\ ~export.busy
    /\ export' = [export EXCEPT !.busy = TRUE, !.todo = {k \in Keys : data[k] # Absent}]
    /\ seen' = [k \in Keys |-> {data[k]}] /\ missed' = {}
    /\ UNCHANGED <<data, registry, pending, heard, import, news, wanted, owed>>

ExportList ==
    /\ ~export.busy
    /\ export' = [busy |-> TRUE, todo |-> {k \in Keys : data[k] # Absent}, got |-> NoData]
    /\ seen' = [k \in Keys |-> {data[k]}] /\ missed' = {}
    /\ UNCHANGED <<data, registry, pending, heard, import, news, wanted, owed>>

\* a key is skipped when it has gone meanwhile, and also when its read fails
ExportRead(k) ==
    /\ export.busy /\ k \in export.todo
    /\ \/ /\ export' = [export EXCEPT !.todo = @ \ {k},
                                      !.got = IF data[k] = Absent THEN @
                                              ELSE [x \in DOMAIN @ \union {k} |->
                                                      IF x = k THEN data[k] ELSE @[x]]]
          /\ UNCHANGED missed
       \/ /\ export' = [export EXCEPT !.todo = @ \ {k}]
          /\ missed' = missed \union {k}
    /\ UNCHANGED <<data, registry, pending, heard, import, news, wanted, owed, seen>>

ExportEnd ==
    /\ export.busy /\ export.todo = {}
    /\ export' = [export EXCEPT !.busy = FALSE]
    /\ UNCHANGED <<data, registry, pending, heard, import, news, wanted, owed, seen, missed>>

\* what an export has read comes back, to this storage
ImportBegin ==
    /\ import = NoData /\ ~export.busy
    /\ import' = export.got
    /\ UNCHANGED <<data, registry, pending, heard, export, news, wanted, owed, seen, missed>>

ImportWrite(k) ==
    /\ k \in DOMAIN import
    /\ Becomes(k, import[k]) /\ Notify(k)
    /\ import' = [x \in DOMAIN import \ {k} |-> import[x]]
    /\ UNCHANGED <<registry, heard, export>>

\* a write that fails ends an import where it is
ImportFails ==
    /\ import # NoData /\ import' = NoData
    /\ UNCHANGED <<data, registry, pending, heard, export, news, wanted, owed, seen, missed>>

-----------------------------------------------------------------------------
Subscribe == \E c \in Callbacks : (\E k \in Keys : Watch(c, k)) \/ OnConfigChange(c) \/ OnSyncComplete(c)

Use ==
    \/ \E e \in Events : Emit(e)
    \/ \E k \in Keys : (\E v \in Values : Write(k, v)) \/ Delete(k)
    \/ \E k \in Keys : ExportRead(k) \/ ImportWrite(k)
    \/ ExportList \/ ExportEnd \/ ImportBegin \/ ImportFails

Delivery(c) == \E p \in {p \in pending : p.to = c} : Deliver(p)

Next == Subscribe \/ Use \/ \E c \in Callbacks : Delivery(c)

\* goroutines are scheduled
Fairness == \A c \in Callbacks : WF_vars(Delivery(c))

Spec     == Init /\ [][Next]_vars
FairSpec == Spec /\ Fairness

-----------------------------------------------------------------------------
(* Properties.                                                             *)

Pairs == UNION {[S -> Values] : S \in SUBSET Keys}

TypeOK ==
    /\ data \in [Keys -> Values \union {Absent}]
    /\ registry \in [Topics -> [Callbacks -> 0..MaxSubs]]
    /\ pending \subseteq [id : 1..MaxNews, topic : Topics, to : Callbacks, nth : 1..MaxSubs]
    /\ \A c \in Callbacks : heard[c] \in Seq(1..MaxNews)
    /\ export.busy \in BOOLEAN /\ export.todo \subseteq Keys /\ export.got \in Pairs
    /\ import \in Pairs
    /\ news \in 0..MaxNews
    /\ wanted \in [Callbacks -> [Topics -> 0..MaxSubs]]
    /\ owed \in [Callbacks -> [1..MaxNews -> 0..MaxSubs]]
    /\ seen \in [Keys -> SUBSET (Values \union {Absent})] /\ missed \subseteq Keys

Times(c, i) == Cardinality({j \in DOMAIN heard[c] : heard[c][j] = i})
OnTheWay(c, i) == Cardinality({p \in pending : p.to = c /\ p.id = i})

\* Whatever is written and emitted meanwhile, a watcher of the storage and a subscriber of
\* OnConfigChange hear of each change once for every time they subscribed before it, and
\* of no other (storage.go:161, event_bus.go:67).
HeardOncePerSubscription ==
    \A c \in OfWatch \union OfConfigChange, i \in 1..MaxNews :
      Times(c, i) + OnTheWay(c, i) = owed[c][i]

\* An export is no snapshot, but every pair in it was stored at some moment of the export,
\* and a key that is not in it was absent at some moment or could not be read, which the
\* export does not tell (storage.go:398).
ExportsAreOfTheirTime ==
    export.busy =>
      /\ \A k \in DOMAIN export.got : export.got[k] \in seen[k]
      /\ \A k \in Keys \ (DOMAIN export.got \union export.todo \union missed) : Absent \in seen[k]

\* What the usage guide shows (docs/USAGE_GUIDE.md:191): a callback given to OnSyncComplete
\* is called after a sync.  The code does not: emit asserts the type func(SyncResult), and
\* the callback has the named type SyncCompleteHandler (event_bus.go:93).
SyncsAreReported ==
    \A c \in OfSyncComplete, i \in 1..MaxNews : owed[c][i] > 0 ~> i \in Range(heard[c])
=============================================================================

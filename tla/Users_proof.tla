----------------------------- MODULE Users_proof -----------------------------
(***************************************************************************)
(* Proofs about who uses the daemon and its storage.  First Watchers, for  *)
(* any keys, events, callbacks and bounds; then Wire, for any clients,     *)
(* servers, configuration files and directory trees.                       *)
(***************************************************************************)
EXTENDS Watchers, Wire, FiniteSetTheorems, FunctionTheorems, SequenceTheorems,
        WellFoundedInduction, TLAPS

LEMMA Bounds ==
    /\ MaxNews \in Nat /\ MaxSubs \in Nat /\ Absent \notin Values
    /\ OfWatch \intersect (OfConfigChange \union OfSyncComplete) = {}
    /\ OfConfigChange \intersect OfSyncComplete = {}
  BY WatchersAssumption DEF WatchersAssumption

-----------------------------------------------------------------------------
(* Exports.                                                                *)

\* While an export runs, what is stored has been seen by it, and what it has left out
\* was absent or could not be read.
Watched ==
    export.busy =>
      /\ \A k \in Keys : data[k] \in seen[k]
      /\ ExportsAreOfTheirTime

Stored ==
    /\ data \in [Keys -> Values \union {Absent}] /\ seen \in [Keys -> SUBSET (Values \union {Absent})]
    /\ DOMAIN import \subseteq Keys /\ DOMAIN export.got \subseteq Keys /\ export.todo \subseteq Keys
    /\ \A k \in DOMAIN import : import[k] \in Values
    /\ \A k \in DOMAIN export.got : export.got[k] \in Values
    /\ export = [busy |-> export.busy, todo |-> export.todo, got |-> export.got]

Exporting == Stored /\ Watched

LEMMA BecomesKeeps ==
    ASSUME Exporting, NEW k \in Keys, NEW v \in Values \union {Absent}, Becomes(k, v), UNCHANGED export
    PROVE  /\ data' \in [Keys -> Values \union {Absent}]
           /\ seen' \in [Keys -> SUBSET (Values \union {Absent})]
           /\ Watched'
  <1>1. /\ data \in [Keys -> Values \union {Absent}] /\ seen \in [Keys -> SUBSET (Values \union {Absent})]
        /\ data' = [data EXCEPT ![k] = v]
        /\ seen' = IF export.busy THEN [seen EXCEPT ![k] = @ \union {v}] ELSE seen
        /\ missed' = missed
    BY DEF Exporting, Stored, Becomes
  <1>2. data' \in [Keys -> Values \union {Absent}] /\ seen' \in [Keys -> SUBSET (Values \union {Absent})]
    BY <1>1
  <1>3. ASSUME export.busy PROVE \A x \in Keys : data'[x] \in seen'[x] /\ seen[x] \subseteq seen'[x]
    BY <1>1, <1>3 DEF Exporting, Watched
  <1>4. export.busy => Watched'
    BY <1>1, <1>3 DEF Exporting, Watched, ExportsAreOfTheirTime
  <1> QED
    BY <1>2, <1>4 DEF Exporting, Watched

LEMMA ExportStep ==
    ASSUME Exporting, [Next]_vars
    PROVE  Exporting'
  <1>1. Stored /\ Watched
    BY DEF Exporting
  <1>2. CASE UNCHANGED <<data, export, import, seen, missed>>
    <2>1. Stored'
      BY <1>1, <1>2 DEF Stored
    <2> QED
      BY <1>1, <1>2, <2>1 DEF Exporting, Watched, ExportsAreOfTheirTime
  <1>3. ASSUME NEW k \in Keys, NEW v \in Values, Write(k, v) PROVE Exporting'
    <2>1. Becomes(k, v) /\ UNCHANGED <<export, import>>
      BY <1>3 DEF Write
    <2> QED
      BY <1>1, <2>1, BecomesKeeps DEF Exporting, Stored
  <1>4. ASSUME NEW k \in Keys, Delete(k) PROVE Exporting'
    <2>1. Becomes(k, Absent) /\ UNCHANGED <<export, import>>
      BY <1>4 DEF Delete
    <2> QED
      BY <1>1, <2>1, BecomesKeeps DEF Exporting, Stored
  <1>5. ASSUME NEW k \in Keys, ImportWrite(k) PROVE Exporting'
    <2>1. /\ Becomes(k, import[k]) /\ UNCHANGED export /\ k \in DOMAIN import
          /\ import' = [x \in DOMAIN import \ {k} |-> import[x]]
      BY <1>5 DEF ImportWrite
    <2>2. import[k] \in Values \union {Absent}
      BY <1>1, <2>1 DEF Stored
    <2>3. /\ data' \in [Keys -> Values \union {Absent}] /\ Watched'
          /\ seen' \in [Keys -> SUBSET (Values \union {Absent})]
      BY <2>1, <2>2, BecomesKeeps
    <2>4. DOMAIN import' \subseteq Keys /\ \A x \in DOMAIN import' : import'[x] \in Values
      BY <1>1, <2>1 DEF Stored
    <2> QED
      BY <1>1, <2>1, <2>3, <2>4 DEF Exporting, Stored
  <1>6. ASSUME NEW k \in Keys, ExportRead(k) PROVE Exporting'
    <2>0. export.busy /\ k \in export.todo /\ UNCHANGED <<data, seen, import>>
      BY <1>6 DEF ExportRead
    <2>1. CASE /\ export' = [export EXCEPT !.todo = @ \ {k}] /\ missed' = missed \union {k}
      <3>1. export'.busy = export.busy /\ export'.todo = export.todo \ {k} /\ export'.got = export.got
            /\ export' = [busy |-> export'.busy, todo |-> export'.todo, got |-> export'.got]
        BY <1>1, <2>1 DEF Stored
      <3>2. Stored'
        BY <1>1, <2>0, <3>1 DEF Stored
      <3>3. Watched'
        BY <1>1, <2>0, <2>1, <3>1 DEF Watched, ExportsAreOfTheirTime
      <3> QED
        BY <3>2, <3>3 DEF Exporting
    <2>2. CASE data[k] = Absent /\ export' = [export EXCEPT !.todo = @ \ {k}] /\ missed' = missed
      <3>1. export'.busy = export.busy /\ export'.todo = export.todo \ {k} /\ export'.got = export.got
            /\ export' = [busy |-> export'.busy, todo |-> export'.todo, got |-> export'.got]
        BY <1>1, <2>2 DEF Stored
      <3>2. Stored'
        BY <1>1, <2>0, <3>1 DEF Stored
      <3>3. Watched'
        BY <1>1, <2>0, <2>2, <3>1 DEF Watched, ExportsAreOfTheirTime
      <3> QED
        BY <3>2, <3>3 DEF Exporting
    <2>3. CASE /\ data[k] # Absent /\ missed' = missed
               /\ export' = [export EXCEPT !.todo = @ \ {k},
                                           !.got = [x \in DOMAIN @ \union {k} |->
                                                      IF x = k THEN data[k] ELSE @[x]]]
      <3>1. /\ export'.busy = export.busy /\ export'.todo = export.todo \ {k}
            /\ export'.got = [x \in DOMAIN export.got \union {k} |->
                                IF x = k THEN data[k] ELSE export.got[x]]
            /\ export' = [busy |-> export'.busy, todo |-> export'.todo, got |-> export'.got]
        BY <1>1, <2>3 DEF Stored
      <3>2. DOMAIN export'.got = DOMAIN export.got \union {k} /\ export'.got[k] = data[k]
            /\ \A x \in DOMAIN export.got \ {k} : export'.got[x] = export.got[x]
        BY <3>1
      <3>3. data[k] \in Values /\ data[k] \in seen[k]
        BY <1>1, <2>0, <2>3 DEF Stored, Watched
      <3>4. Stored'
        BY <1>1, <2>0, <3>1, <3>2, <3>3 DEF Stored
      <3>5. Watched'
        BY <1>1, <2>0, <2>3, <3>1, <3>2, <3>3 DEF Watched, ExportsAreOfTheirTime
      <3> QED
        BY <3>4, <3>5 DEF Exporting
    <2> QED
      BY <1>6, <2>1, <2>2, <2>3 DEF ExportRead
  <1>7. CASE ExportList
    <2>1. /\ export' = [busy |-> TRUE, todo |-> {k \in Keys : data[k] # Absent}, got |-> NoData]
          /\ seen' = [k \in Keys |-> {data[k]}] /\ UNCHANGED <<data, import>> /\ DOMAIN NoData = {}
      BY <1>7 DEF ExportList, NoData
    <2> QED
      BY <1>1, <2>1 DEF Exporting, Stored, Watched, ExportsAreOfTheirTime
  <1>8. CASE ExportEnd
    <2>1. export' = [export EXCEPT !.busy = FALSE] /\ UNCHANGED <<data, seen, missed, import>>
      BY <1>8 DEF ExportEnd
    <2>2. export'.todo = export.todo /\ export'.got = export.got /\ ~export'.busy
          /\ export' = [busy |-> export'.busy, todo |-> export'.todo, got |-> export'.got]
      BY <1>1, <2>1 DEF Stored
    <2> QED
      BY <1>1, <2>1, <2>2 DEF Exporting, Stored, Watched
  <1>9. CASE ImportBegin
    BY <1>1, <1>9 DEF ImportBegin, Exporting, Stored, Watched, ExportsAreOfTheirTime
  <1>13. CASE ImportFails
    BY <1>1, <1>13 DEF ImportFails, NoData, Exporting, Stored, Watched, ExportsAreOfTheirTime
  <1>10. CASE Subscribe
    BY <1>2, <1>10 DEF Subscribe, Watch, OnConfigChange, OnSyncComplete, Register
  <1>11. CASE \E e \in Events : Emit(e)
    BY <1>2, <1>11 DEF Emit
  <1>12. CASE \E c \in Callbacks : Delivery(c)
    BY <1>2, <1>12 DEF Delivery, Deliver
  <1> QED
    BY <1>2, <1>3, <1>4, <1>5, <1>6, <1>7, <1>8, <1>9, <1>10, <1>11, <1>12, <1>13 DEF Next, Use, vars

\* Every pair in an export was stored at some moment of the export, and a key that is not in it
\* was absent at some moment or could not be read, whatever was written meanwhile (storage.go:390).
THEOREM ExportsAreTrue == Spec => []ExportsAreOfTheirTime
  <1>1. Init => Exporting
    BY DEF Init, Exporting, Stored, Watched, Idle, NoData
  <1>2. Exporting => ExportsAreOfTheirTime
    BY DEF Exporting, Watched, ExportsAreOfTheirTime
  <1> QED
    BY <1>1, <1>2, ExportStep, PTL DEF Spec

-----------------------------------------------------------------------------
(* Notifications.                                                          *)

Ours == OfWatch \union OfConfigChange    \* the callbacks that are called

Coming(c, i) == {p \in pending : p.to = c /\ p.id = i}
Calls(c, i)  == {j \in DOMAIN heard[c] : heard[c][j] = i}

\* What is registered is what was asked for, and of a topic whose news the callback understands.
Registered ==
    \A c \in Ours, t \in Topics :
      /\ registry[t][c] = wanted[c][t] /\ registry[t][c] \in 0..MaxSubs
      /\ registry[t][c] > 0 => Understood(t, Type(c))

Underway ==
    \A p \in pending : p.id \in 1..news /\ (p.to \in Ours => Understood(p.topic, Type(p.to)))

Heard ==
    \A c \in Ours :
      /\ heard[c] \in Seq(Nat)
      /\ \A j \in DOMAIN heard[c] : heard[c][j] <= news
      /\ \A i \in 1..MaxNews :
           /\ owed[c][i] \in Nat /\ IsFiniteSet(Coming(c, i))
           /\ Cardinality(Calls(c, i)) + Cardinality(Coming(c, i)) = owed[c][i]

Shape ==
    /\ news \in Nat /\ news <= MaxNews
    /\ registry \in [Topics -> [Callbacks -> Nat]] /\ wanted \in [Callbacks -> [Topics -> Nat]]
    /\ owed \in [Callbacks -> [1..MaxNews -> Nat]] /\ DOMAIN heard = Callbacks
    /\ \A p \in pending : p.to \in Callbacks

Hearing == Shape /\ Registered /\ Underway /\ Heard

LEMMA OursAreCallbacks == Ours \subseteq Callbacks
  BY DEF Ours, Callbacks

\* A callback given to Watch understands every key, one given to OnConfigChange every event of
\* the configuration.
LEMMA TheyUnderstand ==
    ASSUME NEW c \in Ours, NEW t \in Topics,
           c \in OfWatch => t \in Keys, c \in OfConfigChange => t \in Events /\ t \in ConfigEvents
    PROVE  Understood(t, Type(c))
  <1>1. CASE c \in OfWatch
    BY <1>1 DEF Understood
  <1>2. CASE c \in OfConfigChange
    <2>1. c \notin OfWatch /\ c \notin OfSyncComplete
      BY <1>2, Bounds
    <2>2. Type(c) = "ConfigChangeHandler"
      BY <1>2, <2>1 DEF Type
    <2>3. t \notin SyncEvents /\ t \notin BackupEvents /\ t # "error" /\ t \notin ServerEvents
      BY <1>2 DEF ConfigEvents, SyncEvents, BackupEvents, ServerEvents
    <2>4. Payload(t) = "ConfigChange"
      BY <1>2, <2>3 DEF Payload
    <2>5. <<"ConfigChangeHandler", "ConfigChange">> \in
             {"func(ConfigChange)", "ConfigChangeHandler"} \X {"ConfigChange"}
      OBVIOUS
    <2> QED
      BY <1>2, <2>2, <2>3, <2>4, <2>5 DEF Understood
  <1> QED
    BY <1>1, <1>2 DEF Ours

LEMMA RegisterHears ==
    ASSUME Hearing, NEW c \in Callbacks, NEW topics \in SUBSET Topics, Register(c, topics, topics),
           c \in OfWatch => topics \subseteq Keys,
           c \in OfConfigChange => topics \subseteq Events \intersect ConfigEvents
    PROVE  Hearing'
  <1>1. /\ registry' = [t \in Topics |-> IF t \in topics THEN [registry[t] EXCEPT ![c] = @ + 1]
                                         ELSE registry[t]]
        /\ wanted' = [wanted EXCEPT ![c] = [t \in Topics |-> IF t \in topics THEN @[t] + 1 ELSE @[t]]]
        /\ UNCHANGED <<pending, heard, news, owed>>
        /\ \A t \in topics : wanted[c][t] < MaxSubs
    BY DEF Register
  <1>2. Shape
    BY DEF Hearing
  <1>3. registry' \in [Topics -> [Callbacks -> Nat]] /\ wanted' \in [Callbacks -> [Topics -> Nat]]
    BY <1>1, <1>2 DEF Shape
  <1>4. \A t \in Topics : registry'[t][c] = registry[t][c] + (IF t \in topics THEN 1 ELSE 0)
                       /\ wanted'[c][t] = wanted[c][t] + (IF t \in topics THEN 1 ELSE 0)
    BY <1>1, <1>2 DEF Shape
  <1>5. \A b \in Callbacks \ {c}, t \in Topics : registry'[t][b] = registry[t][b] /\ wanted'[b][t] = wanted[b][t]
    BY <1>1, <1>2 DEF Shape
  <1>6. ASSUME NEW b \in Ours, NEW t \in Topics
        PROVE  /\ registry'[t][b] = wanted'[b][t] /\ registry'[t][b] \in 0..MaxSubs
               /\ registry'[t][b] > 0 => Understood(t, Type(b))
    <2>1. /\ registry[t][b] = wanted[b][t] /\ registry[t][b] \in 0..MaxSubs /\ b \in Callbacks
          /\ registry[t][b] > 0 => Understood(t, Type(b))
      BY OursAreCallbacks DEF Hearing, Registered
    <2>2. CASE b = c /\ t \in topics
      <3>1. Understood(t, Type(b))
        BY <2>2, TheyUnderstand
      <3>2. /\ registry'[t][b] = registry[t][b] + 1 /\ wanted'[b][t] = wanted[b][t] + 1
            /\ wanted[b][t] < MaxSubs
        BY <1>1, <1>4, <2>2
      <3>3. registry'[t][b] = wanted'[b][t] /\ registry'[t][b] \in 0..MaxSubs
        BY <2>1, <3>2, Bounds
      <3> QED
        BY <3>1, <3>3
    <2>3. CASE ~(b = c /\ t \in topics)
      <3>1. registry'[t][b] = registry[t][b] /\ wanted'[b][t] = wanted[b][t]
        BY <1>2, <1>4, <1>5, <2>1, <2>3 DEF Shape
      <3> QED
        BY <2>1, <3>1
    <2> QED
      BY <2>2, <2>3
  <1>7. Registered'
    BY <1>6 DEF Registered
  <1>8. Underway' /\ Heard' /\ Shape'
    <2>1. Underway'
      BY <1>1 DEF Hearing, Underway
    <2>2. Heard'
      BY <1>1 DEF Hearing, Heard, Coming, Calls
    <2>3. Shape'
      BY <1>1, <1>2, <1>3 DEF Shape
    <2> QED
      BY <2>1, <2>2, <2>3
  <1> QED
    BY <1>7, <1>8 DEF Hearing

\* the goroutines that notification i, of topic t, starts for a callback with n subscriptions
Woken(i, t, c, n) ==
    {p \in [id : {i}, topic : {t}, to : Callbacks, nth : 1..MaxSubs] : p.to = c /\ p.nth <= n}

\* The goroutines that a notification starts for c are as many as its subscriptions.
LEMMA Started ==
    ASSUME NEW i, NEW t, NEW c \in Callbacks, NEW n \in Nat, n <= MaxSubs
    PROVE  IsFiniteSet(Woken(i, t, c, n)) /\ Cardinality(Woken(i, t, c, n)) = n
  <1> DEFINE S == Woken(i, t, c, n)
  <1> DEFINE f == [m \in 1..n |-> [id |-> i, topic |-> t, to |-> c, nth |-> m]]
  <1>1. \A m \in 1..n : m \in 1..MaxSubs /\ m <= n
    BY Bounds
  <1>2. f \in [1..n -> S]
    BY <1>1 DEF Woken
  <1>3. \A a, b \in 1..n : f[a] = f[b] => a = b
    <2> SUFFICES ASSUME NEW a \in 1..n, NEW b \in 1..n, f[a] = f[b] PROVE a = b
      OBVIOUS
    <2>1. f[a].nth = a /\ f[b].nth = b
      OBVIOUS
    <2> QED
      BY <2>1
  <1>4. \A p \in S : \E m \in 1..n : f[m] = p
    <2> SUFFICES ASSUME NEW p \in S PROVE \E m \in 1..n : f[m] = p
      OBVIOUS
    <2>1. p = [id |-> i, topic |-> t, to |-> c, nth |-> p.nth] /\ p.nth \in 1..n
      BY Bounds DEF Woken
    <2> QED
      BY <2>1
  <1> HIDE DEF f, S
  <1>5. f \in Bijection(1..n, S)
    BY <1>2, <1>3, <1>4, Fun_IsBij
  <1>6. ExistsBijection(1..n, S)
    BY <1>5 DEF ExistsBijection
  <1>7. Cardinality(S) = n
    BY <1>6, FS_CountingElements
  <1>8. IsFiniteSet(S)
    BY <1>6, FS_NatBijection
  <1> QED
    BY <1>7, <1>8 DEF S

LEMMA NotifyHears ==
    ASSUME Hearing, NEW topic \in Topics, Notify(topic), UNCHANGED <<registry, heard>>
    PROVE  Hearing'
  <1> DEFINE New == {p \in [id : {news'}, topic : {topic}, to : Callbacks, nth : 1..MaxSubs] :
                       p.nth <= registry[topic][p.to]}
  <1>1. /\ news < MaxNews /\ news' = news + 1 /\ pending' = pending \union New
        /\ owed' = [c \in Callbacks |-> [owed[c] EXCEPT ![news'] = wanted[c][topic]]]
        /\ UNCHANGED <<registry, heard, wanted>>
    BY DEF Notify
  <1>2. Shape /\ Registered /\ Underway /\ Heard
    BY DEF Hearing
  <1>3. news' \in 1..MaxNews /\ news \in Nat /\ news' \in Nat /\ news' <= MaxNews /\ \A i \in 1..news : i \in 1..news' /\ i # news'
    BY <1>1, <1>2, Bounds DEF Shape
  <1>4. \A p \in New : p.id = news' /\ p.topic = topic /\ p.to \in Callbacks
                     /\ p.nth \in 1..MaxSubs /\ p.nth <= registry[topic][p.to]
    OBVIOUS
  <1>5. /\ owed' \in [Callbacks -> [1..MaxNews -> Nat]]
        /\ \A c \in Callbacks : owed'[c][news'] = wanted[c][topic]
                            /\ \A i \in 1..MaxNews \ {news'} : owed'[c][i] = owed[c][i]
    <2>1. /\ owed \in [Callbacks -> [1..MaxNews -> Nat]] /\ wanted \in [Callbacks -> [Topics -> Nat]]
          /\ \A c \in Callbacks : wanted[c][topic] \in Nat
      BY <1>2 DEF Shape
    <2> QED
      BY <1>1, <1>3, <2>1
  <1>6. Shape'
    <2>1. \A p \in pending' : p.to \in Callbacks
      BY <1>1, <1>2, <1>4 DEF Shape
    <2> HIDE DEF New
    <2> QED
      BY <1>1, <1>2, <1>3, <1>5, <2>1 DEF Shape
  <1>7. Registered'
    BY <1>1, <1>2 DEF Registered
  <1>8. Underway'
    <2>1. ASSUME NEW p \in New, p.to \in Ours PROVE Understood(p.topic, Type(p.to))
      <3>1. registry[topic][p.to] \in Nat /\ registry[topic][p.to] > 0
        <4>1. registry[topic][p.to] \in Nat /\ p.nth \in 1..MaxSubs /\ p.nth <= registry[topic][p.to]
          BY <1>2, <1>4 DEF Shape
        <4> QED
          BY <4>1, Bounds
      <3> QED
        BY <1>2, <1>4, <2>1, <3>1 DEF Registered
    <2>2. \A p \in New : p.id \in 1..news'
      BY <1>3, <1>4
    <2> HIDE DEF New
    <2>3. \A p \in pending : p.id \in 1..news'
      BY <1>2, <1>3 DEF Underway
    <2> QED
      BY <1>1, <1>2, <2>1, <2>2, <2>3 DEF Underway
  <1>9. ASSUME NEW c \in Ours, NEW i \in 1..MaxNews
        PROVE  /\ owed'[c][i] \in Nat /\ IsFiniteSet(Coming(c, i)')
               /\ Cardinality(Calls(c, i)') + Cardinality(Coming(c, i)') = owed'[c][i]
    <2>1. /\ c \in Callbacks /\ owed[c][i] \in Nat /\ IsFiniteSet(Coming(c, i))
          /\ Cardinality(Calls(c, i)) + Cardinality(Coming(c, i)) = owed[c][i]
          /\ Calls(c, i)' = Calls(c, i)
      BY <1>1, <1>2, OursAreCallbacks DEF Heard, Calls
    <2>2. CASE i # news'
      <3>1. Coming(c, i)' = Coming(c, i) /\ owed'[c][i] = owed[c][i]
        BY <1>1, <1>4, <1>5, <2>1, <2>2 DEF Coming
      <3> QED
        BY <2>1, <3>1
    <2>3. CASE i = news'
      <3>7. PICK n : n = registry[topic][c]
        OBVIOUS
      <3>1. n \in Nat /\ n <= MaxSubs /\ n = wanted[c][topic]
        BY <1>2, <3>7, Bounds DEF Registered
      <3>2. Calls(c, i) = {}
        BY <1>1, <1>2, <2>3 DEF Heard, Shape, Calls
      <3>3. Coming(c, i)' = Woken(i, topic, c, n)
        <4>1. \A p \in pending : p.id # i
          BY <1>2, <1>3, <2>3 DEF Underway
        <4> QED
          BY <1>1, <2>3, <3>7, <4>1 DEF Coming, Woken
      <3>4. IsFiniteSet(Woken(i, topic, c, n)) /\ Cardinality(Woken(i, topic, c, n)) = n
        BY <2>1, <3>1, Started
      <3>5. owed'[c][i] = n
        BY <1>5, <2>1, <2>3, <3>1
      <3>6. Cardinality(Calls(c, i)') = 0
        BY <2>1, <3>2, FS_EmptySet
      <3> QED
        BY <3>1, <3>3, <3>4, <3>5, <3>6
    <2> QED
      BY <2>2, <2>3
  <1>10. Heard'
    <2>1. ASSUME NEW c \in Ours PROVE heard'[c] \in Seq(Nat) /\ \A j \in DOMAIN heard'[c] : heard'[c][j] <= news'
      <3>1. heard[c] \in Seq(Nat) /\ \A j \in DOMAIN heard[c] : heard[c][j] \in Nat /\ heard[c][j] <= news
        BY <1>2 DEF Heard
      <3>2. \A x \in Nat : x <= news => x <= news'
        BY <1>1, <1>3
      <3> QED
        BY <1>1, <3>1, <3>2
    <2> QED
      BY <1>9, <2>1 DEF Heard
  <1> QED
    BY <1>6, <1>7, <1>8, <1>10 DEF Hearing

LEMMA DeliverHears ==
    ASSUME Hearing, NEW p \in pending, Deliver(p)
    PROVE  Hearing'
  <1>1. /\ pending' = pending \ {p} /\ UNCHANGED <<registry, news, wanted, owed>>
        /\ heard' = IF Understood(p.topic, Type(p.to)) THEN [heard EXCEPT ![p.to] = Append(@, p.id)]
                    ELSE heard
    BY DEF Deliver
  <1>2. Shape /\ Registered /\ Underway /\ Heard
    BY DEF Hearing
  <1>3. p.to \in Callbacks /\ p.id \in 1..news /\ news \in Nat /\ p.id \in Nat /\ p.id <= news
    BY <1>2 DEF Shape, Underway
  <1>4. Shape' /\ Registered' /\ Underway'
    BY <1>1, <1>2, <1>3 DEF Shape, Registered, Underway
  <1>5. ASSUME NEW c \in Ours, c # p.to
        PROVE  /\ heard'[c] = heard[c] /\ \A i \in 1..MaxNews : Coming(c, i)' = Coming(c, i)
    BY <1>1, <1>2, <1>5, OursAreCallbacks DEF Shape, Coming
  <1>6. ASSUME NEW c \in Ours, c = p.to, NEW i \in 1..MaxNews
        PROVE  /\ heard'[c] \in Seq(Nat) /\ \A j \in DOMAIN heard'[c] : heard'[c][j] <= news
               /\ owed'[c][i] \in Nat /\ IsFiniteSet(Coming(c, i)')
               /\ Cardinality(Calls(c, i)') + Cardinality(Coming(c, i)') = owed'[c][i]
    <2>1. Understood(p.topic, Type(p.to)) /\ heard' = [heard EXCEPT ![c] = Append(@, p.id)] /\ c \in DOMAIN heard
      BY <1>1, <1>2, <1>3, <1>6 DEF Underway, Shape
    <2>2. heard'[c] = Append(heard[c], p.id)
      BY <2>1
    <2>3. /\ heard[c] \in Seq(Nat) /\ \A j \in DOMAIN heard[c] : heard[c][j] <= news
          /\ owed[c][i] \in Nat /\ IsFiniteSet(Coming(c, i))
          /\ Cardinality(Calls(c, i)) + Cardinality(Coming(c, i)) = owed[c][i]
      BY <1>2 DEF Heard
    <2> DEFINE L == Len(heard[c])
    <2>4. /\ L \in Nat /\ DOMAIN heard[c] = 1..L /\ heard'[c] \in Seq(Nat) /\ DOMAIN heard'[c] = 1..(L + 1)
          /\ heard'[c][L + 1] = p.id /\ \A j \in 1..L : heard'[c][j] = heard[c][j]
      BY <1>3, <2>2, <2>3
    <2> HIDE DEF L
    <2>5. \A j \in 1..(L + 1) : j \in 1..L \/ j = L + 1
      BY <2>4
    <2>6. \A j \in DOMAIN heard'[c] : heard'[c][j] <= news
      BY <1>3, <2>3, <2>4, <2>5
    <2>7. /\ Calls(c, i)' = Calls(c, i) \union (IF p.id = i THEN {L + 1} ELSE {})
          /\ L + 1 \notin Calls(c, i) /\ Calls(c, i) \subseteq 1..L
      <3>1. L + 1 \notin 1..L /\ 1..(L + 1) = 1..L \union {L + 1}
        BY <2>4
      <3> QED
        BY <2>4, <3>1 DEF Calls
    <2>8. Coming(c, i)' = Coming(c, i) \ (IF p.id = i THEN {p} ELSE {}) /\ (p.id = i => p \in Coming(c, i))
      BY <1>1, <1>6 DEF Coming
    <2>9. IsFiniteSet(Calls(c, i))
      <3>1. IsFiniteSet(1..L)
        BY <2>4, FS_Interval
      <3> QED
        BY <2>7, <3>1, FS_Subset
    <2>10. Cardinality(Calls(c, i)) \in Nat /\ Cardinality(Coming(c, i)) \in Nat
      BY <2>3, <2>9, FS_CardinalityType
    <2>11. CASE p.id = i
      <3>1. Cardinality(Calls(c, i)') = Cardinality(Calls(c, i)) + 1
        BY <2>7, <2>9, <2>11, FS_AddElement
      <3>2. IsFiniteSet(Coming(c, i)') /\ Cardinality(Coming(c, i)') = Cardinality(Coming(c, i)) - 1
        BY <2>3, <2>8, <2>11, FS_RemoveElement
      <3> QED
        BY <1>1, <2>3, <2>4, <2>6, <2>10, <3>1, <3>2
    <2>12. CASE p.id # i
      <3>1. Calls(c, i)' = Calls(c, i) /\ Coming(c, i)' = Coming(c, i)
        BY <2>7, <2>8, <2>12
      <3> QED
        BY <1>1, <2>3, <2>4, <2>6, <3>1
    <2> QED
      BY <2>11, <2>12
  <1>7. Heard'
    <2> SUFFICES ASSUME NEW c \in Ours
                 PROVE  /\ heard'[c] \in Seq(Nat) /\ \A j \in DOMAIN heard'[c] : heard'[c][j] <= news'
                        /\ \A i \in 1..MaxNews :
                             /\ owed'[c][i] \in Nat /\ IsFiniteSet(Coming(c, i)')
                             /\ Cardinality(Calls(c, i)') + Cardinality(Coming(c, i)') = owed'[c][i]
      BY DEF Heard
    <2>1. CASE c = p.to
      <3>1. 1 \in 1..MaxNews
        BY <1>2, <1>3, Bounds DEF Shape
      <3> QED
        BY <1>1, <1>6, <2>1, <3>1
    <2>2. CASE c # p.to
      BY <1>1, <1>2, <1>5, <2>2 DEF Heard, Calls
    <2> QED
      BY <2>1, <2>2
  <1> QED
    BY <1>4, <1>7 DEF Hearing

LEMMA HearingStep ==
    ASSUME Hearing, [Next]_vars
    PROVE  Hearing'
  <1>1. CASE UNCHANGED <<registry, pending, heard, news, wanted, owed>>
    BY <1>1 DEF Hearing, Shape, Registered, Underway, Heard, Coming, Calls
  <1>2. ASSUME NEW c \in Callbacks, (\E k \in Keys : Watch(c, k)) \/ OnConfigChange(c) \/ OnSyncComplete(c)
        PROVE  Hearing'
    <2>1. CASE \E k \in Keys : Watch(c, k)
      <3>1. PICK k \in Keys : c \in OfWatch /\ Register(c, {k}, {k})
        BY <2>1 DEF Watch
      <3>2. {k} \in SUBSET Topics /\ {k} \subseteq Keys /\ c \notin OfConfigChange
        BY <3>1, Bounds DEF Topics
      <3> QED
        BY <3>1, <3>2, RegisterHears
    <2>2. CASE OnConfigChange(c)
      <3> DEFINE topics == Events \intersect ConfigEvents
      <3>1. c \in OfConfigChange /\ Register(c, topics, topics) /\ topics \in SUBSET Topics /\ c \notin OfWatch
        BY <2>2, Bounds DEF OnConfigChange, Topics
      <3> QED
        BY <3>1, RegisterHears
    <2>3. CASE OnSyncComplete(c)
      <3> DEFINE topics == Events \intersect {"sync.completed"}
      <3>1. /\ c \notin OfConfigChange /\ c \notin OfWatch
            /\ Register(c, topics, topics) /\ topics \in SUBSET Topics
        BY <2>3, Bounds DEF OnSyncComplete, Topics
      <3> QED
        BY <3>1, RegisterHears
    <2> QED
      BY <1>2, <2>1, <2>2, <2>3
  <1>3. ASSUME NEW t \in Topics, Notify(t), UNCHANGED <<registry, heard>> PROVE Hearing'
    BY <1>3, NotifyHears
  <1>4. CASE (\E e \in Events : Emit(e)) \/ \E k \in Keys : (\E v \in Values : Write(k, v)) \/ ImportWrite(k)
    BY <1>3, <1>4 DEF Emit, Write, ImportWrite, Topics
  <1>5. CASE (\E k \in Keys : Delete(k) \/ ExportRead(k)) \/ ExportList \/ ExportEnd \/ ImportBegin
             \/ ImportFails
    BY <1>1, <1>5 DEF Delete, ExportRead, ExportList, ExportEnd, ImportBegin, ImportFails
  <1>6. CASE \E c \in Callbacks : Delivery(c)
    BY <1>6, DeliverHears DEF Delivery
  <1> QED
    BY <1>1, <1>2, <1>4, <1>5, <1>6 DEF Next, Use, Subscribe, vars

\* A watcher and a subscriber of OnConfigChange hear of each change once for every time they had
\* subscribed before it, and of nothing else (storage.go:161, event_bus.go:67).
THEOREM EachHearsOnce == Spec => []HeardOncePerSubscription
  <1>1. Init => Hearing
    <2> SUFFICES ASSUME Init PROVE Hearing
      OBVIOUS
    <2>1. Shape /\ Registered /\ Underway
      BY Bounds, OursAreCallbacks DEF Init, Shape, Registered, Underway
    <2>2. ASSUME NEW c \in Ours PROVE heard[c] = <<>> /\ \A i \in 1..MaxNews : owed[c][i] = 0 /\ Coming(c, i) = {}
      BY <2>2, OursAreCallbacks DEF Init, Coming
    <2>3. \A c \in Ours, i \in 1..MaxNews : Calls(c, i) = {}
      BY <2>2 DEF Calls
    <2>4. ASSUME NEW c \in Ours, NEW i \in 1..MaxNews
          PROVE  /\ owed[c][i] \in Nat /\ IsFiniteSet(Coming(c, i))
                 /\ Cardinality(Calls(c, i)) + Cardinality(Coming(c, i)) = owed[c][i]
      <3>1. IsFiniteSet(Coming(c, i)) /\ Cardinality(Calls(c, i)) = 0 /\ Cardinality(Coming(c, i)) = 0
        BY <2>2, <2>3, FS_EmptySet
      <3> QED
        BY <2>2, <3>1
    <2>5. \A c \in Ours : heard[c] \in Seq(Nat) /\ \A j \in DOMAIN heard[c] : heard[c][j] <= news
      <3>1. <<>> \in Seq(Nat) /\ DOMAIN <<>> = {}
        OBVIOUS
      <3> QED
        BY <2>2, <3>1
    <2>6. Heard
      BY <2>4, <2>5 DEF Heard
    <2> QED
      BY <2>1, <2>6 DEF Hearing
  <1>2. Hearing => HeardOncePerSubscription
    BY DEF Hearing, Heard, HeardOncePerSubscription, Times, OnTheWay, Coming, Calls, Ours
  <1> QED
    BY <1>1, <1>2, HearingStep, PTL DEF Spec

(***************************************************************************)
(* Wire.                                                                   *)
(***************************************************************************)

LEMMA WireFacts ==
    /\ MaxCalls \in Nat
    /\ Composed \subseteq ServerConfig
    /\ NoServer \notin EngineServers /\ NoServer \notin ServerConfig
    /\ NoServer \notin [body : Bodies, on : BOOLEAN]
    /\ \A f \in Files : IsConfig(f)
    /\ \A t \in Trees : IsTree(t) /\ \A p \in DOMAIN t :
         \A content \in Range(t[p].files) \ {Garbled} : \A section \in Range(content) :
           /\ IsFiniteSet(DOMAIN section)
           /\ \A b \in Range(section) : b \in Bodies /\ Substituted(b) \in Bodies
  BY WireAssumption DEF WireAssumption

-----------------------------------------------------------------------------
(* Messages and the engine's values.                                       *)

\* Metadata become texts, and texts stay what they are.
LEMMA MetasBecomeTexts ==
    ASSUME NEW meta \in Metas
    PROVE  /\ ToTexts(meta) \in {m \in Metas : m \subseteq Texts}
           /\ meta \subseteq Texts => ToTexts(meta) = meta
  <1> DEFINE Text(v) == [text |-> TRUE, v |-> v]
  <1>1. Texts = {Text("a"), Text("7")}
    BY DEF Texts
  <1>2. meta = {} \/ (\E x \in Texts : meta = {x}) \/ meta = {[text |-> FALSE, v |-> "7"]}
    BY DEF Metas
  <1>3. CASE meta = {}
    BY <1>3 DEF ToTexts, Metas
  <1>4. ASSUME NEW x \in Texts, meta = {x} PROVE ToTexts(meta) = {x}
    <2>1. [text |-> TRUE, v |-> x.v] = x
      BY <1>1
    <2>2. ToTexts(meta) = {[text |-> TRUE, v |-> x.v]}
      BY <1>4 DEF ToTexts
    <2> QED
      BY <2>1, <2>2
  <1>5. CASE meta = {[text |-> FALSE, v |-> "7"]}
    <2>1. ToTexts(meta) = {Text("7")}
      BY <1>5 DEF ToTexts
    <2>2. [text |-> FALSE, v |-> "7"] \notin Texts
      BY <1>1
    <2> QED
      BY <1>1, <1>5, <2>1, <2>2 DEF Metas
  <1> QED
    BY <1>2, <1>3, <1>4, <1>5 DEF Metas

\* A server's message is well formed and carries its transport, command, URL and state.
LEMMA ToWireTypes ==
    ASSUME NEW s \in EngineServers
    PROVE  /\ serverToWire(s) \in ServerConfig
           /\ serverToWire(s).body = s.body /\ serverToWire(s).on = s.on
           /\ s.body \in Bodies /\ s.on \in BOOLEAN
  <1>1. ToTexts(s.meta) \in {m \in Metas : m \subseteq Texts}
    BY MetasBecomeTexts DEF EngineServers
  <1> QED
    BY <1>1 DEF serverToWire, ServerConfig, EngineServers

\* What comes in is a server of the engine, and would go out as it came.
LEMMA FromWireTypes ==
    ASSUME NEW m \in ServerConfig
    PROVE  /\ protoToServerConfig(m) \in EngineServers
           /\ serverToWire(protoToServerConfig(m)) = m
           /\ protoToServerConfig(m).body = m.body /\ m.body \in Bodies
  <1>1. m.meta \in Metas /\ ToTexts(m.meta) = m.meta /\ m.body \in Bodies /\ m.on \in BOOLEAN
    BY MetasBecomeTexts DEF ServerConfig
  <1>2. m = [body |-> m.body, on |-> m.on, meta |-> m.meta]
    BY DEF ServerConfig
  <1> QED
    BY <1>1, <1>2 DEF protoToServerConfig, serverToWire, EngineServers

\* No server, and only no server, looks like none.
LEMMA ViewsTell ==
    /\ \A s \in EngineServers \union ServerConfig :
         /\ View(s) = [body |-> s.body, on |-> s.on]
         /\ View(s) \in [body : Bodies, on : BOOLEAN] /\ View(s) # NoServer
    /\ View(NoServer) = NoServer
  <1>1. ASSUME NEW s \in EngineServers \union ServerConfig
        PROVE  s # NoServer /\ [body |-> s.body, on |-> s.on] \in [body : Bodies, on : BOOLEAN]
    <2>1. s # NoServer
      BY WireFacts
    <2>2. s.body \in Bodies /\ s.on \in BOOLEAN
      BY DEF EngineServers, ServerConfig
    <2> QED
      BY <2>1, <2>2
  <1> QED
    BY <1>1, WireFacts DEF View

-----------------------------------------------------------------------------
(* Projects.                                                               *)

\* A set of natural numbers that is not empty has a least element, and a bounded one a greatest.
LEMMA FirstIndex ==
    ASSUME NEW T, T \subseteq Nat, T # {}
    PROVE  Min(T) \in T /\ \A x \in T : Min(T) <= x
  <1> DEFINE R == OpToRel(<, Nat)
  <1>1. \A x, y \in Nat : x < y => <<x, y>> \in R
    BY DEF OpToRel
  <1>2. IsWellFoundedOn(R, Nat)
    BY NatLessThanWellFounded
  <1> HIDE DEF R
  <1>3. \E x \in T : \A y \in T : ~ (<<y, x>> \in R)
    BY <1>2, WFMin
  <1>4. PICK x \in T : \A y \in T : ~ (<<y, x>> \in R)
    BY <1>3
  <1>5. \A y \in T : x \in Nat /\ y \in Nat /\ ~ (y < x)
    BY <1>1, <1>4
  <1>6. \E m \in T : \A y \in T : m <= y
    BY <1>5
  <1> QED
    BY <1>6 DEF Min

\* The first of a list that is in a set is in that set, and in the list.
LEMMA FirstIsThere ==
    ASSUME NEW list, DOMAIN list \subseteq Nat, NEW S, \E i \in DOMAIN list : list[i] \in S
    PROVE  FirstOf(list, S) \in S /\ FirstOf(list, S) \in Range(list)
  <1> DEFINE places == {i \in DOMAIN list : list[i] \in S}
  <1>1. places \subseteq Nat /\ places # {}
    OBVIOUS
  <1>2. Min(places) \in places
    <2> HIDE DEF places
    <2> QED
      BY <1>1, FirstIndex
  <1> QED
    BY <1>2 DEF FirstOf, Range

LEMMA LastIndex ==
    ASSUME NEW n \in Nat, NEW T, T \subseteq 1..n, T # {}
    PROVE  Max(T) \in T /\ \A x \in T : x <= Max(T)
  <1> DEFINE Down == {n - x : x \in T}
  <1>1. \A x \in T : x \in Nat /\ n - x \in Nat
    OBVIOUS
  <1>2. Down \subseteq Nat /\ Down # {}
    BY <1>1
  <1>3. Min(Down) \in Down /\ \A d \in Down : Min(Down) <= d
    <2> HIDE DEF Down
    <2> QED
      BY <1>2, FirstIndex
  <1>4. PICK x \in T : Min(Down) = n - x
    BY <1>3
  <1>5. \A y \in T : n - x <= n - y
    BY <1>3, <1>4
  <1>6. \E m \in T : \A y \in T : m >= y
    BY <1>1, <1>5
  <1>7. Max(T) \in T /\ \A y \in T : Max(T) >= y
    BY <1>6 DEF Max
  <1> QED
    BY <1>1, <1>7

\* The servers a project is registered with are those of its list, by command, and the
\* last of each command goes out as it came.
LEMMA RegisteredServers ==
    ASSUME NEW list \in ProjectConfig
    PROVE  LET servers == pbToEngineProjectConfig(list) IN
           /\ DOMAIN servers = {s.body.command : s \in Range(list)}
           /\ IsFiniteSet(DOMAIN servers) /\ Range(servers) \subseteq EngineServers
           /\ \A i \in DOMAIN list :
                LET later == {j \in DOMAIN list : list[j].body.command = list[i].body.command} IN
                (\A j \in later : j <= i) => serverToWire(servers[list[i].body.command]) = list[i]
  <1> DEFINE servers == pbToEngineProjectConfig(list)
             Commands == {s.body.command : s \in Range(list)}
             Of(k) == {i \in DOMAIN list : list[i].body.command = k}
             command == [i \in DOMAIN list |-> list[i].body.command]
  <1>1. /\ Len(list) \in Nat /\ DOMAIN list = 1..Len(list)
        /\ \A i \in DOMAIN list : list[i] \in ServerConfig
    BY DEF ProjectConfig
  <1>2. Commands = {list[i].body.command : i \in DOMAIN list}
    BY DEF Range
  <1>3. IsFiniteSet(Commands)
    <2>1. command \in Surjection(DOMAIN list, Commands)
      BY <1>2 DEF Surjection
    <2>2. IsFiniteSet(DOMAIN list)
      BY <1>1, FS_Interval
    <2> HIDE DEF command, Commands
    <2> QED
      BY <2>1, <2>2, FS_Surjection
  <1>4. ASSUME NEW k \in Commands PROVE Max(Of(k)) \in Of(k) /\ \A i \in Of(k) : i <= Max(Of(k))
    <2>1. Of(k) \subseteq 1..Len(list) /\ Of(k) # {}
      BY <1>1, <1>2
    <2> HIDE DEF Of
    <2> QED
      BY <1>1, <2>1, LastIndex
  <1>5. servers = [k \in Commands |-> protoToServerConfig(list[Max(Of(k))])]
    BY DEF pbToEngineProjectConfig
  <1>6. Range(servers) \subseteq EngineServers
    <2> SUFFICES ASSUME NEW k \in Commands PROVE servers[k] \in EngineServers
      BY <1>5 DEF Range
    <2>1. list[Max(Of(k))] \in ServerConfig
      BY <1>1, <1>4
    <2> QED
      BY <1>5, <2>1, FromWireTypes
  <1>7. ASSUME NEW i \in DOMAIN list, \A j \in Of(list[i].body.command) : j <= i
        PROVE  serverToWire(servers[list[i].body.command]) = list[i]
    <2> DEFINE k == list[i].body.command
    <2>1. k \in Commands /\ i \in Of(k)
      BY <1>2
    <2>2. Max(Of(k)) = i
      <3>1. Max(Of(k)) \in Of(k) /\ i <= Max(Of(k))
        BY <1>4, <2>1
      <3>2. Max(Of(k)) <= i /\ Max(Of(k)) \in DOMAIN list
        BY <1>7, <3>1
      <3> QED
        BY <1>1, <3>1, <3>2
    <2>3. servers[k] = protoToServerConfig(list[i])
      BY <1>5, <2>1, <2>2
    <2> QED
      BY <1>1, <2>3, FromWireTypes
  <1> QED
    BY <1>3, <1>5, <1>6, <1>7

\* A project goes out as a list of servers.
LEMMA ProjectListTypes ==
    ASSUME NEW servers, IsFiniteSet(DOMAIN servers), Range(servers) \subseteq EngineServers,
           NEW list \in engineProjectConfigToPB(servers)
    PROVE  list \in ProjectConfig
  <1> DEFINE n == Cardinality(DOMAIN servers)
  <1>1. PICK order \in SetToSeqs(DOMAIN servers) : list = [i \in DOMAIN order |-> serverToWire(servers[order[i]])]
    BY DEF engineProjectConfigToPB
  <1>2. order \in [1..n -> DOMAIN servers]
    BY DEF SetToSeqs
  <1>3. n \in Nat
    BY FS_CardinalityType
  <1>4. \A i \in 1..n : serverToWire(servers[order[i]]) \in ServerConfig
    BY <1>2, ToWireTypes DEF Range
  <1>5. list \in [1..n -> ServerConfig]
    BY <1>1, <1>2, <1>4
  <1> HIDE DEF n
  <1>6. list \in Seq(ServerConfig)
    BY <1>3, <1>5, SeqDef
  <1> QED
    BY <1>6 DEF ProjectConfig

\* A scan looks at directories of the tree only.
LEMMA FoundInTree ==
    ASSUME NEW t, NEW scan, NEW paths
    PROVE  DOMAIN ScanForProjects(t, scan, paths) \subseteq DOMAIN t
  <1>1. \A p : scanPath(t, scan, p) \subseteq DOMAIN t
    BY DEF scanPath, scanDirectory, IsProjectRoot
  <1> QED
    BY <1>1 DEF ScanForProjects

\* What a scan makes of a project's files are servers of the engine.
LEMMA DetectedTypes ==
    ASSUME NEW t \in Trees, NEW p \in DOMAIN t
    PROVE  LET servers == Scanned(DetectProject(t[p].files)) IN
           IsFiniteSet(DOMAIN servers) /\ Range(servers) \subseteq EngineServers
  <1> DEFINE files  == t[p].files
             bodies == DetectProject(files)
             none   == [n \in {} |-> n]
             parsed == {f \in DOMAIN files : f \in Range(McpConfigs) /\ files[f] # Garbled}
  <1>1. IsFiniteSet(DOMAIN none) /\ \A b \in Range(none) : b \in Bodies /\ Substituted(b) \in Bodies
    BY FS_EmptySet DEF Range
  <1>2. ASSUME parsed # {}
        PROVE  bodies = none \/ \E content \in Range(files) \ {Garbled} : bodies \in Range(content)
    <2>1. DOMAIN McpConfigs \subseteq Nat /\ DOMAIN Sections \subseteq Nat
      BY DEF McpConfigs, Sections
    <2>2. FirstOf(McpConfigs, parsed) \in parsed
      <3>1. \E i \in DOMAIN McpConfigs : McpConfigs[i] \in parsed
        BY <1>2 DEF Range
      <3> HIDE DEF parsed
      <3> QED
        BY <2>1, <3>1, FirstIsThere
    <2> DEFINE content == files[FirstOf(McpConfigs, parsed)]
    <2>3. content \in Range(files) \ {Garbled}
      BY <2>2 DEF Range
    <2>4. bodies = ToConfig(content)
      BY <1>2 DEF DetectProject
    <2> HIDE DEF content
    <2>5. ASSUME Range(Sections) \intersect DOMAIN content # {}
          PROVE  FirstOf(Sections, DOMAIN content) \in DOMAIN content
      <3>1. \E i \in DOMAIN Sections : Sections[i] \in DOMAIN content
        BY <2>5 DEF Range
      <3> QED
        BY <2>1, <3>1, FirstIsThere
    <2>6. ToConfig(content) = none \/ ToConfig(content) \in Range(content)
      BY <2>5 DEF ToConfig, Range
    <2> QED
      BY <2>3, <2>4, <2>6
  <1>3. parsed = {} => bodies = none
    BY DEF DetectProject
  <1>4. IsFiniteSet(DOMAIN bodies) /\ \A b \in Range(bodies) : b \in Bodies /\ Substituted(b) \in Bodies
    BY <1>1, <1>2, <1>3, WireFacts
  <1> HIDE DEF bodies
  <1>5. \A n \in DOMAIN bodies : Substituted(bodies[n]) \in Bodies
    BY <1>4 DEF Range
  <1>6. {} \in Metas
    BY DEF Metas
  <1> DEFINE servers == Scanned(bodies)
  <1>7. DOMAIN servers = DOMAIN bodies /\ \A n \in DOMAIN bodies : servers[n] \in EngineServers
    BY <1>5, <1>6 DEF Scanned, EngineServers
  <1> HIDE DEF servers
  <1>8. IsFiniteSet(DOMAIN servers) /\ Range(servers) \subseteq EngineServers
    BY <1>4, <1>7 DEF Range
  <1> QED
    BY <1>8 DEF servers, bodies

-----------------------------------------------------------------------------
(* Steps.                                                                  *)

\* one client gets an answer, which is no configuration
Answered(c) ==
    /\ calls' \in 0..MaxCalls
    /\ \E a : held' = [held EXCEPT ![c] = a] /\ IsAnswer(a) /\ a.kind # "config"

\* nothing else happens
OnlyRead == UNCHANGED <<config, file, saving, tree, observers>>

\* one server changes: a new one and a new body have been validated
OneServer ==
    \E n \in Names, s \in EngineServers \union {NoServer} :
      /\ WriteServer(n, s)
      /\ s # NoServer => \/ Valid(s.body)
                         \/ Servers[n] # NoServer /\ s.body = Servers[n].body

Effects ==
    \/ UNCHANGED wireVars
    \/ \E c \in Clients : GetConfig(c)
    \/ \E c \in Clients :
         /\ Answered(c)
         /\ \/ OnlyRead
            \/ OneServer
            \/ \E sent \in Editions(c) : SetConfig(c, sent)
            \/ LoadConfig(c)
            \/ \E r \in RegisterProjectRequest : RegisterProject(c, r)

\* Answers without servers.
LEMMA SmallAnswers ==
    /\ IsAnswer(NoAnswer) /\ NoAnswer.kind # "config"
    /\ \A n \in Names : LET a == [kind |-> "awaited", name |-> n] IN IsAnswer(a) /\ a.kind # "config"
  BY DEF IsAnswer, NoAnswer, Awaited

\* The kind of an answer tells what it is.
LEMMA KindsTell ==
    ASSUME NEW a, IsAnswer(a)
    PROVE  /\ a.kind = "awaited" => a.name \in Names
           /\ a.kind = "server"  => a.server \in ServerInfo
           /\ a.kind = "servers" => a.infos \subseteq ServerInfo
           /\ a.kind = "config"  => a.servers \in [Names -> ServerConfig \union {NoServer}]
           /\ a.kind = "project" => a.config \in ProjectConfig
           /\ a.kind \in {"found", "projects"} => \A p \in a.projects : p.config \in ProjectConfig
  BY DEF IsAnswer, NoAnswer, Awaited, ServerResponse, Config

\* A call that is answered.
LEMMA CalledAnswers ==
    ASSUME WireTypeOK, NEW c \in Clients, NEW a, Called(c, a), IsAnswer(a), a.kind # "config"
    PROVE  Answered(c)
  <1>1. calls' \in 0..MaxCalls
    BY WireFacts DEF WireTypeOK, Called
  <1> QED
    BY <1>1 DEF Answered, Called

\* What the engine holds under a name.
LEMMA StandingServers ==
    ASSUME WireTypeOK, NEW n \in Names
    PROVE  Servers[n] \in EngineServers \union {NoServer}
  BY DEF WireTypeOK, IsConfig, Servers

\* Clients send servers that are well formed, and register lists of them.
LEMMA SendableTypes ==
    ASSUME WireTypeOK, NEW c \in Clients, NEW n \in Names, NEW m \in Sendable(c, n)
    PROVE  m \in ServerConfig
  <1>1. IsAnswer(held[c])
    BY DEF WireTypeOK
  <1>2. CASE held[c].kind = "server"
    <2>1. held[c].server.config \in ServerConfig
      BY <1>1, <1>2, KindsTell DEF ServerInfo
    <2> QED
      BY <1>2, <2>1, WireFacts DEF Sendable
  <1>3. CASE held[c].kind = "servers"
    <2>1. held[c].infos \subseteq ServerInfo
      BY <1>1, <1>3, KindsTell
    <2>2. \A i \in ServerInfo : i.config \in ServerConfig
      BY DEF ServerInfo
    <2> QED
      BY <1>3, <2>1, <2>2, WireFacts DEF Sendable
  <1> QED
    BY <1>2, <1>3, WireFacts DEF Sendable

LEMMA RegistrableTypes ==
    ASSUME WireTypeOK, NEW c \in Clients, NEW list \in Registrable(c)
    PROVE  list \in ProjectConfig
  <1>1. IsAnswer(held[c])
    BY DEF WireTypeOK
  <1>2. \A m \in Composed : <<m>> \in ProjectConfig
    BY WireFacts DEF ProjectConfig
  <1>3. CASE held[c].kind = "project"
    BY <1>1, <1>3, KindsTell DEF Registrable
  <1>4. CASE held[c].kind \in {"found", "projects"}
    BY <1>1, <1>4, KindsTell DEF Registrable
  <1> QED
    BY <1>2, <1>3, <1>4 DEF Registrable

\* The answer about one server.
LEMMA ServerAnswers ==
    ASSUME WireTypeOK, NEW n \in Names
    PROVE  IsAnswer(ServerAnswer(n)) /\ ServerAnswer(n).kind # "config"
  <1>1. CASE Servers[n] = NoServer
    BY <1>1, SmallAnswers DEF ServerAnswer
  <1>2. CASE Servers[n] # NoServer
    <2>1. Servers[n] \in EngineServers
      BY <1>2, StandingServers
    <2>2. serverToWire(Servers[n]) \in ServerConfig /\ Servers[n].source \in {"user", ""}
      BY <2>1, ToWireTypes DEF EngineServers
    <2>3. serverToProto(n, Servers[n]) \in ServerInfo
      BY <2>2 DEF serverToProto, ServerInfo
    <2>4. ServerAnswer(n) = [kind |-> "server", server |-> serverToProto(n, Servers[n])]
      BY <1>2 DEF ServerAnswer
    <2> QED
      BY <2>3, <2>4 DEF IsAnswer, ServerResponse
  <1> QED
    BY <1>1, <1>2

\* Calls about one server.
LEMMA ServerCallEffects ==
    ASSUME WireTypeOK, NEW c \in Clients, ServerCall(c)
    PROVE  Effects
  <1>1. ASSUME NEW n \in Names, NEW m \in Sendable(c, n), AddServer(c, [name |-> n, config |-> m])
        PROVE  Effects
    <2> DEFINE s == [protoToServerConfig(m) EXCEPT !.on = TRUE, !.all = TRUE, !.source = "user"]
    <2>1. m \in ServerConfig
      BY SendableTypes
    <2>2. /\ Valid(m.body) /\ WriteServer(n, s)
          /\ Called(c, [kind |-> "awaited", name |-> n])
      BY <1>1 DEF AddServer
    <2>3. s \in EngineServers /\ s.body = m.body
      BY <2>1, FromWireTypes DEF protoToServerConfig, EngineServers
    <2>4. OneServer
      BY <2>2, <2>3 DEF OneServer
    <2>5. Answered(c)
      BY <2>2, CalledAnswers, SmallAnswers
    <2> QED
      BY <2>4, <2>5 DEF Effects
  <1>2. ASSUME NEW n \in Names, NEW m \in Sendable(c, n), UpdateServer(c, [name |-> n, config |-> m])
        PROVE  Effects
    <2> DEFINE new == protoToServerConfig(m)
               s == [Servers[n] EXCEPT !.body = new.body, !.headers = new.headers, !.meta = new.meta]
    <2>1. m \in ServerConfig
      BY SendableTypes
    <2>2. /\ Valid(m.body) /\ WriteServer(n, s) /\ Servers[n] # NoServer
          /\ Called(c, [kind |-> "awaited", name |-> n])
      BY <1>2 DEF UpdateServer
    <2>3. Servers[n] \in EngineServers /\ new \in EngineServers /\ new.body = m.body
      BY <2>1, <2>2, FromWireTypes, StandingServers
    <2>4. s \in EngineServers /\ s.body = m.body
      <3> HIDE DEF new
      <3> QED
        BY <2>3 DEF EngineServers
    <2>5. OneServer
      BY <2>2, <2>4 DEF OneServer
    <2>6. Answered(c)
      BY <2>2, CalledAnswers, SmallAnswers
    <2> QED
      BY <2>5, <2>6 DEF Effects
  <1>3. ASSUME NEW r, r.name \in Names, NEW on \in BOOLEAN, Enable(c, r, on) PROVE Effects
    <2> DEFINE n == r.name
               s == [Servers[n] EXCEPT !.on = on]
    <2>1. /\ WriteServer(n, s) /\ Servers[n] # NoServer
          /\ Called(c, [kind |-> "awaited", name |-> n])
      BY <1>3 DEF Enable
    <2>2. Servers[n] \in EngineServers
      BY <1>3, <2>1, StandingServers
    <2>3. s \in EngineServers /\ s.body = Servers[n].body
      BY <2>2 DEF EngineServers
    <2>4. OneServer
      BY <1>3, <2>1, <2>3 DEF OneServer
    <2>5. Answered(c)
      BY <1>3, <2>1, CalledAnswers, SmallAnswers
    <2> QED
      BY <2>4, <2>5 DEF Effects
  <1>4. ASSUME NEW r \in RemoveServerRequest, RemoveServer(c, r) PROVE Effects
    <2>1. r.name \in Names /\ WriteServer(r.name, NoServer) /\ Called(c, NoAnswer)
      BY <1>4 DEF RemoveServer, RemoveServerRequest
    <2>2. OneServer
      BY <2>1 DEF OneServer
    <2>3. Answered(c)
      BY <2>1, CalledAnswers, SmallAnswers
    <2> QED
      BY <2>2, <2>3 DEF Effects
  <1>5. ASSUME NEW r \in GetServerRequest, GetServer(c, r) PROVE Effects
    <2>1. r.name \in Names /\ Called(c, ServerAnswer(r.name)) /\ OnlyRead
      BY <1>5 DEF GetServer, Reading, GetServerRequest, OnlyRead
    <2>2. Answered(c)
      BY <2>1, CalledAnswers, ServerAnswers
    <2> QED
      BY <2>1, <2>2 DEF Effects
  <1>6. ASSUME NEW r \in ListServersRequest, ListServers(c, r) PROVE Effects
    <2> DEFINE infos == {listedToProto(n, Servers[n]) :
                           n \in {n \in Names : Servers[n] # NoServer /\ Matches(Servers[n], r.filter)}}
               a == [kind |-> "servers", infos |-> infos]
    <2>1. Called(c, a) /\ OnlyRead
      BY <1>6 DEF ListServers, Reading, OnlyRead
    <2>2. ASSUME NEW n \in Names, Servers[n] # NoServer PROVE listedToProto(n, Servers[n]) \in ServerInfo
      <3>1. Servers[n].on \in BOOLEAN
        BY <2>2, StandingServers DEF EngineServers
      <3>2. NoBody \in Bodies
        BY DEF Bodies
      <3>3. {} \in {x \in Metas : x \subseteq Texts}
        BY DEF Metas
      <3> QED
        BY <3>1, <3>2, <3>3 DEF listedToProto, ServerInfo, ServerConfig
    <2>3. infos \subseteq ServerInfo
      BY <2>2
    <2> HIDE DEF infos
    <2>4. IsAnswer(a) /\ a.kind # "config"
      BY <2>3 DEF IsAnswer
    <2>5. Answered(c)
      BY <2>1, <2>4, CalledAnswers
    <2> QED
      BY <2>1, <2>5 DEF Effects
  <1> QED
    BY <1>1, <1>2, <1>3, <1>4, <1>5, <1>6
    DEF ServerCall, EnableServer, DisableServer, EnableServerRequest, DisableServerRequest

\* The answer of GetConfig.
LEMMA ConfigAnswers ==
    ASSUME WireTypeOK
    PROVE  LET sent == engineConfigToProto(Servers) IN
           /\ sent \in [Names -> ServerConfig \union {NoServer}]
           /\ \A n \in Names : View(sent[n]) = View(Servers[n])
           /\ \A n \in Names : sent[n] # NoServer => Servers[n] # NoServer /\ sent[n].body = Servers[n].body
  <1> DEFINE m(n) == [body |-> Servers[n].body, on |-> Servers[n].on, meta |-> {}]
             sent == engineConfigToProto(Servers)
  <1>1. {} \in {x \in Metas : x \subseteq Texts}
    BY DEF Metas
  <1>2. ASSUME NEW n \in Names, Servers[n] # NoServer
        PROVE  m(n) \in ServerConfig /\ View(m(n)) = View(Servers[n])
    <2>1. Servers[n] \in EngineServers
      BY <1>2, StandingServers
    <2>2. m(n) \in ServerConfig
      BY <1>1, <2>1 DEF ServerConfig, EngineServers
    <2>3. View(m(n)) = [body |-> m(n).body, on |-> m(n).on]
      <3> HIDE DEF m
      <3> QED
        BY <2>2, ViewsTell
    <2>4. View(Servers[n]) = [body |-> Servers[n].body, on |-> Servers[n].on]
      BY <2>1, ViewsTell
    <2> QED
      BY <2>2, <2>3, <2>4
  <1>3. sent = [n \in Names |-> IF Servers[n] = NoServer THEN NoServer ELSE m(n)]
    BY DEF engineConfigToProto
  <1>4. \A n \in Names : Servers[n] # NoServer => m(n).body = Servers[n].body
    OBVIOUS
  <1> HIDE DEF sent, m
  <1>5. sent \in [Names -> ServerConfig \union {NoServer}]
    BY <1>2, <1>3
  <1>6. ASSUME NEW n \in Names PROVE View(sent[n]) = View(Servers[n])
    <2>1. CASE Servers[n] = NoServer
      BY <1>3, <2>1
    <2>2. CASE Servers[n] # NoServer
      BY <1>2, <1>3, <2>2
    <2> QED
      BY <2>1, <2>2
  <1>7. \A n \in Names : sent[n] # NoServer => Servers[n] # NoServer /\ sent[n].body = Servers[n].body
    BY <1>3, <1>4
  <1> QED
    BY <1>5, <1>6, <1>7 DEF sent

\* Calls about the whole configuration.
LEMMA ConfigCallEffects ==
    ASSUME WireTypeOK, NEW c \in Clients, ConfigCall(c)
    PROVE  Effects
  <1>1. CASE GetConfig(c)
    BY <1>1 DEF Effects
  <1>2. ASSUME NEW sent \in Editions(c), SetConfig(c, sent) PROVE Effects
    <2>1. Called(c, NoAnswer)
      BY <1>2 DEF SetConfig
    <2>2. Answered(c)
      BY <2>1, CalledAnswers, SmallAnswers
    <2> QED
      BY <1>2, <2>2 DEF Effects
  <1>3. CASE LoadConfig(c)
    <2>1. Called(c, NoAnswer)
      BY <1>3 DEF LoadConfig
    <2>2. Answered(c)
      BY <2>1, CalledAnswers, SmallAnswers
    <2> QED
      BY <1>3, <2>2 DEF Effects
  <1> QED
    BY <1>1, <1>2, <1>3 DEF ConfigCall

\* Calls about projects.
LEMMA ProjectCallEffects ==
    ASSUME WireTypeOK, NEW c \in Clients, ProjectCall(c)
    PROVE  Effects
  <1>1. ASSUME NEW r, ScanForProjects1(c, r) PROVE Effects
    <2> DEFINE found == DOMAIN ScanForProjects(tree, config.scan, {r.root})
               projects == [p \in found |-> Scanned(DetectProject(tree[p].files))]
    <2>1. PICK answer \in Listed(projects) : Reading(c, [kind |-> "found", projects |-> answer])
      BY <1>1 DEF ScanForProjects1
    <2>2. found \subseteq DOMAIN tree
      BY FoundInTree
    <2>3. \A p \in found : \A list \in engineProjectConfigToPB(projects[p]) : list \in ProjectConfig
      <3> SUFFICES ASSUME NEW p \in found, NEW list \in engineProjectConfigToPB(projects[p])
                   PROVE  list \in ProjectConfig
        OBVIOUS
      <3> DEFINE servers == Scanned(DetectProject(tree[p].files))
      <3>1. tree \in Trees /\ p \in DOMAIN tree
        BY <2>2 DEF WireTypeOK
      <3>2. IsFiniteSet(DOMAIN servers) /\ Range(servers) \subseteq EngineServers
        BY <3>1, DetectedTypes
      <3>3. list \in engineProjectConfigToPB(servers)
        OBVIOUS
      <3> HIDE DEF servers
      <3> QED
        BY <3>2, <3>3, ProjectListTypes
    <2>4. \A i \in answer : i.config \in ProjectConfig
      <3> HIDE DEF found
      <3>1. DOMAIN projects = found
        OBVIOUS
      <3> HIDE DEF projects
      <3> QED
        BY <2>1, <2>3, <3>1 DEF Listed
    <2> DEFINE a == [kind |-> "found", projects |-> answer]
    <2>5. IsAnswer(a) /\ a.kind # "config"
      BY <2>4 DEF IsAnswer
    <2>6. Called(c, a) /\ OnlyRead
      BY <2>1 DEF Reading, OnlyRead
    <2>7. Answered(c)
      <3> HIDE DEF a
      <3> QED
        BY <2>5, <2>6, CalledAnswers
    <2> QED
      BY <2>6, <2>7 DEF Effects
  <1>2. ASSUME NEW path \in Said, NEW list \in Registrable(c),
               RegisterProject(c, [path |-> path, config |-> list])
        PROVE  Effects
    <2>1. [path |-> path, config |-> list] \in RegisterProjectRequest
      BY RegistrableTypes DEF RegisterProjectRequest
    <2>2. Called(c, NoAnswer)
      BY <1>2 DEF RegisterProject
    <2>3. Answered(c)
      BY <2>2, CalledAnswers, SmallAnswers
    <2> QED
      BY <1>2, <2>1, <2>3 DEF Effects
  <1>3. ASSUME NEW r, GetProjectConfig(c, r) PROVE Effects
    <2> DEFINE path == expandPath(r.path)
    <2>1. path \in DOMAIN config.projects
      BY <1>3 DEF GetProjectConfig
    <2>2. PICK list \in engineProjectConfigToPB(config.projects[path]) :
                 Reading(c, [kind |-> "project", config |-> list])
      BY <1>3 DEF GetProjectConfig
    <2> HIDE DEF path
    <2>3. /\ IsFiniteSet(DOMAIN config.projects[path])
          /\ Range(config.projects[path]) \subseteq EngineServers
      BY <2>1 DEF WireTypeOK, IsConfig
    <2>4. list \in ProjectConfig
      BY <2>2, <2>3, ProjectListTypes
    <2> DEFINE a == [kind |-> "project", config |-> list]
    <2>5. IsAnswer(a) /\ a.kind # "config"
      BY <2>4 DEF IsAnswer
    <2>6. Called(c, a) /\ OnlyRead
      BY <2>2 DEF Reading, OnlyRead
    <2>7. Answered(c)
      BY <2>5, <2>6, CalledAnswers
    <2> QED
      BY <2>6, <2>7 DEF Effects
  <1>4. CASE ListProjects(c)
    <2> DEFINE infos == {[path |-> p, config |-> <<>>] : p \in DOMAIN config.projects}
               a == [kind |-> "projects", projects |-> infos]
    <2>1. <<>> \in ProjectConfig
      BY DEF ProjectConfig
    <2>2. IsAnswer(a) /\ a.kind # "config"
      BY <2>1 DEF IsAnswer
    <2>3. Called(c, a) /\ OnlyRead
      BY <1>4 DEF ListProjects, Reading, OnlyRead
    <2>4. Answered(c)
      <3> HIDE DEF a
      <3> QED
        BY <2>2, <2>3, CalledAnswers
    <2> QED
      BY <2>3, <2>4 DEF Effects
  <1> QED
    BY <1>1, <1>2, <1>3, <1>4 DEF ProjectCall

\* Every step is one of a few kinds.
LEMMA StepEffects ==
    ASSUME WireTypeOK, [WireNext]_wireVars
    PROVE  Effects
  <1>1. ASSUME NEW c \in Clients, Reread(c) PROVE Effects
    <2> DEFINE a == ServerAnswer(held[c].name)
    <2>1. held[c].name \in Names
      BY <1>1, KindsTell DEF Reread, WireTypeOK
    <2>2. IsAnswer(a) /\ a.kind # "config"
      BY <2>1, ServerAnswers
    <2>3. held' = [held EXCEPT ![c] = a] /\ calls' = calls /\ OnlyRead
      BY <1>1 DEF Reread, OnlyRead
    <2>4. calls' \in 0..MaxCalls
      BY <2>3 DEF WireTypeOK
    <2>5. Answered(c)
      BY <2>2, <2>3, <2>4 DEF Answered
    <2> QED
      BY <2>3, <2>5 DEF Effects
  <1>2. CASE UNCHANGED wireVars
    BY <1>2 DEF Effects
  <1> QED
    BY <1>1, <1>2, ServerCallEffects, ConfigCallEffects, ProjectCallEffects DEF WireNext

-----------------------------------------------------------------------------
(* The types.                                                              *)

\* A well formed configuration takes the place of another.
LEMMA ChangeTypes ==
    ASSUME WireTypeOK, NEW x, IsConfig(x), Change(x)
    PROVE  /\ IsConfig(config') /\ IsConfig(file')
           /\ saving' \in BOOLEAN /\ (saving' => file' = config')
           /\ tree' \in Trees
  BY DEF WireTypeOK, Change

\* After an answer, the configurations that clients hold are those they held before.
LEMMA AnsweredTypes ==
    ASSUME WireTypeOK, NEW c \in Clients, Answered(c)
    PROVE  /\ calls' \in 0..MaxCalls
           /\ DOMAIN held' = Clients
           /\ \A d \in Clients : IsAnswer(held'[d]) /\ (held'[d].kind = "config" => held'[d] = held[d] /\ d # c)
  <1>1. PICK a : held' = [held EXCEPT ![c] = a] /\ IsAnswer(a) /\ a.kind # "config"
    BY DEF Answered
  <1>2. DOMAIN held = Clients /\ \A d \in Clients : IsAnswer(held[d])
    BY DEF WireTypeOK
  <1>3. \A d \in Clients : held'[d] = IF d = c THEN a ELSE held[d]
    BY <1>1, <1>2
  <1>4. DOMAIN held' = Clients
    BY <1>1, <1>2
  <1> QED
    BY <1>1, <1>2, <1>3, <1>4 DEF Answered

\* One server of a configuration of the engine is replaced.
LEMMA WithServer ==
    ASSUME WireTypeOK, NEW n \in Names, NEW s \in EngineServers \union {NoServer}
    PROVE  LET x == [config EXCEPT !.servers[n] = s] IN
           /\ IsConfig(x)
           /\ x = [servers |-> [Servers EXCEPT ![n] = s], projects |-> config.projects, scan |-> config.scan]
  <1>1. /\ config = [servers |-> Servers, projects |-> config.projects, scan |-> config.scan]
        /\ Servers \in [Names -> EngineServers \union {NoServer}]
    BY DEF WireTypeOK, IsConfig, Servers
  <1> DEFINE x == [servers |-> [Servers EXCEPT ![n] = s], projects |-> config.projects, scan |-> config.scan]
  <1>2. [config EXCEPT !.servers[n] = s] = x
    BY <1>1 DEF Servers
  <1>3. IsConfig(x)
    BY <1>1 DEF WireTypeOK, IsConfig
  <1> QED
    BY <1>2, <1>3

\* the names that a client who sends a configuration says something about
Changed(c, sent) == {n \in Names : sent[n] # held[c].servers[n]}

\* What SetConfig makes of a configuration that a client has edited.
LEMMA SentTypes ==
    ASSUME WireTypeOK, NEW c \in Clients, NEW sent \in Editions(c)
    PROVE  LET new == protoToEngineConfig(sent) IN
           /\ held[c].kind = "config" /\ IsConfig(new)
           /\ \A n \in Names :
                /\ View(new.servers[n]) = View(sent[n])
                /\ new.servers[n] # NoServer =>
                     /\ new.servers[n].body = sent[n].body
                     /\ \/ held[c].servers[n] # NoServer /\ sent[n].body = held[c].servers[n].body
                        \/ sent[n] \in Composed
  <1> DEFINE read == held[c].servers
             s(n) == [protoToServerConfig(sent[n]) EXCEPT !.meta = {}]
             new  == protoToEngineConfig(sent)
  <1>1. held[c].kind = "config" /\ \A n \in Names : sent[n] \in Edits(read[n])
    BY DEF Editions
  <1>2. read \in [Names -> ServerConfig \union {NoServer}]
    BY <1>1, KindsTell DEF WireTypeOK
  <1>3. ASSUME NEW n \in Names, sent[n] # NoServer
        PROVE  /\ sent[n] \in ServerConfig
               /\ \/ read[n] # NoServer /\ sent[n].body = read[n].body
                  \/ sent[n] \in Composed
    <2>1. CASE sent[n] \in Composed
      BY <2>1, WireFacts
    <2>2. CASE sent[n] = read[n]
      BY <1>2, <1>3, <2>2
    <2>3. CASE read[n] # NoServer /\ sent[n] = [read[n] EXCEPT !.on = ~@]
      <3>1. read[n] \in ServerConfig
        BY <1>2, <2>3
      <3> QED
        BY <2>3, <3>1 DEF ServerConfig
    <2>4. sent[n] \in Edits(read[n])
      BY <1>1
    <2> HIDE DEF read
    <2> QED
      BY <1>3, <2>1, <2>2, <2>3, <2>4 DEF Edits
  <1>4. ASSUME NEW n \in Names, sent[n] # NoServer
        PROVE  /\ s(n) \in EngineServers
               /\ s(n).body = sent[n].body /\ s(n).on = sent[n].on
    <2>1. sent[n] \in ServerConfig
      BY <1>3, <1>4
    <2>2. {} \in Metas
      BY DEF Metas
    <2> QED
      BY <2>1, <2>2 DEF protoToServerConfig, ServerConfig, EngineServers
  <1>5. new = [servers |-> [n \in Names |-> IF sent[n] = NoServer THEN NoServer ELSE s(n)],
               projects |-> [p \in {} |-> p], scan |-> NoScan]
    BY DEF protoToEngineConfig
  <1> HIDE DEF s, new, read
  <1>6. new.servers \in [Names -> EngineServers \union {NoServer}]
    BY <1>4, <1>5
  <1>7. IsConfig(new)
    BY <1>5, <1>6 DEF IsConfig, NoScan
  <1>8. ASSUME NEW n \in Names
        PROVE  /\ View(new.servers[n]) = View(sent[n])
               /\ new.servers[n] # NoServer => sent[n] # NoServer /\ new.servers[n].body = sent[n].body
    <2>1. CASE sent[n] = NoServer
      BY <1>5, <2>1
    <2>2. CASE sent[n] # NoServer
      <3>1. new.servers[n] = s(n) /\ s(n) # NoServer
        BY <1>4, <1>5, <2>2, WireFacts
      <3>2. View(s(n)) = View(sent[n])
        BY <1>3, <1>4, <2>2, ViewsTell
      <3> QED
        BY <1>4, <2>2, <3>1, <3>2
    <2> QED
      BY <2>1, <2>2
  <1> QED
    BY <1>1, <1>3, <1>7, <1>8 DEF new, read

LEMMA WireTypeInit == WireInit => WireTypeOK
  <1> SUFFICES ASSUME WireInit PROVE WireTypeOK
    OBVIOUS
  <1>1. IsConfig(file) /\ config = file /\ saving = FALSE /\ tree \in Trees
    BY WireFacts DEF WireInit
  <1>2. DOMAIN held = Clients /\ \A c \in Clients : IsAnswer(held[c])
    BY SmallAnswers DEF WireInit
  <1>3. calls \in 0..MaxCalls
    BY WireFacts DEF WireInit
  <1>4. wrote \in [Names -> [body : Bodies, on : BOOLEAN] \union {NoServer}]
    <2>1. \A n \in Names : View(file.servers[n]) \in [body : Bodies, on : BOOLEAN] \union {NoServer}
      BY <1>1, ViewsTell DEF IsConfig
    <2> QED
      BY <2>1 DEF WireInit, Views
  <1> QED
    BY <1>1, <1>2, <1>3, <1>4 DEF WireTypeOK, WireInit

\* Each kind of step keeps the types.
LEMMA WireTypeStep ==
    ASSUME WireTypeOK, Effects
    PROVE  WireTypeOK'
  <1> DEFINE Viewed == [body : Bodies, on : BOOLEAN] \union {NoServer}
  <1>1. CASE UNCHANGED wireVars
    BY <1>1 DEF WireTypeOK, wireVars, observers
  <1>2. ASSUME NEW c \in Clients, GetConfig(c) PROVE WireTypeOK'
    <2> DEFINE a == [kind |-> "config", servers |-> engineConfigToProto(Servers)]
    <2>1. IsAnswer(a)
      BY ConfigAnswers DEF IsAnswer, Config
    <2>2. held' = [held EXCEPT ![c] = a] /\ calls' \in 0..MaxCalls
      BY <1>2, WireFacts DEF GetConfig, Called, WireTypeOK
    <2> HIDE DEF a
    <2>3. DOMAIN held' = Clients /\ \A d \in Clients : IsAnswer(held'[d])
      BY <2>1, <2>2 DEF WireTypeOK
    <2> QED
      BY <1>2, <2>2, <2>3 DEF GetConfig, WireTypeOK
  <1>3. ASSUME NEW c \in Clients, Answered(c), OnlyRead PROVE WireTypeOK'
    BY <1>3, AnsweredTypes DEF OnlyRead, observers, WireTypeOK
  <1>4. ASSUME NEW c \in Clients, Answered(c), OneServer PROVE WireTypeOK'
    <2>1. PICK n \in Names, s \in EngineServers \union {NoServer} : WriteServer(n, s)
      BY <1>4 DEF OneServer
    <2> DEFINE x == [config EXCEPT !.servers[n] = s]
    <2>2. Change(x) /\ IsConfig(x)
      BY <2>1, WithServer DEF WriteServer
    <2> HIDE DEF x
    <2>3. View(s) \in Viewed
      BY ViewsTell
    <2>4. /\ wrote' \in [Names -> Viewed] /\ behind' \in [Clients -> SUBSET Names]
          /\ stale' \subseteq Names /\ asked' = asked
      BY <2>1, <2>3 DEF WriteServer, WireTypeOK
    <2> QED
      BY <1>4, <2>2, <2>4, ChangeTypes, AnsweredTypes DEF WireTypeOK
  <1>5. ASSUME NEW c \in Clients, Answered(c), NEW sent \in Editions(c), SetConfig(c, sent)
        PROVE  WireTypeOK'
    <2> DEFINE new == protoToEngineConfig(sent)
               changed == Changed(c, sent)
    <2>1. /\ changed \subseteq Names
          /\ Change(new)
          /\ wrote' = [n \in Names |-> IF n \in changed THEN View(sent[n]) ELSE wrote[n]]
          /\ behind' = [d \in Clients |-> behind[d] \union changed]
          /\ stale' = (stale \union behind[c]) \ changed /\ asked' = [p \in {} |-> p]
      BY <1>5 DEF SetConfig, Changed
    <2>2. IsConfig(new) /\ \A n \in Names : View(sent[n]) = View(new.servers[n])
      BY SentTypes
    <2> HIDE DEF changed
    <2> HIDE DEF new
    <2>3. \A n \in Names : View(new.servers[n]) \in Viewed
      BY <2>2, ViewsTell DEF IsConfig
    <2>4. /\ wrote' \in [Names -> Viewed] /\ behind' \in [Clients -> SUBSET Names]
          /\ stale' \subseteq Names
      BY <2>1, <2>2, <2>3 DEF WireTypeOK
    <2> QED
      BY <1>5, <2>1, <2>2, <2>4, ChangeTypes, AnsweredTypes DEF WireTypeOK
  <1>6. ASSUME NEW c \in Clients, Answered(c), LoadConfig(c) PROVE WireTypeOK'
    <2>1. \A n \in Names : View(file.servers[n]) \in Viewed
      BY ViewsTell DEF WireTypeOK, IsConfig
    <2>2. wrote' \in [Names -> Viewed]
      BY <1>6, <2>1 DEF LoadConfig, Views
    <2>3. /\ config' = file /\ saving' = TRUE /\ file' = file /\ tree' = tree
          /\ behind' \in [Clients -> SUBSET Names] /\ stale' \subseteq Names
      BY <1>6 DEF LoadConfig
    <2>4. \A p \in DOMAIN asked' : asked'[p] \in ProjectConfig
      BY <1>6 DEF LoadConfig, WireTypeOK
    <2> QED
      BY <1>6, <2>2, <2>3, <2>4, AnsweredTypes DEF WireTypeOK
  <1>7. ASSUME NEW c \in Clients, Answered(c), NEW r \in RegisterProjectRequest, RegisterProject(c, r)
        PROVE  WireTypeOK'
    <2> DEFINE path == expandPath(r.path)
               projects == [p \in DOMAIN config.projects \union {path} |->
                              IF p = path THEN pbToEngineProjectConfig(r.config) ELSE config.projects[p]]
               x == [config EXCEPT !.projects = projects]
    <2>1. /\ Change(x)
          /\ asked' = [p \in DOMAIN asked \union {path} |-> IF p = path THEN r.config ELSE asked[p]]
          /\ UNCHANGED <<wrote, behind, stale>>
      BY <1>7 DEF RegisterProject
    <2>2. r.config \in ProjectConfig
      BY DEF RegisterProjectRequest
    <2>3. /\ IsFiniteSet(DOMAIN pbToEngineProjectConfig(r.config))
          /\ Range(pbToEngineProjectConfig(r.config)) \subseteq EngineServers
      BY <2>2, RegisteredServers
    <2> HIDE DEF path
    <2>4. \A p \in DOMAIN projects : IsFiniteSet(DOMAIN projects[p]) /\ Range(projects[p]) \subseteq EngineServers
      BY <2>3 DEF WireTypeOK, IsConfig
    <2> HIDE DEF projects
    <2>5. IsConfig(x)
      BY <2>4 DEF WireTypeOK, IsConfig
    <2>6. \A p \in DOMAIN asked' : asked'[p] \in ProjectConfig
      BY <2>1, <2>2 DEF WireTypeOK
    <2> HIDE DEF x
    <2> QED
      BY <1>7, <2>1, <2>5, <2>6, ChangeTypes, AnsweredTypes DEF WireTypeOK
  <1> QED
    BY <1>1, <1>2, <1>3, <1>4, <1>5, <1>6, <1>7 DEF Effects

\* What the engine, the file and the messages hold stays well formed, whatever is read,
\* changed, written back, scanned and registered.
THEOREM WireTypeCorrect == WireSpec => []WireTypeOK
  <1>1. WireTypeOK /\ [WireNext]_wireVars => WireTypeOK'
    BY StepEffects, WireTypeStep
  <1> QED
    BY <1>1, WireTypeInit, PTL DEF WireSpec

-----------------------------------------------------------------------------
(* What stands.                                                            *)

\* A configuration that a client holds shows each server as the last call about it left
\* it, unless it was changed since the client read it; so does the engine's, unless it was
\* written over from an older one.
Fresh ==
    /\ \A n \in Names \ stale : View(Servers[n]) = wrote[n]
    /\ \A c \in Clients : held[c].kind = "config" =>
         \A n \in Names \ (behind[c] \union stale) : View(held[c].servers[n]) = wrote[n]

\* Neither the engine nor its file nor a client's configuration has a server that cannot be
\* run, if clients compose none.
ComposedRunnable == \A m \in Composed : Valid(m.body)
Runnable(servers) == \A n \in Names : servers[n] # NoServer /\ ComposedRunnable => Valid(servers[n].body)
AllRunnable ==
    /\ Runnable(Servers) /\ Runnable(file.servers)
    /\ \A c \in Clients : held[c].kind = "config" => Runnable(held[c].servers)

Standing == WireTypeOK /\ Fresh /\ AllRunnable

FilesRunnable == \A f \in Files : \A n \in Names : f.servers[n] # NoServer => Valid(f.servers[n].body)

LEMMA StandingInit ==
    ASSUME FilesRunnable, WireInit
    PROVE  Standing
  <1>1. /\ file \in Files /\ config = file /\ wrote = Views(file.servers)
        /\ \A c \in Clients : held[c].kind # "config"
    BY DEF WireInit, NoAnswer
  <1>2. Fresh
    BY <1>1 DEF Fresh, Views, Servers
  <1>3. AllRunnable
    BY <1>1 DEF FilesRunnable, AllRunnable, Runnable, Servers
  <1> QED
    BY <1>2, <1>3, WireTypeInit DEF Standing

\* The servers of the engine and of its file after a change.
LEMMA ChangeRunnable ==
    ASSUME AllRunnable, NEW x, Change(x), Runnable(x.servers), NEW c \in Clients, Answered(c), WireTypeOK
    PROVE  AllRunnable'
  <1>1. config' = x /\ file' \in {file, x}
    BY DEF Change
  <1>2. Runnable(config'.servers) /\ Runnable(file'.servers)
    BY <1>1 DEF AllRunnable
  <1>3. ASSUME NEW d \in Clients, held'[d].kind = "config" PROVE Runnable(held'[d].servers)
    BY <1>3, AnsweredTypes DEF AllRunnable
  <1> QED
    BY <1>2, <1>3 DEF AllRunnable, Servers, Runnable

\* Each kind of step keeps what stands.
LEMMA StandingStep ==
    ASSUME Standing, Effects
    PROVE  Fresh' /\ AllRunnable'
  <1>1. WireTypeOK /\ Fresh /\ AllRunnable
    BY DEF Standing
  <1>2. CASE UNCHANGED wireVars
    BY <1>1, <1>2 DEF Fresh, AllRunnable, Runnable, Servers, wireVars, observers
  <1>3. ASSUME NEW c \in Clients, GetConfig(c) PROVE Fresh' /\ AllRunnable'
    <2> DEFINE sent == engineConfigToProto(Servers)
               a == [kind |-> "config", servers |-> sent]
    <2>1. /\ held' = [held EXCEPT ![c] = a]
          /\ behind' = [behind EXCEPT ![c] = {}]
          /\ UNCHANGED <<config, file, wrote, stale>>
      BY <1>3 DEF GetConfig, Called
    <2>2. /\ \A n \in Names : View(sent[n]) = View(Servers[n])
          /\ \A n \in Names : sent[n] # NoServer => Servers[n] # NoServer /\ sent[n].body = Servers[n].body
      BY <1>1, ConfigAnswers
    <2>3. a.servers = sent
      OBVIOUS
    <2> HIDE DEF sent, a
    <2>4. /\ \A d \in Clients : held'[d] = IF d = c THEN a ELSE held[d]
          /\ \A d \in Clients : behind'[d] = IF d = c THEN {} ELSE behind[d]
      BY <1>1, <2>1 DEF WireTypeOK
    <2>5. \A n \in Names \ stale : View(sent[n]) = wrote[n]
      BY <1>1, <2>2 DEF Fresh
    <2>6. Runnable(sent)
      BY <1>1, <2>2 DEF AllRunnable, Runnable
    <2>7. Servers' = Servers
      BY <2>1 DEF Servers
    <2>8. Fresh'
      BY <1>1, <2>1, <2>3, <2>4, <2>5, <2>7 DEF Fresh
    <2>9. AllRunnable'
      BY <1>1, <2>1, <2>3, <2>4, <2>6, <2>7 DEF AllRunnable, Runnable
    <2> QED
      BY <2>8, <2>9
  <1>4. ASSUME NEW c \in Clients, Answered(c), OnlyRead PROVE Fresh' /\ AllRunnable'
    <2>1. Servers' = Servers /\ UNCHANGED <<file, wrote, behind, stale>>
      BY <1>4 DEF OnlyRead, observers, Servers
    <2>2. \A d \in Clients : held'[d].kind = "config" => held'[d] = held[d]
      BY <1>1, <1>4, AnsweredTypes
    <2> QED
      BY <1>1, <2>1, <2>2 DEF Fresh, AllRunnable, Runnable
  <1>5. ASSUME NEW c \in Clients, Answered(c), OneServer PROVE Fresh' /\ AllRunnable'
    <2>1. PICK n \in Names, s \in EngineServers \union {NoServer} :
                 /\ WriteServer(n, s)
                 /\ s # NoServer => Valid(s.body) \/ (Servers[n] # NoServer /\ s.body = Servers[n].body)
      BY <1>5 DEF OneServer
    <2> DEFINE x == [config EXCEPT !.servers[n] = s]
    <2>2. /\ Change(x) /\ wrote' = [wrote EXCEPT ![n] = View(s)]
          /\ behind' = [d \in Clients |-> behind[d] \union {n}] /\ stale' = stale \ {n}
      BY <2>1 DEF WriteServer
    <2>3. x.servers = [Servers EXCEPT ![n] = s]
      BY <1>1, WithServer
    <2> HIDE DEF x
    <2>4. Servers' = [Servers EXCEPT ![n] = s]
      BY <2>2, <2>3 DEF Change, Servers
    <2>5. \A m \in Names : /\ Servers'[m] = IF m = n THEN s ELSE Servers[m]
                           /\ x.servers[m] = IF m = n THEN s ELSE Servers[m]
                           /\ wrote'[m] = IF m = n THEN View(s) ELSE wrote[m]
      BY <1>1, <2>2, <2>3, <2>4 DEF WireTypeOK, IsConfig, Servers
    <2>6. Runnable(x.servers)
      BY <1>1, <2>1, <2>5 DEF AllRunnable, Runnable
    <2>7. \A d \in Clients : held'[d].kind = "config" => held'[d] = held[d]
      BY <1>1, <1>5, AnsweredTypes
    <2>8. \A m \in Names \ stale' : View(Servers'[m]) = wrote'[m]
      BY <1>1, <2>2, <2>5 DEF Fresh
    <2>9. ASSUME NEW d \in Clients, held'[d].kind = "config", NEW m \in Names \ (behind'[d] \union stale')
          PROVE  View(held'[d].servers[m]) = wrote'[m]
      <3>1. m # n /\ m \notin behind[d] \union stale
        BY <2>2, <2>9
      <3> QED
        BY <1>1, <2>5, <2>7, <2>9, <3>1 DEF Fresh
    <2> QED
      BY <1>1, <1>5, <2>2, <2>6, <2>8, <2>9, ChangeRunnable DEF Fresh
  <1>6. ASSUME NEW c \in Clients, Answered(c), NEW sent \in Editions(c), SetConfig(c, sent)
        PROVE  Fresh' /\ AllRunnable'
    <2> DEFINE new  == protoToEngineConfig(sent)
               read == held[c].servers
               changed == Changed(c, sent)
    <2>1. /\ Change(new)
          /\ wrote' = [n \in Names |-> IF n \in changed THEN View(sent[n]) ELSE wrote[n]]
          /\ behind' = [d \in Clients |-> behind[d] \union changed]
          /\ stale' = (stale \union behind[c]) \ changed
      BY <1>6 DEF SetConfig, Changed
    <2>2. /\ held[c].kind = "config"
          /\ \A n \in Names :
               /\ View(new.servers[n]) = View(sent[n])
               /\ new.servers[n] # NoServer =>
                    /\ new.servers[n].body = sent[n].body
                    /\ (read[n] # NoServer /\ sent[n].body = read[n].body) \/ sent[n] \in Composed
      BY <1>1, SentTypes
    <2>3. \A n \in Names \ changed : sent[n] = read[n]
      BY DEF Changed
    <2>4. \A n \in Names \ (behind[c] \union stale) : View(read[n]) = wrote[n]
      BY <1>1, <2>2 DEF Fresh
    <2>5. Runnable(read)
      BY <1>1, <2>2 DEF AllRunnable
    <2> HIDE DEF new, read, changed
    <2>6. Runnable(new.servers)
      BY <2>2, <2>5 DEF Runnable, ComposedRunnable
    <2>7. Servers' = new.servers
      BY <2>1 DEF Change, Servers
    <2>8. ASSUME NEW n \in Names \ stale' PROVE View(Servers'[n]) = wrote'[n]
      <3>1. CASE n \in changed
        BY <2>1, <2>2, <2>7, <3>1
      <3>2. CASE n \notin changed
        <4>1. n \notin stale \union behind[c]
          BY <2>1, <2>8, <3>2
        <4> QED
          BY <2>1, <2>2, <2>3, <2>4, <2>7, <3>2, <4>1
      <3> QED
        BY <3>1, <3>2
    <2>9. \A d \in Clients : held'[d].kind = "config" => held'[d] = held[d]
      BY <1>1, <1>6, AnsweredTypes
    <2>10. ASSUME NEW d \in Clients, held'[d].kind = "config", NEW n \in Names \ (behind'[d] \union stale')
           PROVE  View(held'[d].servers[n]) = wrote'[n]
      <3>1. n \notin changed /\ n \notin behind[d] \union stale
        BY <2>1, <2>10
      <3> QED
        BY <1>1, <2>1, <2>9, <2>10, <3>1 DEF Fresh
    <2> QED
      BY <1>1, <1>6, <2>1, <2>6, <2>8, <2>10, ChangeRunnable DEF Fresh
  <1>7. ASSUME NEW c \in Clients, Answered(c), LoadConfig(c) PROVE Fresh' /\ AllRunnable'
    <2>1. /\ Servers' = file.servers /\ wrote' = Views(file.servers) /\ file' = file
          /\ behind' = [d \in Clients |-> Names] /\ stale' = {}
      BY <1>7 DEF LoadConfig, Servers
    <2>2. \A d \in Clients : held'[d].kind = "config" => held'[d] = held[d]
      BY <1>1, <1>7, AnsweredTypes
    <2>3. Fresh'
      BY <2>1 DEF Fresh, Views
    <2>4. AllRunnable'
      BY <1>1, <2>1, <2>2 DEF AllRunnable, Runnable
    <2> QED
      BY <2>3, <2>4
  <1>8. ASSUME NEW c \in Clients, Answered(c), NEW r, RegisterProject(c, r) PROVE Fresh' /\ AllRunnable'
    <2>1. PICK projects : Change([config EXCEPT !.projects = projects])
      BY <1>8 DEF RegisterProject
    <2> DEFINE x == [config EXCEPT !.projects = projects]
    <2>2. x.servers = Servers
      BY <1>1 DEF WireTypeOK, IsConfig, Servers
    <2> HIDE DEF x
    <2>3. Servers' = Servers /\ UNCHANGED <<wrote, behind, stale>>
      BY <1>8, <2>1, <2>2 DEF RegisterProject, Change, Servers, x
    <2>4. \A d \in Clients : held'[d].kind = "config" => held'[d] = held[d]
      BY <1>1, <1>8, AnsweredTypes
    <2>5. Fresh'
      BY <1>1, <2>3, <2>4 DEF Fresh
    <2>6. AllRunnable'
      <3>1. Change(x) /\ Runnable(x.servers)
        BY <1>1, <2>1, <2>2 DEF x, AllRunnable
      <3> QED
        BY <1>1, <1>8, <3>1, ChangeRunnable
    <2> QED
      BY <2>5, <2>6
  <1> QED
    BY <1>2, <1>3, <1>4, <1>5, <1>6, <1>7, <1>8 DEF Effects

\* If the configuration files hold servers that can be run, then, whatever clients read,
\* change and write back, each server stands as the last call about it left it, unless one
\* was written back that was read before, and can be run if those that clients compose can
\* (client.go GetConfig, SetConfig).
THEOREM ServersDoStand ==
    ASSUME FilesRunnable
    PROVE  WireSpec => []ServersStand
  <1>1. WireInit => Standing
    BY StandingInit
  <1>2. Standing /\ [WireNext]_wireVars => Standing'
    BY StepEffects, WireTypeStep, StandingStep DEF Standing
  <1>3. Standing => ServersStand
    BY DEF Standing, Fresh, AllRunnable, Runnable, ComposedRunnable, ServersStand
  <1> QED
    BY <1>1, <1>2, <1>3, PTL DEF WireSpec

-----------------------------------------------------------------------------
(* What is registered and what is echoed.                                  *)

AsAsked ==
    /\ WireTypeOK
    /\ \A p \in DOMAIN asked : p \in DOMAIN Projects /\ Projects[p] = pbToEngineProjectConfig(asked[p])

\* Each kind of step keeps what is registered.
LEMMA AsAskedStep ==
    ASSUME AsAsked, Effects
    PROVE  AsAsked'
  <1>1. WireTypeOK /\ WireTypeOK'
    BY WireTypeStep DEF AsAsked
  <1>2. CASE Projects' = Projects /\ asked' = asked
    BY <1>1, <1>2 DEF AsAsked
  <1>3. CASE UNCHANGED wireVars
    BY <1>2, <1>3 DEF wireVars, observers, Projects
  <1>4. ASSUME NEW c \in Clients, GetConfig(c) PROVE AsAsked'
    BY <1>2, <1>4 DEF GetConfig, Projects
  <1>5. CASE OnlyRead
    BY <1>2, <1>5 DEF OnlyRead, observers, Projects
  <1>6. CASE OneServer
    <2>1. PICK n \in Names, s \in EngineServers \union {NoServer} : WriteServer(n, s)
      BY <1>6 DEF OneServer
    <2>2. config' = [config EXCEPT !.servers[n] = s] /\ asked' = asked
      BY <2>1 DEF WriteServer, Change
    <2>3. Projects' = Projects
      BY <1>1, <2>2, WithServer DEF Projects
    <2> QED
      BY <1>2, <2>2, <2>3
  <1>7. ASSUME NEW c, NEW sent, SetConfig(c, sent) PROVE AsAsked'
    <2>1. DOMAIN asked' = {}
      BY <1>7 DEF SetConfig
    <2> QED
      BY <1>1, <2>1 DEF AsAsked
  <1>8. ASSUME NEW c, LoadConfig(c) PROVE AsAsked'
    <2>1. CASE saving
      BY <1>1, <1>2, <1>8, <2>1 DEF LoadConfig, WireTypeOK, Projects
    <2>2. CASE ~saving
      <3>1. DOMAIN asked' = {}
        BY <1>8, <2>2 DEF LoadConfig
      <3> QED
        BY <1>1, <3>1 DEF AsAsked
    <2> QED
      BY <2>1, <2>2
  <1>9. ASSUME NEW c, NEW r, RegisterProject(c, r) PROVE AsAsked'
    <2> DEFINE path == expandPath(r.path)
               projects == [p \in DOMAIN config.projects \union {path} |->
                              IF p = path THEN pbToEngineProjectConfig(r.config) ELSE config.projects[p]]
               x == [config EXCEPT !.projects = projects]
    <2>1. /\ config' = x
          /\ asked' = [p \in DOMAIN asked \union {path} |-> IF p = path THEN r.config ELSE asked[p]]
      BY <1>9 DEF RegisterProject, Change
    <2>2. x.projects = projects
      <3> HIDE DEF projects
      <3> QED
        BY <1>1 DEF WireTypeOK, IsConfig
    <2> HIDE DEF path, x
    <2>3. Projects' = projects
      BY <2>1, <2>2 DEF Projects
    <2>4. \A p \in DOMAIN asked' : p \in DOMAIN projects /\ projects[p] = pbToEngineProjectConfig(asked'[p])
      BY <2>1 DEF AsAsked, Projects
    <2> HIDE DEF projects
    <2> QED
      BY <1>1, <2>3, <2>4 DEF AsAsked
  <1> QED
    BY <1>3, <1>4, <1>5, <1>6, <1>7, <1>8, <1>9 DEF Effects

\* A registered project has the last server of every command in the list it was last
\* registered with, until a configuration is written back or loaded from a file that the
\* engine does not save to (conversions.go pbToEngineProjectConfig, RegisterProject).
THEOREM ProjectsStay == WireSpec => []ProjectsAsRegistered
  <1>1. WireInit => AsAsked
    BY WireTypeInit DEF WireInit, AsAsked
  <1>2. AsAsked /\ [WireNext]_wireVars => AsAsked'
    BY StepEffects, AsAskedStep DEF AsAsked
  <1>3. AsAsked => ProjectsAsRegistered
    BY RegisteredServers DEF AsAsked, WireTypeOK, ProjectsAsRegistered
  <1> QED
    BY <1>1, <1>2, <1>3, PTL DEF WireSpec

\* A client that sends a server back as it was answered changes nothing of it but the
\* headers, which no message carries, and the metadata, which become texts
\* (service.go UpdateServer over conversions.go).
THEOREM EchoesChangeNothing == WireSpec => EchoedUpdateKeeps
  <1> DEFINE Keeps ==
        \A c \in Clients, n \in Names :
          (/\ Servers[n] # NoServer /\ held[c].kind = "server"
           /\ held[c].server = serverToProto(n, Servers[n])
           /\ UpdateServer(c, [name |-> n, config |-> held[c].server.config]))
          => Servers'[n] = [Servers[n] EXCEPT !.headers = FALSE, !.meta = ToTexts(@)]
  <1>1. WireTypeOK => Keeps
    <2> SUFFICES ASSUME WireTypeOK, NEW c \in Clients, NEW n \in Names, Servers[n] # NoServer,
                        held[c].server = serverToProto(n, Servers[n]),
                        UpdateServer(c, [name |-> n, config |-> held[c].server.config])
                 PROVE  Servers'[n] = [Servers[n] EXCEPT !.headers = FALSE, !.meta = ToTexts(@)]
      BY DEF Keeps
    <2> DEFINE old == Servers[n]
               new == protoToServerConfig(serverToWire(old))
               s == [old EXCEPT !.body = new.body, !.headers = new.headers, !.meta = new.meta]
    <2>1. old \in EngineServers
      BY StandingServers
    <2>2. held[c].server.config = serverToWire(old)
      BY DEF serverToProto
    <2>3. WriteServer(n, s)
      BY <2>2 DEF UpdateServer
    <2>4. new.body = old.body /\ new.headers = FALSE /\ new.meta = ToTexts(old.meta)
      BY DEF protoToServerConfig, serverToWire
    <2>5. s = [old EXCEPT !.headers = FALSE, !.meta = ToTexts(@)]
      <3> HIDE DEF new, old
      <3> QED
        BY <2>1, <2>4 DEF EngineServers
    <2>6. s \in EngineServers
      <3>1. ToTexts(old.meta) \in Metas
        BY <2>1, MetasBecomeTexts DEF EngineServers
      <3> HIDE DEF new, old
      <3> QED
        BY <2>1, <2>4, <3>1 DEF EngineServers
    <2>7. config' = [config EXCEPT !.servers[n] = s]
      BY <2>3 DEF WriteServer, Change
    <2> HIDE DEF s
    <2>8. Servers' = [Servers EXCEPT ![n] = s]
      BY <2>6, <2>7, WithServer DEF Servers
    <2>9. Servers'[n] = s
      BY <2>8 DEF WireTypeOK, IsConfig, Servers
    <2> QED
      BY <2>5, <2>9
  <1>2. WireTypeOK /\ [WireNext]_wireVars => [Keeps]_wireVars
    BY <1>1
  <1> QED
    BY <1>2, WireTypeCorrect, PTL DEF WireSpec, EchoedUpdateKeeps

-----------------------------------------------------------------------------
(* Scans.                                                                  *)

\* the directory i names down on the way to q
Up(q, i) == SubSeq(q, 1, i)

\* The first i names of a path.
LEMMA Ways ==
    ASSUME NEW q \in Seq(STRING), NEW i \in 0..Len(q)
    PROVE  /\ Up(q, i) \in Seq(STRING) /\ Len(Up(q, i)) = i
           /\ \A k \in 1..i : Up(q, i)[k] = q[k]
  <1>1. Len(q) \in Nat /\ \A k \in 1..i : q[k] \in STRING
    BY ElementOfSeq
  <1> QED
    BY <1>1, SubSeqProperties, Z3 DEF Up

LEMMA SameWay ==
    ASSUME NEW p \in Seq(STRING), NEW q \in Seq(STRING), Len(p) = Len(q), \A k \in 1..Len(p) : p[k] = q[k]
    PROVE  p = q
  BY SeqEqual

\* The way to a directory on the way is the same way.
LEMMA WaysOfWays ==
    ASSUME NEW q \in Seq(STRING), NEW i \in 0..Len(q)
    PROVE  /\ \A k \in 0..i : Up(Up(q, i), k) = Up(q, k)
           /\ i = Len(q) => Up(q, i) = q
  <1>1. Len(q) \in Nat
    OBVIOUS
  <1>2. ASSUME NEW k \in 0..i PROVE Up(Up(q, i), k) = Up(q, k)
    <2> DEFINE p == Up(q, i)
    <2>1. p \in Seq(STRING) /\ Len(p) = i /\ \A x \in 1..i : p[x] = q[x]
      BY Ways
    <2> HIDE DEF p
    <2>2. k \in 0..Len(p) /\ k \in 0..Len(q)
      BY <1>1, <2>1
    <2>3. /\ Up(p, k) \in Seq(STRING) /\ Len(Up(p, k)) = k /\ \A x \in 1..k : Up(p, k)[x] = p[x]
          /\ Up(q, k) \in Seq(STRING) /\ Len(Up(q, k)) = k /\ \A x \in 1..k : Up(q, k)[x] = q[x]
      BY <2>1, <2>2, Ways
    <2>4. \A x \in 1..k : Up(p, k)[x] = Up(q, k)[x]
      BY <2>1, <2>3
    <2>5. Up(p, k) = Up(q, k)
      BY <2>3, <2>4, SameWay
    <2> QED
      BY <2>5 DEF p
  <1>3. ASSUME i = Len(q) PROVE Up(q, i) = q
    <2>1. Up(q, i) \in Seq(STRING) /\ Len(Up(q, i)) = Len(q) /\ \A x \in 1..Len(q) : Up(q, i)[x] = q[x]
      BY <1>3, Ways
    <2> QED
      BY <2>1, SameWay
  <1> QED
    BY <1>2, <1>3

\* the directories below p, at most n below it, that a scan comes to
Reach(t, scan, n, p) ==
    {r \in DOMAIN t :
       /\ Len(p) < Len(r) /\ Len(r) - Len(p) <= n /\ Up(r, Len(p)) = p
       /\ \A i \in (Len(p) + 1)..Len(r) : ~shouldExclude(scan, r[i])
       /\ \A i \in Len(p)..(Len(r) - 1) : t[Up(r, i)].readable}

Entries(t, scan, p) == {q \in Children(t, p) : ~shouldExclude(scan, Last(q))}

\* What is in a directory, by the names on the way.
LEMMA EntriesAreOneBelow ==
    ASSUME NEW t, IsTree(t), NEW scan, NEW p \in DOMAIN t
    PROVE  Entries(t, scan, p) =
             {q \in DOMAIN t : Len(q) = Len(p) + 1 /\ Up(q, Len(p)) = p /\ ~shouldExclude(scan, q[Len(q)])}
  <1>1. p \in Seq(STRING) /\ Len(p) \in Nat
    BY DEF IsTree
  <1>2. ASSUME NEW q \in DOMAIN t
        PROVE  (q # <<>> /\ Front(q) = p) <=> (Len(q) = Len(p) + 1 /\ Up(q, Len(p)) = p)
    <2>1. q \in Seq(STRING) /\ Len(q) \in Nat /\ (q = <<>> <=> Len(q) = 0)
      BY EmptySeq DEF IsTree
    <2>2. Front(q) = Up(q, Len(q) - 1)
      BY DEF Front, Up
    <2>3. ASSUME q # <<>> PROVE Len(Up(q, Len(q) - 1)) = Len(q) - 1
      <3>1. Len(q) - 1 \in 0..Len(q)
        BY <2>1, <2>3
      <3> QED
        BY <2>1, <3>1, Ways
    <2> QED
      BY <1>1, <2>1, <2>2, <2>3
  <1> QED
    BY <1>2 DEF Entries, Children, Last

\* What is reached is an entry, or is reached from one.
LEMMA ReachOneMore ==
    ASSUME NEW t, IsTree(t), NEW scan, NEW n \in Nat, n # 0, NEW p \in DOMAIN t, t[p].readable
    PROVE  Reach(t, scan, n, p) =
             Entries(t, scan, p) \union UNION {Reach(t, scan, n - 1, q) : q \in Entries(t, scan, p)}
  <1> DEFINE E == Entries(t, scan, p)
             Excluded(x) == shouldExclude(scan, x)
  <1>1. p \in Seq(STRING) /\ Len(p) \in Nat
    BY DEF IsTree
  <1>2. \A q \in DOMAIN t : q \in Seq(STRING) /\ Len(q) \in Nat /\ \A i \in 0..Len(q) : Up(q, i) \in DOMAIN t
    BY DEF IsTree, Up
  <1>3. \A q : q \in E <=> /\ q \in DOMAIN t /\ Len(q) = Len(p) + 1 /\ Up(q, Len(p)) = p
                           /\ ~Excluded(q[Len(q)])
    BY EntriesAreOneBelow
  <1> HIDE DEF E, Excluded
  <1>4. ASSUME NEW q \in E PROVE q \in Reach(t, scan, n, p)
    <2>1. q \in DOMAIN t /\ Len(q) = Len(p) + 1 /\ Up(q, Len(p)) = p /\ ~Excluded(q[Len(q)])
      BY <1>3
    <2>2. \A i \in (Len(p) + 1)..Len(q) : i = Len(q)
      BY <1>1, <2>1
    <2>3. \A i \in Len(p)..(Len(q) - 1) : i = Len(p)
      BY <1>1, <2>1
    <2>4. Len(p) < Len(q) /\ Len(q) - Len(p) <= n
      BY <1>1, <2>1
    <2> QED
      BY <2>1, <2>2, <2>3, <2>4 DEF Reach, Excluded
  <1>5. ASSUME NEW q \in E, NEW r \in Reach(t, scan, n - 1, q) PROVE r \in Reach(t, scan, n, p)
    <2>1. q \in DOMAIN t /\ Len(q) = Len(p) + 1 /\ Up(q, Len(p)) = p /\ ~Excluded(q[Len(q)])
      BY <1>3
    <2>2. /\ r \in DOMAIN t /\ Len(q) < Len(r) /\ Len(r) - Len(q) <= n - 1 /\ Up(r, Len(q)) = q
          /\ \A i \in (Len(q) + 1)..Len(r) : ~Excluded(r[i])
          /\ \A i \in Len(q)..(Len(r) - 1) : t[Up(r, i)].readable
      BY DEF Reach, Excluded
    <2>3. r \in Seq(STRING) /\ Len(r) \in Nat /\ Len(q) \in 0..Len(r) /\ Len(p) \in 0..Len(q)
      BY <1>1, <1>2, <2>1, <2>2
    <2>4. Up(r, Len(p)) = p
      BY <2>1, <2>2, <2>3, WaysOfWays
    <2>5. r[Len(q)] = q[Len(q)]
      <3>1. \A k \in 1..Len(q) : Up(r, Len(q))[k] = r[k]
        BY <2>3, Ways
      <3> QED
        BY <1>1, <2>1, <2>2, <3>1
    <2>6. \A i \in (Len(p) + 1)..Len(r) : i = Len(q) \/ i \in (Len(q) + 1)..Len(r)
      BY <1>1, <2>1, <2>3
    <2>7. \A i \in Len(p)..(Len(r) - 1) : i = Len(p) \/ i \in Len(q)..(Len(r) - 1)
      BY <1>1, <2>1, <2>3
    <2>8. Len(p) < Len(r) /\ Len(r) - Len(p) <= n
      BY <1>1, <2>1, <2>2, <2>3
    <2>9. \A i \in (Len(p) + 1)..Len(r) : ~Excluded(r[i])
      BY <2>1, <2>2, <2>5, <2>6
    <2>10. \A i \in Len(p)..(Len(r) - 1) : t[Up(r, i)].readable
      BY <2>2, <2>4, <2>7
    <2> QED
      BY <2>2, <2>4, <2>8, <2>9, <2>10 DEF Reach, Excluded
  <1>6. ASSUME NEW r \in Reach(t, scan, n, p)
        PROVE  \E q \in E : r = q \/ r \in Reach(t, scan, n - 1, q)
    <2> DEFINE m == Len(p) + 1
               q == Up(r, m)
    <2>1. /\ r \in DOMAIN t /\ Len(p) < Len(r) /\ Len(r) - Len(p) <= n /\ Up(r, Len(p)) = p
          /\ \A i \in (Len(p) + 1)..Len(r) : ~Excluded(r[i])
          /\ \A i \in Len(p)..(Len(r) - 1) : t[Up(r, i)].readable
      BY DEF Reach, Excluded
    <2>2. r \in Seq(STRING) /\ Len(r) \in Nat /\ m \in 0..Len(r) /\ m \in 1..m /\ Len(p) \in 0..m
      BY <1>1, <1>2, <2>1
    <2>3. q \in DOMAIN t /\ Len(q) = m /\ q[m] = r[m]
      BY <1>2, <2>1, <2>2, Ways
    <2>4. Up(q, Len(p)) = p
      BY <2>1, <2>2, WaysOfWays
    <2>5. q \in E
      <3>1. ~Excluded(r[m])
        BY <2>1, <2>2
      <3> HIDE DEF q
      <3> QED
        BY <1>3, <2>3, <2>4, <3>1
    <2>6. CASE Len(r) = m
      BY <2>2, <2>5, <2>6, WaysOfWays
    <2>7. CASE Len(r) # m
      <3>1. m < Len(r) /\ Len(r) - m <= n - 1 /\ n - 1 \in Nat
        BY <1>1, <2>1, <2>2, <2>7
      <3>2. \A i \in (m + 1)..Len(r) : i \in (Len(p) + 1)..Len(r)
        BY <1>1, <2>2
      <3>3. \A i \in m..(Len(r) - 1) : i \in Len(p)..(Len(r) - 1)
        BY <1>1, <2>2
      <3>4. /\ \A i \in (m + 1)..Len(r) : ~Excluded(r[i])
            /\ \A i \in m..(Len(r) - 1) : t[Up(r, i)].readable
        BY <2>1, <3>2, <3>3
      <3>5. Up(r, Len(q)) = q
        BY <2>3
      <3> HIDE DEF q, m
      <3>6. r \in Reach(t, scan, n - 1, q)
        BY <2>1, <2>3, <3>1, <3>4, <3>5 DEF Reach, Excluded
      <3> QED
        BY <2>5, <3>6
    <2> QED
      BY <2>6, <2>7
  <1>7. \A r : r \in Reach(t, scan, n, p) <=> \E q \in E : r = q \/ r \in Reach(t, scan, n - 1, q)
    BY <1>4, <1>5, <1>6
  <1>8. Reach(t, scan, n, p) = E \union UNION {Reach(t, scan, n - 1, q) : q \in E}
    BY <1>7
  <1> QED
    BY <1>8 DEF E

\* The recursion of scanDirectory comes to what can be reached.  There is one function that
\* is as the recursion says, and Reach is one.
LEMMA VisitedAreReached ==
    ASSUME NEW t, IsTree(t), NEW scan, NEW depth \in Nat, NEW p \in DOMAIN t
    PROVE  Visited(t, scan, p, depth) = Reach(t, scan, depth, p)
  <1> DEFINE Body(f, left, x) ==
               IF left = 0 \/ ~t[x].readable THEN {}
               ELSE Entries(t, scan, x) \union UNION {f[left - 1][q] : q \in Entries(t, scan, x)}
             Unfolded(f) == [left \in 0..depth |-> [x \in DOMAIN t |-> Body(f, left, x)]]
             below == CHOOSE f : f = Unfolded(f)
             reach == [left \in 0..depth |-> [x \in DOMAIN t |-> Reach(t, scan, left, x)]]
  <1>1. Visited(t, scan, p, depth) = below[depth][p]
    BY DEF Visited, Entries
  <1>2. ASSUME NEW left \in 0..depth, NEW x \in DOMAIN t PROVE reach[left][x] = Body(reach, left, x)
    <2>1. x \in Seq(STRING) /\ Len(x) \in Nat /\ \A r \in DOMAIN t : Len(r) \in Nat
      BY DEF IsTree
    <2>2. CASE left = 0
      BY <2>1, <2>2 DEF Reach
    <2>3. CASE ~t[x].readable
      <3> SUFFICES ASSUME NEW r \in Reach(t, scan, left, x) PROVE FALSE
        BY <2>3
      <3>1. /\ r \in DOMAIN t /\ Len(x) < Len(r) /\ Up(r, Len(x)) = x
            /\ \A i \in Len(x)..(Len(r) - 1) : t[Up(r, i)].readable
        BY DEF Reach
      <3>2. Len(x) \in Len(x)..(Len(r) - 1)
        BY <2>1, <3>1
      <3> QED
        BY <2>3, <3>1, <3>2
    <2>4. CASE left # 0 /\ t[x].readable
      <3>1. left - 1 \in 0..depth /\ left \in Nat
        BY <2>4
      <3>2. Reach(t, scan, left, x) =
              Entries(t, scan, x) \union UNION {Reach(t, scan, left - 1, q) : q \in Entries(t, scan, x)}
        BY <2>4, <3>1, ReachOneMore
      <3>3. \A q \in Entries(t, scan, x) : reach[left - 1][q] = Reach(t, scan, left - 1, q)
        BY <3>1 DEF Entries, Children
      <3>4. {reach[left - 1][q] : q \in Entries(t, scan, x)} =
              {Reach(t, scan, left - 1, q) : q \in Entries(t, scan, x)}
        BY <3>3
      <3> QED
        BY <2>4, <3>2, <3>4
    <2> QED
      BY <2>2, <2>3, <2>4
  <1> HIDE DEF Body
  <1>3. reach = Unfolded(reach)
    BY <1>2
  <1> HIDE DEF reach
  <1>4. below = Unfolded(below)
    <2>1. \E f : f = Unfolded(f)
      BY <1>3
    <2> HIDE DEF Unfolded
    <2> QED
      BY <2>1
  <1> HIDE DEF below
  <1>5. ASSUME NEW f, NEW g, f = Unfolded(f), g = Unfolded(g), NEW k \in 0..depth PROVE f[k] = g[k]
    <2> DEFINE Apart == {left \in 0..depth : f[left] # g[left]}
    <2> SUFFICES ASSUME Apart # {} PROVE FALSE
      OBVIOUS
    <2> DEFINE m == Min(Apart)
    <2>1. m \in Apart /\ \A left \in Apart : m <= left
      <3>1. Apart \subseteq Nat
        OBVIOUS
      <3> HIDE DEF Apart
      <3> QED
        BY <3>1, FirstIndex
    <2> HIDE DEF m
    <2>2. m \in 0..depth /\ f[m] # g[m]
      BY <2>1
    <2>3. m # 0 => f[m - 1] = g[m - 1]
      <3>1. ASSUME m # 0, f[m - 1] # g[m - 1] PROVE FALSE
        <4>1. m - 1 \in Apart
          BY <2>2, <3>1
        <4> QED
          BY <2>1, <2>2, <4>1
      <3> QED
        BY <3>1
    <2>4. \A x \in DOMAIN t : Body(f, m, x) = Body(g, m, x)
      BY <2>3 DEF Body
    <2>5. /\ f[m] = [x \in DOMAIN t |-> Body(f, m, x)]
          /\ g[m] = [x \in DOMAIN t |-> Body(g, m, x)]
      BY <1>5, <2>2
    <2> QED
      BY <2>2, <2>4, <2>5
  <1>6. below[depth] = reach[depth]
    <2> HIDE DEF Unfolded
    <2> QED
      BY <1>3, <1>4, <1>5
  <1>7. reach[depth][p] = Reach(t, scan, depth, p)
    BY DEF reach
  <1> QED
    BY <1>1, <1>6, <1>7

\* A scan finds what it is meant to find.
LEMMA ScanIsExact ==
    ASSUME NEW t, IsTree(t), NEW scan, scan.maxDepth \in Nat, NEW given
    PROVE  LET root == expandPath(given) IN
           DOMAIN ScanForProjects(t, scan, {given}) =
             IF root \in DOMAIN t /\ t[root].readable THEN ToFind(t, scan, root) ELSE {}
  <1> DEFINE root == expandPath(given)
             max  == MaxDepth(scan)
  <1>1. DOMAIN ScanForProjects(t, scan, {given}) = IF root \in DOMAIN t THEN scanPath(t, scan, root) ELSE {}
    BY DEF ScanForProjects
  <1>2. max \in Nat
    BY DEF MaxDepth
  <1> HIDE DEF root, max
  <1>3. ASSUME root \in DOMAIN t, t[root].readable PROVE scanPath(t, scan, root) = ToFind(t, scan, root)
    <2>1. root \in Seq(STRING) /\ Len(root) \in Nat /\ Up(root, Len(root)) = root
      BY <1>3, WaysOfWays DEF IsTree
    <2>2. scanDirectory(t, scan, root) = {q \in Reach(t, scan, max, root) : IsProjectRoot(t, q)}
      BY <1>2, <1>3, VisitedAreReached DEF scanDirectory, max
    <2>3. Within(t, scan, root, root)
      <3>1. \A i \in (Len(root) + 1)..Len(root) : FALSE
        BY <2>1
      <3>2. \A i \in Len(root)..Len(root) : t[Up(root, i)].readable
        BY <1>3, <2>1
      <3>3. IsPrefix(root, root) /\ Len(root) - Len(root) <= max
        BY <1>2, <2>1 DEF IsPrefix
      <3> QED
        BY <3>1, <3>2, <3>3 DEF Within, Up, max
    <2>4. ASSUME NEW q \in DOMAIN t, q # root PROVE Within(t, scan, root, q) <=> q \in Reach(t, scan, max, root)
      <3>1. q \in Seq(STRING) /\ Len(q) \in Nat /\ Up(q, Len(q)) = q
        BY WaysOfWays DEF IsTree
      <3>2. IsPrefix(root, q) <=> Len(root) < Len(q) /\ Up(q, Len(root)) = root
        BY <2>1, <2>4, <3>1 DEF IsPrefix, Up
      <3>3. Len(root) < Len(q) =>
              ((\A i \in Len(root)..Len(q) : i < Len(q) \/ q = root => t[Up(q, i)].readable)
               <=> \A i \in Len(root)..(Len(q) - 1) : t[Up(q, i)].readable)
        BY <2>1, <2>4, <3>1
      <3> QED
        BY <3>2, <3>3 DEF Within, Reach, Up, max
    <2>5. \A q \in Reach(t, scan, max, root) : q \in DOMAIN t /\ q # root
      BY <2>1 DEF Reach
    <2>6. \A q : q \in scanPath(t, scan, root) <=>
                   IsProjectRoot(t, q) /\ (q = root \/ q \in Reach(t, scan, max, root))
      BY <1>3, <2>2 DEF scanPath
    <2>7. \A q : q \in ToFind(t, scan, root) <=>
                   q \in DOMAIN t /\ IsProjectRoot(t, q) /\ Within(t, scan, root, q)
      BY DEF ToFind
    <2>8. \A q : q \in scanPath(t, scan, root) <=> q \in ToFind(t, scan, root)
      BY <1>3, <2>3, <2>4, <2>5, <2>6, <2>7
    <2> QED
      BY <2>8
  <1>4. ~(root \in DOMAIN t /\ t[root].readable) =>
          DOMAIN ScanForProjects(t, scan, {given}) = {}
    BY <1>1 DEF scanPath
  <1> QED
    BY <1>1, <1>3, <1>4 DEF root

\* What is detected in a directory is what one of its files says.
LEMMA DetectedAreRead ==
    ASSUME NEW files
    PROVE  Range(DetectProject(files)) \in Configured(files)
  <1> DEFINE parsed   == {files[f] : f \in Range(McpConfigs) \intersect DOMAIN files} \ {Garbled}
             parsable == {f \in DOMAIN files : f \in Range(McpConfigs) /\ files[f] # Garbled}
             none     == [n \in {} |-> n]
  <1>1. Range(none) = {}
    BY DEF Range
  <1>2. parsable = {} <=> parsed = {}
    OBVIOUS
  <1>3. CASE parsable = {}
    BY <1>1, <1>2, <1>3 DEF DetectProject, Configured
  <1>4. CASE parsable # {}
    <2>1. FirstOf(McpConfigs, parsable) \in parsable
      <3>1. \E i \in DOMAIN McpConfigs : McpConfigs[i] \in parsable
        BY <1>4 DEF Range
      <3>2. DOMAIN McpConfigs \subseteq Nat
        BY DEF McpConfigs
      <3> HIDE DEF parsable
      <3> QED
        BY <3>1, <3>2, FirstIsThere
    <2> DEFINE content == files[FirstOf(McpConfigs, parsable)]
    <2>2. content \in parsed /\ DetectProject(files) = ToConfig(content)
      BY <1>4, <2>1 DEF DetectProject
    <2> HIDE DEF content
    <2>3. Range(ToConfig(content)) \in Readings(content)
      <3> DEFINE sections == Range(Sections) \intersect DOMAIN content
      <3>1. CASE sections = {}
        BY <1>1, <3>1 DEF ToConfig, Readings
      <3>2. CASE sections # {}
        <4>1. FirstOf(Sections, DOMAIN content) \in DOMAIN content
          <5>1. \E i \in DOMAIN Sections : Sections[i] \in DOMAIN content
            BY <3>2 DEF Range
          <5>2. DOMAIN Sections \subseteq Nat
            BY DEF Sections
          <5> QED
            BY <5>1, <5>2, FirstIsThere
        <4>2. FirstOf(Sections, DOMAIN content) \in Range(Sections)
          <5>1. \E i \in DOMAIN Sections : Sections[i] \in DOMAIN content
            BY <3>2 DEF Range
          <5>2. DOMAIN Sections \subseteq Nat
            BY DEF Sections
          <5> QED
            BY <5>1, <5>2, FirstIsThere
        <4> QED
          BY <3>2, <4>1, <4>2 DEF ToConfig, Readings
      <3> QED
        BY <3>1, <3>2
    <2> QED
      BY <1>2, <1>4, <2>2, <2>3 DEF Configured
  <1> QED
    BY <1>3, <1>4

\* A project that is found goes out with the transports, commands and URLs of its servers.
LEMMA ListBodies ==
    ASSUME NEW bodies, IsFiniteSet(DOMAIN bodies), NEW list \in engineProjectConfigToPB(Scanned(bodies))
    PROVE  {m.body : m \in Range(list)} = {Substituted(b) : b \in Range(bodies)}
  <1> DEFINE S == DOMAIN bodies
             n == Cardinality(S)
  <1>1. DOMAIN Scanned(bodies) = S /\ \A x \in S : serverToWire(Scanned(bodies)[x]).body = Substituted(bodies[x])
    BY DEF Scanned, serverToWire
  <1>2. PICK order \in SetToSeqs(S) : list = [i \in DOMAIN order |-> serverToWire(Scanned(bodies)[order[i]])]
    BY <1>1 DEF engineProjectConfigToPB
  <1>3. order \in [1..n -> S] /\ \A i, j \in 1..n : i # j => order[i] # order[j]
    BY <1>2 DEF SetToSeqs
  <1>4. n \in Nat /\ IsFiniteSet(1..n) /\ Cardinality(1..n) = n
    BY FS_CardinalityType, FS_Interval
  <1> HIDE DEF n
  <1>5. \A x \in S : \E i \in 1..n : order[i] = x
    <2>1. order \in Injection(1..n, S)
      BY <1>3 DEF Injection, IsInjective
    <2>2. order \in Surjection(1..n, S)
      BY <1>4, <2>1, FS_Injection DEF n
    <2> QED
      BY <2>2 DEF Surjection
  <1>6. DOMAIN list = 1..n /\ \A i \in 1..n : list[i].body = Substituted(bodies[order[i]])
    BY <1>1, <1>2, <1>3
  <1>7. {m.body : m \in Range(list)} = {Substituted(bodies[order[i]]) : i \in 1..n}
    BY <1>6 DEF Range
  <1>8. {Substituted(bodies[order[i]]) : i \in 1..n} = {Substituted(bodies[x]) : x \in S}
    BY <1>3, <1>5
  <1> QED
    BY <1>7, <1>8 DEF Range

\* Only scans answer with what was found.
LEMMA OnlyScansFind ==
    ASSUME WireTypeOK, WireNext, NEW d \in Clients, held'[d] # held[d], held'[d].kind = "found"
    PROVE  \E r \in ScanForProjectsRequest : ScanForProjects1(d, r)
  <1>1. DOMAIN held = Clients
    BY DEF WireTypeOK
  <1>2. ASSUME NEW c \in Clients, NEW a, held' = [held EXCEPT ![c] = a]
        PROVE  c = d /\ a.kind = "found"
    <2>1. c = d
      BY <1>2
    <2> QED
      BY <1>1, <1>2, <2>1
  <1>3. ASSUME NEW c \in Clients, NEW a, Called(c, a) PROVE c = d /\ a.kind = "found"
    BY <1>2, <1>3 DEF Called
  <1>4. NoAnswer.kind # "found" /\ \A n : ServerAnswer(n).kind # "found"
    BY DEF NoAnswer, ServerAnswer
  <1>5. PICK c \in Clients : Reread(c) \/ ServerCall(c) \/ ConfigCall(c) \/ ProjectCall(c)
    BY DEF WireNext
  <1>6. ~Reread(c)
    BY <1>2, <1>4 DEF Reread
  <1>7. ~ServerCall(c)
    <2>1. \A n, m : ~AddServer(c, [name |-> n, config |-> m]) /\ ~UpdateServer(c, [name |-> n, config |-> m])
      BY <1>3 DEF AddServer, UpdateServer
    <2>2. \A r : ~RemoveServer(c, r) /\ ~GetServer(c, r)
      BY <1>3, <1>4 DEF RemoveServer, GetServer, Reading
    <2>3. \A r : ~EnableServer(c, r) /\ ~DisableServer(c, r)
      BY <1>3 DEF EnableServer, DisableServer, Enable
    <2>4. \A r : ~ListServers(c, r)
      BY <1>3 DEF ListServers, Reading
    <2> QED
      BY <2>1, <2>2, <2>3, <2>4 DEF ServerCall
  <1>8. ~ConfigCall(c)
    <2>1. ~GetConfig(c)
      BY <1>3 DEF GetConfig
    <2>2. ~LoadConfig(c) /\ \A sent : ~SetConfig(c, sent)
      BY <1>3, <1>4 DEF LoadConfig, SetConfig
    <2> QED
      BY <2>1, <2>2 DEF ConfigCall
  <1>9. PICK r \in ScanForProjectsRequest : ScanForProjects1(c, r)
    <2>1. \A r : ~RegisterProject(c, r)
      BY <1>3, <1>4 DEF RegisterProject
    <2>2. ASSUME NEW r, GetProjectConfig(c, r) PROVE FALSE
      <3>1. PICK list : Reading(c, [kind |-> "project", config |-> list])
        BY <2>2 DEF GetProjectConfig
      <3> QED
        BY <1>3, <3>1 DEF Reading
    <2>3. ~ListProjects(c)
      BY <1>3 DEF ListProjects, Reading
    <2> QED
      BY <1>5, <1>6, <1>7, <1>8, <2>1, <2>2, <2>3 DEF ProjectCall
  <1>10. c = d
    BY <1>3, <1>9 DEF ScanForProjects1, Reading
  <1> QED
    BY <1>9, <1>10

\* A scan answers with exactly the projects on readable, not excluded ways down from its
\* root, to the configured depth, and each with the servers of a section of one of its
\* files, their variables substituted, in any tree (project_manager.go ScanForProjects, scanDirectory, DetectProject).
THEOREM ScansAreExact == WireSpec => ScansFindAll
  <1> DEFINE Finds == \A c \in Clients :
                        held'[c] # held[c] /\ held'[c].kind = "found" =>
                          \E r \in ScanForProjectsRequest : IsExact(held'[c].projects, expandPath(r.root))
  <1>1. ASSUME WireTypeOK, NEW d \in Clients, NEW r \in ScanForProjectsRequest, ScanForProjects1(d, r)
        PROVE  IsExact(held'[d].projects, expandPath(r.root))
    <2> DEFINE found == DOMAIN ScanForProjects(tree, config.scan, {r.root})
               bodies(p) == DetectProject(tree[p].files)
               projects == [p \in found |-> Scanned(bodies(p))]
    <2>1. PICK answer \in Listed(projects) : Reading(d, [kind |-> "found", projects |-> answer])
      BY <1>1 DEF ScanForProjects1
    <2>2. held'[d].projects = answer
      BY <1>1, <2>1 DEF Reading, Called, WireTypeOK
    <2>3. tree \in Trees /\ IsTree(tree) /\ config.scan.maxDepth \in Nat
      BY <1>1, WireFacts DEF WireTypeOK, IsConfig
    <2>4. LET root == expandPath(r.root) IN
          found = IF root \in DOMAIN tree /\ tree[root].readable THEN ToFind(tree, config.scan, root) ELSE {}
      BY <2>3, ScanIsExact
    <2>5. found \subseteq DOMAIN tree
      BY FoundInTree
    <2> HIDE DEF found
    <2>6. DOMAIN projects = found
      OBVIOUS
    <2>7. \A i \in answer : i.path \in found /\ i.config \in engineProjectConfigToPB(Scanned(bodies(i.path)))
      <3> HIDE DEF bodies
      <3> QED
        BY <2>1 DEF Listed
    <2>8. \A p \in found : \E i \in answer : i.path = p
      <3> SUFFICES ASSUME NEW p \in found, {i \in answer : i.path = p} = {} PROVE FALSE
        OBVIOUS
      <3>1. Cardinality({i \in answer : i.path = p}) = 1
        <4> HIDE DEF projects
        <4> QED
          BY <2>1, <2>6 DEF Listed
      <3>2. Cardinality({}) = 0
        BY FS_EmptySet
      <3>3. Cardinality({i \in answer : i.path = p}) = Cardinality({})
        OBVIOUS
      <3> QED
        BY <3>1, <3>2, <3>3
    <2>9. {i.path : i \in answer} = found
      BY <2>7, <2>8
    <2>10. ASSUME NEW i \in answer
           PROVE  \E reading \in Configured(tree[i.path].files) :
                    {m.body : m \in Range(i.config)} = {Substituted(b) : b \in reading}
      <3>1. i.path \in DOMAIN tree
        BY <2>5, <2>7
      <3>2. IsFiniteSet(DOMAIN bodies(i.path))
        <4>1. IsFiniteSet(DOMAIN Scanned(bodies(i.path)))
          BY <2>3, <3>1, DetectedTypes
        <4> QED
          BY <4>1 DEF Scanned
      <3>3. {m.body : m \in Range(i.config)} = {Substituted(b) : b \in Range(bodies(i.path))}
        <4> HIDE DEF bodies
        <4> QED
          BY <2>7, <3>2, ListBodies
      <3>4. Range(bodies(i.path)) \in Configured(tree[i.path].files)
        BY DetectedAreRead
      <3> HIDE DEF bodies
      <3> QED
        BY <3>3, <3>4
    <2> QED
      BY <2>2, <2>4, <2>9, <2>10 DEF IsExact
  <1>2. WireTypeOK /\ [WireNext]_wireVars => [Finds]_wireVars
    BY <1>1, OnlyScansFind
  <1> QED
    BY <1>2, WireTypeCorrect, PTL DEF WireSpec, ScansFindAll
=============================================================================

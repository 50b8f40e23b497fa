-------------------------- MODULE SyncFanout_proof --------------------------
(***************************************************************************)
(* Proofs about SyncFanout for any calls, destinations and bounds, and for *)
(* a semaphore of any size.                                                *)
(***************************************************************************)
EXTENDS SyncFanout, FiniteSetTheorems, TLAPS

LEMMA Constants ==
    /\ MaxVersion \in Nat /\ MaxFailures \in Nat /\ Limit \in Nat /\ Limit > 0
    /\ IsFiniteSet(Dest)
    /\ \A c \in Call : \A ask \in Asked(c) : ask[1] \in Kind /\ ask[2] \in SUBSET Dest
  BY SyncFanoutAssumption DEF SyncFanoutAssumption, Kind

LEMMA NoMixUps ==
    /\ Nothing \notin Nat /\ Foreign \notin Nat /\ Empty \notin Nat /\ Torn \notin Nat
    /\ Nothing # Foreign /\ Nothing # Empty /\ Nothing # Torn
    /\ Foreign # Empty /\ Foreign # Torn /\ Empty # Torn
    /\ Nothing # "ok" /\ Nothing # "failed"
  BY SyncFanoutAssumption DEF SyncFanoutAssumption

-----------------------------------------------------------------------------
(* Types.  That no more slots come back than there are is counting, and     *)
(* follows below.                                                          *)

Places == InFlight \union {"no", "left", "done"}

TypeInv ==
    /\ config \in Version /\ dead \in BOOLEAN
    /\ phase \in [Call -> {"new", "running", "returned"}] /\ kind \in [Call -> Kind]
    /\ cancelled \in [Call -> BOOLEAN] /\ slots \in [Call -> Nat]
    /\ at \in [Call -> [Dest -> Places]]
    /\ snap \in [Call -> [Dest -> Version]]
    /\ handle \in [Call -> [Dest -> {"none", "tmp", "file"}]]
    /\ saved \in [Call -> [Dest -> Content]]
    /\ outcome \in [Call -> [Dest -> {Nothing, "ok", "failed"}]]
    /\ file \in [Dest -> Content] /\ tmp \in [Dest -> Content]
    /\ overlap \in [Dest -> BOOLEAN] /\ failures \in 0..MaxFailures

LEMMA GotoTypes ==
    ASSUME TypeInv, NEW c \in Call, NEW d \in Dest, NEW l \in Places, Goto(c, d, l)
    PROVE  at' \in [Call -> [Dest -> Places]]
  BY DEF TypeInv, Goto

LEMMA ReportTypes ==
    ASSUME TypeInv, NEW c \in Call, NEW d \in Dest, NEW how \in {"ok", "failed"},
           Report(c, d, how)
    PROVE  /\ at' \in [Call -> [Dest -> Places]]
           /\ outcome' \in [Call -> [Dest -> {Nothing, "ok", "failed"}]]
           /\ slots' \in [Call -> Nat]
  <1>1. "done" \in Places
    BY DEF Places
  <1>2. at' \in [Call -> [Dest -> Places]]
    BY <1>1, GotoTypes DEF Report
  <1>3. outcome' \in [Call -> [Dest -> {Nothing, "ok", "failed"}]]
    BY DEF Report, TypeInv
  <1>4. slots' \in [Call -> Nat]
    BY DEF Report, TypeInv
  <1> QED
    BY <1>2, <1>3, <1>4

LEMMA FailTypes == ASSUME TypeInv, Fail PROVE failures' \in 0..MaxFailures
  BY Constants DEF TypeInv, Fail

LEMMA PutTypes ==
    ASSUME TypeInv, NEW c \in Call, NEW d \in Dest, NEW x \in Content, Put(c, d, x)
    PROVE  /\ file' \in [Dest -> Content] /\ tmp' \in [Dest -> Content]
           /\ handle' \in [Call -> [Dest -> {"none", "tmp", "file"}]]
  BY DEF TypeInv, Put

LEMMA PlacesAre ==
    Places = {"iterate", "backup", "open", "write", "rename", "load", "queued",
              "no", "left", "done"}
  BY DEF Places, InFlight, Busy, Writing

LEMMA ContentsAre == Version \subseteq Content /\ {Nothing, Foreign, Empty, Torn} \subseteq Content
  BY DEF Content

LEMMA TypeInit == Init => TypeInv
  <1> SUFFICES ASSUME Init PROVE TypeInv
    OBVIOUS
  <1>1. config \in Version /\ failures \in 0..MaxFailures /\ 0 \in Version
    BY Constants DEF Init, Version
  <1>2. at \in [Call -> [Dest -> Places]] /\ kind \in [Call -> Kind]
    BY PlacesAre DEF Init, Kind
  <1>3. file \in [Dest -> Content] /\ tmp \in [Dest -> Content]
          /\ saved \in [Call -> [Dest -> Content]]
    BY ContentsAre DEF Init
  <1>4. snap \in [Call -> [Dest -> Version]] /\ slots \in [Call -> Nat]
    BY <1>1, Constants DEF Init
  <1> QED
    BY <1>1, <1>2, <1>3, <1>4 DEF Init, TypeInv

LEMMA TypeBegin ==
    ASSUME TypeInv, NEW c \in Call, NEW ask \in Asked(c), Begin(c, ask[1], ask[2])
    PROVE  TypeInv'
  <1>1. ask[1] \in Kind
    BY Constants
  <1>2. at' \in [Call -> [Dest -> Places]]
    BY PlacesAre DEF TypeInv, Begin
  <1>3. phase' \in [Call -> {"new", "running", "returned"}] /\ kind' \in [Call -> Kind]
    BY <1>1 DEF TypeInv, Begin
  <1> QED
    BY <1>2, <1>3 DEF TypeInv, Begin, disk

LEMMA TypeJob ==
    ASSUME TypeInv, NEW c \in Call, NEW d \in Dest, JobStep(c, d)
    PROVE  TypeInv'
  <1>1. CASE Acquire(c, d)
    <2>1. PICK l \in Places : Goto(c, d, l)
      BY <1>1, PlacesAre DEF Acquire
    <2>2. at' \in [Call -> [Dest -> Places]]
      BY <2>1, GotoTypes
    <2>3. slots' \in [Call -> Nat]
      BY <1>1 DEF Acquire, TypeInv
    <2> QED
      BY <1>1, <2>2, <2>3 DEF Acquire, TypeInv, calls, disk
  <1>2. CASE Load(c, d)
    <2>1. CASE ~Panics(c, d) /\ UNCHANGED <<dead, slots, outcome, failures>>
                 /\ Goto(c, d, IF kind[c] = "targets" THEN "backup" ELSE "iterate")
                 /\ snap' = [snap EXCEPT ![c][d] = config]
                 /\ overlap' = [overlap EXCEPT ![d] = @ \/ Others(c, d) # {}]
      <3>1. at' \in [Call -> [Dest -> Places]]
        BY <2>1, GotoTypes, PlacesAre
      <3>2. snap' \in [Call -> [Dest -> Version]]
        BY <2>1 DEF TypeInv
      <3>3. overlap' \in [Dest -> BOOLEAN]
        BY <2>1, Zenon DEF TypeInv
      <3> QED
        BY <1>2, <2>1, <3>1, <3>2, <3>3 DEF Load, TypeInv, calls, disk
    <2>2. CASE Fail /\ Report(c, d, "failed") /\ UNCHANGED <<dead, snap, overlap>>
      BY <1>2, <2>2, ReportTypes, FailTypes DEF Load, TypeInv, calls, disk
    <2>3. CASE dead' = TRUE /\ UNCHANGED <<at, slots, snap, outcome, overlap, failures>>
      BY <1>2, <2>3 DEF Load, TypeInv, calls, disk
    <2> QED
      BY <1>2, <2>1, <2>2, <2>3 DEF Load
  <1>3. CASE Iterated(c, d)
    BY <1>3, GotoTypes, PlacesAre DEF Iterated, TypeInv, calls, disk
  <1>4. CASE Backup(c, d)
    <2>1. CASE kind[c] = "dry"
      BY <1>4, <2>1, ReportTypes DEF Backup, TypeInv, calls, disk
    <2>2. CASE kind[c] # "dry"
      <3>1. saved' \in [Call -> [Dest -> Content]]
        <4>1. PICK x \in Kept(d) : saved' = [saved EXCEPT ![c][d] = x]
          BY <1>4, <2>2 DEF Backup
        <4>2. x \in Content
          BY ContentsAre DEF Kept, TypeInv
        <4> QED
          BY <4>1, <4>2 DEF TypeInv
      <3>2. at' \in [Call -> [Dest -> Places]]
        BY <1>4, <2>2, GotoTypes, PlacesAre DEF Backup
      <3> QED
        BY <1>4, <2>2, <3>1, <3>2 DEF Backup, TypeInv, calls, disk
    <2> QED
      BY <2>1, <2>2
  <1>5. CASE Open(c, d)
    <2>1. tmp' \in [Dest -> Content] /\ handle' \in [Call -> [Dest -> {"none", "tmp", "file"}]]
      BY <1>5, ContentsAre DEF Open, TypeInv
    <2>2. at' \in [Call -> [Dest -> Places]]
      BY <1>5, GotoTypes, PlacesAre DEF Open
    <2> QED
      BY <1>5, <2>1, <2>2 DEF Open, TypeInv, calls
  <1>6. CASE Write(c, d)
    <2>1. PICK x \in Content : Put(c, d, x)
      BY <1>6, ContentsAre DEF Write, TypeInv
    <2>2. at' \in [Call -> [Dest -> Places]]
      BY <1>6, GotoTypes, PlacesAre DEF Write
    <2> QED
      BY <1>6, <2>1, <2>2, PutTypes DEF Write, TypeInv, calls
  <1>7. CASE WriteFails(c, d)
    <2>1. Put(c, d, Torn) /\ Torn \in Content
      BY <1>7, ContentsAre DEF WriteFails
    <2>2. Fail /\ Report(c, d, "failed")
      BY <1>7 DEF WriteFails
    <2> QED
      BY <1>7, <2>1, <2>2, PutTypes, ReportTypes, FailTypes DEF WriteFails, TypeInv, calls
  <1>8. CASE Rename(c, d)
    <2>1. file' \in [Dest -> Content] /\ tmp' \in [Dest -> Content]
      BY <1>8, ContentsAre DEF Rename, TypeInv
    <2>2. handle' \in [Call -> [Dest -> {"none", "tmp", "file"}]]
      BY <1>8 DEF Rename, TypeInv
    <2>3. Report(c, d, "ok")
      BY <1>8 DEF Rename
    <2> QED
      BY <1>8, <2>1, <2>2, <2>3, ReportTypes DEF Rename, TypeInv, calls
  <1>9. CASE RenameFails(c, d)
    <2>1. tmp' \in [Dest -> Content] /\ handle' \in [Call -> [Dest -> {"none", "tmp", "file"}]]
      <3>1. CASE kind[c] = "targets"
        <4>1. tmp' = [tmp EXCEPT ![d] = Nothing]
          BY <1>9, <3>1 DEF RenameFails
        <4>2. handle' = [b \in Call |-> [handle[b] EXCEPT ![d] = IF @ = "tmp" THEN "none" ELSE @]]
          BY <1>9, <3>1 DEF RenameFails
        <4>3. tmp' \in [Dest -> Content]
          BY <4>1, ContentsAre DEF TypeInv
        <4>4. handle' \in [Call -> [Dest -> {"none", "tmp", "file"}]]
          BY <4>2 DEF TypeInv
        <4> QED
          BY <4>3, <4>4
      <3>2. CASE kind[c] # "targets"
        BY <1>9, <3>2 DEF RenameFails, TypeInv
      <3> QED
        BY <3>1, <3>2
    <2>2. Report(c, d, "failed")
      BY <1>9 DEF RenameFails
    <2>3. failures' \in 0..MaxFailures
      BY <1>9, FailTypes DEF RenameFails, TypeInv
    <2> QED
      BY <1>9, <2>1, <2>2, <2>3, ReportTypes DEF RenameFails, TypeInv, calls
  <1> QED
    BY <1>1, <1>2, <1>3, <1>4, <1>5, <1>6, <1>7, <1>8, <1>9 DEF JobStep

LEMMA TypeRest ==
    ASSUME TypeInv,
           (\E c \in Call : Return(c) \/ Cancel(c)) \/ Replace \/ Mutate \/ UNCHANGED vars
    PROVE  TypeInv'
  <1>1. CASE \E c \in Call : Return(c) \/ Cancel(c)
    BY <1>1 DEF Return, Cancel, TypeInv, disk
  <1>2. CASE Replace
    BY <1>2, Constants DEF Replace, TypeInv, Version, calls, disk
  <1>3. CASE Mutate
    <2>1. config' \in Version
      BY <1>3, Constants DEF Mutate, TypeInv, Version
    <2>2. snap' \in [Call -> [Dest -> Version]]
      <3>1. CASE UNCHANGED snap
        BY <3>1, <2>1 DEF TypeInv, Version
      <3>2. CASE \E new \in SUBSET Iterating :
                   snap' = [c \in Call |-> [d \in Dest |-> IF <<c, d>> \in new THEN config + 1
                                                           ELSE snap[c][d]]]
        <4>1. PICK new \in SUBSET Iterating :
                   snap' = [c \in Call |-> [d \in Dest |-> IF <<c, d>> \in new THEN config + 1
                                                           ELSE snap[c][d]]]
          BY <3>2
        <4>2. config + 1 \in Version
          BY <1>3, <2>1 DEF Mutate
        <4> QED
          BY ONLY <4>1, <4>2, TypeInv DEF TypeInv
      <3> QED
        BY <1>3, <3>1, <3>2 DEF Mutate
    <2> QED
      BY <1>3, <2>1, <2>2 DEF Mutate, TypeInv, calls, disk
  <1>4. CASE UNCHANGED vars
    BY <1>4 DEF vars, TypeInv, calls, disk
  <1> QED
    BY <1>1, <1>2, <1>3, <1>4

-----------------------------------------------------------------------------
(* The jobs of a call, and the slots they hold.                            *)

JobInv ==
    /\ \A c \in Call : phase[c] = "new" => kind[c] = "dests" /\ \A d \in Dest : at[c][d] = "no"
    /\ \A c \in Call : phase[c] = "returned" => \A d \in Dest : at[c][d] \notin InFlight
    /\ \A c \in Call, d \in Dest : at[c][d] = "queued" => kind[c] = "targets"
    /\ \A c \in Call, d \in Dest : at[c][d] = "left" => cancelled[c]
    /\ \A c \in Call, d \in Dest : outcome[c][d] # Nothing <=> at[c][d] = "done"

Held(c) == {d \in Dest : at[c][d] \in Busy}

\* Every slot of a semaphore is free, or with a worker that has begun and not reported.
SlotInv ==
    \A c \in Call : slots[c] + (IF kind[c] = "targets" THEN Cardinality(Held(c)) ELSE 0) = Limit

Moves(c, d)   == at[c][d] \in Busy /\ (\E l \in Busy : Goto(c, d, l)) /\ UNCHANGED <<slots, outcome>>
Reports(c, d) == at[c][d] \in Busy /\ \E how \in {"ok", "failed"} : Report(c, d, how)

LEMMA BusyIs == Busy = {"iterate", "backup", "open", "write", "rename", "load"}
  BY DEF Busy, Writing

LEMMA JobKinds ==
    ASSUME NEW c \in Call, NEW d \in Dest, JobStep(c, d)
    PROVE  /\ UNCHANGED calls
           /\ \/ Acquire(c, d) \/ Moves(c, d) \/ Reports(c, d)
              \/ UNCHANGED <<at, slots, outcome>>
  <1> USE BusyIs
  <1>1. CASE Acquire(c, d)
    BY <1>1 DEF Acquire
  <1>2. CASE Load(c, d)
    BY <1>2 DEF Load, At, Moves, Reports
  <1>3. CASE Iterated(c, d)
    BY <1>3 DEF Iterated, At, Moves
  <1>4. CASE Backup(c, d)
    BY <1>4 DEF Backup, At, Moves, Reports
  <1>5. CASE Open(c, d)
    BY <1>5 DEF Open, At, Moves
  <1>6. CASE Write(c, d)
    BY <1>6 DEF Write, At, Moves
  <1>7. CASE WriteFails(c, d)
    BY <1>7 DEF WriteFails, At, Reports
  <1>8. CASE Rename(c, d)
    BY <1>8 DEF Rename, At, Reports
  <1>9. CASE RenameFails(c, d)
    BY <1>9 DEF RenameFails, At, Reports
  <1> QED
    BY <1>1, <1>2, <1>3, <1>4, <1>5, <1>6, <1>7, <1>8, <1>9 DEF JobStep

LEMMA HeldIsFinite ==
    ASSUME NEW c \in Call
    PROVE  IsFiniteSet(Held(c)) /\ Cardinality(Held(c)) \in Nat
  BY Constants, FS_Subset, FS_CardinalityType DEF Held

\* A worker that goes from one place to another changes its own call's set at most.
LEMMA HeldAfter ==
    ASSUME TypeInv, NEW c \in Call, NEW d \in Dest, NEW l \in Places, Goto(c, d, l)
    PROVE  /\ \A b \in Call \ {c} : Held(b)' = Held(b)
           /\ Held(c)' = IF l \in Busy THEN Held(c) \union {d} ELSE Held(c) \ {d}
  <1>1. \A b \in Call, e \in Dest : at'[b][e] = IF b = c /\ e = d THEN l ELSE at[b][e]
    BY DEF TypeInv, Goto
  <1> QED
    BY <1>1 DEF Held

LEMMA JobsJob ==
    ASSUME TypeInv, JobInv, NEW c \in Call, NEW d \in Dest, JobStep(c, d)
    PROVE  JobInv'
  <1> USE BusyIs
  <1>1. UNCHANGED <<phase, kind, cancelled>>
    BY JobKinds DEF calls
  <1>2. CASE Acquire(c, d)
    <2>1. PICK l \in {"left", "load"} : Goto(c, d, l) /\ (l = "left" => cancelled[c])
      BY <1>2 DEF Acquire
    <2>2. at[c][d] = "queued" /\ UNCHANGED outcome
      BY <1>2 DEF Acquire, At
    <2>3. \A b \in Call, e \in Dest : at'[b][e] = IF b = c /\ e = d THEN l ELSE at[b][e]
      BY <2>1 DEF TypeInv, Goto
    <2>4. phase[c] # "new" /\ phase[c] # "returned"
      BY <2>2 DEF JobInv, InFlight
    <2> QED
      BY <1>1, <2>1, <2>2, <2>3, <2>4 DEF JobInv
  <1>3. CASE Moves(c, d)
    <2>1. PICK l \in Busy : Goto(c, d, l)
      BY <1>3 DEF Moves
    <2>2. at[c][d] \in Busy /\ UNCHANGED outcome
      BY <1>3 DEF Moves
    <2>3. \A b \in Call, e \in Dest : at'[b][e] = IF b = c /\ e = d THEN l ELSE at[b][e]
      BY <2>1 DEF TypeInv, Goto
    <2>4. phase[c] = "running"
      BY <2>2 DEF JobInv, TypeInv, InFlight
    <2> QED
      BY <1>1, <2>1, <2>2, <2>3, <2>4 DEF JobInv
  <1>4. CASE Reports(c, d)
    <2>1. PICK how \in {"ok", "failed"} : Report(c, d, how)
      BY <1>4 DEF Reports
    <2>2. at[c][d] \in Busy
      BY <1>4 DEF Reports
    <2>3. \A b \in Call, e \in Dest : at'[b][e] = IF b = c /\ e = d THEN "done" ELSE at[b][e]
      BY <2>1 DEF TypeInv, Goto, Report
    <2>4. \A b \in Call, e \in Dest : outcome'[b][e] = IF b = c /\ e = d THEN how ELSE outcome[b][e]
      BY <2>1 DEF TypeInv, Report
    <2>5. phase[c] = "running"
      BY <2>2 DEF JobInv, TypeInv, InFlight
    <2> QED
      BY <1>1, <2>1, <2>2, <2>3, <2>4, <2>5, NoMixUps DEF JobInv, InFlight
  <1>5. CASE UNCHANGED <<at, slots, outcome>>
    BY <1>1, <1>5 DEF JobInv
  <1> QED
    BY <1>2, <1>3, <1>4, <1>5, JobKinds

LEMMA SlotsJob ==
    ASSUME TypeInv, JobInv, SlotInv, NEW c \in Call, NEW d \in Dest, JobStep(c, d)
    PROVE  SlotInv'
  <1>1. UNCHANGED kind
    BY JobKinds DEF calls
  <1>2. \A b \in Call : slots[b] \in Nat /\ Cardinality(Held(b)) \in Nat
    BY HeldIsFinite DEF TypeInv
  <1>3. CASE Acquire(c, d)
    <2>1. at[c][d] = "queued" /\ kind[c] = "targets" /\ slots[c] > 0
      BY <1>3 DEF Acquire, At, JobInv
    <2>2. d \notin Held(c)
      BY <2>1, BusyIs DEF Held
    <2>3. CASE Goto(c, d, "left") /\ UNCHANGED slots
      <3>1. \A b \in Call : Held(b)' = Held(b)
        BY <2>2, <2>3, HeldAfter, BusyIs, PlacesAre
      <3> QED
        BY <1>1, <2>3, <3>1 DEF SlotInv
    <2>4. CASE Goto(c, d, "load") /\ slots' = [slots EXCEPT ![c] = @ - 1]
      <3>1. \A b \in Call \ {c} : Held(b)' = Held(b)
        BY <2>4, HeldAfter, PlacesAre
      <3>2. Held(c)' = Held(c) \union {d}
        BY <2>4, HeldAfter, BusyIs, PlacesAre
      <3>3. Cardinality(Held(c)') = Cardinality(Held(c)) + 1
        BY <2>2, <3>2, HeldIsFinite, FS_AddElement
      <3>4. slots'[c] = slots[c] - 1 /\ \A b \in Call \ {c} : slots'[b] = slots[b]
        BY <2>4 DEF TypeInv
      <3>5. \A b \in Call \ {c} : slots'[b] + (IF kind'[b] = "targets" THEN Cardinality(Held(b)') ELSE 0) = Limit
        BY <1>1, <3>1, <3>4 DEF SlotInv
      <3>6. slots'[c] + Cardinality(Held(c)') = Limit
        BY <1>2, <2>1, <3>3, <3>4 DEF SlotInv
      <3> QED
        BY <1>1, <2>1, <3>5, <3>6 DEF SlotInv
    <2> QED
      BY <1>3, <2>3, <2>4 DEF Acquire
  <1>4. CASE Moves(c, d)
    <2>1. PICK l \in Busy : Goto(c, d, l)
      BY <1>4 DEF Moves
    <2>2. d \in Held(c) /\ UNCHANGED slots
      BY <1>4 DEF Moves, Held
    <2>3. \A b \in Call : Held(b)' = Held(b)
      BY <2>1, <2>2, HeldAfter DEF Places, InFlight
    <2> QED
      BY <1>1, <2>2, <2>3 DEF SlotInv
  <1>5. CASE Reports(c, d)
    <2>1. PICK how \in {"ok", "failed"} : Report(c, d, how)
      BY <1>5 DEF Reports
    <2>2. d \in Held(c) /\ Goto(c, d, "done")
      BY <1>5, <2>1 DEF Reports, Report, Held
    <2>3. \A b \in Call \ {c} : Held(b)' = Held(b)
      BY <2>2, HeldAfter, PlacesAre
    <2>4. Held(c)' = Held(c) \ {d}
      BY <2>2, HeldAfter, BusyIs, PlacesAre
    <2>5. Cardinality(Held(c)') = Cardinality(Held(c)) - 1
      BY <2>2, <2>4, HeldIsFinite, FS_RemoveElement
    <2>6. slots' = IF kind[c] = "targets" THEN [slots EXCEPT ![c] = @ + 1] ELSE slots
      BY <2>1 DEF Report
    <2>7. \A b \in Call \ {c} : slots'[b] = slots[b]
      BY <2>6 DEF TypeInv
    <2>8. \A b \in Call \ {c} : slots'[b] + (IF kind'[b] = "targets" THEN Cardinality(Held(b)') ELSE 0) = Limit
      BY <1>1, <2>3, <2>7 DEF SlotInv
    <2>9. slots'[c] + (IF kind'[c] = "targets" THEN Cardinality(Held(c)') ELSE 0) = Limit
      <3>1. CASE kind[c] = "targets"
        <4>1. slots'[c] = slots[c] + 1
          BY <2>6, <3>1 DEF TypeInv
        <4> QED
          BY <1>1, <1>2, <2>5, <3>1, <4>1 DEF SlotInv
      <3>2. CASE kind[c] # "targets"
        BY <1>1, <2>6, <3>2 DEF SlotInv
      <3> QED
        BY <3>1, <3>2
    <2> QED
      BY <2>8, <2>9 DEF SlotInv
  <1>6. CASE UNCHANGED <<at, slots, outcome>>
    BY <1>1, <1>6 DEF SlotInv, Held
  <1> QED
    BY <1>3, <1>4, <1>5, <1>6, JobKinds

LEMMA JobsBegin ==
    ASSUME TypeInv, JobInv, SlotInv,
           NEW c \in Call, NEW ask \in Asked(c), Begin(c, ask[1], ask[2])
    PROVE  JobInv' /\ SlotInv'
  <1>1. phase[c] = "new" /\ kind[c] = "dests"
    BY DEF Begin, JobInv
  <1>2. /\ \A b \in Call \ {c} : phase'[b] = phase[b] /\ kind'[b] = kind[b] /\ at'[b] = at[b]
        /\ phase'[c] = "running" /\ kind'[c] = ask[1]
        /\ \A d \in Dest : at'[c][d] \in {"no", IF ask[1] = "targets" THEN "queued" ELSE "load"}
        /\ UNCHANGED <<cancelled, outcome, slots>>
    BY DEF Begin, TypeInv
  <1>3. JobInv'
    <2>1. \A d \in Dest : outcome[c][d] = Nothing
      BY <1>1 DEF JobInv
    <2>2. \A d \in Dest : at'[c][d] \notin {"left", "done"} /\ (at'[c][d] = "queued" => kind'[c] = "targets")
      BY <1>2
    <2> QED
      BY <1>2, <2>1, <2>2 DEF JobInv
  <1>4. SlotInv'
    <2>1. \A b \in Call \ {c} : Held(b)' = Held(b)
      BY <1>2 DEF Held
    <2>2. slots[c] = Limit
      <3>1. slots[c] + (IF kind[c] = "targets" THEN Cardinality(Held(c)) ELSE 0) = Limit
        BY DEF SlotInv
      <3>2. slots[c] \in Nat
        BY DEF TypeInv
      <3>3. kind[c] # "targets"
        BY <1>1
      <3> QED
        BY ONLY <3>1, <3>2, <3>3, Constants
    <2>3. ask[1] = "targets" => Held(c)' = {}
      BY <1>2, BusyIs DEF Held
    <2>4. slots'[c] + (IF kind'[c] = "targets" THEN Cardinality(Held(c)') ELSE 0) = Limit
      <3>1. slots'[c] = Limit
        BY <1>2, <2>2
      <3>2. kind'[c] = "targets" => Cardinality(Held(c)') = 0
        BY <1>2, <2>3, FS_EmptySet
      <3> QED
        BY ONLY <3>1, <3>2, Constants
    <2> QED
      BY <1>2, <2>1, <2>4 DEF SlotInv
  <1> QED
    BY <1>3, <1>4

LEMMA JobsRest ==
    ASSUME TypeInv, JobInv, SlotInv,
           (\E c \in Call : Return(c) \/ Cancel(c)) \/ Replace \/ Mutate \/ UNCHANGED vars
    PROVE  JobInv' /\ SlotInv'
  <1>1. UNCHANGED <<kind, slots, at, outcome>>
    BY DEF Return, Cancel, Replace, Mutate, vars, calls
  <1>2. SlotInv'
    BY <1>1 DEF SlotInv, Held
  <1>3. JobInv'
    <2>1. CASE \E c \in Call : Return(c)
      BY <1>1, <2>1 DEF Return, JobInv, TypeInv
    <2>2. CASE \E c \in Call : Cancel(c)
      BY <1>1, <2>2 DEF Cancel, JobInv, TypeInv
    <2>3. CASE Replace \/ Mutate \/ UNCHANGED vars
      BY <1>1, <2>3 DEF Replace, Mutate, vars, calls, JobInv
    <2> QED
      BY <2>1, <2>2, <2>3
  <1> QED
    BY <1>2, <1>3

Jobs == TypeInv /\ JobInv /\ SlotInv

THEOREM JobsInvariant == Spec => []Jobs
  <1>1. Init => Jobs
    <2> SUFFICES ASSUME Init PROVE Jobs
      OBVIOUS
    <2>1. JobInv
      BY DEF Init, JobInv
    <2>2. SlotInv
      BY Constants DEF Init, SlotInv
    <2> QED
      BY <2>1, <2>2, TypeInit DEF Jobs
  <1>2. Jobs /\ [Next]_vars => Jobs'
    <2> SUFFICES ASSUME Jobs, [Next]_vars PROVE Jobs'
      OBVIOUS
    <2>1. CASE \E c \in Call : \E ask \in Asked(c) : Begin(c, ask[1], ask[2])
      BY <2>1, TypeBegin, JobsBegin DEF Jobs
    <2>2. CASE \E c \in Call : \E d \in Dest : JobStep(c, d)
      BY <2>2, TypeJob, JobsJob, SlotsJob DEF Jobs
    <2>3. CASE (\E c \in Call : Return(c) \/ Cancel(c)) \/ Replace \/ Mutate \/ UNCHANGED vars
      BY <2>3, TypeRest, JobsRest DEF Jobs
    <2> QED
      BY <2>1, <2>2, <2>3 DEF Next
  <1> QED
    BY <1>1, <1>2, PTL DEF Spec

\* The variables have their types, and a semaphore never has more than its slots: every
\* worker gives back what it took, on every way out (sync.go:115-141).
THEOREM TypeCorrect == Spec => []TypeOK
  <1>1. Jobs => TypeOK
    <2> SUFFICES ASSUME Jobs PROVE TypeOK
      OBVIOUS
    <2>1. \A c \in Call : slots[c] \in 0..Limit
      <3> SUFFICES ASSUME NEW c \in Call PROVE slots[c] \in 0..Limit
        OBVIOUS
      <3>1. slots[c] + (IF kind[c] = "targets" THEN Cardinality(Held(c)) ELSE 0) = Limit
        BY DEF Jobs, SlotInv
      <3>2. slots[c] \in Nat /\ Cardinality(Held(c)) \in Nat
        BY HeldIsFinite DEF Jobs, TypeInv
      <3> QED
        BY ONLY <3>1, <3>2, Constants
    <2>2. slots \in [Call -> 0..Limit]
      BY <2>1 DEF Jobs, TypeInv
    <2> QED
      BY <2>2 DEF Jobs, TypeInv, TypeOK, Places
  <1> QED
    BY <1>1, JobsInvariant, PTL

\* A call returns with a result for each of its destinations, but for those that its
\* cancelled context left out.
THEOREM ResultsAreComplete == Spec => []ResultsComplete
  <1>1. Jobs => ResultsComplete
    BY DEF Jobs, TypeInv, JobInv, ResultsComplete, Places
  <1> QED
    BY <1>1, JobsInvariant, PTL

-----------------------------------------------------------------------------
(* The files.  While no two syncs of a destination have been under way at   *)
(* once, whoever is under way owns its temporary file.                     *)

OneWriter(e) ==
    \A b, c \in Call : at[b][e] \in Writing /\ at[c][e] \in Writing => b = c

\* where the sync of e by c is, and what that says of the files
JobOK(c, e) ==
    /\ handle[c][e] # "none" => handle[c][e] = "tmp" /\ at[c][e] = "write"
    /\ at[c][e] = "write" => handle[c][e] = "tmp" /\ tmp[e] = Empty
    /\ at[c][e] = "rename" => tmp[e] = snap[c][e]
    /\ at[c][e] \in {"open", "write", "rename"} => saved[c][e] \in {Nothing, file[e]}
    /\ at[c][e] \in Writing => snap[c][e] <= config
    /\ at[c][e] \in Writing => (file[e] \in Version => file[e] <= snap[c][e])

FileOK(e) ==
    /\ file[e] \notin {Empty, Torn}
    /\ file[e] \in Version => file[e] <= config
    /\ OneWriter(e)
    /\ \A c \in Call : JobOK(c, e)

FilesInv == \A e \in Dest : ~overlap[e] => FileOK(e)

LEMMA WritingIs == Writing = {"iterate", "backup", "open", "write", "rename"}
  BY DEF Writing

\* What a step does not touch stays as it was.
LEMMA Untouched ==
    ASSUME TypeInv, NEW e \in Dest, FileOK(e), config' \in Nat, config' >= config,
           file'[e] = file[e], tmp'[e] = tmp[e],
           \A c \in Call : /\ at'[c][e] = at[c][e] /\ snap'[c][e] = snap[c][e]
                           /\ handle'[c][e] = handle[c][e] /\ saved'[c][e] = saved[c][e]
    PROVE  FileOK(e)'
  <1>1. config \in Nat /\ Version \subseteq Nat
    BY Constants DEF TypeInv, Version
  <1>2. \A c \in Call : snap[c][e] \in Nat
    BY <1>1 DEF TypeInv
  <1>3. file[e] \notin {Empty, Torn} /\ (file[e] \in Version => file[e] <= config) /\ OneWriter(e)
    BY DEF FileOK
  <1>4. (OneWriter(e))'
    BY <1>3 DEF OneWriter
  <1>5. ASSUME NEW c \in Call PROVE JobOK(c, e)'
    <2>1. JobOK(c, e)
      BY DEF FileOK
    <2>2. snap[c][e] <= config => snap'[c][e] <= config'
      BY <1>1, <1>2
    <2>3. /\ at'[c][e] = at[c][e] /\ snap'[c][e] = snap[c][e] /\ handle'[c][e] = handle[c][e]
          /\ saved'[c][e] = saved[c][e] /\ file'[e] = file[e] /\ tmp'[e] = tmp[e]
      OBVIOUS
    <2> QED
      BY ONLY <2>1, <2>2, <2>3 DEF JobOK
  <1>6. file'[e] \notin {Empty, Torn} /\ (file'[e] \in Version => file'[e] <= config')
    <2>1. config' \in Nat /\ config' >= config /\ file'[e] = file[e]
      OBVIOUS
    <2>2. file[e] \in Version => file[e] \in Nat
      BY <1>1
    <2> QED
      BY ONLY <1>1, <1>3, <2>1, <2>2
  <1> QED
    BY <1>4, <1>5, <1>6 DEF FileOK

LEMMA GotoElsewhere ==
    ASSUME TypeInv, NEW c \in Call, NEW d \in Dest, NEW e \in Dest, e # d, NEW l, Goto(c, d, l)
    PROVE  \A b \in Call : at'[b][e] = at[b][e]
  BY DEF Goto, TypeInv

\* A step of a sync leaves alone what belongs to other destinations.
LEMMA OtherDestinations ==
    ASSUME TypeInv, NEW c \in Call, NEW d \in Dest, JobStep(c, d), NEW e \in Dest, e # d
    PROVE  /\ config' = config /\ file'[e] = file[e] /\ tmp'[e] = tmp[e] /\ overlap'[e] = overlap[e]
           /\ \A b \in Call : /\ at'[b][e] = at[b][e] /\ snap'[b][e] = snap[b][e]
                              /\ handle'[b][e] = handle[b][e] /\ saved'[b][e] = saved[b][e]
  <1>1. CASE Acquire(c, d)
    <2>1. \E l : Goto(c, d, l)
      BY <1>1 DEF Acquire
    <2> QED
      BY <1>1, <2>1, GotoElsewhere DEF Acquire, disk
  <1>2. CASE Load(c, d)
    BY <1>2 DEF Load, Report, Goto, TypeInv, disk
  <1>3. CASE Iterated(c, d)
    BY <1>3 DEF Iterated, Goto, TypeInv, disk
  <1>4. CASE Backup(c, d)
    <2>1. \E l : Goto(c, d, l)
      BY <1>4 DEF Backup, Report
    <2>2. saved' = saved \/ \E x : saved' = [saved EXCEPT ![c][d] = x]
      BY <1>4 DEF Backup
    <2>3. \A b \in Call : saved'[b][e] = saved[b][e]
      <3>1. CASE saved' = saved
        BY <3>1
      <3>2. CASE \E x : saved' = [saved EXCEPT ![c][d] = x]
        <4>1. PICK x : saved' = [saved EXCEPT ![c][d] = x]
          BY <3>2
        <4> QED
          BY <4>1 DEF TypeInv
      <3> QED
        BY <2>2, <3>1, <3>2
    <2> QED
      BY <1>4, <2>1, <2>3, GotoElsewhere DEF Backup, disk
  <1>5. CASE Open(c, d)
    BY <1>5 DEF Open, Goto, TypeInv
  <1>6. CASE Write(c, d)
    BY <1>6 DEF Write, Put, Goto, TypeInv
  <1>7. CASE WriteFails(c, d)
    BY <1>7 DEF WriteFails, Put, Report, Goto, TypeInv
  <1>8. CASE Rename(c, d)
    BY <1>8 DEF Rename, Report, Goto, TypeInv
  <1>9. CASE RenameFails(c, d)
    BY <1>9 DEF RenameFails, Report, Goto, TypeInv
  <1> QED
    BY <1>1, <1>2, <1>3, <1>4, <1>5, <1>6, <1>7, <1>8, <1>9 DEF JobStep

\* Who writes, or is about to, does so alone.
LEMMA Alone ==
    ASSUME NEW c \in Call, NEW d \in Dest, FileOK(d), at[c][d] \in Writing
    PROVE  \A b \in Call \ {c} : at[b][d] \notin Writing /\ handle[b][d] = "none"
  BY WritingIs DEF FileOK, OneWriter, JobOK

\* A step of the sync of d by c keeps FileOK(d) if it leaves the other syncs of d where they
\* are, and c and the files in order.
LEMMA AfterJob ==
    ASSUME TypeInv, NEW c \in Call, NEW d \in Dest, FileOK(d), config' = config,
           at'[c][d] \in Writing => at[c][d] \in Writing \/ \A b \in Call \ {c} : at[b][d] \notin Writing,
           \A b \in Call \ {c} :
             /\ at'[b][d] = at[b][d] /\ snap'[b][d] = snap[b][d] /\ saved'[b][d] = saved[b][d]
             /\ handle'[b][d] = handle[b][d],
           JobOK(c, d)',
           (file'[d] = file[d] /\ tmp'[d] = tmp[d]) \/ at[c][d] \in Writing,
           file'[d] \notin {Empty, Torn}, file'[d] \in Version => file'[d] <= config
    PROVE  FileOK(d)'
  <1>1. ASSUME NEW b \in Call \ {c} PROVE JobOK(b, d)'
    <2>1. CASE at[c][d] \in Writing
      <3>1. at'[b][d] \notin Writing /\ handle'[b][d] = "none"
        BY <2>1, Alone
      <3> QED
        BY <3>1, WritingIs DEF JobOK
    <2>2. CASE file'[d] = file[d] /\ tmp'[d] = tmp[d]
      BY <2>2 DEF JobOK, FileOK
    <2> QED
      BY <2>1, <2>2
  <1>2. (OneWriter(d))'
    <2>1. OneWriter(d)
      BY DEF FileOK
    <2>2. at'[c][d] \in Writing => \A b \in Call \ {c} : at'[b][d] \notin Writing
      BY <2>1 DEF OneWriter
    <2> QED
      BY <2>1, <2>2 DEF OneWriter
  <1> QED
    BY <1>1, <1>2 DEF FileOK

\* Where c goes, as functions of what the sync was.
LEMMA GotoHere ==
    ASSUME TypeInv, NEW c \in Call, NEW d \in Dest, NEW l, Goto(c, d, l)
    PROVE  at'[c][d] = l /\ \A b \in Call \ {c} : at'[b][d] = at[b][d]
  BY DEF Goto, TypeInv

LEMMA FilesJob ==
    ASSUME TypeInv, NEW c \in Call, NEW d \in Dest, JobStep(c, d), FileOK(d), ~overlap'[d]
    PROVE  FileOK(d)'
  <1> USE WritingIs
  <1>1. config \in Nat /\ Version \subseteq Nat /\ snap[c][d] \in Version
    BY Constants DEF TypeInv, Version
  <1>2. JobOK(c, d) /\ file[d] \notin {Empty, Torn} /\ (file[d] \in Version => file[d] <= config)
    BY DEF FileOK
  <1>3. CASE Acquire(c, d)
    <2>1. PICK l \in {"left", "load"} : Goto(c, d, l)
      BY <1>3 DEF Acquire
    <2>2. at'[c][d] = l /\ \A b \in Call \ {c} : at'[b][d] = at[b][d]
      BY <2>1, GotoHere
    <2>3. UNCHANGED <<config, snap, saved, handle, file, tmp>> /\ at[c][d] = "queued"
      BY <1>3 DEF Acquire, At, disk
    <2>4. JobOK(c, d)'
      BY <1>2, <2>1, <2>2, <2>3 DEF JobOK
    <2> QED
      BY <1>2, <2>1, <2>2, <2>3, <2>4, AfterJob
  <1>4. CASE Load(c, d)
    <2>1. /\ at[c][d] = "load" /\ UNCHANGED <<config, saved, handle, file, tmp>>
      BY <1>4 DEF Load, At, disk
    <2>2. CASE UNCHANGED <<at, snap>>
      <3>1. config' >= config /\ config' \in Nat
        BY <1>1, <2>1
      <3> QED
        BY <2>1, <2>2, <3>1, Untouched
    <2>3. CASE Report(c, d, "failed") /\ UNCHANGED snap
      <3>1. at'[c][d] = "done" /\ \A b \in Call \ {c} : at'[b][d] = at[b][d]
        BY <2>3, GotoHere DEF Report
      <3>2. JobOK(c, d)'
        BY <1>2, <2>1, <2>3, <3>1 DEF JobOK
      <3> QED
        BY <1>2, <2>1, <2>3, <3>1, <3>2, AfterJob
    <2>4. CASE /\ Goto(c, d, IF kind[c] = "targets" THEN "backup" ELSE "iterate")
               /\ snap' = [snap EXCEPT ![c][d] = config]
               /\ overlap' = [overlap EXCEPT ![d] = @ \/ Others(c, d) # {}]
      <3>1. at'[c][d] \in {"backup", "iterate"} /\ \A b \in Call \ {c} : at'[b][d] = at[b][d]
        BY <2>4, GotoHere
      <3>2. snap'[c][d] = config /\ \A b \in Call \ {c} : snap'[b][d] = snap[b][d]
        BY <2>4 DEF TypeInv
      <3>3. Others(c, d) = {}
        <4>1. overlap'[d] = (overlap[d] \/ Others(c, d) # {})
          BY <2>4 DEF TypeInv
        <4> QED
          BY <4>1
      <3>4. \A b \in Call \ {c} : at[b][d] \notin Writing
        BY <3>3 DEF Others
      <3>5. JobOK(c, d)'
        BY <1>1, <1>2, <2>1, <3>1, <3>2 DEF JobOK
      <3> QED
        BY <1>2, <2>1, <3>1, <3>2, <3>4, <3>5, AfterJob
    <2> QED
      BY <1>4, <2>2, <2>3, <2>4 DEF Load
  <1>5. CASE Iterated(c, d)
    <2>1. at'[c][d] = "backup" /\ \A b \in Call \ {c} : at'[b][d] = at[b][d]
      BY <1>5, GotoHere DEF Iterated
    <2>2. UNCHANGED <<config, snap, saved, handle, file, tmp>> /\ at[c][d] = "iterate"
      BY <1>5 DEF Iterated, At, disk
    <2>3. JobOK(c, d)'
      BY <1>2, <2>1, <2>2 DEF JobOK
    <2> QED
      BY <1>2, <2>1, <2>2, <2>3, AfterJob
  <1>6. CASE Backup(c, d)
    <2>1. UNCHANGED <<config, snap, handle, file, tmp>> /\ at[c][d] = "backup"
      BY <1>6 DEF Backup, At, disk
    <2>2. CASE kind[c] = "dry"
      <3>1. at'[c][d] = "done" /\ (\A b \in Call \ {c} : at'[b][d] = at[b][d]) /\ UNCHANGED saved
        BY <1>6, <2>2, GotoHere DEF Backup, Report
      <3>2. JobOK(c, d)'
        BY <1>2, <2>1, <3>1 DEF JobOK
      <3> QED
        BY <1>2, <2>1, <3>1, <3>2, AfterJob
    <2>3. CASE kind[c] # "dry"
      <3>1. at'[c][d] = "open" /\ \A b \in Call \ {c} : at'[b][d] = at[b][d]
        BY <1>6, <2>3, GotoHere DEF Backup
      <3>2. PICK x \in Kept(d) : saved' = [saved EXCEPT ![c][d] = x]
        BY <1>6, <2>3 DEF Backup
      <3>3. saved'[c][d] \in {Nothing, file[d]} /\ \A b \in Call \ {c} : saved'[b][d] = saved[b][d]
        BY <3>2 DEF Kept, TypeInv
      <3>4. JobOK(c, d)'
        BY <1>2, <2>1, <3>1, <3>3 DEF JobOK
      <3> QED
        BY <1>2, <2>1, <3>1, <3>3, <3>4, AfterJob
    <2> QED
      BY <2>2, <2>3
  <1>7. CASE Open(c, d)
    <2>1. at'[c][d] = "write" /\ \A b \in Call \ {c} : at'[b][d] = at[b][d]
      BY <1>7, GotoHere DEF Open
    <2>2. UNCHANGED <<config, snap, saved, file>> /\ at[c][d] = "open"
      BY <1>7 DEF Open, At
    <2>3. tmp'[d] = Empty /\ handle'[c][d] = "tmp" /\ \A b \in Call \ {c} : handle'[b][d] = handle[b][d]
      BY <1>7 DEF Open, TypeInv
    <2>4. JobOK(c, d)'
      BY <1>2, <2>1, <2>2, <2>3 DEF JobOK
    <2> QED
      BY <1>2, <2>1, <2>2, <2>3, <2>4, AfterJob
  <1>8. CASE Write(c, d)
    <2>1. at'[c][d] = "rename" /\ \A b \in Call \ {c} : at'[b][d] = at[b][d]
      BY <1>8, GotoHere DEF Write
    <2>2. UNCHANGED <<config, snap, saved>> /\ at[c][d] = "write"
      BY <1>8 DEF Write, At
    <2>3. handle[c][d] = "tmp" /\ tmp[d] = Empty
      BY <1>2, <2>2 DEF JobOK
    <2>4. Put(c, d, snap[c][d])
      BY <1>8, <2>3 DEF Write, There
    <2>5. /\ file' = file /\ tmp'[d] = snap[c][d]
          /\ handle'[c][d] = "none" /\ \A b \in Call \ {c} : handle'[b][d] = handle[b][d]
      BY <2>3, <2>4 DEF Put, TypeInv
    <2>6. JobOK(c, d)'
      BY <1>2, <2>1, <2>2, <2>5 DEF JobOK
    <2> QED
      BY <1>2, <2>1, <2>2, <2>5, <2>6, AfterJob
  <1>9. CASE WriteFails(c, d)
    <2>1. at'[c][d] = "done" /\ \A b \in Call \ {c} : at'[b][d] = at[b][d]
      BY <1>9, GotoHere DEF WriteFails, Report
    <2>2. UNCHANGED <<config, snap, saved>> /\ at[c][d] = "write"
      BY <1>9 DEF WriteFails, At
    <2>3. handle[c][d] = "tmp"
      BY <1>2, <2>2 DEF JobOK
    <2>4. /\ file' = file
          /\ handle'[c][d] = "none" /\ \A b \in Call \ {c} : handle'[b][d] = handle[b][d]
      BY <1>9, <2>3 DEF WriteFails, Put, TypeInv
    <2>5. JobOK(c, d)'
      BY <1>2, <2>1, <2>2, <2>4 DEF JobOK
    <2> QED
      BY <1>2, <2>1, <2>2, <2>4, <2>5, AfterJob
  <1>10. CASE Rename(c, d)
    <2>1. at'[c][d] = "done" /\ \A b \in Call \ {c} : at'[b][d] = at[b][d]
      BY <1>10, GotoHere DEF Rename, Report
    <2>2. UNCHANGED <<config, snap, saved>> /\ at[c][d] = "rename"
      BY <1>10 DEF Rename, At
    <2>3. file'[d] = snap[c][d]
      BY <1>2, <1>10, <2>2 DEF Rename, JobOK, TypeInv
    <2>4. \A b \in Call : handle[b][d] = "none"
      BY <1>2, <2>2, Alone DEF JobOK
    <2>5. \A b \in Call : handle'[b][d] = "none"
      BY <1>10, <2>4 DEF Rename, TypeInv
    <2>6. JobOK(c, d)'
      BY <2>1, <2>5 DEF JobOK
    <2>7. file'[d] \notin {Empty, Torn} /\ (file'[d] \in Version => file'[d] <= config)
      BY <1>1, <1>2, <2>2, <2>3, NoMixUps DEF JobOK
    <2> QED
      BY <2>1, <2>2, <2>4, <2>5, <2>6, <2>7, AfterJob
  <1>11. CASE RenameFails(c, d)
    <2>1. at'[c][d] = "done" /\ \A b \in Call \ {c} : at'[b][d] = at[b][d]
      BY <1>11, GotoHere DEF RenameFails, Report
    <2>2. UNCHANGED <<config, snap, saved, file>> /\ at[c][d] = "rename"
      BY <1>11 DEF RenameFails, At
    <2>3. \A b \in Call : handle[b][d] = "none"
      BY <1>2, <2>2, Alone DEF JobOK
    <2>4. \A b \in Call : handle'[b][d] = "none"
      BY <1>11, <2>3 DEF RenameFails, TypeInv
    <2>5. JobOK(c, d)'
      BY <2>1, <2>4 DEF JobOK
    <2> QED
      BY <1>2, <2>1, <2>2, <2>3, <2>4, <2>5, AfterJob
  <1> QED
    BY <1>3, <1>4, <1>5, <1>6, <1>7, <1>8, <1>9, <1>10, <1>11 DEF JobStep

LEMMA FilesRest ==
    ASSUME Jobs, NEW e \in Dest, FileOK(e), ~overlap'[e],
           \/ \E c \in Call : (\E ask \in Asked(c) : Begin(c, ask[1], ask[2])) \/ Return(c) \/ Cancel(c)
           \/ Replace \/ Mutate \/ UNCHANGED vars
    PROVE  FileOK(e)'
  <1> USE DEF Jobs
  <1>1. config \in Nat /\ Version \subseteq Nat
    BY Constants DEF TypeInv, Version
  <1>2. CASE \E c \in Call : \E ask \in Asked(c) : Begin(c, ask[1], ask[2])
    <2>1. PICK c \in Call : \E ask \in Asked(c) : Begin(c, ask[1], ask[2])
      BY <1>2
    <2>2. at[c][e] = "no" /\ UNCHANGED <<config, snap, saved, handle, file, tmp>>
      BY <2>1 DEF Begin, JobInv, disk
    <2>3. /\ \A b \in Call \ {c} : at'[b][e] = at[b][e]
          /\ at'[c][e] \in {"no", "queued", "load"}
      BY <2>1 DEF Begin, TypeInv
    <2>4. JobOK(c, e)'
      BY <2>2, <2>3, WritingIs DEF JobOK, FileOK
    <2> QED
      BY <2>2, <2>3, <2>4, WritingIs, AfterJob DEF FileOK
  <1>3. CASE (\E c \in Call : Return(c) \/ Cancel(c)) \/ Replace \/ UNCHANGED vars
    <2>1. UNCHANGED <<at, snap, saved, handle, file, tmp>> /\ config' \in Nat /\ config' >= config
      BY <1>1, <1>3 DEF Return, Cancel, Replace, vars, disk
    <2> QED
      BY <2>1, Untouched
  <1>4. CASE Mutate
    <2>1. UNCHANGED <<at, saved, handle, file, tmp>> /\ config' = config + 1
      BY <1>4 DEF Mutate, disk
    <2>2. ASSUME NEW c \in Call
          PROVE  snap'[c][e] = snap[c][e] \/ (at[c][e] = "iterate" /\ snap'[c][e] = config + 1)
      <3>1. CASE UNCHANGED snap
        BY <3>1
      <3>2. CASE \E new \in SUBSET Iterating :
                   snap' = [b \in Call |-> [d \in Dest |-> IF <<b, d>> \in new THEN config + 1
                                                           ELSE snap[b][d]]]
        <4>1. PICK new \in SUBSET Iterating :
                   snap' = [b \in Call |-> [d \in Dest |-> IF <<b, d>> \in new THEN config + 1
                                                           ELSE snap[b][d]]]
          BY <3>2
        <4>2. snap'[c][e] = IF <<c, e>> \in new THEN config + 1 ELSE snap[c][e]
          BY ONLY <4>1, c \in Call, e \in Dest
        <4>3. <<c, e>> \in new => at[c][e] = "iterate"
          BY DEF Iterating, Sees
        <4> QED
          BY <4>2, <4>3
      <3> QED
        BY <1>4, <3>1, <3>2 DEF Mutate
    <2>3. ASSUME NEW c \in Call PROVE JobOK(c, e)'
      <3>1. JobOK(c, e) /\ snap[c][e] \in Nat /\ (file[e] \in Version => file[e] <= config)
        BY <1>1 DEF FileOK, TypeInv
      <3>2. CASE snap'[c][e] = snap[c][e]
        BY <1>1, <2>1, <3>1, <3>2, WritingIs DEF JobOK
      <3>3. CASE at[c][e] = "iterate" /\ snap'[c][e] = config + 1
        <4>1. file[e] \in Version => file[e] <= config + 1
          <5>1. file[e] \in Version => file[e] \in Nat
            BY <1>1
          <5> QED
            BY ONLY <1>1, <3>1, <5>1
        <4>2. at'[c][e] = "iterate" /\ handle'[c][e] = "none" /\ snap'[c][e] <= config'
          BY <1>1, <2>1, <3>1, <3>3 DEF JobOK
        <4>3. file'[e] \in Version => file'[e] <= snap'[c][e]
          BY <2>1, <3>3, <4>1
        <4> QED
          BY ONLY <4>2, <4>3 DEF JobOK
      <3> QED
        BY <2>2, <3>2, <3>3
    <2>4. file'[e] \notin {Empty, Torn} /\ (file'[e] \in Version => file'[e] <= config') /\ (OneWriter(e))'
      <3>1. file[e] \in Version => file[e] \in Nat /\ file[e] <= config
        BY <1>1 DEF FileOK
      <3>2. file'[e] \in Version => file'[e] <= config'
        BY <1>1, <2>1, <3>1
      <3> QED
        BY <2>1, <3>2 DEF FileOK, OneWriter
    <2> QED
      BY <2>3, <2>4 DEF FileOK
  <1> QED
    BY <1>2, <1>3, <1>4

\* An overlap that has been is not forgotten.
LEMMA OverlapStays ==
    ASSUME TypeInv, [Next]_vars, NEW e \in Dest, ~overlap'[e]
    PROVE  ~overlap[e]
  <1>1. CASE UNCHANGED overlap
    BY <1>1
  <1>2. CASE \E c \in Call, d \in Dest : Load(c, d)
    <2>1. PICK c \in Call, d \in Dest : Load(c, d)
      BY <1>2
    <2>2. overlap' = overlap \/ overlap' = [overlap EXCEPT ![d] = @ \/ Others(c, d) # {}]
      BY <2>1 DEF Load
    <2>3. CASE overlap' = [overlap EXCEPT ![d] = @ \/ Others(c, d) # {}]
      <3>1. overlap'[d] = (overlap[d] \/ Others(c, d) # {})
        BY <2>3 DEF TypeInv
      <3>2. e # d => overlap'[e] = overlap[e]
        BY <2>3 DEF TypeInv
      <3> QED
        BY <3>1, <3>2
    <2> QED
      BY <2>2, <2>3
  <1>3. CASE \E c \in Call, d \in Dest : JobStep(c, d) /\ ~Load(c, d)
    BY <1>1, <1>3 DEF JobStep, Acquire, Iterated, Backup, Open, Write, WriteFails, Rename, RenameFails
  <1>4. CASE ~ \E c \in Call, d \in Dest : JobStep(c, d)
    BY <1>1, <1>4 DEF Next, Begin, Return, Cancel, Replace, Mutate, vars
  <1> QED
    BY <1>2, <1>3, <1>4

LEMMA FilesStep ==
    ASSUME Jobs, FilesInv, [Next]_vars
    PROVE  FilesInv'
  <1> SUFFICES ASSUME NEW e \in Dest, ~overlap'[e] PROVE FileOK(e)'
    BY DEF FilesInv
  <1>1. TypeInv /\ FileOK(e)
    BY OverlapStays DEF Jobs, FilesInv
  <1>2. CASE \E c \in Call, d \in Dest : JobStep(c, d)
    <2>1. PICK c \in Call, d \in Dest : JobStep(c, d)
      BY <1>2
    <2>2. CASE e = d
      BY <1>1, <2>1, <2>2, FilesJob
    <2>3. CASE e # d
      <3>1. config \in Nat
        BY <1>1, Constants DEF TypeInv, Version
      <3> QED
        BY <1>1, <2>1, <2>3, <3>1, OtherDestinations, Untouched
    <2> QED
      BY <2>2, <2>3
  <1>3. CASE ~ \E c \in Call, d \in Dest : JobStep(c, d)
    BY <1>1, <1>3, FilesRest DEF Next
  <1> QED
    BY <1>2, <1>3

THEOREM FilesInvariant == Spec => [](Jobs /\ FilesInv)
  <1>1. Init => FilesInv
    <2> SUFFICES ASSUME Init, NEW e \in Dest PROVE FileOK(e)
      BY DEF FilesInv
    <2>1. file[e] \notin {Empty, Torn} /\ file[e] \notin Version
      BY NoMixUps, Constants DEF Init, Version
    <2>2. \A c \in Call : at[c][e] = "no" /\ handle[c][e] = "none"
      BY DEF Init
    <2> QED
      BY <2>1, <2>2, WritingIs DEF FileOK, OneWriter, JobOK
  <1>2. Jobs /\ FilesInv /\ [Next]_vars => FilesInv'
    BY FilesStep
  <1> QED
    BY <1>1, <1>2, JobsInvariant, PTL DEF Spec

\* Unless two syncs of a destination were under way at once, its file is whole at every
\* moment, a sync that is about to rename has its own configuration in the temporary file,
\* and its backup is what it overwrites (generic_destinations.go:70, engine_impl.go:275).
THEOREM FilesStayWhole == Spec => []FilesAreWhole
  <1>1. FilesInv => FilesAreWhole
    BY DEF FilesInv, FileOK, JobOK, FilesAreWhole
  <1> QED
    BY <1>1, FilesInvariant, PTL

\* Syncs that do not overlap never take a file back to an older configuration.
THEOREM FilesAreNeverOlder == Spec => NeverOlder
  <1>1. Jobs /\ FilesInv /\ [Next]_vars
          => [\A d \in Dest : ~overlap'[d] /\ file[d] \in Version /\ file'[d] # file[d]
                             => file'[d] > file[d]]_vars
    <2> SUFFICES ASSUME Jobs, FilesInv, [Next]_vars, NEW e \in Dest, ~overlap'[e],
                        file[e] \in Version, file'[e] # file[e]
                 PROVE  file'[e] > file[e]
      OBVIOUS
    <2>1. TypeInv /\ FileOK(e)
      BY OverlapStays DEF Jobs, FilesInv
    <2>2. PICK c \in Call, d \in Dest : JobStep(c, d)
      BY DEF Next, Begin, Return, Cancel, Replace, Mutate, vars, disk
    <2>3. e = d
      BY <2>1, <2>2, OtherDestinations
    <2>4. JobOK(c, e)
      BY <2>1 DEF FileOK
    <2>5. Rename(c, e)
      BY <2>1, <2>2, <2>3, <2>4 DEF JobStep, Acquire, Load, Iterated, Backup, Open, Write, WriteFails,
                                 RenameFails, Put, JobOK, At, TypeInv, disk
    <2>6. file'[e] = snap[c][e] /\ file[e] <= snap[c][e]
      BY <2>1, <2>4, <2>5, WritingIs DEF Rename, At, JobOK, TypeInv
    <2>7. file[e] \in Nat /\ snap[c][e] \in Nat
      BY <2>1, Constants DEF TypeInv, Version
    <2> QED
      BY <2>6, <2>7
  <1> QED
    BY <1>1, FilesInvariant, PTL DEF Spec, NeverOlder
=============================================================================

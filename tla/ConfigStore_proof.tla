------------------------- MODULE ConfigStore_proof -------------------------
(***************************************************************************)
(* Proofs about ConfigStore for any servers, payloads and bounds.  Types   *)
(* hold for any engines; for one engine and whatever paths it is given,    *)
(* with failing saves, writes that stop half-way and deaths at any step,   *)
(* saves are shown to be atomic, and what they promised is kept if the     *)
(* files it was given are written whole.                                   *)
(***************************************************************************)
EXTENDS ConfigStore, TLAPS

LEMMA BoundsAreNat ==
    MaxOps \in Nat /\ MaxFailures \in Nat /\ MaxCrashes \in Nat
  BY ConfigStoreAssumption DEF ConfigStoreAssumption

LEMMA Sentinels ==
    /\ Absent \notin Entry /\ Unknown \notin Entry \union {Absent}
    /\ Empty \notin Config /\ Torn \notin Config
    /\ None \notin Inode \union Place \union Content
  BY ConfigStoreAssumption DEF ConfigStoreAssumption

-----------------------------------------------------------------------------
(* What the operations make of a configuration is a configuration *)

LEMMA EntryFields ==
    ASSUME NEW c \in Config, NEW s \in Server, c[s] # Absent
    PROVE  c[s] \in Entry /\ c[s].cfg \in Payload /\ c[s].enabled \in BOOLEAN
  BY DEF Config, Entry

LEMMA ImportedType ==
    ASSUME NEW e \in Engine, mem[e] \in Config, NEW c \in Config,
           NEW done, NEW replace \in BOOLEAN, NEW overwrite \in BOOLEAN
    PROVE  Imported(e, c, done, replace, overwrite) \in Config
  <1> DEFINE old == IF replace THEN NoServers ELSE mem[e]
  <1>1. \A s \in Server : old[s] \in Entry \union {Absent}
    BY DEF NoServers, Config
  <1>2. \A s \in Server : c[s] # Absent => [cfg |-> c[s].cfg, enabled |-> TRUE] \in Entry
    BY EntryFields DEF Entry
  <1> HIDE DEF old
  <1>3. [s \in Server |->
           IF s \in done /\ c[s] # Absent /\ (old[s] = Absent \/ overwrite)
           THEN [cfg |-> c[s].cfg, enabled |-> TRUE] ELSE old[s]] \in Config
    BY <1>1, <1>2 DEF Config
  <1> QED
    BY <1>3 DEF Imported, old

LEMMA ServerStepType ==
    ASSUME TypeOK, NEW e \in Engine, NEW s \in Server, ServerStep(e, s)
    PROVE  mem' \in [Engine -> Config] /\ BeginSave(e) /\ Operation(e)
  <1>1. mem[e] \in Config
    BY DEF TypeOK
  <1>2. \A x \in Entry \union {Absent} : [mem[e] EXCEPT ![s] = x] \in Config
    BY <1>1 DEF Config
  <1>3. ASSUME NEW x \in Payload, AddServer(e, s, x) \/ UpdateServer(e, s, x)
        PROVE  mem' \in [Engine -> Config] /\ BeginSave(e) /\ Operation(e)
    <2>1. CASE AddServer(e, s, x)
      <3>1. [cfg |-> x, enabled |-> TRUE] \in Entry
        BY DEF Entry
      <3> QED
        BY <2>1, <3>1, <1>2 DEF AddServer, SetServer, SetMem, TypeOK
    <2>2. CASE UpdateServer(e, s, x)
      <3>1. [cfg |-> x, enabled |-> mem[e][s].enabled] \in Entry
        BY <2>2, <1>1, EntryFields DEF UpdateServer, Entry
      <3> QED
        BY <2>2, <3>1, <1>2 DEF UpdateServer, SetServer, SetMem, TypeOK
    <2> QED
      BY <1>3, <2>1, <2>2
  <1>4. ASSUME NEW on \in BOOLEAN, EnableServer(e, s, on)
        PROVE  mem' \in [Engine -> Config] /\ BeginSave(e) /\ Operation(e)
    <2>1. [cfg |-> mem[e][s].cfg, enabled |-> on] \in Entry
      BY <1>4, <1>1, EntryFields DEF EnableServer, Entry
    <2> QED
      BY <1>4, <2>1, <1>2 DEF EnableServer, SetServer, SetMem, TypeOK
  <1>5. CASE RemoveServer(e, s)
    BY <1>5, <1>2 DEF RemoveServer, SetServer, SetMem, TypeOK
  <1> QED
    BY <1>3, <1>4, <1>5 DEF ServerStep

\* An operation that saves: SetConfig, Import and SaveConfig.
Rewrite(e) == \/ \E c \in Config : SetConfig(e, c)
              \/ \E c \in Config : \E replace, overwrite \in BOOLEAN :
                     Import(e, c, replace, overwrite)
              \/ SaveConfig(e)

Refused(e) == \E c \in Config : \E replace, overwrite \in BOOLEAN :
                 ImportRefused(e, c, replace, overwrite)

Load(e) == \/ \E p \in Paths : LoadFile(e, p)
           \/ \E p \in Paths \union {None} : LoadStore(e, p)

LEMMA ConfigStepCases ==
    ASSUME NEW e \in Engine, ConfigStep(e)
    PROVE  Rewrite(e) \/ Refused(e) \/ Load(e)
  BY DEF ConfigStep, Rewrite, Refused, Load

LEMMA RewriteType ==
    ASSUME TypeOK, NEW e \in Engine, Rewrite(e)
    PROVE  mem' \in [Engine -> Config] /\ BeginSave(e) /\ Operation(e)
  <1>1. ASSUME NEW c \in Config, SetConfig(e, c)
        PROVE  mem' \in [Engine -> Config] /\ BeginSave(e) /\ Operation(e)
    BY <1>1 DEF SetConfig, SetMem, TypeOK
  <1>2. ASSUME NEW c \in Config, NEW replace \in BOOLEAN,
               NEW overwrite \in BOOLEAN, Import(e, c, replace, overwrite)
        PROVE  mem' \in [Engine -> Config] /\ BeginSave(e) /\ Operation(e)
    <2>1. Imported(e, c, Server, replace, overwrite) \in Config
      BY ImportedType DEF TypeOK
    <2> QED
      BY <1>2, <2>1 DEF Import, SetMem, TypeOK
  <1>3. CASE SaveConfig(e)
    BY <1>3 DEF SaveConfig, TypeOK
  <1> QED
    BY <1>1, <1>2, <1>3 DEF Rewrite

LEMMA RefusedType ==
    ASSUME TypeOK, NEW e \in Engine, Refused(e)
    PROVE  /\ mem' \in [Engine -> Config] /\ Operation(e)
           /\ UNCHANGED <<pc, path, fd, disk, observed, failures, crashes>>
  <1> PICK c \in Config, replace \in BOOLEAN, overwrite \in BOOLEAN :
          ImportRefused(e, c, replace, overwrite)
    BY DEF Refused
  <1>1. PICK done : SetMem(e, Imported(e, c, done, replace, overwrite))
    BY DEF ImportRefused
  <1>2. Imported(e, c, done, replace, overwrite) \in Config
    BY ImportedType DEF TypeOK
  <1> QED
    BY <1>1, <1>2 DEF ImportRefused, SetMem, TypeOK

LEMMA MergedType ==
    ASSUME NEW e \in Engine, mem[e] \in Config, NEW c \in Config
    PROVE  Merged(e, c) \in Config
  BY DEF Merged, Merge, Config

LEMMA LoadType ==
    ASSUME TypeOK, NEW e \in Engine, Load(e)
    PROVE  /\ mem' \in [Engine -> Config] /\ base' \in [Engine -> Config]
           /\ path' \in [Engine -> Paths \union {None}] /\ Operation(e)
           /\ UNCHANGED <<pc, fd, disk, promised, failures, crashes>>
  <1>1. ASSUME NEW p \in Paths, LoadFile(e, p)
        PROVE  /\ mem' \in [Engine -> Config] /\ base' \in [Engine -> Config]
               /\ path' \in [Engine -> Paths \union {None}] /\ Operation(e)
               /\ UNCHANGED <<pc, fd, disk, promised, failures, crashes>>
    BY <1>1 DEF LoadFile, Loaded, SetMem, Parses, Read, TypeOK
  <1>2. ASSUME NEW p \in Paths \union {None}, LoadStore(e, p)
        PROVE  /\ mem' \in [Engine -> Config] /\ base' \in [Engine -> Config]
               /\ path' \in [Engine -> Paths \union {None}] /\ Operation(e)
               /\ UNCHANGED <<pc, fd, disk, promised, failures, crashes>>
    <2>1. Parses("store") => Merged(e, Read("store")) \in Config
      BY MergedType DEF Parses, Read, TypeOK
    <2> QED
      BY <1>2, <2>1 DEF LoadStore, SetMem, Parses, Read, TypeOK
  <1> QED
    BY <1>1, <1>2 DEF Load

-----------------------------------------------------------------------------
(* Types, for any engines *)

\* Only an engine that was given a path saves to it.
PathKnown == \A e \in Engine : pc[e] = "open" => path[e] # None

LEMMA TypeInit == Init => TypeOK /\ PathKnown
  BY BoundsAreNat
  DEF Init, TypeOK, PathKnown, NoServers, Config, Content, Name, Place

LEMMA OperationType ==
    ASSUME TypeOK, NEW e \in Engine, Operation(e) PROVE ops' \in 0..MaxOps
  BY BoundsAreNat DEF TypeOK, Operation

LEMMA SucceedType ==
    ASSUME TypeOK, NEW e \in Engine, Succeed(e)
    PROVE  /\ pc' \in [Engine -> {"down", "idle"} \union SavePC]
           /\ base' \in [Engine -> Config]
           /\ promised' \in [Place -> [Server -> Entry \union {Absent, Unknown}]]
  <1>1. pc' \in [Engine -> {"down", "idle"} \union SavePC]
    BY DEF Succeed, Goto, TypeOK
  <1>2. base' \in [Engine -> Config]
    BY DEF Succeed, TypeOK
  <1>3. ASSUME NEW p \in Place
        PROVE  [s \in Server |-> IF mem[e][s] # base[e][s] THEN mem[e][s]
                                                         ELSE promised[p][s]]
                  \in [Server -> Entry \union {Absent, Unknown}]
    BY DEF TypeOK, Config
  <1>4. promised' \in [Place -> [Server -> Entry \union {Absent, Unknown}]]
    BY <1>3 DEF Succeed, TypeOK
  <1> QED
    BY <1>1, <1>2, <1>4

LEMMA TruncateType ==
    ASSUME TypeOK, NEW e \in Engine, NEW n \in Name, Truncate(e, n)
    PROVE  /\ fd' \in [Engine -> Inode \union {None}]
           /\ name' \in [Name -> Inode \union {None}]
           /\ data' \in [Inode -> Content]
  <1> DEFINE i == IF Exists(n) THEN name[n] ELSE CHOOSE j \in Free : TRUE
  <1>1. i \in Inode
    BY DEF Truncate, Exists, Free, TypeOK
  <1>2. /\ name' = [name EXCEPT ![n] = i] /\ data' = [data EXCEPT ![i] = Empty]
        /\ fd' = [fd EXCEPT ![e] = i]
    BY DEF Truncate
  <1> HIDE DEF i
  <1> QED
    BY <1>1, <1>2 DEF TypeOK, Content

LEMMA PutType ==
    ASSUME TypeOK, NEW e \in Engine, Put(e) \/ PutHalf(e)
    PROVE  fd' \in [Engine -> Inode \union {None}] /\ data' \in [Inode -> Content]
  BY DEF Put, PutHalf, TypeOK, Content

LEMMA FailType == TypeOK /\ Fail => failures' \in 0..MaxFailures
  BY BoundsAreNat DEF TypeOK, Fail

LEMMA SaveStepType ==
    ASSUME TypeOK, PathKnown, NEW e \in Engine, SaveStep(e) PROVE TypeOK'
  <1> USE DEF engines, disk, observed, counters, SavePC
  <1>1. CASE SaveOpen(e)
    <2>1. Written(e) \in Name
      BY <1>1, ConfigStoreAssumption
      DEF SaveOpen, PathKnown, Name, ConfigStoreAssumption, Written, TypeOK
    <2> QED
      BY <1>1, <2>1, TruncateType DEF SaveOpen, Goto, TypeOK
  <1>2. CASE SaveWrite(e)
    BY <1>2, SucceedType, PutType DEF SaveWrite, TypeOK
  <1>3. CASE TmpOpen(e)
    BY <1>3, TruncateType DEF TmpOpen, Goto, TypeOK, Name, Written
  <1>4. CASE TmpWrite(e)
    BY <1>4, PutType DEF TmpWrite, Goto, TypeOK
  <1>5. CASE Rename(e)
    <2>1. name' \in [Name -> Inode \union {None}]
      BY <1>5 DEF Rename, TypeOK, Name
    <2> QED
      BY <1>5, <2>1, SucceedType DEF Rename, TypeOK
  <1>6. CASE OpenFails(e)
    BY <1>6, FailType DEF OpenFails, Goto, TypeOK
  <1>7. CASE WriteFails(e)
    BY <1>7, FailType, PutType DEF WriteFails, Goto, TypeOK
  <1>8. CASE RenameFails(e)
    BY <1>8, FailType DEF RenameFails, Goto, TypeOK
  <1>9. CASE Cleanup(e)
    BY <1>9 DEF Cleanup, Goto, TypeOK
  <1> QED
    BY <1>1, <1>2, <1>3, <1>4, <1>5, <1>6, <1>7, <1>8, <1>9 DEF SaveStep

LEMMA BeginSaveType ==
    ASSUME TypeOK, NEW e \in Engine, BeginSave(e), Operation(e),
           mem' \in [Engine -> Config]
    PROVE  TypeOK'
  BY OperationType DEF BeginSave, Goto, TypeOK, SavePC, disk, observed

LEMMA TypeStep == TypeOK /\ PathKnown /\ [Next]_vars => TypeOK'
  <1> SUFFICES ASSUME TypeOK, PathKnown, [Next]_vars PROVE TypeOK'
    OBVIOUS
  <1> USE DEF engines, disk, observed, counters
  <1>1. ASSUME NEW e \in Engine, SaveStep(e) PROVE TypeOK'
    BY <1>1, SaveStepType
  <1>2. ASSUME NEW e \in Engine, NEW s \in Server, ServerStep(e, s) PROVE TypeOK'
    BY <1>2, ServerStepType, BeginSaveType
  <1>3. ASSUME NEW e \in Engine, Rewrite(e) PROVE TypeOK'
    BY <1>3, RewriteType, BeginSaveType
  <1>4. ASSUME NEW e \in Engine, Refused(e) PROVE TypeOK'
    BY <1>4, RefusedType, OperationType DEF TypeOK
  <1>5. ASSUME NEW e \in Engine, Load(e) PROVE TypeOK'
    BY <1>5, LoadType, OperationType DEF TypeOK
  <1>6. ASSUME NEW e \in Engine, NewEngine(e) PROVE TypeOK'
    <2>1. NoServers \in Config
      BY DEF NoServers, Config
    <2>2. (IF Parses("store") THEN Read("store") ELSE NoServers) \in Config
      BY <2>1 DEF Parses, Read
    <2> QED
      BY <1>6, <2>2 DEF NewEngine, Loaded, SetMem, Goto, TypeOK
  <1>7. ASSUME NEW e \in Engine, Crash(e) PROVE TypeOK'
    <2>1. NoServers \in Config
      BY DEF NoServers, Config
    <2>2. crashes' \in 0..MaxCrashes
      BY <1>7, BoundsAreNat DEF Crash, TypeOK
    <2> QED
      BY <1>7, <2>1, <2>2 DEF Crash, Goto, TypeOK
  <1>8. CASE UNCHANGED vars
    BY <1>8 DEF vars, TypeOK
  <1> QED
    BY <1>1, <1>2, <1>3, <1>4, <1>5, <1>6, <1>7, <1>8, ConfigStepCases DEF Next

LEMMA PathStep == TypeOK /\ PathKnown /\ [Next]_vars => PathKnown'
  <1> SUFFICES ASSUME TypeOK, PathKnown, [Next]_vars PROVE PathKnown'
    OBVIOUS
  <1> USE DEF PathKnown, TypeOK, Goto, engines, disk, observed, counters
  <1>1. ASSUME NEW e \in Engine, SaveStep(e) PROVE PathKnown'
    BY <1>1 DEF SaveStep, SaveOpen, SaveWrite, TmpOpen, TmpWrite, Rename,
        OpenFails, WriteFails, RenameFails, Cleanup, Succeed
  <1>2. ASSUME NEW e \in Engine, BeginSave(e) PROVE PathKnown'
    BY <1>2 DEF BeginSave
  <1>3. ASSUME NEW e \in Engine, Refused(e) PROVE PathKnown'
    BY <1>3, RefusedType
  <1>4. ASSUME NEW e \in Engine, Load(e) PROVE PathKnown'
    BY <1>4 DEF Load, LoadFile, LoadStore, Operation
  <1>5. ASSUME NEW e \in Engine, NewEngine(e) PROVE PathKnown'
    BY <1>5 DEF NewEngine
  <1>6. ASSUME NEW e \in Engine, Crash(e) PROVE PathKnown'
    BY <1>6 DEF Crash
  <1>7. CASE UNCHANGED vars
    BY <1>7 DEF vars
  <1> QED
    BY <1>1, <1>2, <1>3, <1>4, <1>5, <1>6, <1>7, ConfigStepCases,
      ServerStepType, RewriteType DEF Next

\* Every variable keeps its type, for any number of engines and whatever paths
\* they are given.
THEOREM TypeCorrect == Spec => []TypeOK
  BY TypeInit, TypeStep, PathStep, PTL DEF Spec

-----------------------------------------------------------------------------
(* The refinement, for one engine and whatever paths it is given *)

OneEngine == \A e, f \in Engine : e = f

\* An engine in a save has its file open under its name, and nobody else does.
WriteInv ==
    \A e \in Engine :
       /\ pc[e] \in {"tmpOpen", "tmpWrite", "rename", "cleanup"} => path[e] = None
       /\ pc[e] \in {"open", "write"} => path[e] # None
       /\ pc[e] = "tmpWrite" => name["tmp"] # None /\ fd[e] = name["tmp"]
       /\ pc[e] = "write" => name[path[e]] # None /\ fd[e] = name[path[e]]
       /\ pc[e] \in {"tmpWrite", "write"} => data[fd[e]] = Empty
       /\ pc[e] = "rename" => Exists("tmp") /\ Read("tmp") = mem[e]

Apart == \A m, n \in Name : m # n /\ name[m] = name[n] => name[m] = None

OneInv == WriteInv /\ Apart

LEMMA OneInit == Init => OneInv
  BY DEF Init, OneInv, WriteInv, Apart

\* What the steps of a save need of the types.
LEMMA OneTypes ==
    ASSUME TypeOK, NEW e \in Engine
    PROVE  /\ pc \in [Engine -> {"down", "idle"} \union SavePC]
           /\ mem \in [Engine -> Config] /\ path \in [Engine -> Place \union {None}]
           /\ fd \in [Engine -> Inode \union {None}]
           /\ name \in [Name -> Inode \union {None}] /\ data \in [Inode -> Content]
           /\ Place \subseteq Name /\ "tmp" \in Name /\ "tmp" \notin Place
           /\ "store" \in Place /\ None \notin Inode \union Place
  BY ConfigStoreAssumption DEF TypeOK, Name, Place, ConfigStoreAssumption

\* os.WriteFile's open empties an inode that has this name and no other.
LEMMA OneTruncate ==
    ASSUME TypeOK, Apart, NEW e \in Engine, NEW n \in Name, Truncate(e, n)
    PROVE  \E i \in Inode :
              /\ name' = [name EXCEPT ![n] = i] /\ data' = [data EXCEPT ![i] = Empty]
              /\ fd' = [fd EXCEPT ![e] = i]
              /\ \A m \in Name \ {n} : name[m] # i
  <1> DEFINE i == IF Exists(n) THEN name[n] ELSE CHOOSE j \in Free : TRUE
  <1>1. /\ name' = [name EXCEPT ![n] = i] /\ data' = [data EXCEPT ![i] = Empty]
        /\ fd' = [fd EXCEPT ![e] = i]
    BY DEF Truncate
  <1>2. i \in Inode
    BY OneTypes DEF Truncate, Exists, Free
  <1>3. \A m \in Name \ {n} : name[m] # i
    <2>1. CASE Exists(n)
      BY <2>1 DEF Exists, Apart
    <2>2. CASE ~Exists(n)
      <3>1. i \in Free
        BY <2>2 DEF Truncate
      <3> QED
        BY <3>1 DEF Free, InUse
    <2> QED
      BY <2>1, <2>2
  <1> HIDE DEF i
  <1> QED
    BY <1>1, <1>2, <1>3

\* A step that leaves what the places hold.
LEMMA PlacesKept ==
    ASSUME \A p \in Place : /\ name'[p] = name[p]
                            /\ name[p] # None => data'[name[p]] = data[name[p]]
    PROVE  Stores' = Stores
  BY DEF Stores, StoredAt, Exists, Parses, Read

\* What a place holds is what is read there.
LEMMA PlaceRead ==
    ASSUME TypeOK, NEW p \in Place
    PROVE  /\ Stores[p] = None <=> ~Exists(p)
           /\ Stores[p] \in Config <=> Parses(p)
           /\ Parses(p) => Stores[p] = Read(p)
           /\ Stores[p] \in Config \union {None, Torn}
  BY Sentinels, OneTypes DEF Stores, StoredAt, Exists, Parses, Read, Content

LEMMA UpKept ==
    ASSUME TypeOK, NEW e \in Engine, NEW l, l # "down", pc[e] # "down", Goto(e, l)
    PROVE  Up' = Up /\ Up[e]
  BY OneTypes DEF Up, Goto

Abstract == [Atomic!Next]_(Atomic!vars)

LEMMA AbstractStutter ==
    ASSUME UNCHANGED <<Up, mem, path, Stores>> PROVE Abstract
  BY DEF Abstract, Atomic!vars

\* A save through the storage is one step, a save to a path may be seen half-way.
LEMMA AbstractSave ==
    ASSUME NEW e \in Engine, Up[e], UNCHANGED <<Up, mem, path>>, path[e] = None,
           Stores' = [Stores EXCEPT !["store"] = mem[e]]
    PROVE  Abstract
  <1>1. Atomic!Put(e, "store", mem[e])
    BY DEF Atomic!Put
  <1>2. Atomic!Save(e)
    BY <1>1 DEF Atomic!Save
  <1> QED
    BY <1>2 DEF Abstract, Atomic!Next

LEMMA AbstractRewrite ==
    ASSUME NEW e \in Engine, Up[e], UNCHANGED <<Up, mem, path>>, path[e] # None,
           NEW c \in {mem[e], Torn}, Stores' = [Stores EXCEPT ![path[e]] = c]
    PROVE  Abstract
  <1>1. Atomic!Put(e, path[e], c)
    BY DEF Atomic!Put
  <1>2. Atomic!Rewrite(e)
    BY <1>1 DEF Atomic!Rewrite
  <1> QED
    BY <1>2 DEF Abstract, Atomic!Next

LEMMA AbstractChange ==
    ASSUME NEW e \in Engine, Up[e], UNCHANGED <<Up, path, Stores>>,
           NEW c \in Config, mem' = [mem EXCEPT ![e] = c]
    PROVE  Abstract
  <1>1. Atomic!Change(e)
    BY DEF Atomic!Change
  <1> QED
    BY <1>1 DEF Abstract, Atomic!Next

\* What a place holds after a step that writes one inode and renames none to it.
LEMMA PlaceWritten ==
    ASSUME TypeOK, Apart, NEW p \in Place, NEW i \in Inode, NEW c \in Content,
           data' = [data EXCEPT ![i] = c], name' = [name EXCEPT ![p] = i],
           \A m \in Name \ {p} : name[m] # i
    PROVE  Stores' = [Stores EXCEPT ![p] = IF c \in Config THEN c ELSE Torn]
  <1>1. StoredAt(p)' = IF c \in Config THEN c ELSE Torn
    <2>1. name'[p] = i /\ data'[i] = c
      BY DEF TypeOK, Name
    <2>2. i # None
      BY Sentinels
    <2> QED
      BY <2>1, <2>2 DEF StoredAt, Exists, Parses, Read
  <1>2. \A q \in Place \ {p} : StoredAt(q)' = StoredAt(q)
    BY Sentinels DEF StoredAt, Exists, Parses, Read, TypeOK, Name
  <1> QED
    BY <1>1, <1>2 DEF Stores

\* What a step of a save is for the places: a file written in place is opened, a save is
\* complete, or nothing; or a write in place is cut short.
Opened(e) ==
    /\ pc[e] = "open" /\ Goto(e, "write") /\ Stores' = [Stores EXCEPT ![path[e]] = Torn]
    /\ UNCHANGED <<mem, path, base, promised>>

Saved(e) ==
    /\ pc[e] \in {"write", "rename"} /\ Succeed(e)
    /\ Stores' = [Stores EXCEPT ![Target(e)] = mem[e]]
    /\ UNCHANGED <<mem, path>>

Silent(e) ==
    /\ pc[e] \notin {"down", "write"} /\ pc'[e] # "write"
    /\ UNCHANGED <<mem, path, base, promised, Stores>>

CutShort(e) == pc[e] = "write" /\ path[e] \in HalfWrites

SaveEffect(e) == Opened(e) \/ Saved(e) \/ Silent(e) \/ CutShort(e)

LEMMA OneSaveStep ==
    ASSUME OneEngine, TypeOK, OneInv, NEW e \in Engine, SaveStep(e)
    PROVE  OneInv' /\ Abstract /\ SaveEffect(e)
  <1> USE Sentinels
  <1>0. /\ pc \in [Engine -> {"down", "idle"} \union SavePC]
        /\ mem \in [Engine -> Config] /\ path \in [Engine -> Place \union {None}]
        /\ fd \in [Engine -> Inode \union {None}]
        /\ name \in [Name -> Inode \union {None}] /\ data \in [Inode -> Content]
        /\ Place \subseteq Name /\ "tmp" \in Name /\ "tmp" \notin Place
        /\ "store" \in Place /\ None \notin Inode \union Place
        /\ mem[e] \in Config /\ mem[e] \in Content /\ Empty \in Content /\ Torn \in Content
        /\ WriteInv /\ Apart
    BY OneTypes DEF OneInv, Content
  <1>1. CASE SaveOpen(e)
    <2>1. pc[e] = "open" /\ path[e] \in Place /\ path[e] \in Name /\ Truncate(e, path[e])
      BY <1>0, <1>1 DEF SaveOpen, Written, WriteInv
    <2>2. PICK i \in Inode : /\ name' = [name EXCEPT ![path[e]] = i]
                             /\ data' = [data EXCEPT ![i] = Empty]
                             /\ fd' = [fd EXCEPT ![e] = i]
                             /\ \A m \in Name \ {path[e]} : name[m] # i
      BY <1>0, <2>1, OneTruncate
    <2>3. Goto(e, "write") /\ mem' = mem /\ path' = path
      BY <1>1 DEF SaveOpen
    <2>4. WriteInv'
      BY <1>0, <2>1, <2>2, <2>3 DEF WriteInv, Goto, OneEngine
    <2>5. Apart'
      BY <1>0, <2>1, <2>2 DEF Apart
    <2>6. Stores' = [Stores EXCEPT ![path[e]] = Torn]
      BY <1>0, <2>1, <2>2, PlaceWritten
    <2>7. Up' = Up /\ Up[e]
      BY <2>1, <2>3, UpKept
    <2>8. Opened(e)
      BY <1>1, <2>1, <2>6 DEF SaveOpen, Opened, observed
    <2> QED
      BY <1>0, <2>1, <2>3, <2>4, <2>5, <2>6, <2>7, <2>8, AbstractRewrite DEF OneInv, SaveEffect
  <1>2. CASE SaveWrite(e) \/ (WriteFails(e) /\ pc[e] = "write")
    <2>1. /\ pc[e] = "write" /\ path[e] \in Place /\ path[e] \in Name
          /\ fd[e] = name[path[e]] /\ fd[e] \in Inode /\ data[fd[e]] = Empty
      BY <1>0, <1>2 DEF SaveWrite, WriteInv
    <2>2. PICK c \in {mem[e], Torn} : data' = [data EXCEPT ![fd[e]] = c]
      BY <1>2, <2>1 DEF SaveWrite, WriteFails, Put, PutHalf
    <2>3. /\ Goto(e, "idle") /\ mem' = mem /\ path' = path /\ name' = name
          /\ fd' = [fd EXCEPT ![e] = None]
      BY <1>2 DEF SaveWrite, Succeed, WriteFails, Put, PutHalf
    <2>4. WriteInv'
      BY <1>0, <2>1, <2>3 DEF WriteInv, Goto, OneEngine
    <2>5. Apart'
      BY <1>0, <2>3 DEF Apart
    <2>6. \A m \in Name \ {path[e]} : name[m] # fd[e]
      BY <1>0, <2>1 DEF Apart
    <2>7. name' = [name EXCEPT ![path[e]] = fd[e]]
      BY <1>0, <2>1, <2>3
    <2>8. Stores' = [Stores EXCEPT ![path[e]] = c]
      <3>1. c \in Content /\ (IF c \in Config THEN c ELSE Torn) = c
        BY <1>0
      <3> QED
        BY <1>0, <2>1, <2>2, <2>6, <2>7, <3>1, PlaceWritten
    <2>9. Up' = Up /\ Up[e]
      BY <2>1, <2>3, UpKept
    <2>10. Saved(e) \/ CutShort(e)
      <3>1. CASE SaveWrite(e)
        <4>1. data' = [data EXCEPT ![fd[e]] = mem[e]]
          BY <2>1, <3>1 DEF SaveWrite, Put
        <4>2. c = mem[e]
          BY <1>0, <2>1, <2>2, <4>1
        <4>3. Target(e) = path[e]
          BY <1>0, <2>1 DEF Target
        <4> QED
          BY <2>1, <2>8, <3>1, <4>2, <4>3 DEF SaveWrite, Saved
      <3>2. CASE WriteFails(e)
        BY <2>1, <3>2 DEF WriteFails, PutHalf, Written, CutShort
      <3> QED
        BY <1>2, <3>1, <3>2
    <2> QED
      BY <1>0, <2>1, <2>3, <2>4, <2>5, <2>8, <2>9, <2>10, AbstractRewrite DEF OneInv, SaveEffect
  <1>3. CASE TmpOpen(e)
    <2>1. pc[e] = "tmpOpen" /\ path[e] = None /\ Truncate(e, "tmp")
      BY <1>0, <1>3 DEF TmpOpen, Written, WriteInv
    <2>2. PICK i \in Inode : /\ name' = [name EXCEPT !["tmp"] = i]
                             /\ data' = [data EXCEPT ![i] = Empty]
                             /\ fd' = [fd EXCEPT ![e] = i]
                             /\ \A m \in Name \ {"tmp"} : name[m] # i
      BY <1>0, <2>1, OneTruncate
    <2>3. Goto(e, "tmpWrite") /\ mem' = mem /\ path' = path
      BY <1>3 DEF TmpOpen
    <2>4. WriteInv'
      BY <1>0, <2>1, <2>2, <2>3 DEF WriteInv, Goto, OneEngine
    <2>5. Apart'
      BY <1>0, <2>2 DEF Apart
    <2>6. Stores' = Stores
      BY <1>0, <2>2, PlacesKept
    <2>7. Up' = Up /\ Up[e]
      BY <2>1, <2>3, UpKept
    <2>8. Silent(e)
      BY <1>0, <1>3, <2>1, <2>6 DEF TmpOpen, Silent, Goto, observed
    <2> QED
      BY <1>0, <2>3, <2>4, <2>5, <2>6, <2>7, <2>8, AbstractStutter DEF OneInv, SaveEffect
  <1>4. CASE TmpWrite(e) \/ (WriteFails(e) /\ pc[e] = "tmpWrite")
    <2>1. /\ pc[e] = "tmpWrite" /\ path[e] = None
          /\ fd[e] = name["tmp"] /\ fd[e] \in Inode /\ data[fd[e]] = Empty
      BY <1>0, <1>4 DEF TmpWrite, WriteInv
    <2>2. PICK c \in {mem[e], Torn}, l \in {"rename", "idle"} :
              /\ data' = [data EXCEPT ![fd[e]] = c] /\ Goto(e, l)
              /\ l = "rename" => c = mem[e]
      BY <1>4, <2>1 DEF TmpWrite, WriteFails, Put, PutHalf
    <2>3. mem' = mem /\ path' = path /\ name' = name /\ fd' = [fd EXCEPT ![e] = None]
      BY <1>4 DEF TmpWrite, WriteFails, Put, PutHalf
    <2>4. WriteInv'
      BY <1>0, <2>1, <2>2, <2>3 DEF WriteInv, Goto, OneEngine, Exists, Read
    <2>5. Apart'
      BY <1>0, <2>3 DEF Apart
    <2>6. \A p \in Place : name[p] # fd[e]
      BY <1>0, <2>1 DEF Apart
    <2>7. Stores' = Stores
      BY <1>0, <2>1, <2>2, <2>3, <2>6, PlacesKept
    <2>8. Up' = Up /\ Up[e]
      BY <2>1, <2>2, UpKept
    <2>9. Silent(e)
      BY <1>0, <1>4, <2>1, <2>2, <2>7 DEF TmpWrite, WriteFails, Silent, Goto, observed
    <2> QED
      BY <1>0, <2>3, <2>4, <2>5, <2>7, <2>8, <2>9, AbstractStutter DEF OneInv, SaveEffect
  <1>5. CASE Rename(e)
    <2>1. pc[e] = "rename" /\ path[e] = None /\ name["tmp"] # None /\ data[name["tmp"]] = mem[e]
      BY <1>0, <1>5 DEF Rename, WriteInv, Exists, Read
    <2>2. /\ name' = [name EXCEPT !["store"] = name["tmp"], !["tmp"] = None]
          /\ Goto(e, "idle") /\ mem' = mem /\ path' = path /\ fd' = fd /\ data' = data
      BY <1>5 DEF Rename, Succeed
    <2>3. WriteInv'
      BY <1>0, <2>1, <2>2 DEF WriteInv, Goto, OneEngine
    <2>4. Apart'
      BY <1>0, <2>1, <2>2 DEF Apart
    <2>5. StoredAt("store")' = mem[e]
      BY <1>0, <2>1, <2>2 DEF StoredAt, Exists, Parses, Read
    <2>6. \A p \in Place \ {"store"} : StoredAt(p)' = StoredAt(p)
      BY <1>0, <2>2 DEF StoredAt, Exists, Parses, Read
    <2>7. Stores' = [Stores EXCEPT !["store"] = mem[e]]
      BY <1>0, <2>5, <2>6 DEF Stores
    <2>8. Up' = Up /\ Up[e]
      BY <2>1, <2>2, UpKept
    <2>9. Saved(e)
      BY <1>5, <2>1, <2>2, <2>7 DEF Rename, Saved, Target
    <2> QED
      BY <1>0, <2>1, <2>2, <2>3, <2>4, <2>7, <2>8, <2>9, AbstractSave DEF OneInv, SaveEffect
  <1>6. CASE OpenFails(e) \/ RenameFails(e) \/ Cleanup(e)
    <2>1. PICK l \in {"idle", "cleanup"} :
              Goto(e, l) /\ (l = "cleanup" => path[e] = None) /\ pc[e] # "down"
      BY <1>0, <1>6 DEF OpenFails, RenameFails, Cleanup, WriteInv
    <2>2. /\ mem' = mem /\ path' = path /\ fd' = fd /\ data' = data
          /\ name' = name \/ name' = [name EXCEPT !["tmp"] = None]
      BY <1>6 DEF OpenFails, RenameFails, Cleanup, disk
    <2>3. WriteInv'
      BY <1>0, <2>1, <2>2 DEF WriteInv, Goto, OneEngine
    <2>4. Apart'
      BY <1>0, <2>2 DEF Apart
    <2>5. Stores' = Stores
      BY <1>0, <2>2, PlacesKept
    <2>6. Up' = Up /\ Up[e]
      BY <2>1, UpKept
    <2>7. Silent(e)
      BY <1>0, <1>6, <2>1, <2>5
      DEF OpenFails, RenameFails, Cleanup, Silent, Goto, observed
    <2> QED
      BY <1>0, <2>2, <2>3, <2>4, <2>5, <2>6, <2>7, AbstractStutter DEF OneInv, SaveEffect
  <1> QED
    BY <1>1, <1>2, <1>3, <1>4, <1>5, <1>6 DEF SaveStep, WriteFails

LEMMA OneOperationStep ==
    ASSUME OneEngine, TypeOK, OneInv, NEW e \in Engine, Operation(e), BeginSave(e),
           NEW c \in Config, mem' = [mem EXCEPT ![e] = c]
    PROVE  OneInv' /\ Abstract
  <1>1. /\ pc[e] = "idle" /\ path' = path /\ fd' = fd /\ name' = name /\ data' = data
        /\ Goto(e, IF path[e] = None THEN "tmpOpen" ELSE "open")
    BY DEF Operation, BeginSave, disk
  <1>2. WriteInv'
    BY <1>1, OneTypes DEF WriteInv, OneInv, Goto, OneEngine
  <1>3. Apart'
    BY <1>1 DEF Apart, OneInv
  <1>4. Stores' = Stores
    BY <1>1, PlacesKept
  <1>5. Up' = Up /\ Up[e]
    BY <1>1, UpKept
  <1> QED
    BY <1>1, <1>2, <1>3, <1>4, <1>5, AbstractChange DEF OneInv

\* A step that neither saves nor writes leaves what saves rely on.
LEMMA OneQuiet ==
    ASSUME OneEngine, TypeOK, OneInv, NEW e \in Engine, pc'[e] \in {"idle", "down"},
           name' = name, data' = data
    PROVE  OneInv' /\ Stores' = Stores
  <1>1. WriteInv'
    BY DEF WriteInv, OneInv, OneEngine
  <1>2. Apart'
    BY DEF Apart, OneInv
  <1> QED
    BY <1>1, <1>2, PlacesKept DEF OneInv

LEMMA OneLoadStep ==
    ASSUME OneEngine, TypeOK, OneInv, NEW e \in Engine, Load(e)
    PROVE  OneInv' /\ Abstract
  <1>1. /\ pc[e] = "idle" /\ pc' = pc /\ name' = name /\ data' = data
    BY DEF Load, LoadFile, LoadStore, Operation, disk
  <1>2. OneInv' /\ Stores' = Stores
    BY <1>1, OneQuiet
  <1>3. Up' = Up /\ Up[e]
    BY <1>1 DEF Up
  <1>4. ASSUME NEW p \in Paths, LoadFile(e, p) PROVE Abstract
    <2>1. p \in Place
      BY ConfigStoreAssumption DEF ConfigStoreAssumption
    <2>2. /\ Stores[p] # None
          /\ Stores[p] \in Config <=> Parses(p)
          /\ Parses(p) => Stores[p] = Read(p)
      BY <1>4, <2>1, PlaceRead DEF LoadFile
    <2>3. Atomic!LoadPlace(e, p)
      BY <1>2, <1>3, <1>4, <2>2 DEF LoadFile, Loaded, SetMem, Atomic!LoadPlace
    <2> QED
      BY <2>1, <2>3 DEF Abstract, Atomic!Next
  <1>5. ASSUME NEW p \in Paths \union {None}, LoadStore(e, p) PROVE Abstract
    <2>1. p \in Place \union {None} /\ (p # None => Stores[p] = None)
      BY <1>5, ConfigStoreAssumption DEF ConfigStoreAssumption, LoadStore, Stores, StoredAt
    <2>2. /\ Stores["store"] \in Config <=> Parses("store")
          /\ Parses("store") => Stores["store"] = Read("store")
      BY OneTypes, PlaceRead
    <2>3. mem' = IF Stores["store"] \in Config
                 THEN [mem EXCEPT ![e] = Merge(mem[e], Stores["store"])] ELSE mem
      BY <1>5, <2>2 DEF LoadStore, SetMem, Merged
    <2>4. Atomic!LoadDefault(e, p)
      BY <1>2, <1>3, <1>5, <2>1, <2>3 DEF LoadStore, Atomic!LoadDefault
    <2> QED
      BY <2>1, <2>4 DEF Abstract, Atomic!Next
  <1> QED
    BY <1>2, <1>4, <1>5 DEF Load

LEMMA OneNewStep ==
    ASSUME OneEngine, TypeOK, OneInv, NEW e \in Engine, NewEngine(e)
    PROVE  OneInv' /\ Abstract
  <1>1. pc[e] = "down" /\ pc' = [pc EXCEPT ![e] = "idle"] /\ name' = name /\ data' = data
    BY DEF NewEngine, Goto, disk
  <1>2. OneInv' /\ Stores' = Stores
    BY <1>1, OneTypes, OneQuiet
  <1>3. ~Up[e] /\ Up' = [Up EXCEPT ![e] = TRUE]
    BY <1>1, OneTypes DEF Up
  <1>4. /\ Stores["store"] \in Config <=> Parses("store")
        /\ Parses("store") => Stores["store"] = Read("store")
    BY OneTypes, PlaceRead
  <1>5. Atomic!Start(e)
    BY <1>2, <1>3, <1>4 DEF NewEngine, Loaded, SetMem, Atomic!Start
  <1> QED
    BY <1>2, <1>5 DEF Abstract, Atomic!Next

LEMMA OneCrashStep ==
    ASSUME OneEngine, TypeOK, OneInv, NEW e \in Engine, Crash(e)
    PROVE  OneInv' /\ Abstract
  <1>1. pc[e] # "down" /\ pc' = [pc EXCEPT ![e] = "down"] /\ name' = name /\ data' = data
    BY DEF Crash, Goto, disk
  <1>2. OneInv' /\ Stores' = Stores
    BY <1>1, OneTypes, OneQuiet
  <1>3. Up[e] /\ Up' = [Up EXCEPT ![e] = FALSE]
    BY <1>1, OneTypes DEF Up
  <1>4. Atomic!Die(e)
    BY <1>2, <1>3 DEF Crash, Atomic!Die
  <1> QED
    BY <1>2, <1>4 DEF Abstract, Atomic!Next

LEMMA OneStep ==
    ASSUME OneEngine, TypeOK, OneInv, [Next]_vars PROVE OneInv' /\ Abstract
  <1>1. ASSUME NEW e \in Engine, mem' \in [Engine -> Config], BeginSave(e), Operation(e)
        PROVE  OneInv' /\ Abstract
    <2>1. mem' = [mem EXCEPT ![e] = mem'[e]] /\ mem'[e] \in Config
      BY <1>1, OneTypes DEF OneEngine
    <2> QED
      BY <1>1, <2>1, OneOperationStep
  <1>2. ASSUME NEW e \in Engine, Refused(e) PROVE OneInv' /\ Abstract
    <2>1. /\ pc[e] = "idle" /\ pc' = pc /\ path' = path /\ name' = name /\ data' = data
          /\ mem' \in [Engine -> Config]
      BY <1>2, RefusedType DEF disk, Operation
    <2>2. mem' = [mem EXCEPT ![e] = mem'[e]] /\ mem'[e] \in Config
      BY <2>1, OneTypes DEF OneEngine
    <2>3. Up' = Up /\ Up[e]
      BY <2>1 DEF Up
    <2>4. OneInv' /\ Stores' = Stores
      BY <2>1, OneQuiet
    <2> QED
      BY <2>1, <2>2, <2>3, <2>4, AbstractChange
  <1>3. CASE UNCHANGED vars
    <2>1. UNCHANGED <<pc, mem, path, fd, name, data>>
      BY <1>3 DEF vars, engines, disk
    <2>2. OneInv'
      BY <2>1 DEF OneInv, WriteInv, Apart, Exists, Read
    <2>3. Up' = Up /\ Stores' = Stores
      BY <2>1, PlacesKept DEF Up
    <2> QED
      BY <2>1, <2>2, <2>3, AbstractStutter
  <1> QED
    BY <1>1, <1>2, <1>3, OneSaveStep, OneLoadStep, OneNewStep, OneCrashStep,
       ConfigStepCases, ServerStepType, RewriteType
    DEF Next

LEMMA AbstractInit == Init => Atomic!Init
  <1> SUFFICES ASSUME Init PROVE Atomic!Init
    OBVIOUS
  <1>1. \A p \in Place : StoredAt(p) = None
    BY DEF Init, StoredAt, Exists, Name
  <1> QED
    BY <1>1 DEF Init, Atomic!Init, Up, Stores

\* The files of one engine, whatever paths it is given and whichever writes are cut short,
\* behave like a store that is replaced in one step: the steps of a save, its failures, its
\* clean-up and a death at any of them are the abstract save or nothing.
THEOREM SavesRefine == OneEngine /\ Spec => SavesAreAtomic
  <1> SUFFICES ASSUME OneEngine PROVE Spec => SavesAreAtomic
    OBVIOUS
  <1>1. TypeOK /\ OneInv /\ [Next]_vars => OneInv' /\ [Atomic!Next]_(Atomic!vars)
    BY OneStep DEF Abstract
  <1> QED
    BY <1>1, OneInit, AbstractInit, TypeCorrect, PTL DEF Spec, SavesAreAtomic, Atomic!Spec

-----------------------------------------------------------------------------
(* Durability, for one engine whose own files are written whole.  The       *)
(* temporary file may be cut short anywhere.                               *)

WrittenWhole == Paths \cap HalfWrites = {}

BeingWritten(p) == \E e \in Engine : pc[e] = "write" /\ path[e] = p

\* A file parses and has what was promised, unless it is being written.
Kept(p) ==
    /\ Stores[p] # Torn
    /\ \A s \in Server : promised[p][s] # Unknown
          => Stores[p] \in Config /\ Stores[p][s] = promised[p][s]

\* An engine knows what is at its target, so what it finds unchanged is there; while it writes
\* the file, it knows what was promised.
Knows(e) ==
    /\ pc[e] \notin {"down", "write"} /\ Stores[Target(e)] # None
          => base[e] = Stores[Target(e)]
    /\ pc[e] = "write"
          => \A s \in Server : promised[path[e]][s] # Unknown => base[e][s] = promised[path[e]][s]

Durable ==
    /\ \A p \in Place : ~BeingWritten(p) => Kept(p)
    /\ \A e \in Engine : Knows(e)

LEMMA DurableInit == Init => Durable
  <1> SUFFICES ASSUME Init PROVE Durable
    OBVIOUS
  <1>1. \A p \in Place : Stores[p] = None
    BY DEF Init, Stores, StoredAt, Exists, Name
  <1>2. \A p \in Place : Kept(p)
    BY <1>1, Sentinels DEF Init, Kept, Content
  <1>3. \A e \in Engine : Knows(e)
    BY DEF Init, Knows
  <1> QED
    BY <1>2, <1>3 DEF Durable

\* A step that leaves files and promises, and after which the engine is not writing in place.
LEMMA DurableQuiet ==
    ASSUME OneEngine, Durable, NEW e \in Engine, pc[e] # "write", pc'[e] # "write",
           UNCHANGED <<Stores, promised>>,
           pc'[e] = "down"
             \/ (Stores[Target(e)'] # None => base'[e] = Stores[Target(e)'])
    PROVE  Durable'
  <1>1. \A p \in Place : Kept(p)'
    BY DEF Durable, Kept, BeingWritten, OneEngine
  <1>2. Knows(e)'
    BY DEF Knows, Target
  <1> QED
    BY <1>1, <1>2 DEF Durable, OneEngine

LEMMA DurableSame ==
    ASSUME OneEngine, Durable, NEW e \in Engine, pc[e] \notin {"down", "write"}, pc'[e] # "write",
           UNCHANGED <<Stores, promised, path, base>>
    PROVE  Durable'
  <1>1. Target(e)' = Target(e) /\ (Stores[Target(e)] # None => base[e] = Stores[Target(e)])
    BY DEF Durable, Knows, Target
  <1> QED
    BY <1>1, DurableQuiet

LEMMA DurableSaveStep ==
    ASSUME OneEngine, WrittenWhole, TypeOK, OneInv, Durable, NEW e \in Engine, SaveStep(e)
    PROVE  Durable'
  <1>0. /\ pc \in [Engine -> {"down", "idle"} \union SavePC]
        /\ mem[e] \in Config /\ path[e] \in Paths \union {None}
        /\ path \in [Engine -> Place \union {None}] /\ "store" \in Place /\ None \notin Place
        /\ Target(e) \in Place /\ DOMAIN Stores = Place
        /\ promised \in [Place -> [Server -> Entry \union {Absent, Unknown}]]
        /\ base \in [Engine -> Config] /\ Torn \notin Config
        /\ OneInv' /\ WriteInv
    BY OneTypes, OneSaveStep, Sentinels DEF TypeOK, Target, Stores, OneInv
  <1>1. CASE Opened(e)
    <2>1. /\ pc[e] = "open" /\ path[e] \in Place /\ path[e] = Target(e)
          /\ UNCHANGED <<mem, path, base, promised>> /\ pc'[e] = "write"
          /\ Stores' = [Stores EXCEPT ![path[e]] = Torn]
      BY <1>0, <1>1 DEF Opened, Goto, WriteInv, Target
    <2>2. \A p \in Place : ~BeingWritten(p)' => Kept(p)'
      <3> SUFFICES ASSUME NEW p \in Place, p # path[e] PROVE Kept(p)'
        BY <2>1 DEF BeingWritten
      <3>1. Kept(p) /\ Stores'[p] = Stores[p]
        BY <1>0, <2>1 DEF Durable, BeingWritten, OneEngine
      <3> QED
        BY <2>1, <3>1 DEF Kept
    <2>3. \A s \in Server : promised[path[e]][s] # Unknown => base[e][s] = promised[path[e]][s]
      <3>1. Kept(path[e])
        BY <2>1 DEF Durable, BeingWritten, OneEngine
      <3>2. Stores[path[e]] # None => base[e] = Stores[path[e]]
        BY <2>1 DEF Durable, Knows
      <3> QED
        BY <3>1, <3>2, Sentinels DEF Kept, Content
    <2>4. Knows(e)'
      BY <2>1, <2>3 DEF Knows
    <2> QED
      BY <2>2, <2>4 DEF Durable, OneEngine
  <1>2. CASE Saved(e)
    <2>1. /\ UNCHANGED <<mem, path>> /\ pc'[e] = "idle"
          /\ Stores' = [Stores EXCEPT ![Target(e)] = mem[e]]
          /\ base' = [base EXCEPT ![e] = mem[e]]
          /\ promised' = [promised EXCEPT ![Target(e)] =
                             [s \in Server |-> IF mem[e][s] # base[e][s]
                                               THEN mem[e][s] ELSE @[s]]]
          /\ pc[e] \in {"write", "rename"}
      BY <1>0, <1>2 DEF Saved, Succeed, Goto
    <2>2. \A s \in Server : promised[Target(e)][s] # Unknown
                               => base[e][s] = promised[Target(e)][s]
      <3>1. CASE pc[e] = "write"
        <4>1. Target(e) = path[e]
          BY <1>0, <3>1 DEF WriteInv, Target
        <4> QED
          BY <3>1, <4>1 DEF Durable, Knows
      <3>2. CASE pc[e] = "rename"
        <4>1. Kept(Target(e))
          BY <1>0, <3>2 DEF Durable, BeingWritten, OneEngine
        <4>2. Stores[Target(e)] # None => base[e] = Stores[Target(e)]
          BY <3>2 DEF Durable, Knows
        <4> QED
          BY <4>1, <4>2, Sentinels DEF Kept, Content
      <3> QED
        BY <2>1, <3>1, <3>2
    <2>3. Kept(Target(e))'
      <3>1. Stores'[Target(e)] = mem[e] /\ Target(e)' = Target(e)
        BY <1>0, <2>1 DEF Target
      <3>2. ASSUME NEW s \in Server, promised'[Target(e)][s] # Unknown
            PROVE  promised'[Target(e)][s] = mem[e][s]
        <4>1. promised'[Target(e)][s] = IF mem[e][s] # base[e][s]
                                        THEN mem[e][s] ELSE promised[Target(e)][s]
          BY <1>0, <2>1
        <4> QED
          BY <2>2, <3>2, <4>1
      <3> QED
        BY <1>0, <3>1, <3>2 DEF Kept
    <2>4. ASSUME NEW p \in Place, p # Target(e) PROVE Kept(p)'
      <3>1. Stores'[p] = Stores[p] /\ promised'[p] = promised[p]
        BY <1>0, <2>1, <2>4
      <3>2. ~BeingWritten(p)
        BY <1>0, <2>4 DEF BeingWritten, OneEngine, Target
      <3> QED
        BY <3>1, <3>2 DEF Durable, Kept
    <2>5. Knows(e)'
      <3>1. base'[e] = mem[e] /\ Stores'[Target(e)] = mem[e] /\ Target(e)' = Target(e)
        BY <1>0, <2>1 DEF Target
      <3> QED
        BY <2>1, <3>1 DEF Knows
    <2>6. Target(e)' = Target(e)
      BY <2>1 DEF Target
    <2> QED
      BY <2>3, <2>4, <2>5, <2>6 DEF Durable, OneEngine
  <1>3. CASE Silent(e)
    BY <1>3, DurableSame DEF Silent
  <1>4. CASE CutShort(e)
    BY <1>0, <1>4 DEF CutShort, WrittenWhole, WriteInv
  <1> QED
    BY <1>1, <1>2, <1>3, <1>4, OneSaveStep DEF SaveEffect

LEMMA DurableLoadStep ==
    ASSUME OneEngine, TypeOK, OneInv, Durable, NEW e \in Engine, Load(e) \/ NewEngine(e)
    PROVE  Durable'
  <1>0. /\ name' = name /\ data' = data /\ promised' = promised
        /\ pc[e] \in {"idle", "down"} /\ pc'[e] = "idle"
    BY OneTypes DEF Load, LoadFile, LoadStore, NewEngine, Operation, Goto, disk
  <1>1. Stores' = Stores
    BY <1>0, OneQuiet
  <1>2. /\ path \in [Engine -> Place \union {None}] /\ base \in [Engine -> Config]
        /\ "store" \in Place /\ None \notin Place
    BY OneTypes DEF TypeOK
  \* a file that exists can be read
  <1>3. \A p \in Place : Exists(p) => Parses(p) /\ Read(p) = Stores[p]
    <2>1. \A p \in Place : Stores[p] # Torn
      BY <1>0 DEF Durable, Kept, BeingWritten, OneEngine
    <2> QED
      BY <2>1, PlaceRead
  <1>4. \A p \in Place : Stores[p] # None <=> Exists(p)
    BY PlaceRead
  <1>5. Stores[Target(e)'] # None => base'[e] = Stores[Target(e)']
    <2>1. ASSUME NEW p \in Paths, LoadFile(e, p)
          PROVE  Stores[Target(e)'] # None => base'[e] = Stores[Target(e)']
      <3>1. p \in Place /\ path'[e] = p
        BY <1>2, <2>1, ConfigStoreAssumption DEF ConfigStoreAssumption, LoadFile
      <3>2. base'[e] = Stores[p]
        BY <1>2, <1>3, <2>1, <3>1 DEF LoadFile, Loaded
      <3> QED
        BY <1>2, <3>1, <3>2 DEF Target
    <2>2. ASSUME NEW p \in Paths \union {None}, LoadStore(e, p)
          PROVE  Stores[Target(e)'] # None => base'[e] = Stores[Target(e)']
      <3>1. path'[e] = p
        BY <1>2, <2>2 DEF LoadStore
      <3>2. CASE p = None
        BY <1>2, <1>3, <1>4, <2>2, <3>1, <3>2 DEF LoadStore, Target
      <3>3. CASE p # None
        <4>1. Target(e)' = p /\ p \in Place /\ ~Exists(p)
          BY <2>2, <3>1, <3>3, ConfigStoreAssumption DEF ConfigStoreAssumption, LoadStore, Target
        <4> QED
          BY <1>4, <4>1
      <3> QED
        BY <3>2, <3>3
    <2>3. CASE NewEngine(e)
      BY <1>2, <1>3, <1>4, <2>3 DEF NewEngine, Loaded, Target
    <2> QED
      BY <2>1, <2>2, <2>3 DEF Load
  <1> QED
    BY <1>0, <1>1, <1>5, DurableQuiet

LEMMA DurableStep ==
    ASSUME OneEngine, WrittenWhole, TypeOK, OneInv, Durable, [Next]_vars PROVE Durable'
  <1>1. ASSUME NEW e \in Engine, Operation(e), BeginSave(e) PROVE Durable'
    <2>1. /\ pc[e] = "idle" /\ pc'[e] # "write"
          /\ UNCHANGED <<path, name, data, base, promised>>
      BY <1>1, OneTypes DEF Operation, BeginSave, Goto, disk, observed
    <2>2. Stores' = Stores
      BY <2>1, PlacesKept
    <2> QED
      BY <2>1, <2>2, DurableSame
  <1>2. ASSUME NEW e \in Engine, Refused(e) PROVE Durable'
    <2>1. pc[e] = "idle" /\ UNCHANGED <<pc, path, name, data, base, promised>>
      BY <1>2, RefusedType DEF disk, observed, Operation
    <2>2. Stores' = Stores
      BY <2>1, PlacesKept
    <2> QED
      BY <2>1, <2>2, DurableSame
  <1>3. ASSUME NEW e \in Engine, Crash(e) PROVE Durable'
    <2>1. UNCHANGED <<name, data, promised>> /\ pc'[e] = "down"
      BY <1>3, OneTypes DEF Crash, Goto, disk
    <2>2. Stores' = Stores
      BY <2>1, PlacesKept
    <2>3. pc[e] # "write"
      <3>1. pc[e] = "write" => path[e] \in Paths /\ path[e] \in HalfWrites
        BY <1>3 DEF Crash, Written, OneInv, WriteInv, TypeOK
      <3> QED
        BY <3>1 DEF WrittenWhole
    <2> QED
      BY <2>1, <2>2, <2>3, DurableQuiet
  <1>4. CASE UNCHANGED vars
    <2>1. UNCHANGED <<pc, path, name, data, base, promised>>
      BY <1>4 DEF vars, engines, disk, observed
    <2>2. Stores' = Stores
      BY <2>1, PlacesKept
    <2>3. \A p \in Place : Kept(p)' = Kept(p) /\ BeingWritten(p)' = BeingWritten(p)
      BY <2>1, <2>2 DEF Kept, BeingWritten
    <2>4. \A e \in Engine : Knows(e)' = Knows(e)
      BY <2>1, <2>2 DEF Knows, Target
    <2> QED
      BY <2>3, <2>4 DEF Durable
  <1> QED
    BY <1>1, <1>2, <1>3, <1>4, DurableSaveStep, DurableLoadStep, ConfigStepCases,
       ServerStepType, RewriteType
    DEF Next

LEMMA DurableAlways == OneEngine /\ WrittenWhole /\ Spec => [](TypeOK /\ OneInv /\ Durable)
  <1> SUFFICES ASSUME OneEngine, WrittenWhole PROVE Spec => [](TypeOK /\ OneInv /\ Durable)
    OBVIOUS
  <1>1. TypeOK /\ OneInv /\ Durable /\ [Next]_vars => OneInv' /\ Durable'
    BY OneStep, DurableStep
  <1> QED
    BY <1>1, OneInit, DurableInit, TypeCorrect, PTL DEF Spec

\* The storage holds a complete configuration at every moment, wherever the writes of the
\* temporary file stop and the process dies, unless the engine was given it as a path and is
\* writing it.
THEOREM StorageIsAtomic == OneEngine /\ WrittenWhole /\ Spec => []StoreParses
  <1>1. TypeOK /\ Durable => StoreParses
    <2> SUFFICES ASSUME TypeOK, Durable, Exists("store"),
                        \A e \in Engine : pc[e] = "write" => path[e] # "store"
                 PROVE  Parses("store")
      BY DEF StoreParses
    <2>1. Stores["store"] # Torn
      BY DEF Durable, Kept, BeingWritten, Place
    <2> QED
      BY <2>1, PlaceRead DEF Place
  <1> QED
    BY <1>1, DurableAlways, PTL

\* What a successful operation reported is what every later process reads at that place, also
\* when the engine went from one file to another in between.
THEOREM OperationsAreDurable == OneEngine /\ WrittenWhole /\ Spec => []PromisesKept
  <1>1. TypeOK /\ Durable => PromisesKept
    <2> SUFFICES ASSUME TypeOK, Durable, ~Saving, NEW p \in Place PROVE KeptIn(p)
      BY DEF PromisesKept
    <2>1. Kept(p)
      BY DEF Durable, Saving, BeingWritten
    <2> QED
      BY <2>1, PlaceRead DEF Kept, KeptIn
  <1> QED
    BY <1>1, DurableAlways, PTL

=============================================================================

--------------------------- MODULE Backups_proof ---------------------------
(***************************************************************************)
(* Proofs about Backups for any callers, values, retention and bounds,     *)
(* with failing storage calls and deaths of the process at any step.       *)
(***************************************************************************)
EXTENDS Backups, FiniteSetTheorems, WellFoundedInduction, TLAPS

LEMMA BoundsAreNat ==
    /\ MaxIds \in Nat /\ MaxChanges \in Nat
    /\ MaxFailures \in Nat /\ MaxCrashes \in Nat
  BY BackupsAssumption DEF BackupsAssumption

LEMMA KeepIsNat == Keep \in Nat /\ OneKey \in BOOLEAN
  BY BackupsAssumption DEF BackupsAssumption

LEMMA NoneIsNothing == None \notin Value /\ None \notin Id
  BY BackupsAssumption DEF BackupsAssumption, Id

LEMMA IdsAreFinite == \A S : S \subseteq Id => S \subseteq Nat /\ IsFiniteSet(S)
  <1>1. IsFiniteSet(Id)
    BY BoundsAreNat, FS_Interval DEF Id
  <1>2. Id \subseteq Nat
    BY BoundsAreNat DEF Id
  <1> QED
    BY <1>1, <1>2, FS_Subset

-----------------------------------------------------------------------------
(* Sets of identifiers *)

\* A set of natural numbers has a least element.
LEMMA LeastExists ==
    ASSUME NEW T, T \subseteq Nat, T # {}
    PROVE  \E x \in T : \A y \in T : x <= y
  <1> DEFINE R == OpToRel(<, Nat)
  <1>1. \A x, y \in Nat : x < y => <<x, y>> \in R
    BY DEF OpToRel
  <1>2. IsWellFoundedOn(R, Nat)
    BY NatLessThanWellFounded
  <1> HIDE DEF R
  <1>3. \E x \in T : \A y \in T : ~ (<<y, x>> \in R)
    BY <1>2, WFMin
  <1>4. PICK x \in T : \A y \in T : ~ (<<y, x>> \in R)
    BY <1>3
  <1>5. \A y \in T : x \in Nat /\ y \in Nat /\ ~ (y < x)
    BY <1>1, <1>4
  <1> QED
    BY <1>5

\* A set of backups that is not empty has a newest one.
LEMMA NewestExists ==
    ASSUME NEW S, S \subseteq Id, S # {}
    PROVE  Newest(S) \in S /\ \A n \in S : n <= Newest(S)
  <1> DEFINE T == {MaxIds - x : x \in S}
  <1>1. \A x \in S : x \in Nat /\ MaxIds - x \in Nat
    BY BoundsAreNat DEF Id
  <1>2. T \subseteq Nat /\ T # {}
    BY <1>1
  <1>3. \E t \in T : \A u \in T : t <= u
    <2> HIDE DEF T
    <2> QED
      BY <1>2, LeastExists
  <1>4. PICK x \in S : \A y \in S : MaxIds - x <= MaxIds - y
    BY <1>3
  <1>5. \E b \in S : \A n \in S : n <= b
    BY <1>1, <1>4, BoundsAreNat
  <1> QED
    BY <1>5 DEF Newest

\* The members of S that are newer than b.
Above(S, b) == {n \in S : n > b}

LEMMA AboveIsFinite ==
    ASSUME NEW S, S \subseteq Id, NEW b
    PROVE  /\ IsFiniteSet(Above(S, b))
           /\ Cardinality(Above(S, b)) \in Nat
  <1>1. Above(S, b) \subseteq Id
    BY DEF Above
  <1> QED
    BY <1>1, IdsAreFinite, FS_CardinalityType

\* The larger of two sets of backups has at least as many newer ones, above
\* an older or the same backup.
LEMMA AboveGrows ==
    ASSUME NEW S, S \subseteq Id, NEW T, T \subseteq Id, NEW a, NEW b,
           Above(S, a) \subseteq Above(T, b)
    PROVE  Cardinality(Above(S, a)) <= Cardinality(Above(T, b))
  BY AboveIsFinite, FS_Subset

\* Of a set of backups no more than k have fewer than k newer ones in it.
LEMMA FewAreRetained ==
    ASSUME NEW S, S \subseteq Id, NEW k \in Nat
    PROVE  LET T == {b \in S : Cardinality(Above(S, b)) < k}
           IN  IsFiniteSet(T) /\ Cardinality(T) <= k
  <1> DEFINE T == {b \in S : Cardinality(Above(S, b)) < k}
  <1>1. T \subseteq Id /\ T \subseteq Nat /\ IsFiniteSet(T)
    BY IdsAreFinite
  <1>2. Cardinality(T) <= k
    <2>1. CASE T = {}
      BY <2>1, FS_EmptySet
    <2>2. CASE T # {}
      <3>1. PICK x \in T : \A y \in T : x <= y
        <4> HIDE DEF T
        <4> QED
          BY <1>1, <2>2, LeastExists
      <3>2. T \ {x} \subseteq Above(S, x)
        <4>1. T \subseteq S
          OBVIOUS
        <4>2. \A y \in T : x \in Nat /\ y \in Nat /\ x <= y
          BY <3>1, <1>1
        <4> HIDE DEF T
        <4> QED
          BY <4>1, <4>2 DEF Above
      <3>3. IsFiniteSet(Above(S, x)) /\ Cardinality(Above(S, x)) \in Nat
        BY AboveIsFinite
      <3>4. Cardinality(T \ {x}) <= Cardinality(Above(S, x))
        BY <3>2, <3>3, FS_Subset
      <3>5. Cardinality(Above(S, x)) < k
        OBVIOUS
      <3>6. Cardinality(T \ {x}) = Cardinality(T) - 1 /\ Cardinality(T) \in Nat
        <4> HIDE DEF T
        <4> QED
          BY <1>1, <3>1, FS_RemoveElement, FS_CardinalityType
      <3>7. Cardinality(T) - 1 < k
        BY <3>3, <3>4, <3>5, <3>6
      <3> QED
        BY <3>6, <3>7
    <2> QED
      BY <2>1, <2>2
  <1> QED
    BY <1>1, <1>2

-----------------------------------------------------------------------------
(* The inductive invariant *)

Writing  == {"marshal", "data", "meta", "undo"}
Cleaning == {"list", "read"} \union Deleting

\* Retention may have deleted b: enough newer backups are listed.
Superseded(b) == Keep > 0 /\ Cardinality(Newer(b)) >= Keep

CleaningHasALimit == \A c \in Caller : pc[c] \in Cleaning => Keep > 0

\* Identifiers are taken in the order of time.
IdsAreTaken ==
    /\ \A c \in Caller : id[c] # None => id[c] < next
    /\ \A b \in Id : b \in complete \/ data[b] # None => b < next

\* Who writes a backup writes one that is nobody else's.
OwnIds ==
    \A c \in Caller : pc[c] \in Writing =>
        /\ id[c] \notin complete
        /\ \A d \in Caller : pc[d] \in Writing /\ id[d] = id[c] => d = c

DataBeforeMeta == \A c \in Caller : pc[c] = "meta" => data[id[c]] # None

\* What a complete backup has lost it lost to retention.
LostIsSuperseded ==
    \A b \in complete : data[b] = None \/ b \notin meta => Superseded(b)

\* What is about to be deleted may be deleted.
DoomedIsSuperseded ==
    \A c \in Caller :
        /\ pc[c] = "read" => todo[c] \subseteq complete
        /\ pc[c] \in Deleting =>
              \A b \in todo[c] : b \in complete /\ Superseded(b)

IInv == /\ TypeOK
        /\ CleaningHasALimit
        /\ IdsAreTaken
        /\ OwnIds
        /\ DataBeforeMeta
        /\ LostIsSuperseded
        /\ DoomedIsSuperseded

LEMMA NewerIsAbove == \A b : Newer(b) = Above(meta, b)
  BY DEF Newer, Above

\* A backup older than a superseded one is superseded.
LEMMA OlderIsSuperseded ==
    ASSUME meta \subseteq Id, NEW m \in Id, NEW b \in Id, b <= m, Superseded(m)
    PROVE  Superseded(b)
  <1>1. Above(meta, m) \subseteq Above(meta, b)
    BY IdsAreFinite DEF Above
  <1>2. Cardinality(Above(meta, m)) <= Cardinality(Above(meta, b))
    BY <1>1, AboveGrows
  <1> QED
    BY <1>2, AboveIsFinite, KeepIsNat, NewerIsAbove DEF Superseded

\* Backups stay superseded when one more is listed ...
LEMMA SupersededWhenListed ==
    ASSUME meta \subseteq Id, meta' \subseteq Id, meta \subseteq meta',
           NEW b \in Id, Superseded(b)
    PROVE  Superseded(b)'
  <1>1. Above(meta, b) \subseteq Above(meta', b)
    BY DEF Above
  <1>2. Cardinality(Above(meta, b)) <= Cardinality(Above(meta', b))
    BY <1>1, AboveGrows
  <1>3. Newer(b) = Above(meta, b) /\ Newer(b)' = Above(meta', b)
    BY DEF Newer, Above
  <1> QED
    BY <1>2, <1>3, AboveIsFinite, KeepIsNat DEF Superseded

\* ... and when a superseded one is taken from the list.
LEMMA SupersededWhenDeleted ==
    ASSUME meta \subseteq Id, NEW m \in Id, Superseded(m), meta' = meta \ {m},
           NEW b \in Id, Superseded(b)
    PROVE  Superseded(b)'
  <1>0. m \in Nat /\ b \in Nat /\ meta \subseteq Nat /\ meta' \subseteq Id
    BY IdsAreFinite
  <1>1. PICK a \in {m, b} : Above(meta, a) \subseteq Above(meta', b)
    <2>1. CASE b < m
      <3>1. \A n \in meta : n > m => n # m /\ n > b
        BY <2>1, <1>0
      <3>2. Above(meta, m) \subseteq Above(meta', b)
        BY <3>1 DEF Above
      <3> QED
        BY <3>2
    <2>2. CASE ~ (b < m)
      <3>1. Above(meta, b) \subseteq Above(meta', b)
        BY <2>2, <1>0 DEF Above
      <3> QED
        BY <3>1
    <2> QED
      BY <2>1, <2>2
  <1>2. Cardinality(Above(meta, a)) <= Cardinality(Above(meta', b))
    BY <1>0, <1>1, AboveGrows
  <1>3. Newer(a) = Above(meta, a) /\ Newer(b)' = Above(meta', b)
    BY DEF Newer, Above
  <1>4. Superseded(a)
    OBVIOUS
  <1>5. Cardinality(Above(meta, a)) \in Nat /\ Cardinality(Above(meta', b)) \in Nat
    BY <1>0, AboveIsFinite
  <1> QED
    BY <1>2, <1>3, <1>4, <1>5, KeepIsNat DEF Superseded

\* What ListBackups and the slice behind maxBackups select is superseded, also
\* when some of what was listed has gone.
LEMMA OutdatedIsSuperseded ==
    ASSUME TypeOK, LostIsSuperseded, Keep > 0, NEW S, S \subseteq complete,
           NEW b \in Outdated(S)
    PROVE  b \in S /\ Superseded(b)
  <1>1. S \subseteq Id /\ meta \subseteq Id /\ b \in S
    BY DEF TypeOK, Outdated
  <1>2. Cardinality(Above(S, b)) >= Keep
    BY DEF Outdated, Above
  <1>3. CASE Above(S, b) \subseteq meta
    <2>1. Above(S, b) \subseteq Above(meta, b)
      BY <1>3 DEF Above
    <2>2. Cardinality(Above(S, b)) <= Cardinality(Above(meta, b))
      BY <1>1, <2>1, AboveGrows
    <2> QED
      BY <1>1, <1>2, <2>2, AboveIsFinite, KeepIsNat, NewerIsAbove
      DEF Superseded
  <1>4. CASE ~ (Above(S, b) \subseteq meta)
    <2>1. PICK n \in S : n > b /\ n \notin meta
      BY <1>4 DEF Above
    <2>2. Superseded(n)
      BY <2>1 DEF LostIsSuperseded
    <2>3. n \in Id /\ b \in Id /\ b <= n
      BY <1>1, <2>1, IdsAreFinite
    <2> QED
      BY <1>1, <2>2, <2>3, OlderIsSuperseded
  <1> QED
    BY <1>3, <1>4

LEMMA InitIInv == Init => IInv
  <1> SUFFICES ASSUME Init PROVE IInv
    OBVIOUS
  <1> USE DEF Init
  <1>1. TypeOK
    BY BoundsAreNat DEF TypeOK, PC, Deleting
  <1> QED
    BY <1>1 DEF IInv, CleaningHasALimit, IdsAreTaken, OwnIds, DataBeforeMeta,
                LostIsSuperseded, DoomedIsSuperseded, Writing, Cleaning,
                Deleting

LEMMA TypeStep == TypeOK /\ [Next]_vars => TypeOK'
  <1> SUFFICES ASSUME TypeOK, [Next]_vars PROVE TypeOK'
    OBVIOUS
  <1> USE NoneIsNothing, BoundsAreNat
      DEF TypeOK, PC, Deleting, Goto, AfterBackup, Fail, Id
  <1>1. CASE UNCHANGED vars
    BY <1>1 DEF vars, calls, engine, storage, counters
  <1>2. ASSUME NEW c \in Caller, Call(c) PROVE TypeOK'
    <2>1. CASE CreateBackup(c)
      BY <2>1 DEF CreateBackup, TakePointer, engine, storage, counters
    <2>2. CASE WriteData(c)
      BY <2>2 DEF WriteData, engine, counters
    <2>3. CASE WriteDataFails(c)
      BY <2>3 DEF WriteDataFails, engine, storage
    <2>4. CASE WriteMeta(c)
      BY <2>4 DEF WriteMeta, engine, counters
    <2>5. CASE WriteMetaFails(c)
      BY <2>5 DEF WriteMetaFails, engine, storage
    <2>6. CASE Undo(c)
      BY <2>6 DEF Undo, engine
    <2>7. CASE ListKeys(c)
      <3>1. meta \in SUBSET Id
        OBVIOUS
      <3>2. todo' \in [Caller -> SUBSET Id]
        BY <2>7, <3>1 DEF ListKeys
      <3>3. CASE Goto(c, "read") /\ UNCHANGED failures
        BY <2>7, <3>2, <3>3 DEF ListKeys, engine, storage
      <3>4. CASE Fail /\ Goto(c, AfterBackup(c)) /\ UNCHANGED todo
        BY <2>7, <3>4 DEF ListKeys, engine, storage
      <3> QED
        BY <2>7, <3>3, <3>4 DEF ListKeys
    <2>8. CASE ReadMetas(c)
      <3>0. failures \in Nat
        OBVIOUS
      <3>1. PICK S \in SUBSET todo[c] :
               /\ failures' = failures \/ failures' = failures + 1
               /\ todo' = [todo EXCEPT ![c] = Outdated(S)]
               /\ Goto(c, IF Outdated(S) = {} THEN AfterBackup(c)
                          ELSE "deleteData")
        BY ONLY <2>8, Zenon DEF ReadMetas, Fail
      <3>2. Outdated(S) \in SUBSET Id
        BY DEF Outdated
      <3>3. todo' \in [Caller -> SUBSET Id] /\ todo'[c] = Outdated(S)
        BY <3>1, <3>2
      <3>4. \A d \in Caller : d # c => todo'[d] = todo[d] /\ pc'[d] = pc[d]
        BY <3>1
      <3>5. CASE Outdated(S) = {}
        BY <2>8, <3>0, <3>1, <3>3, <3>4, <3>5 DEF ReadMetas, engine, storage
      <3>6. CASE Outdated(S) # {}
        BY <2>8, <3>0, <3>1, <3>3, <3>4, <3>6 DEF ReadMetas, engine, storage
      <3> QED
        BY <3>5, <3>6
    <2>9. CASE DeleteData(c)
      <3>1. data' \in [Id -> Value \cup {None}] /\ failures' \in Nat
        <4>1. CASE UNCHANGED failures
          BY <2>9, <4>1 DEF DeleteData
        <4>2. CASE Fail /\ UNCHANGED data
          BY <4>2
        <4> QED
          BY <2>9, <4>1, <4>2 DEF DeleteData
      <3>2. pc' = [pc EXCEPT ![c] = "deleteMeta"] /\ todo[c] # {}
        BY <2>9 DEF DeleteData
      <3>3. pc' \in [Caller -> PC] /\ pc'[c] = "deleteMeta"
        BY <3>2
      <3>4. \A d \in Caller : d # c => pc'[d] = pc[d]
        BY <3>2
      <3>5. UNCHANGED <<wanted, snap, id, todo, engine, meta, next, complete,
                        overtaken, late, changes, crashes>>
        BY <2>9 DEF DeleteData
      <3> QED
        BY <3>1, <3>2, <3>3, <3>4, <3>5 DEF engine
    <2>10. CASE DeleteMeta(c)
      <3> DEFINE b == Newest(todo[c])
      <3>1. /\ meta' \subseteq meta /\ failures' \in Nat
            /\ todo' = [todo EXCEPT ![c] = @ \ {b}]
            /\ pc' = [pc EXCEPT ![c] = IF todo[c] = {b} THEN AfterBackup(c)
                                       ELSE "deleteData"]
        BY <2>10 DEF DeleteMeta
      <3>2. todo[c] # {} /\ todo[c] \subseteq Id
        BY <2>10 DEF DeleteMeta
      <3>3. b \in todo[c]
        BY <3>2, NewestExists
      <3> HIDE DEF b
      <3>4. todo' \in [Caller -> SUBSET Id] /\ todo'[c] = todo[c] \ {b}
        BY <3>1
      <3>5. \A d \in Caller : d # c => todo'[d] = todo[d] /\ pc'[d] = pc[d]
        BY <3>1
      <3>6. CASE todo[c] = {b}
        <4>1. pc' = [pc EXCEPT ![c] = AfterBackup(c)]
          BY <3>1, <3>6
        <4>2. pc'[c] = AfterBackup(c) /\ pc' \in [Caller -> PC]
          BY <4>1
        <4>3. AfterBackup(c) = "restore" => wanted[c] \in Value
          OBVIOUS
        <4> QED
          BY <2>10, <3>1, <3>4, <3>5, <4>2, <4>3 DEF DeleteMeta, engine
      <3>7. CASE todo[c] # {b}
        <4>1. todo'[c] # {}
          BY <3>2, <3>3, <3>4, <3>7
        <4> QED
          BY <2>10, <3>1, <3>4, <3>5, <3>7, <4>1 DEF DeleteMeta, engine
      <3> QED
        BY <3>6, <3>7
    <2>11. CASE SafetyBackup(c)
      BY <2>11 DEF SafetyBackup, TakePointer, engine, storage, counters
    <2>12. CASE RestoreConfig(c)
      <3>1. snap' \in [Caller -> Value \union {None}]
        BY <2>12 DEF RestoreConfig, Replace, Pointed
      <3>2. \A d \in Caller : pc[d] \in {"data", "meta", "undo"} =>
               snap'[d] = snap[d]
        BY <2>12 DEF RestoreConfig, Replace
      <3>3. /\ config' \in Value /\ stored' \in Value /\ failures' \in Nat
            /\ wanted' \in [Caller -> Value \union {None}]
            /\ overtaken' \in [Caller -> BOOLEAN] /\ pc' \in [Caller -> PC]
        BY <2>12 DEF RestoreConfig, Assign
      <3>4. \A d \in Caller :
               /\ d = c => pc'[d] = "idle"
               /\ d # c => pc'[d] = pc[d] /\ wanted'[d] = wanted[d]
        BY <2>12 DEF RestoreConfig
      <3>5. UNCHANGED <<id, todo, storage, next, complete, late, changes,
                        crashes>>
        BY <2>12 DEF RestoreConfig
      <3> QED
        BY <3>1, <3>2, <3>3, <3>4, <3>5 DEF storage
    <2>13. ASSUME NEW b \in Id, RestoreBackup(c, b) PROVE TypeOK'
      BY <2>13 DEF RestoreBackup, engine, storage, counters
    <2>14. CASE TakeTime(c)
      BY <2>14 DEF TakeTime, engine, storage, counters
    <2>15. CASE Marshal(c)
      <3>1. Pointed(c) \in Value
        BY DEF Pointed
      <3>2. late' \subseteq Id
        BY <2>15 DEF Marshal
      <3> QED
        BY <2>15, <3>1, <3>2 DEF Marshal, engine, storage, counters
    <2> QED
      BY <1>2, <2>1, <2>2, <2>3, <2>4, <2>5, <2>6, <2>7, <2>8, <2>9, <2>10,
         <2>11, <2>12, <2>13, <2>14, <2>15 DEF Call
  <1>3. ASSUME NEW v \in Value, Change(v) PROVE TypeOK'
    <2>1. snap' \in [Caller -> Value \union {None}]
      BY <1>3 DEF Change, Replace, Pointed
    <2>2. \A d \in Caller : pc[d] \in {"data", "meta", "undo"} =>
             snap'[d] = snap[d]
      BY <1>3 DEF Change, Replace
    <2> QED
      BY <1>3, <2>1, <2>2 DEF Change, Assign, storage
  <1>4. CASE Crash
    BY <1>4 DEF Crash, storage
  <1> QED
    BY <1>1, <1>2, <1>3, <1>4 DEF Next

IdsInv == CleaningHasALimit /\ IdsAreTaken /\ OwnIds /\ DataBeforeMeta

LEMMA IdsStep == IInv /\ [Next]_vars => IdsInv'
  <1> SUFFICES ASSUME IInv, [Next]_vars PROVE IdsInv'
    OBVIOUS
  <1>0. TypeOK' /\ TypeOK
    BY TypeStep DEF IInv
  <1>t. /\ pc \in [Caller -> PC] /\ id \in [Caller -> Id \union {None}]
        /\ data \in [Id -> Value \union {None}] /\ next \in Nat
        /\ complete \subseteq Id /\ Id \subseteq Nat
        /\ pc' \in [Caller -> PC] /\ id' \in [Caller -> Id \union {None}]
        /\ todo \in [Caller -> SUBSET Id]
    BY <1>0, BoundsAreNat DEF TypeOK, Id
  <1>w. \A c \in Caller : pc[c] \in Writing => id[c] \in Id
    BY <1>0 DEF TypeOK, Writing
  <1> USE NoneIsNothing, KeepIsNat, <1>t, <1>w
      DEF IInv, IdsInv, CleaningHasALimit, IdsAreTaken, OwnIds, DataBeforeMeta,
          Writing, Cleaning, Deleting, PC, Goto, AfterBackup
  <1>1. CASE UNCHANGED vars
    BY <1>1 DEF vars, calls, storage
  <1>5. ASSUME NEW c \in Caller, TakeTime(c) PROVE IdsInv'
    <2>1. /\ next' = next + 1 /\ id'[c] = next /\ pc'[c] = "marshal"
          /\ data' = data /\ complete' = complete
          /\ \A d \in Caller : d # c => id'[d] = id[d] /\ pc'[d] = pc[d]
      BY <1>5 DEF TakeTime, storage
    <2>2. \A d \in Caller : id[d] \in Id => id[d] < next
      OBVIOUS
    <2>3. next \notin complete
      OBVIOUS
    <2>4. CleaningHasALimit'
      BY <2>1
    <2>5. IdsAreTaken'
      <3>1. \A d \in Caller : id'[d] # None => id'[d] < next'
        <4>1. id'[c] < next'
          BY <2>1
        <4>2. ASSUME NEW d \in Caller, d # c, id[d] # None
              PROVE  id[d] \in Nat /\ id[d] < next
          BY <4>2
        <4> QED
          BY <2>1, <4>1, <4>2
      <3>2. \A b \in Id : b \in complete \/ data[b] # None => b < next'
        BY <2>1
      <3> QED
        BY <3>1, <3>2, <2>1
    <2>6. OwnIds'
      <3>1. \A d \in Caller : pc[d] \in Writing => id[d] # next
        BY <2>2
      <3>2. \A d \in Caller : d # c => (pc'[d] \in Writing => pc[d] \in Writing)
        BY <2>1
      <3>3. ASSUME NEW d \in Caller, pc'[d] \in Writing
            PROVE  /\ id'[d] \notin complete'
                   /\ \A e \in Caller :
                         pc'[e] \in Writing /\ id'[e] = id'[d] => e = d
        <4>1. CASE d = c
          BY <4>1, <2>1, <2>3, <3>1, <3>2
        <4>2. CASE d # c
          BY <4>2, <3>3, <2>1, <3>1, <3>2
        <4> QED
          BY <4>1, <4>2
      <3> QED
        BY <3>3
    <2>7. DataBeforeMeta'
      BY <2>1
    <2> QED
      BY <2>4, <2>5, <2>6, <2>7
  <1>2. ASSUME NEW c \in Caller, Call(c) PROVE IdsInv'
    <2>1. CASE CreateBackup(c)
      BY <2>1 DEF CreateBackup, TakePointer, storage
    <2>2. CASE WriteData(c)
      <3>1. snap[c] \in Value
        BY <2>2, <1>0 DEF WriteData, TypeOK
      <3> QED
        BY <2>2, <3>1 DEF WriteData
    <2>3. CASE WriteDataFails(c)
      BY <2>3 DEF WriteDataFails, storage
    <2>4. CASE WriteMeta(c)
      BY <2>4 DEF WriteMeta
    <2>5. CASE WriteMetaFails(c)
      BY <2>5 DEF WriteMetaFails, storage
    <2>6. CASE Undo(c)
      BY <2>6 DEF Undo
    <2>7. CASE ListKeys(c)
      BY <2>7 DEF ListKeys, storage
    <2>8. CASE ReadMetas(c)
      BY <2>8 DEF ReadMetas, storage
    <2>9. CASE DeleteData(c)
      <3>1. todo[c] # {} /\ todo[c] \subseteq Id
        BY <2>9, <1>0 DEF DeleteData, TypeOK
      <3>2. Newest(todo[c]) \in todo[c]
        BY <3>1, NewestExists
      <3>3. Newest(todo[c]) \in complete
        BY <2>9, <3>2 DEF DeleteData, DoomedIsSuperseded
      <3> QED
        BY <2>9, <3>3 DEF DeleteData
    <2>10. CASE DeleteMeta(c)
      BY <2>10 DEF DeleteMeta
    <2>11. CASE SafetyBackup(c)
      BY <2>11 DEF SafetyBackup, TakePointer, storage
    <2>12. CASE RestoreConfig(c)
      BY <2>12 DEF RestoreConfig, storage
    <2>13. ASSUME NEW b \in Id, RestoreBackup(c, b) PROVE IdsInv'
      BY <2>13 DEF RestoreBackup, storage
    <2>14. CASE TakeTime(c)
      BY <1>5, <2>14
    <2>15. CASE Marshal(c)
      BY <2>15 DEF Marshal, storage
    <2> QED
      BY <1>2, <2>1, <2>2, <2>3, <2>4, <2>5, <2>6, <2>7, <2>8, <2>9, <2>10,
         <2>11, <2>12, <2>13, <2>14, <2>15 DEF Call
  <1>3. ASSUME NEW v \in Value, Change(v) PROVE IdsInv'
    BY <1>3 DEF Change, storage
  <1>4. CASE Crash
    BY <1>4 DEF Crash, storage
  <1> QED
    BY <1>1, <1>2, <1>3, <1>4 DEF Next

LEMMA SupersededUnchanged ==
    ASSUME UNCHANGED meta PROVE \A b : Superseded(b) = Superseded(b)'
  BY DEF Superseded, Newer

RetentionInv == LostIsSuperseded /\ DoomedIsSuperseded

\* A step that leaves the storage alone and starts no deletion.
LEMMA RetentionKept ==
    ASSUME IInv, UNCHANGED <<storage, complete>>,
           \A c \in Caller :
               pc'[c] \in {"read"} \union Deleting =>
                   pc'[c] = pc[c] /\ todo'[c] = todo[c]
    PROVE  RetentionInv'
  BY SupersededUnchanged
  DEF IInv, RetentionInv, LostIsSuperseded, DoomedIsSuperseded, storage,
      Deleting, Cleaning

LEMMA RetentionStep == IInv /\ [Next]_vars => RetentionInv'
  <1> SUFFICES ASSUME IInv, [Next]_vars PROVE RetentionInv'
    OBVIOUS
  <1>0. TypeOK' /\ TypeOK
    BY TypeStep DEF IInv
  <1>t. /\ pc \in [Caller -> PC] /\ todo \in [Caller -> SUBSET Id]
        /\ data \in [Id -> Value \union {None}]
        /\ meta \subseteq complete /\ complete \subseteq Id
        /\ meta' \subseteq complete' /\ complete' \subseteq Id
        /\ pc' \in [Caller -> PC] /\ todo' \in [Caller -> SUBSET Id]
    BY <1>0 DEF TypeOK
  <1> USE <1>t DEF PC, Goto, AfterBackup, Deleting, storage
  <1>1. CASE UNCHANGED vars
    BY <1>1, RetentionKept DEF vars, calls
  <1>2. ASSUME NEW c \in Caller, Call(c) PROVE RetentionInv'
    <2>1. CASE CreateBackup(c)
      BY <2>1, RetentionKept DEF CreateBackup, TakePointer
    <2>2. CASE WriteData(c)
      <3>1. id[c] \in Id \ complete
        BY <2>2, <1>0 DEF WriteData, TypeOK, IInv, OwnIds, Writing
      <3>2. \A b \in complete : data'[b] = data[b]
        BY <2>2, <3>1 DEF WriteData
      <3>3. \A d \in Caller :
               /\ todo'[d] = todo[d]
               /\ pc'[d] \in {"read"} \union Deleting => pc'[d] = pc[d]
        BY <2>2 DEF WriteData
      <3>4. meta' = meta /\ complete' = complete
        BY <2>2 DEF WriteData
      <3> QED
        BY <3>2, <3>3, <3>4, SupersededUnchanged
        DEF IInv, RetentionInv, LostIsSuperseded, DoomedIsSuperseded
    <2>3. CASE WriteDataFails(c)
      BY <2>3, RetentionKept DEF WriteDataFails
    <2>4. CASE WriteMeta(c)
      <3>1. /\ meta' = meta \union {id[c]} /\ complete' = complete \union {id[c]}
            /\ data' = data /\ todo' = todo /\ data[id[c]] # None
            /\ \A d \in Caller :
                  pc'[d] \in {"read"} \union Deleting => pc'[d] = pc[d]
        BY <2>4 DEF WriteMeta, IInv, DataBeforeMeta
      <3>2. \A b \in Id : Superseded(b) => Superseded(b)'
        BY <3>1, SupersededWhenListed
      <3> QED
        BY <3>1, <3>2
        DEF IInv, RetentionInv, LostIsSuperseded, DoomedIsSuperseded
    <2>5. CASE WriteMetaFails(c)
      BY <2>5, RetentionKept DEF WriteMetaFails
    <2>6. CASE Undo(c)
      <3>1. id[c] \in Id \ complete
        BY <2>6, <1>0 DEF Undo, TypeOK, IInv, OwnIds, Writing
      <3>2. \A b \in complete : data'[b] = data[b]
        BY <2>6, <3>1 DEF Undo
      <3>3. \A d \in Caller :
               /\ todo'[d] = todo[d]
               /\ pc'[d] \in {"read"} \union Deleting => pc'[d] = pc[d]
        BY <2>6 DEF Undo
      <3>4. meta' = meta /\ complete' = complete
        BY <2>6 DEF Undo
      <3> QED
        BY <3>2, <3>3, <3>4, SupersededUnchanged
        DEF IInv, RetentionInv, LostIsSuperseded, DoomedIsSuperseded
    <2>7. CASE ListKeys(c)
      <3>1. \A d \in Caller : pc'[d] \in {"read"} \union Deleting =>
               \/ pc'[d] = pc[d] /\ todo'[d] = todo[d]
               \/ pc'[d] = "read" /\ todo'[d] = meta
        BY <2>7 DEF ListKeys
      <3>2. UNCHANGED <<meta, data, complete>>
        BY <2>7 DEF ListKeys
      <3> QED
        BY <3>1, <3>2, SupersededUnchanged
        DEF IInv, RetentionInv, LostIsSuperseded, DoomedIsSuperseded
    <2>8. CASE ReadMetas(c)
      <3>1. PICK S \in SUBSET todo[c] :
               /\ todo' = [todo EXCEPT ![c] = Outdated(S)]
               /\ Goto(c, IF Outdated(S) = {} THEN AfterBackup(c)
                          ELSE "deleteData")
        BY ONLY <2>8, Zenon DEF ReadMetas
      <3>2. S \subseteq complete /\ Keep > 0
        BY <2>8 DEF ReadMetas, IInv, DoomedIsSuperseded, CleaningHasALimit,
                    Cleaning
      <3>3. \A b \in Outdated(S) : b \in complete /\ Superseded(b)
        BY <3>2, <1>0, OutdatedIsSuperseded DEF IInv
      <3>4. \A d \in Caller : pc'[d] \in {"read"} \union Deleting =>
               \/ pc'[d] = pc[d] /\ todo'[d] = todo[d]
               \/ pc'[d] \in Deleting /\ todo'[d] = Outdated(S)
        BY <3>1
      <3>5. UNCHANGED <<meta, data, complete>>
        BY <2>8 DEF ReadMetas
      <3> QED
        BY <3>3, <3>4, <3>5, SupersededUnchanged
        DEF IInv, RetentionInv, LostIsSuperseded, DoomedIsSuperseded
    <2>9. CASE DeleteData(c)
      <3> DEFINE b == Newest(todo[c])
      <3>1. todo[c] # {}
        BY <2>9, <1>0 DEF DeleteData, TypeOK
      <3>2. b \in todo[c]
        BY <3>1, NewestExists
      <3>3. b \in complete /\ Superseded(b)
        BY <2>9, <3>2 DEF DeleteData, IInv, DoomedIsSuperseded
      <3>4. \A a \in Id : a # b => data'[a] = data[a]
        BY <2>9 DEF DeleteData
      <3>5. \A d \in Caller :
               /\ todo'[d] = todo[d]
               /\ pc'[d] = "read" => pc[d] = "read"
               /\ pc'[d] \in Deleting => pc[d] \in Deleting
        BY <2>9 DEF DeleteData
      <3>6. meta' = meta /\ complete' = complete
        BY <2>9 DEF DeleteData
      <3> HIDE DEF b
      <3> QED
        BY <3>3, <3>4, <3>5, <3>6, SupersededUnchanged
        DEF IInv, RetentionInv, LostIsSuperseded, DoomedIsSuperseded
    <2>10. CASE DeleteMeta(c)
      <3> DEFINE b == Newest(todo[c])
      <3>1. todo[c] # {}
        BY <2>10, <1>0 DEF DeleteMeta, TypeOK
      <3>2. b \in todo[c]
        BY <3>1, NewestExists
      <3>3. b \in complete /\ Superseded(b)
        BY <2>10, <3>2 DEF DeleteMeta, IInv, DoomedIsSuperseded
      <3>4. meta' = meta \/ meta' = meta \ {b}
        BY <2>10 DEF DeleteMeta
      <3>5. \A d \in Caller :
               /\ todo'[d] \subseteq todo[d]
               /\ pc'[d] = "read" => pc[d] = "read"
               /\ pc'[d] \in Deleting => pc[d] \in Deleting
        BY <2>10 DEF DeleteMeta
      <3>6. data' = data /\ complete' = complete
        BY <2>10 DEF DeleteMeta
      <3> HIDE DEF b
      <3>7. \A a \in Id : Superseded(a) => Superseded(a)'
        <4>1. CASE meta' = meta
          BY <4>1, SupersededUnchanged
        <4>2. CASE meta' = meta \ {b}
          BY <4>2, <3>3, SupersededWhenDeleted
        <4> QED
          BY <3>4, <4>1, <4>2
      <3>8. \A a \in complete : a \notin meta' => a \notin meta \/ a = b
        BY <3>4
      <3> QED
        BY <3>3, <3>5, <3>6, <3>7, <3>8
        DEF IInv, RetentionInv, LostIsSuperseded, DoomedIsSuperseded
    <2>11. CASE SafetyBackup(c)
      BY <2>11, RetentionKept DEF SafetyBackup, TakePointer
    <2>12. CASE RestoreConfig(c)
      BY <2>12, RetentionKept DEF RestoreConfig
    <2>13. ASSUME NEW b \in Id, RestoreBackup(c, b) PROVE RetentionInv'
      BY <2>13, RetentionKept DEF RestoreBackup
    <2>14. CASE TakeTime(c)
      BY <2>14, RetentionKept DEF TakeTime
    <2>15. CASE Marshal(c)
      BY <2>15, RetentionKept DEF Marshal
    <2> QED
      BY <1>2, <2>1, <2>2, <2>3, <2>4, <2>5, <2>6, <2>7, <2>8, <2>9, <2>10,
         <2>11, <2>12, <2>13, <2>14, <2>15 DEF Call
  <1>3. ASSUME NEW v \in Value, Change(v) PROVE RetentionInv'
    BY <1>3, RetentionKept DEF Change
  <1>4. CASE Crash
    BY <1>4, RetentionKept DEF Crash
  <1> QED
    BY <1>1, <1>2, <1>3, <1>4 DEF Next

LEMMA IInvStep == IInv /\ [Next]_vars => IInv'
  BY TypeStep, IdsStep, RetentionStep DEF IInv, IdsInv, RetentionInv

THEOREM IInvAlways == Spec => []IInv
  BY InitIInv, IInvStep, PTL DEF Spec

-----------------------------------------------------------------------------
(* Theorems *)

\* Every variable keeps its type; who deletes has something to delete, who
\* writes a backup or restores has what it writes.
THEOREM TypeCorrect == Spec => []TypeOK
  <1>1. IInv => TypeOK
    BY DEF IInv
  <1> QED
    BY <1>1, IInvAlways, PTL

\* A complete backup can be restored until MaxBackups newer ones are listed.
THEOREM RetainedBackupsAreRestorable == Spec => []RetainedAreRestorable
  <1>1. IInv => RetainedAreRestorable
    <2> SUFFICES ASSUME IInv, NEW b \in complete, data[b] = None
                 PROVE  Keep > 0 /\ ~ (Cardinality(Newer(b)) < Keep)
      BY KeepIsNat DEF RetainedAreRestorable
    <2>1. Superseded(b)
      BY DEF IInv, LostIsSuperseded
    <2>2. Cardinality(Newer(b)) \in Nat
      BY AboveIsFinite, NewerIsAbove DEF IInv, TypeOK
    <2> QED
      BY <2>1, <2>2, KeepIsNat DEF Superseded
  <1> QED
    BY <1>1, IInvAlways, PTL

-----------------------------------------------------------------------------
(* What a restore overwrites *)

\* c's backup is of the configuration there is.
IsCurrent(c) == /\ pc[c] \in Writing \union Cleaning \union {"restore"}
                /\ id[c] # None /\ ~ overtaken[c]

\* Until it is marshalled c points to the engine's own configuration, if
\* that has not changed since.
PointsToOwn ==
    \A c \in Caller :
        pc[c] \in {"stamp", "marshal"} /\ ~ overtaken[c] => snap[c] = None

\* c's backup and all later ones, written or about to be, are of it, if they
\* are not late.
WorkInv ==
    /\ PointsToOwn
    /\ \A b \in late : b < next
    /\ \A c \in Caller : IsCurrent(c) =>
          /\ id[c] \notin late
          /\ \A b \in Id : b >= id[c] => data[b] \in {None, config} \/ b \in late
          /\ \A d \in Caller :
                pc[d] = "data" /\ id[d] >= id[c] =>
                    snap[d] = config \/ id[d] \in late
          /\ pc[c] \notin Writing => id[c] \in complete

LEMMA WorkStep == IInv /\ WorkInv /\ [Next]_vars => WorkInv'
  <1> SUFFICES ASSUME IInv, WorkInv, [Next]_vars PROVE WorkInv'
    OBVIOUS
  <1>0. TypeOK' /\ TypeOK
    BY TypeStep DEF IInv
  <1>t. /\ pc \in [Caller -> PC] /\ id \in [Caller -> Id \union {None}]
        /\ data \in [Id -> Value \union {None}] /\ next \in Nat
        /\ snap \in [Caller -> Value \union {None}]
        /\ overtaken \in [Caller -> BOOLEAN]
        /\ complete \subseteq Id /\ Id \subseteq Nat /\ config \in Value
        /\ late \subseteq Id
    BY <1>0, BoundsAreNat DEF TypeOK, Id
  <1>w. \A c \in Caller : pc[c] \in Writing => id[c] \in Id
    BY <1>0 DEF TypeOK, Writing
  <1>n. /\ \A c \in Caller : id[c] # None => id[c] < next
        /\ \A b \in Id : data[b] # None => b < next
    BY DEF IInv, IdsAreTaken
  <1>o. \A c, d \in Caller :
           pc[c] \in Writing /\ pc[d] \in Writing /\ id[d] = id[c] => d = c
    BY DEF IInv, OwnIds
  <1> USE NoneIsNothing, <1>t
      DEF WorkInv, PointsToOwn, IsCurrent, Writing, Cleaning, Deleting, PC,
          Goto, AfterBackup
  <1>1. CASE UNCHANGED vars
    BY <1>1 DEF vars, calls, engine, storage
  \* A pointer is taken.
  <1>5. ASSUME NEW c \in Caller, TakePointer(c),
               UNCHANGED <<engine, storage, next, complete, late>>
        PROVE  WorkInv'
    BY <1>5 DEF TakePointer, engine, storage
  \* Everybody's pointer is overtaken.
  <1>6. ASSUME overtaken' = [d \in Caller |-> TRUE], UNCHANGED <<late, next>>
        PROVE  WorkInv'
    BY <1>6
  <1>2. ASSUME NEW c \in Caller, Call(c) PROVE WorkInv'
    <2>1. CASE CreateBackup(c)
      BY <1>5, <2>1 DEF CreateBackup
    <2>2. CASE WriteData(c)
      <3>1. id[c] \in Id
        BY <2>2, <1>w DEF WriteData
      <3> QED
        BY <2>2, <3>1 DEF WriteData, engine
    <2>3. CASE WriteDataFails(c)
      BY <2>3 DEF WriteDataFails, engine, storage
    <2>4. CASE WriteMeta(c)
      BY <2>4 DEF WriteMeta, engine
    <2>5. CASE WriteMetaFails(c)
      BY <2>5 DEF WriteMetaFails, engine, storage
    <2>6. CASE Undo(c)
      BY <2>6 DEF Undo, engine
    <2>7. CASE ListKeys(c)
      BY <2>7 DEF ListKeys, engine, storage
    <2>8. CASE ReadMetas(c)
      BY <2>8 DEF ReadMetas, engine, storage
    <2>9. CASE DeleteData(c)
      <3>1. \A b \in Id : data'[b] \in {data[b], None}
        BY <2>9 DEF DeleteData
      <3> QED
        BY <2>9, <3>1 DEF DeleteData, engine
    <2>10. CASE DeleteMeta(c)
      BY <2>10 DEF DeleteMeta, engine
    <2>11. CASE SafetyBackup(c)
      BY <1>5, <2>11 DEF SafetyBackup
    <2>12. CASE RestoreConfig(c)
      BY <1>6, <2>12 DEF RestoreConfig
    <2>13. ASSUME NEW b \in Id, RestoreBackup(c, b) PROVE WorkInv'
      BY <2>13 DEF RestoreBackup, engine, storage
    <2>14. CASE TakeTime(c)
      <3>1. /\ id'[c] = next /\ pc'[c] = "marshal" /\ pc[c] = "stamp"
            /\ next' = next + 1
            /\ \A d \in Caller : d # c => id'[d] = id[d] /\ pc'[d] = pc[d]
            /\ UNCHANGED <<snap, overtaken, config, data, complete, late>>
        BY <2>14 DEF TakeTime, engine, storage
      <3>2. PointsToOwn' /\ (\A b \in late' : b < next')
        BY <3>1
      <3>3. ASSUME NEW d \in Caller, IsCurrent(d)'
            PROVE  /\ id'[d] \notin late'
                   /\ \A b \in Id : b >= id'[d] =>
                         data'[b] \in {None, config'} \/ b \in late'
                   /\ \A e \in Caller :
                         pc'[e] = "data" /\ id'[e] >= id'[d] =>
                             snap'[e] = config' \/ id'[e] \in late'
                   /\ pc'[d] \notin Writing => id'[d] \in complete'
        <4>1. CASE d = c
          <5>1. \A b \in Id : b >= next => data[b] = None
            BY <1>n
          <5>2. \A e \in Caller : pc[e] = "data" => ~ (id[e] >= next)
            <6> SUFFICES ASSUME NEW e \in Caller, pc[e] = "data"
                         PROVE  ~ (id[e] >= next)
              OBVIOUS
            <6>1. id[e] \in Nat /\ id[e] # None
              BY <1>w
            <6> QED
              BY <6>1, <1>n
          <5>3. next \notin late
            OBVIOUS
          <5> QED
            BY <4>1, <3>1, <5>1, <5>2, <5>3
        <4>2. CASE d # c
          BY <4>2, <3>1, <3>3
        <4> QED
          BY <4>1, <4>2
      <3> QED
        BY <3>2, <3>3
    <2>15. CASE Marshal(c)
      <3>1. /\ snap'[c] = Pointed(c) /\ pc[c] = "marshal" /\ pc'[c] = "data"
            /\ late' = IF Pointed(c) = config THEN late
                       ELSE late \union {id[c]}
            /\ \A d \in Caller : d # c => snap'[d] = snap[d] /\ pc'[d] = pc[d]
            /\ UNCHANGED <<id, next, overtaken, config, data, complete>>
        BY <2>15 DEF Marshal, engine, storage
      <3>2. PointsToOwn'
        BY <3>1
      <3>3. \A b \in late' : b < next'
        BY <3>1, <1>n, <1>w
      <3>4. ~ overtaken[c] => Pointed(c) = config
        BY <3>1 DEF Pointed
      <3>5. ASSUME NEW d \in Caller, IsCurrent(d)'
            PROVE  /\ id'[d] \notin late'
                   /\ \A b \in Id : b >= id'[d] =>
                         data'[b] \in {None, config'} \/ b \in late'
                   /\ \A e \in Caller :
                         pc'[e] = "data" /\ id'[e] >= id'[d] =>
                             snap'[e] = config' \/ id'[e] \in late'
                   /\ pc'[d] \notin Writing => id'[d] \in complete'
        <4>1. IsCurrent(d)
          BY <3>1, <3>5
        <4>2. id[d] = id[c] => d = c
          <5>1. pc[d] \notin Writing => id[d] \in complete
            BY <4>1
          <5>2. id[c] \notin complete
            BY <3>1 DEF IInv, OwnIds
          <5> QED
            BY <3>1, <5>1, <5>2, <1>o
        <4>3. id'[d] \notin late'
          BY <3>1, <3>4, <4>1, <4>2
        <4>4. snap'[c] = config' \/ id'[c] \in late'
          BY <3>1
        <4> QED
          BY <3>1, <4>1, <4>3, <4>4
      <3> QED
        BY <3>2, <3>3, <3>5
    <2> QED
      BY <1>2, <2>1, <2>2, <2>3, <2>4, <2>5, <2>6, <2>7, <2>8, <2>9, <2>10,
         <2>11, <2>12, <2>13, <2>14, <2>15 DEF Call
  <1>3. ASSUME NEW v \in Value, Change(v) PROVE WorkInv'
    BY <1>3, <1>6 DEF Change
  <1>4. CASE Crash
    BY <1>4 DEF Crash
  <1> QED
    BY <1>1, <1>2, <1>3, <1>4 DEF Next

\* The configuration that a safety backup was taken of stays in a listed
\* backup until the restore replaces it, unless late ones pushed it out.
THEOREM RestoreKeepsTheWork == Spec => []RestoreKeepsWork
  <1>1. Init => WorkInv
    BY DEF Init, WorkInv, PointsToOwn, IsCurrent, Writing, Cleaning, Deleting
  <1>2. IInv /\ WorkInv => RestoreKeepsWork
    <2> SUFFICES ASSUME IInv, WorkInv, NEW c \in Caller,
                        pc[c] = "restore", id[c] # None, ~ overtaken[c],
                        \A b \in meta : data[b] # config
                 PROVE  /\ Keep > 0
                        /\ Cardinality(Newer(id[c]) \intersect late) >= Keep
      BY DEF RestoreKeepsWork
    <2> DEFINE N == Newer(id[c])
               T == N \intersect late
    <2>1. /\ id[c] \in complete
          /\ id[c] \notin late
          /\ \A b \in Id : b >= id[c] => data[b] \in {None, config} \/ b \in late
      BY DEF WorkInv, IsCurrent, Writing
    <2>2. complete \subseteq Id /\ meta \subseteq complete /\ Id \subseteq Nat
      BY IdsAreFinite DEF IInv, TypeOK
    <2>3. id[c] \in Nat /\ N \subseteq Id /\ T \subseteq Id
      BY <2>1, <2>2 DEF Newer
    <2>4. /\ IsFiniteSet(T) /\ Cardinality(T) \in Nat
          /\ IsFiniteSet(N) /\ Cardinality(N) \in Nat
      BY <2>3, IdsAreFinite, FS_CardinalityType
    \* c's own backup is not listed with its data any more.
    <2>5. Superseded(id[c])
      <3>1. id[c] \in meta => data[id[c]] = None
        <4>1. id[c] \in Id /\ id[c] >= id[c]
          BY <2>1, <2>2, <2>3
        <4> QED
          BY <2>1, <4>1
      <3> QED
        BY <2>1, <3>1 DEF IInv, LostIsSuperseded
    <2>6. Keep > 0 /\ Cardinality(N) >= Keep
      BY <2>5 DEF Superseded
    <2>7. CASE N \subseteq late
      BY <2>6, <2>7 
    \* The newest that is not late has no data, so Keep newer ones are listed.
    <2>8. CASE ~ (N \subseteq late)
      <3>1. N \ late \subseteq Id /\ N \ late # {}
        BY <2>3, <2>8
      <3>2. PICK m \in N \ late : \A n \in N \ late : n <= m
        <4> HIDE DEF N
        <4> QED
          BY <3>1, NewestExists
      <3>3. m \in meta /\ m > id[c] /\ m \in Id /\ m \in Nat
        BY <3>2, <2>2 DEF Newer
      <3>4. data[m] = None
        BY <3>2, <3>3, <2>1, <2>3
      <3>5. Superseded(m)
        BY <3>3, <3>4, <2>2 DEF IInv, LostIsSuperseded
      <3>6. Newer(m) \subseteq T
        <4> SUFFICES ASSUME NEW n \in meta, n > m PROVE n \in T
          BY DEF Newer
        <4>1. n \in Nat /\ n > id[c]
          BY <2>2, <2>3, <3>3
        <4>2. n \in N
          BY <4>1 DEF Newer
        <4> QED
          BY <4>1, <4>2, <3>2, <3>3
      <3>7. Cardinality(Newer(m)) <= Cardinality(T)
        BY <2>4, <3>6, FS_Subset
      <3>8. Cardinality(Newer(m)) \in Nat
        BY <2>2, AboveIsFinite, NewerIsAbove
      <3> QED
        BY <2>4, <3>5, <3>7, <3>8, KeepIsNat DEF Superseded
    <2> QED
      BY <2>7, <2>8
  <1> QED
    BY <1>1, <1>2, IInvAlways, InitIInv, IInvStep, WorkStep, PTL DEF Spec

-----------------------------------------------------------------------------
(* What is listed when nothing fails and the two keys are one place *)

\* c will leave no more than Keep of what is listed now.
Shortens(c) ==
    \/ pc[c] = "list"
    \/ pc[c] = "read" /\ meta \subseteq todo[c]
    \/ pc[c] \in Deleting /\ Cardinality(meta \ todo[c]) <= Keep

\* Too long a list has a caller that will shorten it enough.
ShortSoon == Cardinality(meta) <= Keep \/ \E c \in Caller : Shortens(c)

BoundInv == OneKey /\ Clean /\ Keep > 0 => ShortSoon

\* A backup has one key only while somebody is about to write or to delete
\* the other.
MatchInv ==
    OneKey /\ Clean =>
        /\ \A c \in Caller : pc[c] # "undo"
        /\ \A b \in Id : data[b] # None /\ b \notin meta =>
              \E c \in Caller : pc[c] = "meta" /\ id[c] = b
        /\ \A b \in meta : data[b] = None =>
              \E c \in Caller : pc[c] = "deleteMeta" /\ Newest(todo[c]) = b
        /\ \A c \in Caller :
              pc[c] = "deleteMeta" => data[Newest(todo[c])] = None

LEMMA SmallerSubset ==
    ASSUME NEW T, T \subseteq Id, NEW S, S \subseteq T, Cardinality(T) <= Keep
    PROVE  Cardinality(S) <= Keep
  <1>1. IsFiniteSet(T) /\ IsFiniteSet(S)
    BY IdsAreFinite
  <1>2. Cardinality(S) \in Nat /\ Cardinality(T) \in Nat
    BY <1>1, FS_CardinalityType
  <1>3. Cardinality(S) <= Cardinality(T)
    BY <1>1, FS_Subset
  <1> QED
    BY <1>2, <1>3, KeepIsNat

LEMMA ShortensStill ==
    ASSUME meta \subseteq Id, meta' \subseteq meta, NEW c \in Caller,
           pc'[c] = pc[c], todo'[c] = todo[c], Shortens(c)
    PROVE  Shortens(c)'
  <1>1. CASE pc[c] = "list"
    BY <1>1 DEF Shortens
  <1>2. CASE pc[c] = "read" /\ meta \subseteq todo[c]
    BY <1>2 DEF Shortens
  <1>3. CASE pc[c] \in Deleting /\ Cardinality(meta \ todo[c]) <= Keep
    <2>1. Cardinality(meta' \ todo[c]) <= Keep
      BY <1>3, SmallerSubset
    <2> QED
      BY <1>3, <2>1 DEF Shortens
  <1> QED
    BY <1>1, <1>2, <1>3 DEF Shortens

\* A step that adds nothing to the list and moves no caller in the cleanup.
LEMMA ShortSoonStill ==
    ASSUME meta \subseteq Id, meta' \subseteq meta, ShortSoon,
           \A c \in Caller :
               Shortens(c) => pc'[c] = pc[c] /\ todo'[c] = todo[c]
    PROVE  ShortSoon'
  <1>1. CASE Cardinality(meta) <= Keep
    BY <1>1, SmallerSubset DEF ShortSoon
  <1>2. CASE \E c \in Caller : Shortens(c)
    BY <1>2, ShortensStill DEF ShortSoon
  <1> QED
    BY <1>1, <1>2 DEF ShortSoon

\* What a caller that saw the whole list leaves is short enough.
LEMMA ReadingShortens ==
    ASSUME meta \subseteq Id, NEW S, S \subseteq Id, meta \subseteq S
    PROVE  Cardinality(meta \ Outdated(S)) <= Keep
  <1> DEFINE T == {b \in meta : Cardinality(Above(meta, b)) < Keep}
  <1>1. IsFiniteSet(T) /\ Cardinality(T) <= Keep
    BY FewAreRetained, KeepIsNat
  <1>2. ASSUME NEW b \in meta, b \notin Outdated(S)
        PROVE  Cardinality(Above(meta, b)) < Keep
    <2>1. ~ (Cardinality(Above(S, b)) >= Keep)
      BY <1>2 DEF Outdated, Above
    <2>2. Above(meta, b) \subseteq Above(S, b)
      BY DEF Above
    <2>3. Cardinality(Above(meta, b)) <= Cardinality(Above(S, b))
      BY <2>2, AboveGrows
    <2> QED
      BY <2>1, <2>3, AboveIsFinite, KeepIsNat
  <1>3. meta \ Outdated(S) \subseteq T
    BY <1>2
  <1>4. T \subseteq Id
    OBVIOUS
  <1> HIDE DEF T
  <1> QED
    BY <1>1, <1>3, <1>4, SmallerSubset

LEMMA BoundStep == IInv /\ BoundInv /\ [Next]_vars => BoundInv'
  <1> SUFFICES ASSUME IInv, BoundInv, [Next]_vars, OneKey, Clean', Keep > 0
               PROVE  ShortSoon'
    BY DEF BoundInv
  <1>0. TypeOK' /\ TypeOK
    BY TypeStep DEF IInv
  <1>t. /\ pc \in [Caller -> PC] /\ todo \in [Caller -> SUBSET Id]
        /\ meta \subseteq Id /\ meta' \subseteq Id /\ Id \subseteq Nat
        /\ failures \in Nat /\ crashes \in Nat
    BY <1>0, IdsAreFinite DEF TypeOK
  <1>z. ~ Fail /\ ~ Crash
    BY <1>t DEF Clean, Fail, Crash
  <1>c. UNCHANGED <<failures, crashes>> => ShortSoon
    BY DEF BoundInv, Clean
  <1> USE KeepIsNat, <1>t, <1>z DEF PC, Goto, AfterBackup, Deleting, storage
  <1>1. CASE UNCHANGED vars
    BY <1>1, <1>c, ShortSoonStill DEF vars, calls, counters
  <1>2. ASSUME NEW c \in Caller, Call(c) PROVE ShortSoon'
    <2>1. CASE CreateBackup(c)
      BY <2>1, <1>c, ShortSoonStill
      DEF CreateBackup, TakePointer, Shortens, counters
    <2>2. CASE WriteData(c)
      BY <2>2, <1>c, ShortSoonStill DEF WriteData, Shortens, counters
    <2>3. CASE WriteDataFails(c)
      BY <2>3 DEF WriteDataFails
    <2>4. CASE WriteMeta(c)
      <3>1. pc'[c] = "list"
        BY <2>4 DEF WriteMeta
      <3> QED
        BY <3>1 DEF ShortSoon, Shortens
    <2>5. CASE WriteMetaFails(c)
      BY <2>5 DEF WriteMetaFails
    <2>6. CASE Undo(c)
      BY <2>6, <1>c, ShortSoonStill DEF Undo, Shortens
    <2>7. CASE ListKeys(c)
      <3>1. pc'[c] = "read" /\ todo'[c] = meta /\ meta' = meta
        BY <2>7 DEF ListKeys
      <3> QED
        BY <3>1 DEF ShortSoon, Shortens
    <2>8. CASE ReadMetas(c)
      <3>1. PICK S \in SUBSET todo[c] :
               /\ todo[c] \intersect meta \subseteq S /\ UNCHANGED failures
               /\ todo' = [todo EXCEPT ![c] = Outdated(S)]
               /\ Goto(c, IF Outdated(S) = {} THEN AfterBackup(c)
                          ELSE "deleteData")
        BY ONLY <2>8, <1>z, Zenon DEF ReadMetas
      <3>2. UNCHANGED <<meta, crashes>> /\ pc[c] = "read"
        BY <2>8 DEF ReadMetas
      <3>3. CASE meta \subseteq todo[c]
        <4>1. Cardinality(meta \ Outdated(S)) <= Keep
          BY <3>1, <3>3, ReadingShortens
        <4>2. CASE Outdated(S) = {}
          <5>1. meta \ Outdated(S) = meta'
            BY <3>2, <4>2
          <5> QED
            BY <4>1, <5>1 DEF ShortSoon
        <4>3. CASE Outdated(S) # {}
          <5>1. pc'[c] = "deleteData" /\ todo'[c] = Outdated(S)
            BY <3>1, <4>3
          <5> QED
            BY <3>2, <4>1, <5>1 DEF ShortSoon, Shortens
        <4> QED
          BY <4>2, <4>3
      <3>4. CASE ~ (meta \subseteq todo[c])
        <4>1. ~ Shortens(c)
          BY <3>2, <3>4 DEF Shortens
        <4> QED
          BY <3>1, <3>2, <4>1, <1>c, ShortSoonStill
      <3> QED
        BY <3>3, <3>4
    <2>9. CASE DeleteData(c)
      <3>1. /\ ShortSoon /\ meta' = meta /\ todo' = todo
            /\ pc[c] \in Deleting /\ pc'[c] \in Deleting
            /\ \A d \in Caller : d # c => pc'[d] = pc[d]
        BY <2>9, <1>c DEF DeleteData
      <3>2. CASE Shortens(c)
        <4>1. Shortens(c)'
          BY <3>1, <3>2 DEF Shortens
        <4> QED
          BY <4>1 DEF ShortSoon
      <3>3. CASE ~ Shortens(c)
        BY <3>1, <3>3, ShortSoonStill
      <3> QED
        BY <3>2, <3>3
    <2>10. CASE DeleteMeta(c)
      <3> DEFINE b == Newest(todo[c])
      <3>1. /\ ShortSoon /\ meta' = meta \ {b} /\ pc[c] = "deleteMeta"
            /\ todo' = [todo EXCEPT ![c] = @ \ {b}]
            /\ pc' = [pc EXCEPT ![c] = IF todo[c] = {b} THEN AfterBackup(c)
                                       ELSE "deleteData"]
        BY <2>10, <1>c DEF DeleteMeta
      <3>2. todo[c] # {} /\ todo[c] \subseteq Id
        BY <3>1, <1>0 DEF TypeOK
      <3>3. b \in todo[c]
        BY <3>2, NewestExists
      <3> HIDE DEF b
      <3>4. meta' \ todo'[c] = meta \ todo[c]
        BY <3>1, <3>3
      <3>5. CASE Shortens(c)
        <4>1. Cardinality(meta \ todo[c]) <= Keep
          BY <3>1, <3>5 DEF Shortens
        <4>2. CASE todo[c] = {b}
          <5>1. meta' = meta \ todo[c]
            BY <3>1, <4>2
          <5> QED
            BY <4>1, <5>1 DEF ShortSoon
        <4>3. CASE todo[c] # {b}
          <5>1. pc'[c] = "deleteData"
            BY <3>1, <4>3
          <5>2. Shortens(c)'
            BY <3>4, <4>1, <5>1 DEF Shortens
          <5> QED
            BY <5>2 DEF ShortSoon
        <4> QED
          BY <4>2, <4>3
      <3>6. CASE ~ Shortens(c)
        BY <3>1, <3>6, ShortSoonStill
      <3> QED
        BY <3>5, <3>6
    <2>11. CASE SafetyBackup(c)
      BY <2>11, <1>c, ShortSoonStill
      DEF SafetyBackup, TakePointer, Shortens, counters
    <2>12. CASE RestoreConfig(c)
      BY <2>12, <1>c, ShortSoonStill DEF RestoreConfig, Assign, Shortens
    <2>13. ASSUME NEW b \in Id, RestoreBackup(c, b) PROVE ShortSoon'
      BY <2>13, <1>c, ShortSoonStill DEF RestoreBackup, Shortens, counters
    <2>14. CASE TakeTime(c)
      BY <2>14, <1>c, ShortSoonStill DEF TakeTime, Shortens, counters
    <2>15. CASE Marshal(c)
      BY <2>15, <1>c, ShortSoonStill DEF Marshal, Shortens, counters
    <2> QED
      BY <1>2, <2>1, <2>2, <2>3, <2>4, <2>5, <2>6, <2>7, <2>8, <2>9, <2>10,
         <2>11, <2>12, <2>13, <2>14, <2>15 DEF Call
  <1>3. ASSUME NEW v \in Value, Change(v) PROVE ShortSoon'
    BY <1>3, <1>c, ShortSoonStill DEF Change, Assign
  <1> QED
    BY <1>1, <1>2, <1>3 DEF Next

\* Over file storage and without failures, the calls, however they overlap,
\* leave no more than MaxBackups backups listed.
THEOREM RetentionIsBounded ==
    ASSUME OneKey PROVE Spec => []RetentionBound
  <1>1. Init => BoundInv
    <2> SUFFICES ASSUME Init PROVE ShortSoon
      BY DEF BoundInv
    <2>1. Cardinality(meta) = 0
      BY FS_EmptySet DEF Init
    <2> QED
      BY <2>1, KeepIsNat DEF ShortSoon
  <1>2. BoundInv => RetentionBound
    BY DEF BoundInv, RetentionBound, ShortSoon, Shortens, Quiet, Deleting
  <1> QED
    BY <1>1, <1>2, IInvAlways, InitIInv, IInvStep, BoundStep, PTL DEF Spec

LEMMA MatchStep == IInv /\ MatchInv /\ [Next]_vars => MatchInv'
  <1> SUFFICES ASSUME IInv, MatchInv, [Next]_vars, OneKey, Clean'
               PROVE  MatchInv'
    BY DEF MatchInv
  <1>0. TypeOK' /\ TypeOK
    BY TypeStep DEF IInv
  <1>t. /\ pc \in [Caller -> PC] /\ todo \in [Caller -> SUBSET Id]
        /\ id \in [Caller -> Id \union {None}]
        /\ data \in [Id -> Value \union {None}]
        /\ meta \subseteq complete /\ complete \subseteq Id
        /\ failures \in Nat /\ crashes \in Nat
    BY <1>0 DEF TypeOK
  <1>w. \A c \in Caller :
           /\ pc[c] \in Writing => id[c] \in Id \ complete
           /\ pc[c] = "data" => snap[c] \in Value
    BY <1>0 DEF TypeOK, IInv, OwnIds, Writing
  <1>d. \A c \in Caller : pc[c] \in Deleting =>
           Newest(todo[c]) \in complete
    <2> SUFFICES ASSUME NEW c \in Caller, pc[c] \in Deleting
                 PROVE  Newest(todo[c]) \in complete
      OBVIOUS
    <2>1. todo[c] # {} /\ todo[c] \subseteq Id
      BY <1>0 DEF TypeOK
    <2>2. Newest(todo[c]) \in todo[c]
      BY <2>1, NewestExists
    <2> QED
      BY <2>2 DEF IInv, DoomedIsSuperseded
  <1>z. ~ Fail /\ ~ Crash
    BY <1>t DEF Clean, Fail, Crash
  <1>c. UNCHANGED <<failures, crashes>> => Clean
    BY DEF Clean
  <1> USE NoneIsNothing, KeepIsNat, <1>t, <1>z
      DEF MatchInv, PC, Goto, AfterBackup, storage
  <1>1. CASE UNCHANGED vars
    BY <1>1, <1>c DEF vars, calls, counters
  \* What changes neither keys nor who writes or deletes them.
  <1>5. ASSUME UNCHANGED <<meta, data, failures, crashes>>,
               \A c \in Caller :
                   IF pc[c] \in {"meta", "deleteMeta"}
                   THEN pc'[c] = pc[c] /\ id'[c] = id[c] /\ todo'[c] = todo[c]
                   ELSE /\ pc'[c] \notin {"meta", "deleteMeta"}
                        /\ pc'[c] = "undo" => pc[c] = "undo"
        PROVE  MatchInv'
    <2>1. Clean
      BY <1>5, <1>c
    <2>2. \A c \in Caller : pc'[c] # "undo"
      BY <1>5, <2>1
    <2>3. ASSUME NEW b \in Id, data[b] # None, b \notin meta
          PROVE  \E c \in Caller : pc'[c] = "meta" /\ id'[c] = b
      BY <1>5, <2>1, <2>3
    <2>4. ASSUME NEW b \in meta, data[b] = None
          PROVE  \E c \in Caller : pc'[c] = "deleteMeta" /\ Newest(todo'[c]) = b
      <3>1. PICK c \in Caller : pc[c] = "deleteMeta" /\ Newest(todo[c]) = b
        BY <2>1, <2>4
      <3> QED
        BY <1>5, <3>1
    <2>5. ASSUME NEW c \in Caller, pc'[c] = "deleteMeta"
          PROVE  data[Newest(todo'[c])] = None
      <3>1. pc[c] = "deleteMeta" /\ todo'[c] = todo[c]
        BY <1>5, <2>5
      <3> QED
        BY <2>1, <3>1
    <2> QED
      BY <1>5, <2>2, <2>3, <2>4, <2>5
  <1>2. ASSUME NEW c \in Caller, Call(c) PROVE MatchInv'
    <2>1. CASE CreateBackup(c)
      <3> HIDE DEF MatchInv
      <3> QED
        BY <2>1, <1>5 DEF CreateBackup, TakePointer, counters
    <2>2. CASE WriteData(c)
      <3>1. /\ Clean /\ id[c] \in Id \ complete /\ meta' = meta
            /\ data' = [data EXCEPT ![id[c]] = snap[c]] /\ snap[c] # None
            /\ pc' = [pc EXCEPT ![c] = "meta"] /\ id' = id /\ todo' = todo
            /\ pc[c] = "data"
        BY <2>2, <1>c, <1>w DEF WriteData, counters, Writing
      <3>2. ASSUME NEW d \in Caller, pc'[d] = "deleteMeta"
            PROVE  data'[Newest(todo'[d])] = None
        <4>1. pc[d] = "deleteMeta" /\ Newest(todo[d]) \in complete
          BY <3>1, <3>2, <1>d DEF Deleting
        <4> QED
          BY <3>1, <4>1
      <3>3. ASSUME NEW b \in meta, data'[b] = None
            PROVE  \E d \in Caller :
                      pc'[d] = "deleteMeta" /\ Newest(todo'[d]) = b
        <4>1. data[b] = None
          BY <3>1, <3>3
        <4>2. PICK d \in Caller : pc[d] = "deleteMeta" /\ Newest(todo[d]) = b
          BY <3>1, <4>1
        <4> QED
          BY <3>1, <4>2
      <3>4. ASSUME NEW b \in Id, data'[b] # None, b \notin meta
            PROVE  \E d \in Caller : pc'[d] = "meta" /\ id'[d] = b
        BY <3>1, <3>4
      <3> QED
        BY <3>1, <3>2, <3>3, <3>4
    <2>3. CASE WriteDataFails(c)
      BY <2>3 DEF WriteDataFails
    <2>4. CASE WriteMeta(c)
      <3>1. /\ Clean /\ meta' = meta \union {id[c]} /\ data' = data
            /\ id' = id /\ todo' = todo /\ pc[c] = "meta"
            /\ data[id[c]] # None
            /\ pc'[c] \notin {"meta", "deleteMeta", "undo"}
            /\ \A d \in Caller : d # c => pc'[d] = pc[d]
        BY <2>4, <1>c DEF WriteMeta, counters, IInv, DataBeforeMeta
      <3>2. ASSUME NEW b \in meta', data'[b] = None
            PROVE  \E d \in Caller :
                      pc'[d] = "deleteMeta" /\ Newest(todo'[d]) = b
        <4>1. b \in meta /\ data[b] = None
          BY <3>1, <3>2
        <4>2. PICK d \in Caller : pc[d] = "deleteMeta" /\ Newest(todo[d]) = b
          BY <3>1, <4>1
        <4> QED
          BY <3>1, <4>2
      <3> QED
        BY <3>1, <3>2
    <2>5. CASE WriteMetaFails(c)
      BY <2>5 DEF WriteMetaFails
    <2>6. CASE Undo(c)
      BY <2>6, <1>c DEF Undo
    <2>7. CASE ListKeys(c)
      <3> HIDE DEF MatchInv
      <3> QED
        BY <2>7, <1>5 DEF ListKeys
    <2>8. CASE ReadMetas(c)
      <3>1. UNCHANGED failures
        BY ONLY <2>8, <1>z, Zenon DEF ReadMetas
      <3>2. PICK S : /\ todo' = [todo EXCEPT ![c] = Outdated(S)]
                     /\ Goto(c, IF Outdated(S) = {} THEN AfterBackup(c)
                                ELSE "deleteData")
        BY ONLY <2>8, Zenon DEF ReadMetas
      <3>3. /\ pc[c] = "read"
            /\ UNCHANGED <<meta, data, crashes, id>>
        BY <2>8 DEF ReadMetas
      <3>4. /\ pc'[c] \notin {"meta", "deleteMeta", "undo"}
            /\ \A d \in Caller : d # c => pc'[d] = pc[d] /\ todo'[d] = todo[d]
        BY <3>2
      <3> HIDE DEF MatchInv
      <3> QED
        BY <3>1, <3>3, <3>4, <1>5
    <2>9. CASE DeleteData(c)
      <3>1. /\ Clean /\ meta' = meta /\ id' = id /\ todo' = todo
            /\ data' = [data EXCEPT ![Newest(todo[c])] = None]
            /\ pc[c] = "deleteData"
            /\ pc' = [pc EXCEPT ![c] = "deleteMeta"]
        BY <2>9, <1>c DEF DeleteData
      <3>2. Newest(todo[c]) \in Id
        BY <3>1, <1>d DEF Deleting
      <3>3. ASSUME NEW b \in meta, data'[b] = None
            PROVE  \E d \in Caller :
                      pc'[d] = "deleteMeta" /\ Newest(todo'[d]) = b
        <4>1. CASE b = Newest(todo[c])
          BY <3>1, <4>1
        <4>2. CASE b # Newest(todo[c])
          <5>1. PICK d \in Caller : pc[d] = "deleteMeta" /\ Newest(todo[d]) = b
            BY <3>1, <3>3, <4>2
          <5> QED
            BY <3>1, <5>1
        <4> QED
          BY <4>1, <4>2
      <3>4. ASSUME NEW d \in Caller, pc'[d] = "deleteMeta"
            PROVE  data'[Newest(todo'[d])] = None
        <4>1. CASE d = c
          BY <3>1, <3>2, <4>1
        <4>2. CASE d # c
          <5>1. pc[d] = "deleteMeta" /\ data[Newest(todo[d])] = None
            BY <3>1, <3>4, <4>2
          <5>2. Newest(todo[d]) \in Id
            BY <5>1, <1>d DEF Deleting
          <5> QED
            BY <3>1, <5>1, <5>2
        <4> QED
          BY <4>1, <4>2
      <3>5. ASSUME NEW b \in Id, data'[b] # None, b \notin meta
            PROVE  \E d \in Caller : pc'[d] = "meta" /\ id'[d] = b
        <4>1. data[b] # None
          BY <3>1, <3>5
        <4>2. PICK d \in Caller : pc[d] = "meta" /\ id[d] = b
          BY <3>1, <3>5, <4>1
        <4> QED
          BY <3>1, <4>2
      <3> QED
        BY <3>1, <3>3, <3>4, <3>5
    <2>10. CASE DeleteMeta(c)
      <3> DEFINE b == Newest(todo[c])
      <3>1. /\ Clean /\ meta' = meta \ {b} /\ data' = data /\ id' = id
            /\ pc[c] = "deleteMeta"
            /\ pc'[c] \notin {"meta", "deleteMeta", "undo"}
            /\ \A d \in Caller : d # c => pc'[d] = pc[d] /\ todo'[d] = todo[d]
        BY <2>10, <1>c DEF DeleteMeta
      <3>2. data[b] = None
        BY <3>1
      <3> HIDE DEF b
      <3>3. ASSUME NEW a \in meta, a # b, data[a] = None
            PROVE  \E d \in Caller :
                      pc'[d] = "deleteMeta" /\ Newest(todo'[d]) = a
        <4>1. PICK d \in Caller : pc[d] = "deleteMeta" /\ Newest(todo[d]) = a
          BY <3>1, <3>3
        <4>2. d # c
          BY <3>3, <4>1 DEF b
        <4> QED
          BY <3>1, <4>1, <4>2
      <3>4. ASSUME NEW a \in Id, data[a] # None, a \notin meta'
            PROVE  \E d \in Caller : pc'[d] = "meta" /\ id'[d] = a
        <4>1. a \notin meta
          BY <3>1, <3>2, <3>4
        <4>2. PICK d \in Caller : pc[d] = "meta" /\ id[d] = a
          BY <3>1, <3>4, <4>1
        <4> QED
          BY <3>1, <4>2
      <3>5. ASSUME NEW d \in Caller, pc'[d] = "deleteMeta"
            PROVE  data[Newest(todo'[d])] = None
        <4>1. pc[d] = "deleteMeta" /\ todo'[d] = todo[d]
          BY <3>1, <3>5
        <4> QED
          BY <3>1, <4>1
      <3> QED
        BY <3>1, <3>3, <3>4, <3>5
    <2>11. CASE SafetyBackup(c)
      <3> HIDE DEF MatchInv
      <3> QED
        BY <2>11, <1>5 DEF SafetyBackup, TakePointer, counters
    <2>12. CASE RestoreConfig(c)
      <3> HIDE DEF MatchInv
      <3> QED
        BY <2>12, <1>5 DEF RestoreConfig, Assign
    <2>13. ASSUME NEW b \in Id, RestoreBackup(c, b) PROVE MatchInv'
      <3> HIDE DEF MatchInv
      <3> QED
        BY <2>13, <1>5 DEF RestoreBackup, counters
    <2>14. CASE TakeTime(c)
      <3> HIDE DEF MatchInv
      <3> QED
        BY <2>14, <1>5 DEF TakeTime, counters
    <2>15. CASE Marshal(c)
      <3> HIDE DEF MatchInv
      <3> QED
        BY <2>15, <1>5 DEF Marshal, counters
    <2> QED
      BY <1>2, <2>1, <2>2, <2>3, <2>4, <2>5, <2>6, <2>7, <2>8, <2>9, <2>10,
         <2>11, <2>12, <2>13, <2>14, <2>15 DEF Call
  <1>3. ASSUME NEW v \in Value, Change(v) PROVE MatchInv'
    BY <1>3, <1>5, <1>c DEF Change, Assign
  <1> QED
    BY <1>1, <1>2, <1>3 DEF Next

\* Over file storage and without failures, between the calls the list is
\* exactly the backups that can be restored.
THEOREM ListMatchesStorage ==
    ASSUME OneKey PROVE Spec => []StorageMatchesList
  <1>1. Init => MatchInv
    BY DEF Init, MatchInv
  <1>2. IInv /\ MatchInv => StorageMatchesList
    <2> SUFFICES ASSUME IInv, MatchInv, Quiet, Clean
                 PROVE  meta = {b \in Id : data[b] # None}
      BY DEF StorageMatchesList
    <2>1. meta \subseteq Id
      BY DEF IInv, TypeOK
    <2> QED
      BY <2>1 DEF MatchInv, Quiet
  <1> QED
    BY <1>1, <1>2, IInvAlways, InitIInv, IInvStep, MatchStep, PTL DEF Spec
=============================================================================

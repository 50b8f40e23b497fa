--------------------------- MODULE AutoSync_proof ---------------------------
(***************************************************************************)
(* Proofs about AutoSync for any callers, destinations, syncs and bounds.  *)
(*                                                                         *)
(* BaseInv needs nothing of the callers: types, who is inside Start, and   *)
(* which stop channels can be closed.  SerialInv adds, for callers that    *)
(* wait for each other, what is open and alive at every point of a call.   *)
(* FlagInv adds, when nobody else writes the file, the persisted flag.     *)
(***************************************************************************)
EXTENDS AutoSync, TLAPS

\* SetConfig starts at most one goroutine per version.
KicksBounded == kicks <= lastVer

\* asm.mu is held exactly by the caller inside Start.
MuMatchesPC == \A c \in Caller : pc[c] \in StartPC <=> mu = c

\* The manager's watcher is the newest one.
WatcherIsNewest == watcher = IF starts = 0 THEN None ELSE starts

\* A manager with its lock free and running has the newest stop channel, which
\* is open; so has a Start that has made it, and before that it is unused.
ChannelFresh ==
    /\ \A g \in stopped : g <= starts
    /\ mu # None => isRunning
    /\ isRunning => starts > 0
    /\ isRunning => starts \notin stopped
    /\ isRunning /\ (\A c \in Caller : pc[c] # "startChan") => stopChan = starts

BaseInv == TypeOK /\ KicksBounded /\ MuMatchesPC /\ WatcherIsNewest /\ ChannelFresh

LEMMA BoundsAreNat ==
    MaxStarts \in Nat /\ MaxVersion \in Nat /\ MaxFailures \in Nat
  BY AutoSyncAssumption DEF AutoSyncAssumption

LEMMA NoneIsNobody == None \notin Caller /\ None \notin Nat
  BY AutoSyncAssumption DEF AutoSyncAssumption

LEMMA BaseInit == Init => BaseInv
  <1> SUFFICES ASSUME Init PROVE BaseInv
    OBVIOUS
  <1> USE BoundsAreNat, NoneIsNobody DEF Init
  <1>1. TypeOK
    <2>0. 0 \in 0..MaxStarts /\ 0 \in 0..MaxVersion /\ 0 \in 0..MaxFailures
      OBVIOUS
    <2>1. pc \in [Caller -> {"idle"} \union StartPC \union StopPC]
      OBVIOUS
    <2>2. loop \in [Gen -> [pc : LoopPC, chan : Gen \union {None},
                            watch : Gen \union {None}]]
      BY DEF NoLoop, LoopPC
    <2>3. sync \in [Syncer -> [pc : SyncPC, todo : SUBSET Dest, snap : Content]]
      BY DEF NoSync, SyncPC, Content, Version
    <2>4. mem \in Config /\ file \in Config \union {Garbled, Absent}
      <3>1. [ver |-> 0, enabled |-> FALSE] \in Config
        BY DEF Config, Content, Version
      <3> QED
        BY <3>1
    <2>5. dest \in [Dest -> Content]
      BY DEF Content, Version
    <2> QED
      BY <2>0, <2>1, <2>2, <2>3, <2>4, <2>5
      DEF TypeOK, ManagerTypeOK, LoopTypeOK, SyncTypeOK, FileTypeOK, Version
  <1>2. KicksBounded /\ MuMatchesPC /\ WatcherIsNewest /\ ChannelFresh
    BY DEF KicksBounded, MuMatchesPC, WatcherIsNewest, ChannelFresh, StartPC
  <1> QED
    BY <1>1, <1>2 DEF BaseInv

\* A write of the file keeps the types of what it touches.
LEMMA WriteTypes ==
    ASSUME TypeOK, NEW content \in Config \union {Garbled},
           WriteFile(content) \/ ReplaceFile(content),
           UNCHANGED <<open, dirs>>
    PROVE  /\ file' \in Config \union {Garbled, Absent}
           /\ event' \in SUBSET open'
           /\ changed' \in BOOLEAN
           /\ watching' \in SUBSET open'
  <1> USE DEF TypeOK, ManagerTypeOK, FileTypeOK
  <1>1. NewContent(content) /\ (watching' = watching \/ watching' = {})
    BY DEF WriteFile, ReplaceFile
  <1>2. file' = content /\ event' = event \union watching \union dirs
    BY <1>1 DEF NewContent
  <1>3. changed' \in BOOLEAN
    BY <1>1 DEF NewContent
  <1>4. watching' \in SUBSET open'
    BY <1>1
  <1> QED
    BY <1>2, <1>3, <1>4

\* What comes of a save: the new configuration, or a failure more.
LEMMA SaveTypes ==
    ASSUME TypeOK, mem' \in Config, Save(mem'), UNCHANGED <<open, dirs>>
    PROVE  /\ file' \in Config \union {Garbled, Absent}
           /\ event' \in SUBSET open'
           /\ changed' \in BOOLEAN
           /\ watching' \in SUBSET open'
           /\ failures' \in 0..MaxFailures
           /\ \/ file' = mem' /\ failures' = failures
              \/ failures' = failures + 1
  <1> USE BoundsAreNat DEF TypeOK, ManagerTypeOK, FileTypeOK
  <1>1. CASE UNCHANGED failures /\ (WriteFile(mem') \/ ReplaceFile(mem'))
    <2>1. file' = mem'
      BY <1>1 DEF WriteFile, ReplaceFile, NewContent
    <2> QED
      BY <1>1, <2>1, WriteTypes
  <1>2. CASE HalfSave
    <2>1. failures' = failures + 1 /\ failures' \in 0..MaxFailures
      BY <1>2 DEF HalfSave, Fail, CanFail
    <2>2. CASE WriteFile(Garbled)
      BY <2>1, <2>2, WriteTypes
    <2>3. CASE UNCHANGED <<file, event, changed, watching>>
      BY <2>1, <2>3
    <2>4. CASE event' = event \union dirs /\ UNCHANGED <<file, changed, watching>>
      BY <2>1, <2>4
    <2> QED
      BY <1>2, <2>2, <2>3, <2>4 DEF HalfSave
  <1> QED
    BY <1>1, <1>2 DEF Save

\* The actions that change the configuration.
Changing == \/ Update \/ SetConfig \/ RestoreBackup
            \/ EditBegin \/ EditEnd \/ EditReplaces

LEMMA ChangeTypes ==
    ASSUME TypeOK, Changing
    PROVE  FileTypeOK' /\ watching' \in SUBSET open'
  <1> USE DEF TypeOK, FileTypeOK
  <1>1. UNCHANGED <<open, dirs>>
    BY DEF Changing, Update, SetConfig, RestoreBackup, Replace, EditBegin,
      EditEnd, EditReplaces
  <1>2. NewVersion => lastVer' \in Version /\ lastVer' \in Content
    BY BoundsAreNat DEF NewVersion, Version, Content
  <1>3. CASE Update
    <2>1. mem' \in Config
      BY <1>2, <1>3 DEF Update, Config
    <2>2. Save(mem') /\ UNCHANGED <<edit, overruled>> /\ lastVer' \in Version
      BY <1>2, <1>3 DEF Update
    <2> QED
      BY <1>1, <2>1, <2>2, SaveTypes
  <1>4. CASE Replace
    <2>1. mem' \in Config
      BY <1>2, <1>4 DEF Replace, Config
    <2>2. Save(mem') /\ UNCHANGED edit /\ lastVer' \in Version
      BY <1>2, <1>4 DEF Replace
    <2>3. overruled' \in BOOLEAN
      <3>1. overruled' = (overruled \/ mem'.enabled # mem.enabled)
        BY <1>4 DEF Replace
      <3> QED
        BY ONLY <3>1
    <2> QED
      BY <1>1, <2>1, <2>2, <2>3, SaveTypes
  <1>5. CASE EditBegin
    <2>1. file \in Config /\ edit' \in Config /\ lastVer' \in Version
      BY <1>2, <1>5 DEF EditBegin, Config
    <2>2. WriteFile(Garbled) /\ UNCHANGED <<mem, overruled, failures>>
      BY <1>5 DEF EditBegin, outcome
    <2> QED
      BY <1>1, <2>1, <2>2, WriteTypes
  <1>6. CASE EditEnd
    <2>1. edit \in Config /\ edit' = None /\ WriteFile(edit)
      BY <1>6 DEF EditEnd
    <2>2. UNCHANGED <<mem, lastVer, overruled, failures>>
      BY <1>6 DEF EditEnd, outcome
    <2> QED
      BY <1>1, <2>1, <2>2, WriteTypes
  <1>7. CASE EditReplaces
    <2>1. file \in Config /\ [file EXCEPT !.ver = lastVer'] \in Config
      BY <1>2, <1>7 DEF EditReplaces, Config
    <2>2. lastVer' \in Version /\ ReplaceFile([file EXCEPT !.ver = lastVer'])
      BY <1>2, <1>7 DEF EditReplaces
    <2>3. UNCHANGED <<mem, edit, overruled, failures>>
      BY <1>7 DEF EditReplaces, outcome
    <2> QED
      BY <1>1, <2>1, <2>2, <2>3, WriteTypes
  <1> QED
    BY <1>3, <1>4, <1>5, <1>6, <1>7 DEF Changing, SetConfig, RestoreBackup

LEMMA ManagerTypeStep == BaseInv /\ [Next]_vars => ManagerTypeOK'
  <1> SUFFICES ASSUME BaseInv, [Next]_vars PROVE ManagerTypeOK'
    OBVIOUS
  <1> USE DEF BaseInv, ManagerTypeOK, At, LoopAt, Goto, manager, setting,
      watchers, outcome, StartPC, StopPC
  <1>0. ManagerTypeOK /\ TypeOK
    BY DEF TypeOK
  <1>1. ASSUME NEW c \in Caller, StartCall(c) PROVE ManagerTypeOK'
    <2>1. starts + 1 \in Gen /\ starts' \in 0..MaxStarts
      BY <1>0, <1>1, BoundsAreNat DEF StartCall, Gen
    <2>2. /\ open' \in SUBSET Gen
          /\ watching' \in SUBSET open' /\ dirs' \in SUBSET open'
      BY <1>0, <1>1, <2>1 DEF StartCall
    <2>3. pc' \in [Caller -> {"idle"} \union StartPC \union StopPC]
      BY <1>0, <1>1 DEF StartCall
    <2> QED
      BY <1>0, <1>1, <2>1, <2>2, <2>3 DEF StartCall
  <1>2. ASSUME NEW c \in Caller, StartChan(c) PROVE ManagerTypeOK'
    BY <1>0, <1>2 DEF StartChan
  <1>3. ASSUME NEW c \in Caller, StartPersist(c) PROVE ManagerTypeOK'
    <2>1. mem' \in Config
      BY <1>0, <1>3 DEF StartPersist, TypeOK, FileTypeOK, Config
    <2>2. watching' \in SUBSET open'
      BY <1>0, <1>3, <2>1, SaveTypes DEF StartPersist
    <2> QED
      BY <1>0, <1>3, <2>2 DEF StartPersist
  <1>4. ASSUME NEW c \in Caller, StartWatch(c) PROVE ManagerTypeOK'
    <2>1. blind' \in BOOLEAN /\ dirs' \in SUBSET open'
      BY <1>0, <1>4 DEF StartWatch
    <2> QED
      BY <1>0, <1>4, <2>1 DEF StartWatch
  <1>15. ASSUME NEW c \in Caller, StartBlind(c) PROVE ManagerTypeOK'
    BY <1>0, <1>15 DEF StartBlind
  <1>5. ASSUME NEW c \in Caller, StartWatchFails(c) PROVE ManagerTypeOK'
    BY <1>0, <1>5 DEF StartWatchFails, CloseWatcher
  <1>6. ASSUME NEW c \in Caller, StartSpawn(c) PROVE ManagerTypeOK'
    BY <1>0, <1>6 DEF StartSpawn
  <1>7. ASSUME NEW c \in Caller, StopCall(c) PROVE ManagerTypeOK'
    <2>1. \A d \in Caller : pc[d] # "startChan"
      BY <1>7, NoneIsNobody DEF StopCall, MuMatchesPC
    <2>2. stopChan = starts /\ starts \in Gen
      BY <1>0, <1>7, <2>1, BoundsAreNat DEF StopCall, ChannelFresh, Gen
    <2>3. stopped' \in SUBSET Gen
      BY <1>0, <1>7, <2>2 DEF StopCall
    <2>4. isRunning' \in BOOLEAN
      BY <1>7 DEF StopCall
    <2>7. panicked' \in BOOLEAN
      <3>1. panicked' = (stopChan \in stopped)
        BY <1>7 DEF StopCall
      <3> QED
        BY ONLY <3>1
    <2>5. pc' \in [Caller -> {"idle"} \union StartPC \union StopPC]
      BY <1>0, <1>7 DEF StopCall
    <2>6. UNCHANGED <<mu, starts, watcher, stopChan, setting, watchers>>
      BY <1>7 DEF StopCall
    <2> QED
      BY <1>0, <2>3, <2>4, <2>5, <2>6, <2>7
  <1>8. ASSUME NEW c \in Caller, StopWait(c) PROVE ManagerTypeOK'
    BY <1>0, <1>8 DEF StopWait
  <1>9. ASSUME NEW c \in Caller, StopWake(c) PROVE ManagerTypeOK'
    BY <1>0, <1>9 DEF StopWake
  <1>10. ASSUME NEW c \in Caller, StopClose(c) PROVE ManagerTypeOK'
    BY <1>0, <1>10 DEF StopClose, CloseWatcher
  <1>11. ASSUME NEW c \in Caller, StopTimer(c) PROVE ManagerTypeOK'
    BY <1>0, <1>11 DEF StopTimer
  <1>12. ASSUME NEW c \in Caller, StopPersist(c) PROVE ManagerTypeOK'
    <2>1. mem' \in Config
      BY <1>0, <1>12 DEF StopPersist, TypeOK, FileTypeOK, Config
    <2>2. watching' \in SUBSET open'
      BY <1>0, <1>12, <2>1, SaveTypes DEF StopPersist
    <2> QED
      BY <1>0, <1>12, <2>2 DEF StopPersist
  <1>13. ASSUME NEW g \in Gen, LoopLeave(g) PROVE ManagerTypeOK'
    BY <1>0, <1>13 DEF LoopLeave
  <1>14. CASE UNCHANGED <<pc, mu, manager, watchers, panicked>>
    BY <1>0, <1>14
  <1>16. CASE Changing
    <2>1. watching' \in SUBSET open'
      BY <1>0, <1>16, ChangeTypes
    <2>2. UNCHANGED <<pc, mu, manager, open, dirs, blind, panicked>>
      BY <1>16 DEF Changing, Update, SetConfig, RestoreBackup, Replace,
          EditBegin, EditEnd, EditReplaces
    <2> QED
      BY <1>0, <2>1, <2>2
  <1> QED
    BY <1>1, <1>2, <1>3, <1>4, <1>5, <1>6, <1>7, <1>8, <1>9, <1>10, <1>11,
      <1>12, <1>13, <1>14, <1>15, <1>16 DEF Next, Changing, StartStep, StopStep,
      LoopStep, SyncStep, Fires, vars, LoopSelect, LoopEvent, LoopIgnore,
      LoopDebounce, KickDebounce, TimerFires, SyncLoad, SyncRead, SyncWrite,
      SyncFinish

LEMMA LoopTypeStep == BaseInv /\ [Next]_vars => LoopTypeOK'
  <1> SUFFICES ASSUME BaseInv, [Next]_vars PROVE LoopTypeOK'
    OBVIOUS
  <1> USE BoundsAreNat DEF BaseInv, TypeOK, ManagerTypeOK, LoopTypeOK, LoopAt, LoopPC,
      NoLoop
  <1>1. ASSUME NEW c \in Caller, StartSpawn(c) PROVE LoopTypeOK'
    <2>1. loop' = [loop EXCEPT ![watcher].pc = "select"]
      BY <1>1 DEF StartSpawn
    <2>2. LoopTypeOK
      OBVIOUS
    <2> QED
      BY ONLY <2>1, <2>2 DEF LoopTypeOK, LoopPC
  <1>2. ASSUME NEW g \in Gen, LoopSelect(g) PROVE LoopTypeOK'
    BY <1>2 DEF LoopSelect
  <1>3. ASSUME NEW g \in Gen, LoopLeave(g) PROVE LoopTypeOK'
    BY <1>3 DEF LoopLeave
  <1>4. ASSUME NEW g \in Gen, LoopEvent(g) PROVE LoopTypeOK'
    BY <1>4 DEF LoopEvent
  <1>5. ASSUME NEW g \in Gen, LoopIgnore(g) PROVE LoopTypeOK'
    BY <1>5 DEF LoopIgnore
  <1>6. ASSUME NEW g \in Gen, LoopDebounce(g) PROVE LoopTypeOK'
    BY <1>6 DEF LoopDebounce
  <1>7. CASE UNCHANGED loop
    BY <1>7
  <1> QED
    BY <1>1, <1>2, <1>3, <1>4, <1>5, <1>6, <1>7 DEF Next, StartStep,
      StopStep, LoopStep, SyncStep, Fires, vars, StartCall, StartChan,
      StartPersist, StartWatch, StartBlind, StartWatchFails, StopCall, StopWait,
      StopWake, StopClose, StopTimer, StopPersist, KickDebounce, TimerFires,
      SyncLoad, SyncRead, SyncWrite, SyncFinish, Update, SetConfig,
      RestoreBackup, Replace, EditBegin, EditEnd, EditReplaces

LEMMA SyncTypeStep == BaseInv /\ [Next]_vars => SyncTypeOK' /\ KicksBounded'
  <1> SUFFICES ASSUME BaseInv, [Next]_vars PROVE SyncTypeOK' /\ KicksBounded'
    OBVIOUS
  <1> USE DEF BaseInv, TypeOK, SyncTypeOK, FileTypeOK, KicksBounded, SyncAt,
      SyncTo, SyncPC, syncing, config
  <1>1. ASSUME NEW c \in Caller, StopTimer(c) PROVE SyncTypeOK' /\ KicksBounded'
    BY <1>1 DEF StopTimer
  <1>2. ASSUME NEW g \in Gen, LoopDebounce(g) PROVE SyncTypeOK' /\ KicksBounded'
    BY <1>2 DEF LoopDebounce, Rearm
  <1>3. CASE KickDebounce
    BY <1>3, BoundsAreNat DEF KickDebounce, Rearm, Version
  <1>4. ASSUME NEW s \in Syncer, TimerFires(s) PROVE SyncTypeOK' /\ KicksBounded'
    BY <1>4 DEF TimerFires
  <1>5. ASSUME NEW s \in Syncer, SyncLoad(s) PROVE SyncTypeOK' /\ KicksBounded'
    <2>1. 0 \in Content
      BY BoundsAreNat DEF Content, Version
    <2> QED
      BY <1>5, <2>1 DEF SyncLoad
  <1>6. ASSUME NEW s \in Syncer, SyncRead(s) PROVE SyncTypeOK' /\ KicksBounded'
    <2>1. mem.ver \in Content
      BY DEF Config
    <2> QED
      BY <1>6, <2>1 DEF SyncRead
  <1>7. ASSUME NEW s \in Syncer, SyncWrite(s) PROVE SyncTypeOK' /\ KicksBounded'
    BY <1>7 DEF SyncWrite
  <1>8. ASSUME NEW s \in Syncer, SyncFinish(s) PROVE SyncTypeOK' /\ KicksBounded'
    <2>1. NoSync \in [pc : SyncPC, todo : SUBSET Dest, snap : Content]
      BY BoundsAreNat DEF NoSync, Content, Version
    <2> QED
      BY <1>8, <2>1 DEF SyncFinish
  <1>9. CASE Update
    BY <1>9, BoundsAreNat DEF Update, NewVersion, Version
  <1>10. CASE SetConfig
    <2>1. kicks' \in {kicks, kicks + 1} /\ lastVer' = lastVer + 1
      BY <1>10 DEF SetConfig, Replace, NewVersion
    <2>2. lastVer < MaxVersion /\ UNCHANGED <<timer, sync, dest>>
      BY <1>10 DEF SetConfig, Replace, NewVersion
    <2> QED
      BY <2>1, <2>2, BoundsAreNat DEF Version
  <1>11. CASE RestoreBackup
    BY <1>11, BoundsAreNat DEF RestoreBackup, Replace, NewVersion, Version
  <1>12. CASE EditBegin \/ EditReplaces
    BY <1>12, BoundsAreNat DEF EditBegin, EditReplaces, NewVersion, Version
  <1>13. CASE UNCHANGED <<syncing, lastVer>>
    BY <1>13
  <1> QED
    BY <1>1, <1>2, <1>3, <1>4, <1>5, <1>6, <1>7, <1>8, <1>9, <1>10, <1>11,
      <1>12, <1>13 DEF Next, StartStep, StopStep, LoopStep, SyncStep, Fires,
      vars, StartCall, StartChan, StartPersist, StartWatch, StartBlind,
      StartWatchFails, StartSpawn, StopCall, StopWait, StopWake, StopClose,
      StopPersist, LoopSelect, LoopLeave, LoopEvent, LoopIgnore, EditEnd

LEMMA FileTypeStep == BaseInv /\ [Next]_vars => FileTypeOK'
  <1> SUFFICES ASSUME BaseInv, [Next]_vars PROVE FileTypeOK'
    OBVIOUS
  <1> USE BoundsAreNat DEF ManagerTypeOK, FileTypeOK, Fail, CanFail, files,
      config, watchers, manager, outcome
  <1>0. TypeOK /\ FileTypeOK /\ ManagerTypeOK
    BY DEF BaseInv, TypeOK
  <1>1. ASSUME NEW c \in Caller, StartPersist(c) \/ StopPersist(c)
        PROVE  FileTypeOK'
    <2>1. mem' \in Config /\ Save(mem') /\ UNCHANGED <<edit, lastVer, open, dirs>>
      BY <1>0, <1>1 DEF StartPersist, StopPersist, Config
    <2>2. overruled' \in BOOLEAN
      BY <1>1 DEF StartPersist, StopPersist
    <2> QED
      BY <1>0, <2>1, <2>2, SaveTypes
  <1>2. ASSUME NEW c \in Caller, StartCall(c) PROVE FileTypeOK'
    BY <1>0, <1>2 DEF StartCall
  <1>3. ASSUME NEW c \in Caller, StartWatch(c) PROVE FileTypeOK'
    BY <1>0, <1>3 DEF StartWatch
  <1>4. ASSUME NEW c \in Caller, StartWatchFails(c) PROVE FileTypeOK'
    BY <1>0, <1>4 DEF StartWatchFails, CloseWatcher
  <1>5. ASSUME NEW c \in Caller, StopClose(c) PROVE FileTypeOK'
    BY <1>0, <1>5 DEF StopClose, CloseWatcher
  <1>6. ASSUME NEW g \in Gen, LoopEvent(g) PROVE FileTypeOK'
    BY <1>0, <1>6 DEF LoopEvent
  <1>7. ASSUME NEW s \in Syncer, SyncLoad(s) PROVE FileTypeOK'
    <2>1. mem' \in Config
      <3>1. CASE mem' = mem
        BY <1>0, <3>1
      <3>2. CASE file \in Config /\ mem' \in {file, [file EXCEPT !.ver = Mixed]}
        BY <3>2 DEF Config, Content
      <3> QED
        BY <1>0, <1>7, <3>1, <3>2 DEF SyncLoad, Loaded
    <2> QED
      BY <1>0, <1>7, <2>1 DEF SyncLoad
  <1>8. ASSUME NEW s \in Syncer, SyncWrite(s) PROVE FileTypeOK'
    <2>1. event' \in SUBSET open' /\ failures' \in 0..MaxFailures
      BY <1>0, <1>8 DEF SyncWrite
    <2> QED
      BY <1>0, <1>8, <2>1 DEF SyncWrite
  <1>9. CASE Changing
    BY <1>0, <1>9, ChangeTypes
  <1>10. CASE UNCHANGED <<files, config, open, failures>>
    BY <1>0, <1>10
  <1> QED
    BY <1>1, <1>2, <1>3, <1>4, <1>5, <1>6, <1>7, <1>8, <1>9, <1>10
    DEF Next, Changing, StartStep, StopStep, LoopStep, SyncStep, Fires, vars,
      StartChan, StartBlind, StartSpawn, StopCall, StopWait, StopWake, StopTimer,
      LoopSelect, LoopLeave, LoopIgnore, LoopDebounce, KickDebounce, TimerFires,
      SyncRead, SyncFinish

-----------------------------------------------------------------------------
(* The lock, the newest watcher and the stop channels *)

LockInv == MuMatchesPC /\ WatcherIsNewest /\ ChannelFresh

\* The actions that change nothing LockInv speaks of.
LEMMA OtherSteps ==
    ASSUME [Next]_vars,
           \A c \in Caller : ~StartCall(c) /\ ~StopCall(c) /\ ~StartStep(c)
                              /\ ~StopStep(c),
           \A g \in Gen : ~LoopLeave(g)
    PROVE  UNCHANGED <<pc, mu, manager>>
  BY DEF Next, LoopStep, SyncStep, Fires, vars, LoopSelect, LoopEvent,
      LoopIgnore, LoopDebounce, KickDebounce, TimerFires, SyncLoad, SyncRead,
      SyncWrite, SyncFinish, Update, SetConfig, RestoreBackup, Replace,
      EditBegin, EditEnd, EditReplaces

LEMMA LockStep == BaseInv /\ [Next]_vars => LockInv'
  <1> SUFFICES ASSUME BaseInv, [Next]_vars PROVE LockInv'
    OBVIOUS
  <1> USE NoneIsNobody DEF BaseInv, TypeOK, ManagerTypeOK, At, Goto, manager,
      StartPC, StopPC, LockInv, MuMatchesPC, WatcherIsNewest, ChannelFresh
  <1>1. ASSUME NEW c \in Caller, StartCall(c) PROVE LockInv'
    <2>1. MuMatchesPC'
      BY <1>1 DEF StartCall, MayCall
    <2>2. WatcherIsNewest'
      BY <1>1, BoundsAreNat DEF StartCall
    <2>3. ChannelFresh'
      BY <1>1, BoundsAreNat DEF StartCall, MayCall, Gen
    <2> QED
      BY <2>1, <2>2, <2>3
  <1>2. ASSUME NEW c \in Caller, StartChan(c) PROVE LockInv'
    <2>1. MuMatchesPC'
      BY <1>2 DEF StartChan
    <2>2. WatcherIsNewest'
      BY <1>2 DEF StartChan
    <2>3. ChannelFresh'
      BY <1>2 DEF StartChan
    <2> QED
      BY <2>1, <2>2, <2>3
  <1>3. ASSUME NEW c \in Caller, StartPersist(c) PROVE LockInv'
    BY <1>3 DEF StartPersist
  <1>4. ASSUME NEW c \in Caller, StartWatch(c) PROVE LockInv'
    BY <1>4 DEF StartWatch
  <1>11. ASSUME NEW c \in Caller, StartBlind(c) PROVE LockInv'
    BY <1>11 DEF StartBlind
  <1>5. ASSUME NEW c \in Caller, StartWatchFails(c) PROVE LockInv'
    BY <1>5 DEF StartWatchFails
  <1>6. ASSUME NEW c \in Caller, StartSpawn(c) PROVE LockInv'
    BY <1>6 DEF StartSpawn
  <1>7. ASSUME NEW c \in Caller, StopCall(c) PROVE LockInv'
    <2>1. \A d \in Caller : pc[d] # "startChan"
      BY <1>7 DEF StopCall
    <2>2. MuMatchesPC' /\ WatcherIsNewest'
      BY <1>7 DEF StopCall
    <2>3. ChannelFresh'
      <3>1. stopped' = stopped \union {starts} /\ ~isRunning' /\ mu' = None
            /\ starts' = starts
        BY <1>7, <2>1 DEF StopCall
      <3>2. starts \in Nat
        BY BoundsAreNat
      <3> QED
        BY <3>1, <3>2
    <2> QED
      BY <2>2, <2>3
  <1>8. ASSUME NEW c \in Caller, StopStep(c) PROVE LockInv'
    <2>1. UNCHANGED <<mu, manager>>
      BY <1>8 DEF StopStep, StopWait, StopWake, StopClose, StopTimer,
          StopPersist
    <2>2. pc[c] \notin StartPC /\ (\E l : l \notin StartPC /\ Goto(c, l))
      BY <1>8 DEF StopStep, StopWait, StopWake, StopClose, StopTimer,
          StopPersist
    <2> QED
      BY <2>1, <2>2
  <1>9. ASSUME NEW g \in Gen, LoopLeave(g) PROVE LockInv'
    <2>1. UNCHANGED <<mu, manager>>
      BY <1>9 DEF LoopLeave
    <2>2. /\ \A c \in Caller : pc'[c] \in StartPC <=> pc[c] \in StartPC
          /\ \A c \in Caller : pc'[c] = "startChan" <=> pc[c] = "startChan"
      BY <1>9 DEF LoopLeave
    <2> QED
      BY <2>1, <2>2
  <1>10. CASE UNCHANGED <<pc, mu, manager>>
    BY <1>10
  <1> QED
    BY <1>1, <1>2, <1>3, <1>4, <1>5, <1>6, <1>7, <1>8, <1>9, <1>10,
      <1>11, OtherSteps
    DEF StartStep

LEMMA BaseStep == BaseInv /\ [Next]_vars => BaseInv'
  BY ManagerTypeStep, LoopTypeStep, SyncTypeStep, FileTypeStep, LockStep
  DEF BaseInv, TypeOK, LockInv

\* BaseInv holds throughout every behaviour.
THEOREM BaseInvAlways == Spec => []BaseInv
  BY BaseInit, BaseStep, PTL DEF Spec

\* Every variable keeps its type, whoever calls Start and Stop.
THEOREM TypeCorrect == Spec => []TypeOK
  <1>1. BaseInv => TypeOK
    BY DEF BaseInv
  <1> QED
    BY <1>1, BaseInvAlways, PTL

\* Stop never finds its channel closed, whoever calls Start and Stop: the
\* check of isRunning under asm.mu is enough for close(stopChan).
THEOREM ChannelIsClosedOnce == Spec => []ChannelClosedOnce
  <1>1. BaseInv => ChannelClosedOnce
    BY NoneIsNobody
    DEF BaseInv, ChannelFresh, MuMatchesPC, ChannelClosedOnce, StartPC
  <1> QED
    BY <1>1, BaseInvAlways, PTL

-----------------------------------------------------------------------------
(* Callers that wait for each other's calls *)

OneCall == \A c, d \in Caller : pc[c] # "idle" /\ pc[d] # "idle" => c = d

\* A Start that is about to watch finds a file, or a save has failed.
FileThere ==
    (\E c \in Caller : pc[c] = "startWatch") => file # Absent \/ failures > 0

\* What RunningMeansWatched says of the watcher.
Watched ==
    /\ dirs = {watcher} \/ blind
    /\ blind => failures > 0 \/ kept \in {"tilde", "other"}

\* What is alive and open at every point of the one call there is.
Phase(l) ==
    CASE l \in {"startChan", "startPersist", "startWatch"} ->
             Live = {} /\ open = {watcher} /\ ~blind
      [] l = "startSpawn" ->
             Live = {} /\ open = {watcher} /\ Watched
      [] l \in {"stopWait", "stopBlocked"} ->
             ~isRunning /\ Live \subseteq {watcher} /\ open = {watcher}
      [] l \in {"stopWoken", "stopClose"} ->
             ~isRunning /\ Live = {} /\ open = {watcher}
      [] l \in {"stopTimer", "stopPersist"} ->
             ~isRunning /\ Live = {} /\ open = {}
      [] OTHER -> TRUE

\* The loop of a running manager waits on its channel and its watcher.
WaitsFresh ==
    \A g \in Gen : isRunning /\ loop[g].pc = "wait"
                        => loop[g].chan = stopChan /\ loop[g].watch = watcher

Between ==
    NoCall => IF isRunning
              THEN Live = {watcher} /\ open = {watcher} /\ Watched
              ELSE Live = {} /\ open = {}

SerialInv ==
    /\ FileThere
    /\ OneCall
    /\ \A c \in Caller : Phase(pc[c])
    /\ WaitsFresh
    /\ Between
    /\ ~panicked

LEMMA SerialInit == Init => SerialInv
  BY DEF Init, SerialInv, FileThere, OneCall, Phase, WaitsFresh, Between, Live,
      NoCall, NoLoop

\* A file that is there is only written, and failures are not taken back.
LEMMA FileStays ==
    ASSUME BaseInv, [Next]_vars
    PROVE  /\ file' = Absent => file = Absent
           /\ failures > 0 => failures' > 0
  <1> USE DEF BaseInv, TypeOK, FileTypeOK, Fail, outcome, files
  <1>0. Absent \notin Config /\ Absent # Garbled
    BY AutoSyncAssumption DEF AutoSyncAssumption
  <1>1. mem' \in Config
    BY BaseStep
  <1>2. CASE Save(mem')
    BY <1>0, <1>1, <1>2 DEF Save, HalfSave, WriteFile, ReplaceFile, NewContent
  <1>3. CASE EditBegin \/ EditEnd \/ EditReplaces
    <2>1. file' \in Config \union {Garbled} /\ UNCHANGED failures
      <3>1. CASE EditBegin
        BY <3>1 DEF EditBegin, WriteFile, NewContent
      <3>2. CASE EditEnd
        BY <3>2 DEF EditEnd, WriteFile, NewContent
      <3>3. CASE EditReplaces
        <4>1. file \in Config /\ lastVer' \in Content
          BY <3>3, BoundsAreNat DEF EditReplaces, NewVersion, Content, Version
        <4>2. [file EXCEPT !.ver = lastVer'] \in Config
          BY <4>1 DEF Config
        <4> QED
          BY <3>3, <4>2 DEF EditReplaces, ReplaceFile, NewContent
      <3> QED
        BY <1>3, <3>1, <3>2, <3>3
    <2> QED
      BY <1>0, <2>1
  <1>4. ASSUME NEW c \in Caller, StartWatch(c) \/ StartWatchFails(c)
        PROVE  UNCHANGED file /\ (failures > 0 => failures' > 0)
    BY <1>4 DEF StartWatch, StartWatchFails
  <1>5. ASSUME NEW s \in Syncer, SyncWrite(s)
        PROVE  UNCHANGED file /\ (failures > 0 => failures' > 0)
    BY <1>5 DEF SyncWrite
  <1>6. CASE UNCHANGED <<file, failures>>
    BY <1>6
  <1> QED
    BY <1>2, <1>3, <1>4, <1>5, <1>6 DEF Next, StartStep, StopStep, LoopStep,
      SyncStep, Fires, vars, StartCall, StartChan, StartPersist, StartBlind,
      StartSpawn, StopCall, StopWait, StopWake, StopClose, StopTimer,
      StopPersist, LoopSelect, LoopLeave, LoopEvent, LoopIgnore, LoopDebounce,
      KickDebounce, TimerFires, SyncLoad, SyncRead, SyncFinish, Update,
      SetConfig, RestoreBackup, Replace

LEMMA FileThereStep == BaseInv /\ FileThere /\ [Next]_vars => FileThere'
  <1> SUFFICES ASSUME BaseInv, FileThere, [Next]_vars PROVE FileThere'
    OBVIOUS
  <1> USE DEF BaseInv, TypeOK, ManagerTypeOK, At, Goto
  <1>1. ASSUME NEW c \in Caller, StartPersist(c) PROVE FileThere'
    <2>1. mem' \in Config /\ Save(mem') /\ UNCHANGED <<open, dirs>>
      BY <1>1, BaseStep DEF StartPersist, FileTypeOK
    <2>2. file' = mem' \/ failures' = failures + 1
      BY <2>1, SaveTypes
    <2>3. Absent \notin Config
      BY AutoSyncAssumption DEF AutoSyncAssumption
    <2> QED
      BY <2>1, <2>2, <2>3 DEF FileThere, FileTypeOK
  <1>2. CASE \A c \in Caller : pc'[c] = "startWatch" => pc[c] = "startWatch"
    BY <1>2, FileStays DEF FileThere, FileTypeOK
  <1>3. ASSUME NEW c \in Caller, StartCall(c) \/ StopCall(c)
        PROVE  \A d \in Caller : pc'[d] = "startWatch" => pc[d] = "startWatch"
    BY <1>3 DEF StartCall, StopCall
  <1>4. ASSUME NEW c \in Caller, StartStep(c), ~StartPersist(c)
        PROVE  \A d \in Caller : pc'[d] = "startWatch" => pc[d] = "startWatch"
    BY <1>4 DEF StartStep, StartChan, StartWatch, StartBlind, StartWatchFails,
      StartSpawn
  <1>5. ASSUME NEW c \in Caller, StopStep(c)
        PROVE  \A d \in Caller : pc'[d] = "startWatch" => pc[d] = "startWatch"
    BY <1>5 DEF StopStep, StopWait, StopWake, StopClose, StopTimer, StopPersist
  <1>6. ASSUME NEW g \in Gen, LoopLeave(g)
        PROVE  \A d \in Caller : pc'[d] = "startWatch" => pc[d] = "startWatch"
    BY <1>6 DEF LoopLeave
  <1>7. CASE UNCHANGED pc
    BY <1>2, <1>7
  <1> QED
    BY <1>1, <1>2, <1>3, <1>4, <1>5, <1>6, <1>7, OtherSteps

\* A step that leaves the wait group, the watchers and the callers alone.
LEMMA SerialQuietStep ==
    ASSUME BaseInv, SerialInv, FileThere', Live' = Live, WaitsFresh',
           UNCHANGED <<pc, manager, open, dirs, blind, panicked>>,
           failures > 0 => failures' > 0
    PROVE  SerialInv'
  BY DEF SerialInv, OneCall, Phase, Between, NoCall, manager, setting, Watched

\* A step of the one caller there is: the others stay idle.
LEMMA SerialCallerStep ==
    ASSUME BaseInv, SerialInv, NEW c \in Caller, NEW l, Goto(c, l),
           pc[c] # "idle" \/ NoCall, Phase(l)', WaitsFresh',
           l = "idle" => Between', ~panicked', FileThere'
    PROVE  SerialInv'
  <1>1. \A d \in Caller : pc'[d] = IF d = c THEN l ELSE "idle"
    BY DEF SerialInv, OneCall, NoCall, Goto, BaseInv, TypeOK, ManagerTypeOK
  <1>2. OneCall'
    BY <1>1 DEF OneCall
  <1>3. \A d \in Caller : Phase(pc[d])'
    BY <1>1 DEF Phase
  <1>4. Between'
    BY <1>1 DEF Between, NoCall
  <1> QED
    BY <1>2, <1>3, <1>4 DEF SerialInv

LEMMA SerialStartStep ==
    ASSUME SerialCalls, BaseInv, SerialInv, NEW c \in Caller,
           StartCall(c) \/ StartStep(c), FileThere'
    PROVE  SerialInv'
  <1> USE NoneIsNobody DEF BaseInv, TypeOK, ManagerTypeOK, At, manager,
      setting, watchers, SerialInv, WaitsFresh, outcome
  <1>0. /\ watcher \in Gen \/ watcher = None
        /\ open \in SUBSET Gen /\ dirs \in SUBSET open
    OBVIOUS
  <1>1. CASE StartCall(c)
    <2>1. Goto(c, "startChan") /\ NoCall /\ ~isRunning /\ watcher' = starts + 1
          /\ open' = open \union {watcher'} /\ ~blind'
          /\ loop' = loop /\ panicked' = panicked
      BY <1>1 DEF StartCall, MayCall, NoCall
    <2>2. Live = {} /\ open = {} /\ Live' = Live
      BY <2>1 DEF Between, Live
    <2>3. Phase("startChan")'
      BY <2>1, <2>2 DEF Phase
    <2>4. WaitsFresh'
      BY <2>1, <2>2 DEF Live
    <2> QED
      BY <2>1, <2>3, <2>4, SerialCallerStep
  <1>2. CASE StartChan(c)
    <2>1. Phase("startChan") /\ Live' = Live
      BY <1>2 DEF StartChan, Live
    <2>2. Phase("startPersist")'
      BY <1>2, <2>1 DEF StartChan, Phase
    <2>3. WaitsFresh'
      BY <1>2, <2>1 DEF StartChan, Phase, Live
    <2> QED
      BY <1>2, <2>2, <2>3, SerialCallerStep DEF StartChan
  <1>3. CASE StartPersist(c)
    <2>1. Phase("startPersist") /\ Live' = Live
      BY <1>3 DEF StartPersist, Live
    <2>2. Phase("startWatch")'
      BY <1>3, <2>1 DEF StartPersist, Phase
    <2> QED
      BY <1>3, <2>2, SerialCallerStep DEF StartPersist
  <1>4. CASE StartWatch(c)
    <2>1. Phase("startWatch") /\ Live' = Live
      BY <1>4 DEF StartWatch, Live
    <2>2. open = {watcher} /\ Live = {} /\ ~blind
      BY <2>1 DEF Phase
    <2>3. Watched'
      <3>1. CASE dirs' = dirs \union {watcher} /\ UNCHANGED blind
        BY <1>0, <1>4, <2>2, <3>1 DEF StartWatch, Watched
      <3>2. CASE Fail /\ blind' = TRUE
        BY <3>2 DEF Watched, Fail, FileTypeOK
      <3> QED
        BY <1>4, <3>1, <3>2 DEF StartWatch
    <2>4. Phase("startSpawn")'
      BY <1>4, <2>1, <2>2, <2>3 DEF StartWatch, Phase
    <2> QED
      BY <1>4, <2>4, SerialCallerStep DEF StartWatch
  <1>7. CASE StartBlind(c)
    <2>1. Phase("startWatch") /\ Live' = Live
      BY <1>7 DEF StartBlind, Live
    <2>2. failures > 0 \/ kept \in {"tilde", "other"}
      <3>1. kept \in {"path", "tilde", "store", "other"}
        BY AutoSyncAssumption DEF AutoSyncAssumption
      <3>2. kept \in {"path", "store"} => file = Absent
        BY <1>7 DEF StartBlind, Watchable
      <3>3. file = Absent => failures > 0
        BY <1>7 DEF StartBlind, FileThere
      <3> QED
        BY ONLY <3>1, <3>2, <3>3
    <2>3. Watched'
      BY <1>7, <2>2 DEF StartBlind, Watched
    <2>4. Phase("startSpawn")'
      BY <1>7, <2>1, <2>3 DEF StartBlind, Phase
    <2> QED
      BY <1>7, <2>4, SerialCallerStep DEF StartBlind
  <1>5. CASE StartWatchFails(c)
    <2>1. Phase("startWatch") /\ Live' = Live
      BY <1>5 DEF StartWatchFails, Live
    <2>2. Live' = {} /\ open' = {} /\ ~isRunning'
      BY <1>5, <2>1 DEF StartWatchFails, CloseWatcher, Phase
    <2> QED
      BY <1>5, <2>2, SerialCallerStep
      DEF StartWatchFails, Phase, Between
  <1>6. CASE StartSpawn(c)
    <2>1. Phase("startSpawn") /\ isRunning /\ watcher \in Gen
      BY <1>6, <1>0 DEF StartSpawn, MuMatchesPC, StartPC, ChannelFresh,
          WatcherIsNewest
    <2>2. Live' = {watcher}
      BY <1>6, <2>1 DEF StartSpawn, Live, Phase, LoopTypeOK
    <2>3. WaitsFresh'
      BY <1>6, <2>1 DEF StartSpawn, LoopTypeOK
    <2>4. Between'
      BY <1>6, <2>1, <2>2 DEF StartSpawn, Phase, Between, Watched
    <2> QED
      BY <1>6, <2>3, <2>4, SerialCallerStep DEF StartSpawn, Phase
  <1> QED
    BY <1>1, <1>2, <1>3, <1>4, <1>5, <1>6, <1>7 DEF StartStep

LEMMA SerialStopStep ==
    ASSUME SerialCalls, BaseInv, SerialInv, NEW c \in Caller,
           StopCall(c) \/ StopStep(c), FileThere'
    PROVE  SerialInv'
  <1> USE DEF At, manager, watchers, SerialInv, WaitsFresh, outcome
  <1>1. CASE StopCall(c)
    <2>1. Goto(c, "stopWait") /\ NoCall /\ isRunning /\ ~isRunning'
          /\ Live' = Live /\ UNCHANGED <<open, watcher>>
      BY <1>1 DEF StopCall, MayCall, NoCall, Live
    <2>2. Phase("stopWait")'
      BY <2>1 DEF Phase, Between
    <2>3. stopChan \notin stopped
      BY <2>1, <1>1, NoneIsNobody DEF StopCall, BaseInv, ChannelFresh, NoCall
    <2>4. ~panicked'
      BY <1>1, <2>3 DEF StopCall
    <2> QED
      BY <2>1, <2>2, <2>4, SerialCallerStep
  <1>2. CASE StopWait(c)
    <2>1. Phase("stopWait") /\ Live' = Live
      BY <1>2 DEF StopWait, Live
    <2>2. CASE Live = {}
      <3>1. Goto(c, "stopClose") /\ Phase("stopClose")'
        BY <1>2, <2>1, <2>2 DEF StopWait, Phase
      <3> QED
        BY <1>2, <3>1, SerialCallerStep DEF StopWait
    <2>3. CASE Live # {}
      <3>1. Goto(c, "stopBlocked") /\ Phase("stopBlocked")'
        BY <1>2, <2>1, <2>3 DEF StopWait, Phase
      <3> QED
        BY <1>2, <3>1, SerialCallerStep DEF StopWait
    <2> QED
      BY <2>2, <2>3
  <1>3. CASE StopWake(c)
    <2>1. Phase("stopWoken") /\ Live' = Live
      BY <1>3 DEF StopWake, Live
    <2>2. Phase("stopClose")' /\ ~panicked'
      BY <1>3, <2>1 DEF StopWake, Phase
    <2> QED
      BY <1>3, <2>2, SerialCallerStep DEF StopWake
  <1>4. CASE StopClose(c)
    <2>1. Phase("stopClose") /\ Live' = Live
      BY <1>4 DEF StopClose, Live
    <2>2. Phase("stopTimer")'
      BY <1>4, <2>1 DEF StopClose, CloseWatcher, Phase
    <2> QED
      BY <1>4, <2>2, SerialCallerStep DEF StopClose
  <1>5. CASE StopTimer(c)
    <2>1. Phase("stopTimer") /\ Live' = Live
      BY <1>5 DEF StopTimer, Live
    <2>2. Phase("stopPersist")'
      BY <1>5, <2>1 DEF StopTimer, Phase
    <2> QED
      BY <1>5, <2>2, SerialCallerStep DEF StopTimer
  <1>6. CASE StopPersist(c)
    <2>1. Phase("stopPersist") /\ Live' = Live
      BY <1>6 DEF StopPersist, Live
    <2>2. Between'
      BY <1>6, <2>1 DEF StopPersist, Phase, Between
    <2> QED
      BY <1>6, <2>2, SerialCallerStep DEF StopPersist, Phase
  <1> QED
    BY <1>1, <1>2, <1>3, <1>4, <1>5, <1>6 DEF StopStep

LEMMA SerialLoopStep ==
    ASSUME BaseInv, SerialInv, NEW g \in Gen, LoopStep(g) \/ LoopIgnore(g),
           FileThere'
    PROVE  SerialInv'
  <1> USE DEF LoopAt, manager, setting, watchers, SerialInv, WaitsFresh, LoopTypeOK,
      BaseInv, TypeOK
  <1>1. CASE LoopLeave(g)
    <2>1. g \in Live /\ Live' = Live \ {g} /\ WaitsFresh'
          /\ UNCHANGED <<manager, watchers, outcome>>
      BY <1>1 DEF LoopLeave, Live, outcome
    <2>2. \A c \in Caller : \/ pc'[c] = pc[c]
                            \/ /\ pc[c] = "stopBlocked" /\ Live = {g}
                               /\ pc'[c] = "stopWoken"
      BY <1>1 DEF LoopLeave
    <2>3. ~(NoCall /\ isRunning)
      <3>1. SUFFICES ASSUME NoCall, isRunning PROVE FALSE
        OBVIOUS
      <3>2. Live = {watcher} /\ open = {watcher} /\ stopChan \notin stopped
        BY <3>1, NoneIsNobody
        DEF Between, NoCall, ChannelFresh, MuMatchesPC, StartPC
      <3> QED
        BY <1>1, <2>1, <3>1, <3>2 DEF LoopLeave
    <2>4. OneCall'
      BY <2>2 DEF OneCall
    <2>5. \A c \in Caller : Phase(pc[c])'
      <3> TAKE c \in Caller
      <3>1. Phase(pc[c])
        OBVIOUS
      <3>2. CASE pc'[c] = pc[c]
        BY <3>1, <3>2, <2>1 DEF Phase, Watched, outcome
      <3>3. CASE pc[c] = "stopBlocked" /\ Live = {g} /\ pc'[c] = "stopWoken"
        BY <3>1, <3>3, <2>1 DEF Phase
      <3> QED
        BY <2>2, <3>2, <3>3
    <2>6. Between'
      BY <2>1, <2>2, <2>3 DEF Between, NoCall
    <2> QED
      BY <2>1, <2>4, <2>5, <2>6 DEF outcome
  <1>2. CASE LoopSelect(g)
    BY <1>2, SerialQuietStep DEF LoopSelect, Live, outcome
  <1>3. CASE LoopEvent(g)
    BY <1>3, SerialQuietStep DEF LoopEvent, Live, outcome
  <1>4. CASE LoopIgnore(g)
    BY <1>4, SerialQuietStep DEF LoopIgnore, Live, outcome
  <1>5. CASE LoopDebounce(g)
    BY <1>5, SerialQuietStep DEF LoopDebounce, Live, outcome
  <1> QED
    BY <1>1, <1>2, <1>3, <1>4, <1>5 DEF LoopStep

LEMMA SerialStep ==
    ASSUME SerialCalls, BaseInv, SerialInv, [Next]_vars PROVE SerialInv'
  <1>0. FileThere'
    BY FileThereStep DEF SerialInv
  <1>1. ASSUME NEW c \in Caller,
               StartCall(c) \/ StartStep(c) \/ StopCall(c) \/ StopStep(c)
        PROVE SerialInv'
    BY <1>0, <1>1, SerialStartStep, SerialStopStep
  <1>2. ASSUME NEW g \in Gen, LoopStep(g) \/ LoopIgnore(g) PROVE SerialInv'
    BY <1>0, <1>2, SerialLoopStep
  <1>3. CASE UNCHANGED <<pc, loop, manager, open, dirs, blind, panicked>>
    BY <1>0, <1>3, SerialQuietStep, FileStays
    DEF SerialInv, WaitsFresh, Live, manager
  <1> QED
    BY <1>1, <1>2, <1>3 DEF Next, SyncStep, Fires, vars, KickDebounce,
      TimerFires, SyncLoad, SyncRead, SyncWrite, SyncFinish, Update,
      SetConfig, RestoreBackup, Replace, EditBegin, EditEnd, EditReplaces,
      watchers, outcome

\* Both invariants hold throughout every behaviour of serial callers.
THEOREM SerialInvAlways == SerialCalls /\ Spec => [](BaseInv /\ SerialInv)
  <1> SUFFICES ASSUME SerialCalls PROVE Spec => [](BaseInv /\ SerialInv)
    OBVIOUS
  <1> QED
    BY BaseInit, SerialInit, BaseStep, SerialStep, PTL DEF Spec

\* Between the calls of serial callers, a running manager has exactly its own
\* watch loop, whose watcher is open and on the file's directory, unless Start
\* failed to watch or the configuration is kept where Start does not look.
THEOREM RunningIsWatched == SerialCalls /\ Spec => []RunningMeansWatched
  <1>1. BaseInv /\ SerialInv => RunningMeansWatched
    BY NoneIsNobody DEF BaseInv, SerialInv, Between, RunningMeansWatched,
      NoCall, ChannelFresh, WatcherIsNewest, Watched
  <1> QED
    BY <1>1, SerialInvAlways, PTL

\* Between the calls of serial callers, a manager that does not run has no
\* watch loop and no open watcher.
THEOREM StoppedIsQuiet == SerialCalls /\ Spec => []StoppedMeansQuiet
  <1>1. SerialInv => StoppedMeansQuiet
    BY DEF SerialInv, Between, StoppedMeansQuiet
  <1> QED
    BY <1>1, SerialInvAlways, PTL

\* Serial callers never panic on a closed channel or a reused wait group.
THEOREM SerialCallsDoNotPanic == SerialCalls /\ Spec => []NoPanic
  <1>1. SerialInv => NoPanic
    BY DEF SerialInv, NoPanic
  <1> QED
    BY <1>1, SerialInvAlways, PTL

-----------------------------------------------------------------------------
(* The persisted flag, when no other program writes the file *)

FlagStored == file \in Config /\ file.enabled = mem.enabled

\* While no write has failed, memory and file agree on the flag; and while no
\* other configuration has been put in place either, the flag is set from
\* StartPersist on until StopPersist.
FlagInv ==
    /\ edit = None
    /\ failures = 0 =>
          /\ file = Absent \/ FlagStored
          /\ ~overruled =>
                /\ \A c \in Caller :
                      pc[c] \in {"startWatch", "startSpawn"} => mem.enabled
                /\ NoCall => mem.enabled = isRunning

LEMMA FlagInit == Init => FlagInv
  <1> SUFFICES ASSUME Init PROVE FlagInv
    OBVIOUS
  <1>1. [ver |-> 0, enabled |-> FALSE] \in Config
    BY BoundsAreNat DEF Config, Content, Version
  <1>2. /\ edit = None /\ mem.enabled = isRunning
        /\ file = Absent \/ FlagStored
    <2>1. edit = None /\ mem.enabled = isRunning
      BY DEF Init
    <2>2. file = Absent \/ file = mem
      BY DEF Init
    <2>3. mem \in Config
      BY <1>1 DEF Init
    <2>4. file = mem => FlagStored
      BY <2>3 DEF FlagStored
    <2> QED
      BY <2>1, <2>2, <2>4
  <1>3. \A c \in Caller : pc[c] = "idle"
    BY DEF Init
  <1> QED
    BY <1>2, <1>3 DEF FlagInv

\* A configuration is saved, or there is a failure.
LEMMA FlagSave ==
    ASSUME BaseInv, mem' \in Config, Save(mem'), UNCHANGED <<open, dirs>>
    PROVE  failures' = 0 => failures = 0 /\ file' = mem'
  BY SaveTypes DEF BaseInv, TypeOK, FileTypeOK

\* A step outside Start and Stop that keeps the flag of memory and of the file.
LEMMA FlagQuietStep ==
    ASSUME FlagInv, UNCHANGED <<pc, isRunning, edit>>, overruled => overruled',
           failures' = 0 =>
              /\ failures = 0
              /\ ~overruled' => mem'.enabled = mem.enabled
              /\ file' = Absent \/ FlagStored'
    PROVE  FlagInv'
  BY DEF FlagInv, NoCall

LEMMA FlagStartStep ==
    ASSUME BaseInv, SerialInv, FlagInv, NEW c \in Caller,
           StartCall(c) \/ StartStep(c)
    PROVE  FlagInv'
  <1> USE DEF At, Goto, manager, config, files, outcome, BaseInv, TypeOK,
      ManagerTypeOK
  <1>1. CASE StartCall(c)
    BY <1>1 DEF StartCall, FlagInv, FlagStored,
      NoCall
  <1>2. CASE StartChan(c)
    BY <1>2 DEF StartChan, FlagInv, FlagStored,
      NoCall
  <1>3. CASE StartPersist(c)
    <2>1. mem' = [mem EXCEPT !.enabled = TRUE] /\ Save(mem')
          /\ pc'[c] = "startWatch" /\ UNCHANGED <<edit, open, dirs>>
      BY <1>3 DEF StartPersist
    <2>2. mem' \in Config /\ mem'.enabled
      BY <2>1 DEF FileTypeOK, Config
    <2>3. failures' = 0 => failures = 0 /\ file' = mem'
      BY <2>1, <2>2, FlagSave
    <2>4. ~NoCall'
      BY <2>1 DEF NoCall
    <2> QED
      BY <2>1, <2>2, <2>3, <2>4 DEF FlagInv, FlagStored
  <1>4. CASE StartWatch(c)
    <2>1. pc[c] = "startWatch" /\ ~NoCall' /\ (failures' = 0 => failures = 0)
      BY <1>4 DEF StartWatch, Fail, NoCall, FileTypeOK
    <2>2. \A d \in Caller : pc'[d] \in {"startWatch", "startSpawn"}
                               => pc[d] \in {"startWatch", "startSpawn"}
      BY <1>4 DEF StartWatch
    <2>3. UNCHANGED <<mem, file, edit, overruled>>
      BY <1>4 DEF StartWatch
    <2> QED
      BY <2>1, <2>2, <2>3 DEF FlagInv, FlagStored
  <1>7. CASE StartBlind(c)
    BY <1>7 DEF StartBlind, FlagInv, FlagStored,
      NoCall
  <1>5. CASE StartWatchFails(c)
    <2>1. Phase("startWatch")
      BY <1>5 DEF StartWatchFails, SerialInv
    <2>2. watcher \in open
      BY <2>1 DEF Phase
    <2>3. Fail
      BY <1>5, <2>2 DEF StartWatchFails
    <2>4. failures' # 0
      BY <2>3 DEF Fail, FileTypeOK
    <2> QED
      BY <1>5, <2>4 DEF StartWatchFails, FlagInv
  <1>6. CASE StartSpawn(c)
    <2>1. isRunning /\ pc[c] = "startSpawn"
      BY <1>6, NoneIsNobody DEF StartSpawn, MuMatchesPC, StartPC, ChannelFresh
    <2> QED
      BY <1>6, <2>1 DEF StartSpawn, FlagInv, FlagStored
  <1> QED
    BY <1>1, <1>2, <1>3, <1>4, <1>5, <1>6, <1>7 DEF StartStep

LEMMA FlagStopStep ==
    ASSUME BaseInv, SerialInv, FlagInv, NEW c \in Caller,
           StopCall(c) \/ StopStep(c)
    PROVE  FlagInv'
  <1> USE DEF At, Goto, manager, config, files, outcome, BaseInv, TypeOK,
      ManagerTypeOK
  <1>1. CASE StopCall(c)
    BY <1>1 DEF StopCall, FlagInv, FlagStored,
      NoCall
  <1>2. CASE StopWait(c)
    BY <1>2 DEF StopWait, FlagInv, FlagStored,
      NoCall
  <1>3. CASE StopWake(c)
    BY <1>3 DEF StopWake, FlagInv, FlagStored,
      NoCall
  <1>4. CASE StopClose(c)
    BY <1>4 DEF StopClose, CloseWatcher, FlagInv, FlagStored,
      NoCall
  <1>5. CASE StopTimer(c)
    BY <1>5 DEF StopTimer, FlagInv, FlagStored,
      NoCall
  <1>6. CASE StopPersist(c)
    <2>1. mem' = [mem EXCEPT !.enabled = FALSE] /\ Save(mem')
          /\ pc' = [pc EXCEPT ![c] = "idle"]
          /\ UNCHANGED <<edit, isRunning, open, dirs>>
      BY <1>6 DEF StopPersist
    <2>2. mem' \in Config /\ ~mem'.enabled
      BY <2>1 DEF FileTypeOK, Config
    <2>3. failures' = 0 => failures = 0 /\ file' = mem'
      BY <2>1, <2>2, FlagSave
    <2>4. Phase("stopPersist") /\ ~isRunning
      <3>1. Phase("stopPersist")
        BY <1>6 DEF StopPersist, SerialInv
      <3> QED
        BY <3>1 DEF Phase
    <2>5. \A d \in Caller : pc'[d] = "idle"
      <3>1. pc[c] = "stopPersist" /\ OneCall
        BY <1>6 DEF StopPersist, SerialInv
      <3>2. \A d \in Caller : d # c => pc[d] = "idle"
        BY <3>1 DEF OneCall
      <3> QED
        BY <2>1, <3>2
    <2>6. failures' = 0 => /\ file' \in Config /\ file'.enabled = mem'.enabled
                           /\ mem'.enabled = isRunning'
      <3>1. mem'.enabled = FALSE
        BY <2>1 DEF FileTypeOK, Config
      <3>2. isRunning' = FALSE
        BY <2>1, <2>4
      <3> QED
        BY ONLY <2>2, <2>3, <3>1, <3>2
    <2>7. edit' = None
      BY <2>1 DEF FlagInv, FlagStored
    <2>8. failures' = 0 =>
             \A d \in Caller :
                pc'[d] \in {"startWatch", "startSpawn"} => mem'.enabled
      BY ONLY <2>5
    <2> QED
      BY ONLY <2>3, <2>6, <2>7, <2>8 DEF FlagInv, FlagStored
  <1> QED
    BY <1>1, <1>2, <1>3, <1>4, <1>5, <1>6 DEF StopStep

LEMMA FlagStep ==
    ASSUME ~OtherWriter, BaseInv, SerialInv, FlagInv, [Next]_vars
    PROVE  FlagInv'
  <1> USE DEF manager, config, files, outcome
  <1>1. ASSUME NEW c \in Caller,
               StartCall(c) \/ StartStep(c) \/ StopCall(c) \/ StopStep(c)
        PROVE FlagInv'
    BY <1>1, FlagStartStep, FlagStopStep
  <1>2. ASSUME NEW g \in Gen, LoopLeave(g) PROVE FlagInv'
    <2>1. UNCHANGED <<mem, file, edit, failures, overruled, isRunning>>
      BY <1>2 DEF LoopLeave
    <2>2. \A c \in Caller :
             /\ pc'[c] = "idle" <=> pc[c] = "idle"
             /\ pc'[c] \in {"startWatch", "startSpawn"} => pc'[c] = pc[c]
      BY <1>2 DEF LoopLeave
    <2> QED
      BY <2>1, <2>2 DEF FlagInv, FlagStored,
      NoCall
  <1>3. ASSUME NEW s \in Syncer, SyncLoad(s) PROVE FlagInv'
    <2>1. UNCHANGED <<pc, isRunning, edit, file, failures, overruled>>
      BY <1>3 DEF SyncLoad
    <2>2. CASE mem' = mem
      BY <2>1, <2>2, FlagQuietStep DEF FlagInv, FlagStored
    <2>3. CASE file # Absent /\ file # Garbled /\ mem' \in Loaded
      <3>1. mem' = file \/ mem' = [file EXCEPT !.ver = Mixed]
        BY <2>3 DEF Loaded
      <3>2. file \in Config
        BY <2>3 DEF BaseInv, TypeOK, FileTypeOK
      <3>3. mem'.enabled = file.enabled
        BY <3>1, <3>2 DEF Config
      <3>4. FlagStored'
        BY <2>1, <3>2, <3>3 DEF FlagStored
      <3>5. failures = 0 => mem'.enabled = mem.enabled
        BY <2>3, <3>3 DEF FlagInv, FlagStored
      <3> QED
        BY <2>1, <3>4, <3>5, FlagQuietStep
    <2>4. file = Absent /\ mem' \in Loaded => mem' = mem
      BY DEF Loaded
    <2> QED
      BY <1>3, <2>2, <2>3, <2>4 DEF SyncLoad
  <1>4. ASSUME NEW s \in Syncer, SyncWrite(s) PROVE FlagInv'
    <2>1. UNCHANGED <<pc, isRunning, edit, file, mem, overruled>>
          /\ (failures' = failures \/ failures' = failures + 1)
      BY <1>4 DEF SyncWrite, Fail
    <2> QED
      BY <2>1, FlagQuietStep DEF FlagInv, FlagStored, BaseInv, TypeOK, FileTypeOK
  <1>5. CASE Update
    <2>1. /\ mem' = [mem EXCEPT !.ver = lastVer'] /\ Save(mem')
          /\ UNCHANGED <<pc, isRunning, edit, overruled, open, dirs>>
      BY <1>5 DEF Update
    <2>2. mem' \in Config
      BY BaseStep DEF BaseInv, TypeOK, FileTypeOK
    <2>3. mem'.enabled = mem.enabled
      BY <2>1 DEF BaseInv, TypeOK, FileTypeOK, Config
    <2>4. failures' = 0 => failures = 0 /\ file' = mem'
      BY <2>1, <2>2, FlagSave
    <2> QED
      BY <2>1, <2>2, <2>3, <2>4, FlagQuietStep DEF FlagStored
  <1>6. CASE Replace
    <2>1. /\ overruled' = (overruled \/ mem'.enabled # mem.enabled)
          /\ Save(mem') /\ UNCHANGED <<pc, isRunning, edit, open, dirs>>
      BY <1>6 DEF Replace
    <2>2. mem' \in Config
      BY BaseStep DEF BaseInv, TypeOK, FileTypeOK
    <2>3. failures' = 0 => failures = 0 /\ file' = mem'
      BY <2>1, <2>2, FlagSave
    <2> QED
      BY <2>1, <2>2, <2>3, FlagQuietStep DEF FlagStored
  <1>7. CASE EditBegin \/ EditEnd \/ EditReplaces
    BY <1>7 DEF EditBegin, EditEnd, EditReplaces, FlagInv
  <1>8. CASE UNCHANGED <<pc, isRunning, mem, file, edit, overruled, failures>>
    BY <1>8, FlagQuietStep DEF FlagInv, FlagStored
  <1> QED
    BY <1>1, <1>2, <1>3, <1>4, <1>5, <1>6, <1>7, <1>8 DEF Next, LoopStep,
      SyncStep, Fires, vars, LoopSelect, LoopEvent, LoopIgnore, LoopDebounce,
      KickDebounce, TimerFires, SyncRead, SyncFinish, SetConfig, RestoreBackup

\* With serial callers, no other writer and no failure, the persisted flag
\* says between calls whether the manager runs, unless a SetConfig or
\* RestoreBackup put another one in place since the last call: an auto-sync that
\* was running when the process ends is what the next process restores.
THEOREM EnabledIsRunning ==
    SerialCalls /\ ~OtherWriter /\ Spec => []EnabledMatchesRunning
  <1> SUFFICES ASSUME SerialCalls, ~OtherWriter
               PROVE  Spec => []EnabledMatchesRunning
    OBVIOUS
  <1>1. BaseInv /\ SerialInv /\ FlagInv /\ [Next]_vars
           => (BaseInv /\ SerialInv /\ FlagInv)'
    BY BaseStep, SerialStep, FlagStep
  <1>2. FlagInv => EnabledMatchesRunning
    BY DEF FlagInv, FlagStored, EnabledMatchesRunning
  <1> QED
    BY BaseInit, SerialInit, FlagInit, <1>1, <1>2, PTL DEF Spec

=============================================================================

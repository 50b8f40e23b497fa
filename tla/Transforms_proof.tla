-------------------------- MODULE Transforms_proof --------------------------
(***************************************************************************)
(* Proofs about Transforms, for any names and ways to sanitise them, any   *)
(* configurations, destinations and projects, and any number of operations.*)
(***************************************************************************)
EXTENDS Transforms, TLAPS

LEMMA Sentinels ==
    /\ Absent \notin Cfg /\ Absent \notin Project /\ Absent \notin Entry
    /\ Absent \notin Doc /\ Unparsable \notin Doc
  BY TransformsAssumption, SentinelAssumption DEF TransformsAssumption, SentinelAssumption

LEMMA NamesInFiles ==
    ASSUME NEW d \in Dest, NEW n \in Name
    PROVE  NameIn(d, n) \in Name
  BY TransformsAssumption DEF TransformsAssumption, NameIn

LEMMA EntryTypes ==
    ASSUME NEW s \in Entry
    PROVE  s.cfg \in Cfg /\ s.on \in BOOLEAN /\ s.for \in Audience /\ s.project \in Project \union {Absent}
  BY DEF Entry

LEMMA NewEntries ==
    ASSUME NEW c \in Cfg, NEW on \in BOOLEAN, NEW who \in Audience, NEW p \in Project \union {Absent}
    PROVE  [cfg |-> c, on |-> on, for |-> who, project |-> p] \in Entry
  BY DEF Entry

\* A server that is there is an entry.
LEMMA ConfiguredEntry ==
    ASSUME TypeOK, NEW n \in Configured
    PROVE  n \in Name /\ servers[n] \in Entry /\ servers[n].cfg \in Cfg
  <1>1. servers[n] \in Entry
    BY DEF TypeOK, Configured, Has
  <1> QED
    BY <1>1, EntryTypes DEF Configured

-----------------------------------------------------------------------------
(* What the transforms write: the chosen servers under their names in the   *)
(* file, and of two that have one name there, one.                          *)

LEMMA WrittenServers ==
    ASSUME TypeOK, NEW d \in Dest, NEW ns \in SUBSET Configured, NEW f \in Written(d, ns)
    PROVE  /\ f \in NameMap
           /\ {m \in Name : f[m] # Absent} = {NameIn(d, n) : n \in ns}
           /\ \A m \in Name : f[m] # Absent => \E n \in ns : NameIn(d, n) = m /\ servers[n].cfg = f[m]
  <1>1. f \in NameMap /\ \A m \in Name :
          \/ f[m] = Absent /\ \A n \in ns : NameIn(d, n) # m
          \/ \E n \in ns : NameIn(d, n) = m /\ f[m] = servers[n].cfg
    BY DEF Written
  <1>2. \A n \in ns : NameIn(d, n) \in Name /\ servers[n].cfg # Absent
    BY NamesInFiles, ConfiguredEntry, Sentinels
  <1>3. \A m \in Name : f[m] # Absent => \E n \in ns : NameIn(d, n) = m /\ servers[n].cfg = f[m]
    BY <1>1
  <1>4. \A n \in ns : f[NameIn(d, n)] # Absent
    BY <1>1, <1>2
  <1> QED
    BY <1>1, <1>2, <1>3, <1>4

LEMMA EmptyMap == None \in NameMap
  BY DEF None, NameMap

LEMMA AnewTypes ==
    ASSUME TypeOK, NEW d \in Dest, NEW doc \in Anew(d)
    PROVE  doc \in Doc /\ doc.servers \in Written(d, Chosen(d))
  <1>1. PICK f \in Written(d, Chosen(d)) :
          doc = [servers |-> f, rest |-> FALSE, projects |-> [p \in Project |-> None]]
    BY DEF Anew
  <1>2. f \in NameMap
    BY DEF Written
  <1> QED
    BY <1>1, <1>2, EmptyMap DEF Doc

LEMMA NestedKeeps ==
    ASSUME TypeOK, NEW d \in Dest, file[d] \in Doc, NEW doc \in Nested(d)
    PROVE  /\ doc \in Doc /\ doc.servers \in Written(d, Chosen(d))
           /\ doc.rest = file[d].rest
           /\ \A p \in Project : OfProject(p) = {} => doc.projects[p] = file[d].projects[p]
  <1>1. PICK f \in Written(d, Chosen(d)), g \in ProjectsAfter(d) :
          doc = [servers |-> f, rest |-> file[d].rest, projects |-> g]
    BY Sentinels DEF Nested, Amended
  <1>2. f \in NameMap /\ g \in [Project -> NameMap]
    BY DEF Written, ProjectsAfter
  <1>3. doc \in Doc /\ doc.servers = f /\ doc.projects = g /\ doc.rest = file[d].rest
    BY <1>1, <1>2 DEF Doc
  <1>4. \A p \in Project : OfProject(p) = {} => g[p] = file[d].projects[p]
    BY DEF WrittenIn, ProjectsAfter
  <1> QED
    BY <1>1, <1>3, <1>4

\* A sync leaves the chosen servers in its destination's file, or the program is dead.
LEMMA SyncWrites ==
    ASSUME TypeOK, NEW d \in Dest, SyncTo(d)
    PROVE  /\ file' \in [Dest -> Doc \union {Absent, Unparsable}]
           /\ \A e \in Dest \ {d} : file'[e] = file[e]
           /\ \/ UNCHANGED <<file, fresh>>
              \/ /\ fresh' = fresh \union {d}
                 /\ file'[d] \in Doc /\ file'[d].servers \in Written(d, Chosen(d))
  <1>1. CASE Kind(d) = "nested" /\ file[d] = Unparsable
    BY <1>1 DEF SyncTo, TypeOK
  <1>2. CASE ~(Kind(d) = "nested" /\ file[d] = Unparsable)
    <2>1. PICK doc \in Docs(d) : file' = [file EXCEPT ![d] = doc] /\ fresh' = fresh \union {d}
      BY <1>2 DEF SyncTo
    <2>2. doc \in Doc /\ doc.servers \in Written(d, Chosen(d))
      <3>1. CASE Kind(d) = "nested" /\ file[d] # Absent
        <4>1. file[d] \in Doc
          BY <1>2, <3>1 DEF TypeOK
        <4> QED
          BY <2>1, <3>1, <4>1, NestedKeeps DEF Docs
      <3>2. CASE ~(Kind(d) = "nested" /\ file[d] # Absent)
        <4>1. Docs(d) = Anew(d)
          BY <3>2 DEF Docs, Nested
        <4> QED
          BY <2>1, <4>1, AnewTypes
      <3> QED
        BY <3>1, <3>2
    <2> QED
      BY <2>1, <2>2 DEF TypeOK
  <1> QED
    BY <1>1, <1>2

-----------------------------------------------------------------------------
(* Types, what the synced files hold, and what was exported.                *)

Synced ==
    \A d \in fresh : file[d] \in Doc /\ file[d].servers \in Written(d, Chosen(d))

IInv == TypeOK /\ Synced /\ (same => export = Exported)

\* The steps that change the servers.
Changing ==
    \/ \E n \in Name : \/ \E c \in Cfg : \/ AddServer(n, c) \/ UpdateServer(n, c)
                                         \/ \E f \in Foreign : LoadServer(n, c, f)
                       \/ \E on \in BOOLEAN : SetEnabled(n, on)
                       \/ RemoveServer(n)
    \/ SetFromClient \/ MergeIn
    \/ \E replace, overwrite, subst \in BOOLEAN :
         \/ \E skip \in BOOLEAN : Import(replace, overwrite, subst, skip)
         \/ ImportRefused(replace, overwrite, subst)

LEMMA AudienceTypes ==
    /\ Everyone \in Audience /\ NoTarget \in Audience
    /\ \A f \in Foreign : f.for \in Audience /\ f.project \in Project \union {Absent}
  BY ForeignAssumption DEF ForeignAssumption, Audience, Everyone, NoTarget

LEMMA ParsedEntries == \A c \in Cfg : Parsed(c) \in Entry /\ Parsed(c).cfg = c
  BY NewEntries, AudienceTypes DEF Parsed

\* What an import makes of the servers that it takes.
LEMMA ImportedTypes ==
    ASSUME TypeOK, NEW replace \in BOOLEAN, NEW overwrite \in BOOLEAN, NEW subst \in BOOLEAN,
           NEW ns \in SUBSET Offered(replace, overwrite)
    PROVE  /\ Imported(ns, replace, subst) \in [Name -> Entry \union {Absent}]
           /\ \A n \in ns : Imported(ns, replace, subst)[n].cfg = Given(export[n], subst)
           /\ replace => {n \in Name : Imported(ns, replace, subst)[n] # Absent} = ns
  <1>1. ns \subseteq Name /\ \A n \in ns : Given(export[n], subst) \in Cfg
    BY TransformsAssumption DEF TransformsAssumption, Offered, Given, TypeOK, NameMap
  <1>2. \A n \in ns : /\ Parsed(Given(export[n], subst)) \in Entry
                      /\ Parsed(Given(export[n], subst)).cfg = Given(export[n], subst)
    BY <1>1, ParsedEntries
  <1>3. servers \in [Name -> Entry \union {Absent}]
    BY DEF TypeOK
  <1> QED
    BY <1>1, <1>2, <1>3, Sentinels DEF Imported

LEMMA StepTypes == ASSUME TypeOK, Step PROVE ops' \in 0..MaxOps
  BY TransformsAssumption DEF TypeOK, Step, TransformsAssumption

LEMMA ChangingTypes ==
    ASSUME TypeOK, Changing
    PROVE  /\ servers' \in [Name -> Entry \union {Absent}] /\ targets' \in BOOLEAN
           /\ ops' \in 0..MaxOps
           /\ UNCHANGED <<file, export, dead>> /\ fresh' = {} /\ same' = FALSE
  <1>1. /\ servers \in [Name -> Entry \union {Absent}] /\ targets \in BOOLEAN
        /\ export \in NameMap \union {Absent}
        /\ \A n \in Name : Has(n) => servers[n] \in Entry
    BY DEF TypeOK, Has
  <1>2. ops' \in 0..MaxOps /\ targets' \in BOOLEAN /\ UNCHANGED <<file, export, dead>>
        /\ fresh' = {} /\ same' = FALSE
    BY <1>1, StepTypes DEF Changing, AddServer, UpdateServer, LoadServer, SetEnabled, RemoveServer,
       SetFromClient, MergeIn, Import, ImportRefused, Set, Keeping
  <1>3. ASSUME NEW n \in Name, NEW c \in Cfg,
               AddServer(n, c) \/ UpdateServer(n, c) \/ \E f \in Foreign : LoadServer(n, c, f)
        PROVE  servers' \in [Name -> Entry \union {Absent}]
    <2>1. \A f \in Foreign : [cfg |-> c, on |-> TRUE, for |-> f.for, project |-> f.project] \in Entry
      BY NewEntries, AudienceTypes
    <2>2. Added(c) \in Entry
      BY NewEntries, AudienceTypes DEF Added
    <2>3. Has(n) => [servers[n] EXCEPT !.cfg = c] \in Entry
      BY <1>1 DEF Entry
    <2> QED
      BY <1>1, <1>3, <2>1, <2>2, <2>3 DEF AddServer, UpdateServer, LoadServer, Set
  <1>4. ASSUME NEW n \in Name, RemoveServer(n) \/ \E on \in BOOLEAN : SetEnabled(n, on)
        PROVE  servers' \in [Name -> Entry \union {Absent}]
    <2>1. \A on \in BOOLEAN : Has(n) => [servers[n] EXCEPT !.on = on] \in Entry
      BY <1>1 DEF Entry
    <2> QED
      BY <1>1, <1>4, <2>1 DEF RemoveServer, SetEnabled, Set
  <1>5. ASSUME SetFromClient PROVE servers' \in [Name -> Entry \union {Absent}]
    <2>1. \A n \in Name : Has(n) =>
            [cfg |-> Bare(servers[n].cfg), on |-> servers[n].on, for |-> NoTarget, project |-> Absent] \in Entry
      <3> SUFFICES ASSUME NEW n \in Name, Has(n)
                   PROVE  Bare(servers[n].cfg) \in Cfg /\ servers[n].on \in BOOLEAN
        BY NewEntries, AudienceTypes
      <3> QED
        BY <1>1, EntryTypes, TransformsAssumption DEF TransformsAssumption
    <2> QED
      BY <1>5, <2>1 DEF SetFromClient, Set
  <1>6. ASSUME MergeIn PROVE servers' \in [Name -> Entry \union {Absent}]
    <2>1. \A n \in Name : export # Absent /\ export[n] # Absent => Parsed(Subst(export[n])) \in Entry
      BY <1>1, ParsedEntries, TransformsAssumption DEF TransformsAssumption, NameMap
    <2> QED
      BY <1>1, <1>6, <2>1 DEF MergeIn, Set
  <1>7. ASSUME NEW replace \in BOOLEAN, NEW overwrite \in BOOLEAN, NEW subst \in BOOLEAN,
               \/ \E skip \in BOOLEAN : Import(replace, overwrite, subst, skip)
               \/ ImportRefused(replace, overwrite, subst)
        PROVE  servers' \in [Name -> Entry \union {Absent}]
    <2>1. \A offered : Accepted(offered, subst) \subseteq offered
      BY DEF Accepted
    <2>2. \E ns \in SUBSET Offered(replace, overwrite) : servers' = Imported(ns, replace, subst)
      BY <1>7, <2>1 DEF Import, ImportRefused, Set
    <2> QED
      BY <2>2, ImportedTypes
  <1> QED
    BY <1>2, <1>3, <1>4, <1>5, <1>6, <1>7 DEF Changing

LEMMA ChosenStays ==
    ASSUME NEW d, NEW ns, UNCHANGED servers
    PROVE  Chosen(d)' = Chosen(d) /\ Written(d, ns)' = Written(d, ns)
  BY DEF Chosen, Configured, Has, InFlat, InGlobal, InPreset, InCustom, shouldSyncToTarget, Written, NameIn

LEMMA IInvInit == Init => IInv
  <1> SUFFICES ASSUME Init PROVE IInv
    OBVIOUS
  <1>1. PICK f \in {Absent, Unparsable} \union Owned : file = [d \in Dest |-> f]
    BY DEF Init
  <1>2. f \in Doc \union {Absent, Unparsable}
    <2>1. \A g \in NameMap : [p \in Project |-> g] \in [Project -> NameMap]
      OBVIOUS
    <2>2. ASSUME NEW g \in NameMap, f = [servers |-> None, rest |-> TRUE, projects |-> [p \in Project |-> g]]
          PROVE  f \in Doc
      BY <2>1, <2>2, EmptyMap DEF Doc
    <2> QED
      BY <1>1, <2>2 DEF Owned
  <1>3. servers \in [Name -> Entry \union {Absent}] /\ ops \in 0..MaxOps
    BY TransformsAssumption DEF Init, None, TransformsAssumption
  <1>4. TypeOK
    BY <1>1, <1>2, <1>3 DEF Init, TypeOK
  <1> QED
    BY <1>4 DEF Init, IInv, Synced

LEMMA IInvNext == IInv /\ [Next]_vars => IInv'
  <1> SUFFICES ASSUME IInv, [Next]_vars PROVE IInv'
    OBVIOUS
  <1>1. TypeOK /\ Synced /\ (same => export = Exported)
    BY DEF IInv
  <1>2. ASSUME UNCHANGED <<servers, file, export, fresh, same, dead>>, targets' \in BOOLEAN, ops' \in 0..MaxOps
        PROVE  IInv'
    BY <1>1, <1>2, ChosenStays DEF IInv, TypeOK, Synced, Exported, Has
  <1>3. CASE UNCHANGED vars
    BY <1>1, <1>2, <1>3 DEF vars, TypeOK
  <1>4. CASE Changing
    <2>1. TypeOK'
      BY <1>1, <1>4, ChangingTypes DEF TypeOK
    <2> QED
      BY <1>1, <1>4, <2>1, ChangingTypes DEF IInv, Synced
  <1>5. CASE RegisterTargets \/ RemoveTargets
    BY <1>1, <1>2, <1>5, StepTypes DEF RegisterTargets, RemoveTargets
  <1>6. CASE Export
    <2>1. Exported \in NameMap
      BY <1>1, EntryTypes DEF Exported, NameMap, TypeOK, Has
    <2>2. TypeOK'
      BY <1>1, <1>6, <2>1, StepTypes DEF Export, TypeOK
    <2>3. Exported' = Exported
      BY <1>6 DEF Export, Exported, Has
    <2> QED
      BY <1>1, <1>6, <2>2, <2>3, ChosenStays DEF Export, IInv, Synced
  <1>7. ASSUME NEW d \in Dest, SyncTo(d) PROVE IInv'
    <2>1. UNCHANGED <<servers, targets, export, same>> /\ dead' \in BOOLEAN /\ ops' \in 0..MaxOps
      BY <1>1, <1>7, StepTypes DEF SyncTo, TypeOK
    <2>2. TypeOK'
      BY <1>1, <1>7, <2>1, SyncWrites DEF TypeOK
    <2>3. Synced'
      <3>1. \A e \in Dest : Written(e, Chosen(e))' = Written(e, Chosen(e))
        BY <2>1, ChosenStays
      <3>2. fresh \subseteq Dest
        BY <1>1 DEF TypeOK
      <3> QED
        BY <1>1, <1>7, <3>1, <3>2, SyncWrites DEF Synced
    <2>4. Exported' = Exported
      BY <2>1 DEF Exported, Has
    <2> QED
      BY <1>1, <2>1, <2>2, <2>3, <2>4 DEF IInv
  <1> QED
    BY <1>3, <1>4, <1>5, <1>6, <1>7 DEF Next, Changing

THEOREM Inductive == Spec => []IInv
  BY IInvInit, IInvNext, PTL DEF Spec

\* Servers, files and exports keep their types (types.go:28).
THEOREM TypeCorrect == Spec => []TypeOK
  <1>1. IInv => TypeOK
    BY DEF IInv
  <1> QED
    BY <1>1, Inductive, PTL

-----------------------------------------------------------------------------
(* The properties.                                                          *)

LEMMA ChosenMeant ==
    ASSUME NEW d \in Filtering
    PROVE  Chosen(d) = Meant(d)
  <1>1. d \in Dest /\ Kind(d) \in {"flat", "nested", "preset"}
    BY DEF Filtering
  <1>2. CASE Kind(d) = "flat"
    BY <1>1, <1>2 DEF Chosen, Meant, InFlat, shouldSyncToTarget
  <1>3. CASE Kind(d) = "nested"
    BY <1>3 DEF Chosen, Meant, InGlobal, InFlat, shouldSyncToTarget
  <1>4. CASE Kind(d) = "preset"
    BY <1>4 DEF Chosen, Meant, InPreset
  <1> QED
    BY <1>1, <1>2, <1>3, <1>4

LEMMA ChosenConfigured == ASSUME NEW d PROVE Chosen(d) \in SUBSET Configured
  BY DEF Chosen

\* After a sync the file of a target or a preset has the servers it is meant for and no
\* others, whatever was in it and however names are sanitised (sync.go:187, presets.go:112).
THEOREM FilesFollow == Spec => []FilesFollowTheServers
  <1>1. IInv => FilesFollowTheServers
    <2> SUFFICES ASSUME IInv, NEW d \in fresh \intersect Filtering
                 PROVE  {NameIn(d, n) : n \in Meant(d)} = Listed(d) /\ HoldsEnabledOnly(d)
      BY DEF FilesFollowTheServers
    <2>1. /\ TypeOK /\ d \in Dest /\ Chosen(d) = Meant(d)
          /\ file[d] \in Doc /\ file[d].servers \in Written(d, Chosen(d))
      BY ChosenMeant DEF IInv, Synced, Filtering
    <2>2. file[d] \notin {Absent, Unparsable}
      BY <2>1, Sentinels
    <2>3. Listed(d) = {m \in Name : file[d].servers[m] # Absent}
      BY <2>2 DEF Listed
    <2>4. \A n \in Meant(d) : n \in Configured /\ servers[n].on
      BY DEF Meant
    <2> QED
      BY <2>1, <2>3, <2>4, WrittenServers, ChosenConfigured DEF HoldsEnabledOnly
  <1> QED
    BY <1>1, Inductive, PTL

\* What a preview for a preset says is what a sync would do (engine_impl.go:400).
THEOREM PreviewsAreRight == Spec => []PreviewIsRight
  <1>1. IInv => PreviewIsRight
    <2> SUFFICES ASSUME IInv, NEW d \in Dest, Kind(d) = "preset", NEW doc \in Docs(d)
                 PROVE  LET after == {n \in Name : doc.servers[n] # Absent} IN
                        /\ PreviewAdds(d) = after \ Listed(d)
                        /\ PreviewRemoves(d) \subseteq Listed(d) \ after
      BY DEF PreviewIsRight
    <2>1. TypeOK /\ doc.servers \in Written(d, Chosen(d))
      BY AnewTypes DEF IInv, Docs
    <2>2. \A n \in Name : NameIn(d, n) = n
      BY DEF NameIn
    <2>3. Chosen(d) = {n \in Configured : servers[n].on}
      BY ChosenMeant DEF Filtering, Meant
    <2>4. {n \in Name : doc.servers[n] # Absent} = Chosen(d)
      <3>1. {NameIn(d, n) : n \in Chosen(d)} = Chosen(d)
        BY <2>2, ChosenConfigured DEF Configured
      <3> QED
        BY <2>1, <3>1, WrittenServers, ChosenConfigured
    <2> QED
      BY <2>3, <2>4 DEF PreviewAdds, PreviewRemoves
  <1> QED
    BY <1>1, Inductive, PTL

\* A sync to a "project-nested" target leaves alone what its file's owner keeps there
\* (sync.go:231).
THEOREM OwnersKeep == Spec => OwnersKeepTheirs
  <1> DEFINE Keeps(d) ==
        Kind(d) = "nested" /\ file[d] # Absent /\ file'[d] # file[d] =>
          /\ file[d] # Unparsable
          /\ file'[d].rest = file[d].rest
          /\ \A p \in Project : OfProject(p) = {} => file'[d].projects[p] = file[d].projects[p]
  <1>1. IInv /\ [Next]_vars => [\A d \in Dest : Keeps(d)]_vars
    <2> SUFFICES ASSUME IInv, Next, NEW d \in Dest, Kind(d) = "nested", file[d] # Absent,
                        file'[d] # file[d]
                 PROVE  /\ file[d] # Unparsable
                        /\ file'[d].rest = file[d].rest
                        /\ \A p \in Project : OfProject(p) = {} => file'[d].projects[p] = file[d].projects[p]
      OBVIOUS
    <2>1. TypeOK
      BY DEF IInv
    <2>2. ~Changing /\ ~RegisterTargets /\ ~RemoveTargets /\ ~Export
      BY <2>1, ChangingTypes DEF RegisterTargets, RemoveTargets, Export
    <2>3. PICK e \in Dest : SyncTo(e)
      BY <2>2 DEF Next, Changing
    <2>4. e = d
      BY <2>1, <2>3, SyncWrites
    <2>5. file[d] # Unparsable /\ \E doc \in Nested(d) : file' = [file EXCEPT ![d] = doc]
      BY <2>3, <2>4 DEF SyncTo, Docs
    <2>6. file[d] \in Doc
      BY <2>1, <2>5 DEF TypeOK
    <2>7. file'[d] \in Nested(d)
      BY <2>1, <2>5 DEF TypeOK
    <2> QED
      BY <2>1, <2>5, <2>6, <2>7, NestedKeeps
  <1> QED
    BY <1>1, Inductive, PTL DEF Spec, OwnersKeepTheirs

\* Importing an export in place of the servers gives the enabled ones back, without those
\* that the validator refuses if the import may skip them (import_export.go:90).
THEOREM ExportsComeBack == Spec => RoundTrip
  <1> DEFINE Enabled == {n \in Configured : servers[n].on}
             Kept    == {n \in Name : servers'[n] # Absent}
             Takes(subst) == {n \in Enabled : <<n, Given(servers[n].cfg, subst)>> \notin Refused}
             Right(o, subst) ==
               /\ (\E skip \in BOOLEAN : Import(TRUE, o, subst, skip)) => Kept = Takes(subst)
               /\ Import(TRUE, o, subst, FALSE) => Kept = Enabled
               /\ (ImportRefused(TRUE, o, subst) \/ \E skip \in BOOLEAN : Import(TRUE, o, subst, skip)) =>
                    \A n \in Kept : n \in Enabled /\ servers'[n].cfg = Given(servers[n].cfg, subst)
  <1>1. IInv /\ [Next]_vars => [\A o, subst \in BOOLEAN : same => Right(o, subst)]_vars
    <2> SUFFICES ASSUME IInv, same, NEW o \in BOOLEAN, NEW subst \in BOOLEAN
                 PROVE  Right(o, subst)
      OBVIOUS
    <2>1. TypeOK /\ export = Exported
      BY DEF IInv
    <2>2. /\ Offered(TRUE, o) = {n \in Name : export[n] # Absent} \/ export = Absent
          /\ \A n \in Name : export[n] = IF Has(n) /\ servers[n].on THEN servers[n].cfg ELSE Absent
      BY <2>1 DEF Offered, Exported
    <2>3. \A n \in Configured : servers[n].cfg \in Cfg /\ n \in Name
      BY <2>1, ConfiguredEntry
    <2>4. ASSUME export # Absent
          PROVE  /\ Offered(TRUE, o) = Enabled /\ \A n \in Enabled : export[n] = servers[n].cfg
                 /\ Accepted(Enabled, subst) = Takes(subst)
      <3>1. Offered(TRUE, o) = Enabled /\ \A n \in Enabled : export[n] = servers[n].cfg
        BY <2>2, <2>3, <2>4, Sentinels DEF Configured
      <3> QED
        BY <3>1 DEF Accepted
    <2>5. ASSUME export # Absent, NEW ns \in SUBSET Enabled, servers' = Imported(ns, TRUE, subst)
          PROVE  Kept = ns /\ \A n \in ns : servers'[n].cfg = Given(servers[n].cfg, subst)
      <3>1. ns \in SUBSET Offered(TRUE, o)
        BY <2>4, <2>5
      <3>2. TRUE => {n \in Name : Imported(ns, TRUE, subst)[n] # Absent} = ns
        BY <2>1, <3>1, ImportedTypes
      <3>3. \A n \in ns : Imported(ns, TRUE, subst)[n].cfg = Given(export[n], subst)
        BY <2>1, <3>1, ImportedTypes
      <3>4. \A n \in ns : export[n] = servers[n].cfg
        BY <2>4, <2>5
      <3> QED
        BY <2>5, <3>2, <3>3, <3>4
    <2>6. Takes(subst) \in SUBSET Enabled
      OBVIOUS
    <2>7. \A skip \in BOOLEAN : Import(TRUE, o, subst, skip) =>
            /\ Kept = Takes(subst) /\ (skip \/ Takes(subst) = Enabled)
            /\ \A n \in Kept : n \in Enabled /\ servers'[n].cfg = Given(servers[n].cfg, subst)
      <3> SUFFICES ASSUME NEW skip \in BOOLEAN, Import(TRUE, o, subst, skip)
                   PROVE  /\ Kept = Takes(subst) /\ (skip \/ Takes(subst) = Enabled)
                          /\ \A n \in Kept : n \in Enabled /\ servers'[n].cfg = Given(servers[n].cfg, subst)
        OBVIOUS
      <3>1. export # Absent /\ servers' = Imported(Takes(subst), TRUE, subst)
            /\ (skip \/ Takes(subst) = Enabled)
        BY <2>4 DEF Import, Set
      <3> QED
        BY <2>5, <2>6, <3>1
    <2>8. ASSUME ImportRefused(TRUE, o, subst)
          PROVE  \A n \in Kept : n \in Enabled /\ servers'[n].cfg = Given(servers[n].cfg, subst)
      <3>1. export # Absent
        BY <2>8 DEF ImportRefused, Offered, Accepted
      <3>2. PICK ns \in SUBSET Takes(subst) : servers' = Imported(ns, TRUE, subst)
        BY <2>4, <2>8, <3>1 DEF ImportRefused, Set
      <3> QED
        BY <2>5, <2>6, <3>1, <3>2
    <2>9. (\E skip \in BOOLEAN : Import(TRUE, o, subst, skip)) => Kept = Takes(subst)
      BY <2>7
    <2>10. Import(TRUE, o, subst, FALSE) => Kept = Enabled
      BY <2>7
    <2>11. (ImportRefused(TRUE, o, subst) \/ \E skip \in BOOLEAN : Import(TRUE, o, subst, skip)) =>
             \A n \in Kept : n \in Enabled /\ servers'[n].cfg = Given(servers[n].cfg, subst)
      BY <2>7, <2>8
    <2> QED
      BY <2>9, <2>10, <2>11
  <1> QED
    BY <1>1, Inductive, PTL DEF Spec, RoundTrip
=============================================================================

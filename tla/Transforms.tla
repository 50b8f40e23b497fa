----------------------------- MODULE Transforms -----------------------------
(***************************************************************************)
(* What becomes of the servers on their way: into the files of legacy      *)
(* targets (sync.go), of presets (presets/presets.go), of the daemon's own *)
(* destinations (daemon/preset_init.go) and of plain files                 *)
(* (generic_destinations.go), through an export and an import              *)
(* (import_export.go, mcp_types.go), a merge, and through a client that    *)
(* reads the configuration and sets it again (daemon/conversions.go).      *)
(*                                                                         *)
(* A server's ServerConfig is a value; of its metadata remains what the    *)
(* transforms look at.  A file that parses is its servers, what else its   *)
(* owner keeps in it, and the servers of its projects.  Here a sync is one *)
(* step and does not fail; SyncFanout has its steps and its failures.      *)
(***************************************************************************)
EXTENDS Naturals, FiniteSets

CONSTANTS Name, Cfg,
          Sanitize(_),  \* SanitizeServerName
          Bare(_),      \* a ServerConfig as a client's SetConfig sends it: no metadata
          Subst(_),     \* SubstituteVariables with the daemon's environment
          Refused,      \* servers, <<name, ServerConfig>>, that the validator refuses; without one, none
          Off,          \* those whose metadata has "enabled": false
          Dest,
          Kind(_),      \* "flat" and "nested" targets; "preset", "custom" and "file" destinations
          Foreign,      \* the targets and the project of servers that other programs configure
          Project,      \* paths of projects
          Absent,       \* "no server", "no project", "no file", "no export"
          Unparsable,   \* a file that does not parse
          MaxOps        \* bound

ASSUME TransformsAssumption ==
    /\ \A n \in Name : Sanitize(n) \in Name /\ Sanitize(Sanitize(n)) = Sanitize(n)
    /\ \A c \in Cfg : Bare(c) \in Cfg \ Off /\ Subst(c) \in Cfg
    /\ Off \subseteq Cfg /\ MaxOps \in Nat
    /\ \A d \in Dest : Kind(d) \in {"flat", "nested", "preset", "custom", "file"}
    /\ Absent \notin Cfg \union Project

\* SyncTargets and ExcludeFromTargets
Audience == [include : SUBSET (Dest \union {"all"}), exclude : SUBSET Dest]
Everyone == [include |-> {"all"}, exclude |-> {}]
NoTarget == [include |-> {}, exclude |-> {}]

ASSUME ForeignAssumption == Foreign \subseteq [for : Audience, project : Project \union {Absent}]

Entry   == [cfg : Cfg, on : BOOLEAN, for : Audience, project : Project \union {Absent}]
NameMap == [Name -> Cfg \union {Absent}]
Doc     == [servers : NameMap, rest : BOOLEAN, projects : [Project -> NameMap]]

\* what stands for "none" is no value
ASSUME SentinelAssumption ==
    /\ Absent \notin Entry \union Doc
    /\ Unparsable \notin Doc

VARIABLES
    servers,  \* config.Servers
    targets,  \* config.Targets has the legacy targets
    file,     \* of each destination
    export,   \* what Export gave last
    fresh,    \* observer: the destinations synced since the servers changed
    same,     \* observer: the servers are those that were exported
    dead, ops

vars == <<servers, targets, file, export, fresh, same, dead, ops>>

None == [n \in Name |-> Absent]

\* a file of its owner, who may have servers of a project in it
Owned == {[servers |-> None, rest |-> TRUE, projects |-> [p \in Project |-> f]] : f \in NameMap}

Init ==
    /\ servers = None /\ targets = TRUE
    /\ \E f \in {Absent, Unparsable} \union Owned : file = [d \in Dest |-> f]
    /\ export = Absent /\ fresh = {} /\ same = FALSE /\ dead = FALSE /\ ops = 0

Step == ~dead /\ ops < MaxOps /\ ops' = ops + 1
Has(n) == servers[n] # Absent
Configured == {n \in Name : Has(n)}

-----------------------------------------------------------------------------
(* The servers change.                                                     *)

Set(s) ==
    /\ servers' = s
    /\ fresh' = {} /\ same' = FALSE
    /\ UNCHANGED <<file, dead>>

Keeping == UNCHANGED <<targets, export>>

Added(c) == [cfg |-> c, on |-> TRUE, for |-> Everyone, project |-> Absent]

AddServer(n, c) ==
    /\ Step /\ ~Has(n)
    /\ Set([servers EXCEPT ![n] = Added(c)]) /\ Keeping

UpdateServer(n, c) ==
    /\ Step /\ Has(n)
    /\ Set([servers EXCEPT ![n].cfg = c]) /\ Keeping

\* EnableServer and DisableServer
SetEnabled(n, on) ==
    /\ Step /\ Has(n)
    /\ Set([servers EXCEPT ![n].on = on]) /\ Keeping

RemoveServer(n) ==
    /\ Step /\ Has(n)
    /\ Set([servers EXCEPT ![n] = Absent]) /\ Keeping

\* a configuration file that another program wrote: a server of a project or of none, with
\* the targets that it names
LoadServer(n, c, f) ==
    /\ Step
    /\ Set([servers EXCEPT ![n] = [cfg |-> c, on |-> TRUE, for |-> f.for, project |-> f.project]])
    /\ Keeping

\* RegisterTarget of each of the legacy targets, and RemoveTarget
RegisterTargets ==
    /\ Step /\ ~targets
    /\ targets' = TRUE
    /\ UNCHANGED <<servers, file, export, fresh, same, dead>>

RemoveTargets ==
    /\ Step /\ targets
    /\ targets' = FALSE
    /\ UNCHANGED <<servers, file, export, fresh, same, dead>>

\* a client that calls GetConfig and then SetConfig with what it got
SetFromClient ==
    /\ Step
    /\ Set([n \in Name |-> IF Has(n) THEN [cfg |-> Bare(servers[n].cfg), on |-> servers[n].on,
                                           for |-> NoTarget, project |-> Absent]
                           ELSE Absent])
    /\ targets' = FALSE /\ UNCHANGED export

\* Fault variant of Exported: disabled servers are exported too
ExportedAll == [n \in Name |-> IF Has(n) THEN servers[n].cfg ELSE Absent]

Exported == [n \in Name |-> IF Has(n) /\ servers[n].on THEN servers[n].cfg ELSE Absent]

Export ==
    /\ Step
    /\ export' = Exported /\ same' = TRUE
    /\ UNCHANGED <<servers, targets, file, fresh, dead>>

\* what the parser makes of a server: enabled, and of no target
Parsed(c) == [cfg |-> c, on |-> TRUE, for |-> NoTarget, project |-> Absent]

\* option SubstituteEnvVars
Given(c, subst) == IF subst THEN Subst(c) ELSE c

\* what an import would write: OverwriteExisting is not looked at in a map that is empty
Offered(replace, overwrite) ==
    IF export = Absent THEN {}
    ELSE {n \in Name : export[n] # Absent /\ (replace \/ overwrite \/ ~Has(n))}

Accepted(ns, subst) == {n \in ns : <<n, Given(export[n], subst)>> \notin Refused}

\* the servers ns are written over what is there, or in place of it
Imported(ns, replace, subst) ==
    [n \in Name |-> IF n \in ns THEN Parsed(Given(export[n], subst))
                    ELSE IF replace THEN Absent ELSE servers[n]]

\* option SkipInvalid: those that the validator refuses are left out
Import(replace, overwrite, subst, skip) ==
    LET offered == Offered(replace, overwrite)
        valid   == Accepted(offered, subst) IN
    /\ Step /\ export # Absent
    /\ skip \/ valid = offered
    /\ Set(Imported(valid, replace, subst)) /\ Keeping

\* without it the first refused one ends the import with an error; those before it, in no
\* fixed order, are in memory, and with replace all that was there is gone
ImportRefused(replace, overwrite, subst) ==
    LET offered == Offered(replace, overwrite)
        valid   == Accepted(offered, subst) IN
    /\ Step /\ valid # offered
    /\ \E ns \in SUBSET valid : Set(Imported(ns, replace, subst))
    /\ Keeping

\* SetConfig of MergeConfigs of the configuration and an export that ParseMCPConfig parsed:
\* the last one wins, variables are substituted, and the targets are left out
MergeIn ==
    /\ Step /\ export # Absent
    /\ Set([n \in Name |-> IF export[n] # Absent THEN Parsed(Subst(export[n])) ELSE servers[n]])
    /\ targets' = FALSE /\ UNCHANGED export

-----------------------------------------------------------------------------
(* Syncs.                                                                  *)

\* the tests that a server passes to be written: for targets, presets and the daemon's own
\* destinations; a plain file gets all servers
shouldSyncToTarget(n, d) ==
    /\ d \notin servers[n].for.exclude
    /\ servers[n].for.include \intersect {"all", d} # {}

\* Fault variant of InFlat: disabled servers are written
InFlatAll(n, d) == shouldSyncToTarget(n, d)

InFlat(n, d)   == servers[n].on /\ shouldSyncToTarget(n, d)
InGlobal(n, d) == InFlat(n, d) /\ servers[n].project = Absent
InPreset(n)  == servers[n].on
InCustom(n)  == servers[n].cfg \notin Off

Chosen(d) ==
    {n \in Configured : CASE Kind(d) = "flat"   -> InFlat(n, d)
                          [] Kind(d) = "nested" -> InGlobal(n, d)
                          [] Kind(d) = "preset" -> InPreset(n)
                          [] Kind(d) = "custom" -> InCustom(n)
                          [] OTHER              -> TRUE}

\* only targets sanitise the names, no preset of the repository does
NameIn(d, n) == IF Kind(d) \in {"flat", "nested"} THEN Sanitize(n) ELSE n

\* the maps that a loop over the servers ns may leave: of two with one name in the file, the
\* last wins, in no fixed order
Written(d, ns) ==
    {f \in NameMap : \A m \in Name :
       LET from == {n \in ns : NameIn(d, n) = m} IN
       IF from = {} THEN f[m] = Absent ELSE \E n \in from : f[m] = servers[n].cfg}

\* a project that is in the file gets its servers, enabled or not, if there are any
OfProject(p) == {n \in Configured : servers[n].project = p}
WrittenIn(d, p, old) == IF OfProject(p) = {} THEN {old} ELSE Written(d, OfProject(p))

\* the others write the whole file anew
Anew(d) ==
    {[servers |-> f, rest |-> FALSE, projects |-> [p \in Project |-> None]] :
       f \in Written(d, Chosen(d))}

\* Fault variant of Nested: the file is not read before it is written
NestedAnew(d) == Anew(d)

\* what a "project-nested" target leaves in its file
ProjectsAfter(d) == {g \in [Project -> NameMap] :
                       \A p \in Project : g[p] \in WrittenIn(d, p, file[d].projects[p])}
Amended(d) == {[servers |-> f, rest |-> file[d].rest, projects |-> g] :
                 f \in Written(d, Chosen(d)), g \in ProjectsAfter(d)}
Nested(d)  == IF file[d] = Absent THEN Anew(d) ELSE Amended(d)

Docs(d) == IF Kind(d) = "nested" THEN Nested(d) ELSE Anew(d)

SyncTo(d) ==
    /\ Step /\ (Kind(d) \in {"flat", "nested"} => targets)
    /\ IF Kind(d) = "nested" /\ file[d] = Unparsable
       THEN dead' = TRUE /\ UNCHANGED <<file, fresh>>     \* assignment to a nil map
       ELSE /\ \E doc \in Docs(d) : file' = [file EXCEPT ![d] = doc]
            /\ fresh' = fresh \union {d} /\ UNCHANGED dead
    /\ UNCHANGED <<servers, targets, export, same>>

-----------------------------------------------------------------------------
Next ==
    \/ \E n \in Name : \/ \E c \in Cfg : \/ AddServer(n, c) \/ UpdateServer(n, c)
                                         \/ \E f \in Foreign : LoadServer(n, c, f)
                       \/ \E on \in BOOLEAN : SetEnabled(n, on)
                       \/ RemoveServer(n)
    \/ RegisterTargets \/ RemoveTargets \/ SetFromClient \/ Export \/ MergeIn
    \/ \E replace, overwrite, subst \in BOOLEAN :
         \/ \E skip \in BOOLEAN : Import(replace, overwrite, subst, skip)
         \/ ImportRefused(replace, overwrite, subst)
    \/ \E d \in Dest : SyncTo(d)

Spec == Init /\ [][Next]_vars

-----------------------------------------------------------------------------
(* PreviewSync, over what is in the file now.                              *)

Listed(d) == IF file[d] \in {Absent, Unparsable} THEN {}
             ELSE {n \in Name : file[d].servers[n] # Absent}

\* Fault variant of PreviewAdds: disabled servers are shown
PreviewAddsAll(d) == Configured \ Listed(d)

PreviewAdds(d) == {n \in Configured : servers[n].on} \ Listed(d)

PreviewRemoves(d) == Listed(d) \ Configured

-----------------------------------------------------------------------------
(* Properties.                                                             *)

TypeOK ==
    /\ servers \in [Name -> Entry \union {Absent}] /\ targets \in BOOLEAN
    /\ file \in [Dest -> Doc \union {Absent, Unparsable}]
    /\ export \in NameMap \union {Absent}
    /\ fresh \subseteq Dest /\ same \in BOOLEAN /\ dead \in BOOLEAN /\ ops \in 0..MaxOps

Filtering == {d \in Dest : Kind(d) \in {"flat", "nested", "preset"}}

\* the servers that a destination is meant for
Meant(d) == {n \in Configured : /\ servers[n].on
                                /\ Kind(d) # "preset" =>
                                     /\ servers[n].for.include \intersect {"all", d} # {}
                                     /\ d \notin servers[n].for.exclude
                                /\ Kind(d) = "nested" => servers[n].project = Absent}

\* a file's servers are enabled ones
HoldsEnabledOnly(d) ==
    \A m \in Listed(d) : \E n \in Configured :
       NameIn(d, n) = m /\ servers[n].on /\ servers[n].cfg = file[d].servers[m]

\* After a sync the file of a target or a preset has every server that it is meant for, under
\* its own name if no other has that, and otherwise one of those; and whatever was in the
\* file before, it has no disabled server, no removed one and no older configuration
\* (sync.go:187-290, presets.go:112-129).
FilesFollowTheServers ==
    \A d \in fresh \intersect Filtering :
       /\ {NameIn(d, n) : n \in Meant(d)} = Listed(d)
       /\ HoldsEnabledOnly(d)

\* A sync to a "project-nested" target leaves alone what the file's owner keeps there, and
\* the servers of the projects that have none in the configuration (sync.go:231: "Read
\* existing config to preserve non-MCP settings").
OwnersKeepTheirs ==
    [][\A d \in Dest : Kind(d) = "nested" /\ file[d] # Absent /\ file'[d] # file[d] =>
         /\ file[d] # Unparsable
         /\ file'[d].rest = file[d].rest
         /\ \A p \in Project : OfProject(p) = {} => file'[d].projects[p] = file[d].projects[p]]_vars

\* An import that puts an export in the place of the servers it was made from, and succeeds,
\* leaves exactly the enabled ones, each with its configuration, its variables substituted
\* if that is asked for; those that the validator refuses are missing only if it may skip
\* them.  One that fails leaves no disabled server either (import_export.go:15, 90).
RoundTrip ==
    [][\A o, subst \in BOOLEAN : same =>
         LET enabled == {n \in Configured : servers[n].on}
             kept    == {n \in Name : servers'[n] # Absent} IN
         /\ (\E skip \in BOOLEAN : Import(TRUE, o, subst, skip)) =>
              kept = {n \in enabled : <<n, Given(servers[n].cfg, subst)>> \notin Refused}
         /\ Import(TRUE, o, subst, FALSE) => kept = enabled
         /\ (ImportRefused(TRUE, o, subst) \/ \E skip \in BOOLEAN : Import(TRUE, o, subst, skip)) =>
              \A n \in kept : n \in enabled /\ servers'[n].cfg = Given(servers[n].cfg, subst)]_vars

\* A preview for a preset names as added exactly the servers that a sync would add to the
\* file, and as removed none that the sync would leave there (engine_impl.go:400-496).
PreviewIsRight ==
    \A d \in Dest : Kind(d) = "preset" => \A doc \in Docs(d) :
       LET after == {n \in Name : doc.servers[n] # Absent} IN
       /\ PreviewAdds(d) = after \ Listed(d)
       /\ PreviewRemoves(d) \subseteq Listed(d) \ after

\* What preset_init.go says of the daemon's own destinations, windsurf and zed: "Only
\* include enabled servers" (preset_init.go:120, 141).
DisabledStayAway == \A d \in fresh : Kind(d) = "custom" => HoldsEnabledOnly(d)
=============================================================================

------------------------------ MODULE Projects ------------------------------
(***************************************************************************)
(* Finding projects on disk (project_manager.go) and reading the servers   *)
(* that a project's files configure (mcp_types.go), as functions of a      *)
(* directory tree.  A path is the sequence of its names; a tree maps the   *)
(* path of every directory to whether it can be read and to the files in   *)
(* it that matter; the parsed content of such a file maps each section it  *)
(* has to servers by name.                                                 *)
(***************************************************************************)
EXTENDS Naturals, Sequences, FiniteSets, SequencesExt, Functions

CONSTANTS Home,       \* os.UserHomeDir, a path
          Garbled     \* the content of a file that cannot be read or parsed

expandPath(path) ==
    IF path # <<>> /\ Head(path) = "~" THEN Home \o Tail(path) ELSE path

-----------------------------------------------------------------------------
(* What a project's files say.                                             *)

\* the files that NewDefaultProjectDetector looks for, a manifest of any language as "go.mod"
ConfigFiles == {"go.mod", "mcp.json", "mcp-config.json", ".mcp/config.json"}

\* the first of a list that is in S
FirstOf(list, S) == list[Min({i \in DOMAIN list : list[i] \in S})]

\* mcp.servers before mcpServers before servers; a file without any has no servers
Sections == <<"mcp", "mcpServers", "servers">>
ToConfig(content) ==
    IF Range(Sections) \intersect DOMAIN content = {} THEN [n \in {} |-> n]
    ELSE content[FirstOf(Sections, DOMAIN content)]

\* the first file that parses, were it empty, hides the others
McpConfigs == <<"mcp.json", "mcp-config.json", ".mcp/config.json">>
DetectProject(files) ==
    LET parsed == {f \in DOMAIN files : f \in Range(McpConfigs) /\ files[f] # Garbled} IN
    IF parsed = {} THEN [n \in {} |-> n] ELSE ToConfig(files[FirstOf(McpConfigs, parsed)])

IsProjectRoot(tree, path) == path \in DOMAIN tree /\ DOMAIN tree[path].files # {}

-----------------------------------------------------------------------------
(* The scan.                                                               *)

\* what is in a directory is in those above it
IsTree(tree) == \A q \in DOMAIN tree : q \in Seq(STRING) /\ \A i \in 0..Len(q) : SubSeq(q, 1, i) \in DOMAIN tree

Children(tree, path) == {q \in DOMAIN tree : q # <<>> /\ Front(q) = path}

\* Settings.ProjectScanning, or the defaults.  What is excluded are the names that have
\* an excluded word anywhere in them: "build" excludes "rebuilt".
MaxDepth(scan) == IF scan.maxDepth > 0 THEN scan.maxDepth ELSE 3
shouldExclude(scan, name) ==
    name \in (IF scan.exclude # {} THEN scan.exclude ELSE {"build", "rebuilt", "node_modules"})

\* the directories that are looked at below path, the deepest ones depth below it
Visited(tree, scan, path, depth) ==
    LET below[left \in 0..depth] ==
          [p \in DOMAIN tree |->
             IF left = 0 \/ ~tree[p].readable THEN {}
             ELSE LET entries == {q \in Children(tree, p) : ~shouldExclude(scan, Last(q))}
                  IN  entries \union UNION {below[left - 1][q] : q \in entries}]
    IN below[depth][path]

\* Fault variant of scanDirectory: the depth is compared one too late
scanTooDeep(tree, scan, path) ==
    {q \in Visited(tree, scan, path, MaxDepth(scan) + 1) : IsProjectRoot(tree, q)}

\* the projects strictly below path
scanDirectory(tree, scan, path) ==
    {q \in Visited(tree, scan, path, MaxDepth(scan)) : IsProjectRoot(tree, q)}

\* a root that cannot be listed is given up, though it may be a project itself
scanPath(tree, scan, path) ==
    IF ~tree[path].readable THEN {}
    ELSE (IF IsProjectRoot(tree, path) THEN {path} ELSE {}) \union scanDirectory(tree, scan, path)

\* the projects that a list of roots leads to, each with the roots that lead to it: it is
\* reported once for each of them
ScanForProjects(tree, scan, paths) ==
    LET roots == {expandPath(p) : p \in paths} \intersect DOMAIN tree IN
    [q \in UNION {scanPath(tree, scan, r) : r \in roots} |->
       {r \in roots : q \in scanPath(tree, scan, r)}]

-----------------------------------------------------------------------------
(* What a scan is meant to find.                                           *)

\* q lies under root, not too deep, and nothing on the way is excluded or unreadable
Within(tree, scan, root, q) ==
    /\ IsPrefix(root, q)
    /\ Len(q) - Len(root) <= MaxDepth(scan)
    /\ \A i \in (Len(root) + 1)..Len(q) : ~shouldExclude(scan, q[i])
    /\ \A i \in Len(root)..Len(q) : i < Len(q) \/ q = root => tree[SubSeq(q, 1, i)].readable

ToFind(tree, scan, root) == {q \in DOMAIN tree : IsProjectRoot(tree, q) /\ Within(tree, scan, root, q)}
=============================================================================

-------------------------------- MODULE Wire --------------------------------
(***************************************************************************)
(* What the daemon's messages carry, and what they lose: programs read the *)
(* servers and the projects of the daemon, change what they read and write *)
(* it back (daemon/client/client.go, daemon/service.go, service_fixes.go,  *)
(* conversions.go; the messages of daemon/proto/daemon.pb.go; the engine   *)
(* of server_manager.go and project_manager.go).                           *)
(*                                                                         *)
(* Every call succeeds at the first attempt and every save succeeds:       *)
(* Remote is about the others.  A refused call changes nothing and is no   *)
(* step.  Handlers are as atomic as the engine's lock makes them: the      *)
(* operation, and the GetServer that fetches its answer.                   *)
(***************************************************************************)
EXTENDS Projects

CONSTANTS Clients, Names,
          Composed,   \* configurations that clients write themselves
          Said,       \* paths that clients register projects under
          Roots,      \* paths that clients have scanned
          Filters,    \* what clients ask ListServers for
          Files,      \* configuration files the daemon may be given, read at its start
          Trees,      \* directory trees
          Substituted(_), \* SubstituteVariables with the daemon's environment, of what it changes
          NoServer,
          MaxCalls    \* bound: calls of all clients

-----------------------------------------------------------------------------
(* Messages.                                                               *)

\* transport, command with its arguments and environment, and URL
NoBody == [transport |-> "", command |-> "", url |-> ""]
\* NoBody is one of the records: the provers do not know that "" is a string
Bodies == [transport : STRING, command : STRING, url : STRING] \union {NoBody}

\* the metadata under one key: nothing, a text, or another JSON value; messages carry texts
Texts == {[text |-> TRUE, v |-> v] : v \in {"a", "7"}}
Metas == {{}} \union {{x} : x \in Texts} \union {{[text |-> FALSE, v |-> "7"]}}

ServerConfig == [body : Bodies, on : BOOLEAN, meta : {m \in Metas : m \subseteq Texts}]
ServerInfo   == [name : Names, config : ServerConfig, source : {"user", ""}]

AddServerRequest     == [name : Names, config : ServerConfig]
UpdateServerRequest  == [name : Names, config : ServerConfig]
RemoveServerRequest  == [name : Names]
GetServerRequest     == [name : Names]
EnableServerRequest  == [name : Names]
DisableServerRequest == [name : Names]
ServerFilter         == [enabledOnly : BOOLEAN, transport : {"", "stdio", "sse"}, source : {"", "user"}]
ListServersRequest   == [filter : Filters]
ServerResponse       == [kind : {"server"}, server : ServerInfo]
ListServersResponse  == [kind : {"servers"}, infos : SUBSET ServerInfo]
Config               == [kind : {"config"}, servers : [Names -> ServerConfig \union {NoServer}]]

\* a list of servers, without their names
ProjectConfig           == Seq(ServerConfig)
ScanForProjectsRequest  == [root : Roots]
RegisterProjectRequest  == [path : Said, config : ProjectConfig]
GetProjectConfigRequest == [path : Said]
ProjectInfo             == [path : Seq(STRING), config : ProjectConfig]
ProjectConfigResponse   == [kind : {"project"}, config : ProjectConfig]
ScanForProjectsResponse == [kind : {"found"}, projects : SUBSET ProjectInfo]
ListProjectsResponse    == [kind : {"projects"}, projects : SUBSET ProjectInfo]

NoAnswer  == [kind |-> "none"]
Awaited   == [kind : {"awaited"}, name : Names]
IsAnswer(a) ==
    \/ a = NoAnswer \/ a \in Awaited
    \/ a \in ServerResponse
    \/ a.kind = "servers"  /\ a.infos \subseteq ServerInfo
    \/ a.kind = "config"   /\ a \in Config
    \/ a.kind = "project"  /\ a.config \in ProjectConfig
    \/ a.kind \in {"found", "projects"} /\ \A p \in a.projects : p.config \in ProjectConfig

-----------------------------------------------------------------------------
(* The engine's own values.                                                *)

EngineServers == [body : Bodies, headers : BOOLEAN, meta : Metas, on : BOOLEAN,
                  all : BOOLEAN,     \* SyncTargets is <<"all">>, or empty
                  source : {"user", ""}]
NoScan == [maxDepth |-> 0, exclude |-> {}]

Valid(body) ==
    /\ body.transport \in {"stdio", "sse"}
    /\ body.transport = "stdio" => body.command # ""
    /\ body.transport = "sse" => body.url # ""

ToTexts(meta) == {[text |-> TRUE, v |-> x.v] : x \in meta}

\* Fault variant of serverToWire: metadata go as they are
serverRaw(s) == [body |-> s.body, on |-> s.on, meta |-> s.meta]

serverToWire(s) == [body |-> s.body, on |-> s.on, meta |-> ToTexts(s.meta)]
serverToProto(n, s) == [name |-> n, config |-> serverToWire(s), source |-> s.source]

\* Fault variant of engineConfigToProto: a field is left out
engineConfigUnsteady(servers) ==
    [n \in Names |-> IF servers[n] = NoServer THEN NoServer
                     ELSE [body |-> servers[n].body, on |-> FALSE, meta |-> {}]]

\* without metadata
engineConfigToProto(servers) ==
    [n \in Names |-> IF servers[n] = NoServer THEN NoServer
                     ELSE [body |-> servers[n].body, on |-> servers[n].on, meta |-> {}]]

protoToServerConfig(m) ==
    [body |-> m.body, headers |-> FALSE, meta |-> m.meta, on |-> m.on, all |-> FALSE, source |-> ""]

\* a whole configuration, of servers only
protoToEngineConfig(servers) ==
    [servers |-> [n \in Names |-> IF servers[n] = NoServer THEN NoServer
                                  ELSE [protoToServerConfig(servers[n]) EXCEPT !.meta = {}]],
     projects |-> [p \in {} |-> p], scan |-> NoScan]

\* ListServers answers with a name and whether it is enabled
listedToProto(n, s) ==
    [name |-> n, config |-> [body |-> NoBody, on |-> s.on, meta |-> {}], source |-> ""]

Matches(s, filter) ==
    /\ filter.enabledOnly => s.on
    /\ filter.transport \in {"", s.body.transport}
    /\ filter.source \in {"", s.source}

\* Fault variant of pbToEngineProjectConfig: the first of several servers of a command stays
projectKeepingFirst(list) ==
    [k \in {s.body.command : s \in Range(list)} |->
       protoToServerConfig(list[Min({i \in DOMAIN list : list[i].body.command = k})])]

\* a project's servers get their commands as names: the last one of a command stays
pbToEngineProjectConfig(list) ==
    [k \in {s.body.command : s \in Range(list)} |->
       protoToServerConfig(list[Max({i \in DOMAIN list : list[i].body.command = k})])]

\* the lists that a project's map of servers may be turned into
engineProjectConfigToPB(servers) ==
    {[i \in DOMAIN order |-> serverToWire(servers[order[i]])] : order \in SetToSeqs(DOMAIN servers)}

\* parseMCPConfig: what a scan makes of the servers it reads, whose variables are substituted
Scanned(bodies) ==
    [n \in DOMAIN bodies |-> [body |-> Substituted(bodies[n]), headers |-> FALSE, meta |-> {}, on |-> TRUE,
                              all |-> FALSE, source |-> ""]]

-----------------------------------------------------------------------------
VARIABLES
    config,   \* engine.config
    file,     \* the configuration file that LoadConfig is given
    saving,   \* engine.configPath is that file
    tree,     \* the disk's directories
    held,     \* the latest answer of each client
    calls,
    wrote,    \* observer: each server as the last call about it left it
    behind,   \* observer: the servers written since a client read the configuration
    stale,    \* observer: servers overwritten from a configuration read before
    asked     \* observer: the servers each project was last registered with

observers == <<wrote, behind, stale, asked>>
wireVars == <<config, file, saving, tree, held, calls, observers>>

\* a configuration of the engine: Go's maps are finite
IsConfig(x) ==
    /\ x = [servers |-> x.servers, projects |-> x.projects, scan |-> x.scan]
    /\ x.servers \in [Names -> EngineServers \union {NoServer}]
    /\ \A p \in DOMAIN x.projects :
         IsFiniteSet(DOMAIN x.projects[p]) /\ Range(x.projects[p]) \subseteq EngineServers
    /\ x.scan.maxDepth \in Nat

ASSUME WireAssumption ==
    /\ MaxCalls \in Nat
    /\ Composed \subseteq ServerConfig
    /\ NoServer \notin EngineServers \union ServerConfig \union [body : Bodies, on : BOOLEAN]
    /\ \A f \in Files : IsConfig(f)
    /\ \A t \in Trees : IsTree(t) /\ \A p \in DOMAIN t :
         \A content \in Range(t[p].files) \ {Garbled} : \A section \in Range(content) :
           /\ IsFiniteSet(DOMAIN section)
           /\ \A b \in Range(section) : b \in Bodies /\ Substituted(b) \in Bodies

-----------------------------------------------------------------------------
\* what of a server a configuration message carries
View(s) == IF s = NoServer THEN NoServer ELSE [body |-> s.body, on |-> s.on]
Views(servers) == [n \in Names |-> View(servers[n])]

WireInit ==
    /\ file \in Files /\ config = file /\ saving = FALSE
    /\ tree \in Trees
    /\ held = [c \in Clients |-> NoAnswer]
    /\ calls = 0
    /\ wrote = Views(file.servers)
    /\ behind = [c \in Clients |-> {}] /\ stale = {}
    /\ asked = [p \in {} |-> p]

Called(c, answer) ==
    /\ calls < MaxCalls /\ held[c].kind # "awaited"
    /\ calls' = calls + 1
    /\ held' = [held EXCEPT ![c] = answer]

\* the engine's configuration changes, and is saved to the file it came from
Change(new) ==
    /\ config' = new
    /\ file' = IF saving THEN new ELSE file
    /\ UNCHANGED <<saving, tree>>

Servers == config.servers

\* a call about one server leaves s there
WriteServer(n, s) ==
    /\ Change([config EXCEPT !.servers[n] = s])
    /\ wrote' = [wrote EXCEPT ![n] = View(s)]
    /\ behind' = [d \in Clients |-> behind[d] \union {n}]
    /\ stale' = stale \ {n}
    /\ UNCHANGED asked

Reading(c, answer) == Called(c, answer) /\ UNCHANGED <<config, file, saving, tree, observers>>

-----------------------------------------------------------------------------
(* Servers.                                                                *)

\* what a client may send as a server's configuration: one of its own making, or one that
\* it was answered with
Sendable(c, n) ==
    CASE held[c].kind = "server"  -> Composed \union {held[c].server.config}
      [] held[c].kind = "servers" ->
           Composed \union {i.config : i \in {i \in held[c].infos : i.name = n}}
      [] OTHER -> Composed

AddServer(c, r) ==
    /\ Servers[r.name] = NoServer /\ Valid(r.config.body)
    /\ WriteServer(r.name, [protoToServerConfig(r.config) EXCEPT !.on = TRUE, !.all = TRUE,
                                                           !.source = "user"])
    /\ Called(c, [kind |-> "awaited", name |-> r.name])

\* Fault variant of UpdateServer: without ValidateServer
UpdateUnchecked(c, r) ==
    /\ Servers[r.name] # NoServer
    /\ LET old == Servers[r.name] new == protoToServerConfig(r.config) IN
       WriteServer(r.name, [old EXCEPT !.body = new.body, !.headers = new.headers, !.meta = new.meta])
    /\ Called(c, [kind |-> "awaited", name |-> r.name])

\* Fault variant of UpdateServer: the internal metadata comes from the message as well
UpdateAnew(c, r) ==
    /\ Servers[r.name] # NoServer /\ Valid(r.config.body)
    /\ WriteServer(r.name, protoToServerConfig(r.config))
    /\ Called(c, [kind |-> "awaited", name |-> r.name])

\* Enabled and the targets are not the message's to change
UpdateServer(c, r) ==
    /\ Servers[r.name] # NoServer /\ Valid(r.config.body)
    /\ LET old == Servers[r.name] new == protoToServerConfig(r.config) IN
       WriteServer(r.name, [old EXCEPT !.body = new.body, !.headers = new.headers, !.meta = new.meta])
    /\ Called(c, [kind |-> "awaited", name |-> r.name])

Enable(c, r, on) ==
    /\ Servers[r.name] # NoServer
    /\ WriteServer(r.name, [Servers[r.name] EXCEPT !.on = on])
    /\ Called(c, [kind |-> "awaited", name |-> r.name])

EnableServer(c, r)  == Enable(c, r, TRUE)
DisableServer(c, r) == Enable(c, r, FALSE)

RemoveServer(c, r) ==
    /\ Servers[r.name] # NoServer
    /\ WriteServer(r.name, NoServer)
    /\ Called(c, NoAnswer)

ServerAnswer(n) ==
    IF Servers[n] = NoServer THEN NoAnswer
    ELSE [kind |-> "server", server |-> serverToProto(n, Servers[n])]

\* the second half of the four handlers that answer with the server
Reread(c) ==
    /\ held[c].kind = "awaited"
    /\ held' = [held EXCEPT ![c] = ServerAnswer(held[c].name)]
    /\ UNCHANGED <<config, file, saving, tree, calls, observers>>

GetServer(c, r) == Reading(c, ServerAnswer(r.name))

ListServers(c, r) ==
    LET chosen == {n \in Names : Servers[n] # NoServer /\ Matches(Servers[n], r.filter)} IN
    Reading(c, [kind |-> "servers", infos |-> {listedToProto(n, Servers[n]) : n \in chosen}])

-----------------------------------------------------------------------------
(* The configuration.                                                      *)

GetConfig(c) ==
    /\ Called(c, [kind |-> "config", servers |-> engineConfigToProto(Servers)])
    /\ behind' = [behind EXCEPT ![c] = {}]
    /\ UNCHANGED <<config, file, saving, tree, wrote, stale, asked>>

\* what a client may make of a server that it read in a configuration: the same, switched
\* over, one of its own making, or none
Edits(m) ==
    {m, NoServer} \union Composed
    \union (IF m = NoServer THEN {} ELSE {[m EXCEPT !.on = ~@]})

\* and of the whole configuration
Editions(c) ==
    IF held[c].kind # "config" THEN {}
    ELSE LET read == held[c].servers IN
         {sent \in [Names -> UNION {Edits(read[n]) : n \in Names}] : \A n \in Names : sent[n] \in Edits(read[n])}

\* SetConfig, which validates nothing; who sends a server as it was read says nothing about it
SetConfig(c, sent) ==
    LET changed == {n \in Names : sent[n] # held[c].servers[n]} IN
    /\ sent \in Editions(c)
    /\ Change(protoToEngineConfig(sent))
    /\ wrote' = [n \in Names |-> IF n \in changed THEN View(sent[n]) ELSE wrote[n]]
    /\ behind' = [d \in Clients |-> behind[d] \union changed]
    /\ stale' = (stale \union behind[c]) \ changed
    /\ asked' = [p \in {} |-> p]
    /\ Called(c, NoAnswer)

\* LoadConfig with the file's path
LoadConfig(c) ==
    /\ config' = file /\ saving' = TRUE
    /\ wrote' = Views(file.servers)
    /\ behind' = [d \in Clients |-> Names] /\ stale' = {}
    /\ asked' = IF saving THEN asked ELSE [p \in {} |-> p]
    /\ Called(c, NoAnswer)
    /\ UNCHANGED <<file, tree>>

-----------------------------------------------------------------------------
(* Projects.                                                               *)

\* one list for every project that is found
Listed(projects) ==
    {found \in SUBSET UNION {{[path |-> p, config |-> l] : l \in engineProjectConfigToPB(projects[p])} :
                             p \in DOMAIN projects} :
       \A p \in DOMAIN projects : Cardinality({i \in found : i.path = p}) = 1}

ScanForProjects1(c, r) ==
    LET found == DOMAIN ScanForProjects(tree, config.scan, {r.root})
        projects == [p \in found |-> Scanned(DetectProject(tree[p].files))] IN
    \E answer \in Listed(projects) : Reading(c, [kind |-> "found", projects |-> answer])

\* what a client may register under a path: a list it has been answered with
Registrable(c) ==
    CASE held[c].kind = "project" -> {held[c].config}
      [] held[c].kind \in {"found", "projects"} -> {p.config : p \in held[c].projects}
      [] OTHER -> {<<m>> : m \in Composed}

RegisterProject(c, r) ==
    LET path == expandPath(r.path) IN
    /\ Change([config EXCEPT !.projects =
                 [p \in DOMAIN @ \union {path} |->
                    IF p = path THEN pbToEngineProjectConfig(r.config) ELSE @[p]]])
    /\ asked' = [p \in DOMAIN asked \union {path} |-> IF p = path THEN r.config ELSE asked[p]]
    /\ Called(c, NoAnswer)
    /\ UNCHANGED <<wrote, behind, stale>>

GetProjectConfig(c, r) ==
    LET path == expandPath(r.path) IN
    /\ path \in DOMAIN config.projects
    /\ \E list \in engineProjectConfigToPB(config.projects[path]) :
         Reading(c, [kind |-> "project", config |-> list])

\* the infos of ListProjects have no servers
ListProjects(c) ==
    Reading(c, [kind |-> "projects",
                projects |-> {[path |-> p, config |-> <<>>] : p \in DOMAIN config.projects}])

-----------------------------------------------------------------------------
ServerCall(c) ==
    \/ \E n \in Names : \E m \in Sendable(c, n) :
         AddServer(c, [name |-> n, config |-> m]) \/ UpdateServer(c, [name |-> n, config |-> m])
    \/ \E r \in RemoveServerRequest : RemoveServer(c, r)
    \/ \E r \in EnableServerRequest : EnableServer(c, r)
    \/ \E r \in DisableServerRequest : DisableServer(c, r)
    \/ \E r \in GetServerRequest : GetServer(c, r)
    \/ \E r \in ListServersRequest : ListServers(c, r)

ConfigCall(c) ==
    \/ GetConfig(c)
    \/ \E sent \in Editions(c) : SetConfig(c, sent)
    \/ LoadConfig(c)

ProjectCall(c) ==
    \/ \E r \in ScanForProjectsRequest : ScanForProjects1(c, r)
    \/ \E path \in Said : \E list \in Registrable(c) :
         RegisterProject(c, [path |-> path, config |-> list])
    \/ \E r \in GetProjectConfigRequest : GetProjectConfig(c, r)
    \/ ListProjects(c)

WireNext == \E c \in Clients : Reread(c) \/ ServerCall(c) \/ ConfigCall(c) \/ ProjectCall(c)

WireSpec == WireInit /\ [][WireNext]_wireVars
-----------------------------------------------------------------------------
(* Properties.                                                             *)

Projects == config.projects

WireTypeOK ==
    /\ IsConfig(config) /\ IsConfig(file)
    /\ saving \in BOOLEAN /\ (saving => file = config)
    /\ tree \in Trees
    /\ DOMAIN held = Clients /\ \A c \in Clients : IsAnswer(held[c])
    /\ calls \in 0..MaxCalls
    /\ wrote \in [Names -> [body : Bodies, on : BOOLEAN] \union {NoServer}]
    /\ behind \in [Clients -> SUBSET Names] /\ stale \subseteq Names
    /\ \A p \in DOMAIN asked : asked[p] \in ProjectConfig

\* A server stands as the last call about it left it, however often whole configurations
\* are read, edited elsewhere and written back, unless one was written back that was read
\* before that call (client.go GetConfig and SetConfig over conversions.go:14): the
\* messages lose nothing of a server's transport, command, URL and state.  And as long as
\* clients compose valid configurations and send back what they read, every server can be
\* run, though SetConfig checks nothing: what ListServers answers, names without commands, is
\* refused by UpdateServer and AddServer (service_fixes.go:67 against helpers.go:12).
ServersStand ==
    \A n \in Names :
      /\ n \notin stale => View(Servers[n]) = wrote[n]
      /\ Servers[n] # NoServer /\ (\A m \in Composed : Valid(m.body)) => Valid(Servers[n].body)

\* Who reads a server and sends back what it read changes nothing but what messages do not
\* carry: the headers go, other metadata become texts, and after a first time nothing
\* changes (service.go:47 over conversions.go:54, 85).
EchoedUpdateKeeps ==
    [][\A c \in Clients, n \in Names :
         (/\ Servers[n] # NoServer /\ held[c].kind = "server"
          /\ held[c].server = serverToProto(n, Servers[n])
          /\ UpdateServer(c, [name |-> n, config |-> held[c].server.config]))
         => Servers'[n] = [Servers[n] EXCEPT !.headers = FALSE, !.meta = ToTexts(@)]]_wireVars

\* A registered project has, under its path with or without "~", one server for every
\* command in the list it was last registered with, the last of the list; server calls
\* leave it alone and only a written back or reloaded configuration takes it away
\* (conversions.go:233, project_manager.go:125).
ProjectsAsRegistered ==
    \A p \in DOMAIN asked :
      /\ p \in DOMAIN Projects
      /\ DOMAIN Projects[p] = {s.body.command : s \in Range(asked[p])}
      /\ \A i \in DOMAIN asked[p] :
           LET later == {j \in DOMAIN asked[p] : asked[p][j].body.command = asked[p][i].body.command} IN
           (\A j \in later : j <= i) =>
             serverToWire(Projects[p][asked[p][i].body.command]) = asked[p][i]

\* the sets of servers that a file may be taken to configure: a section, or nothing
Readings(content) ==
    LET sections == Range(Sections) \intersect DOMAIN content
    IN  IF sections = {} THEN {{}} ELSE {Range(content[s]) : s \in sections}

\* the sets of servers that a directory may be taken to configure
Configured(files) ==
    LET parsed == {files[f] : f \in Range(McpConfigs) \intersect DOMAIN files} \ {Garbled}
    IN  IF parsed = {} THEN {{}} ELSE UNION {Readings(content) : content \in parsed}

\* the projects that a scan is meant to answer with
IsExact(projects, root) ==
    /\ {p.path : p \in projects} =
         IF root \in DOMAIN tree /\ tree[root].readable THEN ToFind(tree, config.scan, root) ELSE {}
    /\ \A p \in projects : \E reading \in Configured(tree[p.path].files) :
         {m.body : m \in Range(p.config)} = {Substituted(b) : b \in reading}

\* A scan answers with exactly the projects on readable, not excluded ways down from its
\* root, to the configured depth and not beyond, and each with the servers, though not
\* their names and with their variables substituted, of a section of one of its files, or
\* without any if no file of it can be parsed or one of them is empty (project_manager.go:47,
\* 236, 276).
ScansFindAll ==
    [][\A c \in Clients :
         held'[c] # held[c] /\ held'[c].kind = "found" =>
           \E r \in ScanForProjectsRequest : IsExact(held'[c].projects, expandPath(r.root))]_wireVars
=============================================================================

------------------------------- MODULE MCWire -------------------------------
(* Wire for TLC: the values of its sets.                                   *)
EXTENDS Wire, TLC

npx  == [transport |-> "stdio", command |-> "npx", url |-> ""]
http == [transport |-> "sse", command |-> "", url |-> "http"]
https == [transport |-> "sse", command |-> "", url |-> "https"]
variable == [transport |-> "sse", command |-> "", url |-> "${URL}"]
MCSubstituted(b) == IF b = variable THEN https ELSE b

MCComposed == {[body |-> npx, on |-> FALSE, meta |-> {[text |-> TRUE, v |-> "a"]}]}

MCFilters == {[enabledOnly |-> FALSE, transport |-> "", source |-> ""],
              [enabledOnly |-> TRUE, transport |-> "sse", source |-> "user"]}

\* a server with what messages do not carry, a project of two servers, a scan of depth 1
Rich == [body |-> http, headers |-> TRUE, meta |-> {[text |-> FALSE, v |-> "7"]},
         on |-> TRUE, all |-> TRUE, source |-> "user"]
MCFiles == {[servers |-> [n \in Names |-> IF n = "a" THEN Rich ELSE NoServer],
             projects |-> [p \in {<<"home", "p">>} |-> [x \in {"x", "y"} |-> Rich]],
             scan |-> [maxDepth |-> 1, exclude |-> {}]]}

Dir(files) == [readable |-> TRUE, files |-> files]
Plain == Dir([f \in {} |-> f])
TwoUrls == [n \in {"x", "y"} |-> IF n = "x" THEN http ELSE variable]

\* a project with its servers in two sections, one hidden by an unreadable directory, one
\* under an excluded name, and a garbled file before one that can be parsed
Deep == (<<>> :> Plain) @@ (<<"home">> :> Plain)
     @@ (<<"home", "p">> :> Dir("mcp.json" :> [s \in {"mcp", "servers"} |->
                                   IF s = "mcp" THEN TwoUrls ELSE "x" :> npx]))
     @@ (<<"home", "p", "q">> :> Dir("go.mod" :> Garbled))
     @@ (<<"home", "p", "rebuilt">> :> Dir("go.mod" :> Garbled))
     @@ (<<"home", "p", "rebuilt", "r">> :> Dir("go.mod" :> Garbled))
     @@ (<<"home", "p", "s">> :> [readable |-> FALSE, files |-> ("go.mod" :> Garbled)])
     @@ (<<"home", "p", "s", "t">> :> Dir("go.mod" :> Garbled))
     @@ (<<"home", "p", "q", "u">> :> Dir("go.mod" :> Garbled))
     @@ (<<"home", "p", "q", "u", "v">> :> Dir(("mcp.json" :> Garbled)
                                            @@ ("mcp-config.json" :> ("servers" :> ("x" :> npx)))))
MCTrees == {Deep}
Symmetry == Permutations(Clients)
MCSaid  == {<<"~", "p">>, <<"home", "p">>}
MCRoots == {<<"~", "p">>, <<"home", "p", "s">>}
MCHome  == <<"home">>
=============================================================================

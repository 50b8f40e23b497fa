---------------------------- MODULE AtomicStore ----------------------------
(***************************************************************************)
(* What an engine's configuration files promise, without the files: a save *)
(* through the storage (storage.go) replaces the stored configuration by   *)
(* the whole memory in one step or not at all, and deaths and failures     *)
(* leave it alone.  Only a place that was given to LoadConfig as a path is *)
(* written in place (config_manager.go), and is broken in between.         *)
(***************************************************************************)
CONSTANTS Engine, Place, Config,
          NoServers,  \* what an engine starts with when nothing is stored
          None,       \* "no path", "nothing stored"
          Broken,     \* what is stored does not parse
          Merge(_, _) \* a stored configuration read into one in memory

VARIABLES up, memory, home, stored
vars == <<up, memory, home, stored>>

Init == /\ up = [e \in Engine |-> FALSE]
        /\ memory = [e \in Engine |-> NoServers]
        /\ home = [e \in Engine |-> None]
        /\ stored = [p \in Place |-> None]

Start(e) ==
    /\ ~up[e] /\ up' = [up EXCEPT ![e] = TRUE]
    /\ memory' = [memory EXCEPT ![e] = IF stored["store"] \in Config THEN stored["store"]
                                                                     ELSE NoServers]
    /\ home' = [home EXCEPT ![e] = None]
    /\ UNCHANGED stored

Die(e) ==
    /\ up[e] /\ up' = [up EXCEPT ![e] = FALSE]
    /\ memory' = [memory EXCEPT ![e] = NoServers]
    /\ UNCHANGED <<home, stored>>

Change(e) ==
    /\ up[e] /\ \E c \in Config : memory' = [memory EXCEPT ![e] = c]
    /\ UNCHANGED <<up, home, stored>>

LoadPlace(e, p) ==
    /\ up[e] /\ stored[p] # None /\ home' = [home EXCEPT ![e] = p]
    /\ memory' = IF stored[p] \in Config THEN [memory EXCEPT ![e] = stored[p]] ELSE memory
    /\ UNCHANGED <<up, stored>>

LoadDefault(e, p) ==
    /\ up[e] /\ (p = None \/ stored[p] = None) /\ home' = [home EXCEPT ![e] = p]
    /\ memory' = IF stored["store"] \in Config
                 THEN [memory EXCEPT ![e] = Merge(@, stored["store"])] ELSE memory
    /\ UNCHANGED <<up, stored>>

Put(e, p, c) == up[e] /\ stored' = [stored EXCEPT ![p] = c] /\ UNCHANGED <<up, memory, home>>

Save(e)    == home[e] = None /\ Put(e, "store", memory[e])
Rewrite(e) == home[e] # None /\ \E c \in {memory[e], Broken} : Put(e, home[e], c)

Next == \E e \in Engine :
           \/ Start(e) \/ Die(e) \/ Change(e) \/ Save(e) \/ Rewrite(e)
           \/ \E p \in Place : LoadPlace(e, p)
           \/ \E p \in Place \union {None} : LoadDefault(e, p)

Spec == Init /\ [][Next]_vars
=============================================================================

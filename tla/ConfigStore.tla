---------------------------- MODULE ConfigStore ----------------------------
(***************************************************************************)
(* The configuration of one or several engines and the files behind it     *)
(* (config_manager.go, server_manager.go, import_export.go, storage.go).   *)
(*                                                                         *)
(* Every operation takes engine.mu, changes the configuration in memory,   *)
(* saves it and returns the save's result; so an engine is in one          *)
(* operation at a time, and pc says where its save is.  Without a path it  *)
(* saves through FileStorage, which writes a temporary file and renames    *)
(* it; with one (after LoadConfig of a path) it truncates and writes that  *)
(* file.  Files are inodes: who has opened one keeps it when its name goes *)
(* to another.                                                             *)
(*                                                                         *)
(* Of a configuration the servers are kept, of a server its payload and    *)
(* whether it is enabled.                                                  *)
(***************************************************************************)
EXTENDS Naturals, FiniteSets

CONSTANTS Engine,       \* processes with an engine
          Server,       \* server names
          Payload,      \* what a server may be configured to
          Absent,       \* "no such server"
          Unknown,      \* "nothing was promised about this server"
          None,         \* "no inode", "no path"
          Empty, Torn,  \* contents that do not parse
          Paths,        \* what LoadConfig may be given: a file of its own, or
                        \* the storage's own "config" as the daemon does
          Inode,
          HalfWrites,   \* the names whose writes may be cut short, by an
                        \* error or a crash after the file was truncated
          MaxOps,       \* bound: operations and loads of a behaviour
          MaxFailures,  \* bound: failing saves
          MaxCrashes    \* bound: process deaths

Entry   == [cfg : Payload, enabled : BOOLEAN]
Config  == [Server -> Entry \union {Absent}]
Content == Config \union {Empty, Torn}
Place   == {"store", "file"}
Name    == Place \union {"tmp"}
NoServers == [s \in Server |-> Absent]

ASSUME ConfigStoreAssumption ==
    /\ HalfWrites \subseteq Name
    /\ Paths \subseteq Place
    /\ MaxOps \in Nat /\ MaxFailures \in Nat /\ MaxCrashes \in Nat
    /\ Absent \notin Entry /\ Unknown \notin Entry \union {Absent}
    /\ Empty \notin Config /\ Torn \notin Config
    /\ None \notin Inode \union Place \union Content

VARIABLES
    pc,        \* where each engine is in its save; "down" without a process
    mem,       \* engine.config of each engine
    path,      \* configPath of each engine, or None
    fd,        \* the inode each engine has open for writing
    name,      \* the inode that has each name
    data,      \* the content of each inode
    base,      \* observer: what each engine last loaded or saved
    promised,  \* observer: what successful operations said of each server
    ops, failures, crashes

engines  == <<pc, mem, path, fd>>
disk     == <<name, data>>
observed == <<base, promised>>
counters == <<ops, failures, crashes>>
vars == <<engines, disk, observed, counters>>

SavePC == {"open", "write", "tmpOpen", "tmpWrite", "rename", "cleanup"}

Init == /\ pc = [e \in Engine |-> "down"]
        /\ mem = [e \in Engine |-> NoServers]
        /\ path = [e \in Engine |-> None]
        /\ fd = [e \in Engine |-> None]
        /\ name = [n \in Name |-> None]
        /\ data = [i \in Inode |-> Empty]
        /\ base = [e \in Engine |-> NoServers]
        /\ promised = [p \in Place |-> [s \in Server |-> Unknown]]
        /\ ops = 0 /\ failures = 0 /\ crashes = 0

Exists(n) == name[n] # None
Parses(n) == Exists(n) /\ data[name[n]] \in Config
Read(n)   == data[name[n]]
Target(e) == IF path[e] = None THEN "store" ELSE path[e]

Goto(e, l) == pc' = [pc EXCEPT ![e] = l]
Operation(e) == pc[e] = "idle" /\ ops < MaxOps /\ ops' = ops + 1
Fail == failures < MaxFailures /\ failures' = failures + 1

-----------------------------------------------------------------------------
(* Saving *)

BeginSave(e) ==
    /\ Goto(e, IF path[e] = None THEN "tmpOpen" ELSE "open")
    /\ UNCHANGED <<path, fd, disk, observed, failures, crashes>>

\* The save returns: with success, everything this engine changed since it
\* last loaded or saved is now promised.
Succeed(e) ==
    /\ Goto(e, "idle")
    /\ base' = [base EXCEPT ![e] = mem[e]]
    /\ promised' = [promised EXCEPT ![Target(e)] =
                       [s \in Server |-> IF mem[e][s] # base[e][s]
                                         THEN mem[e][s] ELSE @[s]]]

InUse == {name[n] : n \in Name} \union {fd[e] : e \in Engine}
Free  == Inode \ InUse

\* os.WriteFile's open: the named file is truncated, or there is a new one.
Truncate(e, n) ==
    /\ Exists(n) \/ Free # {}
    /\ LET i == IF Exists(n) THEN name[n] ELSE CHOOSE j \in Free : TRUE
       IN  /\ name' = [name EXCEPT ![n] = i]
           /\ data' = [data EXCEPT ![i] = Empty]
           /\ fd' = [fd EXCEPT ![e] = i]

\* os.WriteFile's write, at the start of the file: what somebody else wrote
\* there since the truncation is covered, or its end remains.
Put(e) ==
    /\ \/ data' = [data EXCEPT ![fd[e]] = mem[e]]
       \/ data[fd[e]] # Empty /\ data' = [data EXCEPT ![fd[e]] = Torn]
    /\ fd' = [fd EXCEPT ![e] = None]

Written(e) == IF pc[e] \in {"tmpOpen", "tmpWrite"} THEN "tmp" ELSE path[e]

\* The write fails half-way.
PutHalf(e) ==
    /\ Written(e) \in HalfWrites
    /\ data' = [data EXCEPT ![fd[e]] = Torn]
    /\ fd' = [fd EXCEPT ![e] = None]

SaveOpen(e) ==
    /\ pc[e] = "open"
    /\ Truncate(e, Written(e))
    /\ Goto(e, "write")
    /\ UNCHANGED <<mem, path, observed, counters>>

SaveWrite(e) ==
    /\ pc[e] = "write"
    /\ Put(e)
    /\ Succeed(e)
    /\ UNCHANGED <<mem, path, name, counters>>

TmpOpen(e) ==
    /\ pc[e] = "tmpOpen"
    /\ Truncate(e, Written(e))
    /\ Goto(e, "tmpWrite")
    /\ UNCHANGED <<mem, path, observed, counters>>

TmpWrite(e) ==
    /\ pc[e] = "tmpWrite"
    /\ Put(e)
    /\ Goto(e, "rename")
    /\ UNCHANGED <<mem, path, name, observed, counters>>

Rename(e) ==
    /\ pc[e] = "rename"
    /\ Exists("tmp")
    /\ name' = [name EXCEPT !["store"] = name["tmp"], !["tmp"] = None]
    /\ Succeed(e)
    /\ UNCHANGED <<mem, path, fd, data, counters>>

\* A save that fails returns its error; the memory keeps the change.
OpenFails(e) ==
    /\ pc[e] \in {"open", "tmpOpen"}
    /\ Fail
    /\ Goto(e, "idle")
    /\ UNCHANGED <<mem, path, fd, disk, observed, ops, crashes>>

\* Fault variant of WriteFails: the error is ignored.
WriteFailsIgnored(e) ==
    /\ pc[e] \in {"write", "tmpWrite"}
    /\ Fail
    /\ PutHalf(e)
    /\ Goto(e, IF path[e] = None THEN "rename" ELSE "idle")
    /\ UNCHANGED <<mem, path, name, observed, ops, crashes>>

WriteFails(e) ==
    /\ pc[e] \in {"write", "tmpWrite"}
    /\ Fail
    /\ PutHalf(e)
    /\ Goto(e, "idle")
    /\ UNCHANGED <<mem, path, name, observed, ops, crashes>>

\* The rename fails when somebody else has renamed the file already, or for
\* another reason; then the temporary file is removed.
RenameFails(e) ==
    /\ pc[e] = "rename"
    /\ \/ ~Exists("tmp") /\ UNCHANGED failures
       \/ Fail
    /\ Goto(e, "cleanup")
    /\ UNCHANGED <<mem, path, fd, disk, observed, ops, crashes>>

Cleanup(e) ==
    /\ pc[e] = "cleanup"
    /\ name' = [name EXCEPT !["tmp"] = None]
    /\ Goto(e, "idle")
    /\ UNCHANGED <<mem, path, fd, data, observed, counters>>

-----------------------------------------------------------------------------
(* The operations *)

SetMem(e, c) == mem' = [mem EXCEPT ![e] = c]
SetServer(e, s, x) == SetMem(e, [mem[e] EXCEPT ![s] = x])

AddServer(e, s, x) ==
    /\ Operation(e)
    /\ mem[e][s] = Absent
    /\ SetServer(e, s, [cfg |-> x, enabled |-> TRUE])
    /\ BeginSave(e)

UpdateServer(e, s, x) ==
    /\ Operation(e)
    /\ mem[e][s] # Absent
    /\ SetServer(e, s, [cfg |-> x, enabled |-> mem[e][s].enabled])
    /\ BeginSave(e)

\* EnableServer and DisableServer.
EnableServer(e, s, on) ==
    /\ Operation(e)
    /\ mem[e][s] # Absent
    /\ SetServer(e, s, [cfg |-> mem[e][s].cfg, enabled |-> on])
    /\ BeginSave(e)

RemoveServer(e, s) ==
    /\ Operation(e)
    /\ mem[e][s] # Absent
    /\ SetServer(e, s, Absent)
    /\ BeginSave(e)

SetConfig(e, c) ==
    /\ Operation(e)
    /\ SetMem(e, c)
    /\ BeginSave(e)

SaveConfig(e) ==
    /\ Operation(e)
    /\ BeginSave(e)
    /\ UNCHANGED mem

\* What is in memory after the imported servers of `done' were handled.
Imported(e, c, done, replace, overwrite) ==
    LET old == IF replace THEN NoServers ELSE mem[e]
    IN  [s \in Server |->
           IF s \in done /\ c[s] # Absent /\ (old[s] = Absent \/ overwrite)
           THEN [cfg |-> c[s].cfg, enabled |-> TRUE] ELSE old[s]]

\* SkipInvalid leaves out any servers the validator refuses.
Import(e, c, replace, overwrite) ==
    /\ Operation(e)
    /\ SetMem(e, Imported(e, c, Server, replace, overwrite))
    /\ BeginSave(e)

\* Without SkipInvalid an invalid server ends the import where it stands,
\* servers come in no particular order, and nothing is saved.
ImportRefused(e, c, replace, overwrite) ==
    /\ Operation(e)
    /\ \E bad \in Server : \E done \in SUBSET (Server \ {bad}) :
          SetMem(e, Imported(e, c, done, replace, overwrite))
    /\ UNCHANGED <<pc, path, fd, disk, observed, failures, crashes>>

-----------------------------------------------------------------------------
(* Loading, starting and dying *)

Loaded(e, c) == SetMem(e, c) /\ base' = [base EXCEPT ![e] = c]

\* Fault variant of LoadFile: the path is kept, the file is not read.
LoadFilePathOnly(e, p) ==
    /\ Operation(e)
    /\ Exists(p)
    /\ path' = [path EXCEPT ![e] = p]
    /\ UNCHANGED <<pc, fd, mem, disk, observed, failures, crashes>>

\* LoadConfig of a path whose file exists: one that does not parse is an
\* error, but the path stays.
LoadFile(e, p) ==
    /\ Operation(e)
    /\ Exists(p)
    /\ path' = [path EXCEPT ![e] = p]
    /\ IF Parses(p) THEN Loaded(e, Read(p)) ELSE UNCHANGED <<mem, base>>
    /\ UNCHANGED <<pc, fd, disk, promised, failures, crashes>>

\* json.Unmarshal into the existing configuration keeps map entries that the
\* stored one does not have.
Merge(old, c) == [s \in Server |-> IF c[s] # Absent THEN c[s] ELSE old[s]]
Merged(e, c)  == Merge(mem[e], c)

\* LoadConfig without a path, or with one whose file does not exist, falls
\* back to the storage.
LoadStore(e, p) ==
    /\ Operation(e)
    /\ p # None => ~Exists(p)
    /\ path' = [path EXCEPT ![e] = p]
    /\ IF Parses("store")
       THEN /\ SetMem(e, Merged(e, Read("store")))
            /\ base' = [base EXCEPT ![e] = Read("store")]
       ELSE UNCHANGED <<mem, base>>
    /\ UNCHANGED <<pc, fd, disk, promised, failures, crashes>>

\* NewEngine: the stored configuration if there is one that parses, else the
\* defaults.
NewEngine(e) ==
    /\ pc[e] = "down"
    /\ Goto(e, "idle")
    /\ Loaded(e, IF Parses("store") THEN Read("store") ELSE NoServers)
    /\ path' = [path EXCEPT ![e] = None]
    /\ UNCHANGED <<fd, disk, promised, counters>>

\* The process dies; what it had not written is gone.
Crash(e) ==
    /\ pc[e] # "down" /\ crashes < MaxCrashes
    /\ pc[e] = "write" => Written(e) \in HalfWrites
    /\ crashes' = crashes + 1
    /\ Goto(e, "down")
    /\ fd' = [fd EXCEPT ![e] = None]
    /\ mem' = [mem EXCEPT ![e] = NoServers]
    /\ base' = [base EXCEPT ![e] = NoServers]
    /\ UNCHANGED <<path, disk, promised, ops, failures>>

-----------------------------------------------------------------------------
SaveStep(e) == \/ SaveOpen(e) \/ SaveWrite(e)
               \/ TmpOpen(e) \/ TmpWrite(e) \/ Rename(e)
               \/ OpenFails(e) \/ WriteFails(e) \/ RenameFails(e) \/ Cleanup(e)

ServerStep(e, s) ==
    \/ \E x \in Payload : AddServer(e, s, x) \/ UpdateServer(e, s, x)
    \/ \E on \in BOOLEAN : EnableServer(e, s, on)
    \/ RemoveServer(e, s)

ConfigStep(e) ==
    \/ \E c \in Config :
          \/ SetConfig(e, c)
          \/ \E replace, overwrite \in BOOLEAN :
                Import(e, c, replace, overwrite) \/ ImportRefused(e, c, replace, overwrite)
    \/ SaveConfig(e)
    \/ \E p \in Paths : LoadFile(e, p)
    \/ \E p \in Paths \union {None} : LoadStore(e, p)

Next == \E e \in Engine :
           \/ SaveStep(e)
           \/ \E s \in Server : ServerStep(e, s)
           \/ ConfigStep(e)
           \/ NewEngine(e) \/ Crash(e)

Spec == Init /\ [][Next]_vars

\* A process that is in a save goes on with it.
FairSpec == Spec /\ \A e \in Engine : WF_vars(SaveStep(e))

-----------------------------------------------------------------------------
TypeOK ==
    /\ pc \in [Engine -> {"down", "idle"} \union SavePC]
    /\ mem \in [Engine -> Config]
    /\ path \in [Engine -> Paths \union {None}]
    /\ fd \in [Engine -> Inode \union {None}]
    /\ name \in [Name -> Inode \union {None}]
    /\ data \in [Inode -> Content]
    /\ base \in [Engine -> Config]
    /\ promised \in [Place -> [Server -> Entry \union {Absent, Unknown}]]
    /\ ops \in 0..MaxOps /\ failures \in 0..MaxFailures
    /\ crashes \in 0..MaxCrashes

Saving == \E e \in Engine : pc[e] = "write"

KeptIn(p) == \A s \in Server :
                promised[p][s] # Unknown
                    => Parses(p) /\ Read(p)[s] = promised[p][s]

\* What a successful operation said about a server is what the next process
\* reads, until another successful operation changes that server.
PromisesKept == ~Saving => \A p \in Place : KeptIn(p)

\* docs/API_REFERENCE.md "File-based storage with atomic writes": the stored
\* configuration parses at every moment, unless it is being written in place
\* by an engine that was given it as a path.
StoreParses ==
    Exists("store") /\ (\A e \in Engine : pc[e] = "write" => path[e] # "store")
        => Parses("store")

\* What is stored at a place, as an engine that reads it sees it.
StoredAt(p) == IF ~Exists(p) THEN None ELSE IF Parses(p) THEN Read(p) ELSE Torn

Up     == [e \in Engine |-> pc[e] # "down"]
Stores == [p \in Place |-> StoredAt(p)]

Atomic == INSTANCE AtomicStore WITH
    up <- Up, memory <- mem, home <- path, stored <- Stores, Broken <- Torn

\* One engine's saves are atomic: truncating, writing, renaming and cleaning up, with
\* failures and deaths between them, are a whole save or nothing (storage.go:75-84).
SavesAreAtomic == Atomic!Spec

=============================================================================

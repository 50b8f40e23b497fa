----------------------------- MODULE SyncFanout -----------------------------
(***************************************************************************)
(* Calls that sync several destinations at once: SyncToAllTargets for the  *)
(* legacy targets (sync.go: workers behind a semaphore, a context that may *)
(* be cancelled) and SyncToMultiple for destinations (engine_impl.go: a    *)
(* goroutine each), down to the destination's file, its backup and the     *)
(* temporary file beside it (generic_destinations.go, presets.go).         *)
(*                                                                         *)
(* A configuration is its version.  A goroutine that has a file open is at *)
(* an inode; where that is now, under the temporary name, under the file's *)
(* or under none, is all that is kept of inodes.  What a sync writes for a *)
(* configuration is the subject of Transforms.                             *)
(***************************************************************************)
EXTENDS Naturals, FiniteSets

CONSTANTS Call,         \* the calls of a behaviour
          Asked(_),     \* what a call may be: its kind and its destinations
          Dest,         \* the destinations, or legacy targets; each has a file
          Nested,       \* the targets of the format "project-nested"
          Limit,        \* the semaphore: 5 in the code
          Nothing,      \* "no file", "no outcome", "no backup"
          Foreign,      \* what a tool left in its file, and does not parse
          Empty, Torn,  \* contents that a write leaves and that do not parse
          MaxVersion, MaxFailures   \* bounds

ASSUME SyncFanoutAssumption ==
    /\ \A c \in Call : Asked(c) \subseteq {"targets", "dests", "dry"} \X SUBSET Dest
    /\ Nested \subseteq Dest /\ Limit \in Nat \ {0} /\ MaxVersion \in Nat /\ MaxFailures \in Nat
    /\ IsFiniteSet(Dest) /\ {Nothing, Foreign, Empty, Torn} \intersect Nat = {}
    /\ Nothing \notin {Foreign, Empty, Torn, "ok", "failed"}
    /\ Foreign \notin {Empty, Torn} /\ Empty # Torn

VARIABLES
    config,    \* the version of the engine's configuration
    dead,      \* the runtime ended the process
    phase,     \* of each call
    kind,      \* what it is: all targets, some destinations, or those as a dry run
    cancelled, \* its context is done
    slots,     \* what is left of its semaphore
    at,        \* where each of its goroutines is
    snap,      \* the configuration that each goroutine has
    handle,    \* where the inode is that each goroutine has open
    saved,     \* the backup that each goroutine has made
    outcome,   \* what each goroutine has reported
    file, tmp, \* the files of a destination
    overlap,   \* observer: two syncs of a destination were under way at once
    failures

calls == <<phase, kind, cancelled>>
disk  == <<file, tmp, handle>>
vars  == <<config, dead, calls, slots, at, snap, saved, outcome, disk, overlap, failures>>

Version  == 0..MaxVersion
Content  == Version \union {Nothing, Foreign, Empty, Torn}
Kind     == {"targets", "dests", "dry"}
Writing  == {"iterate", "backup", "open", "write", "rename"}
Busy     == Writing \union {"load"}
InFlight == Busy \union {"queued"}

Init ==
    /\ config = 0 /\ dead = FALSE
    /\ phase = [c \in Call |-> "new"] /\ kind = [c \in Call |-> "dests"]
    /\ cancelled = [c \in Call |-> FALSE] /\ slots = [c \in Call |-> Limit]
    /\ at = [c \in Call |-> [d \in Dest |-> "no"]]
    /\ snap = [c \in Call |-> [d \in Dest |-> 0]]
    /\ handle = [c \in Call |-> [d \in Dest |-> "none"]]
    /\ saved = [c \in Call |-> [d \in Dest |-> Nothing]]
    /\ outcome = [c \in Call |-> [d \in Dest |-> Nothing]]
    /\ (\E x \in {Nothing, Foreign} : file = [d \in Dest |-> x]) /\ tmp = [d \in Dest |-> Nothing]
    /\ overlap = [d \in Dest |-> FALSE] /\ failures = 0

Goto(c, d, l) == at' = [at EXCEPT ![c][d] = l]
At(c, d, here) == at[c][d] = here /\ ~dead
Fail == failures < MaxFailures /\ failures' = failures + 1

-----------------------------------------------------------------------------
(* The calls and their workers.                                            *)

\* all enabled targets, or some destinations
Begin(c, k, ds) ==
    /\ phase[c] = "new" /\ ~dead
    /\ phase' = [phase EXCEPT ![c] = "running"]
    /\ kind' = [kind EXCEPT ![c] = k]
    /\ at' = [at EXCEPT ![c] = [d \in Dest |->
                IF d \notin ds THEN "no" ELSE IF k = "targets" THEN "queued" ELSE "load"]]
    /\ UNCHANGED <<config, dead, cancelled, slots, snap, saved, outcome, disk, overlap, failures>>

\* Fault variant of Acquire: who gives up does not give its slot back
AcquireAndKeep(c, d) ==
    /\ At(c, d, "queued") /\ slots[c] > 0
    /\ Goto(c, d, IF cancelled[c] THEN "left" ELSE "load")
    /\ slots' = [slots EXCEPT ![c] = @ - 1]
    /\ UNCHANGED <<config, dead, calls, snap, saved, outcome, disk, overlap, failures>>

\* the semaphore, and the look at the context: a cancelled call leaves the targets out that
\* have not begun
Acquire(c, d) ==
    /\ At(c, d, "queued") /\ slots[c] > 0
    /\ IF cancelled[c]
       THEN Goto(c, d, "left") /\ UNCHANGED slots
       ELSE Goto(c, d, "load") /\ slots' = [slots EXCEPT ![c] = @ - 1]
    /\ UNCHANGED <<config, dead, calls, snap, saved, outcome, disk, overlap, failures>>

\* a result is delivered, and the deferred release of the slot
Report(c, d, how) ==
    /\ Goto(c, d, "done")
    /\ outcome' = [outcome EXCEPT ![c][d] = how]
    /\ slots' = IF kind[c] = "targets" THEN [slots EXCEPT ![c] = @ + 1] ELSE slots

\* Fault variant of Return: it does not wait for the workers that wait for a slot
ReturnUnwaited(c) ==
    /\ phase[c] = "running" /\ ~dead
    /\ \A d \in Dest : at[c][d] \notin Busy
    /\ phase' = [phase EXCEPT ![c] = "returned"]
    /\ UNCHANGED <<config, dead, kind, cancelled, slots, at, snap, saved, outcome, disk, overlap,
                   failures>>

\* wg.Wait, and the results that have been delivered
Return(c) ==
    /\ phase[c] = "running" /\ ~dead
    /\ \A d \in Dest : at[c][d] \notin InFlight
    /\ phase' = [phase EXCEPT ![c] = "returned"]
    /\ UNCHANGED <<config, dead, kind, cancelled, slots, at, snap, saved, outcome, disk, overlap,
                   failures>>

\* only the workers for targets look at the context
Cancel(c) ==
    /\ phase[c] = "running" /\ kind[c] = "targets" /\ ~cancelled[c] /\ ~dead
    /\ cancelled' = [cancelled EXCEPT ![c] = TRUE]
    /\ UNCHANGED <<config, dead, phase, kind, slots, at, snap, saved, outcome, disk, overlap,
                   failures>>

-----------------------------------------------------------------------------
(* One sync.                                                               *)

\* who adds the servers to what the file has assigns to a nil map if that does not parse
Panics(c, d) == kind[c] = "targets" /\ d \in Nested /\ file[d] \in {Foreign, Empty, Torn}

Others(c, d) == {b \in Call \ {c} : at[b][d] \in Writing}

\* Fault variant of Load: a target's configuration is generated once for all syncs
LoadOnce(c, d) ==
    /\ At(c, d, "load")
    /\ \/ /\ ~Panics(c, d)
          /\ Goto(c, d, IF kind[c] = "targets" THEN "backup" ELSE "iterate")
          /\ snap' = [snap EXCEPT ![c][d] = IF kind[c] = "targets" THEN 0 ELSE config]
          /\ overlap' = [overlap EXCEPT ![d] = @ \/ Others(c, d) # {}]
          /\ UNCHANGED <<dead, slots, outcome, failures>>
       \/ /\ kind[c] = "targets" /\ Fail /\ Report(c, d, "failed")
          /\ UNCHANGED <<dead, snap, overlap>>
       \/ /\ Panics(c, d) /\ dead' = TRUE
          /\ UNCHANGED <<at, slots, snap, outcome, overlap, failures>>
    /\ UNCHANGED <<config, calls, saved, disk>>

\* a target's configuration is generated under the lock, if it is still there; a destination's
\* sync keeps the pointer, and iterates over what it finds there later
Load(c, d) ==
    /\ At(c, d, "load")
    /\ \/ /\ ~Panics(c, d)
          /\ Goto(c, d, IF kind[c] = "targets" THEN "backup" ELSE "iterate")
          /\ snap' = [snap EXCEPT ![c][d] = config]
          /\ overlap' = [overlap EXCEPT ![d] = @ \/ Others(c, d) # {}]
          /\ UNCHANGED <<dead, slots, outcome, failures>>
       \/ /\ kind[c] = "targets" /\ Fail /\ Report(c, d, "failed")
          /\ UNCHANGED <<dead, snap, overlap>>
       \/ /\ Panics(c, d) /\ dead' = TRUE
          /\ UNCHANGED <<at, slots, snap, outcome, overlap, failures>>
    /\ UNCHANGED <<config, calls, saved, disk>>

Iterated(c, d) ==
    /\ At(c, d, "iterate")
    /\ Goto(c, d, "backup")
    /\ UNCHANGED <<config, dead, calls, slots, snap, saved, outcome, disk, overlap, failures>>

\* the backup of a file: none if none was asked for, if there is no file, or if it fails
Kept(d) == {Nothing, file[d]}

\* the backup and the comparison with what is there; a dry run ends after that
Backup(c, d) ==
    /\ At(c, d, "backup")
    /\ IF kind[c] = "dry"
       THEN Report(c, d, "ok") /\ UNCHANGED saved
       ELSE /\ \E x \in Kept(d) : saved' = [saved EXCEPT ![c][d] = x]
            /\ Goto(c, d, "open") /\ UNCHANGED <<slots, outcome>>
    /\ UNCHANGED <<config, dead, calls, snap, disk, overlap, failures>>

\* os.WriteFile of the temporary file: it is truncated, or there is a new one
Open(c, d) ==
    /\ At(c, d, "open")
    /\ tmp' = [tmp EXCEPT ![d] = Empty]
    /\ handle' = [handle EXCEPT ![c][d] = "tmp"]
    /\ Goto(c, d, "write")
    /\ UNCHANGED <<config, dead, calls, slots, snap, saved, outcome, file, overlap, failures>>

Put(c, d, x) ==
    /\ file' = IF handle[c][d] = "file" THEN [file EXCEPT ![d] = x] ELSE file
    /\ tmp' = IF handle[c][d] = "tmp" THEN [tmp EXCEPT ![d] = x] ELSE tmp
    /\ handle' = [handle EXCEPT ![c][d] = "none"]

There(c, d) == CASE handle[c][d] = "file" -> file[d] [] handle[c][d] = "tmp" -> tmp[d]
                 [] OTHER -> Empty

\* Fault variant of WriteFails: what was written half is renamed
WriteFailsUnseen(c, d) ==
    /\ At(c, d, "write") /\ Fail /\ Put(c, d, Torn)
    /\ Goto(c, d, "rename")
    /\ UNCHANGED <<config, dead, calls, slots, snap, saved, outcome, overlap>>

WriteFails(c, d) ==
    /\ At(c, d, "write") /\ Fail /\ Put(c, d, Torn)
    /\ Report(c, d, "failed")
    /\ UNCHANGED <<config, dead, calls, snap, saved, overlap>>

\* what somebody else wrote there since the truncation is covered, or its end remains
Write(c, d) ==
    /\ At(c, d, "write")
    /\ \/ Put(c, d, snap[c][d])
       \/ There(c, d) # Empty /\ Put(c, d, Torn)
    /\ Goto(c, d, "rename")
    /\ UNCHANGED <<config, dead, calls, slots, snap, saved, outcome, overlap, failures>>

\* who has the file open goes with its inode
Rename(c, d) ==
    /\ At(c, d, "rename") /\ tmp[d] # Nothing
    /\ file' = [file EXCEPT ![d] = tmp[d]] /\ tmp' = [tmp EXCEPT ![d] = Nothing]
    /\ handle' = [b \in Call |-> [handle[b] EXCEPT ![d] =
                    CASE @ = "tmp" -> "file" [] OTHER -> "none"]]
    /\ Report(c, d, "ok")
    /\ UNCHANGED <<config, dead, calls, snap, saved, overlap, failures>>

\* the temporary file is gone already, or the rename fails; sync.go removes it then
RenameFails(c, d) ==
    /\ At(c, d, "rename")
    /\ IF tmp[d] = Nothing THEN UNCHANGED failures ELSE Fail
    /\ IF kind[c] = "targets"
       THEN /\ tmp' = [tmp EXCEPT ![d] = Nothing]
            /\ handle' = [b \in Call |-> [handle[b] EXCEPT ![d] = IF @ = "tmp" THEN "none" ELSE @]]
       ELSE UNCHANGED <<tmp, handle>>
    /\ Report(c, d, "failed")
    /\ UNCHANGED <<config, dead, calls, snap, saved, file, overlap>>

-----------------------------------------------------------------------------
(* Meanwhile.                                                              *)

\* SetConfig and LoadConfig put another configuration in the engine
Replace ==
    /\ config < MaxVersion /\ ~dead /\ config' = config + 1
    /\ UNCHANGED <<dead, calls, slots, at, snap, saved, outcome, disk, overlap, failures>>

\* syncs that iterate over the engine's map of servers: to transform them, and to list those that
\* a destination without a file will get
Sees(j, l)  == at[j[1]][j[2]] = l /\ snap[j[1]][j[2]] = config
Iterating  == {j \in Call \X Dest : Sees(j, "iterate")}
Comparing  == {j \in Call \X Dest : Sees(j, "backup") /\ kind[j[1]] # "targets" /\ file[j[2]] = Nothing}

\* AddServer and the like write the map of servers; a sync that iterates over it has the old or
\* the new entry, or the runtime notices it and ends the process
Mutate ==
    /\ config < MaxVersion /\ ~dead /\ config' = config + 1
    /\ \/ \E new \in SUBSET Iterating :
             snap' = [c \in Call |-> [d \in Dest |-> IF <<c, d>> \in new THEN config + 1
                                                     ELSE snap[c][d]]]
          /\ UNCHANGED dead
       \/ Iterating \union Comparing # {} /\ dead' = TRUE /\ UNCHANGED snap
    /\ UNCHANGED <<calls, slots, at, saved, outcome, disk, overlap, failures>>

-----------------------------------------------------------------------------
JobStep(c, d) ==
    \/ Acquire(c, d) \/ Load(c, d) \/ Iterated(c, d) \/ Backup(c, d) \/ Open(c, d)
    \/ Write(c, d) \/ WriteFails(c, d) \/ Rename(c, d) \/ RenameFails(c, d)

Next ==
    \/ \E c \in Call : \/ \E ask \in Asked(c) : Begin(c, ask[1], ask[2])
                       \/ \E d \in Dest : JobStep(c, d)
                       \/ Return(c) \/ Cancel(c)
    \/ Replace \/ Mutate

\* goroutines are scheduled, and who waits for the semaphore gets it when it is free
Fairness == \A c \in Call : WF_vars(Return(c)) /\ \A d \in Dest : WF_vars(JobStep(c, d))

Spec     == Init /\ [][Next]_vars
FairSpec == Spec /\ Fairness

-----------------------------------------------------------------------------
(* Properties.                                                             *)

TypeOK ==
    /\ config \in Version /\ dead \in BOOLEAN
    /\ phase \in [Call -> {"new", "running", "returned"}] /\ kind \in [Call -> Kind]
    /\ cancelled \in [Call -> BOOLEAN] /\ slots \in [Call -> 0..Limit]
    /\ at \in [Call -> [Dest -> InFlight \union {"no", "left", "done"}]]
    /\ snap \in [Call -> [Dest -> Version]]
    /\ handle \in [Call -> [Dest -> {"none", "tmp", "file"}]]
    /\ saved \in [Call -> [Dest -> Content]]
    /\ outcome \in [Call -> [Dest -> {Nothing, "ok", "failed"}]]
    /\ file \in [Dest -> Content] /\ tmp \in [Dest -> Content]
    /\ overlap \in [Dest -> BOOLEAN] /\ failures \in 0..MaxFailures

\* A call that returned has a result for each of its destinations, but for the targets that a
\* cancelled context left out, for which it has none (sync.go:115-166).
ResultsComplete ==
    \A c \in Call : phase[c] = "returned" =>
      \A d \in Dest : \/ at[c][d] = "done" /\ outcome[c][d] # Nothing
                      \/ at[c][d] = "left" /\ outcome[c][d] = Nothing /\ cancelled[c]
                      \/ at[c][d] = "no" /\ outcome[c][d] = Nothing

\* Unless two syncs of a destination were under way at once, its file is whole at every
\* moment, and a sync that is about to rename has its own configuration in the temporary
\* file and, if it made a backup, there what it is about to overwrite
\* (generic_destinations.go:70, engine_impl.go:275).
FilesAreWhole ==
    \A d \in Dest : ~overlap[d] =>
      /\ file[d] \notin {Empty, Torn}
      /\ \A c \in Call : at[c][d] = "rename" => /\ tmp[d] = snap[c][d]
                                               /\ saved[c][d] \in {Nothing, file[d]}

\* Syncs that do not overlap never take a file back to an older configuration.
NeverOlder ==
    [][\A d \in Dest : ~overlap'[d] /\ file[d] \in Version /\ file'[d] # file[d]
                         => file'[d] > file[d]]_vars

\* A call returns, whatever fails and whenever it is cancelled, with fewer slots than workers
\* (sync.go:115).
CallsReturn == \A c \in Call : phase[c] = "running" ~> (phase[c] = "returned" \/ dead)
=============================================================================

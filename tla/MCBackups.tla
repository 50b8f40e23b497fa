----------------------------- MODULE MCBackups -----------------------------
(* Backups for TLC: callers and values are interchangeable.                *)
EXTENDS Backups, TLC

Symmetry == Permutations(Caller) \union Permutations(Value)
=============================================================================

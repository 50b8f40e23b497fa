----------------------------- MODULE MCAutoSync -----------------------------
(* AutoSync for TLC.  Callers, syncer slots and destinations are model     *)
(* values and interchangeable; liveness runs use no symmetry.              *)
EXTENDS AutoSync, TLC

Symmetry == Permutations(Caller) \union Permutations(Syncer) \union Permutations(Dest)
=============================================================================

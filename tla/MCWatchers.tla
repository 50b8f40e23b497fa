----------------------------- MODULE MCWatchers -----------------------------
(* Watchers for TLC.                                                       *)
EXTENDS Watchers
=============================================================================

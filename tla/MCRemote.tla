------------------------------ MODULE MCRemote ------------------------------
(* Remote for TLC.                                                         *)
EXTENDS Remote
=============================================================================

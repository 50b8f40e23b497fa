---------------------------- MODULE MCDaemonLife ----------------------------
(* DaemonLife for TLC.                                                     *)
EXTENDS DaemonLife
=============================================================================

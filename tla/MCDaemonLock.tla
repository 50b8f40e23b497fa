---------------------------- MODULE MCDaemonLock ----------------------------
(* DaemonLock for TLC: three daemon processes, one inode more than that;    *)
(* liveness is checked along with the rest, so there is no symmetry.       *)
EXTENDS DaemonLock
=============================================================================

---------------------------- MODULE MCSyncFanout ----------------------------
(* SyncFanout for TLC: one call of several destinations, whose workers are *)
(* more than its slots, beside a call of one of them.                      *)
EXTENDS SyncFanout

CONSTANTS a, b, d

MCAsked(c) == IF c = a THEN {<<"targets", Dest>>, <<"dests", Dest>>} ELSE Kind \X {{d}}
=============================================================================

--------------------------- MODULE MCSyncCooldown ---------------------------
(***************************************************************************)
(* SyncCooldown with a clock that moves.                                   *)
(***************************************************************************)
EXTENDS SyncCooldown
=============================================================================

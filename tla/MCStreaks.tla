------------------------------ MODULE MCStreaks ------------------------------
(***************************************************************************)
(* Streaks on every calendar of up to MaxDays days.                        *)
(***************************************************************************)
EXTENDS Streaks
=============================================================================

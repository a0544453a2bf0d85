----------------------------- MODULE MCSyncJobs -----------------------------
(***************************************************************************)
(* SyncJobs on small instances: one request goroutine and the collector,   *)
(* so that nothing is interchangeable.                                     *)
(***************************************************************************)
EXTENDS SyncJobs
=============================================================================

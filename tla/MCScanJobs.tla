----------------------------- MODULE MCScanJobs -----------------------------
(***************************************************************************)
(* ScanJobs for TLC.                                                       *)
(***************************************************************************)
EXTENDS ScanJobs
=============================================================================

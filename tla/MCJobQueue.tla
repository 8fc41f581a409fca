----------------------------- MODULE MCJobQueue -----------------------------
(***************************************************************************)
(* TLC instance of JobQueue: two callers, the owner, and enough jobs for   *)
(* one to wait behind another that runs.                                   *)
(***************************************************************************)
EXTENDS JobQueue
=============================================================================

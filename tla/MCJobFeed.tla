----------------------------- MODULE MCJobFeed -----------------------------
(***************************************************************************)
(* JobFeed on small instances.                                             *)
(***************************************************************************)
EXTENDS JobFeed
=============================================================================

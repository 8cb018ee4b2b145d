---------------------------- MODULE MCJobManager ----------------------------
(***************************************************************************)
(* JobManager on small instances.                                          *)
(***************************************************************************)
EXTENDS JobManager

\* Each job has a window of its own.
MCOwner == [j \in Jobs |-> IF j = 1 THEN "w1" ELSE "w2"]
=============================================================================

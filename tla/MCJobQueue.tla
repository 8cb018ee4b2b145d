----------------------------- MODULE MCJobQueue -----------------------------
(***************************************************************************)
(* JobQueue on small instances.                                            *)
(***************************************************************************)
EXTENDS JobQueue, TLC

\* The middle one of three jobs needs more CPU threads than its neighbours.
MCThreads == [j \in Jobs |-> IF j = 2 THEN 2 ELSE 1]

Symmetry == Permutations(Workers) \cup Permutations(Callers)
=============================================================================

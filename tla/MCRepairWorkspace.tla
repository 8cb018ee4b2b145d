-------------------------- MODULE MCRepairWorkspace --------------------------
(***************************************************************************)
(* RepairWorkspace on a small instance.                                    *)
(***************************************************************************)
EXTENDS RepairWorkspace, TLC

Symmetry == Permutations(Procs)
=============================================================================

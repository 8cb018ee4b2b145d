------------------------- MODULE MCSplitPublication -------------------------
(***************************************************************************)
(* SplitPublication on small instances.                                    *)
(***************************************************************************)
EXTENDS SplitPublication, TLC

Symmetry == Permutations(Procs)

\* Nothing, or a whole set.
MCFirsts == {{}, Names}
=============================================================================

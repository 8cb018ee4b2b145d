--------------------------- MODULE MCReplacement ---------------------------
(***************************************************************************)
(* Replacement on small instances.                                         *)
(***************************************************************************)
EXTENDS Replacement
=============================================================================

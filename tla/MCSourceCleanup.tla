-------------------------- MODULE MCSourceCleanup --------------------------
(***************************************************************************)
(* SourceCleanup on small instances.                                       *)
(***************************************************************************)
EXTENDS SourceCleanup, TLC

CONSTANTS p1, p2

\* One job removes two sources, the other one of them.
MCJobs == (p1 :> <<1, 2>>) @@ (p2 :> <<2>>)
=============================================================================

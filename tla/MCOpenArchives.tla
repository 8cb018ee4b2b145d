--------------------------- MODULE MCOpenArchives ---------------------------
(***************************************************************************)
(* OpenArchives on a small instance.                                       *)
(***************************************************************************)
EXTENDS OpenArchives, TLC

CONSTANTS r1, r2, w1, w2

Is(owner, kind) == [owner |-> owner, kind |-> kind]

\* A nested archive that is opened by its handle, requests of two windows for
\* the budget, and a password that is saved as it is used.
MCWork == {(r1 :> Is(w1, "nested") @@ r2 :> Is(w1, "open")),
           (r1 :> Is(w1, "preview") @@ r2 :> Is(w2, "nested")),
           (r1 :> Is(w1, "open") @@ r2 :> Is(w1, "save"))}
=============================================================================

--------------------------- MODULE AtomicReplace ---------------------------
(***************************************************************************)
(* What replacing an archive promises, with the staging file, the holder   *)
(* directory and the journal hidden: the target is one register, written   *)
(* by load-linked / store-conditional.  An update loads the version it     *)
(* rewrites; its own version becomes the value in ONE step, and only while *)
(* the register still holds the version it loaded.  The register sits on a *)
(* write-back cache: until a flush, a power loss may bring back any of the *)
(* values it held since the last one, and never anything else.             *)
(***************************************************************************)
CONSTANTS Updates,        \* the versions that updates write
          Others,         \* everything else the register may hold
          Unset           \* an update that has loaded nothing yet

VARIABLES value,          \* what a reader obtains once recovery has run
          possible,       \* the values a power loss may leave
          loaded          \* the version each update was derived from

vars == <<value, possible, loaded>>

Init ==
  /\ value \in Others
  /\ possible = {value}
  /\ loaded = [u \in Updates |-> Unset]

Load(u) ==
  /\ loaded[u] = Unset
  /\ loaded' = [loaded EXCEPT ![u] = value]
  /\ UNCHANGED <<value, possible>>

\* The one step in which an update becomes visible.
Store(u) ==
  /\ loaded[u] = value
  /\ value' = u
  /\ possible' = possible \cup {u}
  /\ UNCHANGED loaded

\* Another program puts something of its own under the target's name.
Overwrite ==
  /\ value' \in Others
  /\ possible' = possible \cup {value'}
  /\ UNCHANGED loaded

Flush ==
  /\ possible' = {value}
  /\ UNCHANGED <<value, loaded>>

PowerLoss ==
  /\ value' \in possible
  /\ possible' = {value'}
  /\ UNCHANGED loaded

Next ==
  \/ \E u \in Updates : Load(u) \/ Store(u)
  \/ Overwrite
  \/ Flush
  \/ PowerLoss

Spec == Init /\ [][Next]_vars
=============================================================================

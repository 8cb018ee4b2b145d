---------------------------- MODULE MCExtraction ----------------------------
(***************************************************************************)
(* Extraction on small instances.                                          *)
(***************************************************************************)
EXTENDS Extraction, TLC

CONSTANTS a, b

E(path, type, to) == [path |-> path, type |-> type, to |-> to]

\* Files with one path, links to a file, to each other and to themselves.
MCEntries ==
  {E(a, "File", None), E(b, "File", None), E(a, "Dir", None),
   E(a, "Hardlink", a), E(b, "Hardlink", a), E(b, "Symlink", a),
   E(a, "Symlink", b), E(b, "Other", None)}

MCArchives ==
  {<<x, y>> : x \in {E(a, "File", None), E(b, "Symlink", a)},
              y \in MCEntries} \cup
  {<<E(a, "File", None), y, z>> :
     y \in MCEntries, z \in {E(b, "Hardlink", a), E(a, "File", None)}}
=============================================================================

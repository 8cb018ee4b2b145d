\* Two processes that split to the same base, one of them perhaps after the
\* other one failed; with two faults recovery may be interrupted as well.
CONSTANTS
  Procs = {p1, p2}
  Runs = {1, 2}
  Names = {1, 2}
  Firsts <- MCFirsts
  Missing = Missing
  NoProc = NoProc
  MaxFaults = 2
  MaxForeign = 1
SYMMETRY Symmetry
SPECIFICATION Spec
CHECK_DEADLOCK FALSE
INVARIANTS
  TypeOK
  AlwaysOneSet
  RecoveryAdmits
  NothingLost

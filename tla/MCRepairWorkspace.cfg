\* Two processes that repair to one output, three repairs in all.
CONSTANTS
  Procs = {p1, p2}
  Runs = {1, 2, 3}
  NoProc = NoProc
  MaxFaults = 5
SYMMETRY Symmetry
SPECIFICATION WorkspaceSpec
CHECK_DEADLOCK FALSE
INVARIANTS
  WorkspaceTypeOK
  NothingForgotten
PROPERTIES
  LeftUntouched

\* Two workers, two threads that call at the same time, and three jobs so
\* that reordering and the CPU budget matter.  Phases and checkpoints inside
\* a job belong to the other run.
CONSTANTS
  Workers = {w1, w2}
  Callers = {c1, c2}
  MaxJobs = 3
  MaxRunning = 2
  Threads <- MCThreads
  Budget = 2
  MaxChunks = 0
  MaxCalls = 2
SYMMETRY Symmetry
SPECIFICATION Spec
CHECK_DEADLOCK FALSE
INVARIANTS
  TypeOK
  BudgetIsUsed
  CaughtNeverStarts

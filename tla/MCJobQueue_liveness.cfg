\* Liveness, and the slots as other components see them, with two workers and
\* one caller; the second job needs the whole CPU budget.
CONSTANTS
  Workers = {w1, w2}
  Callers = {c1}
  MaxJobs = 2
  MaxRunning = 2
  Threads <- MCThreads
  Budget = 2
  MaxChunks = 1
  MaxCalls = 2
SPECIFICATION FairSpec
CHECK_DEADLOCK FALSE
PROPERTIES
  ImplementsSlots
  NobodyHangs

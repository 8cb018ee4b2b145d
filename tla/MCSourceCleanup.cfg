\* Two instances, two sources, a job that removes both and one that removes the
\* second: with two faults a recovery may be interrupted as well.
CONSTANTS
  p1 = p1
  p2 = p2
  Procs = {p1, p2}
  Sources = {1, 2}
  Jobs <- MCJobs
  NoProc = NoProc
  MaxRuns = 2
  MaxFaults = 2
  MaxForeign = 1
SPECIFICATION Spec
CHECK_DEADLOCK FALSE
INVARIANTS
  TypeOK
  TrashedWasArchived
  NothingLost
PROPERTIES
  ReportsAreTrue

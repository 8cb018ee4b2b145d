\* A pause is accepted just before a phase that cannot be interrupted.
CONSTANTS
  Jobs = {1}
  NoJob = 0
  Callers = {c1}
  Windows = {"w1"}
  Owner <- MCOwner
  MaxSteps = 2
  MaxCalls = 3
SPECIFICATION FairSpec
CHECK_DEADLOCK FALSE
PROPERTY ExitEnds

\* One job that takes three steps, each a checkpoint, a phase or a question: it may
\* leave its uninterruptible phase again and wait behind it.  Its window, and two
\* threads that call: the window's commands and events may overlap.
CONSTANTS
  Jobs = {1}
  NoJob = 0
  Callers = {c1, c2}
  Windows = {"w1"}
  Owner <- MCOwner
  MaxSteps = 3
  MaxCalls = 2
SPECIFICATION FairSpec
CHECK_DEADLOCK FALSE
INVARIANTS
  TypeOK
  QuestionsInStep
  NoOrphanedJob
  EndsAreTrue
PROPERTIES
  EveryoneGetsOn

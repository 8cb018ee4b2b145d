CONSTANTS
  r1 = r1
  r2 = r2
  w1 = w1
  w2 = w2
  Requests = {r1, r2}
  Windows = {w1, w2}
  Work <- MCWork
  Disk = Disk
  None = None
  MaxActive = 1
  MaxBytes = 2
  EntryBytes = 2
  FileBytes = 1
  MaxExternal = 1
  MaxForgets = 1
SPECIFICATION Spec
CHECK_DEADLOCK FALSE
INVARIANTS
  TypeOK
  NothingOutlives
  BudgetHolds
  PasswordsStayForgotten
  CancelledSavesNothing

\* Replies in order, and everything that may go wrong once: a refused
\* clearing, a queue move, lost and late events, both histories overflowing.
CONSTANTS
  Jobs = {1, 2}
  Mine = {1}
  InOrder = TRUE
  MaxTerminal = 1
  MaxChanges = 2
  MaxEvents = 1
  MaxCalls = 3
  MaxClears = 1
  MaxExtras = 1
  MaxUpdates = 1
SPECIFICATION FairSpec
INVARIANTS
  TypeOK
  RowsAreRight
PROPERTY
  Converges

\* Another window's jobs, two queue moves and a clearing that is refused.
CONSTANTS
  Jobs = {1, 2, 3}
  Mine = {}
  InOrder = TRUE
  MaxTerminal = 1
  MaxChanges = 9
  MaxEvents = 0
  MaxCalls = 3
  MaxClears = 1
  MaxExtras = 2
  MaxUpdates = 0
SPECIFICATION Spec
INVARIANT
  NoStaleRows

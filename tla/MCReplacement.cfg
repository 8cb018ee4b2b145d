\* Two processes, two updates, one foreign change: in half of the behaviours
\* it may fall anywhere, in the others it comes before the final check of the
\* inputs.  Crashes and failing calls are finite.
CONSTANTS
  Procs = {p1, p2}
  Files = {f0, u1, u2, x1}
  Orig = f0
  Strays = {x1}
  Missing = Missing
  NoProc = NoProc
  MaxIo = 1
  MaxCrashes = 2
  MaxForeign = 1
SPECIFICATION FairSpec
INVARIANTS
  TypeOK
  CrashSafe
  RecoveryAdmits
PROPERTIES
  OnlyOwnedRemoval
  NoLostUpdate
  ImplementsRegister
  Completes

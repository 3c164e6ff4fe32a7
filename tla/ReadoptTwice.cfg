SPECIFICATION Spec
CONSTANTS
  Txn = {t1}
  Rate = {r0, r1}
  None = None
  CrashPoints <- Anywhere
  IdReuse = FALSE
  MaxRequests = 1
  MaxCrashes = 1
  MaxReboots = 0
  MaxDrifts = 0
  MaxFaults = 0
  MaxTroubles = 1
  Backlog = 1
SYMMETRY Interchangeable
INVARIANTS OneTerminal

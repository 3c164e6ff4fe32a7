SPECIFICATION Spec
CONSTANTS
  Txn = {t1, t2}
  Rate = {r0}
  None = None
  CrashPoints <- ExceptHandover
  IdReuse = FALSE
  MaxRequests = 2
  MaxCrashes = 1
  MaxReboots = 0
  MaxDrifts = 0
  MaxFaults = 0
  MaxTroubles = 1
  Backlog = 1
SYMMETRY Interchangeable
INVARIANTS OneTerminal
PROPERTIES ImplementsRateTransaction UnresolvedNeverDropped NoMutationResent

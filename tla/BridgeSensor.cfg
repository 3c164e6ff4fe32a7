SPECIFICATION Spec
CONSTANTS
  Txn = {t1}
  Rate = {r0, r1}
  None = None
  CrashPoints <- ExceptHandover
  IdReuse = FALSE
  MaxRequests = 1
  MaxCrashes = 1
  MaxReboots = 1
  MaxDrifts = 1
  MaxFaults = 0
  MaxTroubles = 1
  Backlog = 1
SYMMETRY Interchangeable
INVARIANTS FailedSafeHoldsOff OutcomeTruthful

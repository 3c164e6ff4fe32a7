SPECIFICATION Spec
CONSTANTS
  Txn = {t1, t2}
  Rate = {r0, r1}
  None = None
  CrashPoints <- InLoop
  Patient = TRUE
  MaxCrashes = 2
  MaxReboots = 1
  Backlog = 2
SYMMETRY Interchangeable
INVARIANTS VerdictTruthful
PROPERTIES ImplementsRateTransaction

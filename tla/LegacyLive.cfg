SPECIFICATION LiveSpec
CONSTANTS
  Txn = {t1}
  Rate = {r0, r1}
  None = None
  CrashPoints <- AfterAdoption
  Patient = FALSE
  MaxCrashes = 1
  MaxReboots = 1
  Backlog = 1
INVARIANTS TypeOK
PROPERTIES ForwardOnly EveryAdoptionSettles

SPECIFICATION LiveSpec
CONSTANTS
  Txn = {t1}
  Rate = {r0}
  None = None
  CrashPoints <- Anywhere
  IdReuse = FALSE
  MaxRequests = 1
  MaxCrashes = 1
  MaxReboots = 0
  MaxDrifts = 0
  MaxFaults = 1
  MaxTroubles = 1
  Backlog = 1
INVARIANTS TypeOK AdoptedIsLedgered StatusFollowsLedger MutationJournaled
PROPERTIES EveryAdoptionDecided EveryAdoptionSettles

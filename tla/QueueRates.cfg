SPECIFICATION Spec
CONSTANTS
  c1 = c1
  c2 = c2
  c3 = c3
  t1 = t1
  t2 = t2
  t3 = t3
  d1 = d1
  Client = {c1, c2, c3}
  Txn = {t1, t2, t3}
  Link = {d1}
  Asks <- Distinct
  None = None
  MaxRuns = 1
  MaxCrashes = 1
INVARIANTS TypeOK NothingLost OneAtATime WorkerSurvives

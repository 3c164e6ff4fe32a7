SPECIFICATION LiveSpec
CONSTANTS
  c1 = c1
  c2 = c2
  c3 = c3
  t1 = t1
  t2 = t2
  t3 = t3
  d1 = d1
  Client = {c1, c2, c3}
  Txn = {t1, t2, t3}
  Link = {d1}
  Asks <- Shared
  None = None
  MaxRuns = 2
  MaxCrashes = 0
PROPERTIES EveryCallReturns

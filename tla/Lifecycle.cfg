SPECIFICATION LiveSpec
CONSTANTS
  Worker = {w1}
  None = None
  MaxRuns = 2
  MaxCalls = 1
  MaxTroubles = 2
INVARIANTS TypeOK NothingForgotten SealHolds ReasonTruthful
PROPERTIES EveryRunEnds

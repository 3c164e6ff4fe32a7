SPECIFICATION LiveSpec
CONSTANTS
  Process = {p1, p2}
  Txn = {t1}
  Kind = {k1, k2}
  None = None
  Newline = FALSE
  MaxCalls = 4
  MaxEvents = 4
  MaxTroubles = 1
INVARIANTS TypeOK ChainHolds OneKind NoFalseAlarm ReturnedKept
PROPERTIES ImplementsRecordLog EveryCallEnds

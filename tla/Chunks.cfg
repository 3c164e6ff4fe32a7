SPECIFICATION LiveSpec
CONSTANTS
  None = None
  MaxLines = 4
  MaxDeaths = 2
  MaxFaults = 2
INVARIANTS TypeOK IndexTruthful ChunksInOrder HolesAccounted
PROPERTIES ImplementsRecordLog PartialsRecovered

SPECIFICATION ScanSpec
CONSTANTS
  Frame = 5
  Own = 2
  Foreign = 1
  OwnRecords = 7
  ForeignRecords = 4
  MaxRead = 6
INVARIANTS
  ReadsDoNotMatter
  CompleteMeansWhole
  OneRecordPerHole

SPECIFICATION ScanSpec
CONSTANTS
  Frame = 5
  Own = 2
  Foreign = 1
  OwnRecords = 5
  ForeignRecords = 0
  MaxRead = 6
INVARIANTS
  ForeignIsForeign

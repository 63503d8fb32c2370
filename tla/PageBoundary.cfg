\* A reader of a list by created_at while rows are written.
SPECIFICATION PagingSpec
CONSTANTS
  Ids <- RowIds
  Records <- RecordIds
  LastStore = 2
  MaxTime = 4
  Milli = 2
  MaxLimit = 2
INVARIANTS
  HistoryListed
CHECK_DEADLOCK FALSE

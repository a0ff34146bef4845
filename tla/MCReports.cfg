SPECIFICATION ReportsSpec
CONSTANTS
  Nil = Nil
  Names = {1, 2, 3, 4}
  HeaderBytes = 1
  NoteBytes = 1
  Jobs <- MCJobs
  MaxCollectionScan = 3
  MaxCollectionBytes = 7
  MaxSearchResults = 2
  MaxResponseBytes = 6
  MaxResponsePropBytes = 5
  MaxHrefsPerMultiget = 3
INVARIANTS
  DocumentWellFormed
  RowsKeepToBudget
  AnsweredOnce
  NoSilentOmission
  MarkerIsHonest
  RefusedOnlyTooMuch
  TokenDescribesRows
  LimitRespected
CHECK_DEADLOCK FALSE

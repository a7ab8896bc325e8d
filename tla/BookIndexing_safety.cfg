SPECIFICATION Spec
CONSTANTS
  b1 = b1
  b2 = b2
  Books <- MCBooks
  LastVersion = 2
  MaxPages = 2
  Content <- MCContent
  OcrWorkers = 2
  Limit <- MCLimit
INVARIANTS TypeOK SearchFresh  NoCrashLoop
PROPERTY RowsDroppedOnlyToReread

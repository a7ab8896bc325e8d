SPECIFICATION Spec
CONSTANTS
  b1 = b1
  b2 = b2
  Books <- MCOneBook
  LastVersion = 2
  MaxPages = 2
  Content <- MCOneContent
  OcrWorkers = 1
  Limit <- MCOneLimit
INVARIANT NoPageTwice

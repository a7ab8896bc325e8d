SPECIFICATION Spec
CONSTANTS
  b1 = b1
  b2 = b2
  Systems = {1, 2, 3, 4, 5, 6}
  ParentOf <- SmallParents
  KindOf <- SmallKinds
  ShelfTags = {"x", "y"}
  TagsOf <- SmallTags
  Taggable = {"y"}
  MaxGroups = 1
  Books <- SystemBooks2
  EditFields = {"tags"}
  MaxSent = 2
  PageCount <- TwoBooks
  MaxHistory = 2
  MaxMarks = 1
  MaxLoads = 1
  Pages <- ThreePages
  KeysOf <- ThreeKeys
  Filters <- TwoFilters
  NItems = 3
  FolderOf <- TwoFolders
  MaxGets = 2
  Duration = 2
  MaxRows = 1
  Tools = {"wall", "select", "portal"}
  HISTORY_LIMIT = 1
  MaxFeatures = 1
  FileNames = {1, 2}
  MaxFiles = 1
  MaxAsks = 1
  NCopies = 3
  MaxActs = 2
  MaxLists = 1
  MaxCampaignWrites = 2
  Things = {1, 2}
  MaxCats = 2
  MaxWrites = 1
  MaxRequests = 2
  TagNames = {"p", "q"}
  MaxHearts = 1
  MaxTagAsks = 1
  MaxNotes = 2
  MaxNoteAsks = 2
SYMMETRY Interchangeable
INVARIANTS
  TypeOK
  
  PageNeverAhead
  
  
  CleanMeansKept
  CursorOnARow
  
  NoPairSkipped
  NothingHidden
  RowsHaveHearts
  
PROPERTIES
  TurnsSkipNothing
  StepsStayInFolder
  
CHECK_DEADLOCK FALSE

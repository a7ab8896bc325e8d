SPECIFICATION Spec
CONSTANTS
  QueueTracks = {"a", "b"}
  Lists <- PlayedLists
  MaxQueue = 3
  Audiobooks = {"b"}
  Songs = {"s"}
  End = 1
  Resets = {"b"}
  Sounds = {"a", "b"}
  Boards <- SoundLists
  MaxReports = 2
  Files = {"a", "b", "c"}
  Concurrency = 2
  MaxTries = 2
  SignedTabs = {"t"}
  Calls = {"c", "d"}
  MaxLogins = 2
  MaxIssued = 4
  Endpoints = {"endpoint"}
  LockSets <- Locks
  MaxRequests = 1
  Hours = 4
  Days = 2
  Offset = 1
  Formats = {"opf"}
  MaxScans = 2
  MaxBackups = 2
  Books = {"b", "c"}
  Tabs = {"t", "u"}
  MaxRecent = 2
INVARIANTS
  TypeOK
  
  SoundReachable
  SoundShown
  UploadsAccounted
  LockedUntouched
PROPERTIES
  KeepsItsPlace
  NewTrackPlays
  
  UploadsSettle
  FollowsTheScan
CHECK_DEADLOCK FALSE

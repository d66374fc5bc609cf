SPECIFICATION PartsSpec
CONSTANTS
  Entries = {1, 2, 3}
  head = 0
  Null = 9
  kMaxHeight = 2
  Readers = {r1}
  Garbage = Garbage
  Idle = Idle
  MaxReads = 2
  kArenaBlock = 8
  kAlign = 4
  ArenaSizes = {2, 3}
  MaxBlocks = 3
  Tables = {0, 1, 2, 4}
  Hash <- MCHash
  kNumShards = 2
  HashSpan = 4
  CacheCapacity = 3
  kFirstLength = 1
  CacheThreads = {t1, t2}
  NoHandle = NoHandle
  MaxWork = 4
  Files = {f1, f2, f3}
  MmapLimit = 1
  FdLimit = 1
  Processes = {p1, p2}
  LockThreads = {t1, t2}
  NoOne = NoOne
  Directories <- MCDirectories
  MaxRuns = 2
  MaxFailures = 1
  NoFile = NoFile
INVARIANTS
  SearchesAreSafe ReadsFindWhatWasThere
  AllocationsAreSound
  PlacesAreKept OneHolderPerProcess
  
PROPERTIES
  CacheKeepsWhatIsUsed
  WorkIsRun
CHECK_DEADLOCK FALSE

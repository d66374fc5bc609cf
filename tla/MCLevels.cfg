SPECIFICATION LevelsSpec
CONSTANTS
  Keys = {1, 2}
  NumLevels = 4
  MaxMemCompactLevel = 2
  CompactionTrigger = 2
  StopWritesTrigger = 3
  MaxBytesForLevel1 = 2
  LevelRatio = 1
  AllowedSeeks = 1
  None = None
  kMaxSequenceNumber = 9
  OptionSets <- SafeOptions
  ManualRanges <- WholeRange
INVARIANTS
  EntriesNeverHop
  NoOverlapInLevels
  InputsStayInPlace
PROPERTIES
  ImplementsKeyValueMap
\* a database nobody calls any more stops
CHECK_DEADLOCK FALSE

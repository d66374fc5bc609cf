SPECIFICATION GapSpec
CONSTANTS
  Keys = {1, 2, 3}
  NumLevels = 3
  MaxMemCompactLevel = 1
  CompactionTrigger = 3
  StopWritesTrigger = 4
  MaxBytesForLevel1 = 10
  LevelRatio = 1
  AllowedSeeks = 1
  None = None
  kMaxSequenceNumber = 9
  OptionSets <- GapOptions
  ManualRanges <- WholeRange
INVARIANTS
  NoOverlapInLevels
CHECK_DEADLOCK FALSE

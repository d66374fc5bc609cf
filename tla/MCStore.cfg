SPECIFICATION StoreSpec
CONSTANTS
  Writers = {w1, w2}
  None = None
  WriteBufferSize = 0
  MaxGroup = 2
  CompactionTrigger = 2
  StopWritesTrigger = 3
  OptionSets <- SafeOptions
INVARIANTS
  NoAckedWriteIsLost
  SyncedWritesSurvive
  FilesAreThere
PROPERTIES
  TablesNeverChange
  WritesReturn
CHECK_DEADLOCK FALSE

SPECIFICATION FormatsSpec
CONSTANTS
  kBlockSize = 7
  LogRecords <- MCLogRecords
  MaxRecords = 4
  BadCells = {0, 1, 2, 5}
  kBase = 10
  kMaxUint64 = 255
  kPadding = 2
  FileNumbers = {1, 9, 10, 99, 100, 109, 255}
  OtherNames <- MCOtherNames
  Width32 = 16
  Width64 = 24
  kNumLevelsOfEdit = 7
  BatchKeys <- MCBatchKeys
  BatchSequences = {0, 300}
  MaxBatch = 2
  EditFields <- MCEditFields
  MaxFields = 3
  IterKeys = {1, 2, 3}
  IterVersions <- MCIterVersions
  IterSnapshots = {3, 4}
  MaxIterWrites = 1
  NoEntry = NoEntry
  kMaxByte = 2
  kMaxTag = 9
  TableKeys <- MCTableKeys
  TableOptionSets <- MCTableOptionSets
  MaxTableKeys = 4
  kFilterBase = 4
  kProbes = 2
  NoBlock = NoBlock
  Bits <- MCBits
  FixedBytes <- MCFixedBytes
  kBytesHeader = 4
  MessageTypes <- MCMessageTypes
  PbMessages <- MCPbMessages
  UnknownFields <- MCUnknownFields
  MaxPbMessages = 2
  MaxBuffer = 16
  kAmple = 1000
  DamagedBytes = {0, 9, 255}
INVARIANTS
  LogIsRead NamesAreKnown UpdatesReadBack
  IteratorsAgree TableIsRead
  PbDecodes PbEncodingFits
CHECK_DEADLOCK FALSE

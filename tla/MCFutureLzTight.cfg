SPECIFICATION FairSpec
CONSTANTS
  FileSize = 8
  BlockSize = 2
  MinMatch = 1
  Sources = {0, 1, 2}
  MinCovered = 2
  Kinds = {"v4"}
  Archives <- Intact
  MemLimit = 20
  ABlockSize = 4
  ChunkSize = 4
  ChunkSpace = 3
  VmBlock = 9
  RecordHeader = 1
  FitMargin = 2
  MaximumSave = 100
  QWordSize = 1024
  DWordSize = 256
INVARIANTS
  OvershootBounded
  SlotsOwned
  MarkOrder
  SlotWithinBlock
  DecodedPrefix
  PendingConserved
  ChunksAccounted
PROPERTIES
  StoreWithinBudget
  Terminates

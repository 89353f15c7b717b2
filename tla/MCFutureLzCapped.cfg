SPECIFICATION FairSpec
CONSTANTS
  FileSize = 12
  BlockSize = 3
  MinMatch = 1
  Sources = {0, 2}
  MinCovered = 3
  Kinds = {"v5"}
  Archives <- Intact
  MemLimit = 10
  ABlockSize = 2
  ChunkSize = 2
  ChunkSpace = 1
  VmBlock = 4
  RecordHeader = 1
  FitMargin = 2
  MaximumSave = 100
  QWordSize = 1024
  DWordSize = 256
INVARIANTS
  DecodedPrefix
  OnlyMemoryFails

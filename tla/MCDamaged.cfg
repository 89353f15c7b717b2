SPECIFICATION FairSpec
CONSTANTS
  FileSize = 6
  BlockSize = 2
  MinMatch = 1
  Sources = {0, 1}
  MinCovered = 2
  Kinds = {"v3", "v4", "v5"}
  Archives <- Hurtable
  MemLimit = 12
  ABlockSize = 3
  ChunkSize = 3
  ChunkSpace = 2
  VmBlock = 5
  RecordHeader = 1
  FitMargin = 2
  MaximumSave = 100
  QWordSize = 1024
  DWordSize = 256
INVARIANTS
  TypeOK
PROPERTIES
  Promised

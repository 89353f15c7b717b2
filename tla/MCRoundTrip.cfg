SPECIFICATION FairTrip
CONSTANTS
  FileSize = 11
  BlockSize = 3
  MinMatch = 2
  Sources = {1, 2, 4}
  MinCovered = 2
  FirstPasses <- AllFirstPasses
  Commands <- Formats
  ABlockSize = 3
  ChunkSize = 3
  ChunkSpace = 2
  VmBlock = 5
  RecordHeader = 1
  FitMargin = 2
  MaximumSave = 100
  QWordSize = 1024
  DWordSize = 256
INVARIANTS
  TypeOK
  ListsExact
  DistancesAddUp
  LiteralsExact
  NeverRefused
  TinyLimitIsNone
PROPERTIES
  FileRestored

SPECIFICATION FairSpec
CONSTANTS
  FileSize = 8
  BlockSize = 3
  MinMatch = 2
  Sources = {0, 1, 2, 4, 5}
  MinCovered = 2
  Versions = {1, 2}
  Base = 2
  Archives <- Every
INVARIANTS
  TypeOK
  IntactDecodes
PROPERTIES
  Promised

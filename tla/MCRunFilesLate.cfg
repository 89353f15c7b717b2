CONSTANTS
  Names <- MCNames
  Ids <- MCIds
  Worlds <- MCWorlds
  Requests <- MCRequests
  Meddling = {"rename"}
  MaxMeddling = 2
  Modes = {"compress", "decompress"}
  Inputs = {"a"}
  Outputs = {"b"}
  Seconds = {"none", "c"}
  Scratches = {"none", "c"}
  Flags = {FALSE, TRUE}
  Streams = {0}
  LinkTargets = {"a", "b", "c"}
  Kinds = {"regular"}

SPECIFICATION Spec
INVARIANTS OutputsStartEmpty

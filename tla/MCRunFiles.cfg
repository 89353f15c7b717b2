CONSTANTS
  Names <- MCNames
  Ids <- MCIds
  Worlds <- MCWorlds
  Requests <- MCRequests
  Meddling = {"retarget"}
  MaxMeddling = 1
  Modes = {"compress", "decompress"}
  Inputs = {"a", "-"}
  Outputs = {"b", "-"}
  Seconds = {"none", "b", "c"}
  Scratches = {"none", "c"}
  Flags = {FALSE, TRUE}
  Streams = {0, 1, 2}
  LinkTargets = {"a", "b"}
  Kinds = {"regular", "device"}

SPECIFICATION Spec
INVARIANTS TypeOK OneWriter SuccessDelivers FailureCleans

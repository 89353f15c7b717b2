----------------------------- MODULE RoundTrip -----------------------------
(***************************************************************************)
(* Compression and decompression in one: the second pass turns the matches *)
(* of the first into an archive, and the Future-LZ decoder, with a memory  *)
(* of its own size, turns the archive into the file again.  The two never  *)
(* run together: the archive is finished, and then it is decoded.          *)
(***************************************************************************)
EXTENDS SecondPass

CONSTANTS
  Commands,      \* formats to write, each with the memory it is decoded in
  ABlockSize, ChunkSize, ChunkSpace, VmBlock, RecordHeader,
  FitMargin, MaximumSave, QWordSize, DWordSize   \* as in FutureLz

ASSUME CommandsAssumption == Commands \subseteq [kind: {"v3", "v4", "v5"}, memory: Nat]

Memories == {c.memory : c \in Commands}

VARIABLES
  (* the decoder *)
  arch, decPc, error, decBlock, blockStart, rec, decPos, decIn, outBuf, totalStat,
  sink, sinkPos, heap, usedChunks, packed, filled, caller, slot, loaded, spill,
  freeBlocks, newBlock,
  memory   \* its memory; none until the archive is handed over

None == -1

Decoder(limit) == INSTANCE FutureLz WITH
  MemLimit <- limit,
  Archives <- {[kind |-> "v3", count |-> 0, blocks |-> <<>>,
                footer |-> [count |-> 0, stat |-> 0, present |-> FALSE],
                verified |-> FALSE, intact |-> TRUE, file |-> <<>>]},
  pc <- decPc, block <- decBlock, blockPos <- decPos, inPos <- decIn

workVars == <<decPc, error, decBlock, blockStart, rec, decPos, decIn, outBuf,
              totalStat, sink, sinkPos, heap, usedChunks, packed, filled,
              caller, slot, loaded, spill, freeBlocks, newBlock>>
tripVars == <<vars, arch, workVars, memory>>

-----------------------------------------------------------------------------
(* The file that was compressed. *)
Byte == Content(Found)
Original == Slice(Byte, 0, FileSize)

(* The archive: the blocks as they were emitted, and what the header and   *)
(* the footer of the format say of them.  The second pass copies the       *)
(* literals from the input; their digest is the first pass's.              *)
Written(b) ==
  [size   |-> out[b].size,
   lits   |-> [k \in DOMAIN out[b].lits |-> Byte[out[b].lits[k]]],
   recs   |-> out[b].recs,
   digest |-> Slice(Byte, BlockStart(b), BlockEnd(b))]

TotalStat ==
  LET upTo[b \in 0 .. Len(out)] == IF b = 0 THEN 0 ELSE upTo[b - 1] + Len(out[b].recs)
  IN  upTo[Len(out)]

Made(k) ==
  [kind |-> k, count |-> IF k = "v5" THEN NumBlocks ELSE 0,
   blocks |-> [b \in DOMAIN out |-> Written(b)],
   footer |-> [count |-> IF k = "v3" THEN 0 ELSE NumBlocks,
               stat |-> IF k = "v3" THEN 0 ELSE TotalStat,
               present |-> k # "v3"],
   verified |-> TRUE, intact |-> TRUE, file |-> Original]

TripInit == Init /\ memory = None /\ \A limit \in Memories : Decoder(limit)!Init

Compress == pc # "done" /\ Next /\ UNCHANGED <<arch, workVars, memory>>

HandOver ==
  /\ pc = "done" /\ memory = None
  /\ \E c \in Commands : arch' = Made(c.kind) /\ memory' = c.memory
  /\ UNCHANGED <<vars, workVars>>

Decompress ==
  \E limit \in Memories :
    memory = limit /\ Decoder(limit)!Next /\ UNCHANGED <<vars, memory>>

TripNext == Compress \/ HandOver \/ Decompress

(* Each runs by itself, one after the other. *)
FairTrip == TripInit /\ [][TripNext]_tripVars /\ WF_tripVars(TripNext)

-----------------------------------------------------------------------------
(* Compressing and decompressing give the file back, whatever the matches  *)
(* and the order the sort leaves them in, in whatever memory: nothing is   *)
(* ever written that is not the beginning of the file, and success means   *)
(* all of it.                                                              *)
Promise == INSTANCE BlockDecoder WITH
  file <- Original,
  counted <- TRUE,
  output <- sink,
  status <- IF decPc \in {"done", "failed"} THEN decPc ELSE "running"

FileRestored == Promise!Spec

(* What the second pass writes is never refused, digests and totals        *)
(* included, but for a memory that does not hold one slot.                 *)
NeverRefused ==
  \A limit \in Memories :
    memory = limit /\ decPc = "failed" =>
      error = "memory" /\ Decoder(limit)!UsefulMemory < VmBlock

(* A memory limit below its granularity is no limit: nothing is spilled    *)
(* and nothing fails.                                                      *)
TinyLimitIsNone ==
  memory # None /\ memory < ABlockSize => newBlock = 0 /\ decPc # "failed"
=============================================================================

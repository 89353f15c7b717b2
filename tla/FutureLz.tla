------------------------------ MODULE FutureLz ------------------------------
(***************************************************************************)
(* The Future-LZ decoder: one decoder of blocks for the v3, v4 and v5      *)
(* archives, its memory manager and its virtual memory.                    *)
(*                                                                         *)
(* A match of these formats points FORWARD: its bytes are produced in one  *)
(* block and needed in a later one.  Between the two the decoder holds     *)
(* them in a budgeted memory; what does not fit is packed, furthest        *)
(* destination first, into a slot of a spill file, and a mark takes its    *)
(* place in the heap of pending matches.  When the mark comes up, the slot *)
(* is read back.                                                           *)
(*                                                                         *)
(* The program is sequential: pc names the loop it is in, and an action is *)
(* one iteration of that loop or the statements between two loops.         *)
(***************************************************************************)
EXTENDS Buffers, FiniteSets, FiniteSetsExt

CONSTANTS
  Archives,       \* the archives the decoder may be given
  MemLimit,       \* -mem: bytes allowed to saved matches
  ABlockSize,     \* MemLimit is rounded down to a multiple of this (1 MiB)
  ChunkSize,      \* bytes of a chunk of memory with its link (64)
  ChunkSpace,     \* bytes of a match a chunk holds (60)
  VmBlock,        \* -vmblock: bytes of a slot of the spill file
  RecordHeader,   \* bytes of a spilled record before its data (20)
  FitMargin,      \* a record header and the slot's terminator (24)
  MaximumSave,    \* matches this long are read back from the output
  QWordSize,      \* 2^64
  DWordSize       \* 2^32

Record == [lit: Nat, off: Nat, len: Nat]

Block == [size: Nat, lits: Seq(Bytes), recs: Seq(Record), digest: Seq(Bytes)]

(* What the trailing footer of a v4 or v5 archive says; v3 has none.  The  *)
(* digest of a block stands for itself: a hash without collisions.  file   *)
(* is what the archive was made from and intact says that it was not       *)
(* damaged since; the decoder looks at neither.                            *)
NoFooter == [count |-> 0, stat |-> 0, present |-> FALSE]
Footer == [count: Nat, stat: Nat, present: BOOLEAN]

Archive == [kind: {"v3", "v4", "v5"}, count: Nat, blocks: Seq(Block),
            footer: Footer, verified: BOOLEAN, intact: BOOLEAN, file: Seq(Bytes)]

ASSUME BudgetAssumption ==
  /\ MemLimit \in Nat /\ ABlockSize \in Nat \ {0} /\ ChunkSize \in Nat \ {0}
  /\ ChunkSpace \in Nat \ {0} /\ VmBlock \in Nat /\ MaximumSave \in Nat
  /\ QWordSize \in Nat \ {0} /\ DWordSize \in Nat \ {0}

(* A chunk holds its link besides its bytes, a step of -mem holds chunks,  *)
(* and -mem is a 64-bit number.                                            *)
ASSUME ChunkAssumption ==
  ChunkSpace <= ChunkSize /\ ChunkSize <= ABlockSize /\ MemLimit < QWordSize

ASSUME SlotAssumption ==
  RecordHeader \in Nat /\ FitMargin \in Nat /\ RecordHeader < FitMargin

ASSUME ArchiveAssumption == Archives \subseteq Archive

-----------------------------------------------------------------------------
VARIABLES
  arch,        \* the archive being decoded
  pc,          \* the loop the decoder is in
  error,       \* why it stopped
  block,       \* blocks written so far
  blockStart,  \* position of the current block in the output
  rec,         \* record cursor of passes 1 and 3
  blockPos,    \* source of the previous record
  inPos,       \* literals used
  outBuf,      \* the current block, as far as it is built
  totalStat,   \* size of the match lists read so far
  sink,        \* the output file
  sinkPos,     \* where its next read or write would happen
  heap,        \* pending matches: destination -> class, in insertion order
  usedChunks,  \* chunks the memory manager has handed out
  packed,      \* records of the slot being packed
  filled,      \* bytes of that slot taken
  caller,      \* the loop that asked for room
  slot,        \* the slot being restored
  loaded,      \* its records already back in the heap
  spill,       \* the spill file: slot -> records
  freeBlocks,  \* stack of slots that have been read back
  newBlock     \* first slot never used

readVars  == <<arch, block, blockStart, totalStat>>
buildVars == <<rec, blockPos, inPos, outBuf>>
sinkVars  == <<sink, sinkPos>>
packVars  == <<packed, filled, caller>>
slotVars  == <<slot, loaded>>
vmVars    == <<spill, freeBlocks, newBlock>>
vars == <<pc, error, readVars, buildVars, sinkVars, heap, usedChunks,
          packVars, slotVars, vmVars>>

-----------------------------------------------------------------------------
(* Memory manager.  A match of len bytes takes whole chunks; the budget is *)
(* computed with a 64-bit wrap, so less than one ABlock means no limit.    *)

\* Mutant: the budget saturates at 0 instead of wrapping.
UsefulMemorySaturated ==
  LET chunks == ((MemLimit \div ABlockSize) * ABlockSize) \div ChunkSize
  IN  IF chunks = 0 THEN 0 ELSE (chunks - 1) * ChunkSpace

UsefulMemory ==
  LET chunks == ((MemLimit \div ABlockSize) * ABlockSize) \div ChunkSize
  IN  ((chunks - 1) * ChunkSpace) % QWordSize

Chunks(len) == (len + ChunkSpace - 1) \div ChunkSpace

\* Mutant: one chunk too few counted as used.
AvailableOneChunkMore ==
  LET used == (usedChunks - 1) * ChunkSpace
  IN  IF UsefulMemory > used THEN UsefulMemory - used ELSE 0

Available ==
  LET used == usedChunks * ChunkSpace
  IN  IF UsefulMemory > used THEN UsefulMemory - used ELSE 0

\* Mutant: a match longer than a slot is saved.
MaxSaveUncapped == MaximumSave

(* -vmblock caps what may be saved: a longer record would fit in no slot.  *)
MaxSave ==
  LET cap == (VmBlock - FitMargin) % DWordSize
  IN  IF VmBlock > FitMargin /\ cap < MaximumSave THEN cap ELSE MaximumSave

(* An entry of the heap.  data is the chain of chunks the match was saved  *)
(* in; Unsaved is INVALID_INDEX.  An entry of length 0 is a mark, and its  *)
(* src is the number of a slot.                                            *)
Unsaved == <<>>

Entry == [src: Nat, dest: Nat, len: Nat, data: Seq(Bytes)]

Mark(s, d) == [src |-> s, dest |-> d, len |-> 0, data |-> Unsaved]

IsMark(m) == m.len = 0

ChunksOf(m) == Chunks(Len(m.data))

-----------------------------------------------------------------------------
(* Heap of pending matches.  The barrier entry of the code, which sorts    *)
(* after every match, is the empty heap here.                              *)

Insert(h, m) ==
  [d \in DOMAIN h \cup {m.dest} |->
     IF d # m.dest THEN h[d]
     ELSE IF d \in DOMAIN h THEN Append(h[d], m) ELSE <<m>>]

TakeClass(h, d) == [e \in DOMAIN h \ {d} |-> h[e]]

IsMinDest(h, d) == d \in DOMAIN h /\ \A e \in DOMAIN h : d <= e

(* The next class save_to_disk looks at: the furthest destination whose    *)
(* first match is in memory.                                               *)
Evictable(d) == d \in DOMAIN heap /\ heap[d][1].data # Unsaved

\* Mutant: the nearest destination is packed first.
IsNearest(d) == Evictable(d) /\ \A e \in DOMAIN heap : Evictable(e) => d <= e

IsFurthest(d) == Evictable(d) /\ \A e \in DOMAIN heap : Evictable(e) => e <= d

\* Mutant: no room is kept for the terminator.
FitsHeaderOnly(m) == VmBlock - filled >= RecordHeader + m.len

Fits(m) == VmBlock - filled >= FitMargin + m.len

-----------------------------------------------------------------------------
CurrentBlock == arch.blocks[block + 1]
blockEnd == blockStart + CurrentBlock.size

ThisRecord == CurrentBlock.recs[rec]
src == blockPos + ThisRecord.lit
dest == src + ThisRecord.off

RecordInRange ==
  /\ src < blockEnd
  /\ ThisRecord.len <= blockEnd - src
  /\ dest > src

-----------------------------------------------------------------------------
Init ==
  /\ arch \in Archives
  /\ pc = "open" /\ error = "none"
  /\ block = 0 /\ blockStart = 0 /\ totalStat = 0
  /\ rec = 1 /\ blockPos = 0 /\ inPos = 0 /\ outBuf = <<>>
  /\ sink = <<>> /\ sinkPos = 0
  /\ heap = [d \in {} |-> <<>>]
  /\ usedChunks = 0
  /\ packed = <<>> /\ filled = 0 /\ caller = "store"
  /\ slot = 0 /\ loaded = 0
  /\ spill = [s \in {} |-> <<>>] /\ freeBlocks = <<>> /\ newBlock = 0

Fail(why) ==
  /\ pc' = "failed" /\ error' = why
  /\ UNCHANGED <<readVars, buildVars, sinkVars, heap, usedChunks, packVars,
                 slotVars, vmVars>>

-----------------------------------------------------------------------------
(* Opening: v4 and v5 need their footer, and v5 says its block count twice. *)

FooterAgrees ==
  /\ arch.kind # "v3" => arch.footer.present
  /\ arch.kind = "v5" => arch.footer.count = arch.count

Open ==
  /\ pc = "open" /\ FooterAgrees
  /\ pc' = "block"
  /\ UNCHANGED <<error, readVars, buildVars, sinkVars, heap, usedChunks,
                 packVars, slotVars, vmVars>>

RefuseOpen == pc = "open" /\ ~ FooterAgrees /\ Fail("container")

(* The number of blocks to decode: the footer's table in v4, the header in *)
(* v5; a v3 archive does not say.                                          *)
AllDecoded == \/ arch.kind = "v4" /\ block = arch.footer.count
              \/ arch.kind = "v5" /\ block >= arch.count

AtEnd == block = Len(arch.blocks)

Empty(b) == b.size = 0 /\ b.lits = <<>>

(* v3 ends at the end of the file or at an empty block, but only when no   *)
(* match is pending.                                                       *)
EndOfV3 ==
  arch.kind = "v3" /\ DOMAIN heap = {} /\ (~ AtEnd => Empty(CurrentBlock))

ReadBlock ==
  /\ pc = "block" /\ ~ AllDecoded /\ ~ AtEnd /\ ~ EndOfV3
  /\ pc' = "validate"
  /\ rec' = 1 /\ blockPos' = blockStart
  /\ totalStat' = totalStat + Len(CurrentBlock.recs)
  /\ inPos' = 0 /\ outBuf' = <<>>
  /\ UNCHANGED <<error, arch, block, blockStart, sinkVars, heap, usedChunks,
                 packVars, slotVars, vmVars>>

Truncated ==
  /\ pc = "block" /\ ~ AllDecoded /\ AtEnd /\ ~ EndOfV3
  /\ Fail("container")

(* After the last block a v5 archive must end, and agree with its footer. *)
FooterTotals == arch.kind = "v5" => AtEnd /\ arch.footer.stat = totalStat

Finish ==
  /\ pc = "block" /\ (AllDecoded \/ EndOfV3) /\ FooterTotals
  /\ pc' = "done"
  /\ UNCHANGED <<error, readVars, buildVars, sinkVars, heap, usedChunks,
                 packVars, slotVars, vmVars>>

RefuseFooter ==
  /\ pc = "block" /\ AllDecoded /\ ~ FooterTotals
  /\ Fail("baddata")

-----------------------------------------------------------------------------
(* Pass 1: every record is checked; those that land in this block go into  *)
(* the heap, to be copied from the block itself.                           *)

MoreRecords == rec <= Len(CurrentBlock.recs)

NextRecord == rec' = rec + 1 /\ blockPos' = src

Pending(m) == [src |-> src, dest |-> dest, len |-> ThisRecord.len, data |-> m]

ValidateRecord ==
  /\ pc = "validate" /\ MoreRecords /\ RecordInRange
  /\ NextRecord
  /\ heap' = IF dest < blockEnd THEN Insert(heap, Pending(Unsaved)) ELSE heap
  /\ UNCHANGED <<pc, error, readVars, inPos, outBuf, sinkVars, usedChunks,
                 packVars, slotVars, vmVars>>

RejectRecord ==
  /\ pc = "validate" /\ MoreRecords /\ ~ RecordInRange
  /\ Fail("baddata")

EndValidate ==
  /\ pc = "validate" /\ ~ MoreRecords
  /\ pc' = "fill"
  /\ UNCHANGED <<error, readVars, buildVars, sinkVars, heap, usedChunks,
                 packVars, slotVars, vmVars>>

-----------------------------------------------------------------------------
(* Pass 2: the block is filled in destination order, each match preceded   *)
(* by the literals up to it.                                               *)

Literals == CurrentBlock.lits
outPos == Len(outBuf)

Due(d) == pc = "fill" /\ IsMinDest(heap, d) /\ d < blockEnd

LitLen(m) == m.dest - blockStart - outPos

\* Mutant: the literals may run out.
MatchFitsAnyLiterals(m) ==
  /\ m.dest >= blockStart + outPos
  /\ outPos + LitLen(m) + m.len <= CurrentBlock.size

MatchFits(m) ==
  /\ m.dest >= blockStart + outPos
  /\ LitLen(m) <= Len(Literals) - inPos
  /\ outPos + LitLen(m) + m.len <= CurrentBlock.size

FromSink(m) == m.len >= MaxSave /\ m.src < blockStart

(* The block with m's literals and bytes added: from the output already    *)
(* written, from memory, or from the block itself.                         *)
Filled(m) ==
  LET buf == outBuf \o Part(Literals, inPos, LitLen(m))
      bytes == IF FromSink(m) THEN Part(sink, m.src, m.len)
               ELSE IF m.data # Unsaved THEN m.data
               ELSE LzCopy(buf, m.src - blockStart, m.len)
  IN  buf \o bytes

FillMatch ==
  \E d \in DOMAIN heap :
    LET m == heap[d][1] IN
      /\ Due(d) /\ ~ IsMark(m) /\ MatchFits(m)
      /\ heap' = TakeClass(heap, d)
      /\ outBuf' = Filled(m)
      /\ inPos' = inPos + LitLen(m)
      /\ sinkPos' = IF FromSink(m) THEN m.src + m.len ELSE sinkPos
      /\ usedChunks' = usedChunks - ChunksOf(m)
      /\ UNCHANGED <<pc, error, readVars, rec, blockPos, sink, packVars,
                     slotVars, vmVars>>

RejectMatch ==
  /\ \E d \in DOMAIN heap :
        Due(d) /\ ~ IsMark(heap[d][1]) /\ ~ MatchFits(heap[d][1])
  /\ Fail("baddata")

(* The class is taken before its slot is read: the slot holds a match with *)
(* the same destination.                                                   *)
TakeMark ==
  \E d \in DOMAIN heap :
    /\ Due(d) /\ IsMark(heap[d][1])
    /\ heap' = TakeClass(heap, d)
    /\ slot' = heap[d][1].src
    /\ pc' = "restore"
    /\ UNCHANGED <<error, readVars, buildVars, sinkVars, usedChunks, packVars,
                   loaded, vmVars>>

NoneDue == \A d \in DOMAIN heap : d >= blockEnd

LiteralsFill == Len(Literals) - inPos = CurrentBlock.size - outPos

FillTail ==
  /\ pc = "fill" /\ NoneDue /\ LiteralsFill
  /\ outBuf' = outBuf \o Part(Literals, inPos, Len(Literals) - inPos)
  /\ rec' = 1 /\ blockPos' = blockStart
  /\ pc' = "store"
  /\ UNCHANGED <<error, readVars, inPos, sinkVars, heap, usedChunks, packVars,
                 slotVars, vmVars>>

RejectLiterals ==
  /\ pc = "fill" /\ NoneDue /\ ~ LiteralsFill
  /\ Fail("baddata")

-----------------------------------------------------------------------------
(* Pass 3: the matches that leave the block are saved, with room made for  *)
(* them first; the longest are not saved at all.                           *)

\* Mutant: a match to the first byte of the next block stays.
LeavesBeyond == dest > blockEnd

Leaves == dest >= blockEnd
Saved == ThisRecord.len < MaxSave

\* Mutant: the loop goes round without the next record.
SkipRecordAgain ==
  /\ pc = "store" /\ MoreRecords /\ ~ Leaves
  /\ UNCHANGED vars

SkipRecord ==
  /\ pc = "store" /\ MoreRecords /\ ~ Leaves
  /\ NextRecord
  /\ UNCHANGED <<pc, error, readVars, inPos, outBuf, sinkVars, heap, usedChunks,
                 packVars, slotVars, vmVars>>

StoreUnsaved ==
  /\ pc = "store" /\ MoreRecords /\ Leaves /\ ~ Saved
  /\ NextRecord
  /\ heap' = Insert(heap, Pending(Unsaved))
  /\ UNCHANGED <<pc, error, readVars, inPos, outBuf, sinkVars, usedChunks,
                 packVars, slotVars, vmVars>>

StoreMatch ==
  /\ pc = "store" /\ MoreRecords /\ Leaves /\ Saved
  /\ ThisRecord.len <= Available
  /\ NextRecord
  /\ LET m == Pending(Part(outBuf, src - blockStart, ThisRecord.len)) IN
       /\ heap' = Insert(heap, m)
       /\ usedChunks' = usedChunks + ChunksOf(m)
  /\ UNCHANGED <<pc, error, readVars, inPos, outBuf, sinkVars, packVars,
                 slotVars, vmVars>>

BeginPacking(who) ==
  /\ caller' = who /\ packed' = <<>> /\ filled' = 0
  /\ pc' = "evict"
  /\ UNCHANGED <<error, readVars, buildVars, sinkVars, heap, usedChunks,
                 slotVars, vmVars>>

StoreNeedsRoom ==
  /\ pc = "store" /\ MoreRecords /\ Leaves /\ Saved
  /\ ThisRecord.len > Available
  /\ BeginPacking("store")

EndStore ==
  /\ pc = "store" /\ ~ MoreRecords
  /\ pc' = "verify"
  /\ UNCHANGED <<error, readVars, buildVars, sinkVars, heap, usedChunks,
                 packVars, slotVars, vmVars>>

-----------------------------------------------------------------------------
(* save_to_disk: one slot is packed, furthest destination first, until a   *)
(* match does not fit.  Only the first match of a class is packed and      *)
(* freed; the whole class leaves the heap.                                 *)

EvictMatch ==
  \E d \in DOMAIN heap :
    LET m == heap[d][1] IN
      /\ pc = "evict" /\ IsFurthest(d) /\ Fits(m)
      /\ packed' = Append(packed, m)
      /\ filled' = filled + RecordHeader + m.len
      /\ usedChunks' = usedChunks - ChunksOf(m)
      /\ heap' = TakeClass(heap, d)
      /\ UNCHANGED <<pc, error, readVars, buildVars, sinkVars, caller, slotVars,
                     vmVars>>

SlotFull == \A d \in DOMAIN heap : IsFurthest(d) => ~ Fits(heap[d][1])

\* Mutant: the slot stays on the free stack.
AllocBlockKept(s) ==
  IF freeBlocks # <<>>
    THEN s = freeBlocks[Len(freeBlocks)] /\ UNCHANGED <<freeBlocks, newBlock>>
    ELSE s = newBlock /\ newBlock' = newBlock + 1 /\ UNCHANGED freeBlocks

(* The slot last read back is used first. *)
AllocBlock(s) ==
  IF freeBlocks # <<>>
    THEN /\ s = freeBlocks[Len(freeBlocks)]
         /\ freeBlocks' = SubSeq(freeBlocks, 1, Len(freeBlocks) - 1)
         /\ newBlock' = newBlock
    ELSE s = newBlock /\ newBlock' = newBlock + 1 /\ UNCHANGED freeBlocks

(* The mark goes in at the destination of the last record, the smallest.   *)
WriteSlot ==
  /\ pc = "evict" /\ SlotFull /\ packed # <<>>
  /\ \E s \in DOMAIN spill \cup {newBlock} :
       /\ AllocBlock(s)
       /\ spill' = [t \in DOMAIN spill \cup {s} |-> IF t = s THEN packed ELSE spill[t]]
       /\ heap' = Insert(heap, Mark(s, packed[Len(packed)].dest))
  /\ pc' = caller
  /\ packed' = <<>> /\ filled' = 0
  /\ UNCHANGED <<error, readVars, buildVars, sinkVars, usedChunks, caller, slotVars>>

\* Mutant: with nothing to pack, the caller tries again.
NothingToEvictRetried ==
  /\ pc = "evict" /\ SlotFull /\ packed = <<>>
  /\ pc' = caller
  /\ UNCHANGED <<error, readVars, buildVars, sinkVars, heap, usedChunks, packVars,
                 slotVars, vmVars>>

NothingToEvict ==
  /\ pc = "evict" /\ SlotFull /\ packed = <<>>
  /\ Fail("memory")

-----------------------------------------------------------------------------
(* restore_from_disk: room for a whole slot is made first, then the slot   *)
(* is read and given back before its records return to the heap.           *)

RestoreNeedsRoom ==
  /\ pc = "restore" /\ Available < VmBlock
  /\ BeginPacking("restore")

\* Mutant: the slot is read back whatever room there is.
ReadSlotAtOnce ==
  /\ pc = "restore" /\ slot \in DOMAIN spill
  /\ freeBlocks' = Append(freeBlocks, slot)
  /\ loaded' = 0
  /\ pc' = "load"
  /\ UNCHANGED <<error, readVars, buildVars, sinkVars, heap, usedChunks, packVars,
                 slot, spill, newBlock>>

ReadSlot ==
  /\ pc = "restore" /\ Available >= VmBlock /\ slot \in DOMAIN spill
  /\ freeBlocks' = Append(freeBlocks, slot)
  /\ loaded' = 0
  /\ pc' = "load"
  /\ UNCHANGED <<error, readVars, buildVars, sinkVars, heap, usedChunks, packVars,
                 slot, spill, newBlock>>

(* A mark the decoder did not make: a record of length 0 in the archive.   *)
SlotMissing ==
  /\ pc = "restore" /\ Available >= VmBlock /\ slot \notin DOMAIN spill
  /\ Fail("io")

\* Mutant: the chunks of a restored match are not counted.
LoadRecordUncounted ==
  /\ pc = "load" /\ loaded < Len(spill[slot])
  /\ loaded' = loaded + 1
  /\ heap' = Insert(heap, spill[slot][loaded + 1])
  /\ UNCHANGED <<pc, error, readVars, buildVars, sinkVars, usedChunks, packVars,
                 slot, vmVars>>

\* Mutant: the data of every record is read where the first one's is.
LoadRecordFirstData ==
  /\ pc = "load" /\ loaded < Len(spill[slot])
  /\ loaded' = loaded + 1
  /\ LET m == [spill[slot][loaded + 1] EXCEPT !.data = spill[slot][1].data] IN
       /\ heap' = Insert(heap, m)
       /\ usedChunks' = usedChunks + ChunksOf(m)
  /\ UNCHANGED <<pc, error, readVars, buildVars, sinkVars, packVars, slot, vmVars>>

LoadRecord ==
  /\ pc = "load" /\ loaded < Len(spill[slot])
  /\ loaded' = loaded + 1
  /\ LET m == spill[slot][loaded + 1] IN
       /\ heap' = Insert(heap, m)
       /\ usedChunks' = usedChunks + ChunksOf(m)
  /\ UNCHANGED <<pc, error, readVars, buildVars, sinkVars, packVars, slot, vmVars>>

EndRestore ==
  /\ pc = "load" /\ loaded = Len(spill[slot])
  /\ pc' = "fill"
  /\ UNCHANGED <<error, readVars, buildVars, sinkVars, heap, usedChunks, packVars,
                 slotVars, vmVars>>

-----------------------------------------------------------------------------
(* The block is written only once its digest agrees.                       *)

\* Mutant: the digest is not compared.
DigestIgnored == TRUE

DigestAgrees == arch.verified => outBuf = CurrentBlock.digest

\* Mutant: the output is not positioned before it is written.
WriteBlockInPlace ==
  /\ pc = "verify" /\ DigestAgrees
  /\ sink' = WriteAt(sink, sinkPos, outBuf)
  /\ sinkPos' = sinkPos + Len(outBuf)
  /\ blockStart' = blockEnd
  /\ block' = block + 1
  /\ pc' = "block"
  /\ UNCHANGED <<error, arch, totalStat, buildVars, heap, usedChunks, packVars,
                 slotVars, vmVars>>

WriteBlock ==
  /\ pc = "verify" /\ DigestAgrees
  /\ sink' = WriteAt(sink, blockStart, outBuf)
  /\ sinkPos' = blockStart + Len(outBuf)
  /\ blockStart' = blockEnd
  /\ block' = block + 1
  /\ pc' = "block"
  /\ UNCHANGED <<error, arch, totalStat, buildVars, heap, usedChunks, packVars,
                 slotVars, vmVars>>

RejectDigest == pc = "verify" /\ ~ DigestAgrees /\ Fail("digest")

-----------------------------------------------------------------------------
Stopped == pc \in {"done", "failed"} /\ UNCHANGED vars

Next ==
  \/ Open \/ RefuseOpen \/ ReadBlock \/ Truncated \/ Finish \/ RefuseFooter
  \/ ValidateRecord \/ RejectRecord \/ EndValidate
  \/ FillMatch \/ RejectMatch \/ TakeMark \/ FillTail \/ RejectLiterals
  \/ SkipRecord \/ StoreUnsaved \/ StoreMatch \/ StoreNeedsRoom \/ EndStore
  \/ EvictMatch \/ WriteSlot \/ NothingToEvict
  \/ RestoreNeedsRoom \/ ReadSlot \/ SlotMissing \/ LoadRecord \/ EndRestore
  \/ WriteBlock \/ RejectDigest \/ Stopped

Spec == Init /\ [][Next]_vars

(* The decoder runs by itself: it never waits for anyone. *)
FairSpec == Spec /\ WF_vars(Next)

-----------------------------------------------------------------------------
IsHeap(h) ==
  DOMAIN h \subseteq Nat /\ h \in [DOMAIN h -> Seq(Entry) \ {<<>>}]

InBlock == pc \notin {"open", "block", "done", "failed"}

ControlOK ==
  /\ pc \in {"open", "block", "validate", "fill", "store", "evict", "restore",
             "load", "verify", "done", "failed"}
  /\ error \in {"none", "container", "baddata", "memory", "digest", "io"}
  /\ caller \in {"store", "restore"}

ReadOK ==
  /\ arch \in Archive
  /\ block \in 0 .. Len(arch.blocks) /\ blockStart \in Nat /\ totalStat \in Nat
  /\ InBlock => block < Len(arch.blocks) /\ inPos <= Len(Literals)

BuildOK ==
  /\ rec \in Nat \ {0} /\ blockPos \in Nat /\ inPos \in Nat
  /\ outBuf \in Seq(Bytes) /\ sink \in Seq(Bytes) /\ sinkPos \in Nat

HeapOK == IsHeap(heap) /\ usedChunks \in Int

PackOK == packed \in Seq(Entry) /\ filled \in Nat

SpillOK ==
  /\ slot \in Nat /\ loaded \in Nat
  /\ DOMAIN spill \subseteq Nat /\ spill \in [DOMAIN spill -> Seq(Entry)]
  /\ freeBlocks \in Seq(Nat) /\ newBlock \in Nat
  /\ pc = "load" => slot \in DOMAIN spill

TypeOK == ControlOK /\ ReadOK /\ BuildOK /\ HeapOK /\ PackOK /\ SpillOK

-----------------------------------------------------------------------------
(* Slots of the spill file.                                                *)

MarksOf(h) == {d \in DOMAIN h : IsMark(h[d][1])}
Marks == MarksOf(heap)

FreeSlots == {freeBlocks[i] : i \in DOMAIN freeBlocks}

MarkedSlots == {heap[d][1].src : d \in Marks}

AwaitedSlots ==
  IF pc = "restore" \/ (pc = "evict" /\ caller = "restore") THEN {slot} ELSE {}

(* No two owners share a slot: every slot ever used is either free, once,  *)
(* or named by one mark, or waiting for room to be read back.  A slot      *)
(* given twice would overwrite matches nobody has read yet; one given to   *)
(* nobody would never be used again.                                       *)
SlotsOwned ==
  pc # "failed" =>
    /\ \A i, j \in DOMAIN freeBlocks : i # j => freeBlocks[i] # freeBlocks[j]
    /\ \A d, e \in Marks : d # e => heap[d][1].src # heap[e][1].src
    /\ FreeSlots \cap MarkedSlots = {}
    /\ AwaitedSlots \cap (FreeSlots \cup MarkedSlots) = {}
    /\ DOMAIN spill = 0 .. newBlock - 1
    /\ FreeSlots \cup MarkedSlots \cup AwaitedSlots = DOMAIN spill

(* The destinations of a run of records strictly descend to d. *)
DescendTo(records, d) ==
  /\ records # <<>> /\ records[Len(records)].dest = d
  /\ \A i, j \in DOMAIN records : i < j => records[i].dest > records[j].dest

(* A mark comes up no later than anything in its slot: it stands at the    *)
(* smallest destination of the slot's records, which are stored furthest   *)
(* first.  A mark placed later would have pass 2 fill over a match that is *)
(* still on disk.                                                          *)
MarkOrder ==
  \A d \in Marks : heap[d][1].src \in DOMAIN spill => DescendTo(spill[heap[d][1].src], d)

(* What is packed, with its terminator, fits in one slot, so writing it    *)
(* never touches the next one.                                             *)
SlotWithinBlock ==
  packed # <<>> => filled + (FitMargin - RecordHeader) <= VmBlock

-----------------------------------------------------------------------------
(* The output.                                                             *)

(* What has been written is always the beginning of the original file,     *)
(* whatever budget, spilling or read-back of the output it took, and, when *)
(* the archive carries digests, whatever was damaged in its blocks.        *)
DecodedPrefix ==
  arch.verified \/ arch.intact => sink = SubSeq(arch.file, 1, Len(sink))

(* Memory the matches in the heap take, in bytes of whole chunks. *)
HeldBytes == ChunkSpace * SumFunction([d \in DOMAIN heap |-> ChunksOf(heap[d][1])])

(* An intact archive is refused for want of memory and nothing else.  With *)
(* slots that hold a match the budget was less than one slot, however much *)
(* must be evicted and restored.  With slots too small for any match       *)
(* (-vmblock=24 and below) nothing is ever spilled, and the budget was     *)
(* less than the matches in the heap and the one to be saved take.         *)
OnlyMemoryFails ==
  arch.intact /\ pc = "failed" =>
    /\ error = "memory"
    /\ IF VmBlock > FitMargin THEN UsefulMemory < VmBlock
                              ELSE UsefulMemory < HeldBytes + ThisRecord.len

(* Where the records of block b say their sources are. *)
StartOf(b) ==
  LET start[i \in 0 .. b - 1] == IF i = 0 THEN 0 ELSE start[i - 1] + arch.blocks[i].size
  IN  start[b - 1]

PendingFrom(b) ==
  LET recs == arch.blocks[b].recs
      at[i \in 0 .. Len(recs)] == IF i = 0 THEN StartOf(b) ELSE at[i - 1] + recs[i].lit
  IN  {[src |-> at[i], dest |-> at[i] + recs[i].off, len |-> recs[i].len] : i \in DOMAIN recs}

Undecorated(m) == [src |-> m.src, dest |-> m.dest, len |-> m.len]

(* Every match in the heap or in a slot some mark names. *)
Held ==
  {heap[d][1] : d \in DOMAIN heap \ Marks}
    \cup UNION {{spill[s][i] : i \in DOMAIN spill[s]} : s \in MarkedSlots}

(* Between blocks, what the decoder holds is exactly what the blocks read  *)
(* so far still owe to later ones, each match once and with the bytes of   *)
(* its source: spilling, restoring and spilling again lose and repeat      *)
(* nothing.                                                                *)
PendingConserved ==
  pc = "block" /\ arch.intact =>
    /\ {Undecorated(m) : m \in Held} =
         {m \in UNION {PendingFrom(b) : b \in 1 .. block} : m.dest >= blockStart}
    /\ Cardinality(DOMAIN heap \ Marks)
         + SumFunction([s \in MarkedSlots |-> Len(spill[s])]) = Cardinality(Held)
    /\ \A m \in Held : m.data # Unsaved => m.data = SubSeq(sink, m.src + 1, m.src + m.len)

(* Every chunk handed out belongs to one pending match: evicting, restoring *)
(* and copying give back exactly what was taken.                            *)
ChunksAccounted ==
  arch.intact =>
    usedChunks = SumFunction([d \in DOMAIN heap |-> ChunksOf(heap[d][1])])

(* How many records a slot can hold. *)
SlotRecords == (VmBlock - (FitMargin - RecordHeader)) \div (RecordHeader + 1)

(* What the records of one slot may take in memory beyond their bytes in   *)
(* the slot: a chunk may be longer than a short record with its header.    *)
SlotRounding ==
  Max({0, SlotRecords * (ChunkSpace - 1 - RecordHeader) - (FitMargin - RecordHeader)})

(* Memory passes the budget by no more than the rounding of one slot's     *)
(* records to whole chunks: room for the bytes of a slot is made before it *)
(* is read back, and several restores in a row do not add up.              *)
OvershootBounded ==
  MemLimit >= ABlockSize /\ VmBlock > FitMargin =>
    usedChunks * ChunkSpace <= UsefulMemory + SlotRounding

(* Only reading a slot back takes memory past the budget: a step that uses *)
(* more of it anywhere else ends within the budget, even when a restore    *)
(* before it went past.  (A budget below one step is none.)                *)
StoreWithinBudget ==
  [][ usedChunks' > usedChunks /\ pc # "load" /\ MemLimit >= ABlockSize
        => usedChunks' * ChunkSpace <= UsefulMemory ]_vars

(* Every decode ends, with whatever budget and slot size: a restore that   *)
(* makes room by evicting cannot chase its own slot for ever.              *)
Terminates == <>(pc \in {"done", "failed"})

(* What an archive with digests says of its file, whatever was damaged in  *)
(* it but the order of its blocks.  A v4 footer that is there counts the   *)
(* blocks of the file, and so do the two counts of v5 when they agree and  *)
(* the blocks are there; all of the file is there if nothing was damaged.  *)
DigestsOf(a, at) ==
  /\ PiecesAt(at, a)
  /\ a.intact => AllPieces(at, a) /\ \A b \in DOMAIN a.blocks : ~ Empty(a.blocks[b])
  /\ a.kind = "v4" /\ a.footer.present /\ a.footer.count <= Len(a.blocks) =>
       at[a.footer.count + 1] = Len(a.file)
  /\ a.kind = "v5" /\ a.footer.present /\ a.footer.count = a.count /\ a.count <= Len(a.blocks) =>
       AllPieces(at, a)

(* What an undamaged archive is.  The records of its blocks, whose sources *)
(* (from) add up from where the block starts in the file (at), are its     *)
(* matches.                                                                *)
MatchesOf(a, from) ==
  UNION {{[home |-> b, nr |-> k, src |-> from[b][k],
           dest |-> from[b][k] + a.blocks[b].recs[k].off, len |-> a.blocks[b].recs[k].len] :
            k \in DOMAIN a.blocks[b].recs} : b \in DOMAIN a.blocks}

SourcesAddUp(a, at, from) ==
  \A b \in DOMAIN a.blocks :
    LET recs == a.blocks[b].recs
    IN  /\ from[b] \in [0 .. Len(recs) -> Nat] /\ from[b][0] = at[b]
        /\ \A k \in 1 .. Len(recs) : from[b][k] = from[b][k - 1] + recs[k].lit

(* A match copies bytes of its own block forward, to where the file has    *)
(* the same bytes, all of them in one block, and to where no other does.   *)
MatchesCopy(a, at, from) ==
  /\ \A m \in MatchesOf(a, from) :
       /\ m.len > 0 /\ m.src < m.dest /\ m.src + m.len <= at[m.home + 1]
       /\ m.dest + m.len <= Len(a.file)
       /\ \A b \in DOMAIN a.blocks : m.dest < at[b + 1] => m.dest + m.len <= at[b + 1]
       /\ Part(a.file, m.src, m.len) = Part(a.file, m.dest, m.len)
  /\ \A m, n \in MatchesOf(a, from) :
       m # n => m.dest + m.len <= n.dest \/ n.dest + n.len <= m.dest

(* Where no match lands the file has the literals of the block, in order;  *)
(* kept[b][p] is how many of them lie before position p.                   *)
LiteralsFillGaps(a, at, from, kept) ==
  \A b \in DOMAIN a.blocks :
    LET lits == a.blocks[b].lits
    IN  /\ kept[b] \in [at[b] .. at[b + 1] -> 0 .. Len(lits)]
        /\ kept[b][at[b]] = 0 /\ kept[b][at[b + 1]] = Len(lits)
        /\ \A m \in MatchesOf(a, from) :
             at[b] <= m.dest /\ m.dest < at[b + 1] => kept[b][m.dest + m.len] = kept[b][m.dest]
        /\ \A p, q \in at[b] .. at[b + 1] :
             p <= q /\ (\A m \in MatchesOf(a, from) : m.dest + m.len <= p \/ q <= m.dest) =>
               /\ kept[b][q] = kept[b][p] + (q - p)
               /\ Part(lits, kept[b][p], q - p) = Part(a.file, p, q - p)

(* The footer counts the blocks and (stat) their records.                  *)
FooterCounts(a, stat) ==
  /\ stat \in [0 .. Len(a.blocks) -> Nat] /\ stat[0] = 0
  /\ \A b \in DOMAIN a.blocks : stat[b] = stat[b - 1] + Len(a.blocks[b].recs)
  /\ a.kind # "v3" => a.footer.present /\ a.footer.count = Len(a.blocks)
  /\ a.kind = "v5" => a.count = Len(a.blocks) /\ a.footer.stat = stat[Len(a.blocks)]

Makes(a, at, from, kept, stat) ==
  /\ at \in [1 .. Len(a.blocks) + 1 -> 0 .. Len(a.file)] /\ at[1] = 0 /\ AllPieces(at, a)
  /\ \A b \in DOMAIN a.blocks :
       LET x == a.blocks[b]
       IN  /\ ~ Empty(x) /\ at[b + 1] = at[b] + x.size
           /\ a.verified => x.digest = Part(a.file, at[b], x.size)
  /\ SourcesAddUp(a, at, from) /\ MatchesCopy(a, at, from)
  /\ LiteralsFillGaps(a, at, from, kept) /\ FooterCounts(a, stat)

(* The decoder implements what BlockDecoder promises. *)
Promise == INSTANCE BlockDecoder WITH
  file <- arch.file,
  counted <- arch.kind # "v3" \/ arch.intact,
  output <- sink,
  status <- IF pc \in {"done", "failed"} THEN pc ELSE "running"

Promised == Promise!Spec
=============================================================================

--------------------------- MODULE FutureLzProofs ---------------------------
(***************************************************************************)
(* Proofs about the Future-LZ decoder, for every set of archives and every *)
(* budget, slot size and save limit.                                       *)
(***************************************************************************)
EXTENDS FutureLz, BufferProofs

-----------------------------------------------------------------------------
(* The heap of pending matches.                                            *)

(* Inserting an entry keeps the heap a heap, and adds its destination.     *)
LEMMA InsertHeap ==
  ASSUME NEW h, IsHeap(h), NEW m \in Entry
  PROVE  /\ IsHeap(Insert(h, m))
         /\ DOMAIN Insert(h, m) = DOMAIN h \cup {m.dest}
<1> DEFINE g == Insert(h, m)
<1>1. DOMAIN g = DOMAIN h \cup {m.dest}
  BY DEF Insert
<1>2. m.dest \in Nat
  BY DEF Entry
<1>3. ASSUME NEW d \in DOMAIN g
      PROVE  g[d] \in Seq(Entry) \ {<<>>}
  <2>1. CASE d # m.dest
    BY <1>3, <2>1 DEF Insert, IsHeap
  <2>2. CASE d = m.dest /\ d \in DOMAIN h
    <3>1. g[d] = Append(h[d], m)
      BY <1>3, <2>2 DEF Insert
    <3>2. h[d] \in Seq(Entry)
      BY <2>2 DEF IsHeap
    <3> QED BY <3>1, <3>2
  <2>3. CASE d = m.dest /\ d \notin DOMAIN h
    <3>1. g[d] = <<m>>
      BY <1>3, <2>3 DEF Insert
    <3> QED BY <3>1
  <2> QED BY <2>1, <2>2, <2>3
<1>4. g = [d \in DOMAIN g |-> g[d]]
  BY DEF Insert
<1> QED BY <1>1, <1>2, <1>3, <1>4 DEF IsHeap

(* Taking a class out keeps the heap a heap, and removes its destination.  *)
LEMMA TakeHeap ==
  ASSUME NEW h, IsHeap(h), NEW d
  PROVE  /\ IsHeap(TakeClass(h, d))
         /\ DOMAIN TakeClass(h, d) = DOMAIN h \ {d}
         /\ \A e \in DOMAIN h \ {d} : TakeClass(h, d)[e] = h[e]
  BY DEF IsHeap, TakeClass

(* The first match of a class is an entry. *)
LEMMA FirstOfClass ==
  ASSUME NEW h, IsHeap(h), NEW d \in DOMAIN h
  PROVE  h[d][1] \in Entry /\ d \in Nat
  BY DEF IsHeap

LEMMA ChunksOfType ==
  ASSUME NEW m \in Entry
  PROVE  ChunksOf(m) \in Int
  BY BudgetAssumption DEF ChunksOf, Chunks, Entry

(* What the blocks and records of an archive are.                          *)
LEMMA CurrentBlockType ==
  ASSUME ReadOK, block < Len(arch.blocks)
  PROVE  CurrentBlock \in Block /\ blockEnd \in Nat /\ Literals \in Seq(Bytes)
<1>1. arch.blocks \in Seq(Block)
  BY DEF ReadOK, Archive
<1>2. block \in Nat /\ blockStart \in Nat
  BY DEF ReadOK
<1>3. CurrentBlock \in Block
  BY <1>1, <1>2 DEF CurrentBlock
<1>4. CurrentBlock.size \in Nat /\ CurrentBlock.lits \in Seq(Bytes)
  BY <1>3 DEF Block
<1> QED BY <1>2, <1>3, <1>4 DEF blockEnd, Literals

LEMMA ThisRecordType ==
  ASSUME ReadOK, BuildOK, block < Len(arch.blocks), MoreRecords
  PROVE  /\ ThisRecord \in Record /\ src \in Nat /\ dest \in Nat
         /\ NextRecord => rec' \in Nat \ {0} /\ blockPos' \in Nat
         /\ \A m \in Seq(Bytes) : Pending(m) \in Entry
         /\ Pending(Unsaved) \in Entry
<1>1. CurrentBlock.recs \in Seq(Record)
  BY CurrentBlockType DEF Block
<1>2. rec \in Nat \ {0} /\ blockPos \in Nat
  BY DEF BuildOK
<1>3. ThisRecord \in Record
  BY <1>1, <1>2 DEF MoreRecords, ThisRecord
<1>4. src \in Nat /\ dest \in Nat
  BY <1>2, <1>3 DEF Record, src, dest
<1>5. NextRecord => rec' \in Nat \ {0} /\ blockPos' \in Nat
  BY <1>2, <1>4 DEF NextRecord
<1>6. \A m \in Seq(Bytes) : Pending(m) \in Entry
  BY <1>3, <1>4 DEF Pending, Entry, Record
<1>7. Unsaved \in Seq(Bytes)
  BY DEF Unsaved
<1> QED BY <1>3, <1>4, <1>5, <1>6, <1>7

(* A variable nobody touches keeps its type.                               *)
LEMMA KeepRead ==
  ASSUME ReadOK, UNCHANGED <<arch, block, blockStart, totalStat>>,
         InBlock' => InBlock /\ UNCHANGED inPos
  PROVE  ReadOK'
  BY DEF ReadOK, Literals, CurrentBlock

LEMMA KeepBuild ==
  ASSUME BuildOK, UNCHANGED <<rec, blockPos, inPos, outBuf, sink, sinkPos>>
  PROVE  BuildOK'
  BY DEF BuildOK

LEMMA KeepHeap ==
  ASSUME HeapOK, UNCHANGED <<heap, usedChunks>>
  PROVE  HeapOK'
  BY DEF HeapOK

LEMMA KeepPack ==
  ASSUME PackOK, UNCHANGED <<packed, filled>>
  PROVE  PackOK'
  BY DEF PackOK

LEMMA KeepSpill ==
  ASSUME SpillOK, UNCHANGED <<slot, loaded, spill, freeBlocks, newBlock>>,
         pc' = "load" => pc = "load"
  PROVE  SpillOK'
  BY DEF SpillOK

-----------------------------------------------------------------------------
(* Every variable keeps its type.                                          *)
THEOREM TypeCorrect == Spec => []TypeOK
<1>1. Init => TypeOK
  <2> SUFFICES ASSUME Init PROVE TypeOK
    OBVIOUS
  <2>1. ControlOK /\ BuildOK /\ HeapOK /\ PackOK
    BY DEF Init, ControlOK, BuildOK, HeapOK, PackOK, IsHeap, Bytes
  <2>2. ReadOK
    BY ArchiveAssumption DEF Init, ReadOK, InBlock
  <2>3. SpillOK
    BY DEF Init, SpillOK
  <2> QED BY <2>1, <2>2, <2>3 DEF TypeOK
<1>2. TypeOK /\ [Next]_vars => TypeOK'
  <2> SUFFICES ASSUME TypeOK, [Next]_vars PROVE TypeOK'
    OBVIOUS
  <2>0. ControlOK /\ ReadOK /\ BuildOK /\ HeapOK /\ PackOK /\ SpillOK
    BY DEF TypeOK
  <2> USE <2>0, KeepRead, KeepBuild, KeepHeap, KeepPack, KeepSpill
          DEF readVars, buildVars, sinkVars, packVars, slotVars, vmVars
  <2>1. CASE \E why \in {"container", "baddata", "memory", "digest", "io"} : Fail(why)
    BY <2>1 DEF TypeOK, Fail, ControlOK, InBlock
  <2>2. CASE Open \/ Finish \/ EndValidate \/ EndStore \/ EndRestore
    BY <2>2 DEF TypeOK, Open, Finish, EndValidate, EndStore, EndRestore, ControlOK, InBlock
  <2>3. CASE ReadBlock
    <3>1. arch.blocks \in Seq(Block) /\ block \in Nat
      BY DEF ReadOK, Archive
    <3>2. block < Len(arch.blocks) => CurrentBlock \in Block /\ Literals \in Seq(Bytes)
      BY CurrentBlockType
    <3>3. ReadOK'
      <4>1. block < Len(arch.blocks)
        BY <2>3, <3>1 DEF ReadBlock, AtEnd, ReadOK
      <4>2. Len(CurrentBlock.recs) \in Nat
        BY <3>2, <4>1 DEF Block
      <4>3. 0 <= Len(Literals)
        BY <3>2, <4>1
      <4> QED BY <2>3, <4>1, <4>2, <4>3 DEF ReadBlock, ReadOK, Literals, CurrentBlock
    <3>4. BuildOK'
      BY <2>3 DEF ReadBlock, BuildOK, ReadOK, sinkVars, Bytes
    <3> QED BY <2>3, <3>3, <3>4 DEF TypeOK, ReadBlock, ControlOK
  <2>4. CASE ValidateRecord
    <3>1. block < Len(arch.blocks) /\ MoreRecords
      BY <2>4 DEF ReadOK, InBlock, ValidateRecord
    <3>2. Pending(Unsaved) \in Entry
      BY <3>1, ThisRecordType
    <3>3. HeapOK'
      BY <2>4, <3>2, InsertHeap DEF ValidateRecord, HeapOK
    <3>4. BuildOK'
      BY <2>4, <3>1, ThisRecordType DEF ValidateRecord, BuildOK
    <3> QED BY <2>4, <3>3, <3>4 DEF TypeOK, ValidateRecord, ControlOK, InBlock
  <2>5. CASE FillMatch
    <3>1. PICK d \in DOMAIN heap : FillMatch!(d)
      BY <2>5 DEF FillMatch
    <3> DEFINE m == heap[d][1]
    <3>2. m \in Entry /\ IsHeap(TakeClass(heap, d))
      BY FirstOfClass, TakeHeap DEF HeapOK
    <3>3. block < Len(arch.blocks) /\ inPos <= Len(Literals)
      BY <3>1 DEF Due, ReadOK, InBlock
    <3>4. Literals \in Seq(Bytes)
      BY <3>3, CurrentBlockType
    <3>5. LitLen(m) \in Nat /\ LitLen(m) <= Len(Literals) - inPos
      <4>1. outPos \in Nat /\ blockStart \in Nat /\ m.dest \in Nat
        BY <3>2 DEF outPos, BuildOK, ReadOK, Entry
      <4>2. m.dest >= blockStart + outPos /\ LitLen(m) <= Len(Literals) - inPos
        BY <3>1 DEF MatchFits
      <4> QED BY <4>1, <4>2 DEF LitLen
    <3>6. inPos \in Nat
      BY DEF BuildOK
    <3>7. outBuf' \in Seq(Bytes)
      <4> DEFINE buf == outBuf \o Part(Literals, inPos, LitLen(m))
      <4>1. buf \in Seq(Bytes)
        BY <3>4, <3>5, <3>6, PartBytes DEF BuildOK
      <4>2. m.src \in Nat /\ m.len \in Nat /\ m.data \in Seq(Bytes)
        BY <3>2 DEF Entry
      <4>3. Part(sink, m.src, m.len) \in Seq(Bytes)
        BY <4>2, PartBytes DEF BuildOK
      <4> HIDE DEF buf
      <4>4. LzCopy(buf, m.src - blockStart, m.len) \in Seq(Bytes)
        BY <4>1, <4>2, LzCopyBytes DEF ReadOK
      <4> DEFINE bytes == IF FromSink(m) THEN Part(sink, m.src, m.len)
                          ELSE IF m.data # Unsaved THEN m.data
                          ELSE LzCopy(buf, m.src - blockStart, m.len)
      <4>5. bytes \in Seq(Bytes)
        BY <4>2, <4>3, <4>4, Zenon
      <4>6. outBuf' = buf \o bytes
        BY <3>1 DEF Filled, buf
      <4> HIDE DEF bytes
      <4> QED BY <4>1, <4>5, <4>6
    <3>8. inPos' \in Nat /\ inPos' <= Len(Literals)
      BY <3>1, <3>4, <3>5, <3>6
    <3>9. sinkPos' \in Nat
      BY <3>1, <3>2 DEF BuildOK, Entry
    <3>10. BuildOK'
      BY <3>1, <3>7, <3>8, <3>9 DEF BuildOK
    <3>11. ReadOK'
      BY <3>1, <3>3, <3>8 DEF ReadOK, Literals, CurrentBlock
    <3>12. HeapOK'
      BY <3>1, <3>2, ChunksOfType DEF HeapOK
    <3> QED BY <3>1, <3>10, <3>11, <3>12 DEF TypeOK, ControlOK
  <2>6. CASE TakeMark
    <3>1. PICK d \in DOMAIN heap : TakeMark!(d)
      BY <2>6 DEF TakeMark
    <3>2. heap[d][1] \in Entry /\ IsHeap(TakeClass(heap, d))
      BY FirstOfClass, TakeHeap DEF HeapOK
    <3>3. HeapOK'
      BY <3>1, <3>2 DEF HeapOK
    <3>4. SpillOK'
      BY <3>1, <3>2 DEF SpillOK, Entry
    <3> QED BY <3>1, <3>3, <3>4 DEF TypeOK, ControlOK, InBlock, Due
  <2>7. CASE FillTail
    <3>1. block < Len(arch.blocks) /\ inPos <= Len(Literals)
      BY <2>7 DEF ReadOK, InBlock, FillTail
    <3>2. Literals \in Seq(Bytes)
      BY <3>1, CurrentBlockType
    <3>3. Part(Literals, inPos, Len(Literals) - inPos) \in Seq(Bytes)
      BY <3>1, <3>2, PartBytes DEF BuildOK
    <3>4. BuildOK'
      BY <2>7, <3>3 DEF BuildOK, ReadOK, FillTail
    <3> QED BY <2>7, <3>4 DEF TypeOK, FillTail, ControlOK, InBlock
  <2>8. CASE SkipRecord
    <3>1. BuildOK'
      BY <2>8, ThisRecordType DEF SkipRecord, BuildOK, ReadOK, InBlock
    <3> QED BY <2>8, <3>1 DEF TypeOK, SkipRecord, ControlOK, InBlock
  <2>9. CASE StoreUnsaved
    <3>1. block < Len(arch.blocks) /\ MoreRecords
      BY <2>9 DEF ReadOK, InBlock, StoreUnsaved
    <3>2. Pending(Unsaved) \in Entry
      BY <3>1, ThisRecordType
    <3>3. HeapOK'
      BY <2>9, <3>2, InsertHeap DEF StoreUnsaved, HeapOK
    <3>4. BuildOK'
      BY <2>9, <3>1, ThisRecordType DEF StoreUnsaved, BuildOK
    <3> QED BY <2>9, <3>3, <3>4 DEF TypeOK, StoreUnsaved, ControlOK, InBlock
  <2>10. CASE StoreMatch
    <3> DEFINE bytes == Part(outBuf, src - blockStart, ThisRecord.len)
    <3>1. block < Len(arch.blocks) /\ MoreRecords
      BY <2>10 DEF ReadOK, InBlock, StoreMatch
    <3>2. bytes \in Seq(Bytes)
      BY <3>1, ThisRecordType, PartBytes DEF ReadOK, BuildOK, Record
    <3>3. Pending(bytes) \in Entry
      BY <3>1, <3>2, ThisRecordType
    <3> HIDE DEF bytes
    <3>4. heap' = Insert(heap, Pending(bytes)) /\ usedChunks' = usedChunks + ChunksOf(Pending(bytes))
      BY <2>10 DEF StoreMatch, bytes
    <3>5. HeapOK'
      <4>1. IsHeap(Insert(heap, Pending(bytes))) /\ ChunksOf(Pending(bytes)) \in Int
        BY <3>3, InsertHeap, ChunksOfType DEF HeapOK
      <4> QED BY <3>4, <4>1 DEF HeapOK
    <3>6. BuildOK'
      BY <2>10, <3>1, ThisRecordType DEF StoreMatch, BuildOK
    <3> QED BY <2>10, <3>5, <3>6 DEF TypeOK, StoreMatch, ControlOK, InBlock
  <2>11. CASE StoreNeedsRoom \/ RestoreNeedsRoom
    <3>1. packed' = <<>> /\ filled' = 0
      BY <2>11 DEF StoreNeedsRoom, RestoreNeedsRoom, BeginPacking
    <3>2. PackOK'
      BY <3>1 DEF PackOK
    <3> QED BY <2>11, <3>2 DEF TypeOK, StoreNeedsRoom, RestoreNeedsRoom, BeginPacking,
              ControlOK, InBlock
  <2>12. CASE EvictMatch
    <3>1. PICK d \in DOMAIN heap : EvictMatch!(d)
      BY <2>12 DEF EvictMatch
    <3>2. heap[d][1] \in Entry /\ IsHeap(TakeClass(heap, d))
      BY FirstOfClass, TakeHeap DEF HeapOK
    <3>3. heap[d][1].len \in Nat
      BY <3>2 DEF Entry
    <3>4. PackOK'
      BY <3>1, <3>2, <3>3, SlotAssumption DEF PackOK
    <3>5. HeapOK'
      BY <3>1, <3>2, ChunksOfType DEF HeapOK
    <3> QED BY <3>1, <3>4, <3>5 DEF TypeOK, ControlOK, InBlock
  <2>13. CASE WriteSlot
    <3>1. PICK s \in DOMAIN spill \cup {newBlock} : WriteSlot!2!(s)
      BY <2>13 DEF WriteSlot
    <3>2. s \in Nat
      BY DEF SpillOK
    <3>3. freeBlocks' \in Seq(Nat) /\ newBlock' \in Nat
      <4>1. CASE freeBlocks # <<>>
        <5>1. freeBlocks' = SubSeq(freeBlocks, 1, Len(freeBlocks) - 1) /\ newBlock' = newBlock
          BY <3>1, <4>1 DEF AllocBlock
        <5>2. freeBlocks \in Seq(Nat) /\ Len(freeBlocks) \in Nat \ {0} /\ newBlock \in Nat
          BY <4>1 DEF SpillOK
        <5> QED BY <5>1, <5>2
      <4>2. CASE freeBlocks = <<>>
        BY <3>1, <4>2 DEF AllocBlock, SpillOK
      <4> QED BY <4>1, <4>2
    <3>4. packed[Len(packed)] \in Entry
      BY <2>13 DEF WriteSlot, PackOK
    <3>5. Mark(s, packed[Len(packed)].dest) \in Entry
      BY <3>2, <3>4 DEF Mark, Entry, Unsaved
    <3>6. HeapOK'
      BY <2>13, <3>1, <3>5, InsertHeap DEF HeapOK, WriteSlot
    <3>7. DOMAIN spill' \subseteq Nat /\ spill' \in [DOMAIN spill' -> Seq(Entry)]
      BY <3>1, <3>2 DEF SpillOK, PackOK
    <3>8. SpillOK'
      BY <2>13, <3>3, <3>7 DEF SpillOK, WriteSlot, ControlOK
    <3>9. PackOK'
      BY <2>13 DEF PackOK, WriteSlot
    <3> QED BY <2>13, <3>6, <3>8, <3>9 DEF TypeOK, WriteSlot, ControlOK, InBlock
  <2>14. CASE ReadSlot
    <3>1. SpillOK'
      BY <2>14 DEF SpillOK, ReadSlot
    <3> QED BY <2>14, <3>1 DEF TypeOK, ReadSlot, ControlOK, InBlock
  <2>15. CASE LoadRecord
    <3> DEFINE m == spill[slot][loaded + 1]
    <3>1. m \in Entry
      BY <2>15 DEF SpillOK, LoadRecord
    <3>2. IsHeap(Insert(heap, m)) /\ ChunksOf(m) \in Int
      BY <3>1, InsertHeap, ChunksOfType DEF HeapOK
    <3>3. HeapOK'
      BY <2>15, <3>2 DEF LoadRecord, HeapOK
    <3>4. SpillOK'
      BY <2>15 DEF SpillOK, LoadRecord
    <3> QED BY <2>15, <3>3, <3>4 DEF TypeOK, LoadRecord, ControlOK, InBlock
  <2>16. CASE WriteBlock
    <3>1. blockEnd \in Nat
      BY <2>16, CurrentBlockType DEF WriteBlock, ReadOK, InBlock
    <3>2. WriteAt(sink, blockStart, outBuf) \in Seq(Bytes)
      BY WriteAtBytes DEF BuildOK, ReadOK
    <3>3. BuildOK'
      BY <2>16, <3>2 DEF BuildOK, ReadOK, WriteBlock
    <3>4. ReadOK'
      BY <2>16, <3>1 DEF ReadOK, WriteBlock, InBlock
    <3> QED BY <2>16, <3>3, <3>4 DEF TypeOK, WriteBlock, ControlOK
  <2>17. CASE UNCHANGED vars
    BY <2>17 DEF TypeOK, vars, ControlOK, InBlock
  <2> QED
    BY <2>1, <2>2, <2>3, <2>4, <2>5, <2>6, <2>7, <2>8, <2>9, <2>10, <2>11, <2>12,
       <2>13, <2>14, <2>15, <2>16, <2>17
       DEF Next, RefuseOpen, Truncated, RefuseFooter, RejectRecord, RejectMatch,
           RejectLiterals, NothingToEvict, SlotMissing, RejectDigest, Stopped
<1> QED BY <1>1, <1>2, PTL DEF Spec

(* What is packed always fits in one slot, terminator included.            *)
THEOREM SlotNeverOverflows == Spec => []SlotWithinBlock
<1>1. Init => SlotWithinBlock
  BY DEF Init, SlotWithinBlock
<1>2. TypeOK /\ SlotWithinBlock /\ [Next]_vars => SlotWithinBlock'
  <2> SUFFICES ASSUME TypeOK, SlotWithinBlock, [Next]_vars PROVE SlotWithinBlock'
    OBVIOUS
  <2>1. CASE EvictMatch
    <3>1. PICK d \in DOMAIN heap : EvictMatch!(d)
      BY <2>1 DEF EvictMatch
    <3>2. heap[d][1].len \in Nat /\ filled \in Nat
      BY FirstOfClass DEF TypeOK, HeapOK, PackOK, Entry
    <3>3. VmBlock - filled >= FitMargin + heap[d][1].len
      BY <3>1 DEF Fits
    <3>4. filled' = filled + RecordHeader + heap[d][1].len
      BY <3>1
    <3> QED BY <3>2, <3>3, <3>4, BudgetAssumption, SlotAssumption DEF SlotWithinBlock
  <2>2. CASE UNCHANGED <<packed, filled>>
    BY <2>2 DEF SlotWithinBlock
  <2>3. CASE packed' = <<>>
    BY <2>3 DEF SlotWithinBlock
  <2> QED
    BY <2>1, <2>2, <2>3 DEF Next, vars, packVars, Open, RefuseOpen, ReadBlock, Truncated,
       Finish, RefuseFooter, ValidateRecord, RejectRecord, EndValidate, FillMatch,
       RejectMatch, TakeMark, FillTail, RejectLiterals, SkipRecord, StoreUnsaved,
       StoreMatch, StoreNeedsRoom, EndStore, WriteSlot, NothingToEvict,
       RestoreNeedsRoom, ReadSlot, SlotMissing, LoadRecord, EndRestore, WriteBlock,
       RejectDigest, Stopped, Fail, BeginPacking
<1> QED BY <1>1, <1>2, TypeCorrect, PTL DEF Spec

-----------------------------------------------------------------------------
(* Slots.  A record of length 0 would enter the heap as a mark nobody      *)
(* wrote a slot for; no encoder makes one.                                 *)
NoEmptyRecords ==
  \A a \in Archives : \A b \in DOMAIN a.blocks : \A i \in DOMAIN a.blocks[b].recs :
    a.blocks[b].recs[i].len > 0

(* The first match of a class stands at its own destination, and has bytes *)
(* of its own only if it is a real match.                                  *)
Keyed == \A d \in DOMAIN heap : heap[d][1].dest = d
Solid == \A d \in DOMAIN heap : heap[d][1].data # Unsaved => heap[d][1].len > 0

(* Whatever is packed has left the heap for good, and stands further than  *)
(* anything that may still be packed after it.                             *)
PackedOrder ==
  /\ pc # "evict" => packed = <<>>
  /\ \A i \in DOMAIN packed :
       /\ packed[i].len > 0 /\ packed[i].dest \notin DOMAIN heap
       /\ \A e \in DOMAIN heap : Evictable(e) => e < packed[i].dest
  /\ \A i, j \in DOMAIN packed : i < j => packed[i].dest > packed[j].dest

SpilledSolid ==
  \A s \in DOMAIN spill : \A i \in DOMAIN spill[s] : spill[s][i].len > 0

SlotInv ==
  /\ arch \in Archives
  /\ Keyed /\ Solid /\ PackedOrder /\ SpilledSolid /\ SlotsOwned /\ MarkOrder

(* Inserting leaves the first match of every class in place.               *)
LEMMA InsertFirst ==
  ASSUME NEW h, IsHeap(h), NEW m \in Entry
  PROVE  /\ \A d \in DOMAIN h : Insert(h, m)[d][1] = h[d][1]
         /\ m.dest \notin DOMAIN h => Insert(h, m)[m.dest][1] = m
<1>1. ASSUME NEW d \in DOMAIN h
      PROVE  Insert(h, m)[d][1] = h[d][1]
  <2>1. CASE d # m.dest
    BY <1>1, <2>1 DEF Insert
  <2>2. CASE d = m.dest
    <3>1. Insert(h, m)[d] = Append(h[d], m)
      BY <1>1, <2>2 DEF Insert
    <3>2. h[d] \in Seq(Entry) /\ Len(h[d]) > 0
      BY <1>1 DEF IsHeap
    <3> QED BY <3>1, <3>2
  <2> QED BY <2>1, <2>2
<1>2. ASSUME m.dest \notin DOMAIN h
      PROVE  Insert(h, m)[m.dest][1] = m
  <2>1. Insert(h, m)[m.dest] = <<m>>
    BY <1>2 DEF Insert
  <2> QED BY <2>1
<1> QED BY <1>1, <1>2

(* A real match never adds or hides a mark; a mark put at a free           *)
(* destination adds itself.                                                *)
LEMMA InsertMatchMarks ==
  ASSUME NEW h, IsHeap(h), NEW m \in Entry, m.len > 0
  PROVE  MarksOf(Insert(h, m)) = MarksOf(h)
<1> DEFINE g == Insert(h, m)
<1>1. DOMAIN g = DOMAIN h \cup {m.dest}
  BY InsertHeap
<1>2. /\ \A d \in DOMAIN h : g[d][1] = h[d][1]
      /\ m.dest \notin DOMAIN h => g[m.dest][1] = m
  BY InsertFirst
<1>3. m.len # 0
  BY DEF Entry
<1> HIDE DEF g
<1>4. \A d : d \in MarksOf(g) <=> d \in MarksOf(h)
  BY <1>1, <1>2, <1>3 DEF MarksOf, IsMark
<1> QED BY <1>4 DEF MarksOf, g

LEMMA InsertMarkMarks ==
  ASSUME NEW h, IsHeap(h), NEW m \in Entry, m.len = 0, m.dest \notin DOMAIN h
  PROVE  MarksOf(Insert(h, m)) = MarksOf(h) \cup {m.dest}
<1> DEFINE g == Insert(h, m)
<1>1. DOMAIN g = DOMAIN h \cup {m.dest}
  BY InsertHeap
<1>2. (\A d \in DOMAIN h : g[d][1] = h[d][1]) /\ g[m.dest][1] = m
  BY InsertFirst
<1> HIDE DEF g
<1>3. \A d : d \in MarksOf(g) <=> d \in MarksOf(h) \cup {m.dest}
  BY <1>1, <1>2 DEF MarksOf, IsMark
<1> QED BY <1>3 DEF MarksOf, g

LEMMA TakeMarks ==
  ASSUME NEW h, IsHeap(h), NEW d
  PROVE  MarksOf(TakeClass(h, d)) = MarksOf(h) \ {d}
<1> DEFINE g == TakeClass(h, d)
<1>1. DOMAIN g = DOMAIN h \ {d} /\ \A e \in DOMAIN g : g[e] = h[e]
  BY TakeHeap
<1> HIDE DEF g
<1>2. \A e : e \in MarksOf(g) <=> e \in MarksOf(h) \ {d}
  BY <1>1 DEF MarksOf
<1> QED BY <1>2 DEF MarksOf, g

(* A step that leaves the marks, the spill file and the slot waited for    *)
(* as they are keeps every slot's owner.                                   *)
LEMMA SameMarks ==
  ASSUME SlotsOwned, MarkOrder, pc # "failed", pc' # "failed",
         Marks' = Marks, \A d \in Marks : heap'[d][1] = heap[d][1],
         UNCHANGED <<spill, freeBlocks, newBlock>>, AwaitedSlots' = AwaitedSlots
  PROVE  SlotsOwned' /\ MarkOrder'
<1>1. MarkedSlots' = MarkedSlots /\ FreeSlots' = FreeSlots
  BY DEF MarkedSlots, FreeSlots
<1>2. SlotsOwned'
  BY <1>1 DEF SlotsOwned
<1>3. MarkOrder'
  BY DEF MarkOrder
<1> QED BY <1>2, <1>3

(* A real match put into the heap disturbs no slot.                        *)
LEMMA InsertMatch ==
  ASSUME SlotInv, IsHeap(heap), NEW m \in Entry, m.len > 0,
         heap' = Insert(heap, m), pc \notin {"evict", "failed"}, pc' = pc,
         UNCHANGED <<arch, caller, slot, packed, spill, freeBlocks, newBlock>>
  PROVE  SlotInv'
<1>1. DOMAIN heap' = DOMAIN heap \cup {m.dest}
  BY InsertHeap
<1>2. /\ \A d \in DOMAIN heap : heap'[d][1] = heap[d][1]
      /\ m.dest \notin DOMAIN heap => heap'[m.dest][1] = m
  BY InsertFirst
<1>3. Keyed' /\ Solid'
  BY <1>1, <1>2 DEF SlotInv, Keyed, Solid
<1>4. PackedOrder' /\ SpilledSolid'
  BY DEF SlotInv, PackedOrder, SpilledSolid
<1>5. Marks' = Marks
  BY InsertMatchMarks DEF Marks
<1>6. AwaitedSlots' = AwaitedSlots
  BY DEF AwaitedSlots
<1>7. SlotsOwned' /\ MarkOrder'
  BY <1>2, <1>5, <1>6, SameMarks DEF SlotInv, Marks, MarksOf
<1> QED BY <1>3, <1>4, <1>7 DEF SlotInv

(* Neither does taking out a class that starts with a real match.          *)
LEMMA TakeMatch ==
  ASSUME SlotInv, IsHeap(heap), NEW d \in DOMAIN heap, heap[d][1].len # 0,
         heap' = TakeClass(heap, d), pc # "failed", pc' = pc,
         UNCHANGED <<caller, slot, spill, freeBlocks, newBlock>>
  PROVE  Keyed' /\ Solid' /\ SlotsOwned' /\ MarkOrder'
<1>1. DOMAIN heap' = DOMAIN heap \ {d} /\ \A e \in DOMAIN heap' : heap'[e] = heap[e]
  BY TakeHeap
<1>2. Keyed' /\ Solid'
  BY <1>1 DEF SlotInv, Keyed, Solid
<1>3. Marks' = Marks
  BY TakeMarks DEF Marks, MarksOf, IsMark
<1>4. \A e \in Marks : heap'[e][1] = heap[e][1]
  BY <1>1, <1>3 DEF Marks, MarksOf
<1>5. AwaitedSlots' = AwaitedSlots
  BY DEF AwaitedSlots
<1> QED BY <1>2, <1>3, <1>4, <1>5, SameMarks DEF SlotInv

(* What the slots need holds throughout.                                   *)
LEMMA SlotsKept ==
  ASSUME NoEmptyRecords
  PROVE  Spec => [](TypeOK /\ SlotInv)
<1>1. Init => SlotInv
  <2> SUFFICES ASSUME Init PROVE SlotInv
    OBVIOUS
  <2>1. DOMAIN heap = {} /\ DOMAIN spill = {} /\ freeBlocks = <<>> /\ newBlock = 0
    BY DEF Init
  <2>2. Marks = {} /\ FreeSlots = {} /\ AwaitedSlots = {} /\ MarkedSlots = {}
    BY <2>1 DEF Init, Marks, MarksOf, FreeSlots, AwaitedSlots, MarkedSlots
  <2>3. SlotsOwned /\ MarkOrder
    BY <2>1, <2>2 DEF SlotsOwned, MarkOrder
  <2>4. PackedOrder
    BY DEF Init, PackedOrder
  <2> QED BY <2>1, <2>3, <2>4 DEF Init, SlotInv, Keyed, Solid, SpilledSolid
<1>2. TypeOK /\ SlotInv /\ [Next]_vars => SlotInv'
  <2> SUFFICES ASSUME TypeOK, SlotInv, [Next]_vars PROVE SlotInv'
    OBVIOUS
  <2>0. /\ ControlOK /\ ReadOK /\ BuildOK /\ HeapOK /\ PackOK /\ SpillOK
        /\ IsHeap(heap)
        /\ arch \in Archives /\ Keyed /\ Solid /\ PackedOrder /\ SpilledSolid
        /\ SlotsOwned /\ MarkOrder
    BY DEF TypeOK, SlotInv, HeapOK
  <2> USE <2>0 DEF readVars, buildVars, sinkVars, packVars, slotVars, vmVars
  <2>1. CASE /\ pc' = "failed"
             /\ UNCHANGED <<arch, heap, caller, slot, packed, spill, freeBlocks, newBlock>>
             /\ packed = <<>>
    <3>1. SlotsOwned' /\ PackedOrder'
      BY <2>1 DEF SlotsOwned, PackedOrder
    <3>2. Keyed' /\ Solid' /\ SpilledSolid' /\ MarkOrder'
      BY <2>1 DEF Keyed, Solid, SpilledSolid, MarkOrder, Marks, MarksOf, DescendTo
    <3> QED BY <2>1, <3>1, <3>2 DEF SlotInv
  <2>2. CASE /\ pc' \notin {"evict", "restore", "failed"}
             /\ pc \notin {"evict", "restore", "failed"}
             /\ UNCHANGED <<arch, heap, caller, slot, packed, spill, freeBlocks, newBlock>>
    <3>1. PackedOrder' /\ Keyed' /\ Solid' /\ SpilledSolid'
      BY <2>2 DEF PackedOrder, Keyed, Solid, SpilledSolid
    <3>2. Marks' = Marks /\ AwaitedSlots' = AwaitedSlots
      BY <2>2 DEF Marks, MarksOf, AwaitedSlots
    <3>3. SlotsOwned' /\ MarkOrder'
      BY <2>2, <3>2, SameMarks
    <3> QED BY <2>2, <3>1, <3>3 DEF SlotInv
  <2>3. ASSUME block < Len(arch.blocks), MoreRecords
        PROVE  ThisRecord.len > 0
    <3>1. arch.blocks \in Seq(Block) /\ block \in Nat
      BY DEF ReadOK, Archive
    <3>2. block + 1 \in DOMAIN arch.blocks
      BY <2>3, <3>1
    <3>3. rec \in DOMAIN CurrentBlock.recs
      BY <2>3, CurrentBlockType DEF MoreRecords, BuildOK, Block
    <3> QED BY <3>2, <3>3, NoEmptyRecords DEF NoEmptyRecords, ThisRecord, CurrentBlock
  <2>4. CASE ValidateRecord
    <3>1. block < Len(arch.blocks) /\ MoreRecords
      BY <2>4 DEF ReadOK, InBlock, ValidateRecord
    <3>2. Pending(Unsaved) \in Entry /\ Pending(Unsaved).len > 0
      BY <2>3, <3>1, ThisRecordType DEF Pending
    <3>3. CASE dest < blockEnd
      BY <2>4, <3>2, <3>3, InsertMatch DEF ValidateRecord
    <3>4. CASE ~ (dest < blockEnd)
      BY <2>2, <2>4, <3>4 DEF ValidateRecord
    <3> QED BY <3>3, <3>4
  <2>5. CASE FillMatch
    <3>1. PICK d \in DOMAIN heap : FillMatch!(d)
      BY <2>5 DEF FillMatch
    <3>2. Keyed' /\ Solid' /\ SlotsOwned' /\ MarkOrder'
      BY <3>1, TakeMatch DEF Due, IsMark
    <3>3. PackedOrder' /\ SpilledSolid'
      BY <3>1 DEF Due, PackedOrder, SpilledSolid
    <3> QED BY <3>1, <3>2, <3>3 DEF SlotInv
  <2>6. CASE StoreUnsaved
    <3>1. block < Len(arch.blocks) /\ MoreRecords
      BY <2>6 DEF ReadOK, InBlock, StoreUnsaved
    <3>2. Pending(Unsaved) \in Entry /\ Pending(Unsaved).len > 0
      BY <2>3, <3>1, ThisRecordType DEF Pending
    <3> QED BY <2>6, <3>2, InsertMatch DEF StoreUnsaved
  <2>7. CASE StoreMatch
    <3> DEFINE m == Pending(Part(outBuf, src - blockStart, ThisRecord.len))
    <3>1. block < Len(arch.blocks) /\ MoreRecords
      BY <2>7 DEF ReadOK, InBlock, StoreMatch
    <3>2. Part(outBuf, src - blockStart, ThisRecord.len) \in Seq(Bytes)
      BY <3>1, ThisRecordType, PartBytes DEF ReadOK, BuildOK, Record
    <3>3. m \in Entry
      BY <3>1, <3>2, ThisRecordType
    <3>4. m.len > 0
      BY <2>3, <3>1 DEF Pending
    <3>5. heap' = Insert(heap, m)
      BY <2>7 DEF StoreMatch
    <3> HIDE DEF m
    <3> QED BY <2>7, <3>3, <3>4, <3>5, InsertMatch DEF StoreMatch
  <2>8. CASE LoadRecord
    <3> DEFINE m == spill[slot][loaded + 1]
    <3>1. m \in Entry /\ m.len > 0
      BY <2>8 DEF SpillOK, LoadRecord, SpilledSolid
    <3> QED BY <2>8, <3>1, InsertMatch DEF LoadRecord
  <2>9. CASE TakeMark
    <3>1. PICK d \in DOMAIN heap : TakeMark!(d)
      BY <2>9 DEF TakeMark
    <3>2. pc = "fill" /\ pc' = "restore" /\ d \in Marks /\ slot' = heap[d][1].src
      BY <3>1 DEF Due, Marks, MarksOf
    <3>3. /\ DOMAIN heap' = DOMAIN heap \ {d}
          /\ \A e \in DOMAIN heap' : heap'[e] = heap[e]
      BY <3>1, TakeHeap
    <3>4. Keyed' /\ Solid'
      BY <3>3 DEF Keyed, Solid
    <3>5. PackedOrder' /\ SpilledSolid'
      BY <3>1, <3>2 DEF PackedOrder, SpilledSolid
    <3>6. Marks' = Marks \ {d}
      BY <3>1, TakeMarks DEF Marks
    <3>7. \A e \in Marks' : heap'[e][1] = heap[e][1]
      BY <3>3 DEF Marks, MarksOf
    <3>8. AwaitedSlots = {} /\ AwaitedSlots' = {heap[d][1].src}
      BY <3>2 DEF AwaitedSlots
    <3>9. MarkedSlots' = MarkedSlots \ {heap[d][1].src}
      BY <3>2, <3>6, <3>7 DEF MarkedSlots, SlotsOwned
    <3>10. FreeSlots' = FreeSlots /\ heap[d][1].src \in MarkedSlots
      BY <3>1, <3>2 DEF FreeSlots, MarkedSlots
    <3>11. SlotsOwned'
      BY <3>1, <3>2, <3>6, <3>7, <3>8, <3>9, <3>10 DEF SlotsOwned
    <3>12. MarkOrder'
      BY <3>1, <3>6, <3>7 DEF MarkOrder, DescendTo
    <3> QED BY <3>1, <3>4, <3>5, <3>11, <3>12 DEF SlotInv
  <2>10. CASE StoreNeedsRoom \/ RestoreNeedsRoom
    <3>1. /\ pc' = "evict" /\ packed' = <<>>
          /\ UNCHANGED <<arch, heap, slot, spill, freeBlocks, newBlock>>
          /\ \/ pc = "store" /\ caller' = "store"
             \/ pc = "restore" /\ caller' = "restore"
      BY <2>10 DEF StoreNeedsRoom, RestoreNeedsRoom, BeginPacking
    <3>2. Keyed' /\ Solid' /\ SpilledSolid' /\ PackedOrder'
      BY <3>1 DEF Keyed, Solid, SpilledSolid, PackedOrder
    <3>3. Marks' = Marks /\ AwaitedSlots' = AwaitedSlots
      BY <3>1 DEF Marks, MarksOf, AwaitedSlots
    <3>4. SlotsOwned' /\ MarkOrder'
      BY <3>1, <3>3, SameMarks
    <3> QED BY <3>1, <3>2, <3>4 DEF SlotInv
  <2>11. CASE EvictMatch
    <3>1. PICK d \in DOMAIN heap : EvictMatch!(d)
      BY <2>11 DEF EvictMatch
    <3> DEFINE m == heap[d][1]
    <3>2. m \in Entry /\ d \in Nat /\ m.dest = d
      BY FirstOfClass DEF Keyed
    <3>3. m.len > 0
      BY <3>1 DEF IsFurthest, Evictable, Solid
    <3>4. /\ DOMAIN heap' = DOMAIN heap \ {d}
          /\ \A e \in DOMAIN heap' : heap'[e] = heap[e]
      BY <3>1, TakeHeap
    <3>5. Keyed' /\ Solid' /\ SlotsOwned' /\ MarkOrder'
      BY <3>1, <3>3, TakeMatch
    <3>6. \A e \in DOMAIN heap' : Evictable(e)' => Evictable(e) /\ e < d
      <4> SUFFICES ASSUME NEW e \in DOMAIN heap', Evictable(e)' PROVE Evictable(e) /\ e < d
        OBVIOUS
      <4>1. Evictable(e)
        BY <3>4 DEF Evictable
      <4>2. e <= d /\ e # d
        BY <3>1, <3>4, <4>1 DEF IsFurthest
      <4>3. e \in Nat
        BY <3>4, FirstOfClass
      <4> QED BY <3>2, <4>1, <4>2, <4>3
    <3>7. PackedOrder'
      <4>1. packed \in Seq(Entry) /\ packed' = Append(packed, m)
        BY <3>1 DEF PackOK
      <4> HIDE DEF m
      <4>2. Len(packed') = Len(packed) + 1 /\ packed'[Len(packed) + 1] = m
        BY <3>2, <4>1
      <4>3. \A i \in DOMAIN packed : packed'[i] = packed[i]
        BY <3>2, <4>1
      <4>4. DOMAIN packed' = DOMAIN packed \cup {Len(packed) + 1}
        BY <3>2, <4>1, <4>2
      <4>5. \A i \in DOMAIN packed : packed[i].dest > d
        BY <3>1 DEF IsFurthest, PackedOrder
      <4>6. ASSUME NEW i \in DOMAIN packed'
            PROVE  /\ packed'[i].len > 0 /\ packed'[i].dest \notin DOMAIN heap'
                   /\ \A e \in DOMAIN heap' : Evictable(e)' => e < packed'[i].dest
        BY <3>2, <3>3, <3>4, <3>6, <4>2, <4>3, <4>4 DEF PackedOrder
      <4>7. ASSUME NEW i \in DOMAIN packed', NEW j \in DOMAIN packed', i < j
            PROVE  packed'[i].dest > packed'[j].dest
        <5>1. i \in DOMAIN packed
          BY <4>1, <4>4, <4>7
        <5>2. CASE j \in DOMAIN packed
          BY <4>3, <4>7, <5>1, <5>2 DEF PackedOrder
        <5>3. CASE j = Len(packed) + 1
          BY <3>2, <4>2, <4>3, <4>5, <5>1, <5>3
        <5> QED BY <4>4, <5>2, <5>3
      <4> QED BY <3>1, <4>6, <4>7 DEF PackedOrder
    <3>8. SpilledSolid'
      BY <3>1 DEF SpilledSolid
    <3> QED BY <3>1, <3>5, <3>7, <3>8 DEF SlotInv
  <2>12. CASE WriteSlot
    <3>1. PICK s \in DOMAIN spill \cup {newBlock} : WriteSlot!2!(s)
      BY <2>12 DEF WriteSlot
    <3>2. pc = "evict" /\ packed # <<>> /\ pc' = caller /\ packed' = <<>>
          /\ UNCHANGED <<arch, caller, slot>>
      BY <2>12 DEF WriteSlot
    <3> DEFINE last == packed[Len(packed)]
               mark == Mark(s, last.dest)
    <3>3. Len(packed) \in DOMAIN packed /\ last \in Entry
      BY <3>2 DEF PackOK
    <3>4. last.dest \notin DOMAIN heap
      BY <3>3 DEF PackedOrder
    <3>5. /\ mark \in Entry /\ mark.len = 0 /\ mark.data = Unsaved
          /\ mark.dest = last.dest /\ mark.src = s
      BY <3>1, <3>3 DEF Mark, Entry, Unsaved, SpillOK
    <3>6. heap' = Insert(heap, mark)
      BY <3>1
    <3> HIDE DEF mark, last
    <3>7. DOMAIN heap' = DOMAIN heap \cup {last.dest}
      BY <3>5, <3>6, InsertHeap
    <3>8. heap'[last.dest][1] = mark /\ \A d \in DOMAIN heap : heap'[d][1] = heap[d][1]
      BY <3>4, <3>5, <3>6, InsertFirst
    <3>9. Marks' = Marks \cup {last.dest}
      BY <3>4, <3>5, <3>6, InsertMarkMarks DEF Marks
    <3>10. Keyed' /\ Solid'
      BY <3>5, <3>7, <3>8 DEF Keyed, Solid
    <3>11. PackedOrder'
      BY <3>2 DEF PackedOrder, ControlOK
    <3>12. /\ DOMAIN spill' = DOMAIN spill \cup {s}
           /\ spill'[s] = packed /\ \A t \in DOMAIN spill : t # s => spill'[t] = spill[t]
      BY <3>1
    <3>13. SpilledSolid'
      BY <3>12 DEF SpilledSolid, PackedOrder
    <3>14. AwaitedSlots' = AwaitedSlots /\ pc' # "failed"
      BY <3>2 DEF AwaitedSlots, ControlOK
    <3>15. MarkedSlots' = MarkedSlots \cup {s}
      BY <3>4, <3>5, <3>8, <3>9 DEF MarkedSlots, Marks, MarksOf
    <3>16. DOMAIN spill = 0 .. newBlock - 1 /\ newBlock \in Nat
      BY <3>2 DEF SlotsOwned, SpillOK
    <3>17. /\ s \notin MarkedSlots /\ s \notin AwaitedSlots
           /\ FreeSlots' = FreeSlots \ {s}
           /\ DOMAIN spill' = 0 .. newBlock' - 1
           /\ \A i, j \in DOMAIN freeBlocks' : i # j => freeBlocks'[i] # freeBlocks'[j]
      <4>0. /\ \A i, j \in DOMAIN freeBlocks : i # j => freeBlocks[i] # freeBlocks[j]
            /\ freeBlocks \in Seq(Nat)
        BY <3>2 DEF SlotsOwned, SpillOK
      <4>1. CASE freeBlocks # <<>>
        <5> DEFINE n == Len(freeBlocks)
        <5>1. n \in Nat \ {0} /\ DOMAIN freeBlocks = 1 .. n
          BY <4>0, <4>1
        <5>2. s = freeBlocks[n] /\ freeBlocks' = SubSeq(freeBlocks, 1, n - 1) /\ newBlock' = newBlock
          BY <3>1, <4>1 DEF AllocBlock
        <5>3. DOMAIN freeBlocks' = 1 .. n - 1 /\ \A i \in 1 .. n - 1 : freeBlocks'[i] = freeBlocks[i]
          BY <4>0, <5>1, <5>2
        <5> HIDE DEF n
        <5>4. s \in FreeSlots
          BY <5>1, <5>2 DEF FreeSlots
        <5>5. s \notin MarkedSlots /\ s \notin AwaitedSlots /\ s \in DOMAIN spill
          BY <3>2, <5>4 DEF SlotsOwned
        <5>6. FreeSlots' = FreeSlots \ {s}
          <6>1. FreeSlots' = {freeBlocks[i] : i \in 1 .. n - 1}
            BY <5>3 DEF FreeSlots
          <6>2. FreeSlots = {freeBlocks[i] : i \in 1 .. n}
            BY <5>1 DEF FreeSlots
          <6>3. \A i \in 1 .. n - 1 : freeBlocks[i] # s
            BY <4>0, <5>1, <5>2
          <6>4. 1 .. n = (1 .. n - 1) \cup {n}
            BY <5>1
          <6> QED BY <5>2, <6>1, <6>2, <6>3, <6>4
        <5>7. \A i, j \in DOMAIN freeBlocks' : i # j => freeBlocks'[i] # freeBlocks'[j]
          BY <4>0, <5>1, <5>3
        <5> QED BY <3>12, <3>16, <5>2, <5>5, <5>6, <5>7
      <4>2. CASE freeBlocks = <<>>
        <5>1. s = newBlock /\ newBlock' = newBlock + 1 /\ freeBlocks' = freeBlocks
          BY <3>1, <4>2 DEF AllocBlock
        <5>2. s \notin DOMAIN spill
          BY <3>16, <5>1
        <5>3. s \notin MarkedSlots /\ s \notin AwaitedSlots /\ s \notin FreeSlots
          BY <3>2, <5>2 DEF SlotsOwned
        <5>4. FreeSlots' = FreeSlots \ {s}
          BY <5>1, <5>3 DEF FreeSlots
        <5>5. DOMAIN spill' = 0 .. newBlock' - 1
          BY <3>12, <3>16, <5>1
        <5> QED BY <4>0, <5>1, <5>3, <5>4, <5>5
      <4> QED BY <4>1, <4>2
    <3>18. SlotsOwned'
      <4>1. FreeSlots' \cup MarkedSlots' \cup AwaitedSlots' = DOMAIN spill'
        BY <3>2, <3>12, <3>14, <3>15, <3>17 DEF SlotsOwned
      <4>2. FreeSlots' \cap MarkedSlots' = {}
        BY <3>2, <3>15, <3>17 DEF SlotsOwned
      <4>3. AwaitedSlots' \cap (FreeSlots' \cup MarkedSlots') = {}
        BY <3>2, <3>14, <3>15, <3>17 DEF SlotsOwned
      <4>4. ASSUME NEW d \in Marks', NEW e \in Marks', d # e
            PROVE  heap'[d][1].src # heap'[e][1].src
        <5>1. \A f \in Marks : heap'[f][1].src = heap[f][1].src /\ heap[f][1].src # s
          BY <3>8, <3>17 DEF MarkedSlots, Marks, MarksOf
        <5>2. heap'[last.dest][1].src = s
          BY <3>5, <3>8
        <5> QED BY <3>2, <3>9, <4>4, <5>1, <5>2 DEF SlotsOwned
      <4> QED BY <3>17, <4>1, <4>2, <4>3, <4>4 DEF SlotsOwned
    <3>19. MarkOrder'
      <4> SUFFICES ASSUME NEW d \in Marks', heap'[d][1].src \in DOMAIN spill'
                   PROVE  DescendTo(spill'[heap'[d][1].src], d)
        BY DEF MarkOrder
      <4>1. CASE d = last.dest
        <5>1. spill'[heap'[d][1].src] = packed
          BY <3>5, <3>8, <3>12, <4>1
        <5> QED BY <3>2, <4>1, <5>1 DEF DescendTo, PackedOrder, last
      <4>2. CASE d \in Marks
        <5>1. heap'[d][1] = heap[d][1] /\ heap[d][1].src # s
          BY <3>8, <3>17, <4>2 DEF MarkedSlots, Marks, MarksOf
        <5>2. heap[d][1].src \in DOMAIN spill
          BY <3>12, <5>1
        <5> QED BY <3>12, <4>2, <5>1, <5>2 DEF MarkOrder
      <4> QED BY <3>9, <4>1, <4>2
    <3> QED BY <3>2, <3>10, <3>11, <3>13, <3>18, <3>19 DEF SlotInv
  <2>13. CASE ReadSlot
    <3>1. /\ pc = "restore" /\ pc' = "load" /\ slot \in DOMAIN spill
          /\ freeBlocks' = Append(freeBlocks, slot)
          /\ UNCHANGED <<arch, heap, packed, slot, spill, newBlock>>
      BY <2>13 DEF ReadSlot
    <3>2. Keyed' /\ Solid' /\ SpilledSolid' /\ PackedOrder'
      BY <3>1 DEF Keyed, Solid, SpilledSolid, PackedOrder
    <3>3. Marks' = Marks /\ MarkedSlots' = MarkedSlots
      BY <3>1 DEF Marks, MarksOf, MarkedSlots
    <3>4. AwaitedSlots = {slot} /\ AwaitedSlots' = {}
      BY <3>1 DEF AwaitedSlots
    <3>5. /\ FreeSlots' = FreeSlots \cup {slot}
          /\ \A i, j \in DOMAIN freeBlocks' : i # j => freeBlocks'[i] # freeBlocks'[j]
      <4>1. freeBlocks \in Seq(Nat) /\ slot \in Nat /\ slot \notin FreeSlots
        BY <3>1, <3>4 DEF SpillOK, SlotsOwned
      <4>2. /\ DOMAIN freeBlocks' = DOMAIN freeBlocks \cup {Len(freeBlocks) + 1}
            /\ freeBlocks'[Len(freeBlocks) + 1] = slot
            /\ \A i \in DOMAIN freeBlocks : freeBlocks'[i] = freeBlocks[i]
        BY <3>1, <4>1
      <4>3. \A i, j \in DOMAIN freeBlocks : i # j => freeBlocks[i] # freeBlocks[j]
        BY <3>1 DEF SlotsOwned
      <4> QED BY <4>1, <4>2, <4>3 DEF FreeSlots
    <3>6. SlotsOwned'
      BY <3>1, <3>3, <3>4, <3>5 DEF SlotsOwned
    <3>7. MarkOrder'
      BY <3>1, <3>3 DEF MarkOrder, DescendTo
    <3> QED BY <3>1, <3>2, <3>6, <3>7 DEF SlotInv
  <2>14. CASE UNCHANGED vars
    <3>1. UNCHANGED <<arch, pc, heap, caller, slot, packed, spill, freeBlocks, newBlock>>
      BY <2>14 DEF vars
    <3>2. Keyed' /\ Solid' /\ SpilledSolid' /\ PackedOrder'
      BY <3>1 DEF Keyed, Solid, SpilledSolid, PackedOrder, Evictable
    <3>3. Marks' = Marks /\ AwaitedSlots' = AwaitedSlots /\ FreeSlots' = FreeSlots
            /\ MarkedSlots' = MarkedSlots
      BY <3>1 DEF Marks, MarksOf, AwaitedSlots, FreeSlots, MarkedSlots
    <3>4. SlotsOwned' /\ MarkOrder'
      BY <3>1, <3>3 DEF SlotsOwned, MarkOrder, DescendTo
    <3> QED BY <3>1, <3>2, <3>4 DEF SlotInv
  <2> QED
    BY <2>1, <2>2, <2>4, <2>5, <2>6, <2>7, <2>8, <2>9, <2>10, <2>11, <2>12, <2>13, <2>14
       DEF Next, Open, RefuseOpen, ReadBlock, Truncated, Finish, RefuseFooter,
       RejectRecord, EndValidate, RejectMatch, FillTail, RejectLiterals, SkipRecord,
       EndStore, NothingToEvict, SlotMissing, EndRestore, WriteBlock, RejectDigest,
       Stopped, Fail, PackedOrder, Due
<1> QED BY <1>1, <1>2, TypeCorrect, PTL DEF Spec

(* No two owners ever share a slot of the spill file, none is lost, and a  *)
(* mark comes up no later than any match in its slot, for every budget and *)
(* slot size, as long as no record of an archive is empty.                 *)
THEOREM SlotsSafe ==
  ASSUME NoEmptyRecords
  PROVE  Spec => [](SlotsOwned /\ MarkOrder)
<1>1. SlotInv => SlotsOwned /\ MarkOrder
  BY DEF SlotInv
<1> QED BY <1>1, SlotsKept, PTL

(* A mark of a slot comes up no later than any match packed in it: the     *)
(* decoder restores a slot in time, for every budget and slot size.        *)
THEOREM MarksInOrder ==
  ASSUME NoEmptyRecords
  PROVE  Spec => []MarkOrder
<1>1. SlotsOwned /\ MarkOrder => MarkOrder
  OBVIOUS
<1> QED BY <1>1, SlotsSafe, PTL

-----------------------------------------------------------------------------
(* With digests, what is written is the beginning of the file.             *)

(* Once the literals are all used the block has just the size declared,    *)
(* and nothing changes it before it is written.                            *)
Built == pc \in {"store", "verify"} \/ (pc = "evict" /\ caller = "store")
Whole == Built => outPos = CurrentBlock.size

LEMMA WholeFirst == Init => Whole
  BY DEF Init, Whole, Built

LEMMA WholeOn == TypeOK /\ Whole /\ [Next]_vars => Whole'
<1> SUFFICES ASSUME TypeOK, Whole, [Next]_vars PROVE Whole'
  OBVIOUS
<1>1. CASE FillTail
  <2> DEFINE rest == Len(Literals) - inPos
  <2>1. /\ block < Len(arch.blocks) /\ inPos <= Len(Literals) /\ inPos \in Nat
        /\ outBuf \in Seq(Bytes) /\ ReadOK
    BY <1>1 DEF TypeOK, ReadOK, BuildOK, InBlock, FillTail
  <2>2. Literals \in Seq(Bytes) /\ CurrentBlock \in Block
    BY <2>1, CurrentBlockType
  <2>3. rest \in Nat /\ rest = CurrentBlock.size - outPos /\ CurrentBlock.size \in Nat
    BY <1>1, <2>1, <2>2 DEF FillTail, LiteralsFill, Block
  <2>4. outBuf' = outBuf \o Part(Literals, inPos, rest)
    BY <1>1 DEF FillTail
  <2> HIDE DEF rest
  <2>5. /\ Part(Literals, inPos, rest) \in Seq(Bytes)
        /\ Len(Part(Literals, inPos, rest)) = rest
    BY <2>1, <2>2, <2>3, PartBytes
  <2>6. Len(outBuf') = Len(outBuf) + rest
    BY <2>1, <2>4, <2>5, Joined
  <2>7. CurrentBlock' = CurrentBlock
    BY <1>1 DEF FillTail, readVars, CurrentBlock
  <2> QED BY <2>1, <2>3, <2>6, <2>7 DEF Whole, outPos
<1>2. CASE UNCHANGED <<arch, block, outBuf>> /\ (Built' => Built)
  BY <1>2 DEF Whole, CurrentBlock, outPos
<1>3. CASE ~ Built'
  BY <1>3 DEF Whole
<1>4. CASE WriteSlot
  <2>1. pc = "evict" /\ pc' = caller /\ UNCHANGED <<arch, block, outBuf, caller>>
    BY <1>4 DEF WriteSlot, readVars, buildVars
  <2>2. Built' => Built
    BY <2>1 DEF Built, TypeOK, ControlOK
  <2> QED BY <1>2, <2>1, <2>2
<1> QED
  BY <1>1, <1>2, <1>3, <1>4
     DEF Next, vars, readVars, buildVars, packVars, Built, Open, RefuseOpen, ReadBlock, Truncated,
         Finish, RefuseFooter, ValidateRecord, RejectRecord, EndValidate, FillMatch, Due,
         RejectMatch, TakeMark, RejectLiterals, SkipRecord, StoreUnsaved, StoreMatch,
         StoreNeedsRoom, EndStore, EvictMatch, NothingToEvict, RestoreNeedsRoom, ReadSlot,
         SlotMissing, LoadRecord, EndRestore, WriteBlock, RejectDigest, Stopped, Fail,
         BeginPacking

(* The footer was found and read before any block.                         *)
Opened == pc \notin {"open", "failed"} => FooterAgrees

LEMMA OpenedOn == Opened /\ [Next]_vars => Opened'
<1> SUFFICES ASSUME Opened, [Next]_vars PROVE Opened'
  OBVIOUS
<1>1. arch' = arch
  BY DEF Next, vars, readVars, Open, RefuseOpen, ReadBlock, Truncated, Finish, RefuseFooter,
         ValidateRecord, RejectRecord, EndValidate, FillMatch, RejectMatch, TakeMark, FillTail,
         RejectLiterals, SkipRecord, StoreUnsaved, StoreMatch, StoreNeedsRoom, EndStore,
         EvictMatch, WriteSlot, NothingToEvict, RestoreNeedsRoom, ReadSlot, SlotMissing,
         LoadRecord, EndRestore, WriteBlock, RejectDigest, Stopped, Fail, BeginPacking
<1>2. pc' \in {"open", "failed"} \/ Open \/ pc \notin {"open", "failed"}
  BY DEF Next, vars, Open, RefuseOpen, ReadBlock, Truncated, Finish, RefuseFooter,
         ValidateRecord, RejectRecord, EndValidate, FillMatch, Due, RejectMatch, TakeMark,
         FillTail, RejectLiterals, SkipRecord, StoreUnsaved, StoreMatch, StoreNeedsRoom,
         EndStore, EvictMatch, WriteSlot, NothingToEvict, RestoreNeedsRoom, ReadSlot,
         SlotMissing, LoadRecord, EndRestore, WriteBlock, RejectDigest, Stopped, Fail,
         BeginPacking
<1>3. FooterAgrees' = FooterAgrees
  BY <1>1 DEF FooterAgrees
<1> QED BY <1>2, <1>3 DEF Opened, Open

(* The block written next starts where its piece of the file starts, and   *)
(* all before it is written.                                               *)
Begun(at) ==
  /\ DigestsOf(arch, at) /\ arch.verified
  /\ blockStart = at[block + 1]
  /\ sink = SubSeq(arch.file, 1, blockStart)

Agreeing == \E at : Begun(at)

VerifiedArchives == \A a \in Archives : a.verified /\ \E at : DigestsOf(a, at)

AgreeInv == TypeOK /\ Whole /\ Opened /\ Agreeing

LEMMA AgreesFirst == ASSUME VerifiedArchives PROVE Init => Agreeing
<1> SUFFICES ASSUME Init PROVE Agreeing
  OBVIOUS
<1>1. PICK at : DigestsOf(arch, at)
  BY DEF Init, VerifiedArchives
<1>2. at[1] = 0 /\ arch.verified
  BY <1>1 DEF Init, DigestsOf, PiecesAt, VerifiedArchives
<1>3. arch.file \in Seq(Bytes)
  BY ArchiveAssumption DEF Init, Archive
<1>4. SubSeq(arch.file, 1, 0) = <<>>
  BY <1>3
<1> QED BY <1>1, <1>2, <1>4 DEF Init, Agreeing, Begun

(* How much is written, and that it ends within the file.                  *)
LEMMA WrittenLength ==
  ASSUME TypeOK, NEW at, Begun(at)
  PROVE  /\ Len(sink) = blockStart /\ blockStart \in 0 .. Len(arch.file)
         /\ arch.file \in Seq(Bytes)
<1>1. /\ block \in 0 .. Len(arch.blocks) /\ Len(arch.blocks) \in Nat
      /\ arch.file \in Seq(Bytes)
  BY DEF TypeOK, ReadOK, Archive
<1>2. at \in [1 .. Len(arch.blocks) + 1 -> 0 .. Len(arch.file)]
  BY DEF Begun, DigestsOf, PiecesAt
<1>3. blockStart \in 0 .. Len(arch.file)
  <2>1. block + 1 \in 1 .. Len(arch.blocks) + 1
    BY <1>1
  <2>2. blockStart = at[block + 1]
    BY DEF Begun
  <2> QED BY <1>2, <2>1, <2>2
<1>4. Len(SubSeq(arch.file, 1, blockStart)) = blockStart
  BY <1>1, <1>3
<1> QED BY <1>1, <1>3, <1>4 DEF Begun

(* The one step that writes appends the next piece of the file.            *)
LEMMA WritesPiece ==
  ASSUME TypeOK, Whole, NEW at, Begun(at), WriteBlock
  PROVE  /\ Begun(at)'
         /\ blockStart' \in blockStart .. Len(arch.file)
         /\ sink' = SubSeq(arch.file, 1, blockStart')
<1> DEFINE b == block + 1
           n == Len(arch.blocks)
           d == CurrentBlock.digest
           piece == SubSeq(arch.file, at[b] + 1, at[b + 1])
<1>1. /\ arch \in Archive /\ block \in Nat /\ block < n /\ n \in Nat /\ blockStart \in Nat
      /\ outBuf \in Seq(Bytes) /\ sink \in Seq(Bytes) /\ Len(sink) = blockStart
      /\ Len(outBuf) = CurrentBlock.size
  BY WrittenLength DEF TypeOK, ReadOK, BuildOK, InBlock, Whole, Built, WriteBlock, outPos, Archive
<1>2. b \in 1 .. n /\ DOMAIN arch.blocks = 1 .. n /\ arch.file \in Seq(Bytes)
  BY <1>1 DEF Archive
<1>3. /\ at[b] \in 0 .. Len(arch.file) /\ at[b + 1] \in 0 .. Len(arch.file)
      /\ at[b] <= at[b + 1]
      /\ d = piece \/ Len(d) # CurrentBlock.size
  <2>1. PiecesAt(at, arch)
    BY DEF Begun, DigestsOf
  <2>2. at \in [1 .. n + 1 -> 0 .. Len(arch.file)] /\ b \in 1 .. n + 1 /\ b + 1 \in 1 .. n + 1
    BY <1>1, <1>2, <2>1 DEF PiecesAt
  <2> QED BY <1>2, <2>1, <2>2 DEF PiecesAt, CurrentBlock
<1>4. outBuf = d
  BY DEF WriteBlock, DigestAgrees, Begun
<1>5. d = piece
  BY <1>1, <1>3, <1>4
<1>6. blockStart = at[b] /\ sink = SubSeq(arch.file, 1, at[b])
  BY DEF Begun
<1> HIDE DEF d
<1>7. at[b] \in Nat /\ at[b + 1] \in Nat /\ at[b + 1] <= Len(arch.file)
  BY <1>2, <1>3
<1>8. /\ sink \o piece = SubSeq(arch.file, 1, at[b + 1])
      /\ Len(piece) = at[b + 1] - at[b]
  BY <1>2, <1>3, <1>6, <1>7, BeginningGrows
<1>9. sink' = sink \o piece
  BY <1>1, <1>4, <1>5, WriteAtEnd DEF WriteBlock
<1>10. blockStart' = at[b + 1] /\ block' = b /\ arch' = arch
  <2>1. blockStart' = at[b] + Len(piece) /\ block' = b /\ arch' = arch
    BY <1>1, <1>4, <1>5, <1>6 DEF WriteBlock, blockEnd
  <2> QED BY <2>1, <1>7, <1>8
<1>11. DigestsOf(arch, at)' /\ arch.verified'
  BY <1>10 DEF Begun
<1>12. /\ blockStart' \in blockStart .. Len(arch.file)
       /\ sink' = SubSeq(arch.file, 1, blockStart')
       /\ blockStart' = at[block' + 1]
  <2> HIDE DEF b, piece, n
  <2>1. blockStart' \in blockStart .. Len(arch.file)
    BY <1>3, <1>6, <1>7, <1>10
  <2>2. sink' = SubSeq(arch.file, 1, blockStart')
    BY <1>6, <1>8, <1>9, <1>10
  <2>3. blockStart' = at[block' + 1]
    BY <1>10
  <2> QED BY <2>1, <2>2, <2>3
<1> QED BY <1>10, <1>11, <1>12 DEF Begun

(* Every other step leaves what is written alone.                          *)
LEMMA OthersWriteNothing ==
  ASSUME [Next]_vars, ~ WriteBlock
  PROVE  UNCHANGED <<arch, block, blockStart, sink>>
  BY DEF Next, vars, readVars, sinkVars, Open, RefuseOpen, ReadBlock, Truncated, Finish,
         RefuseFooter, ValidateRecord, RejectRecord, EndValidate, FillMatch, RejectMatch,
         TakeMark, FillTail, RejectLiterals, SkipRecord, StoreUnsaved, StoreMatch,
         StoreNeedsRoom, EndStore, EvictMatch, WriteSlot, NothingToEvict, RestoreNeedsRoom,
         ReadSlot, SlotMissing, LoadRecord, EndRestore, RejectDigest, Stopped, Fail, BeginPacking

LEMMA AgreesOn == TypeOK /\ Whole /\ Agreeing /\ [Next]_vars => Agreeing'
<1> SUFFICES ASSUME TypeOK, Whole, Agreeing, [Next]_vars PROVE Agreeing'
  OBVIOUS
<1>1. PICK at : Begun(at)
  BY DEF Agreeing
<1>2. CASE WriteBlock
  BY <1>1, <1>2, WritesPiece DEF Agreeing
<1>3. CASE ~ WriteBlock
  BY <1>1, <1>3, OthersWriteNothing DEF Agreeing, Begun
<1> QED BY <1>2, <1>3

LEMMA AlwaysAgrees == ASSUME VerifiedArchives PROVE Spec => []AgreeInv
<1>1. Init => Opened
  BY DEF Init, Opened
<1> QED BY <1>1, WholeFirst, WholeOn, OpenedOn, AgreesFirst, AgreesOn, TypeCorrect, PTL
       DEF Spec, AgreeInv

(* What an archive with digests is decoded to is always the beginning of   *)
(* its file, whatever was damaged in its blocks, their order excepted, and *)
(* whatever the budget and the slots of the spill file.                    *)
THEOREM PrefixWritten ==
  ASSUME VerifiedArchives PROVE Spec => []DecodedPrefix
<1>1. AgreeInv => DecodedPrefix
  <2> SUFFICES ASSUME AgreeInv PROVE DecodedPrefix
    OBVIOUS
  <2>1. PICK at : Begun(at)
    BY DEF AgreeInv, Agreeing
  <2>2. Len(sink) = blockStart
    BY <2>1, WrittenLength DEF AgreeInv
  <2> QED BY <2>1, <2>2 DEF DecodedPrefix, Begun
<1> QED BY <1>1, AlwaysAgrees, PTL

(* Success is only reported when all that the archive counts is written.   *)
LEMMA FinishesWhole ==
  ASSUME AgreeInv, Finish, arch.kind # "v3" \/ arch.intact
  PROVE  sink = arch.file
<1>1. PICK at : Begun(at)
  BY DEF AgreeInv, Agreeing
<1>2. /\ arch \in Archive /\ block \in 0 .. Len(arch.blocks) /\ Len(arch.blocks) \in Nat
      /\ FooterAgrees
  BY DEF AgreeInv, TypeOK, ReadOK, Archive, Opened, Finish
<1>3. at[block + 1] = Len(arch.file)
  <2>1. CASE arch.kind = "v3"
    <3>1. EndOfV3 /\ arch.intact
      BY <2>1 DEF Finish, AllDecoded
    <3>2. block = Len(arch.blocks)
      <4>1. CASE ~ AtEnd
        <5>1. block + 1 \in DOMAIN arch.blocks
          BY <1>2, <4>1 DEF AtEnd, Archive
        <5>2. Empty(arch.blocks[block + 1])
          BY <3>1, <4>1 DEF EndOfV3, CurrentBlock
        <5> QED BY <1>1, <3>1, <5>1, <5>2 DEF Begun, DigestsOf
      <4> QED BY <4>1 DEF AtEnd
    <3> QED BY <1>1, <3>1, <3>2 DEF Begun, DigestsOf, AllPieces
  <2>2. CASE arch.kind = "v4"
    <3>1. block = arch.footer.count /\ arch.footer.present
      BY <1>2, <2>2 DEF Finish, AllDecoded, EndOfV3, FooterAgrees
    <3>2. arch.footer.count <= Len(arch.blocks)
      BY <1>2, <3>1
    <3> QED BY <1>1, <2>2, <3>1, <3>2 DEF Begun, DigestsOf
  <2>3. CASE arch.kind = "v5"
    <3>1. /\ arch.footer.present /\ arch.footer.count = arch.count
          /\ block >= arch.count /\ block = Len(arch.blocks)
      BY <1>2, <2>3 DEF Finish, AllDecoded, EndOfV3, FooterAgrees, FooterTotals, AtEnd
    <3>2. arch.count <= Len(arch.blocks)
      BY <3>1
    <3> QED BY <1>1, <2>3, <3>1, <3>2 DEF Begun, DigestsOf, AllPieces
  <2> QED BY <1>2, <2>1, <2>2, <2>3 DEF Archive
<1>4. arch.file \in Seq(Bytes)
  BY <1>2 DEF Archive
<1>5. SubSeq(arch.file, 1, Len(arch.file)) = arch.file
  BY <1>4
<1> QED BY <1>1, <1>3, <1>5 DEF Begun

(* A step that neither writes nor finishes is one of giving up, or none of *)
(* BlockDecoder's.                                                         *)
LEMMA OthersPromised ==
  ASSUME TypeOK, [Next]_vars, ~ WriteBlock, ~ Finish
  PROVE  [Promise!Next]_(Promise!vars)
<1>1. CASE pc \notin {"done", "failed"} /\ pc' = "failed" /\ UNCHANGED <<arch, sink>>
  <2>1. Promise!GiveUp
    BY <1>1 DEF Promise!GiveUp
  <2> QED BY <2>1 DEF Promise!Next
<1>2. CASE /\ UNCHANGED <<arch, sink>>
           /\ pc' = pc \/ (pc \notin {"done", "failed"} /\ pc' \notin {"done", "failed"})
  BY <1>2 DEF Promise!vars
<1>3. caller \in {"store", "restore"}
  BY DEF TypeOK, ControlOK
<1> QED
  BY <1>1, <1>2, <1>3
     DEF Next, vars, readVars, buildVars, sinkVars, packVars, Due, Open, RefuseOpen, ReadBlock,
         Truncated, RefuseFooter, ValidateRecord, RejectRecord, EndValidate, FillMatch,
         RejectMatch, TakeMark, FillTail, RejectLiterals, SkipRecord, StoreUnsaved, StoreMatch,
         StoreNeedsRoom, EndStore, EvictMatch, WriteSlot, NothingToEvict, RestoreNeedsRoom,
         ReadSlot, SlotMissing, LoadRecord, EndRestore, RejectDigest, Stopped, Fail,
         BeginPacking

(* The decoder implements BlockDecoder's steps when every archive has its  *)
(* digests: the output grows by whole pieces of the original file, and no  *)
(* archive that says how long it is is reported done before all of the     *)
(* file is written, whatever was damaged in its blocks or cut off.         *)
THEOREM StepsPromised ==
  ASSUME VerifiedArchives
  PROVE  Spec => Promise!InitDecode /\ [][Promise!Next]_(Promise!vars)
<1>1. Init => Promise!InitDecode
  BY DEF Init, Promise!InitDecode
<1>2. AgreeInv /\ [Next]_vars => [Promise!Next]_(Promise!vars)
  <2> SUFFICES ASSUME AgreeInv, [Next]_vars PROVE [Promise!Next]_(Promise!vars)
    OBVIOUS
  <2>1. CASE WriteBlock
    <3>1. PICK at : Begun(at)
      BY DEF AgreeInv, Agreeing
    <3>2. /\ blockStart' \in blockStart .. Len(arch.file)
          /\ sink' = SubSeq(arch.file, 1, blockStart')
          /\ Len(sink) = blockStart
      BY <2>1, <3>1, WritesPiece, WrittenLength DEF AgreeInv
    <3>3. pc = "verify" /\ pc' = "block" /\ arch' = arch
      BY <2>1 DEF WriteBlock
    <3>4. Promise!Deliver
      BY <3>2, <3>3 DEF Promise!Deliver
    <3> QED BY <3>4 DEF Promise!Next
  <2>2. CASE Finish
    <3>1. pc = "block" /\ pc' = "done" /\ UNCHANGED <<arch, sink>>
      BY <2>2 DEF Finish, readVars, sinkVars
    <3>2. arch.kind # "v3" \/ arch.intact => sink = arch.file
      BY <2>2, FinishesWhole
    <3>3. Promise!Succeed
      BY <3>1, <3>2 DEF Promise!Succeed
    <3> QED BY <3>3 DEF Promise!Next
  <2>3. CASE ~ WriteBlock /\ ~ Finish
    BY <2>3, OthersPromised DEF AgreeInv
  <2> QED BY <2>1, <2>2, <2>3
<1> QED BY <1>1, <1>2, AlwaysAgrees, PTL DEF Spec

-----------------------------------------------------------------------------
(* The memory manager: whole chunks, and the budget counted in them.       *)

LEMMA TimesMono ==
  ASSUME NEW a \in Int, NEW b \in Int, NEW c \in Nat, a <= b
  PROVE  a * c <= b * c
<1> DEFINE d == b - a
<1>1. d \in Nat /\ b = a + d
  OBVIOUS
<1>2. d * c \in Nat
  BY <1>1
<1> HIDE DEF d
<1>3. (a + d) * c = a * c + d * c
  BY <1>1, Z3
<1>4. a * c \in Int
  OBVIOUS
<1> QED BY <1>1, <1>2, <1>3, <1>4

LEMMA DivRange ==
  ASSUME NEW n \in Nat, NEW d \in Nat \ {0}
  PROVE  /\ n \div d \in Nat
         /\ (n \div d) * d <= n /\ n < (n \div d) * d + d
  BY Z3

(* A match takes the fewest chunks that hold it.                           *)
LEMMA ChunksHold ==
  ASSUME NEW n \in Nat
  PROVE  /\ Chunks(n) \in Nat
         /\ Chunks(n) * ChunkSpace <= n + ChunkSpace - 1
         /\ n <= Chunks(n) * ChunkSpace
<1>1. ChunkSpace \in Nat \ {0}
  BY BudgetAssumption
<1>2. n + ChunkSpace - 1 \in Nat
  BY <1>1
<1> DEFINE t == n + ChunkSpace - 1
           q == t \div ChunkSpace
<1>3. q \in Nat /\ q * ChunkSpace <= t /\ t < q * ChunkSpace + ChunkSpace
  BY <1>1, <1>2, DivRange
<1>4. q * ChunkSpace \in Nat
  BY <1>1, <1>3
<1>5. Chunks(n) = q
  BY DEF Chunks
<1> HIDE DEF q
<1> QED BY <1>1, <1>3, <1>4, <1>5

LEMMA ChunksFit ==
  ASSUME NEW n \in Nat, NEW k \in Int, n <= k * ChunkSpace
  PROVE  Chunks(n) <= k
<1>1. ChunkSpace \in Nat \ {0} /\ Chunks(n) \in Nat
  BY BudgetAssumption, ChunksHold
<1>2. CASE Chunks(n) >= k + 1
  <2>1. (k + 1) * ChunkSpace <= Chunks(n) * ChunkSpace
    BY <1>1, <1>2, TimesMono
  <2>2. (k + 1) * ChunkSpace = k * ChunkSpace + ChunkSpace
    BY <1>1, Z3
  <2>3. Chunks(n) * ChunkSpace <= n + ChunkSpace - 1
    BY ChunksHold
  <2>4. k * ChunkSpace \in Int /\ Chunks(n) * ChunkSpace \in Int
    BY <1>1
  <2> QED BY <1>1, <2>1, <2>2, <2>3, <2>4
<1> QED BY <1>1, <1>2

(* The budget is a whole number of chunks' bytes.                          *)
LEMMA BudgetInChunks ==
  ASSUME MemLimit >= ABlockSize
  PROVE  \E k \in Nat : UsefulMemory = k * ChunkSpace
<1>0. /\ MemLimit \in Nat /\ ABlockSize \in Nat \ {0} /\ ChunkSize \in Nat \ {0}
      /\ ChunkSpace \in Nat \ {0} /\ QWordSize \in Nat \ {0}
  BY BudgetAssumption
<1> DEFINE steps == MemLimit \div ABlockSize
           bytes == steps * ABlockSize
           chunks == bytes \div ChunkSize
           k == chunks - 1
<1>1. steps \in Nat /\ bytes <= MemLimit /\ MemLimit < bytes + ABlockSize
  BY <1>0, DivRange
<1>2. bytes \in Nat
  BY <1>0, <1>1
<1>3. bytes >= ABlockSize
  <2>1. CASE steps = 0
    <3>1. bytes = 0
      BY <1>0, <2>1
    <3> HIDE DEF bytes
    <3> QED BY <1>0, <1>1, <3>1
  <2>2. CASE steps >= 1
    <3>1. 1 * ABlockSize <= steps * ABlockSize
      <4> HIDE DEF steps
      <4> QED BY <1>0, <1>1, <2>2, TimesMono
    <3>2. 1 * ABlockSize = ABlockSize
      BY <1>0
    <3> QED BY <3>1, <3>2
  <2> HIDE DEF steps
  <2> QED BY <1>1, <2>1, <2>2
<1> HIDE DEF bytes
<1>4. chunks \in Nat /\ chunks * ChunkSize <= bytes /\ bytes < chunks * ChunkSize + ChunkSize
  BY <1>0, <1>2, DivRange
<1> HIDE DEF chunks
<1>5. chunks >= 1
  <2>1. CASE chunks = 0
    <3>1. chunks * ChunkSize = 0
      BY <1>0, <2>1
    <3> QED BY <1>0, <1>2, <1>3, <1>4, <3>1, ChunkAssumption
  <2> QED BY <1>4, <2>1
<1>6. k \in Nat
  BY <1>4, <1>5
<1>7. k * ChunkSpace \in Nat /\ k * ChunkSpace < QWordSize
  <2>1. k * ChunkSpace <= k * ChunkSize
    <3>1. ChunkSpace * k <= ChunkSize * k
      BY <1>0, <1>6, ChunkAssumption, TimesMono
    <3>2. ChunkSpace * k = k * ChunkSpace /\ ChunkSize * k = k * ChunkSize
      BY <1>0, <1>6, Z3
    <3> QED BY <3>1, <3>2
  <2>2. k * ChunkSize <= chunks * ChunkSize
    BY <1>0, <1>4, <1>6, TimesMono
  <2>3. k * ChunkSpace \in Nat /\ k * ChunkSize \in Nat /\ chunks * ChunkSize \in Nat
    BY <1>0, <1>4, <1>6
  <2> HIDE DEF k
  <2> QED BY <1>0, <1>1, <1>2, <1>4, <2>1, <2>2, <2>3, ChunkAssumption
<1>8. UsefulMemory = (k * ChunkSpace) % QWordSize
  BY DEF UsefulMemory, bytes, chunks
<1> HIDE DEF k
<1>9. \A a, q \in Nat : a < q => a % q = a
  BY Z3
<1>10. UsefulMemory = k * ChunkSpace
  BY <1>0, <1>7, <1>8, <1>9
<1> QED BY <1>6, <1>10

(* What is left of the budget when some is.                                *)
LEMMA LeftOver ==
  ASSUME TypeOK, NEW n \in Nat \ {0}, Available >= n
  PROVE  usedChunks * ChunkSpace + n <= UsefulMemory
<1> DEFINE used == usedChunks * ChunkSpace
<1>1. used \in Int /\ UsefulMemory \in Int
  <2>1. usedChunks \in Int /\ ChunkSpace \in Nat
    BY BudgetAssumption DEF TypeOK, HeapOK
  <2>2. used \in Int
    BY <2>1
  <2>3. (MemLimit \div ABlockSize) * ABlockSize \in Nat
    BY BudgetAssumption, DivRange
  <2>4. ((MemLimit \div ABlockSize) * ABlockSize) \div ChunkSize \in Nat
    BY <2>3, BudgetAssumption, DivRange
  <2>5. ((((MemLimit \div ABlockSize) * ABlockSize) \div ChunkSize) - 1) * ChunkSpace \in Int
    BY <2>1, <2>4
  <2>6. \A t \in Int, q \in Nat \ {0} : t % q \in Int
    BY Z3
  <2>7. UsefulMemory \in Int
    BY <2>5, <2>6, BudgetAssumption DEF UsefulMemory
  <2> QED BY <2>2, <2>7
<1>2. Available = IF UsefulMemory > used THEN UsefulMemory - used ELSE 0
  BY DEF Available
<1> HIDE DEF used
<1>3. used + n <= UsefulMemory
  BY <1>1, <1>2
<1> QED BY <1>3 DEF used

LEMMA OthersTakeNoMemory ==
  ASSUME [Next]_vars, ~ StoreMatch, ~ LoadRecord, ~ EvictMatch, ~ FillMatch
  PROVE  UNCHANGED usedChunks
  BY DEF Next, vars, Open, RefuseOpen, ReadBlock, Truncated, Finish,
         RefuseFooter, ValidateRecord, RejectRecord, EndValidate, RejectMatch,
         TakeMark, FillTail, RejectLiterals, SkipRecord, StoreUnsaved,
         StoreNeedsRoom, EndStore, WriteSlot, NothingToEvict, RestoreNeedsRoom,
         ReadSlot, SlotMissing, EndRestore, WriteBlock, RejectDigest, Stopped, Fail, BeginPacking

(* A match is only saved when its chunks are within the budget.            *)
LEMMA StoreFits ==
  ASSUME TypeOK, StoreMatch, MemLimit >= ABlockSize
  PROVE  /\ usedChunks' \in Int /\ usedChunks' >= usedChunks
         /\ usedChunks' > usedChunks => usedChunks' * ChunkSpace <= UsefulMemory
<1> DEFINE len == ThisRecord.len
           data == Part(outBuf, src - blockStart, len)
<1>1. ReadOK /\ BuildOK /\ block < Len(arch.blocks) /\ MoreRecords /\ len <= Available
  BY DEF TypeOK, ReadOK, InBlock, StoreMatch
<1>2. len \in Nat /\ src \in Nat /\ blockStart \in Nat /\ outBuf \in Seq(Bytes)
  BY <1>1, ThisRecordType DEF Record, ReadOK, BuildOK
<1>3. Len(data) = len
  BY <1>2, PartBytes
<1>4. usedChunks' = usedChunks + Chunks(len)
  <2>1. usedChunks' = usedChunks + Chunks(Len(data))
    BY DEF StoreMatch, ChunksOf, Pending
  <2> QED BY <1>3, <2>1
<1> HIDE DEF len, data
<1>5. Chunks(len) \in Nat /\ usedChunks \in Int /\ ChunkSpace \in Nat \ {0}
  BY <1>2, ChunksHold, BudgetAssumption DEF TypeOK, HeapOK
<1>6. ASSUME usedChunks' > usedChunks
      PROVE  usedChunks' * ChunkSpace <= UsefulMemory
  <2>1. PICK k \in Nat : UsefulMemory = k * ChunkSpace
    BY BudgetInChunks
  <2>2. len # 0
    <3>1. CASE len = 0
      <4>1. 0 <= 0 * ChunkSpace
        BY <1>5
      <4>2. Chunks(0) <= 0
        BY <4>1, ChunksFit
      <4> QED BY <1>4, <1>5, <1>6, <3>1, <4>2
    <3> QED BY <3>1
  <2>3. usedChunks * ChunkSpace + len <= k * ChunkSpace
    BY <1>1, <1>2, <2>1, <2>2, LeftOver
  <2>4. (k - usedChunks) * ChunkSpace = k * ChunkSpace - usedChunks * ChunkSpace
    BY <1>5, Z3
  <2>5. k * ChunkSpace \in Int /\ usedChunks * ChunkSpace \in Int
    BY <1>5
  <2>6. len <= (k - usedChunks) * ChunkSpace
    BY <1>2, <2>3, <2>4, <2>5
  <2>7. Chunks(len) <= k - usedChunks
    BY <1>2, <1>5, <2>6, ChunksFit
  <2>8. usedChunks' <= k /\ usedChunks' \in Int
    BY <1>4, <1>5, <2>7
  <2>9. usedChunks' * ChunkSpace <= k * ChunkSpace
    <3>1. PICK u \in Int : u = usedChunks'
      BY <2>8
    <3>2. u <= k /\ ChunkSpace \in Nat
      BY <1>5, <2>8, <3>1
    <3>3. u * ChunkSpace <= k * ChunkSpace
      BY <3>2, TimesMono
    <3> QED BY <3>1, <3>3
  <2> QED BY <2>1, <2>9
<1> QED BY <1>4, <1>5, <1>6

(* Taking a match out of the heap gives its chunks back.                   *)
LEMMA TakeFrees ==
  ASSUME TypeOK, EvictMatch \/ FillMatch
  PROVE  usedChunks' \in Int /\ usedChunks' <= usedChunks
<1>1. usedChunks \in Int /\ IsHeap(heap)
  BY DEF TypeOK, HeapOK
<1>2. \A d \in DOMAIN heap : ChunksOf(heap[d][1]) \in Nat
  <2> TAKE d \in DOMAIN heap
  <2>1. heap[d][1].data \in Seq(Bytes)
    BY <1>1, FirstOfClass DEF Entry
  <2>2. Len(heap[d][1].data) \in Nat
    BY <2>1
  <2> QED BY <2>2, ChunksHold DEF ChunksOf
<1>3. \E d \in DOMAIN heap : usedChunks' = usedChunks - ChunksOf(heap[d][1])
  BY DEF EvictMatch, FillMatch
<1> QED BY <1>1, <1>2, <1>3

(* No step but the reading of a slot takes memory past the budget: the     *)
(* third pass of decompress_block makes room before it saves a match, and  *)
(* nothing else uses more.  Where the budget is one step of -mem or more.  *)
THEOREM SavedWithinBudget == Spec => StoreWithinBudget
<1> DEFINE Takes == usedChunks' > usedChunks /\ pc # "load" /\ MemLimit >= ABlockSize
                      => usedChunks' * ChunkSpace <= UsefulMemory
<1>1. TypeOK /\ [Next]_vars => [Takes]_vars
  <2> SUFFICES ASSUME TypeOK, [Next]_vars, usedChunks' > usedChunks, pc # "load",
                      MemLimit >= ABlockSize
               PROVE  usedChunks' * ChunkSpace <= UsefulMemory
    OBVIOUS
  <2>1. CASE StoreMatch
    BY <2>1, StoreFits
  <2>2. CASE EvictMatch \/ FillMatch
    <3>1. usedChunks' \in Int /\ usedChunks' <= usedChunks /\ usedChunks \in Int
      BY <2>2, TakeFrees DEF TypeOK, HeapOK
    <3> QED BY <3>1
  <2>3. CASE ~ (StoreMatch \/ EvictMatch \/ FillMatch)
    <3>1. ~ LoadRecord
      BY DEF LoadRecord
    <3>2. usedChunks' = usedChunks /\ usedChunks \in Int
      BY <2>3, <3>1, OthersTakeNoMemory DEF TypeOK, HeapOK
    <3> QED BY <3>2
  <2> QED BY <2>1, <2>2, <2>3
<1> QED BY <1>1, TypeCorrect, PTL DEF Spec, StoreWithinBudget

-----------------------------------------------------------------------------
(* The bytes of a slot up to each of its records.  Every record takes at   *)
(* least its header and a byte.                                            *)
Sums(at, records) ==
  /\ at \in [0 .. Len(records) -> Nat] /\ at[0] = 0
  /\ \A i \in 1 .. Len(records) : at[i] = at[i - 1] + RecordHeader + records[i].len
  /\ \A i \in 0 .. Len(records) :
       i * (RecordHeader + 1) <= at[i] /\ at[i] <= at[Len(records)]

InSlot(at, records) ==
  Sums(at, records) /\ at[Len(records)] + (FitMargin - RecordHeader) <= VmBlock

LEMMA SumsFirst == \E at : Sums(at, <<>>) /\ at[0] = 0
<1> DEFINE at == [i \in 0 .. 0 |-> 0]
<1>1. Len(<<>>) = 0 /\ 0 .. 0 = {0} /\ 1 .. 0 = {}
  OBVIOUS
<1>2. RecordHeader \in Nat
  BY SlotAssumption
<1>3. Sums(at, <<>>)
  BY <1>1, <1>2 DEF Sums
<1> QED BY <1>3

LEMMA SumsAppend ==
  ASSUME NEW r \in Seq(Entry), NEW m \in Entry, m.len > 0, NEW at, Sums(at, r)
  PROVE  \E bt : /\ Sums(bt, Append(r, m))
                 /\ bt[Len(r) + 1] = at[Len(r)] + RecordHeader + m.len
<1> DEFINE n == Len(r)
           top == at[n] + RecordHeader + m.len
           bt == [i \in 0 .. n + 1 |-> IF i <= n THEN at[i] ELSE top]
           s == Append(r, m)
<1>1. /\ n \in Nat /\ Len(s) = n + 1 /\ s[n + 1] = m
      /\ \A i \in 1 .. n : s[i] = r[i]
  OBVIOUS
<1>2. m.len \in Nat /\ RecordHeader \in Nat
  BY SlotAssumption DEF Entry
<1> HIDE DEF s
<1>3. /\ at \in [0 .. n -> Nat] /\ at[0] = 0
      /\ \A i \in 1 .. n : at[i] = at[i - 1] + RecordHeader + r[i].len
      /\ \A i \in 0 .. n : i * (RecordHeader + 1) <= at[i] /\ at[i] <= at[n]
  BY DEF Sums
<1> HIDE DEF n
<1>4. at[n] \in Nat /\ top \in Nat /\ at[n] <= top
  BY <1>1, <1>2, <1>3
<1> HIDE DEF top
<1>5. bt \in [0 .. n + 1 -> Nat] /\ bt[0] = 0 /\ bt[n + 1] = top
      /\ \A i \in 0 .. n : bt[i] = at[i]
  BY <1>1, <1>3, <1>4
<1> HIDE DEF bt
<1>6. ASSUME NEW i \in 1 .. n + 1
      PROVE  bt[i] = bt[i - 1] + RecordHeader + s[i].len
  <2>1. CASE i <= n
    <3>1. i \in 1 .. n /\ i \in 0 .. n /\ i - 1 \in 0 .. n
      BY <1>1, <2>1
    <3> QED BY <1>1, <1>3, <1>5, <3>1
  <2>2. CASE i = n + 1
    <3>1. i - 1 = n /\ n \in 0 .. n
      BY <1>1, <2>2
    <3> QED BY <1>1, <1>5, <2>2, <3>1 DEF top
  <2> QED BY <1>1, <2>1, <2>2
<1>7. (n + 1) * (RecordHeader + 1) <= top
  <2>1. n * (RecordHeader + 1) <= at[n]
    BY <1>1, <1>3
  <2>2. (n + 1) * (RecordHeader + 1) = n * (RecordHeader + 1) + (RecordHeader + 1)
    BY <1>1, <1>2, Z3
  <2>3. n * (RecordHeader + 1) \in Nat
    BY <1>1, <1>2
  <2> QED BY <1>2, <1>4, <2>1, <2>2, <2>3 DEF top
<1>8. ASSUME NEW i \in 0 .. n + 1
      PROVE  i * (RecordHeader + 1) <= bt[i] /\ bt[i] <= bt[n + 1]
  <2>1. CASE i = n + 1
    BY <1>4, <1>5, <1>7, <2>1
  <2>2. CASE i \in 0 .. n
    <3>1. bt[i] = at[i] /\ at[i] \in Nat /\ at[i] <= at[n] /\ i * (RecordHeader + 1) <= at[i]
      BY <1>3, <1>5, <2>2
    <3> QED BY <1>4, <1>5, <3>1
  <2> QED BY <1>1, <2>1, <2>2
<1>9. Sums(bt, s)
  BY <1>1, <1>5, <1>6, <1>8 DEF Sums
<1> QED BY <1>5, <1>9 DEF top, s, n

(* Rounding the records of one slot to chunks costs no more than           *)
(* SlotRounding.                                                           *)
LEMMA MaxOfTwo ==
  ASSUME NEW a \in Int, NEW b \in Int
  PROVE  Max({a, b}) \in Int /\ Max({a, b}) >= a /\ Max({a, b}) >= b
<1>1. \E x \in {a, b} : \A y \in {a, b} : x >= y
  <2>1. CASE a >= b
    BY <2>1
  <2>2. CASE b >= a
    BY <2>2
  <2> QED BY <2>1, <2>2
<1> DEFINE x == Max({a, b})
<1>2. x \in {a, b} /\ \A y \in {a, b} : x >= y
  BY <1>1 DEF Max
<1> HIDE DEF x
<1>3. x \in Int /\ x >= a /\ x >= b
  BY <1>2
<1> QED BY <1>3 DEF x

LEMMA RoundingOfSlot ==
  ASSUME NEW r \in Seq(Entry), NEW at, InSlot(at, r), NEW l \in 0 .. Len(r), VmBlock > FitMargin
  PROVE  at[l] + l * (ChunkSpace - 1 - RecordHeader) - VmBlock <= SlotRounding
         /\ SlotRounding \in Nat
<1> DEFINE K == ChunkSpace - 1 - RecordHeader
           tail == FitMargin - RecordHeader
           room == VmBlock - tail
           R == SlotRecords * K - tail
<1>1. /\ RecordHeader \in Nat /\ FitMargin \in Nat /\ VmBlock \in Nat /\ ChunkSpace \in Nat \ {0}
      /\ tail \in Nat \ {0} /\ K \in Int /\ room \in Nat
  BY SlotAssumption, BudgetAssumption
<1>2. /\ l \in Nat /\ at[l] \in Nat /\ l * (RecordHeader + 1) <= at[l]
      /\ at[l] <= at[Len(r)] /\ at[Len(r)] \in Nat /\ at[Len(r)] + tail <= VmBlock
  <2>1. Len(r) \in Nat /\ Len(r) \in 0 .. Len(r)
    OBVIOUS
  <2> QED BY <2>1 DEF InSlot, Sums
<1>3. SlotRecords \in Nat /\ room < SlotRecords * (RecordHeader + 1) + (RecordHeader + 1)
  <2>1. RecordHeader + 1 \in Nat \ {0}
    BY <1>1
  <2> HIDE DEF room
  <2>2. /\ room \div (RecordHeader + 1) \in Nat
        /\ room < (room \div (RecordHeader + 1)) * (RecordHeader + 1) + (RecordHeader + 1)
    BY <1>1, <2>1, DivRange
  <2> QED BY <2>2 DEF SlotRecords, room
<1>4. R \in Int /\ SlotRounding = Max({0, R})
  BY <1>1, <1>3 DEF SlotRounding
<1> HIDE DEF R
<1>5. SlotRounding \in Int /\ SlotRounding >= 0 /\ SlotRounding >= R
  <2>1. R \in Int /\ 0 \in Int
    BY <1>4
  <2>2. Max({0, R}) \in Int /\ Max({0, R}) >= 0 /\ Max({0, R}) >= R
    BY <2>1, MaxOfTwo, Zenon
  <2> QED BY <1>4, <2>2
<1>6. l <= SlotRecords
  <2>1. CASE l >= SlotRecords + 1
    <3>1. (SlotRecords + 1) * (RecordHeader + 1) <= l * (RecordHeader + 1)
      BY <1>1, <1>2, <1>3, <2>1, TimesMono
    <3>2. (SlotRecords + 1) * (RecordHeader + 1)
            = SlotRecords * (RecordHeader + 1) + (RecordHeader + 1)
      BY <1>1, <1>3, Z3
    <3>3. /\ SlotRecords * (RecordHeader + 1) \in Nat /\ l * (RecordHeader + 1) \in Nat
          /\ (SlotRecords + 1) * (RecordHeader + 1) \in Nat
      BY <1>1, <1>2, <1>3
    <3>4. room = VmBlock - tail
      OBVIOUS
    <3> HIDE DEF room, tail
    <3> QED BY <1>1, <1>2, <1>3, <3>1, <3>2, <3>3, <3>4
  <2> QED BY <1>2, <1>3, <2>1
<1>7. at[l] - VmBlock <= 0 - tail /\ at[l] - VmBlock \in Int
  <2> HIDE DEF tail
  <2> QED BY <1>1, <1>2
<1>8. at[l] + l * K - VmBlock <= SlotRounding
  <2>1. CASE K >= 0
    <3>1. l * K <= SlotRecords * K /\ l * K \in Int /\ SlotRecords * K \in Int
      <4> HIDE DEF K
      <4> QED BY <1>1, <1>2, <1>3, <1>6, <2>1, TimesMono
    <3>2. R = SlotRecords * K - tail
      BY DEF R
    <3> DEFINE p == l * K
               q == SlotRecords * K
               a == at[l]
    <3>3. p <= q /\ p \in Int /\ q \in Int /\ R = q - tail
      BY <3>1, <3>2
    <3>4. a \in Nat /\ VmBlock \in Nat /\ tail \in Nat /\ a - VmBlock <= 0 - tail
      BY <1>1, <1>2, <1>7
    <3> HIDE DEF K, tail, p, q, a
    <3>5. a + p - VmBlock <= SlotRounding
      BY <1>4, <1>5, <3>3, <3>4
    <3> QED BY <3>5 DEF p, a
  <2>2. CASE K < 0
    <3>1. l * K <= 0 /\ l * K \in Int
      <4> HIDE DEF K
      <4>1. 0 - K \in Nat
        BY <1>1, <2>2
      <4>2. l * (0 - K) \in Nat
        BY <1>2, <4>1
      <4>3. l * (0 - K) = 0 - l * K
        BY <1>1, <1>2, Z3
      <4>4. l * K \in Int
        BY <1>1, <1>2
      <4> QED BY <4>2, <4>3, <4>4
    <3> HIDE DEF K, tail
    <3> QED BY <1>1, <1>2, <1>5, <1>7, <3>1
  <2> QED BY <1>1, <2>1, <2>2
<1> QED BY <1>5, <1>8

(* The data of a match is no longer than the match: that of the first of   *)
(* every class, and of all that is packed or spilled.                      *)
DataFits(m) == Len(m.data) <= m.len

Fitting ==
  /\ \A d \in DOMAIN heap : DataFits(heap[d][1])
  /\ \A i \in DOMAIN packed : DataFits(packed[i])
  /\ \A s \in DOMAIN spill : \A i \in DOMAIN spill[s] : DataFits(spill[s][i])

(* What is packed takes the bytes counted, and every slot written has room *)
(* for its records and its terminator.                                     *)
Measured ==
  /\ \E at : Sums(at, packed) /\ filled = at[Len(packed)]
  /\ \A s \in DOMAIN spill : \E at : InSlot(at, spill[s])

(* While a slot is read back, memory holds what it held when there was     *)
(* room for a whole slot, and the records read so far.                     *)
Loading(at) ==
  /\ InSlot(at, spill[slot]) /\ loaded <= Len(spill[slot])
  /\ usedChunks * ChunkSpace
       <= UsefulMemory - VmBlock + at[loaded] + loaded * (ChunkSpace - 1 - RecordHeader)

Limited == MemLimit >= ABlockSize /\ VmBlock > FitMargin

Within == usedChunks * ChunkSpace <= UsefulMemory + SlotRounding

MemoryOK ==
  Limited => /\ pc # "load" => Within
             /\ pc = "load" => \E at : Loading(at)

LEMMA RoundingIsNat ==
  ASSUME Limited
  PROVE  SlotRounding \in Nat /\ UsefulMemory \in Nat /\ VmBlock \in Nat
<1>1. ChunkSpace \in Nat \ {0}
  BY BudgetAssumption
<1>2. \E k \in Nat : UsefulMemory = k * ChunkSpace
  BY BudgetInChunks DEF Limited
<1>3. UsefulMemory \in Nat
  BY <1>1, <1>2
<1>4. PICK at : Sums(at, <<>>) /\ at[0] = 0
  BY SumsFirst
<1>5. InSlot(at, <<>>)
  BY <1>4, SlotAssumption, BudgetAssumption DEF InSlot, Limited
<1>6. <<>> \in Seq(Entry) /\ 0 \in 0 .. Len(<<>>)
  OBVIOUS
<1>7. SlotRounding \in Nat
  BY <1>5, <1>6, RoundingOfSlot DEF Limited
<1> QED BY <1>3, <1>7, BudgetAssumption

(* At any point of a restore memory is within the rounding of its slot.    *)
LEMMA LoadedWithin ==
  ASSUME TypeOK, Limited, slot \in DOMAIN spill, NEW at, Loading(at)
  PROVE  Within
<1>1. spill[slot] \in Seq(Entry) /\ loaded \in 0 .. Len(spill[slot])
  BY DEF TypeOK, SpillOK, Loading
<1> DEFINE x == at[loaded]
           y == loaded * (ChunkSpace - 1 - RecordHeader)
           u == usedChunks * ChunkSpace
<1>2. x + y - VmBlock <= SlotRounding
  BY <1>1, RoundingOfSlot DEF Loading, Limited
<1>3. u <= UsefulMemory - VmBlock + x + y
  BY DEF Loading
<1>4. x \in Nat /\ y \in Int /\ u \in Int
  <2>1. x \in Nat
    BY <1>1 DEF Loading, InSlot, Sums
  <2>2. loaded \in Int /\ ChunkSpace - 1 - RecordHeader \in Int /\ usedChunks \in Int
          /\ ChunkSpace \in Int
    BY BudgetAssumption, SlotAssumption DEF TypeOK, SpillOK, HeapOK
  <2> QED BY <2>1, <2>2
<1> HIDE DEF x, y
<1>5. u <= UsefulMemory + SlotRounding
  <2> HIDE DEF u
  <2> QED BY <1>2, <1>3, <1>4, RoundingIsNat
<1> QED BY <1>5 DEF Within

LEMMA MemoryFirst == Init => Fitting /\ Measured /\ MemoryOK
<1> SUFFICES ASSUME Init PROVE Fitting /\ Measured /\ MemoryOK
  OBVIOUS
<1>1. DOMAIN heap = {} /\ DOMAIN packed = {} /\ DOMAIN spill = {}
  BY DEF Init
<1>2. Fitting
  BY <1>1 DEF Fitting
<1>3. Measured
  <2>1. packed = <<>> /\ filled = 0 /\ Len(packed) = 0
    BY DEF Init
  <2>2. \E at : Sums(at, packed) /\ filled = at[Len(packed)]
    BY <2>1, SumsFirst
  <2> QED BY <1>1, <2>2 DEF Measured
<1>4. MemoryOK
  <2> SUFFICES ASSUME Limited PROVE Within
    BY DEF MemoryOK, Init
  <2>1. usedChunks * ChunkSpace = 0
    BY BudgetAssumption DEF Init
  <2> QED BY <2>1, RoundingIsNat DEF Within
<1> QED BY <1>2, <1>3, <1>4

(* Putting a match into the heap, or a mark, or taking a class out.        *)
LEMMA InsertFits ==
  ASSUME NEW h, IsHeap(h), NEW m \in Entry, DataFits(m),
         \A d \in DOMAIN h : DataFits(h[d][1])
  PROVE  \A d \in DOMAIN Insert(h, m) : DataFits(Insert(h, m)[d][1])
<1> DEFINE g == Insert(h, m)
<1>1. DOMAIN g = DOMAIN h \cup {m.dest}
  BY InsertHeap
<1>2. /\ \A d \in DOMAIN h : g[d][1] = h[d][1]
      /\ m.dest \notin DOMAIN h => g[m.dest][1] = m
  BY InsertFirst
<1> HIDE DEF g
<1>3. \A d \in DOMAIN g : DataFits(g[d][1])
  BY <1>1, <1>2
<1> QED BY <1>3 DEF g

LEMMA TakeFits ==
  ASSUME NEW h, IsHeap(h), NEW c, \A d \in DOMAIN h : DataFits(h[d][1])
  PROVE  \A d \in DOMAIN TakeClass(h, c) : DataFits(TakeClass(h, c)[d][1])
<1> DEFINE g == TakeClass(h, c)
<1>1. DOMAIN g = DOMAIN h \ {c} /\ \A e \in DOMAIN h \ {c} : g[e] = h[e]
  BY TakeHeap
<1> HIDE DEF g
<1>2. \A d \in DOMAIN g : DataFits(g[d][1])
  BY <1>1
<1> QED BY <1>2 DEF g

LEMMA FittingOn == TypeOK /\ Fitting /\ [Next]_vars => Fitting'
<1> SUFFICES ASSUME TypeOK, Fitting, [Next]_vars PROVE Fitting'
  OBVIOUS
<1>0. ReadOK /\ BuildOK /\ IsHeap(heap) /\ PackOK /\ SpillOK
  BY DEF TypeOK, HeapOK
<1>1. CASE UNCHANGED <<heap, spill>> /\ (packed' = packed \/ packed' = <<>>)
  BY <1>1 DEF Fitting
<1>2. ASSUME MoreRecords, InBlock, pc \in {"validate", "store"}
      PROVE  Pending(Unsaved) \in Entry /\ DataFits(Pending(Unsaved))
  <2>1. block < Len(arch.blocks)
    BY <1>0, <1>2 DEF ReadOK
  <2>2. Pending(Unsaved) \in Entry /\ ThisRecord.len \in Nat
    BY <1>0, <1>2, <2>1, ThisRecordType DEF Record
  <2>3. Pending(Unsaved).data = <<>> /\ Pending(Unsaved).len = ThisRecord.len
    BY DEF Pending, Unsaved
  <2> QED BY <2>2, <2>3 DEF DataFits
<1>3. CASE ValidateRecord \/ StoreUnsaved
  <2>1. pc \in {"validate", "store"} /\ MoreRecords /\ InBlock
    BY <1>3 DEF ValidateRecord, StoreUnsaved, InBlock
  <2>2. Pending(Unsaved) \in Entry /\ DataFits(Pending(Unsaved))
    BY <1>2, <2>1
  <2>3. heap' = heap \/ heap' = Insert(heap, Pending(Unsaved))
    BY <1>3 DEF ValidateRecord, StoreUnsaved
  <2>4. \A d \in DOMAIN heap' : DataFits(heap'[d][1])
    BY <1>0, <2>2, <2>3, InsertFits DEF Fitting
  <2>5. UNCHANGED <<packed, spill>>
    BY <1>3 DEF ValidateRecord, StoreUnsaved, packVars, vmVars
  <2> QED BY <2>4, <2>5 DEF Fitting
<1>4. CASE StoreMatch
  <2> DEFINE len == ThisRecord.len
             data == Part(outBuf, src - blockStart, len)
             m == Pending(data)
  <2>1. block < Len(arch.blocks) /\ MoreRecords
    BY <1>0, <1>4 DEF ReadOK, InBlock, StoreMatch
  <2>2. len \in Nat /\ src \in Nat /\ blockStart \in Nat /\ outBuf \in Seq(Bytes)
    BY <1>0, <2>1, ThisRecordType DEF Record, ReadOK, BuildOK
  <2>3. data \in Seq(Bytes) /\ Len(data) = len
    BY <2>2, PartBytes
  <2>4. heap' = Insert(heap, m)
    BY <1>4 DEF StoreMatch
  <2> HIDE DEF data
  <2>5. m \in Entry
    BY <1>0, <2>1, <2>3, ThisRecordType
  <2>6. DataFits(m)
    BY <2>2, <2>3 DEF DataFits, Pending
  <2> HIDE DEF m
  <2>7. \A d \in DOMAIN heap' : DataFits(heap'[d][1])
    BY <1>0, <2>4, <2>5, <2>6, InsertFits DEF Fitting
  <2>8. UNCHANGED <<packed, spill>>
    BY <1>4 DEF StoreMatch, packVars, vmVars
  <2> QED BY <2>7, <2>8 DEF Fitting
<1>5. CASE LoadRecord
  <2> DEFINE m == spill[slot][loaded + 1]
  <2>1. slot \in DOMAIN spill /\ spill[slot] \in Seq(Entry) /\ loaded \in Nat
          /\ loaded < Len(spill[slot])
    BY <1>0, <1>5 DEF SpillOK, LoadRecord
  <2>2. loaded + 1 \in DOMAIN spill[slot] /\ m \in Entry
    BY <2>1
  <2>3. DataFits(m)
    BY <2>1, <2>2 DEF Fitting
  <2>4. heap' = Insert(heap, m) /\ UNCHANGED <<packed, spill>>
    BY <1>5 DEF LoadRecord, packVars, vmVars
  <2> HIDE DEF m
  <2>5. \A d \in DOMAIN heap' : DataFits(heap'[d][1])
    BY <1>0, <2>2, <2>3, <2>4, InsertFits DEF Fitting
  <2> QED BY <2>4, <2>5 DEF Fitting
<1>6. CASE FillMatch \/ TakeMark
  <2>1. \E d : heap' = TakeClass(heap, d)
    BY <1>6 DEF FillMatch, TakeMark
  <2>2. \A d \in DOMAIN heap' : DataFits(heap'[d][1])
    BY <1>0, <2>1, TakeFits DEF Fitting
  <2>3. UNCHANGED <<packed, spill>>
    BY <1>6 DEF FillMatch, TakeMark, packVars, vmVars
  <2> QED BY <2>2, <2>3 DEF Fitting
<1>7. CASE EvictMatch
  <2>1. PICK d \in DOMAIN heap : EvictMatch!(d)
    BY <1>7 DEF EvictMatch
  <2> DEFINE m == heap[d][1]
  <2>2. m \in Entry /\ DataFits(m) /\ packed \in Seq(Entry) /\ packed' = Append(packed, m)
    BY <1>0, <2>1, FirstOfClass DEF Fitting, PackOK
  <2>3. \A e \in DOMAIN heap' : DataFits(heap'[e][1])
    BY <1>0, <2>1, TakeFits DEF Fitting
  <2> HIDE DEF m
  <2>4. \A i \in DOMAIN packed' : DataFits(packed'[i])
    <3>1. Len(packed') = Len(packed) + 1 /\ packed' \in Seq(Entry)
      BY <2>2
    <3>2. \A i \in 1 .. Len(packed) : packed'[i] = packed[i]
      BY <2>2
    <3>3. packed'[Len(packed) + 1] = m
      BY <2>2
    <3>4. \A i \in 1 .. Len(packed) : DataFits(packed[i])
      BY <2>2 DEF Fitting
    <3> QED BY <2>2, <3>1, <3>2, <3>3, <3>4
  <2>5. spill' = spill
    BY <2>1 DEF vmVars
  <2> QED BY <2>3, <2>4, <2>5 DEF Fitting
<1>8. CASE WriteSlot
  <2>1. PICK s \in DOMAIN spill \cup {newBlock} : WriteSlot!2!(s)
    BY <1>8 DEF WriteSlot
  <2> DEFINE mark == Mark(s, packed[Len(packed)].dest)
  <2>2. packed # <<>> /\ packed \in Seq(Entry) /\ packed' = <<>>
    BY <1>0, <1>8 DEF WriteSlot, PackOK
  <2>3. packed[Len(packed)].dest \in Nat /\ s \in Nat
    <3>1. packed[Len(packed)] \in Entry
      BY <2>2
    <3>2. DOMAIN spill \cup {newBlock} \subseteq Nat
      BY <1>0 DEF SpillOK
    <3> QED BY <3>1, <3>2 DEF Entry
  <2>4. mark \in Entry /\ mark.data = <<>> /\ mark.len = 0
    BY <2>3 DEF Mark, Entry, Unsaved
  <2>5. DataFits(mark) /\ heap' = Insert(heap, mark)
    BY <2>1, <2>4 DEF DataFits
  <2> HIDE DEF mark
  <2>6. \A d \in DOMAIN heap' : DataFits(heap'[d][1])
    BY <1>0, <2>4, <2>5, InsertFits DEF Fitting
  <2>7. \A t \in DOMAIN spill' : \A i \in DOMAIN spill'[t] : DataFits(spill'[t][i])
    BY <2>1 DEF Fitting
  <2> QED BY <2>2, <2>6, <2>7 DEF Fitting
<1> QED
  BY <1>1, <1>3, <1>4, <1>5, <1>6, <1>7, <1>8
     DEF Next, vars, packVars, vmVars, Open, RefuseOpen, ReadBlock, Truncated, Finish,
         RefuseFooter, RejectRecord, EndValidate, RejectMatch, FillTail, RejectLiterals,
         SkipRecord, StoreNeedsRoom, EndStore, NothingToEvict, RestoreNeedsRoom, ReadSlot,
         SlotMissing, EndRestore, WriteBlock, RejectDigest, Stopped, Fail, BeginPacking

(* What is packed and spilled keeps its measure.                           *)
LEMMA MeasuredOn ==
  ASSUME TypeOK, SlotInv, SlotWithinBlock, Measured, [Next]_vars
  PROVE  Measured'
<1>0. IsHeap(heap) /\ PackOK /\ SpillOK
  BY DEF TypeOK, HeapOK
<1>1. CASE UNCHANGED <<packed, filled, spill>>
  BY <1>1 DEF Measured, Sums, InSlot
<1>2. CASE packed' = <<>> /\ filled' = 0 /\ spill' = spill
  <2>1. \E at : Sums(at, packed') /\ filled' = at[Len(packed')]
    <3>1. Len(<<>>) = 0
      OBVIOUS
    <3> QED BY <1>2, <3>1, SumsFirst
  <2> QED BY <1>2, <2>1 DEF Measured, Sums, InSlot
<1>3. CASE EvictMatch
  <2>1. PICK d \in DOMAIN heap : EvictMatch!(d)
    BY <1>3 DEF EvictMatch
  <2> DEFINE m == heap[d][1]
  <2>2. m \in Entry /\ m.len > 0
    BY <1>0, <2>1, FirstOfClass DEF SlotInv, Solid, IsFurthest, Evictable
  <2>3. /\ packed' = Append(packed, m) /\ filled' = filled + RecordHeader + m.len
        /\ spill' = spill
    BY <2>1 DEF vmVars
  <2> HIDE DEF m
  <2>4. PICK at : Sums(at, packed) /\ filled = at[Len(packed)]
    BY DEF Measured
  <2>5. packed \in Seq(Entry)
    BY <1>0 DEF PackOK
  <2>6. PICK bt : /\ Sums(bt, Append(packed, m))
                  /\ bt[Len(packed) + 1] = at[Len(packed)] + RecordHeader + m.len
    BY <2>2, <2>4, <2>5, SumsAppend
  <2>7. Len(packed') = Len(packed) + 1
    BY <2>2, <2>3, <2>5
  <2>8. Sums(bt, packed') /\ filled' = bt[Len(packed')]
    BY <2>3, <2>4, <2>6, <2>7
  <2> QED BY <2>3, <2>8 DEF Measured, InSlot
<1>4. CASE WriteSlot
  <2>1. PICK s \in DOMAIN spill \cup {newBlock} :
          spill' = [t \in DOMAIN spill \cup {s} |-> IF t = s THEN packed ELSE spill[t]]
    BY <1>4 DEF WriteSlot
  <2>2. packed # <<>> /\ packed' = <<>> /\ filled' = 0
    BY <1>4 DEF WriteSlot
  <2>3. PICK at : Sums(at, packed) /\ filled = at[Len(packed)]
    BY DEF Measured
  <2>4. InSlot(at, packed)
    BY <2>2, <2>3 DEF InSlot, SlotWithinBlock
  <2>5. \A t \in DOMAIN spill' : \E bt : InSlot(bt, spill'[t])
    <3> TAKE t \in DOMAIN spill'
    <3>1. CASE t = s
      BY <2>1, <2>4, <3>1
    <3>2. CASE t # s
      <4>1. t \in DOMAIN spill /\ spill'[t] = spill[t]
        BY <2>1, <3>2
      <4> QED BY <4>1 DEF Measured
    <3> QED BY <3>1, <3>2
  <2>6. \E bt : Sums(bt, packed') /\ filled' = bt[Len(packed')]
    <3>1. Len(<<>>) = 0
      OBVIOUS
    <3> QED BY <2>2, <3>1, SumsFirst
  <2> QED BY <2>5, <2>6 DEF Measured, Sums, InSlot
<1> QED
  BY <1>1, <1>2, <1>3, <1>4
     DEF Next, vars, packVars, vmVars, Open, RefuseOpen, ReadBlock, Truncated, Finish,
         RefuseFooter, ValidateRecord, RejectRecord, EndValidate, FillMatch, RejectMatch,
         TakeMark, FillTail, RejectLiterals, SkipRecord, StoreUnsaved, StoreMatch,
         StoreNeedsRoom, EndStore, NothingToEvict, RestoreNeedsRoom, ReadSlot, SlotMissing,
         LoadRecord, EndRestore, WriteBlock, RejectDigest, Stopped, Fail, BeginPacking

-----------------------------------------------------------------------------
(* Memory stays within the budget and one slot's rounding.                 *)
LEMMA LessMemory ==
  ASSUME TypeOK, Within, usedChunks' \in Int, usedChunks' <= usedChunks, Limited
  PROVE  Within'
<1>1. PICK u \in Int : u = usedChunks'
  OBVIOUS
<1>2. usedChunks \in Int /\ ChunkSpace \in Nat
  BY BudgetAssumption DEF TypeOK, HeapOK
<1>3. u * ChunkSpace <= usedChunks * ChunkSpace
  BY <1>1, <1>2, TimesMono
<1>4. u * ChunkSpace \in Int /\ usedChunks * ChunkSpace \in Int
  BY <1>1, <1>2
<1>5. u * ChunkSpace <= UsefulMemory + SlotRounding
  BY <1>3, <1>4, RoundingIsNat DEF Within
<1> QED BY <1>1, <1>5 DEF Within, SlotRounding, SlotRecords, UsefulMemory

(* Room for a whole slot was made before it is read.                       *)
LEMMA RoomForSlot ==
  ASSUME TypeOK, Measured, Limited, ReadSlot
  PROVE  \E at : Loading(at)'
<1>1. slot \in DOMAIN spill /\ Available >= VmBlock
  BY DEF ReadSlot
<1>2. VmBlock \in Nat \ {0}
  BY SlotAssumption, BudgetAssumption DEF Limited
<1>3. usedChunks * ChunkSpace + VmBlock <= UsefulMemory
  BY <1>1, <1>2, LeftOver
<1>4. PICK at : InSlot(at, spill[slot])
  BY <1>1 DEF Measured
<1>5. at[0] = 0 /\ 0 * (ChunkSpace - 1 - RecordHeader) = 0 /\ usedChunks * ChunkSpace \in Int
  <2>1. usedChunks \in Int /\ ChunkSpace - 1 - RecordHeader \in Int /\ ChunkSpace \in Int
    BY BudgetAssumption, SlotAssumption DEF TypeOK, HeapOK
  <2> QED BY <1>4, <2>1 DEF InSlot, Sums
<1>6. UNCHANGED <<slot, spill, usedChunks>> /\ loaded' = 0
  BY DEF ReadSlot
<1>7. spill[slot] \in Seq(Entry)
  BY <1>1 DEF TypeOK, SpillOK
<1>8. 0 <= Len(spill[slot])
  BY <1>7
<1> DEFINE u == usedChunks * ChunkSpace
<1> HIDE DEF u
<1>9. u <= UsefulMemory - VmBlock + 0 + 0
  BY <1>2, <1>3, <1>5, RoundingIsNat DEF u
<1>10. usedChunks * ChunkSpace
         <= UsefulMemory - VmBlock + at[0] + 0 * (ChunkSpace - 1 - RecordHeader)
  BY <1>5, <1>9 DEF u
<1>11. Loading(at)'
  BY <1>4, <1>6, <1>8, <1>10 DEF Loading, InSlot, Sums, UsefulMemory
<1> QED BY <1>11

(* A record read back takes at most its place in the slot, and what its    *)
(* last chunk is longer than its header.                                   *)
LEMMA OneMoreLoaded ==
  ASSUME TypeOK, Fitting, Limited, LoadRecord, NEW at, Loading(at)
  PROVE  Loading(at)'
<1> DEFINE m == spill[slot][loaded + 1]
           l == loaded
           K == ChunkSpace - 1 - RecordHeader
<1>1. slot \in DOMAIN spill /\ spill[slot] \in Seq(Entry) /\ loaded \in Nat
        /\ loaded < Len(spill[slot]) /\ usedChunks \in Int
  BY DEF TypeOK, SpillOK, HeapOK, LoadRecord
<1>2. loaded + 1 \in DOMAIN spill[slot] /\ m \in Entry
  BY <1>1
<1>3. Len(m.data) \in Nat /\ m.len \in Nat /\ Len(m.data) <= m.len
  BY <1>1, <1>2 DEF Fitting, DataFits, Entry
<1>4. at[l + 1] = at[l] + RecordHeader + m.len /\ at[l] \in Nat
  <2>1. loaded + 1 \in 1 .. Len(spill[slot]) /\ (loaded + 1) - 1 = loaded
          /\ loaded \in 0 .. Len(spill[slot])
    BY <1>1
  <2> QED BY <2>1 DEF Loading, InSlot, Sums
<1>5. UNCHANGED <<slot, spill>> /\ loaded' = l + 1 /\ usedChunks' = usedChunks + ChunksOf(m)
  BY DEF LoadRecord, vmVars
<1>6. /\ ChunkSpace \in Nat \ {0} /\ RecordHeader \in Nat /\ VmBlock \in Nat
      /\ UsefulMemory \in Nat /\ K \in Int
  BY BudgetAssumption, SlotAssumption, RoundingIsNat
<1>7. ChunksOf(m) \in Nat /\ ChunksOf(m) * ChunkSpace <= Len(m.data) + ChunkSpace - 1
  BY <1>3, ChunksHold DEF ChunksOf
<1>8. (usedChunks + ChunksOf(m)) * ChunkSpace
        = usedChunks * ChunkSpace + ChunksOf(m) * ChunkSpace
  BY <1>1, <1>6, <1>7, Z3
<1>9. (l + 1) * K = l * K + K
  BY <1>1, <1>6, Z3
<1> DEFINE u == usedChunks * ChunkSpace
           c == ChunksOf(m) * ChunkSpace
           x == l * K
<1>10. u \in Int /\ c \in Int /\ x \in Int
  <2> HIDE DEF K
  <2> QED BY <1>1, <1>6, <1>7
<1>11. u <= UsefulMemory - VmBlock + at[l] + x
  BY DEF Loading
<1>12. K = ChunkSpace - 1 - RecordHeader
  OBVIOUS
<1> DEFINE y == (l + 1) * K
           v == (usedChunks + ChunksOf(m)) * ChunkSpace
<1>13. v = u + c /\ y = x + K /\ c <= Len(m.data) + ChunkSpace - 1
  BY <1>7, <1>8, <1>9
<1> HIDE DEF m, l, K, u, c, x, y, v
<1>14. v <= UsefulMemory - VmBlock + at[l + 1] + y
  <2>1. \A a, b, n, r, s, f \in Int :
          /\ f <= n + s - 1 /\ n <= b
          => f <= (r + b) + (s - 1 - r)
    OBVIOUS
  <2>2. c <= RecordHeader + m.len + K
    BY <1>3, <1>6, <1>10, <1>12, <1>13, <2>1
  <2>3. \A g, a, b, w \in Int : u <= g + a + x /\ c <= b + K => u + c <= g + (a + b) + (x + K)
    BY <1>6, <1>10
  <2>4. /\ UsefulMemory - VmBlock \in Int /\ at[l] \in Int /\ RecordHeader + m.len \in Int
        /\ at[l + 1] = at[l] + (RecordHeader + m.len)
    BY <1>3, <1>4, <1>6
  <2> QED BY <1>11, <1>13, <2>2, <2>3, <2>4
<1>15. usedChunks' * ChunkSpace
         <= UsefulMemory - VmBlock + at[loaded'] + loaded' * (ChunkSpace - 1 - RecordHeader)
  BY <1>5, <1>14 DEF v, y, K
<1>16. loaded' <= Len(spill[slot])
  BY <1>1, <1>5 DEF l
<1>17. InSlot(at, spill[slot])
  BY DEF Loading
<1> QED BY <1>5, <1>15, <1>16, <1>17 DEF Loading, InSlot, Sums, UsefulMemory

LEMMA MemoryOn ==
  ASSUME TypeOK, Fitting, Measured, MemoryOK, [Next]_vars
  PROVE  MemoryOK'
<1> SUFFICES ASSUME Limited
             PROVE  /\ pc' # "load" => Within'
                    /\ pc' = "load" => \E at : Loading(at)'
  BY DEF MemoryOK, Limited
<1>0. pc # "load" => Within
  BY DEF MemoryOK
<1>1. CASE ReadSlot
  BY <1>1, RoomForSlot DEF ReadSlot
<1>2. CASE LoadRecord
  <2>1. PICK at : Loading(at)
    BY <1>2 DEF MemoryOK, LoadRecord
  <2>2. Loading(at)'
    BY <1>2, <2>1, OneMoreLoaded
  <2> QED BY <1>2, <2>2 DEF LoadRecord
<1>3. CASE EndRestore
  <2>1. PICK at : Loading(at)
    BY <1>3 DEF MemoryOK, EndRestore
  <2>2. Within
    BY <1>3, <2>1, LoadedWithin DEF EndRestore, TypeOK, SpillOK
  <2> QED BY <1>3, <2>2 DEF EndRestore, Within, UsefulMemory, SlotRounding, SlotRecords
<1>4. CASE StoreMatch
  <2>1. pc # "load" /\ pc' = pc
    BY <1>4 DEF StoreMatch
  <2>2. /\ usedChunks' \in Int /\ usedChunks' >= usedChunks
        /\ usedChunks' > usedChunks => usedChunks' * ChunkSpace <= UsefulMemory
    BY <1>4, StoreFits DEF Limited
  <2>3. CASE usedChunks' = usedChunks
    BY <1>0, <2>1, <2>3 DEF Within, UsefulMemory, SlotRounding, SlotRecords
  <2>4. CASE usedChunks' > usedChunks
    <3>1. PICK u \in Int : u = usedChunks'
      BY <2>2
    <3>2. u * ChunkSpace <= UsefulMemory /\ u * ChunkSpace \in Int
      BY <2>2, <2>4, <3>1, BudgetAssumption
    <3>3. u * ChunkSpace <= UsefulMemory + SlotRounding
      BY <3>2, RoundingIsNat
    <3> QED BY <2>1, <3>1, <3>3 DEF Within, UsefulMemory, SlotRounding, SlotRecords
  <2>5. usedChunks \in Int
    BY DEF TypeOK, HeapOK
  <2> QED BY <2>2, <2>3, <2>4, <2>5
<1>5. CASE EvictMatch \/ FillMatch
  <2>1. pc # "load" /\ pc' = pc
    BY <1>5 DEF EvictMatch, FillMatch, Due
  <2> QED BY <1>0, <1>5, <2>1, TakeFrees, LessMemory
<1>6. CASE ~ ReadSlot /\ ~ LoadRecord /\ ~ EndRestore /\ ~ StoreMatch /\ ~ EvictMatch /\ ~ FillMatch
  <2>1. UNCHANGED usedChunks
    BY <1>6, OthersTakeNoMemory
  <2>2. CASE pc = "load"
    <3>1. UNCHANGED vars
      BY <1>6, <2>2
         DEF Next, Open, RefuseOpen, ReadBlock, Truncated, Finish, RefuseFooter,
             ValidateRecord, RejectRecord, EndValidate, RejectMatch, TakeMark, FillTail,
             RejectLiterals, SkipRecord, StoreUnsaved, StoreNeedsRoom, EndStore, WriteSlot,
             NothingToEvict, RestoreNeedsRoom, SlotMissing, WriteBlock, RejectDigest, Stopped,
             Due
    <3>2. UNCHANGED <<pc, slot, loaded, spill>>
      BY <3>1 DEF vars, slotVars, vmVars
    <3>3. PICK at : Loading(at)
      BY <2>2 DEF MemoryOK
    <3>4. Loading(at)'
      BY <2>1, <3>2, <3>3 DEF Loading, InSlot, Sums, UsefulMemory
    <3> QED BY <2>2, <3>2, <3>4
  <2>3. CASE pc # "load"
    <3>1. pc' # "load"
      BY <1>6, <2>3
         DEF Next, vars, Open, RefuseOpen, ReadBlock, Truncated, Finish, RefuseFooter,
             ValidateRecord, RejectRecord, EndValidate, RejectMatch, TakeMark, FillTail,
             RejectLiterals, SkipRecord, StoreUnsaved, StoreNeedsRoom, EndStore, WriteSlot,
             NothingToEvict, RestoreNeedsRoom, SlotMissing, WriteBlock, RejectDigest, Stopped,
             Fail, BeginPacking, TypeOK, ControlOK
    <3> QED BY <1>0, <2>1, <2>3, <3>1 DEF Within, UsefulMemory, SlotRounding, SlotRecords
  <2> QED BY <2>2, <2>3
<1> QED BY <1>1, <1>2, <1>3, <1>4, <1>5, <1>6

(* Memory passes the budget by no more than the rounding of one slot, for  *)
(* every budget, chunk and slot size, when no record of the archives is    *)
(* empty (what the encoder writes: a match has a byte at least).           *)
THEOREM OvershootWithinRounding ==
  ASSUME NoEmptyRecords
  PROVE  Spec => []OvershootBounded
<1> DEFINE I == TypeOK /\ SlotInv /\ SlotWithinBlock
           J == Fitting /\ Measured /\ MemoryOK
<1>1. I /\ J /\ [Next]_vars => J'
  BY FittingOn, MeasuredOn, MemoryOn
<1>2. I /\ J => OvershootBounded
  <2> SUFFICES ASSUME TypeOK, MemoryOK, Limited PROVE Within
    BY DEF OvershootBounded, Within, Limited
  <2>1. CASE pc = "load"
    <3>1. PICK at : Loading(at)
      BY <2>1 DEF MemoryOK
    <3> QED BY <2>1, <3>1, LoadedWithin DEF TypeOK, SpillOK
  <2>2. CASE pc # "load"
    BY <2>2 DEF MemoryOK
  <2> QED BY <2>1, <2>2
<1>3. Spec => []I
  BY SlotsKept, SlotNeverOverflows, PTL
<1> HIDE DEF I, J
<1>4. Init => J
  BY MemoryFirst DEF J
<1> QED BY <1>1, <1>2, <1>3, <1>4, PTL DEF Spec
=============================================================================

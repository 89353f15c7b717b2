----------------------------- MODULE IoLzProofs -----------------------------
(***************************************************************************)
(* The I/O-LZ decoder stays inside its block, for every archive: any       *)
(* numbers in its records, any base length, damaged or not.                *)
(***************************************************************************)
EXTENDS IoLz, BufferProofs

(* What is built makes a block of just the size declared, once the         *)
(* literals are all used; so each block is written behind the last.        *)
Whole == pc = "verify" => outPos = CurrentBlock.size

IInv == TypeOK /\ Whole

LEMMA BlockType ==
  ASSUME arch \in Archive, block \in Nat, block < Len(arch.blocks)
  PROVE  /\ CurrentBlock \in Block /\ CurrentBlock.size \in Nat
         /\ Literals \in Seq(Bytes) /\ CurrentBlock.recs \in Seq(Record)
<1>1. arch.blocks \in Seq(Block)
  BY DEF Archive
<1>2. CurrentBlock \in Block
  BY <1>1 DEF CurrentBlock
<1> QED BY <1>2 DEF Block, Literals

(* The fields of a record, read and used.                                  *)
LEMMA RecordType ==
  ASSUME IInv, pc = "records", st <= Len(CurrentBlock.recs)
  PROVE  /\ ThisRecord.lit \in Nat /\ L1 \in Nat /\ mlen \in Nat
         /\ L1 # 0 => Source \in Int
<1>1. CurrentBlock.recs \in Seq(Record) /\ st \in Nat \ {0} /\ arch \in Archive
  BY BlockType DEF IInv, TypeOK
<1>2. ThisRecord \in Record
  BY <1>1 DEF ThisRecord
<1>3. ThisRecord.lit \in Nat /\ ThisRecord.off \in Nat /\ ThisRecord.len \in Nat
  BY <1>2 DEF Record
<1>4. arch.base \in Nat /\ L1 \in Nat
  BY <1>1 DEF Archive, L1
<1>5. mlen \in Nat
  BY <1>3, <1>4 DEF mlen
<1>6. ASSUME L1 # 0 PROVE Source \in Int
  <2>1. blockStart \in Nat /\ outBuf \in Seq(Bytes)
    BY DEF IInv, TypeOK
  <2>2. dest \in Nat
    BY <2>1, <1>3 DEF dest, outPos
  <2> HIDE DEF dest, L1
  <2>3. dest \div L1 \in Int
    BY <2>2, <1>4, <1>6
  <2>4. (dest \div L1) * L1 \in Int /\ ThisRecord.off * L1 \in Int
    BY <2>3, <1>3, <1>4
  <2> QED BY <2>4 DEF Source
<1> QED BY <1>3, <1>4, <1>5, <1>6

(* What a record adds to the block: as many bytes as it says.              *)
LEMMA ConcatBytes ==
  ASSUME NEW s \in Seq(Bytes), NEW t \in Seq(Bytes)
  PROVE  s \o t \in Seq(Bytes) /\ Len(s \o t) = Len(s) + Len(t)
  OBVIOUS

LEMMA RecordBuilds ==
  ASSUME NEW b \in Seq(Bytes), NEW from \in Int, NEW n \in Nat
  PROVE  /\ b \o LzCopy(b, from, n) \in Seq(Bytes)
         /\ Len(b \o LzCopy(b, from, n)) = Len(b) + n
<1> DEFINE c == LzCopy(b, from, n)
<1>1. c \in Seq(Bytes) /\ Len(c) = n
  BY LzCopyBytes
<1> HIDE DEF c
<1>2. b \o c \in Seq(Bytes) /\ Len(b \o c) = Len(b) + n
  BY <1>1, ConcatBytes
<1> QED BY <1>2 DEF c

LEMMA InitHolds == Init => IInv
<1> SUFFICES ASSUME Init PROVE IInv
  OBVIOUS
<1>1. arch \in Archive
  BY ArchiveAssumption DEF Init
<1>2. arch.blocks \in Seq(Block)
  BY <1>1 DEF Archive
<1> QED BY <1>1, <1>2 DEF Init, IInv, TypeOK, Whole

(* Steps that only move the control, out of any loop of the block.         *)
LEMMA Stops ==
  ASSUME IInv, UNCHANGED <<blockVars, buildVars, sinkVars>>, pc' \in {"done", "failed"},
         error' \in {"none", "container", "baddata", "digest"}
  PROVE  IInv'
  BY DEF IInv, TypeOK, Whole, blockVars, buildVars, sinkVars, outPos, CurrentBlock, Literals

LEMMA NextHolds == IInv /\ [Next]_vars => IInv'
<1> SUFFICES ASSUME IInv, [Next]_vars PROVE IInv'
  OBVIOUS
<1>1. CASE ReadBlock
  <2>1. block < Len(arch.blocks) /\ arch.blocks \in Seq(Block)
    BY <1>1 DEF ReadBlock, AtEnd, IInv, TypeOK, Archive
  <2>2. CurrentBlock.size \in Nat /\ Literals \in Seq(Bytes)
    BY <2>1, BlockType DEF IInv, TypeOK
  <2>3. CurrentBlock' = CurrentBlock /\ Literals' = Literals
    BY <1>1 DEF ReadBlock, blockVars, CurrentBlock, Literals
  <2> QED BY <1>1, <2>1, <2>2, <2>3
        DEF ReadBlock, IInv, TypeOK, Whole, blockVars, sinkVars, outPos
<1>2. CASE Truncated \/ RejectBase \/ RejectRecord \/ RejectLiterals \/ RejectDigest
  BY <1>2, Stops DEF Truncated, RejectBase, RejectRecord, RejectLiterals, RejectDigest, Fail
<1>3. CASE Finish
  BY <1>3, Stops DEF Finish, IInv, TypeOK
<1>4. CASE CopyRecord
  <2> DEFINE lits == Part(Literals, inPos, ThisRecord.lit)
             far  == Part(sink, Source, FromSink)
             buf  == outBuf \o lits \o far
  <2>1. pc = "records" /\ st <= Len(CurrentBlock.recs) /\ L1 # 0 /\ RecordFits
    BY <1>4 DEF CopyRecord, MoreRecords
  <2>2. /\ ThisRecord.lit \in Nat /\ mlen \in Nat /\ Source \in Int
        /\ CurrentBlock.size \in Nat /\ Literals \in Seq(Bytes)
    BY <2>1, RecordType, BlockType DEF IInv, TypeOK
  <2>3. /\ blockStart \in Nat /\ inPos \in Nat /\ outBuf \in Seq(Bytes) /\ sink \in Seq(Bytes)
    BY DEF IInv, TypeOK
  <2>4. FromSink \in 0 .. mlen
    BY <2>2, <2>3 DEF FromSink
  <2>5. lits \in Seq(Bytes) /\ Len(lits) = ThisRecord.lit
    BY <2>2, <2>3, PartBytes
  <2>6. far \in Seq(Bytes) /\ Len(far) = FromSink
    BY <2>2, <2>3, <2>4, PartBytes
  <2>7. outBuf' = buf \o LzCopy(buf, Source + FromSink - blockStart, mlen - FromSink)
    BY <1>4 DEF CopyRecord
  <2>8. outBuf' \in Seq(Bytes) /\ Len(outBuf') = outPos + ThisRecord.lit + mlen
    <3> HIDE DEF lits, far
    <3>1. mlen - FromSink \in Nat /\ Source + FromSink - blockStart \in Int
      BY <2>2, <2>3, <2>4
    <3>2. buf \in Seq(Bytes) /\ Len(buf) = Len(outBuf) + Len(lits) + Len(far)
      <4>1. outBuf \o lits \in Seq(Bytes) /\ Len(outBuf \o lits) = Len(outBuf) + Len(lits)
        BY <2>3, <2>5, ConcatBytes
      <4> QED BY <4>1, <2>6, ConcatBytes
    <3> HIDE DEF buf
    <3>3. outBuf' \in Seq(Bytes) /\ Len(outBuf') = Len(buf) + (mlen - FromSink)
      BY <2>7, <3>1, <3>2, RecordBuilds
    <3> QED BY <2>2, <2>3, <2>4, <2>5, <2>6, <3>2, <3>3 DEF outPos
  <2>9. Len(outBuf') <= CurrentBlock.size /\ inPos + ThisRecord.lit <= Len(Literals)
    <3> HIDE DEF lits, far, buf
    <3>1. /\ ThisRecord.lit <= Len(Literals) - inPos
          /\ ThisRecord.lit + mlen <= CurrentBlock.size - outPos
      BY <2>1 DEF RecordFits
    <3>2. outPos \in Nat /\ Len(Literals) \in Nat
      BY <2>2, <2>3 DEF outPos
    <3>3. Len(outBuf') = outPos + ThisRecord.lit + mlen
      BY <2>8
    <3>4. \A a, b, c, d \in Nat : a + b <= c - d => d + a + b <= c
      OBVIOUS
    <3>5. \A a, b, c \in Nat : a <= b - c => c + a <= b
      OBVIOUS
    <3> QED BY <2>2, <2>3, <3>1, <3>2, <3>3, <3>4, <3>5
  <2>10. /\ inPos' = inPos + ThisRecord.lit /\ st' = st + 1
         /\ UNCHANGED <<pc, error, blockVars, sink>> /\ sinkPos' \in Nat
    <3>1. Source + FromSink \in Nat
      BY <2>1, <2>2, <2>4 DEF RecordFits
    <3> QED BY <1>4, <3>1 DEF CopyRecord, IInv, TypeOK
  <2>11. CurrentBlock' = CurrentBlock /\ Literals' = Literals
    BY <2>10 DEF blockVars, CurrentBlock, Literals
  <2>12. Whole'
    BY <2>1, <2>10 DEF Whole
  <2>13. inPos' \in Nat /\ inPos' <= Len(Literals')
    BY <2>2, <2>3, <2>9, <2>10, <2>11
  <2>14. outBuf' \in Seq(Bytes) /\ outPos' <= CurrentBlock'.size
    BY <2>8, <2>9, <2>11 DEF outPos
  <2>15. UNCHANGED <<arch, block, blockStart, pc, error, sink>> /\ st' = st + 1 /\ sinkPos' \in Nat
    BY <2>10 DEF blockVars
  <2> QED BY <2>12, <2>13, <2>14, <2>15 DEF IInv, TypeOK
<1>5. CASE FillTail
  <2> DEFINE rest == Len(Literals) - inPos
  <2>1. pc = "records" /\ rest = CurrentBlock.size - outPos
    BY <1>5 DEF FillTail, NoMoreRecords, LiteralsFill
  <2>2. /\ CurrentBlock.size \in Nat /\ Literals \in Seq(Bytes)
        /\ inPos \in Nat /\ outBuf \in Seq(Bytes) /\ inPos <= Len(Literals)
    BY <2>1, BlockType DEF IInv, TypeOK
  <2>3. Part(Literals, inPos, rest) \in Seq(Bytes) /\ Len(Part(Literals, inPos, rest)) = rest
    BY <2>2, PartBytes
  <2>4. outBuf' \in Seq(Bytes) /\ Len(outBuf') = outPos + rest
    BY <1>5, <2>2, <2>3, ConcatBytes DEF FillTail, outPos
  <2>5. CurrentBlock' = CurrentBlock /\ Literals' = Literals
    BY <1>5 DEF FillTail, blockVars, CurrentBlock, Literals
  <2> QED BY <1>5, <2>1, <2>2, <2>4, <2>5
        DEF FillTail, IInv, TypeOK, Whole, blockVars, sinkVars, outPos
<1>6. CASE WriteBlock
  <2>1. /\ pc = "verify" /\ outPos = CurrentBlock.size /\ CurrentBlock.size \in Nat
        /\ outBuf \in Seq(Bytes) /\ sink \in Seq(Bytes) /\ blockStart \in Nat
        /\ Len(sink) = blockStart
    BY <1>6, BlockType DEF WriteBlock, IInv, TypeOK, Whole
  <2>2. sink' \in Seq(Bytes)
    BY <1>6, <2>1, WriteAtBytes DEF WriteBlock
  <2>3. Len(sink') = blockStart + Len(outBuf)
    BY <1>6, <2>1, WriteAtLength DEF WriteBlock
  <2> QED BY <1>6, <2>1, <2>2, <2>3
        DEF WriteBlock, IInv, TypeOK, Whole, buildVars, outPos
<1>7. CASE Stopped \/ UNCHANGED vars
  BY <1>7 DEF Stopped, vars, blockVars, buildVars, sinkVars, IInv, TypeOK, Whole, outPos,
              CurrentBlock, Literals
<1> QED BY <1>1, <1>2, <1>3, <1>4, <1>5, <1>6, <1>7 DEF Next

(* The decoder never leaves its types, whatever is in the archive: what it *)
(* builds never passes the size of the block, what it uses never passes    *)
(* the literals there are (decompress_block's checks), and each block is   *)
(* written just behind the last.                                           *)
THEOREM TypeCorrect == Spec => []TypeOK
<1>1. Spec => []IInv
  BY InitHolds, NextHolds, PTL DEF Spec
<1> QED BY <1>1, PTL DEF IInv

-----------------------------------------------------------------------------
(* With digests, what is written is the beginning of the file.             *)

(* The block written next starts where its piece of the file starts, and   *)
(* all before it is written.                                               *)
Begun(at) ==
  /\ DigestsOf(arch, at) /\ arch.verified
  /\ blockStart = at[block + 1]
  /\ sink = SubSeq(arch.file, 1, blockStart)

Agreeing == \E at : Begun(at)

VerifiedArchives == \A a \in Archives : a.verified /\ \E at : DigestsOf(a, at)

LEMMA AgreesFirst == ASSUME VerifiedArchives PROVE Init => Agreeing
<1> SUFFICES ASSUME Init PROVE Agreeing
  OBVIOUS
<1>1. PICK at : DigestsOf(arch, at)
  BY DEF Init, VerifiedArchives
<1>2. at[1] = 0 /\ arch.verified
  BY <1>1 DEF Init, DigestsOf, PiecesAt, VerifiedArchives
<1>3. arch.file \in Seq(Bytes)
  BY ArchiveAssumption DEF Init, Archive
<1>4. SubSeq(arch.file, 1, 0) = <<>>
  BY <1>3
<1> QED BY <1>1, <1>2, <1>4 DEF Init, Agreeing, Begun

(* The one step that writes appends the next piece of the file.            *)
LEMMA WritesPiece ==
  ASSUME IInv, NEW at, Begun(at), WriteBlock
  PROVE  /\ Begun(at)'
         /\ blockStart' \in blockStart .. Len(arch.file)
         /\ sink' = SubSeq(arch.file, 1, blockStart')
<1> DEFINE b == block + 1
           n == Len(arch.blocks)
           d == CurrentBlock.digest
           piece == SubSeq(arch.file, at[b] + 1, at[b + 1])
<1>1. /\ arch \in Archive /\ block \in Nat /\ block < n /\ n \in Nat /\ blockStart \in Nat
      /\ outBuf \in Seq(Bytes) /\ sink \in Seq(Bytes) /\ Len(sink) = blockStart
      /\ Len(outBuf) = CurrentBlock.size
  BY DEF IInv, TypeOK, Whole, WriteBlock, outPos, Archive
<1>2. b \in 1 .. n /\ DOMAIN arch.blocks = 1 .. n /\ arch.file \in Seq(Bytes)
  BY <1>1 DEF Archive
<1>3. /\ at[b] \in 0 .. Len(arch.file) /\ at[b + 1] \in 0 .. Len(arch.file)
      /\ at[b] <= at[b + 1]
      /\ d = piece \/ Len(d) # CurrentBlock.size
  <2>1. PiecesAt(at, arch)
    BY DEF Begun, DigestsOf
  <2>2. at \in [1 .. n + 1 -> 0 .. Len(arch.file)] /\ b \in 1 .. n + 1 /\ b + 1 \in 1 .. n + 1
    BY <1>1, <1>2, <2>1 DEF PiecesAt
  <2> QED BY <1>2, <2>1, <2>2 DEF PiecesAt, CurrentBlock
<1>4. outBuf = d
  BY DEF WriteBlock, DigestAgrees, Begun
<1>5. d = piece
  BY <1>1, <1>3, <1>4
<1>6. blockStart = at[b] /\ sink = SubSeq(arch.file, 1, at[b])
  BY DEF Begun
<1> HIDE DEF d
<1>7. at[b] \in Nat /\ at[b + 1] \in Nat /\ at[b + 1] <= Len(arch.file)
  BY <1>2, <1>3
<1>8. /\ sink \o piece = SubSeq(arch.file, 1, at[b + 1])
      /\ Len(piece) = at[b + 1] - at[b]
  BY <1>2, <1>3, <1>6, <1>7, BeginningGrows
<1>9. sink' = sink \o piece
  BY <1>1, <1>4, <1>5, WriteAtEnd DEF WriteBlock
<1>10. blockStart' = at[b + 1] /\ block' = b /\ arch' = arch
  <2>1. blockStart' = at[b] + Len(piece) /\ block' = b /\ arch' = arch
    BY <1>1, <1>4, <1>5, <1>6 DEF WriteBlock
  <2> QED BY <2>1, <1>7, <1>8
<1>11. DigestsOf(arch, at)' /\ arch.verified'
  BY <1>10 DEF Begun
<1>12. /\ blockStart' \in blockStart .. Len(arch.file)
       /\ sink' = SubSeq(arch.file, 1, blockStart')
       /\ blockStart' = at[block' + 1]
  <2> HIDE DEF b, piece, n
  <2>1. blockStart' \in blockStart .. Len(arch.file)
    BY <1>3, <1>6, <1>7, <1>10
  <2>2. sink' = SubSeq(arch.file, 1, blockStart')
    BY <1>6, <1>8, <1>9, <1>10
  <2>3. blockStart' = at[block' + 1]
    BY <1>10
  <2> QED BY <2>1, <2>2, <2>3
<1> QED BY <1>10, <1>11, <1>12 DEF Begun

(* Every other step leaves what is written alone.                          *)
LEMMA OthersWriteNothing ==
  ASSUME [Next]_vars, ~ WriteBlock
  PROVE  UNCHANGED <<blockVars, sink>>
  BY DEF Next, vars, blockVars, sinkVars, ReadBlock, Truncated, Finish, RejectBase,
         RejectRecord, CopyRecord, RejectLiterals, FillTail, RejectDigest, Stopped, Fail

LEMMA AgreesOn == IInv /\ Agreeing /\ [Next]_vars => Agreeing'
<1> SUFFICES ASSUME IInv, Agreeing, [Next]_vars PROVE Agreeing'
  OBVIOUS
<1>1. PICK at : Begun(at)
  BY DEF Agreeing
<1>2. CASE WriteBlock
  BY <1>1, <1>2, WritesPiece DEF Agreeing
<1>3. CASE ~ WriteBlock
  BY <1>1, <1>3, OthersWriteNothing DEF Agreeing, Begun, blockVars
<1> QED BY <1>2, <1>3

LEMMA AlwaysAgrees ==
  ASSUME VerifiedArchives PROVE Spec => [](IInv /\ Agreeing)
<1> QED BY AgreesFirst, AgreesOn, InitHolds, NextHolds, PTL DEF Spec

(* Success is only reported at the end of what the archive holds.          *)
LEMMA FinishesWhole ==
  ASSUME IInv, Agreeing, Finish, arch.intact
  PROVE  sink = arch.file
<1>1. PICK at : Begun(at)
  BY DEF Agreeing
<1>2. /\ arch \in Archive /\ block \in 0 .. Len(arch.blocks) /\ Len(arch.blocks) \in Nat
  BY DEF IInv, TypeOK, Archive
<1>3. block = Len(arch.blocks)
  <2>1. CASE AtEnd
    BY <2>1 DEF AtEnd
  <2>2. CASE ~ AtEnd
    <3>1. block + 1 \in DOMAIN arch.blocks
      BY <1>2, <2>2 DEF AtEnd, Archive
    <3>2. Closes(arch.blocks[block + 1])
      BY <2>2 DEF Finish, CurrentBlock
    <3> QED BY <1>1, <3>1, <3>2 DEF Begun, DigestsOf
  <2> QED BY <2>1, <2>2
<1>4. blockStart = Len(arch.file)
  BY <1>1, <1>3 DEF Begun, DigestsOf, AllPieces
<1>5. arch.file \in Seq(Bytes)
  BY <1>2 DEF Archive
<1>6. SubSeq(arch.file, 1, Len(arch.file)) = arch.file
  BY <1>5
<1> QED BY <1>1, <1>4, <1>6 DEF Begun

(* The decoder implements BlockDecoder's steps when every archive has its  *)
(* digests, whatever is damaged in the blocks, their order excepted: the   *)
(* file grows by whole pieces of the original, and an undamaged archive is *)
(* not reported done before all of it is written.                          *)
THEOREM StepsPromised ==
  ASSUME VerifiedArchives
  PROVE  Spec => Promise!InitDecode /\ [][Promise!Next]_(Promise!vars)
<1>1. Init => Promise!InitDecode
  BY DEF Init, Promise!InitDecode
<1>2. IInv /\ Agreeing /\ [Next]_vars => [Promise!Next]_(Promise!vars)
  <2> SUFFICES ASSUME IInv, Agreeing, [Next]_vars PROVE [Promise!Next]_(Promise!vars)
    OBVIOUS
  <2>1. CASE WriteBlock
    <3>1. PICK at : Begun(at)
      BY DEF Agreeing
    <3>2. /\ blockStart' \in blockStart .. Len(arch.file)
          /\ sink' = SubSeq(arch.file, 1, blockStart')
      BY <2>1, <3>1, WritesPiece
    <3>3. Len(sink) = blockStart
      BY DEF IInv, TypeOK
    <3>4. pc = "verify" /\ pc' = "block" /\ arch' = arch
      BY <2>1 DEF WriteBlock
    <3>5. Promise!Deliver
      BY <3>2, <3>3, <3>4 DEF Promise!Deliver
    <3> QED BY <3>5 DEF Promise!Next
  <2>2. CASE Finish
    <3>1. pc = "block" /\ pc' = "done" /\ UNCHANGED <<arch, sink>>
      BY <2>2 DEF Finish, blockVars, sinkVars
    <3>2. arch.intact => sink = arch.file
      BY <2>2, FinishesWhole
    <3>3. Promise!Succeed
      BY <3>1, <3>2 DEF Promise!Succeed
    <3> QED BY <3>3 DEF Promise!Next
  <2>3. CASE Truncated \/ RejectBase \/ RejectRecord \/ RejectLiterals \/ RejectDigest
    <3>1. pc \notin {"done", "failed"} /\ pc' = "failed" /\ UNCHANGED <<arch, sink>>
      BY <2>3 DEF Truncated, RejectBase, RejectRecord, RejectLiterals, RejectDigest, Fail,
                  MoreRecords, NoMoreRecords, blockVars, sinkVars
    <3>2. Promise!GiveUp
      BY <3>1 DEF Promise!GiveUp
    <3> QED BY <3>2 DEF Promise!Next
  <2>4. CASE ReadBlock \/ CopyRecord \/ FillTail \/ Stopped \/ UNCHANGED vars
    <3>1. /\ UNCHANGED <<arch, sink>>
          /\ pc' = pc \/ (pc \notin {"done", "failed"} /\ pc' \notin {"done", "failed"})
      BY <2>4 DEF ReadBlock, CopyRecord, FillTail, Stopped, vars, blockVars, sinkVars,
                  MoreRecords, NoMoreRecords
    <3> QED BY <3>1 DEF Promise!vars
  <2> QED BY <2>1, <2>2, <2>3, <2>4 DEF Next
<1> QED BY <1>1, <1>2, AlwaysAgrees, PTL DEF Spec
-----------------------------------------------------------------------------
(* An intact archive: every step but the end follows the file.             *)

IntactArchives ==
  \A a \in Archives : a.intact => \E at, end, used : Makes(a, at, end, used)

(* Where the decoder is in the archive is where the file says: what it has *)
(* built and what it has used is what the records so far make.             *)
Rebuilt(at, end, used) ==
  /\ Makes(arch, at, end, used)
  /\ pc # "failed"
  /\ blockStart = at[block + 1] /\ Follows(arch.file, 0, sink)
  /\ pc = "records" =>
       /\ st <= Len(CurrentBlock.recs) + 1
       /\ inPos = used[block + 1][st - 1] /\ blockStart + outPos = end[block + 1][st - 1]
  /\ pc \in {"records", "verify"} => Follows(arch.file, blockStart, outBuf)
  /\ pc = "done" => sink = arch.file

IntactRebuilt == arch.intact => \E at, end, used : Rebuilt(at, end, used)

LEMMA RebuiltFirst == ASSUME IntactArchives PROVE Init => IntactRebuilt
<1> SUFFICES ASSUME Init, arch.intact PROVE \E at, end, used : Rebuilt(at, end, used)
  BY DEF IntactRebuilt
<1>1. PICK at, end, used : Makes(arch, at, end, used)
  BY DEF Init, IntactArchives
<1>2. at[1] = 0
  BY <1>1 DEF Makes
<1>3. Follows(arch.file, 0, <<>>)
  BY DEF Follows
<1>4. Rebuilt(at, end, used)
  BY <1>1, <1>2, <1>3 DEF Init, Rebuilt
<1> QED BY <1>4

(* What the current block makes.                                           *)
LEMMA BlockMade ==
  ASSUME IInv, NEW at, NEW end, NEW used, Rebuilt(at, end, used), block < Len(arch.blocks)
  PROVE  LET b == block + 1
             n == Len(CurrentBlock.recs)
             rest == Len(Literals) - used[b][n]
         IN  /\ b \in 1 .. Len(arch.blocks) /\ arch.file \in Seq(Bytes)
             /\ n \in Nat /\ ~ Closes(CurrentBlock)
             /\ at[b] = blockStart /\ at[b + 1] = blockStart + CurrentBlock.size
             /\ at[b + 1] \in 0 .. Len(arch.file)
             /\ arch.verified => CurrentBlock.digest = Part(arch.file, blockStart, CurrentBlock.size)
             /\ end[b] \in [0 .. n -> at[b] .. at[b + 1]] /\ end[b][0] = blockStart
             /\ used[b] \in [0 .. n -> 0 .. Len(Literals)] /\ used[b][0] = 0
             /\ \A k \in 1 .. n : RecordMakes(arch, b, k, end, used)
             /\ end[b][n] + rest = at[b + 1]
             /\ Part(Literals, used[b][n], rest) = Part(arch.file, end[b][n], rest)
<1>1. /\ arch \in Archive /\ block \in Nat /\ Len(arch.blocks) \in Nat /\ arch.file \in Seq(Bytes)
      /\ DOMAIN arch.blocks = 1 .. Len(arch.blocks)
  BY DEF IInv, TypeOK, Archive
<1>2. block + 1 \in 1 .. Len(arch.blocks)
  BY <1>1
<1>3. BlockMakes(arch, block + 1, at, end, used)
  BY <1>1, <1>2 DEF Rebuilt, Makes
<1>4. Len(CurrentBlock.recs) \in Nat
  BY <1>1, BlockType
<1>5. at[(block + 1) + 1] \in 0 .. Len(arch.file) /\ at[block + 1] = blockStart
  <2>1. (block + 1) + 1 \in 1 .. Len(arch.blocks) + 1
    BY <1>2
  <2> QED BY <2>1 DEF Rebuilt, Makes
<1> QED BY <1>1, <1>2, <1>3, <1>4, <1>5 DEF BlockMakes, CurrentBlock, Literals

(* What the next record makes is what the decoder reads in it.             *)
LEMMA RecordMade ==
  ASSUME IInv, NEW at, NEW end, NEW used, Rebuilt(at, end, used),
         pc = "records", st <= Len(CurrentBlock.recs)
  PROVE  /\ L1 # 0 /\ RecordFits
         /\ dest \in Nat /\ Source \in Nat /\ Source < dest
         /\ used[block + 1][st] = inPos + ThisRecord.lit
         /\ end[block + 1][st] = dest + mlen
         /\ Part(Literals, inPos, ThisRecord.lit) = Part(arch.file, blockStart + outPos, ThisRecord.lit)
         /\ Part(arch.file, Source, mlen) = Part(arch.file, dest, mlen)
<1> DEFINE b == block + 1
           n == Len(CurrentBlock.recs)
           r == ThisRecord
           m == Decoded(arch.version = 1, arch.base, r, end[b][st - 1])
<1>1. /\ block < Len(arch.blocks) /\ block \in Nat /\ blockStart \in Nat /\ st \in Nat \ {0}
      /\ inPos \in Nat /\ outPos \in Nat /\ arch \in Archive /\ arch.base \in Nat
  BY DEF IInv, TypeOK, outPos, Archive
<1>2. /\ n \in Nat /\ \A k \in 1 .. n : RecordMakes(arch, b, k, end, used)
      /\ end[b] \in [0 .. n -> at[b] .. at[b + 1]] /\ at[b] = blockStart
      /\ at[b + 1] = blockStart + CurrentBlock.size
      /\ used[b] \in [0 .. n -> 0 .. Len(Literals)]
  BY <1>1, BlockMade
<1>3. st \in 1 .. n /\ st - 1 \in 0 .. n /\ st \in 0 .. n
  BY <1>1, <1>2
<1>4. RecordMakes(arch, b, st, end, used)
  BY <1>2, <1>3
<1>5. arch.blocks[b].recs[st] = r /\ arch.blocks[b].lits = Literals
  BY DEF ThisRecord, CurrentBlock, Literals
<1>6. inPos = used[b][st - 1] /\ blockStart + outPos = end[b][st - 1]
  BY DEF Rebuilt
<1>7. L1 # 0 /\ L1 \in Nat /\ Unit(arch.version = 1, arch.base) = L1
  <2>1. arch.version = 1 => arch.base # 0
    BY DEF Rebuilt, Makes
  <2> QED BY <2>1, <1>1 DEF L1, Unit
<1>8. /\ r.lit \in Nat /\ mlen \in Nat /\ Source \in Int /\ CurrentBlock.size \in Nat
      /\ Literals \in Seq(Bytes)
  BY <1>1, <1>7, RecordType, BlockType
<1>9. m.dest = dest /\ m.len = mlen /\ m.src = Source
  <2>1. dest = end[b][st - 1] + r.lit
    BY <1>6 DEF dest
  <2> QED BY <1>7, <2>1 DEF Decoded, mlen, Source
<1> HIDE DEF m
<1>10. /\ used[b][st] = inPos + r.lit /\ end[b][st] = dest + mlen
       /\ Part(Literals, inPos, r.lit) = Part(arch.file, blockStart + outPos, r.lit)
       /\ 0 <= Source /\ Source < dest /\ Part(arch.file, Source, mlen) = Part(arch.file, dest, mlen)
  BY <1>4, <1>5, <1>6, <1>9 DEF RecordMakes, m
<1>11. dest \in Nat /\ dest = blockStart + outPos + r.lit
  BY <1>1, <1>8 DEF dest
<1>12. inPos + r.lit <= Len(Literals) /\ dest + mlen <= blockStart + CurrentBlock.size
  <2>1. used[b][st] \in 0 .. Len(Literals) /\ end[b][st] \in at[b] .. at[b + 1]
    BY <1>2, <1>3
  <2> QED BY <2>1, <1>2, <1>10
<1>13. RecordFits
  <2>1. r.lit <= Len(Literals) - inPos /\ Len(Literals) \in Nat
    BY <1>1, <1>8, <1>12
  <2>2. r.lit + mlen <= CurrentBlock.size - outPos
    <3>1. \A a, x, l, m1, z \in Nat : (a + x + l) + m1 <= a + z => l + m1 <= z - x
      OBVIOUS
    <3> QED BY <3>1, <1>1, <1>8, <1>11, <1>12
  <2> QED BY <2>1, <2>2, <1>10 DEF RecordFits
<1> QED BY <1>7, <1>8, <1>10, <1>11, <1>13

(* Literals and match, from the output, from the block or from both, are   *)
(* the bytes of the file that come next.                                   *)
LEMMA CopyFollows ==
  ASSUME NEW f \in Seq(Bytes), NEW base \in Nat, NEW out, Follows(f, base, out),
         NEW done \in Seq(Bytes), Follows(f, 0, done), Len(done) = base,
         NEW src \in Nat, NEW n \in Nat, NEW len \in Nat, n <= len,
         src < After(base, out), n > 0 => src + n <= base,
         n < len => src + n >= base,
         Part(f, src, len) = Part(f, After(base, out), len)
  PROVE  LET buf == out \o Part(done, src, n)
         IN  Follows(f, base, buf \o LzCopy(buf, src + n - base, len - n))
<1> DEFINE d == After(base, out)
           far == Part(done, src, n)
           buf == out \o far
           from == src + n - base
<1>1. d \in Nat /\ d = base + Len(out) /\ Len(out) \in Nat
  BY DEF Follows, After
<1> HIDE DEF d
<1>2. \A i \in 1 .. len : ByteAt(f, src + i) = ByteAt(f, d + i)
  BY <1>1, PartsEqual DEF d
<1>3. \A i \in 1 .. n : ByteAt(done, src + i) = ByteAt(f, d + i)
  <2> SUFFICES ASSUME NEW i \in 1 .. n PROVE ByteAt(done, src + i) = ByteAt(f, d + i)
    OBVIOUS
  <2>1. src + i \in 1 .. Len(done) /\ i \in 1 .. len
    OBVIOUS
  <2>2. done[src + i] = ByteAt(f, 0 + (src + i))
    BY <2>1 DEF Follows
  <2>3. ByteAt(done, src + i) = done[src + i]
    BY <2>1 DEF ByteAt
  <2> QED BY <1>2, <2>1, <2>2, <2>3
<1>4. Part(done, src, n) = Part(f, d, n)
  BY <1>3 DEF Part
<1>5. Follows(f, base, buf) /\ Len(buf) = Len(out) + n
  BY <1>4, FollowsPart DEF d
<1> HIDE DEF buf, far
<1>6. CASE n = len
  <2>1. LzCopy(buf, from, len - n) = <<>>
    BY <1>6 DEF LzCopy
  <2>2. buf \o <<>> = buf
    BY <1>5 DEF Follows
  <2> QED BY <2>1, <2>2, <1>5 DEF buf, far
<1>7. CASE n < len
  <2>1. from \in 0 .. Len(buf) - 1
    BY <1>1, <1>5, <1>7 DEF d
  <2>2. ASSUME NEW i \in 1 .. len - n
        PROVE  ByteAt(f, (base + from) + i) = ByteAt(f, After(base, buf) + i)
    <3>1. n + i \in 1 .. len
      OBVIOUS
    <3>2. src + (n + i) = (base + from) + i /\ d + (n + i) = After(base, buf) + i
      BY <1>1, <1>5 DEF After
    <3>3. ByteAt(f, src + (n + i)) = ByteAt(f, d + (n + i))
      BY <3>1, <1>2
    <3> QED BY <3>2, <3>3
  <2>3. len - n \in Nat
    BY <1>7
  <2> HIDE DEF from
  <2>4. Follows(f, base, buf \o LzCopy(buf, from, len - n))
    BY <1>5, <2>1, <2>2, <2>3, FollowsCopy
  <2> QED BY <2>4 DEF from, buf, far
<1> QED BY <1>6, <1>7

LEMMA CopyMakes ==
  ASSUME IInv, NEW at, NEW end, NEW used, Rebuilt(at, end, used), CopyRecord
  PROVE  Follows(arch.file, blockStart, outBuf') /\ blockStart + Len(outBuf') = dest + mlen
<1> DEFINE f    == arch.file
           lit  == ThisRecord.lit
           n    == FromSink
           some == outBuf \o Part(Literals, inPos, lit)
           buf  == some \o Part(sink, Source, n)
<1>1. /\ pc = "records" /\ st <= Len(CurrentBlock.recs)
      /\ outBuf' = buf \o LzCopy(buf, Source + n - blockStart, mlen - n)
  BY DEF CopyRecord, MoreRecords
<1>2. /\ blockStart \in Nat /\ outPos \in Nat /\ outBuf \in Seq(Bytes) /\ f \in Seq(Bytes)
      /\ lit \in Nat /\ mlen \in Nat /\ sink \in Seq(Bytes) /\ Literals \in Seq(Bytes)
      /\ inPos \in Nat /\ Len(sink) = blockStart
  BY <1>1, RecordType, BlockType DEF IInv, TypeOK, outPos, Archive
<1>3. /\ Source \in Nat /\ Source < dest /\ dest = blockStart + outPos + lit /\ dest \in Nat
  BY <1>1, RecordMade DEF dest
<1>4. /\ n \in Nat /\ n <= mlen /\ (n > 0 => Source + n <= blockStart)
      /\ (n < mlen => Source + n >= blockStart)
  BY <1>2, <1>3 DEF FromSink
<1>5. Follows(f, blockStart, outBuf) /\ Follows(f, 0, sink)
  BY <1>1 DEF Rebuilt
<1>6. After(blockStart, outBuf) = blockStart + outPos
  BY DEF After, outPos
<1>7. Part(Literals, inPos, lit) = Part(f, After(blockStart, outBuf), lit)
  BY <1>1, <1>6, RecordMade
<1>8. Part(f, Source, mlen) = Part(f, dest, mlen)
  BY <1>1, RecordMade
<1> HIDE DEF f, n, lit
<1>9. Follows(f, blockStart, some) /\ Len(some) = Len(outBuf) + lit
  BY <1>2, <1>5, <1>7, FollowsPart
<1> HIDE DEF some
<1>10. After(blockStart, some) = dest
  <2>1. Len(some) = outPos + lit
    BY <1>9 DEF outPos
  <2> QED BY <2>1, <1>2, <1>3 DEF After
<1>11. Follows(f, blockStart, buf \o LzCopy(buf, Source + n - blockStart, mlen - n))
  BY <1>2, <1>3, <1>4, <1>5, <1>8, <1>9, <1>10, CopyFollows
<1>12. Len(outBuf') = Len(some) + mlen
  <2> DEFINE far == Part(sink, Source, n)
             from == Source + n - blockStart
  <2>1. far \in Seq(Bytes) /\ Len(far) = n
    BY <1>2, <1>3, <1>4, PartBytes
  <2>2. some \in Seq(Bytes)
    BY <1>9 DEF Follows
  <2>3. from \in Int /\ mlen - n \in Nat
    BY <1>2, <1>3, <1>4
  <2> HIDE DEF far, from
  <2>4. some \o far \in Seq(Bytes) /\ Len(some \o far) = Len(some) + n
    BY <2>1, <2>2, ConcatBytes
  <2> DEFINE g == some \o far
  <2> HIDE DEF g
  <2>5. Len(g \o LzCopy(g, from, mlen - n)) = Len(g) + (mlen - n)
    BY <2>3, <2>4, RecordBuilds DEF g
  <2>6. outBuf' = g \o LzCopy(g, from, mlen - n)
    BY <1>1 DEF g, far, from
  <2>7. Len(some) \in Nat /\ Len(g) = Len(some) + n
    BY <2>2, <2>4 DEF g
  <2>8. Len(outBuf') = (Len(some) + n) + (mlen - n)
    BY <2>5, <2>6, <2>7
  <2> QED BY <2>7, <2>8, <1>2, <1>4
<1>13. blockStart + Len(outBuf') = dest + mlen
  BY <1>2, <1>3, <1>9, <1>10, <1>12 DEF After, outPos
<1> QED BY <1>1, <1>11, <1>13 DEF f

(* The literals after the last record are the rest of the block, and the   *)
(* block is then the one that was digested.                                *)
LEMMA TailMakes ==
  ASSUME IInv, NEW at, NEW end, NEW used, Rebuilt(at, end, used), NoMoreRecords
  PROVE  LiteralsFill /\ (FillTail => Follows(arch.file, blockStart, outBuf'))
<1> DEFINE b == block + 1
           n == Len(CurrentBlock.recs)
           rest == Len(Literals) - inPos
<1>1. /\ pc = "records" /\ block < Len(arch.blocks) /\ st \in Nat \ {0} /\ inPos \in Nat
      /\ outPos \in Nat /\ blockStart \in Nat /\ block \in Nat /\ inPos <= Len(Literals)
  BY DEF NoMoreRecords, IInv, TypeOK, outPos
<1>2. n \in Nat /\ arch.file \in Seq(Bytes)
  BY <1>1, BlockMade
<1>3. Literals \in Seq(Bytes) /\ CurrentBlock.size \in Nat
  BY <1>1, BlockType DEF IInv, TypeOK
<1>4. st > n /\ st <= n + 1
  BY <1>1 DEF NoMoreRecords, Rebuilt
<1>5. st - 1 = n
  BY <1>1, <1>2, <1>4
<1>6. inPos = used[b][n] /\ blockStart + outPos = end[b][n]
  BY <1>1, <1>5 DEF Rebuilt
<1>7. /\ end[b][n] + (Len(Literals) - used[b][n]) = at[b + 1]
      /\ at[b + 1] = blockStart + CurrentBlock.size
      /\ Part(Literals, used[b][n], Len(Literals) - used[b][n])
           = Part(arch.file, end[b][n], Len(Literals) - used[b][n])
  BY <1>1, BlockMade
<1>8. (blockStart + outPos) + rest = blockStart + CurrentBlock.size
  BY <1>6, <1>7
<1>9. LiteralsFill
  BY <1>1, <1>3, <1>8 DEF LiteralsFill
<1>10. ASSUME FillTail PROVE Follows(arch.file, blockStart, outBuf')
  <2>1. outBuf' = outBuf \o Part(Literals, inPos, rest)
    BY <1>10 DEF FillTail
  <2>2. After(blockStart, outBuf) = blockStart + outPos
    BY DEF After, outPos
  <2>3. Part(Literals, inPos, rest) = Part(arch.file, After(blockStart, outBuf), rest)
    BY <1>6, <1>7, <2>2
  <2>4. Follows(arch.file, blockStart, outBuf)
    BY <1>1 DEF Rebuilt
  <2>5. rest \in Nat
    BY <1>1, <1>3
  <2> HIDE DEF rest
  <2>6. Follows(arch.file, blockStart, outBuf \o Part(Literals, inPos, rest))
    BY <1>1, <1>2, <1>3, <2>3, <2>4, <2>5, FollowsPart
  <2> QED BY <2>1, <2>6
<1> QED BY <1>9, <1>10

LEMMA DigestMade ==
  ASSUME IInv, NEW at, NEW end, NEW used, Rebuilt(at, end, used), pc = "verify"
  PROVE  DigestAgrees
<1> SUFFICES ASSUME arch.verified PROVE outBuf = CurrentBlock.digest
  BY DEF DigestAgrees
<1> DEFINE d == CurrentBlock.digest
           size == CurrentBlock.size
<1>1. block < Len(arch.blocks) /\ block \in Nat
  BY DEF IInv, TypeOK
<1>2. d = Part(arch.file, blockStart, size)
  BY <1>1, BlockMade
<1>3. Len(outBuf) = size /\ size \in Nat
  BY <1>1, BlockType DEF IInv, TypeOK, Whole, outPos
<1>4. outBuf \in Seq(Bytes) /\ \A i \in 1 .. size : outBuf[i] = ByteAt(arch.file, blockStart + i)
  BY <1>3 DEF Rebuilt, Follows
<1>5. outBuf = [i \in 1 .. size |-> outBuf[i]]
  BY <1>3, <1>4
<1> HIDE DEF size
<1>6. Part(arch.file, blockStart, size) = [i \in 1 .. size |-> outBuf[i]]
  BY <1>4 DEF Part
<1> QED BY <1>2, <1>5, <1>6

(* Where the file ends, it is all there.                                   *)
LEMMA WholeMade ==
  ASSUME IInv, NEW at, NEW end, NEW used, Rebuilt(at, end, used), Finish
  PROVE  sink = arch.file
<1>1. pc = "block" /\ arch \in Archive /\ block \in 0 .. Len(arch.blocks) /\ Len(sink) = blockStart
  BY DEF Finish, IInv, TypeOK
<1>2. arch.file \in Seq(Bytes) /\ Len(arch.blocks) \in Nat
  BY <1>1 DEF Archive
<1>3. AtEnd
  <2> SUFFICES ASSUME ~ AtEnd PROVE FALSE
    OBVIOUS
  <2>1. block < Len(arch.blocks)
    BY <1>1, <1>2 DEF AtEnd
  <2>2. ~ Closes(CurrentBlock)
    BY <2>1, BlockMade
  <2> QED BY <2>2 DEF Finish
<1>4. blockStart = Len(arch.file)
  BY <1>3 DEF AtEnd, Rebuilt, Makes, AllPieces
<1>5. Follows(arch.file, 0, sink)
  BY DEF Rebuilt
<1> QED BY <1>1, <1>2, <1>4, <1>5, FollowsWhole

LEMMA RebuiltNext ==
  ASSUME IInv, NEW at, NEW end, NEW used, Rebuilt(at, end, used), [Next]_vars
  PROVE  Rebuilt(at, end, used)'
<1>0. IInv' /\ Makes(arch, at, end, used) /\ pc # "failed"
  BY NextHolds DEF Rebuilt
<1>1. CASE ReadBlock
  <2>1. block < Len(arch.blocks) /\ pc = "block"
    BY <1>0, <1>1 DEF ReadBlock, AtEnd, IInv, TypeOK, Archive
  <2>2. CurrentBlock' = CurrentBlock
    BY <1>1 DEF ReadBlock, blockVars, CurrentBlock
  <2>3. /\ end[block + 1][0] = blockStart /\ used[block + 1][0] = 0
        /\ Len(CurrentBlock.recs) \in Nat
    BY <2>1, BlockMade
  <2>4. Follows(arch.file, blockStart, <<>>)
    BY DEF Follows
  <2>5. blockStart + Len(<<>>) = blockStart /\ blockStart \in Nat
    BY DEF IInv, TypeOK
  <2> QED BY <1>1, <2>1, <2>2, <2>3, <2>4, <2>5
        DEF ReadBlock, Rebuilt, blockVars, sinkVars, outPos
<1>2. CASE Truncated
  BY <1>0, <1>2 DEF Truncated, Makes
<1>3. CASE Finish
  <2>1. sink = arch.file
    BY <1>3, WholeMade
  <2> QED BY <1>3, <2>1 DEF Finish, Rebuilt, blockVars, buildVars, sinkVars
<1>4. CASE RejectBase \/ RejectRecord
  BY <1>4, RecordMade DEF RejectBase, RejectRecord, MoreRecords
<1>5. CASE CopyRecord
  <2>1. /\ pc = "records" /\ st <= Len(CurrentBlock.recs) /\ st \in Nat \ {0}
        /\ block < Len(arch.blocks)
    BY <1>5 DEF CopyRecord, MoreRecords, IInv, TypeOK
  <2>2. /\ Follows(arch.file, blockStart, outBuf')
        /\ blockStart + Len(outBuf') = dest + mlen
    BY <1>5, CopyMakes
  <2>3. /\ used[block + 1][st] = inPos + ThisRecord.lit
        /\ end[block + 1][st] = dest + mlen
    BY <2>1, RecordMade
  <2>4. /\ st' = st + 1 /\ st' - 1 = st /\ inPos' = inPos + ThisRecord.lit
        /\ UNCHANGED <<pc, arch, block, blockStart, sink>>
    BY <1>5, <2>1 DEF CopyRecord, blockVars
  <2>5. CurrentBlock' = CurrentBlock /\ Len(CurrentBlock.recs) \in Nat
    BY <2>1, <2>4, BlockMade DEF CurrentBlock
  <2>6. st' <= Len(CurrentBlock.recs) + 1
    BY <2>1, <2>4, <2>5
  <2>7. blockStart + outPos' = end[block + 1][st]
    BY <2>2, <2>3 DEF outPos
  <2> QED BY <2>1, <2>2, <2>3, <2>4, <2>5, <2>6, <2>7 DEF Rebuilt
<1>6. CASE RejectLiterals
  BY <1>6, TailMakes DEF RejectLiterals
<1>7. CASE FillTail
  <2>1. Follows(arch.file, blockStart, outBuf')
    BY <1>7, TailMakes DEF FillTail
  <2> QED BY <1>7, <2>1 DEF FillTail, Rebuilt, blockVars, sinkVars
<1>8. CASE RejectDigest
  BY <1>8, DigestMade DEF RejectDigest
<1>9. CASE WriteBlock
  <2>1. /\ pc = "verify" /\ block < Len(arch.blocks) /\ block \in Nat /\ Len(sink) = blockStart
        /\ sink \in Seq(Bytes) /\ outBuf \in Seq(Bytes)
    BY <1>9 DEF WriteBlock, IInv, TypeOK
  <2>2. sink' = sink \o outBuf
    BY <1>9, <2>1, WriteAtEnd DEF WriteBlock
  <2>3. Follows(arch.file, 0, sink) /\ Follows(arch.file, blockStart, outBuf)
    BY <2>1 DEF Rebuilt
  <2>4. After(0, sink) = blockStart
    BY <2>1 DEF After
  <2>5. Follows(arch.file, 0, sink')
    BY <2>2, <2>3, <2>4, FollowsMore
  <2>6. at[(block + 1) + 1] = blockStart + CurrentBlock.size
    BY <2>1, BlockMade
  <2> QED BY <1>9, <2>5, <2>6 DEF WriteBlock, Rebuilt
<1>10. CASE Stopped \/ UNCHANGED vars
  <2>1. UNCHANGED <<pc, arch, block, blockStart, st, inPos, outBuf, sink>>
    BY <1>10 DEF Stopped, vars, blockVars, buildVars, sinkVars
  <2>2. CurrentBlock' = CurrentBlock /\ outPos' = outPos
    BY <2>1 DEF CurrentBlock, outPos
  <2> QED BY <2>1, <2>2 DEF Rebuilt
<1> QED BY <1>1, <1>2, <1>3, <1>4, <1>5, <1>6, <1>7, <1>8, <1>9, <1>10 DEF Next

(* The run of an intact archive ends with the file it was made from: no    *)
(* block of it is refused, and nothing is missing or wrong at the end.     *)
THEOREM IntactDecoded == ASSUME IntactArchives PROVE Spec => []IntactDecodes
<1>1. Init => IInv /\ IntactRebuilt
  BY InitHolds, RebuiltFirst
<1>2. IInv /\ IntactRebuilt /\ [Next]_vars => (IInv /\ IntactRebuilt)'
  <2> SUFFICES ASSUME IInv, IntactRebuilt, [Next]_vars PROVE (IInv /\ IntactRebuilt)'
    OBVIOUS
  <2>1. IInv' /\ arch' = arch
    BY NextHolds
         DEF Next, ReadBlock, Truncated, Finish, RejectBase, RejectRecord, CopyRecord, RejectLiterals,
             FillTail, RejectDigest, WriteBlock, Stopped, Fail, vars, blockVars
  <2>2. ASSUME arch.intact PROVE \E at, end, used : Rebuilt(at, end, used)'
    <3>1. PICK at, end, used : Rebuilt(at, end, used)
      BY <2>2 DEF IntactRebuilt
    <3>2. Rebuilt(at, end, used)'
      BY <3>1, RebuiltNext
    <3> QED BY <3>2
  <2> QED BY <2>1, <2>2 DEF IntactRebuilt
<1>3. IInv /\ IntactRebuilt => IntactDecodes
  BY DEF IntactRebuilt, Rebuilt, IntactDecodes
<1> QED BY <1>1, <1>2, <1>3, PTL DEF Spec
=============================================================================

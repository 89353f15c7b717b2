-------------------------------- MODULE IoLz --------------------------------
(***************************************************************************)
(* The I/O-LZ decoder (v1 and v2 archives).                                *)
(*                                                                         *)
(* A match of these formats points BACK: its source is already in the      *)
(* output file, in the block being built, or in both, and the decoder      *)
(* keeps nothing between blocks.  A v1 archive counts distances and        *)
(* lengths in units of its base length, so its sources are rounded.        *)
(*                                                                         *)
(* The program is sequential; an action is one iteration of a loop or the  *)
(* statements between two.                                                 *)
(***************************************************************************)
EXTENDS Buffers, LzCodec

CONSTANT Archives   \* the archives the decoder may be given

(* lit: literals before the match; off, len: as they are stored. *)
Record == [lit: Nat, off: Nat, len: Nat]

Block == [size: Nat, lits: Seq(Bytes), recs: Seq(Record), digest: Seq(Bytes)]

(* torn: the archive stops inside a block (or the lists kept beside it run *)
(* out).  The digest of a block stands for itself: a hash without          *)
(* collisions.  file is what the archive was made from and intact says     *)
(* that it was not damaged since; the decoder looks at neither.            *)
Archive == [version: {1, 2}, base: Nat, blocks: Seq(Block), torn: BOOLEAN,
            verified: BOOLEAN, intact: BOOLEAN, file: Seq(Bytes)]

ASSUME ArchiveAssumption == Archives \subseteq Archive

VARIABLES
  arch,        \* the archive being decoded
  pc,          \* the loop the decoder is in
  error,       \* why it stopped
  block,       \* blocks written so far
  blockStart,  \* position of the current block in the output
  st,          \* record cursor
  inPos,       \* literals used
  outBuf,      \* the current block, as far as it is built
  sink,        \* the output file
  sinkPos      \* where its next read or write would happen

blockVars == <<arch, block, blockStart>>
buildVars == <<st, inPos, outBuf>>
sinkVars  == <<sink, sinkPos>>
vars == <<pc, error, blockVars, buildVars, sinkVars>>

-----------------------------------------------------------------------------
CurrentBlock == arch.blocks[block + 1]
Literals == CurrentBlock.lits
outPos == Len(outBuf)

(* Distances and lengths of v1 are in units of the base length. *)
L1 == IF arch.version = 1 THEN arch.base ELSE 1

ThisRecord == CurrentBlock.recs[st]
dest == blockStart + outPos + ThisRecord.lit
mlen == ThisRecord.len * L1 + arch.base

\* Mutant: the destination is not rounded down before the distance is taken.
SourceUnrounded == dest - ThisRecord.off * L1

(* The destination is rounded down to a unit, and the distance taken from  *)
(* there; below 0 it wraps past dest.                                      *)
Source == (dest \div L1) * L1 - ThisRecord.off * L1

\* Mutant: the room left is compared with the match alone.
RecordFitsMatchOnly ==
  /\ ThisRecord.lit <= Len(Literals) - inPos
  /\ mlen <= CurrentBlock.size - outPos
  /\ 0 <= Source /\ Source < dest

RecordFits ==
  /\ ThisRecord.lit <= Len(Literals) - inPos
  /\ ThisRecord.lit + mlen <= CurrentBlock.size - outPos
  /\ 0 <= Source /\ Source < dest

-----------------------------------------------------------------------------
Init ==
  /\ arch \in Archives
  /\ pc = "block" /\ error = "none"
  /\ block = 0 /\ blockStart = 0
  /\ st = 1 /\ inPos = 0 /\ outBuf = <<>>
  /\ sink = <<>> /\ sinkPos = 0

Fail(why) ==
  /\ pc' = "failed" /\ error' = why
  /\ UNCHANGED <<blockVars, buildVars, sinkVars>>

AtEnd == block = Len(arch.blocks)

(* A block of no bytes and no literals closes the archive. *)
Closes(b) == b.size = 0 /\ b.lits = <<>>

ReadBlock ==
  /\ pc = "block" /\ ~ AtEnd /\ ~ Closes(CurrentBlock)
  /\ pc' = "records"
  /\ st' = 1 /\ inPos' = 0 /\ outBuf' = <<>>
  /\ UNCHANGED <<error, blockVars, sinkVars>>

Truncated == pc = "block" /\ AtEnd /\ arch.torn /\ Fail("container")

Finish ==
  /\ pc = "block"
  /\ IF AtEnd THEN ~ arch.torn ELSE Closes(CurrentBlock)
  /\ pc' = "done"
  /\ UNCHANGED <<error, blockVars, buildVars, sinkVars>>

-----------------------------------------------------------------------------
MoreRecords == pc = "records" /\ st <= Len(CurrentBlock.recs)

RejectBase == MoreRecords /\ L1 = 0 /\ Fail("baddata")

RejectRecord == MoreRecords /\ L1 # 0 /\ ~ RecordFits /\ Fail("baddata")

(* How much of the source is before this block: in the output file. *)
FromSink ==
  IF Source >= blockStart THEN 0
  ELSE IF blockStart - Source < mlen THEN blockStart - Source ELSE mlen

\* Mutant: what comes after the part from the output is copied from its source.
CopyRecordSourceKept ==
  /\ MoreRecords /\ L1 # 0 /\ RecordFits
  /\ LET lits == Part(Literals, inPos, ThisRecord.lit)
         buf == outBuf \o lits \o Part(sink, Source, FromSink)
     IN  outBuf' = buf \o LzCopy(buf, Source - blockStart, mlen - FromSink)
  /\ inPos' = inPos + ThisRecord.lit
  /\ sinkPos' = IF FromSink > 0 THEN Source + FromSink ELSE sinkPos
  /\ st' = st + 1
  /\ UNCHANGED <<pc, error, blockVars, sink>>

(* The literals, then the part of the match that is in the output file,    *)
(* then the part that is in the block.                                     *)
CopyRecord ==
  /\ MoreRecords /\ L1 # 0 /\ RecordFits
  /\ LET lits == Part(Literals, inPos, ThisRecord.lit)
         buf == outBuf \o lits \o Part(sink, Source, FromSink)
     IN  outBuf' = buf \o LzCopy(buf, Source + FromSink - blockStart, mlen - FromSink)
  /\ inPos' = inPos + ThisRecord.lit
  /\ sinkPos' = IF FromSink > 0 THEN Source + FromSink ELSE sinkPos
  /\ st' = st + 1
  /\ UNCHANGED <<pc, error, blockVars, sink>>

NoMoreRecords == pc = "records" /\ st > Len(CurrentBlock.recs)

LiteralsFill == Len(Literals) - inPos = CurrentBlock.size - outPos

RejectLiterals == NoMoreRecords /\ ~ LiteralsFill /\ Fail("baddata")

FillTail ==
  /\ NoMoreRecords /\ LiteralsFill
  /\ outBuf' = outBuf \o Part(Literals, inPos, Len(Literals) - inPos)
  /\ pc' = "verify"
  /\ UNCHANGED <<error, blockVars, st, inPos, sinkVars>>

DigestAgrees == arch.verified => outBuf = CurrentBlock.digest

RejectDigest == pc = "verify" /\ ~ DigestAgrees /\ Fail("digest")

WriteBlock ==
  /\ pc = "verify" /\ DigestAgrees
  /\ sink' = WriteAt(sink, blockStart, outBuf)
  /\ sinkPos' = blockStart + Len(outBuf)
  /\ blockStart' = blockStart + CurrentBlock.size
  /\ block' = block + 1
  /\ pc' = "block"
  /\ UNCHANGED <<error, arch, buildVars>>

Stopped == pc \in {"done", "failed"} /\ UNCHANGED vars

Next ==
  \/ ReadBlock \/ Truncated \/ Finish
  \/ RejectBase \/ RejectRecord \/ CopyRecord \/ RejectLiterals \/ FillTail
  \/ RejectDigest \/ WriteBlock \/ Stopped

Spec == Init /\ [][Next]_vars

(* The decoder runs by itself: it never waits for anyone. *)
FairSpec == Spec /\ WF_vars(Next)

-----------------------------------------------------------------------------
(* Besides the types: what is built and what is used never passes what the *)
(* block declares, and what is read back has been written.                 *)
TypeOK ==
  /\ arch \in Archive
  /\ pc \in {"block", "records", "verify", "done", "failed"}
  /\ error \in {"none", "container", "baddata", "digest"}
  /\ block \in 0 .. Len(arch.blocks) /\ blockStart \in Nat
  /\ st \in Nat \ {0} /\ inPos \in Nat /\ outBuf \in Seq(Bytes)
  /\ sink \in Seq(Bytes) /\ sinkPos \in Nat
  /\ Len(sink) = blockStart
  /\ pc \in {"records", "verify"} =>
       /\ block < Len(arch.blocks)
       /\ inPos <= Len(Literals) /\ outPos <= CurrentBlock.size

(* An intact archive is decoded, whole. *)
IntactDecodes ==
  arch.intact =>
    /\ pc # "failed"
    /\ pc = "done" => sink = arch.file

(* What an archive with digests says of its file, whatever was damaged in  *)
(* it but the order of its blocks; all of it is there if nothing was.      *)
DigestsOf(a, at) ==
  /\ PiecesAt(at, a)
  /\ a.intact => ~ a.torn /\ AllPieces(at, a) /\ \A b \in DOMAIN a.blocks : ~ Closes(a.blocks[b])

(* What an undamaged archive is: its blocks are the pieces of the file     *)
(* between the positions at, and read in order, record k of block b, that  *)
(* begins where the one before ended (end) and has used so many literals   *)
(* (used), gives the bytes of the file: its literals, and a copy of bytes  *)
(* before.                                                                 *)
RecordMakes(a, b, k, end, used) ==
  LET r == a.blocks[b].recs[k]
      m == Decoded(a.version = 1, a.base, r, end[b][k - 1])
  IN  /\ used[b][k] = used[b][k - 1] + r.lit /\ end[b][k] = m.dest + m.len
      /\ Part(a.blocks[b].lits, used[b][k - 1], r.lit) = Part(a.file, end[b][k - 1], r.lit)
      /\ 0 <= m.src /\ m.src < m.dest /\ Part(a.file, m.src, m.len) = Part(a.file, m.dest, m.len)

BlockMakes(a, b, at, end, used) ==
  LET x == a.blocks[b]
      n == Len(x.recs)
      rest == Len(x.lits) - used[b][n]
  IN  /\ ~ Closes(x) /\ at[b + 1] = at[b] + x.size
      /\ a.verified => x.digest = Part(a.file, at[b], x.size)
      /\ end[b] \in [0 .. n -> at[b] .. at[b + 1]] /\ end[b][0] = at[b]
      /\ used[b] \in [0 .. n -> 0 .. Len(x.lits)] /\ used[b][0] = 0
      /\ \A k \in 1 .. n : RecordMakes(a, b, k, end, used)
      /\ end[b][n] + rest = at[b + 1] /\ Part(x.lits, used[b][n], rest) = Part(a.file, end[b][n], rest)

Makes(a, at, end, used) ==
  /\ ~ a.torn /\ (a.version = 1 => a.base # 0)
  /\ at \in [1 .. Len(a.blocks) + 1 -> 0 .. Len(a.file)] /\ at[1] = 0 /\ AllPieces(at, a)
  /\ \A b \in DOMAIN a.blocks : BlockMakes(a, b, at, end, used)

(* The decoder implements what BlockDecoder promises: with digests, or     *)
(* undamaged, nothing is ever written that is not the beginning of the     *)
(* file.  These formats do not say how long they are.                      *)
Promise == INSTANCE BlockDecoder WITH
  file <- arch.file,
  counted <- arch.intact,
  output <- sink,
  status <- IF pc \in {"done", "failed"} THEN pc ELSE "running"

Promised == Promise!Spec
=============================================================================

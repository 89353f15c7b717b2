----------------------------- MODULE BlockRing -----------------------------
(***************************************************************************)
(* The driver's side of compression: the options of a run, and the input   *)
(* read block by block into a ring, one block ahead of the one compressed. *)
(* The match finders (InMemory, FixedCompress, Cdc) read blocks from the   *)
(* ring and leave a block's records in stat; Encoder puts them together.   *)
(*                                                                         *)
(* A byte is any value; files are sequences of them.  The input does not   *)
(* change while it is read: RunFiles is about that.                        *)
(***************************************************************************)
EXTENDS LzCodec, Buffers, FiniteSets

CONSTANTS
  Files,          \* the inputs
  Options,        \* command lines: see Given
  DefaultMatch,   \* -l when neither -l nor -c is given
  DefaultCdc,     \* the same for -m1 and -m2
  CdcMatch,       \* shortest match of -m1 and -m2
  Slices          \* slices of a chunk, least chunk that can be cut into them

(* kind: -m0 is inmem, -m1 and -m2 cdc and zpaq, -m3 digest, -m4 fixed,    *)
(* -m5 exhaustive.  A length of 0 is one not given.  accel is the scan     *)
(* variant, 0 for the plain one.                                           *)
Given == [kind: {"inmem", "cdc", "zpaq", "digest", "fixed", "exhaustive"},
          bufsize: Nat \ {0}, minMatch: Nat, l: Nat, dict: Nat,
          dictMatch: Nat, dictChunk: Nat, accel: Nat]

VARIABLES
  file,         \* the input
  opt,          \* the options, settled
  pc,           \* the loop the encoder is in
  ring,         \* blocks read, one after the other, around and around
  bufOffset,    \* where the current block is in it
  blockStart,   \* and in the file
  filled,       \* its size
  nextFilled,   \* size of the block read ahead
  stat,         \* the records of the block
  literalBytes, \* bytes of the block no record covers
  aux,          \* the records of the in-memory pass
  i,            \* cursor of the finder
  lastMatchEnd  \* where the finder's last match ended

inputVars == <<file, opt>>
ringVars == <<ring, bufOffset, blockStart, filled, nextFilled>>
listVars == <<stat, literalBytes, lastMatchEnd>>

-----------------------------------------------------------------------------
Least(a, b) == IF a < b THEN a ELSE b
Most(a, b) == IF a > b THEN a ELSE b
LeastIn(S) == CHOOSE p \in S : \A q \in S : p <= q

IsCdc(o) == o.kind \in {"cdc", "zpaq"}
HasTable(o) == o.kind \in {"digest", "fixed", "exhaustive"}

(* The largest power of two that is not above n. *)
PowerBelow(n) == LET power[m \in 1 .. n] == IF m = 1 THEN 1 ELSE 2 * power[m \div 2]
                 IN  power[n]

(* The filtered scan goes by powers of two, none wider than a chunk; any   *)
(* other way of asking for it means the plain one.                         *)
ScanVariant(accel, l) == IF accel \in {1, 2, 4, 8, 16, 32, 64} /\ accel <= l THEN accel ELSE 0

(* What is not given follows from what is. *)
Settled(o) ==
  LET match == IF o.l = 0 /\ o.minMatch = 0
                 THEN IF IsCdc(o) THEN DefaultCdc ELSE DefaultMatch
                 ELSE o.minMatch
      chunk == IF o.l # 0 THEN o.l
               ELSE IF o.kind = "exhaustive" THEN PowerBelow(match + 1) \div 2 ELSE match
      kept == IF o.l = 0 /\ IsCdc(o) THEN 0 ELSE match
      least == IF kept # 0 THEN kept ELSE IF IsCdc(o) THEN CdcMatch ELSE chunk
      dictMatch == IF o.dictMatch # 0 THEN o.dictMatch ELSE DefaultMatch
  IN  [kind |-> o.kind, bufsize |-> o.bufsize, dict |-> o.dict,
       accel |-> ScanVariant(o.accel, chunk),
       l |-> chunk, minMatch |-> least, base |-> Least(least, dictMatch),
       dictMatch |-> dictMatch,
       dictChunk |-> IF o.dictChunk # 0 THEN o.dictChunk ELSE dictMatch \div Slices,
       round |-> o.kind = "digest" /\ o.dict = 0]

(* Command lines that are refused before anything is read: a chunk that    *)
(* cannot be cut into slices, with or without -c.                          *)
SmallWindow(o) ==
  /\ o.l = 0 /\ o.minMatch # 0 /\ o.kind # "inmem"
  /\ o.minMatch < IF o.kind = "exhaustive" THEN 2 * Slices - 1 ELSE Slices

SmallDictWindow(o) ==
  /\ o.kind = "inmem" \/ o.dict # 0
  /\ o.dictChunk = 0 /\ o.dictMatch # 0
  /\ o.dictMatch < Slices

Accepted(o) == ~ SmallWindow(o) /\ ~ SmallDictWindow(o) /\ (o.l # 0 => o.l >= Slices)

ASSUME OptionsAssumption ==
  /\ Options \subseteq Given /\ Files \subseteq Seq(Bytes)
  /\ Slices \in Nat \ {0} /\ DefaultMatch \in Nat /\ DefaultMatch >= Slices
  /\ DefaultCdc \in Nat \ {0} /\ CdcMatch \in Nat \ {0}

-----------------------------------------------------------------------------
(* Two blocks more than the dictionary: the one compressed and the one     *)
(* read ahead.                                                             *)
RoundUp(a, b) == ((a + b - 1) \div b) * b

\* Mutant: no room for the block that is read ahead.
RingSizeWithoutAhead(o) == o.bufsize + RoundUp(o.dict, o.bufsize)

RingSize(o) == 2 * o.bufsize + RoundUp(o.dict, o.bufsize)

(* A block of the file, or what is left of it. *)
Span(pos) == Least(Most(Len(file) - pos, 0), opt.bufsize)

ReadBlock(r, at, pos) == WriteAt(r, at, Part(file, pos, Span(pos)))

nextOffset == (bufOffset + opt.bufsize) % RingSize(opt)

(* Byte p of the block; a few past its end are the next block's, and those *)
(* past the ring read as zero.                                             *)
InBlock(p) == ByteAt(ring, bufOffset + p + 1)

(* One more record.  Lists are as a decoder of the archive will read them. *)
Record(lit, offset, len) == Encoded(opt.round, opt.base, lit, offset, len)
=============================================================================

--------------------------- MODULE FixedCompress ---------------------------
(***************************************************************************)
(* The match finder over chunks of L bytes (-m3, -m4, -m5).                *)
(*                                                                         *)
(* Chunks of the file are numbered and put in a hash table as the scan     *)
(* passes them; every window of L bytes is looked up there.  -m4 and -m5   *)
(* compare the bytes, read again from the file; -m3 compares a digest of   *)
(* every chunk, and extends by digests.  The lists of the in-memory pass   *)
(* are spliced in where the scan reaches them.                             *)
(*                                                                         *)
(* The table keeps some bits of a hash and a bounded chain, and a filter   *)
(* (of slices, of bits) may drop what is found.  Which chunk a lookup      *)
(* finds, if any, is any that was put in; with -m3 the digest must agree.  *)
(* A digest stands for the bytes of its chunk: no two have the same.       *)
(***************************************************************************)
EXTENDS BlockRing, Sequences

CONSTANTS
  Cycles,     \* positions hashed in one go by the plain scan
  Lookahead,  \* positions hashed before they are looked up
  Piece       \* bytes of the file read again in one go

(* The plain scan goes by 4 bytes, and no chunk is shorter than 8.         *)
ASSUME ScanAssumption ==
  /\ Cycles \in Nat \ {0} /\ Lookahead \in Nat \ {0} /\ Piece \in Nat \ {0}
  /\ \A o \in Options : Accepted(o) /\ HasTable(o) => Cycles <= Settled(o).l

VARIABLES
  inserted,   \* chunks in the table
  digests,    \* -m3: the digests of chunks, <<>> where there is none
  grid,       \* blocks from the first that starts off the chunk grid on
  input,      \* the next match of the in-memory pass
  inAt,       \* where its successor is in aux
  nextChunk,  \* where the chunk being scanned ends
  pairs       \* positions hashed and not yet looked up

tableVars == <<inserted, digests, grid>>
scanVars == <<input, inAt, nextChunk, pairs>>

NotFound == 0   \* chunk 0 is never stored

compareDigests == opt.kind = "digest"
anyShifted == grid # <<>>

(* Numbers a chunk may have. *)

\* Mutant: no slot for the chunk a shifted block may reach at the end.
SlotsWhole == Most(Len(file), opt.l) \div opt.l

Slots == Most(Len(file), opt.l) \div opt.l + 1

-----------------------------------------------------------------------------
(* Before a block is compressed: its digests, and where it starts.  When   *)
(* the block read ahead begins inside a chunk, that chunk is the only one  *)
(* the scan may meet of it.                                                *)
Window(p) == [k \in 1 .. opt.l |-> InBlock(p + k - 1)]

FirstChunk == blockStart \div opt.l

Ahead ==
  IF nextFilled >= opt.l
    THEN {[chunk |-> (blockStart + filled) \div opt.l,
           digest |-> Part(ring, nextOffset, opt.l)]}
    ELSE {}

WithDigests ==
  LET own == {[chunk |-> FirstChunk + m, digest |-> Window(m * opt.l)] :
                m \in 0 .. filled \div opt.l - 1}
      new == own \cup Ahead
  IN  [k \in DOMAIN digests |->
         IF \E d \in new : d.chunk = k THEN (CHOOSE d \in new : d.chunk = k).digest
         ELSE digests[k]]

PrepareBuffer ==
  /\ pc = "prepare" /\ HasTable(opt)
  /\ grid' = IF anyShifted \/ blockStart % opt.l # 0
               THEN Append(grid, [chunk |-> FirstChunk, start |-> blockStart]) ELSE grid
  /\ digests' = IF compareDigests THEN WithDigests ELSE digests
  /\ pc' = "inmem"
  /\ UNCHANGED <<inputVars, ringVars, listVars, aux, i, inserted, scanVars>>

(* Where the bytes of chunk k are. *)

ChunkPos(k) ==
  LET last == {n \in DOMAIN grid : grid[n].chunk <= k}
      g == grid[Cardinality(last)]
  IN  IF last = {} THEN k * opt.l ELSE g.start + (k - g.chunk) * opt.l

-----------------------------------------------------------------------------
(* How long the match of chunk k with the window at p is, and how much of  *)
(* that is before p.                                                       *)
Common(n, equal(_)) == CHOOSE m \in 0 .. n :
  (\A j \in 0 .. m - 1 : equal(j)) /\ (m < n => ~ equal(m))

(* Inside the block, from position q of it on. *)
TailLen(p, q) == IF p >= filled THEN 0
               ELSE Common(filled - p, LAMBDA j : InBlock(p + j) = InBlock(q + j))

(* -m3: the digests of the chunks that follow, up to the block; then its   *)
(* bytes.  The first chunk counts whole, even past the end of the block.   *)
DigestLen(k, p) ==
  LET stop(n) == \/ (k + n) * opt.l >= blockStart
                 \/ p + (n + 1) * opt.l > filled
                 \/ digests[k + n] # Window(p + n * opt.l)
      n == CHOOSE m \in 1 .. Len(file) : stop(m) /\ \A j \in 1 .. m - 1 : ~ stop(j)
      past == p + n * opt.l
  IN  n * opt.l + IF (k + n) * opt.l >= blockStart
                    THEN TailLen(past, (k + n) * opt.l - blockStart) ELSE 0

(* -m4, -m5: backwards no further than the last match and one chunk.       *)
Back(k, p) ==
  LET old == k * opt.l
      n == Least(Least(IF old < blockStart THEN old ELSE old - blockStart, opt.l), p - lastMatchEnd)
  IN  Common(n, LAMBDA j : InBlock(p - j - 1) = ByteAt(file, old - j))

(* Forwards in pieces, until the file read again reaches the block; a      *)
(* piece that the file does not hold whole ends it.                        *)
Forward(k, p) ==
  LET old == k * opt.l
      all == Common(filled - p, LAMBDA j : InBlock(p + j) = ByteAt(file, old + j + 1))
      pieces == (blockStart - old + Piece - 1) \div Piece
      short == {m \in 0 .. pieces - 1 : old + (m + 1) * Piece > Len(file)}
  IN  IF short = {} THEN all
      ELSE Least(all, Piece * (CHOOSE m \in short : \A n \in short : m <= n))

MatchLen(k, p) ==
  IF compareDigests THEN [len |-> DigestLen(k, p), add |-> 0]
  ELSE LET add == Back(k, p)
       IN  [len |-> add + IF k * opt.l < blockStart THEN Forward(k, p)
                          ELSE TailLen(p, k * opt.l - blockStart),
            add |-> add]

-----------------------------------------------------------------------------
(* What a decoder would copy: bytes of the block at p that equal those of  *)
(* the file at src, up to len; none unless src is before.                  *)
CommonPrefix(p, src, len) ==
  IF src < 0 \/ src >= blockStart + p THEN 0
  ELSE Common(len, LAMBDA j : InBlock(p + j) = ByteAt(file, src + j + 1))

Rounded(len) == IF opt.round THEN (len \div opt.l) * opt.l ELSE len

DecodedFrom(p, offset) ==
  LET u == Unit(opt.round, opt.base)
  IN  ((blockStart + p) \div u) * u - (offset \div u) * u

(* A rounded record can be decoded only when its source and length are     *)
(* whole units, or happen to decode to the same bytes; otherwise it is     *)
(* moved up to the next unit and cut to whole ones.  A length of 0 is no   *)
(* record.                                                                 *)
DecodesAsIs(src, p, len) ==
  /\ len % opt.base = 0 /\ len >= opt.base
  /\ CommonPrefix(p, DecodedFrom(p, blockStart + p - src), len) = len

OnBaseGrid(src, len) == src % opt.base = 0 /\ len % opt.base = 0 /\ len >= opt.base

\* Mutant: a rounded record is written as it was found.
FitUnmoved(src, p, len) == [at |-> p, len |-> len]

Fit(src, p, len) ==
  IF ~ opt.round \/ OnBaseGrid(src, len) \/ DecodesAsIs(src, p, len)
    THEN [at |-> p, len |-> len]
    ELSE LET skip == (opt.base - (src % opt.base)) % opt.base
             cut == (Most(len - skip, 0) \div opt.base) * opt.base
         IN  IF cut < opt.base THEN [at |-> p, len |-> 0] ELSE [at |-> p + skip, len |-> cut]

(* The record for chunk k and the window at p: first the one that takes    *)
(* the chunk to be at k * L.  If blocks start off that grid it may not     *)
(* decode to these bytes, and it may run past the block: then it is made   *)
(* again from where the chunk really is.                                   *)

\* Mutant: a record may run past its block.
TrustedPastEnd(k, p, r) ==
  compareDigests /\ anyShifted =>
    CommonPrefix(r.at, DecodedFrom(r.at, blockStart + p - k * opt.l), r.len) = r.len

Trusted(k, p, r) ==
  /\ r.at + r.len <= filled
  /\ compareDigests /\ anyShifted =>
       CommonPrefix(r.at, DecodedFrom(r.at, blockStart + p - k * opt.l), r.len) = r.len

Remade(k, start) ==
  LET src == IF compareDigests THEN ChunkPos(k) ELSE k * opt.l
      len == Rounded(CommonPrefix(start, src, filled - start))
      r == Fit(src, start, len)
  IN  [at |-> r.at, offset |-> blockStart + start - src,
       len |-> IF len = 0 \/ len < opt.minMatch THEN 0 ELSE r.len]

RecordMatch(k, p) ==
  LET m == MatchLen(k, p)
      start == p - m.add
      r == Fit(k * opt.l, start, Rounded(m.len))
  IN  IF m.len < opt.minMatch \/ r.len = 0 THEN [at |-> p, len |-> 0, offset |-> 0]
      ELSE IF Trusted(k, p, r)
        THEN [at |-> r.at, len |-> r.len, offset |-> blockStart + p - k * opt.l]
        ELSE Remade(k, start)

(* What a lookup of the window at p may give.  The filters, over slices of *)
(* the chunk and over bits of the hash, only take away.                    *)
FilteredOut == {NotFound}

Lookup(p) ==
  FilteredOut \cup {k \in inserted : compareDigests => digests[k] = Window(p)}

(* A match that cannot be written ends the run. *)
Emit(r, next) ==
  /\ stat' = Append(stat, Record(r.at - lastMatchEnd, r.offset, r.len))
  /\ lastMatchEnd' = r.at + r.len
  /\ literalBytes' = literalBytes - r.len
  /\ pc' = IF Encodable(opt.base, r.len) THEN next ELSE "failed"

Skip(next) == pc' = next /\ UNCHANGED listVars

(* A chunk is put in the table under what was hashed last; its number is   *)
(* that of the place where the scan stands.                                *)
AddHash(p) == inserted' = inserted \cup ({(blockStart + p) \div opt.l} \ {NotFound})

-----------------------------------------------------------------------------
NextInput(k, anchor) ==
  LET m == Decoded(opt.round, opt.base, aux[k], anchor)
  IN  [start |-> m.dest - blockStart, len |-> m.len, offset |-> m.dest - m.src]

(* The list of the in-memory pass ends with a match past the block, that   *)
(* is never reached.  A block shorter than two chunks is not scanned.      *)
BeginScan ==
  /\ pc = "first"
  /\ literalBytes' = filled
  /\ input' = NextInput(1, blockStart) /\ inAt' = 2
  /\ i' = 0 /\ lastMatchEnd' = 0
  /\ pc' = IF opt.l > filled \div 2 THEN "write" ELSE "window"
  /\ UNCHANGED <<inputVars, ringVars, aux, stat, nextChunk, pairs, tableVars>>

FirstWindow ==
  /\ pc = "window"
  /\ \E k \in Lookup(0) :
       LET r == RecordMatch(k, 0)
       IN  IF k # NotFound /\ r.len > 0 THEN Emit(r, "chunk") ELSE Skip("chunk")
  /\ AddHash(0)
  /\ UNCHANGED <<inputVars, ringVars, aux, i, digests, grid, scanVars>>

BeginChunk ==
  /\ pc = "chunk" /\ i + 2 * opt.l <= filled
  /\ nextChunk' = i + opt.l
  /\ pc' = "scan"
  /\ UNCHANGED <<inputVars, ringVars, listVars, aux, i, tableVars, input, inAt, pairs>>

EndScan ==
  /\ pc = "chunk" /\ i + 2 * opt.l > filled
  /\ pc' = "write"
  /\ UNCHANGED <<inputVars, ringVars, listVars, aux, i, tableVars, scanVars>>

(* The scan has come to a match of the in-memory pass: what the last match *)
(* leaves of it is taken, if it is long enough, and the next one is read;   *)
(* with no next one the run ends.                                          *)
Reached == i >= input.start

SpliceInput ==
  /\ pc = "scan" /\ i < nextChunk /\ Reached
  /\ LET from == Most(input.start, lastMatchEnd)
         rest == input.len - (from - input.start)
         next == IF inAt > Len(aux) THEN "failed" ELSE "hash"
     IN  IF input.start + input.len - opt.base >= lastMatchEnd
           THEN Emit([at |-> from, len |-> rest, offset |-> input.offset], next)
           ELSE Skip(next)
  /\ input' = IF inAt > Len(aux) THEN input
              ELSE NextInput(inAt, blockStart + input.start + input.len)
  /\ inAt' = inAt + 1
  /\ UNCHANGED <<inputVars, ringVars, aux, i, tableVars, nextChunk, pairs>>

NotReached ==
  /\ pc = "scan" /\ i < nextChunk /\ ~ Reached
  /\ pc' = "hash"
  /\ UNCHANGED <<inputVars, ringVars, listVars, aux, i, tableVars, scanVars>>

(* The scan variants hash step positions in one go and jump to a multiple  *)
(* of grain.                                                               *)
step == IF opt.accel = 0 THEN Cycles ELSE opt.accel
grain == Most(opt.accel, Cycles)

(* From where the hash goes on: nothing inside the last match is looked up. *)
Resume ==
  LET bound == Least(nextChunk - (IF opt.accel = 0 THEN 1 ELSE step), Most(lastMatchEnd - 1, 0))
  IN  IF bound >= i + opt.l \div 2 THEN (bound \div grain) * grain
      ELSE IF bound > i THEN i + ((bound - i) \div grain) * grain ELSE i

(* Whole steps: the last may pass the end of the chunk, and of the block.  *)
HashWindows ==
  /\ pc = "hash"
  /\ LET from == Resume
         last == Least(nextChunk, from + Lookahead)
         to == from + RoundUp(last - from, step)
     IN  /\ i' = to
         /\ pairs' = {p \in from + 1 .. to : lastMatchEnd <= p /\ p < input.start}
  /\ pc' = "probe"
  /\ UNCHANGED <<inputVars, ringVars, listVars, aux, tableVars, input, inAt, nextChunk>>

(* The windows are looked up in turn, up to the first match.               *)
nextPair == LeastIn(pairs)

Probe ==
  /\ pc = "probe" /\ pairs # {}
  /\ \E k \in Lookup(nextPair) :
       LET r == RecordMatch(k, nextPair)
           taken == k # NotFound /\ r.len > 0
       IN  /\ IF taken THEN Emit(r, "probe") ELSE Skip("probe")
           /\ pairs' = IF taken THEN {} ELSE pairs \ {nextPair}
  /\ UNCHANGED <<inputVars, ringVars, aux, i, tableVars, input, inAt, nextChunk>>

EndProbe ==
  /\ pc = "probe" /\ pairs = {}
  /\ pc' = "scan"
  /\ UNCHANGED <<inputVars, ringVars, listVars, aux, i, tableVars, scanVars>>

EndChunk ==
  /\ pc = "scan" /\ i >= nextChunk
  /\ AddHash(i)
  /\ pc' = "chunk"
  /\ UNCHANGED <<inputVars, ringVars, listVars, aux, i, digests, grid, scanVars>>

FixedNext ==
  \/ PrepareBuffer \/ BeginScan \/ FirstWindow \/ BeginChunk \/ EndScan
  \/ SpliceInput \/ NotReached \/ HashWindows \/ Probe \/ EndProbe
  \/ EndChunk
=============================================================================

-------------------------------- MODULE Cdc --------------------------------
(***************************************************************************)
(* Content-defined chunking (-m1, -m2).  The block is cut where a rolling  *)
(* hash of the bytes says so, stripe by stripe, and each chunk is looked   *)
(* up by its digest among all chunks before it.                            *)
(*                                                                         *)
(* Where the cuts are is left open, within the rules of each scan; so is   *)
(* whether the table still has a chunk.  A digest stands for the bytes.    *)
(***************************************************************************)
EXTENDS BlockRing, Sequences

CONSTANTS
  Stripe,        \* bytes scanned in one go
  WinSize,       \* bytes of the rolling hash
  MinimalMatch,  \* floor of the shortest match
  MaxMarks       \* bound: cuts inside one stripe

ASSUME CdcAssumption == Stripe \in Nat \ {0} /\ MinimalMatch \in Nat \ {0}

VARIABLES
  startarr,   \* where the chunks of the file start, in order
  ptr,        \* where the next stripe of the block starts
  marks       \* ends of chunks found and not yet looked up

cdcVars == <<startarr, ptr, marks>>

-----------------------------------------------------------------------------
minMatch == Most(opt.minMatch, MinimalMatch)
pend == IF filled - ptr < Stripe THEN filled ELSE ptr + Stripe

Apart(S, from) ==
  \A p \in S : p - from >= minMatch /\ \A q \in S : p < q => q - p >= minMatch

Within(S, lo, hi) == {p \in S : lo <= p /\ p < hi}

(* A whole stripe is scanned as three pieces at once, each by itself, so   *)
(* two cuts may be closer than a match across a border.                    *)
FastCuts(S) ==
  IF pend - ptr >= 3 * (Stripe \div 3)
    THEN LET piece == Stripe \div 3
         IN  /\ S = UNION {Within(S, ptr + n * piece + WinSize, ptr + (n + 1) * piece) : n \in 0 .. 2}
             /\ \A n \in 0 .. 2 : Apart(Within(S, ptr + n * piece, ptr + (n + 1) * piece), ptr + n * piece)
    ELSE S = Within(S, ptr + WinSize, pend) /\ Apart(S, ptr)

(* -m2 starts before the stripe, so its first cut may be anywhere.         *)
ZpaqCuts(S) ==
  /\ S = Within(S, ptr + 1, pend)
  /\ \A p, q \in S : p < q => q - p >= minMatch

BeginCdc ==
  /\ pc = "prepare" /\ IsCdc(opt)
  /\ ptr' = 0 /\ marks' = {}
  /\ i' = 0 /\ lastMatchEnd' = 0
  /\ literalBytes' = 0 /\ stat' = <<>>
  /\ pc' = "stripe"
  /\ UNCHANGED <<inputVars, ringVars, aux, startarr>>

(* The end of the block is a cut, the end of a stripe is not.              *)
FindChunks ==
  /\ pc = "stripe" /\ ptr < filled
  /\ \E S \in SUBSET (ptr + 1 .. pend - 1) :
       /\ Cardinality(S) <= MaxMarks
       /\ IF opt.kind = "zpaq" THEN ZpaqCuts(S) ELSE FastCuts(S)
       /\ marks' = S \cup (IF pend = filled THEN {filled} ELSE {})
  /\ ptr' = pend
  /\ pc' = "chunks"
  /\ UNCHANGED <<inputVars, ringVars, listVars, aux, i, startarr>>

-----------------------------------------------------------------------------
(* The table has room for a tenth more chunks than the file has of the     *)
(* length asked for, or for as many again when they are few; what comes    *)
(* after that is not kept.                                                 *)
Total ==
  LET whole == Most(Len(file), opt.l) \div opt.l
  IN  whole + (whole \div IF whole > 1024 THEN 10 ELSE 1)

Full == Len(startarr) + 1 >= Total
Kept == IF Full THEN startarr ELSE Append(startarr, blockStart + i)

ChunkSize(k) == Kept[k + 1] - Kept[k]

(* An earlier chunk with the same digest; its size, which is where the     *)
(* next one starts, is compared too.                                       *)
Same(len) ==
  {k \in 1 .. Len(Kept) - 1 :
     ~ Full /\ ChunkSize(k) = len
       /\ Part(file, Kept[k], len) = [n \in 1 .. len |-> InBlock(i + n - 1)]}

chunkEnd == LeastIn(marks)
chunkLen == chunkEnd - i

TakeChunk ==
  /\ pc = "chunks" /\ marks # {} /\ chunkLen >= minMatch
  /\ \E k \in Same(chunkLen) :
       /\ stat' = Append(stat, Record(i - lastMatchEnd, blockStart + i - Kept[k], chunkLen))
       /\ lastMatchEnd' = chunkEnd
  /\ pc' = IF Encodable(opt.base, chunkLen) THEN pc ELSE "failed"
  /\ i' = chunkEnd /\ marks' = marks \ {chunkEnd} /\ startarr' = Kept
  /\ UNCHANGED <<inputVars, ringVars, literalBytes, aux, ptr>>

\* Mutant: the literals of a chunk too short for a match are not counted.
PassChunkUncounted ==
  /\ pc = "chunks" /\ marks # {}
  /\ literalBytes' = literalBytes + IF chunkLen >= minMatch THEN chunkLen ELSE 0
  /\ i' = chunkEnd /\ marks' = marks \ {chunkEnd} /\ startarr' = Kept
  /\ UNCHANGED <<pc, inputVars, ringVars, stat, lastMatchEnd, aux, ptr>>

PassChunk ==
  /\ pc = "chunks" /\ marks # {}
  /\ literalBytes' = literalBytes + chunkLen
  /\ i' = chunkEnd /\ marks' = marks \ {chunkEnd} /\ startarr' = Kept
  /\ UNCHANGED <<pc, inputVars, ringVars, stat, lastMatchEnd, aux, ptr>>

EndStripe ==
  /\ pc = "chunks" /\ marks = {}
  /\ pc' = IF ptr < filled THEN "stripe" ELSE "write"
  /\ UNCHANGED <<inputVars, ringVars, listVars, aux, i, cdcVars>>

CdcNext == BeginCdc \/ FindChunks \/ TakeChunk \/ PassChunk \/ EndStripe
=============================================================================

------------------------------ MODULE LzFormat ------------------------------
(***************************************************************************)
(* The data the two ends of the Future-LZ family of formats (v3, v4, v5)   *)
(* exchange: the matches the first compression pass finds, the file those  *)
(* matches describe, and the per-block lists the archive carries.          *)
(*                                                                         *)
(* A byte of the original file is modelled by the position of the literal  *)
(* it is a copy of, so two positions hold the same byte only when the      *)
(* matches say so, and any byte put in the wrong place shows.              *)
(***************************************************************************)
EXTENDS Integers, Sequences, FiniteSets

CONSTANTS
  FileSize,   \* bytes of the original file
  BlockSize   \* bytes of a block (-b); the last block may be shorter

ASSUME FileAssumption == FileSize \in Nat \ {0} /\ BlockSize \in Nat \ {0}

Positions == 0 .. FileSize - 1

NumBlocks == (FileSize + BlockSize - 1) \div BlockSize
Blocks == 1 .. NumBlocks

BlockStart(b) == (b - 1) * BlockSize
BlockEnd(b) == IF b * BlockSize < FileSize THEN b * BlockSize ELSE FileSize

-----------------------------------------------------------------------------
(* What the first pass may record for block b: copies of earlier bytes     *)
(* into places of the block, each place written once.  A match may overlap *)
(* its own source, and never crosses the end of its destination block.     *)

Match == [src: Positions, dest: Positions, len: 1 .. BlockSize]

MatchesInto(b) ==
  {m \in [src: 0 .. BlockEnd(b) - 1,
          dest: BlockStart(b) .. BlockEnd(b) - 1,
          len: 1 .. BlockSize] :
     /\ m.src < m.dest
     /\ m.dest + m.len <= BlockEnd(b)}

Covers(m, p) == m.dest <= p /\ p < m.dest + m.len

DisjointDests(S) ==
  \A m, n \in S : m # n => m.dest + m.len <= n.dest \/ n.dest + n.len <= m.dest

(* The file a set of matches describes. *)
Content(matches) ==
  LET byte[p \in Positions] ==
        IF \E m \in matches : Covers(m, p)
          THEN LET m == CHOOSE n \in matches : Covers(n, p)
               IN  byte[p - (m.dest - m.src)]
          ELSE p
  IN  byte

(* The bytes of [from, to) of a file, as a sequence. *)
Slice(file, from, to) == [i \in 1 .. to - from |-> file[from + i - 1]]

(* The positions of block b that no match covers, in order: the literals   *)
(* the block stores.                                                       *)
LiteralsOf(matches, file, b) ==
  LET left[n \in 0 .. BlockEnd(b) - BlockStart(b)] ==
        LET p == BlockStart(b) + n - 1
        IN  IF n = 0 THEN <<>>
            ELSE IF \E m \in matches : Covers(m, p) THEN left[n - 1]
            ELSE Append(left[n - 1], file[p])
  IN  left[BlockEnd(b) - BlockStart(b)]

-----------------------------------------------------------------------------
(* The part of a match whose SOURCE lies in block b: what the list of      *)
(* block b must carry for it (dest may be in a later block).               *)

HasSourceIn(m, b) == m.src < BlockEnd(b) /\ m.src + m.len > BlockStart(b)

Fragment(m, b) ==
  LET lo == IF m.src > BlockStart(b) THEN m.src ELSE BlockStart(b)
      hi == IF m.src + m.len < BlockEnd(b) THEN m.src + m.len ELSE BlockEnd(b)
  IN  [src |-> lo, dest |-> lo + (m.dest - m.src), len |-> hi - lo]

Fragments(matches, b) == {Fragment(m, b) : m \in {n \in matches : HasSourceIn(n, b)}}

(* A record of a list: lit is the distance from the previous record's      *)
(* source (or from the start of the block), off the distance to the        *)
(* destination.                                                            *)
BySource(f, g) == f.src < g.src \/ (f.src = g.src /\ f.dest < g.dest)

Records(frags, b) ==
  LET sorted == [k \in 1 .. Cardinality(frags) |->
                   CHOOSE f \in frags : Cardinality({g \in frags : BySource(g, f)}) = k - 1]
      basis(i) == IF i = 1 THEN BlockStart(b) ELSE sorted[i - 1].src
  IN  [i \in DOMAIN sorted |-> [lit |-> sorted[i].src - basis(i),
                                off |-> sorted[i].dest - sorted[i].src,
                                len |-> sorted[i].len]]
=============================================================================

----------------------------- MODULE Container -----------------------------
(***************************************************************************)
(* An archive as the words it is made of, for the v3, v4 and v5 formats    *)
(* (v1 and v2 are framed as v3), and what its readers make of any words:   *)
(* -d, -i and --verify.  Sizes are counted in words: a field, a literal    *)
(* and each of the three numbers of a match take one.  Digests, the hash   *)
(* seed (-hash-) and the base length, 0 in these formats, are left out.    *)
(***************************************************************************)
EXTENDS Buffers, FiniteSets, SequencesExt, FiniteSetsExt

CONSTANTS
  Signature, SignatureInv, ArcSignatureInv, FooterVersion,  \* v1-v4
  V5Magic, V5FooterMagic,                                   \* v5
  Crc(_)                                                    \* CRC-32C of some words

HeaderSize == 2
BlockHeaderSize == 3
FooterSize == 5
V5HeaderSize == 5
V5FooterSize == 6
MatchWords == 3

Sum(s) == FoldLeft(LAMBDA a, n : a + n, 0, s)

-----------------------------------------------------------------------------
(* Writing.  A block is what the second pass made of it: its literals, its *)
(* size, and the matches whose source it holds.                            *)

List(b) == FlattenSeq([i \in DOMAIN b.matches |->
             <<b.matches[i].lit, b.matches[i].dist, b.matches[i].len>>])
Inline(b) == <<Len(b.lits), b.orig, Len(List(b))>> \o List(b) \o b.lits

FutureArchive(blocks) ==
  <<Signature, 3>> \o FlattenSeq([k \in DOMAIN blocks |-> Inline(blocks[k])])

IndexArchive(blocks) ==
  LET lists == [k \in DOMAIN blocks |-> List(blocks[k])]
      table == [k \in DOMAIN blocks |-> Len(lists[k])]
  IN  <<Signature, 4>>
        \o FlattenSeq([k \in DOMAIN blocks |->
             <<Len(blocks[k].lits), blocks[k].orig, 0>> \o blocks[k].lits])
        \o FlattenSeq(lists) \o table
        \o <<Sum(table), FooterSize + Len(blocks), FooterVersion, SignatureInv, ArcSignatureInv>>

Checked(words) == Append(words, Crc(words))

V5Archive(blocks, dup, meta) ==
  LET written == Checked(<<V5Magic, IF dup THEN 1 ELSE 0, Len(blocks),
                          Sum([k \in DOMAIN blocks |-> blocks[k].orig])>>)
                   \o FlattenSeq([k \in DOMAIN blocks |-> Inline(blocks[k])])
      blob == IF dup THEN Checked(meta) ELSE << >>
  IN  written \o blob
        \o Checked(<<V5FooterMagic, Len(blocks),
                     Sum([k \in DOMAIN blocks |-> Len(List(blocks[k]))]),
                     IF dup THEN Len(written) ELSE 0, Len(blob)>>)

-----------------------------------------------------------------------------
(* Reading the framing of v1-v4.                                           *)

(* The version, or 0: no archive. *)
Version(ws) == IF Len(ws) >= HeaderSize /\ ws[1] = Signature /\ ws[2] \in 1 .. 4
                 THEN ws[2] ELSE 0

LastWords(ws, n) == SubSeq(ws, Len(ws) - n + 1, Len(ws))

(* The footer of a v4 archive, when there is one and what it announces     *)
(* fits the file.                                                          *)
FooterFits(ws) ==
  /\ Len(ws) >= HeaderSize + FooterSize
  /\ LET f == LastWords(ws, FooterSize)
     IN  /\ f[5] = ArcSignatureInv /\ f[4] = SignatureInv /\ f[3] = FooterVersion
         /\ f[2] >= FooterSize
         /\ f[1] + f[2] <= Len(ws) - HeaderSize

TotalStat(ws) == ws[Len(ws) - FooterSize + 1]
FooterWords(ws) == ws[Len(ws) - FooterSize + 2]

StatTable(ws) == Part(ws, Len(ws) - FooterWords(ws), FooterWords(ws) - FooterSize)

(* The block at w.pos, in the part of the file that holds blocks.          *)
WalkBlock(ws, end, w) ==
  LET lit == ws[w.pos + 1]
      orig == ws[w.pos + 2]
      stat == ws[w.pos + 3]
      v4 == Version(ws) = 4
      need == BlockHeaderSize + (IF v4 THEN 0 ELSE stat) + lit
  IN  IF w.pos = end THEN [w EXCEPT !.stop = "end"]
      ELSE IF end - w.pos < BlockHeaderSize THEN [w EXCEPT !.stop = "bad"]
      ELSE IF ~ v4 /\ lit = 0 /\ orig = 0 THEN [w EXCEPT !.stop = "terminated"]
      ELSE IF v4 /\ (w.blocks >= Len(StatTable(ws)) \/ stat # 0)
        THEN [w EXCEPT !.stop = "bad"]
      ELSE IF end - w.pos < need THEN [w EXCEPT !.stop = "bad"]
      ELSE [w EXCEPT !.pos = @ + need, !.blocks = @ + 1, !.orig = @ + orig]

RECURSIVE WalkOn(_, _, _)
WalkOn(ws, end, w) == IF w.stop = "" THEN WalkOn(ws, end, WalkBlock(ws, end, w)) ELSE w

(* Is this a whole archive?  The blocks have to fill their part of the     *)
(* file, and those of v4 to use up the table.                              *)
Walk(ws) ==
  LET v4 == Version(ws) = 4
      end == IF v4 THEN Len(ws) - FooterWords(ws) - TotalStat(ws) ELSE Len(ws)
      w == WalkOn(ws, end, [pos |-> HeaderSize, blocks |-> 0, orig |-> 0, stop |-> ""])
      whole == v4 => w.blocks = Len(StatTable(ws)) /\ Sum(StatTable(ws)) = TotalStat(ws)
  IN  IF Version(ws) = 0 \/ (v4 /\ ~ FooterFits(ws)) THEN [ok |-> FALSE]
      ELSE [ok |-> w.stop # "bad" /\ whole, orig |-> w.orig, terminated |-> w.stop = "terminated"]

(* Archive::parse_with makes the same checks of an archive in memory. *)
Parse(ws) == Walk(ws)

-----------------------------------------------------------------------------
(* Reading the blocks of v1-v4, as the decoders do: what the walk checks   *)
(* of v4 before it is not checked here.                                    *)

MatchesIn(list) ==
  [i \in 1 .. Len(list) \div MatchWords |->
     [lit |-> list[3 * i - 2], dist |-> list[3 * i - 1], len |-> list[3 * i]]]

StartOf(blocks, k) == Sum([i \in 1 .. k - 1 |-> blocks[i].orig])

(* Where every match of some blocks comes from and goes. *)
Copies(blocks) ==
  UNION {LET src(i) == StartOf(blocks, k) + Sum([j \in 1 .. i |-> blocks[k].matches[j].lit])
         IN  {[block |-> k, nth |-> i, src |-> src(i), len |-> blocks[k].matches[i].len,
               dest |-> src(i) + blocks[k].matches[i].dist] : i \in DOMAIN blocks[k].matches}
         : k \in DOMAIN blocks}

(* No match waits for a block to come. *)
Delivered(blocks) == \A m \in Copies(blocks) : m.dest < StartOf(blocks, Len(blocks) + 1)

(* A version word damaged to 1 or 2 makes an I/O-LZ archive of any.        *)
IsIoLz(ws) == Version(ws) \in {1, 2}

(* May the blocks end here?  v4 counts them, and I/O-LZ has none waiting.  *)
MayEnd(ws, blocks) == IsIoLz(ws) \/ (Version(ws) = 3 /\ Delivered(blocks))

ReadBlock(ws, r) ==
  LET v4 == Version(ws) = 4
      left == Len(ws) - r.pos - BlockHeaderSize
      lit == ws[r.pos + 1]
      orig == ws[r.pos + 2]
      stat == IF v4 THEN StatTable(ws)[Len(r.blocks) + 1] ELSE ws[r.pos + 3]
      inline == IF v4 THEN 0 ELSE stat
      list == IF v4 THEN SubSeq(r.lists, 1, stat) ELSE Part(ws, r.pos + BlockHeaderSize, stat)
  IN  IF v4 /\ Len(r.blocks) = Len(StatTable(ws)) THEN [r EXCEPT !.stop = "end"]
      ELSE IF r.pos = Len(ws)
        THEN [r EXCEPT !.stop = IF MayEnd(ws, r.blocks) THEN "end" ELSE "bad"]
      ELSE IF left < 0 THEN [r EXCEPT !.stop = "bad"]
      ELSE IF lit = 0 /\ orig = 0 /\ MayEnd(ws, r.blocks) THEN [r EXCEPT !.stop = "end"]
      ELSE IF (v4 /\ stat > Len(r.lists)) \/ inline + lit > left THEN [r EXCEPT !.stop = "bad"]
      ELSE [pos |-> r.pos + BlockHeaderSize + inline + lit,
            lists |-> IF v4 THEN SubSeq(r.lists, stat + 1, Len(r.lists)) ELSE r.lists,
            blocks |-> Append(r.blocks, [lits |-> Part(ws, r.pos + BlockHeaderSize + inline, lit),
                                         orig |-> orig, matches |-> MatchesIn(list)]),
            stop |-> ""]

RECURSIVE ReadOn(_, _)
ReadOn(ws, r) == IF r.stop = "" THEN ReadOn(ws, ReadBlock(ws, r)) ELSE r

-----------------------------------------------------------------------------
(* What the blocks of Future-LZ decode to: every match inside its block    *)
(* and ahead of its source, and of those that are used no two over one     *)
(* another, none over the end of a block, and the literals what they       *)
(* leave.  Of the matches with one destination the first is used and the   *)
(* others are dropped.  One of length 0 is taken for a mark, whose slot is *)
(* not there.                                                              *)

InBlock(blocks, m) ==
  LET end == StartOf(blocks, m.block + 1)
  IN  m.src < end /\ m.len <= end - m.src /\ m.src < m.dest

NotAfter(m, n) == m.block < n.block \/ (m.block = n.block /\ m.nth <= n.nth)

Used(blocks) ==
  LET copies == Copies(blocks)
  IN  {m \in copies : \A n \in copies : n.dest = m.dest => NotAfter(m, n)}

Decodes(blocks) ==
  LET into(k) == {m \in Used(blocks) :
                    StartOf(blocks, k) <= m.dest /\ m.dest < StartOf(blocks, k + 1)}
      covered(k) == FoldSet(LAMBDA m, a : a + m.len, 0, into(k))
  IN  /\ \A m \in Copies(blocks) : InBlock(blocks, m)
      /\ \A k \in DOMAIN blocks :
           /\ \A m \in into(k) : m.len > 0 /\ m.dest + m.len <= StartOf(blocks, k + 1)
           /\ \A m, n \in into(k) : m # n => m.dest + m.len <= n.dest \/ n.dest + n.len <= m.dest
           /\ Len(blocks[k].lits) = blocks[k].orig - covered(k)

Content(blocks) ==
  LET used == Used(blocks)
      over(p) == {m \in used : m.dest <= p /\ p < m.dest + m.len}
      blockOf(p) == CHOOSE k \in DOMAIN blocks :
                      StartOf(blocks, k) <= p /\ p < StartOf(blocks, k + 1)
      nth(p) == Cardinality({q \in StartOf(blocks, blockOf(p)) .. p : over(q) = {}})
      byte[p \in 0 .. StartOf(blocks, Len(blocks) + 1) - 1] ==
        IF over(p) = {} THEN blocks[blockOf(p)].lits[nth(p)]
        ELSE LET m == CHOOSE n \in over(p) : TRUE IN byte[p - (m.dest - m.src)]
  IN  [i \in 1 .. StartOf(blocks, Len(blocks) + 1) |-> byte[i - 1]]

Refused == [ok |-> FALSE, out |-> << >>]
Decoded(blocks) == IF Decodes(blocks) THEN [ok |-> TRUE, out |-> Content(blocks)] ELSE Refused

(* What they decode to as I/O-LZ, whose matches copy from behind: s is the *)
(* output so far and how many of the literals of block b are used.         *)
BackCopy(b, end, m, s) ==
  LET dest == Len(s.out) + m.lit
      src == dest - m.dist
      buf == s.out \o Part(b.lits, s.used, m.lit)
  IN  IF /\ s.ok
         /\ m.lit <= Len(b.lits) - s.used /\ dest + m.len <= end
         /\ 0 <= src /\ src < dest
        THEN [ok |-> TRUE, used |-> s.used + m.lit, out |-> buf \o LzCopy(buf, src, m.len)]
        ELSE [s EXCEPT !.ok = FALSE]

BackBlock(b, s) ==
  LET end == Len(s.out) + b.orig
      t == FoldLeft(LAMBDA a, m : BackCopy(b, end, m, a), [s EXCEPT !.used = 0], b.matches)
      rest == Len(b.lits) - t.used
  IN  IF t.ok /\ Len(t.out) + rest = end
        THEN [t EXCEPT !.out = @ \o Part(b.lits, t.used, rest)]
        ELSE [t EXCEPT !.ok = FALSE]

(* v1 counts in units of its base length, and with a base of 0 has no use  *)
(* for a match.                                                            *)
BackDecoded(ws, blocks) ==
  LET s == FoldLeft(LAMBDA a, b : BackBlock(b, a), [ok |-> TRUE, used |-> 0, out |-> << >>], blocks)
      baseless == Version(ws) = 1 /\ \E k \in DOMAIN blocks : blocks[k].matches # << >>
  IN  IF s.ok /\ ~ baseless THEN [ok |-> TRUE, out |-> s.out] ELSE Refused

DecodeV14(ws) ==
  LET v4 == Version(ws) = 4
      lists == IF v4 THEN Part(ws, Len(ws) - FooterWords(ws) - TotalStat(ws), TotalStat(ws))
               ELSE << >>
      r == ReadOn(ws, [pos |-> HeaderSize, lists |-> lists, blocks |-> << >>, stop |-> ""])
  IN  IF Version(ws) = 0 \/ (v4 /\ ~ FooterFits(ws)) \/ r.stop = "bad" THEN Refused
      ELSE IF IsIoLz(ws) THEN BackDecoded(ws, r.blocks) ELSE Decoded(r.blocks)

-----------------------------------------------------------------------------
(* Version 5: self-contained blocks between a checked header and footer.   *)

HasV5Magic(ws) == Len(ws) >= V5HeaderSize /\ ws[1] = V5Magic
V5HeaderOk(ws) == HasV5Magic(ws) /\ ws[5] = Crc(SubSeq(ws, 1, 4)) /\ ws[2] \in {0, 1}
HasDup(ws) == ws[2] = 1

V5Footer(ws) == LET f == LastWords(ws, V5FooterSize)
                IN  [magic |-> f[1], blocks |-> f[2], stat |-> f[3], metaAt |-> f[4],
                     metaSize |-> f[5], crc |-> f[6]]

(* Mutant: the footer's checksum is not looked at. *)
V5FooterOkUnchecked(ws) == V5Footer(ws).magic = V5FooterMagic

V5FooterOk(ws) ==
  /\ V5Footer(ws).magic = V5FooterMagic
  /\ V5Footer(ws).crc = Crc(SubSeq(LastWords(ws, V5FooterSize), 1, 5))

V5ReadBlock(ws, r) ==
  LET left == Len(ws) - r.pos - BlockHeaderSize
      lit == ws[r.pos + 1]
      orig == ws[r.pos + 2]
      stat == ws[r.pos + 3]
  IN  IF Len(r.blocks) = ws[3] THEN [r EXCEPT !.stop = "end"]
      ELSE IF left < 0 THEN [r EXCEPT !.stop = "bad"]
      ELSE IF stat + lit > left \/ stat % MatchWords # 0 THEN [r EXCEPT !.stop = "bad"]
      ELSE [pos |-> r.pos + BlockHeaderSize + stat + lit,
            stat |-> r.stat + stat,
            blocks |-> Append(r.blocks,
              [lits |-> Part(ws, r.pos + BlockHeaderSize + stat, lit), orig |-> orig,
               matches |-> MatchesIn(Part(ws, r.pos + BlockHeaderSize, stat))]),
            stop |-> ""]

RECURSIVE V5ReadOn(_, _)
V5ReadOn(ws, r) == IF r.stop = "" THEN V5ReadOn(ws, V5ReadBlock(ws, r)) ELSE r

V5Blocks(ws) == V5ReadOn(ws, [pos |-> V5HeaderSize, stat |-> 0, blocks |-> << >>, stop |-> ""])

(* The blocks end where the footer says they do. *)
V5Tiles(ws, r) ==
  LET f == V5Footer(ws)
  IN  /\ r.stop = "end" /\ f.blocks = ws[3] /\ f.stat = r.stat
      /\ r.pos + f.metaSize + V5FooterSize = Len(ws)

DecodeV5(ws) ==
  IF /\ Len(ws) >= V5HeaderSize + V5FooterSize
     /\ V5FooterOk(ws) /\ V5HeaderOk(ws)
     /\ HasDup(ws) <=> V5Footer(ws).metaSize # 0
     /\ V5Tiles(ws, V5Blocks(ws))
    THEN Decoded(V5Blocks(ws).blocks)
    ELSE Refused

(* archive::decode: the first word says which decoder. *)
Decode(ws) == IF HasV5Magic(ws) THEN DecodeV5(ws) ELSE DecodeV14(ws)

-----------------------------------------------------------------------------
(* The meta of a v5 archive, checked.                                      *)

IsDupref(m, dupr, version) == Len(m) >= 4 /\ m[1] = dupr /\ m[2] = version

V5MetaInFile(ws) == LET f == V5Footer(ws) IN f.metaSize # 0 /\ f.metaAt + f.metaSize <= Len(ws)
V5Blob(ws) == Part(ws, V5Footer(ws).metaAt, V5Footer(ws).metaSize)
V5Payload(ws) == LET b == V5Blob(ws) IN SubSeq(b, 1, Len(b) - 1)

V5MetaOk(ws, dupr, version) ==
  /\ V5MetaInFile(ws)
  /\ IsDupref(V5Payload(ws), dupr, version)
  /\ V5Blob(ws)[Len(V5Blob(ws))] = Crc(V5Payload(ws))

(* What v5::parse accepts, for -i and --verify. *)
V5Parses(ws, dupr, version) ==
  /\ V5HeaderOk(ws) /\ Len(ws) >= V5HeaderSize + V5FooterSize
  /\ V5FooterOk(ws)
  /\ V5Tiles(ws, V5Blocks(ws))
  /\ HasDup(ws) => V5MetaOk(ws, dupr, version)

(* Mutant: the blocks need not add up to the size of the header. *)
VerifiesUnsummed(ws, dupr, version) ==
  /\ V5Parses(ws, dupr, version)
  /\ LET blocks == V5Blocks(ws).blocks
     IN  \A m \in Copies(blocks) : InBlock(blocks, m) /\ m.dest + m.len <= ws[4]

(* --verify: the framing, the checksums and the range of every record. *)
Verifies(ws, dupr, version) ==
  /\ V5Parses(ws, dupr, version)
  /\ LET blocks == V5Blocks(ws).blocks
     IN  /\ \A m \in Copies(blocks) : InBlock(blocks, m) /\ m.dest + m.len <= ws[4]
         /\ StartOf(blocks, Len(blocks) + 1) = ws[4]
=============================================================================

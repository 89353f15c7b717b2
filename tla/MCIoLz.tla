------------------------------- MODULE MCIoLz -------------------------------
(* IoLz on every archive of a small file, whole or damaged.                *)
EXTENDS IoLz, MCMatches

CONSTANTS
  Versions,  \* formats checked
  Base       \* base length of the archives

(* A list stores distances and lengths in units of v; a match must be      *)
(* whole units, from a whole unit, to be stored so.                        *)
Storable(m, v) == v = 1 => m.src % Base = 0 /\ m.len % Base = 0

Stored(ms, b, v) ==
  LET list == ByDest(EndingIn(ms, b))
      unit == IF v = 1 THEN Base ELSE 1
      from(k) == IF k = 1 THEN BlockStart(b) ELSE list[k - 1].dest + list[k - 1].len
  IN  [k \in DOMAIN list |-> [lit |-> list[k].dest - from(k),
                              off |-> (list[k].dest - list[k].src) \div unit,
                              len |-> (list[k].len - Base) \div unit]]

ArchiveOf(ms, v) ==
  LET byte == Content(ms)
      blockOf(b) == [size   |-> BlockEnd(b) - BlockStart(b),
                     lits   |-> LiteralsOf(ms, byte, b),
                     recs   |-> Stored(ms, b, v),
                     digest |-> Slice(byte, BlockStart(b), BlockEnd(b))]
  IN  [version |-> v, base |-> Base, blocks |-> [b \in Blocks |-> blockOf(b)],
       torn |-> FALSE, verified |-> FALSE, intact |-> TRUE,
       file |-> Slice(byte, 0, FileSize)]

Intact ==
  UNION {{ArchiveOf(ms, v) : ms \in {S \in MatchSets : \A m \in S : Storable(m, v)}} :
           v \in Versions}

(* An archive of these gives its file back, record by record.              *)
Ends(a) ==
  [b \in DOMAIN a.blocks |->
     LET recs == a.blocks[b].recs
         end[k \in 0 .. Len(recs)] ==
           IF k = 0 THEN BlockStart(b)
           ELSE LET m == Decoded(a.version = 1, a.base, recs[k], end[k - 1]) IN m.dest + m.len
     IN  end]

Used(a) ==
  [b \in DOMAIN a.blocks |->
     LET recs == a.blocks[b].recs
         used[k \in 0 .. Len(recs)] == IF k = 0 THEN 0 ELSE used[k - 1] + recs[k].lit
     IN  used]

PieceStarts(a) ==
  [b \in 1 .. Len(a.blocks) + 1 |-> IF b <= NumBlocks THEN BlockStart(b) ELSE FileSize]

ASSUME IntactAssumption == \A a \in Intact : Makes(a, PieceStarts(a), Ends(a), Used(a))

-----------------------------------------------------------------------------
(* The same with their digests and one thing damaged: a field of a record, *)
(* a literal, the list of literals, the base length, the end of the file.  *)
HurtBlock(x) ==
  {[x EXCEPT !.recs[i].lit = v] : i \in DOMAIN x.recs, v \in 0 .. 2}
    \cup {[x EXCEPT !.recs[i].off = v] : i \in DOMAIN x.recs, v \in 0 .. 3}
    \cup {[x EXCEPT !.recs[i].len = v] : i \in DOMAIN x.recs, v \in 0 .. 2}
    \cup {[x EXCEPT !.lits[i] = FileSize] : i \in DOMAIN x.lits}
    \cup {[x EXCEPT !.lits = Tail(x.lits)] : i \in {1} \cap DOMAIN x.lits}
    \cup {[x EXCEPT !.size = 0, !.lits = <<>>]}

Hurt(a) ==
  UNION {{[a EXCEPT !.blocks[b] = x] : x \in HurtBlock(a.blocks[b])} : b \in Blocks}
    \cup {[a EXCEPT !.blocks = SubSeq(@, 1, n), !.torn = t] :
            n \in 0 .. NumBlocks - 1, t \in BOOLEAN}
    \cup {[a EXCEPT !.base = n] : n \in 0 .. Base + 1}

Hurtable ==
  UNION {Hurt([a EXCEPT !.verified = TRUE, !.intact = FALSE]) : a \in Intact}

Every == Intact \cup Hurtable

(* They all have the digests of their file, in order.                      *)
ASSUME DigestsAssumption == \A a \in Every : DigestsOf(a, PieceStarts(a))
=============================================================================

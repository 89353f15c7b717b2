----------------------------- MODULE MCFutureLz -----------------------------
(* FutureLz on every archive of a small file.                              *)
EXTENDS FutureLz, MCMatches

CONSTANT Kinds   \* formats checked

ArchiveOf(ms, k) ==
  LET byte == Content(ms)
      blockOf(b) == [size   |-> BlockEnd(b) - BlockStart(b),
                     lits   |-> LiteralsOf(ms, byte, b),
                     recs   |-> Records(Fragments(ms, b), b),
                     digest |-> Slice(byte, BlockStart(b), BlockEnd(b))]
      bs == [b \in Blocks |-> blockOf(b)]
      stat == MapThenSumSet(LAMBDA b : Len(bs[b].recs), Blocks)
  IN  [kind |-> k, count |-> IF k = "v5" THEN NumBlocks ELSE 0, blocks |-> bs,
       footer |-> IF k = "v3" THEN NoFooter
                  ELSE [count |-> NumBlocks, stat |-> stat, present |-> TRUE],
       verified |-> FALSE, intact |-> TRUE, file |-> Slice(byte, 0, FileSize)]

Intact == {ArchiveOf(ms, k) : ms \in MatchSets, k \in Kinds}

(* An archive of these gives its file back: its matches copy the same      *)
(* bytes and its literals are the rest.                                    *)
Starts(a) == [b \in 1 .. NumBlocks + 1 |-> IF b <= NumBlocks THEN BlockStart(b) ELSE FileSize]

From(a) ==
  [b \in Blocks |->
     LET recs == a.blocks[b].recs
         from[k \in 0 .. Len(recs)] ==
           IF k = 0 THEN BlockStart(b) ELSE from[k - 1] + recs[k].lit
     IN  from]

Kept(a) ==
  LET found == MatchesOf(a, From(a))
      lands(p) == \E m \in found : Covers(m, p)
      upTo(b) == LET kept[p \in BlockStart(b) .. BlockEnd(b)] ==
                       IF p = BlockStart(b) THEN 0
                       ELSE kept[p - 1] + (IF lands(p - 1) THEN 0 ELSE 1)
                 IN  kept
  IN  [b \in Blocks |-> upTo(b)]

Stats(a) ==
  LET stat[b \in 0 .. NumBlocks] == IF b = 0 THEN 0 ELSE stat[b - 1] + Len(a.blocks[b].recs)
  IN  stat

ASSUME IntactAssumption == \A a \in Intact : Makes(a, Starts(a), From(a), Kept(a), Stats(a))
=============================================================================

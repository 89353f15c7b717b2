------------------------------ MODULE MCDamaged ------------------------------
EXTENDS MCFutureLz

(* The same archives with their digests, and one thing in them damaged: a  *)
(* field of a record, a literal, a literal lost, a digest, a whole block   *)
(* emptied, the end of the file cut off, or a number of the footer.        *)

HurtBlock(x) ==
  {[x EXCEPT !.recs[i].lit = v] : i \in DOMAIN x.recs, v \in {0, 2}}
    \cup {[x EXCEPT !.recs[i].off = v] : i \in DOMAIN x.recs, v \in {0, 1, 3}}
    \cup {[x EXCEPT !.recs[i].len = v] : i \in DOMAIN x.recs, v \in {0, 3}}
    \cup {[x EXCEPT !.lits[i] = FileSize] : i \in DOMAIN x.lits}
    \cup {[x EXCEPT !.lits = Tail(x.lits)] : i \in {1} \cap DOMAIN x.lits}
    \cup {[x EXCEPT !.digest = <<FileSize>>], [x EXCEPT !.size = 0, !.lits = <<>>]}

CutOff(a, n) ==
  [a EXCEPT !.blocks = SubSeq(a.blocks, 1, n), !.footer = NoFooter]

HurtFooter(a) ==
  IF a.kind = "v5"
    THEN {[a EXCEPT !.footer.count = @ + 1], [a EXCEPT !.footer.stat = @ + 1],
          [a EXCEPT !.blocks = SubSeq(@, 1, NumBlocks - 1)]}
    ELSE {}

Hurt(a) ==
  UNION {{[a EXCEPT !.blocks[b] = x] : x \in HurtBlock(a.blocks[b])} : b \in Blocks}
    \cup {CutOff(a, n) : n \in 0 .. NumBlocks - 1}
    \cup HurtFooter(a)

Hurtable ==
  UNION {Hurt([a EXCEPT !.verified = TRUE, !.intact = FALSE]) : a \in Intact}

(* All of them have the digests of their file, in order.                    *)
PieceStarts(a) ==
  [b \in 1 .. Len(a.blocks) + 1 |-> IF b <= NumBlocks THEN BlockStart(b) ELSE FileSize]

ASSUME DigestsAssumption ==
  \A a \in Hurtable \cup Intact : DigestsOf(a, PieceStarts(a))
=============================================================================

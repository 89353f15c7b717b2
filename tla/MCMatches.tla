----------------------------- MODULE MCMatches -----------------------------
(* Every set of matches a first pass could record for a small file.        *)
EXTENDS LzFormat, FiniteSetsExt

CONSTANTS
  MinMatch,    \* shortest match
  Sources,     \* positions where matches start
  MinCovered   \* bytes that matches cover in every block but the first

MayMatch(b) == {m \in MatchesInto(b) : m.len >= MinMatch /\ m.src \in Sources}

Covered(S) == MapThenSumSet(LAMBDA m : m.len, S)

(* The matches the first pass may record for block b: at most two, here.   *)
BlockMatches(b) ==
  {S \in {{}} \cup {{m, n} : m, n \in MayMatch(b)} :
     DisjointDests(S) /\ (b > 1 => Covered(S) >= MinCovered)}

(* One choice for every block; blocks are the parts of a whole file.       *)
MatchSets ==
  LET choices == [b \in Blocks |-> BlockMatches(b)]
      upTo[b \in 0 .. NumBlocks] ==
        IF b = 0 THEN {{}} ELSE {S \cup T : S \in upTo[b - 1], T \in choices[b]}
  IN  upTo[NumBlocks]

(* Matches in the order the first pass leaves them. *)
ByDest(S) ==
  [k \in 1 .. Cardinality(S) |->
     CHOOSE m \in S : Cardinality({n \in S : n.dest < m.dest}) = k - 1]

EndingIn(ms, b) == {m \in ms : BlockStart(b) <= m.dest /\ m.dest < BlockEnd(b)}
=============================================================================

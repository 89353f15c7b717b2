-------------------------- MODULE SecondPassProofs --------------------------
(***************************************************************************)
(* Proofs about the second pass, for every file, block size and result of  *)
(* the first pass: the lists it writes are exactly the pieces of matches   *)
(* due in each block.                                                      *)
(***************************************************************************)
EXTENDS SecondPass, WellFoundedInduction, TLAPS

-----------------------------------------------------------------------------
(* Blocks. *)

(* The arithmetic of blocks. *)
LEMMA BlockBounds ==
  ASSUME NEW b \in Blocks
  PROVE  /\ BlockStart(b) \in Nat /\ BlockEnd(b) \in Nat
         /\ BlockStart(b) < BlockEnd(b)
         /\ BlockEnd(b) <= BlockStart(b) + BlockSize
         /\ BlockEnd(b) <= FileSize
<1> DEFINE n == (FileSize + BlockSize - 1) \div BlockSize
<1>1. b \in Nat /\ 1 <= b /\ b <= n /\ FileSize \in Nat /\ BlockSize \in Nat /\ BlockSize > 0
  BY FileAssumption DEF Blocks, NumBlocks
<1>2. n * BlockSize <= FileSize + BlockSize - 1 /\ n \in Nat
  BY <1>1, FileAssumption, Z3
<1>3. b * BlockSize <= n * BlockSize
  BY <1>1, <1>2, Z3
<1>4. (b - 1) * BlockSize = b * BlockSize - BlockSize /\ b * BlockSize \in Nat
  BY <1>1, Z3
<1>5. (b - 1) * BlockSize < FileSize /\ (b - 1) * BlockSize \in Nat
  <2>1. (b - 1) * BlockSize >= 0
    BY <1>1, Z3
  <2> HIDE DEF n
  <2> QED BY <1>1, <1>2, <1>3, <1>4, <2>1
<1> QED BY <1>1, <1>4, <1>5 DEF BlockStart, BlockEnd

LEMMA NextBlock ==
  ASSUME NEW b \in Nat
  PROVE  /\ BlockStart(b + 1) = BlockStart(b) + BlockSize
         /\ b \in Blocks /\ b + 1 \in Blocks => BlockEnd(b) = BlockStart(b + 1)
<1>1. BlockStart(b + 1) = b * BlockSize
  BY FileAssumption DEF BlockStart
<1>2. BlockStart(b) + BlockSize = b * BlockSize
  BY FileAssumption, Z3 DEF BlockStart
<1>3. ASSUME b \in Blocks, b + 1 \in Blocks PROVE BlockEnd(b) = BlockStart(b + 1)
  <2>1. BlockStart(b + 1) < BlockEnd(b + 1) /\ BlockEnd(b + 1) <= FileSize
        /\ BlockStart(b + 1) \in Nat /\ BlockEnd(b + 1) \in Nat
    BY <1>3, BlockBounds
  <2>2. b * BlockSize < FileSize
    BY <2>1, <1>1, FileAssumption
  <2> QED BY <2>2, <1>1 DEF BlockEnd
<1> QED BY <1>1, <1>2, <1>3

-----------------------------------------------------------------------------
(* The inductive invariant, in parts. *)

Apart(s) ==
  \A j, k \in DOMAIN s : j # k =>
    s[j].dest + s[j].len <= s[k].dest \/ s[k].dest + s[k].len <= s[j].dest

Sorted(s) == \A j, k \in DOMAIN s : j < k => s[j].src <= s[k].src

(* While gathering: the lists up to the cursor, and nothing that reaches   *)
(* past blockPos.                                                          *)
GatheredTo(f, n) == UNION {Elements(f[b]) : b \in 1 .. n}
Beginning(list, n) == {list[k] : k \in 1 .. n}

Gathered ==
  GatheredTo(first, bi)
    \cup IF bi < NumBlocks THEN Beginning(first[block], at - 1) ELSE {}

GatherInv ==
  pc = "gather" =>
    /\ Elements(matches) = Gathered
    /\ Apart(matches)
    /\ \A k \in DOMAIN matches : matches[k].dest + matches[k].len <= blockPos
    /\ bi < NumBlocks => at <= Len(first[block]) + 1 /\ blockPos = Before(at)
    /\ i = 1 /\ savedI = 1 /\ out = <<>>

(* From then on: all matches, in order of source, and a finished list for  *)
(* every block done.                                                       *)
SortedInv ==
  pc # "gather" =>
    /\ Elements(matches) = Found
    /\ Apart(matches) /\ Sorted(matches)
    /\ Len(out) = bi

(* Between blocks, all that is before the cursor is behind.                *)
BlockInv ==
  pc = "block" => \A k \in 1 .. i - 1 : Behind(matches[k])

Passed == {k \in 1 .. i - 1 : ~ Behind(matches[k])}

ScanInv ==
  pc = "scan" =>
    /\ bi < NumBlocks /\ savedI <= i
    /\ \A k \in 1 .. savedI - 1 : matches[k].src < Start
    /\ \A k \in 1 .. i - 1 : matches[k].src < EndPos
    /\ Elements(scanned) = {Cut(matches[k]) : k \in Passed}
    /\ \A j, k \in DOMAIN scanned : j # k => scanned[j] # scanned[k]

CopyInv ==
  pc = "copy" =>
    /\ bi < NumBlocks
    /\ \A k \in 1 .. i - 1 : matches[k].src < Start
    /\ Elements(scanned) = Fragments(Found, block)
    /\ \A j, k \in DOMAIN scanned : j # k => scanned[j] # scanned[k]
    /\ at <= Len(first[block]) + 1 /\ inPos = Before(at)

(* The records of a list say where the pieces are.                         *)
DistanceInv ==
  /\ pc = "scan" =>
       /\ blockPos = IF scanned = <<>> THEN Start ELSE scanned[Len(scanned)].src
       /\ \A k \in i .. Len(matches) : blockPos <= Cut(matches[k]).src
  /\ pc \in {"scan", "copy"} => Len(stat) = Len(scanned) /\ AddsUp(stat, scanned, block)

IInv ==
  /\ TypeOK /\ GatherInv /\ SortedInv /\ BlockInv /\ ScanInv /\ CopyInv
  /\ DistanceInv /\ ListsExact /\ DistancesAddUp

-----------------------------------------------------------------------------
(* Sequences and matches. *)

LEMMA ElementsAppend ==
  ASSUME NEW S, NEW s \in Seq(S), NEW e \in S
  PROVE  /\ Append(s, e) \in Seq(S) /\ Len(Append(s, e)) = Len(s) + 1
         /\ DOMAIN Append(s, e) = 1 .. Len(s) + 1 /\ DOMAIN s = 1 .. Len(s)
         /\ \A k \in DOMAIN s : Append(s, e)[k] = s[k]
         /\ Append(s, e)[Len(s) + 1] = e
         /\ Elements(Append(s, e)) = Elements(s) \cup {e}
<1>1. /\ Append(s, e) \in Seq(S) /\ Len(Append(s, e)) = Len(s) + 1
      /\ DOMAIN Append(s, e) = 1 .. Len(s) + 1 /\ DOMAIN s = 1 .. Len(s)
      /\ \A k \in DOMAIN s : Append(s, e)[k] = s[k]
      /\ Append(s, e)[Len(s) + 1] = e
      /\ Len(s) \in Nat
  OBVIOUS
<1> DEFINE t == Append(s, e)
<1>2. DOMAIN t = DOMAIN s \cup {Len(s) + 1}
  BY <1>1
<1>3. \A k \in DOMAIN s : t[k] = s[k]
  BY <1>1
<1>4. t[Len(s) + 1] = e
  BY <1>1
<1> HIDE DEF t
<1>5. {t[k] : k \in DOMAIN t} = {s[k] : k \in DOMAIN s} \cup {e}
  BY <1>2, <1>3, <1>4
<1>6. Elements(t) = Elements(s) \cup {e}
  BY <1>5 DEF Elements
<1> QED BY <1>1, <1>6 DEF t

(* What the first pass leaves is made of matches. *)
LEMMA FirstLists ==
  ASSUME TypeOK, NEW b \in Blocks
  PROVE  first[b] \in Seq(Match) /\ FirstPass(first)
BY FirstPassAssumption DEF TypeOK

LEMMA FoundMatches ==
  ASSUME TypeOK, NEW m \in Found
  PROVE  /\ m \in Match /\ m.src \in Nat /\ m.dest \in Nat /\ m.len \in Nat
         /\ m.src < m.dest /\ 1 <= m.len /\ m.len <= BlockSize
<1>1. PICK b \in Blocks : m \in Elements(first[b])
  BY Zenon DEF Found
<1>2. PICK k \in DOMAIN first[b] : m = first[b][k]
  BY <1>1, Zenon DEF Elements
<1>3. first[b] \in Seq(Match) /\ FirstPass(first)
  BY FirstLists
<1>4. m \in Match /\ m.src < m.dest
  BY <1>2, <1>3 DEF FirstPass
<1> QED BY <1>4, FileAssumption DEF Match, Positions

LEMMA SortedMatches ==
  ASSUME TypeOK, SortedInv, pc # "gather", NEW k \in DOMAIN matches
  PROVE  /\ matches[k] \in Found
         /\ matches[k] \in Match /\ matches[k].src \in Nat /\ matches[k].dest \in Nat
         /\ matches[k].len \in Nat /\ matches[k].src < matches[k].dest
         /\ 1 <= matches[k].len /\ matches[k].len <= BlockSize
<1>1. matches[k] \in Found
  BY DEF SortedInv, Elements
<1> QED BY <1>1, FoundMatches

-----------------------------------------------------------------------------
(* The initial states. *)

LEMMA InitInv == Init => IInv
<1> SUFFICES ASSUME Init PROVE IInv
  OBVIOUS
<1>1. TypeOK
  <2>1. NumBlocks \in Nat
    BY FileAssumption DEF NumBlocks
  <2> QED BY <2>1 DEF Init, TypeOK
<1>2. GatherInv
  <2>1. Elements(matches) = {} /\ Gathered = {}
    BY DEF Init, Elements, Gathered, GatheredTo, Beginning
  <2>2. BlockStart(1) = 0
    BY FileAssumption DEF BlockStart
  <2>3. ASSUME bi < NumBlocks PROVE at <= Len(first[block]) + 1 /\ blockPos = Before(at)
    <3>1. block \in Blocks /\ block = 1
      BY <2>3, FileAssumption DEF Init, block, Blocks, NumBlocks
    <3>2. Len(first[block]) \in Nat
      BY <3>1, <1>1, FirstLists
    <3> QED BY <3>1, <3>2, <2>2 DEF Init, Before, Start
  <2> QED BY <2>1, <2>3 DEF Init, GatherInv, Apart
<1>3. SortedInv /\ BlockInv /\ ScanInv /\ CopyInv /\ DistanceInv
  BY DEF Init, SortedInv, BlockInv, ScanInv, CopyInv, DistanceInv
<1>4. ListsExact /\ DistancesAddUp
  BY DEF Init, ListsExact, DistancesAddUp
<1> QED BY <1>1, <1>2, <1>3, <1>4 DEF IInv

-----------------------------------------------------------------------------
(* Gathering and sorting. *)

(* The parts of the invariant a step leaves alone while gathering.         *)
LEMMA StillGathering ==
  ASSUME IInv, pc = "gather", pc' = pc, first' = first, UNCHANGED out
  PROVE  /\ SortedInv' /\ BlockInv' /\ ScanInv' /\ CopyInv' /\ DistanceInv'
         /\ ListsExact' /\ DistancesAddUp'
<1>1. SortedInv' /\ BlockInv' /\ ScanInv' /\ CopyInv' /\ DistanceInv'
  BY DEF SortedInv, BlockInv, ScanInv, CopyInv, DistanceInv
<1>2. Found' = Found
  BY DEF Found
<1>3. ListsExact' /\ DistancesAddUp'
  BY <1>2 DEF IInv, ListsExact, DistancesAddUp, AddsUp
<1> QED BY <1>1, <1>3

LEMMA GatherRecordInv == IInv /\ GatherRecord => IInv'
<1> SUFFICES ASSUME IInv, GatherRecord PROVE IInv'
  OBVIOUS
<1> DEFINE m == first[block][at]
           r == FirstRecord(at)
           e == [src |-> (blockPos + r.lit) - r.off, dest |-> blockPos + r.lit, len |-> r.len]
<1>1. TypeOK /\ GatherInv /\ bi < NumBlocks /\ at <= Len(first[block]) /\ pc = "gather"
      /\ matches' = Append(matches, e) /\ blockPos' = blockPos + r.lit + r.len /\ at' = at + 1
      /\ UNCHANGED <<first, pc, bi, i, savedI, stat, scanned, inPos, lits, out>>
  <2>1. TypeOK /\ GatherInv
    BY DEF IInv
  <2>2. matches' = Append(matches, e)
    BY DEF GatherRecord
  <2>4. blockPos' = blockPos + r.lit + r.len
    BY DEF GatherRecord
  <2>3. /\ bi < NumBlocks /\ at <= Len(first[block]) /\ pc = "gather" /\ at' = at + 1
        /\ UNCHANGED <<first, pc, bi, i, savedI, stat, scanned, inPos, lits, out>>
    BY DEF GatherRecord, copyVars
  <2> QED BY <2>1, <2>2, <2>3, <2>4
<1>2. /\ at \in Nat \ {0} /\ bi \in Nat /\ NumBlocks \in Nat /\ block = bi + 1
      /\ block \in Blocks /\ blockPos \in Nat /\ matches \in Seq(Placed)
  BY <1>1, FileAssumption DEF TypeOK, block, Blocks, NumBlocks
<1>3. first[block] \in Seq(Match) /\ FirstPass(first)
  BY <1>1, <1>2, FirstLists
<1>4. at \in DOMAIN first[block] /\ Len(first[block]) \in Nat
      /\ DOMAIN first[block] = 1 .. Len(first[block])
  BY <1>1, <1>2, <1>3
<1>5. m \in Match /\ m.src < m.dest /\ Start <= m.dest
  BY <1>3, <1>4, <1>2 DEF FirstPass, Start
<1>6. m.src \in Nat /\ m.dest \in Nat /\ m.len \in Nat /\ m = [src |-> m.src, dest |-> m.dest, len |-> m.len]
  BY <1>5, FileAssumption DEF Match, Positions
<1>7. Before(at) <= m.dest
  <2>1. CASE at = 1
    BY <2>1, <1>5 DEF Before
  <2>2. CASE at # 1
    <3>1. at - 1 \in DOMAIN first[block] /\ at - 1 < at
      BY <2>2, <1>2, <1>4
    <3> QED BY <3>1, <1>2, <1>3, <1>4, <2>2 DEF Before, FirstPass
  <2> QED BY <2>1, <2>2
<1>8. blockPos = Before(at)
  BY <1>1 DEF GatherInv
<1>9. r.lit = m.dest - blockPos /\ r.off = m.dest - m.src /\ r.len = m.len
  BY <1>8 DEF FirstRecord
<1>10. e = m /\ r.lit \in Nat /\ r.off \in Nat /\ blockPos + r.lit = m.dest
  <2>1. blockPos <= m.dest
    BY <1>7, <1>8
  <2>2. m.dest - blockPos \in Nat /\ m.dest - m.src \in Nat
    BY <2>1, <1>2, <1>5, <1>6
  <2>3. blockPos + r.lit = m.dest /\ (blockPos + r.lit) - r.off = m.src
    BY <1>2, <1>6, <1>9
  <2> HIDE DEF m, r
  <2>4. e = [src |-> m.src, dest |-> m.dest, len |-> m.len]
    BY <2>3, <1>9
  <2> QED BY <2>2, <2>3, <2>4, <1>6, <1>9
<1>11. e \in Placed /\ blockPos' = m.dest + m.len
  BY <1>10, <1>6, <1>1, <1>9 DEF Placed
<1> HIDE DEF m, r, e
<1>12. /\ matches' \in Seq(Placed) /\ Len(matches') = Len(matches) + 1
       /\ DOMAIN matches' = 1 .. Len(matches) + 1 /\ DOMAIN matches = 1 .. Len(matches)
       /\ \A k \in DOMAIN matches : matches'[k] = matches[k]
       /\ matches'[Len(matches) + 1] = e
       /\ Elements(matches)' = Elements(matches) \cup {e} /\ Len(matches) \in Nat
  BY <1>1, <1>2, <1>11, ElementsAppend
<1>13. TypeOK'
  <2>1. at' \in Nat \ {0} /\ blockPos' \in Nat
    BY <1>1, <1>2, <1>11, <1>6
  <2>2. i \in 1 .. Len(matches') + 1 /\ savedI \in 1 .. Len(matches') + 1
    BY <1>1, <1>12 DEF TypeOK
  <2> QED BY <1>1, <1>12, <2>1, <2>2 DEF TypeOK
<1>14. Elements(matches)' = Gathered'
  <2>1. first[block][at] = e
    BY <1>10 DEF m
  <2>2. 1 .. at' - 1 = (1 .. at - 1) \cup {at}
    BY <1>1, <1>2
  <2>3. Beginning(first[block], at' - 1) = Beginning(first[block], at - 1) \cup {e}
    BY <2>1, <2>2 DEF Beginning
  <2>4. Elements(matches) = Gathered
    BY <1>1 DEF GatherInv
  <2>5. Gathered = GatheredTo(first, bi) \cup Beginning(first[block], at - 1)
    BY <1>1 DEF Gathered
  <2>a. first' = first /\ bi' = bi
    BY <1>1
  <2>b. block' = block
    BY <2>a DEF block
  <2>6. /\ GatheredTo(first', bi') = GatheredTo(first, bi)
        /\ Beginning(first'[block'], at' - 1) = Beginning(first[block], at' - 1)
    BY <2>a, <2>b
  <2>7. Gathered' = GatheredTo(first, bi) \cup Beginning(first[block], at' - 1)
    BY <2>6, <2>b, <1>1 DEF Gathered
  <2>8. Gathered' = Gathered \cup {e}
    BY <2>3, <2>5, <2>7
  <2> QED BY <2>4, <2>8, <1>12
<1>15. \A k \in DOMAIN matches : matches[k].dest + matches[k].len <= blockPos
       /\ matches[k].dest \in Nat /\ matches[k].len \in Nat
  <2>1. \A k \in DOMAIN matches : matches[k] \in Placed
    BY <1>2
  <2>2. \A k \in DOMAIN matches : matches[k].dest + matches[k].len <= blockPos
    BY <1>1, Zenon DEF GatherInv
  <2> QED BY <2>1, <2>2 DEF Placed
<1>16. \A k \in DOMAIN matches' : matches'[k].dest + matches'[k].len <= blockPos'
  <2>a. blockPos \in Nat /\ blockPos' \in Nat /\ blockPos <= blockPos'
    BY <1>2, <1>6, <1>7, <1>8, <1>11
  <2> TAKE k \in DOMAIN matches'
  <2>1. CASE k \in DOMAIN matches
    <3>1. matches'[k] = matches[k]
      BY <2>1, <1>12
    <3>2. /\ matches[k].dest + matches[k].len <= blockPos
          /\ matches[k].dest + matches[k].len \in Nat
      BY <2>1, <1>15
    <3>3. matches[k].dest + matches[k].len <= blockPos'
      BY <3>2, <2>a
    <3> QED BY <3>1, <3>3
  <2>2. CASE k = Len(matches) + 1
    BY <2>2, <1>12, <1>10, <1>11, <1>6
  <2> QED BY <2>1, <2>2, <1>12
<1>17. Apart(matches')
  <2>1. \A k \in DOMAIN matches : matches[k].dest + matches[k].len <= e.dest
    <3>1. blockPos <= e.dest /\ e.dest \in Nat
      BY <1>7, <1>8, <1>10, <1>6
    <3> QED BY <3>1, <1>2, <1>15
  <2>2. \A k \in DOMAIN matches' : k \in DOMAIN matches \/ k = Len(matches) + 1
    BY <1>12
  <2>3. Apart(matches)
    BY <1>1 DEF GatherInv
  <2> QED BY <2>1, <2>2, <2>3, <1>12 DEF Apart
<1>18. at' <= Len(first'[block']) + 1 /\ blockPos' = Before(at)'
  <2>1. block' = block
    BY <1>1 DEF block
  <2>2. Before(at)' = first[block][at].dest + first[block][at].len
    BY <1>1, <1>2, <2>1 DEF Before
  <2> QED BY <2>1, <2>2, <1>1, <1>2, <1>4, <1>11 DEF m
<1>19. GatherInv'
  BY <1>1, <1>14, <1>16, <1>17, <1>18 DEF GatherInv
<1>20. SortedInv' /\ BlockInv' /\ ScanInv' /\ CopyInv' /\ DistanceInv'
       /\ ListsExact' /\ DistancesAddUp'
  BY <1>1, StillGathering
<1> QED BY <1>13, <1>19, <1>20 DEF IInv

LEMMA GatherNextInv == IInv /\ GatherNext => IInv'
<1> SUFFICES ASSUME IInv, GatherNext PROVE IInv'
  OBVIOUS
<1>1. TypeOK /\ GatherInv /\ bi < NumBlocks /\ at > Len(first[block]) /\ pc = "gather"
      /\ bi' = bi + 1 /\ at' = 1 /\ blockPos' = EndPos
      /\ UNCHANGED <<first, pc, matches, i, savedI, stat, scanned, inPos, lits, out>>
  BY DEF IInv, GatherNext, copyVars
<1>2. /\ at \in Nat \ {0} /\ bi \in Nat /\ NumBlocks \in Nat /\ block = bi + 1
      /\ block \in Blocks /\ blockPos \in Nat /\ matches \in Seq(Placed)
  BY <1>1, FileAssumption DEF TypeOK, block, Blocks, NumBlocks
<1>3. first[block] \in Seq(Match) /\ FirstPass(first)
  BY <1>1, <1>2, FirstLists
<1>4. at = Len(first[block]) + 1 /\ Len(first[block]) \in Nat
      /\ DOMAIN first[block] = 1 .. Len(first[block])
  BY <1>1, <1>2, <1>3 DEF GatherInv
<1>5. Start \in Nat /\ EndPos \in Nat /\ Start <= EndPos
  BY <1>2, BlockBounds DEF Start, EndPos
<1>6. blockPos <= EndPos
  <2>1. blockPos = Before(at)
    BY <1>1 DEF GatherInv
  <2>2. CASE at = 1
    BY <2>1, <2>2, <1>5 DEF Before
  <2>3. CASE at # 1
    <3>1. at - 1 \in DOMAIN first[block]
      BY <2>3, <1>2, <1>4
    <3> QED BY <3>1, <2>1, <2>3, <1>2, <1>3 DEF Before, FirstPass, EndPos
  <2> QED BY <2>2, <2>3
<1>7. TypeOK'
  BY <1>1, <1>2, <1>5 DEF TypeOK
<1>8. Elements(matches)' = Gathered'
  <2>1. Beginning(first[block], at - 1) = Elements(first[block])
    BY <1>4 DEF Elements, Beginning
  <2>2. 1 .. bi' = (1 .. bi) \cup {block}
    BY <1>1, <1>2
  <2>3. Beginning(first'[block'], at' - 1) = {}
    BY <1>1 DEF Beginning
  <2>a. first' = first
    BY <1>1
  <2>4. GatheredTo(first', bi') = GatheredTo(first, bi')
    BY <2>a
  <2>5. Gathered' = GatheredTo(first, bi')
    BY <2>3, <2>4 DEF Gathered
  <2>6. Gathered = GatheredTo(first, bi) \cup Elements(first[block])
    BY <2>1, <1>1 DEF Gathered
  <2>7. GatheredTo(first, bi') = GatheredTo(first, bi) \cup Elements(first[block])
    BY <2>2 DEF GatheredTo
  <2> QED BY <2>5, <2>6, <2>7, <1>1 DEF GatherInv, Elements
<1>9. \A k \in DOMAIN matches : matches[k].dest + matches[k].len <= EndPos
  <2> TAKE k \in DOMAIN matches
  <2>1. matches[k] \in Placed
    BY <1>2
  <2>2. matches[k].dest + matches[k].len <= blockPos
    BY <1>1, Zenon DEF GatherInv
  <2> QED BY <2>1, <2>2, <1>2, <1>5, <1>6 DEF Placed
<1>10. ASSUME bi' < NumBlocks PROVE at' <= Len(first[block]') + 1 /\ blockPos' = Before(at)'
  <2>1. block' \in Blocks /\ block' = block + 1
    BY <1>10, <1>1, <1>2 DEF block, Blocks
  <2>2. first[block'] \in Seq(Match)
    BY <2>1, <1>1, FirstLists
  <2>3. EndPos = BlockStart(block + 1)
    BY <2>1, <1>2, NextBlock DEF EndPos
  <2>4. Before(at)' = BlockStart(block')
    BY <1>1 DEF Before, Start
  <2> QED BY <2>1, <2>2, <2>3, <2>4, <1>1
<1>11. GatherInv'
  BY <1>1, <1>8, <1>9, <1>10 DEF GatherInv, Apart
<1>12. SortedInv' /\ BlockInv' /\ ScanInv' /\ CopyInv' /\ DistanceInv'
       /\ ListsExact' /\ DistancesAddUp'
  BY <1>1, StillGathering
<1> QED BY <1>7, <1>11, <1>12 DEF IInv

(* A rearrangement has the same elements. *)
LEMMA SameElements ==
  ASSUME NEW S, NEW s \in Seq(S), NEW p \in [DOMAIN s -> DOMAIN s],
         \A k \in DOMAIN s : \E j \in DOMAIN s : p[j] = k
  PROVE  LET t == [k \in 1 .. Len(s) |-> s[p[k]]]
         IN  t \in Seq(S) /\ Len(t) = Len(s) /\ DOMAIN t = DOMAIN s /\ Elements(t) = Elements(s)
<1> DEFINE t == [k \in 1 .. Len(s) |-> s[p[k]]]
<1>1. Len(s) \in Nat /\ DOMAIN s = 1 .. Len(s) /\ \A k \in DOMAIN s : s[k] \in S
  OBVIOUS
<1>2. \A k \in 1 .. Len(s) : p[k] \in DOMAIN s /\ t[k] = s[p[k]] /\ t[k] \in S
  BY <1>1
<1>3. t \in Seq(S) /\ Len(t) = Len(s) /\ DOMAIN t = DOMAIN s
  BY <1>1, <1>2
<1>4. \A k \in DOMAIN t : t[k] \in Elements(s)
  BY <1>1, <1>2, <1>3 DEF Elements
<1>5. \A k \in DOMAIN s : s[k] \in Elements(t)
  <2> TAKE k \in DOMAIN s
  <2>1. PICK j \in DOMAIN s : p[j] = k
    OBVIOUS
  <2>2. t[j] = s[k] /\ j \in DOMAIN t
    BY <2>1, <1>1, <1>2, <1>3
  <2> HIDE DEF t
  <2> QED BY <2>2 DEF Elements
<1> HIDE DEF t
<1>6. Elements(t) = Elements(s)
  BY <1>4, <1>5 DEF Elements
<1> QED BY <1>3, <1>6 DEF t

LEMMA SortBySrcInv == IInv /\ SortBySrc => IInv'
<1> SUFFICES ASSUME IInv, SortBySrc PROVE IInv'
  OBVIOUS
<1>1. /\ TypeOK /\ GatherInv /\ ListsExact /\ DistancesAddUp
      /\ pc = "gather" /\ bi = NumBlocks /\ pc' = "block" /\ bi' = 0
      /\ UNCHANGED <<first, at, i, savedI, blockPos, stat, scanned, inPos, lits, out>>
  BY DEF IInv, SortBySrc, scanVars, copyVars
<1>2. PICK p \in [DOMAIN matches -> DOMAIN matches] :
        /\ Rearranges(p)
        /\ \A j, k \in DOMAIN matches : j < k => matches[p[j]].src <= matches[p[k]].src
        /\ matches' = [k \in 1 .. Len(matches) |-> matches[p[k]]]
  BY Zenon DEF SortBySrc
<1>3. matches \in Seq(Placed)
  BY <1>1 DEF TypeOK
<1>4. /\ matches' \in Seq(Placed) /\ Len(matches') = Len(matches)
      /\ DOMAIN matches' = DOMAIN matches /\ Elements(matches') = Elements(matches)
  BY <1>2, <1>3, SameElements DEF Rearranges
<1>5. \A k \in DOMAIN matches : matches'[k] = matches[p[k]] /\ p[k] \in DOMAIN matches
  BY <1>2, <1>3
<1>6. TypeOK'
  <2>1. NumBlocks \in Nat
    BY FileAssumption DEF NumBlocks
  <2> QED BY <1>1, <1>4, <2>1 DEF TypeOK
<1>7. Elements(matches') = Found /\ Found' = Found
  <2>0. ~ (bi < NumBlocks)
    BY <1>1, FileAssumption DEF NumBlocks
  <2>1. Gathered = GatheredTo(first, NumBlocks)
    BY <1>1, <2>0 DEF Gathered
  <2>2. GatheredTo(first, NumBlocks) = Found
    BY DEF GatheredTo, Found, Blocks
  <2>3. Found' = Found
    BY <1>1 DEF Found
  <2> QED BY <2>1, <2>2, <2>3, <1>1, <1>4 DEF GatherInv
<1>8. Apart(matches')
  <2>1. Apart(matches)
    BY <1>1 DEF GatherInv
  <2>2. \A j, k \in DOMAIN matches : j # k => p[j] # p[k]
    BY <1>2 DEF Rearranges
  <2> QED BY <2>1, <2>2, <1>4, <1>5 DEF Apart
<1>9. Sorted(matches')
  BY <1>2, <1>4, <1>5 DEF Sorted
<1>10. out = <<>> /\ out' = <<>> /\ i = 1 /\ i' = 1
  BY <1>1 DEF GatherInv
<1>11. SortedInv'
  BY <1>1, <1>7, <1>8, <1>9, <1>10 DEF SortedInv, Elements
<1>12. BlockInv'
  BY <1>10 DEF BlockInv
<1>13. GatherInv' /\ ScanInv' /\ CopyInv' /\ DistanceInv'
  BY <1>1 DEF GatherInv, ScanInv, CopyInv, DistanceInv
<1>14. ListsExact' /\ DistancesAddUp'
  BY <1>10 DEF ListsExact, DistancesAddUp
<1> QED BY <1>6, <1>11, <1>12, <1>13, <1>14 DEF IInv

-----------------------------------------------------------------------------
(* The scan of a block. *)

(* The block in hand, once matches are sorted. *)
LEMMA BlockInHand ==
  ASSUME TypeOK, bi < NumBlocks
  PROVE  /\ bi \in Nat /\ block = bi + 1 /\ block \in Blocks
         /\ Start \in Nat /\ EndPos \in Nat /\ Start < EndPos
         /\ BlockStart(block) = Start /\ BlockEnd(block) = EndPos
<1>1. bi \in Nat /\ block = bi + 1 /\ block \in Blocks
  BY FileAssumption DEF TypeOK, block, Blocks, NumBlocks
<1> QED BY <1>1, BlockBounds DEF Start, EndPos

(* A match with a source in the block is cut to its fragment, which lies   *)
(* within the match.                                                       *)
LEMMA CutIsFragment ==
  ASSUME TypeOK, bi < NumBlocks, NEW m \in Match,
         m.src < m.dest, m.src < EndPos, ~ Behind(m)
  PROVE  /\ Cut(m) = Fragment(m, block) /\ HasSourceIn(m, block)
         /\ Cut(m) \in Placed
         /\ Start <= Cut(m).src /\ m.src <= Cut(m).src
         /\ Cut(m).src < Cut(m).dest
         /\ m.dest <= Cut(m).dest /\ Cut(m).dest < m.dest + m.len
<1>1. m.src \in Nat /\ m.dest \in Nat /\ m.len \in Nat /\ 1 <= m.len
  BY FileAssumption DEF Match, Positions
<1>2. Start \in Nat /\ EndPos \in Nat /\ Start < EndPos
      /\ BlockStart(block) = Start /\ BlockEnd(block) = EndPos
  BY BlockInHand
<1>3. m.src + m.len > Start
  BY <1>1, <1>2 DEF Behind
<1> DEFINE s == IF m.src > Start THEN m.src ELSE Start
           e == IF m.src + m.len < EndPos THEN m.src + m.len ELSE EndPos
           rest == m.len - (s - m.src)
           n == IF EndPos - s < rest THEN EndPos - s ELSE rest
           c == [src |-> s, dest |-> s + (m.dest - m.src), len |-> n]
<1>4. s \in Nat /\ e \in Nat /\ Start <= s /\ m.src <= s /\ s < m.src + m.len /\ s < EndPos
  BY <1>1, <1>2, <1>3
<1>5. n = e - s
  <2>1. rest = (m.src + m.len) - s
    BY <1>1, <1>4
  <2> HIDE DEF s, rest
  <2> QED BY <2>1, <1>1, <1>2, <1>4
<1>6. Cut(m) = c
  BY DEF Cut
<1>7. Fragment(m, block) = [src |-> s, dest |-> s + (m.dest - m.src), len |-> e - s]
  BY <1>2 DEF Fragment
<1>8. Cut(m) = Fragment(m, block)
  BY <1>5, <1>6, <1>7
<1>9. HasSourceIn(m, block)
  BY <1>2, <1>3 DEF HasSourceIn
<1> HIDE DEF s, e, n, rest
<1>10. c.src = s /\ c.dest = s + (m.dest - m.src) /\ c.len = n
  OBVIOUS
<1>11. n \in Nat
  BY <1>5, <1>4, <1>1, <1>2, <1>3 DEF e
<1>12. s + (m.dest - m.src) \in Nat /\ s < s + (m.dest - m.src)
       /\ m.dest <= s + (m.dest - m.src) /\ s + (m.dest - m.src) < m.dest + m.len
  BY <1>1, <1>4
<1>13. c \in Placed
  BY <1>4, <1>11, <1>12 DEF Placed
<1> HIDE DEF c
<1> QED BY <1>4, <1>6, <1>8, <1>9, <1>10, <1>12, <1>13

(* What a step of the scan leaves alone. *)
LEMMA StillScanning ==
  ASSUME IInv, pc = "scan", pc' \in {"scan", "copy"},
         UNCHANGED <<first, bi, matches, out>>
  PROVE  /\ GatherInv' /\ SortedInv' /\ BlockInv' /\ ListsExact' /\ DistancesAddUp'
         /\ block' = block /\ Start' = Start /\ EndPos' = EndPos /\ Found' = Found
<1>1. block' = block
  BY DEF block
<1>2. Start' = Start /\ EndPos' = EndPos
  BY <1>1 DEF Start, EndPos
<1>3. Found' = Found
  BY DEF Found
<1>4. GatherInv' /\ BlockInv'
  BY DEF GatherInv, BlockInv
<1>5. SortedInv'
  BY <1>3 DEF IInv, SortedInv, Elements, Apart, Sorted
<1>6. ListsExact' /\ DistancesAddUp'
  BY <1>3 DEF IInv, ListsExact, DistancesAddUp, AddsUp
<1> QED BY <1>1, <1>2, <1>3, <1>4, <1>5, <1>6

LEMMA BeginBlockInv == IInv /\ BeginBlock => IInv'
<1> SUFFICES ASSUME IInv, BeginBlock PROVE IInv'
  OBVIOUS
<1>1. /\ TypeOK /\ SortedInv /\ BlockInv /\ ListsExact /\ DistancesAddUp
      /\ pc = "block" /\ bi < NumBlocks /\ pc' = "scan"
      /\ stat' = <<>> /\ scanned' = <<>> /\ blockPos' = Start /\ savedI' = i
      /\ UNCHANGED <<first, at, bi, matches, i, inPos, lits, out>>
  BY DEF IInv, BeginBlock, copyVars
<1>2. Start \in Nat /\ EndPos \in Nat /\ Start < EndPos /\ BlockStart(block) = Start
  BY <1>1, BlockInHand
<1>3. block' = block /\ Start' = Start /\ EndPos' = EndPos
  BY <1>1 DEF block, Start, EndPos
<1>4. TypeOK'
  BY <1>1, <1>2 DEF TypeOK
<1>5. matches \in Seq(Placed) /\ i \in 1 .. Len(matches) + 1 /\ Len(matches) \in Nat
  BY <1>1 DEF TypeOK
<1>6. \A k \in 1 .. i - 1 : matches[k].src < Start /\ Behind(matches[k])
  <2> TAKE k \in 1 .. i - 1
  <2>1. k \in DOMAIN matches
    BY <1>5
  <2>2. matches[k].src \in Nat /\ matches[k].len \in Nat /\ 1 <= matches[k].len
    BY <2>1, <1>1, SortedMatches
  <2>3. Behind(matches[k])
    BY <1>1 DEF BlockInv
  <2> QED BY <2>2, <2>3, <1>2 DEF Behind
<1>7. ScanInv'
  <2>1. Passed' = {}
    <3>1. \A k \in 1 .. i - 1 : Behind(matches[k])'
      BY <1>1, <1>3, <1>6 DEF Behind
    <3> QED BY <3>1, <1>1 DEF Passed
  <2>2. \A k \in 1 .. i - 1 : matches[k].src < EndPos
    <3> TAKE k \in 1 .. i - 1
    <3>1. k \in DOMAIN matches
      BY <1>5
    <3>2. matches[k].src \in Nat
      BY <3>1, <1>1, SortedMatches
    <3> QED BY <3>2, <1>2, <1>6
  <2>3. Elements(scanned') = {}
    BY <1>1 DEF Elements
  <2>4. {Cut(matches[k]) : k \in Passed}' = {}
    BY <2>1
  <2> QED BY <2>2, <2>3, <2>4, <1>1, <1>3, <1>5, <1>6 DEF ScanInv
<1>8. DistanceInv'
  <2>1. \A k \in i .. Len(matches) : Start <= Cut(matches[k]).src
    <3> TAKE k \in i .. Len(matches)
    <3>1. k \in DOMAIN matches
      BY <1>5
    <3>2. matches[k].src \in Nat
      BY <3>1, <1>1, SortedMatches
    <3> QED BY <3>2, <1>2 DEF Cut
  <2>2. \A k \in i .. Len(matches) : Start <= Cut(matches[k])'.src
    BY <2>1, <1>1, <1>3 DEF Cut
  <2>3. AddsUp(stat', scanned', block') /\ Len(stat') = Len(scanned')
    BY <1>1 DEF AddsUp
  <2> QED BY <2>2, <2>3, <1>1, <1>3 DEF DistanceInv
<1>9. GatherInv' /\ CopyInv' /\ BlockInv'
  BY <1>1 DEF GatherInv, CopyInv, BlockInv
<1>10. SortedInv' /\ ListsExact' /\ DistancesAddUp'
  <2>1. Found' = Found
    BY <1>1 DEF Found
  <2> QED BY <2>1, <1>1 DEF SortedInv, ListsExact, DistancesAddUp, AddsUp, Elements, Apart, Sorted
<1> QED BY <1>4, <1>7, <1>8, <1>9, <1>10 DEF IInv

LEMMA PassOverInv == IInv /\ PassOver => IInv'
<1> SUFFICES ASSUME IInv, PassOver PROVE IInv'
  OBVIOUS
<1>1. /\ TypeOK /\ SortedInv /\ ScanInv /\ DistanceInv
      /\ pc = "scan" /\ pc' = "scan" /\ Reached /\ Behind(matches[i])
      /\ savedI' = i /\ i' = i + 1
      /\ UNCHANGED <<first, at, bi, matches, blockPos, stat, scanned, inPos, lits, out>>
  BY DEF IInv, PassOver, copyVars
<1>2. bi < NumBlocks /\ i \in 1 .. Len(matches) /\ matches[i].src < EndPos
      /\ Len(matches) \in Nat /\ matches \in Seq(Placed)
      /\ DOMAIN matches = 1 .. Len(matches)
  BY <1>1 DEF ScanInv, TypeOK, Reached
<1>3. Start \in Nat /\ EndPos \in Nat /\ Start < EndPos
  BY <1>1, <1>2, BlockInHand
<1>4. /\ GatherInv' /\ SortedInv' /\ BlockInv' /\ ListsExact' /\ DistancesAddUp'
      /\ block' = block /\ Start' = Start /\ EndPos' = EndPos
  BY <1>1, StillScanning
<1>5. TypeOK'
  BY <1>1, <1>2 DEF TypeOK
<1>6. matches[i].src < Start
  <2>1. matches[i].src \in Nat /\ matches[i].len \in Nat /\ 1 <= matches[i].len
    BY <1>1, <1>2, SortedMatches
  <2> QED BY <2>1, <1>1, <1>3 DEF Behind
<1>7. \A k \in 1 .. i : matches[k].src < Start /\ matches[k].src < EndPos
  <2> TAKE k \in 1 .. i
  <2>1. k \in DOMAIN matches /\ (k < i \/ k = i)
    BY <1>2
  <2>2. matches[k].src \in Nat /\ matches[i].src \in Nat
    BY <2>1, <1>1, <1>2, SortedMatches
  <2>3. matches[k].src <= matches[i].src
    BY <2>1, <2>2, <1>1, <1>2 DEF SortedInv, Sorted
  <2> QED BY <2>2, <2>3, <1>3, <1>6
<1>8. {Cut(matches[k]) : k \in Passed}' = {Cut(matches[k]) : k \in Passed}
  <2>1. \A m : Behind(m)' <=> Behind(m)
    BY <1>4 DEF Behind
  <2>2. 1 .. i' - 1 = (1 .. i - 1) \cup {i}
    BY <1>1, <1>2
  <2>3. Passed' = Passed
    BY <2>1, <2>2, <1>1 DEF Passed, Behind
  <2>4. \A k : Cut(matches[k])' = Cut(matches[k])
    BY <1>1, <1>4 DEF Cut
  <2> QED BY <2>3, <2>4
<1>9. ScanInv'
  BY <1>1, <1>2, <1>4, <1>7, <1>8 DEF ScanInv
<1>10. DistanceInv'
  <2>1. \A k : Cut(matches[k])' = Cut(matches[k])
    BY <1>1, <1>4 DEF Cut
  <2>2. \A k \in i' .. Len(matches) : k \in i .. Len(matches)
    BY <1>1, <1>2
  <2>3. \A k \in i' .. Len(matches') : blockPos' <= Cut(matches[k])'.src
    BY <2>1, <2>2, <1>1 DEF DistanceInv
  <2> QED BY <2>3, <1>1, <1>4 DEF DistanceInv, AddsUp
<1>11. CopyInv'
  BY <1>1 DEF CopyInv
<1> QED BY <1>4, <1>5, <1>9, <1>10, <1>11 DEF IInv

(* Two matches put their pieces in different places. *)
LEMMA CutsDiffer ==
  ASSUME TypeOK, SortedInv, pc # "gather", bi < NumBlocks,
         NEW j \in DOMAIN matches, NEW k \in DOMAIN matches, j # k,
         matches[j].src < EndPos, ~ Behind(matches[j]),
         matches[k].src < EndPos, ~ Behind(matches[k])
  PROVE  Cut(matches[j]) # Cut(matches[k])
<1>1. /\ matches[j] \in Match /\ matches[j].src < matches[j].dest
      /\ matches[j].dest \in Nat /\ matches[j].len \in Nat
      /\ matches[k] \in Match /\ matches[k].src < matches[k].dest
      /\ matches[k].dest \in Nat /\ matches[k].len \in Nat
  BY SortedMatches
<1>2. /\ matches[j].dest <= Cut(matches[j]).dest
      /\ Cut(matches[j]).dest < matches[j].dest + matches[j].len
      /\ Cut(matches[j]) \in Placed
  BY <1>1, CutIsFragment
<1>3. /\ matches[k].dest <= Cut(matches[k]).dest
      /\ Cut(matches[k]).dest < matches[k].dest + matches[k].len
      /\ Cut(matches[k]) \in Placed
  BY <1>1, CutIsFragment
<1>4. \/ matches[j].dest + matches[j].len <= matches[k].dest
      \/ matches[k].dest + matches[k].len <= matches[j].dest
  BY DEF SortedInv, Apart
<1>5. Cut(matches[j]).dest \in Nat /\ Cut(matches[k]).dest \in Nat
  BY <1>2, <1>3 DEF Placed
<1>6. Cut(matches[j]).dest # Cut(matches[k]).dest
  BY <1>1, <1>2, <1>3, <1>4, <1>5
<1> QED BY <1>6

LEMMA EmitMatchInv == IInv /\ EmitMatch => IInv'
<1> SUFFICES ASSUME IInv, EmitMatch PROVE IInv'
  OBVIOUS
<1> DEFINE m == matches[i]
           c == Cut(m)
           r == [lit |-> c.src - blockPos, off |-> c.dest - c.src, len |-> c.len]
<1>1. /\ TypeOK /\ SortedInv /\ ScanInv /\ DistanceInv
      /\ pc = "scan" /\ pc' = "scan" /\ Reached /\ ~ Behind(m)
      /\ i' = i + 1 /\ blockPos' = c.src
      /\ UNCHANGED <<first, at, bi, matches, savedI, inPos, lits, out>>
  BY DEF IInv, EmitMatch, copyVars
<1>2. stat' = Append(stat, r) /\ scanned' = Append(scanned, c)
  BY DEF EmitMatch
<1>3. bi < NumBlocks /\ i \in 1 .. Len(matches) /\ m.src < EndPos
      /\ Len(matches) \in Nat /\ matches \in Seq(Placed)
      /\ DOMAIN matches = 1 .. Len(matches)
  BY <1>1 DEF ScanInv, TypeOK, Reached
<1>4. Start \in Nat /\ EndPos \in Nat /\ Start < EndPos /\ BlockStart(block) = Start
  BY <1>1, <1>3, BlockInHand
<1>5. /\ GatherInv' /\ SortedInv' /\ BlockInv' /\ ListsExact' /\ DistancesAddUp'
      /\ block' = block /\ Start' = Start /\ EndPos' = EndPos
  BY <1>1, StillScanning
<1>6. /\ m \in Match /\ m.src < m.dest /\ m.src \in Nat /\ m.dest \in Nat /\ m.len \in Nat
  BY <1>1, <1>3, SortedMatches
<1>7. c \in Placed /\ Start <= c.src /\ m.src <= c.src /\ c.src < c.dest
      /\ c.src \in Nat /\ c.dest \in Nat /\ c.len \in Nat
  <2>1. c \in Placed /\ Start <= c.src /\ m.src <= c.src /\ c.src < c.dest
    BY <1>1, <1>3, <1>6, CutIsFragment
  <2> HIDE DEF c
  <2> QED BY <2>1 DEF Placed
<1>8. blockPos \in Nat /\ blockPos <= c.src
  <2>1. \A k \in i .. Len(matches) : blockPos <= Cut(matches[k]).src
    BY <1>1 DEF DistanceInv
  <2> QED BY <2>1, <1>1, <1>3 DEF TypeOK
<1>9. r \in Coded
  <2> HIDE DEF c
  <2> QED BY <1>7, <1>8 DEF Coded
<1> HIDE DEF r
<1>10. stat \in Seq(Coded) /\ scanned \in Seq(Placed)
  BY <1>1 DEF TypeOK
<1>11. /\ stat' \in Seq(Coded) /\ Len(stat') = Len(stat) + 1
       /\ DOMAIN stat' = 1 .. Len(stat) + 1 /\ DOMAIN stat = 1 .. Len(stat)
       /\ \A k \in DOMAIN stat : stat'[k] = stat[k]
       /\ stat'[Len(stat) + 1] = r
  BY <1>2, <1>9, <1>10, ElementsAppend
<1>12. /\ scanned' \in Seq(Placed) /\ Len(scanned') = Len(scanned) + 1
       /\ DOMAIN scanned' = 1 .. Len(scanned) + 1 /\ DOMAIN scanned = 1 .. Len(scanned)
       /\ \A k \in DOMAIN scanned : scanned'[k] = scanned[k]
       /\ scanned'[Len(scanned) + 1] = c
       /\ Elements(scanned') = Elements(scanned) \cup {c}
  BY <1>2, <1>7, <1>10, ElementsAppend
<1>13. TypeOK'
  <2>1. blockPos' \in Nat /\ i' \in 1 .. Len(matches) + 1
    BY <1>1, <1>3, <1>7
  <2> QED BY <2>1, <1>1, <1>11, <1>12 DEF TypeOK
<1>14. Passed' = Passed \cup {i}
  <2>1. \A k : Behind(matches[k])' <=> Behind(matches[k])
    BY <1>1, <1>5 DEF Behind
  <2>2. 1 .. i' - 1 = (1 .. i - 1) \cup {i}
    BY <1>1, <1>3
  <2> QED BY <2>1, <2>2, <1>1 DEF Passed
<1>15. \A k : Cut(matches[k])' = Cut(matches[k])
  BY <1>1, <1>5 DEF Cut
<1>16. Elements(scanned') = {Cut(matches[k]) : k \in Passed}'
  <2>1. Elements(scanned) = {Cut(matches[k]) : k \in Passed}
    BY <1>1 DEF ScanInv
  <2>2. {Cut(matches[k]) : k \in Passed \cup {i}} = {Cut(matches[k]) : k \in Passed} \cup {c}
    OBVIOUS
  <2>3. {Cut(matches[k]) : k \in Passed}' = {Cut(matches[k]) : k \in Passed \cup {i}}
    BY <1>14, <1>15
  <2> QED BY <2>1, <2>2, <2>3, <1>12
<1>17. \A j \in DOMAIN scanned : scanned[j] # c
  <2> TAKE j \in DOMAIN scanned
  <2>1. PICK k \in Passed : scanned[j] = Cut(matches[k])
    BY <1>1 DEF ScanInv, Elements
  <2>2. k \in DOMAIN matches /\ k # i /\ ~ Behind(matches[k]) /\ matches[k].src < EndPos
    BY <1>1, <1>3 DEF Passed, ScanInv
  <2> QED BY <2>1, <2>2, <1>1, <1>3, CutsDiffer
<1>18. \A j, k \in DOMAIN scanned' : j # k => scanned'[j] # scanned'[k]
  <2>1. \A k \in DOMAIN scanned' : k \in DOMAIN scanned \/ k = Len(scanned) + 1
    BY <1>12, <1>10
  <2>2. \A j, k \in DOMAIN scanned : j # k => scanned[j] # scanned[k]
    BY <1>1 DEF ScanInv
  <2> HIDE DEF c
  <2> QED BY <2>1, <2>2, <1>12, <1>17
<1>19. ScanInv'
  <2>1. \A k \in 1 .. i' - 1 : matches[k].src < EndPos
    <3>1. \A k \in 1 .. i' - 1 : k \in 1 .. i - 1 \/ k = i
      BY <1>1, <1>3
    <3> QED BY <3>1, <1>1, <1>3 DEF ScanInv
  <2>2. savedI' <= i'
    BY <1>1, <1>3 DEF ScanInv, TypeOK
  <2>3. \A k \in 1 .. savedI' - 1 : matches'[k].src < Start'
    BY <1>1, <1>5 DEF ScanInv
  <2> QED BY <2>1, <2>2, <2>3, <1>1, <1>3, <1>5, <1>16, <1>18 DEF ScanInv
<1>20. blockPos' = IF scanned' = <<>> THEN Start' ELSE scanned'[Len(scanned')].src
  BY <1>1, <1>12, <1>10
<1>21. \A k \in i' .. Len(matches') : blockPos' <= Cut(matches[k])'.src
  <2> TAKE k \in i' .. Len(matches')
  <2>1. k \in DOMAIN matches /\ i < k
    BY <1>1, <1>3
  <2>2. matches[k].src \in Nat /\ matches[i].src <= matches[k].src
    BY <2>1, <1>1, <1>3, SortedMatches DEF SortedInv, Sorted
  <2>3. c.src <= Cut(matches[k]).src
    BY <2>2, <1>4, <1>6 DEF Cut
  <2> QED BY <2>3, <1>1, <1>15
<1>22. Len(stat') = Len(scanned') /\ AddsUp(stat', scanned', block)
  <2>1. Len(stat) = Len(scanned) /\ AddsUp(stat, scanned, block)
    BY <1>1 DEF DistanceInv
  <2>2. Len(scanned) \in Nat /\ (scanned = <<>> <=> Len(scanned) = 0)
    BY <1>10
  <2>3. blockPos = IF Len(scanned) = 0 THEN Start ELSE scanned[Len(scanned)].src
    BY <2>2, <1>1 DEF DistanceInv
  <2>4. r.lit = c.src - blockPos /\ r.off = c.dest - c.src /\ r.len = c.len
    BY DEF r
  <2>5. blockPos + r.lit = c.src /\ c.src + r.off = c.dest
    BY <2>4, <1>7, <1>8
  <2> DEFINE From(s, k) == IF k = 1 THEN BlockStart(block) ELSE s[k - 1].src
  <2>6. ASSUME NEW k \in DOMAIN stat'
        PROVE  /\ From(scanned', k) + stat'[k].lit = scanned'[k].src
               /\ scanned'[k].src + stat'[k].off = scanned'[k].dest
               /\ stat'[k].len = scanned'[k].len
    <3>1. CASE k \in DOMAIN stat
      <4>1. k \in DOMAIN scanned /\ (k # 1 => k - 1 \in DOMAIN scanned)
        BY <3>1, <2>1, <1>11, <1>12
      <4>2. From(scanned', k) = From(scanned, k) /\ scanned'[k] = scanned[k]
            /\ stat'[k] = stat[k]
        BY <4>1, <3>1, <1>11, <1>12
      <4> QED BY <4>2, <3>1, <2>1 DEF AddsUp
    <3>2. CASE k = Len(stat) + 1
      <4>1. From(scanned', k) = blockPos
        <5>1. CASE k = 1
          BY <5>1, <3>2, <2>1, <2>2, <2>3, <1>4
        <5>2. CASE k # 1
          <6>1. k - 1 = Len(scanned) /\ Len(scanned) \in DOMAIN scanned
            BY <5>2, <3>2, <2>1, <2>2, <1>12
          <6> QED BY <6>1, <5>2, <2>2, <2>3, <1>12
        <5> QED BY <5>1, <5>2
      <4>2. stat'[k] = r /\ scanned'[k] = c
        BY <3>2, <2>1, <1>11, <1>12
      <4> HIDE DEF c, From
      <4> QED BY <4>1, <4>2, <2>4, <2>5
    <3> QED BY <3>1, <3>2, <2>1, <2>2, <1>11
  <2> QED BY <2>1, <2>6, <1>11, <1>12 DEF AddsUp
<1>23. DistanceInv'
  BY <1>1, <1>5, <1>20, <1>21, <1>22 DEF DistanceInv
<1>24. CopyInv'
  BY <1>1 DEF CopyInv
<1> QED BY <1>5, <1>13, <1>19, <1>23, <1>24 DEF IInv

(* The scan has passed exactly the matches with a source in the block.     *)
LEMMA EndScanInv == IInv /\ EndScan => IInv'
<1> SUFFICES ASSUME IInv, EndScan PROVE IInv'
  OBVIOUS
<1>1. /\ TypeOK /\ SortedInv /\ ScanInv /\ DistanceInv
      /\ pc = "scan" /\ pc' = "copy" /\ ~ Reached /\ i' = savedI
      /\ at' = 1 /\ inPos' = Start /\ lits' = <<>>
      /\ UNCHANGED <<first, bi, matches, savedI, blockPos, stat, scanned, out>>
  BY DEF IInv, EndScan
<1>2. bi < NumBlocks /\ i \in 1 .. Len(matches) + 1 /\ savedI \in 1 .. Len(matches) + 1
      /\ Len(matches) \in Nat /\ DOMAIN matches = 1 .. Len(matches)
  BY <1>1 DEF ScanInv, TypeOK
<1>3. Start \in Nat /\ EndPos \in Nat /\ Start < EndPos /\ block \in Blocks
      /\ BlockStart(block) = Start /\ BlockEnd(block) = EndPos
  BY <1>1, <1>2, BlockInHand
<1>4. /\ GatherInv' /\ SortedInv' /\ BlockInv' /\ ListsExact' /\ DistancesAddUp'
      /\ block' = block /\ Start' = Start /\ EndPos' = EndPos /\ Found' = Found
  BY <1>1, StillScanning
<1>5. TypeOK'
  BY <1>1, <1>2, <1>3 DEF TypeOK
<1>6. \A k \in i .. Len(matches) : matches[k].src >= EndPos
  <2> TAKE k \in i .. Len(matches)
  <2>1. k \in DOMAIN matches /\ i \in DOMAIN matches /\ (k = i \/ i < k)
    BY <1>2
  <2>2. matches[k].src \in Nat /\ matches[i].src \in Nat
    BY <2>1, <1>1, SortedMatches
  <2>3. matches[i].src <= matches[k].src
    BY <2>1, <2>2, <1>1 DEF SortedInv, Sorted
  <2>4. matches[i].src >= EndPos
    BY <2>1, <2>2, <1>1, <1>2, <1>3 DEF Reached
  <2> QED BY <2>2, <2>3, <2>4, <1>3
<1>7. \A k \in DOMAIN matches : k \in Passed <=> HasSourceIn(matches[k], block)
  <2> TAKE k \in DOMAIN matches
  <2>1. matches[k].src \in Nat /\ matches[k].len \in Nat
    BY <1>1, SortedMatches
  <2>2. CASE k \in 1 .. i - 1
    <3>1. matches[k].src < EndPos
      BY <2>2, <1>1 DEF ScanInv
    <3> QED BY <3>1, <2>1, <2>2, <1>3 DEF Passed, Behind, HasSourceIn
  <2>3. CASE k \notin 1 .. i - 1
    <3>1. matches[k].src >= EndPos
      BY <2>3, <1>2, <1>6
    <3> QED BY <3>1, <2>1, <2>3, <1>3 DEF Passed, HasSourceIn
  <2> QED BY <2>2, <2>3
<1>8. \A k \in Passed : k \in DOMAIN matches /\ Cut(matches[k]) = Fragment(matches[k], block)
  <2> TAKE k \in Passed
  <2>1. k \in DOMAIN matches /\ ~ Behind(matches[k]) /\ matches[k].src < EndPos
    BY <1>1, <1>2 DEF Passed, ScanInv
  <2>2. matches[k] \in Match /\ matches[k].src < matches[k].dest
    BY <2>1, <1>1, SortedMatches
  <2> QED BY <2>1, <2>2, <1>1, <1>2, CutIsFragment
<1>9. Elements(scanned) = Fragments(Found, block)
  <2>1. Elements(scanned) = {Cut(matches[k]) : k \in Passed}
    BY <1>1 DEF ScanInv
  <2>2. Found = {matches[k] : k \in DOMAIN matches}
    BY <1>1 DEF SortedInv, Elements
  <2>3. \A e \in Elements(scanned) : e \in Fragments(Found, block)
    <3> TAKE e \in Elements(scanned)
    <3>1. PICK k \in Passed : e = Cut(matches[k])
      BY <2>1
    <3>2. k \in DOMAIN matches /\ e = Fragment(matches[k], block)
      BY <3>1, <1>8
    <3> QED BY <3>2, <3>1, <1>7, <2>2 DEF Fragments
  <2>4. \A e \in Fragments(Found, block) : e \in Elements(scanned)
    <3> TAKE e \in Fragments(Found, block)
    <3>1. PICK m \in Found : HasSourceIn(m, block) /\ e = Fragment(m, block)
      BY Zenon DEF Fragments
    <3>2. PICK k \in DOMAIN matches : m = matches[k]
      BY <2>2
    <3>3. k \in Passed
      BY <3>1, <3>2, <1>7
    <3> QED BY <3>1, <3>2, <3>3, <1>8, <2>1
  <2> QED BY <2>3, <2>4
<1>10. CopyInv'
  <2>1. Fragments(Found, block)' = Fragments(Found, block)
    BY <1>4 DEF Fragments, Fragment, HasSourceIn
  <2>2. Elements(scanned)' = Fragments(Found, block)'
    BY <2>1, <1>1, <1>9 DEF Elements
  <2>3. first[block] \in Seq(Match)
    BY <1>1, <1>3, FirstLists
  <2>4. at' <= Len(first'[block']) + 1 /\ inPos' = Before(at)'
    BY <1>1, <1>4, <2>3 DEF Before
  <2>5. \A k \in 1 .. i' - 1 : matches'[k].src < Start'
    BY <1>1, <1>4 DEF ScanInv
  <2>6. \A j, k \in DOMAIN scanned' : j # k => scanned'[j] # scanned'[k]
    BY <1>1 DEF ScanInv
  <2> QED BY <1>1, <1>2, <2>2, <2>4, <2>5, <2>6 DEF CopyInv
<1>11. ScanInv' /\ DistanceInv'
  BY <1>1, <1>4 DEF ScanInv, DistanceInv, AddsUp
<1> QED BY <1>4, <1>5, <1>10, <1>11 DEF IInv

-----------------------------------------------------------------------------
(* Copying the literals and emitting the block. *)

(* A piece of the input is a sequence of bytes. *)
LEMMA InputBytes ==
  ASSUME NEW from \in Nat, NEW n \in Nat
  PROVE  Input(from, n) \in Seq(Nat)
BY DEF Input

(* The records of a block lie in it, one after the other. *)
LEMMA Befores ==
  ASSUME TypeOK, bi < NumBlocks, at <= Len(first[block]) + 1
  PROVE  /\ Before(at) \in Nat /\ Before(at) <= EndPos
         /\ at <= Len(first[block]) =>
              /\ first[block][at].dest \in Nat /\ first[block][at].len \in Nat
              /\ Before(at) <= first[block][at].dest
<1>1. /\ block \in Blocks /\ Start \in Nat /\ EndPos \in Nat /\ Start < EndPos
      /\ BlockStart(block) = Start /\ BlockEnd(block) = EndPos
  BY BlockInHand
<1>2. first[block] \in Seq(Match) /\ FirstPass(first)
  BY <1>1, FirstLists
<1>3. at \in Nat \ {0} /\ Len(first[block]) \in Nat
      /\ DOMAIN first[block] = 1 .. Len(first[block])
  BY <1>2 DEF TypeOK
<1>4. \A k \in DOMAIN first[block] : first[block][k].dest \in Nat /\ first[block][k].len \in Nat
  <2>1. \A k \in DOMAIN first[block] : first[block][k] \in Match
    BY <1>2
  <2> QED BY <2>1, FileAssumption DEF Match, Positions
<1>5. CASE at = 1
  <2>1. Before(at) = Start
    BY <1>5 DEF Before
  <2>2. 1 \in DOMAIN first[block] => Start <= first[block][1].dest
    BY <1>1, <1>2 DEF FirstPass
  <2> QED BY <2>1, <2>2, <1>1, <1>3, <1>4, <1>5
<1>6. CASE at # 1
  <2>1. at - 1 \in DOMAIN first[block] /\ at - 1 < at
    BY <1>3, <1>6
  <2>2. Before(at) = first[block][at - 1].dest + first[block][at - 1].len
    BY <1>6 DEF Before
  <2>3. Before(at) <= EndPos
    BY <2>1, <2>2, <1>1, <1>2 DEF FirstPass
  <2>4. at \in DOMAIN first[block] => Before(at) <= first[block][at].dest
    BY <2>1, <2>2, <1>1, <1>2 DEF FirstPass
  <2> QED BY <2>1, <2>2, <2>3, <2>4, <1>3, <1>4
<1> QED BY <1>5, <1>6

LEMMA CopyRunInv == IInv /\ CopyRun => IInv'
<1> SUFFICES ASSUME IInv, CopyRun PROVE IInv'
  OBVIOUS
<1> DEFINE r == FirstRecord(at)
           m == first[block][at]
<1>1. /\ TypeOK /\ SortedInv /\ CopyInv /\ DistanceInv /\ ListsExact /\ DistancesAddUp
      /\ pc = "copy" /\ pc' = "copy" /\ at <= Len(first[block]) /\ at' = at + 1
      /\ UNCHANGED <<first, bi, matches, i, savedI, blockPos, stat, scanned, out>>
  BY DEF IInv, CopyRun, scanVars
<1>2. lits' = lits \o Input(inPos, r.lit) /\ inPos' = inPos + r.lit + r.len
  BY DEF CopyRun
<1>3. bi < NumBlocks /\ at <= Len(first[block]) + 1 /\ inPos = Before(at) /\ at \in Nat \ {0}
  BY <1>1 DEF CopyInv, TypeOK
<1>4. m.dest \in Nat /\ m.len \in Nat /\ Before(at) \in Nat /\ Before(at) <= m.dest
  BY <1>1, <1>3, Befores
<1>5. r.lit = m.dest - inPos /\ r.len = m.len
  BY <1>3 DEF FirstRecord
<1> HIDE DEF r
<1>6. inPos \in Nat /\ r.lit \in Nat /\ inPos' = m.dest + m.len
  <2> HIDE DEF m
  <2> QED BY <1>2, <1>3, <1>4, <1>5
<1>7. block \in Blocks
  BY <1>1, <1>3, BlockInHand
<1>8. first[block] \in Seq(Match)
  BY <1>1, <1>7, FirstLists
<1>9. TypeOK'
  <2>1. lits' \in Seq(Nat)
    <3>1. Input(inPos, r.lit) \in Seq(Nat)
      BY <1>6, InputBytes
    <3>2. lits \in Seq(Nat)
      BY <1>1 DEF TypeOK
    <3> QED BY <3>1, <3>2, <1>2
  <2>2. inPos' \in Nat /\ at' \in Nat \ {0}
    BY <1>1, <1>3, <1>4, <1>6
  <2> QED BY <2>1, <2>2, <1>1 DEF TypeOK
<1>10. block' = block /\ Start' = Start
  BY <1>1 DEF block, Start
<1>11. Found' = Found
  BY <1>1 DEF Found
<1>12. CopyInv'
  <2>1. inPos' = Before(at)'
    BY <1>1, <1>3, <1>6, <1>10 DEF Before
  <2>2. at' <= Len(first'[block']) + 1
    BY <1>1, <1>3, <1>8, <1>10
  <2>3. Fragments(Found, block)' = Fragments(Found, block)
    BY <1>10, <1>11 DEF Fragments, Fragment, HasSourceIn
  <2> QED BY <2>1, <2>2, <2>3, <1>1, <1>10 DEF CopyInv, Elements
<1>13. SortedInv'
  BY <1>1, <1>11 DEF SortedInv, Elements, Apart, Sorted
<1>14. DistanceInv' /\ GatherInv' /\ BlockInv' /\ ScanInv'
  BY <1>1, <1>10 DEF DistanceInv, GatherInv, BlockInv, ScanInv, AddsUp
<1>15. ListsExact' /\ DistancesAddUp'
  BY <1>1, <1>11 DEF ListsExact, DistancesAddUp, AddsUp
<1> QED BY <1>9, <1>12, <1>13, <1>14, <1>15 DEF IInv

(* A match is at most a block long, so one that began before a block is    *)
(* behind by the end of it: the next scan misses nothing.                  *)
LEMMA EmitBlockInv == IInv /\ EmitBlock => IInv'
<1> SUFFICES ASSUME IInv, EmitBlock PROVE IInv'
  OBVIOUS
<1> DEFINE e == [size |-> EndPos - Start, lits |-> lits \o Input(inPos, EndPos - inPos),
                 recs |-> stat, frags |-> scanned]
<1>1. /\ TypeOK /\ SortedInv /\ CopyInv /\ DistanceInv /\ ListsExact /\ DistancesAddUp
      /\ pc = "copy" /\ pc' = "block" /\ bi' = bi + 1
      /\ UNCHANGED <<first, at, matches, i, savedI, blockPos, stat, scanned, inPos, lits>>
  BY DEF IInv, EmitBlock, scanVars, copyVars
<1>2. out' = Append(out, e)
  BY DEF EmitBlock
<1>3. bi < NumBlocks /\ bi \in Nat /\ NumBlocks \in Nat /\ block = bi + 1
      /\ Start \in Nat /\ EndPos \in Nat /\ Start < EndPos
  BY <1>1, BlockInHand, FileAssumption DEF CopyInv, NumBlocks
<1>4. /\ e \in Emitted /\ e.recs = stat /\ e.frags = scanned
  <2>1. inPos \in Nat /\ inPos <= EndPos
    BY <1>1, <1>3, Befores DEF CopyInv
  <2>2. EndPos - inPos \in Nat /\ EndPos - Start \in Nat
    BY <2>1, <1>3
  <2>3. lits \o Input(inPos, EndPos - inPos) \in Seq(Nat)
    BY <2>1, <2>2, <1>1, InputBytes DEF TypeOK
  <2>4. stat \in Seq(Coded) /\ scanned \in Seq(Placed)
    BY <1>1 DEF TypeOK
  <2> QED BY <2>2, <2>3, <2>4 DEF Emitted
<1> HIDE DEF e
<1>5. /\ out' \in Seq(Emitted) /\ Len(out') = Len(out) + 1
      /\ DOMAIN out' = 1 .. Len(out) + 1 /\ DOMAIN out = 1 .. Len(out)
      /\ \A k \in DOMAIN out : out'[k] = out[k]
      /\ out'[Len(out) + 1] = e
  BY <1>1, <1>2, <1>4, ElementsAppend DEF TypeOK
<1>6. Len(out) = bi /\ out \in Seq(Emitted)
  BY <1>1 DEF SortedInv, TypeOK
<1>7. TypeOK'
  BY <1>1, <1>3, <1>5 DEF TypeOK
<1>8. Found' = Found
  BY <1>1 DEF Found
<1>9. SortedInv'
  BY <1>1, <1>5, <1>6, <1>8 DEF SortedInv, Elements, Apart, Sorted
<1>10. BlockInv'
  <2>1. Start' = Start + BlockSize
    BY <1>1, <1>3, NextBlock DEF Start, block
  <2>2. ASSUME NEW k \in 1 .. i - 1 PROVE matches[k].src + matches[k].len <= Start'
    <3>1. k \in DOMAIN matches
      BY <1>1 DEF TypeOK
    <3>2. /\ matches[k].src \in Nat /\ matches[k].len \in Nat
          /\ matches[k].len <= BlockSize /\ matches[k].src < Start
      BY <3>1, <1>1, SortedMatches DEF CopyInv
    <3> QED BY <3>2, <2>1, <1>3, FileAssumption
  <2> QED BY <2>2, <1>1 DEF BlockInv, Behind
<1>11. \A b \in DOMAIN out' : b \in DOMAIN out \/ (b = block /\ b = Len(out) + 1)
  BY <1>3, <1>5, <1>6
<1>12. ListsExact'
  <2> DEFINE Exact(frags, b, found) ==
               /\ Elements(frags) = Fragments(found, b)
               /\ \A j, k \in DOMAIN frags : j # k => frags[j] # frags[k]
  <2>1. Exact(scanned, block, Found)
    BY <1>1 DEF CopyInv
  <2>2. \A b \in DOMAIN out : Exact(out[b].frags, b, Found)
    BY <1>1 DEF ListsExact
  <2>3. \A b \in DOMAIN out' : Exact(out'[b].frags, b, Found)
    <3> HIDE DEF Exact
    <3> QED BY <2>1, <2>2, <1>4, <1>5, <1>11
  <2>4. \A b \in DOMAIN out' : Exact(out'[b].frags, b, Found')
    BY <2>3, <1>8
  <2> QED BY <2>4 DEF ListsExact
<1>13. DistancesAddUp'
  <2>1. Len(stat) = Len(scanned) /\ AddsUp(stat, scanned, block)
    BY <1>1 DEF DistanceInv
  <2>2. \A b \in DOMAIN out :
          Len(out[b].recs) = Len(out[b].frags) /\ AddsUp(out[b].recs, out[b].frags, b)
    BY <1>1 DEF DistancesAddUp
  <2>3. \A b \in DOMAIN out' :
          Len(out'[b].recs) = Len(out'[b].frags) /\ AddsUp(out'[b].recs, out'[b].frags, b)
    BY <2>1, <2>2, <1>4, <1>5, <1>11
  <2> QED BY <2>3 DEF DistancesAddUp
<1>14. GatherInv' /\ ScanInv' /\ CopyInv' /\ DistanceInv'
  BY <1>1 DEF GatherInv, ScanInv, CopyInv, DistanceInv
<1> QED BY <1>7, <1>9, <1>10, <1>12, <1>13, <1>14 DEF IInv

LEMMA WriteFooterInv == IInv /\ WriteFooter => IInv'
<1> SUFFICES ASSUME IInv, WriteFooter PROVE IInv'
  OBVIOUS
<1>1. /\ TypeOK /\ SortedInv /\ ListsExact /\ DistancesAddUp /\ pc = "block" /\ pc' = "done"
      /\ UNCHANGED <<first, at, bi, matches, i, savedI, blockPos, stat, scanned,
                     inPos, lits, out>>
  BY DEF IInv, WriteFooter, scanVars, copyVars
<1>2. Found' = Found
  BY <1>1 DEF Found
<1>3. TypeOK'
  BY <1>1 DEF TypeOK
<1>4. SortedInv'
  BY <1>1, <1>2 DEF SortedInv, Elements, Apart, Sorted
<1>5. ListsExact' /\ DistancesAddUp'
  BY <1>1, <1>2 DEF ListsExact, DistancesAddUp, AddsUp
<1>6. GatherInv' /\ BlockInv' /\ ScanInv' /\ CopyInv' /\ DistanceInv'
  BY <1>1 DEF GatherInv, BlockInv, ScanInv, CopyInv, DistanceInv
<1> QED BY <1>3, <1>4, <1>5, <1>6 DEF IInv

LEMMA StutterInv == IInv /\ UNCHANGED vars => IInv'
<1> SUFFICES ASSUME IInv, UNCHANGED vars PROVE IInv'
  OBVIOUS
<1>1. UNCHANGED <<first, pc, at, bi, matches, i, savedI, blockPos, stat, scanned,
                  inPos, lits, out>>
  BY DEF vars, scanVars, copyVars
<1>2. block' = block /\ Start' = Start /\ EndPos' = EndPos /\ Found' = Found
  BY <1>1 DEF block, Start, EndPos, Found
<1>3. TypeOK' /\ GatherInv' /\ SortedInv' /\ BlockInv'
  <2>1. TypeOK'
    BY <1>1 DEF IInv, TypeOK
  <2>2. GatherInv'
    <3>1. GatheredTo(first', bi') = GatheredTo(first, bi)
          /\ Beginning(first'[block'], at' - 1) = Beginning(first[block], at - 1)
      BY <1>1, <1>2
    <3>2. Gathered' = Gathered
      BY <3>1, <1>1 DEF Gathered
    <3>3. Elements(matches') = Elements(matches) /\ Before(at)' = Before(at)
      BY <1>1, <1>2 DEF Before
    <3> QED BY <3>2, <3>3, <1>1, <1>2 DEF IInv, GatherInv, Apart
  <2>3. SortedInv' /\ BlockInv'
    BY <1>1, <1>2 DEF IInv, SortedInv, BlockInv, Elements, Apart, Sorted, Behind
  <2> QED BY <2>1, <2>2, <2>3
<1>4. ScanInv' /\ CopyInv' /\ DistanceInv'
  <2>1. \A k : Cut(matches[k])' = Cut(matches[k])
    BY <1>1, <1>2 DEF Cut
  <2>2. Passed' = Passed
    BY <1>1, <1>2 DEF Passed, Behind
  <2>3. ScanInv'
    BY <1>1, <1>2, <2>1, <2>2 DEF IInv, ScanInv, Elements
  <2>4. CopyInv'
    BY <1>1, <1>2 DEF IInv, CopyInv, Elements, Fragments, Before
  <2>5. DistanceInv'
    BY <1>1, <1>2, <2>1 DEF IInv, DistanceInv, AddsUp
  <2> QED BY <2>3, <2>4, <2>5
<1>5. ListsExact' /\ DistancesAddUp'
  BY <1>1, <1>2 DEF IInv, ListsExact, DistancesAddUp, AddsUp
<1> QED BY <1>3, <1>4, <1>5 DEF IInv

-----------------------------------------------------------------------------
(* The invariant holds in every state. *)
LEMMA Invariance == Spec => []IInv
<1>1. IInv /\ [Next]_vars => IInv'
  <2> SUFFICES ASSUME IInv, [Next]_vars PROVE IInv'
    OBVIOUS
  <2>1. CASE Stopped
    BY <2>1, StutterInv DEF Stopped
  <2>2. CASE GatherRecord \/ GatherNext \/ SortBySrc
    BY <2>2, GatherRecordInv, GatherNextInv, SortBySrcInv
  <2>3. CASE BeginBlock \/ PassOver \/ EmitMatch \/ EndScan
    BY <2>3, BeginBlockInv, PassOverInv, EmitMatchInv, EndScanInv
  <2>4. CASE CopyRun \/ EmitBlock \/ WriteFooter
    BY <2>4, CopyRunInv, EmitBlockInv, WriteFooterInv
  <2>5. CASE UNCHANGED vars
    BY <2>5, StutterInv
  <2> QED BY <2>1, <2>2, <2>3, <2>4, <2>5 DEF Next
<1> QED BY <1>1, InitInv, PTL DEF Spec

(* No count, distance or length the pass computes is ever negative, where  *)
(* the program's unsigned numbers would wrap: in particular the distance   *)
(* from one source to the next, and the literal runs (RunSecondPass).      *)
THEOREM TypeCorrect == Spec => []TypeOK
<1>1. IInv => TypeOK
  BY DEF IInv
<1> QED BY <1>1, Invariance, PTL

(* Every list written carries the pieces of matches due in its block, each *)
(* once, whatever the first pass found: the scan may resume where it does. *)
THEOREM ListsAreExact == Spec => []ListsExact
<1>1. IInv => ListsExact
  BY DEF IInv
<1> QED BY <1>1, Invariance, PTL

(* A decoder that adds up the distances of a list finds the places the     *)
(* pieces are in, whatever order the sort leaves equal sources in.         *)
THEOREM DistancesAreRight == Spec => []DistancesAddUp
<1>1. IInv => DistancesAddUp
  BY DEF IInv
<1> QED BY <1>1, Invariance, PTL

-----------------------------------------------------------------------------
(* The literals: what is left of a block, counted from its start.          *)

(* A set of naturals has a least: what takes the place of induction.       *)
LEMMA LeastOf ==
  ASSUME NEW T \in SUBSET Nat, T # {}
  PROVE  \E m \in T : \A k \in T : m <= k
<1> DEFINE R == OpToRel(<, Nat)
<1>1. \E m \in T : \A k \in T : <<k, m>> \notin R
  BY WFMin, NatLessThanWellFounded
<1>2. PICK m \in T : \A k \in T : <<k, m>> \notin R
  BY <1>1
<1>3. \A k \in T : ~ (k < m)
  BY <1>2 DEF OpToRel
<1> QED BY <1>3

Covered(ms, p) == \E m \in ms : Covers(m, p)

BlockLen(b) == BlockEnd(b) - BlockStart(b)

(* What the first n bytes of the block leave, from what one less leaves.   *)
Leaves(g, ms, b, n) ==
  IF n = 0 THEN <<>>
  ELSE IF Covered(ms, BlockStart(b) + n - 1) THEN g[n - 1]
  ELSE Append(g[n - 1], BlockStart(b) + n - 1)

Leaving(g, ms, b) == g = [n \in 0 .. BlockLen(b) |-> Leaves(g, ms, b, n)]

LeavingTo(g, ms, b, n) == \A k \in 0 .. n : g[k] = Leaves(g, ms, b, k)

Left(ms, b) == CHOOSE g : Leaving(g, ms, b)

LEMMA LeavesUpTo ==
  ASSUME NEW ms, NEW b, NEW n \in Nat
  PROVE  \E g : LeavingTo(g, ms, b, n)
<1> DEFINE bad == {k \in Nat : ~ \E g : LeavingTo(g, ms, b, k)}
<1>1. ASSUME bad # {} PROVE FALSE
  <2>1. bad \in SUBSET Nat
    OBVIOUS
  <2>2. PICK k \in bad : \A j \in bad : k <= j
    <3> HIDE DEF bad
    <3> QED BY <2>1, <1>1, LeastOf
  <2>3. k \in Nat /\ ~ \E g : LeavingTo(g, ms, b, k)
    OBVIOUS
  <2>4. k # 0
    <3>1. SUFFICES ASSUME k = 0 PROVE FALSE
      OBVIOUS
    <3> DEFINE g == [j \in {0} |-> <<>>]
    <3>2. LeavingTo(g, ms, b, 0)
      BY DEF LeavingTo, Leaves
    <3> HIDE DEF g
    <3> QED BY <3>1, <3>2, <2>3
  <2>5. k - 1 \in Nat /\ k - 1 \notin bad
    <3> HIDE DEF bad
    <3> QED BY <2>2, <2>3, <2>4
  <2>6. PICK f : LeavingTo(f, ms, b, k - 1)
    BY <2>5
  <2> DEFINE g == [j \in 0 .. k |-> IF j = k THEN Leaves(f, ms, b, k) ELSE f[j]]
  <2>7. \A j \in 0 .. k - 1 : g[j] = f[j]
    BY <2>3
  <2>8. g[k] = Leaves(f, ms, b, k)
    BY <2>3
  <2> HIDE DEF g, bad
  <2>9. ASSUME NEW j \in 0 .. k PROVE g[j] = Leaves(g, ms, b, j)
    <3>1. CASE j = k
      BY <3>1, <2>3, <2>4, <2>7, <2>8 DEF Leaves
    <3>2. CASE j # k
      <4>1. j \in 0 .. k - 1 /\ (j # 0 => j - 1 \in 0 .. k - 1)
        BY <2>3, <3>2
      <4>2. f[j] = Leaves(f, ms, b, j)
        BY <4>1, <2>6 DEF LeavingTo
      <4>3. j # 0 => g[j - 1] = f[j - 1]
        BY <4>1, <2>7
      <4> QED BY <4>1, <4>2, <4>3, <2>7 DEF Leaves
    <3> QED BY <3>1, <3>2
  <2>10. LeavingTo(g, ms, b, k)
    BY <2>9 DEF LeavingTo
  <2> QED BY <2>3, <2>10
<1> QED BY <1>1

LEMMA LeftUnrolls ==
  ASSUME NEW ms, NEW b, BlockLen(b) \in Nat
  PROVE  LeavingTo(Left(ms, b), ms, b, BlockLen(b))
<1> DEFINE N == BlockLen(b)
<1>1. PICK f : LeavingTo(f, ms, b, N)
  BY LeavesUpTo
<1> DEFINE g == [n \in 0 .. N |-> f[n]]
<1>2. ASSUME NEW n \in 0 .. N PROVE g[n] = Leaves(g, ms, b, n)
  <2>1. n # 0 => n - 1 \in 0 .. N
    OBVIOUS
  <2>2. f[n] = Leaves(f, ms, b, n)
    BY <1>1 DEF LeavingTo
  <2> QED BY <2>1, <2>2 DEF Leaves
<1>3. Leaving(g, ms, b)
  <2>1. g = [n \in 0 .. N |-> g[n]]
    OBVIOUS
  <2> HIDE DEF g
  <2>2. [n \in 0 .. N |-> g[n]] = [n \in 0 .. N |-> Leaves(g, ms, b, n)]
    BY <1>2
  <2> QED BY <2>1, <2>2 DEF Leaving
<1>4. Leaving(Left(ms, b), ms, b)
  <2> HIDE DEF g
  <2> QED BY <1>3 DEF Left
<1> QED BY <1>4 DEF Leaving, LeavingTo

LEMMA LeftIsLiterals ==
  ASSUME NEW ms, NEW b \in Blocks
  PROVE  /\ BlockLen(b) \in Nat
         /\ LiteralsOf(ms, [p \in Positions |-> p], b) = Left(ms, b)[BlockLen(b)]
<1> DEFINE id == [p \in Positions |-> p]
           N == BlockLen(b)
           Next1(g, n) == LET p == BlockStart(b) + n - 1
                          IN  IF n = 0 THEN <<>>
                              ELSE IF \E m \in ms : Covers(m, p) THEN g[n - 1]
                              ELSE Append(g[n - 1], id[p])
           It(g) == g = [n \in 0 .. N |-> Next1(g, n)]
<1>1. BlockStart(b) \in Nat /\ BlockEnd(b) \in Nat /\ BlockStart(b) < BlockEnd(b) /\ BlockEnd(b) <= FileSize
  BY BlockBounds
<1>2. N \in Nat
  BY <1>1 DEF BlockLen
<1>3. ASSUME NEW n \in 0 .. N, n # 0 PROVE id[BlockStart(b) + n - 1] = BlockStart(b) + n - 1
  BY <1>1, <1>3, FileAssumption DEF BlockLen, Positions
<1>4. ASSUME NEW g, NEW n \in 0 .. N PROVE Next1(g, n) = Leaves(g, ms, b, n)
  <2> HIDE DEF id, N
  <2> QED BY <1>3 DEF Leaves, Covered
<1>5. ASSUME NEW g PROVE It(g) <=> Leaving(g, ms, b)
  <2>1. [n \in 0 .. N |-> Next1(g, n)] = [n \in 0 .. N |-> Leaves(g, ms, b, n)]
    <3> HIDE DEF Next1, N
    <3> QED BY <1>4
  <2> HIDE DEF Next1
  <2> QED BY <2>1 DEF Leaving
<1>6. (CHOOSE g : It(g)) = Left(ms, b)
  <2> HIDE DEF It
  <2> QED BY <1>5 DEF Left
<1>7. LiteralsOf(ms, id, b) = (CHOOSE g : It(g))[N]
  BY DEF LiteralsOf, BlockLen
<1> QED BY <1>2, <1>6, <1>7

LEMMA LeftBytes ==
  ASSUME NEW ms, NEW b \in Blocks, NEW n \in 0 .. BlockLen(b)
  PROVE  Left(ms, b)[n] \in Seq(Nat)
<1> DEFINE N == BlockLen(b)
           g == Left(ms, b)
           bad == {k \in 0 .. N : g[k] \notin Seq(Nat)}
<1>1. N \in Nat /\ LeavingTo(g, ms, b, N) /\ BlockStart(b) \in Nat
  BY LeftIsLiterals, LeftUnrolls, BlockBounds
<1> HIDE DEF g, N
<1>2. ASSUME bad # {} PROVE FALSE
  <2>1. bad \in SUBSET Nat
    BY <1>1
  <2>2. PICK k \in bad : \A j \in bad : k <= j
    <3> HIDE DEF bad
    <3> QED BY <2>1, <1>2, LeastOf
  <2>3. k \in 0 .. N /\ g[k] \notin Seq(Nat) /\ g[k] = Leaves(g, ms, b, k)
    BY <1>1 DEF LeavingTo
  <2>4. k # 0
    BY <2>3 DEF Leaves
  <2>5. k - 1 \in 0 .. N /\ k - 1 \notin bad
    <3>1. k - 1 \in 0 .. N /\ ~ (k <= k - 1)
      BY <2>3, <2>4, <1>1
    <3> HIDE DEF bad
    <3> QED BY <3>1, <2>2
  <2>6. g[k - 1] \in Seq(Nat)
    BY <2>5
  <2>7. BlockStart(b) + k - 1 \in Nat
    BY <2>3, <2>4, <1>1
  <2>8. Leaves(g, ms, b, k) \in Seq(Nat)
    BY <2>4, <2>6, <2>7 DEF Leaves
  <2> QED BY <2>3, <2>8
<1>3. n \in 0 .. N /\ n \notin bad
  <2> HIDE DEF bad
  <2> QED BY <1>2 DEF N
<1> QED BY <1>3 DEF g

LEMMA ConcatAppend ==
  ASSUME NEW S, NEW s \in Seq(S), NEW t \in Seq(S), NEW e \in S
  PROVE  s \o Append(t, e) = Append(s \o t, e)
OBVIOUS

LEMMA ConcatEmpty ==
  ASSUME NEW S, NEW s \in Seq(S)
  PROVE  s \o <<>> = s
OBVIOUS

(* Bytes no match writes are all left; those a match writes are not.       *)
LEMMA LeftRun ==
  ASSUME NEW ms, NEW b \in Blocks, NEW from \in 0 .. BlockLen(b), NEW to \in from .. BlockLen(b),
         \A p \in BlockStart(b) + from .. BlockStart(b) + to - 1 : ~ Covered(ms, p)
  PROVE  Left(ms, b)[to] = Left(ms, b)[from] \o Input(BlockStart(b) + from, to - from)
<1> DEFINE N == BlockLen(b)
           g == Left(ms, b)
           st == BlockStart(b)
           Run(k) == g[from] \o Input(st + from, k - from)
           bad == {k \in from .. to : g[k] # Run(k)}
<1>1. N \in Nat /\ LeavingTo(g, ms, b, N) /\ st \in Nat
  BY LeftIsLiterals, LeftUnrolls, BlockBounds
<1>2. g[from] \in Seq(Nat)
  BY LeftBytes
<1> HIDE DEF g, N, st
<1>3. from \in Nat /\ to \in Nat /\ from <= to /\ to <= N
  BY <1>1 DEF N
<1>4. ASSUME bad # {} PROVE FALSE
  <2>1. bad \in SUBSET Nat
    <3> HIDE DEF Run
    <3> QED BY <1>3
  <2>2. PICK k \in bad : \A j \in bad : k <= j
    <3> HIDE DEF bad
    <3> QED BY <2>1, <1>4, LeastOf
  <2>3. k \in from .. to /\ g[k] # Run(k) /\ k \in Nat
    <3> HIDE DEF Run
    <3> QED BY <1>3
  <2>4. k # from
    <3>1. SUFFICES ASSUME k = from PROVE FALSE
      OBVIOUS
    <3>2. Input(st + from, 0) = <<>>
      BY <1>1, <1>3 DEF Input
    <3>3. Run(k) = g[from]
      <4>1. Input(st + from, k - from) = <<>>
        BY <3>1, <3>2, <1>3
      <4>2. g[from] \o <<>> = g[from]
        BY <1>2, ConcatEmpty
      <4> QED BY <4>1, <4>2
    <3> QED BY <3>1, <3>3, <2>3
  <2>5. k - 1 \in from .. to /\ k - 1 \notin bad
    <3>1. k - 1 \in from .. to /\ ~ (k <= k - 1)
      BY <2>3, <2>4, <1>3
    <3> HIDE DEF bad
    <3> QED BY <3>1, <2>2
  <2>6. g[k - 1] = Run(k - 1)
    BY <2>5
  <2>7. k \in 0 .. N /\ k # 0 /\ st + k - 1 \in st + from .. st + to - 1
    BY <2>3, <2>5, <1>1, <1>3
  <2>8. ~ Covered(ms, st + k - 1)
    BY <2>7 DEF st
  <2>9. g[k] = Append(g[k - 1], st + k - 1)
    BY <2>7, <2>8, <1>1 DEF LeavingTo, Leaves, st
  <2>10. Append(Run(k - 1), st + k - 1) = Run(k)
    <3> DEFINE n == k - from
               lo == st + from
    <3>1. n \in Nat \ {0} /\ lo \in Nat /\ k - 1 - from = n - 1 /\ st + k - 1 = lo + n - 1
      BY <2>3, <2>5, <1>1, <1>3
    <3>2. Run(k - 1) = g[from] \o Input(lo, n - 1) /\ Run(k) = g[from] \o Input(lo, n)
      BY <3>1
    <3> HIDE DEF n, lo, Run
    <3>3. Input(lo, n - 1) \in Seq(Nat) /\ Input(lo, n) = Append(Input(lo, n - 1), lo + n - 1)
      BY <3>1 DEF Input
    <3> DEFINE a == Input(lo, n - 1)
    <3>4. g[from] \o Append(a, lo + n - 1) = Append(g[from] \o a, lo + n - 1)
      <4> HIDE DEF a
      <4>1. a \in Seq(Nat) /\ lo + n - 1 \in Nat
        BY <3>1, <3>3 DEF a
      <4>2. ASSUME NEW s \in Seq(Nat), NEW e \in Nat
            PROVE  s \o Append(a, e) = Append(s \o a, e)
        BY <4>1, <4>2, ConcatAppend
      <4> QED BY <4>1, <4>2, <1>2
    <3> QED BY <3>1, <3>2, <3>3, <3>4
  <2> QED BY <2>3, <2>6, <2>9, <2>10
<1>5. to \in from .. to /\ to \notin bad
  <2> HIDE DEF bad
  <2> QED BY <1>3, <1>4
<1> QED BY <1>5 DEF g, st

LEMMA LeftCopied ==
  ASSUME NEW ms, NEW b \in Blocks, NEW from \in 0 .. BlockLen(b), NEW to \in from .. BlockLen(b),
         \A p \in BlockStart(b) + from .. BlockStart(b) + to - 1 : Covered(ms, p)
  PROVE  Left(ms, b)[to] = Left(ms, b)[from]
<1> DEFINE N == BlockLen(b)
           g == Left(ms, b)
           st == BlockStart(b)
           bad == {k \in from .. to : g[k] # g[from]}
<1>1. N \in Nat /\ LeavingTo(g, ms, b, N) /\ st \in Nat
  BY LeftIsLiterals, LeftUnrolls, BlockBounds
<1> HIDE DEF g, N, st
<1>3. from \in Nat /\ to \in Nat /\ from <= to /\ to <= N
  BY <1>1 DEF N
<1>4. ASSUME bad # {} PROVE FALSE
  <2>1. bad \in SUBSET Nat
    BY <1>3
  <2>2. PICK k \in bad : \A j \in bad : k <= j
    <3> HIDE DEF bad
    <3> QED BY <2>1, <1>4, LeastOf
  <2>3. k \in from .. to /\ g[k] # g[from] /\ k \in Nat /\ k # from
    BY <1>3
  <2>5. k - 1 \in from .. to /\ k - 1 \notin bad
    <3>1. k - 1 \in from .. to /\ ~ (k <= k - 1)
      BY <2>3, <1>3
    <3> HIDE DEF bad
    <3> QED BY <3>1, <2>2
  <2>6. g[k - 1] = g[from]
    BY <2>5
  <2>7. k \in 0 .. N /\ k # 0 /\ st + k - 1 \in st + from .. st + to - 1
    BY <2>3, <2>5, <1>1, <1>3
  <2>8. Covered(ms, st + k - 1)
    BY <2>7 DEF st
  <2>9. g[k] = g[k - 1]
    BY <2>7, <2>8, <1>1 DEF LeavingTo, Leaves, st
  <2> QED BY <2>3, <2>6, <2>9
<1>5. to \in from .. to /\ to \notin bad
  <2> HIDE DEF bad
  <2> QED BY <1>3, <1>4
<1> QED BY <1>5 DEF g

(* The matches of a block that write into the bytes from one record's end  *)
(* to the next one's: none up to the next, and the next one from there.    *)
LEMMA BlocksApart ==
  ASSUME NEW b \in Blocks, NEW c \in Blocks, b < c
  PROVE  BlockEnd(b) <= BlockStart(c)
<1>1. b \in Nat /\ c \in Nat /\ BlockSize \in Nat /\ BlockSize > 0 /\ b <= c - 1 /\ FileSize \in Nat
  BY FileAssumption DEF Blocks, NumBlocks
<1>2. b * BlockSize <= (c - 1) * BlockSize
  BY <1>1, Z3
<1>3. b * BlockSize \in Nat /\ (c - 1) * BlockSize \in Nat
  BY <1>1, Z3
<1>4. (c - 1) * BlockSize = BlockStart(c)
  BY DEF BlockStart
<1>5. BlockStart(c) < BlockEnd(c) /\ BlockEnd(c) <= FileSize /\ BlockStart(c) \in Nat
      /\ BlockEnd(b) \in Nat /\ BlockEnd(c) \in Nat
  BY BlockBounds
<1>6. b * BlockSize < FileSize
  BY <1>2, <1>3, <1>4, <1>5, FileAssumption
<1> QED BY <1>2, <1>4, <1>6 DEF BlockEnd

(* Every match that writes a byte of a block is in the block's own list.   *)
LEMMA CoveredHere ==
  ASSUME TypeOK, NEW b \in Blocks, NEW m \in Found, NEW p \in BlockStart(b) .. BlockEnd(b) - 1,
         Covers(m, p)
  PROVE  \E k \in DOMAIN first[b] : m = first[b][k]
<1>1. PICK c \in Blocks : \E k \in DOMAIN first[c] : m = first[c][k]
  BY DEF Found, Elements
<1>2. PICK k \in DOMAIN first[c] : m = first[c][k]
  BY <1>1
<1>3. m.dest \in Nat /\ m.len \in Nat /\ m.dest <= p /\ p < m.dest + m.len /\ p \in Int
  BY FoundMatches DEF Covers
<1>4. FirstPass(first)
  BY FirstLists
<1>5. BlockStart(c) <= m.dest /\ m.dest + m.len <= BlockEnd(c)
  BY <1>2, <1>4 DEF FirstPass
<1>6. /\ BlockStart(c) \in Nat /\ BlockEnd(c) \in Nat /\ BlockStart(b) \in Nat /\ BlockEnd(b) \in Nat
      /\ b \in Nat /\ c \in Nat
  BY BlockBounds DEF Blocks
<1>7. ~ (b < c)
  <2>1. SUFFICES ASSUME b < c PROVE FALSE
    OBVIOUS
  <2>2. BlockEnd(b) <= BlockStart(c)
    BY <2>1, BlocksApart
  <2>3. p < BlockEnd(b)
    BY <1>6
  <2> QED BY <2>2, <2>3, <1>3, <1>5, <1>6
<1>8. ~ (c < b)
  <2>1. SUFFICES ASSUME c < b PROVE FALSE
    OBVIOUS
  <2>2. BlockEnd(c) <= BlockStart(b)
    BY <2>1, BlocksApart
  <2>3. BlockStart(b) <= p
    BY <1>6
  <2> QED BY <2>2, <2>3, <1>3, <1>5, <1>6
<1>9. b = c
  BY <1>6, <1>7, <1>8
<1> QED BY <1>2, <1>9

(* The records of a block, one after the other.                            *)
LEMMA RecordPlaces ==
  ASSUME TypeOK, bi < NumBlocks, at <= Len(first[block]) + 1, NEW k \in DOMAIN first[block]
  PROVE  /\ first[block][k].dest \in Nat /\ first[block][k].len \in Nat
         /\ Start <= first[block][k].dest
         /\ first[block][k].dest + first[block][k].len <= EndPos
         /\ k < at => first[block][k].dest + first[block][k].len <= Before(at)
         /\ at <= k => at \in DOMAIN first[block] /\ first[block][at].dest <= first[block][k].dest
<1>1. /\ block \in Blocks /\ Start \in Nat /\ EndPos \in Nat /\ Start < EndPos
      /\ BlockStart(block) = Start /\ BlockEnd(block) = EndPos
  BY BlockInHand
<1>2. first[block] \in Seq(Match) /\ FirstPass(first)
  BY <1>1, FirstLists
<1>3. at \in Nat \ {0} /\ Len(first[block]) \in Nat
      /\ DOMAIN first[block] = 1 .. Len(first[block])
  BY <1>2 DEF TypeOK
<1>4. \A j \in DOMAIN first[block] : first[block][j].dest \in Nat /\ first[block][j].len \in Nat
  <2>1. \A j \in DOMAIN first[block] : first[block][j] \in Match
    BY <1>2
  <2> QED BY <2>1, FileAssumption DEF Match, Positions
<1>5. \A j \in DOMAIN first[block] :
        /\ Start <= first[block][j].dest /\ first[block][j].dest + first[block][j].len <= EndPos
        /\ \A h \in DOMAIN first[block] : h < j =>
             first[block][h].dest + first[block][h].len <= first[block][j].dest
  BY <1>1, <1>2 DEF FirstPass
<1>6. ASSUME k < at PROVE first[block][k].dest + first[block][k].len <= Before(at)
  <2>1. at - 1 \in DOMAIN first[block] /\ k <= at - 1 /\ at # 1 /\ k \in Nat
    BY <1>3, <1>6
  <2>2. Before(at) = first[block][at - 1].dest + first[block][at - 1].len
    BY <2>1 DEF Before
  <2>3. CASE k = at - 1
    <3>1. first[block][k] = first[block][at - 1]
      BY <2>3
    <3>2. first[block][k].dest + first[block][k].len \in Int
      BY <1>4
    <3> HIDE <2>3
    <3> QED BY <3>1, <3>2, <2>2
  <2>4. CASE k # at - 1
    <3>1. k < at - 1
      BY <2>1, <2>4, <1>3
    <3>2. first[block][k].dest + first[block][k].len <= first[block][at - 1].dest
      BY <3>1, <2>1, <1>5
    <3> QED BY <3>2, <2>1, <2>2, <1>4
  <2> QED BY <2>3, <2>4
<1>7. ASSUME at <= k PROVE at \in DOMAIN first[block] /\ first[block][at].dest <= first[block][k].dest
  <2>1. at \in DOMAIN first[block] /\ k \in Nat
    BY <1>3, <1>7
  <2>2. CASE at = k
    BY <2>1, <2>2, <1>4
  <2>3. CASE at # k
    <3>1. at < k
      BY <2>1, <2>3, <1>3, <1>7
    <3>2. first[block][at].dest + first[block][at].len <= first[block][k].dest
      BY <3>1, <2>1, <1>5
    <3> QED BY <3>2, <2>1, <1>4
  <2> QED BY <2>2, <2>3
<1> QED BY <1>4, <1>5, <1>6, <1>7

(* While the literals are copied: those of the bytes up to the input.      *)
Lits == Left(Found, block)[inPos - Start]

LitsInv ==
  /\ pc = "copy" => lits = Lits
  /\ \A b \in DOMAIN out : out[b].lits = LiteralsOf(Found, [p \in Positions |-> p], b)

LEMMA InputInBlock ==
  ASSUME IInv, pc = "copy"
  PROVE  /\ block \in Blocks /\ bi < NumBlocks /\ at <= Len(first[block]) + 1
         /\ Start \in Nat /\ EndPos \in Nat /\ BlockLen(block) = EndPos - Start
         /\ BlockStart(block) = Start
         /\ inPos = Before(at) /\ inPos \in Nat /\ Start <= inPos /\ inPos <= EndPos
<1>1. TypeOK /\ bi < NumBlocks /\ at <= Len(first[block]) + 1 /\ inPos = Before(at)
  BY DEF IInv, CopyInv
<1>2. /\ block \in Blocks /\ Start \in Nat /\ EndPos \in Nat /\ Start < EndPos
      /\ BlockStart(block) = Start /\ BlockEnd(block) = EndPos
  BY <1>1, BlockInHand
<1>3. Before(at) \in Nat /\ Before(at) <= EndPos
  BY <1>1, Befores
<1>4. Start <= Before(at)
  <2>1. CASE at = 1
    BY <2>1, <1>2 DEF Before
  <2>2. CASE at # 1
    <3>1. first[block] \in Seq(Match)
      BY <1>1, <1>2, FirstLists
    <3>2. at - 1 \in DOMAIN first[block]
      BY <2>2, <3>1, <1>1 DEF TypeOK
    <3>3. Start <= first[block][at - 1].dest /\ first[block][at - 1].dest \in Nat
          /\ first[block][at - 1].len \in Nat
      BY <3>2, <1>1, RecordPlaces
    <3>4. Before(at) = first[block][at - 1].dest + first[block][at - 1].len
      BY <2>2 DEF Before
    <3> QED BY <3>3, <3>4, <1>2
  <2> QED BY <2>1, <2>2
<1> QED BY <1>1, <1>2, <1>3, <1>4 DEF BlockLen

LEMMA CopyRunLits == IInv /\ LitsInv /\ CopyRun => LitsInv'
<1> SUFFICES ASSUME IInv, LitsInv, CopyRun PROVE LitsInv'
  OBVIOUS
<1> DEFINE m == first[block][at]
           from == inPos - Start
           mid == m.dest - Start
           to == m.dest + m.len - Start
<1>1. /\ pc = "copy" /\ pc' = "copy" /\ at <= Len(first[block])
      /\ UNCHANGED <<first, bi, out>>
  BY DEF CopyRun, scanVars
<1>2. /\ block \in Blocks /\ bi < NumBlocks /\ at <= Len(first[block]) + 1
      /\ Start \in Nat /\ EndPos \in Nat /\ BlockLen(block) = EndPos - Start
      /\ BlockStart(block) = Start
      /\ inPos = Before(at) /\ inPos \in Nat /\ Start <= inPos /\ inPos <= EndPos
  BY <1>1, InputInBlock
<1>3. TypeOK
  BY DEF IInv
<1>4. at \in DOMAIN first[block] /\ first[block] \in Seq(Match)
  <2>1. first[block] \in Seq(Match)
    BY <1>2, <1>3, FirstLists
  <2> QED BY <2>1, <1>1, <1>3 DEF TypeOK
<1>5. m.dest \in Nat /\ m.len \in Nat /\ inPos <= m.dest /\ m.dest + m.len <= EndPos
  BY <1>1, <1>2, <1>3, <1>4, RecordPlaces, Befores
<1>6. lits' = lits \o Input(inPos, m.dest - inPos) /\ inPos' = m.dest + m.len
  <2>1. FirstRecord(at).lit = m.dest - inPos /\ FirstRecord(at).len = m.len
    BY <1>2 DEF FirstRecord
  <2>2. lits' = lits \o Input(inPos, FirstRecord(at).lit)
        /\ inPos' = inPos + FirstRecord(at).lit + FirstRecord(at).len
    BY DEF CopyRun
  <2> HIDE DEF m
  <2> QED BY <2>1, <2>2, <1>2, <1>5
<1>7. /\ from \in 0 .. BlockLen(block) /\ mid \in from .. BlockLen(block)
      /\ mid \in 0 .. BlockLen(block) /\ to \in mid .. BlockLen(block)
      /\ Start + from = inPos /\ Start + mid = m.dest /\ Start + to = m.dest + m.len
      /\ mid - from = m.dest - inPos
  <2> DEFINE d == m.dest
             n == m.len
  <2>1. d \in Nat /\ n \in Nat /\ inPos <= d /\ d + n <= EndPos
    BY <1>5
  <2> HIDE DEF m, d, n
  <2>2. /\ inPos - Start \in 0 .. EndPos - Start
        /\ d - Start \in inPos - Start .. EndPos - Start
        /\ d - Start \in 0 .. EndPos - Start
        /\ d + n - Start \in d - Start .. EndPos - Start
        /\ (d - Start) - (inPos - Start) = d - inPos
        /\ Start + (inPos - Start) = inPos /\ Start + (d - Start) = d
        /\ Start + (d + n - Start) = d + n
    BY <2>1, <1>2
  <2> QED BY <2>2, <1>2 DEF d, n
<1>8. ASSUME NEW p \in inPos .. m.dest - 1, Covered(Found, p) PROVE FALSE
  <2>1. PICK n \in Found : Covers(n, p)
    BY <1>8 DEF Covered
  <2>2. p \in BlockStart(block) .. BlockEnd(block) - 1 /\ p \in Nat
    <3>1. EndPos = BlockEnd(block)
      BY DEF EndPos
    <3> HIDE DEF m
    <3> QED BY <3>1, <1>2, <1>5
  <2>3. PICK k \in DOMAIN first[block] : n = first[block][k]
    BY <2>1, <2>2, <1>2, <1>3, CoveredHere
  <2>4. /\ n.dest \in Nat /\ n.len \in Nat
        /\ k < at => n.dest + n.len <= Before(at)
        /\ at <= k => m.dest <= n.dest
    BY <2>3, <1>2, <1>3, RecordPlaces
  <2>5. k \in Nat /\ at \in Nat
    BY <2>3, <1>3, <1>4 DEF TypeOK
  <2>6. n.dest <= p /\ p < n.dest + n.len
    BY <2>1 DEF Covers
  <2>7. m.dest \in Nat /\ p < m.dest /\ inPos <= p
    <3> HIDE DEF m
    <3> QED BY <1>2, <1>5
  <2> HIDE DEF m
  <2> QED BY <2>2, <2>4, <2>5, <2>6, <2>7, <1>2
<1>9. ASSUME NEW p \in m.dest .. m.dest + m.len - 1 PROVE Covered(Found, p)
  <2>1. m \in Found
    BY <1>2, <1>4 DEF Found, Elements
  <2>2. Covers(m, p)
    <3>1. m.dest <= p /\ p < m.dest + m.len
      <4> HIDE DEF m
      <4> QED BY <1>5
    <3> QED BY <3>1 DEF Covers
  <2> QED BY <2>1, <2>2 DEF Covered
<1> HIDE DEF m, from, mid, to
<1>10. Left(Found, block)[mid] = Left(Found, block)[from] \o Input(inPos, m.dest - inPos)
  <2>1. \A p \in BlockStart(block) + from .. BlockStart(block) + mid - 1 : ~ Covered(Found, p)
    BY <1>2, <1>7, <1>8
  <2>2. Left(Found, block)[mid] = Left(Found, block)[from] \o Input(BlockStart(block) + from, mid - from)
    BY <2>1, <1>2, <1>7, LeftRun
  <2> QED BY <2>2, <1>2, <1>7
<1>11. Left(Found, block)[to] = Left(Found, block)[mid]
  <2>1. \A p \in BlockStart(block) + mid .. BlockStart(block) + to - 1 : Covered(Found, p)
    <3>1. BlockStart(block) + mid = m.dest /\ BlockStart(block) + to = m.dest + m.len
      BY <1>2, <1>7
    <3>2. ASSUME NEW p \in BlockStart(block) + mid .. BlockStart(block) + to - 1
          PROVE  Covered(Found, p)
      <4>1. m.dest \in Nat /\ m.len \in Nat
        BY <1>5
      <4>2. p \in m.dest .. m.dest + m.len - 1
        <5>1. mid \in Int /\ to \in Int /\ BlockStart(block) \in Nat
          BY <1>2, <1>7
        <5> QED BY <5>1, <3>1, <4>1
      <4> QED BY <4>2, <1>9
    <3> QED BY <3>2
  <2> QED BY <2>1, <1>2, <1>7, LeftCopied
<1>12. lits = Left(Found, block)[from]
  BY <1>1 DEF LitsInv, Lits, from
<1>13. block' = block /\ Start' = Start /\ Found' = Found
  BY <1>1 DEF block, Start, Found
<1>14. Lits' = Left(Found, block)[to]
  <2>1. inPos' - Start' = to
    <3>1. inPos' = m.dest + m.len /\ Start' = Start
      BY <1>6, <1>13
    <3>2. to = m.dest + m.len - Start
      BY DEF to
    <3>3. m.dest \in Nat /\ m.len \in Nat /\ Start \in Nat
      BY <1>2, <1>5
    <3> QED BY <3>1, <3>2, <3>3
  <2>2. Lits' = Left(Found, block)'[inPos' - Start']
    BY DEF Lits
  <2>3. Left(Found, block)' = Left(Found, block)
    BY <1>13 DEF Left, Leaving, Leaves, Covered, Covers, BlockLen
  <2> QED BY <2>1, <2>2, <2>3
<1>15. lits' = Lits'
  BY <1>6, <1>10, <1>11, <1>12, <1>14
<1> QED BY <1>1, <1>13, <1>15 DEF LitsInv

LEMMA EmitBlockLits == IInv /\ LitsInv /\ EmitBlock => LitsInv'
<1> SUFFICES ASSUME IInv, LitsInv, EmitBlock PROVE LitsInv'
  OBVIOUS
<1> DEFINE ls == lits \o Input(inPos, EndPos - inPos)
           id == [p \in Positions |-> p]
           from == inPos - Start
<1>1. /\ pc = "copy" /\ pc' = "block" /\ at > Len(first[block])
      /\ UNCHANGED first
  BY DEF EmitBlock
<1>2. /\ block \in Blocks /\ bi < NumBlocks /\ at <= Len(first[block]) + 1
      /\ Start \in Nat /\ EndPos \in Nat /\ BlockLen(block) = EndPos - Start
      /\ BlockStart(block) = Start
      /\ inPos = Before(at) /\ inPos \in Nat /\ Start <= inPos /\ inPos <= EndPos
  BY <1>1, InputInBlock
<1>3. TypeOK /\ Len(out) = bi /\ bi \in Nat /\ block = bi + 1
  BY <1>1, <1>2, BlockInHand DEF IInv, SortedInv
<1>4. ASSUME NEW p \in inPos .. EndPos - 1, Covered(Found, p) PROVE FALSE
  <2>1. PICK n \in Found : Covers(n, p)
    BY <1>4 DEF Covered
  <2>2. p \in BlockStart(block) .. BlockEnd(block) - 1 /\ p \in Nat
    <3>1. EndPos = BlockEnd(block)
      BY DEF EndPos
    <3> QED BY <3>1, <1>2
  <2>3. PICK k \in DOMAIN first[block] : n = first[block][k]
    BY <2>1, <2>2, <1>2, <1>3, CoveredHere
  <2>4. /\ n.dest \in Nat /\ n.len \in Nat
        /\ k < at => n.dest + n.len <= Before(at)
    BY <2>3, <1>2, <1>3, RecordPlaces
  <2>5. k < at
    <3>1. first[block] \in Seq(Match)
      BY <1>2, <1>3, FirstLists
    <3>2. at \in Nat
      BY <1>3 DEF TypeOK
    <3> QED BY <2>3, <3>1, <3>2, <1>1
  <2>6. n.dest <= p /\ p < n.dest + n.len
    BY <2>1 DEF Covers
  <2> QED BY <2>2, <2>4, <2>5, <2>6, <1>2
<1>5. /\ from \in 0 .. BlockLen(block) /\ BlockLen(block) \in from .. BlockLen(block)
      /\ Start + from = inPos /\ Start + BlockLen(block) = EndPos
      /\ BlockLen(block) - from = EndPos - inPos
  <2>1. /\ inPos - Start \in 0 .. EndPos - Start
        /\ EndPos - Start \in inPos - Start .. EndPos - Start
        /\ Start + (inPos - Start) = inPos /\ Start + (EndPos - Start) = EndPos
        /\ (EndPos - Start) - (inPos - Start) = EndPos - inPos
    BY <1>2
  <2> QED BY <2>1, <1>2
<1>6. Left(Found, block)[BlockLen(block)] = Left(Found, block)[from] \o Input(inPos, EndPos - inPos)
  <2> HIDE DEF from
  <2>1. BlockStart(block) + from = inPos /\ BlockStart(block) + BlockLen(block) = EndPos
    BY <1>2, <1>5
  <2>2. \A p \in BlockStart(block) + from .. BlockStart(block) + BlockLen(block) - 1 :
          ~ Covered(Found, p)
    <3> TAKE p \in BlockStart(block) + from .. BlockStart(block) + BlockLen(block) - 1
    <3>1. p \in inPos .. EndPos - 1
      BY <2>1, <1>2, <1>5
    <3> QED BY <3>1, <1>4
  <2>3. Left(Found, block)[BlockLen(block)]
          = Left(Found, block)[from] \o Input(BlockStart(block) + from, BlockLen(block) - from)
    BY <2>2, <1>2, <1>5, LeftRun
  <2> QED BY <2>1, <2>3, <1>5
<1>7. ls = LiteralsOf(Found, id, block)
  <2>1. lits = Left(Found, block)[from]
    BY <1>1 DEF LitsInv, Lits
  <2>2. LiteralsOf(Found, id, block) = Left(Found, block)[BlockLen(block)]
    BY <1>2, LeftIsLiterals
  <2> HIDE DEF from, id
  <2> QED BY <2>1, <2>2, <1>6
<1>8. /\ DOMAIN out = 1 .. bi /\ DOMAIN out' = 1 .. bi + 1
      /\ \A b \in 1 .. bi : out'[b] = out[b]
      /\ out'[bi + 1].lits = ls
  <2>1. out \in Seq(Emitted)
    BY <1>3 DEF TypeOK
  <2> DEFINE e == [size |-> EndPos - Start, lits |-> ls, recs |-> stat, frags |-> scanned]
  <2>2. out' = Append(out, e)
    BY DEF EmitBlock
  <2>3. e.lits = ls
    OBVIOUS
  <2> HIDE DEF e, ls
  <2>4. out \in Seq(Emitted \cup {e}) /\ e \in Emitted \cup {e}
    BY <2>1
  <2>5. /\ DOMAIN out' = 1 .. Len(out) + 1 /\ DOMAIN out = 1 .. Len(out)
        /\ \A b \in DOMAIN out : out'[b] = out[b]
        /\ out'[Len(out) + 1] = e
    BY <2>2, <2>4, ElementsAppend
  <2> QED BY <2>3, <2>5, <1>3
<1>9. Found' = Found
  BY <1>1 DEF Found
<1>10. ASSUME NEW b \in DOMAIN out' PROVE out'[b].lits = LiteralsOf(Found, id, b)
  <2> HIDE DEF ls, id
  <2>1. CASE b = bi + 1
    BY <2>1, <1>3, <1>7, <1>8
  <2>2. CASE b # bi + 1
    <3>1. b \in 1 .. bi
      BY <2>2, <1>3, <1>8
    <3> QED BY <3>1, <1>8 DEF LitsInv, id
  <2> QED BY <2>1, <2>2
<1> QED BY <1>1, <1>9, <1>10 DEF LitsInv

LEMMA LitsInvariance == Spec => []LitsInv
<1>1. Init => LitsInv
  BY DEF Init, LitsInv
<1>2. IInv /\ LitsInv /\ [Next]_vars => LitsInv'
  <2> SUFFICES ASSUME IInv, LitsInv, [Next]_vars PROVE LitsInv'
    OBVIOUS
  <2>1. CASE CopyRun
    BY <2>1, CopyRunLits
  <2>2. CASE EmitBlock
    BY <2>2, EmitBlockLits
  <2>3. CASE EndScan
    <3>1. pc' = "copy" /\ lits' = <<>> /\ inPos' = Start /\ pc = "scan"
          /\ UNCHANGED <<first, bi, out>>
      BY <2>3 DEF EndScan
    <3>2. TypeOK /\ bi < NumBlocks
      BY <3>1 DEF IInv, ScanInv
    <3>3. block \in Blocks /\ BlockLen(block) \in Nat /\ Start \in Nat
      BY <3>2, BlockInHand, LeftIsLiterals
    <3>4. Left(Found, block)[0] = <<>>
      BY <3>3, LeftUnrolls DEF LeavingTo, Leaves
    <3>5. block' = block /\ Start' = Start /\ Found' = Found
      BY <3>1 DEF block, Start, Found
    <3>6. Lits' = Left(Found, block)[0]
      <4>1. Lits' = Left(Found, block)'[inPos' - Start']
        BY DEF Lits
      <4>2. Left(Found, block)' = Left(Found, block)
        BY <3>5 DEF Left, Leaving, Leaves, Covered, Covers, BlockLen
      <4>3. inPos' - Start' = 0
        BY <3>1, <3>3, <3>5
      <4> QED BY <4>1, <4>2, <4>3
    <3> QED BY <3>1, <3>4, <3>5, <3>6 DEF LitsInv
  <2>4. CASE \/ GatherRecord \/ GatherNext \/ SortBySrc
             \/ BeginBlock \/ PassOver \/ EmitMatch \/ WriteFooter
    <3>1. pc' # "copy" /\ UNCHANGED <<first, out>>
      BY <2>4 DEF GatherRecord, GatherNext, SortBySrc, BeginBlock, PassOver, EmitMatch,
                  WriteFooter, scanVars, copyVars
    <3>2. Found' = Found
      BY <3>1 DEF Found
    <3> QED BY <3>1, <3>2 DEF LitsInv
  <2>5. CASE Stopped \/ UNCHANGED vars
    <3>1. UNCHANGED <<first, pc, at, bi, inPos, lits, out>>
      BY <2>5 DEF Stopped, vars, copyVars
    <3>2. block' = block /\ Start' = Start /\ Found' = Found
      BY <3>1 DEF block, Start, Found
    <3>3. Lits' = Lits
      <4>1. Lits' = Left(Found, block)'[inPos' - Start']
        BY DEF Lits
      <4>2. Left(Found, block)' = Left(Found, block)
        BY <3>2 DEF Left, Leaving, Leaves, Covered, Covers, BlockLen
      <4> QED BY <4>1, <4>2, <3>1, <3>2 DEF Lits
    <3> QED BY <3>1, <3>2, <3>3 DEF LitsInv
  <2> QED BY <2>1, <2>2, <2>3, <2>4, <2>5 DEF Next
<1> QED BY <1>1, <1>2, Invariance, PTL DEF Spec

(* The literals of every block are the bytes no match writes, in order:    *)
(* what is read from the input a second time is cut with the records of    *)
(* the first pass (RunSecondPass), and leaves nothing out or in.           *)
THEOREM LiteralsAreExact == Spec => []LiteralsExact
<1>1. LitsInv => LiteralsExact
  BY DEF LitsInv, LiteralsExact
<1> QED BY <1>1, LitsInvariance, PTL
=============================================================================

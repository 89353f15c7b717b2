------------------------ MODULE FutureLzIntactProofs ------------------------
(***************************************************************************)
(* The Future-LZ decoder on an undamaged archive: it gives the file back,  *)
(* for every budget and every size of the slots of the spill file, unless  *)
(* the memory does not hold one slot or, with slots too small for a match, *)
(* all that waits.                                                         *)
(***************************************************************************)
EXTENDS FutureLzProofs, FiniteSetTheorems

IntactArchives ==
  \A a \in Archives : a.intact /\ \E at, from, kept, stat : Makes(a, at, from, kept, stat)

-----------------------------------------------------------------------------
(* Where the decoder is in the file.                                       *)
Filling == pc \in {"fill", "restore", "load"} \/ (pc = "evict" /\ caller = "restore")
Storing == pc = "store" \/ (pc = "evict" /\ caller = "store")
Between == pc \in {"open", "block"}
Stopping == pc \in {"done", "failed"}

Reached == IF Between THEN blockStart ELSE blockStart + outPos

Local(m, at) == m.dest < at[m.home + 1]

(* The records read so far, and those of them not used yet.                *)
Taken(m, at) ==
  \/ m.home <= block
  \/ /\ m.home = block + 1
     /\ \/ pc = "validate" /\ Local(m, at) /\ m.nr < rec
        \/ Filling /\ Local(m, at)
        \/ Storing /\ (Local(m, at) \/ m.nr < rec)
        \/ pc = "verify"

Owing(m, at) == Taken(m, at) /\ m.dest >= Reached

(* An entry is a match; it has its bytes, or can have them when they are   *)
(* needed.                                                                 *)
Stands(e, m, at) ==
  /\ e.src = m.src /\ e.dest = m.dest /\ e.len = m.len
  /\ IF e.data = Unsaved THEN m.len >= MaxSave \/ Local(m, at)
     ELSE e.data = Part(arch.file, m.src, m.len) /\ m.len < MaxSave

(* Records of a slot that are nowhere else; and all entries the decoder    *)
(* holds.                                                                  *)
Alive(s, i) ==
  /\ s \in DOMAIN spill /\ i \in DOMAIN spill[s]
  /\ s \in MarkedSlots \cup AwaitedSlots \/ (pc = "load" /\ s = slot /\ i > loaded)

InHeap == {heap[d][1] : d \in DOMAIN heap \ Marks}
InPack == {packed[i] : i \in DOMAIN packed}
InSpill == UNION {{spill[s][i] : i \in {j \in DOMAIN spill[s] : Alive(s, j)}} : s \in DOMAIN spill}

Holding == InHeap \cup InPack \cup InSpill

HeldRight(at, from) ==
  \A e \in Holding : \E m \in MatchesOf(arch, from) : Owing(m, at) /\ Stands(e, m, at)

NoneLost(at, from) ==
  \A m \in MatchesOf(arch, from) : Owing(m, at) => \E e \in Holding : e.dest = m.dest

(* Nothing is in two places.                                               *)
HeldOnce ==
  \A s \in DOMAIN spill : \A i \in DOMAIN spill[s] : Alive(s, i) =>
    /\ spill[s][i].dest \notin DOMAIN heap \ Marks
    /\ \A j \in DOMAIN packed : packed[j].dest # spill[s][i].dest
    /\ \A t \in DOMAIN spill : \A j \in DOMAIN spill[t] :
         Alive(t, j) /\ s # t => spill[t][j].dest # spill[s][i].dest

Descending ==
  \A s \in DOMAIN spill : spill[s] # <<>> /\ DescendTo(spill[s], spill[s][Len(spill[s])].dest)

Given == pc = "load" => slot \in FreeSlots

Placed(at, from, kept, stat) ==
  /\ blockStart = at[block + 1] /\ Follows(arch.file, 0, sink) /\ Len(sink) = blockStart
  /\ totalStat = IF Between THEN stat[block] ELSE stat[block + 1]
  /\ ~ Between => Follows(arch.file, blockStart, outBuf)
  /\ pc = "validate" => outPos = 0 /\ inPos = 0
  /\ Filling => Reached <= blockEnd /\ inPos = kept[block + 1][Reached]
  /\ pc = "validate" \/ Storing =>
       rec <= Len(CurrentBlock.recs) + 1 /\ blockPos = from[block + 1][rec - 1]

(* No match lands across the place reached.                                *)
Clean(from) ==
  Filling => \A m \in MatchesOf(arch, from) : m.dest >= Reached \/ m.dest + m.len <= Reached

Rebuilt(at, from, kept, stat) ==
  /\ Makes(arch, at, from, kept, stat)
  /\ pc = "failed" => error = "memory"
  /\ pc = "done" => sink = arch.file
  /\ ~ Stopping =>
       /\ Placed(at, from, kept, stat) /\ Clean(from)
       /\ HeldRight(at, from) /\ NoneLost(at, from) /\ HeldOnce
  /\ Descending /\ Given

-----------------------------------------------------------------------------
(* The blocks of an undamaged archive follow each other in the file.       *)
LEMMA BlocksOf ==
  ASSUME arch \in Archive, NEW at, NEW from, NEW kept, NEW stat, Makes(arch, at, from, kept, stat)
  PROVE  /\ Len(arch.blocks) \in Nat /\ DOMAIN arch.blocks = 1 .. Len(arch.blocks)
         /\ arch.file \in Seq(Bytes) /\ Len(arch.file) \in Nat
         /\ \A b \in 1 .. Len(arch.blocks) + 1 : at[b] \in 0 .. Len(arch.file)
         /\ \A b \in 1 .. Len(arch.blocks) :
              /\ arch.blocks[b] \in Block /\ arch.blocks[b].size \in Nat
              /\ Len(arch.blocks[b].recs) \in Nat
              /\ DOMAIN arch.blocks[b].recs = 1 .. Len(arch.blocks[b].recs)
              /\ at[b + 1] = at[b] + arch.blocks[b].size /\ at[b] <= at[b + 1]
<1>1. arch.blocks \in Seq(Block) /\ arch.file \in Seq(Bytes)
  BY DEF Archive
<1>2. at \in [1 .. Len(arch.blocks) + 1 -> 0 .. Len(arch.file)]
  BY DEF Makes
<1>3. ASSUME NEW b \in 1 .. Len(arch.blocks)
      PROVE  /\ arch.blocks[b] \in Block /\ arch.blocks[b].size \in Nat
             /\ Len(arch.blocks[b].recs) \in Nat
             /\ DOMAIN arch.blocks[b].recs = 1 .. Len(arch.blocks[b].recs)
             /\ at[b + 1] = at[b] + arch.blocks[b].size /\ at[b] <= at[b + 1]
  <2>1. arch.blocks[b] \in Block /\ b \in DOMAIN arch.blocks
    BY <1>1
  <2>2. arch.blocks[b].size \in Nat /\ arch.blocks[b].recs \in Seq(Record)
    BY <2>1 DEF Block
  <2>3. at[b + 1] = at[b] + arch.blocks[b].size
    BY <2>1 DEF Makes
  <2>4. at[b] \in Nat
    BY <1>2, <1>1
  <2> QED BY <2>1, <2>2, <2>3, <2>4
<1>4. \A b \in 1 .. Len(arch.blocks) + 1 : at[b] \in 0 .. Len(arch.file)
  BY <1>2
<1>5. /\ Len(arch.blocks) \in Nat /\ DOMAIN arch.blocks = 1 .. Len(arch.blocks)
      /\ Len(arch.file) \in Nat
  BY <1>1
<1> QED BY <1>1, <1>3, <1>4, <1>5

LEMMA StartsRise ==
  ASSUME arch \in Archive, NEW at, NEW from, NEW kept, NEW stat, Makes(arch, at, from, kept, stat),
         NEW b \in 1 .. Len(arch.blocks) + 1, NEW c \in b .. Len(arch.blocks) + 1
  PROVE  at[b] <= at[c]
<1> DEFINE n == Len(arch.blocks)
           T == {x \in b .. n + 1 : ~ (at[b] <= at[x])}
<1>1. /\ n \in Nat /\ \A x \in 1 .. n + 1 : at[x] \in Nat
      /\ \A x \in 1 .. n : at[x] <= at[x + 1]
  BY BlocksOf
<1> HIDE DEF n
<1>2. T = {}
  <2> SUFFICES ASSUME T # {} PROVE FALSE
    OBVIOUS
  <2>1. T \in SUBSET Nat
    BY <1>1 DEF n
  <2>2. PICK x \in T : \A y \in T : x <= y
    <3> HIDE DEF T
    <3> QED BY <2>1, LeastOf
  <2>3. x \in b .. n + 1 /\ ~ (at[b] <= at[x]) /\ b \in 1 .. n + 1
    BY DEF n
  <2>4. x # b
    BY <1>1, <2>3
  <2>5. x - 1 \in b .. n + 1 /\ x - 1 \in 1 .. n /\ (x - 1) + 1 = x /\ x - 1 < x
    BY <1>1, <2>3, <2>4
  <2>6. at[b] <= at[x - 1]
    BY <2>2, <2>5
  <2>7. at[x - 1] <= at[x]
    BY <1>1, <2>5
  <2>8. at[b] \in Nat /\ at[x - 1] \in Nat /\ at[x] \in Nat
    BY <1>1, <2>3, <2>5
  <2> QED BY <2>3, <2>6, <2>7, <2>8
<1>3. c \in b .. n + 1
  BY DEF n
<1> QED BY <1>2, <1>3

(* So do the sources of the records of a block.                            *)
LEMMA SourcesRise ==
  ASSUME arch \in Archive, NEW at, NEW from, NEW kept, NEW stat, Makes(arch, at, from, kept, stat),
         NEW b \in 1 .. Len(arch.blocks), NEW k \in 0 .. Len(arch.blocks[b].recs)
  PROVE  from[b][k] \in Nat /\ at[b] <= from[b][k]
<1> DEFINE n == Len(arch.blocks[b].recs)
           f == from[b]
           T == {x \in 0 .. n : ~ (f[0] <= f[x])}
<1>1. n \in Nat /\ arch.blocks[b] \in Block /\ b \in DOMAIN arch.blocks
  BY BlocksOf
<1>2. /\ f \in [0 .. n -> Nat] /\ f[0] = at[b]
      /\ \A x \in 1 .. n : f[x] = f[x - 1] + arch.blocks[b].recs[x].lit
  BY <1>1 DEF Makes, SourcesAddUp
<1>3. \A x \in 1 .. n : arch.blocks[b].recs[x].lit \in Nat
  <2> SUFFICES ASSUME NEW x \in 1 .. n PROVE arch.blocks[b].recs[x].lit \in Nat
    OBVIOUS
  <2>1. arch.blocks[b].recs \in Seq(Record)
    BY <1>1 DEF Block
  <2>2. arch.blocks[b].recs[x] \in Record
    BY <2>1
  <2> QED BY <2>2 DEF Record
<1>4. \A x \in 0 .. n : f[x] \in Nat
  BY <1>2
<1>5. \A x \in 1 .. n : f[x - 1] <= f[x]
  <2> SUFFICES ASSUME NEW x \in 1 .. n PROVE f[x - 1] <= f[x]
    OBVIOUS
  <2>1. x - 1 \in 0 .. n
    BY <1>1
  <2>2. f[x - 1] \in Nat
    BY <2>1, <1>4
  <2>3. f[x] = f[x - 1] + arch.blocks[b].recs[x].lit /\ arch.blocks[b].recs[x].lit \in Nat
    BY <1>2, <1>3
  <2> QED BY <2>2, <2>3
<1> HIDE DEF n, f
<1>6. T = {}
  <2> SUFFICES ASSUME T # {} PROVE FALSE
    OBVIOUS
  <2>1. T \in SUBSET Nat
    BY <1>1
  <2>2. PICK x \in T : \A y \in T : x <= y
    <3> HIDE DEF T
    <3> QED BY <2>1, LeastOf
  <2>3. x \in 0 .. n /\ ~ (f[0] <= f[x])
    OBVIOUS
  <2>4. x # 0
    BY <1>1, <1>4, <2>3
  <2>5. x \in 1 .. n /\ x - 1 \in 0 .. n /\ x - 1 < x
    BY <1>1, <2>3, <2>4
  <2>6. f[0] <= f[x - 1]
    BY <2>2, <2>5
  <2>7. f[x - 1] <= f[x]
    BY <1>5, <2>5
  <2>8. f[0] \in Nat /\ f[x - 1] \in Nat /\ f[x] \in Nat
    BY <1>1, <1>4, <2>3, <2>5
  <2> QED BY <2>3, <2>6, <2>7, <2>8
<1>7. k \in 0 .. n
  BY DEF n
<1>8. f[k] \in Nat /\ f[0] <= f[k]
  BY <1>4, <1>6, <1>7
<1> QED BY <1>2, <1>8 DEF f

(* A match, as it lies in the file.                                        *)
LEMMA MatchOf ==
  ASSUME arch \in Archive, NEW at, NEW from, NEW kept, NEW stat, Makes(arch, at, from, kept, stat),
         NEW m \in MatchesOf(arch, from)
  PROVE  /\ m.home \in 1 .. Len(arch.blocks) /\ m.nr \in 1 .. Len(arch.blocks[m.home].recs)
         /\ m.src \in Nat /\ m.dest \in Nat /\ m.len \in Nat \ {0} /\ m.src < m.dest
         /\ at[m.home] <= m.src /\ m.src + m.len <= at[m.home + 1]
         /\ m.dest + m.len <= Len(arch.file)
         /\ \A b \in 1 .. Len(arch.blocks) : m.dest < at[b + 1] => m.dest + m.len <= at[b + 1]
         /\ Part(arch.file, m.src, m.len) = Part(arch.file, m.dest, m.len)
<1>1. PICK b \in DOMAIN arch.blocks : \E k \in DOMAIN arch.blocks[b].recs :
        m = [home |-> b, nr |-> k, src |-> from[b][k],
             dest |-> from[b][k] + arch.blocks[b].recs[k].off, len |-> arch.blocks[b].recs[k].len]
  BY DEF MatchesOf
<1>2. PICK k \in DOMAIN arch.blocks[b].recs :
        m = [home |-> b, nr |-> k, src |-> from[b][k],
             dest |-> from[b][k] + arch.blocks[b].recs[k].off, len |-> arch.blocks[b].recs[k].len]
  BY <1>1
<1>3. b \in 1 .. Len(arch.blocks) /\ arch.blocks[b] \in Block
  BY BlocksOf
<1>4. arch.blocks[b].recs \in Seq(Record) /\ k \in 1 .. Len(arch.blocks[b].recs)
  BY <1>2, <1>3 DEF Block
<1>5. arch.blocks[b].recs[k] \in Record
  BY <1>4
<1>6. m.home = b /\ m.nr = k /\ m.src = from[b][k]
      /\ m.dest = from[b][k] + arch.blocks[b].recs[k].off /\ m.len = arch.blocks[b].recs[k].len
  BY <1>2
<1>7. from[b][k] \in Nat /\ at[b] <= from[b][k]
  <2>1. k \in 0 .. Len(arch.blocks[b].recs)
    BY <1>4
  <2> QED BY <1>3, <2>1, SourcesRise
<1>8. m.dest \in Nat /\ m.len \in Nat
  BY <1>5, <1>6, <1>7 DEF Record
<1>9. /\ m.len > 0 /\ m.src < m.dest /\ m.src + m.len <= at[m.home + 1]
      /\ m.dest + m.len <= Len(arch.file)
      /\ \A c \in DOMAIN arch.blocks : m.dest < at[c + 1] => m.dest + m.len <= at[c + 1]
      /\ Part(arch.file, m.src, m.len) = Part(arch.file, m.dest, m.len)
  BY DEF Makes, MatchesCopy
<1>10. DOMAIN arch.blocks = 1 .. Len(arch.blocks)
  BY BlocksOf
<1>11. m.home \in 1 .. Len(arch.blocks) /\ m.nr \in 1 .. Len(arch.blocks[m.home].recs)
  BY <1>3, <1>4, <1>6
<1>12. m.src \in Nat /\ at[m.home] <= m.src
  BY <1>6, <1>7
<1>13. m.dest \in Nat /\ m.len \in Nat \ {0} /\ m.src < m.dest
  BY <1>8, <1>9
<1>14. \A c \in 1 .. Len(arch.blocks) : m.dest < at[c + 1] => m.dest + m.len <= at[c + 1]
  BY <1>9, <1>10
<1> QED BY <1>9, <1>11, <1>12, <1>13, <1>14

LEMMA MatchesApart ==
  ASSUME arch \in Archive, NEW at, NEW from, NEW kept, NEW stat, Makes(arch, at, from, kept, stat),
         NEW m \in MatchesOf(arch, from), NEW n \in MatchesOf(arch, from)
  PROVE  /\ m # n => m.dest + m.len <= n.dest \/ n.dest + n.len <= m.dest
         /\ m.dest = n.dest => m = n
<1>1. m.dest \in Nat /\ m.len \in Nat \ {0} /\ n.dest \in Nat /\ n.len \in Nat \ {0}
  BY MatchOf
<1>2. m # n => m.dest + m.len <= n.dest \/ n.dest + n.len <= m.dest
  BY DEF Makes, MatchesCopy
<1> QED BY <1>1, <1>2

(* A match lands in this block only if it is from this block or one before. *)
LEMMA LandsAfter ==
  ASSUME arch \in Archive, NEW at, NEW from, NEW kept, NEW stat, Makes(arch, at, from, kept, stat),
         NEW m \in MatchesOf(arch, from), NEW b \in 1 .. Len(arch.blocks)
  PROVE  /\ m.dest < at[b + 1] => m.home <= b
         /\ m.home < b => m.src + m.len <= at[b]
         /\ m.home < b /\ at[b] <= m.dest => ~ Local(m, at)
<1>1. /\ m.home \in 1 .. Len(arch.blocks) /\ m.src \in Nat /\ m.dest \in Nat /\ m.src < m.dest
      /\ at[m.home] <= m.src /\ m.src + m.len <= at[m.home + 1] /\ m.len \in Nat
  BY MatchOf
<1>2. /\ Len(arch.blocks) \in Nat /\ at[b + 1] \in Nat /\ at[b] \in Nat /\ at[m.home] \in Nat
      /\ at[m.home + 1] \in Nat
  BY <1>1, BlocksOf
<1> DEFINE n == Len(arch.blocks)
           h == m.home
<1>0. n \in Nat /\ h \in 1 .. n /\ b \in 1 .. n
  BY <1>1, <1>2
<1> HIDE DEF n, h
<1>3. ASSUME m.home > b PROVE ~ (m.dest < at[b + 1])
  <2>1. b + 1 \in 1 .. n + 1 /\ h \in b + 1 .. n + 1
    BY <1>0, <1>3 DEF h
  <2>2. at[b + 1] <= at[m.home]
    BY <2>1, StartsRise DEF n, h
  <2> QED BY <1>1, <1>2, <2>2
<1>4. ASSUME m.home < b PROVE at[m.home + 1] <= at[b]
  <2>1. h + 1 \in 1 .. n + 1 /\ b \in h + 1 .. n + 1
    BY <1>0, <1>4 DEF h
  <2> QED BY <2>1, StartsRise DEF n, h
<1>5. m.dest < at[b + 1] => m.home <= b
  BY <1>0, <1>3 DEF h
<1>6. m.home < b => m.src + m.len <= at[b] /\ (at[b] <= m.dest => ~ (m.dest < at[m.home + 1]))
  <2> DEFINE x == at[m.home + 1]
  <2>1. x \in Nat /\ at[b] \in Nat /\ m.src + m.len <= x /\ m.src + m.len \in Nat /\ m.dest \in Nat
    BY <1>1, <1>2
  <2> HIDE DEF x
  <2>2. m.home < b => x <= at[b]
    BY <1>4 DEF x
  <2>3. m.home < b => m.src + m.len <= at[b] /\ (at[b] <= m.dest => ~ (m.dest < x))
    BY <2>1, <2>2
  <2> QED BY <2>3 DEF x
<1> QED BY <1>5, <1>6 DEF Local

-----------------------------------------------------------------------------
(* What is held, and where.  What stays in place: a step that moves nothing. *)
LEMMA SameHolding ==
  ASSUME arch' = arch, Holding' = Holding, NEW at, NEW from,
         \A m \in MatchesOf(arch, from) : Owing(m, at)' <=> Owing(m, at),
         HeldRight(at, from), NoneLost(at, from)
  PROVE  HeldRight(at, from)' /\ NoneLost(at, from)'
<1>1. \A e, m : Stands(e, m, at)' <=> Stands(e, m, at)
  BY DEF Stands
<1> QED BY <1>1 DEF HeldRight, NoneLost

LEMMA GainsOne ==
  ASSUME arch' = arch, NEW e, Holding' = Holding \cup {e}, NEW at, NEW from,
         NEW n \in MatchesOf(arch, from), Stands(e, n, at),
         \A m \in MatchesOf(arch, from) : Owing(m, at)' <=> Owing(m, at) \/ m = n,
         HeldRight(at, from), NoneLost(at, from)
  PROVE  HeldRight(at, from)' /\ NoneLost(at, from)'
<1>1. \A x, m : Stands(x, m, at)' <=> Stands(x, m, at)
  BY DEF Stands
<1>2. e.dest = n.dest
  BY DEF Stands
<1> QED BY <1>1, <1>2 DEF HeldRight, NoneLost

LEMMA LosesOne ==
  ASSUME arch' = arch, NEW d, NEW at, NEW from,
         \A e : e \in Holding' <=> e \in Holding /\ e.dest # d,
         \A m \in MatchesOf(arch, from) : Owing(m, at)' <=> Owing(m, at) /\ m.dest # d,
         HeldRight(at, from), NoneLost(at, from)
  PROVE  HeldRight(at, from)' /\ NoneLost(at, from)'
<1>1. \A x, m : Stands(x, m, at)' <=> Stands(x, m, at)
  BY DEF Stands
<1>2. \A x, m : Stands(x, m, at) => x.dest = m.dest
  BY DEF Stands
<1>3. HeldRight(at, from)'
  BY <1>1, <1>2 DEF HeldRight
<1>4. NoneLost(at, from)'
  <2> SUFFICES ASSUME NEW m \in MatchesOf(arch, from), Owing(m, at)'
               PROVE  \E e \in Holding' : e.dest = m.dest
    BY DEF NoneLost
  <2>1. Owing(m, at) /\ m.dest # d
    OBVIOUS
  <2>2. PICK e \in Holding : e.dest = m.dest
    BY <2>1 DEF NoneLost
  <2> QED BY <2>1, <2>2
<1> QED BY <1>3, <1>4

(* The place of a step in the heap, the slot being packed and the file.    *)
LEMMA StaysPut ==
  ASSUME UNCHANGED <<heap, packed, spill>>, AwaitedSlots' = AwaitedSlots,
         \/ UNCHANGED <<pc, slot, loaded>>
         \/ pc # "load" /\ pc' # "load"
  PROVE  /\ \A s, i : Alive(s, i)' <=> Alive(s, i)
         /\ Holding' = Holding /\ (HeldOnce => HeldOnce') /\ (Descending => Descending')
<1>1. Marks' = Marks /\ MarkedSlots' = MarkedSlots
  BY DEF Marks, MarkedSlots
<1>2. \A s, i : Alive(s, i)' <=> Alive(s, i)
  BY <1>1 DEF Alive
<1>3. Holding' = Holding
  <2>1. InHeap' = InHeap /\ InPack' = InPack
    BY <1>1 DEF InHeap, InPack
  <2>2. InSpill' = InSpill
    BY <1>2 DEF InSpill
  <2> QED BY <2>1, <2>2 DEF Holding
<1>4. HeldOnce => HeldOnce'
  BY <1>1, <1>2 DEF HeldOnce
<1>5. Descending => Descending'
  BY DEF Descending, DescendTo
<1> QED BY <1>2, <1>3, <1>4, <1>5

(* A match put where no entry stands.                                      *)
LEMMA PutMatch ==
  ASSUME IsHeap(heap), HeldOnce, Descending, NEW m \in Entry, m.len > 0, m.dest \notin DOMAIN heap,
         \A e \in Holding : e.dest # m.dest,
         heap' = Insert(heap, m), UNCHANGED <<pc, caller, packed, spill, slot, loaded>>
  PROVE  /\ Holding' = Holding \cup {m} /\ HeldOnce' /\ Descending'
<1>1. /\ DOMAIN heap' = DOMAIN heap \cup {m.dest} /\ Marks' = Marks
      /\ \A d \in DOMAIN heap : heap'[d][1] = heap[d][1]
      /\ heap'[m.dest][1] = m
  BY InsertHeap, InsertFirst, InsertMatchMarks DEF Marks
<1>2. m.dest \notin Marks /\ Marks \subseteq DOMAIN heap
  BY DEF Marks, MarksOf
<1>3. MarkedSlots' = MarkedSlots /\ AwaitedSlots' = AwaitedSlots
  BY <1>1, <1>2 DEF MarkedSlots, AwaitedSlots
<1>4. \A s, i : Alive(s, i)' <=> Alive(s, i)
  BY <1>3 DEF Alive
<1>5. Holding' = Holding \cup {m}
  <2>1. InHeap' = InHeap \cup {m}
    BY <1>1, <1>2 DEF InHeap
  <2>2. InPack' = InPack
    BY DEF InPack
  <2>3. InSpill' = InSpill
    BY <1>4 DEF InSpill
  <2> QED BY <2>1, <2>2, <2>3 DEF Holding
<1>6. HeldOnce'
  <2> SUFFICES ASSUME NEW s \in DOMAIN spill, NEW i \in DOMAIN spill[s], Alive(s, i)
               PROVE  spill[s][i].dest \notin DOMAIN heap' \ Marks'
    BY <1>4 DEF HeldOnce
  <2>1. spill[s][i] \in Holding
    BY DEF InSpill, Holding
  <2>2. spill[s][i].dest # m.dest /\ spill[s][i].dest \notin DOMAIN heap \ Marks
    BY <2>1 DEF HeldOnce
  <2> QED BY <1>1, <2>2
<1>7. Descending'
  BY DEF Descending, DescendTo
<1> QED BY <1>5, <1>6, <1>7

(* A match taken out of the heap for good.                                 *)
LEMMA TakeOut ==
  ASSUME IsHeap(heap), Keyed, HeldOnce, Descending, packed = <<>>, NEW d \in DOMAIN heap \ Marks,
         heap' = TakeClass(heap, d), UNCHANGED <<pc, caller, packed, spill, slot, loaded>>
  PROVE  /\ \A e : e \in Holding' <=> e \in Holding /\ e.dest # d
         /\ HeldOnce' /\ Descending'
<1>1. /\ DOMAIN heap' = DOMAIN heap \ {d} /\ Marks' = Marks \ {d}
      /\ \A e \in DOMAIN heap \ {d} : heap'[e] = heap[e]
  BY TakeHeap, TakeMarks DEF Marks
<1>2. Marks' = Marks /\ Marks \subseteq DOMAIN heap
  BY <1>1 DEF Marks, MarksOf
<1>3. MarkedSlots' = MarkedSlots /\ AwaitedSlots' = AwaitedSlots
  BY <1>1, <1>2 DEF MarkedSlots, AwaitedSlots
<1>4. \A s, i : Alive(s, i)' <=> Alive(s, i)
  BY <1>3 DEF Alive
<1>5. ASSUME NEW e
      PROVE  e \in Holding' <=> e \in Holding /\ e.dest # d
  <2>1. e \in InHeap' <=> e \in InHeap /\ e.dest # d
    BY <1>1, <1>2 DEF InHeap, Keyed
  <2>2. InPack' = {} /\ InPack = {}
    BY DEF InPack
  <2>3. InSpill' = InSpill
    BY <1>4 DEF InSpill
  <2>4. e \in InSpill => e.dest # d
    BY DEF InSpill, HeldOnce
  <2> QED BY <2>1, <2>2, <2>3, <2>4 DEF Holding
<1>6. HeldOnce'
  BY <1>1, <1>2, <1>4 DEF HeldOnce
<1>7. Descending'
  BY DEF Descending, DescendTo
<1> QED BY <1>5, <1>6, <1>7

LEMMA LastRecord ==
  ASSUME NEW r \in Seq(Entry), r # <<>>
  PROVE  Len(r) \in DOMAIN r /\ r[Len(r)] \in Entry
  OBVIOUS

LEMMA RecordOfSlot ==
  ASSUME NEW r \in Seq(Entry), NEW i \in DOMAIN r
  PROVE  i \in Nat /\ r[i] \in Entry /\ r[i].dest \in Nat /\ r[i].len \in Nat
<1>1. r[i] \in Entry /\ i \in Nat
  OBVIOUS
<1> QED BY <1>1 DEF Entry

(* Moves: what is held stays held, elsewhere.  From the heap to the slot   *)
(* being packed,                                                           *)
LEMMA PacksMatch ==
  ASSUME TypeOK, SlotInv, HeldOnce, Descending, EvictMatch
  PROVE  Holding' = Holding /\ HeldOnce' /\ Descending'
<1>1. PICK d \in DOMAIN heap : EvictMatch!(d)
  BY DEF EvictMatch
<1> DEFINE m == heap[d][1]
<1>2. /\ d \in DOMAIN heap \ Marks /\ m.dest = d /\ m \in Entry /\ pc = "evict"
      /\ packed \in Seq(Entry) /\ packed' = Append(packed, m) /\ heap' = TakeClass(heap, d)
  <2>1. m \in Entry /\ m.data # Unsaved /\ m.len > 0 /\ m.dest = d
    BY <1>1, FirstOfClass DEF SlotInv, Solid, Keyed, IsFurthest, Evictable, TypeOK, HeapOK
  <2>2. d \notin Marks
    BY <2>1 DEF Marks, MarksOf, IsMark
  <2> QED BY <1>1, <2>1, <2>2 DEF TypeOK, PackOK
<1>3. /\ DOMAIN heap' = DOMAIN heap \ {d} /\ Marks' = Marks \ {d}
      /\ \A e \in DOMAIN heap \ {d} : heap'[e] = heap[e]
  BY <1>2, TakeHeap, TakeMarks DEF Marks, TypeOK, HeapOK
<1>4. Marks' = Marks /\ Marks \subseteq DOMAIN heap
  BY <1>2, <1>3 DEF Marks, MarksOf
<1>5. UNCHANGED <<pc, caller, slot, loaded, spill>>
  BY <1>1 DEF slotVars, vmVars
<1>6. MarkedSlots' = MarkedSlots /\ AwaitedSlots' = AwaitedSlots
  BY <1>2, <1>3, <1>4, <1>5 DEF MarkedSlots, AwaitedSlots
<1>7. \A s, i : Alive(s, i)' <=> Alive(s, i)
  BY <1>5, <1>6 DEF Alive
<1> HIDE DEF m
<1>8. /\ DOMAIN packed' = DOMAIN packed \cup {Len(packed) + 1}
      /\ \A i \in DOMAIN packed : packed'[i] = packed[i]
      /\ packed'[Len(packed) + 1] = m
  BY <1>2
<1>9. InPack' = InPack \cup {m}
  BY <1>8 DEF InPack
<1>10. InHeap' \cup {m} = InHeap
  BY <1>2, <1>3, <1>4 DEF InHeap, m
<1>11. InSpill' = InSpill
  BY <1>5, <1>7 DEF InSpill
<1>12. HeldOnce'
  <2> SUFFICES ASSUME NEW s \in DOMAIN spill, NEW i \in DOMAIN spill[s], Alive(s, i)
               PROVE  /\ spill[s][i].dest \notin DOMAIN heap' \ Marks'
                      /\ \A j \in DOMAIN packed' : packed'[j].dest # spill[s][i].dest
                      /\ \A t \in DOMAIN spill : \A j \in DOMAIN spill[t] :
                           Alive(t, j) /\ s # t => spill[t][j].dest # spill[s][i].dest
    BY <1>5, <1>7 DEF HeldOnce
  <2>1. /\ spill[s][i].dest \notin DOMAIN heap \ Marks
        /\ \A j \in DOMAIN packed : packed[j].dest # spill[s][i].dest
        /\ \A t \in DOMAIN spill : \A j \in DOMAIN spill[t] :
             Alive(t, j) /\ s # t => spill[t][j].dest # spill[s][i].dest
    BY DEF HeldOnce
  <2>2. spill[s][i].dest # d
    BY <1>2, <2>1
  <2>3. spill[s][i].dest \notin DOMAIN heap' \ Marks'
    BY <1>3, <1>4, <2>1
  <2>4. \A j \in DOMAIN packed' : packed'[j].dest # spill[s][i].dest
    BY <1>2, <1>8, <2>1, <2>2
  <2> QED BY <2>1, <2>3, <2>4
<1>13. Descending'
  BY <1>5 DEF Descending, DescendTo
<1>14. Holding' = Holding
  BY <1>9, <1>10, <1>11 DEF Holding
<1> QED BY <1>12, <1>13, <1>14

(* from the slot being packed to the spill file,                           *)
LEMMA WritesRecords ==
  ASSUME TypeOK, SlotInv, HeldOnce, Descending, WriteSlot
  PROVE  Holding' = Holding /\ HeldOnce' /\ Descending'
<1> DEFINE n == Len(packed)
           d == packed[n].dest
<1>0. /\ pc = "evict" /\ packed # <<>> /\ packed' = <<>> /\ packed \in Seq(Entry)
      /\ pc' = caller /\ caller \in {"store", "restore"}
      /\ UNCHANGED <<caller, slot, loaded>>
  BY DEF WriteSlot, slotVars, TypeOK, PackOK, ControlOK
<1>1. PICK s \in DOMAIN spill \cup {newBlock} : WriteSlot!2!(s)
  BY DEF WriteSlot
<1>2. n \in DOMAIN packed /\ packed[n] \in Entry /\ d \in Nat
  BY <1>0, LastRecord, RecordOfSlot
<1>3. s \notin MarkedSlots \cup AwaitedSlots /\ s \in Nat
  <2>1. /\ FreeSlots \cap MarkedSlots = {} /\ AwaitedSlots \cap (FreeSlots \cup MarkedSlots) = {}
        /\ DOMAIN spill = 0 .. newBlock - 1
        /\ FreeSlots \cup MarkedSlots \cup AwaitedSlots = DOMAIN spill
    BY <1>0 DEF SlotInv, SlotsOwned
  <2>2. newBlock \in Nat /\ freeBlocks \in Seq(Nat)
    BY DEF TypeOK, SpillOK
  <2>3. CASE freeBlocks # <<>>
    <3>1. s = freeBlocks[Len(freeBlocks)] /\ Len(freeBlocks) \in DOMAIN freeBlocks
      BY <1>1, <2>2, <2>3 DEF AllocBlock
    <3>2. s \in FreeSlots
      BY <3>1 DEF FreeSlots
    <3> QED BY <2>1, <2>2, <3>2
  <2>4. CASE freeBlocks = <<>>
    <3>1. s = newBlock
      BY <1>1, <2>4 DEF AllocBlock
    <3>2. s \notin DOMAIN spill
      BY <2>1, <2>2, <3>1
    <3> QED BY <2>1, <2>2, <3>1, <3>2
  <2> QED BY <2>3, <2>4
<1> DEFINE mark == Mark(s, d)
<1>4. mark \in Entry /\ mark.len = 0 /\ mark.dest = d /\ mark.src = s /\ heap' = Insert(heap, mark)
  BY <1>1, <1>2, <1>3 DEF Mark, Entry, Unsaved
<1>5. d \notin DOMAIN heap
  BY <1>2 DEF SlotInv, PackedOrder
<1> HIDE DEF mark, d
<1>6. /\ DOMAIN heap' = DOMAIN heap \cup {d} /\ Marks' = Marks \cup {d}
      /\ \A e \in DOMAIN heap : heap'[e][1] = heap[e][1]
      /\ heap'[d][1] = mark
  BY <1>4, <1>5, InsertHeap, InsertFirst, InsertMarkMarks DEF Marks, TypeOK, HeapOK
<1>7. Marks \subseteq DOMAIN heap
  BY DEF Marks, MarksOf
<1>8. MarkedSlots' = MarkedSlots \cup {s} /\ AwaitedSlots' = AwaitedSlots
  <2>1. MarkedSlots' = MarkedSlots \cup {s}
    BY <1>4, <1>5, <1>6, <1>7 DEF MarkedSlots
  <2>2. AwaitedSlots' = AwaitedSlots
    BY <1>0 DEF AwaitedSlots
  <2> QED BY <2>1, <2>2
<1>9. spill' = [t \in DOMAIN spill \cup {s} |-> IF t = s THEN packed ELSE spill[t]]
  BY <1>1
<1>10. /\ DOMAIN spill' = DOMAIN spill \cup {s} /\ spill'[s] = packed
       /\ \A t \in DOMAIN spill \ {s} : spill'[t] = spill[t]
  BY <1>9
<1>11. \A t, i : Alive(t, i)' <=> (t = s /\ i \in DOMAIN packed) \/ Alive(t, i)
  <2>1. pc # "load" /\ pc' # "load"
    BY <1>0
  <2>2. \A i : ~ Alive(s, i)
    BY <1>3, <2>1 DEF Alive
  <2> TAKE t, i
  <2>3. CASE t = s
    BY <1>8, <1>10, <2>1, <2>2, <2>3 DEF Alive
  <2>4. CASE t # s
    BY <1>8, <1>10, <2>1, <2>4 DEF Alive
  <2> QED BY <2>3, <2>4
<1>12. \A i : ~ Alive(s, i)
  BY <1>0, <1>3 DEF Alive
<1>13. InHeap' = InHeap
  BY <1>5, <1>6, <1>7 DEF InHeap
<1>14. InPack' = {}
  BY <1>0 DEF InPack
<1>15. InSpill' = InSpill \cup InPack
  <2>1. \A e : e \in InSpill' <=> \E t \in DOMAIN spill' : \E i \in DOMAIN spill'[t] :
                                    Alive(t, i)' /\ e = spill'[t][i]
    BY DEF InSpill
  <2>2. \A e : e \in InSpill <=> \E t \in DOMAIN spill : \E i \in DOMAIN spill[t] :
                                    Alive(t, i) /\ e = spill[t][i]
    BY DEF InSpill
  <2>3. \A e : e \in InPack <=> \E i \in DOMAIN packed : e = packed[i]
    BY DEF InPack
  <2>4. ASSUME NEW e \in InSpill' PROVE e \in InSpill \cup InPack
    <3>0. PICK t \in DOMAIN spill' :
            \E i \in DOMAIN spill'[t] : Alive(t, i)' /\ e = spill'[t][i]
      BY <2>1, <2>4
    <3>1. PICK i \in DOMAIN spill'[t] : Alive(t, i)' /\ e = spill'[t][i]
      BY <3>0
    <3>2. CASE t = s
      BY <1>10, <2>3, <3>1, <3>2
    <3>3. CASE t # s
      BY <1>10, <1>11, <2>2, <3>1, <3>3
    <3> QED BY <3>2, <3>3
  <2>5. ASSUME NEW e \in InSpill PROVE e \in InSpill'
    <3>0. PICK t \in DOMAIN spill : \E i \in DOMAIN spill[t] : Alive(t, i) /\ e = spill[t][i]
      BY <2>2, <2>5
    <3>1. PICK i \in DOMAIN spill[t] : Alive(t, i) /\ e = spill[t][i]
      BY <3>0
    <3>2. t # s
      BY <1>12, <3>1
    <3> QED BY <1>10, <1>11, <2>1, <3>1, <3>2
  <2>6. ASSUME NEW e \in InPack PROVE e \in InSpill'
    BY <1>10, <1>11, <2>1, <2>3, <2>6
  <2> QED BY <2>4, <2>5, <2>6
<1>16. Holding' = Holding
  BY <1>13, <1>14, <1>15 DEF Holding
<1>17. HeldOnce'
  <2> SUFFICES ASSUME NEW t \in DOMAIN spill', NEW i \in DOMAIN spill'[t], Alive(t, i)'
               PROVE  /\ spill'[t][i].dest \notin DOMAIN heap' \ Marks'
                      /\ \A j \in DOMAIN packed' : packed'[j].dest # spill'[t][i].dest
                      /\ \A u \in DOMAIN spill' : \A j \in DOMAIN spill'[u] :
                           Alive(u, j)' /\ t # u => spill'[u][j].dest # spill'[t][i].dest
    BY DEF HeldOnce
  <2>1. DOMAIN packed' = {}
    BY <1>0
  <2>2. DOMAIN heap' \ Marks' = DOMAIN heap \ Marks
    BY <1>5, <1>6, <1>7
  <2>3. CASE t = s
    <3>1. i \in DOMAIN packed /\ spill'[t][i] = packed[i]
      BY <1>10, <2>3
    <3>2. packed[i].dest \notin DOMAIN heap
      BY <3>1 DEF SlotInv, PackedOrder
    <3>3. ASSUME NEW u \in DOMAIN spill', NEW j \in DOMAIN spill'[u], Alive(u, j)', t # u
          PROVE  spill'[u][j].dest # packed[i].dest
      <4>1. Alive(u, j) /\ u \in DOMAIN spill /\ spill'[u] = spill[u]
        BY <1>10, <1>11, <2>3, <3>3
      <4> QED BY <3>1, <3>3, <4>1 DEF HeldOnce
    <3> QED BY <2>1, <2>2, <3>1, <3>2, <3>3
  <2>4. CASE t # s
    <3>1. Alive(t, i) /\ t \in DOMAIN spill /\ spill'[t] = spill[t]
      BY <1>10, <1>11, <2>4
    <3>2. ASSUME NEW u \in DOMAIN spill', NEW j \in DOMAIN spill'[u], Alive(u, j)', t # u
          PROVE  spill'[u][j].dest # spill[t][i].dest
      <4>1. CASE u = s
        BY <1>10, <3>1, <3>2, <4>1 DEF HeldOnce
      <4>2. CASE u # s
        <5>1. Alive(u, j) /\ u \in DOMAIN spill /\ spill'[u] = spill[u]
          BY <1>10, <1>11, <3>2, <4>2
        <5> QED BY <3>1, <3>2, <5>1 DEF HeldOnce
      <4> QED BY <4>1, <4>2
    <3> QED BY <2>1, <2>2, <3>1, <3>2 DEF HeldOnce
  <2> QED BY <2>3, <2>4
<1>18. Descending'
  <2> SUFFICES ASSUME NEW t \in DOMAIN spill'
               PROVE  spill'[t] # <<>> /\ DescendTo(spill'[t], spill'[t][Len(spill'[t])].dest)
    BY DEF Descending, DescendTo
  <2>1. CASE t = s
    BY <1>0, <1>10, <2>1 DEF DescendTo, SlotInv, PackedOrder
  <2>2. CASE t # s
    BY <1>10, <2>2 DEF Descending
  <2> QED BY <2>1, <2>2
<1> QED BY <1>16, <1>17, <1>18

(* from the file, by its mark, to what is awaited, and from there, record  *)
(* by record, back to the heap.                                            *)
LEMMA MarkOnly ==
  ASSUME TypeOK, SlotInv, HeldOnce, Descending, TakeMark
  PROVE  Holding' = Holding /\ HeldOnce' /\ Descending'
<1>1. PICK d \in DOMAIN heap : TakeMark!(d)
  BY DEF TakeMark
<1>2. /\ pc = "fill" /\ pc' = "restore" /\ d \in Marks /\ slot' = heap[d][1].src
      /\ heap' = TakeClass(heap, d) /\ UNCHANGED <<packed, spill>>
  BY <1>1 DEF Due, Marks, MarksOf, packVars, vmVars
<1>3. /\ DOMAIN heap' = DOMAIN heap \ {d} /\ Marks' = Marks \ {d}
      /\ \A e \in DOMAIN heap \ {d} : heap'[e] = heap[e]
  BY <1>2, TakeHeap, TakeMarks DEF Marks, TypeOK, HeapOK
<1>4. Marks \subseteq DOMAIN heap
  BY DEF Marks, MarksOf
<1>5. MarkedSlots = MarkedSlots' \cup {slot'}
  BY <1>2, <1>3, <1>4 DEF MarkedSlots
<1>6. AwaitedSlots = {} /\ AwaitedSlots' = {slot'}
  BY <1>2 DEF AwaitedSlots
<1>7. \A s, i : Alive(s, i)' <=> Alive(s, i)
  BY <1>2, <1>5, <1>6 DEF Alive
<1>8. DOMAIN heap' \ Marks' = DOMAIN heap \ Marks
  BY <1>2, <1>3
<1>9. Holding' = Holding
  <2>1. InHeap' = InHeap
    BY <1>2, <1>3, <1>8 DEF InHeap
  <2>2. InPack' = InPack
    BY <1>2 DEF InPack
  <2>3. InSpill' = InSpill
    BY <1>2, <1>7 DEF InSpill
  <2> QED BY <2>1, <2>2, <2>3 DEF Holding
<1>10. HeldOnce'
  BY <1>2, <1>7, <1>8 DEF HeldOnce
<1>11. Descending'
  BY <1>2 DEF Descending, DescendTo
<1> QED BY <1>9, <1>10, <1>11

LEMMA ReadsSlot ==
  ASSUME TypeOK, SlotInv, HeldOnce, Descending, ReadSlot
  PROVE  Holding' = Holding /\ HeldOnce' /\ Descending' /\ Given'
<1>1. /\ pc = "restore" /\ pc' = "load" /\ loaded' = 0 /\ freeBlocks' = Append(freeBlocks, slot)
      /\ UNCHANGED <<heap, packed, slot, spill>> /\ freeBlocks \in Seq(Nat) /\ slot \in Nat
  BY DEF ReadSlot, packVars, TypeOK, SpillOK
<1>2. Marks' = Marks /\ MarkedSlots' = MarkedSlots
  BY <1>1 DEF Marks, MarkedSlots
<1>3. AwaitedSlots = {slot} /\ AwaitedSlots' = {} /\ slot \notin MarkedSlots
  BY <1>1 DEF AwaitedSlots, SlotInv, SlotsOwned
<1>4. \A s, i : Alive(s, i)' <=> Alive(s, i)
  <2>1. \A i \in DOMAIN spill[slot] : slot \in DOMAIN spill => i > 0
    BY DEF TypeOK, SpillOK
  <2> TAKE s, i
  <2>2. CASE s = slot
    BY <1>1, <1>2, <1>3, <2>1, <2>2 DEF Alive
  <2>3. CASE s # slot
    BY <1>1, <1>2, <1>3, <2>3 DEF Alive
  <2> QED BY <2>2, <2>3
<1>5. Holding' = Holding
  <2>1. InHeap' = InHeap /\ InPack' = InPack
    BY <1>1, <1>2 DEF InHeap, InPack
  <2>2. InSpill' = InSpill
    BY <1>1, <1>4 DEF InSpill
  <2> QED BY <2>1, <2>2 DEF Holding
<1>6. HeldOnce'
  BY <1>1, <1>2, <1>4 DEF HeldOnce
<1>7. Descending'
  BY <1>1 DEF Descending, DescendTo
<1>8. Given'
  <2>1. Len(freeBlocks) + 1 \in DOMAIN freeBlocks' /\ freeBlocks'[Len(freeBlocks) + 1] = slot
    BY <1>1
  <2> QED BY <1>1, <2>1 DEF Given, FreeSlots
<1> QED BY <1>5, <1>6, <1>7, <1>8

LEMMA LoadPlace ==
  ASSUME TypeOK, SlotInv, HeldOnce, Descending, Given, LoadRecord
  PROVE  spill[slot][loaded + 1].dest \notin DOMAIN heap
<1> DEFINE r == spill[slot]
           k == loaded + 1
           m == r[k]
<1>1. /\ pc = "load" /\ pc' = pc /\ loaded < Len(r) /\ loaded' = k /\ heap' = Insert(heap, m)
      /\ UNCHANGED <<packed, slot, spill, caller, freeBlocks>>
  BY DEF LoadRecord, packVars, vmVars
<1>2. /\ slot \in DOMAIN spill /\ r \in Seq(Entry) /\ loaded \in Nat /\ k \in DOMAIN r
      /\ m \in Entry /\ m.len > 0
  <2>1. slot \in DOMAIN spill /\ r \in Seq(Entry) /\ loaded \in Nat
    BY <1>1 DEF TypeOK, SpillOK
  <2>2. k \in DOMAIN r
    BY <1>1, <2>1
  <2> QED BY <2>1, <2>2 DEF SlotInv, SpilledSolid
<1>3. slot \notin MarkedSlots /\ AwaitedSlots = {}
  BY <1>1 DEF Given, SlotInv, SlotsOwned, AwaitedSlots
<1>4. Alive(slot, k)
  BY <1>1, <1>2 DEF Alive
<1>5. m.dest \notin DOMAIN heap
  <2>1. m.dest \notin DOMAIN heap \ Marks
    BY <1>2, <1>4 DEF HeldOnce
  <2>2. ASSUME m.dest \in Marks PROVE FALSE
    <3> DEFINE t == heap[m.dest][1].src
               last == Len(spill[t])
    <3>1. t \in MarkedSlots
      BY <2>2 DEF MarkedSlots
    <3>2. t \in DOMAIN spill
      BY <1>1, <3>1 DEF SlotInv, SlotsOwned
    <3>3. DescendTo(spill[t], m.dest)
      BY <2>2, <3>2 DEF SlotInv, MarkOrder
    <3>4. spill[t] \in Seq(Entry) /\ spill[t] # <<>> /\ spill[t][last].dest = m.dest
      BY <3>2, <3>3 DEF DescendTo, TypeOK, SpillOK
    <3>5. last \in DOMAIN spill[t]
      BY <3>4, LastRecord
    <3>6. Alive(t, last) /\ t # slot
      BY <1>3, <3>1, <3>2, <3>5 DEF Alive
    <3> HIDE DEF t, last, m, k
    <3> QED BY <1>2, <1>4, <3>2, <3>4, <3>5, <3>6 DEF HeldOnce, m
  <2> QED BY <2>1, <2>2
<1> QED BY <1>5

LEMMA LoadsRecord ==
  ASSUME TypeOK, SlotInv, HeldOnce, Descending, Given, LoadRecord
  PROVE  Holding' = Holding /\ HeldOnce' /\ Descending'
<1> DEFINE r == spill[slot]
           k == loaded + 1
           m == r[k]
<1>1. /\ pc = "load" /\ pc' = pc /\ loaded < Len(r) /\ loaded' = k /\ heap' = Insert(heap, m)
      /\ UNCHANGED <<packed, slot, spill, caller, freeBlocks>>
  BY DEF LoadRecord, packVars, vmVars
<1>2. /\ slot \in DOMAIN spill /\ r \in Seq(Entry) /\ loaded \in Nat /\ k \in DOMAIN r
      /\ m \in Entry /\ m.len > 0
  <2>1. slot \in DOMAIN spill /\ r \in Seq(Entry) /\ loaded \in Nat
    BY <1>1 DEF TypeOK, SpillOK
  <2>2. k \in DOMAIN r
    BY <1>1, <2>1
  <2> QED BY <2>1, <2>2 DEF SlotInv, SpilledSolid
<1>3. slot \notin MarkedSlots /\ AwaitedSlots = {}
  BY <1>1 DEF Given, SlotInv, SlotsOwned, AwaitedSlots
<1>4. Alive(slot, k)
  BY <1>1, <1>2 DEF Alive
<1>5. m.dest \notin DOMAIN heap
  BY LoadPlace
<1>6. /\ DOMAIN heap' = DOMAIN heap \cup {m.dest} /\ Marks' = Marks
      /\ \A d \in DOMAIN heap : heap'[d][1] = heap[d][1]
      /\ heap'[m.dest][1] = m
  <2> HIDE DEF m
  <2> QED BY <1>1, <1>2, <1>5, InsertHeap, InsertFirst, InsertMatchMarks DEF Marks, TypeOK, HeapOK
<1>7. Marks \subseteq DOMAIN heap /\ m.dest \notin Marks
  BY <1>5 DEF Marks, MarksOf
<1> HIDE DEF m
<1>8. MarkedSlots' = MarkedSlots /\ AwaitedSlots' = AwaitedSlots
  BY <1>1, <1>6, <1>7 DEF MarkedSlots, AwaitedSlots
<1>9. \A s, i : Alive(s, i)' <=> Alive(s, i) /\ ~ (s = slot /\ i = k)
  <2> TAKE s, i
  <2>1. CASE s = slot
    <3>1. Alive(s, i) <=> i \in DOMAIN r /\ i > loaded
      BY <1>1, <1>2, <1>3, <2>1 DEF Alive
    <3>2. Alive(s, i)' <=> i \in DOMAIN r /\ i > k
      BY <1>1, <1>2, <1>3, <1>8, <2>1 DEF Alive
    <3>3. i \in DOMAIN r => (i > k <=> i > loaded /\ i # k)
      BY <1>2
    <3> QED BY <2>1, <3>1, <3>2, <3>3
  <2>2. CASE s # slot
    BY <1>1, <1>8, <2>2 DEF Alive
  <2> QED BY <2>1, <2>2
<1>10. InHeap' = InHeap \cup {m}
  BY <1>6, <1>7 DEF InHeap
<1>11. InPack' = InPack
  BY <1>1 DEF InPack
<1>12. InSpill' \cup {m} = InSpill
  <2>1. \A e : e \in InSpill' <=> \E t \in DOMAIN spill : \E i \in DOMAIN spill[t] :
                                    Alive(t, i)' /\ e = spill[t][i]
    BY <1>1 DEF InSpill
  <2>2. \A e : e \in InSpill <=> \E t \in DOMAIN spill : \E i \in DOMAIN spill[t] :
                                    Alive(t, i) /\ e = spill[t][i]
    BY DEF InSpill
  <2>3. ASSUME NEW e \in InSpill PROVE e \in InSpill' \cup {m}
    <3>1. PICK t \in DOMAIN spill : \E i \in DOMAIN spill[t] : Alive(t, i) /\ e = spill[t][i]
      BY <2>2, <2>3
    <3>2. PICK i \in DOMAIN spill[t] : Alive(t, i) /\ e = spill[t][i]
      BY <3>1
    <3>3. CASE t = slot /\ i = k
      BY <3>2, <3>3 DEF m
    <3>4. CASE ~ (t = slot /\ i = k)
      BY <1>9, <2>1, <3>2, <3>4
    <3> QED BY <3>3, <3>4
  <2>4. InSpill' \subseteq InSpill
    BY <1>9, <2>1, <2>2
  <2>5. m \in InSpill
    BY <1>2, <1>4, <2>2 DEF m
  <2> QED BY <2>3, <2>4, <2>5
<1>13. Holding' = Holding
  BY <1>10, <1>11, <1>12 DEF Holding
<1>14. HeldOnce'
  <2> SUFFICES ASSUME NEW s \in DOMAIN spill, NEW i \in DOMAIN spill[s], Alive(s, i)'
               PROVE  /\ spill[s][i].dest \notin DOMAIN heap' \ Marks'
                      /\ \A j \in DOMAIN packed : packed[j].dest # spill[s][i].dest
                      /\ \A t \in DOMAIN spill : \A j \in DOMAIN spill[t] :
                           Alive(t, j) /\ s # t => spill[t][j].dest # spill[s][i].dest
    BY <1>1, <1>9 DEF HeldOnce
  <2>1. Alive(s, i) /\ ~ (s = slot /\ i = k)
    BY <1>9
  <2>2. /\ spill[s][i].dest \notin DOMAIN heap \ Marks
        /\ \A j \in DOMAIN packed : packed[j].dest # spill[s][i].dest
        /\ \A t \in DOMAIN spill : \A j \in DOMAIN spill[t] :
             Alive(t, j) /\ s # t => spill[t][j].dest # spill[s][i].dest
    BY <2>1 DEF HeldOnce
  <2>3. spill[s][i].dest # m.dest
    <3>1. CASE s = slot
      <4>1. i \in DOMAIN r /\ i # k /\ k \in DOMAIN r
        BY <1>2, <2>1, <3>1
      <4>2. \A x, y \in DOMAIN r : x < y => r[x].dest > r[y].dest
        BY <1>2 DEF Descending, DescendTo
      <4>3. r[i].dest \in Nat /\ r[k].dest \in Nat /\ (i < k \/ k < i)
        BY <1>2, <4>1, RecordOfSlot
      <4>4. r[i].dest # r[k].dest
        BY <4>1, <4>2, <4>3
      <4> QED BY <3>1, <4>4 DEF m
    <3>2. CASE s # slot
      BY <1>2, <1>4, <2>2, <3>2 DEF m
    <3> QED BY <3>1, <3>2
  <2>4. spill[s][i].dest \notin DOMAIN heap' \ Marks'
    BY <1>6, <2>2, <2>3
  <2> QED BY <2>2, <2>4
<1>15. Descending'
  BY <1>1 DEF Descending, DescendTo
<1> QED BY <1>13, <1>14, <1>15

LEMMA LoadsNoMore ==
  ASSUME TypeOK, SlotInv, HeldOnce, Descending, Given, EndRestore
  PROVE  Holding' = Holding /\ HeldOnce' /\ Descending'
<1>1. /\ pc = "load" /\ pc' = "fill" /\ loaded = Len(spill[slot]) /\ slot \in DOMAIN spill
      /\ UNCHANGED <<heap, packed, slot, spill, loaded>>
  BY DEF EndRestore, packVars, slotVars, vmVars, TypeOK, SpillOK
<1>2. Marks' = Marks /\ MarkedSlots' = MarkedSlots /\ AwaitedSlots = {} /\ AwaitedSlots' = {}
  BY <1>1 DEF Marks, MarkedSlots, AwaitedSlots
<1>3. \A i \in DOMAIN spill[slot] : ~ (i > loaded)
  BY <1>1 DEF TypeOK, SpillOK
<1>4. \A s, i : Alive(s, i)' <=> Alive(s, i)
  BY <1>1, <1>2, <1>3 DEF Alive
<1>5. Holding' = Holding
  <2>1. InHeap' = InHeap /\ InPack' = InPack
    BY <1>1, <1>2 DEF InHeap, InPack
  <2>2. InSpill' = InSpill
    BY <1>1, <1>4 DEF InSpill
  <2> QED BY <2>1, <2>2 DEF Holding
<1>6. HeldOnce'
  BY <1>1, <1>2, <1>4 DEF HeldOnce
<1>7. Descending'
  BY <1>1 DEF Descending, DescendTo
<1> QED BY <1>5, <1>6, <1>7

-----------------------------------------------------------------------------
(* The current block, as the archive makes it.                             *)
LEMMA BlockNow ==
  ASSUME TypeOK, NEW at, NEW from, NEW kept, NEW stat, Rebuilt(at, from, kept, stat), InBlock
  PROVE  /\ block \in Nat /\ block + 1 \in 1 .. Len(arch.blocks) /\ arch \in Archive
         /\ at[block + 1] = blockStart /\ at[(block + 1) + 1] = blockEnd
         /\ blockStart \in Nat /\ blockEnd \in Nat /\ blockStart <= blockEnd
         /\ blockEnd <= Len(arch.file) /\ arch.file \in Seq(Bytes)
         /\ CurrentBlock = arch.blocks[block + 1]
         /\ Len(CurrentBlock.recs) \in Nat /\ outPos \in Nat /\ ~ Stopping /\ ~ Between
         /\ Literals \in Seq(Bytes) /\ CurrentBlock.size \in Nat
<1>1. arch \in Archive /\ block \in Nat /\ block < Len(arch.blocks) /\ outPos \in Nat
  BY DEF TypeOK, ReadOK, BuildOK, outPos
<1>2. ~ Stopping /\ ~ Between
  BY DEF InBlock, Stopping, Between
<1>3. Makes(arch, at, from, kept, stat) /\ at[block + 1] = blockStart
  BY <1>2 DEF Rebuilt, Placed
<1>4. Len(arch.blocks) \in Nat
  BY <1>1, <1>3, BlocksOf
<1>5. block + 1 \in 1 .. Len(arch.blocks) /\ (block + 1) + 1 \in 1 .. Len(arch.blocks) + 1
  BY <1>1, <1>4
<1>6. /\ at[(block + 1) + 1] = at[block + 1] + CurrentBlock.size /\ CurrentBlock.size \in Nat
      /\ at[(block + 1) + 1] \in 0 .. Len(arch.file) /\ Len(CurrentBlock.recs) \in Nat
      /\ arch.file \in Seq(Bytes) /\ Len(arch.file) \in Nat
  BY <1>1, <1>3, <1>5, BlocksOf DEF CurrentBlock
<1>7. blockStart \in Nat
  BY DEF TypeOK, ReadOK
<1>8. at[(block + 1) + 1] = blockEnd /\ blockEnd \in Nat /\ blockStart <= blockEnd
  BY <1>3, <1>6, <1>7 DEF blockEnd
<1>9. blockEnd <= Len(arch.file)
  BY <1>6, <1>8
<1>10. Literals \in Seq(Bytes)
  BY <1>1, CurrentBlockType DEF TypeOK
<1>11. CurrentBlock = arch.blocks[block + 1]
  BY DEF CurrentBlock
<1> QED BY <1>1, <1>2, <1>3, <1>5, <1>6, <1>7, <1>8, <1>9, <1>10, <1>11

(* The record being read is a match of this block.                         *)
LEMMA RecordNow ==
  ASSUME TypeOK, NEW at, NEW from, NEW kept, NEW stat, Rebuilt(at, from, kept, stat),
         pc = "validate" \/ Storing, MoreRecords
  PROVE  LET n == [home |-> block + 1, nr |-> rec, src |-> src, dest |-> dest,
                   len |-> ThisRecord.len]
         IN  /\ n \in MatchesOf(arch, from)
             /\ \A m \in MatchesOf(arch, from) : m.home = block + 1 /\ m.nr = rec => m = n
             /\ rec \in 1 .. Len(CurrentBlock.recs) /\ from[block + 1][rec] = src
             /\ RecordInRange
<1> DEFINE b == block + 1
           n == [home |-> b, nr |-> rec, src |-> src, dest |-> dest, len |-> ThisRecord.len]
<1>1. InBlock
  BY DEF InBlock, Storing
<1>2. /\ b \in 1 .. Len(arch.blocks) /\ arch \in Archive /\ CurrentBlock = arch.blocks[b]
      /\ Len(CurrentBlock.recs) \in Nat /\ at[b + 1] = blockEnd /\ blockEnd \in Nat
  BY <1>1, BlockNow
<1>3. Makes(arch, at, from, kept, stat) /\ blockPos = from[b][rec - 1]
  BY <1>1, BlockNow DEF Rebuilt, Placed
<1>4. rec \in 1 .. Len(CurrentBlock.recs)
  BY <1>2 DEF MoreRecords, TypeOK, BuildOK
<1>5. b \in DOMAIN arch.blocks /\ rec \in DOMAIN arch.blocks[b].recs
  BY <1>2, <1>3, <1>4, BlocksOf
<1>6. from[b][rec] = src
  <2>1. from[b][rec] = from[b][rec - 1] + arch.blocks[b].recs[rec].lit
    BY <1>2, <1>3, <1>4, <1>5 DEF Makes, SourcesAddUp
  <2> QED BY <1>2, <1>3, <2>1 DEF src, ThisRecord
<1>7. n = [home |-> b, nr |-> rec, src |-> from[b][rec],
           dest |-> from[b][rec] + arch.blocks[b].recs[rec].off, len |-> arch.blocks[b].recs[rec].len]
  BY <1>2, <1>6 DEF dest, ThisRecord
<1>8. n \in MatchesOf(arch, from)
  BY <1>5, <1>7 DEF MatchesOf
<1>9. ASSUME NEW m \in MatchesOf(arch, from), m.home = b, m.nr = rec
      PROVE  m = n
  <2>1. PICK c \in DOMAIN arch.blocks : \E k \in DOMAIN arch.blocks[c].recs :
          m = [home |-> c, nr |-> k, src |-> from[c][k],
               dest |-> from[c][k] + arch.blocks[c].recs[k].off, len |-> arch.blocks[c].recs[k].len]
    BY DEF MatchesOf
  <2>2. PICK k \in DOMAIN arch.blocks[c].recs :
          m = [home |-> c, nr |-> k, src |-> from[c][k],
               dest |-> from[c][k] + arch.blocks[c].recs[k].off, len |-> arch.blocks[c].recs[k].len]
    BY <2>1
  <2>3. c = b /\ k = rec
    BY <2>2, <1>9
  <2> HIDE DEF b, n
  <2> QED BY <2>2, <2>3, <1>7
<1> HIDE DEF n, b
<1>10. /\ n.src \in Nat /\ n.dest \in Nat /\ n.len \in Nat \ {0} /\ n.src < n.dest
       /\ n.src + n.len <= at[n.home + 1]
  BY <1>2, <1>3, <1>8, MatchOf
<1>11. n.src = src /\ n.dest = dest /\ n.len = ThisRecord.len /\ n.home = b
  BY DEF n
<1>12. RecordInRange
  <2> DEFINE l == ThisRecord.len
  <2>1. src \in Nat /\ dest \in Nat /\ l \in Nat \ {0} /\ src < dest /\ src + l <= blockEnd
    BY <1>2, <1>10, <1>11
  <2>2. ThisRecord.len = l
    OBVIOUS
  <2> HIDE DEF l
  <2>3. src < blockEnd /\ l <= blockEnd - src /\ dest > src
    BY <2>1, <1>2
  <2> QED BY <2>2, <2>3 DEF RecordInRange
<1> QED BY <1>4, <1>6, <1>8, <1>9, <1>12 DEF n, b

-----------------------------------------------------------------------------
(* The heap answers for all that is held: what stands in it is held, there *)
(* or in its slot, and between two moves nothing is held that it does not  *)
(* announce in time.                                                       *)
LEMMA MarkedRecord ==
  ASSUME TypeOK, SlotInv, pc # "failed", NEW d \in Marks
  PROVE  LET s == heap[d][1].src
         IN  s \in MarkedSlots /\ s \in DOMAIN spill /\ DescendTo(spill[s], d)
               /\ spill[s] \in Seq(Entry)
<1> DEFINE s == heap[d][1].src
<1>1. s \in MarkedSlots
  BY DEF MarkedSlots
<1>2. s \in DOMAIN spill
  BY <1>1 DEF SlotInv, SlotsOwned
<1>3. DescendTo(spill[s], d)
  BY <1>2 DEF SlotInv, MarkOrder
<1>4. spill[s] \in Seq(Entry)
  BY <1>2 DEF TypeOK, SpillOK
<1> QED BY <1>1, <1>2, <1>3, <1>4

LEMMA EntryHeld ==
  ASSUME TypeOK, SlotInv, pc # "failed", NEW d \in DOMAIN heap
  PROVE  \E e \in Holding : e.dest = d
<1>1. CASE d \notin Marks
  <2>1. heap[d][1] \in Holding
    BY <1>1 DEF Holding, InHeap
  <2>2. heap[d][1].dest = d
    BY DEF SlotInv, Keyed
  <2> QED BY <2>1, <2>2
<1>2. CASE d \in Marks
  <2> DEFINE s == heap[d][1].src
             last == Len(spill[s])
  <2>1. s \in MarkedSlots /\ s \in DOMAIN spill /\ DescendTo(spill[s], d) /\ spill[s] \in Seq(Entry)
    BY <1>2, MarkedRecord
  <2>2. spill[s] # <<>> /\ spill[s][last].dest = d
    BY <2>1 DEF DescendTo
  <2>3. last \in DOMAIN spill[s]
    BY <2>1, <2>2, LastRecord
  <2>4. Alive(s, last)
    BY <2>1, <2>3 DEF Alive
  <2> HIDE DEF s, last
  <2>5. spill[s][last] \in InSpill
    BY <2>1, <2>3, <2>4 DEF InSpill
  <2>6. spill[s][last] \in Holding
    BY <2>5 DEF Holding
  <2> QED BY <2>2, <2>6
<1> QED BY <1>1, <1>2

LEMMA HeldAnnounced ==
  ASSUME TypeOK, SlotInv, pc \in {"fill", "block"}, NEW e \in Holding
  PROVE  \E d \in DOMAIN heap : d <= e.dest
<1>1. packed = <<>> /\ AwaitedSlots = {} /\ pc # "failed" /\ pc # "load"
  BY DEF SlotInv, PackedOrder, AwaitedSlots
<1>2. CASE e \in InHeap
  <2>1. PICK d \in DOMAIN heap \ Marks : e = heap[d][1]
    BY <1>2 DEF InHeap
  <2>2. e.dest = d /\ d \in Nat
    BY <2>1 DEF SlotInv, Keyed, TypeOK, HeapOK, IsHeap
  <2> QED BY <2>1, <2>2
<1>3. CASE e \in InSpill
  <2>1. PICK s \in DOMAIN spill : \E i \in DOMAIN spill[s] : Alive(s, i) /\ e = spill[s][i]
    BY <1>3 DEF InSpill
  <2>2. PICK i \in DOMAIN spill[s] : Alive(s, i) /\ e = spill[s][i]
    BY <2>1
  <2>3. s \in MarkedSlots
    BY <1>1, <2>2 DEF Alive
  <2>4. PICK d \in Marks : s = heap[d][1].src
    BY <2>3 DEF MarkedSlots
  <2>5. DescendTo(spill[s], d) /\ spill[s] \in Seq(Entry)
    BY <1>1, <2>4, MarkedRecord
  <2>6. d \in DOMAIN heap /\ d \in Nat
    BY DEF Marks, MarksOf, TypeOK, HeapOK, IsHeap
  <2> DEFINE last == Len(spill[s])
  <2>7. spill[s][last].dest = d /\ \A x, y \in DOMAIN spill[s] : x < y => spill[s][x].dest > spill[s][y].dest
    BY <2>5 DEF DescendTo
  <2>8. last \in DOMAIN spill[s] /\ i <= last /\ i \in Nat /\ last \in Nat
    BY <2>5, <2>2
  <2>9. spill[s][i].dest \in Nat
    BY <2>5, RecordOfSlot
  <2> HIDE DEF last
  <2>10. i < last => spill[s][i].dest > d
    BY <2>7, <2>8
  <2>11. i = last => spill[s][i].dest = d
    BY <2>7
  <2>12. d <= spill[s][i].dest
    BY <2>6, <2>8, <2>9, <2>10, <2>11
  <2> QED BY <2>2, <2>6, <2>12
<1>4. e \in InHeap \/ e \in InSpill
  BY <1>1 DEF Holding, InPack
<1> QED BY <1>2, <1>3, <1>4

LEMMA OwingAnnounced ==
  ASSUME TypeOK, SlotInv, NEW at, NEW from, NoneLost(at, from), pc \in {"fill", "block"},
         NEW m \in MatchesOf(arch, from), Owing(m, at)
  PROVE  \E d \in DOMAIN heap : d <= m.dest
<1>1. PICK e \in Holding : e.dest = m.dest
  BY DEF NoneLost
<1> QED BY <1>1, HeldAnnounced

(* A match not owed has its place in the heap free.                        *)
LEMMA FreePlace ==
  ASSUME TypeOK, SlotInv, NEW at, NEW from, NEW kept, NEW stat, Rebuilt(at, from, kept, stat),
         ~ Stopping, NEW n \in MatchesOf(arch, from), ~ Owing(n, at)
  PROVE  n.dest \notin DOMAIN heap /\ \A e \in Holding : e.dest # n.dest
<1>1. Makes(arch, at, from, kept, stat) /\ HeldRight(at, from) /\ arch \in Archive /\ pc # "failed"
  BY DEF Rebuilt, TypeOK, ReadOK, Stopping
<1>2. ASSUME NEW e \in Holding, e.dest = n.dest PROVE FALSE
  <2>1. PICK m \in MatchesOf(arch, from) : Owing(m, at) /\ Stands(e, m, at)
    BY <1>1 DEF HeldRight
  <2>2. m.dest = n.dest
    BY <1>2, <2>1 DEF Stands
  <2>3. m = n
    BY <1>1, <2>2, MatchesApart
  <2> QED BY <2>1, <2>3
<1>3. n.dest \notin DOMAIN heap
  BY <1>1, <1>2, EntryHeld
<1> QED BY <1>2, <1>3

(* What is owed first is owed at the first destination of the heap: up to  *)
(* there the file has literals only.                                       *)
LEMMA Gap ==
  ASSUME TypeOK, NEW at, NEW from, NEW kept, NEW stat, Rebuilt(at, from, kept, stat),
         pc = "fill", NEW d \in Nat, Reached <= d, d <= blockEnd,
         \A m \in MatchesOf(arch, from) : Owing(m, at) => m.dest >= d
  PROVE  /\ kept[block + 1][d] = inPos + (d - Reached)
         /\ kept[block + 1][d] \in 0 .. Len(Literals)
         /\ Part(Literals, inPos, d - Reached) = Part(arch.file, Reached, d - Reached)
<1> DEFINE b == block + 1
<1>1. /\ b \in 1 .. Len(arch.blocks) /\ arch \in Archive /\ at[b] = blockStart /\ at[b + 1] = blockEnd
      /\ blockStart \in Nat /\ blockEnd \in Nat /\ CurrentBlock = arch.blocks[b] /\ outPos \in Nat
      /\ ~ Stopping /\ ~ Between /\ block \in Nat
  BY BlockNow DEF InBlock
<1>2. /\ Makes(arch, at, from, kept, stat) /\ Clean(from) /\ Filling
      /\ inPos = kept[b][Reached]
  BY <1>1 DEF Rebuilt, Placed, Filling
<1>3. Reached = blockStart + outPos /\ Reached \in at[b] .. at[b + 1] /\ d \in at[b] .. at[b + 1]
  BY <1>1 DEF Reached
<1>4. ASSUME NEW m \in MatchesOf(arch, from) PROVE m.dest + m.len <= Reached \/ d <= m.dest
  <2>1. m.dest >= Reached \/ m.dest + m.len <= Reached
    BY <1>2 DEF Clean
  <2>2. m.dest \in Nat
    BY <1>1, <1>2, MatchOf
  <2>3. m.dest < at[b + 1] => m.home <= b
    BY <1>1, <1>2, LandsAfter
  <2>4. m.home \in Nat
    BY <1>1, <1>2, MatchOf, BlocksOf
  <2>5. ASSUME m.dest >= Reached, m.dest < d PROVE FALSE
    <3>1. m.dest < at[b + 1]
      BY <1>3, <1>1, <2>2, <2>5
    <3>2. m.home <= block \/ m.home = b
      BY <1>1, <2>3, <2>4, <3>1
    <3>3. m.home = b => Local(m, at)
      BY <3>1 DEF Local
    <3>4. Taken(m, at)
      BY <1>2, <3>2, <3>3 DEF Taken
    <3>5. m.dest >= d
      BY <2>5, <3>4 DEF Owing
    <3> QED BY <2>2, <2>5, <3>5
  <2> QED BY <2>1, <2>2, <2>5
<1>5. /\ kept[b] \in [at[b] .. at[b + 1] -> 0 .. Len(Literals)]
      /\ kept[b][d] = kept[b][Reached] + (d - Reached)
      /\ Part(Literals, kept[b][Reached], d - Reached) = Part(arch.file, Reached, d - Reached)
  <2>1. b \in DOMAIN arch.blocks /\ Literals = arch.blocks[b].lits
    BY <1>1, <1>2, BlocksOf DEF Literals
  <2>2. LiteralsFillGaps(arch, at, from, kept)
    BY <1>2 DEF Makes
  <2>3. kept[b] \in [at[b] .. at[b + 1] -> 0 .. Len(Literals)]
    BY <2>1, <2>2 DEF LiteralsFillGaps
  <2>4. \A p, q \in at[b] .. at[b + 1] :
          p <= q /\ (\A m \in MatchesOf(arch, from) : m.dest + m.len <= p \/ q <= m.dest) =>
            /\ kept[b][q] = kept[b][p] + (q - p)
            /\ Part(Literals, kept[b][p], q - p) = Part(arch.file, p, q - p)
    BY <2>1, <2>2 DEF LiteralsFillGaps
  <2> HIDE DEF b
  <2>5. /\ kept[b][d] = kept[b][Reached] + (d - Reached)
        /\ Part(Literals, kept[b][Reached], d - Reached) = Part(arch.file, Reached, d - Reached)
    BY <1>3, <1>4, <2>4
  <2> QED BY <2>3, <2>5
<1>6. kept[b][d] \in 0 .. Len(Literals)
  <2> HIDE DEF b
  <2> QED BY <1>3, <1>5
<1> QED BY <1>2, <1>5, <1>6

-----------------------------------------------------------------------------
(* Step by step.  A step that only moves what is held leaves its place in  *)
(* the file and in the archive, and so all that is owed.                   *)
Phase == <<Between, Stopping, Filling, Storing, pc = "validate", pc = "verify">>

LEMMA SamePhase ==
  ASSUME UNCHANGED <<readVars, buildVars, sink>>, Phase' = Phase,
         NEW at, NEW from, NEW kept, NEW stat, Placed(at, from, kept, stat), Clean(from)
  PROVE  /\ Placed(at, from, kept, stat)' /\ Clean(from)'
         /\ \A m \in MatchesOf(arch, from) : Owing(m, at)' <=> Owing(m, at)
<1>1. UNCHANGED <<arch, block, blockStart, totalStat, rec, blockPos, inPos, outBuf, sink>>
  BY DEF readVars, buildVars
<1>2. /\ Between' = Between /\ Filling' = Filling /\ Storing' = Storing
      /\ (pc = "validate")' = (pc = "validate") /\ (pc = "verify")' = (pc = "verify")
  BY DEF Phase
<1>3. CurrentBlock' = CurrentBlock /\ outPos' = outPos /\ blockEnd' = blockEnd /\ Reached' = Reached
  BY <1>1, <1>2 DEF CurrentBlock, outPos, blockEnd, Reached
<1>4. Placed(at, from, kept, stat)'
  <2>1. /\ blockStart' = at[block' + 1]
        /\ (Follows(arch.file, 0, sink) /\ Len(sink) = blockStart)'
    BY <1>1 DEF Placed
  <2>2. totalStat' = IF Between' THEN stat[block'] ELSE stat[block' + 1]
    BY <1>1, <1>2 DEF Placed
  <2>3. ~ Between' => Follows(arch.file, blockStart, outBuf)'
    BY <1>1, <1>2 DEF Placed
  <2>4. pc' = "validate" => outPos' = 0 /\ inPos' = 0
    BY <1>1, <1>2, <1>3 DEF Placed
  <2>5. Filling' => Reached' <= blockEnd' /\ inPos' = kept[block' + 1][Reached']
    BY <1>1, <1>2, <1>3 DEF Placed
  <2>6. pc' = "validate" \/ Storing' =>
          rec' <= Len(CurrentBlock'.recs) + 1 /\ blockPos' = from[block' + 1][rec' - 1]
    BY <1>1, <1>2, <1>3 DEF Placed
  <2> QED BY <2>1, <2>2, <2>3, <2>4, <2>5, <2>6 DEF Placed
<1>5. Clean(from)'
  BY <1>1, <1>2, <1>3 DEF Clean
<1>6. \A m \in MatchesOf(arch, from) : Owing(m, at)' <=> Owing(m, at)
  BY <1>1, <1>2, <1>3 DEF Owing, Taken, Local
<1> QED BY <1>4, <1>5, <1>6

(* A step that goes on, with what is held as it was.                       *)
LEMMA GoesOn ==
  ASSUME NEW at, NEW from, NEW kept, NEW stat, Rebuilt(at, from, kept, stat), ~ Stopping,
         UNCHANGED <<readVars, buildVars, sink>>, Phase' = Phase,
         Holding' = Holding, HeldOnce', Descending', Given'
  PROVE  Rebuilt(at, from, kept, stat)'
<1>1. /\ Makes(arch, at, from, kept, stat) /\ Placed(at, from, kept, stat) /\ Clean(from)
      /\ HeldRight(at, from) /\ NoneLost(at, from)
  BY DEF Rebuilt
<1>2. arch' = arch
  BY DEF readVars
<1>3. /\ Placed(at, from, kept, stat)' /\ Clean(from)'
      /\ \A m \in MatchesOf(arch, from) : Owing(m, at)' <=> Owing(m, at)
  BY <1>1, SamePhase
<1>4. HeldRight(at, from)' /\ NoneLost(at, from)'
  BY <1>1, <1>2, <1>3, SameHolding
<1>5. ~ Stopping'
  BY DEF Phase
<1>6. pc' # "failed" /\ pc' # "done"
  BY <1>5 DEF Stopping
<1> QED BY <1>1, <1>2, <1>3, <1>4, <1>6 DEF Rebuilt

LEMMA MovesMore ==
  ASSUME TypeOK, SlotInv, NEW at, NEW from, NEW kept, NEW stat, Rebuilt(at, from, kept, stat),
         \/ Open \/ StoreNeedsRoom \/ EvictMatch \/ WriteSlot \/ TakeMark \/ RestoreNeedsRoom
         \/ ReadSlot \/ LoadRecord \/ EndRestore
  PROVE  Rebuilt(at, from, kept, stat)'
<1> USE DEF Phase, Between, Stopping, Filling, Storing
<1>0. /\ Descending /\ Given /\ (~ Stopping => HeldOnce) /\ caller \in {"store", "restore"}
      /\ (pc # "evict" => packed = <<>>)
  BY DEF Rebuilt, TypeOK, ControlOK, SlotInv, PackedOrder
<1>1. CASE Open
  <2>1. pc = "open" /\ pc' = "block" /\ UNCHANGED <<readVars, buildVars, sink, heap, packed, spill, caller>>
    BY <1>1 DEF Open, sinkVars, packVars, vmVars
  <2>2. AwaitedSlots' = AwaitedSlots
    BY <2>1 DEF AwaitedSlots
  <2>3. Holding' = Holding /\ HeldOnce' /\ Descending'
    BY <1>0, <2>1, <2>2, StaysPut
  <2> QED BY <2>1, <2>3, GoesOn DEF Given
<1>2. CASE StoreNeedsRoom
  <2>1. pc = "store" /\ BeginPacking("store")
    BY <1>2 DEF StoreNeedsRoom
  <2>2. /\ pc' = "evict" /\ packed' = <<>> /\ caller' = "store"
        /\ UNCHANGED <<readVars, buildVars, sink, heap, spill, slot>>
    BY <2>1 DEF BeginPacking, sinkVars, vmVars, slotVars
  <2>3. AwaitedSlots' = AwaitedSlots /\ packed' = packed
    BY <1>0, <2>1, <2>2 DEF AwaitedSlots
  <2>4. Holding' = Holding /\ HeldOnce' /\ Descending'
    BY <1>0, <2>1, <2>2, <2>3, StaysPut
  <2>5. Phase' = Phase
    BY <2>1, <2>2
  <2> QED BY <2>1, <2>2, <2>4, <2>5, GoesOn DEF Given
<1>9. CASE RestoreNeedsRoom
  <2>1. pc = "restore" /\ BeginPacking("restore")
    BY <1>9 DEF RestoreNeedsRoom
  <2>2. /\ pc' = "evict" /\ packed' = <<>> /\ caller' = "restore"
        /\ UNCHANGED <<readVars, buildVars, sink, heap, spill, slot>>
    BY <2>1 DEF BeginPacking, sinkVars, vmVars, slotVars
  <2>3. AwaitedSlots' = AwaitedSlots /\ packed' = packed
    BY <1>0, <2>1, <2>2 DEF AwaitedSlots
  <2>4. Holding' = Holding /\ HeldOnce' /\ Descending'
    BY <1>0, <2>1, <2>2, <2>3, StaysPut
  <2>5. Phase' = Phase
    BY <2>1, <2>2
  <2> QED BY <2>1, <2>2, <2>4, <2>5, GoesOn DEF Given
<1>3. CASE EvictMatch
  <2>1. pc = "evict" /\ UNCHANGED <<pc, caller, readVars, buildVars, sink>>
    BY <1>3 DEF EvictMatch, sinkVars
  <2>2. Holding' = Holding /\ HeldOnce' /\ Descending'
    BY <1>0, <1>3, <2>1, PacksMatch
  <2> QED BY <2>1, <2>2, GoesOn DEF Given
<1>4. CASE WriteSlot
  <2>1. pc = "evict" /\ pc' = caller /\ UNCHANGED <<caller, readVars, buildVars, sink>>
    BY <1>4 DEF WriteSlot, sinkVars
  <2>2. Holding' = Holding /\ HeldOnce' /\ Descending'
    BY <1>0, <1>4, <2>1, WritesRecords
  <2> QED BY <1>0, <2>1, <2>2, GoesOn DEF Given
<1>5. CASE TakeMark
  <2>1. pc = "fill" /\ pc' = "restore" /\ UNCHANGED <<readVars, buildVars, sink>>
    BY <1>5 DEF TakeMark, Due, sinkVars
  <2>2. Holding' = Holding /\ HeldOnce' /\ Descending'
    BY <1>0, <1>5, <2>1, MarkOnly
  <2> QED BY <2>1, <2>2, GoesOn DEF Given
<1>6. CASE ReadSlot
  <2>1. pc = "restore" /\ pc' = "load" /\ UNCHANGED <<readVars, buildVars, sink>>
    BY <1>6 DEF ReadSlot, sinkVars
  <2>2. Holding' = Holding /\ HeldOnce' /\ Descending' /\ Given'
    BY <1>0, <1>6, <2>1, ReadsSlot
  <2> QED BY <2>1, <2>2, GoesOn
<1>7. CASE LoadRecord
  <2>1. pc = "load" /\ UNCHANGED <<pc, slot, freeBlocks, readVars, buildVars, sink>>
    BY <1>7 DEF LoadRecord, sinkVars, vmVars
  <2>2. Holding' = Holding /\ HeldOnce' /\ Descending'
    BY <1>0, <1>7, <2>1, LoadsRecord
  <2>3. Given'
    BY <1>0, <2>1 DEF Given, FreeSlots
  <2> QED BY <2>1, <2>2, <2>3, GoesOn
<1>8. CASE EndRestore
  <2>1. pc = "load" /\ pc' = "fill" /\ UNCHANGED <<readVars, buildVars, sink>>
    BY <1>8 DEF EndRestore, sinkVars
  <2>2. Holding' = Holding /\ HeldOnce' /\ Descending'
    BY <1>0, <1>8, <2>1, LoadsNoMore
  <2> QED BY <2>1, <2>2, GoesOn DEF Given
<1> QED BY <1>1, <1>2, <1>3, <1>4, <1>5, <1>6, <1>7, <1>8, <1>9

(* A step that leaves what is held where it is.                            *)
LEMMA StaysOn ==
  ASSUME NEW at, NEW from, NEW kept, NEW stat, Rebuilt(at, from, kept, stat), ~ Stopping,
         UNCHANGED <<arch, heap, packed, spill, slot, loaded>>,
         pc \notin {"load", "restore", "evict"}, pc' \notin {"load", "restore", "evict", "done", "failed"},
         Placed(at, from, kept, stat)', Clean(from)',
         \A m \in MatchesOf(arch, from) : Owing(m, at)' <=> Owing(m, at)
  PROVE  Rebuilt(at, from, kept, stat)'
<1>1. AwaitedSlots' = AwaitedSlots
  BY DEF AwaitedSlots
<1>2. /\ Makes(arch, at, from, kept, stat) /\ HeldOnce /\ Descending
      /\ HeldRight(at, from) /\ NoneLost(at, from)
  BY DEF Rebuilt
<1>3. Holding' = Holding /\ HeldOnce' /\ Descending'
  BY <1>1, <1>2, StaysPut
<1>4. HeldRight(at, from)' /\ NoneLost(at, from)'
  BY <1>2, <1>3, SameHolding
<1>5. Given'
  BY DEF Given
<1> QED BY <1>2, <1>3, <1>4, <1>5 DEF Rebuilt

(* Reading the lists of a block: none of its records is read yet.          *)
LEMMA ReadsBlock ==
  ASSUME TypeOK, SlotInv, NEW at, NEW from, NEW kept, NEW stat, Rebuilt(at, from, kept, stat),
         ReadBlock
  PROVE  Rebuilt(at, from, kept, stat)'
<1> DEFINE b == block + 1
<1>1. /\ pc = "block" /\ pc' = "validate" /\ ~ AtEnd /\ rec' = 1 /\ blockPos' = blockStart
      /\ totalStat' = totalStat + Len(CurrentBlock.recs) /\ inPos' = 0 /\ outBuf' = <<>>
      /\ UNCHANGED <<arch, block, blockStart, sink, heap, packed, spill, slot, loaded>>
  BY DEF ReadBlock, sinkVars, packVars, slotVars, vmVars
<1>2. /\ arch \in Archive /\ block \in Nat /\ block < Len(arch.blocks) /\ blockStart \in Nat
  BY <1>1 DEF TypeOK, ReadOK, AtEnd, Archive
<1>3. /\ Makes(arch, at, from, kept, stat) /\ Placed(at, from, kept, stat) /\ Between /\ ~ Stopping
  BY <1>1 DEF Rebuilt, Between, Stopping
<1>4. b \in 1 .. Len(arch.blocks) /\ b \in DOMAIN arch.blocks /\ CurrentBlock' = CurrentBlock
      /\ CurrentBlock = arch.blocks[b] /\ Len(CurrentBlock.recs) \in Nat
  BY <1>1, <1>2, <1>3, BlocksOf DEF CurrentBlock
<1>5. outPos' = 0 /\ Reached' = blockStart /\ Reached = blockStart
  BY <1>1, <1>2, <1>3 DEF outPos, Reached, Between
<1>6. Placed(at, from, kept, stat)'
  <2>1. blockStart = at[b] /\ Follows(arch.file, 0, sink) /\ Len(sink) = blockStart
        /\ totalStat = stat[block]
    BY <1>3 DEF Placed
  <2>2. stat[b] = stat[b - 1] + Len(arch.blocks[b].recs) /\ b - 1 = block
    <3>1. FooterCounts(arch, stat)
      BY <1>3 DEF Makes
    <3>2. stat[b] = stat[b - 1] + Len(arch.blocks[b].recs)
      BY <1>4, <3>1 DEF FooterCounts
    <3>3. b - 1 = block
      BY <1>2
    <3> QED BY <3>2, <3>3
  <2>3. totalStat' = stat[b]
    BY <1>1, <1>4, <2>1, <2>2
  <2>4. Follows(arch.file, blockStart, <<>>)
    BY DEF Follows
  <2>5. from[b][0] = at[b]
    BY <1>3, <1>4 DEF Makes, SourcesAddUp
  <2>6. rec' <= Len(CurrentBlock'.recs) + 1 /\ blockPos' = from[b][rec' - 1]
    BY <1>1, <1>4, <2>1, <2>5
  <2>7. ~ Between' /\ ~ Filling' /\ ~ Storing'
    BY <1>1 DEF Between, Filling, Storing
  <2>8. (~ Between => Follows(arch.file, blockStart, outBuf))'
    BY <1>1, <2>4
  <2>9. (totalStat = IF Between THEN stat[block] ELSE stat[block + 1])'
    BY <1>1, <2>3, <2>7
  <2>10. (blockStart = at[block + 1] /\ Follows(arch.file, 0, sink) /\ Len(sink) = blockStart)'
    BY <1>1, <2>1
  <2> QED BY <1>1, <1>5, <2>6, <2>7, <2>8, <2>9, <2>10 DEF Placed
<1>7. Clean(from)'
  BY <1>1 DEF Clean, Filling
<1>8. ASSUME NEW m \in MatchesOf(arch, from) PROVE Owing(m, at)' <=> Owing(m, at)
  <2>1. m.nr \in Nat \ {0}
    BY <1>2, <1>3, MatchOf, BlocksOf
  <2>2. ~ (m.nr < rec')
    BY <1>1, <2>1
  <2>3. Taken(m, at)' <=> m.home <= block
    BY <1>1, <2>2 DEF Taken, Filling, Storing
  <2>4. Taken(m, at) <=> m.home <= block
    BY <1>1 DEF Taken, Filling, Storing
  <2> QED BY <1>5, <2>3, <2>4 DEF Owing
<1> QED BY <1>1, <1>3, <1>6, <1>7, <1>8, StaysOn

(* All of its records have been read: the block can be filled.             *)
LEMMA EndsValidation ==
  ASSUME TypeOK, SlotInv, NEW at, NEW from, NEW kept, NEW stat, Rebuilt(at, from, kept, stat),
         EndValidate
  PROVE  Rebuilt(at, from, kept, stat)'
<1> DEFINE b == block + 1
<1>1. /\ pc = "validate" /\ pc' = "fill" /\ ~ MoreRecords
      /\ UNCHANGED <<readVars, buildVars, sink, heap, packed, spill, slot, loaded>>
  BY DEF EndValidate, sinkVars, packVars, slotVars, vmVars
<1>2. UNCHANGED <<arch, block, blockStart, totalStat, rec, blockPos, inPos, outBuf>>
  BY <1>1 DEF readVars, buildVars
<1>3. InBlock
  BY <1>1 DEF InBlock
<1>4. /\ b \in 1 .. Len(arch.blocks) /\ arch \in Archive /\ at[b] = blockStart /\ at[b + 1] = blockEnd
      /\ blockStart \in Nat /\ blockEnd \in Nat /\ CurrentBlock = arch.blocks[b]
      /\ ~ Stopping /\ ~ Between /\ block \in Nat /\ blockStart <= blockEnd
      /\ Len(CurrentBlock.recs) \in Nat
  BY <1>3, BlockNow
<1>5. /\ Makes(arch, at, from, kept, stat) /\ Placed(at, from, kept, stat)
      /\ outPos = 0 /\ inPos = 0
  BY <1>1, <1>4 DEF Rebuilt, Placed
<1>6. ~ Between' /\ Filling' /\ ~ Storing'
  BY <1>1 DEF Between, Filling, Storing
<1>7. /\ Reached = blockStart /\ Reached' = blockStart /\ blockEnd' = blockEnd
      /\ CurrentBlock' = CurrentBlock /\ outPos' = 0
  BY <1>2, <1>4, <1>5, <1>6 DEF Reached, outPos, blockEnd, CurrentBlock
<1>8. kept[b][at[b]] = 0
  <2>1. b \in DOMAIN arch.blocks
    BY <1>4, <1>5, BlocksOf
  <2> QED BY <1>5, <2>1 DEF Makes, LiteralsFillGaps
<1>9. Placed(at, from, kept, stat)'
  <2>1. (blockStart = at[block + 1] /\ Follows(arch.file, 0, sink) /\ Len(sink) = blockStart)'
    BY <1>1, <1>2, <1>5 DEF Placed
  <2>2. (totalStat = IF Between THEN stat[block] ELSE stat[block + 1])'
    BY <1>2, <1>4, <1>5, <1>6 DEF Placed
  <2>3. (~ Between => Follows(arch.file, blockStart, outBuf))'
    BY <1>2, <1>4, <1>5 DEF Placed
  <2>4. Reached' <= blockEnd' /\ inPos' = kept[block' + 1][Reached']
    BY <1>2, <1>4, <1>5, <1>7, <1>8
  <2> QED BY <1>1, <1>6, <2>1, <2>2, <2>3, <2>4 DEF Placed
<1>10. Clean(from)'
  <2> SUFFICES ASSUME NEW m \in MatchesOf(arch, from)
               PROVE  m.dest >= blockStart \/ m.dest + m.len <= blockStart
    BY <1>2, <1>7 DEF Clean
  <2>1. m.dest \in Nat /\ m.len \in Nat
        /\ \A c \in 1 .. Len(arch.blocks) : m.dest < at[c + 1] => m.dest + m.len <= at[c + 1]
    BY <1>4, <1>5, MatchOf
  <2>2. CASE block = 0
    <3>1. at[1] = 0
      BY <1>5 DEF Makes
    <3> QED BY <1>4, <2>1, <2>2, <3>1
  <2>3. CASE block # 0
    <3>1. block \in 1 .. Len(arch.blocks)
      BY <1>4, <1>5, <2>3, BlocksOf
    <3>2. m.dest < blockStart => m.dest + m.len <= blockStart
      BY <1>4, <2>1, <3>1
    <3> QED BY <1>4, <2>1, <3>2
  <2> QED BY <2>2, <2>3
<1>11. ASSUME NEW m \in MatchesOf(arch, from) PROVE Owing(m, at)' <=> Owing(m, at)
  <2>1. m.home = b => m.nr < rec
    <3>1. m.nr \in 1 .. Len(arch.blocks[m.home].recs)
      BY <1>4, <1>5, MatchOf
    <3>2. rec \in Nat /\ rec > Len(CurrentBlock.recs)
      BY <1>1, <1>4 DEF MoreRecords, TypeOK, BuildOK
    <3> QED BY <1>4, <3>1, <3>2
  <2>2. Taken(m, at) <=> m.home <= block \/ (m.home = b /\ Local(m, at))
    BY <1>1, <2>1 DEF Taken, Filling, Storing
  <2>3. Taken(m, at)' <=> m.home <= block \/ (m.home = b /\ Local(m, at))
    BY <1>1, <1>2 DEF Taken, Filling, Storing, Local
  <2> QED BY <1>7, <2>2, <2>3 DEF Owing
<1> QED BY <1>1, <1>2, <1>4, <1>9, <1>10, <1>11, StaysOn

(* The next record of the block: it is owed from now on, when this pass is *)
(* the one that takes it.                                                  *)
ReadNow == [home |-> block + 1, nr |-> rec, src |-> src, dest |-> dest, len |-> ThisRecord.len]

LEMMA NextPlaced ==
  ASSUME TypeOK, NEW at, NEW from, NEW kept, NEW stat, Rebuilt(at, from, kept, stat),
         pc \in {"validate", "store"}, MoreRecords, NextRecord,
         UNCHANGED <<pc, caller, readVars, inPos, outBuf, sink>>
  PROVE  /\ Placed(at, from, kept, stat)' /\ Clean(from)' /\ Reached' = Reached
         /\ ReadNow \in MatchesOf(arch, from) /\ RecordInRange
         /\ \A m \in MatchesOf(arch, from) :
              Taken(m, at)' <=> \/ Taken(m, at)
                                \/ m = ReadNow /\ (pc = "validate" => Local(m, at))
<1> DEFINE b == block + 1
<1>1. UNCHANGED <<pc, caller, arch, block, blockStart, totalStat, inPos, outBuf, sink>>
      /\ rec' = rec + 1 /\ blockPos' = src
  BY DEF readVars, NextRecord
<1>2. /\ ReadNow \in MatchesOf(arch, from)
      /\ \A m \in MatchesOf(arch, from) : m.home = b /\ m.nr = rec => m = ReadNow
      /\ rec \in 1 .. Len(CurrentBlock.recs) /\ from[b][rec] = src
      /\ RecordInRange
  BY RecordNow DEF ReadNow, Storing
<1>3. InBlock
  BY DEF InBlock
<1>4. /\ ~ Stopping /\ ~ Between /\ Len(CurrentBlock.recs) \in Nat /\ b \in 1 .. Len(arch.blocks)
      /\ arch \in Archive /\ block \in Nat
  BY <1>3, BlockNow
<1>5. Placed(at, from, kept, stat) /\ Makes(arch, at, from, kept, stat)
  BY <1>4 DEF Rebuilt
<1>6. /\ ~ Between' /\ ~ Filling' /\ (pc' = "validate" <=> pc = "validate")
      /\ (Storing' <=> pc = "store") /\ (Storing <=> pc = "store") /\ ~ Filling
  BY <1>1 DEF Between, Filling, Storing
<1>7. CurrentBlock' = CurrentBlock /\ outPos' = outPos /\ Reached' = Reached
  BY <1>1, <1>4, <1>6 DEF CurrentBlock, outPos, Reached
<1>8. Placed(at, from, kept, stat)'
  <2>1. (blockStart = at[block + 1] /\ Follows(arch.file, 0, sink) /\ Len(sink) = blockStart)'
    BY <1>1, <1>5 DEF Placed
  <2>2. (totalStat = IF Between THEN stat[block] ELSE stat[block + 1])'
    BY <1>1, <1>4, <1>5, <1>6 DEF Placed
  <2>3. (~ Between => Follows(arch.file, blockStart, outBuf))'
    BY <1>1, <1>4, <1>5 DEF Placed
  <2>4. (pc = "validate" => outPos = 0 /\ inPos = 0)'
    BY <1>1, <1>5, <1>7 DEF Placed
  <2>5. rec' <= Len(CurrentBlock'.recs) + 1 /\ rec' - 1 = rec
    BY <1>1, <1>2, <1>4, <1>7
  <2>6. blockPos' = from[block' + 1][rec' - 1]
    BY <1>1, <1>2, <2>5
  <2> QED BY <1>6, <2>1, <2>2, <2>3, <2>4, <2>5, <2>6 DEF Placed
<1>9. Clean(from)'
  BY <1>6 DEF Clean
<1>10. ASSUME NEW m \in MatchesOf(arch, from)
       PROVE  Taken(m, at)' <=> \/ Taken(m, at)
                                \/ m = ReadNow /\ (pc = "validate" => Local(m, at))
  <2>1. m.nr \in Nat /\ rec \in Nat
    BY <1>2, <1>4, <1>5, MatchOf, BlocksOf
  <2>2. m = ReadNow => m.home = b /\ m.nr = rec
    BY DEF ReadNow
  <2>3. m.home = b => (m.nr < rec + 1 <=> m.nr < rec \/ m = ReadNow)
    BY <1>2, <2>1, <2>2
  <2>4. CASE pc = "validate"
    <3>1. Taken(m, at)' <=> m.home <= block \/ (m.home = b /\ Local(m, at) /\ m.nr < rec + 1)
      BY <1>1, <1>6, <2>4 DEF Taken, Local
    <3>2. Taken(m, at) <=> m.home <= block \/ (m.home = b /\ Local(m, at) /\ m.nr < rec)
      BY <1>6, <2>4 DEF Taken
    <3> QED BY <2>2, <2>3, <2>4, <3>1, <3>2
  <2>5. CASE pc = "store"
    <3>1. Taken(m, at)' <=> m.home <= block \/ (m.home = b /\ (Local(m, at) \/ m.nr < rec + 1))
      BY <1>1, <1>6, <2>5 DEF Taken, Local
    <3>2. Taken(m, at) <=> m.home <= block \/ (m.home = b /\ (Local(m, at) \/ m.nr < rec))
      BY <1>6, <2>5 DEF Taken
    <3> QED BY <2>2, <2>3, <2>5, <3>1, <3>2
  <2> QED BY <2>4, <2>5
<1> QED BY <1>2, <1>7, <1>8, <1>9, <1>10

(* It is not owed before, and its place in the heap is free.               *)
LEMMA NotYetOwed ==
  ASSUME TypeOK, SlotInv, NEW at, NEW from, NEW kept, NEW stat, Rebuilt(at, from, kept, stat),
         pc \in {"validate", "store"}, MoreRecords, ReadNow \in MatchesOf(arch, from),
         pc = "store" => ~ Local(ReadNow, at)
  PROVE  ~ Owing(ReadNow, at) /\ ReadNow.dest \notin DOMAIN heap
         /\ \A e \in Holding : e.dest # ReadNow.dest
<1>1. ReadNow.home = block + 1 /\ ReadNow.nr = rec
  BY DEF ReadNow
<1>2. block \in Nat /\ rec \in Nat /\ ~ Stopping
  BY DEF TypeOK, ReadOK, BuildOK, Stopping
<1>3. ~ Filling /\ (Storing <=> pc = "store")
  BY DEF Filling, Storing
<1>4. ~ Taken(ReadNow, at)
  BY <1>1, <1>2, <1>3 DEF Taken
<1>5. ~ Owing(ReadNow, at)
  BY <1>4 DEF Owing
<1> QED BY <1>2, <1>5, FreePlace

(* Put into the heap.                                                      *)
LEMMA TakesRecord ==
  ASSUME TypeOK, SlotInv, Whole, NEW at, NEW from, NEW kept, NEW stat, Rebuilt(at, from, kept, stat),
         pc \in {"validate", "store"}, MoreRecords, NextRecord,
         UNCHANGED <<pc, caller, readVars, inPos, outBuf, sink, packed, spill, slot, loaded>>,
         IF pc = "validate" THEN Local(ReadNow, at) ELSE ~ Local(ReadNow, at),
         NEW e \in Entry, Stands(e, ReadNow, at), heap' = Insert(heap, e)
  PROVE  Rebuilt(at, from, kept, stat)'
<1>1. /\ Placed(at, from, kept, stat)' /\ Clean(from)' /\ Reached' = Reached
      /\ ReadNow \in MatchesOf(arch, from) /\ RecordInRange
      /\ \A m \in MatchesOf(arch, from) :
           Taken(m, at)' <=> \/ Taken(m, at)
                             \/ m = ReadNow /\ (pc = "validate" => Local(m, at))
  BY NextPlaced
<1>2. ~ Owing(ReadNow, at) /\ ReadNow.dest \notin DOMAIN heap
      /\ \A x \in Holding : x.dest # ReadNow.dest
  BY <1>1, NotYetOwed
<1>3. InBlock /\ ~ Stopping
  BY DEF InBlock, Stopping
<1>4. /\ at[block + 1] = blockStart /\ at[(block + 1) + 1] = blockEnd /\ ~ Between /\ arch \in Archive
      /\ blockStart \in Nat /\ blockEnd \in Nat /\ outPos \in Nat
  BY <1>3, BlockNow
<1>5. /\ Makes(arch, at, from, kept, stat) /\ HeldOnce /\ Descending
      /\ HeldRight(at, from) /\ NoneLost(at, from) /\ Placed(at, from, kept, stat)
  BY <1>3 DEF Rebuilt
<1>6. /\ ReadNow.dest \in Nat /\ ReadNow.len > 0 /\ ReadNow.src < ReadNow.dest
      /\ ReadNow.src \in Nat /\ blockStart <= ReadNow.src /\ ReadNow.home = block + 1
  <2>1. ReadNow.home = block + 1
    BY DEF ReadNow
  <2>2. ReadNow.dest \in Nat /\ ReadNow.len \in Nat \ {0} /\ ReadNow.src < ReadNow.dest
        /\ ReadNow.src \in Nat /\ at[ReadNow.home] <= ReadNow.src
    BY <1>1, <1>4, <1>5, MatchOf
  <2> QED BY <1>4, <2>1, <2>2
<1>7. e.dest = ReadNow.dest /\ e.len = ReadNow.len
  BY DEF Stands
<1>8. IsHeap(heap)
  BY DEF TypeOK, HeapOK
<1>9. Holding' = Holding \cup {e} /\ HeldOnce' /\ Descending'
  BY <1>2, <1>5, <1>6, <1>7, <1>8, PutMatch
<1>10. ReadNow.dest >= Reached
  <2>1. CASE pc = "validate"
    <3>1. outPos = 0
      BY <1>5, <2>1 DEF Placed
    <3>2. Reached = blockStart
      BY <1>4, <3>1 DEF Reached
    <3> QED BY <1>4, <1>6, <3>2
  <2>2. CASE pc = "store"
    <3>1. ~ (ReadNow.dest < blockEnd)
      BY <1>4, <1>6, <2>2 DEF Local
    <3>2. Reached = blockStart + outPos
      BY <1>4 DEF Reached
    <3>3. outPos = CurrentBlock.size
      BY <2>2 DEF Whole, Built
    <3>4. Reached = blockEnd
      BY <3>2, <3>3 DEF blockEnd
    <3> QED BY <1>4, <1>6, <3>1, <3>4
  <2> QED BY <2>1, <2>2
<1>11. \A m \in MatchesOf(arch, from) : Owing(m, at)' <=> Owing(m, at) \/ m = ReadNow
  BY <1>1, <1>10 DEF Owing
<1>12. arch' = arch
  BY DEF readVars
<1>13. HeldRight(at, from)' /\ NoneLost(at, from)'
  BY <1>1, <1>5, <1>9, <1>11, <1>12, GainsOne
<1>14. Given' /\ pc' # "failed" /\ pc' # "done"
  BY DEF Given
<1> QED BY <1>1, <1>5, <1>9, <1>12, <1>13, <1>14 DEF Rebuilt

(* Passed by.                                                              *)
LEMMA PassesRecord ==
  ASSUME TypeOK, SlotInv, NEW at, NEW from, NEW kept, NEW stat, Rebuilt(at, from, kept, stat),
         pc \in {"validate", "store"}, MoreRecords, NextRecord,
         UNCHANGED <<pc, caller, readVars, inPos, outBuf, sink, heap, packed, spill, slot, loaded>>,
         IF pc = "validate" THEN ~ Local(ReadNow, at) ELSE Local(ReadNow, at)
  PROVE  Rebuilt(at, from, kept, stat)'
<1>1. /\ Placed(at, from, kept, stat)' /\ Clean(from)' /\ Reached' = Reached
      /\ ReadNow \in MatchesOf(arch, from)
      /\ \A m \in MatchesOf(arch, from) :
           Taken(m, at)' <=> \/ Taken(m, at)
                             \/ m = ReadNow /\ (pc = "validate" => Local(m, at))
  BY NextPlaced
<1>2. pc = "store" => Taken(ReadNow, at)
  BY DEF Taken, Storing, ReadNow
<1>3. \A m \in MatchesOf(arch, from) : Taken(m, at)' <=> Taken(m, at)
  BY <1>1, <1>2
<1>4. \A m \in MatchesOf(arch, from) : Owing(m, at)' <=> Owing(m, at)
  BY <1>1, <1>3 DEF Owing
<1>5. ~ Stopping /\ arch' = arch
  BY DEF Stopping, readVars
<1> QED BY <1>1, <1>4, <1>5, StaysOn

LEMMA ReadsRecord ==
  ASSUME TypeOK, SlotInv, Whole, NEW at, NEW from, NEW kept, NEW stat, Rebuilt(at, from, kept, stat),
         ValidateRecord \/ SkipRecord \/ StoreUnsaved \/ StoreMatch
  PROVE  Rebuilt(at, from, kept, stat)'
<1>1. /\ pc \in {"validate", "store"} /\ MoreRecords /\ NextRecord
      /\ UNCHANGED <<pc, caller, readVars, inPos, outBuf, sink, packed, spill, slot, loaded>>
  BY DEF ValidateRecord, SkipRecord, StoreUnsaved, StoreMatch, sinkVars, packVars, slotVars, vmVars
<1>2. InBlock
  BY <1>1 DEF InBlock
<1>3. /\ at[block + 1] = blockStart /\ at[(block + 1) + 1] = blockEnd /\ ~ Between
      /\ block < Len(arch.blocks) /\ blockStart \in Nat /\ blockEnd \in Nat /\ arch.file \in Seq(Bytes)
      /\ arch \in Archive /\ ~ Stopping
  BY <1>2, BlockNow DEF TypeOK, ReadOK
<1>4. /\ ReadNow \in MatchesOf(arch, from) /\ ReadNow.home = block + 1 /\ ReadNow.dest = dest
      /\ ReadNow.src = src /\ ReadNow.len = ThisRecord.len
  BY <1>1, NextPlaced DEF ReadNow
<1>5. Local(ReadNow, at) <=> dest < blockEnd
  BY <1>3, <1>4 DEF Local
<1>6. /\ \A d \in Seq(Bytes) : Pending(d) \in Entry
      /\ Pending(Unsaved) \in Entry /\ dest \in Nat /\ src \in Nat
  BY <1>1, <1>3, ThisRecordType DEF TypeOK
<1>7. \A d : Pending(d).src = src /\ Pending(d).dest = dest /\ Pending(d).len = ThisRecord.len
             /\ Pending(d).data = d
  BY DEF Pending
<1>8. CASE ValidateRecord /\ dest < blockEnd
  <2>1. pc = "validate" /\ heap' = Insert(heap, Pending(Unsaved))
    BY <1>8 DEF ValidateRecord
  <2>2. Stands(Pending(Unsaved), ReadNow, at)
    BY <1>4, <1>5, <1>7, <1>8 DEF Stands
  <2> QED BY <1>1, <1>5, <1>6, <1>8, <2>1, <2>2, TakesRecord
<1>9. CASE ValidateRecord /\ ~ (dest < blockEnd)
  <2>1. pc = "validate" /\ heap' = heap
    BY <1>9 DEF ValidateRecord
  <2> QED BY <1>1, <1>5, <1>9, <2>1, PassesRecord
<1>10. CASE SkipRecord
  <2>1. pc = "store" /\ heap' = heap /\ ~ (dest >= blockEnd)
    BY <1>10 DEF SkipRecord, Leaves
  <2>2. dest < blockEnd
    BY <1>3, <1>6, <2>1
  <2> QED BY <1>1, <1>5, <2>1, <2>2, PassesRecord
<1>11. CASE StoreUnsaved
  <2>1. pc = "store" /\ heap' = Insert(heap, Pending(Unsaved)) /\ dest >= blockEnd
        /\ ~ (ThisRecord.len < MaxSave)
    BY <1>11 DEF StoreUnsaved, Leaves, Saved
  <2>2. ~ (dest < blockEnd)
    BY <1>3, <1>6, <2>1
  <2>3. MaxSave \in Nat
    BY SlotAssumption, BudgetAssumption DEF MaxSave
  <2>4. ThisRecord.len \in Nat
    BY <1>6 DEF Pending, Entry
  <2>5. Stands(Pending(Unsaved), ReadNow, at)
    BY <1>4, <1>7, <2>1, <2>3, <2>4 DEF Stands
  <2> QED BY <1>1, <1>5, <1>6, <2>1, <2>2, <2>5, TakesRecord
<1>12. CASE StoreMatch
  <2> DEFINE data == Part(outBuf, src - blockStart, ThisRecord.len)
             len == ThisRecord.len
  <2>1. pc = "store" /\ heap' = Insert(heap, Pending(data)) /\ dest >= blockEnd
        /\ ThisRecord.len < MaxSave
    BY <1>12 DEF StoreMatch, Leaves, Saved
  <2>2. ~ (dest < blockEnd)
    BY <1>3, <1>6, <2>1
  <2>3. Makes(arch, at, from, kept, stat) /\ Follows(arch.file, blockStart, outBuf)
    BY <1>3 DEF Rebuilt, Placed
  <2>4. len \in Nat \ {0} /\ blockStart <= src /\ src + len <= blockEnd
    <3>1. ReadNow.len \in Nat \ {0} /\ at[ReadNow.home] <= ReadNow.src
          /\ ReadNow.src + ReadNow.len <= at[ReadNow.home + 1]
      BY <1>3, <1>4, <2>3, MatchOf
    <3> QED BY <1>3, <1>4, <3>1
  <2>5. outBuf \in Seq(Bytes) /\ Len(outBuf) = blockEnd - blockStart
    <3>1. outPos = CurrentBlock.size
      BY <2>1 DEF Whole, Built
    <3>2. CurrentBlock.size \in Nat
      BY <1>2, BlockNow
    <3> QED BY <1>3, <2>3, <3>1, <3>2 DEF Follows, outPos, blockEnd
  <2> HIDE DEF len
  <2>6. data = Part(arch.file, src, ThisRecord.len)
    <3>1. ASSUME NEW i \in 1 .. len PROVE ByteAt(outBuf, (src - blockStart) + i) = ByteAt(arch.file, src + i)
      <4>1. (src - blockStart) + i \in 1 .. Len(outBuf)
            /\ blockStart + ((src - blockStart) + i) = src + i
        BY <1>3, <1>6, <2>4, <2>5
      <4>2. ByteAt(outBuf, (src - blockStart) + i) = outBuf[(src - blockStart) + i]
        BY <2>5, <4>1 DEF ByteAt
      <4>3. outBuf[(src - blockStart) + i] = ByteAt(arch.file, blockStart + ((src - blockStart) + i))
        BY <2>3, <4>1 DEF Follows
      <4> QED BY <4>1, <4>2, <4>3
    <3> QED BY <3>1 DEF Part, len
  <2>7. data \in Seq(Bytes) /\ data # Unsaved
    <3>1. src - blockStart \in Int /\ len \in Nat
      BY <1>3, <1>6, <2>4
    <3>2. data \in Seq(Bytes) /\ Len(data) = len
      BY <2>5, <3>1, PartBytes DEF len
    <3> QED BY <2>4, <3>2 DEF Unsaved
  <2> HIDE DEF data
  <2>8. Stands(Pending(data), ReadNow, at)
    <3>1. Pending(data).data = Part(arch.file, ReadNow.src, ReadNow.len) /\ Pending(data).data # Unsaved
      BY <1>4, <1>7, <2>6, <2>7
    <3> QED BY <1>4, <1>7, <2>1, <3>1 DEF Stands
  <2>9. Pending(data) \in Entry
    BY <1>6, <2>7
  <2>10. heap' = Insert(heap, Pending(data))
    BY <2>1 DEF data
  <2> QED BY <1>1, <1>5, <2>1, <2>2, <2>8, <2>9, <2>10, TakesRecord
<1> QED BY <1>8, <1>9, <1>10, <1>11, <1>12

(* The records are all read: those of the next block come after.           *)
LEMMA EndsStoring ==
  ASSUME TypeOK, SlotInv, NEW at, NEW from, NEW kept, NEW stat, Rebuilt(at, from, kept, stat),
         EndStore
  PROVE  Rebuilt(at, from, kept, stat)'
<1> DEFINE b == block + 1
<1>1. /\ pc = "store" /\ pc' = "verify" /\ ~ MoreRecords
      /\ UNCHANGED <<readVars, buildVars, sink, heap, packed, spill, slot, loaded>>
  BY DEF EndStore, sinkVars, packVars, slotVars, vmVars
<1>2. UNCHANGED <<arch, block, blockStart, totalStat, rec, blockPos, inPos, outBuf>>
  BY <1>1 DEF readVars, buildVars
<1>3. InBlock
  BY <1>1 DEF InBlock
<1>4. /\ b \in 1 .. Len(arch.blocks) /\ arch \in Archive /\ CurrentBlock = arch.blocks[b]
      /\ ~ Stopping /\ ~ Between /\ block \in Nat /\ Len(CurrentBlock.recs) \in Nat
  BY <1>3, BlockNow
<1>5. Makes(arch, at, from, kept, stat) /\ Placed(at, from, kept, stat)
  BY <1>4 DEF Rebuilt
<1>6. ~ Between' /\ ~ Filling' /\ ~ Storing' /\ Storing /\ ~ Filling
  BY <1>1 DEF Between, Filling, Storing
<1>7. Reached' = Reached
  BY <1>2, <1>4, <1>6 DEF Reached, outPos
<1>8. Placed(at, from, kept, stat)'
  <2>1. (blockStart = at[block + 1] /\ Follows(arch.file, 0, sink) /\ Len(sink) = blockStart)'
    BY <1>1, <1>2, <1>5 DEF Placed
  <2>2. (totalStat = IF Between THEN stat[block] ELSE stat[block + 1])'
    BY <1>2, <1>4, <1>5, <1>6 DEF Placed
  <2>3. (~ Between => Follows(arch.file, blockStart, outBuf))'
    BY <1>2, <1>4, <1>5 DEF Placed
  <2> QED BY <1>1, <1>6, <2>1, <2>2, <2>3 DEF Placed
<1>9. Clean(from)'
  BY <1>6 DEF Clean
<1>10. ASSUME NEW m \in MatchesOf(arch, from) PROVE Owing(m, at)' <=> Owing(m, at)
  <2>1. m.home = b => m.nr < rec
    <3>1. m.nr \in 1 .. Len(arch.blocks[m.home].recs)
      BY <1>4, <1>5, MatchOf
    <3>2. rec \in Nat /\ rec > Len(CurrentBlock.recs)
      BY <1>1, <1>4 DEF MoreRecords, TypeOK, BuildOK
    <3> QED BY <1>4, <3>1, <3>2
  <2>2. Taken(m, at) <=> m.home <= block \/ m.home = b
    BY <1>1, <1>6, <2>1 DEF Taken
  <2>3. Taken(m, at)' <=> m.home <= block \/ m.home = b
    BY <1>1, <1>2, <1>6 DEF Taken
  <2> QED BY <1>7, <2>2, <2>3 DEF Owing
<1> QED BY <1>1, <1>2, <1>4, <1>8, <1>9, <1>10, StaysOn

-----------------------------------------------------------------------------
(* The match that fills the block next.                                    *)
LEMMA OwedNext ==
  ASSUME TypeOK, SlotInv, NEW at, NEW from, NoneLost(at, from), pc = "fill", NEW x \in Nat,
         \A d \in DOMAIN heap : d >= x
  PROVE  \A m \in MatchesOf(arch, from) : Owing(m, at) /\ m.dest \in Nat => m.dest >= x
<1> SUFFICES ASSUME NEW m \in MatchesOf(arch, from), Owing(m, at), m.dest \in Nat PROVE m.dest >= x
  OBVIOUS
<1>1. PICK d \in DOMAIN heap : d <= m.dest
  BY OwingAnnounced
<1>2. d \in Nat
  BY DEF TypeOK, HeapOK, IsHeap
<1> QED BY <1>1, <1>2

LEMMA DueMatch ==
  ASSUME TypeOK, SlotInv, NEW at, NEW from, NEW kept, NEW stat, Rebuilt(at, from, kept, stat),
         NEW d \in DOMAIN heap, Due(d), ~ IsMark(heap[d][1])
  PROVE  \E n \in MatchesOf(arch, from) :
           /\ n.dest = d /\ Owing(n, at) /\ Stands(heap[d][1], n, at)
           /\ d \in Nat /\ Reached <= d /\ d < blockEnd /\ d + n.len <= blockEnd /\ n.home <= block + 1
           /\ \A m \in MatchesOf(arch, from) : Owing(m, at) => m.dest >= d
<1>1. pc = "fill" /\ d < blockEnd /\ (\A e \in DOMAIN heap : d <= e) /\ d \in Nat
  BY DEF Due, IsMinDest, TypeOK, HeapOK, IsHeap
<1>2. InBlock
  BY <1>1 DEF InBlock
<1>3. /\ block + 1 \in 1 .. Len(arch.blocks) /\ arch \in Archive /\ at[(block + 1) + 1] = blockEnd
      /\ ~ Stopping /\ blockEnd \in Nat /\ blockStart \in Nat /\ outPos \in Nat /\ ~ Between
      /\ block \in Nat
  BY <1>2, BlockNow
<1>4. Makes(arch, at, from, kept, stat) /\ HeldRight(at, from) /\ NoneLost(at, from)
  BY <1>3 DEF Rebuilt
<1>5. heap[d][1] \in Holding /\ heap[d][1].dest = d
  BY DEF Holding, InHeap, Marks, MarksOf, SlotInv, Keyed
<1>6. PICK n \in MatchesOf(arch, from) : Owing(n, at) /\ Stands(heap[d][1], n, at)
  BY <1>4, <1>5 DEF HeldRight
<1>7. n.dest = d
  BY <1>5, <1>6 DEF Stands
<1>8. Reached <= d
  <2>1. Reached \in Nat
    BY <1>3 DEF Reached
  <2> QED BY <1>1, <1>6, <1>7, <2>1 DEF Owing
<1>9. d + n.len <= blockEnd /\ n.home <= block + 1
  <2>1. \A b \in 1 .. Len(arch.blocks) : n.dest < at[b + 1] => n.dest + n.len <= at[b + 1]
    BY <1>3, <1>4, MatchOf
  <2>2. n.dest < at[(block + 1) + 1] => n.home <= block + 1
    BY <1>3, <1>4, LandsAfter
  <2> QED BY <1>1, <1>3, <1>7, <2>1, <2>2
<1>10. ASSUME NEW m \in MatchesOf(arch, from), Owing(m, at) PROVE m.dest >= d
  <2>1. m.dest \in Nat
    BY <1>3, <1>4, MatchOf
  <2>2. \A e \in DOMAIN heap : e >= d
    <3>1. \A e \in DOMAIN heap : e \in Nat
      BY DEF TypeOK, HeapOK, IsHeap
    <3> QED BY <1>1, <3>1
  <2> QED BY <1>1, <1>4, <1>10, <2>1, <2>2, OwedNext
<1> QED BY <1>1, <1>6, <1>7, <1>8, <1>9, <1>10

(* It fits, and so do the literals before it.                              *)
LEMMA DueFits ==
  ASSUME TypeOK, SlotInv, NEW at, NEW from, NEW kept, NEW stat, Rebuilt(at, from, kept, stat),
         NEW d \in DOMAIN heap, Due(d), ~ IsMark(heap[d][1])
  PROVE  LET m == heap[d][1]
         IN  MatchFits(m) /\ LitLen(m) \in Nat /\ LitLen(m) = d - Reached
<1> DEFINE m == heap[d][1]
<1>1. PICK n \in MatchesOf(arch, from) :
           /\ n.dest = d /\ Owing(n, at) /\ Stands(heap[d][1], n, at)
           /\ d \in Nat /\ Reached <= d /\ d < blockEnd /\ d + n.len <= blockEnd /\ n.home <= block + 1
           /\ \A x \in MatchesOf(arch, from) : Owing(x, at) => x.dest >= d
  BY DueMatch
<1>2. InBlock /\ pc = "fill"
  BY DEF InBlock, Due
<1>3. /\ blockEnd \in Nat /\ blockStart \in Nat /\ outPos \in Nat /\ ~ Between /\ arch \in Archive
      /\ Literals \in Seq(Bytes) /\ CurrentBlock.size \in Nat /\ ~ Stopping
  BY <1>2, BlockNow
<1>4. m.dest = d /\ m.len = n.len
  BY <1>1 DEF Stands
<1>5. n.len \in Nat
  BY <1>3, MatchOf DEF Rebuilt
<1>6. Reached = blockStart + outPos
  BY <1>3 DEF Reached
<1>7. LitLen(m) = d - Reached /\ LitLen(m) \in Nat
  BY <1>1, <1>3, <1>4, <1>6 DEF LitLen
<1>8. d <= blockEnd
  BY <1>1, <1>3
<1>9. kept[block + 1][d] = inPos + (d - Reached) /\ kept[block + 1][d] \in 0 .. Len(Literals)
  BY <1>1, <1>2, <1>8, Gap
<1>10. inPos \in Nat /\ Len(Literals) \in Nat
  BY <1>3 DEF TypeOK, BuildOK
<1>11. LitLen(m) <= Len(Literals) - inPos
  <2> DEFINE k == kept[block + 1][d]
  <2>1. k = inPos + LitLen(m) /\ k \in 0 .. Len(Literals)
    BY <1>7, <1>9
  <2> HIDE DEF k, m
  <2> QED BY <1>7, <1>10, <2>1
<1>12. m.dest >= blockStart + outPos
  BY <1>1, <1>3, <1>4, <1>6
<1>13. outPos + LitLen(m) + m.len <= CurrentBlock.size
  <2>1. blockEnd = blockStart + CurrentBlock.size
    BY DEF blockEnd
  <2>2. LitLen(m) = d - (blockStart + outPos)
    BY <1>6, <1>7
  <2>3. m.len = n.len
    BY <1>4
  <2> HIDE DEF m
  <2> QED BY <1>1, <1>3, <1>5, <2>1, <2>2, <2>3
<1> QED BY <1>7, <1>11, <1>12, <1>13 DEF MatchFits

(* Its bytes are those of the file: from the output, from memory, or from  *)
(* the block itself.                                                       *)
LEMMA FilledRight ==
  ASSUME TypeOK, SlotInv, NEW at, NEW from, NEW kept, NEW stat, Rebuilt(at, from, kept, stat),
         NEW d \in DOMAIN heap, Due(d), ~ IsMark(heap[d][1])
  PROVE  LET m == heap[d][1]
         IN  /\ Follows(arch.file, blockStart, Filled(m))
             /\ Len(Filled(m)) = outPos + LitLen(m) + m.len
<1> DEFINE m == heap[d][1]
           lits == Part(Literals, inPos, LitLen(m))
           buf == outBuf \o lits
<1>1. PICK n \in MatchesOf(arch, from) :
           /\ n.dest = d /\ Owing(n, at) /\ Stands(heap[d][1], n, at)
           /\ d \in Nat /\ Reached <= d /\ d < blockEnd /\ d + n.len <= blockEnd /\ n.home <= block + 1
           /\ \A x \in MatchesOf(arch, from) : Owing(x, at) => x.dest >= d
  BY DueMatch
<1>2. InBlock /\ pc = "fill"
  BY DEF InBlock, Due
<1>3. /\ blockEnd \in Nat /\ blockStart \in Nat /\ outPos \in Nat /\ ~ Between /\ arch \in Archive
      /\ Literals \in Seq(Bytes) /\ ~ Stopping /\ arch.file \in Seq(Bytes)
      /\ block + 1 \in 1 .. Len(arch.blocks) /\ at[block + 1] = blockStart /\ block \in Nat
  BY <1>2, BlockNow
<1>4. /\ Makes(arch, at, from, kept, stat) /\ Follows(arch.file, blockStart, outBuf)
      /\ Follows(arch.file, 0, sink) /\ Len(sink) = blockStart
  BY <1>3 DEF Rebuilt, Placed
<1>5. m.dest = d /\ m.len = n.len /\ m.src = n.src
  BY <1>1 DEF Stands
<1>6. /\ n.len \in Nat \ {0} /\ n.src \in Nat /\ n.src < d /\ n.home \in Nat
      /\ n.home \in 1 .. Len(arch.blocks)
      /\ at[n.home] <= n.src /\ Part(arch.file, n.src, n.len) = Part(arch.file, d, n.len)
  BY <1>1, <1>3, <1>4, MatchOf, BlocksOf
<1>7. LitLen(m) = d - Reached /\ LitLen(m) \in Nat /\ Reached = blockStart + outPos
  BY <1>3, DueFits DEF Reached
<1>8. Part(Literals, inPos, LitLen(m)) = Part(arch.file, Reached, LitLen(m))
  <2>1. d <= blockEnd
    BY <1>1, <1>3
  <2>2. Part(Literals, inPos, d - Reached) = Part(arch.file, Reached, d - Reached)
    BY <1>1, <1>2, <2>1, Gap
  <2> HIDE DEF m
  <2> QED BY <1>7, <2>2
<1>9. After(blockStart, outBuf) = Reached
  BY <1>7 DEF After, outPos
<1>10. inPos \in Int
  BY DEF TypeOK, BuildOK
<1>11. Follows(arch.file, blockStart, buf) /\ Len(buf) = outPos + LitLen(m)
  <2> DEFINE l == LitLen(m)
  <2>1. l \in Nat /\ Part(Literals, inPos, l) = Part(arch.file, After(blockStart, outBuf), l)
    BY <1>7, <1>8, <1>9
  <2> HIDE DEF l, m
  <2>2. /\ Follows(arch.file, blockStart, outBuf \o Part(Literals, inPos, l))
        /\ Len(outBuf \o Part(Literals, inPos, l)) = Len(outBuf) + l
    <3>1. arch.file \in Seq(Bytes) /\ blockStart \in Nat /\ Literals \in Seq(Bytes)
      BY <1>3
    <3>2. Follows(arch.file, blockStart, outBuf)
      BY <1>4
    <3> HIDE DEF lits, buf
    <3> QED BY <1>10, <2>1, <3>1, <3>2, FollowsPart
  <2> QED BY <2>2 DEF l, outPos
<1>12. After(blockStart, buf) = d
  <2>1. Len(buf) = outPos + (d - (blockStart + outPos))
    BY <1>7, <1>11
  <2> HIDE DEF buf
  <2> QED BY <1>1, <1>3, <2>1 DEF After
<1>13. Filled(m) = buf \o (IF FromSink(m) THEN Part(sink, m.src, m.len)
                           ELSE IF m.data # Unsaved THEN m.data
                           ELSE LzCopy(buf, m.src - blockStart, m.len))
  BY DEF Filled
<1> HIDE DEF m, lits, buf
<1>14. SUFFICES ASSUME NEW bytes, Filled(m) = buf \o bytes,
                       bytes = IF FromSink(m) THEN Part(sink, n.src, n.len)
                           ELSE IF m.data # Unsaved THEN m.data
                           ELSE LzCopy(buf, n.src - blockStart, n.len)
                PROVE  Follows(arch.file, blockStart, buf \o bytes) /\ Len(buf \o bytes) = Len(buf) + n.len
  BY <1>5, <1>11, <1>13 DEF m
<1>15. n.src < blockStart => n.home < block + 1
  <2>1. n.home <= block + 1
    BY <1>1
  <2>2. n.home = block + 1 => blockStart <= n.src
    BY <1>3, <1>6
  <2> QED BY <1>3, <1>6, <2>1, <2>2
<1>16. n.src < blockStart => n.src + n.len <= blockStart /\ ~ Local(n, at)
  <2>1. n.home < block + 1 => n.src + n.len <= at[block + 1]
    BY <1>3, <1>4, LandsAfter
  <2>2. n.home < block + 1 /\ at[block + 1] <= n.dest => ~ Local(n, at)
    BY <1>3, <1>4, LandsAfter
  <2>3. blockStart <= n.dest
    BY <1>1, <1>3, <1>7
  <2> QED BY <1>3, <1>15, <2>1, <2>2, <2>3
<1>17. MaxSave \in Nat
  BY SlotAssumption, BudgetAssumption DEF MaxSave
<1>18. CASE FromSink(m)
  <2>1. n.src < blockStart /\ n.src + n.len <= Len(sink)
    BY <1>4, <1>5, <1>16, <1>18 DEF FromSink
  <2>2. sink \in Seq(Bytes)
    BY <1>4 DEF Follows
  <2>3. Part(sink, n.src, n.len) = Part(arch.file, n.src, n.len)
    <3>1. ASSUME NEW i \in 1 .. n.len PROVE ByteAt(sink, n.src + i) = ByteAt(arch.file, n.src + i)
      <4>1. n.src + i \in 1 .. Len(sink) /\ 0 + (n.src + i) = n.src + i
        BY <1>6, <2>1, <2>2
      <4>2. sink[n.src + i] = ByteAt(arch.file, 0 + (n.src + i))
        BY <1>4, <4>1 DEF Follows
      <4> QED BY <2>2, <4>1, <4>2 DEF ByteAt
    <3> QED BY <3>1 DEF Part
  <2>4. Part(sink, n.src, n.len) = Part(arch.file, After(blockStart, buf), n.len)
    BY <1>6, <1>12, <2>3
  <2>5. bytes = Part(sink, n.src, n.len)
    BY <1>14, <1>18
  <2>6. n.src \in Int /\ n.len \in Nat
    BY <1>6
  <2>7. arch.file \in Seq(Bytes) /\ blockStart \in Nat
    BY <1>3
  <2>8. /\ Follows(arch.file, blockStart, buf \o Part(sink, n.src, n.len))
        /\ Len(buf \o Part(sink, n.src, n.len)) = Len(buf) + n.len
    BY <1>11, <2>2, <2>4, <2>6, <2>7, FollowsPart
  <2> QED BY <2>5, <2>8
<1>19. CASE ~ FromSink(m) /\ m.data # Unsaved
  <2>1. bytes = Part(arch.file, n.src, n.len)
    BY <1>1, <1>14, <1>19 DEF Stands, m
  <2>2. Part(arch.file, n.src, n.len) = Part(arch.file, After(blockStart, buf), n.len)
    BY <1>6, <1>12
  <2>3. n.src \in Int /\ n.len \in Nat
    BY <1>6
  <2>4. arch.file \in Seq(Bytes) /\ blockStart \in Nat /\ Follows(arch.file, blockStart, buf)
    BY <1>3, <1>11
  <2>5. /\ Follows(arch.file, blockStart, buf \o Part(arch.file, n.src, n.len))
        /\ Len(buf \o Part(arch.file, n.src, n.len)) = Len(buf) + n.len
    BY <2>2, <2>3, <2>4, FollowsPart
  <2> QED BY <2>1, <2>5
<1>20. CASE ~ FromSink(m) /\ m.data = Unsaved
  <2>1. bytes = LzCopy(buf, n.src - blockStart, n.len)
    BY <1>14, <1>20
  <2>2. ~ (n.src < blockStart)
    <3>1. n.len >= MaxSave \/ Local(n, at)
      BY <1>1, <1>20 DEF Stands, m
    <3> QED BY <1>5, <1>16, <1>20, <3>1 DEF FromSink
  <2>3. Len(buf) = d - blockStart
    BY <1>3, <1>7, <1>11, <1>1
  <2>4. n.src - blockStart \in 0 .. Len(buf) - 1
    BY <1>1, <1>3, <1>6, <2>2, <2>3
  <2>5. blockStart + (n.src - blockStart) = n.src
    BY <1>3, <1>6
  <2>6. \A i \in 1 .. n.len :
          ByteAt(arch.file, (blockStart + (n.src - blockStart)) + i)
            = ByteAt(arch.file, After(blockStart, buf) + i)
    <3>1. \A i \in 1 .. n.len : ByteAt(arch.file, n.src + i) = ByteAt(arch.file, d + i)
      BY <1>3, <1>1, <1>6, PartsEqual
    <3> QED BY <1>12, <2>5, <3>1
  <2>7. n.len \in Nat
    BY <1>6
  <2>8. Follows(arch.file, blockStart, buf \o LzCopy(buf, n.src - blockStart, n.len))
    BY <1>3, <1>11, <2>4, <2>6, <2>7, FollowsCopy
  <2>9. buf \in Seq(Bytes)
    BY <1>11 DEF Follows
  <2>10. LzCopy(buf, n.src - blockStart, n.len) \in Seq(Bytes)
         /\ Len(LzCopy(buf, n.src - blockStart, n.len)) = n.len
    BY <2>4, <2>7, <2>9, LzCopyBytes
  <2> QED BY <2>1, <2>8, <2>9, <2>10
<1> QED BY <1>18, <1>19, <1>20

LEMMA FillsMatch ==
  ASSUME TypeOK, SlotInv, NEW at, NEW from, NEW kept, NEW stat, Rebuilt(at, from, kept, stat),
         FillMatch
  PROVE  Rebuilt(at, from, kept, stat)'
<1> DEFINE b == block + 1
<1>1. PICK d \in DOMAIN heap : FillMatch!(d)
  BY DEF FillMatch
<1> DEFINE m == heap[d][1]
<1>2. /\ pc = "fill" /\ pc' = "fill" /\ Due(d) /\ ~ IsMark(m) /\ heap' = TakeClass(heap, d)
      /\ outBuf' = Filled(m) /\ inPos' = inPos + LitLen(m)
      /\ UNCHANGED <<arch, block, blockStart, totalStat, rec, blockPos, sink, caller, packed, slot,
                     loaded, spill>>
  BY <1>1 DEF Due, readVars, packVars, slotVars, vmVars
<1>3. PICK n \in MatchesOf(arch, from) :
           /\ n.dest = d /\ Owing(n, at) /\ Stands(heap[d][1], n, at)
           /\ d \in Nat /\ Reached <= d /\ d < blockEnd /\ d + n.len <= blockEnd /\ n.home <= b
           /\ \A x \in MatchesOf(arch, from) : Owing(x, at) => x.dest >= d
  BY <1>2, DueMatch
<1>4. InBlock
  BY <1>2 DEF InBlock
<1>5. /\ blockEnd \in Nat /\ blockStart \in Nat /\ outPos \in Nat /\ ~ Between /\ arch \in Archive
      /\ b \in 1 .. Len(arch.blocks) /\ ~ Stopping /\ at[b] = blockStart /\ at[b + 1] = blockEnd
  BY <1>4, BlockNow
<1>6. /\ Makes(arch, at, from, kept, stat) /\ HeldRight(at, from) /\ NoneLost(at, from) /\ HeldOnce
      /\ Placed(at, from, kept, stat) /\ Clean(from) /\ Descending
  BY <1>5 DEF Rebuilt
<1>7. n.len \in Nat \ {0} /\ m.len = n.len
  BY <1>3, <1>5, <1>6, MatchOf DEF Stands
<1>8. LitLen(m) = d - Reached /\ Reached = blockStart + outPos /\ LitLen(m) \in Nat
  BY <1>2, <1>5, DueFits DEF Reached
<1>9. Follows(arch.file, blockStart, Filled(m)) /\ Len(Filled(m)) = outPos + LitLen(m) + m.len
  BY <1>2, FilledRight
<1>10. /\ ~ Between' /\ Filling /\ Filling' /\ ~ Storing' /\ ~ Storing
  BY <1>2 DEF Between, Filling, Storing
<1>11. Reached' = d + n.len /\ blockEnd' = blockEnd
  <2>1. Reached' = blockStart + Len(Filled(m))
    BY <1>2, <1>10 DEF Reached, outPos
  <2>2. Len(Filled(m)) = outPos + (d - (blockStart + outPos)) + n.len
    BY <1>7, <1>8, <1>9
  <2>3. blockEnd' = blockEnd
    BY <1>2 DEF blockEnd, CurrentBlock
  <2> HIDE DEF m
  <2> QED BY <1>3, <1>5, <1>7, <2>1, <2>2, <2>3
<1>12. kept[b][d + n.len] = inPos + LitLen(m)
  <2>1. d <= blockEnd
    BY <1>3, <1>5
  <2>2. kept[b][d] = inPos + (d - Reached)
    BY <1>2, <1>3, <2>1, Gap
  <2>3. b \in DOMAIN arch.blocks /\ LiteralsFillGaps(arch, at, from, kept)
    BY <1>5, <1>6, BlocksOf DEF Makes
  <2>4. at[b] <= n.dest /\ n.dest < at[b + 1]
    BY <1>3, <1>5, <1>8
  <2>5. kept[b][n.dest + n.len] = kept[b][n.dest]
    BY <2>3, <2>4 DEF LiteralsFillGaps
  <2> QED BY <1>3, <1>8, <2>2, <2>5
<1> HIDE DEF m
<1>13. Placed(at, from, kept, stat)'
  <2>1. (blockStart = at[block + 1] /\ Follows(arch.file, 0, sink) /\ Len(sink) = blockStart)'
    BY <1>2, <1>6 DEF Placed
  <2>2. (totalStat = IF Between THEN stat[block] ELSE stat[block + 1])'
    BY <1>2, <1>5, <1>6, <1>10 DEF Placed
  <2>3. (~ Between => Follows(arch.file, blockStart, outBuf))'
    BY <1>2, <1>9
  <2>4. Reached' <= blockEnd' /\ inPos' = kept[block' + 1][Reached']
    BY <1>2, <1>3, <1>11, <1>12
  <2> QED BY <1>2, <1>10, <2>1, <2>2, <2>3, <2>4 DEF Placed
<1>14. ASSUME NEW x \in MatchesOf(arch, from)
       PROVE  /\ x.dest \in Nat /\ x.len \in Nat \ {0}
              /\ x # n => x.dest + x.len <= d \/ d + n.len <= x.dest
              /\ x.dest = d => x = n
  BY <1>3, <1>5, <1>6, MatchOf, MatchesApart
<1>15. Clean(from)'
  <2> SUFFICES ASSUME NEW x \in MatchesOf(arch, from)
               PROVE  x.dest >= d + n.len \/ x.dest + x.len <= d + n.len
    BY <1>2, <1>11 DEF Clean
  <2> QED BY <1>3, <1>7, <1>14
<1>16. ASSUME NEW x \in MatchesOf(arch, from)
       PROVE  Owing(x, at)' <=> Owing(x, at) /\ x.dest # d
  <2>1. Taken(x, at)' <=> Taken(x, at)
    BY <1>2, <1>10 DEF Taken, Local
  <2>2. Owing(x, at) => x.dest >= d
    BY <1>3
  <2>3. x.dest # d => x # n
    BY <1>3
  <2>4. Reached \in Nat
    BY <1>5, <1>8
  <2>5. ASSUME x.dest >= d, x.dest # d PROVE x.dest >= d + n.len
    BY <1>3, <1>7, <1>14, <2>3, <2>5
  <2>6. x.dest >= d + n.len => x.dest >= Reached /\ x.dest # d
    BY <1>3, <1>7, <1>14, <2>4
  <2> QED BY <1>11, <2>1, <2>2, <2>5, <2>6 DEF Owing
<1>17. /\ \A e : e \in Holding' <=> e \in Holding /\ e.dest # d
       /\ HeldOnce' /\ Descending'
  <2>1. d \in DOMAIN heap \ Marks
    BY <1>2 DEF Marks, MarksOf, m
  <2>2. IsHeap(heap) /\ Keyed /\ packed = <<>>
    BY <1>2 DEF TypeOK, HeapOK, SlotInv, PackedOrder
  <2> QED BY <1>2, <1>6, <2>1, <2>2, TakeOut
<1>18. HeldRight(at, from)' /\ NoneLost(at, from)'
  BY <1>2, <1>6, <1>16, <1>17, LosesOne
<1>19. Given'
  BY <1>2 DEF Given
<1> QED BY <1>2, <1>6, <1>13, <1>15, <1>17, <1>18, <1>19 DEF Rebuilt

(* After the last match the block has the literals left.                   *)
LEMMA LiteralsLeft ==
  ASSUME TypeOK, SlotInv, NEW at, NEW from, NEW kept, NEW stat, Rebuilt(at, from, kept, stat),
         pc = "fill", NoneDue
  PROVE  /\ LiteralsFill /\ Len(Literals) - inPos = blockEnd - Reached /\ Reached <= blockEnd
         /\ Part(Literals, inPos, Len(Literals) - inPos) = Part(arch.file, Reached, blockEnd - Reached)
         /\ \A m \in MatchesOf(arch, from) : Owing(m, at) => m.dest >= blockEnd
<1> DEFINE b == block + 1
<1>1. InBlock
  BY DEF InBlock
<1>2. /\ blockEnd \in Nat /\ blockStart \in Nat /\ outPos \in Nat /\ ~ Between /\ arch \in Archive
      /\ b \in 1 .. Len(arch.blocks) /\ ~ Stopping /\ at[b + 1] = blockEnd
      /\ Literals \in Seq(Bytes) /\ CurrentBlock.size \in Nat /\ CurrentBlock = arch.blocks[b]
  BY <1>1, BlockNow
<1>3. /\ Makes(arch, at, from, kept, stat) /\ NoneLost(at, from) /\ Placed(at, from, kept, stat)
      /\ Filling
  BY <1>2 DEF Rebuilt, Filling
<1>4. Reached <= blockEnd /\ Reached = blockStart + outPos
  BY <1>2, <1>3 DEF Placed, Reached
<1>5. ASSUME NEW m \in MatchesOf(arch, from), Owing(m, at) PROVE m.dest >= blockEnd
  <2>1. m.dest \in Nat
    BY <1>2, <1>3, MatchOf
  <2> QED BY <1>2, <1>3, <1>5, <2>1, OwedNext DEF NoneDue
<1>6. /\ kept[b][blockEnd] = inPos + (blockEnd - Reached)
      /\ Part(Literals, inPos, blockEnd - Reached) = Part(arch.file, Reached, blockEnd - Reached)
  BY <1>2, <1>4, <1>5, Gap
<1>7. kept[b][at[b + 1]] = Len(Literals)
  <2>1. b \in DOMAIN arch.blocks /\ LiteralsFillGaps(arch, at, from, kept)
    BY <1>2, <1>3, BlocksOf DEF Makes
  <2> QED BY <1>2, <2>1 DEF LiteralsFillGaps, Literals
<1>8. inPos \in Nat /\ Len(Literals) \in Nat
  BY <1>2 DEF TypeOK, BuildOK
<1>9. Len(Literals) - inPos = blockEnd - Reached
  <2>1. Len(Literals) = inPos + (blockEnd - Reached) /\ blockEnd - Reached \in Int
    BY <1>2, <1>4, <1>6, <1>7
  <2> QED BY <1>8, <2>1
<1>10. LiteralsFill
  <2>1. Len(Literals) - inPos = (blockStart + CurrentBlock.size) - (blockStart + outPos)
    BY <1>4, <1>9 DEF blockEnd
  <2> QED BY <1>2, <2>1 DEF LiteralsFill
<1> QED BY <1>4, <1>5, <1>6, <1>9, <1>10

LEMMA FillsTail ==
  ASSUME TypeOK, SlotInv, NEW at, NEW from, NEW kept, NEW stat, Rebuilt(at, from, kept, stat),
         FillTail
  PROVE  Rebuilt(at, from, kept, stat)'
<1> DEFINE b == block + 1
           l == Len(Literals) - inPos
<1>1. /\ pc = "fill" /\ NoneDue /\ outBuf' = outBuf \o Part(Literals, inPos, l)
      /\ rec' = 1 /\ blockPos' = blockStart /\ pc' = "store"
      /\ UNCHANGED <<arch, block, blockStart, totalStat, inPos, sink, heap, packed, spill, slot, loaded>>
  BY DEF FillTail, readVars, sinkVars, packVars, slotVars, vmVars
<1>2. InBlock
  BY <1>1 DEF InBlock
<1>3. /\ blockEnd \in Nat /\ blockStart \in Nat /\ outPos \in Nat /\ ~ Between /\ arch \in Archive
      /\ b \in 1 .. Len(arch.blocks) /\ ~ Stopping /\ at[b] = blockStart /\ at[b + 1] = blockEnd
      /\ Literals \in Seq(Bytes) /\ CurrentBlock = arch.blocks[b] /\ arch.file \in Seq(Bytes)
      /\ Len(CurrentBlock.recs) \in Nat /\ block \in Nat
  BY <1>2, BlockNow
<1>4. /\ Makes(arch, at, from, kept, stat) /\ Placed(at, from, kept, stat)
      /\ Follows(arch.file, blockStart, outBuf)
  BY <1>3 DEF Rebuilt, Placed
<1>5. /\ l = blockEnd - Reached /\ Reached <= blockEnd
      /\ Part(Literals, inPos, l) = Part(arch.file, Reached, blockEnd - Reached)
      /\ \A m \in MatchesOf(arch, from) : Owing(m, at) => m.dest >= blockEnd
  BY <1>1, LiteralsLeft
<1>6. Reached = blockStart + outPos /\ After(blockStart, outBuf) = Reached
  BY <1>3 DEF Reached, After, outPos
<1>7. l \in Nat /\ inPos \in Int
  BY <1>3, <1>5, <1>6 DEF TypeOK, BuildOK
<1>8. Part(Literals, inPos, l) = Part(arch.file, After(blockStart, outBuf), l)
  <2> HIDE DEF l
  <2> QED BY <1>5, <1>6
<1> HIDE DEF l
<1>9. /\ Follows(arch.file, blockStart, outBuf \o Part(Literals, inPos, l))
      /\ Len(outBuf \o Part(Literals, inPos, l)) = Len(outBuf) + l
  <2>1. arch.file \in Seq(Bytes) /\ blockStart \in Nat /\ Literals \in Seq(Bytes)
    BY <1>3
  <2> QED BY <1>4, <1>7, <1>8, <2>1, FollowsPart
<1>10. /\ ~ Between' /\ ~ Filling' /\ Storing' /\ Filling /\ ~ Storing
  BY <1>1 DEF Between, Filling, Storing
<1>11. Reached' = blockEnd
  <2>1. Reached' = blockStart + (outPos + l)
    BY <1>1, <1>9, <1>10 DEF Reached, outPos
  <2>2. l = blockEnd - (blockStart + outPos)
    BY <1>5, <1>6
  <2> QED BY <1>3, <2>1, <2>2
<1>12. Placed(at, from, kept, stat)'
  <2>1. (blockStart = at[block + 1] /\ Follows(arch.file, 0, sink) /\ Len(sink) = blockStart)'
    BY <1>1, <1>4 DEF Placed
  <2>2. (totalStat = IF Between THEN stat[block] ELSE stat[block + 1])'
    BY <1>1, <1>3, <1>4, <1>10 DEF Placed
  <2>3. (~ Between => Follows(arch.file, blockStart, outBuf))'
    BY <1>1, <1>9
  <2>4. from[b][0] = at[b]
    <3>1. b \in DOMAIN arch.blocks
      BY <1>3, <1>4, BlocksOf
    <3> QED BY <1>4, <3>1 DEF Makes, SourcesAddUp
  <2>5. CurrentBlock' = CurrentBlock
    BY <1>1 DEF CurrentBlock
  <2>6. rec' <= Len(CurrentBlock'.recs) + 1 /\ blockPos' = from[block' + 1][rec' - 1]
    <3>1. rec' = 1 /\ block' = block /\ blockPos' = at[b]
      BY <1>1, <1>3
    <3>2. Len(CurrentBlock.recs) \in Nat
      BY <1>3
    <3>3. rec' - 1 = 0 /\ rec' <= Len(CurrentBlock'.recs) + 1
      BY <2>5, <3>1, <3>2
    <3>4. from[block' + 1] = from[b]
      BY <3>1
    <3> QED BY <2>4, <3>1, <3>3, <3>4
  <2> QED BY <1>1, <1>10, <2>1, <2>2, <2>3, <2>6 DEF Placed
<1>13. Clean(from)'
  BY <1>10 DEF Clean
<1>14. ASSUME NEW m \in MatchesOf(arch, from) PROVE Owing(m, at)' <=> Owing(m, at)
  <2>1. m.nr \in Nat \ {0} /\ m.dest \in Nat
    BY <1>3, <1>4, MatchOf, BlocksOf
  <2>2. ~ (m.nr < rec')
    BY <1>1, <2>1
  <2>3. Taken(m, at)' <=> Taken(m, at)
    BY <1>1, <1>10, <2>2 DEF Taken, Local
  <2>4. m.dest >= blockEnd => m.dest >= Reached
    BY <1>3, <1>5, <1>6, <2>1
  <2> QED BY <1>5, <1>11, <2>3, <2>4 DEF Owing
<1> QED BY <1>1, <1>3, <1>12, <1>13, <1>14, StaysOn

(* The block is written, and begins to owe what it left.                   *)
LEMMA WritesBlock ==
  ASSUME TypeOK, SlotInv, Whole, NEW at, NEW from, NEW kept, NEW stat, Rebuilt(at, from, kept, stat),
         WriteBlock
  PROVE  Rebuilt(at, from, kept, stat)'
<1> DEFINE b == block + 1
<1>1. /\ pc = "verify" /\ pc' = "block" /\ sink' = WriteAt(sink, blockStart, outBuf)
      /\ blockStart' = blockEnd /\ block' = b
      /\ UNCHANGED <<arch, totalStat, heap, packed, spill, slot, loaded>>
  BY DEF WriteBlock, packVars, slotVars, vmVars
<1>2. InBlock
  BY <1>1 DEF InBlock
<1>3. /\ blockEnd \in Nat /\ blockStart \in Nat /\ outPos \in Nat /\ ~ Between /\ arch \in Archive
      /\ b \in 1 .. Len(arch.blocks) /\ ~ Stopping /\ at[b] = blockStart /\ at[b + 1] = blockEnd
      /\ arch.file \in Seq(Bytes) /\ block \in Nat
  BY <1>2, BlockNow
<1>4. /\ Makes(arch, at, from, kept, stat) /\ Placed(at, from, kept, stat)
      /\ Follows(arch.file, blockStart, outBuf) /\ Follows(arch.file, 0, sink)
      /\ Len(sink) = blockStart /\ totalStat = stat[b]
  BY <1>3 DEF Rebuilt, Placed
<1>5. outPos = CurrentBlock.size
  BY <1>1 DEF Whole, Built
<1>6. sink' = sink \o outBuf
  BY <1>1, <1>4, WriteAtEnd DEF Follows
<1>7. Follows(arch.file, 0, sink \o outBuf) /\ Len(sink \o outBuf) = blockStart + outPos
  <2>1. After(0, sink) = blockStart
    BY <1>3, <1>4 DEF After
  <2> QED BY <1>4, <2>1, FollowsMore DEF outPos
<1>8. blockEnd = blockStart + outPos
  BY <1>5 DEF blockEnd
<1>9. Between' /\ ~ Filling' /\ ~ Storing' /\ ~ Filling /\ ~ Storing
  BY <1>1 DEF Between, Filling, Storing
<1>10. Reached' = Reached
  BY <1>1, <1>3, <1>8, <1>9 DEF Reached
<1>11. Placed(at, from, kept, stat)'
  <2>1. (blockStart = at[block + 1] /\ Follows(arch.file, 0, sink) /\ Len(sink) = blockStart)'
    BY <1>1, <1>3, <1>6, <1>7, <1>8
  <2>2. (totalStat = IF Between THEN stat[block] ELSE stat[block + 1])'
    BY <1>1, <1>4, <1>9
  <2> QED BY <1>1, <1>9, <2>1, <2>2 DEF Placed
<1>12. Clean(from)'
  BY <1>9 DEF Clean
<1>13. ASSUME NEW m \in MatchesOf(arch, from) PROVE Owing(m, at)' <=> Owing(m, at)
  <2>1. m.home \in Nat
    BY <1>3, <1>4, MatchOf, BlocksOf
  <2>2. Taken(m, at) <=> m.home <= block \/ m.home = b
    BY <1>1, <1>9 DEF Taken
  <2>3. Taken(m, at)' <=> m.home <= b
    BY <1>1, <1>9 DEF Taken
  <2>4. m.home <= b <=> m.home <= block \/ m.home = b
    BY <1>3, <2>1
  <2> QED BY <1>10, <2>2, <2>3, <2>4 DEF Owing
<1> QED BY <1>1, <1>3, <1>11, <1>12, <1>13, StaysOn

(* The one step that writes goes on with the file.                         *)
LEMMA WritesMore ==
  ASSUME TypeOK, Whole, NEW at, NEW from, NEW kept, NEW stat, Rebuilt(at, from, kept, stat),
         WriteBlock
  PROVE  /\ arch' = arch /\ Len(sink) = blockStart /\ blockStart' \in Len(sink) .. Len(arch.file)
         /\ sink' = SubSeq(arch.file, 1, blockStart') /\ Len(sink') = blockStart'
<1>1. /\ pc = "verify" /\ sink' = WriteAt(sink, blockStart, outBuf) /\ blockStart' = blockEnd
      /\ arch' = arch
  BY DEF WriteBlock
<1>2. InBlock
  BY <1>1 DEF InBlock
<1>3. /\ blockEnd \in Nat /\ blockStart \in Nat /\ outPos \in Nat /\ ~ Between /\ ~ Stopping
      /\ arch.file \in Seq(Bytes) /\ blockStart <= blockEnd /\ blockEnd <= Len(arch.file)
  BY <1>2, BlockNow
<1>4. /\ Follows(arch.file, blockStart, outBuf) /\ Follows(arch.file, 0, sink)
      /\ Len(sink) = blockStart
  BY <1>3 DEF Rebuilt, Placed
<1>5. outPos = CurrentBlock.size
  BY <1>1 DEF Whole, Built
<1>6. sink' = sink \o outBuf
  BY <1>1, <1>4, WriteAtEnd DEF Follows
<1>7. Follows(arch.file, 0, sink \o outBuf) /\ Len(sink \o outBuf) = blockStart + outPos
  <2>1. After(0, sink) = blockStart
    BY <1>3, <1>4 DEF After
  <2> QED BY <1>4, <2>1, FollowsMore DEF outPos
<1>8. Len(sink') = blockEnd
  BY <1>5, <1>6, <1>7 DEF blockEnd
<1>9. sink' = SubSeq(arch.file, 1, Len(sink'))
  BY <1>3, <1>6, <1>7, <1>8, FollowsWhole
<1>10. blockEnd \in Len(sink) .. Len(arch.file)
  BY <1>3, <1>4
<1> QED BY <1>1, <1>4, <1>8, <1>9, <1>10

-----------------------------------------------------------------------------
(* What the decoder refuses it does not meet in an undamaged archive.      *)
LEMMA PlaceNow ==
  ASSUME TypeOK, NEW at, NEW from, NEW kept, NEW stat, Rebuilt(at, from, kept, stat), ~ Stopping
  PROVE  /\ arch \in Archive /\ arch.file \in Seq(Bytes) /\ Len(arch.blocks) \in Nat
         /\ block \in 0 .. Len(arch.blocks) /\ blockStart = at[block + 1]
         /\ blockStart \in 0 .. Len(arch.file) /\ Len(sink) = blockStart
         /\ at[Len(arch.blocks) + 1] = Len(arch.file)
         /\ sink = SubSeq(arch.file, 1, Len(sink)) /\ (blockStart = Len(arch.file) => sink = arch.file)
<1>1. arch \in Archive /\ block \in 0 .. Len(arch.blocks)
  BY DEF TypeOK, ReadOK
<1>2. /\ Makes(arch, at, from, kept, stat) /\ blockStart = at[block + 1]
      /\ Follows(arch.file, 0, sink) /\ Len(sink) = blockStart
  BY DEF Rebuilt, Placed
<1>3. /\ arch.file \in Seq(Bytes) /\ Len(arch.blocks) \in Nat /\ Len(arch.file) \in Nat
      /\ \A b \in 1 .. Len(arch.blocks) + 1 : at[b] \in 0 .. Len(arch.file)
  BY <1>1, <1>2, BlocksOf
<1>4. block + 1 \in 1 .. Len(arch.blocks) + 1
  BY <1>1, <1>3
<1>5. blockStart \in 0 .. Len(arch.file)
  BY <1>2, <1>3, <1>4
<1>6. at[Len(arch.blocks) + 1] = Len(arch.file)
  BY <1>2 DEF Makes, AllPieces
<1>7. sink = SubSeq(arch.file, 1, Len(sink)) /\ (Len(sink) = Len(arch.file) => sink = arch.file)
  <2>1. Len(sink) <= Len(arch.file)
    BY <1>2, <1>3, <1>5
  <2> QED BY <1>2, <1>3, <2>1, FollowsWhole
<1> QED BY <1>1, <1>2, <1>3, <1>5, <1>6, <1>7

(* At the end nothing is owed.                                             *)
LEMMA EndsFree ==
  ASSUME TypeOK, SlotInv, NEW at, NEW from, NEW kept, NEW stat, Rebuilt(at, from, kept, stat),
         pc = "block", AtEnd
  PROVE  DOMAIN heap = {}
<1> SUFFICES ASSUME NEW d \in DOMAIN heap PROVE FALSE
  OBVIOUS
<1>1. ~ Stopping /\ Between
  BY DEF Stopping, Between
<1>2. /\ arch \in Archive /\ blockStart = at[Len(arch.blocks) + 1]
      /\ at[Len(arch.blocks) + 1] = Len(arch.file) /\ arch.file \in Seq(Bytes)
  BY <1>1, PlaceNow DEF AtEnd
<1>3. Makes(arch, at, from, kept, stat) /\ HeldRight(at, from)
  BY <1>1 DEF Rebuilt
<1>4. PICK e \in Holding : e.dest = d
  BY EntryHeld
<1>5. PICK m \in MatchesOf(arch, from) : Owing(m, at)
  BY <1>3, <1>4 DEF HeldRight
<1>6. m.dest \in Nat /\ m.len \in Nat \ {0} /\ m.dest + m.len <= Len(arch.file)
  BY <1>2, <1>3, MatchOf
<1>7. m.dest >= Len(arch.file) /\ Len(arch.file) \in Nat
  BY <1>1, <1>2, <1>5 DEF Owing, Reached
<1> QED BY <1>6, <1>7

LEMMA CountsAgree ==
  ASSUME NEW at, NEW from, NEW kept, NEW stat, Makes(arch, at, from, kept, stat), arch \in Archive
  PROVE  /\ FooterAgrees
         /\ arch.kind # "v3" => arch.footer.count = Len(arch.blocks)
         /\ arch.kind = "v5" => arch.count = Len(arch.blocks) /\ arch.footer.stat = stat[Len(arch.blocks)]
<1>1. FooterCounts(arch, stat)
  BY DEF Makes
<1> QED BY <1>1 DEF FooterCounts, FooterAgrees

LEMMA Ending ==
  ASSUME TypeOK, SlotInv, NEW at, NEW from, NEW kept, NEW stat, Rebuilt(at, from, kept, stat),
         pc = "block"
  PROVE  /\ AtEnd => AllDecoded \/ EndOfV3
         /\ AllDecoded \/ EndOfV3 => AtEnd /\ FooterTotals /\ sink = arch.file
<1>1. ~ Stopping /\ Between
  BY DEF Stopping, Between
<1>2. /\ arch \in Archive /\ block \in 0 .. Len(arch.blocks) /\ blockStart = at[block + 1]
      /\ Len(arch.blocks) \in Nat
      /\ at[Len(arch.blocks) + 1] = Len(arch.file)
      /\ (blockStart = Len(arch.file) => sink = arch.file)
  BY <1>1, PlaceNow
<1>3. Makes(arch, at, from, kept, stat) /\ totalStat = stat[block]
  BY <1>1 DEF Rebuilt, Placed
<1>4. /\ arch.kind # "v3" => arch.footer.count = Len(arch.blocks)
      /\ arch.kind = "v5" => arch.count = Len(arch.blocks) /\ arch.footer.stat = stat[Len(arch.blocks)]
  BY <1>2, <1>3, CountsAgree
<1>5. arch.kind \in {"v3", "v4", "v5"}
  BY <1>2 DEF Archive
<1>6. AtEnd => AllDecoded \/ EndOfV3
  <2> SUFFICES ASSUME AtEnd PROVE AllDecoded \/ EndOfV3
    OBVIOUS
  <2>1. DOMAIN heap = {}
    BY EndsFree
  <2> QED BY <1>2, <1>4, <1>5, <2>1 DEF AtEnd, AllDecoded, EndOfV3
<1>7. AllDecoded => AtEnd
  BY <1>2, <1>4 DEF AtEnd, AllDecoded
<1>8. EndOfV3 => AtEnd
  <2> SUFFICES ASSUME EndOfV3, ~ AtEnd PROVE FALSE
    OBVIOUS
  <2>1. Empty(CurrentBlock)
    BY DEF EndOfV3
  <2>2. block + 1 \in DOMAIN arch.blocks
    BY <1>2, <1>3, BlocksOf DEF AtEnd
  <2> QED BY <1>3, <2>1, <2>2 DEF Makes, CurrentBlock
<1>9. AtEnd => FooterTotals /\ sink = arch.file
  BY <1>2, <1>3, <1>4 DEF AtEnd, FooterTotals
<1> QED BY <1>6, <1>7, <1>8, <1>9

LEMMA DigestRight ==
  ASSUME TypeOK, Whole, NEW at, NEW from, NEW kept, NEW stat, Rebuilt(at, from, kept, stat),
         pc = "verify"
  PROVE  DigestAgrees
<1> SUFFICES ASSUME arch.verified PROVE outBuf = CurrentBlock.digest
  BY DEF DigestAgrees
<1>1. InBlock
  BY DEF InBlock
<1>2. /\ block + 1 \in 1 .. Len(arch.blocks) /\ at[block + 1] = blockStart /\ ~ Between /\ ~ Stopping
      /\ CurrentBlock = arch.blocks[block + 1] /\ arch \in Archive
  BY <1>1, BlockNow
<1>3. Makes(arch, at, from, kept, stat) /\ Follows(arch.file, blockStart, outBuf)
  BY <1>2 DEF Rebuilt, Placed
<1>4. CurrentBlock.digest = Part(arch.file, blockStart, CurrentBlock.size)
  <2>1. block + 1 \in DOMAIN arch.blocks
    BY <1>2, <1>3, BlocksOf
  <2> QED BY <1>2, <1>3, <2>1 DEF Makes
<1>5. outPos = CurrentBlock.size
  BY DEF Whole, Built
<1>6. outBuf = [i \in 1 .. Len(outBuf) |-> outBuf[i]]
  BY <1>3 DEF Follows
<1>7. outBuf = Part(arch.file, blockStart, Len(outBuf))
  BY <1>3, <1>6 DEF Follows, Part
<1> QED BY <1>4, <1>5, <1>7 DEF outPos

LEMMA NotRefused ==
  ASSUME TypeOK, SlotInv, Whole, NEW at, NEW from, NEW kept, NEW stat, Rebuilt(at, from, kept, stat)
  PROVE  ~ (RefuseOpen \/ Truncated \/ RefuseFooter \/ RejectRecord \/ RejectMatch
            \/ RejectLiterals \/ SlotMissing \/ RejectDigest)
<1>1. arch \in Archive /\ Makes(arch, at, from, kept, stat)
  BY DEF TypeOK, ReadOK, Rebuilt
<1>2. ~ RefuseOpen
  BY <1>1, CountsAgree DEF RefuseOpen
<1>3. ~ Truncated /\ ~ RefuseFooter
  BY Ending DEF Truncated, RefuseFooter
<1>4. ~ RejectRecord
  BY RecordNow DEF RejectRecord
<1>5. ~ RejectMatch
  BY DueFits DEF RejectMatch
<1>6. ~ RejectLiterals
  BY LiteralsLeft DEF RejectLiterals
<1>7. ~ SlotMissing
  <2> SUFFICES ASSUME pc = "restore" PROVE slot \in DOMAIN spill
    BY DEF SlotMissing
  <2>1. slot \in AwaitedSlots
    BY DEF AwaitedSlots
  <2> QED BY <2>1 DEF SlotInv, SlotsOwned
<1>8. ~ RejectDigest
  BY DigestRight DEF RejectDigest
<1> QED BY <1>2, <1>3, <1>4, <1>5, <1>6, <1>7, <1>8

-----------------------------------------------------------------------------
(* So an undamaged archive is rebuilt, as far as memory allows.            *)
LEMMA RebuiltFirst ==
  ASSUME TypeOK, Init, NEW at, NEW from, NEW kept, NEW stat, Makes(arch, at, from, kept, stat)
  PROVE  Rebuilt(at, from, kept, stat)
<1>1. /\ pc = "open" /\ block = 0 /\ blockStart = 0 /\ totalStat = 0 /\ sink = <<>>
      /\ DOMAIN heap = {} /\ packed = <<>> /\ DOMAIN spill = {}
  BY DEF Init
<1>2. Between /\ ~ Filling /\ ~ Storing /\ ~ Stopping
  BY <1>1 DEF Between, Filling, Storing, Stopping
<1>3. arch \in Archive
  BY DEF TypeOK, ReadOK
<1>4. Placed(at, from, kept, stat)
  <2>1. at[1] = 0
    BY DEF Makes
  <2>2. stat[0] = 0
    BY DEF Makes, FooterCounts
  <2>3. Follows(arch.file, 0, sink) /\ Len(sink) = 0
    BY <1>1 DEF Follows
  <2>4. block + 1 = 1
    BY <1>1
  <2> QED BY <1>1, <1>2, <2>1, <2>2, <2>3, <2>4 DEF Placed
<1>5. Holding = {}
  BY <1>1 DEF Holding, InHeap, InPack, InSpill
<1>6. ASSUME NEW m \in MatchesOf(arch, from) PROVE ~ Owing(m, at)
  <2>1. m.home \in Nat \ {0}
    BY <1>3, MatchOf, BlocksOf
  <2>2. ~ (m.home <= block)
    BY <1>1, <2>1
  <2> QED BY <1>1, <1>2, <2>2 DEF Owing, Taken
<1>7. HeldRight(at, from) /\ NoneLost(at, from)
  BY <1>5, <1>6 DEF HeldRight, NoneLost
<1>8. HeldOnce /\ Descending /\ Given /\ Clean(from)
  BY <1>1, <1>2 DEF HeldOnce, Descending, Given, Clean
<1> QED BY <1>1, <1>4, <1>7, <1>8 DEF Rebuilt

LEMMA RebuiltOn ==
  ASSUME TypeOK, SlotInv, Whole, [Next]_vars, NEW at, NEW from, NEW kept, NEW stat,
         Rebuilt(at, from, kept, stat)
  PROVE  Rebuilt(at, from, kept, stat)'
<1>1. CASE UNCHANGED vars
  <2>1. UNCHANGED <<pc, error, arch, block, blockStart, totalStat, rec, blockPos, inPos, outBuf,
                    sink, heap, packed, caller, slot, loaded, spill, freeBlocks>>
    BY <1>1 DEF vars, readVars, buildVars, sinkVars, packVars, slotVars, vmVars
  <2>2. /\ Phase' = Phase /\ AwaitedSlots' = AwaitedSlots /\ Stopping' = Stopping
    BY <2>1 DEF Phase, Between, Stopping, Filling, Storing, AwaitedSlots
  <2>3. CASE ~ Stopping
    <3>1. /\ Holding' = Holding /\ HeldOnce' /\ Descending'
      BY <2>1, <2>2, <2>3, StaysPut DEF Rebuilt
    <3>2. Given'
      BY <2>1 DEF Rebuilt, Given, FreeSlots
    <3>3. UNCHANGED <<readVars, buildVars, sink>>
      BY <2>1 DEF readVars, buildVars
    <3> QED BY <2>2, <2>3, <3>1, <3>2, <3>3, GoesOn
  <2>4. CASE Stopping
    <3>1. Descending' /\ Given'
      BY <2>1 DEF Rebuilt, Descending, DescendTo, Given, FreeSlots
    <3> QED BY <2>1, <2>2, <2>4, <3>1 DEF Rebuilt
  <2> QED BY <2>3, <2>4
<1>2. CASE Finish
  <2>1. pc = "block" /\ pc' = "done" /\ UNCHANGED <<arch, sink, spill>>
    BY <1>2 DEF Finish, readVars, sinkVars, vmVars
  <2>2. sink = arch.file
    BY <1>2, <2>1, Ending DEF Finish
  <2>3. Descending' /\ Given' /\ Stopping'
    BY <2>1 DEF Rebuilt, Descending, DescendTo, Given, Stopping
  <2> QED BY <2>1, <2>2, <2>3 DEF Rebuilt
<1>3. CASE NothingToEvict
  <2>1. pc' = "failed" /\ error' = "memory" /\ UNCHANGED <<arch, spill>>
    BY <1>3 DEF NothingToEvict, Fail, readVars, vmVars
  <2>2. Descending' /\ Given' /\ Stopping'
    BY <2>1 DEF Rebuilt, Descending, DescendTo, Given, Stopping
  <2> QED BY <2>1, <2>2 DEF Rebuilt
<1>4. CASE Stopped
  BY <1>1, <1>4 DEF Stopped
<1>5. CASE \/ Open \/ StoreNeedsRoom \/ EvictMatch \/ WriteSlot \/ TakeMark \/ RestoreNeedsRoom
           \/ ReadSlot \/ LoadRecord \/ EndRestore
  BY <1>5, MovesMore
<1>6. CASE ValidateRecord \/ SkipRecord \/ StoreUnsaved \/ StoreMatch
  BY <1>6, ReadsRecord
<1>7. CASE ReadBlock
  BY <1>7, ReadsBlock
<1>8. CASE EndValidate
  BY <1>8, EndsValidation
<1>9. CASE EndStore
  BY <1>9, EndsStoring
<1>10. CASE FillMatch
  BY <1>10, FillsMatch
<1>11. CASE FillTail
  BY <1>11, FillsTail
<1>12. CASE WriteBlock
  BY <1>12, WritesBlock
<1>13. ~ (RefuseOpen \/ Truncated \/ RefuseFooter \/ RejectRecord \/ RejectMatch
            \/ RejectLiterals \/ SlotMissing \/ RejectDigest)
  BY NotRefused
<1> QED BY <1>1, <1>2, <1>3, <1>4, <1>5, <1>6, <1>7, <1>8, <1>9, <1>10, <1>11, <1>12, <1>13 DEF Next

(* A record of an undamaged archive is never empty.                        *)
LEMMA RecordsSolid == ASSUME IntactArchives PROVE NoEmptyRecords
<1> SUFFICES ASSUME NEW a \in Archives, NEW b \in DOMAIN a.blocks, NEW i \in DOMAIN a.blocks[b].recs
             PROVE  a.blocks[b].recs[i].len > 0
  BY DEF NoEmptyRecords
<1>1. PICK at, from, kept, stat : Makes(a, at, from, kept, stat)
  BY DEF IntactArchives
<1> DEFINE m == [home |-> b, nr |-> i, src |-> from[b][i],
                 dest |-> from[b][i] + a.blocks[b].recs[i].off, len |-> a.blocks[b].recs[i].len]
<1>2. m \in MatchesOf(a, from)
  BY DEF MatchesOf
<1>3. MatchesCopy(a, at, from)
  BY <1>1 DEF Makes
<1>4. m.len = a.blocks[b].recs[i].len
  OBVIOUS
<1> HIDE DEF m
<1>5. m.len > 0
  BY <1>2, <1>3 DEF MatchesCopy
<1> QED BY <1>4, <1>5

Rebuilding == arch.intact /\ \E at, from, kept, stat : Rebuilt(at, from, kept, stat)
Prefixed == sink = SubSeq(arch.file, 1, Len(sink))
IntactInv == TypeOK /\ SlotInv /\ Whole /\ Rebuilding /\ Prefixed

LEMMA RebuildingFirst ==
  ASSUME IntactArchives
  PROVE  TypeOK /\ Init => Rebuilding /\ Prefixed
<1> SUFFICES ASSUME TypeOK, Init PROVE Rebuilding /\ Prefixed
  OBVIOUS
<1>1. arch \in Archives /\ sink = <<>>
  BY DEF Init
<1>2. PICK at, from, kept, stat : Makes(arch, at, from, kept, stat)
  BY <1>1 DEF IntactArchives
<1>3. Rebuilt(at, from, kept, stat)
  BY <1>2, RebuiltFirst
<1>4. arch.intact
  BY <1>1 DEF IntactArchives
<1>5. arch.file \in Seq(Bytes)
  BY DEF TypeOK, ReadOK, Archive
<1>6. Prefixed
  BY <1>1, <1>5 DEF Prefixed
<1> QED BY <1>3, <1>4, <1>6 DEF Rebuilding

LEMMA RebuildingOn ==
  ASSUME TypeOK, SlotInv, Whole, Rebuilding, Prefixed, [Next]_vars
  PROVE  Rebuilding' /\ Prefixed'
<1>1. PICK at, from, kept, stat : Rebuilt(at, from, kept, stat)
  BY DEF Rebuilding
<1>2. Rebuilt(at, from, kept, stat)'
  BY <1>1, RebuiltOn
<1>3. arch' = arch
  <2>1. WriteBlock => arch' = arch
    BY DEF WriteBlock
  <2> QED BY <2>1, OthersWriteNothing
<1>4. Prefixed'
  <2>1. CASE WriteBlock
    BY <1>1, <2>1, WritesMore DEF Prefixed
  <2>2. CASE ~ WriteBlock
    BY <2>2, OthersWriteNothing DEF Prefixed
  <2> QED BY <2>1, <2>2
<1> QED BY <1>2, <1>3, <1>4 DEF Rebuilding

LEMMA AlwaysRebuilding ==
  ASSUME IntactArchives
  PROVE  Spec => []IntactInv
<1>1. NoEmptyRecords
  BY RecordsSolid
<1>2. Spec => [](TypeOK /\ SlotInv)
  BY <1>1, SlotsKept
<1>3. TypeOK /\ Init => Rebuilding /\ Prefixed
  BY RebuildingFirst
<1>4. TypeOK /\ SlotInv /\ Whole /\ Rebuilding /\ Prefixed /\ [Next]_vars
        => Rebuilding' /\ Prefixed'
  BY RebuildingOn
<1> QED BY <1>2, <1>3, <1>4, WholeFirst, WholeOn, PTL DEF Spec, IntactInv

(* What is decoded of an undamaged archive is always the beginning of its  *)
(* file, whatever the budget, the slots of the spill file and the size     *)
(* from which matches are read back from the output.                       *)
THEOREM IntactPrefix ==
  ASSUME IntactArchives
  PROVE  Spec => []DecodedPrefix
<1>1. IntactInv => DecodedPrefix
  BY DEF IntactInv, Prefixed, DecodedPrefix
<1> QED BY <1>1, AlwaysRebuilding, PTL

(* The decoder implements BlockDecoder's steps on an undamaged archive     *)
(* without a digest as well: it reports success only with the whole file   *)
(* written.                                                                *)
THEOREM IntactStepsPromised ==
  ASSUME IntactArchives
  PROVE  Spec => Promise!InitDecode /\ [][Promise!Next]_(Promise!vars)
<1>1. Init => Promise!InitDecode
  BY DEF Init, Promise!InitDecode
<1>2. IntactInv /\ [Next]_vars => [Promise!Next]_(Promise!vars)
  <2> SUFFICES ASSUME IntactInv, [Next]_vars PROVE [Promise!Next]_(Promise!vars)
    OBVIOUS
  <2>1. CASE WriteBlock
    <3>1. PICK at, from, kept, stat : Rebuilt(at, from, kept, stat)
      BY DEF IntactInv, Rebuilding
    <3>2. pc = "verify" /\ pc' = "block"
      BY <2>1 DEF WriteBlock
    <3>3. /\ arch' = arch /\ blockStart' \in Len(sink) .. Len(arch.file)
          /\ sink' = SubSeq(arch.file, 1, blockStart')
      BY <2>1, <3>1, WritesMore DEF IntactInv
    <3>4. Promise!Deliver
      BY <3>2, <3>3 DEF Promise!Deliver
    <3> QED BY <3>4 DEF Promise!Next
  <2>2. CASE Finish
    <3>1. pc = "block" /\ pc' = "done" /\ UNCHANGED <<arch, sink>>
      BY <2>2 DEF Finish, readVars, sinkVars
    <3>2. PICK at, from, kept, stat : Rebuilt(at, from, kept, stat)
      BY DEF IntactInv, Rebuilding
    <3>3. sink = arch.file
      BY <2>2, <3>1, <3>2, Ending DEF Finish, IntactInv
    <3>4. Promise!Succeed
      BY <3>1, <3>3 DEF Promise!Succeed
    <3> QED BY <3>4 DEF Promise!Next
  <2>3. CASE ~ WriteBlock /\ ~ Finish
    BY <2>3, OthersPromised DEF IntactInv
  <2> QED BY <2>1, <2>2, <2>3
<1> QED BY <1>1, <1>2, AlwaysRebuilding, PTL DEF Spec

-----------------------------------------------------------------------------
(* Sums over finite sets.  The fold of the community modules takes the     *)
(* elements in the order of a choice; what it sums does not depend on it.  *)
SomeOf(s) == CHOOSE x \in s : TRUE

NextSum(g, f, s) == IF s = {} THEN 0 ELSE f[SomeOf(s)] + g[s \ {SomeOf(s)}]

Adding(g, f, S) == g = [s \in SUBSET S |-> NextSum(g, f, s)]

AddingUpTo(g, f, S, n) ==
  \A s \in SUBSET S : Cardinality(s) <= n => g[s] = NextSum(g, f, s)

LEMMA AddsUpTo ==
  ASSUME NEW f, NEW S, IsFiniteSet(S), NEW n \in Nat
  PROVE  \E g : AddingUpTo(g, f, S, n)
<1> USE DEF NextSum, AddingUpTo
<1> DEFINE ch(s) == SomeOf(s)
           U(g, k) == \A s \in SUBSET S : Cardinality(s) <= k =>
                        g[s] = IF s = {} THEN 0 ELSE f[ch(s)] + g[s \ {ch(s)}]
           bad == {k \in Nat : ~ \E g : U(g, k)}
<1>1. \A s \in SUBSET S : IsFiniteSet(s) /\ Cardinality(s) \in Nat
  BY FS_Subset, FS_CardinalityType
<1>2. \A s \in SUBSET S : s # {} => s \ {ch(s)} \in SUBSET S /\ Cardinality(s \ {ch(s)}) = Cardinality(s) - 1
  <2> TAKE s \in SUBSET S
  <2> HAVE s # {}
  <2>1. ch(s) \in s
    BY DEF SomeOf
  <2> HIDE DEF ch
  <2> QED BY <2>1, <1>1, FS_RemoveElement
<1>3. \A s \in SUBSET S : Cardinality(s) = 0 <=> s = {}
  BY <1>1, FS_EmptySet
<1>4. ASSUME bad # {} PROVE FALSE
  <2>1. bad \in SUBSET Nat
    OBVIOUS
  <2>2. PICK k \in bad : \A j \in bad : k <= j
    <3> HIDE DEF bad
    <3> QED BY <2>1, <1>4, LeastOf
  <2>3. k \in Nat /\ ~ \E g : U(g, k)
    OBVIOUS
  <2>4. k # 0
    <3>1. SUFFICES ASSUME k = 0 PROVE FALSE
      OBVIOUS
    <3> DEFINE g == [s \in SUBSET S |-> 0]
    <3>2. U(g, 0)
      <4> SUFFICES ASSUME NEW s \in SUBSET S, Cardinality(s) <= 0
                   PROVE  g[s] = 0 /\ s = {}
        OBVIOUS
      <4> QED BY <1>1, <1>3
    <3> HIDE DEF U, g
    <3> QED BY <3>1, <3>2, <2>3
  <2>5. k - 1 \in Nat /\ k - 1 \notin bad
    <3> HIDE DEF bad
    <3> QED BY <2>2, <2>3, <2>4
  <2>6. PICK g : U(g, k - 1)
    BY <2>5
  <2> DEFINE h == [s \in SUBSET S |-> IF Cardinality(s) <= k - 1 THEN g[s] ELSE f[ch(s)] + g[s \ {ch(s)}]]
  <2>7. U(h, k)
    <3> SUFFICES ASSUME NEW s \in SUBSET S, Cardinality(s) <= k
                 PROVE  h[s] = IF s = {} THEN 0 ELSE f[ch(s)] + h[s \ {ch(s)}]
      OBVIOUS
    <3> DEFINE r == s \ {ch(s)}
    <3>1. CASE s = {}
      <4>1. Cardinality(s) <= k - 1
        BY <3>1, <1>3, <2>5
      <4>2. h[s] = g[s]
        BY <4>1
      <4>3. g[s] = 0
        BY <4>1, <2>6, <3>1
      <4> QED BY <4>2, <4>3, <3>1
    <3>2. CASE s # {}
      <4>1. r \in SUBSET S /\ Cardinality(r) = Cardinality(s) - 1 /\ Cardinality(r) \in Nat
        BY <3>2, <1>2, <1>1
      <4>2. Cardinality(r) <= k - 1
        <5> HIDE DEF r
        <5> QED BY <4>1, <1>1, <2>3
      <4>3. h[r] = g[r]
        <5> HIDE DEF r
        <5> QED BY <4>1, <4>2
      <4>4. h[s] = f[ch(s)] + g[r]
        <5>1. Cardinality(s) <= k - 1 => g[s] = f[ch(s)] + g[r]
          BY <2>6, <3>2
        <5>2. h[s] = IF Cardinality(s) <= k - 1 THEN g[s] ELSE f[ch(s)] + g[r]
          OBVIOUS
        <5> HIDE DEF h, r, ch
        <5> QED BY <5>1, <5>2
      <4> HIDE DEF h
      <4> QED BY <4>3, <4>4, <3>2
    <3> QED BY <3>1, <3>2
  <2> HIDE DEF U, h
  <2> QED BY <2>7, <2>3
<1>5. n \notin bad
  BY <1>4
<1> QED BY <1>5

LEMMA AddingExists ==
  ASSUME NEW f, NEW S, IsFiniteSet(S)
  PROVE  \E g : Adding(g, f, S)
<1> DEFINE n == Cardinality(S)
<1>1. n \in Nat /\ \A s \in SUBSET S : Cardinality(s) <= n
  BY FS_Subset, FS_CardinalityType
<1>2. PICK g : AddingUpTo(g, f, S, n)
  <2>1. n \in Nat
    BY <1>1
  <2> HIDE DEF n
  <2> QED BY <2>1, AddsUpTo
<1>3. \A s \in SUBSET S : g[s] = NextSum(g, f, s)
  BY <1>1, <1>2 DEF AddingUpTo
<1> DEFINE h == [s \in SUBSET S |-> g[s]]
<1>4. \A s \in SUBSET S : h[s] = g[s] /\ (s \ {SomeOf(s)} \in SUBSET S)
  OBVIOUS
<1>5. \A s \in SUBSET S : h[s] = NextSum(h, f, s)
  <2> TAKE s \in SUBSET S
  <2>1. h[s \ {SomeOf(s)}] = g[s \ {SomeOf(s)}]
    BY <1>4
  <2> QED BY <2>1, <1>3, <1>4 DEF NextSum
<1>6. h = [s \in SUBSET S |-> NextSum(h, f, s)]
  BY <1>5
<1> QED BY <1>6 DEF Adding

LEMMA SumIs ==
  ASSUME NEW f, NEW S, IsFiniteSet(S)
  PROVE  \E g : Adding(g, f, S) /\ SumFunctionOnSet(f, S) = g[S]
<1>1. \E g : Adding(g, f, S)
  BY AddingExists
<1> DEFINE it == CHOOSE g : Adding(g, f, S)
<1>2. Adding(it, f, S)
  BY <1>1
<1>3. SumFunctionOnSet(f, S) = it[S]
  BY DEF SumFunctionOnSet, FoldFunctionOnSet, MapThenFoldSet, Adding, NextSum, SomeOf
<1> HIDE DEF it
<1> QED BY <1>2, <1>3

LEMMA AddingAt ==
  ASSUME NEW f, NEW S, NEW g, Adding(g, f, S), NEW s \in SUBSET S
  PROVE  g[s] = NextSum(g, f, s)
BY DEF Adding

(* The sum of a part of the set is the same whichever set it is a part of. *)
LEMMA PartSums ==
  ASSUME NEW f, NEW S, IsFiniteSet(S), NEW g, Adding(g, f, S), NEW T \in SUBSET S
  PROVE  g[T] = SumFunctionOnSet(f, T)
<1>1. IsFiniteSet(T)
  BY FS_Subset
<1>2. PICK h : Adding(h, f, T) /\ SumFunctionOnSet(f, T) = h[T]
  BY <1>1, SumIs
<1> DEFINE bad == {k \in Nat : \E s \in SUBSET T : Cardinality(s) = k /\ g[s] # h[s]}
<1>3. \A s \in SUBSET T : IsFiniteSet(s) /\ Cardinality(s) \in Nat
  BY <1>1, FS_Subset, FS_CardinalityType
<1>4. ASSUME bad # {} PROVE FALSE
  <2>1. bad \in SUBSET Nat
    OBVIOUS
  <2>2. PICK k \in bad : \A j \in bad : k <= j
    <3> HIDE DEF bad
    <3> QED BY <2>1, <1>4, LeastOf
  <2>3. PICK s \in SUBSET T : Cardinality(s) = k /\ g[s] # h[s]
    OBVIOUS
  <2>4. g[s] = NextSum(g, f, s) /\ h[s] = NextSum(h, f, s)
    BY <1>2, AddingAt
  <2>5. s # {}
    BY <2>3, <2>4 DEF NextSum
  <2>6. SomeOf(s) \in s
    BY <2>5 DEF SomeOf
  <2> DEFINE r == s \ {SomeOf(s)}
  <2>7. r \in SUBSET T /\ Cardinality(r) = k - 1 /\ Cardinality(r) \in Nat
    BY <2>3, <2>6, <1>3, FS_RemoveElement
  <2>8. k \in Nat /\ k - 1 \in Nat /\ k - 1 \notin bad
    <3>1. k \in Nat
      OBVIOUS
    <3> HIDE DEF bad, r
    <3> QED BY <3>1, <2>2, <2>7
  <2>9. g[r] = h[r]
    <3> HIDE DEF r
    <3> QED BY <2>7, <2>8
  <2> QED BY <2>3, <2>4, <2>5, <2>9 DEF NextSum
<1>5. Cardinality(T) \in Nat /\ Cardinality(T) \notin bad
  BY <1>4, <1>3
<1> QED BY <1>5, <1>2

LEMMA SumEmpty ==
  ASSUME NEW f
  PROVE  SumFunctionOnSet(f, {}) = 0
<1>1. PICK g : Adding(g, f, {}) /\ SumFunctionOnSet(f, {}) = g[{}]
  BY FS_EmptySet, SumIs
<1> QED BY <1>1, AddingAt DEF NextSum

LEMMA SumUnrolls ==
  ASSUME NEW f, NEW S, IsFiniteSet(S), S # {}
  PROVE  /\ SomeOf(S) \in S
         /\ SumFunctionOnSet(f, S) = f[SomeOf(S)] + SumFunctionOnSet(f, S \ {SomeOf(S)})
<1>1. SomeOf(S) \in S
  BY DEF SomeOf
<1>2. PICK g : Adding(g, f, S) /\ SumFunctionOnSet(f, S) = g[S]
  BY SumIs
<1>3. g[S] = NextSum(g, f, S)
  BY <1>2, AddingAt
<1>4. \A T \in SUBSET S : g[T] = SumFunctionOnSet(f, T)
  <2>1. Adding(g, f, S)
    BY <1>2
  <2> QED BY <2>1, PartSums
<1>5. g[S \ {SomeOf(S)}] = SumFunctionOnSet(f, S \ {SomeOf(S)})
  BY <1>4
<1> QED BY <1>1, <1>2, <1>3, <1>5 DEF NextSum
(* Any element may be taken first. *)
LEMMA SumTakes ==
  ASSUME NEW f, NEW S, IsFiniteSet(S), \A x \in S : f[x] \in Int, NEW x \in S
  PROVE  SumFunctionOnSet(f, S) = f[x] + SumFunctionOnSet(f, S \ {x})
         /\ SumFunctionOnSet(f, S) \in Int
<1> DEFINE Sum(T) == SumFunctionOnSet(f, T)
           Good(T) == Sum(T) \in Int /\ \A y \in T : Sum(T) = f[y] + Sum(T \ {y})
           bad == {k \in Nat : \E T \in SUBSET S : Cardinality(T) = k /\ ~ Good(T)}
<1>1. \A T \in SUBSET S : IsFiniteSet(T) /\ Cardinality(T) \in Nat
  BY FS_Subset, FS_CardinalityType
<1>2. \A T \in SUBSET S : \A y \in T :
        T \ {y} \in SUBSET S /\ Cardinality(T \ {y}) = Cardinality(T) - 1 /\ f[y] \in Int
  BY <1>1, FS_RemoveElement
<1>3. ASSUME bad # {} PROVE FALSE
  <2>1. bad \in SUBSET Nat
    OBVIOUS
  <2>2. PICK k \in bad : \A j \in bad : k <= j
    <3> HIDE DEF bad
    <3> QED BY <2>1, <1>3, LeastOf
  <2>3. PICK T \in SUBSET S : Cardinality(T) = k /\ ~ Good(T)
    OBVIOUS
  <2>4. ASSUME NEW y \in T PROVE Good(T \ {y})
    <3> DEFINE r == T \ {y}
    <3>1. r \in SUBSET S /\ Cardinality(r) = k - 1 /\ Cardinality(r) \in Nat
      BY <1>1, <1>2, <2>3
    <3>2. k \in Nat
      OBVIOUS
    <3>3. k - 1 \notin bad
      <4> HIDE DEF bad, r
      <4> QED BY <3>1, <3>2, <2>2
    <3> HIDE DEF r, Good
    <3>4. Good(r)
      BY <3>1, <3>3
    <3> QED BY <3>4 DEF r
  <2>5. CASE T = {}
    <3>1. Sum(T) = 0
      BY <2>5, SumEmpty
    <3> QED BY <3>1, <2>3, <2>5
  <2>6. CASE T # {}
    <3> DEFINE c == SomeOf(T)
    <3>1. c \in T /\ Sum(T) = f[c] + Sum(T \ {c})
      BY <2>6, <1>1, SumUnrolls
    <3>2. f[c] \in Int /\ Sum(T \ {c}) \in Int
      BY <3>1, <1>2, <2>4
    <3>3. ASSUME NEW y \in T, y # c PROVE Sum(T) = f[y] + Sum(T \ {y})
      <4>1. Sum(T \ {c}) = f[y] + Sum((T \ {c}) \ {y}) /\ Sum(T \ {y}) = f[c] + Sum((T \ {y}) \ {c})
        <5>1. Good(T \ {c}) /\ Good(T \ {y}) /\ y \in T \ {c} /\ c \in T \ {y}
          BY <3>1, <3>3, <2>4
        <5> HIDE DEF Sum, c
        <5> QED BY <5>1
      <4>2. (T \ {c}) \ {y} = (T \ {y}) \ {c}
        OBVIOUS
      <4>3. f[y] \in Int /\ Sum((T \ {c}) \ {y}) \in Int
        <5>1. f[y] \in Int
          BY <1>2
        <5>2. Sum(T \ {y}) \in Int
          BY <2>4
        <5>3. Good((T \ {c}) \ {y})
          <6> DEFINE r == (T \ {c}) \ {y}
          <6>1. T \ {c} \in SUBSET S /\ Cardinality(T \ {c}) = k - 1 /\ y \in T \ {c}
            BY <1>2, <2>3, <3>1, <3>3
          <6>2. r \in SUBSET S /\ Cardinality(r) = (k - 1) - 1 /\ Cardinality(r) \in Nat
            BY <6>1, <1>1, <1>2
          <6>3. k \in Nat
            OBVIOUS
          <6>4. Cardinality(r) \notin bad
            <7> HIDE DEF bad, r
            <7> QED BY <6>2, <6>3, <2>2
          <6> HIDE DEF r, Good
          <6>5. Good(r)
            BY <6>2, <6>4
          <6> QED BY <6>5 DEF r
        <5> QED BY <5>1, <5>3
      <4> DEFINE a == Sum((T \ {c}) \ {y})
                 b == Sum((T \ {y}) \ {c})
      <4>4. a = b
        BY <4>2
      <4>5. a \in Int /\ f[y] \in Int /\ Sum(T) = f[c] + (f[y] + a) /\ Sum(T \ {y}) = f[c] + b
        BY <4>1, <4>3, <3>1
      <4> HIDE DEF a, b, c, Sum
      <4> QED BY <4>4, <4>5, <3>2
    <3>4. Sum(T) \in Int
      <4> HIDE DEF Sum, c
      <4> QED BY <3>1, <3>2
    <3>5. Good(T)
      <4> HIDE DEF Sum
      <4> QED BY <3>1, <3>3, <3>4
    <3> QED BY <3>5, <2>3
  <2> QED BY <2>5, <2>6
<1>4. Good(S)
  <2>1. Cardinality(S) \in Nat /\ Cardinality(S) \notin bad /\ S \in SUBSET S
    BY <1>1, <1>3
  <2> HIDE DEF Good
  <2> QED BY <2>1
<1> QED BY <1>4

LEMMA SumAgrees ==
  ASSUME NEW f, NEW g, NEW S, IsFiniteSet(S), \A x \in S : f[x] \in Int /\ g[x] = f[x]
  PROVE  SumFunctionOnSet(f, S) = SumFunctionOnSet(g, S)
<1> DEFINE Same(T) == SumFunctionOnSet(f, T) = SumFunctionOnSet(g, T)
           bad == {k \in Nat : \E T \in SUBSET S : Cardinality(T) = k /\ ~ Same(T)}
<1>1. \A T \in SUBSET S : IsFiniteSet(T) /\ Cardinality(T) \in Nat
  BY FS_Subset, FS_CardinalityType
<1>2. \A T \in SUBSET S : \A y \in T :
        T \ {y} \in SUBSET S /\ Cardinality(T \ {y}) = Cardinality(T) - 1
  BY <1>1, FS_RemoveElement
<1>3. ASSUME bad # {} PROVE FALSE
  <2>1. bad \in SUBSET Nat
    OBVIOUS
  <2>2. PICK k \in bad : \A j \in bad : k <= j
    <3> HIDE DEF bad
    <3> QED BY <2>1, <1>3, LeastOf
  <2>3. PICK T \in SUBSET S : Cardinality(T) = k /\ ~ Same(T)
    OBVIOUS
  <2>4. T # {}
    BY <2>3, SumEmpty
  <2>5. PICK y : y \in T
    BY <2>4
  <2> DEFINE r == T \ {y}
  <2>6. r \in SUBSET S /\ Cardinality(r) = k - 1 /\ Cardinality(r) \in Nat
    BY <1>1, <1>2, <2>3, <2>5
  <2>7. k \in Nat
    OBVIOUS
  <2>8. Same(r)
    <3> HIDE DEF r, Same
    <3>1. Cardinality(r) \notin bad
      <4> HIDE DEF bad
      <4> QED BY <2>6, <2>7, <2>2
    <3> QED BY <3>1, <2>6
  <2>9. SumFunctionOnSet(f, T) = f[y] + SumFunctionOnSet(f, r)
    <3>1. IsFiniteSet(T) /\ \A x \in T : f[x] \in Int
      BY <1>1
    <3> QED BY <3>1, <2>5, SumTakes
  <2>10. SumFunctionOnSet(g, T) = g[y] + SumFunctionOnSet(g, r)
    <3>1. IsFiniteSet(T) /\ \A x \in T : g[x] \in Int
      BY <1>1
    <3> QED BY <3>1, <2>5, SumTakes
  <2>11. g[y] = f[y]
    BY <2>5
  <2> HIDE DEF r
  <2> QED BY <2>3, <2>8, <2>9, <2>10, <2>11
<1>4. Cardinality(S) \in Nat /\ Cardinality(S) \notin bad /\ S \in SUBSET S
  BY <1>1, <1>3
<1> QED BY <1>4

LEMMA SumOfNone ==
  ASSUME NEW f, NEW S, IsFiniteSet(S), \A x \in S : f[x] = 0
  PROVE  SumFunctionOnSet(f, S) = 0
<1> DEFINE None(T) == SumFunctionOnSet(f, T) = 0
           bad == {k \in Nat : \E T \in SUBSET S : Cardinality(T) = k /\ ~ None(T)}
<1>1. \A T \in SUBSET S : IsFiniteSet(T) /\ Cardinality(T) \in Nat
  BY FS_Subset, FS_CardinalityType
<1>2. \A T \in SUBSET S : \A y \in T :
        T \ {y} \in SUBSET S /\ Cardinality(T \ {y}) = Cardinality(T) - 1
  BY <1>1, FS_RemoveElement
<1>3. ASSUME bad # {} PROVE FALSE
  <2>1. bad \in SUBSET Nat
    OBVIOUS
  <2>2. PICK k \in bad : \A j \in bad : k <= j
    <3> HIDE DEF bad
    <3> QED BY <2>1, <1>3, LeastOf
  <2>3. PICK T \in SUBSET S : Cardinality(T) = k /\ ~ None(T)
    OBVIOUS
  <2>4. T # {}
    BY <2>3, SumEmpty
  <2>5. PICK y : y \in T
    BY <2>4
  <2> DEFINE r == T \ {y}
  <2>6. r \in SUBSET S /\ Cardinality(r) = k - 1 /\ Cardinality(r) \in Nat
    BY <1>1, <1>2, <2>3, <2>5
  <2>7. k \in Nat
    OBVIOUS
  <2>8. None(r)
    <3> HIDE DEF r, None
    <3>1. Cardinality(r) \notin bad
      <4> HIDE DEF bad
      <4> QED BY <2>6, <2>7, <2>2
    <3> QED BY <3>1, <2>6
  <2>9. SumFunctionOnSet(f, T) = f[y] + SumFunctionOnSet(f, r)
    <3>1. IsFiniteSet(T) /\ \A x \in T : f[x] \in Int
      BY <1>1
    <3> QED BY <3>1, <2>5, SumTakes
  <2>10. f[y] = 0
    BY <2>5
  <2> HIDE DEF r
  <2> QED BY <2>3, <2>8, <2>9, <2>10
<1>4. Cardinality(S) \in Nat /\ Cardinality(S) \notin bad /\ S \in SUBSET S
  BY <1>1, <1>3
<1> QED BY <1>4

-----------------------------------------------------------------------------
(* The chunks of the first matches of the heap. *)
ChunksIn(h) == SumFunction([d \in DOMAIN h |-> ChunksOf(h[d][1])])

LEMMA ChunksInHeap ==
  ASSUME NEW h, IsHeap(h), IsFiniteSet(DOMAIN h), NEW f,
         \A d \in DOMAIN h : f[d] = ChunksOf(h[d][1])
  PROVE  ChunksIn(h) = SumFunctionOnSet(f, DOMAIN h) /\ \A d \in DOMAIN h : f[d] \in Int
<1> DEFINE g == [d \in DOMAIN h |-> ChunksOf(h[d][1])]
<1>1. \A d \in DOMAIN h : g[d] = f[d] /\ g[d] \in Int
  BY FirstOfClass, ChunksOfType
<1>2. ChunksIn(h) = SumFunctionOnSet(g, DOMAIN h)
  BY DEF ChunksIn, SumFunction
<1> HIDE DEF g
<1>3. SumFunctionOnSet(g, DOMAIN h) = SumFunctionOnSet(f, DOMAIN h)
  BY <1>1, SumAgrees
<1> QED BY <1>1, <1>2, <1>3

LEMMA InsertChunks ==
  ASSUME NEW h, IsHeap(h), IsFiniteSet(DOMAIN h), NEW m \in Entry, m.dest \notin DOMAIN h
  PROVE  /\ IsFiniteSet(DOMAIN Insert(h, m))
         /\ ChunksIn(Insert(h, m)) = ChunksIn(h) + ChunksOf(m)
<1> DEFINE k == Insert(h, m)
           f == [d \in DOMAIN k |-> ChunksOf(k[d][1])]
<1>1. IsHeap(k) /\ DOMAIN k = DOMAIN h \cup {m.dest}
  BY InsertHeap
<1>2. k[m.dest][1] = m /\ \A d \in DOMAIN h : k[d][1] = h[d][1]
  BY InsertFirst
<1>3. IsFiniteSet(DOMAIN k)
  BY <1>1, FS_AddElement
<1> HIDE DEF k
<1>4. \A d \in DOMAIN k : f[d] = ChunksOf(k[d][1])
  OBVIOUS
<1>5. \A d \in DOMAIN h : f[d] = ChunksOf(h[d][1])
  BY <1>1, <1>2
<1>6. f[m.dest] = ChunksOf(m) /\ m.dest \in DOMAIN k /\ (DOMAIN k) \ {m.dest} = DOMAIN h
  BY <1>1, <1>2
<1> HIDE DEF f
<1>7. ChunksIn(k) = SumFunctionOnSet(f, DOMAIN k) /\ \A d \in DOMAIN k : f[d] \in Int
  BY <1>1, <1>3, <1>4, ChunksInHeap
<1>8. ChunksIn(h) = SumFunctionOnSet(f, DOMAIN h)
  BY <1>5, ChunksInHeap
<1>9. SumFunctionOnSet(f, DOMAIN k) = f[m.dest] + SumFunctionOnSet(f, (DOMAIN k) \ {m.dest})
  BY <1>3, <1>6, <1>7, SumTakes
<1>10. SumFunctionOnSet(f, DOMAIN h) \in Int
  <2>1. CASE DOMAIN h = {}
    BY <2>1, SumEmpty
  <2>2. CASE DOMAIN h # {}
    <3>1. PICK x : x \in DOMAIN h
      BY <2>2
    <3>2. \A y \in DOMAIN h : f[y] \in Int
      BY <1>7, <1>1
    <3> QED BY <3>1, <3>2, SumTakes
  <2> QED BY <2>1, <2>2
<1>11. ChunksOf(m) \in Int
  BY ChunksOfType
<1>12. ChunksIn(k) = ChunksIn(h) + ChunksOf(m)
  BY <1>6, <1>7, <1>8, <1>9, <1>10, <1>11
<1> QED BY <1>3, <1>12 DEF k

LEMMA TakeChunks ==
  ASSUME NEW h, IsHeap(h), IsFiniteSet(DOMAIN h), NEW c \in DOMAIN h
  PROVE  /\ IsFiniteSet(DOMAIN TakeClass(h, c))
         /\ ChunksIn(TakeClass(h, c)) = ChunksIn(h) - ChunksOf(h[c][1])
<1> DEFINE k == TakeClass(h, c)
           f == [d \in DOMAIN h |-> ChunksOf(h[d][1])]
<1>1. IsHeap(k) /\ DOMAIN k = (DOMAIN h) \ {c} /\ \A d \in DOMAIN k : k[d] = h[d]
  BY TakeHeap
<1>2. IsFiniteSet(DOMAIN k)
  BY <1>1, FS_RemoveElement
<1> HIDE DEF k
<1>3. \A d \in DOMAIN h : f[d] = ChunksOf(h[d][1])
  OBVIOUS
<1>4. \A d \in DOMAIN k : f[d] = ChunksOf(k[d][1])
  BY <1>1
<1> HIDE DEF f
<1>5. ChunksIn(h) = SumFunctionOnSet(f, DOMAIN h) /\ \A d \in DOMAIN h : f[d] \in Int
  BY <1>3, ChunksInHeap
<1>6. ChunksIn(k) = SumFunctionOnSet(f, (DOMAIN h) \ {c})
  BY <1>1, <1>2, <1>4, ChunksInHeap
<1>7. SumFunctionOnSet(f, DOMAIN h) = f[c] + SumFunctionOnSet(f, (DOMAIN h) \ {c})
      /\ SumFunctionOnSet(f, DOMAIN h) \in Int
  BY <1>5, SumTakes
<1>8. SumFunctionOnSet(f, (DOMAIN h) \ {c}) \in Int
  <2> DEFINE T == (DOMAIN h) \ {c}
  <2>1. CASE T = {}
    BY <2>1, SumEmpty
  <2>2. CASE T # {}
    <3>1. PICK x : x \in T
      BY <2>2
    <3>2. IsFiniteSet(T) /\ \A y \in T : f[y] \in Int
      BY <1>5, <1>2, <1>1
    <3> HIDE DEF T
    <3>3. SumFunctionOnSet(f, T) \in Int
      BY <3>1, <3>2, SumTakes
    <3> QED BY <3>3 DEF T
  <2> QED BY <2>1, <2>2
<1>9. f[c] \in Int /\ f[c] = ChunksOf(h[c][1])
  BY <1>3, <1>5
<1>10. ChunksIn(k) = ChunksIn(h) - ChunksOf(h[c][1])
  BY <1>5, <1>6, <1>7, <1>8, <1>9
<1> QED BY <1>2, <1>10 DEF k

-----------------------------------------------------------------------------
(* Every chunk handed out belongs to the first match of a class.           *)
Accounted == IsFiniteSet(DOMAIN heap) /\ usedChunks = ChunksIn(heap)

LEMMA NoChunks ==
  ASSUME NEW m, m.data = Unsaved
  PROVE  ChunksOf(m) = 0
<1>1. Len(m.data) = 0
  BY DEF Unsaved
<1>2. Chunks(0) * ChunkSpace <= 0 + ChunkSpace - 1 /\ Chunks(0) \in Nat
  BY ChunksHold
<1>3. ChunkSpace \in Nat \ {0}
  BY BudgetAssumption
<1>4. Chunks(0) = 0
  <2> DEFINE c == Chunks(0)
  <2>1. c \in Nat /\ c * ChunkSpace <= ChunkSpace - 1
    BY <1>2, <1>3
  <2> HIDE DEF c
  <2>2. ~ (c >= 1)
    <3> SUFFICES ASSUME c >= 1 PROVE FALSE
      OBVIOUS
    <3>1. 1 * ChunkSpace <= c * ChunkSpace
      BY <1>3, <2>1, TimesMono
    <3> QED BY <1>3, <2>1, <3>1
  <2>3. c = 0
    BY <2>1, <2>2
  <2> QED BY <2>3 DEF c
<1> QED BY <1>1, <1>4 DEF ChunksOf

LEMMA AccountedFirst == Init => Accounted
<1> SUFFICES ASSUME Init PROVE Accounted
  OBVIOUS
<1>1. DOMAIN heap = {} /\ usedChunks = 0
  BY DEF Init
<1>2. ChunksIn(heap) = SumFunctionOnSet([d \in DOMAIN heap |-> ChunksOf(heap[d][1])], {})
  BY <1>1 DEF ChunksIn, SumFunction
<1> QED BY <1>1, <1>2, SumEmpty, FS_EmptySet DEF Accounted

(* A record read now has its place in the heap free.                       *)
LEMMA RecordPlace ==
  ASSUME TypeOK, SlotInv, NEW at, NEW from, NEW kept, NEW stat, Rebuilt(at, from, kept, stat),
         (ValidateRecord /\ dest < blockEnd) \/ StoreUnsaved \/ StoreMatch
  PROVE  dest \notin DOMAIN heap
<1>1. /\ pc \in {"validate", "store"} /\ MoreRecords /\ NextRecord
      /\ UNCHANGED <<pc, caller, readVars, inPos, outBuf, sink>>
  BY DEF ValidateRecord, StoreUnsaved, StoreMatch, sinkVars, packVars, slotVars, vmVars
<1>2. InBlock
  BY <1>1 DEF InBlock
<1>3. /\ at[(block + 1) + 1] = blockEnd /\ blockEnd \in Nat /\ block < Len(arch.blocks)
  BY <1>2, BlockNow DEF TypeOK, ReadOK
<1>4. ReadNow \in MatchesOf(arch, from) /\ ReadNow.home = block + 1 /\ ReadNow.dest = dest
  BY <1>1, NextPlaced DEF ReadNow
<1>5. dest \in Nat
  BY <1>1, <1>3, ThisRecordType DEF TypeOK
<1>6. pc = "store" => ~ Local(ReadNow, at)
  <2> SUFFICES ASSUME pc = "store" PROVE ~ Local(ReadNow, at)
    OBVIOUS
  <2>1. dest >= blockEnd
    BY DEF ValidateRecord, StoreUnsaved, StoreMatch, Leaves
  <2> QED BY <1>3, <1>4, <1>5, <2>1 DEF Local
<1> QED BY <1>1, <1>4, <1>6, NotYetOwed

LEMMA AccountedOn ==
  ASSUME TypeOK, SlotInv, NEW at, NEW from, NEW kept, NEW stat, Rebuilt(at, from, kept, stat),
         Accounted, [Next]_vars
  PROVE  Accounted'
<1>1. IsHeap(heap) /\ IsFiniteSet(DOMAIN heap) /\ usedChunks = ChunksIn(heap) /\ usedChunks \in Int
  BY DEF TypeOK, HeapOK, Accounted
<1>2. ASSUME NEW m \in Entry, m.dest \notin DOMAIN heap, heap' = Insert(heap, m),
             usedChunks' = usedChunks + ChunksOf(m)
      PROVE  Accounted'
  BY <1>1, <1>2, InsertChunks DEF Accounted
<1>3. ASSUME NEW d \in DOMAIN heap, heap' = TakeClass(heap, d),
             usedChunks' = usedChunks - ChunksOf(heap[d][1])
      PROVE  Accounted'
  BY <1>1, <1>3, TakeChunks DEF Accounted
<1>4. ASSUME UNCHANGED <<heap, usedChunks>> PROVE Accounted'
  BY <1>4 DEF Accounted
<1>5. ASSUME pc \in {"validate", "store"}, MoreRecords, dest \notin DOMAIN heap,
             heap' = Insert(heap, Pending(Unsaved)), usedChunks' = usedChunks
      PROVE  Accounted'
  <2>1. block < Len(arch.blocks)
    BY <1>5 DEF TypeOK, ReadOK, InBlock
  <2>2. Pending(Unsaved) \in Entry
    BY <1>5, <2>1, ThisRecordType DEF TypeOK
  <2>3. Pending(Unsaved).dest = dest /\ ChunksOf(Pending(Unsaved)) = 0
    BY NoChunks DEF Pending
  <2> QED BY <1>1, <1>2, <1>5, <2>2, <2>3
<1>6. CASE ValidateRecord
  <2>1. pc = "validate" /\ MoreRecords /\ usedChunks' = usedChunks
        /\ heap' = IF dest < blockEnd THEN Insert(heap, Pending(Unsaved)) ELSE heap
    BY <1>6 DEF ValidateRecord
  <2>2. CASE dest < blockEnd
    BY <1>5, <1>6, <2>1, <2>2, RecordPlace
  <2>3. CASE ~ (dest < blockEnd)
    BY <1>4, <2>1, <2>3
  <2> QED BY <2>2, <2>3
<1>7. CASE StoreUnsaved
  <2>1. pc = "store" /\ MoreRecords /\ usedChunks' = usedChunks
        /\ heap' = Insert(heap, Pending(Unsaved))
    BY <1>7 DEF StoreUnsaved
  <2> QED BY <1>5, <1>7, <2>1, RecordPlace
<1>8. CASE StoreMatch
  <2> DEFINE data == Part(outBuf, src - blockStart, ThisRecord.len)
             m == Pending(data)
  <2>1. pc = "store" /\ MoreRecords /\ usedChunks' = usedChunks + ChunksOf(m)
        /\ heap' = Insert(heap, m)
    BY <1>8 DEF StoreMatch
  <2>2. block < Len(arch.blocks)
    BY <2>1 DEF TypeOK, ReadOK, InBlock
  <2>3. outBuf \in Seq(Bytes) /\ src - blockStart \in Int /\ ThisRecord.len \in Nat
    BY <2>1, <2>2, ThisRecordType DEF TypeOK, ReadOK, BuildOK, Record
  <2>4. data \in Seq(Bytes)
    BY <2>3, PartBytes
  <2> HIDE DEF data
  <2>5. m \in Entry
    BY <2>1, <2>2, <2>4, ThisRecordType DEF TypeOK
  <2>6. m.dest = dest
    BY DEF Pending
  <2>7. dest \notin DOMAIN heap
    BY <1>8, RecordPlace
  <2> HIDE DEF m
  <2> QED BY <1>2, <2>1, <2>5, <2>6, <2>7
<1>9. CASE FillMatch
  <2>1. PICK d \in DOMAIN heap : heap' = TakeClass(heap, d) /\ usedChunks' = usedChunks - ChunksOf(heap[d][1])
    BY <1>9 DEF FillMatch
  <2> QED BY <1>3, <2>1
<1>10. CASE EvictMatch
  <2>1. PICK d \in DOMAIN heap : heap' = TakeClass(heap, d) /\ usedChunks' = usedChunks - ChunksOf(heap[d][1])
    BY <1>10 DEF EvictMatch
  <2> QED BY <1>3, <2>1
<1>11. CASE TakeMark
  <2>1. PICK d \in DOMAIN heap : IsMark(heap[d][1]) /\ heap' = TakeClass(heap, d) /\ usedChunks' = usedChunks
    BY <1>11 DEF TakeMark
  <2>2. heap[d][1].data = Unsaved
    BY <2>1 DEF SlotInv, Solid, IsMark
  <2>3. ChunksOf(heap[d][1]) = 0
    BY <2>2, NoChunks
  <2> QED BY <1>1, <1>3, <2>1, <2>3
<1>12. CASE WriteSlot
  <2>1. PICK s \in DOMAIN spill \cup {newBlock} : heap' = Insert(heap, Mark(s, packed[Len(packed)].dest))
    BY <1>12 DEF WriteSlot
  <2>2. pc = "evict" /\ packed # <<>> /\ usedChunks' = usedChunks /\ packed \in Seq(Entry)
    BY <1>12 DEF WriteSlot, TypeOK, PackOK
  <2>3. Len(packed) \in DOMAIN packed /\ packed[Len(packed)] \in Entry
    BY <2>2, LastRecord
  <2> DEFINE d == packed[Len(packed)].dest
             m == Mark(s, d)
  <2>4. d \notin DOMAIN heap /\ d \in Nat
    BY <2>3 DEF SlotInv, PackedOrder, Entry
  <2>5. s \in Nat
    BY <2>1 DEF TypeOK, SpillOK
  <2> HIDE DEF d
  <2>6. m \in Entry /\ m.dest = d /\ m.data = Unsaved
    BY <2>4, <2>5 DEF Mark, Entry, Unsaved
  <2>7. ChunksOf(m) = 0
    BY <2>6, NoChunks
  <2>8. heap' = Insert(heap, m)
    BY <2>1 DEF d
  <2> HIDE DEF m
  <2> QED BY <1>1, <1>2, <2>2, <2>4, <2>6, <2>7, <2>8
<1>13. CASE LoadRecord
  <2> DEFINE m == spill[slot][loaded + 1]
  <2>1. pc = "load" /\ loaded < Len(spill[slot]) /\ heap' = Insert(heap, m) /\ usedChunks' = usedChunks + ChunksOf(m)
    BY <1>13 DEF LoadRecord
  <2>2. spill[slot] \in Seq(Entry) /\ loaded \in Nat
    BY <2>1 DEF TypeOK, SpillOK
  <2>3. m \in Entry
    BY <2>1, <2>2
  <2>4. HeldOnce /\ Descending /\ Given
    BY <2>1 DEF Rebuilt, Stopping
  <2>5. m.dest \notin DOMAIN heap
    BY <1>13, <2>4, LoadPlace
  <2> HIDE DEF m
  <2> QED BY <1>2, <2>1, <2>3, <2>5
<1>14. CASE WriteBlock
  BY <1>4, <1>14 DEF WriteBlock
<1>15. ASSUME ~ (ValidateRecord \/ StoreUnsaved \/ StoreMatch \/ FillMatch \/ EvictMatch \/ TakeMark
                \/ WriteSlot \/ LoadRecord \/ WriteBlock)
       PROVE  UNCHANGED <<heap, usedChunks>>
  BY <1>15 DEF Next, vars, Open, RefuseOpen, ReadBlock, Truncated, Finish, RefuseFooter, RejectRecord,
    EndValidate, RejectMatch, FillTail, RejectLiterals, SkipRecord, StoreNeedsRoom, BeginPacking,
    EndStore, NothingToEvict, RestoreNeedsRoom, ReadSlot, SlotMissing, EndRestore, RejectDigest,
    Stopped, Fail
<1> QED BY <1>4, <1>6, <1>7, <1>8, <1>9, <1>10, <1>11, <1>12, <1>13, <1>14, <1>15

(* Every chunk the memory manager has handed out belongs to one pending    *)
(* match of an undamaged archive, through evictions, restores and copies.  *)
THEOREM EveryChunkAccounted ==
  ASSUME IntactArchives
  PROVE  Spec => []ChunksAccounted
<1>1. IntactInv /\ Accounted /\ [Next]_vars => Accounted'
  BY AccountedOn DEF IntactInv, Rebuilding
<1>2. Accounted => ChunksAccounted
  BY DEF Accounted, ChunksIn, ChunksAccounted
<1> QED BY <1>1, <1>2, AlwaysRebuilding, AccountedFirst, PTL DEF Spec

-----------------------------------------------------------------------------
(* Nothing to evict: room was asked for with nothing that can be packed.   *)
Wanting ==
  pc = "evict" /\ packed = <<>> =>
    /\ filled = 0
    /\ caller = "restore" => Available < VmBlock
    /\ caller = "store" => MoreRecords /\ Saved /\ ThisRecord.len > Available

LEMMA WantingOn == TypeOK /\ Wanting /\ [Next]_vars => Wanting'
<1> SUFFICES ASSUME TypeOK, Wanting, [Next]_vars, pc' = "evict" /\ packed' = <<>> PROVE Wanting'
  BY DEF Wanting
<1>1. CASE StoreNeedsRoom
  <2>1. /\ MoreRecords /\ Saved /\ ThisRecord.len > Available
        /\ caller' = "store" /\ filled' = 0
        /\ UNCHANGED <<arch, block, rec, usedChunks>>
    BY <1>1 DEF StoreNeedsRoom, BeginPacking, readVars, buildVars
  <2>2. /\ MoreRecords' = MoreRecords /\ Saved' = Saved /\ ThisRecord' = ThisRecord
        /\ Available' = Available
    BY <2>1 DEF MoreRecords, Saved, ThisRecord, CurrentBlock, Available
  <2> QED BY <2>1, <2>2 DEF Wanting
<1>2. CASE RestoreNeedsRoom
  <2>1. Available < VmBlock /\ caller' = "restore" /\ filled' = 0 /\ UNCHANGED usedChunks
    BY <1>2 DEF RestoreNeedsRoom, BeginPacking
  <2>2. Available' = Available
    BY <2>1 DEF Available
  <2> QED BY <2>1, <2>2 DEF Wanting
<1>3. CASE EvictMatch
  <2>1. PICK d \in DOMAIN heap : packed' = Append(packed, heap[d][1])
    BY <1>3 DEF EvictMatch
  <2>2. packed \in Seq(Entry) /\ heap[d][1] \in Entry
    BY <2>1, FirstOfClass DEF TypeOK, PackOK, HeapOK
  <2> DEFINE m == heap[d][1]
  <2>3. Append(packed, m) # <<>>
    <3> HIDE DEF m
    <3> QED BY <2>2
  <2>4. packed' # <<>>
    BY <2>1, <2>3
  <2> QED BY <2>4
<1>4. CASE UNCHANGED vars
  <2>1. UNCHANGED <<pc, arch, block, rec, usedChunks, caller, packed, filled>>
    BY <1>4 DEF vars, readVars, buildVars, packVars
  <2>2. /\ MoreRecords' = MoreRecords /\ Saved' = Saved /\ ThisRecord' = ThisRecord
        /\ Available' = Available
    BY <2>1 DEF MoreRecords, Saved, ThisRecord, CurrentBlock, Available
  <2> QED BY <2>1, <2>2 DEF Wanting
<1>5. CASE WriteSlot
  <2>1. pc' = caller /\ caller \in {"store", "restore"}
    BY <1>5 DEF WriteSlot, TypeOK, ControlOK
  <2> QED BY <2>1
<1>6. CASE \/ Open \/ RefuseOpen \/ ReadBlock \/ Truncated \/ Finish \/ RefuseFooter
           \/ RejectRecord \/ EndValidate \/ RejectMatch \/ TakeMark \/ FillTail \/ RejectLiterals
           \/ EndStore \/ NothingToEvict \/ ReadSlot \/ SlotMissing \/ EndRestore \/ WriteBlock
           \/ RejectDigest
  BY <1>6 DEF Open, RefuseOpen, ReadBlock, Truncated, Finish, RefuseFooter,
    RejectRecord, EndValidate, RejectMatch, TakeMark, FillTail, RejectLiterals,
    EndStore, NothingToEvict, ReadSlot, SlotMissing, EndRestore, WriteBlock, RejectDigest, Fail
<1>7. CASE ValidateRecord \/ FillMatch \/ SkipRecord \/ StoreUnsaved \/ StoreMatch \/ LoadRecord
  <2>1. pc \in {"validate", "fill", "store", "load"} /\ pc' = pc
    BY <1>7 DEF ValidateRecord, FillMatch, SkipRecord, StoreUnsaved, StoreMatch, LoadRecord, Due
  <2> QED BY <2>1
<1> QED BY <1>1, <1>2, <1>3, <1>4, <1>5, <1>6, <1>7 DEF Next, Stopped

(* A match is saved in memory only if it fits in a slot of its own.        *)
LEMMA SavedFits ==
  ASSUME VmBlock > FitMargin
  PROVE  MaxSave \in Nat /\ FitMargin \in Nat /\ VmBlock \in Nat /\ MaxSave <= VmBlock - FitMargin
<1> DEFINE room == VmBlock - FitMargin
<1>1. room \in Nat /\ DWordSize \in Nat \ {0} /\ MaximumSave \in Nat /\ VmBlock \in Nat /\ FitMargin \in Nat
  BY BudgetAssumption, SlotAssumption
<1>2. MaxSave = IF room % DWordSize < MaximumSave THEN room % DWordSize ELSE MaximumSave
  BY DEF MaxSave
<1> HIDE DEF room
<1>3. room % DWordSize \in Nat /\ room % DWordSize <= room
  BY <1>1
<1>4. MaxSave \in Nat /\ MaxSave <= room
  BY <1>1, <1>2, <1>3
<1> QED BY <1>1, <1>4 DEF room

LEMMA UsefulIsNat == UsefulMemory \in Nat
<1> DEFINE n == (((((MemLimit \div ABlockSize) * ABlockSize) \div ChunkSize) - 1) * ChunkSpace)
<1>1. n \in Int
  <2> DEFINE a == MemLimit \div ABlockSize
             b == a * ABlockSize
             c == b \div ChunkSize
  <2>1. a \in Nat
    BY BudgetAssumption, DivRange
  <2> HIDE DEF a
  <2>2. b \in Nat
    BY <2>1, BudgetAssumption
  <2> HIDE DEF b
  <2>3. c \in Nat
    BY <2>2, BudgetAssumption, DivRange
  <2> HIDE DEF c
  <2>4. (c - 1) * ChunkSpace \in Int
    BY <2>3, BudgetAssumption
  <2> QED BY <2>4 DEF a, b, c
<1>2. UsefulMemory = n % QWordSize
  BY DEF UsefulMemory
<1> HIDE DEF n
<1>3. QWordSize \in Nat \ {0}
  BY BudgetAssumption
<1> QED BY <1>1, <1>2, <1>3

(* In a finite heap with a match in memory one of them is the furthest.    *)
LEMMA FurthestOfHeap ==
  ASSUME DOMAIN heap \subseteq Nat, NEW n \in Nat, \A d \in DOMAIN heap : d <= n,
         NEW c \in DOMAIN heap, Evictable(c)
  PROVE  \E d \in DOMAIN heap : IsFurthest(d)
<1> DEFINE T == {k \in Nat : \E d \in DOMAIN heap : Evictable(d) /\ k = n - d}
<1>1. T \in SUBSET Nat /\ T # {}
  <2>1. n - c \in Nat
    OBVIOUS
  <2>2. n - c \in T
    BY <2>1
  <2> QED BY <2>2
<1>2. PICK k \in T : \A j \in T : k <= j
  <2> HIDE DEF T
  <2> QED BY <1>1, LeastOf
<1>3. PICK d \in DOMAIN heap : Evictable(d) /\ k = n - d
  OBVIOUS
<1>4. ASSUME NEW e \in DOMAIN heap, Evictable(e) PROVE e <= d
  <2>1. n - e \in Nat /\ e \in Nat /\ d \in Nat
    OBVIOUS
  <2>2. n - e \in T
    BY <2>1, <1>4
  <2>3. k <= n - e
    BY <2>2, <1>2
  <2> HIDE DEF T
  <2> QED BY <2>1, <2>3, <1>3
<1> QED BY <1>3, <1>4 DEF IsFurthest

(* So with nothing to evict all of memory is free, and is not enough for   *)
(* one slot.                                                               *)
LEMMA NothingIsSaved ==
  ASSUME TypeOK, SlotInv, NEW at, NEW from, NEW kept, NEW stat, Rebuilt(at, from, kept, stat),
         Wanting, NothingToEvict, VmBlock > FitMargin
  PROVE  \A d \in DOMAIN heap : heap[d][1].data = Unsaved
<1>1. pc = "evict" /\ SlotFull /\ filled = 0 /\ ~ Stopping
  BY DEF NothingToEvict, Wanting, Stopping
<1>2. IsHeap(heap) /\ DOMAIN heap \subseteq Nat
  BY DEF TypeOK, HeapOK, IsHeap
<1>3. HeldRight(at, from) /\ Makes(arch, at, from, kept, stat) /\ arch \in Archive
  BY <1>1 DEF Rebuilt, TypeOK, ReadOK
<1>4. ASSUME NEW d \in DOMAIN heap PROVE d <= Len(arch.file)
  <2>1. PICK e \in Holding : e.dest = d
    BY <1>1, EntryHeld
  <2>2. PICK m \in MatchesOf(arch, from) : Stands(e, m, at)
    BY <1>3 DEF HeldRight
  <2>3. m.dest = d
    BY <2>1, <2>2 DEF Stands
  <2>4. m.dest + m.len <= Len(arch.file) /\ m.len \in Nat \ {0} /\ m.dest \in Nat
    BY <1>3, MatchOf
  <2>5. Len(arch.file) \in Nat
    BY <1>3, BlocksOf
  <2> QED BY <2>3, <2>4, <2>5
<1>5. ASSUME NEW d \in DOMAIN heap, heap[d][1].data # Unsaved
      PROVE  Fits(heap[d][1])
  <2> DEFINE e == heap[d][1]
  <2>1. e \in Entry /\ e.len > 0
    BY <1>2, <1>5, FirstOfClass DEF SlotInv, Solid
  <2>2. e \in Holding
    BY <2>1 DEF Holding, InHeap, Marks, MarksOf, IsMark
  <2>3. PICK m \in MatchesOf(arch, from) : Stands(e, m, at)
    BY <1>3, <2>2 DEF HeldRight
  <2>4. e.len < MaxSave
    BY <1>5, <2>3 DEF Stands
  <2>5. e.len \in Nat
    BY <2>1 DEF Entry
  <2> HIDE DEF e
  <2>6. VmBlock - filled >= FitMargin + e.len
    BY <1>1, <2>4, <2>5, SavedFits
  <2> QED BY <2>6 DEF Fits, e
<1> SUFFICES ASSUME NEW c \in DOMAIN heap, heap[c][1].data # Unsaved PROVE FALSE
  OBVIOUS
<1>6. Evictable(c)
  BY DEF Evictable
<1>7. Len(arch.file) \in Nat
  BY <1>3, BlocksOf
<1>8. PICK d \in DOMAIN heap : IsFurthest(d)
  BY <1>2, <1>4, <1>6, <1>7, FurthestOfHeap
<1>9. Fits(heap[d][1])
  BY <1>5, <1>8 DEF IsFurthest, Evictable
<1> QED BY <1>1, <1>8, <1>9 DEF SlotFull

LEMMA FailsForSlot ==
  ASSUME TypeOK, SlotInv, NEW at, NEW from, NEW kept, NEW stat, Rebuilt(at, from, kept, stat),
         Wanting, Accounted, NothingToEvict, VmBlock > FitMargin
  PROVE  UsefulMemory < VmBlock
<1>1. \A d \in DOMAIN heap : ChunksOf(heap[d][1]) = 0
  BY NothingIsSaved, NoChunks
<1>2. usedChunks = 0
  <2> DEFINE f == [d \in DOMAIN heap |-> ChunksOf(heap[d][1])]
  <2>1. \A d \in DOMAIN heap : f[d] = 0
    BY <1>1
  <2>2. usedChunks = SumFunctionOnSet(f, DOMAIN heap) /\ IsFiniteSet(DOMAIN heap)
    BY DEF Accounted, ChunksIn, SumFunction
  <2> HIDE DEF f
  <2> QED BY <2>1, <2>2, SumOfNone
<1>3. Available = UsefulMemory
  <2>1. Available = IF UsefulMemory > 0 * ChunkSpace THEN UsefulMemory - 0 * ChunkSpace ELSE 0
    BY <1>2 DEF Available
  <2>2. 0 * ChunkSpace = 0
    BY BudgetAssumption
  <2> QED BY <2>1, <2>2, UsefulIsNat
<1>4. caller \in {"store", "restore"} /\ pc = "evict" /\ packed = <<>>
  BY DEF TypeOK, ControlOK, NothingToEvict
<1>5. CASE caller = "restore"
  BY <1>3, <1>4, <1>5 DEF Wanting
<1>6. CASE caller = "store"
  <2>1. MoreRecords /\ ThisRecord.len < MaxSave /\ ThisRecord.len > UsefulMemory
    BY <1>3, <1>4, <1>6 DEF Wanting, Saved
  <2>2. block < Len(arch.blocks)
    BY <1>4 DEF TypeOK, ReadOK, InBlock
  <2>3. ThisRecord.len \in Nat
    BY <2>1, <2>2, ThisRecordType DEF TypeOK, Record
  <2> QED BY <2>1, <2>3, SavedFits, UsefulIsNat
<1> QED BY <1>4, <1>5, <1>6

(* Slots too small for any match are never written.                        *)
Unspilled == VmBlock <= FitMargin => packed = <<>> /\ DOMAIN spill = {}

LEMMA UnspilledOn == TypeOK /\ SlotInv /\ Unspilled /\ [Next]_vars => Unspilled'
<1> SUFFICES ASSUME TypeOK, SlotInv, VmBlock <= FitMargin, packed = <<>>, DOMAIN spill = {}, [Next]_vars
             PROVE  packed' = <<>> /\ DOMAIN spill' = {}
  BY DEF Unspilled
<1>1. ASSUME EvictMatch PROVE FALSE
  <2>1. PICK d \in DOMAIN heap : Evictable(d) /\ Fits(heap[d][1])
    BY <1>1 DEF EvictMatch, IsFurthest
  <2>2. heap[d][1].len \in Nat /\ heap[d][1].len > 0
    BY <2>1, FirstOfClass DEF TypeOK, HeapOK, Entry, SlotInv, Solid, Evictable
  <2>3. VmBlock - filled >= FitMargin + heap[d][1].len /\ filled \in Nat
    BY <2>1 DEF Fits, TypeOK, PackOK
  <2> QED BY <2>2, <2>3, BudgetAssumption, SlotAssumption
<1>2. ~ WriteSlot
  BY DEF WriteSlot
<1>3. packed' = <<>> /\ spill' = spill
  BY <1>1, <1>2 DEF Next, vars, packVars, vmVars, Open, RefuseOpen, ReadBlock, Truncated,
    Finish, RefuseFooter, ValidateRecord, RejectRecord, EndValidate, FillMatch,
    RejectMatch, TakeMark, FillTail, RejectLiterals, SkipRecord, StoreUnsaved,
    StoreMatch, StoreNeedsRoom, EndStore, NothingToEvict,
    RestoreNeedsRoom, ReadSlot, SlotMissing, LoadRecord, EndRestore, WriteBlock,
    RejectDigest, Stopped, Fail, BeginPacking
<1> QED BY <1>3

(* Then no mark waits for its slot, and all the matches held are in        *)
(* memory, where the one to be saved does not fit beside them.             *)
LEMMA FailsUnspilled ==
  ASSUME TypeOK, SlotInv, Wanting, Accounted, Unspilled, NothingToEvict, VmBlock <= FitMargin
  PROVE  UsefulMemory < HeldBytes + ThisRecord.len
<1>1. pc = "evict" /\ packed = <<>> /\ caller \in {"store", "restore"}
  BY DEF NothingToEvict, TypeOK, ControlOK
<1>2. caller = "store"
  <2> SUFFICES ASSUME caller = "restore" PROVE FALSE
    BY <1>1
  <2>1. AwaitedSlots = {slot}
    BY <1>1 DEF AwaitedSlots
  <2>2. AwaitedSlots \subseteq DOMAIN spill
    BY <1>1 DEF SlotInv, SlotsOwned
  <2> QED BY <2>1, <2>2 DEF Unspilled
<1>3. MoreRecords /\ ThisRecord.len > Available
  BY <1>1, <1>2 DEF Wanting
<1>4. ThisRecord.len \in Nat
  <2>1. block < Len(arch.blocks)
    BY <1>1 DEF TypeOK, ReadOK, InBlock
  <2> QED BY <1>3, <2>1, ThisRecordType DEF TypeOK, Record
<1> DEFINE held == usedChunks * ChunkSpace
<1>5. HeldBytes = held /\ held \in Int
  <2>1. usedChunks = SumFunction([d \in DOMAIN heap |-> ChunksOf(heap[d][1])])
    BY DEF Accounted, ChunksIn
  <2>2. HeldBytes = ChunkSpace * usedChunks
    BY <2>1 DEF HeldBytes
  <2>3. usedChunks \in Int /\ ChunkSpace \in Int
    BY BudgetAssumption DEF TypeOK, HeapOK
  <2> QED BY <2>2, <2>3
<1>6. Available = IF UsefulMemory > held THEN UsefulMemory - held ELSE 0
  BY DEF Available
<1> HIDE DEF held
<1> QED BY <1>3, <1>4, <1>5, <1>6, UsefulIsNat

Short == IF VmBlock > FitMargin THEN UsefulMemory < VmBlock
                                ELSE UsefulMemory < HeldBytes + ThisRecord.len

MemoryShort == pc = "failed" => Short

LEMMA ShortStays ==
  ASSUME Short, UNCHANGED <<arch, block, rec, heap>>
  PROVE  Short'
<1>1. HeldBytes' = HeldBytes
  BY DEF HeldBytes, ChunksOf, Chunks
<1>2. ThisRecord' = ThisRecord
  BY DEF ThisRecord, CurrentBlock
<1> QED BY <1>1, <1>2 DEF Short, UsefulMemory

LEMMA MemoryShortOn ==
  ASSUME TypeOK, SlotInv, Whole, NEW at, NEW from, NEW kept, NEW stat, Rebuilt(at, from, kept, stat),
         Wanting, Accounted, Unspilled, MemoryShort, [Next]_vars
  PROVE  MemoryShort'
<1> SUFFICES ASSUME pc' = "failed" PROVE Short'
  BY DEF MemoryShort
<1>1. CASE pc = "failed"
  <2>1. UNCHANGED vars
    BY <1>1 DEF Next, Open, RefuseOpen, ReadBlock, Truncated, Finish, RefuseFooter, ValidateRecord,
      RejectRecord, EndValidate, FillMatch, RejectMatch, TakeMark, FillTail, RejectLiterals, Due,
      SkipRecord, StoreUnsaved, StoreMatch, StoreNeedsRoom, EndStore, EvictMatch, WriteSlot,
      NothingToEvict, RestoreNeedsRoom, ReadSlot, SlotMissing, LoadRecord, EndRestore, WriteBlock,
      RejectDigest, Stopped
  <2> QED BY <1>1, <2>1, ShortStays DEF MemoryShort, vars, readVars, buildVars
<1>2. CASE NothingToEvict
  <2>1. VmBlock \in Nat /\ FitMargin \in Nat
    BY BudgetAssumption, SlotAssumption
  <2>2. Short
    BY <1>2, <2>1, FailsForSlot, FailsUnspilled DEF Short
  <2>3. UNCHANGED <<arch, block, rec, heap>>
    BY <1>2 DEF NothingToEvict, Fail, readVars, buildVars
  <2> QED BY <2>2, <2>3, ShortStays
<1>3. CASE pc # "failed" /\ ~ NothingToEvict
  <2>1. ~ (RefuseOpen \/ Truncated \/ RefuseFooter \/ RejectRecord \/ RejectMatch
            \/ RejectLiterals \/ SlotMissing \/ RejectDigest)
    BY NotRefused
  <2>2. caller # "failed"
    BY DEF TypeOK, ControlOK
  <2> QED BY <1>3, <2>1, <2>2 DEF Next, vars, Open, ReadBlock, Finish, ValidateRecord, EndValidate, FillMatch, TakeMark,
      FillTail, SkipRecord, StoreUnsaved, StoreMatch, StoreNeedsRoom, BeginPacking, EndStore, EvictMatch,
      WriteSlot, RestoreNeedsRoom, ReadSlot, LoadRecord, EndRestore, WriteBlock, Stopped
<1> QED BY <1>1, <1>2, <1>3

(* An undamaged archive is given up only for want of memory.  Where a slot *)
(* of the spill file holds a match, all the memory there is for matches    *)
(* that wait is less than one slot: with that much, whatever must be       *)
(* evicted and restored, it never is.  Where none does (a -vmblock of 24   *)
(* or less), nothing is ever spilled, and memory is less than what the     *)
(* matches that wait and the next one take.                                *)
THEOREM OnlyMemoryFailing ==
  ASSUME IntactArchives
  PROVE  Spec => []OnlyMemoryFails
<1>1. IntactInv /\ Accounted /\ [Next]_vars => Accounted'
  BY AccountedOn DEF IntactInv, Rebuilding
<1>2. Init => Wanting /\ MemoryShort /\ Unspilled
  BY DEF Init, Wanting, MemoryShort, Unspilled
<1>3. IntactInv /\ Wanting /\ [Next]_vars => Wanting'
  BY WantingOn DEF IntactInv
<1>4. IntactInv /\ Unspilled /\ [Next]_vars => Unspilled'
  BY UnspilledOn DEF IntactInv
<1>5. IntactInv /\ Accounted /\ Wanting /\ Unspilled /\ MemoryShort /\ [Next]_vars => MemoryShort'
  BY MemoryShortOn DEF IntactInv, Rebuilding
<1>6. IntactInv /\ MemoryShort => OnlyMemoryFails
  BY DEF IntactInv, Rebuilding, Rebuilt, MemoryShort, Short, OnlyMemoryFails
<1> QED BY <1>1, <1>2, <1>3, <1>4, <1>5, <1>6, AlwaysRebuilding, AccountedFirst, PTL DEF Spec

-----------------------------------------------------------------------------
(* Counting what is held.                                                  *)
LEMMA CountUnion ==
  ASSUME NEW F, NEW f, NEW S, IsFiniteSet(S),
         \A s \in S : IsFiniteSet(F[s]) /\ f[s] = Cardinality(F[s]),
         \A s, t \in S : s # t => F[s] \cap F[t] = {}
  PROVE  /\ IsFiniteSet(UNION {F[s] : s \in S})
         /\ Cardinality(UNION {F[s] : s \in S}) = SumFunctionOnSet(f, S)
<1> DEFINE U(T) == UNION {F[s] : s \in T}
           Good(T) == IsFiniteSet(U(T)) /\ Cardinality(U(T)) = SumFunctionOnSet(f, T)
           bad == {k \in Nat : \E T \in SUBSET S : Cardinality(T) = k /\ ~ Good(T)}
<1>1. \A T \in SUBSET S : IsFiniteSet(T) /\ Cardinality(T) \in Nat
  BY FS_Subset, FS_CardinalityType
<1>2. \A T \in SUBSET S : \A y \in T :
        T \ {y} \in SUBSET S /\ Cardinality(T \ {y}) = Cardinality(T) - 1
  BY <1>1, FS_RemoveElement
<1>3. \A s \in S : f[s] \in Int
  BY FS_CardinalityType
<1>4. ASSUME bad # {} PROVE FALSE
  <2>1. bad \in SUBSET Nat
    OBVIOUS
  <2>2. PICK k \in bad : \A j \in bad : k <= j
    <3> HIDE DEF bad
    <3> QED BY <2>1, <1>4, LeastOf
  <2>3. PICK T \in SUBSET S : Cardinality(T) = k /\ ~ Good(T)
    OBVIOUS
  <2>4. T # {}
    <3>1. U({}) = {} /\ Cardinality({}) = 0 /\ IsFiniteSet({})
      BY FS_EmptySet
    <3>2. Good({})
      BY <3>1, SumEmpty
    <3> QED BY <2>3, <3>2
  <2>5. PICK y : y \in T
    BY <2>4
  <2> DEFINE r == T \ {y}
  <2>6. r \in SUBSET S /\ Cardinality(r) = k - 1 /\ Cardinality(r) \in Nat
    BY <1>1, <1>2, <2>3, <2>5
  <2>7. k \in Nat
    OBVIOUS
  <2>8. Good(r)
    <3> HIDE DEF r, Good
    <3>1. Cardinality(r) \notin bad
      <4> HIDE DEF bad
      <4> QED BY <2>6, <2>7, <2>2
    <3> QED BY <3>1, <2>6
  <2>9. SumFunctionOnSet(f, T) = f[y] + SumFunctionOnSet(f, r)
    <3>1. IsFiniteSet(T) /\ \A x \in T : f[x] \in Int
      BY <1>1, <1>3
    <3> QED BY <3>1, <2>5, SumTakes
  <2>10. U(T) = U(r) \cup F[y]
    BY <2>5
  <2>11. U(r) \cap F[y] = {}
    <3>1. \A s \in r : s \in S /\ s # y /\ y \in S
      BY <2>5, <2>6
    <3> HIDE DEF r
    <3> QED BY <3>1
  <2>12. IsFiniteSet(F[y]) /\ f[y] = Cardinality(F[y]) /\ f[y] \in Int
    BY <2>5, <1>3
  <2>13. IsFiniteSet(U(r)) /\ Cardinality(U(r)) = SumFunctionOnSet(f, r)
    BY <2>8
  <2> DEFINE A == U(r)
             B == F[y]
  <2>14. IsFiniteSet(A \cup B) /\ Cardinality(A \cup B) = Cardinality(A) + Cardinality(B)
    <3>1. IsFiniteSet(A) /\ IsFiniteSet(B) /\ A \cap B = {}
      BY <2>11, <2>12, <2>13
    <3> HIDE DEF A, B
    <3>2. IsFiniteSet(A \cup B) /\ Cardinality(A \cup B) = Cardinality(A) + Cardinality(B) - Cardinality(A \cap B)
      BY <3>1, FS_Union
    <3>3. Cardinality(A \cap B) = 0 /\ Cardinality(A) \in Nat /\ Cardinality(B) \in Nat
      BY <3>1, FS_EmptySet, FS_CardinalityType
    <3> QED BY <3>2, <3>3
  <2>15. U(T) = A \cup B
    BY <2>10
  <2>16. Cardinality(A) = SumFunctionOnSet(f, r) /\ Cardinality(B) = f[y] /\ Cardinality(A) \in Nat
    BY <2>12, <2>13, FS_CardinalityType
  <2> HIDE DEF A, B, U, r
  <2>17. Cardinality(U(T)) = SumFunctionOnSet(f, T)
    BY <2>9, <2>12, <2>14, <2>15, <2>16
  <2> QED BY <2>3, <2>14, <2>15, <2>17
<1>5. Cardinality(S) \in Nat /\ Cardinality(S) \notin bad /\ S \in SUBSET S
  BY <1>1, <1>4
<1>6. Good(S)
  <2> HIDE DEF Good
  <2> QED BY <1>5
<1> QED BY <1>6

(* A set whose elements are told apart by an index has as many.            *)
LEMMA CountIndexed ==
  ASSUME NEW S, IsFiniteSet(S), NEW f, \A x, y \in S : x # y => f[x] # f[y]
  PROVE  LET T == {f[x] : x \in S}
         IN  IsFiniteSet(T) /\ Cardinality(T) = Cardinality(S)
<1> DEFINE T == {f[x] : x \in S}
           g == [x \in S |-> f[x]]
<1>1. g \in [S -> T] /\ (\A y \in T : \E x \in S : g[x] = y) /\ (\A x, y \in S : g[x] = g[y] => x = y)
  OBVIOUS
<1>2. ExistsBijection(S, T)
  <2> HIDE DEF g, T
  <2>1. g \in Bijection(S, T)
    BY <1>1 DEF Bijection, Injection, Surjection, IsInjective
  <2> QED BY <2>1 DEF ExistsBijection
<1> HIDE DEF T
<1> QED BY <1>2, FS_Bijection DEF T

LEMMA HeldNow ==
  ASSUME TypeOK, SlotInv, pc = "block"
  PROVE  Holding = Held /\ AwaitedSlots = {} /\ packed = <<>> /\ MarkedSlots \subseteq DOMAIN spill
<1>1. AwaitedSlots = {} /\ packed = <<>>
  BY DEF AwaitedSlots, SlotInv, PackedOrder
<1>2. MarkedSlots \subseteq DOMAIN spill
  BY DEF SlotInv, SlotsOwned
<1>3. InPack = {}
  BY <1>1 DEF InPack
<1>4. \A s, i : Alive(s, i) <=> s \in MarkedSlots /\ i \in DOMAIN spill[s]
  BY <1>1, <1>2 DEF Alive
<1>5. InSpill = UNION {{spill[s][i] : i \in DOMAIN spill[s]} : s \in MarkedSlots}
  BY <1>2, <1>4 DEF InSpill
<1> QED BY <1>1, <1>2, <1>3, <1>5 DEF Holding, Held, InHeap

LEMMA HeldCounted ==
  ASSUME TypeOK, SlotInv, HeldOnce, Descending, IsFiniteSet(DOMAIN heap), pc = "block"
  PROVE  Cardinality(DOMAIN heap \ Marks) + SumFunction([s \in MarkedSlots |-> Len(spill[s])])
           = Cardinality(Held)
<1> DEFINE D == DOMAIN heap \ Marks
           F == [s \in MarkedSlots |-> {spill[s][i] : i \in DOMAIN spill[s]}]
           f == [s \in MarkedSlots |-> Len(spill[s])]
           A == InHeap
           B == UNION {F[s] : s \in MarkedSlots}
<1>1. MarkedSlots \subseteq DOMAIN spill /\ \A s \in MarkedSlots : \A i \in DOMAIN spill[s] : Alive(s, i)
  BY HeldNow DEF Alive
<1>2. IsFiniteSet(D)
  BY FS_Difference
<1>3. IsFiniteSet(A) /\ Cardinality(A) = Cardinality(D)
  <2> DEFINE h == [d \in D |-> heap[d][1]]
  <2>1. \A d, e \in D : d # e => h[d] # h[e]
    BY DEF SlotInv, Keyed
  <2>2. A = {h[d] : d \in D}
    BY DEF InHeap
  <2> HIDE DEF h, D, A
  <2> QED BY <1>2, <2>1, <2>2, CountIndexed
<1>4. IsFiniteSet(MarkedSlots)
  <2>1. MarkedSlots \subseteq 0 .. newBlock - 1 /\ newBlock \in Nat
    BY <1>1 DEF SlotInv, SlotsOwned, TypeOK, SpillOK
  <2>2. IsFiniteSet(0 .. newBlock - 1)
    BY <2>1, FS_Interval
  <2> QED BY <2>1, <2>2, FS_Subset
<1>5. ASSUME NEW s \in MarkedSlots PROVE IsFiniteSet(F[s]) /\ f[s] = Cardinality(F[s])
  <2> DEFINE r == spill[s]
  <2>1. r \in Seq(Entry) /\ r # <<>> /\ DescendTo(r, r[Len(r)].dest)
    BY <1>1 DEF TypeOK, SpillOK, Descending
  <2> HIDE DEF r
  <2>2. DOMAIN r = 1 .. Len(r) /\ Len(r) \in Nat
    BY <2>1
  <2>3. IsFiniteSet(DOMAIN r) /\ Cardinality(DOMAIN r) = Len(r)
    BY <2>2, FS_Interval
  <2>4. \A i, j \in DOMAIN r : i # j => r[i] # r[j]
    <3> SUFFICES ASSUME NEW i \in DOMAIN r, NEW j \in DOMAIN r, i # j, r[i] = r[j] PROVE FALSE
      OBVIOUS
    <3>1. r[i].dest \in Nat
      BY <2>1, RecordOfSlot
    <3>2. i < j \/ j < i
      BY <2>2
    <3>3. r[i].dest > r[j].dest \/ r[j].dest > r[i].dest
      BY <2>1, <3>2 DEF DescendTo
    <3> QED BY <3>1, <3>3
  <2>5. F[s] = {r[i] : i \in DOMAIN r} /\ f[s] = Len(r)
    BY DEF r
  <2> HIDE DEF F, f
  <2> QED BY <2>3, <2>4, <2>5, CountIndexed
<1>6. ASSUME NEW s \in MarkedSlots, NEW t \in MarkedSlots, s # t PROVE F[s] \cap F[t] = {}
  <2> SUFFICES ASSUME NEW i \in DOMAIN spill[s], NEW j \in DOMAIN spill[t], spill[s][i] = spill[t][j]
               PROVE  FALSE
    OBVIOUS
  <2>1. Alive(s, i) /\ Alive(t, j) /\ s \in DOMAIN spill /\ t \in DOMAIN spill
    BY <1>1
  <2>2. spill[t][j].dest # spill[s][i].dest
    BY <1>6, <2>1 DEF HeldOnce
  <2> QED BY <2>2
<1>7. A \cap B = {}
  <2> SUFFICES ASSUME NEW d \in D, NEW s \in MarkedSlots, NEW i \in DOMAIN spill[s],
                      heap[d][1] = spill[s][i]
               PROVE  FALSE
    BY DEF InHeap
  <2>1. Alive(s, i) /\ s \in DOMAIN spill
    BY <1>1
  <2>2. spill[s][i].dest \notin D
    BY <2>1 DEF HeldOnce
  <2>3. heap[d][1].dest = d
    BY DEF SlotInv, Keyed
  <2> QED BY <2>2, <2>3
<1>8. Held = A \cup B
  <2>1. B = UNION {{spill[s][i] : i \in DOMAIN spill[s]} : s \in MarkedSlots}
    OBVIOUS
  <2> HIDE DEF B
  <2> QED BY <2>1 DEF Held, InHeap
<1>9. SumFunction(f) = SumFunctionOnSet(f, MarkedSlots)
  BY DEF SumFunction
<1> HIDE DEF F, f
<1>10. IsFiniteSet(B) /\ Cardinality(B) = SumFunctionOnSet(f, MarkedSlots)
  BY <1>4, <1>5, <1>6, CountUnion
<1> HIDE DEF A, B, D
<1>11. Cardinality(A \cup B) = Cardinality(A) + Cardinality(B) - Cardinality(A \cap B)
  BY <1>3, <1>10, FS_Union
<1>12. Cardinality(A \cap B) = 0 /\ Cardinality(A) \in Nat /\ Cardinality(B) \in Nat
  BY <1>3, <1>7, <1>10, FS_EmptySet, FS_CardinalityType
<1>13. Cardinality(D) + SumFunction(f) = Cardinality(Held)
  BY <1>3, <1>8, <1>9, <1>10, <1>11, <1>12
<1> QED BY <1>13 DEF D, f

-----------------------------------------------------------------------------
(* What the blocks read so far owe, as the archive counts it.              *)
LEMMA StartsCounted ==
  ASSUME arch \in Archive, NEW at, NEW from, NEW kept, NEW stat, Makes(arch, at, from, kept, stat),
         NEW b \in DOMAIN arch.blocks
  PROVE  StartOf(b) = at[b]
<1>1. /\ Len(arch.blocks) \in Nat /\ b \in 1 .. Len(arch.blocks)
      /\ \A c \in 1 .. Len(arch.blocks) : at[c + 1] = at[c] + arch.blocks[c].size
      /\ at[1] = 0
  BY BlocksOf DEF Makes
<1> DEFINE N == 0 .. b - 1
           It(f) == f = [i \in N |-> IF i = 0 THEN 0 ELSE f[i - 1] + arch.blocks[i].size]
           h == [i \in N |-> at[i + 1]]
<1>2. It(h)
  <2>1. ASSUME NEW i \in N PROVE h[i] = IF i = 0 THEN 0 ELSE h[i - 1] + arch.blocks[i].size
    <3>1. CASE i = 0
      BY <1>1, <3>1
    <3>2. CASE i # 0
      <4>1. i \in 1 .. Len(arch.blocks) /\ i - 1 \in N /\ (i - 1) + 1 = i
        BY <1>1, <3>2
      <4>2. h[i] = at[i + 1] /\ h[i - 1] = at[(i - 1) + 1]
        BY <4>1
      <4>3. at[i + 1] = at[i] + arch.blocks[i].size
        BY <1>1, <4>1
      <4> HIDE DEF h, N
      <4> QED BY <3>2, <4>1, <4>2, <4>3
    <3> QED BY <3>1, <3>2
  <2> QED BY <2>1
<1> DEFINE start == CHOOSE f : It(f)
<1>3. It(start)
  <2> HIDE DEF h, It
  <2> QED BY <1>2
<1>4. StartOf(b) = start[b - 1]
  BY DEF StartOf
<1> DEFINE bad == {i \in N : start[i] # h[i]}
<1>5. ASSUME bad # {} PROVE FALSE
  <2>1. bad \in SUBSET Nat
    OBVIOUS
  <2>2. PICK i \in bad : \A j \in bad : i <= j
    <3> HIDE DEF bad
    <3> QED BY <2>1, <1>5, LeastOf
  <2>3. i \in N /\ start[i] # h[i]
    OBVIOUS
  <2> HIDE DEF start, h
  <2>4. start[i] = IF i = 0 THEN 0 ELSE start[i - 1] + arch.blocks[i].size
    BY <1>3, <2>3
  <2>5. h[i] = IF i = 0 THEN 0 ELSE h[i - 1] + arch.blocks[i].size
    BY <1>2, <2>3
  <2>6. i # 0
    BY <2>3, <2>4, <2>5
  <2>7. i - 1 \in N /\ i - 1 \notin bad
    <3>1. i - 1 \in N /\ i - 1 < i /\ i \in Nat
      BY <1>1, <2>3, <2>6
    <3> HIDE DEF bad
    <3> QED BY <3>1, <2>2
  <2>8. start[i - 1] = h[i - 1]
    BY <2>7
  <2> QED BY <2>3, <2>4, <2>5, <2>6, <2>8
<1>6. b - 1 \in N /\ (b - 1) + 1 = b
  BY <1>1
<1>7. start[b - 1] = h[b - 1]
  BY <1>5, <1>6
<1>8. h[b - 1] = at[b]
  BY <1>6
<1> QED BY <1>4, <1>7, <1>8

LEMMA MatchesCounted ==
  ASSUME arch \in Archive, NEW at, NEW from, NEW kept, NEW stat, Makes(arch, at, from, kept, stat),
         NEW b \in DOMAIN arch.blocks
  PROVE  PendingFrom(b) = {Undecorated(m) : m \in {n \in MatchesOf(arch, from) : n.home = b}}
<1> DEFINE recs == arch.blocks[b].recs
           N == 0 .. Len(recs)
           It(f) == f = [i \in N |-> IF i = 0 THEN StartOf(b) ELSE f[i - 1] + recs[i].lit]
<1>1. /\ Len(recs) \in Nat /\ DOMAIN recs = 1 .. Len(recs)
  BY BlocksOf
<1>2. /\ from[b] \in [N -> Nat] /\ from[b][0] = StartOf(b)
      /\ \A k \in 1 .. Len(recs) : from[b][k] = from[b][k - 1] + recs[k].lit
  BY StartsCounted DEF Makes, SourcesAddUp
<1> DEFINE h == from[b]
<1>3. It(h)
  <2>1. ASSUME NEW i \in N PROVE h[i] = IF i = 0 THEN StartOf(b) ELSE h[i - 1] + recs[i].lit
    <3>1. CASE i = 0
      BY <1>2, <3>1
    <3>2. CASE i # 0
      <4>1. i \in 1 .. Len(recs)
        BY <1>1, <3>2
      <4> QED BY <1>2, <3>2, <4>1
    <3> QED BY <3>1, <3>2
  <2>2. h = [i \in N |-> h[i]]
    BY <1>2
  <2> HIDE DEF h
  <2> QED BY <2>1, <2>2
<1> DEFINE pos == CHOOSE f : It(f)
<1>4. It(pos)
  <2> HIDE DEF h, It
  <2> QED BY <1>3
<1> DEFINE bad == {i \in N : pos[i] # h[i]}
<1>5. ASSUME bad # {} PROVE FALSE
  <2>1. bad \in SUBSET Nat
    OBVIOUS
  <2>2. PICK i \in bad : \A j \in bad : i <= j
    <3> HIDE DEF bad
    <3> QED BY <2>1, <1>5, LeastOf
  <2>3. i \in N /\ pos[i] # h[i]
    OBVIOUS
  <2> HIDE DEF pos, h
  <2>4. pos[i] = IF i = 0 THEN StartOf(b) ELSE pos[i - 1] + recs[i].lit
    BY <1>4, <2>3
  <2>5. h[i] = IF i = 0 THEN StartOf(b) ELSE h[i - 1] + recs[i].lit
    BY <1>3, <2>3
  <2>6. i # 0
    BY <2>3, <2>4, <2>5
  <2>7. i - 1 \in N /\ i - 1 \notin bad
    <3>1. i - 1 \in N /\ i - 1 < i /\ i \in Nat
      BY <1>1, <2>3, <2>6
    <3> HIDE DEF bad
    <3> QED BY <3>1, <2>2
  <2>8. pos[i - 1] = h[i - 1]
    BY <2>7
  <2> QED BY <2>3, <2>4, <2>5, <2>6, <2>8
<1>6. PendingFrom(b) = {[src |-> pos[i], dest |-> pos[i] + recs[i].off, len |-> recs[i].len] : i \in DOMAIN recs}
  BY DEF PendingFrom
<1>7. \A i \in DOMAIN recs : pos[i] = from[b][i]
  <2> HIDE DEF pos, recs
  <2>1. \A i \in N : pos[i] = from[b][i]
    BY <1>5
  <2> QED BY <1>1, <2>1
<1> DEFINE M(i) == [home |-> b, nr |-> i, src |-> from[b][i],
                    dest |-> from[b][i] + recs[i].off, len |-> recs[i].len]
<1>8. \A n : n \in MatchesOf(arch, from) /\ n.home = b <=> \E i \in DOMAIN recs : n = M(i)
  BY DEF MatchesOf
<1>9. \A i : Undecorated(M(i)) = [src |-> from[b][i], dest |-> from[b][i] + recs[i].off, len |-> recs[i].len]
  BY DEF Undecorated
<1> HIDE DEF pos, recs, M
<1>10. PendingFrom(b) = {Undecorated(M(i)) : i \in DOMAIN recs}
  BY <1>6, <1>7, <1>9
<1> QED BY <1>8, <1>10

LEMMA AllConserved ==
  ASSUME TypeOK, SlotInv, Prefixed, IsFiniteSet(DOMAIN heap),
         NEW at, NEW from, NEW kept, NEW stat, Rebuilt(at, from, kept, stat), pc = "block"
  PROVE  PendingConserved
<1>1. /\ arch \in Archive /\ Makes(arch, at, from, kept, stat) /\ ~ Stopping /\ Between
      /\ HeldRight(at, from) /\ NoneLost(at, from) /\ HeldOnce /\ Descending
      /\ blockStart = at[block + 1] /\ Len(sink) = blockStart
  BY DEF TypeOK, ReadOK, Rebuilt, Stopping, Between, Placed
<1>2. Holding = Held
  BY HeldNow
<1>3. block \in Nat /\ block <= Len(arch.blocks) /\ blockStart \in Nat /\ sink \in Seq(Bytes)
  BY DEF TypeOK, ReadOK, BuildOK
<1>4. /\ Len(arch.blocks) \in Nat /\ DOMAIN arch.blocks = 1 .. Len(arch.blocks)
      /\ arch.file \in Seq(Bytes) /\ blockStart <= Len(arch.file)
  BY <1>1, <1>3, BlocksOf, PlaceNow
<1>5. \A m \in MatchesOf(arch, from) : Owing(m, at) <=> m.home <= block /\ m.dest >= blockStart
  <2> TAKE m \in MatchesOf(arch, from)
  <2>1. Reached = blockStart
    BY <1>1 DEF Reached
  <2>2. pc # "validate" /\ ~ Filling /\ ~ Storing /\ pc # "verify"
    BY DEF Filling, Storing
  <2> QED BY <2>1, <2>2 DEF Owing, Taken
<1>6. UNION {PendingFrom(b) : b \in 1 .. block}
        = {Undecorated(m) : m \in {n \in MatchesOf(arch, from) : n.home <= block}}
  <2>1. \A b \in 1 .. block : PendingFrom(b) = {Undecorated(m) : m \in {n \in MatchesOf(arch, from) : n.home = b}}
    <3> TAKE b \in 1 .. block
    <3>1. b \in DOMAIN arch.blocks
      BY <1>3, <1>4
    <3> QED BY <1>1, <3>1, MatchesCounted
  <2>2. \A n \in MatchesOf(arch, from) : n.home <= block <=> n.home \in 1 .. block
    <3> TAKE n \in MatchesOf(arch, from)
    <3>1. n.home \in 1 .. Len(arch.blocks)
      BY <1>1, MatchOf
    <3> QED BY <1>3, <1>4, <3>1
  <2> QED BY <2>1, <2>2
<1>7. \A m : Undecorated(m).dest = m.dest
  BY DEF Undecorated
<1>8. \A e, m : Stands(e, m, at) => Undecorated(e) = Undecorated(m)
  BY DEF Undecorated, Stands
<1>9. \A m, n \in MatchesOf(arch, from) : m.dest = n.dest => m = n
  BY <1>1, MatchesApart
<1>10. \A e \in Held : \E m \in MatchesOf(arch, from) : Owing(m, at) /\ Stands(e, m, at)
  BY <1>1, <1>2 DEF HeldRight
<1>11. \A m \in MatchesOf(arch, from) : Owing(m, at) => \E e \in Held : Stands(e, m, at)
  <2> TAKE m \in MatchesOf(arch, from)
  <2> HAVE Owing(m, at)
  <2>1. PICK e \in Held : e.dest = m.dest
    BY <1>1, <1>2 DEF NoneLost
  <2>2. PICK n \in MatchesOf(arch, from) : Stands(e, n, at)
    BY <1>10
  <2>3. n.dest = m.dest
    BY <2>1, <2>2 DEF Stands
  <2> QED BY <1>9, <2>2, <2>3
<1>12. {Undecorated(e) : e \in Held}
         = {m \in UNION {PendingFrom(b) : b \in 1 .. block} : m.dest >= blockStart}
  <2> DEFINE Due1 == {n \in MatchesOf(arch, from) : n.home <= block /\ n.dest >= blockStart}
  <2>1. {Undecorated(e) : e \in Held} = {Undecorated(m) : m \in Due1}
    <3>1. \A e \in Held : \E m \in Due1 : Undecorated(e) = Undecorated(m)
      BY <1>5, <1>8, <1>10
    <3>2. \A m \in Due1 : \E e \in Held : Undecorated(e) = Undecorated(m)
      BY <1>5, <1>8, <1>11
    <3> HIDE DEF Due1
    <3> QED BY <3>1, <3>2
  <2>2. {m \in {Undecorated(k) : k \in {n \in MatchesOf(arch, from) : n.home <= block}} : m.dest >= blockStart}
          = {Undecorated(m) : m \in Due1}
    BY <1>7
  <2> QED BY <1>6, <2>1, <2>2
<1>13. ASSUME NEW e \in Held, e.data # Unsaved PROVE e.data = SubSeq(sink, e.src + 1, e.src + e.len)
  <2>1. PICK m \in MatchesOf(arch, from) : Owing(m, at) /\ Stands(e, m, at)
    BY <1>10
  <2>2. e.src = m.src /\ e.len = m.len /\ e.data = Part(arch.file, m.src, m.len)
    BY <1>13, <2>1 DEF Stands
  <2>3. /\ m.home \in 1 .. Len(arch.blocks) /\ m.src \in Nat /\ m.len \in Nat \ {0}
        /\ m.src + m.len <= at[m.home + 1]
    BY <1>1, MatchOf
  <2>4. at[m.home + 1] <= at[block + 1]
    <3>1. m.home + 1 \in 1 .. Len(arch.blocks) + 1 /\ block + 1 \in (m.home + 1) .. Len(arch.blocks) + 1
      BY <1>3, <1>4, <1>5, <2>1, <2>3
    <3> QED BY <1>1, <3>1, StartsRise
  <2>5. m.src + m.len <= blockStart
    <3>1. at[m.home + 1] \in Nat
      BY <1>1, <1>4, <2>3, BlocksOf
    <3> QED BY <1>1, <1>3, <2>3, <2>4, <3>1
  <2> DEFINE s == m.src
             l == m.len
  <2>6. sink = SubSeq(arch.file, 1, blockStart)
    BY <1>1 DEF Prefixed
  <2>7. \A i \in 1 .. blockStart : sink[i] = arch.file[i]
    BY <1>3, <1>4, <2>6
  <2> HIDE DEF s, l
  <2>8. s \in Nat /\ l \in Nat \ {0} /\ s + l <= blockStart
    BY <2>3, <2>5 DEF s, l
  <2>9. \A i \in 1 .. l : Part(arch.file, s, l)[i] = arch.file[s + i]
    <3> TAKE i \in 1 .. l
    <3>1. s + i \in 1 .. Len(arch.file)
      BY <1>3, <1>4, <2>8
    <3>2. ByteAt(arch.file, s + i) = arch.file[s + i]
      BY <3>1 DEF ByteAt
    <3> QED BY <3>2, <2>8, <1>4, PartAt
  <2>10. Part(arch.file, s, l) \in Seq(Bytes) /\ Len(Part(arch.file, s, l)) = l
    BY <1>4, <2>8, PartBytes
  <2>11. SubSeq(sink, s + 1, s + l) \in Seq(Bytes) /\ Len(SubSeq(sink, s + 1, s + l)) = l
    BY <1>1, <1>3, <2>8
  <2>12. \A i \in 1 .. l : SubSeq(sink, s + 1, s + l)[i] = sink[s + i]
    BY <1>1, <1>3, <2>8
  <2>13. Part(arch.file, s, l) = SubSeq(sink, s + 1, s + l)
    <3>1. \A i \in 1 .. l : s + i \in 1 .. blockStart
      BY <1>3, <2>8
    <3>2. \A i \in 1 .. l : Part(arch.file, s, l)[i] = SubSeq(sink, s + 1, s + l)[i]
      BY <3>1, <2>7, <2>9, <2>12
    <3> DEFINE x == Part(arch.file, s, l)
               y == SubSeq(sink, s + 1, s + l)
    <3> HIDE DEF x, y
    <3>3. x \in Seq(Bytes) /\ y \in Seq(Bytes) /\ Len(x) = l /\ Len(y) = l /\ \A i \in 1 .. l : x[i] = y[i]
      BY <3>2, <2>10, <2>11 DEF x, y
    <3>4. x = y
      BY <3>3
    <3> QED BY <3>4 DEF x, y
  <2> QED BY <2>2, <2>13 DEF s, l
<1>14. Cardinality(DOMAIN heap \ Marks) + SumFunction([s \in MarkedSlots |-> Len(spill[s])])
         = Cardinality(Held)
  BY <1>1, HeldCounted
<1> QED BY <1>12, <1>13, <1>14 DEF PendingConserved

(* Between two blocks of an undamaged archive the decoder holds exactly    *)
(* what the blocks read so far still owe, each match once and with its     *)
(* bytes, however often it was evicted and restored.                       *)
THEOREM NothingLost ==
  ASSUME IntactArchives
  PROVE  Spec => []PendingConserved
<1>1. IntactInv /\ Accounted /\ [Next]_vars => Accounted'
  BY AccountedOn DEF IntactInv, Rebuilding
<1>2. IntactInv /\ Accounted => PendingConserved
  <2> SUFFICES ASSUME IntactInv, Accounted PROVE PendingConserved
    OBVIOUS
  <2>1. CASE pc = "block"
    BY <2>1, AllConserved DEF IntactInv, Rebuilding, Accounted
  <2>2. CASE pc # "block"
    BY <2>2 DEF PendingConserved
  <2> QED BY <2>1, <2>2
<1> QED BY <1>1, <1>2, AlwaysRebuilding, AccountedFirst, PTL DEF Spec
=============================================================================

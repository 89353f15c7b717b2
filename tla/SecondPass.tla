----------------------------- MODULE SecondPass -----------------------------
(***************************************************************************)
(* The second compression pass of the v3, v4 and v5 formats.               *)
(*                                                                         *)
(* The first pass leaves, for every block, the matches that END there, in  *)
(* the order of their destinations.  This pass gathers them, sorts them by *)
(* source, and gives each block the matches that START in it, cut to the   *)
(* block.  A match whose source crosses a boundary is due in two blocks,   *)
(* so after each block the scan goes back: to the last match it found to   *)
(* be wholly behind.                                                       *)
(*                                                                         *)
(* The program is sequential; an action is one iteration of a loop.        *)
(***************************************************************************)
EXTENDS LzFormat

CONSTANT FirstPasses   \* what the first pass may have left

(* The matches of a block: in order of destination, apart, none crossing   *)
(* the end of the block, each copied from before.                          *)
FirstPass(f) ==
  \A b \in Blocks : \A k \in DOMAIN f[b] :
    /\ f[b][k].src < f[b][k].dest
    /\ BlockStart(b) <= f[b][k].dest
    /\ f[b][k].dest + f[b][k].len <= BlockEnd(b)
    /\ \A j \in DOMAIN f[b] : j < k => f[b][j].dest + f[b][j].len <= f[b][k].dest

ASSUME FirstPassAssumption ==
  \A f \in FirstPasses : f \in [Blocks -> Seq(Match)] /\ FirstPass(f)

VARIABLES
  first,     \* the lists of the first pass
  pc,        \* the loop the pass is in
  at,        \* record cursor in a list of the first pass
  bi,        \* blocks finished
  matches,   \* the matches of every block
  i,         \* the scan's cursor in matches
  savedI,    \* where the scan of the next block starts
  blockPos,  \* where the next literal run or source distance starts
  stat,      \* the list of the block being scanned
  scanned,   \* history: the same records, with their positions in the file
  inPos,     \* where the input is, when literals are copied
  lits,      \* the literals copied
  out        \* the blocks emitted

scanVars == <<i, savedI, blockPos, stat, scanned>>
copyVars == <<inPos, lits>>
vars == <<first, pc, at, bi, matches, scanVars, copyVars, out>>

block == bi + 1
Start == BlockStart(block)
EndPos == BlockEnd(block)

-----------------------------------------------------------------------------
(* Where the record before the k-th of the block ends. *)
Before(k) ==
  IF k = 1 THEN Start ELSE first[block][k - 1].dest + first[block][k - 1].len

(* A record of the first pass: lit is the literal run before the match and *)
(* off the distance back from its destination.                             *)
FirstRecord(k) ==
  LET m == first[block][k]
  IN  [lit |-> m.dest - Before(k), off |-> m.dest - m.src, len |-> m.len]

Init ==
  /\ first \in FirstPasses
  /\ pc = "gather" /\ at = 1 /\ bi = 0 /\ blockPos = 0
  /\ matches = <<>> /\ i = 1 /\ savedI = 1
  /\ stat = <<>> /\ scanned = <<>>
  /\ inPos = 0 /\ lits = <<>> /\ out = <<>>

(* 1. Decode the lists, block after block. *)
GatherRecord ==
  /\ pc = "gather" /\ bi < NumBlocks /\ at <= Len(first[block])
  /\ LET r == FirstRecord(at)
         dest == blockPos + r.lit
     IN  /\ matches' = Append(matches, [src |-> dest - r.off, dest |-> dest, len |-> r.len])
         /\ blockPos' = dest + r.len
  /\ at' = at + 1
  /\ UNCHANGED <<first, pc, bi, i, savedI, stat, scanned, copyVars, out>>

GatherNext ==
  /\ pc = "gather" /\ bi < NumBlocks /\ at > Len(first[block])
  /\ bi' = bi + 1 /\ at' = 1 /\ blockPos' = EndPos
  /\ UNCHANGED <<first, pc, matches, i, savedI, stat, scanned, copyVars, out>>

(* 2. Sort by source.  The sort is not stable: equal sources come in an    *)
(* order that depends on all the others, here in any.                      *)
Rearranges(p) ==
  /\ \A j, k \in DOMAIN matches : j # k => p[j] # p[k]
  /\ \A k \in DOMAIN matches : \E j \in DOMAIN matches : p[j] = k

SortBySrc ==
  /\ pc = "gather" /\ bi = NumBlocks
  /\ \E p \in [DOMAIN matches -> DOMAIN matches] :
       /\ Rearranges(p)
       /\ \A j, k \in DOMAIN matches : j < k => matches[p[j]].src <= matches[p[k]].src
       /\ matches' = [k \in 1 .. Len(matches) |-> matches[p[k]]]
  /\ pc' = "block" /\ bi' = 0
  /\ UNCHANGED <<first, at, scanVars, copyVars, out>>

(* 3. One block after the other. *)
BeginBlock ==
  /\ pc = "block" /\ bi < NumBlocks
  /\ stat' = <<>> /\ scanned' = <<>>
  /\ blockPos' = Start
  /\ savedI' = i
  /\ pc' = "scan"
  /\ UNCHANGED <<first, at, bi, matches, i, copyVars, out>>

Reached == i <= Len(matches) /\ matches[i].src < EndPos
Behind(m) == m.src + m.len <= Start

PassOver ==
  /\ pc = "scan" /\ Reached /\ Behind(matches[i])
  /\ savedI' = i
  /\ i' = i + 1
  /\ UNCHANGED <<first, pc, at, bi, matches, blockPos, stat, scanned, copyVars, out>>

(* The part of m in the block. *)
Cut(m) ==
  LET src == IF m.src > Start THEN m.src ELSE Start
      rest == m.len - (src - m.src)
  IN  [src |-> src, dest |-> src + (m.dest - m.src),
       len |-> IF EndPos - src < rest THEN EndPos - src ELSE rest]

\* Mutant: distances are taken from the end of the source.
EmitMatchFromEnd ==
  /\ pc = "scan" /\ Reached /\ ~ Behind(matches[i])
  /\ LET c == Cut(matches[i]) IN
       /\ stat' = Append(stat, [lit |-> c.src - blockPos, off |-> c.dest - c.src, len |-> c.len])
       /\ scanned' = Append(scanned, c)
       /\ blockPos' = c.src + c.len
  /\ i' = i + 1
  /\ UNCHANGED <<first, pc, at, bi, matches, savedI, copyVars, out>>

\* Mutant: the distance to the destination is taken before the cut.
EmitMatchUncut ==
  /\ pc = "scan" /\ Reached /\ ~ Behind(matches[i])
  /\ LET c == Cut(matches[i]) IN
       /\ stat' = Append(stat, [lit |-> c.src - blockPos, off |-> c.dest - matches[i].src,
                                len |-> c.len])
       /\ scanned' = Append(scanned, c)
       /\ blockPos' = c.src
  /\ i' = i + 1
  /\ UNCHANGED <<first, pc, at, bi, matches, savedI, copyVars, out>>

EmitMatch ==
  /\ pc = "scan" /\ Reached /\ ~ Behind(matches[i])
  /\ LET c == Cut(matches[i]) IN
       /\ stat' = Append(stat, [lit |-> c.src - blockPos, off |-> c.dest - c.src, len |-> c.len])
       /\ scanned' = Append(scanned, c)
       /\ blockPos' = c.src
  /\ i' = i + 1
  /\ UNCHANGED <<first, pc, at, bi, matches, savedI, copyVars, out>>

\* Mutant: the next block's scan starts where this one's stopped.
EndScanGoesOn ==
  /\ pc = "scan" /\ ~ Reached
  /\ pc' = "copy"
  /\ at' = 1 /\ inPos' = Start /\ lits' = <<>>
  /\ UNCHANGED <<first, bi, matches, scanVars, out>>

EndScan ==
  /\ pc = "scan" /\ ~ Reached
  /\ i' = savedI
  /\ pc' = "copy"
  /\ at' = 1 /\ inPos' = Start /\ lits' = <<>>
  /\ UNCHANGED <<first, bi, matches, savedI, blockPos, stat, scanned, out>>

(* The block is read again, and its literals are what the records of the   *)
(* FIRST pass leave uncovered: the run before each, and the tail.  A byte   *)
(* of the input is its position.                                           *)
Input(from, n) == [k \in 1 .. n |-> from + k - 1]

CopyRun ==
  /\ pc = "copy" /\ at <= Len(first[block])
  /\ LET r == FirstRecord(at) IN
       /\ lits' = lits \o Input(inPos, r.lit)
       /\ inPos' = inPos + r.lit + r.len
  /\ at' = at + 1
  /\ UNCHANGED <<first, pc, bi, matches, scanVars, out>>

\* Mutant: the literals after the last match are left out.
EmitBlockNoTail ==
  /\ pc = "copy" /\ at > Len(first[block])
  /\ out' = Append(out, [size |-> EndPos - Start, lits |-> lits, recs |-> stat,
                         frags |-> scanned])
  /\ bi' = bi + 1
  /\ pc' = "block"
  /\ UNCHANGED <<first, at, matches, scanVars, copyVars>>

EmitBlock ==
  /\ pc = "copy" /\ at > Len(first[block])
  /\ out' = Append(out, [size |-> EndPos - Start, lits |-> lits \o Input(inPos, EndPos - inPos),
                         recs |-> stat, frags |-> scanned])
  /\ bi' = bi + 1
  /\ pc' = "block"
  /\ UNCHANGED <<first, at, matches, scanVars, copyVars>>

WriteFooter ==
  /\ pc = "block" /\ bi = NumBlocks
  /\ pc' = "done"
  /\ UNCHANGED <<first, at, bi, matches, scanVars, copyVars, out>>

Stopped == pc = "done" /\ UNCHANGED vars

Next ==
  \/ GatherRecord \/ GatherNext \/ SortBySrc
  \/ BeginBlock \/ PassOver \/ EmitMatch \/ EndScan
  \/ CopyRun \/ EmitBlock \/ WriteFooter \/ Stopped

Spec == Init /\ [][Next]_vars

-----------------------------------------------------------------------------
Placed == [src: Nat, dest: Nat, len: Nat]
Coded == [lit: Nat, off: Nat, len: Nat]
Emitted == [size: Nat, lits: Seq(Nat), recs: Seq(Coded), frags: Seq(Placed)]

TypeOK ==
  /\ first \in FirstPasses
  /\ pc \in {"gather", "block", "scan", "copy", "done"}
  /\ at \in Nat \ {0} /\ bi \in 0 .. NumBlocks /\ blockPos \in Nat
  /\ matches \in Seq(Placed)
  /\ i \in 1 .. Len(matches) + 1 /\ savedI \in 1 .. Len(matches) + 1
  /\ stat \in Seq(Coded) /\ scanned \in Seq(Placed)
  /\ inPos \in Nat /\ lits \in Seq(Nat) /\ out \in Seq(Emitted)

Elements(s) == {s[k] : k \in DOMAIN s}

Found == UNION {Elements(first[b]) : b \in Blocks}

(* Every block that was emitted carries exactly the pieces of the matches  *)
(* whose source lies in it, each once: going back only to the last match   *)
(* behind loses none that crosses into a later block, and passing over the *)
(* same match in several blocks repeats none.                              *)
ListsExact ==
  \A b \in DOMAIN out :
    /\ Elements(out[b].frags) = Fragments(Found, b)
    /\ \A j, k \in DOMAIN out[b].frags : j # k => out[b].frags[j] # out[b].frags[k]

AddsUp(recs, frags, b) ==
  \A k \in DOMAIN recs :
    LET from == IF k = 1 THEN BlockStart(b) ELSE frags[k - 1].src
    IN  /\ from + recs[k].lit = frags[k].src
        /\ frags[k].src + recs[k].off = frags[k].dest
        /\ recs[k].len = frags[k].len

(* A decoder, which adds up distances between sources from the start of    *)
(* the block, comes to the same places: no distance is taken from a        *)
(* position further on, where it would wrap.                               *)
DistancesAddUp ==
  \A b \in DOMAIN out :
    Len(out[b].recs) = Len(out[b].frags) /\ AddsUp(out[b].recs, out[b].frags, b)

(* The literals a finished archive carries in a block are the bytes no     *)
(* match reproduces, in their order.                                       *)
LiteralsExact ==
  pc = "done" =>
    \A b \in DOMAIN out : out[b].lits = LiteralsOf(Found, [p \in Positions |-> p], b)
=============================================================================

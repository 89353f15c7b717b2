------------------------------ MODULE InMemory ------------------------------
(***************************************************************************)
(* The in-memory pass (-m0, and -d before -m3..-m5): each window of the    *)
(* block is looked up by a hash of its bytes among the windows before it,  *)
(* and what is found is extended, in the ring, as far as the bytes agree.  *)
(*                                                                         *)
(* Positions are positions in the ring: one that was stored in an earlier  *)
(* turn now holds a later byte, and distances go around.                   *)
(***************************************************************************)
EXTENDS BlockRing

CONSTANTS
  WindowHash(_),  \* hash of a window
  HashSlots       \* slots of the table it is looked up in

ASSUME HashAssumption ==
  /\ HashSlots \in Nat \ {0}
  /\ \A f \in Files : \A p, n \in 0 .. Len(f) : WindowHash(Part(f, p, n)) \in Nat

VARIABLES
  hasharr,   \* where a window of each hash was last; 0 when nowhere
  windows    \* windows of the block still to be looked up

inmemVars == <<aux, hasharr, windows>>

-----------------------------------------------------------------------------
(* For each chunk but the last, the window with the greatest hash of those *)
(* that start in it.                                                       *)
Prepare(start, size) ==
  LET c == opt.dictChunk
      hashAt(p) == WindowHash([k \in 1 .. c |-> ByteAt(ring, start + p + k)])
      peak(b) == CHOOSE at \in 0 .. c - 1 :
        \A other \in 0 .. c - 1 :
          LET h == hashAt(b * c + at)  g == hashAt(b * c + other)
          IN  h > g \/ (h = g /\ at <= other)
  IN  [b \in 1 .. Most(size \div c - 1, 0) |->
         [at |-> peak(b - 1), hash |-> hashAt((b - 1) * c + peak(b - 1)) % HashSlots]]

BeginInmem ==
  /\ pc = "inmem"
  /\ windows' = IF opt.dict = 0 THEN <<>> ELSE Prepare(bufOffset, filled)
  /\ i' = bufOffset /\ lastMatchEnd' = bufOffset
  /\ literalBytes' = filled
  /\ aux' = <<>> /\ stat' = <<>>
  /\ pc' = "dict"
  /\ UNCHANGED <<inputVars, ringVars, hasharr>>

-----------------------------------------------------------------------------
size == RingSize(opt)
blockEnd == bufOffset + filled
window == Head(windows)
at == i + window.at            \* the window looked up
found == hasharr[window.hash]  \* the one before it

Distance == IF found < at THEN at - found ELSE size - found + at

dataStart == (bufOffset + size - opt.dict) % size

(* How far a match may begin before the window and end after it: neither   *)
(* place may leave the ring, nor the earlier one the dictionary.           *)
LowBound ==
  IF found < dataStart THEN at - found ELSE Most(at - (found - dataStart), 0)
HighBound == IF found < at THEN size ELSE size - found + at

MatchStart ==
  LET bound == Most(lastMatchEnd, LowBound)
      agrees(q) == \A p \in q .. at - 1 : ByteAt(ring, found - (at - p) + 1) = ByteAt(ring, p + 1)
  IN  IF at <= bound THEN at
      ELSE CHOOSE q \in bound .. at : agrees(q) /\ (q > bound => ~ agrees(q - 1))

MatchEnd ==
  LET bound == Least(blockEnd, HighBound)
      agrees(q) == \A p \in at .. q - 1 : ByteAt(ring, found + (p - at) + 1) = ByteAt(ring, p + 1)
  IN  CHOOSE q \in at .. bound : agrees(q) /\ (q < bound => ~ agrees(q + 1))

\* Mutant: the earlier window may be anywhere in the ring.
FoundAnywhere ==
  at >= lastMatchEnd /\ found # 0 /\ MatchEnd - MatchStart >= opt.dictMatch

Found ==
  at >= lastMatchEnd /\ found # 0 /\ Distance <= opt.dict
    /\ MatchEnd - MatchStart >= opt.dictMatch

(* Every window is stored, matched or not. *)
TakeWindow ==
  /\ pc = "dict" /\ windows # <<>> /\ Found
  /\ aux' = Append(aux, Encoded(FALSE, opt.base, MatchStart - lastMatchEnd, Distance,
                                MatchEnd - MatchStart))
  /\ literalBytes' = literalBytes - (MatchEnd - MatchStart)
  /\ lastMatchEnd' = MatchEnd
  /\ hasharr' = [hasharr EXCEPT ![window.hash] = at]
  /\ i' = i + opt.dictChunk
  /\ windows' = Tail(windows)
  /\ UNCHANGED <<pc, inputVars, ringVars, stat>>

PassWindow ==
  /\ pc = "dict" /\ windows # <<>> /\ ~ Found
  /\ hasharr' = [hasharr EXCEPT ![window.hash] = at]
  /\ i' = i + opt.dictChunk
  /\ windows' = Tail(windows)
  /\ UNCHANGED <<pc, inputVars, ringVars, stat, literalBytes, lastMatchEnd, aux>>
=============================================================================

------------------------------ MODULE Buffers ------------------------------
(* The buffers and the output file both decoders build blocks in.          *)
EXTENDS Integers, Sequences

Bytes == Nat

ByteAt(s, i) == IF i \in DOMAIN s THEN s[i] ELSE 0

(* Bytes [from, from + len) of a buffer or a file. *)
Part(s, from, len) == [i \in 1 .. len |-> ByteAt(s, from + i)]

(* A forward byte-by-byte copy inside the block; when the match overlaps   *)
(* itself, the bytes between source and destination repeat.                *)
LzCopy(buf, from, len) ==
  [i \in 1 .. len |-> ByteAt(buf, from + 1 + ((i - 1) % (Len(buf) - from)))]

(* bytes written at position pos of a file. *)
WriteAt(f, pos, bytes) ==
  LET end == IF pos + Len(bytes) > Len(f) THEN pos + Len(bytes) ELSE Len(f)
  IN  [i \in 1 .. end |-> IF pos < i /\ i <= pos + Len(bytes) THEN bytes[i - pos]
                          ELSE ByteAt(f, i)]

-----------------------------------------------------------------------------
(* An archive and the file it was made from: its blocks are the pieces of  *)
(* the file between the positions at, and each digest is that of its piece *)
(* or, if it was damaged, of no block of the size the archive gives.       *)
PiecesAt(at, a) ==
  /\ at \in [1 .. Len(a.blocks) + 1 -> 0 .. Len(a.file)] /\ at[1] = 0
  /\ \A b \in DOMAIN a.blocks :
       /\ at[b] <= at[b + 1]
       /\ \/ a.blocks[b].digest = SubSeq(a.file, at[b] + 1, at[b + 1])
          \/ Len(a.blocks[b].digest) # a.blocks[b].size

AllPieces(at, a) == at[Len(a.blocks) + 1] = Len(a.file)
=============================================================================

----------------------------- MODULE MCDupRun ------------------------------
(* DupRun on small files, some of them archives themselves.                *)
EXTENDS DupRun

CONSTANT BlockSize

(* A checksum that tells all the words of this model apart. *)
Polynomial(ws) == 1000 + FoldLeft(LAMBDA h, w : (h * 131 + w + 1) % 99991, 7, ws)

EvenSum(window) == Sum(window) % 2 = 0

(* A block like the one before is a copy of it, and a block of one byte    *)
(* over and over a copy of that byte; the rest is literals.                *)
BlocksOf(f) ==
  LET count == (Len(f) + BlockSize - 1) \div BlockSize
      cells(k) == SubSeq(f, (k - 1) * BlockSize + 1,
                         IF k * BlockSize < Len(f) THEN k * BlockSize ELSE Len(f))
      again(k) == k \in 2 .. count /\ cells(k) = cells(k - 1)
      run(k) == ~ again(k) /\ Len(cells(k)) > 1 /\ \A i \in DOMAIN cells(k) : cells(k)[i] = cells(k)[1]
      one(k) == IF run(k) THEN <<[lit |-> 0, dist |-> 1, len |-> Len(cells(k)) - 1]>> ELSE << >>
      next(k) == IF again(k + 1) THEN <<[lit |-> 0, dist |-> BlockSize, len |-> Len(cells(k))]>>
                 ELSE << >>
  IN  [k \in 1 .. count |->
        [lits |-> IF again(k) THEN << >> ELSE IF run(k) THEN <<cells(k)[1]>> ELSE cells(k),
         orig |-> Len(cells(k)), matches |-> one(k) \o next(k)]]

(* The files: chunks that come again, zeros, repeats, and archives.        *)
Twice == <<1, 2, 3, 1, 2, 3, 1, 2>>
Padded == <<1, 0, 1, 1, 0, 0, 1>>
Zeros == <<0, 0, 0, 0, 0, 0, 0, 0, 0>>
Mixed == <<1, 2, 1, 1, 3, 2, 1, 2, 1, 1, 3, 2, 2, 2>>
Woven == <<1, 1, 1, 1, 2, 2, 2, 2, 1, 1, 2, 2>>

DupArchiveOf(f, v4) ==
  LET whole == EncodeWhole([gear |-> FALSE, weak |-> FALSE, buffer |-> 0], f)
      m == MetaOfWhole(whole)
      blocks == BlocksOf(BodyOfWhole(whole))
  IN  (IF v4 THEN IndexArchive(blocks) ELSE FutureArchive(blocks)) \o m \o <<Len(m), OdupMagic>>

(* Trailers with nothing whole in front of them: cut by the blocks, and in *)
(* one block, where a plain v3 archive ends in it.                         *)
Stray == <<DuprMagic, MetaVersion, 1, 1, 0, 2, 6, OdupMagic>>
Whole == [i \in 1 .. BlockSize |-> 7] \o <<DuprMagic, MetaVersion, 0, 0, 4, OdupMagic>>

Inputs == {<< >>, <<1>>, Twice, Padded, Zeros, Mixed, Woven,
           DupArchiveOf(Twice, TRUE), DupArchiveOf(Padded, FALSE), Stray, Whole}

(* Of the archives of the inputs, the footer of one ends in "ODUP". *)
Odup == Polynomial(<<V5FooterMagic, 2, 0, 0, 0>>)

Setting(container, dup, paranoid, weak, gear, buffer) ==
  [container |-> container, dup |-> dup, paranoid |-> paranoid, weak |-> weak, gear |-> gear,
   buffer |-> buffer, inmem |-> FALSE, cxx |-> container = "v3"]

Plain == {Setting(c, FALSE, FALSE, FALSE, FALSE, 0) : c \in {"v3", "v4", "v5"}}
Dup == {Setting(c, TRUE, FALSE, FALSE, FALSE, 0) : c \in {"v3", "v4", "v5"}}
Chunked == {Setting("v5", TRUE, p, w, g, b) : p \in BOOLEAN, w \in BOOLEAN, g \in BOOLEAN, b \in {0, 5}}
RefusedLines == {[Setting("v3", TRUE, FALSE, FALSE, FALSE, 0) EXCEPT !.cxx = FALSE],
                 [Setting("v5", TRUE, FALSE, FALSE, FALSE, 0) EXCEPT !.inmem = TRUE]}

Lines == Plain \cup Dup \cup Chunked \cup RefusedLines
=============================================================================

------------------------------ MODULE Encoder ------------------------------
(***************************************************************************)
(* The compressor: the driver and its match finders.  Each block is read   *)
(* (one ahead), digested, searched by the finder of the method, and        *)
(* written with its records and the literals they leave.                   *)
(***************************************************************************)
EXTENDS InMemory, FixedCompress, Cdc

VARIABLE out   \* the blocks of the archive

finderVars == <<stat, literalBytes, aux, i, lastMatchEnd, hasharr, windows,
                inserted, digests, grid, input, inAt, nextChunk, pairs,
                startarr, ptr, marks>>
vars == <<pc, inputVars, ringVars, finderVars, out>>

-----------------------------------------------------------------------------
Init ==
  /\ file \in Files
  /\ opt \in {Settled(o) : o \in {g \in Options : Accepted(g)}}
  /\ pc = "begin"
  /\ ring = [p \in 1 .. RingSize(opt) |-> 0] /\ bufOffset = 0
  /\ blockStart = 0 /\ filled = 0 /\ nextFilled = 0
  /\ stat = <<>> /\ literalBytes = 0 /\ aux = <<>> /\ i = 0 /\ lastMatchEnd = 0
  /\ hasharr = [h \in 0 .. HashSlots - 1 |-> 0] /\ windows = <<>>
  /\ inserted = {} /\ grid = <<>>
  /\ digests = [k \in 0 .. Slots - 1 |-> <<>>]
  /\ input = [start |-> 0, len |-> 0, offset |-> 0] /\ inAt = 1
  /\ nextChunk = 0 /\ pairs = {}
  /\ startarr = <<>> /\ ptr = 0 /\ marks = {}
  /\ out = <<>>

ReadFirst ==
  /\ pc = "begin"
  /\ ring' = ReadBlock(ring, 0, 0)
  /\ filled' = Span(0)
  /\ pc' = "next"
  /\ UNCHANGED <<inputVars, bufOffset, blockStart, nextFilled, finderVars, out>>

(* The block after this one, before this one is compressed. *)
ReadAhead ==
  /\ pc = "next" /\ filled > 0
  /\ ring' = ReadBlock(ring, nextOffset, blockStart + filled)
  /\ nextFilled' = Span(blockStart + filled)
  /\ stat' = <<>> /\ aux' = <<>>
  /\ pc' = IF opt.kind = "inmem" THEN "inmem" ELSE "prepare"
  /\ UNCHANGED <<inputVars, bufOffset, blockStart, filled, literalBytes, i, lastMatchEnd,
                 hasharr, windows, tableVars, scanVars, cdcVars, out>>

(* The list of the in-memory pass is the block's, or the finder's to use,  *)
(* closed by a match past the block.                                       *)
Fence == Encoded(opt.round, opt.base, filled + 1, opt.base, opt.base)

EndInmem ==
  /\ pc = "dict" /\ windows = <<>>
  /\ IF opt.kind = "inmem"
       THEN pc' = "write" /\ stat' = aux /\ UNCHANGED aux
       ELSE pc' = "first" /\ aux' = Append(aux, Fence) /\ UNCHANGED stat
  /\ UNCHANGED <<inputVars, ringVars, literalBytes, lastMatchEnd, i, hasharr, windows,
                 tableVars, scanVars, cdcVars, out>>

-----------------------------------------------------------------------------
(* Where each record of a list leads, and the literals before it; the      *)
(* writer reads its own list again for those.                              *)
Ends(recs) ==
  LET end[k \in 0 .. Len(recs)] ==
        IF k = 0 THEN 0
        ELSE end[k - 1] + recs[k].lit + Decoded(opt.round, opt.base, recs[k], 0).len
  IN  end

Literals(recs) ==
  LET end == Ends(recs)
      upTo[k \in 0 .. Len(recs)] ==
        IF k = 0 THEN <<>>
        ELSE upTo[k - 1] \o Part(ring, bufOffset + end[k - 1], recs[k].lit)
  IN  upTo[Len(recs)] \o Part(ring, bufOffset + end[Len(recs)], filled - end[Len(recs)])

ListFits == \A k \in 1 .. Len(stat) : Ends(stat)[k] <= filled

(* A list that runs past its block ends the run. *)
WriteBlock ==
  /\ pc = "write"
  /\ out' = IF ListFits
              THEN Append(out, [start |-> blockStart, size |-> filled, recs |-> stat,
                                literalBytes |-> literalBytes, lits |-> Literals(stat),
                                digest |-> Part(ring, bufOffset, filled)])
              ELSE out
  /\ blockStart' = blockStart + filled
  /\ bufOffset' = nextOffset
  /\ filled' = nextFilled
  /\ pc' = IF ListFits THEN "next" ELSE "failed"
  /\ UNCHANGED <<inputVars, ring, nextFilled, finderVars>>

Finish ==
  /\ pc = "next" /\ filled = 0
  /\ pc' = "done"
  /\ UNCHANGED <<inputVars, ringVars, finderVars, out>>

Find ==
  \/ (BeginInmem \/ TakeWindow \/ PassWindow) /\ UNCHANGED <<tableVars, scanVars, cdcVars, out>>
  \/ FixedNext /\ UNCHANGED <<hasharr, windows, cdcVars, out>>
  \/ CdcNext /\ UNCHANGED <<hasharr, windows, tableVars, scanVars, out>>

Stopped == pc \in {"done", "failed"} /\ UNCHANGED vars

Next ==
  \/ ReadFirst \/ ReadAhead \/ EndInmem \/ Find
  \/ WriteBlock \/ Finish \/ Stopped

Spec == Init /\ [][Next]_vars

-----------------------------------------------------------------------------
(* Besides the types: positions stay in the ring and in the block, and a   *)
(* chunk has a number the tables have a slot for, also when blocks start   *)
(* inside chunks and the scan passes the end of the last one.              *)
TypeOK ==
  /\ file \in Files
  /\ pc \in {"begin", "next", "prepare", "inmem", "dict", "first", "window", "chunk",
             "scan", "hash", "probe", "stripe", "chunks", "write", "done", "failed"}
  /\ Len(ring) = RingSize(opt) /\ bufOffset + opt.bufsize <= Len(ring)
  /\ filled \in 0 .. opt.bufsize /\ nextFilled \in 0 .. opt.bufsize
  /\ \A h \in DOMAIN hasharr : hasharr[h] \in 0 .. Len(ring) - 1
  /\ inserted \subseteq DOMAIN digests
  /\ Len(startarr) < Most(Total, 1)
  /\ literalBytes \in 0 .. opt.bufsize

(* Every record of the archive decodes to the bytes of its block: read as  *)
(* a decoder will read it, its source comes before its destination, it     *)
(* stays inside the block, and the bytes of the file are the same in both  *)
(* places.                                                                 *)
Reproduces(b) ==
  \A k \in DOMAIN b.recs :
    LET anchor == b.start + (IF k = 1 THEN 0 ELSE Ends(b.recs)[k - 1])
        m == Decoded(opt.round, opt.base, b.recs[k], anchor)
    IN  /\ 0 <= m.src /\ m.src < m.dest /\ m.dest + m.len <= b.start + b.size
        /\ Part(file, m.src, m.len) = Part(file, m.dest, m.len)

RecordsReproduce == \A n \in DOMAIN out : Reproduces(out[n])

(* A block's header counts the literals that follow it, and nothing is     *)
(* ever refused by the writer of lists and literals: no record runs past   *)
(* the block, and no match is too short to be written.                     *)
HeaderAgrees ==
  /\ \A n \in DOMAIN out : out[n].literalBytes = Len(out[n].lits)
  /\ pc # "failed"
=============================================================================

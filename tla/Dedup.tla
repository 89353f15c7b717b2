------------------------------- MODULE Dedup -------------------------------
(***************************************************************************)
(* The deduplication of -dup: the file is cut into content-defined chunks, *)
(* the first occurrence of each goes to the body, and the meta is the      *)
(* table of what stands where.  Reading back, the table is replayed over   *)
(* the body and over what has already been written.                        *)
(*                                                                         *)
(* A cell of the file is a number, a field of the meta one cell.  The two  *)
(* chunk hashes are one key, injective but for the zero padding of the     *)
(* tail, unless `weak` is set: then two chunks that fill as many words     *)
(* collide.                                                                *)
(***************************************************************************)
EXTENDS Buffers, SequencesExt

CONSTANTS
  MinChunk, MaxChunk, Avg,  \* --chunk-min, -max, -avg
  DefaultBuffer,            \* cells read at a time when no buffer size is given
  HashWord,                 \* cells the chunk hashes take at once
  Prime, HashModulus,       \* the rolling hash of the FNV chunker, modulo 2^64
  GearTest(_),              \* the Gear chunker's test of the cells since the last cut
  DuprMagic, MetaVersion    \* how a meta begins

ASSUME ChunkAssumption ==
  /\ MinChunk \in Nat \ {0} /\ MaxChunk \in Nat /\ MaxChunk >= MinChunk
  /\ Avg \in Nat \ {0} /\ DefaultBuffer \in Nat \ {0} /\ HashWord \in Nat \ {0}

VARIABLES
  pc,        \* the step the run is at
  file,      \* the file to be restored
  set,       \* the options: buffer size, chunker, paranoid, weak
  at,        \* how much of the file has been read
  chunks,    \* what is left of the current buffer, cut
  short,     \* the last read came back short
  seen,      \* the key of a chunk to the unique chunk that has it
  records,   \* the chunk table
  uniqueOff, uniqueLen, \* where the unique chunks are in the body; their lengths
  body,      \* the body file
  bodyPos,   \* its length as the encoder counts it
  cursor,    \* where its handle stands
  meta,      \* the meta: as written, then as found in the archive
  decoded,   \* the body the archive decoded to
  row, bodyAt, slots, \* the replay: the next record, the body read, the unique chunks written
  output     \* the restored file

decodeVars == <<decoded, row, bodyAt, slots, output>>
encodeVars == <<at, chunks, short, seen, records, uniqueOff, uniqueLen, body, bodyPos, cursor>>

-----------------------------------------------------------------------------
(* Chunking: the hash starts afresh after each cut and at each buffer.     *)

Unique == "unique"
Ref == "ref"
TagCell(tag) == IF tag = Unique THEN 0 ELSE 1

FnvHash(cells) == FoldLeft(LAMBDA h, c : (h * Prime + c) % HashModulus, 0, cells)

(* The cut after `window`, the cells since the last one. *)
CutAfter(gear, window) ==
  LET span == Len(window) - 1
  IN  /\ span >= MinChunk
      /\ \/ span >= MaxChunk
         \/ IF gear THEN GearTest(window) ELSE FnvHash(window) % Avg = 0

(* The chunks of one buffer; what follows the last cut is a chunk too.     *)
Split(gear, buffer) ==
  LET step(s, c) == LET w == Append(s.window, c)
                    IN  IF CutAfter(gear, w)
                          THEN [cut |-> Append(s.cut, w), window |-> << >>]
                          ELSE [s EXCEPT !.window = w]
      end == FoldLeft(step, [cut |-> << >>, window |-> << >>], buffer)
  IN  IF end.window = << >> THEN end.cut ELSE Append(end.cut, end.window)

(* Mutant: the length of the last word of the chunk is not told apart. *)
KeyUnpadded(weak, chunk) == IF weak THEN <<Len(chunk) \div HashWord>>
                            ELSE SelectSeq(chunk, LAMBDA c : c # 0)

(* Whole words, then the tail padded with zeros: the length is not mixed   *)
(* in, so a chunk and the same chunk with zeros after it share a key.      *)
Key(weak, chunk) ==
  LET words == Len(chunk) \div HashWord
  IN  IF weak THEN <<words>>
      ELSE Part(chunk, 0, (words + 1) * HashWord)

-----------------------------------------------------------------------------
(* The streaming encoder.                                                  *)

BufferSize == IF set.buffer > 0 THEN set.buffer ELSE DefaultBuffer

EncodeInit ==
  /\ at = 0 /\ chunks = << >> /\ short = FALSE
  /\ seen = << >> /\ records = << >>
  /\ uniqueOff = << >> /\ uniqueLen = << >>
  /\ body = << >> /\ bodyPos = 0 /\ cursor = 0

ReadBuffer ==
  /\ pc = "read"
  /\ LET left == Len(file) - at
         got == IF left < BufferSize THEN left ELSE BufferSize
     IN  /\ chunks' = Split(set.gear, Part(file, at, got))
         /\ at' = at + got
         /\ short' = (got < BufferSize)
         /\ pc' = IF got = 0 THEN "meta" ELSE "chunk"
  /\ UNCHANGED <<file, set, seen, records, uniqueOff, uniqueLen, body, bodyPos, cursor, meta>> /\ UNCHANGED decodeVars

ThisKey == Key(set.weak, Head(chunks))

(* Mutant: a hit of another length counts. *)
HitOfAnyLength == ThisKey \in DOMAIN seen

(* The unique chunk with this chunk's key, when one of this length has it. *)
Hit == /\ ThisKey \in DOMAIN seen
       /\ uniqueLen[seen[ThisKey] + 1] = Len(Head(chunks))

(* Mutant: --dup-paranoid compares nothing. *)
SameBytesTrusted == TRUE

(* With --dup-paranoid the body is read back and compared. *)
SameBytes ==
  set.paranoid => Part(body, uniqueOff[seen[ThisKey] + 1], Len(Head(chunks))) = Head(chunks)

(* Mutant: the handle is left where the comparison ended. *)
AfterCompareLeft == IF set.paranoid /\ Hit THEN uniqueOff[seen[ThisKey] + 1] + Len(Head(chunks))
                    ELSE cursor

(* Where the handle stands after the comparison, if there was one. *)
AfterCompare == IF set.paranoid /\ Hit THEN bodyPos ELSE cursor

TakeReference ==
  /\ pc = "chunk" /\ chunks # << >>
  /\ Hit /\ SameBytes
  /\ records' = Append(records, [tag |-> Ref, payload |-> seen[ThisKey]])
  /\ cursor' = AfterCompare
  /\ chunks' = Tail(chunks)
  /\ UNCHANGED <<pc, file, set, at, short, seen, uniqueOff, uniqueLen, body, bodyPos, meta>> /\ UNCHANGED decodeVars

(* A key seen before is taken over by the newer chunk. *)
TakeUnique ==
  /\ pc = "chunk" /\ chunks # << >>
  /\ ~ (Hit /\ SameBytes)
  /\ LET chunk == Head(chunks)
     IN  /\ seen' = [k \in DOMAIN seen \cup {ThisKey} |->
                       IF k = ThisKey THEN Len(uniqueLen) ELSE seen[k]]
         /\ records' = Append(records, [tag |-> Unique, payload |-> Len(chunk)])
         /\ uniqueOff' = IF set.paranoid THEN Append(uniqueOff, bodyPos) ELSE uniqueOff
         /\ uniqueLen' = Append(uniqueLen, Len(chunk))
         /\ body' = WriteAt(body, AfterCompare, chunk)
         /\ cursor' = AfterCompare + Len(chunk)
         /\ bodyPos' = bodyPos + Len(chunk)
  /\ chunks' = Tail(chunks)
  /\ UNCHANGED <<pc, file, set, at, short, meta>> /\ UNCHANGED decodeVars

EndBuffer ==
  /\ pc = "chunk" /\ chunks = << >>
  /\ pc' = IF short THEN "meta" ELSE "read"
  /\ UNCHANGED <<file, set, meta>> /\ UNCHANGED encodeVars /\ UNCHANGED decodeVars

MetaHeader == 4
RecordCells == 2

MetaOf(table, unique) ==
  <<DuprMagic, MetaVersion, Len(table), unique>>
    \o FlattenSeq([i \in DOMAIN table |-> <<TagCell(table[i].tag), table[i].payload>>])

WriteMeta ==
  /\ pc = "meta"
  /\ meta' = MetaOf(records, Len(uniqueLen))
  /\ pc' = "pack"
  /\ UNCHANGED <<file, set>> /\ UNCHANGED encodeVars /\ UNCHANGED decodeVars

EncodeNext == ReadBuffer \/ TakeReference \/ TakeUnique \/ EndBuffer \/ WriteMeta

-----------------------------------------------------------------------------
(* The in-memory encoder and decoder: the same format, every hit compared. *)

(* The chunks of a whole file, buffer by buffer. *)
Chunking(gear, buffer, cells) ==
  LET size == IF buffer = 0 THEN Len(cells) ELSE buffer
      whole == [k \in 1 .. (IF cells = << >> THEN 0 ELSE (Len(cells) + size - 1) \div size) |->
                  LET from == (k - 1) * size
                  IN  Split(gear, Part(cells, from,
                                       IF from + size > Len(cells) THEN Len(cells) - from ELSE size))]
  IN  FlattenSeq(whole)

EncodeWhole(options, cells) ==
  LET step(s, c) ==
        LET k == Key(options.weak, c)
        IN  IF k \in DOMAIN s.seen /\ s.unique[s.seen[k] + 1] = c
              THEN [s EXCEPT !.table = Append(@, [tag |-> Ref, payload |-> s.seen[k]])]
              ELSE [table |-> Append(s.table, [tag |-> Unique, payload |-> Len(c)]),
                    unique |-> Append(s.unique, c),
                    seen |-> [j \in DOMAIN s.seen \cup {k} |->
                                IF j = k THEN Len(s.unique) ELSE s.seen[j]]]
  IN  FoldLeft(step, [table |-> << >>, unique |-> << >>, seen |-> << >>],
               Chunking(options.gear, options.buffer, cells))

MetaOfWhole(whole) == MetaOf(whole.table, Len(whole.unique))
BodyOfWhole(whole) == FlattenSeq(whole.unique)

-----------------------------------------------------------------------------
(* Reading a meta.                                                         *)

(* The table of a meta: as many whole records as it announces, the tags    *)
(* known, no reference past the announced unique chunks.                   *)
Table(m) ==
  [i \in 1 .. m[3] |->
     [tag |-> IF m[MetaHeader + 2 * i - 1] = 0 THEN Unique ELSE Ref,
      payload |-> m[MetaHeader + 2 * i]]]

MetaParses(m) ==
  /\ Len(m) >= MetaHeader
  /\ m[1] = DuprMagic /\ m[2] = MetaVersion
  /\ m[3] <= (Len(m) - MetaHeader) \div RecordCells
  /\ m[4] <= m[3]
  /\ \A i \in 1 .. m[3] :
       /\ m[MetaHeader + 2 * i - 1] \in {0, 1}
       /\ m[MetaHeader + 2 * i - 1] = 1 => m[MetaHeader + 2 * i] < m[4]

UniquesBefore(table, i) == SelectSeq(SubSeq(table, 1, i), LAMBDA r : r.tag = Unique)

(* Mutant: a reference may point at a unique chunk still to come. *)
RefersBackAnywhere(table) == TRUE

(* Every reference is to a unique chunk already met. *)
RefersBack(table) ==
  \A i \in DOMAIN table :
    table[i].tag = Ref => table[i].payload < Len(UniquesBefore(table, i - 1))

SumOf(table) == FoldLeft(LAMBDA s, r : s + r.payload, 0, table)

(* What -i says of a meta without the body. *)
Summary(m) ==
  IF ~ MetaParses(m) THEN [ok |-> FALSE]
  ELSE LET table == Table(m)
           uniques == UniquesBefore(table, Len(table))
           lens == [i \in DOMAIN table |->
                      IF table[i].tag = Unique THEN table[i].payload
                      ELSE uniques[table[i].payload + 1].payload]
       IN  IF ~ RefersBack(table) THEN [ok |-> FALSE]
           ELSE [ok |-> TRUE, chunks |-> Len(table), unique |-> Len(uniques),
                 bodySize |-> SumOf(uniques),
                 outputSize |-> FoldLeft(LAMBDA s, n : s + n, 0, lens)]

(* The whole file from a meta and its body, both in memory. *)
DecodeWhole(m, bytes) ==
  LET table == Table(m)
      uniques == UniquesBefore(table, Len(table))
      slot(u) == Part(bytes, SumOf(SubSeq(uniques, 1, u)), uniques[u + 1].payload)
  IN  FlattenSeq([i \in DOMAIN table |->
        slot(IF table[i].tag = Ref THEN table[i].payload
             ELSE Len(UniquesBefore(table, i - 1)))])

-----------------------------------------------------------------------------
(* The streaming decoder: the records replayed in order, a reference       *)
(* copied from what is already written.                                    *)

DecodeInit == decoded = << >> /\ row = 1 /\ bodyAt = 0 /\ slots = << >> /\ output = << >>

ThisRow == Table(meta)[row]

(* Mutant: a slot says where its chunk is in the body. *)
SlotInBody == [at |-> bodyAt, len |-> ThisRow.payload]

(* Where the unique chunk of this row is going to be in the output. *)
Slot == [at |-> Len(output), len |-> ThisRow.payload]

ExpandUnique ==
  /\ pc = "expand" /\ row <= Len(Table(meta)) /\ ThisRow.tag = Unique
  /\ IF ThisRow.payload <= Len(decoded) - bodyAt
       THEN /\ output' = output \o Part(decoded, bodyAt, ThisRow.payload)
            /\ bodyAt' = bodyAt + ThisRow.payload
            /\ slots' = Append(slots, Slot)
            /\ row' = row + 1
            /\ pc' = pc
       ELSE pc' = "broken" /\ UNCHANGED <<output, bodyAt, slots, row>>
  /\ UNCHANGED <<file, set, meta, decoded>> /\ UNCHANGED encodeVars

ExpandReference ==
  /\ pc = "expand" /\ row <= Len(Table(meta)) /\ ThisRow.tag = Ref
  /\ IF ThisRow.payload < Len(slots)
       THEN /\ LET s == slots[ThisRow.payload + 1]
               IN  output' = output \o Part(output, s.at, s.len)
            /\ row' = row + 1
            /\ pc' = pc
       ELSE pc' = "broken" /\ UNCHANGED <<output, row>>
  /\ UNCHANGED <<file, set, meta, decoded, bodyAt, slots>> /\ UNCHANGED encodeVars

EndExpand ==
  /\ pc = "expand" /\ row > Len(Table(meta))
  /\ pc' = "restored"
  /\ UNCHANGED <<file, set, meta>> /\ UNCHANGED encodeVars /\ UNCHANGED decodeVars

ExpandNext == ExpandUnique \/ ExpandReference \/ EndExpand
=============================================================================

------------------------------- MODULE DupRun -------------------------------
(***************************************************************************)
(* A file through -dup and back: deduplicated, packed (the meta embedded   *)
(* in v5, behind the archive as the ODUP trailer in v4), perhaps damaged   *)
(* where it is stored, and read by -d, which has to find out from the      *)
(* words alone whether there is a meta to apply.  Plain archives are       *)
(* packed and read beside them: a plain archive may hold, as its last      *)
(* literals, a file that is itself a -dup archive.                         *)
(***************************************************************************)
EXTENDS Dedup, Container

CONSTANTS
  Files,         \* the files to be packed
  Settings,      \* the options: those of Dedup, the container, -dup, -m0,
                 \* and whether the C++ program writes the archive
  Compress(_),   \* the blocks the compression makes of a file
  OdupMagic,     \* how a v4 -dup archive ends
  DamageRun, DamageValues, DamageLimit  \* words damaged at once, what they
                 \* become, and the longest archive that is damaged (bounds)

VARIABLES
  written,   \* the archive as it was packed
  archive,   \* the archive as it is found
  reading    \* what -d takes it for: plain, odup, v5dup

storeVars == <<written, archive, reading>>
vars == <<pc, file, set, meta, encodeVars, decodeVars, storeVars>>

Init ==
  /\ pc = "start" /\ file \in Files /\ set \in Settings /\ meta = << >>
  /\ EncodeInit /\ DecodeInit
  /\ written = << >> /\ archive = << >> /\ reading = "none"

-----------------------------------------------------------------------------
(* Compression.                                                            *)

(* -m0 has no chunks to speak of; the trailer is defined behind Index-LZ   *)
(* only, though the C++ also writes it behind Future-LZ.                   *)
Compatible == set.dup => ~ set.inmem /\ (set.container = "v3" => set.cxx)

Start ==
  /\ pc = "start"
  /\ pc' = IF ~ Compatible THEN "refused" ELSE IF set.dup THEN "read" ELSE "pack"
  /\ UNCHANGED <<file, set, meta, encodeVars, decodeVars, storeVars>>

TrailerSize == 2
Trailer == meta \o <<Len(meta), OdupMagic>>

Packed(blocks) ==
  IF set.container = "v5" THEN V5Archive(blocks, set.dup, meta)
  ELSE (IF set.container = "v4" THEN IndexArchive(blocks) ELSE FutureArchive(blocks))
         \o (IF set.dup THEN Trailer ELSE << >>)

Pack ==
  /\ pc = "pack"
  /\ written' = Packed(Compress(IF set.dup THEN body ELSE file))
  /\ archive' = written'
  /\ pc' = "stored"
  /\ UNCHANGED <<file, set, meta, encodeVars, decodeVars, reading>>

(* The environment: some neighbouring words overwritten, or the end lost. *)
Damage ==
  /\ pc = "stored" /\ Len(archive) <= DamageLimit
  /\ \E from \in 0 .. Len(archive) - 1, len \in 1 .. DamageRun, v \in DamageValues :
       /\ from + len <= Len(archive)
       /\ archive' = [i \in DOMAIN archive |-> IF from < i /\ i <= from + len THEN v ELSE archive[i]]
  /\ pc' = "open"
  /\ UNCHANGED <<file, set, meta, encodeVars, decodeVars, written, reading>>

Truncate ==
  /\ pc = "stored" /\ Len(archive) <= DamageLimit
  /\ \E n \in 0 .. Len(archive) - 1 : archive' = SubSeq(archive, 1, n)
  /\ pc' = "open"
  /\ UNCHANGED <<file, set, meta, encodeVars, decodeVars, written, reading>>

Keep ==
  /\ pc = "stored"
  /\ pc' = "open"
  /\ UNCHANGED <<file, set, meta, encodeVars, decodeVars, storeVars>>

-----------------------------------------------------------------------------
(* Decompression: which reading?                                           *)

(* Mutant: a v5 archive with its footer is sniffed too. *)
V5SaysUnlessDup(ws) ==
  IF Len(ws) < V5HeaderSize + V5FooterSize \/ ~ HasV5Magic(ws) THEN "sniff"
  ELSE IF ~ V5HeaderOk(ws) THEN "bad"
  ELSE IF ~ HasDup(ws) THEN "sniff"
  ELSE IF V5FooterOk(ws) /\ V5MetaOk(ws, DuprMagic, MetaVersion) THEN "v5dup" ELSE "bad"

V5Says(ws) ==
  IF Len(ws) < V5HeaderSize + V5FooterSize \/ ~ HasV5Magic(ws) THEN "sniff"
  ELSE IF ~ V5HeaderOk(ws) THEN "bad"
  ELSE IF ~ HasDup(ws) THEN (IF V5FooterOk(ws) THEN "plain" ELSE "sniff")
  ELSE IF V5FooterOk(ws) /\ V5MetaOk(ws, DuprMagic, MetaVersion) THEN "v5dup" ELSE "bad"

(* The trailer, of which only the size and the first word of the meta are  *)
(* looked at: none, some, or bad.                                          *)
TrailerMetaSize(ws) == ws[Len(ws) - 1]
MetaStart(ws) == Len(ws) - TrailerSize - TrailerMetaSize(ws)

OdupSays(ws) ==
  IF Len(ws) < TrailerSize THEN "none"
  ELSE IF ws[Len(ws)] # OdupMagic THEN "none"
  ELSE IF TrailerMetaSize(ws) > Len(ws) - TrailerSize \/ TrailerMetaSize(ws) < 1 THEN "bad"
  ELSE IF ws[MetaStart(ws) + 1] # DuprMagic THEN "bad" ELSE "some"

Hidden(ws) == SubSeq(ws, 1, MetaStart(ws))
TrailerMeta(ws) == Part(ws, MetaStart(ws), TrailerMetaSize(ws))

(* Mutant: an archive that ends in a terminator block is one too. *)
ReadsAsPlainTerminated(ws) == Walk(ws).ok

ReadsAsPlain(ws) == Walk(ws).ok /\ ~ Walk(ws).terminated

(* Mutant: the trailer is taken at its word. *)
HoldsOnTrailer(ws) == OdupSays(ws) = "some"

(* The archive in front of the meta is whole, and decodes to all the body  *)
(* the meta asks for.                                                      *)
Holds(ws) ==
  /\ OdupSays(ws) = "some"
  /\ ReadsAsPlain(Hidden(ws))
  /\ Summary(TrailerMeta(ws)).ok
  /\ Summary(TrailerMeta(ws)).bodySize <= Walk(Hidden(ws)).orig

OdupReading(ws) ==
  IF OdupSays(ws) = "none" THEN "plain"
  ELSE IF ~ Holds(ws) /\ ReadsAsPlain(ws) THEN "plain"
  ELSE IF OdupSays(ws) = "bad" THEN "bad" ELSE "odup"

Reading(ws) == IF V5Says(ws) = "sniff" THEN OdupReading(ws) ELSE V5Says(ws)

Open ==
  /\ pc = "open"
  /\ LET r == Reading(archive)
     IN  /\ reading' = r
         /\ meta' = IF r = "odup" THEN TrailerMeta(archive)
                    ELSE IF r = "v5dup" THEN V5Payload(archive) ELSE << >>
         /\ pc' = IF r = "bad" THEN "failed" ELSE "decode"
  /\ UNCHANGED <<file, set, encodeVars, decodeVars, written, archive>>

DecodeBody ==
  /\ pc = "decode"
  /\ LET d == Decode(IF reading = "odup" THEN Hidden(archive) ELSE archive)
     IN  IF reading = "plain"
           THEN /\ output' = d.out /\ decoded' = decoded
                /\ pc' = IF d.ok THEN "restored" ELSE "failed"
           ELSE /\ decoded' = d.out /\ output' = output
                /\ pc' = IF d.ok /\ MetaParses(meta) THEN "expand" ELSE "failed"
  /\ UNCHANGED <<file, set, meta, encodeVars, row, bodyAt, slots, storeVars>>

Stopped ==
  /\ pc \in {"refused", "failed", "broken", "restored"}
  /\ UNCHANGED vars

Next ==
  \/ Start
  \/ EncodeNext /\ UNCHANGED storeVars
  \/ Pack \/ Damage \/ Truncate \/ Keep \/ Open \/ DecodeBody
  \/ ExpandNext /\ UNCHANGED storeVars
  \/ Stopped

Spec == Init /\ [][Next]_vars

-----------------------------------------------------------------------------
(* -i: the same question asked of an archive in memory.                    *)

NotAnArchive == [ok |-> FALSE]

WithDup(size, m) ==
  LET s == Summary(m)
  IN  IF s.ok /\ s.bodySize <= size THEN [ok |-> TRUE, size |-> s.outputSize, dup |-> TRUE]
      ELSE NotAnArchive

InspectV14(ws, strict) ==
  LET p == Parse(ws)
  IN  IF p.ok /\ ~ (strict /\ p.terminated) THEN [ok |-> TRUE, size |-> p.orig, dup |-> FALSE]
      ELSE NotAnArchive

(* Mutant: what is behind the meta is not read as an archive. *)
BehindTrailerUnread(ws) == IF OdupSays(ws) = "some" THEN WithDup(Len(ws), TrailerMeta(ws)) ELSE NotAnArchive

BehindTrailer(ws) ==
  IF OdupSays(ws) = "some" /\ InspectV14(Hidden(ws), TRUE).ok
    THEN WithDup(InspectV14(Hidden(ws), TRUE).size, TrailerMeta(ws))
    ELSE NotAnArchive

Inspect(ws) ==
  IF HasV5Magic(ws)
    THEN IF ~ V5Parses(ws, DuprMagic, MetaVersion) THEN NotAnArchive
         ELSE IF HasDup(ws) THEN WithDup(ws[4], V5Payload(ws))
         ELSE [ok |-> TRUE, size |-> ws[4], dup |-> FALSE]
  ELSE IF OdupSays(ws) = "none" THEN InspectV14(ws, FALSE)
  ELSE IF BehindTrailer(ws).ok THEN BehindTrailer(ws) ELSE InspectV14(ws, TRUE)

-----------------------------------------------------------------------------
(* Properties.                                                             *)

(* Every variable has its type; the body is as long as the encoder counts, *)
(* and its handle stands at its end whenever a chunk is decided, so that   *)
(* what is written next goes behind what is there (encode_streaming seeks  *)
(* away for --dup-paranoid).                                               *)
TypeOK ==
  /\ pc \in {"start", "refused", "read", "chunk", "meta", "pack", "stored", "open",
             "decode", "expand", "failed", "broken", "restored"}
  /\ file \in Files /\ set \in Settings
  /\ cursor = bodyPos /\ bodyPos = Len(body)
  /\ Len(uniqueLen) = Cardinality({i \in DOMAIN records : records[i].tag = Unique})
  /\ \A k \in DOMAIN seen : seen[k] < Len(uniqueLen)
  /\ reading \in {"none", "plain", "odup", "v5dup", "bad"}

(* Two chunks are taken for one only when they are equal: as long as the   *)
(* two hashes of different chunks of one length differ, or --dup-paranoid  *)
(* compares them.                                                          *)
Distinguished == set.paranoid \/ ~ set.weak

(* An intact archive is read as what it is: a plain one is never taken for *)
(* a -dup archive, though its last words be those of one (decode_odup).    *)
ReadAsWritten ==
  (archive = written /\ reading # "none") =>
    reading = IF ~ set.dup THEN "plain" ELSE IF set.container = "v5" THEN "v5dup" ELSE "odup"

(* What was packed and kept is restored, whatever the file: -d neither     *)
(* refuses it nor writes anything else.                                    *)
Restored ==
  (archive = written /\ Distinguished) =>
    /\ pc \notin {"failed", "broken"}
    /\ pc = "restored" => output = file

(* Streaming, buffer by buffer, with the body on disk, makes of a file     *)
(* exactly what the in-memory encoder makes of it with buffers of that     *)
(* size, and the in-memory decoder restores it.                            *)
StreamAgrees ==
  (pc = "pack" /\ set.dup /\ Distinguished) =>
    LET whole == EncodeWhole([set EXCEPT !.buffer = BufferSize], file)
    IN  /\ meta = MetaOfWhole(whole) /\ body = BodyOfWhole(whole)
        /\ DecodeWhole(meta, body) = file

(* "0 means single buffer (no buffer-bounded CDC)" (dedup.rs:44): without  *)
(* a buffer size the chunks are those of the whole file.                   *)
OneBuffer ==
  (pc = "pack" /\ set.dup /\ set.buffer = 0) =>
    [i \in DOMAIN records |-> IF records[i].tag = Unique THEN records[i].payload
                              ELSE uniqueLen[records[i].payload + 1]]
      = [i \in DOMAIN Split(set.gear, file) |-> Len(Split(set.gear, file)[i])]

(* A damaged -dup archive is refused or restored through its meta, never   *)
(* decoded to its body (decode_odup's comment).  Two damages cannot be     *)
(* told from a plain archive and are left out: a trailer cut off, and the  *)
(* last word of a v3 one lost.                                             *)
SameLength == Len(archive) = Len(written)
SameEnd == SameLength /\ archive[Len(archive)] = written[Len(written)]

NeverItsBody ==
  (pc = "restored" /\ set.dup /\ (SameEnd \/ (SameLength /\ set.container = "v4")
                                  \/ set.container = "v5")) => reading # "plain"

(* Where -i has an answer and -d succeeds, -i gives the size -d writes,    *)
(* and says -dup of what -d expands; of an intact archive it has one.      *)
InspectAgrees ==
  pc = "restored" =>
    /\ Inspect(archive).ok =>
         Inspect(archive).size = Len(output) /\ Inspect(archive).dup = (reading # "plain")
    /\ archive = written => Inspect(archive).ok

(* summarize_meta foretells the replay: a meta it accepts for the body     *)
(* there is replays, to the size it says, and no other does.               *)
SummaryExact ==
  /\ (pc = "restored" /\ reading # "plain") =>
       /\ Summary(meta).ok
       /\ Summary(meta).outputSize = Len(output) /\ Summary(meta).bodySize = bodyAt
  /\ pc = "broken" => ~ (Summary(meta).ok /\ Summary(meta).bodySize <= Len(decoded))

(* --verify accepts what was written, and of a damaged v5 archive only one *)
(* whose damage lies in literals and records: header, block headers, meta  *)
(* and footer are covered.                                                 *)
BlockWords ==
  LET blocks == V5Blocks(written).blocks
      start(k) == V5HeaderSize + k * BlockHeaderSize
                    + Sum([i \in 1 .. k - 1 |-> Len(List(blocks[i])) + Len(blocks[i].lits)])
  IN  UNION {start(k) + 1 .. start(k) + Len(List(blocks[k])) + Len(blocks[k].lits) : k \in DOMAIN blocks}

VerifyCovers ==
  (pc = "open" /\ set.container = "v5") =>
    /\ archive = written => Verifies(archive, DuprMagic, MetaVersion)
    /\ Verifies(archive, DuprMagic, MetaVersion) =>
         /\ Len(archive) = Len(written)
         /\ \A i \in DOMAIN written : archive[i] # written[i] => i \in BlockWords
=============================================================================

# Formal model of omega-srep

omega-srep compresses a file by replacing repetitions, however far apart, with
matches, and puts it back together in bounded memory. This directory holds TLA+
models of the program, the TLC runs that check them on small files, and proofs
of their main invariants for files, budgets and options of every size.

The algorithms exist twice in the repository: in the shipped Free Pascal program
(`src/pascal`) and in a Rust port of it (`src/oracles/rust/crates/osrep-core` and
`osrep-cli`), function for function. The models are translated from the Rust
text, where every step has a name of its own; the Pascal unit of the same name
does the same. `PROJECT.json` ("map") says which lines each definition stands for.

## 1. The system

| Component | Code | State it keeps | Operations |
|---|---|---|---|
| Encoder driver | `encoder.rs` | ring of blocks with one read ahead, records of the block | read, digest, find, write a block |
| Match finders | `compress.rs`, `hash_table.rs`, `rolling.rs` (`-m3` to `-m5`); `cdc.rs` (`-m1`, `-m2`); `inmem.rs` (`-m0`, `-d`) | tables of chunks and of windows, cursor, list of records | look a window or a chunk up, extend it, record it |
| Record codec | `lz.rs` | none | encode, decode a record, in units of the base length or not |
| Second pass | `second_pass.rs` | matches of the whole file sorted by source, scan cursor | gather, sort, scan, copy literals, emit, footer |
| Future-LZ decoder | `future_lz.rs` | heap of pending matches, budgeted memory, spill file, output | validate, fill, store, pack a slot, restore a slot, verify, write |
| I/O-LZ decoder | `decompress.rs` | the block being built, output | copy a record, verify, write |
| Container, verify, inspect | `container.rs`, `archive.rs`, `v5.rs` | none | write, walk, parse, verify |
| Deduplication, `-dup` | `dedup.rs`, `dup.rs` | table of chunks seen, chunk table, body file | cut, deduplicate, restore; tell a trailer from a plain archive |
| Output claims | `util.rs` | identities of files read, written, made | note, open, refuse, remove on failure |
| Command line | `main.rs`, `modes.rs`, `args.rs`, `report.rs`, `stdio.rs`, `help.rs` | options | one compression, decompression, verification |
| Hashes | `hashes.rs`, `hashes_keyed.rs`, `vmac.rs`, `aes.rs` | none | |
| Others | `osrep-conformance`, `src/oracles/cxx` | | test drivers; the original C++ |

The first pass finds matches that point *back*: (source, destination, length)
with the source before the destination. v1 and v2 archives (I/O-LZ) carry them so,
and the decoder re-reads its own output, at the price of random reads. v3, v4 and
v5 (Future-LZ) carry every match in the block of its *source*: a second pass
sorts matches by source and cuts them at block boundaries. The decoder then
keeps the bytes of a match from the block that produces them to the block that
needs them. What exceeds the memory budget goes to a spill file, one slot at a
time, furthest destination first, and a *mark* among the pending matches says
when a slot must be back.

With `-dup` the file is first cut into content-defined chunks; what is compressed
is the body, each different chunk once, and a table of chunks (the meta) goes into
the v5 archive, or behind a v3 or v4 one as a trailer. The decoder has to find out
from the last words alone whether there is such a trailer, although a plain archive
may end in the literals of a file that is itself a `-dup` archive.

The program is sequential. There are no threads in it, so in the codec the
interleavings are not of processes but of *histories*: which matches are found,
what order an unstable sort leaves, what fits, what is spilled, restored and
spilled again, where blocks and chunks start, and where an archive is damaged.
The command line does have a second actor: whatever else works on its files.
What is hard:

- the life of a pending match across blocks, memory and slots, and the reuse of
  slots (decoder);
- the budget, which is soft: checked before saving, passed when restoring;
- limits: wrap of a tiny budget, slots smaller than a match, terminators;
- the resumption of the scan, which goes back after every block (second pass);
- one file position shared by writing and re-reading the output (both decoders),
  by appending to the body and comparing with it (`--dup-paranoid`);
- positions in a ring whose bytes have been overwritten since; one block read
  ahead; blocks that start inside a chunk, so that chunk `k` is not at `k * L`;
- records in units of the base length, which exist only for some sources and
  lengths; two lists of matches merged into one;
- what may be said of a damaged archive, and what an archive is taken for;
- the files of a run: names that are hard or symbolic links to one file or to a
  redirected stream, numbers of files that come back, a failure at any step,
  and another process that changes the names between two system calls.

What makes each component correct:

- encoder: every record decodes to the bytes it stands for, from a source before
  them; the header counts the literals; no match is found that cannot be written;
- second pass: each block gets exactly the pieces of matches whose source it
  has; distances add up to the right places; literals are what no match covers;
- decoder: what is written is always the beginning of the original; an intact
  archive fails only for lack of memory; a slot has one owner; a mark is never
  late; what is held is what is still needed; it ends;
- I/O-LZ: the same promise as the Future-LZ decoder, keeping nothing;
- together: compressing and decompressing give the file back;
- `-dup`: the same with the meta in between; an archive is read as what it was
  written as; `-i`, `--verify` and `-d` agree;
- files of a run: it writes no file it reads and no file twice; each output is
  whole when it succeeds and gone when it fails; it read what its input named.

`PROJECT.json` lists the hazards by line, with the properties that watch each.

## 2. Modules

| Module | What it is |
|---|---|
| `LzFormat` | Blocks, matches, the file a set of matches describes, and by definition (not by algorithm) which pieces and literals each block must carry |
| `Buffers` | Overlapping copy, writing at a position |
| `BlockDecoder` | Abstract specification: the output grows by pieces of the original, then success or failure; success of an archive that counts its blocks means all of it |
| `FutureLz` | The Future-LZ decoder |
| `IoLz` | The I/O-LZ decoder |
| `SecondPass` | The second compression pass |
| `RoundTrip` | `SecondPass` and `FutureLz` composed: an archive is made, handed over, decoded |
| `LzCodec` | A record, encoded and decoded, rounded or not |
| `BlockRing` | Options of a compression and the ring its blocks are read into |
| `InMemory`, `FixedCompress`, `Cdc` | The three match finders |
| `Encoder` | The driver, composed with the finders |
| `Dedup` | The deduplication of `-dup` and its way back |
| `Container` | The words of an archive: writers, `walk`, `parse`, `verify`, decoding |
| `DupRun` | `Dedup` and `Container` composed: a file packed, damaged or not, and read |
| `RunFiles` | The files of one compression or decompression, and another process |
| `BufferProofs`, `FutureLzProofs`, `FutureLzIntactProofs`, `IoLzProofs`, `SecondPassProofs`, `EncoderProofs`, `RunFilesProofs`, `RunOutcomeProofs` | Theorems |
| `MCMatches` | Every set of matches a first pass could leave for a small file |
| `MCFutureLz`, `MCDamaged`, `MCIoLz`, `MCRoundTrip`, `MCEncoder`, `MCDupRun`, `MCRunFiles` | The inputs of the runs |

`FutureLz`, `IoLz` use `Buffers`; `SecondPass` uses `LzFormat`; `RoundTrip` has an
instance of each. `BlockRing` extends `LzCodec` and `Buffers`, the finders extend it,
`Encoder` extends the finders. `DupRun` extends `Dedup` and `Container`. `RunFiles` stands
alone: it is about files, not about what is in them.

In the decoders and the second pass a byte of the original file *is* the position
of the literal it was first copied from. Two positions hold the same byte only if
the matches say so, so a byte put in the wrong place always shows. In the encoder
and in `-dup`, which look for equal bytes, a byte is a small number. Everywhere the
digest of a block or of a chunk is the block or the chunk: a hash without
collisions, unless `weak` is set (`Dedup`).

### FutureLz

`pc` names the loop the decoder is in and an action is one iteration.

| Action | Code (`future_lz.rs`) |
|---|---|
| `Open`, `RefuseOpen` | `decode_future_lz`, `decode_v5`: v4 footer and table, v5 footer and header agree |
| `ReadBlock`, `Truncated`, `Finish`, `RefuseFooter` | their block loops |
| `ValidateRecord`, `RejectRecord`, `EndValidate` | pass 1 of `decompress_block` |
| `FillMatch`, `RejectMatch`, `TakeMark`, `FillTail`, `RejectLiterals` | pass 2 |
| `SkipRecord`, `StoreUnsaved`, `StoreMatch`, `StoreNeedsRoom`, `EndStore` | pass 3 |
| `EvictMatch`, `WriteSlot`, `NothingToEvict` | `VirtualMemory::save_to_disk`; `caller` says which of its two callers gets control back |
| `RestoreNeedsRoom`, `ReadSlot`, `SlotMissing`, `LoadRecord`, `EndRestore` | `VirtualMemory::restore_from_disk` |
| `WriteBlock`, `RejectDigest` | digest, seek, write |

What is abstracted:

- The heap is a function from destinations to classes; its barrier, which sorts
  after every match, is the empty function.
- A chain of memory chunks is the bytes it holds; what is counted is how many
  chunks that takes.
- The spill file is a function from slots to records. `filled` counts bytes, so
  whether a record and its terminator fit is exact.
- The two "cannot free enough" errors are one, "memory"; a false mark that names
  no slot is "io".
- v4 keeps its lists and their sizes at the end of the file; here the lists are
  with the blocks and the footer has their number. The `-dup` meta of v5 is in
  `DupRun`. The CRCs of v6 and the `-index` stream are left out: they refuse more
  archives, and change nothing else. A v6 archive is otherwise a v5 one.
- An archive of `MCFutureLz` has records by definition (`LzFormat!Records`), not
  by the second pass; `RoundTrip` uses the second pass.

### SecondPass

`GatherRecord`/`GatherNext`, `SortBySrc`, `BeginBlock`, `PassOver`, `EmitMatch`,
`EndScan`, `CopyRun`, `EmitBlock`, `WriteFooter` are the loops of `run` in
order. The sort is any permutation in order of source: the program imitates a
particular unstable sort, and no property may depend on which. Literals are
copied for every format (v4 writes its own in the first pass, by the same
records). Its two errors cannot occur: the first-pass records are whole, and the
base length of a Future-LZ record is 0.

The first pass is the environment: `FirstPass` says what its lists satisfy
(destinations in order, apart, inside their block, sources before them), which
`Encoder!RecordsReproduce` checks of the finders.

### IoLz

`CopyRecord` is one record: literals, the part of the match in the output, the
part in the block. `torn` stands for every way an archive can end in the middle
of a block. Words left over at the end of a list are ignored by the code and
left out here.

### RoundTrip

`Compress` runs the second pass to its end, `HandOver` makes the archive in any of
the three formats, `Decompress` runs the decoder. The decoder's digests are on,
taken by the first pass.

### Encoder

One action is one turn of the loop `pc` names.

| Action | Code |
|---|---|
| `ReadFirst`, `ReadAhead`, `EndInmem`, `WriteBlock`, `Finish` | `encoder.rs`, `encode`: the block loop, with the block after this one read before this one is compressed |
| `BeginInmem`, `TakeWindow`, `PassWindow` | `inmem.rs`, `prepare` and `compress` |
| `PrepareBuffer` | `hash_table.rs`, `prepare_buffer`: digests of the block, and of the chunk the next one begins with |
| `BeginScan`, `FirstWindow`, `BeginChunk`, `EndScan`, `EndChunk` | `compress.rs`, the loops of `compress` and `compress_accel` |
| `SpliceInput`, `NotReached` | the matches of the in-memory pass merged in |
| `HashWindows`, `Probe`, `EndProbe` | positions hashed ahead, then looked up |
| `BeginCdc`, `FindChunks`, `TakeChunk`, `PassChunk`, `EndStripe` | `cdc.rs` |

`RecordMatch` is `record_match` with everything it calls: the length by bytes or by
digests, the rounding to chunks (`-m3`), `Fit` (`fit_base_len_grid`), and the record made
again from where the chunk really is when blocks start off the grid of chunks.

What is abstracted:

- The hash table keeps some bits of a hash, a bounded chain, and a filter of
  slices and bits before it. A lookup finds any chunk that was put in (with `-m3`
  any whose digest agrees) or none, so whatever the table loses is covered. The
  table of the in-memory pass has `HashSlots` slots and really forgets.
- Where content-defined cuts are is open, within the rules of each scan (distance
  to the last cut, pieces of a stripe); the two rolling hashes only choose.
- The input does not change while it is read; `RunFiles` is about that.
- Zero pages, the seed of the digests, the progress report are left out.

### Dedup, Container, DupRun

| Action | Code |
|---|---|
| `ReadBuffer`, `TakeReference`, `TakeUnique`, `EndBuffer`, `WriteMeta` | `dedup.rs`, `encode_streaming` |
| `ExpandUnique`, `ExpandReference`, `EndExpand` | `dedup.rs`, `decode_streaming` |
| `Start`, `Pack` | `dup.rs`, `encode` |
| `Open`, `DecodeBody` | `dup.rs`, `decode_with`; `archive.rs`, `decode` |
| `Keep`, `Damage`, `Truncate` | the environment: what becomes of the stored archive |

`EncodeWhole`, `DecodeWhole`, `Summary` are the in-memory forms and `-i`'s summary of a
meta; `Inspect`, `Verifies` and `Reading` are what the three commands make of the same
words. `Walk` counts an archive without decoding it, `Parse` with its lists, `Decode`
decodes it: in v3 to v5 with the first of several matches of one destination, and a match of
length 0 taken for a mark, as the heap does (both come from damage only); with a version word
damaged to 1 or 2, as I/O-LZ (`BackDecoded`).

A field of the archive or of the meta is one cell, whatever its width. Digests,
the seed and `-index=` are left out of the words. Keys of chunks are injective but
for the zeros a tail is padded with, which the code's hashes do not tell apart
either; with `weak` two chunks of as many words collide. No archive is written as v1 or v2 here
(`IoLz` decodes those). The CRC is a function given by the instance.

### RunFiles

A run is the list `todo` of steps still to do. `Script` makes it from the options,
in the order of `check_files`, `compress` or `decompress` (with `dup::encode` or
`dup::decode_with`); an error replaces it by `Undo`, what the drops and the end of `run` do.

| Step or action | Code |
|---|---|
| `NoteInput`, `NoteIndex`, `NoteStderr`, `NoteStdout`, `CheckNames` | `check_files` (`modes.rs`) and the `note_` functions and `Files::check_names` of `util.rs` |
| `Stamp`, `CheckUnchanged` | `stamp_input`, `check_unchanged` |
| `TryExclusive`, `ExclusiveFails`, `TryPlain`, `TryCreate`, `OpenFails` | the three opens of `open_no_truncate`, each a system call of its own |
| `Accept`, `Refuse`, `TruncateFails` | the rest of `Files::open`, with `create_output` or the scratch files |
| `NewTemp`, `Spool`, `CopyStdin`, `Spill`, `RemoveSpool`, `DeleteTemps` | `TempFile::new`, `spool_stdin`, `copy_stdin`, `VirtualMemory::spill_file`, `NamedScratch::drop`, `TempFile::drop` |
| `OpenInput`, `OpenIndex`, `Sniff`, `Dedup`, `Encode`, `Decode`, `CopyOut` | the work; each twice where a file is read twice |
| `Breaks` | any of these failing |
| `Close`, `DeleteInput`, `RemoveClaimed`, `Report` | the end of a run: `remove_claimed_outputs`, `main` |
| `Edit`, `RenameFile`, `RemoveFile`, `Retarget` | another process, between any two steps |

A file has a number (device and inode), a kind, the set of those whose bytes it
holds, and a stamp for its size and times. A new file takes a free number, always
the same one, so numbers come back as they do in real file systems; the times of a new
file are later than those of the file that had its number before. What is abstracted:

- The run's own temporaries have no name: they are made exclusively under a name
  with the process and the time in it, and the other process is taken not to
  know it. The two temporaries of a `-dup` decode are one.
- `OpenedName::remove` looks at a name and removes it in one step, `CheckNames` looks
  at all its names in one step. Both are windows the code cannot close; after
  `CheckNames` every open compares again, which the other process is free to race.
- The lists of identities are sets: nothing is in one twice, since an open
  compares before it adds, and a temporary's number was free.
- Standard error receives lines throughout a run; here once, at the end.
- Only the POSIX branches are modelled. `Report` is the message of an error.

A crash or a kill leaves what the run had done until then: every prefix of a
behaviour, about which `InputsUntouched` and `OneWriter` hold as well.

## 3. Runs

Sizes are scaled: a chunk of decoder memory holds 1 to 3 bytes instead of 60, a
record header in a slot has 1 byte instead of 20 and its fit margin 2 instead of 24,
so that slots of 4 to 9 bytes hold one to three matches and budgets of 10 to 20 bytes
force spilling. The relations the code relies on (header < margin < slot, chunk space
< chunk) are kept. The 64- and 32-bit widths are 1024 and 256, reached by wrapping
below 0 only, as in the code.

| Run | Instance | States | Shows |
|---|---|---|---|
| `tight` | v4, 4 blocks of 2, chunks of 3 bytes, slots of 9, a limit of 20 | 78 k | `SlotsOwned`, `MarkOrder`, `SlotWithinBlock`, `DecodedPrefix`, `PendingConserved`, `ChunksAccounted`, `OvershootBounded`, `StoreWithinBudget`, `Terminates` |
| `capped` | v5, 4 blocks of 3, slots that hold 2-byte matches only | 266 k | matches re-read from the output: `DecodedPrefix`, `OnlyMemoryFails` |
| `damaged` | v3, v4, v5 with digests, 3 blocks of 2, one thing damaged | 127 k | `TypeOK`, `Promised` |
| `io_lz` | v1 and v2, blocks of 3, base length 2, whole or with one thing damaged | 25 k | `TypeOK`, `IntactDecodes`, `Promised` |
| `round_trip` | 4 blocks of 3, every first pass; v3 with a memory of one slot, v4 below the granularity, v5 with a little more | 51 k | `TypeOK`, `ListsExact`, `DistancesAddUp`, `LiteralsExact`, `NeverRefused`, `TinyLimitIsNone`, `FileRestored` |
| `encode` | files of 14 or 15 bytes, ten option lines over all methods | 85 k | `TypeOK`, `RecordsReproduce`, `HeaderAgrees` |
| `dup` | 11 files, four of them archives or trailers themselves; plain, `-dup` and refused lines in v3, v4, v5; kept, damaged, cut | 52 k | `TypeOK`, `StreamAgrees`, `ReadAsWritten`, `Restored`, `NeverItsBody`, `InspectAgrees`, `SummaryExact`, `VerifyCovers` |
| `files_aliased` | 3 names, 2 files, a device, a symbolic link, streams redirected to any of them; the link pointed elsewhere once | 1.9 M | `TypeOK`, `OneWriter`, `SuccessDelivers`, `FailureCleans` |
| `files_meddled` | the same names, two renames, removals or edits by another process | 2.5 M | `ReadWhatItFound`, `InputsUntouched` |
| `files_retargeted` | it points a symbolic link elsewhere, twice | violation | `ReadWhatItFound` fails (section 5) |
| `files_late` | it renames, twice | violation | `OutputsStartEmpty` fails (section 5) |
| `dup_one_buffer` | as `dup` | violation | `OneBuffer` fails (section 5) |

Inputs of the decoders and of the second pass are exhaustive within the bounds: every
set of at most two matches per block (`MCMatches`) with sources among `Sources`, lengths
from `MinMatch`, covering at least `MinCovered` bytes of every block but the first.
`Sources` includes places in the first block and, in some runs, across its end;
destinations are everywhere. Four blocks are what it takes to spill a match, restore
it, and spill it again before it is due, which happens in `tight` and `capped`. In
`round_trip` the last block is shorter than the others, matches cross block
boundaries and slots are spilled.

The files of `encode` are patterns of 2 or 3 bytes over and over with one byte changed
anywhere: matches everywhere, overlapping, across blocks, broken at every place.
Blocks of 6, 7 and 8 bytes against chunks of 2 to 4 make blocks start on and off the
grid of chunks; `Stale` is a file whose in-memory table points at a window the ring has
overwritten. Fourteen bytes are two to five blocks, more than the ring holds. The blocks of
`-m1` and `-m2` are 12 bytes, two of them a file: with stripes of 9 in pieces of 3, both methods
cut inside a block, so that `TakeChunk` finds chunks that do not end with their block.
`MaxMarks` bounds the cuts of one stripe. The plain scan goes by 2 bytes (`Cycles`)
instead of 4, with chunks no shorter, as in the code.

The files of `dup` are chosen, not exhaustive: chunks that come again, runs of zeros
(which the padded keys confuse), files shorter than a chunk or empty, archives of `-dup`
in v3 and v4, trailers with nothing whole in front of them. `MinChunk` 1, `MaxChunk`
3 and a default buffer of 7 cut most of them in several chunks, and the longer ones across two buffers. An archive of up to
`DamageLimit` words is damaged in every run of up to `DamageRun` neighbouring words, set
to each of `DamageValues`, or cut anywhere. `OdupMagic` is set to the CRC of the footer of
a v5 archive among them: a plain v5 archive that ends in "ODUP" is a case, not an accident.

A run of the command line has at most three names of its own (input, output, and
index or scratch), which is what `MCRunFiles` has; seven numbers are more than the
files it can have at once. Two steps of another process are what it takes to
take a name away and bring it back, the shape of every race found.

Every property has a mutant in `PROJECT.json`: a definition changed as a
plausible bug would change it, which makes TLC report the property. Mutated
forms stand next to the originals, marked "Mutant".

`Stopped` lets a finished program stutter, so deadlock is checked everywhere:
any other state without a successor is an error.

### Fairness

`FairSpec` is `WF_vars(Next)`: the program runs by itself and waits for nobody. Nothing
stronger is needed, since no action competes with another. `Terminates` and the
liveness half of `Promised` use it; `FileRestored` uses `FairTrip`, the same for the
composition. The other runs check safety only: in `RunFiles` another process may act
at every step, and nothing is promised about when the run gets its turn.

## 4. Proofs

`tlapm` checks each of the modules from nothing.

| Theorem | Says | Assumes |
|---|---|---|
| `FutureLzProofs!TypeCorrect` | `Spec => []TypeOK` | sizes are naturals, chunks are not empty, header < margin |
| `FutureLzProofs!SlotNeverOverflows` | `Spec => []SlotWithinBlock` | the same |
| `FutureLzProofs!SlotsSafe` | `Spec => [](SlotsOwned /\ MarkOrder)` | no record of length 0 in any archive |
| `FutureLzProofs!PrefixWritten` | `Spec => []DecodedPrefix` | every block has a digest, and equal digests mean equal bytes (`VerifiedArchives`) |
| `FutureLzProofs!StepsPromised` | every step is one of `BlockDecoder`, or a stutter | the same |
| `FutureLzProofs!SavedWithinBudget` | `Spec => StoreWithinBudget`: only a restore passes the budget | `ChunkAssumption` |
| `FutureLzProofs!OvershootWithinRounding` | `Spec => []OvershootBounded` | no record of length 0 in any archive |
| `FutureLzIntactProofs!IntactPrefix` | `Spec => []DecodedPrefix` | archives are undamaged and were made of their files (`IntactArchives`) |
| `FutureLzIntactProofs!IntactStepsPromised` | every step is one of `BlockDecoder`, or a stutter | the same |
| `FutureLzIntactProofs!EveryChunkAccounted` | `Spec => []ChunksAccounted` | the same |
| `FutureLzIntactProofs!OnlyMemoryFailing` | `Spec => []OnlyMemoryFails` | the same |
| `FutureLzIntactProofs!NothingLost` | `Spec => []PendingConserved` | the same |
| `IoLzProofs!TypeCorrect` | `Spec => []TypeOK` | archives are of their type, damaged or not |
| `IoLzProofs!StepsPromised` | every step is one of `BlockDecoder`, or a stutter | `VerifiedArchives` |
| `IoLzProofs!IntactDecoded` | `Spec => []IntactDecodes` | undamaged archives were made of their files (`IntactArchives`) |
| `SecondPassProofs!TypeCorrect` | `Spec => []TypeOK` | `FirstPassAssumption` |
| `SecondPassProofs!ListsAreExact` | `Spec => []ListsExact` | the same |
| `SecondPassProofs!DistancesAreRight` | `Spec => []DistancesAddUp` | the same |
| `SecondPassProofs!LiteralsAreExact` | `Spec => []LiteralsExact` | the same |
| `EncoderProofs!FittedRecordsReproduce` | what `Fit` makes of a match of equal bytes decodes to equal bytes, inside the match | the match it is given is one |
| `EncoderProofs!TypeCorrect` | `Spec => []TypeOK` | `OptionsAssumption`, `HashAssumption`, `ScanAssumption`, `CdcAssumption` |
| `EncoderProofs!RecordsRight` | `Spec => []RecordsReproduce` | the same |
| `EncoderProofs!HeadersRight` | `Spec => []HeaderAgrees` | the same |
| `BufferProofs!LzCopyRunsForward` | a copied byte is the one its distance before it | none |
| `FutureLzProofs!MarksInOrder` | `Spec => []MarkOrder` | no record of length 0 in any archive |
| `RunFilesProofs!TypeCorrect` | `Spec => []TypeOK` | the options are ones `modes.rs` lets through |
| `RunFilesProofs!WritersApart` | `Spec => []OneWriter` | the same |
| `RunFilesProofs!InputsSafe` | `Spec => InputsUntouched` | the same |
| `RunFilesProofs!ReadsWhatItFound` | `Spec => []ReadWhatItFound` | no symbolic link in any world (`NoLinks`) |
| `RunOutcomeProofs!FailureLeavesNothing` | `Spec => []FailureCleans` | the files found have the user's bytes only (`Unwritten`) |
| `RunOutcomeProofs!SuccessLeavesOutputs` | `Spec => []SuccessDelivers` | the same, and those with a name have some bytes (`UsersFiles`) |

**Decoders.** `TypeCorrect` holds for every archive, damaged ones included: it is
what makes every cursor of a decoder stay in its list and every access in its
buffer. In `IoLz` it needs to know that a block under construction is whole behind the
cursor (`Whole`). For the slots `SlotsOwned` and `MarkOrder` are not inductive by
themselves. `SlotInv` adds that every class of the heap stands at its own destination
(`Keyed`), that only real matches hold bytes (`Solid`, `SpilledSolid`), and that the records
being packed have left the heap, descend, and lie beyond every match that may still
be packed (`PackedOrder`): so a mark put in at the last of them meets no other class and is
not late. The assumption `NoEmptyRecords` is needed: a record of length 0 is
taken for a mark the decoder never made. The writer emits none; on damaged
archives that carry digests `Promised` shows that nothing wrong is written all
the same.

**What a decoder promises.** `BlockDecoder` grows the output by pieces of the original
file and is done only when all of it is written. The pieces a block stands for are sums over
the blocks before it, and rather than computing that sum by induction the proofs carry it along: an
archive with digests has a function `at` of piece starts (`PiecesAt`), the archives of the
runs are assumed to have one (`DigestsAssumption`, which TLC evaluates with the function
written out), and `Begun(at)` carries one such function along: what is written is the file up
to `at[block]`. The digest test of a block is then all that is needed, since a block whose
bytes have the digest of its piece is that piece. Nothing is assumed of its records, so the theorems
cover every damage but a digest moved to another block. Finishing is where the formats differ:
v4 and v5 count their blocks, a v3 archive is only promised whole when it is (`FinishesWhole`).

**Undamaged archives.** Without digests nothing tells a wrong block from a right one, so what is decoded
can only be the file if the archive was made of it. `Makes(a, ...)` says that by witnesses again: functions with the
place of every block and record, of the source every record means, and of the literals used so far, such that
the literals fill the gaps between the destinations and every match has equal bytes in both places. The
instances of the runs are assumed to have them (`IntactAssumption`, evaluated by TLC), and the theorems
take only their existence. For `IoLz` the invariant `Rebuilt` then places the cursor: after each record the block
built and the literals used are where the witnesses say. For `FutureLz` the matches are out of order and may be in
the heap, in a slot, in the list being packed, or on their way back, and `Rebuilding` has to say of each of
these that it holds exactly matches of the archive with their right bytes, that together with the marks they
are all that is due (`HeldRight`), and that a place where the next match is due is never passed. From there
`EveryChunkAccounted` counts the chunks of the heap along with it, `OnlyMemoryFailing` shows that every
other refusal contradicts the witnesses, and that with room for one slot there is always something to
evict. With a `-vmblock` of 24 or less the longest match saved is not capped and no match fits a slot: then nothing
is ever spilled (`Unspilled`), packing gives up at once, and what is shown is that the matches in the heap and
the next one need more than the memory there is. Every run has slots that hold a match, so this case is the
theorem's alone. `NothingLost` counts the matches, whose destinations differ.

**Memory of the Future-LZ decoder.** A slot of the spill file is measured in bytes, memory in
chunks, and what a slot brings back is a sum over its records. Again no sum is computed: `Sums(at, records)`
says of a function that it holds the partial sums of a list of records, and such a function is carried along
while a slot is packed (`Measured`). While one is restored (`Loading`), memory holds what it held when
there was room for a whole slot (`RoomForSlot`) and the records read so far, each at most its bytes
rounded up to chunks (`OneMoreLoaded`). So the excess is at most the rounding of the records of one
slot, however many slots follow each other. That restoring is the only step to pass the budget is
`SavedWithinBudget`: saving a match, the other step that takes chunks, ends within it even when memory was past it
before, since there is no room then. A record of length 0 would be a mark the decoder never
made, which is why `NoEmptyRecords` is assumed here too.

**Second pass.** `IInv` says, between blocks, that every match before the cursor
is behind the block that comes next, and during a scan that what was scanned is
exactly the cut of what the cursor has passed. The step that goes back
(`i := savedI`) is right for a reason not written in the code: a match is never
longer than a block, since it lies inside its destination block. Every match
before the last one found wholly behind starts before the block, so it ends
before the next block begins. `FirstPassAssumption` is where that comes from.

The literals of a block are the positions no match covers, in order. `LiteralsAreExact` follows the cut list of
a block with `LiteralsOf`: what is written for the gap before a record is a run of uncovered positions, and an
induction over positions shows that the recursive definition picks up exactly these.

**Records in units.** A record of `-m3` stores distances and lengths in units of the base
length, and the decoder rounds the destination down to a unit before it goes back. `Fit`
keeps a record that lies on the grid or happens to decode to the same bytes, and moves
any other up to the next unit of its source. The proof is the arithmetic of that: from
there on source and length are whole units, and the decoder's rounding leads back to the
source for every base length and every place. It needs a least-number argument for the common prefix
the code measures, from the library's well-founded induction.

**The compressor.** `RecordsReproduce` speaks of the archive, and an archive is right because of what a
match finder found dozens of steps ago, in a ring that has been written over since. `EncoderInv` has
seven parts, each kept by every step once those before it hold; all but the last two say why what is
read is what the file has.

- `RingInv`: the ring holds the block at hand and the one read ahead, behind them all that the
  dictionary reaches back to (`Holds`), and blocks lie in it whole, as a turn is a whole number of them
  (`Aligned`). Before the first turn ends, a place of the ring is a place of the file.
- `KindInv`: only the finder of the method runs.
- `HashInv`: what the table of the in-memory pass holds is a place of the ring, in the first turn one
  the pass has been at, and windows end before their block does. Hence `TakenWindow`: a match that is
  at most a dictionary away, that leaves neither the ring nor the dictionary, is one of the file, though
  its window may have been stored a turn before and overwritten.
- `GridInv`: while every block began on the grid of chunks, the digest kept for a chunk is that of the
  chunk of that number (`DigestsTrue`), those of the block read ahead included; afterwards nothing is
  claimed, and nothing needs to be: `Trusted` and `Remade` compare the bytes a decoder will read.
- `CdcInv`: cuts are ahead of the cursor, starts kept are behind it, and the end of the block is a cut.
- `WorkInv`: where the scan is, what is in the table and what is in the list. A chunk in the table starts before any
  window still to be looked up (`InsertBound`), although windows of a chunk may be hashed past its end. A list is `Listed`: its records lead
  to the end of the last match, inside the block, each of them `Good`, that is decoded to a copy of true
  bytes, and the literals counted are what the records leave. The list that is spliced in is `Listed` too and closed by a match past
  the block (`Fenced`), which the scan never reaches.
- `OutInv`: the blocks of the archive are what was listed.

Every record that is emitted is `Sound`: found by digest, by bytes read again, by splicing, or remade. That is where
the methods differ (`FittedIsSound`, `RemadeSound`, `SpliceSound`, `CopyRecord`). Nothing is assumed of which
chunks a lookup finds, where blocks are cut, or which window has the greatest hash. Equal digests are equal bytes in the model itself
(`Window`). `ScanAssumption` asks that no chunk be shorter than the steps of the scan: the code's are 4 and
8 bytes. `SettledOK` is what the other parts need of the options, proved of every command line the code accepts (`Settles`).

**Files of a run.** The theorems hold for any number of names, files and requests and for
any steps of the other process. Neither property is inductive: what a step writes is known
only through a handle opened many steps ago, under a name that may by now lead elsewhere.
`Rule` has five parts that carry it. `InTurn`: while a check is pending nothing is open to
be written, so that the list of read files is complete before the first output is compared
with it. `Kept`: what is open to be written is noted as written and not as read, or is a
temporary of the run's own, or the scratch file just given up, whose number `spool` still
holds. `Outside`: no name leads to a temporary. `Held`: an open scratch file has a closing
step before the step that forgets the temporaries. `StreamsNoted`: a standard stream
that will be written is noted, unless its check is pending or has failed the run. What
comes after what is a fact about the list of steps (`Ordered`), proved of every script of
`modes.rs` (`ScriptOrdered`) and of the list of an error, and kept by taking the first
step away (`OrderedTail`). `RequestsAssumption` says what the command line refuses before a
run begins: an output named like its input, and `-dup` without two names.

`ReadWhatItFound` compares two moments and says what happened between them, so it needs an
argument about the past. `Undisturbed` says that the name of the input leads, now, to the
file found at the beginning with the times it had then. It can only be lost: no step makes a
file look older, and a name that comes to lead to a file leads to one whose times have just
changed (`Telling`, of every step of the run and of the other process). So when the last
check finds the input undisturbed it was undisturbed all along, and `Seen` says that while it is,
only that file was read, with those times, and only that file is open. That something was read
at all is `ReadIn`: an open input is read before it is closed (`Works`), again a fact about the list
of steps, as is that nothing is read after the last check (`ChecksAfter`). With a symbolic
link the name may lead elsewhere for a while and no file shows it: `NoLinks` excludes
what `files_retargeted` finds.

**What a failed run leaves.** Without an error nothing is removed, and after one only what the run
claimed, at the end. So the invariant has to say, at every moment, that an error now would
leave nothing (`Marked`): a name to be written has a part of an output only if its file is claimed
or is the scratch file, or if another name leads to it. What this rests on is spread over the run.
`Owned`: what is claimed is where its name leads, and no other file than the one noted.
`Underway`: a file being opened is where its name leads, and one just made is nobody's.
`InputStays`: the input is in the list of read files before any output is compared with it.
`Compared`: nothing is written until all names were compared, so that two outputs
that lead to one file end at one name, and removing the one removes the other. That an
error is always cleaned up after is `Undone`. `InPlace` says what the order of the steps has to
do with it: notes before comparisons, one step that may make a scratch file, and the deletion of
the input last, after which no error can come (`Live`). All parts hold of every step the
run takes alone; `FailureCleans` claims nothing when another process interferes, which may rename
a claimed file.

**What a run that ends well leaves.** `SuccessDelivers` is about the end, and again it says nothing
of how one gets there. `Delivering` says at every moment what is there or will be, and rests on the
invariants of the two theorems before it. `Promises` is about the list: an output is created before the
step that writes it and that step comes before the files are closed, and a temporary has its
removal behind it (proved of every script, `ScriptPromises`). `Ready`: an output that was created is claimed
where its name leads, nothing else that is open writes there, and it has its own bytes or is
empty, open, and about to be written. `StreamsAside`: no output is a stream the run writes, and
standard output is not standard error, unless one of the two is still to be noted. That the scratch
file is gone is the part with the most cases. Its name may be that of another output, or a link to
it, or a second name may lead to the same file; `-temp=` is removed by name and never through a link.
`ScratchGone` says which of these holds while a name has scratch bytes, and `Sole` what the comparison of
names is good for: if an output ends at the name of the scratch file, no other name has that file, so
removing the one name removes it. Deleting the input comes last: after it a name leads where it
led or nowhere, and no file has changed (`DeliversOn`).

**Induction.** The library's induction theorems take an operator and cannot be used with the installed
provers, but `NatLessThanWellFounded` with `WFMin` gives what is needed without one: a nonempty set of
naturals has a least element. A claim about all naturals, or about what a recursive function computes, is proved by
looking at the least number for which it fails.

**Only model-checked:** liveness (`Terminates`, the liveness half of `Promised`, `FileRestored`), since liveness
under fairness and `ENABLED` are out of the prover's reach; `NeverRefused` and
`TinyLimitIsNone` of the composition, whose hypotheses are sums over an archive that another module made; all of
`DupRun` (`Container` is written with recursive operators, which the prover does not take).

## 5. What the work showed of the code

Three places where the code does not do what its comments say, the first two with
another process at work:

- **A name that leads elsewhere for a while** (`files_retargeted`). `check_unchanged` is
  there so that "the name still leads to the file that was read, unchanged"
  (`modes.rs:690`). It compares two stamps taken by name and never looks at the
  file it has open. A symbolic link pointed elsewhere before the open and back
  before the check makes the run archive another file and succeed, and `-delete`
  then removes the name. Where no link leads to the input, renaming or removing its name and
  editing its file are caught (`files_meddled`, and `ReadsWhatItFound` for any number of them): they
  change the time of change of the file. The model takes every such step to change that time, so
  two within its granularity are not told apart here, and it has no directories: renaming a parent
  directory away and back changes no time of the file and is no more caught than the link. A stamp of the open handle, compared with
  the one by name, would close it.
- **An output that is not truncated** (`files_late`). Files are opened without
  truncating, compared, and "Only then is it truncated" (`util.rs:115`). If a name is
  there at the first open, away at the second and back at the third, the third
  opens the old file with `existed` false (`util.rs:485`), and it is written over
  without being truncated. A shorter output leaves the tail of the old file behind it.
- **A buffer of 0** (`dup_one_buffer`). A comment says that a buffer size of 0 "means
  'single buffer' (no buffer-bounded CDC)" (`dedup.rs:44`). `encode_streaming`, which
  `-dup` uses, takes 8 MiB for 0 (`dedup.rs:818`), as the help says, and starts the
  chunker afresh at each buffer. The archive is restored either way.

Otherwise the code does what it says. Worth knowing:

- Restoring a slot may pass the memory budget by the rounding of the slot's
  records to chunks, and by no more, however many slots are restored in a row
  (`OvershootBounded`). For 8 MiB slots full of 1-byte records that is about 15 MB.
  Nothing else passes it (`StoreWithinBudget`).
- `-vmblock` has no minimum, and with 24 or less the spill file is never used: whatever
  waits must fit the memory, or an intact archive fails (`OnlyMemoryFailing`).
- A v3 archive cut between two blocks, with no match pending, decodes as a
  shorter file. v4 and v5 cannot be cut so (`Promised` with `counted`).
- Matches with one destination leak chunks, but only damaged archives have them.
- The digests of v3 to v5 do not say which block they are of.
- Two damages of a `-dup` archive leave an archive of the body: a trailer cut off, and
  the last word of a v3 archive lost. `NeverItsBody` leaves those out.
- `--verify` reads every word of a v5 archive but the records and literals of its
  blocks (`VerifyCovers`).

## 6. Not modelled

- Hashes, AES, VMAC and CRCs: functions of real bytes. A digest stands for the
  bytes it was taken of; the CRC of a v5 archive is a given function.
- The bits of the rolling hash, of the hash table and of its filters, prefetching,
  the two hashes of content-defined chunking and their vectorised forms: they decide
  which matches are found, and any choice is covered by the open lookup and cuts.
- The transcription of a particular `std::sort`: any order of equal sources is covered.
- Varints, byte order and widths of fields; the `-index=` stream; v6's CRCs.
- Zero pages, seeds, progress reports, text of options and messages, exit codes,
  platform layers other than POSIX.
- The conformance drivers and other test tools, and the original C++ program.

What could still be added: the chunks a scan of real rolling hashes may cut (`Cdc`
leaves more open than the code does), `-index=` between `Container` and `RunFiles`, and
proofs that the second pass implies what the decoder assumes (no empty record, no
destination twice).

------------------------------ MODULE RunFiles ------------------------------
(***************************************************************************)
(* The files of one run of the command line, and the rule they follow: no  *)
(* file that the run writes is one that it reads, nor another that it      *)
(* writes.                                                                 *)
(*                                                                         *)
(* Names cannot tell: two names may be hard links or symbolic links to one *)
(* file, and the standard streams may be redirected to it.  So the run     *)
(* keeps the identities of its files.  Meanwhile another process may       *)
(* rename, remove and edit files.                                          *)
(*                                                                         *)
(* The program is a list of steps still to do: what the options ask for,   *)
(* or, after an error, what the drops and the end of `run` undo.           *)
(***************************************************************************)
EXTENDS Naturals, Sequences

CONSTANTS
  Names,        \* names that lead to files
  Ids,          \* device and inode of a file: its number
  Worlds,       \* directories and files a run may find
  Requests,     \* options it may be given
  Meddling,     \* what the other process may do
  MaxMeddling   \* bound: how often

NoFile == 0
NoName == "none"
Std    == "-"                      \* standard input or output as a name

ASSUME NamesAssumption == Names \subseteq STRING \ {NoName, Std}
ASSUME IdsAssumption == Ids \subseteq Nat \ {NoFile}

Writers == {"output", "index", "scratch"}      \* what the run writes under a name
Roles   == Writers \cup {"input"}

(* text says whose bytes a file has, and stamp stands for its size and its *)
(* times of change.                                                        *)
Authors == Writers \cup {"user", "other", "messages"}
Link == [kind: {"link"}, to: Names, text: {{}}, stamp: Nat]
File == Link \cup [kind: {"regular", "device"}, to: {NoName}, text: SUBSET Authors, stamp: Nat]

World == [dir: [Names -> Ids \cup {NoFile}], file: [Ids -> File]]

Request == [mode: {"compress", "decompress"}, fi: Names \cup {Std}, fo: Names \cup {Std},
            index: Names \cup {NoName}, scratch: Names \cup {NoName},
            dup: BOOLEAN, delete: BOOLEAN, talks: BOOLEAN,
            stdin: Ids \cup {NoFile}, stdout: Ids \cup {NoFile}, stderr: Ids \cup {NoFile}]

ASSUME WorldsAssumption == Worlds \subseteq World
(* An output with the name of the input is refused before anything else,   *)
(* and so is -dup without two names; there is none to decode then.         *)
ASSUME RequestsAssumption ==
  Requests \subseteq {q \in Request : /\ q.fo # q.fi \/ q.fi = Std
                                      /\ q.dup => q.fi # Std /\ q.fo # Std}

VARIABLES
  request,   \* the options
  dir,       \* names -> files
  file,      \* what the files are
  todo,      \* steps of the run still to do
  opening,   \* the open for writing under way
  reads,     \* files noted as read
  writes,    \* files noted as written
  claimed,   \* outputs to remove if the run fails: names and files
  refused,   \* an open was refused by the rule
  before,    \* the input as found
  got,       \* what was read as input
  handle,    \* open files, by role
  spool,     \* the temporary with a name given by the user
  temps,     \* temporaries with names of their own
  failed,    \* an error has stopped the run
  meddled    \* steps of the other process so far

worldVars == <<dir, file>>
ruleVars  == <<reads, writes, claimed, refused>>
dataVars  == <<before, got, handle, spool, temps>>
vars == <<request, worldVars, todo, opening, ruleVars, dataVars, failed, meddled>>

-----------------------------------------------------------------------------
(* Names and files.                                                        *)

(* The name that opening or measuring a name ends at.                      *)
Target(n) ==
  IF dir[n] # NoFile /\ file[dir[n]].kind = "link" THEN file[dir[n]].to ELSE n

Led(n) == dir[Target(n)]

IsRegular(i) == i # NoFile /\ file[i].kind = "regular"

CanOpen(i) == i # NoFile /\ file[i].kind \in {"regular", "device"}

(* stat: the file a name leads to.                                         *)
IdOfPathRegular(n) == IF IsRegular(Led(n)) THEN Led(n) ELSE NoFile

(* lstat: the file a name is, not through a symbolic link.                 *)
IdOfName(n) == IF IsRegular(dir[n]) THEN dir[n] ELSE NoFile

(* Mutant: the times are not looked at. *)
StampId(n) == [id |-> IdOfPathRegular(n), stamp |-> 0]

StampInput(n) == [id |-> IdOfPathRegular(n),
                  stamp |-> IF IsRegular(Led(n)) THEN file[Led(n)].stamp ELSE 0]

InUse(i) ==
  \/ \E n \in Names : dir[n] = i
  \/ \E r \in Roles : handle[r] = i
  \/ i \in temps \cup {request.stdin, request.stdout, request.stderr}

(* A new file takes a number that is free, always the same one, so that    *)
(* numbers come back; its times are later than those of the file before.   *)
HasFresh == \E i \in Ids : ~ InUse(i)
Fresh == CHOOSE i \in Ids : ~ InUse(i)

NewFile(i) == [kind |-> "regular", to |-> NoName, text |-> {}, stamp |-> file[i].stamp + 1]

(* A device takes what is written and keeps nothing.                       *)
Written(f, i, who) ==
  IF i = NoFile \/ f[i].kind # "regular" THEN f
  ELSE [f EXCEPT ![i].text = @ \cup {who}, ![i].stamp = @ + 1]

(* Mutants: an output is compared with one kind of file only, or is not    *)
(* truncated.                                                              *)
TakenWrites(i) == i \in writes
TakenReads(i) == i \in reads
NotEmptied(f, i) == [f EXCEPT ![i].stamp = @ + 1]

Emptied(f, i) == [f EXCEPT ![i].text = {}, ![i].stamp = @ + 1]

Taken(i) == i \in reads \cup writes

-----------------------------------------------------------------------------
(* The steps of a run.                                                     *)

If(c, step) == IF c THEN <<step>> ELSE <<>>

Checks(q) ==
  <<"noteInput">> \o If(q.mode = "decompress" /\ q.index # NoName, "noteIndex")
  \o If(q.talks, "noteStderr") \o If(q.fo = Std, "noteStdout") \o <<"checkNames">>
  \o If(q.fi # Std, "stamp")

Compress(q) ==
  (IF q.fi = Std THEN <<"spool", "copyStdin">> ELSE <<>>)
  \o If(q.index # NoName, "createIndex")
  \o If(q.dup, "dedup") \o If(~ q.dup, "openInput") \o If(q.fo # Std, "createOutput")
  \o <<"encode", "encodeRest", "close">>
  \o (IF q.dup THEN <<"deleteTemps", "checkUnchanged">>
      ELSE <<"checkUnchanged", "removeSpool", "deleteTemps">>)
  \o If(q.delete /\ q.fi # Std, "delete")

(* A -dup archive between two named files is decoded to a temporary first. *)
Decompress(q) ==
  If(q.fi = Std, "newTemp") \o If(~ q.dup /\ q.fi # Std /\ q.fo # Std, "sniff")
  \o <<"openInput">>
  \o If(q.dup, "newTemp") \o If(~ q.dup /\ q.fo = Std, "newTemp")
  \o If(~ q.dup /\ q.fo # Std, "createOutput") \o If(~ q.dup /\ q.index # NoName, "openIndex")
  \o <<"decode", "decodeRest", "removeSpool">> \o If(q.dup, "createOutput")
  \o <<"copyOut">>
  \o (IF q.dup THEN <<"close", "deleteTemps", "checkUnchanged">>
      ELSE <<"checkUnchanged", "close", "deleteTemps">>)
  \o If(q.delete /\ q.fi # Std, "delete")

Script(q) == Checks(q) \o (IF q.mode = "compress" THEN Compress(q) ELSE Decompress(q))

(* Mutant: an error leaves at once, as in the original program. *)
UndoLeaves == <<"close", "removeSpool", "deleteTemps", "report">>

(* What drops and the end of `run` do after an error.                      *)
Undo == <<"close", "removeSpool", "deleteTemps", "removeClaimed", "report">>

Steps == {"noteInput", "noteIndex", "noteStderr", "noteStdout", "checkNames", "stamp",
          "spool", "copyStdin", "createIndex", "dedup", "openInput", "createOutput", "encode",
          "encodeRest", "close", "checkUnchanged", "removeSpool", "deleteTemps", "delete",
          "sniff", "newTemp", "openIndex", "decode", "decodeRest", "copyOut", "removeClaimed",
          "report"}

NotOpening == [try |-> "none", name |-> NoName, role |-> "input", existed |-> FALSE]

Init ==
  /\ request \in Requests
  /\ \E w \in Worlds : dir = w.dir /\ file = w.file
  /\ todo = Script(request)
  /\ opening = NotOpening
  /\ reads = {} /\ writes = {} /\ claimed = {} /\ refused = FALSE
  /\ before = [id |-> NoFile, stamp |-> 0]
  /\ got = {}
  /\ handle = [r \in Roles |-> NoFile]
  /\ spool = [named |-> FALSE, name |-> NoName, id |-> NoFile]
  /\ temps = {}
  /\ failed = FALSE
  /\ meddled = 0

At(step) == todo # <<>> /\ Head(todo) = step /\ opening = NotOpening

Done == todo' = Tail(todo) /\ UNCHANGED failed

Fail == todo' = Undo /\ failed' = TRUE

-----------------------------------------------------------------------------
(* Before anything is opened.                                              *)

(* note_read of a named input, note_read_stdin of a redirected one.        *)
NoteInput ==
  /\ At("noteInput") /\ Done
  /\ LET i == IF request.fi = Std THEN request.stdin ELSE IdOfPathRegular(request.fi)
     IN reads' = IF IsRegular(i) THEN reads \cup {i} ELSE reads
  /\ UNCHANGED <<request, worldVars, opening, writes, claimed, refused, dataVars, meddled>>

NoteIndex ==
  /\ At("noteIndex") /\ Done
  /\ LET i == IdOfPathRegular(request.index)
     IN reads' = IF IsRegular(i) THEN reads \cup {i} ELSE reads
  /\ UNCHANGED <<request, worldVars, opening, writes, claimed, refused, dataVars, meddled>>

(* Mutant: what is no regular file is noted too. *)
NoteAnyWritten(i) ==
  /\ IF Taken(i) THEN Fail /\ refused' = TRUE /\ UNCHANGED writes
     ELSE Done /\ writes' = writes \cup {i} /\ UNCHANGED refused
  /\ UNCHANGED <<request, worldVars, opening, reads, claimed, dataVars, meddled>>

NoteStdWritten(i) ==
  /\ IF ~ IsRegular(i) THEN Done /\ UNCHANGED <<writes, refused>>
     ELSE IF Taken(i) THEN Fail /\ refused' = TRUE /\ UNCHANGED writes
     ELSE Done /\ writes' = writes \cup {i} /\ UNCHANGED refused
  /\ UNCHANGED <<request, worldVars, opening, reads, claimed, dataVars, meddled>>

NoteStderr == At("noteStderr") /\ NoteStdWritten(request.stderr)
NoteStdout == At("noteStdout") /\ NoteStdWritten(request.stdout)

(* The names the run is going to write.                                    *)
Outs(q) ==
  If(q.fo # Std, q.fo)
  \o If(q.mode = "compress" /\ q.index # NoName, q.index)
  \o If((q.mode = "compress" => q.fi = Std) /\ q.scratch # NoName, q.scratch)

CheckNames ==
  /\ At("checkNames")
  /\ LET outs == Outs(request)
         id(k) == IdOfPathRegular(outs[k])
         clash == \E k \in DOMAIN outs :
                    /\ id(k) # NoFile
                    /\ Taken(id(k)) \/ \E j \in 1 .. k - 1 : id(j) = id(k)
     IN IF clash THEN Fail /\ refused' = TRUE ELSE Done /\ UNCHANGED refused
  /\ UNCHANGED <<request, worldVars, opening, reads, writes, claimed, dataVars, meddled>>

Stamp ==
  /\ At("stamp") /\ Done
  /\ before' = StampInput(request.fi)
  /\ UNCHANGED <<request, worldVars, opening, ruleVars, got, handle, spool, temps, meddled>>

-----------------------------------------------------------------------------
(* Opening for writing: open_no_truncate tries three ways.                 *)

StartOpen(name, role) ==
  /\ opening' = [try |-> "exclusive", name |-> name, role |-> role, existed |-> FALSE]
  /\ UNCHANGED <<request, worldVars, todo, ruleVars, dataVars, failed, meddled>>

CreateIndex  == At("createIndex") /\ StartOpen(request.index, "index")
CreateOutput == At("createOutput") /\ StartOpen(request.fo, "output")

(* The file system makes a file under name n.                              *)
MakeFile(n) ==
  /\ HasFresh
  /\ dir' = [dir EXCEPT ![n] = Fresh]
  /\ file' = [file EXCEPT ![Fresh] = NewFile(Fresh)]
  /\ handle' = [handle EXCEPT ![opening.role] = Fresh]

TryExclusive ==
  /\ opening.try = "exclusive"
  /\ IF dir[opening.name] = NoFile
     THEN MakeFile(opening.name) /\ opening' = [opening EXCEPT !.try = "check"]
     ELSE opening' = [opening EXCEPT !.try = "plain"] /\ UNCHANGED <<worldVars, handle>>
  /\ UNCHANGED <<request, todo, ruleVars, before, got, spool, temps, failed, meddled>>

(* It fails for another reason than a file being there.                    *)
ExclusiveFails ==
  /\ opening.try = "exclusive"
  /\ opening' = [opening EXCEPT !.try = "create", !.existed = TRUE]
  /\ UNCHANGED <<request, worldVars, todo, ruleVars, dataVars, failed, meddled>>

TryPlain ==
  /\ opening.try = "plain"
  /\ Led(opening.name) # NoFile => CanOpen(Led(opening.name))
  /\ IF Led(opening.name) = NoFile
     THEN opening' = [opening EXCEPT !.try = "create"] /\ UNCHANGED handle
     ELSE /\ opening' = [opening EXCEPT !.try = "check", !.existed = TRUE]
          /\ handle' = [handle EXCEPT ![opening.role] = Led(opening.name)]
  /\ UNCHANGED <<request, worldVars, todo, ruleVars, before, got, spool, temps, failed, meddled>>

(* The third try is for a symbolic link to nothing, or for its error.      *)
TryCreate ==
  /\ opening.try = "create"
  /\ Led(opening.name) # NoFile => CanOpen(Led(opening.name))
  /\ opening' = [opening EXCEPT !.try = "check"]
  /\ IF Led(opening.name) = NoFile
     THEN MakeFile(Target(opening.name))
     ELSE /\ handle' = [handle EXCEPT ![opening.role] = Led(opening.name)]
          /\ UNCHANGED worldVars
  /\ UNCHANGED <<request, todo, ruleVars, before, got, spool, temps, failed, meddled>>

(* No permission, a directory, a full disk: the caller fails.              *)
OpenFails ==
  /\ opening.try \in {"plain", "create"}
  /\ Fail /\ opening' = NotOpening
  /\ UNCHANGED <<request, worldVars, ruleVars, dataVars, meddled>>

-----------------------------------------------------------------------------
(* Files::open, once it has the file open: refuse it, or truncate it and   *)
(* note it.                                                                *)

opened == handle[opening.role]

Refuse ==
  /\ opening.try = "check" /\ IsRegular(opened) /\ Taken(opened)
  /\ refused' = TRUE
  /\ handle' = [handle EXCEPT ![opening.role] = NoFile]
  /\ dir' = IF ~ opening.existed /\ IdOfName(opening.name) = opened
            THEN [dir EXCEPT ![opening.name] = NoFile] ELSE dir
  /\ opening' = NotOpening
  /\ Fail
  /\ UNCHANGED <<request, file, reads, writes, claimed, before, got, spool, temps, meddled>>

(* A scratch file is removed by name, an output with the other outputs.  A *)
(* spool that is no regular file could not be read again.                  *)
Accept ==
  /\ opening.try = "check" /\ ~ (IsRegular(opened) /\ Taken(opened))
  /\ file' = IF opening.existed /\ IsRegular(opened)
             THEN Emptied(file, opened) ELSE file
  /\ writes' = IF IsRegular(opened) THEN writes \cup {opened} ELSE writes
  /\ claimed' = IF IsRegular(opened) /\ opening.role # "scratch"
                THEN claimed \cup {<<opening.name, opened>>} ELSE claimed
  /\ spool' = IF opening.role = "scratch"
              THEN [named |-> IsRegular(opened), name |-> opening.name, id |-> opened]
              ELSE spool
  /\ opening' = NotOpening
  /\ IF opening.role = "scratch" /\ request.mode = "decompress"
     THEN UNCHANGED <<todo, failed, handle>>
     ELSE IF opening.role = "scratch" /\ ~ IsRegular(opened)
     THEN Fail /\ handle' = [handle EXCEPT !["scratch"] = NoFile]
     ELSE Done /\ UNCHANGED handle
  /\ UNCHANGED <<request, dir, reads, refused, before, got, temps, meddled>>

(* ftruncate fails: nothing is claimed.                                    *)
TruncateFails ==
  /\ opening.try = "check" /\ ~ (IsRegular(opened) /\ Taken(opened))
  /\ opening.existed /\ IsRegular(opened)
  /\ handle' = [handle EXCEPT ![opening.role] = NoFile]
  /\ opening' = NotOpening
  /\ Fail
  /\ UNCHANGED <<request, worldVars, ruleVars, before, got, spool, temps, meddled>>

-----------------------------------------------------------------------------
(* Temporaries of the run's own: made exclusively, under names that nobody *)
(* else knows.                                                             *)

MakeTemp ==
  /\ HasFresh
  /\ temps' = temps \cup {Fresh}
  /\ writes' = writes \cup {Fresh}
  /\ file' = [file EXCEPT ![Fresh] = NewFile(Fresh)]

NewTemp ==
  /\ At("newTemp") /\ MakeTemp /\ Done
  /\ UNCHANGED <<request, dir, opening, reads, claimed, refused, before, got, handle, spool,
                 meddled>>

(* Standard input is spooled to -temp= or to a temporary.                  *)
Spool ==
  /\ At("spool")
  /\ IF request.scratch # NoName THEN StartOpen(request.scratch, "scratch")
     ELSE /\ MakeTemp /\ Done
          /\ UNCHANGED <<request, dir, opening, reads, claimed, refused, before, got, handle,
                         spool, meddled>>

CopyStdin ==
  /\ At("copyStdin") /\ Done
  /\ file' = Written(file, handle["scratch"], "scratch")
  /\ handle' = [handle EXCEPT !["scratch"] = NoFile]
  /\ UNCHANGED <<request, dir, opening, ruleVars, before, got, spool, temps, meddled>>

DeleteTemps ==
  /\ At("deleteTemps") /\ Done
  /\ temps' = {} /\ writes' = writes \ temps
  /\ UNCHANGED <<request, worldVars, opening, reads, claimed, refused, before, got, handle,
                 spool, meddled>>

(* OpenedName::remove: only while the name is the file that was            *)
(* opened, and never through a symbolic link.                              *)
Without(gone) ==
  [n \in Names |-> IF <<n, IdOfName(n)>> \in gone THEN NoFile ELSE dir[n]]

(* RemoveScratch, or the removal of the decoder's own spill file.          *)
RemoveSpool ==
  /\ At("removeSpool") /\ Done
  /\ dir' = IF spool.named THEN Without({<<spool.name, spool.id>>}) ELSE dir
  /\ writes' = IF spool.named THEN writes \ {spool.id} ELSE writes \ (temps \cap {handle["scratch"]})
  /\ temps' = temps \ {handle["scratch"]}
  /\ handle' = [handle EXCEPT !["scratch"] = NoFile]
  /\ spool' = [spool EXCEPT !.named = FALSE]
  /\ UNCHANGED <<request, file, opening, reads, claimed, refused, before, got, meddled>>

-----------------------------------------------------------------------------
(* Reading and writing.                                                    *)

(* The file behind the path the run reads: the input or where standard     *)
(* input was spooled.                                                      *)
InputFile ==
  IF request.fi # Std THEN Led(request.fi)
  ELSE IF spool.named THEN Led(spool.name)
  ELSE IF temps # {} THEN CHOOSE i \in temps : TRUE
  ELSE NoFile

Read(i) == got' = IF i = NoFile THEN got ELSE got \cup {[id |-> i, stamp |-> file[i].stamp]}

OpenInput ==
  /\ At("openInput") /\ CanOpen(InputFile) /\ Done
  /\ handle' = [handle EXCEPT !["input"] = InputFile]
  /\ UNCHANGED <<request, worldVars, opening, ruleVars, before, got, spool, temps, meddled>>

(* Between two named files the archive is first looked at for a -dup meta,  *)
(* through an open of its own.                                             *)
Sniff ==
  /\ At("sniff") /\ CanOpen(InputFile) /\ Done
  /\ Read(InputFile)
  /\ UNCHANGED <<request, worldVars, opening, ruleVars, before, handle, spool, temps, meddled>>

OpenIndex ==
  /\ At("openIndex") /\ CanOpen(Led(request.index)) /\ Done
  /\ UNCHANGED <<request, worldVars, opening, ruleVars, dataVars, meddled>>

(* -dup: the input is read, deduplicated to a temporary, and closed.       *)
Dedup ==
  /\ At("dedup") /\ CanOpen(InputFile) /\ MakeTemp /\ Done
  /\ Read(InputFile)
  /\ UNCHANGED <<request, dir, opening, reads, claimed, refused, before, handle, spool,
                 meddled>>

OutputFile == IF request.fo = Std THEN request.stdout ELSE handle["output"]

(* The input is read twice, and what is written comes out meanwhile.       *)
Encode ==
  /\ At("encode") \/ At("encodeRest")
  /\ Done
  /\ Read(handle["input"])
  /\ file' = Written(Written(file, OutputFile, "output"), handle["index"], "index")
  /\ UNCHANGED <<request, dir, opening, ruleVars, before, handle, spool, temps, meddled>>

(* The decoder writes to its output, unless that is a temporary.           *)
Decode ==
  /\ At("decode") \/ At("decodeRest")
  /\ Done
  /\ Read(handle["input"])
  /\ file' = Written(Written(file, handle["output"], "output"), handle["scratch"], "scratch")
  /\ UNCHANGED <<request, dir, opening, ruleVars, before, handle, spool, temps, meddled>>

(* The decoder may need its spill file, and makes it when it does.         *)
Spill ==
  /\ At("decodeRest") /\ handle["scratch"] = NoFile
  /\ IF request.scratch # NoName THEN StartOpen(request.scratch, "scratch")
     ELSE /\ MakeTemp
          /\ handle' = [handle EXCEPT !["scratch"] = Fresh]
          /\ UNCHANGED <<request, dir, todo, opening, reads, claimed, refused, before, got,
                         spool, failed, meddled>>

(* The temporary goes to standard output, or is expanded to the output.    *)
CopyOut ==
  /\ At("copyOut") /\ Done
  /\ file' = Written(file, IF request.fo = Std \/ request.dup THEN OutputFile ELSE NoFile,
                     "output")
  /\ UNCHANGED <<request, dir, opening, ruleVars, dataVars, meddled>>

(* Any of these may fail, before or in the middle of its work.             *)
Breaks ==
  /\ opening = NotOpening /\ todo # <<>>
  /\ Head(todo) \in {"newTemp", "spool", "copyStdin", "sniff", "openInput", "openIndex", "dedup",
                     "encode", "encodeRest", "decode", "decodeRest", "copyOut"}
  /\ Fail
  /\ UNCHANGED <<request, worldVars, opening, ruleVars, dataVars, meddled>>

-----------------------------------------------------------------------------
(* The end of a run.                                                       *)

Close ==
  /\ At("close") /\ Done
  /\ handle' = [r \in Roles |-> NoFile]
  /\ UNCHANGED <<request, worldVars, opening, ruleVars, before, got, spool, temps, meddled>>

(* The name still leads to the file it led to before the run read it, and  *)
(* that file has not changed.  Then come the last lines on standard error. *)
CheckUnchanged ==
  /\ At("checkUnchanged")
  /\ IF before.id # NoFile /\ StampInput(request.fi) # before
     THEN Fail /\ UNCHANGED file
     ELSE Done /\ file' = Written(file, IF request.talks THEN request.stderr ELSE NoFile,
                                  "messages")
  /\ UNCHANGED <<request, dir, opening, ruleVars, dataVars, meddled>>

DeleteInput ==
  /\ At("delete") /\ Done
  /\ dir' = [dir EXCEPT ![request.fi] = NoFile]
  /\ UNCHANGED <<request, file, opening, ruleVars, dataVars, meddled>>

RemoveClaimed ==
  /\ At("removeClaimed") /\ Done
  /\ dir' = Without(claimed)
  /\ claimed' = {}
  /\ UNCHANGED <<request, file, opening, reads, writes, refused, dataVars, meddled>>

Report ==
  /\ At("report") /\ Done
  /\ file' = Written(file, request.stderr, "messages")
  /\ UNCHANGED <<request, dir, opening, ruleVars, dataVars, meddled>>

-----------------------------------------------------------------------------
(* Another process.  It knows nothing of the run's own temporaries.        *)

Meddle ==
  /\ todo # <<>> /\ meddled < MaxMeddling
  /\ meddled' = meddled + 1
  /\ UNCHANGED <<request, todo, opening, ruleVars, dataVars, failed>>

Touched(i) == [file EXCEPT ![i].stamp = @ + 1]

Edit(n) ==
  /\ Meddle /\ "edit" \in Meddling /\ IsRegular(dir[n])
  /\ file' = Written(file, dir[n], "other")
  /\ UNCHANGED dir

(* A rename changes the time of change of the file that moves, and removing *)
(* one of its names that of a file with several.                            *)
RenameFile(n, m) ==
  /\ Meddle /\ "rename" \in Meddling /\ dir[n] # NoFile /\ dir[n] # dir[m]
  /\ dir' = [dir EXCEPT ![n] = NoFile, ![m] = dir[n]]
  /\ file' = Touched(dir[n])

RemoveFile(n) ==
  /\ Meddle /\ "remove" \in Meddling /\ dir[n] # NoFile
  /\ dir' = [dir EXCEPT ![n] = NoFile]
  /\ file' = Touched(dir[n])

(* A symbolic link is pointed elsewhere: no file it led to changes.         *)
Retarget(n, m) ==
  /\ Meddle /\ "retarget" \in Meddling /\ dir[n] # NoFile /\ m # n
  /\ file[dir[n]].kind = "link" /\ file[dir[n]].to # m
  /\ file' = [file EXCEPT ![dir[n]].to = m]
  /\ UNCHANGED dir

Other ==
  \E n \in Names :
    Edit(n) \/ RemoveFile(n) \/ \E m \in Names : RenameFile(n, m) \/ Retarget(n, m)

-----------------------------------------------------------------------------
Checking == NoteInput \/ NoteIndex \/ NoteStderr \/ NoteStdout \/ CheckNames \/ Stamp
Opening  == CreateIndex \/ CreateOutput \/ TryExclusive \/ ExclusiveFails \/ TryPlain \/ TryCreate
            \/ OpenFails \/ Refuse \/ Accept \/ TruncateFails
Temps    == NewTemp \/ Spool \/ CopyStdin \/ DeleteTemps \/ RemoveSpool
Working  == Sniff \/ OpenInput \/ OpenIndex \/ Dedup \/ Encode \/ Decode \/ Spill \/ CopyOut \/ Breaks
Ending   == Close \/ CheckUnchanged \/ DeleteInput \/ RemoveClaimed \/ Report
Stopped  == todo = <<>> /\ UNCHANGED vars

Run  == Checking \/ Opening \/ Temps \/ Working \/ Ending
Next == Run \/ Other \/ Stopped
Spec == Init /\ [][Next]_vars

-----------------------------------------------------------------------------
(* Properties.                                                             *)

(* What the run keeps of its files stays of its type; only what can be a   *)
(* number of a file is ever noted as read or written.                      *)
TypeOK ==
  /\ request \in Requests
  /\ dir \in [Names -> Ids \cup {NoFile}] /\ file \in [Ids -> File]
  /\ todo \in Seq(Steps)
  /\ opening \in [try: {"none", "exclusive", "plain", "create", "check"},
                  name: Names \cup {NoName}, role: Roles, existed: BOOLEAN]
  /\ reads \subseteq Ids /\ writes \subseteq Ids /\ temps \subseteq Ids
  /\ claimed \subseteq Names \X Ids
  /\ refused \in BOOLEAN /\ failed \in BOOLEAN /\ meddled \in Nat
  /\ before \in [id: Ids \cup {NoFile}, stamp: Nat]
  /\ got \subseteq [id: Ids, stamp: Nat]
  /\ handle \in [Roles -> Ids \cup {NoFile}]
  /\ spool \in [named: BOOLEAN, name: Names \cup {NoName}, id: Ids \cup {NoFile}]

(* The run never changes a file it noted as read, whatever its names and   *)
(* whatever another process does to them meanwhile.  Only the message of   *)
(* an error goes where standard error goes.  (The number of an input that  *)
(* was removed may come back as a temporary of the run's own.)             *)
InputsUntouched ==
  [][meddled' = meddled /\ ~ At("report") =>
       \A i \in reads \ temps : InUse(i) => file'[i].text = file[i].text]_vars

(* What the run holds open to write, with the standard streams it writes,  *)
(* are different files: no output lands in another.                        *)
OpenToWrite == {r \in Writers : IsRegular(handle[r]) /\ ~ (opening.try = "check" /\ opening.role = r)}

OneWriter ==
  \A r \in OpenToWrite :
    /\ \A s \in OpenToWrite : r # s => handle[r] # handle[s]
    /\ request.talks => handle[r] # request.stderr
    /\ request.fo = Std => handle[r] # request.stdout

Success == todo = <<>> /\ ~ failed
Failure == todo = <<>> /\ failed

(* The files found at the start, which nobody else changes. *)
Quiet == meddled = 0

(* When a run ends well each of its outputs has its own bytes and no       *)
(* others, the input is as it was, and no temporary is left (-temp= and    *)
(* -vmfile= are not removed through a symbolic link).                      *)
SuccessDelivers ==
  Success /\ Quiet =>
    /\ request.fo # Std /\ IsRegular(Led(request.fo)) => file[Led(request.fo)].text = {"output"}
    /\ request.mode = "compress" /\ request.index # NoName /\ IsRegular(Led(request.index)) =>
         file[Led(request.index)].text = {"index"}
    /\ request.fo = Std /\ IsRegular(request.stdout) =>
         file[request.stdout].text \subseteq {"user", "output"}
    /\ before.id # NoFile => file[before.id].text = {"user"}
    /\ temps = {}
    /\ "scratch" \in UNION {file[dir[n]].text : n \in {n \in Names : IsRegular(dir[n])}} =>
         IdOfName(request.scratch) = NoFile

(* When it ends badly no name the run was to write is left with a part of  *)
(* an output, unless the file has another name; what the run reads is      *)
(* still there; and no temporary is left.                                  *)
FailureCleans ==
  Failure /\ Quiet =>
    /\ \A k \in DOMAIN Outs(request) :
         LET n == Outs(request)[k]
         IN IsRegular(dir[n]) /\ (\A m \in Names \ {n} : Led(m) # dir[n]) =>
              file[dir[n]].text \subseteq {"user", "messages"}
    /\ before.id # NoFile =>
         Led(request.fi) = before.id /\ file[before.id].text \subseteq {"user", "messages"}
    /\ temps = {}

(* A run that ends well read one file, the one its name led to before, and *)
(* read it as it was then.                                                 *)
ReadWhatItFound == Success /\ before.id # NoFile => got = {before}

(* An output is empty when the run begins to write it.                     *)
OutputsStartEmpty == \A c \in claimed : "user" \notin file[c[2]].text
=============================================================================

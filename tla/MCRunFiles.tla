----------------------------- MODULE MCRunFiles -----------------------------
(***************************************************************************)
(* Runs over every way two files, a device, hard links and one symbolic    *)
(* link can stand behind three names and the standard streams.             *)
(***************************************************************************)
EXTENDS RunFiles, FiniteSets

CONSTANTS Modes, Inputs, Outputs, Seconds, Scratches, Flags, Streams, LinkTargets, Kinds

MCNames == {"a", "b", "c"}
MCIds == 1 .. 7
LinkId == 3

MCFile(kind, t) ==
  [i \in MCIds |->
     IF i = LinkId THEN [kind |-> "link", to |-> t, text |-> {}, stamp |-> 0]
     ELSE [kind |-> IF i = 2 THEN kind ELSE "regular", to |-> NoName,
           text |-> IF i < LinkId THEN {"user"} ELSE {}, stamp |-> 0]]

(* The file behind name a is the first, and a link leads to no link.       *)
EveryWorld ==
  {[dir |-> d, file |-> MCFile(kind, t)] :
     d \in {d \in [MCNames -> {NoFile, 1, 2, LinkId}] : d["a"] \in {1, LinkId}},
     kind \in Kinds, t \in LinkTargets}

MCWorlds ==
  {w \in EveryWorld :
     LET links == {n \in MCNames : w.dir[n] = LinkId}
         to    == w.file[LinkId].to
     IN /\ Cardinality(links) <= 1
        /\ IF links = {} THEN to = "a" ELSE to \notin links
        /\ w.file[2].kind = "regular" \/ \E n \in MCNames : w.dir[n] = 2}

MCRequests ==
  {q \in [mode: Modes, fi: Inputs, fo: Outputs, index: Seconds, scratch: Scratches,
          dup: Flags, delete: Flags, talks: Flags,
          stdin: Streams, stdout: Streams, stderr: Streams] :
     /\ q.dup => q.fi # Std /\ q.fo # Std
     /\ q.dup /\ q.mode = "compress" => q.index = NoName
     /\ q.delete = (q.fi # Std)
     /\ q.stderr = NoFile => q.talks
     /\ q.fi = Std \/ q.stdin = NoFile
     /\ q.fo = Std \/ q.stdout = NoFile
     /\ q.mode = "compress" /\ q.fi # Std => q.scratch = NoName}
=============================================================================

---------------------------- MODULE BlockDecoder ----------------------------
(***************************************************************************)
(* What a decoder of a block archive promises, whatever its format and its *)
(* memory: the output grows by whole pieces of the original file, in       *)
(* order, and the decoder either reports success or stops with an error.   *)
(* An archive that says how long it is never reports success early.        *)
(***************************************************************************)
EXTENDS Integers, Sequences

VARIABLES
  file,     \* the original file
  counted,  \* does the archive say where it ends?
  output,   \* what has been written
  status    \* "running", "done" or "failed"

vars == <<file, counted, output, status>>

InitDecode == output = <<>> /\ status = "running"

Deliver ==
  /\ status = "running"
  /\ \E n \in Len(output) .. Len(file) : output' = SubSeq(file, 1, n)
  /\ UNCHANGED <<file, counted, status>>

Succeed ==
  /\ status = "running" /\ (counted => output = file)
  /\ status' = "done"
  /\ UNCHANGED <<file, counted, output>>

GiveUp ==
  /\ status = "running"
  /\ status' = "failed"
  /\ UNCHANGED <<file, counted, output>>

Next == Deliver \/ Succeed \/ GiveUp

Spec == InitDecode /\ [][Next]_vars /\ WF_vars(Succeed \/ GiveUp)
=============================================================================

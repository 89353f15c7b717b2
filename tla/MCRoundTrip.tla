---------------------------- MODULE MCRoundTrip ----------------------------
(* RoundTrip after every first pass over a small file.                     *)
EXTENDS RoundTrip, MCMatches

AllFirstPasses == {[b \in Blocks |-> ByDest(EndingIn(ms, b))] : ms \in MatchSets}

(* A memory of a slot, one of less, and one below its granularity.         *)
Formats == {[kind |-> "v3", memory |-> 9], [kind |-> "v4", memory |-> 2],
            [kind |-> "v5", memory |-> 12]}
=============================================================================

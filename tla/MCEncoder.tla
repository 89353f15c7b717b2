----------------------------- MODULE MCEncoder -----------------------------
(* Encoder on small files of repeated and disturbed patterns.              *)
EXTENDS Encoder

CONSTANTS Lengths, Period

(* A pattern over and over, with one byte of it changed.                   *)
Patterns == UNION {{w \in [1 .. p -> {0, 1}] : w[1] = 0} : p \in Period}
Repeated(w, n) == [k \in 1 .. n |-> w[((k - 1) % Len(w)) + 1]]
Repeats == UNION {{[Repeated(w, n) EXCEPT ![k] = c] : k \in 1 .. n, c \in {2}} : w \in Patterns, n \in Lengths}

(* A window whose bytes have left the ring when its hash comes again.      *)
Stale == <<0, 3, 0, 0, 0, 0, 0, 0, 0, 1, 1, 0, 0, 1, 1>>

Inputs == Repeats \cup {Stale}

Opt(kind, b, m, l, d, dm, dc, a) ==
  [kind |-> kind, bufsize |-> b, minMatch |-> m, l |-> l, dict |-> d, dictMatch |-> dm,
   dictChunk |-> dc, accel |-> a]

Sum2(w) == LET s[k \in 0 .. Len(w)] == IF k = 0 THEN 0 ELSE 3 * s[k - 1] + w[k] + 1 IN s[Len(w)]

Lines == {Opt("digest", 7, 3, 0, 0, 0, 0, 0), Opt("digest", 8, 3, 0, 0, 0, 0, 0), Opt("digest", 7, 2, 3, 0, 0, 0, 0),
          Opt("fixed", 7, 3, 0, 0, 0, 0, 0), Opt("exhaustive", 7, 4, 0, 0, 0, 0, 1),
          Opt("inmem", 3, 2, 0, 4, 2, 1, 0), Opt("fixed", 6, 3, 0, 6, 2, 1, 0),
          Opt("digest", 6, 3, 0, 0, 0, 0, 2),
          Opt("cdc", 12, 0, 3, 0, 0, 0, 0), Opt("zpaq", 12, 2, 3, 0, 0, 0, 0)}
=============================================================================

------------------------------ MODULE LzCodec ------------------------------
(***************************************************************************)
(* The record of one match, as the first pass writes it and every reader   *)
(* of an I/O-LZ list reads it.  A rounded list (v1) counts distances and   *)
(* lengths in units of the base length.  The width of a word is left out.  *)
(***************************************************************************)
EXTENDS Integers

Unit(round, base) == IF round THEN base ELSE 1

(* A match shorter than the base length cannot be written. *)
Encodable(base, len) == len >= base

Encoded(round, base, lit, offset, len) ==
  LET u == Unit(round, base)
  IN  [lit |-> lit, off |-> offset \div u, len |-> (len - base) \div u]

(* dest is rounded down to a unit before the distance is taken; a source   *)
(* before the file wraps to one past dest, here it is negative.            *)
Decoded(round, base, r, anchor) ==
  LET u == Unit(round, base)
      dest == anchor + r.lit
  IN  [dest |-> dest, src |-> (dest \div u) * u - r.off * u, len |-> r.len * u + base]
=============================================================================

---------------------------- MODULE BufferProofs ----------------------------
(* What the buffers of both decoders hold, and that the copy they make is  *)
(* the loop of the code, for every overlap.                                *)
EXTENDS Buffers, WellFoundedInduction, TLAPS

(* Bytes copied out of a buffer are bytes, in the number asked for.        *)
LEMMA PartBytes ==
  ASSUME NEW s \in Seq(Bytes), NEW from \in Int, NEW len \in Nat
  PROVE  Part(s, from, len) \in Seq(Bytes) /\ Len(Part(s, from, len)) = len
<1>1. \A i : ByteAt(s, i) \in Bytes
  BY DEF ByteAt, Bytes
<1> QED BY <1>1 DEF Part

(* So are the bytes of an overlapping copy, and those of a file written at *)
(* any position.                                                           *)
LEMMA LzCopyBytes ==
  ASSUME NEW s \in Seq(Bytes), NEW from \in Int, NEW len \in Nat
  PROVE  LzCopy(s, from, len) \in Seq(Bytes) /\ Len(LzCopy(s, from, len)) = len
<1>1. \A i : ByteAt(s, i) \in Bytes
  BY DEF ByteAt, Bytes
<1> QED BY <1>1 DEF LzCopy

LEMMA WriteAtBytes ==
  ASSUME NEW s \in Seq(Bytes), NEW pos \in Nat, NEW b \in Seq(Bytes)
  PROVE  WriteAt(s, pos, b) \in Seq(Bytes)
<1> DEFINE end == IF pos + Len(b) > Len(s) THEN pos + Len(b) ELSE Len(s)
<1>1. \A i : ByteAt(s, i) \in Bytes
  BY DEF ByteAt, Bytes
<1>2. end \in Nat
  OBVIOUS
<1>3. ASSUME NEW i \in 1 .. end
      PROVE  (IF pos < i /\ i <= pos + Len(b) THEN b[i - pos] ELSE ByteAt(s, i)) \in Bytes
  <2>1. CASE pos < i /\ i <= pos + Len(b)
    <3>1. i - pos \in 1 .. Len(b)
      BY <2>1
    <3> QED BY <2>1, <3>1
  <2>2. CASE ~ (pos < i /\ i <= pos + Len(b))
    BY <2>2, <1>1
  <2> QED BY <2>1, <2>2
<1> QED BY <1>2, <1>3 DEF WriteAt

LEMMA WriteAtLength ==
  ASSUME NEW s \in Seq(Bytes), NEW b \in Seq(Bytes)
  PROVE  Len(WriteAt(s, Len(s), b)) = Len(s) + Len(b)
  BY DEF WriteAt

LEMMA ModuloRange ==
  ASSUME NEW d \in Nat \ {0}, NEW k \in Nat
  PROVE  k % d \in 0 .. d - 1
BY Z3

LEMMA ModuloPeriod ==
  ASSUME NEW d \in Nat \ {0}, NEW k \in Nat, k >= d
  PROVE  (k - d) % d = k % d
<1> DEFINE q == k \div d
           r == k % d
<1>1. q \in Nat /\ r \in 0 .. d - 1 /\ k = d * q + r
  BY Z3
<1>2. q >= 1
  <2>1. CASE q = 0
    BY <2>1, <1>1
  <2> QED BY <2>1, <1>1
<1>3. d * (q - 1) = d * q - d
  BY <1>1, Z3
<1>4. k - d = d * (q - 1) + r
  <2> HIDE DEF q, r
  <2> QED BY <1>1, <1>3
<1> HIDE DEF q, r
<1>5. (d * (q - 1) + r) % d = r
  BY <1>1, <1>2, Z3
<1> QED BY <1>4, <1>5 DEF r

(* Every byte of a copy is the one that many bytes behind it, be that one  *)
(* of the buffer or one just copied: the loop Buf[Dest + i] := Buf[Src + i] *)
(* run forward (lz_copy of decompress.rs), whether or not source and       *)
(* destination overlap.                                                    *)
THEOREM LzCopyRunsForward ==
  ASSUME NEW S, NEW buf \in Seq(S), NEW from \in 0 .. Len(buf) - 1, NEW len \in Nat,
         NEW i \in 1 .. len
  PROVE  LET out == buf \o LzCopy(buf, from, len)
         IN  out[Len(buf) + i] = out[from + i]
<1> DEFINE d == Len(buf) - from
           c == LzCopy(buf, from, len)
           out == buf \o c
<1>1. d \in Nat \ {0} /\ Len(buf) \in Nat /\ from \in Nat /\ from + d = Len(buf)
  OBVIOUS
<1>2. \A k \in 1 .. len :
        (k - 1) % d \in 0 .. d - 1 /\ c[k] = buf[from + 1 + ((k - 1) % d)]
  <2> TAKE k \in 1 .. len
  <2>1. (k - 1) % d \in 0 .. d - 1
    <3>1. k - 1 \in Nat
      OBVIOUS
    <3> HIDE DEF d
    <3> QED BY <3>1, <1>1, ModuloRange
  <2>2. c[k] = ByteAt(buf, from + 1 + ((k - 1) % d))
    BY DEF LzCopy
  <2> HIDE DEF d, c
  <2>3. from + 1 + ((k - 1) % d) \in 1 .. Len(buf)
    BY <1>1, <2>1
  <2> QED BY <2>1, <2>2, <2>3 DEF ByteAt
<1>3. c \in Seq(S) /\ Len(c) = len
  <2>1. DOMAIN c = 1 .. len
    BY DEF LzCopy
  <2>2. \A k \in 1 .. len : c[k] \in S
    <3> TAKE k \in 1 .. len
    <3> HIDE DEF c, d
    <3>1. from + 1 + ((k - 1) % d) \in 1 .. Len(buf)
      BY <1>1, <1>2
    <3>2. c[k] = buf[from + 1 + ((k - 1) % d)]
      BY <1>2
    <3>3. \A j \in 1 .. Len(buf) : buf[j] \in S
      OBVIOUS
    <3> QED BY <3>1, <3>2, <3>3
  <2>3. c = [k \in 1 .. len |-> c[k]]
    BY DEF LzCopy
  <2> HIDE DEF c, d
  <2> QED BY <2>1, <2>2, <2>3
<1> HIDE DEF c, d
<1>4. \A k \in 1 .. Len(buf) : out[k] = buf[k]
  BY <1>3
<1>5. \A k \in 1 .. len : out[Len(buf) + k] = c[k]
  BY <1>1, <1>3
<1>6. ASSUME i <= d PROVE out[Len(buf) + i] = out[from + i]
  <2>1. (i - 1) % d = i - 1
    BY <1>1, <1>6, Z3
  <2>2. c[i] = buf[from + i]
    <3>1. from + 1 + (i - 1) = from + i
      BY <1>1
    <3> QED BY <3>1, <2>1, <1>2
  <2>3. from + i \in 1 .. Len(buf)
    BY <1>1, <1>6
  <2> HIDE DEF out
  <2> QED BY <2>2, <2>3, <1>4, <1>5
<1>7. ASSUME i > d PROVE out[Len(buf) + i] = out[from + i]
  <2>1. i - d \in 1 .. len /\ i - 1 \in Nat /\ i - 1 >= d
    BY <1>1, <1>7
  <2>2. ((i - 1) - d) % d = (i - 1) % d
    BY <1>1, <2>1, ModuloPeriod
  <2>3. (i - d) - 1 = (i - 1) - d
    BY <1>1
  <2>4. c[i - d] = c[i]
    BY <1>2, <2>1, <2>2, <2>3
  <2>5. from + i = Len(buf) + (i - d)
    BY <1>1
  <2> HIDE DEF out
  <2> QED BY <1>5, <2>1, <2>4, <2>5
<1>8. i <= d \/ i > d
  BY <1>1
<1> QED BY <1>6, <1>7, <1>8 DEF c

(* Sequences are equal when their lengths and all their members are.       *)
LEMMA SameSequence ==
  ASSUME NEW S, NEW T, NEW s \in Seq(S), NEW t \in Seq(T), Len(s) = Len(t),
         \A i \in 1 .. Len(s) : s[i] = t[i]
  PROVE  s = t
  OBVIOUS

LEMMA Joined ==
  ASSUME NEW S, NEW s \in Seq(S), NEW t \in Seq(S)
  PROVE  s \o t \in Seq(S) /\ Len(s \o t) = Len(s) + Len(t)
  OBVIOUS

(* Writing at the end of a file appends; and the beginning of a file, with *)
(* the piece that follows it, is a longer beginning.                       *)
LEMMA WriteAtEnd ==
  ASSUME NEW s \in Seq(Bytes), NEW b \in Seq(Bytes)
  PROVE  WriteAt(s, Len(s), b) = s \o b
<1> DEFINE w == WriteAt(s, Len(s), b)
<1>1. w \in Seq(Bytes) /\ Len(w) = Len(s) + Len(b)
  BY WriteAtBytes, WriteAtLength
<1>2. s \o b \in Seq(Bytes) /\ Len(s \o b) = Len(s) + Len(b)
  OBVIOUS
<1>3. ASSUME NEW i \in 1 .. Len(s) + Len(b)
      PROVE  w[i] = (s \o b)[i]
  <2>1. w[i] = IF Len(s) < i /\ i <= Len(s) + Len(b) THEN b[i - Len(s)] ELSE ByteAt(s, i)
    BY DEF WriteAt
  <2>2. CASE i <= Len(s)
    BY <2>1, <2>2 DEF ByteAt
  <2>3. CASE i > Len(s)
    BY <2>1, <2>3
  <2> QED BY <2>2, <2>3
<1> DEFINE v == s \o b
<1> HIDE DEF w, v
<1>4. w \in Seq(Bytes) /\ v \in Seq(Bytes) /\ Len(w) = Len(v) /\ \A i \in 1 .. Len(w) : w[i] = v[i]
  BY <1>1, <1>2, <1>3 DEF v
<1>5. w = v
  BY <1>4, SameSequence
<1> QED BY <1>5 DEF w, v

LEMMA BeginningGrows ==
  ASSUME NEW S, NEW f \in Seq(S), NEW n \in Nat, NEW m \in Nat, n <= m, m <= Len(f)
  PROVE  /\ SubSeq(f, 1, n) \o SubSeq(f, n + 1, m) = SubSeq(f, 1, m)
         /\ Len(SubSeq(f, 1, m)) = m /\ Len(SubSeq(f, n + 1, m)) = m - n
<1> DEFINE p == SubSeq(f, 1, n)
           q == SubSeq(f, n + 1, m)
           r == SubSeq(f, 1, m)
<1>1. p \in Seq(S) /\ Len(p) = n /\ \A i \in 1 .. n : p[i] = f[i]
  OBVIOUS
<1>2. q \in Seq(S) /\ Len(q) = m - n /\ \A i \in 1 .. m - n : q[i] = f[n + i]
  OBVIOUS
<1>3. r \in Seq(S) /\ Len(r) = m /\ \A i \in 1 .. m : r[i] = f[i]
  OBVIOUS
<1> HIDE DEF p, q, r
<1>4. p \o q \in Seq(S) /\ Len(p \o q) = m
  <2>1. p \o q \in Seq(S) /\ Len(p \o q) = Len(p) + Len(q)
    BY <1>1, <1>2, Joined
  <2>2. Len(p) + Len(q) = m
    BY <1>1, <1>2
  <2> QED BY <2>1, <2>2
<1>5. ASSUME NEW i \in 1 .. m
      PROVE  (p \o q)[i] = r[i]
  <2>1. CASE i <= n
    BY <2>1, <1>1, <1>2, <1>3
  <2>2. CASE i > n
    <3>1. (p \o q)[i] = q[i - n] /\ i - n \in 1 .. m - n
      BY <2>2, <1>1, <1>2
    <3>2. q[i - n] = f[n + (i - n)] /\ n + (i - n) = i
      BY <3>1, <1>2
    <3> QED BY <3>1, <3>2, <1>3
  <2>3. i <= n \/ i > n
    OBVIOUS
  <2> QED BY <2>1, <2>2, <2>3
<1>6. p \o q = r
  <2> DEFINE pq == p \o q
  <2>1. pq \in Seq(S) /\ Len(pq) = Len(r) /\ \A i \in 1 .. Len(pq) : pq[i] = r[i]
    BY <1>3, <1>4, <1>5
  <2> HIDE DEF pq
  <2>2. pq = r
    BY <2>1, <1>3, SameSequence
  <2> QED BY <2>2 DEF pq
<1> QED BY <1>2, <1>3, <1>6 DEF p, q, r
-----------------------------------------------------------------------------
(* A set of naturals has a least: what takes the place of induction.       *)
LEMMA LeastOf ==
  ASSUME NEW T \in SUBSET Nat, T # {}
  PROVE  \E m \in T : \A k \in T : m <= k
<1> DEFINE R == OpToRel(<, Nat)
<1>1. \E m \in T : \A k \in T : <<k, m>> \notin R
  BY WFMin, NatLessThanWellFounded
<1>2. PICK m \in T : \A k \in T : <<k, m>> \notin R
  BY <1>1
<1>3. \A k \in T : ~ (k < m)
  BY <1>2 DEF OpToRel
<1> QED BY <1>3

LEMMA PartAt ==
  ASSUME NEW s \in Seq(Bytes), NEW from \in Int, NEW len \in Nat, NEW i \in 1 .. len
  PROVE  Part(s, from, len)[i] = ByteAt(s, from + i)
  BY DEF Part

LEMMA PartsEqual ==
  ASSUME NEW s \in Seq(Bytes), NEW t \in Seq(Bytes), NEW p \in Int, NEW q \in Int, NEW len \in Nat
  PROVE  Part(s, p, len) = Part(t, q, len)
           <=> \A i \in 1 .. len : ByteAt(s, p + i) = ByteAt(t, q + i)
<1>1. ASSUME Part(s, p, len) = Part(t, q, len), NEW i \in 1 .. len
      PROVE  ByteAt(s, p + i) = ByteAt(t, q + i)
  BY <1>1, PartAt
<1>2. ASSUME \A i \in 1 .. len : ByteAt(s, p + i) = ByteAt(t, q + i)
      PROVE  Part(s, p, len) = Part(t, q, len)
  BY <1>2 DEF Part
<1> QED BY <1>1, <1>2

(* buf is what the file has from base on.                                  *)
Follows(f, base, buf) ==
  buf \in Seq(Bytes) /\ \A i \in 1 .. Len(buf) : buf[i] = ByteAt(f, base + i)

After(base, buf) == base + Len(buf)

LEMMA PartFollows ==
  ASSUME NEW s \in Seq(Bytes), NEW f \in Seq(Bytes), NEW p \in Int, NEW q \in Int, NEW len \in Nat,
         \A i \in 1 .. len : ByteAt(s, p + i) = ByteAt(f, q + i)
  PROVE  Follows(f, q, Part(s, p, len))
<1>1. Part(s, p, len) \in Seq(Bytes) /\ Len(Part(s, p, len)) = len
  BY PartBytes
<1>2. \A i \in 1 .. len : Part(s, p, len)[i] = ByteAt(s, p + i)
  BY PartAt
<1> QED BY <1>1, <1>2 DEF Follows

LEMMA FollowsMore ==
  ASSUME NEW f, NEW base \in Nat, NEW buf, NEW more,
         Follows(f, base, buf), Follows(f, After(base, buf), more)
  PROVE  Follows(f, base, buf \o more) /\ Len(buf \o more) = Len(buf) + Len(more)
<1> DEFINE n == Len(buf)
           out == buf \o more
<1>1. /\ buf \in Seq(Bytes) /\ more \in Seq(Bytes) /\ n \in Nat /\ Len(more) \in Nat
      /\ \A i \in 1 .. n : buf[i] = ByteAt(f, base + i)
      /\ \A i \in 1 .. Len(more) : more[i] = ByteAt(f, (base + n) + i)
  BY DEF Follows, After
<1>2. out \in Seq(Bytes) /\ Len(out) = n + Len(more)
  BY <1>1, Joined
<1>3. ASSUME NEW i \in 1 .. n + Len(more)
      PROVE  out[i] = ByteAt(f, base + i)
  <2>1. CASE i <= n
    BY <2>1, <1>1
  <2>2. CASE i > n
    <3>1. i - n \in 1 .. Len(more) /\ out[i] = more[i - n]
      BY <2>2, <1>1
    <3>2. more[i - n] = ByteAt(f, (base + n) + (i - n)) /\ (base + n) + (i - n) = base + i
      BY <3>1, <1>1
    <3> HIDE DEF out, n
    <3> QED BY <3>1, <3>2
  <2>3. i <= n \/ i > n
    BY <1>1
  <2> HIDE DEF out, n
  <2> QED BY <2>1, <2>2, <2>3
<1> HIDE DEF out
<1>4. Follows(f, base, out) /\ Len(out) = n + Len(more)
  BY <1>2, <1>3 DEF Follows
<1> QED BY <1>4 DEF out

(* A piece of some other buffer that is the next piece of the file.        *)
LEMMA FollowsPart ==
  ASSUME NEW f \in Seq(Bytes), NEW base \in Nat, NEW buf, Follows(f, base, buf),
         NEW s \in Seq(Bytes), NEW p \in Int, NEW len \in Nat,
         Part(s, p, len) = Part(f, After(base, buf), len)
  PROVE  /\ Follows(f, base, buf \o Part(s, p, len))
         /\ Len(buf \o Part(s, p, len)) = Len(buf) + len
<1> DEFINE q == After(base, buf)
           more == Part(s, p, len)
<1>1. q \in Int
  BY DEF Follows, After
<1> HIDE DEF q
<1>2. \A i \in 1 .. len : ByteAt(s, p + i) = ByteAt(f, q + i)
  BY <1>1, PartsEqual DEF q
<1>3. Follows(f, q, more)
  BY <1>1, <1>2, PartFollows
<1>4. Len(more) = len
  BY PartBytes
<1> HIDE DEF more
<1>5. Follows(f, base, buf \o more) /\ Len(buf \o more) = Len(buf) + Len(more)
  BY <1>3, FollowsMore DEF q
<1> QED BY <1>4, <1>5 DEF more

(* A copy of what is the same in the file, wherever it overlaps itself.    *)
LEMMA FollowsCopy ==
  ASSUME NEW f, NEW base \in Nat, NEW buf, Follows(f, base, buf),
         NEW from \in 0 .. Len(buf) - 1, NEW len \in Nat,
         \A i \in 1 .. len : ByteAt(f, (base + from) + i) = ByteAt(f, After(base, buf) + i)
  PROVE  Follows(f, base, buf \o LzCopy(buf, from, len))
<1> DEFINE n == Len(buf)
           c == LzCopy(buf, from, len)
           out == buf \o c
           T == {i \in 1 .. n + len : out[i] # ByteAt(f, base + i)}
<1>0. buf \in Seq(Bytes) /\ n \in Nat
  BY DEF Follows
<1>1. c \in Seq(Bytes) /\ Len(c) = len
  BY <1>0, LzCopyBytes
<1>2. \A i \in 1 .. len : out[n + i] = out[from + i]
  BY <1>0, LzCopyRunsForward
<1>3. /\ \A i \in 1 .. n : buf[i] = ByteAt(f, base + i)
      /\ \A i \in 1 .. len : ByteAt(f, (base + from) + i) = ByteAt(f, (base + n) + i)
  BY DEF Follows, After
<1> HIDE DEF c
<1>4. out \in Seq(Bytes) /\ Len(out) = n + len /\ \A i \in 1 .. n : out[i] = buf[i]
  <2>1. out \in Seq(Bytes) /\ Len(out) = n + len
    BY <1>0, <1>1, Joined
  <2> QED BY <1>0, <1>1, <2>1
<1> HIDE DEF out, n
<1>5. T = {}
  <2> SUFFICES ASSUME T # {} PROVE FALSE
    OBVIOUS
  <2>1. T \in SUBSET Nat
    BY <1>0
  <2>2. PICK m \in T : \A k \in T : m <= k
    <3> HIDE DEF T
    <3> QED BY <2>1, LeastOf
  <2>3. m \in 1 .. n + len /\ out[m] # ByteAt(f, base + m)
    OBVIOUS
  <2>4. m > n
    <3>1. m \in 1 .. n => out[m] = ByteAt(f, base + m)
      BY <1>3, <1>4
    <3> HIDE DEF T
    <3> QED BY <3>1, <2>3, <1>0
  <2>5. m - n \in 1 .. len /\ n + (m - n) = m
    BY <1>0, <2>3, <2>4
  <2>6. from + (m - n) \in 1 .. n + len /\ from + (m - n) < m
    BY <1>0, <2>3, <2>4 DEF n
  <2>7. from + (m - n) \notin T
    BY <1>0, <2>2, <2>3, <2>6
  <2>8. out[from + (m - n)] = ByteAt(f, base + (from + (m - n)))
    BY <2>6, <2>7
  <2>9. ByteAt(f, (base + from) + (m - n)) = ByteAt(f, (base + n) + (m - n))
    BY <2>5, <1>3
  <2>10. base + (from + (m - n)) = (base + from) + (m - n) /\ (base + n) + (m - n) = base + m
    BY <1>0, <2>3
  <2>11. out[m] = out[from + (m - n)]
    BY <1>2, <2>5
  <2> QED BY <2>3, <2>8, <2>9, <2>10, <2>11
<1>6. \A i \in 1 .. Len(out) : out[i] = ByteAt(f, base + i)
  BY <1>4, <1>5
<1>7. Follows(f, base, out)
  BY <1>4, <1>6 DEF Follows
<1> QED BY <1>7 DEF out, c

(* What follows the whole file is the file.                                *)
LEMMA FollowsWhole ==
  ASSUME NEW f \in Seq(Bytes), NEW buf, Follows(f, 0, buf), Len(buf) <= Len(f)
  PROVE  buf = SubSeq(f, 1, Len(buf)) /\ (Len(buf) = Len(f) => buf = f)
<1> DEFINE b == SubSeq(f, 1, Len(buf))
<1>1. buf \in Seq(Bytes) /\ Len(buf) \in Nat /\ \A i \in 1 .. Len(buf) : buf[i] = f[i]
  BY DEF Follows, ByteAt
<1>2. b \in Seq(Bytes) /\ Len(b) = Len(buf) /\ \A i \in 1 .. Len(buf) : buf[i] = b[i]
  BY <1>1
<1> HIDE DEF b
<1>3. buf = b
  BY <1>1, <1>2, SameSequence
<1>4. Len(buf) = Len(f) => buf = f
  BY <1>1, SameSequence
<1> QED BY <1>3, <1>4 DEF b
=============================================================================

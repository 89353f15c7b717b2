--------------------------- MODULE EncoderProofs ---------------------------
(***************************************************************************)
(* The compressor, for every file and all options.                         *)
(*                                                                         *)
(* First what needs no state: a record in units of the base length         *)
(* reproduces its bytes, what is settled of a command line is of use, and  *)
(* lists of records lead where they lead.  Then the inductive invariant,   *)
(* part by part: the ring of blocks, the kinds of finders, the table of    *)
(* the in-memory pass, the grid of chunks and their digests, the cuts of   *)
(* content-defined chunks, the list of the block, the archive.  What an    *)
(* archive holds and that no list is refused follow from all of it.        *)
(***************************************************************************)
EXTENDS Encoder, BufferProofs, FiniteSetTheorems

(* Division and remainder. *)
LEMMA DivMod ==
  ASSUME NEW b \in Nat \ {0}, NEW n \in Nat
  PROVE  /\ n \div b \in Nat /\ n % b \in 0 .. b - 1
         /\ n = b * (n \div b) + (n % b)
<1> DEFINE q == n \div b
           r == n % b
<1>1. q \in Nat /\ r \in 0 .. b - 1 /\ n = b * q + r
  BY Z3
<1> QED BY <1>1

LEMMA DivWhole ==
  ASSUME NEW b \in Nat \ {0}, NEW q \in Nat, NEW r \in 0 .. b - 1
  PROVE  (b * q + r) \div b = q
BY Z3

(* Whole units come out of a division as they are. *)
LEMMA DivUnits ==
  ASSUME NEW b \in Nat \ {0}, NEW q \in Nat, NEW n \in Nat
  PROVE  (b * q + n) \div b = q + n \div b
<1> DEFINE t == n \div b
           r == n % b
<1>1. t \in Nat /\ r \in 0 .. b - 1 /\ n = b * t + r
  BY DivMod
<1> HIDE DEF t, r
<1>2. b * q + n = b * (q + t) + r /\ q + t \in Nat
  <2>1. b * (q + t) = b * q + b * t
    BY <1>1, Z3
  <2>2. b * q \in Nat /\ b * t \in Nat
    BY <1>1, Z3
  <2> QED BY <1>1, <2>1, <2>2
<1> QED BY <1>1, <1>2, DivWhole DEF t

(* What is on the grid is a whole number of units. *)
LEMMA OnGrid ==
  ASSUME NEW b \in Nat \ {0}, NEW n \in Nat, n % b = 0
  PROVE  n \div b \in Nat /\ n = b * (n \div b)
<1>1. n \div b \in Nat /\ b * (n \div b) \in Nat
  BY DivMod, Z3
<1> QED BY DivMod, <1>1

-----------------------------------------------------------------------------
(* A record in units of b from a source on the grid gives the source back, *)
(* wherever its destination is, and a length on the grid too.              *)
LEMMA SourceComesBack ==
  ASSUME NEW b \in Nat \ {0}, NEW src \in Nat, src % b = 0, NEW off \in Nat
  PROVE  ((src + off) \div b) * b - (off \div b) * b = src
<1> DEFINE q == src \div b
           t == off \div b
<1>1. q \in Nat /\ src = b * q /\ t \in Nat
  BY OnGrid, DivMod
<1>2. (b * q + off) \div b = q + t
  BY <1>1, DivUnits
<1>3. (src + off) \div b = q + t
  BY <1>1, <1>2
<1> HIDE DEF q, t
<1>4. (q + t) * b - t * b = b * q
  BY <1>1, Z3
<1> QED BY <1>1, <1>3, <1>4 DEF t

LEMMA LengthComesBack ==
  ASSUME NEW b \in Nat \ {0}, NEW len \in Nat, len % b = 0, len >= b
  PROVE  ((len - b) \div b) * b + b = len
<1> DEFINE q == len \div b
<1>1. q \in Nat /\ len = b * q
  BY OnGrid
<1> HIDE DEF q
<1>2. q >= 1
  <2>1. CASE q = 0
    BY <2>1, <1>1
  <2> QED BY <2>1, <1>1
<1>3. len - b = b * (q - 1) + 0 /\ q - 1 \in Nat
  BY <1>1, <1>2, Z3
<1>4. (len - b) \div b = q - 1
  BY <1>3, DivWhole
<1>5. (q - 1) * b + b = b * q
  BY <1>1, Z3
<1> QED BY <1>1, <1>4, <1>5

-----------------------------------------------------------------------------
(* Where the bytes of the block at p are those of the file at src, before. *)
Match(src, p, len) ==
  /\ 0 <= src /\ src < blockStart + p
  /\ \A j \in 0 .. len - 1 : InBlock(p + j) = ByteAt(file, src + j + 1)

(* What compares equal up to len, when Common says len: there is always a  *)
(* first difference or none, so Common is what it is defined to be.        *)
LEMMA CommonPrefixIsPrefix ==
  ASSUME NEW p \in Nat, NEW src \in Int, NEW len \in Nat \ {0}, blockStart \in Nat,
         CommonPrefix(p, src, len) = len
  PROVE  Match(src, p, len)
<1> DEFINE same(j) == InBlock(p + j) = ByteAt(file, src + j + 1)
           first(m) == (\A j \in 0 .. m - 1 : same(j)) /\ (m < len => ~ same(m))
           T == {j \in 0 .. len - 1 : ~ same(j)}
<1>1. 0 <= src /\ src < blockStart + p
  BY DEF CommonPrefix
<1>2. \E m \in 0 .. len : first(m)
  <2>1. CASE T = {}
    <3>1. \A j \in 0 .. len - 1 : same(j)
      BY <2>1
    <3> HIDE DEF same
    <3>2. first(len)
      BY <3>1
    <3> QED BY <3>2
  <2>2. CASE T # {}
    <3>1. PICK m \in T : \A k \in T : m <= k
      <4>1. T \in SUBSET Nat
        OBVIOUS
      <4> HIDE DEF T
      <4> QED BY <4>1, <2>2, LeastOf
    <3>2. \A j \in 0 .. m - 1 : j \notin T /\ j \in 0 .. len - 1
      BY <3>1
    <3>3. first(m) /\ m \in 0 .. len
      BY <3>1, <3>2
    <3> QED BY <3>3
  <2> QED BY <2>1, <2>2
<1>3. CommonPrefix(p, src, len) = CHOOSE m \in 0 .. len : first(m)
  BY <1>1 DEF CommonPrefix, Common
<1>4. first(len)
  <2> HIDE DEF first
  <2> QED BY <1>2, <1>3
<1> QED BY <1>1, <1>4 DEF Match

-----------------------------------------------------------------------------
(* Moved by less than it is long, a match is a match.                      *)
LEMMA MatchMoves ==
  ASSUME NEW src \in Nat, NEW p \in Nat, NEW len \in Nat, blockStart \in Nat,
         Match(src, p, len), NEW skip \in Nat, NEW cut \in Nat, skip + cut <= len
  PROVE  Match(src + skip, p + skip, cut)
<1>1. ASSUME NEW j \in 0 .. cut - 1
      PROVE  InBlock(p + skip + j) = ByteAt(file, src + skip + j + 1)
  <2>1. skip + j \in 0 .. len - 1
    OBVIOUS
  <2>2. InBlock(p + (skip + j)) = ByteAt(file, src + (skip + j) + 1)
    BY <2>1 DEF Match
  <2>3. p + (skip + j) = p + skip + j /\ src + (skip + j) + 1 = src + skip + j + 1
    OBVIOUS
  <2> QED BY <2>2, <2>3
<1>2. 0 <= src + skip /\ src + skip < blockStart + (p + skip)
  BY DEF Match
<1> QED BY <1>1, <1>2 DEF Match

(* Up to the next unit, and down to whole ones. *)
LEMMA NextUnit ==
  ASSUME NEW b \in Nat \ {0}, NEW n \in Nat
  PROVE  LET skip == (b - (n % b)) % b
         IN  skip \in Nat /\ n + skip \in Nat /\ (n + skip) % b = 0
<1> DEFINE q == n \div b
           r == n % b
<1>1. q \in Nat /\ r \in 0 .. b - 1 /\ n = b * q + r
  BY DivMod
<1> HIDE DEF q, r
<1>2. CASE r = 0
  <2>1. (b - r) % b = 0
    BY <1>2, Z3
  <2>2. n % b = 0
    BY <1>2 DEF r
  <2> QED BY <2>1, <2>2 DEF r
<1>3. CASE r # 0
  <2>1. b - r \in 0 .. b - 1
    BY <1>1, <1>3
  <2>2. (b - r) % b = b - r
    BY <2>1, Z3
  <2>3. n + (b - r) = b * (q + 1)
    <3>1. b * (q + 1) = b * q + b
      BY <1>1, Z3
    <3>2. b * q \in Nat
      BY <1>1, Z3
    <3> QED BY <1>1, <3>1, <3>2
  <2>4. (b * (q + 1)) % b = 0
    BY <1>1, Z3
  <2> QED BY <2>1, <2>2, <2>3, <2>4 DEF r
<1> QED BY <1>1, <1>2, <1>3

LEMMA WholeUnits ==
  ASSUME NEW b \in Nat \ {0}, NEW n \in Nat
  PROVE  /\ (n \div b) * b \in Nat /\ (n \div b) * b <= n
         /\ ((n \div b) * b) % b = 0
<1> DEFINE q == n \div b
<1>1. q \in Nat /\ n % b \in 0 .. b - 1 /\ n = b * q + (n % b)
  BY DivMod
<1> HIDE DEF q
<1>2. q * b = b * q /\ q * b \in Nat
  BY <1>1, Z3
<1>3. (q * b) % b = 0
  BY <1>1, Z3
<1> QED BY <1>1, <1>2, <1>3 DEF q

-----------------------------------------------------------------------------
(* What a decoder makes of the record of a match.                          *)
ReadBack(offset, r, lit) ==
  Decoded(opt.round, opt.base, Record(lit, offset, r.len), blockStart + r.at - lit)

LEMMA ReadBackRounded ==
  ASSUME opt.round, opt.base \in Nat \ {0}, blockStart \in Nat, NEW lit \in Nat,
         NEW to \in Nat, NEW len \in Nat, NEW offset \in Nat,
         len % opt.base = 0, len >= opt.base
  PROVE  LET m == ReadBack(offset, [at |-> to, len |-> len], lit)
         IN  /\ m.dest = blockStart + to /\ m.len = len
             /\ m.src = DecodedFrom(to, offset)
<1> DEFINE b == opt.base
           m == ReadBack(offset, [at |-> to, len |-> len], lit)
<1>1. /\ m.dest = blockStart + to - lit + lit
      /\ m.src = ((blockStart + to - lit + lit) \div b) * b - (offset \div b) * b
      /\ m.len = ((len - b) \div b) * b + b
  BY DEF ReadBack, Record, Encoded, Decoded, Unit
<1>2. blockStart + to - lit + lit = blockStart + to
  OBVIOUS
<1>3. ((len - b) \div b) * b + b = len
  BY LengthComesBack
<1> HIDE DEF m, b
<1>4. DecodedFrom(to, offset) = ((blockStart + to) \div b) * b - (offset \div b) * b
  BY DEF DecodedFrom, Unit, b
<1> QED BY <1>1, <1>2, <1>3, <1>4 DEF m

LEMMA ReadBackPlain ==
  ASSUME ~ opt.round, opt.base \in Nat, blockStart \in Nat, NEW lit \in Nat,
         NEW to \in Nat, NEW len \in Nat, NEW offset \in Nat
  PROVE  LET m == ReadBack(offset, [at |-> to, len |-> len], lit)
         IN  m.dest = blockStart + to /\ m.len = len /\ m.src = blockStart + to - offset
<1> DEFINE m == ReadBack(offset, [at |-> to, len |-> len], lit)
<1>1. /\ m.dest = blockStart + to - lit + lit
      /\ m.src = ((blockStart + to - lit + lit) \div 1) * 1 - (offset \div 1) * 1
      /\ m.len = ((len - opt.base) \div 1) * 1 + opt.base
  BY DEF ReadBack, Record, Encoded, Decoded, Unit
<1>2. \A n \in Int : (n \div 1) * 1 = n
  BY Z3
<1>3. blockStart + to - lit + lit = blockStart + to /\ blockStart + to \in Int
      /\ len - opt.base \in Int /\ len - opt.base + opt.base = len
  OBVIOUS
<1> HIDE DEF m
<1> QED BY <1>1, <1>2, <1>3 DEF m

(* Whatever the base length and wherever the match, what Fit makes of it   *)
(* decodes to a place with the same bytes, inside the match it was made of *)
(* (fit_base_len_grid, which the original program did without).            *)
THEOREM FittedRecordsReproduce ==
  ASSUME opt.base \in Nat \ {0}, opt.round \in BOOLEAN, blockStart \in Nat, NEW lit \in Nat,
         NEW src \in Nat, NEW p \in Nat, NEW len \in Nat, Match(src, p, len),
         Fit(src, p, len).len # 0
  PROVE  LET r == Fit(src, p, len)
             m == ReadBack(blockStart + p - src, r, lit)
         IN  /\ p <= r.at /\ r.at + r.len <= p + len
             /\ m.dest = blockStart + r.at /\ m.len = r.len
             /\ Match(m.src, r.at, r.len)
<1> DEFINE b == opt.base
           off == blockStart + p - src
           skip == (b - (src % b)) % b
           cut == (Most(len - skip, 0) \div b) * b
           r == Fit(src, p, len)
           m == ReadBack(off, r, lit)
<1>1. off \in Nat /\ src + off = blockStart + p /\ src < blockStart + p
  BY DEF Match
<1>2. CASE ~ opt.round
  <2>1. r = [at |-> p, len |-> len]
    BY <1>2 DEF Fit
  <2>2. m.dest = blockStart + p /\ m.len = len /\ m.src = blockStart + p - off
    <3>1. m = ReadBack(off, [at |-> p, len |-> len], lit)
      BY <2>1
    <3> HIDE DEF off, r, m
    <3> QED BY <1>1, <1>2, <2>1, <3>1, ReadBackPlain
  <2>3. m.src = src
    BY <1>1, <2>2
  <2> QED BY <2>1, <2>2, <2>3
<1>3. CASE opt.round /\ OnBaseGrid(src, len)
  <2>1. r = [at |-> p, len |-> len]
    BY <1>3 DEF Fit
  <2>2. src % b = 0 /\ len % b = 0 /\ len >= b
    BY <1>3 DEF OnBaseGrid
  <2>3. m.dest = blockStart + p /\ m.len = len /\ m.src = DecodedFrom(p, off)
    <3>1. m = ReadBack(off, [at |-> p, len |-> len], lit)
      BY <2>1
    <3> HIDE DEF off, r, m
    <3> QED BY <1>1, <1>3, <2>1, <2>2, <3>1, ReadBackRounded
  <2>4. DecodedFrom(p, off) = src
    <3> HIDE DEF off
    <3>1. ((src + off) \div b) * b - (off \div b) * b = src
      BY <1>1, <2>2, SourceComesBack
    <3> QED BY <1>1, <1>3, <3>1 DEF DecodedFrom, Unit
  <2> QED BY <2>1, <2>3, <2>4
<1>4. CASE opt.round /\ ~ OnBaseGrid(src, len) /\ DecodesAsIs(src, p, len)
  <2>1. r = [at |-> p, len |-> len]
    BY <1>4 DEF Fit
  <2>2. len % b = 0 /\ len >= b /\ CommonPrefix(p, DecodedFrom(p, off), len) = len
    BY <1>4 DEF DecodesAsIs
  <2>3. m.dest = blockStart + p /\ m.len = len /\ m.src = DecodedFrom(p, off)
    <3>1. m = ReadBack(off, [at |-> p, len |-> len], lit)
      BY <2>1
    <3> HIDE DEF off, r, m
    <3> QED BY <1>1, <1>4, <2>1, <2>2, <3>1, ReadBackRounded
  <2>4. DecodedFrom(p, off) \in Int
    <3> HIDE DEF off
    <3>1. (blockStart + p) \div b \in Nat /\ off \div b \in Nat
      <4>1. blockStart + p \in Nat
        OBVIOUS
      <4> QED BY <1>1, <4>1, DivMod
    <3> HIDE DEF b
    <3>2. DecodedFrom(p, off) = ((blockStart + p) \div b) * b - (off \div b) * b
      BY <1>4 DEF DecodedFrom, Unit, b
    <3>3. b \in Nat
      BY DEF b
    <3> QED BY <3>1, <3>2, <3>3, Z3
  <2>5. Match(DecodedFrom(p, off), p, len)
    <3> HIDE DEF off
    <3> QED BY <2>2, <2>4, CommonPrefixIsPrefix
  <2> QED BY <2>1, <2>3, <2>5
<1>5. CASE opt.round /\ ~ OnBaseGrid(src, len) /\ ~ DecodesAsIs(src, p, len)
  <2>1. r = IF cut < b THEN [at |-> p, len |-> 0] ELSE [at |-> p + skip, len |-> cut]
    BY <1>5 DEF Fit
  <2>2. ~ (cut < b) /\ r = [at |-> p + skip, len |-> cut]
    <3> HIDE DEF cut, skip, b, r
    <3>1. r.len # 0
      BY DEF r
    <3> QED BY <2>1, <3>1
  <2>3. skip \in Nat /\ src + skip \in Nat /\ (src + skip) % b = 0
    BY NextUnit
  <2> HIDE DEF skip
  <2>4. Most(len - skip, 0) \in Nat
    BY <2>3 DEF Most
  <2>5. cut \in Nat /\ cut <= Most(len - skip, 0) /\ cut % b = 0
    BY <2>4, WholeUnits
  <2> HIDE DEF cut
  <2>6. cut >= b /\ skip + cut <= len
    BY <2>2, <2>3, <2>5 DEF Most
  <2>7. m.dest = blockStart + (p + skip) /\ m.len = cut /\ m.src = DecodedFrom(p + skip, off)
    <3>1. p + skip \in Nat
      BY <2>3
    <3>2. m = ReadBack(off, [at |-> p + skip, len |-> cut], lit)
      BY <2>2
    <3> HIDE DEF off, r, m
    <3> QED BY <1>1, <1>5, <2>5, <2>6, <3>1, <3>2, ReadBackRounded
  <2>8. DecodedFrom(p + skip, off) = src + skip
    <3>1. src + skip + off = blockStart + (p + skip)
      BY <1>1, <2>3
    <3> HIDE DEF off
    <3>2. ((src + skip + off) \div b) * b - (off \div b) * b = src + skip
      BY <1>1, <2>3, SourceComesBack
    <3> QED BY <1>5, <3>1, <3>2 DEF DecodedFrom, Unit
  <2>9. Match(src + skip, p + skip, cut)
    BY <2>3, <2>5, <2>6, MatchMoves
  <2> QED BY <2>2, <2>3, <2>5, <2>6, <2>7, <2>8, <2>9
<1>6. opt.round \/ ~ opt.round
  OBVIOUS
<1> QED BY <1>2, <1>3, <1>4, <1>5, <1>6
-----------------------------------------------------------------------------
(* The options, once settled.                                              *)
SettledOK(s) ==
  /\ s.kind \in {"inmem", "cdc", "zpaq", "digest", "fixed", "exhaustive"}
  /\ s.bufsize \in Nat \ {0} /\ s.dict \in Nat /\ s.accel \in Nat
  /\ s.minMatch \in Nat \ {0} /\ s.dictMatch \in Nat \ {0}
  /\ s.base \in Nat \ {0} /\ s.base <= s.minMatch /\ s.base <= s.dictMatch
  /\ s.dict # 0 => s.dictChunk \in Nat \ {0}
  /\ s.round \in BOOLEAN /\ (s.round => s.kind = "digest" /\ s.dict = 0)
  /\ HasTable(s) => s.l \in Nat \ {0} /\ Cycles <= s.l /\ s.accel <= s.l
  /\ s.kind # "exhaustive" => s.l \in Nat \ {0}

LEMMA HalfIsLess ==
  ASSUME NEW m \in Nat \ {0}
  PROVE  m \div 2 \in Nat /\ m \div 2 < m /\ (m # 1 => m \div 2 >= 1)
<1> DEFINE q == m \div 2
           r == m % 2
<1>1. q \in Nat /\ r \in 0 .. 1 /\ m = 2 * q + r
  BY DivMod
<1> HIDE DEF q, r
<1>2. q \in Nat /\ q < m /\ (m # 1 => q >= 1)
  BY <1>1
<1> QED BY <1>2 DEF q

(* The powers below a number, from those below the smaller ones.           *)
Powers(f, n) == \A m \in 1 .. n : f[m] = IF m = 1 THEN 1 ELSE 2 * f[m \div 2]

LEMMA PowersExist ==
  ASSUME NEW n \in Nat
  PROVE  \E f \in [1 .. n -> Nat] : Powers(f, n)
<1> DEFINE bad == {k \in Nat : ~ \E f \in [1 .. k -> Nat] : Powers(f, k)}
<1>1. ASSUME bad # {} PROVE FALSE
  <2>1. bad \in SUBSET Nat
    OBVIOUS
  <2>2. PICK k \in bad : \A j \in bad : k <= j
    <3> HIDE DEF bad
    <3> QED BY <2>1, <1>1, LeastOf
  <2>3. k \in Nat /\ ~ \E f \in [1 .. k -> Nat] : Powers(f, k)
    OBVIOUS
  <2>4. k # 0
    <3>1. SUFFICES ASSUME k = 0 PROVE FALSE
      OBVIOUS
    <3>2. [m \in 1 .. 0 |-> 0] \in [1 .. 0 -> Nat] /\ Powers([m \in 1 .. 0 |-> 0], 0)
      BY DEF Powers
    <3> QED BY <3>1, <3>2, <2>3
  <2>5. k - 1 \in Nat /\ k - 1 \notin bad
    <3> HIDE DEF bad
    <3> QED BY <2>2, <2>3, <2>4
  <2>6. PICK f \in [1 .. k - 1 -> Nat] : Powers(f, k - 1)
    BY <2>5
  <2> HIDE DEF bad
  <2>7. \A m \in 1 .. k : m = 1 \/ m \div 2 \in 1 .. k - 1
    <3> TAKE m \in 1 .. k
    <3> DEFINE q == m \div 2
    <3>1. m \in Nat \ {0}
      OBVIOUS
    <3>2. q \in Nat /\ q < m /\ (m # 1 => q >= 1)
      BY <3>1, HalfIsLess
    <3> HIDE DEF q
    <3>3. m = 1 \/ q \in 1 .. k - 1
      BY <3>1, <3>2, <2>3
    <3> QED BY <3>3 DEF q
  <2> DEFINE g == [m \in 1 .. k |-> IF m < k THEN f[m] ELSE IF m = 1 THEN 1 ELSE 2 * f[m \div 2]]
  <2>8. ASSUME NEW m \in 1 .. k PROVE g[m] \in Nat
    <3>1. CASE m < k
      <4>1. m \in 1 .. k - 1
        BY <3>1, <2>3
      <4> QED BY <4>1, <3>1
    <3>2. CASE ~ (m < k)
      <4>1. m # 1 => f[m \div 2] \in Nat
        BY <2>7
      <4> QED BY <4>1, <3>2
    <3> QED BY <3>1, <3>2
  <2>9. ASSUME NEW m \in 1 .. k PROVE g[m] = IF m = 1 THEN 1 ELSE 2 * g[m \div 2]
    <3>1. m # 1 => g[m \div 2] = f[m \div 2]
      <4>1. SUFFICES ASSUME m # 1 PROVE g[m \div 2] = f[m \div 2]
        OBVIOUS
      <4>2. m \div 2 \in 1 .. k - 1
        BY <4>1, <2>7
      <4>3. ASSUME NEW q \in 1 .. k - 1 PROVE g[q] = f[q]
        BY <2>3
      <4> HIDE DEF g
      <4> QED BY <4>2, <4>3
    <3>2. CASE m < k
      <4>1. m \in 1 .. k - 1 /\ g[m] = f[m]
        BY <3>2, <2>3
      <4> HIDE DEF g
      <4> QED BY <4>1, <3>1, <2>6 DEF Powers
    <3>3. CASE ~ (m < k)
      <4>1. g[m] = IF m = 1 THEN 1 ELSE 2 * f[m \div 2]
        BY <3>3
      <4> HIDE DEF g
      <4> QED BY <4>1, <3>1
    <3> QED BY <3>2, <3>3
  <2>10. g \in [1 .. k -> Nat]
    <3>1. g = [m \in 1 .. k |-> g[m]]
      OBVIOUS
    <3> HIDE DEF g
    <3> QED BY <3>1, <2>8
  <2>11. Powers(g, k)
    <3> HIDE DEF g
    <3> QED BY <2>9 DEF Powers
  <2> HIDE DEF g
  <2> QED BY <2>3, <2>10, <2>11
<1>2. n \notin bad
  <2> HIDE DEF bad
  <2> QED BY <1>1
<1> QED BY <1>2

LEMMA PowerBelowIsNat ==
  ASSUME NEW n \in Nat \ {0}
  PROVE  PowerBelow(n) \in Nat
<1> DEFINE It(f) == f = [m \in 1 .. n |-> IF m = 1 THEN 1 ELSE 2 * f[m \div 2]]
           p == CHOOSE f : It(f)
<1>1. PICK f \in [1 .. n -> Nat] : Powers(f, n)
  BY PowersExist
<1>2. It(f)
  <2>1. f = [m \in 1 .. n |-> f[m]]
    BY <1>1
  <2>2. \A m \in 1 .. n : f[m] = IF m = 1 THEN 1 ELSE 2 * f[m \div 2]
    BY <1>1 DEF Powers
  <2> QED BY <2>1, <2>2
<1>3. It(p)
  <2> HIDE DEF It
  <2> QED BY <1>2
<1>4. \A m \in 1 .. n : p[m] = IF m = 1 THEN 1 ELSE 2 * p[m \div 2]
  <2> HIDE DEF p
  <2> QED BY <1>3
<1>5. PowerBelow(n) = p[n]
  BY DEF PowerBelow
<1> HIDE DEF p, It
<1> DEFINE bad == {m \in 1 .. n : p[m] \notin Nat}
<1>6. ASSUME bad # {} PROVE FALSE
  <2>1. bad \in SUBSET Nat
    OBVIOUS
  <2>2. PICK m \in bad : \A j \in bad : m <= j
    <3> HIDE DEF bad
    <3> QED BY <2>1, <1>6, LeastOf
  <2>3. m \in 1 .. n /\ p[m] \notin Nat /\ m \in Nat
    OBVIOUS
  <2>4. m # 1 => m \div 2 \in 1 .. n /\ ~ (m <= m \div 2)
    <3>1. m \in Nat \ {0}
      BY <2>3
    <3>2. m \div 2 \in Nat /\ m \div 2 < m /\ (m # 1 => m \div 2 >= 1)
      BY <3>1, HalfIsLess
    <3> DEFINE q == m \div 2
    <3>3. q \in Nat /\ q < m /\ (m # 1 => q >= 1)
      BY <3>2
    <3> HIDE DEF q, bad
    <3>4. m # 1 => q \in 1 .. n /\ ~ (m <= q)
      BY <3>1, <3>3, <2>3
    <3> QED BY <3>4 DEF q
  <2>5. m # 1 => p[m \div 2] \in Nat
    <3>1. m # 1 => m \div 2 \notin bad
      <4> HIDE DEF bad
      <4> QED BY <2>2, <2>4
    <3> QED BY <3>1, <2>4
  <2> QED BY <2>3, <2>5, <1>4
<1> QED BY <1>5, <1>6

(* What settling makes of the options of an accepted command line.         *)
LEMMA Settles ==
  ASSUME NEW o \in Options, Accepted(o)
  PROVE  SettledOK(Settled(o))
<1> DEFINE match == IF o.l = 0 /\ o.minMatch = 0
                      THEN IF IsCdc(o) THEN DefaultCdc ELSE DefaultMatch
                      ELSE o.minMatch
           chunk == IF o.l # 0 THEN o.l
                    ELSE IF o.kind = "exhaustive" THEN PowerBelow(match + 1) \div 2 ELSE match
           kept == IF o.l = 0 /\ IsCdc(o) THEN 0 ELSE match
           least == IF kept # 0 THEN kept ELSE IF IsCdc(o) THEN CdcMatch ELSE chunk
           dictMatch == IF o.dictMatch # 0 THEN o.dictMatch ELSE DefaultMatch
           s == Settled(o)
<1>1. /\ o.kind \in {"inmem", "cdc", "zpaq", "digest", "fixed", "exhaustive"}
      /\ o.bufsize \in Nat \ {0} /\ o.minMatch \in Nat /\ o.l \in Nat /\ o.dict \in Nat
      /\ o.dictMatch \in Nat /\ o.dictChunk \in Nat /\ o.accel \in Nat
  BY OptionsAssumption DEF Given
<1>2. /\ Slices \in Nat \ {0} /\ DefaultMatch \in Nat /\ DefaultMatch >= Slices
      /\ DefaultCdc \in Nat \ {0} /\ CdcMatch \in Nat \ {0}
  BY OptionsAssumption
<1>3. /\ s.kind = o.kind /\ s.bufsize = o.bufsize /\ s.dict = o.dict
      /\ s.accel = ScanVariant(o.accel, chunk) /\ s.l = chunk /\ s.minMatch = least
      /\ s.base = Least(least, dictMatch) /\ s.dictMatch = dictMatch
      /\ s.dictChunk = IF o.dictChunk # 0 THEN o.dictChunk ELSE dictMatch \div Slices
      /\ s.round = (o.kind = "digest" /\ o.dict = 0)
  BY DEF Settled
<1>4. match \in Nat /\ (o.l = 0 /\ o.minMatch = 0 => match # 0)
  BY <1>1, <1>2
<1>5. chunk \in Nat
  <2>1. PowerBelow(match + 1) \in Nat
    <3> HIDE DEF match
    <3> QED BY <1>4, PowerBelowIsNat
  <2>2. PowerBelow(match + 1) \div 2 \in Nat
    <3> DEFINE q == PowerBelow(match + 1)
    <3> HIDE DEF q
    <3>1. q \in Nat
      BY <2>1 DEF q
    <3>2. q \div 2 \in Nat
      BY <3>1, DivMod
    <3> QED BY <3>2 DEF q
  <2> HIDE DEF match
  <2> QED BY <2>2, <1>1, <1>4
<1>6. least \in Nat \ {0}
  <2>1. CASE kept # 0
    <3> HIDE DEF match, chunk
    <3> QED BY <2>1, <1>4
  <2>2. CASE kept = 0 /\ IsCdc(o)
    BY <2>2, <1>2
  <2>3. CASE kept = 0 /\ ~ IsCdc(o)
    <3>1. match = 0
      BY <2>3
    <3>2. o.l # 0
      BY <3>1, <1>1, <1>4
    <3> QED BY <2>3, <3>2, <1>1
  <2> QED BY <2>1, <2>2, <2>3
<1>7. dictMatch \in Nat \ {0}
  BY <1>1, <1>2
<1>8. o.dict # 0 => s.dictChunk \in Nat \ {0}
  <2>1. SUFFICES ASSUME o.dict # 0, o.dictChunk = 0 PROVE dictMatch \div Slices \in Nat \ {0}
    BY <1>1, <1>3
  <2>2. dictMatch >= Slices
    <3>1. ~ SmallDictWindow(o)
      BY DEF Accepted
    <3> QED BY <3>1, <2>1, <1>1, <1>2 DEF SmallDictWindow
  <2> HIDE DEF dictMatch
  <2>3. dictMatch \div Slices \in Nat /\ dictMatch % Slices \in 0 .. Slices - 1
        /\ dictMatch = Slices * (dictMatch \div Slices) + (dictMatch % Slices)
    BY <1>2, <1>7, DivMod
  <2>4. dictMatch \div Slices # 0
    <3>1. SUFFICES ASSUME dictMatch \div Slices = 0 PROVE FALSE
      OBVIOUS
    <3>2. Slices * (dictMatch \div Slices) = 0
      BY <3>1, <1>2
    <3> QED BY <3>2, <2>2, <2>3, <1>2, <1>7
  <2> QED BY <2>3, <2>4
<1>9. HasTable(s) => chunk \in Nat \ {0} /\ Cycles <= chunk
  <2>1. SUFFICES ASSUME HasTable(s) PROVE chunk \in Nat \ {0} /\ Cycles <= chunk
    OBVIOUS
  <2>2. HasTable(o)
    BY <2>1, <1>3 DEF HasTable
  <2>3. Cycles <= Settled(o).l /\ Cycles \in Nat \ {0}
    BY <2>2, ScanAssumption
  <2>4. Cycles <= chunk
    BY <2>3, <1>3
  <2> HIDE DEF chunk
  <2> QED BY <2>3, <2>4, <1>5
<1>10. s.kind # "exhaustive" => chunk \in Nat \ {0}
  <2>1. SUFFICES ASSUME s.kind # "exhaustive" PROVE chunk \in Nat \ {0}
    OBVIOUS
  <2>2. o.kind # "exhaustive"
    BY <2>1, <1>3
  <2>3. CASE o.l # 0
    BY <2>3, <1>1
  <2>4. CASE o.l = 0
    <3>1. chunk = match
      BY <2>2, <2>4
    <3>2. match # 0
      BY <2>4, <1>1, <1>4
    <3> QED BY <3>1, <3>2, <1>4
  <2> QED BY <2>3, <2>4
<1>11. s.accel \in Nat /\ (HasTable(s) => s.accel <= chunk)
  <2> HIDE DEF chunk, s
  <2> QED BY <1>1, <1>3, <1>5 DEF ScanVariant
<1>12. Least(least, dictMatch) \in Nat \ {0} /\ Least(least, dictMatch) <= least
       /\ Least(least, dictMatch) <= dictMatch
  <2> HIDE DEF least, dictMatch
  <2> QED BY <1>6, <1>7 DEF Least
<1> HIDE DEF match, chunk, kept, least, dictMatch, s
<1>13. s.kind \in {"inmem", "cdc", "zpaq", "digest", "fixed", "exhaustive"}
       /\ s.bufsize \in Nat \ {0} /\ s.dict \in Nat
  BY <1>1, <1>3
<1>14. s.round \in BOOLEAN /\ (s.round => s.kind = "digest" /\ s.dict = 0)
  BY <1>3
<1>15. SettledOK(s)
  BY <1>3, <1>6, <1>7, <1>8, <1>9, <1>10, <1>11, <1>12, <1>13, <1>14 DEF SettledOK
<1> QED BY <1>15 DEF s

-----------------------------------------------------------------------------
(* Induction and recursion over a range, without operators: what is true   *)
(* of 0 and of every successor is true of all, and what is built step by   *)
(* step exists.                                                            *)
LEMMA SetInduction ==
  ASSUME NEW n \in Nat, NEW G, 0 \in G, \A k \in 1 .. n : k - 1 \in G => k \in G
  PROVE  \A k \in 0 .. n : k \in G
<1> DEFINE bad == {k \in 0 .. n : k \notin G}
<1>1. ASSUME bad # {} PROVE FALSE
  <2>1. bad \in SUBSET Nat
    OBVIOUS
  <2>2. PICK k \in bad : \A j \in bad : k <= j
    <3> HIDE DEF bad
    <3> QED BY <2>1, <1>1, LeastOf
  <2>3. k \in 0 .. n /\ k \notin G
    OBVIOUS
  <2>4. k \in 1 .. n /\ k - 1 \in 0 .. n /\ ~ (k <= k - 1)
    BY <2>3
  <2>5. k - 1 \notin bad
    <3> HIDE DEF bad
    <3> QED BY <2>2, <2>4
  <2>6. k - 1 \in G
    BY <2>4, <2>5
  <2> QED BY <2>3, <2>4, <2>6
<1> QED BY <1>1

Closed(T, n, act) == \A t \in T : \A k \in 1 .. n : act[<<t, k>>] \in T
Stepwise(f, a, n, act) == f[0] = a /\ \A k \in 1 .. n : f[k] = act[<<f[k - 1], k>>]

LEMMA Recursion ==
  ASSUME NEW T, NEW a \in T, NEW n \in Nat, NEW act, Closed(T, n, act)
  PROVE  \E f \in [0 .. n -> T] : Stepwise(f, a, n, act)
<1> DEFINE Upto(m) == \E f \in [0 .. m -> T] : f[0] = a /\ \A k \in 1 .. m : f[k] = act[<<f[k - 1], k>>]
           G == {m \in 0 .. n : Upto(m)}
<1>1. 0 \in G
  <2>1. [k \in 0 .. 0 |-> a] \in [0 .. 0 -> T] /\ [k \in 0 .. 0 |-> a][0] = a
    OBVIOUS
  <2>2. \A k \in 1 .. 0 : FALSE
    OBVIOUS
  <2>3. Upto(0)
    BY <2>1, <2>2
  <2> HIDE DEF Upto
  <2> QED BY <2>3
<1>2. ASSUME NEW m \in 1 .. n, m - 1 \in G PROVE m \in G
  <2>1. PICK f \in [0 .. m - 1 -> T] : f[0] = a /\ \A k \in 1 .. m - 1 : f[k] = act[<<f[k - 1], k>>]
    BY <1>2
  <2> DEFINE g == [k \in 0 .. m |-> IF k = m THEN act[<<f[m - 1], m>>] ELSE f[k]]
  <2>2. f[m - 1] \in T
    BY <2>1
  <2>3. act[<<f[m - 1], m>>] \in T
    BY <2>2 DEF Closed
  <2>4. g \in [0 .. m -> T]
    <3>1. ASSUME NEW k \in 0 .. m, k # m PROVE f[k] \in T
      <4>1. k \in 0 .. m - 1
        BY <3>1
      <4> QED BY <4>1
    <3> QED BY <2>3, <3>1
  <2>5. g[0] = a
    BY <2>1
  <2>6. ASSUME NEW k \in 1 .. m PROVE g[k] = act[<<g[k - 1], k>>]
    <3>1. g[k - 1] = f[k - 1]
      OBVIOUS
    <3>2. CASE k = m
      <4>1. g[m] = act[<<f[m - 1], m>>]
        OBVIOUS
      <4> HIDE DEF g
      <4> QED BY <3>1, <3>2, <4>1
    <3>3. CASE k # m
      <4>1. g[k] = f[k] /\ k \in 1 .. m - 1
        BY <3>3
      <4> HIDE DEF g
      <4> QED BY <3>1, <4>1, <2>1
    <3> QED BY <3>2, <3>3
  <2> HIDE DEF g
  <2>7. Upto(m)
    BY <2>4, <2>5, <2>6
  <2> HIDE DEF Upto
  <2> QED BY <2>7
<1>3. n \in G
  <2> HIDE DEF G
  <2> QED BY <1>1, <1>2, SetInduction
<1> QED BY <1>3 DEF Stepwise

-----------------------------------------------------------------------------
(* Lists of records, read one after the other: where each ends, and the    *)
(* literals before them.                                                   *)
RecordSet == [lit: Nat, off: Nat, len: Nat]

Covered(o, r) == Decoded(o.round, o.base, r, 0).len

EndsOf(o, recs) ==
  LET end[k \in 0 .. Len(recs)] ==
        IF k = 0 THEN 0
        ELSE end[k - 1] + recs[k].lit + Decoded(o.round, o.base, recs[k], 0).len
  IN  end

LitsOf(recs) ==
  LET lits[k \in 0 .. Len(recs)] == IF k = 0 THEN 0 ELSE lits[k - 1] + recs[k].lit
  IN  lits

Writable(o) == o.base \in Nat \ {0} /\ o.round \in BOOLEAN

LEMMA CoveredIsNat ==
  ASSUME NEW o, Writable(o), NEW r \in RecordSet
  PROVE  Covered(o, r) \in Nat \ {0} /\ Covered(o, r) >= o.base
<1> DEFINE u == Unit(o.round, o.base)
<1>1. u \in Nat /\ o.base \in Nat \ {0} /\ r.len \in Nat
  BY DEF Unit, Writable, RecordSet
<1>2. Covered(o, r) = r.len * u + o.base
  BY DEF Covered, Decoded
<1> HIDE DEF u
<1>3. r.len * u \in Nat
  BY <1>1, Z3
<1> QED BY <1>1, <1>2, <1>3

LEMMA EndsUnroll ==
  ASSUME NEW o, Writable(o), NEW recs \in Seq(RecordSet)
  PROVE  /\ EndsOf(o, recs) \in [0 .. Len(recs) -> Nat] /\ EndsOf(o, recs)[0] = 0
         /\ \A k \in 1 .. Len(recs) :
              EndsOf(o, recs)[k] = EndsOf(o, recs)[k - 1] + recs[k].lit + Covered(o, recs[k])
<1> DEFINE n == Len(recs)
           D(k) == Decoded(o.round, o.base, recs[k], 0).len
           It(f) == f = [k \in 0 .. n |-> IF k = 0 THEN 0 ELSE f[k - 1] + recs[k].lit + D(k)]
           g == CHOOSE f : It(f)
           act == [x \in Nat \X (1 .. n) |-> x[1] + recs[x[2]].lit + D(x[2])]
<1>1. EndsOf(o, recs) = g
  BY DEF EndsOf
<1>2. n \in Nat
  OBVIOUS
<1>3. ASSUME NEW k \in 1 .. n PROVE recs[k].lit \in Nat /\ D(k) \in Nat
  <2>1. recs[k] \in RecordSet
    OBVIOUS
  <2>2. Covered(o, recs[k]) \in Nat
    BY <2>1, CoveredIsNat
  <2> QED BY <2>1, <2>2 DEF Covered, RecordSet
<1> HIDE DEF D
<1>4. ASSUME NEW t \in Nat, NEW k \in 1 .. n
      PROVE  act[<<t, k>>] = t + recs[k].lit + D(k) /\ act[<<t, k>>] \in Nat
  <2>1. <<t, k>> \in Nat \X (1 .. n)
    OBVIOUS
  <2>2. act[<<t, k>>] = t + recs[k].lit + D(k)
    BY <2>1
  <2> QED BY <2>2, <1>3
<1>5. PICK f \in [0 .. n -> Nat] : f[0] = 0 /\ \A k \in 1 .. n : f[k] = act[<<f[k - 1], k>>]
  <2>1. Closed(Nat, n, act)
    BY <1>4 DEF Closed
  <2> HIDE DEF act, n, It, g
  <2>2. 0 \in Nat
    OBVIOUS
  <2>3. \E f \in [0 .. n -> Nat] : Stepwise(f, 0, n, act)
    BY <2>1, <2>2, <1>2, Recursion
  <2> QED BY <2>3 DEF Stepwise
<1>6. ASSUME NEW k \in 1 .. n PROVE f[k] = f[k - 1] + recs[k].lit + D(k)
  <2>1. f[k - 1] \in Nat
    BY <1>5
  <2> HIDE DEF act
  <2> QED BY <2>1, <1>4, <1>5
<1>7. It(f)
  <2>1. f = [k \in 0 .. n |-> f[k]]
    BY <1>5
  <2>2. \A k \in 0 .. n : f[k] = IF k = 0 THEN 0 ELSE f[k - 1] + recs[k].lit + D(k)
    BY <1>5, <1>6
  <2> QED BY <2>1, <2>2
<1>8. It(g)
  <2> HIDE DEF It
  <2> QED BY <1>7
<1> HIDE DEF g, act
<1>9. g[0] = 0 /\ \A k \in 1 .. n : g[k] = g[k - 1] + recs[k].lit + D(k)
  BY <1>8
<1>10. g = [k \in 0 .. n |-> g[k]]
  BY <1>8
<1> HIDE DEF It
<1>11. \A k \in 0 .. n : g[k] \in Nat
  <2> DEFINE G == {k \in 0 .. n : g[k] \in Nat}
  <2>1. 0 \in G
    BY <1>9
  <2>2. ASSUME NEW k \in 1 .. n, k - 1 \in G PROVE k \in G
    <3>1. g[k] = g[k - 1] + recs[k].lit + D(k) /\ g[k - 1] \in Nat
      BY <1>9, <2>2
    <3> QED BY <3>1, <1>3
  <2>3. \A k \in 0 .. n : k \in G
    <3> HIDE DEF G, n
    <3> QED BY <1>2, <2>1, <2>2, SetInduction
  <2> QED BY <2>3
<1>12. g \in [0 .. n -> Nat]
  BY <1>10, <1>11
<1> QED BY <1>1, <1>9, <1>12 DEF Covered, D

LEMMA LitsUnroll ==
  ASSUME NEW recs \in Seq(RecordSet)
  PROVE  /\ LitsOf(recs) \in [0 .. Len(recs) -> Nat] /\ LitsOf(recs)[0] = 0
         /\ \A k \in 1 .. Len(recs) : LitsOf(recs)[k] = LitsOf(recs)[k - 1] + recs[k].lit
<1> DEFINE n == Len(recs)
           It(f) == f = [k \in 0 .. n |-> IF k = 0 THEN 0 ELSE f[k - 1] + recs[k].lit]
           g == CHOOSE f : It(f)
           act == [x \in Nat \X (1 .. n) |-> x[1] + recs[x[2]].lit]
<1>1. LitsOf(recs) = g
  BY DEF LitsOf
<1>2. n \in Nat
  OBVIOUS
<1>3. ASSUME NEW k \in 1 .. n PROVE recs[k].lit \in Nat
  <2>1. recs[k] \in RecordSet
    OBVIOUS
  <2> QED BY <2>1 DEF RecordSet
<1>4. ASSUME NEW t \in Nat, NEW k \in 1 .. n
      PROVE  act[<<t, k>>] = t + recs[k].lit /\ act[<<t, k>>] \in Nat
  <2>1. <<t, k>> \in Nat \X (1 .. n)
    OBVIOUS
  <2>2. act[<<t, k>>] = t + recs[k].lit
    BY <2>1
  <2> QED BY <2>2, <1>3
<1>5. PICK f \in [0 .. n -> Nat] : f[0] = 0 /\ \A k \in 1 .. n : f[k] = act[<<f[k - 1], k>>]
  <2>1. Closed(Nat, n, act)
    BY <1>4 DEF Closed
  <2> HIDE DEF act, n, It, g
  <2>2. 0 \in Nat
    OBVIOUS
  <2>3. \E f \in [0 .. n -> Nat] : Stepwise(f, 0, n, act)
    BY <2>1, <2>2, <1>2, Recursion
  <2> QED BY <2>3 DEF Stepwise
<1>6. ASSUME NEW k \in 1 .. n PROVE f[k] = f[k - 1] + recs[k].lit
  <2>1. f[k - 1] \in Nat
    BY <1>5
  <2> HIDE DEF act
  <2> QED BY <2>1, <1>4, <1>5
<1>7. It(f)
  <2>1. f = [k \in 0 .. n |-> f[k]]
    BY <1>5
  <2>2. \A k \in 0 .. n : f[k] = IF k = 0 THEN 0 ELSE f[k - 1] + recs[k].lit
    BY <1>5, <1>6
  <2> QED BY <2>1, <2>2
<1>8. It(g)
  <2> HIDE DEF It
  <2> QED BY <1>7
<1> HIDE DEF g, act
<1>9. g[0] = 0 /\ \A k \in 1 .. n : g[k] = g[k - 1] + recs[k].lit
  BY <1>8
<1>10. g = [k \in 0 .. n |-> g[k]]
  BY <1>8
<1> HIDE DEF It
<1>11. \A k \in 0 .. n : g[k] \in Nat
  <2> DEFINE G == {k \in 0 .. n : g[k] \in Nat}
  <2>1. 0 \in G
    BY <1>9
  <2>2. ASSUME NEW k \in 1 .. n, k - 1 \in G PROVE k \in G
    <3>1. g[k] = g[k - 1] + recs[k].lit /\ g[k - 1] \in Nat
      BY <1>9, <2>2
    <3> QED BY <3>1, <1>3
  <2>3. \A k \in 0 .. n : k \in G
    <3> HIDE DEF G, n
    <3> QED BY <1>2, <2>1, <2>2, SetInduction
  <2> QED BY <2>3
<1>12. g \in [0 .. n -> Nat]
  BY <1>10, <1>11
<1> QED BY <1>1, <1>9, <1>12

(* Places only go up, and the literals are part of the way.                *)
LEMMA EndsGoUp ==
  ASSUME NEW o, Writable(o), NEW recs \in Seq(RecordSet)
  PROVE  /\ \A k \in 0 .. Len(recs) : EndsOf(o, recs)[k] <= EndsOf(o, recs)[Len(recs)]
         /\ \A k \in 0 .. Len(recs) : LitsOf(recs)[k] <= EndsOf(o, recs)[k]
<1> DEFINE n == Len(recs)
           g == EndsOf(o, recs)
           h == LitsOf(recs)
<1>1. n \in Nat /\ g \in [0 .. n -> Nat] /\ h \in [0 .. n -> Nat] /\ g[0] = 0 /\ h[0] = 0
  BY EndsUnroll, LitsUnroll
<1>2. ASSUME NEW k \in 1 .. n
      PROVE  /\ g[k] = g[k - 1] + recs[k].lit + Covered(o, recs[k]) /\ h[k] = h[k - 1] + recs[k].lit
             /\ recs[k].lit \in Nat /\ Covered(o, recs[k]) \in Nat
  <2>1. recs[k] \in RecordSet
    OBVIOUS
  <2>2. recs[k].lit \in Nat /\ Covered(o, recs[k]) \in Nat
    BY <2>1, CoveredIsNat DEF RecordSet
  <2> QED BY <2>2, EndsUnroll, LitsUnroll
<1> HIDE DEF n, g, h
<1>3. ASSUME NEW j \in 0 .. n PROVE \A k \in 0 .. j : g[k] <= g[j]
  <2> DEFINE G == {m \in 0 .. n : \A k \in 0 .. m : g[k] <= g[m]}
  <2>1. 0 \in G
    BY <1>1
  <2>2. ASSUME NEW m \in 1 .. n, m - 1 \in G PROVE m \in G
    <3>0. m \in 0 .. n /\ m - 1 \in 0 .. n
      BY <1>1
    <3>1. g[m - 1] <= g[m] /\ g[m] \in Nat /\ g[m - 1] \in Nat
      <4>1. g[m] \in Nat /\ g[m - 1] \in Nat
        BY <1>1, <3>0
      <4>2. g[m] = g[m - 1] + recs[m].lit + Covered(o, recs[m])
            /\ recs[m].lit \in Nat /\ Covered(o, recs[m]) \in Nat
        BY <1>2
      <4> QED BY <4>1, <4>2
    <3>2. ASSUME NEW k \in 0 .. m PROVE g[k] <= g[m]
      <4>1. g[k] \in Nat
        BY <1>1
      <4>2. CASE k = m
        BY <4>2, <4>1
      <4>3. CASE k # m
        <5>1. g[k] <= g[m - 1]
          BY <4>3, <2>2
        <5> QED BY <5>1, <4>1, <3>1
      <4> QED BY <4>2, <4>3
    <3> QED BY <3>2
  <2>3. \A m \in 0 .. n : m \in G
    <3> HIDE DEF G
    <3> QED BY <1>1, <2>1, <2>2, SetInduction
  <2> QED BY <2>3
<1>4. ASSUME NEW j \in 0 .. n PROVE h[j] <= g[j]
  <2> DEFINE G == {m \in 0 .. n : h[m] <= g[m]}
  <2>1. 0 \in G
    BY <1>1
  <2>2. ASSUME NEW m \in 1 .. n, m - 1 \in G PROVE m \in G
    <3>1. h[m - 1] <= g[m - 1] /\ g[m] \in Nat /\ g[m - 1] \in Nat /\ h[m] \in Nat /\ h[m - 1] \in Nat
      BY <1>1, <2>2
    <3>2. h[m] <= g[m]
      <4>1. /\ g[m] = g[m - 1] + recs[m].lit + Covered(o, recs[m]) /\ h[m] = h[m - 1] + recs[m].lit
            /\ recs[m].lit \in Nat /\ Covered(o, recs[m]) \in Nat
        BY <1>2
      <4> QED BY <3>1, <4>1
    <3> QED BY <3>2
  <2>3. \A m \in 0 .. n : m \in G
    <3> HIDE DEF G
    <3> QED BY <1>1, <2>1, <2>2, SetInduction
  <2> QED BY <2>3
<1>5. \A k \in 0 .. n : g[k] <= g[n]
  BY <1>1, <1>3
<1> QED BY <1>4, <1>5 DEF n, g, h

(* One record more.                                                        *)
LEMMA OneMoreRecord ==
  ASSUME NEW o, Writable(o), NEW recs \in Seq(RecordSet), NEW r \in RecordSet
  PROVE  LET more == Append(recs, r)
             n == Len(recs)
         IN  /\ more \in Seq(RecordSet) /\ Len(more) = n + 1
             /\ \A k \in 1 .. n : more[k] = recs[k]
             /\ more[n + 1] = r
             /\ \A k \in 0 .. n : EndsOf(o, more)[k] = EndsOf(o, recs)[k] /\ LitsOf(more)[k] = LitsOf(recs)[k]
             /\ EndsOf(o, more)[n + 1] = EndsOf(o, recs)[n] + r.lit + Covered(o, r)
             /\ LitsOf(more)[n + 1] = LitsOf(recs)[n] + r.lit
<1> DEFINE more == Append(recs, r)
           n == Len(recs)
           g == EndsOf(o, recs)
           h == LitsOf(recs)
           gg == EndsOf(o, more)
           hh == LitsOf(more)
<1>1. more \in Seq(RecordSet) /\ Len(more) = n + 1 /\ more[n + 1] = r /\ n \in Nat
  OBVIOUS
<1>2. \A k \in 1 .. n : more[k] = recs[k]
  OBVIOUS
<1> HIDE DEF more
<1>3. /\ g[0] = 0 /\ h[0] = 0 /\ gg[0] = 0 /\ hh[0] = 0
  BY <1>1, EndsUnroll, LitsUnroll
<1>4. ASSUME NEW k \in 1 .. n
      PROVE  g[k] = g[k - 1] + recs[k].lit + Covered(o, recs[k]) /\ h[k] = h[k - 1] + recs[k].lit
  BY EndsUnroll, LitsUnroll
<1>5. ASSUME NEW k \in 1 .. n + 1
      PROVE  gg[k] = gg[k - 1] + more[k].lit + Covered(o, more[k]) /\ hh[k] = hh[k - 1] + more[k].lit
  <2>1. k \in 1 .. Len(more)
    BY <1>1
  <2> QED BY <1>1, <2>1, EndsUnroll, LitsUnroll
<1> HIDE DEF g, h, gg, hh, n
<1>6. \A k \in 0 .. n : gg[k] = g[k] /\ hh[k] = h[k]
  <2> DEFINE G == {k \in 0 .. n : gg[k] = g[k] /\ hh[k] = h[k]}
  <2>1. 0 \in G
    BY <1>1, <1>3
  <2>2. ASSUME NEW k \in 1 .. n, k - 1 \in G PROVE k \in G
    <3>1. k \in 1 .. n + 1 /\ more[k] = recs[k]
      BY <1>1, <1>2
    <3>2. gg[k - 1] = g[k - 1] /\ hh[k - 1] = h[k - 1]
      BY <2>2
    <3>3. gg[k] = g[k - 1] + recs[k].lit + Covered(o, recs[k]) /\ hh[k] = h[k - 1] + recs[k].lit
      BY <3>1, <3>2, <1>5
    <3>4. gg[k] = g[k] /\ hh[k] = h[k]
      BY <3>3, <1>4
    <3> QED BY <3>4
  <2>3. \A k \in 0 .. n : k \in G
    <3> HIDE DEF G
    <3> QED BY <1>1, <2>1, <2>2, SetInduction
  <2> QED BY <2>3
<1>7. gg[n + 1] = g[n] + r.lit + Covered(o, r) /\ hh[n + 1] = h[n] + r.lit
  <2>1. n + 1 \in 1 .. n + 1 /\ n \in 0 .. n /\ n + 1 - 1 = n
    BY <1>1
  <2>2. gg[n + 1] = gg[n] + more[n + 1].lit + Covered(o, more[n + 1]) /\ hh[n + 1] = hh[n] + more[n + 1].lit
    BY <2>1, <1>5
  <2> QED BY <2>1, <2>2, <1>1, <1>6
<1> QED BY <1>1, <1>2, <1>6, <1>7 DEF more, n, g, h, gg, hh

-----------------------------------------------------------------------------
(* A list whose records, one after the other from place b of the file on,  *)
(* decode to its bytes, and that ends e bytes further.                     *)
Copy(f, src, dest, len) == \A j \in 0 .. len - 1 : ByteAt(f, src + j + 1) = ByteAt(f, dest + j + 1)

Good(o, f, r, anchor) ==
  LET m == Decoded(o.round, o.base, r, anchor)
  IN  0 <= m.src /\ m.src < m.dest /\ Copy(f, m.src, m.dest, m.len)

GoodList(o, f, b, recs, e) ==
  /\ recs \in Seq(RecordSet) /\ EndsOf(o, recs)[Len(recs)] = e
  /\ \A k \in 1 .. Len(recs) : Good(o, f, recs[k], b + EndsOf(o, recs)[k - 1])

LitCount(recs) == LitsOf(recs)[Len(recs)]

LEMMA NoRecords ==
  ASSUME NEW o, Writable(o), NEW f, NEW b
  PROVE  GoodList(o, f, b, <<>>, 0) /\ LitCount(<<>>) = 0
<1> DEFINE recs == <<>>
<1>1. recs \in Seq(RecordSet) /\ Len(recs) = 0
  OBVIOUS
<1> HIDE DEF recs
<1>2. EndsOf(o, recs)[0] = 0 /\ LitsOf(recs)[0] = 0
  BY <1>1, EndsUnroll, LitsUnroll
<1>3. GoodList(o, f, b, recs, 0) /\ LitCount(recs) = 0
  BY <1>1, <1>2 DEF GoodList, LitCount
<1> QED BY <1>3 DEF recs

LEMMA GoodListGrows ==
  ASSUME NEW o, Writable(o), NEW f, NEW b, NEW recs, NEW e, GoodList(o, f, b, recs, e),
         NEW r \in RecordSet, Good(o, f, r, b + e)
  PROVE  /\ GoodList(o, f, b, Append(recs, r), e + r.lit + Covered(o, r))
         /\ LitCount(Append(recs, r)) = LitCount(recs) + r.lit
<1> DEFINE more == Append(recs, r)
           n == Len(recs)
<1>1. recs \in Seq(RecordSet) /\ EndsOf(o, recs)[n] = e /\ n \in Nat
  BY DEF GoodList
<1>2. /\ more \in Seq(RecordSet) /\ Len(more) = n + 1
      /\ \A k \in 1 .. n : more[k] = recs[k]
      /\ more[n + 1] = r
      /\ \A k \in 0 .. n : EndsOf(o, more)[k] = EndsOf(o, recs)[k] /\ LitsOf(more)[k] = LitsOf(recs)[k]
      /\ EndsOf(o, more)[n + 1] = EndsOf(o, recs)[n] + r.lit + Covered(o, r)
      /\ LitsOf(more)[n + 1] = LitsOf(recs)[n] + r.lit
  BY <1>1, OneMoreRecord
<1> HIDE DEF more
<1>3. ASSUME NEW k \in 1 .. n + 1 PROVE Good(o, f, more[k], b + EndsOf(o, more)[k - 1])
  <2>1. CASE k = n + 1
    <3>1. k - 1 = n /\ n \in 0 .. n
      BY <1>1, <2>1
    <3>2. EndsOf(o, more)[k - 1] = e
      BY <1>1, <1>2, <3>1
    <3> QED BY <1>2, <2>1, <3>2
  <2>2. CASE k # n + 1
    <3>1. k \in 1 .. n /\ k - 1 \in 0 .. n
      BY <1>1, <2>2
    <3>2. EndsOf(o, more)[k - 1] = EndsOf(o, recs)[k - 1] /\ more[k] = recs[k]
      BY <1>2, <3>1
    <3>3. Good(o, f, recs[k], b + EndsOf(o, recs)[k - 1])
      BY <3>1 DEF GoodList
    <3> QED BY <3>2, <3>3
  <2> QED BY <2>1, <2>2
<1>4. GoodList(o, f, b, more, e + r.lit + Covered(o, r))
  BY <1>1, <1>2, <1>3 DEF GoodList
<1>5. LitCount(more) = LitCount(recs) + r.lit
  BY <1>2 DEF LitCount
<1> QED BY <1>4, <1>5 DEF more

LEMMA GoodListEnds ==
  ASSUME NEW o, Writable(o), NEW f, NEW b, NEW recs, NEW e, GoodList(o, f, b, recs, e)
  PROVE  /\ e \in Nat /\ LitCount(recs) \in 0 .. e
         /\ EndsOf(o, recs) \in [0 .. Len(recs) -> Nat] /\ EndsOf(o, recs)[0] = 0
         /\ \A k \in 0 .. Len(recs) : EndsOf(o, recs)[k] <= e
         /\ \A k \in 1 .. Len(recs) :
              EndsOf(o, recs)[k] = EndsOf(o, recs)[k - 1] + recs[k].lit + Covered(o, recs[k])
<1> DEFINE n == Len(recs)
<1>1. recs \in Seq(RecordSet) /\ EndsOf(o, recs)[n] = e /\ n \in Nat /\ n \in 0 .. n
  BY DEF GoodList
<1>2. EndsOf(o, recs) \in [0 .. n -> Nat] /\ EndsOf(o, recs)[0] = 0 /\ LitsOf(recs) \in [0 .. n -> Nat]
  BY <1>1, EndsUnroll, LitsUnroll
<1>3. /\ \A k \in 0 .. n : EndsOf(o, recs)[k] <= e
      /\ LitCount(recs) <= e
  BY <1>1, EndsGoUp DEF LitCount
<1>4. e \in Nat /\ LitCount(recs) \in Nat
  BY <1>1, <1>2 DEF LitCount
<1>5. \A k \in 1 .. n : EndsOf(o, recs)[k] = EndsOf(o, recs)[k - 1] + recs[k].lit + Covered(o, recs[k])
  BY <1>1, EndsUnroll
<1> QED BY <1>2, <1>3, <1>4, <1>5

(* What is read of a record depends on where it stands only by its places. *)
LEMMA ReadElsewhere ==
  ASSUME NEW o, NEW r, NEW anchor
  PROVE  /\ Decoded(o.round, o.base, r, anchor).len = Covered(o, r)
         /\ Decoded(o.round, o.base, r, anchor).dest = anchor + r.lit
BY DEF Decoded, Covered

(* A record as it is written.                                              *)
LEMMA WrittenIsRecord ==
  ASSUME NEW o, Writable(o), NEW lit \in Nat, NEW offset \in Nat, NEW len \in Nat, len >= o.base
  PROVE  Encoded(o.round, o.base, lit, offset, len) \in RecordSet
         /\ Encoded(o.round, o.base, lit, offset, len).lit = lit
<1> DEFINE u == Unit(o.round, o.base)
<1>1. u \in Nat \ {0} /\ o.base \in Nat
  BY DEF Unit, Writable
<1>2. Encoded(o.round, o.base, lit, offset, len) = [lit |-> lit, off |-> offset \div u, len |-> (len - o.base) \div u]
  BY DEF Encoded
<1> HIDE DEF u
<1>3. len - o.base \in Nat
  BY <1>1
<1>4. offset \div u \in Nat /\ (len - o.base) \div u \in Nat
  BY <1>1, <1>3, DivMod
<1> QED BY <1>2, <1>4 DEF RecordSet

(* Without units, what is read is what was written.                        *)
LEMMA PlainComesBack ==
  ASSUME NEW o, Writable(o), ~ o.round, NEW lit \in Nat, NEW offset \in Nat, NEW len \in Nat,
         NEW anchor \in Nat, len >= o.base
  PROVE  LET r == Encoded(o.round, o.base, lit, offset, len)
             m == Decoded(o.round, o.base, r, anchor)
         IN  Covered(o, r) = len /\ m.dest = anchor + lit /\ m.src = anchor + lit - offset /\ m.len = len
<1> DEFINE r == Encoded(o.round, o.base, lit, offset, len)
           m == Decoded(o.round, o.base, r, anchor)
<1>1. o.base \in Nat
  BY DEF Writable
<1>2. r = [lit |-> lit, off |-> offset \div 1, len |-> (len - o.base) \div 1]
  BY DEF Encoded, Unit
<1>3. \A n \in Int : n \div 1 = n
  BY Z3
<1>4. r.lit = lit /\ r.off = offset /\ r.len = len - o.base
  <2>1. len - o.base \in Int /\ offset \in Int
    BY <1>1
  <2> HIDE DEF r
  <2> QED BY <1>2, <1>3, <2>1
<1> HIDE DEF r
<1>5. /\ m.dest = anchor + r.lit /\ m.src = ((anchor + r.lit) \div 1) * 1 - r.off * 1
      /\ m.len = r.len * 1 + o.base
  BY DEF Decoded, Unit
<1> HIDE DEF m
<1>6. anchor + lit \in Int /\ (anchor + lit) \div 1 = anchor + lit
  BY <1>3
<1>7. m.dest = anchor + lit /\ m.src = anchor + lit - offset /\ m.len = len
  BY <1>1, <1>4, <1>5, <1>6
<1>8. Covered(o, r) = m.len
  BY ReadElsewhere DEF m
<1> QED BY <1>7, <1>8 DEF m, r

(* A copy of a copy's part.                                                *)
LEMMA CopyWithin ==
  ASSUME NEW f, NEW src \in Int, NEW dest \in Int, NEW len \in Int, Copy(f, src, dest, len),
         NEW skip \in Nat, NEW cut \in Int, skip + cut <= len
  PROVE  Copy(f, src + skip, dest + skip, cut)
<1>1. ASSUME NEW j \in 0 .. cut - 1
      PROVE  ByteAt(f, src + skip + j + 1) = ByteAt(f, dest + skip + j + 1)
  <2>1. skip + j \in 0 .. len - 1
    OBVIOUS
  <2>2. ByteAt(f, src + (skip + j) + 1) = ByteAt(f, dest + (skip + j) + 1)
    BY <2>1 DEF Copy
  <2>3. src + (skip + j) + 1 = src + skip + j + 1 /\ dest + (skip + j) + 1 = dest + skip + j + 1
    OBVIOUS
  <2> QED BY <2>2, <2>3
<1> QED BY <1>1 DEF Copy

-----------------------------------------------------------------------------
(* The ring of blocks: whole blocks, as many as the dictionary takes and   *)
(* two more.                                                               *)
LEMMA TurnAround ==
  ASSUME NEW d \in Nat \ {0}
  PROVE  d % d = 0 /\ \A n \in 0 .. d - 1 : n % d = n
<1>1. d % d = 0
  BY Z3
<1>2. \A n \in 0 .. d - 1 : n % d = n
  BY Z3
<1> QED BY <1>1, <1>2

LEMMA RingSizes ==
  ASSUME NEW o, o.bufsize \in Nat \ {0}, o.dict \in Nat
  PROVE  /\ RingSize(o) \in Nat /\ 2 * o.bufsize + o.dict <= RingSize(o)
         /\ \E n \in Nat : RingSize(o) = n * o.bufsize
<1> DEFINE b == o.bufsize
           d == o.dict
           q == (d + b - 1) \div b
           r == (d + b - 1) % b
<1>1. b \in Nat \ {0} /\ d \in Nat /\ d + b - 1 \in Nat
  OBVIOUS
<1>2. RingSize(o) = 2 * b + q * b
  BY DEF RingSize, RoundUp
<1> HIDE DEF b, d
<1>3. q \in Nat /\ r \in 0 .. b - 1 /\ d + b - 1 = b * q + r
  BY <1>1, DivMod
<1> HIDE DEF q, r
<1>4. q * b \in Nat /\ q * b = b * q
  BY <1>1, <1>3, Z3
<1>5. RingSize(o) \in Nat /\ 2 * b + d <= RingSize(o)
  BY <1>1, <1>2, <1>3, <1>4
<1>6. 2 + q \in Nat /\ (2 + q) * b = 2 * b + q * b
  BY <1>1, <1>3, Z3
<1>7. \E n \in Nat : RingSize(o) = n * b
  BY <1>2, <1>6
<1> QED BY <1>5, <1>7 DEF b, d

(* A place in the ring where a block starts, and the next.                 *)
Aligned(off, o) == off \in Nat /\ off + o.bufsize <= RingSize(o) /\ \E m \in Nat : off = m * o.bufsize

LEMMA NextPlace ==
  ASSUME NEW o, o.bufsize \in Nat \ {0}, o.dict \in Nat, NEW off, Aligned(off, o)
  PROVE  LET next == (off + o.bufsize) % RingSize(o)
         IN  /\ next = IF off + o.bufsize = RingSize(o) THEN 0 ELSE off + o.bufsize
             /\ Aligned(next, o)
<1> DEFINE b == o.bufsize
           s == RingSize(o)
           next == (off + b) % s
<1>1. b \in Nat \ {0} /\ s \in Nat /\ 2 * b <= s
  BY RingSizes
<1>2. PICK n \in Nat : s = n * b
  BY RingSizes
<1>3. PICK m \in Nat : off = m * b
  BY DEF Aligned
<1>4. off \in Nat /\ off + b <= s
  BY DEF Aligned
<1> HIDE DEF b, s
<1>5. CASE off + b = s
  <2>1. next = 0
    BY <1>1, <1>5, TurnAround
  <2>2. 0 = 0 * b
    BY <1>1
  <2>3. Aligned(0, o)
    BY <1>1, <2>2 DEF Aligned, b, s
  <2> QED BY <1>5, <2>1, <2>3 DEF b, s
<1>6. CASE off + b # s
  <2>1. off + b \in 0 .. s - 1 /\ s \in Nat \ {0}
    BY <1>1, <1>4, <1>6
  <2>2. next = off + b
    BY <2>1, TurnAround
  <2>3. off + b = (m + 1) * b /\ m + 1 \in Nat
    BY <1>1, <1>3, Z3
  <2>4. m + 1 < n
    BY <1>1, <1>2, <1>3, <2>1, <2>3, Z3
  <2>5. (m + 2) * b <= n * b /\ (m + 2) * b = (m + 1) * b + b
    BY <1>1, <2>4, Z3
  <2>6. off + b + b <= s /\ off + b \in Nat
    BY <1>1, <1>2, <1>4, <2>3, <2>5
  <2>7. Aligned(off + b, o)
    BY <2>3, <2>6 DEF Aligned, b, s
  <2> QED BY <1>6, <2>2, <2>7 DEF b, s
<1> QED BY <1>5, <1>6

-----------------------------------------------------------------------------
(* What the ring r holds, when place b0 of the file is at off: every byte  *)
(* of the file before place hi, for as far back as the ring is long.       *)
Places(s, off, b0, q, x) == x = off + (q - b0) \/ x = off + (q - b0) - s \/ x = off + (q - b0) + s

Holds(r, f, s, off, b0, hi) ==
  \A q \in Nat : \A x \in 0 .. s - 1 :
    q < hi /\ hi <= q + s /\ Places(s, off, b0, q, x) => r[x + 1] = f[q + 1]

(* A block is read behind what is held.                                    *)
LEMMA HoldsMore ==
  ASSUME NEW s \in Nat, NEW f \in Seq(Nat), NEW r \in Seq(Nat), Len(r) = s,
         NEW off \in 0 .. s - 1, NEW b0 \in Nat, NEW hi \in Nat, b0 <= hi, hi <= b0 + s,
         Holds(r, f, s, off, b0, hi),
         NEW n \in Nat, hi + n <= Len(f),
         NEW y \in 0 .. s - 1, y + n <= s, y = off + (hi - b0) \/ y = off + (hi - b0) - s
  PROVE  LET rr == WriteAt(r, y, Part(f, hi, n))
         IN  rr \in Seq(Nat) /\ Len(rr) = s /\ Holds(rr, f, s, off, b0, hi + n)
<1> DEFINE w == Part(f, hi, n)
           rr == WriteAt(r, y, w)
<1>1. w \in Seq(Nat) /\ Len(w) = n
  BY PartBytes DEF Bytes
<1>2. \A k \in 1 .. n : w[k] = f[hi + k]
  <2> TAKE k \in 1 .. n
  <2>1. hi + k \in DOMAIN f
    OBVIOUS
  <2>2. w[k] = ByteAt(f, hi + k)
    BY DEF Part
  <2> QED BY <2>1, <2>2 DEF ByteAt
<1> HIDE DEF w
<1>3. rr = [k \in 1 .. s |-> IF y < k /\ k <= y + n THEN w[k - y] ELSE ByteAt(r, k)]
  <2>1. ~ (y + Len(w) > Len(r))
    BY <1>1
  <2> QED BY <1>1, <2>1 DEF WriteAt
<1>4. ASSUME NEW k \in 1 .. s PROVE rr[k] = (IF y < k /\ k <= y + n THEN w[k - y] ELSE r[k]) /\ rr[k] \in Nat
  <2>1. rr[k] = IF y < k /\ k <= y + n THEN w[k - y] ELSE r[k]
    BY <1>3 DEF ByteAt
  <2>2. CASE y < k /\ k <= y + n
    <3>1. k - y \in 1 .. Len(w)
      BY <1>1, <2>2
    <3> QED BY <1>1, <2>1, <2>2, <3>1
  <2>3. CASE ~ (y < k /\ k <= y + n)
    BY <2>1, <2>3
  <2> QED BY <2>1, <2>2, <2>3
<1>5. rr \in Seq(Nat) /\ Len(rr) = s
  <2>1. rr = [k \in 1 .. s |-> rr[k]]
    BY <1>3
  <2> HIDE DEF rr
  <2>2. rr \in [1 .. s -> Nat]
    BY <1>4, <2>1
  <2> QED BY <2>2
<1> HIDE DEF rr
<1>6. ASSUME NEW q \in Nat, NEW x \in 0 .. s - 1, q < hi + n, hi + n <= q + s, Places(s, off, b0, q, x)
      PROVE  rr[x + 1] = f[q + 1]
  <2>1. x + 1 \in 1 .. s
    OBVIOUS
  <2>2. CASE q >= hi
    <3>1. x = y + (q - hi)
      BY <1>6, <2>2 DEF Places
    <3>2. y < x + 1 /\ x + 1 <= y + n /\ x + 1 - y = q - hi + 1 /\ q - hi + 1 \in 1 .. n
      BY <1>6, <2>2, <3>1
    <3>3. rr[x + 1] = w[x + 1 - y]
      BY <1>4, <2>1, <3>2
    <3>4. w[q - hi + 1] = f[hi + (q - hi + 1)] /\ hi + (q - hi + 1) = q + 1
      BY <1>2, <3>2
    <3> QED BY <3>2, <3>3, <3>4
  <2>3. CASE q < hi
    <3>1. x < y \/ y + n <= x
      BY <1>6, <2>3 DEF Places
    <3>2. rr[x + 1] = r[x + 1]
      BY <1>4, <2>1, <3>1
    <3>3. hi <= q + s
      BY <1>6
    <3>4. r[x + 1] = f[q + 1]
      BY <1>6, <2>3, <3>3 DEF Holds
    <3> QED BY <3>2, <3>4
  <2> QED BY <2>2, <2>3
<1>7. Holds(rr, f, s, off, b0, hi + n)
  BY <1>6 DEF Holds
<1> QED BY <1>5, <1>7 DEF rr, w

(* The next block becomes the one at hand.                                 *)
LEMMA HoldsOn ==
  ASSUME NEW s \in Nat, NEW f, NEW r, NEW off \in 0 .. s - 1, NEW b0 \in Nat, NEW hi \in Nat,
         b0 <= hi, hi <= b0 + s, Holds(r, f, s, off, b0, hi), NEW b \in Nat,
         NEW next \in 0 .. s - 1, next = off + b \/ next = off + b - s
  PROVE  Holds(r, f, s, next, b0 + b, hi)
<1>1. ASSUME NEW q \in Nat, NEW x \in 0 .. s - 1, q < hi, hi <= q + s, Places(s, next, b0 + b, q, x)
      PROVE  Places(s, off, b0, q, x)
  BY <1>1 DEF Places
<1>2. ASSUME NEW q \in Nat, NEW x \in 0 .. s - 1, q < hi, hi <= q + s, Places(s, next, b0 + b, q, x)
      PROVE  r[x + 1] = f[q + 1]
  BY <1>1, <1>2 DEF Holds
<1> QED BY <1>2 DEF Holds

-----------------------------------------------------------------------------
(* While a block is compressed it and the next are in the ring, behind all *)
(* that a match may reach back to.                                         *)
BusyAt == {"prepare", "inmem", "dict", "first", "window", "chunk", "scan", "hash", "probe",
           "stripe", "chunks", "write"}
Busy == pc \in BusyAt

(* Lengths that come up everywhere.                                        *)
BlockSize == opt.bufsize
DictSize == opt.dict
RingLen == RingSize(opt)
FileLen == Len(file)

RingInv ==
  /\ file \in Files /\ SettledOK(opt) /\ pc \in {"begin", "next", "done", "failed"} \cup BusyAt
  /\ ring \in Seq(Nat) /\ Len(ring) = RingLen /\ Aligned(bufOffset, opt)
  /\ blockStart \in Nat /\ filled \in 0 .. BlockSize /\ nextFilled \in 0 .. BlockSize
  /\ pc = "begin" => bufOffset = 0 /\ blockStart = 0 /\ filled = 0
  /\ Busy \/ pc = "next" => blockStart <= FileLen /\ filled = Span(blockStart)
  /\ Busy => filled > 0 /\ nextFilled = Span(blockStart + filled)
  /\ filled > 0 => blockStart = bufOffset \/ bufOffset + RingLen <= blockStart
  /\ pc = "next" /\ filled > 0 =>
       Holds(ring, file, RingLen, bufOffset, blockStart, blockStart + filled)
  /\ Busy => Holds(ring, file, RingLen, bufOffset, blockStart, blockStart + filled + nextFilled)

LEMMA OptionsTyped ==
  ASSUME RingInv
  PROVE  /\ BlockSize \in Nat \ {0} /\ DictSize \in Nat /\ Writable(opt) /\ opt.base \in Nat \ {0}
         /\ RingLen \in Nat /\ 2 * BlockSize + DictSize <= RingLen
         /\ file \in Seq(Nat) /\ FileLen \in Nat /\ bufOffset \in 0 .. RingLen - 1
         /\ bufOffset + BlockSize <= RingLen
<1>1. BlockSize \in Nat \ {0} /\ DictSize \in Nat /\ Writable(opt) /\ opt.base \in Nat \ {0}
  BY DEF RingInv, SettledOK, Writable, BlockSize, DictSize
<1>2. file \in Seq(Nat) /\ FileLen \in Nat
  BY OptionsAssumption DEF RingInv, Bytes, FileLen
<1>3. RingLen \in Nat /\ 2 * BlockSize + DictSize <= RingLen
  BY <1>1, RingSizes DEF BlockSize, DictSize, RingLen
<1>4. bufOffset \in Nat /\ bufOffset + BlockSize <= RingLen
  BY DEF RingInv, Aligned, BlockSize, RingLen
<1> QED BY <1>1, <1>2, <1>3, <1>4

(* The next block's place.                                                 *)
LEMMA NextOffsetIs ==
  ASSUME RingInv
  PROVE  /\ nextOffset = IF bufOffset + BlockSize = RingLen THEN 0 ELSE bufOffset + BlockSize
         /\ Aligned(nextOffset, opt) /\ nextOffset \in Nat /\ nextOffset + BlockSize <= RingLen
<1>1. opt.bufsize \in Nat \ {0} /\ opt.dict \in Nat /\ Aligned(bufOffset, opt)
  BY OptionsTyped DEF BlockSize, DictSize, RingInv
<1>2. /\ nextOffset = IF bufOffset + opt.bufsize = RingSize(opt) THEN 0 ELSE bufOffset + opt.bufsize
      /\ Aligned(nextOffset, opt)
  BY <1>1, NextPlace DEF nextOffset
<1>3. nextOffset \in Nat /\ nextOffset + BlockSize <= RingLen
  BY <1>2 DEF Aligned, BlockSize, RingLen
<1> QED BY <1>2, <1>3 DEF BlockSize, RingLen

LEMMA SameLengths ==
  ASSUME file' = file, opt' = opt
  PROVE  UNCHANGED <<BlockSize, DictSize, RingLen, FileLen>>
BY DEF BlockSize, DictSize, RingLen, FileLen

LEMMA SpanIs ==
  ASSUME RingInv, NEW p \in Nat, p <= FileLen
  PROVE  /\ Span(p) \in 0 .. BlockSize /\ p + Span(p) <= FileLen
         /\ Span(p) < BlockSize => p + Span(p) = FileLen
<1>1. BlockSize \in Nat \ {0} /\ FileLen \in Nat
  BY OptionsTyped
<1>2. Span(p) = Least(Most(FileLen - p, 0), BlockSize)
  BY DEF Span, FileLen, BlockSize
<1> QED BY <1>1, <1>2 DEF Least, Most

(* What is in the block at hand, in the file's terms.                      *)
LEMMA BlockTyped ==
  ASSUME RingInv, Busy
  PROVE  /\ filled \in Nat \ {0} /\ filled <= BlockSize /\ nextFilled \in Nat /\ nextFilled <= BlockSize
         /\ blockStart \in Nat /\ blockStart + filled <= FileLen
         /\ blockStart + filled + nextFilled <= FileLen
         /\ nextFilled > 0 => filled = BlockSize
<1>1. /\ blockStart \in Nat /\ blockStart <= FileLen /\ filled = Span(blockStart) /\ filled > 0
      /\ nextFilled = Span(blockStart + filled)
  BY DEF RingInv
<1>2. /\ filled \in 0 .. BlockSize /\ blockStart + filled <= FileLen
      /\ filled < BlockSize => blockStart + filled = FileLen
  BY <1>1, SpanIs
<1>3. BlockSize \in Nat /\ FileLen \in Nat
  BY OptionsTyped
<1>4. blockStart \in Nat /\ filled > 0
  BY <1>1
<1> DEFINE b == BlockSize
           f == FileLen
<1> HIDE DEF b, f
<1>5. blockStart + filled \in Nat /\ filled \in Nat \ {0} /\ filled <= b /\ b \in Nat /\ f \in Nat
      /\ blockStart + filled <= f /\ (filled < b => blockStart + filled = f)
  BY <1>2, <1>3, <1>4 DEF b, f
<1>6. nextFilled \in 0 .. b /\ blockStart + filled + nextFilled <= f
  BY <1>1, <1>5, SpanIs DEF b, f
<1>7. nextFilled \in Nat /\ nextFilled <= b /\ (nextFilled > 0 => filled = b)
  BY <1>4, <1>5, <1>6
<1> QED BY <1>4, <1>5, <1>6, <1>7 DEF b, f

LEMMA BlockHeld ==
  ASSUME RingInv, Busy
  PROVE  Holds(ring, file, RingLen, bufOffset, blockStart, blockStart + filled + nextFilled)
BY DEF RingInv

LEMMA BlockBytes ==
  ASSUME RingInv, Busy, NEW p \in 0 .. filled - 1
  PROVE  InBlock(p) = ByteAt(file, blockStart + p + 1)
<1>1. /\ filled \in Nat \ {0} /\ filled <= BlockSize /\ nextFilled \in Nat /\ nextFilled <= BlockSize
      /\ blockStart \in Nat /\ blockStart + filled <= FileLen
  BY BlockTyped
<1>2. /\ RingLen \in Nat /\ BlockSize \in Nat /\ DictSize \in Nat /\ FileLen \in Nat
      /\ 2 * BlockSize + DictSize <= RingLen
      /\ bufOffset \in 0 .. RingLen - 1 /\ bufOffset + BlockSize <= RingLen
  BY OptionsTyped
<1> DEFINE q == blockStart + p
           x == bufOffset + p
<1>3. q \in Nat /\ x \in 0 .. RingLen - 1 /\ q < blockStart + filled + nextFilled
      /\ blockStart + filled + nextFilled <= q + RingLen
  BY <1>1, <1>2
<1>4. Places(RingLen, bufOffset, blockStart, q, x)
  BY <1>1, <1>2 DEF Places
<1>5. ring[x + 1] = file[q + 1]
  <2> HIDE DEF q, x
  <2> QED BY BlockHeld, <1>3, <1>4 DEF Holds
<1>6. x + 1 \in DOMAIN ring /\ q + 1 \in DOMAIN file
  <2>1. Len(ring) = RingLen /\ ring \in Seq(Nat) /\ file \in Seq(Nat)
    BY OptionsTyped DEF RingInv
  <2>2. x + 1 \in 1 .. RingLen /\ q + 1 \in 1 .. FileLen
    BY <1>1, <1>2, <1>3
  <2> HIDE DEF x, q
  <2> QED BY <2>1, <2>2 DEF FileLen
<1>7. ByteAt(ring, x + 1) = ring[x + 1] /\ ByteAt(file, q + 1) = file[q + 1]
  <2> HIDE DEF q, x
  <2> QED BY <1>6 DEF ByteAt
<1> QED BY <1>5, <1>7 DEF InBlock

LEMMA AheadBytes ==
  ASSUME RingInv, Busy, NEW n \in Nat, n <= nextFilled
  PROVE  Part(ring, nextOffset, n) = Part(file, blockStart + filled, n)
<1>1. /\ filled \in Nat \ {0} /\ filled <= BlockSize /\ nextFilled \in Nat /\ nextFilled <= BlockSize
      /\ blockStart \in Nat /\ blockStart + filled + nextFilled <= FileLen
      /\ (nextFilled > 0 => filled = BlockSize)
  BY BlockTyped
<1>2. /\ RingLen \in Nat /\ BlockSize \in Nat \ {0} /\ DictSize \in Nat /\ FileLen \in Nat
      /\ 2 * BlockSize + DictSize <= RingLen
      /\ bufOffset \in 0 .. RingLen - 1 /\ bufOffset + BlockSize <= RingLen
      /\ file \in Seq(Nat)
  BY OptionsTyped
<1>3. /\ nextOffset = IF bufOffset + BlockSize = RingLen THEN 0 ELSE bufOffset + BlockSize
      /\ nextOffset \in Nat /\ nextOffset + BlockSize <= RingLen
  BY NextOffsetIs
<1>4. ring \in Seq(Nat) /\ Len(ring) = RingLen
  BY DEF RingInv
<1>5. ASSUME NEW j \in 1 .. n PROVE ByteAt(ring, nextOffset + j) = ByteAt(file, blockStart + filled + j)
  <2> DEFINE q == blockStart + filled + j - 1
             x == nextOffset + j - 1
  <2>1. filled = BlockSize
    BY <1>1
  <2>2. q \in Nat /\ x \in 0 .. RingLen - 1 /\ q < blockStart + filled + nextFilled
        /\ blockStart + filled + nextFilled <= q + RingLen
    BY <1>1, <1>2, <1>3
  <2>3. Places(RingLen, bufOffset, blockStart, q, x)
    BY <1>1, <1>2, <1>3, <2>1 DEF Places
  <2>4. ring[x + 1] = file[q + 1]
    <3> HIDE DEF q, x
    <3> QED BY BlockHeld, <2>2, <2>3 DEF Holds
  <2>5. x + 1 = nextOffset + j /\ q + 1 = blockStart + filled + j
    BY <1>1, <1>3
  <2>6. nextOffset + j \in 1 .. RingLen /\ blockStart + filled + j \in 1 .. FileLen
    BY <1>1, <1>2, <1>3
  <2> HIDE DEF q, x
  <2>7. ring[nextOffset + j] = file[blockStart + filled + j]
    BY <2>4, <2>5
  <2>8. nextOffset + j \in DOMAIN ring /\ blockStart + filled + j \in DOMAIN file
    BY <1>2, <1>4, <2>6 DEF FileLen
  <2> QED BY <2>7, <2>8 DEF ByteAt
<1> QED BY <1>5 DEF Part

-----------------------------------------------------------------------------
LEMMA RingFirst == Init => RingInv
<1> SUFFICES ASSUME Init PROVE RingInv
  OBVIOUS
<1>1. PICK o \in Options : Accepted(o) /\ opt = Settled(o)
  BY DEF Init
<1>2. SettledOK(opt)
  BY <1>1, Settles
<1>3. BlockSize \in Nat \ {0} /\ DictSize \in Nat
  BY <1>2 DEF SettledOK, BlockSize, DictSize
<1>4. RingLen \in Nat /\ 2 * BlockSize + DictSize <= RingLen
  BY <1>3, RingSizes DEF RingLen, BlockSize, DictSize
<1>5. /\ file \in Files /\ pc = "begin" /\ bufOffset = 0 /\ blockStart = 0 /\ filled = 0 /\ nextFilled = 0
      /\ ring = [p \in 1 .. RingLen |-> 0]
  BY DEF Init, RingLen
<1>6. ring \in Seq(Nat) /\ Len(ring) = RingLen
  BY <1>4, <1>5
<1>7. Aligned(0, opt)
  <2>1. 0 = 0 * BlockSize
    BY <1>3
  <2>2. 0 + BlockSize <= RingLen
    BY <1>3, <1>4
  <2> QED BY <2>1, <2>2 DEF Aligned, BlockSize, RingLen
<1>8. ~ Busy
  BY <1>5 DEF Busy, BusyAt
<1>9. 0 \in 0 .. BlockSize /\ ~ (0 > 0)
  BY <1>3
<1> QED BY <1>2, <1>5, <1>6, <1>7, <1>8, <1>9 DEF RingInv

LEMMA RingStays ==
  ASSUME RingInv, UNCHANGED <<inputVars, ringVars>>, Busy, pc' \in BusyAt \cup {"failed"}
  PROVE  RingInv'
<1>1. UNCHANGED <<file, opt, ring, bufOffset, blockStart, filled, nextFilled>>
  BY DEF inputVars, ringVars
<1>2. pc' \in {"begin", "next", "done", "failed"} \cup BusyAt /\ pc' # "begin" /\ pc' # "next"
  BY DEF BusyAt
<1>0. UNCHANGED <<BlockSize, DictSize, RingLen, FileLen>>
  BY <1>1, SameLengths
<1>3. Span(blockStart)' = Span(blockStart) /\ Span(blockStart + filled)' = Span(blockStart + filled)
  BY <1>1 DEF Span
<1>4. (SettledOK(opt) /\ Aligned(bufOffset, opt))'
  BY <1>1 DEF RingInv
<1>5. (Holds(ring, file, RingLen, bufOffset, blockStart, blockStart + filled + nextFilled))'
  BY <1>0, <1>1, BlockHeld
<1>6. /\ blockStart <= FileLen /\ filled = Span(blockStart) /\ filled > 0
      /\ nextFilled = Span(blockStart + filled)
  BY DEF RingInv
<1> QED BY <1>0, <1>1, <1>2, <1>3, <1>4, <1>5, <1>6 DEF RingInv

LEMMA RingReadFirst ==
  ASSUME RingInv, ReadFirst
  PROVE  RingInv'
<1>1. /\ pc = "begin" /\ ring' = ReadBlock(ring, 0, 0) /\ filled' = Span(0) /\ pc' = "next"
      /\ UNCHANGED <<file, opt, bufOffset, blockStart, nextFilled>>
  BY DEF ReadFirst, inputVars
<1>2. bufOffset = 0 /\ blockStart = 0 /\ ring \in Seq(Nat) /\ Len(ring) = RingLen
  BY <1>1 DEF RingInv
<1>3. /\ RingLen \in Nat /\ BlockSize \in Nat \ {0} /\ DictSize \in Nat /\ FileLen \in Nat
      /\ 2 * BlockSize + DictSize <= RingLen /\ file \in Seq(Nat)
  BY OptionsTyped
<1>4. Span(0) \in 0 .. BlockSize /\ 0 + Span(0) <= FileLen
  BY <1>3, SpanIs
<1> DEFINE n == Span(0)
           s == RingLen
<1>5. Holds(ring, file, s, 0, 0, 0)
  BY DEF Holds
<1> HIDE DEF n, s
<1>6. ring' \in Seq(Nat) /\ Len(ring') = s /\ Holds(ring', file, s, 0, 0, 0 + n)
  <2>1. ring' = WriteAt(ring, 0, Part(file, 0, n))
    BY <1>1 DEF ReadBlock, n
  <2>2. s \in Nat /\ 0 \in 0 .. s - 1 /\ n \in Nat /\ 0 + n <= s /\ 0 + n <= FileLen /\ 0 = 0 + (0 - 0)
        /\ Len(ring) = s
    BY <1>2, <1>3, <1>4 DEF n, s, FileLen
  <2>3. 0 <= 0 /\ 0 <= 0 + s /\ file \in Seq(Nat) /\ ring \in Seq(Nat) /\ 0 + n <= Len(file) /\ 0 \in Nat
    BY <1>2, <1>3, <2>2 DEF FileLen
  <2> QED BY <1>5, <2>1, <2>2, <2>3, HoldsMore
<1>7. Span(blockStart)' = n
  BY <1>1, <1>2 DEF Span, n
<1>8. ~ Busy' /\ pc' = "next"
  BY <1>1 DEF Busy, BusyAt
<1>0. UNCHANGED <<BlockSize, DictSize, RingLen, FileLen>>
  BY <1>1, SameLengths
<1>9. RingLen' = s /\ 0 + n = blockStart' + filled'
  BY <1>0, <1>1, <1>2, <1>4 DEF n, s
<1>10. (pc = "next" /\ filled > 0 => Holds(ring, file, RingLen, bufOffset, blockStart, blockStart + filled))'
  BY <1>1, <1>2, <1>6, <1>9
<1>11. (SettledOK(opt) /\ Aligned(bufOffset, opt) /\ file \in Files)'
  BY <1>1 DEF RingInv
<1>12. (blockStart \in Nat /\ blockStart <= FileLen /\ filled \in 0 .. BlockSize /\ nextFilled \in 0 .. BlockSize)'
  BY <1>0, <1>1, <1>2, <1>3, <1>4 DEF RingInv
<1> QED BY <1>0, <1>1, <1>2, <1>6, <1>7, <1>8, <1>9, <1>10, <1>11, <1>12 DEF RingInv, n

LEMMA RingReadAhead ==
  ASSUME RingInv, ReadAhead
  PROVE  RingInv'
<1> DEFINE s == RingLen
           hi == blockStart + filled
           n == Span(hi)
<1>1. /\ pc = "next" /\ filled > 0 /\ ring' = ReadBlock(ring, nextOffset, hi)
      /\ nextFilled' = n /\ pc' \in {"inmem", "prepare"}
      /\ UNCHANGED <<file, opt, bufOffset, blockStart, filled>>
  BY DEF ReadAhead, inputVars
<1>2. /\ s \in Nat /\ BlockSize \in Nat \ {0} /\ DictSize \in Nat /\ FileLen \in Nat
      /\ 2 * BlockSize + DictSize <= s /\ file \in Seq(Nat)
      /\ bufOffset \in 0 .. s - 1 /\ bufOffset + BlockSize <= s
  BY OptionsTyped
<1>3. /\ blockStart \in Nat /\ blockStart <= FileLen /\ filled = Span(blockStart)
      /\ ring \in Seq(Nat) /\ Len(ring) = s /\ Aligned(bufOffset, opt)
  BY <1>1 DEF RingInv
<1>4. /\ filled \in 0 .. BlockSize /\ hi <= FileLen /\ (filled < BlockSize => hi = FileLen)
  BY <1>3, SpanIs
<1>5. hi \in Nat /\ n \in 0 .. BlockSize /\ hi + n <= FileLen
  <2>1. hi \in Nat
    BY <1>2, <1>3, <1>4
  <2> HIDE DEF hi
  <2> QED BY <1>4, <2>1, SpanIs
<1>6. /\ nextOffset = IF bufOffset + BlockSize = s THEN 0 ELSE bufOffset + BlockSize
      /\ nextOffset \in Nat /\ nextOffset + BlockSize <= s
  BY NextOffsetIs
<1>7. ring' = WriteAt(ring, nextOffset, Part(file, hi, n))
  BY <1>1 DEF ReadBlock
<1>8. ring' \in Seq(Nat) /\ Len(ring') = s /\ Holds(ring', file, s, bufOffset, blockStart, hi + n)
  <2>1. CASE filled = BlockSize
    <3>1. blockStart <= hi /\ hi <= blockStart + s /\ n \in Nat /\ nextOffset \in 0 .. s - 1
          /\ nextOffset + n <= s
      <4>1. blockStart <= hi /\ hi <= blockStart + BlockSize
        BY <1>2, <1>3, <1>4
      <4>2. n \in Nat /\ n <= BlockSize
        <5> HIDE DEF n
        <5> QED BY <1>2, <1>5
      <4>3. nextOffset \in Nat /\ nextOffset + BlockSize <= s
        BY <1>6
      <4> HIDE DEF n, hi, s
      <4>4. s \in Nat /\ BlockSize \in Nat \ {0} /\ DictSize \in Nat /\ 2 * BlockSize + DictSize <= s
            /\ blockStart \in Nat /\ hi \in Nat
        BY <1>2, <1>3, <1>5
      <4> QED BY <4>1, <4>2, <4>3, <4>4
    <3>2. nextOffset = bufOffset + (hi - blockStart) \/ nextOffset = bufOffset + (hi - blockStart) - s
      BY <1>2, <1>3, <1>6, <2>1
    <3>3. Holds(ring, file, s, bufOffset, blockStart, hi)
      BY <1>1 DEF RingInv
    <3>4. /\ s \in Nat /\ file \in Seq(Nat) /\ bufOffset \in 0 .. s - 1 /\ blockStart \in Nat
          /\ ring \in Seq(Nat) /\ Len(ring) = s /\ hi \in Nat /\ hi + n <= Len(file)
      BY <1>2, <1>3, <1>5 DEF FileLen
    <3> HIDE DEF s, hi, n
    <3> QED BY <1>7, <3>1, <3>2, <3>3, <3>4, HoldsMore
  <2>2. CASE filled # BlockSize
    <3>1. n = 0
      BY <1>2, <1>4, <1>5, <2>2
    <3>2. ring' = ring
      <4>1. Part(file, hi, 0) = <<>>
        BY DEF Part
      <4>2. ring' = WriteAt(ring, nextOffset, <<>>)
        <5> HIDE DEF n, hi
        <5> QED BY <1>7, <3>1, <4>1
      <4>3. ~ (nextOffset + 0 > Len(ring))
        BY <1>2, <1>3, <1>6
      <4>4. ring' = [k \in 1 .. Len(ring) |-> IF nextOffset < k /\ k <= nextOffset + 0 THEN (<<>>)[k - nextOffset]
                                              ELSE ByteAt(ring, k)]
        BY <4>2, <4>3 DEF WriteAt
      <4>5. \A k \in 1 .. Len(ring) : ~ (nextOffset < k /\ k <= nextOffset + 0)
        BY <1>6
      <4>6. ring = [k \in 1 .. Len(ring) |-> ring[k]]
        BY <1>3
      <4>7. \A k \in 1 .. Len(ring) : ByteAt(ring, k) = ring[k]
        BY <1>3 DEF ByteAt
      <4>8. ring' = [k \in 1 .. Len(ring) |-> ring[k]]
        BY <4>4, <4>5, <4>7
      <4> QED BY <4>6, <4>8
    <3>3. hi + n = hi
      BY <1>5, <3>1
    <3>4. Holds(ring, file, s, bufOffset, blockStart, hi)
      BY <1>1 DEF RingInv
    <3> QED BY <1>3, <3>2, <3>3, <3>4
  <2> QED BY <2>1, <2>2
<1>9. Busy' /\ pc' # "begin" /\ pc' # "next"
  BY <1>1 DEF Busy, BusyAt
<1>10. Span(blockStart)' = Span(blockStart) /\ Span(blockStart + filled)' = n
  BY <1>1 DEF Span
<1>11. (SettledOK(opt) /\ Aligned(bufOffset, opt) /\ file \in Files)'
  BY <1>1 DEF RingInv
<1>0. UNCHANGED <<BlockSize, DictSize, RingLen, FileLen>>
  BY <1>1, SameLengths
<1>12. (Holds(ring, file, RingLen, bufOffset, blockStart, blockStart + filled + nextFilled))'
  BY <1>0, <1>1, <1>8
<1>13. (blockStart = bufOffset \/ bufOffset + RingLen <= blockStart)'
  BY <1>0, <1>1 DEF RingInv
<1>14. (blockStart \in Nat /\ blockStart <= FileLen /\ filled \in 0 .. BlockSize /\ nextFilled \in 0 .. BlockSize)'
  BY <1>0, <1>1, <1>3, <1>4, <1>5
<1>15. (ring \in Seq(Nat) /\ Len(ring) = RingLen)'
  BY <1>0, <1>1, <1>8
<1>16. (filled = Span(blockStart) /\ filled > 0 /\ nextFilled = Span(blockStart + filled))'
  BY <1>1, <1>3, <1>10
<1>17. pc' \in {"begin", "next", "done", "failed"} \cup BusyAt
  BY <1>9 DEF Busy
<1> QED BY <1>9, <1>11, <1>12, <1>13, <1>14, <1>15, <1>16, <1>17 DEF RingInv

LEMMA RingWriteBlock ==
  ASSUME RingInv, WriteBlock
  PROVE  RingInv'
<1> DEFINE s == RingLen
           hi == blockStart + filled + nextFilled
<1>1. /\ pc = "write" /\ blockStart' = blockStart + filled /\ bufOffset' = nextOffset /\ filled' = nextFilled
      /\ pc' \in {"next", "failed"} /\ UNCHANGED <<file, opt, ring, nextFilled>>
  BY DEF WriteBlock, inputVars
<1>2. Busy
  BY <1>1 DEF Busy, BusyAt
<1>3. /\ filled \in Nat \ {0} /\ filled <= BlockSize /\ nextFilled \in Nat /\ nextFilled <= BlockSize
      /\ blockStart \in Nat /\ blockStart + filled <= FileLen /\ hi <= FileLen
      /\ (nextFilled > 0 => filled = BlockSize)
  BY <1>2, BlockTyped
<1>4. /\ s \in Nat /\ BlockSize \in Nat \ {0} /\ DictSize \in Nat
      /\ 2 * BlockSize + DictSize <= s
      /\ bufOffset \in 0 .. s - 1 /\ bufOffset + BlockSize <= s
  BY OptionsTyped
<1>5. /\ nextOffset = IF bufOffset + BlockSize = s THEN 0 ELSE bufOffset + BlockSize
      /\ Aligned(nextOffset, opt) /\ nextOffset \in Nat /\ nextOffset + BlockSize <= s
  BY NextOffsetIs
<1>6. /\ nextFilled = Span(blockStart + filled) /\ (blockStart = bufOffset \/ bufOffset + s <= blockStart)
      /\ file \in Files /\ SettledOK(opt) /\ ring \in Seq(Nat) /\ Len(ring) = s
  BY <1>2, <1>3 DEF RingInv
<1>7. ASSUME nextFilled > 0 PROVE Holds(ring, file, s, nextOffset, blockStart + filled, hi)
  <2>1. filled = BlockSize
    BY <1>3, <1>7
  <2>2. nextOffset \in 0 .. s - 1 /\ (nextOffset = bufOffset + filled \/ nextOffset = bufOffset + filled - s)
    BY <1>4, <1>5, <2>1
  <2>3. hi \in Nat /\ blockStart <= hi /\ hi <= blockStart + s
    BY <1>3, <1>4
  <2>4. Holds(ring, file, s, bufOffset, blockStart, hi)
    BY <1>2, BlockHeld
  <2>5. s \in Nat /\ bufOffset \in 0 .. s - 1 /\ blockStart \in Nat /\ filled \in Nat
    BY <1>3, <1>4
  <2> HIDE DEF s, hi
  <2> QED BY <2>2, <2>3, <2>4, <2>5, HoldsOn
<1>8. nextFilled > 0 => blockStart + filled = nextOffset \/ nextOffset + s <= blockStart + filled
  BY <1>3, <1>4, <1>5, <1>6
<1>9. ~ Busy' /\ pc' # "begin" /\ pc' \in {"begin", "next", "done", "failed"} \cup BusyAt
  BY <1>1 DEF Busy, BusyAt
<1>10. Span(blockStart)' = Span(blockStart + filled)
  BY <1>1 DEF Span
<1>0. UNCHANGED <<BlockSize, DictSize, RingLen, FileLen>>
  BY <1>1, SameLengths
<1>11. (SettledOK(opt) /\ Aligned(bufOffset, opt) /\ file \in Files)'
  BY <1>1, <1>5, <1>6
<1>12. (blockStart \in Nat /\ blockStart <= FileLen /\ filled \in 0 .. BlockSize /\ nextFilled \in 0 .. BlockSize)'
  BY <1>0, <1>1, <1>3, <1>4
<1>13. (ring \in Seq(Nat) /\ Len(ring) = RingLen)'
  BY <1>0, <1>1, <1>6
<1>14. (filled = Span(blockStart))'
  BY <1>1, <1>6, <1>10
<1>15. (filled > 0 => blockStart = bufOffset \/ bufOffset + RingLen <= blockStart)'
  BY <1>0, <1>1, <1>8
<1>16. (filled > 0 => Holds(ring, file, RingLen, bufOffset, blockStart, blockStart + filled))'
  <2>1. blockStart' + filled' = hi
    BY <1>1, <1>3
  <2> QED BY <1>0, <1>1, <1>7, <2>1
<1> QED BY <1>9, <1>11, <1>12, <1>13, <1>14, <1>15, <1>16 DEF RingInv

-----------------------------------------------------------------------------
(* What the finders do they do while the block is busy, to other state     *)
(* than the input's.                                                       *)
BusyStep ==
  Busy /\ pc' \in BusyAt \cup {"failed"} /\ UNCHANGED <<file, opt>> /\ UNCHANGED ringVars

LEMMA InmemIsBusy == BeginInmem \/ TakeWindow \/ PassWindow \/ EndInmem => BusyStep
<1>1. BeginInmem => BusyStep
  BY DEF BeginInmem, BusyStep, Busy, BusyAt, inputVars
<1>2. TakeWindow => BusyStep
  BY DEF TakeWindow, BusyStep, Busy, BusyAt, inputVars
<1>3. PassWindow => BusyStep
  BY DEF PassWindow, BusyStep, Busy, BusyAt, inputVars
<1>4. EndInmem => BusyStep
  BY DEF EndInmem, BusyStep, Busy, BusyAt, inputVars
<1> QED BY <1>1, <1>2, <1>3, <1>4

LEMMA EmitTo ==
  ASSUME NEW r, NEW next, Emit(r, next) \/ Skip(next)
  PROVE  pc' = next \/ pc' = "failed"
BY DEF Emit, Skip

LEMMA FixedIsBusy == FixedNext => BusyStep
<1>1. PrepareBuffer => BusyStep
  BY DEF PrepareBuffer, BusyStep, Busy, BusyAt, inputVars
<1>2. BeginScan => BusyStep
  BY DEF BeginScan, BusyStep, Busy, BusyAt, inputVars
<1>3. ASSUME FirstWindow PROVE BusyStep
  <2>1. pc = "window" /\ UNCHANGED <<file, opt>> /\ UNCHANGED ringVars
    BY <1>3 DEF FirstWindow, inputVars
  <2>2. PICK k \in Lookup(0) : LET r == RecordMatch(k, 0)
                               IN  IF k # NotFound /\ r.len > 0 THEN Emit(r, "chunk") ELSE Skip("chunk")
    BY <1>3 DEF FirstWindow
  <2>3. pc' = "chunk" \/ pc' = "failed"
    BY <2>2, EmitTo
  <2> QED BY <2>1, <2>3 DEF BusyStep, Busy, BusyAt
<1>4. BeginChunk => BusyStep
  BY DEF BeginChunk, BusyStep, Busy, BusyAt, inputVars
<1>5. EndScan => BusyStep
  BY DEF EndScan, BusyStep, Busy, BusyAt, inputVars
<1>6. ASSUME SpliceInput PROVE BusyStep
  <2>1. pc = "scan" /\ UNCHANGED <<file, opt>> /\ UNCHANGED ringVars
    BY <1>6 DEF SpliceInput, inputVars
  <2>2. pc' = "failed" \/ pc' = "hash"
    BY <1>6 DEF SpliceInput, Emit, Skip
  <2> QED BY <2>1, <2>2 DEF BusyStep, Busy, BusyAt
<1>7. NotReached => BusyStep
  BY DEF NotReached, BusyStep, Busy, BusyAt, inputVars
<1>8. HashWindows => BusyStep
  BY DEF HashWindows, BusyStep, Busy, BusyAt, inputVars
<1>9. ASSUME Probe PROVE BusyStep
  <2>1. pc = "probe" /\ UNCHANGED <<file, opt>> /\ UNCHANGED ringVars
    BY <1>9 DEF Probe, inputVars
  <2>2. PICK k \in Lookup(nextPair) :
          LET r == RecordMatch(k, nextPair)
              taken == k # NotFound /\ r.len > 0
          IN  IF taken THEN Emit(r, "probe") ELSE Skip("probe")
    BY <1>9 DEF Probe
  <2>3. pc' = "probe" \/ pc' = "failed"
    BY <2>2, EmitTo
  <2> QED BY <2>1, <2>3 DEF BusyStep, Busy, BusyAt
<1>10. EndProbe => BusyStep
  BY DEF EndProbe, BusyStep, Busy, BusyAt, inputVars
<1>11. EndChunk => BusyStep
  BY DEF EndChunk, BusyStep, Busy, BusyAt, inputVars
<1> QED BY <1>1, <1>2, <1>3, <1>4, <1>5, <1>6, <1>7, <1>8, <1>9, <1>10, <1>11 DEF FixedNext

LEMMA CdcIsBusy == CdcNext => BusyStep
<1>1. BeginCdc => BusyStep
  BY DEF BeginCdc, BusyStep, Busy, BusyAt, inputVars
<1>2. FindChunks => BusyStep
  BY DEF FindChunks, BusyStep, Busy, BusyAt, inputVars
<1>3. TakeChunk => BusyStep
  BY DEF TakeChunk, BusyStep, Busy, BusyAt, inputVars
<1>4. PassChunk => BusyStep
  BY DEF PassChunk, BusyStep, Busy, BusyAt, inputVars
<1>5. EndStripe => BusyStep
  BY DEF EndStripe, BusyStep, Busy, BusyAt, inputVars
<1> QED BY <1>1, <1>2, <1>3, <1>4, <1>5 DEF CdcNext

LEMMA FindIsBusy == Find \/ EndInmem => BusyStep
BY InmemIsBusy, FixedIsBusy, CdcIsBusy DEF Find

LEMMA RingIdle ==
  ASSUME RingInv, UNCHANGED <<file, opt, pc>>, UNCHANGED ringVars
  PROVE  RingInv'
<1>1. UNCHANGED <<file, opt, pc, ring, bufOffset, blockStart, filled, nextFilled>>
  BY DEF ringVars
<1>2. UNCHANGED <<BlockSize, DictSize, RingLen, FileLen>>
  BY <1>1, SameLengths
<1>3. Span(blockStart)' = Span(blockStart) /\ Span(blockStart + filled)' = Span(blockStart + filled)
  BY <1>1 DEF Span
<1>4. Busy' = Busy
  BY <1>1 DEF Busy
<1> QED BY <1>1, <1>2, <1>3, <1>4 DEF RingInv

LEMMA RingFinish ==
  ASSUME RingInv, Finish
  PROVE  RingInv'
<1>1. UNCHANGED <<file, opt, ring, bufOffset, blockStart, filled, nextFilled>>
      /\ filled = 0 /\ pc = "next" /\ pc' = "done"
  BY DEF Finish, inputVars, ringVars
<1>2. UNCHANGED <<BlockSize, DictSize, RingLen, FileLen>>
  BY <1>1, SameLengths
<1>3. ~ Busy' /\ ~ (filled' > 0)
  BY <1>1 DEF Busy, BusyAt
<1>4. /\ (file \in Files /\ SettledOK(opt) /\ ring \in Seq(Nat) /\ Len(ring) = RingLen)'
      /\ (Aligned(bufOffset, opt))' /\ blockStart' \in Nat
      /\ filled' \in 0 .. BlockSize' /\ nextFilled' \in 0 .. BlockSize'
  BY <1>1, <1>2 DEF RingInv
<1> QED BY <1>1, <1>3, <1>4 DEF RingInv

LEMMA RingNext == RingInv /\ [Next]_vars => RingInv'
<1> SUFFICES ASSUME RingInv, [Next]_vars PROVE RingInv'
  OBVIOUS
<1>1. CASE Find \/ EndInmem
  <2>1. BusyStep
    BY <1>1, FindIsBusy
  <2>2. Busy /\ pc' \in BusyAt \cup {"failed"} /\ UNCHANGED <<inputVars, ringVars>>
    BY <2>1 DEF BusyStep, inputVars
  <2> QED BY <2>2, RingStays
<1>2. CASE Stopped \/ UNCHANGED vars
  <2>1. UNCHANGED <<file, opt, pc>> /\ UNCHANGED ringVars
    BY <1>2 DEF Stopped, vars, inputVars
  <2> QED BY <2>1, RingIdle
<1> QED BY <1>1, <1>2, RingReadFirst, RingReadAhead, RingWriteBlock, RingFinish DEF Next

-----------------------------------------------------------------------------
(* Which finder is at work.                                                *)
TableAt == {"first", "window", "chunk", "scan", "hash", "probe"}
CdcAt == {"stripe", "chunks"}

KindInv ==
  /\ pc \in TableAt => HasTable(opt)
  /\ pc \in CdcAt => IsCdc(opt)
  /\ pc \in {"inmem", "dict"} => opt.kind = "inmem" \/ HasTable(opt)
  /\ pc = "prepare" => opt.kind # "inmem"

LEMMA KindFirst == Init => KindInv
BY DEF Init, KindInv, TableAt, CdcAt

LEMMA FixedStages ==
  ASSUME FixedNext, ~ PrepareBuffer
  PROVE  pc \in TableAt /\ pc' \in TableAt \cup {"write", "failed"}
<1>1. pc \in TableAt
  BY DEF FixedNext, BeginScan, FirstWindow, BeginChunk, EndScan, SpliceInput, NotReached,
         HashWindows, Probe, EndProbe, EndChunk, TableAt
<1>2. CASE FirstWindow
  <2>1. PICK k \in Lookup(0) : LET r == RecordMatch(k, 0)
                               IN  IF k # NotFound /\ r.len > 0 THEN Emit(r, "chunk") ELSE Skip("chunk")
    BY <1>2 DEF FirstWindow
  <2> QED BY <1>1, <2>1, EmitTo DEF TableAt
<1>3. CASE Probe
  <2>1. PICK k \in Lookup(nextPair) :
          LET r == RecordMatch(k, nextPair)
              taken == k # NotFound /\ r.len > 0
          IN  IF taken THEN Emit(r, "probe") ELSE Skip("probe")
    BY <1>3 DEF Probe
  <2> QED BY <1>1, <2>1, EmitTo DEF TableAt
<1>4. CASE SpliceInput
  <2>1. pc' = "failed" \/ pc' = "hash"
    BY <1>4 DEF SpliceInput, Emit, Skip
  <2> QED BY <1>1, <2>1 DEF TableAt
<1>5. CASE BeginScan \/ BeginChunk \/ EndScan \/ NotReached \/ HashWindows \/ EndProbe \/ EndChunk
  <2>1. pc' \in TableAt \cup {"write"}
    BY <1>5 DEF BeginScan, BeginChunk, EndScan, NotReached, HashWindows, EndProbe, EndChunk, TableAt
  <2> QED BY <1>1, <2>1
<1> QED BY <1>2, <1>3, <1>4, <1>5 DEF FixedNext

LEMMA CdcStages ==
  ASSUME CdcNext
  PROVE  /\ BeginCdc \/ pc \in CdcAt
         /\ pc' \in CdcAt \cup {"write", "failed"}
<1>1. BeginCdc \/ pc \in CdcAt
  BY DEF CdcNext, FindChunks, TakeChunk, PassChunk, EndStripe, CdcAt
<1>2. CASE TakeChunk \/ PassChunk
  BY <1>1, <1>2 DEF TakeChunk, PassChunk, CdcAt
<1>3. CASE BeginCdc \/ FindChunks \/ EndStripe
  BY <1>1, <1>3 DEF BeginCdc, FindChunks, EndStripe, CdcAt
<1> QED BY <1>2, <1>3 DEF CdcNext

LEMMA KindNext == RingInv /\ KindInv /\ [Next]_vars => KindInv'
<1> SUFFICES ASSUME RingInv, KindInv, [Next]_vars PROVE KindInv'
  OBVIOUS
<1>0. opt.kind \in {"inmem", "cdc", "zpaq", "digest", "fixed", "exhaustive"}
  BY DEF RingInv, SettledOK
<1>1. CASE ReadFirst
  BY <1>1 DEF ReadFirst, KindInv, TableAt, CdcAt
<1>2. CASE ReadAhead
  <2>1. opt' = opt /\ pc' = IF opt.kind = "inmem" THEN "inmem" ELSE "prepare"
    BY <1>2 DEF ReadAhead, inputVars
  <2> QED BY <2>1 DEF KindInv, TableAt, CdcAt
<1>3. CASE WriteBlock
  <2>1. opt' = opt /\ pc' \in {"next", "failed"}
    BY <1>3 DEF WriteBlock, inputVars
  <2> QED BY <2>1 DEF KindInv, TableAt, CdcAt
<1>4. CASE EndInmem
  <2>1. opt' = opt /\ pc = "dict" /\ pc' = IF opt.kind = "inmem" THEN "write" ELSE "first"
    BY <1>4 DEF EndInmem, inputVars
  <2> QED BY <2>1 DEF KindInv, TableAt, CdcAt
<1>5. CASE Finish
  BY <1>5 DEF Finish, KindInv, TableAt, CdcAt
<1>6. CASE BeginInmem \/ TakeWindow \/ PassWindow
  <2>1. opt' = opt /\ pc \in {"inmem", "dict"} /\ pc' = "dict"
    BY <1>6 DEF BeginInmem, TakeWindow, PassWindow, inputVars
  <2> QED BY <2>1 DEF KindInv, TableAt, CdcAt, HasTable
<1>7. CASE FixedNext
  <2>1. CASE PrepareBuffer
    BY <2>1 DEF PrepareBuffer, inputVars, KindInv, TableAt, CdcAt, HasTable
  <2>2. CASE FixedNext /\ ~ PrepareBuffer
    <3>1. opt' = opt
      BY <2>2, FixedIsBusy DEF BusyStep
    <3>2. pc \in TableAt /\ pc' \in TableAt \cup {"write", "failed"}
      BY <2>2, FixedStages
    <3>3. HasTable(opt) /\ HasTable(opt)'
      BY <3>1, <3>2 DEF KindInv, HasTable
    <3> QED BY <3>2, <3>3 DEF KindInv, TableAt, CdcAt
  <2> QED BY <1>7, <2>1, <2>2
<1>8. CASE CdcNext
  <2>1. opt' = opt
    BY <1>8, CdcIsBusy DEF BusyStep
  <2>2. IsCdc(opt)
    <3>1. CASE BeginCdc
      BY <3>1 DEF BeginCdc
    <3>2. CASE ~ BeginCdc
      BY <1>8, <3>2, CdcStages DEF KindInv
    <3> QED BY <3>1, <3>2
  <2>3. pc' \in CdcAt \cup {"write", "failed"}
    BY <1>8, CdcStages
  <2> QED BY <2>1, <2>2, <2>3 DEF KindInv, TableAt, CdcAt, IsCdc
<1>9. CASE Stopped \/ UNCHANGED vars
  <2>1. opt' = opt /\ pc' = pc
    BY <1>9 DEF Stopped, vars, inputVars
  <2> QED BY <2>1 DEF KindInv
<1> QED BY <1>1, <1>2, <1>3, <1>4, <1>5, <1>6, <1>7, <1>8, <1>9 DEF Next, Find

-----------------------------------------------------------------------------
(* The in-memory pass.  Its table holds places of the ring, in the first   *)
(* turn only those it has been at; its windows end inside the block.       *)
Hop == opt.dictChunk

WindowSet == [at: 0 .. Hop - 1, hash: 0 .. HashSlots - 1]

InDict ==
  /\ i \in Nat /\ bufOffset <= i /\ i <= blockEnd
  /\ lastMatchEnd \in Nat /\ bufOffset <= lastMatchEnd /\ lastMatchEnd <= blockEnd
  /\ windows \in Seq(WindowSet)
  /\ windows # <<>> => opt.dict # 0 /\ i + (Len(windows) + 1) * Hop <= blockEnd

StoreBound ==
  IF pc \in {"begin", "next", "prepare", "inmem"} THEN bufOffset
  ELSE IF pc = "dict" THEN i ELSE blockEnd

HashInv ==
  /\ hasharr \in [0 .. HashSlots - 1 -> 0 .. RingLen - 1]
  /\ pc = "begin" => \A h \in 0 .. HashSlots - 1 : hasharr[h] = 0
  /\ filled > 0 /\ blockStart = bufOffset =>
       \A h \in 0 .. HashSlots - 1 : hasharr[h] = 0 \/ hasharr[h] < StoreBound
  /\ pc = "dict" => InDict

(* The greatest of finitely many, and the first of those.                  *)
LEMMA FirstGreatest ==
  ASSUME NEW c \in Nat \ {0}, NEW g, \A a \in 0 .. c - 1 : g[a] \in Nat
  PROVE  \E a \in 0 .. c - 1 : \A o \in 0 .. c - 1 : g[a] > g[o] \/ (g[a] = g[o] /\ a <= o)
<1> DEFINE Top(a, m) == a \in 0 .. m /\ \A o \in 0 .. m : g[a] > g[o] \/ (g[a] = g[o] /\ a <= o)
           n == c - 1
           G == {m \in 0 .. n : \E a \in 0 .. m : Top(a, m)}
<1>1. n \in Nat /\ 0 \in 0 .. n
  OBVIOUS
<1>2. 0 \in G
  <2>1. Top(0, 0)
    BY <1>1
  <2>2. \E a \in 0 .. 0 : Top(a, 0)
    BY <2>1
  <2> HIDE DEF Top
  <2> QED BY <1>1, <2>2
<1>3. ASSUME NEW m \in 1 .. n, m - 1 \in G PROVE m \in G
  <2>1. PICK a \in 0 .. m - 1 : Top(a, m - 1)
    BY <1>3
  <2>2. g[a] \in Nat /\ g[m] \in Nat /\ a \in 0 .. m /\ a < m /\ m \in 0 .. n
    BY <1>1
  <2>3. \A o \in 0 .. m - 1 : g[a] > g[o] \/ (g[a] = g[o] /\ a <= o)
    BY <2>1
  <2>4. \A o \in 0 .. m : o \in 0 .. m - 1 \/ o = m
    OBVIOUS
  <2>5. CASE g[m] > g[a]
    <3>1. ASSUME NEW o \in 0 .. m PROVE g[m] > g[o] \/ (g[m] = g[o] /\ m <= o)
      <4>1. CASE o = m
        BY <4>1
      <4>2. CASE o \in 0 .. m - 1
        <5>1. g[o] \in Nat
          BY <4>2, <1>1
        <5>2. g[o] <= g[a]
          BY <2>2, <2>3, <4>2, <5>1
        <5> QED BY <2>2, <2>5, <5>1, <5>2
      <4> QED BY <2>4, <4>1, <4>2
    <3>2. Top(m, m) /\ m \in 0 .. m
      BY <3>1
    <3> HIDE DEF Top
    <3> QED BY <2>2, <3>2
  <2>6. CASE ~ (g[m] > g[a])
    <3>1. ASSUME NEW o \in 0 .. m PROVE g[a] > g[o] \/ (g[a] = g[o] /\ a <= o)
      <4>1. CASE o = m
        BY <2>2, <2>6, <4>1
      <4>2. CASE o \in 0 .. m - 1
        BY <2>3, <4>2
      <4> QED BY <2>4, <4>1, <4>2
    <3>2. Top(a, m)
      BY <2>2, <3>1
    <3> HIDE DEF Top
    <3> QED BY <2>2, <3>2
  <2> QED BY <2>5, <2>6
<1>4. n \in G
  <2> HIDE DEF G, n
  <2>1. \A m \in 0 .. n : m \in G
    BY <1>1, <1>2, <1>3, SetInduction
  <2> QED BY <1>1, <2>1
<1> QED BY <1>4

(* A window of the block hashes to a number.                               *)
LEMMA WindowHashed ==
  ASSUME RingInv, Busy, NEW p \in Nat, NEW c \in Nat, p + c <= filled
  PROVE  WindowHash([k \in 1 .. c |-> ByteAt(ring, bufOffset + p + k)]) \in Nat
<1>1. /\ filled \in Nat /\ blockStart \in Nat /\ blockStart + filled <= FileLen /\ FileLen \in Nat
      /\ bufOffset \in Nat
  BY BlockTyped, OptionsTyped
<1>2. ASSUME NEW k \in 1 .. c
      PROVE  ByteAt(ring, bufOffset + p + k) = ByteAt(file, blockStart + p + k)
  <2>1. p + k - 1 \in 0 .. filled - 1
    BY <1>1
  <2>2. InBlock(p + k - 1) = ByteAt(file, blockStart + (p + k - 1) + 1)
    BY <2>1, BlockBytes
  <2>3. bufOffset + (p + k - 1) + 1 = bufOffset + p + k /\ blockStart + (p + k - 1) + 1 = blockStart + p + k
    BY <1>1
  <2> QED BY <2>2, <2>3 DEF InBlock
<1>3. [k \in 1 .. c |-> ByteAt(ring, bufOffset + p + k)] = Part(file, blockStart + p, c)
  BY <1>2 DEF Part
<1>4. blockStart + p \in 0 .. FileLen /\ c \in 0 .. FileLen
  BY <1>1
<1>5. file \in Files
  BY DEF RingInv
<1> QED BY <1>3, <1>4, <1>5, HashAssumption DEF FileLen

LEMMA HopTyped ==
  ASSUME RingInv, opt.dict # 0
  PROVE  Hop \in Nat \ {0} /\ opt.round = FALSE
<1>1. SettledOK(opt)
  BY DEF RingInv
<1> QED BY <1>1 DEF SettledOK, Hop

LEMMA Prepared ==
  ASSUME RingInv, Busy, opt.dict # 0
  PROVE  /\ Prepare(bufOffset, filled) \in Seq(WindowSet)
         /\ Prepare(bufOffset, filled) # <<>> =>
              (Len(Prepare(bufOffset, filled)) + 1) * Hop <= filled
<1> DEFINE c == Hop
           hashAt(p) == WindowHash([k \in 1 .. c |-> ByteAt(ring, bufOffset + p + k)])
           peak(b) == CHOOSE top \in 0 .. c - 1 :
             \A other \in 0 .. c - 1 :
               LET h == hashAt(b * c + top)  g == hashAt(b * c + other)
               IN  h > g \/ (h = g /\ top <= other)
           n == Most(filled \div c - 1, 0)
           W == [b \in 1 .. n |->
                  [at |-> peak(b - 1), hash |-> hashAt((b - 1) * c + peak(b - 1)) % HashSlots]]
<1>1. Prepare(bufOffset, filled) = W
  BY DEF Prepare, Hop
<1>2. c \in Nat \ {0} /\ filled \in Nat
  BY HopTyped, BlockTyped
<1> HIDE DEF c
<1>3. filled \div c \in Nat /\ c * (filled \div c) <= filled
  <2>1. filled \div c \in Nat /\ filled % c \in 0 .. c - 1 /\ filled = c * (filled \div c) + (filled % c)
    BY <1>2, DivMod
  <2>2. c * (filled \div c) \in Nat
    BY <1>2, <2>1, Z3
  <2> QED BY <2>1, <2>2
<1>4. n \in Nat /\ (n # 0 => n + 1 = filled \div c)
  BY <1>3 DEF Most
<1>5. ASSUME n # 0 PROVE (n + 1) * c <= filled
  <2>1. (n + 1) * c = c * (filled \div c)
    <3>1. n + 1 = filled \div c
      BY <1>4, <1>5
    <3> DEFINE m == filled \div c
    <3> HIDE DEF m, n
    <3>2. n + 1 = m /\ m \in Nat
      BY <1>3, <3>1 DEF m
    <3>3. m * c = c * m
      BY <1>2, <3>2, Z3
    <3> QED BY <3>2, <3>3 DEF m
  <2> QED BY <1>3, <2>1
<1>6. ASSUME NEW b \in 1 .. n PROVE (b - 1) * c \in Nat /\ (b - 1) * c + 2 * c <= filled
  <2> HIDE DEF n
  <2>1. n \in Nat /\ n # 0 /\ b - 1 \in Nat /\ b <= n
    BY <1>4
  <2>2. (n + 1) * c <= filled
    BY <1>5, <2>1
  <2>3. (b - 1) * c \in Nat
    BY <1>2, <2>1, Z3
  <2>4. (b + 1) * c <= (n + 1) * c /\ (n + 1) * c \in Nat /\ (b + 1) * c \in Nat
    BY <1>2, <2>1, Z3
  <2>5. (b + 1) * c = (b - 1) * c + 2 * c
    BY <1>2, <2>1, Z3
  <2> QED BY <1>2, <2>2, <2>3, <2>4, <2>5
<1>7. ASSUME NEW b \in 1 .. n, NEW a \in 0 .. c - 1 PROVE hashAt((b - 1) * c + a) \in Nat
  <2> DEFINE p == (b - 1) * c + a
  <2>1. p \in Nat /\ p + c <= filled
    <3> DEFINE y == (b - 1) * c
    <3> HIDE DEF y, n
    <3>1. y \in Nat /\ y + 2 * c <= filled
      BY <1>6 DEF y
    <3>2. y + a \in Nat /\ y + a + c <= filled
      BY <1>2, <3>1
    <3> QED BY <3>2 DEF y
  <2> HIDE DEF p
  <2>2. c \in Nat
    BY <1>2
  <2>3. hashAt(p) \in Nat
    BY <2>1, <2>2, WindowHashed
  <2> QED BY <2>3 DEF p
<1> HIDE DEF hashAt
<1>8. ASSUME NEW b \in 1 .. n PROVE peak(b - 1) \in 0 .. c - 1
  <2> DEFINE g == [a \in 0 .. c - 1 |-> hashAt((b - 1) * c + a)]
  <2>1. \A a \in 0 .. c - 1 : g[a] \in Nat
    BY <1>7
  <2>2. \A a \in 0 .. c - 1 : g[a] = hashAt((b - 1) * c + a)
    OBVIOUS
  <2> HIDE DEF g
  <2>3. \E a \in 0 .. c - 1 : \A o \in 0 .. c - 1 : g[a] > g[o] \/ (g[a] = g[o] /\ a <= o)
    BY <1>2, <2>1, FirstGreatest
  <2>4. \E a \in 0 .. c - 1 : \A o \in 0 .. c - 1 :
          \/ hashAt((b - 1) * c + a) > hashAt((b - 1) * c + o)
          \/ (hashAt((b - 1) * c + a) = hashAt((b - 1) * c + o) /\ a <= o)
    BY <2>2, <2>3
  <2> QED BY <2>4
<1> HIDE DEF peak
<1>9. ASSUME NEW b \in 1 .. n PROVE W[b] \in WindowSet
  <2>1. W[b] = [at |-> peak(b - 1), hash |-> hashAt((b - 1) * c + peak(b - 1)) % HashSlots]
    OBVIOUS
  <2>2. peak(b - 1) \in 0 .. c - 1
    BY <1>8
  <2>3. hashAt((b - 1) * c + peak(b - 1)) \in Nat
    BY <1>7, <2>2
  <2>4. hashAt((b - 1) * c + peak(b - 1)) % HashSlots \in 0 .. HashSlots - 1
    BY <2>3, HashAssumption, DivMod
  <2> HIDE DEF W
  <2> QED BY <2>1, <2>2, <2>4 DEF WindowSet, c
<1>10. W \in Seq(WindowSet) /\ Len(W) = n
  <2>1. W = [b \in 1 .. n |-> W[b]]
    OBVIOUS
  <2> HIDE DEF W, n
  <2> QED BY <1>4, <1>9, <2>1
<1>11. W # <<>> => (Len(W) + 1) * c <= filled
  <2>1. W # <<>> => n # 0
    <3> HIDE DEF W
    <3> QED BY <1>10
  <2> HIDE DEF W, n
  <2> QED BY <1>5, <1>10, <2>1
<1> HIDE DEF W
<1> QED BY <1>1, <1>10, <1>11 DEF c

(* How far the bytes agree, before the window and after it.                *)
LEMMA MatchEndIs ==
  ASSUME at \in Nat, Least(blockEnd, HighBound) \in Nat, at <= Least(blockEnd, HighBound)
  PROVE  /\ MatchEnd \in at .. Least(blockEnd, HighBound)
         /\ \A p \in at .. MatchEnd - 1 : ByteAt(ring, found + (p - at) + 1) = ByteAt(ring, p + 1)
<1> DEFINE bound == Least(blockEnd, HighBound)
           same(p) == ByteAt(ring, found + (p - at) + 1) = ByteAt(ring, p + 1)
           agrees(q) == \A p \in at .. q - 1 : same(p)
           first(q) == agrees(q) /\ (q < bound => ~ agrees(q + 1))
           a == at
           T == {q \in a .. bound - 1 : ~ same(q)}
<1>1. MatchEnd = CHOOSE q \in a .. bound : first(q)
  BY DEF MatchEnd
<1>2. a \in Nat /\ bound \in Nat /\ a <= bound
  OBVIOUS
<1> HIDE DEF a, bound, same
<1>3. \E q \in a .. bound : first(q)
  <2>1. CASE T = {}
    <3>1. \A p \in a .. bound - 1 : same(p)
      BY <2>1
    <3>2. agrees(bound) /\ bound \in a .. bound
      BY <1>2, <3>1 DEF a
    <3>3. ~ (bound < bound)
      BY <1>2
    <3> HIDE DEF agrees
    <3> QED BY <3>2, <3>3
  <2>2. CASE T # {}
    <3>1. PICK m \in T : \A k \in T : m <= k
      <4>1. T \in SUBSET Nat
        BY <1>2
      <4> HIDE DEF T
      <4> QED BY <4>1, <2>2, LeastOf
    <3>2. m \in a .. bound - 1 /\ ~ same(m)
      OBVIOUS
    <3>3. \A p \in a .. m - 1 : p \notin T /\ p \in a .. bound - 1
      BY <1>2, <3>1, <3>2
    <3>4. agrees(m)
      BY <3>3 DEF a
    <3>5. ~ agrees(m + 1)
      <4>1. m \in at .. m + 1 - 1
        BY <1>2, <3>2 DEF a
      <4> QED BY <3>2, <4>1
    <3>6. m \in a .. bound
      BY <1>2, <3>2
    <3> HIDE DEF agrees
    <3> QED BY <3>4, <3>5, <3>6
  <2> QED BY <2>1, <2>2
<1>4. MatchEnd \in a .. bound /\ first(MatchEnd)
  <2> HIDE DEF first
  <2> QED BY <1>1, <1>3
<1> QED BY <1>4 DEF a, bound, same

LEMMA MatchStartIs ==
  ASSUME at \in Nat, lastMatchEnd \in Nat, LowBound \in Int, lastMatchEnd <= at
  PROVE  /\ MatchStart \in lastMatchEnd .. at
         /\ MatchStart < at => LowBound <= MatchStart
         /\ \A p \in MatchStart .. at - 1 : ByteAt(ring, found - (at - p) + 1) = ByteAt(ring, p + 1)
<1> DEFINE bound == Most(lastMatchEnd, LowBound)
           same(p) == ByteAt(ring, found - (at - p) + 1) = ByteAt(ring, p + 1)
           agrees(q) == \A p \in q .. at - 1 : same(p)
           first(q) == agrees(q) /\ (q > bound => ~ agrees(q - 1))
           a == at
           T == {d \in 0 .. a - 1 - bound : ~ same(a - 1 - d)}
<1>1. MatchStart = IF a <= bound THEN a ELSE CHOOSE q \in bound .. a : first(q)
  BY DEF MatchStart
<1>2. a \in Nat /\ bound \in Nat /\ lastMatchEnd <= bound /\ LowBound <= bound
      /\ (bound = lastMatchEnd \/ bound = LowBound)
  BY DEF Most
<1>3. CASE a <= bound
  <2>1. MatchStart = a
    BY <1>1, <1>3
  <2> HIDE DEF bound
  <2>2. \A p \in a .. a - 1 : FALSE
    BY <1>2
  <2> QED BY <2>1, <2>2, <1>2
<1>4. CASE ~ (a <= bound)
  <2> HIDE DEF a, bound, same
  <2>1. \E q \in bound .. a : first(q)
    <3>1. CASE T = {}
      <4>1. ASSUME NEW p \in bound .. a - 1 PROVE same(p)
        <5>1. a - 1 - p \in 0 .. a - 1 - bound /\ a - 1 - (a - 1 - p) = p
          BY <1>2, <1>4
        <5>2. a - 1 - p \notin T
          BY <3>1
        <5>3. same(a - 1 - (a - 1 - p))
          BY <5>1, <5>2
        <5> QED BY <5>1, <5>3
      <4>2. agrees(bound) /\ bound \in bound .. a
        BY <1>2, <1>4, <4>1 DEF a
      <4>3. ~ (bound > bound)
        BY <1>2
      <4> HIDE DEF agrees
      <4> QED BY <4>2, <4>3
    <3>2. CASE T # {}
      <4>1. PICK d \in T : \A k \in T : d <= k
        <5>1. T \in SUBSET Nat
          BY <1>2
        <5> HIDE DEF T
        <5> QED BY <5>1, <3>2, LeastOf
      <4>2. d \in 0 .. a - 1 - bound /\ ~ same(a - 1 - d)
        OBVIOUS
      <4>3. ASSUME NEW p \in a - d .. a - 1 PROVE same(p)
        <5>1. a - 1 - p \in 0 .. a - 1 - bound /\ a - 1 - (a - 1 - p) = p /\ ~ (d <= a - 1 - p)
          BY <1>2, <4>2
        <5>2. a - 1 - p \notin T
          <6> HIDE DEF T
          <6> QED BY <4>1, <5>1
        <5>3. same(a - 1 - (a - 1 - p))
          BY <5>1, <5>2
        <5> QED BY <5>1, <5>3
      <4>4. agrees(a - d)
        BY <4>3 DEF a
      <4>5. ~ agrees(a - d - 1)
        <5>1. a - 1 - d \in a - d - 1 .. a - 1
          BY <1>2, <4>2
        <5> QED BY <4>2, <5>1 DEF a
      <4>6. a - d \in bound .. a
        BY <1>2, <4>2
      <4> HIDE DEF agrees
      <4> QED BY <4>4, <4>5, <4>6
    <3> QED BY <3>1, <3>2
  <2>2. MatchStart \in bound .. a /\ first(MatchStart)
    <3> HIDE DEF first
    <3> QED BY <1>1, <1>4, <2>1
  <2>3. MatchStart \in lastMatchEnd .. a /\ LowBound <= MatchStart
    BY <1>2, <2>2
  <2> QED BY <2>2, <2>3 DEF a, same
<1> QED BY <1>3, <1>4

-----------------------------------------------------------------------------
(* The window looked up.                                                   *)
LEMMA WindowAt ==
  ASSUME RingInv, HashInv, pc = "dict", windows # <<>>
  PROVE  /\ window \in WindowSet /\ Tail(windows) \in Seq(WindowSet)
         /\ Len(Tail(windows)) = Len(windows) - 1 /\ Len(windows) \in Nat \ {0}
         /\ Hop \in Nat \ {0} /\ opt.dict # 0 /\ opt.round = FALSE
         /\ at \in Nat /\ i \in Nat /\ i <= at /\ at < i + Hop /\ i + Hop <= blockEnd
         /\ found \in 0 .. RingLen - 1
<1>1. InDict
  BY DEF HashInv
<1>2. windows \in Seq(WindowSet) /\ opt.dict # 0 /\ i + (Len(windows) + 1) * Hop <= blockEnd /\ i \in Nat
  BY <1>1 DEF InDict
<1>3. Hop \in Nat \ {0} /\ opt.round = FALSE
  BY <1>2, HopTyped
<1>4. window \in WindowSet /\ Tail(windows) \in Seq(WindowSet) /\ Len(Tail(windows)) = Len(windows) - 1
      /\ Len(windows) \in Nat \ {0}
  BY <1>2 DEF window
<1>5. window.at \in 0 .. Hop - 1 /\ window.hash \in 0 .. HashSlots - 1
  BY <1>4 DEF WindowSet
<1>6. at \in Nat /\ i <= at /\ at < i + Hop
  BY <1>2, <1>3, <1>5 DEF at
<1>7. found \in 0 .. RingLen - 1
  BY <1>5 DEF HashInv, found
<1>8. blockEnd \in Nat
  <2>1. Busy
    BY DEF Busy, BusyAt
  <2>2. filled \in Nat /\ bufOffset \in Nat
    BY <2>1, BlockTyped, OptionsTyped
  <2> QED BY <2>2 DEF blockEnd
<1>9. i + Hop <= blockEnd
  <2> DEFINE n == Len(windows)
             c == Hop
             e == blockEnd
  <2>1. n \in Nat \ {0} /\ c \in Nat \ {0} /\ i + (n + 1) * c <= e /\ e \in Nat
    BY <1>2, <1>3, <1>4, <1>8
  <2> HIDE DEF n, c, e
  <2>2. (n + 1) * c = n * c + c /\ n * c \in Nat
    BY <2>1, Z3
  <2>3. i + c <= e
    BY <1>2, <2>1, <2>2
  <2> QED BY <2>3 DEF c, e
<1> QED BY <1>2, <1>3, <1>4, <1>6, <1>7, <1>9

LEMMA HeldAt ==
  ASSUME RingInv, Busy, NEW q \in Nat, NEW x \in 0 .. RingLen - 1,
         q < blockStart + filled + nextFilled, blockStart + filled + nextFilled <= q + RingLen,
         Places(RingLen, bufOffset, blockStart, q, x)
  PROVE  ByteAt(ring, x + 1) = ByteAt(file, q + 1)
<1>1. ring[x + 1] = file[q + 1]
  BY BlockHeld DEF Holds
<1>2. blockStart \in Nat /\ filled \in Nat /\ nextFilled \in Nat /\ blockStart + filled + nextFilled <= FileLen
  BY BlockTyped
<1>3. RingLen \in Nat /\ FileLen \in Nat /\ file \in Seq(Nat)
  BY OptionsTyped
<1>4. ring \in Seq(Nat) /\ Len(ring) = RingLen
  BY DEF RingInv
<1>5. x + 1 \in 1 .. RingLen /\ q + 1 \in 1 .. FileLen
  BY <1>2, <1>3
<1>6. x + 1 \in DOMAIN ring /\ q + 1 \in DOMAIN file
  BY <1>3, <1>4, <1>5 DEF FileLen
<1> QED BY <1>1, <1>6 DEF ByteAt

(* The distance leads back inside the dictionary, and not to before the    *)
(* file.                                                                   *)
LEMMA EarlierPlace ==
  ASSUME RingInv, HashInv, pc = "dict", windows # <<>>, found # 0, Distance <= opt.dict,
         NEW p \in Nat, bufOffset <= p, p < blockEnd,
         found + (p - at) >= 0, found + (p - at) < RingLen
  PROVE  /\ Distance \in Nat \ {0}
         /\ blockStart + (p - bufOffset) - Distance \in Nat
         /\ ByteAt(ring, found + (p - at) + 1) = ByteAt(file, blockStart + (p - bufOffset) - Distance + 1)
<1> DEFINE s == RingLen
           b == BlockSize
           d == DictSize
           x == found + (p - at)
           q == blockStart + (p - bufOffset) - Distance
<1>1. Busy
  BY DEF Busy, BusyAt
<1>2. /\ filled \in Nat \ {0} /\ filled <= b /\ nextFilled \in Nat /\ nextFilled <= b
      /\ blockStart \in Nat
  BY <1>1, BlockTyped
<1>3. s \in Nat /\ b \in Nat /\ d \in Nat /\ 2 * b + d <= s /\ bufOffset \in Nat /\ bufOffset + b <= s
  BY OptionsTyped
<1>4. at \in Nat /\ i \in Nat /\ i <= at /\ found \in 0 .. s - 1 /\ at < blockEnd
  <2>1. at \in Nat /\ i \in Nat /\ i <= at /\ found \in 0 .. s - 1 /\ at < i + Hop /\ i + Hop <= blockEnd
        /\ Hop \in Nat
    BY WindowAt
  <2>2. blockEnd \in Nat
    BY <1>2, <1>3 DEF blockEnd
  <2> HIDE DEF s
  <2> QED BY <2>1, <2>2
<1>5. Distance = IF found < at THEN at - found ELSE s - found + at
  BY DEF Distance, size, RingLen
<1>6. blockEnd = bufOffset + filled /\ Distance <= d
  BY DEF blockEnd, DictSize
<1>7. blockStart = bufOffset => found < at
  <2>1. SUFFICES ASSUME blockStart = bufOffset PROVE found < at
    OBVIOUS
  <2>2. window \in WindowSet
    BY WindowAt
  <2>3. window.hash \in 0 .. HashSlots - 1
    BY <2>2 DEF WindowSet
  <2>4. hasharr[window.hash] = 0 \/ hasharr[window.hash] < StoreBound
    BY <1>2, <2>1, <2>3 DEF HashInv
  <2>5. found < i
    BY <2>4 DEF found, StoreBound
  <2> HIDE DEF s
  <2> QED BY <1>4, <2>5
<1>8. blockStart = bufOffset \/ bufOffset + s <= blockStart
  BY <1>2 DEF RingInv
<1>9. bufOffset <= p /\ p < blockEnd /\ x >= 0 /\ x < s
  OBVIOUS
<1> HIDE DEF s, b, d
<1>10. Distance \in Nat \ {0}
  BY <1>3, <1>4, <1>5
<1>11. x \in 0 .. s - 1
  BY <1>3, <1>4, <1>9
<1>12. p \in bufOffset .. bufOffset + filled - 1
  BY <1>2, <1>3, <1>6, <1>9
<1>13. q \in Nat
  <2>1. CASE blockStart = bufOffset
    <3>1. q = x
      BY <1>2, <1>3, <1>4, <1>5, <1>7, <2>1
    <3> QED BY <1>11, <3>1
  <2>2. CASE bufOffset + s <= blockStart
    BY <1>2, <1>3, <1>6, <1>10, <1>12, <2>2
  <2> QED BY <1>8, <2>1, <2>2
<1>14. q < blockStart + filled + nextFilled /\ blockStart + filled + nextFilled <= q + s
  <2>1. p - bufOffset \in 0 .. filled - 1
    BY <1>2, <1>3, <1>12
  <2> DEFINE y == p - bufOffset
             t == Distance
  <2>2. q = blockStart + y - t /\ y \in 0 .. filled - 1 /\ t \in Nat \ {0} /\ t <= d
    BY <1>6, <1>10, <2>1
  <2> HIDE DEF y, t, q
  <2> QED BY <1>2, <1>3, <2>2
<1>15. Places(s, bufOffset, blockStart, q, x)
  <2>1. q - blockStart = p - bufOffset - Distance
    BY <1>2, <1>3, <1>10
  <2>2. bufOffset + (q - blockStart) = p - Distance
    BY <1>2, <1>3, <1>10, <2>1
  <2>3. x = p - Distance \/ x = p - Distance + s
    BY <1>3, <1>4, <1>5
  <2> QED BY <2>2, <2>3 DEF Places
<1>16. ByteAt(ring, x + 1) = ByteAt(file, q + 1)
  <2> HIDE DEF x, q
  <2> QED BY <1>1, <1>11, <1>13, <1>14, <1>15, HeldAt DEF s
<1> QED BY <1>10, <1>13, <1>16

(* What is found of a window: a copy, in the file, that begins no earlier  *)
(* than the last one ended.                                                *)
LEMMA TakenWindow ==
  ASSUME RingInv, HashInv, pc = "dict", windows # <<>>, Found
  PROVE  /\ MatchStart \in lastMatchEnd .. at /\ MatchEnd \in at .. blockEnd
         /\ MatchEnd - MatchStart >= opt.dictMatch
         /\ Distance \in Nat \ {0} /\ blockStart + (MatchStart - bufOffset) - Distance \in Nat
         /\ Copy(file, blockStart + (MatchStart - bufOffset) - Distance,
                 blockStart + (MatchStart - bufOffset), MatchEnd - MatchStart)
<1> DEFINE s == RingLen
           ms == MatchStart
           me == MatchEnd
<1>1. at >= lastMatchEnd /\ found # 0 /\ Distance <= opt.dict /\ me - ms >= opt.dictMatch
  BY DEF Found
<1>2. InDict /\ Busy
  BY DEF HashInv, Busy, BusyAt
<1>3. lastMatchEnd \in Nat /\ bufOffset <= lastMatchEnd /\ lastMatchEnd <= blockEnd
  BY <1>2 DEF InDict
<1>4. at \in Nat /\ found \in 0 .. s - 1 /\ at < blockEnd
  <2>1. at \in Nat /\ i \in Nat /\ found \in 0 .. s - 1 /\ at < i + Hop /\ i + Hop <= blockEnd
        /\ Hop \in Nat
    BY WindowAt
  <2>2. blockEnd \in Nat
    <3>1. filled \in Nat /\ bufOffset \in Nat
      BY <1>2, BlockTyped, OptionsTyped
    <3> QED BY <3>1 DEF blockEnd
  <2> HIDE DEF s
  <2> QED BY <2>1, <2>2
<1>5. /\ filled \in Nat \ {0} /\ filled <= BlockSize /\ blockStart \in Nat
      /\ s \in Nat /\ BlockSize \in Nat /\ DictSize \in Nat /\ 2 * BlockSize + DictSize <= s
      /\ bufOffset \in Nat /\ bufOffset + BlockSize <= s
  BY <1>2, BlockTyped, OptionsTyped
<1>6. blockEnd = bufOffset + filled /\ blockEnd \in Nat /\ blockEnd <= s
  <2> HIDE DEF s
  <2>1. blockEnd = bufOffset + filled
    BY DEF blockEnd
  <2> QED BY <2>1, <1>5
<1>7. dataStart \in Nat
  <2>1. dataStart = (bufOffset + s - DictSize) % s
    BY DEF dataStart, size, RingLen, DictSize
  <2> HIDE DEF s
  <2>2. s \in Nat \ {0} /\ bufOffset + s - DictSize \in Nat
    BY <1>5
  <2>3. (bufOffset + s - DictSize) % s \in Nat
    BY <2>2, DivMod
  <2> QED BY <2>1, <2>3
<1>8. LowBound \in Int /\ (\A p \in Nat : LowBound <= p /\ p <= at => found + (p - at) >= 0)
  <2>1. CASE found < dataStart
    <3>1. LowBound = at - found
      BY <2>1 DEF LowBound
    <3> QED BY <3>1, <1>4, <1>5
  <2>2. CASE ~ (found < dataStart)
    <3>1. LowBound = Most(at - (found - dataStart), 0)
      BY <2>2 DEF LowBound
    <3>2. LowBound \in Nat /\ at - (found - dataStart) <= LowBound
      BY <3>1, <1>4, <1>5, <1>7 DEF Most
    <3> QED BY <3>2, <1>4, <1>5, <1>7
  <2> QED BY <2>1, <2>2
<1>9. HighBound \in Nat /\ at <= HighBound
      /\ (\A p \in Nat : at <= p /\ p < HighBound /\ p < blockEnd => found + (p - at) < s)
  <2>1. HighBound = IF found < at THEN s ELSE s - found + at
    BY DEF HighBound, size, RingLen
  <2> HIDE DEF s
  <2> QED BY <2>1, <1>4, <1>5, <1>6
<1>10. Least(blockEnd, HighBound) \in Nat /\ at <= Least(blockEnd, HighBound)
       /\ Least(blockEnd, HighBound) <= blockEnd /\ Least(blockEnd, HighBound) <= HighBound
  BY <1>4, <1>6, <1>9 DEF Least
<1>11. /\ me \in at .. Least(blockEnd, HighBound)
       /\ \A p \in at .. me - 1 : ByteAt(ring, found + (p - at) + 1) = ByteAt(ring, p + 1)
  BY <1>4, <1>10, MatchEndIs
<1>12. /\ ms \in lastMatchEnd .. at /\ (ms < at => LowBound <= ms)
       /\ \A p \in ms .. at - 1 : ByteAt(ring, found - (at - p) + 1) = ByteAt(ring, p + 1)
  BY <1>1, <1>3, <1>4, <1>8, MatchStartIs
<1> HIDE DEF ms, me
<1>13. ms \in Nat /\ me \in Nat /\ ms <= at /\ at <= me /\ me <= blockEnd /\ bufOffset <= ms
       /\ me <= HighBound
  BY <1>3, <1>4, <1>5, <1>6, <1>9, <1>10, <1>11, <1>12
<1>14. ASSUME NEW p \in ms .. me - 1
       PROVE  /\ bufOffset <= p /\ p < blockEnd /\ p \in Nat
              /\ found + (p - at) >= 0 /\ found + (p - at) < s
              /\ ByteAt(ring, found + (p - at) + 1) = ByteAt(ring, p + 1)
  <2>1. bufOffset <= p /\ p < blockEnd /\ p \in Nat /\ p < HighBound /\ ms <= p /\ p < me
    BY <1>5, <1>6, <1>9, <1>13
  <2>2. CASE p < at
    <3>1. p \in ms .. at - 1 /\ ms < at
      BY <1>4, <1>13, <2>1, <2>2
    <3>2. ByteAt(ring, found - (at - p) + 1) = ByteAt(ring, p + 1)
      BY <1>12, <3>1
    <3>3. found - (at - p) + 1 = found + (p - at) + 1
      BY <1>4, <2>1
    <3>4. LowBound <= p /\ p <= at
      BY <1>4, <1>8, <1>12, <1>13, <2>1, <2>2, <3>1
    <3>5. found + (p - at) >= 0
      BY <1>8, <2>1, <3>4
    <3>6. found + (p - at) < s
      <4> HIDE DEF s
      <4> QED BY <1>4, <1>5, <2>1, <2>2
    <3> QED BY <2>1, <3>2, <3>3, <3>5, <3>6
  <2>3. CASE ~ (p < at)
    <3>1. p \in at .. me - 1
      BY <1>4, <1>13, <2>1, <2>3
    <3>2. ByteAt(ring, found + (p - at) + 1) = ByteAt(ring, p + 1)
      BY <1>11, <3>1
    <3>3. at <= p
      BY <3>1, <1>4, <1>13
    <3>4. found + (p - at) < s
      BY <1>9, <2>1, <3>3
    <3>5. found + (p - at) >= 0
      BY <1>4, <2>1, <3>3
    <3> QED BY <2>1, <3>2, <3>4, <3>5
  <2> QED BY <2>2, <2>3
<1>15. ASSUME NEW p \in ms .. me - 1
       PROVE  /\ Distance \in Nat \ {0} /\ blockStart + (p - bufOffset) - Distance \in Nat
              /\ ByteAt(file, blockStart + (p - bufOffset) - Distance + 1)
                   = ByteAt(file, blockStart + (p - bufOffset) + 1)
  <2>1. /\ bufOffset <= p /\ p < blockEnd /\ p \in Nat
        /\ found + (p - at) >= 0 /\ found + (p - at) < s
        /\ ByteAt(ring, found + (p - at) + 1) = ByteAt(ring, p + 1)
    BY <1>14
  <2>2. /\ Distance \in Nat \ {0} /\ blockStart + (p - bufOffset) - Distance \in Nat
        /\ ByteAt(ring, found + (p - at) + 1)
             = ByteAt(file, blockStart + (p - bufOffset) - Distance + 1)
    BY <1>1, <2>1, EarlierPlace
  <2>3. p - bufOffset \in 0 .. filled - 1 /\ bufOffset + (p - bufOffset) + 1 = p + 1
    BY <1>5, <1>6, <2>1
  <2>4. ByteAt(ring, p + 1) = ByteAt(file, blockStart + (p - bufOffset) + 1)
    <3>1. InBlock(p - bufOffset) = ByteAt(file, blockStart + (p - bufOffset) + 1)
      BY <1>2, <2>3, BlockBytes
    <3> QED BY <2>3, <3>1 DEF InBlock
  <2> QED BY <2>1, <2>2, <2>4
<1>16. opt.dictMatch \in Nat \ {0}
  BY DEF RingInv, SettledOK
<1>17. ms \in ms .. me - 1
  BY <1>1, <1>13, <1>16 DEF ms, me
<1>18. Distance \in Nat \ {0} /\ blockStart + (ms - bufOffset) - Distance \in Nat
  BY <1>15, <1>17
<1>19. ASSUME NEW j \in 0 .. me - ms - 1
       PROVE  ByteAt(file, blockStart + (ms - bufOffset) - Distance + j + 1)
                = ByteAt(file, blockStart + (ms - bufOffset) + j + 1)
  <2> DEFINE p == ms + j
             t == Distance
  <2>1. p \in ms .. me - 1 /\ p = ms + j
    BY <1>13
  <2>2. t \in Nat
    BY <1>18
  <2> HIDE DEF p
  <2>3. ByteAt(file, blockStart + (p - bufOffset) - Distance + 1)
          = ByteAt(file, blockStart + (p - bufOffset) + 1)
    BY <1>15, <2>1
  <2> HIDE DEF t
  <2>4. /\ blockStart + (p - bufOffset) - t + 1 = blockStart + (ms - bufOffset) - t + j + 1
        /\ blockStart + (p - bufOffset) + 1 = blockStart + (ms - bufOffset) + j + 1
    BY <1>5, <1>13, <2>1, <2>2
  <2> QED BY <2>3, <2>4 DEF t
<1>20. me \in at .. blockEnd
  BY <1>4, <1>6, <1>13
<1>21. Copy(file, blockStart + (ms - bufOffset) - Distance, blockStart + (ms - bufOffset), me - ms)
  BY <1>19 DEF Copy
<1>22. ms \in lastMatchEnd .. at /\ me - ms >= opt.dictMatch
  BY <1>1, <1>12 DEF ms, me
<1>23. MatchStart \in lastMatchEnd .. at /\ MatchEnd \in at .. blockEnd
  BY <1>20, <1>22 DEF ms, me
<1>24. MatchEnd - MatchStart >= opt.dictMatch
  BY <1>22 DEF ms, me
<1>25. blockStart + (MatchStart - bufOffset) - Distance \in Nat
  BY <1>18 DEF ms
<1>26. Copy(file, blockStart + (MatchStart - bufOffset) - Distance, blockStart + (MatchStart - bufOffset),
            MatchEnd - MatchStart)
  BY <1>21 DEF ms, me
<1>27. Distance \in Nat \ {0}
  BY <1>18
<1> QED BY <1>23, <1>24, <1>25, <1>26, <1>27

-----------------------------------------------------------------------------
(* The table holds places of the ring, from the start on and by every step. *)
LEMMA HashFirst == Init => HashInv
<1> SUFFICES ASSUME Init PROVE HashInv
  OBVIOUS
<1>1. RingInv
  BY RingFirst
<1>2. RingLen \in Nat /\ BlockSize \in Nat \ {0} /\ DictSize \in Nat /\ 2 * BlockSize + DictSize <= RingLen
  BY <1>1, OptionsTyped
<1>3. 0 \in 0 .. RingLen - 1
  BY <1>2
<1>4. hasharr = [h \in 0 .. HashSlots - 1 |-> 0] /\ pc = "begin" /\ filled = 0
  BY DEF Init
<1>5. hasharr \in [0 .. HashSlots - 1 -> 0 .. RingLen - 1] /\ \A h \in 0 .. HashSlots - 1 : hasharr[h] = 0
  BY <1>3, <1>4
<1> QED BY <1>4, <1>5 DEF HashInv

(* The table as it is, when the scan has gone no further back.             *)
LEMMA HashStays ==
  ASSUME RingInv, HashInv, UNCHANGED <<file, opt, bufOffset, blockStart, filled, hasharr>>,
         pc # "begin", pc' # "begin", pc' # "dict", StoreBound \in Int, StoreBound' \in Int,
         StoreBound <= StoreBound'
  PROVE  HashInv'
<1>1. UNCHANGED <<RingLen, BlockSize>>
  BY SameLengths
<1>2. hasharr' \in [0 .. HashSlots - 1 -> 0 .. RingLen' - 1]
  BY <1>1 DEF HashInv
<1>3. ASSUME filled' > 0, blockStart' = bufOffset', NEW h \in 0 .. HashSlots - 1
      PROVE  hasharr'[h] = 0 \/ hasharr'[h] < StoreBound'
  <2>1. hasharr[h] = 0 \/ hasharr[h] < StoreBound
    BY <1>3 DEF HashInv
  <2>2. hasharr[h] \in 0 .. RingLen - 1 /\ RingLen \in Nat
    BY OptionsTyped DEF HashInv
  <2>3. hasharr[h] \in Int
    BY <2>2
  <2> QED BY <2>1, <2>3
<1> QED BY <1>2, <1>3 DEF HashInv

LEMMA BlockEndTyped ==
  ASSUME RingInv
  PROVE  bufOffset \in Nat /\ blockEnd \in Nat /\ bufOffset <= blockEnd
         /\ blockEnd = bufOffset + filled /\ blockEnd <= RingLen
<1>1. /\ bufOffset \in Nat /\ BlockSize \in Nat /\ RingLen \in Nat /\ bufOffset + BlockSize <= RingLen
      /\ filled \in 0 .. BlockSize
  BY OptionsTyped DEF RingInv
<1>2. blockEnd = bufOffset + filled
  BY DEF blockEnd
<1> QED BY <1>1, <1>2

LEMMA HashBegin ==
  ASSUME RingInv, HashInv, BeginInmem
  PROVE  HashInv'
<1>1. /\ pc = "inmem" /\ pc' = "dict"
      /\ windows' = IF opt.dict = 0 THEN <<>> ELSE Prepare(bufOffset, filled)
      /\ i' = bufOffset /\ lastMatchEnd' = bufOffset
      /\ UNCHANGED <<file, opt, ring, bufOffset, blockStart, filled, hasharr>>
  BY DEF BeginInmem, inputVars, ringVars
<1>2. UNCHANGED <<RingLen, BlockSize>> /\ Hop' = Hop
  BY <1>1, SameLengths DEF Hop
<1>3. Busy
  BY <1>1 DEF Busy, BusyAt
<1>4. bufOffset \in Nat /\ blockEnd \in Nat /\ bufOffset <= blockEnd /\ blockEnd = bufOffset + filled
      /\ filled \in Nat
  BY <1>3, BlockEndTyped, BlockTyped
<1>5. WindowSet' = WindowSet /\ blockEnd' = blockEnd
  BY <1>1, <1>2 DEF WindowSet, blockEnd
<1>6. windows' \in Seq(WindowSet) /\ (windows' # <<>> => opt.dict # 0 /\ (Len(windows') + 1) * Hop <= filled)
  <2>1. CASE opt.dict = 0
    BY <1>1, <2>1
  <2>2. CASE opt.dict # 0
    BY <1>1, <1>3, <2>2, Prepared
  <2> QED BY <2>1, <2>2
<1>7. windows' # <<>> => bufOffset + (Len(windows') + 1) * Hop <= blockEnd
  <2>1. SUFFICES ASSUME windows' # <<>> PROVE bufOffset + (Len(windows') + 1) * Hop <= blockEnd
    OBVIOUS
  <2> DEFINE y == (Len(windows') + 1) * Hop
  <2>2. y <= filled
    BY <1>6, <2>1
  <2>3. y \in Int
    <3>1. Hop \in Nat
      BY <1>6, <2>1, HopTyped
    <3>2. Len(windows') + 1 \in Nat
      BY <1>6
    <3> QED BY <3>1, <3>2, Z3
  <2> HIDE DEF y
  <2>4. bufOffset + y <= blockEnd
    BY <1>4, <2>2, <2>3
  <2> QED BY <2>4 DEF y
<1>8. InDict'
  BY <1>1, <1>2, <1>4, <1>5, <1>6, <1>7 DEF InDict
<1>9. StoreBound = bufOffset /\ StoreBound' = bufOffset
  BY <1>1 DEF StoreBound
<1> QED BY <1>1, <1>2, <1>8, <1>9 DEF HashInv

LEMMA HashWindow ==
  ASSUME RingInv, HashInv, TakeWindow \/ PassWindow
  PROVE  HashInv'
<1>1. /\ pc = "dict" /\ pc' = "dict" /\ windows # <<>>
      /\ hasharr' = [hasharr EXCEPT ![window.hash] = at] /\ i' = i + Hop /\ windows' = Tail(windows)
      /\ UNCHANGED <<file, opt, ring, bufOffset, blockStart, filled>>
      /\ lastMatchEnd' = lastMatchEnd \/ (Found /\ lastMatchEnd' = MatchEnd)
  BY DEF TakeWindow, PassWindow, inputVars, ringVars, Hop
<1>2. UNCHANGED <<RingLen, BlockSize>> /\ Hop' = Hop
  BY <1>1, SameLengths DEF Hop
<1>3. WindowSet' = WindowSet /\ blockEnd' = blockEnd
  BY <1>1, <1>2 DEF WindowSet, blockEnd
<1>4. /\ window \in WindowSet /\ Tail(windows) \in Seq(WindowSet)
      /\ Len(Tail(windows)) = Len(windows) - 1 /\ Len(windows) \in Nat \ {0}
      /\ Hop \in Nat \ {0} /\ opt.dict # 0
      /\ at \in Nat /\ i \in Nat /\ i <= at /\ at < i + Hop /\ i + Hop <= blockEnd
  BY <1>1, WindowAt
<1>5. bufOffset \in Nat /\ blockEnd \in Nat /\ blockEnd <= RingLen /\ RingLen \in Nat
  BY BlockEndTyped, OptionsTyped
<1>6. InDict
  BY <1>1 DEF HashInv
<1>7. bufOffset <= i /\ lastMatchEnd \in Nat /\ bufOffset <= lastMatchEnd /\ lastMatchEnd <= blockEnd
      /\ i + (Len(windows) + 1) * Hop <= blockEnd
  BY <1>1, <1>6 DEF InDict
<1>8. window.hash \in 0 .. HashSlots - 1
  BY <1>4 DEF WindowSet
<1>9. at \in 0 .. RingLen - 1 /\ bufOffset <= at
  BY <1>4, <1>5, <1>7
<1>10. hasharr \in [0 .. HashSlots - 1 -> 0 .. RingLen - 1]
  BY DEF HashInv
<1>11. hasharr' \in [0 .. HashSlots - 1 -> 0 .. RingLen - 1]
  BY <1>1, <1>8, <1>9, <1>10
<1>12. ASSUME filled' > 0, blockStart' = bufOffset', NEW h \in 0 .. HashSlots - 1
       PROVE  hasharr'[h] = 0 \/ hasharr'[h] < StoreBound'
  <2>1. StoreBound = i /\ StoreBound' = i + Hop
    BY <1>1 DEF StoreBound
  <2>2. CASE h = window.hash
    <3>1. hasharr'[h] = at
      BY <1>1, <1>8, <1>10, <2>2
    <3> QED BY <1>4, <2>1, <3>1
  <2>3. CASE h # window.hash
    <3>1. hasharr'[h] = hasharr[h]
      BY <1>1, <1>8, <1>10, <2>3
    <3>2. hasharr[h] = 0 \/ hasharr[h] < i
      BY <1>1, <1>12, <2>1 DEF HashInv
    <3>3. hasharr[h] \in 0 .. RingLen - 1
      BY <1>10
    <3>4. hasharr[h] \in Int
      BY <1>5, <3>3
    <3> QED BY <1>4, <2>1, <3>1, <3>2, <3>4
  <2> QED BY <2>2, <2>3
<1>13. windows' # <<>> => i' + (Len(windows') + 1) * Hop <= blockEnd
  <2> DEFINE n == Len(windows)
             c == Hop
             e == blockEnd
  <2>1. n \in Nat \ {0} /\ c \in Nat \ {0} /\ i + (n + 1) * c <= e /\ e \in Nat /\ i \in Nat
    BY <1>4, <1>5, <1>7
  <2>2. Len(windows') = n - 1 /\ i' = i + c
    BY <1>1, <1>4
  <2> HIDE DEF n, c, e
  <2>3. (n + 1) * c = (n - 1 + 1) * c + c /\ (n - 1 + 1) * c \in Nat
    <3>1. (n + 1) * c = n * c + c /\ n * c \in Nat
      BY <2>1, Z3
    <3>2. n - 1 + 1 = n
      BY <2>1
    <3> QED BY <3>1, <3>2
  <2>4. i + c + (n - 1 + 1) * c <= e
    BY <2>1, <2>3
  <2> QED BY <2>2, <2>4 DEF c, e
<1>14. lastMatchEnd' \in Nat /\ bufOffset <= lastMatchEnd' /\ lastMatchEnd' <= blockEnd
  <2>1. CASE lastMatchEnd' = lastMatchEnd
    BY <1>7, <2>1
  <2>2. CASE Found /\ lastMatchEnd' = MatchEnd
    <3>1. MatchEnd \in at .. blockEnd
      BY <1>1, <2>2, TakenWindow
    <3> QED BY <1>4, <1>5, <1>9, <2>2, <3>1
  <2> QED BY <1>1, <2>1, <2>2
<1>15. i' \in Nat /\ bufOffset <= i' /\ i' <= blockEnd
  BY <1>1, <1>4, <1>5, <1>7
<1>16. InDict'
  <2>1. windows' \in Seq(WindowSet) /\ opt'.dict # 0
    BY <1>1, <1>4
  <2> QED BY <1>1, <1>2, <1>3, <1>13, <1>14, <1>15, <2>1 DEF InDict
<1> QED BY <1>1, <1>2, <1>11, <1>12, <1>16 DEF HashInv

LEMMA HashWrite ==
  ASSUME RingInv, HashInv, WriteBlock
  PROVE  HashInv'
<1>1. /\ pc = "write" /\ pc' \in {"next", "failed"} /\ blockStart' = blockStart + filled
      /\ bufOffset' = nextOffset /\ filled' = nextFilled /\ UNCHANGED <<file, opt, hasharr>>
  BY DEF WriteBlock, inputVars, finderVars
<1>2. UNCHANGED <<RingLen, BlockSize>>
  BY <1>1, SameLengths
<1>3. Busy
  BY <1>1 DEF Busy, BusyAt
<1>4. /\ filled \in Nat \ {0} /\ filled <= BlockSize /\ nextFilled \in Nat /\ blockStart \in Nat
      /\ (nextFilled > 0 => filled = BlockSize)
  BY <1>3, BlockTyped
<1>5. nextOffset = (IF bufOffset + BlockSize = RingLen THEN 0 ELSE bufOffset + BlockSize) /\ nextOffset \in Nat
  BY NextOffsetIs
<1>6. bufOffset \in Nat /\ RingLen \in Nat /\ BlockSize \in Nat /\ bufOffset + BlockSize <= RingLen
  BY OptionsTyped
<1>7. hasharr \in [0 .. HashSlots - 1 -> 0 .. RingLen - 1]
  BY DEF HashInv
<1>8. ASSUME filled' > 0, blockStart' = bufOffset', NEW h \in 0 .. HashSlots - 1
      PROVE  hasharr'[h] = 0 \/ hasharr'[h] < StoreBound'
  <2>1. filled = BlockSize /\ blockStart + filled = nextOffset
    BY <1>1, <1>4, <1>8
  <2>2. blockStart = bufOffset /\ nextOffset = bufOffset + filled
    BY <1>4, <1>5, <1>6, <2>1
  <2>3. StoreBound = bufOffset + filled
    BY <1>1 DEF StoreBound, blockEnd
  <2>4. StoreBound' = bufOffset' \/ StoreBound' = bufOffset' + filled'
    BY <1>1 DEF StoreBound, blockEnd
  <2>5. hasharr[h] = 0 \/ hasharr[h] < bufOffset + filled
    BY <1>4, <2>2, <2>3 DEF HashInv
  <2>6. hasharr[h] \in Int
    <3>1. hasharr[h] \in 0 .. RingLen - 1
      BY <1>7
    <3> QED BY <1>6, <3>1
  <2> QED BY <1>1, <1>4, <1>6, <1>8, <2>2, <2>4, <2>5, <2>6
<1>9. pc' # "begin" /\ pc' # "dict"
  BY <1>1
<1> QED BY <1>1, <1>2, <1>7, <1>8, <1>9 DEF HashInv

LEMMA HashIdle ==
  ASSUME RingInv, HashInv, UNCHANGED <<file, opt, pc, bufOffset, blockStart, filled, hasharr, i, lastMatchEnd, windows>>
  PROVE  HashInv'
<1>1. UNCHANGED <<RingLen, BlockSize>> /\ Hop' = Hop
  BY SameLengths DEF Hop
<1>2. WindowSet' = WindowSet /\ blockEnd' = blockEnd
  BY <1>1 DEF WindowSet, blockEnd
<1>3. InDict' = InDict /\ StoreBound' = StoreBound
  BY <1>1, <1>2 DEF InDict, StoreBound
<1> QED BY <1>1, <1>2, <1>3 DEF HashInv

LEMMA HashNext == RingInv /\ KindInv /\ HashInv /\ [Next]_vars => HashInv'
<1> SUFFICES ASSUME RingInv, KindInv, HashInv, [Next]_vars PROVE HashInv'
  OBVIOUS
<1>0. bufOffset \in Nat /\ blockEnd \in Nat /\ bufOffset <= blockEnd
  BY BlockEndTyped
<1>1. CASE ReadFirst
  <2>1. /\ pc = "begin" /\ pc' = "next" /\ UNCHANGED <<file, opt, bufOffset, blockStart, hasharr>>
    BY <1>1 DEF ReadFirst, inputVars, finderVars
  <2>2. RingLen' = RingLen
    BY <2>1, SameLengths
  <2> QED BY <2>1, <2>2 DEF HashInv
<1>2. CASE ReadAhead
  <2>1. /\ pc = "next" /\ pc' \in {"inmem", "prepare"}
        /\ UNCHANGED <<file, opt, bufOffset, blockStart, filled, hasharr>>
    BY <1>2 DEF ReadAhead, inputVars
  <2>2. StoreBound = bufOffset /\ StoreBound' = bufOffset
    BY <2>1 DEF StoreBound
  <2>3. pc # "begin" /\ pc' # "begin" /\ pc' # "dict"
    BY <2>1
  <2>4. StoreBound \in Int /\ StoreBound' \in Int /\ StoreBound <= StoreBound'
    BY <1>0, <2>2
  <2> QED BY <2>1, <2>3, <2>4, HashStays
<1>3. CASE EndInmem
  <2>1. /\ pc = "dict" /\ pc' \in {"write", "first"}
        /\ UNCHANGED <<file, opt, bufOffset, blockStart, filled, hasharr>>
    BY <1>3 DEF EndInmem, inputVars, ringVars
  <2>2. StoreBound = i /\ StoreBound' = blockEnd
    BY <2>1 DEF StoreBound, blockEnd
  <2>3. pc # "begin" /\ pc' # "begin" /\ pc' # "dict"
    BY <2>1
  <2>4. i \in Nat /\ i <= blockEnd
    BY <2>1 DEF HashInv, InDict
  <2>5. StoreBound \in Int /\ StoreBound' \in Int /\ StoreBound <= StoreBound'
    BY <1>0, <2>2, <2>4
  <2> QED BY <2>1, <2>3, <2>5, HashStays
<1>4. CASE Finish
  <2>1. /\ pc' = "done" /\ filled = 0 /\ UNCHANGED <<file, opt, filled, hasharr>>
    BY <1>4 DEF Finish, inputVars, ringVars, finderVars
  <2>2. RingLen' = RingLen
    BY <2>1, SameLengths
  <2> QED BY <2>1, <2>2 DEF HashInv
<1>5. CASE FixedNext /\ UNCHANGED <<hasharr, windows, cdcVars, out>>
  <2>1. UNCHANGED <<file, opt, bufOffset, blockStart, filled, hasharr>>
    BY <1>5, FixedIsBusy DEF BusyStep, ringVars
  <2>2. CASE PrepareBuffer
    <3>1. pc = "prepare" /\ pc' = "inmem"
      BY <2>2 DEF PrepareBuffer
    <3>2. StoreBound = bufOffset /\ StoreBound' = bufOffset
      BY <2>1, <3>1 DEF StoreBound
    <3>3. StoreBound \in Int /\ StoreBound' \in Int /\ StoreBound <= StoreBound'
      BY <1>0, <3>2
    <3>4. pc # "begin" /\ pc' # "begin" /\ pc' # "dict"
      BY <3>1
    <3> QED BY <2>1, <3>3, <3>4, HashStays
  <2>3. CASE ~ PrepareBuffer
    <3>1. pc \in TableAt /\ pc' \in TableAt \cup {"write", "failed"}
      BY <1>5, <2>3, FixedStages
    <3>2. StoreBound = blockEnd /\ StoreBound' = blockEnd
      BY <2>1, <3>1 DEF StoreBound, TableAt, blockEnd
    <3>3. StoreBound \in Int /\ StoreBound' \in Int /\ StoreBound <= StoreBound'
      BY <1>0, <3>2
    <3>4. pc # "begin" /\ pc' # "begin" /\ pc' # "dict"
      BY <3>1 DEF TableAt
    <3> QED BY <2>1, <3>3, <3>4, HashStays
  <2> QED BY <2>2, <2>3
<1>6. CASE CdcNext /\ UNCHANGED <<hasharr, windows, tableVars, scanVars, out>>
  <2>1. UNCHANGED <<file, opt, bufOffset, blockStart, filled, hasharr>>
    BY <1>6, CdcIsBusy DEF BusyStep, ringVars
  <2>2. (pc = "prepare" \/ pc \in CdcAt) /\ pc' \in CdcAt \cup {"write", "failed"}
    BY <1>6, CdcStages DEF BeginCdc
  <2>3. (StoreBound = bufOffset \/ StoreBound = blockEnd) /\ StoreBound' = blockEnd
    BY <2>1, <2>2 DEF StoreBound, CdcAt, blockEnd
  <2>4. StoreBound \in Int /\ StoreBound' \in Int /\ StoreBound <= StoreBound'
    BY <1>0, <2>3
  <2>5. pc # "begin" /\ pc' # "begin" /\ pc' # "dict"
    BY <2>2 DEF CdcAt
  <2> QED BY <2>1, <2>4, <2>5, HashStays
<1>7. CASE Stopped \/ UNCHANGED vars
  <2>1. UNCHANGED <<file, opt, pc, bufOffset, blockStart, filled, hasharr, i, lastMatchEnd, windows>>
    BY <1>7 DEF Stopped, vars, inputVars, ringVars, finderVars
  <2> QED BY <2>1, HashIdle
<1> QED BY <1>1, <1>2, <1>3, <1>4, <1>5, <1>6, <1>7, HashBegin, HashWindow, HashWrite DEF Next, Find

-----------------------------------------------------------------------------
(* How long what agrees is: up to the first difference, if there is one.   *)
LEMMA FirstBreak ==
  ASSUME NEW n \in Nat, NEW E
  PROVE  \E m \in 0 .. n : (\A j \in 0 .. m - 1 : j \in E) /\ (m < n => m \notin E)
<1> DEFINE T == {j \in 0 .. n - 1 : j \notin E}
<1>1. CASE T = {}
  <2>1. \A j \in 0 .. n - 1 : j \in E
    BY <1>1
  <2>2. n \in 0 .. n /\ ~ (n < n)
    OBVIOUS
  <2> QED BY <2>1, <2>2
<1>2. CASE T # {}
  <2>1. PICK m \in T : \A k \in T : m <= k
    <3>1. T \in SUBSET Nat
      OBVIOUS
    <3> HIDE DEF T
    <3> QED BY <3>1, <1>2, LeastOf
  <2>2. \A j \in 0 .. m - 1 : j \notin T /\ j \in 0 .. n - 1
    BY <2>1
  <2>3. m \in 0 .. n /\ m \notin E /\ \A j \in 0 .. m - 1 : j \in E
    BY <2>1, <2>2
  <2> QED BY <2>3
<1> QED BY <1>1, <1>2

LEMMA CommonPrefixIs ==
  ASSUME NEW p \in Nat, NEW src \in Int, NEW len \in Nat, blockStart \in Nat
  PROVE  LET n == CommonPrefix(p, src, len)
         IN  n \in 0 .. len /\ (n # 0 => Match(src, p, n))
<1> DEFINE n == CommonPrefix(p, src, len)
           same(j) == InBlock(p + j) = ByteAt(file, src + j + 1)
           first(m) == (\A j \in 0 .. m - 1 : same(j)) /\ (m < len => ~ same(m))
<1> SUFFICES n \in 0 .. len /\ (n # 0 => Match(src, p, n))
  OBVIOUS
<1>1. CASE src < 0 \/ src >= blockStart + p
  BY <1>1 DEF CommonPrefix
<1>2. CASE ~ (src < 0 \/ src >= blockStart + p)
  <2>1. n = CHOOSE m \in 0 .. len : first(m)
    BY <1>2 DEF CommonPrefix, Common
  <2>2. \E m \in 0 .. len : first(m)
    <3> DEFINE E == {j \in Nat : same(j)}
    <3>1. PICK m \in 0 .. len : (\A j \in 0 .. m - 1 : j \in E) /\ (m < len => m \notin E)
      <4> HIDE DEF E
      <4> QED BY FirstBreak
    <3>2. m \in Nat
      OBVIOUS
    <3> QED BY <3>1, <3>2
  <2>3. n \in 0 .. len /\ first(n)
    <3> HIDE DEF first, n
    <3> QED BY <2>1, <2>2
  <2> HIDE DEF n
  <2> QED BY <1>2, <2>3 DEF Match
<1> QED BY <1>1, <1>2

LEMMA TailLenIs ==
  ASSUME NEW p \in Nat, NEW q \in Nat, filled \in Nat
  PROVE  LET n == TailLen(p, q)
         IN  n \in Nat /\ (p + n <= filled \/ n = 0)
             /\ \A j \in 0 .. n - 1 : InBlock(p + j) = InBlock(q + j)
<1> DEFINE n == TailLen(p, q)
           len == filled - p
           same(j) == InBlock(p + j) = InBlock(q + j)
           first(m) == (\A j \in 0 .. m - 1 : same(j)) /\ (m < len => ~ same(m))
<1> SUFFICES n \in Nat /\ (p + n <= filled \/ n = 0) /\ \A j \in 0 .. n - 1 : same(j)
  OBVIOUS
<1>1. CASE p >= filled
  <2>1. n = 0
    BY <1>1 DEF TailLen
  <2> HIDE DEF n
  <2> QED BY <2>1
<1>2. CASE ~ (p >= filled)
  <2>1. n = CHOOSE m \in 0 .. len : first(m)
    BY <1>2 DEF TailLen, Common
  <2>2. \E m \in 0 .. len : first(m)
    <3> DEFINE E == {j \in Nat : same(j)}
    <3>1. PICK m \in 0 .. len : (\A j \in 0 .. m - 1 : j \in E) /\ (m < len => m \notin E)
      <4>1. len \in Nat
        BY <1>2
      <4> HIDE DEF E, len
      <4> QED BY <4>1, FirstBreak
    <3>2. m \in Nat
      OBVIOUS
    <3> QED BY <3>1, <3>2
  <2>3. n \in 0 .. len /\ first(n)
    <3> HIDE DEF first, n
    <3> QED BY <2>1, <2>2
  <2> HIDE DEF n
  <2> QED BY <1>2, <2>3
<1> QED BY <1>1, <1>2

(* The opaque names of lengths, as above.                                  *)
Chunk == opt.l
Base == opt.base

LEMMA ChunkTyped ==
  ASSUME RingInv, HasTable(opt)
  PROVE  /\ Chunk \in Nat \ {0} /\ Cycles <= Chunk /\ opt.accel \in Nat /\ opt.accel <= Chunk
         /\ Base \in Nat \ {0} /\ opt.minMatch \in Nat \ {0} /\ Base <= opt.minMatch
         /\ opt.round \in BOOLEAN /\ (opt.round => compareDigests)
BY DEF RingInv, SettledOK, Chunk, Base, compareDigests

(* Backwards and forwards, where the file is read again.                   *)
LEMMA BackIs ==
  ASSUME RingInv, HasTable(opt), blockStart \in Nat, lastMatchEnd \in Nat, NEW k \in Nat, NEW p \in Nat,
         lastMatchEnd <= p
  PROVE  LET n == Back(k, p)
         IN  /\ n \in Nat /\ n <= p - lastMatchEnd /\ n <= k * Chunk
             /\ k * Chunk >= blockStart => n <= k * Chunk - blockStart
             /\ \A j \in 0 .. n - 1 : InBlock(p - j - 1) = ByteAt(file, k * Chunk - j)
<1> DEFINE n == Back(k, p)
           old == k * Chunk
           c == Chunk
           len == Least(Least(IF old < blockStart THEN old ELSE old - blockStart, c), p - lastMatchEnd)
           same(j) == InBlock(p - j - 1) = ByteAt(file, old - j)
           first(m) == (\A j \in 0 .. m - 1 : same(j)) /\ (m < len => ~ same(m))
<1>1. n = CHOOSE m \in 0 .. len : first(m)
  BY DEF Back, Common, Chunk
<1>2. c \in Nat \ {0}
  BY ChunkTyped
<1>3. old \in Nat
  <2> HIDE DEF c
  <2>1. k * c \in Nat
    BY <1>2, Z3
  <2> QED BY <2>1 DEF c
<1> HIDE DEF old, c
<1>4. len \in Nat /\ len <= p - lastMatchEnd /\ len <= old /\ (old >= blockStart => len <= old - blockStart)
  BY <1>2, <1>3 DEF Least
<1> HIDE DEF len
<1>5. \E m \in 0 .. len : first(m)
  <2> DEFINE E == {j \in Nat : same(j)}
  <2>1. PICK m \in 0 .. len : (\A j \in 0 .. m - 1 : j \in E) /\ (m < len => m \notin E)
    <3> HIDE DEF E
    <3> QED BY <1>4, FirstBreak
  <2>2. m \in Nat
    BY <1>4
  <2> QED BY <2>1, <2>2
<1>6. n \in 0 .. len /\ first(n)
  <2> HIDE DEF first, n
  <2> QED BY <1>1, <1>5
<1> HIDE DEF n
<1>7. n \in Nat /\ n <= p - lastMatchEnd /\ n <= old /\ (old >= blockStart => n <= old - blockStart)
  BY <1>3, <1>4, <1>6
<1> QED BY <1>6, <1>7 DEF n, old

LEMMA ForwardIs ==
  ASSUME RingInv, Busy, HasTable(opt), NEW k \in Nat, NEW p \in Nat, p <= filled
  PROVE  LET n == Forward(k, p)
         IN  n \in Nat /\ p + n <= filled
             /\ \A j \in 0 .. n - 1 : InBlock(p + j) = ByteAt(file, k * Chunk + j + 1)
<1> DEFINE n == Forward(k, p)
           old == k * Chunk
           len == filled - p
           same(j) == InBlock(p + j) = ByteAt(file, old + j + 1)
           first(m) == (\A j \in 0 .. m - 1 : same(j)) /\ (m < len => ~ same(m))
           all == CHOOSE m \in 0 .. len : first(m)
           pieces == (blockStart - old + Piece - 1) \div Piece
           short == {m \in 0 .. pieces - 1 : old + (m + 1) * Piece > Len(file)}
           cut == CHOOSE m \in short : \A o \in short : m <= o
<1>1. n = IF short = {} THEN all ELSE Least(all, Piece * cut)
  BY DEF Forward, Common, Chunk
<1>2. filled \in Nat
  BY BlockTyped
<1>3. len \in Nat
  BY <1>2
<1> HIDE DEF len, old
<1>4. \E m \in 0 .. len : first(m)
  <2> DEFINE E == {j \in Nat : same(j)}
  <2>1. PICK m \in 0 .. len : (\A j \in 0 .. m - 1 : j \in E) /\ (m < len => m \notin E)
    <3> HIDE DEF E
    <3> QED BY <1>3, FirstBreak
  <2>2. m \in Nat
    BY <1>3
  <2> QED BY <2>1, <2>2
<1>5. all \in 0 .. len /\ first(all)
  <2> HIDE DEF first
  <2> QED BY <1>4
<1> HIDE DEF all
<1>6. n \in 0 .. all
  <2>1. CASE short = {}
    BY <1>1, <1>3, <1>5, <2>1
  <2>2. CASE short # {}
    <3>1. \A m \in short : m \in Nat
      OBVIOUS
    <3>2. cut \in short
      <4>1. short \in SUBSET Nat
        BY <3>1
      <4> HIDE DEF short
      <4>2. \E m \in short : \A o \in short : m <= o
        BY <4>1, <2>2, LeastOf
      <4> QED BY <4>2
    <3>3. cut \in Nat /\ Piece \in Nat
      <4> HIDE DEF cut
      <4> QED BY <3>1, <3>2, ScanAssumption
    <3> HIDE DEF cut
    <3>4. Piece * cut \in Nat
      BY <3>3, Z3
    <3>5. n = Least(all, Piece * cut)
      BY <1>1, <2>2
    <3> HIDE DEF n
    <3> QED BY <3>4, <3>5, <1>3, <1>5 DEF Least
  <2> QED BY <2>1, <2>2
<1> HIDE DEF n
<1>7. n \in Nat /\ n <= len /\ \A j \in 0 .. n - 1 : same(j)
  BY <1>3, <1>5, <1>6
<1>8. n \in Nat /\ p + n <= filled
  BY <1>2, <1>7 DEF len
<1> QED BY <1>7, <1>8 DEF n, old

(* A chunk and a window, of a file read again.                             *)
LEMMA PlainMatch ==
  ASSUME RingInv, Busy, HasTable(opt), ~ compareDigests, NEW k \in Nat, NEW p \in 0 .. filled - 1,
         k * Chunk < blockStart + p, lastMatchEnd \in Nat, lastMatchEnd <= p
  PROVE  LET m == MatchLen(k, p)
         IN  /\ m.len \in Nat /\ m.add \in Nat /\ m.add <= p - lastMatchEnd /\ m.add <= k * Chunk
             /\ Match(k * Chunk - m.add, p - m.add, m.len) /\ p - m.add + m.len <= filled
<1> DEFINE old == k * Chunk
           add == Back(k, p)
           fwd == IF old < blockStart THEN Forward(k, p) ELSE TailLen(p, old - blockStart)
           m == MatchLen(k, p)
<1>1. m.len = add + fwd /\ m.add = add
  BY DEF MatchLen, Chunk
<1>2. filled \in Nat \ {0} /\ blockStart \in Nat /\ p \in Nat /\ p < filled
  BY BlockTyped
<1>3. old \in Nat
  <2>1. Chunk \in Nat
    BY ChunkTyped
  <2> QED BY <2>1, Z3
<1>4. /\ add \in Nat /\ add <= p - lastMatchEnd /\ add <= old
      /\ \A j \in 0 .. add - 1 : InBlock(p - j - 1) = ByteAt(file, old - j)
  BY <1>2, BackIs
<1> HIDE DEF add
<1>5. fwd \in Nat /\ p + fwd <= filled /\ \A j \in 0 .. fwd - 1 : InBlock(p + j) = ByteAt(file, old + j + 1)
  <2>1. CASE old < blockStart
    <3>1. p <= filled
      BY <1>2
    <3>2. /\ Forward(k, p) \in Nat /\ p + Forward(k, p) <= filled
          /\ \A j \in 0 .. Forward(k, p) - 1 : InBlock(p + j) = ByteAt(file, k * Chunk + j + 1)
      BY <1>2, <3>1, ForwardIs
    <3> QED BY <2>1, <3>2
  <2>2. CASE ~ (old < blockStart)
    <3> DEFINE q == old - blockStart
               n == TailLen(p, q)
    <3>1. q \in Nat /\ q < p
      <4> HIDE DEF old
      <4>1. old < blockStart + p
        BY DEF old
      <4> QED BY <1>2, <1>3, <2>2, <4>1
    <3>2. fwd = n
      BY <2>2
    <3>3. old = blockStart + q
      <4> HIDE DEF old
      <4> QED BY <1>2, <1>3
    <3> HIDE DEF q, n, old, fwd
    <3>4. filled \in Nat
      BY <1>2
    <3>5. n \in Nat /\ (p + n <= filled \/ n = 0) /\ \A j \in 0 .. n - 1 : InBlock(p + j) = InBlock(q + j)
      BY <1>2, <3>1, <3>4, TailLenIs DEF n
    <3>6. ASSUME NEW j \in 0 .. n - 1 PROVE InBlock(p + j) = ByteAt(file, old + j + 1)
      <4>1. q + j \in 0 .. filled - 1
        BY <1>2, <3>1, <3>5
      <4>2. InBlock(q + j) = ByteAt(file, blockStart + (q + j) + 1)
        BY <4>1, BlockBytes
      <4>3. blockStart + (q + j) + 1 = old + j + 1
        BY <1>2, <3>1, <3>3
      <4> QED BY <3>5, <4>2, <4>3
    <3>7. p + n <= filled
      BY <1>2, <3>5
    <3> QED BY <3>2, <3>5, <3>6, <3>7
  <2> QED BY <2>1, <2>2
<1> HIDE DEF fwd, old, m
<1>6. m.len \in Nat /\ m.len = add + fwd /\ m.add = add
  BY <1>1, <1>4, <1>5
<1>7. ASSUME NEW j \in 0 .. m.len - 1 PROVE InBlock(p - add + j) = ByteAt(file, old - add + j + 1)
  <2>1. CASE j < add
    <3>1. add - 1 - j \in 0 .. add - 1
      BY <1>4, <1>6, <2>1
    <3>2. InBlock(p - (add - 1 - j) - 1) = ByteAt(file, old - (add - 1 - j))
      BY <1>4, <3>1
    <3>3. p - (add - 1 - j) - 1 = p - add + j /\ old - (add - 1 - j) = old - add + j + 1
      BY <1>2, <1>3, <1>4, <1>6
    <3> QED BY <3>2, <3>3
  <2>2. CASE ~ (j < add)
    <3>1. j - add \in 0 .. fwd - 1
      BY <1>4, <1>5, <1>6, <2>2
    <3>2. InBlock(p + (j - add)) = ByteAt(file, old + (j - add) + 1)
      BY <1>5, <3>1
    <3>3. p + (j - add) = p - add + j /\ old + (j - add) + 1 = old - add + j + 1
      BY <1>2, <1>3, <1>4, <1>6
    <3> QED BY <3>2, <3>3
  <2> QED BY <2>1, <2>2
<1>8. 0 <= old - add /\ old - add < blockStart + (p - add)
  <2>1. old < blockStart + p
    BY DEF old
  <2> QED BY <2>1, <1>2, <1>3, <1>4
<1>9. Match(old - add, p - add, m.len)
  BY <1>7, <1>8 DEF Match
<1>10. p - add + m.len <= filled
  BY <1>2, <1>4, <1>5, <1>6
<1> QED BY <1>4, <1>6, <1>9, <1>10 DEF m, old

-----------------------------------------------------------------------------
(* Where the digests of chunks are those of the file's chunks.             *)
DigestsTrue(d, f, o, to) ==
  \A k \in Nat : (k + 1) * o.l <= to => d[k] = Part(f, k * o.l, o.l)

LEMMA WindowOfChunk ==
  ASSUME NEW to, DigestsTrue(digests, file, opt, to), NEW k \in Nat, (k + 1) * Chunk <= to,
         NEW q \in Int, digests[k] = Window(q), NEW b \in 0 .. Chunk - 1, Chunk \in Nat
  PROVE  InBlock(q + b) = ByteAt(file, k * Chunk + b + 1)
<1>1. digests[k] = Part(file, k * Chunk, Chunk)
  BY DEF DigestsTrue, Chunk
<1>2. Window(q) = [x \in 1 .. Chunk |-> InBlock(q + x - 1)]
  BY DEF Window, Chunk
<1>3. Part(file, k * Chunk, Chunk) = [x \in 1 .. Chunk |-> ByteAt(file, k * Chunk + x)]
  BY DEF Part
<1> DEFINE y == k * Chunk
           c == Chunk
<1>4. y \in Int /\ c \in Nat
  BY Z3
<1> HIDE DEF y, c
<1>5. b + 1 \in 1 .. c
  BY <1>4 DEF c
<1>6. Window(q)[b + 1] = InBlock(q + (b + 1) - 1)
  BY <1>2, <1>5 DEF c
<1>7. Part(file, y, c)[b + 1] = ByteAt(file, y + (b + 1))
  BY <1>3, <1>5 DEF c, y
<1>8. q + (b + 1) - 1 = q + b /\ y + (b + 1) = y + b + 1
  BY <1>4, <1>5
<1>9. Window(q)[b + 1] = Part(file, y, c)[b + 1]
  BY <1>1 DEF y, c
<1> QED BY <1>6, <1>7, <1>8, <1>9 DEF y

LEMMA DigestLenIs ==
  ASSUME RingInv, Busy, HasTable(opt), NEW k \in Nat, NEW p \in 0 .. filled - 1
  PROVE  \E n \in Nat \ {0}, t \in Nat :
           /\ DigestLen(k, p) = n * Chunk + t
           /\ \A j \in 1 .. n - 1 :
                (k + j) * Chunk < blockStart /\ digests[k + j] = Window(p + j * Chunk)
           /\ t # 0 => /\ p + n * Chunk + t <= filled /\ (k + n) * Chunk >= blockStart
                       /\ \A j \in 0 .. t - 1 :
                            InBlock(p + n * Chunk + j) = InBlock((k + n) * Chunk - blockStart + j)
<1> DEFINE c == Chunk
           stop(n) == \/ (k + n) * c >= blockStart
                      \/ p + (n + 1) * c > filled
                      \/ digests[k + n] # Window(p + n * c)
           n == CHOOSE m \in 1 .. Len(file) : stop(m) /\ \A j \in 1 .. m - 1 : ~ stop(j)
           t == IF (k + n) * c >= blockStart THEN TailLen(p + n * c, (k + n) * c - blockStart) ELSE 0
<1>1. DigestLen(k, p) = n * c + t
  BY DEF DigestLen, Chunk
<1>2. c \in Nat \ {0}
  BY ChunkTyped
<1>3. filled \in Nat \ {0} /\ blockStart \in Nat /\ blockStart + filled <= FileLen /\ FileLen \in Nat
      /\ p \in Nat /\ p < filled
  BY BlockTyped, OptionsTyped
<1> HIDE DEF c
<1>4. stop(filled)
  <2>1. (filled + 1) * c = filled * c + c /\ filled * c >= filled
    BY <1>2, <1>3, Z3
  <2> QED BY <1>2, <1>3, <2>1
<1> HIDE DEF stop
<1>5. n \in 1 .. Len(file) /\ \A j \in 1 .. n - 1 : ~ stop(j)
  <2> DEFINE T == {m \in 1 .. Len(file) : stop(m)}
  <2>1. filled \in T
    BY <1>3, <1>4 DEF FileLen
  <2>2. PICK m \in T : \A j \in T : m <= j
    <3>1. T \in SUBSET Nat /\ T # {}
      BY <2>1
    <3> HIDE DEF T
    <3> QED BY <3>1, LeastOf
  <2>3. ASSUME NEW j \in 1 .. m - 1 PROVE ~ stop(j)
    <3>1. j \notin T
      BY <2>2
    <3>2. j \in 1 .. Len(file)
      BY <1>3, <2>2 DEF FileLen
    <3> QED BY <3>1, <3>2
  <2>4. m \in 1 .. Len(file) /\ stop(m)
    BY <2>2
  <2> QED BY <2>3, <2>4
<1> HIDE DEF n
<1>6. n \in Nat \ {0}
  BY <1>3, <1>5 DEF FileLen
<1>7. \A j \in 1 .. n - 1 : (k + j) * c < blockStart /\ digests[k + j] = Window(p + j * c)
  <2> TAKE j \in 1 .. n - 1
  <2>1. ~ stop(j)
    BY <1>5
  <2>2. (k + j) * c \in Nat
    <3>1. k + j \in Nat
      BY <1>6
    <3> QED BY <1>2, <3>1, Z3
  <2> QED BY <1>3, <2>1, <2>2 DEF stop
<1>8. /\ t \in Nat
      /\ t # 0 => /\ p + n * c + t <= filled /\ (k + n) * c >= blockStart
                  /\ \A j \in 0 .. t - 1 : InBlock(p + n * c + j) = InBlock((k + n) * c - blockStart + j)
  <2> DEFINE x == n * c
             y == (k + n) * c
  <2>1. x \in Nat /\ y \in Nat
    BY <1>2, <1>6, Z3
  <2>2. t = IF y >= blockStart THEN TailLen(p + x, y - blockStart) ELSE 0
    OBVIOUS
  <2> HIDE DEF x, y, t
  <2>3. CASE y >= blockStart
    <3>1. p + x \in Nat /\ y - blockStart \in Nat /\ filled \in Nat
      BY <1>3, <2>1, <2>3
    <3>2. /\ t \in Nat /\ (p + x + t <= filled \/ t = 0)
          /\ \A j \in 0 .. t - 1 : InBlock(p + x + j) = InBlock(y - blockStart + j)
      BY <2>2, <2>3, <3>1, TailLenIs
    <3> QED BY <2>3, <3>2 DEF x, y
  <2>4. CASE ~ (y >= blockStart)
    BY <2>2, <2>4
  <2> QED BY <2>3, <2>4
<1> HIDE DEF t
<1> QED BY <1>1, <1>6, <1>7, <1>8 DEF c

(* With digests, when all blocks start on the grid of chunks.              *)
LEMMA DigestMatch ==
  ASSUME RingInv, Busy, HasTable(opt), NEW k \in Nat, NEW p \in 0 .. filled - 1,
         k * Chunk < blockStart + p, (k + 1) * Chunk <= blockStart + filled,
         digests[k] = Window(p), DigestsTrue(digests, file, opt, blockStart + filled),
         blockStart % Chunk = 0
  PROVE  DigestLen(k, p) \in Nat /\ Match(k * Chunk, p, DigestLen(k, p))
<1> DEFINE c == Chunk
<1>1. c \in Nat \ {0}
  BY ChunkTyped
<1>2. filled \in Nat \ {0} /\ blockStart \in Nat /\ p \in Nat /\ p < filled
  BY BlockTyped
<1>3. PICK n \in Nat \ {0}, t \in Nat :
        /\ DigestLen(k, p) = n * c + t
        /\ \A j \in 1 .. n - 1 : (k + j) * c < blockStart /\ digests[k + j] = Window(p + j * c)
        /\ t # 0 => /\ p + n * c + t <= filled /\ (k + n) * c >= blockStart
                    /\ \A j \in 0 .. t - 1 : InBlock(p + n * c + j) = InBlock((k + n) * c - blockStart + j)
  BY DigestLenIs
<1>4. k * c \in Nat /\ k * c < blockStart + p /\ (k + 1) * c <= blockStart + filled /\ blockStart % c = 0
      /\ digests[k] = Window(p)
  <2>1. k * c \in Nat
    BY <1>1, Z3
  <2> QED BY <2>1
<1> DEFINE g == blockStart \div c
<1>5. g \in Nat /\ blockStart = c * g
  <2> HIDE DEF c
  <2> QED BY <1>1, <1>2, <1>4, OnGrid
<1> HIDE DEF c, g
<1> DEFINE len == n * c + t
<1>6. n * c \in Nat /\ len \in Nat
  <2>1. n * c \in Nat
    BY <1>1, Z3
  <2> QED BY <2>1
<1>7. ASSUME NEW a \in 0 .. n - 1, NEW b \in 0 .. c - 1
      PROVE  InBlock(p + a * c + b) = ByteAt(file, (k + a) * c + b + 1)
  <2>1. a \in Nat /\ k + a \in Nat /\ a * c \in Nat
    <3>1. a \in Nat /\ k + a \in Nat
      OBVIOUS
    <3> QED BY <1>1, <3>1, Z3
  <2>2. (k + a + 1) * c <= blockStart + filled
    <3>1. CASE a = 0
      BY <1>4, <3>1
    <3>2. CASE a # 0
      <4>1. (k + a) * c < c * g
        BY <1>3, <1>5, <3>2
      <4>2. k + a < g
        BY <1>1, <1>5, <2>1, <4>1, Z3
      <4>3. (k + a + 1) * c <= c * g
        BY <1>1, <1>5, <2>1, <4>2, Z3
      <4>4. (k + a + 1) * c \in Nat
        BY <1>1, <2>1, Z3
      <4> QED BY <1>2, <1>5, <4>3, <4>4
    <3> QED BY <3>1, <3>2
  <2>3. digests[k + a] = Window(p + a * c)
    <3>1. CASE a = 0
      <4>1. k + a = k /\ p + a * c = p
        BY <1>1, <1>2, <3>1
      <4> QED BY <1>4, <4>1
    <3>2. CASE a # 0
      BY <1>3, <3>2
    <3> QED BY <3>1, <3>2
  <2>4. p + a * c \in Int
    BY <1>2, <2>1
  <2>5. b \in 0 .. Chunk - 1 /\ Chunk \in Nat /\ (k + a + 1) * Chunk <= blockStart + filled
    BY <1>1, <2>2 DEF c
  <2>6. InBlock(p + a * c + b) = ByteAt(file, (k + a) * Chunk + b + 1)
    <3> DEFINE q == p + a * c
               h == k + a
    <3> HIDE DEF q, h
    <3>1. h \in Nat /\ q \in Int /\ digests[h] = Window(q) /\ (h + 1) * Chunk <= blockStart + filled
      BY <2>1, <2>3, <2>4, <2>5 DEF q, h
    <3>2. InBlock(q + b) = ByteAt(file, h * Chunk + b + 1)
      BY <2>5, <3>1, WindowOfChunk
    <3> QED BY <3>2 DEF q, h
  <2> QED BY <2>6 DEF c
<1>8. ASSUME NEW j \in 0 .. len - 1 PROVE InBlock(p + j) = ByteAt(file, k * c + j + 1)
  <2>1. CASE j < n * c
    <3> DEFINE a == j \div c
               b == j % c
    <3>1. a \in Nat /\ b \in 0 .. c - 1 /\ j = c * a + b
      <4>1. j \in Nat
        BY <1>6
      <4> QED BY <1>1, <4>1, DivMod
    <3> HIDE DEF a, b
    <3>2. a * c = c * a /\ (k + a) * c = k * c + a * c /\ a * c \in Nat
      BY <1>1, <3>1, Z3
    <3>3. a < n
      <4>1. c * a < n * c
        BY <1>1, <1>6, <2>1, <3>1, <3>2
      <4> QED BY <1>1, <3>1, <4>1, Z3
    <3>4. a \in 0 .. n - 1
      BY <3>1, <3>3
    <3>5. InBlock(p + a * c + b) = ByteAt(file, (k + a) * c + b + 1)
      BY <1>7, <3>1, <3>4
    <3>6. p + a * c + b = p + j /\ (k + a) * c + b + 1 = k * c + j + 1
      BY <1>1, <1>2, <1>4, <3>1, <3>2
    <3> QED BY <3>5, <3>6
  <2>2. CASE ~ (j < n * c)
    <3> DEFINE x == n * c
               y == (k + n) * c
               z == k * c
    <3>1. x \in Nat /\ y = z + x /\ z \in Nat
      <4>1. (k + n) * c = k * c + n * c
        BY <1>1, Z3
      <4> QED BY <4>1, <1>4, <1>6
    <3>2. /\ t # 0 => /\ p + x + t <= filled /\ y >= blockStart
                      /\ \A h \in 0 .. t - 1 : InBlock(p + x + h) = InBlock(y - blockStart + h)
      BY <1>3
    <3>3. j \in 0 .. x + t - 1 /\ ~ (j < x) /\ z < blockStart + p
      <4>1. len = x + t /\ ~ (j < x)
        BY <2>2
      <4>2. z < blockStart + p
        BY <1>4
      <4> HIDE DEF len, x, y, z
      <4>3. j \in 0 .. x + t - 1
        BY <4>1, <3>1, <1>6
      <4> QED BY <4>1, <4>2, <4>3
    <3> HIDE DEF x, y, z
    <3>4. j - x \in 0 .. t - 1 /\ t # 0
      BY <3>1, <3>3
    <3>5. InBlock(p + x + (j - x)) = InBlock(y - blockStart + (j - x))
      BY <3>2, <3>4
    <3>6. y - blockStart + (j - x) \in 0 .. filled - 1
      BY <1>2, <3>1, <3>2, <3>3, <3>4
    <3>7. InBlock(y - blockStart + (j - x)) = ByteAt(file, blockStart + (y - blockStart + (j - x)) + 1)
      BY <3>6, BlockBytes
    <3>8. p + x + (j - x) = p + j /\ blockStart + (y - blockStart + (j - x)) + 1 = z + j + 1
      BY <1>2, <3>1, <3>3
    <3> QED BY <3>5, <3>7, <3>8 DEF z
  <2> QED BY <2>1, <2>2
<1>9. Match(k * c, p, len)
  BY <1>4, <1>8 DEF Match
<1>10. DigestLen(k, p) = len
  BY <1>3
<1> HIDE DEF len
<1> QED BY <1>6, <1>9, <1>10 DEF c

-----------------------------------------------------------------------------
(* A record the list may go on with: behind the last, inside the block,    *)
(* and read back as a copy of true bytes.                                  *)
Sound(r) ==
  /\ r.at \in Nat /\ r.len \in Nat /\ r.offset \in Nat
  /\ lastMatchEnd <= r.at /\ r.at + r.len <= filled /\ Base <= r.len
  /\ LET m == ReadBack(r.offset, r, r.at - lastMatchEnd)
     IN  /\ m.dest = blockStart + r.at /\ m.len = r.len /\ m.src \in Int
         /\ 0 <= m.src /\ m.src < m.dest /\ Copy(file, m.src, m.dest, r.len)

LEMMA UnitTyped ==
  ASSUME RingInv
  PROVE  Unit(opt.round, opt.base) \in Nat \ {0} /\ opt.round \in BOOLEAN /\ opt.base \in Nat \ {0}
<1>1. opt.round \in BOOLEAN /\ opt.base \in Nat \ {0}
  BY DEF RingInv, SettledOK
<1> QED BY <1>1 DEF Unit

LEMMA DecodedFromTyped ==
  ASSUME RingInv, NEW p \in Nat, NEW offset \in Nat, blockStart \in Nat
  PROVE  /\ DecodedFrom(p, offset) \in Int
         /\ ~ opt.round => DecodedFrom(p, offset) = blockStart + p - offset
<1> DEFINE u == Unit(opt.round, opt.base)
<1>1. u \in Nat \ {0}
  BY UnitTyped
<1>2. DecodedFrom(p, offset) = ((blockStart + p) \div u) * u - (offset \div u) * u
  BY DEF DecodedFrom
<1>3. ~ opt.round => u = 1
  BY DEF Unit
<1> HIDE DEF u
<1>4. (blockStart + p) \div u \in Nat /\ offset \div u \in Nat
  <2>1. blockStart + p \in Nat
    OBVIOUS
  <2> QED BY <1>1, <2>1, DivMod
<1>5. ((blockStart + p) \div u) * u - (offset \div u) * u \in Int
  <2> DEFINE a == (blockStart + p) \div u
             b == offset \div u
  <2>1. a \in Nat /\ b \in Nat
    BY <1>4
  <2> HIDE DEF a, b
  <2>2. a * u - b * u \in Int
    BY <1>1, <2>1, Z3
  <2> QED BY <2>2 DEF a, b
<1>6. ASSUME ~ opt.round PROVE DecodedFrom(p, offset) = blockStart + p - offset
  <2>1. DecodedFrom(p, offset) = ((blockStart + p) \div 1) * 1 - (offset \div 1) * 1
    BY <1>2, <1>3, <1>6
  <2>2. \A n \in Int : (n \div 1) * 1 = n
    BY Z3
  <2>3. blockStart + p \in Int /\ offset \in Int
    OBVIOUS
  <2> QED BY <2>1, <2>2, <2>3
<1> QED BY <1>2, <1>5, <1>6

LEMMA ReadBackIs ==
  ASSUME RingInv, NEW r, r.at \in Nat, r.len \in Nat, NEW offset \in Nat, NEW lit \in Nat, blockStart \in Nat,
         opt.round => r.len % opt.base = 0 /\ r.len >= opt.base
  PROVE  LET m == ReadBack(offset, r, lit)
         IN  m.dest = blockStart + r.at /\ m.len = r.len /\ m.src = DecodedFrom(r.at, offset)
<1> DEFINE to == r.at
           len == r.len
           n == [at |-> to, len |-> len]
<1>1. ReadBack(offset, r, lit) = ReadBack(offset, n, lit)
  BY DEF ReadBack
<1>2. opt.round \in BOOLEAN /\ opt.base \in Nat \ {0}
  BY UnitTyped
<1>3. to \in Nat /\ len \in Nat
  OBVIOUS
<1>a. lit \in Nat /\ offset \in Nat /\ blockStart \in Nat /\ 0 \in Nat /\ opt.base \in Nat
  BY <1>2
<1>b. [at |-> to, len |-> len].at = to /\ [at |-> to, len |-> len].len = len
  OBVIOUS
<1>4. CASE opt.round
  <2>1. len % opt.base = 0 /\ len >= opt.base
    BY <1>4
  <2> DEFINE w == [at |-> to, len |-> len]
             m == ReadBack(offset, w, lit)
  <2> HIDE DEF to, len
  <2>2. LET x == ReadBack(offset, [at |-> to, len |-> len], lit)
        IN  x.dest = blockStart + to /\ x.len = len /\ x.src = DecodedFrom(to, offset)
    <3> HIDE DEF n, w, m
    <3> QED BY <1>2, <1>3, <1>4, <1>a, <2>1, ReadBackRounded
  <2>3. m.dest = blockStart + to /\ m.len = len /\ m.src = DecodedFrom(to, offset)
    BY <2>2 DEF w, m
  <2>4. ReadBack(offset, r, lit) = m
    BY <1>1 DEF m, w, n
  <2> HIDE DEF m
  <2>5. LET x == ReadBack(offset, r, lit) IN x.dest = blockStart + to /\ x.len = len /\ x.src = DecodedFrom(to, offset)
    BY <2>3, <2>4
  <2> QED BY <2>5 DEF to, len
<1>5. CASE ~ opt.round
  <2> DEFINE w == [at |-> to, len |-> len]
             m == ReadBack(offset, w, lit)
  <2> HIDE DEF to, len
  <2>1. LET x == ReadBack(offset, [at |-> to, len |-> len], lit)
        IN  x.dest = blockStart + to /\ x.len = len /\ x.src = blockStart + to - offset
    <3> HIDE DEF n, w, m
    <3> QED BY <1>3, <1>5, <1>a, ReadBackPlain
  <2>2. DecodedFrom(to, offset) = blockStart + to - offset
    BY <1>3, <1>5, DecodedFromTyped
  <2>3. m.dest = blockStart + to /\ m.len = len /\ m.src = DecodedFrom(to, offset)
    BY <2>1, <2>2 DEF w, m
  <2>4. ReadBack(offset, r, lit) = m
    BY <1>1 DEF m, w, n
  <2> HIDE DEF m
  <2>5. LET x == ReadBack(offset, r, lit) IN x.dest = blockStart + to /\ x.len = len /\ x.src = DecodedFrom(to, offset)
    BY <2>3, <2>4
  <2> QED BY <2>5 DEF to, len
<1> QED BY <1>2, <1>4, <1>5

LEMMA SoundFromMatch ==
  ASSUME RingInv, Busy, NEW r, r.at \in Nat, r.len \in Nat, r.offset \in Nat, lastMatchEnd \in Nat,
         lastMatchEnd <= r.at, r.at + r.len <= filled, Base <= r.len, opt.round => r.len % opt.base = 0,
         Match(DecodedFrom(r.at, r.offset), r.at, r.len)
  PROVE  Sound(r)
<1> DEFINE lit == r.at - lastMatchEnd
           src == DecodedFrom(r.at, r.offset)
           to == r.at
           len == r.len
           m == ReadBack(r.offset, r, lit)
<1>1. blockStart \in Nat /\ filled \in Nat
  BY BlockTyped
<1>2. lit \in Nat
  OBVIOUS
<1>3. opt.round => len % opt.base = 0 /\ len >= opt.base
  BY DEF Base
<1>4. m.dest = blockStart + to /\ m.len = len /\ m.src = src
  <2> HIDE DEF lit
  <2> QED BY <1>1, <1>2, <1>3, ReadBackIs
<1>5. src \in Int
  BY <1>1, DecodedFromTyped
<1>6. 0 <= src /\ src < blockStart + to /\ \A j \in 0 .. len - 1 : InBlock(to + j) = ByteAt(file, src + j + 1)
  BY DEF Match
<1>7. to \in Nat /\ len \in Nat /\ to + len <= filled
  OBVIOUS
<1> HIDE DEF src, to, len, m
<1>8. Copy(file, src, blockStart + to, len)
  <2>1. ASSUME NEW j \in 0 .. len - 1 PROVE ByteAt(file, src + j + 1) = ByteAt(file, blockStart + to + j + 1)
    <3>1. to + j \in 0 .. filled - 1
      BY <1>1, <1>7
    <3>2. InBlock(to + j) = ByteAt(file, blockStart + (to + j) + 1)
      BY <3>1, BlockBytes
    <3>3. blockStart + (to + j) + 1 = blockStart + to + j + 1
      BY <1>1, <1>7
    <3> QED BY <1>6, <3>2, <3>3
  <2> QED BY <2>1 DEF Copy
<1>9. /\ m.dest = blockStart + r.at /\ m.len = r.len /\ m.src \in Int
      /\ 0 <= m.src /\ m.src < m.dest /\ Copy(file, m.src, m.dest, r.len)
  BY <1>4, <1>5, <1>6, <1>8 DEF to, len
<1> QED BY <1>9 DEF Sound, m

-----------------------------------------------------------------------------
LEMMA RoundedIs ==
  ASSUME RingInv, HasTable(opt), NEW len \in Nat
  PROVE  Rounded(len) \in Nat /\ Rounded(len) <= len /\ (~ opt.round => Rounded(len) = len)
<1>1. Chunk \in Nat \ {0}
  BY ChunkTyped
<1>2. (len \div Chunk) * Chunk \in Nat /\ (len \div Chunk) * Chunk <= len
  BY <1>1, WholeUnits
<1> QED BY <1>2 DEF Rounded, Chunk

LEMMA FitShape ==
  ASSUME RingInv, NEW src \in Nat, NEW p \in Nat, NEW len \in Nat
  PROVE  LET r == Fit(src, p, len)
         IN  /\ r.at \in Nat /\ r.len \in Nat /\ p <= r.at
             /\ r.len # 0 /\ opt.round => r.len % opt.base = 0 /\ r.len >= opt.base
             /\ ~ opt.round => r.at = p /\ r.len = len
<1> DEFINE r == Fit(src, p, len)
           b == opt.base
           skip == (b - (src % b)) % b
           cut == (Most(len - skip, 0) \div b) * b
<1>1. opt.round \in BOOLEAN /\ b \in Nat \ {0}
  BY UnitTyped
<1>2. CASE ~ opt.round \/ OnBaseGrid(src, len) \/ DecodesAsIs(src, p, len)
  <2>1. r = [at |-> p, len |-> len]
    BY <1>2 DEF Fit
  <2>2. opt.round => len % b = 0 /\ len >= b
    BY <1>2 DEF OnBaseGrid, DecodesAsIs
  <2> HIDE DEF r
  <2>3. r.at = p /\ r.len = len
    BY <2>1
  <2>4. r.at \in Nat /\ r.len \in Nat /\ p <= r.at
    BY <2>3
  <2> QED BY <2>2, <2>3, <2>4 DEF r
<1>3. CASE ~ (~ opt.round \/ OnBaseGrid(src, len) \/ DecodesAsIs(src, p, len))
  <2>1. r = IF cut < b THEN [at |-> p, len |-> 0] ELSE [at |-> p + skip, len |-> cut]
    BY <1>3 DEF Fit
  <2>2. skip \in Nat
    BY <1>1, NextUnit
  <2> HIDE DEF skip
  <2>3. Most(len - skip, 0) \in Nat
    BY <2>2 DEF Most
  <2>4. cut \in Nat /\ cut % b = 0
    BY <1>1, <2>3, WholeUnits
  <2> HIDE DEF cut, r, b
  <2>5. CASE cut < b
    <3>1. r.at = p /\ r.len = 0
      BY <2>1, <2>5
    <3> QED BY <1>3, <3>1 DEF r, b
  <2>6. CASE ~ (cut < b)
    <3>1. r.at = p + skip /\ r.len = cut
      BY <2>1, <2>6
    <3>2. r.at \in Nat /\ r.len \in Nat /\ p <= r.at /\ r.len % b = 0 /\ r.len >= b
      BY <1>1, <2>2, <2>4, <2>6, <3>1
    <3> QED BY <1>3, <3>2 DEF r, b
  <2> QED BY <2>5, <2>6
<1> QED BY <1>2, <1>3

(* What is made of a match to fit the units reads back as a match.         *)
LEMMA FittedIsSound ==
  ASSUME RingInv, Busy, HasTable(opt), NEW src \in Nat, NEW p \in Nat, NEW len \in Nat,
         Match(src, p, len), lastMatchEnd \in Nat, lastMatchEnd <= p,
         Fit(src, p, len).len # 0, Fit(src, p, len).at + Fit(src, p, len).len <= filled,
         ~ opt.round => Base <= len,
         NEW r, r.at = Fit(src, p, len).at, r.len = Fit(src, p, len).len, r.offset = blockStart + p - src
  PROVE  Sound(r)
<1> DEFINE f == Fit(src, p, len)
           off == blockStart + p - src
           lit == 0
           m == ReadBack(off, f, lit)
<1>1. blockStart \in Nat /\ opt.round \in BOOLEAN /\ opt.base \in Nat \ {0} /\ Base \in Nat \ {0}
  BY BlockTyped, UnitTyped DEF Base
<1>2. off \in Nat
  BY <1>1 DEF Match
<1>3. /\ f.at \in Nat /\ f.len \in Nat /\ p <= f.at
      /\ f.len # 0 /\ opt.round => f.len % opt.base = 0 /\ f.len >= opt.base
      /\ ~ opt.round => f.at = p /\ f.len = len
  BY FitShape
<1>4. Match(m.src, f.at, f.len)
  BY <1>1, FittedRecordsReproduce
<1> HIDE DEF f, m, off
<1>5. f.len # 0 /\ f.at + f.len <= filled /\ r.at = f.at /\ r.len = f.len /\ r.offset = off
  BY DEF f, off
<1>6. opt.round => f.len % opt.base = 0 /\ f.len >= opt.base
  BY <1>3, <1>5
<1>7. m.src = DecodedFrom(f.at, off)
  BY <1>1, <1>2, <1>3, <1>6, ReadBackIs DEF m
<1>8. Base <= f.len
  BY <1>1, <1>3, <1>6 DEF Base
<1>9. lastMatchEnd <= f.at
  BY <1>3
<1>10. Match(DecodedFrom(r.at, r.offset), r.at, r.len)
  BY <1>4, <1>5, <1>7
<1> QED BY <1>2, <1>3, <1>5, <1>6, <1>8, <1>9, <1>10, SoundFromMatch

-----------------------------------------------------------------------------
(* Where a chunk is. *)
GridSet == [chunk: Nat, start: Nat]
GridTyped == grid \in Seq(GridSet)

LEMMA ChunkPosTyped ==
  ASSUME RingInv, HasTable(opt), GridTyped, NEW k \in Nat
  PROVE  ChunkPos(k) \in Int /\ k * Chunk \in Nat
<1> DEFINE last == {n \in DOMAIN grid : grid[n].chunk <= k}
           g == grid[Cardinality(last)]
<1>1. Chunk \in Nat
  BY ChunkTyped
<1>2. k * Chunk \in Nat
  BY <1>1, Z3
<1>3. CASE last = {}
  <2>1. ChunkPos(k) = k * Chunk
    BY <1>3 DEF ChunkPos, Chunk
  <2> QED BY <1>2, <2>1
<1>4. CASE last # {}
  <2>1. ChunkPos(k) = g.start + (k - g.chunk) * Chunk
    BY <1>4 DEF ChunkPos, Chunk
  <2>2. Len(grid) \in Nat /\ DOMAIN grid = 1 .. Len(grid)
    BY DEF GridTyped
  <2>3. IsFiniteSet(1 .. Len(grid)) /\ Cardinality(1 .. Len(grid)) = Len(grid)
    <3>1. ASSUME NEW z \in Nat PROVE IsFiniteSet(1 .. z) /\ Cardinality(1 .. z) = z
      <4>1. 1 \in Int /\ z \in Int
        OBVIOUS
      <4>2. IsFiniteSet(1 .. z) /\ Cardinality(1 .. z) = IF 1 > z THEN 0 ELSE z - 1 + 1
        BY <4>1, FS_Interval
      <4> QED BY <4>2
    <3> QED BY <2>2, <3>1
  <2>4. last \subseteq 1 .. Len(grid)
    BY <2>2
  <2> HIDE DEF last
  <2>5. IsFiniteSet(last) /\ Cardinality(last) <= Len(grid)
    BY <2>3, <2>4, FS_Subset
  <2>6. Cardinality(last) \in Nat /\ Cardinality(last) # 0
    BY <1>4, <2>5, FS_CardinalityType, FS_EmptySet
  <2>7. Cardinality(last) \in 1 .. Len(grid)
    BY <2>2, <2>5, <2>6
  <2>8. g.start \in Nat /\ g.chunk \in Nat
    <3>1. grid[Cardinality(last)] \in [chunk: Nat, start: Nat]
      <4>1. \A c \in 1 .. Len(grid) : grid[c] \in GridSet
        BY DEF GridTyped
      <4> QED BY <2>7, <4>1 DEF GridSet
    <3> QED BY <3>1
  <2> HIDE DEF g
  <2>9. k - g.chunk \in Int
    BY <2>8
  <2>10. (k - g.chunk) * Chunk \in Int
    BY <1>1, <2>9, Z3
  <2> QED BY <1>2, <2>1, <2>8, <2>10
<1> QED BY <1>3, <1>4

LEMMA ShorterMatch ==
  ASSUME NEW src, NEW p, NEW len \in Int, Match(src, p, len), NEW n \in Int, n <= len
  PROVE  Match(src, p, n)
BY DEF Match

(* A record made again, from where the chunk is. *)
LEMMA RemadeSound ==
  ASSUME RingInv, Busy, HasTable(opt), GridTyped, NEW k \in Nat, NEW p \in 0 .. filled - 1,
         lastMatchEnd \in Nat, lastMatchEnd <= p, Remade(k, p).len # 0
  PROVE  Sound(Remade(k, p))
<1> DEFINE src == IF compareDigests THEN ChunkPos(k) ELSE k * opt.l
           n == CommonPrefix(p, src, filled - p)
           len == Rounded(n)
           r == Fit(src, p, len)
           s == Remade(k, p)
<1>1. /\ s.at = r.at /\ s.offset = blockStart + p - src
      /\ s.len = IF len = 0 \/ len < opt.minMatch THEN 0 ELSE r.len
  BY DEF Remade
<1>2. src \in Int
  BY ChunkPosTyped DEF Chunk
<1>3. blockStart \in Nat /\ filled \in Nat
  BY BlockTyped
<1>4. p \in Nat /\ filled - p \in Nat
  BY <1>3
<1> HIDE DEF src
<1>5. n \in 0 .. filled - p /\ (n # 0 => Match(src, p, n))
  BY <1>2, <1>3, <1>4, CommonPrefixIs
<1>6. n \in Nat /\ p + n <= filled
  BY <1>3, <1>4, <1>5
<1> HIDE DEF n
<1>7. len \in Nat /\ len <= n /\ (~ opt.round => len = n)
  BY <1>6, RoundedIs
<1> HIDE DEF len, r, s
<1>8. len # 0 /\ len >= opt.minMatch /\ s.len = r.len /\ r.len # 0
  <2>1. s.len # 0
    BY DEF s
  <2>2. opt.minMatch \in Nat
    BY ChunkTyped
  <2> QED BY <1>1, <1>7, <2>1, <2>2
<1>9. n # 0
  BY <1>6, <1>7, <1>8
<1>10. Match(src, p, len)
  <2>1. Match(src, p, n)
    BY <1>5, <1>9
  <2>2. n \in Int /\ len \in Int
    BY <1>6, <1>7
  <2> QED BY <1>7, <2>1, <2>2, ShorterMatch
<1>11. src \in Nat
  BY <1>2, <1>10 DEF Match
<1>12. Base <= len
  <2>1. Base \in Nat /\ opt.minMatch \in Nat /\ Base <= opt.minMatch
    BY ChunkTyped
  <2> QED BY <1>7, <1>8, <2>1
<1>13. r.at + r.len <= filled
  <2>1. opt.base \in Nat \ {0} /\ opt.round \in BOOLEAN /\ 0 \in Nat
    BY UnitTyped
  <2>2. r.at + r.len <= p + len
    <3>1. Fit(src, p, len).len # 0
      BY <1>8 DEF r
    <3>2. Fit(src, p, len).at + Fit(src, p, len).len <= p + len
      BY <1>3, <1>4, <1>7, <1>10, <1>11, <2>1, <3>1, FittedRecordsReproduce
    <3> QED BY <3>2 DEF r
  <2>3. r.at \in Nat /\ r.len \in Nat
    BY <1>4, <1>7, <1>11, FitShape DEF r
  <2> QED BY <1>3, <1>4, <1>6, <1>7, <2>2, <2>3
<1>14. Sound(s)
  BY <1>1, <1>4, <1>7, <1>8, <1>10, <1>11, <1>12, <1>13, FittedIsSound DEF r
<1> QED BY <1>14 DEF s

-----------------------------------------------------------------------------
(* The record of a chunk that is found, whatever its digest was taken of.  *)
ChunkKnown(k, p) ==
  compareDigests =>
    /\ digests[k] = Window(p)
    /\ ~ anyShifted => /\ blockStart % Chunk = 0 /\ (k + 1) * Chunk <= blockStart + filled
                       /\ DigestsTrue(digests, file, opt, blockStart + filled)

LEMMA MatchLenIs ==
  ASSUME RingInv, Busy, HasTable(opt), NEW k \in Nat, NEW p \in 0 .. filled - 1,
         k * Chunk < blockStart + p, lastMatchEnd \in Nat, lastMatchEnd <= p
  PROVE  LET m == MatchLen(k, p)
         IN  m.len \in Nat /\ m.add \in Nat /\ m.add <= p - lastMatchEnd
             /\ (compareDigests => m.len = DigestLen(k, p) /\ m.add = 0)
<1> DEFINE m == MatchLen(k, p)
<1>1. CASE compareDigests
  <2>1. m.len = DigestLen(k, p) /\ m.add = 0
    BY <1>1 DEF MatchLen
  <2>2. PICK n \in Nat \ {0}, t \in Nat : DigestLen(k, p) = n * Chunk + t
    BY DigestLenIs
  <2>3. Chunk \in Nat
    BY ChunkTyped
  <2>4. n * Chunk \in Nat
    BY <2>3, Z3
  <2>5. DigestLen(k, p) \in Nat
    BY <2>2, <2>4
  <2>6. 0 <= p - lastMatchEnd
    OBVIOUS
  <2> QED BY <2>1, <2>5, <2>6
<1>2. CASE ~ compareDigests
  BY <1>2, PlainMatch
<1> QED BY <1>1, <1>2

LEMMA RecordMatchSound ==
  ASSUME RingInv, Busy, HasTable(opt), GridTyped, NEW k \in Nat, NEW p \in 0 .. filled - 1,
         k * Chunk < blockStart + p, lastMatchEnd \in Nat, lastMatchEnd <= p, ChunkKnown(k, p),
         RecordMatch(k, p).len > 0
  PROVE  Sound(RecordMatch(k, p))
<1> DEFINE m == MatchLen(k, p)
           start == p - m.add
           old == k * opt.l
           len == Rounded(m.len)
           r == Fit(old, start, len)
           offset == blockStart + p - old
           s == RecordMatch(k, p)
           t == [at |-> r.at, len |-> r.len, offset |-> offset]
<1>1. s = IF m.len < opt.minMatch \/ r.len = 0 THEN [at |-> p, len |-> 0, offset |-> 0]
          ELSE IF Trusted(k, p, r) THEN t ELSE Remade(k, start)
  BY DEF RecordMatch
<1>2. m.len \in Nat /\ m.add \in Nat /\ m.add <= p - lastMatchEnd
      /\ (compareDigests => m.len = DigestLen(k, p) /\ m.add = 0)
  BY MatchLenIs
<1>3. ~ compareDigests =>
        m.add <= old /\ Match(old - m.add, start, m.len) /\ start + m.len <= filled
  BY PlainMatch DEF Chunk
<1> HIDE DEF m, s, r, t
<1>4. ~ (m.len < opt.minMatch \/ r.len = 0)
  <2>1. s.len # 0
    BY DEF s
  <2> QED BY <1>1, <2>1
<1>5. blockStart \in Nat /\ filled \in Nat /\ p \in Nat /\ start \in 0 .. filled - 1 /\ start \in Nat
      /\ lastMatchEnd <= start /\ start <= p
  <2>1. blockStart \in Nat /\ filled \in Nat
    BY BlockTyped
  <2> QED BY <1>2, <2>1
<1>6. /\ Base \in Nat \ {0} /\ opt.minMatch \in Nat /\ Base <= opt.minMatch
      /\ opt.round \in BOOLEAN /\ (opt.round => compareDigests)
  BY ChunkTyped
<1>7. old \in Nat /\ old < blockStart + p
  BY ChunkPosTyped DEF Chunk
<1>8. len \in Nat /\ len <= m.len /\ (~ opt.round => len = m.len)
  BY <1>2, RoundedIs
<1> HIDE DEF start, len, old
<1>9. r.at \in Nat /\ r.len \in Nat /\ start <= r.at
      /\ (opt.round => r.len % opt.base = 0 /\ r.len >= opt.base)
      /\ (~ opt.round => r.at = start /\ r.len = len)
  <2>1. r.len # 0
    BY <1>4
  <2> QED BY <1>5, <1>7, <1>8, <2>1, FitShape DEF r
<1>10. Base <= r.len
  BY <1>2, <1>4, <1>6, <1>8, <1>9 DEF Base
<1>11. offset \in Nat
  BY <1>5, <1>7
<1> HIDE DEF offset
<1>12. CASE ~ Trusted(k, p, r)
  <2>1. s = Remade(k, start)
    BY <1>1, <1>4, <1>12
  <2>2. Remade(k, start).len # 0
    <3>1. s.len # 0
      BY DEF s
    <3> QED BY <2>1, <3>1
  <2>3. Sound(Remade(k, start))
    BY <1>5, <2>2, RemadeSound
  <2> QED BY <2>1, <2>3 DEF s
<1>13. CASE Trusted(k, p, r)
  <2>1. s = t
    BY <1>1, <1>4, <1>13
  <2>2. t.at = r.at /\ t.len = r.len /\ t.offset = offset
    BY DEF t
  <2>3. r.at + r.len <= filled /\ r.len # 0 /\ lastMatchEnd <= r.at
    BY <1>4, <1>5, <1>9, <1>13 DEF Trusted
  <2>4. ASSUME Match(DecodedFrom(t.at, t.offset), t.at, t.len) PROVE Sound(t)
    <3>1. t.at \in Nat /\ t.len \in Nat /\ t.offset \in Nat /\ lastMatchEnd <= t.at
      BY <1>9, <1>11, <2>2, <2>3
    <3>2. t.at + t.len <= filled /\ Base <= t.len /\ (opt.round => t.len % opt.base = 0)
      BY <1>9, <1>10, <2>2, <2>3
    <3> QED BY <2>4, <3>1, <3>2, SoundFromMatch
  <2>5. CASE compareDigests /\ anyShifted
    <3>1. CommonPrefix(r.at, DecodedFrom(r.at, offset), r.len) = r.len
      BY <1>13, <2>5 DEF Trusted, offset, old
    <3>2. DecodedFrom(r.at, offset) \in Int
      BY <1>5, <1>9, <1>11, DecodedFromTyped
    <3>3. r.len \in Nat \ {0}
      BY <1>9, <2>3
    <3>4. Match(DecodedFrom(r.at, offset), r.at, r.len)
      BY <1>5, <1>9, <3>1, <3>2, <3>3, CommonPrefixIsPrefix
    <3>5. Sound(t)
      BY <2>2, <2>4, <3>4
    <3> QED BY <2>1, <3>5 DEF s
  <2>6. CASE compareDigests /\ ~ anyShifted
    <3>1. start = p /\ m.len = DigestLen(k, p)
      BY <1>2, <1>5, <2>6 DEF start
    <3>2. Match(old, p, m.len)
      BY <2>6, <3>1, DigestMatch DEF ChunkKnown, old, Chunk
    <3>3. Match(old, p, len)
      <4>1. m.len \in Int /\ len \in Int
        BY <1>2, <1>8
      <4> QED BY <1>8, <3>2, <4>1, ShorterMatch
    <3>4. ~ opt.round => Base <= len
      BY <1>9, <1>10
    <3>5. r = Fit(old, p, len)
      BY <3>1 DEF r
    <3>6. lastMatchEnd <= p /\ Fit(old, p, len).len # 0 /\ Fit(old, p, len).at + Fit(old, p, len).len <= filled
      BY <2>3, <3>5
    <3>7. t.at = Fit(old, p, len).at /\ t.len = Fit(old, p, len).len /\ t.offset = blockStart + p - old
      BY <2>2, <3>5 DEF offset
    <3>8. Sound(t)
      BY <1>5, <1>7, <1>8, <3>3, <3>4, <3>6, <3>7, FittedIsSound
    <3> QED BY <2>1, <3>8 DEF s
  <2>7. CASE ~ compareDigests
    <3>1. ~ opt.round
      BY <1>6, <2>7
    <3>2. r.at = start /\ r.len = m.len
      BY <1>8, <1>9, <3>1
    <3>3. DecodedFrom(start, offset) = blockStart + start - offset
      BY <1>5, <1>11, <3>1, DecodedFromTyped
    <3>4. blockStart + start - offset = old - m.add
      BY <1>2, <1>5, <1>7 DEF offset, start
    <3>5. Match(DecodedFrom(start, offset), start, m.len)
      BY <1>3, <2>7, <3>3, <3>4
    <3>6. Sound(t)
      BY <2>2, <2>4, <3>2, <3>5
    <3> QED BY <2>1, <3>6 DEF s
  <2> QED BY <2>5, <2>6, <2>7
<1> QED BY <1>12, <1>13

-----------------------------------------------------------------------------
(* The digests of chunks, and the blocks that start off their grid: while  *)
(* none does, the digests are those of the file's chunks.                  *)
GridAt == {"inmem", "dict", "write"} \cup TableAt

DigestBound == IF pc \in {"begin", "next", "prepare"} THEN blockStart ELSE blockStart + filled

GridInv ==
  /\ GridTyped /\ DOMAIN digests = 0 .. Slots - 1
  /\ pc = "begin" => grid = <<>>
  /\ HasTable(opt) /\ grid = <<>> /\ pc \in {"begin", "next", "prepare"} \cup GridAt =>
       /\ pc \in GridAt => blockStart % Chunk = 0
       /\ compareDigests => DigestsTrue(digests, file, opt, DigestBound)

LEMMA LengthTyped ==
  ASSUME RingInv
  PROVE  Chunk \in Nat \ {0}
BY DEF RingInv, SettledOK, Chunk, HasTable

(* The slots are enough for every chunk that starts inside the file.       *)
LEMMA SlotForChunk ==
  ASSUME RingInv, NEW k \in Nat, k * Chunk < FileLen
  PROVE  k \in 0 .. Slots - 1
<1>1. Chunk \in Nat \ {0} /\ FileLen \in Nat
  BY LengthTyped, OptionsTyped
<1> DEFINE n == Most(FileLen, Chunk)
           s == n \div Chunk
<1>2. n \in Nat /\ FileLen <= n
  BY <1>1 DEF Most
<1>3. Slots = s + 1
  BY DEF Slots, FileLen, Chunk
<1> HIDE DEF n
<1>4. s \in Nat /\ n % Chunk \in 0 .. Chunk - 1 /\ n = Chunk * s + (n % Chunk)
  BY <1>1, <1>2, DivMod
<1> HIDE DEF s
<1>5. k <= s
  <2>1. SUFFICES ASSUME k >= s + 1 PROVE FALSE
    BY <1>4
  <2>2. k * Chunk >= (s + 1) * Chunk
    BY <1>1, <1>4, <2>1, Z3
  <2>3. (s + 1) * Chunk = Chunk * s + Chunk
    BY <1>1, <1>4, Z3
  <2>4. k * Chunk \in Nat /\ Chunk * s \in Nat
    BY <1>1, <1>4, Z3
  <2>5. n < Chunk * s + Chunk
    BY <1>1, <1>4, <2>4
  <2> QED BY <1>1, <1>2, <2>2, <2>3, <2>4, <2>5
<1> QED BY <1>3, <1>4, <1>5

(* A piece of the block, in the file. *)
LEMMA WindowIs ==
  ASSUME RingInv, Busy, NEW p \in Nat, p + Chunk <= filled
  PROVE  Window(p) = Part(file, blockStart + p, Chunk)
<1>1. Chunk \in Nat \ {0} /\ blockStart \in Nat /\ filled \in Nat
  BY LengthTyped, BlockTyped
<1>2. ASSUME NEW k \in 1 .. Chunk PROVE InBlock(p + k - 1) = ByteAt(file, blockStart + p + k)
  <2>1. p + k - 1 \in 0 .. filled - 1 /\ blockStart + (p + k - 1) + 1 = blockStart + p + k
    BY <1>1
  <2> DEFINE q == p + k - 1
  <2>2. q \in 0 .. filled - 1 /\ blockStart + q + 1 = blockStart + p + k
    BY <2>1
  <2> HIDE DEF q
  <2>3. InBlock(q) = ByteAt(file, blockStart + p + k)
    BY <2>2, BlockBytes
  <2> QED BY <2>3 DEF q
<1>3. Window(p) = [k \in 1 .. Chunk |-> InBlock(p + k - 1)]
  BY DEF Window, Chunk
<1> QED BY <1>2, <1>3 DEF Part

LEMMA UnitsBelow ==
  ASSUME NEW c \in Nat \ {0}, NEW n \in Nat, NEW q \in Nat
  PROVE  q * c \in Nat /\ (q * c <= n <=> q <= n \div c)
<1> DEFINE d == n \div c
           m == n % c
<1>1. d \in Nat /\ m \in 0 .. c - 1 /\ n = c * d + m
  BY DivMod
<1> HIDE DEF d, m
<1>2. q * c \in Nat /\ c * d \in Nat
  BY <1>1, Z3
<1>3. ASSUME q <= d PROVE q * c <= c * d
  BY <1>1, <1>3, Z3
<1>4. ASSUME q >= d + 1 PROVE q * c >= c * d + c
  <2>1. q * c >= (d + 1) * c
    BY <1>1, <1>4, Z3
  <2>2. (d + 1) * c = c * d + c
    BY <1>1, Z3
  <2> QED BY <2>1, <2>2
<1>5. q <= d => q * c <= n
  BY <1>1, <1>2, <1>3
<1>6. q >= d + 1 => ~ (q * c <= n)
  BY <1>1, <1>2, <1>4
<1>7. q <= d \/ q >= d + 1
  BY <1>1
<1> QED BY <1>1, <1>2, <1>5, <1>6, <1>7 DEF d

LEMMA DigestsPrepared ==
  ASSUME RingInv, Busy, HasTable(opt), DOMAIN digests = 0 .. Slots - 1,
         DigestsTrue(digests, file, opt, blockStart), blockStart % Chunk = 0
  PROVE  DigestsTrue(WithDigests, file, opt, blockStart + filled)
<1> DEFINE end == blockStart + filled
           own == {[chunk |-> FirstChunk + m, digest |-> Window(m * opt.l)] :
                     m \in 0 .. filled \div opt.l - 1}
           new == own \cup Ahead
<1>1. /\ Chunk \in Nat \ {0} /\ blockStart \in Nat /\ filled \in Nat /\ FileLen \in Nat
      /\ end \in Nat /\ end <= FileLen
  BY LengthTyped, BlockTyped, OptionsTyped
<1>2. FirstChunk \in Nat /\ blockStart = Chunk * FirstChunk
  BY <1>1, OnGrid DEF FirstChunk, Chunk
<1>3. SUFFICES ASSUME NEW k \in Nat, (k + 1) * Chunk <= end
               PROVE  WithDigests[k] = Part(file, k * Chunk, Chunk)
  BY DEF DigestsTrue, Chunk
<1>4. k * Chunk \in Nat /\ (k + 1) * Chunk = k * Chunk + Chunk
  BY <1>1, Z3
<1>5. k \in DOMAIN digests
  <2>1. k * Chunk < FileLen
    BY <1>1, <1>3, <1>4
  <2> QED BY <2>1, SlotForChunk
<1>6. WithDigests[k] = IF \E d \in new : d.chunk = k THEN (CHOOSE d \in new : d.chunk = k).digest
                       ELSE digests[k]
  BY <1>5 DEF WithDigests
<1>7. ASSUME NEW d \in Ahead PROVE d.chunk # k
  <2>1. d.chunk = end \div Chunk
    BY <1>7 DEF Ahead, Chunk
  <2>2. k + 1 \in Nat
    OBVIOUS
  <2> HIDE DEF end
  <2>3. k + 1 <= end \div Chunk
    BY <1>1, <1>3, <2>2, UnitsBelow
  <2>4. end \div Chunk \in Nat
    BY <1>1, DivMod
  <2> QED BY <2>1, <2>3, <2>4
<1>8. ASSUME NEW m \in 0 .. filled \div Chunk - 1, FirstChunk + m = k
      PROVE  Window(m * Chunk) = Part(file, k * Chunk, Chunk)
  <2>1. filled \div Chunk \in Nat
    BY <1>1, DivMod
  <2>2. m \in Nat /\ m + 1 \in Nat /\ m + 1 <= filled \div Chunk
    BY <2>1
  <2>3. (m + 1) * Chunk <= filled
    BY <1>1, <2>2, UnitsBelow
  <2>4. m * Chunk \in Nat /\ (m + 1) * Chunk = m * Chunk + Chunk
    BY <1>1, <2>2, Z3
  <2>5. (FirstChunk + m) * Chunk = Chunk * FirstChunk + m * Chunk
    BY <1>1, <1>2, <2>2, Z3
  <2>6. k * Chunk = blockStart + m * Chunk
    BY <1>2, <1>8, <2>5
  <2> DEFINE q == m * Chunk
  <2>7. q \in Nat /\ q + Chunk <= filled
    BY <2>3, <2>4
  <2> HIDE DEF q
  <2>8. Window(q) = Part(file, blockStart + q, Chunk)
    BY <2>7, WindowIs
  <2> QED BY <2>6, <2>8 DEF q
<1>9. ASSUME NEW d \in new, d.chunk = k PROVE d.digest = Part(file, k * Chunk, Chunk)
  <2>1. d \in own
    BY <1>7, <1>9
  <2>2. PICK m \in 0 .. filled \div Chunk - 1 : d = [chunk |-> FirstChunk + m, digest |-> Window(m * Chunk)]
    BY <2>1 DEF Chunk
  <2>3. FirstChunk + m = k /\ d.digest = Window(m * Chunk)
    BY <1>9, <2>2
  <2> QED BY <1>8, <2>3
<1>10. CASE \E d \in new : d.chunk = k
  <2> DEFINE x == CHOOSE d \in new : d.chunk = k
  <2> HIDE DEF new
  <2>1. x \in new /\ x.chunk = k
    BY <1>10
  <2>2. WithDigests[k] = x.digest
    BY <1>6, <1>10
  <2> HIDE DEF x
  <2> QED BY <1>9, <2>1, <2>2
<1>11. CASE ~ \E d \in new : d.chunk = k
  <2>1. k < FirstChunk
    <3>1. SUFFICES ASSUME k >= FirstChunk PROVE FALSE
      BY <1>2
    <3> DEFINE m == k - FirstChunk
    <3>2. m \in Nat /\ m + 1 \in Nat /\ FirstChunk + m = k
      BY <1>2, <3>1
    <3>3. (FirstChunk + m) * Chunk = Chunk * FirstChunk + m * Chunk
      <4> HIDE DEF m
      <4> QED BY <1>1, <1>2, <3>2, Z3
    <3>4. m * Chunk \in Nat /\ (m + 1) * Chunk = m * Chunk + Chunk
      <4> HIDE DEF m
      <4> QED BY <1>1, <3>2, Z3
    <3>5. (m + 1) * Chunk <= filled
      <4> DEFINE a == m * Chunk
      <4>1. a \in Nat /\ k * Chunk = blockStart + a
        BY <1>2, <3>2, <3>3, <3>4
      <4>2. a + Chunk <= filled
        <5> HIDE DEF a, m
        <5> QED BY <1>1, <1>3, <1>4, <4>1
      <4> QED BY <3>4, <4>2
    <3> HIDE DEF m
    <3>6. m + 1 <= filled \div Chunk
      BY <1>1, <3>2, <3>5, UnitsBelow
    <3>7. filled \div Chunk \in Nat
      BY <1>1, DivMod
    <3>8. m \in 0 .. filled \div opt.l - 1
      BY <3>2, <3>6, <3>7 DEF Chunk
    <3>9. [chunk |-> FirstChunk + m, digest |-> Window(m * opt.l)] \in new
      BY <3>8
    <3> HIDE DEF new
    <3> QED BY <1>11, <3>2, <3>9
  <2>2. (k + 1) * Chunk <= blockStart
    <3>1. k + 1 <= FirstChunk /\ k + 1 \in Nat
      BY <1>2, <2>1
    <3>2. (k + 1) * Chunk <= FirstChunk * Chunk /\ FirstChunk * Chunk = Chunk * FirstChunk
      BY <1>1, <1>2, <3>1, Z3
    <3> QED BY <1>2, <3>2
  <2>3. digests[k] = Part(file, k * Chunk, Chunk)
    BY <2>2 DEF DigestsTrue, Chunk
  <2> HIDE DEF new
  <2> QED BY <1>6, <1>11, <2>3
<1> QED BY <1>10, <1>11

-----------------------------------------------------------------------------
LEMMA GridFirst == Init => GridInv
<1> SUFFICES ASSUME Init PROVE GridInv
  OBVIOUS
<1>1. RingInv
  BY RingFirst
<1>2. Chunk \in Nat \ {0}
  BY <1>1, LengthTyped
<1>3. pc = "begin" /\ grid = <<>> /\ blockStart = 0 /\ digests = [k \in 0 .. Slots - 1 |-> <<>>]
  BY DEF Init
<1>4. DigestsTrue(digests, file, opt, 0)
  <2>1. ASSUME NEW k \in Nat PROVE ~ ((k + 1) * Chunk <= 0)
    <3>1. (k + 1) * Chunk = k * Chunk + Chunk /\ k * Chunk \in Nat
      BY <1>2, Z3
    <3> QED BY <1>2, <3>1
  <2> QED BY <2>1 DEF DigestsTrue, Chunk
<1>5. DigestBound = 0
  BY <1>3 DEF DigestBound
<1>6. pc \notin GridAt
  BY <1>3 DEF GridAt, TableAt
<1>7. GridTyped
  BY <1>3 DEF GridTyped
<1> QED BY <1>3, <1>4, <1>5, <1>6, <1>7 DEF GridInv

-----------------------------------------------------------------------------
(* It stays so: blocks are prepared before they are searched.               *)
GridKnown == {"begin", "next", "prepare"} \cup GridAt

LEMMA GridStays ==
  ASSUME GridInv, UNCHANGED <<file, opt, digests, grid>>, pc' # "begin",
         HasTable(opt) /\ pc' \in GridKnown => pc \in GridKnown /\ DigestBound' = DigestBound,
         HasTable(opt) /\ pc' \in GridAt => pc \in GridAt /\ blockStart' = blockStart
  PROVE  GridInv'
<1>1. GridTyped' /\ Slots' = Slots /\ Chunk' = Chunk /\ compareDigests' = compareDigests
      /\ HasTable(opt)' = HasTable(opt) /\ GridAt' = GridAt
  BY DEF GridInv, GridTyped, GridSet, Slots, Chunk, compareDigests, HasTable
<1>2. (DOMAIN digests = 0 .. Slots - 1)'
  BY <1>1 DEF GridInv
<1>3. ASSUME HasTable(opt), grid' = <<>>, pc' \in GridKnown
      PROVE  /\ pc' \in GridAt => (blockStart % Chunk = 0)'
             /\ compareDigests' => DigestsTrue(digests, file, opt, DigestBound)'
  <2>1. pc \in GridKnown /\ grid = <<>> /\ DigestBound' = DigestBound
    BY <1>3
  <2>2. compareDigests => DigestsTrue(digests, file, opt, DigestBound)
    BY <1>3, <2>1 DEF GridInv, GridKnown
  <2>3. DigestsTrue(digests, file, opt, DigestBound)' = DigestsTrue(digests, file, opt, DigestBound)
    BY <2>1
  <2>4. pc' \in GridAt => blockStart % Chunk = 0 /\ blockStart' = blockStart
    BY <1>3, <2>1 DEF GridInv, GridKnown
  <2> QED BY <1>1, <2>2, <2>3, <2>4
<1> QED BY <1>1, <1>2, <1>3 DEF GridInv, GridKnown

LEMMA GridPrepare ==
  ASSUME RingInv, GridInv, PrepareBuffer
  PROVE  GridInv'
<1>1. /\ pc = "prepare" /\ HasTable(opt) /\ pc' = "inmem" /\ UNCHANGED <<file, opt, blockStart, filled>>
      /\ grid' = IF anyShifted \/ blockStart % opt.l # 0
                   THEN Append(grid, [chunk |-> FirstChunk, start |-> blockStart]) ELSE grid
      /\ digests' = IF compareDigests THEN WithDigests ELSE digests
  BY DEF PrepareBuffer, inputVars, ringVars
<1>2. Busy
  BY <1>1 DEF Busy, BusyAt
<1>3. Slots' = Slots /\ Chunk' = Chunk /\ compareDigests' = compareDigests
  BY <1>1 DEF Slots, Chunk, compareDigests
<1>4. blockStart \in Nat /\ Chunk \in Nat \ {0}
  BY <1>2, LengthTyped, BlockTyped
<1>5a. [chunk |-> FirstChunk, start |-> blockStart] \in GridSet
  <2>1. FirstChunk \in Nat
    BY <1>4, DivMod DEF FirstChunk, Chunk
  <2> QED BY <1>4, <2>1 DEF GridSet
<1>5. GridTyped'
  <2> DEFINE g == [chunk |-> FirstChunk, start |-> blockStart]
  <2>3. g \in GridSet
    BY <1>5a
  <2> HIDE DEF g
  <2>4. grid \in Seq(GridSet)
    BY DEF GridInv, GridTyped
  <2>5. Append(grid, g) \in Seq(GridSet)
    BY <2>3, <2>4
  <2>6. grid' = grid \/ grid' = Append(grid, g)
    BY <1>1 DEF g
  <2>7. grid' \in Seq(GridSet)
    BY <2>4, <2>5, <2>6
  <2> QED BY <2>7 DEF GridTyped, GridSet
<1>6. (DOMAIN digests = 0 .. Slots - 1)'
  <2>1. DOMAIN digests' = DOMAIN digests
    BY <1>1 DEF WithDigests
  <2> QED BY <1>3, <2>1 DEF GridInv
<1>7. ASSUME grid' = <<>> PROVE grid = <<>> /\ blockStart % Chunk = 0
  <2>1. grid \in Seq(GridSet)
    BY DEF GridInv, GridTyped
  <2> DEFINE g == [chunk |-> FirstChunk, start |-> blockStart]
  <2>a. g \in GridSet
    BY <1>5a
  <2> HIDE DEF g
  <2>b. Append(grid, g) # <<>>
    <3>1. Len(Append(grid, g)) = Len(grid) + 1 /\ Len(grid) \in Nat
      BY <2>1, <2>a
    <3>2. Len(<<>>) = 0
      OBVIOUS
    <3> QED BY <3>1, <3>2
  <2>3. ~ (anyShifted \/ blockStart % opt.l # 0)
    BY <1>1, <1>7, <2>b DEF g
  <2> QED BY <2>3 DEF anyShifted, Chunk
<1>8. DigestBound' = blockStart + filled /\ DigestBound = blockStart
  BY <1>1 DEF DigestBound
<1>9. ASSUME grid' = <<>>, compareDigests PROVE DigestsTrue(digests', file', opt', DigestBound')
  <2>1. DigestsTrue(digests, file, opt, blockStart)
    BY <1>1, <1>7, <1>8, <1>9 DEF GridInv
  <2>2. digests' = WithDigests
    BY <1>1, <1>9
  <2>3. DOMAIN digests = 0 .. Slots - 1
    BY DEF GridInv
  <2>4. DigestsTrue(WithDigests, file, opt, blockStart + filled)
    BY <1>1, <1>2, <1>7, <1>9, <2>1, <2>3, DigestsPrepared
  <2> QED BY <1>1, <1>8, <2>2, <2>4
<1> QED BY <1>1, <1>3, <1>5, <1>6, <1>7, <1>9 DEF GridInv

LEMMA FixedKeepsGrid ==
  ASSUME FixedNext, ~ PrepareBuffer
  PROVE  UNCHANGED <<digests, grid>>
BY DEF FixedNext, BeginScan, FirstWindow, BeginChunk, EndScan, SpliceInput, NotReached, HashWindows,
       Probe, EndProbe, EndChunk, tableVars

LEMMA GridNext == RingInv /\ KindInv /\ GridInv /\ [Next]_vars => GridInv'
<1> SUFFICES ASSUME RingInv, KindInv, GridInv, [Next]_vars PROVE GridInv'
  OBVIOUS
<1> USE DEF GridKnown, GridAt, TableAt
<1>1. CASE ReadFirst
  <2>1. /\ pc = "begin" /\ pc' = "next" /\ UNCHANGED <<file, opt, blockStart, digests, grid>>
    BY <1>1 DEF ReadFirst, inputVars, finderVars
  <2>2. DigestBound = blockStart /\ DigestBound' = blockStart
    BY <2>1 DEF DigestBound
  <2> QED BY <2>1, <2>2, GridStays
<1>2. CASE ReadAhead
  <2>1. /\ pc = "next" /\ pc' = (IF opt.kind = "inmem" THEN "inmem" ELSE "prepare")
        /\ UNCHANGED <<file, opt, blockStart, digests, grid>>
    BY <1>2 DEF ReadAhead, inputVars, tableVars
  <2>2. HasTable(opt) => pc' = "prepare"
    BY <2>1 DEF HasTable
  <2>3. DigestBound = blockStart /\ (pc' = "prepare" => DigestBound' = blockStart)
    BY <2>1 DEF DigestBound
  <2> QED BY <2>1, <2>2, <2>3, GridStays
<1>3. CASE WriteBlock
  <2>1. /\ pc = "write" /\ pc' \in {"next", "failed"} /\ blockStart' = blockStart + filled
        /\ UNCHANGED <<file, opt, digests, grid>>
    BY <1>3 DEF WriteBlock, inputVars, finderVars
  <2>2. DigestBound = blockStart + filled /\ (pc' = "next" => DigestBound' = blockStart + filled)
    BY <2>1 DEF DigestBound
  <2> QED BY <2>1, <2>2, GridStays
<1>4. CASE Finish
  <2>1. pc' = "done" /\ UNCHANGED <<file, opt, digests, grid>>
    BY <1>4 DEF Finish, inputVars, finderVars
  <2> QED BY <2>1, GridStays
<1>5. CASE EndInmem \/ ((BeginInmem \/ TakeWindow \/ PassWindow) /\ UNCHANGED <<tableVars, scanVars, cdcVars, out>>)
  <2>1. /\ pc \in {"inmem", "dict"} /\ pc' \in {"dict", "write", "first"}
        /\ UNCHANGED <<file, opt, blockStart, filled, digests, grid>>
    BY <1>5 DEF EndInmem, BeginInmem, TakeWindow, PassWindow, inputVars, ringVars, tableVars
  <2>2. DigestBound = blockStart + filled /\ DigestBound' = blockStart + filled
    BY <2>1 DEF DigestBound
  <2> QED BY <2>1, <2>2, GridStays
<1>6. CASE FixedNext /\ UNCHANGED <<hasharr, windows, cdcVars, out>>
  <2>1. CASE PrepareBuffer
    BY <2>1, GridPrepare
  <2>2. CASE ~ PrepareBuffer
    <3>1. pc \in TableAt /\ pc' \in TableAt \cup {"write", "failed"}
      BY <1>6, <2>2, FixedStages
    <3>2. UNCHANGED <<file, opt, blockStart, filled>>
      BY <1>6, FixedIsBusy DEF BusyStep, ringVars
    <3>3. UNCHANGED <<digests, grid>>
      BY <1>6, <2>2, FixedKeepsGrid
    <3>4. DigestBound = blockStart + filled /\ DigestBound' = blockStart + filled
      BY <3>1, <3>2 DEF DigestBound
    <3> QED BY <3>1, <3>2, <3>3, <3>4, GridStays
  <2> QED BY <2>1, <2>2
<1>7. CASE CdcNext /\ UNCHANGED <<hasharr, windows, tableVars, scanVars, out>>
  <2>1. UNCHANGED <<file, opt, digests, grid>>
    BY <1>7, CdcIsBusy DEF BusyStep, tableVars
  <2>2. ~ HasTable(opt)
    <3>1. BeginCdc \/ pc \in CdcAt
      BY <1>7, CdcStages
    <3>2. IsCdc(opt)
      BY <3>1 DEF BeginCdc, KindInv
    <3> QED BY <3>2 DEF IsCdc, HasTable
  <2>3. pc' \in CdcAt \cup {"write", "failed"}
    BY <1>7, CdcStages
  <2>4. pc' # "begin"
    BY <2>3 DEF CdcAt
  <2> QED BY <2>1, <2>2, <2>4, GridStays
<1>8. CASE Stopped \/ UNCHANGED vars
  <2>1. UNCHANGED <<file, opt, pc, blockStart, filled, digests, grid>>
    BY <1>8 DEF Stopped, vars, inputVars, ringVars, finderVars
  <2>2. GridTyped' /\ Slots' = Slots /\ Chunk' = Chunk /\ compareDigests' = compareDigests
        /\ HasTable(opt)' = HasTable(opt) /\ DigestBound' = DigestBound
    BY <2>1 DEF GridInv, GridTyped, GridSet, Slots, Chunk, compareDigests, HasTable, DigestBound
  <2> QED BY <2>1, <2>2 DEF GridInv
<1> QED BY <1>1, <1>2, <1>3, <1>4, <1>5, <1>6, <1>7, <1>8 DEF Next, Find

-----------------------------------------------------------------------------
(* Content-defined chunks: the cuts are ahead of the cursor, and the starts *)
(* that are kept behind it.                                                 *)
StartKnown == {"begin", "next", "prepare", "write"} \cup CdcAt

StartBound ==
  IF pc \in {"begin", "next", "prepare"} THEN blockStart
  ELSE IF pc = "write" THEN blockStart + filled ELSE blockStart + i

InStripe == i \in Nat /\ ptr \in Nat /\ i <= ptr /\ ptr <= filled

StartsBehind(s, b) == \A k \in 1 .. Len(s) : s[k] < b

CdcInv ==
  /\ pc \in CdcAt => InStripe
  /\ pc = "chunks" => marks \subseteq i + 1 .. ptr /\ (ptr = filled => filled \in marks \/ i = filled)
  /\ startarr \in Seq(Nat) /\ Len(startarr) < Most(Total, 1)
  /\ IsCdc(opt) /\ pc \in StartKnown => StartsBehind(startarr, StartBound)

LEMMA TotalTyped ==
  ASSUME RingInv
  PROVE  Total \in Nat
<1> DEFINE n == Most(FileLen, Chunk)
           whole == n \div Chunk
           d == IF whole > 1024 THEN 10 ELSE 1
<1>1. Chunk \in Nat \ {0} /\ FileLen \in Nat
  BY LengthTyped, OptionsTyped
<1>2. n \in Nat
  BY <1>1 DEF Most
<1>3. Total = whole + (whole \div d)
  BY DEF Total, FileLen, Chunk
<1> HIDE DEF n
<1>4. whole \in Nat
  BY <1>1, <1>2, DivMod
<1>5. d \in Nat \ {0}
  OBVIOUS
<1> HIDE DEF whole, d
<1>6. whole \div d \in Nat
  BY <1>4, <1>5, DivMod
<1> QED BY <1>3, <1>4, <1>6

LEMMA CdcFirst == Init => CdcInv
<1> SUFFICES ASSUME Init PROVE CdcInv
  OBVIOUS
<1>1. pc = "begin" /\ startarr = <<>>
  BY DEF Init
<1>2. Total \in Nat
  BY RingFirst, TotalTyped
<1>3. startarr \in Seq(Nat) /\ Len(startarr) = 0
  BY <1>1
<1>4. Len(startarr) < Most(Total, 1)
  BY <1>2, <1>3 DEF Most
<1>5. StartsBehind(startarr, StartBound)
  BY <1>3 DEF StartsBehind
<1> QED BY <1>1, <1>3, <1>4, <1>5 DEF CdcInv, CdcAt

LEMMA CdcStays ==
  ASSUME CdcInv, UNCHANGED <<file, opt, startarr>>, pc' \notin CdcAt,
         IsCdc(opt) /\ pc' \in StartKnown => pc \in StartKnown /\ StartBound' = StartBound
  PROVE  CdcInv'
<1>1. Total' = Total /\ IsCdc(opt)' = IsCdc(opt)
  BY DEF Total, IsCdc
<1>2. ASSUME IsCdc(opt), pc' \in StartKnown PROVE StartsBehind(startarr', StartBound')
  <2>1. StartsBehind(startarr, StartBound)
    BY <1>2 DEF CdcInv
  <2>2. startarr' = startarr /\ StartBound' = StartBound
    BY <1>2
  <2> QED BY <2>1, <2>2
<1>3. (startarr \in Seq(Nat) /\ Len(startarr) < Most(Total, 1))'
  BY <1>1 DEF CdcInv
<1>4. CdcAt' = CdcAt /\ StartKnown' = StartKnown
  BY DEF CdcAt, StartKnown
<1>5. pc' # "chunks"
  BY DEF CdcAt
<1>6. (IsCdc(opt) /\ pc \in StartKnown => StartsBehind(startarr, StartBound))'
  BY <1>1, <1>2, <1>4
<1> QED BY <1>3, <1>4, <1>5, <1>6 DEF CdcInv

(* What a chunk leaves of the starts. *)
LEMMA KeptIs ==
  ASSUME RingInv, CdcInv, pc = "chunks", blockStart + i \in Nat, IsCdc(opt)
  PROVE  /\ Kept \in Seq(Nat) /\ Len(Kept) < Most(Total, 1) /\ StartsBehind(Kept, blockStart + i + 1)
         /\ ~ Full => /\ Len(Kept) = Len(startarr) + 1
                      /\ \A k \in 1 .. Len(startarr) : Kept[k] = startarr[k] /\ Kept[k] < blockStart + i
<1> DEFINE b == blockStart + i
<1>1. Total \in Nat
  BY TotalTyped
<1>2. startarr \in Seq(Nat) /\ Len(startarr) < Most(Total, 1) /\ Len(startarr) \in Nat
  BY DEF CdcInv
<1>3. StartsBehind(startarr, b)
  <2>1. pc \in StartKnown /\ StartBound = b
    BY DEF StartKnown, CdcAt, StartBound
  <2> QED BY <2>1 DEF CdcInv
<1>4. b \in Nat
  OBVIOUS
<1> HIDE DEF b
<1>5. \A k \in 1 .. Len(startarr) : startarr[k] < b /\ startarr[k] \in Nat
  BY <1>2, <1>3 DEF StartsBehind
<1>6. CASE Full
  <2>1. Kept = startarr
    BY <1>6 DEF Kept
  <2>2. StartsBehind(startarr, b + 1)
    BY <1>4, <1>5 DEF StartsBehind
  <2> QED BY <1>2, <1>6, <2>1, <2>2 DEF b
<1>7. CASE ~ Full
  <2>1. Kept = Append(startarr, b)
    BY <1>7 DEF Kept, b
  <2>2. Len(startarr) + 1 < Total
    BY <1>1, <1>2, <1>7 DEF Full
  <2>3. Kept \in Seq(Nat) /\ Len(Kept) = Len(startarr) + 1 /\ Kept[Len(startarr) + 1] = b
        /\ \A k \in 1 .. Len(startarr) : Kept[k] = startarr[k]
    BY <1>2, <1>4, <2>1
  <2>4. Len(Kept) < Most(Total, 1)
    BY <1>1, <1>2, <2>2, <2>3 DEF Most
  <2>5. ASSUME NEW k \in 1 .. Len(Kept) PROVE Kept[k] < b + 1
    <3>1. k \in 1 .. Len(startarr) \/ k = Len(startarr) + 1
      BY <1>2, <2>3
    <3> QED BY <1>4, <1>5, <2>3, <3>1
  <2>6. StartsBehind(Kept, b + 1)
    BY <2>5 DEF StartsBehind
  <2>7. \A k \in 1 .. Len(startarr) : Kept[k] = startarr[k] /\ Kept[k] < b
    BY <1>5, <2>3
  <2> QED BY <2>3, <2>4, <2>6, <2>7 DEF b
<1> QED BY <1>6, <1>7

-----------------------------------------------------------------------------
(* The cuts of a stripe, one after the other.                               *)
LEMMA LeastInIs ==
  ASSUME NEW S \in SUBSET Nat, S # {}
  PROVE  LeastIn(S) \in S /\ \A q \in S : LeastIn(S) <= q
<1>1. \E p \in S : \A q \in S : p <= q
  BY LeastOf
<1> QED BY <1>1 DEF LeastIn

(* The cut at hand. *)
LEMMA ChunkEndIs ==
  ASSUME RingInv, CdcInv, pc = "chunks", marks # {}
  PROVE  /\ chunkEnd \in marks /\ chunkEnd \in Nat /\ i \in Nat /\ i < chunkEnd /\ chunkEnd <= ptr
         /\ ptr \in Nat /\ ptr <= filled /\ chunkLen \in Nat \ {0} /\ i + chunkLen = chunkEnd
         /\ \A q \in marks : q \in Nat /\ q <= ptr /\ chunkEnd <= q
<1>1. InStripe /\ marks \subseteq i + 1 .. ptr
  BY DEF CdcInv, CdcAt
<1>2. i \in Nat /\ ptr \in Nat /\ ptr <= filled
  BY <1>1 DEF InStripe
<1>3. marks \in SUBSET Nat
  BY <1>1, <1>2
<1>4. chunkEnd \in marks /\ \A q \in marks : chunkEnd <= q
  BY <1>3, LeastInIs DEF chunkEnd
<1> QED BY <1>1, <1>2, <1>3, <1>4 DEF chunkLen

LEMMA CdcChunk ==
  ASSUME RingInv, KindInv, CdcInv, TakeChunk \/ PassChunk
  PROVE  CdcInv'
<1>1. /\ pc = "chunks" /\ marks # {} /\ pc' \in {"chunks", "failed"} /\ i' = chunkEnd
      /\ marks' = marks \ {chunkEnd} /\ startarr' = Kept
      /\ UNCHANGED <<file, opt, blockStart, filled, ptr>>
  BY DEF TakeChunk, PassChunk, inputVars, ringVars
<1>2. IsCdc(opt) /\ Busy
  BY <1>1 DEF KindInv, CdcAt, Busy, BusyAt
<1>3. blockStart \in Nat /\ filled \in Nat
  BY <1>2, BlockTyped
<1>4. /\ chunkEnd \in marks /\ chunkEnd \in Nat /\ i \in Nat /\ i < chunkEnd /\ chunkEnd <= ptr
      /\ ptr \in Nat /\ ptr <= filled
      /\ \A q \in marks : q \in Nat /\ q <= ptr /\ chunkEnd <= q
  BY <1>1, ChunkEndIs
<1>5. InStripe'
  BY <1>1, <1>4 DEF InStripe
<1>6. (marks \subseteq i + 1 .. ptr)'
  BY <1>1, <1>4
<1>7. (ptr = filled => filled \in marks \/ i = filled)'
  <2>1. ptr = filled => filled \in marks \/ i = filled
    BY <1>1 DEF CdcInv
  <2>2. i # ptr
    BY <1>4
  <2> QED BY <1>1, <2>1, <2>2
<1>8. Kept \in Seq(Nat) /\ Len(Kept) < Most(Total, 1) /\ StartsBehind(Kept, blockStart + i + 1)
  <2>1. blockStart + i \in Nat
    BY <1>3, <1>4
  <2> QED BY <1>1, <1>2, <2>1, KeptIs
<1>9. Total' = Total
  BY <1>1 DEF Total
<1>10. (startarr \in Seq(Nat) /\ Len(startarr) < Most(Total, 1))'
  BY <1>1, <1>8, <1>9
<1>11. StartsBehind(Kept, blockStart + chunkEnd)
  <2> DEFINE s == Kept
             e == chunkEnd
  <2>1. \A k \in 1 .. Len(s) : s[k] < blockStart + i + 1 /\ s[k] \in Nat
    BY <1>8 DEF StartsBehind
  <2>2. e \in Nat /\ i < e /\ i \in Nat
    BY <1>4
  <2> HIDE DEF s, e
  <2>3. \A k \in 1 .. Len(s) : s[k] < blockStart + e
    BY <1>3, <2>1, <2>2
  <2>4. StartsBehind(s, blockStart + e)
    BY <2>3 DEF StartsBehind
  <2> QED BY <2>4 DEF s, e
<1>12. pc' \in StartKnown => StartBound' = blockStart + chunkEnd
  BY <1>1 DEF StartKnown, CdcAt, StartBound
<1>13. (IsCdc(opt) /\ pc \in StartKnown => StartsBehind(startarr, StartBound))'
  BY <1>1, <1>11, <1>12 DEF StartKnown, CdcAt
<1> QED BY <1>5, <1>6, <1>7, <1>10, <1>13 DEF CdcInv

LEMMA PendIs ==
  ASSUME filled \in Nat, ptr \in Nat, ptr < filled
  PROVE  pend \in Nat /\ ptr < pend /\ pend <= filled
<1>1. Stripe \in Nat \ {0}
  BY CdcAssumption
<1> QED BY <1>1 DEF pend

LEMMA CdcFind ==
  ASSUME RingInv, KindInv, CdcInv, FindChunks
  PROVE  CdcInv'
<1>1. /\ pc = "stripe" /\ ptr < filled /\ ptr' = pend /\ pc' = "chunks"
      /\ UNCHANGED <<file, opt, blockStart, filled, i, startarr>>
  BY DEF FindChunks, inputVars, ringVars
<1>2. PICK S \in SUBSET (ptr + 1 .. pend - 1) : marks' = S \cup (IF pend = filled THEN {filled} ELSE {})
  BY DEF FindChunks
<1>3. Busy /\ InStripe
  BY <1>1 DEF Busy, BusyAt, CdcInv, CdcAt
<1>4. blockStart \in Nat /\ filled \in Nat /\ i \in Nat /\ ptr \in Nat /\ i <= ptr
  BY <1>3, BlockTyped DEF InStripe
<1>5. pend \in Nat /\ ptr < pend /\ pend <= filled
  BY <1>1, <1>4, PendIs
<1>6. InStripe'
  BY <1>1, <1>4, <1>5 DEF InStripe
<1> DEFINE x == pend
<1>7. marks' \subseteq i + 1 .. x /\ (x = filled => filled \in marks')
  <2>1. x \in Nat /\ ptr < x /\ x <= filled /\ S \subseteq ptr + 1 .. x - 1
        /\ marks' = S \cup (IF x = filled THEN {filled} ELSE {})
    BY <1>2, <1>5
  <2> HIDE DEF x
  <2>2. S \subseteq i + 1 .. x
    BY <1>4, <2>1
  <2>3. x = filled => {filled} \subseteq i + 1 .. x
    BY <1>4, <2>1
  <2> QED BY <2>1, <2>2, <2>3
<1>8. (marks \subseteq i + 1 .. ptr /\ (ptr = filled => filled \in marks \/ i = filled))'
  BY <1>1, <1>7
<1>9. Total' = Total /\ IsCdc(opt)' = IsCdc(opt) /\ StartBound' = StartBound
  BY <1>1 DEF Total, IsCdc, StartBound
<1>10. IsCdc(opt) => StartsBehind(startarr, StartBound)
  BY <1>1 DEF CdcInv, StartKnown, CdcAt
<1>11. (IsCdc(opt) /\ pc \in StartKnown => StartsBehind(startarr, StartBound))'
  BY <1>1, <1>9, <1>10
<1> QED BY <1>1, <1>6, <1>8, <1>9, <1>11 DEF CdcInv

LEMMA CdcBegin ==
  ASSUME RingInv, KindInv, CdcInv, BeginCdc \/ EndStripe
  PROVE  CdcInv'
<1>1. UNCHANGED <<file, opt, blockStart, filled, startarr>>
  BY DEF BeginCdc, EndStripe, inputVars, ringVars, cdcVars
<1>2. Total' = Total /\ IsCdc(opt)' = IsCdc(opt)
  BY <1>1 DEF Total, IsCdc
<1>3. pc \in {"prepare", "chunks"} /\ pc' \in {"stripe", "write"} /\ Busy
  BY DEF BeginCdc, EndStripe, Busy, BusyAt
<1>4. blockStart \in Nat /\ filled \in Nat
  BY <1>3, BlockTyped
<1>5. InStripe' /\ StartBound' = StartBound
  <2>1. CASE BeginCdc
    <3>1. pc = "prepare" /\ pc' = "stripe" /\ i' = 0 /\ ptr' = 0
      BY <2>1 DEF BeginCdc
    <3>2. StartBound = blockStart /\ StartBound' = blockStart + 0
      BY <1>1, <3>1 DEF StartBound
    <3> QED BY <1>1, <1>4, <3>1, <3>2 DEF InStripe
  <2>2. CASE EndStripe
    <3>1. pc = "chunks" /\ marks = {} /\ pc' = (IF ptr < filled THEN "stripe" ELSE "write") /\ UNCHANGED <<i, ptr>>
      BY <2>2 DEF EndStripe, cdcVars
    <3>2. InStripe /\ (ptr = filled => filled \in marks \/ i = filled)
      BY <3>1 DEF CdcInv, CdcAt
    <3>3. pc' = "write" => i = filled
      BY <1>4, <3>1, <3>2 DEF InStripe
    <3>4. StartBound' = StartBound
      BY <1>1, <3>1, <3>3 DEF StartBound
    <3> QED BY <1>1, <3>1, <3>2, <3>4 DEF InStripe
  <2> QED BY <2>1, <2>2
<1>6. IsCdc(opt) => StartsBehind(startarr, StartBound)
  BY <1>3 DEF CdcInv, StartKnown, CdcAt
<1>7. (IsCdc(opt) /\ pc \in StartKnown => StartsBehind(startarr, StartBound))'
  BY <1>1, <1>2, <1>5, <1>6
<1>8. pc' # "chunks"
  BY <1>3
<1> QED BY <1>1, <1>2, <1>5, <1>7, <1>8 DEF CdcInv

LEMMA CdcNextInv == RingInv /\ KindInv /\ CdcInv /\ [Next]_vars => CdcInv'
<1> SUFFICES ASSUME RingInv, KindInv, CdcInv, [Next]_vars PROVE CdcInv'
  OBVIOUS
<1> USE DEF StartKnown, CdcAt
<1>1. CASE ReadFirst \/ ReadAhead
  <2>1. /\ pc \in {"begin", "next"} /\ pc' \in {"next", "prepare", "inmem"}
        /\ UNCHANGED <<file, opt, blockStart, startarr>>
    BY <1>1 DEF ReadFirst, ReadAhead, inputVars, finderVars, cdcVars
  <2>2. StartBound = blockStart /\ (pc' \in StartKnown => StartBound' = blockStart)
    BY <2>1 DEF StartBound
  <2>3. pc' \notin CdcAt /\ pc \in StartKnown
    BY <2>1
  <2> QED BY <2>1, <2>2, <2>3, CdcStays
<1>2. CASE WriteBlock
  <2>1. /\ pc = "write" /\ pc' \in {"next", "failed"} /\ blockStart' = blockStart + filled
        /\ UNCHANGED <<file, opt, startarr>>
    BY <1>2 DEF WriteBlock, inputVars, finderVars, cdcVars
  <2>2. StartBound = blockStart + filled /\ (pc' = "next" => StartBound' = blockStart + filled)
    BY <2>1 DEF StartBound
  <2>3. pc' \notin CdcAt /\ pc \in StartKnown
    BY <2>1
  <2> QED BY <2>1, <2>2, <2>3, CdcStays
<1>3. CASE Finish
  <2>1. pc' = "done" /\ UNCHANGED <<file, opt, startarr>>
    BY <1>3 DEF Finish, inputVars, finderVars, cdcVars
  <2>2. pc' \notin CdcAt /\ pc' \notin StartKnown
    BY <2>1
  <2> QED BY <2>1, <2>2, CdcStays
<1>4. CASE EndInmem \/ ((BeginInmem \/ TakeWindow \/ PassWindow) /\ UNCHANGED <<tableVars, scanVars, cdcVars, out>>)
  <2>1. /\ pc \in {"inmem", "dict"} /\ pc' \in {"dict", "write", "first"}
        /\ UNCHANGED <<file, opt, startarr>>
    BY <1>4 DEF EndInmem, BeginInmem, TakeWindow, PassWindow, inputVars, cdcVars
  <2>2. ~ IsCdc(opt)
    BY <2>1 DEF KindInv, IsCdc, HasTable
  <2>3. pc' \notin CdcAt
    BY <2>1
  <2> QED BY <2>1, <2>2, <2>3, CdcStays
<1>5. CASE FixedNext /\ UNCHANGED <<hasharr, windows, cdcVars, out>>
  <2>1. UNCHANGED <<file, opt, startarr>>
    BY <1>5, FixedIsBusy DEF BusyStep, cdcVars
  <2>2. HasTable(opt) /\ pc' \notin CdcAt
    <3>1. CASE PrepareBuffer
      BY <3>1 DEF PrepareBuffer
    <3>2. CASE ~ PrepareBuffer
      BY <1>5, <3>2, FixedStages DEF TableAt, KindInv
    <3> QED BY <3>1, <3>2
  <2>3. ~ IsCdc(opt)
    BY <2>2 DEF IsCdc, HasTable
  <2> QED BY <2>1, <2>2, <2>3, CdcStays
<1>6. CASE CdcNext /\ UNCHANGED <<hasharr, windows, tableVars, scanVars, out>>
  BY <1>6, CdcBegin, CdcFind, CdcChunk DEF CdcNext
<1>7. CASE Stopped \/ UNCHANGED vars
  <2>1. UNCHANGED <<file, opt, pc, blockStart, filled, i, startarr, ptr, marks>>
    BY <1>7 DEF Stopped, vars, inputVars, ringVars, finderVars
  <2>2. Total' = Total /\ IsCdc(opt)' = IsCdc(opt) /\ StartBound' = StartBound /\ InStripe' = InStripe
    BY <2>1 DEF Total, IsCdc, StartBound, InStripe
  <2> QED BY <2>1, <2>2 DEF CdcInv
<1> QED BY <1>1, <1>2, <1>3, <1>4, <1>5, <1>6, <1>7 DEF Next, Find

-----------------------------------------------------------------------------
(* The list of a block of which n bytes are behind the finder: its records *)
(* lead to place e, and what is between them and after them is literals.   *)
Listed(o, f, b, lits, recs, e, n) ==
  GoodList(o, f, b, recs, e) /\ e <= n /\ lits = LitCount(recs) + (n - e)

LEMMA ListedTyped ==
  ASSUME NEW o, Writable(o), NEW f, NEW b, NEW lits, NEW recs, NEW e, NEW n \in Nat,
         Listed(o, f, b, lits, recs, e, n)
  PROVE  e \in Nat /\ e <= n /\ lits \in 0 .. n /\ LitCount(recs) \in Nat
<1>1. e \in Nat /\ LitCount(recs) \in 0 .. e
  BY GoodListEnds DEF Listed
<1>2. e <= n /\ lits = LitCount(recs) + (n - e)
  BY DEF Listed
<1> QED BY <1>1, <1>2

LEMMA NothingListed ==
  ASSUME NEW o, Writable(o), NEW f, NEW b, NEW n \in Nat
  PROVE  Listed(o, f, b, n, <<>>, 0, n)
<1>1. GoodList(o, f, b, <<>>, 0) /\ LitCount(<<>>) = 0
  BY NoRecords
<1>2. 0 <= n /\ n = 0 + (n - 0)
  OBVIOUS
<1> QED BY <1>1, <1>2 DEF Listed

LEMMA ListGrows ==
  ASSUME NEW o, Writable(o), NEW f, NEW b, NEW lits, NEW recs, NEW e, NEW n \in Nat,
         Listed(o, f, b, lits, recs, e, n),
         NEW r \in RecordSet, Good(o, f, r, b + e), NEW m \in Nat, e + r.lit + Covered(o, r) <= m
  PROVE  Listed(o, f, b, lits + (m - n) - Covered(o, r), Append(recs, r), e + r.lit + Covered(o, r), m)
<1> DEFINE c == Covered(o, r)
           more == Append(recs, r)
<1>1. e \in Nat /\ LitCount(recs) \in Nat /\ lits = LitCount(recs) + (n - e)
  BY ListedTyped DEF Listed
<1>2. c \in Nat /\ r.lit \in Nat
  BY CoveredIsNat DEF RecordSet
<1>3. GoodList(o, f, b, recs, e)
  BY DEF Listed
<1>4. GoodList(o, f, b, more, e + r.lit + c) /\ LitCount(more) = LitCount(recs) + r.lit
  BY <1>3, GoodListGrows
<1>5. e + r.lit + c <= m
  OBVIOUS
<1> DEFINE k == LitCount(recs)
           x == r.lit
<1> HIDE DEF c, more, k, x
<1>6. lits + (m - n) - c = (k + x) + (m - (e + x + c))
  BY <1>1, <1>2 DEF k, x
<1>7. LitCount(more) = k + x
  BY <1>4 DEF k, x
<1>8. Listed(o, f, b, lits + (m - n) - c, more, e + x + c, m)
  BY <1>4, <1>5, <1>6, <1>7 DEF Listed, x
<1> QED BY <1>8 DEF c, more, x

LEMMA ListWaits ==
  ASSUME NEW o, Writable(o), NEW f, NEW b, NEW lits, NEW recs, NEW e, NEW n \in Nat,
         Listed(o, f, b, lits, recs, e, n), NEW m \in Nat, n <= m
  PROVE  Listed(o, f, b, lits + (m - n), recs, e, m)
<1>1. e \in Nat /\ LitCount(recs) \in Nat /\ lits = LitCount(recs) + (n - e) /\ e <= n
  BY ListedTyped DEF Listed
<1> DEFINE k == LitCount(recs)
<1> HIDE DEF k
<1>2. lits + (m - n) = k + (m - e) /\ e <= m
  BY <1>1 DEF k
<1> QED BY <1>2 DEF Listed, k

-----------------------------------------------------------------------------
(* The list of the table finders. *)
TableListed == Listed(opt, file, blockStart, literalBytes, stat, lastMatchEnd, filled)

LEMMA SoundRecord ==
  ASSUME RingInv, NEW r, Sound(r), lastMatchEnd \in Nat, blockStart \in Nat
  PROVE  LET rec == Record(r.at - lastMatchEnd, r.offset, r.len)
         IN  /\ rec \in RecordSet /\ rec.lit = r.at - lastMatchEnd
             /\ Good(opt, file, rec, blockStart + lastMatchEnd) /\ Covered(opt, rec) = r.len
             /\ r.at \in Nat /\ r.len \in Nat /\ lastMatchEnd <= r.at /\ r.at + r.len <= filled
             /\ Encodable(opt.base, r.len)
<1> DEFINE lit == r.at - lastMatchEnd
           rec == Record(lit, r.offset, r.len)
           m == Decoded(opt.round, opt.base, rec, blockStart + lastMatchEnd)
<1>1. /\ r.at \in Nat /\ r.len \in Nat /\ r.offset \in Nat
      /\ lastMatchEnd <= r.at /\ r.at + r.len <= filled /\ Base <= r.len
  BY DEF Sound
<1>2. Writable(opt)
  BY OptionsTyped
<1>3. lit \in Nat /\ r.len >= opt.base
  BY <1>1, <1>2 DEF Base, Writable
<1>4. rec \in RecordSet /\ rec.lit = lit
  <2> HIDE DEF lit
  <2> QED BY <1>1, <1>2, <1>3, WrittenIsRecord DEF Record
<1>5. ReadBack(r.offset, r, lit) = m
  <2>1. blockStart + r.at - lit = blockStart + lastMatchEnd
    BY <1>1
  <2> QED BY <2>1 DEF ReadBack
<1>6. LET z == ReadBack(r.offset, r, r.at - lastMatchEnd)
      IN  /\ z.dest = blockStart + r.at /\ z.len = r.len /\ z.src \in Int
          /\ 0 <= z.src /\ z.src < z.dest /\ Copy(file, z.src, z.dest, r.len)
  BY DEF Sound
<1>7. m.len = r.len /\ 0 <= m.src /\ m.src < m.dest /\ Copy(file, m.src, m.dest, m.len)
  <2> HIDE DEF m
  <2> QED BY <1>5, <1>6
<1>8. Good(opt, file, rec, blockStart + lastMatchEnd)
  BY <1>7 DEF Good
<1>9. Covered(opt, rec) = m.len
  <2> HIDE DEF rec
  <2> QED BY ReadElsewhere
<1> HIDE DEF m
<1>10. Encodable(opt.base, r.len)
  BY <1>3 DEF Encodable
<1> QED BY <1>1, <1>4, <1>7, <1>8, <1>9, <1>10

LEMMA EmitGood ==
  ASSUME RingInv, Busy, TableListed, NEW r, Sound(r), NEW next, Emit(r, next),
         UNCHANGED <<file, opt, blockStart, filled>>
  PROVE  /\ TableListed' /\ pc' = next /\ lastMatchEnd' \in Nat
         /\ lastMatchEnd' = r.at + r.len /\ lastMatchEnd' <= filled /\ lastMatchEnd <= lastMatchEnd'
         /\ r.at \in Nat /\ r.at <= lastMatchEnd'
<1> DEFINE lit == r.at - lastMatchEnd
           rec == Record(lit, r.offset, r.len)
<1>1. blockStart \in Nat /\ filled \in Nat /\ Writable(opt)
  BY BlockTyped, OptionsTyped
<1>2. lastMatchEnd \in Nat /\ lastMatchEnd <= filled /\ literalBytes \in Nat
  BY <1>1, ListedTyped DEF TableListed
<1>3. /\ rec \in RecordSet /\ rec.lit = lit
      /\ Good(opt, file, rec, blockStart + lastMatchEnd) /\ Covered(opt, rec) = r.len
      /\ r.at \in Nat /\ r.len \in Nat /\ lastMatchEnd <= r.at /\ r.at + r.len <= filled
      /\ Encodable(opt.base, r.len)
  BY <1>1, <1>2, SoundRecord
<1>4. /\ stat' = Append(stat, rec) /\ lastMatchEnd' = r.at + r.len
      /\ literalBytes' = literalBytes - r.len /\ pc' = next
  BY <1>3 DEF Emit
<1> HIDE DEF rec
<1>5. lastMatchEnd + rec.lit + Covered(opt, rec) = r.at + r.len
  BY <1>2, <1>3
<1>6. literalBytes + (filled - filled) - Covered(opt, rec) = literalBytes - r.len
  BY <1>1, <1>2, <1>3
<1>7. Listed(opt, file, blockStart, literalBytes, stat, lastMatchEnd, filled)
  BY DEF TableListed
<1>8. Listed(opt, file, blockStart, literalBytes + (filled - filled) - Covered(opt, rec), Append(stat, rec),
             lastMatchEnd + rec.lit + Covered(opt, rec), filled)
  <2>1. lastMatchEnd + rec.lit + Covered(opt, rec) <= filled
    BY <1>3, <1>5
  <2> QED BY <1>1, <1>3, <1>7, <2>1, ListGrows
<1>9. TableListed'
  BY <1>4, <1>5, <1>6, <1>8 DEF TableListed
<1>10. lastMatchEnd' \in Nat /\ lastMatchEnd' <= filled /\ lastMatchEnd <= lastMatchEnd' /\ r.at <= lastMatchEnd'
  <2>1. r.at + r.len \in Nat /\ r.at + r.len <= filled /\ lastMatchEnd <= r.at + r.len /\ r.at <= r.at + r.len
    BY <1>2, <1>3
  <2> QED BY <1>4, <2>1
<1> QED BY <1>3, <1>4, <1>9, <1>10

-----------------------------------------------------------------------------
(* A record that is no whole number of units, and the chunks of a block.    *)
PlainlyRead(o, lit, offset, len, anchor) ==
  LET r == Encoded(o.round, o.base, lit, offset, len)
      m == Decoded(o.round, o.base, r, anchor)
  IN  Covered(o, r) = len /\ m.dest = anchor + lit /\ m.src = anchor + lit - offset /\ m.len = len

LEMMA PlainReads ==
  ASSUME NEW o, Writable(o), ~ o.round, NEW lit \in Nat, NEW offset \in Nat, NEW len \in Nat,
         NEW anchor \in Nat, len >= o.base
  PROVE  PlainlyRead(o, lit, offset, len, anchor)
BY PlainComesBack DEF PlainlyRead

(* A record of a copy, without units. *)
LEMMA CopyRecord ==
  ASSUME NEW o, Writable(o), ~ o.round, NEW f, NEW lit \in Nat, NEW offset \in Nat, offset # 0,
         NEW len \in Nat, len >= o.base, NEW anchor \in Nat, offset <= anchor + lit,
         Copy(f, anchor + lit - offset, anchor + lit, len)
  PROVE  LET r == Encoded(o.round, o.base, lit, offset, len)
         IN  r \in RecordSet /\ r.lit = lit /\ Covered(o, r) = len /\ Good(o, f, r, anchor)
<1> DEFINE r == Encoded(o.round, o.base, lit, offset, len)
           m == Decoded(o.round, o.base, r, anchor)
<1>1. r \in RecordSet /\ r.lit = lit
  BY WrittenIsRecord
<1>2. Covered(o, r) = len /\ m.dest = anchor + lit /\ m.src = anchor + lit - offset /\ m.len = len
  <2>1. PlainlyRead(o, lit, offset, len, anchor)
    BY PlainReads
  <2> QED BY <2>1 DEF PlainlyRead
<1> HIDE DEF r, m
<1>3. 0 <= m.src /\ m.src < m.dest
  BY <1>2
<1>4. Good(o, f, r, anchor)
  BY <1>2, <1>3 DEF Good, m
<1> QED BY <1>1, <1>2, <1>4 DEF r

-----------------------------------------------------------------------------
CdcListed == Listed(opt, file, blockStart, literalBytes, stat, lastMatchEnd, i)

LEMMA CdcTyped ==
  ASSUME RingInv, IsCdc(opt)
  PROVE  ~ opt.round /\ opt.base \in Nat \ {0} /\ minMatch \in Nat /\ opt.base <= minMatch
<1>1. SettledOK(opt)
  BY DEF RingInv
<1>2. opt.base \in Nat \ {0} /\ opt.minMatch \in Nat /\ opt.base <= opt.minMatch /\ ~ opt.round
  BY <1>1 DEF SettledOK, IsCdc
<1>3. MinimalMatch \in Nat \ {0}
  BY CdcAssumption
<1> QED BY <1>2, <1>3 DEF minMatch, Most

LEMMA SameCopies ==
  ASSUME RingInv, KindInv, CdcInv, pc = "chunks", marks # {}, NEW k \in Same(chunkLen)
  PROVE  /\ Kept[k] \in Nat /\ Kept[k] < blockStart + i
         /\ Copy(file, Kept[k], blockStart + i, chunkLen)
<1>1. Busy /\ IsCdc(opt)
  BY DEF Busy, BusyAt, KindInv, CdcAt
<1>2. blockStart \in Nat /\ filled \in Nat
  BY <1>1, BlockTyped
<1>3. /\ chunkEnd \in Nat /\ i \in Nat /\ i < chunkEnd /\ chunkEnd <= filled
      /\ chunkLen \in Nat \ {0} /\ i + chunkLen = chunkEnd
  BY <1>2, ChunkEndIs
<1>4. /\ k \in 1 .. Len(Kept) - 1 /\ ~ Full
      /\ Part(file, Kept[k], chunkLen) = [n \in 1 .. chunkLen |-> InBlock(i + n - 1)]
  BY DEF Same
<1>5. /\ Kept \in Seq(Nat) /\ Len(Kept) = Len(startarr) + 1
      /\ \A j \in 1 .. Len(startarr) : Kept[j] = startarr[j] /\ Kept[j] < blockStart + i
  <2>1. blockStart + i \in Nat
    BY <1>2, <1>3
  <2> QED BY <1>1, <1>4, <2>1, KeptIs
<1>6. startarr \in Seq(Nat)
  BY DEF CdcInv
<1>7. k \in 1 .. Len(startarr) /\ k \in 1 .. Len(Kept)
  BY <1>4, <1>5, <1>6
<1>8. Kept[k] \in Nat /\ Kept[k] < blockStart + i
  BY <1>5, <1>7
<1> DEFINE src == Kept[k]
           len == chunkLen
<1>9. ASSUME NEW j \in 0 .. len - 1 PROVE ByteAt(file, src + j + 1) = ByteAt(file, blockStart + i + j + 1)
  <2>1. src \in Nat /\ len \in Nat /\ i + len <= filled
    BY <1>3, <1>8
  <2>2. Part(file, src, len) = [n \in 1 .. len |-> InBlock(i + n - 1)]
    BY <1>4
  <2> HIDE DEF src, len
  <2>3. j + 1 \in 1 .. len /\ j \in Nat
    BY <2>1
  <2>4. Part(file, src, len)[j + 1] = ByteAt(file, src + (j + 1))
    BY <2>3 DEF Part
  <2>5. Part(file, src, len)[j + 1] = InBlock(i + (j + 1) - 1)
    BY <2>2, <2>3
  <2>6. i + (j + 1) - 1 = i + j /\ i + j \in 0 .. filled - 1
    BY <1>2, <1>3, <2>1, <2>3
  <2> DEFINE q == i + j
  <2>7. q \in 0 .. filled - 1 /\ InBlock(q) = ByteAt(file, src + (j + 1))
    BY <2>4, <2>5, <2>6
  <2> HIDE DEF q
  <2>8. InBlock(q) = ByteAt(file, blockStart + q + 1)
    BY <1>1, <2>7, BlockBytes
  <2>9. blockStart + q + 1 = blockStart + i + j + 1 /\ src + (j + 1) = src + j + 1
    BY <1>2, <1>3, <2>1, <2>3 DEF q
  <2> QED BY <2>7, <2>8, <2>9
<1>10. Copy(file, src, blockStart + i, len)
  BY <1>9 DEF Copy
<1> QED BY <1>8, <1>10

LEMMA CdcTakes ==
  ASSUME RingInv, KindInv, CdcInv, CdcListed, TakeChunk
  PROVE  CdcListed' /\ pc' = "chunks"
<1>1. pc = "chunks" /\ marks # {} /\ chunkLen >= minMatch
  BY DEF TakeChunk
<1>2. PICK k \in Same(chunkLen) :
        /\ stat' = Append(stat, Record(i - lastMatchEnd, blockStart + i - Kept[k], chunkLen))
        /\ lastMatchEnd' = chunkEnd
  BY DEF TakeChunk
<1>3. /\ pc' = (IF Encodable(opt.base, chunkLen) THEN pc ELSE "failed") /\ i' = chunkEnd
      /\ UNCHANGED <<file, opt, blockStart, literalBytes>>
  BY DEF TakeChunk, inputVars, ringVars
<1>4. Busy /\ IsCdc(opt) /\ Writable(opt)
  BY <1>1, OptionsTyped DEF Busy, BusyAt, KindInv, CdcAt
<1>5. blockStart \in Nat /\ filled \in Nat
  BY <1>4, BlockTyped
<1>6. /\ chunkEnd \in Nat /\ i \in Nat /\ i < chunkEnd
      /\ chunkLen \in Nat \ {0} /\ i + chunkLen = chunkEnd
  BY <1>1, ChunkEndIs
<1>7. /\ Kept[k] \in Nat /\ Kept[k] < blockStart + i
      /\ Copy(file, Kept[k], blockStart + i, chunkLen)
  BY <1>1, SameCopies
<1>8. ~ opt.round /\ opt.base \in Nat /\ chunkLen >= opt.base
  BY <1>1, <1>4, <1>6, CdcTyped
<1>9. lastMatchEnd \in Nat /\ lastMatchEnd <= i /\ literalBytes \in Nat
  BY <1>4, <1>6, ListedTyped DEF CdcListed
<1> DEFINE lit == i - lastMatchEnd
           src == Kept[k]
           dest == blockStart + i
           offset == dest - src
           len == chunkLen
           anchor == blockStart + lastMatchEnd
           r == Encoded(opt.round, opt.base, lit, offset, len)
<1>10. /\ lit \in Nat /\ offset \in Nat \ {0} /\ len \in Nat /\ anchor \in Nat /\ dest \in Nat
       /\ dest = anchor + lit /\ offset <= dest /\ src = dest - offset
  BY <1>5, <1>6, <1>7, <1>9
<1>11. r \in RecordSet /\ r.lit = lit /\ Covered(opt, r) = len /\ Good(opt, file, r, anchor)
  <2>1. Copy(file, src, dest, len) /\ len >= opt.base
    BY <1>7, <1>8
  <2>2. anchor + lit = dest /\ anchor + lit - offset = src
    <3> HIDE DEF lit, src, dest, offset, len, anchor
    <3> QED BY <1>5, <1>6, <1>7, <1>10 DEF src
  <2>3. Copy(file, anchor + lit - offset, anchor + lit, len) /\ offset <= anchor + lit /\ offset \in Nat /\ offset # 0
    <3> HIDE DEF lit, src, dest, offset, len, anchor
    <3> QED BY <1>10, <2>1, <2>2
  <2> HIDE DEF lit, src, dest, offset, len, anchor
  <2> QED BY <1>4, <1>8, <1>10, <2>1, <2>3, CopyRecord
<1>12. stat' = Append(stat, r)
  <2>1. Record(lit, offset, len) = r
    BY DEF Record
  <2>0. blockStart + i - Kept[k] = offset
    BY <1>5, <1>6, <1>7
  <2>2. stat' = Append(stat, Record(lit, offset, len))
    <3>1. stat' = Append(stat, Record(lit, blockStart + i - Kept[k], len))
      BY <1>2
    <3> HIDE DEF offset
    <3> QED BY <2>0, <3>1
  <2> HIDE DEF r, lit, offset, len
  <2> QED BY <2>1, <2>2
<1> HIDE DEF r
<1>13. lastMatchEnd + r.lit + Covered(opt, r) = chunkEnd
  BY <1>6, <1>9, <1>11
<1>14. literalBytes + (chunkEnd - i) - Covered(opt, r) = literalBytes
  BY <1>6, <1>9, <1>11
<1>15. Listed(opt, file, blockStart, literalBytes, stat, lastMatchEnd, i)
  BY DEF CdcListed
<1>16. Listed(opt, file, blockStart, literalBytes + (chunkEnd - i) - Covered(opt, r), Append(stat, r),
              lastMatchEnd + r.lit + Covered(opt, r), chunkEnd)
  <2>1. lastMatchEnd + r.lit + Covered(opt, r) <= chunkEnd
    BY <1>6, <1>13
  <2> DEFINE e == chunkEnd
  <2>2. e \in Nat
    BY <1>6
  <2> HIDE DEF e
  <2> QED BY <1>4, <1>6, <1>11, <1>15, <2>1, <2>2, ListGrows DEF e
<1>17. CdcListed'
  BY <1>2, <1>3, <1>12, <1>13, <1>14, <1>16 DEF CdcListed
<1>18. pc' = "chunks"
  BY <1>1, <1>3, <1>8 DEF Encodable
<1> QED BY <1>17, <1>18

LEMMA CdcPasses ==
  ASSUME RingInv, KindInv, CdcInv, CdcListed, PassChunk
  PROVE  CdcListed' /\ pc' = "chunks"
<1>1. /\ pc = "chunks" /\ marks # {} /\ pc' = pc /\ i' = chunkEnd /\ literalBytes' = literalBytes + chunkLen
      /\ UNCHANGED <<file, opt, blockStart, stat, lastMatchEnd>>
  BY DEF PassChunk, inputVars, ringVars
<1>2. Writable(opt)
  BY OptionsTyped
<1>3. /\ chunkEnd \in Nat /\ i \in Nat /\ i < chunkEnd
      /\ chunkLen \in Nat \ {0} /\ i + chunkLen = chunkEnd
  BY <1>1, ChunkEndIs
<1> DEFINE e == chunkEnd
<1>4. e \in Nat /\ i <= e
  BY <1>3
<1>5. Listed(opt, file, blockStart, literalBytes, stat, lastMatchEnd, i)
  BY DEF CdcListed
<1>6. Listed(opt, file, blockStart, literalBytes + (e - i), stat, lastMatchEnd, e)
  <2> HIDE DEF e
  <2> QED BY <1>2, <1>3, <1>4, <1>5, ListWaits
<1>7. e - i = chunkLen
  BY <1>3
<1> QED BY <1>1, <1>6, <1>7 DEF CdcListed

-----------------------------------------------------------------------------
(* The list of the in-memory pass, in the terms of the block. *)
DictListed ==
  /\ stat = <<>> /\ (opt.dict = 0 => aux = <<>>)
  /\ Listed(opt, file, blockStart, literalBytes, aux, lastMatchEnd - bufOffset, filled)

LEMMA DictBegins ==
  ASSUME RingInv, BeginInmem
  PROVE  DictListed'
<1>1. /\ pc = "inmem" /\ lastMatchEnd' = bufOffset /\ literalBytes' = filled /\ aux' = <<>> /\ stat' = <<>>
      /\ UNCHANGED <<file, opt, blockStart, filled, bufOffset>>
  BY DEF BeginInmem, inputVars, ringVars
<1>2. Busy
  BY <1>1 DEF Busy, BusyAt
<1>3. filled \in Nat /\ bufOffset \in Nat /\ Writable(opt)
  BY <1>2, BlockTyped, BlockEndTyped, OptionsTyped
<1>4. Listed(opt, file, blockStart, filled, <<>>, 0, filled)
  BY <1>3, NothingListed
<1>5. lastMatchEnd' - bufOffset' = 0
  BY <1>1, <1>3
<1> QED BY <1>1, <1>4, <1>5 DEF DictListed

LEMMA DictTakes ==
  ASSUME RingInv, HashInv, DictListed, TakeWindow
  PROVE  DictListed'
<1>1. /\ pc = "dict" /\ windows # <<>> /\ Found
      /\ aux' = Append(aux, Encoded(FALSE, opt.base, MatchStart - lastMatchEnd, Distance, MatchEnd - MatchStart))
      /\ literalBytes' = literalBytes - (MatchEnd - MatchStart) /\ lastMatchEnd' = MatchEnd
      /\ UNCHANGED <<file, opt, blockStart, filled, bufOffset, stat>>
  BY DEF TakeWindow, inputVars, ringVars
<1>2. Busy
  BY <1>1 DEF Busy, BusyAt
<1>3. filled \in Nat /\ bufOffset \in Nat /\ blockStart \in Nat /\ blockEnd = bufOffset + filled /\ Writable(opt)
  BY <1>2, BlockTyped, BlockEndTyped, OptionsTyped
<1>4. /\ MatchStart \in lastMatchEnd .. at /\ MatchEnd \in at .. blockEnd
      /\ MatchEnd - MatchStart >= opt.dictMatch
      /\ Distance \in Nat \ {0} /\ blockStart + (MatchStart - bufOffset) - Distance \in Nat
      /\ Copy(file, blockStart + (MatchStart - bufOffset) - Distance,
              blockStart + (MatchStart - bufOffset), MatchEnd - MatchStart)
  BY <1>1, TakenWindow
<1>5. at \in Nat /\ opt.dict # 0 /\ opt.round = FALSE
  BY <1>1, WindowAt
<1>6. lastMatchEnd \in Nat /\ bufOffset <= lastMatchEnd
  BY <1>1 DEF HashInv, InDict
<1>7. opt.dictMatch \in Nat /\ opt.base \in Nat /\ opt.base <= opt.dictMatch
  BY DEF RingInv, SettledOK
<1> DEFINE e == lastMatchEnd - bufOffset
           from == MatchStart
           to == MatchEnd
           lit == from - lastMatchEnd
           len == to - from
           offset == Distance
           anchor == blockStart + e
           r == Encoded(opt.round, opt.base, lit, offset, len)
<1>8. from \in Nat /\ to \in Nat /\ lastMatchEnd <= from /\ from <= to /\ to <= bufOffset + filled
  BY <1>3, <1>4, <1>5, <1>6
<1>9. offset \in Nat /\ offset # 0 /\ blockStart + (from - bufOffset) - offset \in Nat
      /\ len >= opt.dictMatch /\ Copy(file, blockStart + (from - bufOffset) - offset, blockStart + (from - bufOffset), len)
  BY <1>4
<1> HIDE DEF from, to, offset
<1>10. /\ e \in Nat /\ lit \in Nat /\ len \in Nat /\ anchor \in Nat /\ len >= opt.base
       /\ e + lit + len = to - bufOffset /\ e + lit + len <= filled
  BY <1>3, <1>6, <1>7, <1>8, <1>9
<1>11. anchor + lit = blockStart + (from - bufOffset) /\ offset <= anchor + lit
       /\ anchor + lit - offset = blockStart + (from - bufOffset) - offset
  BY <1>3, <1>6, <1>8, <1>9
<1>12. Copy(file, anchor + lit - offset, anchor + lit, len)
  BY <1>9, <1>11
<1> HIDE DEF e, lit, len, anchor
<1>13. r \in RecordSet /\ r.lit = lit /\ Covered(opt, r) = len /\ Good(opt, file, r, anchor)
  BY <1>3, <1>5, <1>9, <1>10, <1>11, <1>12, CopyRecord
<1>14. aux' = Append(aux, r)
  BY <1>1, <1>5 DEF lit, len, from, to, offset
<1> HIDE DEF r
<1>15. Listed(opt, file, blockStart, literalBytes, aux, e, filled) /\ stat = <<>>
  BY DEF DictListed, e
<1>16. literalBytes \in Nat
  BY <1>3, <1>15, ListedTyped
<1>17. Good(opt, file, r, blockStart + e) /\ e + r.lit + Covered(opt, r) <= filled
  BY <1>10, <1>13 DEF anchor
<1>18. Listed(opt, file, blockStart, literalBytes + (filled - filled) - Covered(opt, r), Append(aux, r),
              e + r.lit + Covered(opt, r), filled)
  BY <1>3, <1>13, <1>15, <1>17, ListGrows
<1>19. literalBytes + (filled - filled) - Covered(opt, r) = literalBytes - len
  BY <1>3, <1>10, <1>13, <1>16
<1>20. e + r.lit + Covered(opt, r) = to - bufOffset
  BY <1>10, <1>13
<1>21. literalBytes' = literalBytes - len /\ lastMatchEnd' = to
  BY <1>1 DEF len, to, from
<1>22. Listed(opt, file, blockStart, literalBytes', aux', to - bufOffset, filled)
  BY <1>14, <1>18, <1>19, <1>20, <1>21
<1> QED BY <1>1, <1>5, <1>15, <1>21, <1>22 DEF DictListed

LEMMA DictPasses ==
  ASSUME DictListed, PassWindow
  PROVE  DictListed'
<1>1. UNCHANGED <<file, opt, blockStart, filled, bufOffset, stat, aux, literalBytes, lastMatchEnd>>
  BY DEF PassWindow, inputVars, ringVars
<1> QED BY <1>1 DEF DictListed

-----------------------------------------------------------------------------
(* What the scan takes from: a list of the block, and a match that it will *)
(* not come to.                                                            *)
Fenced ==
  \E lst : \E e \in Nat :
    /\ GoodList(opt, file, blockStart, lst, e) /\ e <= filled
    /\ lst # <<>> => ~ opt.round
    /\ aux = Append(lst, Fence)

LEMMA FenceIs ==
  ASSUME RingInv, filled \in Nat
  PROVE  Fence \in RecordSet /\ Fence.lit = filled + 1
<1>1. Writable(opt) /\ opt.base \in Nat
  BY OptionsTyped
<1>2. filled + 1 \in Nat /\ opt.base >= opt.base
  BY <1>1
<1> QED BY <1>1, <1>2, WrittenIsRecord DEF Fence

LEMMA DictEnds ==
  ASSUME RingInv, DictListed, EndInmem
  PROVE  /\ opt.kind = "inmem" =>
              pc' = "write" /\ \E e \in Nat : Listed(opt, file, blockStart, literalBytes, stat, e, filled)'
         /\ opt.kind # "inmem" => pc' = "first" /\ Fenced' /\ stat' = <<>>
<1>1. /\ pc = "dict"
      /\ IF opt.kind = "inmem" THEN pc' = "write" /\ stat' = aux /\ UNCHANGED aux
         ELSE pc' = "first" /\ aux' = Append(aux, Fence) /\ UNCHANGED stat
      /\ UNCHANGED <<file, opt, blockStart, filled, literalBytes>>
  BY DEF EndInmem, inputVars, ringVars
<1>2. Busy
  BY <1>1 DEF Busy, BusyAt
<1>3. filled \in Nat /\ Writable(opt)
  BY <1>2, BlockTyped, OptionsTyped
<1> DEFINE e == lastMatchEnd - bufOffset
<1>4. Listed(opt, file, blockStart, literalBytes, aux, e, filled) /\ stat = <<>> /\ (opt.dict = 0 => aux = <<>>)
  BY DEF DictListed
<1> HIDE DEF e
<1>5. e \in Nat /\ e <= filled
  BY <1>3, <1>4, ListedTyped
<1>6. CASE opt.kind = "inmem"
  <2>1. PICK x \in Nat : Listed(opt, file, blockStart, literalBytes, aux, x, filled)
    BY <1>4, <1>5
  <2>2. stat' = aux /\ pc' = "write"
    BY <1>1, <1>6
  <2>3. Listed(opt, file, blockStart, literalBytes, stat, x, filled)'
    BY <1>1, <2>1, <2>2
  <2> QED BY <1>6, <2>2, <2>3
<1>7. CASE opt.kind # "inmem"
  <2>1. pc' = "first" /\ aux' = Append(aux, Fence) /\ stat' = <<>>
    BY <1>1, <1>4, <1>7
  <2>2. Fence' = Fence
    BY <1>1 DEF Fence
  <2>3. opt.round => opt.dict = 0
    BY DEF RingInv, SettledOK
  <2>4. GoodList(opt, file, blockStart, aux, e) /\ (aux # <<>> => ~ opt.round)
    BY <1>4, <2>3 DEF Listed
  <2>5. Fenced'
    BY <1>1, <1>5, <2>1, <2>2, <2>4 DEF Fenced
  <2> QED BY <1>7, <2>1, <2>5
<1> QED BY <1>6, <1>7

-----------------------------------------------------------------------------
(* The list that is spliced in: each match of it a copy, but for the last.  *)
LEMMA DecodedTyped ==
  ASSUME NEW o, Writable(o), NEW r \in RecordSet, NEW anchor \in Nat
  PROVE  Decoded(o.round, o.base, r, anchor).src \in Int
<1> DEFINE u == Unit(o.round, o.base)
           d == anchor + r.lit
           m == Decoded(o.round, o.base, r, anchor)
<1>1. u \in Nat \ {0}
  BY DEF Writable, Unit
<1>2. r.lit \in Nat /\ r.off \in Nat
  BY DEF RecordSet
<1>3. m.src = (d \div u) * u - r.off * u
  BY DEF Decoded
<1>4. d \in Nat
  BY <1>2
<1> HIDE DEF u, d, m
<1>5. d \div u \in Nat
  BY <1>1, <1>4, DivMod
<1> DEFINE q == d \div u
<1> HIDE DEF q
<1>6. q \in Nat
  BY <1>5 DEF q
<1>7. q * u \in Int /\ r.off * u \in Int
  BY <1>1, <1>2, <1>6, Z3
<1>8. m.src \in Int
  BY <1>3, <1>7 DEF q
<1> QED BY <1>8 DEF m

(* Match k of the list that is spliced in. *)
InputAt(k) == NextInput(k, blockStart + EndsOf(opt, aux)[k - 1])

SplicedCopy(x) ==
  /\ x.len >= opt.base /\ x.start + x.len <= filled
  /\ x.offset \in Nat /\ x.offset # 0 /\ x.offset <= blockStart + x.start
  /\ Copy(file, blockStart + x.start - x.offset, blockStart + x.start, x.len)

LEMMA InputIs ==
  ASSUME RingInv, Busy, Fenced, NEW k \in 1 .. Len(aux)
  PROVE  /\ InputAt(k).start \in Nat /\ InputAt(k).len \in Nat
         /\ k = Len(aux) => InputAt(k).start > filled
         /\ k # Len(aux) => ~ opt.round /\ SplicedCopy(InputAt(k))
                            /\ InputAt(k).start + InputAt(k).len = EndsOf(opt, aux)[k]
<1>1. blockStart \in Nat /\ filled \in Nat /\ Writable(opt)
  BY BlockTyped, OptionsTyped
<1>2. PICK lst, e : /\ e \in Nat /\ GoodList(opt, file, blockStart, lst, e) /\ e <= filled
                    /\ lst # <<>> => ~ opt.round
                    /\ aux = Append(lst, Fence)
  BY DEF Fenced
<1> DEFINE n == Len(lst)
           end == EndsOf(opt, lst)
           a == end[k - 1]
           rec == aux[k]
           m == Decoded(opt.round, opt.base, rec, blockStart + a)
           x == InputAt(k)
<1>3. lst \in Seq(RecordSet) /\ n \in Nat
  BY <1>2 DEF GoodList
<1>4. Fence \in RecordSet /\ Fence.lit = filled + 1
  BY <1>1, FenceIs
<1>5. /\ Len(aux) = n + 1 /\ aux[n + 1] = Fence
      /\ \A j \in 1 .. n : aux[j] = lst[j]
      /\ \A j \in 0 .. n : EndsOf(opt, aux)[j] = end[j]
  BY <1>1, <1>2, <1>3, <1>4, OneMoreRecord
<1>6. /\ end \in [0 .. n -> Nat] /\ \A j \in 0 .. n : end[j] <= e
      /\ \A j \in 1 .. n : end[j] = end[j - 1] + lst[j].lit + Covered(opt, lst[j])
  BY <1>1, <1>2, GoodListEnds
<1> HIDE DEF n, end
<1>7. k \in Nat /\ k - 1 \in 0 .. n /\ (k # Len(aux) => k \in 1 .. n) /\ (k = Len(aux) => k = n + 1)
  BY <1>3, <1>5
<1>8. a \in Nat /\ EndsOf(opt, aux)[k - 1] = a
  BY <1>5, <1>6, <1>7
<1> HIDE DEF a
<1>9. rec \in RecordSet /\ rec.lit \in Nat
  <2>1. rec = Fence \/ (k \in 1 .. n /\ rec = lst[k])
    BY <1>5, <1>7
  <2>2. rec \in RecordSet
    BY <1>3, <1>4, <2>1 DEF n
  <2> QED BY <2>2 DEF RecordSet
<1> HIDE DEF rec
<1>10. /\ m.dest = blockStart + a + rec.lit /\ m.len = Covered(opt, rec) /\ m.src \in Int
       /\ m.len \in Nat /\ m.len >= opt.base
  <2>1. blockStart + a \in Nat
    BY <1>1, <1>8
  <2>2. m.dest = (blockStart + a) + rec.lit /\ m.len = Covered(opt, rec)
    <3> DEFINE anchor == blockStart + a
    <3> HIDE DEF anchor
    <3> QED BY ReadElsewhere DEF anchor
  <2>3. m.src \in Int
    BY <1>1, <1>9, <2>1, DecodedTyped
  <2>4. Covered(opt, rec) \in Nat /\ Covered(opt, rec) >= opt.base
    BY <1>1, <1>9, CoveredIsNat
  <2> QED BY <2>2, <2>3, <2>4
<1>11. x.start = m.dest - blockStart /\ x.len = m.len /\ x.offset = m.dest - m.src
  BY <1>8 DEF InputAt, NextInput, rec
<1> HIDE DEF m, x
<1>12. x.start = a + rec.lit /\ x.start \in Nat /\ x.len \in Nat
  BY <1>1, <1>8, <1>9, <1>10, <1>11
<1>13. k = Len(aux) => x.start > filled
  <2>1. SUFFICES ASSUME k = Len(aux) PROVE x.start > filled
    OBVIOUS
  <2>2. rec = Fence
    BY <1>5, <1>7, <2>1 DEF rec
  <2>3. rec.lit = filled + 1
    BY <1>4, <2>2
  <2> QED BY <1>1, <1>8, <1>12, <2>3
<1>14. ASSUME k # Len(aux) PROVE ~ opt.round /\ SplicedCopy(x) /\ x.start + x.len = EndsOf(opt, aux)[k]
  <2>1. k \in 1 .. n
    BY <1>7, <1>14
  <2>2. rec = lst[k] /\ EndsOf(opt, aux)[k] = end[k] /\ end[k] = a + rec.lit + Covered(opt, rec) /\ end[k] <= e
    <3>1. k \in 0 .. n
      BY <2>1
    <3>2. rec = lst[k]
      BY <1>5, <2>1 DEF rec
    <3> QED BY <1>5, <1>6, <2>1, <3>1, <3>2 DEF a
  <2>3. x.start + x.len = end[k] /\ end[k] <= filled
    <3>1. end[k] \in Nat
      BY <1>6, <1>7, <2>1
    <3> QED BY <1>1, <1>2, <1>8, <1>9, <1>10, <1>11, <1>12, <2>2, <3>1
  <2>4. Good(opt, file, rec, blockStart + a)
    BY <1>2, <2>1, <2>2 DEF GoodList, a, end, n
  <2>5. 0 <= m.src /\ m.src < m.dest /\ Copy(file, m.src, m.dest, m.len)
    BY <2>4 DEF Good, m
  <2>6. ~ opt.round
    <3>1. lst # <<>>
      BY <1>3, <2>1 DEF n
    <3> QED BY <1>2, <3>1
  <2>7. x.offset \in Nat /\ x.offset # 0 /\ x.offset <= blockStart + x.start
        /\ blockStart + x.start - x.offset = m.src /\ blockStart + x.start = m.dest
    <3>1. m.dest \in Int /\ m.src \in Int /\ blockStart \in Nat
      BY <1>1, <1>8, <1>9, <1>10
    <3>2. x.start \in Nat /\ x.start = m.dest - blockStart /\ x.offset = m.dest - m.src
      BY <1>11, <1>12
    <3>3. 0 <= m.src /\ m.src < m.dest
      BY <2>5
    <3>4. blockStart + x.start = m.dest
      BY <3>1, <3>2
    <3>5. x.offset \in Nat /\ x.offset # 0 /\ x.offset <= m.dest /\ m.dest - x.offset = m.src
      BY <3>1, <3>2, <3>3
    <3>6. blockStart + x.start - x.offset = m.dest - x.offset
      BY <3>1, <3>2, <3>4, <3>5
    <3> QED BY <3>4, <3>5, <3>6
  <2>8. Copy(file, blockStart + x.start - x.offset, blockStart + x.start, x.len)
    BY <1>11, <2>5, <2>7
  <2>9. x.start + x.len <= filled /\ x.len >= opt.base
    BY <1>10, <1>11, <2>3
  <2> QED BY <2>2, <2>3, <2>6, <2>7, <2>8, <2>9 DEF SplicedCopy
<1> QED BY <1>12, <1>13, <1>14 DEF x

(* What the last match leaves of a match that is spliced in. *)
LEMMA SpliceSound ==
  ASSUME RingInv, Busy, ~ opt.round, NEW x, SplicedCopy(x), x.start \in Nat, x.len \in Nat,
         lastMatchEnd \in Nat, x.start + x.len - opt.base >= lastMatchEnd,
         NEW from, from = Most(x.start, lastMatchEnd), NEW r, r.at = from,
         r.len = x.len - (from - x.start), r.offset = x.offset
  PROVE  Sound(r)
<1>1. blockStart \in Nat /\ filled \in Nat /\ opt.base \in Nat \ {0}
  BY BlockTyped, OptionsTyped
<1>2. /\ x.len >= opt.base /\ x.start + x.len <= filled
      /\ x.offset \in Nat /\ x.offset # 0 /\ x.offset <= blockStart + x.start
      /\ Copy(file, blockStart + x.start - x.offset, blockStart + x.start, x.len)
  BY DEF SplicedCopy
<1> DEFINE start == x.start
           whole == x.len
           off == x.offset
           rest == whole - (from - start)
           skip == from - start
           lit == from - lastMatchEnd
           m == ReadBack(off, r, lit)
<1>3. start \in Nat /\ whole \in Nat /\ off \in Nat /\ start + whole <= filled /\ off # 0
      /\ off <= blockStart + start /\ whole >= opt.base /\ start + whole - opt.base >= lastMatchEnd
  BY <1>2
<1>4. from \in Nat /\ start <= from /\ lastMatchEnd <= from /\ (from = start \/ from = lastMatchEnd)
  <2> HIDE DEF start
  <2> QED BY <1>3 DEF Most, start
<1> HIDE DEF start, whole, off
<1>5. /\ rest \in Nat /\ skip \in Nat /\ lit \in Nat /\ skip + rest <= whole /\ from + rest = start + whole
      /\ rest >= opt.base
  BY <1>1, <1>3, <1>4
<1>6. r.at = from /\ r.len = rest /\ r.offset = off
  BY DEF start, whole, off
<1> HIDE DEF rest, skip, lit
<1>7. m.dest = blockStart + r.at /\ m.len = r.len /\ m.src = DecodedFrom(r.at, off)
  <2>1. r.at \in Nat /\ r.len \in Nat
    BY <1>4, <1>5, <1>6
  <2> QED BY <1>1, <1>3, <1>5, <2>1, ReadBackIs
<1>8. DecodedFrom(r.at, off) = blockStart + from - off
  BY <1>1, <1>3, <1>4, <1>6, DecodedFromTyped
<1> HIDE DEF m
<1> DEFINE s == blockStart + start - off
           d == blockStart + start
<1>9. s \in Int /\ d \in Int /\ s + skip = blockStart + from - off /\ d + skip = blockStart + from
  BY <1>1, <1>3, <1>4 DEF skip
<1>10. Copy(file, s, d, whole)
  BY <1>2 DEF start, off, whole
<1> HIDE DEF s, d
<1>11. Copy(file, s + skip, d + skip, rest)
  BY <1>3, <1>5, <1>9, <1>10, CopyWithin
<1>12. m.src = s + skip /\ m.dest = d + skip /\ m.len = rest
  BY <1>6, <1>7, <1>8, <1>9
<1>13. m.src \in Int /\ 0 <= m.src /\ m.src < m.dest
  <2>1. m.src = blockStart + from - off /\ m.dest = blockStart + from
    BY <1>6, <1>7, <1>8
  <2> QED BY <1>1, <1>3, <1>4, <2>1
<1>14. /\ m.dest = blockStart + r.at /\ m.len = r.len /\ m.src \in Int
       /\ 0 <= m.src /\ m.src < m.dest /\ Copy(file, m.src, m.dest, r.len)
  BY <1>6, <1>7, <1>11, <1>12, <1>13
<1>15. /\ r.at \in Nat /\ r.len \in Nat /\ r.offset \in Nat
       /\ lastMatchEnd <= r.at /\ r.at + r.len <= filled /\ Base <= r.len
  BY <1>3, <1>4, <1>5, <1>6 DEF Base
<1>16. LET z == ReadBack(r.offset, r, r.at - lastMatchEnd)
       IN  /\ z.dest = blockStart + r.at /\ z.len = r.len /\ z.src \in Int
           /\ 0 <= z.src /\ z.src < z.dest /\ Copy(file, z.src, z.dest, r.len)
  BY <1>6, <1>14 DEF m, lit
<1> QED BY <1>15, <1>16 DEF Sound

-----------------------------------------------------------------------------
(* Where the scan is. *)
InChunk ==
  /\ i \in 0 .. filled - 1 /\ nextChunk \in Nat /\ Chunk <= nextChunk /\ nextChunk + Chunk <= filled
  /\ i >= nextChunk - Chunk \/ lastMatchEnd > nextChunk - Chunk

PairsAhead ==
  \A p \in pairs : p \in Nat /\ lastMatchEnd <= p /\ p <= filled - 1 /\ p > nextChunk - Chunk

Splicing == inAt \in Nat /\ inAt - 1 \in 1 .. Len(aux) /\ input = InputAt(inAt - 1)

ScanInv ==
  /\ pc = "window" => i = 0 /\ lastMatchEnd = 0 /\ 2 * Chunk <= filled
  /\ pc = "chunk" => i \in 0 .. filled - 1
  /\ pc \in {"scan", "hash", "probe"} => InChunk
  /\ pc = "hash" => i < nextChunk
  /\ pc = "probe" => PairsAhead
  /\ pc \in TableAt \ {"first"} => Splicing

(* The chunks in the table start before where the scan is. *)
InsertBound ==
  IF pc = "chunk" THEN blockStart + i + 1
  ELSE IF pc \in {"scan", "hash", "probe"} THEN blockStart + (nextChunk - Chunk) + 1
  ELSE IF pc = "write" THEN blockStart + filled
  ELSE blockStart

InsertInv ==
  /\ inserted # {} => HasTable(opt)
  /\ \A k \in inserted : k \in Nat /\ k # 0 /\ k * Chunk < FileLen /\ k * Chunk < InsertBound

ListInv ==
  /\ pc = "dict" => DictListed
  /\ pc \in TableAt => Fenced
  /\ pc = "first" => stat = <<>>
  /\ pc \in TableAt \ {"first"} => TableListed
  /\ pc \in CdcAt => CdcListed
  /\ pc = "write" => \E e \in Nat : Listed(opt, file, blockStart, literalBytes, stat, e, filled)
  /\ literalBytes \in 0 .. BlockSize /\ pc # "failed"

WorkInv == ScanInv /\ InsertInv /\ ListInv

-----------------------------------------------------------------------------
(* What a lookup finds is of use. *)
LEMMA LookupSound ==
  ASSUME RingInv, KindInv, GridInv, InsertInv, pc \in TableAt, NEW p \in 0 .. filled - 1,
         lastMatchEnd \in Nat, lastMatchEnd <= p, NEW k \in Lookup(p), k # NotFound,
         InsertBound <= blockStart + p, InsertBound \in Int, InsertBound + Chunk <= blockStart + filled + 1,
         RecordMatch(k, p).len > 0
  PROVE  Sound(RecordMatch(k, p))
<1>1. HasTable(opt) /\ Busy
  BY DEF KindInv, Busy, BusyAt, TableAt
<1>2. blockStart \in Nat /\ filled \in Nat /\ Chunk \in Nat \ {0}
  BY <1>1, BlockTyped, LengthTyped
<1>3. k \in inserted /\ (compareDigests => digests[k] = Window(p))
  BY DEF Lookup, FilteredOut
<1>4. k \in Nat /\ k * Chunk < InsertBound
  BY <1>3 DEF InsertInv
<1>5. k * Chunk \in Nat /\ (k + 1) * Chunk = k * Chunk + Chunk
  BY <1>2, <1>4, Z3
<1>6. k * Chunk < blockStart + p /\ (k + 1) * Chunk <= blockStart + filled
  BY <1>2, <1>4, <1>5
<1>7. pc \in GridAt /\ DigestBound = blockStart + filled
  BY DEF GridAt, DigestBound, TableAt
<1>8. ~ anyShifted /\ compareDigests =>
        blockStart % Chunk = 0 /\ DigestsTrue(digests, file, opt, blockStart + filled)
  BY <1>1, <1>7 DEF GridInv, anyShifted
<1>9. ChunkKnown(k, p) /\ GridTyped
  BY <1>3, <1>6, <1>8 DEF ChunkKnown, GridInv
<1> QED BY <1>1, <1>4, <1>6, <1>9, RecordMatchSound

(* A chunk that is put in the table. *)
LEMMA AddedChunk ==
  ASSUME RingInv, Busy, NEW p \in 0 .. filled - 1, AddHash(p), NEW k \in inserted', k \notin inserted
  PROVE  k \in Nat /\ k # 0 /\ k * Chunk <= blockStart + p /\ k * Chunk < FileLen
<1>1. blockStart \in Nat /\ filled \in Nat /\ blockStart + filled <= FileLen /\ FileLen \in Nat /\ Chunk \in Nat \ {0}
  BY BlockTyped, LengthTyped, OptionsTyped
<1>2. k = (blockStart + p) \div Chunk /\ k # 0
  BY DEF AddHash, NotFound, Chunk
<1> DEFINE b == blockStart + p
<1>3. b \in Nat /\ b < FileLen
  BY <1>1
<1> HIDE DEF b
<1>4. k \in Nat
  BY <1>1, <1>2, <1>3, DivMod DEF b
<1>5. k * Chunk \in Nat /\ k * Chunk <= b
  BY <1>1, <1>2, <1>3, <1>4, UnitsBelow DEF b
<1> DEFINE c == k * Chunk
<1>6. c \in Nat /\ c <= b
  BY <1>5
<1> HIDE DEF c
<1>7. c < FileLen
  BY <1>1, <1>3, <1>6
<1> QED BY <1>2, <1>4, <1>6, <1>7 DEF b, c

-----------------------------------------------------------------------------
(* What the steps of the scan keep.  Chunks are put in the table behind it. *)
LEMMA InsertStays ==
  ASSUME RingInv, InsertInv, UNCHANGED <<file, opt, inserted>>,
         InsertBound \in Int, InsertBound' \in Int, InsertBound <= InsertBound'
  PROVE  InsertInv'
<1>1. Chunk \in Nat
  BY LengthTyped
<1>2. Chunk' = Chunk /\ FileLen' = FileLen /\ HasTable(opt)' = HasTable(opt)
  BY DEF Chunk, FileLen, HasTable
<1>3. ASSUME NEW k \in inserted PROVE k \in Nat /\ k # 0 /\ k * Chunk < FileLen /\ k * Chunk < InsertBound'
  <2>1. k \in Nat /\ k # 0 /\ k * Chunk < FileLen /\ k * Chunk < InsertBound
    BY DEF InsertInv
  <2>2. k * Chunk \in Nat
    BY <1>1, <2>1, Z3
  <2> DEFINE c == k * Chunk
             b == InsertBound
  <2>3. c \in Nat /\ c < b /\ b \in Int /\ b <= InsertBound'
    BY <2>1, <2>2
  <2> HIDE DEF b, c
  <2>4. c < InsertBound'
    BY <2>3
  <2> QED BY <2>1, <2>4 DEF c
<1> QED BY <1>2, <1>3 DEF InsertInv

LEMMA InsertAdds ==
  ASSUME RingInv, Busy, HasTable(opt), InsertInv, NEW p \in 0 .. filled - 1, AddHash(p), UNCHANGED <<file, opt>>,
         InsertBound \in Int, InsertBound' \in Int, InsertBound <= InsertBound', blockStart + p < InsertBound'
  PROVE  InsertInv'
<1>1. Chunk \in Nat /\ blockStart \in Nat
  BY LengthTyped, BlockTyped
<1>2. Chunk' = Chunk /\ FileLen' = FileLen /\ HasTable(opt)' = HasTable(opt)
  BY DEF Chunk, FileLen, HasTable
<1>3. ASSUME NEW k \in inserted' PROVE k \in Nat /\ k # 0 /\ k * Chunk < FileLen /\ k * Chunk < InsertBound'
  <2> DEFINE c == k * Chunk
  <2>1. /\ k \in Nat /\ k # 0 /\ k * Chunk < FileLen
        /\ k * Chunk < InsertBound \/ k * Chunk <= blockStart + p
    BY <1>3, AddedChunk DEF InsertInv
  <2>2. c \in Nat
    BY <1>1, <2>1, Z3
  <2>3. c < InsertBound \/ c <= blockStart + p
    BY <2>1
  <2> HIDE DEF c
  <2>4. c < InsertBound'
    BY <1>1, <2>2, <2>3
  <2> QED BY <2>1, <2>4 DEF c
<1> QED BY <1>2, <1>3 DEF InsertInv

-----------------------------------------------------------------------------
SameBlock == UNCHANGED <<file, opt, blockStart, filled, bufOffset, ring, nextFilled>>

LEMMA TableTyped ==
  ASSUME RingInv, KindInv, pc \in TableAt
  PROVE  /\ Busy /\ HasTable(opt) /\ blockStart \in Nat /\ filled \in Nat \ {0} /\ Chunk \in Nat \ {0}
         /\ filled <= BlockSize /\ BlockSize \in Nat /\ Writable(opt)
<1>1. Busy /\ HasTable(opt)
  BY DEF KindInv, Busy, BusyAt, TableAt
<1> QED BY <1>1, BlockTyped, LengthTyped, OptionsTyped

LEMMA MatchEndTyped ==
  ASSUME RingInv, KindInv, TableListed, pc \in TableAt
  PROVE  lastMatchEnd \in Nat /\ lastMatchEnd <= filled /\ literalBytes \in 0 .. filled
BY TableTyped, ListedTyped DEF TableListed

LEMMA TableWork ==
  ASSUME RingInv, KindInv, pc \in TableAt, SameBlock, Fenced, UNCHANGED aux,
         pc' \in TableAt \ {"first"}, TableListed', ScanInv', InsertInv'
  PROVE  WorkInv'
<1>1. filled \in Nat /\ filled <= BlockSize /\ BlockSize \in Nat /\ Writable(opt)
  BY TableTyped
<1>2. Fenced'
  BY DEF Fenced, SameBlock, Fence
<1>3. BlockSize' = BlockSize /\ filled' = filled
  BY DEF SameBlock, BlockSize
<1>4. Listed(opt, file, blockStart, literalBytes', stat', lastMatchEnd', filled)
  BY DEF TableListed, SameBlock
<1>5. literalBytes' \in 0 .. filled
  BY <1>1, <1>4, ListedTyped
<1>6. (literalBytes \in 0 .. BlockSize)'
  BY <1>1, <1>3, <1>5
<1>7. ListInv'
  BY <1>2, <1>6 DEF ListInv, TableAt, CdcAt
<1> QED BY <1>7 DEF WorkInv

LEMMA WriteWork ==
  ASSUME RingInv, KindInv, pc \in TableAt, SameBlock, pc' = "write", TableListed', InsertInv'
  PROVE  WorkInv'
<1>1. filled \in Nat /\ filled <= BlockSize /\ BlockSize \in Nat /\ Writable(opt)
  BY TableTyped
<1>2. BlockSize' = BlockSize /\ filled' = filled
  BY DEF SameBlock, BlockSize
<1>3. PICK e : e = lastMatchEnd'
  OBVIOUS
<1>4. Listed(opt, file, blockStart, literalBytes', stat', e, filled)
  BY <1>3 DEF TableListed, SameBlock
<1>5. literalBytes' \in 0 .. filled /\ e \in Nat
  BY <1>1, <1>4, ListedTyped
<1>6. (literalBytes \in 0 .. BlockSize)'
  BY <1>1, <1>2, <1>5
<1>7. \E x \in Nat : Listed(opt, file, blockStart, literalBytes, stat, x, filled)'
  <2>1. Listed(opt, file, blockStart, literalBytes, stat, e, filled)'
    BY <1>4 DEF SameBlock
  <2> QED BY <1>5, <2>1
<1>8. ListInv'
  BY <1>6, <1>7 DEF ListInv, TableAt, CdcAt
<1>9. ScanInv'
  BY DEF ScanInv, TableAt
<1> QED BY <1>8, <1>9 DEF WorkInv

LEMMA SplicingStays ==
  ASSUME Splicing, SameBlock, UNCHANGED <<aux, input, inAt>>
  PROVE  Splicing'
BY DEF Splicing, SameBlock, InputAt, NextInput

-----------------------------------------------------------------------------
LEMMA WorkBeginScan ==
  ASSUME RingInv, KindInv, WorkInv, BeginScan
  PROVE  WorkInv'
<1>1. /\ pc = "first" /\ literalBytes' = filled /\ lastMatchEnd' = 0 /\ i' = 0
      /\ input' = NextInput(1, blockStart) /\ inAt' = 2
      /\ pc' = IF opt.l > filled \div 2 THEN "write" ELSE "window"
      /\ UNCHANGED <<aux, stat, inserted>> /\ SameBlock
  BY DEF BeginScan, SameBlock, inputVars, ringVars, tableVars
<1>2. pc \in TableAt /\ Fenced /\ stat = <<>>
  BY <1>1 DEF TableAt, WorkInv, ListInv
<1>3. /\ Busy /\ blockStart \in Nat /\ filled \in Nat \ {0} /\ Chunk \in Nat \ {0} /\ Writable(opt)
  BY <1>2, TableTyped
<1>4. Listed(opt, file, blockStart, filled, <<>>, 0, filled)
  BY <1>3, NothingListed
<1>5. TableListed'
  BY <1>1, <1>2, <1>4 DEF TableListed, SameBlock
<1>6. InsertInv'
  <2>1. InsertBound = blockStart /\ (InsertBound' = blockStart \/ InsertBound' = blockStart + filled)
    BY <1>1 DEF InsertBound, SameBlock
  <2>2. InsertBound \in Int /\ InsertBound' \in Int /\ InsertBound <= InsertBound'
    BY <1>3, <2>1
  <2>3. UNCHANGED <<file, opt, inserted>>
    BY <1>1 DEF SameBlock
  <2> QED BY <2>2, <2>3, InsertStays DEF WorkInv
<1>7. CASE pc' = "write"
  BY <1>1, <1>2, <1>5, <1>6, <1>7, WriteWork
<1>8. CASE pc' = "window"
  <2>1. 2 * Chunk <= filled
    <3>1. Chunk <= filled \div 2
      <4>1. filled \div 2 \in Nat
        BY <1>3, DivMod
      <4>2. ~ (Chunk > filled \div 2)
        BY <1>1, <1>8 DEF Chunk
      <4> QED BY <1>3, <4>1, <4>2
    <3>2. Chunk * 2 <= filled
      <4>1. 2 \in Nat \ {0} /\ filled \in Nat /\ Chunk \in Nat
        BY <1>3
      <4> QED BY <3>1, <4>1, UnitsBelow
    <3> QED BY <1>3, <3>2
  <2>2. Splicing'
    <3>1. Len(aux) \in Nat /\ Len(aux) >= 1
      <4>1. PICK lst, e : GoodList(opt, file, blockStart, lst, e) /\ aux = Append(lst, Fence)
        BY <1>2 DEF Fenced
      <4>2. lst \in Seq(RecordSet) /\ Fence \in RecordSet
        BY <1>3, <4>1, FenceIs DEF GoodList
      <4> QED BY <4>1, <4>2
    <3>2. EndsOf(opt, aux)[0] = 0
      <4>1. PICK lst, e : GoodList(opt, file, blockStart, lst, e) /\ aux = Append(lst, Fence)
        BY <1>2 DEF Fenced
      <4>2. lst \in Seq(RecordSet) /\ Fence \in RecordSet
        BY <1>3, <4>1, FenceIs DEF GoodList
      <4>3. aux \in Seq(RecordSet)
        BY <4>1, <4>2
      <4> QED BY <1>3, <4>3, EndsUnroll
    <3>3. NextInput(1, blockStart) = InputAt(1)
      <4>1. blockStart + EndsOf(opt, aux)[1 - 1] = blockStart
        BY <1>3, <3>2
      <4> QED BY <4>1 DEF InputAt
    <3>4. InputAt(1)' = InputAt(1)
      BY <1>1 DEF InputAt, NextInput, SameBlock
    <3>5. 2 \in Nat /\ 2 - 1 = 1 /\ 1 \in 1 .. Len(aux)
      BY <3>1
    <3>6. input' = InputAt(1)'
      BY <1>1, <3>3, <3>4
    <3>7. inAt' = 2 /\ aux' = aux
      BY <1>1
    <3>8. inAt' \in Nat /\ inAt' - 1 \in 1 .. Len(aux')
      BY <3>5, <3>7
    <3>9. input' = InputAt(inAt - 1)'
      BY <3>5, <3>6, <3>7
    <3> QED BY <3>8, <3>9 DEF Splicing
  <2>3. Chunk' = Chunk /\ filled' = filled
    BY <1>1 DEF SameBlock, Chunk
  <2>4. ScanInv'
    BY <1>1, <1>8, <2>1, <2>2, <2>3 DEF ScanInv
  <2>5. pc' \in TableAt \ {"first"}
    BY <1>8 DEF TableAt
  <2> QED BY <1>1, <1>2, <1>5, <1>6, <2>4, <2>5, TableWork
<1> QED BY <1>1, <1>7, <1>8

-----------------------------------------------------------------------------
(* Looking up, and the steps from window to window and chunk to chunk.      *)
LEMMA LookedUp ==
  ASSUME RingInv, KindInv, GridInv, InsertInv, TableListed, pc \in TableAt, SameBlock,
         NEW p \in 0 .. filled - 1, lastMatchEnd <= p, NEW k \in Lookup(p),
         InsertBound <= blockStart + p, InsertBound \in Int, InsertBound + Chunk <= blockStart + filled + 1,
         NEW next, NEW r, r = RecordMatch(k, p),
         IF k # NotFound /\ r.len > 0 THEN Emit(r, next) ELSE Skip(next)
  PROVE  TableListed' /\ pc' = next /\ lastMatchEnd' \in Nat /\ lastMatchEnd <= lastMatchEnd'
<1>1. lastMatchEnd \in Nat /\ Busy
  BY MatchEndTyped, TableTyped
<1>2. UNCHANGED <<file, opt, blockStart, filled>>
  BY DEF SameBlock
<1>3. CASE k # NotFound /\ r.len > 0
  <2>1. RecordMatch(k, p).len > 0 /\ k # NotFound
    BY <1>3
  <2>2. Sound(RecordMatch(k, p))
    BY <1>1, <2>1, LookupSound
  <2>3. Sound(r)
    BY <2>2
  <2>4. Emit(r, next)
    BY <1>3
  <2> QED BY <1>1, <1>2, <2>3, <2>4, EmitGood
<1>4. CASE ~ (k # NotFound /\ r.len > 0)
  <2>1. pc' = next /\ UNCHANGED listVars
    BY <1>4 DEF Skip
  <2> QED BY <1>1, <1>2, <2>1 DEF TableListed, listVars
<1> QED BY <1>3, <1>4

LEMMA WorkFirstWindow ==
  ASSUME RingInv, KindInv, GridInv, WorkInv, FirstWindow
  PROVE  WorkInv'
<1>1. pc = "window" /\ AddHash(0) /\ UNCHANGED <<aux, i, input, inAt>> /\ SameBlock
  BY DEF FirstWindow, SameBlock, inputVars, ringVars, scanVars
<1>2. PICK k \in Lookup(0) :
        LET r == RecordMatch(k, 0)
        IN  IF k # NotFound /\ r.len > 0 THEN Emit(r, "chunk") ELSE Skip("chunk")
  BY DEF FirstWindow
<1>3. pc \in TableAt /\ pc \in TableAt \ {"first"}
  BY <1>1 DEF TableAt
<1>4. /\ Fenced /\ TableListed /\ Splicing /\ InsertInv
      /\ i = 0 /\ lastMatchEnd = 0 /\ 2 * Chunk <= filled
  BY <1>1, <1>3 DEF WorkInv, ListInv, ScanInv
<1>5. /\ Busy /\ HasTable(opt) /\ blockStart \in Nat /\ filled \in Nat \ {0} /\ Chunk \in Nat \ {0}
  BY <1>3, TableTyped
<1>6. InsertBound = blockStart
  BY <1>1 DEF InsertBound
<1>7. TableListed' /\ pc' = "chunk"
  <2>1. 0 \in 0 .. filled - 1 /\ lastMatchEnd <= 0
    BY <1>4, <1>5
  <2>2. InsertBound <= blockStart + 0 /\ InsertBound \in Int /\ InsertBound + Chunk <= blockStart + filled + 1
    BY <1>4, <1>5, <1>6
  <2> DEFINE r == RecordMatch(k, 0)
  <2>3. IF k # NotFound /\ r.len > 0 THEN Emit(r, "chunk") ELSE Skip("chunk")
    BY <1>2
  <2>4. r = RecordMatch(k, 0)
    OBVIOUS
  <2> HIDE DEF r
  <2> QED BY <1>1, <1>3, <1>4, <2>1, <2>2, <2>3, <2>4, LookedUp
<1>8. InsertInv'
  <2>1. InsertBound' = blockStart + 0 + 1
    BY <1>1, <1>4, <1>7 DEF InsertBound, SameBlock
  <2>2. InsertBound \in Int /\ InsertBound' \in Int /\ InsertBound <= InsertBound' /\ blockStart + 0 < InsertBound'
    BY <1>5, <1>6, <2>1
  <2>3. 0 \in 0 .. filled - 1 /\ UNCHANGED <<file, opt>>
    BY <1>1, <1>5 DEF SameBlock
  <2> QED BY <1>1, <1>4, <1>5, <2>2, <2>3, InsertAdds
<1>9. ScanInv'
  <2>1. Splicing'
    BY <1>1, <1>4, SplicingStays
  <2>2. (i \in 0 .. filled - 1)'
    BY <1>1, <1>4, <1>5 DEF SameBlock
  <2> QED BY <1>7, <2>1, <2>2 DEF ScanInv
<1>10. pc' \in TableAt \ {"first"}
  BY <1>7 DEF TableAt
<1> QED BY <1>1, <1>3, <1>4, <1>7, <1>8, <1>9, <1>10, TableWork

(* What the scan keeps as long as it stays in the chunk, or between two. *)
LEMMA WorkBeginChunk ==
  ASSUME RingInv, KindInv, GridInv, WorkInv, BeginChunk
  PROVE  WorkInv'
<1>1. /\ pc = "chunk" /\ i + 2 * Chunk <= filled /\ nextChunk' = i + Chunk /\ pc' = "scan"
      /\ UNCHANGED <<aux, i, input, inAt, inserted, listVars>> /\ SameBlock
  BY DEF BeginChunk, SameBlock, inputVars, ringVars, tableVars, Chunk
<1>2. pc \in TableAt /\ pc \in TableAt \ {"first"} /\ pc' \in TableAt \ {"first"}
  BY <1>1 DEF TableAt
<1>3. Fenced /\ TableListed /\ Splicing /\ InsertInv /\ i \in 0 .. filled - 1
  BY <1>1, <1>2 DEF WorkInv, ListInv, ScanInv
<1>4. /\ Busy /\ HasTable(opt) /\ blockStart \in Nat /\ filled \in Nat \ {0} /\ Chunk \in Nat \ {0}
  BY <1>2, TableTyped
<1>5. TableListed' /\ Splicing' /\ Chunk' = Chunk /\ filled' = filled
  BY <1>1, <1>3, SplicingStays DEF TableListed, listVars, SameBlock, Chunk
<1>6. InsertInv'
  <2>1. InsertBound = blockStart + i + 1 /\ InsertBound' = blockStart + ((i + Chunk) - Chunk) + 1
    BY <1>1, <1>5 DEF InsertBound, SameBlock
  <2>2. i \in Nat
    BY <1>3, <1>4
  <2>3. InsertBound \in Int /\ InsertBound' \in Int /\ InsertBound <= InsertBound'
    BY <1>4, <2>1, <2>2
  <2>4. UNCHANGED <<file, opt, inserted>>
    BY <1>1 DEF SameBlock
  <2> QED BY <1>3, <2>3, <2>4, InsertStays
<1>7. InChunk'
  <2>1. i' = i /\ nextChunk' = i + Chunk /\ Chunk' = Chunk /\ filled' = filled
    BY <1>1, <1>5
  <2>2. /\ i \in 0 .. filled - 1 /\ i + Chunk \in Nat /\ Chunk <= i + Chunk /\ i + Chunk + Chunk <= filled
        /\ i >= (i + Chunk) - Chunk
    BY <1>1, <1>3, <1>4
  <2> QED BY <2>1, <2>2 DEF InChunk
<1>8. ScanInv'
  BY <1>1, <1>5, <1>7 DEF ScanInv
<1> QED BY <1>1, <1>2, <1>3, <1>5, <1>6, <1>8, TableWork

LEMMA WorkEndScan ==
  ASSUME RingInv, KindInv, GridInv, WorkInv, EndScan
  PROVE  WorkInv'
<1>1. /\ pc = "chunk" /\ pc' = "write"
      /\ UNCHANGED <<aux, i, inserted, listVars>> /\ SameBlock
  BY DEF EndScan, SameBlock, inputVars, ringVars, tableVars
<1>2. pc \in TableAt /\ pc \in TableAt \ {"first"}
  BY <1>1 DEF TableAt
<1>3. TableListed /\ InsertInv /\ i \in 0 .. filled - 1
  BY <1>1, <1>2 DEF WorkInv, ListInv, ScanInv
<1>4. blockStart \in Nat /\ filled \in Nat \ {0}
  BY <1>2, TableTyped
<1>5. TableListed'
  BY <1>1, <1>3 DEF TableListed, listVars, SameBlock
<1>6. InsertInv'
  <2>1. InsertBound = blockStart + i + 1 /\ InsertBound' = blockStart + filled
    BY <1>1 DEF InsertBound, SameBlock
  <2>2. InsertBound \in Int /\ InsertBound' \in Int /\ InsertBound <= InsertBound'
    BY <1>3, <1>4, <2>1
  <2>3. UNCHANGED <<file, opt, inserted>>
    BY <1>1 DEF SameBlock
  <2> QED BY <1>3, <2>2, <2>3, InsertStays
<1> QED BY <1>1, <1>2, <1>5, <1>6, WriteWork

(* The steps of a chunk, between which nothing but the list and the places  *)
(* of the scan change.                                                      *)
LEMMA WorkInChunk ==
  ASSUME RingInv, KindInv, WorkInv, pc \in {"scan", "hash", "probe"}, pc' \in {"scan", "hash", "probe"},
         SameBlock, UNCHANGED <<aux, inserted, nextChunk>>, TableListed',
         InChunk', (pc = "hash" => i < nextChunk)', (pc = "probe" => PairsAhead)', Splicing'
  PROVE  WorkInv'
<1>1. pc \in TableAt /\ pc \in TableAt \ {"first"} /\ pc' \in TableAt \ {"first"}
  BY DEF TableAt
<1>2. Fenced /\ InsertInv /\ InChunk
  BY <1>1 DEF WorkInv, ListInv, ScanInv
<1>3. blockStart \in Nat /\ Chunk \in Nat
  BY <1>1, TableTyped
<1>4. InsertInv'
  <2>1. InsertBound = blockStart + (nextChunk - Chunk) + 1 /\ InsertBound' = InsertBound
    BY DEF InsertBound, SameBlock, Chunk
  <2>2. nextChunk \in Nat
    BY <1>2 DEF InChunk
  <2>3. InsertBound \in Int /\ InsertBound' \in Int /\ InsertBound <= InsertBound'
    BY <1>3, <2>1, <2>2
  <2>4. UNCHANGED <<file, opt, inserted>>
    BY DEF SameBlock
  <2> QED BY <1>2, <2>3, <2>4, InsertStays
<1>5. ScanInv'
  BY DEF ScanInv
<1> QED BY <1>1, <1>2, <1>4, <1>5, TableWork

LEMMA WorkNotReached ==
  ASSUME RingInv, KindInv, GridInv, WorkInv, NotReached \/ EndProbe
  PROVE  WorkInv'
<1>1. /\ pc \in {"scan", "hash", "probe"} /\ pc' \in {"scan", "hash", "probe"} /\ pc' # "probe"
      /\ (pc' = "hash" => i < nextChunk)
      /\ UNCHANGED <<aux, i, inserted, listVars, input, inAt, nextChunk, pairs>> /\ SameBlock
  BY DEF NotReached, EndProbe, SameBlock, inputVars, ringVars, tableVars, scanVars
<1>2. pc \in TableAt \ {"first"}
  BY <1>1 DEF TableAt
<1>3. TableListed /\ Splicing /\ InChunk
  BY <1>1, <1>2 DEF WorkInv, ListInv, ScanInv
<1>4. TableListed' /\ Splicing'
  BY <1>1, <1>3, SplicingStays DEF TableListed, listVars, SameBlock
<1>5. InChunk'
  BY <1>1, <1>3 DEF InChunk, SameBlock, Chunk, listVars
<1> QED BY <1>1, <1>4, <1>5, WorkInChunk

LEMMA WorkEndChunk ==
  ASSUME RingInv, KindInv, GridInv, WorkInv, EndChunk
  PROVE  WorkInv'
<1>1. /\ pc = "scan" /\ i >= nextChunk /\ AddHash(i) /\ pc' = "chunk"
      /\ UNCHANGED <<aux, i, listVars, input, inAt>> /\ SameBlock
  BY DEF EndChunk, SameBlock, inputVars, ringVars, scanVars
<1>2. pc \in TableAt /\ pc \in TableAt \ {"first"} /\ pc' \in TableAt \ {"first"}
  BY <1>1 DEF TableAt
<1>3. Fenced /\ TableListed /\ Splicing /\ InChunk /\ InsertInv
  BY <1>1, <1>2 DEF WorkInv, ListInv, ScanInv
<1>4. Busy /\ HasTable(opt) /\ blockStart \in Nat /\ filled \in Nat \ {0} /\ Chunk \in Nat \ {0}
  BY <1>2, TableTyped
<1>5. TableListed' /\ Splicing'
  BY <1>1, <1>3, SplicingStays DEF TableListed, listVars, SameBlock
<1>6. i \in 0 .. filled - 1 /\ nextChunk \in Nat
  BY <1>3 DEF InChunk
<1>7. InsertInv'
  <2>1. InsertBound = blockStart + (nextChunk - Chunk) + 1 /\ InsertBound' = blockStart + i + 1
    BY <1>1 DEF InsertBound, SameBlock
  <2>2. InsertBound \in Int /\ InsertBound' \in Int /\ InsertBound <= InsertBound' /\ blockStart + i < InsertBound'
    BY <1>1, <1>4, <1>6, <2>1
  <2>3. UNCHANGED <<file, opt>>
    BY <1>1 DEF SameBlock
  <2> QED BY <1>1, <1>3, <1>4, <1>6, <2>2, <2>3, InsertAdds
<1>8. ScanInv'
  <2>1. (i \in 0 .. filled - 1)'
    BY <1>1, <1>6 DEF SameBlock
  <2> QED BY <1>1, <1>5, <2>1 DEF ScanInv
<1> QED BY <1>1, <1>2, <1>3, <1>5, <1>7, <1>8, TableWork

(* A match of the in-memory pass that is reached is not the last of its    *)
(* list, the one past the block: there is always a next one.               *)
LEMMA WorkSplice ==
  ASSUME RingInv, KindInv, GridInv, WorkInv, SpliceInput
  PROVE  WorkInv'
<1>1. /\ pc = "scan" /\ i < nextChunk /\ Reached
      /\ UNCHANGED <<aux, i, inserted, nextChunk>> /\ SameBlock
  BY DEF SpliceInput, SameBlock, inputVars, ringVars, tableVars
<1>2. pc \in TableAt /\ pc \in TableAt \ {"first"}
  BY <1>1 DEF TableAt
<1>3. Fenced /\ TableListed /\ Splicing /\ InChunk
  BY <1>1, <1>2 DEF WorkInv, ListInv, ScanInv
<1>4. /\ Busy /\ blockStart \in Nat /\ filled \in Nat \ {0} /\ Chunk \in Nat \ {0}
      /\ opt.base \in Nat \ {0}
  BY <1>2, TableTyped, OptionsTyped
<1> DEFINE k == inAt - 1
           x == InputAt(k)
<1>5. inAt \in Nat /\ k \in 1 .. Len(aux) /\ input = x
  BY <1>3 DEF Splicing
<1>6. Len(aux) \in Nat
  BY <1>5
<1> DEFINE n == Len(aux)
<1> HIDE DEF k, n
<1>7. /\ x.start \in Nat /\ x.len \in Nat /\ (k = n => x.start > filled)
      /\ k # n => ~ opt.round /\ SplicedCopy(x) /\ x.start + x.len = EndsOf(opt, aux)[k]
  BY <1>3, <1>4, <1>5, InputIs DEF n
<1> HIDE DEF x
<1>8. i \in 0 .. filled - 1 /\ i >= x.start
  BY <1>1, <1>3, <1>5 DEF InChunk, Reached
<1>9. k # n
  BY <1>4, <1>7, <1>8
<1>10. ~ (inAt > n) /\ inAt \in 1 .. n /\ k + 1 = inAt
  <2>1. k \in Int /\ k = inAt - 1 /\ k \in 1 .. n
    BY <1>5 DEF k, n
  <2> QED BY <1>5, <1>6, <1>9, <2>1 DEF n
<1>11. lastMatchEnd \in Nat /\ lastMatchEnd <= filled
  BY <1>2, <1>3, MatchEndTyped
<1> DEFINE from == Most(x.start, lastMatchEnd)
           rest == x.len - (from - x.start)
           r == [at |-> from, len |-> rest, offset |-> x.offset]
<1>12. IF x.start + x.len - opt.base >= lastMatchEnd THEN Emit(r, "hash") ELSE Skip("hash")
  BY <1>1, <1>5, <1>10 DEF SpliceInput, n
<1>13. TableListed' /\ pc' = "hash" /\ lastMatchEnd' \in Nat /\ lastMatchEnd <= lastMatchEnd'
  <2>1. UNCHANGED <<file, opt, blockStart, filled>>
    BY <1>1 DEF SameBlock
  <2>2. CASE x.start + x.len - opt.base >= lastMatchEnd
    <3>1. r.at = from /\ r.len = x.len - (from - x.start) /\ r.offset = x.offset
      OBVIOUS
    <3>2. Emit(r, "hash")
      BY <1>12, <2>2
    <3> HIDE DEF r
    <3>3. from = Most(x.start, lastMatchEnd)
      OBVIOUS
    <3> HIDE DEF from
    <3>4. Sound(r)
      BY <1>4, <1>7, <1>9, <1>11, <2>2, <3>1, <3>3, SpliceSound
    <3> QED BY <1>3, <1>4, <2>1, <3>2, <3>4, EmitGood
  <2>3. CASE ~ (x.start + x.len - opt.base >= lastMatchEnd)
    <3>1. pc' = "hash" /\ UNCHANGED listVars
      BY <1>12, <2>3 DEF Skip
    <3> QED BY <1>3, <1>11, <2>1, <3>1 DEF TableListed, listVars
  <2> QED BY <2>2, <2>3
<1>14. Splicing'
  <2>1. input' = NextInput(inAt, blockStart + input.start + input.len) /\ inAt' = inAt + 1
    BY <1>1, <1>10 DEF SpliceInput, n
  <2>2. blockStart + x.start + x.len = blockStart + EndsOf(opt, aux)[k]
    <3>1. blockStart + x.start + x.len = blockStart + (x.start + x.len)
      BY <1>4, <1>7
    <3> QED BY <1>7, <1>9, <3>1
  <2>3. k = inAt - 1 /\ inAt' - 1 = inAt
    BY <1>5, <2>1 DEF k
  <2>4. input' = NextInput(inAt, blockStart + EndsOf(opt, aux)[inAt - 1])
    BY <1>5, <2>1, <2>2, <2>3
  <2>5. input' = InputAt(inAt)
    BY <2>4 DEF InputAt
  <2>7. PICK at0 : at0 = inAt
    OBVIOUS
  <2>8. (InputAt(at0))' = InputAt(at0)
    BY <1>1 DEF InputAt, NextInput, SameBlock
  <2>9. inAt' - 1 = at0 /\ aux' = aux /\ at0 \in 1 .. Len(aux) /\ inAt' \in Nat /\ input' = InputAt(at0)
    BY <1>1, <1>5, <1>10, <2>1, <2>3, <2>5, <2>7 DEF n
  <2> QED BY <2>8, <2>9 DEF Splicing, InputAt
<1>15. InChunk' /\ (pc = "hash" => i < nextChunk)'
  <2>1. UNCHANGED <<i, nextChunk, filled>> /\ Chunk' = Chunk
    BY <1>1 DEF SameBlock, Chunk
  <2>2. i >= nextChunk - Chunk \/ lastMatchEnd' > nextChunk - Chunk
    <3>1. nextChunk \in Nat /\ (i >= nextChunk - Chunk \/ lastMatchEnd > nextChunk - Chunk)
      BY <1>3 DEF InChunk
    <3> QED BY <1>4, <1>11, <1>13, <3>1
  <2> QED BY <1>1, <1>3, <2>1, <2>2 DEF InChunk
<1> QED BY <1>1, <1>13, <1>14, <1>15, WorkInChunk

-----------------------------------------------------------------------------
LEMMA RoundUpIs ==
  ASSUME NEW a \in Nat, NEW b \in Nat \ {0}
  PROVE  RoundUp(a, b) \in Nat /\ a <= RoundUp(a, b) /\ RoundUp(a, b) <= a + b - 1
<1> DEFINE n == a + b - 1
           q == n \div b
           m == n % b
           c == q * b
<1>1. n \in Nat
  OBVIOUS
<1>2. q \in Nat /\ m \in 0 .. b - 1 /\ n = b * q + m
  <2> HIDE DEF n
  <2> QED BY <1>1, DivMod
<1> HIDE DEF q, m
<1>3. c \in Nat /\ b * q = c
  BY <1>2, Z3
<1>4. RoundUp(a, b) = c
  BY DEF RoundUp, q
<1> HIDE DEF c
<1>5. n = c + m /\ n = a + b - 1
  BY <1>2, <1>3
<1> HIDE DEF n
<1>6. c \in Nat /\ a <= c /\ c <= a + b - 1
  BY <1>1, <1>2, <1>3, <1>5
<1> QED BY <1>4, <1>6

(* Where the hashing goes on: in the chunk, and not before the scan unless  *)
(* a match has been taken in it.                                            *)
LEMMA ResumeIs ==
  ASSUME RingInv, HasTable(opt), InChunk, filled \in Nat, i < nextChunk, lastMatchEnd \in Nat
  PROVE  /\ Resume \in Nat /\ Resume <= nextChunk - 1 /\ step \in Nat \ {0} /\ step <= Chunk
         /\ lastMatchEnd <= nextChunk - Chunk => Resume >= nextChunk - Chunk
<1>1. Chunk \in Nat \ {0} /\ Cycles <= Chunk /\ opt.accel \in Nat /\ opt.accel <= Chunk /\ Cycles \in Nat \ {0}
  BY ChunkTyped, ScanAssumption
<1>2. i \in Nat /\ nextChunk \in Nat /\ Chunk <= nextChunk
      /\ (i >= nextChunk - Chunk \/ lastMatchEnd > nextChunk - Chunk)
  BY DEF InChunk
<1>3. step \in Nat \ {0} /\ step <= Chunk /\ grain \in Nat \ {0}
  BY <1>1 DEF step, grain, Most
<1> DEFINE back == IF opt.accel = 0 THEN 1 ELSE step
           bound == Least(nextChunk - back, Most(lastMatchEnd - 1, 0))
           g == grain
           half == opt.l \div 2
           far == (bound \div g) * g
           near == ((bound - i) \div g) * g
<1>4. back \in Nat \ {0} /\ back <= Chunk
  BY <1>1, <1>3
<1> HIDE DEF back
<1>5. /\ bound \in Nat /\ bound <= nextChunk - 1
      /\ lastMatchEnd = 0 => bound = 0
      /\ lastMatchEnd > 0 => bound <= lastMatchEnd - 1
  BY <1>1, <1>2, <1>4 DEF Least, Most
<1>6. Resume = IF bound >= i + half THEN far ELSE IF bound > i THEN i + near ELSE i
  BY DEF Resume, back
<1> HIDE DEF bound
<1>7. g \in Nat \ {0}
  BY <1>3
<1> HIDE DEF g
<1>8. far \in Nat /\ far <= bound
  BY <1>5, <1>7, WholeUnits
<1>9. ASSUME bound > i PROVE near \in Nat /\ near <= bound - i
  <2> DEFINE d == bound - i
  <2>1. d \in Nat
    BY <1>2, <1>5, <1>9
  <2> HIDE DEF d
  <2>2. (d \div g) * g \in Nat /\ (d \div g) * g <= d
    BY <1>7, <2>1, WholeUnits
  <2> QED BY <2>2 DEF d
<1>10. half \in Nat
  <2>1. Chunk = opt.l
    BY DEF Chunk
  <2> QED BY <1>1, <2>1, DivMod
<1> HIDE DEF half, far, near
<1>11. Resume \in Nat /\ Resume <= nextChunk - 1
  BY <1>2, <1>5, <1>6, <1>8, <1>9, <1>10
<1>12. ASSUME lastMatchEnd <= nextChunk - Chunk PROVE Resume >= nextChunk - Chunk
  <2>1. i >= nextChunk - Chunk /\ lastMatchEnd <= i
    BY <1>1, <1>2, <1>12
  <2>2. bound <= i /\ (bound = i => i = 0)
    BY <1>2, <1>5, <2>1
  <2>3. Resume = i
    <3>1. CASE bound >= i + half
      <4>1. i = 0 /\ bound = 0
        BY <1>2, <1>5, <1>10, <2>2, <3>1
      <4>2. far = 0
        BY <1>8, <4>1
      <4> QED BY <1>6, <3>1, <4>1, <4>2
    <3>2. CASE ~ (bound >= i + half)
      BY <1>2, <1>5, <1>6, <2>2, <3>2
    <3> QED BY <3>1, <3>2
  <2> QED BY <2>1, <2>3
<1> QED BY <1>3, <1>11, <1>12

LEMMA WorkHash ==
  ASSUME RingInv, KindInv, GridInv, WorkInv, HashWindows
  PROVE  WorkInv'
<1> DEFINE from == Resume
           last == Least(nextChunk, from + Lookahead)
           ahead == RoundUp(last - from, step)
           to == from + ahead
<1>1. /\ pc = "hash" /\ pc' = "probe" /\ i' = to
      /\ pairs' = {p \in from + 1 .. to : lastMatchEnd <= p /\ p < input.start}
      /\ UNCHANGED <<aux, inserted, listVars, input, inAt, nextChunk>> /\ SameBlock
  BY DEF HashWindows, SameBlock, inputVars, ringVars, tableVars
<1>2. pc \in TableAt /\ pc \in TableAt \ {"first"}
  BY <1>1 DEF TableAt
<1>3. TableListed /\ Splicing /\ InChunk /\ i < nextChunk
  BY <1>1, <1>2 DEF WorkInv, ListInv, ScanInv
<1>4. HasTable(opt) /\ filled \in Nat /\ Chunk \in Nat \ {0}
  BY <1>2, TableTyped
<1>5. lastMatchEnd \in Nat
  BY <1>2, <1>3, MatchEndTyped
<1>6. /\ from \in Nat /\ from <= nextChunk - 1 /\ step \in Nat \ {0} /\ step <= Chunk
      /\ lastMatchEnd <= nextChunk - Chunk => from >= nextChunk - Chunk
  BY <1>3, <1>4, <1>5, ResumeIs
<1> DEFINE s == step
<1> HIDE DEF from, s
<1>7. nextChunk \in Nat /\ Chunk <= nextChunk /\ nextChunk + Chunk <= filled
  BY <1>3 DEF InChunk
<1>8. last - from \in Nat /\ last <= nextChunk /\ last \in Nat
  BY <1>6, <1>7, ScanAssumption DEF Least
<1> HIDE DEF last
<1>9. ahead \in Nat /\ ahead <= (last - from) + s - 1
  <2> DEFINE d == last - from
  <2>1. d \in Nat /\ s \in Nat \ {0}
    BY <1>6, <1>8 DEF s
  <2> HIDE DEF d
  <2>2. RoundUp(d, s) \in Nat /\ RoundUp(d, s) <= d + s - 1
    BY <2>1, RoundUpIs
  <2> QED BY <2>2 DEF d, s
<1> HIDE DEF ahead
<1>10. to \in Nat /\ from <= to /\ to <= filled - 1
  <2>1. s \in Nat \ {0} /\ s <= Chunk
    BY <1>6 DEF s
  <2>2. to \in Nat /\ from <= to /\ to <= last + s - 1
    BY <1>6, <1>8, <1>9, <2>1
  <2> QED BY <1>4, <1>7, <1>8, <2>1, <2>2
<1> HIDE DEF to
<1>11. TableListed' /\ Splicing' /\ Chunk' = Chunk /\ UNCHANGED <<lastMatchEnd, filled, nextChunk>>
  BY <1>1, <1>3, SplicingStays DEF TableListed, listVars, SameBlock, Chunk
<1>12. to >= nextChunk - Chunk \/ lastMatchEnd > nextChunk - Chunk
  BY <1>4, <1>5, <1>6, <1>7, <1>10
<1>13. InChunk'
  BY <1>1, <1>4, <1>7, <1>10, <1>11, <1>12 DEF InChunk
<1>14. PairsAhead'
  <2>1. ASSUME NEW p \in pairs'
        PROVE  p \in Nat /\ lastMatchEnd <= p /\ p <= filled - 1 /\ p > nextChunk - Chunk
    <3>1. p \in from + 1 .. to /\ lastMatchEnd <= p
      BY <1>1, <2>1
    <3>2. p \in Nat /\ from < p /\ p <= to
      BY <1>6, <1>10, <3>1
    <3> QED BY <1>4, <1>5, <1>6, <1>7, <1>10, <3>1, <3>2
  <2> QED BY <1>11, <2>1 DEF PairsAhead
<1> QED BY <1>1, <1>11, <1>13, <1>14, WorkInChunk

-----------------------------------------------------------------------------
LEMMA WorkProbe ==
  ASSUME RingInv, KindInv, GridInv, WorkInv, Probe
  PROVE  WorkInv'
<1> DEFINE p == nextPair
<1>1. /\ pc = "probe" /\ pairs # {}
      /\ UNCHANGED <<aux, i, inserted, input, inAt, nextChunk>> /\ SameBlock
  BY DEF Probe, SameBlock, inputVars, ringVars, tableVars
<1>2. PICK k \in Lookup(p) :
        LET r == RecordMatch(k, p)
            taken == k # NotFound /\ r.len > 0
        IN  /\ IF taken THEN Emit(r, "probe") ELSE Skip("probe")
            /\ pairs' = IF taken THEN {} ELSE pairs \ {p}
  BY DEF Probe
<1>3. pc \in TableAt /\ pc \in TableAt \ {"first"}
  BY <1>1 DEF TableAt
<1>4. TableListed /\ Splicing /\ InChunk /\ InsertInv /\ PairsAhead
  BY <1>1, <1>3 DEF WorkInv, ListInv, ScanInv
<1>5. /\ Busy /\ HasTable(opt) /\ blockStart \in Nat /\ filled \in Nat \ {0} /\ Chunk \in Nat \ {0}
      /\ lastMatchEnd \in Nat
  BY <1>3, <1>4, TableTyped, MatchEndTyped
<1>6. p \in pairs
  <2>1. pairs \in SUBSET Nat
    BY <1>4 DEF PairsAhead
  <2> QED BY <1>1, <2>1, LeastInIs DEF nextPair
<1> DEFINE r == RecordMatch(k, p)
           taken == k # NotFound /\ r.len > 0
<1>7. /\ IF taken THEN Emit(r, "probe") ELSE Skip("probe")
      /\ pairs' = IF taken THEN {} ELSE pairs \ {p}
  BY <1>2
<1>8. PICK q : q = p
  OBVIOUS
<1>9. q \in Nat /\ lastMatchEnd <= q /\ q <= filled - 1 /\ q > nextChunk - Chunk
  BY <1>4, <1>6, <1>8 DEF PairsAhead
<1>10. nextChunk \in Nat /\ nextChunk + Chunk <= filled
  BY <1>4 DEF InChunk
<1>11. TableListed' /\ pc' = "probe" /\ lastMatchEnd' \in Nat /\ lastMatchEnd <= lastMatchEnd'
  <2>1. q \in 0 .. filled - 1 /\ lastMatchEnd <= q
    BY <1>5, <1>9
  <2>2. InsertBound = blockStart + (nextChunk - Chunk) + 1
    BY <1>1 DEF InsertBound
  <2>3. InsertBound <= blockStart + q /\ InsertBound \in Int /\ InsertBound + Chunk <= blockStart + filled + 1
    BY <1>5, <1>9, <1>10, <2>2
  <2>4. k \in Lookup(q)
    BY <1>2, <1>8
  <2>5. r = RecordMatch(k, q)
    BY <1>8
  <2>6. IF k # NotFound /\ r.len > 0 THEN Emit(r, "probe") ELSE Skip("probe")
    BY <1>7
  <2> HIDE DEF r, p
  <2> QED BY <1>1, <1>3, <1>4, <2>1, <2>3, <2>4, <2>5, <2>6, LookedUp
<1>12. Splicing' /\ Chunk' = Chunk /\ UNCHANGED <<filled, nextChunk, i>>
  BY <1>1, <1>4, SplicingStays DEF SameBlock, Chunk
<1>13. InChunk'
  <2>1. i >= nextChunk - Chunk \/ lastMatchEnd' > nextChunk - Chunk
    <3>1. i >= nextChunk - Chunk \/ lastMatchEnd > nextChunk - Chunk
      BY <1>4 DEF InChunk
    <3> QED BY <1>5, <1>10, <1>11, <3>1
  <2> QED BY <1>4, <1>12, <2>1 DEF InChunk
<1>14. PairsAhead'
  <2>1. CASE taken
    <3>1. pairs' = {}
      BY <1>7, <2>1
    <3> QED BY <3>1 DEF PairsAhead
  <2>2. CASE ~ taken
    <3>1. pairs' \subseteq pairs /\ lastMatchEnd' = lastMatchEnd
      BY <1>7, <2>2 DEF Skip, listVars
    <3> QED BY <1>4, <1>12, <3>1 DEF PairsAhead
  <2> QED BY <2>1, <2>2
<1> QED BY <1>1, <1>11, <1>12, <1>13, <1>14, WorkInChunk

(* The table finders apart, what is in the table and in the list is all    *)
(* there is to keep.                                                       *)
Elsewhere == {"begin", "next", "prepare", "inmem", "dict", "stripe", "chunks", "write", "done"}

WriteListed == \E e \in Nat : Listed(opt, file, blockStart, literalBytes, stat, e, filled)

Lists ==
  /\ (pc = "dict" => DictListed) /\ (pc \in CdcAt => CdcListed) /\ (pc = "write" => WriteListed)
  /\ literalBytes \in 0 .. BlockSize

LEMMA WorkElsewhere ==
  ASSUME RingInv, WorkInv, pc \in Elsewhere \cup TableAt, pc' \in Elsewhere, Lists', UNCHANGED <<file, opt, inserted>>,
         InsertBound \in Int, InsertBound' \in Int, InsertBound <= InsertBound'
  PROVE  WorkInv'
<1>1. InsertInv'
  BY InsertStays DEF WorkInv
<1>2. ScanInv'
  BY DEF ScanInv, Elsewhere, TableAt
<1>3. ListInv'
  BY DEF ListInv, Lists, Elsewhere, TableAt, WriteListed
<1> QED BY <1>1, <1>2, <1>3 DEF WorkInv

LEMMA LitsFit ==
  ASSUME RingInv, NEW b, NEW lits, NEW recs, NEW e, NEW n \in Nat, Listed(opt, file, b, lits, recs, e, n),
         n <= BlockSize
  PROVE  lits \in 0 .. BlockSize
<1>1. BlockSize \in Nat /\ Writable(opt)
  BY OptionsTyped
<1>2. lits \in 0 .. n
  BY <1>1, ListedTyped
<1> QED BY <1>1, <1>2

(* Reading, and what is done before a block is searched. *)
LEMMA WorkReads ==
  ASSUME RingInv, WorkInv, ReadFirst \/ ReadAhead \/ Finish \/ PrepareBuffer
  PROVE  WorkInv'
<1>1. /\ pc \in {"begin", "next", "prepare"} /\ pc' \in {"next", "prepare", "inmem", "done"}
      /\ UNCHANGED <<file, opt, blockStart, literalBytes, inserted>>
  BY DEF ReadFirst, ReadAhead, Finish, PrepareBuffer, inputVars, ringVars, finderVars, tableVars, listVars
<1>2. blockStart \in Int
  BY DEF RingInv
<1>3. InsertBound = blockStart /\ InsertBound' = blockStart
  BY <1>1 DEF InsertBound
<1>4. Lists'
  <2>1. literalBytes \in 0 .. BlockSize /\ BlockSize' = BlockSize
    BY <1>1 DEF WorkInv, ListInv, BlockSize
  <2> QED BY <1>1, <2>1 DEF Lists, CdcAt
<1>5. pc \in Elsewhere \cup TableAt /\ pc' \in Elsewhere
  BY <1>1 DEF Elsewhere
<1>6. InsertBound \in Int /\ InsertBound' \in Int /\ InsertBound <= InsertBound'
  BY <1>2, <1>3
<1> QED BY <1>1, <1>4, <1>5, <1>6, WorkElsewhere

(* The in-memory pass. *)
LEMMA WorkInMemory ==
  ASSUME RingInv, HashInv, WorkInv, BeginInmem \/ TakeWindow \/ PassWindow,
         UNCHANGED <<tableVars, scanVars, cdcVars, out>>
  PROVE  WorkInv'
<1>1. /\ pc \in {"inmem", "dict"} /\ pc' = "dict" /\ UNCHANGED <<file, opt, blockStart, inserted, filled>>
  BY DEF BeginInmem, TakeWindow, PassWindow, inputVars, ringVars, tableVars
<1>2. Busy
  BY <1>1 DEF Busy, BusyAt
<1>3. blockStart \in Int /\ filled \in Nat /\ filled <= BlockSize
  BY <1>2, BlockTyped
<1>4. InsertBound = blockStart /\ InsertBound' = blockStart
  BY <1>1 DEF InsertBound
<1>5. DictListed'
  <2>1. pc = "dict" => DictListed
    BY DEF WorkInv, ListInv
  <2>2. CASE BeginInmem
    BY <2>2, DictBegins
  <2>3. CASE TakeWindow
    <3>1. pc = "dict"
      BY <2>3 DEF TakeWindow
    <3> QED BY <2>1, <2>3, <3>1, DictTakes
  <2>4. CASE PassWindow
    <3>1. pc = "dict"
      BY <2>4 DEF PassWindow
    <3> QED BY <2>1, <2>4, <3>1, DictPasses
  <2> QED BY <2>2, <2>3, <2>4
<1>6. Lists'
  <2>1. PICK e, l : e = lastMatchEnd' - bufOffset' /\ l = literalBytes'
    OBVIOUS
  <2>2. Listed(opt, file, blockStart, l, aux', e, filled)
    BY <1>1, <1>5, <2>1 DEF DictListed
  <2>3. l \in 0 .. BlockSize
    BY <1>3, <2>2, LitsFit
  <2>4. (literalBytes \in 0 .. BlockSize)'
    BY <1>1, <2>1, <2>3 DEF BlockSize
  <2> QED BY <1>1, <1>5, <2>4 DEF Lists, CdcAt
<1>7. pc \in Elsewhere \cup TableAt /\ pc' \in Elsewhere
  BY <1>1 DEF Elsewhere
<1>8. InsertBound \in Int /\ InsertBound' \in Int /\ InsertBound <= InsertBound'
  BY <1>3, <1>4
<1> QED BY <1>1, <1>6, <1>7, <1>8, WorkElsewhere

LEMMA WorkEndInmem ==
  ASSUME RingInv, KindInv, WorkInv, EndInmem
  PROVE  WorkInv'
<1>1. pc = "dict" /\ UNCHANGED <<file, opt, blockStart, inserted, filled, literalBytes>>
  BY DEF EndInmem, inputVars, ringVars, tableVars
<1>2. Busy /\ DictListed /\ literalBytes \in 0 .. BlockSize /\ InsertInv
  BY <1>1 DEF Busy, BusyAt, WorkInv, ListInv
<1>3. blockStart \in Int /\ filled \in Nat
  BY <1>2, BlockTyped
<1>4. BlockSize' = BlockSize /\ InsertBound = blockStart
  BY <1>1 DEF BlockSize, InsertBound
<1>5. CASE opt.kind = "inmem"
  <2>1. pc' = "write" /\ WriteListed'
    BY <1>2, <1>5, DictEnds DEF WriteListed
  <2>2. Lists'
    BY <1>1, <1>2, <1>4, <2>1 DEF Lists, CdcAt
  <2>3. InsertBound' = blockStart + filled
    BY <1>1, <2>1 DEF InsertBound
  <2>4. InsertBound \in Int /\ InsertBound' \in Int /\ InsertBound <= InsertBound'
    BY <1>3, <1>4, <2>3
  <2>5. pc \in Elsewhere \cup TableAt /\ pc' \in Elsewhere
    BY <1>1, <2>1 DEF Elsewhere
  <2> QED BY <1>1, <2>2, <2>4, <2>5, WorkElsewhere
<1>6. CASE opt.kind # "inmem"
  <2>1. pc' = "first" /\ Fenced' /\ stat' = <<>>
    BY <1>2, <1>6, DictEnds
  <2>2. InsertBound' = blockStart
    BY <1>1, <2>1 DEF InsertBound
  <2>3. InsertBound \in Int /\ InsertBound' \in Int /\ InsertBound <= InsertBound'
    BY <1>3, <1>4, <2>2
  <2>4. InsertInv'
    BY <1>1, <1>2, <2>3, InsertStays
  <2>5. ScanInv'
    BY <2>1 DEF ScanInv, TableAt
  <2>6. ListInv'
    BY <1>1, <1>2, <1>4, <2>1 DEF ListInv, TableAt, CdcAt
  <2> QED BY <2>4, <2>5, <2>6 DEF WorkInv
<1> QED BY <1>5, <1>6

-----------------------------------------------------------------------------
(* Content-defined chunks: what is behind the cursor is in the list. *)
LEMMA WorkCdc ==
  ASSUME RingInv, KindInv, CdcInv, CdcInv', WorkInv, CdcNext, UNCHANGED <<hasharr, windows, tableVars, scanVars, out>>
  PROVE  WorkInv'
<1>1. UNCHANGED <<file, opt, blockStart, inserted, filled>> /\ Busy
  BY CdcIsBusy DEF BusyStep, Busy, inputVars, ringVars, tableVars
<1>2. blockStart \in Nat /\ filled \in Nat /\ filled <= BlockSize /\ Writable(opt)
  BY <1>1, BlockTyped, OptionsTyped
<1>3. pc \in {"prepare", "stripe", "chunks"} /\ (pc \in CdcAt => CdcListed)
  BY DEF CdcNext, BeginCdc, FindChunks, TakeChunk, PassChunk, EndStripe, WorkInv, ListInv
<1>4. \/ pc' \in {"stripe", "chunks"} /\ CdcListed'
      \/ pc' = "write" /\ WriteListed'
  <2>1. CASE BeginCdc
    <3>1. pc' = "stripe" /\ literalBytes' = 0 /\ stat' = <<>> /\ lastMatchEnd' = 0 /\ i' = 0
      BY <2>1 DEF BeginCdc
    <3>2. Listed(opt, file, blockStart, 0, <<>>, 0, 0)
      BY <1>2, NothingListed
    <3> QED BY <1>1, <3>1, <3>2 DEF CdcListed
  <2>2. CASE FindChunks
    <3>1. pc = "stripe" /\ pc' = "chunks" /\ UNCHANGED <<i, stat, literalBytes, lastMatchEnd>>
      BY <2>2 DEF FindChunks, listVars
    <3> QED BY <1>1, <1>3, <3>1 DEF CdcListed, CdcAt
  <2>3. CASE TakeChunk
    <3>1. pc = "chunks"
      BY <2>3 DEF TakeChunk
    <3> QED BY <1>3, <2>3, <3>1, CdcTakes DEF CdcAt
  <2>4. CASE PassChunk
    <3>1. pc = "chunks"
      BY <2>4 DEF PassChunk
    <3> QED BY <1>3, <2>4, <3>1, CdcPasses DEF CdcAt
  <2>5. CASE EndStripe
    <3>1. /\ pc = "chunks" /\ marks = {} /\ pc' = IF ptr < filled THEN "stripe" ELSE "write"
          /\ UNCHANGED <<i, stat, literalBytes, lastMatchEnd, marks, ptr>>
      BY <2>5 DEF EndStripe, listVars, cdcVars
    <3>2. CdcListed /\ InStripe /\ (ptr = filled => i = filled)
      BY <1>3, <3>1 DEF CdcAt, CdcInv
    <3>3. CASE ptr < filled
      BY <1>1, <3>1, <3>2, <3>3 DEF CdcListed
    <3>4. CASE ~ (ptr < filled)
      <4>1. ptr = filled
        BY <1>2, <3>2, <3>4 DEF InStripe
      <4>2. Listed(opt, file, blockStart, literalBytes, stat, lastMatchEnd, filled)
        BY <3>2, <4>1 DEF CdcListed
      <4>3. lastMatchEnd \in Nat
        BY <1>2, <4>2, ListedTyped
      <4>4. WriteListed
        BY <4>2, <4>3 DEF WriteListed
      <4>5. WriteListed'
        BY <1>1, <3>1, <4>4 DEF WriteListed
      <4> QED BY <3>1, <3>4, <4>5
    <3> QED BY <3>3, <3>4
  <2> QED BY <2>1, <2>2, <2>3, <2>4, <2>5 DEF CdcNext
<1>5. (literalBytes \in 0 .. BlockSize)'
  <2>1. PICK l : l = literalBytes'
    OBVIOUS
  <2>2. l \in 0 .. BlockSize
    <3>1. CASE pc' \in {"stripe", "chunks"} /\ CdcListed'
      <4>1. PICK e, n : e = lastMatchEnd' /\ n = i'
        OBVIOUS
      <4>2. Listed(opt, file, blockStart, l, stat', e, n)
        BY <1>1, <2>1, <3>1, <4>1 DEF CdcListed
      <4>3. n \in Nat /\ n <= filled
        <5>1. (i \in Nat /\ ptr \in Nat /\ i <= ptr /\ ptr <= filled)'
          BY <3>1 DEF CdcInv, CdcAt, InStripe
        <5> QED BY <1>1, <1>2, <4>1, <5>1
      <4>4. n <= BlockSize
        <5>1. BlockSize \in Nat
          BY OptionsTyped
        <5> QED BY <1>2, <4>3, <5>1
      <4> QED BY <4>2, <4>3, <4>4, LitsFit
    <3>2. CASE WriteListed'
      <4>1. PICK e : Listed(opt, file, blockStart, l, stat', e, filled)
        BY <1>1, <2>1, <3>2 DEF WriteListed
      <4> QED BY <1>2, <4>1, LitsFit
    <3> QED BY <1>4, <3>1, <3>2
  <2> QED BY <1>1, <2>1, <2>2 DEF BlockSize
<1>6. Lists'
  BY <1>4, <1>5 DEF Lists, CdcAt
<1>7. InsertBound = blockStart /\ InsertBound' = IF pc' = "write" THEN blockStart + filled ELSE blockStart
  BY <1>1, <1>3, <1>4 DEF InsertBound
<1>8. InsertBound \in Int /\ InsertBound' \in Int /\ InsertBound <= InsertBound'
  BY <1>2, <1>7
<1>9. pc \in Elsewhere \cup TableAt /\ pc' \in Elsewhere
  BY <1>3, <1>4 DEF Elsewhere
<1> QED BY <1>1, <1>6, <1>8, <1>9, WorkElsewhere

-----------------------------------------------------------------------------
(* The list that is written stays inside its block. *)
LEMMA FitsWhenListed ==
  ASSUME RingInv, Busy, WriteListed
  PROVE  ListFits
<1>1. filled \in Nat /\ Writable(opt)
  BY BlockTyped, OptionsTyped
<1>2. PICK e \in Nat : Listed(opt, file, blockStart, literalBytes, stat, e, filled)
  BY DEF WriteListed
<1>3. GoodList(opt, file, blockStart, stat, e) /\ e <= filled
  BY <1>2 DEF Listed
<1>4. /\ EndsOf(opt, stat) \in [0 .. Len(stat) -> Nat]
      /\ \A k \in 0 .. Len(stat) : EndsOf(opt, stat)[k] <= e
  BY <1>1, <1>3, GoodListEnds
<1>5. Len(stat) \in Nat
  BY <1>3 DEF GoodList
<1> DEFINE end == EndsOf(opt, stat)
<1>6. Ends(stat) = end
  BY DEF Ends, EndsOf
<1> HIDE DEF end
<1>7. ASSUME NEW k \in 1 .. Len(stat) PROVE end[k] <= filled
  <2>1. k \in 0 .. Len(stat)
    BY <1>5
  <2>2. end[k] \in Nat /\ end[k] <= e
    BY <1>4, <2>1 DEF end
  <2> QED BY <1>1, <1>3, <2>2
<1> QED BY <1>6, <1>7 DEF ListFits

LEMMA WorkWrite ==
  ASSUME RingInv, WorkInv, WriteBlock
  PROVE  WorkInv' /\ ListFits
<1>1. /\ pc = "write" /\ pc' = (IF ListFits THEN "next" ELSE "failed") /\ blockStart' = blockStart + filled
      /\ UNCHANGED <<file, opt, inserted, literalBytes>>
  BY DEF WriteBlock, inputVars, finderVars
<1>2. Busy /\ WriteListed /\ literalBytes \in 0 .. BlockSize
  BY <1>1 DEF Busy, BusyAt, WorkInv, ListInv, WriteListed
<1>3. ListFits
  BY <1>2, FitsWhenListed
<1>4. pc' = "next"
  BY <1>1, <1>3
<1>5. blockStart \in Nat /\ filled \in Nat
  BY <1>2, BlockTyped
<1>6. InsertBound = blockStart + filled /\ InsertBound' = blockStart + filled
  BY <1>1, <1>4 DEF InsertBound
<1>7. Lists'
  <2>1. BlockSize' = BlockSize
    BY <1>1 DEF BlockSize
  <2> QED BY <1>1, <1>2, <1>4, <2>1 DEF Lists, CdcAt
<1>8. InsertBound \in Int /\ InsertBound' \in Int /\ InsertBound <= InsertBound'
  BY <1>5, <1>6
<1>9. pc \in Elsewhere \cup TableAt /\ pc' \in Elsewhere
  BY <1>1, <1>4 DEF Elsewhere
<1> QED BY <1>1, <1>3, <1>7, <1>8, <1>9, WorkElsewhere

LEMMA WorkIdle ==
  ASSUME WorkInv, UNCHANGED vars
  PROVE  WorkInv'
<1>1. /\ UNCHANGED <<file, opt, pc, ring, bufOffset, blockStart, filled, nextFilled, stat, literalBytes, aux, i,
                     lastMatchEnd, inserted, input, inAt, nextChunk, pairs>>
  BY DEF vars, inputVars, ringVars, finderVars
<1>2. ScanInv' = ScanInv
  BY <1>1 DEF ScanInv, InChunk, PairsAhead, Splicing, InputAt, NextInput, Chunk
<1>3. InsertInv' = InsertInv
  BY <1>1 DEF InsertInv, InsertBound, FileLen, HasTable, Chunk
<1>4. ListInv' = ListInv
  BY <1>1 DEF ListInv, DictListed, Fenced, Fence, TableListed, CdcListed, BlockSize
<1> QED BY <1>2, <1>3, <1>4 DEF WorkInv

LEMMA WorkFirst == Init => WorkInv
<1> SUFFICES ASSUME Init PROVE WorkInv
  OBVIOUS
<1>1. RingInv
  BY RingFirst
<1>2. pc = "begin" /\ inserted = {} /\ literalBytes = 0 /\ BlockSize \in Nat
  BY <1>1, OptionsTyped DEF Init
<1>3. ScanInv
  BY <1>2 DEF ScanInv, TableAt
<1>4. InsertInv
  BY <1>2 DEF InsertInv
<1>5. ListInv
  BY <1>2 DEF ListInv, TableAt, CdcAt
<1> QED BY <1>3, <1>4, <1>5 DEF WorkInv

LEMMA WorkNext ==
  ASSUME RingInv, KindInv, HashInv, GridInv, CdcInv, WorkInv, [Next]_vars
  PROVE  WorkInv'
<1>1. CdcInv'
  BY CdcNextInv
<1>2. CASE ReadFirst \/ ReadAhead \/ Finish \/ PrepareBuffer
  BY <1>2, WorkReads
<1>3. CASE (BeginInmem \/ TakeWindow \/ PassWindow) /\ UNCHANGED <<tableVars, scanVars, cdcVars, out>>
  BY <1>3, WorkInMemory
<1>4. CASE EndInmem
  BY <1>4, WorkEndInmem
<1>5. CASE BeginScan \/ FirstWindow \/ BeginChunk \/ EndScan
  BY <1>5, WorkBeginScan, WorkFirstWindow, WorkBeginChunk, WorkEndScan
<1>6. CASE SpliceInput \/ NotReached \/ HashWindows \/ Probe \/ EndProbe \/ EndChunk
  BY <1>6, WorkSplice, WorkNotReached, WorkHash, WorkProbe, WorkEndChunk
<1>7. CASE CdcNext /\ UNCHANGED <<hasharr, windows, tableVars, scanVars, out>>
  BY <1>1, <1>7, WorkCdc
<1>8. CASE WriteBlock
  BY <1>8, WorkWrite
<1>9. CASE UNCHANGED vars
  BY <1>9, WorkIdle
<1>10. Next \/ UNCHANGED vars
  OBVIOUS
<1> HIDE DEF vars
<1> QED BY <1>2, <1>3, <1>4, <1>5, <1>6, <1>7, <1>8, <1>9, <1>10 DEF Next, Find, FixedNext, Stopped

-----------------------------------------------------------------------------
LEMMA BytesJoin ==
  ASSUME NEW s \in Seq(Bytes), NEW t \in Seq(Bytes)
  PROVE  s \o t \in Seq(Bytes) /\ Len(s \o t) = Len(s) + Len(t)
OBVIOUS

(* The literals that the writer leaves between the records of a list are   *)
(* as many as the list says.                                               *)
LEMMA LiteralsCounted ==
  ASSUME RingInv, Busy, NEW lits, NEW recs, NEW e, Listed(opt, file, blockStart, lits, recs, e, filled)
  PROVE  Literals(recs) \in Seq(Bytes) /\ Len(Literals(recs)) = lits
<1> DEFINE n == Len(recs)
           end == EndsOf(opt, recs)
           P(k) == Part(ring, bufOffset + end[k - 1], recs[k].lit)
           It(f) == f = [k \in 0 .. n |-> IF k = 0 THEN <<>> ELSE f[k - 1] \o P(k)]
           g == CHOOSE f : It(f)
           T == Seq(Bytes)
           act == [x \in T \X (1 .. n) |-> x[1] \o P(x[2])]
           rest == Part(ring, bufOffset + end[n], filled - end[n])
<1>1. Literals(recs) = g[n] \o rest
  BY DEF Literals, Ends, EndsOf
<1>2. filled \in Nat /\ bufOffset \in Int /\ Writable(opt) /\ ring \in Seq(Bytes)
  BY BlockTyped, OptionsTyped DEF RingInv, Bytes
<1>3. recs \in Seq(RecordSet) /\ n \in Nat /\ end[n] = e /\ e <= filled /\ lits = LitCount(recs) + (filled - e)
  BY DEF Listed, GoodList
<1>4. end \in [0 .. n -> Nat] /\ e \in Nat
  BY <1>2, <1>3, GoodListEnds DEF Listed
<1>5. /\ LitsOf(recs) \in [0 .. n -> Nat] /\ LitsOf(recs)[0] = 0
      /\ \A k \in 1 .. n : LitsOf(recs)[k] = LitsOf(recs)[k - 1] + recs[k].lit
  BY <1>3, LitsUnroll
<1> DEFINE count == LitsOf(recs)
<1>6. LitCount(recs) = count[n]
  BY DEF LitCount
<1>7. ASSUME NEW k \in 1 .. n PROVE recs[k].lit \in Nat /\ bufOffset + end[k - 1] \in Int
  <2>1. recs[k] \in RecordSet /\ k - 1 \in 0 .. n
    BY <1>3
  <2>2. end[k - 1] \in Nat
    BY <1>4, <2>1
  <2> QED BY <1>2, <2>1, <2>2 DEF RecordSet
<1> HIDE DEF end, n, count
<1>8. ASSUME NEW k \in 1 .. n PROVE P(k) \in T /\ Len(P(k)) = recs[k].lit
  <2> DEFINE a == bufOffset + end[k - 1]
             l == recs[k].lit
  <2>1. a \in Int /\ l \in Nat
    BY <1>7
  <2> HIDE DEF a, l
  <2>2. Part(ring, a, l) \in Seq(Bytes) /\ Len(Part(ring, a, l)) = l
    BY <1>2, <2>1, PartBytes
  <2> QED BY <2>2 DEF a, l
<1>9. rest \in T /\ Len(rest) = filled - e
  <2> DEFINE a == bufOffset + end[n]
             l == filled - end[n]
  <2>1. a \in Int /\ l \in Nat /\ l = filled - e
    BY <1>2, <1>3, <1>4 DEF end, n
  <2> HIDE DEF a, l
  <2>2. Part(ring, a, l) \in Seq(Bytes) /\ Len(Part(ring, a, l)) = l
    BY <1>2, <2>1, PartBytes
  <2> QED BY <2>1, <2>2 DEF a, l
<1> HIDE DEF P, rest
<1>10. ASSUME NEW t \in T, NEW k \in 1 .. n
       PROVE  act[<<t, k>>] = t \o P(k) /\ act[<<t, k>>] \in T
  <2>1. <<t, k>> \in T \X (1 .. n)
    OBVIOUS
  <2>2. act[<<t, k>>] = t \o P(k)
    BY <2>1
  <2>3. t \o P(k) \in T
    BY <1>8
  <2> QED BY <2>2, <2>3
<1>11. PICK f \in [0 .. n -> T] : f[0] = <<>> /\ \A k \in 1 .. n : f[k] = act[<<f[k - 1], k>>]
  <2>1. Closed(T, n, act)
    BY <1>10 DEF Closed
  <2>2. <<>> \in T
    OBVIOUS
  <2> HIDE DEF act, T, It, g
  <2>3. \E f \in [0 .. n -> T] : Stepwise(f, <<>>, n, act)
    BY <2>1, <2>2, <1>3, Recursion DEF n
  <2> QED BY <2>3 DEF Stepwise
<1>12. n \in Nat
  BY <1>3 DEF n
<1>13. ASSUME NEW k \in 1 .. n PROVE f[k] = f[k - 1] \o P(k)
  <2>1. k - 1 \in 0 .. n
    BY <1>12
  <2>2. f[k - 1] \in T
    BY <1>11, <2>1
  <2> HIDE DEF act, T
  <2> QED BY <2>2, <1>10, <1>11
<1>14. It(f)
  <2>1. f = [k \in 0 .. n |-> f[k]]
    BY <1>11
  <2>2. \A k \in 0 .. n : f[k] = IF k = 0 THEN <<>> ELSE f[k - 1] \o P(k)
    <3>1. ASSUME NEW k \in 0 .. n PROVE f[k] = IF k = 0 THEN <<>> ELSE f[k - 1] \o P(k)
      <4>1. CASE k = 0
        BY <1>11, <4>1
      <4>2. CASE k # 0
        <5>1. k \in 1 .. n
          BY <1>12, <4>2
        <5>2. f[k] = f[k - 1] \o P(k)
          BY <1>13, <5>1
        <5> QED BY <4>2, <5>2
      <4> QED BY <4>1, <4>2
    <3> QED BY <3>1
  <2> QED BY <2>1, <2>2
<1>15. It(g)
  <2> HIDE DEF It
  <2> QED BY <1>14
<1> HIDE DEF g, act
<1>16. g[0] = <<>> /\ \A k \in 1 .. n : g[k] = g[k - 1] \o P(k)
  <2>1. g = [k \in 0 .. n |-> IF k = 0 THEN <<>> ELSE g[k - 1] \o P(k)]
    BY <1>15
  <2>2. \A k \in 0 .. n : g[k] = IF k = 0 THEN <<>> ELSE g[k - 1] \o P(k)
    BY <2>1
  <2>3. 0 \in 0 .. n
    BY <1>12
  <2>4. g[0] = <<>>
    BY <2>2, <2>3
  <2>5. ASSUME NEW k \in 1 .. n PROVE g[k] = g[k - 1] \o P(k)
    <3>1. k \in 0 .. n /\ k # 0
      BY <1>12
    <3> QED BY <2>2, <3>1
  <2> QED BY <2>4, <2>5
<1> HIDE DEF It
<1> DEFINE G == {k \in 0 .. n : g[k] \in T /\ Len(g[k]) = count[k]}
<1>17. 0 \in G
  <2>1. 0 \in 0 .. n /\ count[0] = 0 /\ g[0] = <<>>
    BY <1>5, <1>12, <1>16 DEF count
  <2>2. <<>> \in T /\ Len(<<>>) = 0
    OBVIOUS
  <2>3. g[0] \in T /\ Len(g[0]) = count[0]
    BY <2>1, <2>2
  <2> QED BY <2>1, <2>3
<1>18. ASSUME NEW k \in 1 .. n, k - 1 \in G PROVE k \in G
  <2>1. g[k] = g[k - 1] \o P(k) /\ g[k - 1] \in T /\ Len(g[k - 1]) = count[k - 1]
    BY <1>16, <1>18
  <2>2. P(k) \in T /\ Len(P(k)) = recs[k].lit
    BY <1>8
  <2>3. g[k] \in T /\ Len(g[k]) = Len(g[k - 1]) + Len(P(k))
    BY <2>1, <2>2, BytesJoin
  <2>4. count[k] = count[k - 1] + recs[k].lit
    BY <1>5 DEF count, n
  <2>5. Len(g[k]) = count[k]
    BY <2>1, <2>2, <2>3, <2>4
  <2>6. k \in 0 .. n
    BY <1>12
  <2> QED BY <2>3, <2>5, <2>6
<1>19. n \in G
  <2> HIDE DEF G
  <2>1. \A k \in 0 .. n : k \in G
    BY <1>12, <1>17, <1>18, SetInduction
  <2> QED BY <1>12, <2>1
<1>20. g[n] \in T /\ Len(g[n]) = count[n]
  BY <1>19
<1>21. g[n] \o rest \in T /\ Len(g[n] \o rest) = Len(g[n]) + Len(rest)
  BY <1>9, <1>20, BytesJoin
<1> QED BY <1>1, <1>3, <1>6, <1>9, <1>20, <1>21

-----------------------------------------------------------------------------
(* The blocks that are written.                                            *)
Written == [start: Nat, size: Nat, recs: Seq(RecordSet), literalBytes: Nat,
            lits: Seq(Bytes), digest: Seq(Bytes)]

Faithful(o, f, b) ==
  /\ \E e \in Nat : GoodList(o, f, b.start, b.recs, e) /\ e <= b.size
  /\ b.literalBytes = Len(b.lits)

OutInv == out \in Seq(Written) /\ \A n \in 1 .. Len(out) : Faithful(opt, file, out[n])

LEMMA OutFirst == Init => OutInv
<1> SUFFICES ASSUME Init PROVE OutInv
  OBVIOUS
<1>1. out = <<>>
  BY DEF Init
<1> HIDE DEF Written
<1> QED BY <1>1 DEF OutInv

LEMMA OutWrite ==
  ASSUME RingInv, WorkInv, OutInv, WriteBlock
  PROVE  OutInv'
<1> DEFINE b == [start |-> blockStart, size |-> filled, recs |-> stat,
                 literalBytes |-> literalBytes, lits |-> Literals(stat),
                 digest |-> Part(ring, bufOffset, filled)]
<1>1. pc = "write" /\ UNCHANGED <<file, opt>>
  BY DEF WriteBlock, inputVars
<1>2. out' = Append(out, b)
  BY WorkWrite DEF WriteBlock
<1>3. Busy /\ WriteListed
  BY <1>1 DEF Busy, BusyAt, WorkInv, ListInv, WriteListed
<1>4. blockStart \in Nat /\ filled \in Nat /\ bufOffset \in Int /\ ring \in Seq(Bytes) /\ Writable(opt)
  BY <1>3, BlockTyped, OptionsTyped DEF RingInv, Bytes
<1>5. PICK e \in Nat : Listed(opt, file, blockStart, literalBytes, stat, e, filled)
  BY <1>3 DEF WriteListed
<1>6. Literals(stat) \in Seq(Bytes) /\ Len(Literals(stat)) = literalBytes
  BY <1>3, <1>5, LiteralsCounted
<1>7. GoodList(opt, file, blockStart, stat, e) /\ e <= filled /\ literalBytes \in Nat
  <2>1. literalBytes \in 0 .. filled
    BY <1>4, <1>5, ListedTyped
  <2> QED BY <1>4, <1>5, <2>1 DEF Listed
<1>8. stat \in Seq(RecordSet)
  BY <1>7 DEF GoodList
<1>9. Part(ring, bufOffset, filled) \in Seq(Bytes)
  BY <1>4, PartBytes
<1>10. b \in Written
  BY <1>4, <1>6, <1>7, <1>8, <1>9 DEF Written
<1>11. Faithful(opt, file, b)
  <2>1. b.start = blockStart /\ b.recs = stat /\ b.size = filled /\ b.literalBytes = literalBytes
        /\ b.lits = Literals(stat)
    OBVIOUS
  <2> HIDE DEF b
  <2> QED BY <1>6, <1>7, <2>1 DEF Faithful
<1> HIDE DEF b
<1>12. out' \in Seq(Written) /\ Len(out') = Len(out) + 1 /\ Len(out) \in Nat
       /\ \A n \in 1 .. Len(out') : out'[n] = b \/ (n \in 1 .. Len(out) /\ out'[n] = out[n])
  <2> DEFINE S == Written
  <2>1. out \in Seq(S) /\ b \in S
    BY <1>10 DEF OutInv
  <2> HIDE DEF S
  <2>2. out' \in Seq(S) /\ Len(out') = Len(out) + 1 /\ Len(out) \in Nat
    BY <1>2, <2>1
  <2>3. ASSUME NEW n \in 1 .. Len(out') PROVE out'[n] = b \/ (n \in 1 .. Len(out) /\ out'[n] = out[n])
    BY <1>2, <2>1, <2>2
  <2> QED BY <2>2, <2>3 DEF S
<1>13. ASSUME NEW n \in 1 .. Len(out') PROVE Faithful(opt, file, out'[n])
  <2>1. out'[n] = b \/ (n \in 1 .. Len(out) /\ out'[n] = out[n])
    BY <1>12
  <2> QED BY <1>11, <2>1 DEF OutInv
<1> QED BY <1>1, <1>12, <1>13 DEF OutInv

LEMMA OutNext ==
  ASSUME RingInv, WorkInv, OutInv, [Next]_vars
  PROVE  OutInv'
<1>1. CASE WriteBlock
  BY <1>1, OutWrite
<1>2. CASE ~ WriteBlock
  <2>1. UNCHANGED <<file, opt, out>>
    <3>1. CASE Find \/ EndInmem
      <4>1. UNCHANGED <<file, opt>>
        BY <3>1, FindIsBusy DEF BusyStep, inputVars
      <4> QED BY <3>1, <4>1 DEF Find, EndInmem
    <3>2. CASE ReadFirst \/ ReadAhead \/ Finish
      BY <3>2 DEF ReadFirst, ReadAhead, Finish, inputVars
    <3>3. CASE UNCHANGED vars
      BY <3>3 DEF vars, inputVars
    <3> QED BY <1>2, <3>1, <3>2, <3>3 DEF Next, Stopped
  <2> QED BY <2>1 DEF OutInv
<1> QED BY <1>1, <1>2

-----------------------------------------------------------------------------
(* What the blocks are is what the properties say of them. *)
LEMMA FaithfulReproduces ==
  ASSUME RingInv, NEW b \in Written, Faithful(opt, file, b)
  PROVE  Reproduces(b)
<1>1. PICK e \in Nat : GoodList(opt, file, b.start, b.recs, e) /\ e <= b.size
  BY DEF Faithful
<1>2. Writable(opt) /\ file \in Seq(Bytes)
  BY OptionsTyped DEF Bytes
<1> DEFINE start == b.start
           size0 == b.size
           recs == b.recs
           end == EndsOf(opt, recs)
           n == Len(recs)
<1>3. start \in Nat /\ size0 \in Nat /\ recs \in Seq(RecordSet)
  BY DEF Written
<1>4. n \in Nat /\ DOMAIN recs = 1 .. n
  BY <1>3
<1> HIDE DEF start, size0, recs
<1>5. GoodList(opt, file, start, recs, e) /\ e <= size0
  BY <1>1 DEF start, size0, recs
<1>6. /\ end \in [0 .. n -> Nat] /\ end[0] = 0 /\ \A k \in 0 .. n : end[k] <= e
      /\ \A k \in 1 .. n : end[k] = end[k - 1] + recs[k].lit + Covered(opt, recs[k])
  BY <1>2, <1>5, GoodListEnds
<1>7. Ends(recs) = end
  BY DEF Ends, EndsOf
<1>8. \A k \in 1 .. n : Good(opt, file, recs[k], start + end[k - 1])
  BY <1>5 DEF GoodList
<1> HIDE DEF end, n
<1>9. ASSUME NEW k \in 1 .. n
      PROVE  LET anchor == start + (IF k = 1 THEN 0 ELSE end[k - 1])
                 m == Decoded(opt.round, opt.base, recs[k], anchor)
             IN  /\ 0 <= m.src /\ m.src < m.dest /\ m.dest + m.len <= start + size0
                 /\ Part(file, m.src, m.len) = Part(file, m.dest, m.len)
  <2> DEFINE rec == recs[k]
             from == start + (IF k = 1 THEN 0 ELSE end[k - 1])
             m == Decoded(opt.round, opt.base, rec, from)
  <2>1. k - 1 \in 0 .. n /\ k \in 0 .. n
    BY <1>4
  <2>2. end[k - 1] \in Nat /\ end[k] \in Nat /\ end[k] <= e
    BY <1>6, <2>1
  <2>3. from = start + end[k - 1] /\ from \in Nat
    BY <1>3, <1>6, <2>2
  <2>4. rec \in RecordSet /\ rec.lit \in Nat
    <3>1. rec \in RecordSet
      BY <1>3 DEF n
    <3> QED BY <3>1 DEF RecordSet
  <2> HIDE DEF from, rec
  <2>5. Good(opt, file, rec, from)
    BY <1>8, <2>3 DEF rec
  <2>6. 0 <= m.src /\ m.src < m.dest /\ Copy(file, m.src, m.dest, m.len)
    BY <2>5 DEF Good
  <2>7. m.dest = from + rec.lit /\ m.len = Covered(opt, rec)
    BY ReadElsewhere
  <2>8. m.src \in Int /\ m.len \in Nat /\ m.dest \in Int
    <3>1. Covered(opt, rec) \in Nat
      BY <1>2, <2>4, CoveredIsNat
    <3>2. m.src \in Int
      BY <1>2, <2>3, <2>4, DecodedTyped
    <3> QED BY <2>3, <2>4, <2>7, <3>1, <3>2
  <2> HIDE DEF m
  <2>9. m.dest + m.len <= start + size0
    <3>1. end[k] = end[k - 1] + rec.lit + Covered(opt, rec)
      BY <1>6 DEF rec
    <3>2. Covered(opt, rec) \in Nat
      BY <2>7, <2>8
    <3> DEFINE c == Covered(opt, rec)
               x == end[k]
               y == end[k - 1]
               z == rec.lit
    <3>3. m.dest + m.len = start + end[k]
      <4>1. c \in Nat /\ x \in Nat /\ y \in Nat /\ z \in Nat /\ x = y + z + c /\ from = start + y
            /\ m.dest = from + z /\ m.len = c
        BY <2>2, <2>3, <2>4, <2>7, <3>1, <3>2
      <4> HIDE DEF c, x, y, z
      <4>2. m.dest + m.len = start + x
        BY <1>3, <4>1
      <4> QED BY <4>2 DEF x
    <3> QED BY <1>3, <1>5, <2>2, <3>3
  <2>10. Part(file, m.src, m.len) = Part(file, m.dest, m.len)
    <3> DEFINE s == m.src
               d == m.dest
               l == m.len
    <3>1. s \in Int /\ d \in Int /\ l \in Nat /\ Copy(file, s, d, l)
      BY <2>6, <2>8
    <3> HIDE DEF s, d, l
    <3>2. ASSUME NEW j \in 1 .. l PROVE ByteAt(file, s + j) = ByteAt(file, d + j)
      <4>1. j - 1 \in 0 .. l - 1 /\ s + (j - 1) + 1 = s + j /\ d + (j - 1) + 1 = d + j
        BY <3>1
      <4>2. ByteAt(file, s + (j - 1) + 1) = ByteAt(file, d + (j - 1) + 1)
        BY <3>1, <4>1 DEF Copy
      <4> QED BY <4>1, <4>2
    <3>3. Part(file, s, l) = Part(file, d, l)
      BY <1>2, <3>1, <3>2, PartsEqual
    <3> QED BY <3>3 DEF s, d, l
  <2> QED BY <2>6, <2>9, <2>10 DEF m, from, rec
<1> QED BY <1>4, <1>7, <1>9 DEF Reproduces, start, size0, recs, n

LEMMA OutSays ==
  ASSUME RingInv, WorkInv, OutInv
  PROVE  RecordsReproduce /\ HeaderAgrees
<1>1. DOMAIN out = 1 .. Len(out) /\ \A n \in 1 .. Len(out) : out[n] \in Written
  <2> HIDE DEF Written
  <2> QED BY DEF OutInv
<1>2. ASSUME NEW n \in DOMAIN out PROVE Reproduces(out[n]) /\ out[n].literalBytes = Len(out[n].lits)
  <2>1. out[n] \in Written /\ Faithful(opt, file, out[n])
    BY <1>1 DEF OutInv
  <2>2. Reproduces(out[n])
    BY <2>1, FaithfulReproduces
  <2> QED BY <2>1, <2>2 DEF Faithful
<1>3. pc # "failed"
  BY DEF WorkInv, ListInv
<1> QED BY <1>2, <1>3 DEF RecordsReproduce, HeaderAgrees

-----------------------------------------------------------------------------
(* All of it together: each part is kept by every step once those before   *)
(* it hold.                                                                *)
EncoderInv == RingInv /\ KindInv /\ HashInv /\ GridInv /\ CdcInv /\ WorkInv /\ OutInv

LEMMA EncoderInvariant == Spec => []EncoderInv
<1>1. Init => EncoderInv
  BY RingFirst, KindFirst, HashFirst, GridFirst, CdcFirst, WorkFirst, OutFirst DEF EncoderInv
<1>2. EncoderInv /\ [Next]_vars => EncoderInv'
  <2> SUFFICES ASSUME EncoderInv, [Next]_vars PROVE EncoderInv'
    OBVIOUS
  <2>1. RingInv /\ KindInv /\ HashInv /\ GridInv /\ CdcInv /\ WorkInv /\ OutInv
    BY DEF EncoderInv
  <2>2. RingInv' /\ KindInv'
    BY <2>1, RingNext, KindNext
  <2>3. HashInv'
    BY <2>1, HashNext
  <2>4. GridInv' /\ CdcInv'
    BY <2>1, GridNext, CdcNextInv
  <2>5. WorkInv' /\ OutInv'
    BY <2>1, WorkNext, OutNext
  <2> QED BY <2>2, <2>3, <2>4, <2>5 DEF EncoderInv
<1> QED BY <1>1, <1>2, PTL DEF Spec

LEMMA InvariantTypes ==
  ASSUME EncoderInv
  PROVE  TypeOK
<1>1. RingInv /\ HashInv /\ GridInv /\ CdcInv /\ WorkInv
  BY DEF EncoderInv
<1>2. file \in Files
  BY <1>1 DEF RingInv
<1>3. pc \in {"begin", "next", "prepare", "inmem", "dict", "first", "window", "chunk",
              "scan", "hash", "probe", "stripe", "chunks", "write", "done", "failed"}
  BY <1>1 DEF RingInv, BusyAt
<1>4. Len(ring) = RingSize(opt) /\ bufOffset + opt.bufsize <= Len(ring)
  BY <1>1, OptionsTyped DEF RingInv, RingLen, BlockSize
<1>5. filled \in 0 .. opt.bufsize /\ nextFilled \in 0 .. opt.bufsize
  BY <1>1 DEF RingInv, BlockSize
<1>6. \A h \in DOMAIN hasharr : hasharr[h] \in 0 .. Len(ring) - 1
  <2>1. hasharr \in [0 .. HashSlots - 1 -> 0 .. RingLen - 1] /\ Len(ring) = RingLen
    BY <1>1 DEF HashInv, RingInv
  <2> QED BY <2>1
<1>7. inserted \subseteq DOMAIN digests
  <2>1. DOMAIN digests = 0 .. Slots - 1
    BY <1>1 DEF GridInv
  <2>2. ASSUME NEW k \in inserted PROVE k \in 0 .. Slots - 1
    <3>1. k \in Nat /\ k * Chunk < FileLen
      BY <1>1 DEF WorkInv, InsertInv
    <3> QED BY <1>1, <3>1, SlotForChunk
  <2> QED BY <2>1, <2>2
<1>8. Len(startarr) < Most(Total, 1)
  BY <1>1 DEF CdcInv
<1>9. literalBytes \in 0 .. opt.bufsize
  BY <1>1 DEF WorkInv, ListInv, BlockSize
<1> QED BY <1>2, <1>3, <1>4, <1>5, <1>6, <1>7, <1>8, <1>9 DEF TypeOK

(* Whatever the file and the options, positions stay in the ring and in    *)
(* the block, and every chunk that is put in the table has a slot there.   *)
THEOREM TypeCorrect == Spec => []TypeOK
<1>1. EncoderInv => TypeOK
  BY InvariantTypes
<1> QED BY <1>1, EncoderInvariant, PTL

(* Whatever the file and the options, whichever chunks a lookup finds and  *)
(* wherever a block is cut: every record of the archive decodes, at the    *)
(* place a decoder reads it, to the bytes the file has there.              *)
THEOREM RecordsRight == Spec => []RecordsReproduce
<1>1. EncoderInv => RecordsReproduce
  BY OutSays DEF EncoderInv
<1> QED BY <1>1, EncoderInvariant, PTL

(* And every header counts the literals of its block; no record runs past  *)
(* the block, none is too short to be written, and the list of the         *)
(* in-memory pass is never read past its end: the compressor does not      *)
(* refuse a list of its own.                                               *)
THEOREM HeadersRight == Spec => []HeaderAgrees
<1>1. EncoderInv => HeaderAgrees
  BY OutSays DEF EncoderInv
<1> QED BY <1>1, EncoderInvariant, PTL
=============================================================================

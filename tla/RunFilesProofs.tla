--------------------------- MODULE RunFilesProofs ---------------------------
(***************************************************************************)
(* The rule of the files of a run, for any number of names and files, any  *)
(* options, any directory and any steps of another process.                *)
(***************************************************************************)
EXTENDS RunFiles, TLAPS

-----------------------------------------------------------------------------
(* The list of steps.                                                      *)

ReadSteps  == {"noteInput", "noteIndex"}
CheckSteps == {"noteInput", "noteIndex", "noteStderr", "noteStdout", "checkNames", "stamp"}
UndoSteps  == {"close", "removeSpool", "deleteTemps", "removeClaimed", "report"}
Opens      == {"createIndex", "createOutput"}
Spools     == {"spool", "decodeRest"}
Closers    == {"copyStdin", "removeSpool", "close"}

(* A step that works on a name is there only when the name was given.      *)
Allowed(q) ==
  {s \in Steps : /\ s = "stamp" => q.fi # Std
                 /\ s = "noteIndex" => q.index # NoName
                 /\ s = "createIndex" => q.index # NoName
                 /\ s = "createOutput" => q.fo # Std}

(* Files are noted as read before all else, and every check is made before *)
(* anything is opened.                                                     *)
Lead(S, s) == \A i, j \in DOMAIN s : s[i] \in S /\ s[j] \notin S => i < j

(* A step that closes the scratch file comes before temporaries are        *)
(* deleted.                                                                *)
ClosesFrom(s, from) ==
  \E j \in DOMAIN s : /\ j >= from /\ s[j] \in Closers
                      /\ \A k \in DOMAIN s : s[k] = "deleteTemps" => j < k

Closes(s) == \A i \in DOMAIN s : s[i] \in Spools => ClosesFrom(s, i + 1)
OpensFirst(s) ==
  \A i, j \in DOMAIN s : s[i] \in Opens \cup Spools /\ s[j] = "deleteTemps" => i < j

Ordered(s) == Lead(ReadSteps, s) /\ Lead(CheckSteps, s) /\ Closes(s) /\ OpensFirst(s)

Pending(S) == \E i \in DOMAIN todo : todo[i] \in S

(* A file that is being opened has a name, and its step is the first.      *)
Named ==
  /\ spool.named => spool.name \in Names
  /\ opening # NotOpening =>
       /\ todo # <<>> /\ Head(todo) \in (IF opening.role = "scratch" THEN Spools ELSE Opens)
       /\ opening.name \in Names /\ opening.role \in Writers

TodoOK ==
  /\ todo \in Seq(Allowed(request)) /\ Ordered(todo)
  /\ failed => todo \in Seq(UndoSteps)

(* Of a list in two parts, what is known of each.                          *)
LEMMA SeqOf ==
  ASSUME NEW S, NEW s \in Seq(S), NEW i \in DOMAIN s
  PROVE  s[i] \in S
  OBVIOUS

LEMMA ConcatAt ==
  ASSUME NEW S, NEW s \in Seq(S), NEW t \in Seq(S), NEW i \in DOMAIN (s \o t)
  PROVE  \/ i \in DOMAIN s /\ (s \o t)[i] = s[i]
         \/ i - Len(s) \in DOMAIN t /\ i > Len(s) /\ (s \o t)[i] = t[i - Len(s)]
  OBVIOUS

LEMMA ConcatSeq ==
  ASSUME NEW S, NEW s \in Seq(S), NEW t \in Seq(S)
  PROVE  s \o t \in Seq(S)
  OBVIOUS

LEMMA IfSeq ==
  ASSUME NEW S, NEW c \in BOOLEAN, NEW step, c => step \in S
  PROVE  If(c, step) \in Seq(S)
  BY DEF If

(* What leads still leads when something else is added behind.             *)
LEMMA LeadStarts ==
  ASSUME NEW S, NEW s \in Seq(S)
  PROVE  Lead(S, s)
  BY DEF Lead

LEMMA LeadGrows ==
  ASSUME NEW A, NEW S, NEW s \in Seq(A), Lead(S, s), NEW t \in Seq(A \ S)
  PROVE  Lead(S, s \o t)
<1> SUFFICES ASSUME NEW i \in DOMAIN (s \o t), NEW j \in DOMAIN (s \o t),
                    (s \o t)[i] \in S, (s \o t)[j] \notin S
             PROVE  i < j
  BY DEF Lead
<1>1. t \in Seq(A)
  OBVIOUS
<1>2. i \in DOMAIN s /\ s[i] \in S
  <2>1. CASE i - Len(s) \in DOMAIN t /\ (s \o t)[i] = t[i - Len(s)]
    BY <2>1, SeqOf
  <2> QED BY <1>1, <2>1, ConcatAt
<1>3. CASE j \in DOMAIN s /\ (s \o t)[j] = s[j]
  BY <1>2, <1>3 DEF Lead
<1>4. CASE j > Len(s)
  BY <1>2, <1>4
<1> QED BY <1>1, <1>3, <1>4, ConcatAt

LEMMA LeadTail ==
  ASSUME NEW A, NEW S, NEW s \in Seq(A), s # <<>>, Lead(S, s)
  PROVE  /\ Lead(S, Tail(s))
         /\ Head(s) \notin S => \A i \in DOMAIN s : s[i] \notin S
  BY DEF Lead

(* Scratch files are closed, and outputs opened, before temporaries are    *)
(* deleted: in a list without a deletion, and in one that goes on without  *)
(* opening anything.                                                       *)
LEMMA ClosesStarts ==
  ASSUME NEW A, NEW s \in Seq(A \ {"deleteTemps"}), NEW t \in Seq(A \ {"deleteTemps"}),
         t # <<>>, t[Len(t)] \in Closers
  PROVE  Closes(s \o t)
<1> SUFFICES ASSUME NEW i \in DOMAIN (s \o t), (s \o t)[i] \in Spools
             PROVE  ClosesFrom(s \o t, i + 1)
  BY DEF Closes
<1>1. s \o t \in Seq(A \ {"deleteTemps"}) /\ Len(s \o t) = Len(s) + Len(t)
  OBVIOUS
<1>2. (s \o t)[Len(s \o t)] = t[Len(t)] /\ Len(s \o t) \in DOMAIN (s \o t)
  OBVIOUS
<1>3. i # Len(s \o t)
  BY <1>2 DEF Closers, Spools
<1>4. \A k \in DOMAIN (s \o t) : (s \o t)[k] # "deleteTemps"
  BY <1>1, SeqOf
<1> QED BY <1>1, <1>2, <1>3, <1>4 DEF ClosesFrom

LEMMA ClosesGrows ==
  ASSUME NEW A, NEW s \in Seq(A), Closes(s), NEW t \in Seq(A \ Spools)
  PROVE  Closes(s \o t)
<1> SUFFICES ASSUME NEW i \in DOMAIN (s \o t), (s \o t)[i] \in Spools
             PROVE  ClosesFrom(s \o t, i + 1)
  BY DEF Closes
<1>1. t \in Seq(A)
  OBVIOUS
<1>2. i \in DOMAIN s /\ s[i] \in Spools
  <2>1. CASE i - Len(s) \in DOMAIN t /\ (s \o t)[i] = t[i - Len(s)]
    BY <2>1, SeqOf
  <2> QED BY <1>1, <2>1, ConcatAt
<1>3. PICK j \in DOMAIN s : /\ j >= i + 1 /\ s[j] \in Closers
                            /\ \A k \in DOMAIN s : s[k] = "deleteTemps" => j < k
  BY <1>2 DEF Closes, ClosesFrom
<1>4. j \in DOMAIN (s \o t) /\ (s \o t)[j] = s[j]
  OBVIOUS
<1>5. ASSUME NEW k \in DOMAIN (s \o t), (s \o t)[k] = "deleteTemps" PROVE j < k
  <2>1. CASE k \in DOMAIN s /\ (s \o t)[k] = s[k]
    BY <1>3, <1>5, <2>1
  <2>2. CASE k > Len(s)
    BY <2>2
  <2> QED BY <1>1, <2>1, <2>2, ConcatAt
<1> QED BY <1>3, <1>4, <1>5 DEF ClosesFrom

LEMMA OpensStarts ==
  ASSUME NEW A, NEW s \in Seq(A \ {"deleteTemps"})
  PROVE  OpensFirst(s)
  BY SeqOf DEF OpensFirst

LEMMA OpensGrows ==
  ASSUME NEW A, NEW s \in Seq(A), OpensFirst(s), NEW t \in Seq(A \ (Opens \cup Spools))
  PROVE  OpensFirst(s \o t)
<1> SUFFICES ASSUME NEW i \in DOMAIN (s \o t), NEW j \in DOMAIN (s \o t),
                    (s \o t)[i] \in Opens \cup Spools, (s \o t)[j] = "deleteTemps"
             PROVE  i < j
  BY DEF OpensFirst
<1>1. t \in Seq(A)
  OBVIOUS
<1>2. i \in DOMAIN s /\ s[i] \in Opens \cup Spools
  <2>1. CASE i - Len(s) \in DOMAIN t /\ (s \o t)[i] = t[i - Len(s)]
    BY <2>1, SeqOf
  <2> QED BY <1>1, <2>1, ConcatAt
<1>3. CASE j \in DOMAIN s /\ (s \o t)[j] = s[j]
  BY <1>2, <1>3 DEF OpensFirst
<1>4. CASE j > Len(s)
  BY <1>2, <1>4
<1> QED BY <1>1, <1>3, <1>4, ConcatAt

(* The checks in front change nothing of that.                             *)
LEMMA ChecksInFront ==
  ASSUME NEW A, NEW c \in Seq(A \ (Opens \cup Spools \cup {"deleteTemps"})), NEW s \in Seq(A),
         Closes(s), OpensFirst(s)
  PROVE  Closes(c \o s) /\ OpensFirst(c \o s)
<1>1. c \in Seq(A)
  OBVIOUS
<1>2. ASSUME NEW i \in DOMAIN (c \o s), (c \o s)[i] \in Opens \cup Spools \cup {"deleteTemps"}
      PROVE  i - Len(c) \in DOMAIN s /\ (c \o s)[i] = s[i - Len(c)]
  <2>1. CASE i \in DOMAIN c /\ (c \o s)[i] = c[i]
    BY <1>2, <2>1, SeqOf
  <2> QED BY <1>1, <2>1, ConcatAt
<1>3. OpensFirst(c \o s)
  <2> SUFFICES ASSUME NEW i \in DOMAIN (c \o s), NEW j \in DOMAIN (c \o s),
                      (c \o s)[i] \in Opens \cup Spools, (c \o s)[j] = "deleteTemps"
               PROVE  i < j
    BY DEF OpensFirst
  <2>1. /\ i - Len(c) \in DOMAIN s /\ (c \o s)[i] = s[i - Len(c)]
        /\ j - Len(c) \in DOMAIN s /\ (c \o s)[j] = s[j - Len(c)]
    BY <1>2
  <2>2. i - Len(c) < j - Len(c)
    BY <2>1 DEF OpensFirst
  <2> QED BY <2>2
<1>4. Closes(c \o s)
  <2> SUFFICES ASSUME NEW i \in DOMAIN (c \o s), (c \o s)[i] \in Spools
               PROVE  ClosesFrom(c \o s, i + 1)
    BY DEF Closes
  <2>1. i - Len(c) \in DOMAIN s /\ s[i - Len(c)] \in Spools
    BY <1>2
  <2>2. PICK j \in DOMAIN s : /\ j >= (i - Len(c)) + 1 /\ s[j] \in Closers
                              /\ \A k \in DOMAIN s : s[k] = "deleteTemps" => j < k
    BY <2>1 DEF Closes, ClosesFrom
  <2>3. /\ Len(c) + j \in DOMAIN (c \o s) /\ (c \o s)[Len(c) + j] = s[j]
        /\ Len(c) + j >= i + 1
    BY <2>2
  <2>4. ASSUME NEW k \in DOMAIN (c \o s), (c \o s)[k] = "deleteTemps" PROVE Len(c) + j < k
    <3>1. k - Len(c) \in DOMAIN s /\ s[k - Len(c)] = "deleteTemps"
      BY <1>2, <2>4
    <3>2. j < k - Len(c)
      BY <2>2, <3>1
    <3> QED BY <3>2
  <2> QED BY <2>2, <2>3, <2>4 DEF ClosesFrom
<1> QED BY <1>3, <1>4

(* Taking the first step keeps the order.                                  *)
LEMMA OrderedTail ==
  ASSUME NEW A, NEW s \in Seq(A), s # <<>>, Ordered(s)
  PROVE  Ordered(Tail(s))
<1>1. /\ \A i \in DOMAIN Tail(s) : i + 1 \in DOMAIN s /\ Tail(s)[i] = s[i + 1]
      /\ \A i \in DOMAIN s : i > 1 => i - 1 \in DOMAIN Tail(s) /\ Tail(s)[i - 1] = s[i]
  OBVIOUS
<1>2. Lead(ReadSteps, Tail(s)) /\ Lead(CheckSteps, Tail(s))
  BY LeadTail DEF Ordered
<1>3. OpensFirst(Tail(s))
  BY <1>1 DEF Ordered, OpensFirst
<1>4. Closes(Tail(s))
  <2> SUFFICES ASSUME NEW i \in DOMAIN Tail(s), Tail(s)[i] \in Spools
               PROVE  ClosesFrom(Tail(s), i + 1)
    BY DEF Closes
  <2>1. PICK j \in DOMAIN s : /\ j >= i + 2 /\ s[j] \in Closers
                              /\ \A k \in DOMAIN s : s[k] = "deleteTemps" => j < k
    <3>1. i + 1 \in DOMAIN s /\ s[i + 1] \in Spools
      BY <1>1
    <3>2. ClosesFrom(s, i + 1 + 1)
      BY <3>1 DEF Ordered, Closes
    <3> QED BY <3>1, <3>2 DEF ClosesFrom
  <2>2. j - 1 \in DOMAIN Tail(s) /\ Tail(s)[j - 1] = s[j] /\ j - 1 >= i + 1
    BY <1>1, <2>1
  <2>3. \A k \in DOMAIN Tail(s) : Tail(s)[k] = "deleteTemps" => j - 1 < k
    BY <1>1, <2>1
  <2> QED BY <2>1, <2>2, <2>3 DEF ClosesFrom
<1> QED BY <1>2, <1>3, <1>4 DEF Ordered

-----------------------------------------------------------------------------
(* The script of every run is in order.                                    *)

LEMMA LeadAlso ==
  ASSUME NEW A, NEW S, NEW s \in Seq(A), Lead(S, s), NEW t \in Seq(A \ S)
  PROVE  s \o t \in Seq(A) /\ Lead(S, s \o t)
<1>1. t \in Seq(A)
  OBVIOUS
<1> QED BY <1>1, ConcatSeq, LeadGrows

LEMMA WorkGoesOn ==
  ASSUME NEW A, NEW s \in Seq(A), Closes(s), OpensFirst(s), NEW t \in Seq(A \ (Opens \cup Spools))
  PROVE  s \o t \in Seq(A) /\ Closes(s \o t) /\ OpensFirst(s \o t)
<1>1. t \in Seq(A) /\ t \in Seq(A \ Spools)
  OBVIOUS
<1> QED BY <1>1, ConcatSeq, ClosesGrows, OpensGrows

LEMMA One ==
  ASSUME NEW S
  PROVE  <<>> \in Seq(S) /\ \A x \in S : <<x>> \in Seq(S)
  OBVIOUS

LEMMA Two ==
  ASSUME NEW S, NEW x \in S, NEW y \in S
  PROVE  <<x, y>> \in Seq(S)
  OBVIOUS

LEMMA Three ==
  ASSUME NEW S, NEW x \in S, NEW y \in S, NEW z \in S
  PROVE  <<x, y, z>> \in Seq(S) /\ <<x, y, z>> # <<>> /\ <<x, y, z>>[Len(<<x, y, z>>)] = z
  OBVIOUS

LEMMA ChecksOrdered ==
  ASSUME NEW q \in Request
  PROVE  /\ Checks(q) \in Seq(Allowed(q) \cap CheckSteps)
         /\ Lead(ReadSteps, Checks(q))
<1> DEFINE A == Allowed(q) \cap CheckSteps
           a == <<"noteInput">> \o If(q.mode = "decompress" /\ q.index # NoName, "noteIndex")
           b == If(q.talks, "noteStderr")
           c == If(q.fo = Std, "noteStdout")
           d == If(q.fi # Std, "stamp")
<1>1. /\ "noteInput" \in A \cap ReadSteps /\ (q.index # NoName => "noteIndex" \in A \cap ReadSteps)
      /\ {"noteStderr", "noteStdout", "checkNames"} \subseteq A \ ReadSteps
      /\ q.fi # Std => "stamp" \in A \ ReadSteps
  BY DEF Allowed, CheckSteps, ReadSteps, Steps
<1>2. q.talks \in BOOLEAN
  BY DEF Request
<1>3. Checks(q) = (((a \o b) \o c) \o <<"checkNames">>) \o d
  BY DEF Checks
<1>4. a \in Seq(A \cap ReadSteps)
  <2>1. If(q.mode = "decompress" /\ q.index # NoName, "noteIndex") \in Seq(A \cap ReadSteps)
    BY <1>1, IfSeq
  <2> QED BY <1>1, <2>1, ConcatSeq
<1>5. b \in Seq(A \ ReadSteps)
  BY <1>1, <1>2, IfSeq
<1>6. c \in Seq(A \ ReadSteps) /\ d \in Seq(A \ ReadSteps) /\ <<"checkNames">> \in Seq(A \ ReadSteps)
  BY <1>1, IfSeq, One
<1> HIDE DEF A, a, b, c, d
<1>7. a \in Seq(A) /\ Lead(ReadSteps, a)
  BY <1>4, LeadStarts
<1>8. a \o b \in Seq(A) /\ Lead(ReadSteps, a \o b)
  BY <1>5, <1>7, LeadAlso
<1>9. (a \o b) \o c \in Seq(A) /\ Lead(ReadSteps, (a \o b) \o c)
  BY <1>6, <1>8, LeadAlso
<1>10. /\ ((a \o b) \o c) \o <<"checkNames">> \in Seq(A)
       /\ Lead(ReadSteps, ((a \o b) \o c) \o <<"checkNames">>)
  BY <1>6, <1>9, LeadAlso
<1>11. /\ (((a \o b) \o c) \o <<"checkNames">>) \o d \in Seq(A)
       /\ Lead(ReadSteps, (((a \o b) \o c) \o <<"checkNames">>) \o d)
  BY <1>6, <1>10, LeadAlso
<1> QED BY <1>3, <1>11 DEF A

LEMMA CompressOrdered ==
  ASSUME NEW q \in Request
  PROVE  /\ Compress(q) \in Seq(Allowed(q) \ CheckSteps)
         /\ Closes(Compress(q)) /\ OpensFirst(Compress(q))
<1> DEFINE A == Allowed(q) \ CheckSteps
           B == A \ {"deleteTemps"}
           C == A \ (Opens \cup Spools)
           a == IF q.fi = Std THEN <<"spool", "copyStdin">> ELSE <<>>
           b == If(q.index # NoName, "createIndex")
           c == If(q.dup, "dedup")
           d == If(~ q.dup, "openInput")
           e == If(q.fo # Std, "createOutput")
           t == <<"encode", "encodeRest", "close">>
           u == IF q.dup THEN <<"deleteTemps", "checkUnchanged">>
                ELSE <<"checkUnchanged", "removeSpool", "deleteTemps">>
           v == If(q.delete /\ q.fi # Std, "delete")
           w == (((a \o b) \o c) \o d) \o e
<1>1. /\ {"spool", "copyStdin", "dedup", "openInput", "encode", "encodeRest", "close"} \subseteq B
      /\ (q.index # NoName => "createIndex" \in B) /\ (q.fo # Std => "createOutput" \in B)
      /\ {"deleteTemps", "checkUnchanged", "removeSpool", "delete"} \subseteq C
      /\ "close" \in Closers
  BY DEF Allowed, CheckSteps, Steps, Closers, Opens, Spools
<1>2. q.dup \in BOOLEAN /\ q.delete \in BOOLEAN
  BY DEF Request
<1>3. Compress(q) = ((w \o t) \o u) \o v
  BY DEF Compress
<1>4. a \in Seq(B)
  BY <1>1, One, Two
<1>5. b \in Seq(B) /\ e \in Seq(B)
  BY <1>1, IfSeq
<1>6. c \in Seq(B) /\ d \in Seq(B)
  BY <1>1, <1>2, IfSeq
<1>7. t \in Seq(B) /\ t # <<>> /\ t[Len(t)] \in Closers
  BY <1>1, Three
<1>8. u \in Seq(C)
  BY <1>1, Two, Three
<1>9. v \in Seq(C)
  BY <1>1, <1>2, IfSeq
<1> HIDE DEF a, b, c, d, e, t, u, v
<1>10. w \in Seq(B)
  <2>1. a \o b \in Seq(B)
    BY <1>4, <1>5, ConcatSeq
  <2>2. (a \o b) \o c \in Seq(B)
    BY <1>6, <2>1, ConcatSeq
  <2>3. ((a \o b) \o c) \o d \in Seq(B)
    BY <1>6, <2>2, ConcatSeq
  <2> QED BY <1>5, <2>3, ConcatSeq
<1> HIDE DEF w
<1>11. w \o t \in Seq(B) /\ Closes(w \o t) /\ OpensFirst(w \o t)
  BY <1>7, <1>10, ConcatSeq, ClosesStarts, OpensStarts
<1>12. w \o t \in Seq(A)
  BY <1>11
<1> HIDE DEF A
<1>13. (w \o t) \o u \in Seq(A) /\ Closes((w \o t) \o u) /\ OpensFirst((w \o t) \o u)
  BY <1>8, <1>11, <1>12, WorkGoesOn
<1>14. /\ ((w \o t) \o u) \o v \in Seq(A)
       /\ Closes(((w \o t) \o u) \o v) /\ OpensFirst(((w \o t) \o u) \o v)
  BY <1>9, <1>13, WorkGoesOn
<1> QED BY <1>3, <1>14 DEF A

LEMMA DecompressOrdered ==
  ASSUME NEW q \in Request, q.dup => q.fo # Std
  PROVE  /\ Decompress(q) \in Seq(Allowed(q) \ CheckSteps)
         /\ Closes(Decompress(q)) /\ OpensFirst(Decompress(q))
<1> DEFINE A == Allowed(q) \ CheckSteps
           B == A \ {"deleteTemps"}
           C == A \ (Opens \cup Spools)
           a == If(q.fi = Std, "newTemp")
           b == If(~ q.dup /\ q.fi # Std /\ q.fo # Std, "sniff")
           c == <<"openInput">>
           d == If(q.dup, "newTemp")
           e == If(~ q.dup /\ q.fo = Std, "newTemp")
           f == If(~ q.dup /\ q.fo # Std, "createOutput")
           g == If(~ q.dup /\ q.index # NoName, "openIndex")
           t == <<"decode", "decodeRest", "removeSpool">>
           h == If(q.dup, "createOutput")
           k == <<"copyOut">>
           u == IF q.dup THEN <<"close", "deleteTemps", "checkUnchanged">>
                ELSE <<"checkUnchanged", "close", "deleteTemps">>
           v == If(q.delete /\ q.fi # Std, "delete")
           w == (((((a \o b) \o c) \o d) \o e) \o f) \o g
<1>1. /\ {"newTemp", "sniff", "openInput", "openIndex", "decode", "decodeRest", "removeSpool"} \subseteq B
      /\ (q.fo # Std => "createOutput" \in B)
      /\ {"copyOut", "close", "deleteTemps", "checkUnchanged", "delete"} \subseteq C
      /\ "createOutput" \notin Spools /\ "removeSpool" \in Closers
  BY DEF Allowed, CheckSteps, Steps, Closers, Opens, Spools
<1>2. q.dup \in BOOLEAN /\ q.delete \in BOOLEAN
  BY DEF Request
<1>3. Decompress(q) = ((((w \o t) \o h) \o k) \o u) \o v
  BY DEF Decompress
<1>4. a \in Seq(B) /\ c \in Seq(B) /\ e \in Seq(B)
  BY <1>1, <1>2, IfSeq, One
<1>5. b \in Seq(B) /\ d \in Seq(B) /\ g \in Seq(B)
  BY <1>1, <1>2, IfSeq
<1>6. f \in Seq(B) /\ h \in Seq(B \ Spools)
  BY <1>1, <1>2, IfSeq
<1>7. t \in Seq(B) /\ t # <<>> /\ t[Len(t)] \in Closers
  BY <1>1, Three
<1>8. u \in Seq(C) /\ k \in Seq(C)
  BY <1>1, One, Three
<1>9. v \in Seq(C)
  BY <1>1, <1>2, IfSeq
<1> HIDE DEF a, b, c, d, e, f, g, h, k, t, u, v
<1>10. w \in Seq(B)
  <2>1. (a \o b) \o c \in Seq(B)
    BY <1>4, <1>5, ConcatSeq
  <2>2. (((a \o b) \o c) \o d) \o e \in Seq(B)
    BY <1>4, <1>5, <2>1, ConcatSeq
  <2> QED BY <1>5, <1>6, <2>2, ConcatSeq
<1> HIDE DEF w
<1>11. w \o t \in Seq(B) /\ Closes(w \o t)
  BY <1>7, <1>10, ConcatSeq, ClosesStarts
<1> HIDE DEF A, B
<1>12. h \in Seq(B)
  BY <1>6
<1>13. (w \o t) \o h \in Seq(B)
  BY <1>11, <1>12, ConcatSeq
<1>14. Closes((w \o t) \o h)
  BY <1>6, <1>11, ClosesGrows
<1>15. OpensFirst((w \o t) \o h) /\ (w \o t) \o h \in Seq(A)
  <2>1. (w \o t) \o h \in Seq(A \ {"deleteTemps"})
    BY <1>13 DEF B
  <2>2. (w \o t) \o h \in Seq(A)
    BY <2>1
  <2> QED BY <2>1, <2>2, OpensStarts
<1>16. /\ ((w \o t) \o h) \o k \in Seq(A)
       /\ Closes(((w \o t) \o h) \o k) /\ OpensFirst(((w \o t) \o h) \o k)
  BY <1>8, <1>14, <1>15, WorkGoesOn
<1>17. /\ (((w \o t) \o h) \o k) \o u \in Seq(A)
       /\ Closes((((w \o t) \o h) \o k) \o u) /\ OpensFirst((((w \o t) \o h) \o k) \o u)
  BY <1>8, <1>16, WorkGoesOn
<1>18. /\ ((((w \o t) \o h) \o k) \o u) \o v \in Seq(A)
       /\ Closes(((((w \o t) \o h) \o k) \o u) \o v)
       /\ OpensFirst(((((w \o t) \o h) \o k) \o u) \o v)
  BY <1>9, <1>17, WorkGoesOn
<1> QED BY <1>3, <1>18 DEF A

LEMMA ScriptOrdered ==
  ASSUME NEW q \in Requests
  PROVE  Script(q) \in Seq(Allowed(q)) /\ Ordered(Script(q))
<1> DEFINE A == Allowed(q)
           c == Checks(q)
           w == IF q.mode = "compress" THEN Compress(q) ELSE Decompress(q)
<1>1. q \in Request /\ (q.dup => q.fo # Std)
  BY RequestsAssumption
<1>2. w \in Seq(A \ CheckSteps) /\ Closes(w) /\ OpensFirst(w)
  BY <1>1, CompressOrdered, DecompressOrdered
<1>3. c \in Seq(A \cap CheckSteps) /\ Lead(ReadSteps, c)
  BY <1>1, ChecksOrdered
<1>4. Script(q) = c \o w
  BY DEF Script
<1> HIDE DEF A, c, w
<1>5. /\ c \in Seq(A) /\ c \in Seq(CheckSteps) /\ w \in Seq(A)
      /\ c \in Seq(A \ (Opens \cup Spools \cup {"deleteTemps"}))
  <2>1. A \cap CheckSteps \subseteq A \ (Opens \cup Spools \cup {"deleteTemps"})
    BY DEF CheckSteps, Opens, Spools
  <2> QED BY <1>2, <1>3, <2>1
<1>6. Closes(c \o w) /\ OpensFirst(c \o w)
  BY <1>2, <1>5, ChecksInFront
<1>7. Lead(CheckSteps, c)
  BY <1>5, LeadStarts
<1>8. w \in Seq(A \ ReadSteps)
  BY <1>2 DEF CheckSteps, ReadSteps
<1>9. Lead(CheckSteps, c \o w) /\ Lead(ReadSteps, c \o w)
  BY <1>2, <1>3, <1>5, <1>7, <1>8, LeadAlso
<1> QED BY <1>4, <1>5, <1>6, <1>9, ConcatSeq DEF Ordered, A

-----------------------------------------------------------------------------
(* Types.                                                                  *)

LEMMA RequestFields ==
  ASSUME request \in Requests
  PROVE  /\ request \in Request
         /\ request.fi \in Names \cup {Std} /\ request.fo \in Names \cup {Std}
         /\ request.index \in Names \cup {NoName} /\ request.scratch \in Names \cup {NoName}
         /\ {request.stdin, request.stdout, request.stderr} \subseteq Ids \cup {NoFile}
  BY RequestsAssumption DEF Request

LEMMA FreshIsFree ==
  ASSUME HasFresh
  PROVE  Fresh \in Ids /\ ~ InUse(Fresh)
  BY DEF HasFresh, Fresh

LEMMA RecordEdited ==
  ASSUME NEW K, NEW T, NEW X, NEW S, NEW r \in [kind: K, to: T, text: X, stamp: S],
         NEW x \in X, NEW n \in S
  PROVE  /\ [r EXCEPT !.text = x, !.stamp = n] \in [kind: K, to: T, text: X, stamp: S]
         /\ [r EXCEPT !.text = x, !.stamp = n].kind = r.kind
  OBVIOUS

(* What a step may do to a file keeps its type; only a free number changes *)
(* its kind.                                                               *)
LEMMA RegularEdited ==
  ASSUME NEW r \in File, r.kind = "regular", NEW x \in SUBSET Authors
  PROVE  /\ [r EXCEPT !.text = x, !.stamp = r.stamp + 1] \in File
         /\ [r EXCEPT !.text = x, !.stamp = r.stamp + 1].kind = r.kind
<1>1. r \in [kind: {"regular", "device"}, to: {NoName}, text: SUBSET Authors, stamp: Nat]
  BY DEF File, Link
<1>2. r.stamp + 1 \in Nat
  BY <1>1
<1> DEFINE g == [r EXCEPT !.text = x, !.stamp = r.stamp + 1]
<1>3. g \in [kind: {"regular", "device"}, to: {NoName}, text: SUBSET Authors, stamp: Nat]
      /\ g.kind = r.kind
  BY <1>1, <1>2, RecordEdited
<1> QED BY <1>3 DEF File

LEMMA WrittenFile ==
  ASSUME NEW f \in [Ids -> File], NEW i \in Ids \cup {NoFile}, NEW who \in Authors
  PROVE  /\ Written(f, i, who) \in [Ids -> File]
         /\ \A j \in Ids : Written(f, i, who)[j].kind = f[j].kind
         /\ \A j \in Ids : j # i \/ f[j].kind # "regular" => Written(f, i, who)[j] = f[j]
<1>1. CASE i = NoFile \/ f[i].kind # "regular"
  BY <1>1 DEF Written
<1>2. CASE i \in Ids /\ f[i].kind = "regular"
  <2> DEFINE r == f[i]
             x == r.text \cup {who}
             g == [r EXCEPT !.text = x, !.stamp = r.stamp + 1]
  <2>1. x \in SUBSET Authors
    BY <1>2 DEF File, Link
  <2>2. Written(f, i, who) = [f EXCEPT ![i] = g]
    BY <1>2, IdsAssumption DEF Written
  <2>3. r \in File /\ r.kind = "regular"
    BY <1>2
  <2> HIDE DEF r, x
  <2>4. g \in File /\ g.kind = r.kind
    BY <2>1, <2>3, RegularEdited
  <2> HIDE DEF g
  <2> QED BY <1>2, <2>2, <2>4 DEF r
<1> QED BY <1>1, <1>2

LEMMA EmptiedFile ==
  ASSUME NEW f \in [Ids -> File], NEW i \in Ids, f[i].kind = "regular"
  PROVE  /\ Emptied(f, i) \in [Ids -> File]
         /\ \A j \in Ids : Emptied(f, i)[j].kind = f[j].kind
         /\ \A j \in Ids \ {i} : Emptied(f, i)[j] = f[j]
<1> DEFINE r == f[i]
           g == [r EXCEPT !.text = {}, !.stamp = r.stamp + 1]
<1>1. Emptied(f, i) = [f EXCEPT ![i] = g]
  BY DEF Emptied
<1>2. r \in File /\ r.kind = "regular" /\ {} \in SUBSET Authors
  OBVIOUS
<1> HIDE DEF r
<1>3. g \in File /\ g.kind = r.kind
  BY <1>2, RegularEdited
<1> HIDE DEF g
<1> QED BY <1>1, <1>3 DEF r

LEMMA TouchedFile ==
  ASSUME file \in [Ids -> File], NEW i \in Ids
  PROVE  /\ Touched(i) \in [Ids -> File]
         /\ \A j \in Ids : Touched(i)[j].kind = file[j].kind
<1>1. [file[i] EXCEPT !.stamp = @ + 1] \in File /\ [file[i] EXCEPT !.stamp = @ + 1].kind = file[i].kind
  BY DEF File, Link
<1>2. Touched(i) = [file EXCEPT ![i] = [file[i] EXCEPT !.stamp = @ + 1]]
  BY DEF Touched
<1> QED BY <1>1, <1>2

LEMMA NewFileType ==
  ASSUME file \in [Ids -> File], HasFresh
  PROVE  /\ [file EXCEPT ![Fresh] = NewFile(Fresh)] \in [Ids -> File]
         /\ \A j \in Ids : InUse(j) => [file EXCEPT ![Fresh] = NewFile(Fresh)][j] = file[j]
<1>1. file[Fresh].stamp \in Nat
  BY FreshIsFree DEF File, Link
<1>2. NewFile(Fresh) \in File
  BY <1>1 DEF NewFile, File
<1> QED BY <1>2, FreshIsFree

(* A name leads to a number.                                               *)
LEMMA LedType ==
  ASSUME dir \in [Names -> Ids \cup {NoFile}], file \in [Ids -> File], NEW n \in Names
  PROVE  /\ Target(n) \in Names /\ Led(n) \in Ids \cup {NoFile}
         /\ IdOfPathRegular(n) \in Ids \cup {NoFile}
<1>1. ASSUME NEW i \in Ids, file[i].kind = "link" PROVE file[i].to \in Names
  BY <1>1 DEF File, Link
<1>2. Target(n) \in Names
  BY <1>1 DEF Target
<1> QED BY <1>2 DEF Led, IdOfPathRegular
-----------------------------------------------------------------------------
(* Each step goes on in the list, stays where it is, or gives up.          *)

LEMMA UndoOrdered ==
  ASSUME NEW q \in Request
  PROVE  Undo \in Seq(UndoSteps) /\ Undo \in Seq(Allowed(q)) /\ Ordered(Undo)
<1>1. UndoSteps \subseteq Allowed(q)
  BY DEF UndoSteps, Allowed, Steps
<1>2. Undo \in Seq(UndoSteps)
  BY DEF Undo, UndoSteps
<1>3. \A i \in DOMAIN Undo : Undo[i] \in UndoSteps
  BY <1>2, SeqOf
<1>4. UndoSteps \cap (CheckSteps \cup ReadSteps \cup Opens \cup Spools) = {}
  BY DEF UndoSteps, CheckSteps, ReadSteps, Opens, Spools
<1>5. Undo \in Seq(Allowed(q))
  BY <1>1, <1>2
<1> QED BY <1>2, <1>3, <1>4, <1>5 DEF Ordered, Lead, Closes, OpensFirst

Moves ==
  /\ request' = request
  /\ \/ UNCHANGED <<todo, failed>>
     \/ todo # <<>> /\ Done
     \/ Fail

LEMMA TodoMoves ==
  ASSUME TypeOK, TodoOK, Moves
  PROVE  TodoOK'
<1> DEFINE A == Allowed(request)
<1>1. request \in Request
  BY RequestsAssumption DEF TypeOK
<1>2. CASE UNCHANGED <<todo, failed>>
  BY <1>2 DEF TodoOK, Moves
<1>3. CASE todo # <<>> /\ Done
  <2> HIDE DEF A
  <2>1. todo \in Seq(A) /\ todo # <<>> /\ Ordered(todo)
    BY <1>3 DEF TodoOK, A
  <2>2. Tail(todo) \in Seq(A) /\ Ordered(Tail(todo))
    BY <2>1, OrderedTail
  <2>3. failed => Tail(todo) \in Seq(UndoSteps)
    BY <1>3 DEF TodoOK
  <2> QED BY <1>3, <2>2, <2>3 DEF TodoOK, Moves, Done, A
<1>4. CASE Fail
  BY <1>1, <1>4, UndoOrdered DEF TodoOK, Moves, Fail
<1> QED BY <1>2, <1>3, <1>4 DEF Moves

LEMMA AtWork ==
  ASSUME NEW s, At(s)
  PROVE  todo # <<>> /\ Head(todo) = s /\ opening = NotOpening
  BY DEF At

LEMMA NextMoves ==
  ASSUME Named, Next
  PROVE  Moves
<1>1. CASE Checking
  BY <1>1 DEF Checking, NoteInput, NoteIndex, NoteStderr, NoteStdout, NoteStdWritten, CheckNames,
              Stamp, Moves, At
<1>2. CASE Opening
  <2>1. CASE Accept
    BY <2>1 DEF Accept, Moves, Named, NotOpening
  <2>2. CASE ~ Accept
    BY <1>2, <2>2 DEF Opening, CreateIndex, CreateOutput, StartOpen, TryExclusive, ExclusiveFails,
                      TryPlain, TryCreate, OpenFails, Refuse, TruncateFails, Moves
  <2> QED BY <2>1, <2>2
<1>3. CASE Temps
  BY <1>3 DEF Temps, NewTemp, Spool, StartOpen, CopyStdin, DeleteTemps, RemoveSpool, Moves, At
<1>4. CASE Working
  BY <1>4 DEF Working, Sniff, OpenInput, OpenIndex, Dedup, Encode, Decode, Spill, StartOpen,
              CopyOut, Breaks, Moves, At
<1>5. CASE Ending
  BY <1>5 DEF Ending, Close, CheckUnchanged, DeleteInput, RemoveClaimed, Report, Moves, At
<1>6. CASE Other
  BY <1>6 DEF Other, Edit, RemoveFile, RenameFile, Retarget, Meddle, Moves
<1>7. CASE Stopped
  BY <1>7 DEF Stopped, vars, Moves
<1> QED BY <1>1, <1>2, <1>3, <1>4, <1>5, <1>6, <1>7 DEF Next, Run

LEMMA StepAllowed ==
  ASSUME TodoOK, todo # <<>>
  PROVE  Head(todo) \in Allowed(request)
<1> DEFINE A == Allowed(request)
<1>1. todo \in Seq(A)
  BY DEF TodoOK
<1> HIDE DEF A
<1>2. Head(todo) \in A
  BY <1>1
<1> QED BY <1>2 DEF A

(* A file is opened under a name that the options gave.                    *)
LEMMA OpenStarts ==
  ASSUME TypeOK, TodoOK, Named, NEW name, NEW role, todo # <<>>, StartOpen(name, role),
         name \in Names, role \in Writers,
         Head(todo) \in (IF role = "scratch" THEN Spools ELSE Opens)
  PROVE  TypeOK' /\ Named'
<1>1. opening' = [try |-> "exclusive", name |-> name, role |-> role, existed |-> FALSE]
  BY DEF StartOpen
<1>2. Named'
  BY <1>1 DEF StartOpen, Named, dataVars
<1>3. opening' \in [try: {"none", "exclusive", "plain", "create", "check"},
                    name: Names \cup {NoName}, role: Roles, existed: BOOLEAN]
  BY <1>1 DEF Roles
<1> QED BY <1>2, <1>3 DEF StartOpen, TypeOK, worldVars, ruleVars, dataVars

LEMMA CreateStarts ==
  ASSUME TypeOK, TodoOK, Named, CreateIndex \/ CreateOutput
  PROVE  TypeOK' /\ Named'
<1>1. request \in Requests
  BY DEF TypeOK
<1>2. CASE CreateIndex
  <2>1. todo # <<>> /\ Head(todo) = "createIndex" /\ StartOpen(request.index, "index")
    BY <1>2 DEF CreateIndex, At
  <2>2. request.index \in Names
    BY <1>1, <2>1, StepAllowed, RequestFields DEF Allowed
  <2> QED BY <2>1, <2>2, OpenStarts DEF Writers, Opens
<1>3. CASE CreateOutput
  <2>1. todo # <<>> /\ Head(todo) = "createOutput" /\ StartOpen(request.fo, "output")
    BY <1>3 DEF CreateOutput, At
  <2>2. request.fo \in Names
    BY <1>1, <2>1, StepAllowed, RequestFields DEF Allowed
  <2> QED BY <2>1, <2>2, OpenStarts DEF Writers, Opens
<1> QED BY <1>2, <1>3

LEMMA SpoolStarts ==
  ASSUME TypeOK, TodoOK, Named, At("spool") \/ At("decodeRest"),
         request.scratch # NoName, StartOpen(request.scratch, "scratch")
  PROVE  TypeOK' /\ Named'
<1>1. request.scratch \in Names
  BY RequestFields DEF TypeOK
<1>2. todo # <<>> /\ Head(todo) \in Spools
  BY DEF At, Spools
<1> QED BY <1>1, <1>2, OpenStarts DEF Writers

(* The steps that begin to open a file.                                    *)
Begins == CreateIndex \/ CreateOutput \/ ((Spool \/ Spill) /\ request.scratch # NoName)

LEMMA Begun ==
  ASSUME TypeOK, TodoOK, Named, Begins
  PROVE  TypeOK' /\ Named'
  BY CreateStarts, SpoolStarts DEF Begins, Spool, Spill

LEMMA NamedKept ==
  ASSUME TypeOK, Named, Next, ~ Begins
  PROVE  Named'
<1>1. CASE Checking
  BY <1>1 DEF Checking, NoteInput, NoteIndex, NoteStderr, NoteStdout, NoteStdWritten, CheckNames,
              Stamp, Named, dataVars, At
<1>2. CASE Opening
  <2>1. CASE Accept
    BY <2>1 DEF Accept, Named, NotOpening
  <2>2. CASE TryExclusive \/ ExclusiveFails \/ TryPlain \/ TryCreate
    <3>1. opening \in [try: {"none", "exclusive", "plain", "create", "check"},
                       name: Names \cup {NoName}, role: Roles, existed: BOOLEAN]
      BY DEF TypeOK
    <3>2. opening # NotOpening
      BY <2>2 DEF TryExclusive, ExclusiveFails, TryPlain, TryCreate, NotOpening
    <3>3. opening'.name = opening.name /\ opening'.role = opening.role
      BY <2>2, <3>1 DEF TryExclusive, ExclusiveFails, TryPlain, TryCreate
    <3>4. UNCHANGED <<todo, spool>>
      BY <2>2 DEF TryExclusive, ExclusiveFails, TryPlain, TryCreate, dataVars
    <3> QED BY <3>2, <3>3, <3>4 DEF Named
  <2>3. CASE OpenFails \/ Refuse \/ TruncateFails
    BY <2>3 DEF OpenFails, Refuse, TruncateFails, Named, NotOpening, dataVars
  <2> QED BY <1>2, <2>1, <2>2, <2>3 DEF Opening, Begins
<1>3. CASE Temps
  <2>1. opening = NotOpening /\ opening' = opening
    BY <1>3 DEF Temps, NewTemp, Spool, CopyStdin, DeleteTemps, RemoveSpool, At, Begins
  <2>2. spool'.named => spool.named /\ spool'.name = spool.name
    <3>1. CASE RemoveSpool
      BY <3>1 DEF RemoveSpool, TypeOK
    <3> QED BY <1>3, <3>1 DEF Temps, NewTemp, Spool, CopyStdin, DeleteTemps, Begins
  <2> QED BY <2>1, <2>2 DEF Named
<1>4. CASE Working
  BY <1>4 DEF Working, Sniff, OpenInput, OpenIndex, Dedup, Encode, Decode, Spill,
              CopyOut, Breaks, At, Named, dataVars, Begins
<1>5. CASE Ending
  BY <1>5 DEF Ending, Close, CheckUnchanged, DeleteInput, RemoveClaimed, Report, At, Named, dataVars
<1>6. CASE Other
  BY <1>6 DEF Other, Edit, RemoveFile, RenameFile, Retarget, Meddle, Named, dataVars
<1>7. CASE Stopped
  BY <1>7 DEF Stopped, vars, Named, dataVars
<1> QED BY <1>1, <1>2, <1>3, <1>4, <1>5, <1>6, <1>7 DEF Next, Run

LEMMA StepsAllowed == \A q : Seq(Allowed(q)) \subseteq Seq(Steps)
  BY DEF Allowed


LEMMA OpenedType ==
  ASSUME TypeOK
  PROVE  opening.role \in Roles /\ opened \in Ids \cup {NoFile}
  BY DEF TypeOK, opened

LEMMA TempMade ==
  ASSUME TypeOK, MakeTemp
  PROVE  /\ file' \in [Ids -> File] /\ temps' \subseteq Ids /\ writes' \subseteq Ids
         /\ \A j \in Ids : InUse(j) => file'[j] = file[j]
<1>1. HasFresh /\ file \in [Ids -> File]
  BY DEF MakeTemp, TypeOK
<1> QED BY <1>1, NewFileType, FreshIsFree DEF MakeTemp, TypeOK

LEMMA CheckingTypes ==
  ASSUME TypeOK, TodoOK, Checking, todo' \in Seq(Steps), failed' \in BOOLEAN
  PROVE  TypeOK'
<1>1. request \in Requests /\ \A n \in Names : IdOfPathRegular(n) \in Ids \cup {NoFile}
  BY LedType DEF TypeOK
<1>2. {request.stdin, request.stdout, request.stderr} \subseteq Ids \cup {NoFile}
  BY <1>1, RequestFields
<1>3. ASSUME NEW i \in Ids \cup {NoFile}, IsRegular(i) PROVE i \in Ids
  BY <1>3 DEF IsRegular
<1>4. CASE NoteInput
  <2> DEFINE i == IF request.fi = Std THEN request.stdin ELSE IdOfPathRegular(request.fi)
  <2>1. i \in Ids \cup {NoFile}
    BY <1>1, <1>2, RequestFields
  <2>2. reads' = IF IsRegular(i) THEN reads \cup {i} ELSE reads
    BY <1>4 DEF NoteInput
  <2> HIDE DEF i
  <2> QED BY <1>3, <1>4, <2>1, <2>2 DEF NoteInput, TypeOK, worldVars, dataVars
<1>5. CASE NoteIndex
  <2> DEFINE i == IdOfPathRegular(request.index)
  <2>1. reads' = IF IsRegular(i) THEN reads \cup {i} ELSE reads
    BY <1>5 DEF NoteIndex
  <2>2. IsRegular(i) => i \in Ids
    <3>1. request.index \in Names
      BY <1>1, <1>5, AtWork, StepAllowed, RequestFields DEF NoteIndex, Allowed
    <3> QED BY <1>1, <1>3, <3>1
  <2> HIDE DEF i
  <2> QED BY <1>5, <2>1, <2>2 DEF NoteIndex, TypeOK, worldVars, dataVars
<1>6. ASSUME NEW i \in Ids \cup {NoFile}, NoteStdWritten(i) PROVE TypeOK'
  BY <1>3, <1>6 DEF NoteStdWritten, TypeOK, worldVars, dataVars
<1>7. CASE NoteStderr \/ NoteStdout
  BY <1>2, <1>6, <1>7 DEF NoteStderr, NoteStdout
<1>8. CASE CheckNames
  BY <1>8 DEF CheckNames, TypeOK, worldVars, dataVars
<1>9. CASE Stamp
  <2>1. before' \in [id: Ids \cup {NoFile}, stamp: Nat]
    <3>1. request.fi \in Names
      BY <1>1, <1>9, AtWork, StepAllowed, RequestFields DEF Stamp, Allowed
    <3>2. IsRegular(Led(request.fi)) => file[Led(request.fi)].stamp \in Nat
      <4>1. dir \in [Names -> Ids \cup {NoFile}] /\ file \in [Ids -> File]
        BY DEF TypeOK
      <4>2. Led(request.fi) \in Ids \cup {NoFile}
        BY <3>1, <4>1, LedType
      <4> QED BY <1>3, <4>1, <4>2 DEF File, Link
    <3>3. before' = StampInput(request.fi)
      BY <1>9 DEF Stamp
    <3> QED BY <1>1, <3>1, <3>2, <3>3 DEF StampInput
  <2> QED BY <1>9, <2>1 DEF Stamp, TypeOK, worldVars, ruleVars
<1> QED BY <1>4, <1>5, <1>7, <1>8, <1>9 DEF Checking

LEMMA OpeningTypes ==
  ASSUME TypeOK, Named, Opening, ~ Begins,
         todo' \in Seq(Steps), failed' \in BOOLEAN
  PROVE  TypeOK'
<1> DEFINE O == [try: {"none", "exclusive", "plain", "create", "check"},
                 name: Names \cup {NoName}, role: Roles, existed: BOOLEAN]
<1>1. /\ dir \in [Names -> Ids \cup {NoFile}] /\ file \in [Ids -> File] /\ opening \in O
      /\ opening.role \in Roles /\ NotOpening \in O
      /\ handle \in [Roles -> Ids \cup {NoFile}]
  BY DEF TypeOK, NotOpening, Roles
<1>2. opening # NotOpening => opening.name \in Names
  BY DEF Named
<1>3. \A n \in Names : Target(n) \in Names /\ Led(n) \in Ids \cup {NoFile}
  BY <1>1, LedType
<1>4. opening' \in O
  BY <1>1 DEF Opening, Begins, CreateIndex, CreateOutput, TryExclusive, ExclusiveFails, TryPlain, TryCreate, OpenFails, Refuse, Accept,
              TruncateFails
<1>5. ASSUME NEW n \in Names, MakeFile(n)
      PROVE  dir' \in [Names -> Ids \cup {NoFile}] /\ file' \in [Ids -> File]
             /\ handle' \in [Roles -> Ids \cup {NoFile}]
  BY <1>1, <1>5, FreshIsFree, NewFileType DEF MakeFile
<1>6. CASE TryExclusive
  <2>1. opening # NotOpening
    BY <1>6 DEF TryExclusive, NotOpening
  <2> QED BY <1>1, <1>2, <1>4, <1>5, <1>6, <2>1 DEF TryExclusive, TypeOK, worldVars, ruleVars
<1>7. CASE ExclusiveFails
  BY <1>4, <1>7 DEF ExclusiveFails, TypeOK, worldVars, ruleVars, dataVars
<1>8. CASE TryPlain
  <2>1. opening # NotOpening
    BY <1>8 DEF TryPlain, NotOpening
  <2> QED BY <1>1, <1>2, <1>3, <1>4, <1>8, <2>1 DEF TryPlain, TypeOK, worldVars, ruleVars
<1>9. CASE TryCreate
  <2>1. opening # NotOpening
    BY <1>9 DEF TryCreate, NotOpening
  <2> QED BY <1>1, <1>2, <1>3, <1>4, <1>5, <1>9, <2>1 DEF TryCreate, TypeOK, worldVars, ruleVars
<1>10. CASE OpenFails
  BY <1>4, <1>10 DEF OpenFails, TypeOK, worldVars, ruleVars, dataVars
<1>11. CASE Refuse
  BY <1>1, <1>4, <1>11 DEF Refuse, TypeOK
<1>12. CASE TruncateFails
  BY <1>1, <1>4, <1>12 DEF TruncateFails, TypeOK, worldVars, ruleVars
<1>13. CASE Accept
  <2>1. opening # NotOpening
    BY <1>13 DEF Accept, NotOpening
  <2>2. opening.name \in Names /\ opened \in Ids \cup {NoFile} /\ (IsRegular(opened) => opened \in Ids)
    BY <1>2, <2>1, OpenedType DEF IsRegular
  <2>3. file' \in [Ids -> File]
    BY <1>1, <1>13, <2>2, EmptiedFile DEF Accept, IsRegular
  <2>4. writes' \subseteq Ids /\ claimed' \subseteq Names \X Ids
    BY <1>13, <2>2 DEF Accept, TypeOK
  <2>5. spool' \in [named: BOOLEAN, name: Names \cup {NoName}, id: Ids \cup {NoFile}]
    BY <1>13, <2>2 DEF Accept, TypeOK, IsRegular
  <2>6. handle' \in [Roles -> Ids \cup {NoFile}]
    BY <1>1, <1>13 DEF Accept
  <2> QED BY <1>4, <1>13, <2>3, <2>4, <2>5, <2>6 DEF Accept, TypeOK
<1> QED BY <1>6, <1>7, <1>8, <1>9, <1>10, <1>11, <1>12, <1>13 DEF Opening, Begins

LEMMA TempsTypes ==
  ASSUME TypeOK, Temps, ~ Begins,
         todo' \in Seq(Steps), failed' \in BOOLEAN
  PROVE  TypeOK'
<1>1. /\ dir \in [Names -> Ids \cup {NoFile}] /\ file \in [Ids -> File]
      /\ handle \in [Roles -> Ids \cup {NoFile}]
  BY DEF TypeOK
<1>2. CASE NewTemp
  BY <1>2, TempMade DEF NewTemp, TypeOK
<1>3. CASE Spool
  <2>1. MakeTemp
    BY <1>3 DEF Spool, Begins
  <2> QED BY <1>3, <2>1, TempMade DEF Spool, TypeOK, Begins
<1>4. CASE CopyStdin
  <2>1. handle["scratch"] \in Ids \cup {NoFile}
    BY <1>1 DEF Roles, Writers
  <2>2. file' \in [Ids -> File] /\ handle' \in [Roles -> Ids \cup {NoFile}]
    BY <1>1, <1>4, <2>1, WrittenFile DEF CopyStdin, Authors, Writers
  <2> QED BY <1>4, <2>2 DEF CopyStdin, TypeOK, ruleVars
<1>5. CASE DeleteTemps
  BY <1>5 DEF DeleteTemps, TypeOK, worldVars
<1>6. CASE RemoveSpool
  <2>1. \A gone : Without(gone) \in [Names -> Ids \cup {NoFile}]
    BY <1>1 DEF Without
  <2>2. dir' \in [Names -> Ids \cup {NoFile}] /\ handle' \in [Roles -> Ids \cup {NoFile}]
    BY <1>1, <1>6, <2>1 DEF RemoveSpool
  <2>3. spool' \in [named: BOOLEAN, name: Names \cup {NoName}, id: Ids \cup {NoFile}]
    BY <1>6 DEF RemoveSpool, TypeOK
  <2>4. writes' \subseteq Ids /\ temps' \subseteq Ids
    BY <1>6 DEF RemoveSpool, TypeOK
  <2> QED BY <1>6, <2>2, <2>3, <2>4 DEF RemoveSpool, TypeOK
<1> QED BY <1>2, <1>3, <1>4, <1>5, <1>6 DEF Temps

(* What is read is a file or nothing.                                      *)
LEMMA InputFileType ==
  ASSUME TypeOK, Named
  PROVE  InputFile \in Ids \cup {NoFile}
<1>1. dir \in [Names -> Ids \cup {NoFile}] /\ file \in [Ids -> File] /\ temps \subseteq Ids
  BY DEF TypeOK
<1>2. \A n \in Names : Led(n) \in Ids \cup {NoFile}
  BY <1>1, LedType
<1>3. request.fi # Std => request.fi \in Names
  BY RequestFields DEF TypeOK
<1>4. temps # {} => (CHOOSE i \in temps : TRUE) \in Ids
  BY <1>1
<1> QED BY <1>2, <1>3, <1>4 DEF InputFile, Named

LEMMA ReadType ==
  ASSUME TypeOK, NEW i \in Ids \cup {NoFile}, Read(i)
  PROVE  got' \subseteq [id: Ids, stamp: Nat]
<1>1. \A j \in Ids : file[j].stamp \in Nat
  BY DEF TypeOK, File, Link
<1> QED BY <1>1 DEF Read, TypeOK

LEMMA WorkingTypes ==
  ASSUME TypeOK, Named, Working, ~ Begins,
         todo' \in Seq(Steps), failed' \in BOOLEAN
  PROVE  TypeOK'
<1>1. /\ file \in [Ids -> File] /\ handle \in [Roles -> Ids \cup {NoFile}]
      /\ InputFile \in Ids \cup {NoFile}
  BY InputFileType DEF TypeOK
<1>2. \A r \in Roles : handle[r] \in Ids \cup {NoFile}
  BY <1>1
<1>3. {"input", "output", "index", "scratch"} \subseteq Roles /\ Writers \subseteq Authors
  BY DEF Roles, Writers, Authors
<1>4. OutputFile \in Ids \cup {NoFile}
  BY <1>2, <1>3, RequestFields DEF OutputFile, TypeOK
<1>5. ASSUME NEW i \in Ids \cup {NoFile}, NEW j \in Ids \cup {NoFile},
             NEW w \in Writers, NEW v \in Writers
      PROVE  Written(file, i, w) \in [Ids -> File] /\ Written(Written(file, i, w), j, v) \in [Ids -> File]
  BY <1>1, <1>3, WrittenFile
<1>6. CASE Sniff
  <2>1. got' \subseteq [id: Ids, stamp: Nat]
    BY <1>1, <1>6, ReadType DEF Sniff
  <2> QED BY <1>6, <2>1 DEF Sniff, TypeOK, worldVars, ruleVars
<1>7. CASE OpenInput
  <2>1. handle' \in [Roles -> Ids \cup {NoFile}]
    BY <1>1, <1>7 DEF OpenInput
  <2> QED BY <1>7, <2>1 DEF OpenInput, TypeOK, worldVars, ruleVars
<1>8. CASE OpenIndex \/ Breaks
  BY <1>8 DEF OpenIndex, Breaks, TypeOK, worldVars, ruleVars, dataVars
<1>9. CASE Dedup
  <2>1. got' \subseteq [id: Ids, stamp: Nat]
    BY <1>1, <1>9, ReadType DEF Dedup
  <2>2. file' \in [Ids -> File] /\ temps' \subseteq Ids /\ writes' \subseteq Ids
    BY <1>9, TempMade DEF Dedup
  <2> QED BY <1>9, <2>1, <2>2 DEF Dedup, TypeOK
<1>10. CASE Encode
  <2>1. got' \subseteq [id: Ids, stamp: Nat]
    BY <1>2, <1>3, <1>10, ReadType DEF Encode
  <2>2. file' \in [Ids -> File]
    BY <1>2, <1>3, <1>4, <1>5, <1>10 DEF Encode, Writers
  <2> QED BY <1>10, <2>1, <2>2 DEF Encode, TypeOK, ruleVars
<1>11. CASE Decode
  <2>1. got' \subseteq [id: Ids, stamp: Nat]
    BY <1>2, <1>3, <1>11, ReadType DEF Decode
  <2>2. file' \in [Ids -> File]
    BY <1>2, <1>3, <1>5, <1>11 DEF Decode, Writers
  <2> QED BY <1>11, <2>1, <2>2 DEF Decode, TypeOK, ruleVars
<1>12. CASE Spill
  <2>1. MakeTemp
    BY <1>12 DEF Spill, Begins
  <2>2. handle' \in [Roles -> Ids \cup {NoFile}]
    BY <1>1, <1>12, <2>1, FreshIsFree DEF Spill, MakeTemp, Begins
  <2> QED BY <1>12, <2>1, <2>2, TempMade DEF Spill, TypeOK, Begins
<1>13. CASE CopyOut
  <2> DEFINE i == IF request.fo = Std \/ request.dup THEN OutputFile ELSE NoFile
  <2>1. i \in Ids \cup {NoFile} /\ file' = Written(file, i, "output")
    BY <1>4, <1>13 DEF CopyOut
  <2> HIDE DEF i
  <2>2. file' \in [Ids -> File]
    BY <1>5, <2>1 DEF Writers
  <2> QED BY <1>13, <2>2 DEF CopyOut, TypeOK, ruleVars, dataVars
<1> QED BY <1>6, <1>7, <1>8, <1>9, <1>10, <1>11, <1>12, <1>13 DEF Working

LEMMA EndingTypes ==
  ASSUME TypeOK, TodoOK, Ending, todo' \in Seq(Steps), failed' \in BOOLEAN
  PROVE  TypeOK'
<1>1. /\ dir \in [Names -> Ids \cup {NoFile}] /\ file \in [Ids -> File]
      /\ request.stderr \in Ids \cup {NoFile}
  BY RequestFields DEF TypeOK
<1>2. CASE Close
  BY <1>2 DEF Close, TypeOK, worldVars, ruleVars
<1>3. CASE CheckUnchanged
  <2> DEFINE i == IF request.talks THEN request.stderr ELSE NoFile
  <2>1. i \in Ids \cup {NoFile} /\ (file' = file \/ file' = Written(file, i, "messages"))
    BY <1>1, <1>3 DEF CheckUnchanged
  <2> HIDE DEF i
  <2>2. "messages" \in Authors
    BY DEF Authors
  <2>3. file' \in [Ids -> File]
    <3>1. Written(file, i, "messages") \in [Ids -> File]
      BY <1>1, <2>1, <2>2, WrittenFile
    <3> QED BY <1>1, <2>1, <3>1
  <2> QED BY <1>3, <2>3 DEF CheckUnchanged, TypeOK, ruleVars, dataVars
<1>4. CASE DeleteInput
  <2>1. dir' \in [Names -> Ids \cup {NoFile}]
    BY <1>1, <1>4 DEF DeleteInput
  <2> QED BY <1>4, <2>1 DEF DeleteInput, TypeOK, ruleVars, dataVars
<1>5. CASE RemoveClaimed
  <2>1. dir' \in [Names -> Ids \cup {NoFile}] /\ claimed' \subseteq Names \X Ids
    BY <1>1, <1>5 DEF RemoveClaimed, Without
  <2> QED BY <1>5, <2>1 DEF RemoveClaimed, TypeOK, dataVars
<1>6. CASE Report
  <2>1. file' \in [Ids -> File]
    BY <1>1, <1>6, WrittenFile DEF Report, Authors
  <2> QED BY <1>6, <2>1 DEF Report, TypeOK, ruleVars, dataVars
<1> QED BY <1>2, <1>3, <1>4, <1>5, <1>6 DEF Ending

LEMMA OtherFiles ==
  ASSUME TypeOK, Other
  PROVE  /\ dir' \in [Names -> Ids \cup {NoFile}] /\ file' \in [Ids -> File]
         /\ \A i \in Ids : file'[i].kind = file[i].kind
         /\ meddled' = meddled + 1
<1>1. dir \in [Names -> Ids \cup {NoFile}] /\ file \in [Ids -> File]
  BY DEF TypeOK
<1>2. \A n \in Names : dir[n] # NoFile => dir[n] \in Ids
  BY <1>1
<1>3. ASSUME NEW n \in Names, Edit(n) PROVE file' \in [Ids -> File] /\ \A i \in Ids : file'[i].kind = file[i].kind
  BY <1>1, <1>2, <1>3, WrittenFile DEF Edit, IsRegular, Authors
<1>4. ASSUME NEW n \in Names, RemoveFile(n)
      PROVE  /\ dir' \in [Names -> Ids \cup {NoFile}] /\ file' \in [Ids -> File]
             /\ \A i \in Ids : file'[i].kind = file[i].kind
  BY <1>1, <1>2, <1>4, TouchedFile DEF RemoveFile
<1>5. ASSUME NEW n \in Names, NEW m \in Names, RenameFile(n, m)
      PROVE  /\ dir' \in [Names -> Ids \cup {NoFile}] /\ file' \in [Ids -> File]
             /\ \A i \in Ids : file'[i].kind = file[i].kind
  BY <1>1, <1>2, <1>5, TouchedFile DEF RenameFile
<1>6. ASSUME NEW n \in Names, NEW m \in Names, Retarget(n, m)
      PROVE  file' \in [Ids -> File] /\ \A i \in Ids : file'[i].kind = file[i].kind
  <2> DEFINE i == dir[n]
             g == [file[i] EXCEPT !.to = m]
  <2>1. i \in Ids /\ file[i] \in Link
    BY <1>1, <1>2, <1>6 DEF Retarget, File
  <2>2. g \in Link /\ g.kind = file[i].kind
    BY <2>1 DEF Link
  <2>3. file' = [file EXCEPT ![i] = g]
    BY <1>6 DEF Retarget
  <2> HIDE DEF i, g
  <2> QED BY <1>1, <2>1, <2>2, <2>3 DEF File
<1>7. meddled' = meddled + 1
  BY DEF Other, Edit, RemoveFile, RenameFile, Retarget, Meddle
<1> QED BY <1>1, <1>3, <1>4, <1>5, <1>6, <1>7 DEF Other, Edit, Retarget

LEMMA OtherTypes ==
  ASSUME TypeOK, Other, todo' \in Seq(Steps), failed' \in BOOLEAN
  PROVE  TypeOK'
<1>1. UNCHANGED <<request, opening, ruleVars, dataVars>>
  BY DEF Other, Edit, RemoveFile, RenameFile, Retarget, Meddle
<1> QED BY <1>1, OtherFiles DEF TypeOK, ruleVars, dataVars

LEMMA TypesKept ==
  ASSUME TypeOK, TodoOK, Named, Next
  PROVE  TypeOK' /\ TodoOK' /\ Named'
<1>1. Moves
  BY NextMoves
<1>2. TodoOK'
  BY <1>1, TodoMoves
<1>3. todo' \in Seq(Steps) /\ failed' \in BOOLEAN
  BY <1>1, <1>2, StepsAllowed DEF TodoOK, Moves, Done, Fail, TypeOK
<1>4. CASE Begins
  BY <1>2, <1>4, Begun
<1>5. CASE ~ Begins
  <2>1. Named'
    BY <1>5, NamedKept
  <2>2. CASE Stopped
    BY <1>2, <2>1, <2>2 DEF Stopped, vars, TypeOK, worldVars, ruleVars, dataVars
  <2>3. CASE Checking \/ Opening \/ Temps
    BY <1>2, <1>3, <1>5, <2>1, <2>3, CheckingTypes, OpeningTypes, TempsTypes
  <2>4. CASE Working \/ Ending \/ Other
    BY <1>2, <1>3, <1>5, <2>1, <2>4, WorkingTypes, EndingTypes, OtherTypes
  <2> QED BY <1>2, <2>1, <2>2, <2>3, <2>4 DEF Next, Run
<1> QED BY <1>4, <1>5

(* Nothing is known of a run that has only begun but its list.             *)
LEMMA TypesStart ==
  ASSUME Init
  PROVE  TypeOK /\ TodoOK /\ Named
<1>1. request \in Requests /\ Script(request) \in Seq(Allowed(request)) /\ Ordered(Script(request))
  BY ScriptOrdered DEF Init
<1>2. TodoOK
  BY <1>1 DEF Init, TodoOK
<1>3. Named
  BY DEF Init, Named
<1>4. dir \in [Names -> Ids \cup {NoFile}] /\ file \in [Ids -> File]
  BY WorldsAssumption DEF Init, World
<1>5. todo \in Seq(Steps)
  BY <1>2, StepsAllowed DEF TodoOK
<1>6. opening \in [try: {"none", "exclusive", "plain", "create", "check"},
                   name: Names \cup {NoName}, role: Roles, existed: BOOLEAN]
  BY DEF Init, NotOpening, Roles
<1>7. handle \in [Roles -> Ids \cup {NoFile}]
  BY DEF Init
<1> QED BY <1>1, <1>2, <1>3, <1>4, <1>5, <1>6, <1>7 DEF Init, TypeOK

(* A run never leaves its types, for any options, names and files, and     *)
(* whatever another process does: what is noted, claimed or held open is   *)
(* the number of a file, and an open under way has a name.                 *)
THEOREM TypeCorrect == Spec => []TypeOK
<1> DEFINE I == TypeOK /\ TodoOK /\ Named
<1>1. Init => I
  BY TypesStart
<1>2. I /\ [Next]_vars => I'
  <2>1. CASE Next
    BY <2>1, TypesKept
  <2>2. CASE UNCHANGED vars
    BY <2>2 DEF vars, worldVars, ruleVars, dataVars, TypeOK, TodoOK, Named
  <2> QED BY <2>1, <2>2
<1> QED BY <1>1, <1>2, PTL DEF Spec

-----------------------------------------------------------------------------
(* A file in use stays regular, or stays a device.                         *)

KindsKept == \A i \in Ids : InUse(i) => file'[i].kind = file[i].kind

LEMMA WritingKeepsKinds ==
  ASSUME TypeOK, NEW i \in Ids \cup {NoFile}, NEW j \in Ids \cup {NoFile},
         NEW who \in Authors, NEW also \in Authors,
         \/ file' = file
         \/ file' = Written(file, i, who)
         \/ file' = Written(Written(file, i, who), j, also)
  PROVE  \A k \in Ids : /\ file'[k].kind = file[k].kind
                        /\ \/ k # i /\ k # j
                           \/ file[k].kind # "regular"
                           => file'[k] = file[k]
<1> DEFINE g == Written(file, i, who)
           h == Written(g, j, also)
<1>1. file \in [Ids -> File]
  BY DEF TypeOK
<1>2. /\ g \in [Ids -> File]
      /\ \A k \in Ids : g[k].kind = file[k].kind
      /\ \A k \in Ids : k # i \/ file[k].kind # "regular" => g[k] = file[k]
  BY <1>1, WrittenFile
<1>3. file' = file \/ file' = g \/ file' = h
  OBVIOUS
<1> HIDE DEF g
<1>4. /\ \A k \in Ids : h[k].kind = g[k].kind
      /\ \A k \in Ids : k # j \/ g[k].kind # "regular" => h[k] = g[k]
  BY <1>2, WrittenFile
<1> HIDE DEF h
<1> QED BY <1>2, <1>3, <1>4

(* Which files the work of a run writes.                                   *)
LEMMA WorkWrites ==
  ASSUME TypeOK, CopyStdin \/ Encode \/ Decode \/ CopyOut \/ CheckUnchanged
  PROVE  \A k \in Ids :
           /\ file'[k].kind = file[k].kind
           /\ file'[k] # file[k] => file[k].kind = "regular"
           /\ \/ file'[k] = file[k]
              \/ k \in {handle["output"], handle["index"], handle["scratch"]}
              \/ k = request.stdout /\ request.fo = Std /\ ~ CheckUnchanged
              \/ k = request.stderr /\ request.talks /\ CheckUnchanged
<1>1. /\ handle["output"] \in Ids \cup {NoFile} /\ handle["index"] \in Ids \cup {NoFile}
      /\ handle["scratch"] \in Ids \cup {NoFile}
  BY DEF TypeOK, Roles, Writers
<1>2. OutputFile \in Ids \cup {NoFile} /\ request.stderr \in Ids \cup {NoFile}
  BY <1>1, RequestFields DEF OutputFile, TypeOK
<1>3. {"output", "index", "scratch", "messages"} \subseteq Authors
  BY DEF Authors, Writers
<1>4. CASE CopyStdin
  BY <1>1, <1>3, <1>4, WritingKeepsKinds DEF CopyStdin
<1>5. CASE Encode
  <2>1. \A k \in Ids : /\ file'[k].kind = file[k].kind
                       /\ \/ k # OutputFile /\ k # handle["index"]
                          \/ file[k].kind # "regular"
                          => file'[k] = file[k]
    BY <1>1, <1>2, <1>3, <1>5, WritingKeepsKinds DEF Encode
  <2>2. ~ CheckUnchanged
    BY <1>5 DEF Encode, CheckUnchanged, At
  <2> QED BY <2>1, <2>2 DEF OutputFile
<1>6. CASE Decode
  BY <1>1, <1>3, <1>6, WritingKeepsKinds DEF Decode
<1>7. CASE CopyOut
  <2> DEFINE i == IF request.fo = Std \/ request.dup THEN OutputFile ELSE NoFile
  <2>1. i \in Ids \cup {NoFile} /\ file' = Written(file, i, "output")
    BY <1>2, <1>7 DEF CopyOut
  <2> HIDE DEF i
  <2>2. \A k \in Ids : /\ file'[k].kind = file[k].kind
                       /\ k # i \/ file[k].kind # "regular" => file'[k] = file[k]
    BY <1>3, <2>1, WritingKeepsKinds
  <2>3. ~ CheckUnchanged
    BY <1>7 DEF CopyOut, CheckUnchanged, At
  <2> QED BY <2>2, <2>3, IdsAssumption DEF OutputFile, i
<1>8. CASE CheckUnchanged
  <2> DEFINE i == IF request.talks THEN request.stderr ELSE NoFile
  <2>1. i \in Ids \cup {NoFile} /\ (file' = file \/ file' = Written(file, i, "messages"))
    BY <1>2, <1>8 DEF CheckUnchanged
  <2> HIDE DEF i
  <2>2. \A k \in Ids : /\ file'[k].kind = file[k].kind
                       /\ k # i \/ file[k].kind # "regular" => file'[k] = file[k]
    BY <1>3, <2>1, WritingKeepsKinds
  <2> QED BY <1>8, <2>2, IdsAssumption DEF i
<1> QED BY <1>4, <1>5, <1>6, <1>7, <1>8

(* And which files the other steps change: a new one, the one accepted,    *)
(* and where messages go.                                                  *)
LEMMA RestWrites ==
  ASSUME TypeOK, Next, ~ (CopyStdin \/ Encode \/ Decode \/ CopyOut \/ CheckUnchanged)
  PROVE  \A k \in Ids :
           InUse(k) => /\ file'[k].kind = file[k].kind
                       /\ \/ file'[k] = file[k]
                          \/ k = opened /\ Accept /\ file[k].kind = "regular"
                          \/ At("report")
                          \/ meddled' # meddled
<1>1. /\ file \in [Ids -> File]
      /\ request.stderr \in Ids \cup {NoFile}
      /\ meddled \in Nat
  BY RequestFields DEF TypeOK
<1>2. CASE Checking
  BY <1>2 DEF Checking, NoteInput, NoteIndex, NoteStderr, NoteStdout, NoteStdWritten, CheckNames,
              Stamp, worldVars
<1>3. ASSUME NEW n, MakeFile(n) PROVE \A k \in Ids : InUse(k) => file'[k] = file[k]
  BY <1>1, <1>3, FreshIsFree DEF MakeFile
<1>4. CASE Opening
  <2>1. CASE Accept
    <3>1. CASE opening.existed /\ IsRegular(opened)
      <4>1. opened \in Ids /\ file[opened].kind = "regular" /\ file' = Emptied(file, opened)
        BY <2>1, <3>1, OpenedType DEF Accept, IsRegular
      <4> QED BY <1>1, <2>1, <4>1, EmptiedFile
    <3> QED BY <2>1, <3>1 DEF Accept
  <2>2. CASE TryExclusive
    BY <1>3, <2>2 DEF TryExclusive, worldVars
  <2>3. CASE TryCreate
    BY <1>3, <2>3 DEF TryCreate, worldVars
  <2>4. CASE CreateIndex \/ CreateOutput \/ ExclusiveFails \/ TryPlain \/ OpenFails \/ Refuse \/ TruncateFails
    BY <2>4 DEF CreateIndex, CreateOutput, StartOpen, ExclusiveFails, TryPlain, OpenFails, Refuse,
                TruncateFails, worldVars
  <2> QED BY <1>4, <2>1, <2>2, <2>3, <2>4 DEF Opening
<1>5. CASE Temps
  <2>1. MakeTemp \/ file' = file
    BY <1>5 DEF Temps, NewTemp, Spool, StartOpen, DeleteTemps, RemoveSpool, worldVars
  <2> QED BY <2>1, TempMade
<1>6. CASE Working
  <2>1. MakeTemp \/ file' = file
    BY <1>6 DEF Working, Sniff, OpenInput, OpenIndex, Dedup, Spill, StartOpen, Breaks, worldVars
  <2> QED BY <2>1, TempMade
<1>7. CASE Ending
  <2>1. CASE Report
    <3>1. file' = Written(file, request.stderr, "messages") /\ At("report")
      BY <2>1 DEF Report
    <3> QED BY <1>1, <3>1, WrittenFile DEF Authors
  <2> QED BY <1>7, <2>1 DEF Ending, Close, DeleteInput, RemoveClaimed, worldVars
<1>8. CASE Other
  BY <1>1, <1>8, OtherFiles
<1>9. CASE Stopped
  BY <1>9 DEF Stopped, vars, worldVars
<1> QED BY <1>2, <1>4, <1>5, <1>6, <1>7, <1>8, <1>9 DEF Next, Run

LEMMA KindsStay ==
  ASSUME TypeOK, Next
  PROVE  KindsKept
  BY WorkWrites, RestWrites DEF KindsKept

-----------------------------------------------------------------------------
(* The invariant.                                                          *)

Idle == opening = NotOpening /\ \A r \in Writers : handle[r] = NoFile

(* Nothing is open to be written before all checks are made.               *)
InTurn == Pending(CheckSteps) => Idle /\ ~ spool.named

(* An open scratch file is closed before the temporaries are given up.     *)
Held == handle["scratch"] # NoFile => ClosesFrom(todo, 1)

(* No name leads to the run's own temporaries, and no other output is one. *)
Outside ==
  /\ \A n \in Names : dir[n] \notin temps
  /\ handle["output"] \notin temps /\ handle["index"] \notin temps
  /\ opening.try = "check" => opened \notin temps
  /\ request.stdout \notin temps /\ request.stderr \notin temps

(* What is open to be written is noted as written and not as read; but the *)
(* scratch file may be one of the run's own, or be given up while open.    *)
Kept ==
  /\ spool.named /\ Pending(Opens \cup Spools) => spool.id \in writes
  /\ \A r \in OpenToWrite \ {"scratch"} :
       handle[r] \in writes \ reads /\ (spool.named => handle[r] # spool.id)
  /\ "scratch" \in OpenToWrite =>
       \/ handle["scratch"] \in temps
       \/ spool.named /\ handle["scratch"] = spool.id /\ handle["scratch"] \notin reads

(* A standard stream that is written is noted so when its step is done.    *)
Noted(step, i) ==
  \/ Pending({step})
  \/ failed /\ Idle
  \/ /\ ~ Pending(ReadSteps)
     /\ IsRegular(i) => i \in writes \ reads /\ (spool.named => i # spool.id)

StreamsNoted ==
  /\ request.talks => Noted("noteStderr", request.stderr)
  /\ request.fo = Std => Noted("noteStdout", request.stdout)

Rule == InTurn /\ Held /\ Outside /\ Kept /\ StreamsNoted /\ OneWriter

Good == TypeOK /\ TodoOK /\ Named

LEMMA HandleType ==
  ASSUME TypeOK
  PROVE  /\ \A r \in Roles : handle[r] \in Ids \cup {NoFile}
         /\ Writers \subseteq Roles
         /\ \A r \in Writers : IsRegular(handle[r]) => handle[r] \in Ids /\ InUse(handle[r])
  BY DEF TypeOK, Roles, InUse, IsRegular

(* Steps still to do, after a step.                                        *)
LEMMA PendingFewer ==
  ASSUME TodoOK, Moves, NEW S, S \cap UndoSteps = {}, Pending(S)'
  PROVE  Pending(S)
<1>1. CASE UNCHANGED <<todo, failed>>
  BY <1>1 DEF Pending
<1>2. CASE todo # <<>> /\ Done
  <2> DEFINE A == Allowed(request)
  <2>1. todo \in Seq(A) /\ todo # <<>> /\ todo' = Tail(todo)
    BY <1>2 DEF TodoOK, Done
  <2> HIDE DEF A
  <2>2. PICK i \in DOMAIN Tail(todo) : Tail(todo)[i] \in S
    BY <2>1 DEF Pending
  <2>3. i + 1 \in DOMAIN todo /\ Tail(todo)[i] = todo[i + 1]
    BY <2>1
  <2> QED BY <2>2, <2>3 DEF Pending
<1>3. CASE Fail
  <2>1. \A i \in DOMAIN Undo : Undo[i] \in UndoSteps
    BY DEF Undo, UndoSteps
  <2> QED BY <1>3, <2>1 DEF Fail, Pending
<1> QED BY <1>1, <1>2, <1>3 DEF Moves

LEMMA PendingStays ==
  ASSUME TodoOK, todo # <<>>, Done, NEW step, Head(todo) # step, Pending({step})
  PROVE  Pending({step})'
<1> DEFINE A == Allowed(request)
<1>1. todo \in Seq(A) /\ todo # <<>> /\ todo' = Tail(todo)
  BY DEF TodoOK, Done
<1> HIDE DEF A
<1>2. PICK i \in DOMAIN todo : todo[i] = step
  BY DEF Pending
<1>3. i # 1
  BY <1>1, <1>2
<1>4. i - 1 \in DOMAIN Tail(todo) /\ Tail(todo)[i - 1] = todo[i]
  BY <1>1, <1>3
<1> QED BY <1>1, <1>2, <1>4 DEF Pending

LEMMA HeadLeads ==
  ASSUME TodoOK, todo # <<>>
  PROVE  /\ Head(todo) \notin CheckSteps => ~ Pending(CheckSteps) /\ ~ Pending(ReadSteps)
         /\ Head(todo) \notin ReadSteps => ~ Pending(ReadSteps)
         /\ \A S : Head(todo) \in S => Pending(S)
         /\ failed => Head(todo) \in UndoSteps
<1> DEFINE A == Allowed(request)
<1>1. todo \in Seq(A) /\ todo # <<>> /\ Lead(CheckSteps, todo) /\ Lead(ReadSteps, todo)
  BY DEF TodoOK, Ordered
<1> HIDE DEF A
<1>2. /\ Head(todo) \notin CheckSteps => \A i \in DOMAIN todo : todo[i] \notin CheckSteps
      /\ Head(todo) \notin ReadSteps => \A i \in DOMAIN todo : todo[i] \notin ReadSteps
  BY <1>1, LeadTail
<1>3. 1 \in DOMAIN todo /\ todo[1] = Head(todo)
  BY <1>1
<1>4. failed => Head(todo) \in UndoSteps
  <2>1. failed => todo \in Seq(UndoSteps)
    BY DEF TodoOK
  <2> QED BY <2>1
<1> QED BY <1>2, <1>3, <1>4 DEF Pending, ReadSteps, CheckSteps

LEMMA ClosesLater ==
  ASSUME TodoOK, todo # <<>>
  PROVE  /\ Head(todo) \in Spools => ClosesFrom(todo, 1)
         /\ Head(todo) = "deleteTemps" => ~ ClosesFrom(todo, 1) /\ ~ Pending(Opens \cup Spools)
         /\ Head(todo) \notin Closers /\ ClosesFrom(todo, 1) => ClosesFrom(Tail(todo), 1)
         /\ ClosesFrom(Undo, 1)
<1> DEFINE A == Allowed(request)
<1>1. todo \in Seq(A) /\ todo # <<>> /\ Closes(todo) /\ OpensFirst(todo)
  BY DEF TodoOK, Ordered
<1> HIDE DEF A
<1>2. 1 \in DOMAIN todo /\ todo[1] = Head(todo)
  BY <1>1
<1>3. Head(todo) \in Spools => ClosesFrom(todo, 1)
  <2>1. Head(todo) \in Spools => ClosesFrom(todo, 2)
    BY <1>1, <1>2 DEF Closes
  <2> QED BY <1>1, <2>1 DEF ClosesFrom
<1>4. Head(todo) = "deleteTemps" => ~ ClosesFrom(todo, 1) /\ ~ Pending(Opens \cup Spools)
  BY <1>1, <1>2 DEF ClosesFrom, OpensFirst, Pending
<1>5. ASSUME Head(todo) \notin Closers, ClosesFrom(todo, 1) PROVE ClosesFrom(Tail(todo), 1)
  <2>1. PICK j \in DOMAIN todo : /\ todo[j] \in Closers
                                 /\ \A k \in DOMAIN todo : todo[k] = "deleteTemps" => j < k
    BY <1>5 DEF ClosesFrom
  <2>2. j # 1
    BY <1>2, <1>5, <2>1
  <2>3. j - 1 \in DOMAIN Tail(todo) /\ Tail(todo)[j - 1] = todo[j] /\ j - 1 >= 1
    BY <1>1, <2>2
  <2>4. \A k \in DOMAIN Tail(todo) : k + 1 \in DOMAIN todo /\ Tail(todo)[k] = todo[k + 1]
    BY <1>1
  <2>5. \A k \in DOMAIN Tail(todo) : Tail(todo)[k] = "deleteTemps" => j - 1 < k
    BY <1>1, <2>1, <2>4
  <2> QED BY <2>1, <2>3, <2>5 DEF ClosesFrom
<1>6. ClosesFrom(Undo, 1)
  BY DEF ClosesFrom, Undo, Closers
<1> QED BY <1>3, <1>4, <1>5, <1>6

(* What stays regular.                                                     *)
LEMMA RegularStays ==
  ASSUME TypeOK, KindsKept, NEW i \in Ids \cup {NoFile}, i = NoFile \/ InUse(i)
  PROVE  IsRegular(i)' <=> IsRegular(i)
  BY DEF KindsKept, IsRegular

LEMMA StillOpen ==
  ASSUME TypeOK, KindsKept, NEW r \in Writers, handle'[r] = handle[r],
         r \in OpenToWrite',
         opening' # opening => ~ (opening.try = "check" /\ opening.role = r)
  PROVE  r \in OpenToWrite
<1>1. handle[r] \in Ids \cup {NoFile} /\ (handle[r] # NoFile => InUse(handle[r]))
  BY HandleType DEF InUse
<1>2. IsRegular(handle[r])'
  BY DEF OpenToWrite
<1>3. IsRegular(handle[r])
  BY <1>1, <1>2 DEF KindsKept, IsRegular
<1> QED BY <1>3 DEF OpenToWrite

(* A step that opens nothing and gives up no note.                         *)
LEMMA KeptOn ==
  ASSUME Kept, OneWriter, request' = request, reads' = reads,
         writes \subseteq writes', temps \subseteq temps',
         \A r \in OpenToWrite' : r \in OpenToWrite /\ handle'[r] = handle[r],
         spool' = spool \/ (~ spool'.named /\ "scratch" \notin OpenToWrite'),
         Pending(Opens \cup Spools)' => Pending(Opens \cup Spools)
  PROVE  Kept' /\ OneWriter'
<1>1. OneWriter'
  BY DEF OneWriter
<1>2. spool'.named /\ Pending(Opens \cup Spools)' => spool'.id \in writes'
  BY DEF Kept
<1>3. \A r \in OpenToWrite' \ {"scratch"} :
        handle'[r] \in writes' \ reads' /\ (spool'.named => handle'[r] # spool'.id)
  BY DEF Kept
<1>4. "scratch" \in OpenToWrite' =>
        \/ handle'["scratch"] \in temps'
        \/ spool'.named /\ handle'["scratch"] = spool'.id /\ handle'["scratch"] \notin reads'
  BY DEF Kept
<1> QED BY <1>1, <1>2, <1>3, <1>4 DEF Kept

LEMMA InTurnOn ==
  ASSUME TodoOK, Moves, InTurn, Idle /\ ~ spool.named => Idle' /\ ~ spool'.named
  PROVE  InTurn'
<1>1. CheckSteps \cap UndoSteps = {}
  BY DEF CheckSteps, UndoSteps
<1> QED BY <1>1, PendingFewer DEF InTurn

(* No check is left to make.                                               *)
LEMMA InTurnPast ==
  ASSUME TodoOK, Moves, todo # <<>>, Head(todo) \notin CheckSteps
  PROVE  InTurn'
<1>1. CheckSteps \cap UndoSteps = {}
  BY DEF CheckSteps, UndoSteps
<1> QED BY <1>1, PendingFewer, HeadLeads DEF InTurn

LEMMA HeldOn ==
  ASSUME TodoOK, Moves, Held,
         \/ handle'["scratch"] = NoFile
         \/ /\ handle'["scratch"] = handle["scratch"]
            /\ Fail \/ UNCHANGED todo \/ Head(todo) \notin Closers
  PROVE  Held'
<1>1. CASE handle'["scratch"] # NoFile /\ handle["scratch"] # NoFile
  <2>1. ClosesFrom(todo, 1)
    BY <1>1 DEF Held
  <2>2. todo # <<>>
    BY <2>1 DEF ClosesFrom
  <2>3. ClosesFrom(todo', 1)
    BY <1>1, <2>1, <2>2, ClosesLater DEF Moves, Done, Fail
  <2> QED BY <2>3 DEF Held, ClosesFrom
<1> QED BY <1>1 DEF Held

LEMMA NotedOn ==
  ASSUME TypeOK, TodoOK, Moves, KindsKept, InTurn, NEW step \in {"noteStderr", "noteStdout"},
         NEW i \in {request.stdin, request.stdout, request.stderr},
         reads' = reads, writes \subseteq writes',
         spool'.named => spool.named /\ spool'.id = spool.id,
         (Idle => Idle') \/ (todo # <<>> /\ Head(todo) \in Opens \cup Spools /\ todo' = todo),
         Fail \/ UNCHANGED <<todo, failed>> \/ Head(todo) # step,
         Noted(step, i)
  PROVE  Noted(step, i)'
<1>1. i \in Ids \cup {NoFile} /\ (i = NoFile \/ InUse(i))
  BY RequestFields DEF TypeOK, InUse
<1>2. IsRegular(i)' <=> IsRegular(i)
  BY <1>1, RegularStays
<1>3. ReadSteps \cap UndoSteps = {} /\ {step} \subseteq CheckSteps
  BY DEF ReadSteps, UndoSteps, CheckSteps
<1>4. CASE /\ ~ Pending(ReadSteps)
           /\ IsRegular(i) => i \in writes \ reads /\ (spool.named => i # spool.id)
  <2>1. ~ Pending(ReadSteps)'
    BY <1>3, <1>4, PendingFewer
  <2> QED BY <1>2, <1>4, <2>1 DEF Noted
<1>5. CASE failed /\ Idle
  <2>1. CASE todo # <<>> /\ Head(todo) \in Opens \cup Spools
    <3>1. (Opens \cup Spools) \cap UndoSteps = {}
      BY DEF Opens, Spools, UndoSteps
    <3> QED BY <1>5, <2>1, <3>1, HeadLeads
  <2>2. CASE Idle'
    <3>1. failed'
      BY <1>5 DEF Moves, Done, Fail
    <3> QED BY <2>2, <3>1 DEF Noted
  <2> QED BY <1>5, <2>1, <2>2
<1>6. CASE Pending({step})
  <2>1. Idle
    BY <1>3, <1>6 DEF InTurn, Pending
  <2>2. CASE UNCHANGED <<todo, failed>>
    BY <1>6, <2>2 DEF Noted, Pending
  <2>3. CASE todo # <<>> /\ Done /\ Head(todo) # step
    BY <1>6, <2>3, PendingStays DEF Noted, Done
  <2>4. CASE Fail
    <3>1. CASE Idle'
      BY <2>4, <3>1 DEF Fail, Noted
    <3>2. CASE todo # <<>> /\ Head(todo) \in Opens \cup Spools
      <4>1. Head(todo) \notin CheckSteps
        BY <3>2 DEF Opens, Spools, CheckSteps
      <4> QED BY <1>3, <1>6, <3>2, <4>1, HeadLeads DEF Pending
    <3> QED BY <2>1, <3>1, <3>2
  <2> QED BY <2>2, <2>3, <2>4 DEF Moves
<1> QED BY <1>4, <1>5, <1>6 DEF Noted

LEMMA StreamsOn ==
  ASSUME TypeOK, TodoOK, Moves, KindsKept, InTurn, StreamsNoted,
         reads' = reads, writes \subseteq writes',
         spool'.named => spool.named /\ spool'.id = spool.id,
         (Idle => Idle') \/ (todo # <<>> /\ Head(todo) \in Opens \cup Spools /\ todo' = todo),
         Fail \/ UNCHANGED <<todo, failed>> \/ Head(todo) \notin {"noteStderr", "noteStdout"}
  PROVE  StreamsNoted'
<1>1. request' = request
  BY DEF Moves
<1>2. ASSUME NEW i, i = request.stderr, request.talks PROVE Noted("noteStderr", i)'
  <2>1. Noted("noteStderr", i) /\ i \in {request.stdin, request.stdout, request.stderr}
    BY <1>2 DEF StreamsNoted, Noted
  <2> QED BY <2>1, NotedOn
<1>3. ASSUME NEW i, i = request.stdout, request.fo = Std PROVE Noted("noteStdout", i)'
  <2>1. Noted("noteStdout", i) /\ i \in {request.stdin, request.stdout, request.stderr}
    BY <1>3 DEF StreamsNoted, Noted
  <2> QED BY <2>1, NotedOn
<1> QED BY <1>1, <1>2, <1>3 DEF StreamsNoted, Noted

(* A step that opens nothing, and leaves the notes and the temporaries.    *)
LEMMA RuleOn ==
  ASSUME Good, Rule, Moves, KindsKept, UNCHANGED <<opening, reads, writes, spool, temps>>,
         \A n \in Names : dir'[n] \notin temps,
         \A r \in Writers : handle'[r] \in {handle[r], NoFile},
         \/ Fail
         \/ UNCHANGED <<todo, failed>>
         \/ /\ Head(todo) \notin {"noteStderr", "noteStdout"}
            /\ Head(todo) \notin Closers \/ handle'["scratch"] = NoFile
  PROVE  Rule'
<1>1. {"output", "index", "scratch"} \subseteq Writers /\ request' = request
  BY DEF Writers, Moves
<1>2. \A r \in OpenToWrite' : r \in OpenToWrite /\ handle'[r] = handle[r]
  <2> SUFFICES ASSUME NEW r \in Writers, r \in OpenToWrite'
               PROVE  r \in OpenToWrite /\ handle'[r] = handle[r]
    BY DEF OpenToWrite
  <2>1. handle'[r] = handle[r]
    BY DEF OpenToWrite, IsRegular
  <2> QED BY <2>1, StillOpen DEF Good
<1>3. Idle => Idle'
  BY DEF Idle
<1>4. (Opens \cup Spools) \cap UndoSteps = {}
  BY DEF Opens, Spools, UndoSteps
<1>5. Kept' /\ OneWriter'
  BY <1>1, <1>2, <1>4, KeptOn, PendingFewer DEF Rule, Good
<1>6. InTurn'
  BY <1>3, InTurnOn DEF Rule, Good
<1>7. Held'
  BY <1>1, HeldOn DEF Rule, Good
<1>8. Outside'
  <2>1. ASSUME opening.try = "check" PROVE opened' \notin temps
    <3>1. opening.role \in Writers
      BY <2>1 DEF Good, Named, NotOpening
    <3>2. opened' \in {opened, NoFile} /\ opened \notin temps
      BY <2>1, <3>1 DEF opened, Rule, Outside
    <3> QED BY <3>2, IdsAssumption DEF Good, TypeOK
  <2>2. NoFile \notin temps
    BY IdsAssumption DEF Good, TypeOK
  <2> QED BY <1>1, <2>1, <2>2 DEF Rule, Outside
<1>9. StreamsNoted'
  BY <1>3, StreamsOn DEF Rule, Good
<1> QED BY <1>5, <1>6, <1>7, <1>8, <1>9 DEF Rule

LEMMA QuietSteps ==
  ASSUME Good, Rule, Next, Moves, KindsKept,
         \/ CheckNames \/ Stamp \/ Sniff \/ OpenInput \/ OpenIndex \/ Encode \/ Decode \/ CopyOut
         \/ Breaks \/ CopyStdin \/ Ending \/ Other \/ Stopped
  PROVE  Rule'
<1>1. /\ \A n \in Names : dir[n] \notin temps
      /\ NoFile \notin temps
      /\ handle \in [Roles -> Ids \cup {NoFile}]
      /\ "input" \notin Writers /\ "scratch" \in Writers /\ Writers \subseteq Roles
  BY IdsAssumption DEF Good, TypeOK, Rule, Outside, Writers, Roles
<1>2. CASE CheckNames \/ Stamp
  <2>1. \/ Fail
        \/ Head(todo) \notin {"noteStderr", "noteStdout"} \cup Closers
    BY <1>2 DEF CheckNames, Stamp, At, Closers
  <2>2. UNCHANGED <<opening, reads, writes, handle, spool, temps, dir>>
    BY <1>2 DEF CheckNames, Stamp, worldVars, ruleVars, dataVars
  <2> QED BY <1>1, <2>1, <2>2, RuleOn
<1>3. CASE Sniff \/ OpenInput \/ OpenIndex \/ Encode \/ Decode \/ CopyOut \/ Breaks \/ CopyStdin
  <2>1. UNCHANGED <<opening, reads, writes, spool, temps, dir>>
    BY <1>3 DEF Sniff, OpenInput, OpenIndex, Encode, Decode, CopyOut, Breaks, CopyStdin,
                worldVars, ruleVars, dataVars
  <2>2. \A r \in Writers : handle'[r] \in {handle[r], NoFile}
    BY <1>1, <1>3 DEF Sniff, OpenInput, OpenIndex, Encode, Decode, CopyOut, Breaks, CopyStdin, dataVars
  <2>3. \/ Fail
        \/ /\ Head(todo) \notin {"noteStderr", "noteStdout"}
           /\ Head(todo) \notin Closers \/ handle'["scratch"] = NoFile
    BY <1>1, <1>3 DEF Sniff, OpenInput, OpenIndex, Encode, Decode, CopyOut, Breaks, CopyStdin, At,
                Closers
  <2> QED BY <1>1, <2>1, <2>2, <2>3, RuleOn
<1>4. CASE Ending
  <2>1. UNCHANGED <<opening, reads, writes, spool, temps>>
    BY <1>4 DEF Ending, Close, CheckUnchanged, DeleteInput, RemoveClaimed, Report, ruleVars, dataVars
  <2>2. \A r \in Writers : handle'[r] \in {handle[r], NoFile}
    BY <1>1, <1>4 DEF Ending, Close, CheckUnchanged, DeleteInput, RemoveClaimed, Report, dataVars
  <2>3. \/ Fail
        \/ /\ Head(todo) \notin {"noteStderr", "noteStdout"}
           /\ Head(todo) \notin Closers \/ handle'["scratch"] = NoFile
    BY <1>1, <1>4 DEF Ending, Close, CheckUnchanged, DeleteInput, RemoveClaimed, Report, At, Closers
  <2>4. \A n \in Names : dir'[n] \in {dir[n], NoFile}
    <3>1. dir \in [Names -> Ids \cup {NoFile}]
      BY DEF Good, TypeOK
    <3>2. CASE DeleteInput
      BY <3>1, <3>2 DEF DeleteInput
    <3>3. CASE RemoveClaimed
      BY <3>1, <3>3 DEF RemoveClaimed, Without
    <3> QED BY <1>4, <3>2, <3>3 DEF Ending, Close, CheckUnchanged, Report, worldVars
  <2> QED BY <1>1, <2>1, <2>2, <2>3, <2>4, RuleOn
<1>5. CASE Other
  <2>1. UNCHANGED <<todo, failed, opening, reads, writes, handle, spool, temps>>
    BY <1>5 DEF Other, Edit, RemoveFile, RenameFile, Retarget, Meddle, ruleVars, dataVars
  <2>2. \A n \in Names : dir'[n] \notin temps
    <3>1. dir \in [Names -> Ids \cup {NoFile}]
      BY DEF Good, TypeOK
    <3>2. \A n \in Names : \A m \in Names : RenameFile(n, m) => \A k \in Names : dir'[k] \notin temps
      BY <1>1, <3>1 DEF RenameFile
    <3>3. \A n \in Names : RemoveFile(n) => \A k \in Names : dir'[k] \notin temps
      BY <1>1, <3>1 DEF RemoveFile
    <3> QED BY <1>1, <1>5, <3>2, <3>3 DEF Other, Edit, Retarget
  <2> QED BY <2>1, <2>2, RuleOn
<1>6. CASE Stopped
  <2>1. UNCHANGED <<todo, failed, opening, reads, writes, handle, spool, temps, dir>>
    BY <1>6 DEF Stopped, vars, worldVars, ruleVars, dataVars
  <2> QED BY <1>1, <2>1, RuleOn
<1> QED BY <1>2, <1>3, <1>4, <1>5, <1>6

(* A temporary of the run's own is a file that nothing else is.            *)
LEMMA TempOn ==
  ASSUME Good, Rule, Moves, KindsKept, MakeTemp, UNCHANGED <<dir, opening, reads, spool>>,
         opening = NotOpening, todo # <<>>, Head(todo) \in {"newTemp", "spool", "dedup", "decodeRest"},
         \/ handle' = handle
         \/ /\ handle["scratch"] = NoFile /\ handle' = [handle EXCEPT !["scratch"] = Fresh]
            /\ todo' = todo /\ Head(todo) = "decodeRest"
  PROVE  Rule'
<1>1. /\ handle \in [Roles -> Ids \cup {NoFile}]
      /\ {"output", "index", "scratch"} \subseteq Writers /\ Writers \subseteq Roles
      /\ opening.role \in Roles /\ request' = request
  BY DEF Good, TypeOK, Writers, Roles, Moves
<1>2. temps' = temps \cup {Fresh} /\ writes' = writes \cup {Fresh} /\ ~ InUse(Fresh) /\ Fresh \in Ids
  BY FreshIsFree DEF MakeTemp
<1>3. /\ \A n \in Names : dir[n] # Fresh
      /\ \A r \in Roles : handle[r] # Fresh
      /\ request.stdout # Fresh /\ request.stderr # Fresh
  BY <1>2 DEF InUse
<1>4. Head(todo) \notin CheckSteps \cup ReadSteps \cup Closers \cup {"noteStderr", "noteStdout"} \cup UndoSteps
  BY DEF CheckSteps, ReadSteps, Closers, UndoSteps
<1>5. ~ Pending(CheckSteps) /\ ~ failed
  BY <1>4, HeadLeads DEF Good
<1>6. InTurn'
  BY <1>4, InTurnPast DEF Good
<1>7. Outside'
  <2>1. \A r \in {"output", "index"} : handle'[r] = handle[r]
    BY <1>1
  <2>2. opening.try # "check"
    BY DEF NotOpening
  <2> QED BY <1>1, <1>2, <1>3, <2>1, <2>2 DEF Rule, Outside
<1>8. StreamsNoted'
  <2>1. (Idle => Idle') \/ (todo # <<>> /\ Head(todo) \in Opens \cup Spools /\ todo' = todo)
    BY DEF Idle, Spools
  <2>2. writes \subseteq writes'
    BY <1>2
  <2>3. Head(todo) \notin {"noteStderr", "noteStdout"}
    BY <1>4
  <2> QED BY <2>1, <2>2, <2>3, StreamsOn DEF Rule, Good
<1>9. Held'
  <2>1. CASE handle' = handle
    BY <1>4, <2>1, HeldOn DEF Rule, Good
  <2>2. CASE todo' = todo /\ Head(todo) = "decodeRest"
    <3>1. ClosesFrom(todo, 1)
      BY <2>2, ClosesLater DEF Good, Spools
    <3> QED BY <2>2, <3>1 DEF Held, ClosesFrom
  <2> QED BY <2>1, <2>2
<1>10. Kept' /\ OneWriter'
  <2>1. ASSUME NEW r \in OpenToWrite', handle'[r] = handle[r]
        PROVE  r \in OpenToWrite
    BY <2>1, StillOpen DEF Good, OpenToWrite
  <2>2. CASE handle' = handle
    <3>1. (Opens \cup Spools) \cap UndoSteps = {}
      BY DEF Opens, Spools, UndoSteps
    <3> QED BY <1>1, <1>2, <2>1, <2>2, <3>1, KeptOn, PendingFewer DEF Rule, Good
  <2>3. CASE /\ handle' = [handle EXCEPT !["scratch"] = Fresh]
             /\ todo' = todo
    <3>1. \A r \in OpenToWrite' : r # "scratch" => r \in OpenToWrite /\ handle'[r] = handle[r]
      <4>1. \A r \in OpenToWrite' : r # "scratch" => handle'[r] = handle[r]
        BY <1>1, <2>3 DEF OpenToWrite
      <4> QED BY <2>1, <4>1
    <3>2. handle'["scratch"] = Fresh
      BY <1>1, <2>3
    <3>3. OneWriter'
      <4>1. \A r \in OpenToWrite' : r # "scratch" => handle'[r] # Fresh
        BY <1>1, <1>3, <3>1 DEF OpenToWrite
      <4> QED BY <1>1, <1>3, <3>1, <3>2, <4>1 DEF Rule, OneWriter
    <3>4. Pending(Opens \cup Spools)' => Pending(Opens \cup Spools)
      BY <2>3 DEF Pending
    <3>5. \A r \in OpenToWrite' \ {"scratch"} :
            handle'[r] \in writes' \ reads' /\ (spool'.named => handle'[r] # spool'.id)
      BY <1>2, <3>1 DEF Rule, Kept
    <3> QED BY <1>2, <3>2, <3>3, <3>4, <3>5 DEF Rule, Kept
  <2> QED BY <2>2, <2>3
<1> QED BY <1>6, <1>7, <1>8, <1>9, <1>10 DEF Rule

LEMMA TempSteps ==
  ASSUME Good, Rule, Next, Moves, KindsKept, ~ Begins, NewTemp \/ Spool \/ Dedup \/ Spill
  PROVE  Rule'
<1>1. /\ MakeTemp /\ UNCHANGED <<dir, opening, reads, spool>> /\ opening = NotOpening
      /\ todo # <<>> /\ Head(todo) \in {"newTemp", "spool", "dedup", "decodeRest"}
  BY DEF Begins, NewTemp, Spool, Dedup, Spill, At
<1>2. \/ handle' = handle
      \/ /\ handle["scratch"] = NoFile /\ handle' = [handle EXCEPT !["scratch"] = Fresh]
         /\ todo' = todo /\ Head(todo) = "decodeRest"
  BY DEF Begins, NewTemp, Spool, Dedup, Spill, At
<1> QED BY <1>1, <1>2, TempOn

(* The temporaries are given up when none is open to be written.           *)
LEMMA DeleteTempsStep ==
  ASSUME Good, Rule, Moves, KindsKept, DeleteTemps
  PROVE  Rule'
<1>1. /\ UNCHANGED <<request, dir, opening, reads, handle, spool>> /\ Done /\ todo # <<>>
      /\ Head(todo) = "deleteTemps" /\ opening = NotOpening
      /\ temps' = {} /\ writes' = writes \ temps
  BY DEF DeleteTemps, worldVars, At
<1>2. Head(todo) \notin CheckSteps \cup ReadSteps \cup Closers
  BY <1>1 DEF CheckSteps, ReadSteps, Closers
<1>3. handle["scratch"] = NoFile /\ ~ Pending(Opens \cup Spools)
  BY <1>1, ClosesLater DEF Good, Rule, Held
<1>4. InTurn' /\ Held' /\ Outside'
  BY <1>1, <1>2, <1>3, InTurnPast, IdsAssumption DEF Good, Held, Outside
<1>5. \A r \in OpenToWrite' : r \in OpenToWrite /\ handle'[r] = handle[r] /\ r # "scratch"
  <2>1. ASSUME NEW r \in OpenToWrite' PROVE r \in OpenToWrite
    BY <1>1, <2>1, StillOpen DEF Good, OpenToWrite
  <2> QED BY <1>1, <1>3, <2>1 DEF OpenToWrite, IsRegular
<1>6. ~ Pending(Opens \cup Spools)'
  <2>1. (Opens \cup Spools) \cap UndoSteps = {}
    BY DEF Opens, Spools, UndoSteps
  <2> QED BY <1>3, <2>1, PendingFewer DEF Good
<1>7. Kept'
  <2>1. \A r \in OpenToWrite' : r \in {"output", "index"}
    BY <1>5 DEF OpenToWrite, Writers
  <2>2. \A r \in OpenToWrite' : handle[r] \notin temps
    BY <2>1 DEF Rule, Outside
  <2> QED BY <1>1, <1>5, <1>6, <2>2 DEF Rule, Kept
<1>8. OneWriter'
  BY <1>1, <1>5 DEF Rule, OneWriter
<1>9. StreamsNoted'
  <2>1. ASSUME NEW step, NEW i \in {request.stdin, request.stdout, request.stderr},
               step \in CheckSteps, i \notin temps, Noted(step, i)
        PROVE  Noted(step, i)'
    <3>1. ~ Pending({step}) /\ ~ Pending(ReadSteps)'
      <4>1. ~ Pending(CheckSteps) /\ ~ Pending(ReadSteps)
        BY <1>1, <1>2, HeadLeads DEF Good
      <4>2. ReadSteps \cap UndoSteps = {}
        BY DEF ReadSteps, UndoSteps
      <4> QED BY <2>1, <4>1, <4>2, PendingFewer DEF Good, Pending
    <3>2. IsRegular(i)' <=> IsRegular(i)
      <4>1. i \in Ids \cup {NoFile} /\ (i = NoFile \/ InUse(i))
        BY RequestFields DEF Good, TypeOK, InUse
      <4> QED BY <4>1, RegularStays DEF Good
    <3>3. Idle' <=> Idle
      BY <1>1 DEF Idle
    <3> QED BY <1>1, <2>1, <3>1, <3>2, <3>3 DEF Noted, Done
  <2>2. ASSUME NEW i, i = request.stderr, request.talks PROVE Noted("noteStderr", i)'
    BY <2>1, <2>2 DEF Rule, StreamsNoted, Outside, CheckSteps, Noted
  <2>3. ASSUME NEW i, i = request.stdout, request.fo = Std PROVE Noted("noteStdout", i)'
    BY <2>1, <2>3 DEF Rule, StreamsNoted, Outside, CheckSteps, Noted
  <2> QED BY <1>1, <2>2, <2>3 DEF StreamsNoted, Noted
<1> QED BY <1>4, <1>7, <1>8, <1>9 DEF Rule

(* The scratch file is given up, and nothing else was noted under its      *)
(* number.                                                                 *)
LEMMA RemoveSpoolStep ==
  ASSUME Good, Rule, Moves, KindsKept, RemoveSpool
  PROVE  Rule'
<1>1. /\ UNCHANGED <<request, opening, reads>> /\ Done /\ todo # <<>>
      /\ Head(todo) = "removeSpool" /\ opening = NotOpening
      /\ temps' \subseteq temps
      /\ writes' = IF spool.named THEN writes \ {spool.id} ELSE writes \ (temps \cap {handle["scratch"]})
  BY DEF RemoveSpool, At
<1>2. Head(todo) \notin CheckSteps \cup ReadSteps
  BY <1>1 DEF CheckSteps, ReadSteps
<1>3. /\ handle'["scratch"] = NoFile
      /\ \A r \in Writers : handle'[r] \in {handle[r], NoFile}
      /\ handle'["output"] = handle["output"] /\ handle'["index"] = handle["index"]
      /\ ~ spool'.named
  <2>1. /\ handle \in [Roles -> Ids \cup {NoFile}] /\ {"output", "index", "scratch"} \subseteq Roles
        /\ Writers \subseteq Roles
        /\ spool \in [named: BOOLEAN, name: Names \cup {NoName}, id: Ids \cup {NoFile}]
    BY DEF Good, TypeOK, Roles, Writers
  <2> QED BY <2>1 DEF RemoveSpool
<1>4. \A n \in Names : dir'[n] \notin temps
  <2>1. \A n \in Names : dir'[n] \in {dir[n], NoFile}
    BY DEF RemoveSpool, Without
  <2> QED BY <2>1, IdsAssumption DEF Good, TypeOK, Rule, Outside
<1>5. InTurn' /\ Held' /\ Outside'
  <2>1. InTurn'
    BY <1>1, <1>2, InTurnPast DEF Good
  <2>2. opening.try # "check"
    BY <1>1 DEF NotOpening
  <2> QED BY <1>1, <1>3, <1>4, <2>1, <2>2 DEF Rule, Held, Outside
<1>6. \A r \in OpenToWrite' : r \in OpenToWrite /\ handle'[r] = handle[r] /\ r \in {"output", "index"}
  <2> SUFFICES ASSUME NEW r \in Writers, r \in OpenToWrite'
               PROVE  r \in OpenToWrite /\ handle'[r] = handle[r] /\ r \in {"output", "index"}
    BY DEF OpenToWrite
  <2>1. handle'[r] # NoFile
    BY DEF OpenToWrite, IsRegular
  <2>2. handle'[r] = handle[r] /\ r # "scratch"
    BY <1>3, <2>1
  <2>3. r \in OpenToWrite
    BY <1>1, <2>2, StillOpen DEF Good
  <2> QED BY <2>2, <2>3 DEF Writers
<1>7. Kept'
  <2>1. \A r \in OpenToWrite' : handle[r] \notin temps
    BY <1>6 DEF Rule, Outside
  <2>2. \A r \in OpenToWrite' : handle'[r] \in writes' \ reads'
    BY <1>1, <1>6, <2>1 DEF Rule, Kept
  <2> QED BY <1>3, <1>6, <2>2 DEF Kept
<1>8. OneWriter'
  BY <1>1, <1>6 DEF Rule, OneWriter
<1>9. StreamsNoted'
  <2>1. ASSUME NEW step, NEW i \in {request.stdin, request.stdout, request.stderr},
               step \in CheckSteps, i \notin temps, Noted(step, i)
        PROVE  Noted(step, i)'
    <3>1. ~ Pending({step}) /\ ~ Pending(ReadSteps)'
      <4>1. ~ Pending(CheckSteps) /\ ~ Pending(ReadSteps)
        BY <1>1, <1>2, HeadLeads DEF Good
      <4>2. ReadSteps \cap UndoSteps = {}
        BY DEF ReadSteps, UndoSteps
      <4> QED BY <2>1, <4>1, <4>2, PendingFewer DEF Good, Pending
    <3>2. IsRegular(i)' <=> IsRegular(i)
      <4>1. i \in Ids \cup {NoFile} /\ (i = NoFile \/ InUse(i))
        BY RequestFields DEF Good, TypeOK, InUse
      <4> QED BY <4>1, RegularStays DEF Good
    <3>3. Idle => Idle'
      BY <1>1, <1>3 DEF Idle
    <3> QED BY <1>1, <1>3, <2>1, <3>1, <3>2, <3>3 DEF Noted, Done
  <2>2. ASSUME NEW i, i = request.stderr, request.talks PROVE Noted("noteStderr", i)'
    BY <2>1, <2>2 DEF Rule, StreamsNoted, Outside, CheckSteps, Noted
  <2>3. ASSUME NEW i, i = request.stdout, request.fo = Std PROVE Noted("noteStdout", i)'
    BY <2>1, <2>3 DEF Rule, StreamsNoted, Outside, CheckSteps, Noted
  <2> QED BY <1>1, <2>2, <2>3 DEF StreamsNoted, Noted
<1> QED BY <1>5, <1>7, <1>8, <1>9 DEF Rule

(* Files are noted while nothing is open to be written.                    *)
LEMMA Noting ==
  ASSUME Good, Rule, Moves, KindsKept, opening = NotOpening, todo # <<>>, Head(todo) \in CheckSteps,
         UNCHANGED <<dir, opening, handle, spool, temps>>, writes \subseteq writes'
  PROVE  InTurn' /\ Held' /\ Outside' /\ Kept' /\ OneWriter' /\ Idle /\ Idle' /\ ~ spool.named
<1>1. Idle /\ ~ spool.named
  BY HeadLeads DEF Good, Rule, InTurn
<1>2. Idle' /\ InTurn'
  BY <1>1, InTurnOn DEF Idle, Rule, Good
<1>3. Held' /\ OpenToWrite' = {}
  BY <1>1, <1>2 DEF Idle, Held, OpenToWrite, IsRegular, Writers
<1>4. Kept' /\ OneWriter'
  BY <1>1, <1>3 DEF Kept, OneWriter
<1>5. Outside'
  BY DEF Rule, Outside, Moves, opened
<1> QED BY <1>1, <1>2, <1>3, <1>4, <1>5

LEMMA NoteReadSteps ==
  ASSUME Good, Rule, Moves, KindsKept, NoteInput \/ NoteIndex
  PROVE  Rule'
<1>1. /\ UNCHANGED <<request, dir, opening, handle, spool, temps, writes>> /\ Done /\ todo # <<>>
      /\ Head(todo) \in ReadSteps /\ opening = NotOpening
  BY DEF NoteInput, NoteIndex, At, ReadSteps, worldVars, dataVars
<1>2. Head(todo) \in CheckSteps /\ Head(todo) \notin {"noteStderr", "noteStdout"} \cup UndoSteps
  BY <1>1 DEF ReadSteps, CheckSteps, UndoSteps
<1>3. Pending(ReadSteps) /\ ~ failed
  BY <1>1, <1>2, HeadLeads DEF Good
<1>4. ASSUME NEW step \in {"noteStderr", "noteStdout"}, NEW i, Noted(step, i)
      PROVE  Noted(step, i)'
  BY <1>1, <1>2, <1>3, <1>4, PendingStays DEF Noted, Good
<1>5. StreamsNoted'
  BY <1>1, <1>4 DEF Rule, StreamsNoted, Noted
<1> QED BY <1>1, <1>2, <1>5, Noting DEF Rule

LEMMA NoteWriteSteps ==
  ASSUME Good, Rule, Moves, KindsKept, NoteStderr \/ NoteStdout
  PROVE  Rule'
<1>1. /\ UNCHANGED <<request, dir, opening, handle, spool, temps, reads>> /\ writes \subseteq writes'
      /\ todo # <<>> /\ opening = NotOpening /\ (Done \/ Fail)
      /\ Head(todo) \in {"noteStderr", "noteStdout"}
  BY DEF NoteStderr, NoteStdout, NoteStdWritten, At, worldVars, dataVars
<1>2. Head(todo) \in CheckSteps /\ Head(todo) \notin ReadSteps
  BY <1>1 DEF ReadSteps, CheckSteps
<1>3. Idle /\ Idle' /\ ~ spool.named /\ InTurn' /\ Held' /\ Outside' /\ Kept' /\ OneWriter'
  BY <1>1, <1>2, Noting
<1>4. ~ Pending(ReadSteps)'
  <2>1. ReadSteps \cap UndoSteps = {}
    BY DEF ReadSteps, UndoSteps
  <2> QED BY <1>1, <1>2, <2>1, HeadLeads, PendingFewer DEF Good
<1>5. ASSUME NEW step \in {"noteStderr", "noteStdout"}, Head(todo) = step,
             NEW i \in {request.stdin, request.stdout, request.stderr}, NoteStdWritten(i)
      PROVE  Noted(step, i)'
  <2>1. i \in Ids \cup {NoFile} /\ (i = NoFile \/ InUse(i))
    BY RequestFields DEF Good, TypeOK, InUse
  <2>2. IsRegular(i)' <=> IsRegular(i)
    BY <2>1, RegularStays DEF Good
  <2>3. CASE Fail
    BY <1>3, <2>3 DEF Noted, Fail
  <2>4. CASE ~ Fail
    BY <1>1, <1>3, <1>4, <1>5, <2>2, <2>4 DEF Noted, NoteStdWritten, Taken
  <2> QED BY <2>3, <2>4
<1>6. ASSUME NEW step \in {"noteStderr", "noteStdout"}, Head(todo) # step,
             NEW i \in {request.stdin, request.stdout, request.stderr}, Noted(step, i)
      PROVE  Noted(step, i)'
  BY <1>1, <1>3, <1>6, NotedOn DEF Good, Rule
<1>7. ASSUME NEW i, i = request.stderr, request.talks PROVE Noted("noteStderr", i)'
  <2>1. i \in {request.stdin, request.stdout, request.stderr} /\ Noted("noteStderr", i)
    BY <1>7 DEF Rule, StreamsNoted, Noted
  <2>2. Head(todo) = "noteStderr" => NoteStdWritten(i)
    BY <1>7 DEF NoteStderr, NoteStdout, At
  <2> QED BY <1>5, <1>6, <2>1, <2>2
<1>8. ASSUME NEW i, i = request.stdout, request.fo = Std PROVE Noted("noteStdout", i)'
  <2>1. i \in {request.stdin, request.stdout, request.stderr} /\ Noted("noteStdout", i)
    BY <1>8 DEF Rule, StreamsNoted, Noted
  <2>2. Head(todo) = "noteStdout" => NoteStdWritten(i)
    BY <1>8 DEF NoteStderr, NoteStdout, At
  <2> QED BY <1>5, <1>6, <2>1, <2>2
<1>9. StreamsNoted'
  BY <1>1, <1>7, <1>8 DEF StreamsNoted, Noted
<1> QED BY <1>3, <1>9 DEF Rule

(* An open under way: the file it has is not yet open to be written.       *)
LEMMA OpenOn ==
  ASSUME Good, Rule, KindsKept, UNCHANGED <<request, todo, failed, reads, writes, spool, temps>>,
         todo # <<>>, Head(todo) \in Opens \cup Spools, opening.try # "check", opening' # NotOpening,
         opening'.try = "check" => opened' \notin temps,
         \A n \in Names : dir'[n] \notin temps,
         handle' = handle \/ (/\ opening'.try = "check" /\ opening'.role \in Writers
                              /\ Head(todo) \in (IF opening'.role = "scratch" THEN Spools ELSE Opens)
                              /\ \A r \in Roles : r # opening'.role => handle'[r] = handle[r])
  PROVE  Rule'
<1>1. Head(todo) \notin CheckSteps \cup ReadSteps \cup UndoSteps
  BY DEF Opens, Spools, CheckSteps, ReadSteps, UndoSteps
<1>2. Moves
  BY DEF Moves
<1>3. InTurn'
  BY <1>1, <1>2, InTurnPast DEF Good
<1>4. {"output", "index", "scratch"} \subseteq Roles /\ Writers \subseteq Roles
  BY DEF Roles, Writers
<1>5. \A r \in OpenToWrite' : r \in OpenToWrite /\ handle'[r] = handle[r]
  <2> SUFFICES ASSUME NEW r \in Writers, r \in OpenToWrite'
               PROVE  r \in OpenToWrite /\ handle'[r] = handle[r]
    BY DEF OpenToWrite
  <2>1. handle'[r] = handle[r]
    BY <1>4 DEF OpenToWrite
  <2> QED BY <2>1, StillOpen DEF Good
<1>6. Kept' /\ OneWriter'
  <2>1. Pending(Opens \cup Spools)' => Pending(Opens \cup Spools)
    BY DEF Pending
  <2> QED BY <1>5, <2>1, KeptOn DEF Rule
<1>7. Held'
  <2>1. CASE handle'["scratch"] = handle["scratch"]
    BY <1>2, <2>1, HeldOn DEF Rule, Good
  <2>2. CASE Head(todo) \in Spools
    <3>1. ClosesFrom(todo, 1)
      BY <2>2, ClosesLater DEF Good
    <3> QED BY <3>1 DEF Held, ClosesFrom
  <2> QED BY <1>4, <2>1, <2>2
<1>8. Outside'
  <2>1. \A r \in {"output", "index"} : handle'[r] \notin temps
    <3> SUFFICES ASSUME NEW r \in {"output", "index"} PROVE handle'[r] \notin temps
      OBVIOUS
    <3>1. CASE handle'[r] = handle[r]
      BY <3>1 DEF Rule, Outside
    <3>2. CASE opening'.try = "check" /\ opening'.role = r
      BY <3>2 DEF opened
    <3> QED BY <1>4, <3>1, <3>2
  <2> QED BY <2>1 DEF Rule, Outside
<1>9. StreamsNoted'
  BY <1>2, StreamsOn DEF Rule, Good
<1> QED BY <1>3, <1>6, <1>7, <1>8, <1>9 DEF Rule

LEMMA OpenSteps ==
  ASSUME Good, Rule, Next, KindsKept,
         Begins \/ ExclusiveFails \/ TryExclusive \/ TryPlain \/ TryCreate
  PROVE  Rule'
<1>1. /\ dir \in [Names -> Ids \cup {NoFile}] /\ file \in [Ids -> File]
      /\ handle \in [Roles -> Ids \cup {NoFile}]
      /\ opening \in [try: {"none", "exclusive", "plain", "create", "check"},
                      name: Names \cup {NoName}, role: Roles, existed: BOOLEAN]
      /\ Writers \subseteq Roles
      /\ \A n \in Names : dir[n] \notin temps
      /\ \A n \in Names : Target(n) \in Names /\ Led(n) \notin temps
  BY LedType DEF Good, TypeOK, Roles, Rule, Outside, Led
<1>2. CASE Begins
  <2>1. PICK name, role : StartOpen(name, role)
    BY <1>2 DEF Begins, CreateIndex, CreateOutput, Spool, Spill
  <2>2. todo # <<>> /\ Head(todo) \in Opens \cup Spools /\ opening.try # "check"
    BY <1>2 DEF Begins, CreateIndex, CreateOutput, Spool, Spill, At, Opens, Spools, NotOpening
  <2>3. opening'.try = "exclusive" /\ opening' # NotOpening
    BY <2>1 DEF StartOpen, NotOpening
  <2>4. UNCHANGED <<request, todo, failed, reads, writes, spool, temps, dir, handle>>
    BY <2>1 DEF StartOpen, worldVars, ruleVars, dataVars
  <2> QED BY <1>1, <2>2, <2>3, <2>4, OpenOn
<1>3. CASE ExclusiveFails \/ TryExclusive \/ TryPlain \/ TryCreate
  <2>1. UNCHANGED <<request, todo, failed, reads, writes, spool, temps>>
    BY <1>3 DEF ExclusiveFails, TryExclusive, TryPlain, TryCreate, ruleVars, dataVars
  <2>2. opening # NotOpening /\ opening.try # "check"
    BY <1>3 DEF ExclusiveFails, TryExclusive, TryPlain, TryCreate, NotOpening
  <2>3. /\ todo # <<>> /\ opening.role \in Writers /\ opening.name \in Names
        /\ Head(todo) \in (IF opening.role = "scratch" THEN Spools ELSE Opens)
    BY <2>2 DEF Good, Named
  <2>4. opening'.role = opening.role /\ opening' # NotOpening
    <3>1. opening \in [try: {"none", "exclusive", "plain", "create", "check"},
                       name: Names \cup {NoName}, role: Roles, existed: BOOLEAN]
      BY <1>1
    <3>2. opening'.role = opening.role
      <4>1. CASE ExclusiveFails
        BY <3>1, <4>1 DEF ExclusiveFails
      <4>2. CASE TryExclusive
        BY <3>1, <4>2 DEF TryExclusive
      <4>3. CASE TryPlain
        BY <3>1, <4>3 DEF TryPlain
      <4>4. CASE TryCreate
        BY <3>1, <4>4 DEF TryCreate
      <4> QED BY <1>3, <4>1, <4>2, <4>3, <4>4
    <3>3. opening'.try \in {"check", "plain", "create"}
      BY <1>3, <3>1 DEF ExclusiveFails, TryExclusive, TryPlain, TryCreate
    <3> QED BY <3>2, <3>3 DEF NotOpening
  <2>5. \A n \in Names : MakeFile(n) => /\ \A m \in Names : dir'[m] \notin temps
                                       /\ handle' = [handle EXCEPT ![opening.role] = Fresh]
                                       /\ Fresh \notin temps
    BY <1>1, FreshIsFree DEF MakeFile, InUse
  <2>6. \A n \in Names : dir'[n] \notin temps
    BY <1>1, <1>3, <2>3, <2>5 DEF ExclusiveFails, TryExclusive, TryPlain, TryCreate, worldVars
  <2>7. \/ handle' = handle /\ opening'.try # "check"
        \/ /\ opening'.try = "check"
           /\ \E i : i \notin temps /\ handle' = [handle EXCEPT ![opening.role] = i]
    BY <1>1, <1>3, <2>3, <2>5 DEF ExclusiveFails, TryExclusive, TryPlain, TryCreate, dataVars
  <2>8. opening'.try = "check" => opened' \notin temps
    BY <1>1, <2>4, <2>7 DEF opened
  <2>9. handle' = handle \/ (/\ opening'.try = "check" /\ opening'.role \in Writers
                             /\ Head(todo) \in (IF opening'.role = "scratch" THEN Spools ELSE Opens)
                             /\ \A r \in Roles : r # opening'.role => handle'[r] = handle[r])
    BY <1>1, <2>3, <2>4, <2>7
  <2> QED BY <2>1, <2>2, <2>3, <2>4, <2>6, <2>8, <2>9, OpenOn
<1> QED BY <1>2, <1>3

(* An open that ends without a file.                                       *)
LEMMA FailingSteps ==
  ASSUME Good, Rule, Moves, KindsKept, OpenFails \/ Refuse \/ TruncateFails
  PROVE  Rule'
<1>1. /\ UNCHANGED <<request, reads, writes, spool, temps>> /\ Fail /\ opening' = NotOpening
      /\ opening # NotOpening
  BY DEF OpenFails, Refuse, TruncateFails, NotOpening, ruleVars, dataVars
<1>2. /\ todo # <<>> /\ Head(todo) \in Opens \cup Spools /\ opening.role \in Writers
  BY <1>1 DEF Good, Named
<1>3. Head(todo) \notin CheckSteps
  BY <1>2 DEF Opens, Spools, CheckSteps
<1>4. {"output", "index", "scratch"} \subseteq Writers /\ Writers \subseteq Roles
  BY DEF Roles, Writers
<1>5. /\ \A r \in Writers : handle'[r] \in {handle[r], NoFile}
      /\ opening.try = "check" => handle'[opening.role] = NoFile
  <2>1. handle \in [Roles -> Ids \cup {NoFile}]
    BY DEF Good, TypeOK
  <2> QED BY <1>2, <1>4, <2>1 DEF OpenFails, Refuse, TruncateFails, dataVars
<1>6. \A r \in OpenToWrite' : r \in OpenToWrite /\ handle'[r] = handle[r]
  <2> SUFFICES ASSUME NEW r \in Writers, r \in OpenToWrite'
               PROVE  r \in OpenToWrite /\ handle'[r] = handle[r]
    BY DEF OpenToWrite
  <2>1. handle'[r] # NoFile
    BY DEF OpenToWrite, IsRegular
  <2> QED BY <1>5, <2>1, StillOpen DEF Good
<1>7. Kept' /\ OneWriter'
  <2>1. (Opens \cup Spools) \cap UndoSteps = {}
    BY DEF Opens, Spools, UndoSteps
  <2> QED BY <1>1, <1>6, <2>1, KeptOn, PendingFewer DEF Rule, Good
<1>8. InTurn' /\ Held'
  BY <1>1, <1>2, <1>3, <1>4, <1>5, InTurnPast, HeldOn DEF Rule, Good
<1>9. Outside'
  <2>1. \A n \in Names : dir'[n] \in {dir[n], NoFile}
    <3>1. dir \in [Names -> Ids \cup {NoFile}]
      BY DEF Good, TypeOK
    <3> QED BY <3>1 DEF OpenFails, Refuse, TruncateFails, worldVars
  <2>2. NoFile \notin temps
    BY IdsAssumption DEF Good, TypeOK
  <2>3. opening'.try # "check"
    BY <1>1 DEF NotOpening
  <2> QED BY <1>1, <1>4, <1>5, <2>1, <2>2, <2>3 DEF Rule, Outside
<1>10. StreamsNoted'
  BY <1>1, StreamsOn DEF Rule, Good, Idle
<1> QED BY <1>7, <1>8, <1>9, <1>10 DEF Rule

(* The file of an open is neither noted nor one of the run's own: it is    *)
(* apart from every other.                                                 *)
LEMMA AcceptStep ==
  ASSUME Good, Rule, Moves, KindsKept, Accept
  PROVE  Rule'
<1> DEFINE role == opening.role
<1>1. /\ opening.try = "check" /\ opening' = NotOpening /\ UNCHANGED <<request, dir, reads, temps>>
      /\ writes' = IF IsRegular(opened) THEN writes \cup {opened} ELSE writes
      /\ IsRegular(opened) => opened \notin reads \cup writes
  BY DEF Accept, Taken
<1>2. /\ todo # <<>> /\ role \in Writers
      /\ Head(todo) \in (IF role = "scratch" THEN Spools ELSE Opens)
  BY <1>1 DEF Good, Named, NotOpening
<1>3. Head(todo) \notin CheckSteps \cup ReadSteps \cup UndoSteps \cup Closers \cup {"noteStderr", "noteStdout"}
  BY <1>2 DEF Opens, Spools, CheckSteps, ReadSteps, UndoSteps, Closers
<1>4. ~ Pending(CheckSteps) /\ ~ Pending(ReadSteps) /\ ~ failed /\ Pending(Opens \cup Spools)
  BY <1>2, <1>3, HeadLeads DEF Good
<1>5. {"output", "index", "scratch"} = Writers /\ Writers \subseteq Roles
      /\ handle \in [Roles -> Ids \cup {NoFile}]
  BY DEF Roles, Writers, Good, TypeOK
<1>6. \/ role # "scratch" /\ spool' = spool /\ handle' = handle
      \/ /\ role = "scratch" /\ spool'.named = IsRegular(opened) /\ spool'.id = opened
         /\ handle' = handle \/ (~ IsRegular(opened) /\ handle'["scratch"] = NoFile
                                 /\ handle' = [handle EXCEPT !["scratch"] = NoFile])
  BY <1>5 DEF Accept
<1>7. \A r \in Writers : handle'[r] \in {handle[r], NoFile}
  BY <1>5, <1>6
<1>8. opened \notin temps /\ opened = handle[role]
  BY <1>1 DEF Rule, Outside, opened
<1>9. \A r \in OpenToWrite' : /\ handle'[r] = handle[r]
                              /\ r # role => r \in OpenToWrite
                              /\ r = role => IsRegular(opened)
  <2> SUFFICES ASSUME NEW r \in Writers, r \in OpenToWrite'
               PROVE  /\ handle'[r] = handle[r]
                      /\ r # role => r \in OpenToWrite
                      /\ r = role => IsRegular(opened)
    BY DEF OpenToWrite
  <2>1. handle'[r] = handle[r] /\ handle[r] # NoFile
    BY <1>7 DEF OpenToWrite, IsRegular
  <2>2. IsRegular(handle[r])
    <3>1. handle[r] \in Ids /\ InUse(handle[r])
      BY <1>5, <2>1 DEF InUse
    <3>2. file'[handle[r]].kind = "regular"
      BY <2>1 DEF OpenToWrite, IsRegular
    <3> QED BY <2>1, <3>1, <3>2 DEF KindsKept, IsRegular
  <2> QED BY <1>8, <2>1, <2>2 DEF OpenToWrite
<1>10. \A r \in OpenToWrite : \/ handle[r] \in writes
                              \/ handle[r] \in temps
  BY <1>4 DEF Rule, Kept
<1>11. ASSUME NEW i, \/ request.talks /\ i = request.stderr
                     \/ request.fo = Std /\ i = request.stdout
       PROVE  /\ IsRegular(i)' => IsRegular(i)
              /\ IsRegular(i) => i \in writes \ reads /\ (spool.named => i # spool.id)
  <2>1. i \in Ids \cup {NoFile} /\ (i = NoFile \/ InUse(i))
    BY <1>11, RequestFields DEF Good, TypeOK, InUse
  <2>2. ~ Pending({"noteStderr"}) /\ ~ Pending({"noteStdout"})
    BY <1>4 DEF Pending, CheckSteps
  <2>3. IsRegular(i)' <=> IsRegular(i)
    BY <2>1, RegularStays DEF Good
  <2> QED BY <1>4, <1>11, <2>2, <2>3 DEF Rule, StreamsNoted, Noted
<1>12. InTurn'
  BY <1>2, <1>3, InTurnPast DEF Good
<1>13. Held'
  BY <1>3, <1>6, HeldOn DEF Rule, Good
<1>14. Outside'
  <2>1. opening'.try # "check" /\ NoFile \notin temps
    BY <1>1, IdsAssumption DEF NotOpening, Good, TypeOK
  <2> QED BY <1>1, <1>5, <1>7, <2>1 DEF Rule, Outside
<1>15. StreamsNoted'
  <2>1. ~ Pending(ReadSteps)'
    <3>1. ReadSteps \cap UndoSteps = {}
      BY DEF ReadSteps, UndoSteps
    <3> QED BY <1>4, <3>1, PendingFewer DEF Good
  <2>2. ASSUME NEW i, \/ request.talks /\ i = request.stderr
                      \/ request.fo = Std /\ i = request.stdout
        PROVE  IsRegular(i)' => i \in writes' \ reads' /\ (spool'.named => i # spool'.id)
    BY <1>1, <1>6, <1>11, <2>2
  <2> QED BY <1>1, <2>1, <2>2 DEF StreamsNoted, Noted
<1>16. OneWriter'
  <2>1. ASSUME NEW r \in OpenToWrite', NEW s \in OpenToWrite', r # s
        PROVE  handle'[r] # handle'[s]
    <3>1. CASE r # role /\ s # role
      BY <1>9, <2>1, <3>1 DEF Rule, OneWriter
    <3>2. CASE r = role \/ s = role
      BY <1>1, <1>8, <1>9, <1>10, <2>1, <3>2
    <3> QED BY <3>1, <3>2
  <2>2. ASSUME NEW r \in OpenToWrite', NEW i, \/ request.talks /\ i = request.stderr
                                              \/ request.fo = Std /\ i = request.stdout
        PROVE  handle'[r] # i
    <3>1. CASE r # role
      BY <1>9, <2>2, <3>1 DEF Rule, OneWriter
    <3>2. CASE r = role
      BY <1>1, <1>8, <1>9, <1>11, <2>2, <3>2
    <3> QED BY <3>1, <3>2
  <2> QED BY <1>1, <2>1, <2>2 DEF OneWriter
<1>17. Kept'
  <2>1. spool'.named => spool'.id \in writes'
    BY <1>1, <1>4, <1>6 DEF Rule, Kept
  <2>2. ASSUME NEW r \in OpenToWrite' \ {"scratch"}
        PROVE  handle'[r] \in writes' \ reads' /\ (spool'.named => handle'[r] # spool'.id)
    <3>1. CASE r # role
      <4>1. handle[r] \in writes \ reads /\ (spool.named => handle[r] # spool.id)
        BY <1>9, <2>2, <3>1 DEF Rule, Kept
      <4> QED BY <1>1, <1>6, <1>9, <2>2, <4>1
    <3>2. CASE r = role
      <4>1. spool.named => spool.id \in writes
        BY <1>4 DEF Rule, Kept
      <4> QED BY <1>1, <1>6, <1>8, <1>9, <2>2, <3>2, <4>1
    <3> QED BY <3>1, <3>2
  <2>3. ASSUME "scratch" \in OpenToWrite'
        PROVE  \/ handle'["scratch"] \in temps'
               \/ spool'.named /\ handle'["scratch"] = spool'.id /\ handle'["scratch"] \notin reads'
    <3>1. CASE role # "scratch"
      BY <1>1, <1>6, <1>9, <2>3, <3>1 DEF Rule, Kept
    <3>2. CASE role = "scratch"
      BY <1>1, <1>6, <1>8, <1>9, <2>3, <3>2
    <3> QED BY <3>1, <3>2
  <2> QED BY <2>1, <2>2, <2>3 DEF Kept
<1> QED BY <1>12, <1>13, <1>14, <1>15, <1>16, <1>17 DEF Rule

LEMMA RuleKept ==
  ASSUME Good, Rule, Next
  PROVE  Rule'
<1>1. Moves /\ KindsKept
  BY NextMoves, KindsStay DEF Good
<1>2. CASE CheckNames \/ Stamp \/ Sniff \/ OpenInput \/ OpenIndex \/ Encode \/ Decode \/ CopyOut
           \/ Breaks \/ CopyStdin \/ Ending \/ Other \/ Stopped
  BY <1>1, <1>2, QuietSteps
<1>3. CASE Begins
  BY <1>1, <1>3, OpenSteps
<1>4. CASE ~ Begins /\ (NewTemp \/ Spool \/ Dedup \/ Spill)
  BY <1>1, <1>4, TempSteps
<1>5. CASE DeleteTemps \/ RemoveSpool
  BY <1>1, <1>5, DeleteTempsStep, RemoveSpoolStep
<1>6. CASE NoteInput \/ NoteIndex \/ NoteStderr \/ NoteStdout
  BY <1>1, <1>6, NoteReadSteps, NoteWriteSteps
<1>7. CASE ExclusiveFails \/ TryExclusive \/ TryPlain \/ TryCreate
  BY <1>1, <1>7, OpenSteps
<1>8. CASE OpenFails \/ Refuse \/ TruncateFails \/ Accept
  BY <1>1, <1>8, FailingSteps, AcceptStep
<1> QED BY <1>2, <1>3, <1>4, <1>5, <1>6, <1>7, <1>8
        DEF Next, Run, Checking, Opening, Temps, Working, Begins

(* Nothing is open yet, and the checks are still to be made.               *)
Has(s, x) == \E i \in DOMAIN s : s[i] = x

LEMMA ConcatHas ==
  ASSUME NEW S, NEW s \in Seq(S), NEW t \in Seq(S), NEW x \in S,
         Has(s, x) \/ Has(t, x)
  PROVE  s \o t \in Seq(S) /\ Has(s \o t, x)
<1>1. CASE Has(s, x)
  <2>1. PICK i \in DOMAIN s : s[i] = x
    BY <1>1 DEF Has
  <2>2. i \in DOMAIN (s \o t) /\ (s \o t)[i] = s[i]
    OBVIOUS
  <2> QED BY <2>1, <2>2 DEF Has
<1>2. CASE Has(t, x)
  <2>1. PICK i \in DOMAIN t : t[i] = x
    BY <1>2 DEF Has
  <2>2. i + Len(s) \in DOMAIN (s \o t) /\ (s \o t)[i + Len(s)] = t[i]
    OBVIOUS
  <2> QED BY <2>1, <2>2 DEF Has
<1> QED BY <1>1, <1>2

LEMMA ScriptBegins ==
  ASSUME NEW q \in Requests
  PROVE  /\ q.talks => Has(Script(q), "noteStderr")
         /\ q.fo = Std => Has(Script(q), "noteStdout")
<1> DEFINE a == <<"noteInput">> \o If(q.mode = "decompress" /\ q.index # NoName, "noteIndex")
           b == If(q.talks, "noteStderr")
           c == If(q.fo = Std, "noteStdout")
           d == <<"checkNames">>
           e == If(q.fi # Std, "stamp")
           w == IF q.mode = "compress" THEN Compress(q) ELSE Decompress(q)
<1>1. q \in Request /\ (q.dup => q.fo # Std)
  BY RequestsAssumption
<1>2. /\ <<"noteInput">> \in Seq(Steps) /\ d \in Seq(Steps) /\ b \in Seq(Steps)
      /\ c \in Seq(Steps) /\ e \in Seq(Steps)
      /\ If(q.mode = "decompress" /\ q.index # NoName, "noteIndex") \in Seq(Steps)
  <2>1. {"noteInput", "noteIndex", "noteStderr", "noteStdout", "checkNames", "stamp"} \subseteq Steps
    BY DEF Steps
  <2>2. q.talks \in BOOLEAN
    BY <1>1 DEF Request
  <2> QED BY <2>1, <2>2, One, IfSeq
<1>3. a \in Seq(Steps)
  BY <1>2, ConcatSeq
<1>4. w \in Seq(Steps)
  <2>1. Allowed(q) \subseteq Steps
    BY DEF Allowed
  <2>2. w \in Seq(Allowed(q) \ CheckSteps)
    BY <1>1, CompressOrdered, DecompressOrdered
  <2> HIDE DEF w
  <2> QED BY <2>1, <2>2
<1>5. Script(q) = ((((a \o b) \o c) \o d) \o e) \o w
  BY DEF Script, Checks
<1>6. q.talks => Has(b, "noteStderr")
  BY DEF If, Has
<1>7. q.fo = Std => Has(c, "noteStdout")
  BY DEF If, Has
<1>8. "noteStderr" \in Steps /\ "noteStdout" \in Steps
  BY DEF Steps
<1> HIDE DEF a, b, c, d, e, w
<1> DEFINE ab == a \o b
           ac == ab \o c
           ad == ac \o d
           ae == ad \o e
<1>9. ab \in Seq(Steps) /\ (q.talks => Has(ab, "noteStderr"))
  BY <1>2, <1>3, <1>6, <1>8, ConcatSeq, ConcatHas
<1>10. Script(q) = ae \o w
  BY <1>5
<1> HIDE DEF ab
<1>11. /\ ac \in Seq(Steps) /\ (q.talks => Has(ac, "noteStderr"))
       /\ q.fo = Std => Has(ac, "noteStdout")
  BY <1>2, <1>7, <1>9, <1>8, ConcatSeq, ConcatHas
<1> HIDE DEF ac
<1>12. /\ ad \in Seq(Steps) /\ (q.talks => Has(ad, "noteStderr"))
       /\ q.fo = Std => Has(ad, "noteStdout")
  BY <1>2, <1>11, <1>8, ConcatSeq, ConcatHas
<1> HIDE DEF ad
<1>13. /\ ae \in Seq(Steps) /\ (q.talks => Has(ae, "noteStderr"))
       /\ q.fo = Std => Has(ae, "noteStdout")
  BY <1>2, <1>12, <1>8, ConcatSeq, ConcatHas
<1> HIDE DEF ae
<1> QED BY <1>4, <1>10, <1>13, <1>8, ConcatHas

LEMMA RuleStarts ==
  ASSUME Init
  PROVE  Rule
<1>1. OpenToWrite = {} /\ Idle
  BY DEF Init, OpenToWrite, IsRegular, Idle, Writers, Roles
<1>2. InTurn /\ Held /\ OneWriter /\ Kept
  BY <1>1 DEF Init, InTurn, Held, OneWriter, Kept, Roles, Writers, Idle
<1>3. Outside
  BY DEF Init, Outside, NotOpening
<1>4. StreamsNoted
  BY ScriptBegins DEF Init, StreamsNoted, Noted, Pending, Has
<1> QED BY <1>2, <1>3, <1>4 DEF Rule

LEMMA RuleHolds == Spec => [](Good /\ Rule)
<1>1. Init => Good /\ Rule
  BY TypesStart, RuleStarts DEF Good
<1>2. Good /\ Rule /\ [Next]_vars => (Good /\ Rule)'
  <2>1. CASE Next
    BY <2>1, TypesKept, RuleKept DEF Good
  <2>2. CASE UNCHANGED vars
    BY <2>2 DEF vars, worldVars, ruleVars, dataVars, Good, TypeOK, TodoOK, Named, Rule, InTurn,
                Held, Outside, Kept, StreamsNoted, Noted, OneWriter, Idle, Pending, OpenToWrite,
                IsRegular, opened
  <2> QED BY <2>1, <2>2
<1> QED BY <1>1, <1>2, PTL DEF Spec

(* No output of a run lands in another, nor in a standard stream that it   *)
(* writes, whatever names were given, whatever they lead to, and wherever  *)
(* another process points them meanwhile.                                  *)
THEOREM WritersApart == Spec => []OneWriter
<1>1. Rule => OneWriter
  BY DEF Rule
<1> QED BY <1>1, RuleHolds, PTL

(* What is written is not noted as read: the file that a step writes is    *)
(* one that the run holds open to write, or a stream it noted.             *)
LEMMA WorkSparesInputs ==
  ASSUME Good, Rule, CopyStdin \/ Encode \/ Decode \/ CopyOut \/ CheckUnchanged,
         NEW i \in reads \ temps
  PROVE  file'[i] = file[i]
<1>1. i \in Ids /\ file[i].kind \in {"link", "regular", "device"} /\ NoFile \notin Ids
  BY IdsAssumption DEF Good, TypeOK, File, Link
<1>2. /\ todo # <<>> /\ opening = NotOpening
      /\ Head(todo) \in {"copyStdin", "encode", "encodeRest", "decode", "decodeRest", "copyOut",
                         "checkUnchanged"}
  BY DEF CopyStdin, Encode, Decode, CopyOut, CheckUnchanged, At
<1>3. ~ Pending(CheckSteps) /\ ~ failed
  BY <1>2, HeadLeads DEF Good, CheckSteps, UndoSteps
<1> SUFFICES ASSUME file'[i] # file[i] PROVE FALSE
  OBVIOUS
<1>4. IsRegular(i)
  BY <1>1, WorkWrites DEF IsRegular, Good
<1>5. \A r \in Writers : handle[r] # i
  <2> SUFFICES ASSUME NEW r \in Writers, handle[r] = i PROVE FALSE
    OBVIOUS
  <2>1. r \in OpenToWrite
    BY <1>2, <1>4 DEF OpenToWrite, NotOpening
  <2>2. CASE r = "scratch"
    BY <2>1, <2>2 DEF Rule, Kept
  <2>3. CASE r # "scratch"
    BY <2>1, <2>3 DEF Rule, Kept
  <2> QED BY <2>2, <2>3
<1>6. ASSUME NEW step \in CheckSteps, Noted(step, i) PROVE FALSE
  BY <1>3, <1>4, <1>6 DEF Noted, Pending
<1>7. ~ (i = request.stdout /\ request.fo = Std) /\ ~ (i = request.stderr /\ request.talks)
  BY <1>6 DEF Rule, StreamsNoted, CheckSteps, Noted
<1> QED BY <1>1, <1>5, <1>7, WorkWrites DEF Good, Writers

(* No file that a run reads is changed by the run, whatever names it has   *)
(* been given for its outputs, and wherever another process points them.   *)
THEOREM InputsSafe == Spec => InputsUntouched
<1> DEFINE A == meddled' = meddled /\ ~ At("report") =>
                  \A i \in reads \ temps : InUse(i) => file'[i].text = file[i].text
<1>1. Good /\ Rule /\ [Next]_vars => A
  <2> SUFFICES ASSUME Good, Rule, [Next]_vars, meddled' = meddled, ~ At("report"),
                      NEW i \in reads \ temps, InUse(i)
               PROVE  file'[i] = file[i]
    BY DEF A
  <2>1. i \in Ids
    BY DEF Good, TypeOK
  <2>2. CASE UNCHANGED vars
    BY <2>2 DEF vars, worldVars
  <2>3. CASE CopyStdin \/ Encode \/ Decode \/ CopyOut \/ CheckUnchanged
    BY <2>3, WorkSparesInputs
  <2>4. CASE Next /\ ~ (CopyStdin \/ Encode \/ Decode \/ CopyOut \/ CheckUnchanged)
    <3>1. \/ file'[i] = file[i]
          \/ i = opened /\ Accept /\ file[i].kind = "regular"
      BY <2>1, <2>4, RestWrites DEF Good
    <3>2. ~ (i = opened /\ Accept /\ file[i].kind = "regular")
      BY <2>1, IdsAssumption DEF Accept, IsRegular, Taken
    <3> QED BY <3>1, <3>2
  <2> QED BY <2>2, <2>3, <2>4
<1> QED BY <1>1, RuleHolds, PTL DEF Spec, InputsUntouched

-----------------------------------------------------------------------------
(* What the run reads: the steps that read come before the check that the  *)
(* input is unchanged, and what is opened is read before it is closed.     *)
Readers == {"sniff", "dedup", "openInput", "encode", "encodeRest", "decode", "decodeRest"}
Reading == Readers \cup {"stamp"}

ChecksAfter(s) ==
  \A i \in DOMAIN s : s[i] \in Reading =>
    /\ Has(s, "checkUnchanged")
    /\ \A j \in DOMAIN s : s[j] = "checkUnchanged" => i < j

WorksFrom(s, from) ==
  \E j \in DOMAIN s : /\ j >= from /\ s[j] \in {"encode", "decode"}
                      /\ \A k \in DOMAIN s : s[k] = "close" => j < k

Works(s) == \A i \in DOMAIN s : s[i] = "openInput" => WorksFrom(s, i + 1)

ReadsOK == ChecksAfter(todo) /\ Works(todo)

LEMMA ConcatParts ==
  ASSUME NEW S, NEW s \in Seq(S), NEW t \in Seq(S)
  PROVE  /\ s \o t \in Seq(S) /\ Len(s \o t) = Len(s) + Len(t)
         /\ \A i \in 1 .. Len(s) : (s \o t)[i] = s[i]
         /\ \A i \in 1 .. Len(t) : (s \o t)[Len(s) + i] = t[i]
<1>1. \A i \in 1 .. Len(s) : (s \o t)[i] = s[i]
  OBVIOUS
<1>2. \A i \in 1 .. Len(t) : (s \o t)[Len(s) + i] = t[i]
  OBVIOUS
<1> QED BY <1>1, <1>2

(* A list in three parts: what comes before the work, the work, and the    *)
(* check with what comes after the work.                                   *)
LEMMA WorkInMiddle ==
  ASSUME NEW p \in Seq(Steps \ {"close", "checkUnchanged"}),
         NEW m \in {"encode", "decode"}, NEW r \in {"encodeRest", "decodeRest"},
         NEW x \in {"close", "removeSpool"},
         NEW t \in Seq(Steps \ Reading), Has(t, "checkUnchanged")
  PROVE  LET s == (p \o <<m, r, x>>) \o t IN ChecksAfter(s) /\ Works(s)
<1> DEFINE w == <<m, r, x>>
           n == Len(p)
           s == (p \o w) \o t
<1>1. /\ Len(w) = 3 /\ w[1] = m /\ w[2] = r /\ w[3] = x /\ n \in Nat
      /\ p \in Seq(Steps) /\ t \in Seq(Steps) /\ w \in Seq(Steps)
  BY DEF Steps
<1>2. /\ Len(s) = n + 3 + Len(t)
      /\ \A i \in 1 .. n : s[i] = p[i]
      /\ s[n + 1] = m /\ s[n + 2] = r /\ s[n + 3] = x
      /\ \A i \in 1 .. Len(t) : s[n + 3 + i] = t[i]
  <2>1. /\ p \o w \in Seq(Steps) /\ Len(p \o w) = n + 3
        /\ \A i \in 1 .. n : (p \o w)[i] = p[i]
        /\ \A i \in 1 .. 3 : (p \o w)[n + i] = w[i]
    BY <1>1, ConcatParts
  <2> DEFINE a == p \o w
  <2> HIDE DEF a
  <2>2. /\ Len(a \o t) = n + 3 + Len(t)
        /\ \A i \in 1 .. n + 3 : (a \o t)[i] = a[i]
        /\ \A i \in 1 .. Len(t) : (a \o t)[n + 3 + i] = t[i]
    BY <1>1, <2>1 DEF a
  <2>3. a[n + 1] = m /\ a[n + 2] = r /\ a[n + 3] = x /\ \A i \in 1 .. n : a[i] = p[i]
    BY <1>1, <2>1 DEF a
  <2>4. n + 1 \in 1 .. n + 3 /\ n + 2 \in 1 .. n + 3 /\ n + 3 \in 1 .. n + 3
          /\ \A i \in 1 .. n : i \in 1 .. n + 3
    BY <1>1
  <2>5. s = a \o t
    BY DEF a
  <2> HIDE DEF s, n
  <2> QED BY <2>2, <2>3, <2>4, <2>5
<1>3. s \in Seq(Steps) /\ DOMAIN s = 1 .. n + 3 + Len(t) /\ Len(t) \in Nat
  <2>1. p \o w \in Seq(Steps)
    <3> HIDE DEF w
    <3> QED BY <1>1
  <2>2. s \in Seq(Steps)
    <3> DEFINE a == p \o w
    <3> HIDE DEF a
    <3>1. a \in Seq(Steps)
      BY <2>1 DEF a
    <3>2. a \o t \in Seq(Steps)
      BY <1>1, <3>1
    <3> QED BY <3>2 DEF a
  <2> HIDE DEF s, n
  <2> QED BY <1>2, <2>2
<1> HIDE DEF s, w, n
<1>4. \A i \in DOMAIN s : \/ i \in 1 .. n
                          \/ i \in {n + 1, n + 2, n + 3}
                          \/ i - (n + 3) \in 1 .. Len(t) /\ i = n + 3 + (i - (n + 3))
  BY <1>1, <1>3
<1>5. /\ \A i \in 1 .. n : p[i] \notin {"close", "checkUnchanged"}
      /\ \A i \in 1 .. Len(t) : t[i] \notin Reading
  <2>1. \A i \in 1 .. Len(p) : p[i] \in Steps \ {"close", "checkUnchanged"}
    OBVIOUS
  <2>2. \A i \in 1 .. Len(t) : t[i] \in Steps \ Reading
    OBVIOUS
  <2> QED BY <2>1, <2>2 DEF n
<1>6. ASSUME NEW i \in DOMAIN s, s[i] \in Reading
      PROVE  i <= n + 2
  <2>1. s[n + 3] \notin Reading
    BY <1>2 DEF Reading, Readers
  <2>2. ~ (i - (n + 3) \in 1 .. Len(t) /\ i = n + 3 + (i - (n + 3)))
    BY <1>2, <1>5, <1>6
  <2> QED BY <1>1, <1>4, <1>6, <2>1, <2>2
<1>7. ASSUME NEW j \in DOMAIN s, s[j] = "checkUnchanged"
      PROVE  j > n + 3
  <2>1. j \notin {n + 1, n + 2, n + 3}
    BY <1>2, <1>7
  <2>2. j \notin 1 .. n
    BY <1>2, <1>5, <1>7
  <2> QED BY <1>1, <1>3, <1>4, <2>1, <2>2
<1>8. Has(s, "checkUnchanged")
  <2>1. PICK i \in 1 .. Len(t) : t[i] = "checkUnchanged"
    BY DEF Has
  <2>2. n + 3 + i \in DOMAIN s /\ s[n + 3 + i] = "checkUnchanged"
    BY <1>1, <1>2, <1>3, <2>1
  <2> QED BY <2>2 DEF Has
<1>9. ChecksAfter(s)
  <2>1. ASSUME NEW i \in DOMAIN s, s[i] \in Reading, NEW j \in DOMAIN s, s[j] = "checkUnchanged"
        PROVE  i < j
    BY <1>1, <1>3, <1>6, <1>7, <2>1
  <2> QED BY <1>8, <2>1 DEF ChecksAfter
<1>10. Works(s)
  <2> SUFFICES ASSUME NEW i \in DOMAIN s, s[i] = "openInput" PROVE WorksFrom(s, i + 1)
    BY DEF Works
  <2>1. i <= n
    <3>1. i <= n + 2
      BY <1>6 DEF Reading, Readers
    <3>2. i # n + 1 /\ i # n + 2
      BY <1>2
    <3> QED BY <1>1, <1>3, <3>1, <3>2
  <2>2. n + 1 \in DOMAIN s /\ n + 1 >= i + 1 /\ s[n + 1] \in {"encode", "decode"}
    BY <1>1, <1>2, <1>3, <2>1
  <2>3. ASSUME NEW k \in DOMAIN s, s[k] = "close" PROVE n + 1 < k
    <3>1. k \notin 1 .. n /\ k # n + 1
      BY <1>2, <1>5, <2>3
    <3> QED BY <1>1, <1>3, <3>1
  <2> QED BY <2>2, <2>3 DEF WorksFrom
<1> QED BY <1>9, <1>10 DEF s, w

LEMMA Regroup ==
  ASSUME NEW S, NEW x \in Seq(S), NEW y \in Seq(S), NEW z \in Seq(S)
  PROVE  (x \o y) \o z = x \o (y \o z)
<1> DEFINE a == (x \o y) \o z
           b == x \o (y \o z)
<1>1. /\ x \o y \in Seq(S) /\ Len(x \o y) = Len(x) + Len(y)
      /\ \A i \in 1 .. Len(x) : (x \o y)[i] = x[i]
      /\ \A i \in 1 .. Len(y) : (x \o y)[Len(x) + i] = y[i]
  BY ConcatParts
<1>2. /\ y \o z \in Seq(S) /\ Len(y \o z) = Len(y) + Len(z)
      /\ \A i \in 1 .. Len(y) : (y \o z)[i] = y[i]
      /\ \A i \in 1 .. Len(z) : (y \o z)[Len(y) + i] = z[i]
  BY ConcatParts
<1>3. /\ a \in Seq(S) /\ Len(a) = Len(x) + Len(y) + Len(z)
      /\ \A i \in 1 .. Len(x) + Len(y) : a[i] = (x \o y)[i]
      /\ \A i \in 1 .. Len(z) : a[Len(x) + Len(y) + i] = z[i]
  BY <1>1, ConcatParts
<1>4. /\ b \in Seq(S) /\ Len(b) = Len(x) + (Len(y) + Len(z))
      /\ \A i \in 1 .. Len(x) : b[i] = x[i]
      /\ \A i \in 1 .. Len(y) + Len(z) : b[Len(x) + i] = (y \o z)[i]
  BY <1>2, ConcatParts
<1>5. Len(x) \in Nat /\ Len(y) \in Nat /\ Len(z) \in Nat
  OBVIOUS
<1> HIDE DEF a, b
<1>6. ASSUME NEW i \in 1 .. Len(a) PROVE a[i] = b[i]
  <2>1. CASE i <= Len(x)
    <3>1. i \in 1 .. Len(x) /\ i \in 1 .. Len(x) + Len(y)
      BY <1>5, <2>1
    <3> QED BY <1>1, <1>3, <1>4, <3>1
  <2>2. CASE i > Len(x) /\ i <= Len(x) + Len(y)
    <3>1. PICK j \in 1 .. Len(y) : i = Len(x) + j
      <4>1. i - Len(x) \in 1 .. Len(y) /\ i = Len(x) + (i - Len(x))
        BY <1>5, <2>2
      <4> QED BY <4>1
    <3>2. j \in 1 .. Len(y) + Len(z) /\ i \in 1 .. Len(x) + Len(y)
      BY <1>5, <2>2, <3>1
    <3>3. a[i] = y[j]
      BY <1>1, <1>3, <3>1, <3>2
    <3>4. b[i] = y[j]
      BY <1>2, <1>4, <3>1, <3>2
    <3> QED BY <3>3, <3>4
  <2>3. CASE i > Len(x) + Len(y)
    <3>1. PICK j \in 1 .. Len(z) : i = Len(x) + Len(y) + j
      <4>1. i - (Len(x) + Len(y)) \in 1 .. Len(z) /\ i = Len(x) + Len(y) + (i - (Len(x) + Len(y)))
        BY <1>3, <1>5, <2>3
      <4> QED BY <4>1
    <3>2. Len(y) + j \in 1 .. Len(y) + Len(z) /\ i = Len(x) + (Len(y) + j)
      BY <1>5, <3>1
    <3>3. a[i] = z[j]
      BY <1>3, <3>1
    <3>4. b[i] = z[j]
      BY <1>2, <1>4, <3>1, <3>2
    <3> QED BY <3>3, <3>4
  <2> QED BY <1>5, <2>1, <2>2, <2>3
<1>7. Len(a) = Len(b)
  BY <1>3, <1>4, <1>5
<1> QED BY <1>3, <1>4, <1>6, <1>7

LEMMA RegroupSteps ==
  \A x, y, z \in Seq(Steps) : (x \o y) \o z = x \o (y \o z)
<1> TAKE x, y, z \in Seq(Steps)
<1> QED BY Regroup

(* A run opens its input, or deduplicates it, unless it only checks.       *)
Takes(s) == Has(s, "dedup") \/ Has(s, "openInput")

LEMMA TakesOn ==
  ASSUME NEW s \in Seq(Steps), NEW t \in Seq(Steps), Takes(s) \/ Takes(t)
  PROVE  s \o t \in Seq(Steps) /\ Takes(s \o t)
  BY ConcatHas DEF Takes, Steps

LEMMA CompressReads ==
  ASSUME NEW q \in Request, NEW h \in Seq(CheckSteps)
  PROVE  LET s == h \o Compress(q) IN ChecksAfter(s) /\ Works(s) /\ Takes(s)
<1> DEFINE P == Steps \ {"close", "checkUnchanged"}
           T == Steps \ Reading
           a == IF q.fi = Std THEN <<"spool", "copyStdin">> ELSE <<>>
           b == If(q.index # NoName, "createIndex")
           c == If(q.dup, "dedup")
           d == If(~ q.dup, "openInput")
           e == If(q.fo # Std, "createOutput")
           w == <<"encode", "encodeRest", "close">>
           x == IF q.dup THEN <<"deleteTemps", "checkUnchanged">>
                ELSE <<"checkUnchanged", "removeSpool", "deleteTemps">>
           y == If(q.delete /\ q.fi # Std, "delete")
           p == (((a \o b) \o c) \o d) \o e
<1>1. q.dup \in BOOLEAN /\ q.delete \in BOOLEAN
  BY DEF Request
<1>2. h \in Seq(P) /\ CheckSteps \subseteq P /\ P \subseteq Steps /\ T \subseteq Steps
  BY DEF CheckSteps, Steps
<1>3. a \in Seq(P) /\ b \in Seq(P) /\ c \in Seq(P) /\ d \in Seq(P) /\ e \in Seq(P)
  <2>1. {"spool", "copyStdin", "createIndex", "dedup", "openInput", "createOutput"} \subseteq P
    BY DEF Steps
  <2> HIDE DEF P
  <2> QED BY <1>1, <2>1, IfSeq, One, Two
<1>4. x \in Seq(T) /\ y \in Seq(T) /\ Has(x, "checkUnchanged")
  <2>1. {"deleteTemps", "checkUnchanged", "removeSpool", "delete"} \subseteq T
    BY DEF Steps, Reading, Readers
  <2>2. Has(x, "checkUnchanged")
    <3>1. CASE q.dup
      <4>1. Len(x) = 2 /\ x[2] = "checkUnchanged" /\ 2 \in DOMAIN x
        BY <3>1
      <4> QED BY <4>1 DEF Has
    <3>2. CASE ~ q.dup
      <4>1. Len(x) = 3 /\ x[1] = "checkUnchanged" /\ 1 \in DOMAIN x
        BY <3>2
      <4> QED BY <4>1 DEF Has
    <3> QED BY <3>1, <3>2
  <2> HIDE DEF T
  <2>3. x \in Seq(T)
    <3>1. <<"deleteTemps", "checkUnchanged">> \in Seq(T)
      BY <2>1, Two
    <3>2. <<"checkUnchanged", "removeSpool", "deleteTemps">> \in Seq(T)
      BY <2>1, Three
    <3> QED BY <3>1, <3>2
  <2>4. y \in Seq(T)
    BY <1>1, <2>1, IfSeq
  <2> QED BY <2>2, <2>3, <2>4
<1>5. Compress(q) = (p \o w) \o x \o y
  BY DEF Compress
<1>6. w \in Seq(Steps)
  BY Three DEF Steps
<1>7. q.dup => Has(c, "dedup")
  BY DEF If, Has
<1>8. ~ q.dup => Has(d, "openInput")
  BY DEF If, Has
<1> HIDE DEF P, T, a, b, c, d, e, w, x, y
<1>9. p \in Seq(P) /\ Takes(p)
  <2>0. Seq(P) \subseteq Seq(Steps)
    BY <1>2
  <2>1. a \o b \in Seq(P)
    BY <1>3, ConcatSeq
  <2> DEFINE ab == a \o b
  <2> HIDE DEF ab
  <2>2. ab \o c \in Seq(P) /\ (q.dup => Takes(ab \o c))
    <3>1. ab \in Seq(P) /\ ab \o c \in Seq(P)
      BY <1>3, <2>1, ConcatSeq DEF ab
    <3>2. ab \in Seq(Steps) /\ c \in Seq(Steps) /\ (q.dup => Takes(c))
      BY <1>3, <1>7, <2>0, <3>1 DEF Takes
    <3> QED BY <3>1, <3>2, TakesOn, Zenon
  <2> DEFINE ac == ab \o c
  <2> HIDE DEF ac
  <2>3. ac \o d \in Seq(P) /\ Takes(ac \o d)
    <3>1. ac \in Seq(P) /\ ac \o d \in Seq(P)
      BY <1>3, <2>2, ConcatSeq DEF ac
    <3>2. ac \in Seq(Steps) /\ d \in Seq(Steps) /\ (Takes(ac) \/ Takes(d))
      BY <1>1, <1>3, <1>8, <2>0, <2>2, <3>1 DEF Takes, ac
    <3> QED BY <3>1, <3>2, TakesOn, Zenon
  <2> DEFINE ad == ac \o d
  <2> HIDE DEF ad
  <2>4. ad \o e \in Seq(P) /\ Takes(ad \o e)
    <3>1. ad \in Seq(P) /\ ad \o e \in Seq(P) /\ Takes(ad)
      BY <1>3, <2>3, ConcatSeq DEF ad
    <3>2. ad \in Seq(Steps) /\ e \in Seq(Steps)
      BY <1>3, <2>0, <3>1
    <3> QED BY <3>1, <3>2, TakesOn, Zenon
  <2> QED BY <2>4 DEF ad, ac, ab
<1> HIDE DEF p
<1> DEFINE hp == h \o p
           t == x \o y
<1>10. hp \in Seq(P) /\ hp \in Seq(Steps) /\ Takes(hp)
  <2>1. hp \in Seq(P)
    BY <1>2, <1>9, ConcatSeq
  <2>2. hp \in Seq(Steps) /\ Takes(hp)
    <3>1. h \in Seq(Steps) /\ p \in Seq(Steps) /\ Takes(p)
      BY <1>2, <1>9
    <3> QED BY <3>1, TakesOn, Zenon
  <2> QED BY <2>1, <2>2
<1>11. t \in Seq(T) /\ t \in Seq(Steps) /\ Has(t, "checkUnchanged")
  <2>1. t \in Seq(T)
    BY <1>4, ConcatSeq
  <2>2. "checkUnchanged" \in Steps
    BY DEF Steps
  <2>3. t \in Seq(Steps) /\ Has(t, "checkUnchanged")
    BY <1>2, <1>4, <2>2, ConcatHas
  <2> QED BY <2>1, <2>3
<1>12. h \o Compress(q) = (hp \o w) \o t
  <2>1. /\ h \in Seq(Steps) /\ p \in Seq(Steps) /\ w \in Seq(Steps)
        /\ x \in Seq(Steps) /\ y \in Seq(Steps)
    BY <1>2, <1>4, <1>6, <1>9
  <2>2. p \o w \in Seq(Steps) /\ hp \o w \in Seq(Steps)
    BY <1>10, <2>1, ConcatSeq
  <2> DEFINE pw == p \o w
  <2>3. pw \in Seq(Steps) /\ t \in Seq(Steps)
    BY <1>11, <2>2
  <2> HIDE DEF pw, hp, t
  <2>4. (pw \o x) \o y = pw \o (x \o y)
    <3>1. pw \in Seq(Steps) /\ x \in Seq(Steps) /\ y \in Seq(Steps)
      BY <2>1, <2>3
    <3> QED BY <3>1, RegroupSteps
  <2>5. (h \o pw) \o t = h \o (pw \o t)
    <3>1. h \in Seq(Steps) /\ pw \in Seq(Steps) /\ t \in Seq(Steps)
      BY <2>1, <2>3
    <3> QED BY <3>1, RegroupSteps
  <2>6. (h \o p) \o w = h \o (p \o w)
    <3>1. h \in Seq(Steps) /\ p \in Seq(Steps) /\ w \in Seq(Steps)
      BY <2>1
    <3> QED BY <3>1, RegroupSteps
  <2>7. Compress(q) = pw \o t
    BY <1>5, <2>4 DEF pw, t
  <2>8. hp \o w = h \o pw
    BY <2>6 DEF hp, pw
  <2> QED BY <2>5, <2>7, <2>8
<1> HIDE DEF hp, t
<1>13. Takes((hp \o w) \o t)
  <2>1. hp \o w \in Seq(Steps) /\ Takes(hp \o w)
    BY <1>6, <1>10, TakesOn
  <2> QED BY <1>11, <2>1, TakesOn
<1>14. ChecksAfter((hp \o w) \o t) /\ Works((hp \o w) \o t)
  BY <1>10, <1>11, WorkInMiddle DEF w, P, T
<1> QED BY <1>12, <1>13, <1>14

Regrouped(f, g, k, l, r) == (((f \o g) \o k) \o l) \o r = f \o (((g \o k) \o l) \o r)

LEMMA RegroupFour ==
  ASSUME NEW f \in Seq(Steps), NEW g \in Seq(Steps), NEW k \in Seq(Steps), NEW l \in Seq(Steps),
         NEW r \in Seq(Steps)
  PROVE  Regrouped(f, g, k, l, r)
<1>1. (f \o g) \o k = f \o (g \o k) /\ g \o k \in Seq(Steps)
  BY RegroupSteps, ConcatSeq
<1> DEFINE gk == g \o k
<1> HIDE DEF gk
<1>2. (f \o gk) \o l = f \o (gk \o l) /\ gk \o l \in Seq(Steps)
  <2>1. gk \in Seq(Steps)
    BY <1>1 DEF gk
  <2> QED BY <2>1, RegroupSteps, ConcatSeq
<1> DEFINE gl == gk \o l
<1> HIDE DEF gl
<1>3. (f \o gl) \o r = f \o (gl \o r)
  <2>1. gl \in Seq(Steps)
    BY <1>2 DEF gl
  <2> QED BY <2>1, RegroupSteps
<1> QED BY <1>1, <1>2, <1>3 DEF gk, gl, Regrouped

LEMMA DecompressReads ==
  ASSUME NEW q \in Request, NEW h \in Seq(CheckSteps)
  PROVE  LET s == h \o Decompress(q) IN ChecksAfter(s) /\ Works(s) /\ Takes(s)
<1> DEFINE P == Steps \ {"close", "checkUnchanged"}
           T == Steps \ Reading
           a == If(q.fi = Std, "newTemp")
           b == If(~ q.dup /\ q.fi # Std /\ q.fo # Std, "sniff")
           o == <<"openInput">>
           c == If(q.dup, "newTemp")
           d == If(~ q.dup /\ q.fo = Std, "newTemp")
           e == If(~ q.dup /\ q.fo # Std, "createOutput")
           i == If(~ q.dup /\ q.index # NoName, "openIndex")
           w == <<"decode", "decodeRest", "removeSpool">>
           g == If(q.dup, "createOutput")
           k == <<"copyOut">>
           x == IF q.dup THEN <<"close", "deleteTemps", "checkUnchanged">>
                ELSE <<"checkUnchanged", "close", "deleteTemps">>
           y == If(q.delete /\ q.fi # Std, "delete")
           p == (((((a \o b) \o o) \o c) \o d) \o e) \o i
           t == ((g \o k) \o x) \o y
<1>1. q.dup \in BOOLEAN /\ q.delete \in BOOLEAN
  BY DEF Request
<1>2. h \in Seq(P) /\ CheckSteps \subseteq P /\ P \subseteq Steps /\ T \subseteq Steps
  BY DEF CheckSteps, Steps
<1>3. /\ a \in Seq(P) /\ b \in Seq(P) /\ c \in Seq(P) /\ d \in Seq(P) /\ e \in Seq(P)
      /\ i \in Seq(P) /\ o \in Seq(P)
  <2>1. {"newTemp", "sniff", "openInput", "createOutput", "openIndex"} \subseteq P
    BY DEF Steps
  <2> HIDE DEF P
  <2> QED BY <1>1, <2>1, IfSeq, One
<1>4. /\ x \in Seq(T) /\ y \in Seq(T) /\ g \in Seq(T) /\ k \in Seq(T)
      /\ Has(x, "checkUnchanged")
  <2>1. {"deleteTemps", "checkUnchanged", "close", "delete", "createOutput", "copyOut"} \subseteq T
    BY DEF Steps, Reading, Readers
  <2>2. Has(x, "checkUnchanged")
    <3>1. CASE q.dup
      <4>1. Len(x) = 3 /\ x[3] = "checkUnchanged" /\ 3 \in DOMAIN x
        BY <3>1
      <4> QED BY <4>1 DEF Has
    <3>2. CASE ~ q.dup
      <4>1. Len(x) = 3 /\ x[1] = "checkUnchanged" /\ 1 \in DOMAIN x
        BY <3>2
      <4> QED BY <4>1 DEF Has
    <3> QED BY <3>1, <3>2
  <2> HIDE DEF T
  <2>3. x \in Seq(T)
    <3>1. <<"close", "deleteTemps", "checkUnchanged">> \in Seq(T)
      BY <2>1, Three
    <3>2. <<"checkUnchanged", "close", "deleteTemps">> \in Seq(T)
      BY <2>1, Three
    <3> QED BY <3>1, <3>2
  <2>4. y \in Seq(T) /\ g \in Seq(T) /\ k \in Seq(T)
    BY <1>1, <2>1, IfSeq, One
  <2> QED BY <2>2, <2>3, <2>4
<1>5. Decompress(q) = ((((p \o w) \o g) \o k) \o x) \o y
  BY DEF Decompress
<1>6. w \in Seq(Steps)
  BY Three DEF Steps
<1>7. Has(o, "openInput")
  BY DEF Has
<1> HIDE DEF P, T, a, b, c, d, e, i, o, w, x, y, g, k
<1>9. p \in Seq(P) /\ Takes(p)
  <2>0. Seq(P) \subseteq Seq(Steps)
    BY <1>2
  <2>1. a \o b \in Seq(P)
    BY <1>3, ConcatSeq
  <2> DEFINE ab == a \o b
  <2> HIDE DEF ab
  <2>2. ab \o o \in Seq(P) /\ Takes(ab \o o)
    <3>1. ab \in Seq(P) /\ ab \o o \in Seq(P)
      BY <1>3, <2>1, ConcatSeq DEF ab
    <3>2. ab \in Seq(Steps) /\ o \in Seq(Steps) /\ Takes(o)
      BY <1>3, <1>7, <2>0, <3>1 DEF Takes
    <3> QED BY <3>1, <3>2, TakesOn, Zenon
  <2>3. ASSUME NEW u \in Seq(P), Takes(u), NEW v \in Seq(P)
        PROVE  u \o v \in Seq(P) /\ Takes(u \o v)
    <3>1. u \o v \in Seq(P)
      BY ConcatSeq
    <3>2. u \in Seq(Steps) /\ v \in Seq(Steps)
      BY <2>0
    <3> QED BY <2>3, <3>1, <3>2, TakesOn, Zenon
  <2> DEFINE ao == ab \o o
             ac == ao \o c
             ad == ac \o d
             ae == ad \o e
  <2>4. ao \in Seq(P) /\ Takes(ao)
    BY <2>2
  <2> HIDE DEF ao
  <2>5. ac \in Seq(P) /\ Takes(ac)
    BY <1>3, <2>3, <2>4
  <2> HIDE DEF ac
  <2>6. ad \in Seq(P) /\ Takes(ad)
    BY <1>3, <2>3, <2>5
  <2> HIDE DEF ad
  <2>7. ae \in Seq(P) /\ Takes(ae)
    BY <1>3, <2>3, <2>6
  <2> HIDE DEF ae
  <2>8. ae \o i \in Seq(P) /\ Takes(ae \o i)
    BY <1>3, <2>3, <2>7
  <2> QED BY <2>8 DEF ae, ad, ac, ao, ab
<1> HIDE DEF p
<1> DEFINE hp == h \o p
<1>10. hp \in Seq(P) /\ hp \in Seq(Steps) /\ Takes(hp)
  <2>1. hp \in Seq(P)
    BY <1>2, <1>9, ConcatSeq
  <2>2. hp \in Seq(Steps) /\ Takes(hp)
    <3>1. h \in Seq(Steps) /\ p \in Seq(Steps) /\ Takes(p)
      BY <1>2, <1>9
    <3> QED BY <3>1, TakesOn, Zenon
  <2> QED BY <2>1, <2>2
<1>11. t \in Seq(T) /\ t \in Seq(Steps) /\ Has(t, "checkUnchanged")
  <2> DEFINE gk == g \o k
             gx == gk \o x
  <2>0. Seq(T) \subseteq Seq(Steps) /\ "checkUnchanged" \in Steps
    <3>1. Seq(T) \subseteq Seq(Steps)
      BY <1>2
    <3>2. "checkUnchanged" \in Steps
      BY DEF Steps
    <3> QED BY <3>1, <3>2
  <2>1. gk \in Seq(T)
    BY <1>4, ConcatSeq
  <2> HIDE DEF gk
  <2>2. gx \in Seq(T)
    BY <1>4, <2>1, ConcatSeq
  <2>3. Has(gx, "checkUnchanged")
    <3>1. gk \in Seq(Steps) /\ x \in Seq(Steps)
      BY <1>4, <2>0, <2>1
    <3> QED BY <1>4, <2>0, <3>1, ConcatHas, Zenon
  <2> HIDE DEF gx
  <2>4. gx \o y \in Seq(T)
    BY <1>4, <2>2, ConcatSeq
  <2>5. Has(gx \o y, "checkUnchanged")
    <3>1. gx \in Seq(Steps) /\ y \in Seq(Steps)
      BY <1>4, <2>0, <2>2
    <3> QED BY <2>0, <2>3, <3>1, ConcatHas, Zenon
  <2>6. gx \o y \in Seq(Steps)
    BY <2>0, <2>4
  <2> QED BY <2>4, <2>5, <2>6 DEF gx, gk
<1>12. h \o Decompress(q) = (hp \o w) \o t
  <2>1. /\ h \in Seq(Steps) /\ p \in Seq(Steps) /\ w \in Seq(Steps)
        /\ x \in Seq(Steps) /\ y \in Seq(Steps) /\ g \in Seq(Steps) /\ k \in Seq(Steps)
    BY <1>2, <1>4, <1>6, <1>9
  <2> DEFINE pw == p \o w
  <2>3. pw \in Seq(Steps) /\ t \in Seq(Steps)
    BY <1>11, <2>1, ConcatSeq
  <2> HIDE DEF pw, hp
  <2>4. (((pw \o g) \o k) \o x) \o y = pw \o t
    <3>1. pw \in Seq(Steps) /\ x \in Seq(Steps) /\ y \in Seq(Steps) /\ g \in Seq(Steps)
            /\ k \in Seq(Steps)
      BY <2>1, <2>3
    <3> HIDE DEF g, k, x, y
    <3>2. Regrouped(pw, g, k, x, y)
      BY <3>1, RegroupFour, Zenon
    <3> QED BY <3>2 DEF t, Regrouped
  <2> HIDE DEF t
  <2>5. (h \o pw) \o t = h \o (pw \o t)
    <3>1. h \in Seq(Steps) /\ pw \in Seq(Steps) /\ t \in Seq(Steps)
      BY <2>1, <2>3
    <3> QED BY <3>1, RegroupSteps
  <2>6. (h \o p) \o w = h \o (p \o w)
    <3>1. h \in Seq(Steps) /\ p \in Seq(Steps) /\ w \in Seq(Steps)
      BY <2>1
    <3> QED BY <3>1, RegroupSteps
  <2>7. Decompress(q) = pw \o t
    BY <1>5, <2>4 DEF pw
  <2>8. hp \o w = h \o pw
    BY <2>6 DEF hp, pw
  <2> QED BY <2>5, <2>7, <2>8
<1> HIDE DEF hp, t
<1>13. Takes((hp \o w) \o t)
  <2>1. hp \o w \in Seq(Steps) /\ Takes(hp \o w)
    BY <1>6, <1>10, TakesOn
  <2> QED BY <1>11, <2>1, TakesOn
<1>14. ChecksAfter((hp \o w) \o t) /\ Works((hp \o w) \o t)
  BY <1>10, <1>11, WorkInMiddle DEF w, P, T
<1> QED BY <1>12, <1>13, <1>14

LEMMA ScriptReads ==
  ASSUME NEW q \in Requests
  PROVE  ChecksAfter(Script(q)) /\ Works(Script(q)) /\ Takes(Script(q))
<1>1. q \in Request
  BY RequestsAssumption
<1>2. Checks(q) \in Seq(CheckSteps)
  <2>1. Checks(q) \in Seq(Allowed(q) \cap CheckSteps)
    BY <1>1, ChecksOrdered
  <2> QED BY <2>1
<1> QED BY <1>1, <1>2, CompressReads, DecompressReads DEF Script

(* Taking the first step, or giving up, keeps that.                        *)
LEMMA ReadsTail ==
  ASSUME NEW A, NEW s \in Seq(A), s # <<>>, ChecksAfter(s), Works(s)
  PROVE  /\ ChecksAfter(Tail(s)) /\ Works(Tail(s))
         /\ Head(s) = "openInput" => WorksFrom(Tail(s), 1)
         /\ Head(s) \in Reading => Has(Tail(s), "checkUnchanged")
         /\ Head(s) = "checkUnchanged" => \A i \in DOMAIN s : s[i] \notin Reading
<1>1. /\ \A i \in DOMAIN Tail(s) : i + 1 \in DOMAIN s /\ Tail(s)[i] = s[i + 1] /\ i \in Nat
      /\ \A i \in DOMAIN s : i > 1 => i - 1 \in DOMAIN Tail(s) /\ Tail(s)[i - 1] = s[i]
      /\ 1 \in DOMAIN s /\ s[1] = Head(s) /\ DOMAIN s \subseteq Nat \ {0}
  OBVIOUS
<1>2. ASSUME NEW i \in DOMAIN s, s[i] \in Reading
      PROVE  Has(Tail(s), "checkUnchanged")
  <2>1. PICK j \in DOMAIN s : s[j] = "checkUnchanged" /\ i < j
    BY <1>2 DEF ChecksAfter, Has
  <2>2. j > 1
    BY <1>1, <2>1
  <2> QED BY <1>1, <2>1, <2>2 DEF Has
<1>3. ChecksAfter(Tail(s))
  <2> SUFFICES ASSUME NEW i \in DOMAIN Tail(s), Tail(s)[i] \in Reading
               PROVE  /\ Has(Tail(s), "checkUnchanged")
                      /\ \A j \in DOMAIN Tail(s) : Tail(s)[j] = "checkUnchanged" => i < j
    BY DEF ChecksAfter
  <2>1. i + 1 \in DOMAIN s /\ s[i + 1] \in Reading
    BY <1>1
  <2>2. \A j \in DOMAIN Tail(s) : Tail(s)[j] = "checkUnchanged" => i < j
    BY <1>1, <2>1 DEF ChecksAfter
  <2> QED BY <1>2, <2>1, <2>2
<1>4. ASSUME NEW i \in DOMAIN s, s[i] = "openInput"
      PROVE  WorksFrom(Tail(s), i)
  <2>1. PICK j \in DOMAIN s : /\ j >= i + 1 /\ s[j] \in {"encode", "decode"}
                              /\ \A k \in DOMAIN s : s[k] = "close" => j < k
    BY <1>4 DEF Works, WorksFrom
  <2>2. j - 1 \in DOMAIN Tail(s) /\ Tail(s)[j - 1] = s[j] /\ j - 1 >= i
    BY <1>1, <2>1
  <2>3. \A k \in DOMAIN Tail(s) : Tail(s)[k] = "close" => j - 1 < k
    BY <1>1, <2>1
  <2> QED BY <2>1, <2>2, <2>3 DEF WorksFrom
<1>5. Works(Tail(s))
  <2> SUFFICES ASSUME NEW i \in DOMAIN Tail(s), Tail(s)[i] = "openInput"
               PROVE  WorksFrom(Tail(s), i + 1)
    BY DEF Works
  <2>1. i + 1 \in DOMAIN s /\ s[i + 1] = "openInput"
    BY <1>1
  <2> QED BY <1>4, <2>1
<1>6. Head(s) = "openInput" => WorksFrom(Tail(s), 1)
  BY <1>1, <1>4
<1>7. Head(s) \in Reading => Has(Tail(s), "checkUnchanged")
  BY <1>1, <1>2
<1>8. Head(s) = "checkUnchanged" => \A i \in DOMAIN s : s[i] \notin Reading
  BY <1>1 DEF ChecksAfter
<1> QED BY <1>3, <1>5, <1>6, <1>7, <1>8

-----------------------------------------------------------------------------
(* No step makes a file look older, and no name comes to lead to a file    *)
(* whose times do not tell.                                                *)

Grown(f, g) ==
  \A i \in Ids : /\ f[i].stamp <= g[i].stamp
                 /\ f[i].kind # "link" => g[i].kind # "link"

Plain == \A i \in Ids : file[i].kind # "link"

LEMMA StampsAreNumbers ==
  ASSUME NEW f \in [Ids -> File]
  PROVE  (\A i \in Ids : f[i].stamp \in Nat) /\ Grown(f, f)
  BY DEF File, Link, Grown

LEMMA GrownOn ==
  ASSUME NEW f \in [Ids -> File], NEW g \in [Ids -> File], NEW h \in [Ids -> File],
         Grown(f, g), Grown(g, h)
  PROVE  Grown(f, h)
<1>1. \A i \in Ids : f[i].stamp \in Nat /\ g[i].stamp \in Nat /\ h[i].stamp \in Nat
  BY StampsAreNumbers
<1> QED BY <1>1 DEF Grown

LEMMA GrownAt ==
  ASSUME NEW f \in [Ids -> File], NEW i \in Ids, NEW r,
         f[i].stamp <= r.stamp, f[i].kind # "link" => r.kind # "link"
  PROVE  Grown(f, [f EXCEPT ![i] = r])
<1>1. \A j \in Ids : f[j].stamp \in Nat
  BY StampsAreNumbers
<1> QED BY <1>1 DEF Grown

LEMMA RecordStamped ==
  ASSUME NEW K, NEW T, NEW X, NEW S, NEW r \in [kind: K, to: T, text: X, stamp: S],
         NEW x \in X, NEW n \in S
  PROVE  /\ [r EXCEPT !.text = x, !.stamp = n].stamp = n
         /\ [r EXCEPT !.stamp = n].stamp = n
         /\ [r EXCEPT !.stamp = n].kind = r.kind
  OBVIOUS

LEMMA RegularStamped ==
  ASSUME NEW r \in File, r.kind = "regular", NEW x \in SUBSET Authors
  PROVE  LET g == [r EXCEPT !.text = x, !.stamp = r.stamp + 1]
         IN g.stamp = r.stamp + 1 /\ r.stamp \in Nat /\ g.kind = "regular"
<1>1. r \in [kind: {"regular", "device"}, to: {NoName}, text: SUBSET Authors, stamp: Nat]
  BY DEF File, Link
<1>2. r.stamp \in Nat /\ r.stamp + 1 \in Nat
  BY <1>1
<1>3. [r EXCEPT !.text = x, !.stamp = r.stamp + 1].stamp = r.stamp + 1
  BY <1>1, <1>2, RecordStamped
<1> QED BY <1>2, <1>3, RegularEdited

LEMMA WrittenGrows ==
  ASSUME NEW f \in [Ids -> File], NEW i \in Ids \cup {NoFile}, NEW who \in Authors
  PROVE  Grown(f, Written(f, i, who)) /\ Written(f, i, who) \in [Ids -> File]
<1>1. CASE i = NoFile \/ f[i].kind # "regular"
  BY <1>1, StampsAreNumbers DEF Written
<1>2. CASE i \in Ids /\ f[i].kind = "regular"
  <2> DEFINE r == f[i]
             x == r.text \cup {who}
             g == [r EXCEPT !.text = x, !.stamp = r.stamp + 1]
  <2>1. x \in SUBSET Authors
    BY <1>2 DEF File, Link
  <2>2. Written(f, i, who) = [f EXCEPT ![i] = g]
    BY <1>2, IdsAssumption DEF Written
  <2>3. r \in File /\ r.kind = "regular"
    BY <1>2
  <2> HIDE DEF r, x
  <2>4. g.stamp = r.stamp + 1 /\ r.stamp \in Nat /\ g.kind = "regular"
    BY <2>1, <2>3, RegularStamped
  <2> HIDE DEF g
  <2>5. f[i].stamp <= g.stamp /\ (f[i].kind # "link" => g.kind # "link")
    BY <2>4 DEF r
  <2>6. Grown(f, [f EXCEPT ![i] = g])
    BY <1>2, <2>5, GrownAt
  <2> QED BY <2>2, <2>6, WrittenFile
<1> QED BY <1>1, <1>2

LEMMA EmptiedGrows ==
  ASSUME NEW f \in [Ids -> File], NEW i \in Ids, f[i].kind = "regular"
  PROVE  Grown(f, Emptied(f, i))
<1> DEFINE r == f[i]
           g == [r EXCEPT !.text = {}, !.stamp = r.stamp + 1]
<1>1. Emptied(f, i) = [f EXCEPT ![i] = g]
  BY DEF Emptied
<1>2. r \in File /\ r.kind = "regular" /\ {} \in SUBSET Authors
  OBVIOUS
<1> HIDE DEF r
<1>3. g.stamp = r.stamp + 1 /\ r.stamp \in Nat /\ g.kind = "regular"
  BY <1>2, RegularStamped
<1> HIDE DEF g
<1>4. f[i].stamp <= g.stamp /\ (f[i].kind # "link" => g.kind # "link")
  BY <1>3 DEF r
<1>5. Grown(f, [f EXCEPT ![i] = g])
  BY <1>4, GrownAt
<1> QED BY <1>1, <1>5

LEMMA TouchedGrows ==
  ASSUME file \in [Ids -> File], NEW i \in Ids
  PROVE  Grown(file, Touched(i)) /\ Touched(i)[i].stamp > file[i].stamp
<1> DEFINE r == file[i]
           g == [r EXCEPT !.stamp = r.stamp + 1]
<1>1. Touched(i) = [file EXCEPT ![i] = g]
  BY DEF Touched
<1>2. r \in File /\ r.stamp \in Nat
  BY StampsAreNumbers
<1> HIDE DEF r
<1>3. g.stamp = r.stamp + 1 /\ g.kind = r.kind
  BY <1>2 DEF File, Link
<1> HIDE DEF g
<1>4. file[i].stamp <= g.stamp /\ (file[i].kind # "link" => g.kind # "link")
  BY <1>2, <1>3 DEF r
<1>5. Touched(i)[i].stamp > file[i].stamp
  BY <1>1, <1>2, <1>3 DEF r
<1>6. Grown(file, [file EXCEPT ![i] = g])
  BY <1>4, GrownAt
<1> QED BY <1>1, <1>5, <1>6

LEMMA NewFileGrows ==
  ASSUME file \in [Ids -> File], HasFresh
  PROVE  LET g == [file EXCEPT ![Fresh] = NewFile(Fresh)]
         IN Grown(file, g) /\ g[Fresh].stamp > file[Fresh].stamp
<1> DEFINE r == NewFile(Fresh)
<1>1. Fresh \in Ids /\ file[Fresh].stamp \in Nat
  BY FreshIsFree, StampsAreNumbers
<1>2. r.stamp = file[Fresh].stamp + 1 /\ r.kind = "regular"
  BY DEF NewFile
<1> HIDE DEF r
<1>3. Grown(file, [file EXCEPT ![Fresh] = r])
  <2>1. file[Fresh].stamp <= r.stamp /\ r.kind # "link"
    BY <1>1, <1>2
  <2> QED BY <1>1, <2>1, GrownAt
<1>4. [file EXCEPT ![Fresh] = r][Fresh] = r
  BY <1>1
<1> QED BY <1>1, <1>2, <1>3, <1>4 DEF r

(* Of a name: it leads where it led, or nowhere, or to a file that has     *)
(* just changed.                                                           *)
Tells(n) ==
  \/ dir'[n] \in {dir[n], NoFile}
  \/ dir'[n] \in Ids /\ file'[dir'[n]].stamp > file[dir'[n]].stamp

Telling == Grown(file, file') /\ \A n \in Names : Tells(n)

LEMMA MadeTells ==
  ASSUME TypeOK, NEW n \in Names, MakeFile(n)
  PROVE  Telling
<1>1. HasFresh /\ Fresh \in Ids /\ file \in [Ids -> File] /\ dir \in [Names -> Ids \cup {NoFile}]
  BY FreshIsFree DEF MakeFile, TypeOK
<1>2. dir' = [dir EXCEPT ![n] = Fresh] /\ file' = [file EXCEPT ![Fresh] = NewFile(Fresh)]
  BY DEF MakeFile
<1>3. Grown(file, file') /\ file'[Fresh].stamp > file[Fresh].stamp
  BY <1>1, <1>2, NewFileGrows
<1>4. dir'[n] = Fresh /\ \A m \in Names \ {n} : dir'[m] = dir[m]
  BY <1>1, <1>2
<1> QED BY <1>1, <1>3, <1>4 DEF Telling, Tells

LEMMA TempTells ==
  ASSUME TypeOK, MakeTemp, dir' = dir
  PROVE  Telling
<1>1. HasFresh /\ file \in [Ids -> File]
  BY DEF MakeTemp, TypeOK
<1>2. Grown(file, file')
  BY <1>1, NewFileGrows DEF MakeTemp
<1> QED BY <1>2 DEF Telling, Tells

LEMMA QuietTells ==
  ASSUME TypeOK, file' = file, \A n \in Names : dir'[n] \in {dir[n], NoFile}
  PROVE  Telling
<1>1. Grown(file, file)
  BY StampsAreNumbers DEF TypeOK
<1> QED BY <1>1 DEF Telling, Tells

LEMMA WritingTells ==
  ASSUME TypeOK, dir' = dir, NEW i \in Ids \cup {NoFile}, NEW j \in Ids \cup {NoFile},
         NEW who \in Authors, NEW also \in Authors,
         \/ file' = file
         \/ file' = Written(file, i, who)
         \/ file' = Written(Written(file, i, who), j, also)
  PROVE  Telling
<1> DEFINE g == Written(file, i, who)
           h == Written(g, j, also)
<1>1. file \in [Ids -> File] /\ Grown(file, file)
  BY StampsAreNumbers DEF TypeOK
<1>2. Grown(file, g) /\ g \in [Ids -> File]
  BY <1>1, WrittenGrows
<1>3. file' = file \/ file' = g \/ file' = h
  OBVIOUS
<1> HIDE DEF g
<1>4. Grown(g, h) /\ h \in [Ids -> File]
  BY <1>2, WrittenGrows
<1> HIDE DEF h
<1>5. Grown(file, h)
  BY <1>1, <1>2, <1>4, GrownOn
<1> QED BY <1>1, <1>2, <1>3, <1>5 DEF Telling, Tells

(* The steps of another process: a file that it moves changes.             *)
LEMMA OtherTells ==
  ASSUME TypeOK, Other
  PROVE  Telling
<1>1. dir \in [Names -> Ids \cup {NoFile}] /\ file \in [Ids -> File]
  BY DEF TypeOK
<1>2. \A n \in Names : dir[n] # NoFile => dir[n] \in Ids
  BY <1>1
<1>3. ASSUME NEW n \in Names, Edit(n) PROVE Telling
  <2>1. dir[n] \in Ids /\ file' = Written(file, dir[n], "other") /\ dir' = dir /\ "other" \in Authors
    BY <1>2, <1>3 DEF Edit, IsRegular, Authors
  <2> QED BY <2>1, WritingTells
<1>4. ASSUME NEW n \in Names, dir[n] # NoFile, file' = Touched(dir[n])
      PROVE  dir[n] \in Ids /\ Grown(file, file') /\ file'[dir[n]].stamp > file[dir[n]].stamp
  BY <1>1, <1>2, <1>4, TouchedGrows
<1>5. ASSUME NEW n \in Names, RemoveFile(n) PROVE Telling
  <2>1. Grown(file, file')
    BY <1>4, <1>5 DEF RemoveFile
  <2>2. \A k \in Names : dir'[k] \in {dir[k], NoFile}
    BY <1>1, <1>5 DEF RemoveFile
  <2> QED BY <2>1, <2>2 DEF Telling, Tells
<1>6. ASSUME NEW n \in Names, NEW m \in Names, RenameFile(n, m) PROVE Telling
  <2>1. dir[n] \in Ids /\ Grown(file, file') /\ file'[dir[n]].stamp > file[dir[n]].stamp
    BY <1>4, <1>6 DEF RenameFile
  <2>2. \A k \in Names : dir'[k] \in {dir[k], NoFile, dir[n]}
    BY <1>1, <1>6 DEF RenameFile
  <2> QED BY <2>1, <2>2 DEF Telling, Tells
<1>7. ASSUME NEW n \in Names, NEW m \in Names, Retarget(n, m) PROVE Telling
  <2> DEFINE i == dir[n]
             g == [file[i] EXCEPT !.to = m]
  <2>1. i \in Ids /\ file[i] \in Link /\ dir' = dir
    BY <1>1, <1>2, <1>7 DEF Retarget, File
  <2>2. g.stamp = file[i].stamp /\ g.kind = file[i].kind /\ file[i].stamp \in Nat
    BY <2>1 DEF Link
  <2>3. file' = [file EXCEPT ![i] = g]
    BY <1>7 DEF Retarget
  <2> HIDE DEF i, g
  <2>4. Grown(file, [file EXCEPT ![i] = g])
    <3>1. file[i].stamp <= g.stamp /\ (file[i].kind # "link" => g.kind # "link")
      BY <2>2
    <3> QED BY <1>1, <2>1, <3>1, GrownAt
  <2> QED BY <2>1, <2>3, <2>4 DEF Telling, Tells
<1> QED BY <1>3, <1>5, <1>6, <1>7 DEF Other

LEMMA OpeningTells ==
  ASSUME TypeOK, Named, Opening
  PROVE  Telling
<1>1. dir \in [Names -> Ids \cup {NoFile}] /\ file \in [Ids -> File]
  BY DEF TypeOK
<1>2. opening # NotOpening => opening.name \in Names /\ Target(opening.name) \in Names
  BY <1>1, LedType DEF Named
<1>3. CASE TryExclusive
  <2>1. opening # NotOpening
    BY <1>3 DEF TryExclusive, NotOpening
  <2>2. MakeFile(opening.name) \/ (file' = file /\ dir' = dir)
    BY <1>3 DEF TryExclusive, worldVars
  <2> QED BY <1>2, <2>1, <2>2, MadeTells, QuietTells
<1>4. CASE TryCreate
  <2>1. opening # NotOpening
    BY <1>4 DEF TryCreate, NotOpening
  <2>2. MakeFile(Target(opening.name)) \/ (file' = file /\ dir' = dir)
    BY <1>4 DEF TryCreate, worldVars
  <2> QED BY <1>2, <2>1, <2>2, MadeTells, QuietTells
<1>5. CASE Accept
  <2>1. dir' = dir
    BY <1>5 DEF Accept
  <2>2. CASE opening.existed /\ IsRegular(opened)
    <3>1. opened \in Ids /\ file[opened].kind = "regular" /\ file' = Emptied(file, opened)
      BY <1>5, <2>2, OpenedType DEF Accept, IsRegular
    <3>2. Grown(file, file')
      BY <1>1, <3>1, EmptiedGrows
    <3> QED BY <2>1, <3>2 DEF Telling, Tells
  <2>3. CASE ~ (opening.existed /\ IsRegular(opened))
    <3>1. file' = file
      BY <1>5, <2>3 DEF Accept
    <3> QED BY <2>1, <3>1, QuietTells
  <2> QED BY <2>2, <2>3
<1>6. CASE Refuse
  <2>1. file' = file /\ \A n \in Names : dir'[n] \in {dir[n], NoFile}
    BY <1>1, <1>6 DEF Refuse
  <2> QED BY <2>1, QuietTells
<1>7. CASE CreateIndex \/ CreateOutput \/ ExclusiveFails \/ TryPlain \/ OpenFails \/ TruncateFails
  <2>1. file' = file /\ dir' = dir
    BY <1>7 DEF CreateIndex, CreateOutput, StartOpen, ExclusiveFails, TryPlain, OpenFails,
                TruncateFails, worldVars
  <2> QED BY <2>1, QuietTells
<1> QED BY <1>3, <1>4, <1>5, <1>6, <1>7 DEF Opening

LEMMA NextTells ==
  ASSUME TypeOK, Named, Next
  PROVE  Telling
<1>1. CASE CopyStdin \/ Encode \/ Decode \/ CopyOut \/ CheckUnchanged \/ Report
  <2>1. /\ handle["output"] \in Ids \cup {NoFile} /\ handle["index"] \in Ids \cup {NoFile}
        /\ handle["scratch"] \in Ids \cup {NoFile}
        /\ OutputFile \in Ids \cup {NoFile} /\ request.stderr \in Ids \cup {NoFile}
        /\ NoFile \in Ids \cup {NoFile}
    BY RequestFields DEF TypeOK, Roles, Writers, OutputFile
  <2>2. {"output", "index", "scratch", "messages"} \subseteq Authors
    BY DEF Authors, Writers
  <2>3. dir' = dir
    BY <1>1 DEF CopyStdin, Encode, Decode, CopyOut, CheckUnchanged, Report
  <2>4. CASE CopyStdin
    BY <2>1, <2>2, <2>3, <2>4, WritingTells DEF CopyStdin
  <2>5. CASE Encode
    BY <2>1, <2>2, <2>3, <2>5, WritingTells DEF Encode
  <2>6. CASE Decode
    BY <2>1, <2>2, <2>3, <2>6, WritingTells DEF Decode
  <2>7. CASE CopyOut
    <3> DEFINE i == IF request.fo = Std \/ request.dup THEN OutputFile ELSE NoFile
    <3>1. i \in Ids \cup {NoFile} /\ file' = Written(file, i, "output")
      BY <2>1, <2>7 DEF CopyOut
    <3> HIDE DEF i
    <3> QED BY <2>2, <2>3, <3>1, WritingTells
  <2>8. CASE CheckUnchanged
    <3> DEFINE i == IF request.talks THEN request.stderr ELSE NoFile
    <3>1. i \in Ids \cup {NoFile} /\ (file' = file \/ file' = Written(file, i, "messages"))
      BY <2>1, <2>8 DEF CheckUnchanged
    <3> HIDE DEF i
    <3> QED BY <2>2, <2>3, <3>1, WritingTells
  <2>9. CASE Report
    BY <2>1, <2>2, <2>3, <2>9, WritingTells DEF Report
  <2> QED BY <1>1, <2>4, <2>5, <2>6, <2>7, <2>8, <2>9
<1>2. CASE NewTemp \/ Spool \/ Dedup \/ Spill
  <2>1. dir' = dir /\ (MakeTemp \/ file' = file)
    BY <1>2 DEF NewTemp, Spool, Dedup, Spill, StartOpen, worldVars
  <2> QED BY <2>1, TempTells, QuietTells
<1>3. CASE \/ Checking \/ DeleteTemps \/ RemoveSpool \/ Sniff \/ OpenInput \/ OpenIndex \/ Breaks
           \/ Close \/ DeleteInput \/ RemoveClaimed \/ Stopped
  <2>1. dir \in [Names -> Ids \cup {NoFile}]
    BY DEF TypeOK
  <2>2. file' = file
    BY <1>3 DEF Checking, NoteInput, NoteIndex, NoteStderr, NoteStdout, NoteStdWritten, CheckNames,
                Stamp, DeleteTemps, RemoveSpool, Sniff, OpenInput, OpenIndex, Breaks, Close,
                DeleteInput, RemoveClaimed, Stopped, vars, worldVars
  <2>3. CASE RemoveSpool \/ RemoveClaimed \/ DeleteInput
    <3>1. \A gone : \A n \in Names : Without(gone)[n] \in {dir[n], NoFile}
      BY DEF Without
    <3>2. \A n \in Names : dir'[n] \in {dir[n], NoFile}
      BY <2>1, <2>3, <3>1 DEF RemoveSpool, RemoveClaimed, DeleteInput
    <3> QED BY <2>2, <3>2, QuietTells
  <2>4. CASE ~ (RemoveSpool \/ RemoveClaimed \/ DeleteInput)
    <3>1. dir' = dir
      BY <1>3, <2>4 DEF Checking, NoteInput, NoteIndex, NoteStderr, NoteStdout, NoteStdWritten,
                        CheckNames, Stamp, DeleteTemps, Sniff, OpenInput, OpenIndex, Breaks, Close,
                        Stopped, vars, worldVars
    <3> QED BY <2>2, <3>1, QuietTells
  <2> QED BY <2>3, <2>4
<1> QED BY <1>1, <1>2, <1>3, OpeningTells, OtherTells
        DEF Next, Run, Temps, Working, Ending

-----------------------------------------------------------------------------
(* What was read is what was found.                                        *)

Undisturbed ==
  /\ before.id \in Ids /\ request.fi \in Names
  /\ dir[request.fi] = before.id /\ file[before.id].stamp = before.stamp

(* Nothing is read before the input is looked at; and while its name still *)
(* leads to the file found, with the times found, that is all that was     *)
(* read and what is open.                                                  *)
Seen ==
  /\ Pending(CheckSteps) => got = {} /\ handle["input"] = NoFile
  /\ before.id # NoFile =>
       /\ before.id \in Ids /\ request.fi \in Names
       /\ before.stamp \in Nat /\ before.stamp <= file[before.id].stamp
       /\ Undisturbed => got \subseteq {before} /\ handle["input"] \in {NoFile, before.id}

(* A run that has not failed has read something, or is going to.           *)
ReadIn ==
  \/ failed \/ got # {} \/ Pending({"dedup", "openInput"})
  \/ handle["input"] # NoFile /\ WorksFrom(todo, 1)

Checked ==
  before.id # NoFile /\ ~ failed /\ ~ Pending({"checkUnchanged"}) => got = {before}

Found == Plain /\ ReadsOK /\ Seen /\ ReadIn /\ Checked

(* While nothing comes to lead to a file that looks older, what is         *)
(* undisturbed was so before.                                              *)
LEMMA DisturbedStays ==
  ASSUME TypeOK, Telling, UNCHANGED <<request, before>>,
         before.id # NoFile => before.id \in Ids /\ before.stamp <= file[before.id].stamp,
         Undisturbed'
  PROVE  Undisturbed
<1>1. /\ before.id \in Ids /\ request.fi \in Names /\ dir'[request.fi] = before.id
      /\ file'[before.id].stamp = before.stamp
  BY DEF Undisturbed
<1>2. before.id # NoFile /\ file \in [Ids -> File]
  BY <1>1, IdsAssumption DEF TypeOK
<1>3. file[before.id].stamp \in Nat /\ before.stamp \in Nat
  BY <1>1, <1>2, StampsAreNumbers DEF TypeOK
<1>4. file[before.id].stamp <= file'[before.id].stamp
  BY <1>1 DEF Telling, Grown
<1>5. file[before.id].stamp = before.stamp
  BY <1>1, <1>2, <1>3, <1>4
<1>6. Tells(request.fi)
  BY <1>1 DEF Telling
<1>7. dir[request.fi] = before.id
  BY <1>1, <1>2, <1>3, <1>5, <1>6 DEF Tells
<1> QED BY <1>1, <1>5, <1>7 DEF Undisturbed

LEMMA LedPlain ==
  ASSUME TypeOK, Plain, NEW n \in Names
  PROVE  Led(n) = dir[n]
  BY DEF TypeOK, Plain, Led, Target

(* What the steps that read add, and when the input is opened.             *)
Took(i) ==
  /\ todo # <<>> /\ Done /\ handle'["input"] = handle["input"]
  /\ \/ Head(todo) \in {"sniff", "dedup"} /\ i = InputFile /\ i # NoFile
     \/ Head(todo) \in {"encode", "encodeRest", "decode", "decodeRest"} /\ i = handle["input"]
  /\ got' = IF i = NoFile THEN got ELSE got \cup {[id |-> i, stamp |-> file[i].stamp]}

OpenedInput ==
  /\ todo # <<>> /\ Done /\ Head(todo) = "openInput" /\ InputFile # NoFile
  /\ got' = got /\ handle'["input"] = InputFile

Closed ==
  /\ todo # <<>> /\ Done /\ Head(todo) = "close"
  /\ got' = got /\ handle'["input"] = NoFile

Takings ==
  \/ got' = got /\ handle'["input"] = handle["input"]
  \/ Closed \/ OpenedInput \/ \E i : Took(i)

LEMMA StepTakes ==
  ASSUME TypeOK, Named, Next
  PROVE  Takings /\ (before' = before \/ Stamp)
<1>1. handle \in [Roles -> Ids \cup {NoFile}] /\ "input" \in Roles /\ "input" \notin Writers
      /\ "scratch" # "input"
  BY DEF TypeOK, Roles, Writers
<1>2. ASSUME opening # NotOpening PROVE opening.role # "input"
  BY <1>1, <1>2 DEF Named
<1>3. CASE Checking
  BY <1>3 DEF Checking, NoteInput, NoteIndex, NoteStderr, NoteStdout, NoteStdWritten, CheckNames,
              Stamp, dataVars, Takings
<1>4. CASE Opening
  <2>1. CASE CreateIndex \/ CreateOutput \/ ExclusiveFails \/ OpenFails
    BY <2>1 DEF CreateIndex, CreateOutput, StartOpen, ExclusiveFails, OpenFails, dataVars, Takings
  <2>2. CASE TryExclusive \/ TryPlain \/ TryCreate \/ Refuse \/ Accept \/ TruncateFails
    <3>1. opening # NotOpening
      BY <2>2 DEF TryExclusive, TryPlain, TryCreate, Refuse, Accept, TruncateFails, NotOpening
    <3>2. got' = got /\ before' = before
      BY <2>2 DEF TryExclusive, TryPlain, TryCreate, Refuse, Accept, TruncateFails
    <3>3. \/ handle' = handle
          \/ \E i : handle' = [handle EXCEPT ![opening.role] = i]
          \/ handle' = [handle EXCEPT !["scratch"] = NoFile]
      BY <2>2 DEF TryExclusive, TryPlain, TryCreate, Refuse, Accept, TruncateFails, MakeFile
    <3>4. handle'["input"] = handle["input"]
      BY <1>1, <1>2, <3>1, <3>3
    <3> QED BY <3>2, <3>4 DEF Takings
  <2> QED BY <1>4, <2>1, <2>2 DEF Opening
<1>5. CASE Temps
  <2>1. /\ got' = got /\ before' = before
        /\ handle' = handle \/ handle' = [handle EXCEPT !["scratch"] = NoFile]
    BY <1>5 DEF Temps, NewTemp, Spool, StartOpen, CopyStdin, DeleteTemps, RemoveSpool, dataVars
  <2> QED BY <1>1, <2>1 DEF Takings
<1>6. CASE Working
  <2>1. CASE OpenInput
    <3>1. /\ todo # <<>> /\ Head(todo) = "openInput" /\ got' = got /\ before' = before
          /\ handle' = [handle EXCEPT !["input"] = InputFile] /\ Done /\ InputFile # NoFile
      BY <2>1 DEF OpenInput, At, CanOpen
    <3>2. handle'["input"] = InputFile
      BY <1>1, <3>1
    <3> QED BY <3>1, <3>2 DEF Takings, OpenedInput
  <2>2. CASE Sniff \/ Dedup \/ Encode \/ Decode
    <3>1. todo # <<>> /\ Done /\ handle' = handle /\ before' = before
      BY <2>2 DEF Sniff, Dedup, Encode, Decode, At
    <3>2. \/ Head(todo) \in {"sniff", "dedup"} /\ InputFile # NoFile /\ Read(InputFile)
          \/ /\ Head(todo) \in {"encode", "encodeRest", "decode", "decodeRest"}
             /\ Read(handle["input"])
      BY <2>2 DEF Sniff, Dedup, Encode, Decode, At, CanOpen
    <3>3. Took(InputFile) \/ Took(handle["input"])
      BY <3>1, <3>2 DEF Took, Read
    <3> QED BY <3>1, <3>3 DEF Takings
  <2>3. CASE OpenIndex \/ CopyOut \/ Breaks
    BY <2>3 DEF OpenIndex, CopyOut, Breaks, dataVars, Takings
  <2>4. CASE Spill
    <3>1. /\ got' = got /\ before' = before
          /\ handle' = handle \/ handle' = [handle EXCEPT !["scratch"] = Fresh]
      BY <2>4 DEF Spill, StartOpen, dataVars
    <3> QED BY <1>1, <3>1 DEF Takings
  <2> QED BY <1>6, <2>1, <2>2, <2>3, <2>4 DEF Working
<1>7. CASE Ending
  <2>1. CASE Close
    BY <1>1, <2>1 DEF Close, At, Takings, Closed
  <2> QED BY <1>7, <2>1 DEF Ending, CheckUnchanged, DeleteInput, RemoveClaimed, Report, dataVars,
                            Takings
<1>8. CASE Other
  BY <1>8 DEF Other, Edit, RemoveFile, RenameFile, Retarget, Meddle, dataVars, Takings
<1>9. CASE Stopped
  BY <1>9 DEF Stopped, vars, dataVars, Takings
<1> QED BY <1>3, <1>4, <1>5, <1>6, <1>7, <1>8, <1>9 DEF Next, Run

LEMMA ReadsKept ==
  ASSUME TypeOK, TodoOK, Moves, ReadsOK
  PROVE  ReadsOK'
<1>1. CASE UNCHANGED todo
  BY <1>1 DEF ReadsOK
<1>2. CASE todo # <<>> /\ Done
  <2>1. todo \in Seq(Steps) /\ todo' = Tail(todo)
    BY <1>2 DEF TypeOK, Done
  <2>2. ChecksAfter(Tail(todo)) /\ Works(Tail(todo))
    BY <1>2, <2>1, ReadsTail DEF ReadsOK
  <2> QED BY <2>1, <2>2 DEF ReadsOK
<1>3. CASE Fail
  <2>1. \A i \in DOMAIN Undo : Undo[i] \notin Reading /\ Undo[i] # "openInput"
    BY DEF Undo, Reading, Readers
  <2>2. todo' = Undo
    BY <1>3 DEF Fail
  <2>3. ChecksAfter(Undo) /\ Works(Undo)
    BY <2>1 DEF ChecksAfter, Works
  <2> QED BY <2>2, <2>3 DEF ReadsOK
<1> QED BY <1>1, <1>2, <1>3 DEF Moves

LEMMA StampTakes ==
  ASSUME Good, Plain, Stamp, Seen
  PROVE  Seen'
<1>1. TypeOK /\ TodoOK /\ todo # <<>> /\ Head(todo) = "stamp"
  BY DEF Good, Stamp, At
<1>2. request.fi \in Names
  BY <1>1, StepAllowed, RequestFields DEF Allowed, TypeOK
<1>3. Led(request.fi) = dir[request.fi] /\ dir[request.fi] \in Ids \cup {NoFile}
  BY <1>1, <1>2, LedPlain DEF TypeOK
<1>4. Pending(CheckSteps)
  BY <1>1, HeadLeads DEF CheckSteps
<1>5. got = {} /\ handle["input"] = NoFile /\ UNCHANGED <<got, handle, request, dir, file>>
  BY <1>4 DEF Seen, Stamp, worldVars
<1>6. before' = StampInput(request.fi)
  BY DEF Stamp
<1>7. CASE IsRegular(Led(request.fi))
  <2>1. before'.id = dir[request.fi] /\ before'.stamp = file[dir[request.fi]].stamp
        /\ dir[request.fi] \in Ids
    BY <1>3, <1>6, <1>7 DEF StampInput, IdOfPathRegular, IsRegular
  <2>2. file[dir[request.fi]].stamp \in Nat
    BY <1>1, <2>1, StampsAreNumbers DEF TypeOK
  <2> QED BY <1>2, <1>5, <2>1, <2>2 DEF Seen
<1>8. CASE ~ IsRegular(Led(request.fi))
  <2>1. before'.id = NoFile
    BY <1>6, <1>8 DEF StampInput, IdOfPathRegular
  <2> QED BY <1>5, <2>1 DEF Seen
<1> QED BY <1>7, <1>8

LEMMA SeenOn ==
  ASSUME Good, Plain, Next, Seen
  PROVE  Seen'
<1>1. TypeOK /\ TodoOK /\ Named /\ Moves /\ Telling /\ Takings /\ request' = request
  BY NextMoves, NextTells, StepTakes DEF Good, Moves
<1>2. CASE Stamp
  BY <1>2, StampTakes
<1>3. CASE ~ Stamp
  <2>0. before' = before
    BY <1>1, <1>3, StepTakes
  <2>1. ASSUME Pending(CheckSteps)' PROVE got' = {} /\ handle'["input"] = NoFile
    <3>1. Pending(CheckSteps)
      <4>1. CheckSteps \cap UndoSteps = {}
        BY DEF CheckSteps, UndoSteps
      <4> QED BY <1>1, <2>1, <4>1, PendingFewer
    <3>2. ~ (todo # <<>> /\ Head(todo) \in Readers)
      <4>1. Readers \cap CheckSteps = {}
        BY DEF Readers, CheckSteps
      <4> QED BY <1>1, <3>1, <4>1, HeadLeads
    <3> QED BY <1>1, <3>1, <3>2 DEF Takings, Took, Closed, OpenedInput, Readers, Seen
  <2>2. ASSUME before.id # NoFile
        PROVE  /\ before.id \in Ids /\ request.fi \in Names /\ before.stamp \in Nat
               /\ before.stamp <= file[before.id].stamp
    BY <2>2 DEF Seen
  <2>3. ASSUME before.id # NoFile PROVE before.stamp <= file'[before.id].stamp
    <3>1. file[before.id].stamp <= file'[before.id].stamp
      BY <1>1, <2>2, <2>3 DEF Telling, Grown
    <3>2. file[before.id].stamp \in Nat /\ file'[before.id].stamp \in Nat
      <4>1. TypeOK'
        BY <1>1, TypesKept
      <4> QED BY <1>1, <2>2, <2>3, <4>1, StampsAreNumbers DEF TypeOK
    <3> QED BY <2>2, <2>3, <3>1, <3>2
  <2>4. ASSUME before.id # NoFile, Undisturbed'
        PROVE  got' \subseteq {before} /\ handle'["input"] \in {NoFile, before.id}
    <3>1. Undisturbed
      BY <1>1, <2>0, <2>2, <2>4, DisturbedStays
    <3>2. got \subseteq {before} /\ handle["input"] \in {NoFile, before.id}
      BY <2>4, <3>1 DEF Seen
    <3>3. InputFile = before.id
      <4>1. request.fi \in Names /\ request.fi # Std /\ dir[request.fi] = before.id
        BY <3>1, NamesAssumption DEF Undisturbed
      <4> QED BY <1>1, <4>1, LedPlain DEF InputFile
    <3>4. [id |-> before.id, stamp |-> file[before.id].stamp] = before
      <4>1. file[before.id].stamp = before.stamp
        BY <3>1 DEF Undisturbed
      <4>2. before \in [id: Ids \cup {NoFile}, stamp: Nat]
        BY <1>1 DEF TypeOK
      <4>3. before = [id |-> before.id, stamp |-> before.stamp]
        BY <4>2
      <4> QED BY <4>1, <4>3
    <3>5. ASSUME NEW i, Took(i)
          PROVE  got' \subseteq {before} /\ handle'["input"] \in {NoFile, before.id}
      <4>1. i \in {NoFile, before.id}
        BY <3>2, <3>3, <3>5 DEF Took
      <4> QED BY <3>2, <3>4, <3>5, <4>1 DEF Took
    <3> QED BY <1>1, <3>2, <3>3, <3>5 DEF Takings, Closed, OpenedInput
  <2> QED BY <1>1, <2>0, <2>1, <2>2, <2>3, <2>4 DEF Seen
<1> QED BY <1>2, <1>3

(* A step taken from the list.                                             *)
LEMMA WorkLater ==
  ASSUME NEW A, NEW s \in Seq(A), s # <<>>, WorksFrom(s, 1)
  PROVE  /\ Head(s) # "close"
         /\ Head(s) \notin {"encode", "decode"} => WorksFrom(Tail(s), 1)
<1>1. PICK j \in DOMAIN s : /\ s[j] \in {"encode", "decode"}
                            /\ \A k \in DOMAIN s : s[k] = "close" => j < k
  BY DEF WorksFrom
<1>2. /\ \A k \in DOMAIN Tail(s) : k + 1 \in DOMAIN s /\ Tail(s)[k] = s[k + 1] /\ k \in Nat
      /\ 1 \in DOMAIN s /\ s[1] = Head(s) /\ DOMAIN s \subseteq Nat \ {0}
  OBVIOUS
<1>3. Head(s) # "close"
  BY <1>1, <1>2
<1>4. ASSUME Head(s) \notin {"encode", "decode"} PROVE WorksFrom(Tail(s), 1)
  <2>1. j # 1
    BY <1>1, <1>2, <1>4
  <2>2. j - 1 \in DOMAIN Tail(s) /\ Tail(s)[j - 1] = s[j] /\ j - 1 >= 1
    BY <2>1
  <2>3. \A k \in DOMAIN Tail(s) : Tail(s)[k] = "close" => j - 1 < k
    BY <1>1, <1>2
  <2> QED BY <1>1, <2>2, <2>3 DEF WorksFrom
<1> QED BY <1>3, <1>4

LEMMA DoneBy ==
  ASSUME Named, Next, todo \in Seq(Steps), todo # <<>>, Done, ~ failed
  PROVE  /\ Head(todo) = "openInput" => OpenInput
         /\ Head(todo) = "dedup" => Dedup
         /\ Head(todo) = "encode" => Encode
         /\ Head(todo) = "decode" => Decode
         /\ Head(todo) = "checkUnchanged" => CheckUnchanged
<1>1. todo' # todo /\ ~ Fail
  <2>1. Len(Tail(todo)) = Len(todo) - 1 /\ Len(todo) \in Nat
    OBVIOUS
  <2>2. Len(Tail(todo)) # Len(todo)
    <3> DEFINE n == Len(todo)
    <3>1. n \in Nat /\ Len(Tail(todo)) = n - 1
      BY <2>1
    <3> HIDE DEF n
    <3>2. n - 1 # n
      BY <3>1
    <3> QED BY <3>1, <3>2 DEF n
  <2>3. Tail(todo) # todo
    BY <2>2, Zenon
  <2> QED BY <2>3 DEF Done, Fail
<1>2. CASE Checking
  BY <1>2 DEF Checking, NoteInput, NoteIndex, NoteStderr, NoteStdout, CheckNames, Stamp, At
<1>3. CASE Opening
  <2>1. CASE Accept
    <3>1. opening # NotOpening
      BY <2>1 DEF Accept, NotOpening
    <3> QED BY <3>1 DEF Named, Opens, Spools
  <2>2. CASE CreateIndex \/ CreateOutput \/ TryExclusive \/ ExclusiveFails \/ TryPlain \/ TryCreate
    BY <1>1, <2>2 DEF CreateIndex, CreateOutput, StartOpen, TryExclusive, ExclusiveFails, TryPlain,
                      TryCreate
  <2>3. CASE OpenFails \/ Refuse \/ TruncateFails
    BY <1>1, <2>3 DEF OpenFails, Refuse, TruncateFails
  <2> QED BY <1>3, <2>1, <2>2, <2>3 DEF Opening
<1>4. CASE Temps
  BY <1>4 DEF Temps, NewTemp, Spool, CopyStdin, DeleteTemps, RemoveSpool, At
<1>5. CASE Working
  BY <1>1, <1>5 DEF Working, Sniff, OpenInput, OpenIndex, Dedup, Encode, Decode, Spill, CopyOut,
                    Breaks, At
<1>6. CASE Ending
  BY <1>6 DEF Ending, Close, CheckUnchanged, DeleteInput, RemoveClaimed, Report, At
<1>7. CASE Other \/ Stopped
  BY <1>1, <1>7 DEF Other, Edit, RemoveFile, RenameFile, Retarget, Meddle, Stopped, vars
<1> QED BY <1>2, <1>3, <1>4, <1>5, <1>6, <1>7 DEF Next, Run

LEMMA ReadInOn ==
  ASSUME Good, ReadsOK, Next, ReadIn
  PROVE  ReadIn'
<1>1. TypeOK /\ TodoOK /\ Named /\ Moves /\ Takings /\ todo \in Seq(Steps)
  BY NextMoves, StepTakes DEF Good, TypeOK
<1>2. CASE failed \/ Fail
  <2>1. failed'
    BY <1>1, <1>2 DEF Moves, Done, Fail
  <2> QED BY <2>1 DEF ReadIn
<1>3. got \subseteq got'
  BY <1>1 DEF Takings, Took, Closed, OpenedInput
<1>4. CASE UNCHANGED <<todo, failed>> /\ ~ (todo # <<>> /\ Done)
  <2>1. handle'["input"] = handle["input"]
    BY <1>1, <1>4 DEF Takings, Took, Closed, OpenedInput
  <2> QED BY <1>3, <1>4, <2>1 DEF ReadIn, Pending
<1>5. CASE todo # <<>> /\ Done /\ ~ failed
  <2>1. todo' = Tail(todo)
    BY <1>5 DEF Done
  <2>2. CASE got # {}
    BY <1>3, <2>2 DEF ReadIn
  <2>3. CASE Head(todo) = "openInput"
    <3>1. OpenInput
      BY <1>1, <1>5, <2>3, DoneBy
    <3>2. handle'["input"] # NoFile
      <4>1. handle \in [Roles -> Ids \cup {NoFile}] /\ "input" \in Roles
        BY <1>1 DEF TypeOK, Roles
      <4>2. InputFile # NoFile /\ handle' = [handle EXCEPT !["input"] = InputFile]
        BY <3>1 DEF OpenInput, CanOpen
      <4> QED BY <4>1, <4>2
    <3>3. WorksFrom(Tail(todo), 1)
      BY <1>1, <1>5, <2>3, ReadsTail DEF ReadsOK
    <3> QED BY <2>1, <3>2, <3>3 DEF ReadIn
  <2>4. CASE Head(todo) = "dedup"
    <3>1. Dedup
      BY <1>1, <1>5, <2>4, DoneBy
    <3>2. got' # {}
      BY <3>1 DEF Dedup, CanOpen, Read
    <3> QED BY <3>2 DEF ReadIn
  <2>5. CASE /\ Head(todo) \notin {"dedup", "openInput"}
             /\ Pending({"dedup", "openInput"})
    <3>1. Pending({"dedup"}) \/ Pending({"openInput"})
      BY <2>5 DEF Pending
    <3>2. Pending({"dedup"})' \/ Pending({"openInput"})'
      BY <1>1, <1>5, <2>5, <3>1, PendingStays
    <3> QED BY <3>2 DEF ReadIn, Pending
  <2>6. CASE handle["input"] # NoFile /\ WorksFrom(todo, 1) /\ Head(todo) \notin {"dedup", "openInput"}
    <3>1. Head(todo) # "close" /\ (Head(todo) \notin {"encode", "decode"} => WorksFrom(Tail(todo), 1))
      BY <1>1, <1>5, <2>6, WorkLater
    <3>2. CASE Head(todo) \in {"encode", "decode"}
      <4>1. Encode \/ Decode
        BY <1>1, <1>5, <3>2, DoneBy
      <4>2. got' # {}
        BY <2>6, <4>1 DEF Encode, Decode, Read
      <4> QED BY <4>2 DEF ReadIn
    <3>3. CASE Head(todo) \notin {"encode", "decode"}
      <4>1. handle'["input"] = handle["input"]
        BY <1>1, <2>6, <3>1 DEF Takings, Took, Closed, OpenedInput
      <4> QED BY <2>1, <2>6, <3>1, <3>3, <4>1 DEF ReadIn
    <3> QED BY <3>2, <3>3
  <2> QED BY <1>5, <2>2, <2>3, <2>4, <2>5, <2>6 DEF ReadIn
<1> QED BY <1>1, <1>2, <1>4, <1>5 DEF Moves

LEMMA CheckedOn ==
  ASSUME Good, Plain, ReadsOK, Seen, ReadIn, Checked, Next
  PROVE  Checked'
<1>1. TypeOK /\ TodoOK /\ Named /\ Moves /\ Takings /\ todo \in Seq(Steps)
  BY NextMoves, StepTakes DEF Good, TypeOK
<1> SUFFICES ASSUME before'.id # NoFile, ~ failed', ~ Pending({"checkUnchanged"})'
             PROVE  got' = {before'}
  BY DEF Checked
<1>2. ~ failed
  BY <1>1 DEF Moves, Done, Fail
<1>3. CASE todo # <<>> /\ Done /\ Head(todo) = "checkUnchanged"
  <2>1. CheckUnchanged /\ \A i \in DOMAIN todo : todo[i] \notin Reading
    BY <1>1, <1>2, <1>3, DoneBy, ReadsTail DEF ReadsOK
  <2>2. before' = before /\ got' = got /\ StampInput(request.fi) = before
    BY <1>2, <2>1 DEF CheckUnchanged, dataVars, Fail
  <2>3. before.id \in Ids /\ request.fi \in Names
    BY <2>2 DEF Seen
  <2>4. Undisturbed
    <3>1. Led(request.fi) = dir[request.fi]
      BY <1>1, <2>3, LedPlain
    <3>2. before.id = IdOfPathRegular(request.fi)
          /\ before.stamp = IF IsRegular(Led(request.fi)) THEN file[Led(request.fi)].stamp ELSE 0
      BY <2>2 DEF StampInput
    <3> QED BY <2>2, <2>3, <3>1, <3>2, IdsAssumption DEF Undisturbed, IdOfPathRegular
  <2>5. got \subseteq {before}
    BY <2>2, <2>4 DEF Seen
  <2>6. got # {}
    BY <1>2, <2>1 DEF ReadIn, Pending, WorksFrom, Reading, Readers
  <2> QED BY <2>2, <2>5, <2>6
<1>4. CASE ~ (todo # <<>> /\ Done /\ Head(todo) = "checkUnchanged")
  <2>1. ~ Pending({"checkUnchanged"})
    <3>1. CASE todo # <<>> /\ Done
      BY <1>1, <1>4, <3>1, PendingStays
    <3>2. CASE UNCHANGED <<todo, failed>>
      BY <3>2 DEF Pending
    <3>3. ~ Fail
      BY DEF Fail
    <3> QED BY <1>1, <3>1, <3>2, <3>3 DEF Moves
  <2>2. \A i \in DOMAIN todo : todo[i] \notin Reading
    BY <2>1 DEF Pending, ReadsOK, ChecksAfter, Has
  <2>3. todo # <<>> => Head(todo) \notin Reading
    <3>1. todo # <<>> => 1 \in DOMAIN todo /\ todo[1] = Head(todo)
      BY <1>1
    <3> QED BY <2>2, <3>1
  <2>4. before' = before
    <3>1. ~ Stamp
      BY <2>3 DEF Stamp, At, Reading
    <3> QED BY <1>1, <3>1, StepTakes
  <2>5. got' = got
    BY <1>1, <2>3 DEF Takings, Took, Closed, OpenedInput, Reading, Readers
  <2> QED BY <1>2, <2>1, <2>4, <2>5 DEF Checked
<1> QED BY <1>3, <1>4

LEMMA FoundKept ==
  ASSUME Good, Found, Next
  PROVE  Found'
<1>1. TypeOK /\ TodoOK /\ Named /\ Moves /\ Telling
  BY NextMoves, NextTells DEF Good
<1>2. Plain'
  BY <1>1 DEF Found, Plain, Telling, Grown
<1>3. ReadsOK'
  BY <1>1, ReadsKept DEF Found
<1>4. Seen'
  BY SeenOn DEF Found
<1>5. ReadIn' /\ Checked'
  BY ReadInOn, CheckedOn DEF Found
<1> QED BY <1>2, <1>3, <1>4, <1>5 DEF Found

(* No symbolic link leads to a file when the run begins; none is made      *)
(* later.                                                                  *)
NoLinks == \A w \in Worlds : \A i \in Ids : w.file[i].kind # "link"

LEMMA FoundStarts ==
  ASSUME NoLinks, Init
  PROVE  Found
<1>1. Plain
  BY DEF NoLinks, Init, Plain
<1>2. ChecksAfter(todo) /\ Works(todo) /\ Takes(todo)
  BY ScriptReads DEF Init
<1>3. before.id = NoFile /\ got = {} /\ handle["input"] = NoFile /\ "input" \in Roles
  BY DEF Init, Roles
<1>4. Pending({"dedup", "openInput"})
  BY <1>2 DEF Takes, Has, Pending
<1> QED BY <1>1, <1>2, <1>3, <1>4 DEF Found, ReadsOK, Seen, ReadIn, Checked

(* A run that ends well, with no symbolic link about, read one file: the   *)
(* one its name led to before, as it was then.  Other files may have had   *)
(* the name meanwhile, and the file other bytes, but then the last check   *)
(* finds it moved, edited or another.                                      *)
THEOREM ReadsWhatItFound ==
  ASSUME NoLinks
  PROVE  Spec => []ReadWhatItFound
<1>1. Init => Good /\ Found
  BY TypesStart, FoundStarts DEF Good
<1>2. Good /\ Found /\ [Next]_vars => (Good /\ Found)'
  <2>1. CASE Next
    BY <2>1, TypesKept, FoundKept DEF Good
  <2>2. CASE UNCHANGED vars
    BY <2>2 DEF vars, worldVars, ruleVars, dataVars, Good, TypeOK, TodoOK, Named, Found, Plain,
                ReadsOK, Seen, Undisturbed, ReadIn, Checked, Pending
  <2> QED BY <2>1, <2>2
<1>3. Good /\ Found => ReadWhatItFound
  BY DEF Found, Checked, ReadWhatItFound, Success, Pending
<1> QED BY <1>1, <1>2, <1>3, PTL DEF Spec
=============================================================================

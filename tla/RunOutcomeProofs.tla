-------------------------- MODULE RunOutcomeProofs --------------------------
(***************************************************************************)
(* A run that fails leaves no part of an output behind, and one that ends  *)
(* well has written its outputs and nothing else, for any options and any  *)
(* directory, when no other process interferes.                            *)
(***************************************************************************)
EXTENDS RunFilesProofs

-----------------------------------------------------------------------------
(* The list of steps: what comes before what.                              *)

Before(X, Y, s) == \A i, j \in DOMAIN s : s[i] \in X /\ s[j] \in Y /\ i # j => i < j

LEMMA BeforeNone ==
  ASSUME NEW A, NEW X, NEW Y, NEW s, s \in Seq(A \ X) \/ s \in Seq(A \ Y)
  PROVE  Before(X, Y, s)
<1>1. CASE s \in Seq(A \ X)
  BY <1>1, SeqOf DEF Before
<1>2. CASE s \in Seq(A \ Y)
  BY <1>2, SeqOf DEF Before
<1> QED BY <1>1, <1>2

LEMMA BeforeGrows ==
  ASSUME NEW A, NEW X, NEW Y, NEW s \in Seq(A), Before(X, Y, s), NEW t \in Seq(A \ X)
  PROVE  s \o t \in Seq(A) /\ Before(X, Y, s \o t)
<1>1. t \in Seq(A)
  OBVIOUS
<1>2. Before(X, Y, s \o t)
  <2> SUFFICES ASSUME NEW i \in DOMAIN (s \o t), NEW j \in DOMAIN (s \o t),
                      (s \o t)[i] \in X, (s \o t)[j] \in Y, i # j
               PROVE  i < j
    BY DEF Before
  <2>1. i \in DOMAIN s /\ s[i] \in X
    <3>1. CASE i - Len(s) \in DOMAIN t /\ (s \o t)[i] = t[i - Len(s)]
      BY <3>1, SeqOf
    <3> QED BY <1>1, <3>1, ConcatAt
  <2>2. CASE j \in DOMAIN s /\ (s \o t)[j] = s[j]
    BY <2>1, <2>2 DEF Before
  <2>3. CASE j > Len(s)
    BY <2>1, <2>3
  <2> QED BY <1>1, <2>2, <2>3, ConcatAt
<1> QED BY <1>1, <1>2, ConcatSeq

LEMMA BeforeFront ==
  ASSUME NEW A, NEW X, NEW Y, NEW s \in Seq(A \ Y), NEW t \in Seq(A), Before(X, Y, t)
  PROVE  s \o t \in Seq(A) /\ Before(X, Y, s \o t)
<1>1. s \in Seq(A)
  OBVIOUS
<1>2. Before(X, Y, s \o t)
  <2> SUFFICES ASSUME NEW i \in DOMAIN (s \o t), NEW j \in DOMAIN (s \o t),
                      (s \o t)[i] \in X, (s \o t)[j] \in Y, i # j
               PROVE  i < j
    BY DEF Before
  <2>1. j > Len(s) /\ j - Len(s) \in DOMAIN t /\ t[j - Len(s)] \in Y
    <3>1. CASE j \in DOMAIN s /\ (s \o t)[j] = s[j]
      BY <3>1, SeqOf
    <3> QED BY <1>1, <3>1, ConcatAt
  <2>2. CASE i \in DOMAIN s
    BY <2>1, <2>2
  <2>3. CASE i - Len(s) \in DOMAIN t /\ t[i - Len(s)] \in X
    <3>1. i - Len(s) < j - Len(s)
      BY <2>1, <2>3 DEF Before
    <3> QED BY <3>1
  <2> QED BY <1>1, <2>2, <2>3, ConcatAt
<1> QED BY <1>1, <1>2, ConcatSeq

LEMMA BeforeTail ==
  ASSUME NEW A, NEW X, NEW Y, NEW s \in Seq(A), s # <<>>, Before(X, Y, s)
  PROVE  /\ Before(X, Y, Tail(s))
         /\ Head(s) \in Y => \A i \in DOMAIN Tail(s) : Tail(s)[i] \notin X
<1>1. \A i \in DOMAIN Tail(s) : i + 1 \in DOMAIN s /\ Tail(s)[i] = s[i + 1] /\ i > 0
  OBVIOUS
<1>2. 1 \in DOMAIN s /\ Head(s) = s[1]
  OBVIOUS
<1>3. Before(X, Y, Tail(s))
  BY <1>1 DEF Before
<1>4. ASSUME Head(s) \in Y, NEW i \in DOMAIN Tail(s), Tail(s)[i] \in X PROVE FALSE
  <2>1. i + 1 < 1
    BY <1>1, <1>2, <1>4 DEF Before
  <2> QED BY <1>1, <2>1
<1> QED BY <1>3, <1>4

(* Outputs are compared after all is noted; there is one step that may     *)
(* make a scratch file, and the scratch file is closed after it; the input *)
(* is deleted at the very end.                                             *)
NoteSteps == {"noteInput", "noteIndex", "noteStderr", "noteStdout"}

InPlace(s) ==
  /\ Before(NoteSteps, {"checkNames", "stamp"}, s)
  /\ Before(Spools, Spools \cup Closers, s)
  /\ Before(Steps \ {"delete"}, {"delete"}, s)

Fits(q) ==
  {s \in Steps \ {"removeClaimed", "report"} :
     /\ s = "createIndex" => q.mode = "compress"
     /\ s = "spool" => q.mode = "compress" /\ q.fi = Std
     /\ s = "decodeRest" => q.mode = "decompress"}

(* A list with at most one step that may make a scratch file goes on with  *)
(* steps that do not.                                                      *)
OneSpool(A, s) == s \in Seq(A) /\ Before(Spools, Spools \cup Closers, s)

LEMMA SpoolGrows ==
  ASSUME NEW A, NEW s, OneSpool(A, s), NEW t \in Seq(A \ Spools)
  PROVE  OneSpool(A, s \o t)
  BY BeforeGrows DEF OneSpool

LEMMA NothingLater ==
  ASSUME NEW q, NEW s, OneSpool((Fits(q) \ CheckSteps) \ {"delete"}, s), NEW c \in BOOLEAN
  PROVE  LET w == s \o If(c, "delete")
         IN /\ OneSpool(Fits(q) \ CheckSteps, w)
            /\ Before(Steps \ {"delete"}, {"delete"}, w)
<1> DEFINE A == Fits(q) \ CheckSteps
           v == If(c, "delete")
<1>1. "delete" \in A \ Spools /\ "delete" \in A \ (Steps \ {"delete"})
  BY DEF Fits, CheckSteps, Steps, Spools
<1>2. v \in Seq(A \ Spools) /\ v \in Seq(A \ (Steps \ {"delete"}))
  BY <1>1, IfSeq
<1>3. s \in Seq(A \ {"delete"}) /\ Before(Spools, Spools \cup Closers, s)
  BY DEF OneSpool
<1> HIDE DEF A, v
<1>4. s \in Seq(A)
  BY <1>3
<1>5. Before(Steps \ {"delete"}, {"delete"}, s)
  BY <1>3, BeforeNone
<1>6. Before(Steps \ {"delete"}, {"delete"}, s \o v)
  BY <1>2, <1>4, <1>5, BeforeGrows
<1>7. OneSpool(A, s \o v)
  BY <1>2, <1>3, <1>4, SpoolGrows DEF OneSpool
<1> QED BY <1>6, <1>7 DEF A, v

LEMMA CompressInPlace ==
  ASSUME NEW q \in Request, q.mode = "compress"
  PROVE  /\ OneSpool(Fits(q) \ CheckSteps, Compress(q))
         /\ Before(Steps \ {"delete"}, {"delete"}, Compress(q))
<1> DEFINE B == (Fits(q) \ CheckSteps) \ {"delete"}
           C == B \ Spools
           a == IF q.fi = Std THEN <<"spool", "copyStdin">> ELSE <<>>
           b == If(q.index # NoName, "createIndex")
           c == If(q.dup, "dedup")
           d == If(~ q.dup, "openInput")
           e == If(q.fo # Std, "createOutput")
           t == <<"encode", "encodeRest", "close">>
           u == IF q.dup THEN <<"deleteTemps", "checkUnchanged">>
                ELSE <<"checkUnchanged", "removeSpool", "deleteTemps">>
           v == If(q.delete /\ q.fi # Std, "delete")
           w == (((((a \o b) \o c) \o d) \o e) \o t) \o u
<1>1. /\ {"createIndex", "dedup", "openInput", "createOutput", "encode", "encodeRest", "close",
          "deleteTemps", "checkUnchanged", "removeSpool"} \subseteq C
      /\ "copyStdin" \in B /\ (q.fi = Std => "spool" \in B)
  BY DEF Fits, CheckSteps, Steps, Spools
<1>2. q.dup \in BOOLEAN /\ (q.delete /\ q.fi # Std) \in BOOLEAN
  BY DEF Request
<1>3. Compress(q) = w \o v
  BY DEF Compress
<1>4. OneSpool(B, a)
  <2>1. a \in Seq(B)
    BY <1>1, One, Two
  <2>2. Before(Spools, Spools \cup Closers, a)
    BY DEF Before, Spools
  <2> QED BY <2>1, <2>2 DEF OneSpool
<1>5. b \in Seq(C) /\ c \in Seq(C) /\ d \in Seq(C) /\ e \in Seq(C)
  <2>1. (~ q.dup) \in BOOLEAN /\ (q.index # NoName) \in BOOLEAN /\ (q.fo # Std) \in BOOLEAN
    OBVIOUS
  <2> QED BY <1>1, <1>2, <2>1, IfSeq
<1>6. t \in Seq(C) /\ u \in Seq(C)
  BY <1>1, Two, Three
<1> HIDE DEF a, b, c, d, e, t, u
<1>7. OneSpool(B, (a \o b) \o c)
  BY <1>4, <1>5, SpoolGrows
<1>8. OneSpool(B, (((a \o b) \o c) \o d) \o e)
  BY <1>5, <1>7, SpoolGrows
<1>9. OneSpool(B, w)
  BY <1>6, <1>8, SpoolGrows
<1> HIDE DEF w
<1> QED BY <1>2, <1>3, <1>9, NothingLater

LEMMA DecompressInPlace ==
  ASSUME NEW q \in Request, q.mode = "decompress"
  PROVE  /\ OneSpool(Fits(q) \ CheckSteps, Decompress(q))
         /\ Before(Steps \ {"delete"}, {"delete"}, Decompress(q))
<1> DEFINE B == (Fits(q) \ CheckSteps) \ {"delete"}
           C == B \ Spools
           D == B \ (Spools \cup Closers)
           a == If(q.fi = Std, "newTemp")
           b == If(~ q.dup /\ q.fi # Std /\ q.fo # Std, "sniff")
           c == <<"openInput">>
           d == If(q.dup, "newTemp")
           e == If(~ q.dup /\ q.fo = Std, "newTemp")
           f == If(~ q.dup /\ q.fo # Std, "createOutput")
           g == If(~ q.dup /\ q.index # NoName, "openIndex")
           t == <<"decode", "decodeRest", "removeSpool">>
           h == If(q.dup, "createOutput")
           k == <<"copyOut">>
           u == IF q.dup THEN <<"close", "deleteTemps", "checkUnchanged">>
                ELSE <<"checkUnchanged", "close", "deleteTemps">>
           v == If(q.delete /\ q.fi # Std, "delete")
           m == (((((a \o b) \o c) \o d) \o e) \o f) \o g
           w == (((m \o t) \o h) \o k) \o u
<1>1. /\ {"newTemp", "sniff", "openInput", "createOutput", "openIndex"} \subseteq D
      /\ {"copyOut", "close", "deleteTemps", "checkUnchanged", "createOutput"} \subseteq C
      /\ {"decode", "decodeRest", "removeSpool"} \subseteq B
  BY DEF Fits, CheckSteps, Steps, Spools, Closers
<1>2. /\ q.dup \in BOOLEAN /\ (q.delete /\ q.fi # Std) \in BOOLEAN
      /\ (~ q.dup /\ q.fi # Std /\ q.fo # Std) \in BOOLEAN /\ (~ q.dup /\ q.fo # Std) \in BOOLEAN
      /\ (~ q.dup /\ q.fo = Std) \in BOOLEAN /\ (~ q.dup /\ q.index # NoName) \in BOOLEAN
      /\ (q.fi = Std) \in BOOLEAN
  BY DEF Request
<1>3. Decompress(q) = w \o v
  BY DEF Decompress
<1>4. /\ a \in Seq(D) /\ b \in Seq(D) /\ c \in Seq(D) /\ d \in Seq(D) /\ e \in Seq(D)
      /\ f \in Seq(D) /\ g \in Seq(D)
  BY <1>1, <1>2, One, IfSeq
<1>5. OneSpool(B, t)
  <2>1. t \in Seq(B)
    BY <1>1, Three
  <2>2. Before(Spools, Spools \cup Closers, t)
    BY DEF Before, Spools, Closers
  <2> QED BY <2>1, <2>2 DEF OneSpool
<1>6. h \in Seq(C) /\ k \in Seq(C) /\ u \in Seq(C)
  BY <1>1, <1>2, One, Three, IfSeq
<1> HIDE DEF a, b, c, d, e, f, g, h, k, t, u
<1>7. m \in Seq(D)
  <2>1. ((a \o b) \o c) \o d \in Seq(D)
    BY <1>4, ConcatSeq
  <2> QED BY <1>4, <2>1, ConcatSeq
<1> HIDE DEF m
<1>8. OneSpool(B, m \o t)
  <2>1. m \in Seq(B \ (Spools \cup Closers))
    BY <1>7
  <2> HIDE DEF B
  <2> QED BY <1>5, <2>1, BeforeFront DEF OneSpool
<1>9. OneSpool(B, w)
  BY <1>6, <1>8, SpoolGrows
<1>10. OneSpool((Fits(q) \ CheckSteps) \ {"delete"}, w)
  BY <1>9
<1> DEFINE x == q.delete /\ q.fi # Std
<1>11. x \in BOOLEAN /\ Decompress(q) = w \o If(x, "delete")
  BY <1>2, <1>3 DEF v
<1> HIDE DEF w, x
<1> QED BY <1>10, <1>11, NothingLater

LEMMA ScriptInPlace ==
  ASSUME NEW q \in Requests
  PROVE  /\ Script(q) \in Seq(Fits(q)) /\ InPlace(Script(q))
         /\ Has(Script(q), "checkNames") /\ Has(Script(q), "noteInput")
<1> DEFINE A == Fits(q)
           a == <<"noteInput">> \o If(q.mode = "decompress" /\ q.index # NoName, "noteIndex")
           b == If(q.talks, "noteStderr")
           c == If(q.fo = Std, "noteStdout")
           d == <<"checkNames">>
           e == If(q.fi # Std, "stamp")
           n == (a \o b) \o c
           w == IF q.mode = "compress" THEN Compress(q) ELSE Decompress(q)
           Y == {"checkNames", "stamp"}
<1>1. q \in Request /\ q.mode \in {"compress", "decompress"} /\ q.talks \in BOOLEAN
  BY RequestsAssumption DEF Request
<1>2. /\ NoteSteps \subseteq (A \cap CheckSteps) \ Y
      /\ Y \subseteq (A \cap CheckSteps) \ NoteSteps
      /\ CheckSteps \cap (Spools \cup Closers \cup {"delete"}) = {}
      /\ NoteSteps \subseteq CheckSteps
  BY DEF Fits, NoteSteps, CheckSteps, Spools, Closers, Steps
<1>3. Script(q) = ((n \o d) \o e) \o w
  BY DEF Script, Checks
<1>4. /\ OneSpool(A \ CheckSteps, w) /\ Before(Steps \ {"delete"}, {"delete"}, w)
  BY <1>1, CompressInPlace, DecompressInPlace
<1>5. <<"noteInput">> \in Seq((A \cap CheckSteps) \ Y) /\ Has(<<"noteInput">>, "noteInput")
  <2>1. "noteInput" \in (A \cap CheckSteps) \ Y
    BY <1>2 DEF NoteSteps
  <2> QED BY <2>1, One DEF Has
<1>6. If(q.mode = "decompress" /\ q.index # NoName, "noteIndex") \in Seq((A \cap CheckSteps) \ Y)
  BY <1>2, IfSeq DEF NoteSteps
<1>7. a \in Seq((A \cap CheckSteps) \ Y) /\ Has(a, "noteInput")
  <2>1. "noteInput" \in (A \cap CheckSteps) \ Y
    BY <1>2 DEF NoteSteps
  <2> QED BY <1>5, <1>6, <2>1, ConcatHas
<1>8. b \in Seq((A \cap CheckSteps) \ Y) /\ c \in Seq((A \cap CheckSteps) \ Y)
  BY <1>1, <1>2, IfSeq DEF NoteSteps
<1>9. /\ d \in Seq((A \cap CheckSteps) \ NoteSteps) /\ e \in Seq((A \cap CheckSteps) \ NoteSteps)
      /\ Has(d, "checkNames")
  <2>1. "checkNames" \in (A \cap CheckSteps) \ NoteSteps /\ "stamp" \in (A \cap CheckSteps) \ NoteSteps
    BY <1>2
  <2>2. Has(d, "checkNames")
    BY DEF Has
  <2> QED BY <2>1, <2>2, One, IfSeq
<1> HIDE DEF a, b, c, d, e
<1>10. n \in Seq((A \cap CheckSteps) \ Y) /\ Has(n, "noteInput")
  <2>1. "noteInput" \in (A \cap CheckSteps) \ Y
    BY <1>2 DEF NoteSteps
  <2>2. a \o b \in Seq((A \cap CheckSteps) \ Y) /\ Has(a \o b, "noteInput")
    BY <1>7, <1>8, <2>1, ConcatHas
  <2> QED BY <1>8, <2>1, <2>2, ConcatHas
<1> HIDE DEF n, w, Y
<1> DEFINE nd == n \o d
           ne == nd \o e
<1>11. nd \in Seq(A \cap CheckSteps) /\ Before(NoteSteps, Y, nd) /\ Has(nd, "noteInput") /\ Has(nd, "checkNames")
  <2>1. n \in Seq(A \cap CheckSteps) /\ d \in Seq(A \cap CheckSteps)
    BY <1>9, <1>10
  <2>3. Before(NoteSteps, Y, n)
    BY <1>10, BeforeNone
  <2>2. "noteInput" \in A \cap CheckSteps /\ "checkNames" \in A \cap CheckSteps
    BY <1>2 DEF NoteSteps, Y
  <2> QED BY <1>9, <1>10, <2>1, <2>2, <2>3, BeforeGrows, ConcatHas
<1> HIDE DEF nd
<1>12. ne \in Seq(A \cap CheckSteps) /\ Before(NoteSteps, Y, ne) /\ Has(ne, "noteInput") /\ Has(ne, "checkNames")
  <2>1. e \in Seq(A \cap CheckSteps)
    BY <1>9
  <2>2. "noteInput" \in A \cap CheckSteps /\ "checkNames" \in A \cap CheckSteps
    BY <1>2 DEF NoteSteps, Y
  <2> QED BY <1>9, <1>11, <2>1, <2>2, BeforeGrows, ConcatHas
<1> HIDE DEF ne
<1>13. /\ ne \in Seq(A) /\ w \in Seq(A) /\ w \in Seq(A \ NoteSteps)
       /\ ne \in Seq(A \ (Spools \cup Closers)) /\ ne \in Seq(A \ {"delete"})
  <2>1. /\ A \cap CheckSteps \subseteq A \ (Spools \cup Closers)
        /\ A \cap CheckSteps \subseteq A \ {"delete"}
        /\ A \ CheckSteps \subseteq A \ NoteSteps
    BY <1>2
  <2> HIDE DEF A
  <2> QED BY <1>4, <1>12, <2>1 DEF OneSpool
<1> HIDE DEF A
<1>14. Before(NoteSteps, Y, ne \o w) /\ ne \o w \in Seq(A)
  BY <1>12, <1>13, BeforeGrows
<1>15. Before(Spools, Spools \cup Closers, ne \o w)
  BY <1>4, <1>13, BeforeFront DEF OneSpool
<1>16. Before(Steps \ {"delete"}, {"delete"}, ne \o w)
  BY <1>4, <1>13, BeforeFront
<1>17. Has(ne \o w, "checkNames") /\ Has(ne \o w, "noteInput")
  <2>1. "noteInput" \in A /\ "checkNames" \in A
    BY <1>2 DEF NoteSteps, Y
  <2> QED BY <1>12, <1>13, <2>1, ConcatHas
<1> QED BY <1>3, <1>14, <1>15, <1>16, <1>17 DEF InPlace, A, Y, nd, ne

-----------------------------------------------------------------------------
(* What holds of a run's steps, its temporaries and its scratch file        *)
(* whatever another process does.                                           *)

Planned == InPlace(todo) /\ (~ failed => todo \in Seq(Fits(request)))

(* After an error what is to be undone is undone, or will be.              *)
Undone ==
  failed => /\ claimed = {} \/ Pending({"removeClaimed"})
            /\ ~ spool.named \/ Pending({"removeSpool"})
            /\ temps = {} \/ Pending({"deleteTemps"})

(* There is one scratch file, and it stays open while one may be made.     *)
SpoolOnce ==
  /\ spool.named => spool.id # NoFile
  /\ opening.role = "scratch" => ~ spool.named
  /\ Pending({"spool"}) => ~ spool.named
  /\ Pending({"decodeRest"}) /\ spool.named => handle["scratch"] = spool.id

Sound == Planned /\ Undone /\ SpoolOnce

LEMMA PlannedOn ==
  ASSUME TodoOK, Planned, Moves
  PROVE  Planned'
<1> DEFINE A == Allowed(request)
           F == Fits(request)
<1>1. CASE UNCHANGED <<todo, failed>>
  BY <1>1 DEF Planned, Moves
<1>2. CASE todo # <<>> /\ Done
  <2> HIDE DEF A
  <2>1. todo \in Seq(A) /\ todo # <<>> /\ InPlace(todo)
    BY <1>2 DEF TodoOK, A, Planned
  <2>2. InPlace(Tail(todo))
    BY <2>1, BeforeTail DEF InPlace
  <2>3. ~ failed => Tail(todo) \in Seq(F)
    <3>1. ~ failed => todo \in Seq(F)
      BY DEF Planned
    <3> HIDE DEF F
    <3> QED BY <2>1, <3>1
  <2> QED BY <1>2, <2>2, <2>3 DEF Planned, Moves, Done
<1>3. CASE Fail
  <2>1. Undo \in Seq(UndoSteps)
    BY DEF Undo, UndoSteps
  <2>2. UndoSteps = UndoSteps \ NoteSteps /\ UndoSteps = UndoSteps \ Spools /\ UndoSteps = UndoSteps \ {"delete"}
    BY DEF UndoSteps, NoteSteps, Spools
  <2>3. InPlace(Undo)
    BY <2>1, <2>2, BeforeNone DEF InPlace
  <2> QED BY <1>3, <2>3 DEF Planned, Fail
<1> QED BY <1>1, <1>2, <1>3 DEF Moves

LEMMA HeadPlaced ==
  ASSUME TodoOK, Planned, todo # <<>>
  PROVE  /\ Head(todo) \in {"checkNames", "stamp"} =>
              Head(todo) \notin NoteSteps /\ \A i \in DOMAIN Tail(todo) : Tail(todo)[i] \notin NoteSteps
         /\ Head(todo) \in Spools \cup Closers => \A i \in DOMAIN Tail(todo) : Tail(todo)[i] \notin Spools
         /\ Head(todo) = "delete" => \A i \in DOMAIN Tail(todo) : Tail(todo)[i] \notin Steps \ {"delete"}
         /\ ~ failed => Head(todo) \in Fits(request)
<1> DEFINE A == Allowed(request)
           F == Fits(request)
<1>1. todo \in Seq(A) /\ todo # <<>> /\ InPlace(todo)
  BY DEF TodoOK, Planned
<1> HIDE DEF A
<1>2. ~ failed => Head(todo) \in F
  <2>1. ~ failed => todo \in Seq(F)
    BY DEF Planned
  <2> HIDE DEF F
  <2> QED BY <1>1, <2>1
<1>3. /\ Head(todo) \in {"checkNames", "stamp"} => \A i \in DOMAIN Tail(todo) : Tail(todo)[i] \notin NoteSteps
      /\ Head(todo) \in Spools \cup Closers => \A i \in DOMAIN Tail(todo) : Tail(todo)[i] \notin Spools
      /\ Head(todo) = "delete" => \A i \in DOMAIN Tail(todo) : Tail(todo)[i] \notin Steps \ {"delete"}
  BY <1>1, BeforeTail DEF InPlace
<1> QED BY <1>2, <1>3 DEF NoteSteps

(* A step is pending when it is the first or is among the others.          *)
LEMMA PendingNow ==
  ASSUME TodoOK, todo # <<>>, NEW S, Pending(S)
  PROVE  Head(todo) \in S \/ \E i \in DOMAIN Tail(todo) : Tail(todo)[i] \in S
<1> DEFINE A == Allowed(request)
<1>1. todo \in Seq(A)
  BY DEF TodoOK
<1> HIDE DEF A
<1>2. PICK i \in DOMAIN todo : todo[i] \in S
  BY DEF Pending
<1>3. CASE i = 1
  BY <1>1, <1>2, <1>3
<1>4. CASE i # 1
  <2>1. i - 1 \in DOMAIN Tail(todo) /\ Tail(todo)[i - 1] = todo[i]
    BY <1>1, <1>4
  <2> QED BY <1>2, <2>1
<1> QED BY <1>3, <1>4

(* An error comes of a step that is not the last.                          *)
LEMMA FailsBefore ==
  ASSUME Good, Next
  PROVE  \/ UNCHANGED <<todo, failed>>
         \/ todo # <<>> /\ Done
         \/ todo # <<>> /\ Head(todo) # "delete" /\ Fail
<1>1. CASE Checking
  BY <1>1 DEF Checking, NoteInput, NoteIndex, NoteStderr, NoteStdout, NoteStdWritten, CheckNames,
              Stamp, At
<1>2. CASE Opening
  <2>1. opening # NotOpening => todo # <<>> /\ Head(todo) # "delete"
    BY DEF Good, Named, Opens, Spools
  <2>2. CASE CreateIndex \/ CreateOutput \/ TryExclusive \/ ExclusiveFails \/ TryPlain \/ TryCreate
    BY <2>2 DEF CreateIndex, CreateOutput, StartOpen, TryExclusive, ExclusiveFails, TryPlain, TryCreate
  <2>3. CASE OpenFails \/ Refuse \/ TruncateFails
    BY <2>1, <2>3 DEF OpenFails, Refuse, TruncateFails, NotOpening
  <2>4. CASE Accept
    BY <2>1, <2>4 DEF Accept, NotOpening
  <2> QED BY <1>2, <2>2, <2>3, <2>4 DEF Opening
<1>3. CASE Temps
  BY <1>3 DEF Temps, NewTemp, Spool, StartOpen, CopyStdin, DeleteTemps, RemoveSpool, At
<1>4. CASE Working
  BY <1>4 DEF Working, Sniff, OpenInput, OpenIndex, Dedup, Encode, Decode, Spill, StartOpen,
              CopyOut, Breaks, At
<1>5. CASE Ending
  BY <1>5 DEF Ending, Close, CheckUnchanged, DeleteInput, RemoveClaimed, Report, At
<1>6. CASE Other \/ Stopped
  BY <1>6 DEF Other, Edit, RemoveFile, RenameFile, Retarget, Meddle, Stopped, vars
<1> QED BY <1>1, <1>2, <1>3, <1>4, <1>5, <1>6 DEF Next, Run

(* Until the input is deleted there is something else to do, or an error   *)
(* was met.                                                                *)
Live == failed \/ Pending(Steps \ {"delete"})

LEMMA Lives ==
  ASSUME Good, Planned, Next, Live'
  PROVE  Live /\ ~ DeleteInput
<1> DEFINE A == Allowed(request)
           S == Steps \ {"delete"}
<1>1. TodoOK /\ todo \in Seq(A) /\ A \subseteq Steps
  BY DEF Good, TodoOK, Allowed
<1> HIDE DEF A
<1>2. CASE UNCHANGED <<todo, failed>>
  <2>1. Live
    BY <1>2 DEF Live, Pending
  <2>2. ~ DeleteInput
    <3> SUFFICES ASSUME DeleteInput PROVE FALSE
      OBVIOUS
    <3> DEFINE n == Len(todo)
    <3>1. todo # <<>> /\ Tail(todo) = todo
      BY <1>2 DEF DeleteInput, At, Done
    <3>2. n \in Nat /\ Len(Tail(todo)) = n - 1
      <4>1. todo # <<>>
        BY <3>1
      <4> QED BY <1>1, <4>1
    <3>3. n = n - 1
      BY <3>1, <3>2
    <3> HIDE DEF n
    <3> QED BY <3>2, <3>3
  <2> QED BY <2>1, <2>2
<1>3. CASE todo # <<>> /\ Head(todo) # "delete"
  <2>1. Head(todo) \in S
    BY <1>1, <1>3
  <2>2. 1 \in DOMAIN todo /\ todo[1] = Head(todo)
    BY <1>1, <1>3
  <2> QED BY <1>3, <2>1, <2>2 DEF Live, Pending, DeleteInput, At
<1>4. CASE todo # <<>> /\ Done /\ Head(todo) = "delete"
  <2>1. ~ failed
    BY <1>1, <1>4, HeadLeads DEF UndoSteps
  <2>2. \A i \in DOMAIN Tail(todo) : Tail(todo)[i] \notin S
    BY <1>1, <1>4, HeadPlaced
  <2>3. todo' = Tail(todo) /\ failed' = failed
    BY <1>4 DEF Done
  <2> QED BY <2>1, <2>2, <2>3 DEF Live, Pending
<1> QED BY <1>2, <1>3, <1>4, FailsBefore

(* After an error only the undoing goes on.                                *)
LEMMA UndoOnly ==
  ASSUME Good, Next, failed
  PROVE  \/ Close \/ RemoveSpool \/ DeleteTemps \/ RemoveClaimed \/ Report
         \/ UNCHANGED <<todo, failed, claimed, spool, temps, opening, reads, writes, handle, before>>
<1>1. todo # <<>> => Head(todo) \in UndoSteps
  BY HeadLeads DEF Good
<1>2. opening = NotOpening
  BY <1>1 DEF Good, Named, Opens, Spools, UndoSteps
<1>3. ~ Checking /\ ~ Working
  <2>1. ~ Checking
    BY <1>1 DEF Checking, NoteInput, NoteIndex, NoteStderr, NoteStdout, CheckNames, Stamp, At, UndoSteps
  <2>2. ~ Working
    BY <1>1 DEF Working, Sniff, OpenInput, OpenIndex, Dedup, Encode, Decode, Spill, CopyOut, Breaks,
                At, UndoSteps
  <2> QED BY <2>1, <2>2
<1>4. ~ Opening
  BY <1>1, <1>2 DEF Opening, CreateIndex, CreateOutput, TryExclusive, ExclusiveFails, TryPlain,
                    TryCreate, OpenFails, Refuse, Accept, TruncateFails, NotOpening, At, UndoSteps
<1>5. ~ NewTemp /\ ~ Spool /\ ~ CopyStdin /\ ~ CheckUnchanged /\ ~ DeleteInput
  BY <1>1 DEF NewTemp, Spool, CopyStdin, CheckUnchanged, DeleteInput, At, UndoSteps
<1>6. CASE Other \/ Stopped
  BY <1>6 DEF Other, Edit, RemoveFile, RenameFile, Retarget, Meddle, ruleVars, dataVars, Stopped, vars
<1> QED BY <1>3, <1>4, <1>5, <1>6 DEF Next, Run, Temps, Ending

LEMMA UndoneOn ==
  ASSUME Good, Next, Undone
  PROVE  Undone'
<1>1. TodoOK /\ Moves
  BY NextMoves DEF Good
<1>2. CASE Fail
  <2>1. /\ 2 \in DOMAIN Undo /\ Undo[2] = "removeSpool" /\ 3 \in DOMAIN Undo
        /\ Undo[3] = "deleteTemps" /\ 4 \in DOMAIN Undo /\ Undo[4] = "removeClaimed"
    BY DEF Undo
  <2>2. Has(Undo, "removeSpool") /\ Has(Undo, "deleteTemps") /\ Has(Undo, "removeClaimed")
    BY <2>1 DEF Has
  <2> QED BY <1>2, <2>2 DEF Fail, Undone, Pending, Has
<1>3. CASE ~ Fail /\ failed'
  <2>1. failed
    BY <1>1, <1>3 DEF Moves, Done
  <2>2. CASE UNCHANGED <<todo, failed, claimed, spool, temps>>
    BY <2>2 DEF Undone, Pending
  <2>3. CASE Close \/ RemoveSpool \/ DeleteTemps \/ RemoveClaimed \/ Report
    <3>1. todo # <<>> /\ Done
      BY <2>3 DEF Close, RemoveSpool, DeleteTemps, RemoveClaimed, Report, At
    <3>2. \A s : Head(todo) # s /\ Pending({s}) => Pending({s})'
      BY <1>1, <3>1, PendingStays
    <3>3. claimed' = {} \/ (claimed' = claimed /\ Head(todo) # "removeClaimed")
      BY <2>3 DEF Close, RemoveSpool, DeleteTemps, RemoveClaimed, Report, At, ruleVars
    <3>4. ~ spool'.named \/ (spool' = spool /\ Head(todo) # "removeSpool")
      <4>1. CASE RemoveSpool
        BY <4>1 DEF RemoveSpool, Good, TypeOK
      <4> QED BY <2>3, <4>1 DEF Close, DeleteTemps, RemoveClaimed, Report, At, dataVars
    <3>5. temps' = {} \/ (temps' \subseteq temps /\ Head(todo) # "deleteTemps")
      BY <2>3 DEF Close, RemoveSpool, DeleteTemps, RemoveClaimed, Report, At, dataVars
    <3> QED BY <2>1, <3>2, <3>3, <3>4, <3>5 DEF Undone
  <2> QED BY <2>1, <2>2, <2>3, UndoOnly
<1> QED BY <1>2, <1>3 DEF Undone

LEMMA SpoolSame ==
  ASSUME Good, Moves, SpoolOnce, spool' = spool,
         handle'["scratch"] = handle["scratch"] \/ ~ spool.named,
         opening'.role = opening.role \/ opening'.role # "scratch" \/ ~ spool.named
  PROVE  SpoolOnce'
<1>1. {"spool"} \cap UndoSteps = {} /\ {"decodeRest"} \cap UndoSteps = {}
  BY DEF UndoSteps
<1>2. (Pending({"spool"})' => Pending({"spool"})) /\ (Pending({"decodeRest"})' => Pending({"decodeRest"}))
  BY <1>1, PendingFewer DEF Good
<1> QED BY <1>2 DEF SpoolOnce

(* No step that may make a scratch file is left.                           *)
LEMMA SpoolsPast ==
  ASSUME Good, Planned, todo # <<>>,
         Fail \/ (Done /\ Head(todo) \in Spools \cup Closers)
  PROVE  ~ Pending({"spool"})' /\ ~ Pending({"decodeRest"})'
<1>1. CASE Fail
  <2>1. \A i \in DOMAIN Undo : Undo[i] \notin Spools
    BY DEF Undo, Spools
  <2> QED BY <1>1, <2>1 DEF Fail, Pending, Spools
<1>2. CASE Done /\ Head(todo) \in Spools \cup Closers
  <2>1. \A i \in DOMAIN Tail(todo) : Tail(todo)[i] \notin Spools
    BY <1>2, HeadPlaced DEF Good
  <2> QED BY <1>2, <2>1 DEF Done, Pending, Spools
<1> QED BY <1>1, <1>2

LEMMA SpoolAccepted ==
  ASSUME Good, Planned, SpoolOnce, Accept, opening.role = "scratch"
  PROVE  SpoolOnce'
<1>1. /\ todo # <<>> /\ Head(todo) \in Spools /\ opened = handle["scratch"]
  BY DEF Accept, Good, Named, NotOpening, opened
<1>2. /\ spool' = [named |-> IsRegular(opened), name |-> opening.name, id |-> opened]
      /\ opening'.role # "scratch"
  BY DEF Accept, NotOpening
<1>5. spool'.named => spool'.id # NoFile
  BY <1>2 DEF IsRegular
<1>3. CASE request.mode = "decompress"
  <2>1. UNCHANGED <<todo, failed, handle>>
    BY <1>3 DEF Accept
  <2>2. ~ failed
    BY <1>1, HeadLeads DEF Good, Spools, UndoSteps
  <2>3. Head(todo) = "decodeRest"
    BY <1>1, <1>3, <2>2, HeadPlaced DEF Good, Fits, Spools
  <2>4. \A i \in DOMAIN Tail(todo) : Tail(todo)[i] # "spool"
    BY <1>1, HeadPlaced DEF Good, Spools
  <2>5. ~ Pending({"spool"})
    BY <1>1, <2>3, <2>4, PendingNow DEF Good
  <2>6. ~ Pending({"spool"})'
    BY <2>1, <2>5 DEF Pending
  <2>7. spool'.named => handle'["scratch"] = spool'.id
    BY <1>1, <1>2, <2>1
  <2> QED BY <1>2, <1>5, <2>6, <2>7 DEF SpoolOnce
<1>4. CASE request.mode # "decompress"
  <2>1. Fail \/ Done
    BY <1>4 DEF Accept
  <2>2. ~ Pending({"spool"})' /\ ~ Pending({"decodeRest"})'
    BY <1>1, <2>1, SpoolsPast
  <2> QED BY <1>2, <1>5, <2>2 DEF SpoolOnce
<1> QED BY <1>3, <1>4

LEMMA SpoolOnceOn ==
  ASSUME Good, Planned, SpoolOnce, Next
  PROVE  SpoolOnce'
<1>1. Moves /\ TodoOK /\ TypeOK
  BY NextMoves DEF Good
<1>2. CASE Accept
  <2>1. CASE opening.role # "scratch"
    BY <1>1, <1>2, <2>1, SpoolSame DEF Accept, NotOpening
  <2> QED BY <1>2, <2>1, SpoolAccepted
<1>3. CASE CopyStdin \/ RemoveSpool \/ Close
  <2>1. todo # <<>> /\ Done /\ Head(todo) \in Closers /\ opening' = opening /\ opening = NotOpening
    BY <1>3 DEF CopyStdin, RemoveSpool, Close, At, Closers
  <2>2. ~ Pending({"spool"})' /\ ~ Pending({"decodeRest"})'
    BY <2>1, SpoolsPast
  <2>3. spool'.named => spool' = spool
    <3>1. CASE RemoveSpool
      BY <1>1, <3>1 DEF RemoveSpool, TypeOK
    <3> QED BY <1>3, <3>1 DEF CopyStdin, Close
  <2> QED BY <2>1, <2>2, <2>3 DEF SpoolOnce, NotOpening
<1>4. CASE Spool \/ Spill
  <2>1. todo # <<>> /\ spool' = spool
    BY <1>4 DEF Spool, Spill, At, StartOpen, dataVars
  <2>2. \/ Head(todo) = "spool"
        \/ Head(todo) = "decodeRest" /\ handle["scratch"] = NoFile
    BY <1>4 DEF Spool, Spill, At
  <2>3. ~ spool.named
    <3>1. Pending({"spool"}) \/ (Pending({"decodeRest"}) /\ handle["scratch"] = NoFile)
      BY <1>1, <2>1, <2>2, HeadLeads
    <3> QED BY <3>1 DEF SpoolOnce
  <2> QED BY <1>1, <2>1, <2>3, SpoolSame
<1>5. CASE TryExclusive \/ ExclusiveFails \/ TryPlain \/ TryCreate \/ OpenFails \/ Refuse \/ TruncateFails
  <2>1. /\ spool' = spool
        /\ handle' = handle \/ \E i : handle' = [handle EXCEPT ![opening.role] = i]
    BY <1>5 DEF TryExclusive, ExclusiveFails, TryPlain, TryCreate, OpenFails, Refuse, TruncateFails,
                MakeFile, dataVars
  <2>2. handle'["scratch"] = handle["scratch"] \/ ~ spool.named
    <3>1. handle \in [Roles -> Ids \cup {NoFile}] /\ opening.role \in Roles /\ "scratch" \in Roles
      BY <1>1 DEF TypeOK, Roles, Writers
    <3> QED BY <2>1, <3>1 DEF SpoolOnce
  <2>3. opening'.role = opening.role \/ opening'.role # "scratch"
    <3>1. opening \in [try: {"none", "exclusive", "plain", "create", "check"},
                       name: Names \cup {NoName}, role: Roles, existed: BOOLEAN]
      BY <1>1 DEF TypeOK
    <3>2. CASE OpenFails \/ Refuse \/ TruncateFails
      BY <3>2 DEF OpenFails, Refuse, TruncateFails, NotOpening
    <3>3. CASE TryExclusive
      BY <3>1, <3>3 DEF TryExclusive
    <3>4. CASE ExclusiveFails
      BY <3>1, <3>4 DEF ExclusiveFails
    <3>5. CASE TryPlain
      BY <3>1, <3>5 DEF TryPlain
    <3>6. CASE TryCreate
      BY <3>1, <3>6 DEF TryCreate
    <3> QED BY <1>5, <3>2, <3>3, <3>4, <3>5, <3>6
  <2> QED BY <1>1, <2>1, <2>2, <2>3, SpoolSame
<1>6. CASE CreateIndex \/ CreateOutput
  BY <1>1, <1>6, SpoolSame DEF CreateIndex, CreateOutput, StartOpen, dataVars
<1>7. CASE \/ Checking \/ NewTemp \/ DeleteTemps \/ Sniff \/ OpenIndex \/ Dedup \/ Encode \/ Decode
           \/ CopyOut \/ Breaks \/ CheckUnchanged \/ DeleteInput \/ RemoveClaimed \/ Report
           \/ Other \/ Stopped
  <2>1. UNCHANGED <<spool, handle, opening>>
    BY <1>7 DEF Checking, NoteInput, NoteIndex, NoteStderr, NoteStdout, NoteStdWritten, CheckNames,
                Stamp, NewTemp, DeleteTemps, Sniff, OpenIndex, Dedup, Encode, Decode, CopyOut,
                Breaks, CheckUnchanged, DeleteInput, RemoveClaimed, Report, Other, Edit, RemoveFile,
                RenameFile, Retarget, Meddle, Stopped, vars, dataVars
  <2> QED BY <1>1, <2>1, SpoolSame
<1>8. CASE OpenInput
  <2>1. UNCHANGED <<spool, opening>> /\ handle' = [handle EXCEPT !["input"] = InputFile]
    BY <1>8 DEF OpenInput
  <2>2. handle'["scratch"] = handle["scratch"]
    BY <1>1, <2>1 DEF TypeOK, Roles, Writers
  <2> QED BY <1>1, <2>1, <2>2, SpoolSame
<1> QED BY <1>2, <1>3, <1>4, <1>5, <1>6, <1>7, <1>8
        DEF Next, Run, Opening, Temps, Working, Ending

-----------------------------------------------------------------------------
(* The names the run is to write.                                          *)

Outputs == {Outs(request)[k] : k \in DOMAIN Outs(request)}

LEMMA OutputNames ==
  ASSUME TypeOK
  PROVE  /\ Outs(request) \in Seq(Names) /\ Outputs \subseteq Names
         /\ request.fo # Std => request.fo \in Outputs
         /\ request.mode = "compress" /\ request.index # NoName => request.index \in Outputs
         /\ (request.mode = "compress" => request.fi = Std) /\ request.scratch # NoName =>
              request.scratch \in Outputs
<1> DEFINE a == If(request.fo # Std, request.fo)
           b == If(request.mode = "compress" /\ request.index # NoName, request.index)
           c == If((request.mode = "compress" => request.fi = Std) /\ request.scratch # NoName,
                   request.scratch)
<1>1. Outs(request) = (a \o b) \o c
  BY DEF Outs
<1>2. /\ request.fo \in Names \cup {Std} /\ request.index \in Names \cup {NoName}
      /\ request.scratch \in Names \cup {NoName}
  BY RequestFields DEF TypeOK
<1>3. a \in Seq(Names) /\ b \in Seq(Names) /\ c \in Seq(Names)
  BY <1>2, IfSeq
<1>4. /\ request.fo # Std => Has(a, request.fo)
      /\ request.mode = "compress" /\ request.index # NoName => Has(b, request.index)
      /\ (request.mode = "compress" => request.fi = Std) /\ request.scratch # NoName =>
           Has(c, request.scratch)
  BY DEF If, Has
<1> HIDE DEF a, b, c
<1>5. /\ a \o b \in Seq(Names)
      /\ request.fo # Std => Has(a \o b, request.fo)
      /\ request.mode = "compress" /\ request.index # NoName => Has(a \o b, request.index)
  BY <1>2, <1>3, <1>4, ConcatSeq, ConcatHas
<1> DEFINE ab == a \o b
<1> HIDE DEF ab
<1>6. /\ ab \o c \in Seq(Names)
      /\ request.fo # Std => Has(ab \o c, request.fo)
      /\ request.mode = "compress" /\ request.index # NoName => Has(ab \o c, request.index)
      /\ (request.mode = "compress" => request.fi = Std) /\ request.scratch # NoName =>
           Has(ab \o c, request.scratch)
  BY <1>2, <1>3, <1>4, <1>5, ConcatSeq, ConcatHas DEF ab
<1>7. Outs(request) \in Seq(Names) /\ \A x : Has(Outs(request), x) => x \in Outputs
  BY <1>1, <1>6 DEF ab, Outputs, Has
<1>8. Outputs \subseteq Names
  BY <1>7, SeqOf DEF Outputs
<1> QED BY <1>1, <1>6, <1>7, <1>8 DEF ab

(* A file is opened under one of them.                                     *)
LEMMA BeginsOutput ==
  ASSUME Good, Planned, Begins
  PROVE  /\ opening'.try = "exclusive" /\ opening'.name \in Outputs /\ ~ opening'.existed
         /\ UNCHANGED <<request, worldVars, todo, ruleVars, dataVars, failed, meddled>>
<1>1. /\ todo # <<>> /\ Head(todo) \in {"createIndex", "createOutput", "spool", "decodeRest"}
      /\ \/ Head(todo) = "createIndex" /\ StartOpen(request.index, "index")
         \/ Head(todo) = "createOutput" /\ StartOpen(request.fo, "output")
         \/ /\ Head(todo) \in {"spool", "decodeRest"} /\ request.scratch # NoName
            /\ StartOpen(request.scratch, "scratch")
  BY DEF Begins, CreateIndex, CreateOutput, Spool, Spill, At
<1>2. ~ failed
  BY <1>1, HeadLeads DEF Good, UndoSteps
<1>3. Head(todo) \in Allowed(request) /\ Head(todo) \in Fits(request)
  BY <1>1, <1>2, StepAllowed, HeadPlaced DEF Good
<1>4. /\ Head(todo) = "createIndex" => request.index \in Outputs
      /\ Head(todo) = "createOutput" => request.fo \in Outputs
      /\ Head(todo) \in {"spool", "decodeRest"} /\ request.scratch # NoName =>
           request.scratch \in Outputs
  BY <1>3, OutputNames DEF Allowed, Fits, Good
<1> QED BY <1>1, <1>4 DEF StartOpen

-----------------------------------------------------------------------------
(* What a step does to the files found and made, while nobody else does    *)
(* anything.                                                               *)

LEMMA WrittenText ==
  ASSUME NEW f \in [Ids -> File], NEW i \in Ids \cup {NoFile}, NEW who \in Authors, NEW j \in Ids
  PROVE  Written(f, i, who)[j].text \subseteq f[j].text \cup {who}
<1>1. CASE i = NoFile \/ f[i].kind # "regular" \/ j # i
  BY <1>1, WrittenFile, IdsAssumption DEF Written
<1>2. CASE i \in Ids /\ f[i].kind = "regular" /\ j = i
  <2> DEFINE r == f[i]
             x == r.text \cup {who}
             g == [r EXCEPT !.text = x, !.stamp = r.stamp + 1]
  <2>1. Written(f, i, who) = [f EXCEPT ![i] = g]
    BY <1>2, IdsAssumption DEF Written
  <2>2. r \in [kind: {"regular", "device"}, to: {NoName}, text: SUBSET Authors, stamp: Nat]
    BY <1>2 DEF File, Link
  <2>3. x \in SUBSET Authors
    BY <2>2
  <2> HIDE DEF r, x
  <2>4. g.text = x
    BY <2>2, <2>3
  <2> HIDE DEF g
  <2> QED BY <1>2, <2>1, <2>4 DEF r, x
<1> QED BY <1>1, <1>2

LEMMA AtReport ==
  ASSUME Good, Next, meddled' = meddled, At("report"), ~ Report
  PROVE  file' = file
<1>1. todo # <<>> /\ Head(todo) = "report" /\ opening = NotOpening
  BY DEF At
<1>2. ~ Opening /\ ~ Checking
  BY <1>1 DEF Opening, CreateIndex, CreateOutput, TryExclusive, ExclusiveFails, TryPlain,
              TryCreate, OpenFails, Refuse, Accept, TruncateFails, NotOpening, At, Checking,
              NoteInput, NoteIndex, NoteStderr, NoteStdout, CheckNames, Stamp
<1>3. ~ Temps /\ ~ Working
  BY <1>1 DEF Temps, NewTemp, Spool, CopyStdin, DeleteTemps, RemoveSpool, At, Working, Sniff,
              OpenInput, OpenIndex, Dedup, Encode, Decode, Spill, CopyOut, Breaks
<1>4. ~ Ending
  BY <1>1 DEF Ending, Close, CheckUnchanged, DeleteInput, RemoveClaimed, At
<1>5. ~ Other
  BY OtherFiles DEF Good, TypeOK
<1> QED BY <1>2, <1>3, <1>4, <1>5 DEF Next, Run, Stopped, vars, worldVars

(* A file changes that is no regular file only by somebody else's hand.    *)
LEMMA OthersStay ==
  ASSUME Good, Next, meddled' = meddled, NEW k \in Ids, InUse(k)
  PROVE  file'[k].kind = file[k].kind /\ (file[k].kind # "regular" => file'[k] = file[k])
<1>1. CASE CopyStdin \/ Encode \/ Decode \/ CopyOut \/ CheckUnchanged
  BY <1>1, WorkWrites DEF Good
<1>2. CASE Report
  <2>1. file \in [Ids -> File] /\ request.stderr \in Ids \cup {NoFile} /\ "messages" \in Authors
    BY RequestFields DEF Good, TypeOK, Authors
  <2>2. file' = Written(file, request.stderr, "messages")
    BY <1>2 DEF Report
  <2>3. \A j \in Ids : /\ file'[j].kind = file[j].kind
                       /\ file[j].kind # "regular" => file'[j] = file[j]
    BY <2>1, <2>2, WrittenFile
  <2> QED BY <2>3
<1>3. CASE ~ (CopyStdin \/ Encode \/ Decode \/ CopyOut \/ CheckUnchanged \/ Report)
  <2>1. ~ At("report") \/ file' = file
    BY <1>3, AtReport
  <2>2. \/ file'[k] = file[k]
        \/ file'[k].kind = file[k].kind /\ file[k].kind = "regular"
    BY <1>3, <2>1, RestWrites DEF Good
  <2> QED BY <2>2
<1> QED BY <1>1, <1>2, <1>3

(* Of a name: it is made, or removed as what the run had made.             *)
Made(n) ==
  /\ TryExclusive \/ TryCreate
  /\ n = Target(opening.name) /\ dir[n] = NoFile
  /\ dir'[n] \in Ids /\ ~ InUse(dir'[n])
  /\ file'[dir'[n]].kind = "regular" /\ file'[dir'[n]].text = {}
  /\ handle'[opening.role] = dir'[n]

Gone(n) ==
  /\ IsRegular(dir[n]) /\ dir'[n] = NoFile
  /\ \/ Refuse /\ ~ opening.existed /\ n = opening.name /\ dir[n] = opened
     \/ RemoveSpool /\ spool.named /\ n = spool.name /\ dir[n] = spool.id
     \/ RemoveClaimed /\ <<n, dir[n]>> \in claimed

LEMMA MadeBy ==
  ASSUME Good, TryExclusive \/ TryCreate, NEW t \in Names, t = Target(opening.name),
         dir[t] = NoFile, MakeFile(t), NEW n \in Names
  PROVE  dir'[n] = dir[n] \/ Made(n)
<1>1. /\ dir \in [Names -> Ids \cup {NoFile}] /\ file \in [Ids -> File]
      /\ handle \in [Roles -> Ids \cup {NoFile}] /\ opening.role \in Roles
  BY DEF Good, TypeOK
<1>2. HasFresh /\ Fresh \in Ids /\ ~ InUse(Fresh)
  BY FreshIsFree DEF MakeFile
<1>3. /\ dir' = [dir EXCEPT ![t] = Fresh]
      /\ file' = [file EXCEPT ![Fresh] = NewFile(Fresh)]
      /\ handle' = [handle EXCEPT ![opening.role] = Fresh]
  BY DEF MakeFile
<1>4. file'[Fresh].kind = "regular" /\ file'[Fresh].text = {}
  BY <1>1, <1>2, <1>3 DEF NewFile
<1> QED BY <1>1, <1>2, <1>3, <1>4 DEF Made

LEMMA Entries ==
  ASSUME Good, SpoolOnce, Next, meddled' = meddled, ~ DeleteInput, NEW n \in Names
  PROVE  dir'[n] = dir[n] \/ Made(n) \/ Gone(n)
<1>1. /\ dir \in [Names -> Ids \cup {NoFile}] /\ file \in [Ids -> File]
      /\ \A m \in Names : Target(m) \in Names
  BY LedType DEF Good, TypeOK
<1>2. CASE Checking \/ NewTemp \/ Spool \/ CopyStdin \/ DeleteTemps \/ Working \/ Close
           \/ CheckUnchanged \/ Report \/ Stopped
  <2>1. CASE Working
    BY <2>1 DEF Working, Sniff, OpenInput, OpenIndex, Dedup, Encode, Decode, Spill, StartOpen,
                CopyOut, Breaks, worldVars
  <2>2. CASE Checking
    BY <2>2 DEF Checking, NoteInput, NoteIndex, NoteStderr, NoteStdout, NoteStdWritten, CheckNames,
                Stamp, worldVars
  <2> QED BY <1>2, <2>1, <2>2 DEF NewTemp, Spool, StartOpen, CopyStdin, DeleteTemps, Close,
             CheckUnchanged, Report, Stopped, vars, worldVars
<1>3. CASE \/ CreateIndex \/ CreateOutput \/ ExclusiveFails \/ TryPlain \/ OpenFails \/ Accept
           \/ TruncateFails
  BY <1>3 DEF CreateIndex, CreateOutput, StartOpen, ExclusiveFails, TryPlain, OpenFails, Accept,
              TruncateFails, worldVars
<1>4. CASE TryExclusive \/ TryCreate
  <2>1. opening.name \in Names
    BY <1>4 DEF TryExclusive, TryCreate, Good, Named, NotOpening
  <2>2. CASE dir' = dir
    BY <2>2
  <2>3. CASE dir' # dir
    <3>1. CASE TryExclusive
      <4>1. dir[opening.name] = NoFile /\ MakeFile(opening.name)
        BY <2>3, <3>1 DEF TryExclusive, worldVars
      <4>2. Target(opening.name) = opening.name
        BY <4>1 DEF Target
      <4> QED BY <1>4, <2>1, <4>1, <4>2, MadeBy
    <3>2. CASE TryCreate
      <4>1. Led(opening.name) = NoFile /\ MakeFile(Target(opening.name))
        BY <2>3, <3>2 DEF TryCreate, worldVars
      <4> QED BY <1>1, <1>4, <2>1, <4>1, MadeBy DEF Led
    <3> QED BY <1>4, <3>1, <3>2
  <2> QED BY <2>2, <2>3
<1>5. CASE Refuse
  <2>1. opening.name \in Names
    BY <1>5 DEF Refuse, Good, Named, NotOpening
  <2>2. CASE ~ opening.existed /\ IdOfName(opening.name) = opened
    <3>1. IsRegular(dir[opening.name]) /\ dir[opening.name] = opened
      BY <1>5, <2>2 DEF Refuse, IdOfName, IsRegular
    <3>2. dir' = [dir EXCEPT ![opening.name] = NoFile]
      BY <1>5, <2>2 DEF Refuse
    <3> QED BY <1>1, <1>5, <2>1, <2>2, <3>1, <3>2 DEF Gone
  <2> QED BY <1>5, <2>2 DEF Refuse
<1>6. ASSUME NEW gone, dir' = Without(gone), dir'[n] # dir[n]
      PROVE  dir'[n] = NoFile /\ <<n, IdOfName(n)>> \in gone
  BY <1>6 DEF Without
<1>7. CASE RemoveSpool
  <2> SUFFICES ASSUME dir'[n] # dir[n] PROVE Gone(n)
    OBVIOUS
  <2>1. spool.named /\ dir' = Without({<<spool.name, spool.id>>})
    BY <1>7 DEF RemoveSpool
  <2>2. dir'[n] = NoFile /\ n = spool.name /\ IdOfName(n) = spool.id
    BY <1>6, <2>1
  <2>3. IsRegular(dir[n])
    BY <2>1, <2>2 DEF IdOfName, SpoolOnce
  <2> QED BY <1>7, <2>1, <2>2, <2>3 DEF Gone, IdOfName
<1>8. CASE RemoveClaimed
  <2> SUFFICES ASSUME dir'[n] # dir[n] PROVE Gone(n)
    OBVIOUS
  <2>1. dir'[n] = NoFile /\ <<n, IdOfName(n)>> \in claimed
    BY <1>6, <1>8 DEF RemoveClaimed
  <2>2. IdOfName(n) \in Ids
    BY <2>1 DEF Good, TypeOK
  <2>3. IsRegular(dir[n]) /\ IdOfName(n) = dir[n]
    BY <2>2, IdsAssumption DEF IdOfName
  <2> QED BY <1>8, <2>1, <2>3 DEF Gone
<1>9. ~ Other
  BY OtherFiles DEF Good, TypeOK
<1> QED BY <1>2, <1>3, <1>4, <1>5, <1>7, <1>8, <1>9
        DEF Next, Run, Opening, Temps, Ending

-----------------------------------------------------------------------------
(* Whose bytes are where.                                                  *)

Clean(i) == file[i].text \subseteq {"user", "messages"}

AllClean == \A n \in Names : dir[n] # NoFile => Clean(dir[n])

LinkedTo(n) ==
  \E m \in Names : dir[m] # NoFile /\ file[dir[m]].kind = "link" /\ file[dir[m]].to = n

(* Two names of outputs that lead to one file end at one name.             *)
Apart ==
  \A m, n \in Outputs : IsRegular(Led(n)) /\ Led(m) = Led(n) => Target(m) = Target(n)

(* The names and files that the run will remove if it fails.               *)
Own == claimed \cup (IF spool.named THEN {<<spool.name, spool.id>>} ELSE {})

Owned ==
  /\ \A p \in Own : p[1] \in Outputs /\ Led(p[1]) = p[2] /\ IsRegular(p[2]) /\ p[2] # before.id
  /\ \A c \in claimed : c[2] \in writes /\ (spool.named => c[2] # spool.id)
  /\ Pending(CheckSteps) => claimed = {}
  /\ \A r \in {"output", "index"} :
       r \in OpenToWrite => failed \/ \E c \in claimed : c[2] = handle[r]

(* A file being opened is where its name leads; one just made is no other. *)
Underway ==
  opening # NotOpening =>
    /\ opening.name \in Outputs
    /\ opening.try = "create" /\ ~ opening.existed => Led(opening.name) = NoFile
    /\ opening.try = "check" /\ IsRegular(opened) => Led(opening.name) = opened
    /\ opening.try = "check" /\ ~ opening.existed =>
         IsRegular(opened) /\ opened # before.id /\ \A p \in Own : p[2] # opened

(* The input is noted as read, where it was, and as it was.                *)
InputStays ==
  /\ Pending(CheckSteps) /\ request.fi # Std =>
       Pending({"noteInput"}) \/ ~ IsRegular(Led(request.fi)) \/ Led(request.fi) \in reads
  /\ before.id # NoFile =>
       /\ request.fi \in Names /\ Led(request.fi) = before.id
       /\ before.id \in reads /\ IsRegular(before.id) /\ Clean(before.id)

(* Nothing is written until all names were compared, and nothing at all if *)
(* two of them were found to lead to one file.                             *)
Compared ==
  /\ Pending(CheckSteps) => AllClean
  /\ Apart \/ (AllClean /\ (failed \/ Pending({"checkNames"})))
  /\ request.fo = Std /\ IsRegular(request.stdout) =>
       failed \/ Pending({"checkNames"}) \/ \A n \in Outputs : Led(n) # request.stdout

(* A name that the run is to write has a part of an output only if it is   *)
(* going to be removed, or if another name leads to it.                    *)
Marked ==
  \A n \in Outputs :
    IsRegular(dir[n]) /\ ~ Clean(dir[n]) => LinkedTo(n) \/ \E p \in Own : p[2] = dir[n]

Traced == Owned /\ Underway /\ InputStays /\ Compared /\ Marked

(* One step of the run alone.                                              *)
Alone == Good /\ Rule /\ Sound /\ Next /\ meddled' = meddled /\ ~ DeleteInput

LEMMA AloneMoves ==
  ASSUME Alone
  PROVE  /\ TypeOK /\ TodoOK /\ Named /\ Moves /\ request' = request /\ Outputs' = Outputs
         /\ reads \subseteq reads'
         /\ failed => failed'
         /\ ~ Other
<1>1. TypeOK /\ TodoOK /\ Named /\ Moves
  BY NextMoves DEF Alone, Good
<1>2. request' = request /\ (failed => failed')
  BY <1>1 DEF Moves, Done, Fail
<1>3. Outputs' = Outputs
  BY <1>2 DEF Outputs
<1>4. ~ Other
  BY <1>1, OtherFiles DEF Alone, TypeOK
<1>5. reads \subseteq reads'
  <2>1. CASE Checking
    BY <2>1 DEF Checking, NoteInput, NoteIndex, NoteStderr, NoteStdout, NoteStdWritten, CheckNames,
                Stamp, ruleVars
  <2>2. CASE Opening
    BY <2>2 DEF Opening, CreateIndex, CreateOutput, StartOpen, TryExclusive, ExclusiveFails,
                TryPlain, TryCreate, OpenFails, Refuse, Accept, TruncateFails, ruleVars
  <2>3. CASE Temps
    BY <2>3 DEF Temps, NewTemp, Spool, StartOpen, CopyStdin, DeleteTemps, RemoveSpool, ruleVars
  <2>4. CASE Working
    BY <2>4 DEF Working, Sniff, OpenInput, OpenIndex, Dedup, Encode, Decode, Spill, StartOpen,
                CopyOut, Breaks, ruleVars
  <2>5. CASE Ending
    BY <2>5 DEF Ending, Close, CheckUnchanged, DeleteInput, RemoveClaimed, Report, ruleVars
  <2>6. CASE Stopped
    BY <2>6 DEF Stopped, vars, ruleVars
  <2> QED BY <1>4, <2>1, <2>2, <2>3, <2>4, <2>5, <2>6 DEF Alone, Next, Run
<1> QED BY <1>1, <1>2, <1>3, <1>4, <1>5

LEMMA NamesStay ==
  ASSUME Alone, NEW n \in Names
  PROVE  dir'[n] = dir[n] \/ Made(n) \/ Gone(n)
  BY Entries DEF Alone, Sound

(* No link is made, removed or pointed elsewhere.                          *)
LEMMA LinksStay ==
  ASSUME Alone, NEW n \in Names
  PROVE  /\ Target(n)' = Target(n) /\ Target(n) \in Names
         /\ Led(n)' = dir'[Target(n)] /\ Led(n) = dir[Target(n)]
         /\ LinkedTo(n) => LinkedTo(n)'
<1>1. dir \in [Names -> Ids \cup {NoFile}] /\ file \in [Ids -> File] /\ Target(n) \in Names
  BY LedType DEF Alone, Good, TypeOK
<1>2. ASSUME NEW m \in Names, dir[m] # NoFile
      PROVE  /\ file'[dir[m]].kind = file[dir[m]].kind
             /\ file[dir[m]].kind # "regular" => file'[dir[m]] = file[dir[m]]
  <2>1. dir[m] \in Ids /\ InUse(dir[m])
    BY <1>1, <1>2 DEF InUse
  <2> QED BY <2>1, OthersStay DEF Alone
<1>3. ASSUME NEW m \in Names, dir[m] # NoFile, file[dir[m]].kind = "link"
      PROVE  dir'[m] = dir[m] /\ file'[dir[m]] = file[dir[m]]
  <2>1. ~ Made(m) /\ ~ Gone(m)
    BY <1>3 DEF Made, Gone, IsRegular
  <2> QED BY <1>2, <1>3, <2>1, NamesStay
<1>4. LinkedTo(n) => LinkedTo(n)'
  <2> SUFFICES ASSUME LinkedTo(n) PROVE LinkedTo(n)'
    OBVIOUS
  <2>1. PICK m \in Names : dir[m] # NoFile /\ file[dir[m]].kind = "link" /\ file[dir[m]].to = n
    BY DEF LinkedTo
  <2>2. dir'[m] # NoFile /\ file'[dir'[m]].kind = "link" /\ file'[dir'[m]].to = n
    BY <1>3, <2>1
  <2> QED BY <2>2 DEF LinkedTo
<1>5. Target(n)' = Target(n)
  <2>1. CASE dir[n] # NoFile /\ file[dir[n]].kind = "link"
    BY <1>3, <2>1 DEF Target
  <2>2. CASE ~ (dir[n] # NoFile /\ file[dir[n]].kind = "link")
    <3>1. ~ (dir'[n] # NoFile /\ file'[dir'[n]].kind = "link")
      <4>1. CASE dir'[n] = dir[n]
        BY <1>2, <2>2, <4>1
      <4>2. CASE Made(n)
        BY <4>2 DEF Made
      <4>3. CASE Gone(n)
        BY <4>3 DEF Gone
      <4> QED BY <4>1, <4>2, <4>3, NamesStay
    <3> QED BY <2>2, <3>1 DEF Target
  <2> QED BY <2>1, <2>2
<1> QED BY <1>1, <1>4, <1>5 DEF Led

(* Where a name leads stays, or is made, or is removed.                    *)
LEMMA LedStays ==
  ASSUME Alone, NEW n \in Names
  PROVE  /\ Led(n)' = Led(n) \/ Made(Target(n)) \/ Gone(Target(n))
         /\ Made(Target(n)) => /\ Led(n) = NoFile /\ Led(n)' \in Ids /\ ~ InUse(Led(n)')
                               /\ Target(n) = Target(opening.name)
         /\ Gone(Target(n)) => IsRegular(Led(n)) /\ Led(n)' = NoFile
  BY LinksStay, NamesStay DEF Made, Gone

LEMMA RegularInUse ==
  ASSUME Alone, NEW i \in Ids, InUse(i)
  PROVE  IsRegular(i)' <=> IsRegular(i)
  BY KindsStay, RegularStays DEF Alone, Good

LEMMA LedInUse ==
  ASSUME TypeOK, NEW n \in Names, Led(n) # NoFile
  PROVE  Led(n) \in Ids /\ InUse(Led(n))
<1>1. dir \in [Names -> Ids \cup {NoFile}] /\ Target(n) \in Names
  BY LedType DEF TypeOK
<1> QED BY <1>1 DEF Led, InUse

(* What bytes a step adds.                                                 *)
WritesData == CopyStdin \/ Encode \/ Decode \/ CopyOut

LEMMA Texts ==
  ASSUME Alone, NEW k \in Ids, InUse(k)
  PROVE  \/ file'[k].text \subseteq file[k].text \cup {"messages"}
         \/ Accept /\ k = opened /\ IsRegular(k)
         \/ /\ WritesData /\ IsRegular(k) /\ file'[k] # file[k]
            /\ \/ k \in {handle["output"], handle["index"], handle["scratch"]}
               \/ k = request.stdout /\ request.fo = Std
<1>1. /\ file \in [Ids -> File] /\ request.stderr \in Ids \cup {NoFile} /\ "messages" \in Authors
      /\ TypeOK /\ k # NoFile /\ NoFile \in Ids \cup {NoFile}
  BY RequestFields, IdsAssumption DEF Alone, Good, TypeOK, Authors
<1>2. CASE WritesData
  <2>1. /\ file'[k] # file[k] => file[k].kind = "regular"
        /\ \/ file'[k] = file[k]
           \/ k \in {handle["output"], handle["index"], handle["scratch"]}
           \/ k = request.stdout /\ request.fo = Std
           \/ CheckUnchanged
    BY <1>1, <1>2, WorkWrites DEF WritesData
  <2>2. ~ CheckUnchanged
    BY <1>2 DEF WritesData, CopyStdin, Encode, Decode, CopyOut, CheckUnchanged, At
  <2> QED BY <1>1, <1>2, <2>1, <2>2 DEF IsRegular
<1>3. CASE CheckUnchanged \/ Report
  <2>1. file' = file \/ \E i \in Ids \cup {NoFile} : file' = Written(file, i, "messages")
    BY <1>1, <1>3 DEF CheckUnchanged, Report
  <2> QED BY <1>1, <2>1, WrittenText
<1>4. CASE ~ WritesData /\ ~ CheckUnchanged /\ ~ Report
  <2>1. \/ file'[k] = file[k]
        \/ k = opened /\ Accept /\ file[k].kind = "regular"
        \/ At("report")
    BY <1>1, <1>4, RestWrites DEF Alone, WritesData
  <2>2. At("report") => file' = file
    BY <1>4, AtReport DEF Alone
  <2> QED BY <1>1, <2>1, <2>2 DEF IsRegular
<1> QED BY <1>2, <1>3, <1>4

(* Which steps claim a file, give one up, or give up a note.               *)
LEMMA ClaimSteps ==
  ASSUME Alone, ~ Accept
  PROVE  /\ claimed' = claimed \/ (RemoveClaimed /\ claimed' = {})
         /\ spool' = spool \/ (RemoveSpool /\ ~ spool'.named)
         /\ RemoveClaimed => claimed' = {} /\ spool' = spool
         /\ RemoveSpool => ~ spool'.named /\ claimed' = claimed
         /\ writes \subseteq writes' \/ DeleteTemps \/ RemoveSpool
<1>1. CASE Checking
  BY <1>1 DEF Checking, NoteInput, NoteIndex, NoteStderr, NoteStdout, NoteStdWritten, CheckNames,
              Stamp, ruleVars, dataVars, RemoveClaimed, RemoveSpool, At
<1>2. CASE Opening
  <2>1. CASE CreateIndex \/ CreateOutput
    BY <2>1 DEF CreateIndex, CreateOutput, StartOpen, ruleVars, dataVars, RemoveClaimed, RemoveSpool,
                At
  <2>2. CASE TryExclusive \/ ExclusiveFails \/ TryPlain \/ TryCreate \/ OpenFails \/ Refuse \/ TruncateFails
    BY <2>2 DEF TryExclusive, ExclusiveFails, TryPlain, TryCreate, OpenFails, Refuse, TruncateFails,
                ruleVars, dataVars, RemoveClaimed, RemoveSpool, At, NotOpening
  <2> QED BY <1>2, <2>1, <2>2 DEF Opening
<1>3. CASE NewTemp \/ Spool \/ CopyStdin \/ DeleteTemps
  BY <1>3 DEF NewTemp, Spool, StartOpen, MakeTemp, CopyStdin, DeleteTemps, ruleVars, dataVars,
              RemoveClaimed, RemoveSpool, At
<1>4. CASE RemoveSpool
  <2>1. ~ spool'.named
    BY <1>4 DEF RemoveSpool, Alone, Good, TypeOK
  <2> QED BY <1>4, <2>1 DEF RemoveSpool, RemoveClaimed, At
<1>5. CASE Working
  BY <1>5 DEF Working, Sniff, OpenInput, OpenIndex, Dedup, Encode, Decode, Spill, StartOpen,
              MakeTemp, CopyOut, Breaks, ruleVars, dataVars, RemoveClaimed, RemoveSpool, At
<1>6. CASE Ending
  BY <1>6 DEF Ending, Close, CheckUnchanged, DeleteInput, RemoveClaimed, RemoveSpool, Report,
              ruleVars, dataVars, At
<1>7. CASE Stopped
  BY <1>7 DEF Stopped, vars, ruleVars, dataVars, RemoveClaimed, RemoveSpool, At
<1> QED BY <1>1, <1>2, <1>3, <1>4, <1>5, <1>6, <1>7, AloneMoves DEF Alone, Next, Run, Temps

LEMMA OwnFewer ==
  ASSUME Alone, ~ Accept
  PROVE  /\ Own' \subseteq Own /\ claimed' \subseteq claimed
         /\ \A p \in Own : p \notin Own' => (RemoveClaimed /\ p \in claimed)
                                      \/ (RemoveSpool /\ spool.named /\ p = <<spool.name, spool.id>>)
         /\ RemoveClaimed => \A p \in Own' : p \notin claimed \/ (spool.named /\ p = <<spool.name, spool.id>>)
         /\ RemoveSpool => Own' = claimed
  BY ClaimSteps DEF Own

(* What is open to be written stays so, but for what was just accepted.    *)
LEMMA OpenStays ==
  ASSUME Alone, ~ Accept, NEW r \in {"output", "index"}, r \in OpenToWrite'
  PROVE  r \in OpenToWrite /\ handle'[r] = handle[r]
<1>1. /\ handle \in [Roles -> Ids \cup {NoFile}] /\ r \in Roles /\ r \in Writers
      /\ opening \in [try: {"none", "exclusive", "plain", "create", "check"},
                      name: Names \cup {NoName}, role: Roles, existed: BOOLEAN]
  BY DEF Alone, Good, TypeOK, Roles, Writers
<1>2. IsRegular(handle[r])' /\ ~ (opening'.try = "check" /\ opening'.role = r)
  BY DEF OpenToWrite
<1>3. handle'[r] # NoFile
  BY <1>2 DEF IsRegular
<1>4. CASE OpenFails \/ Refuse \/ TruncateFails
  <2>1. /\ handle' = handle \/ handle' = [handle EXCEPT ![opening.role] = NoFile]
        /\ opening.try = "check" => handle' = [handle EXCEPT ![opening.role] = NoFile]
    BY <1>4 DEF OpenFails, Refuse, TruncateFails, dataVars
  <2>2. handle'[r] = handle[r] /\ ~ (opening.try = "check" /\ opening.role = r)
    BY <1>1, <1>3, <2>1
  <2> QED BY <1>1, <2>2, StillOpen, KindsStay DEF Alone, Good
<1>5. CASE TryExclusive \/ ExclusiveFails \/ TryPlain \/ TryCreate
  <2>1. opening.try # "check"
    BY <1>5 DEF TryExclusive, ExclusiveFails, TryPlain, TryCreate
  <2>2. \/ handle' = handle
        \/ /\ opening'.try = "check" /\ opening'.role = opening.role
           /\ \E i : handle' = [handle EXCEPT ![opening.role] = i]
    <3>1. CASE TryExclusive
      BY <1>1, <3>1 DEF TryExclusive, MakeFile
    <3>2. CASE TryPlain
      BY <1>1, <3>2 DEF TryPlain
    <3>3. CASE TryCreate
      BY <1>1, <3>3 DEF TryCreate, MakeFile
    <3> QED BY <1>5, <3>1, <3>2, <3>3 DEF ExclusiveFails, dataVars
  <2>3. handle'[r] = handle[r]
    BY <1>1, <1>2, <2>2
  <2> QED BY <1>1, <2>1, <2>3, StillOpen, KindsStay DEF Alone, Good
<1>6. CASE ~ (OpenFails \/ Refuse \/ TruncateFails \/ TryExclusive \/ ExclusiveFails \/ TryPlain \/ TryCreate)
  <2>1. handle'[r] \in {handle[r], NoFile} /\ (opening' = opening \/ opening = NotOpening)
    <3>1. CASE Checking \/ CreateIndex \/ CreateOutput
      BY <3>1 DEF Checking, NoteInput, NoteIndex, NoteStderr, NoteStdout, NoteStdWritten, CheckNames,
                  Stamp, CreateIndex, CreateOutput, StartOpen, dataVars, At
    <3>2. CASE Temps
      <4>1. /\ handle' = handle \/ handle' = [handle EXCEPT !["scratch"] = NoFile]
            /\ opening = NotOpening
        BY <3>2 DEF Temps, NewTemp, Spool, StartOpen, CopyStdin, DeleteTemps, RemoveSpool, dataVars, At
      <4> QED BY <1>1, <4>1
    <3>3. CASE Working
      <4>1. /\ \/ handle' = handle \/ handle' = [handle EXCEPT !["input"] = InputFile]
               \/ handle' = [handle EXCEPT !["scratch"] = Fresh]
            /\ opening = NotOpening
        BY <3>3 DEF Working, Sniff, OpenInput, OpenIndex, Dedup, Encode, Decode, Spill, StartOpen,
                    CopyOut, Breaks, dataVars, At
      <4> QED BY <1>1, <4>1
    <3>4. CASE Ending
      BY <1>1, <3>4 DEF Ending, Close, CheckUnchanged, DeleteInput, RemoveClaimed, Report, dataVars, At
    <3>5. CASE Stopped
      BY <3>5 DEF Stopped, vars, dataVars
    <3> QED BY <1>6, <3>1, <3>2, <3>3, <3>4, <3>5, AloneMoves DEF Alone, Next, Run, Opening
  <2>2. handle'[r] = handle[r] /\ (opening' # opening => ~ (opening.try = "check" /\ opening.role = r))
    BY <1>3, <2>1 DEF NotOpening
  <2> QED BY <1>1, <2>2, StillOpen, KindsStay DEF Alone, Good
<1> QED BY <1>4, <1>5, <1>6

(* What the run owns stays where it is until it is given up.               *)
LEMMA OwnStays ==
  ASSUME Alone, Owned, Underway, ~ Accept, NEW p \in Own'
  PROVE  /\ p \in Own /\ p[1] \in Outputs' /\ Led(p[1])' = p[2] /\ IsRegular(p[2])'
         /\ p[2] # before'.id
<1>1. /\ p \in Own /\ p[1] \in Outputs /\ Led(p[1]) = p[2] /\ IsRegular(p[2]) /\ p[2] # before.id
  BY OwnFewer DEF Owned
<1>2. TypeOK /\ p[1] \in Names /\ Outputs' = Outputs
  BY <1>1, AloneMoves, OutputNames
<1>3. p[2] \in Ids /\ InUse(p[2])
  BY <1>1, <1>2, LedInUse DEF IsRegular
<1> DEFINE t == Target(p[1])
<1>4. ~ Made(t)
  BY <1>1, <1>2, LedStays DEF IsRegular
<1>5. ~ Gone(t)
  <2> SUFFICES ASSUME Gone(t) PROVE FALSE
    OBVIOUS
  <2>1. dir[t] = p[2]
    BY <1>1, <1>2, LinksStay
  <2>2. CASE Refuse /\ ~ opening.existed /\ dir[t] = opened
    <3>1. opening.try = "check" /\ opening # NotOpening
      BY <2>2 DEF Refuse, NotOpening
    <3>2. \A o \in Own : o[2] # opened
      BY <2>2, <3>1 DEF Underway
    <3> QED BY <1>1, <2>1, <2>2, <3>2
  <2>3. CASE RemoveSpool /\ spool.named /\ dir[t] = spool.id
    BY <2>1, <2>3, OwnFewer DEF Owned
  <2>4. CASE RemoveClaimed /\ <<t, dir[t]>> \in claimed
    <3>1. p \in claimed \/ (spool.named /\ p[2] = spool.id)
      BY <1>1 DEF Own
    <3>2. spool.named /\ p[2] = spool.id
      BY <2>4, <3>1, OwnFewer
    <3>3. <<t, dir[t]>>[2] # spool.id
      BY <2>4, <3>2 DEF Owned
    <3> QED BY <2>1, <3>2, <3>3
  <2> QED BY <2>2, <2>3, <2>4 DEF Gone
<1>6. Led(p[1])' = p[2]
  BY <1>1, <1>2, <1>4, <1>5, LedStays
<1>7. IsRegular(p[2])'
  BY <1>1, <1>3, RegularInUse
<1>8. p[2] # before'.id
  <2>1. CASE before' = before
    BY <1>1, <2>1
  <2>2. CASE Stamp
    <3>1. Pending(CheckSteps)
      BY <2>2, AloneMoves, HeadLeads DEF Stamp, At, CheckSteps
    <3>2. claimed = {} /\ ~ spool.named
      BY <3>1 DEF Owned, Alone, Rule, InTurn
    <3> QED BY <1>1, <3>2 DEF Own
  <2> QED BY <1>2, <2>1, <2>2, StepTakes, AloneMoves DEF Alone
<1> QED BY <1>1, <1>2, <1>6, <1>7, <1>8

LEMMA ChecksPast ==
  ASSUME Alone
  PROVE  /\ Pending(CheckSteps)' => Pending(CheckSteps)
         /\ Pending({"noteInput"})' => Pending({"noteInput"})
         /\ todo # <<>> /\ Head(todo) \notin CheckSteps => ~ Pending(CheckSteps)
<1>1. CheckSteps \cap UndoSteps = {} /\ {"noteInput"} \cap UndoSteps = {}
  BY DEF CheckSteps, UndoSteps
<1> QED BY <1>1, PendingFewer, HeadLeads, AloneMoves

LEMMA OwnedOn ==
  ASSUME Alone, Owned, Underway, ~ Accept
  PROVE  Owned'
<1>1. \A p \in Own' : /\ p[1] \in Outputs' /\ Led(p[1])' = p[2] /\ IsRegular(p[2])'
                      /\ p[2] # before'.id
  BY OwnStays
<1>2. \A c \in claimed' : c[2] \in writes' /\ (spool'.named => c[2] # spool'.id)
  <2> SUFFICES ASSUME NEW c \in claimed'
               PROVE  c[2] \in writes' /\ (spool'.named => c[2] # spool'.id)
    OBVIOUS
  <2>1. c \in claimed /\ c \in Own /\ c[2] \in writes /\ (spool.named => c[2] # spool.id)
    BY OwnFewer DEF Owned, Own
  <2>2. c[2] \notin temps
    <3>1. c[1] \in Names /\ Led(c[1]) = c[2]
      BY <2>1, OutputNames, AloneMoves DEF Owned
    <3> QED BY <3>1, LinksStay DEF Alone, Rule, Outside
  <2>3. spool'.named => c[2] # spool'.id
    BY <2>1, ClaimSteps
  <2>4. c[2] \in writes'
    <3>1. CASE DeleteTemps
      BY <2>1, <2>2, <3>1 DEF DeleteTemps
    <3>2. CASE RemoveSpool
      BY <2>1, <2>2, <3>2 DEF RemoveSpool
    <3> QED BY <2>1, <3>1, <3>2, ClaimSteps
  <2> QED BY <2>3, <2>4
<1>3. Pending(CheckSteps)' => claimed' = {}
  BY ChecksPast, OwnFewer DEF Owned
<1>4. ASSUME NEW r \in {"output", "index"}, r \in OpenToWrite'
      PROVE  failed' \/ \E c \in claimed' : c[2] = handle'[r]
  <2>1. r \in OpenToWrite /\ handle'[r] = handle[r]
    BY <1>4, OpenStays
  <2>2. CASE failed
    BY <2>2, AloneMoves
  <2>3. CASE ~ failed
    <3>1. ~ RemoveClaimed
      BY <2>3, HeadPlaced, AloneMoves DEF RemoveClaimed, At, Alone, Sound, Fits
    <3> QED BY <2>1, <2>3, <3>1, ClaimSteps DEF Owned
  <2> QED BY <2>2, <2>3
<1> QED BY <1>1, <1>2, <1>3, <1>4 DEF Owned

(* The file accepted is neither read nor another output.                   *)
LEMMA Accepted ==
  ASSUME Alone, Owned, Underway, Accept
  PROVE  /\ \A p \in Own' : p \in Own \/ (p = <<opening.name, opened>> /\ IsRegular(opened))
         /\ Own \subseteq Own'
         /\ IsRegular(opened) => <<opening.name, opened>> \in Own'
         /\ ~ failed /\ ~ Pending(CheckSteps)
         /\ opening.role = "scratch" => ~ spool.named /\ claimed' = claimed
         /\ opening.role # "scratch" => spool' = spool
         /\ claimed \subseteq claimed'
         /\ opening.role \in Writers /\ opening.try = "check"
<1>1. /\ opening # NotOpening /\ opening.try = "check"
      /\ claimed' = IF IsRegular(opened) /\ opening.role # "scratch"
                    THEN claimed \cup {<<opening.name, opened>>} ELSE claimed
      /\ spool' = IF opening.role = "scratch"
                  THEN [named |-> IsRegular(opened), name |-> opening.name, id |-> opened]
                  ELSE spool
  BY DEF Accept, NotOpening
<1>2. /\ opening.role = "scratch" => ~ spool.named
      /\ todo # <<>> /\ Head(todo) \in Opens \cup Spools /\ opening.role \in Writers
  BY <1>1 DEF Alone, Sound, SpoolOnce, Good, Named
<1>3. ~ failed /\ ~ Pending(CheckSteps)
  <2>1. Head(todo) \notin CheckSteps \cup UndoSteps
    BY <1>2 DEF Opens, Spools, CheckSteps, UndoSteps
  <2> QED BY <1>2, <2>1, HeadLeads, AloneMoves
<1>4. CASE opening.role = "scratch"
  <2>1. claimed' = claimed /\ ~ spool.named
    BY <1>1, <1>2, <1>4
  <2>2. spool'.named = IsRegular(opened) /\ spool'.name = opening.name /\ spool'.id = opened
    BY <1>1, <1>4
  <2> QED BY <1>1, <1>2, <1>3, <1>4, <2>1, <2>2 DEF Own
<1>5. CASE opening.role # "scratch"
  BY <1>1, <1>2, <1>3, <1>5 DEF Own
<1> QED BY <1>4, <1>5

LEMMA AcceptOwned ==
  ASSUME Alone, Owned, Underway, InputStays, Accept
  PROVE  Owned'
<1>1. TypeOK /\ TodoOK /\ Outputs \subseteq Names /\ Outputs' = Outputs
  BY AloneMoves, OutputNames
<1>2. /\ UNCHANGED <<dir, before, reads>> /\ (IsRegular(opened) => opened \notin reads \cup writes)
      /\ writes' = IF IsRegular(opened) THEN writes \cup {opened} ELSE writes
      /\ ~ Made(opening.name) /\ opening # NotOpening
  BY DEF Accept, Taken, Made, TryExclusive, TryCreate, NotOpening
<1>3. ASSUME NEW n \in Names PROVE Led(n)' = Led(n) /\ (IsRegular(Led(n))' <=> IsRegular(Led(n)))
  <2>1. Led(n)' = Led(n)
    BY <1>2, LinksStay
  <2>2. CASE Led(n) = NoFile
    BY <2>1, <2>2 DEF IsRegular
  <2>3. CASE Led(n) # NoFile
    <3> DEFINE i == Led(n)
    <3>1. i \in Ids /\ InUse(i)
      BY <1>1, <2>3, LedInUse
    <3>2. file'[i].kind = file[i].kind
      BY <3>1, OthersStay DEF Alone
    <3> QED BY <2>1, <3>2 DEF IsRegular
  <2> QED BY <2>1, <2>2, <2>3
<1>4. ASSUME NEW p \in Own'
      PROVE  p[1] \in Outputs' /\ Led(p[1])' = p[2] /\ IsRegular(p[2])' /\ p[2] # before'.id
  <2>1. p[1] \in Outputs /\ Led(p[1]) = p[2] /\ IsRegular(p[2]) /\ p[2] # before.id
    <3>1. CASE p \in Own
      BY <3>1 DEF Owned
    <3>2. CASE p = <<opening.name, opened>> /\ IsRegular(opened)
      <4>1. opening.name \in Outputs /\ Led(opening.name) = opened
        BY <1>2, <3>2, Accepted DEF Underway
      <4>2. opened # before.id
        BY <1>2, <3>2 DEF InputStays, IsRegular
      <4> QED BY <3>2, <4>1, <4>2
    <3> QED BY <3>1, <3>2, Accepted
  <2>2. Led(p[1])' = Led(p[1]) /\ (IsRegular(Led(p[1]))' <=> IsRegular(Led(p[1])))
    BY <1>1, <1>3, <2>1
  <2>3. IsRegular(p[2])'
    <3>1. p[2] \in Ids /\ InUse(p[2])
      BY <1>1, <2>1, LedInUse DEF IsRegular
    <3> QED BY <2>1, <3>1, RegularInUse
  <2> QED BY <1>1, <1>2, <2>1, <2>2, <2>3
<1>5. ASSUME NEW c \in claimed'
      PROVE  c[2] \in writes' /\ (spool'.named => c[2] # spool'.id)
  <2>1. CASE opening.role = "scratch"
    <3>1. c \in claimed /\ c[2] \in writes
      BY <1>5, <2>1, Accepted DEF Owned
    <3>2. spool'.named => IsRegular(opened) /\ spool'.id = opened
      BY <2>1 DEF Accept
    <3> QED BY <1>2, <3>1, <3>2
  <2>2. CASE opening.role # "scratch"
    <3>1. spool' = spool
      BY <2>2, Accepted
    <3>2. CASE c \in claimed
      BY <1>2, <3>1, <3>2 DEF Owned
    <3>3. CASE c \notin claimed
      <4>1. c = <<opening.name, opened>> /\ IsRegular(opened)
        BY <1>5, <3>3 DEF Accept
      <4>2. Pending(Opens \cup Spools)
        BY <1>1, <1>2, HeadLeads DEF Alone, Good, Named
      <4>3. spool.named => spool.id \in writes
        BY <4>2 DEF Alone, Rule, Kept
      <4> QED BY <1>2, <3>1, <4>1, <4>3
    <3> QED BY <3>2, <3>3
  <2> QED BY <2>1, <2>2
<1>6. ~ Pending(CheckSteps)'
  BY ChecksPast, Accepted
<1>7. ASSUME NEW r \in {"output", "index"}, r \in OpenToWrite'
      PROVE  failed' \/ \E c \in claimed' : c[2] = handle'[r]
  <2>1. handle'[r] = handle[r]
    <3>1. handle \in [Roles -> Ids \cup {NoFile}]
      BY <1>1 DEF TypeOK
    <3>2. handle' = handle \/ handle' = [handle EXCEPT !["scratch"] = NoFile]
      BY DEF Accept
    <3> QED BY <3>1, <3>2 DEF Roles, Writers
  <2>2. r \in Writers /\ IsRegular(handle[r])'
    BY <1>7 DEF OpenToWrite
  <2>3. handle[r] \in Ids /\ InUse(handle[r])
    <3>1. handle[r] \in Ids \cup {NoFile}
      BY <1>1, <2>2, HandleType
    <3> QED BY <2>1, <2>2, <3>1, IdsAssumption DEF IsRegular, InUse, Roles
  <2>4. IsRegular(handle[r])
    BY <2>1, <2>2, <2>3, OthersStay DEF Alone, IsRegular
  <2>5. CASE opening.role = r
    <3>1. claimed' = claimed \cup {<<opening.name, opened>>} /\ opened = handle[r]
      BY <2>4, <2>5 DEF Accept, opened
    <3>2. <<opening.name, opened>>[2] = handle'[r]
      BY <2>1, <3>1
    <3> QED BY <3>1, <3>2
  <2>6. CASE opening.role # r
    <3>1. r \in OpenToWrite
      BY <2>2, <2>4, <2>6 DEF OpenToWrite
    <3>2. failed \/ \E c \in claimed : c[2] = handle[r]
      BY <3>1 DEF Owned
    <3> QED BY <2>1, <3>2, AloneMoves, Accepted
  <2> QED BY <2>5, <2>6
<1> QED BY <1>4, <1>5, <1>6, <1>7 DEF Owned

LEMMA OpeningGoesOn ==
  ASSUME Alone, opening # NotOpening
  PROVE  \/ TryExclusive \/ ExclusiveFails \/ TryPlain \/ TryCreate
         \/ opening' = NotOpening
<1>1. todo # <<>> /\ \A s : ~ At(s)
  BY DEF Alone, Good, Named, At
<1>2. ~ Checking /\ ~ Temps
  BY <1>1 DEF Checking, NoteInput, NoteIndex, NoteStderr, NoteStdout, CheckNames, Stamp, Temps,
              NewTemp, Spool, CopyStdin, DeleteTemps, RemoveSpool
<1>3. ~ Ending /\ ~ Stopped
  BY <1>1 DEF Ending, Close, CheckUnchanged, DeleteInput, RemoveClaimed, Report, Stopped
<1>4. ~ Working
  BY <1>1 DEF Working, Sniff, OpenInput, OpenIndex, Dedup, Encode, Decode, Spill, CopyOut, Breaks
<1>5. CASE Opening
  BY <1>1, <1>5 DEF Opening, CreateIndex, CreateOutput, OpenFails, Refuse, Accept, TruncateFails
<1> QED BY <1>2, <1>3, <1>4, <1>5, AloneMoves DEF Alone, Next, Run

(* What is begun is as a beginning is, and what goes on keeps its name.    *)
LEMMA OpeningBegins ==
  ASSUME Alone, opening = NotOpening
  PROVE  opening' = NotOpening \/ Begins
<1>1. CASE Checking
  BY <1>1 DEF Checking, NoteInput, NoteIndex, NoteStderr, NoteStdout, NoteStdWritten, CheckNames,
              Stamp
<1>2. CASE Opening
  BY <1>2 DEF Opening, TryExclusive, ExclusiveFails, TryPlain, TryCreate, OpenFails, Refuse, Accept,
              TruncateFails, NotOpening, Begins
<1>3. CASE Temps
  BY <1>3 DEF Temps, NewTemp, Spool, CopyStdin, DeleteTemps, RemoveSpool, Begins
<1>4. CASE Working
  BY <1>4 DEF Working, Sniff, OpenInput, OpenIndex, Dedup, Encode, Decode, Spill, CopyOut, Breaks,
              Begins
<1>5. CASE Ending
  BY <1>5 DEF Ending, Close, CheckUnchanged, DeleteInput, RemoveClaimed, Report
<1>6. CASE Stopped
  BY <1>6 DEF Stopped, vars
<1> QED BY <1>1, <1>2, <1>3, <1>4, <1>5, <1>6, AloneMoves DEF Alone, Next, Run

(* The file just made belongs to nobody.                                   *)
LEMMA MadeApart ==
  ASSUME Alone, Owned, InputStays, NEW n \in Names, Made(Target(n)), n = opening.name,
         handle'[opening.role] = Led(n)', opening'.role = opening.role,
         before' = before, Own' = Own
  PROVE  /\ IsRegular(opened)' /\ opened' = Led(n)' /\ opened' # before'.id
         /\ \A p \in Own' : p[2] # opened'
<1>1. TypeOK /\ Outputs \subseteq Names
  BY AloneMoves, OutputNames
<1>2. opened' = Led(n)' /\ Led(n)' \in Ids /\ ~ InUse(Led(n)') /\ Led(n)' = dir'[Target(n)]
  BY LedStays, LinksStay DEF opened
<1>3. IsRegular(opened)'
  BY <1>2, IdsAssumption DEF Made, IsRegular
<1>4. opened' # before.id
  <2> SUFFICES ASSUME before.id = Led(n)' PROVE FALSE
    BY <1>2
  <2>1. before.id # NoFile
    BY <1>2, IdsAssumption
  <2>2. request.fi \in Names /\ Led(request.fi) = before.id
    BY <2>1 DEF InputStays
  <2>3. InUse(before.id)
    BY <1>1, <2>1, <2>2, LedInUse
  <2> QED BY <1>2, <2>3
<1>5. ASSUME NEW p \in Own PROVE p[2] # opened'
  <2>1. p[1] \in Names /\ Led(p[1]) = p[2] /\ p[2] # NoFile
    BY <1>1 DEF Owned, IsRegular
  <2>2. InUse(p[2])
    BY <1>1, <2>1, LedInUse
  <2> QED BY <1>2, <2>2
<1> QED BY <1>2, <1>3, <1>4, <1>5

LEMMA UnderwayOn ==
  ASSUME Alone, Owned, InputStays, Underway
  PROVE  Underway'
<1>1. /\ TypeOK /\ Outputs' = Outputs /\ Outputs \subseteq Names
      /\ opening \in [try: {"none", "exclusive", "plain", "create", "check"},
                      name: Names \cup {NoName}, role: Roles, existed: BOOLEAN]
      /\ handle \in [Roles -> Ids \cup {NoFile}]
  BY AloneMoves, OutputNames DEF TypeOK
<1>2. CASE opening' = NotOpening
  BY <1>2 DEF Underway
<1>3. CASE Begins
  <2>1. opening'.try = "exclusive" /\ opening'.name \in Outputs
    BY <1>3, BeginsOutput DEF Alone, Sound
  <2> QED BY <1>1, <2>1 DEF Underway
<1> PICK n : n = opening.name
  OBVIOUS
<1>4. CASE opening # NotOpening /\ (TryExclusive \/ ExclusiveFails \/ TryPlain \/ TryCreate)
  <2>1. /\ UNCHANGED <<before, claimed, spool>> /\ n \in Outputs /\ n \in Names /\ Own' = Own
        /\ opening.role \in Roles
    BY <1>1, <1>4 DEF TryExclusive, ExclusiveFails, TryPlain, TryCreate, ruleVars, dataVars, Underway,
                      Own
  <2>2. CASE ExclusiveFails
    <3>1. opening'.name = n /\ opening'.try = "create" /\ opening'.existed = TRUE
      BY <1>1, <2>2 DEF ExclusiveFails
    <3> QED BY <1>1, <2>1, <3>1 DEF Underway
  <2>3. CASE TryPlain
    <3>1. opening'.name = n /\ opening'.role = opening.role
      BY <1>1, <2>3 DEF TryPlain
    <3>2. dir' = dir /\ file' = file /\ request' = request
      BY <2>3 DEF TryPlain, worldVars
    <3>3. Led(n)' = Led(n)
      BY <3>2 DEF Led, Target
    <3>4. CASE Led(n) = NoFile
      <4>1. opening'.try = "create"
        BY <1>1, <2>3, <3>4 DEF TryPlain
      <4> QED BY <1>1, <2>1, <3>1, <3>3, <3>4, <4>1 DEF Underway
    <3>5. CASE Led(n) # NoFile
      <4>1. opening'.try = "check" /\ opening'.existed = TRUE
        BY <1>1, <2>3, <3>5 DEF TryPlain
      <4>2. handle' = [handle EXCEPT ![opening.role] = Led(n)]
        BY <2>3, <3>5 DEF TryPlain
      <4>3. opened' = Led(n)'
        BY <1>1, <2>1, <3>1, <3>3, <4>2 DEF opened
      <4> QED BY <1>1, <2>1, <3>1, <4>1, <4>3 DEF Underway
    <3> QED BY <3>4, <3>5
  <2>4. CASE TryExclusive \/ TryCreate
    <3>1. opening'.name = n /\ opening'.role = opening.role
      <4>1. CASE TryExclusive
        BY <1>1, <4>1 DEF TryExclusive
      <4>2. CASE TryCreate
        BY <1>1, <4>2 DEF TryCreate
      <4> QED BY <2>4, <4>1, <4>2
    <3>2. CASE \E t \in Names : t = Target(n) /\ dir[t] = NoFile /\ MakeFile(t)
      <4>1. PICK t \in Names : t = Target(n) /\ dir[t] = NoFile /\ MakeFile(t)
        BY <3>2
      <4>2. dir'[t] = Fresh /\ handle'[opening.role] = Fresh /\ Fresh \in Ids
        BY <1>1, <2>1, <4>1, FreshIsFree DEF MakeFile, TypeOK
      <4>3. Made(t)
        BY <2>4, <4>1, <4>2, MadeBy, IdsAssumption DEF Alone
      <4>4. handle'[opening.role] = Led(n)'
        BY <2>1, <4>1, <4>2, LinksStay
      <4>5. /\ IsRegular(opened)' /\ opened' = Led(n)' /\ opened' # before'.id
            /\ \A p \in Own' : p[2] # opened'
        BY <2>1, <3>1, <4>1, <4>3, <4>4, MadeApart
      <4>6. opening'.try = "check"
        <5>1. CASE TryExclusive
          <6>1. dir'[t] # dir[t]
            BY <4>1, <4>2, IdsAssumption
          <6> QED BY <1>1, <5>1, <6>1 DEF TryExclusive, worldVars
        <5>2. CASE TryCreate
          BY <1>1, <5>2 DEF TryCreate
        <5> QED BY <2>4, <5>1, <5>2
      <4> QED BY <1>1, <2>1, <3>1, <4>5, <4>6 DEF Underway
    <3>3. CASE TryExclusive /\ dir[n] # NoFile
      <4>1. opening'.try = "plain"
        BY <1>1, <3>3 DEF TryExclusive
      <4> QED BY <1>1, <2>1, <3>1, <4>1 DEF Underway
    <3>4. CASE TryCreate /\ Led(n) # NoFile
      <4>1. opening'.try = "check" /\ opening'.existed = opening.existed /\ opening.try = "create"
        BY <1>1, <3>4 DEF TryCreate
      <4>2. handle' = [handle EXCEPT ![opening.role] = Led(n)] /\ dir' = dir /\ file' = file
        BY <3>4 DEF TryCreate, worldVars
      <4>3. opened' = Led(n) /\ Led(n)' = Led(n)
        BY <1>1, <2>1, <3>1, <4>2 DEF opened, Led, Target
      <4>4. opening.existed
        BY <1>4, <3>4, <4>1 DEF Underway
      <4> QED BY <1>1, <2>1, <3>1, <4>1, <4>3, <4>4 DEF Underway
    <3>5. TryExclusive /\ dir[n] = NoFile => Target(n) = n /\ MakeFile(n)
      BY DEF TryExclusive, Target
    <3>6. TryCreate /\ Led(n) = NoFile => MakeFile(Target(n)) /\ dir[Target(n)] = NoFile
      BY DEF TryCreate, Led
    <3>7. Target(n) \in Names
      BY <2>1, LinksStay
    <3> QED BY <2>1, <2>4, <3>2, <3>3, <3>4, <3>5, <3>6, <3>7
  <2> QED BY <1>4, <2>2, <2>3, <2>4
<1> QED BY <1>2, <1>3, <1>4, OpeningGoesOn, OpeningBegins

(* While the checks go on nothing else does.                               *)
LEMMA ChecksOnly ==
  ASSUME Alone, Pending(CheckSteps)
  PROVE  /\ Checking /\ todo # <<>> /\ opening = NotOpening
         /\ UNCHANGED <<dir, file, handle, spool, temps, opening, claimed, request>>
<1>1. todo # <<>> /\ opening = NotOpening /\ Head(todo) \in CheckSteps
  <2>1. todo # <<>>
    BY DEF Pending
  <2>2. Head(todo) \in CheckSteps
    BY <2>1, HeadLeads DEF Alone, Good
  <2> QED BY <2>1, <2>2 DEF Alone, Rule, InTurn, Idle
<1>2. ~ Opening
  BY <1>1 DEF Opening, CreateIndex, CreateOutput, TryExclusive, ExclusiveFails, TryPlain,
              TryCreate, OpenFails, Refuse, Accept, TruncateFails, NotOpening, At, CheckSteps
<1>3. ~ Temps
  BY <1>1 DEF Temps, NewTemp, Spool, CopyStdin, DeleteTemps, RemoveSpool, At, CheckSteps
<1>4. ~ Working
  BY <1>1 DEF Working, Sniff, OpenInput, OpenIndex, Dedup, Encode, Decode, Spill, CopyOut, Breaks,
              At, CheckSteps
<1>5. ~ Ending /\ ~ Stopped
  BY <1>1 DEF Ending, Close, CheckUnchanged, DeleteInput, RemoveClaimed, Report, Stopped, At,
              CheckSteps
<1>6. Checking
  BY <1>2, <1>3, <1>4, <1>5, AloneMoves DEF Alone, Next, Run
<1>7. UNCHANGED <<dir, file, handle, spool, temps, opening, claimed, request>>
  BY <1>6 DEF Checking, NoteInput, NoteIndex, NoteStderr, NoteStdout, NoteStdWritten, CheckNames,
              Stamp, worldVars, dataVars, ruleVars
<1> QED BY <1>1, <1>6, <1>7

(* No note is still to come when the names are compared or the input is    *)
(* looked at.                                                              *)
LEMMA NotesPast ==
  ASSUME Alone, todo # <<>>, Head(todo) \in {"checkNames", "stamp"}, NEW step \in NoteSteps
  PROVE  ~ Pending({step})
<1> SUFFICES ASSUME Pending({step}) PROVE FALSE
  OBVIOUS
<1>1. \/ Head(todo) \in {step}
      \/ \E i \in DOMAIN Tail(todo) : Tail(todo)[i] \in {step}
  BY AloneMoves, PendingNow
<1>2. Head(todo) \notin NoteSteps /\ \A i \in DOMAIN Tail(todo) : Tail(todo)[i] \notin NoteSteps
  BY AloneMoves, HeadPlaced DEF Alone, Sound
<1> QED BY <1>1, <1>2

(* After an error there is no check to come.                               *)
LEMMA FailedPast ==
  ASSUME Alone, Fail
  PROVE  failed' /\ ~ Pending(CheckSteps)'
<1>1. Undo \in Seq(UndoSteps)
  <2>1. request \in Request
    BY AloneMoves, RequestFields DEF TypeOK
  <2> QED BY <2>1, UndoOrdered
<1>2. \A i \in DOMAIN Undo : Undo[i] \in UndoSteps
  BY <1>1, SeqOf
<1> QED BY <1>2 DEF Fail, Pending, CheckSteps, UndoSteps

(* A check to come comes, or is the step just done.                        *)
LEMMA CheckToCome ==
  ASSUME Alone, NEW step \in CheckSteps, Pending({step})
  PROVE  \/ Pending({step})'
         \/ Fail
         \/ Done /\ todo # <<>> /\ Head(todo) = step
  BY AloneMoves, PendingStays DEF Moves, Pending

LEMMA InputNoted ==
  ASSUME Alone, InputStays, Pending(CheckSteps)', request.fi # Std
  PROVE  \/ Pending({"noteInput"})' \/ ~ IsRegular(Led(request.fi))' \/ Led(request.fi)' \in reads'
<1>1. Pending(CheckSteps)
  BY ChecksPast
<1>2. Checking /\ UNCHANGED <<dir, file, request>> /\ reads \subseteq reads'
  BY <1>1, ChecksOnly, AloneMoves
<1>3. Led(request.fi)' = Led(request.fi) /\ (IsRegular(Led(request.fi))' <=> IsRegular(Led(request.fi)))
  BY <1>2 DEF Led, Target, IsRegular
<1>4. CASE Pending({"noteInput"}) /\ IsRegular(Led(request.fi))
  <2>1. ~ Fail
    BY FailedPast
  <2>2. CASE Done /\ todo # <<>> /\ Head(todo) = "noteInput"
    <3>1. NoteInput
      BY <1>2, <2>2 DEF Checking, NoteIndex, NoteStderr, NoteStdout, CheckNames, Stamp, At
    <3>2. reads' = reads \cup {Led(request.fi)}
      BY <1>4, <3>1 DEF NoteInput, IdOfPathRegular
    <3> QED BY <1>3, <3>2
  <2> QED BY <1>4, <2>1, <2>2, CheckToCome DEF CheckSteps
<1> QED BY <1>1, <1>2, <1>3, <1>4 DEF InputStays

LEMMA InputSame ==
  ASSUME Alone, Owned, InputStays, Underway, before' = before, before.id # NoFile
  PROVE  /\ request'.fi \in Names /\ Led(request.fi)' = before.id
         /\ before.id \in reads' /\ IsRegular(before.id)' /\ Clean(before.id)'
<1> PICK k : k = before.id
  OBVIOUS
<1>1. /\ request.fi \in Names /\ Led(request.fi) = k /\ k \in reads /\ IsRegular(k) /\ Clean(k)
      /\ k # NoFile
  BY DEF InputStays
<1>2. TypeOK /\ request' = request /\ reads \subseteq reads'
  BY AloneMoves
<1>3. k \in Ids /\ InUse(k)
  BY <1>1, <1>2, LedInUse
<1>4. IsRegular(k)'
  BY <1>1, <1>3, RegularInUse
<1>5. Led(request.fi) = dir[Target(request.fi)] /\ Target(request.fi) \in Names
  BY <1>1, LinksStay
<1>6. Led(request.fi)' = k
  <2>1. ~ Made(Target(request.fi))
    BY <1>1, LedStays
  <2>2. ~ Gone(Target(request.fi))
    <3>1. ~ (Refuse /\ ~ opening.existed /\ k = opened)
      BY DEF Refuse, NotOpening, Underway
    <3>2. \A p \in Own : p[2] # k
      BY DEF Owned
    <3>3. spool.named => spool.id # k
      <4>1. spool.named => <<spool.name, spool.id>> \in Own
        BY DEF Own
      <4> QED BY <3>2, <4>1
    <3>4. \A c \in claimed : c[2] # k
      BY <3>2 DEF Own
    <3>5. <<Target(request.fi), k>> \notin claimed
      BY <3>4
    <3> QED BY <1>1, <1>5, <3>1, <3>3, <3>5 DEF Gone
  <2> QED BY <1>1, <1>2, <2>1, <2>2, LedStays
<1>7. Clean(k)'
  <2>1. CASE file'[k].text \subseteq file[k].text \cup {"messages"}
    BY <1>1, <2>1 DEF Clean
  <2>2. ~ (Accept /\ k = opened)
    BY <1>1 DEF Accept, Taken
  <2>3. ~ (WritesData /\ file'[k] # file[k])
    <3>1. k \in reads \ temps
      BY <1>1, <1>5 DEF Alone, Rule, Outside
    <3> QED BY <3>1, WorkSparesInputs DEF WritesData, Alone
  <2> QED BY <1>3, <2>1, <2>2, <2>3, Texts
<1> QED BY <1>1, <1>2, <1>4, <1>6, <1>7

LEMMA InputStaysOn ==
  ASSUME Alone, Traced
  PROVE  InputStays'
<1>1. request' = request /\ TypeOK /\ TodoOK
  BY AloneMoves
<1>2. CASE before' = before
  BY <1>1, <1>2, InputNoted, InputSame DEF InputStays, Traced
<1>3. CASE Stamp
  <2>1. todo # <<>> /\ Head(todo) = "stamp"
    BY <1>3 DEF Stamp, At
  <2>2. Pending(CheckSteps) /\ ~ Pending({"noteInput"})
    BY <1>1, <2>1, HeadLeads, NotesPast DEF CheckSteps, NoteSteps
  <2>3. request.fi \in Names /\ request.fi # Std
    <3>1. request.fi # Std
      BY <1>1, <2>1, StepAllowed DEF Allowed
    <3> QED BY <1>1, <3>1, RequestFields DEF TypeOK
  <2>4. UNCHANGED <<dir, file>> /\ reads \subseteq reads' /\ before'.id = IdOfPathRegular(request.fi)
    BY <1>3, <2>2, ChecksOnly, AloneMoves DEF Stamp, StampInput
  <2>5. before'.id # NoFile => before'.id = Led(request.fi) /\ IsRegular(Led(request.fi))
    BY <2>4 DEF IdOfPathRegular
  <2>6. ASSUME before'.id # NoFile
        PROVE  /\ request'.fi \in Names /\ Led(request.fi)' = before'.id
               /\ before'.id \in reads' /\ IsRegular(before.id)' /\ Clean(before.id)'
    <3>1. Led(request.fi) \in reads
      BY <2>2, <2>3, <2>5, <2>6 DEF Traced, InputStays
    <3>2. Clean(Led(request.fi))
      <4>1. AllClean
        BY <2>2 DEF Traced, Compared
      <4>2. Led(request.fi) = dir[Target(request.fi)] /\ Target(request.fi) \in Names
        BY <2>3, LinksStay
      <4> QED BY <2>5, <2>6, <4>1, <4>2 DEF AllClean
    <3>3. Led(request.fi)' = Led(request.fi)
      BY <1>1, <2>4 DEF Led, Target
    <3>4. IsRegular(before.id)' /\ Clean(before.id)'
      BY <2>4, <2>5, <2>6, <3>2 DEF IsRegular, Clean
    <3> QED BY <1>1, <2>3, <2>4, <2>5, <2>6, <3>1, <3>3, <3>4
  <2> QED BY <1>1, <2>6, InputNoted DEF InputStays, Traced
<1> QED BY <1>1, <1>2, <1>3, StepTakes DEF Alone, Good

LEMMA CleanOn ==
  ASSUME Alone, AllClean, ~ Accept, ~ WritesData
  PROVE  AllClean'
<1> SUFFICES ASSUME NEW n \in Names, dir'[n] # NoFile PROVE Clean(dir[n])'
  BY DEF AllClean
<1>1. CASE dir'[n] = dir[n]
  <2>1. dir[n] \in Ids /\ InUse(dir[n])
    <3>1. dir[n] \in Ids \cup {NoFile}
      BY AloneMoves DEF TypeOK
    <3> QED BY <1>1, <3>1 DEF InUse
  <2>2. file'[dir[n]].text \subseteq file[dir[n]].text \cup {"messages"}
    BY <2>1, Texts
  <2>3. file[dir[n]].text \subseteq {"user", "messages"}
    BY <1>1 DEF AllClean, Clean
  <2> QED BY <1>1, <2>2, <2>3 DEF Clean
<1>2. CASE Made(n)
  BY <1>2 DEF Made, Clean
<1>3. ~ Gone(n)
  BY DEF Gone
<1> QED BY <1>1, <1>2, <1>3, NamesStay

(* Files made in one step are made in one place.                           *)
LEMMA ApartOn ==
  ASSUME Alone, Apart
  PROVE  Apart'
<1>1. TypeOK /\ Outputs' = Outputs /\ Outputs \subseteq Names
  BY AloneMoves, OutputNames
<1> SUFFICES ASSUME NEW m \in Outputs, NEW n \in Outputs, IsRegular(Led(n))', Led(m)' = Led(n)'
             PROVE  Target(m)' = Target(n)'
  BY <1>1 DEF Apart
<1>2. m \in Names /\ n \in Names /\ Led(n)' # NoFile
  BY <1>1 DEF IsRegular
<1>3. Target(m)' = Target(m) /\ Target(n)' = Target(n)
  BY <1>2, LinksStay
<1>4. ~ Gone(Target(m)) /\ ~ Gone(Target(n))
  BY <1>2, LedStays
<1>5. ASSUME NEW x \in Names, NEW y \in Names, Made(Target(x)), Led(y)' = Led(y), Led(x)' = Led(y)'
      PROVE  FALSE
  <2>1. Led(x)' \in Ids /\ ~ InUse(Led(x)')
    BY <1>5, LedStays
  <2>2. Led(y) # NoFile
    BY <1>5, <2>1, IdsAssumption
  <2> QED BY <1>1, <1>5, <2>1, <2>2, LedInUse
<1>6. CASE Led(m)' = Led(m) /\ Led(n)' = Led(n)
  <2>1. Led(n) \in Ids /\ InUse(Led(n))
    BY <1>1, <1>2, <1>6, LedInUse
  <2>2. IsRegular(Led(n))
    <3>1. IsRegular(Led(n))' <=> file'[Led(n)'].kind = "regular" /\ Led(n)' # NoFile
      BY DEF IsRegular
    <3>2. file'[Led(n)].kind = file[Led(n)].kind
      BY <2>1, OthersStay DEF Alone
    <3> QED BY <1>6, <3>1, <3>2 DEF IsRegular
  <2> QED BY <1>3, <1>6, <2>2 DEF Apart
<1>7. CASE Made(Target(m)) /\ Made(Target(n))
  BY <1>2, <1>3, <1>7, LedStays
<1> QED BY <1>2, <1>4, <1>5, <1>6, <1>7, LedStays

(* Names that pass the comparison lead to files of their own, and to none  *)
(* that is noted.                                                          *)
LEMMA NamesCompared ==
  ASSUME Alone, CheckNames, ~ failed'
  PROVE  /\ Apart
         /\ \A n \in Outputs : IsRegular(Led(n)) => ~ Taken(Led(n))
<1> DEFINE outs == Outs(request)
           id(k) == IdOfPathRegular(outs[k])
<1>1. \A k \in DOMAIN outs :
        id(k) # NoFile => ~ Taken(id(k)) /\ \A j \in 1 .. k - 1 : id(j) # id(k)
  BY DEF CheckNames, Fail
<1>2. \A k \in DOMAIN outs : /\ k \in Nat /\ k > 0
                             /\ IsRegular(Led(outs[k])) => id(k) = Led(outs[k]) /\ id(k) # NoFile
  <2>1. outs \in Seq(Names)
    BY AloneMoves, OutputNames
  <2> HIDE DEF outs
  <2> QED BY <2>1 DEF IdOfPathRegular, IsRegular
<1> HIDE DEF outs, id
<1>3. ASSUME NEW i \in DOMAIN outs, NEW j \in DOMAIN outs,
             IsRegular(Led(outs[i])), Led(outs[j]) = Led(outs[i])
      PROVE  i = j
  <2>1. id(i) = id(j) /\ id(i) # NoFile /\ i \in Nat /\ j \in Nat /\ i > 0 /\ j > 0
    BY <1>2, <1>3
  <2>2. ~ i < j
    <3>1. i < j => i \in 1 .. j - 1
      BY <2>1
    <3> QED BY <1>1, <2>1, <3>1
  <2>3. ~ j < i
    <3>1. j < i => j \in 1 .. i - 1
      BY <2>1
    <3> QED BY <1>1, <2>1, <3>1
  <2> QED BY <2>1, <2>2, <2>3
<1>4. Outputs = {outs[k] : k \in DOMAIN outs}
  BY DEF Outputs, outs
<1>5. Apart
  BY <1>3, <1>4 DEF Apart
<1>6. \A n \in Outputs : IsRegular(Led(n)) => ~ Taken(Led(n))
  BY <1>1, <1>2, <1>4
<1> QED BY <1>5, <1>6

(* While the comparison is to come nothing changes; then it fails or is    *)
(* done.                                                                   *)
LEMMA CheckingNames ==
  ASSUME Alone, Pending({"checkNames"})
  PROVE  /\ Pending(CheckSteps) /\ UNCHANGED <<dir, file, request>>
         /\ Pending({"checkNames"})' \/ failed' \/ CheckNames
<1>1. Pending(CheckSteps)
  BY DEF Pending, CheckSteps
<1>2. Checking /\ UNCHANGED <<dir, file, request>>
  BY <1>1, ChecksOnly
<1>3. Head(todo) = "checkNames" => CheckNames
  BY <1>2 DEF Checking, NoteInput, NoteIndex, NoteStderr, NoteStdout, Stamp, At
<1> QED BY <1>1, <1>2, <1>3, CheckToCome, FailedPast DEF CheckSteps

LEMMA OutputsApart ==
  ASSUME Alone, Compared
  PROVE  Apart' \/ (AllClean' /\ (failed' \/ Pending({"checkNames"})'))
<1>1. CASE Apart
  BY <1>1, ApartOn
<1>2. CASE AllClean /\ failed
  <2>1. failed'
    BY <1>2, AloneMoves
  <2>2. ~ Accept /\ ~ WritesData
    <3>1. todo # <<>> => Head(todo) \in UndoSteps
      BY <1>2, HeadLeads DEF Alone, Good
    <3>2. opening = NotOpening
      BY <3>1 DEF Alone, Good, Named, Opens, Spools, UndoSteps
    <3> QED BY <3>1, <3>2 DEF Accept, NotOpening, WritesData, CopyStdin, Encode, Decode, CopyOut,
                              At, UndoSteps
  <2> QED BY <1>2, <2>1, <2>2, CleanOn
<1>3. CASE AllClean /\ Pending({"checkNames"})
  <2>1. AllClean'
    BY <1>3, CheckingNames DEF AllClean, Clean
  <2>2. CASE CheckNames /\ ~ failed'
    BY <2>2, NamesCompared, ApartOn
  <2> QED BY <1>3, <2>1, <2>2, CheckingNames
<1> QED BY <1>1, <1>2, <1>3 DEF Compared

LEMMA StdoutApart ==
  ASSUME Alone, Compared, request.fo = Std, IsRegular(request.stdout)'
  PROVE  failed' \/ Pending({"checkNames"})' \/ \A n \in Outputs : Led(n)' # request.stdout
<1> PICK k : k = request.stdout
  OBVIOUS
<1> SUFFICES ASSUME ~ failed', ~ Pending({"checkNames"})', NEW n \in Outputs
             PROVE  Led(n)' # k
  OBVIOUS
<1>1. /\ TypeOK /\ request' = request /\ n \in Names /\ ~ failed
  BY AloneMoves, OutputNames
<1>2. k \in Ids /\ InUse(k)
  <2>1. k \in Ids \cup {NoFile}
    BY <1>1, RequestFields DEF TypeOK
  <2> QED BY <1>1, <2>1 DEF IsRegular, InUse
<1>3. IsRegular(k)
  <2>1. IsRegular(k)'
    BY <1>1 DEF IsRegular
  <2> QED BY <1>2, <2>1, RegularInUse
<1>4. Led(n) # k
  <2>1. CASE Pending({"checkNames"})
    <3>1. CheckNames
      BY <2>1, CheckingNames
    <3>2. k \in writes
      <4>1. ~ Pending({"noteStdout"})
        BY <3>1, NotesPast DEF CheckNames, At, NoteSteps
      <4> QED BY <1>1, <1>3, <4>1 DEF Alone, Rule, StreamsNoted, Noted
    <3> QED BY <1>3, <3>1, <3>2, NamesCompared DEF Taken
  <2>2. CASE ~ Pending({"checkNames"})
    BY <1>1, <1>3, <2>2 DEF Compared
  <2> QED BY <2>1, <2>2
<1>5. k # NoFile
  BY <1>3 DEF IsRegular
<1> QED BY <1>1, <1>2, <1>4, <1>5, LedStays

LEMMA ComparedOn ==
  ASSUME Alone, Compared
  PROVE  Compared'
<1>1. request' = request /\ Outputs' = Outputs
  BY AloneMoves
<1>2. Pending(CheckSteps)' => AllClean'
  BY ChecksPast, ChecksOnly DEF Compared, AllClean, Clean
<1>3. request.fo = Std /\ IsRegular(request.stdout)' =>
        failed' \/ Pending({"checkNames"})' \/ \A n \in Outputs : Led(n)' # request.stdout
  BY StdoutApart
<1> QED BY <1>1, <1>2, <1>3, OutputsApart DEF Compared

(* What a step gives up is gone from where it was, or another name led     *)
(* there.                                                                  *)
LEMMA GivenUp ==
  ASSUME Alone, Owned, Apart, ~ Accept, NEW n \in Outputs, NEW p \in Own, p \notin Own',
         IsRegular(dir[n]), dir'[n] = dir[n], p[2] = dir[n]
  PROVE  LinkedTo(n)
<1>1. n \in Names /\ p[1] \in Names /\ p[1] \in Outputs /\ TypeOK
  BY AloneMoves, OutputNames DEF Owned
<1>2. Target(n) = n /\ Led(n) = dir[n]
  BY DEF IsRegular, Led, Target
<1>3. Led(p[1]) = p[2] /\ Target(p[1]) = n
  BY <1>1, <1>2 DEF Owned, Apart
<1>4. p[1] # n
  <2> SUFFICES ASSUME p[1] = n PROVE FALSE
    OBVIOUS
  <2>1. dir[n] # NoFile /\ IdOfName(n) = dir[n]
    BY DEF IsRegular, IdOfName
  <2>2. CASE RemoveClaimed /\ p \in claimed
    <3>1. p = <<n, dir[n]>>
      BY <2>2 DEF Alone, Good, TypeOK
    <3>2. dir'[n] = NoFile
      BY <1>1, <2>1, <2>2, <3>1 DEF RemoveClaimed, Without
    <3> QED BY <2>1, <3>2
  <2>3. CASE RemoveSpool /\ spool.named /\ p = <<spool.name, spool.id>>
    <3>1. p = <<n, dir[n]>>
      BY <2>3
    <3>2. dir'[n] = NoFile
      BY <1>1, <2>1, <2>3, <3>1 DEF RemoveSpool, Without
    <3> QED BY <2>1, <3>2
  <2> QED BY <2>2, <2>3, OwnFewer
<1>5. dir[p[1]] # NoFile /\ file[dir[p[1]]].kind = "link" /\ file[dir[p[1]]].to = n
  BY <1>3, <1>4 DEF Target
<1> QED BY <1>1, <1>5 DEF LinkedTo

(* What a step writes to the run will remove if it fails, or it has none   *)
(* of the names to be written.                                             *)
LEMMA WrittenOwned ==
  ASSUME Alone, Traced, WritesData, NEW n \in Outputs, IsRegular(dir[n]),
         \/ dir[n] \in {handle["output"], handle["index"], handle["scratch"]}
         \/ dir[n] = request.stdout /\ request.fo = Std
  PROVE  \E p \in Own' : p[2] = dir[n]
<1>1. n \in Names /\ TypeOK
  BY AloneMoves, OutputNames
<1>2. todo # <<>> /\ Head(todo) \notin CheckSteps /\ Head(todo) \notin UndoSteps
      /\ opening = NotOpening
  BY DEF WritesData, CopyStdin, Encode, Decode, CopyOut, At, CheckSteps, UndoSteps
<1>3. ~ failed /\ ~ Pending(CheckSteps)
  BY <1>2, HeadLeads DEF Alone, Good
<1>4. Own \subseteq Own'
  <2>1. ~ Accept /\ ~ RemoveClaimed /\ ~ RemoveSpool
    BY <1>2 DEF Accept, RemoveClaimed, RemoveSpool, NotOpening, At, UndoSteps
  <2> QED BY <2>1, OwnFewer
<1>5. opening.try # "check"
  BY <1>2 DEF NotOpening
<1>6. CASE \E r \in {"output", "index"} : dir[n] = handle[r]
  <2>1. PICK r \in {"output", "index"} : dir[n] = handle[r]
    BY <1>6
  <2>2. r \in OpenToWrite
    BY <1>5, <2>1 DEF OpenToWrite, Writers
  <2>3. \E c \in claimed : c[2] = dir[n]
    BY <1>3, <2>1, <2>2 DEF Traced, Owned
  <2> QED BY <1>4, <2>3 DEF Own
<1>7. CASE dir[n] = handle["scratch"]
  <2>1. "scratch" \in OpenToWrite
    BY <1>5, <1>7 DEF OpenToWrite, Writers
  <2>2. dir[n] \notin temps
    BY <1>1 DEF Alone, Rule, Outside
  <2>3. spool.named /\ spool.id = dir[n]
    BY <1>7, <2>1, <2>2 DEF Alone, Rule, Kept
  <2>4. <<spool.name, spool.id>> \in Own
    BY <2>3 DEF Own
  <2>5. <<spool.name, spool.id>>[2] = dir[n]
    BY <2>3
  <2> QED BY <1>4, <2>4, <2>5
<1>8. ~ (dir[n] = request.stdout /\ request.fo = Std)
  <2> SUFFICES ASSUME dir[n] = request.stdout, request.fo = Std PROVE FALSE
    OBVIOUS
  <2>1. Led(n) = dir[n]
    BY DEF IsRegular, Led, Target
  <2>2. ~ Pending({"checkNames"})
    BY <1>3 DEF Pending, CheckSteps
  <2> QED BY <1>3, <2>1, <2>2 DEF Traced, Compared
<1> QED BY <1>6, <1>7, <1>8

LEMMA MarkedOn ==
  ASSUME Alone, Traced
  PROVE  Marked'
<1>1. TypeOK /\ Outputs' = Outputs /\ Outputs \subseteq Names
  BY AloneMoves, OutputNames
<1> SUFFICES ASSUME NEW n \in Outputs, IsRegular(dir[n])', ~ Clean(dir[n])'
             PROVE  LinkedTo(n)' \/ \E p \in Own' : p[2] = dir'[n]
  BY <1>1 DEF Marked
<1>2. n \in Names
  BY <1>1
<1>3. ~ Made(n) /\ ~ Gone(n)
  BY DEF Made, Gone, Clean, IsRegular
<1>4. dir'[n] = dir[n]
  BY <1>2, <1>3, NamesStay
<1> PICK k : k = dir[n]
  OBVIOUS
<1>5. k \in Ids /\ InUse(k)
  <2>1. dir[n] \in Ids \cup {NoFile} /\ dir'[n] # NoFile
    BY <1>1, <1>2 DEF TypeOK, IsRegular
  <2> QED BY <1>2, <1>4, <2>1 DEF InUse
<1>6. IsRegular(k)
  <2>1. IsRegular(k)'
    BY <1>4 DEF IsRegular
  <2> QED BY <1>5, <2>1, RegularInUse
<1>7. ~ (file'[k].text \subseteq {"user", "messages"})
  BY <1>4 DEF Clean
<1>8. CASE Accept /\ k = opened
  <2>1. <<opening.name, opened>> \in Own'
    BY <1>6, <1>8, Accepted DEF Traced
  <2>2. <<opening.name, opened>>[2] = dir'[n]
    BY <1>4, <1>8
  <2> QED BY <2>1, <2>2
<1>9. CASE file'[k].text \subseteq file[k].text \cup {"messages"}
  <2>1. ~ Clean(dir[n])
    BY <1>7, <1>9 DEF Clean
  <2>2. CASE LinkedTo(n)
    BY <1>2, <2>2, LinksStay
  <2>3. CASE \E p \in Own : p[2] = dir[n]
    <3>1. PICK p \in Own : p[2] = dir[n]
      BY <2>3
    <3>2. CASE p \in Own'
      BY <1>4, <3>1, <3>2
    <3>3. CASE p \notin Own'
      <4>1. ~ Accept
        BY <3>3, Accepted DEF Traced
      <4>2. Apart
        <5>1. ~ AllClean
          BY <1>2, <1>6, <2>1 DEF AllClean, IsRegular
        <5> QED BY <5>1 DEF Traced, Compared
      <4>3. LinkedTo(n)
        BY <1>4, <1>6, <3>1, <3>3, <4>1, <4>2, GivenUp DEF Traced
      <4> QED BY <1>2, <4>3, LinksStay
    <3> QED BY <3>2, <3>3
  <2> QED BY <1>6, <2>1, <2>2, <2>3 DEF Traced, Marked
<1>10. CASE /\ WritesData
            /\ \/ k \in {handle["output"], handle["index"], handle["scratch"]}
               \/ k = request.stdout /\ request.fo = Std
  BY <1>4, <1>6, <1>10, WrittenOwned
<1> QED BY <1>5, <1>8, <1>9, <1>10, Texts

LEMMA TracedOn ==
  ASSUME Alone, Traced
  PROVE  Traced'
<1>1. Owned /\ Underway /\ InputStays /\ Compared
  BY DEF Traced
<1>2. Owned'
  BY <1>1, OwnedOn, AcceptOwned
<1>3. Underway' /\ InputStays' /\ Compared' /\ Marked'
  BY <1>1, UnderwayOn, InputStaysOn, ComparedOn, MarkedOn
<1> QED BY <1>2, <1>3 DEF Traced

-----------------------------------------------------------------------------
(* From the start on.                                                      *)

LEMMA SoundStarts ==
  ASSUME Init
  PROVE  Sound
<1>1. /\ request \in Requests /\ todo = Script(request)
      /\ ~ failed /\ ~ spool.named /\ opening.role = "input"
  BY DEF Init, NotOpening
<1>2. Planned
  BY <1>1, ScriptInPlace DEF Planned
<1> QED BY <1>1, <1>2 DEF Sound, Undone, SpoolOnce

LEMMA SoundOn ==
  ASSUME Good, Sound, Next
  PROVE  Sound'
<1>1. TodoOK /\ Named /\ Moves
  BY NextMoves DEF Good
<1> QED BY <1>1, PlannedOn, UndoneOn, SpoolOnceOn DEF Sound

(* The files found at the start have the user's bytes only.                *)
Unwritten == \A w \in Worlds : \A i \in Ids : w.file[i].text \subseteq {"user"}

LEMMA TracedStarts ==
  ASSUME Unwritten, Init
  PROVE  Traced
<1>1. TypeOK /\ OpenToWrite = {}
  BY TypesStart DEF Init, OpenToWrite, IsRegular, Writers, Roles
<1>2. /\ request \in Requests /\ todo = Script(request) /\ opening = NotOpening
      /\ claimed = {} /\ ~ spool.named /\ before.id = NoFile
  BY DEF Init
<1>3. Own = {}
  BY <1>2 DEF Own
<1>4. Pending({"checkNames"}) /\ Pending({"noteInput"})
  BY <1>2, ScriptInPlace DEF Has, Pending
<1>5. AllClean
  <2>1. \A i \in Ids : file[i].text \subseteq {"user"}
    BY DEF Init, Unwritten
  <2>2. \A n \in Names : dir[n] \in Ids \cup {NoFile}
    BY <1>1 DEF TypeOK
  <2> QED BY <2>1, <2>2 DEF AllClean, Clean
<1>6. Owned
  BY <1>1, <1>2, <1>3 DEF Owned
<1>7. Underway /\ InputStays
  BY <1>2, <1>4 DEF Underway, InputStays
<1>8. Compared
  BY <1>4, <1>5 DEF Compared
<1>9. Marked
  BY <1>1, <1>5, OutputNames DEF Marked, AllClean, IsRegular
<1> QED BY <1>6, <1>7, <1>8, <1>9 DEF Traced

LEMMA MeddlingCounts ==
  ASSUME Good, Next, Quiet'
  PROVE  Quiet /\ meddled' = meddled
<1>1. TypeOK /\ meddled \in Nat
  BY DEF Good, TypeOK
<1>2. ~ Other
  <2>1. meddled + 1 # 0
    BY <1>1
  <2> QED BY <1>1, <2>1, OtherFiles DEF Quiet
<1>3. meddled' = meddled
  <2>1. CASE Checking
    BY <2>1 DEF Checking, NoteInput, NoteIndex, NoteStderr, NoteStdout, NoteStdWritten, CheckNames,
                Stamp
  <2>2. CASE Opening
    BY <2>2 DEF Opening, CreateIndex, CreateOutput, StartOpen, TryExclusive, ExclusiveFails,
                TryPlain, TryCreate, OpenFails, Refuse, Accept, TruncateFails
  <2>3. CASE Temps
    BY <2>3 DEF Temps, NewTemp, Spool, StartOpen, CopyStdin, DeleteTemps, RemoveSpool
  <2>4. CASE Working
    BY <2>4 DEF Working, Sniff, OpenInput, OpenIndex, Dedup, Encode, Decode, Spill, StartOpen,
                CopyOut, Breaks
  <2>5. CASE Ending
    BY <2>5 DEF Ending, Close, CheckUnchanged, DeleteInput, RemoveClaimed, Report
  <2>6. CASE Stopped
    BY <2>6 DEF Stopped, vars
  <2> QED BY <1>2, <2>1, <2>2, <2>3, <2>4, <2>5, <2>6 DEF Next, Run
<1> QED BY <1>3 DEF Quiet

Tracked == Good /\ Rule /\ Sound /\ (Quiet /\ Live => Traced)

LEMMA TrackedOn ==
  ASSUME Tracked, [Next]_vars
  PROVE  Tracked'
<1>1. CASE Next
  <2>1. Good' /\ Rule' /\ Sound'
    BY <1>1, TypesKept, RuleKept, SoundOn DEF Tracked, Good
  <2>2. ASSUME Quiet', Live' PROVE Traced'
    <3>1. Quiet /\ meddled' = meddled
      BY <1>1, <2>2, MeddlingCounts DEF Tracked
    <3>2. Live /\ ~ DeleteInput
      BY <1>1, <2>2, Lives DEF Tracked, Sound
    <3> QED BY <1>1, <3>1, <3>2, TracedOn DEF Tracked, Alone
  <2> QED BY <2>1, <2>2 DEF Tracked
<1>2. CASE UNCHANGED vars
  <2>1. Good' /\ Rule'
    BY <1>2 DEF Tracked, vars, worldVars, ruleVars, dataVars, Good, TypeOK, TodoOK, Named, Rule,
                InTurn, Held, Outside, Kept, StreamsNoted, Noted, OneWriter, Idle, Pending,
                OpenToWrite, IsRegular, opened
  <2>2. Sound' /\ (Quiet' <=> Quiet) /\ (Live' <=> Live)
    BY <1>2 DEF Tracked, vars, worldVars, ruleVars, dataVars, Sound, Planned, Undone, SpoolOnce,
                Pending, Quiet, Live
  <2>3. /\ Owned' <=> Owned
        /\ Underway' <=> Underway
    BY <1>2 DEF vars, worldVars, ruleVars, dataVars, Owned, Underway, Own, Outputs, OpenToWrite,
                IsRegular, Led, Target, opened, Pending
  <2>4. /\ InputStays' <=> InputStays
        /\ Compared' <=> Compared
        /\ Marked' <=> Marked
    BY <1>2 DEF vars, worldVars, ruleVars, dataVars, InputStays, Compared, Marked, AllClean, Clean,
                Apart, Own, Outputs, LinkedTo, IsRegular, Led, Target, Pending
  <2> QED BY <2>1, <2>2, <2>3, <2>4 DEF Tracked, Traced
<1> QED BY <1>1, <1>2

(* A run that fails, with nobody else about, leaves no part of an output   *)
(* under a name it was to write, unless the file has another name; the     *)
(* input is where it was and as it was; and no temporary is left.  So it   *)
(* is for any options and any directory, wherever the error comes: what is *)
(* claimed on opening is enough for the end of `run` to remove.            *)
THEOREM FailureLeavesNothing ==
  ASSUME Unwritten
  PROVE  Spec => []FailureCleans
<1>1. Init => Tracked
  BY TypesStart, RuleStarts, SoundStarts, TracedStarts DEF Tracked, Good
<1>2. Tracked /\ [Next]_vars => Tracked'
  BY TrackedOn
<1>3. Tracked => FailureCleans
  <2> SUFFICES ASSUME Tracked, todo = <<>>, failed, Quiet
               PROVE  /\ \A n \in Outputs :
                           IsRegular(dir[n]) /\ (\A m \in Names \ {n} : Led(m) # dir[n]) => Clean(dir[n])
                      /\ before.id # NoFile => Led(request.fi) = before.id /\ Clean(before.id)
                      /\ temps = {}
    BY DEF FailureCleans, Failure, Outputs, Clean
  <2>1. Traced
    BY DEF Tracked, Live
  <2>2. claimed = {} /\ ~ spool.named /\ temps = {}
    BY DEF Tracked, Sound, Undone, Pending
  <2>3. ASSUME NEW n \in Outputs, IsRegular(dir[n]), \A m \in Names \ {n} : Led(m) # dir[n]
        PROVE  Clean(dir[n])
    <3>1. Own = {}
      BY <2>2 DEF Own
    <3>2. ~ LinkedTo(n)
      <4> SUFFICES ASSUME NEW m \in Names, dir[m] # NoFile, file[dir[m]].kind = "link",
                          file[dir[m]].to = n
                   PROVE  FALSE
        BY DEF LinkedTo
      <4>1. m # n
        BY <2>3 DEF IsRegular
      <4>2. Led(m) = dir[n]
        BY DEF Led, Target
      <4> QED BY <2>3, <4>1, <4>2
    <3> QED BY <2>1, <2>3, <3>1, <3>2 DEF Traced, Marked
  <2> QED BY <2>1, <2>2, <2>3 DEF Traced, InputStays
<1> QED BY <1>1, <1>2, <1>3, PTL DEF Spec

-----------------------------------------------------------------------------
(* A run that ends well has written its outputs and nothing else.          *)

-----------------------------------------------------------------------------
(* What a list of steps still promises.                                    *)

(* After x there is a y, before anything is closed.                        *)
ServedFrom(y, s, from) ==
  \E j \in DOMAIN s : /\ j >= from /\ s[j] = y
                      /\ \A k \in DOMAIN s : s[k] = "close" => j < k

Served(x, y, s) == \A i \in DOMAIN s : s[i] = x => ServedFrom(y, s, i + 1)

(* After every one of X there is a y.                                      *)
Followed(X, y, s) ==
  \A i \in DOMAIN s : s[i] \in X => \E j \in DOMAIN s : i < j /\ s[j] = y

(* The step that writes the output.                                        *)
WriteStep(q) ==
  IF q.mode = "compress" THEN "encode" ELSE IF q.dup THEN "copyOut" ELSE "decode"

TempMakers == {"newTemp", "spool", "dedup", "decodeRest"}

Promises(q, s) ==
  /\ Served("createOutput", WriteStep(q), s)
  /\ Served("createIndex", "encode", s)
  /\ Followed(Spools, "removeSpool", s)
  /\ Followed(TempMakers, "deleteTemps", s)

-----------------------------------------------------------------------------
(* What holds while no error was met.                                      *)

(* A scratch file that has a name was asked for under it.                  *)
Spooling == request.scratch # NoName /\ (request.mode = "compress" => request.fi = Std)

(* What is made is going to be removed.                                    *)
Left ==
  /\ spool.named => Pending({"removeSpool"}) /\ spool.name = request.scratch /\ Spooling
  /\ temps # {} => Pending({"deleteTemps"})

(* A file is opened for the step that asks for it, under the name it asks  *)
(* for; and one that is open is where its name leads.                      *)
Beginning ==
  opening # NotOpening =>
    /\ Head(todo) = "createOutput" => opening.role = "output" /\ opening.name = request.fo
    /\ Head(todo) = "createIndex" => opening.role = "index" /\ opening.name = request.index
    /\ opening.role = "scratch" => opening.name = request.scratch
    /\ opening.try = "check" => opened = Led(opening.name) /\ opened # NoFile
    /\ opening.try = "check" /\ ~ opening.existed => file[opened].text = {}

(* An output has no other bytes than its own, and has them or will be      *)
(* given them; nothing else that is open writes to it.                     *)
Ready(role, name, create, write) ==
  ~ Pending({create}) =>
    /\ Led(name) # NoFile
    /\ IsRegular(Led(name)) =>
         /\ <<name, Led(name)>> \in claimed
         /\ \A r \in OpenToWrite \cap {"output", "index"} : r # role => handle[r] # Led(name)
         /\ \/ file[Led(name)].text = {role}
            \/ /\ file[Led(name)].text = {}
               /\ handle[role] = Led(name) /\ ServedFrom(write, todo, 1)

Outlets ==
  /\ request.fo # Std => Ready("output", request.fo, "createOutput", WriteStep(request))
  /\ request.mode = "compress" /\ request.index # NoName =>
       Ready("index", request.index, "createIndex", "encode")

(* Standard error and standard output are no outputs, nor one file.        *)
StreamsAside ==
  /\ \A c \in claimed : /\ request.talks => c[2] # request.stderr
                        /\ request.fo = Std => c[2] # request.stdout
  /\ request.talks /\ request.fo = Std /\ IsRegular(request.stdout) =>
       Pending({"noteStderr", "noteStdout"}) \/ request.stdout # request.stderr
  /\ request.fo = Std /\ IsRegular(request.stdout) =>
       file[request.stdout].text \subseteq {"user", "output"}

(* The input has the bytes it had.                                         *)
Unread ==
  /\ Pending(CheckSteps) => \A n \in Names : IsRegular(dir[n]) => file[dir[n]].text = {"user"}
  /\ before.id # NoFile => file[before.id].text = {"user"}

(* The scratch file: which names lead there, and what is left of it.       *)
Others ==
  (IF request.fo # Std THEN {request.fo} ELSE {})
  \cup (IF request.mode = "compress" /\ request.index # NoName THEN {request.index} ELSE {})

Shared == \E m \in Others : Target(m) = Target(request.scratch)

Sole ==
  Spooling /\ Shared /\ ~ Pending({"checkNames"}) =>
    \A n \in Names : IsRegular(dir[n]) /\ dir[n] = Led(request.scratch) => n = Target(request.scratch)

Scratched(n) == IsRegular(dir[n]) /\ "scratch" \in file[dir[n]].text

IsLink(n) == dir[n] # NoFile /\ file[dir[n]].kind = "link"

ScratchGone ==
  \A n \in Names : Scratched(n) =>
    /\ Spooling
    /\ opening.role # "scratch" /\ ~ Pending({"spool"})
    /\ Pending({"decodeRest"}) => handle["scratch"] # NoFile
    /\ \/ spool.named /\ dir[n] = spool.id
       \/ IsLink(request.scratch)
       \/ ~ IsRegular(dir[request.scratch]) /\ ~ Shared

Delivering ==
  Promises(request, todo) /\ Left /\ Beginning /\ Outlets /\ StreamsAside /\ Unread /\ Sole /\ ScratchGone

(* What SuccessDelivers promises in the end.                               *)
Delivers ==
  /\ request.fo # Std /\ IsRegular(Led(request.fo)) => file[Led(request.fo)].text = {"output"}
  /\ request.mode = "compress" /\ request.index # NoName /\ IsRegular(Led(request.index)) =>
       file[Led(request.index)].text = {"index"}
  /\ request.fo = Std /\ IsRegular(request.stdout) =>
       file[request.stdout].text \subseteq {"user", "output"}
  /\ before.id # NoFile => file[before.id].text = {"user"}
  /\ temps = {}
  /\ (\E n \in Names : Scratched(n)) =>
       request.scratch \in Names /\ ~ IsRegular(dir[request.scratch])

-----------------------------------------------------------------------------
(* The promises of a script, and how they are kept.                        *)

LEMMA FollowedGrows ==
  ASSUME NEW A, NEW X, NEW y, NEW s \in Seq(A), NEW t \in Seq(A \ X),
         Followed(X, y, s) \/ Has(t, y)
  PROVE  s \o t \in Seq(A) /\ Followed(X, y, s \o t)
<1>1. t \in Seq(A)
  OBVIOUS
<1>2. s \o t \in Seq(A)
  BY <1>1, ConcatSeq
<1>3. Followed(X, y, s \o t)
  <2> SUFFICES ASSUME NEW i \in DOMAIN (s \o t), (s \o t)[i] \in X
               PROVE  \E j \in DOMAIN (s \o t) : i < j /\ (s \o t)[j] = y
    BY DEF Followed
  <2>1. /\ Len(s) \in Nat /\ Len(t) \in Nat /\ Len(s \o t) = Len(s) + Len(t)
        /\ DOMAIN s = 1 .. Len(s) /\ DOMAIN t = 1 .. Len(t)
        /\ DOMAIN (s \o t) = 1 .. Len(s) + Len(t)
    BY <1>1, <1>2, ConcatParts
  <2>2. i \in DOMAIN s /\ s[i] \in X
    <3>1. CASE i - Len(s) \in DOMAIN t /\ (s \o t)[i] = t[i - Len(s)]
      BY <3>1, SeqOf
    <3> QED BY <1>1, <3>1, ConcatAt
  <2>3. CASE Has(t, y)
    <3>1. PICK k \in DOMAIN t : t[k] = y
      BY <2>3 DEF Has
    <3>2. (s \o t)[Len(s) + k] = y
      BY <1>1, <2>1, <3>1, ConcatParts
    <3>3. Len(s) + k \in DOMAIN (s \o t) /\ i < Len(s) + k
      BY <2>1, <2>2, <3>1
    <3> QED BY <3>2, <3>3
  <2>4. CASE Followed(X, y, s)
    <3>1. PICK j \in DOMAIN s : i < j /\ s[j] = y
      BY <2>2, <2>4 DEF Followed
    <3>2. (s \o t)[j] = y /\ j \in DOMAIN (s \o t)
      BY <1>1, <2>1, <3>1, ConcatParts
    <3> QED BY <3>1, <3>2
  <2> QED BY <2>3, <2>4
<1> QED BY <1>2, <1>3

LEMMA FollowedFront ==
  ASSUME NEW A, NEW X, NEW y, NEW s \in Seq(A \ X), NEW t \in Seq(A), Followed(X, y, t)
  PROVE  s \o t \in Seq(A) /\ Followed(X, y, s \o t)
<1>1. s \in Seq(A)
  OBVIOUS
<1>2. s \o t \in Seq(A)
  BY <1>1, ConcatSeq
<1>3. Followed(X, y, s \o t)
  <2> SUFFICES ASSUME NEW i \in DOMAIN (s \o t), (s \o t)[i] \in X
               PROVE  \E j \in DOMAIN (s \o t) : i < j /\ (s \o t)[j] = y
    BY DEF Followed
  <2>1. /\ Len(s) \in Nat /\ Len(t) \in Nat /\ Len(s \o t) = Len(s) + Len(t)
        /\ DOMAIN s = 1 .. Len(s) /\ DOMAIN t = 1 .. Len(t)
        /\ DOMAIN (s \o t) = 1 .. Len(s) + Len(t)
    BY <1>1, <1>2, ConcatParts
  <2>2. i - Len(s) \in DOMAIN t /\ t[i - Len(s)] \in X
    <3>1. CASE i \in DOMAIN s /\ (s \o t)[i] = s[i]
      BY <3>1, SeqOf
    <3> QED BY <1>1, <3>1, ConcatAt
  <2>3. PICK j \in DOMAIN t : i - Len(s) < j /\ t[j] = y
    BY <2>2 DEF Followed
  <2>4. (s \o t)[Len(s) + j] = y
    BY <1>1, <2>1, <2>3, ConcatParts
  <2>5. Len(s) + j \in DOMAIN (s \o t) /\ i < Len(s) + j
    BY <2>1, <2>2, <2>3
  <2> QED BY <2>4, <2>5
<1> QED BY <1>2, <1>3

LEMMA FollowedTail ==
  ASSUME NEW A, NEW X, NEW y, NEW s \in Seq(A), s # <<>>, Followed(X, y, s)
  PROVE  /\ Followed(X, y, Tail(s))
         /\ Head(s) \in X => Has(Tail(s), y)
<1>1. /\ \A i \in DOMAIN Tail(s) : i + 1 \in DOMAIN s /\ Tail(s)[i] = s[i + 1] /\ i \in Nat /\ i > 0
      /\ \A i \in DOMAIN s : i > 1 => i - 1 \in DOMAIN Tail(s) /\ Tail(s)[i - 1] = s[i]
      /\ 1 \in DOMAIN s /\ s[1] = Head(s) /\ DOMAIN s \subseteq Nat \ {0}
  OBVIOUS
<1>2. Followed(X, y, Tail(s))
  <2> SUFFICES ASSUME NEW i \in DOMAIN Tail(s), Tail(s)[i] \in X
               PROVE  \E j \in DOMAIN Tail(s) : i < j /\ Tail(s)[j] = y
    BY DEF Followed
  <2>1. PICK j \in DOMAIN s : i + 1 < j /\ s[j] = y
    BY <1>1 DEF Followed
  <2>2. j > 1 /\ i < j - 1
    BY <1>1, <2>1
  <2> QED BY <1>1, <2>1, <2>2
<1>3. ASSUME Head(s) \in X PROVE Has(Tail(s), y)
  <2>1. PICK j \in DOMAIN s : 1 < j /\ s[j] = y
    BY <1>1, <1>3 DEF Followed
  <2> QED BY <1>1, <2>1 DEF Has
<1> QED BY <1>2, <1>3

(* What is closed is closed after the y.                                   *)
LEMMA ServedBy ==
  ASSUME NEW A, NEW x, NEW y, y # "close", NEW s \in Seq(A \ {"close"}),
         NEW t \in Seq(A \ {x}), t # <<>>, t[1] = y
  PROVE  s \o t \in Seq(A) /\ Served(x, y, s \o t)
<1>1. t \in Seq(A) /\ s \in Seq(A)
  OBVIOUS
<1>2. s \o t \in Seq(A)
  BY <1>1, ConcatSeq
<1>3. Served(x, y, s \o t)
  <2> SUFFICES ASSUME NEW i \in DOMAIN (s \o t), (s \o t)[i] = x
               PROVE  ServedFrom(y, s \o t, i + 1)
    BY DEF Served
  <2>1. /\ Len(s) \in Nat /\ Len(t) \in Nat /\ Len(t) > 0 /\ Len(s \o t) = Len(s) + Len(t)
        /\ DOMAIN s = 1 .. Len(s) /\ DOMAIN t = 1 .. Len(t)
        /\ DOMAIN (s \o t) = 1 .. Len(s) + Len(t)
    BY <1>1, <1>2, ConcatParts
  <2>2. i \in DOMAIN s
    <3>1. CASE i - Len(s) \in DOMAIN t /\ (s \o t)[i] = t[i - Len(s)]
      BY <3>1, SeqOf
    <3> QED BY <1>1, <3>1, ConcatAt
  <2>3. (s \o t)[Len(s) + 1] = y
    BY <1>1, <2>1, ConcatParts
  <2>4. Len(s) + 1 \in DOMAIN (s \o t) /\ Len(s) + 1 >= i + 1
    BY <2>1, <2>2
  <2>5. ASSUME NEW k \in DOMAIN (s \o t), (s \o t)[k] = "close" PROVE Len(s) + 1 < k
    <3>1. ~ (k \in DOMAIN s /\ (s \o t)[k] = s[k])
      <4>1. k \in DOMAIN s => s[k] # "close"
        BY SeqOf
      <4> QED BY <2>5, <4>1
    <3>2. k > Len(s)
      BY <1>1, <3>1, ConcatAt
    <3>3. k # Len(s) + 1
      BY <2>3, <2>5
    <3> QED BY <2>1, <3>2, <3>3
  <2> QED BY <2>3, <2>4, <2>5 DEF ServedFrom
<1> QED BY <1>2, <1>3

LEMMA ServedGrows ==
  ASSUME NEW A, NEW x, NEW y, NEW s \in Seq(A), Served(x, y, s), NEW t \in Seq(A \ {x})
  PROVE  s \o t \in Seq(A) /\ Served(x, y, s \o t)
<1>1. t \in Seq(A)
  OBVIOUS
<1>2. s \o t \in Seq(A)
  BY <1>1, ConcatSeq
<1>3. Served(x, y, s \o t)
  <2> SUFFICES ASSUME NEW i \in DOMAIN (s \o t), (s \o t)[i] = x
               PROVE  ServedFrom(y, s \o t, i + 1)
    BY DEF Served
  <2>1. /\ Len(s) \in Nat /\ Len(t) \in Nat /\ Len(s \o t) = Len(s) + Len(t)
        /\ DOMAIN s = 1 .. Len(s) /\ DOMAIN t = 1 .. Len(t)
        /\ DOMAIN (s \o t) = 1 .. Len(s) + Len(t)
    BY <1>1, <1>2, ConcatParts
  <2>2. i \in DOMAIN s /\ s[i] = x
    <3>1. CASE i - Len(s) \in DOMAIN t /\ (s \o t)[i] = t[i - Len(s)]
      BY <3>1, SeqOf
    <3> QED BY <1>1, <3>1, ConcatAt
  <2>3. PICK j \in DOMAIN s : /\ j >= i + 1 /\ s[j] = y
                              /\ \A k \in DOMAIN s : s[k] = "close" => j < k
    BY <2>2 DEF Served, ServedFrom
  <2>4. (s \o t)[j] = y /\ j \in DOMAIN (s \o t)
    BY <1>1, <2>1, <2>3, ConcatParts
  <2>5. ASSUME NEW k \in DOMAIN (s \o t), (s \o t)[k] = "close" PROVE j < k
    <3>1. CASE k \in DOMAIN s /\ (s \o t)[k] = s[k]
      BY <2>3, <2>5, <3>1
    <3>2. CASE k > Len(s)
      BY <2>1, <3>2
    <3> QED BY <1>1, <3>1, <3>2, ConcatAt
  <2> QED BY <2>3, <2>4, <2>5 DEF ServedFrom
<1> QED BY <1>2, <1>3

LEMMA ServedFront ==
  ASSUME NEW A, NEW x, NEW y, NEW s \in Seq(A \ {x, "close"}), NEW t \in Seq(A), Served(x, y, t)
  PROVE  s \o t \in Seq(A) /\ Served(x, y, s \o t)
<1>1. s \in Seq(A)
  OBVIOUS
<1>2. s \o t \in Seq(A)
  BY <1>1, ConcatSeq
<1>3. Served(x, y, s \o t)
  <2> SUFFICES ASSUME NEW i \in DOMAIN (s \o t), (s \o t)[i] = x
               PROVE  ServedFrom(y, s \o t, i + 1)
    BY DEF Served
  <2>1. /\ Len(s) \in Nat /\ Len(t) \in Nat /\ Len(s \o t) = Len(s) + Len(t)
        /\ DOMAIN s = 1 .. Len(s) /\ DOMAIN t = 1 .. Len(t)
        /\ DOMAIN (s \o t) = 1 .. Len(s) + Len(t)
    BY <1>1, <1>2, ConcatParts
  <2>2. i - Len(s) \in DOMAIN t /\ t[i - Len(s)] = x
    <3>1. CASE i \in DOMAIN s /\ (s \o t)[i] = s[i]
      BY <3>1, SeqOf
    <3> QED BY <1>1, <3>1, ConcatAt
  <2>3. PICK j \in DOMAIN t : /\ j >= (i - Len(s)) + 1 /\ t[j] = y
                              /\ \A k \in DOMAIN t : t[k] = "close" => j < k
    BY <2>2 DEF Served, ServedFrom
  <2>4. (s \o t)[Len(s) + j] = y
    BY <1>1, <2>1, <2>3, ConcatParts
  <2>5. Len(s) + j \in DOMAIN (s \o t) /\ Len(s) + j >= i + 1
    BY <2>1, <2>2, <2>3
  <2>6. ASSUME NEW k \in DOMAIN (s \o t), (s \o t)[k] = "close" PROVE Len(s) + j < k
    <3>1. ~ (k \in DOMAIN s /\ (s \o t)[k] = s[k])
      <4>1. k \in DOMAIN s => s[k] # "close"
        BY SeqOf
      <4> QED BY <2>6, <4>1
    <3>2. k - Len(s) \in DOMAIN t /\ t[k - Len(s)] = "close"
      BY <1>1, <2>6, <3>1, ConcatAt
    <3>3. j < k - Len(s)
      BY <2>3, <3>2
    <3> QED BY <2>1, <2>3, <3>2, <3>3
  <2> QED BY <2>4, <2>5, <2>6 DEF ServedFrom
<1> QED BY <1>2, <1>3

LEMMA ServedTail ==
  ASSUME NEW A, NEW x, NEW y, NEW s \in Seq(A), s # <<>>, Served(x, y, s)
  PROVE  /\ Served(x, y, Tail(s))
         /\ Head(s) = x => ServedFrom(y, Tail(s), 1)
<1>1. /\ \A i \in DOMAIN Tail(s) : i + 1 \in DOMAIN s /\ Tail(s)[i] = s[i + 1] /\ i \in Nat /\ i > 0
      /\ \A i \in DOMAIN s : i > 1 => i - 1 \in DOMAIN Tail(s) /\ Tail(s)[i - 1] = s[i]
      /\ 1 \in DOMAIN s /\ s[1] = Head(s) /\ DOMAIN s \subseteq Nat \ {0}
  OBVIOUS
<1>2. ASSUME NEW i \in DOMAIN s, s[i] = x
      PROVE  ServedFrom(y, Tail(s), i)
  <2>1. PICK j \in DOMAIN s : /\ j >= i + 1 /\ s[j] = y
                              /\ \A k \in DOMAIN s : s[k] = "close" => j < k
    BY <1>2 DEF Served, ServedFrom
  <2>2. j - 1 \in DOMAIN Tail(s) /\ Tail(s)[j - 1] = s[j] /\ j - 1 >= i
    BY <1>1, <2>1
  <2>3. \A k \in DOMAIN Tail(s) : Tail(s)[k] = "close" => j - 1 < k
    BY <1>1, <2>1
  <2> QED BY <2>1, <2>2, <2>3 DEF ServedFrom
<1>3. Served(x, y, Tail(s))
  <2> SUFFICES ASSUME NEW i \in DOMAIN Tail(s), Tail(s)[i] = x
               PROVE  ServedFrom(y, Tail(s), i + 1)
    BY DEF Served
  <2>1. i + 1 \in DOMAIN s /\ s[i + 1] = x
    BY <1>1
  <2> QED BY <1>2, <2>1
<1>4. Head(s) = x => ServedFrom(y, Tail(s), 1)
  BY <1>1, <1>2
<1> QED BY <1>3, <1>4

LEMMA ServedLater ==
  ASSUME NEW A, NEW y, NEW s \in Seq(A), s # <<>>, ServedFrom(y, s, 1)
  PROVE  /\ Head(s) # "close" \/ y = "close"
         /\ Head(s) # y => ServedFrom(y, Tail(s), 1)
<1>1. PICK j \in DOMAIN s : s[j] = y /\ \A k \in DOMAIN s : s[k] = "close" => j < k
  BY DEF ServedFrom
<1>2. /\ \A k \in DOMAIN Tail(s) : k + 1 \in DOMAIN s /\ Tail(s)[k] = s[k + 1] /\ k \in Nat
      /\ 1 \in DOMAIN s /\ s[1] = Head(s) /\ DOMAIN s \subseteq Nat \ {0}
  OBVIOUS
<1>3. Head(s) # "close"
  BY <1>1, <1>2
<1>4. ASSUME Head(s) # y PROVE ServedFrom(y, Tail(s), 1)
  <2>1. j # 1
    BY <1>1, <1>2, <1>4
  <2>2. j - 1 \in DOMAIN Tail(s) /\ Tail(s)[j - 1] = s[j] /\ j - 1 >= 1
    BY <2>1
  <2>3. \A k \in DOMAIN Tail(s) : Tail(s)[k] = "close" => j - 1 < k
    BY <1>1, <1>2
  <2> QED BY <1>1, <2>2, <2>3 DEF ServedFrom
<1> QED BY <1>3, <1>4

LEMMA CompressPromises ==
  ASSUME NEW q \in Request, q.mode = "compress", q.dup => q.fi # Std
  PROVE  Compress(q) \in Seq(Steps) /\ Promises(q, Compress(q))
<1> DEFINE A == Steps
           N == A \ {"close"}
           M == (A \ TempMakers) \ (Spools \cup {"createOutput", "createIndex"})
           a == IF q.fi = Std THEN <<"spool", "copyStdin">> ELSE <<>>
           b == If(q.index # NoName, "createIndex")
           c == If(q.dup, "dedup")
           d == If(~ q.dup, "openInput")
           e == If(q.fo # Std, "createOutput")
           t == <<"encode", "encodeRest", "close">>
           u == IF q.dup THEN <<"deleteTemps", "checkUnchanged">>
                ELSE <<"checkUnchanged", "removeSpool", "deleteTemps">>
           v == If(q.delete /\ q.fi # Std, "delete")
           p == (((a \o b) \o c) \o d) \o e
<1>1. /\ {"spool", "copyStdin", "createIndex", "dedup", "openInput", "createOutput"} \subseteq N
      /\ {"encode", "encodeRest", "close", "deleteTemps", "checkUnchanged", "removeSpool", "delete"}
           \subseteq M
      /\ {"copyStdin", "createIndex", "dedup", "openInput", "createOutput"} \subseteq N \ Spools
      /\ M \subseteq A \ Spools /\ M \subseteq A \ TempMakers
      /\ M \subseteq A \ {"createOutput"} /\ M \subseteq A \ {"createIndex"} /\ M \subseteq A
      /\ N \subseteq A
  BY DEF TempMakers, Spools, Steps
<1>2. q.dup \in BOOLEAN /\ (q.delete /\ q.fi # Std) \in BOOLEAN /\ (~ q.dup) \in BOOLEAN
      /\ (q.index # NoName) \in BOOLEAN /\ (q.fo # Std) \in BOOLEAN
  BY DEF Request
<1>3. Compress(q) = ((p \o t) \o u) \o v
  BY DEF Compress
<1>4. a \in Seq(N) /\ (q.fi # Std => a \in Seq(N \ Spools))
  <2> HIDE DEF N
  <2> QED BY <1>1, One, Two
<1>5. /\ b \in Seq(N \ Spools) /\ c \in Seq(N \ Spools) /\ d \in Seq(N \ Spools)
      /\ e \in Seq(N \ Spools)
  <2> HIDE DEF N
  <2> QED BY <1>1, <1>2, IfSeq
<1>6. t \in Seq(M) /\ t # <<>> /\ t[1] = "encode" /\ v \in Seq(M)
  <2>1. t \in Seq(M) /\ t # <<>> /\ t[1] = "encode"
    <3> HIDE DEF M
    <3> QED BY <1>1, Three
  <2> HIDE DEF M
  <2> QED BY <1>1, <1>2, <2>1, IfSeq
<1>7. u \in Seq(M) /\ Has(u, "deleteTemps") /\ (q.fi = Std => Has(u, "removeSpool"))
  <2>1. CASE q.dup
    <3>1. u = <<"deleteTemps", "checkUnchanged">>
      BY <2>1
    <3>2. u[1] = "deleteTemps" /\ 1 \in DOMAIN u
      BY <3>1
    <3>3. u \in Seq(M)
      <4> HIDE DEF M, u
      <4> QED BY <1>1, <3>1, Two
    <3> QED BY <2>1, <3>2, <3>3 DEF Has
  <2>2. CASE ~ q.dup
    <3>1. u = <<"checkUnchanged", "removeSpool", "deleteTemps">>
      BY <2>2
    <3>2. u[3] = "deleteTemps" /\ 3 \in DOMAIN u /\ u[2] = "removeSpool" /\ 2 \in DOMAIN u
      BY <3>1
    <3>3. u \in Seq(M)
      <4> HIDE DEF M, u
      <4> QED BY <1>1, <3>1, Three
    <3> QED BY <3>2, <3>3 DEF Has
  <2> QED BY <2>1, <2>2
<1> HIDE DEF a, b, c, d, e, t, u, v
<1>8. p \in Seq(N) /\ (q.fi # Std => p \in Seq(N \ Spools))
  <2>1. /\ b \in Seq(N) /\ c \in Seq(N) /\ d \in Seq(N) /\ e \in Seq(N)
    BY <1>5
  <2> HIDE DEF N
  <2>2. ((a \o b) \o c) \o d \in Seq(N)
    BY <1>4, <2>1, ConcatSeq
  <2>3. p \in Seq(N)
    BY <2>1, <2>2, ConcatSeq
  <2>4. ASSUME q.fi # Std PROVE p \in Seq(N \ Spools)
    <3>1. ((a \o b) \o c) \o d \in Seq(N \ Spools)
      BY <1>4, <1>5, <2>4, ConcatSeq
    <3> QED BY <1>5, <3>1, ConcatSeq
  <2> QED BY <2>3, <2>4
<1> HIDE DEF p
<1>9. /\ t \in Seq(A) /\ u \in Seq(A) /\ v \in Seq(A) /\ p \in Seq(A) /\ p \in Seq(A \ {"close"})
      /\ \A x \in {t, u, v} : /\ x \in Seq(A \ Spools) /\ x \in Seq(A \ TempMakers)
                              /\ x \in Seq(A \ {"createOutput"}) /\ x \in Seq(A \ {"createIndex"})
  <2>1. p \in Seq(A \ {"close"})
    BY <1>8
  <2> HIDE DEF M, N, A
  <2> QED BY <1>1, <1>6, <1>7, <1>8, <2>1
<1> DEFINE pt == p \o t
           ptu == pt \o u
<1>10. pt \in Seq(A)
  <2> HIDE DEF A
  <2> QED BY <1>9, ConcatSeq
<1>11. Served("createOutput", "encode", pt) /\ Served("createIndex", "encode", pt)
  <2> HIDE DEF A
  <2> QED BY <1>6, <1>9, ServedBy
<1> HIDE DEF pt
<1>12. /\ ptu \in Seq(A)
       /\ Served("createOutput", "encode", ptu) /\ Served("createIndex", "encode", ptu)
       /\ Followed(TempMakers, "deleteTemps", ptu)
  <2> HIDE DEF A
  <2>1. u \in Seq(A \ {"createOutput"}) /\ u \in Seq(A \ {"createIndex"}) /\ u \in Seq(A \ TempMakers)
    BY <1>9
  <2> QED BY <1>7, <1>10, <1>11, <2>1, ServedGrows, FollowedGrows
<1>13. Followed(Spools, "removeSpool", ptu)
  <2>1. CASE q.fi = Std
    <3> HIDE DEF A
    <3> QED BY <1>7, <1>9, <1>10, <2>1, FollowedGrows
  <2>2. CASE q.fi # Std
    <3>1. p \in Seq(A \ Spools)
      BY <1>1, <1>8, <2>2
    <3> HIDE DEF A
    <3>2. pt \in Seq(A \ Spools)
      BY <1>9, <3>1, ConcatSeq DEF pt
    <3>3. \A i \in DOMAIN pt : pt[i] \notin Spools
      BY <3>2, SeqOf
    <3>4. Followed(Spools, "removeSpool", pt)
      BY <3>3 DEF Followed
    <3> QED BY <1>9, <1>10, <3>4, FollowedGrows
  <2> QED BY <2>1, <2>2
<1> HIDE DEF ptu
<1>14. /\ ptu \o v \in Seq(A)
       /\ Served("createOutput", "encode", ptu \o v) /\ Served("createIndex", "encode", ptu \o v)
       /\ Followed(TempMakers, "deleteTemps", ptu \o v) /\ Followed(Spools, "removeSpool", ptu \o v)
  <2> HIDE DEF A
  <2>1. v \in Seq(A \ {"createOutput"}) /\ v \in Seq(A \ {"createIndex"}) /\ v \in Seq(A \ TempMakers)
        /\ v \in Seq(A \ Spools)
    BY <1>9
  <2> QED BY <1>12, <1>13, <2>1, ServedGrows, FollowedGrows
<1> QED BY <1>3, <1>14 DEF Promises, WriteStep, pt, ptu

LEMMA DecompressPromises ==
  ASSUME NEW q \in Request, q.mode = "decompress"
  PROVE  Decompress(q) \in Seq(Steps) /\ Promises(q, Decompress(q))
<1> DEFINE A == Steps
           N == (A \ {"close", "createIndex"}) \ Spools
           M == (A \ TempMakers) \ (Spools \cup {"createOutput", "createIndex"})
           a == If(q.fi = Std, "newTemp")
           b == If(~ q.dup /\ q.fi # Std /\ q.fo # Std, "sniff")
           c == <<"openInput">>
           d == If(q.dup, "newTemp")
           e == If(~ q.dup /\ q.fo = Std, "newTemp")
           f == If(~ q.dup /\ q.fo # Std, "createOutput")
           g == If(~ q.dup /\ q.index # NoName, "openIndex")
           t == <<"decode", "decodeRest", "removeSpool">>
           h == If(q.dup, "createOutput")
           k == <<"copyOut">>
           u == IF q.dup THEN <<"close", "deleteTemps", "checkUnchanged">>
                ELSE <<"checkUnchanged", "close", "deleteTemps">>
           v == If(q.delete /\ q.fi # Std, "delete")
           m == (((((a \o b) \o c) \o d) \o e) \o f) \o g
           mt == m \o t
           mh == mt \o h
           mk == mh \o k
           mu == mk \o u
<1>1. /\ {"newTemp", "sniff", "openInput", "createOutput", "openIndex"} \subseteq N
      /\ {"copyOut", "checkUnchanged", "close", "deleteTemps", "delete"} \subseteq M
      /\ {"decode", "decodeRest", "removeSpool"} \subseteq A \ {"createOutput", "createIndex", "close"}
      /\ "copyOut" \in A \ {"close"} /\ "createOutput" \in ((A \ TempMakers) \ Spools) \ {"close", "createIndex"}
      /\ M \subseteq A /\ N \subseteq A
      /\ M \subseteq A \ Spools /\ M \subseteq A \ TempMakers
      /\ M \subseteq A \ {"createOutput"} /\ M \subseteq A \ {"createIndex"}
      /\ N \subseteq A \ {"close"} /\ N \subseteq A \ Spools /\ N \subseteq A \ {"createIndex"}
  BY DEF TempMakers, Spools, Steps
<1>2. /\ q.dup \in BOOLEAN /\ (q.delete /\ q.fi # Std) \in BOOLEAN
      /\ (~ q.dup /\ q.fi # Std /\ q.fo # Std) \in BOOLEAN /\ (~ q.dup /\ q.fo # Std) \in BOOLEAN
      /\ (~ q.dup /\ q.fo = Std) \in BOOLEAN /\ (~ q.dup /\ q.index # NoName) \in BOOLEAN
      /\ (q.fi = Std) \in BOOLEAN
  BY DEF Request
<1>3. Decompress(q) = mu \o v
  BY DEF Decompress
<1>4. /\ a \in Seq(N) /\ b \in Seq(N) /\ c \in Seq(N) /\ d \in Seq(N) /\ e \in Seq(N)
      /\ f \in Seq(N) /\ g \in Seq(N)
  <2> HIDE DEF N
  <2> QED BY <1>1, <1>2, One, IfSeq
<1>5. /\ t \in Seq(A \ {"createOutput", "createIndex", "close"}) /\ t # <<>> /\ t[1] = "decode"
      /\ t = <<"decode", "decodeRest">> \o <<"removeSpool">>
  <2> HIDE DEF A
  <2> QED BY <1>1, Three
<1>6. /\ h \in Seq(((A \ TempMakers) \ Spools) \ {"close", "createIndex"}) /\ (~ q.dup => h = <<>>)
      /\ k \in Seq(M) /\ k \in Seq(A \ {"close"}) /\ k # <<>> /\ k[1] = "copyOut"
      /\ u \in Seq(M) /\ v \in Seq(M) /\ Has(u, "deleteTemps")
  <2>1. ~ q.dup => h = <<>>
    BY DEF If
  <2>2. Has(u, "deleteTemps")
    <3>1. CASE q.dup
      <4>1. u[2] = "deleteTemps" /\ 2 \in DOMAIN u
        BY <3>1
      <4> QED BY <4>1 DEF Has
    <3>2. CASE ~ q.dup
      <4>1. u[3] = "deleteTemps" /\ 3 \in DOMAIN u
        BY <3>2
      <4> QED BY <4>1 DEF Has
    <3> QED BY <3>1, <3>2
  <2> HIDE DEF A, M
  <2> QED BY <1>1, <1>2, <2>1, <2>2, One, Three, IfSeq
<1>7. Followed(Spools, "removeSpool", t)
  <2>1. DOMAIN t = 1 .. 3 /\ t[1] = "decode" /\ t[2] = "decodeRest" /\ t[3] = "removeSpool"
    OBVIOUS
  <2> HIDE DEF t
  <2> QED BY <2>1 DEF Followed, Spools
<1> HIDE DEF a, b, c, d, e, f, g, h, k, t, u, v
<1>8. m \in Seq(N)
  <2> HIDE DEF N
  <2>1. ((a \o b) \o c) \o d \in Seq(N)
    BY <1>4, ConcatSeq
  <2> QED BY <1>4, <2>1, ConcatSeq
<1> HIDE DEF m
<1>9. /\ m \in Seq(A \ {"close"}) /\ m \in Seq(A \ Spools) /\ m \in Seq(A \ {"createIndex"})
      /\ t \in Seq(A \ {"close"}) /\ t \in Seq(A \ {"createOutput"}) /\ t \in Seq(A \ {"createIndex"})
      /\ t \in Seq(A)
      /\ h \in Seq(A \ {"close"}) /\ h \in Seq(A \ {"createIndex"}) /\ h \in Seq(A \ Spools)
      /\ h \in Seq(A \ TempMakers)
      /\ \A x \in {k, u, v} : /\ x \in Seq(A \ Spools) /\ x \in Seq(A \ TempMakers)
                              /\ x \in Seq(A \ {"createOutput"}) /\ x \in Seq(A \ {"createIndex"})
  <2>1. m \in Seq(A \ {"close"}) /\ m \in Seq(A \ Spools) /\ m \in Seq(A \ {"createIndex"})
    <3> HIDE DEF A, N
    <3> QED BY <1>1, <1>8
  <2>2. /\ t \in Seq(A \ {"close"}) /\ t \in Seq(A \ {"createOutput"}) /\ t \in Seq(A \ {"createIndex"})
        /\ t \in Seq(A)
    BY <1>5
  <2>3. /\ h \in Seq(A \ {"close"}) /\ h \in Seq(A \ {"createIndex"}) /\ h \in Seq(A \ Spools)
        /\ h \in Seq(A \ TempMakers)
    BY <1>6
  <2> HIDE DEF A, M
  <2> QED BY <1>1, <1>6, <2>1, <2>2, <2>3
<1> HIDE DEF A, M, N
<1>10. /\ mt \in Seq(A \ {"close"}) /\ mt \in Seq(A \ {"createIndex"}) /\ mt \in Seq(A)
       /\ Followed(Spools, "removeSpool", mt)
       /\ Served("createOutput", "decode", mt)
  <2>1. m \o t \in Seq(A \ {"close"}) /\ m \o t \in Seq(A \ {"createIndex"})
    BY <1>9, ConcatSeq
  <2>2. m \o t \in Seq(A) /\ Followed(Spools, "removeSpool", m \o t)
    BY <1>7, <1>9, FollowedFront
  <2>3. Served("createOutput", "decode", m \o t)
    BY <1>5, <1>9, ServedBy
  <2> QED BY <2>1, <2>2, <2>3
<1> HIDE DEF mt
<1>11. /\ mh \in Seq(A \ {"close"}) /\ mh \in Seq(A \ {"createIndex"}) /\ mh \in Seq(A)
       /\ Followed(Spools, "removeSpool", mh)
       /\ ~ q.dup => Served("createOutput", "decode", mh)
  <2>1. mt \o h \in Seq(A \ {"close"}) /\ mt \o h \in Seq(A \ {"createIndex"})
    BY <1>9, <1>10, ConcatSeq
  <2>2. mt \o h \in Seq(A) /\ Followed(Spools, "removeSpool", mt \o h)
    BY <1>9, <1>10, FollowedGrows
  <2>3. ~ q.dup => mt \o h = mt
    BY <1>6, <1>10
  <2> QED BY <1>10, <2>1, <2>2, <2>3
<1> HIDE DEF mh
<1>12. /\ mk \in Seq(A) /\ mk \in Seq(A \ {"createIndex"})
       /\ Followed(Spools, "removeSpool", mk)
       /\ Served("createOutput", WriteStep(q), mk)
  <2>1. k \in Seq(A \ {"createOutput"}) /\ k \in Seq(A \ {"createIndex"}) /\ k \in Seq(A \ Spools)
    BY <1>9
  <2>2. mh \o k \in Seq(A) /\ Followed(Spools, "removeSpool", mh \o k)
    BY <1>11, <2>1, FollowedGrows
  <2>3. mh \o k \in Seq(A \ {"createIndex"})
    BY <1>11, <2>1, ConcatSeq
  <2>4. Served("createOutput", "copyOut", mh \o k)
    BY <1>6, <1>11, <2>1, ServedBy
  <2>5. ~ q.dup => Served("createOutput", "decode", mh \o k)
    BY <1>11, <2>1, ServedGrows
  <2> QED BY <1>2, <2>2, <2>3, <2>4, <2>5 DEF WriteStep
<1> HIDE DEF mk
<1>13. /\ mu \in Seq(A) /\ mu \in Seq(A \ {"createIndex"})
       /\ Followed(Spools, "removeSpool", mu) /\ Followed(TempMakers, "deleteTemps", mu)
       /\ Served("createOutput", WriteStep(q), mu)
  <2>1. u \in Seq(A \ {"createOutput"}) /\ u \in Seq(A \ {"createIndex"}) /\ u \in Seq(A \ Spools)
        /\ u \in Seq(A \ TempMakers)
    BY <1>9
  <2>2. mk \o u \in Seq(A \ {"createIndex"})
    BY <1>12, <2>1, ConcatSeq
  <2> QED BY <1>6, <1>12, <2>1, <2>2, FollowedGrows, ServedGrows
<1> HIDE DEF mu
<1>14. /\ mu \o v \in Seq(A) /\ mu \o v \in Seq(A \ {"createIndex"})
       /\ Followed(Spools, "removeSpool", mu \o v) /\ Followed(TempMakers, "deleteTemps", mu \o v)
       /\ Served("createOutput", WriteStep(q), mu \o v)
  <2>1. v \in Seq(A \ {"createOutput"}) /\ v \in Seq(A \ {"createIndex"}) /\ v \in Seq(A \ Spools)
        /\ v \in Seq(A \ TempMakers)
    BY <1>9
  <2>2. mu \o v \in Seq(A \ {"createIndex"})
    BY <1>13, <2>1, ConcatSeq
  <2> QED BY <1>13, <2>1, <2>2, FollowedGrows, ServedGrows
<1>15. Served("createIndex", "encode", mu \o v)
  <2>1. \A i \in DOMAIN (mu \o v) : (mu \o v)[i] # "createIndex"
    BY <1>14, SeqOf
  <2> QED BY <2>1 DEF Served
<1> QED BY <1>3, <1>14, <1>15 DEF Promises, A, mu, mk, mh, mt

LEMMA ScriptPromises ==
  ASSUME NEW q \in Requests
  PROVE  Promises(q, Script(q))
<1> DEFINE w == IF q.mode = "compress" THEN Compress(q) ELSE Decompress(q)
           c == Checks(q)
<1>1. q \in Request /\ q.mode \in {"compress", "decompress"} /\ (q.dup => q.fi # Std)
  BY RequestsAssumption DEF Request
<1>2. w \in Seq(Steps) /\ Promises(q, w)
  BY <1>1, CompressPromises, DecompressPromises
<1>3. /\ c \in Seq(Steps \ Spools) /\ c \in Seq(Steps \ TempMakers)
      /\ c \in Seq(Steps \ {"createOutput", "close"}) /\ c \in Seq(Steps \ {"createIndex", "close"})
  <2>1. c \in Seq(Allowed(q) \cap CheckSteps)
    BY <1>1, ChecksOrdered
  <2>2. /\ CheckSteps \subseteq Steps \ Spools /\ CheckSteps \subseteq Steps \ TempMakers
        /\ CheckSteps \subseteq Steps \ {"createOutput", "close"}
        /\ CheckSteps \subseteq Steps \ {"createIndex", "close"}
    BY DEF CheckSteps, Steps, Spools, TempMakers
  <2> HIDE DEF c
  <2>3. c \in Seq(CheckSteps)
    BY <2>1
  <2> QED BY <2>2, <2>3
<1>4. Script(q) = c \o w
  BY DEF Script
<1> HIDE DEF c, w
<1> QED BY <1>2, <1>3, <1>4, FollowedFront, ServedFront DEF Promises

-----------------------------------------------------------------------------
(* One step of a run that nothing goes wrong in.                           *)
Going == Alone /\ Traced /\ Delivering /\ ~ failed'

LEMMA GoingOn ==
  ASSUME Going
  PROVE  /\ TypeOK /\ TodoOK /\ ~ failed /\ ~ Fail
         /\ request' = request /\ todo \in Seq(Steps)
         /\ UNCHANGED <<todo, failed>> \/ (todo # <<>> /\ Done)
<1>1. TypeOK /\ TodoOK /\ Moves /\ request' = request /\ (failed => failed')
  BY AloneMoves DEF Going
<1>2. ~ failed /\ ~ Fail
  BY <1>1 DEF Going, Fail
<1> QED BY <1>1, <1>2 DEF Moves, TypeOK

LEMMA PromisesKept ==
  ASSUME Going
  PROVE  Promises(request, todo)'
<1>1. Promises(request, todo) /\ request' = request /\ todo \in Seq(Steps)
  BY GoingOn DEF Going, Delivering
<1>2. CASE todo' = todo
  BY <1>1, <1>2 DEF Promises, Served, ServedFrom, Followed, WriteStep
<1>3. CASE todo # <<>> /\ todo' = Tail(todo)
  <2>1. /\ Served("createOutput", WriteStep(request), Tail(todo))
        /\ Served("createIndex", "encode", Tail(todo))
    BY <1>1, <1>3, ServedTail DEF Promises
  <2>2. Followed(Spools, "removeSpool", Tail(todo)) /\ Followed(TempMakers, "deleteTemps", Tail(todo))
    BY <1>1, <1>3, FollowedTail DEF Promises
  <2>3. WriteStep(request)' = WriteStep(request)
    BY <1>1 DEF WriteStep
  <2> QED BY <1>3, <2>1, <2>2, <2>3 DEF Promises, Served, ServedFrom, Followed
<1> QED BY <1>2, <1>3, GoingOn DEF Done

(* What the step at work is followed by.                                   *)
LEMMA PromisedLater ==
  ASSUME Going, todo # <<>>
  PROVE  /\ Head(todo) \in Spools => Pending({"removeSpool"})'
         /\ Head(todo) \in TempMakers => Pending({"deleteTemps"})'
<1>1. Promises(request, todo) /\ todo \in Seq(Steps)
  BY GoingOn DEF Going, Delivering
<1>2. /\ Head(todo) \in Spools => Has(Tail(todo), "removeSpool")
      /\ Head(todo) \in TempMakers => Has(Tail(todo), "deleteTemps")
  BY <1>1, FollowedTail DEF Promises
<1>3. ASSUME NEW x, Has(Tail(todo), x) PROVE Pending({x})'
  <2>1. PICK i \in DOMAIN Tail(todo) : Tail(todo)[i] = x
    BY <1>3 DEF Has
  <2>2. CASE todo' = Tail(todo)
    BY <2>1, <2>2 DEF Pending
  <2>3. CASE todo' = todo
    <3>1. i + 1 \in DOMAIN todo /\ todo[i + 1] = x
      BY <1>1, <2>1
    <3> QED BY <2>3, <3>1 DEF Pending
  <2> QED BY <2>2, <2>3, GoingOn DEF Done
<1> QED BY <1>2, <1>3

(* A step still to come stays so unless it is the one done.                *)
LEMMA ToCome ==
  ASSUME Going, NEW x, Pending({x})
  PROVE  Pending({x})' \/ (todo # <<>> /\ Head(todo) = x /\ Done)
<1>1. TodoOK /\ (UNCHANGED todo \/ (todo # <<>> /\ Done))
  BY GoingOn
<1>2. CASE UNCHANGED todo
  BY <1>2 DEF Pending
<1>3. CASE todo # <<>> /\ Done /\ Head(todo) # x
  BY <1>1, <1>3, PendingStays
<1> QED BY <1>1, <1>2, <1>3

(* And what was not to come does not come.                                 *)
LEMMA NotToCome ==
  ASSUME Going, NEW x, Pending({x})'
  PROVE  Pending({x})
<1>1. todo \in Seq(Steps) /\ (UNCHANGED todo \/ (todo # <<>> /\ todo' = Tail(todo)))
  BY GoingOn DEF Done
<1>2. CASE UNCHANGED todo
  BY <1>2 DEF Pending
<1>3. CASE todo # <<>> /\ todo' = Tail(todo)
  <2>1. PICK i \in DOMAIN Tail(todo) : Tail(todo)[i] = x
    BY <1>3 DEF Pending
  <2>2. i + 1 \in DOMAIN todo /\ todo[i + 1] = x
    BY <1>1, <1>3, <2>1
  <2> QED BY <2>2 DEF Pending
<1> QED BY <1>1, <1>2, <1>3

(* Which action does a step.                                               *)
LEMMA StepDone ==
  ASSUME Going, todo # <<>>, Done
  PROVE  /\ Head(todo) = "encode" => Encode
         /\ Head(todo) = "decode" => Decode
         /\ Head(todo) = "copyOut" => CopyOut
         /\ Head(todo) = "removeSpool" => RemoveSpool
         /\ Head(todo) = "deleteTemps" => DeleteTemps
         /\ Head(todo) = "noteStderr" => NoteStderr
         /\ Head(todo) = "noteStdout" => NoteStdout
         /\ Head(todo) = "checkNames" => CheckNames
         /\ Head(todo) \in {"createOutput", "createIndex", "spool"} =>
              Accept \/ (Spool /\ request.scratch = NoName)
<1>1. /\ Named /\ Next /\ todo \in Seq(Steps) /\ ~ failed /\ ~ Fail /\ ~ Other
      /\ todo' = Tail(todo)
  BY GoingOn, AloneMoves DEF Going, Alone, Good, Done
<1>2. todo' # todo
  <2>1. Len(Tail(todo)) = Len(todo) - 1 /\ Len(todo) \in Nat
    BY <1>1
  <2>2. Len(Tail(todo)) # Len(todo)
    <3> DEFINE n == Len(todo)
    <3>1. n \in Nat /\ Len(Tail(todo)) = n - 1
      BY <2>1
    <3> HIDE DEF n
    <3>2. n - 1 # n
      BY <3>1
    <3> QED BY <3>1, <3>2 DEF n
  <2> QED BY <1>1, <2>2, Zenon
<1>3. CASE Checking
  BY <1>3 DEF Checking, NoteInput, NoteIndex, NoteStderr, NoteStdout, CheckNames, Stamp, At
<1>4. CASE Opening
  <2>1. CASE Accept
    <3>1. opening # NotOpening
      BY <2>1 DEF Accept, NotOpening
    <3>2. Head(todo) \in {"createOutput", "createIndex", "spool", "decodeRest"}
      BY <1>1, <3>1 DEF Named, Opens, Spools
    <3> QED BY <2>1, <3>2
  <2>2. CASE CreateIndex \/ CreateOutput \/ TryExclusive \/ ExclusiveFails \/ TryPlain \/ TryCreate
    BY <1>2, <2>2 DEF CreateIndex, CreateOutput, StartOpen, TryExclusive, ExclusiveFails, TryPlain,
                      TryCreate
  <2>3. CASE OpenFails \/ Refuse \/ TruncateFails
    BY <1>1, <2>3 DEF OpenFails, Refuse, TruncateFails
  <2> QED BY <1>4, <2>1, <2>2, <2>3 DEF Opening
<1>5. CASE Temps
  BY <1>2, <1>5 DEF Temps, NewTemp, Spool, StartOpen, CopyStdin, DeleteTemps, RemoveSpool, At
<1>6. CASE Working
  BY <1>1, <1>2, <1>6 DEF Working, Sniff, OpenInput, OpenIndex, Dedup, Encode, Decode, Spill,
                    StartOpen, CopyOut, Breaks, At
<1>7. CASE Ending
  BY <1>7 DEF Ending, Close, CheckUnchanged, DeleteInput, RemoveClaimed, Report, At
<1>8. CASE Stopped
  BY <1>2, <1>8 DEF Stopped, vars
<1> QED BY <1>1, <1>3, <1>4, <1>5, <1>6, <1>7, <1>8 DEF Next, Run

(* What is made is removed when its step comes.                            *)
LEMMA TempsMade ==
  ASSUME Going
  PROVE  \/ temps' \subseteq temps
         \/ todo # <<>> /\ Head(todo) \in TempMakers
<1>1. CASE Checking \/ Opening
  BY <1>1 DEF Checking, NoteInput, NoteIndex, NoteStderr, NoteStdout, NoteStdWritten, CheckNames,
              Stamp, Opening, CreateIndex, CreateOutput, StartOpen, TryExclusive, ExclusiveFails,
              TryPlain, TryCreate, OpenFails, Refuse, Accept, TruncateFails, dataVars
<1>2. CASE Temps
  BY <1>2 DEF Temps, NewTemp, Spool, StartOpen, CopyStdin, DeleteTemps, RemoveSpool, At, TempMakers,
              dataVars
<1>3. CASE Working
  BY <1>3 DEF Working, Sniff, OpenInput, OpenIndex, Dedup, Encode, Decode, Spill, StartOpen, CopyOut,
              Breaks, At, TempMakers, dataVars
<1>4. CASE Ending \/ Stopped
  BY <1>4 DEF Ending, Close, CheckUnchanged, DeleteInput, RemoveClaimed, Report, Stopped, vars,
              dataVars
<1> QED BY <1>1, <1>2, <1>3, <1>4, AloneMoves DEF Going, Alone, Next, Run

LEMMA LeftOn ==
  ASSUME Going
  PROVE  Left'
<1>1. /\ Alone /\ Left /\ Beginning /\ TodoOK /\ ~ Fail /\ request' = request
      /\ Good /\ Next /\ Named
  BY GoingOn DEF Going, Delivering, Alone, Good
<1>2. ASSUME spool'.named
      PROVE  Pending({"removeSpool"})' /\ spool'.name = request'.scratch /\ Spooling'
  <2>1. CASE spool' = spool
    <3>1. Pending({"removeSpool"}) /\ spool.name = request.scratch /\ spool.named /\ Spooling'
      BY <1>1, <1>2, <2>1 DEF Left, Spooling
    <3>2. ASSUME todo # <<>>, Head(todo) = "removeSpool", Done PROVE FALSE
      <4>1. RemoveSpool
        BY <1>1, <3>2, StepDone
      <4> QED BY <1>1, <1>2, <4>1 DEF RemoveSpool, Good, TypeOK
    <3> QED BY <1>1, <2>1, <3>1, <3>2, ToCome
  <2>2. CASE Accept /\ opening.role = "scratch"
    <3>1. spool' = [named |-> IsRegular(opened), name |-> opening.name, id |-> opened]
      BY <2>2 DEF Accept
    <3>2. opening # NotOpening
      BY <2>2 DEF Accept, NotOpening
    <3>3. todo # <<>> /\ Head(todo) \in Spools /\ opening.name = request.scratch
      BY <1>1, <2>2, <3>2 DEF Named, Beginning
    <3>4. Spooling'
      <4>1. Head(todo) \in Fits(request) /\ opening.name \in Names
        BY <1>1, <3>2, <3>3, GoingOn, HeadPlaced DEF Alone, Sound, Going, Named
      <4>2. request.scratch # NoName
        BY <3>3, <4>1, NamesAssumption
      <4> QED BY <1>1, <3>3, <4>1, <4>2 DEF Spooling, Fits, Spools
    <3> QED BY <1>1, <3>1, <3>3, <3>4, PromisedLater
  <2>3. CASE Accept /\ opening.role # "scratch"
    <3>1. spool' = spool
      BY <2>3 DEF Accept
    <3> QED BY <2>1, <3>1
  <2>4. CASE ~ Accept
    BY <1>1, <1>2, <2>1, <2>4, ClaimSteps
  <2> QED BY <2>2, <2>3, <2>4
<1>3. ASSUME temps' # {} PROVE Pending({"deleteTemps"})'
  <2>1. CASE todo # <<>> /\ Head(todo) \in TempMakers
    BY <2>1, PromisedLater
  <2>2. CASE temps # {}
    <3>1. Pending({"deleteTemps"})
      BY <1>1, <2>2 DEF Left
    <3>2. ASSUME todo # <<>>, Head(todo) = "deleteTemps", Done PROVE FALSE
      <4>1. DeleteTemps
        BY <1>1, <3>2, StepDone
      <4> QED BY <1>3, <4>1 DEF DeleteTemps
    <3> QED BY <3>1, <3>2, ToCome
  <2> QED BY <1>3, <2>1, <2>2, TempsMade
<1> QED BY <1>1, <1>2, <1>3 DEF Left

(* What is opened is opened for its step.                                  *)
LEMMA BegunFor ==
  ASSUME Going, Begins
  PROVE  Beginning'
<1>1. /\ TypeOK /\ request' = request /\ todo' = todo /\ opening'.try = "exclusive"
  BY BeginsOutput, GoingOn DEF Going, Alone, Sound
<1>2. CASE CreateOutput \/ CreateIndex
  <2>1. /\ Head(todo) = "createOutput" => opening'.role = "output" /\ opening'.name = request.fo
        /\ Head(todo) = "createIndex" => opening'.role = "index" /\ opening'.name = request.index
        /\ opening'.role # "scratch"
    BY <1>2 DEF CreateOutput, CreateIndex, StartOpen, At
  <2> QED BY <1>1, <2>1 DEF Beginning
<1>3. CASE (Spool \/ Spill) /\ request.scratch # NoName
  <2>1. /\ Head(todo) \notin {"createOutput", "createIndex"}
        /\ opening'.role = "scratch" /\ opening'.name = request.scratch
    BY <1>3 DEF Spool, Spill, StartOpen, At
  <2> QED BY <1>1, <2>1 DEF Beginning
<1> QED BY <1>2, <1>3 DEF Begins

(* The file that is made.                                                  *)
LEMMA MadeNew ==
  ASSUME Going, NEW n \in Names, MakeFile(n), dir[n] = NoFile
  PROVE  /\ HasFresh /\ Fresh \in Ids /\ ~ InUse(Fresh) /\ Fresh # NoFile
         /\ dir' = [dir EXCEPT ![n] = Fresh] /\ dir'[n] = Fresh
         /\ handle' = [handle EXCEPT ![opening.role] = Fresh] /\ handle'[opening.role] = Fresh
         /\ file'[Fresh].kind = "regular" /\ file'[Fresh].text = {}
         /\ \A j \in Ids \ {Fresh} : file'[j] = file[j]
<1>1. TypeOK /\ dir \in [Names -> Ids \cup {NoFile}] /\ file \in [Ids -> File]
      /\ handle \in [Roles -> Ids \cup {NoFile}] /\ opening.role \in Roles
  BY GoingOn DEF TypeOK
<1>2. HasFresh /\ Fresh \in Ids /\ ~ InUse(Fresh) /\ Fresh # NoFile
  BY FreshIsFree, IdsAssumption DEF MakeFile
<1>3. file'[Fresh] = NewFile(Fresh) /\ \A j \in Ids \ {Fresh} : file'[j] = file[j]
  BY <1>1, <1>2 DEF MakeFile
<1>4. NewFile(Fresh).kind = "regular" /\ NewFile(Fresh).text = {}
  BY DEF NewFile
<1> QED BY <1>1, <1>2, <1>3, <1>4 DEF MakeFile

LEMMA BeginningOn ==
  ASSUME Going
  PROVE  Beginning'
<1>1. /\ Alone /\ Beginning /\ Underway /\ TypeOK /\ request' = request
  BY GoingOn DEF Going, Delivering, Traced
<1>2. CASE opening = NotOpening
  BY <1>1, <1>2, OpeningBegins, BegunFor DEF Beginning
<1>3. ASSUME opening # NotOpening, opening' # NotOpening PROVE Beginning'
  <2>1. /\ opening.name \in Names /\ opening.role \in Roles
        /\ opening \in [try: {"none", "exclusive", "plain", "create", "check"},
                        name: Names \cup {NoName}, role: Roles, existed: BOOLEAN]
        /\ handle \in [Roles -> Ids \cup {NoFile}]
    BY <1>1, <1>3 DEF Alone, Good, Named, TypeOK
  <2>2. TryExclusive \/ ExclusiveFails \/ TryPlain \/ TryCreate
    BY <1>1, <1>3, OpeningGoesOn
  <2>3. /\ todo' = todo /\ opening'.name = opening.name /\ opening'.role = opening.role
    BY <2>1, <2>2 DEF TryExclusive, ExclusiveFails, TryPlain, TryCreate
  <2>4. PICK n \in Names : n = opening.name
    BY <2>1
  <2>5. /\ Led(n)' = dir'[Target(n)] /\ Target(n) \in Names /\ Led(n) = dir[Target(n)]
    BY <1>1, LinksStay
  <2>6. opened' = handle'[opening.role]
    BY <2>3 DEF opened
  <2>7. ASSUME MakeFile(Target(n)), dir[Target(n)] = NoFile
        PROVE  opened' = Led(n)' /\ opened' # NoFile /\ file'[opened'].text = {}
    <3>1. PICK t \in Names : t = Target(n)
      BY <2>5
    <3>2. /\ dir'[t] = Fresh /\ Fresh # NoFile /\ file'[Fresh].text = {}
          /\ handle'[opening.role] = Fresh
      BY <2>7, <3>1, MadeNew
    <3> QED BY <2>5, <2>6, <3>1, <3>2
  <2>8. ASSUME handle' = [handle EXCEPT ![opening.role] = Led(n)], Led(n) # NoFile, worldVars' = worldVars
        PROVE  opened' = Led(n)' /\ opened' # NoFile
    BY <2>1, <2>5, <2>6, <2>8 DEF worldVars
  <2>9. opening'.try = "check" => opened' = Led(n)' /\ opened' # NoFile
                                  /\ (~ opening'.existed => file'[opened'].text = {})
    <3>1. CASE TryExclusive
      <4>1. CASE dir[opening.name] = NoFile
        <5>1. Target(n) = n /\ MakeFile(n)
          BY <2>4, <3>1, <4>1 DEF TryExclusive, Target
        <5> QED BY <2>4, <2>7, <4>1, <5>1
      <4>2. CASE dir[opening.name] # NoFile
        <5>1. opening'.try = "plain"
          BY <2>1, <3>1, <4>2 DEF TryExclusive
        <5> QED BY <5>1
      <4> QED BY <4>1, <4>2
    <3>2. CASE ExclusiveFails
      <4>1. opening'.try = "create"
        BY <2>1, <3>2 DEF ExclusiveFails
      <4> QED BY <4>1
    <3>3. CASE TryPlain
      <4>1. CASE Led(opening.name) = NoFile
        <5>1. opening'.try = "create"
          BY <2>1, <3>3, <4>1 DEF TryPlain
        <5> QED BY <5>1
      <4>2. CASE Led(opening.name) # NoFile
        <5>1. opening'.existed /\ worldVars' = worldVars
              /\ handle' = [handle EXCEPT ![opening.role] = Led(opening.name)]
          BY <2>1, <3>3, <4>2 DEF TryPlain
        <5> QED BY <2>4, <2>8, <4>2, <5>1
      <4> QED BY <4>1, <4>2
    <3>4. CASE TryCreate
      <4>1. CASE Led(opening.name) = NoFile
        <5>1. MakeFile(Target(n)) /\ dir[Target(n)] = NoFile
          BY <2>4, <2>5, <3>4, <4>1 DEF TryCreate
        <5> QED BY <2>7, <5>1
      <4>2. CASE Led(opening.name) # NoFile
        <5>1. /\ worldVars' = worldVars /\ opening'.existed = opening.existed
              /\ handle' = [handle EXCEPT ![opening.role] = Led(opening.name)]
          BY <2>1, <3>4, <4>2 DEF TryCreate
        <5>2. opening.existed
          BY <1>1, <1>3, <3>4, <4>2 DEF Underway, TryCreate
        <5> QED BY <2>4, <2>8, <4>2, <5>1, <5>2
      <4> QED BY <4>1, <4>2
    <3> QED BY <2>2, <3>1, <3>2, <3>3, <3>4
  <2>10. opening'.try = "check" =>
           opened' = Led(opening.name)' /\ opened' # NoFile
           /\ (~ opening'.existed => file'[opened'].text = {})
    <3>1. opening'.name = n
      BY <2>3, <2>4
    <3>2. Led(n)' = Led(opening.name)'
      BY <2>3, <2>4 DEF Led, Target
    <3> QED BY <2>9, <3>1, <3>2
  <2> QED BY <1>1, <1>3, <2>3, <2>10 DEF Beginning
<1> QED BY <1>2, <1>3 DEF Beginning

-----------------------------------------------------------------------------
(* The bytes that a step adds.                                             *)

(* The text a file has when someone has written to it.                     *)
With(text, who) == text \cup {who}

LEMMA WrittenExactly ==
  ASSUME NEW f \in [Ids -> File], NEW i \in Ids \cup {NoFile}, NEW who \in Authors, NEW j \in Ids
  PROVE  /\ Written(f, i, who) \in [Ids -> File]
         /\ Written(f, i, who)[j].kind = f[j].kind
         /\ j = i /\ f[j].kind = "regular" => Written(f, i, who)[j].text = With(f[j].text, who)
         /\ j # i => Written(f, i, who)[j] = f[j]
<1>1. ASSUME j = i, f[j].kind = "regular"
      PROVE  Written(f, i, who)[j].text = With(f[j].text, who)
  <2> DEFINE r == f[i]
             x == r.text \cup {who}
             g == [r EXCEPT !.text = x, !.stamp = r.stamp + 1]
  <2>1. Written(f, i, who) = [f EXCEPT ![i] = g]
    BY <1>1, IdsAssumption DEF Written
  <2>2. r \in [kind: {"regular", "device"}, to: {NoName}, text: SUBSET Authors, stamp: Nat]
    BY <1>1 DEF File, Link
  <2>3. x \in SUBSET Authors
    BY <2>2
  <2> HIDE DEF r, x
  <2>4. g.text = x
    BY <2>2, <2>3
  <2> HIDE DEF g
  <2> QED BY <1>1, <2>1, <2>4 DEF r, x, With
<1>2. /\ Written(f, i, who) \in [Ids -> File]
      /\ \A k \in Ids : Written(f, i, who)[k].kind = f[k].kind
      /\ \A k \in Ids : k # i \/ f[k].kind # "regular" => Written(f, i, who)[k] = f[k]
  BY WrittenFile
<1> DEFINE w == Written(f, i, who)
<1>3. j # i => w[j] = f[j]
  BY <1>2
<1>4. w[j].kind = f[j].kind
  BY <1>2
<1> HIDE DEF w
<1> QED BY <1>1, <1>2, <1>3, <1>4 DEF w

(* What a file holds after one writer wrote, and after two did.            *)
LEMMA OneWritten ==
  ASSUME NEW f \in [Ids -> File], NEW p \in Ids \cup {NoFile}, NEW a \in Authors,
         NEW g, g = Written(f, p, a)
  PROVE  /\ g \in [Ids -> File]
         /\ \A i \in Ids : g[i].kind = f[i].kind
         /\ \A i \in Ids \ {p} : g[i].text = f[i].text
         /\ p \in Ids /\ f[p].kind = "regular" => g[p].text = With(f[p].text, a)
<1>1. g \in [Ids -> File] /\ \A i \in Ids : g[i].kind = f[i].kind
  BY WrittenFile
<1>2. ASSUME p \in Ids, f[p].kind = "regular" PROVE g[p].text = With(f[p].text, a)
  BY <1>2, WrittenExactly
<1>3. ASSUME NEW i \in Ids \ {p} PROVE g[i] = f[i]
  BY <1>3, WrittenFile
<1> QED BY <1>1, <1>2, <1>3

LEMMA TwoWritten ==
  ASSUME NEW f \in [Ids -> File], NEW p \in Ids \cup {NoFile}, NEW a \in Authors,
         NEW y \in Ids \cup {NoFile}, NEW b \in Authors,
         NEW g, g = Written(Written(f, p, a), y, b)
  PROVE  /\ p \in Ids /\ f[p].kind = "regular" /\ p # y => g[p].text = With(f[p].text, a)
         /\ y \in Ids /\ f[y].kind = "regular" /\ p # y => g[y].text = With(f[y].text, b)
         /\ \A i \in Ids \ {p, y} : g[i].text = f[i].text
<1>1. PICK h : h = Written(f, p, a)
  OBVIOUS
<1>2. /\ h \in [Ids -> File]
      /\ \A i \in Ids : h[i].kind = f[i].kind
      /\ \A i \in Ids \ {p} : h[i].text = f[i].text
      /\ p \in Ids /\ f[p].kind = "regular" => h[p].text = With(f[p].text, a)
  BY <1>1, OneWritten
<1>3. g = Written(h, y, b)
  BY <1>1
<1>4. /\ \A i \in Ids \ {y} : g[i].text = h[i].text
      /\ y \in Ids /\ h[y].kind = "regular" => g[y].text = With(h[y].text, b)
  BY <1>2, <1>3, OneWritten
<1> QED BY <1>2, <1>4

LEMMA EmptiedText ==
  ASSUME NEW f \in [Ids -> File], NEW i \in Ids, f[i].kind = "regular"
  PROVE  Emptied(f, i)[i].text = {}
<1> DEFINE r == f[i]
           g == [r EXCEPT !.text = {}, !.stamp = r.stamp + 1]
<1>1. Emptied(f, i) = [f EXCEPT ![i] = g]
  BY DEF Emptied
<1>2. r \in [kind: {"regular", "device"}, to: {NoName}, text: SUBSET Authors, stamp: Nat]
  BY DEF File, Link
<1> HIDE DEF r
<1>3. g.text = {}
  BY <1>2
<1> HIDE DEF g
<1> QED BY <1>1, <1>3

(* The file accepted is empty.                                             *)
LEMMA AcceptedEmpty ==
  ASSUME Going, Accept, IsRegular(opened)
  PROVE  opened \in Ids /\ file'[opened].text = {}
<1>1. /\ opening # NotOpening /\ opening.try = "check" /\ opened \in Ids \cup {NoFile}
      /\ file \in [Ids -> File]
  BY GoingOn, OpenedType DEF Accept, NotOpening, TypeOK
<1>2. opened \in Ids /\ file[opened].kind = "regular"
  BY <1>1, IdsAssumption DEF IsRegular
<1>3. CASE opening.existed
  BY <1>1, <1>2, <1>3, EmptiedText DEF Accept
<1>4. CASE ~ opening.existed
  BY <1>1, <1>2, <1>4 DEF Accept, Going, Delivering, Beginning
<1> QED BY <1>2, <1>3, <1>4

LEMMA BytesStay ==
  ASSUME Going, NEW k \in Ids, InUse(k)
  PROVE  \/ file'[k] = file[k]
         \/ Accept /\ k = opened /\ IsRegular(k)
         \/ CheckUnchanged /\ request.talks /\ k = request.stderr
         \/ WritesData /\ IsRegular(k)
<1>1. TypeOK /\ TodoOK /\ Alone /\ k # NoFile /\ ~ failed /\ Next /\ meddled' = meddled /\ Planned
  BY GoingOn, IdsAssumption DEF Going, Alone, Sound
<1>2. CASE WritesData
  BY <1>1, <1>2, WorkWrites DEF WritesData, IsRegular
<1>3. CASE CheckUnchanged
  <2>1. PICK e \in Ids \cup {NoFile} : e = IF request.talks THEN request.stderr ELSE NoFile
    BY <1>1, RequestFields DEF TypeOK
  <2>2. file' = file \/ file' = Written(file, e, "messages")
    BY <1>3, <2>1 DEF CheckUnchanged
  <2>3. file \in [Ids -> File] /\ "messages" \in Authors
    BY <1>1 DEF TypeOK, Authors
  <2>4. k # e => Written(file, e, "messages")[k] = file[k]
    BY <2>3, WrittenExactly
  <2> QED BY <1>1, <1>3, <2>1, <2>2, <2>4
<1>4. CASE ~ WritesData /\ ~ CheckUnchanged
  <2>1. ~ At("report")
    BY <1>1, HeadPlaced DEF At, Fits
  <2> QED BY <1>1, <1>4, <2>1, RestWrites DEF WritesData, IsRegular
<1> QED BY <1>2, <1>3, <1>4

(* An output claimed is a file of its own.                                 *)
LEMMA ClaimApart ==
  ASSUME Going, NEW c \in claimed
  PROVE  /\ c[1] \in Names /\ c[2] = Led(c[1]) /\ c[2] \in Ids /\ InUse(c[2]) /\ IsRegular(c[2])
         /\ c[2] \in writes /\ c[2] \notin temps
         /\ request.talks => c[2] # request.stderr
         /\ request.fo = Std => c[2] # request.stdout
         /\ opening = NotOpening => c[2] # handle["scratch"]
<1>1. /\ TypeOK /\ Owned /\ Rule /\ StreamsAside /\ Outputs \subseteq Names
      /\ file \in [Ids -> File] /\ dir \in [Names -> Ids \cup {NoFile}]
  BY GoingOn, OutputNames DEF Going, Alone, Traced, Delivering, TypeOK
<1>2. /\ c[1] \in Names /\ c[2] = Led(c[1]) /\ IsRegular(c[2]) /\ c[2] \in writes
      /\ spool.named => c[2] # spool.id
  BY <1>1 DEF Owned, Own
<1>3. c[2] \in Ids /\ InUse(c[2]) /\ Target(c[1]) \in Names
  BY <1>1, <1>2, LedInUse, LedType DEF IsRegular
<1>4. c[2] \notin temps
  BY <1>1, <1>2, <1>3 DEF Rule, Outside, Led
<1>5. ASSUME opening = NotOpening, c[2] = handle["scratch"] PROVE FALSE
  <2>1. "scratch" \in OpenToWrite
    BY <1>2, <1>5 DEF OpenToWrite, Writers, NotOpening
  <2> QED BY <1>1, <1>2, <1>4, <1>5, <2>1 DEF Rule, Kept
<1> QED BY <1>1, <1>2, <1>3, <1>4, <1>5 DEF StreamsAside

(* The steps that write add to an output its own bytes, if it is open to   *)
(* them.                                                                   *)
LEMMA OutletWritten ==
  ASSUME Going, NEW role \in {"output", "index"}, NEW c \in claimed,
         role = "output" => request.fo # Std,
         \A r \in OpenToWrite \cap {"output", "index"} : r # role => handle[r] # c[2]
  PROVE  /\ WritesData =>
              \/ file'[c[2]].text = file[c[2]].text
              \/ file'[c[2]].text = With(file[c[2]].text, role)
         /\ handle[role] = c[2] =>
              /\ Encode \/ (role = "output" /\ (Decode \/ (CopyOut /\ request.dup))) =>
                   file'[c[2]].text = With(file[c[2]].text, role)
<1>1. PICK i \in Ids : i = c[2]
  BY ClaimApart
<1>2. /\ TypeOK /\ file \in [Ids -> File] /\ file[i].kind = "regular" /\ i # NoFile
      /\ request.fo = Std => i # request.stdout
      /\ opening = NotOpening => i # handle["scratch"]
  BY <1>1, ClaimApart, GoingOn DEF TypeOK, IsRegular
<1>3. /\ handle["output"] \in Ids \cup {NoFile} /\ handle["index"] \in Ids \cup {NoFile}
      /\ handle["scratch"] \in Ids \cup {NoFile} /\ request.stdout \in Ids \cup {NoFile}
      /\ "output" \in Authors /\ "index" \in Authors /\ "scratch" \in Authors
  BY <1>2, HandleType, RequestFields DEF Writers, Authors, TypeOK
<1>4. ASSUME opening = NotOpening, NEW r \in {"output", "index"}, r # role PROVE handle[r] # i
  <2>1. CASE IsRegular(handle[r])
    BY <1>1, <1>4, <2>1 DEF OpenToWrite, Writers, NotOpening
  <2>2. CASE ~ IsRegular(handle[r])
    BY <1>2, <2>2 DEF IsRegular
  <2> QED BY <2>1, <2>2
<1> DEFINE same == file'[i].text = file[i].text
           more == file'[i].text = file[i].text \cup {role}
<1>5. CASE CopyStdin
  <2>1. same
    <3>1. PICK z \in Ids \cup {NoFile} : z = handle["scratch"]
      BY <1>3
    <3>2. file' = Written(file, z, "scratch") /\ i # z
      BY <1>2, <1>5, <3>1 DEF CopyStdin, At
    <3>3. Written(file, z, "scratch")[i] = file[i]
      <4>1. file \in [Ids -> File] /\ "scratch" \in Authors /\ i # z
        BY <1>2, <1>3, <3>2
      <4> QED BY <4>1, WrittenExactly
    <3> QED BY <3>2, <3>3
  <2>2. ~ Encode /\ ~ Decode /\ ~ CopyOut
    BY <1>5 DEF CopyStdin, Encode, Decode, CopyOut, At
  <2> QED BY <1>1, <2>1, <2>2
<1>6. CASE Encode
  <2>1. PICK p \in Ids \cup {NoFile} : p = OutputFile
    BY <1>3 DEF OutputFile
  <2>2. PICK y \in Ids \cup {NoFile} : y = handle["index"]
    BY <1>3
  <2>3. opening = NotOpening /\ file' = Written(Written(file, p, "output"), y, "index")
    BY <1>6, <2>1, <2>2 DEF Encode, At
  <2>4. /\ i = p /\ i # y => file'[i].text = With(file[i].text, "output")
        /\ i # p /\ i = y => file'[i].text = With(file[i].text, "index")
        /\ i # p /\ i # y => file'[i].text = file[i].text
    <3>1. file \in [Ids -> File] /\ "output" \in Authors /\ "index" \in Authors
          /\ file[i].kind = "regular"
      BY <1>2, <1>3
    <3>2. /\ p \in Ids /\ file[p].kind = "regular" /\ p # y => file'[p].text = With(file[p].text, "output")
          /\ y \in Ids /\ file[y].kind = "regular" /\ p # y => file'[y].text = With(file[y].text, "index")
          /\ \A k \in Ids \ {p, y} : file'[k].text = file[k].text
      BY <2>3, <3>1, TwoWritten
    <3> QED BY <3>1, <3>2
  <2>6. CASE role = "output"
    <3>1. p = handle["output"] /\ i # y
      BY <1>4, <2>1, <2>2, <2>3, <2>6 DEF OutputFile
    <3> QED BY <1>1, <2>4, <2>6, <3>1
  <2>7. CASE role = "index"
    <3>1. p # i
      BY <1>2, <1>4, <2>1, <2>3, <2>7 DEF OutputFile
    <3> QED BY <1>1, <2>2, <2>4, <2>7, <3>1
  <2> QED BY <2>6, <2>7
<1>7. CASE Decode
  <2>1. PICK p \in Ids \cup {NoFile} : p = handle["output"]
    BY <1>3
  <2>2. PICK z \in Ids \cup {NoFile} : z = handle["scratch"]
    BY <1>3
  <2>3. /\ opening = NotOpening /\ ~ Encode /\ ~ CopyOut /\ i # z
        /\ file' = Written(Written(file, p, "output"), z, "scratch")
    BY <1>2, <1>7, <2>1, <2>2 DEF Decode, Encode, CopyOut, At
  <2>4. /\ i = p => file'[i].text = With(file[i].text, "output")
        /\ i # p => file'[i].text = file[i].text
    <3>1. file \in [Ids -> File] /\ "output" \in Authors /\ "scratch" \in Authors
          /\ file[i].kind = "regular"
      BY <1>2, <1>3
    <3>2. /\ p \in Ids /\ file[p].kind = "regular" /\ p # z => file'[p].text = With(file[p].text, "output")
          /\ \A k \in Ids \ {p, z} : file'[k].text = file[k].text
      BY <2>3, <3>1, TwoWritten
    <3> QED BY <2>3, <3>1, <3>2
  <2>6. CASE role = "output"
    BY <1>1, <2>1, <2>3, <2>4, <2>6
  <2>7. CASE role = "index"
    <3>1. p # i
      BY <1>4, <2>1, <2>3, <2>7
    <3> QED BY <1>1, <2>3, <2>4, <2>7, <3>1
  <2> QED BY <2>6, <2>7
<1>8. CASE CopyOut
  <2>1. PICK p \in Ids \cup {NoFile} : p = IF request.fo = Std \/ request.dup THEN OutputFile ELSE NoFile
    BY <1>3 DEF OutputFile
  <2>2. opening = NotOpening /\ file' = Written(file, p, "output") /\ ~ Encode /\ ~ Decode
    BY <1>8, <2>1 DEF Decode, Encode, CopyOut, At
  <2>3. /\ i = p => file'[i].text = With(file[i].text, "output")
        /\ i # p => file'[i].text = file[i].text
    <3>1. file \in [Ids -> File] /\ "output" \in Authors /\ file[i].kind = "regular"
      BY <1>2, <1>3
    <3>2. /\ p \in Ids /\ file[p].kind = "regular" => file'[p].text = With(file[p].text, "output")
          /\ \A k \in Ids \ {p} : file'[k].text = file[k].text
      BY <2>2, <3>1, OneWritten
    <3> QED BY <3>1, <3>2
  <2>4. CASE role = "output"
    <3>1. request.dup => p = handle["output"]
      BY <2>1, <2>4 DEF OutputFile
    <3> QED BY <1>1, <2>2, <2>3, <2>4, <3>1
  <2>5. CASE role = "index"
    <3>1. p # i
      BY <1>2, <1>4, <2>1, <2>2, <2>5 DEF OutputFile
    <3> QED BY <1>1, <2>2, <2>3, <2>5, <3>1
  <2> QED BY <2>4, <2>5
<1> QED BY <1>5, <1>6, <1>7, <1>8 DEF WritesData

(* An output that is open stays so until all is closed.                    *)
LEMMA OutletOpen ==
  ASSUME Going, NEW r \in {"output", "index"}, opening = NotOpening \/ opening.role # r, ~ Close
  PROVE  handle'[r] = handle[r]
<1>1. /\ handle \in [Roles -> Ids \cup {NoFile}] /\ r \in Roles /\ r # "scratch" /\ r # "input"
      /\ ~ Fail /\ Next /\ ~ Other
  BY GoingOn, AloneMoves DEF Going, Alone, TypeOK, Roles, Writers
<1>2. CASE Checking
  BY <1>2 DEF Checking, NoteInput, NoteIndex, NoteStderr, NoteStdout, NoteStdWritten, CheckNames,
              Stamp, dataVars
<1>3. CASE Opening
  <2>1. CASE CreateIndex \/ CreateOutput \/ ExclusiveFails \/ OpenFails \/ Accept
    BY <1>1, <2>1 DEF CreateIndex, CreateOutput, StartOpen, ExclusiveFails, OpenFails, Accept, dataVars
  <2>2. CASE TryExclusive \/ TryPlain \/ TryCreate
    <3>1. opening.role # r
      BY <2>2 DEF TryExclusive, TryPlain, TryCreate, NotOpening
    <3>2. handle' = handle \/ \E i : handle' = [handle EXCEPT ![opening.role] = i]
      BY <2>2 DEF TryExclusive, TryPlain, TryCreate, MakeFile
    <3> QED BY <1>1, <3>1, <3>2
  <2>3. CASE Refuse \/ TruncateFails
    BY <1>1, <2>3 DEF Refuse, TruncateFails
  <2> QED BY <1>3, <2>1, <2>2, <2>3 DEF Opening
<1>4. CASE Temps
  <2>1. handle' = handle \/ handle' = [handle EXCEPT !["scratch"] = NoFile]
    BY <1>4 DEF Temps, NewTemp, Spool, StartOpen, CopyStdin, DeleteTemps, RemoveSpool, dataVars
  <2> QED BY <1>1, <2>1
<1>5. CASE Working
  <2>1. \/ handle' = handle \/ handle' = [handle EXCEPT !["input"] = InputFile]
        \/ handle' = [handle EXCEPT !["scratch"] = Fresh]
    BY <1>5 DEF Working, Sniff, OpenInput, OpenIndex, Dedup, Encode, Decode, Spill, StartOpen,
                CopyOut, Breaks, dataVars
  <2> QED BY <1>1, <2>1
<1>6. CASE Ending \/ Stopped
  BY <1>6 DEF Ending, Close, CheckUnchanged, DeleteInput, RemoveClaimed, Report, Stopped, vars,
              dataVars
<1> QED BY <1>1, <1>2, <1>3, <1>4, <1>5, <1>6 DEF Next, Run

(* What the run claimed it goes on claiming, and it stays where it was.    *)
LEMMA ClaimStays ==
  ASSUME Going, NEW c \in claimed
  PROVE  c \in claimed' /\ Led(c[1])' = c[2] /\ IsRegular(c[2])'
<1>1. /\ Alone /\ Owned /\ Underway /\ ~ failed /\ TodoOK /\ Planned
  BY GoingOn DEF Going, Traced, Alone, Sound
<1>2. ~ RemoveClaimed
  BY <1>1, HeadPlaced DEF RemoveClaimed, At, Fits
<1>3. c \in claimed'
  BY <1>1, <1>2, ClaimSteps, Accepted
<1>4. /\ c[1] \in Names /\ c[2] = Led(c[1]) /\ c[2] \in Ids /\ InUse(c[2]) /\ IsRegular(c[2])
  BY ClaimApart
<1>5. Led(c[1])' = Led(c[1])
  <2>1. ~ Made(Target(c[1]))
    BY <1>1, <1>4, LedStays DEF IsRegular
  <2>2. ~ Gone(Target(c[1]))
    <3> SUFFICES ASSUME Gone(Target(c[1])) PROVE FALSE
      OBVIOUS
    <3>1. ~ Refuse
      BY GoingOn DEF Refuse
    <3>2. spool.named /\ dir[Target(c[1])] = spool.id
      BY <1>2, <3>1 DEF Gone
    <3> QED BY <1>1, <1>4, <3>2 DEF Owned, Led
  <2> QED BY <1>1, <1>4, <2>1, <2>2, LedStays
<1>6. IsRegular(c[2])'
  BY <1>1, <1>4, RegularInUse
<1> QED BY <1>3, <1>4, <1>5, <1>6

(* The two outputs of a run, and their steps.                              *)
Outlet(q, role, name, create, write) ==
  \/ /\ role = "output" /\ name = q.fo /\ create = "createOutput" /\ write = WriteStep(q)
     /\ q.fo # Std
  \/ /\ role = "index" /\ name = q.index /\ create = "createIndex" /\ write = "encode"
     /\ q.mode = "compress" /\ q.index # NoName

(* An output is created: it is a file of its own, empty and open.          *)
LEMMA OutletCreated ==
  ASSUME Going, NEW role, NEW name, NEW create, NEW write,
         Outlet(request, role, name, create, write), Pending({create}), ~ Pending({create})'
  PROVE  /\ name \in Names /\ Led(name)' # NoFile
         /\ IsRegular(Led(name))' =>
              /\ <<name, Led(name)'>> \in claimed'
              /\ \A r \in OpenToWrite' \cap {"output", "index"} : r # role => handle'[r] # Led(name)'
              /\ file'[Led(name)'].text = {}
              /\ handle'[role] = Led(name)' /\ ServedFrom(write, todo', 1)
<1>1. /\ Alone /\ Beginning /\ Good /\ TypeOK /\ Rule /\ TodoOK /\ todo \in Seq(Steps)
      /\ request' = request /\ Promises(request, todo) /\ ~ failed' /\ ~ Fail
  BY GoingOn DEF Going, Delivering, Alone
<1>2. todo # <<>> /\ Head(todo) = create /\ Done
  BY ToCome
<1>3. create \in {"createOutput", "createIndex"} /\ role \in {"output", "index"}
  BY DEF Outlet
<1>4. Accept
  BY <1>2, <1>3, StepDone DEF Spool, At
<1>5. /\ opening # NotOpening /\ opening.try = "check" /\ opening' = NotOpening
      /\ opening.role = role /\ opening.name = name
  BY <1>1, <1>2, <1>3, <1>4 DEF Accept, NotOpening, Beginning, Outlet
<1>6. /\ name \in Names /\ opened = Led(name) /\ opened # NoFile /\ opened = handle[role]
  BY <1>1, <1>5 DEF Beginning, Good, Named, opened
<1>7. /\ dir' = dir /\ handle' = handle
      /\ IsRegular(opened) => <<name, opened>> \in claimed'
  BY <1>1, <1>3, <1>4, <1>5 DEF Accept
<1>8. PICK k : k = opened
  OBVIOUS
<1>9. Led(name)' = k /\ handle'[role] = k /\ k \in Ids /\ InUse(k)
  BY <1>1, <1>6, <1>7, <1>8, LinksStay, LedInUse
<1>10. IsRegular(k)' <=> IsRegular(k)
  BY <1>1, <1>9, RegularInUse
<1>11. ASSUME IsRegular(k) PROVE file'[k].text = {}
  BY <1>4, <1>8, <1>11, AcceptedEmpty
<1>12. ServedFrom(write, todo', 1)
  <2>1. Served(create, write, todo)
    BY <1>1 DEF Promises, Outlet
  <2> QED BY <1>1, <1>2, <2>1, ServedTail DEF Done
<1>13. ASSUME IsRegular(k), NEW r \in OpenToWrite' \cap {"output", "index"}, r # role
       PROVE  handle'[r] # k
  <2>1. OneWriter'
    BY <1>1, RuleKept DEF Alone, Rule
  <2>2. role \in OpenToWrite'
    <3>1. IsRegular(handle[role])' /\ role \in Writers
      BY <1>3, <1>9, <1>10, <1>13 DEF IsRegular, Writers
    <3> QED BY <1>5, <3>1 DEF OpenToWrite, NotOpening
  <2> QED BY <1>9, <1>13, <2>1, <2>2 DEF OneWriter
<1>14. k # NoFile /\ (IsRegular(k) => <<name, k>> \in claimed')
  BY <1>6, <1>7, <1>8
<1>15. IsRegular(Led(name))' <=> IsRegular(k)
  BY <1>9, <1>10 DEF IsRegular
<1> QED BY <1>6, <1>9, <1>11, <1>12, <1>13, <1>14, <1>15

LEMMA OutletNamed ==
  ASSUME Going, NEW role, NEW name, NEW create, NEW write, Outlet(request, role, name, create, write)
  PROVE  /\ name \in Names /\ role \in {"output", "index"} /\ create \in {"createOutput", "createIndex"}
         /\ write \in {"encode", "decode", "copyOut"} /\ (role = "output" => request.fo # Std)
<1>1. request \in Requests
  BY GoingOn DEF TypeOK
<1> QED BY <1>1, RequestFields DEF Outlet, WriteStep

(* Nothing else that is open writes to an output.                          *)
LEMMA OutletAlone ==
  ASSUME Going, NEW role \in {"output", "index"}, NEW c \in claimed,
         \A r \in OpenToWrite \cap {"output", "index"} : r # role => handle[r] # c[2]
  PROVE  \A r \in OpenToWrite' \cap {"output", "index"} : r # role => handle'[r] # c[2]
<1> SUFFICES ASSUME NEW r \in {"output", "index"}, r \in OpenToWrite', r # role, handle'[r] = c[2]
             PROVE  FALSE
  OBVIOUS
<1>1. Alone /\ IsRegular(c[2]) /\ c[2] \in writes
  BY ClaimApart DEF Going
<1>2. CASE ~ Accept
  BY <1>1, <1>2, OpenStays
<1>3. CASE Accept
  <2>1. handle' = handle
    BY <1>3, GoingOn DEF Accept
  <2>2. opening.role # r
    BY <1>1, <1>3, <2>1 DEF Accept, Taken, opened
  <2>3. r \in OpenToWrite
    BY <1>1, <2>1, <2>2 DEF OpenToWrite, Writers
  <2> QED BY <2>1, <2>3
<1> QED BY <1>2, <1>3

LEMMA OutletKept ==
  ASSUME Going, NEW role, NEW name, NEW create, NEW write,
         Outlet(request, role, name, create, write), Ready(role, name, create, write),
         ~ Pending({create})
  PROVE  Ready(role, name, create, write)'
<1>1. /\ Alone /\ Beginning /\ Named /\ TypeOK /\ TodoOK /\ todo \in Seq(Steps) /\ todo \in Seq(Steps)
      /\ UNCHANGED <<todo, failed>> \/ (todo # <<>> /\ Done)
  BY GoingOn DEF Going, Delivering, Alone, Good
<1>2. /\ name \in Names /\ role \in {"output", "index"} /\ create \in {"createOutput", "createIndex"}
      /\ write \in {"encode", "decode", "copyOut"} /\ (role = "output" => request.fo # Std)
  BY OutletNamed
<1>3. PICK i : i = Led(name)
  OBVIOUS
<1>4. /\ i # NoFile /\ i \in Ids /\ InUse(i)
      /\ IsRegular(i) =>
           /\ <<name, i>> \in claimed
           /\ \A r \in OpenToWrite \cap {"output", "index"} : r # role => handle[r] # i
           /\ \/ file[i].text = {role}
              \/ file[i].text = {} /\ handle[role] = i /\ ServedFrom(write, todo, 1)
  BY <1>1, <1>2, <1>3, LedInUse DEF Ready
<1>5. IsRegular(i)' <=> IsRegular(i)
  BY <1>1, <1>4, RegularInUse
<1>6. CASE ~ IsRegular(i)
  <2>1. Led(name)' = i
    BY <1>1, <1>2, <1>3, <1>4, <1>6, LedStays
  <2>2. ~ IsRegular(Led(name))'
    BY <1>5, <1>6, <2>1 DEF IsRegular
  <2> QED BY <1>4, <2>1, <2>2 DEF Ready
<1>7. CASE IsRegular(i)
  <2>1. PICK c \in claimed : c = <<name, i>> /\ c[1] = name /\ c[2] = i
    BY <1>4, <1>7
  <2>2. c \in claimed' /\ Led(name)' = i
    BY <2>1, ClaimStays
  <2>3. \A r \in OpenToWrite' \cap {"output", "index"} : r # role => handle'[r] # i
    BY <1>2, <1>4, <1>7, <2>1, OutletAlone
  <2>4. /\ i \in writes /\ (request.talks => i # request.stderr)
    BY <2>1, ClaimApart
  <2>5. ~ (Accept /\ i = opened)
    BY <1>7, <2>4 DEF Accept, Taken
  <2>6. /\ file'[i].text = file[i].text \/ file'[i].text = With(file[i].text, role)
        /\ handle[role] = i /\ (Encode \/ (role = "output" /\ (Decode \/ (CopyOut /\ request.dup)))) =>
             file'[i].text = With(file[i].text, role)
    <3>1. /\ WritesData => \/ file'[c[2]].text = file[c[2]].text
                           \/ file'[c[2]].text = With(file[c[2]].text, role)
          /\ handle[role] = c[2] =>
               /\ Encode \/ (role = "output" /\ (Decode \/ (CopyOut /\ request.dup))) =>
                    file'[c[2]].text = With(file[c[2]].text, role)
      BY <1>2, <1>4, <1>7, <2>1, OutletWritten
    <3>2. file'[i] = file[i] \/ WritesData
      BY <1>4, <2>4, <2>5, BytesStay
    <3> QED BY <2>1, <3>1, <3>2
  <2>7. CASE file[i].text = {role}
    <3>1. file'[i].text = {role}
      BY <2>6, <2>7 DEF With
    <3> QED BY <1>4, <2>1, <2>2, <2>3, <3>1 DEF Ready
  <2>8. CASE file[i].text = {} /\ handle[role] = i /\ ServedFrom(write, todo, 1)
    <3>1. CASE file'[i].text # {}
      <4>1. file'[i].text = {role}
        BY <2>6, <2>8, <3>1 DEF With
      <4> QED BY <1>4, <2>1, <2>2, <2>3, <4>1 DEF Ready
    <3>2. CASE file'[i].text = {}
      <4>1. opening = NotOpening \/ opening.role # role
        <5> SUFFICES ASSUME opening # NotOpening, opening.role = role PROVE FALSE
          OBVIOUS
        <5>1. todo # <<>> /\ Head(todo) \in {"createIndex", "createOutput"}
          BY <1>1, <1>2 DEF Named, Opens
        <5>2. Head(todo) = create
          BY <1>1, <5>1 DEF Beginning, Outlet
        <5>3. Pending({create})
          BY <1>1, <5>1, <5>2, HeadLeads
        <5> QED BY <5>3
      <4>2. ~ Close /\ (todo # <<>> /\ Head(todo) # write => ServedFrom(write, Tail(todo), 1))
        BY <1>1, <1>2, <2>8, ServedLater DEF Close, At
      <4>3. handle'[role] = i
        BY <1>2, <2>8, <4>1, <4>2, OutletOpen
      <4>4. ServedFrom(write, todo', 1)
        <5>1. CASE todo' = todo
          BY <2>8, <5>1 DEF ServedFrom
        <5>2. CASE todo # <<>> /\ Done
          <6>1. CASE Head(todo) = write
            <7>1. Encode \/ (role = "output" /\ (Decode \/ (CopyOut /\ request.dup)))
              <8>1. /\ Head(todo) = "encode" => Encode
                    /\ Head(todo) = "decode" => Decode
                    /\ Head(todo) = "copyOut" => CopyOut
                BY <5>2, StepDone
              <8> QED BY <6>1, <8>1 DEF Outlet, WriteStep
            <7> QED BY <2>6, <2>8, <3>2, <7>1 DEF With
          <6>2. CASE Head(todo) # write
            BY <4>2, <5>2, <6>2 DEF Done
          <6> QED BY <6>1, <6>2
        <5> QED BY <1>1, <5>1, <5>2
      <4> QED BY <1>4, <2>1, <2>2, <2>3, <3>2, <4>3, <4>4 DEF Ready
    <3> QED BY <3>1, <3>2
  <2> QED BY <1>4, <1>7, <2>7, <2>8
<1> QED BY <1>6, <1>7

LEMMA OutletReady ==
  ASSUME Going, NEW role, NEW name, NEW create, NEW write,
         Outlet(request, role, name, create, write), Ready(role, name, create, write)
  PROVE  Ready(role, name, create, write)'
<1>1. CASE Pending({create})'
  BY <1>1 DEF Ready
<1>2. CASE ~ Pending({create})' /\ Pending({create})
  BY <1>2, OutletCreated DEF Ready
<1>3. CASE ~ Pending({create})
  BY <1>3, OutletKept
<1> QED BY <1>1, <1>2, <1>3

LEMMA OutletsOn ==
  ASSUME Going
  PROVE  Outlets'
<1>1. Outlets /\ request' = request /\ request \in Requests
  BY GoingOn DEF Going, Delivering, TypeOK
<1>2. ASSUME request.fo # Std
      PROVE  Ready("output", request.fo, "createOutput", WriteStep(request))'
  <2>1. PICK name, write : name = request.fo /\ write = WriteStep(request)
    OBVIOUS
  <2>2. Led(name) = Led(request.fo)
    BY <2>1 DEF Led, Target
  <2>3. Ready("output", name, "createOutput", write)
    BY <1>1, <1>2, <2>1, <2>2 DEF Outlets, Ready
  <2>4. Ready("output", name, "createOutput", write)'
    BY <1>2, <2>1, <2>3, OutletReady DEF Outlet
  <2>5. name = request'.fo /\ write = WriteStep(request)' /\ Led(name)' = Led(request.fo)'
    BY <1>1, <2>1 DEF Led, Target, WriteStep
  <2> QED BY <2>4, <2>5 DEF Ready
<1>3. ASSUME request.mode = "compress", request.index # NoName
      PROVE  Ready("index", request.index, "createIndex", "encode")'
  <2>1. PICK name : name = request.index
    OBVIOUS
  <2>2. Led(name) = Led(request.index)
    BY <2>1 DEF Led, Target
  <2>3. Ready("index", name, "createIndex", "encode")
    BY <1>1, <1>3, <2>1, <2>2 DEF Outlets, Ready
  <2>4. Ready("index", name, "createIndex", "encode")'
    BY <1>3, <2>1, <2>3, OutletReady DEF Outlet
  <2>5. name = request'.index /\ Led(name)' = Led(request.index)'
    BY <1>1, <2>1 DEF Led, Target
  <2> QED BY <2>4, <2>5 DEF Ready
<1> QED BY <1>1, <1>2, <1>3 DEF Outlets

-----------------------------------------------------------------------------
(* The standard streams.                                                   *)

LEMMA ClaimsAside ==
  ASSUME Going, NEW c \in claimed'
  PROVE  /\ request.talks => c[2] # request.stderr
         /\ request.fo = Std => c[2] # request.stdout
<1>1. /\ Alone /\ Owned /\ Underway /\ StreamsAside /\ StreamsNoted /\ ~ failed
  BY GoingOn DEF Going, Delivering, Alone, Traced, Rule
<1>2. CASE c \in claimed
  BY <1>1, <1>2 DEF StreamsAside
<1>3. CASE c \notin claimed
  <2>1. Accept
    BY <1>1, <1>3, ClaimSteps
  <2>2. /\ c[2] = opened /\ IsRegular(opened) /\ opened \notin writes
        /\ ~ Pending({"noteStderr"}) /\ ~ Pending({"noteStdout"})
    <3>1. c = <<opening.name, opened>> /\ IsRegular(opened) /\ opened \notin writes
      BY <1>3, <2>1 DEF Accept, Taken
    <3>2. ~ Pending(CheckSteps)
      BY <1>1, <2>1, Accepted
    <3> QED BY <3>1, <3>2 DEF Pending, CheckSteps
  <2> QED BY <1>1, <2>2 DEF StreamsNoted, Noted
<1> QED BY <1>2, <1>3

(* Two streams that are both noted are two files.                          *)
LEMMA StreamsDiffer ==
  ASSUME Going, request.talks, request.fo = Std, NEW i \in Ids, i = request.stdout, IsRegular(i)
  PROVE  Pending({"noteStderr", "noteStdout"})' \/ i # request.stderr
<1>1. /\ StreamsAside /\ StreamsNoted /\ ~ failed
  BY GoingOn DEF Going, Delivering, Alone, Rule
<1> SUFFICES ASSUME ~ Pending({"noteStderr", "noteStdout"})', i = request.stderr PROVE FALSE
  OBVIOUS
<1>2. ~ Pending({"noteStderr"})' /\ ~ Pending({"noteStdout"})'
  BY DEF Pending
<1>3. Pending({"noteStderr"}) \/ Pending({"noteStdout"})
  BY <1>1 DEF StreamsAside, Pending
<1>4. CASE Pending({"noteStderr"})
  <2>1. todo # <<>> /\ Head(todo) = "noteStderr" /\ Done
    BY <1>2, <1>4, ToCome
  <2>2. NoteStderr /\ ~ Fail
    BY <2>1, StepDone, GoingOn
  <2>3. i \notin writes
    BY <2>2 DEF NoteStderr, NoteStdWritten, Taken
  <2>4. ASSUME Pending({"noteStdout"}) PROVE FALSE
    <3>1. Head(todo) = "noteStdout"
      BY <1>2, <2>4, ToCome
    <3> QED BY <2>1, <3>1
  <2> QED BY <1>1, <2>3, <2>4 DEF StreamsNoted, Noted
<1>5. CASE Pending({"noteStdout"})
  <2>1. todo # <<>> /\ Head(todo) = "noteStdout" /\ Done
    BY <1>2, <1>5, ToCome
  <2>2. NoteStdout /\ ~ Fail
    BY <2>1, StepDone, GoingOn
  <2>3. i \notin writes
    BY <2>2 DEF NoteStdout, NoteStdWritten, Taken
  <2>4. ASSUME Pending({"noteStderr"}) PROVE FALSE
    <3>1. Head(todo) = "noteStderr"
      BY <1>2, <2>4, ToCome
    <3> QED BY <2>1, <3>1
  <2> QED BY <1>1, <2>3, <2>4 DEF StreamsNoted, Noted
<1> QED BY <1>3, <1>4, <1>5

(* The steps that write add to standard output the output's bytes.         *)
LEMMA StdoutWritten ==
  ASSUME Going, request.fo = Std, NEW i \in Ids, i = request.stdout, IsRegular(i), WritesData
  PROVE  file'[i].text = file[i].text \/ file'[i].text = With(file[i].text, "output")
<1>1. /\ TypeOK /\ OneWriter /\ file \in [Ids -> File] /\ file[i].kind = "regular" /\ i # NoFile
  BY GoingOn DEF Going, Alone, Rule, TypeOK, IsRegular
<1>2. /\ handle["output"] \in Ids \cup {NoFile} /\ handle["index"] \in Ids \cup {NoFile}
      /\ handle["scratch"] \in Ids \cup {NoFile}
      /\ "output" \in Authors /\ "index" \in Authors /\ "scratch" \in Authors
  BY <1>1, HandleType DEF Writers, Authors
<1>3. opening = NotOpening
  BY DEF WritesData, CopyStdin, Encode, Decode, CopyOut, At
<1>4. ASSUME NEW r \in Writers PROVE handle[r] # i
  <2>1. handle[r] = i => r \in OpenToWrite
    BY <1>3 DEF OpenToWrite, NotOpening
  <2> QED BY <1>1, <2>1 DEF OneWriter
<1>5. PICK x, y, z \in Ids \cup {NoFile} :
        x = handle["output"] /\ y = handle["index"] /\ z = handle["scratch"]
  BY <1>2
<1>6. x # i /\ y # i /\ z # i
  BY <1>4, <1>5 DEF Writers
<1>7. CASE CopyStdin
  <2>1. file' = Written(file, z, "scratch")
    BY <1>5, <1>7 DEF CopyStdin
  <2>2. /\ z \in Ids /\ file[z].kind = "regular" => file'[z].text = With(file[z].text, "scratch")
        /\ \A k \in Ids \ {z} : file'[k].text = file[k].text
    <3>1. file \in [Ids -> File] /\ "scratch" \in Authors
      BY <1>1, <1>2
    <3> QED BY <2>1, <3>1, OneWritten
  <2> QED BY <1>6, <2>2
<1>8. CASE Encode
  <2>1. file' = Written(Written(file, i, "output"), y, "index")
    BY <1>5, <1>8 DEF Encode, OutputFile
  <2>2. /\ i \in Ids /\ file[i].kind = "regular" /\ i # y => file'[i].text = With(file[i].text, "output")
        /\ \A k \in Ids \ {i, y} : file'[k].text = file[k].text
    <3>1. file \in [Ids -> File] /\ "output" \in Authors /\ "index" \in Authors
      BY <1>1, <1>2
    <3>2. i \in Ids \cup {NoFile}
      OBVIOUS
    <3> QED BY <2>1, <3>1, <3>2, TwoWritten
  <2> QED BY <1>1, <1>6, <2>2
<1>9. CASE Decode
  <2>1. file' = Written(Written(file, x, "output"), z, "scratch")
    BY <1>5, <1>9 DEF Decode
  <2>2. /\ x \in Ids /\ file[x].kind = "regular" /\ x # z => file'[x].text = With(file[x].text, "output")
        /\ \A k \in Ids \ {x, z} : file'[k].text = file[k].text
    <3>1. file \in [Ids -> File] /\ "output" \in Authors /\ "scratch" \in Authors
      BY <1>1, <1>2
    <3> QED BY <2>1, <3>1, TwoWritten
  <2> QED BY <1>6, <2>2
<1>10. CASE CopyOut
  <2>1. file' = Written(file, i, "output")
    BY <1>10 DEF CopyOut, OutputFile
  <2>2. i \in Ids /\ file[i].kind = "regular" => file'[i].text = With(file[i].text, "output")
    <3>1. file \in [Ids -> File] /\ "output" \in Authors /\ i \in Ids \cup {NoFile}
      BY <1>1, <1>2
    <3> QED BY <2>1, <3>1, OneWritten
  <2> QED BY <1>1, <2>2
<1> QED BY <1>7, <1>8, <1>9, <1>10 DEF WritesData

LEMMA StreamsAsideOn ==
  ASSUME Going
  PROVE  StreamsAside'
<1>1. /\ Alone /\ TypeOK /\ TodoOK /\ StreamsAside /\ request' = request
      /\ request.stdout \in Ids \cup {NoFile}
  BY GoingOn, RequestFields DEF Going, Delivering, TypeOK
<1>2. ASSUME request.fo = Std, IsRegular(request.stdout)'
      PROVE  /\ request.talks => Pending({"noteStderr", "noteStdout"})' \/ request.stdout # request.stderr
             /\ file'[request.stdout].text \subseteq {"user", "output"}
  <2>1. PICK i \in Ids : i = request.stdout
    BY <1>1, <1>2 DEF IsRegular
  <2>2. InUse(i)
    BY <2>1 DEF InUse
  <2>3. IsRegular(i)
    <3>1. IsRegular(i)'
      BY <1>1, <1>2, <2>1 DEF IsRegular
    <3> QED BY <1>1, <2>2, <3>1, RegularInUse
  <2>4. file[i].text \subseteq {"user", "output"}
    BY <1>1, <1>2, <2>1, <2>3 DEF StreamsAside
  <2>5. file'[i].text \subseteq {"user", "output"}
    <3>1. CASE file'[i] = file[i]
      BY <2>4, <3>1
    <3>2. CASE Accept /\ i = opened /\ IsRegular(i)
      BY <3>2, AcceptedEmpty
    <3>3. CASE CheckUnchanged /\ request.talks /\ i = request.stderr
      <4>1. ~ Pending(CheckSteps)
        <5>1. todo # <<>> /\ Head(todo) \notin CheckSteps
          BY <3>3 DEF CheckUnchanged, At, CheckSteps
        <5> QED BY <1>1, <5>1, HeadLeads
      <4>2. Pending({"noteStderr", "noteStdout"})
        BY <1>1, <1>2, <2>1, <2>3, <3>3 DEF StreamsAside
      <4> QED BY <4>1, <4>2 DEF Pending, CheckSteps
    <3>4. CASE WritesData
      <4>1. file'[i].text = file[i].text \/ file'[i].text = With(file[i].text, "output")
        BY <1>2, <2>1, <2>3, <3>4, StdoutWritten
      <4> QED BY <2>4, <4>1 DEF With
    <3> QED BY <2>2, <3>1, <3>2, <3>3, <3>4, BytesStay
  <2>6. request.talks => Pending({"noteStderr", "noteStdout"})' \/ i # request.stderr
    BY <1>2, <2>1, <2>3, StreamsDiffer
  <2> QED BY <2>1, <2>5, <2>6
<1> QED BY <1>1, <1>2, ClaimsAside DEF StreamsAside

-----------------------------------------------------------------------------
(* The input.                                                              *)

LEMMA UnreadOn ==
  ASSUME Going
  PROVE  Unread'
<1>1. /\ Alone /\ Good /\ Named /\ TypeOK /\ TodoOK /\ Rule /\ Unread /\ InputStays /\ Next
      /\ request.fi \in Names \cup {Std}
  BY GoingOn, RequestFields DEF Going, Delivering, Alone, Traced, Good, TypeOK
<1>2. ASSUME Pending(CheckSteps)', NEW n \in Names, IsRegular(dir[n])'
      PROVE  file'[dir'[n]].text = {"user"}
  <2>1. Pending(CheckSteps) /\ dir' = dir /\ file' = file
    BY <1>1, <1>2, ChecksPast, ChecksOnly
  <2> QED BY <1>1, <1>2, <2>1 DEF Unread, IsRegular
<1>3. ASSUME before'.id # NoFile PROVE file'[before'.id].text = {"user"}
  <2>1. CASE Stamp
    <3>1. todo # <<>> /\ Head(todo) = "stamp" /\ before'.id = IdOfPathRegular(request.fi) /\ file' = file
      BY <2>1 DEF Stamp, At, StampInput, worldVars
    <3>2. Pending(CheckSteps)
      <4>1. "stamp" \in CheckSteps
        BY DEF CheckSteps
      <4> QED BY <1>1, <3>1, <4>1, HeadLeads
    <3>3. request.fi \in Names
      BY <1>1, <3>1, StepAllowed DEF Allowed
    <3>4. Target(request.fi) \in Names
      BY <1>1, <3>3, LedType DEF TypeOK
    <3>5. before'.id = dir[Target(request.fi)] /\ IsRegular(dir[Target(request.fi)])
      BY <1>3, <3>1 DEF IdOfPathRegular, Led
    <3> QED BY <1>1, <3>1, <3>2, <3>4, <3>5 DEF Unread
  <2>2. CASE before' = before
    <3>1. PICK i : i = before.id
      OBVIOUS
    <3>2. /\ i # NoFile /\ i \in reads /\ IsRegular(i) /\ request.fi \in Names /\ Led(request.fi) = i
          /\ file[i].text = {"user"}
      BY <1>1, <1>3, <2>2, <3>1 DEF InputStays, Unread
    <3>3. i \in Ids /\ InUse(i) /\ Target(request.fi) \in Names
      BY <1>1, <3>2, LedInUse, LedType DEF TypeOK
    <3>4. i \notin temps
      BY <1>1, <3>2, <3>3 DEF Rule, Outside, Led
    <3>5. file'[i] = file[i]
      <4>1. ~ (Accept /\ i = opened)
        BY <3>2 DEF Accept, Taken
      <4>2. WritesData \/ CheckUnchanged => file'[i] = file[i]
        BY <1>1, <3>2, <3>4, WorkSparesInputs DEF WritesData
      <4> QED BY <3>3, <4>1, <4>2, BytesStay
    <3> QED BY <2>2, <3>1, <3>2, <3>5
  <2> QED BY <1>1, <2>1, <2>2, StepTakes
<1> QED BY <1>2, <1>3 DEF Unread

-----------------------------------------------------------------------------
(* The scratch file.                                                       *)

(* The scratch file is the last of the names compared.                     *)
LEMMA ScratchLast ==
  ASSUME TypeOK, Spooling, NEW m \in Others
  PROVE  \E j, k \in DOMAIN Outs(request) :
           j < k /\ Outs(request)[j] = m /\ Outs(request)[k] = request.scratch
<1> DEFINE a == If(request.fo # Std, request.fo)
           b == If(request.mode = "compress" /\ request.index # NoName, request.index)
           c == <<request.scratch>>
<1>1. Outs(request) = (a \o b) \o c
  BY DEF Outs, Spooling, If
<1>2. /\ request.fo \in Names \cup {Std} /\ request.index \in Names \cup {NoName}
      /\ request.scratch \in Names /\ m \in Names
  BY RequestFields DEF TypeOK, Spooling, Others
<1>3. a \in Seq(Names) /\ b \in Seq(Names) /\ c \in Seq(Names)
  <2>1. a \in Seq(Names) /\ b \in Seq(Names)
    BY <1>2, IfSeq
  <2>2. c \in Seq(Names)
    BY <1>2, One
  <2> QED BY <2>1, <2>2
<1>4. Has(a, m) \/ Has(b, m)
  BY DEF If, Has, Others
<1>5. Len(c) = 1 /\ c[1] = request.scratch
  OBVIOUS
<1> HIDE DEF a, b, c
<1>6. a \o b \in Seq(Names) /\ Has(a \o b, m)
  BY <1>2, <1>3, <1>4, ConcatHas
<1> DEFINE ab == a \o b
<1> HIDE DEF ab
<1>7. PICK j \in DOMAIN ab : ab[j] = m
  BY <1>6 DEF Has, ab
<1>8. ab \in Seq(Names) /\ Len(ab) \in Nat /\ j \in 1 .. Len(ab)
  BY <1>6, <1>7 DEF ab
<1>9. /\ ab \o c \in Seq(Names) /\ Len(ab \o c) = Len(ab) + 1
      /\ (ab \o c)[j] = m /\ (ab \o c)[Len(ab) + 1] = request.scratch
  <2>1. /\ ab \o c \in Seq(Names) /\ Len(ab \o c) = Len(ab) + Len(c)
        /\ \A i \in 1 .. Len(ab) : (ab \o c)[i] = ab[i]
        /\ \A i \in 1 .. Len(c) : (ab \o c)[Len(ab) + i] = c[i]
    BY <1>3, <1>8, ConcatParts
  <2>2. 1 \in 1 .. Len(c)
    BY <1>5
  <2> QED BY <1>5, <1>7, <1>8, <2>1, <2>2
<1>10. j \in DOMAIN (ab \o c) /\ Len(ab) + 1 \in DOMAIN (ab \o c) /\ j < Len(ab) + 1
  BY <1>8, <1>9
<1> QED BY <1>1, <1>9, <1>10 DEF ab

(* The scratch file that an output shares its place with is not there yet  *)
(* when the names have been compared.                                      *)
LEMMA SharedNew ==
  ASSUME Alone, CheckNames, ~ failed', Spooling, Shared
  PROVE  ~ IsRegular(Led(request.scratch))
<1> SUFFICES ASSUME IsRegular(Led(request.scratch)) PROVE FALSE
  OBVIOUS
<1>1. TypeOK
  BY AloneMoves
<1>2. PICK m \in Others : Target(m) = Target(request.scratch)
  BY DEF Shared
<1>3. PICK j, k \in DOMAIN Outs(request) :
        j < k /\ Outs(request)[j] = m /\ Outs(request)[k] = request.scratch
  BY <1>1, ScratchLast
<1>4. Led(m) = Led(request.scratch)
  BY <1>2 DEF Led
<1>5. IdOfPathRegular(m) = Led(m) /\ IdOfPathRegular(request.scratch) = Led(m) /\ Led(m) # NoFile
  BY <1>4 DEF IdOfPathRegular, IsRegular
<1>6. j \in 1 .. k - 1
  <2>1. Outs(request) \in Seq(Names)
    BY <1>1, OutputNames
  <2> QED BY <1>3, <2>1
<1> QED BY <1>3, <1>5, <1>6 DEF CheckNames, Fail

LEMMA SharedStays ==
  ASSUME Going, request.scratch # NoName
  PROVE  /\ request.scratch \in Names /\ Target(request.scratch) \in Names
         /\ Target(request.scratch)' = Target(request.scratch)
         /\ Led(request.scratch)' = dir'[Target(request.scratch)]
         /\ Shared' = Shared
<1>1. Alone /\ TypeOK /\ request' = request /\ request.scratch \in Names
  BY GoingOn, RequestFields DEF Going, TypeOK
<1>2. Others \subseteq Names /\ Others' = Others
  BY <1>1, RequestFields DEF Others, TypeOK
<1>3. \A n \in Names : Target(n)' = Target(n) /\ Target(n) \in Names /\ Led(n)' = dir'[Target(n)]
  BY <1>1, LinksStay
<1>4. PICK s : s = request.scratch
  OBVIOUS
<1>5. Target(s)' = Target(s) /\ Target(s) \in Names /\ Led(s)' = dir'[Target(s)] /\ s \in Names
  BY <1>1, <1>3, <1>4
<1>6. Shared = (\E m \in Others : Target(m) = Target(s))
  BY <1>4 DEF Shared
<1>7. Shared' = (\E m \in Others : Target(m)' = Target(s)')
  BY <1>1, <1>2, <1>4 DEF Shared
<1> QED BY <1>1, <1>2, <1>3, <1>4, <1>5, <1>6, <1>7

LEMMA SoleOn ==
  ASSUME Going
  PROVE  Sole'
<1>1. /\ Alone /\ TypeOK /\ request' = request /\ Sole /\ ~ failed' /\ ~ Fail
      /\ dir \in [Names -> Ids \cup {NoFile}]
  BY GoingOn DEF Going, Delivering, TypeOK
<1> SUFFICES ASSUME Spooling, Shared', ~ Pending({"checkNames"})', NEW n \in Names,
                    IsRegular(dir[n])', dir'[n] = Led(request.scratch)'
             PROVE  n = Target(request.scratch)'
  BY <1>1 DEF Sole, Spooling
<1>2. PICK t \in Names : t = Target(request.scratch)
  BY SharedStays DEF Spooling
<1>3. /\ request.scratch \in Names /\ Shared /\ Target(request.scratch)' = t
      /\ dir'[n] = dir'[t] /\ dir'[n] # NoFile /\ Led(request.scratch) = dir[t]
  BY <1>2, SharedStays DEF Spooling, IsRegular, Led
<1>4. CASE Pending({"checkNames"})
  <2>1. CheckNames /\ dir' = dir /\ file' = file
    BY <1>1, <1>4, CheckingNames
  <2>2. ~ IsRegular(Led(request.scratch))
    BY <1>1, <1>3, <2>1, SharedNew
  <2> QED BY <1>3, <2>1, <2>2 DEF IsRegular
<1>5. CASE ~ Pending({"checkNames"})
  <2>1. \A m \in Names : dir[m] # NoFile => InUse(dir[m])
    BY DEF InUse
  <2>2. dir'[t] = dir[t] \/ Made(t) \/ Gone(t)
    BY <1>1, <1>2, NamesStay
  <2>3. CASE dir'[n] = dir[n]
    <3>1. dir[n] \in Ids /\ InUse(dir[n])
      BY <1>1, <1>3, <2>1, <2>3
    <3>2. ~ Made(t) /\ ~ Gone(t)
      BY <1>3, <2>3, <3>1 DEF Made, Gone
    <3>3. IsRegular(dir[n])
      <4>1. PICK i : i = dir[n]
        OBVIOUS
      <4>2. IsRegular(i)'
        BY <2>3, <4>1 DEF IsRegular
      <4> QED BY <1>1, <3>1, <4>1, <4>2, RegularInUse
    <3> QED BY <1>1, <1>2, <1>3, <1>5, <2>2, <2>3, <3>2, <3>3 DEF Sole
  <2>4. CASE Made(n)
    <3>1. CASE dir'[t] = dir[t]
      BY <1>2, <1>3, <2>1, <2>4, <3>1 DEF Made
    <3>2. CASE Made(t)
      BY <1>3, <2>4, <3>2 DEF Made
    <3>3. CASE Gone(t)
      BY <1>3, <3>3 DEF Gone
    <3> QED BY <2>2, <3>1, <3>2, <3>3
  <2>5. CASE Gone(n)
    BY <1>3, <2>5 DEF Gone
  <2> QED BY <1>1, <2>3, <2>4, <2>5, NamesStay
<1> QED BY <1>4, <1>5

(* Only what is written through the scratch file's own opening is scratch. *)
LEMMA ScratchAdded ==
  ASSUME NEW f \in [Ids -> File], NEW p \in Ids \cup {NoFile}, NEW a \in Authors,
         NEW g, g = Written(f, p, a), NEW k \in Ids
  PROVE  /\ g \in [Ids -> File]
         /\ (k # p \/ a # "scratch") /\ "scratch" \notin f[k].text => "scratch" \notin g[k].text
<1>1. /\ g \in [Ids -> File]
      /\ \A i \in Ids : g[i].kind = f[i].kind
      /\ \A i \in Ids \ {p} : g[i].text = f[i].text
      /\ p \in Ids /\ f[p].kind = "regular" => g[p].text = With(f[p].text, a)
  BY OneWritten
<1>2. Written(f, p, a)[k].text \subseteq f[k].text \cup {a}
  BY WrittenText
<1>3. g[k].text \subseteq f[k].text \cup {a}
  BY <1>2
<1> QED BY <1>1, <1>3

LEMMA OtherAdded ==
  ASSUME NEW f \in [Ids -> File], NEW p \in Ids \cup {NoFile}, NEW a \in Authors, a # "scratch",
         NEW g, g = Written(f, p, a), NEW k \in Ids, "scratch" \notin f[k].text
  PROVE  g \in [Ids -> File] /\ "scratch" \notin g[k].text
BY ScratchAdded

LEMMA ScratchWritten ==
  ASSUME Going, WritesData, NEW k \in Ids, "scratch" \in file'[k].text, "scratch" \notin file[k].text
  PROVE  k = handle["scratch"] /\ (CopyStdin \/ Decode)
<1>1. TypeOK /\ file \in [Ids -> File]
  BY GoingOn DEF TypeOK
<1>2. /\ handle["output"] \in Ids \cup {NoFile} /\ handle["index"] \in Ids \cup {NoFile}
      /\ handle["scratch"] \in Ids \cup {NoFile} /\ OutputFile \in Ids \cup {NoFile}
  BY <1>1, HandleType, RequestFields DEF Writers, OutputFile, TypeOK
<1>3. "output" \in Authors /\ "index" \in Authors /\ "scratch" \in Authors
  BY DEF Authors, Writers
<1>4. PICK x, y, z, o \in Ids \cup {NoFile} :
        x = handle["output"] /\ y = handle["index"] /\ z = handle["scratch"] /\ o = OutputFile
  BY <1>2
<1>5. CASE CopyStdin
  <2>1. PICK g : g = Written(file, z, "scratch")
    OBVIOUS
  <2>2. file' = g
    BY <1>4, <1>5, <2>1 DEF CopyStdin
  <2>3. k # z => "scratch" \notin g[k].text
    BY <1>1, <1>3, <2>1, ScratchAdded
  <2> QED BY <1>4, <1>5, <2>2, <2>3
<1>6. CASE Encode
  <2>1. PICK g : g = Written(file, o, "output")
    OBVIOUS
  <2>2. PICK h : h = Written(g, y, "index")
    OBVIOUS
  <2>3. file' = h
    BY <1>4, <1>6, <2>1, <2>2 DEF Encode
  <2>4. g \in [Ids -> File] /\ "scratch" \notin g[k].text
    BY <1>1, <1>3, <2>1, OtherAdded
  <2>5. "scratch" \notin h[k].text
    BY <1>3, <2>2, <2>4, OtherAdded
  <2> QED BY <2>3, <2>5
<1>7. CASE Decode
  <2>1. PICK g : g = Written(file, x, "output")
    OBVIOUS
  <2>2. PICK h : h = Written(g, z, "scratch")
    OBVIOUS
  <2>3. file' = h
    BY <1>4, <1>7, <2>1, <2>2 DEF Decode
  <2>4. g \in [Ids -> File] /\ "scratch" \notin g[k].text
    BY <1>1, <1>3, <2>1, OtherAdded
  <2>5. k # z => "scratch" \notin h[k].text
    BY <1>3, <2>2, <2>4, ScratchAdded
  <2> QED BY <1>4, <1>7, <2>3, <2>5
<1>8. CASE CopyOut
  <2>1. \E i \in Ids \cup {NoFile} : file' = Written(file, i, "output")
    <3>1. CASE request.fo = Std \/ request.dup
      BY <1>4, <1>8, <3>1 DEF CopyOut
    <3>2. CASE ~ (request.fo = Std \/ request.dup)
      BY <1>8, <3>2 DEF CopyOut
    <3> QED BY <3>1, <3>2
  <2>2. PICK i \in Ids \cup {NoFile} : file' = Written(file, i, "output")
    BY <2>1
  <2>3. PICK g : g = Written(file, i, "output")
    OBVIOUS
  <2>4. "scratch" \notin g[k].text
    BY <1>1, <1>3, <2>3, OtherAdded
  <2> QED BY <2>2, <2>3, <2>4
<1> QED BY <1>5, <1>6, <1>7, <1>8 DEF WritesData

(* A name that has scratch had it before, or is the scratch file's.        *)
LEMMA ScratchBefore ==
  ASSUME Going, NEW n \in Names, Scratched(n)'
  PROVE  /\ dir'[n] = dir[n] /\ dir[n] \in Ids /\ InUse(dir[n]) /\ IsRegular(dir[n])
         /\ \/ Scratched(n)
            \/ dir[n] = handle["scratch"] /\ (CopyStdin \/ Decode)
<1>1. /\ Alone /\ TypeOK /\ dir \in [Names -> Ids \cup {NoFile}]
      /\ dir'[n] # NoFile /\ "scratch" \in file'[dir'[n]].text
  BY GoingOn DEF Going, TypeOK, Scratched, IsRegular
<1>2. dir'[n] = dir[n]
  <2>1. ~ Made(n)
    BY <1>1 DEF Made
  <2>2. ~ Gone(n)
    BY <1>1 DEF Gone
  <2> QED BY <1>1, <2>1, <2>2, NamesStay
<1>3. PICK k \in Ids : k = dir[n]
  BY <1>1, <1>2
<1>4. InUse(k)
  BY <1>3 DEF InUse
<1>5. IsRegular(k)
  <2>1. IsRegular(k)'
    BY <1>2, <1>3 DEF Scratched, IsRegular
  <2> QED BY <1>1, <1>4, <2>1, RegularInUse
<1>6. ASSUME "scratch" \notin file[k].text
      PROVE  k = handle["scratch"] /\ (CopyStdin \/ Decode)
  <2>1. "scratch" \in file'[k].text
    BY <1>1, <1>2, <1>3
  <2>2. ~ (Accept /\ k = opened /\ IsRegular(k))
    <3> SUFFICES ASSUME Accept, k = opened PROVE FALSE
      OBVIOUS
    <3>1. file'[opened].text = {}
      BY <1>5, AcceptedEmpty
    <3> QED BY <2>1, <3>1
  <2>3. WritesData
    <3> SUFFICES ASSUME ~ WritesData PROVE FALSE
      OBVIOUS
    <3>1. file'[k].text \subseteq file[k].text \cup {"messages"}
      BY <1>1, <1>4, <2>2, Texts
    <3> QED BY <1>6, <2>1, <3>1
  <2> QED BY <1>6, <2>1, <2>3, ScratchWritten
<1> QED BY <1>2, <1>3, <1>4, <1>5, <1>6 DEF Scratched

(* While no scratch file is asked for none is opened, and one that is open *)
(* stays so until it is closed.                                            *)
LEMMA ScratchOpen ==
  ASSUME Going, opening.role # "scratch", ~ Pending({"spool"}),
         Pending({"decodeRest"}) => handle["scratch"] # NoFile
  PROVE  /\ opening'.role # "scratch" /\ ~ Pending({"spool"})'
         /\ Pending({"decodeRest"})' => handle'["scratch"] # NoFile
<1>1. /\ Alone /\ Good /\ TypeOK /\ TodoOK /\ Named /\ Planned /\ Next /\ ~ Fail /\ ~ Other
      /\ handle \in [Roles -> Ids \cup {NoFile}]
  BY GoingOn, AloneMoves DEF Going, Alone, Sound, TypeOK
<1>2. ~ Pending({"spool"})'
  BY NotToCome
<1>3. ~ ((Spool \/ Spill) /\ request.scratch # NoName)
  <2>1. ~ Spool
    BY <1>1, HeadLeads DEF Spool, At
  <2>2. ~ Spill
    <3> SUFFICES ASSUME Spill PROVE FALSE
      OBVIOUS
    <3>1. Pending({"decodeRest"}) /\ handle["scratch"] = NoFile
      BY <1>1, HeadLeads DEF Spill, At
    <3> QED BY <3>1
  <2> QED BY <2>1, <2>2
<1>4. opening'.role # "scratch"
  <2>1. CASE opening' = NotOpening
    BY <2>1 DEF NotOpening
  <2>2. CASE CreateIndex \/ CreateOutput
    BY <2>2 DEF CreateIndex, CreateOutput, StartOpen
  <2>3. CASE TryExclusive \/ ExclusiveFails \/ TryPlain \/ TryCreate
    <3>1. opening'.role = opening.role
      BY <1>1, <2>3 DEF TypeOK, TryExclusive, ExclusiveFails, TryPlain, TryCreate
    <3> QED BY <3>1
  <2> QED BY <1>1, <1>3, <2>1, <2>2, <2>3, OpeningGoesOn, OpeningBegins DEF Begins
<1>5. ASSUME Pending({"decodeRest"})', handle'["scratch"] = NoFile PROVE FALSE
  <2>1. handle["scratch"] # NoFile
    BY <1>5, NotToCome
  <2>2. ~ (CopyStdin \/ RemoveSpool \/ Close)
    <3> SUFFICES ASSUME CopyStdin \/ RemoveSpool \/ Close PROVE FALSE
      OBVIOUS
    <3>1. todo # <<>> /\ Done /\ Head(todo) \in Closers
      BY DEF CopyStdin, RemoveSpool, Close, At, Closers
    <3> QED BY <1>1, <1>5, <3>1, SpoolsPast
  <2>3. CASE Opening
    <3>1. "scratch" # opening.role /\ "scratch" \in Roles
      BY DEF Roles, Writers
    <3>2. handle'["scratch"] = handle["scratch"]
      <4>1. CASE CreateIndex \/ CreateOutput \/ ExclusiveFails
        BY <4>1 DEF CreateIndex, CreateOutput, ExclusiveFails, StartOpen, dataVars
      <4>2. CASE TryExclusive \/ TryPlain \/ TryCreate
        BY <1>1, <3>1, <4>2 DEF TryExclusive, TryPlain, TryCreate, MakeFile
      <4>3. CASE Accept
        BY <1>1, <3>1, <4>3 DEF Accept
      <4>4. ~ OpenFails /\ ~ Refuse /\ ~ TruncateFails
        BY <1>1 DEF OpenFails, Refuse, TruncateFails
      <4> QED BY <2>3, <4>1, <4>2, <4>3, <4>4 DEF Opening
    <3> QED BY <1>5, <2>1, <3>2
  <2>4. CASE Checking \/ Stopped \/ DeleteInput \/ CheckUnchanged \/ RemoveClaimed \/ Report
    BY <1>5, <2>1, <2>4 DEF Checking, NoteInput, NoteIndex, NoteStderr, NoteStdout, NoteStdWritten,
       CheckNames, Stamp, Stopped, DeleteInput, CheckUnchanged, RemoveClaimed, Report, dataVars, vars
  <2>5. CASE NewTemp \/ Spool \/ DeleteTemps
    <3>1. ~ Spool
      BY <1>1, HeadLeads DEF Spool, At
    <3> QED BY <1>5, <2>1, <2>5, <3>1 DEF NewTemp, DeleteTemps
  <2>6. CASE Working
    <3>1. ~ Spill /\ ~ Breaks
      BY <1>1, <2>1 DEF Spill, Breaks
    <3>2. "input" # "scratch" /\ "scratch" \in Roles
      BY DEF Roles, Writers
    <3> QED BY <1>1, <1>5, <2>1, <2>6, <3>1, <3>2 DEF Working, Sniff, OpenInput, OpenIndex, Dedup,
         Encode, Decode, CopyOut, dataVars
  <2> QED BY <1>1, <2>2, <2>3, <2>4, <2>5, <2>6 DEF Next, Run, Temps, Ending
<1> QED BY <1>2, <1>4, <1>5

(* A scratch file given up goes by its name, and by that name only.        *)
LEMMA ScratchRemoved ==
  ASSUME Going, RemoveSpool, spool.named, NEW n \in Names, dir[n] = spool.id, dir'[n] = dir[n]
  PROVE  IsLink(request.scratch)' \/ (~ IsRegular(dir[request.scratch])' /\ ~ Shared')
<1>1. /\ Alone /\ Good /\ TypeOK /\ TodoOK /\ Owned /\ Sole /\ Left /\ SpoolOnce /\ request' = request
      /\ dir \in [Names -> Ids \cup {NoFile}]
  BY GoingOn DEF Going, Delivering, Alone, Traced, Sound, TypeOK
<1>2. /\ request.scratch # NoName /\ spool.name = request.scratch /\ Spooling /\ spool.id # NoFile
  BY <1>1 DEF Left, Spooling, SpoolOnce
<1>3. request.scratch \in Names /\ Shared' = Shared
  BY <1>2, SharedStays
<1>4. PICK s \in Names : s = request.scratch
  BY <1>3
<1>5. file' = file /\ dir' = Without({<<s, spool.id>>})
  BY <1>2, <1>4 DEF RemoveSpool
<1>6. \A m \in Names : dir'[m] = IF m = s /\ IdOfName(m) = spool.id THEN NoFile ELSE dir[m]
  BY <1>5 DEF Without
<1>7. CASE IsLink(s)
  <2>1. IdOfName(s) = NoFile
    BY <1>7 DEF IsLink, IdOfName, IsRegular
  <2>2. dir'[s] = dir[s]
    BY <1>2, <1>6, <2>1
  <2>3. IsLink(s)'
    BY <1>5, <1>7, <2>2 DEF IsLink
  <2> QED BY <1>1, <1>4, <2>3 DEF IsLink
<1>8. CASE ~ IsLink(s)
  <2>1. Target(s) = s /\ Led(s) = dir[s]
    BY <1>8 DEF IsLink, Target, Led
  <2>2. dir[s] = spool.id /\ IsRegular(dir[s])
    <3>1. <<spool.name, spool.id>> \in Own
      BY DEF Own
    <3>2. Led(spool.name) = spool.id /\ IsRegular(spool.id)
      BY <1>1, <3>1 DEF Owned
    <3> QED BY <1>2, <1>4, <2>1, <3>2
  <2>3. dir'[s] = NoFile
    BY <1>6, <2>2 DEF IdOfName
  <2>4. n # s
    BY <1>2, <2>3
  <2>5. ~ Shared
    <3> SUFFICES ASSUME Shared PROVE FALSE
      OBVIOUS
    <3>1. ~ Pending({"checkNames"})
      <4>1. ~ Pending(CheckSteps)
        <5>1. todo # <<>> /\ Head(todo) \notin CheckSteps
          BY DEF RemoveSpool, At, CheckSteps
        <5> QED BY <1>1, <5>1, HeadLeads
      <4> QED BY <4>1 DEF Pending, CheckSteps
    <3>2. n = Target(s)
      BY <1>1, <1>2, <1>4, <2>1, <2>2, <3>1 DEF Sole
    <3> QED BY <2>1, <2>4, <3>2
  <2>6. ~ IsRegular(dir[request.scratch])'
    BY <1>1, <1>4, <2>3 DEF IsRegular
  <2> QED BY <1>3, <2>5, <2>6
<1> QED BY <1>7, <1>8

(* An output is made under the name of the scratch file only if it leads   *)
(* there.                                                                  *)
LEMMA ScratchNotMade ==
  ASSUME Going, request.scratch # NoName, ~ Shared, opening.role # "scratch"
  PROVE  ~ Made(request.scratch)
<1> SUFFICES ASSUME Made(request.scratch) PROVE FALSE
  OBVIOUS
<1>1. /\ Alone /\ TypeOK /\ TodoOK /\ Named /\ Planned /\ Beginning /\ ~ failed
      /\ opening # NotOpening /\ request.scratch \in Names
  BY GoingOn, RequestFields DEF Going, Delivering, Alone, Good, Sound, Made, TypeOK, TryExclusive, TryCreate,
     NotOpening
<1>2. request.scratch = Target(opening.name) /\ dir[request.scratch] = NoFile
  BY DEF Made
<1>3. Target(request.scratch) = Target(opening.name)
  BY <1>2 DEF Target
<1>4. todo # <<>> /\ Head(todo) \in Opens
  BY <1>1 DEF Named
<1>5. Head(todo) \in Allowed(request) /\ Head(todo) \in Fits(request)
  BY <1>1, <1>4, StepAllowed, HeadPlaced
<1>6. opening.name \in Others
  <2>1. CASE Head(todo) = "createOutput"
    BY <1>1, <1>5, <2>1 DEF Beginning, Allowed, Others
  <2>2. CASE Head(todo) = "createIndex"
    BY <1>1, <1>5, <2>2 DEF Beginning, Allowed, Fits, Others
  <2> QED BY <1>4, <2>1, <2>2 DEF Opens
<1> QED BY <1>3, <1>6 DEF Shared

LEMMA ScratchStaysGone ==
  ASSUME Going, NEW n \in Names, dir'[n] = dir[n], request.scratch # NoName, opening.role # "scratch",
         \/ spool.named /\ dir[n] = spool.id
         \/ IsLink(request.scratch)
         \/ ~ IsRegular(dir[request.scratch]) /\ ~ Shared
  PROVE  \/ spool'.named /\ dir'[n] = spool'.id
         \/ IsLink(request.scratch)'
         \/ ~ IsRegular(dir[request.scratch])' /\ ~ Shared'
<1>1. /\ Alone /\ Good /\ TypeOK /\ Next /\ request' = request /\ Shared' = Shared
      /\ dir \in [Names -> Ids \cup {NoFile}]
  BY GoingOn, SharedStays DEF Going, Alone, TypeOK
<1>2. PICK s \in Names : s = request.scratch
  BY SharedStays
<1>3. dir'[s] = dir[s] \/ Made(s) \/ Gone(s)
  BY <1>1, <1>2, NamesStay
<1>4. CASE spool.named /\ dir[n] = spool.id
  <2>1. CASE RemoveSpool
    BY <1>4, <2>1, ScratchRemoved
  <2>2. CASE ~ RemoveSpool
    <3>1. spool' = spool
      <4>1. CASE Accept
        BY <4>1 DEF Accept
      <4>2. CASE ~ Accept
        BY <1>1, <2>2, <4>2, ClaimSteps
      <4> QED BY <4>1, <4>2
    <3> QED BY <1>4, <3>1
  <2> QED BY <2>1, <2>2
<1>5. CASE IsLink(request.scratch)
  <2>1. dir[s] # NoFile /\ file[dir[s]].kind = "link"
    BY <1>2, <1>5 DEF IsLink
  <2>2. dir'[s] = dir[s]
    BY <1>3, <2>1 DEF Made, Gone, IsRegular
  <2>3. PICK k \in Ids : k = dir[s]
    BY <1>1, <2>1
  <2>4. file'[k].kind = file[k].kind
    <3>1. InUse(k)
      BY <2>3 DEF InUse
    <3> QED BY <1>1, <3>1, OthersStay DEF Alone
  <2>5. IsLink(s)'
    BY <2>1, <2>2, <2>3, <2>4 DEF IsLink
  <2> QED BY <1>1, <1>2, <2>5 DEF IsLink
<1>6. CASE ~ IsRegular(dir[request.scratch]) /\ ~ Shared
  <2>1. ~ Made(s)
    BY <1>2, <1>6, ScratchNotMade
  <2>2. CASE dir'[s] = NoFile
    BY <1>1, <1>2, <1>6, <2>2 DEF IsRegular
  <2>3. CASE dir'[s] = dir[s] /\ dir[s] # NoFile
    <3>1. PICK k \in Ids : k = dir[s]
      BY <1>1, <2>3
    <3>2. InUse(k)
      BY <3>1 DEF InUse
    <3>3. ~ IsRegular(k)'
      BY <1>1, <1>2, <1>6, <3>1, <3>2, RegularInUse
    <3>4. ~ IsRegular(dir[request.scratch])'
      BY <1>1, <1>2, <2>3, <3>1, <3>3 DEF IsRegular
    <3> QED BY <1>1, <1>6, <3>4
  <2> QED BY <1>3, <2>1, <2>2, <2>3 DEF Gone
<1> QED BY <1>4, <1>5, <1>6

LEMMA ScratchGoneOn ==
  ASSUME Going
  PROVE  ScratchGone'
<1>1. /\ Alone /\ Good /\ TypeOK /\ TodoOK /\ Planned /\ SpoolOnce /\ Rule /\ ScratchGone /\ Left
      /\ request' = request /\ ~ Fail /\ Spooling' = Spooling
  BY GoingOn DEF Going, Delivering, Alone, Sound, Spooling
<1> SUFFICES ASSUME NEW n \in Names, Scratched(n)'
             PROVE  /\ Spooling'
                    /\ opening'.role # "scratch" /\ ~ Pending({"spool"})'
                    /\ Pending({"decodeRest"})' => handle'["scratch"] # NoFile
                    /\ \/ spool'.named /\ dir'[n] = spool'.id
                       \/ IsLink(request.scratch)'
                       \/ ~ IsRegular(dir[request.scratch])' /\ ~ Shared'
  BY DEF ScratchGone
<1>2. /\ dir'[n] = dir[n] /\ dir[n] \in Ids /\ InUse(dir[n]) /\ IsRegular(dir[n])
      /\ \/ Scratched(n)
         \/ dir[n] = handle["scratch"] /\ (CopyStdin \/ Decode)
  BY ScratchBefore
<1>3. CASE Scratched(n)
  <2>1. /\ Spooling
        /\ opening.role # "scratch" /\ ~ Pending({"spool"})
        /\ Pending({"decodeRest"}) => handle["scratch"] # NoFile
        /\ \/ spool.named /\ dir[n] = spool.id
           \/ IsLink(request.scratch)
           \/ ~ IsRegular(dir[request.scratch]) /\ ~ Shared
    BY <1>1, <1>3 DEF ScratchGone
  <2>2. /\ opening'.role # "scratch" /\ ~ Pending({"spool"})'
        /\ Pending({"decodeRest"})' => handle'["scratch"] # NoFile
    BY <2>1, ScratchOpen
  <2>3. \/ spool'.named /\ dir'[n] = spool'.id
        \/ IsLink(request.scratch)'
        \/ ~ IsRegular(dir[request.scratch])' /\ ~ Shared'
    BY <1>2, <2>1, ScratchStaysGone DEF Spooling
  <2> QED BY <1>1, <2>1, <2>2, <2>3
<1>4. CASE dir[n] = handle["scratch"] /\ (CopyStdin \/ Decode)
  <2>1. /\ opening = NotOpening /\ opening' = opening /\ spool' = spool /\ todo # <<>> /\ Done
        /\ CopyStdin => Head(todo) = "copyStdin"
        /\ Decode => handle' = handle
    BY <1>4 DEF CopyStdin, Decode, At
  <2>2. spool.named /\ dir[n] = spool.id
    <3>1. "scratch" \in OpenToWrite
      BY <1>2, <1>4, <2>1 DEF OpenToWrite, Writers, NotOpening
    <3>2. dir[n] \notin temps
      BY <1>1 DEF Rule, Outside
    <3> QED BY <1>1, <1>4, <3>1, <3>2 DEF Rule, Kept
  <2>3. Spooling
    BY <1>1, <2>2 DEF Left
  <2>4. ~ Pending({"spool"})'
    BY <1>1, <2>2, NotToCome DEF SpoolOnce
  <2>5. Pending({"decodeRest"})' => handle'["scratch"] # NoFile
    <3>1. CASE CopyStdin
      <4>1. ~ Pending({"spool"})' /\ ~ Pending({"decodeRest"})'
        BY <1>1, <2>1, <3>1, SpoolsPast DEF Closers
      <4> QED BY <4>1
    <3>2. CASE Decode
      BY <1>2, <1>4, <2>1, <3>2 DEF IsRegular
    <3> QED BY <1>4, <3>1, <3>2
  <2>6. opening'.role # "scratch"
    BY <2>1 DEF NotOpening
  <2> QED BY <1>1, <1>2, <2>1, <2>2, <2>3, <2>4, <2>5, <2>6
<1> QED BY <1>2, <1>3, <1>4

(* A step of a run alone that is not its failure keeps all this.           *)
LEMMA DeliveringOn ==
  ASSUME Going
  PROVE  Delivering'
BY PromisesKept, LeftOn, BeginningOn, OutletsOn, StreamsAsideOn, UnreadOn, SoleOn, ScratchGoneOn
DEF Delivering

-----------------------------------------------------------------------------
(* From the start on.                                                      *)

(* What is in one of two parts of a list is in the list.                   *)
LEMMA StepsOn ==
  ASSUME NEW s \in Seq(Steps), NEW t \in Seq(Steps)
  PROVE  /\ s \o t \in Seq(Steps)
         /\ \A x \in Steps : Has(s, x) \/ Has(t, x) => Has(s \o t, x)
BY ConcatSeq, ConcatHas

LEMMA CompressCreates ==
  ASSUME NEW q \in Request, q.mode = "compress"
  PROVE  /\ q.fo # Std => Has(Compress(q), "createOutput")
         /\ q.index # NoName => Has(Compress(q), "createIndex")
<1> DEFINE a == IF q.fi = Std THEN <<"spool", "copyStdin">> ELSE <<>>
           b == If(q.index # NoName, "createIndex")
           c == If(q.dup, "dedup")
           d == If(~ q.dup, "openInput")
           e == If(q.fo # Std, "createOutput")
           t == <<"encode", "encodeRest", "close">>
           u == IF q.dup THEN <<"deleteTemps", "checkUnchanged">>
                ELSE <<"checkUnchanged", "removeSpool", "deleteTemps">>
           v == If(q.delete /\ q.fi # Std, "delete")
<1>1. {"spool", "copyStdin", "createIndex", "dedup", "openInput", "createOutput", "encode", "encodeRest",
       "close", "deleteTemps", "checkUnchanged", "removeSpool", "delete"} \subseteq Steps
  BY DEF Steps
<1>2. /\ q.dup \in BOOLEAN /\ (q.delete /\ q.fi # Std) \in BOOLEAN /\ (~ q.dup) \in BOOLEAN
      /\ (q.index # NoName) \in BOOLEAN /\ (q.fo # Std) \in BOOLEAN
  BY DEF Request
<1>3. Compress(q) = (((((((a \o b) \o c) \o d) \o e) \o t) \o u) \o v)
  BY DEF Compress
<1>4. /\ a \in Seq(Steps) /\ t \in Seq(Steps) /\ u \in Seq(Steps)
  BY <1>1, One, Two, Three
<1>5. /\ b \in Seq(Steps) /\ c \in Seq(Steps) /\ d \in Seq(Steps)
      /\ e \in Seq(Steps) /\ v \in Seq(Steps)
  BY <1>1, <1>2, IfSeq
<1>6. /\ q.fo # Std => Has(e, "createOutput")
      /\ q.index # NoName => Has(b, "createIndex")
  BY DEF If, Has
<1> HIDE DEF a, b, c, d, e, t, u, v
<1> DEFINE ab == a \o b
           ac == ab \o c
           ad == ac \o d
           ae == ad \o e
           at == ae \o t
           au == at \o u
<1>7. Compress(q) = au \o v
  BY <1>3
<1>8. ab \in Seq(Steps) /\ (q.index # NoName => Has(ab, "createIndex"))
  BY <1>1, <1>4, <1>5, <1>6, StepsOn
<1> HIDE DEF ab
<1>9. ac \in Seq(Steps) /\ (q.index # NoName => Has(ac, "createIndex"))
  BY <1>1, <1>5, <1>8, StepsOn
<1> HIDE DEF ac
<1>10. ad \in Seq(Steps) /\ (q.index # NoName => Has(ad, "createIndex"))
  BY <1>1, <1>5, <1>9, StepsOn
<1> HIDE DEF ad
<1>11. /\ ae \in Seq(Steps) /\ (q.index # NoName => Has(ae, "createIndex"))
       /\ q.fo # Std => Has(ae, "createOutput")
  BY <1>1, <1>5, <1>6, <1>10, StepsOn
<1> HIDE DEF ae
<1>12. /\ at \in Seq(Steps) /\ (q.index # NoName => Has(at, "createIndex"))
       /\ q.fo # Std => Has(at, "createOutput")
  BY <1>1, <1>4, <1>11, StepsOn
<1> HIDE DEF at
<1>13. /\ au \in Seq(Steps) /\ (q.index # NoName => Has(au, "createIndex"))
       /\ q.fo # Std => Has(au, "createOutput")
  BY <1>1, <1>4, <1>12, StepsOn
<1> HIDE DEF au
<1> QED BY <1>1, <1>5, <1>7, <1>13, StepsOn

LEMMA DecompressCreates ==
  ASSUME NEW q \in Request, q.mode = "decompress", q.fo # Std
  PROVE  Has(Decompress(q), "createOutput")
<1> DEFINE a == If(q.fi = Std, "newTemp")
           b == If(~ q.dup /\ q.fi # Std /\ q.fo # Std, "sniff")
           c == <<"openInput">>
           d == If(q.dup, "newTemp")
           e == If(~ q.dup /\ q.fo = Std, "newTemp")
           f == If(~ q.dup /\ q.fo # Std, "createOutput")
           g == If(~ q.dup /\ q.index # NoName, "openIndex")
           t == <<"decode", "decodeRest", "removeSpool">>
           h == If(q.dup, "createOutput")
           k == <<"copyOut">>
           u == IF q.dup THEN <<"close", "deleteTemps", "checkUnchanged">>
                ELSE <<"checkUnchanged", "close", "deleteTemps">>
           v == If(q.delete /\ q.fi # Std, "delete")
<1>1. {"newTemp", "sniff", "openInput", "createOutput", "openIndex", "decode", "decodeRest", "removeSpool",
       "copyOut", "close", "deleteTemps", "checkUnchanged", "delete"} \subseteq Steps
  BY DEF Steps
<1>2. /\ q.dup \in BOOLEAN /\ (q.delete /\ q.fi # Std) \in BOOLEAN
      /\ (~ q.dup /\ q.fi # Std /\ q.fo # Std) \in BOOLEAN /\ (~ q.dup /\ q.fo # Std) \in BOOLEAN
      /\ (~ q.dup /\ q.fo = Std) \in BOOLEAN /\ (~ q.dup /\ q.index # NoName) \in BOOLEAN
      /\ (q.fi = Std) \in BOOLEAN
  BY DEF Request
<1>3. Decompress(q) = (((((((((((a \o b) \o c) \o d) \o e) \o f) \o g) \o t) \o h) \o k) \o u) \o v)
  BY DEF Decompress
<1>4. c \in Seq(Steps) /\ k \in Seq(Steps) /\ t \in Seq(Steps) /\ u \in Seq(Steps)
  BY <1>1, One, Three
<1>5. /\ a \in Seq(Steps) /\ b \in Seq(Steps) /\ d \in Seq(Steps) /\ e \in Seq(Steps)
      /\ f \in Seq(Steps) /\ g \in Seq(Steps) /\ h \in Seq(Steps) /\ v \in Seq(Steps)
  BY <1>1, <1>2, IfSeq
<1>6. Has(f, "createOutput") \/ Has(h, "createOutput")
  BY <1>2 DEF If, Has
<1> HIDE DEF a, b, c, d, e, f, g, t, h, k, u, v
<1> DEFINE ab == a \o b
           ac == ab \o c
           ad == ac \o d
           ae == ad \o e
           af == ae \o f
           ag == af \o g
           at == ag \o t
           ah == at \o h
           ak == ah \o k
           au == ak \o u
<1>7. Decompress(q) = au \o v
  BY <1>3
<1>8. ab \in Seq(Steps)
  BY <1>5, StepsOn
<1> HIDE DEF ab
<1>9. ac \in Seq(Steps)
  BY <1>4, <1>8, StepsOn
<1> HIDE DEF ac
<1>10. ad \in Seq(Steps)
  BY <1>5, <1>9, StepsOn
<1> HIDE DEF ad
<1>11. ae \in Seq(Steps)
  BY <1>5, <1>10, StepsOn
<1> HIDE DEF ae
<1>12. af \in Seq(Steps) /\ (Has(f, "createOutput") => Has(af, "createOutput"))
  BY <1>1, <1>5, <1>11, StepsOn
<1> HIDE DEF af
<1>13. ag \in Seq(Steps) /\ (Has(f, "createOutput") => Has(ag, "createOutput"))
  BY <1>1, <1>5, <1>12, StepsOn
<1> HIDE DEF ag
<1>14. at \in Seq(Steps) /\ (Has(f, "createOutput") => Has(at, "createOutput"))
  BY <1>1, <1>4, <1>13, StepsOn
<1> HIDE DEF at
<1>15. ah \in Seq(Steps) /\ Has(ah, "createOutput")
  BY <1>1, <1>5, <1>6, <1>14, StepsOn
<1> HIDE DEF ah
<1>16. ak \in Seq(Steps) /\ Has(ak, "createOutput")
  BY <1>1, <1>4, <1>15, StepsOn
<1> HIDE DEF ak
<1>17. au \in Seq(Steps) /\ Has(au, "createOutput")
  BY <1>1, <1>4, <1>16, StepsOn
<1> HIDE DEF au
<1> QED BY <1>1, <1>5, <1>7, <1>17, StepsOn

(* A script creates every output that it was given a name for.             *)
LEMMA ScriptCreates ==
  ASSUME NEW q \in Requests
  PROVE  /\ q.fo # Std => Has(Script(q), "createOutput")
         /\ q.mode = "compress" /\ q.index # NoName => Has(Script(q), "createIndex")
<1> DEFINE w == IF q.mode = "compress" THEN Compress(q) ELSE Decompress(q)
           c == Checks(q)
<1>1. q \in Request /\ q.mode \in {"compress", "decompress"} /\ (q.dup => q.fi # Std)
  BY RequestsAssumption DEF Request
<1>2. w \in Seq(Steps)
  BY <1>1, CompressPromises, DecompressPromises
<1>3. /\ q.fo # Std => Has(w, "createOutput")
      /\ q.mode = "compress" /\ q.index # NoName => Has(w, "createIndex")
  BY <1>1, CompressCreates, DecompressCreates
<1>4. c \in Seq(Steps)
  <2>1. c \in Seq(Allowed(q) \cap CheckSteps)
    BY <1>1, ChecksOrdered
  <2> HIDE DEF c
  <2> QED BY <2>1 DEF Allowed
<1>5. Script(q) = c \o w
  BY DEF Script
<1>6. "createOutput" \in Steps /\ "createIndex" \in Steps
  BY DEF Steps
<1> HIDE DEF c, w
<1> QED BY <1>2, <1>3, <1>4, <1>5, <1>6, StepsOn

(* The files found at the start have the user's bytes, and those with a    *)
(* name have some.                                                         *)
UsersFiles ==
  \A w \in Worlds :
    /\ \A i \in Ids : w.file[i].text \subseteq {"user"}
    /\ \A n \in Names : w.dir[n] # NoFile /\ w.file[w.dir[n]].kind = "regular" =>
         w.file[w.dir[n]].text = {"user"}

LEMMA DeliveringStarts ==
  ASSUME UsersFiles, Init
  PROVE  Delivering
<1>1. TypeOK /\ request \in Requests /\ request \in Request
  BY TypesStart, RequestFields DEF TypeOK
<1>2. /\ todo = Script(request) /\ opening = NotOpening /\ claimed = {} /\ temps = {}
      /\ spool.named = FALSE /\ before.id = NoFile
  BY DEF Init
<1>3. /\ \A i \in Ids : file[i].text \subseteq {"user"}
      /\ \A n \in Names : IsRegular(dir[n]) => file[dir[n]].text = {"user"}
  BY DEF UsersFiles, Init, IsRegular
<1>4. Promises(request, todo)
  BY <1>1, <1>2, ScriptPromises
<1>5. Left /\ Beginning
  BY <1>2 DEF Left, Beginning
<1>6. Outlets
  <2>1. /\ request.fo # Std => Pending({"createOutput"})
        /\ request.mode = "compress" /\ request.index # NoName => Pending({"createIndex"})
    BY <1>1, <1>2, ScriptCreates DEF Has, Pending
  <2> QED BY <2>1 DEF Outlets, Ready
<1>7. StreamsAside
  <2>1. request.talks => Pending({"noteStderr", "noteStdout"})
    BY <1>1, <1>2, ScriptBegins DEF Has, Pending
  <2>2. request.stdout \in Ids \cup {NoFile}
    BY <1>1, RequestFields
  <2>3. IsRegular(request.stdout) => file[request.stdout].text \subseteq {"user", "output"}
    BY <1>3, <2>2 DEF IsRegular
  <2> QED BY <1>2, <2>1, <2>3 DEF StreamsAside
<1>8. Unread
  BY <1>2, <1>3 DEF Unread
<1>9. Sole
  <2>1. Pending({"checkNames"})
    BY <1>1, <1>2, ScriptInPlace DEF Has, Pending
  <2> QED BY <2>1 DEF Sole
<1>10. ScratchGone
  BY <1>3 DEF ScratchGone, Scratched
<1> QED BY <1>4, <1>5, <1>6, <1>7, <1>8, <1>9, <1>10 DEF Delivering

(* When there is nothing more to do what was promised is there.            *)
LEMMA DeliveringEnds == TypeOK /\ Delivering /\ ~ Live => Delivers
<1> SUFFICES ASSUME TypeOK, Delivering, ~ Live PROVE Delivers
  OBVIOUS
<1>1. /\ todo \in Seq(Steps) /\ Outlets /\ StreamsAside /\ Unread /\ Left /\ ScratchGone
  BY DEF Delivering, TypeOK
<1>2. \A i \in DOMAIN todo : todo[i] = "delete"
  <2>1. \A i \in DOMAIN todo : todo[i] \in Steps
    BY <1>1, SeqOf
  <2> QED BY <2>1 DEF Live, Pending
<1>3. \A x : x # "delete" => ~ Pending({x})
  BY <1>2 DEF Pending
<1>4. ASSUME NEW role, NEW name, NEW create, NEW write, create # "delete", write # "delete",
             Ready(role, name, create, write), IsRegular(Led(name))
      PROVE  file[Led(name)].text = {role}
  <2>1. ~ Pending({create})
    BY <1>3, <1>4
  <2>2. ~ ServedFrom(write, todo, 1)
    BY <1>2, <1>4 DEF ServedFrom
  <2> QED BY <1>4, <2>1, <2>2 DEF Ready
<1>5. request.fo # Std /\ IsRegular(Led(request.fo)) => file[Led(request.fo)].text = {"output"}
  <2>1. WriteStep(request) # "delete"
    BY DEF WriteStep
  <2> QED BY <1>1, <1>4, <2>1 DEF Outlets
<1>6. request.mode = "compress" /\ request.index # NoName /\ IsRegular(Led(request.index)) =>
        file[Led(request.index)].text = {"index"}
  BY <1>1, <1>4 DEF Outlets
<1>7. temps = {} /\ ~ spool.named
  BY <1>1, <1>3 DEF Left
<1>8. (\E n \in Names : Scratched(n)) => request.scratch \in Names /\ ~ IsRegular(dir[request.scratch])
  <2> SUFFICES ASSUME NEW n \in Names, Scratched(n)
               PROVE  request.scratch \in Names /\ ~ IsRegular(dir[request.scratch])
    OBVIOUS
  <2>1. Spooling /\ (IsLink(request.scratch) \/ ~ IsRegular(dir[request.scratch]))
    BY <1>1, <1>7 DEF ScratchGone
  <2> QED BY <2>1, RequestFields DEF Spooling, IsLink, IsRegular, TypeOK
<1> QED BY <1>1, <1>5, <1>6, <1>7, <1>8 DEF Delivers, StreamsAside, Unread

(* Deleting the input takes one name away, which is no output's.           *)
LEMMA DeliversOn ==
  ASSUME Good, Delivers, DeleteInput \/ UNCHANGED vars
  PROVE  Delivers'
<1>1. CASE UNCHANGED vars
  BY <1>1 DEF Delivers, vars, worldVars, dataVars, IsRegular, Led, Target, Scratched
<1>2. CASE DeleteInput
  <2>1. /\ UNCHANGED <<request, file, before, temps>>
        /\ dir' = [dir EXCEPT ![request.fi] = NoFile]
        /\ dir \in [Names -> Ids \cup {NoFile}]
    BY <1>2 DEF DeleteInput, dataVars, Good, TypeOK
  <2>2. \A n \in Names : dir'[n] = dir[n] \/ dir'[n] = NoFile
    BY <2>1
  <2>3. ASSUME NEW n \in Names, IsRegular(Led(n))' PROVE Led(n)' = Led(n) /\ IsRegular(Led(n))
    <3>1. CASE dir'[n] = NoFile
      BY <2>3, <3>1 DEF IsRegular, Led, Target
    <3>2. CASE dir'[n] = dir[n]
      <4>1. PICK t : t = Target(n)
        OBVIOUS
      <4>2. Target(n)' = t
        BY <2>1, <3>2, <4>1 DEF Target
      <4>3. Led(n) = dir[t] /\ Led(n)' = dir'[t]
        BY <4>1, <4>2 DEF Led
      <4>4. t \in Names
        BY <4>1, LedType DEF Good, TypeOK
      <4>5. dir'[t] = dir[t]
        BY <2>2, <2>3, <4>3, <4>4 DEF IsRegular
      <4> QED BY <2>1, <2>3, <4>3, <4>5 DEF IsRegular
    <3> QED BY <2>2, <3>1, <3>2
  <2>4. ASSUME NEW n \in Names, Scratched(n)' PROVE Scratched(n)
    <3>1. dir'[n] # NoFile /\ file[dir'[n]].kind = "regular" /\ "scratch" \in file[dir'[n]].text
      BY <2>1, <2>4 DEF Scratched, IsRegular
    <3>2. dir'[n] = dir[n]
      BY <2>2, <3>1
    <3> QED BY <3>1, <3>2 DEF Scratched, IsRegular
  <2>5. request.fo \in Names \cup {Std} /\ request.index \in Names \cup {NoName}
    BY RequestFields DEF Good, TypeOK
  <2>6. request'.fo # Std /\ IsRegular(Led(request.fo))' => file'[Led(request.fo)'].text = {"output"}
    <3>1. PICK n : n = request.fo
      OBVIOUS
    <3> SUFFICES ASSUME n \in Names, n # Std, IsRegular(Led(n))' PROVE file'[Led(n)'].text = {"output"}
      BY <2>1, <2>5, <3>1
    <3> QED BY <2>1, <2>3, <3>1 DEF Delivers
  <2>7. request'.mode = "compress" /\ request'.index # NoName /\ IsRegular(Led(request.index))' =>
          file'[Led(request.index)'].text = {"index"}
    <3>1. PICK n : n = request.index
      OBVIOUS
    <3> SUFFICES ASSUME request.mode = "compress", n \in Names, n # NoName, IsRegular(Led(n))'
                 PROVE  file'[Led(n)'].text = {"index"}
      BY <2>1, <2>5, <3>1
    <3> QED BY <2>1, <2>3, <3>1 DEF Delivers
  <2>8. (\E n \in Names : Scratched(n)') =>
          request'.scratch \in Names /\ ~ IsRegular(dir[request.scratch])'
    <3> SUFFICES ASSUME NEW n \in Names, Scratched(n)'
                 PROVE  request'.scratch \in Names /\ ~ IsRegular(dir[request.scratch])'
      OBVIOUS
    <3>1. request.scratch \in Names /\ ~ IsRegular(dir[request.scratch])
      BY <2>4 DEF Delivers
    <3>2. dir'[request.scratch] = dir[request.scratch] \/ dir'[request.scratch] = NoFile
      BY <2>2, <3>1
    <3> QED BY <2>1, <3>1, <3>2 DEF IsRegular
  <2>9. /\ request'.fo = Std /\ IsRegular(request.stdout)' => file'[request'.stdout].text \subseteq {"user", "output"}
        /\ before'.id # NoFile => file'[before'.id].text = {"user"}
        /\ temps' = {}
    BY <2>1 DEF Delivers, IsRegular
  <2> QED BY <2>6, <2>7, <2>8, <2>9 DEF Delivers
<1> QED BY <1>1, <1>2

Delivered ==
  /\ Tracked
  /\ Quiet /\ Live /\ ~ failed => Delivering
  /\ Quiet /\ ~ Live => Delivers

(* When only the input is left to delete nothing else is done.             *)
LEMMA LastStep ==
  ASSUME Good, Next, ~ Live, Quiet'
  PROVE  DeleteInput \/ UNCHANGED vars
<1>1. /\ TypeOK /\ TodoOK /\ Named /\ ~ failed
  BY DEF Good, Live
<1>2. todo # <<>> => Head(todo) = "delete"
  <2>1. todo # <<>> => todo[1] \in Steps /\ 1 \in DOMAIN todo /\ Head(todo) = todo[1]
    BY <1>1 DEF TypeOK
  <2> QED BY <2>1 DEF Live, Pending
<1>3. opening = NotOpening
  BY <1>1, <1>2 DEF Named, Spools, Opens
<1>4. ~ Other
  <2>1. Quiet /\ meddled' = meddled
    BY MeddlingCounts
  <2>2. meddled \in Nat
    BY <1>1 DEF TypeOK
  <2> QED BY <1>1, <2>1, <2>2, OtherFiles
<1>5. ~ Checking
  BY <1>2 DEF Checking, NoteInput, NoteIndex, NoteStderr, NoteStdout, CheckNames, Stamp, At
<1>6. ~ Opening
  BY <1>2, <1>3 DEF Opening, CreateIndex, CreateOutput, TryExclusive, ExclusiveFails, TryPlain, TryCreate,
     OpenFails, Refuse, Accept, TruncateFails, At, NotOpening
<1>7. ~ Temps
  BY <1>2 DEF Temps, NewTemp, Spool, CopyStdin, DeleteTemps, RemoveSpool, At
<1>8. ~ Working
  BY <1>2 DEF Working, Sniff, OpenInput, OpenIndex, Dedup, Encode, Decode, Spill, CopyOut, Breaks, At
<1>9. ~ (Close \/ CheckUnchanged \/ RemoveClaimed \/ Report)
  BY <1>2 DEF Close, CheckUnchanged, RemoveClaimed, Report, At
<1> QED BY <1>4, <1>5, <1>6, <1>7, <1>8, <1>9 DEF Next, Run, Ending, Stopped

LEMMA InputLast ==
  ASSUME Good, Planned, Live, ~ failed
  PROVE  ~ DeleteInput
<1> SUFFICES ASSUME DeleteInput PROVE FALSE
  OBVIOUS
<1>1. todo # <<>> /\ Head(todo) = "delete" /\ TodoOK /\ Pending(Steps \ {"delete"})
  BY DEF DeleteInput, At, Good, Live
<1>2. \A i \in DOMAIN Tail(todo) : Tail(todo)[i] \notin Steps \ {"delete"}
  BY <1>1, HeadPlaced
<1> QED BY <1>1, <1>2, PendingNow

LEMMA DeliveredOn ==
  ASSUME Delivered, [Next]_vars
  PROVE  Delivered'
<1>1. /\ Tracked /\ Good /\ Planned /\ TypeOK /\ Tracked'
  BY TrackedOn DEF Delivered, Tracked, Sound, Good
<1>2. CASE Next
  <2>1. CASE ~ Quiet'
    BY <1>1, <2>1 DEF Delivered
  <2>2. CASE Quiet' /\ failed'
    BY <1>1, <2>2 DEF Delivered, Live
  <2>3. CASE Quiet' /\ ~ failed' /\ Live
    <3>1. Quiet /\ meddled' = meddled
      BY <1>1, <1>2, <2>3, MeddlingCounts
    <3>2. Moves
      BY <1>1, <1>2, NextMoves DEF Good
    <3>3. ~ failed
      BY <2>3, <3>2 DEF Moves, Done, Fail
    <3>4. ~ DeleteInput
      BY <1>1, <2>3, <3>3, InputLast
    <3>5. Going
      BY <1>1, <1>2, <2>3, <3>1, <3>3, <3>4 DEF Going, Alone, Tracked, Delivered
    <3>6. Delivering'
      BY <3>5, DeliveringOn
    <3>7. TypeOK'
      BY <1>1 DEF Tracked, Good
    <3>8. ~ Live' => Delivers'
      <4>1. TypeOK' /\ Delivering' /\ ~ Live' => Delivers'
        BY DeliveringEnds, PTL
      <4> QED BY <3>6, <3>7, <4>1
    <3> QED BY <1>1, <3>6, <3>8 DEF Delivered
  <2>4. CASE Quiet' /\ ~ failed' /\ ~ Live
    <3>1. Quiet
      BY <1>1, <1>2, <2>4, MeddlingCounts
    <3>2. Delivers
      BY <2>4, <3>1 DEF Delivered
    <3>3. Delivers'
      BY <1>1, <1>2, <2>4, <3>2, LastStep, DeliversOn
    <3>4. ~ Live'
      BY <1>1, <1>2, <2>4, Lives
    <3> QED BY <1>1, <3>3, <3>4 DEF Delivered
  <2> QED BY <2>1, <2>2, <2>3, <2>4
<1>3. CASE UNCHANGED vars
  <2>1. /\ Quiet' <=> Quiet
        /\ Live' <=> Live
        /\ failed' = failed
    BY <1>3 DEF vars, Quiet, Live, Pending
  <2>2. Delivering => Delivering'
    <3>1. /\ Promises(request, todo) => Promises(request, todo)'
          /\ Left => Left'
          /\ Beginning => Beginning'
      BY <1>3 DEF vars, worldVars, dataVars, Left, Beginning, Pending, opened, Led, Target, Spooling
    <3>2. Outlets => Outlets'
      BY <1>3 DEF vars, worldVars, ruleVars, dataVars, Outlets, Ready, Pending, OpenToWrite, IsRegular,
         Led, Target
    <3>3. (StreamsAside => StreamsAside') /\ (Unread => Unread')
      BY <1>3 DEF vars, worldVars, ruleVars, dataVars, StreamsAside, Unread, Pending, IsRegular
    <3>4. (Sole => Sole') /\ (ScratchGone => ScratchGone')
      BY <1>3 DEF vars, worldVars, dataVars, Sole, ScratchGone, Spooling, Shared, Others, Scratched, IsLink,
         IsRegular, Led, Target, Pending
    <3> QED BY <3>1, <3>2, <3>3, <3>4 DEF Delivering
  <2>3. Delivers => Delivers'
    BY <1>1, <1>3, DeliversOn
  <2> QED BY <1>1, <2>1, <2>2, <2>3 DEF Delivered
<1> QED BY <1>2, <1>3

(* A run that ends well, with nobody else about, has given each output its *)
(* own bytes and no others, left the input as it was, and left no          *)
(* temporary.  So it is for any options and any directory in which the     *)
(* files found have the user's bytes only: no two of the names given, nor  *)
(* the links and streams they come to, can make one step of the script     *)
(* write where another did.                                                *)
THEOREM SuccessLeavesOutputs ==
  ASSUME UsersFiles
  PROVE  Spec => []SuccessDelivers
<1>1. Init => Delivered
  <2> SUFFICES ASSUME Init PROVE Delivered
    OBVIOUS
  <2>1. Unwritten
    BY DEF UsersFiles, Unwritten
  <2>2. Tracked
    BY <2>1, TypesStart, RuleStarts, SoundStarts, TracedStarts DEF Tracked, Good
  <2>3. Delivering /\ TypeOK
    BY DeliveringStarts, TypesStart
  <2>4. ~ Live => Delivers
    BY <2>3, DeliveringEnds
  <2> QED BY <2>2, <2>3, <2>4 DEF Delivered
<1>2. Delivered /\ [Next]_vars => Delivered'
  BY DeliveredOn
<1>3. Delivered => SuccessDelivers
  <2> SUFFICES ASSUME Delivered, todo = <<>>, ~ failed, Quiet
               PROVE  SuccessDelivers
    BY DEF SuccessDelivers, Success
  <2>1. Delivers
    BY DEF Delivered, Live, Pending
  <2>2. "scratch" \in UNION {file[dir[n]].text : n \in {n \in Names : IsRegular(dir[n])}} =>
          \E n \in Names : Scratched(n)
    BY DEF Scratched
  <2> QED BY <2>1, <2>2 DEF SuccessDelivers, Delivers, IdOfName
<1> QED BY <1>1, <1>2, <1>3, PTL DEF Spec
=============================================================================

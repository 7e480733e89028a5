--------------------------- MODULE FiclFilesProofs ---------------------------
(***************************************************************************)
(* What FiclFiles says of sources of text, of written files and of lines   *)
(* holds for any number of files and of texts of any length, however texts *)
(* include and evaluate one another, as long as programs keep the rules    *)
(* that each theorem names.                                                *)
(***************************************************************************)
EXTENDS FiclFiles, SetInduction, SequenceTheorems

Sources == [file : Files \cup {None}, rest : Nat, id : Files \cup {0, -1}, caught : BOOLEAN]

\* The text of an open file, or of a name, is there.
Lives ==
    /\ \A n \in Names : directory[n] # None => texts[directory[n]] # None
    /\ \A f \in Open : TextOf(f) # None

LineRecords == [file : Files \cup {None}, from : Nat, glued : Texts, ends : SUBSET Nat, flag : BOOLEAN]

Typed ==
    /\ directory \in [Names -> Inodes \cup {None}]
    /\ texts \in [Inodes -> Texts \cup {None}]
    /\ file \in [Files -> Records \cup {None}]
    /\ said \in [Files -> [text : Texts, atEnd : BOOLEAN]]
    /\ lines \in LineRecords
    /\ lines.file # None => lines.file \in Open
    /\ Lives

\* SOURCE-ID while the n-th of the sources s is the innermost.
IdOf(s, n) == IF n = 0 THEN 0 ELSE IF s[n].file = None THEN -1 ELSE s[n].file

\* Each source of s has the SOURCE-ID of the one below it, id is that of the
\* innermost, and included files are open, each in one place.
Stacked(s, id, open) ==
    /\ s \in Seq(Sources)
    /\ id = IdOf(s, Len(s))
    /\ \A i \in DOMAIN s : s[i].id = IdOf(s, i - 1)
    /\ \A i \in DOMAIN s : s[i].file # None =>
          s[i].file \in open /\ \A k \in DOMAIN s \ {i} : s[k].file # s[i].file

SourcesSound == Stacked(sources, sourceId, Open)

\* A file that is written has its text for itself.
Exclusive == Keeps("written_alone") =>
    \A f, g \in Open : f # g /\ file[f].inode = file[g].inode => ~file[f].writes /\ ~file[g].writes

\* What stdio holds back is of a file that is written, and lies behind
\* nothing but the place where it begins.
RecordSound(r) ==
    /\ r.pending # << >> => r.writes /\ r.turn = "writes"
    /\ ~r.appends => Len(r.pending) <= r.position

PendingSound ==
    \A f \in Open : RecordSound(file[f]) /\ (file[f].writes => said[f].atEnd = file[f].appends)

HostInv == Typed /\ Exclusive /\ PendingSound

\* What stdio holds back leaves no gap.
NoGap ==
    \A f \in Open : file[f].pending # << >> /\ ~file[f].appends =>
        file[f].position - Len(file[f].pending) <= Len(TextOf(f))

\* No NULs, so that every character of a line is shown.
NoNuls == \A i \in Inodes : texts[i] # None => texts[i] \in Seq(Chars)

\* A file that is only read stands in its text, at its end once it is said to.
PlaceSound ==
    \A f \in Open : ~file[f].writes =>
        /\ file[f].position <= Len(TextOf(f))
        /\ file[f].eof => file[f].position = Len(TextOf(f))

\* glued says what read says, but that a newline may stand for a carriage
\* return at one of the places where READ-LINE ended.
SaysAs(glued, read, ends) ==
    \A i \in 1..Len(read) :
        \/ glued[i] = read[i]
        \/ read[i] = "\r" /\ glued[i] = "\n" /\ i \in ends

\* The lines l of a file, which stands as q does in the text t, are what it has
\* read, but for the newline that the last one has not, and nothing is read
\* behind that.
LinesAre(l, q, t) ==
    LET read == SubSeq(t, l.from + 1, q.position)
    IN  /\ ~q.writes /\ l.from <= q.position
        /\ \/ Len(l.glued) = Len(read)
           \/ /\ q.eof /\ read # << >> /\ Last(read) \notin {"\r", "\n"}
              /\ Len(l.glued) = Len(read) + 1 /\ Last(l.glued) = "\n"
        /\ SaysAs(l.glued, read, l.ends)
        /\ ~l.flag => q.position = Len(t)

LinesSound == lines.file # None => LinesAre(lines, file[lines.file], TextOf(lines.file))

-----------------------------------------------------------------------------
(* Numbers and sequences *)

\* The larger of two numbers.
LEMMA MaxOfTwo == \A a, b \in Nat : Max({a, b}) = IF a >= b THEN a ELSE b
    BY DEF Max

\* The smaller of two numbers.
LEMMA MinOfTwo == \A a, b \in Int : Min({a, b}) = IF a <= b THEN a ELSE b
    BY DEF Min

\* The positions in a sequence that are in question have a first and a last.
LEMMA MinIn ==
    ASSUME NEW S \in SUBSET Nat, S # {}
    PROVE  Min(S) \in S
    BY NatMin DEF Min

\* A set of positions has a greatest.
LEMMA MaxIn ==
    ASSUME NEW n \in Nat, NEW S \in SUBSET (0..n), S # {}
    PROVE  Max(S) \in S /\ \A k \in S : Max(S) >= k
    <1> DEFINE T == {n - k : k \in S}
    <1>1. T \in SUBSET Nat /\ T # {}
        <2>1. \A k \in S : n - k \in Nat
            OBVIOUS
        <2> QED
            BY <2>1
    <1>2. PICK t \in T : \A u \in T : t <= u
        BY <1>1, NatMin
    <1>3. PICK m \in S : t = n - m
        OBVIOUS
    <1>4. ASSUME NEW k \in S PROVE m >= k
        BY <1>2, <1>3
    <1> QED
        BY <1>4 DEF Max

\* Two sequences with the same elements are one.
LEMMA SameSequence ==
    ASSUME NEW S, NEW s \in Seq(S), NEW t \in Seq(S), Len(s) = Len(t),
           \A i \in 1..Len(s) : s[i] = t[i]
    PROVE  s = t
    OBVIOUS

\* A function on 1..n is a sequence of length n.
LEMMA OfFunction ==
    ASSUME NEW S, NEW n \in Nat, NEW s \in [1..n -> S]
    PROVE  s \in Seq(S) /\ Len(s) = n
    OBVIOUS

\* A piece of a sequence.
LEMMA Slice ==
    ASSUME NEW S, NEW s \in Seq(S), NEW m \in Nat \ {0}, NEW n \in Int, n <= Len(s)
    PROVE  /\ SubSeq(s, m, n) \in Seq(S)
           /\ Len(SubSeq(s, m, n)) = IF m <= n THEN n - m + 1 ELSE 0
           /\ \A i \in 1..n - m + 1 : SubSeq(s, m, n)[i] = s[m + i - 1]
    <1>1. \A i \in m..n : s[i] \in S
        BY LenProperties
    <1> QED
        BY <1>1, SubSeqProperties

\* The beginning of a sequence.
LEMMA Prefix ==
    ASSUME NEW S, NEW s \in Seq(S), NEW n \in Nat, n <= Len(s)
    PROVE  /\ SubSeq(s, 1, n) \in Seq(S) /\ Len(SubSeq(s, 1, n)) = n
           /\ \A i \in 1..n : SubSeq(s, 1, n)[i] = s[i]
    <1>1. /\ SubSeq(s, 1, n) \in Seq(S)
          /\ Len(SubSeq(s, 1, n)) = IF 1 <= n THEN n - 1 + 1 ELSE 0
          /\ \A i \in 1..n - 1 + 1 : SubSeq(s, 1, n)[i] = s[1 + i - 1]
        BY Slice
    <1> QED
        BY <1>1

\* A sequence without its last element.
LEMMA FrontIsPrefix ==
    ASSUME NEW S, NEW s \in Seq(S), s # << >>
    PROVE  /\ Front(s) \in Seq(S) /\ Len(Front(s)) = Len(s) - 1
           /\ \A i \in 1..Len(s) - 1 : Front(s)[i] = s[i]
           /\ Front(s) = SubSeq(s, 1, Len(s) - 1) /\ Len(s) - 1 \in Nat
           /\ Last(s) = s[Len(s)] /\ Last(s) \in S
    <1>1. Len(s) - 1 \in Nat /\ Len(s) \in Nat /\ Last(s) \in S
        BY DEF Last
    <1>2. /\ SubSeq(s, 1, Len(s) - 1) \in Seq(S) /\ Len(SubSeq(s, 1, Len(s) - 1)) = Len(s) - 1
          /\ \A i \in 1..Len(s) - 1 : SubSeq(s, 1, Len(s) - 1)[i] = s[i]
        <2> DEFINE n == Len(s) - 1
        <2>1. n \in Nat /\ n <= Len(s)
            BY <1>1
        <2> HIDE DEF n
        <2>2. /\ SubSeq(s, 1, n) \in Seq(S) /\ Len(SubSeq(s, 1, n)) = n
              /\ \A i \in 1..n : SubSeq(s, 1, n)[i] = s[i]
            BY <2>1, Prefix
        <2> QED
            BY <2>2 DEF n
    <1> QED
        BY <1>1, <1>2 DEF Front, Last

\* What Over makes, character by character.
LEMMA OverElements ==
    ASSUME NEW text \in Texts, NEW at \in Nat, NEW new \in Texts
    PROVE  /\ Over(text, at, new) \in Texts
           /\ Len(Over(text, at, new)) = IF Len(text) >= at + Len(new) THEN Len(text) ELSE at + Len(new)
           /\ \A i \in 1..Len(Over(text, at, new)) :
                  Over(text, at, new)[i] = IF i \in at + 1..at + Len(new) THEN new[i - at]
                                           ELSE IF i \in 1..Len(text) THEN text[i] ELSE "nul"
    <1> DEFINE n == Max({Len(text), at + Len(new)})
               o == Over(text, at, new)
    <1>1. n = (IF Len(text) >= at + Len(new) THEN Len(text) ELSE at + Len(new)) /\ n \in Nat
        BY MaxOfTwo DEF Texts
    <1> HIDE DEF n
    <1>2. o = [i \in 1..n |-> IF i \in at + 1..at + Len(new) THEN new[i - at]
                              ELSE IF i \in DOMAIN text THEN text[i] ELSE "nul"]
        BY DEF Over, n
    <1>3. ASSUME NEW i \in 1..n
          PROVE  (IF i \in at + 1..at + Len(new) THEN new[i - at]
                  ELSE IF i \in DOMAIN text THEN text[i] ELSE "nul") \in Chars \cup {"nul"}
        <2>1. CASE i \in at + 1..at + Len(new)
            <3>1. i - at \in 1..Len(new)
                BY <2>1 DEF Texts
            <3> QED
                BY <2>1, <3>1 DEF Texts
        <2>2. CASE i \notin at + 1..at + Len(new)
            BY <2>2 DEF Texts
        <2> QED
            BY <2>1, <2>2
    <1>4. o \in [1..n -> Chars \cup {"nul"}]
        BY <1>2, <1>3
    <1> HIDE DEF o
    <1>5. o \in Texts /\ Len(o) = n
        BY <1>1, <1>4, OfFunction DEF Texts
    <1>6. DOMAIN text = 1..Len(text)
        BY DEF Texts
    <1> QED
        BY <1>1, <1>2, <1>5, <1>6 DEF o

PlainTexts == Seq(Chars)

\* A text without NUL is a text.
LEMMA PlainIsText == PlainTexts \subseteq Texts
    <1> SUFFICES ASSUME NEW s \in PlainTexts PROVE s \in Texts
        OBVIOUS
    <1>1. s \in [1..Len(s) -> Chars \cup {"nul"}] /\ Len(s) \in Nat
        BY DEF PlainTexts
    <1> QED
        BY <1>1, OfFunction DEF Texts

\* Without a gap no NUL comes in.
LEMMA OverPlain ==
    ASSUME NEW text \in PlainTexts, NEW at \in Nat, NEW new \in PlainTexts, at <= Len(text)
    PROVE  Over(text, at, new) \in PlainTexts
    <1> DEFINE o == Over(text, at, new)
    <1>1. text \in Texts /\ new \in Texts /\ Len(text) \in Nat /\ Len(new) \in Nat
        BY PlainIsText DEF PlainTexts
    <1>2. /\ o \in Texts
          /\ Len(o) = IF Len(text) >= at + Len(new) THEN Len(text) ELSE at + Len(new)
          /\ \A i \in 1..Len(o) : o[i] = IF i \in at + 1..at + Len(new) THEN new[i - at]
                                          ELSE IF i \in 1..Len(text) THEN text[i] ELSE "nul"
        BY <1>1, OverElements
    <1> HIDE DEF o
    <1>3. ASSUME NEW i \in 1..Len(o) PROVE o[i] \in Chars
        <2>1. CASE i \in at + 1..at + Len(new)
            <3>1. i - at \in 1..Len(new)
                BY <2>1, <1>1
            <3> QED
                BY <2>1, <3>1, <1>2 DEF PlainTexts
        <2>2. CASE i \notin at + 1..at + Len(new)
            <3>1. i \in 1..Len(text)
                BY <1>1, <1>2, <2>2
            <3> QED
                BY <2>2, <3>1, <1>2 DEF PlainTexts
        <2> QED
            BY <2>1, <2>2
    <1>4. o \in [1..Len(o) -> Chars] /\ Len(o) \in Nat
        BY <1>2, <1>3 DEF Texts
    <1> QED
        BY <1>4, OfFunction DEF PlainTexts, o

\* Writing twice, one behind the other, is writing once.
LEMMA OverTwice ==
    ASSUME NEW text \in Texts, NEW at \in Nat, NEW x \in Texts, NEW y \in Texts,
           x # << >> \/ at <= Len(text)
    PROVE  Over(Over(text, at, x), at + Len(x), y) = Over(text, at, x \o y)
    <1> DEFINE o == Over(text, at, x)
               p == Over(o, at + Len(x), y)
               z == x \o y
               q == Over(text, at, z)
    <1>1. /\ z \in Texts /\ Len(z) = Len(x) + Len(y)
          /\ \A i \in 1..Len(x) + Len(y) : z[i] = IF i <= Len(x) THEN x[i] ELSE y[i - Len(x)]
        BY DEF Texts
    <1> HIDE DEF z
    <1>2. Len(x) \in Nat /\ Len(y) \in Nat /\ Len(text) \in Nat /\ at + Len(x) \in Nat
        BY DEF Texts
    <1>3. /\ o \in Texts
          /\ Len(o) = IF Len(text) >= at + Len(x) THEN Len(text) ELSE at + Len(x)
          /\ \A i \in 1..Len(o) : o[i] = IF i \in at + 1..at + Len(x) THEN x[i - at]
                                          ELSE IF i \in 1..Len(text) THEN text[i] ELSE "nul"
        BY OverElements
    <1> HIDE DEF o
    <1>4. /\ p \in Texts
          /\ Len(p) = IF Len(o) >= at + Len(x) + Len(y) THEN Len(o) ELSE at + Len(x) + Len(y)
          /\ \A i \in 1..Len(p) :
                p[i] = IF i \in at + Len(x) + 1..at + Len(x) + Len(y) THEN y[i - (at + Len(x))]
                       ELSE IF i \in 1..Len(o) THEN o[i] ELSE "nul"
        BY <1>2, <1>3, OverElements
    <1>5. /\ q \in Texts
          /\ Len(q) = IF Len(text) >= at + Len(z) THEN Len(text) ELSE at + Len(z)
          /\ \A i \in 1..Len(q) : q[i] = IF i \in at + 1..at + Len(z) THEN z[i - at]
                                          ELSE IF i \in 1..Len(text) THEN text[i] ELSE "nul"
        BY <1>1, OverElements
    <1>6. x # << >> \/ Len(x) = 0
        BY DEF Texts
    <1> HIDE DEF p, q
    <1>7. Len(p) = Len(q) /\ Len(p) \in Nat
        <2>1. ASSUME NEW a \in Nat, NEW b \in Nat, NEW c \in Nat, NEW d \in Nat,
                     NEW l, l = IF d >= a + b THEN d ELSE a + b
              PROVE  /\ (IF l >= a + b + c THEN l ELSE a + b + c)
                            = (IF d >= a + (b + c) THEN d ELSE a + (b + c))
                     /\ (IF l >= a + b + c THEN l ELSE a + b + c) \in Nat
            BY <2>1
        <2>2. Len(q) = IF Len(text) >= at + (Len(x) + Len(y)) THEN Len(text) ELSE at + (Len(x) + Len(y))
            BY <1>1, <1>5
        <2> QED
            BY <1>2, <1>3, <1>4, <2>1, <2>2
    <1>8. ASSUME NEW i \in 1..Len(p) PROVE p[i] = q[i]
        <2>1. i \in Nat /\ i >= 1 /\ i \in 1..Len(q)
            BY <1>7
        <2>2. CASE i \in at + 1..at + Len(x)
            <3>1. i \notin at + Len(x) + 1..at + Len(x) + Len(y) /\ i \in 1..Len(o)
                BY <2>1, <2>2, <1>2, <1>3
            <3>2. p[i] = x[i - at]
                BY <3>1, <2>2, <1>3, <1>4
            <3>3. i - at \in 1..Len(x) + Len(y) /\ i - at <= Len(x) /\ i \in at + 1..at + Len(z)
                BY <2>2, <1>1, <1>2
            <3>4. q[i] = x[i - at]
                BY <2>1, <3>3, <1>1, <1>5
            <3> QED
                BY <3>2, <3>4
        <2>3. CASE i \in at + Len(x) + 1..at + Len(x) + Len(y)
            <3>1. i - at \in 1..Len(x) + Len(y) /\ ~(i - at <= Len(x)) /\ i \in at + 1..at + Len(z)
                BY <2>3, <1>1, <1>2
            <3>2. q[i] = y[(i - at) - Len(x)]
                BY <2>1, <3>1, <1>1, <1>5
            <3>3. (i - at) - Len(x) = i - (at + Len(x))
                BY <2>1, <1>2
            <3> QED
                BY <2>3, <3>2, <3>3, <1>4
        <2>4. CASE i \notin at + 1..at + Len(x) + Len(y)
            <3>1. /\ i \notin at + Len(x) + 1..at + Len(x) + Len(y)
                  /\ i \notin at + 1..at + Len(x) /\ i \notin at + 1..at + Len(z)
                BY <2>1, <2>4, <1>1, <1>2
            <3>2. q[i] = IF i \in 1..Len(text) THEN text[i] ELSE "nul"
                BY <2>1, <3>1, <1>5
            <3>3. i \in 1..Len(text) => i \in 1..Len(o)
                BY <2>1, <1>2, <1>3
            <3>4. p[i] = IF i \in 1..Len(o) THEN o[i] ELSE "nul"
                BY <3>1, <1>4
            <3> QED
                BY <3>1, <3>2, <3>3, <3>4, <1>3
        <2> QED
            BY <2>1, <2>2, <2>3, <2>4, <1>2
    <1> QED
        BY <1>4, <1>5, <1>7, <1>8, SameSequence DEF p, q, o, z, Texts

\* Writing at the end is writing behind.
LEMMA OverEnd ==
    ASSUME NEW text \in Texts, NEW x \in Texts
    PROVE  Over(text, Len(text), x) = text \o x
    <1> DEFINE o == Over(text, Len(text), x)
    <1>1. /\ text \o x \in Texts /\ Len(text \o x) = Len(text) + Len(x)
          /\ \A i \in 1..Len(text) + Len(x) :
                (text \o x)[i] = IF i <= Len(text) THEN text[i] ELSE x[i - Len(text)]
        BY DEF Texts
    <1>2. Len(text) \in Nat /\ Len(x) \in Nat
        BY DEF Texts
    <1>3. /\ o \in Texts
          /\ Len(o) = IF Len(text) >= Len(text) + Len(x) THEN Len(text) ELSE Len(text) + Len(x)
          /\ \A i \in 1..Len(o) :
                o[i] = IF i \in Len(text) + 1..Len(text) + Len(x) THEN x[i - Len(text)]
                       ELSE IF i \in 1..Len(text) THEN text[i] ELSE "nul"
        BY <1>2, OverElements
    <1> HIDE DEF o
    <1>4. Len(o) = Len(text \o x)
        BY <1>1, <1>2, <1>3
    <1>5. \A i \in 1..Len(o) : o[i] = (text \o x)[i]
        BY <1>1, <1>2, <1>3
    <1> QED
        BY <1>1, <1>3, <1>4, <1>5, SameSequence DEF o, Texts

\* Writing nothing, and not behind a gap, changes nothing.
LEMMA OverNothing ==
    ASSUME NEW text \in Texts, NEW at \in Nat, at <= Len(text)
    PROVE  Over(text, at, << >>) = text
    <1> DEFINE o == Over(text, at, << >>)
    <1>1. << >> \in Texts /\ Len(text) \in Nat /\ Len(<< >>) = 0
        BY DEF Texts
    <1>2. /\ o \in Texts
          /\ Len(o) = IF Len(text) >= at + 0 THEN Len(text) ELSE at + 0
          /\ \A i \in 1..Len(o) : o[i] = IF i \in at + 1..at + 0 THEN << >>[i - at]
                                          ELSE IF i \in 1..Len(text) THEN text[i] ELSE "nul"
        BY <1>1, OverElements
    <1> HIDE DEF o
    <1>3. Len(o) = Len(text) /\ \A i \in 1..Len(o) : o[i] = text[i]
        BY <1>1, <1>2
    <1> QED
        BY <1>2, <1>3, SameSequence DEF o, Texts

\* A text cut, or filled up with NULs, to a size is a text.
LEMMA CutIsText ==
    ASSUME NEW text \in Texts, NEW size \in Nat
    PROVE  Cut(text, size) \in Texts
    <1>1. \A i \in 1..size : (IF i \in DOMAIN text THEN text[i] ELSE "nul") \in Chars \cup {"nul"}
        BY DEF Texts
    <1>2. Cut(text, size) \in [1..size -> Chars \cup {"nul"}]
        BY <1>1 DEF Cut
    <1> QED
        BY <1>2, OfFunction DEF Texts

\* A text cut to a size within it gets no NUL.
LEMMA CutIsPlain ==
    ASSUME NEW text \in PlainTexts, NEW size \in Nat, size <= Len(text)
    PROVE  Cut(text, size) \in PlainTexts
    <1>1. \A i \in 1..size : i \in DOMAIN text /\ text[i] \in Chars
        BY DEF PlainTexts
    <1>2. Cut(text, size) \in [1..size -> Chars]
        BY <1>1 DEF Cut
    <1> QED
        BY <1>2, OfFunction DEF PlainTexts

-----------------------------------------------------------------------------
(* Files *)

\* An open file has a record, and a text on the host.
LEMMA OpenIsRecord ==
    ASSUME Typed, NEW f \in Files
    PROVE  /\ f \in Open <=> file[f] \in Records
           /\ f \in Open => /\ TextOf(f) \in Texts /\ file[f].inode \in Inodes
                            /\ texts[file[f].inode] = TextOf(f)
    <1>1. f \in Open <=> file[f] \in Records
        BY NoneAssumption DEF Typed, Open
    <1>2. ASSUME f \in Open
          PROVE  TextOf(f) \in Texts /\ file[f].inode \in Inodes /\ texts[file[f].inode] = TextOf(f)
        <2>1. file[f].inode \in Inodes
            BY <1>1, <1>2 DEF Records
        <2> QED
            BY <1>2, <2>1 DEF Typed, Lives, TextOf
    <1> QED
        BY <1>1, <1>2

\* What a file says is a text, and without a gap a plain one.
LEMMA FlushedTyped ==
    ASSUME HostInv, NEW f \in Open
    PROVE  /\ Flushed(f) \in Texts
           /\ TextOf(f) \in PlainTexts /\ NoGap => Flushed(f) \in PlainTexts
           /\ file[f].pending = << >> => Flushed(f) = TextOf(f)
    <1> DEFINE r == file[f]
               t == TextOf(f)
    <1>1. r \in Records /\ t \in Texts /\ RecordSound(r)
        BY OpenIsRecord DEF HostInv, Open, PendingSound
    <1>2. r.pending \in PlainTexts /\ r.pending \in Texts /\ r.position \in Nat /\ Len(r.pending) \in Nat
        BY <1>1, PlainIsText DEF Records, PlainTexts
    <1>3. Flushed(f) = IF r.pending = << >> THEN t
                       ELSE IF r.appends THEN t \o r.pending
                       ELSE Over(t, r.position - Len(r.pending), r.pending)
        BY DEF Flushed
    <1>4. NoGap => (r.pending # << >> /\ ~r.appends => r.position - Len(r.pending) <= Len(t))
        BY DEF NoGap
    <1>5. ~r.appends => r.position - Len(r.pending) \in Nat
        BY <1>1, <1>2 DEF RecordSound
    <1> HIDE DEF r, t
    <1>6. CASE r.pending = << >>
        BY <1>1, <1>3, <1>6 DEF r, t
    <1>7. CASE r.pending # << >> /\ r.appends
        BY <1>1, <1>2, <1>3, <1>7 DEF r, t, PlainTexts, Texts
    <1>8. CASE r.pending # << >> /\ ~r.appends
        <2>1. Over(t, r.position - Len(r.pending), r.pending) \in Texts
            BY <1>1, <1>2, <1>5, <1>8, OverElements
        <2>2. t \in PlainTexts /\ r.position - Len(r.pending) <= Len(t) =>
                  Over(t, r.position - Len(r.pending), r.pending) \in PlainTexts
            BY <1>2, <1>5, <1>8, OverPlain
        <2> QED
            BY <1>3, <1>4, <1>8, <2>1, <2>2 DEF r, t
    <1> QED
        BY <1>6, <1>7, <1>8

SameFile(r, q) ==
    r.inode = q.inode /\ r.reads = q.reads /\ r.writes = q.writes /\ r.appends = q.appends

\* A word sets the record of f to r, its text to t and what it should say to x.
Updates(f, r, t, x) ==
    /\ r \in Records /\ SameFile(r, file[f]) /\ RecordSound(r)
    /\ t \in Texts /\ x \in Texts
    /\ file' = [file EXCEPT ![f] = r]
    /\ texts' = [texts EXCEPT ![file[f].inode] = t]
    /\ said' = [said EXCEPT ![f].text = x]
    /\ directory' = directory

\* READ-LINE has begun with f, or goes on; other words make an end of it.
LinesOf(f) == lines' \in LineRecords /\ (lines'.file # None => lines'.file \in {f, lines.file})

\* The state after a word has updated f: other files see it only if they
\* have the same text.
LEMMA AfterUpdate ==
    ASSUME HostInv, NEW f \in Open, NEW r, NEW t, NEW x, Updates(f, r, t, x)
    PROVE  /\ Open' = Open
           /\ file'[f] = r /\ TextOf(f)' = t /\ said'[f].text = x /\ said'[f].atEnd = said[f].atEnd
           /\ \A g \in Open \ {f} : /\ file'[g] = file[g] /\ said'[g] = said[g]
                                     /\ TextOf(g)' = IF file[g].inode = file[f].inode THEN t ELSE TextOf(g)
           /\ \A i \in Inodes : texts'[i] = IF i = file[f].inode THEN t ELSE texts[i]
           /\ texts' \in [Inodes -> Texts \cup {None}]
           /\ file' \in [Files -> Records \cup {None}]
           /\ said' \in [Files -> [text : Texts, atEnd : BOOLEAN]]
    <1>1. /\ f \in Files /\ file[f] \in Records /\ file[f].inode \in Inodes
          /\ file \in [Files -> Records \cup {None}] /\ texts \in [Inodes -> Texts \cup {None}]
          /\ said \in [Files -> [text : Texts, atEnd : BOOLEAN]]
        BY OpenIsRecord DEF HostInv, Typed, Open
    <1>2. r \in Records /\ r.inode = file[f].inode /\ r # None /\ t \in Texts /\ x \in Texts
        BY NoneAssumption DEF Updates, SameFile
    <1>3. /\ file' = [file EXCEPT ![f] = r] /\ texts' = [texts EXCEPT ![file[f].inode] = t]
          /\ said' = [said EXCEPT ![f].text = x]
        BY DEF Updates
    <1>4. /\ file' \in [Files -> Records \cup {None}] /\ file'[f] = r
          /\ \A g \in Files \ {f} : file'[g] = file[g]
        BY <1>1, <1>2, <1>3
    <1>5. /\ texts' \in [Inodes -> Texts \cup {None}]
          /\ \A i \in Inodes : texts'[i] = IF i = file[f].inode THEN t ELSE texts[i]
        BY <1>1, <1>2, <1>3
    <1>6. /\ said' \in [Files -> [text : Texts, atEnd : BOOLEAN]]
          /\ said'[f].text = x /\ said'[f].atEnd = said[f].atEnd
          /\ \A g \in Files \ {f} : said'[g] = said[g]
        BY <1>1, <1>2, <1>3
    <1>7. Open' = Open
        BY <1>1, <1>2, <1>4 DEF Open
    <1>8. \A g \in Open : file[g].inode \in Inodes /\ g \in Files
        BY OpenIsRecord DEF HostInv, Open
    <1>9. \A g \in Open : TextOf(g)' = texts'[file'[g].inode]
        BY DEF TextOf
    <1>10. TextOf(f)' = t
        BY <1>1, <1>2, <1>4, <1>5, <1>9
    <1>11. \A g \in Open \ {f} : TextOf(g)' = IF file[g].inode = file[f].inode THEN t ELSE TextOf(g)
        BY <1>4, <1>5, <1>8, <1>9 DEF TextOf
    <1> QED
        BY <1>4, <1>5, <1>6, <1>7, <1>8, <1>10, <1>11

\* Updates keep the invariant of the host.
LEMMA UpdateKeeps ==
    ASSUME HostInv, NEW f \in Open, NEW r, NEW t, NEW x, Updates(f, r, t, x), LinesOf(f)
    PROVE  HostInv'
    <1>1. /\ Open' = Open
          /\ file'[f] = r /\ TextOf(f)' = t /\ said'[f].atEnd = said[f].atEnd
          /\ \A g \in Open \ {f} : /\ file'[g] = file[g] /\ said'[g] = said[g]
                                    /\ TextOf(g)' = IF file[g].inode = file[f].inode THEN t ELSE TextOf(g)
          /\ \A i \in Inodes : texts'[i] = IF i = file[f].inode THEN t ELSE texts[i]
          /\ texts' \in [Inodes -> Texts \cup {None}]
          /\ file' \in [Files -> Records \cup {None}]
          /\ said' \in [Files -> [text : Texts, atEnd : BOOLEAN]]
        BY AfterUpdate
    <1>2. t # None /\ directory' = directory /\ SameFile(r, file[f]) /\ RecordSound(r)
        BY NoneAssumption DEF Updates
    <1>3. Lives'
        <2>1. \A n \in Names : directory'[n] # None => texts'[directory'[n]] # None
            BY <1>1, <1>2 DEF HostInv, Typed, Lives
        <2>2. \A g \in Open : TextOf(g)' # None
            BY <1>1, <1>2 DEF HostInv, Typed, Lives
        <2> QED
            BY <1>1, <2>1, <2>2 DEF Lives
    <1>4. lines' \in LineRecords /\ (lines'.file # None => lines'.file \in Open')
        BY <1>1 DEF LinesOf, HostInv, Typed
    <1>5. Typed'
        BY <1>1, <1>2, <1>3, <1>4 DEF HostInv, Typed
    <1>6. Exclusive'
        BY <1>1, <1>2 DEF HostInv, Exclusive, SameFile
    <1>7. PendingSound'
        <2>1. \A g \in Open' : RecordSound(file'[g]) /\ (file'[g].writes => said'[g].atEnd = file'[g].appends)
            BY <1>1, <1>2 DEF HostInv, PendingSound, SameFile
        <2> QED
            BY <2>1 DEF PendingSound
    <1> QED
        BY <1>5, <1>6, <1>7 DEF HostInv

-----------------------------------------------------------------------------
(* Words and records *)

\* What f holds ahead of its place.
LEMMA AheadTyped ==
    ASSUME HostInv, NEW f \in Open
    PROVE  /\ Ahead(f) \in Texts /\ (TextOf(f) \in PlainTexts => Ahead(f) \in PlainTexts)
           /\ Len(Ahead(f)) = IF file[f].position <= Len(TextOf(f))
                              THEN Len(TextOf(f)) - file[f].position ELSE 0
           /\ \A i \in 1..Len(TextOf(f)) - file[f].position :
                  Ahead(f)[i] = TextOf(f)[file[f].position + i]
    <1> DEFINE t == TextOf(f)
               p == file[f].position
    <1>1. t \in Texts /\ p \in Nat /\ Len(t) \in Nat
        BY OpenIsRecord DEF HostInv, Open, Records, Texts
    <1> HIDE DEF t, p
    <1>2. /\ SubSeq(t, p + 1, Len(t)) \in Texts
          /\ Len(SubSeq(t, p + 1, Len(t))) = IF p + 1 <= Len(t) THEN Len(t) - (p + 1) + 1 ELSE 0
          /\ \A i \in 1..Len(t) - (p + 1) + 1 : SubSeq(t, p + 1, Len(t))[i] = t[(p + 1) + i - 1]
        BY <1>1, Slice DEF Texts
    <1>3. t \in PlainTexts => SubSeq(t, p + 1, Len(t)) \in PlainTexts
        BY <1>1, Slice DEF PlainTexts
    <1>4. Ahead(f) = SubSeq(t, p + 1, Len(t))
        BY DEF Ahead, t, p
    <1>5. Len(Ahead(f)) = IF p <= Len(t) THEN Len(t) - p ELSE 0
        BY <1>1, <1>2, <1>4
    <1>6. \A i \in 1..Len(t) - p : Ahead(f)[i] = t[p + i]
        BY <1>1, <1>2, <1>4
    <1> QED
        BY <1>2, <1>3, <1>4, <1>5, <1>6 DEF t, p

\* fgets takes characters from the beginning, and stops for want of room, at a
\* newline or at the end.
LEMMA GotIsPrefix ==
    ASSUME NEW S, NEW ahead \in Seq(S), NEW length \in Nat
    PROVE  /\ Got(ahead, length) \in Seq(S)
           /\ Len(Got(ahead, length)) <= Len(ahead)
           /\ \A i \in 1..Len(Got(ahead, length)) : Got(ahead, length)[i] = ahead[i]
           /\ length >= 1 => Len(Got(ahead, length)) <= length - 1
           /\ \/ Len(Got(ahead, length)) = Len(ahead)
              \/ Len(Got(ahead, length)) >= length - 1
              \/ Got(ahead, length) # << >> /\ Last(Got(ahead, length)) = "\n"
    <1> DEFINE n     == Min({Len(ahead), length - 1})
               most  == SubSeq(ahead, 1, n)
               stops == {i \in DOMAIN most : most[i] = "\n"}
               got   == Got(ahead, length)
    <1>1. n = (IF Len(ahead) <= length - 1 THEN Len(ahead) ELSE length - 1) /\ Len(ahead) \in Nat
        BY MinOfTwo
    <1>2. n \in Int /\ n <= Len(ahead) /\ n <= length - 1 /\ (n = Len(ahead) \/ n = length - 1)
        BY <1>1
    <1> HIDE DEF n
    <1>3. /\ most \in Seq(S) /\ Len(most) = (IF 1 <= n THEN n - 1 + 1 ELSE 0)
          /\ \A i \in 1..n - 1 + 1 : most[i] = ahead[1 + i - 1]
        BY <1>2, Slice
    <1>4. /\ Len(most) \in Nat /\ Len(most) <= Len(ahead) /\ (length >= 1 => Len(most) <= length - 1)
          /\ (Len(most) = Len(ahead) \/ Len(most) >= length - 1)
          /\ \A i \in 1..Len(most) : most[i] = ahead[i]
        BY <1>1, <1>2, <1>3
    <1>5. got = IF stops = {} THEN most ELSE SubSeq(most, 1, Min(stops))
        BY DEF Got, n
    <1> HIDE DEF most, got
    <1>6. CASE stops = {}
        BY <1>3, <1>4, <1>5, <1>6 DEF got
    <1>7. CASE stops # {}
        <2> DEFINE m == Min(stops)
        <2>1. stops \in SUBSET Nat
            BY <1>3
        <2>2. m \in stops
            <3> HIDE DEF stops
            <3> QED
                BY <1>7, <2>1, MinIn
        <2>3. m \in 1..Len(most) /\ most[m] = "\n"
            BY <2>2, <1>3
        <2>4. got = SubSeq(most, 1, m)
            BY <1>5, <1>7
        <2> HIDE DEF stops, m
        <2>5. m \in Nat /\ m <= Len(most) /\ m >= 1
            BY <2>3, <1>4
        <2>6. got \in Seq(S) /\ Len(got) = m /\ \A i \in 1..m : got[i] = most[i]
            BY <1>3, <2>4, <2>5, Prefix
        <2>7. got # << >> /\ Last(got) = "\n"
            <3>1. Len(got) # 0
                BY <2>5, <2>6
            <3> QED
                BY <2>3, <2>5, <2>6, <3>1 DEF Last
        <2> QED
            BY <1>4, <2>3, <2>5, <2>6, <2>7 DEF got
    <1> QED
        BY <1>6, <1>7

\* What is shown and kept of a piece is made of its characters.
LEMMA PieceTyped ==
    ASSUME NEW S, NEW text \in Seq(S)
    PROVE  Shown(text) \in Seq(S) /\ Stripped(text) \in Seq(S)
    <1>1. Shown(text) \in Seq(S)
        <2> DEFINE nuls == {i \in DOMAIN text : text[i] = "nul"}
                   m == Min(nuls)
        <2>1. Shown(text) = IF nuls = {} THEN text ELSE SubSeq(text, 1, m - 1)
            BY DEF Shown
        <2>2. nuls \in SUBSET (1..Len(text)) /\ nuls \in SUBSET Nat
            OBVIOUS
        <2> HIDE DEF nuls
        <2>3. nuls # {} => m \in 1..Len(text)
            BY <2>2, MinIn
        <2> HIDE DEF m
        <2>4. nuls # {} => m - 1 \in Nat /\ m - 1 <= Len(text)
            BY <2>3
        <2> QED
            BY <2>1, <2>4, Prefix
    <1>2. Stripped(text) \in Seq(S)
        BY FrontIsPrefix DEF Stripped
    <1> QED
        BY <1>1, <1>2

\* READ-FILE, READ-LINE and INCLUDE-FILE leave the host alone, and what they
\* read of a file lies ahead.
Moves(f) ==
    \/ file' = file
    \/ \E n \in 0..Len(Ahead(f)), eof \in BOOLEAN :
          Readable(f) /\ file' = Advanced(f, n, eof) /\ (eof => n = Len(Ahead(f)))

\* A file whose position moves is updated with its text as it is.
LEMMA MoveUpdates ==
    ASSUME HostInv, NEW f \in Open, Moves(f), UNCHANGED <<directory, texts, said>>
    PROVE  \E r : Updates(f, r, TextOf(f), said[f].text)
    <1>1. /\ file[f] \in Records /\ TextOf(f) \in Texts /\ f \in Files /\ file[f].inode \in Inodes
          /\ texts[file[f].inode] = TextOf(f) /\ RecordSound(file[f])
        BY OpenIsRecord DEF HostInv, Open, PendingSound
    <1>2. /\ texts' = [texts EXCEPT ![file[f].inode] = TextOf(f)]
          /\ said' = [said EXCEPT ![f].text = said[f].text]
          /\ said[f].text \in Texts /\ directory' = directory
        BY <1>1 DEF HostInv, Typed
    <1>3. CASE file' = file
        <2>1. file' = [file EXCEPT ![f] = file[f]]
            BY <1>3, <1>1 DEF HostInv, Typed
        <2> QED
            BY <1>1, <1>2, <2>1 DEF Updates, SameFile
    <1>4. ASSUME NEW n \in 0..Len(Ahead(f)), NEW eof \in BOOLEAN,
                 Readable(f), file' = Advanced(f, n, eof)
          PROVE  \E r : Updates(f, r, TextOf(f), said[f].text)
        <2> DEFINE q == file[f]
                   r == [q EXCEPT !.position = @ + n, !.eof = eof,
                                  !.turn = IF eof THEN "either" ELSE "reads"]
        <2>1. Len(Ahead(f)) \in Nat
            BY AheadTyped DEF Texts
        <2>2. file' = [file EXCEPT ![f] = r]
            BY <1>1, <1>4 DEF Advanced, HostInv, Typed
        <2>3. /\ r \in Records /\ r.position = q.position + n /\ r.pending = q.pending
              /\ SameFile(r, q) /\ q.position \in Nat /\ Len(q.pending) \in Nat
            <3>1. q \in Records
                BY <1>1
            <3> HIDE DEF q
            <3>2. q.position + n \in Nat /\ q.position \in Nat
                BY <3>1, <2>1 DEF Records
            <3>3. (IF eof THEN "either" ELSE "reads") \in {"either", "reads", "writes"}
                OBVIOUS
            <3>4. r \in Records /\ r.position = q.position + n /\ r.pending = q.pending
                BY <3>1, <3>2, <3>3 DEF Records
            <3>5. SameFile(r, q)
                BY <3>1 DEF Records, SameFile
            <3> QED
                BY <3>1, <3>2, <3>4, <3>5 DEF Records
        <2>4. q.turn # "writes" /\ q.pending = << >>
            BY <1>1, <1>4 DEF Readable, RecordSound
        <2> HIDE DEF r, q
        <2>5. RecordSound(r)
            BY <1>1, <2>3, <2>4 DEF RecordSound, q
        <2> QED
            BY <1>1, <1>2, <2>2, <2>3, <2>5 DEF Updates, q
    <1> QED
        BY <1>3, <1>4 DEF Moves

\* Every word but READ-LINE makes an end of the lines of its file.
LEMMA InterruptedLines ==
    ASSUME HostInv, NEW f, Interrupted(f) \/ lines' = lines
    PROVE  LinesOf(f) /\ (lines'.file # None => lines' = lines)
    <1>1. NoLines \in LineRecords /\ NoLines.file = None
        BY DEF NoLines, LineRecords, Texts
    <1> QED
        BY <1>1 DEF Interrupted, LinesOf, HostInv, Typed

\* READ-FILE moves the position and leaves the text alone.
LEMMA ReadFileMoves ==
    ASSUME HostInv, NEW f \in Open, NEW length \in Nat, ReadFile(f, length)
    PROVE  Moves(f) /\ UNCHANGED <<directory, texts, said>> /\ Interrupted(f)
    <1> DEFINE n == Min({length, Len(Ahead(f))})
    <1>1. Len(Ahead(f)) \in Nat
        BY AheadTyped DEF Texts
    <1> DEFINE eof == length > Len(Ahead(f))
    <1>2. n \in 0..Len(Ahead(f)) /\ eof \in BOOLEAN /\ (eof => n = Len(Ahead(f)))
        BY <1>1, MinOfTwo
    <1>3. /\ Readable(f) /\ file' = IF file[f].reads THEN Advanced(f, n, eof) ELSE file
          /\ UNCHANGED <<directory, texts, said>> /\ Interrupted(f)
        BY DEF ReadFile
    <1> HIDE DEF n, eof
    <1> QED
        BY <1>2, <1>3 DEF Moves

\* INCLUDE-FILE moves the position and leaves the text alone.
LEMMA IncludeFileMoves ==
    ASSUME HostInv, NEW f \in Open, NEW caught, IncludeFile(f, caught)
    PROVE  Moves(f) /\ UNCHANGED <<directory, texts, said>> /\ Interrupted(f)
    <1> DEFINE size == FileSize(f) - file[f].position
    <1>1. file[f].position \in Nat /\ FileSize(f) = Len(TextOf(f)) /\ Len(TextOf(f)) \in Nat
        BY OpenIsRecord DEF HostInv, Open, Records, Texts, FileSize
    <1>2. size > 0 => size = Len(Ahead(f)) /\ size \in 0..Len(Ahead(f))
        BY <1>1, AheadTyped
    <1> QED
        BY <1>2 DEF IncludeFile, Moves

\* READ-LINE: its piece is a text, and its end of file is one.
LEMMA ReadLineMoves ==
    ASSUME HostInv, NEW f \in Open, NEW length \in Nat, ReadLine(f, length)
    PROVE  Moves(f) /\ UNCHANGED <<directory, texts, said>> /\ LinesOf(f)
    <1> DEFINE got   == Got(Ahead(f), length)
               shown == Shown(got)
               piece == Stripped(shown)
               since == IF lines.file = f THEN lines ELSE [NoLines EXCEPT !.file = f, !.from = file[f].position]
               short == Len(piece) < length - 1
               atEnd == got = Ahead(f) /\ Len(got) < length - 1 /\ (got = << >> \/ Last(got) # "\n")
               added == IF short /\ shown # << >> THEN <<"\n">> ELSE << >>
               glued == since.glued \o piece \o added
    <1>1. /\ UNCHANGED <<directory, texts, said>> /\ Readable(f)
          /\ IF file[f].eof
             THEN lines' = [since EXCEPT !.flag = FALSE] /\ UNCHANGED file
             ELSE IF ~file[f].reads THEN UNCHANGED <<file, lines>>
             ELSE /\ file' = Advanced(f, Len(got), atEnd)
                  /\ lines' = [since EXCEPT !.flag = shown # << >>, !.glued = glued,
                                            !.ends = @ \union {Len(glued)}]
        BY DEF ReadLine
    <1>2. /\ Ahead(f) \in Texts /\ Len(Ahead(f)) \in Nat
          /\ f \in Files /\ file[f].position \in Nat /\ lines \in LineRecords
        BY AheadTyped, OpenIsRecord DEF HostInv, Typed, Open, Records, Texts
    <1>3. got \in Texts /\ Len(got) <= Len(Ahead(f)) /\ Len(got) \in Nat
        BY <1>2, GotIsPrefix DEF Texts
    <1> HIDE DEF got
    <1>4. shown \in Texts /\ piece \in Texts
        BY <1>3, PieceTyped DEF Texts
    <1> HIDE DEF shown, piece
    <1>5. added \in Texts
        <2>1. <<"\n">> \in Texts /\ << >> \in Texts
            BY TextsAssumption DEF Texts
        <2> QED
            BY <2>1
    <1> HIDE DEF added
    <1>6. since \in LineRecords /\ since.file = f
        <2>1. NoLines \in LineRecords
            BY DEF NoLines, LineRecords, Texts
        <2>2. [NoLines EXCEPT !.file = f, !.from = file[f].position] \in LineRecords
            BY <1>2, <2>1 DEF LineRecords
        <2>3. [NoLines EXCEPT !.file = f, !.from = file[f].position].file = f
            BY <1>2, <2>1 DEF LineRecords
        <2> QED
            BY <1>2, <2>2, <2>3
    <1> HIDE DEF since
    <1>7. Len(got) \in 0..Len(Ahead(f)) /\ atEnd \in BOOLEAN /\ (atEnd => Len(got) = Len(Ahead(f)))
        BY <1>2, <1>3
    <1> HIDE DEF atEnd
    <1>8. Moves(f)
        BY <1>1, <1>7 DEF Moves
    <1>9. glued \in Texts /\ Len(glued) \in Nat
        BY <1>4, <1>5, <1>6 DEF LineRecords, Texts
    <1> HIDE DEF glued
    <1>10. LinesOf(f)
        <2>1. [since EXCEPT !.flag = FALSE] \in LineRecords /\ [since EXCEPT !.flag = FALSE].file = f
            BY <1>6 DEF LineRecords
        <2> DEFINE l == [since EXCEPT !.flag = shown # << >>, !.glued = glued, !.ends = @ \union {Len(glued)}]
        <2>2. l \in LineRecords /\ l.file = f
            BY <1>6, <1>9 DEF LineRecords
        <2>3. lines' = [since EXCEPT !.flag = FALSE] \/ lines' = lines \/ lines' = l
            BY <1>1
        <2> HIDE DEF l
        <2> QED
            BY <1>2, <2>1, <2>2, <2>3 DEF LinesOf
    <1> QED
        BY <1>1, <1>8, <1>10

\* What is known of an open file.
LEMMA OpenFacts ==
    ASSUME HostInv, NEW f \in Open
    PROVE  /\ f \in Files /\ file[f] \in Records /\ RecordSound(file[f]) /\ file[f].inode \in Inodes
           /\ file[f].position \in Nat /\ file[f].pending \in PlainTexts
           /\ TextOf(f) \in Texts /\ texts[file[f].inode] = TextOf(f)
           /\ said[f].text \in Texts /\ said[f].atEnd \in BOOLEAN
           /\ file' = file => file' = [file EXCEPT ![f] = file[f]]
           /\ texts' = texts => texts' = [texts EXCEPT ![file[f].inode] = TextOf(f)]
           /\ said' = said => said' = [said EXCEPT ![f].text = said[f].text]
    <1>1. f \in Files /\ file[f] \in Records /\ RecordSound(file[f]) /\ file[f].inode \in Inodes
          /\ TextOf(f) \in Texts /\ texts[file[f].inode] = TextOf(f)
        BY OpenIsRecord DEF HostInv, Open, PendingSound
    <1>2. file[f].position \in Nat /\ file[f].pending \in PlainTexts
        BY <1>1 DEF Records, PlainTexts
    <1>3. said[f].text \in Texts /\ said[f].atEnd \in BOOLEAN
        BY <1>1 DEF HostInv, Typed
    <1>4. /\ file' = file => file' = [file EXCEPT ![f] = file[f]]
          /\ texts' = texts => texts' = [texts EXCEPT ![file[f].inode] = TextOf(f)]
          /\ said' = said => said' = [said EXCEPT ![f].text = said[f].text]
        BY <1>1 DEF HostInv, Typed
    <1> QED
        BY <1>1, <1>2, <1>3, <1>4

\* Where fwrite writes, and what it leaves.
PlaceOf(f) == IF file[f].appends THEN Len(Flushed(f)) ELSE file[f].position
WrittenRecord(f, text) ==
    [file[f] EXCEPT !.pending = @ \o text, !.position = PlaceOf(f) + Len(text),
                    !.eof = FALSE, !.turn = "writes"]
WrittenText(f, text) ==
    Over(said[f].text, IF said[f].atEnd THEN Len(said[f].text) ELSE file[f].position, text)

\* WRITE-FILE and WRITE-LINE, with what fwrite leaves in the record.
LEMMA WroteUpdates ==
    ASSUME HostInv, NEW f \in Open, NEW text \in PlainTexts, Wrote(f, text)
    PROVE  /\ file[f].writes => Updates(f, WrittenRecord(f, text), TextOf(f), WrittenText(f, text))
           /\ ~file[f].writes => Updates(f, [file[f] EXCEPT !.eof = FALSE], TextOf(f), said[f].text)
           /\ Interrupted(f)
           /\ Keeps("no_nul") => PlaceOf(f) <= Len(Flushed(f))
    <1> DEFINE q == file[f]
               r == WrittenRecord(f, text)
               x == WrittenText(f, text)
    <1>1. /\ f \in Files /\ q \in Records /\ RecordSound(q) /\ q.inode \in Inodes
          /\ q.position \in Nat /\ q.pending \in PlainTexts /\ TextOf(f) \in Texts
          /\ said[f].text \in Texts /\ said[f].atEnd \in BOOLEAN
          /\ text \in Texts /\ Len(text) \in Nat /\ Len(said[f].text) \in Nat
        BY OpenFacts, PlainIsText DEF PlainTexts, Texts
    <1>2. PlaceOf(f) \in Nat /\ (~q.appends => PlaceOf(f) = q.position)
        BY <1>1, FlushedTyped DEF PlaceOf, Texts
    <1>3. x \in Texts
        BY <1>1, OverElements DEF WrittenText
    <1>4. /\ Keeps("no_nul") => PlaceOf(f) <= Len(Flushed(f))
          /\ IF q.writes
             THEN /\ file' = [file EXCEPT ![f].pending = @ \o text,
                                          ![f].position = PlaceOf(f) + Len(text),
                                          ![f].eof = FALSE, ![f].turn = "writes"]
                  /\ said' = [said EXCEPT ![f].text =
                                  Over(@, IF said[f].atEnd THEN Len(@) ELSE q.position, text)]
             ELSE file' = [file EXCEPT ![f].eof = FALSE] /\ said' = said
          /\ UNCHANGED <<directory, texts>> /\ Interrupted(f)
        BY DEF Wrote, Accepts, PlaceOf
    <1>5. texts' = [texts EXCEPT ![q.inode] = TextOf(f)] /\ directory' = directory
        BY <1>4, OpenFacts
    <1>6. CASE q.writes
        <2>1. file' = [file EXCEPT ![f] = r]
            BY <1>1, <1>4, <1>6 DEF WrittenRecord, HostInv, Typed
        <2>2. said' = [said EXCEPT ![f].text = x]
            BY <1>1, <1>4, <1>6 DEF WrittenText, HostInv, Typed
        <2>3. q.pending \o text \in PlainTexts /\ Len(q.pending \o text) = Len(q.pending) + Len(text)
              /\ PlaceOf(f) + Len(text) \in Nat /\ Len(q.pending) \in Nat
            BY <1>1, <1>2 DEF PlainTexts
        <2>4. /\ r \in Records /\ SameFile(r, q) /\ r.turn = "writes" /\ r.writes = q.writes
              /\ r.pending = q.pending \o text /\ r.position = PlaceOf(f) + Len(text) /\ r.appends = q.appends
            BY <1>1, <2>3 DEF WrittenRecord, Records, SameFile, PlainTexts
        <2> HIDE DEF r, x, q
        <2>5. RecordSound(r)
            BY <1>1, <1>2, <1>6, <2>3, <2>4 DEF RecordSound
        <2>6. Updates(f, r, TextOf(f), x)
            BY <1>1, <1>3, <1>5, <2>1, <2>2, <2>4, <2>5 DEF Updates, q
        <2> QED
            BY <1>4, <1>6, <2>6 DEF r, x, q
    <1>7. CASE ~q.writes
        <2> DEFINE e == [q EXCEPT !.eof = FALSE]
        <2>1. file' = [file EXCEPT ![f] = e] /\ said' = [said EXCEPT ![f].text = said[f].text]
            BY <1>1, <1>4, <1>7, OpenFacts DEF HostInv, Typed
        <2>2. e \in Records /\ SameFile(e, q) /\ RecordSound(e)
            BY <1>1 DEF Records, SameFile, RecordSound
        <2> HIDE DEF e, q
        <2>3. Updates(f, e, TextOf(f), said[f].text)
            BY <1>1, <1>5, <2>1, <2>2 DEF Updates, q
        <2> QED
            BY <1>4, <1>7, <2>3 DEF e, q
    <1> QED
        BY <1>6, <1>7

\* The record of a file whose buffer is out, as record says otherwise.
Emptied(record) == [record EXCEPT !.pending = << >>]

\* A buffer that goes out.
LEMMA GoesOutUpdates ==
    ASSUME HostInv, NEW f \in Open, NEW record \in Records, SameFile(record, file[f]), GoesOut(f, record)
    PROVE  Updates(f, Emptied(record), Flushed(f), said[f].text)
    <1> DEFINE r == Emptied(record)
    <1>1. << >> \in Seq(Chars) /\ Len(<< >>) = 0
        OBVIOUS
    <1>2. /\ r \in Records /\ r.pending = << >> /\ r.position \in Nat
          /\ SameFile(r, record)
        BY <1>1 DEF Emptied, Records, SameFile
    <1>3. file' = [file EXCEPT ![f] = r] /\ texts' = [texts EXCEPT ![file[f].inode] = Flushed(f)]
          /\ directory' = directory /\ said' = [said EXCEPT ![f].text = said[f].text]
          /\ said[f].text \in Texts
        BY OpenFacts DEF GoesOut, Emptied
    <1>4. Flushed(f) \in Texts
        BY FlushedTyped
    <1> HIDE DEF r
    <1>5. RecordSound(r) /\ SameFile(r, file[f])
        BY <1>1, <1>2 DEF RecordSound, SameFile
    <1> QED
        BY <1>2, <1>3, <1>4, <1>5 DEF Updates, r

\* The words that write a buffer out: it goes as far as its record says.
LEMMA BufferGoesOut ==
    ASSUME HostInv, NEW f \in Open, NEW ud \in Nat, Drain(f) \/ FlushFile(f) \/ RepositionFile(f, ud)
    PROVE  \E record \in Records :
              /\ SameFile(record, file[f]) /\ GoesOut(f, record)
              /\ \/ /\ record.position = file[f].position /\ record.eof = file[f].eof /\ lines' = lines
                 \/ /\ ~record.eof /\ Interrupted(f)
                    /\ Keeps("no_nul") => record.position <= Len(Flushed(f))
    <1> DEFINE q == file[f]
    <1>1. q \in Records
        BY OpenFacts
    <1>2. CASE Drain(f)
        BY <1>1, <1>2 DEF Drain, SameFile
    <1>3. CASE FlushFile(f)
        <2> DEFINE r == [q EXCEPT !.turn = "either"]
        <2>1. r \in Records /\ SameFile(r, q) /\ r.position = q.position /\ r.eof = q.eof
            BY <1>1 DEF Records, SameFile
        <2>2. GoesOut(f, r) /\ lines' = lines
            BY <1>3 DEF FlushFile
        <2> HIDE DEF r
        <2> QED
            BY <2>1, <2>2
    <1>4. CASE RepositionFile(f, ud)
        <2> DEFINE r == [q EXCEPT !.position = ud, !.eof = FALSE, !.turn = "either"]
        <2>1. r \in Records /\ SameFile(r, q) /\ r.position = ud /\ r.eof = FALSE
            BY <1>1 DEF Records, SameFile
        <2>2. GoesOut(f, r) /\ Interrupted(f) /\ (Keeps("no_nul") => ud <= Len(Flushed(f)))
            BY <1>4 DEF RepositionFile
        <2> HIDE DEF r
        <2> QED
            BY <2>1, <2>2
    <1> QED
        BY <1>2, <1>3, <1>4

\* RESIZE-FILE: without a buffer it cuts what the file says.
LEMMA ResizeUpdates ==
    ASSUME HostInv, NEW f \in Open, NEW ud \in Nat, ResizeFile(f, ud)
    PROVE  /\ file[f].writes => Updates(f, file[f], Cut(TextOf(f), ud), Cut(said[f].text, ud))
           /\ ~file[f].writes => Updates(f, file[f], TextOf(f), said[f].text)
           /\ Interrupted(f)
           /\ Keeps("flushed") => file[f].pending = << >>
           /\ Keeps("no_nul") => ud <= Len(TextOf(f))
    <1>1. /\ file[f] \in Records /\ RecordSound(file[f]) /\ SameFile(file[f], file[f])
          /\ TextOf(f) \in Texts /\ texts[file[f].inode] = TextOf(f) /\ said[f].text \in Texts
          /\ file' = [file EXCEPT ![f] = file[f]] /\ directory' = directory
        BY OpenFacts DEF ResizeFile, SameFile
    <1>2. Cut(TextOf(f), ud) \in Texts /\ Cut(said[f].text, ud) \in Texts
        BY <1>1, CutIsText
    <1>3. CASE file[f].writes
        <2>1. texts' = [texts EXCEPT ![file[f].inode] = Cut(TextOf(f), ud)]
              /\ said' = [said EXCEPT ![f].text = Cut(said[f].text, ud)]
            BY <1>1, <1>3, OpenFacts DEF ResizeFile, HostInv, Typed
        <2> QED
            BY <1>1, <1>2, <1>3, <2>1 DEF Updates, ResizeFile, FileSize
    <1>4. CASE ~file[f].writes
        <2>1. texts' = [texts EXCEPT ![file[f].inode] = TextOf(f)]
              /\ said' = [said EXCEPT ![f].text = said[f].text]
            BY <1>4, OpenFacts DEF ResizeFile
        <2> QED
            BY <1>1, <1>4, <2>1 DEF Updates, ResizeFile, FileSize
    <1> QED
        BY <1>3, <1>4

-----------------------------------------------------------------------------
(* Names, opening and closing *)

\* OPEN-FILE and CREATE-FILE open f with the text i of the host, as r.
OpensAs(f, i, r, name) ==
    /\ f \in Files /\ file[f] = None /\ i \in Inodes
    /\ r \in Records /\ r.inode = i /\ r.pending = << >> /\ r.position = 0 /\ ~r.eof
    /\ Keeps("written_alone") => \A g \in Users(i) : ~r.writes /\ ~file[g].writes
    /\ file' = [file EXCEPT ![f] = r]
    /\ \/ texts' = [texts EXCEPT ![i] = << >>] /\ r.writes
       \/ texts' = texts /\ texts[i] # None
    /\ \E atEnd \in BOOLEAN :
          /\ said' = [said EXCEPT ![f] = [text |-> texts'[i], atEnd |-> atEnd]]
          /\ r.writes => atEnd = r.appends
    /\ directory' = [directory EXCEPT ![name] = i]

\* What ficlFileOpen makes of a mode.
LEMMA OpenedFacts ==
    ASSUME NEW word, NEW fam, NEW i \in Inodes
    PROVE  /\ Opened(word, fam, i) \in Records /\ Opened(word, fam, i).inode = i
           /\ Opened(word, fam, i).pending = << >>
           /\ Opened(word, fam, i).position = 0 /\ ~Opened(word, fam, i).eof
           /\ Opened(word, fam, i).writes <=> "write" \in fam
           /\ Opened(word, fam, i).appends <=> word = "open-file" /\ "write" \in fam
    <1> DEFINE o == Opened(word, fam, i)
    <1>1. o = [inode |-> i, reads |-> "read" \in fam, writes |-> "write" \in fam,
               appends |-> Appends(word, fam), position |-> 0, eof |-> FALSE,
               turn |-> "either", pending |-> << >>]
        BY DEF Opened
    <1>2. Appends(word, fam) <=> word = "open-file" /\ "write" \in fam
        BY DEF Appends
    <1>3. << >> \in Seq(Chars) /\ Appends(word, fam) \in BOOLEAN
        BY DEF Appends
    <1> HIDE DEF o
    <1>4. o \in Records
        BY <1>1, <1>3 DEF Records
    <1>5. /\ o.inode = i /\ o.pending = << >> /\ o.position = 0 /\ ~o.eof
          /\ o.appends = Appends(word, fam)
        BY <1>1
    <1>6. o.writes <=> "write" \in fam
        BY <1>1
    <1> QED
        BY <1>2, <1>4, <1>5, <1>6 DEF o

\* OPEN-FILE and CREATE-FILE open a file, or change nothing.
LEMMA OpenFileOpens ==
    ASSUME HostInv, NEW word \in {"open-file", "create-file"}, NEW name \in Names, NEW fam \in Fams,
           OpenFile(word, name, fam)
    PROVE  /\ lines' = lines
           /\ \/ UNCHANGED <<directory, texts, file, said>>
              \/ \E f \in Files, i \in Inodes, r \in Records : OpensAs(f, i, r, name)
    <1> DEFINE creates == "write" \in fam /\ directory[name] = None
               empties == word = "create-file" /\ "write" \in fam
               opens   == fam # {} /\ "append" \notin fam /\ (creates \/ directory[name] # None)
    <1>1. CASE opens
        <2>1. PICK f \in Free, i \in IF creates THEN Unused ELSE {directory[name]} :
                  /\ Keeps("written_alone") => \A g \in Users(i) : "write" \notin fam /\ ~file[g].writes
                  /\ file' = [file EXCEPT ![f] = Opened(word, fam, i)]
                  /\ texts' = IF creates \/ empties THEN [texts EXCEPT ![i] = << >>] ELSE texts
                  /\ said' = [said EXCEPT ![f] = [text |-> texts'[i], atEnd |-> word = "open-file"]]
                  /\ directory' = [directory EXCEPT ![name] = i]
            BY <1>1 DEF OpenFile
        <2>2. f \in Files /\ file[f] = None
            BY <2>1 DEF Free, Open
        <2>3. i \in Inodes /\ (~creates => i = directory[name] /\ texts[i] # None)
            BY <2>1, <1>1 DEF Unused, HostInv, Typed, Lives
        <2> DEFINE r == Opened(word, fam, i)
                   atEnd == word = "open-file"
        <2>4. /\ r \in Records /\ r.inode = i /\ r.pending = << >> /\ r.position = 0 /\ ~r.eof
              /\ r.writes <=> "write" \in fam
              /\ r.appends <=> atEnd /\ "write" \in fam
            BY <2>3, OpenedFacts
        <2>5. /\ file' = [file EXCEPT ![f] = r] /\ directory' = [directory EXCEPT ![name] = i]
              /\ said' = [said EXCEPT ![f] = [text |-> texts'[i], atEnd |-> atEnd]]
            BY <2>1
        <2> HIDE DEF r
        <2>6. Keeps("written_alone") => \A g \in Users(i) : ~r.writes /\ ~file[g].writes
            BY <2>1, <2>4
        <2>7. \/ texts' = [texts EXCEPT ![i] = << >>] /\ r.writes
              \/ texts' = texts /\ texts[i] # None
            BY <2>1, <2>3, <2>4
        <2>8. r.writes => atEnd = r.appends
            <3>1. r.appends \in BOOLEAN /\ atEnd \in BOOLEAN
                BY <2>4 DEF Records
            <3> HIDE DEF atEnd
            <3> QED
                BY <2>4, <3>1
        <2>9. OpensAs(f, i, r, name)
            <3>1. atEnd \in BOOLEAN
                OBVIOUS
            <3> HIDE DEF atEnd
            <3> QED
                BY <2>2, <2>3, <2>4, <2>5, <2>6, <2>7, <2>8, <3>1 DEF OpensAs
        <2> QED
            BY <2>2, <2>3, <2>4, <2>9 DEF OpenFile
    <1>2. CASE ~opens
        BY <1>2 DEF OpenFile
    <1> QED
        BY <1>1, <1>2

\* The state after a file was opened: by the rule for files that are written, no
\* other has the text then.
LEMMA AfterOpening ==
    ASSUME HostInv, NEW f, NEW i, NEW r, NEW name \in Names, OpensAs(f, i, r, name)
    PROVE  /\ Open' = Open \cup {f} /\ f \notin Open /\ i \in Inodes /\ f \in Files
           /\ file'[f] = r /\ texts'[i] \in Texts /\ TextOf(f)' = texts'[i]
           /\ said'[f].text = texts'[i] /\ (r.writes => said'[f].atEnd = r.appends)
           /\ \A g \in Open : /\ g \in Files /\ file'[g] = file[g] /\ said'[g] = said[g]
                              /\ TextOf(g)' = IF file[g].inode = i THEN texts'[i] ELSE TextOf(g)
                              /\ Keeps("written_alone") =>
                                    /\ TextOf(g)' = TextOf(g)
                                    /\ file[g].inode = i => ~r.writes /\ ~file[g].writes
           /\ \A j \in Inodes \ {i} : texts'[j] = texts[j]
           /\ texts'[i] = texts[i] \/ texts'[i] = << >>
           /\ texts' \in [Inodes -> Texts \cup {None}]
           /\ file' \in [Files -> Records \cup {None}]
           /\ said' \in [Files -> [text : Texts, atEnd : BOOLEAN]]
           /\ directory' = [directory EXCEPT ![name] = i]
    <1>1. /\ f \in Files /\ file[f] = None /\ i \in Inodes /\ << >> \in Texts
          /\ file \in [Files -> Records \cup {None}] /\ texts \in [Inodes -> Texts \cup {None}]
          /\ said \in [Files -> [text : Texts, atEnd : BOOLEAN]]
        BY DEF OpensAs, HostInv, Typed, Texts
    <1>2. r \in Records /\ r.inode = i
        BY DEF OpensAs
    <1>3. /\ file' \in [Files -> Records \cup {None}] /\ file'[f] = r
          /\ \A g \in Files \ {f} : file'[g] = file[g]
        BY <1>1, <1>2 DEF OpensAs
    <1>4. /\ texts' \in [Inodes -> Texts \cup {None}] /\ texts'[i] \in Texts
          /\ \A j \in Inodes \ {i} : texts'[j] = texts[j]
          /\ texts'[i] = texts[i] \/ (texts'[i] = << >> /\ r.writes)
        BY <1>1 DEF OpensAs
    <1>5. /\ said' \in [Files -> [text : Texts, atEnd : BOOLEAN]]
          /\ said'[f].text = texts'[i] /\ (r.writes => said'[f].atEnd = r.appends)
          /\ \A g \in Files \ {f} : said'[g] = said[g]
        <2>1. PICK atEnd \in BOOLEAN :
                 /\ said' = [said EXCEPT ![f] = [text |-> texts'[i], atEnd |-> atEnd]]
                 /\ r.writes => atEnd = r.appends
            BY DEF OpensAs
        <2> QED
            BY <1>1, <1>4, <2>1
    <1>6. Open' = Open \cup {f} /\ f \notin Open
        BY <1>1, <1>2, <1>3, NoneAssumption DEF Open
    <1>7. ASSUME NEW g \in Open
          PROVE  /\ g \in Files /\ file'[g] = file[g] /\ said'[g] = said[g]
                 /\ TextOf(g)' = IF file[g].inode = i THEN texts'[i] ELSE TextOf(g)
                 /\ Keeps("written_alone") =>
                       /\ TextOf(g)' = TextOf(g)
                       /\ file[g].inode = i => ~r.writes /\ ~file[g].writes
        <2>1. g \in Files \ {f} /\ file[g].inode \in Inodes
            BY <1>6, OpenFacts
        <2>2. Keeps("written_alone") /\ file[g].inode = i => ~r.writes /\ ~file[g].writes
            BY DEF OpensAs, Users
        <2>3. Keeps("written_alone") => texts'[file[g].inode] = texts[file[g].inode]
            BY <1>4, <2>1, <2>2
        <2>4. TextOf(g)' = texts'[file[g].inode] /\ file'[g] = file[g] /\ said'[g] = said[g]
            BY <1>3, <1>5, <2>1 DEF TextOf
        <2>5. TextOf(g)' = IF file[g].inode = i THEN texts'[i] ELSE TextOf(g)
            BY <1>4, <2>1, <2>4 DEF TextOf
        <2> QED
            BY <2>1, <2>2, <2>3, <2>4, <2>5 DEF TextOf
    <1>8. TextOf(f)' = texts'[i]
        BY <1>2, <1>3 DEF TextOf
    <1>9. directory' = [directory EXCEPT ![name] = i]
        BY DEF OpensAs
    <1> QED
        BY <1>1, <1>3, <1>4, <1>5, <1>6, <1>7, <1>8, <1>9

\* A file is opened with a record of its own.
LEMMA OpeningKeeps ==
    ASSUME HostInv, NEW f, NEW i, NEW r, NEW name \in Names, OpensAs(f, i, r, name), lines' = lines
    PROVE  HostInv'
    <1>1. /\ Open' = Open \cup {f} /\ f \notin Open /\ i \in Inodes
          /\ file'[f] = r /\ texts'[i] \in Texts /\ TextOf(f)' = texts'[i]
          /\ r.writes => said'[f].atEnd = r.appends
          /\ \A g \in Open : /\ file'[g] = file[g] /\ said'[g] = said[g]
                             /\ TextOf(g)' = IF file[g].inode = i THEN texts'[i] ELSE TextOf(g)
                             /\ Keeps("written_alone") =>
                                   (file[g].inode = i => ~r.writes /\ ~file[g].writes)
          /\ \A j \in Inodes \ {i} : texts'[j] = texts[j]
          /\ texts' \in [Inodes -> Texts \cup {None}]
          /\ file' \in [Files -> Records \cup {None}]
          /\ said' \in [Files -> [text : Texts, atEnd : BOOLEAN]]
          /\ directory' = [directory EXCEPT ![name] = i]
        BY AfterOpening
    <1>2. texts'[i] # None
        BY <1>1, NoneAssumption
    <1>3. r.inode = i /\ RecordSound(r)
        <2>1. r \in Records /\ r.inode = i /\ r.pending = << >> /\ Len(<< >>) = 0
            BY DEF OpensAs
        <2> QED
            BY <2>1 DEF RecordSound, Records
    <1>4. directory' \in [Names -> Inodes \cup {None}]
        BY <1>1 DEF HostInv, Typed
    <1>5. Lives'
        <2>1. \A n \in Names : directory'[n] # None => texts'[directory'[n]] # None
            BY <1>1, <1>2 DEF HostInv, Typed, Lives
        <2>2. \A g \in Open' : TextOf(g)' # None
            BY <1>1, <1>2 DEF HostInv, Typed, Lives
        <2> QED
            BY <2>1, <2>2 DEF Lives
    <1>6. Typed'
        BY <1>1, <1>4, <1>5 DEF HostInv, Typed
    <1>7. Exclusive'
        <2> SUFFICES ASSUME Keeps("written_alone") PROVE Exclusive'
            BY DEF Exclusive, Keeps
        <2>1. \A g \in Open : file'[g].inode = i => ~r.writes /\ ~file'[g].writes
            BY <1>1
        <2>2. \A g, h \in Open : g # h /\ file'[g].inode = file'[h].inode =>
                                     ~file'[g].writes /\ ~file'[h].writes
            BY <1>1 DEF HostInv, Exclusive
        <2> QED
            BY <1>1, <1>3, <2>1, <2>2 DEF Exclusive
    <1>8. PendingSound'
        <2>1. \A g \in Open : /\ RecordSound(file'[g])
                              /\ file'[g].writes => said'[g].atEnd = file'[g].appends
            BY <1>1 DEF HostInv, PendingSound
        <2>2. \A g \in Open' : /\ RecordSound(file'[g])
                               /\ file'[g].writes => said'[g].atEnd = file'[g].appends
            BY <1>1, <1>3, <2>1
        <2> QED
            BY <2>2 DEF PendingSound
    <1> QED
        BY <1>6, <1>7, <1>8 DEF HostInv

\* The state after a file was closed: a text that is still in use stays.
LEMMA AfterClosing ==
    ASSUME HostInv, NEW f \in Open, Closed(f)
    PROVE  /\ Open' = Open \ {f}
           /\ \A g \in Open' : file'[g] = file[g] /\ said'[g] = said[g]
           /\ \A g \in Open' : TextOf(g)' = IF file[g].inode = file[f].inode THEN Flushed(f) ELSE TextOf(g)
           /\ \A i \in Inodes : texts'[i] # None =>
                  texts'[i] = IF i = file[f].inode THEN Flushed(f) ELSE texts[i]
           /\ \A n \in Names : directory[n] # None =>
                  texts'[directory[n]] = IF directory[n] = file[f].inode THEN Flushed(f)
                                         ELSE texts[directory[n]]
           /\ texts' \in [Inodes -> Texts \cup {None}]
           /\ file' \in [Files -> Records \cup {None}]
           /\ said' \in [Files -> [text : Texts, atEnd : BOOLEAN]]
           /\ directory' = directory
    <1>1. /\ f \in Files /\ file[f].inode \in Inodes /\ Flushed(f) \in Texts
          /\ directory \in [Names -> Inodes \cup {None}]
          /\ file \in [Files -> Records \cup {None}] /\ texts \in [Inodes -> Texts \cup {None}]
          /\ said \in [Files -> [text : Texts, atEnd : BOOLEAN]]
        BY OpenFacts, FlushedTyped DEF HostInv, Typed
    <1> DEFINE t == [texts EXCEPT ![file[f].inode] = Flushed(f)]
    <1>2. /\ file' = [file EXCEPT ![f] = None] /\ texts' = Swept(t, directory, file')
          /\ said' = [said EXCEPT ![f] = NothingSaid] /\ directory' = directory
        BY DEF Closed
    <1>3. /\ t \in [Inodes -> Texts \cup {None}]
          /\ \A i \in Inodes : t[i] = IF i = file[f].inode THEN Flushed(f) ELSE texts[i]
        BY <1>1
    <1> HIDE DEF t
    <1>4. /\ file' \in [Files -> Records \cup {None}] /\ file'[f] = None
          /\ \A g \in Files \ {f} : file'[g] = file[g]
        BY <1>1, <1>2
    <1>5. Open' = Open \ {f}
        BY <1>4 DEF Open
    <1>6. \A i \in Inodes : texts'[i] = IF i \in Kept(directory, file') THEN t[i] ELSE None
        BY <1>2 DEF Swept
    <1>7. texts' \in [Inodes -> Texts \cup {None}]
        BY <1>2, <1>3 DEF Swept
    <1>8. \A g \in Open' : g \in Files /\ g # f /\ g \in Open /\ file[g].inode \in Inodes /\ file'[g] # None
        BY <1>5, OpenFacts DEF Open
    <1>9. \A g \in Open' : file[g].inode \in Kept(directory, file')
        BY <1>4, <1>8 DEF Kept
    <1>10. \A g \in Open' : TextOf(g)' = t[file[g].inode]
        BY <1>4, <1>6, <1>8, <1>9 DEF TextOf
    <1>11. \A g \in Open' : TextOf(g)' = IF file[g].inode = file[f].inode THEN Flushed(f) ELSE TextOf(g)
        BY <1>3, <1>8, <1>10 DEF TextOf
    <1>12. \A i \in Inodes : texts'[i] # None => texts'[i] = IF i = file[f].inode THEN Flushed(f) ELSE texts[i]
        BY <1>3, <1>6
    <1>13. \A n \in Names : directory[n] # None => directory[n] \in Inodes /\ directory[n] \in Kept(directory, file')
        BY <1>1 DEF Kept
    <1>14. \A n \in Names : directory[n] # None =>
              texts'[directory[n]] = IF directory[n] = file[f].inode THEN Flushed(f) ELSE texts[directory[n]]
        BY <1>3, <1>6, <1>13
    <1>15. NothingSaid \in [text : Texts, atEnd : BOOLEAN]
        BY DEF NothingSaid, Texts
    <1>16. /\ said' \in [Files -> [text : Texts, atEnd : BOOLEAN]]
           /\ \A g \in Files \ {f} : said'[g] = said[g]
        BY <1>1, <1>2, <1>15
    <1> QED
        BY <1>2, <1>4, <1>5, <1>7, <1>8, <1>11, <1>12, <1>14, <1>16

\* A file is closed and flushed.
LEMMA ClosingKeeps ==
    ASSUME HostInv, NEW f \in Open, Closed(f)
    PROVE  HostInv'
    <1>1. /\ Open' = Open \ {f}
          /\ \A g \in Open' : file'[g] = file[g] /\ said'[g] = said[g]
          /\ \A g \in Open' : TextOf(g)' = IF file[g].inode = file[f].inode THEN Flushed(f) ELSE TextOf(g)
          /\ \A n \in Names : directory[n] # None =>
                 texts'[directory[n]] = IF directory[n] = file[f].inode THEN Flushed(f)
                                        ELSE texts[directory[n]]
          /\ texts' \in [Inodes -> Texts \cup {None}]
          /\ file' \in [Files -> Records \cup {None}]
          /\ said' \in [Files -> [text : Texts, atEnd : BOOLEAN]]
          /\ directory' = directory
        BY AfterClosing
    <1>2. Flushed(f) # None
        BY FlushedTyped, NoneAssumption
    <1>3. Lives'
        BY <1>1, <1>2 DEF HostInv, Typed, Lives
    <1>4. lines' \in LineRecords /\ (lines'.file # None => lines'.file \in Open')
        <2>1. Interrupted(f)
            BY DEF Closed
        <2>2. NoLines \in LineRecords /\ NoLines.file = None
            BY DEF NoLines, LineRecords, Texts
        <2> QED
            BY <1>1, <2>1, <2>2 DEF Interrupted, HostInv, Typed
    <1>5. Typed'
        BY <1>1, <1>3, <1>4 DEF HostInv, Typed
    <1>6. Exclusive'
        BY <1>1 DEF HostInv, Exclusive
    <1>7. PendingSound'
        BY <1>1 DEF HostInv, PendingSound
    <1> QED
        BY <1>5, <1>6, <1>7 DEF HostInv

\* DELETE-FILE and RENAME-FILE give names to texts that have one already.
Renames ==
    /\ directory' \in [Names -> Inodes \cup {None}]
    /\ \A n \in Names : directory'[n] # None => \E m \in Names : directory[m] = directory'[n]
    /\ texts' = Swept(texts, directory', file)
    /\ UNCHANGED <<file, said, lines>>

\* DELETE-FILE and RENAME-FILE change the names and no text.
LEMMA NamesRename ==
    ASSUME HostInv, NEW from \in Names, NEW to \in Names, DeleteFile(from) \/ RenameFile(from, to)
    PROVE  Renames
    <1>1. directory \in [Names -> Inodes \cup {None}]
        BY DEF HostInv, Typed
    <1>2. CASE DeleteFile(from)
        BY <1>1, <1>2 DEF DeleteFile, Renames
    <1>3. CASE RenameFile(from, to)
        <2>1. directory' \in [Names -> Inodes \cup {None}]
            BY <1>1, <1>3 DEF RenameFile
        <2>2. \A n \in Names : directory'[n] # None => \E m \in Names : directory[m] = directory'[n]
            BY <1>1, <1>3 DEF RenameFile
        <2> QED
            BY <1>3, <2>1, <2>2 DEF RenameFile, Renames
    <1> QED
        BY <1>2, <1>3

\* The state after a name was given to another text, or to none.
LEMMA AfterRenaming ==
    ASSUME HostInv, Renames
    PROVE  /\ Open' = Open /\ file' = file /\ said' = said /\ lines' = lines
           /\ \A g \in Open : TextOf(g)' = TextOf(g)
           /\ \A i \in Inodes : texts'[i] # None => texts'[i] = texts[i]
           /\ texts' \in [Inodes -> Texts \cup {None}]
           /\ \A n \in Names : directory'[n] # None => texts'[directory'[n]] # None
    <1>1. file' = file /\ said' = said /\ lines' = lines /\ Open' = Open
        BY DEF Renames, Open
    <1>2. texts' \in [Inodes -> Texts \cup {None}]
          /\ \A i \in Inodes : texts'[i] = IF i \in Kept(directory', file) THEN texts[i] ELSE None
        BY DEF Renames, Swept, HostInv, Typed
    <1>3. \A g \in Open : file[g].inode \in Inodes /\ file[g].inode \in Kept(directory', file)
        <2>1. \A g \in Open : g \in Files /\ file[g] # None /\ file[g].inode \in Inodes
            BY OpenFacts DEF Open
        <2> QED
            BY <2>1 DEF Kept
    <1>4. \A g \in Open : TextOf(g)' = TextOf(g)
        BY <1>1, <1>2, <1>3 DEF TextOf
    <1>5. ASSUME NEW n \in Names, directory'[n] # None PROVE texts'[directory'[n]] # None
        <2>1. directory'[n] \in Inodes /\ directory'[n] \in Kept(directory', file)
            BY <1>5 DEF Renames, Kept
        <2>2. PICK m \in Names : directory[m] = directory'[n]
            BY <1>5 DEF Renames
        <2>3. texts[directory'[n]] # None
            BY <1>5, <2>2 DEF HostInv, Typed, Lives
        <2> QED
            BY <1>2, <2>1, <2>3
    <1> QED
        BY <1>1, <1>2, <1>4, <1>5

\* A change of names keeps the files and the texts.
LEMMA RenamingKeeps ==
    ASSUME HostInv, Renames
    PROVE  HostInv'
    <1>1. /\ Open' = Open /\ file' = file /\ said' = said /\ lines' = lines
          /\ \A g \in Open : TextOf(g)' = TextOf(g)
          /\ texts' \in [Inodes -> Texts \cup {None}]
          /\ \A n \in Names : directory'[n] # None => texts'[directory'[n]] # None
        BY AfterRenaming
    <1>2. Lives'
        BY <1>1 DEF HostInv, Typed, Lives
    <1>3. Typed'
        BY <1>1, <1>2 DEF HostInv, Typed, Renames
    <1> QED
        BY <1>1, <1>3 DEF HostInv, Exclusive, PendingSound

-----------------------------------------------------------------------------
(* What a step does to the host *)

\* The steps of Next, as far as files go: each word is one of these.
HostSteps ==
    \/ \E f \in Files, i \in Inodes, r \in Records, name \in Names :
          OpensAs(f, i, r, name) /\ lines' = lines
    \/ \E f \in Open : Closed(f)
    \/ Renames
    \/ \E f \in Open : Moves(f) /\ Interrupted(f) /\ UNCHANGED <<directory, texts, said>>
    \/ \E f \in Open, length \in Nat : ReadLine(f, length)
    \/ \E f \in Open, text \in PlainTexts : Wrote(f, text)
    \/ \E f \in Open, ud \in Nat : Drain(f) \/ FlushFile(f) \/ RepositionFile(f, ud)
    \/ \E f \in Open, ud \in Nat : ResizeFile(f, ud)
    \/ UNCHANGED <<directory, texts, file, said, lines>>

\* The file of an included source is open.
LEMMA SourceIsOpen ==
    ASSUME SourcesSound, NEW i \in DOMAIN sources, sources[i].file # None
    PROVE  sources[i].file \in Open
    BY DEF SourcesSound, Stacked

\* The source that catches a code above zero is one of those being read.
LEMMA CatchesAt ==
    ASSUME SourcesSound, NEW at,
           at = Max({0} \union {i \in DOMAIN sources : sources[i].caught \/ sources[i].file # None})
    PROVE  at \in 0..Len(sources) /\ (at # 0 => at \in DOMAIN sources)
    <1> DEFINE S == {0} \union {i \in DOMAIN sources : sources[i].caught \/ sources[i].file # None}
               n == Len(sources)
    <1>1. n \in Nat /\ S \in SUBSET (0..n) /\ S # {} /\ DOMAIN sources = 1..n
        BY DEF SourcesSound, Stacked
    <1> HIDE DEF S, n
    <1>2. Max(S) \in S
        BY <1>1, MaxIn
    <1>3. at \in S
        BY <1>2 DEF S
    <1> QED
        BY <1>1, <1>3 DEF n

\* A throw of the own codes of a program closes the file that swallows it, or none.
LEMMA ThrowOwnCloses ==
    ASSUME SourcesSound, ThrowOwn
    PROVE  \/ UNCHANGED <<directory, texts, file, said, lines>>
           \/ \E f \in Open : Closed(f)
    <1> DEFINE at == Max({0} \union {i \in DOMAIN sources : sources[i].caught \/ sources[i].file # None})
               swallows == IF at = 0 THEN FALSE ELSE sources[at].file # None
    <1>1. at # 0 => at \in DOMAIN sources
        BY CatchesAt
    <1>2. IF swallows THEN Closed(sources[at].file)
          ELSE UNCHANGED <<directory, texts, file, said, lines>>
        BY DEF ThrowOwn
    <1> HIDE DEF at
    <1>3. swallows => sources[at].file \in Open
        BY <1>1, SourceIsOpen
    <1> QED
        BY <1>2, <1>3

\* The end of a source closes its file or none.
LEMMA SourceEndsCloses ==
    ASSUME SourcesSound, SourceEnds
    PROVE  \/ UNCHANGED <<directory, texts, file, said, lines>>
           \/ \E f \in Open : Closed(f)
    <1>1. sources # << >> /\ sources \in Seq(Sources)
        BY DEF SourceEnds, AtEnd, SourcesSound, Stacked
    <1>2. Len(sources) \in DOMAIN sources /\ Last(sources) = sources[Len(sources)]
        BY <1>1 DEF Last
    <1>3. Last(sources).file # None => Last(sources).file \in Open
        BY <1>2, SourceIsOpen
    <1>4. IF Last(sources).file # None THEN Closed(Last(sources).file)
          ELSE UNCHANGED <<directory, texts, file, said, lines>>
        BY DEF SourceEnds
    <1> QED
        BY <1>3, <1>4

\* Every word on an open file is a step of the host.
LEMMA WordsOfFile ==
    ASSUME HostInv, NEW f \in Open,
           \/ CloseFile(f) \/ FlushFile(f) \/ Drain(f)
           \/ \E length \in Rooms : ReadFile(f, length) \/ ReadLine(f, length)
           \/ \E text \in Written : WriteFile(f, text) \/ WriteLine(f, text)
           \/ \E ud \in 0..MaxText : RepositionFile(f, ud) \/ ResizeFile(f, ud)
           \/ \E caught \in BOOLEAN : IncludeFile(f, caught)
    PROVE  HostSteps
    <1>1. f \in Open /\ 0 \in Nat
        OBVIOUS
    <1>2. CASE CloseFile(f)
        BY <1>1, <1>2 DEF CloseFile, HostSteps
    <1>3. CASE FlushFile(f) \/ Drain(f)
        BY <1>1, <1>3 DEF HostSteps
    <1>4. ASSUME NEW length \in Rooms, ReadFile(f, length) \/ ReadLine(f, length) PROVE HostSteps
        <2>1. length \in Nat
            BY NumbersAssumption
        <2>2. CASE ReadFile(f, length)
            BY <1>1, <2>1, <2>2, ReadFileMoves DEF HostSteps
        <2>3. CASE ReadLine(f, length)
            BY <1>1, <2>1, <2>3 DEF HostSteps
        <2> QED
            BY <1>4, <2>2, <2>3
    <1>5. ASSUME NEW text \in Written, WriteFile(f, text) \/ WriteLine(f, text) PROVE HostSteps
        <2>1. text \in PlainTexts /\ Append(text, "\n") \in PlainTexts
            BY TextsAssumption DEF PlainTexts
        <2> QED
            BY <1>1, <1>5, <2>1 DEF WriteFile, WriteLine, HostSteps
    <1>6. ASSUME NEW ud \in 0..MaxText, RepositionFile(f, ud) \/ ResizeFile(f, ud) PROVE HostSteps
        <2>1. ud \in Nat
            BY NumbersAssumption
        <2> QED
            BY <1>1, <1>6, <2>1 DEF HostSteps
    <1>7. ASSUME NEW caught \in BOOLEAN, IncludeFile(f, caught) PROVE HostSteps
        BY <1>1, <1>7, IncludeFileMoves DEF HostSteps
    <1> QED
        BY <1>2, <1>3, <1>4, <1>5, <1>6, <1>7

\* Each step of Next is one of HostSteps.
LEMMA NextHost ==
    ASSUME HostInv, SourcesSound, [Next]_vars
    PROVE  HostSteps
    <1>1. ASSUME NEW word \in {"open-file", "create-file"}, NEW name \in Names, NEW fam \in Fams,
                 OpenFile(word, name, fam)
          PROVE  HostSteps
        <2>1. /\ lines' = lines
              /\ \/ UNCHANGED <<directory, texts, file, said>>
                 \/ \E f \in Files, i \in Inodes, r \in Records : OpensAs(f, i, r, name)
            BY <1>1, OpenFileOpens
        <2> QED
            BY <2>1 DEF HostSteps
    <1>2. ASSUME NEW from \in Names, NEW to \in Names, DeleteFile(from) \/ RenameFile(from, to)
          PROVE  HostSteps
        BY <1>2, NamesRename DEF HostSteps
    <1>3. CASE \E f \in Open :
                  \/ CloseFile(f) \/ FlushFile(f) \/ Drain(f)
                  \/ \E length \in Rooms : ReadFile(f, length) \/ ReadLine(f, length)
                  \/ \E text \in Written : WriteFile(f, text) \/ WriteLine(f, text)
                  \/ \E ud \in 0..MaxText : RepositionFile(f, ud) \/ ResizeFile(f, ud)
                  \/ \E caught \in BOOLEAN : IncludeFile(f, caught)
        BY <1>3, WordsOfFile
    <1>4. CASE \/ \E length \in 0..MaxText, caught \in BOOLEAN : Evaluate(length, caught)
               \/ Refill \/ Throw \/ UNCHANGED vars
        BY <1>4 DEF Evaluate, Refill, Throw, vars, host, HostSteps
    <1>5. CASE SourceEnds \/ ThrowOwn
        BY <1>5, SourceEndsCloses, ThrowOwnCloses DEF HostSteps
    <1> QED
        BY <1>1, <1>2, <1>3, <1>4, <1>5 DEF Next

\* The steps on the host keep its invariant.
LEMMA HostKept ==
    ASSUME HostInv, HostSteps
    PROVE  HostInv'
    <1>1. ASSUME NEW f, NEW i, NEW r, NEW name \in Names, OpensAs(f, i, r, name), lines' = lines
          PROVE  HostInv'
        BY <1>1, OpeningKeeps
    <1>2. ASSUME NEW f \in Open, Closed(f) PROVE HostInv'
        BY <1>2, ClosingKeeps
    <1>3. CASE Renames
        BY <1>3, RenamingKeeps
    <1>4. ASSUME NEW f \in Open, Moves(f), LinesOf(f), UNCHANGED <<directory, texts, said>>
          PROVE  HostInv'
        BY <1>4, MoveUpdates, UpdateKeeps
    <1>5. ASSUME NEW f \in Open, Moves(f), Interrupted(f), UNCHANGED <<directory, texts, said>>
          PROVE  HostInv'
        BY <1>4, <1>5, InterruptedLines
    <1>6. ASSUME NEW f \in Open, NEW length \in Nat, ReadLine(f, length) PROVE HostInv'
        BY <1>4, <1>6, ReadLineMoves
    <1>7. ASSUME NEW f \in Open, NEW text \in PlainTexts, Wrote(f, text) PROVE HostInv'
        <2>1. LinesOf(f)
            BY <1>7, WroteUpdates, InterruptedLines
        <2>2. \E r, t, x : Updates(f, r, t, x)
            BY <1>7, WroteUpdates
        <2> QED
            BY <2>1, <2>2, UpdateKeeps
    <1>8. ASSUME NEW f \in Open, NEW ud \in Nat, Drain(f) \/ FlushFile(f) \/ RepositionFile(f, ud)
          PROVE  HostInv'
        <2>1. PICK record \in Records :
                  /\ SameFile(record, file[f]) /\ GoesOut(f, record)
                  /\ lines' = lines \/ Interrupted(f)
            BY <1>8, BufferGoesOut
        <2>2. LinesOf(f)
            BY <2>1, InterruptedLines
        <2>3. Updates(f, Emptied(record), Flushed(f), said[f].text)
            BY <2>1, GoesOutUpdates
        <2> QED
            BY <2>2, <2>3, UpdateKeeps
    <1>9. ASSUME NEW f \in Open, NEW ud \in Nat, ResizeFile(f, ud) PROVE HostInv'
        <2>1. LinesOf(f)
            BY <1>9, ResizeUpdates, InterruptedLines
        <2>2. \E r, t, x : Updates(f, r, t, x)
            BY <1>9, ResizeUpdates
        <2> QED
            BY <2>1, <2>2, UpdateKeeps
    <1>10. CASE UNCHANGED <<directory, texts, file, said, lines>>
        BY <1>10 DEF HostInv, Typed, Lives, Exclusive, PendingSound, Open, TextOf
    <1> QED
        BY <1>1, <1>2, <1>3, <1>5, <1>6, <1>7, <1>8, <1>9, <1>10 DEF HostSteps

\* The host invariant holds at the start.
LEMMA HostAtFirst ==
    ASSUME Init
    PROVE  HostInv
    <1>1. PICK first \in BoundedSeq(Chars, MaxText), name \in Names, i \in Inodes :
              /\ directory = [n \in Names |-> IF n = name THEN i ELSE None]
              /\ texts = [j \in Inodes |-> IF j = i THEN first ELSE None]
        BY DEF Init
    <1>2. first \in Texts /\ first # None
        <2>1. first \in Seq(Chars)
            BY DEF BoundedSeq, SeqOf
        <2> QED
            BY <2>1, PlainIsText, NoneAssumption DEF PlainTexts
    <1>3. file = [f \in Files |-> None] /\ said = [f \in Files |-> NothingSaid] /\ Open = {}
        BY DEF Init, Open
    <1>4. NothingSaid \in [text : Texts, atEnd : BOOLEAN] /\ NoLines \in LineRecords /\ NoLines.file = None
        BY DEF NothingSaid, NoLines, LineRecords, Texts
    <1>5. lines = NoLines
        BY DEF Init
    <1>6. Lives
        BY <1>1, <1>2, <1>3 DEF Lives
    <1>7. Typed
        BY <1>1, <1>2, <1>3, <1>4, <1>5, <1>6 DEF Typed
    <1> QED
        BY <1>3, <1>7 DEF HostInv, Exclusive, PendingSound

-----------------------------------------------------------------------------
(* Sources of text *)

\* The id of a source is that of a file, of the host or of EVALUATE.
LEMMA IdTyped ==
    ASSUME NEW s \in Seq(Sources), NEW n \in 0..Len(s)
    PROVE  IdOf(s, n) \in Files \cup {0, -1}
    <1>1. n # 0 => s[n] \in Sources
        OBVIOUS
    <1> QED
        BY <1>1 DEF IdOf, Sources

\* Without the sources above the n-th, those below are as they were.
LEMMA LowerStacked ==
    ASSUME NEW s, NEW id, NEW open, Stacked(s, id, open), NEW n \in 0..Len(s), NEW left,
           \A i \in 1..n : s[i].file # None => s[i].file \in left
    PROVE  /\ Stacked(SubSeq(s, 1, n), IdOf(s, n), left)
           /\ n < Len(s) => IdOf(s, n) = s[n + 1].id
    <1> DEFINE t == SubSeq(s, 1, n)
    <1>1. s \in Seq(Sources) /\ n \in Nat /\ n <= Len(s) /\ Len(s) \in Nat /\ DOMAIN s = 1..Len(s)
        BY DEF Stacked
    <1>2. t \in Seq(Sources) /\ Len(t) = n /\ \A i \in 1..n : t[i] = s[i]
        BY <1>1, Prefix
    <1> HIDE DEF t
    <1>3. DOMAIN t = 1..n
        BY <1>2
    <1>4. \A i \in 0..n : IdOf(t, i) = IdOf(s, i)
        BY <1>1, <1>2 DEF IdOf
    <1>5. \A i \in 1..n : t[i].id = IdOf(t, i - 1)
        BY <1>1, <1>2, <1>4 DEF Stacked
    <1>6. \A i \in 1..n : t[i].file # None =>
              t[i].file \in left /\ \A k \in 1..n \ {i} : t[k].file # t[i].file
        <2>1. \A i \in 1..n : s[i].file # None =>
                  s[i].file \in left /\ \A k \in 1..n \ {i} : s[k].file # s[i].file
            BY <1>1 DEF Stacked
        <2>2. \A i \in 1..n : t[i].file = s[i].file
            BY <1>2
        <2> QED
            BY <2>1, <2>2
    <1>7. n < Len(s) => IdOf(s, n) = s[n + 1].id
        BY <1>1 DEF Stacked
    <1> QED
        BY <1>1, <1>2, <1>3, <1>4, <1>5, <1>6, <1>7 DEF Stacked, t

\* Reading on in the innermost source.
LEMMA RestStacked ==
    ASSUME NEW s, NEW id, NEW open, Stacked(s, id, open), s # << >>, NEW c \in Nat, NEW left,
           \A i \in DOMAIN s : s[i].file # None => s[i].file \in left
    PROVE  Stacked([s EXCEPT ![Len(s)].rest = c], id, left)
    <1> DEFINE n == Len(s)
               q == s[n]
               r == [q EXCEPT !.rest = c]
               t == [s EXCEPT ![n] = r]
    <1>1. s \in Seq(Sources) /\ n \in Nat /\ n # 0 /\ DOMAIN s = 1..n /\ q \in Sources
        BY DEF Stacked
    <1>2. r \in Sources /\ r.file = q.file /\ r.id = q.id
        <2> HIDE DEF q
        <2> QED
            BY <1>1 DEF Sources
    <1> HIDE DEF r
    <1>3. /\ t \in Seq(Sources) /\ Len(t) = n /\ DOMAIN t = 1..n
          /\ \A i \in 1..n : t[i].file = s[i].file /\ t[i].id = s[i].id
        BY <1>1, <1>2
    <1>4. [s EXCEPT ![Len(s)].rest = c] = t
        BY <1>1 DEF r
    <1> HIDE DEF t, n, q
    <1>5. \A i \in 0..n : IdOf(t, i) = IdOf(s, i)
        BY <1>3 DEF IdOf
    <1>6. id = IdOf(t, n) /\ \A i \in 1..n : t[i].id = IdOf(t, i - 1)
        BY <1>1, <1>3, <1>5 DEF Stacked, n
    <1>7. \A i \in 1..n : t[i].file # None =>
              t[i].file \in left /\ \A k \in 1..n \ {i} : t[k].file # t[i].file
        <2>1. \A i \in 1..n : s[i].file # None =>
                  s[i].file \in left /\ \A k \in 1..n \ {i} : s[k].file # s[i].file
            BY <1>1 DEF Stacked
        <2>2. \A i \in 1..n : t[i].file = s[i].file
            BY <1>3
        <2> QED
            BY <2>1, <2>2
    <1>8. Stacked(t, id, left)
        BY <1>3, <1>6, <1>7 DEF Stacked
    <1> QED
        BY <1>4, <1>8

\* Another source on top, of a file that is open and not being read.
LEMMA PushStacked ==
    ASSUME NEW s, NEW id, NEW open, Stacked(s, id, open), NEW r \in Sources, r.id = id,
           r.file # None => r.file \in open /\ \A k \in DOMAIN s : s[k].file # r.file
    PROVE  Stacked(Append(s, r), IF r.file = None THEN -1 ELSE r.file, open)
    <1> DEFINE t == Append(s, r)
               n == Len(s)
    <1>1. s \in Seq(Sources) /\ n \in Nat /\ DOMAIN s = 1..n
        BY DEF Stacked
    <1>2. /\ t \in Seq(Sources) /\ Len(t) = n + 1 /\ DOMAIN t = 1..n + 1
          /\ t[n + 1] = r /\ \A i \in 1..n : t[i] = s[i]
        BY <1>1
    <1> HIDE DEF t
    <1>3. \A i \in 0..n : IdOf(t, i) = IdOf(s, i)
        BY <1>1, <1>2 DEF IdOf
    <1>4. IdOf(t, n + 1) = (IF r.file = None THEN -1 ELSE r.file) /\ id = IdOf(s, n)
        BY <1>1, <1>2 DEF IdOf, Stacked
    <1> HIDE DEF n
    <1>5. \A i \in 1..n + 1 : t[i].id = IdOf(t, i - 1)
        <2>1. \A i \in 1..n : t[i].id = IdOf(t, i - 1)
            BY <1>1, <1>2, <1>3 DEF Stacked
        <2>2. t[n + 1].id = IdOf(t, (n + 1) - 1)
            <3>1. (n + 1) - 1 = n /\ n \in 0..n
                BY <1>1
            <3> QED
                BY <1>2, <1>3, <1>4, <3>1
        <2> QED
            BY <1>1, <2>1, <2>2
    <1>6. \A i \in 1..n + 1 : t[i].file # None =>
              t[i].file \in open /\ \A k \in 1..n + 1 \ {i} : t[k].file # t[i].file
        <2>1. \A i \in 1..n : s[i].file # None =>
                  s[i].file \in open /\ \A k \in 1..n \ {i} : s[k].file # s[i].file
            BY <1>1 DEF Stacked
        <2>2. \A i \in 1..n + 1 : i \in 1..n \/ i = n + 1
            BY <1>1
        <2>3. \A k \in 1..n : r.file # None => s[k].file # r.file
            BY <1>1
        <2>4. ASSUME NEW i \in 1..n, t[i].file # None
              PROVE  t[i].file \in open /\ \A k \in 1..n + 1 \ {i} : t[k].file # t[i].file
            BY <1>2, <2>1, <2>2, <2>3, <2>4
        <2>5. r.file # None => r.file \in open /\ \A k \in 1..n : t[k].file # r.file
            BY <1>2, <2>3
        <2> QED
            BY <1>2, <2>2, <2>4, <2>5
    <1>7. Stacked(t, IdOf(t, n + 1), open)
        BY <1>2, <1>5, <1>6 DEF Stacked
    <1> QED
        BY <1>4, <1>7 DEF t

\* A word takes a character of the source it is read from.
LEMMA ConsumedStacked ==
    ASSUME SourcesSound, Reads, NEW left,
           \A i \in DOMAIN sources : sources[i].file # None => sources[i].file \in left
    PROVE  Stacked(Consumed, sourceId, left)
    <1>1. CASE sources = << >>
        <2>1. sourceId = 0 /\ << >> \in Seq(Sources) /\ DOMAIN << >> = {} /\ Len(<< >>) = 0
            BY <1>1 DEF SourcesSound, Stacked, IdOf
        <2> QED
            BY <1>1, <2>1 DEF Consumed, Stacked, IdOf
    <1>2. CASE sources # << >>
        <2> DEFINE c == sources[Len(sources)].rest - 1
        <2>1. sources \in Seq(Sources) /\ Len(sources) \in DOMAIN sources
            BY <1>2 DEF SourcesSound, Stacked
        <2>2. sources[Len(sources)].rest \in Nat /\ sources[Len(sources)].rest # 0
            <3>1. sources[Len(sources)] \in Sources
                BY <2>1
            <3>2. Last(sources) = sources[Len(sources)]
                BY DEF Last
            <3> QED
                BY <1>2, <3>1, <3>2 DEF Reads, AtEnd, Sources
        <2>3. c \in Nat
            BY <2>2
        <2>4. Consumed = [sources EXCEPT ![Len(sources)].rest = c]
            BY <1>2, <2>1 DEF Consumed
        <2> HIDE DEF c
        <2> QED
            BY <1>2, <2>3, <2>4, RestStacked DEF SourcesSound
    <1> QED
        BY <1>1, <1>2

\* After a word of the program that leaves the included files open.
LEMMA ActsKeep ==
    ASSUME SourcesSound, Acts, Included \subseteq Open'
    PROVE  SourcesSound'
    <1>1. \A i \in DOMAIN sources : sources[i].file # None => sources[i].file \in Open'
        BY DEF Included
    <1>2. Stacked(Consumed, sourceId, Open')
        BY <1>1, ConsumedStacked DEF Acts
    <1> QED
        BY <1>2 DEF Acts, SourcesSound

\* A file that is a source is open.
LEMMA IncludedOpen ==
    ASSUME SourcesSound
    PROVE  Included \subseteq Open
    BY SourceIsOpen DEF Included

\* INCLUDE-FILE and EVALUATE.
LEMMA PushKeeps ==
    ASSUME SourcesSound, Reads, NEW f \in (Open \ Included) \cup {None}, NEW rest \in Nat, NEW caught \in BOOLEAN,
           sources' = Append(Consumed, Source(f, rest, caught)),
           sourceId' = (IF f = None THEN -1 ELSE f), Open' = Open
    PROVE  SourcesSound'
    <1>1. Stacked(Consumed, sourceId, Open)
        BY ConsumedStacked, SourceIsOpen
    <1> DEFINE r == Source(f, rest, caught)
    <1>2. r \in Sources /\ r.id = sourceId /\ r.file = f
        <2>1. sourceId \in Files \cup {0, -1}
            <3>1. sources \in Seq(Sources) /\ sourceId = IdOf(sources, Len(sources))
                BY DEF SourcesSound, Stacked
            <3>2. Len(sources) \in 0..Len(sources)
                BY <3>1
            <3> QED
                BY <3>1, <3>2, IdTyped
        <2>2. f \in Files \cup {None}
            BY DEF Open
        <2> QED
            BY <2>1, <2>2 DEF Source, Sources
    <1>3. f # None => f \in Open /\ \A k \in DOMAIN Consumed : Consumed[k].file # f
        <2>1. \A k \in DOMAIN Consumed : k \in DOMAIN sources /\ Consumed[k].file = sources[k].file
            <3>1. sources \in Seq(Sources)
                BY DEF SourcesSound, Stacked
            <3>2. CASE sources = << >>
                BY <3>2 DEF Consumed
            <3>3. CASE sources # << >>
                <4> DEFINE n == Len(sources)
                           q == [sources[n] EXCEPT !.rest = sources[n].rest - 1]
                <4>1. n \in DOMAIN sources /\ sources[n] \in Sources
                    BY <3>1, <3>3
                <4>2. Consumed = [sources EXCEPT ![n] = q]
                    BY <3>3, <4>1 DEF Consumed
                <4>3. q.file = sources[n].file
                    BY <4>1 DEF Sources
                <4> HIDE DEF n, q
                <4> QED
                    BY <4>1, <4>2, <4>3
            <3> QED
                BY <3>2, <3>3
        <2>2. f # None => f \in Open /\ f \notin Included
            OBVIOUS
        <2>3. \A k \in DOMAIN sources : sources[k].file = f /\ f # None => f \in Included
            BY DEF Included
        <2> QED
            BY <2>1, <2>2, <2>3
    <1> HIDE DEF r
    <1>4. Stacked(Append(Consumed, r), IF r.file = None THEN -1 ELSE r.file, Open)
        BY <1>1, <1>2, <1>3, PushStacked
    <1> QED
        BY <1>2, <1>4 DEF SourcesSound, r

\* The sources above the n-th go, and the file of the one above it with them.
LEMMA PopKeeps ==
    ASSUME SourcesSound, NEW n \in DOMAIN sources,
           sources' = SubSeq(sources, 1, n - 1), sourceId' = sources[n].id,
           \/ Open' = Open
           \/ sources[n].file # None /\ Open' = Open \ {sources[n].file}
    PROVE  SourcesSound'
    <1>1. sources \in Seq(Sources) /\ n \in 1..Len(sources) /\ Len(sources) \in Nat
        BY DEF SourcesSound, Stacked
    <1> DEFINE m == n - 1
    <1>2. m \in 0..Len(sources) /\ m < Len(sources) /\ m + 1 = n
        BY <1>1
    <1>3. \A i \in 1..m : sources[i].file # None => sources[i].file \in Open'
        <2>1. \A i \in 1..m : i \in DOMAIN sources /\ i # n
            BY <1>1
        <2>2. \A i \in 1..m : sources[i].file # None => sources[i].file \in Open
            BY <2>1, SourceIsOpen
        <2>3. sources[n].file # None => \A i \in 1..m : sources[i].file # sources[n].file
            BY <2>1 DEF SourcesSound, Stacked
        <2> QED
            BY <2>2, <2>3
    <1> HIDE DEF m
    <1>4. Stacked(sources, sourceId, Open)
        BY DEF SourcesSound
    <1>5. Stacked(SubSeq(sources, 1, m), IdOf(sources, m), Open') /\ IdOf(sources, m) = sources[m + 1].id
        BY <1>2, <1>3, <1>4, LowerStacked
    <1> QED
        BY <1>2, <1>5 DEF SourcesSound, m

\* No source is left.
LEMMA EmptyKeeps ==
    ASSUME sources' = << >>, sourceId' = 0
    PROVE  SourcesSound'
    <1>1. << >> \in Seq(Sources) /\ DOMAIN << >> = {} /\ Len(<< >>) = 0
        OBVIOUS
    <1> QED
        BY <1>1 DEF SourcesSound, Stacked, IdOf

\* Files whose records stay are open as before.
LEMMA SameRecordsOpen ==
    ASSUME file' = file
    PROVE  Open' = Open
    BY DEF Open

\* The words of a file that leave it open.
LEMMA WordLeavesOpen ==
    ASSUME HostInv, NEW f \in Open,
           \/ FlushFile(f) \/ Drain(f)
           \/ \E length \in Nat : ReadFile(f, length) \/ ReadLine(f, length)
           \/ \E text \in PlainTexts : Wrote(f, text)
           \/ \E ud \in Nat : RepositionFile(f, ud) \/ ResizeFile(f, ud)
           \/ \E caught \in BOOLEAN : IncludeFile(f, caught)
    PROVE  Open' = Open
    <1>1. ASSUME NEW r, NEW t, NEW x, Updates(f, r, t, x) PROVE Open' = Open
        BY <1>1, AfterUpdate
    <1>2. ASSUME NEW ud \in Nat, Drain(f) \/ FlushFile(f) \/ RepositionFile(f, ud) PROVE Open' = Open
        BY <1>1, <1>2, BufferGoesOut, GoesOutUpdates
    <1>3. ASSUME NEW length \in Nat, ReadFile(f, length) \/ ReadLine(f, length) PROVE Open' = Open
        BY <1>1, <1>3, ReadFileMoves, ReadLineMoves, MoveUpdates
    <1>4. ASSUME NEW caught \in BOOLEAN, IncludeFile(f, caught) PROVE Open' = Open
        BY <1>1, <1>4, IncludeFileMoves, MoveUpdates
    <1>5. ASSUME NEW text \in PlainTexts, Wrote(f, text) PROVE Open' = Open
        BY <1>1, <1>5, WroteUpdates
    <1>6. ASSUME NEW ud \in Nat, ResizeFile(f, ud) PROVE Open' = Open
        BY <1>1, <1>6, ResizeUpdates
    <1>7. 0 \in Nat
        OBVIOUS
    <1> QED
        BY <1>2, <1>3, <1>4, <1>5, <1>6, <1>7

\* INCLUDE-FILE puts its file above the sources.
LEMMA IncludeFileSources ==
    ASSUME Keeps("source_left_open"), HostInv, SourcesSound, NEW f \in Open, NEW caught \in BOOLEAN, IncludeFile(f, caught)
    PROVE  SourcesSound'
    <1> DEFINE size == FileSize(f) - file[f].position
               gets == size > 0 /\ file[f].reads
               rest == IF gets THEN size ELSE 0
    <1>1. f \in Open \ Included /\ f \in Files /\ f # None
        BY NoneAssumption DEF Open, IncludeFile, LeftOpen
    <1>2. size \in Int
        BY <1>1, OpenFacts DEF FileSize, Texts
    <1>3. rest \in Nat
        BY <1>2
    <1>4. Reads /\ sources' = Append(Consumed, Source(f, rest, caught)) /\ sourceId' = f
        BY DEF IncludeFile
    <1>5. Open' = Open
        BY <1>1, WordLeavesOpen
    <1> HIDE DEF rest
    <1> QED
        BY <1>1, <1>3, <1>4, <1>5, PushKeeps

\* The end of a source uncovers the one below.
LEMMA SourceEndsSources ==
    ASSUME HostInv, SourcesSound, SourceEnds
    PROVE  SourcesSound'
    <1> DEFINE n == Len(sources)
    <1>1. sources # << >> /\ sources \in Seq(Sources)
        BY DEF SourceEnds, AtEnd, SourcesSound, Stacked
    <1>2. n \in DOMAIN sources /\ Last(sources) = sources[n] /\ Front(sources) = SubSeq(sources, 1, n - 1)
        BY <1>1, FrontIsPrefix
    <1>3. sources' = SubSeq(sources, 1, n - 1) /\ sourceId' = sources[n].id
        BY <1>2 DEF SourceEnds, Outer
    <1>4. IF sources[n].file # None THEN Closed(sources[n].file)
          ELSE UNCHANGED <<directory, texts, file, said, lines>>
        BY <1>2 DEF SourceEnds
    <1> HIDE DEF n
    <1>5. \/ Open' = Open
          \/ sources[n].file # None /\ Open' = Open \ {sources[n].file}
        BY <1>2, <1>4, SourceIsOpen, AfterClosing, SameRecordsOpen
    <1> QED
        BY <1>2, <1>3, <1>5, PopKeeps

\* An error leaves the sources down to the CATCH that stops it.
LEMMA ThrowSources ==
    ASSUME SourcesSound, Throw
    PROVE  SourcesSound'
    <1> DEFINE catching == {i \in DOMAIN sources : sources[i].caught}
               n == Max(catching)
    <1>1. Open' = Open /\ Len(sources) \in Nat /\ DOMAIN sources = 1..Len(sources)
        BY SameRecordsOpen DEF Throw, SourcesSound, Stacked
    <1>2. IF catching = {} THEN sources' = << >> /\ sourceId' = 0
          ELSE sources' = SubSeq(sources, 1, n - 1) /\ sourceId' = sources[n].id
        BY DEF Throw
    <1>3. CASE catching = {}
        BY <1>2, <1>3, EmptyKeeps
    <1>4. CASE catching # {}
        <2>1. catching \in SUBSET (0..Len(sources)) /\ catching \subseteq DOMAIN sources
            BY <1>1
        <2> HIDE DEF catching
        <2>2. n \in DOMAIN sources
            BY <1>1, <1>4, <2>1, MaxIn
        <2> HIDE DEF n
        <2> QED
            BY <1>1, <1>2, <1>4, <2>2, PopKeeps
    <1> QED
        BY <1>3, <1>4

\* A throw of the own codes of a program ends the sources down to the one that stops it.
LEMMA ThrowOwnSources ==
    ASSUME HostInv, SourcesSound, ThrowOwn
    PROVE  SourcesSound'
    <1> DEFINE at == Max({0} \union {i \in DOMAIN sources : sources[i].caught \/ sources[i].file # None})
               swallows == IF at = 0 THEN FALSE ELSE sources[at].file # None
    <1>1. at # 0 => at \in DOMAIN sources
        BY CatchesAt
    <1>2. /\ IF at = 0 THEN sources' = << >> /\ sourceId' = 0
             ELSE sources' = SubSeq(sources, 1, at - 1) /\ sourceId' = sources[at].id
          /\ IF swallows THEN Closed(sources[at].file)
             ELSE UNCHANGED <<directory, texts, file, said, lines>>
        BY DEF ThrowOwn
    <1> HIDE DEF at
    <1>3. CASE at = 0
        BY <1>2, <1>3, EmptyKeeps
    <1>4. CASE at # 0
        <2>1. \/ Open' = Open
              \/ sources[at].file # None /\ Open' = Open \ {sources[at].file}
            BY <1>1, <1>2, <1>4, SourceIsOpen, AfterClosing, SameRecordsOpen
        <2> QED
            BY <1>1, <1>2, <1>4, <2>1, PopKeeps
    <1> QED
        BY <1>3, <1>4

\* REFILL says FALSE in a string, and gives up the rest of a file.
LEMMA RefillSources ==
    ASSUME SourcesSound, Refill
    PROVE  SourcesSound'
    <1>1. sources # << >> /\ Reads /\ sourceId' = sourceId /\ Open' = Open
        BY SameRecordsOpen DEF Refill
    <1>2. sources' = Consumed \/ sources' = [sources EXCEPT ![Len(sources)].rest = 0]
        BY DEF Refill
    <1>3. Stacked(Consumed, sourceId, Open)
        BY <1>1, ConsumedStacked, SourceIsOpen
    <1>4. Stacked([sources EXCEPT ![Len(sources)].rest = 0], sourceId, Open)
        <2>1. Stacked(sources, sourceId, Open)
            BY DEF SourcesSound
        <2>2. 0 \in Nat
            OBVIOUS
        <2> QED
            BY <1>1, <2>1, <2>2, SourceIsOpen, RestStacked
    <1> QED
        BY <1>1, <1>2, <1>3, <1>4 DEF SourcesSound

\* EVALUATE puts a string above the sources.
LEMMA EvaluateSources ==
    ASSUME SourcesSound, NEW length \in Nat, NEW caught \in BOOLEAN, Evaluate(length, caught)
    PROVE  SourcesSound'
    <1>1. /\ Reads /\ sources' = Append(Consumed, Source(None, length, caught)) /\ sourceId' = -1
          /\ Open' = Open
        BY SameRecordsOpen DEF Evaluate
    <1> QED
        BY <1>1, PushKeeps

\* The words that act on a file or on the directory.
LEMMA WordsSources ==
    ASSUME HostInv, SourcesSound, Acts,
           \/ \E word \in {"open-file", "create-file"}, name \in Names, fam \in Fams : OpenFile(word, name, fam)
           \/ Renames
           \/ \E f \in Open \ Included : Closed(f)
           \/ Open' = Open
    PROVE  SourcesSound'
    <1> SUFFICES Included \subseteq Open'
        BY ActsKeep
    <1>1. Included \subseteq Open
        BY IncludedOpen
    <1>2. ASSUME NEW word \in {"open-file", "create-file"}, NEW name \in Names, NEW fam \in Fams,
                 OpenFile(word, name, fam)
          PROVE  Open \subseteq Open'
        <2>1. \/ UNCHANGED <<directory, texts, file, said>>
              \/ \E f \in Files, i \in Inodes, r \in Records : OpensAs(f, i, r, name)
            BY <1>2, OpenFileOpens
        <2>2. ASSUME NEW f, NEW i, NEW r, OpensAs(f, i, r, name) PROVE Open \subseteq Open'
            BY <2>2, AfterOpening
        <2> QED
            BY <2>1, <2>2, SameRecordsOpen
    <1>3. CASE Renames
        BY <1>1, <1>3, AfterRenaming
    <1>4. ASSUME NEW f \in Open \ Included, Closed(f) PROVE Included \subseteq Open'
        BY <1>1, <1>4, AfterClosing
    <1> QED
        BY <1>1, <1>2, <1>3, <1>4

\* Every step keeps the sources stacked: no file that is being read is closed
\* under it.
LEMMA SourcesKept ==
    ASSUME Keeps("source_left_open"), HostInv, SourcesSound, [Next]_vars
    PROVE  SourcesSound'
    <1>1. ASSUME NEW word \in {"open-file", "create-file"}, NEW name \in Names, NEW fam \in Fams,
                 OpenFile(word, name, fam)
          PROVE  SourcesSound'
        <2>1. Acts
            BY <1>1 DEF OpenFile
        <2> QED
            BY <1>1, <2>1, WordsSources
    <1>2. ASSUME NEW from \in Names, NEW to \in Names, DeleteFile(from) \/ RenameFile(from, to)
          PROVE  SourcesSound'
        <2>1. Acts
            BY <1>2 DEF DeleteFile, RenameFile
        <2> QED
            BY <1>2, <2>1, NamesRename, WordsSources
    <1>3. ASSUME NEW f \in Open, CloseFile(f) PROVE SourcesSound'
        <2>1. f \in Open \ Included /\ Closed(f) /\ Acts
            BY <1>3 DEF CloseFile, LeftOpen
        <2> QED
            BY <2>1, WordsSources
    <1>4. ASSUME NEW f \in Open, FlushFile(f) PROVE SourcesSound'
        BY <1>4, WordLeavesOpen, WordsSources DEF FlushFile
    <1>5. ASSUME NEW f \in Open, Drain(f) PROVE SourcesSound'
        <2>1. Open' = Open
            BY <1>5, WordLeavesOpen
        <2> QED
            BY <1>5, <2>1 DEF Drain, run, SourcesSound
    <1>6. ASSUME NEW f \in Open, NEW length \in Rooms, ReadFile(f, length) \/ ReadLine(f, length)
          PROVE  SourcesSound'
        <2>1. length \in Nat /\ f \in Open
            BY NumbersAssumption
        <2>2. Open' = Open
            BY <1>6, <2>1, WordLeavesOpen
        <2>3. Acts
            BY <1>6 DEF ReadFile, ReadLine
        <2> QED
            BY <2>2, <2>3, WordsSources
    <1>7. ASSUME NEW f \in Open, NEW text \in Written, WriteFile(f, text) \/ WriteLine(f, text)
          PROVE  SourcesSound'
        <2>1. text \in PlainTexts /\ Append(text, "\n") \in PlainTexts /\ f \in Open
            BY TextsAssumption DEF PlainTexts
        <2>2. Acts /\ (Wrote(f, text) \/ Wrote(f, Append(text, "\n")))
            BY <1>7 DEF WriteFile, WriteLine
        <2>3. Open' = Open
            BY <2>1, <2>2, WordLeavesOpen
        <2> QED
            BY <2>2, <2>3, WordsSources
    <1>8. ASSUME NEW f \in Open, NEW ud \in 0..MaxText, RepositionFile(f, ud) \/ ResizeFile(f, ud)
          PROVE  SourcesSound'
        <2>1. ud \in Nat /\ f \in Open
            BY NumbersAssumption
        <2>2. Open' = Open
            BY <1>8, <2>1, WordLeavesOpen
        <2>3. Acts
            BY <1>8 DEF RepositionFile, ResizeFile
        <2> QED
            BY <2>2, <2>3, WordsSources
    <1>9. ASSUME NEW f \in Open, NEW caught \in BOOLEAN, IncludeFile(f, caught) PROVE SourcesSound'
        BY <1>9, IncludeFileSources
    <1>10. ASSUME NEW length \in 0..MaxText, NEW caught \in BOOLEAN, Evaluate(length, caught)
           PROVE  SourcesSound'
        BY <1>10, EvaluateSources, NumbersAssumption
    <1>11. CASE SourceEnds \/ Refill \/ Throw \/ ThrowOwn
        BY <1>11, SourceEndsSources, RefillSources, ThrowSources, ThrowOwnSources
    <1>12. CASE UNCHANGED vars
        BY <1>12, SameRecordsOpen DEF vars, SourcesSound
    <1> QED
        BY <1>1, <1>2, <1>3, <1>4, <1>5, <1>6, <1>7, <1>8, <1>9, <1>10, <1>11, <1>12 DEF Next

\* The sources are sound at the start.
LEMMA SourcesAtFirst ==
    ASSUME Init
    PROVE  SourcesSound
    <1>1. sources = << >> /\ sourceId = 0 /\ << >> \in Seq(Sources) /\ DOMAIN << >> = {} /\ Len(<< >>) = 0
        BY DEF Init
    <1> QED
        BY <1>1 DEF SourcesSound, Stacked, IdOf

\* SOURCE-ID names the source that is being interpreted, and the files that
\* are being included are open, each in one place, however many texts include
\* and evaluate each other and whatever errors leave them, in a program that
\* neither closes nor includes a file while it is being included.
THEOREM SourcesNamed ==
    ASSUME {"source_left_open"} \subseteq Obligations
    PROVE  Spec => []SourceNamesText
    <1>1. Init => HostInv /\ SourcesSound
        BY HostAtFirst, SourcesAtFirst
    <1>2. HostInv /\ SourcesSound /\ [Next]_vars => (HostInv /\ SourcesSound)'
        BY NextHost, HostKept, SourcesKept DEF Keeps
    <1>3. SourcesSound => SourceNamesText
        <2> SUFFICES ASSUME SourcesSound PROVE SourceNamesText
            OBVIOUS
        <2>1. sources \in Seq(Sources) /\ sourceId = IdOf(sources, Len(sources))
            BY DEF SourcesSound, Stacked
        <2>2. sources = << >> <=> Len(sources) = 0
            BY <2>1
        <2>3. sourceId = IF sources = << >> THEN 0
                         ELSE IF Last(sources).file = None THEN -1 ELSE Last(sources).file
            BY <2>1, <2>2 DEF IdOf, Last
        <2> QED
            BY <2>3 DEF SourcesSound, Stacked, SourceNamesText
    <1> QED
        BY <1>1, <1>2, <1>3, PTL DEF Spec

-----------------------------------------------------------------------------
(* What is written *)

\* What a text says once the buffer of the record r is out.
FlushedBy(r, t) ==
    IF r.pending = << >> THEN t
    ELSE IF r.appends THEN t \o r.pending
    ELSE Over(t, r.position - Len(r.pending), r.pending)

\* What the disk gets of a file, from its record and its text.
LEMMA FlushedIs == \A f : Flushed(f) = FlushedBy(file[f], TextOf(f))
    BY DEF Flushed, FlushedBy

\* A word keeps what is written if it does so for its own file: no other file
\* that is written has the same text.
LEMMA UpdateWrites ==
    ASSUME Keeps("written_alone"), HostInv, WritesKept, NEW f \in Open, NEW r, NEW t, NEW x, Updates(f, r, t, x),
           file[f].writes => FlushedBy(r, t) = x
    PROVE  WritesKept'
    <1>1. /\ Open' = Open
          /\ file'[f] = r /\ TextOf(f)' = t /\ said'[f].text = x
          /\ \A g \in Open \ {f} : /\ file'[g] = file[g] /\ said'[g] = said[g]
                                    /\ TextOf(g)' = IF file[g].inode = file[f].inode THEN t ELSE TextOf(g)
        BY AfterUpdate
    <1>2. r.writes = file[f].writes
        BY DEF Updates, SameFile
    <1>3. file'[f].writes => Flushed(f)' = said'[f].text
        BY <1>1, <1>2, FlushedIs DEF Flushed, FlushedBy, TextOf
    <1>4. ASSUME NEW g \in Open \ {f}, file'[g].writes PROVE Flushed(g)' = said'[g].text
        <2>1. file[g].writes /\ TextOf(g)' = TextOf(g) /\ file'[g] = file[g] /\ said'[g] = said[g]
            BY <1>1, <1>4 DEF HostInv, Exclusive
        <2>2. Flushed(g)' = Flushed(g)
            BY <2>1 DEF Flushed, TextOf
        <2> QED
            BY <2>1, <2>2 DEF WritesKept
    <1> QED
        BY <1>1, <1>3, <1>4 DEF WritesKept

\* fwrite puts a text behind what the buffer holds, and so behind or over what
\* the file says.
LEMMA WroteFlushes ==
    ASSUME HostInv, NEW f \in Open, NEW text \in PlainTexts, file[f].writes,
           PlaceOf(f) <= Len(Flushed(f)), Flushed(f) = said[f].text
    PROVE  FlushedBy(WrittenRecord(f, text), TextOf(f)) = WrittenText(f, text)
    <1> DEFINE q == file[f]
               t == TextOf(f)
               y == q.pending
               z == y \o text
               r == WrittenRecord(f, text)
    <1>1. /\ q \in Records /\ RecordSound(q) /\ q.position \in Nat /\ y \in PlainTexts
          /\ t \in Texts /\ said[f].text \in Texts
        BY OpenFacts
    <1>2. /\ y \in Texts /\ text \in Texts /\ Len(y) \in Nat /\ Len(text) \in Nat /\ Len(t) \in Nat
          /\ y \in Seq(Chars) /\ text \in Seq(Chars)
        BY <1>1, PlainIsText DEF PlainTexts, Texts
    <1>3. z \in Seq(Chars) /\ z \in Texts /\ Len(z) = Len(y) + Len(text) /\ (z = << >> <=> y = << >> /\ text = << >>)
        <2>1. z \in Seq(Chars) /\ Len(z) = Len(y) + Len(text)
            BY <1>2
        <2>2. z \in PlainTexts
            BY <2>1 DEF PlainTexts
        <2>3. z \in Texts
            BY <2>2, PlainIsText
        <2>4. z = << >> <=> Len(z) = 0
            BY <2>1
        <2>5. (y = << >> <=> Len(y) = 0) /\ (text = << >> <=> Len(text) = 0)
            BY <1>2
        <2> HIDE DEF z, y
        <2> QED
            BY <1>2, <2>1, <2>3, <2>4, <2>5
    <1>4. PlaceOf(f) \in Nat
        BY <1>1, FlushedTyped DEF PlaceOf, Texts
    <1>5. r.pending = z /\ r.position = PlaceOf(f) + Len(text) /\ r.appends = q.appends
        BY <1>1 DEF WrittenRecord, Records
    <1>6. said[f].atEnd = q.appends
        BY DEF HostInv, PendingSound
    <1>7. Flushed(f) = IF y = << >> THEN t ELSE IF q.appends THEN t \o y ELSE Over(t, q.position - Len(y), y)
        BY DEF Flushed
    <1>8. FlushedBy(r, t) = IF z = << >> THEN t ELSE IF q.appends THEN t \o z
                            ELSE Over(t, r.position - Len(z), z)
        BY <1>5 DEF FlushedBy
    <1>9. CASE q.appends
        <2>1. WrittenText(f, text) = Flushed(f) \o text
            <3>1. WrittenText(f, text) = Over(said[f].text, Len(said[f].text), text)
                BY <1>6, <1>9 DEF WrittenText
            <3> QED
                BY <1>1, <1>2, <3>1, OverEnd
        <2>2. CASE y = << >>
            <3>1. z = text /\ t \o << >> = t
                BY <1>1, <1>2, <2>2 DEF Texts
            <3> HIDE DEF z, y, t, r
            <3> QED
                BY <1>7, <1>8, <1>9, <2>1, <2>2, <3>1 DEF t, r
        <2>3. CASE y # << >>
            <3>1. (t \o y) \o text = t \o z
                <4>1. t \in Seq(Chars \cup {"nul"}) /\ y \in Seq(Chars \cup {"nul"}) /\ text \in Seq(Chars \cup {"nul"})
                    BY <1>1, <1>2 DEF Texts
                <4> HIDE DEF t, y
                <4> QED
                    BY <4>1, ConcatAssociative
            <3> HIDE DEF z, y, t, r
            <3> QED
                BY <1>3, <1>7, <1>8, <1>9, <2>1, <2>3, <3>1 DEF t, r
        <2> QED
            BY <2>2, <2>3
    <1>10. CASE ~q.appends
        <2>1. WrittenText(f, text) = Over(Flushed(f), q.position, text) /\ PlaceOf(f) = q.position
            BY <1>6, <1>10 DEF WrittenText, PlaceOf
        <2>2. Len(y) <= q.position
            BY <1>1, <1>10 DEF RecordSound
        <2>3. CASE z = << >>
            <3>1. Flushed(f) = t /\ q.position <= Len(t) /\ text = << >>
                BY <1>3, <1>7, <2>1, <2>3
            <3>2. Over(t, q.position, << >>) = t
                BY <1>1, <3>1, OverNothing
            <3> HIDE DEF z, y, t, r
            <3> QED
                BY <1>8, <2>1, <2>3, <3>1, <3>2 DEF t, r
        <2>4. CASE y = << >> /\ z # << >>
            <3>1. z = text /\ Len(z) = Len(text)
                BY <1>2, <2>4
            <3>2. r.position - Len(z) = q.position
                BY <1>2, <1>5, <2>1, <3>1, <1>1
            <3> HIDE DEF z, y, t, r
            <3> QED
                BY <1>7, <1>8, <1>10, <2>1, <2>4, <3>1, <3>2 DEF t, r
        <2>5. CASE y # << >>
            <3> DEFINE a == q.position - Len(y)
            <3>1. a \in Nat /\ a + Len(y) = q.position
                BY <1>1, <1>2, <2>2
            <3>2. r.position - Len(z) = a
                BY <1>1, <1>2, <1>3, <1>5, <2>1
            <3>3. z # << >>
                BY <1>3, <2>5
            <3> HIDE DEF a, y
            <3>4. Over(Over(t, a, y), a + Len(y), text) = Over(t, a, y \o text)
                BY <1>1, <1>2, <2>5, <3>1, OverTwice
            <3>5. Flushed(f) = Over(t, a, y)
                BY <1>7, <1>10, <2>5 DEF a
            <3> QED
                BY <1>8, <1>10, <2>1, <3>1, <3>2, <3>3, <3>4, <3>5
        <2> QED
            BY <2>3, <2>4, <2>5
    <1> QED
        BY <1>9, <1>10

\* The steps on the host keep what was written.
LEMMA WritesKeptByHost ==
    ASSUME {"no_nul", "flushed", "written_alone"} \subseteq Obligations, HostInv, WritesKept, HostSteps
    PROVE  WritesKept'
    <1>1. Keeps("no_nul") /\ Keeps("flushed") /\ Keeps("written_alone")
        BY DEF Keeps
    <1>2. ASSUME NEW f, NEW i, NEW r, NEW name \in Names, OpensAs(f, i, r, name) PROVE WritesKept'
        <2>1. /\ Open' = Open \cup {f} /\ file'[f] = r /\ TextOf(f)' = texts'[i] /\ said'[f].text = texts'[i]
              /\ \A g \in Open : file'[g] = file[g] /\ said'[g] = said[g] /\ TextOf(g)' = TextOf(g)
            BY <1>1, <1>2, AfterOpening
        <2>2. Flushed(f)' = said'[f].text
            BY <1>2, <2>1 DEF OpensAs, Flushed
        <2>3. \A g \in Open : Flushed(g)' = Flushed(g)
            BY <2>1 DEF Flushed
        <2> QED
            BY <2>1, <2>2, <2>3 DEF WritesKept
    <1>3. ASSUME NEW f \in Open, Closed(f) PROVE WritesKept'
        <2>1. /\ Open' = Open \ {f}
              /\ \A g \in Open' : file'[g] = file[g] /\ said'[g] = said[g]
              /\ \A g \in Open' : TextOf(g)' = IF file[g].inode = file[f].inode THEN Flushed(f) ELSE TextOf(g)
            BY <1>3, AfterClosing
        <2>2. \A g \in Open' : file[g].writes => file[g].inode # file[f].inode
            BY <1>1, <2>1 DEF HostInv, Exclusive
        <2>3. \A g \in Open' : file[g].writes => Flushed(g)' = Flushed(g)
            BY <2>1, <2>2 DEF Flushed
        <2> QED
            BY <2>1, <2>3 DEF WritesKept
    <1>4. CASE Renames
        <2>1. Open' = Open /\ file' = file /\ said' = said /\ \A g \in Open : TextOf(g)' = TextOf(g)
            BY <1>4, AfterRenaming
        <2>2. \A g \in Open : Flushed(g)' = Flushed(g)
            BY <2>1 DEF Flushed
        <2> QED
            BY <2>1, <2>2 DEF WritesKept
    <1>5. ASSUME NEW f \in Open, Moves(f), UNCHANGED <<directory, texts, said>> PROVE WritesKept'
        <2>1. PICK r : Updates(f, r, TextOf(f), said[f].text)
            BY <1>5, MoveUpdates
        <2>2. file'[f] = r
            BY <2>1, AfterUpdate
        <2>3. file[f].writes => FlushedBy(r, TextOf(f)) = said[f].text
            <3>1. file[f].writes => Flushed(f) = said[f].text
                BY DEF WritesKept
            <3>2. CASE file' = file
                BY <2>2, <3>1, <3>2, FlushedIs
            <3>3. ASSUME NEW n, NEW eof, Readable(f), file' = Advanced(f, n, eof)
                  PROVE  r.pending = << >> /\ file[f].pending = << >>
                <4>1. f \in Files /\ file \in [Files -> Records \cup {None}] /\ file[f] \in Records
                    BY OpenFacts DEF HostInv, Typed
                <4>2. file[f].pending = << >>
                    BY OpenFacts, <3>3 DEF Readable, RecordSound
                <4>3. file'[f].pending = file[f].pending
                    BY <3>3, <4>1 DEF Advanced, Records
                <4> QED
                    BY <2>2, <4>2, <4>3
            <3>4. CASE r.pending = << >> /\ file[f].pending = << >>
                BY <3>1, <3>4 DEF FlushedBy, Flushed
            <3> QED
                BY <1>5, <3>2, <3>3, <3>4 DEF Moves
        <2> QED
            BY <2>1, <2>3, <1>1, UpdateWrites
    <1>6. ASSUME NEW f \in Open, NEW length \in Nat, ReadLine(f, length) PROVE WritesKept'
        BY <1>5, <1>6, ReadLineMoves
    <1>7. ASSUME NEW f \in Open, NEW text \in PlainTexts, Wrote(f, text) PROVE WritesKept'
        <2>1. CASE file[f].writes
            <3>1. /\ Updates(f, WrittenRecord(f, text), TextOf(f), WrittenText(f, text))
                  /\ PlaceOf(f) <= Len(Flushed(f))
                BY <1>1, <1>7, <2>1, WroteUpdates
            <3>2. Flushed(f) = said[f].text
                BY <2>1 DEF WritesKept
            <3>3. FlushedBy(WrittenRecord(f, text), TextOf(f)) = WrittenText(f, text)
                BY <2>1, <3>1, <3>2, WroteFlushes
            <3> QED
                BY <3>1, <3>3, <1>1, UpdateWrites
        <2>2. CASE ~file[f].writes
            <3>1. Updates(f, [file[f] EXCEPT !.eof = FALSE], TextOf(f), said[f].text)
                BY <1>7, <2>2, WroteUpdates
            <3> QED
                BY <2>2, <3>1, <1>1, UpdateWrites
        <2> QED
            BY <2>1, <2>2
    <1>8. ASSUME NEW f \in Open, NEW ud \in Nat, Drain(f) \/ FlushFile(f) \/ RepositionFile(f, ud)
          PROVE  WritesKept'
        <2>1. PICK record \in Records : SameFile(record, file[f]) /\ GoesOut(f, record)
            BY <1>8, BufferGoesOut
        <2>2. Updates(f, Emptied(record), Flushed(f), said[f].text)
            BY <2>1, GoesOutUpdates
        <2>3. Emptied(record).pending = << >>
            BY DEF Emptied, Records
        <2>4. file[f].writes => FlushedBy(Emptied(record), Flushed(f)) = said[f].text
            BY <2>3 DEF FlushedBy, WritesKept
        <2> QED
            BY <2>2, <2>4, <1>1, UpdateWrites
    <1>9. ASSUME NEW f \in Open, NEW ud \in Nat, ResizeFile(f, ud) PROVE WritesKept'
        <2>1. file[f].pending = << >>
            BY <1>1, <1>9, ResizeUpdates
        <2>2. CASE file[f].writes
            <3>1. Updates(f, file[f], Cut(TextOf(f), ud), Cut(said[f].text, ud))
                BY <1>9, <2>2, ResizeUpdates
            <3>2. TextOf(f) = said[f].text
                BY <2>1, <2>2 DEF WritesKept, Flushed
            <3>3. FlushedBy(file[f], Cut(TextOf(f), ud)) = Cut(said[f].text, ud)
                BY <2>1, <3>2 DEF FlushedBy
            <3> QED
                BY <3>1, <3>3, <1>1, UpdateWrites
        <2>3. CASE ~file[f].writes
            BY <1>9, <2>3, ResizeUpdates, <1>1, UpdateWrites
        <2> QED
            BY <2>2, <2>3
    <1>10. CASE UNCHANGED <<directory, texts, file, said, lines>>
        BY <1>10 DEF WritesKept, Open, Flushed, TextOf
    <1> QED
        BY <1>2, <1>3, <1>4, <1>5, <1>6, <1>7, <1>8, <1>9, <1>10 DEF HostSteps

\* A program that does not write NULs into gaps, that flushes a file before its
\* size is set, that writes no file which is open twice and closes none that is
\* being included, finds in each file what it wrote: behind all that
\* was there for OPEN-FILE, from where it stood for CREATE-FILE, however
\* stdio's buffer goes out and whatever happens to the file's name.
THEOREM WrittenStays ==
    ASSUME {"no_nul", "flushed", "written_alone", "source_left_open"} \subseteq Obligations
    PROVE  Spec => []WritesKept
    <1>1. Init => HostInv /\ SourcesSound /\ WritesKept
        <2>1. Init => Open = {}
            BY DEF Init, Open
        <2> QED
            BY <2>1, HostAtFirst, SourcesAtFirst DEF WritesKept
    <1>2. HostInv /\ SourcesSound /\ WritesKept /\ [Next]_vars => (HostInv /\ SourcesSound /\ WritesKept)'
        BY NextHost, HostKept, SourcesKept, WritesKeptByHost DEF Keeps
    <1> QED
        BY <1>1, <1>2, PTL DEF Spec

-----------------------------------------------------------------------------
(* What is read *)

LineRules == {"room_for_a_character", "no_nul", "flushed", "plain_files",
              "written_alone", "source_left_open"} \subseteq Obligations

PlainHost == NoNuls /\ NoGap /\ PlaceSound

\* A word keeps texts plain and places sound if it does so for its own file.
LEMMA UpdatePlain ==
    ASSUME Keeps("written_alone"), HostInv, PlainHost, NEW f \in Open, NEW r, NEW t, NEW x, Updates(f, r, t, x),
           t \in PlainTexts,
           r.pending # << >> /\ ~r.appends => r.position - Len(r.pending) <= Len(t),
           ~r.writes => t = TextOf(f),
           ~r.writes => r.position <= Len(t) /\ (r.eof => r.position = Len(t))
    PROVE  PlainHost'
    <1>1. /\ Open' = Open
          /\ file'[f] = r /\ TextOf(f)' = t
          /\ \A g \in Open \ {f} : /\ file'[g] = file[g]
                                    /\ TextOf(g)' = IF file[g].inode = file[f].inode THEN t ELSE TextOf(g)
          /\ \A i \in Inodes : texts'[i] = IF i = file[f].inode THEN t ELSE texts[i]
        BY AfterUpdate
    <1>2. r.writes = file[f].writes
        BY DEF Updates, SameFile
    <1>3. NoNuls'
        BY <1>1 DEF PlainHost, NoNuls, PlainTexts
    <1>4. ASSUME NEW g \in Open \ {f}
          PROVE  /\ file'[g] = file[g]
                 /\ TextOf(g)' = TextOf(g) \/ (~file[g].writes /\ file[g].pending = << >>)
                 /\ ~file[g].writes => TextOf(g)' = TextOf(g)
        <2>1. file'[g] = file[g] /\ RecordSound(file[g])
            BY <1>1 DEF HostInv, PendingSound
        <2>2. CASE file[g].inode = file[f].inode
            <3>1. ~file[g].writes /\ ~r.writes
                BY <1>2, <2>2 DEF HostInv, Exclusive
            <3>2. TextOf(g) = TextOf(f)
                BY <2>2 DEF TextOf
            <3> QED
                BY <1>1, <2>1, <3>1, <3>2 DEF RecordSound
        <2>3. CASE file[g].inode # file[f].inode
            BY <1>1, <2>1, <2>3
        <2> QED
            BY <2>2, <2>3
    <1>5. NoGap'
        <2>1. \A g \in Open : file'[g].pending # << >> /\ ~file'[g].appends =>
                  file'[g].position - Len(file'[g].pending) <= Len(TextOf(g)')
            BY <1>1, <1>4 DEF PlainHost, NoGap
        <2> QED
            BY <1>1, <2>1 DEF NoGap
    <1>6. PlaceSound'
        <2>1. \A g \in Open : ~file'[g].writes =>
                  /\ file'[g].position <= Len(TextOf(g)')
                  /\ file'[g].eof => file'[g].position = Len(TextOf(g)')
            BY <1>1, <1>4 DEF PlainHost, PlaceSound
        <2> QED
            BY <1>1, <2>1 DEF PlaceSound
    <1> QED
        BY <1>3, <1>5, <1>6 DEF PlainHost

\* The text of an open file is plain, and a file that is only read holds
\* nothing back.
LEMMA PlainFacts ==
    ASSUME HostInv, PlainHost, NEW f \in Open
    PROVE  /\ TextOf(f) \in PlainTexts /\ Flushed(f) \in PlainTexts
           /\ ~file[f].writes => /\ file[f].pending = << >> /\ Flushed(f) = TextOf(f)
                                 /\ file[f].position <= Len(TextOf(f))
                                 /\ file[f].eof => file[f].position = Len(TextOf(f))
    <1>1. TextOf(f) \in Texts /\ texts[file[f].inode] = TextOf(f) /\ file[f].inode \in Inodes
          /\ RecordSound(file[f])
        BY OpenFacts
    <1>2. TextOf(f) \in PlainTexts
        BY <1>1, NoneAssumption DEF PlainHost, NoNuls, PlainTexts
    <1>3. Flushed(f) \in PlainTexts
        BY <1>2, FlushedTyped DEF PlainHost
    <1>4. ~file[f].writes => file[f].pending = << >>
        BY <1>1 DEF RecordSound
    <1>5. ~file[f].writes => Flushed(f) = TextOf(f)
        BY <1>4, FlushedTyped
    <1> QED
        BY <1>2, <1>3, <1>4, <1>5 DEF PlainHost, PlaceSound

\* A file that reads is at its end when it says so.
LEMMA MovePlace ==
    ASSUME Keeps("written_alone"), HostInv, PlainHost, NEW f \in Open, Moves(f), UNCHANGED <<directory, texts, said>>
    PROVE  PlainHost'
    <1>1. PICK r : Updates(f, r, TextOf(f), said[f].text)
        BY MoveUpdates
    <1>2. file'[f] = r /\ r.writes = file[f].writes
        <2>1. file'[f] = r
            BY <1>1, AfterUpdate
        <2>2. r.writes = file[f].writes
            BY <1>1 DEF Updates, SameFile
        <2> QED
            BY <2>1, <2>2
    <1>3. /\ f \in Files /\ file \in [Files -> Records \cup {None}] /\ file[f] \in Records
          /\ file[f].position \in Nat /\ TextOf(f) \in PlainTexts /\ Len(TextOf(f)) \in Nat
          /\ ~file[f].writes => /\ file[f].position <= Len(TextOf(f))
                                /\ file[f].eof => file[f].position = Len(TextOf(f))
          /\ file[f].pending # << >> /\ ~file[f].appends =>
                  file[f].position - Len(file[f].pending) <= Len(TextOf(f))
        BY OpenFacts, PlainFacts DEF HostInv, Typed, PlainHost, NoGap, PlainTexts
    <1>4. CASE file' = file
        <2>1. r = file[f]
            BY <1>2, <1>4
        <2> QED
            BY <1>1, <1>3, <2>1, UpdatePlain
    <1>5. ASSUME NEW n \in 0..Len(Ahead(f)), NEW eof \in BOOLEAN, Readable(f),
                 file' = Advanced(f, n, eof), eof => n = Len(Ahead(f))
          PROVE  PlainHost'
        <2>1. file[f].pending = << >>
            BY <1>5, OpenFacts DEF Readable, RecordSound
        <2>2. r.pending = << >> /\ r.position = file[f].position + n /\ r.eof = eof
            BY <1>2, <1>3, <1>5, <2>1 DEF Advanced, Records
        <2>3. Len(Ahead(f)) = IF file[f].position <= Len(TextOf(f))
                              THEN Len(TextOf(f)) - file[f].position ELSE 0
            BY AheadTyped
        <2>4. ~r.writes => r.position <= Len(TextOf(f)) /\ (r.eof => r.position = Len(TextOf(f)))
            BY <1>2, <1>3, <1>5, <2>2, <2>3
        <2> QED
            BY <1>1, <1>3, <2>2, <2>4, UpdatePlain
    <1> QED
        BY <1>4, <1>5 DEF Moves

\* A text without NUL is written: the disk gets no NUL.
LEMMA WrotePlain ==
    ASSUME HostInv, PlainHost, NEW f \in Open, NEW text \in PlainTexts, Wrote(f, text), Keeps("no_nul"),
           Keeps("written_alone")
    PROVE  PlainHost'
    <1> DEFINE q == file[f]
    <1>1. /\ q \in Records /\ q.position \in Nat /\ q.pending \in PlainTexts /\ Len(q.pending) \in Nat
          /\ TextOf(f) \in PlainTexts /\ Len(text) \in Nat /\ Len(TextOf(f)) \in Nat
          /\ RecordSound(q)
          /\ q.pending # << >> /\ ~q.appends => q.position - Len(q.pending) <= Len(TextOf(f))
          /\ ~q.writes => /\ q.pending = << >> /\ q.position <= Len(TextOf(f))
        BY OpenFacts, PlainFacts DEF PlainHost, NoGap, PlainTexts
    <1>2. CASE q.writes
        <2> DEFINE r == WrittenRecord(f, text)
        <2>1. Updates(f, r, TextOf(f), WrittenText(f, text)) /\ PlaceOf(f) <= Len(Flushed(f))
            BY <1>2, WroteUpdates
        <2>2. /\ r.pending = q.pending \o text /\ r.position = PlaceOf(f) + Len(text)
              /\ r.appends = q.appends /\ r.writes = q.writes
            BY <1>1 DEF WrittenRecord, Records
        <2>3. Len(r.pending) = Len(q.pending) + Len(text)
            BY <1>1, <2>2 DEF PlainTexts
        <2> HIDE DEF r
        <2>4. ~q.appends => r.position - Len(r.pending) <= Len(TextOf(f))
            <3>1. ~q.appends => PlaceOf(f) = q.position
                BY DEF PlaceOf
            <3>2. CASE q.pending = << >>
                <4>1. Flushed(f) = TextOf(f) /\ Len(q.pending) = 0
                    BY <3>2, FlushedTyped
                <4> QED
                    BY <1>1, <2>1, <2>2, <2>3, <3>1, <4>1
            <3>3. CASE q.pending # << >>
                BY <1>1, <2>2, <2>3, <3>1, <3>3
            <3> QED
                BY <3>2, <3>3
        <2> QED
            BY <1>1, <1>2, <2>1, <2>2, <2>4, UpdatePlain
    <1>3. CASE ~q.writes
        <2> DEFINE r == [q EXCEPT !.eof = FALSE]
        <2>1. Updates(f, r, TextOf(f), said[f].text)
            BY <1>3, WroteUpdates
        <2>2. r.pending = q.pending /\ r.position = q.position /\ r.writes = q.writes /\ ~r.eof
            BY <1>1 DEF Records
        <2> HIDE DEF r
        <2> QED
            BY <1>1, <1>3, <2>1, <2>2, UpdatePlain
    <1> QED
        BY <1>2, <1>3

\* What goes out to the disk has no NUL.
LEMMA GoesOutPlain ==
    ASSUME HostInv, PlainHost, NEW f \in Open, Keeps("no_nul"), Keeps("written_alone"), NEW record \in Records,
           SameFile(record, file[f]), GoesOut(f, record),
           \/ record.position = file[f].position /\ record.eof = file[f].eof
           \/ ~record.eof /\ record.position <= Len(Flushed(f))
    PROVE  PlainHost'
    <1> DEFINE r == Emptied(record)
    <1>1. Updates(f, r, Flushed(f), said[f].text)
        BY GoesOutUpdates
    <1>2. r.pending = << >> /\ r.position = record.position /\ r.eof = record.eof /\ r.writes = file[f].writes
        BY DEF Emptied, Records, SameFile
    <1> HIDE DEF r
    <1>3. Flushed(f) \in PlainTexts
        BY PlainFacts
    <1>4. ~r.writes => /\ Flushed(f) = TextOf(f)
                       /\ r.position <= Len(Flushed(f)) /\ (r.eof => r.position = Len(Flushed(f)))
        BY <1>2, PlainFacts
    <1> QED
        BY <1>1, <1>2, <1>3, <1>4, UpdatePlain

\* RESIZE-FILE of a file that is flushed, within its text, brings no NUL.
LEMMA ResizePlain ==
    ASSUME HostInv, PlainHost, NEW f \in Open, NEW ud \in Nat, ResizeFile(f, ud),
           Keeps("no_nul"), Keeps("flushed"), Keeps("written_alone")
    PROVE  PlainHost'
    <1>1. file[f].pending = << >> /\ ud <= Len(TextOf(f))
        BY ResizeUpdates
    <1>2. CASE file[f].writes
        <2>1. Updates(f, file[f], Cut(TextOf(f), ud), Cut(said[f].text, ud))
            BY <1>2, ResizeUpdates
        <2>2. Cut(TextOf(f), ud) \in PlainTexts
            BY <1>1, PlainFacts, CutIsPlain
        <2> QED
            BY <1>1, <1>2, <2>1, <2>2, UpdatePlain
    <1>3. CASE ~file[f].writes
        <2>1. Updates(f, file[f], TextOf(f), said[f].text)
            BY <1>3, ResizeUpdates
        <2> QED
            BY <1>1, <1>3, <2>1, PlainFacts, UpdatePlain
    <1> QED
        BY <1>2, <1>3

\* The steps on the host keep texts plain and files that are read in place.
LEMMA PlainKept ==
    ASSUME LineRules, HostInv, PlainHost, HostSteps
    PROVE  PlainHost'
    <1>1. Keeps("no_nul") /\ Keeps("flushed") /\ Keeps("written_alone")
        BY DEF LineRules, Keeps
    <1>2. ASSUME NEW f, NEW i, NEW r, NEW name \in Names, OpensAs(f, i, r, name) PROVE PlainHost'
        <2>1. /\ Open' = Open \cup {f} /\ i \in Inodes /\ file'[f] = r /\ TextOf(f)' = texts'[i]
              /\ texts'[i] \in Texts
              /\ \A g \in Open : file'[g] = file[g] /\ TextOf(g)' = TextOf(g)
              /\ \A j \in Inodes \ {i} : texts'[j] = texts[j]
              /\ texts'[i] = texts[i] \/ texts'[i] = << >>
            BY <1>1, <1>2, AfterOpening
        <2>2. r.pending = << >> /\ r.position = 0 /\ ~r.eof
            BY <1>2 DEF OpensAs
        <2>3. << >> \in Seq(Chars) /\ Len(texts'[i]) \in Nat
            BY <2>1 DEF Texts
        <2>4. NoNuls'
            BY <2>1, <2>3 DEF PlainHost, NoNuls
        <2>5. NoGap'
            <3>1. \A g \in Open' : file'[g].pending # << >> /\ ~file'[g].appends =>
                      file'[g].position - Len(file'[g].pending) <= Len(TextOf(g)')
                BY <2>1, <2>2 DEF PlainHost, NoGap
            <3> QED
                BY <3>1 DEF NoGap
        <2>6. PlaceSound'
            <3>1. \A g \in Open' : ~file'[g].writes =>
                      /\ file'[g].position <= Len(TextOf(g)')
                      /\ file'[g].eof => file'[g].position = Len(TextOf(g)')
                BY <2>1, <2>2, <2>3 DEF PlainHost, PlaceSound
            <3> QED
                BY <3>1 DEF PlaceSound
        <2> QED
            BY <2>4, <2>5, <2>6 DEF PlainHost
    <1>3. ASSUME NEW f \in Open, Closed(f) PROVE PlainHost'
        <2>1. /\ Open' = Open \ {f}
              /\ \A g \in Open' : file'[g] = file[g]
              /\ \A g \in Open' : TextOf(g)' = IF file[g].inode = file[f].inode THEN Flushed(f) ELSE TextOf(g)
              /\ \A i \in Inodes : texts'[i] # None =>
                     texts'[i] = IF i = file[f].inode THEN Flushed(f) ELSE texts[i]
            BY <1>3, AfterClosing
        <2>2. Flushed(f) \in PlainTexts
            BY PlainFacts
        <2>3. NoNuls'
            BY <2>1, <2>2 DEF PlainHost, NoNuls, PlainTexts
        <2>4. \A g \in Open' : TextOf(g)' = TextOf(g)
            <3> SUFFICES ASSUME NEW g \in Open', file[g].inode = file[f].inode
                         PROVE  Flushed(f) = TextOf(g)
                BY <2>1
            <3>1. ~file[f].writes /\ TextOf(g) = TextOf(f)
                BY <1>1, <2>1 DEF HostInv, Exclusive, TextOf
            <3> QED
                BY <3>1, PlainFacts
        <2>5. NoGap'
            <3>1. \A g \in Open' : file'[g].pending # << >> /\ ~file'[g].appends =>
                      file'[g].position - Len(file'[g].pending) <= Len(TextOf(g)')
                BY <2>1, <2>4 DEF PlainHost, NoGap
            <3> QED
                BY <3>1 DEF NoGap
        <2>6. PlaceSound'
            <3>1. \A g \in Open' : ~file'[g].writes =>
                      /\ file'[g].position <= Len(TextOf(g)')
                      /\ file'[g].eof => file'[g].position = Len(TextOf(g)')
                BY <2>1, <2>4 DEF PlainHost, PlaceSound
            <3> QED
                BY <3>1 DEF PlaceSound
        <2> QED
            BY <2>3, <2>5, <2>6 DEF PlainHost
    <1>4. CASE Renames
        <2>1. /\ Open' = Open /\ file' = file /\ \A g \in Open : TextOf(g)' = TextOf(g)
              /\ \A i \in Inodes : texts'[i] # None => texts'[i] = texts[i]
            BY <1>4, AfterRenaming
        <2> QED
            BY <2>1 DEF PlainHost, NoNuls, NoGap, PlaceSound
    <1>5. ASSUME NEW f \in Open, Moves(f), UNCHANGED <<directory, texts, said>> PROVE PlainHost'
        BY <1>1, <1>5, MovePlace
    <1>6. ASSUME NEW f \in Open, NEW length \in Nat, ReadLine(f, length) PROVE PlainHost'
        BY <1>1, <1>6, ReadLineMoves, MovePlace
    <1>7. ASSUME NEW f \in Open, NEW text \in PlainTexts, Wrote(f, text) PROVE PlainHost'
        BY <1>1, <1>7, WrotePlain
    <1>8. ASSUME NEW f \in Open, NEW ud \in Nat, Drain(f) \/ FlushFile(f) \/ RepositionFile(f, ud)
          PROVE  PlainHost'
        BY <1>1, <1>8, BufferGoesOut, GoesOutPlain
    <1>9. ASSUME NEW f \in Open, NEW ud \in Nat, ResizeFile(f, ud) PROVE PlainHost'
        BY <1>1, <1>9, ResizePlain
    <1>10. CASE UNCHANGED <<directory, texts, file, said, lines>>
        BY <1>10 DEF PlainHost, NoNuls, NoGap, PlaceSound, Open, TextOf
    <1> QED
        BY <1>2, <1>3, <1>4, <1>5, <1>6, <1>7, <1>8, <1>9, <1>10 DEF HostSteps

\* A sequence behind another.
LEMMA Joined ==
    ASSUME NEW S, NEW s \in Seq(S), NEW u \in Seq(S)
    PROVE  /\ s \o u \in Seq(S) /\ Len(s \o u) = Len(s) + Len(u)
           /\ \A i \in 1..Len(s) + Len(u) : (s \o u)[i] = IF i <= Len(s) THEN s[i] ELSE u[i - Len(s)]
    OBVIOUS

\* Without NULs all of a text is shown, and a newline at its end is taken off.
LEMMA PlainShown ==
    ASSUME NEW text \in PlainTexts
    PROVE  Shown(text) = text
    BY TextsAssumption DEF Shown, PlainTexts

\* A piece of a text that begins behind a place.
LEMMA SliceBehind ==
    ASSUME NEW t \in PlainTexts, NEW from \in Nat, NEW n \in Nat, from <= n, n <= Len(t)
    PROVE  /\ SubSeq(t, from + 1, n) \in PlainTexts /\ Len(SubSeq(t, from + 1, n)) = n - from
           /\ \A i \in 1..n - from : SubSeq(t, from + 1, n)[i] = t[from + i]
    <1> DEFINE m == from + 1
               b == SubSeq(t, m, n)
    <1>1. t \in Seq(Chars) /\ m \in Nat \ {0} /\ n \in Int
        BY DEF PlainTexts
    <1> HIDE DEF m
    <1>2. /\ b \in Seq(Chars) /\ Len(b) = (IF m <= n THEN n - m + 1 ELSE 0)
          /\ \A i \in 1..n - m + 1 : b[i] = t[m + i - 1]
        BY <1>1, Slice
    <1> HIDE DEF b
    <1>3. Len(b) = n - from /\ n - m + 1 = n - from
        BY <1>2 DEF m
    <1>4. \A i \in 1..n - from : b[i] = t[from + i]
        BY <1>2, <1>3 DEF m
    <1> QED
        BY <1>2, <1>3, <1>4 DEF b, m, PlainTexts

\* The text got lies in t behind the place at.
LiesIn(got, t, at) == \A i \in 1..Len(got) : got[i] = t[at + i]
\* b is a and got behind it.
Makes(a, got, b) == b = a \o got

\* A piece of a text and what lies behind it.
LEMMA SlicesJoin ==
    ASSUME NEW t \in PlainTexts, NEW from \in Nat, NEW at \in Nat, from <= at,
           NEW got \in PlainTexts, LiesIn(got, t, at),
           NEW last \in Nat, last = at + Len(got), last <= Len(t)
    PROVE  /\ SubSeq(t, from + 1, at) \in PlainTexts
           /\ SubSeq(t, from + 1, last) \in PlainTexts
           /\ Makes(SubSeq(t, from + 1, at), got, SubSeq(t, from + 1, last))
    <1> DEFINE n == Len(got)
               a == SubSeq(t, from + 1, at)
               b == SubSeq(t, from + 1, last)
    <1>1. /\ n \in Nat /\ last \in Nat /\ last = at + n /\ at <= Len(t) /\ from <= last /\ last <= Len(t)
          /\ got \in Seq(Chars) /\ \A i \in 1..n : got[i] = t[at + i]
        BY DEF PlainTexts, LiesIn
    <1>2. a \in PlainTexts /\ Len(a) = at - from /\ \A i \in 1..at - from : a[i] = t[from + i]
        BY <1>1, SliceBehind
    <1>3. b \in PlainTexts /\ Len(b) = last - from /\ \A i \in 1..last - from : b[i] = t[from + i]
        BY <1>1, SliceBehind
    <1>4. a \in Seq(Chars) /\ b \in Seq(Chars)
        BY <1>2, <1>3 DEF PlainTexts
    <1> HIDE DEF a, b
    <1>5. Len(b) = at - from + n
        BY <1>1, <1>3
    <1>8. /\ a \o got \in Seq(Chars) /\ Len(a \o got) = Len(a) + n
          /\ \A i \in 1..Len(a) + n : (a \o got)[i] = IF i <= Len(a) THEN a[i] ELSE got[i - Len(a)]
        <2>1. a \in Seq(Chars) /\ got \in Seq(Chars)
            BY <1>1, <1>4
        <2> QED
            BY <2>1, Joined
    <1>9. Len(b) = Len(a \o got)
        BY <1>2, <1>5, <1>8
    <1>10. ASSUME NEW i \in 1..Len(b) PROVE b[i] = (a \o got)[i]
        <2>1. i \in Nat /\ i >= 1 /\ i <= at - from + n /\ i \in 1..Len(a) + n /\ i \in 1..last - from
            BY <1>1, <1>2, <1>5
        <2>2. CASE i <= Len(a)
            <3>1. i \in 1..at - from
                BY <2>1, <2>2, <1>2
            <3> QED
                BY <2>1, <2>2, <3>1, <1>2, <1>3, <1>8
        <2>3. CASE ~(i <= Len(a))
            <3>1. i - Len(a) \in 1..n /\ at + (i - Len(a)) = from + i
                BY <2>1, <2>3, <1>1, <1>2
            <3>2. got[i - Len(a)] = t[from + i]
                BY <1>1, <3>1
            <3> QED
                BY <2>1, <2>3, <3>2, <1>3, <1>8
        <2> QED
            BY <2>2, <2>3
    <1>11. b = a \o got
        BY <1>4, <1>8, <1>9, <1>10, SameSequence
    <1> QED
        BY <1>2, <1>3, <1>11 DEF a, b, Makes

\* A line end taken off and a newline put behind.
LEMMA NewlineBehind ==
    ASSUME NEW got \in PlainTexts, got # << >>
    PROVE  /\ Front(got) \o <<"\n">> \in PlainTexts /\ Len(Front(got) \o <<"\n">>) = Len(got)
           /\ Len(Front(got)) = Len(got) - 1
           /\ \A i \in 1..Len(got) : (Front(got) \o <<"\n">>)[i] = IF i = Len(got) THEN "\n" ELSE got[i]
    <1> DEFINE h == Front(got)
               n == <<"\n">>
    <1>1. got \in Seq(Chars) /\ "\n" \in Chars /\ Len(got) \in Nat /\ Len(got) # 0
        BY TextsAssumption DEF PlainTexts
    <1>2. h \in Seq(Chars) /\ Len(h) = Len(got) - 1 /\ \A i \in 1..Len(got) - 1 : h[i] = got[i]
        BY <1>1, FrontIsPrefix
    <1>3. n \in Seq(Chars) /\ Len(n) = 1 /\ n[1] = "\n"
        BY <1>1
    <1> HIDE DEF h, n
    <1>4. /\ h \o n \in Seq(Chars) /\ Len(h \o n) = Len(h) + Len(n)
          /\ \A i \in 1..Len(h) + Len(n) : (h \o n)[i] = IF i <= Len(h) THEN h[i] ELSE n[i - Len(h)]
        BY <1>2, <1>3, Joined
    <1>5. \A i \in 1..Len(got) : (h \o n)[i] = IF i = Len(got) THEN "\n" ELSE got[i]
        BY <1>1, <1>2, <1>3, <1>4
    <1>6. h \o n \in PlainTexts /\ Len(h \o n) = Len(got)
        BY <1>1, <1>2, <1>3, <1>4 DEF PlainTexts
    <1> QED
        BY <1>2, <1>5, <1>6 DEF h, n

\* One text behind another.
LEMMA JoinedTexts ==
    ASSUME NEW a \in Texts, NEW b \in Texts, NEW ab, Makes(a, b, ab)
    PROVE  /\ ab \in Texts /\ Len(ab) = Len(a) + Len(b)
           /\ \A i \in 1..Len(a) + Len(b) : ab[i] = IF i <= Len(a) THEN a[i] ELSE b[i - Len(a)]
    BY Joined DEF Texts, Makes

\* Three texts behind one another, the last two without NULs.
LEMMA JoinedThrice ==
    ASSUME NEW a \in Texts, NEW b \in PlainTexts, NEW c \in PlainTexts, NEW bc, Makes(b, c, bc)
    PROVE  /\ bc \in PlainTexts /\ Makes(a, bc, a \o b \o c)
           /\ Len(bc) = Len(b) + Len(c)
           /\ \A i \in 1..Len(b) : bc[i] = b[i]
           /\ \A i \in 1..Len(c) : bc[Len(b) + i] = c[i]
    <1> DEFINE S == Chars \cup {"nul"}
    <1>1. a \in Seq(S) /\ b \in Seq(S) /\ c \in Seq(S)
        BY PlainIsText DEF Texts
    <1> HIDE DEF S
    <1>2. (a \o b) \o c = a \o (b \o c)
        BY <1>1, ConcatAssociative
    <1>3. b \in Seq(Chars) /\ c \in Seq(Chars) /\ bc = b \o c
        BY DEF PlainTexts, Makes
    <1>4. /\ bc \in Seq(Chars) /\ Len(bc) = Len(b) + Len(c)
          /\ \A i \in 1..Len(b) + Len(c) : bc[i] = IF i <= Len(b) THEN b[i] ELSE c[i - Len(b)]
        BY <1>3, Joined
    <1>5. Len(b) \in Nat /\ Len(c) \in Nat
        BY <1>3
    <1>6. \A i \in 1..Len(b) : bc[i] = b[i]
        BY <1>4, <1>5
    <1>7. \A i \in 1..Len(c) : bc[Len(b) + i] = c[i]
        BY <1>4, <1>5
    <1> QED
        BY <1>2, <1>3, <1>4, <1>6, <1>7 DEF PlainTexts, Makes

\* What was read behind the place at is brought as it is, but for a carriage
\* return where a piece ended.
Brings(got, brought, at, ends) ==
    \A i \in 1..Len(got) : \/ brought[i] = got[i]
                           \/ got[i] = "\r" /\ brought[i] = "\n" /\ at + i \in ends

\* What the pieces said, with what a piece more brings behind it, says as the
\* file does a piece further on.
LEMMA SaysFurther ==
    ASSUME NEW glued \in Texts, NEW read \in PlainTexts, NEW ends \in SUBSET Nat, SaysAs(glued, read, ends),
           Len(glued) = Len(read), NEW got \in PlainTexts, NEW brought \in PlainTexts,
           Len(got) <= Len(brought),
           NEW whole, Makes(glued, brought, whole), NEW now, Makes(read, got, now),
           NEW more, ends \subseteq more, Brings(got, brought, Len(read), more)
    PROVE  /\ SaysAs(whole, now, more)
           /\ Len(whole) = Len(read) + Len(brought) /\ Len(now) = Len(read) + Len(got)
           /\ Len(brought) # 0 => Last(whole) = brought[Len(brought)]
    <1>1. /\ Len(glued) \in Nat /\ Len(brought) \in Nat /\ Len(got) \in Nat /\ Len(read) \in Nat
        BY DEF PlainTexts, Texts
    <1>2. /\ Len(whole) = Len(glued) + Len(brought)
          /\ \A i \in 1..Len(glued) + Len(brought) :
                whole[i] = IF i <= Len(glued) THEN glued[i] ELSE brought[i - Len(glued)]
        BY PlainIsText, JoinedTexts
    <1>3. /\ Len(now) = Len(read) + Len(got)
          /\ \A i \in 1..Len(read) + Len(got) : now[i] = IF i <= Len(read) THEN read[i] ELSE got[i - Len(read)]
        BY PlainIsText, JoinedTexts
    <1>4. ASSUME NEW i \in 1..Len(read) + Len(got)
          PROVE  whole[i] = now[i] \/ (now[i] = "\r" /\ whole[i] = "\n" /\ i \in more)
        <2>1. now[i] = IF i <= Len(read) THEN read[i] ELSE got[i - Len(read)]
            BY <1>3
        <2>2. whole[i] = IF i <= Len(read) THEN glued[i] ELSE brought[i - Len(read)]
            BY <1>1, <1>2
        <2>3. CASE i <= Len(read)
            <3>1. i \in 1..Len(read)
                BY <1>1, <2>3
            <3>2. glued[i] = read[i] \/ (read[i] = "\r" /\ glued[i] = "\n" /\ i \in more)
                BY <3>1 DEF SaysAs
            <3> QED
                BY <2>1, <2>2, <2>3, <3>2
        <2>4. CASE ~(i <= Len(read))
            <3> DEFINE k == i - Len(read)
            <3>1. k \in 1..Len(got) /\ Len(read) + k = i
                BY <1>1, <2>4
            <3> HIDE DEF k
            <3>2. brought[k] = got[k] \/ (got[k] = "\r" /\ brought[k] = "\n" /\ i \in more)
                BY <3>1 DEF Brings
            <3> QED
                BY <2>1, <2>2, <2>4, <3>2 DEF k
        <2> QED
            BY <2>3, <2>4
    <1>5. SaysAs(whole, now, more)
        BY <1>3, <1>4 DEF SaysAs
    <1>6. Len(brought) # 0 => Last(whole) = brought[Len(brought)]
        BY <1>1, <1>2 DEF Last
    <1> QED
        BY <1>2, <1>3, <1>5, <1>6

\* The last character of a text with another behind it.
LEMMA JoinEnds ==
    ASSUME NEW a \in PlainTexts, NEW got \in PlainTexts, got # << >>
    PROVE  a \o got # << >> /\ Last(a \o got) = Last(got)
    <1>1. a \in Seq(Chars) /\ got \in Seq(Chars)
        BY DEF PlainTexts
    <1>2. Len(got) \in Nat /\ Len(got) # 0 /\ Len(a) \in Nat
        BY <1>1
    <1>3. Len(a \o got) = Len(a) + Len(got) /\ (a \o got)[Len(a) + Len(got)] = got[Len(got)]
        BY <1>1, <1>2
    <1>4. a \o got # << >>
        BY <1>1, <1>2, <1>3
    <1> QED
        BY <1>3, <1>4 DEF Last

\* READ-LINE: the piece it brings, and the newline of a short one, are what
\* lies between the old place and the new one.
LEMMA ReadLineLines ==
    ASSUME LineRules, HostInv, PlainHost, LinesSound, NEW f \in Open, NEW length \in Nat,
           ReadLine(f, length)
    PROVE  LinesSound'
    <1> DEFINE got   == Got(Ahead(f), length)
               shown == Shown(got)
               piece == Stripped(shown)
               since == IF lines.file = f THEN lines ELSE [NoLines EXCEPT !.file = f, !.from = file[f].position]
               short == Len(piece) < length - 1
               atEnd == got = Ahead(f) /\ Len(got) < length - 1 /\ (got = << >> \/ Last(got) # "\n")
               added == IF short /\ shown # << >> THEN <<"\n">> ELSE << >>
               glued == since.glued \o piece \o added
               q     == file[f]
               t     == TextOf(f)
               p     == q.position
    <1>1. /\ length >= 2 /\ ~q.writes /\ texts' = texts
          /\ IF q.eof
             THEN lines' = [since EXCEPT !.flag = FALSE] /\ file' = file
             ELSE IF ~q.reads THEN file' = file /\ lines' = lines
             ELSE /\ file' = Advanced(f, Len(got), atEnd)
                  /\ lines' = [since EXCEPT !.flag = shown # << >>, !.glued = glued,
                                            !.ends = @ \union {Len(glued)}]
        BY DEF ReadLine, LineRules, Keeps
    <1>2. /\ f \in Files /\ f # None /\ p \in Nat /\ t \in PlainTexts /\ Len(t) \in Nat
          /\ p <= Len(t) /\ (q.eof => p = Len(t)) /\ lines \in LineRecords
          /\ Ahead(f) \in PlainTexts /\ Len(Ahead(f)) = Len(t) - p
          /\ \A i \in 1..Len(t) - p : Ahead(f)[i] = t[p + i]
          /\ q \in Records /\ file \in [Files -> Records \cup {None}]
        BY <1>1, OpenFacts, PlainFacts, AheadTyped, NoneAssumption DEF HostInv, Typed, PlainTexts
    <1>3. /\ since \in LineRecords /\ since.file = f /\ LinesAre(since, q, t)
        <2>1. CASE lines.file = f
            BY <1>2, <2>1 DEF LinesSound
        <2>2. CASE lines.file # f
            <3> DEFINE l == [NoLines EXCEPT !.file = f, !.from = p]
            <3>1. NoLines \in LineRecords /\ NoLines.glued = << >> /\ NoLines.flag = TRUE
                BY DEF NoLines, LineRecords, Texts
            <3>2. SubSeq(t, p + 1, p) = << >> /\ Len(<< >>) = 0
                BY <1>2 DEF PlainTexts
            <3>3. l \in LineRecords /\ l.file = f /\ l.from = p /\ l.glued = << >> /\ l.flag = TRUE
                <4> HIDE DEF p
                <4> QED
                    BY <1>2, <3>1 DEF LineRecords
            <3>4. since = l
                BY <2>2
            <3> HIDE DEF l, q, t
            <3>5. LinesAre(l, q, t)
                <4> DEFINE read == SubSeq(t, l.from + 1, q.position)
                <4>1. read = << >> /\ Len(read) = 0 /\ Len(l.glued) = 0
                    BY <3>2, <3>3
                <4> HIDE DEF read
                <4>2. SaysAs(l.glued, read, l.ends)
                    BY <4>1 DEF SaysAs
                <4>3. ~q.writes /\ l.from <= q.position /\ l.flag
                    BY <1>1, <1>2, <3>3
                <4> QED
                    BY <4>1, <4>2, <4>3 DEF LinesAre, read
            <3> QED
                BY <3>3, <3>4, <3>5
        <2> QED
            BY <2>1, <2>2
    <1> HIDE DEF since
    <1>4. CASE q.eof
        <2> DEFINE l == [since EXCEPT !.flag = FALSE]
        <2>1. l.file = f /\ l.from = since.from /\ l.glued = since.glued /\ l.flag = FALSE /\ l.ends = since.ends
            BY <1>3 DEF LineRecords
        <2>2. lines' = l /\ file' = file /\ texts' = texts
            BY <1>1, <1>4
        <2> HIDE DEF l, q, t
        <2>3. LinesAre(l, q, t)
            BY <1>2, <1>3, <1>4, <2>1 DEF LinesAre
        <2> QED
            BY <2>1, <2>2, <2>3 DEF LinesSound, TextOf, q, t
    <1>5. CASE ~q.eof /\ ~q.reads
        BY <1>1, <1>5 DEF LinesSound, TextOf
    <1>6. CASE ~q.eof /\ q.reads
        <2> DEFINE n == Len(got)
                   r == [q EXCEPT !.position = p + n, !.eof = atEnd,
                                  !.turn = IF atEnd THEN "either" ELSE "reads"]
                   l == [since EXCEPT !.flag = shown # << >>, !.glued = glued, !.ends = @ \union {Len(glued)}]
                   read == SubSeq(t, since.from + 1, p)
                   now  == SubSeq(t, since.from + 1, p + n)
        <2>1. file' = [file EXCEPT ![f] = r] /\ lines' = l
            BY <1>1, <1>2, <1>6 DEF Advanced
        <2>2. /\ r.position = p + n /\ r.eof = atEnd /\ r.inode = q.inode /\ r.writes = q.writes
            BY <1>2 DEF Records
        <2>3. /\ l.file = f /\ l.from = since.from /\ l.flag = (shown # << >>)
              /\ l.glued = glued /\ l.ends = since.ends \union {Len(glued)}
              /\ since.glued \in Texts /\ since.ends \in SUBSET Nat
            BY <1>3 DEF LineRecords
        <2>4. file'[f] = r /\ TextOf(f)' = t
            <3>1. file'[f] = r
                BY <1>2, <2>1
            <3> QED
                BY <1>1, <2>2, <3>1 DEF TextOf
        <2> HIDE DEF r, l
        <2>5. /\ got \in PlainTexts /\ n \in Nat /\ n <= Len(t) - p /\ n <= length - 1
              /\ \A i \in 1..n : got[i] = t[p + i]
              /\ \/ n = Len(Ahead(f)) \/ n >= length - 1 \/ (got # << >> /\ Last(got) = "\n")
            <3>1. /\ got \in Seq(Chars) /\ n <= Len(Ahead(f)) /\ \A i \in 1..n : got[i] = Ahead(f)[i]
                  /\ length >= 1 => n <= length - 1
                  /\ \/ n = Len(Ahead(f)) \/ n >= length - 1 \/ (got # << >> /\ Last(got) = "\n")
                <4>1. Ahead(f) \in Seq(Chars)
                    BY <1>2 DEF PlainTexts
                <4> QED
                    BY <4>1, GotIsPrefix
            <3> HIDE DEF got
            <3>2. n \in Nat
                BY <3>1
            <3>3. \A i \in 1..n : i \in 1..Len(t) - p
                BY <1>2, <3>1, <3>2
            <3> QED
                BY <1>1, <1>2, <3>1, <3>2, <3>3 DEF PlainTexts
        <2> HIDE DEF got
        <2>6. shown = got
            BY <2>5, PlainShown
        <2>7. n = Len(Ahead(f)) => got = Ahead(f)
            <3>1. \A i \in 1..n : n = Len(Ahead(f)) => got[i] = Ahead(f)[i]
                BY <1>2, <2>5
            <3>2. got \in Seq(Chars) /\ Ahead(f) \in Seq(Chars)
                BY <1>2, <2>5 DEF PlainTexts
            <3> QED
                BY <3>1, <3>2, SameSequence
        <2>8. since.from \in Nat /\ since.from <= p
            BY <1>3 DEF LineRecords, LinesAre
        <2>9. Len(since.glued) = Len(read) /\ SaysAs(since.glued, read, since.ends)
            BY <1>3, <1>6 DEF LinesAre
        <2>10. read \in PlainTexts /\ now \in PlainTexts /\ now = read \o got
            <3>1. p + n <= Len(t)
                BY <1>2, <2>5
            <3>2. Len(got) = n
                OBVIOUS
            <3> HIDE DEF t, p, n
            <3>3. /\ SubSeq(t, since.from + 1, p) \in PlainTexts
                  /\ SubSeq(t, since.from + 1, p + n) \in PlainTexts
                  /\ SubSeq(t, since.from + 1, p + n) = SubSeq(t, since.from + 1, p) \o got
                <4> DEFINE from == since.from
                           last == p + n
                <4>1. t \in PlainTexts /\ from \in Nat /\ p \in Nat /\ from <= p
                    BY <1>2, <2>8
                <4>2. got \in PlainTexts /\ LiesIn(got, t, p)
                    BY <2>5, <3>2 DEF LiesIn
                <4>3. last = p + Len(got) /\ last <= Len(t) /\ last \in Nat
                    BY <1>2, <2>5, <3>1, <3>2
                <4> HIDE DEF from, last
                <4>4. /\ SubSeq(t, from + 1, p) \in PlainTexts
                      /\ SubSeq(t, from + 1, last) \in PlainTexts
                      /\ Makes(SubSeq(t, from + 1, p), got, SubSeq(t, from + 1, last))
                    BY <4>1, <4>2, <4>3, SlicesJoin
                <4> QED
                    BY <4>4 DEF from, last, Makes
            <3> QED
                BY <3>3
        <2> HIDE DEF read, now, n
        <2>11. got = << >> <=> n = 0
            BY <2>5 DEF n, PlainTexts
        <2> DEFINE brought == piece \o added
        <2>12. /\ brought \in PlainTexts /\ piece \in PlainTexts /\ glued = since.glued \o brought
               /\ Len(got) <= Len(brought)
               /\ \A i \in 1..Len(got) : \/ brought[i] = got[i]
                                         \/ got[i] = "\r" /\ brought[i] = "\n" /\ i = Len(brought)
               /\ \/ Len(brought) = Len(got)
                  \/ /\ atEnd /\ got # << >> /\ Last(got) \notin {"\r", "\n"}
                     /\ Len(brought) = Len(got) + 1 /\ brought[Len(brought)] = "\n"
            <3>1. got \in Seq(Chars) /\ Len(got) = n /\ <<"\n">> \in Seq(Chars) /\ << >> \in Seq(Chars)
                BY <2>5, TextsAssumption DEF PlainTexts, n
            <3>2. piece \in PlainTexts /\ added \in PlainTexts
                BY <2>6, <3>1, PieceTyped DEF PlainTexts
            <3>3. /\ brought \in PlainTexts /\ glued = since.glued \o brought
                  /\ Len(brought) = Len(piece) + Len(added)
                  /\ \A i \in 1..Len(piece) : brought[i] = piece[i]
                  /\ \A i \in 1..Len(added) : brought[Len(piece) + i] = added[i]
                <4> HIDE DEF piece, added
                <4> DEFINE g == since.glued
                <4>1. g \in Texts /\ Makes(piece, added, brought) /\ glued = g \o piece \o added
                    BY <2>3 DEF Makes
                <4> HIDE DEF g, glued, brought
                <4>2. /\ brought \in PlainTexts /\ Makes(g, brought, g \o piece \o added)
                      /\ Len(brought) = Len(piece) + Len(added)
                      /\ \A i \in 1..Len(piece) : brought[i] = piece[i]
                      /\ \A i \in 1..Len(added) : brought[Len(piece) + i] = added[i]
                    BY <3>2, <4>1, JoinedThrice
                <4> QED
                    BY <4>1, <4>2 DEF g, Makes
            <3>4. CASE got = << >>
                <4>1. piece = << >> /\ added = << >>
                    BY <2>6, <3>4 DEF Stripped
                <4> HIDE DEF piece, added
                <4> QED
                    BY <3>2, <3>3, <3>4, <4>1
            <3>5. CASE got # << >> /\ Last(got) \in {"\r", "\n"}
                <4>1. piece = Front(got) /\ Last(got) = got[Len(got)]
                    BY <2>6, <3>5 DEF Stripped, Last
                <4>2. /\ brought = Front(got) \o added /\ Len(Front(got)) = n - 1
                      /\ Len(Front(got) \o <<"\n">>) = n
                      /\ \A i \in 1..n : (Front(got) \o <<"\n">>)[i] = IF i = n THEN "\n" ELSE got[i]
                    BY <2>5, <3>1, <3>5, <4>1, NewlineBehind
                <4>3. added = <<"\n">>
                    BY <2>5, <2>6, <3>5, <4>1, <4>2
                <4> HIDE DEF piece, added, brought
                <4>4. /\ Len(brought) = n
                      /\ \A i \in 1..n : brought[i] = IF i = n THEN "\n" ELSE got[i]
                    BY <4>2, <4>3
                <4>5. got[n] \in {"\r", "\n"}
                    BY <3>1, <3>5, <4>1
                <4>6. ASSUME NEW i \in 1..Len(got)
                      PROVE  \/ brought[i] = got[i]
                             \/ got[i] = "\r" /\ brought[i] = "\n" /\ i = Len(brought)
                    BY <3>1, <4>4, <4>5
                <4> QED
                    BY <2>5, <3>1, <3>2, <3>3, <4>4, <4>6
            <3>6. CASE got # << >> /\ Last(got) \notin {"\r", "\n"}
                <4>1. piece = got
                    BY <2>6, <3>6 DEF Stripped
                <4> HIDE DEF piece
                <4>2. CASE short
                    <5>1. added = <<"\n">>
                        BY <2>6, <3>6, <4>2
                    <5>2. n < length - 1
                        BY <4>1, <4>2 DEF n
                    <5>3. atEnd
                        BY <1>1, <2>5, <2>7, <3>6, <5>2 DEF n
                    <5> HIDE DEF added, atEnd, brought
                    <5>4. /\ Len(brought) = Len(got) + 1 /\ brought[Len(got) + 1] = "\n"
                          /\ \A i \in 1..Len(got) : brought[i] = got[i]
                        <6>1. Len(added) = 1 /\ added[1] = "\n"
                            BY <5>1
                        <6> QED
                            BY <2>5, <3>1, <3>3, <4>1, <6>1
                    <5> QED
                        BY <2>5, <3>1, <3>2, <3>3, <3>6, <5>3, <5>4
                <4>3. CASE ~short
                    <5>1. added = << >>
                        BY <4>3
                    <5>2. brought = got
                        BY <3>1, <4>1, <5>1
                    <5> HIDE DEF brought, added, glued, short, atEnd
                    <5> QED
                        BY <2>5, <3>1, <3>2, <3>3, <5>2
                <4> QED
                    BY <4>2, <4>3
            <3> QED
                BY <3>4, <3>5, <3>6
        <2> HIDE DEF glued, brought, piece, added, short, atEnd
        <2>15. /\ SaysAs(glued, now, l.ends)
               /\ \/ Len(glued) = Len(now)
                  \/ /\ atEnd /\ now # << >> /\ Last(now) \notin {"\r", "\n"}
                     /\ Len(glued) = Len(now) + 1 /\ Last(glued) = "\n"
            <3> DEFINE g == since.glued
                       ends == since.ends
                       more == l.ends
            <3>1. /\ g \in Texts /\ ends \in SUBSET Nat /\ SaysAs(g, read, ends) /\ Len(g) = Len(read)
                  /\ Makes(g, brought, glued) /\ more = ends \union {Len(glued)}
                BY <2>3, <2>9, <2>12 DEF Makes
            <3> HIDE DEF g, ends, more
            <3>2. Len(glued) = Len(read) + Len(brought)
                <4>1. g \in Texts /\ brought \in Texts /\ Makes(g, brought, glued) /\ Len(g) = Len(read)
                    BY <2>12, <3>1, PlainIsText
                <4>2. Len(glued) = Len(g) + Len(brought)
                    BY <4>1, JoinedTexts
                <4> QED
                    BY <4>1, <4>2
            <3>3. /\ SaysAs(glued, now, more)
                  /\ Len(now) = Len(read) + Len(got)
                  /\ Len(brought) # 0 => Last(glued) = brought[Len(brought)]
                <4>1. Brings(got, brought, Len(read), more)
                    BY <2>12, <3>1, <3>2 DEF Brings
                <4>2. read \in PlainTexts /\ got \in PlainTexts /\ Makes(read, got, now)
                      /\ brought \in PlainTexts /\ Len(got) <= Len(brought)
                    BY <2>5, <2>10, <2>12 DEF Makes
                <4>3. ends \subseteq more
                    BY <3>1
                <4> QED
                    BY <3>1, <4>1, <4>2, <4>3, SaysFurther
            <3>4. got # << >> => now # << >> /\ Last(now) = Last(got)
                BY <2>5, <2>10, JoinEnds
            <3>5. Len(got) \in Nat /\ Len(read) \in Nat /\ Len(brought) \in Nat
                BY <2>5, <2>10, <2>12 DEF PlainTexts
            <3> QED
                BY <2>12, <3>2, <3>3, <3>4, <3>5 DEF more
        <2>13. ~l.flag => p + n = Len(t)
            <3> SUFFICES ASSUME ~l.flag PROVE p + n = Len(t)
                OBVIOUS
            <3>1. got = << >> /\ n = 0
                BY <2>3, <2>6, <2>11
            <3> QED
                BY <1>1, <1>2, <2>5, <3>1 DEF n
        <2>14. LinesAre(l, r, t)
            <3>1. now = SubSeq(t, l.from + 1, r.position)
                BY <2>2, <2>3 DEF now
            <3>2. l.from <= r.position
                BY <1>2, <2>2, <2>3, <2>5, <2>8
            <3> QED
                BY <1>1, <2>2, <2>3, <2>13, <2>15, <3>1, <3>2 DEF LinesAre
        <2> QED
            BY <2>1, <2>3, <2>4, <2>14 DEF LinesSound
    <1> QED
        BY <1>4, <1>5, <1>6

\* The lines of a file are not changed by what happens to others.
LEMMA LinesStay ==
    ASSUME LinesSound, lines' = lines,
           lines.file # None => /\ file'[lines.file].position = file[lines.file].position
                                /\ file'[lines.file].eof = file[lines.file].eof
                                /\ file'[lines.file].writes = file[lines.file].writes
                                /\ TextOf(lines.file)' = TextOf(lines.file)
    PROVE  LinesSound'
    BY DEF LinesSound, LinesAre

\* Nor by a word of a file that has none.
LEMMA UpdateLines ==
    ASSUME Keeps("written_alone"), HostInv, PlainHost, LinesSound, NEW f \in Open, NEW r, NEW t, NEW x, Updates(f, r, t, x),
           lines'.file # None => lines' = lines,
           ~file[f].writes => t = TextOf(f),
           lines'.file = f => r.position = file[f].position /\ r.eof = file[f].eof
    PROVE  LinesSound'
    <1> SUFFICES ASSUME lines'.file # None, lines' = lines PROVE LinesSound'
        BY DEF LinesSound
    <1> DEFINE g == lines.file
    <1>1. g \in Open /\ ~file[g].writes
        BY DEF HostInv, Typed, LinesSound, LinesAre
    <1>2. /\ file'[f] = r /\ TextOf(f)' = t
          /\ \A h \in Open \ {f} : /\ file'[h] = file[h]
                                    /\ TextOf(h)' = IF file[h].inode = file[f].inode THEN t ELSE TextOf(h)
        BY AfterUpdate
    <1>3. r.writes = file[f].writes
        BY DEF Updates, SameFile
    <1>4. CASE g = f
        BY <1>1, <1>2, <1>3, <1>4, LinesStay
    <1>5. CASE g # f
        <2>1. file'[g] = file[g]
            BY <1>1, <1>2, <1>5
        <2>2. TextOf(g)' = TextOf(g)
            <3>1. CASE file[g].inode = file[f].inode
                <4>1. ~file[f].writes /\ TextOf(g) = TextOf(f)
                    BY <1>1, <1>5, <3>1 DEF HostInv, Exclusive, TextOf
                <4> QED
                    BY <1>1, <1>2, <1>5, <3>1, <4>1
            <3>2. CASE file[g].inode # file[f].inode
                BY <1>1, <1>2, <1>5, <3>2
            <3> QED
                BY <3>1, <3>2
        <2> QED
            BY <2>1, <2>2, LinesStay
    <1> QED
        BY <1>4, <1>5

\* A word that makes an end of the lines of its file leaves those of others.
LEMMA InterruptedStay ==
    ASSUME HostInv, NEW f \in Open, Interrupted(f)
    PROVE  /\ lines'.file # None => lines' = lines
           /\ lines'.file # f
    <1>1. NoLines.file = None /\ f # None
        BY NoneAssumption DEF NoLines, Open
    <1> QED
        BY <1>1 DEF Interrupted

\* The steps on the host keep the lines that were read.
LEMMA LinesKept ==
    ASSUME LineRules, HostInv, PlainHost, LinesSound, HostSteps
    PROVE  LinesSound'
    <1>0. Keeps("written_alone")
        BY DEF LineRules, Keeps
    <1>1. ASSUME NEW f, NEW i, NEW r, NEW name \in Names, OpensAs(f, i, r, name), lines' = lines
          PROVE  LinesSound'
        <2>1. \A g \in Open : file'[g] = file[g] /\ TextOf(g)' = TextOf(g)
            BY <1>0, <1>1, AfterOpening
        <2> QED
            BY <1>1, <2>1, LinesStay DEF HostInv, Typed
    <1>2. ASSUME NEW f \in Open, Closed(f) PROVE LinesSound'
        <2>1. /\ lines'.file # None => lines' = lines
              /\ lines'.file # f
            BY <1>2, InterruptedStay DEF Closed
        <2> SUFFICES ASSUME lines'.file # None, lines' = lines PROVE LinesSound'
            BY <2>1 DEF LinesSound
        <2> DEFINE g == lines.file
        <2>2. g \in Open /\ g # f
            BY <2>1 DEF HostInv, Typed
        <2>3. /\ file'[g] = file[g]
              /\ TextOf(g)' = IF file[g].inode = file[f].inode THEN Flushed(f) ELSE TextOf(g)
            BY <1>2, <2>2, AfterClosing
        <2>4. file[g].inode = file[f].inode => Flushed(f) = TextOf(g)
            <3> SUFFICES ASSUME file[g].inode = file[f].inode PROVE Flushed(f) = TextOf(g)
                OBVIOUS
            <3>1. ~file[f].writes /\ TextOf(g) = TextOf(f)
                BY <1>0, <2>2 DEF HostInv, Exclusive, TextOf
            <3> QED
                BY <3>1, PlainFacts
        <2> QED
            BY <2>3, <2>4, LinesStay
    <1>3. CASE Renames
        <2>1. file' = file /\ lines' = lines /\ \A g \in Open : TextOf(g)' = TextOf(g)
            BY <1>3, AfterRenaming
        <2> QED
            BY <2>1, LinesStay DEF HostInv, Typed
    <1>4. ASSUME NEW f \in Open, Moves(f), Interrupted(f), UNCHANGED <<directory, texts, said>>
          PROVE  LinesSound'
        BY <1>4, MoveUpdates, InterruptedStay, <1>0, UpdateLines
    <1>5. ASSUME NEW f \in Open, NEW length \in Nat, ReadLine(f, length) PROVE LinesSound'
        BY <1>5, ReadLineLines
    <1>6. ASSUME NEW f \in Open, NEW text \in PlainTexts, Wrote(f, text) PROVE LinesSound'
        <2>1. \E r, x : Updates(f, r, TextOf(f), x)
            BY <1>6, WroteUpdates
        <2>2. Interrupted(f)
            BY <1>6, WroteUpdates
        <2> QED
            BY <2>1, <2>2, InterruptedStay, <1>0, UpdateLines
    <1>7. ASSUME NEW f \in Open, NEW ud \in Nat, Drain(f) \/ FlushFile(f) \/ RepositionFile(f, ud)
          PROVE  LinesSound'
        <2>1. PICK record \in Records :
                  /\ SameFile(record, file[f]) /\ GoesOut(f, record)
                  /\ \/ /\ record.position = file[f].position /\ record.eof = file[f].eof /\ lines' = lines
                     \/ Interrupted(f)
            BY <1>7, BufferGoesOut
        <2>2. Updates(f, Emptied(record), Flushed(f), said[f].text)
            BY <2>1, GoesOutUpdates
        <2>3. Emptied(record).position = record.position /\ Emptied(record).eof = record.eof
            BY DEF Emptied, Records
        <2>4. ~file[f].writes => Flushed(f) = TextOf(f)
            BY PlainFacts
        <2>5. lines'.file # None => lines' = lines
            BY <2>1, InterruptedStay
        <2>6. lines'.file = f => /\ Emptied(record).position = file[f].position
                                 /\ Emptied(record).eof = file[f].eof
            BY <2>1, <2>3, InterruptedStay
        <2> QED
            BY <2>2, <2>4, <2>5, <2>6, <1>0, UpdateLines
    <1>8. ASSUME NEW f \in Open, NEW ud \in Nat, ResizeFile(f, ud) PROVE LinesSound'
        <2>1. \E r, t, x : Updates(f, r, t, x) /\ (~file[f].writes => t = TextOf(f))
            BY <1>8, ResizeUpdates
        <2>2. Interrupted(f)
            BY <1>8, ResizeUpdates
        <2> QED
            BY <2>1, <2>2, InterruptedStay, <1>0, UpdateLines
    <1>9. CASE UNCHANGED <<directory, texts, file, said, lines>>
        BY <1>9 DEF LinesSound, TextOf
    <1> QED
        BY <1>1, <1>2, <1>3, <1>4, <1>5, <1>6, <1>7, <1>8, <1>9 DEF HostSteps

\* No line is read at the start.
LEMMA LinesAtFirst ==
    ASSUME Init
    PROVE  PlainHost /\ LinesSound
    <1>1. PICK first \in BoundedSeq(Chars, MaxText), name \in Names, i \in Inodes :
              texts = [j \in Inodes |-> IF j = i THEN first ELSE None]
        BY DEF Init
    <1>2. first \in Seq(Chars)
        BY DEF BoundedSeq, SeqOf
    <1>3. NoNuls
        BY <1>1, <1>2 DEF NoNuls
    <1>4. Open = {} /\ lines.file = None
        BY DEF Init, Open, NoLines
    <1> QED
        BY <1>3, <1>4 DEF PlainHost, NoGap, PlaceSound, LinesSound

\* Of a file that is only read, READ-LINE brings all that lies between where
\* it began and where the file stands, in order and with a newline behind each
\* line, and says FALSE at the end only; of its characters it changes only a
\* carriage return that was the last of what one READ-LINE took, to a newline:
\* with room for a character at least, in a program that writes no NULs, no file
\* that is open twice, and keeps the rules of stdio's buffer and of sources.
THEOREM LinesComeWhole ==
    ASSUME {"room_for_a_character", "no_nul", "flushed", "plain_files",
            "written_alone", "source_left_open"} \subseteq Obligations
    PROVE  Spec => []LinesWhole
    <1> DEFINE Inv == HostInv /\ SourcesSound /\ PlainHost /\ LinesSound
    <1>1. LineRules
        BY DEF LineRules
    <1>2. Init => Inv
        BY HostAtFirst, SourcesAtFirst, LinesAtFirst
    <1>3. Inv /\ [Next]_vars => Inv'
        BY <1>1, NextHost, HostKept, SourcesKept, PlainKept, LinesKept DEF LineRules, Keeps
    <1>4. Inv => LinesWhole
        <2> SUFFICES ASSUME Inv, lines.file # None PROVE LinesWhole
            BY DEF LinesWhole
        <2>1. lines.file \in Open /\ LinesAre(lines, file[lines.file], TextOf(lines.file))
            BY DEF HostInv, Typed, LinesSound
        <2>2. file[lines.file].eof => file[lines.file].position = Len(TextOf(lines.file))
            BY <2>1 DEF PlainHost, PlaceSound, LinesAre
        <2> DEFINE f == lines.file
                   read == SubSeq(TextOf(f), lines.from + 1, file[f].position)
        <2>3. DOMAIN read = 1..Len(read)
            <3>1. f \in Open /\ TextOf(f) \in PlainTexts /\ lines.from \in Nat /\ file[f].position \in Nat
                  /\ file[f].position <= Len(TextOf(f)) /\ lines.from <= file[f].position
                BY <2>1, PlainFacts, OpenFacts DEF HostInv, Typed, LineRecords, LinesAre
            <3>2. read \in PlainTexts
                BY <3>1, SliceBehind
            <3> HIDE DEF read
            <3> QED
                BY <3>2 DEF PlainTexts
        <2> QED
            BY <2>1, <2>2, <2>3 DEF LinesWhole, LinesAre, SaysAs
    <1> HIDE DEF Inv
    <1>5. Spec => []Inv
        BY <1>2, <1>3, PTL DEF Spec
    <1> QED
        BY <1>4, <1>5, PTL
=============================================================================

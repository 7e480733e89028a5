------------------------------ MODULE FiclText ------------------------------
(***************************************************************************)
(* The text a virtual machine reads and writes: its input line and the     *)
(* words that parse it (vm.c, primitives.c), the strings and numbers these *)
(* make of it, and pictured numbers.  Strings are kept in data space from  *)
(* here on, one character or one count to an address.                      *)
(***************************************************************************)
EXTENDS FiclNumbers, TLC

CONSTANTS
    Texts,          \* the lines a host, or EVALUATE, hands over
    Delims,         \* the characters PARSE, WORD and ( parse up to
    Bases,          \* what BASE may hold
    Doubles,        \* the numbers that are pictured
    Formats, Lengths,   \* what SPRINTF is given: formats with arguments, room
    Room,           \* bound: the addresses of data space
    MaxHeld,        \* bound: the strings a program holds
    MaxPieces,      \* bound: the pieces of a line that are parsed
    Obligations     \* what the program sees to

(***************************************************************************)
(*   short_tokens    a token has less than 2^CountBits characters          *)
(*   short_strings   so has a string between quotes                        *)
(*   fresh_strings   a string from S" is not used once S", C" or TYPE has   *)
(*                   written over it                                       *)
(*   wide_fields     no width of a format is narrower than what it holds   *)
(***************************************************************************)
AllObligations == {"short_tokens", "short_strings", "fresh_strings", "wide_fields"}
Keeps(rule) == rule \in Obligations

ASSUME TextAssumption == Bases \subseteq 2..16 /\ \A b \in Bases : b \in Words /\ Room \in Nat /\ MaxHeld \in Nat /\ MaxPieces \in Nat
ASSUME ObligationsAssumption == Obligations \subseteq AllObligations

VARIABLES
    tib,            \* the input line and how much of it has been read
    taken,          \* history: the pieces of the line that were parsed
    base, compiling,
    number,         \* the last token that was read as a number, and what came of it
    bytes, here,    \* data space, and where it ends
    held,           \* the strings a program holds, and what each said at first
    printed,        \* the last output: what, and of what
    picture         \* the number being pictured

vars == <<tib, taken, base, compiling, number, bytes, here, held, printed, picture>>

Nul    == "nul"
Blanks == {" ", "\n", "\r"}
Ends   == {"\n", "\r"}          \* of a line
None   == [is |-> "none"]
Chars(from, to) == SubSeq(tib.text, from + 1, to)

-----------------------------------------------------------------------------
(* The parsers: what each takes from the rest of the line.  A piece is what  *)
(* lies between from and to; the line is read up to index then.              *)

Stop == Len(tib.text)
At(i) == tib.text[i + 1]

\* The first place from i on where a character is in set, or the end.
Find(set, i)   == CHOOSE j \in i..Stop : (j = Stop \/ At(j) \in set) /\ \A k \in i..j - 1 : At(k) \notin set
Beyond(set, i) == CHOOSE j \in i..Stop : (j = Stop \/ At(j) \notin set) /\ \A k \in i..j - 1 : At(k) \in set

After(set, i)  == IF i # Stop /\ At(i) \in set THEN i + 1 ELSE i

\* A piece: ends are the characters that end it, of which delims are read.
Piece(from, to, index, ends, delims) ==
    [from |-> from, to |-> to, index |-> index, ends |-> ends, delims |-> delims]

\* ficlVmGetWord0.
GetWord0 ==
    LET from == Beyond(Blanks, tib.index)  to == Find(Blanks, from)
    IN Piece(from, to, After(Blanks, to), Blanks, Blanks)

\* Faulty: the end of a line is no end.
ParseStringExLines(delim, skip) ==
    LET from == IF skip THEN Beyond({delim}, tib.index) ELSE tib.index
        to   == Find({delim}, from)
    IN Piece(from, to, After({delim}, to), {delim} \union Ends, {delim})

\* ficlVmParseStringEx: up to the delimiter, which is read too, or the line's end.
ParseStringEx(delim, skip) ==
    LET from == IF skip THEN Beyond({delim}, tib.index) ELSE tib.index
        to   == Find({delim} \union Ends, from)
    IN Piece(from, to, After({delim}, to), {delim} \union Ends, {delim})

\* The comment word \: an end of line is one character or two that differ.
Backslash ==
    LET to    == Find(Ends, tib.index)
        first == IF to = Stop THEN to ELSE to + 1
    IN Piece(tib.index, to, IF to = Stop THEN to ELSE After(Ends \ {At(to)}, first), Ends, Ends)

\* .( reads on over ends of lines.
DotParenPiece(delim) == LET to == Find({delim}, tib.index) IN 
    Piece(tib.index, to, After({delim}, to), {delim}, {delim})

Take(piece) ==
    /\ Len(taken) < MaxPieces
    /\ tib' = [tib EXCEPT !.index = piece.index]
    /\ taken' = Append(taken, piece)

Said(piece) == Chars(piece.from, piece.to)
Idle == tib.text = << >> /\ picture = None /\ printed = None
Fresh == [a \in 0..Room - 1 |-> "?"]
Quiet == UNCHANGED <<base, bytes, here, picture>>

-----------------------------------------------------------------------------
(* Words that parse.                                                         *)

\* ficlVmPushTib: a new line, read from its beginning.
PushTib ==
    /\ Idle /\ \E text \in Texts : tib' = [text |-> text, index |-> 0]
    /\ number' = None /\ printed' = None
    /\ UNCHANGED <<taken, base, compiling, bytes, here, held, picture>>

\* INTERPRET: the next token, as a number; what names find is FiclDictionary's.
InterpretNumber ==
    /\ tib.index < Stop
    /\ LET word  == GetWord0
           n     == ParseNumber(Said(word), base)
           cells == IF n.isDouble THEN <<0, n.value>> ELSE <<n.value>>
       IN /\ n.ok
          /\ Keeps("short_tokens") => Len(Said(word)) < CountSize
          /\ Take(word)
          /\ number' = [is |-> "number", token |-> Said(word),
                        pushed |-> IF compiling THEN Front(cells) ELSE cells,
                        literal |-> IF compiling THEN <<Last(cells)>> ELSE << >>]
    /\ printed' = None /\ Quiet /\ UNCHANGED <<compiling, held>>

\* ?float comes after ?number: what is pushed, or compiled, is the same.
InterpretFloat ==
    /\ tib.index < Stop
    /\ LET word == GetWord0
           f    == ParseFloat(Said(word), base)
       IN /\ ~ParseNumber(Said(word), base).ok /\ f.ok
          /\ Take(word)
          /\ number' = [is |-> "float", token |-> Said(word), mantissa |-> f.mantissa, scale |-> f.scale]
    /\ printed' = None /\ Quiet /\ UNCHANGED <<compiling, held>>

\* Without a token, or with one that is no number, INTERPRET throws and the
\* line is left; the next one finds data space as it was at first.
InterpretLeaves ==
    /\ tib.text # << >> /\ ~ParseNumber(Said(GetWord0), base).ok /\ ~ParseFloat(Said(GetWord0), base).ok
    /\ tib' = [text |-> << >>, index |-> 0] /\ taken' = << >>
    /\ bytes' = Fresh /\ here' = 0 /\ held' = << >>
    /\ number' = None /\ printed' = None /\ UNCHANGED <<base, compiling, picture>>

\* [ and ].
LeftBracket  == compiling /\ compiling' = FALSE /\ number' = None /\ Idle
                /\ UNCHANGED <<tib, taken, printed, held>> /\ Quiet
RightBracket == ~compiling /\ compiling' = TRUE /\ number' = None /\ Idle
                /\ UNCHANGED <<tib, taken, printed, held>> /\ Quiet

\* PARSE and (, WORD, PARSE-WORD, \.
Parse ==
    /\ tib.index < Stop /\ ~compiling
    /\ \/ \E delim \in Delims, skip \in BOOLEAN : Take(ParseStringEx(delim, skip))
       \/ Take(GetWord0)
       \/ Take(Backslash)
    /\ number' = None /\ printed' = None /\ Quiet /\ UNCHANGED <<compiling, held>>

\* .( prints what it parses.
DotParen ==
    /\ tib.index < Stop /\ ~compiling
    /\ \E delim \in Delims :
        /\ Take(DotParenPiece(delim))
        /\ printed' = [is |-> "text", chars |-> Said(DotParenPiece(delim)), of |-> Said(DotParenPiece(delim))]
    /\ number' = None /\ Quiet /\ UNCHANGED <<compiling, held>>

\* ACCEPT takes n characters, or what there is.
Accept ==
    /\ tib.index < Stop /\ ~compiling
    /\ \E n \in 1..Stop :
         LET to == IF tib.index + n < Stop THEN tib.index + n ELSE Stop
         IN Take(Piece(tib.index, to, to, {}, {}))
    /\ number' = None /\ printed' = None /\ Quiet /\ UNCHANGED <<compiling, held>>

-----------------------------------------------------------------------------
(* Strings.                                                                  *)

Written(at, chars) == [a \in 0..Room - 1 |-> IF a - at + 1 \in DOMAIN chars THEN chars[a - at + 1] ELSE bytes[a]]
Hold(from, length, was, kept) ==
    held' = Append(held, [from |-> from, length |-> length, was |-> was, kept |-> kept])

\* ficlVmGetString at here: count, characters and a NUL.
Counted(chars) == <<Len(chars) % CountSize>> \o chars \o <<Nul>>
GetString ==
    LET s == Said(ParseStringEx("\"", FALSE))
    IN SubSeq(s, 1, IF Len(s) > CountSize THEN CountSize ELSE Len(s))

MayQuote ==
    /\ tib.index < Stop /\ ~compiling /\ Len(held) < MaxHeld /\ here + Len(GetString) + 2 <= Room
    /\ Keeps("short_strings") => Len(GetString) < CountSize

\* S" leaves the string behind here.
StringQuote ==
    /\ MayQuote /\ Take(ParseStringEx("\"", FALSE))
    /\ bytes' = Written(here, Counted(GetString))
    /\ Hold(here + 1, Len(GetString) % CountSize, GetString, FALSE)
    /\ number' = None /\ printed' = None /\ UNCHANGED <<base, compiling, here, picture>>

\* Faulty: the NUL is not allotted, nor the count.
AllottedChars(chars) == Len(chars) % CountSize

Allotted(chars) == (Len(chars) % CountSize) + 2

\* C" allots it.
CountedStringQuote ==
    /\ MayQuote /\ Take(ParseStringEx("\"", FALSE))
    /\ bytes' = Written(here, Counted(GetString))
    /\ Hold(here + 1, Len(GetString) % CountSize, GetString, TRUE)
    /\ here' = here + Allotted(GetString)
    /\ number' = None /\ printed' = None /\ UNCHANGED <<base, compiling, picture>>

\* What a host prints of a string: up to the NUL.
UpToNul(memory, from) ==
    LET end == CHOOSE e \in from..Room : (e = Room \/ memory[e] = Nul)
                                         /\ \A a \in from..e - 1 : memory[a] # Nul
    IN [i \in 1..end - from |-> memory[from + i - 1]]

Copied(from, length) == Written(here, [i \in 1..length |-> bytes[from + i - 1]] \o <<Nul>>)

\* A string still says what it said at first.
Stands(s) == \A k \in DOMAIN s.was : bytes[s.from + k - 1] = s.was[k]

\* TYPE of a string, or of its first characters, copies it to here if no NUL ends it.
Type ==
    /\ picture = None
    /\ \E i \in DOMAIN held : \E length \in 1..held[i].length :
         LET from   == held[i].from
             ended  == bytes[from + length] = Nul
             memory == IF ended THEN bytes ELSE Copied(from, length)
         IN /\ here + length < Room
            /\ Keeps("fresh_strings") => Stands(held[i])
            /\ printed' = [is |-> "text", chars |-> UpToNul(memory, IF ended THEN from ELSE here),
                           of |-> [k \in 1..length |-> bytes[from + k - 1]]]
            /\ bytes' = memory
    /\ number' = None /\ UNCHANGED <<tib, taken, base, compiling, here, held, picture>>

\* CR ends the line of output.
CR == /\ printed # None /\ printed' = None
      /\ number' = None /\ Quiet /\ UNCHANGED <<tib, taken, compiling, held>>

\* . U. in the base that is set.
Dot ==
    /\ Idle
    /\ \E x \in Cells, signed \in BOOLEAN :
         printed' = [is |-> "number", chars |-> IF signed THEN Ltoa(x, base) ELSE Ultoa(U(x), base),
                     of |-> x]
    /\ number' = None /\ Quiet /\ UNCHANGED <<tib, taken, compiling, held>>

\* DECIMAL, HEX and BASE ! between two numbers.
SetBase ==
    /\ Idle /\ base' \in Bases \ {base}
    /\ number' = None /\ printed' = None /\ UNCHANGED <<tib, taken, compiling, bytes, here, held, picture>>

Ample == 99     \* room for whatever Formats write

SprintfLine ==
    /\ Idle
    /\ \E f \in Formats, length \in Lengths :
         LET r == Sprintf(f.format, f.arguments, length)
             whole == Sprintf(f.format, f.arguments, Ample)
         IN /\ Keeps("wide_fields") => ~r.narrow
            /\ printed' = [is |-> "line", chars |-> r.text, left |-> r.args, flag |-> r.flag,
                           of |-> whole.text, format |-> f.format, arguments |-> f.arguments,
                           room |-> length]
    /\ number' = None /\ Quiet /\ UNCHANGED <<tib, taken, compiling, held>>

-----------------------------------------------------------------------------
(* Pictured numbers: digits from the lowest on, in the pad.                  *)

Pictures(p) == /\ picture' = p /\ number' = None /\ printed' = None
               /\ UNCHANGED <<tib, taken, base, compiling, bytes, here, held>>

LessNumberSign ==
    /\ Idle /\ \E ud \in Doubles : Pictures([is |-> "picture", ud |-> ud, of |-> ud, chars |-> << >>])

\* Bound: a pictured number stays within its count.
Fits(more) == Len(picture.chars) + more < CountSize

\* Faulty: the remainder of the high cell is lost.
DigitOfLow(ud) == LET qr == UDivide2(Double(0, ud.low), base)
                  IN [quotient |-> qr.quotient, remainder |-> qr.remainder]

NextDigit(ud) == UDivide2(ud, base)

NumberSign ==
    /\ picture # None /\ Fits(1)
    /\ LET qr == NextDigit(picture.ud)
       IN Pictures([picture EXCEPT !.ud = qr.quotient, !.chars = Append(@, Digits[qr.remainder + 1])])

\* All the digits that are left, one at least.
NumberSignS ==
    /\ picture # None
    /\ LET left[ud \in [high : Words, low : Words]] ==
               LET qr == NextDigit(ud)
               IN <<Digits[qr.remainder + 1]>> \o (IF qr.quotient = Zero2 THEN << >> ELSE left[qr.quotient])
           digits == left[picture.ud]
       IN Fits(Len(digits)) /\ Pictures([picture EXCEPT !.ud = Zero2, !.chars = @ \o digits])

\* HOLD, and SIGN of a negative number.
HoldChar ==
    /\ picture # None /\ Fits(1) /\ \E c \in {"-", "."} : Pictures([picture EXCEPT !.chars = Append(@, c)])

\* #> turns the text round.
NumberSignGreater ==
    /\ picture # None /\ picture' = None
    /\ printed' = [is |-> "picture", chars |-> Reverse(picture.chars), of |-> picture.of, left |-> picture.ud]
    /\ number' = None /\ UNCHANGED <<tib, taken, base, compiling, bytes, here, held>>

-----------------------------------------------------------------------------
Init ==
    /\ tib = [text |-> << >>, index |-> 0] /\ taken = << >>
    /\ base = 10 /\ compiling = FALSE /\ number = None
    /\ bytes = Fresh /\ here = 0 /\ held = << >>
    /\ printed = None /\ picture = None

Next ==
    \/ PushTib \/ InterpretNumber \/ InterpretFloat \/ InterpretLeaves \/ LeftBracket \/ RightBracket \/ Parse \/ DotParen \/ Accept
    \/ StringQuote \/ CountedStringQuote \/ Type \/ CR \/ Dot \/ SetBase \/ SprintfLine
    \/ LessNumberSign \/ NumberSign \/ NumberSignS \/ HoldChar \/ NumberSignGreater

Spec == Init /\ [][Next]_vars

-----------------------------------------------------------------------------
(* A parsed piece ends where the line or a delimiter ends it, never earlier  *)
(* and never later (the loops of ficlVmGetWord0 and ficlVmParseStringEx).    *)
PiecesWhole ==
    \A k \in DOMAIN taken :
        LET p == taken[k] IN
        p.ends # {} =>
            /\ \A i \in p.from..p.to - 1 : At(i) \notin p.ends
            /\ p.to = Stop \/ At(p.to) \in p.ends

(* No character is lost between two pieces, whatever words take them: only   *)
(* the one delimiter that ended the first (two for an end of line), and the  *)
(* delimiters that the second skips.                                         *)
NothingSwallowed ==
    \A k \in DOMAIN taken :
        LET p    == taken[k]
            next == IF k = Len(taken) THEN tib.index ELSE taken[k + 1].from
            own  == IF p.delims = Ends THEN 2 ELSE 1
        IN  \A i \in p.to..next - 1 :
                \/ i < p.to + own /\ At(i) \in p.delims
                \/ k < Len(taken) /\ At(i) \in taken[k + 1].delims

(* Whatever words parse a line, they take it in whole pieces.                *)
LinesRead == PiecesWhole /\ NothingSwallowed

\* Digits of the base, behind at most one sign, before at most one point.
Spells(t, first, last) ==
    /\ first <= last
    /\ first = 1 \/ (first = 2 /\ t[1] \in {"-", "+"})
    /\ last = Len(t) \/ (last = Len(t) - 1 /\ t[Len(t)] = ".")
    /\ \A i \in first..last : IsDigit(t[i], base)

(* A token is a number exactly if it is digits of the base behind at most    *)
(* one sign, with or without a point at its end, and stands for their value  *)
(* in a cell, whether that is pushed or compiled (the loop of                *)
(* ficlVmParseNumber); with a point, a zero is pushed before it, as the      *)
(* repository's test of `3.` has it (test/ficltest.fr:97).                   *)
NumbersMean ==
    /\ tib.text # << >> =>
          LET t == Said(GetWord0)
          IN  Len(t) < CountSize =>
                (ParseNumber(t, base).ok <=> \E first, last \in DOMAIN t : Spells(t, first, last))
    /\ number.is = "number" =>
          LET t      == number.token
              span   == CHOOSE s \in (DOMAIN t) \X (DOMAIN t) : Spells(t, s[1], s[2])
              value  == MapThenSumSet(LAMBDA i : DigitOf(t[i]) * base ^ (span[2] - i), span[1]..span[2])
          IN  number.pushed \o number.literal =
                  (IF span[2] < Len(t) THEN <<0>> ELSE << >>)
                      \o <<I(IF t[1] = "-" THEN -value ELSE value)>>

\* The syntax of the standard: digits with a point somewhere, e, an exponent.
FloatSyntax(t) ==
    \E point, e \in DOMAIN t \cup {Len(t) + 1} :
        LET Unsign(i) == IF i \in DOMAIN t /\ t[i] \in {"-", "+"} THEN i + 1 ELSE i
        IN  /\ e \in DOMAIN t /\ t[e] = "e" /\ (point = Len(t) + 1 \/ (point < e /\ t[point] = "."))
            /\ \A i \in Unsign(1)..Len(t) :
                  i \in {point, e} \/ (i = e + 1 /\ Unsign(i) > i) \/ IsDigit(t[i], 10)

(* A token with a digit before its e is a float exactly if the standard has  *)
(* it so, and stands for that decimal: the digits, moved by what lies behind *)
(* the point and by the exponent, with a sign for each.                      *)
FloatsMean ==
    /\ tib.text # << >> /\ base = 10 =>
          LET t == Said(GetWord0)
          IN  (\E i \in DOMAIN t : IsDigit(t[i], 10) /\ \A k \in 1..i : t[k] # "e")
                 => (ParseFloat(t, 10).ok <=> FloatSyntax(t))
    /\ number.is = "float" =>
          LET t      == number.token
              e      == CHOOSE i \in DOMAIN t : t[i] = "e"
              Value(part) == FoldLeft(LAMBDA n, c : IF IsDigit(c, 10) THEN 10 * n + DigitOf(c) ELSE n, 0, part)
              Minus(part) == part # << >> /\ part[1] = "-"
              front  == SubSeq(t, 1, e - 1)
              back   == SubSeq(t, e + 1, Len(t))
              behind == Cardinality({i \in DOMAIN front : \E k \in 1..i - 1 : front[k] = "."})
          IN  /\ number.mantissa = IF Minus(front) THEN -Value(front) ELSE Value(front)
              /\ number.scale + behind = IF Minus(back) THEN -Value(back) ELSE Value(back)

(* Tokens are the numbers they spell, integers and floats.                   *)
NumbersRead == NumbersMean /\ FloatsMean

(* A string that C" has put into data space says the same from then on,      *)
(* whatever the next strings and TYPE put behind it.                         *)
StringsKept ==
    \A i \in DOMAIN held :
        held[i].kept => held[i].length = Len(held[i].was) /\ Stands(held[i])

(* TYPE and .( print the characters they are given, all and no others, of a  *)
(* part of a string too, though the host is given a text that a NUL ends.    *)
PrintsWhole == printed.is = "text" => printed.chars = printed.of

(* What . and U. print is read back as the cell it was, in every base.       *)
NumbersReadBack ==
    printed.is = "number" /\ Len(printed.chars) < CountSize =>
        LET n == ParseNumber(printed.chars, base) IN n.ok /\ n.value = printed.of

(* The digits of a pictured number and what is left of it are the number, as *)
(* >NUMBER reads digits, wherever HOLD and SIGN put other characters.        *)
PicturesExact ==
    LET Digitals(chars) == SelectSeq(chars, LAMBDA c : IsDigit(c, base))
        Exact(digits, left, of) ==
            LET read == ToNumber(Zero2, digits, base) IN
            /\ read.rest = << >>
            /\ Unsigned2(left) * base ^ Len(digits) + Unsigned2(read.value) = Unsigned2(of)
    IN  /\ picture # None => Exact(Reverse(Digitals(picture.chars)), picture.ud, picture.of)
        /\ printed.is = "picture" => Exact(Digitals(printed.chars), printed.left, printed.of)

(* SPRINTF's flag is set exactly if all that the format has fits the buffer  *)
(* (its header comment has it the other way round), and then all was written. *)
(* What fits whole is written in any case.  The first piece that does not is *)
(* the last that is written; it is copied whole, and only it passes the end  *)
(* of the buffer (primitives.c:480).  The arguments are eaten whether there  *)
(* is room or not, as the comment promises.                                  *)
SprintfFits ==
    printed.is = "line" =>
        LET Whole(k) == Sprintf(SubSeq(printed.format, 1, k), printed.arguments, Ample) IN
        /\ printed.flag # 0 <=> Len(printed.of) <= printed.room
        /\ printed.flag # 0 => printed.chars = printed.of
        /\ \A k \in 0..Len(printed.format) :
              IF Len(Whole(k).text) <= printed.room THEN IsPrefix(Whole(k).text, printed.chars)
              ELSE Len(printed.chars) <= Len(Whole(k).text)
        /\ printed.left = Whole(Len(printed.format)).args

(* What is printed is what was given, by whichever word and within whichever *)
(* buffer.                                                                   *)
OutputExact == PrintsWhole /\ NumbersReadBack /\ PicturesExact /\ SprintfFits
=============================================================================

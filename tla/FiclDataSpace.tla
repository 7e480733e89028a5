---------------------------- MODULE FiclDataSpace ----------------------------
(***************************************************************************)
(* The bytes of a Ficl dictionary (dictionary.c:91-414, vm.c:2935-3015).   *)
(* Everything a program keeps grows at one pointer, here: the name of a    *)
(* word (at any byte), the word itself (on a cell), its parameter cells,   *)
(* and whatever , and C, and ALLOT add afterwards.  Hosts can change a     *)
(* word that exists already in place.  FiclDictionary says how words are   *)
(* linked and found; this module says which bytes they and their data own, *)
(* and what the few checks against the end of the dictionary are worth.    *)
(***************************************************************************)
EXTENDS Integers, Sequences

CONSTANTS
    Size,         \* cells in the dictionary
    CellSize,     \* bytes in a cell, also FICL_PLATFORM_ALIGNMENT
    NameLength,   \* FICL_NAME_LENGTH
    NameLengths,  \* how long the names are that words are given
    Values,       \* what constants are set to
    Data,         \* what is compiled and stored by , and C,
    MaxWords,     \* bound: words at a time
    Obligations   \* what programs and hosts keep to; see Obliged

ASSUME SpaceAssumption ==
    /\ Size \in Nat \ {0} /\ CellSize \in Nat \ {0}
    /\ NameLength \in Nat \ {0} /\ MaxWords \in Nat
    /\ NameLengths \subseteq Nat \ {0}
    /\ Obligations \subseteq {"room", "two_cells", "whole_cells",
                              "own_allot", "has_cell", "does_after_create"}

VARIABLES
    mem,     \* the bytes: [Bytes -> Byte]
    here,    \* dictionary->here, in bytes from dictionary->base
    words,   \* the words, oldest first; smudge is the last of them
    stored   \* ghost: what the program stored and still owns, by address

vars == <<mem, here, words, stored>>

Limit == Size * CellSize
Bytes == 0..(Limit - 1)
Codes == {"primitive", "constant", "2constant", "variable", "create", "does", "colon"}
Byte == {<<"free", 0>>} \cup {<<v, k>> : v \in Values \cup Data \cup {"ip", "exit"}, k \in 1..CellSize}
                 \cup {<<"word", i>> : i \in 1..MaxWords}

Obliged(rule, Promise) == rule \in Obligations => Promise

-----------------------------------------------------------------------------
(* Addresses and the checks. *)

AlignPointer(p) == ((p + CellSize - 1) \div CellSize) * CellSize

CellOf(v) == [k \in 1..CellSize |-> <<v, k>>]

Param(w) == w.word + CellSize    \* a ficlWord's fields stand for one cell

(* One memory with the bytes of `seq' written from address a on. *)
Written(m, a, seq) ==
    [x \in DOMAIN m |-> IF x \in a..(a + Len(seq) - 1) THEN seq[x - a + 1] ELSE m[x]]

(* The cells of `vals', one after the other. *)
CellsOf(vals) == [k \in 1..(Len(vals) * CellSize) |->
                     CellOf(vals[((k - 1) \div CellSize) + 1])[((k - 1) % CellSize) + 1]]

(* Memory when everything from h on is given back: what the bytes hold     *)
(* there is nobody's any more and is forgotten.                            *)
GivenBack(m, h) == [a \in DOMAIN m |-> IF a < h THEN m[a] ELSE <<"free", 0>>]

(* The ghost after the same write, and after the same giving back. *)
Noted(s, a, seq) ==
    [x \in DOMAIN s \cup a..(a + Len(seq) - 1) |->
        IF x \in a..(a + Len(seq) - 1) THEN seq[x - a + 1] ELSE s[x]]
Below(s, h) == [x \in {y \in DOMAIN s : y < h} |-> s[x]]

(* A cell in use only in part counts as available, as here - base is cells. *)
CellsUsed(h) == h \div CellSize
CellsAvailable(h) == Size - CellsUsed(h)

\* Faulty: refuses only what would fall below the base.
CheckPassesDown(h, n) == n <= 0 => CellsUsed(h) * CellSize >= -n

(* What the check refuses otherwise: n is bytes, whatever its name says. *)
CheckPasses(h, n) ==
    /\ n >= 0 => CellsAvailable(h) * CellSize >= n
    /\ n <= 0 => CellsUsed(h) * CellSize >= -n

(* ALLOT's check in cells hands the number of cells to that check. *)
AllottedCells(h, cells) == IF CheckPasses(h, cells) THEN h + cells * CellSize ELSE h

Compiling == words # <<>> /\ words[Len(words)].smudged

-----------------------------------------------------------------------------
(* Making words. *)

(* Where a name of `length' characters at h and its NUL leave the next word. *)
AppendString(h, length) ==
    AlignPointer(h + (IF length > NameLength THEN NameLength ELSE length) + 1)

(* The new word: all its bytes are tagged with its place among the words.  *)
AppendWord(length, code, smudged) ==
    [name |-> here, word |-> AppendString(here, length), code |-> code,
     smudged |-> smudged, cells |-> 0]

Headed(m, w) ==
    Written(m, w.name, [k \in 1..(Param(w) - w.name) |-> <<"word", Len(words) + 1>>])

(* A word nothing is left over for: no check is made before it is written. *)
RoomFor(length, cells) ==
    /\ ~Compiling /\ Len(words) < MaxWords
    /\ Obliged("room",
               AppendString(here, length) + (1 + cells) * CellSize <= Limit)

(* A word whose cells are appended at once: constants and, with no cells at *)
(* all, the host's primitives.                                             *)
Define(length, code, vals) ==
    LET w == AppendWord(length, code, FALSE)
        a == Param(w)
    IN  /\ RoomFor(length, Len(vals))
        /\ mem' = Written(Headed(mem, w), a, CellsOf(vals))
        /\ here' = a + Len(vals) * CellSize
        /\ words' = Append(words, [w EXCEPT !.cells = Len(vals)])
        /\ stored' = Noted(stored, a, CellsOf(vals))

AppendPrimitive(length) == Define(length, "primitive", <<>>)
Constant(length, v) == Define(length, "constant", <<v>>)
TwoConstant(length, v, u) == Define(length, "2constant", <<v, u>>)

(* A word whose cells are only reserved: the word is there, linked and     *)
(* found, when the check refuses its cells.                                *)
Reserve(length, code, cells) ==
    LET w == AppendWord(length, code, FALSE)
        h == AllottedCells(Param(w), cells)
    IN  /\ RoomFor(length, 0)
        /\ mem' = Headed(mem, w)
        /\ here' = h
        /\ words' = Append(words, [w EXCEPT !.cells = (h - Param(w)) \div CellSize])
        /\ UNCHANGED stored

\* Faulty: the data starts at the cell DOES> will use.
NoCell == 0

(* CREATE leaves one cell before the data, for DOES>. *)
CreateCells == 1
Variable(length) == Reserve(length, "variable", 1)
TwoVariable(length) ==
    /\ Obliged("two_cells",
               CellsAvailable(AppendString(here, length) + CellSize) # 1)
    /\ Reserve(length, "variable", 2)
Create(length) == Reserve(length, "create", CreateCells)

(* A colon definition is smudged until its semicolon, or is given back. *)
Colon(length) ==
    LET w == AppendWord(length, "colon", TRUE)
    IN  /\ RoomFor(length, 0)
        /\ mem' = Headed(mem, w)
        /\ here' = Param(w)
        /\ words' = Append(words, w)
        /\ UNCHANGED stored

AppendCell(v) ==
    /\ Obliged("room", here + CellSize <= Limit)
    /\ mem' = Written(mem, here, CellOf(v))
    /\ here' = here + CellSize
    /\ stored' = Noted(stored, here, CellOf(v))

Semicolon ==
    /\ Compiling
    /\ AppendCell("exit")
    /\ words' = [words EXCEPT ![Len(words)].smudged = FALSE]

(* Where here goes when the open definition is given back. *)
Reclaimed(w) == w.name

AbortDefinition ==
    /\ Compiling
    /\ LET last == Len(words) IN
         /\ here' = Reclaimed(words[last])
         /\ words' = SubSeq(words, 1, last - 1)
         /\ stored' = Below(stored, here')
         /\ mem' = GivenBack(mem, here')

-----------------------------------------------------------------------------
(* Data, compiled or not. *)

(* , and every token a colon definition compiles *)
Comma(v) == AppendCell(v) /\ UNCHANGED words

CComma(v) ==
    /\ Obliged("room", here < Limit)
    /\ mem' = Written(mem, here, << <<v, 1>> >>)
    /\ here' = here + 1
    /\ stored' = Noted(stored, here, << <<v, 1>> >>)
    /\ UNCHANGED words

Align == /\ here' = AlignPointer(here)
         /\ UNCHANGED <<mem, words, stored>>

(* Nothing tells ALLOT what it takes back: only the base stops it. *)
OwnFrom == IF words = <<>> THEN 0
           ELSE Param(words[Len(words)]) + words[Len(words)].cells * CellSize

Allot(n) ==
    /\ CheckPasses(here, n)
    /\ Obliged("own_allot", here + n >= OwnFrom)
    /\ Obliged("whole_cells", here + n <= Limit)
    /\ here' = here + n
    /\ stored' = Below(stored, here')
    /\ mem' = GivenBack(mem, here')
    /\ UNCHANGED words

(* DOES> hands its code to the newest word, in the cell CREATE left. *)
Does ==
    /\ words # <<>>
    /\ LET last == Len(words) IN
         /\ Obliged("does_after_create",
                    words[last].code \in {"create", "does"} /\ words[last].cells = CreateCells)
         /\ mem' = Written(mem, Param(words[last]), CellOf("ip"))
         /\ words' = [words EXCEPT ![last].code = "does"]
    /\ UNCHANGED <<here, stored>>

-----------------------------------------------------------------------------
(* Words a host sets again, in place when the name is found. *)

Found == {i \in 1..Len(words) : ~words[i].smudged}

SetPrimitive(i) ==
    /\ words' = [words EXCEPT ![i].code = "primitive"]
    /\ UNCHANGED <<mem, here, stored>>

SetCells(i, code, vals) ==
    /\ mem' = Written(mem, Param(words[i]), CellsOf(vals))
    /\ stored' = Noted(stored, Param(words[i]), CellsOf(vals))
    /\ words' = [words EXCEPT ![i].code = code]
    /\ UNCHANGED here

SetConstant(i, v) ==
    /\ Obliged("has_cell", words[i].cells > 0)
    /\ SetCells(i, "constant", <<v>>)

\* Faulty: any word of that name is set in place.
AnyWord(w) == TRUE

(* Only a 2constant is sure to have two cells; anything else is left alone *)
(* and a new word hides it.                                                *)
HasTwoCells(w) == w.code = "2constant"

Set2Constant(i, length, v, u) ==
    \/ HasTwoCells(words[i]) /\ SetCells(i, "2constant", <<v, u>>)
    \/ ~HasTwoCells(words[i]) /\ TwoConstant(length, v, u)

-----------------------------------------------------------------------------
Init == /\ mem = [a \in Bytes |-> <<"free", 0>>]
        /\ here = 0 /\ words = <<>> /\ stored = <<>>

Next ==
    \/ \E l \in NameLengths :
         \/ AppendPrimitive(l) \/ Variable(l) \/ TwoVariable(l) \/ Create(l) \/ Colon(l)
         \/ \E v \in Values : Constant(l, v)
         \/ \E v, u \in Values : TwoConstant(l, v, u)
    \/ Semicolon \/ AbortDefinition \/ Align \/ Does
    \/ \E v \in Data : Comma(v) \/ CComma(v)
    \/ \E n \in (-Limit)..Limit : Allot(n)
    \/ \E i \in Found :
         \/ SetPrimitive(i)
         \/ \E v \in Values : SetConstant(i, v)
         \/ \E l \in NameLengths, v, u \in Values : Set2Constant(i, l, v, u)

Spec == Init /\ [][Next]_vars

-----------------------------------------------------------------------------
(* The dictionary's pointer stays inside it (vm.c:2951: the check is there *)
(* to see to that), as do the words and the data.                          *)
TypeOK ==
    /\ here \in 0..Limit
    /\ mem \in [Bytes -> Byte]
    /\ Len(words) <= MaxWords
    /\ \A i \in 1..Len(words) :
         /\ words[i].name \in Bytes /\ words[i].word \in Bytes
         /\ words[i].code \in Codes
         /\ words[i].cells \in 0..Size
    /\ DOMAIN stored \subseteq Bytes

(* Each word starts on a cell and still has its name and its fields: no    *)
(* other word's parameters, no data and no definition given back ever      *)
(* overwrote them (dictionary.c:322, 254-311).                             *)
WordsWhole ==
    \A i \in 1..Len(words) :
        LET w == words[i] IN
        /\ w.word % CellSize = 0
        /\ \A a \in w.name..(Param(w) - 1) : mem[a] = <<"word", i>>

(* Whatever was stored is below here and reads back as it was stored last, *)
(* whatever words came later and whichever of them DOES> changed           *)
(* (dictionary.c:123-180, vm.c:1466, primitives.c:1489).                   *)
StoredKept ==
    \A a \in DOMAIN stored : a < here /\ mem[a] = stored[a]
=============================================================================

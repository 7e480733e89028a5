------------------------ MODULE FiclDataSpaceProofs ------------------------
(***************************************************************************)
(* What FiclDataSpace says of its bytes holds for every size of the        *)
(* dictionary and of a cell, all names and all values, as long as programs *)
(* and hosts keep the six obligations.                                     *)
(***************************************************************************)
EXTENDS FiclDataSpace, SequenceTheorems, TLAPS

Careful == Obligations = {"room", "two_cells", "whole_cells",
                          "own_allot", "has_cell", "does_after_create"}

Word == [name : Nat, word : Nat, code : Codes, smudged : BOOLEAN, cells : Nat]

(* The end of a word's own cells. *)
EndOf(w) == Param(w) + w.cells * CellSize

(* Words lie one after the other, each on a cell and with its cells below h. *)
Laid(h, ws) ==
    /\ ws \in Seq(Word) /\ Len(ws) <= MaxWords
    /\ \A i \in 1..Len(ws) :
          /\ ws[i].name < ws[i].word /\ ws[i].word % CellSize = 0 /\ EndOf(ws[i]) <= h
          /\ ws[i].code = "2constant" => ws[i].cells = 2
    /\ \A i, j \in 1..Len(ws) : i < j => EndOf(ws[i]) <= ws[j].name

Whole(m, ws) ==
    \A i \in 1..Len(ws) : \A a \in ws[i].name..(Param(ws[i]) - 1) : m[a] = <<"word", i>>

(* What is stored lies outside all headers, and outside the cells that DOES> *)
(* may still write.                                                          *)
Kept(m, h, ws, st) ==
    \A a \in DOMAIN st :
        /\ a \in 0..(h - 1) /\ m[a] = st[a]
        /\ \A i \in 1..Len(ws) :
              /\ a < ws[i].name \/ a >= Param(ws[i])
              /\ ws[i].code \in {"create", "does"} => a < Param(ws[i]) \/ a >= EndOf(ws[i])

Sound(m, h, ws, st) ==
    /\ h \in 0..Limit /\ m \in [Bytes -> Byte]
    /\ Laid(h, ws) /\ Whole(m, ws) /\ Kept(m, h, ws, st)

IInv == Sound(mem, here, words, stored)

-----------------------------------------------------------------------------
(* Arithmetic of cells.                                                      *)

(* The sizes are numbers. *)
LEMMA CellFacts == CellSize \in Nat /\ CellSize >= 1 /\ Size \in Nat /\ Limit \in Nat
<1>1. CellSize \in Nat /\ CellSize >= 1 /\ Size \in Nat
  BY SpaceAssumption
<1> QED BY <1>1 DEF Limit

(* Aligning goes up to a multiple of a cell, less than a cell further. *)
LEMMA AlignFacts ==
    ASSUME NEW p \in Nat
    PROVE  /\ AlignPointer(p) \in Nat /\ AlignPointer(p) >= p /\ AlignPointer(p) < p + CellSize
           /\ \E k \in Nat : AlignPointer(p) = k * CellSize
<1> DEFINE q == (p + CellSize - 1) \div CellSize
<1>1. CellSize \in Nat /\ CellSize >= 1
  BY CellFacts
<1>2. q \in Nat
  BY <1>1
<1>3. q * CellSize <= p + CellSize - 1 /\ p + CellSize - 1 < q * CellSize + CellSize
  BY <1>1
<1> HIDE DEF q
<1>4. AlignPointer(p) = q * CellSize
  BY DEF AlignPointer, q
<1>5. q * CellSize \in Nat
  BY <1>1, <1>2
<1> QED BY <1>1, <1>2, <1>3, <1>4, <1>5

(* A multiple of a cell is on a cell, and n more of them is n further.       *)
LEMMA MultipleFacts ==
    ASSUME NEW k \in Nat
    PROVE  (k * CellSize) % CellSize = 0 /\ (k * CellSize) \div CellSize = k
<1>1. CellSize \in Nat /\ CellSize >= 1
  BY CellFacts
<1> QED BY <1>1

(* Fewer cells than the dictionary has end no later than it. *)
LEMMA CellsWithin ==
    ASSUME NEW j \in Int, NEW k \in Int
    PROVE  j <= k <=> j * CellSize <= k * CellSize
<1>1. CellSize \in Nat /\ CellSize >= 1
  BY CellFacts
<1>2. j <= k => j * CellSize <= k * CellSize
  BY <1>1
<1>3. j > k => j * CellSize > k * CellSize
  BY <1>1
<1>4. j * CellSize \in Int /\ k * CellSize \in Int
  BY <1>1
<1> QED BY <1>2, <1>3, <1>4
-----------------------------------------------------------------------------
(* What is written.                                                          *)

(* A cell is as many bytes as it has. *)
LEMMA CellOfFacts ==
    ASSUME NEW v \in Values \cup Data \cup {"ip", "exit"}
    PROVE  CellOf(v) \in Seq(Byte) /\ Len(CellOf(v)) = CellSize
<1>1. CellSize \in Nat
  BY CellFacts
<1>2. CellOf(v) \in [1..CellSize -> Byte]
  BY DEF CellOf, Byte
<1>3. CellOf(v) \in Seq(Byte)
  BY <1>1, <1>2
<1> QED BY <1>1, <1>2, <1>3

(* So are several, one after the other. *)
LEMMA CellsOfFacts ==
    ASSUME NEW vals \in Seq(Values)
    PROVE  CellsOf(vals) \in Seq(Byte) /\ Len(CellsOf(vals)) = Len(vals) * CellSize
<1>1. CellSize \in Nat /\ CellSize >= 1 /\ Len(vals) \in Nat
  BY CellFacts
<1>2. Len(vals) * CellSize \in Nat
  BY <1>1
<1>3. ASSUME NEW k \in 1..(Len(vals) * CellSize)
      PROVE  CellOf(vals[((k - 1) \div CellSize) + 1])[((k - 1) % CellSize) + 1] \in Byte
  <2> DEFINE q == (k - 1) \div CellSize
             r == (k - 1) % CellSize
  <2>1. q \in Nat /\ r \in 0..(CellSize - 1)
    BY <1>1, <1>2
  <2>2. q * CellSize <= k - 1 /\ k - 1 < Len(vals) * CellSize
    BY <1>1, <1>2
  <2> HIDE DEF q, r
  <2>3. q < Len(vals)
    <3>1. ~(Len(vals) <= q)
      <4>1. q * CellSize \in Int /\ k - 1 \in Int /\ Len(vals) * CellSize \in Int
        BY <1>1, <1>2, <2>1
      <4>2. ~(Len(vals) * CellSize <= q * CellSize)
        BY <2>2, <4>1
      <4> QED BY <4>2, <1>1, <2>1, CellsWithin
    <3> QED BY <3>1, <1>1, <2>1
  <2>4. vals[q + 1] \in Values
    BY <1>1, <2>1, <2>3
  <2>5. CellOf(vals[q + 1]) \in Seq(Byte) /\ Len(CellOf(vals[q + 1])) = CellSize
    BY <2>4, CellOfFacts
  <2>6. CellOf(vals[q + 1])[r + 1] \in Byte
    BY <1>1, <2>1, <2>5
  <2> QED BY <2>6 DEF q, r
<1>4. CellsOf(vals) \in [1..(Len(vals) * CellSize) -> Byte]
  BY <1>3 DEF CellsOf
<1>5. CellsOf(vals) \in Seq(Byte)
  BY <1>2, <1>4
<1> QED BY <1>2, <1>4, <1>5

(* Where the bytes of seq are in memory after they are written at a. *)
LEMMA WrittenFacts ==
    ASSUME NEW m \in [Bytes -> Byte], NEW a \in Nat, NEW seq \in Seq(Byte)
    PROVE  /\ Written(m, a, seq) \in [Bytes -> Byte]
           /\ \A x \in Bytes :
                 Written(m, a, seq)[x] = IF x >= a /\ x < a + Len(seq) THEN seq[x - a + 1] ELSE m[x]
<1>1. DOMAIN m = Bytes /\ Len(seq) \in Nat
  OBVIOUS
<1>2. \A x \in Bytes : x \in Int
  BY CellFacts DEF Bytes
<1>3. \A x \in Bytes : x \in a..(a + Len(seq) - 1) <=> x >= a /\ x < a + Len(seq)
  BY <1>1, <1>2
<1>4. \A x \in Bytes : x >= a /\ x < a + Len(seq) => seq[x - a + 1] \in Byte
  BY <1>1, <1>2
<1> QED BY <1>1, <1>3, <1>4 DEF Written

(* The ghost after the same. *)
LEMMA NotedFacts ==
    ASSUME NEW st, NEW a \in Nat, NEW seq \in Seq(Byte)
    PROVE  /\ DOMAIN Noted(st, a, seq) = DOMAIN st \cup a..(a + Len(seq) - 1)
           /\ \A x \in DOMAIN Noted(st, a, seq) :
                 Noted(st, a, seq)[x] = IF x \in a..(a + Len(seq) - 1) THEN seq[x - a + 1] ELSE st[x]
BY DEF Noted

-----------------------------------------------------------------------------
(* What keeps the bytes sound.  The words of two sequences lie alike if they *)
(* differ in code and smudge only.                                           *)

Alike(ws, us) ==
    /\ us \in Seq(Word) /\ Len(us) = Len(ws)
    /\ \A i \in 1..Len(ws) :
          us[i].name = ws[i].name /\ us[i].word = ws[i].word /\ us[i].cells = ws[i].cells

(* The parts of a word lie in order, below h. *)
LEMMA WordFacts ==
    ASSUME NEW m, NEW h, NEW ws, NEW st, Sound(m, h, ws, st)
    PROVE  /\ h \in Nat /\ ws \in Seq(Word) /\ Len(ws) \in Nat
           /\ \A i \in 1..Len(ws) :
                 /\ ws[i] \in Word /\ ws[i].name \in Nat /\ ws[i].word \in Nat /\ ws[i].cells \in Nat
                 /\ Param(ws[i]) \in Nat /\ EndOf(ws[i]) \in Nat
                 /\ ws[i].name < Param(ws[i]) /\ Param(ws[i]) <= EndOf(ws[i]) /\ EndOf(ws[i]) <= h
<1>1. CellSize \in Nat /\ Limit \in Nat
  BY CellFacts
<1>2. h \in Nat /\ ws \in Seq(Word) /\ Len(ws) \in Nat
  BY <1>1 DEF Sound, Laid
<1>3. ASSUME NEW i \in 1..Len(ws)
      PROVE  /\ ws[i] \in Word /\ ws[i].name \in Nat /\ ws[i].word \in Nat /\ ws[i].cells \in Nat
             /\ Param(ws[i]) \in Nat /\ EndOf(ws[i]) \in Nat
             /\ ws[i].name < Param(ws[i]) /\ Param(ws[i]) <= EndOf(ws[i]) /\ EndOf(ws[i]) <= h
  <2>1. ws[i] \in Word
    BY <1>2
  <2>2. ws[i].name \in Nat /\ ws[i].word \in Nat /\ ws[i].cells \in Nat
    BY <2>1 DEF Word
  <2>3. ws[i].cells * CellSize \in Nat
    BY <1>1, <2>2
  <2>4. ws[i].name < ws[i].word /\ EndOf(ws[i]) <= h
    BY DEF Sound, Laid
  <2>5. Param(ws[i]) \in Nat /\ ws[i].name < Param(ws[i])
    BY <1>1, <2>2, <2>4 DEF Param
  <2>6. EndOf(ws[i]) \in Nat /\ Param(ws[i]) <= EndOf(ws[i])
    BY <2>3, <2>5 DEF EndOf
  <2> QED BY <2>1, <2>2, <2>4, <2>5, <2>6
<1> QED BY <1>2, <1>3

(* Marks on the words change no byte.                                        *)
LEMMA MarkKeeps ==
    ASSUME NEW m, NEW h, NEW ws, NEW st, Sound(m, h, ws, st),
           NEW us, Alike(ws, us),
           \A i \in 1..Len(ws) :
              /\ us[i].code = "2constant" => ws[i].cells = 2
              /\ us[i].code \in {"create", "does"} => ws[i].code \in {"create", "does"}
    PROVE  Sound(m, h, us, st)
<1>1. us \in Seq(Word) /\ Len(us) = Len(ws)
  BY DEF Alike
<1>2. \A i \in 1..Len(ws) :
         /\ us[i].name = ws[i].name /\ us[i].word = ws[i].word /\ us[i].cells = ws[i].cells
         /\ Param(us[i]) = Param(ws[i]) /\ EndOf(us[i]) = EndOf(ws[i])
  BY DEF Alike, Param, EndOf
<1>3. Laid(h, us)
  <2>1. Len(us) <= MaxWords
    BY <1>1 DEF Sound, Laid
  <2>2. \A i \in 1..Len(us) :
           /\ us[i].name < us[i].word /\ us[i].word % CellSize = 0 /\ EndOf(us[i]) <= h
           /\ us[i].code = "2constant" => us[i].cells = 2
    BY <1>1, <1>2 DEF Sound, Laid
  <2>3. \A i, j \in 1..Len(us) : i < j => EndOf(us[i]) <= us[j].name
    BY <1>1, <1>2 DEF Sound, Laid
  <2> QED BY <1>1, <2>1, <2>2, <2>3 DEF Laid
<1>4. Whole(m, us)
  BY <1>1, <1>2 DEF Sound, Whole
<1>5. Kept(m, h, us, st)
  BY <1>1, <1>2 DEF Sound, Kept
<1> QED BY <1>3, <1>4, <1>5 DEF Sound

(* So does here when it goes up. *)
LEMMA UpKeeps ==
    ASSUME NEW m, NEW h, NEW ws, NEW st, Sound(m, h, ws, st), NEW g \in h..Limit
    PROVE  Sound(m, g, ws, st)
<1>1. Limit \in Nat /\ h \in Nat /\ g \in Nat /\ g \in 0..Limit /\ h <= g
  BY CellFacts, WordFacts DEF Sound
<1>2. Laid(g, ws)
  <2>1. \A i \in 1..Len(ws) : EndOf(ws[i]) <= g
    BY <1>1, WordFacts
  <2> QED BY <2>1 DEF Sound, Laid
<1>3. Kept(m, g, ws, st)
  BY <1>1 DEF Sound, Kept
<1> QED BY <1>1, <1>2, <1>3 DEF Sound

(* What is written at here, which then goes behind it, was nobody's.         *)
LEMMA AppendKeeps ==
    ASSUME NEW m, NEW h, NEW ws, NEW st, Sound(m, h, ws, st),
           NEW seq \in Seq(Byte), h + Len(seq) <= Limit
    PROVE  Sound(Written(m, h, seq), h + Len(seq), ws, Noted(st, h, seq))
<1> DEFINE g == h + Len(seq)
           n == Written(m, h, seq)
           s == Noted(st, h, seq)
<1>1. Limit \in Nat /\ h \in Nat /\ Len(seq) \in Nat /\ g \in Nat /\ g \in 0..Limit /\ h <= g
  BY CellFacts, WordFacts
<1>2. m \in [Bytes -> Byte]
  BY DEF Sound
<1>3. n \in [Bytes -> Byte]
  BY <1>1, <1>2, WrittenFacts
<1>4. \A x \in 0..(h - 1) : x \in Bytes /\ n[x] = m[x]
  <2>1. \A x \in 0..(h - 1) : x \in Bytes /\ x < h
    BY <1>1 DEF Bytes
  <2> QED BY <1>1, <1>2, <2>1, WrittenFacts
<1>5. Laid(g, ws)
  <2>1. \A i \in 1..Len(ws) : EndOf(ws[i]) <= g
    BY <1>1, WordFacts
  <2> QED BY <2>1 DEF Sound, Laid
<1>6. Whole(n, ws)
  <2> SUFFICES ASSUME NEW i \in 1..Len(ws), NEW a \in ws[i].name..(Param(ws[i]) - 1)
               PROVE  n[a] = <<"word", i>>
    BY DEF Whole
  <2>1. a \in 0..(h - 1)
    BY <1>1, WordFacts
  <2>2. m[a] = <<"word", i>>
    BY DEF Sound, Whole
  <2> QED BY <1>4, <2>1, <2>2
<1>7. Kept(n, g, ws, s)
  <2> SUFFICES ASSUME NEW a \in DOMAIN s
               PROVE  /\ a \in 0..(g - 1) /\ n[a] = s[a]
                      /\ \A i \in 1..Len(ws) :
                            /\ a < ws[i].name \/ a >= Param(ws[i])
                            /\ ws[i].code \in {"create", "does"} => a < Param(ws[i]) \/ a >= EndOf(ws[i])
    BY DEF Kept
  <2>1. CASE a \in h..(h + Len(seq) - 1)
    <3>1. s[a] = seq[a - h + 1]
      BY <1>1, <2>1, NotedFacts
    <3>2. a \in Bytes /\ a >= h /\ a < h + Len(seq) /\ a \in 0..(g - 1)
      BY <1>1, <2>1 DEF Bytes
    <3>3. n[a] = seq[a - h + 1]
      BY <1>1, <1>2, <3>2, WrittenFacts
    <3>4. \A i \in 1..Len(ws) : a >= Param(ws[i]) /\ a >= EndOf(ws[i])
      BY <1>1, <3>2, WordFacts
    <3> QED BY <3>1, <3>2, <3>3, <3>4
  <2>2. CASE a \notin h..(h + Len(seq) - 1)
    <3>1. a \in DOMAIN st /\ s[a] = st[a]
      BY <2>2 DEF Noted
    <3>2. a \in 0..(h - 1) /\ m[a] = st[a]
      BY <3>1 DEF Sound, Kept
    <3>3. n[a] = s[a] /\ a \in 0..(g - 1)
      BY <1>1, <1>4, <3>1, <3>2
    <3> QED BY <3>1, <3>3 DEF Sound, Kept
  <2> QED BY <2>1, <2>2
<1> QED BY <1>1, <1>3, <1>5, <1>6, <1>7 DEF Sound

(* A new word takes the bytes from here on for its name and its fields.      *)
LEMMA WordKeeps ==
    ASSUME NEW m, NEW h, NEW ws, NEW st, Sound(m, h, ws, st), Len(ws) < MaxWords,
           NEW w \in Word, w.name = h, h < w.word, w.word % CellSize = 0,
           w.code = "2constant" => w.cells = 2,
           NEW g \in EndOf(w)..Limit,
           NEW seq \in Seq(Byte), Len(seq) = Param(w) - h,
           \A k \in 1..Len(seq) : seq[k] = <<"word", Len(ws) + 1>>
    PROVE  Sound(Written(m, h, seq), g, Append(ws, w), st)
<1> DEFINE us == Append(ws, w)
           n == Written(m, h, seq)
<1>1. Limit \in Nat /\ h \in Nat /\ ws \in Seq(Word) /\ Len(ws) \in Nat /\ CellSize \in Nat /\ CellSize >= 1
  BY CellFacts, WordFacts
<1>0. Len(seq) \in Nat /\ Len(ws) + 1 \in Nat
  BY <1>1
<1>2. w.word \in Nat /\ w.cells \in Nat /\ Param(w) \in Nat /\ h < Param(w)
  BY <1>1 DEF Word, Param
<1>3. EndOf(w) \in Nat /\ Param(w) <= EndOf(w)
  <2>1. w.cells * CellSize \in Nat
    BY <1>1, <1>2
  <2> QED BY <1>2, <2>1 DEF EndOf
<1>4. g \in Nat /\ g \in 0..Limit /\ EndOf(w) <= g /\ h <= g /\ Param(w) <= g
  BY <1>1, <1>2, <1>3
<1>5. /\ us \in Seq(Word) /\ Len(us) = Len(ws) + 1 /\ us[Len(ws) + 1] = w
      /\ \A i \in 1..Len(ws) : us[i] = ws[i]
  BY <1>1
<1>6. m \in [Bytes -> Byte] /\ n \in [Bytes -> Byte]
  BY <1>1, WrittenFacts DEF Sound
<1>7. \A x \in 0..(h - 1) : n[x] = m[x]
  <2>1. \A x \in 0..(h - 1) : x \in Bytes /\ x < h
    BY <1>1, <1>4 DEF Bytes
  <2> QED BY <1>0, <1>1, <1>6, <2>1, WrittenFacts
<1> HIDE DEF us, n
<1>8. Laid(g, us)
  <2>1. Len(us) <= MaxWords
    BY <1>1, <1>5, SpaceAssumption
  <2>2. \A i \in 1..Len(us) :
           /\ us[i].name < us[i].word /\ us[i].word % CellSize = 0 /\ EndOf(us[i]) <= g
           /\ us[i].code = "2constant" => us[i].cells = 2
    <3> SUFFICES ASSUME NEW i \in 1..Len(us)
                 PROVE  /\ us[i].name < us[i].word /\ us[i].word % CellSize = 0 /\ EndOf(us[i]) <= g
                        /\ us[i].code = "2constant" => us[i].cells = 2
      OBVIOUS
    <3>1. CASE i \in 1..Len(ws)
      <4>1. EndOf(us[i]) <= g
        BY <1>1, <1>4, <1>5, <3>1, WordFacts
      <4> QED BY <1>5, <3>1, <4>1 DEF Sound, Laid
    <3>2. CASE i = Len(ws) + 1
      BY <1>4, <1>5, <3>2
    <3> QED BY <1>1, <1>5, <3>1, <3>2
  <2>3. \A i, j \in 1..Len(us) : i < j => EndOf(us[i]) <= us[j].name
    <3> SUFFICES ASSUME NEW i \in 1..Len(us), NEW j \in 1..Len(us), i < j
                 PROVE  EndOf(us[i]) <= us[j].name
      OBVIOUS
    <3>0. Len(us) = Len(ws) + 1
      BY <1>5
    <3>1. i \in 1..Len(ws) /\ (j \in 1..Len(ws) \/ j = Len(ws) + 1)
      BY <1>1, <3>0
    <3>2. CASE j \in 1..Len(ws)
      BY <1>5, <3>1, <3>2 DEF Sound, Laid
    <3>3. CASE j = Len(ws) + 1
      BY <1>5, <3>1, <3>3, WordFacts
    <3> QED BY <3>1, <3>2, <3>3
  <2> QED BY <1>5, <2>1, <2>2, <2>3 DEF Laid
<1>9. Whole(n, us)
  <2> SUFFICES ASSUME NEW i \in 1..Len(us), NEW a \in us[i].name..(Param(us[i]) - 1)
               PROVE  n[a] = <<"word", i>>
    BY DEF Whole
  <2>1. CASE i \in 1..Len(ws)
    <3>1. a \in ws[i].name..(Param(ws[i]) - 1)
      BY <1>5, <2>1
    <3>2. a \in 0..(h - 1)
      BY <1>1, <2>1, <3>1, WordFacts
    <3>3. m[a] = <<"word", i>>
      BY <2>1, <3>1 DEF Sound, Whole
    <3> QED BY <1>7, <3>2, <3>3
  <2>2. CASE i = Len(ws) + 1
    <3>1. a \in h..(Param(w) - 1)
      BY <1>5, <2>2
    <3>2. a \in Bytes /\ a >= h /\ a < h + Len(seq) /\ a - h + 1 \in 1..Len(seq)
      BY <1>1, <1>2, <1>4, <3>1 DEF Bytes
    <3>3. n[a] = seq[a - h + 1]
      BY <1>1, <1>6, <3>2, WrittenFacts DEF n
    <3> QED BY <2>2, <3>2, <3>3
  <2> QED BY <1>1, <1>5, <2>1, <2>2
<1>10. Kept(n, g, us, st)
  <2> SUFFICES ASSUME NEW a \in DOMAIN st
               PROVE  /\ a \in 0..(g - 1) /\ n[a] = st[a]
                      /\ \A i \in 1..Len(us) :
                            /\ a < us[i].name \/ a >= Param(us[i])
                            /\ us[i].code \in {"create", "does"} => a < Param(us[i]) \/ a >= EndOf(us[i])
    BY DEF Kept
  <2>1. a \in 0..(h - 1) /\ m[a] = st[a]
    BY DEF Sound, Kept
  <2>2. a \in 0..(g - 1) /\ n[a] = st[a]
    BY <1>1, <1>4, <1>7, <2>1
  <2>3. a < h /\ a < Param(w)
    BY <1>1, <1>2, <2>1
  <2>4. ASSUME NEW i \in 1..Len(us)
        PROVE  /\ a < us[i].name \/ a >= Param(us[i])
               /\ us[i].code \in {"create", "does"} => a < Param(us[i]) \/ a >= EndOf(us[i])
    <3>1. CASE i \in 1..Len(ws)
      BY <1>5, <3>1 DEF Sound, Kept
    <3>2. CASE i = Len(ws) + 1
      BY <1>5, <2>3, <3>2
    <3> QED BY <1>1, <1>5, <3>1, <3>2
  <2> QED BY <2>2, <2>4
<1> QED BY <1>4, <1>6, <1>8, <1>9, <1>10 DEF Sound, us, n

(* A word's own cells lie apart from all other words.                        *)
LEMMA CellsApart ==
    ASSUME NEW m, NEW h, NEW ws, NEW st, Sound(m, h, ws, st),
           NEW i \in 1..Len(ws), NEW a \in Param(ws[i])..(EndOf(ws[i]) - 1)
    PROVE  /\ a \in 0..(h - 1) /\ a \in Bytes
           /\ \A j \in 1..Len(ws) :
                 /\ a < ws[j].name \/ a >= Param(ws[j])
                 /\ j # i => a < ws[j].name \/ a >= EndOf(ws[j])
<1>1. Limit \in Nat /\ h \in 0..Limit /\ a \in Int
  BY CellFacts, WordFacts DEF Sound
<1>2. a \in 0..(h - 1) /\ a \in Bytes
  BY <1>1, WordFacts DEF Bytes
<1>3. ASSUME NEW j \in 1..Len(ws)
      PROVE  /\ a < ws[j].name \/ a >= Param(ws[j])
             /\ j # i => a < ws[j].name \/ a >= EndOf(ws[j])
  <2>1. i \in Nat /\ j \in Nat /\ (j = i \/ j < i \/ i < j)
    OBVIOUS
  <2>2. CASE j = i
    BY <1>1, <2>2, WordFacts
  <2>3. CASE j < i
    <3>1. EndOf(ws[j]) <= ws[i].name
      BY <2>3 DEF Sound, Laid
    <3> QED BY <1>1, <3>1, WordFacts
  <2>4. CASE i < j
    <3>1. EndOf(ws[i]) <= ws[j].name
      BY <2>4 DEF Sound, Laid
    <3> QED BY <1>1, <3>1, WordFacts
  <2> QED BY <2>1, <2>2, <2>3, <2>4
<1> QED BY <1>2, <1>3

(* Cells may be written again where they are: as data, or by DOES> in a word *)
(* whose first cell is no data.                                              *)
LEMMA CellsKeep ==
    ASSUME NEW m, NEW h, NEW ws, NEW st, Sound(m, h, ws, st), NEW i \in 1..Len(ws),
           NEW seq \in Seq(Byte), Param(ws[i]) + Len(seq) <= EndOf(ws[i])
    PROVE  /\ ws[i].code \notin {"create", "does"}
                 => Sound(Written(m, Param(ws[i]), seq), h, ws, Noted(st, Param(ws[i]), seq))
           /\ ws[i].code \in {"create", "does"}
                 => Sound(Written(m, Param(ws[i]), seq), h, ws, st)
<1> DEFINE p == Param(ws[i])
           n == Written(m, p, seq)
<1>1. p \in Nat /\ EndOf(ws[i]) \in Nat /\ Len(seq) \in Nat /\ h \in Nat /\ Limit \in Nat
  BY CellFacts, WordFacts
<1>2. m \in [Bytes -> Byte] /\ n \in [Bytes -> Byte]
  BY <1>1, WrittenFacts DEF Sound
<1>3. \A x \in Bytes : x \in Int
  BY CellFacts DEF Bytes
<1>4. \A x \in Bytes : x \notin p..(EndOf(ws[i]) - 1) => n[x] = m[x]
  <2>1. \A x \in Bytes : x \notin p..(EndOf(ws[i]) - 1) => ~(x >= p /\ x < p + Len(seq))
    BY <1>1, <1>3
  <2> HIDE DEF p
  <2> QED BY <1>1, <1>2, <2>1, WrittenFacts
<1>5. \A x \in p..(p + Len(seq) - 1) : x \in p..(EndOf(ws[i]) - 1)
  BY <1>1
<1>6. Whole(n, ws)
  <2> SUFFICES ASSUME NEW j \in 1..Len(ws), NEW a \in ws[j].name..(Param(ws[j]) - 1)
               PROVE  n[a] = <<"word", j>>
    BY DEF Whole
  <2>1. a \in Int /\ ~(a < ws[j].name \/ a >= Param(ws[j])) /\ a \in 0..(h - 1)
    BY <1>1, WordFacts
  <2>2. a \notin p..(EndOf(ws[i]) - 1)
    BY <2>1, CellsApart
  <2>3. a \in Bytes
    BY <1>1, <2>1 DEF Bytes, Sound
  <2>4. m[a] = <<"word", j>>
    BY DEF Sound, Whole
  <2> QED BY <1>4, <2>2, <2>3, <2>4
<1>7. ASSUME ws[i].code \notin {"create", "does"}
      PROVE  Kept(n, h, ws, Noted(st, p, seq))
  <2> DEFINE s == Noted(st, p, seq)
  <2> SUFFICES ASSUME NEW a \in DOMAIN s
               PROVE  /\ a \in 0..(h - 1) /\ n[a] = s[a]
                      /\ \A j \in 1..Len(ws) :
                            /\ a < ws[j].name \/ a >= Param(ws[j])
                            /\ ws[j].code \in {"create", "does"} => a < Param(ws[j]) \/ a >= EndOf(ws[j])
    BY DEF Kept
  <2>1. CASE a \in p..(p + Len(seq) - 1)
    <3>1. a \in p..(EndOf(ws[i]) - 1)
      BY <1>5, <2>1
    <3>2. a \in 0..(h - 1) /\ a \in Bytes
      BY <3>1, CellsApart
    <3>3. ASSUME NEW j \in 1..Len(ws)
          PROVE  /\ a < ws[j].name \/ a >= Param(ws[j])
                 /\ ws[j].code \in {"create", "does"} => a < Param(ws[j]) \/ a >= EndOf(ws[j])
      <4>1. a < ws[j].name \/ a >= Param(ws[j])
        BY <3>1, CellsApart
      <4>2. CASE j # i
        <5>1. a < ws[j].name \/ a >= EndOf(ws[j])
          BY <3>1, <4>2, CellsApart
        <5> QED BY <3>2, <4>1, <5>1, WordFacts
      <4> QED BY <1>7, <4>1, <4>2
    <3>4. s[a] = seq[a - p + 1]
      BY <2>1 DEF Noted
    <3>5. a >= p /\ a < p + Len(seq)
      BY <1>1, <2>1
    <3>6. n[a] = seq[a - p + 1]
      <4> HIDE DEF p
      <4> QED BY <1>1, <1>2, <3>2, <3>5, WrittenFacts
    <3> QED BY <3>2, <3>3, <3>4, <3>6
  <2>2. CASE a \notin p..(p + Len(seq) - 1)
    <3>1. a \in DOMAIN st /\ s[a] = st[a]
      BY <2>2 DEF Noted
    <3>2. a \in 0..(h - 1) /\ m[a] = st[a] /\ a \in Bytes
      BY <1>1, <3>1 DEF Sound, Kept, Bytes
    <3>3. n[a] = m[a]
      <4>1. ~(a >= p /\ a < p + Len(seq))
        BY <1>1, <2>2, <3>2
      <4> HIDE DEF p
      <4> QED BY <1>1, <1>2, <3>2, <4>1, WrittenFacts
    <3> QED BY <3>1, <3>2, <3>3 DEF Sound, Kept
  <2> QED BY <2>1, <2>2
<1>8. ASSUME ws[i].code \in {"create", "does"}
      PROVE  Kept(n, h, ws, st)
  <2> SUFFICES ASSUME NEW a \in DOMAIN st
               PROVE  n[a] = st[a]
    BY DEF Sound, Kept
  <2>1. a \in 0..(h - 1) /\ m[a] = st[a] /\ a \in Bytes
    BY <1>1 DEF Sound, Kept, Bytes
  <2>2. a < p \/ a >= EndOf(ws[i])
    BY <1>8 DEF Sound, Kept
  <2>3. a \notin p..(EndOf(ws[i]) - 1)
    BY <1>1, <2>1, <2>2
  <2> QED BY <1>4, <2>1, <2>3
<1> QED BY <1>2, <1>6, <1>7, <1>8 DEF Sound

(* What lies behind all words and their cells can be given back.             *)
LEMMA BackKeeps ==
    ASSUME NEW m, NEW h, NEW ws, NEW st, Sound(m, h, ws, st),
           NEW g \in 0..Limit, \A i \in 1..Len(ws) : EndOf(ws[i]) <= g
    PROVE  Sound(GivenBack(m, g), g, ws, Below(st, g))
<1> DEFINE n == GivenBack(m, g)
           s == Below(st, g)
<1>1. Limit \in Nat /\ g \in Nat /\ h \in 0..Limit /\ m \in [Bytes -> Byte]
  BY CellFacts DEF Sound
<1>2. n \in [Bytes -> Byte] /\ \A x \in Bytes : x < g => n[x] = m[x]
  <2>1. <<"free", 0>> \in Byte
    BY DEF Byte
  <2> QED BY <1>1, <2>1 DEF GivenBack
<1>3. Laid(g, ws)
  BY DEF Sound, Laid
<1>4. Whole(n, ws)
  <2> SUFFICES ASSUME NEW j \in 1..Len(ws), NEW a \in ws[j].name..(Param(ws[j]) - 1)
               PROVE  n[a] = <<"word", j>>
    BY DEF Whole
  <2>1. EndOf(ws[j]) <= g
    OBVIOUS
  <2>2. a \in Bytes /\ a < g
    BY <1>1, <2>1, WordFacts DEF Bytes
  <2>3. m[a] = <<"word", j>>
    BY DEF Sound, Whole
  <2> QED BY <1>2, <2>2, <2>3
<1>5. Kept(n, g, ws, s)
  <2> SUFFICES ASSUME NEW a \in DOMAIN s
               PROVE  /\ a \in 0..(g - 1) /\ n[a] = s[a]
                      /\ \A i \in 1..Len(ws) :
                            /\ a < ws[i].name \/ a >= Param(ws[i])
                            /\ ws[i].code \in {"create", "does"} => a < Param(ws[i]) \/ a >= EndOf(ws[i])
    BY DEF Kept
  <2>1. a \in DOMAIN st /\ a < g /\ s[a] = st[a]
    BY DEF Below
  <2>2. a \in 0..(h - 1) /\ m[a] = st[a]
    BY <2>1 DEF Sound, Kept
  <2>3. a \in 0..(g - 1) /\ a \in Bytes
    BY <1>1, <2>1, <2>2 DEF Bytes
  <2>4. n[a] = s[a]
    BY <1>2, <2>1, <2>2, <2>3
  <2> QED BY <2>1, <2>3, <2>4 DEF Sound, Kept
<1> QED BY <1>2, <1>3, <1>4, <1>5 DEF Sound

(* The newest word can go.                                                   *)
LEMMA DropKeeps ==
    ASSUME NEW m, NEW h, NEW ws, NEW st, Sound(m, h, ws, st), ws # << >>
    PROVE  Sound(m, h, SubSeq(ws, 1, Len(ws) - 1), st)
<1> DEFINE us == SubSeq(ws, 1, Len(ws) - 1)
<1>1. ws \in Seq(Word) /\ Len(ws) \in Nat /\ Len(ws) >= 1
  BY WordFacts
<1>2. /\ us \in Seq(Word) /\ Len(us) = Len(ws) - 1
      /\ \A i \in 1..Len(us) : us[i] = ws[i]
  <2> DEFINE k == Len(ws) - 1
  <2>1. k \in Nat /\ 1 \in Int /\ k \in Int /\ \A i \in 1..k : ws[i] \in Word
    BY <1>1
  <2> HIDE DEF k
  <2>2. k - 1 + 1 = k /\ (IF 1 <= k THEN k - 1 + 1 ELSE 0) = k /\ \A i \in 1..k : 1 + i - 1 = i
    BY <2>1
  <2>3. /\ SubSeq(ws, 1, k) \in Seq(Word) /\ Len(SubSeq(ws, 1, k)) = k
        /\ \A i \in 1..k : SubSeq(ws, 1, k)[i] = ws[i]
    BY <2>1, <2>2, SubSeqProperties
  <2> QED BY <2>3 DEF k
<1>3. \A i \in 1..Len(us) : i \in 1..Len(ws)
  BY <1>1, <1>2
<1> HIDE DEF us
<1>4. Laid(h, us)
  <2>1. Len(us) <= MaxWords
    BY <1>1, <1>2, SpaceAssumption DEF Sound, Laid
  <2> QED BY <1>2, <1>3, <2>1 DEF Sound, Laid
<1>5. Whole(m, us)
  BY <1>2, <1>3 DEF Sound, Whole
<1>6. Kept(m, h, us, st)
  BY <1>2, <1>3 DEF Sound, Kept
<1> QED BY <1>4, <1>5, <1>6 DEF Sound, us

-----------------------------------------------------------------------------
(* The operations.                                                           *)

(* What the steps below use of the state. *)
LEMMA SoundFacts ==
    ASSUME IInv
    PROVE  /\ Sound(mem, here, words, stored)
           /\ Limit \in Nat /\ here \in Nat /\ here <= Limit /\ mem \in [Bytes -> Byte]
           /\ words \in Seq(Word) /\ Len(words) \in Nat /\ CellSize \in Nat /\ CellSize >= 1
BY CellFacts, WordFacts DEF IInv, Sound

(* The next word lies behind its name, on a cell. *)
LEMMA AppendStringFacts ==
    ASSUME NEW h \in Nat, NEW length \in NameLengths
    PROVE  /\ AppendString(h, length) \in Nat /\ h < AppendString(h, length)
           /\ \E k \in Nat : AppendString(h, length) = k * CellSize
<1> DEFINE p == h + (IF length > NameLength THEN NameLength ELSE length) + 1
<1>1. length \in Nat /\ NameLength \in Nat /\ CellSize \in Nat
  BY SpaceAssumption
<1>2. p \in Nat /\ h < p
  BY <1>1
<1> HIDE DEF p
<1>3. /\ AlignPointer(p) \in Nat /\ AlignPointer(p) >= p
      /\ \E k \in Nat : AlignPointer(p) = k * CellSize
  BY <1>2, AlignFacts
<1>4. h < AlignPointer(p)
  BY <1>2, <1>3
<1> QED BY <1>3, <1>4 DEF AppendString, p

(* The word that is appended, with any number of cells. *)
LEMMA AppendWordFacts ==
    ASSUME IInv, NEW length \in NameLengths, NEW code \in Codes, NEW smudged \in BOOLEAN,
           NEW cells \in Nat
    PROVE  LET w == AppendWord(length, code, smudged)
               v == [w EXCEPT !.cells = cells]
           IN  /\ w = [w EXCEPT !.cells = 0] /\ w.name = here /\ v.name = here
               /\ v \in Word /\ v.word = AppendString(here, length) /\ here < v.word
               /\ v.word % CellSize = 0 /\ v.code = code /\ v.cells = cells
               /\ Param(v) = Param(w) /\ Param(w) = AppendString(here, length) + CellSize
               /\ EndOf(v) = Param(w) + cells * CellSize
               /\ Param(w) \in Nat /\ here < Param(w)
<1> DEFINE w == AppendWord(length, code, smudged)
           v == [w EXCEPT !.cells = cells]
           p == AppendString(here, length)
<1>1. here \in Nat /\ CellSize \in Nat
  BY SoundFacts
<1>2. p \in Nat /\ here < p /\ p % CellSize = 0
  BY <1>1, AppendStringFacts, MultipleFacts
<1> HIDE DEF p
<1>3. w = [name |-> here, word |-> p, code |-> code, smudged |-> smudged, cells |-> 0]
  BY DEF AppendWord, p
<1>4. v = [name |-> here, word |-> p, code |-> code, smudged |-> smudged, cells |-> cells]
  BY <1>3
<1>5. Param(w) = p + CellSize /\ Param(v) = p + CellSize
  BY <1>3, <1>4 DEF Param
<1>6. v \in Word
  BY <1>1, <1>2, <1>4 DEF Word
<1>7. w = [w EXCEPT !.cells = 0]
  BY <1>3
<1>8. EndOf(v) = Param(w) + cells * CellSize
  BY <1>4, <1>5 DEF EndOf
<1>9. Param(w) \in Nat /\ here < Param(w)
  BY <1>1, <1>2, <1>5
<1> QED BY <1>2, <1>3, <1>4, <1>5, <1>6, <1>7, <1>8, <1>9 DEF p

(* Its parameters lie behind its fields. *)
LEMMA ParamFacts ==
    ASSUME IInv, NEW length \in NameLengths, NEW code \in Codes, NEW smudged \in BOOLEAN
    PROVE  /\ Param(AppendWord(length, code, smudged)) = AppendString(here, length) + CellSize
           /\ Param(AppendWord(length, code, smudged)) \in Nat
<1>1. Param(AppendWord(length, code, smudged)) = AppendString(here, length) + CellSize
  BY DEF Param, AppendWord
<1>2. AppendString(here, length) \in Nat /\ CellSize \in Nat
  BY SoundFacts, AppendStringFacts
<1> QED BY <1>1, <1>2

(* A new word with room for its cells. *)
LEMMA HeadedKeeps ==
    ASSUME IInv, Len(words) < MaxWords,
           NEW length \in NameLengths, NEW code \in Codes, NEW smudged \in BOOLEAN,
           NEW cells \in Nat, code = "2constant" => cells = 2,
           NEW g \in Nat,
           Param(AppendWord(length, code, smudged)) + cells * CellSize <= g, g <= Limit
    PROVE  Sound(Headed(mem, AppendWord(length, code, smudged)), g,
                 Append(words, [AppendWord(length, code, smudged) EXCEPT !.cells = cells]), stored)
<1> DEFINE w == AppendWord(length, code, smudged)
           v == [w EXCEPT !.cells = cells]
           seq == [k \in 1..(Param(w) - w.name) |-> <<"word", Len(words) + 1>>]
<1>1. Sound(mem, here, words, stored) /\ Len(words) \in Nat /\ Limit \in Nat /\ here \in Nat
  BY SoundFacts
<1>2. /\ w.name = here /\ v \in Word /\ v.name = here /\ here < v.word /\ v.word % CellSize = 0
      /\ v.code = code /\ v.cells = cells /\ Param(v) = Param(w)
      /\ EndOf(v) = Param(w) + cells * CellSize /\ Param(w) \in Nat /\ here < Param(w)
  BY AppendWordFacts
<1>3. Len(words) + 1 \in 1..MaxWords
  BY <1>1, SpaceAssumption
<1>4. <<"word", Len(words) + 1>> \in Byte
  BY <1>3 DEF Byte
<1> DEFINE n == Param(w) - w.name
<1>5. n \in Nat /\ n = Param(v) - here
  BY <1>1, <1>2
<1> HIDE DEF w, v, n
<1>6. seq \in [1..n -> Byte] /\ \A k \in 1..n : seq[k] = <<"word", Len(words) + 1>>
  BY <1>4 DEF n
<1> HIDE DEF seq
<1>7. seq \in Seq(Byte) /\ Len(seq) = n
  BY <1>5, <1>6
<1>8. g \in EndOf(v)..Limit
  <2>1. CellSize \in Nat
    BY SoundFacts
  <2>2. cells * CellSize \in Nat
    BY <2>1
  <2>3. EndOf(v) \in Nat /\ EndOf(v) <= g
    BY <1>2, <2>2 DEF w
  <2> QED BY <1>1, <2>3
<1>9. Sound(Written(mem, here, seq), g, Append(words, v), stored)
  BY <1>1, <1>2, <1>5, <1>6, <1>7, <1>8, WordKeeps
<1> QED BY <1>2, <1>9 DEF Headed, seq, v, w

(* A new word whose cells are written at once. *)
LEMMA DefineKeeps ==
    ASSUME IInv, Careful, NEW length \in NameLengths,
           NEW code \in {"primitive", "constant", "2constant"}, NEW vals \in Seq(Values),
           code = "2constant" => Len(vals) = 2, Define(length, code, vals)
    PROVE  IInv'
<1> DEFINE open == FALSE
           w == AppendWord(length, code, open)
           v == [w EXCEPT !.cells = Len(vals)]
           us == Append(words, v)
           a == Param(w)
           g == a + Len(vals) * CellSize
           k == Len(words) + 1
<1>0. open \in BOOLEAN
  OBVIOUS
<1> HIDE DEF open
<1>1. /\ Sound(mem, here, words, stored) /\ words \in Seq(Word) /\ Len(words) \in Nat
      /\ CellSize \in Nat /\ Len(vals) \in Nat /\ code \in Codes
  BY SoundFacts DEF Codes
<1>2. Len(words) < MaxWords /\ AppendString(here, length) + (1 + Len(vals)) * CellSize <= Limit
  BY DEF Define, RoomFor, Obliged, Careful
<1>3. /\ v \in Word /\ v.code = code /\ Param(v) = a /\ a = AppendString(here, length) + CellSize
      /\ EndOf(v) = g /\ a \in Nat
  <2> DEFINE c == Len(vals)
  <2>1. c \in Nat /\ code \in Codes
    BY <1>1
  <2> HIDE DEF c
  <2>2. LET x == AppendWord(length, code, open)
            y == [x EXCEPT !.cells = c]
        IN  /\ y \in Word /\ y.code = code /\ Param(y) = Param(x) /\ EndOf(y) = Param(x) + c * CellSize
            /\ Param(x) = AppendString(here, length) + CellSize /\ Param(x) \in Nat
    BY <1>0, <2>1, AppendWordFacts
  <2> QED BY <2>2 DEF c
<1>4. Len(vals) * CellSize \in Nat /\ g \in Nat /\ g <= Limit
  <2>1. Len(vals) * CellSize \in Nat
    BY <1>1
  <2>2. (1 + Len(vals)) * CellSize = CellSize + Len(vals) * CellSize
    BY <1>1
  <2>3. AppendString(here, length) \in Nat /\ Limit \in Nat
    BY SoundFacts, AppendStringFacts
  <2> HIDE DEF a
  <2> QED BY <1>1, <1>2, <1>3, <2>1, <2>2, <2>3
<1>5. Sound(Headed(mem, w), g, us, stored)
  <2>1. a + Len(vals) * CellSize <= g
    <3>1. \A x \in Nat : x <= x
      OBVIOUS
    <3> QED BY <1>4, <3>1
  <2> QED BY <1>0, <1>1, <1>2, <1>4, <2>1, HeadedKeeps
<1>6. us \in Seq(Word) /\ k \in 1..Len(us) /\ us[k] = v
  BY <1>1, <1>3
<1>7. /\ mem' = Written(Headed(mem, w), a, CellsOf(vals)) /\ here' = g /\ words' = us
      /\ stored' = Noted(stored, a, CellsOf(vals))
  BY DEF Define, open
<1>8. CellsOf(vals) \in Seq(Byte) /\ Len(CellsOf(vals)) = Len(vals) * CellSize
  BY CellsOfFacts
<1> HIDE DEF w, v, us, k
<1>9. Param(us[k]) = a /\ Param(us[k]) + Len(CellsOf(vals)) <= EndOf(us[k])
  BY <1>3, <1>4, <1>6, <1>8
<1>10. us[k].code \notin {"create", "does"}
  BY <1>3, <1>6
<1>11. Sound(Written(Headed(mem, w), a, CellsOf(vals)), g, us, Noted(stored, a, CellsOf(vals)))
  <2> HIDE DEF g, a
  <2> QED BY <1>5, <1>6, <1>8, <1>9, <1>10, CellsKeep
<1> QED BY <1>7, <1>11 DEF IInv

(* Where here is when ALLOT was asked for so many cells at p. *)
Reached(h, p, cells) ==
    \E c \in {0, cells} :
        h = p + c * CellSize /\ h \in Nat /\ h <= Limit /\ (h - p) \div CellSize = c

(* ALLOT's check counts cells as bytes; with a whole cell left, and not just *)
(* one for two, nothing ends behind the dictionary.                          *)
LEMMA AllottedFacts ==
    ASSUME NEW k \in Nat, NEW p \in Nat, p = k * CellSize, p <= Limit, NEW cells \in {1, 2},
           cells = 2 => CellsAvailable(p) # 1,
           NEW h, h = AllottedCells(p, cells)
    PROVE  Reached(h, p, cells)
<1>1. CellSize \in Nat /\ CellSize >= 1 /\ Size \in Nat /\ Limit \in Nat /\ p \in Nat
  BY CellFacts
<1>2. \A c \in {0, cells} : /\ c * CellSize \in Nat /\ p + c * CellSize \in Nat
                            /\ (p + c * CellSize - p) \div CellSize = c
  <2> SUFFICES ASSUME NEW c \in {0, cells}
               PROVE  /\ c * CellSize \in Nat /\ p + c * CellSize \in Nat
                      /\ (p + c * CellSize - p) \div CellSize = c
    OBVIOUS
  <2>1. c \in Nat /\ c * CellSize \in Nat
    BY <1>1
  <2>2. (c * CellSize) \div CellSize = c
    BY <2>1, MultipleFacts
  <2>3. p + c * CellSize - p = c * CellSize
    BY <1>1, <2>1
  <2> QED BY <1>1, <2>1, <2>2, <2>3
<1>3. CellsAvailable(p) = Size - k
  BY MultipleFacts DEF CellsAvailable, CellsUsed
<1>4. CASE CheckPasses(p, cells)
  <2>1. (Size - k) * CellSize >= cells
    BY <1>3, <1>4 DEF CheckPasses
  <2>2. Size - k >= 1
    <3>1. ~(Size - k <= 0)
      <4>1. Size - k <= 0 => (Size - k) * CellSize <= 0 * CellSize
        BY <1>1, CellsWithin
      <4>2. 0 * CellSize = 0
        BY <1>1
      <4>3. (Size - k) * CellSize \in Int
        BY <1>1
      <4> QED BY <2>1, <4>1, <4>2, <4>3
    <3> QED BY <1>1, <3>1
  <2>3. k + cells <= Size
    BY <1>1, <1>3, <2>2
  <2>4. (k + cells) * CellSize <= Size * CellSize
    BY <1>1, <2>3, CellsWithin
  <2>5. p + cells * CellSize = (k + cells) * CellSize
    BY <1>1
  <2>6. p + cells * CellSize <= Limit
    BY <2>4, <2>5 DEF Limit
  <2>7. AllottedCells(p, cells) = p + cells * CellSize
    BY <1>4 DEF AllottedCells
  <2>8. h = p + cells * CellSize
    BY <2>7
  <2> QED BY <1>2, <2>6, <2>8 DEF Reached
<1>5. CASE ~CheckPasses(p, cells)
  <2>1. 0 * CellSize = 0 /\ p + 0 = p
    BY <1>1
  <2>2. AllottedCells(p, cells) = p + 0 * CellSize
    BY <1>5, <2>1 DEF AllottedCells
  <2>3. p + 0 * CellSize <= Limit
    BY <2>1
  <2>4. h = p + 0 * CellSize
    BY <2>2
  <2> QED BY <1>2, <2>3, <2>4 DEF Reached
<1> QED BY <1>4, <1>5

(* A new word whose cells are reserved, if the check lets them. *)
LEMMA ReserveKeeps ==
    ASSUME IInv, Careful, NEW length \in NameLengths, NEW code \in {"variable", "create"},
           NEW cells \in {1, 2}, Reserve(length, code, cells),
           cells = 2 => CellsAvailable(AppendString(here, length) + CellSize) # 1
    PROVE  IInv'
<1> DEFINE open == FALSE
           w == AppendWord(length, code, open)
<1>0. open \in BOOLEAN
  OBVIOUS
<1>p. PICK p : p = Param(w)
  OBVIOUS
<1>h. PICK h : h = AllottedCells(p, cells)
  OBVIOUS
<1> HIDE DEF open
<1>1. Len(words) < MaxWords /\ AppendString(here, length) + (1 + 0) * CellSize <= Limit
  BY DEF Reserve, RoomFor, Obliged, Careful
<1>2. CellSize \in Nat /\ here \in Nat /\ 0 \in Nat /\ code \in Codes
  BY SoundFacts DEF Codes
<1>3. p = AppendString(here, length) + CellSize /\ p \in Nat
  BY <1>0, <1>2, <1>p, ParamFacts
<1>4. p <= Limit
  <2>1. (1 + 0) * CellSize = CellSize
    BY <1>2
  <2> QED BY <1>1, <1>3, <2>1
<1>5. PICK k \in Nat : p = k * CellSize
  <2>1. PICK j \in Nat : AppendString(here, length) = j * CellSize
    BY <1>2, AppendStringFacts
  <2>2. j * CellSize + CellSize = (j + 1) * CellSize /\ j + 1 \in Nat
    BY <1>2, <2>1
  <2> QED BY <1>3, <2>1, <2>2
<1>6. cells = 2 => CellsAvailable(p) # 1
  BY <1>3
<1>7. /\ mem' = Headed(mem, w) /\ here' = h /\ stored' = stored
      /\ words' = Append(words, [w EXCEPT !.cells = (h - p) \div CellSize])
  BY <1>p, <1>h DEF Reserve, open
<1>8. PICK c \in {0, cells} : /\ h = p + c * CellSize /\ h \in Nat /\ h <= Limit
                              /\ (h - p) \div CellSize = c
  <2>1. Reached(h, p, cells)
    BY <1>3, <1>4, <1>5, <1>6, <1>h, AllottedFacts
  <2> QED BY <2>1 DEF Reached
<1>9. c \in Nat
  OBVIOUS
<1> HIDE DEF w
<1>10. Sound(Headed(mem, w), h, Append(words, [w EXCEPT !.cells = c]), stored)
  <2>1. Param(w) + c * CellSize <= h
    <3>1. \A x \in Nat : x <= x
      OBVIOUS
    <3> QED BY <1>8, <1>p, <3>1
  <2>2. code # "2constant"
    OBVIOUS
  <2> QED BY <1>0, <1>1, <1>2, <1>8, <1>9, <2>1, <2>2, HeadedKeeps DEF w
<1> QED BY <1>7, <1>8, <1>10 DEF IInv

(* A new word without cells, open. *)
LEMMA ColonKeeps ==
    ASSUME IInv, Careful, NEW length \in NameLengths, Colon(length)
    PROVE  IInv'
<1> DEFINE open == TRUE
           code == "colon"
           w == AppendWord(length, code, open)
<1>0. open \in BOOLEAN /\ code \in Codes /\ code # "2constant" /\ 0 \in Nat
  BY DEF Codes
<1>7. /\ mem' = Headed(mem, w) /\ here' = Param(w) /\ stored' = stored
      /\ words' = Append(words, w)
  BY DEF Colon
<1> HIDE DEF open, code
<1>1. Len(words) < MaxWords /\ AppendString(here, length) + (1 + 0) * CellSize <= Limit
  BY DEF Colon, RoomFor, Obliged, Careful
<1>2. CellSize \in Nat /\ here \in Nat
  BY SoundFacts
<1>3. /\ Param(w) = AppendString(here, length) + CellSize /\ Param(w) \in Nat
      /\ w = [w EXCEPT !.cells = 0]
  <2>1. LET x == AppendWord(length, code, open)
            y == [x EXCEPT !.cells = 0]
        IN  /\ Param(x) = AppendString(here, length) + CellSize /\ Param(x) \in Nat
            /\ x = [x EXCEPT !.cells = 0]
    BY <1>0, <1>2, AppendWordFacts
  <2> QED BY <2>1
<1>4. Param(w) <= Limit /\ Param(w) + 0 * CellSize <= Param(w)
  <2>1. (1 + 0) * CellSize = CellSize /\ 0 * CellSize = 0
    BY <1>2
  <2> HIDE DEF w
  <2> QED BY <1>1, <1>3, <2>1
<1>5. Sound(Headed(mem, w), Param(w), Append(words, [w EXCEPT !.cells = 0]), stored)
  BY <1>0, <1>1, <1>3, <1>4, HeadedKeeps
<1> QED BY <1>3, <1>5, <1>7 DEF IInv

(* Words of which one has another code lie as before. *)
LEMMA CodeAlike ==
    ASSUME NEW ws \in Seq(Word), NEW i \in 1..Len(ws), NEW c \in Codes
    PROVE  LET us == [ws EXCEPT ![i].code = c]
           IN  /\ Alike(ws, us) /\ us[i].code = c
               /\ \A j \in 1..Len(ws) : j # i => us[j].code = ws[j].code
<1> DEFINE us == [ws EXCEPT ![i].code = c]
<1>1. Len(ws) \in Nat /\ \A j \in 1..Len(ws) : ws[j] \in Word
  OBVIOUS
<1>2. us[i] = [ws[i] EXCEPT !.code = c] /\ \A j \in 1..Len(ws) : j # i => us[j] = ws[j]
  OBVIOUS
<1>3. us[i] \in Word
  <2> HIDE DEF us
  <2> QED BY <1>1, <1>2 DEF Word
<1>4. us \in [1..Len(ws) -> Word]
  BY <1>1, <1>2, <1>3
<1>5. us \in Seq(Word) /\ Len(us) = Len(ws)
  BY <1>1, <1>4
<1>6. us[i].code = c /\ us[i].name = ws[i].name /\ us[i].word = ws[i].word /\ us[i].cells = ws[i].cells
  BY <1>1, <1>2 DEF Word
<1> QED BY <1>2, <1>5, <1>6 DEF Alike

(* So do words of which one is finished. *)
LEMMA SmudgeAlike ==
    ASSUME NEW ws \in Seq(Word), NEW i \in 1..Len(ws), NEW b \in BOOLEAN
    PROVE  LET us == [ws EXCEPT ![i].smudged = b]
           IN  Alike(ws, us) /\ \A j \in 1..Len(ws) : us[j].code = ws[j].code
<1> DEFINE us == [ws EXCEPT ![i].smudged = b]
<1>1. Len(ws) \in Nat /\ \A j \in 1..Len(ws) : ws[j] \in Word
  OBVIOUS
<1>2. us[i] = [ws[i] EXCEPT !.smudged = b] /\ \A j \in 1..Len(ws) : j # i => us[j] = ws[j]
  OBVIOUS
<1>3. us[i] \in Word
  <2> HIDE DEF us
  <2> QED BY <1>1, <1>2 DEF Word
<1>4. us \in [1..Len(ws) -> Word]
  BY <1>1, <1>2, <1>3
<1>5. us \in Seq(Word) /\ Len(us) = Len(ws)
  BY <1>1, <1>4
<1>6. us[i].code = ws[i].code /\ us[i].name = ws[i].name /\ us[i].word = ws[i].word /\ us[i].cells = ws[i].cells
  BY <1>1, <1>2 DEF Word
<1> QED BY <1>2, <1>5, <1>6 DEF Alike

(* A cell, compiled or stored. *)
LEMMA CellKeeps ==
    ASSUME IInv, Careful, NEW v \in Values \cup Data \cup {"ip", "exit"}, AppendCell(v)
    PROVE  Sound(mem', here', words, stored')
<1>1. CellOf(v) \in Seq(Byte) /\ Len(CellOf(v)) = CellSize
  BY CellOfFacts
<1>2. /\ here + CellSize <= Limit /\ mem' = Written(mem, here, CellOf(v))
      /\ here' = here + CellSize /\ stored' = Noted(stored, here, CellOf(v))
  BY DEF AppendCell, Obliged, Careful
<1>3. Sound(mem, here, words, stored)
  BY SoundFacts
<1>4. Sound(Written(mem, here, CellOf(v)), here + Len(CellOf(v)), words, Noted(stored, here, CellOf(v)))
  BY <1>1, <1>2, <1>3, AppendKeeps
<1> QED BY <1>1, <1>2, <1>4

(* A cell of data. *)
LEMMA CommaKeeps ==
    ASSUME IInv, Careful, NEW v \in Data, Comma(v)
    PROVE  IInv'
BY CellKeeps DEF Comma, IInv

(* The last cell of a definition, which is then finished. *)
LEMMA SemicolonKeeps ==
    ASSUME IInv, Careful, Semicolon
    PROVE  IInv'
<1> DEFINE last == Len(words)
           open == FALSE
           us == [words EXCEPT ![last].smudged = open]
<1>1. Sound(mem', here', words, stored') /\ words # << >> /\ words' = us
  BY CellKeeps DEF Semicolon, Compiling
<1>2. words \in Seq(Word) /\ last \in 1..Len(words) /\ open \in BOOLEAN
  BY <1>1, SoundFacts
<1> HIDE DEF last, open
<1>3. Alike(words, us) /\ \A j \in 1..Len(words) : us[j].code = words[j].code
  BY <1>2, SmudgeAlike
<1>4. \A j \in 1..Len(words) : words[j].code = "2constant" => words[j].cells = 2
  BY <1>1 DEF Sound, Laid
<1> HIDE DEF us
<1>5. Sound(mem', here', us, stored')
  BY <1>1, <1>3, <1>4, MarkKeeps
<1> QED BY <1>1, <1>5 DEF IInv

(* A byte of data. *)
LEMMA CCommaKeeps ==
    ASSUME IInv, Careful, NEW v \in Data, CComma(v)
    PROVE  IInv'
<1> DEFINE seq == << <<v, 1>> >>
<1>1. Sound(mem, here, words, stored) /\ CellSize \in Nat /\ CellSize >= 1 /\ here \in Nat /\ Limit \in Nat
  BY SoundFacts
<1>2. <<v, 1>> \in Byte
  BY <1>1 DEF Byte
<1>3. seq \in Seq(Byte) /\ Len(seq) = 1
  BY <1>2
<1>4. /\ here < Limit /\ mem' = Written(mem, here, seq) /\ here' = here + 1
      /\ stored' = Noted(stored, here, seq) /\ words' = words
  BY DEF CComma, Obliged, Careful
<1> HIDE DEF seq
<1>5. Sound(Written(mem, here, seq), here + Len(seq), words, Noted(stored, here, seq))
  <2>1. here + Len(seq) <= Limit
    BY <1>1, <1>3, <1>4
  <2> QED BY <1>1, <1>3, <2>1, AppendKeeps
<1> QED BY <1>3, <1>4, <1>5 DEF IInv

(* Aligning stays inside, as the dictionary ends on a cell. *)
LEMMA AlignKeeps ==
    ASSUME IInv, Align
    PROVE  IInv'
<1>1. /\ Sound(mem, here, words, stored) /\ CellSize \in Nat /\ CellSize >= 1 /\ here \in Nat
      /\ Limit \in Nat /\ here <= Limit /\ Size \in Nat
  BY SoundFacts, CellFacts
<1>2. PICK k \in Nat : AlignPointer(here) = k * CellSize
  BY <1>1, AlignFacts
<1>3. AlignPointer(here) \in Nat /\ AlignPointer(here) >= here /\ AlignPointer(here) < here + CellSize
  BY <1>1, AlignFacts
<1>4. k <= Size
  <2>1. (Size + 1) * CellSize = Limit + CellSize /\ (Size + 1) * CellSize \in Nat
    BY <1>1 DEF Limit
  <2>2. k * CellSize < (Size + 1) * CellSize
    BY <1>1, <1>2, <1>3, <2>1
  <2>3. ~(Size + 1 <= k)
    <3>1. k * CellSize \in Int
      BY <1>1
    <3>2. ~((Size + 1) * CellSize <= k * CellSize)
      BY <2>1, <2>2, <3>1
    <3> QED BY <1>1, <3>2, CellsWithin
  <2> QED BY <1>1, <2>3
<1>5. AlignPointer(here) <= Limit
  BY <1>1, <1>2, <1>4, CellsWithin DEF Limit
<1>6. AlignPointer(here) \in here..Limit
  BY <1>1, <1>3, <1>5
<1>7. Sound(mem, AlignPointer(here), words, stored)
  BY <1>1, <1>6, UpKeeps
<1> QED BY <1>7 DEF Align, IInv

(* ALLOT in both directions. *)
LEMMA AllotKeeps ==
    ASSUME IInv, Careful, NEW n \in Int, Allot(n)
    PROVE  IInv'
<1> DEFINE g == here + n
<1>1. /\ Sound(mem, here, words, stored) /\ words \in Seq(Word) /\ Len(words) \in Nat
      /\ here \in Nat /\ Limit \in Nat
  BY SoundFacts
<1>2. /\ g >= OwnFrom /\ g <= Limit /\ here' = g /\ stored' = Below(stored, g)
      /\ mem' = GivenBack(mem, g) /\ words' = words
  BY DEF Allot, Obliged, Careful
<1>3. g \in 0..Limit /\ \A i \in 1..Len(words) : EndOf(words[i]) <= g
  <2>1. CASE words = << >>
    <3>1. OwnFrom = 0 /\ Len(words) = 0
      BY <2>1 DEF OwnFrom
    <3> QED BY <1>1, <1>2, <3>1
  <2>2. CASE words # << >>
    <3> DEFINE last == Len(words)
    <3>1. last \in 1..Len(words)
      BY <1>1, <2>2
    <3>2. OwnFrom = EndOf(words[last])
      BY <2>2 DEF OwnFrom, EndOf
    <3> HIDE DEF g
    <3>3. EndOf(words[last]) \in Nat /\ EndOf(words[last]) <= g /\ words[last].name <= EndOf(words[last])
          /\ words[last].name \in Nat
      BY <1>1, <1>2, <3>1, <3>2, WordFacts
    <3>4. \A i \in 1..Len(words) : EndOf(words[i]) <= g
      <4> SUFFICES ASSUME NEW i \in 1..Len(words) PROVE EndOf(words[i]) <= g
        OBVIOUS
      <4>1. CASE i = last
        BY <3>3, <4>1
      <4>2. CASE i # last
        <5>1. i < last
          BY <1>1, <4>2
        <5>2. EndOf(words[i]) <= words[last].name
          BY <1>1, <3>1, <5>1 DEF Sound, Laid
        <5>3. EndOf(words[i]) \in Nat
          BY <1>1, WordFacts
        <5>4. g \in Int
          BY <1>1 DEF g
        <5> QED BY <3>3, <5>2, <5>3, <5>4
      <4> QED BY <4>1, <4>2
    <3>5. g \in 0..Limit
      <4>1. g \in Int
        BY <1>1 DEF g
      <4> QED BY <1>1, <1>2, <3>3, <4>1
    <3> QED BY <3>4, <3>5
  <2> QED BY <2>1, <2>2
<1> HIDE DEF g
<1>4. Sound(GivenBack(mem, g), g, words, Below(stored, g))
  BY <1>1, <1>3, BackKeeps
<1> QED BY <1>2, <1>4 DEF IInv

(* The newest word and all behind it go. *)
LEMMA AbortKeeps ==
    ASSUME IInv, AbortDefinition
    PROVE  IInv'
<1> DEFINE last == Len(words)
           g == words[last].name
           us == SubSeq(words, 1, last - 1)
<1>1. words # << >> /\ Sound(mem, here, words, stored)
  BY SoundFacts DEF AbortDefinition, Compiling
<1>2. /\ here' = g /\ words' = us /\ stored' = Below(stored, g) /\ mem' = GivenBack(mem, g)
  BY DEF AbortDefinition, Reclaimed
<1>3. Sound(mem, here, us, stored)
  BY <1>1, DropKeeps
<1>4. /\ words \in Seq(Word) /\ last \in Nat /\ last \in 1..Len(words) /\ here \in Nat /\ Limit \in Nat
      /\ here <= Limit
  BY <1>1, SoundFacts
<1>5. g \in 0..Limit
  <2>1. g \in Nat /\ g < Param(words[last]) /\ Param(words[last]) \in Nat
        /\ Param(words[last]) <= EndOf(words[last]) /\ EndOf(words[last]) <= here /\ EndOf(words[last]) \in Nat
    BY <1>1, <1>4, WordFacts
  <2> HIDE DEF g
  <2> QED BY <1>4, <2>1
<1>6. \A i \in 1..Len(us) : EndOf(us[i]) <= g
  <2> DEFINE k == last - 1
  <2>1. k \in Nat /\ 1 \in Int /\ k \in Int /\ \A i \in 1..k : i \in 1..Len(words) /\ words[i] \in Word
    BY <1>4
  <2> HIDE DEF k
  <2>2. k - 1 + 1 = k /\ (IF 1 <= k THEN k - 1 + 1 ELSE 0) = k /\ \A i \in 1..k : 1 + i - 1 = i
    BY <2>1
  <2>3. Len(SubSeq(words, 1, k)) = k /\ \A i \in 1..k : SubSeq(words, 1, k)[i] = words[i]
    BY <2>1, <2>2, SubSeqProperties
  <2>4. Len(us) = k /\ \A i \in 1..k : us[i] = words[i]
    BY <2>3 DEF k
  <2>5. \A i \in 1..k : i \in 1..Len(words) /\ i < last
    BY <1>4, <2>1 DEF k
  <2>6. \A i \in 1..k : EndOf(words[i]) <= g
    BY <1>1, <1>4, <2>5 DEF Sound, Laid
  <2> HIDE DEF us
  <2> QED BY <2>4, <2>6
<1> HIDE DEF g, us
<1>7. Sound(GivenBack(mem, g), g, us, Below(stored, g))
  BY <1>3, <1>5, <1>6, BackKeeps
<1> QED BY <1>2, <1>7 DEF IInv

(* DOES> writes the cell that holds no data. *)
LEMMA DoesKeeps ==
    ASSUME IInv, Careful, Does
    PROVE  IInv'
<1> DEFINE last == Len(words)
           code == "does"
           us == [words EXCEPT ![last].code = code]
           p == Param(words[last])
           seq == CellOf("ip")
<1>1. /\ words # << >> /\ words[last].code \in {"create", "does"} /\ words[last].cells = 1
      /\ mem' = Written(mem, p, seq) /\ words' = us
      /\ here' = here /\ stored' = stored
  BY DEF Does, Obliged, Careful, CreateCells
<1>2. /\ Sound(mem, here, words, stored) /\ words \in Seq(Word) /\ last \in 1..Len(words)
      /\ CellSize \in Nat /\ code \in Codes
  BY <1>1, SoundFacts DEF Codes
<1>3. seq \in Seq(Byte) /\ Len(seq) = CellSize
  BY CellOfFacts
<1>4. p \in Nat
  BY <1>2, WordFacts
<1>5. EndOf(words[last]) = p + CellSize
  <2>1. 1 * CellSize = CellSize
    BY <1>2
  <2> QED BY <1>1, <2>1 DEF EndOf
<1> HIDE DEF seq, last, code
<1>6. Sound(Written(mem, p, seq), here, words, stored)
  <2>1. p + Len(seq) <= EndOf(words[last])
    BY <1>2, <1>3, <1>4, <1>5
  <2> QED BY <1>1, <1>2, <1>3, <2>1, CellsKeep
<1>7. /\ Alike(words, us) /\ us[last].code = code
      /\ \A j \in 1..Len(words) : j # last => us[j].code = words[j].code
  BY <1>2, CodeAlike
<1>8. \A j \in 1..Len(words) : /\ words[j].code = "2constant" => words[j].cells = 2
                               /\ us[j].code = "2constant" => words[j].cells = 2
                               /\ us[j].code \in {"create", "does"} => words[j].code \in {"create", "does"}
  <2>1. \A j \in 1..Len(words) : words[j].code = "2constant" => words[j].cells = 2
    BY <1>2 DEF Sound, Laid
  <2>2. code # "2constant"
    BY DEF code
  <2> HIDE DEF us
  <2> QED BY <1>1, <1>7, <2>1, <2>2
<1> HIDE DEF us, p
<1>9. Sound(Written(mem, p, seq), here, us, stored)
  BY <1>6, <1>7, <1>8, MarkKeeps
<1> QED BY <1>1, <1>9 DEF IInv

(* A word that becomes a primitive keeps its cells. *)
LEMMA SetPrimitiveKeeps ==
    ASSUME IInv, NEW i \in 1..Len(words), SetPrimitive(i)
    PROVE  IInv'
<1> DEFINE code == "primitive"
           us == [words EXCEPT ![i].code = code]
<1>1. Sound(mem, here, words, stored) /\ words \in Seq(Word) /\ code \in Codes
  BY SoundFacts DEF Codes
<1>2. words' = us /\ mem' = mem /\ here' = here /\ stored' = stored
  BY DEF SetPrimitive
<1>3. code # "2constant" /\ code \notin {"create", "does"}
  OBVIOUS
<1> HIDE DEF code
<1>4. /\ Alike(words, us) /\ us[i].code = code
      /\ \A j \in 1..Len(words) : j # i => us[j].code = words[j].code
  BY <1>1, CodeAlike
<1> HIDE DEF us
<1>5. \A j \in 1..Len(words) : /\ us[j].code = "2constant" => words[j].cells = 2
                               /\ us[j].code \in {"create", "does"} => words[j].code \in {"create", "does"}
  BY <1>1, <1>3, <1>4 DEF Sound, Laid
<1>6. Sound(mem, here, us, stored)
  BY <1>1, <1>4, <1>5, MarkKeeps
<1> QED BY <1>2, <1>6 DEF IInv

(* A word set again in the cells it has. *)
LEMMA SetCellsKeep ==
    ASSUME IInv, NEW i \in 1..Len(words), NEW code \in {"constant", "2constant"},
           NEW vals \in Seq(Values), Len(vals) <= words[i].cells,
           code = "2constant" => words[i].cells = 2, SetCells(i, code, vals)
    PROVE  IInv'
<1> DEFINE us == [words EXCEPT ![i].code = code]
           p == Param(words[i])
           seq == CellsOf(vals)
<1>1. /\ Sound(mem, here, words, stored) /\ words \in Seq(Word) /\ code \in Codes
      /\ CellSize \in Nat /\ words[i].cells \in Nat /\ Len(vals) \in Nat /\ p \in Nat
  BY SoundFacts, WordFacts DEF Codes
<1>2. words' = us /\ mem' = Written(mem, p, seq) /\ here' = here /\ stored' = Noted(stored, p, seq)
  BY DEF SetCells
<1>3. seq \in Seq(Byte) /\ Len(seq) = Len(vals) * CellSize
  BY CellsOfFacts
<1>4. /\ Alike(words, us) /\ us[i].code = code
      /\ \A j \in 1..Len(words) : j # i => us[j].code = words[j].code
  BY <1>1, CodeAlike
<1> HIDE DEF us, seq
<1>5. \A j \in 1..Len(words) : /\ us[j].code = "2constant" => words[j].cells = 2
                               /\ us[j].code \in {"create", "does"} => words[j].code \in {"create", "does"}
  BY <1>1, <1>4 DEF Sound, Laid
<1>6. Sound(mem, here, us, stored)
  BY <1>1, <1>4, <1>5, MarkKeeps
<1>7. i \in 1..Len(us) /\ Param(us[i]) = p /\ EndOf(us[i]) = p + words[i].cells * CellSize
  BY <1>4 DEF Alike, Param, EndOf
<1> HIDE DEF p
<1>8. p + Len(seq) <= p + words[i].cells * CellSize
  <2>1. Len(vals) * CellSize <= words[i].cells * CellSize
    BY <1>1, CellsWithin
  <2>2. Len(vals) * CellSize \in Nat /\ words[i].cells * CellSize \in Nat
    BY <1>1
  <2> QED BY <1>1, <1>3, <2>1, <2>2
<1>9. Sound(Written(mem, p, seq), here, us, Noted(stored, p, seq))
  <2>1. us[i].code \notin {"create", "does"}
    BY <1>4
  <2>2. Param(us[i]) + Len(seq) <= EndOf(us[i])
    BY <1>7, <1>8
  <2> QED BY <1>3, <1>6, <1>7, <2>1, <2>2, CellsKeep
<1> QED BY <1>2, <1>9 DEF IInv

-----------------------------------------------------------------------------
(* The specification.                                                        *)

(* An empty dictionary is sound. *)
LEMMA InitSound ==
    ASSUME Init
    PROVE  IInv
<1>1. CellSize \in Nat /\ Limit \in Nat /\ MaxWords \in Nat
  BY CellFacts, SpaceAssumption
<1>2. <<"free", 0>> \in Byte
  BY DEF Byte
<1>3. mem \in [Bytes -> Byte] /\ here = 0 /\ here \in 0..Limit
  BY <1>1, <1>2 DEF Init
<1>4. words = << >> /\ words \in Seq(Word) /\ Len(words) = 0 /\ DOMAIN stored = {}
  BY DEF Init
<1>5. Laid(here, words)
  BY <1>1, <1>4 DEF Laid
<1>6. Whole(mem, words)
  BY <1>4 DEF Whole
<1>7. Kept(mem, here, words, stored)
  BY <1>4 DEF Kept
<1> QED BY <1>3, <1>5, <1>6, <1>7 DEF IInv, Sound

(* Every step of a careful program keeps it so. *)
LEMMA StepSound ==
    ASSUME IInv, Careful, [Next]_vars
    PROVE  IInv'
<1>1. ASSUME NEW l \in NameLengths, AppendPrimitive(l)
      PROVE  IInv'
  <2>1. << >> \in Seq(Values) /\ Define(l, "primitive", << >>)
    BY <1>1 DEF AppendPrimitive
  <2> QED BY <2>1, DefineKeeps
<1>2. ASSUME NEW l \in NameLengths, NEW v \in Values, Constant(l, v)
      PROVE  IInv'
  <2>1. <<v>> \in Seq(Values) /\ Define(l, "constant", <<v>>)
    BY <1>2 DEF Constant
  <2> QED BY <2>1, DefineKeeps
<1>3. ASSUME NEW l \in NameLengths, NEW v \in Values, NEW u \in Values, TwoConstant(l, v, u)
      PROVE  IInv'
  <2>1. <<v, u>> \in Seq(Values) /\ Len(<<v, u>>) = 2 /\ Define(l, "2constant", <<v, u>>)
    BY <1>3 DEF TwoConstant
  <2> QED BY <2>1, DefineKeeps
<1>4. ASSUME NEW l \in NameLengths, Variable(l) PROVE IInv'
  BY <1>4, ReserveKeeps DEF Variable
<1>5. ASSUME NEW l \in NameLengths, TwoVariable(l) PROVE IInv'
  <2>1. CellsAvailable(AppendString(here, l) + CellSize) # 1 /\ Reserve(l, "variable", 2)
    BY <1>5 DEF TwoVariable, Obliged, Careful
  <2> QED BY <2>1, ReserveKeeps
<1>6. ASSUME NEW l \in NameLengths, Create(l) PROVE IInv'
  BY <1>6, ReserveKeeps DEF Create, CreateCells
<1>7. ASSUME NEW i \in Found, NEW v \in Values, SetConstant(i, v)
      PROVE  IInv'
  <2>1. i \in 1..Len(words) /\ words[i].cells > 0 /\ SetCells(i, "constant", <<v>>)
    BY <1>7 DEF SetConstant, Obliged, Careful, Found
  <2>2. <<v>> \in Seq(Values) /\ Len(<<v>>) = 1
    OBVIOUS
  <2>3. words[i].cells \in Nat
    BY <2>1, SoundFacts, WordFacts
  <2>4. Len(<<v>>) <= words[i].cells
    BY <2>1, <2>2, <2>3
  <2> QED BY <2>1, <2>2, <2>4, SetCellsKeep
<1>8. ASSUME NEW i \in Found, NEW l \in NameLengths, NEW v \in Values, NEW u \in Values,
             Set2Constant(i, l, v, u)
      PROVE  IInv'
  <2>1. CASE words[i].code = "2constant" /\ SetCells(i, "2constant", <<v, u>>)
    <3>1. i \in 1..Len(words)
      BY DEF Found
    <3>2. <<v, u>> \in Seq(Values) /\ Len(<<v, u>>) = 2
      OBVIOUS
    <3>3. words[i].cells = 2
      BY <2>1, <3>1 DEF IInv, Sound, Laid
    <3>4. Len(<<v, u>>) <= words[i].cells
      BY <3>2, <3>3
    <3> QED BY <2>1, <3>1, <3>2, <3>3, <3>4, SetCellsKeep
  <2>2. CASE TwoConstant(l, v, u)
    BY <1>3, <2>2
  <2> QED BY <1>8, <2>1, <2>2 DEF Set2Constant, HasTwoCells
<1>9. ASSUME NEW i \in Found, SetPrimitive(i) PROVE IInv'
  BY <1>9, SetPrimitiveKeeps DEF Found
<1>10. ASSUME NEW n \in (-Limit)..Limit, Allot(n) PROVE IInv'
  <2>1. n \in Int
    BY CellFacts
  <2> QED BY <1>10, <2>1, AllotKeeps
<1>11. CASE UNCHANGED vars
  BY <1>11 DEF vars, IInv
<1> QED
  BY <1>1, <1>2, <1>3, <1>4, <1>5, <1>6, <1>7, <1>8, <1>9, <1>10, <1>11,
     ColonKeeps, SemicolonKeeps, AbortKeeps, AlignKeeps, DoesKeeps, CommaKeeps, CCommaKeeps
  DEF Next

(* Words lie one after the other and keep their bytes, and so does what is   *)
(* stored, in every state a careful program reaches.                         *)
THEOREM SpaceSound ==
    ASSUME Careful PROVE Spec => []IInv
<1>1. Init => IInv
  BY InitSound
<1>2. IInv /\ [Next]_vars => IInv'
  BY StepSound
<1> QED BY <1>1, <1>2, PTL DEF Spec

(* What is sound is of its type. *)
LEMMA SoundTypes ==
    ASSUME IInv
    PROVE  TypeOK
<1>1. /\ Sound(mem, here, words, stored) /\ here \in 0..Limit /\ mem \in [Bytes -> Byte]
      /\ Len(words) <= MaxWords /\ Limit \in Nat /\ CellSize \in Nat /\ Size \in Nat
      /\ Limit = Size * CellSize
  BY SoundFacts, CellFacts DEF IInv, Sound, Laid, Limit
<1>2. ASSUME NEW i \in 1..Len(words)
      PROVE  /\ words[i].name \in Bytes /\ words[i].word \in Bytes
             /\ words[i].code \in Codes /\ words[i].cells \in 0..Size
  <2>1. /\ words[i] \in Word /\ words[i].name \in Nat /\ words[i].word \in Nat /\ words[i].cells \in Nat
        /\ Param(words[i]) \in Nat /\ EndOf(words[i]) \in Nat
        /\ Param(words[i]) <= EndOf(words[i]) /\ EndOf(words[i]) <= here
    BY <1>1, WordFacts
  <2>2. words[i].name < words[i].word /\ words[i].word < Param(words[i])
    <3>1. Param(words[i]) = words[i].word + CellSize /\ CellSize >= 1
      BY CellFacts DEF Param
    <3>2. words[i].name < words[i].word
      BY <1>1 DEF Sound, Laid
    <3> QED BY <1>1, <2>1, <3>1, <3>2
  <2>3. words[i].name \in Bytes /\ words[i].word \in Bytes
    BY <1>1, <2>1, <2>2 DEF Bytes
  <2>4. words[i].cells <= Size
    <3>1. words[i].cells * CellSize \in Nat
      BY <1>1, <2>1
    <3>2. words[i].cells * CellSize <= Size * CellSize
      BY <1>1, <2>1, <3>1 DEF EndOf
    <3>3. words[i].cells \in Int /\ Size \in Int
      BY <1>1, <2>1
    <3> HIDE <1>1, <2>1
    <3> QED BY <3>2, <3>3, CellsWithin
  <2> QED BY <1>1, <2>1, <2>3, <2>4 DEF Word
<1>3. DOMAIN stored \subseteq Bytes
  BY <1>1 DEF Sound, Kept, Bytes
<1> QED BY <1>1, <1>2, <1>3 DEF TypeOK

(* The pointer, the words and the data stay inside the dictionary, although  *)
(* ALLOT counts cells as bytes.                                              *)
THEOREM AlwaysInside ==
    ASSUME Careful PROVE Spec => []TypeOK
BY SpaceSound, SoundTypes, PTL

(* No word's name or fields are ever overwritten, by other words or by data. *)
THEOREM AlwaysWordsWhole ==
    ASSUME Careful PROVE Spec => []WordsWhole
<1>1. IInv => WordsWhole
  BY DEF IInv, Sound, Laid, Whole, WordsWhole
<1> QED BY <1>1, SpaceSound, PTL

(* What a program stored it reads back, until it gives the bytes back.       *)
THEOREM AlwaysStoredKept ==
    ASSUME Careful PROVE Spec => []StoredKept
<1>1. IInv => StoredKept
  <2> SUFFICES ASSUME IInv, NEW a \in DOMAIN stored
               PROVE  a < here /\ mem[a] = stored[a]
    BY DEF StoredKept
  <2>1. here \in Nat /\ a \in 0..(here - 1) /\ mem[a] = stored[a]
    BY SoundFacts DEF IInv, Sound, Kept
  <2> QED BY <2>1
<1> QED BY <1>1, SpaceSound, PTL
=============================================================================

-------------------------- MODULE FiclInstructions -------------------------
(***************************************************************************)
(* The instructions of the inner interpreter (vm.c) that compute: on the   *)
(* data stack, the return stack, the float stack and memory, each with the *)
(* checks it makes of the stacks first (FICL_ROBUST 2).  Those that change *)
(* the flow of control are FiclCompile's, double cells are FiclMath's.     *)
(***************************************************************************)
EXTENDS FiclCells, FiclStack, TLC

CONSTANTS
    DataSize,       \* cells of the data stack, and of the float stack
    ReturnSize,     \* cells of the return stack
    Addresses,      \* the cells of memory, two that follow each other
    Narrow,         \* the bits C@, W@ and Q@ read
    FloatOf(_),     \* ->f of a cell
    CellOf(_),      \* the cell that holds a float
    Rounded(_),     \* the float nearest to an integer
    FloatResult(_, _, _),   \* of + - * / on two floats
    FloatLess(_, _), FloatEqual(_, _), Truncated(_),
    Obligations     \* what the program sees to

(***************************************************************************)
(*   dup_of_something   DUP has a cell to copy                             *)
(*   pick_above_n       PICK has n + 2 cells                               *)
(*   loop_words_fit     I, J, K and RANDOM, SEED-RANDOM have the cells and *)
(*                      the room that they do not check                    *)
(***************************************************************************)
AllObligations == {"dup_of_something", "pick_above_n", "loop_words_fit"}
Keeps(rule) == rule \in Obligations

ASSUME SizesAssumption ==
    DataSize \in Nat /\ ReturnSize \in Nat /\ Narrow \in 1..Bits /\ Addresses \subseteq Cells
ASSUME ObligationsAssumption == Obligations \subseteq AllObligations

VARIABLE vm             \* the data, return and float stack, and memory

-----------------------------------------------------------------------------
(* Words that only move cells: what they check, and where the cells go.      *)

Shuffle(pop, push, moves) == [pop |-> pop, push |-> push, moves |-> moves]

Shuffles == {"dup", "swap", "drop", "2drop", "2dup", "over", "2over", "2swap", "rot", "-rot"}

\* ROT and -ROT are ROLL and -ROLL of two, with the check these make.
Rotation(word) ==
    IF word = "rot" THEN Shuffle(3, 4, 0 :> 2 @@ -1 :> 0 @@ -2 :> 1)
    ELSE Shuffle(3, 4, 0 :> 1 @@ -1 :> 2 @@ -2 :> 0)

DataShuffle(word) ==
    CASE word = "dup"   -> Shuffle(0, 1, 1 :> 0)
      [] word = "swap"  -> Shuffle(2, 2, 0 :> 1 @@ -1 :> 0)
      [] word = "drop"  -> Shuffle(1, 0, << >>)
      [] word = "2drop" -> Shuffle(2, 0, << >>)
      [] word = "2dup"  -> Shuffle(2, 4, 1 :> 1 @@ 2 :> 0)
      [] word = "over"  -> Shuffle(2, 3, 1 :> 1)
      [] word = "2over" -> Shuffle(4, 6, 1 :> 3 @@ 2 :> 2)
      [] word = "2swap" -> Shuffle(4, 4, 0 :> 2 @@ -1 :> 3 @@ -2 :> 0 @@ -3 :> 1)
      [] word \in {"rot", "-rot"} -> Rotation(word)

\* F2OVER copies the second and the third float.
FloatShuffle(word) ==
    IF word = "dup" THEN Shuffle(1, 2, 1 :> 0)
    ELSE IF word = "2over" THEN Shuffle(4, 6, 1 :> 2 @@ 2 :> 1)
    ELSE DataShuffle(word)

Grows(word) ==
    CASE word \in {"dup", "over"} -> 1   [] word \in {"2dup", "2over"} -> 2
      [] word = "drop" -> -1             [] word = "2drop" -> -2
      [] OTHER -> 0

-----------------------------------------------------------------------------
(* What an instruction does to the machine m, or that it is refused.         *)

Refused == [refused |-> TRUE]

Fits(m, d, r, f) ==
    /\ Passes(m.data, DataSize, d[1], d[2]) /\ Passes(m.returns, ReturnSize, r[1], r[2])
    /\ Passes(m.floats, DataSize, f[1], f[2])
None == <<0, 0>>

Data(m, n, cells)    == [m EXCEPT !.data = Replace(@, n, cells)]
Floats(m, n, cells)  == [m EXCEPT !.floats = Replace(@, n, cells)]
Returns(m, n, cells) == [m EXCEPT !.returns = Replace(@, n, cells)]
If(passes, after)    == IF passes THEN after ELSE Refused

Top(m, n)  == Peek(m.data, n)
FTop(m, n) == FloatOf(Peek(m.floats, n))
RTop(m, n) == Peek(m.returns, n)

ShuffleWord(word, m) ==
    LET sh == DataShuffle(word)
    IN  If(Fits(m, <<sh.pop, sh.push>>, None, None),
           [m EXCEPT !.data = Moved(@, sh.moves, Grows(word))])

FShuffleWord(word, m) ==
    LET sh == FloatShuffle(word)
    IN  If(Fits(m, None, None, <<sh.pop, sh.push>>),
           [m EXCEPT !.floats = Moved(@, sh.moves, Grows(word))])

QuestionDup(m) ==
    If(Fits(m, <<1, 2>>, None, None), IF Top(m, 0) = 0 THEN m ELSE Data(m, 0, <<Top(m, 0)>>))

\* A count below 0 stays where it is; PICK's own cell counts as one of the
\* cells that PICK checks, and is number 0 of those it copies.
Pick(m) ==
    LET n == Top(m, 0)
    IN  IF ~Fits(m, <<1, 0>>, None, None) THEN Refused
        ELSE IF n < 0 THEN m
        ELSE If(Fits(m, <<n + 1, n + 2>>, None, None), Data(m, 1, <<Top(m, n)>>))

RollWord(word, m) ==
    LET n == Top(m, 0)
        rest == Data(m, 1, << >>)
    IN  IF ~Fits(m, <<1, 0>>, None, None) THEN Refused
        ELSE IF n < 1 THEN rest
        ELSE If(Fits(rest, <<n + 1, n + 2>>, None, None),
                [rest EXCEPT !.data = IF word = "roll" THEN Roll(@, n) ELSE MinusRoll(@, n)])

Picks == {"?dup", "pick", "roll", "-roll"}
PickWord(word, m) ==
    CASE word = "?dup" -> QuestionDup(m) [] word = "pick" -> Pick(m)
      [] word \in {"roll", "-roll"} -> RollWord(word, m)

FQuestionDup(m) ==
    If(Fits(m, None, None, <<1, 2>>),
       IF FloatEqual(FTop(m, 0), FloatOf(0)) THEN m ELSE Floats(m, 0, <<Peek(m.floats, 0)>>))

\* FPICK copies its float over the cell above the top, which stays where it is.
FPick(m) ==
    LET n == Top(m, 0)
        rest == Data(m, 1, << >>)
    IN  IF ~Fits(m, <<1, 0>>, None, None) THEN Refused
        ELSE If(Fits(rest, None, None, <<n + 1, n + 2>>), rest)

FRollWord(word, m) ==
    LET n == Top(m, 0)
        rest == Data(m, 1, << >>)
    IN  IF ~Fits(m, <<1, 0>>, None, None) THEN Refused
        ELSE IF n < 1 THEN rest
        ELSE If(Fits(rest, None, None, <<n + 1, n + 2>>),
                [rest EXCEPT !.floats = IF word = "froll" THEN Roll(@, n) ELSE MinusRoll(@, n)])

FPicks == {"f?dup", "fpick", "froll", "f-roll"}
FPickWord(word, m) ==
    CASE word = "f?dup" -> FQuestionDup(m) [] word = "fpick" -> FPick(m)
      [] word \in {"froll", "f-roll"} -> FRollWord(word, m)

ReturnWords == {">r", "r>", "r@", "2>r", "2r>", "2r@"}
ReturnWord(word, m) ==
    LET two == <<RTop(m, 1), RTop(m, 0)>>
    IN  CASE word = ">r"  -> If(Fits(m, <<1, 0>>, <<0, 1>>, None),
                                Data(Returns(m, 0, <<Top(m, 0)>>), 1, << >>))
          [] word = "r>"  -> If(Fits(m, <<0, 1>>, <<1, 0>>, None),
                                Returns(Data(m, 0, <<RTop(m, 0)>>), 1, << >>))
          [] word = "r@"  -> If(Fits(m, <<0, 1>>, <<1, 1>>, None), Data(m, 0, <<RTop(m, 0)>>))
          [] word = "2>r" -> If(Fits(m, <<2, 0>>, <<0, 2>>, None),
                                Data(Returns(m, 0, <<Top(m, 1), Top(m, 0)>>), 2, << >>))
          [] word = "2r>" -> If(Fits(m, <<0, 2>>, <<2, 0>>, None), Returns(Data(m, 0, two), 2, << >>))
          [] word = "2r@" -> If(Fits(m, <<0, 2>>, <<2, 2>>, None), Data(m, 0, two))

\* I, J and K read the index of a loop, of the one around it, and of the one
\* around that; each loop has three cells.  None of these words checks.
Unchecked == {"i", "j", "k", "random", "seed-random"}
Index(word) == CASE word = "i" -> 0 [] word = "j" -> 3 [] word = "k" -> 6
UncheckedWord(word, m, any) ==
    CASE word = "random"      -> Data(m, 0, <<any>>)
      [] word = "seed-random" -> Data(m, 1, << >>)
      [] OTHER                -> Data(m, 0, <<RTop(m, Index(word))>>)

\* C@, W@ and Q@ read the low bits of a cell, C!, W! and Q! write them.
Low(x) == U(x) % 2^Narrow
WithLow(old, x) == I(U(old) - Low(old) + Low(x))

Cell(m, a) == m.memory[a]
Stored(m, a, x) == [m EXCEPT !.memory[a] = x]

\* Faulty: 2! stores the top at the higher address.
TwoStored(m, a, x, y) == Stored(Stored(m, a, x), I(a + CellBytes), y)

TwoStore(m, a, x, y) == Stored(Stored(m, a, y), I(a + CellBytes), x)

PlusStore(m) ==
    LET a == Top(m, 0)
    IN  If(Fits(m, <<2, 0>>, None, None), Data(Stored(m, a, I(Cell(m, a) + Top(m, 1))), 2, << >>))

NarrowWord(word, m) ==
    LET a == Top(m, 0)
    IN  IF word = "c@" THEN If(Fits(m, <<1, 1>>, None, None), Data(m, 1, <<I(Low(Cell(m, a)))>>))
        ELSE If(Fits(m, <<2, 0>>, None, None),
                Data(Stored(m, a, WithLow(Cell(m, a), Top(m, 1))), 2, << >>))

MemoryWords == {"@", "!", "c@", "c!", "+!", "2@", "2!"}
MemoryWord(word, m) ==
    LET a == Top(m, 0)
    IN  CASE word = "@"  -> If(Fits(m, <<1, 1>>, None, None), Data(m, 1, <<Cell(m, a)>>))
          [] word = "2@" -> If(Fits(m, <<1, 2>>, None, None),
                               Data(m, 1, <<Cell(m, I(a + CellBytes)), Cell(m, a)>>))
          [] word = "!"  -> If(Fits(m, <<2, 0>>, None, None), Data(Stored(m, a, Top(m, 1)), 2, << >>))
          [] word = "+!" -> PlusStore(m)
          [] word \in {"c@", "c!"} -> NarrowWord(word, m)
          [] word = "2!" -> If(Fits(m, <<3, 0>>, None, None),
                               Data(TwoStore(m, a, Top(m, 2), Top(m, 1)), 3, << >>))

\* The run-time of CREATE, VARIABLE and CONSTANT words whose data is at a.
DataWords == {"variable", "constant", "2constant"}
DataWord(word, m, a) ==
    CASE word = "variable"  -> If(Fits(m, <<0, 1>>, None, None), Data(m, 0, <<a>>))
      [] word = "constant"  -> If(Fits(m, <<0, 1>>, None, None), Data(m, 0, <<Cell(m, a)>>))
      [] word = "2constant" -> If(Fits(m, <<0, 2>>, None, None),
                                  Data(m, 0, <<Cell(m, I(a + CellBytes)), Cell(m, a)>>))

FNumbers == {"f0", "f1", "f-1", "fconstant", "f2constant"}
FNumber(word, m, a) ==
    CASE word = "fconstant" -> If(Fits(m, None, None, <<0, 1>>), Floats(m, 0, <<Cell(m, a)>>))
      [] word = "f2constant" -> If(Fits(m, None, None, <<0, 2>>),
                                   Floats(m, 0, <<Cell(m, I(a + CellBytes)), Cell(m, a)>>))
      [] OTHER -> If(Fits(m, None, None, <<0, 1>>),
                     Floats(m, 0, <<CellOf(Rounded(CASE word = "f0" -> 0 [] word = "f1" -> 1
                                                     [] word = "f-1" -> -1))>>))

FBinary   == {"+", "-", "*", "/"}
FArithmetic(word, m) ==
    If(Fits(m, None, None, <<2, 1>>),
       Floats(m, 2, <<CellOf(FloatResult(word, FTop(m, 1), FTop(m, 0)))>>))

\* The words with an integer read the bits of its cell as a float.
FMixed    == {"+i", "-i", "*i", "/i", "i-", "i/"}
FMixedWord(word, m) ==
    LET i == FloatOf(Top(m, 0))
        f == FTop(m, 0)
        r == CASE word = "+i" -> FloatResult("+", f, i) [] word = "-i" -> FloatResult("-", f, i)
               [] word = "*i" -> FloatResult("*", f, i) [] word = "/i" -> FloatResult("/", f, i)
               [] word = "i-" -> FloatResult("-", i, f) [] word = "i/" -> FloatResult("/", i, f)
    IN  If(Fits(m, <<1, 0>>, None, <<1, 1>>), Floats(Data(m, 1, << >>), 1, <<CellOf(r)>>))

FloatWord(word, m) == IF word \in FBinary THEN FArithmetic(word, m) ELSE FMixedWord(word, m)

FNegate(m) ==
    If(Fits(m, None, None, <<1, 1>>),
       Floats(m, 1, <<CellOf(FloatResult("-", Rounded(0), FTop(m, 0)))>>))

\* Between the stacks: a number as a number, or a cell as it is.
ToFloats(m, cell) == If(Fits(m, <<1, 0>>, None, <<0, 1>>), Data(Floats(m, 0, <<cell>>), 1, << >>))
ToData(m, cell)   == If(Fits(m, <<0, 1>>, None, <<1, 0>>), Floats(Data(m, 0, <<cell>>), 1, << >>))
Converted(word, m) ==
    IF word = "int>float" THEN ToFloats(m, CellOf(Rounded(Top(m, 0))))
    ELSE ToData(m, Truncated(FTop(m, 0)))
Transferred(word, m) ==
    IF word = ">f" THEN ToFloats(m, Top(m, 0)) ELSE ToData(m, Peek(m.floats, 0))

FMoves == {"fnegate", "int>float", "float>int", ">f", "f>s"}
FMove(word, m) ==
    CASE word = "fnegate" -> FNegate(m)
      [] word \in {"int>float", "float>int"} -> Converted(word, m)
      [] word \in {">f", "f>s"} -> Transferred(word, m)

\* F0= is true of the floats that are not 0.
FTests == {"f0=", "f0<", "f0>", "f=", "f<", "f>"}
FTest(word, m) ==
    LET n == IF word \in {"f=", "f<", "f>"} THEN 2 ELSE 1
        x == FTop(m, n - 1)
        y == IF n = 2 THEN FTop(m, 0) ELSE Rounded(0)
        b == CASE word = "f0="          -> ~FloatEqual(x, y)
               [] word = "f="           -> FloatEqual(x, y)
               [] word \in {"f0<", "f<"} -> FloatLess(x, y)
               [] word \in {"f0>", "f>"} -> FloatLess(y, x)
    IN  If(Fits(m, <<0, 1>>, None, <<n, 0>>), Floats(Data(m, 0, <<Flag(b)>>), n, << >>))

FPlusStore(m) ==
    LET a   == Top(m, 0)
        sum == FloatResult("+", FloatOf(Cell(m, a)), FTop(m, 0))
    IN  If(Fits(m, <<1, 0>>, None, <<1, 0>>),
           Floats(Data(Stored(m, a, CellOf(sum)), 1, << >>), 1, << >>))

FMemoryWords == {"f@", "f2@", "f!", "f2!", "f+!"}
FMemoryWord(word, m) ==
    LET a    == Top(m, 0)
        rest == Data(m, 1, << >>)
        f    == Peek(m.floats, 0)
    IN  CASE word = "f@"  -> If(Fits(m, <<1, 0>>, None, <<0, 1>>), Floats(rest, 0, <<Cell(m, a)>>))
          [] word = "f2@" -> If(Fits(m, <<1, 0>>, None, <<0, 2>>),
                                Floats(rest, 0, <<Cell(m, I(a + CellBytes)), Cell(m, a)>>))
          [] word = "f!"  -> If(Fits(m, <<1, 0>>, None, <<1, 0>>), Floats(Stored(rest, a, f), 1, << >>))
          [] word = "f2!" -> If(Fits(m, <<1, 0>>, None, <<2, 0>>),
                                Floats(TwoStore(rest, a, Peek(m.floats, 1), f), 2, << >>))
          [] word = "f+!" -> FPlusStore(m)

Arithmetic(word, m) ==
    IF word \in Unary THEN If(Fits(m, <<1, 1>>, None, None), Data(m, 1, <<OfOne(word, Top(m, 0))>>))
    ELSE If(Fits(m, <<2, 1>>, None, None), Data(m, 2, <<OfTwo(word, Top(m, 1), Top(m, 0))>>))

-----------------------------------------------------------------------------
(* A step of the inner interpreter.  A refused instruction throws: the       *)
(* stacks are emptied, memory is not.                                        *)

NewMachine(memory) == [data |-> << >>, returns |-> << >>, floats |-> << >>, memory |-> memory]
Init == vm = NewMachine([a \in Addresses |-> 0])

Gives(m) == vm' = IF m = Refused THEN NewMachine(vm.memory) ELSE m

Depth   == Len(vm.data)
Address(a) == a \in Addresses /\ I(a + CellBytes) \in Addresses

Literal == \E c \in Cells : Gives(If(Fits(vm, <<0, 1>>, None, None), Data(vm, 0, <<c>>)))

DoShuffle == \E word \in Shuffles :
    /\ Keeps("dup_of_something") /\ word = "dup" => Depth > 0
    /\ Gives(ShuffleWord(word, vm))
DoFShuffle == \E word \in Shuffles : Gives(FShuffleWord(word, vm))
DoPick == \E word \in Picks :
    /\ Keeps("pick_above_n") /\ word = "pick" /\ Depth > 0 => Depth >= Top(vm, 0) + 2
    /\ Gives(PickWord(word, vm))
DoFPick == \E word \in FPicks : Gives(FPickWord(word, vm))
DoReturn == \E word \in ReturnWords : Gives(ReturnWord(word, vm))

Room(word) ==
    LET returns == CASE word = "i" -> 1 [] word = "j" -> 4 [] word = "k" -> 7 [] OTHER -> 0
    IN  /\ Len(vm.returns) >= returns
        /\ IF word = "seed-random" THEN Depth > 0 ELSE Depth < DataSize
DoUnchecked == \E word \in Unchecked, any \in Cells :
    /\ Keeps("loop_words_fit") => Room(word)
    /\ Gives(UncheckedWord(word, vm, any))

DoMemory == \E word \in MemoryWords :
    /\ Depth > 0 => Address(Top(vm, 0))
    /\ Gives(MemoryWord(word, vm))
DoFMemory == \E word \in FMemoryWords :
    /\ Depth > 0 => Address(Top(vm, 0))
    /\ Gives(FMemoryWord(word, vm))
DoData  == \E a \in Addresses, word \in DataWords : Address(a) /\ Gives(DataWord(word, vm, a))
DoFNumber == \E a \in Addresses, word \in FNumbers : Address(a) /\ Gives(FNumber(word, vm, a))

DoArithmetic == \E word \in Unary \cup Binary :
    /\ Depth > 1 => Defined(word, Top(vm, 1), Top(vm, 0))
    /\ Gives(Arithmetic(word, vm))
DoFloat == \E word \in FBinary \cup FMixed : Gives(FloatWord(word, vm))
DoFMove == \E word \in FMoves : Gives(FMove(word, vm))
DoFTest == \E word \in FTests : Gives(FTest(word, vm))

Next ==
    \/ Literal \/ DoShuffle \/ DoFShuffle \/ DoPick \/ DoFPick \/ DoReturn \/ DoUnchecked
    \/ DoMemory \/ DoFMemory \/ DoData \/ DoFNumber \/ DoArithmetic \/ DoFloat \/ DoFMove \/ DoFTest

Spec == Init /\ [][Next]_vm

-----------------------------------------------------------------------------
(* Properties.                                                               *)

(* No instruction that passes its check reads a cell outside its stack or    *)
(* leaves more cells than a stack has: what CHECK_STACK is told matches what *)
(* the instruction does.                                                     *)
StacksWhole ==
    /\ vm.data \in Seq(Cells) /\ Depth <= DataSize
    /\ vm.returns \in Seq(Cells) /\ Len(vm.returns) <= ReturnSize
    /\ vm.floats \in Seq(Cells) /\ Len(vm.floats) <= DataSize
    /\ vm.memory \in [Addresses -> Cells]

\* Stack comments of the words, as the standard and vm.c have them.
Comment == [dup |-> <<1, <<1, 1>>>>, swap |-> <<2, <<2, 1>>>>, over |-> <<2, <<1, 2, 1>>>>,
            drop |-> <<1, << >>>>] @@
           "2drop" :> <<2, << >>>> @@ "2dup" :> <<2, <<1, 2, 1, 2>>>> @@
           "2over" :> <<4, <<1, 2, 3, 4, 1, 2>>>> @@ "2swap" :> <<4, <<3, 4, 1, 2>>>> @@
           "rot" :> <<3, <<2, 3, 1>>>> @@ "-rot" :> <<3, <<3, 1, 2>>>>
Commented(word, s) ==
    LET n == Comment[word][1]
    IN  Replace(s, n, [i \in 1..Len(Comment[word][2]) |-> s[Len(s) - n + Comment[word][2][i]]])

(* The words that move cells do to either stack what their stack comments    *)
(* say, with the assignments in C made one after the other; F2OVER's own     *)
(* comment (vm.c:2032) is left out, which contradicts its check.             *)
StackComments ==
    \A word \in Shuffles :
        LET d == ShuffleWord(word, vm)
            f == FShuffleWord(word, vm)
            n == Comment[word][1]
        IN  /\ Depth >= n /\ d # Refused => d.data = Commented(word, vm.data)
            /\ Len(vm.floats) >= n /\ f # Refused /\ word # "2over" =>
                  f.floats = Commented(word, vm.floats)

(* The cell that a word would want and the room that it would need are what  *)
(* it checks, neither less nor more: it is refused only if a stack would     *)
(* underflow or overflow.  ROT and -ROT, which want room for one cell more,  *)
(* and DUP, which does not check what it copies, are left out.               *)
RefusedRightly ==
    \A word \in Shuffles \ {"rot", "-rot"} :
        LET n == Comment[word][1]
            grow == Len(Comment[word][2]) - n
        IN  /\ word # "dup" =>
                  (ShuffleWord(word, vm) = Refused) = ~(Depth >= n /\ Depth + grow <= DataSize)
            /\ (FShuffleWord(word, vm) = Refused) =
                  ~(Len(vm.floats) >= n /\ Len(vm.floats) + grow <= DataSize)

(* The checks of the instructions are right: what passes them keeps within   *)
(* the stacks, and what would not keep is all that they refuse.              *)
ChecksRight == StacksWhole /\ RefusedRightly

\* A phrase is a sequence of words, run until one is refused.
Word(word, m) ==
    IF word \in Shuffles THEN ShuffleWord(word, m)
    ELSE IF word \in Picks THEN PickWord(word, m)
    ELSE IF word \in ReturnWords THEN ReturnWord(word, m)
    ELSE IF word \in MemoryWords THEN MemoryWord(word, m)
    ELSE Arithmetic(word, m)
Phrase(words, m) ==
    LET after[i \in 0..Len(words)] ==
            IF i = 0 THEN m
            ELSE IF after[i - 1] = Refused THEN Refused ELSE Word(words[i], after[i - 1])
    IN  after[Len(words)]

\* Where one of two phrases is refused for want of room, they need not agree.
Agree(p, q) ==
    Phrase(p, vm) = Phrase(q, vm) \/ Phrase(p, vm) = Refused \/ Phrase(q, vm) = Refused

(* 2@ and 2! are equivalent to DUP CELL+ @ SWAP @ and SWAP OVER ! CELL+ !    *)
(* (vm.c:1514-1517, 1533-1535), the words that move pairs to the return      *)
(* stack and back keep the order of the pair, and rolling back undoes a roll.*)
PhrasesAgree ==
    /\ Depth > 0 /\ Address(Top(vm, 0)) =>
          /\ Agree(<<"2@">>, <<"dup", "cell+", "@", "swap", "@">>)
          /\ Agree(<<"2!">>, <<"swap", "over", "!", "cell+", "!">>)
          /\ Agree(<<"+!">>, <<"dup", "-rot", "@", "+", "swap", "!">>)
    /\ Depth > 1 =>
          /\ Agree(<<"2>r">>, <<"swap", ">r", ">r">>)
          /\ Agree(<<"2>r", "2r>">>, <<"2dup", "2drop">>)
          /\ Agree(<<">">>, <<"swap", "<">>)
    /\ Agree(<<"2r@">>, <<"2r>", "2dup", "2>r">>)
    /\ Agree(<<"r@">>, <<"r>", "dup", ">r">>)
    /\ Depth > 0 => Agree(<<"dup", ">r", "roll", "r>", "-roll">>, <<"drop">>)

=============================================================================

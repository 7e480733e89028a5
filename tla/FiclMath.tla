----------------------------- MODULE FiclMath ------------------------------
(***************************************************************************)
(* The words on double cells and the mixed-precision instructions, on a    *)
(* data stack of up to three cells that literals fill (vm.c, primitives.c, *)
(* double.c).                                                              *)
(***************************************************************************)
EXTENDS FiclCells, TLC

VARIABLE data           \* the data stack, its top last

\* word: what it pops, and what it pushes for that.
Words1 == {"s>d"}
Words2 == {"/mod", "mod", "m*", "um*", "dnegate"}
Words3 == {"*/", "*/mod", "fm/mod", "sm/rem", "um/mod"}
Dividing == {"/mod", "mod", "*/", "*/mod", "fm/mod", "sm/rem", "um/mod"}

Of1(word, x) == SToD(x)
Of2(word, x, y) ==
    CASE word = "/mod" -> SlashMod(x, y) [] word = "mod" -> Mod(x, y)
      [] word = "m*" -> MStar(x, y)      [] word = "um*" -> UMStar(x, y)
      [] word = "dnegate" -> DNegate(x, y)
Of3(word, x, y, z) ==
    CASE word = "*/" -> StarSlash(x, y, z)       [] word = "*/mod" -> StarSlashMod(x, y, z)
      [] word = "fm/mod" -> FMSlashMod(x, y, z)  [] word = "sm/rem" -> SMSlashRem(x, y, z)
      [] word = "um/mod" -> UMSlashMod(x, y, z)

Depth == Len(data)
Top(n) == data[Depth - n]
Leave(n, result) == data' = SubSeq(data, 1, Depth - n) \o result

-----------------------------------------------------------------------------
Init == data = << >>

\* A literal; Ficl checks no more than three cells deep here.
Push == Depth < 3 /\ \E c \in Cells : data' = Append(data, c)

\* Dividing by zero is the program's to avoid: it traps, or never ends.
Divides == Top(0) # 0

Compute1 == Depth >= 1 /\ \E word \in Words1 : Depth < 3 /\ Leave(1, Of1(word, Top(0)))
Compute2 ==
    Depth >= 2 /\ \E word \in Words2 :
        (word \in Dividing => Divides) /\ Leave(2, Of2(word, Top(1), Top(0)))
Compute3 ==
    Depth >= 3 /\ \E word \in Words3 :
        (word \in Dividing => Divides) /\ Leave(3, Of3(word, Top(2), Top(1), Top(0)))

Next == Push \/ Compute1 \/ Compute2 \/ Compute3

Spec == Init /\ [][Next]_data

-----------------------------------------------------------------------------
(* Properties, of every stack the words can meet.                            *)

InCell(n) == n \in Cells
Floor(n, d) == IF d > 0 THEN n \div d ELSE (-n) \div (-d)

(* The product of two cells is exact in a double cell: the shifts and        *)
(* carries of ficl2UnsignedMultiply lose nothing, whatever the signs, the    *)
(* most negative cell among them.                                            *)
ProductsExact ==
    Depth >= 2 =>
        /\ Signed2(Multiply2(Top(1), Top(0))) = Top(1) * Top(0)
        /\ Unsigned2(UMultiply2(U(Top(1)), U(Top(0)))) = U(Top(1)) * U(Top(0))

(* Number building: u * base + digit in a double cell, modulo its width.     *)
DigitsAccumulate ==
    Depth = 3 =>
        \A digit \in {0, 1, HighBit, Modulus - 1} :
            Unsigned2(MultiplyAccumulate2(Popped2(Top(2), Top(1)), U(Top(0)), digit))
            = (Unsigned2(Popped2(Top(2), Top(1))) * U(Top(0)) + digit) % Modulus^2

(* The long division gives the only quotient and remainder there are, for    *)
(* every double-cell dividend and divisor, where nothing fits one cell too.  *)
LongDivisionExact ==
    Depth = 3 /\ Divides =>
        LET ud == Popped2(Top(2), Top(1))
            qr == UDivide2(ud, U(Top(0)))
        IN  /\ Unsigned2(qr.quotient) = Unsigned2(ud) \div U(Top(0))
            /\ qr.remainder = Unsigned2(ud) % U(Top(0))

(* "the remainder carries the sign of the dividend or is zero and the        *)
(* quotient is the mathematical quotient rounded towards zero" (double.c):   *)
(* of SM/REM and, on the product of two cells, of */MOD, whenever the        *)
(* quotient fits a cell.                                                     *)
Symmetric(d, n, qr) ==
    InCell(Quotient(d, n)) => qr = <<d - n * Quotient(d, n), Quotient(d, n)>>

SymmetricRight ==
    Depth = 3 /\ Divides =>
        /\ Symmetric(Signed2(Popped2(Top(2), Top(1))), Top(0), SMSlashRem(Top(2), Top(1), Top(0)))
        /\ Symmetric(Top(2) * Top(1), Top(0), StarSlashMod(Top(2), Top(1), Top(0)))

(* "Floored division is integer division in which the remainder carries the  *)
(* sign of the divisor or is zero, and the quotient is rounded to its        *)
(* arithmetic floor" (double.c): of FM/MOD, whenever that fits a cell.       *)
FlooredRight ==
    Depth = 3 /\ Divides =>
        LET d == Signed2(Popped2(Top(2), Top(1)))
            q == Floor(d, Top(0))
        IN  InCell(q) => FMSlashMod(Top(2), Top(1), Top(0)) = <<d - Top(0) * q, q>>

(* Multiplication, in the words that multiply and in number building.        *)
MultiplicationExact == ProductsExact /\ DigitsAccumulate

(* Division, in the three ways that double.c offers it.                      *)
DivisionExact == LongDivisionExact /\ SymmetricRight /\ FlooredRight
=============================================================================

----------------------------- MODULE FiclCells -----------------------------
(***************************************************************************)
(* Cells of Bits bits and the arithmetic on them: the single-cell          *)
(* instructions of vm.c, and double.c in a build without a double-cell     *)
(* integer type (FICL_PLATFORM_HAS_2INTEGER 0, the one unix.h gives amd64).*)
(*                                                                         *)
(* A cell is the integer that its ->i reads; a double cell is a record of  *)
(* its high and its low cell, both read as unsigned.                       *)
(***************************************************************************)
EXTENDS Integers, Sequences, FiniteSetsExt, TLC

CONSTANTS
    Bits,           \* FICL_BITS_PER_CELL
    IntBits         \* the bits of an int

ASSUME BitsAssumption == Bits \in Nat \ {0, 1} /\ IntBits \in 1..Bits

Modulus == 2^Bits
HighBit == 2^(Bits - 1)         \* FICL_CELL_HIGH_BIT
Cells   == -HighBit..(HighBit - 1)
Words   == 0..(Modulus - 1)

U(x) == x % Modulus                                     \* ->u of a cell
I(u) == IF u % Modulus >= HighBit THEN (u % Modulus) - Modulus ELSE u % Modulus
Flag(b) == IF b THEN -1 ELSE 0                          \* FICL_BOOL

Bit(x, i) == (U(x) \div 2^i) % 2 = 1
OfBits(On(_)) == I(MapThenSumSet(LAMBDA i : IF On(i) THEN 2^i ELSE 0, 0..(Bits - 1)))

\* C divides towards zero.
Quotient(x, y) ==
    IF (x < 0) = (y < 0) THEN (IF x < 0 THEN (-x) \div (-y) ELSE x \div y)
    ELSE IF x < 0 THEN -((-x) \div y) ELSE -(x \div (-y))

-----------------------------------------------------------------------------
(* Instructions on one and on two cells: x is below y.                       *)

CellBytes == 1          \* an address counts cells

Counts(x)    == "1+" :> (x + 1) @@ "1-" :> (x - 1) @@ "2+" :> (x + 2) @@ "2-" :> (x - 2)
ZeroTests(x) == "0=" :> (x = 0) @@ "0<" :> (x < 0) @@ "0>" :> (x > 0)
Halves(x)    == "2*" :> (x * 2) @@ "2/" :> (x \div 2)
Offsets(x)   == "cells" :> (x * CellBytes) @@ "cell+" :> (x + CellBytes)

Unary == {"1+", "1-", "2+", "2-", "0=", "0<", "0>", "invert", "negate", "2*", "2/",
          "cells", "cell+"}
OfOne(word, x) ==
    CASE word \in DOMAIN Counts(x)    -> I(Counts(x)[word])
      [] word \in DOMAIN ZeroTests(x) -> Flag(ZeroTests(x)[word])
      [] word \in DOMAIN Halves(x)    -> I(Halves(x)[word])
      [] word \in DOMAIN Offsets(x)   -> I(Offsets(x)[word])
      [] word = "negate" -> I(-x)
      [] word = "invert" -> OfBits(LAMBDA i : ~Bit(x, i))

Sums(x, y)   == "+" :> (x + y) @@ "-" :> (x - y)
Orders(x, y) == "=" :> (x = y) @@ "<" :> (x < y) @@ "u<" :> (U(x) < U(y))
Limits(x, y) == "max" :> (IF x > y THEN x ELSE y) @@ "min" :> (IF x < y THEN x ELSE y)

\* A shift by the width of a cell or more is undefined.
Shifts(x, y) == "lshift" :> (x * 2^(U(y) % Bits)) @@ "rshift" :> (U(x) \div 2^(U(y) % Bits))

Logic == {"and", "or", "xor"}
Logical(word, p, q) == CASE word = "and" -> p /\ q [] word = "or" -> p \/ q [] word = "xor" -> p # q

Binary == {"+", "-", "*", "/", "=", "<", ">", "u<", "lshift", "rshift", "max", "min"} \cup Logic
OfTwo(word, x, y) ==
    CASE word \in DOMAIN Sums(x, y)   -> I(Sums(x, y)[word])
      [] word \in DOMAIN Orders(x, y) -> Flag(Orders(x, y)[word])
      [] word \in DOMAIN Limits(x, y) -> Limits(x, y)[word]
      [] word \in DOMAIN Shifts(x, y) -> I(Shifts(x, y)[word])
      [] word \in Logic -> OfBits(LAMBDA i : Logical(word, Bit(x, i), Bit(y, i)))
      [] word = ">" -> Flag(x > y)
      [] word = "*" -> I(x * y)
      [] word = "/" -> I(Quotient(x, y))

\* What C leaves undefined, or traps.
Defined(word, x, y) ==
    /\ word \in {"lshift", "rshift"} => U(y) < Bits
    /\ word = "/" => y # 0 /\ ~(x = -HighBit /\ y = -1)

-----------------------------------------------------------------------------
(* double.c                                                                  *)

Double(high, low) == [high |-> U(high), low |-> U(low)]
Zero2 == Double(0, 0)
One2  == Double(0, 1)
OfInteger(x) == Double(IF x < 0 THEN -1 ELSE 0, x)      \* FICL_INTEGER_TO_2INTEGER
IsNegative(d) == I(d.high) < 0

Unsigned2(d) == d.high * Modulus + d.low
Signed2(d)   == I(d.high) * Modulus + d.low

\* Faulty: the complement is not incremented past the low cell.
NegateNoCarry(d) == Double(Modulus - 1 - d.high, -d.low)

Negate2(d) ==
    LET low == U(-d.low) IN Double((Modulus - 1 - d.high) + (IF low = 0 THEN 1 ELSE 0), low)

\* Faulty: the quotient stays rounded towards zero.
DecrementNot(d) == d

\* The borrow is taken where the low cell is INT_MIN, of an int.
IntMin == -2^(IntBits - 1)
Decrement2(d) == Double(d.high - (IF I(d.low) = IntMin THEN 1 ELSE 0), d.low - 1)

High(u) == u >= HighBit

Add2(x, y) ==
    LET low   == U(x.low + y.low)
        carry == \/ (High(x.low) \/ High(y.low)) /\ ~High(low)
                 \/ High(x.low) /\ High(y.low)
    IN  Double(x.high + y.high + (IF carry THEN 1 ELSE 0), low)

Subtract2(x, y) == Double(x.high - y.high - (IF x.low < y.low THEN 1 ELSE 0), x.low - y.low)

ShiftLeft2(x)  == Double(x.high * 2 + (IF High(x.low) THEN 1 ELSE 0), x.low * 2)
Compare2(x, y) == IF x.high # y.high THEN x.high - y.high ELSE x.low - y.low

\* The sum of the shifted y for the bits of x, from the lowest on.
UMultiply2(x, y) ==
    LET addend[i \in 0..(Bits - 1)] == IF i = 0 THEN Double(0, y) ELSE ShiftLeft2(addend[i - 1])
        sum[i \in 0..Bits] ==
            IF i = 0 THEN Zero2
            ELSE LET before == sum[i - 1]
                 IN  IF Bit(x, i - 1) THEN Add2(before, addend[i - 1]) ELSE before
    IN  sum[Bits]

MultiplyAccumulate2(u, mul, add) ==
    LET lo  == UMultiply2(u.low, mul)
        low == U(lo.low + add)
    IN  Double(lo.high + UMultiply2(u.high, mul).low + (IF low < lo.low THEN 1 ELSE 0), low)

Multiply2(x, y) ==
    LET product == UMultiply2(U(IF x < 0 THEN -x ELSE x), U(IF y < 0 THEN -y ELSE y))
    IN  IF (x < 0) = (y < 0) THEN product ELSE Negate2(product)

\* The subtrahend is y shifted up until it reaches q, or the top; then bit by
\* bit it is taken from q and shifted down again.  A y of 0 never reaches q.
UDivide2(q, y) ==
    LET subtrahend[i \in 0..(2 * Bits)] ==
            IF i = 0 THEN Double(0, y) ELSE ShiftLeft2(subtrahend[i - 1])
        shifts == CHOOSE i \in 0..(2 * Bits) :
                     /\ Compare2(subtrahend[i], q) >= 0 \/ High(subtrahend[i].high)
                     /\ \A j \in 0..(i - 1) :
                           Compare2(subtrahend[j], q) < 0 /\ ~High(subtrahend[j].high)
        mask[i \in 0..shifts] == IF i = 0 THEN One2 ELSE ShiftLeft2(mask[i - 1])
        down[i \in -1..shifts] ==
            IF i = -1 THEN [q |-> q, quotient |-> Zero2]
            ELSE LET k == shifts - i
                     r == down[i - 1]
                 IN  IF Compare2(subtrahend[k], r.q) <= 0
                     THEN [q |-> Subtract2(r.q, subtrahend[k]), quotient |-> Add2(r.quotient, mask[k])]
                     ELSE r
    IN  [quotient |-> down[shifts].quotient, remainder |-> down[shifts].q.low]

Magnitude(d) == IF IsNegative(d) THEN Negate2(d) ELSE d

DivideSymmetric2(num, den) ==
    LET uqr == UDivide2(Magnitude(num), U(IF den < 0 THEN -den ELSE den))
    IN  [quotient  |-> IF IsNegative(num) # (den < 0) THEN Negate2(uqr.quotient) ELSE uqr.quotient,
         remainder |-> I(IF IsNegative(num) THEN -uqr.remainder ELSE uqr.remainder)]

DivideFloored2(num, den) ==
    LET size == IF den < 0 THEN -den ELSE den
        uqr  == UDivide2(Magnitude(num), U(size))
        away == IsNegative(num) # (den < 0)
        q    == IF away THEN Negate2(uqr.quotient) ELSE uqr.quotient
        up   == away /\ uqr.remainder # 0
        r    == IF up THEN size - uqr.remainder ELSE uqr.remainder
    IN  [quotient  |-> IF up THEN Decrement2(q) ELSE q,
         remainder |-> I(IF den < 0 THEN -r ELSE r)]

-----------------------------------------------------------------------------
(* Words on double cells; the cells of a double lie low below high.          *)

SlashMod(x, y) ==
    LET qr == DivideSymmetric2(OfInteger(x), y) IN <<qr.remainder, I(qr.quotient.low)>>
StarSlashMod(x, y, z) ==
    LET qr == DivideSymmetric2(Multiply2(x, y), z) IN <<qr.remainder, I(qr.quotient.low)>>
StarSlash(x, y, z) == <<StarSlashMod(x, y, z)[2]>>
Mod(x, y) == <<SlashMod(x, y)[1]>>
SToD(x) == <<x, IF x < 0 THEN -1 ELSE 0>>

Popped2(low, high) == Double(high, low)
Pushed2(d)         == <<I(d.low), I(d.high)>>

FMSlashMod(low, high, n) ==
    LET qr == DivideFloored2(Popped2(low, high), n) IN <<qr.remainder, I(qr.quotient.low)>>
SMSlashRem(low, high, n) ==
    LET qr == DivideSymmetric2(Popped2(low, high), n) IN <<qr.remainder, I(qr.quotient.low)>>
UMSlashMod(low, high, n) ==
    LET qr == UDivide2(Popped2(low, high), U(n)) IN <<I(qr.remainder), I(qr.quotient.low)>>
MStar(x, y)       == Pushed2(Multiply2(x, y))
UMStar(x, y)      == Pushed2(UMultiply2(U(x), U(y)))
DNegate(low, high) == Pushed2(Negate2(Popped2(low, high)))
=============================================================================

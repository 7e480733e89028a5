---------------------------- MODULE FiclNumbers ----------------------------
(***************************************************************************)
(* Numbers and texts: how Ficl reads a number (vm.c, primitives.c), writes *)
(* one (utility.c), and formats a line with SPRINTF (primitives.c).  A     *)
(* text is a sequence of characters, a character a string of length one.   *)
(***************************************************************************)
EXTENDS FiclCells, SequencesExt

CONSTANT CountBits      \* the bits of the count of a counted string (8)

CountSize == 2^CountBits
Digits == <<"0", "1", "2", "3", "4", "5", "6", "7", "8", "9",
            "A", "B", "C", "D", "E", "F", "G">>

\* Small letters are digits too; the one that texts here have is e.
Large(c)         == IF c = "e" THEN "E" ELSE c
IsDigit(c, base) == \E d \in 1..base : Digits[d] = Large(c)
DigitOf(c)       == (CHOOSE d \in DOMAIN Digits : Digits[d] = Large(c)) - 1

-----------------------------------------------------------------------------
(* Reading.                                                                  *)

NotANumber == [ok |-> FALSE]

Signed(t) == Len(t) > 1 /\ t[1] \in {"-", "+"}

\* ficlVmParseNumber; the length of the token goes through a count.
ParseNumber(token, base) ==
    LET t        == SubSeq(token, 1, Len(token) % CountSize)
        body     == IF Signed(t) THEN Tail(t) ELSE t
        isDouble == body # << >> /\ Last(body) = "."
        digits   == IF isDouble THEN Front(body) ELSE body
        value    == FoldLeft(LAMBDA n, c : (n * base + DigitOf(c)) % Modulus, 0, digits)
    IN IF digits = << >> \/ \E i \in DOMAIN digits : ~IsDigit(digits[i], base) THEN NotANumber
       ELSE [ok |-> TRUE, isDouble |-> isDouble,
             value |-> I(IF Signed(t) /\ t[1] = "-" THEN -value ELSE value)]

\* >NUMBER: the digits of a text, as long as there are any, join a double.
ToNumber(ud, text, base) ==
    LET read[i \in 0..Len(text)] ==
            IF i = 0 THEN [value |-> ud, rest |-> text]
            ELSE LET before == read[i - 1]
                 IN IF Len(before.rest) = Len(text) - (i - 1) /\ IsDigit(text[i], base)
                    THEN [value |-> MultiplyAccumulate2(before.value, base, DigitOf(text[i])),
                          rest  |-> Tail(before.rest)]
                    ELSE before
    IN read[Len(text)]

(* ficlVmParseFloatNumber: a decimal, mantissa * 10^scale; that its float is *)
(* rounded is left out.  part is the FloatParseState.                        *)

FloatStart == [part |-> "start", negative |-> FALSE, mantissa |-> 0, scale |-> 0,
               expNegative |-> FALSE, exponent |-> 0, ok |-> TRUE]

Refusing(m, c) == [m EXCEPT !.ok = FALSE]
InInteger(m, c) ==
    IF c = "." THEN [m EXCEPT !.part = "mantissa"]
    ELSE IF c = "e" THEN [m EXCEPT !.part = "start of exponent"]
    ELSE IF IsDigit(c, 10) THEN [m EXCEPT !.part = "integer", !.mantissa = 10 * @ + DigitOf(c)]
    ELSE Refusing(m, c)
InMantissa(m, c) ==
    IF c = "e" THEN [m EXCEPT !.part = "start of exponent"]
    ELSE IF IsDigit(c, 10) THEN [m EXCEPT !.mantissa = 10 * @ + DigitOf(c), !.scale = @ - 1]
    ELSE Refusing(m, c)
InExponent(m, c) ==
    IF IsDigit(c, 10) THEN [m EXCEPT !.part = "exponent", !.exponent = 10 * @ + DigitOf(c)]
    ELSE Refusing(m, c)

\* Faulty: one flag for both signs.
FloatStepOneFlag(m, c) ==
    IF ~m.ok THEN m ELSE
    CASE m.part = "start" -> IF c \in {"-", "+"} THEN [m EXCEPT !.part = "integer", !.negative = c = "-"]
                             ELSE InInteger(m, c)
      [] m.part = "integer" -> InInteger(m, c)
      [] m.part = "mantissa" -> InMantissa(m, c)
      [] m.part = "start of exponent" -> IF c \in {"-", "+"}
                                         THEN [m EXCEPT !.part = "exponent", !.negative = c = "-"]
                                         ELSE InExponent(m, c)
      [] m.part = "exponent" -> InExponent(m, c)

FloatStep(m, c) ==
    IF ~m.ok THEN m ELSE
    CASE m.part = "start" -> IF c \in {"-", "+"} THEN [m EXCEPT !.part = "integer", !.negative = c = "-"]
                             ELSE InInteger(m, c)
      [] m.part = "integer" -> InInteger(m, c)
      [] m.part = "mantissa" -> InMantissa(m, c)
      [] m.part = "start of exponent" -> IF c \in {"-", "+"}
                                         THEN [m EXCEPT !.part = "exponent", !.expNegative = c = "-"]
                                         ELSE InExponent(m, c)
      [] m.part = "exponent" -> InExponent(m, c)

ParseFloat(token, base) ==
    LET end == FoldLeft(FloatStep, FloatStart, token)
    IN IF base # 10 \/ ~end.ok \/ end.part \notin {"start of exponent", "exponent"} THEN NotANumber
       ELSE [ok |-> TRUE, mantissa |-> IF end.negative THEN -end.mantissa ELSE end.mantissa,
             scale |-> end.scale + (IF end.expNegative THEN -end.exponent ELSE end.exponent)]

-----------------------------------------------------------------------------
(* Writing.                                                                  *)

\* ficlUltoa, and both ways ficlLtoa goes for the size of a number.
Ultoa(u, base) ==
    LET digits[n \in Nat] ==
            IF n = 0 THEN << >> ELSE Append(digits[n \div base], Digits[(n % base) + 1])
    IN IF u = 0 THEN <<"0">> ELSE digits[u]

\* A sign in base ten only; the least integer has no opposite.
Ltoa(x, base) ==
    IF base = 10 /\ x < 0 THEN <<"-">> \o Ultoa(U(-x), base) ELSE Ultoa(U(x), base)

-----------------------------------------------------------------------------
(* SPRINTF: a format, arguments (the first on top) and the buffer's length.  *)
(* An argument is a number, or a text for %s.  Where the code goes on past   *)
(* the % of a %% it takes it for the beginning of the next directive.        *)

\* The int that SPRINTF keeps of a cell.
IntOf(x) == LET u == x % 2^IntBits IN IF u >= 2^(IntBits - 1) THEN u - 2^IntBits ELSE u

\* A directive at a place behind a %: flags, width, then what to write.
Directive(format, at, args) ==
    LET zeroes   == format[at] = "0"
        start    == IF zeroes THEN at + 1 ELSE at
        Has(i)   == i <= Len(format)
        ends     == {i \in start..Len(format) + 1 :
                        /\ \A k \in start..i - 1 : IsDigit(format[k], 10)
                        /\ ~Has(i) \/ ~IsDigit(format[i], 10)}
        starred  == Has(start) /\ format[start] = "*"
        type     == IF starred THEN start + 1 ELSE CHOOSE i \in ends : TRUE
        width    == IF starred THEN args[1]
                    ELSE FoldLeft(LAMBDA n, c : 10 * n + DigitOf(c), 0, SubSeq(format, start, type - 1))
        left     == IF starred THEN Tail(args) ELSE args
        Written  == CASE format[type] = "s" -> left[1]
                      [] format[type] = "d" -> Ltoa(IntOf(left[1]), 10)
                      [] format[type] = "u" -> Ultoa(U(IntOf(left[1])), 10)
                      [] format[type] = "x" -> Ultoa(U(IntOf(left[1])), 16)
    IN IF ~Has(type) THEN [at |-> Len(format) + 1, args |-> left, writes |-> FALSE]
       ELSE IF format[type] \in {"s", "d", "u", "x"}
       THEN [at |-> type + 1, args |-> Tail(left), writes |-> TRUE, text |-> Written,
             width |-> width, fill |-> IF zeroes THEN "0" ELSE " "]
       ELSE [at |-> type, args |-> left, writes |-> FALSE]

\* A piece is written unless an earlier one found no room; the first that
\* finds none is still copied whole behind what padding there was room for.
Appended(out, text, width, fill) ==
    LET desired == IF width = 0 THEN Len(text) ELSE width
        fits    == desired <= out.room
        kept    == IF fits THEN desired ELSE out.room
        pad     == IF kept > Len(text) THEN kept - Len(text) ELSE 0
    IN IF ~out.append THEN out
       ELSE [text |-> out.text \o [i \in 1..pad |-> fill] \o text, append |-> fits,
             room |-> out.room - pad - Len(text), narrow |-> out.narrow \/ desired < Len(text)]

Sprintf(format, arguments, length) ==
    LET turn[i \in 0..Len(format)] ==
            IF i = 0 THEN [at |-> 1, args |-> arguments,
                           out |-> [text |-> << >>, room |-> length, append |-> TRUE,
                                   narrow |-> FALSE]]
            ELSE LET m == turn[i - 1]
                 IN IF m.at > Len(format) THEN m
                    ELSE IF format[m.at] # "%"
                    THEN [m EXCEPT !.at = @ + 1, !.out = Appended(@, <<format[m.at]>>, 1, " ")]
                    ELSE IF m.at = Len(format) THEN [m EXCEPT !.at = @ + 1]
                    ELSE LET d == Directive(format, m.at + 1, m.args)
                         IN [at |-> d.at, args |-> d.args,
                             out |-> IF d.writes THEN Appended(m.out, d.text, d.width, d.fill)
                                     ELSE m.out]
        end == turn[Len(format)]
    IN [text |-> end.out.text, args |-> end.args, narrow |-> end.out.narrow,
        flag |-> IF end.out.append THEN 1 ELSE 0]
=============================================================================

-------------------------- MODULE MCInstructions ---------------------------
(***************************************************************************)
(* The instructions on narrow cells, and the words on double cells and the *)
(* mixed-precision words on cells of four bits, for TLC.                   *)
(***************************************************************************)
EXTENDS FiclInstructions

VARIABLE data       \* the data stack of the words on double cells
Math == INSTANCE FiclMath WITH Bits <- 4

\* Four floats, one of them no number: the bits 0 are 0.0, and 1 is no number.
NaN == 9
MCFloatOf(c) == CASE c = 0 -> 0 [] c = -2 -> 1 [] c = -1 -> -1 [] c = 1 -> NaN
MCCellOf(f)  == CASE f = 0 -> 0 [] f = 1 -> -2 [] f = -1 -> -1 [] f = NaN -> 1
MCRounded(n) == IF n > 0 THEN 1 ELSE IF n < 0 THEN -1 ELSE 0
MCFloatResult(op, x, y) ==
    IF NaN \in {x, y} \/ (op = "/" /\ y = 0) THEN NaN
    ELSE MCRounded(CASE op = "+" -> x + y [] op = "-" -> x - y [] op \in {"*", "/"} -> x * y)
MCFloatLess(x, y)  == NaN \notin {x, y} /\ x < y
MCFloatEqual(x, y) == NaN \notin {x, y} /\ x = y
MCTruncated(f)     == IF f = NaN THEN -HighBit ELSE f

\* Bound: two cells on the stacks, or four while memory is 0; with floats no
\* more than two on the data stack; or the return stack of three loops, whose
\* cells are 0 or 1.
AllIn(s, cells) == \A i \in DOMAIN s : s[i] \in cells
Blank == \A a \in Addresses : vm.memory[a] = 0
Small ==
    \/ /\ Len(vm.data) + Len(vm.returns) + Len(vm.floats) <= (IF Blank THEN 4 ELSE 2)
       /\ Len(vm.floats) > 0 => Len(vm.data) <= 2 /\ vm.returns = << >>
    \/ /\ vm.floats = << >> /\ Len(vm.data) <= 1 /\ Blank
       /\ AllIn(vm.data, {0, 1}) /\ AllIn(vm.returns, {0, 1})

\* From the first state on it is the one or the other that computes.
MCInit == Init /\ Math!Init
MCNext ==
    \/ data = << >> /\ Next /\ UNCHANGED data
    \/ vm = NewMachine([a \in Addresses |-> 0]) /\ Math!Next /\ UNCHANGED vm
MCSpec == MCInit /\ [][MCNext]_<<vm, data>>

(* FiclMath: multiplication on double cells is exact (double.c).             *)
MultiplicationExact == Math!MultiplicationExact

(* FiclMath: division on double cells is exact, symmetric and floored        *)
(* (double.c).                                                               *)
DivisionExact == Math!DivisionExact
=============================================================================

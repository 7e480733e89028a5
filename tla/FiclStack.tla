----------------------------- MODULE FiclStack -----------------------------
(***************************************************************************)
(* A stack of a virtual machine (stack.c): a sequence of cells, its top    *)
(* last, with room for a number of cells.  In C it is an array and a       *)
(* pointer; a cell that is read outside the array is Wild here.            *)
(***************************************************************************)
EXTENDS Integers, Sequences

CONSTANT Wild           \* what a read outside a stack gives

\* Faulty: one cell less is asked for.
PassesEarly(s, size, pop, push) == pop <= Len(s) + 1 /\ size - Len(s) >= push - pop

\* ficlStackCheck: pop cells are there, and room for push cells in their place.
Passes(s, size, pop, push) == pop <= Len(s) /\ size - Len(s) >= push - pop

\* ficlStackFetch: n cells below the top.
Peek(s, n)      == IF Len(s) - n \in DOMAIN s THEN s[Len(s) - n] ELSE Wild
Push(s, c)      == Append(s, c)
Drop(s, n)      == SubSeq(s, 1, Len(s) - n)
Replace(s, n, cells) == Drop(s, n) \o cells

\* Faulty: of two cells that change places the lower one keeps its value.
MovedOneWay(s, moves, grow) ==
    [p \in 1..(Len(s) + grow) |->
        IF p - Len(s) \in DOMAIN moves /\ p >= Len(s) THEN Peek(s, moves[p - Len(s)]) ELSE s[p]]

\* Assignments to cells of a stack: moves[k] is how far below the top the cell
\* is that comes to be k above it (below it, if k is negative); then the top
\* moves by grow.  All cells are read before any is written.
Moved(s, moves, grow) ==
    [p \in 1..(Len(s) + grow) |->
        IF p - Len(s) \in DOMAIN moves THEN Peek(s, moves[p - Len(s)]) ELSE s[p]]

\* ficlStackRoll, n >= 0: the cell n below the top becomes the top.
Roll(s, n) == Moved(s, [k \in -n..0 |-> IF k = 0 THEN n ELSE -(k + 1)], 0)

\* ficlStackRoll(-n): the top goes n below.
MinusRoll(s, n) == Moved(s, [k \in -n..0 |-> IF k = -n THEN 0 ELSE 1 - k], 0)
=============================================================================

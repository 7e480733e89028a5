-------------------------- MODULE FiclCompileLayouts --------------------------
(***************************************************************************)
(* What FiclCompileProofs proves of FiclCompile is said with the           *)
(* definitions of this module: the layout of every place of a definition,  *)
(* which tells what lies on the return stack whenever control is there,    *)
(* the activations a return stack is made of, the inductive invariant, and *)
(* where the optimiser's rewriting of jumps leads.                         *)
(***************************************************************************)
EXTENDS FiclCompile

-----------------------------------------------------------------------------
(* Layouts, and the flow of a definition.                                  *)

\* The layout of a place of the code: what lies on the return stack above the return
\* address whenever control is there. link is the address of the operand of the LINK whose
\* frame is there (0: none), slots the local each cell of the frame holds a value of, loops
\* the number of loops, of three cells each, above the frame.
Layouts == [link : Nat, slots : Seq(Nat), loops : Nat]

\* The instructions, and the kinds of the cells of the data stack and the return stack.
Names   == {"plain", "call", "i", "leave", "unloop", "literal", "2literal", "sliteral",
            "branch", "branchCheck", "branch0", "branch0Check", "of(", "do", "?do", "loop", "+loop",
            "link", "unlink", "exit", "semi", "does>",
            "get", "get0", "get1", "to", "to0", "to1", "operand", "counted", "text",
            "colon", "origin", "target", "case", "of", "fallthrough", "address", "count",
            "return", "limit", "index", "frame", "slot"}
Cells   == Seq(Names \X Int)
Bare    == [link |-> 0, slots |-> << >>, loops |-> 0]

\* The same frame under n loops.
Looped(l, n) == [link |-> l.link, slots |-> l.slots, loops |-> n]

\* Where control may be: at the first cell of an instruction, or where the next one will be.
IsPlace(c, b)  == b \in 1..Len(c) => c[b][1] \notin {"operand", "counted", "text"}

\* b is a place with layout l, T being the layouts of the definition.
At(c, T, b, l) == b \in 1..Len(T) /\ IsPlace(c, b) /\ T[b] = l

\* The address a lies in the cells word k of the source has compiled.
Covers(s, k, a) == s[k].start <= a /\ (k = Len(s) \/ s[k + 1].start > a)
WordAt(s, k, a) == Covers(s, k, a) /\ \A j \in DOMAIN s : Covers(s, j, a) => j = k

\* Where in the frame the local of the instruction at a begins, and the cells it takes.
OffsetAt(c, a) ==
    IF c[a][1] \in {"get", "to"} THEN c[a + 1][2] ELSE IF c[a][1] \in {"get1", "to1"} THEN 1 ELSE 0
LocalSize(c, a) == IF c[a][1] \in {"get", "to"} THEN 2 ELSE 1

\* The slots the instruction at a reads are all of the local its word names.
Reads(c, s, l, a) ==
    \E k \in DOMAIN s :
        /\ WordAt(s, k, a)
        /\ OffsetAt(c, a) + c[a][2] <= Len(l.slots)
        /\ \A i \in 1..c[a][2] : l.slots[OffsetAt(c, a) + i] = s[k].local

\* The slots the instruction at a writes are of the local its word names; the others stay.
Stores(c, s, l, m, a) ==
    /\ m.link = l.link /\ m.loops = l.loops /\ l.link # 0 /\ (l.loops > 0 => m.slots = l.slots)
    /\ OffsetAt(c, a) + c[a][2] <= Len(m.slots)
    /\ \E k \in DOMAIN s :
          /\ WordAt(s, k, a)
          /\ \A i \in 1..Len(m.slots) :
                IF i \in OffsetAt(c, a) + 1..OffsetAt(c, a) + c[a][2] THEN m.slots[i] = s[k].local
                ELSE i <= Len(l.slots) /\ m.slots[i] = l.slots[i]

\* The instructions that jump.
Branches == {"branch", "branchCheck", "branch0", "branch0Check", "of("}
Dos      == {"do", "?do"}
Loopings == {"loop", "+loop"}
Gets     == {"get", "get0", "get1"}
Tos      == {"to", "to0", "to1"}

\* The instruction at a has its operand behind it.
HasOperand(c, a) == a + 1 \in 1..Len(c) /\ c[a + 1][1] = "operand"

\* Where control goes behind the instruction at a, and with which layout; what the
\* instruction takes from the return stack is there.
Rest(c, s, T, a) ==
    LET w == c[a][1]
        l == T[a] IN
    \/ w \in {"plain", "call"} /\ At(c, T, a + 1, l)
    \/ w = "i" /\ l.loops > 0 /\ At(c, T, a + 1, l)
    \/ w = "leave" /\ l.loops > 0
    \/ w = "unloop" /\ l.loops > 0 /\ At(c, T, a + 1, Looped(l, l.loops - 1))
    \/ w = "literal" /\ At(c, T, a + 2, l)
    \/ w = "2literal" /\ At(c, T, a + 3, l)
    \/ w = "sliteral" /\ a + 1 \in 1..Len(c) /\ At(c, T, a + 1 + TextCells(c[a + 1][2]), l)
    \/ w \in Branches /\ HasOperand(c, a) /\ At(c, T, a + 2, l)
    \/ w \in Dos /\ HasOperand(c, a) /\ At(c, T, a + 2, Looped(l, l.loops + 1))
    \/ w \in Loopings /\ HasOperand(c, a) /\ l.loops > 0 /\ At(c, T, a + 2, Looped(l, l.loops - 1))
    \/ /\ w = "link" /\ HasOperand(c, a) /\ c[a + 1][2] \in Nat
       /\ l = Bare /\ At(c, T, a + 2, [link |-> a + 1, slots |-> << >>, loops |-> 0])
    \/ w = "unlink" /\ l.link # 0 /\ l.loops = 0 /\ At(c, T, a + 1, Bare)
    \/ w \in {"exit", "semi"} /\ l = Bare
    \/ w = "does>" /\ l = Bare /\ At(c, T, a + 1, Bare)
    \/ /\ w \in Gets /\ OffsetAt(c, a) \in Nat /\ c[a][2] \in Nat
       /\ Reads(c, s, l, a) /\ At(c, T, a + LocalSize(c, a), l)
    \/ /\ w \in Tos /\ OffsetAt(c, a) \in Nat /\ c[a][2] \in Nat
       /\ \E m \in Layouts : Stores(c, s, l, m, a) /\ At(c, T, a + LocalSize(c, a), m)

\* The jump at a goes to a place with the layout it needs.
Jumped(c, T, a) ==
    /\ c[a][1] \in Branches \cup Loopings => At(c, T, BranchTarget(c, a), T[a])
    /\ c[a][1] \in Dos => At(c, T, c[a + 1][2], T[a])

\* The cells of the frame of the LINK with its operand at x, which is filled in at the end.
Room(c, v, x) == IF v.count > 0 /\ x = v.fixup THEN v.count ELSE c[x][2]

\* x is the address of the operand of a LINK.
IsLink(c, x) == x \in 1..Len(c) /\ x - 1 \in 1..Len(c) /\ c[x - 1][1] = "link"

\* The slots of a layout are in its frame.
Roomy(c, v, l) == IF l.link = 0 THEN l.slots = << >> ELSE IsLink(c, l.link) /\ Len(l.slots) <= Room(c, v, l.link)

\* The source: the words of a definition, with the address each one starts at.
SourceWords == [word : Words \cup {";"}, start : Nat, local : Nat]

\* The words start at addresses up to n.
Started(s, n) ==
    /\ s \in Seq(SourceWords)
    /\ \A k \in 1..Len(s) : 1 <= s[k].start /\ s[k].start <= n

\* The flow of a definition c with layouts T: every instruction goes where the layouts say,
\* every jump too, except those whose operands, at the addresses X, are not filled in yet.
Flows(c, s, v, T, X) ==
    /\ c \in Cells /\ T \in Seq(Layouts) /\ Len(T) \in {Len(c), Len(c) + 1}
    /\ At(c, T, 1, Bare) /\ Started(s, Len(c) + 1)
    /\ \A a \in 1..Len(c) : IsPlace(c, a) =>
          Rest(c, s, T, a) /\ Roomy(c, v, T[a]) /\ (Jumped(c, T, a) \/ a + 1 \in X)

\* An operand that words after it fill in.
Patchable(c, b) ==
    b - 1 \in 1..Len(c) /\ c[b][1] = "operand" /\ c[b - 1][1] \in Branches \cup Loopings \cup Dos \cup {"link"}

\* Code d with layouts U is code c with layouts T, operands filled in and cells added.
Extends(c, T, d, U) ==
    /\ c \in Cells /\ d \in Cells /\ T \in Seq(Layouts) /\ U \in Seq(Layouts)
    /\ Len(c) <= Len(T) /\ Len(T) <= Len(c) + 1 /\ Len(c) <= Len(d) /\ Len(T) <= Len(U)
    /\ \A b \in 1..Len(T) : U[b] = T[b]
    /\ \A b \in 1..Len(c) : d[b][1] = c[b][1]
    /\ \A b \in 1..Len(c) : d[b] = c[b] \/ (Patchable(c, b) /\ (c[b - 1][1] = "link" => d[b][2] \in Nat))
    /\ Len(c) < Len(d) => IsPlace(d, Len(c) + 1)

\* The loops that are open beneath the mark at i of the data stack.
LoopsBelow(p, i) == Cardinality({j \in 1..i - 1 : p[j] = Tag("do")})

\* The operand at x of a jump that is to end at a place with layout l.
Fixup(c, T, x, names, l) ==
    x \in 1..Len(c) /\ x - 1 \in 1..Len(c) /\ c[x - 1][1] \in names /\ c[x][1] = "operand" /\ T[x - 1] = l

\* The cell beneath the mark at i.
Under(p, i, name) == i > 1 /\ p[i - 1][1] = name

\* What a mark of a control structure on the data stack stands for: the address beneath it
\* is the operand of a jump that is to end, or a place to go back to, with the layout the
\* code has outside the loops that have been opened above the mark.
Marked(c, T, p, i) ==
    LET n == p[i - 1][2]
        l == Looped(T[Len(T)], LoopsBelow(p, i)) IN
    \/ p[i][1] \in {"address", "count"}
    \/ p[i] = Tag("colon") /\ (i = 1 \/ (i = 2 /\ p[1] = Count(0)))
    \/ p[i] = Tag("origin") /\ Under(p, i, "address") /\ Fixup(c, T, n, {"branchCheck", "branch0Check"}, l)
    \/ p[i] = Tag("target") /\ Under(p, i, "address") /\ At(c, T, n, l)
    \/ p[i] = Tag("leave") /\ Under(p, i, "address") /\ Fixup(c, T, n, Dos, l)
    \/ /\ p[i] = Tag("do") /\ Under(p, i, "address") /\ At(c, T, n, Looped(l, l.loops + 1))
       /\ i > 2 /\ p[i - 2] = Tag("leave")
    \/ /\ p[i] = Tag("case") /\ Under(p, i, "count") /\ n \in 0..i - 2
       /\ \A j \in i - 1 - n..i - 2 : p[j][1] = "address" /\ Fixup(c, T, p[j][2], {"branchCheck"}, l)
    \/ p[i] = Tag("of") /\ Under(p, i, "address") /\ Fixup(c, T, n, {"of("}, l)
    \/ p[i] = Tag("fallthrough") /\ Under(p, i, "address") /\ Fixup(c, T, n, {"branchCheck"}, l)

\* The addresses on the data stack.
Open(p) == {p[i][2] : i \in {i \in 1..Len(p) : p[i][1] = "address"}}

\* The frame of layout l is the one of the locals declared so far.
LocalsFit(c, v, l) ==
    /\ v \in [words : Seq([offset : Nat, kind : {"local", "2local", "flocal"}]), count : Nat, fixup : Nat]
    /\ Len(l.slots) = v.count /\ l.link = (IF v.count > 0 THEN v.fixup ELSE 0)
    /\ v.words = << >> <=> v.count = 0
    /\ \A n \in 1..Len(v.words) :
          /\ v.words[n].offset + Width(v.words[n].kind) <= v.count
          /\ \A i \in 1..Width(v.words[n].kind) : l.slots[v.words[n].offset + i] = n
    /\ v.count > 0 => IsLink(c, v.fixup) /\ c[v.fixup][1] = "operand"

\* A definition that is being written: its flow but for the operands its marks remember, the
\* marks, the locals, and the loops that are open at its end.
Body(c, s, v, p, T) ==
    /\ Flows(c, s, v, T, Open(p)) /\ Len(T) = Len(c) + 1
    /\ p \in Cells
    /\ \A i \in 1..Len(p) : Marked(c, T, p, i)
    /\ LocalsFit(c, v, T[Len(T)])
    /\ T[Len(T)].loops = LoopsBelow(p, Len(p) + 1)

\* The cells that are no instructions.
Data == {"operand", "counted", "text"}

NoError == FALSE

\* A definition in which no word has thrown.
Def(c, p, v) == [code |-> c, control |-> p, locals |-> v, error |-> NoError]

\* A definition that fits together.
Good(d, s) == \E T : Body(d.code, s, d.locals, d.control, T)

\* The cells x are added behind c, with layout l in front of them and m behind them.
Added(c, d, U, x, l, m) ==
    /\ Len(c) + 1 \in 1..Len(d) /\ Len(d) = Len(c) + Len(x)
    /\ \A i \in 1..Len(x) : d[Len(c) + i] = x[i]
    /\ U[Len(c) + 1] = l /\ At(d, U, Len(d) + 1, m)

\* Code d extends c and ends with layout m.
Joins(c, T, d, U, m) == Extends(c, T, d, U) /\ Len(U) = Len(d) + 1 /\ U[Len(U)] = m

(* What an instruction of one cell makes of the layout. *)
Turns(w, l, m) ==
    \/ w = "plain" /\ m = l
    \/ w = "unloop" /\ l.loops > 0 /\ m = Looped(l, l.loops - 1)
    \/ w = "unlink" /\ l.link # 0 /\ l.loops = 0 /\ m = Bare
    \/ w = "exit" /\ l = Bare
    \/ w = "does>" /\ l = Bare /\ m = Bare

\* Code d extends c, keeps its flow, and ends with layout m.
Extended(c, s, v, T, X, d, m) ==
    \E U : Flows(d, s, v, U, X) /\ Extends(c, T, d, U) /\ Len(U) = Len(d) + 1 /\ U[Len(U)] = m

\* A definition ; has accepted: all its jumps are resolved, and its locals are forgotten.
Sealed(c, s, v, T) == Flows(c, s, v, T, {}) /\ Len(T) = Len(c) /\ v.count = 0

\* The locals of a definition: the words, how many cells they take, the operand of LINK.
Records(S) == [words : S, count : Nat, fixup : Nat]

\* The loops that are open.
LoopsIn(p) == LoopsBelow(p, Len(p) + 1)

\* The part of Body that is about the stack.
Stacked(c, v, p, T) ==
    /\ p \in Cells /\ \A i \in 1..Len(p) : Marked(c, T, p, i)
    /\ LocalsFit(c, v, T[Len(T)])
    /\ T[Len(T)] \in Layouts /\ T[Len(T)].loops = LoopsIn(p)

\* Address x is what mark t above it needs, l being the layout there.
Suits(c, T, t, x, l) ==
    \/ t = "origin" /\ Fixup(c, T, x, {"branchCheck", "branch0Check"}, l)
    \/ t = "target" /\ At(c, T, x, l)
    \/ t = "leave" /\ Fixup(c, T, x, Dos, l)
    \/ t = "of" /\ Fixup(c, T, x, {"of("}, l)
    \/ t = "fallthrough" /\ Fixup(c, T, x, {"branchCheck"}, l)

(* A word that does not throw leaves a definition that fits together. *)
Fits(d, s) == Ok(d) => \E c, p, v, T : d = Def(c, p, v) /\ Body(c, s, v, p, T)

-----------------------------------------------------------------------------
(* Activations on the return stack.                                        *)

(* An activation of the definition: where its return address lies in the     *)
(* return stack, the instruction it is at, and its frame.                    *)
Acts == [base : Nat, at : Nat, fp : Nat]

\* The cells of a frame, of what a layout says, and the last cell of an activation.
FrameSpan(c, l)   == IF l.link = 0 THEN 0 ELSE 1 + c[l.link][2]
Span(c, l)        == FrameSpan(c, l) + 3 * l.loops
EndOfAct(c, T, x) == x.base + Span(c, T[x.at])

\* The three cells above q are a loop whose LEAVE goes to a place with layout l.
LoopCells(c, T, r, q, l) ==
    r[q + 1][1] = "leave" /\ At(c, T, r[q + 1][2], l) /\ r[q + 2][1] = "limit" /\ r[q + 3][1] = "index"

\* Above the return address at b lies what layout l says: the frame pointer of the caller,
\* the slots, the loops.
Holds(c, T, r, b, l, caller) ==
    /\ l.link # 0 => r[b + 1] = <<"frame", caller>>
    /\ \A i \in 1..Len(l.slots) : r[b + 1 + i] = <<"slot", l.slots[i]>>
    /\ \A j \in 1..l.loops : LoopCells(c, T, r, b + FrameSpan(c, l) + 3 * (j - 1), Looped(l, j - 1))

\* Activation x goes back to instruction to of one that has frame caller.
Active(c, T, r, x, to, caller) ==
    /\ x \in Acts /\ x.at \in 1..Len(c) /\ IsPlace(c, x.at)
    /\ 1 <= x.base /\ EndOfAct(c, T, x) <= Len(r)
    /\ r[x.base] = Return(to)
    /\ x.fp = (IF T[x.at].link = 0 THEN caller ELSE x.base + 2)
    /\ Holds(c, T, r, x.base, T[x.at], caller)

\* The instruction, the frame and the last cell of the activation that waits at k; 0 beneath.
AtOf(B, k)        == IF k = 0 THEN 0 ELSE B[k].at
FpOf(B, k)        == IF k = 0 THEN 0 ELSE B[k].fp
EndBelow(c, T, B, k) == IF k = 0 THEN 0 ELSE EndOfAct(c, T, B[k])

(* The activations that wait for the one above them to return.               *)
Suspended(c, T, r, B) ==
    /\ B \in Seq(Acts)
    /\ \A k \in 1..Len(B) : /\ Active(c, T, r, B[k], AtOf(B, k - 1), FpOf(B, k - 1))
                            /\ B[k].base = EndBelow(c, T, B, k - 1) + 1
    /\ \A j, k \in 1..Len(B) : j < k => EndOfAct(c, T, B[j]) < B[k].base

\* The return stack r is the activation x that runs on those that wait, and nothing else.
Runs(c, T, r, B, x) ==
    /\ r \in Cells /\ Suspended(c, T, r, B)
    /\ Active(c, T, r, x, AtOf(B, Len(B)), FpOf(B, Len(B)))
    /\ x.base = EndBelow(c, T, B, Len(B)) + 1 /\ Len(r) = EndOfAct(c, T, x)

(* The inner loop at instruction at with frame fp: the activation that runs,  *)
(* on those that wait for it.                                                *)
Going(c, T, r, at, fp) == \E B, x : Runs(c, T, r, B, x) /\ x.at = at /\ x.fp = fp

\* The frame pointer with layout l: the frame there is one has, or the caller's.
FpFor(l, base, caller) == IF l.link = 0 THEN caller ELSE base + 2

-----------------------------------------------------------------------------
(* The inductive invariant.                                                *)

\* What is known of a definition before, while and after it is written.
LocalsRecords == Records(Seq([offset : Nat, kind : {"local", "2local", "flocal"}]))
IdleInv    == mode = "idle" => code = << >> /\ source = << >> /\ locals.words = << >> /\ locals \in LocalsRecords
CompileInv == mode = "compile" => \E T : Body(code, source, locals, control, T)
ReadyInv   == mode \in {"ready", "run"} => \E T : Sealed(code, source, locals, T)
StaticInv  ==
    /\ family \in Families /\ mode \in {"idle", "compile", "ready", "run"}
    /\ IdleInv /\ CompileInv /\ ReadyInv

\* The second half of the inductive invariant: what runs is a stack of activations.
RunInv == IF mode = "run"
          THEN \E T : Sealed(code, source, locals, T) /\ Going(code, T, run.returns, run.ip, run.frame)
          ELSE run = NoRun

\* The inductive invariant.
IInv == StaticInv /\ RunInv

-----------------------------------------------------------------------------
(* The optimiser.                                                          *)

\* Where the optimiser goes on from branch b.
HopStep(c, a) == [b \in DOMAIN c |-> IF b = a \/ c[b] = Instr("branchCheck") THEN BranchTarget(c, b) ELSE b]

\* A function, as the values it takes, iterated from a.
Iteration(a, all) == CHOOSE f : f = [n \in Nat |-> IF n = 0 THEN a ELSE all[f[n - 1]]]

(* f is the iteration of g. *)
Iterates(f, g, S) == f \in [Nat -> S] /\ \A n \in Nat : f[n + 1] = g[f[n]]

(* The branches at K have lost their checks and go to one place.             *)
Rewritten(c, e, K, to) ==
    /\ e \in Cells /\ Len(e) = Len(c)
    /\ \A b \in K : /\ b \in 1..Len(c) /\ IsPlace(c, b)
                    /\ \/ c[b] = Instr("branchCheck") /\ e[b] = Instr("branch")
                       \/ c[b] = Instr("branch0Check") /\ e[b] = Instr("branch0")
    /\ \A b \in 1..Len(c) : b \notin K => e[b] = IF b - 1 \in K THEN Operand(to - b) ELSE c[b]

(* What holds of the cells after branches gave up their checks. *)
SameFlow(c, s, v, T, e) ==
    /\ Flows(e, s, v, T, {}) /\ Len(e) = Len(c)
    /\ \A b, l : At(c, T, b, l) => At(e, T, b, l)
    /\ \A x : IsLink(c, x) => IsLink(e, x) /\ e[x][2] = c[x][2]
    /\ \A b \in 1..Len(c) : c[b][1] \in Branches => e[b][1] \in Branches

(* The branches a rewriting calls itself for, and the place they all get.    *)
Chain(c, a) == {Hops(c, a)[n] : n \in 0..Calls(c, Hops(c, a)) - 1}
Beyond(c, last) == IF c[last] \in {Instr("branch"), Instr("branchCheck")} THEN last + 1 + c[last + 1][2] ELSE last

(* The rewriting of a jump that has its check.                               *)
ChainRewritten(c, T, a) ==
    LET hop == Hops(c, a)
        to  == Beyond(c, hop[Calls(c, hop)])
    IN /\ Iterates(hop, HopStep(c, a), 1..Len(c)) /\ hop[0] = a
       /\ to \in 1..Len(c) /\ Rewritten(c, Optimised(c, a), Chain(c, a), to)
       /\ \A b \in Chain(c, a) : At(c, T, to, T[b])

(* The jumps of a definition lead into it.                                   *)
Within(c) == c \in Cells /\ \A b \in 1..Len(c) : IsBranch(c, b) => BranchTarget(c, b) \in 1..Len(c)

(* Where control gets from a by unconditional jumps alone, jump by jump.     *)
Jumping(c)  == [b \in -Len(c)..2 * Len(c) |-> IF IsBranch(c, b) THEN BranchTarget(c, b) ELSE b]
Orbit(c, a) == Iteration(a, Jumping(c))

(* From a control gets to x. *)
Reaches(c, a, x) == \E n \in Nat : Orbit(c, a)[n] = x

(* The iteration f has come to rest at n. *)
Rests(f, g, S, n) == Iterates(f, g, S) /\ n \in Nat /\ g[f[n]] = f[n]

(* Two definitions with their unconditional jumps at the same places, and a  *)
(* place in each from where control ends at the same place.                  *)
EndsAlike(c, a, e, b) ==
    /\ Within(c) /\ Within(e) /\ Len(e) = Len(c) /\ a \in 1..Len(c) /\ b \in 1..Len(c)
    /\ \A x \in 1..Len(c) : IsBranch(c, x) <=> IsBranch(e, x)
    /\ \A x \in 1..Len(c) : ~IsBranch(c, x) => (Reaches(c, a, x) <=> Reaches(e, b, x))

(* The chain of jumps from hop[0], and the place they all are to lead to.    *)
ChainOf(c, hop, calls, to) ==
    /\ calls \in Nat \ {0} /\ hop \in [Nat -> 1..Len(c)]
    /\ \A n \in 0..calls - 1 : hop[n + 1] = BranchTarget(c, hop[n])
    /\ \A n \in 1..calls - 1 : IsBranch(c, hop[n])
    /\ to = IF IsBranch(c, hop[calls]) THEN BranchTarget(c, hop[calls]) ELSE hop[calls]

(* The unconditional jumps of e are those of c, but those at K lead to one place. *)
Redirected(c, e, K, to) ==
    /\ Len(e) = Len(c)
    /\ \A b \in 1..Len(c) : IsBranch(c, b) <=> IsBranch(e, b)
    /\ \A b \in 1..Len(c) : IsBranch(c, b) => BranchTarget(e, b) = IF b \in K THEN to ELSE BranchTarget(c, b)

(* Where control ends is the same after a rewriting. *)
SameEnds(c, e) ==
    \A b \in DOMAIN c :
        /\ Settles(e, b) = Settles(c, b)
        /\ c[b] \in {Instr("branch0"), Instr("branch0Check")} =>
              Settles(e, BranchTarget(e, b)) = Settles(c, BranchTarget(c, b))
=============================================================================

---------------------------- MODULE FiclCompile ----------------------------
(***************************************************************************)
(* The compiler of one colon definition and the inner loop that runs what  *)
(* it compiled: the control structure words and their tags on the data     *)
(* stack, locals and their frames on the return stack (primitives.c), and  *)
(* the branch, loop and frame instructions with the rewriting of jumps to  *)
(* jumps (vm.c).                                                           *)
(*                                                                         *)
(* Code is a row of cells: an instruction, or the operand of the one       *)
(* before it.  The data stack has values only while it holds the tags; at  *)
(* run time a flag is whatever the program computed.                       *)
(***************************************************************************)
EXTENDS Integers, Sequences, FiniteSets, SequencesExt

CONSTANTS
    Families,       \* sets of words; a definition is written with those of one
    MaxWords,       \* bound on the words of a definition
    MaxReturns,     \* bound on the return stack
    MaxLocals,      \* FICL_MAX_LOCALS
    CountBytes,     \* values of the count byte of a string: 256
    StringLengths,  \* lengths of the strings compiled
    Obligations     \* the rules of use the program keeps

(***************************************************************************)
(* What the code leaves to the program.                                    *)
(*   while_after_begin   WHILE is used where the mark of BEGIN is on top   *)
(*   locals_outside      locals are declared outside control structures    *)
(*   locals_ended        (LOCAL) gets its empty name before the frame is   *)
(*                       released                                          *)
(*   named_after_error   the definition after a failed one has a name      *)
(*   does_outside        DOES> is used outside control structures          *)
(*   inside_loop         LEAVE, I and UNLOOP are used inside DO, and EXIT  *)
(*                       there after one UNLOOP for each loop              *)
(*   short_strings       a string fits its count byte                      *)
(***************************************************************************)
AllObligations == {"while_after_begin", "locals_outside", "locals_ended",
                   "named_after_error", "does_outside", "inside_loop", "short_strings"}

Keeps(rule) == rule \in Obligations

Words == {"plain", "literal", "2literal", "sliteral", "if", "else", "then", "begin", "until",
          "while", "repeat", "again", "do", "?do", "loop", "+loop", "leave", "unloop exit", "i",
          "case", "of", "endof", "fallthrough", "endcase", "exit", "recurse", "does>",
          "local", "2local", "flocal", "endlocals", "get", "to"}

ASSUME FamiliesAssumption    == \A f \in Families : f \subseteq Words
ASSUME BoundsAssumption      == MaxWords \in Nat /\ MaxReturns \in Nat /\ MaxLocals \in Nat
ASSUME StringsAssumption     == CountBytes \in Nat \ {0} /\ StringLengths \subseteq Nat
ASSUME ObligationsAssumption == Obligations \subseteq AllObligations

VARIABLES
    family,     \* the words of this definition
    source,     \* the words compiled so far, with the address each started at
    code,       \* the cells of the definition
    control,    \* the data stack
    locals,     \* the locals dictionary, localsCount and localsFixup
    mode,       \* "idle", "compile", "ready" or "run"
    run         \* ip, return stack and frame of the inner loop

vars == <<family, source, code, control, locals, mode, run>>

(* Cells of the code, of the data stack and of the return stack are pairs.  *)
Instr(name) == <<name, 0>>
Operand(n)  == <<"operand", n>>
Text        == <<"text", 0>>
Counted(n)  == <<"counted", n>>             \* text that starts with its count
Tag(t)      == <<t, 0>>
Address(a)  == <<"address", a>>
Count(n)    == <<"count", n>>

CellSize == 2                                \* characters in a cell of text
TextCells(length) == (length + 2 + CellSize - 1) \div CellSize
Literals == {16, 17}                         \* the last with an instruction of its own, the next
Literal(n) == IF n \in -16..16 THEN <<Instr("plain")>> ELSE <<Instr("literal"), Operand(n)>>

-----------------------------------------------------------------------------
(* Control structure builders.  They work on a record of the definition, c,  *)
(* until the word ends or throws: its cells, the data stack, the locals, and *)
(* whether the word threw.                                                   *)

Ok(c)        == ~c.error
Fail(c)      == [c EXCEPT !.error = TRUE]
HereOf(c)    == Len(c.code) + 1
Emit(c, x)   == [c EXCEPT !.code = Append(@, x)]
Emits(c, s)  == [c EXCEPT !.code = @ \o s]
Push(c, x)   == [c EXCEPT !.control = Append(@, x)]
TopIs(c, t)  == c.control # << >> /\ Last(c.control) = Tag(t)
Pop(c)       == [c EXCEPT !.control = Front(@)]

MarkControlTag(c, t) == Push(c, Tag(t))
MarkBranch(c, t)     == Push(Push(c, Address(HereOf(c))), Tag(t))

(* A tag that matches always has its address below it: only the words here   *)
(* push tags.                                                                *)
MatchControlTag(c, t) == IF Ok(c) /\ TopIs(c, t) THEN Pop(c) ELSE Fail(c)

TopAddress(c)  == Last(c.control)[2]
PatchTo(c, a, n) == [c EXCEPT !.code[a] = Operand(n)]
PatchHere(c, a)  == PatchTo(c, a, HereOf(c) - a)

ResolveBackBranch(c0, t) ==
    LET c == MatchControlTag(c0, t) IN
    IF Ok(c) THEN Emit(Pop(c), Operand(TopAddress(c) - HereOf(c))) ELSE c

(* Faulty: the offset is counted from the cell after the operand.            *)
ResolveForwardFromNext(c0, t) ==
    LET c == MatchControlTag(c0, t) IN
    IF Ok(c) THEN PatchTo(Pop(c), TopAddress(c), HereOf(c) - TopAddress(c) - 1) ELSE c

ResolveForwardBranch(c0, t) ==
    LET c == MatchControlTag(c0, t) IN
    IF Ok(c) THEN PatchHere(Pop(c), TopAddress(c)) ELSE c

(* A tag that does not match gets a warning only.                            *)
ResolveAbsBranch(c) ==
    IF ~Ok(c) \/ Len(c.control) < 2 THEN Fail(c)
    ELSE LET d == Pop(c) IN PatchTo(Pop(d), TopAddress(d), HereOf(d))

If(c)     == Emit(MarkBranch(Emit(c, Instr("branch0Check")), "origin"), Operand(1))
Endif(c)  == ResolveForwardBranch(c, "origin")
Else(c0)  ==
    LET c == MatchControlTag(Emit(c0, Instr("branchCheck")), "origin") IN
    IF Ok(c) THEN PatchHere(Emit(MarkBranch(Pop(c), "origin"), Operand(1)), TopAddress(c)) ELSE c

Begin(c)  == MarkBranch(c, "target")
Until(c)  == ResolveBackBranch(Emit(c, Instr("branch0Check")), "target")
Again(c)  == ResolveBackBranch(Emit(c, Instr("branchCheck")), "target")
Repeat(c) == ResolveForwardBranch(Again(c), "origin")

(* Two rolls of the fourth cell put the mark of BEGIN back on top.           *)
While(c) ==
    LET n == Len(c.control)
        d == MarkBranch(Emit(c, Instr("branch0Check")), "origin") IN
    IF n < 2 THEN Fail(c)
    ELSE Emit([d EXCEPT !.control = SubSeq(@, 1, n - 2) \o SubSeq(@, n + 1, n + 2)
                                        \o SubSeq(@, n - 1, n)], Operand(1))

Do(c, instr) == MarkBranch(Emit(MarkBranch(Emit(c, Instr(instr)), "leave"), Operand(0)), "do")
Loop(c, instr) == ResolveAbsBranch(ResolveBackBranch(Emit(c, Instr(instr)), "do"))

Case(c) == MarkControlTag(Push(c, Count(0)), "case")

(* ENDOF and FALLTHROUGH: out of the OF, into the CASE.                      *)
LeaveOf(c0, Mark(_)) ==
    LET c == MatchControlTag(c0, "of")
        d == MatchControlTag(Pop(c), "case") IN
    IF Len(c0.control) < 4 \/ ~Ok(c) THEN Fail(c0)
    ELSE IF ~Ok(d) THEN d
    ELSE PatchHere(Emit(Mark(Emit(d, Instr("branchCheck"))), Operand(2)), TopAddress(c))

Endof(c) ==
    LeaveOf(c, LAMBDA d : MarkControlTag(Push(Push(Pop(d), Address(HereOf(d))),
                                              Count(TopAddress(d) + 1)), "case"))

Fallthrough(c) ==
    LeaveOf(c, LAMBDA d : MarkBranch(MarkControlTag(d, "case"), "fallthrough"))

Of(c0) ==
    LET falls == TopIs(c0, "fallthrough")
        c == IF falls THEN Pop(Pop(c0)) ELSE c0
        d == Emit(MarkBranch(Emit(c, Instr("of(")), "of"), Operand(2)) IN
    IF ~TopIs(c, "case") THEN Fail(c0)
    ELSE IF falls THEN PatchHere(d, TopAddress(Pop(c0))) ELSE d

(* All fixups go past the DROP of the value CASE looked at; a FALLTHROUGH of  *)
(* the last OF is one more of them.                                          *)
EndcaseWith(c0, more) ==
    LET c      == IF TopIs(c0, "fallthrough") THEN Pop(Pop(c0)) ELSE c0
        d      == Emit(Pop(Pop(c)), Instr("plain"))
        n      == TopAddress(Pop(c))
        fixups == more \cup {d.control[i][2] : i \in Len(d.control) - n + 1 .. Len(d.control)} IN
    IF ~TopIs(c, "case") THEN Fail(c0)
    ELSE [d EXCEPT !.control = SubSeq(@, 1, Len(@) - n),
                   !.code = [a \in DOMAIN @ |-> IF a \in fixups THEN Operand(HereOf(d) - a) ELSE @[a]]]

(* Faulty: FALLTHROUGH of the last OF is dropped.                            *)
EndcaseOfEndofs(c) == EndcaseWith(c, {})

Endcase(c) == EndcaseWith(c, IF TopIs(c, "fallthrough") THEN {TopAddress(Pop(c))} ELSE {})

-----------------------------------------------------------------------------
(* Locals: offset and kind of each, in the order of their declaration.       *)

Width(kind) == IF kind = "2local" THEN 2 ELSE 1

DeclareUpTo(c, kind, limit, width) ==
    LET n == c.locals.count
        linked == IF n # 0 THEN c ELSE
                    [Emits(c, <<Instr("link"), Operand(0)>>) EXCEPT !.locals.fixup = HereOf(c) + 1]
        d == Emits(linked, <<<<"to", Width(kind)>>, Operand(n)>>) IN
    IF n >= limit THEN Fail(c)
    ELSE [d EXCEPT !.locals.words = Append(@, [offset |-> n, kind |-> kind]),
                   !.locals.count = @ + width]

Declare(c, kind) == DeclareUpTo(c, kind, MaxLocals, Width(kind))

EndLocals(c) ==
    IF c.locals.count > 0 THEN PatchTo(c, c.locals.fixup, c.locals.count) ELSE c

(* The local at offset 0, and a single one at 1, have instructions of their  *)
(* own; a float always has an operand.                                       *)
Access(c, names, local) ==
    LET width == Width(local.kind) IN
    IF local.kind # "flocal" /\ (local.offset = 0 \/ (local.offset = 1 /\ width = 1))
    THEN Emit(c, <<IF local.offset = 0 THEN names[2] ELSE names[3], width>>)
    ELSE Emits(c, <<<<names[1], width>>, Operand(local.offset)>>)

GetLocal(c, local) == Access(c, <<"get", "get0", "get1">>, local)
ToLocal(c, local)  == Access(c, <<"to", "to0", "to1">>, local)

NoLocals(l)  == [l EXCEPT !.words = << >>, !.count = 0]

(* Faulty: only a frame of more than one cell is released.                   *)
UnlinkedMany(c) == IF c.locals.count > 1 THEN Emit(c, Instr("unlink")) ELSE c

Unlinked(c) == IF c.locals.count > 0 THEN Emit(c, Instr("unlink")) ELSE c

Exit(c)      == Emit(Unlinked(c), Instr("exit"))
Does(c)      == Emit([Unlinked(c) EXCEPT !.locals = NoLocals(@)], Instr("does>"))
Semicolon(c) ==
    LET d == MatchControlTag(c, "colon") IN
    IF ~Ok(d) THEN d ELSE Emit([Unlinked(d) EXCEPT !.locals = NoLocals(@)], Instr("semi"))

StringLiteral(c, n) ==
    Emits(c, <<Instr("sliteral"), Counted(n % CountBytes)>> \o [i \in 1..(TextCells(n) - 1) |-> Text])

Loops(c) == Cardinality({i \in DOMAIN c.control : c.control[i] = Tag("do")})

(* What word w compiles; n is its literal, length or local.                  *)
Compiled(w, c, n) ==
    CASE w \in {"plain", "i", "leave"} -> Emit(c, Instr(w))
      [] w = "literal"     -> Emits(c, Literal(n))
      [] w = "2literal"    -> Emits(c, <<Instr("2literal"), Operand(n), Operand(n)>>)
      [] w = "sliteral"    -> StringLiteral(c, n)
      [] w = "if"          -> If(c)
      [] w = "else"        -> Else(c)
      [] w = "then"        -> Endif(c)
      [] w = "begin"       -> Begin(c)
      [] w = "until"       -> Until(c)
      [] w = "while"       -> While(c)
      [] w = "repeat"      -> Repeat(c)
      [] w = "again"       -> Again(c)
      [] w \in {"do", "?do"}      -> Do(c, w)
      [] w \in {"loop", "+loop"}  -> Loop(c, w)
      [] w = "unloop exit" -> Exit(Emits(c, [i \in 1..Loops(c) |-> Instr("unloop")]))
      [] w = "case"        -> Case(c)
      [] w = "of"          -> Of(c)
      [] w = "endof"       -> Endof(c)
      [] w = "fallthrough" -> Fallthrough(c)
      [] w = "endcase"     -> Endcase(c)
      [] w = "exit"        -> Exit(c)
      [] w = "recurse"     -> Emit(c, Instr("call"))
      [] w = "does>"       -> Does(c)
      [] w \in {"local", "2local", "flocal"} -> Declare(c, w)
      [] w = "endlocals"   -> EndLocals(c)
      [] w = "get"         -> GetLocal(c, c.locals.words[n])
      [] w = "to"          -> ToLocal(c, c.locals.words[n])

Arguments(w) ==
    CASE w = "literal"         -> Literals
      [] w = "sliteral"        -> StringLengths
      [] w \in {"get", "to"}   -> DOMAIN locals.words
      [] OTHER                 -> {0}

(* The local a word declares or uses.                                        *)
LocalOf(w, n) ==
    CASE w \in {"get", "to"}                   -> n
      [] w \in {"local", "2local", "flocal"}   -> Len(locals.words) + 1
      [] OTHER                                 -> 0

definition == [code |-> code, control |-> control, locals |-> locals, error |-> FALSE]

OnlyColon   == Last(control) = Tag("colon")
LocalsEnded ==
    locals.words # << >> => locals.fixup \in DOMAIN code /\ code[locals.fixup] = Operand(locals.count)

(* The rules of use, where the program keeps them.                           *)
Used(w, n) ==
    /\ Keeps("while_after_begin") /\ w = "while" => Last(control) = Tag("target")
    /\ Keeps("locals_outside") /\ w \in {"local", "2local", "flocal"} => OnlyColon
    /\ Keeps("locals_ended") /\ w \in {"exit", "unloop exit", "recurse", "does>", ";"} => LocalsEnded
    /\ Keeps("does_outside") /\ w = "does>" => OnlyColon
    /\ Keeps("inside_loop") =>
          /\ w \in {"leave", "i", "unloop exit"} => Loops(definition) > 0
          /\ w = "exit" => Loops(definition) = 0
    /\ Keeps("short_strings") /\ w = "sliteral" => n < CountBytes

-----------------------------------------------------------------------------
(* The text interpreter: a definition, word by word.                         *)

NoRun == [ip |-> 0, returns |-> << >>, frame |-> 0]

Init ==
    /\ family \in Families
    /\ source = << >> /\ code = << >> /\ control = << >>
    /\ locals = [words |-> << >>, count |-> 0, fixup |-> 0]
    /\ mode = "idle" /\ run = NoRun

(* Outside a definition nothing of the last one is looked at again, so its   *)
(* cells are forgotten.                                                      *)
Begun(cells, l) ==
    /\ mode = "idle" /\ mode' = "compile"
    /\ control' = cells \o <<Tag("colon")>> /\ locals' = l
    /\ UNCHANGED <<family, source, code, run>>

Colon == Begun(<< >>, [locals EXCEPT !.count = 0])

(* The execution token is left beneath the mark; localsCount is not reset.   *)
ColonNoName ==
    /\ Keeps("named_after_error") => locals.count = 0
    /\ Begun(<<Count(0)>>, locals)

(* The definition is dropped with what the data stack holds, and the locals  *)
(* dictionary is emptied; localsCount is left.                               *)
ErrorExit ==
    /\ mode' = "idle" /\ source' = << >> /\ code' = << >> /\ control' = << >>
    /\ locals' = [locals EXCEPT !.words = << >>]
    /\ UNCHANGED <<family, run>>

CompileWord(w) ==
    /\ mode = "compile" /\ Len(source) < MaxWords
    /\ \E n \in Arguments(w) :
          LET c == Compiled(w, definition, n) IN
          /\ Used(w, n)
          /\ IF ~Ok(c) THEN ErrorExit
             ELSE /\ source' = Append(source, [word |-> w, start |-> Len(code) + 1, local |-> LocalOf(w, n)])
                  /\ code' = c.code /\ control' = c.control /\ locals' = c.locals
                  /\ UNCHANGED <<family, mode, run>>

CompileSemicolon ==
    /\ mode = "compile" /\ Used(";", 0)
    /\ LET c == Semicolon(definition) IN
       IF ~Ok(c) THEN ErrorExit
       ELSE /\ mode' = "ready"
            /\ source' = Append(source, [word |-> ";", start |-> Len(code) + 1, local |-> 0])
            /\ code' = c.code /\ control' = c.control /\ locals' = c.locals
            /\ UNCHANGED <<family, run>>

-----------------------------------------------------------------------------
(* The inner loop.                                                           *)

ip      == run.ip
returns == run.returns
frame   == run.frame

Return(a) == <<"return", a>>
Kind(i)   == IF i \in DOMAIN returns THEN returns[i][1] ELSE "none"
Depth     == Len(returns)

Name      == code[ip][1]
OperandAt(a) == code[a][2]

Went(to, stack, fp) == run' = [ip |-> to, returns |-> stack, frame |-> fp]
Goes(to) == Went(to, returns, frame)
Below(n) == SubSeq(returns, 1, Depth - n)

BranchTarget(c, a) == a + 1 + c[a + 1][2]

(* A jump to an unconditional jump goes to where that one goes, which is     *)
(* optimised first, by a call of the function that does it.  So the calls go *)
(* from jump to jump.                                                        *)
Hops(c, a) ==
    LET step == [b \in DOMAIN c |-> IF b = a \/ c[b] = Instr("branchCheck") THEN BranchTarget(c, b) ELSE b]
        hop[n \in Nat] == IF n = 0 THEN a ELSE step[hop[n - 1]]
    IN hop

(* They end at one that is not a branch with its check or whose check        *)
(* instruction an earlier call has replaced.                                 *)
Calls(c, hop) ==
    Min({n \in 1..Len(c) : c[hop[n]] # Instr("branchCheck") \/ \E i \in 0..n - 1 : hop[i] = hop[n]})

(* As they end, all jumps get the place where the last one finds control.    *)
(* An offset is counted from its operand, one cell after the instruction.    *)
OptimisedBy(c, a, offsets) ==
    LET hop    == Hops(c, a)
        calls  == Calls(c, hop)
        called == {hop[n] : n \in 0..calls - 1}
        last   == hop[calls]
        to     == IF c[last] \in {Instr("branch"), Instr("branchCheck")}
                  THEN last + offsets + c[last + 1][2] ELSE last
    IN [b \in DOMAIN c |->
            IF b \in called THEN IF c[b] = Instr("branchCheck") THEN Instr("branch") ELSE Instr("branch0")
            ELSE IF b - 1 \in called THEN Operand(to - b) ELSE c[b]]

OptimisedFrom(c, a, offsets) ==
    IF c[a] \in {Instr("branchCheck"), Instr("branch0Check")} THEN OptimisedBy(c, a, offsets) ELSE c

(* Faulty: the offset of the second jump is counted from its instruction.    *)
OptimisedFromInstruction(c, a) == OptimisedFrom(c, a, 0)

Optimised(c, a) == OptimisedFrom(c, a, 1)

Running(names) == mode = "run" /\ Name \in names

(* A flag that is not zero falls through; whether it is, is up to the        *)
(* program.  A branch with a check is optimised whether it jumps or not.     *)
Branch ==
    /\ Running({"branch", "branchCheck", "branch0", "branch0Check"})
    /\ code' = Optimised(code, ip)
    /\ \/ Goes(BranchTarget(code', ip))
       \/ (Name \in {"branch0", "branch0Check"} /\ Goes(ip + 2))
    /\ UNCHANGED <<family, source, control, locals, mode>>

Kept == UNCHANGED <<family, source, code, control, locals, mode>>

OfParen == Running({"of("}) /\ (Goes(ip + 2) \/ Goes(BranchTarget(code, ip))) /\ Kept

LiteralParen ==
    /\ Running({"plain", "i", "literal", "2literal", "sliteral"})
    /\ Goes(ip + CASE Name \in {"plain", "i"} -> 1
                   [] Name = "literal"  -> 2
                   [] Name = "2literal" -> 3
                   [] Name = "sliteral" -> 1 + TextCells(OperandAt(ip + 1)))
    /\ Kept

DoParen ==
    /\ Running({"do", "?do"}) /\ Depth + 3 <= MaxReturns
    /\ \/ Went(ip + 2, returns \o <<<<"leave", OperandAt(ip + 1)>>, <<"limit", 0>>, <<"index", 0>>>>, frame)
       \/ (Name = "?do" /\ Goes(OperandAt(ip + 1)))
    /\ Kept

LoopParen ==
    /\ Running({"loop", "+loop"})
    /\ \/ Goes(BranchTarget(code, ip))
       \/ Went(ip + 2, Below(3), frame)
    /\ Kept

Leave  == Running({"leave"})  /\ Went(returns[Depth - 2][2], Below(3), frame) /\ Kept
Unloop == Running({"unloop"}) /\ Went(ip + 1, Below(3), frame) /\ Kept

LinkParen ==
    /\ Running({"link"}) /\ Depth + 1 + OperandAt(ip + 1) <= MaxReturns
    /\ Went(ip + 2, returns \o <<<<"frame", frame>>>> \o [i \in 1..OperandAt(ip + 1) |-> <<"slot", 0>>],
            Depth + 2)
    /\ Kept

UnlinkParen ==
    /\ Running({"unlink"})
    /\ Went(ip + 1, SubSeq(returns, 1, frame - 2), returns[frame - 1][2])
    /\ Kept

LocalNames == {"get", "to", "get0", "to0", "get1", "to1"}
HasOffset  == Name \in {"get", "to"}
Offset     == IF HasOffset THEN OperandAt(ip + 1) ELSE IF Name \in {"get1", "to1"} THEN 1 ELSE 0
Slots      == {frame + Offset + i : i \in 0..code[ip][2] - 1}

(* The value of a cell of a local: the local that was stored there.          *)
LocalAt(a) ==
    LET k == CHOOSE k \in DOMAIN source :
                /\ source[k].start <= a
                /\ k = Len(source) \/ source[k + 1].start > a
    IN <<"slot", source[k].local>>

LocalParen ==
    /\ Running(LocalNames)
    /\ Went(IF HasOffset THEN ip + 2 ELSE ip + 1,
            IF Name \in {"to", "to0", "to1"}
            THEN [i \in DOMAIN returns |-> IF i \in Slots THEN LocalAt(ip) ELSE returns[i]]
            ELSE returns,
            frame)
    /\ Kept

Call ==
    /\ Running({"call"}) /\ Depth < MaxReturns
    /\ Went(1, Append(returns, Return(ip + 1)), frame)
    /\ Kept

(* A definition that the host called returns to it.                          *)
Return_ ==
    /\ Running({"exit", "semi", "does>"})
    /\ Went(Last(returns)[2], Below(1), frame)
    /\ mode' = IF Last(returns) = Return(0) THEN "ready" ELSE "run"
    /\ UNCHANGED <<family, source, code, control, locals>>

(* ExecuteXT, or a word the definition created: DoDoes goes to after DOES>.  *)
Execute ==
    /\ mode = "ready" /\ mode' = "run"
    /\ \E entry \in {1} \cup {a + 1 : a \in {a \in DOMAIN code : code[a] = Instr("does>")}} :
          Went(entry, Append(returns, Return(0)), frame)
    /\ UNCHANGED <<family, source, code, control, locals>>

Next ==
    \/ Colon \/ ColonNoName
    \/ \E w \in family : CompileWord(w)
    \/ CompileSemicolon
    \/ Execute
    \/ LiteralParen \/ Branch \/ OfParen
    \/ DoParen \/ LoopParen \/ Leave \/ Unloop
    \/ LinkParen \/ UnlinkParen \/ LocalParen
    \/ Call \/ Return_

Spec == Init /\ [][Next]_vars

-----------------------------------------------------------------------------
(* Properties.                                                               *)

(* A reading of the source that knows nothing of tags: the first word after  *)
(* k, of those named, with no structure open between the two.                *)
Occurs(names, i, j) == Cardinality({k \in i..j : source[k].word \in names})
Balanced(i, j, opens, closes) == Occurs(opens, i, j) = Occurs(closes, i, j)
After(k, names, opens, closes) ==
    Min({j \in k + 1..Len(source) : source[j].word \in names /\ Balanced(k + 1, j - 1, opens, closes)})
Before(k, names, opens, closes) ==
    Max({j \in 1..k - 1 : source[j].word \in names /\ Balanced(j + 1, k - 1, opens, closes)})

OriginOpens == {"if", "while"}
OriginCloses == {"then", "repeat"}
BeginCloses == {"until", "again", "repeat"}
OfCloses    == {"endof", "fallthrough"}
LoopCloses  == {"loop", "+loop"}

StartOf(k) == source[k].start
EndOf(k)   == source[k + 1].start

(* Where word k is meant to jump.                                            *)
Meant(k) ==
    LET w == source[k].word IN
    CASE w \in {"if", "else", "while"} ->
            EndOf(After(k, {"else"} \cup OriginCloses, OriginOpens, OriginCloses))
      [] w \in BeginCloses  -> StartOf(Before(k, {"begin"}, {"begin"}, BeginCloses))
      [] w \in {"do", "?do"} -> EndOf(After(k, LoopCloses, {"do", "?do"}, LoopCloses))
      [] w \in LoopCloses   -> EndOf(Before(k, {"do", "?do"}, {"do", "?do"}, LoopCloses))
      [] w = "of"           -> EndOf(After(k, OfCloses, {"of"}, OfCloses))
      [] w = "endof"        -> EndOf(After(k, {"endcase"}, {"case"}, {"endcase"}))
      [] w = "fallthrough"  -> EndOf(After(k, {"of", "endcase"}, {"case"}, {"endcase"}))

Jumps == OriginOpens \cup {"else"} \cup BeginCloses \cup {"do", "?do"} \cup LoopCloses
            \cup {"of"} \cup OfCloses

(* The operand of a jump follows its instruction; DO keeps an address.       *)
Reached(k) ==
    IF source[k].word \in {"do", "?do"} THEN OperandAt(StartOf(k) + 1) ELSE BranchTarget(code, StartOf(k))

(* When ; accepts a definition every jump in it goes where the structure of  *)
(* its source says: IF past the matching ELSE or THEN, WHILE out of its own  *)
(* loop, ENDOF past the ENDCASE of its own CASE, FALLTHROUGH into the next   *)
(* OF, LEAVE past LOOP, with no offset left as a placeholder.                *)
BranchesFollowStructure ==
    mode = "ready" /\ (\A a \in DOMAIN code : code[a] \notin {Instr("branch"), Instr("branch0")}) =>
        \A k \in DOMAIN source : source[k].word \in Jumps => Reached(k) = Meant(k)

(* The inner loop never takes an operand or a piece of text for an           *)
(* instruction, and never leaves the definition: this is where a branch that *)
(* is off by one, a literal of the wrong length or a string skipped by its   *)
(* count byte shows.                                                         *)
IpOnInstruction ==
    mode = "run" => ip \in DOMAIN code /\ Name \notin {"operand", "counted", "text"}

(* What an instruction takes from the return stack is what it was put there  *)
(* for: EXIT a return address and never a loop parameter or a local, UNLINK  *)
(* a frame, LOOP and LEAVE and I the three cells of the innermost DO; and a  *)
(* definition returns with the frame of its caller.                          *)
ReturnsSound ==
    /\ mode = "ready" => returns = << >> /\ frame = 0
    /\ Running({"exit", "semi", "does>"}) => Kind(Depth) = "return"
    /\ Running({"unlink"}) => Kind(frame - 1) = "frame"
    /\ Running({"loop", "+loop", "leave", "unloop", "i"}) =>
          <<Kind(Depth - 2), Kind(Depth - 1), Kind(Depth)>> = <<"leave", "limit", "index">>

(* A local is read from the cells that were last stored for that local, not  *)
(* from those of another one, of another frame, or from what was there       *)
(* before.                                                                   *)
LocalsKeepValues ==
    Running({"get", "get0", "get1"}) => \A i \in Slots : Kind(i) = "slot" /\ returns[i] = LocalAt(ip)

(* What is taken off the return stack, or read in it, is what was put there. *)
ReturnStackSound == ReturnsSound /\ LocalsKeepValues

IsBranch(c, a) == a \in DOMAIN c /\ c[a] \in {Instr("branch"), Instr("branchCheck")}

(* Where control ends up from address a; past all addresses if it jumps for  *)
(* ever.                                                                     *)
Settles(c, a) ==
    LET next == [b \in -Len(c)..2 * Len(c) |-> IF IsBranch(c, b) THEN BranchTarget(c, b) ELSE b]
        step[n \in Nat] == IF n = 0 THEN a ELSE next[step[n - 1]]
        end == step[Len(c)]
    IN IF IsBranch(c, end) THEN 3 * Len(c) ELSE end

(* When a jump to a jump is rewritten while the definition runs, control     *)
(* still ends up where it would have, from every address and by every        *)
(* conditional jump.                                                         *)
OptimizeKeepsMeaning ==
    [][mode = "run" =>
        \A a \in DOMAIN code :
            /\ Settles(code', a) = Settles(code, a)
            /\ code[a] \in {Instr("branch0"), Instr("branch0Check")} =>
                  Settles(code', BranchTarget(code', a)) = Settles(code, BranchTarget(code, a))]_vars

=============================================================================

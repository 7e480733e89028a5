---------------------------- MODULE FiclDebugger ----------------------------
(***************************************************************************)
(* The step debugger (tools.c): DEBUG-XT and STEP-BREAK, over an inner     *)
(* interpreter that keeps ip and the stack tops in variables of its own.   *)
(*                                                                         *)
(* A breakpoint is the word step-break written over an instruction; the    *)
(* system has one record for the address and the instruction it replaces.  *)
(* The words the program runs, the words of the input and the commands of  *)
(* the user are choices; an instruction is what it does to ip and to the   *)
(* stacks.  One VM uses the debugger, though the record is the system's.   *)
(* Left out: what SEE, L and the prompt print, and an ip that leads to no  *)
(* code.                                                                   *)
(***************************************************************************)
EXTENDS Integers, Sequences, SequencesExt, FiniteSets

CONSTANTS
    Words,          \* colon definitions the user can run and debug
    Body(_),        \* their code
    MaxReturn,      \* bound: cells of the return stack
    MaxData,        \* bound: cells of the data stack
    MaxFrames,      \* bound: nested calls of ficlVmExecuteString
    Obligations     \* rules the user of the debugger keeps

(***************************************************************************)
(*   over_returns        no throw while the code has a breakpoint          *)
(*   not_into_debug_xt   i is not given at DEBUG-XT                        *)
(*   word_for_debug_xt   DEBUG-XT finds a word on the stack                *)
(***************************************************************************)
ASSUME DebuggerAssumption ==
    /\ MaxReturn \in Nat /\ MaxData \in Nat /\ MaxFrames \in Nat \ {0}
    /\ Obligations \subseteq {"over_returns", "not_into_debug_xt", "word_for_debug_xt"}
    /\ "word_for_debug_xt" \in Obligations
    /\ {"loop", "none"} \cap Words = {}

VARIABLES
    code,           \* the compiled cells: an address to its instruction
    breakpoint,     \* system->breakpoint
    vm,             \* ip, the two stacks, restart and runningWord
    frames,         \* the calls of ficlVmExecuteString under way
    at,             \* where the C code is
    thrown          \* the status on its way up

vars == <<code, breakpoint, vm, frames, at, thrown>>

-----------------------------------------------------------------------------
(* Code *)

None       == <<"none", 0>>
Loop       == <<"loop", 1>>
After(a)   == <<a[1], a[2] + 1>>

Prim       == [op |-> "prim"]       \* a primitive: it may throw
Exit       == [op |-> "exit"]
Interpret  == [op |-> "interpret"]
Branch(a)  == [op |-> "branch", to |-> a]   \* with its operand
Branch0(a) == [op |-> "branch0", to |-> a]
StepBreak  == [op |-> "step-break"]
Call(w)    == [op |-> "call", word |-> w]

CodeOf(w) == IF w = "loop" THEN <<Interpret, Branch(Loop)>> ELSE Body(w)

(* A definition branches within itself; only the loop interprets. *)
InBody(w) == {Prim, Exit} \cup {Call(x) : x \in Words}
    \cup UNION {{Branch(<<w, n>>), Branch0(<<w, n>>)} : n \in DOMAIN Body(w)}

ASSUME BodyAssumption == \A w \in Words : Body(w) \in Seq(InBody(w))

Addresses == UNION {{w} \X DOMAIN CodeOf(w) : w \in Words \cup {"loop"}}

Original == [a \in Addresses |-> CodeOf(a[1])[a[2]]]

Patched == {a \in Addresses : code[a] = StepBreak}

-----------------------------------------------------------------------------
(* Stacks keep what lies above their top: a handler may raise it again. *)

EmptyStack(n, x) == [top |-> 0, cell |-> [i \in 1 .. n |-> x]]
Push(s, x) == [top |-> s.top + 1, cell |-> [s.cell EXCEPT ![s.top + 1] = x]]
Pop(s)     == [s EXCEPT !.top = @ - 1]
Top(s)     == s.cell[s.top]
Held(s)    == [i \in 1 .. s.top |-> s.cell[i]]

Room(s)    == s.top < Len(s.cell)

(* ficlVmPushIP and ficlVmPopIP *)
PushIP(v, a) == [v EXCEPT !.return = Push(@, v.ip), !.ip = a]
PopIP(v)     == [v EXCEPT !.return = Pop(@), !.ip = Top(v.return)]

TopsOf(v) == [ip |-> v.ip, return |-> v.return.top, data |-> v.data.top]

WithTops(v, t) == [v EXCEPT !.ip = t.ip, !.return.top = t.return, !.data.top = t.data]

(* ficlVmReset, with ficlVmQuit *)
Reset(v) == [WithTops(v, [ip |-> None, return |-> 0, data |-> 0])
                 EXCEPT !.restart = FALSE, !.runningWord = "none"]

-----------------------------------------------------------------------------
(* Instructions: what running i does to a VM whose ip is past it.  The      *)
(* result has the VM, the status thrown and whether DEBUG-XT ran.           *)

Fine(v)      == [vm |-> v, thrown |-> "none", breaks |-> FALSE]
Throws(v, s) == [vm |-> v, thrown |-> s, breaks |-> FALSE]
Enter(v, w)  == PushIP(v, <<w, 1>>)

(* DEBUG-XT pops the word, runs it up to its first instruction and leaves *)
(* the breakpoint to SetBreak.  It pops without a check: what it finds    *)
(* below an empty stack is not modelled (word_for_debug_xt).              *)
DebugXTRuns(v) ==
    {[Fine(Enter([v EXCEPT !.data = Pop(@)], Top(v.data))) EXCEPT !.breaks = TRUE] :
        x \in IF v.data.top > 0 THEN v.return.top + 1 .. MaxReturn ELSE {}}

(* ' takes the next word of the text; without one, ficlVmGetWord throws     *)
(* RESTART and ficlVmExecuteString will run ' again on the next text.       *)
TickRuns(v) ==
    {Fine([v EXCEPT !.data = Push(@, w)]) : w \in IF Room(v.data) THEN Words ELSE {}}
        \cup {Throws(v, "abort"),
              Throws([v EXCEPT !.runningWord = "tick"], "restart")}

(* The next word of the text: a number or a primitive, one of Words, ' or  *)
(* DEBUG-XT (the word debug is the last two); a word that is not found, or *)
(* the end of the text.                                                    *)
InterpretRuns(v) ==
    {Fine(v), Throws(v, "abort"), Throws(v, "out")}
        \cup {Fine(Enter(v, w)) : w \in IF Room(v.return) THEN Words ELSE {}}
        \cup TickRuns(v) \cup DebugXTRuns(v)

Runs(i, v) ==
    CASE i.op = "prim"      -> {Fine(v), Throws(v, "abort")}
      [] i.op = "exit"      -> {Fine(PopIP(v)) : x \in 1 .. v.return.top}
      [] i.op = "call"      -> {Fine(Enter(v, i.word)) : x \in v.return.top + 1 .. MaxReturn}
      [] i.op = "branch"    -> {Fine([v EXCEPT !.ip = i.to])}
      [] i.op = "branch0"   -> {Fine(v), Fine([v EXCEPT !.ip = i.to]), Throws(v, "abort")}
      [] i.op = "interpret" -> InterpretRuns(v)

Advanced(v) == [v EXCEPT !.ip = After(@)]

-----------------------------------------------------------------------------
Init ==
    /\ code = Original
    /\ breakpoint = [address |-> None, oldXT |-> Prim]
    /\ vm = [ip |-> None, restart |-> FALSE, runningWord |-> "none",
             return |-> EmptyStack(MaxReturn, None), data |-> EmptyStack(MaxData, "none")]
    /\ frames = <<>>
    /\ at = "idle"
    /\ thrown = "none"

Frame == frames[Len(frames)]

(* A frame whose word is run again has no inner loop yet, so no handler of *)
(* one between a throw and ficlVmExecuteString.                            *)
NewFrame(inLoop, v) == [inLoop |-> inLoop, entry |-> TopsOf(v), local |-> TopsOf(v)]

WithFrame(f) == [frames EXCEPT ![Len(frames)] = f]

(* ficlVmSetBreak where DEBUG-XT has just set one: it saves step-break. *)
SetBreakTwice(a) ==
    /\ breakpoint' = [address |-> a, oldXT |-> StepBreak]
    /\ code' = [code EXCEPT ![a] = StepBreak]

(* ficlVmSetBreak *)
SetBreakAt(a) ==
    /\ breakpoint' = [address |-> a, oldXT |-> code[a]]
    /\ code' = [code EXCEPT ![a] = StepBreak]

NoBreak == UNCHANGED <<code, breakpoint>>

-----------------------------------------------------------------------------
(* ficlVmExecuteString *)

Text ==
    /\ at = "idle" /\ ~vm.restart /\ Room(vm.return)
    /\ vm' = PushIP(vm, Loop)
    /\ frames' = <<NewFrame(TRUE, vm')>>
    /\ at' = "loop"
    /\ UNCHANGED <<code, breakpoint, thrown>>

(* vm->restart: run the word again that ran out of text *)
TextForStepBreak ==
    /\ at = "idle" /\ vm.restart /\ vm.runningWord = "step-break"
    /\ vm' = [vm EXCEPT !.restart = FALSE]
    /\ frames' = <<NewFrame(FALSE, vm')>>
    /\ at' = "break"
    /\ UNCHANGED <<code, breakpoint, thrown>>

TextForTick ==
    /\ at = "idle" /\ vm.restart /\ vm.runningWord = "tick"
    /\ \E r \in TickRuns(vm) :
          /\ vm' = [r.vm EXCEPT !.restart = r.thrown # "none"]
          /\ thrown' = r.thrown
          /\ at' = IF r.thrown = "none" THEN "loop" ELSE "throw"
          /\ frames' = <<NewFrame(r.thrown = "none", vm')>>
    /\ UNCHANGED <<code, breakpoint>>

(* The inner interpreter: fetch, and call or do the instruction. *)
Step ==
    /\ at = "loop" /\ vm.ip \in Addresses /\ code[vm.ip] # StepBreak
    /\ \E r \in Runs(code[vm.ip], Advanced(vm)) :
          /\ "over_returns" \in Obligations /\ r.thrown # "none" => Patched = {}
          /\ vm' = r.vm
          /\ frames' = WithFrame([Frame EXCEPT !.local = TopsOf(Advanced(vm))])
          /\ thrown' = r.thrown
          /\ at' = IF r.thrown = "none" THEN "loop" ELSE "throw"
          /\ IF r.breaks THEN SetBreakAt(r.vm.ip) ELSE NoBreak

(* step-break, up to its prompt: take the breakpoint off, go back to it and *)
(* run ON-STEP, which may throw.                                            *)
\* Faulty: ip stays past the breakpoint.
BrokenPast(v) == [v EXCEPT !.ip = After(@), !.runningWord = "step-break"]

Broken(v) == [v EXCEPT !.ip = breakpoint.address, !.runningWord = "step-break"]

Restored == [code EXCEPT ![breakpoint.address] = breakpoint.oldXT]

Break ==
    /\ at = "loop" /\ vm.ip \in Addresses /\ code[vm.ip] = StepBreak
    /\ frames' = WithFrame([Frame EXCEPT !.local = TopsOf(Advanced(vm))])
    /\ vm' = Broken(vm)
    /\ code' = Restored
    /\ \/ at' = "break" /\ thrown' = "none"
       \/ at' = "throw" /\ thrown' = "abort"
    /\ UNCHANGED breakpoint

-----------------------------------------------------------------------------
(* The commands of step-break.  Back in ficlVmExecuteString a word that was *)
(* run again is followed by an inner loop; else the loop that called        *)
(* step-break goes on from vm->ip.                                          *)

Resume ==
    /\ at' = "loop" /\ thrown' = "none"
    /\ frames' = IF Frame.inLoop THEN frames ELSE WithFrame(NewFrame(TRUE, vm'))

Fail(s) == at' = "throw" /\ thrown' = s /\ UNCHANGED frames

(* i *)
StepIn ==
    \E r \in Runs(code[vm.ip], Advanced(vm)) :
       /\ "not_into_debug_xt" \in Obligations => ~r.breaks
       /\ vm' = r.vm
       /\ IF r.thrown # "none" THEN Fail(r.thrown) /\ NoBreak
          ELSE /\ r.vm.ip \in Addresses
               /\ IF r.breaks THEN SetBreakTwice(r.vm.ip) ELSE SetBreakAt(r.vm.ip)
               /\ Resume

AtCode == at = "break" /\ vm.ip \in Addresses /\ code[vm.ip] # StepBreak

StepInCommand == AtCode /\ StepIn

(* o *)
OverCall ==
    /\ AtCode
    /\ code[vm.ip].op = "call"
    /\ After(vm.ip) \in Addresses
    /\ SetBreakAt(After(vm.ip))
    /\ vm' = vm
    /\ Resume

(* g *)
Go == at = "break" /\ vm' = vm /\ Resume /\ NoBreak

(* q *)
Quit == at = "break" /\ Fail("abort") /\ NoBreak /\ UNCHANGED vm

(* l, a command it does not know, or the end of the line *)
Ask == at = "break" /\ Fail("restart") /\ NoBreak /\ UNCHANGED vm

(* x: the rest of the line, in a ficlVmExecuteString of its own *)
Execute ==
    /\ at = "break" /\ Len(frames) < MaxFrames /\ Room(vm.return)
    /\ vm' = PushIP(vm, Loop)
    /\ frames' = Append(frames, NewFrame(TRUE, vm'))
    /\ at' = "loop"
    /\ NoBreak /\ UNCHANGED thrown

-----------------------------------------------------------------------------
(* A throw: the handler of the inner loop writes its variables to the VM,   *)
(* then ficlVmExecuteString ends.  The variables are not volatile: each has *)
(* its last value, or what it had when the loop began if it is in a         *)
(* register that longjmp sets back.  A string that x began is followed by a *)
(* throw of step-break, RESTART for a string that came to its end.          *)

Spilled ==
    IF ~Frame.inLoop THEN {TopsOf(vm)}
    ELSE {[ip |-> i.ip, return |-> r.return, data |-> d.data] :
              i, r, d \in {Frame.entry, Frame.local}}

Ended(v) ==
    CASE thrown = "restart" -> [v EXCEPT !.restart = TRUE]
      [] thrown = "out"     -> IF v.return.top = 0 THEN v ELSE PopIP(v)
      [] thrown = "abort"   -> Reset(v)

Catch ==
    /\ at = "throw"
    /\ \E t \in Spilled :
          vm' = LET v == Ended(WithTops(vm, t))
                IN  IF Len(frames) > 1 /\ thrown # "abort"
                    THEN [v EXCEPT !.runningWord = "step-break"] ELSE v
    /\ frames' = Front(frames)
    /\ at' = IF Len(frames) = 1 THEN "idle" ELSE "throw"
    /\ thrown' = IF Len(frames) = 1 THEN "none"
                 ELSE IF thrown = "abort" THEN "abort" ELSE "restart"
    /\ NoBreak

Next == \/ Text \/ TextForStepBreak \/ TextForTick
        \/ Step \/ Break \/ Catch
        \/ StepInCommand \/ OverCall \/ Go \/ Quit \/ Ask \/ Execute

Spec == Init /\ [][Next]_vars

-----------------------------------------------------------------------------
(* Properties *)

(* The record always has what is needed to make the code whole again: at    *)
(* most one instruction is overwritten, it is the one at the record's       *)
(* address, and the record holds what it was.  Whoever is asked for a       *)
(* command, or for the next line, has a program without breakpoints.        *)
CodeRecoverable ==
    /\ \A a \in Addresses :
          code[a] # Original[a] =>
              /\ code[a] = StepBreak
              /\ a = breakpoint.address
              /\ breakpoint.oldXT = Original[a]
    /\ at \in {"idle", "break"} => code = Original

(* What the program does without a debugger: ip and the stacks *)
Plain(v) == [ip |-> v.ip, return |-> Held(v.return), data |-> Held(v.data)]

PlainStep ==
    \/ Plain(vm') = Plain(vm)
    \/ /\ at \in {"loop", "break"} /\ vm.ip \in Addresses
       /\ \E r \in Runs(Original[vm.ip], Advanced(vm)) : Plain(vm') = Plain(r.vm)
    \/ /\ at \in {"idle", "break"} /\ at' = "loop" /\ Room(vm.return)
       /\ Plain(vm') = Plain(PushIP(vm, Loop))
    \/ at = "idle" /\ \E r \in TickRuns(vm) : Plain(vm') = Plain(r.vm)
    \/ thrown = "abort" /\ Plain(vm') = Plain(Reset(vm))

(* What the end of a string does to the program: the handler of its inner   *)
(* loop puts back an ip and stack tops of that loop, each as it was when    *)
(* the loop began or at its last fetch; what the stacks hold up to there,   *)
(* and above, stays.  A loop out of text then returns.                      *)
HandlerStep ==
    /\ at = "throw" /\ thrown \in {"restart", "out"}
    /\ vm'.return.cell = vm.return.cell /\ vm'.data.cell = vm.data.cell
    /\ \E t \in [ip : {Frame.entry.ip, Frame.local.ip, vm.ip},
                 return : {Frame.entry.return, Frame.local.return, vm.return.top},
                 data : {Frame.entry.data, Frame.local.data, vm.data.top}] :
          LET v == WithTops(vm, t) IN
          Plain(vm') = Plain(IF thrown = "out" /\ t.return > 0 THEN PopIP(v) ELSE v)

(* In every session, whatever commands it has and on whatever lines, the    *)
(* debugger does not change what it watches: breakpoints, steps and         *)
(* commands leave the program to run its own instructions, each once and in *)
(* its own order, and text begins, ends and aborts as without it.  What     *)
(* goes on elsewhere went there when a throw ended its inner loop.          *)
FollowsProgram == [][PlainStep \/ HandlerStep]_vars
=============================================================================

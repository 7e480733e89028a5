--------------------------- MODULE FiclException ---------------------------
(***************************************************************************)
(* How one virtual machine enters and leaves text, words and CATCH: the C  *)
(* frames of ficlVmExecuteString, ficlVmExecuteXT and ficlPrimitiveCatch,  *)
(* the chain of their jmp_bufs, and what each of them saves, restores and  *)
(* throws on (vm.c; INTERPRET, EVALUATE, REFILL, CATCH, THROW and          *)
(* EXIT-INNER in primitives.c).                                            *)
(*                                                                         *)
(* Every frame runs one ficlVmInnerLoop.  The loop keeps the IP and the    *)
(* stack tops in local variables, writes them to the VM before it calls a  *)
(* primitive and reads them back after; its own jmp_buf only writes them   *)
(* to the VM once more and throws on.  So a frame here is the C function   *)
(* together with its loop, and `local` is what that handler writes.  The   *)
(* loop that ficlVmExecuteWord runs for one primitive writes the same      *)
(* values and is left out.                                                 *)
(***************************************************************************)
EXTENDS Integers, Sequences

CONSTANTS
    Definitions,    \* colon definitions: an IP inside one is its name
    DataSize,       \* bound on the data stack
    ReturnSize,     \* bound on the return stack
    MaxFrames,      \* bound on the C frames
    Optimised,      \* the inner loop's variables live in registers, see Spills
    Obligations     \* the rules of use the program keeps

(***************************************************************************)
(* What the code leaves to the program and to the host.                    *)
(*   whole_text          a parsing word runs out of text only at the end of *)
(*                       a text of the host, under no CATCH or EVALUATE     *)
(*   catch_interpreting  CATCH only in interpret state                     *)
(*   bye_ends            the host does not use a VM after BYE              *)
(*   failed_xt_ends      nor after a ficlVmExecuteXT of its own has thrown  *)
(*   text_first          a host that was asked for more text gives it       *)
(*                       before it calls ficlVmExecuteXT, which would leave *)
(*                       its own word as the one to run again               *)
(***************************************************************************)
AllObligations == {"whole_text", "catch_interpreting", "bye_ends", "failed_xt_ends", "text_first"}

Keeps(rule) == rule \in Obligations

Loop == "interpreterLoop"
Pill == "exitInnerWord"
None == "none"
Ips  == Definitions \cup {Loop, Pill, None}

Parsing    == {"create", "colon", "refill"}     \* primitives that need text
Primitives == Parsing \cup {"other", None}

(* The exit codes of ficl.h, and user for a number of the program's own. *)
UserCodes == {"abort", "user"}
Codes == UserCodes \cup {"inner_exit", "out_of_text", "restart", "user_exit", "error_exit", "quit"}

ASSUME DefinitionsAssumption == Definitions \cap {Loop, Pill, None} = {}
ASSUME BoundsAssumption      == /\ DataSize \in Nat /\ ReturnSize \in Nat /\ MaxFrames \in Nat \ {0}
ASSUME OptimisedAssumption   == Optimised \in BOOLEAN
ASSUME ObligationsAssumption == Obligations \subseteq AllObligations

VARIABLES
    vm,         \* the ficlVm and the tops of its two stacks
    cells,      \* the return stack's memory: its cells keep what was pushed
    frames,     \* the C frames that hold a jmp_buf, outermost first
    thrown,     \* the code of the longjmp under way, or none
    open,       \* a smudged definition is in process
    result      \* the last call of the host, and what it returned

vars == <<vm, cells, frames, thrown, open, result>>

(* A top of 0 is an empty stack; tib is the frame whose text is read, 0 for  *)
(* none; handler is the frame whose jmp_buf is installed, 0 for NULL.        *)
Vms == [ip          : Ips,
        data        : 0..DataSize,
        return      : 0..ReturnSize,
        state       : {"interpret", "compile"},
        tib         : 0..MaxFrames,
        sourceId    : {0, -1},
        restart     : BOOLEAN,
        runningWord : Primitives,
        handler     : 0..MaxFrames]

Tops    == [ip : Ips, data : 0..DataSize, return : 0..ReturnSize]
NoTops  == [ip |-> None, data |-> 0, return |-> 0]

(* copy is the VM as the frame found it: ficlPrimitiveCatch saves all of it, *)
(* the others the members that they put back.  evaluated: the text came      *)
(* by ficlVmEvaluate or EVALUATE, which set SOURCE-ID.  rerun: the frame is   *)
(* running the word again that ran out of text, outside the inner loop.      *)
Frames == [fn        : {"string", "xt", "catch"},
           copy      : Vms,
           evaluated : BOOLEAN,
           rerun     : BOOLEAN,
           entry     : Tops,
           local     : Tops]

TypeOK ==
    /\ vm \in Vms
    /\ cells \in [0..ReturnSize -> Ips]
    /\ frames \in Seq(Frames) /\ Len(frames) <= MaxFrames
    /\ thrown \in Codes \cup {None}
    /\ open \in BOOLEAN
    /\ result \in [fn : {"string", "xt"}, code : Codes]

-----------------------------------------------------------------------------
(* The virtual machine *)

TopsOf(v) == [ip |-> v.ip, data |-> v.data, return |-> v.return]

(* LOCAL_VARIABLE_SPILL *)
Spill(v, t) == [v EXCEPT !.ip = t.ip, !.data = t.data, !.return = t.return]

(* ficlVmPushIP and ficlVmPopIP, with the cell a push writes. *)
PushIP(v, ip)  == [v EXCEPT !.return = @ + 1, !.ip = ip]
Pushed(v)      == [cells EXCEPT ![v.return + 1] = v.ip]
PopIP(v)       == [v EXCEPT !.ip = cells[v.return], !.return = @ - 1]

(* Faulty: the reset forgets the return stack, or the state. *)
QuitKeepsReturns(v) ==
    [v EXCEPT !.restart = FALSE, !.ip = None, !.runningWord = None,
              !.state = "interpret", !.tib = 0, !.sourceId = 0]
QuitKeepsState(v) ==
    [v EXCEPT !.return = 0, !.restart = FALSE, !.ip = None, !.runningWord = None,
              !.tib = 0, !.sourceId = 0]

(* ficlVmQuit and ficlVmReset *)
VmQuit(v) ==
    [v EXCEPT !.return = 0, !.restart = FALSE, !.ip = None, !.runningWord = None,
              !.state = "interpret", !.tib = 0, !.sourceId = 0]
VmReset(v) == [VmQuit(v) EXCEPT !.data = 0]

Depth == Len(frames)
Top   == frames[Depth]
Idle  == frames = << >> /\ thrown = None

(* BYE, and a word that throws under a ficlVmExecuteXT of the host, leave   *)
(* the return stack as it is.                                               *)
LeftByBye == result.code = "user_exit"
LeftByXT  == result.fn = "xt" /\ result.code # "inner_exit"

MayCall == /\ Keeps("bye_ends") => ~LeftByBye
           /\ Keeps("failed_xt_ends") => ~LeftByXT

(* The inner loop of the top frame is about to fetch an instruction. *)
Running == frames # << >> /\ thrown = None /\ ~Top.rerun

(* The program's own code: the text interpreter or a colon definition. *)
Working == Running /\ vm.ip \in Definitions \cup {Loop}

Room(n, m) == vm.data + n <= DataSize /\ vm.return + m <= ReturnSize   \* bounds

(* The top frame's loop calls a primitive: what it writes to the VM first. *)
Calling == [frames EXCEPT ![Depth].local = TopsOf(vm)]

FreshVm == [ip |-> None, data |-> 0, return |-> 0, state |-> "interpret", tib |-> 0,
            sourceId |-> 0, restart |-> FALSE, runningWord |-> None, handler |-> 0]

(* Faulty: ficlVmExecuteString does not save the text it replaces. *)
SavedWithoutTib(fn, v) ==
    CASE fn = "catch"  -> v
      [] fn = "string" -> [FreshVm EXCEPT !.handler = v.handler, !.sourceId = v.sourceId]
      [] fn = "xt"     -> [FreshVm EXCEPT !.handler = v.handler,
                                          !.runningWord = v.runningWord]

Saved(fn, v) ==
    CASE fn = "catch"  -> v
      [] fn = "string" -> [FreshVm EXCEPT !.handler = v.handler, !.tib = v.tib,
                                          !.sourceId = v.sourceId]
      [] fn = "xt"     -> [FreshVm EXCEPT !.handler = v.handler,
                                          !.runningWord = v.runningWord]

(* start is the VM when the frame's inner loop starts. *)
NewFrame(fn, v, evaluated, rerun, start) ==
    [fn |-> fn, copy |-> Saved(fn, v), evaluated |-> evaluated, rerun |-> rerun,
     entry |-> IF Optimised THEN TopsOf(start) ELSE NoTops, local |-> NoTops]

(* What a loop's handler writes: the values of the call under way.  Each of  *)
(* the variables is changed between setjmp and longjmp and not volatile; in  *)
(* an optimised build it may be in a register that longjmp sets back to what *)
(* it was when the loop started.                                             *)
Spills(frame) ==
    IF frame.rerun THEN {TopsOf(vm)}
    ELSE IF ~Optimised THEN {frame.local}
    ELSE {[ip |-> i.ip, data |-> d.data, return |-> r.return] :
              i, d, r \in {frame.local, frame.entry}}

-----------------------------------------------------------------------------
(* Calls of the host *)

(* ficlVmExecuteString, by ficlVmEvaluate or directly: new text, and either *)
(* the interpreter loop or the word that ran out of the text before.        *)
HostText(evaluated) ==                      \* bound: MaxFrames is at least 1
    LET bound == [vm EXCEPT !.tib = 1, !.handler = 1,
                            !.sourceId = IF evaluated THEN -1 ELSE @]
    IN
    /\ Idle /\ MayCall
    /\ Room(0, 1)
    /\ vm' = IF vm.restart THEN bound ELSE PushIP(bound, Loop)
    /\ cells' = IF vm.restart THEN cells ELSE Pushed(vm)
    /\ frames' = <<NewFrame("string", vm, evaluated, vm.restart, vm')>>
    /\ UNCHANGED <<thrown, open, result>>

(* ficlVmExecuteXT of a colon definition, between two texts. *)
HostXT(d) ==
    /\ Idle /\ MayCall
    /\ Keeps("text_first") => ~vm.restart
    /\ Room(0, 2)
    /\ vm' = PushIP(PushIP([vm EXCEPT !.handler = 1], Pill), d)
    /\ cells' = [Pushed(vm) EXCEPT ![vm.return + 2] = Pill]
    /\ frames' = <<NewFrame("xt", vm, FALSE, FALSE, vm')>>
    /\ UNCHANGED <<thrown, open, result>>

-----------------------------------------------------------------------------
(* The word that ran out of text, run again by ficlVmExecuteString *)

Rerunning == frames # << >> /\ thrown = None /\ Top.rerun

(* Faulty: restart stays set. *)
RerunKeepsRestart ==
    /\ Rerunning
    /\ vm.runningWord \in Parsing
    /\ vm.runningWord = "refill" => vm.data < DataSize
    /\ vm' = [vm EXCEPT !.data  = IF vm.runningWord = "refill" THEN @ + 1 ELSE @,
                        !.state = IF vm.runningWord = "colon" THEN "compile" ELSE @]
    /\ open' = (open \/ vm.runningWord = "colon")
    /\ frames' = [frames EXCEPT ![Depth].rerun = FALSE]
    /\ UNCHANGED <<cells, thrown, result>>

(* It has its text now: CREATE has defined a word, : opens a definition, and *)
(* REFILL, which sees restart set, pushes a flag.                            *)
RerunDone ==
    /\ Rerunning
    /\ vm.runningWord \in Parsing
    /\ vm.runningWord = "refill" => vm.data < DataSize
    /\ vm' = [vm EXCEPT !.restart = FALSE,
                        !.data  = IF vm.runningWord = "refill" THEN @ + 1 ELSE @,
                        !.state = IF vm.runningWord = "colon" THEN "compile" ELSE @]
    /\ open' = (open \/ vm.runningWord = "colon")
    /\ frames' = [frames EXCEPT ![Depth].rerun = FALSE, ![Depth].entry = IF Optimised THEN TopsOf(vm') ELSE NoTops]
    /\ UNCHANGED <<cells, thrown, result>>

(* The new text was empty, or the word fails. *)
RerunThrows ==
    /\ Rerunning
    /\ thrown' \in {"restart", "error_exit"}
    /\ thrown' = "restart" => vm.runningWord \in Parsing \ {"refill"}
    /\ UNCHANGED <<vm, cells, frames, open, result>>

-----------------------------------------------------------------------------
(* Steps of the program inside a frame *)

Push ==
    /\ Working
    /\ Room(1, 0)
    /\ vm' = [vm EXCEPT !.data = @ + 1]
    /\ UNCHANGED <<cells, frames, thrown, open, result>>

Drop ==
    /\ Working
    /\ vm.data > 0
    /\ vm' = [vm EXCEPT !.data = @ - 1]
    /\ UNCHANGED <<cells, frames, thrown, open, result>>

Call(d) ==
    /\ Working
    /\ Room(0, 1)
    /\ vm' = PushIP(vm, d)
    /\ cells' = Pushed(vm)
    /\ UNCHANGED <<frames, thrown, open, result>>

Exit ==
    /\ Running
    /\ vm.ip \in Definitions
    /\ vm' = PopIP(vm)
    /\ UNCHANGED <<cells, frames, thrown, open, result>>

Colon ==
    /\ Working
    /\ vm.state = "interpret"
    /\ vm' = [vm EXCEPT !.state = "compile", !.runningWord = "colon"]
    /\ open' = TRUE
    /\ UNCHANGED <<cells, frames, thrown, result>>

Semicolon ==
    /\ Working
    /\ vm.state = "compile" /\ open
    /\ vm' = [vm EXCEPT !.state = "interpret", !.runningWord = "other"]
    /\ open' = FALSE
    /\ UNCHANGED <<cells, frames, thrown, result>>

(* EVALUATE: a text inside the text.  Its string is one cell here. *)
Evaluate ==
    LET at == [vm EXCEPT !.data = @ - 1, !.runningWord = "other"] IN
    /\ Working
    /\ vm.data > 0 /\ Room(0, 1) /\ Depth < MaxFrames
    /\ vm' = IF vm.restart
             THEN [at EXCEPT !.tib = Depth + 1, !.handler = Depth + 1, !.sourceId = -1]
             ELSE PushIP([at EXCEPT !.tib = Depth + 1, !.handler = Depth + 1,
                                    !.sourceId = -1], Loop)
    /\ cells' = IF vm.restart THEN cells ELSE Pushed(at)
    /\ frames' = Append(Calling, NewFrame("string", at, TRUE, vm.restart, vm'))
    /\ UNCHANGED <<thrown, open, result>>

(* CATCH of a colon definition: a copy of the VM, the pill, and its body. *)
Catch(d) ==
    LET at == [vm EXCEPT !.data = @ - 1, !.runningWord = "other"] IN
    /\ Working
    /\ vm.data > 0 /\ Room(0, 2) /\ Depth < MaxFrames
    /\ Keeps("catch_interpreting") => vm.state = "interpret"
    /\ vm' = PushIP(PushIP([at EXCEPT !.handler = Depth + 1], Pill), d)
    /\ cells' = [Pushed(at) EXCEPT ![at.return + 2] = Pill]
    /\ frames' = Append(Calling, NewFrame("catch", at, FALSE, FALSE, vm'))
    /\ UNCHANGED <<thrown, open, result>>

(* INTERPRET hands a token to a parse step that is a colon definition. *)
ParseStep(d) ==
    LET at == [vm EXCEPT !.data = @ + 1, !.runningWord = "other"] IN
    /\ Running /\ vm.ip = Loop
    /\ Room(1, 2) /\ Depth < MaxFrames
    /\ vm' = PushIP(PushIP([at EXCEPT !.handler = Depth + 1], Pill), d)
    /\ cells' = [Pushed(at) EXCEPT ![at.return + 2] = Pill]
    /\ frames' = Append(Calling, NewFrame("xt", at, FALSE, FALSE, vm'))
    /\ UNCHANGED <<thrown, open, result>>

-----------------------------------------------------------------------------
(* Primitives that throw.  The loop's handler takes back what they popped.  *)

Throws(code, word) ==
    /\ thrown' = code
    /\ frames' = Calling
    /\ vm' = [vm EXCEPT !.runningWord = word]
    /\ UNCHANGED <<cells, open, result>>

(* INTERPRET at the end of its text. *)
OutOfText == Running /\ vm.ip = Loop /\ Throws("out_of_text", "other")

(* The end of a definition that ficlVmExecuteXT or CATCH has started. *)
ExitInner == Running /\ vm.ip = Pill /\ Room(1, 0) /\ Throws("inner_exit", "other")

(* THROW, QUIT, BYE, and every ficlVmThrowError. *)
Throw(code) == Working /\ vm.data > 0 /\ Throws(code, "other")
Quit        == Working /\ Throws("quit", "other")
Bye         == Working /\ Throws("user_exit", "other")
Error       == Working /\ Throws("error_exit", "other")

(* ficlVmGetWord finds no text. *)
NeedText(word) ==
    /\ Working
    /\ word = "colon" => vm.state = "interpret"
    /\ Keeps("whole_text") => Depth = 1 /\ Top.fn = "string"
    /\ Throws("restart", word)

(* REFILL: a flag where SOURCE-ID names a string, more text elsewhere. *)
RefillNone ==
    /\ Working
    /\ vm.sourceId = -1 \/ vm.restart
    /\ Room(1, 0)
    /\ vm' = [vm EXCEPT !.data = @ + 1, !.runningWord = "refill"]
    /\ UNCHANGED <<cells, frames, thrown, open, result>>

Refill ==
    /\ vm.sourceId = 0 /\ ~vm.restart
    /\ NeedText("refill")

-----------------------------------------------------------------------------
(* Where a longjmp lands *)

Handler == frames[vm.handler]
Below   == SubSeq(frames, 1, vm.handler - 1)

(* The word that called the frame returns to the loop below it, or to the    *)
(* host.                                                                     *)
Return(v, code) ==
    /\ vm' = v
    /\ thrown' = None
    /\ IF Below = << >>
       THEN frames' = << >> /\ result' = [fn |-> Handler.fn, code |-> code]
       ELSE frames' = [Below EXCEPT ![vm.handler - 1].local = NoTops] /\ UNCHANGED result

(* Faulty: the handler throws to itself. *)
ThrowAgain(v, code) ==
    /\ vm' = [v EXCEPT !.handler = vm.handler]
    /\ thrown' = code
    /\ UNCHANGED <<frames, result>>

ThrowOn(v, code) ==
    /\ vm' = v
    /\ thrown' = code
    /\ frames' = Below
    /\ UNCHANGED result

Aborts(code) == code \in {"quit", "error_exit"} \cup UserCodes

(* ficlVmExecuteString, then ficlPrimitiveEvaluate or the host. *)
LandString ==
    \E t \in Spills(Handler) :
        LET v    == Spill(vm, t)
            done == CASE thrown = "restart"     -> [v EXCEPT !.restart = TRUE]
                      [] thrown = "out_of_text" -> PopIP(v)
                      [] thrown = "quit"        -> VmQuit(v)
                      [] thrown \in {"error_exit"} \cup UserCodes -> VmReset(v)
                      [] OTHER                  -> v
            back == [done EXCEPT !.handler  = Handler.copy.handler,
                                 !.tib      = Handler.copy.tib,
                                 !.sourceId = IF Handler.evaluated THEN Handler.copy.sourceId ELSE @]
            code == IF thrown = "restart" THEN "out_of_text" ELSE thrown
        IN
        /\ Handler.fn = "string"
        /\ open' = IF Aborts(thrown) /\ v.state = "compile" THEN FALSE ELSE open
        /\ IF code = "out_of_text" \/ Below = << >> THEN Return(back, code) ELSE ThrowOn(back, code)
        /\ UNCHANGED cells

(* ficlVmExecuteXT, then INTERPRET, which pops the flag of the parse step,   *)
(* or the host.                                                              *)
LandXT ==
    \E t \in Spills(Handler) :
        LET v    == PopIP(Spill(vm, t))
            back == [v EXCEPT !.handler = Handler.copy.handler]
            kept == [back EXCEPT !.runningWord = Handler.copy.runningWord]
        IN
        /\ Handler.fn = "xt"
        /\ \/ /\ thrown # "inner_exit" /\ Below # << >>
              /\ ThrowOn(back, thrown)
           \/ /\ Below = << >>
              /\ Return(kept, thrown)
           \/ /\ thrown = "inner_exit" /\ Below # << >> /\ v.data > 0
              /\ Return([kept EXCEPT !.data = @ - 1], thrown)
           \/ /\ thrown = "inner_exit" /\ Below # << >>
              /\ ThrowOn(kept, "error_exit")
        /\ UNCHANGED <<cells, open>>

(* Faulty: a CATCH that ends normally leaves its pill; one that catches    *)
(* leaves the return stack as it is.                                       *)
CatchKeepsPill ==
    \E t \in Spills(Handler) :
        LET v == Spill(vm, t) IN
        /\ Handler.fn = "catch"
        /\ IF thrown = "inner_exit"
           THEN Return([v EXCEPT !.handler = Handler.copy.handler, !.data = @ + 1], thrown)
           ELSE Return([Handler.copy EXCEPT !.data = @ + 1], thrown)
        /\ UNCHANGED <<cells, open>>
CatchKeepsReturns ==
    \E t \in Spills(Handler) :
        LET v == PopIP(Spill(vm, t)) IN
        /\ Handler.fn = "catch"
        /\ IF thrown = "inner_exit"
           THEN Return([v EXCEPT !.handler = Handler.copy.handler, !.data = @ + 1], thrown)
           ELSE Return([Handler.copy EXCEPT !.data = @ + 1, !.return = v.return], thrown)
        /\ UNCHANGED <<cells, open>>

(* ficlPrimitiveCatch: zero, or the VM as it was and the code. *)
LandCatch ==
    \E t \in Spills(Handler) :
        LET v == PopIP(Spill(vm, t)) IN
        /\ Handler.fn = "catch"
        /\ IF thrown = "inner_exit"
           THEN Return([v EXCEPT !.handler = Handler.copy.handler, !.data = @ + 1], thrown)
           ELSE Return([Handler.copy EXCEPT !.data = @ + 1], thrown)
        /\ UNCHANGED <<cells, open>>

Land == thrown # None /\ (LandString \/ LandXT \/ LandCatch)

-----------------------------------------------------------------------------

Init ==
    /\ vm = FreshVm
    /\ cells = [i \in 0..ReturnSize |-> None]
    /\ frames = << >>
    /\ thrown = None
    /\ open = FALSE
    /\ result = [fn |-> "string", code |-> "out_of_text"]

Next ==
    \/ \E e \in BOOLEAN : HostText(e)
    \/ \E d \in Definitions : HostXT(d) \/ Call(d) \/ Catch(d) \/ ParseStep(d)
    \/ \E c \in UserCodes : Throw(c)
    \/ \E w \in {"create", "colon"} : NeedText(w)
    \/ RerunDone \/ RerunThrows
    \/ Push \/ Drop \/ Exit \/ Colon \/ Semicolon \/ Evaluate
    \/ OutOfText \/ ExitInner \/ Quit \/ Bye \/ Error \/ Refill \/ RefillNone
    \/ Land

Spec == Init /\ [][Next]_vars

(* longjmp and the handler it lands in run to their end. *)
FairSpec == Spec /\ WF_vars(Land)

-----------------------------------------------------------------------------
(* Safety *)

(* The installed jmp_buf is the one of the innermost C frame still active:  *)
(* no longjmp goes to a frame that has returned, none skips a frame.        *)
HandlerInnermost == vm.handler = Depth

(* Whatever was thrown and caught, the VM reads the text of the innermost   *)
(* ficlVmExecuteString, and SOURCE-ID says where that text came from.       *)
InnermostText(s, i) ==
    /\ s \in 0..i
    /\ s # 0 => frames[s].fn = "string"
    /\ \A j \in 1..i : frames[j].fn = "string" => j <= s

SourceId(s) == IF s # 0 /\ frames[s].evaluated THEN -1 ELSE 0

TextOfInnermost ==
    /\ InnermostText(vm.tib, Depth)
    /\ vm.sourceId = SourceId(vm.tib)

(* The inner loop never fetches from NULL, runs the interpreter loop only   *)
(* in a text, and meets the pill only under ficlVmExecuteXT or CATCH.       *)
IpSound ==
    Running => /\ vm.ip # None
               /\ vm.ip = Loop => Top.fn = "string"
               /\ vm.ip = Pill => Top.fn \in {"xt", "catch"}

(* Between two calls of the host the return stack is empty and the IP NULL, *)
(* or both are as the word left them that waits for more text, and the way  *)
(* back out of them is still at the bottom.                                 *)
HostBalanced ==
    (Idle /\ ~LeftByBye /\ ~LeftByXT) =>
        IF vm.restart
        THEN /\ vm.runningWord \in Parsing /\ vm.ip # None
             /\ vm.return > 0 /\ cells[1] = None
        ELSE vm.ip = None /\ vm.return = 0

(* In compile state there is a definition in process, which the handler of  *)
(* ficlVmExecuteString can abort (ficlDictionaryAbortDefinition).            *)
CompilingIsOpen == vm.state = "compile" => open

(* A word that has asked for more text is the next thing to run.            *)
RestartAtHost == vm.restart => frames = << >> \/ (Depth = 1 /\ Top.rerun)

(* Whatever is thrown is caught, or reaches the host.                       *)
ThrowLands == thrown # None ~> thrown = None
=============================================================================

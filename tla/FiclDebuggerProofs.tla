------------------------- MODULE FiclDebuggerProofs -------------------------
(***************************************************************************)
(* What FiclDebugger says of the step debugger holds for every program,    *)
(* for stacks of any size and for strings that x nests to any depth, as    *)
(* long as the user keeps the two rules: the code can be made whole again, *)
(* and the program runs as it does without a debugger.                     *)
(***************************************************************************)
EXTENDS FiclDebugger, SequenceTheorems, TLAPS

Careful == {"over_returns", "not_into_debug_xt"} \subseteq Obligations

Places == (Words \cup {"loop", "none"}) \X Nat

StacksOf(n, X) == [top : 0..n, cell : [1..n -> X]]

VM == [ip : Places, restart : BOOLEAN, runningWord : {"none", "tick", "step-break"},
       return : StacksOf(MaxReturn, Places), data : StacksOf(MaxData, Words \cup {"none"})]

Tops == [ip : Places, return : 0..MaxReturn, data : 0..MaxData]

FrameRecords == [inLoop : BOOLEAN, entry : Tops, local : Tops]

Typed ==
    /\ vm \in VM
    /\ frames \in Seq(FrameRecords)
    /\ at \in {"idle", "loop", "break", "throw"}
    /\ at = "idle" \/ frames # <<>>
    /\ at = "throw" <=> thrown # "none"
    /\ thrown \in {"none", "abort", "restart", "out"}

(* The code, but for a breakpoint at a. *)
BrokenAt(a) == [Original EXCEPT ![a] = StepBreak]

CodeSound ==
    \/ code = Original
    \/ /\ at = "loop"
       /\ breakpoint.address \in Addresses
       /\ breakpoint.oldXT = Original[breakpoint.address]
       /\ code = BrokenAt(breakpoint.address)

InWord(a) == a[1] \in Words

(* The definitions v runs come back to b before any other code is run. *)
ReturnsTo(b, v) ==
    \E i \in 1..v.return.top :
        /\ v.return.cell[i] = b
        /\ \A j \in i + 1 .. v.return.top : InWord(v.return.cell[j])

(* v is on its way to a breakpoint at b: it is there, it calls the word     *)
(* before b, or it runs words that return to b.                             *)
Reaches(b, v) ==
    \/ v.ip = b
    \/ v.ip \in Addresses /\ Original[v.ip].op = "call" /\ After(v.ip) = b
    \/ InWord(v.ip) /\ ReturnsTo(b, v)

BreakpointAhead == code # Original => Reaches(breakpoint.address, vm)

IInv == Typed /\ CodeSound /\ BreakpointAhead

-----------------------------------------------------------------------------
(* Code *)

(* What an instruction of the word, or of the loop, that a is in can be. *)
KnownAt(a, i) ==
    \/ a[1] = "loop" /\ (i = Interpret \/ i = Branch(Loop))
    \/ /\ InWord(a)
       /\ \/ i = Prim
          \/ i = Exit
          \/ \E w \in Words : i = Call(w)
          \/ \E n \in Nat : i = Branch(<<a[1], n>>) \/ i = Branch0(<<a[1], n>>)

(* Every address has an instruction, and none of them is step-break.       *)
LEMMA OriginalKnown ==
    ASSUME NEW a \in Addresses
    PROVE  /\ a \in Places /\ After(a) \in Places /\ After(a)[1] = a[1]
           /\ KnownAt(a, Original[a])
           /\ Original[a] # StepBreak
<1>1. PICK w \in Words \cup {"loop"} : a \in {w} \X DOMAIN CodeOf(w)
    BY DEF Addresses
<1>2. Original[a] = CodeOf(w)[a[2]] /\ a[1] = w /\ a[2] \in DOMAIN CodeOf(w) /\ a = <<a[1], a[2]>>
    BY <1>1 DEF Original
<1>3. CASE w = "loop"
    <2>1. CodeOf(w) = <<Interpret, Branch(Loop)>>
        BY <1>3 DEF CodeOf
    <2>2. a[2] = 1 \/ a[2] = 2
        BY <2>1, <1>2
    <2>3. Original[a] = Interpret \/ Original[a] = Branch(Loop)
        BY <2>1, <2>2, <1>2
    <2>4. KnownAt(a, Original[a])
        BY <2>3, <1>2, <1>3 DEF KnownAt
    <2>5. Original[a].op \in {"interpret", "branch"}
        BY <2>3 DEF Interpret, Branch
    <2> QED
        BY <2>2, <2>4, <2>5, <1>2, <1>3 DEF Places, After, StepBreak
<1>4. CASE w \in Words /\ w # "loop"
    <2>1. CodeOf(w) = Body(w) /\ Body(w) \in Seq(InBody(w))
        BY <1>4, BodyAssumption DEF CodeOf
    <2>2. a[2] \in Nat /\ Original[a] \in InBody(w) /\ DOMAIN Body(w) \subseteq Nat
        BY <2>1, <1>2
    <2>3. \/ Original[a] = Prim \/ Original[a] = Exit
          \/ \E x \in Words : Original[a] = Call(x)
          \/ \E n \in Nat : Original[a] = Branch(<<w, n>>) \/ Original[a] = Branch0(<<w, n>>)
        BY <2>2 DEF InBody
    <2>4. KnownAt(a, Original[a])
        BY <2>3, <1>2, <1>4 DEF KnownAt, InWord
    <2>5. Original[a].op # "step-break"
        <3>1. Prim.op # "step-break" /\ Exit.op # "step-break"
            BY DEF Prim, Exit
        <3>2. \A x : Call(x).op # "step-break" /\ Branch(x).op # "step-break" /\ Branch0(x).op # "step-break"
            BY DEF Call, Branch, Branch0
        <3> QED
            BY <2>3, <3>1, <3>2
    <2> QED
        BY <2>2, <2>4, <2>5, <1>2, <1>4 DEF Places, After, StepBreak
<1> QED
    BY <1>3, <1>4

(* A breakpoint at b: every other instruction is what it was.              *)
LEMMA BrokenAtB ==
    ASSUME NEW b \in Addresses
    PROVE  /\ \A a \in Addresses : BrokenAt(b)[a] = IF a = b THEN StepBreak ELSE Original[a]
           /\ BrokenAt(b) # Original
           /\ [BrokenAt(b) EXCEPT ![b] = Original[b]] = Original
    BY OriginalKnown DEF BrokenAt, Original

-----------------------------------------------------------------------------
(* Stacks *)

\* A stack with room is below its bound.
LEMMA RoomMeans ==
    ASSUME NEW n \in Nat, NEW X, NEW s \in StacksOf(n, X)
    PROVE  Room(s) => s.top < n
    <1>1. s.cell \in [1..n -> X]
        BY DEF StacksOf
    <1>2. Len(s.cell) = n
        BY <1>1
    <1> QED
        BY <1>2 DEF Room

\* A push leaves what was on the stack below the new top.
LEMMA Pushed ==
    ASSUME NEW n \in Nat, NEW X, NEW s \in StacksOf(n, X), NEW x \in X, s.top < n
    PROVE  /\ Push(s, x) \in StacksOf(n, X)
           /\ Push(s, x).top = s.top + 1
           /\ Push(s, x).cell[s.top + 1] = x
           /\ \A i \in 1..s.top : Push(s, x).cell[i] = s.cell[i]
    BY DEF Push, StacksOf

\* A pop gives an element and leaves the cells alone.
LEMMA Popped ==
    ASSUME NEW n \in Nat, NEW X, NEW s \in StacksOf(n, X), s.top # 0
    PROVE  /\ Top(s) \in X /\ Pop(s) \in StacksOf(n, X)
           /\ Pop(s).top = s.top - 1 /\ Pop(s).cell = s.cell
    BY DEF Top, Pop, StacksOf

\* PushIP saves the IP on the return stack.
LEMMA PushIPTyped ==
    ASSUME NEW v \in VM, NEW a \in Places, v.return.top < MaxReturn
    PROVE  /\ PushIP(v, a) \in VM
           /\ PushIP(v, a).ip = a
           /\ PushIP(v, a).return = Push(v.return, v.ip)
    <1>1. Push(v.return, v.ip) \in StacksOf(MaxReturn, Places)
        BY Pushed, DebuggerAssumption DEF VM
    <1> QED
        BY <1>1 DEF PushIP, VM

\* PopIP takes the IP from the return stack.
LEMMA PopIPTyped ==
    ASSUME NEW v \in VM, v.return.top # 0
    PROVE  /\ PopIP(v) \in VM
           /\ PopIP(v).ip = Top(v.return)
           /\ PopIP(v).return = Pop(v.return)
    <1>1. Pop(v.return) \in StacksOf(MaxReturn, Places) /\ Top(v.return) \in Places
        BY Popped, DebuggerAssumption DEF VM
    <1> QED
        BY <1>1 DEF PopIP, VM

-----------------------------------------------------------------------------
(* Instructions *)

Outcomes == {r \in [vm : VM, thrown : {"none", "abort", "restart", "out"}, breaks : BOOLEAN] :
                r.breaks => r.thrown = "none"}

\* A run that ends well and one that throws are outcomes.
LEMMA OutcomesTyped ==
    ASSUME NEW v \in VM
    PROVE  Fine(v) \in Outcomes /\ Throws(v, "abort") \in Outcomes
           /\ Throws(v, "restart") \in Outcomes /\ Throws(v, "out") \in Outcomes
    BY DEF Fine, Throws, Outcomes

\* A word entered from the loop leaves a typed VM.
LEMMA EnterTyped ==
    ASSUME NEW v \in VM, NEW w \in Words \cup {"none"}, v.return.top < MaxReturn
    PROVE  Enter(v, w) \in VM /\ Fine(Enter(v, w)) \in Outcomes
    <1>1. <<w, 1>> \in Places
        BY DEF Places
    <1> QED
        BY <1>1, PushIPTyped, OutcomesTyped DEF Enter

\* ' gives outcomes that set no breakpoint.
LEMMA TickTyped ==
    ASSUME NEW v \in VM, NEW r \in TickRuns(v)
    PROVE  r \in Outcomes /\ r.breaks = FALSE
    <1>1. CASE \E w \in Words : Room(v.data) /\ r = Fine([v EXCEPT !.data = Push(@, w)])
        <2>1. PICK w \in Words : Room(v.data) /\ r = Fine([v EXCEPT !.data = Push(@, w)])
            BY <1>1
        <2>2. Push(v.data, w) \in StacksOf(MaxData, Words \cup {"none"})
            BY <2>1, RoomMeans, Pushed, DebuggerAssumption DEF VM
        <2>3. [v EXCEPT !.data = Push(@, w)] \in VM
            BY <2>2 DEF VM
        <2> QED
            BY <2>1, <2>3, OutcomesTyped DEF Fine
    <1>2. CASE r = Throws(v, "abort")
        BY <1>2, OutcomesTyped DEF Throws
    <1>3. CASE r = Throws([v EXCEPT !.runningWord = "tick"], "restart")
        <2>1. [v EXCEPT !.runningWord = "tick"] \in VM
            BY DEF VM
        <2> QED
            BY <1>3, <2>1, OutcomesTyped DEF Throws
    <1> QED
        BY <1>1, <1>2, <1>3 DEF TickRuns

\* DEBUG-XT gives outcomes.
LEMMA DebugXTTyped ==
    ASSUME NEW v \in VM, NEW r \in DebugXTRuns(v)
    PROVE  r \in Outcomes
    <1> DEFINE u == [v EXCEPT !.data = Pop(@)]
    <1>0. v.data.top \in Nat /\ v.return.top \in Nat /\ MaxReturn \in Nat
        BY DebuggerAssumption DEF VM, StacksOf
    <1>1. /\ v.data.top # 0 /\ v.return.top < MaxReturn
          /\ r = [Fine(Enter(u, Top(v.data))) EXCEPT !.breaks = TRUE]
        <2>1. PICK x \in IF v.data.top > 0 THEN v.return.top + 1 .. MaxReturn ELSE {} :
                  r = [Fine(Enter(u, Top(v.data))) EXCEPT !.breaks = TRUE]
            BY DEF DebugXTRuns
        <2> HIDE DEF u
        <2>2. v.data.top > 0 /\ x \in v.return.top + 1 .. MaxReturn
            BY <2>1
        <2> QED
            BY <1>0, <2>1, <2>2
    <1>2. Pop(v.data) \in StacksOf(MaxData, Words \cup {"none"}) /\ Top(v.data) \in Words \cup {"none"}
        BY <1>1, Popped, DebuggerAssumption DEF VM
    <1>3. u \in VM /\ u.return.top < MaxReturn
        BY <1>1, <1>2 DEF VM
    <1> HIDE DEF u
    <1>4. Fine(Enter(u, Top(v.data))) \in Outcomes
        BY <1>2, <1>3, EnterTyped
    <1>5. Fine(Enter(u, Top(v.data))).thrown = "none"
        BY DEF Fine
    <1> QED
        BY <1>1, <1>4, <1>5 DEF Outcomes

\* The next word of the text gives outcomes.
LEMMA InterpretTyped ==
    ASSUME NEW v \in VM, NEW r \in InterpretRuns(v)
    PROVE  r \in Outcomes
    <1>1. ASSUME NEW w \in Words, Room(v.return)
          PROVE  Fine(Enter(v, w)) \in Outcomes
        BY <1>1, EnterTyped, RoomMeans, DebuggerAssumption DEF VM
    <1> QED
        BY <1>1, OutcomesTyped, TickTyped, DebugXTTyped DEF InterpretRuns

(* An instruction leaves a VM, and a status that a handler knows.          *)
LEMMA RunsTyped ==
    ASSUME NEW a \in Addresses, NEW v \in VM, NEW r \in Runs(Original[a], v)
    PROVE  r \in Outcomes
    <1> DEFINE i == Original[a]
    <1>1. KnownAt(a, i) /\ a \in Places
        BY OriginalKnown
    <1>2. v.return.top \in Nat /\ MaxReturn \in Nat
        BY DebuggerAssumption DEF VM, StacksOf
    <1> HIDE DEF i
    <1>3. CASE i = Prim
        BY <1>3, OutcomesTyped DEF Runs, Prim, i
    <1>4. CASE i = Exit
        BY <1>2, <1>4, OutcomesTyped, PopIPTyped DEF Runs, Exit, i
    <1>5. CASE \E w \in Words : i = Call(w)
        BY <1>2, <1>5, EnterTyped DEF Runs, Call, i
    <1>6. CASE i = Interpret
        BY <1>6, InterpretTyped DEF Runs, Interpret, i
    <1>7. ASSUME NEW b \in Places PROVE Fine([v EXCEPT !.ip = b]) \in Outcomes
        <2>1. [v EXCEPT !.ip = b] \in VM
            BY DEF VM
        <2> QED
            BY <2>1, OutcomesTyped
    <1>8. CASE \E b \in Places : i = Branch(b)
        BY <1>7, <1>8 DEF Runs, Branch, i
    <1>9. CASE \E b \in Places : i = Branch0(b)
        BY <1>7, <1>9, OutcomesTyped DEF Runs, Branch0, i
    <1>10. Loop \in Places /\ \A n \in Nat : InWord(a) => <<a[1], n>> \in Places
        BY DEF Loop, Places, InWord
    <1> QED
        BY <1>1, <1>3, <1>4, <1>5, <1>6, <1>8, <1>9, <1>10 DEF KnownAt

-----------------------------------------------------------------------------
(* The way to the breakpoint *)

(* Going on at a place in a word keeps the way back. *)
LEMMA ReachesByWay ==
    ASSUME NEW b, NEW v, InWord(v.ip), ReturnsTo(b, v)
    PROVE  Reaches(b, v)
    BY DEF Reaches

(* A call puts the place after it on the way back, or lengthens the way.   *)
LEMMA CallReaches ==
    ASSUME NEW b, NEW v \in VM, NEW w \in Words, v.return.top < MaxReturn,
           v.ip = b \/ (InWord(v.ip) /\ ReturnsTo(b, v))
    PROVE  Reaches(b, Enter(v, w))
    <1> DEFINE u == Enter(v, w)
               s == v.return
    <1>1. <<w, 1>> \in Places /\ InWord(<<w, 1>>)
        BY DEF Places, InWord
    <1>2. u.ip = <<w, 1>> /\ u.return = Push(s, v.ip) /\ v.ip \in Places
        BY <1>1, PushIPTyped DEF Enter, VM
    <1>3. /\ s.top \in Nat /\ u.return.top = s.top + 1 /\ u.return.cell[s.top + 1] = v.ip
          /\ \A j \in 1..s.top : u.return.cell[j] = s.cell[j]
        <2>1. s \in StacksOf(MaxReturn, Places) /\ s.top < MaxReturn /\ MaxReturn \in Nat
            BY DebuggerAssumption DEF VM
        <2>2. s.top \in Nat
            BY <2>1 DEF StacksOf
        <2>3. v.ip \in Places
            BY <1>2
        <2> HIDE DEF u, s
        <2>4. /\ Push(s, v.ip).top = s.top + 1 /\ Push(s, v.ip).cell[s.top + 1] = v.ip
              /\ \A j \in 1..s.top : Push(s, v.ip).cell[j] = s.cell[j]
            BY <2>1, <2>3, Pushed
        <2> QED
            BY <1>2, <2>2, <2>4
    <1> HIDE DEF u, s
    <1>4. CASE v.ip = b
        BY <1>3, <1>4, <1>1, <1>2 DEF ReturnsTo, Reaches, u
    <1>5. CASE InWord(v.ip) /\ ReturnsTo(b, v)
        <2>1. PICK k \in 1..s.top : s.cell[k] = b /\ \A j \in k + 1 .. s.top : InWord(s.cell[j])
            BY <1>5 DEF ReturnsTo, s
        <2>2. k \in 1..u.return.top /\ u.return.cell[k] = b
            BY <2>1, <1>3
        <2>3. \A j \in k + 1 .. u.return.top : InWord(u.return.cell[j])
            BY <2>1, <1>3, <1>5
        <2> QED
            BY <2>2, <2>3, <1>1, <1>2 DEF ReturnsTo, Reaches, u
    <1> QED
        BY <1>4, <1>5

(* A return is to the breakpoint, or stays on the way to it.               *)
LEMMA ExitReaches ==
    ASSUME NEW b, NEW v \in VM, v.return.top # 0, ReturnsTo(b, v)
    PROVE  Reaches(b, PopIP(v))
    <1> DEFINE u == PopIP(v)
               s == v.return
    <1>1. u.ip = s.cell[s.top] /\ u.return.top = s.top - 1 /\ u.return.cell = s.cell /\ s.top \in Nat
        <2>1. s \in StacksOf(MaxReturn, Places) /\ MaxReturn \in Nat /\ s.top # 0
              /\ u.ip = Top(s) /\ u.return = Pop(s)
            BY PopIPTyped, DebuggerAssumption DEF VM
        <2>2. s.top \in Nat
            BY <2>1 DEF StacksOf
        <2> HIDE DEF u, s
        <2> QED
            BY <2>1, <2>2, Popped DEF Top
    <1>2. PICK k \in 1..s.top : s.cell[k] = b /\ \A j \in k + 1 .. s.top : InWord(s.cell[j])
        BY DEF ReturnsTo
    <1> HIDE DEF u, s
    <1>3. CASE k = s.top
        BY <1>1, <1>2, <1>3 DEF Reaches, u
    <1>4. CASE k < s.top
        <2>1. InWord(u.ip)
            BY <1>1, <1>2, <1>4
        <2>2. k \in 1..u.return.top /\ \A j \in k + 1 .. u.return.top : InWord(u.return.cell[j])
            BY <1>1, <1>2, <1>4
        <2> QED
            BY <1>1, <1>2, <2>1, <2>2 DEF ReturnsTo, Reaches, u
    <1> QED
        BY <1>1, <1>2, <1>3, <1>4

\* The IP moves past the instruction that is fetched.
LEMMA AdvancedTyped ==
    ASSUME NEW v \in VM, v.ip \in Addresses
    PROVE  /\ Advanced(v) \in VM /\ Advanced(v).ip = After(v.ip)
           /\ Advanced(v).return = v.return /\ Advanced(v).data = v.data
    BY OriginalKnown DEF Advanced, VM

(* An instruction that is not the one at the breakpoint, and does not       *)
(* throw, keeps the VM on its way to it: no other instruction but a call    *)
(* or a return leaves a word, and the loop is not on the way.               *)
LEMMA RunsReach ==
    ASSUME NEW b \in Addresses, NEW v \in VM, v.ip \in Addresses, v.ip # b, Reaches(b, v),
           NEW r \in Runs(Original[v.ip], Advanced(v)), r.thrown = "none"
    PROVE  Reaches(b, r.vm) /\ r.breaks = FALSE
    <1> DEFINE i == Original[v.ip]
               u == Advanced(v)
    <1>1. /\ u \in VM /\ u.ip = After(v.ip) /\ u.return = v.return
          /\ KnownAt(v.ip, i) /\ After(v.ip)[1] = v.ip[1]
        BY AdvancedTyped, OriginalKnown
    <1>2. \/ i.op = "call" /\ u.ip = b
          \/ InWord(v.ip) /\ InWord(u.ip) /\ ReturnsTo(b, u)
        BY <1>1 DEF Reaches, ReturnsTo, InWord
    <1>3. u.return.top \in Nat /\ MaxReturn \in Nat /\ r \in Runs(i, u)
        BY <1>1, DebuggerAssumption DEF VM, StacksOf
    <1>4. InWord(v.ip) /\ v.ip[1] # "loop"
        BY <1>1, <1>2, DebuggerAssumption DEF KnownAt, Interpret, Branch, InWord
    <1> HIDE DEF i, u
    <1>5. CASE \E w \in Words : i = Call(w)
        <2>1. PICK w \in Words : i = Call(w)
            BY <1>5
        <2>2. r = Fine(Enter(u, w)) /\ u.return.top < MaxReturn
            BY <1>3, <2>1 DEF Runs, Call
        <2>3. u.ip = b \/ (InWord(u.ip) /\ ReturnsTo(b, u))
            BY <1>2
        <2>4. Reaches(b, Enter(u, w))
            BY <1>1, <2>2, <2>3, CallReaches
        <2> QED
            BY <2>2, <2>4 DEF Fine
    <1>6. CASE i = Prim
        <2>1. r = Fine(u)
            BY <1>3, <1>6 DEF Runs, Prim, Throws
        <2>2. InWord(u.ip) /\ ReturnsTo(b, u)
            BY <1>2, <1>6 DEF Prim
        <2> QED
            BY <2>1, <2>2, ReachesByWay DEF Fine
    <1>7. CASE i = Exit
        <2>1. r = Fine(PopIP(u)) /\ u.return.top # 0
            BY <1>3, <1>7 DEF Runs, Exit
        <2>2. ReturnsTo(b, u)
            BY <1>2, <1>7 DEF Exit
        <2> QED
            BY <1>1, <2>1, <2>2, ExitReaches DEF Fine
    <1>8. ASSUME NEW n \in Nat, i.op # "call" PROVE Reaches(b, [u EXCEPT !.ip = <<v.ip[1], n>>])
        <2> DEFINE x == [u EXCEPT !.ip = <<v.ip[1], n>>]
        <2>1. x.ip = <<v.ip[1], n>> /\ x.return = u.return
            BY <1>1 DEF VM
        <2> HIDE DEF x
        <2>2. InWord(x.ip) /\ ReturnsTo(b, x)
            BY <2>1, <1>2, <1>8 DEF InWord, ReturnsTo
        <2> QED
            BY <2>2, ReachesByWay DEF x
    <1>9. CASE \E n \in Nat : i = Branch(<<v.ip[1], n>>)
        BY <1>3, <1>8, <1>9 DEF Runs, Branch, Fine
    <1>10. CASE \E n \in Nat : i = Branch0(<<v.ip[1], n>>)
        <2>1. PICK n \in Nat : i = Branch0(<<v.ip[1], n>>)
            BY <1>10
        <2>2. r = Fine(u) \/ r = Fine([u EXCEPT !.ip = <<v.ip[1], n>>])
            BY <1>3, <2>1 DEF Runs, Branch0, Throws
        <2>3. i.op # "call"
            BY <2>1 DEF Branch0
        <2> QED
            BY <1>2, <1>8, <2>2, <2>3, ReachesByWay DEF Fine
    <1> QED
        BY <1>1, <1>4, <1>5, <1>6, <1>7, <1>9, <1>10 DEF KnownAt, i

-----------------------------------------------------------------------------
(* Frames *)

\* Tops of a VM that are spilled and put back.
LEMMA TopsTyped ==
    ASSUME NEW v \in VM
    PROVE  /\ TopsOf(v) \in Tops
           /\ \A t \in Tops : WithTops(v, t) \in VM
           /\ WithTops(v, TopsOf(v)) = v
           /\ \A c \in BOOLEAN : NewFrame(c, v) \in FrameRecords
    <1>1. TopsOf(v) \in Tops
        BY DEF TopsOf, Tops, VM, StacksOf
    <1>2. \A t \in Tops : WithTops(v, t) \in VM
        BY DEF WithTops, Tops, VM, StacksOf
    <1>3. WithTops(v, TopsOf(v)) = v
        BY DEF WithTops, TopsOf, VM, StacksOf
    <1> QED
        BY <1>1, <1>2, <1>3 DEF NewFrame, FrameRecords

\* A VM that is reset is typed.
LEMMA ResetTyped ==
    ASSUME NEW v \in VM
    PROVE  Reset(v) \in VM
    <1> DEFINE t == [ip |-> None, return |-> 0, data |-> 0]
    <1>1. t \in Tops
        BY DebuggerAssumption DEF Tops, Places, None
    <1>2. WithTops(v, t) \in VM
        BY <1>1, TopsTyped
    <1> HIDE DEF t
    <1> QED
        BY <1>2 DEF Reset, VM, t

\* The frames that a THROW leaves are frames.
LEMMA FramesTyped ==
    ASSUME frames \in Seq(FrameRecords), frames # <<>>
    PROVE  /\ Frame \in FrameRecords
           /\ \A f \in FrameRecords : WithFrame(f) \in Seq(FrameRecords) /\ WithFrame(f) # <<>>
           /\ \A f \in FrameRecords :
                  Append(frames, f) \in Seq(FrameRecords) /\ Append(frames, f) # <<>>
           /\ Front(frames) \in Seq(FrameRecords)
           /\ Len(frames) # 1 => Front(frames) # <<>>
    <1>1. Len(frames) \in Nat \ {0}
        OBVIOUS
    <1>2. Frame \in FrameRecords
        BY <1>1 DEF Frame
    <1>3. ASSUME NEW f \in FrameRecords
          PROVE  WithFrame(f) \in Seq(FrameRecords) /\ WithFrame(f) # <<>>
        <2>1. WithFrame(f) \in Seq(FrameRecords) /\ Len(WithFrame(f)) = Len(frames)
            BY <1>1 DEF WithFrame
        <2> QED
            BY <1>1, <2>1
    <1>4. ASSUME NEW f \in FrameRecords
          PROVE  Append(frames, f) \in Seq(FrameRecords) /\ Append(frames, f) # <<>>
        OBVIOUS
    <1>5. Front(frames) = SubSeq(frames, 1, Len(frames) - 1)
        BY DEF Front
    <1>6. Front(frames) \in Seq(FrameRecords)
        BY <1>1, <1>5
    <1>7. Len(frames) # 1 => Len(Front(frames)) # 0
        <2> DEFINE n == Len(frames) - 1
        <2>1. n \in Int /\ 1 \in Int /\ \A i \in 1..n : frames[i] \in FrameRecords
            BY <1>1
        <2>2. ASSUME NEW l \in Nat \ {0}, l # 1 PROVE 1 <= l - 1
            BY <2>2
        <2> HIDE DEF n
        <2>3. Len(SubSeq(frames, 1, n)) = IF 1 <= n THEN n - 1 + 1 ELSE 0
            BY <2>1, SubSeqProperties
        <2>4. Len(frames) # 1 => 1 <= n
            BY <1>1, <2>2, Zenon DEF n
        <2>5. Len(frames) # 1 => Len(SubSeq(frames, 1, n)) # 0
            BY <2>1, <2>3, <2>4
        <2> QED
            BY <1>5, <2>5 DEF n
    <1>8. Len(frames) # 1 => Front(frames) # <<>>
        BY <1>7
    <1> QED
        BY <1>2, <1>3, <1>4, <1>6, <1>8

\* The one frame of a session.
LEMMA OneFrame ==
    ASSUME NEW f \in FrameRecords
    PROVE  <<f>> \in Seq(FrameRecords) /\ <<f>> # <<>>
    OBVIOUS

\* What a longjmp finds in the frame are tops.
LEMMA SpilledTyped ==
    ASSUME Typed, frames # <<>>, NEW t \in Spilled
    PROVE  t \in Tops
    <1>1. Frame.entry \in Tops /\ Frame.local \in Tops /\ TopsOf(vm) \in Tops
        BY FramesTyped, TopsTyped DEF Typed, FrameRecords
    <1> QED
        BY <1>1 DEF Spilled, Tops

-----------------------------------------------------------------------------
(* The invariant *)

(* Where an instruction is that is not step-break, it is the program's; where *)
(* step-break is, the record has the instruction and its address.             *)
LEMMA Fetched ==
    ASSUME IInv, vm.ip \in Addresses
    PROVE  /\ code[vm.ip] # StepBreak => code[vm.ip] = Original[vm.ip]
           /\ code # Original => Patched # {}
           /\ code # Original /\ code[vm.ip] # StepBreak => vm.ip # breakpoint.address
           /\ code[vm.ip] = StepBreak => breakpoint.address = vm.ip /\ Restored = Original
    <1>1. CASE code = Original
        BY <1>1, OriginalKnown
    <1>2. CASE code # Original
        <2> DEFINE b == breakpoint.address
        <2>1. b \in Addresses /\ breakpoint.oldXT = Original[b] /\ code = BrokenAt(b)
            BY <1>2 DEF IInv, CodeSound
        <2> HIDE DEF b
        <2>2. code[vm.ip] = IF vm.ip = b THEN StepBreak ELSE Original[vm.ip]
            BY <2>1, BrokenAtB
        <2>3. code[b] = StepBreak
            BY <2>1, BrokenAtB
        <2>4. Original[vm.ip] # StepBreak
            BY OriginalKnown
        <2>5. [BrokenAt(b) EXCEPT ![b] = Original[b]] = Original
            BY <2>1, BrokenAtB
        <2>6. Restored = Original
            BY <2>1, <2>5 DEF Restored, b
        <2> QED
            BY <1>2, <2>1, <2>2, <2>3, <2>4, <2>6 DEF Patched, b
    <1> QED
        BY <1>1, <1>2

(* Setting a breakpoint in whole code. *)
LEMMA SetBreakSound ==
    ASSUME code = Original, NEW a, SetBreakAt(a), at' = "loop", vm'.ip = a
    PROVE  CodeSound' /\ BreakpointAhead'
    <1>1. breakpoint' = [address |-> a, oldXT |-> Original[a]] /\ code' = BrokenAt(a)
        BY DEF SetBreakAt, BrokenAt
    <1>2. CASE a \in Addresses
        BY <1>1, <1>2 DEF CodeSound, BreakpointAhead, Reaches
    <1>3. CASE a \notin Addresses
        <2>1. code' = Original
            BY <1>1, <1>3 DEF BrokenAt, Original
        <2> QED
            BY <2>1 DEF CodeSound, BreakpointAhead
    <1> QED
        BY <1>2, <1>3

\* A copy of the code stays what it is while no word of it is replaced.
LEMMA WholeStays ==
    ASSUME code' = Original
    PROVE  CodeSound' /\ BreakpointAhead'
    BY DEF CodeSound, BreakpointAhead

\* Only the loop leaves the code with a breakpoint in it.
LEMMA WholeUnlessLoop ==
    ASSUME IInv, at # "loop"
    PROVE  code = Original
    BY DEF IInv, CodeSound

\* The invariant holds at the start.
LEMMA InitInvariant == Init => IInv
    <1> SUFFICES ASSUME Init PROVE IInv
        OBVIOUS
    <1>1. None \in Places
        BY DEF None, Places
    <1>2. EmptyStack(MaxReturn, None) \in StacksOf(MaxReturn, Places)
        BY <1>1, DebuggerAssumption DEF EmptyStack, StacksOf
    <1>3. EmptyStack(MaxData, "none") \in StacksOf(MaxData, Words \cup {"none"})
        BY DebuggerAssumption DEF EmptyStack, StacksOf
    <1>4. vm \in VM
        BY <1>1, <1>2, <1>3 DEF Init, VM
    <1>5. <<>> \in Seq(FrameRecords)
        OBVIOUS
    <1>6. frames = <<>> /\ at = "idle" /\ thrown = "none"
        BY DEF Init
    <1>7. Typed
        BY <1>4, <1>5, <1>6 DEF Typed
    <1> QED
        BY <1>7 DEF Init, IInv, CodeSound, BreakpointAhead

-----------------------------------------------------------------------------
(* The steps *)

\* The loop is a place that the IP may be at.
LEMMA LoopIsPlace == Loop \in Places
    BY DEF Loop, Places

(* An inner loop that starts where the code is whole. *)
LEMMA InterpretsText ==
    ASSUME IInv, Room(vm.return), vm' = PushIP(vm, Loop)
    PROVE  vm' \in VM /\ NewFrame(TRUE, vm') \in FrameRecords
    <1>1. vm \in VM /\ vm.return \in StacksOf(MaxReturn, Places) /\ MaxReturn \in Nat
        BY DebuggerAssumption DEF IInv, Typed, VM
    <1>2. vm.return.top < MaxReturn
        BY <1>1, RoomMeans
    <1>3. vm' \in VM
        BY <1>1, <1>2, LoopIsPlace, PushIPTyped
    <1> QED
        BY <1>3, TopsTyped

\* The words of the text interpreter keep the invariant.
LEMMA TextKeeps ==
    ASSUME IInv, Text
    PROVE  IInv'
    <1>1. at' = "loop" /\ vm' \in VM /\ frames' = <<NewFrame(TRUE, vm')>>
          /\ NewFrame(TRUE, vm') \in FrameRecords
        BY InterpretsText DEF Text
    <1>2. code' = Original
        BY WholeUnlessLoop DEF Text
    <1>3. frames' \in Seq(FrameRecords) /\ frames' # <<>>
        BY <1>1, OneFrame
    <1>4. thrown' = "none"
        BY DEF Text, IInv, Typed
    <1> QED
        BY <1>1, <1>2, <1>3, <1>4, WholeStays DEF IInv, Typed

\* A step-break that ran out of text is run again on the next text.
LEMMA TextForStepBreakKeeps ==
    ASSUME IInv, TextForStepBreak
    PROVE  IInv'
    <1>1. vm' \in VM
        BY DEF TextForStepBreak, IInv, Typed, VM
    <1>2. code' = Original
        BY WholeUnlessLoop DEF TextForStepBreak
    <1>3. NewFrame(FALSE, vm') \in FrameRecords
        BY <1>1, TopsTyped
    <1>4. frames' \in Seq(FrameRecords) /\ frames' # <<>>
        BY <1>3, OneFrame DEF TextForStepBreak
    <1>5. at' = "break" /\ thrown' = "none"
        BY DEF TextForStepBreak, IInv, Typed
    <1> QED
        BY <1>1, <1>2, <1>4, <1>5, WholeStays DEF IInv, Typed

\* A ' that ran out of text is run again on the next text.
LEMMA TextForTickKeeps ==
    ASSUME IInv, TextForTick
    PROVE  IInv'
    <1>1. PICK r \in TickRuns(vm) :
              /\ vm' = [r.vm EXCEPT !.restart = r.thrown # "none"]
              /\ thrown' = r.thrown
              /\ at' = IF r.thrown = "none" THEN "loop" ELSE "throw"
              /\ frames' = <<NewFrame(r.thrown = "none", vm')>>
        BY DEF TextForTick
    <1>2. r \in Outcomes
        BY TickTyped DEF IInv, Typed
    <1>3. vm' \in VM
        BY <1>1, <1>2 DEF Outcomes, VM
    <1>4. code' = Original
        BY WholeUnlessLoop DEF TextForTick, IInv, Typed
    <1>5. NewFrame(r.thrown = "none", vm') \in FrameRecords
        BY <1>3, TopsTyped
    <1>6. frames' \in Seq(FrameRecords) /\ frames' # <<>>
        BY <1>1, <1>5, OneFrame
    <1>7. thrown' \in {"none", "abort", "restart", "out"}
        BY <1>1, <1>2 DEF Outcomes
    <1>8. at' \in {"idle", "loop", "break", "throw"} /\ (at' = "throw" <=> thrown' # "none")
        BY <1>1
    <1> QED
        BY <1>3, <1>4, <1>6, <1>7, <1>8, WholeStays DEF IInv, Typed

(* The frames of a step that sets the variables of the innermost loop. *)
LEMMA LocalTyped ==
    ASSUME IInv, at = "loop", vm.ip \in Addresses,
           frames' = WithFrame([Frame EXCEPT !.local = TopsOf(Advanced(vm))])
    PROVE  frames' \in Seq(FrameRecords) /\ frames' # <<>>
    <1>1. frames \in Seq(FrameRecords) /\ frames # <<>> /\ vm \in VM
        BY DEF IInv, Typed
    <1>2. TopsOf(Advanced(vm)) \in Tops
        BY <1>1, AdvancedTyped, TopsTyped
    <1>3. [Frame EXCEPT !.local = TopsOf(Advanced(vm))] \in FrameRecords
        BY <1>1, <1>2, FramesTyped DEF FrameRecords
    <1> QED
        BY <1>1, <1>3, FramesTyped

\* A step of the debugger keeps the invariant.
LEMMA StepKeeps ==
    ASSUME Careful, IInv, Step
    PROVE  IInv'
    <1>1. PICK r \in Runs(code[vm.ip], Advanced(vm)) :
              /\ r.thrown # "none" => Patched = {}
              /\ vm' = r.vm
              /\ frames' = WithFrame([Frame EXCEPT !.local = TopsOf(Advanced(vm))])
              /\ thrown' = r.thrown
              /\ at' = IF r.thrown = "none" THEN "loop" ELSE "throw"
              /\ IF r.breaks THEN SetBreakAt(r.vm.ip) ELSE NoBreak
        BY DEF Step, Careful
    <1>2. /\ at = "loop" /\ vm.ip \in Addresses /\ vm \in VM /\ Advanced(vm) \in VM
          /\ code[vm.ip] # StepBreak /\ code[vm.ip] = Original[vm.ip]
        BY Fetched, AdvancedTyped DEF Step, IInv, Typed
    <1>3. r \in Outcomes /\ r \in Runs(Original[vm.ip], Advanced(vm))
        BY <1>1, <1>2, RunsTyped
    <1>4. Typed'
        <2>1. vm' \in VM /\ thrown' \in {"none", "abort", "restart", "out"}
            BY <1>1, <1>3 DEF Outcomes
        <2>2. frames' \in Seq(FrameRecords) /\ frames' # <<>>
            BY <1>1, <1>2, LocalTyped
        <2>3. at' \in {"idle", "loop", "break", "throw"} /\ (at' = "throw" <=> thrown' # "none")
            BY <1>1
        <2> QED
            BY <2>1, <2>2, <2>3 DEF Typed
    <1>5. CASE code = Original /\ r.breaks = FALSE
        <2>1. code' = Original
            BY <1>1, <1>5 DEF NoBreak
        <2> QED
            BY <1>4, <2>1, WholeStays DEF IInv
    <1>6. CASE code = Original /\ r.breaks = TRUE
        <2>1. r.thrown = "none"
            BY <1>3, <1>6 DEF Outcomes
        <2>2. SetBreakAt(r.vm.ip) /\ at' = "loop" /\ vm'.ip = r.vm.ip
            BY <1>1, <1>6, <2>1
        <2> QED
            BY <1>4, <1>6, <2>2, SetBreakSound DEF IInv
    <1>7. CASE code # Original
        <2> DEFINE b == breakpoint.address
        <2>1. r.thrown = "none"
            BY <1>1, <1>2, <1>7, Fetched
        <2>2. b \in Addresses /\ vm.ip # b /\ Reaches(b, vm)
            BY <1>2, <1>7, Fetched DEF IInv, CodeSound, BreakpointAhead
        <2> HIDE DEF b
        <2>3. Reaches(b, r.vm) /\ r.breaks = FALSE
            BY <1>2, <1>3, <2>1, <2>2, RunsReach
        <2>4. code' = code /\ breakpoint' = breakpoint
            BY <1>1, <2>3 DEF NoBreak
        <2>5. CodeSound'
            BY <1>1, <2>1, <2>4 DEF IInv, CodeSound
        <2>6. BreakpointAhead'
            BY <1>1, <2>3, <2>4 DEF BreakpointAhead, b
        <2> QED
            BY <1>4, <2>5, <2>6 DEF IInv
    <1> QED
        BY <1>3, <1>5, <1>6, <1>7 DEF Outcomes

(* step-break takes the breakpoint off before anything is done. *)
LEMMA BreakKeeps ==
    ASSUME IInv, Break
    PROVE  IInv'
    <1>1. /\ at = "loop" /\ vm.ip \in Addresses /\ vm \in VM
          /\ breakpoint.address = vm.ip /\ Restored = Original
        BY Fetched DEF Break, IInv, Typed
    <1>2. vm' = Broken(vm) /\ vm' \in VM
        BY <1>1 DEF Break, Broken, VM
    <1>3. code' = Original
        BY <1>1 DEF Break
    <1>4. frames' \in Seq(FrameRecords) /\ frames' # <<>>
        BY <1>1, LocalTyped DEF Break
    <1>5. /\ at' \in {"break", "throw"} /\ (at' = "throw" <=> thrown' # "none")
          /\ thrown' \in {"none", "abort"}
        BY DEF Break, IInv, Typed
    <1> QED
        BY <1>2, <1>3, <1>4, <1>5, WholeStays DEF IInv, Typed

(* Going on after a command. *)
LEMMA Resumes ==
    ASSUME IInv, at = "break", vm' \in VM, Resume
    PROVE  Typed' /\ at' = "loop"
    <1>1. frames \in Seq(FrameRecords) /\ frames # <<>>
        BY DEF IInv, Typed
    <1>2. NewFrame(TRUE, vm') \in FrameRecords
        BY TopsTyped
    <1>3. frames' \in Seq(FrameRecords) /\ frames' # <<>>
        BY <1>1, <1>2, FramesTyped DEF Resume
    <1>4. at' = "loop" /\ thrown' = "none"
        BY DEF Resume
    <1> QED
        BY <1>1, <1>3, <1>4 DEF Typed

\* A command that throws ends with the code as it was written.
LEMMA Fails ==
    ASSUME IInv, at = "break", vm' \in VM,
           NEW s \in {"abort", "restart", "out"}, Fail(s), code' = Original
    PROVE  IInv'
    <1>1. frames' \in Seq(FrameRecords) /\ frames' # <<>>
        BY DEF IInv, Typed, Fail
    <1>2. at' = "throw" /\ thrown' = s /\ s # "none"
        BY DEF Fail
    <1> QED
        BY <1>1, <1>2, WholeStays DEF IInv, Typed

\* The command i, and o where there is no call.
LEMMA StepInKeeps ==
    ASSUME Careful, IInv, StepInCommand
    PROVE  IInv'
    <1>1. /\ at = "break" /\ vm.ip \in Addresses /\ vm \in VM /\ Advanced(vm) \in VM
          /\ code = Original
        BY WholeUnlessLoop, AdvancedTyped DEF StepInCommand, AtCode, IInv, Typed
    <1>2. PICK r \in Runs(Original[vm.ip], Advanced(vm)) :
              /\ ~r.breaks
              /\ vm' = r.vm
              /\ IF r.thrown # "none" THEN Fail(r.thrown) /\ NoBreak
                 ELSE SetBreakAt(r.vm.ip) /\ Resume
        BY <1>1 DEF StepInCommand, StepIn, Careful
    <1>3. vm' \in VM /\ r.thrown \in {"none", "abort", "restart", "out"}
        BY <1>1, <1>2, RunsTyped DEF Outcomes
    <1>4. CASE r.thrown = "none"
        <2>1. Typed' /\ at' = "loop"
            BY <1>1, <1>2, <1>3, <1>4, Resumes
        <2>2. CodeSound' /\ BreakpointAhead'
            BY <1>1, <1>2, <1>4, <2>1, SetBreakSound
        <2> QED
            BY <2>1, <2>2 DEF IInv
    <1>5. CASE r.thrown # "none"
        <2>1. Fail(r.thrown) /\ code' = Original /\ r.thrown \in {"abort", "restart", "out"}
            BY <1>1, <1>2, <1>3, <1>5 DEF NoBreak
        <2> QED
            BY <1>1, <1>3, <2>1, Fails
    <1> QED
        BY <1>4, <1>5

\* The command o at a call: the breakpoint goes behind it.
LEMMA OverCallKeeps ==
    ASSUME IInv, OverCall
    PROVE  IInv'
    <1> DEFINE b == After(vm.ip)
    <1>1. /\ at = "break" /\ vm.ip \in Addresses /\ vm \in VM /\ b \in Addresses
          /\ code = Original /\ vm' = vm /\ SetBreakAt(b)
        BY WholeUnlessLoop DEF OverCall, AtCode, IInv, Typed
    <1>2. Typed' /\ at' = "loop"
        BY <1>1, Resumes DEF OverCall
    <1>3. Original[vm.ip].op = "call"
        BY <1>1 DEF OverCall
    <1>4. Reaches(b, vm')
        BY <1>1, <1>3 DEF Reaches
    <1> HIDE DEF b
    <1>5. breakpoint' = [address |-> b, oldXT |-> Original[b]] /\ code' = BrokenAt(b)
        BY <1>1 DEF SetBreakAt, BrokenAt
    <1>6. CodeSound' /\ BreakpointAhead'
        BY <1>1, <1>2, <1>4, <1>5 DEF CodeSound, BreakpointAhead
    <1> QED
        BY <1>2, <1>6 DEF IInv

\* The commands g and q, and those that ask for another text.
LEMMA GoQuitAskKeep ==
    ASSUME IInv, Go \/ Quit \/ Ask
    PROVE  IInv'
    <1>1. at = "break" /\ vm' = vm /\ vm' \in VM /\ code' = Original
        BY WholeUnlessLoop DEF Go, Quit, Ask, NoBreak, IInv, Typed
    <1>2. CASE Go
        <2>1. Typed'
            BY <1>1, <1>2, Resumes DEF Go
        <2> QED
            BY <1>1, <2>1, WholeStays DEF IInv
    <1>3. CASE Quit \/ Ask
        <2>1. \E s \in {"abort", "restart", "out"} : Fail(s)
            BY <1>3 DEF Quit, Ask
        <2> QED
            BY <1>1, <2>1, Fails
    <1> QED
        BY <1>2, <1>3

\* The command x interprets the rest of the line in a frame of its own.
LEMMA ExecuteKeeps ==
    ASSUME IInv, Execute
    PROVE  IInv'
    <1>1. vm' \in VM /\ NewFrame(TRUE, vm') \in FrameRecords
        BY InterpretsText DEF Execute
    <1>2. code' = Original /\ at' = "loop" /\ thrown' = "none"
        BY WholeUnlessLoop DEF Execute, NoBreak, IInv, Typed
    <1>3. frames' \in Seq(FrameRecords) /\ frames' # <<>>
        BY <1>1, FramesTyped DEF Execute, IInv, Typed
    <1> QED
        BY <1>1, <1>2, <1>3, WholeStays DEF IInv, Typed

(* A handler ends a throw with a VM. *)
LEMMA EndedTyped ==
    ASSUME NEW v \in VM, thrown \in {"abort", "restart", "out"}
    PROVE  Ended(v) \in VM
    <1>1. CASE thrown = "restart"
        BY <1>1 DEF Ended, VM
    <1>2. CASE thrown = "out"
        BY <1>2, PopIPTyped DEF Ended
    <1>3. CASE thrown = "abort"
        BY <1>3, ResetTyped DEF Ended
    <1> QED
        BY <1>1, <1>2, <1>3

\* A throw lands in the frame that catches it.
LEMMA CatchKeeps ==
    ASSUME IInv, Catch
    PROVE  IInv'
    <1>1. /\ vm \in VM /\ frames \in Seq(FrameRecords) /\ frames # <<>> /\ Typed
          /\ thrown \in {"abort", "restart", "out"} /\ at = "throw"
        BY DEF Catch, IInv, Typed
    <1>2. PICK t \in Spilled :
              vm' = IF Len(frames) > 1 /\ thrown # "abort"
                    THEN [Ended(WithTops(vm, t)) EXCEPT !.runningWord = "step-break"]
                    ELSE Ended(WithTops(vm, t))
        BY DEF Catch
    <1>3. WithTops(vm, t) \in VM
        BY <1>1, SpilledTyped, TopsTyped
    <1>4. Ended(WithTops(vm, t)) \in VM
        BY <1>1, <1>3, EndedTyped
    <1>5. vm' \in VM
        BY <1>2, <1>4 DEF VM
    <1>6. code' = Original
        BY WholeUnlessLoop DEF Catch, NoBreak
    <1>7. frames' \in Seq(FrameRecords) /\ (Len(frames) # 1 => frames' # <<>>)
        BY <1>1, FramesTyped DEF Catch
    <1>9. CASE Len(frames) = 1
        <2>1. at' = "idle" /\ thrown' = "none"
            BY <1>9 DEF Catch
        <2> QED
            BY <1>5, <1>6, <1>7, <2>1, WholeStays DEF IInv, Typed
    <1>10. CASE Len(frames) # 1
        <2>1. at' = "throw" /\ (thrown' = "abort" \/ thrown' = "restart")
            BY <1>10 DEF Catch
        <2> QED
            BY <1>5, <1>6, <1>7, <1>10, <2>1, WholeStays DEF IInv, Typed
    <1> QED
        BY <1>9, <1>10

-----------------------------------------------------------------------------
(* What holds *)

\* Every step keeps the invariant.
LEMMA StepsKeepInvariant ==
    ASSUME Careful, IInv, [Next]_vars
    PROVE  IInv'
    <1>1. CASE UNCHANGED vars
        BY <1>1 DEF vars, IInv, Typed, CodeSound, BreakpointAhead, Reaches, ReturnsTo
    <1>2. CASE Next
        BY <1>2, TextKeeps, TextForStepBreakKeeps, TextForTickKeeps, StepKeeps, BreakKeeps,
           CatchKeeps, StepInKeeps, OverCallKeeps, GoQuitAskKeep, ExecuteKeeps DEF Next
    <1> QED
        BY <1>1, <1>2

(* The types, the breakpoint and the way to it, for every program. *)
THEOREM Invariant == Careful => (Spec => []IInv)
    <1> SUFFICES ASSUME Careful PROVE Spec => []IInv
        OBVIOUS
    <1>1. Init => IInv
        BY InitInvariant
    <1>2. IInv /\ [Next]_vars => IInv'
        BY StepsKeepInvariant
    <1> QED
        BY <1>1, <1>2, PTL DEF Spec

\* The invariant has the text of every word in the code and the breakpoint.
LEMMA SoundIsRecoverable ==
    ASSUME IInv
    PROVE  CodeRecoverable
    <1>1. CASE code = Original
        BY <1>1 DEF CodeRecoverable
    <1>2. CASE code # Original
        <2> DEFINE b == breakpoint.address
        <2>1. b \in Addresses /\ breakpoint.oldXT = Original[b] /\ code = BrokenAt(b) /\ at = "loop"
            BY <1>2 DEF IInv, CodeSound
        <2> HIDE DEF b
        <2>2. \A a \in Addresses : code[a] = IF a = b THEN StepBreak ELSE Original[a]
            BY <2>1, BrokenAtB
        <2> QED
            BY <2>1, <2>2 DEF CodeRecoverable, b
    <1> QED
        BY <1>1, <1>2

(* The overwritten instruction can always be put back, and nobody is asked *)
(* for a command or a line while one is overwritten.                       *)
THEOREM Recoverable == Careful => (Spec => []CodeRecoverable)
    <1>1. IInv => CodeRecoverable
        BY SoundIsRecoverable
    <1> QED
        BY <1>1, Invariant, PTL

(* A VM that differs in restart and runningWord only is at the same place   *)
(* of the program.                                                          *)
LEMMA Marked ==
    ASSUME NEW v \in VM
    PROVE  /\ \A x : Plain([v EXCEPT !.restart = x]) = Plain(v)
           /\ \A x : Plain([v EXCEPT !.runningWord = x]) = Plain(v)
    BY DEF Plain, VM

(* A reset leaves nothing of the tops that were put back before it. *)
LEMMA ResetForgets ==
    ASSUME NEW v \in VM, NEW t \in Tops
    PROVE  Plain(Reset(WithTops(v, t))) = Plain(Reset(v))
    <1> DEFINE z == [ip |-> None, return |-> 0, data |-> 0]
    <1>1. z \in Tops
        BY DebuggerAssumption DEF Tops, Places, None
    <1>2. WithTops(v, t) \in VM
        BY TopsTyped
    <1>3. ASSUME NEW u \in VM
          PROVE  WithTops(u, z) = [ip |-> None, restart |-> u.restart, runningWord |-> u.runningWord,
                                   return |-> [top |-> 0, cell |-> u.return.cell],
                                   data |-> [top |-> 0, cell |-> u.data.cell]]
        <2>1. /\ [u.return EXCEPT !.top = 0] = [top |-> 0, cell |-> u.return.cell]
              /\ [u.data EXCEPT !.top = 0] = [top |-> 0, cell |-> u.data.cell]
            BY DEF VM, StacksOf
        <2>2. WithTops(u, z) = [u EXCEPT !.ip = None, !.return = [u.return EXCEPT !.top = 0],
                                         !.data = [u.data EXCEPT !.top = 0]]
            BY DEF WithTops, VM
        <2> QED
            BY <2>1, <2>2 DEF VM
    <1>4. /\ WithTops(v, t).restart = v.restart /\ WithTops(v, t).runningWord = v.runningWord
          /\ WithTops(v, t).return.cell = v.return.cell /\ WithTops(v, t).data.cell = v.data.cell
        BY DEF WithTops, VM, StacksOf
    <1> HIDE DEF z
    <1>6. WithTops(WithTops(v, t), z) = WithTops(v, z)
        BY <1>2, <1>3, <1>4
    <1> QED
        BY <1>6 DEF Reset, z

(* The tops that a handler puts back are among those its loop has had. *)
LEMMA SpilledHeld ==
    ASSUME NEW t \in Spilled
    PROVE  t \in [ip : {Frame.entry.ip, Frame.local.ip, vm.ip},
                  return : {Frame.entry.return, Frame.local.return, vm.return.top},
                  data : {Frame.entry.data, Frame.local.data, vm.data.top}]
    <1>1. CASE ~Frame.inLoop
        BY <1>1 DEF Spilled, TopsOf
    <1>2. CASE Frame.inLoop
        <2>1. PICK i, r, d \in {Frame.entry, Frame.local} :
                  t = [ip |-> i.ip, return |-> r.return, data |-> d.data]
            BY <1>2 DEF Spilled
        <2> QED
            BY <2>1
    <1> QED
        BY <1>1, <1>2

(* Other tops, a return and a mark leave the cells of the stacks alone. *)
LEMMA CellsStay ==
    ASSUME NEW v \in VM, NEW t \in Tops
    PROVE  LET u == WithTops(v, t) IN
           /\ u.return.top = t.return /\ u.return.cell = v.return.cell /\ u.data.cell = v.data.cell
           /\ u.return.top # 0 => /\ PopIP(u).return.cell = v.return.cell
                                  /\ PopIP(u).data.cell = v.data.cell
    <1> DEFINE u == WithTops(v, t)
    <1>1. u \in VM
        BY TopsTyped
    <1>2. u.return.top = t.return /\ u.return.cell = v.return.cell /\ u.data.cell = v.data.cell
        BY DEF WithTops, VM, StacksOf
    <1> HIDE DEF u
    <1>3. PopIP(u).return = Pop(u.return) /\ PopIP(u).data = u.data
        BY <1>1 DEF PopIP, VM
    <1>4. Pop(u.return).cell = u.return.cell
        BY <1>1 DEF Pop, VM, StacksOf
    <1> QED
        BY <1>2, <1>3, <1>4 DEF u

(* A throw resets the program, or ends a loop with tops that it has had.    *)
LEMMA CatchFollows ==
    ASSUME IInv, Catch
    PROVE  PlainStep \/ HandlerStep
    <1>1. /\ vm \in VM /\ frames # <<>> /\ Typed /\ at = "throw"
          /\ thrown \in {"abort", "restart", "out"}
        BY DEF Catch, IInv, Typed
    <1>2. PICK t \in Spilled :
              vm' = IF Len(frames) > 1 /\ thrown # "abort"
                    THEN [Ended(WithTops(vm, t)) EXCEPT !.runningWord = "step-break"]
                    ELSE Ended(WithTops(vm, t))
        BY DEF Catch
    <1> DEFINE u == WithTops(vm, t)
    <1>3. t \in Tops
        BY <1>1, SpilledTyped
    <1>4. u \in VM /\ Ended(u) \in VM
        BY <1>1, <1>3, TopsTyped, EndedTyped
    <1>5. /\ Plain(vm') = Plain(Ended(u))
          /\ vm'.return = Ended(u).return /\ vm'.data = Ended(u).data
        BY <1>2, <1>4, Marked DEF VM
    <1>6. CASE thrown = "abort"
        <2>1. Plain(vm') = Plain(Reset(vm))
            BY <1>1, <1>3, <1>5, <1>6, ResetForgets DEF Ended
        <2> QED
            BY <1>6, <2>1 DEF PlainStep
    <1>7. CASE thrown # "abort"
        <2>1. /\ u.return.top = t.return /\ u.return.cell = vm.return.cell
              /\ u.data.cell = vm.data.cell
              /\ u.return.top # 0 => /\ PopIP(u).return.cell = vm.return.cell
                                     /\ PopIP(u).data.cell = vm.data.cell
            BY <1>1, <1>3, CellsStay
        <2>2. t.return \in Nat
            BY <1>3, DebuggerAssumption DEF Tops
        <2> DEFINE e == IF thrown = "out" /\ t.return > 0 THEN PopIP(u) ELSE u
        <2>3. CASE thrown = "restart"
            <3>1. Ended(u) = [u EXCEPT !.restart = TRUE]
                BY <2>3 DEF Ended
            <3>2. Plain(Ended(u)) = Plain(u) /\ Ended(u).return = u.return /\ Ended(u).data = u.data
                BY <1>4, <3>1, Marked DEF VM
            <3>3. Plain(vm') = Plain(e) /\ vm'.return.cell = vm.return.cell /\ vm'.data.cell = vm.data.cell
                BY <1>5, <2>1, <2>3, <3>2
            <3> QED
                BY <1>1, <2>3, <3>3, SpilledHeld DEF HandlerStep
        <2>4. CASE thrown = "out"
            <3>1. Ended(u) = e
                BY <2>1, <2>2, <2>4 DEF Ended
            <3>2. Plain(vm') = Plain(e) /\ vm'.return.cell = vm.return.cell /\ vm'.data.cell = vm.data.cell
                BY <1>5, <2>1, <2>2, <2>4, <3>1
            <3> QED
                BY <1>1, <2>4, <3>2, SpilledHeld DEF HandlerStep
        <2> QED
            BY <1>1, <1>7, <2>3, <2>4
    <1> QED
        BY <1>6, <1>7

(* Each step is one of the program or of a new text, leaves ip and the      *)
(* stacks alone, or is a throw that ends its loop or resets the program.    *)
LEMMA StepsFollow ==
    ASSUME IInv, [Next]_vars
    PROVE  PlainStep \/ HandlerStep
    <1>1. vm \in VM
        BY DEF IInv, Typed
    <1>2. CASE vm' = vm
        BY <1>2 DEF PlainStep
    <1>3. CASE Text \/ Execute
        BY <1>3 DEF Text, Execute, PlainStep
    <1>4. CASE TextForStepBreak
        BY <1>1, <1>4, Marked DEF TextForStepBreak, PlainStep
    <1>5. CASE TextForTick
        <2>1. PICK r \in TickRuns(vm) : vm' = [r.vm EXCEPT !.restart = r.thrown # "none"]
            BY <1>5 DEF TextForTick
        <2>2. r.vm \in VM
            BY <1>1, TickTyped DEF Outcomes
        <2>3. Plain(vm') = Plain(r.vm) /\ at = "idle"
            BY <1>5, <2>1, <2>2, Marked DEF TextForTick
        <2> QED
            BY <2>3 DEF PlainStep
    <1>6. CASE Step \/ StepInCommand
        <2>1. vm.ip \in Addresses /\ at \in {"loop", "break"} /\ code[vm.ip] = Original[vm.ip]
            BY <1>6, Fetched DEF Step, StepInCommand, AtCode
        <2>2. \E r \in Runs(Original[vm.ip], Advanced(vm)) : vm' = r.vm
            BY <1>6, <2>1 DEF Step, StepInCommand, StepIn
        <2> QED
            BY <2>1, <2>2 DEF PlainStep
    <1>7. CASE Break
        <2>1. breakpoint.address = vm.ip
            BY <1>7, Fetched DEF Break
        <2>2. Plain(vm') = Plain(vm)
            BY <1>1, <1>7, <2>1 DEF Break, Broken, Plain, VM
        <2> QED
            BY <2>2 DEF PlainStep
    <1>8. CASE Catch
        BY <1>8, CatchFollows
    <1>9. OverCall \/ Go \/ Quit \/ Ask \/ UNCHANGED vars => vm' = vm
        BY DEF OverCall, Go, Quit, Ask, vars
    <1> QED
        BY <1>2, <1>3, <1>4, <1>5, <1>6, <1>7, <1>8, <1>9 DEF Next

(* In every session, on whatever lines its commands are, breakpoints, steps *)
(* and commands leave the program to run its own instructions, each once    *)
(* and in its own order; only a throw that ends an inner loop moves it, and *)
(* then to an ip and stack tops that the loop has had.                      *)
THEOREM DebuggerFollowsProgram == Careful => (Spec => FollowsProgram)
    <1> SUFFICES ASSUME Careful PROVE Spec => FollowsProgram
        OBVIOUS
    <1>1. IInv /\ [Next]_vars => [PlainStep \/ HandlerStep]_vars
        BY StepsFollow
    <1> QED
        BY <1>1, Invariant, PTL DEF Spec, FollowsProgram
=============================================================================

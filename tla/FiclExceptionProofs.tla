------------------------ MODULE FiclExceptionProofs ------------------------
(***************************************************************************)
(* The invariants of FiclException for every set of definitions, every     *)
(* bound on the stacks and on the C frames, in a build whose inner loop    *)
(* keeps its variables in memory, and the proof that it implements         *)
(* ExceptionSpec: every step keeps the invariant and is a step, or none,   *)
(* of the promise.                                                         *)
(***************************************************************************)
EXTENDS ExceptionRefinement, SetInduction, SequenceTheorems

(* The program and the host keep the rules, and no register is lost in a   *)
(* longjmp.                                                                *)
ASSUME Careful == Obligations = AllObligations /\ ~Optimised

-----------------------------------------------------------------------------
(* The inductive invariant *)

(* The IP and the tops that frame i goes on with: the VM's, or what its     *)
(* loop has written before the primitive it called.                        *)
Now(i) == IF i = Depth /\ (thrown = None \/ frames[i].rerun)
          THEN TopsOf(vm) ELSE frames[i].local

(* The return stack and the IP as frame i has found them. *)
Base(i)   == IF i = 1 THEN 0 ELSE frames[i - 1].local.return
Caller(i) == IF i = 1 THEN None ELSE frames[i - 1].local.ip

Bottom(fn) == IF fn = "string" THEN Loop ELSE Pill

(* The addresses a frame still has to run, the IP last. *)
Address(c, t, k) == IF k <= t.return THEN c[k] ELSE t.ip

(* Above the caller's IP a frame has pushed the place where it ends, and    *)
(* above that only its definitions have pushed.                            *)
Path(c, fn, base, t) ==
    /\ base < t.return
    /\ Address(c, t, base + 2) = Bottom(fn)
    /\ \A k \in base + 3 .. t.return + 1 : Address(c, t, k) \in Definitions

(* Each frame has its own segment of the return stack. *)
SegmentAt(i) == /\ Path(cells, frames[i].fn, Base(i), Now(i))
                /\ cells[Base(i) + 1] = Caller(i)

Segments == /\ \A i \in 1..Depth : SegmentAt(i)
            /\ \A i, j \in 1..Depth : i < j => Now(i).return < Now(j).return

Chain == vm.handler = Depth /\ \A i \in 1..Depth : frames[i].copy.handler = i - 1

(* A frame that puts text or SOURCE-ID back has saved those below it. *)
TextAt(i) ==
    /\ frames[i].fn # "xt" => InnermostText(frames[i].copy.tib, i - 1)
    /\ frames[i].fn = "catch" \/ frames[i].evaluated =>
            frames[i].copy.sourceId = SourceId(frames[i].copy.tib)
    /\ i > 1 /\ frames[i].fn = "string" => frames[i].evaluated
    /\ frames[i].evaluated => frames[i].fn = "string"

Texts == TextOfInnermost /\ \A i \in 1..Depth : TextAt(i)

(* What CATCH puts back is what it has found. *)
CopyAt(i) ==
    frames[i].fn = "catch" =>
        /\ i > 1
        /\ frames[i].copy.state = "interpret" /\ ~frames[i].copy.restart
        /\ frames[i].copy.ip = Caller(i)
        /\ frames[i].copy.return = Base(i)
        /\ frames[i].copy.data < DataSize

Copies == \A i \in 1..Depth : CopyAt(i)

Reruns == \A i \in 1..Depth : frames[i].rerun => Depth = 1 /\ frames[1].fn = "string"

(* Which frame a code can be thrown in. *)
Thrown ==
    /\ thrown # None => frames # << >>
    /\ thrown = "restart"     => Depth = 1 /\ Top.fn = "string" /\ vm.runningWord \in Parsing
    /\ thrown = "restart" /\ ~Top.rerun => Top.local = TopsOf(vm)
    /\ thrown = "user_exit"   => ~Top.rerun
    /\ thrown = "out_of_text" => ~Top.rerun /\ Top.local.ip = Loop
    /\ thrown = "inner_exit"  => ~Top.rerun /\ Top.local.ip = Pill /\ Top.local.data < DataSize

(* What the host finds. *)
HostReady ==
    /\ vm.restart => vm.runningWord \in Parsing
    /\ frames = << >> /\ vm.restart => Path(cells, "string", 0, TopsOf(vm)) /\ cells[1] = None
    /\ frames = << >> /\ vm.restart => ~LeftByBye /\ ~LeftByXT
    /\ Idle /\ MayCall /\ ~vm.restart => vm.ip = None /\ vm.return = 0

IInv == /\ TypeOK /\ Chain /\ Texts /\ Copies /\ Segments
        /\ Reruns /\ RestartAtHost /\ Thrown /\ HostReady /\ CompilingIsOpen

-----------------------------------------------------------------------------
(* Paths *)

\* The ends of a path are told apart from the definitions.
LEMMA IpsTypes ==
    /\ Loop \notin Definitions /\ Pill \notin Definitions /\ None \notin Definitions
    /\ Loop # Pill /\ Loop # None /\ Pill # None
BY DefinitionsAssumption DEF Loop, Pill, None

Memory == [0..ReturnSize -> Ips]

(* A path depends on the cells below its top, and not on the data. *)
LEMMA PathSame ==
    ASSUME NEW c \in Memory, NEW d \in Memory, NEW fn, NEW base \in Nat,
           NEW t \in Tops, NEW u \in Tops,
           t.ip = u.ip, t.return = u.return,
           \A k \in 1..t.return : c[k] = d[k],
           Path(c, fn, base, t)
    PROVE  Path(d, fn, base, u)
BY DEF Path, Address, Tops

(* A call extends the path, an exit shortens it. *)
LEMMA PathCall ==
    ASSUME NEW c \in Memory, NEW fn, NEW base \in Nat, NEW t \in Tops, NEW u \in Tops,
           NEW d \in Memory,
           Path(c, fn, base, t), t.return < ReturnSize,
           u.ip \in Definitions, u.return = t.return + 1,
           d = [c EXCEPT ![t.return + 1] = t.ip]
    PROVE  Path(d, fn, base, u)
<1> USE BoundsAssumption DEF Memory
<1>1. t.return \in Nat /\ u.return \in Nat
  BY DEF Tops
<1>2. \A k \in 1..t.return + 1 : d[k] = Address(c, t, k)
  BY <1>1 DEF Address
<1>3. \A k \in 1..t.return + 1 : Address(d, u, k) = Address(c, t, k)
  BY <1>1, <1>2 DEF Address
<1>4. Address(d, u, u.return + 1) \in Definitions
  BY <1>1 DEF Address
<1>5. base + 2 \in 1..t.return + 1 /\ base < u.return
  BY <1>1 DEF Path
<1>6. \A k \in base + 3 .. u.return + 1 : Address(d, u, k) \in Definitions
  <2>0. u.return + 1 = t.return + 2
    BY <1>1
  <2> SUFFICES ASSUME NEW k \in base + 3 .. t.return + 2 PROVE Address(d, u, k) \in Definitions
    BY <2>0
  <2>1. CASE k = t.return + 2
    BY <2>1, <1>1, <1>4
  <2>2. CASE k # t.return + 2
    <3>0. ASSUME NEW r \in Nat, k \in base + 3 .. r + 2, k # r + 2
          PROVE  k \in base + 3 .. r + 1 /\ k \in 1..r + 1
      BY <3>0
    <3>1. k \in base + 3 .. t.return + 1 /\ k \in 1..t.return + 1
      BY <2>2, <1>1, <3>0
    <3>2. Address(c, t, k) \in Definitions
      BY <3>1 DEF Path
    <3> QED
      BY <3>1, <3>2, <1>3
  <2> QED
    BY <2>1, <2>2
<1> QED
  BY <1>3, <1>5, <1>6 DEF Path

\* EXIT of a definition leaves a path with one address less.
LEMMA PathExit ==
    ASSUME NEW c \in Memory, NEW fn, NEW base \in Nat, NEW t \in Tops, NEW u \in Tops,
           Path(c, fn, base, t), t.ip \in Definitions,
           u.ip = c[t.return], u.return = t.return - 1
    PROVE  Path(c, fn, base, u)
<1>1. t.return \in Nat /\ u.return \in Nat
  BY DEF Tops
<1>2. t.return # base + 1
  BY <1>1, IpsTypes DEF Path, Address, Bottom
<1>3. \A k \in 1..t.return : Address(c, u, k) = Address(c, t, k)
  BY <1>1 DEF Address
<1> QED
  BY <1>1, <1>2, <1>3 DEF Path

(* At its end a frame has only its caller's IP on the return stack. *)
LEMMA PathEnd ==
    ASSUME NEW c, NEW fn, NEW base \in Nat, NEW t \in Tops,
           Path(c, fn, base, t), t.ip \in {Loop, Pill}
    PROVE  t.return = base + 1 /\ t.ip = Bottom(fn)
<1>1. t.return \in Nat
  BY DEF Tops
<1>2. t.return = base + 1
  <2> SUFFICES ASSUME t.return # base + 1 PROVE FALSE
    OBVIOUS
  <2>1. t.return + 1 \in base + 3 .. t.return + 1
    BY <1>1 DEF Path
  <2> QED
    BY <1>1, <2>1, IpsTypes DEF Path, Address
<1> QED
  BY <1>1, <1>2 DEF Path, Address

\* Execution stands in a definition or at the bottom of the path.
LEMMA PathIp ==
    ASSUME NEW c, NEW fn, NEW base \in Nat, NEW t \in Tops, Path(c, fn, base, t)
    PROVE  t.ip \in Definitions \cup {Bottom(fn)}
<1>1. t.return \in Nat
  BY DEF Tops
<1>2. CASE t.return = base + 1
  BY <1>1, <1>2 DEF Path, Address
<1>3. CASE t.return # base + 1
  <2>1. t.return + 1 \in base + 3 .. t.return + 1
    BY <1>1, <1>3 DEF Path
  <2> QED
    BY <1>1, <2>1 DEF Path, Address
<1> QED
  BY <1>2, <1>3

(* A frame starts with one address, or with two when it starts in a word. *)
LEMMA PathOne ==
    ASSUME NEW c \in Memory, NEW base \in Nat, NEW t \in Tops,
           t.return = base + 1, t.ip = Loop
    PROVE  Path(c, "string", base, t)
BY DEF Path, Address, Bottom, Tops

\* A word just started by the host or by CATCH: its path is the pill and the word.
LEMMA PathTwo ==
    ASSUME NEW c \in Memory, NEW fn \in {"xt", "catch"}, NEW base \in Nat, NEW t \in Tops,
           t.return = base + 2, c[base + 2] = Pill, t.ip \in Definitions
    PROVE  Path(c, fn, base, t)
BY DEF Path, Address, Bottom, Tops

-----------------------------------------------------------------------------
(* Frames *)

(* From the frames below n a step has taken nothing. *)
Same(n) == \A i \in 1..n : /\ frames'[i].fn = frames[i].fn
                           /\ frames'[i].copy = frames[i].copy
                           /\ frames'[i].evaluated = frames[i].evaluated
                           /\ frames'[i].rerun = frames[i].rerun
                           /\ i < n => frames'[i].local = frames[i].local

\* What the type invariant says of the frames and the VM.
LEMMA FrameTypes ==
    ASSUME TypeOK
    PROVE  /\ Depth \in Nat /\ Depth <= MaxFrames
           /\ \A i \in 1..Depth : frames[i] \in Frames
           /\ frames = << >> <=> Depth = 0
           /\ TopsOf(vm) \in Tops
           /\ vm \in Vms /\ cells \in Memory
BY DEF TypeOK, Depth, TopsOf, Tops, Vms, Memory

\* What a function saves of the VM before it replaces parts of it.
LEMMA SavedTypes ==
    ASSUME NEW v \in Vms, NEW fn \in {"string", "xt", "catch"}
    PROVE  /\ Saved(fn, v) \in Vms
           /\ Saved(fn, v).handler = v.handler
           /\ fn = "catch" => Saved(fn, v) = v
           /\ fn = "string" => Saved(fn, v).tib = v.tib /\ Saved(fn, v).sourceId = v.sourceId
<1>1. FreshVm \in Vms
  BY BoundsAssumption DEF FreshVm, Vms, Ips, Primitives
<1>2. CASE fn = "catch"
  BY <1>2 DEF Saved
<1>3. CASE fn = "string"
  <2>1. Saved(fn, v) = [FreshVm EXCEPT !.handler = v.handler, !.tib = v.tib, !.sourceId = v.sourceId]
    BY <1>3 DEF Saved
  <2> QED
    BY <1>1, <1>3, <2>1 DEF Vms
<1>4. CASE fn = "xt"
  <2>1. Saved(fn, v) = [FreshVm EXCEPT !.handler = v.handler, !.runningWord = v.runningWord]
    BY <1>4 DEF Saved
  <2> QED
    BY <1>1, <1>4, <2>1 DEF Vms
<1> QED
  BY <1>2, <1>3, <1>4

\* A frame that spills its tops changes in nothing else.
LEMMA LocalOnly ==
    ASSUME NEW f \in Frames, NEW t \in Tops
    PROVE  LET g == [f EXCEPT !.local = t] IN
           /\ g \in Frames /\ g.local = t
           /\ g.fn = f.fn /\ g.copy = f.copy /\ g.evaluated = f.evaluated /\ g.rerun = f.rerun
BY DEF Frames

\* Tops that hold nothing yet are tops.
LEMMA NoTopsTypes == NoTops \in Tops
BY BoundsAssumption DEF NoTops, Tops, Ips

\* A frame that spills its tops leaves all frames the same but for the tops.
LEMMA SameLocal ==
    ASSUME NEW n \in Nat, \A i \in 1..n : frames[i] \in Frames, NEW t \in Tops,
           \A i \in 1..n : frames'[i] = IF i = n THEN [frames[i] EXCEPT !.local = t] ELSE frames[i]
    PROVE  Same(n) /\ (n # 0 => frames'[n].local = t)
<1>1. ASSUME NEW i \in 1..n, i # n
      PROVE  frames'[i] = frames[i]
  BY <1>1
<1>2. ASSUME n # 0
      PROVE  /\ frames'[n].local = t
             /\ frames'[n].fn = frames[n].fn /\ frames'[n].copy = frames[n].copy
             /\ frames'[n].evaluated = frames[n].evaluated
             /\ frames'[n].rerun = frames[n].rerun
  <2>1. n \in 1..n
    BY <1>2
  <2>2. frames'[n] = [frames[n] EXCEPT !.local = t] /\ frames[n] \in Frames
    BY <2>1
  <2> QED
    BY <2>2, LocalOnly
<1> QED
  BY <1>1, <1>2 DEF Same

(* The loop of the top frame calls a primitive. *)
LEMMA CallingFrames ==
    ASSUME TypeOK, frames # << >>
    PROVE  /\ Calling \in Seq(Frames) /\ Len(Calling) = Depth
           /\ \A i \in 1..Depth : Calling[i] = IF i = Depth THEN [frames[i] EXCEPT !.local = TopsOf(vm)]
                                                           ELSE frames[i]
<1>1. /\ frames \in Seq(Frames) /\ Depth \in 1..Len(frames)
      /\ frames[Depth] \in Frames /\ TopsOf(vm) \in Tops
  BY FrameTypes DEF TypeOK, Depth
<1>2. [frames[Depth] EXCEPT !.local = TopsOf(vm)] \in Frames
  BY <1>1 DEF Frames
<1>3. Calling = [frames EXCEPT ![Depth] = [frames[Depth] EXCEPT !.local = TopsOf(vm)]]
  BY <1>1, LenProperties DEF Calling
<1> QED
  BY <1>1, <1>2, <1>3, ExceptSeq, LenProperties DEF Depth

\* A primitive called from the loop has the tops of the VM in its frame.
LEMMA CallingSame ==
    ASSUME TypeOK, frames # << >>, frames' = Calling
    PROVE  /\ frames' \in Seq(Frames) /\ Depth' = Depth /\ Same(Depth)
           /\ frames'[Depth].local = TopsOf(vm)
<1>1. /\ Depth \in Nat /\ Depth # 0 /\ \A i \in 1..Depth : frames[i] \in Frames
      /\ TopsOf(vm) \in Tops
  BY FrameTypes
<1>2. \A i \in 1..Depth : frames'[i] = IF i = Depth THEN [frames[i] EXCEPT !.local = TopsOf(vm)]
                                                    ELSE frames[i]
  BY CallingFrames
<1>3. Same(Depth) /\ frames'[Depth].local = TopsOf(vm)
  BY <1>1, <1>2, SameLocal
<1> QED
  BY <1>3, CallingFrames DEF Depth

\* A new handler is put above frames that stay the same.
LEMMA EnteredFrames ==
    ASSUME TypeOK, frames # << >>, NEW new \in Frames, frames' = Append(Calling, new)
    PROVE  /\ frames' \in Seq(Frames) /\ Depth' = Depth + 1 /\ Same(Depth)
           /\ frames'[Depth].local = TopsOf(vm)
           /\ frames'[Depth + 1] = new
<1>1. /\ Depth \in Nat /\ Depth # 0 /\ \A i \in 1..Depth : frames[i] \in Frames
      /\ TopsOf(vm) \in Tops
  BY FrameTypes
<1>2. /\ frames' \in Seq(Frames) /\ Len(frames') = Depth + 1
      /\ \A i \in 1..Depth : frames'[i] = Calling[i]
      /\ frames'[Depth + 1] = new
  BY <1>1, CallingFrames, AppendProperties
<1>3. \A i \in 1..Depth : frames'[i] = IF i = Depth THEN [frames[i] EXCEPT !.local = TopsOf(vm)]
                                                    ELSE frames[i]
  BY <1>2, CallingFrames
<1>4. Same(Depth) /\ frames'[Depth].local = TopsOf(vm)
  BY <1>1, <1>3, SameLocal
<1> QED
  BY <1>2, <1>4 DEF Depth

(* A handler gives way to the frame below. *)
LEMMA BelowFrames ==
    ASSUME TypeOK, frames # << >>, vm.handler = Depth
    PROVE  /\ Below \in Seq(Frames) /\ Len(Below) = Depth - 1
           /\ \A i \in 1..Depth - 1 : Below[i] = frames[i]
           /\ Below = << >> <=> Depth = 1
<1>1. Depth \in Nat /\ Depth # 0 /\ \A i \in 1..Depth - 1 : frames[i] \in Frames
  BY FrameTypes
<1>2. Below = SubSeq(frames, 1, Depth - 1)
  BY DEF Below
<1>3. /\ Below \in Seq(Frames)
      /\ Len(Below) = IF 1 <= Depth - 1 THEN Depth - 1 - 1 + 1 ELSE 0
      /\ \A i \in 1 .. Depth - 1 - 1 + 1 : Below[i] = frames[1 + i - 1]
  BY <1>1, <1>2, SubSeqProperties
<1>4. Len(Below) = Depth - 1 /\ 1 .. Depth - 1 - 1 + 1 = 1..Depth - 1
  BY <1>1, <1>3
<1>5. \A i \in 1..Depth - 1 : 1 + i - 1 = i
  OBVIOUS
<1>6. Below = << >> <=> Depth = 1
  BY <1>1, <1>3, <1>4, EmptySeq
<1> QED
  BY <1>3, <1>4, <1>5, <1>6

\* A handler that gives way leaves the frames below it the same.
LEMMA LandedFrames ==
    ASSUME TypeOK, frames # << >>, vm.handler = Depth,
           \/ frames' = Below
           \/ Depth > 1 /\ frames' = [Below EXCEPT ![Depth - 1].local = NoTops]
    PROVE  /\ frames' \in Seq(Frames) /\ Depth' = Depth - 1 /\ Same(Depth - 1)
           /\ frames' = Below /\ Depth > 1 => frames'[Depth - 1].local = frames[Depth - 1].local
           /\ Below = << >> <=> Depth = 1
<1>1. Depth \in Nat /\ Depth # 0 /\ \A i \in 1..Depth : frames[i] \in Frames
  BY FrameTypes
<1>2. /\ Below \in Seq(Frames) /\ Len(Below) = Depth - 1
      /\ \A i \in 1..Depth - 1 : Below[i] = frames[i]
  BY BelowFrames
<1>3. CASE frames' = Below
  BY <1>1, <1>2, <1>3 DEF Same, Depth
<1>4. CASE Depth > 1 /\ frames' = [Below EXCEPT ![Depth - 1].local = NoTops]
  <2>1. NoTops \in Tops
    BY NoTopsTypes
  <2>2. [Below[Depth - 1] EXCEPT !.local = NoTops] \in Frames
    BY <1>1, <1>2, <1>4, <2>1, LocalOnly
  <2>3. frames' = [Below EXCEPT ![Depth - 1] = [Below[Depth - 1] EXCEPT !.local = NoTops]]
    BY <1>1, <1>2, <1>4, LenProperties
  <2>4. /\ frames' \in Seq(Frames) /\ Len(frames') = Depth - 1
        /\ \A i \in 1..Depth - 1 : frames'[i] = IF i = Depth - 1 THEN [Below[i] EXCEPT !.local = NoTops]
                                                               ELSE Below[i]
    BY <1>1, <1>2, <1>4, <2>2, <2>3, ExceptSeq
  <2> QED
    <3>1. Depth - 1 \in Nat /\ \A i \in 1..Depth - 1 : frames[i] \in Frames
      BY <1>1
    <3>2. \A i \in 1..Depth - 1 : frames'[i] = IF i = Depth - 1 THEN [frames[i] EXCEPT !.local = NoTops]
                                                            ELSE frames[i]
      BY <1>2, <2>4
    <3>3. Same(Depth - 1)
      BY <3>1, <3>2, <2>1, SameLocal
    <3>4. Depth' = Depth - 1
      BY <2>4 DEF Depth
    <3>5. frames' # Below \/ frames'[Depth - 1].local = frames[Depth - 1].local
      <4>1. Below[Depth - 1] = frames[Depth - 1]
        BY <1>1, <1>2, <1>4
      <4> QED
        BY <4>1
    <3>6. Below = << >> <=> Depth = 1
      BY <1>1, <1>2, <1>4, EmptySeq
    <3> QED
      BY <2>4, <3>3, <3>4, <3>5, <3>6
<1> QED
  BY <1>3, <1>4

-----------------------------------------------------------------------------
(* What a step keeps of the frames it has taken nothing from *)

\* The tops and the segment of every frame lie on the stacks.
LEMMA NowTypes ==
    ASSUME TypeOK, NEW i \in 1..Depth
    PROVE  Now(i) \in Tops /\ Base(i) \in 0..ReturnSize
<1>1. frames[i] \in Frames /\ (i # 1 => frames[i - 1] \in Frames)
  BY FrameTypes
<1> QED
  <2>1. Now(i) \in Tops
    BY <1>1, FrameTypes DEF Now, Frames
  <2>2. i # 1 => frames[i - 1].local.return \in 0..ReturnSize
    BY <1>1 DEF Frames, Tops
  <2>3. Base(i) \in 0..ReturnSize
    BY <2>2, BoundsAssumption DEF Base
  <2> QED
    BY <2>1, <2>3

\* The tops after a step lie on the stacks.
LEMMA NextNowTypes ==
    ASSUME TypeOK', NEW i \in 1..Depth'
    PROVE  Now(i)' \in Tops
<1>1. TopsOf(vm)' \in Tops
  BY DEF TypeOK, TopsOf, Tops, Vms
<1>2. frames'[i] \in Frames
  BY DEF TypeOK, Depth
<1>3. frames'[i].local \in Tops
  BY <1>2 DEF Frames
<1> QED
  BY <1>1, <1>3 DEF Now

\* A frame that stays keeps the bottom of its segment.
LEMMA KeptBase ==
    ASSUME NEW n \in Nat, Same(n), NEW i \in 1..n
    PROVE  Base(i)' = Base(i) /\ Caller(i)' = Caller(i)
<1>1. i # 1 => i - 1 \in 1..n /\ i - 1 < n
  OBVIOUS
<1> QED
  BY <1>1 DEF Same, Base, Caller

\* Frames that stay read the same texts.
LEMMA KeptText ==
    ASSUME NEW n \in Nat, Same(n), NEW s
    PROVE  /\ s \in 0..n => SourceId(s)' = SourceId(s)
           /\ \A i \in 0..n : InnermostText(s, i)' <=> InnermostText(s, i)
<1>1. s \in 0..n => SourceId(s)' = SourceId(s)
  BY DEF Same, SourceId
<1>2. ASSUME NEW i \in 0..n
      PROVE  InnermostText(s, i)' <=> InnermostText(s, i)
  <2>1. \A j \in 1..i : frames'[j].fn = frames[j].fn
    BY DEF Same
  <2>2. s \in 0..i /\ s # 0 => s \in 1..i
    OBVIOUS
  <2> QED
    BY <2>1, <2>2 DEF InnermostText
<1> QED
  BY <1>1, <1>2

\* Frames that stay keep their place in the chain, their texts and their copies.
LEMMA KeptFrames ==
    ASSUME TypeOK, NEW n \in 0..Depth, Same(n),
           Chain, Texts, Copies
    PROVE  /\ \A i \in 1..n : frames'[i].copy.handler = i - 1
           /\ \A i \in 1..n : TextAt(i)'
           /\ \A i \in 1..n : CopyAt(i)'
<1>0. Depth \in Nat /\ n \in Nat
  BY FrameTypes
<1>1. ASSUME NEW i \in 1..n
      PROVE  frames'[i].copy.handler = i - 1 /\ TextAt(i)' /\ CopyAt(i)'
  <2>1. /\ frames'[i].fn = frames[i].fn /\ frames'[i].copy = frames[i].copy
        /\ frames'[i].evaluated = frames[i].evaluated
    BY DEF Same
  <2>2. i \in 1..Depth /\ i - 1 \in 0..n
    BY <1>0
  <2>3. frames'[i].copy.handler = i - 1
    BY <2>1, <2>2 DEF Chain
  <2>4. TextAt(i)'
    <3>1. TextAt(i)
      BY <2>2 DEF Texts
    <3>2. frames[i].fn = "catch" \/ frames[i].evaluated => frames[i].fn # "xt"
      BY <3>1 DEF TextAt
    <3> DEFINE s == frames[i].copy.tib
    <3>3. InnermostText(s, i - 1) => s \in 0..n
      BY <2>2 DEF InnermostText
    <3> QED
      BY <1>0, <2>1, <2>2, <3>1, <3>2, <3>3, KeptText DEF TextAt
  <2>5. CopyAt(i)'
    BY <1>0, <2>1, <2>2, KeptBase DEF Copies, CopyAt
  <2> QED
    BY <2>3, <2>4, <2>5
<1> QED
  BY <1>1

(* A frame whose IP, tops and cells are what they were keeps its segment. *)
LEMMA KeptSegment ==
    ASSUME TypeOK, TypeOK', NEW n \in Nat, Same(n), NEW i \in 1..n, i <= Depth, i <= Depth',
           Now(i)'.ip = Now(i).ip, Now(i)'.return = Now(i).return,
           \A k \in 1..Now(i).return : cells'[k] = cells[k],
           SegmentAt(i)
    PROVE  SegmentAt(i)'
<1>1. Base(i)' = Base(i) /\ Caller(i)' = Caller(i) /\ frames'[i].fn = frames[i].fn
  BY KeptBase DEF Same
<1>2. /\ Now(i) \in Tops /\ Base(i) \in Nat /\ Now(i)' \in Tops
      /\ cells \in Memory /\ cells' \in Memory
  <2>1. i \in 1..Depth /\ i \in 1..Depth'
    BY FrameTypes, LenProperties DEF TypeOK, Depth
  <2>2. Now(i) \in Tops /\ Base(i) \in Nat
    BY <2>1, NowTypes
  <2>3. Now(i)' \in Tops
    BY <2>1, NextNowTypes
  <2> QED
    BY <2>2, <2>3 DEF TypeOK, Memory
<1>3. Path(cells', frames[i].fn, Base(i), Now(i)')
  BY <1>2, PathSame DEF SegmentAt
<1>4. cells'[Base(i) + 1] = cells[Base(i) + 1]
  BY <1>2 DEF SegmentAt, Path, Tops
<1>5. Path(cells, frames[i].fn, Base(i), Now(i))' <=> Path(cells', frames[i].fn, Base(i), Now(i)')
  BY <1>1 DEF Path, Address
<1> QED
  BY <1>1, <1>3, <1>4, <1>5 DEF SegmentAt

-----------------------------------------------------------------------------
(* What holds in each kind of state *)

\* A running VM: no throw, no rerun, and only the innermost frame has its tops in the VM.
LEMMA RunningFacts ==
    ASSUME IInv, Running
    PROVE  /\ Depth \in Nat /\ Depth # 0 /\ Depth \in 1..Depth
           /\ thrown = None /\ ~vm.restart
           /\ \A i \in 1..Depth : ~frames[i].rerun
           /\ Now(Depth) = TopsOf(vm)
           /\ \A i \in 1..Depth : i # Depth => Now(i) = frames[i].local
<1>1. Depth \in Nat /\ Depth # 0 /\ thrown = None /\ ~frames[Depth].rerun
  BY FrameTypes DEF IInv, Running, Top
<1>2. \A i \in 1..Depth : ~frames[i].rerun
  BY <1>1 DEF IInv, Reruns
<1>3. ~vm.restart
  BY <1>1 DEF IInv, RestartAtHost, Running, Top
<1> QED
  BY <1>1, <1>2, <1>3 DEF Now

(* What a frame has left on the return stack lies below the frames above. *)
LEMMA BaseAbove ==
    ASSUME TypeOK, Segments, NEW i \in 1..Depth, i # Depth
    PROVE  Now(i).return <= Base(Depth)
<1>1. Depth \in Nat /\ Depth - 1 \in 1..Depth /\ Depth - 1 # Depth /\ i <= Depth - 1
  BY FrameTypes
<1>2. Base(Depth) = Now(Depth - 1).return
  BY <1>1 DEF Base, Now
<1>3. Now(i).return \in Nat /\ Now(Depth - 1).return \in Nat
  BY <1>1, NowTypes DEF Tops
<1>4. i < Depth - 1 => Now(i).return < Now(Depth - 1).return
  BY <1>1 DEF Segments
<1> QED
  BY <1>1, <1>2, <1>3, <1>4

\* A throw on its way: the handler is the innermost frame, with its tops and its path.
LEMMA ThrownFacts ==
    ASSUME IInv, thrown # None
    PROVE  /\ frames # << >> /\ Depth \in Nat /\ Depth # 0 /\ Depth \in 1..Depth
           /\ vm.handler = Depth /\ Handler = Top /\ Top \in Frames
           /\ \A i \in 1..Depth : i # Depth => Now(i) = frames[i].local
           /\ Now(Depth) = IF Top.rerun THEN TopsOf(vm) ELSE Top.local
           /\ Spills(Handler) = {Now(Depth)}
           /\ Now(Depth) \in Tops /\ Base(Depth) \in Nat
           /\ Path(cells, Top.fn, Base(Depth), Now(Depth))
           /\ cells[Base(Depth) + 1] = Caller(Depth)
           /\ TextAt(Depth) /\ CopyAt(Depth) /\ Top.copy.handler = Depth - 1
           /\ Depth > 1 => ~Top.rerun /\ ~vm.restart
<1>1. /\ frames # << >> /\ Depth \in Nat /\ Depth # 0 /\ Depth \in 1..Depth
      /\ vm.handler = Depth /\ Handler = Top /\ Top \in Frames
  BY FrameTypes DEF IInv, Thrown, Chain, Handler, Top
<1>2. /\ \A i \in 1..Depth : i # Depth => Now(i) = frames[i].local
      /\ Now(Depth) = IF Top.rerun THEN TopsOf(vm) ELSE Top.local
  BY DEF Now, Top
<1>3. Spills(Handler) = {Now(Depth)}
  BY <1>1, <1>2, Careful DEF Spills
<1>4. Now(Depth) \in Tops /\ Base(Depth) \in Nat
  BY <1>1, NowTypes DEF IInv
<1>5. /\ Path(cells, Top.fn, Base(Depth), Now(Depth))
      /\ cells[Base(Depth) + 1] = Caller(Depth)
  BY <1>1 DEF IInv, Segments, SegmentAt, Top
<1>6. TextAt(Depth) /\ CopyAt(Depth) /\ Top.copy.handler = Depth - 1
  BY <1>1 DEF IInv, Texts, Copies, Chain, Top
<1>7. Depth > 1 => ~Top.rerun /\ ~vm.restart
  BY <1>1 DEF IInv, Reruns, RestartAtHost, Top
<1> QED
  BY <1>1, <1>2, <1>3, <1>4, <1>5, <1>6, <1>7

\* The VM in the hands of the host, fresh or with a parse step to go on with.
LEMMA IdleFacts ==
    ASSUME IInv, Idle, MayCall
    PROVE  /\ vm \in Vms /\ cells \in Memory /\ TopsOf(vm) \in Tops
           /\ 1 \in 0..MaxFrames /\ vm.return \in Nat
           /\ ~vm.restart => vm.ip = None /\ vm.return = 0
           /\ vm.restart => Path(cells, "string", 0, TopsOf(vm)) /\ cells[1] = None
<1>1. /\ vm \in Vms /\ cells \in Memory /\ TopsOf(vm) \in Tops
      /\ 1 \in 0..MaxFrames
  BY FrameTypes, BoundsAssumption DEF IInv
<1>2. vm.return \in Nat
  BY <1>1 DEF Vms
<1>3. /\ ~vm.restart => vm.ip = None /\ vm.return = 0
      /\ vm.restart => Path(cells, "string", 0, TopsOf(vm)) /\ cells[1] = None
  BY DEF IInv, HostReady, Idle
<1> QED
  BY <1>1, <1>2, <1>3

-----------------------------------------------------------------------------
(* What the promise sees *)

(* The contexts of the frames up to n. *)
Contexts(n) == [i \in 1..n |-> ContextOf(i)]

(* The greatest of the frames that CATCH has entered. *)
LEMMA Innermost ==
    ASSUME IInv, CatchFrames # {}
    PROVE  \E m \in CatchFrames : \A j \in CatchFrames : j <= m
<1> DEFINE Bounds == {n \in Nat : \A j \in CatchFrames : j <= n}
<1>1. Depth \in Nat /\ CatchFrames \subseteq 1..Depth
  BY FrameTypes DEF IInv, CatchFrames
<1>2. Depth \in Bounds /\ Bounds \subseteq Nat
  BY <1>1
<1>3. PICK m \in Bounds : \A n \in Bounds : m <= n
  BY <1>2, NatMin
<1>4. m \in CatchFrames
  <2> SUFFICES ASSUME m \notin CatchFrames PROVE FALSE
    OBVIOUS
  <2>1. \A j \in CatchFrames : j \in Nat /\ j # 0 /\ j <= m /\ j # m
    BY <1>1, <1>3
  <2>2. m - 1 \in Bounds
    BY <2>1, <1>3
  <2> QED
    BY <2>2, <1>3
<1> QED
  BY <1>3, <1>4

(* The one that the promise goes back to is that one. *)
LEMMA LastIs ==
    ASSUME NEW S \in SUBSET Int, NEW m \in S, \A j \in S : j <= m
    PROVE  Promise!LastOf(S) = m /\ (CHOOSE i \in S : \A j \in S : j <= i) = m
<1>1. \A i \in S : (\A j \in S : j <= i) => i = m
  OBVIOUS
<1>2. (CHOOSE i \in S : \A j \in S : j <= i) = m
  BY <1>1
<1> QED
  BY <1>2 DEF Promise!LastOf

(* What Append makes. *)
LEMMA AppendIs ==
    ASSUME NEW S, NEW s \in Seq(S), NEW e, NEW n \in Nat, Len(s) = n
    PROVE  Append(s, e) = [i \in 1..(n + 1) |-> IF i = n + 1 THEN e ELSE s[i]]
<1> DEFINE T == S \cup {e}
           r == [i \in 1..(n + 1) |-> IF i = n + 1 THEN e ELSE s[i]]
<1>1. s \in Seq(T) /\ e \in T
  OBVIOUS
<1>2. ASSUME NEW i \in 1..n + 1 PROVE (IF i = n + 1 THEN e ELSE s[i]) \in T
  <2>1. i # n + 1 => i \in 1..Len(s)
    OBVIOUS
  <2> QED
    BY <2>1
<1>3. r \in Seq(T) /\ Len(r) = n + 1
  <2>1. r \in Seq(T)
    BY <1>2, IsASeq
  <2> QED
    BY <2>1, LenProperties
<1>4. /\ Append(s, e) \in Seq(T) /\ Len(Append(s, e)) = n + 1
      /\ \A i \in 1..n : Append(s, e)[i] = s[i]
      /\ Append(s, e)[n + 1] = e
  <2> HIDE DEF T
  <2> QED
    BY <1>1, AppendProperties
<1>5. \A i \in 1..n + 1 : Append(s, e)[i] = r[i]
  <2>1. \A i \in 1..n + 1 : i \in 1..n \/ i = n + 1
    OBVIOUS
  <2> QED
    BY <1>4, <2>1
<1> HIDE DEF T, r
<1>6. Append(s, e) = r
  BY <1>3, <1>4, <1>5, SeqEqual
<1> QED
  BY <1>6 DEF r

(* A context of a frame that a step has left alone. *)
LEMMA KeptContext ==
    ASSUME NEW n \in Nat, Same(n), NEW i \in 1..n,
           \A k \in 1..Base(i) : cells'[k] = cells[k]
    PROVE  ContextOf(i)' = ContextOf(i)
<1>1. /\ frames'[i].fn = frames[i].fn /\ frames'[i].copy = frames[i].copy
      /\ i # 1 => frames'[i - 1].local = frames[i - 1].local
  <2>1. i # 1 => i - 1 \in 1..n /\ i - 1 < n
    OBVIOUS
  <2> QED
    BY <2>1 DEF Same
<1>2. CASE i = 1
  BY <1>1, <1>2 DEF ContextOf
<1>3. CASE i # 1
  <2>1. CallsOf(frames[i - 1].local)' = CallsOf(frames[i - 1].local)
    BY <1>1, <1>3 DEF CallsOf, Base
  <2> QED
    BY <1>1, <1>3, <2>1 DEF ContextOf
<1> QED
  BY <1>2, <1>3

(* The return stack at the bottom of frame i. *)
LEMMA BaseBelow ==
    ASSUME TypeOK, Segments, NEW i \in 1..Depth
    PROVE  Base(i) <= Base(Depth)
<1>1. Depth \in Nat /\ Depth \in 1..Depth /\ Base(Depth) \in Nat
  BY FrameTypes, NowTypes
<1>2. CASE i = 1
  BY <1>1, <1>2 DEF Base
<1>3. CASE i # 1
  <2>1. i - 1 \in 1..Depth /\ i - 1 # Depth
    BY <1>1, <1>3
  <2>2. Now(i - 1).return <= Base(Depth)
    BY <2>1, BaseAbove
  <2>3. Now(i - 1) = frames[i - 1].local
    BY <2>1 DEF Now
  <2> QED
    BY <1>3, <2>2, <2>3 DEF Base
<1> QED
  BY <1>2, <1>3

ContextSet == [kind : {"string", "xt", "catch"}, calls : Seq(Ips), depth : Nat]

(* The places to return to, one above another. *)
LEMMA CallsShape ==
    ASSUME cells \in Memory, NEW t \in Tops
    PROVE  /\ CallsOf(t) \in Seq(Ips) /\ Len(CallsOf(t)) = t.return + 1
           /\ \A k \in 1..t.return : CallsOf(t)[k] = cells[k]
           /\ CallsOf(t)[t.return + 1] = t.ip
<1>1. t.return \in Nat /\ t.ip \in Ips /\ t.return + 1 \in Nat
  BY DEF Tops
<1>2. ASSUME NEW k \in 1..t.return + 1
      PROVE  (IF k <= t.return THEN cells[k] ELSE t.ip) \in Ips
  <2>1. k <= t.return => k \in 0..ReturnSize
    BY <1>1, BoundsAssumption DEF Tops
  <2> QED
    BY <1>1, <2>1 DEF Memory
<1>3. CallsOf(t) \in Seq(Ips) /\ Len(CallsOf(t)) = t.return + 1
  BY <1>1, <1>2, IsASeq, LenProperties DEF CallsOf
<1> QED
  BY <1>1, <1>3 DEF CallsOf

(* What the context of a frame holds: the calls below its own. *)
LEMMA ContextShape ==
    ASSUME IInv, NEW i \in 1..Depth
    PROVE  /\ ContextOf(i) \in ContextSet /\ ContextOf(i).kind = frames[i].fn
           /\ ContextOf(i).depth = IF frames[i].fn = "catch" THEN frames[i].copy.data ELSE 0
           /\ Len(ContextOf(i).calls) = Base(i) + 1
           /\ \A k \in 1..Base(i) : ContextOf(i).calls[k] = cells[k]
           /\ ContextOf(i).calls[Base(i) + 1] = Caller(i)
<1>1. frames[i] \in Frames /\ cells \in Memory
  BY FrameTypes DEF IInv
<1>2. /\ frames[i].fn \in {"string", "xt", "catch"}
      /\ (IF frames[i].fn = "catch" THEN frames[i].copy.data ELSE 0) \in Nat
  BY <1>1, BoundsAssumption DEF Frames, Vms
<1>3. CASE i = 1
  <2>1. <<None>> \in Seq(Ips) /\ Len(<<None>>) = 1 /\ <<None>>[1] = None
    BY DEF Ips
  <2>2. /\ ContextOf(i).calls = <<None>> /\ Base(i) = 0 /\ Caller(i) = None
        /\ ContextOf(i).kind = frames[i].fn
        /\ ContextOf(i).depth = IF frames[i].fn = "catch" THEN frames[i].copy.data ELSE 0
        /\ ContextOf(i) \in ContextSet
    BY <1>2, <1>3, <2>1 DEF ContextOf, Base, Caller, ContextSet
  <2> QED
    BY <2>1, <2>2
<1>4. CASE i # 1
  <2>1. i - 1 \in 1..Depth
    BY <1>4, FrameTypes DEF IInv
  <2>2. PICK t : t = frames[i - 1].local
    OBVIOUS
  <2>3. t \in Tops /\ t.return = Base(i) /\ t.ip = Caller(i)
    BY <1>4, <2>1, <2>2, FrameTypes DEF IInv, Frames, Base, Caller
  <2>4. /\ CallsOf(t) \in Seq(Ips) /\ Len(CallsOf(t)) = t.return + 1
        /\ \A k \in 1..t.return : CallsOf(t)[k] = cells[k]
        /\ CallsOf(t)[t.return + 1] = t.ip
    BY <1>1, <2>3, CallsShape
  <2>5. /\ ContextOf(i).calls = CallsOf(t) /\ ContextOf(i).kind = frames[i].fn
        /\ ContextOf(i).depth = IF frames[i].fn = "catch" THEN frames[i].copy.data ELSE 0
    BY <1>4, <2>2 DEF ContextOf
  <2>6. ContextOf(i) \in ContextSet
    BY <1>2, <1>4, <2>2, <2>4 DEF ContextOf, ContextSet
  <2> QED
    BY <2>3, <2>4, <2>5, <2>6
<1> QED
  BY <1>3, <1>4

\* The contexts of the promise are those of the frames, one each.
LEMMA ContextsShape ==
    ASSUME IInv, NEW n \in 0..Depth
    PROVE  /\ Contexts(n) \in Seq(ContextSet) /\ Len(Contexts(n)) = n
           /\ \A i \in 1..n : Contexts(n)[i] = ContextOf(i)
           /\ n = 0 <=> Contexts(n) = << >>
<1>1. n \in Nat /\ \A i \in 1..n : ContextOf(i) \in ContextSet
  BY ContextShape, FrameTypes DEF IInv
<1>2. Contexts(n) \in Seq(ContextSet) /\ Len(Contexts(n)) = n
  BY <1>1, IsASeq, LenProperties DEF Contexts
<1>3. n = 0 <=> Contexts(n) = << >>
  BY <1>1, <1>2, EmptySeq
<1> QED
  BY <1>2, <1>3 DEF Contexts

(* The contexts of frames that a step has left alone. *)
LEMMA KeptContexts ==
    ASSUME TypeOK, Segments, NEW n \in 0..Depth, Same(n), NEW m \in 0..n,
           \A k \in 1..Base(Depth) : cells'[k] = cells[k]
    PROVE  Contexts(m)' = Contexts(m) /\ \A i \in 1..n : ContextOf(i)' = ContextOf(i)
<1>1. ASSUME NEW i \in 1..n PROVE ContextOf(i)' = ContextOf(i)
  <2>1. i \in 1..Depth /\ n \in Nat /\ Base(i) \in Nat /\ Base(Depth) \in Nat /\ Base(i) <= Base(Depth)
    <3>1. Depth \in Nat /\ i \in 1..Depth /\ Depth \in 1..Depth
      BY FrameTypes
    <3> QED
      BY <3>1, NowTypes, BaseBelow
  <2>2. \A k \in 1..Base(i) : k \in 1..Base(Depth)
    BY <2>1
  <2> QED
    BY <2>1, <2>2, KeptContext
<1> QED
  BY <1>1 DEF Contexts

(* A context's calls are those of its callers, with more above. *)
LEMMA InsideTop ==
    ASSUME IInv, NEW d, d = Depth, d \in 1..d, NEW t, t = TopsOf(vm), Now(d) = t
    PROVE  /\ CallsOf(t) \in Seq(Ips)
           /\ Promise!IsStrictPrefix(ContextOf(d).calls, CallsOf(t))
<1>1. /\ t \in Tops /\ cells \in Memory /\ Base(d) \in Nat /\ t.return \in Nat
      /\ Base(d) < t.return /\ cells[Base(d) + 1] = Caller(d)
  <2>1. t \in Tops /\ cells \in Memory /\ d \in 1..Depth
    BY FrameTypes DEF IInv
  <2>2. SegmentAt(d)
    BY <2>1 DEF IInv, Segments
  <2> QED
    BY <2>1, <2>2, NowTypes DEF IInv, SegmentAt, Path, Tops
<1>2. PICK p, c : p = ContextOf(d).calls /\ c = CallsOf(t)
  OBVIOUS
<1>3. /\ c \in Seq(Ips) /\ Len(c) = t.return + 1 /\ \A k \in 1..t.return : c[k] = cells[k]
  BY <1>1, <1>2, CallsShape
<1>4. /\ p \in Seq(Ips) /\ Len(p) = Base(d) + 1 /\ \A k \in 1..Base(d) : p[k] = cells[k]
      /\ p[Base(d) + 1] = Caller(d)
  BY <1>2, ContextShape DEF ContextSet
<1>5. \A k \in 1..Len(p) : p[k] = c[k]
  <2>1. PICK b : b = Base(d)
    OBVIOUS
  <2>2. ASSUME NEW k \in 1..b PROVE p[k] = c[k]
    BY <1>1, <1>3, <1>4, <2>1
  <2>3. p[b + 1] = c[b + 1]
    BY <1>1, <1>3, <1>4, <2>1
  <2>4. \A k \in 1..Len(p) : k \in 1..b \/ k = b + 1
    BY <1>1, <1>4, <2>1
  <2> QED
    BY <2>2, <2>3, <2>4
<1>6. SubSeq(p, 1, Len(p)) = SubSeq(c, 1, Len(p))
  <2>1. Len(p) \in Nat /\ Len(p) <= Len(c)
    BY <1>1, <1>3, <1>4
  <2>2. SubSeq(p, 1, Len(p)) \in Seq(Ips) /\ SubSeq(c, 1, Len(p)) \in Seq(Ips)
    BY <1>3, <1>4, <2>1, SubSeqProperties
  <2>3. /\ Len(SubSeq(p, 1, Len(p))) = Len(p) /\ Len(SubSeq(c, 1, Len(p))) = Len(p)
        /\ \A k \in 1..Len(p) : SubSeq(p, 1, Len(p))[k] = p[k] /\ SubSeq(c, 1, Len(p))[k] = c[k]
    BY <1>1, <1>3, <1>4, <2>1, SubSeqProperties
  <2> QED
    BY <1>5, <2>2, <2>3, SeqEqual
<1>7. Len(p) <= Len(c) /\ p # c
  BY <1>1, <1>3, <1>4
<1> QED
  BY <1>2, <1>3, <1>6, <1>7 DEF Promise!IsStrictPrefix, Promise!IsPrefix

(* What the promise sees in each kind of state *)

View(where, addresses, what, n) ==
    ContextsNow = where /\ CallsNow = addresses /\ StatusNow = what /\ DepthNow = n

Ends   == {"out_of_text", "inner_exit"}
Unwinds == Codes \ {"restart", "out_of_text", "inner_exit"}

RunningView == View(Contexts(Depth), CallsOf(TopsOf(vm)), "running", vm.data)
IdleView    == View(<< >>, <<None>>, "idle", vm.data)
WaitingView == View(<<[kind |-> "string", calls |-> <<None>>, depth |-> 0]>>,
                    CallsOf(TopsOf(vm)), "waiting", vm.data)
EndingView  == View(Contexts(Depth - 1), ContextOf(Depth).calls, "finishing", vm.data)
LostView    == CatchFrames = {} /\ View(<< >>, ContextOf(1).calls, "unwinding", 0)
CaughtView(m) ==
    View(Contexts(m - 1), ContextOf(m).calls, "unwinding", frames[m].copy.data + 1)

\* How the promise sees a running VM.
LEMMA SeenRunning == frames # << >> /\ thrown = None => RunningView
BY DEF RunningView, View, ContextsNow, CallsNow, StatusNow, DepthNow, Waiting, Idle, None, Contexts

\* How the promise sees a VM that waits for the host.
LEMMA SeenIdle == IInv /\ Idle /\ ~vm.restart => IdleView
<1> SUFFICES ASSUME IInv, Idle, ~vm.restart PROVE IdleView
  OBVIOUS
<1>1. frames = << >> /\ thrown = None /\ Depth = 0 /\ ~Waiting
  BY DEF Idle, Depth, Waiting, None
<1>2. ContextsNow = << >>
  <2>1. ContextsNow = [i \in 1..0 |-> ContextOf(i)]
    BY <1>1 DEF ContextsNow
  <2> QED
    BY <2>1
<1>3. CallsNow = <<None>>
  <2>1. CASE LeftByBye \/ LeftByXT
    BY <1>1, <2>1 DEF CallsNow
  <2>2. CASE ~(LeftByBye \/ LeftByXT)
    <3>1. vm.ip = None /\ vm.return = 0
      BY <2>2, IdleFacts DEF MayCall
    <3>2. CallsNow = CallsOf(TopsOf(vm))
      BY <1>1, <2>2 DEF CallsNow
    <3>3. CallsOf(TopsOf(vm)) = [i \in 1..1 |-> None]
      BY <3>1 DEF CallsOf, TopsOf
    <3> QED
      BY <3>2, <3>3
  <2> QED
    BY <2>1, <2>2
<1> QED
  BY <1>1, <1>2, <1>3 DEF IdleView, View, StatusNow, DepthNow, None

\* How the promise sees a text that is used up inside a parsing word.
LEMMA SeenWaiting == IInv /\ Waiting => WaitingView
<1> SUFFICES ASSUME IInv, Waiting PROVE WaitingView
  OBVIOUS
<1>1. StatusNow = "waiting" /\ DepthNow = vm.data
  BY DEF StatusNow, DepthNow
<1>2. ContextsNow = <<[kind |-> "string", calls |-> <<None>>, depth |-> 0]>>
  BY DEF ContextsNow
<1>3. frames # << >> /\ ~Top.rerun => Top.local = TopsOf(vm)
  BY DEF Waiting, Idle, IInv, Thrown
<1>5. Idle => ~(LeftByBye \/ LeftByXT)
  BY DEF Waiting, Idle, None, IInv, HostReady
<1>4. CallsNow = CallsOf(TopsOf(vm))
  BY <1>3, <1>5 DEF CallsNow
<1> QED
  BY <1>1, <1>2, <1>4 DEF WaitingView, View

\* How the promise sees the end of a text or of a word.
LEMMA SeenEnding == IInv /\ thrown \in Ends => EndingView
<1> SUFFICES ASSUME IInv, thrown \in Ends PROVE EndingView
  OBVIOUS
<1>1. thrown # None /\ ~Waiting /\ ~Idle /\ thrown # "restart"
  BY DEF Ends, None, Waiting, Idle
<1>2. Depth \in Nat /\ Depth # 0 /\ Landing = Depth - 1 /\ Landing + 1 = Depth
  BY <1>1, ThrownFacts DEF Ends, Landing
<1>3. StatusNow = "finishing" /\ DepthNow = vm.data
  BY <1>1 DEF StatusNow, DepthNow, Ends
<1>4. ContextsNow = Contexts(Depth - 1) /\ CallsNow = ContextOf(Depth).calls
  BY <1>1, <1>2 DEF ContextsNow, CallsNow, Contexts
<1> QED
  BY <1>3, <1>4 DEF EndingView, View

\* How the promise sees a throw: at the innermost CATCH already, or at the host.
LEMMA SeenThrown ==
    IInv /\ thrown \in Unwinds =>
        /\ StatusNow = "unwinding"
        /\ CatchFrames = {} => LostView
        /\ \A m \in CatchFrames : (\A j \in CatchFrames : j <= m) => CaughtView(m)
<1> SUFFICES ASSUME IInv, thrown \in Unwinds
             PROVE  /\ StatusNow = "unwinding"
                    /\ CatchFrames = {} => LostView
                    /\ \A m \in CatchFrames : (\A j \in CatchFrames : j <= m) => CaughtView(m)
  OBVIOUS
<1>1. /\ thrown # None /\ ~Waiting /\ ~Idle /\ thrown # "restart"
      /\ thrown \notin {"out_of_text", "inner_exit"}
  BY DEF Unwinds, Codes, UserCodes, None, Waiting, Idle
<1>2. StatusNow = "unwinding"
  BY <1>1 DEF StatusNow
<1>3. ASSUME CatchFrames = {} PROVE LostView
  <2>1. Landing = 0
    BY <1>1, <1>3 DEF Landing
  <2>2. ContextsNow = [i \in 1..0 |-> ContextOf(i)] /\ CallsNow = ContextOf(1).calls /\ DepthNow = 0
    BY <1>1, <1>2, <1>3, <2>1 DEF ContextsNow, CallsNow, DepthNow
  <2> QED
    BY <1>2, <1>3, <2>2 DEF LostView, View
<1>4. ASSUME NEW m \in CatchFrames, \A j \in CatchFrames : j <= m PROVE CaughtView(m)
  <2>1. CatchFrames \in SUBSET Int /\ CatchFrames # {} /\ m \in Int
    BY <1>4, FrameTypes DEF IInv, CatchFrames
  <2>2. (CHOOSE i \in CatchFrames : \A j \in CatchFrames : j <= i) = m
    BY <1>4, <2>1, LastIs
  <2>5. Landing = m - 1
    BY <1>1, <2>1, <2>2 DEF Landing
  <2>3. Landing = m - 1 /\ Landing + 1 = m
    BY <2>1, <2>5
  <2>4. ContextsNow = Contexts(m - 1) /\ CallsNow = ContextOf(m).calls /\ DepthNow = frames[m].copy.data + 1
    BY <1>1, <1>2, <2>1, <2>3 DEF ContextsNow, CallsNow, DepthNow, Contexts
  <2> QED
    BY <1>2, <2>4 DEF CaughtView, View
<1> QED
  BY <1>2, <1>3, <1>4

(* The same of the next state. *)
LEMMA SeenNext ==
    (/\ frames # << >> /\ thrown = None => RunningView
     /\ IInv /\ Idle /\ ~vm.restart => IdleView
     /\ IInv /\ Waiting => WaitingView
     /\ IInv /\ thrown \in Ends => EndingView
     /\ IInv /\ thrown \in Unwinds =>
            /\ StatusNow = "unwinding"
            /\ CatchFrames = {} => LostView
            /\ \A m \in CatchFrames : (\A j \in CatchFrames : j <= m) => CaughtView(m))'
<1>1. /\ frames # << >> /\ thrown = None => RunningView
      /\ IInv /\ Idle /\ ~vm.restart => IdleView
      /\ IInv /\ Waiting => WaitingView
      /\ IInv /\ thrown \in Ends => EndingView
      /\ IInv /\ thrown \in Unwinds =>
             /\ StatusNow = "unwinding"
             /\ CatchFrames = {} => LostView
             /\ \A m \in CatchFrames : (\A j \in CatchFrames : j <= m) => CaughtView(m)
  BY SeenRunning, SeenIdle, SeenWaiting, SeenEnding, SeenThrown
<1> QED
  BY <1>1, PTL

(* The steps of the promise *)

(* A stack depth is a number, and no code is under way in a quiet machine. *)
LEMMA DepthTypes == IInv => vm.data \in Nat /\ TopsOf(vm) \in Tops
BY FrameTypes, BoundsAssumption DEF IInv, Vms

\* The types that the promise needs of the state after a step.
LEMMA DepthTypesNext == (IInv => vm.data \in Nat /\ TopsOf(vm) \in Tops)'
<1>1. IInv => vm.data \in Nat /\ TopsOf(vm) \in Tops
  BY DepthTypes
<1> QED
  BY <1>1, PTL

\* A running VM returns, in the end, to the places its innermost context returns to.
LEMMA InsideNow ==
    IInv /\ thrown = None /\ frames # << >> =>
        /\ CallsOf(TopsOf(vm)) \in Seq(Ips)
        /\ Promise!IsStrictPrefix(ContextOf(Depth).calls, CallsOf(TopsOf(vm)))
        /\ Promise!Last(Contexts(Depth)) = ContextOf(Depth)
<1> SUFFICES ASSUME IInv, thrown = None, frames # << >>
             PROVE  /\ CallsOf(TopsOf(vm)) \in Seq(Ips)
                    /\ Promise!IsStrictPrefix(ContextOf(Depth).calls, CallsOf(TopsOf(vm)))
                    /\ Promise!Last(Contexts(Depth)) = ContextOf(Depth)
  OBVIOUS
<1>1. PICK d, t : d = Depth /\ t = TopsOf(vm)
  OBVIOUS
<1>2. d \in 1..d /\ d \in 0..Depth /\ Now(d) = t
  BY <1>1, FrameTypes DEF IInv, Now
<1>3. Len(Contexts(d)) = d /\ Contexts(d)[d] = ContextOf(d)
  BY <1>2, ContextsShape
<1> QED
  BY <1>1, <1>2, <1>3, InsideTop DEF Promise!Last

\* The same of the state after a step.
LEMMA InsideNext ==
    (IInv /\ thrown = None /\ frames # << >> =>
        /\ CallsOf(TopsOf(vm)) \in Seq(Ips)
        /\ Promise!IsStrictPrefix(ContextOf(Depth).calls, CallsOf(TopsOf(vm)))
        /\ Promise!Last(Contexts(Depth)) = ContextOf(Depth))'
<1>1. IInv /\ thrown = None /\ frames # << >> =>
        /\ CallsOf(TopsOf(vm)) \in Seq(Ips)
        /\ Promise!IsStrictPrefix(ContextOf(Depth).calls, CallsOf(TopsOf(vm)))
        /\ Promise!Last(Contexts(Depth)) = ContextOf(Depth)
  BY InsideNow
<1> QED
  BY <1>1, PTL

(* A running frame is inside its context. *)
LEMMA PromisedInside ==
    ASSUME IInv', thrown' = None, frames' # << >>
    PROVE  Promise!Inside /\ RunningView' /\ DepthNow' \in Nat
<1>1. RunningView'
  BY SeenNext
<1>2. /\ CallsOf(TopsOf(vm))' \in Seq(Ips)
      /\ Promise!IsStrictPrefix(ContextOf(Depth).calls, CallsOf(TopsOf(vm)))'
      /\ Promise!Last(Contexts(Depth))' = ContextOf(Depth)'
  BY InsideNext
<1>3. ContextsNow' = Contexts(Depth)' /\ CallsNow' = CallsOf(TopsOf(vm))' /\ DepthNow' = vm'.data
  BY <1>1 DEF RunningView, View
<1> QED
  BY <1>1, <1>2, <1>3, DepthTypesNext DEF Promise!Inside

(* The program works inside its frame. *)
LEMMA WorkPromise ==
    ASSUME IInv, IInv', frames # << >>, thrown = None, UNCHANGED <<thrown, result>>,
           Depth' = Depth, \A i \in 1..Depth : ContextOf(i)' = ContextOf(i)
    PROVE  Promise!Work
<1>1. frames' # << >> /\ Depth \in Nat /\ Depth # 0
  <2>1. Depth \in Nat /\ Depth # 0
    BY FrameTypes DEF IInv
  <2> QED
    BY <2>1, EmptySeq DEF Depth
<1>2. RunningView /\ RunningView' /\ Promise!Inside /\ DepthNow' \in Nat
  BY <1>1, SeenRunning, PromisedInside
<1>3. Contexts(Depth)' = Contexts(Depth)
  BY DEF Contexts
<1>4. ContextsNow' = ContextsNow /\ StatusNow = "running" /\ StatusNow' = "running"
  BY <1>2, <1>3 DEF RunningView, View
<1> QED
  BY <1>2, <1>4 DEF Promise!Work

\* One frame is some frame.
LEMMA HasFrames ==
    ASSUME Depth' = 1
    PROVE  frames' # << >>
BY EmptySeq DEF Depth

(* The host's text or word starts. *)
LEMMA StartPromise ==
    ASSUME IInv, IInv', Idle, ~vm.restart, UNCHANGED <<thrown, result>>, vm'.data = vm.data,
           Depth' = 1, frames'[1].fn \in {"string", "xt"}
    PROVE  Promise!Start
<1>1. frames' # << >> /\ thrown' = None
  BY EmptySeq DEF Idle, Depth
<1>2. IdleView /\ RunningView' /\ Promise!Inside
  BY <1>1, SeenIdle, PromisedInside
<1>3. ContextsNow' = <<[kind |-> frames'[1].fn, calls |-> <<None>>, depth |-> 0]>>
  <2>1. ContextOf(1)' = [kind |-> frames'[1].fn, calls |-> <<None>>, depth |-> 0]
    BY DEF ContextOf
  <2>2. ContextsNow' = [i \in 1..1 |-> ContextOf(i)']
    BY <1>2 DEF RunningView, View, Contexts
  <2> QED
    BY <2>1, <2>2
<1>4. /\ StatusNow = "idle" /\ StatusNow' = "running" /\ DepthNow' = DepthNow
  BY <1>2 DEF RunningView, IdleView, View
<1> QED
  BY <1>1, <1>2, <1>3, <1>4 DEF Promise!Start, Promise!Kinds, Promise!AtHost, Idle

(* The host's text goes on with the word that ran out of text. *)
LEMMA GoOnPromise ==
    ASSUME IInv, IInv', Idle, vm.restart, UNCHANGED <<thrown, result, cells>>,
           vm'.data = vm.data, vm'.ip = vm.ip, vm'.return = vm.return,
           Depth' = 1, frames'[1].fn = "string"
    PROVE  Promise!GoOn
<1>1. frames' # << >> /\ thrown = None /\ thrown' = None
  <2>2. frames' # << >>
    BY HasFrames
  <2>3. thrown = None /\ thrown' = thrown
    BY DEF Idle
  <2> QED
    BY <2>2, <2>3
<1>2. WaitingView /\ RunningView'
  BY <1>1, SeenWaiting, SeenNext DEF Waiting
<1>3. ContextsNow' = <<[kind |-> "string", calls |-> <<None>>, depth |-> 0]>>
  <2>1. ContextOf(1)' = [kind |-> "string", calls |-> <<None>>, depth |-> 0]
    BY DEF ContextOf
  <2>2. ContextsNow' = [i \in 1..1 |-> ContextOf(i)']
    BY <1>2 DEF RunningView, View, Contexts
  <2> QED
    BY <2>1, <2>2
<1>4. CallsOf(TopsOf(vm))' = CallsOf(TopsOf(vm))
  BY DEF CallsOf, TopsOf
<1>5. /\ StatusNow = "waiting" /\ StatusNow' = "running" /\ DepthNow' = DepthNow
      /\ CallsNow' = CallsNow /\ ContextsNow' = ContextsNow
  BY <1>2, <1>3, <1>4 DEF RunningView, WaitingView, View
<1> QED
  BY <1>1, <1>5 DEF Promise!GoOn, Promise!NoCode, None

(* A frame inside the frame. *)
LEMMA EnterPromise ==
    ASSUME IInv, IInv', frames # << >>, thrown = None, UNCHANGED <<thrown, result>>,
           NEW d, d = Depth, Depth' = d + 1, Same(d), frames'[d].local = TopsOf(vm),
           \A k \in 1..vm.return : cells'[k] = cells[k],
           frames'[d + 1].fn = "catch" => frames'[d + 1].copy.data = vm'.data
    PROVE  Promise!Enter
<1>1. /\ d \in Nat /\ d # 0 /\ d \in 1..d /\ d \in 0..Depth /\ d \in 0..d
      /\ frames' # << >> /\ TypeOK /\ Segments /\ d + 1 # 1 /\ d + 1 - 1 = d
  <2>1. d \in Nat /\ d # 0
    BY FrameTypes DEF IInv
  <2> QED
    BY <2>1, EmptySeq DEF Depth, IInv
<1>2. RunningView /\ RunningView' /\ Promise!Inside /\ DepthNow' \in Nat
  BY <1>1, SeenRunning, PromisedInside
<1>3. \A k \in 1..Base(Depth) : cells'[k] = cells[k]
  <2>1. Base(d) \in Nat /\ Base(d) < vm.return /\ vm.return \in Nat
    <3>1. SegmentAt(d) /\ Now(d) = TopsOf(vm)
      BY <1>1 DEF Segments, Now
    <3>2. Base(d) \in Nat /\ TopsOf(vm) \in Tops
      BY <1>1, NowTypes, FrameTypes
    <3> QED
      BY <3>1, <3>2 DEF SegmentAt, Path, Tops, TopsOf
  <2> QED
    BY <2>1
<1>4. Contexts(d)' = Contexts(d) /\ \A i \in 1..d : ContextOf(i)' = ContextOf(i)
  BY <1>1, <1>3, KeptContexts
<1> DEFINE c == ContextOf(d + 1)'
<1>5. /\ c = [kind  |-> frames'[d + 1].fn, calls |-> CallsNow,
              depth |-> IF frames'[d + 1].fn = "catch" THEN DepthNow' ELSE 0]
  <2>1. CallsOf(frames[d].local)' = CallsOf(TopsOf(vm))
    BY DEF CallsOf, TopsOf
  <2>2. CallsNow = CallsOf(TopsOf(vm)) /\ DepthNow' = vm'.data
    BY <1>2 DEF RunningView, View
  <2> QED
    BY <1>1, <2>1, <2>2 DEF ContextOf
<1>6. c.kind \in Promise!Kinds /\ frames'[d + 1].fn = c.kind
  <2>1. frames'[d + 1] \in Frames
    BY <1>1 DEF IInv, TypeOK, Depth
  <2> QED
    BY <1>5, <2>1 DEF Frames, Promise!Kinds
<1>7. ContextsNow' = Append(ContextsNow, c)
  <2>1. PICK s : s = Contexts(d)
    OBVIOUS
  <2>2. s \in Seq(ContextSet) /\ Len(s) = d /\ \A i \in 1..d : s[i] = ContextOf(i)
    BY <1>1, <2>1, ContextsShape
  <2>3. ContextsNow = s
    BY <1>2, <2>1 DEF RunningView, View
  <2>4. ContextsNow' = [i \in 1..(d + 1) |-> ContextOf(i)']
    BY <1>2 DEF RunningView, View, Contexts
  <2>5. \A i \in 1..d + 1 : i \in 1..d \/ i = d + 1
    BY <1>1
  <2>6. Append(s, c) = [i \in 1..(d + 1) |-> IF i = d + 1 THEN c ELSE s[i]]
    <3> HIDE DEF c
    <3> QED
      BY <1>1, <2>2, AppendIs
  <2>7. \A i \in 1..d + 1 : ContextOf(i)' = IF i = d + 1 THEN c ELSE s[i]
    BY <1>1, <1>4, <2>2, <2>5
  <2> HIDE DEF c
  <2> QED
    BY <2>3, <2>4, <2>6, <2>7
<1>8. StatusNow = "running" /\ StatusNow' = "running"
  BY <1>2 DEF RunningView, View
<1> HIDE DEF c
<1>9. \E k \in Promise!Kinds :
         ContextsNow' = Append(ContextsNow, [kind |-> k, calls |-> CallsNow,
                                             depth |-> IF k = "catch" THEN DepthNow' ELSE 0])
  BY <1>5, <1>6, <1>7
<1> QED
  BY <1>2, <1>8, <1>9 DEF Promise!Enter

\* The contexts of the outer frames are the first of the contexts.
LEMMA ContextsPrefix ==
    ASSUME IInv, NEW n \in 0..Depth, NEW m \in 0..n
    PROVE  SubSeq(Contexts(n), 1, m) = Contexts(m)
<1>1. PICK s, r : s = Contexts(n) /\ r = Contexts(m)
  OBVIOUS
<1>2. m \in 0..Depth /\ m \in Nat /\ n \in Nat
  BY FrameTypes DEF IInv
<1>3. /\ s \in Seq(ContextSet) /\ Len(s) = n /\ \A i \in 1..n : s[i] = ContextOf(i)
      /\ r \in Seq(ContextSet) /\ Len(r) = m /\ \A i \in 1..m : r[i] = ContextOf(i)
  BY <1>1, <1>2, ContextsShape
<1>4. /\ SubSeq(s, 1, m) \in Seq(ContextSet) /\ Len(SubSeq(s, 1, m)) = m
      /\ \A i \in 1..m : SubSeq(s, 1, m)[i] = s[i]
  <2>1. \A i \in 1..m : s[i] \in ContextSet
    BY <1>2, <1>3
  <2> QED
    BY <1>2, <1>3, <2>1, SubSeqProperties
<1>5. \A i \in 1..m : SubSeq(s, 1, m)[i] = r[i]
  BY <1>2, <1>3, <1>4
<1>6. SubSeq(s, 1, m) = r
  BY <1>3, <1>4, <1>5, SeqEqual
<1> QED
  BY <1>1, <1>6

(* The loop of a frame comes to its end. *)
LEMMA FinishPromise ==
    ASSUME IInv, IInv', frames # << >>, thrown = None, thrown' \in Ends, UNCHANGED <<cells, result>>,
           NEW d, d = Depth, Depth' = d, Same(d)
    PROVE  Promise!Finish
<1>1. d \in Nat /\ d # 0 /\ d \in 1..d /\ d \in 0..Depth /\ d - 1 \in 0..d /\ TypeOK /\ Segments
  BY FrameTypes DEF IInv
<1>2. RunningView /\ EndingView'
  BY SeenRunning, SeenNext
<1>3. Contexts(d - 1)' = Contexts(d - 1) /\ ContextOf(d)' = ContextOf(d)
  <2>1. PICK m : m = d - 1
    OBVIOUS
  <2>2. m \in 0..d
    BY <1>1, <2>1
  <2>3. Contexts(m)' = Contexts(m) /\ ContextOf(d)' = ContextOf(d)
    BY <1>1, <2>2, KeptContexts
  <2> QED
    BY <2>1, <2>3 DEF Contexts
<1>4. ContextsNow = Contexts(d) /\ StatusNow = "running"
  BY <1>2 DEF RunningView, View
<1>5. /\ ContextsNow' = Contexts(d - 1)' /\ CallsNow' = ContextOf(d)'.calls
      /\ StatusNow' = "finishing" /\ DepthNow' = vm'.data
  BY <1>2 DEF EndingView, View, Contexts
<1>6. Len(Contexts(d)) = d /\ Contexts(d)[d] = ContextOf(d) /\ SubSeq(Contexts(d), 1, d - 1) = Contexts(d - 1)
  BY <1>1, ContextsShape, ContextsPrefix
<1>7. ContextsNow' = Promise!Front(ContextsNow) /\ CallsNow' = Promise!Callers
  BY <1>3, <1>4, <1>5, <1>6 DEF Promise!Front, Promise!Last, Promise!Callers
<1>8. thrown' # "restart"
  BY DEF Ends
<1> QED
  BY <1>4, <1>5, <1>7, <1>8, DepthTypesNext DEF Promise!Finish, Ends

\* Where there is a CATCH there is an innermost one.
LEMMA InnermostNext ==
    (IInv /\ CatchFrames # {} => \E m \in CatchFrames : \A j \in CatchFrames : j <= m)'
<1>1. IInv /\ CatchFrames # {} => \E m \in CatchFrames : \A j \in CatchFrames : j <= m
  BY Innermost
<1> QED
  BY <1>1, PTL

(* A code is thrown with n frames left. *)
LEMMA ThrowPromise ==
    ASSUME IInv, IInv', NEW n \in 1..Depth, ContextsNow = Contexts(n),
           StatusNow \in {"running", "finishing"}, thrown' \in Unwinds,
           UNCHANGED <<cells, result>>, Depth' = n, Same(n)
    PROVE  Promise!Throw
<1>1. n \in Nat /\ n \in 0..Depth /\ n \in 0..n /\ 1 \in 1..n /\ TypeOK /\ Segments /\ TypeOK'
  BY FrameTypes DEF IInv
<1>2. \A i \in 1..n : ContextOf(i)' = ContextOf(i) /\ frames'[i].fn = frames[i].fn /\ i \in 1..Depth
  BY <1>1, KeptContexts, FrameTypes DEF Same
<1>3. /\ ContextsNow \in Seq(ContextSet) /\ Len(ContextsNow) = n /\ ContextsNow # << >>
      /\ \A i \in 1..n : ContextsNow[i] = ContextOf(i)
  BY <1>1, ContextsShape
<1>4. Promise!Catches = CatchFrames'
  <2>1. Promise!Catches = {i \in 1..n : ContextOf(i).kind = "catch"}
    BY <1>3 DEF Promise!Catches
  <2>2. CatchFrames' = {i \in 1..n : frames'[i].fn = "catch"}
    BY DEF CatchFrames
  <2>3. \A i \in 1..n : ContextOf(i).kind = frames'[i].fn
    BY <1>2, ContextShape
  <2> QED
    BY <2>1, <2>2, <2>3
<1>5. /\ thrown' \in Codes /\ thrown' # "restart" /\ StatusNow' = "unwinding"
      /\ CatchFrames' = {} => LostView'
      /\ \A m \in CatchFrames' : (\A j \in CatchFrames' : j <= m) => CaughtView(m)'
  BY SeenNext DEF Unwinds
<1>6. CASE CatchFrames' = {}
  <2>1. ContextsNow' = << >> /\ CallsNow' = ContextOf(1)'.calls /\ DepthNow' = 0
    BY <1>5, <1>6 DEF LostView, View
  <2>2. CallsNow' = ContextsNow[1].calls
    BY <1>1, <1>2, <1>3, <2>1
  <2> QED
    BY <1>3, <1>4, <1>5, <1>6, <2>1, <2>2 DEF Promise!Throw
<1>7. CASE CatchFrames' # {}
  <2>1. PICK m \in CatchFrames' : \A j \in CatchFrames' : j <= m
    BY <1>7, InnermostNext
  <2>2. CaughtView(m)' /\ m \in 1..n /\ frames'[m].fn = "catch" /\ CatchFrames' \in SUBSET Int
    BY <1>1, <1>5, <2>1 DEF CatchFrames
  <2>3. Promise!LastOf(Promise!Catches) = m
    <3>1. PICK S : S = CatchFrames'
      OBVIOUS
    <3> QED
      BY <1>4, <2>1, <2>2, <3>1, LastIs
  <2>4. ContextsNow' = Contexts(m - 1)
    <3>1. PICK k : k = m - 1
      OBVIOUS
    <3>2. k \in 0..n
      BY <1>1, <2>2, <3>1
    <3>3. Contexts(k)' = Contexts(k)
      BY <1>1, <3>2, KeptContexts
    <3>4. ContextsNow' = Contexts(k)'
      BY <2>2, <3>1 DEF CaughtView, View, Contexts
    <3> QED
      BY <3>1, <3>3, <3>4
  <2>5. SubSeq(ContextsNow, 1, m - 1) = Contexts(m - 1)
    BY <1>1, <2>2, ContextsPrefix
  <2>6. CallsNow' = ContextsNow[m].calls
    BY <1>2, <1>3, <2>2 DEF CaughtView, View
  <2>7. DepthNow' = ContextsNow[m].depth + 1
    <3>1. frames'[m].copy.data = frames[m].copy.data
      BY <2>2 DEF Same
    <3>2. ContextOf(m).depth = frames[m].copy.data
      BY <1>2, <2>2, ContextShape
    <3> QED
      BY <1>3, <2>2, <3>1, <3>2 DEF CaughtView, View
  <2> QED
    BY <1>3, <1>4, <1>5, <1>7, <2>3, <2>4, <2>5, <2>6, <2>7 DEF Promise!Throw
<1> QED
  BY <1>6, <1>7

(* A parsing word runs out of the text of the host. *)
LEMMA WaitPromise ==
    ASSUME IInv, IInv', frames # << >>, thrown = None, thrown' = "restart", UNCHANGED <<cells, result>>,
           Depth = 1, frames[1].fn = "string", TopsOf(vm)' = TopsOf(vm)
    PROVE  Promise!Wait
<1>1. RunningView /\ WaitingView'
  BY SeenRunning, SeenNext DEF Waiting
<1>2. ContextsNow = <<[kind |-> "string", calls |-> <<None>>, depth |-> 0]>>
  <2>1. ContextOf(1) = [kind |-> "string", calls |-> <<None>>, depth |-> 0]
    BY DEF ContextOf
  <2>2. ContextsNow = [i \in 1..1 |-> ContextOf(i)]
    BY <1>1 DEF RunningView, View, Contexts
  <2> QED
    BY <2>1, <2>2
<1>3. Len(ContextsNow) = 1
  BY <1>2
<1>4. CallsOf(TopsOf(vm))' = CallsOf(TopsOf(vm)) /\ vm'.data = vm.data
  BY DEF CallsOf, TopsOf
<1>5. /\ ContextsNow' = ContextsNow /\ CallsNow' = CallsNow /\ DepthNow' = DepthNow
      /\ StatusNow = "running" /\ StatusNow' = "waiting"
  BY <1>1, <1>2, <1>4 DEF RunningView, WaitingView, View
<1> QED
  BY <1>3, <1>5 DEF Promise!Wait

(* The host hears of it. *)
LEMMA TellPromise ==
    ASSUME IInv, IInv', thrown = "restart", Idle', vm'.restart, UNCHANGED cells,
           TopsOf(vm)' = TopsOf(vm), result'.code = "out_of_text"
    PROVE  Promise!Tell
<1>1. WaitingView /\ WaitingView'
  BY SeenWaiting, SeenNext DEF Waiting
<1>2. CallsOf(TopsOf(vm))' = CallsOf(TopsOf(vm)) /\ vm'.data = vm.data
  BY DEF CallsOf, TopsOf
<1>3. /\ ContextsNow' = ContextsNow /\ CallsNow' = CallsNow /\ DepthNow' = DepthNow
      /\ StatusNow = "waiting" /\ StatusNow' = "waiting"
  BY <1>1, <1>2 DEF WaitingView, View
<1>4. thrown' = None
  BY DEF Idle
<1> QED
  BY <1>3, <1>4 DEF Promise!Tell, Promise!NoCode, None

(* The outermost frame gives the host its code. *)
LEMMA ArriveHostPromise ==
    ASSUME IInv, IInv', thrown \in Ends \cup Unwinds, Depth = 1, frames[1].fn # "catch",
           Idle', ~vm'.restart, result'.code = thrown
    PROVE  Promise!Arrive
<1>1. IdleView' /\ thrown' = None /\ thrown # "restart"
  BY SeenNext DEF Idle, Ends, Unwinds
<1>2. ContextOf(1).calls = <<None>>
  BY DEF ContextOf
<1>3. /\ ContextsNow = << >> /\ CallsNow = <<None>>
      /\ StatusNow \in {"finishing", "unwinding"}
  <2>1. CASE thrown \in Ends
    <3>1. EndingView
      BY <2>1, SeenEnding
    <3>2. Contexts(0) = << >>
      BY FrameTypes, ContextsShape DEF IInv
    <3> QED
      BY <1>2, <3>1, <3>2 DEF EndingView, View
  <2>2. CASE thrown \in Unwinds
    <3>1. CatchFrames = {}
      BY DEF CatchFrames
    <3>2. LostView
      BY <2>2, <3>1, SeenThrown
    <3> QED
      BY <1>2, <3>2 DEF LostView, View
  <2> QED
    BY <2>1, <2>2
<1>4. ContextsNow' = << >> /\ CallsNow' = <<None>> /\ StatusNow' = "idle" /\ DepthNow' \in Nat
  BY <1>1, DepthTypesNext DEF IdleView, View
<1> QED
  BY <1>1, <1>3, <1>4 DEF Promise!Arrive, Promise!NoCode, None

(* The frame below goes on where it was. *)
LEMMA ArrivePromise ==
    ASSUME IInv, IInv', NEW d, d = Depth, d > 1, thrown' = None, UNCHANGED <<cells, result>>,
           NEW e, e = d - 1, Depth' = e, Same(e),
           vm'.ip = Caller(d), vm'.return = Base(d),
           ContextsNow = Contexts(e), CallsNow = ContextOf(d).calls,
           StatusNow \in {"finishing", "unwinding"}, StatusNow = "unwinding" => vm'.data = DepthNow
    PROVE  Promise!Arrive
<1>1. /\ d \in Nat /\ e \in Nat /\ e # 0 /\ e \in 0..Depth /\ e \in 0..e /\ d # 1
      /\ TypeOK /\ Segments /\ frames' # << >>
  <2>1. d \in Nat /\ e \in Nat /\ e # 0
    BY FrameTypes DEF IInv
  <2> QED
    BY <2>1, EmptySeq DEF Depth, IInv
<1>2. RunningView'
  BY <1>1, SeenNext
<1>3. Contexts(e)' = Contexts(e) /\ Contexts(e) # << >>
  BY <1>1, KeptContexts, ContextsShape
<1>4. CallsOf(TopsOf(vm))' = ContextOf(d).calls
  BY <1>1 DEF ContextOf, CallsOf, TopsOf, Caller, Base
<1>5. ContextsNow' = ContextsNow /\ CallsNow' = CallsNow /\ StatusNow' = "running" /\ DepthNow' = vm'.data
  BY <1>2, <1>3, <1>4 DEF RunningView, View, Contexts
<1> QED
  BY <1>3, <1>5, DepthTypesNext DEF Promise!Arrive, Promise!NoCode, None

(* A handler that is no CATCH passes the code on. *)
LEMMA PassPromise ==
    ASSUME IInv, IInv', NEW d, d = Depth, d > 1, thrown \in Unwinds, UNCHANGED <<thrown, cells, result>>,
           NEW e, e = d - 1, Depth' = e, Same(e), \A i \in 1..e : frames'[i].local = frames[i].local,
           frames[d].fn # "catch"
    PROVE  UNCHANGED Promise!vars
<1>1. /\ d \in Nat /\ e \in Nat /\ e # 0 /\ 1 \in 1..e /\ e \in 0..Depth /\ e \in 0..e
      /\ TypeOK /\ Segments
  BY FrameTypes DEF IInv
<1>2. CatchFrames' = CatchFrames
  <2>1. \A i \in 1..d : i \in 1..e \/ i = d
    BY <1>1
  <2>2. \A i \in 1..e : i \in 1..d /\ frames'[i].fn = frames[i].fn
    BY <1>1 DEF Same
  <2>3. CatchFrames = {i \in 1..d : frames[i].fn = "catch"} /\ CatchFrames' = {i \in 1..e : frames'[i].fn = "catch"}
    BY DEF CatchFrames
  <2> QED
    BY <2>1, <2>2, <2>3
<1>3. \A i \in 1..e : ContextOf(i)' = ContextOf(i)
  BY <1>1, KeptContexts
<1>4. /\ StatusNow = "unwinding" /\ StatusNow' = "unwinding"
      /\ ContextsNow' = ContextsNow /\ CallsNow' = CallsNow /\ DepthNow' = DepthNow
  <2>1. CASE CatchFrames = {}
    <3>1. LostView /\ LostView'
      BY <1>2, <2>1, SeenThrown, SeenNext
    <3> QED
      BY <1>1, <1>3, <3>1 DEF LostView, View
  <2>2. CASE CatchFrames # {}
    <3>1. PICK m \in CatchFrames : \A j \in CatchFrames : j <= m
      BY <2>2, Innermost
    <3>2. CaughtView(m) /\ CaughtView(m)'
      BY <1>2, <3>1, SeenThrown, SeenNext
    <3>3. m \in 1..e /\ frames'[m].copy = frames[m].copy
      <4>1. CatchFrames' = {i \in 1..e : frames'[i].fn = "catch"}
        BY DEF CatchFrames
      <4> QED
        BY <1>2, <3>1, <4>1 DEF Same
    <3>4. Contexts(m - 1)' = Contexts(m - 1)
      <4>1. PICK k : k = m - 1
        OBVIOUS
      <4>2. k \in 0..e
        BY <1>1, <3>3, <4>1
      <4>3. Contexts(k)' = Contexts(k)
        BY <1>1, <4>2, KeptContexts
      <4> QED
        BY <4>1, <4>3 DEF Contexts
    <3> QED
      BY <1>3, <3>2, <3>3, <3>4 DEF CaughtView, View, Contexts
  <2> QED
    BY <2>1, <2>2
<1> QED
  BY <1>4 DEF Promise!vars

(* Nothing has happened. *)
LEMMA StutterPromise ==
    ASSUME UNCHANGED vars
    PROVE  UNCHANGED Promise!vars
<1>1. /\ vm' = vm /\ cells' = cells /\ frames' = frames /\ thrown' = thrown /\ result' = result
  BY DEF vars
<1>2. Waiting' = Waiting /\ Landing' = Landing /\ CatchFrames' = CatchFrames /\ Depth' = Depth
  BY <1>1 DEF Waiting, Idle, Landing, CatchFrames, Depth
<1>3. StatusNow' = StatusNow /\ DepthNow' = DepthNow
  BY <1>1, <1>2 DEF StatusNow, DepthNow
<1>4. \A i : ContextOf(i)' = ContextOf(i)
  BY <1>1 DEF ContextOf, CallsOf
<1>5. ContextsNow' = ContextsNow
  BY <1>1, <1>2, <1>4 DEF ContextsNow
<1>6. CallsNow' = CallsNow
  BY <1>1, <1>2, <1>4 DEF CallsNow, Idle, LeftByBye, LeftByXT, TopsOf, CallsOf, Top, Depth
<1> QED
  BY <1>1, <1>3, <1>5, <1>6 DEF Promise!vars

-----------------------------------------------------------------------------
(* The kinds of step *)

(* A step that keeps the invariant and is one of the promise, or none. *)
Sound == IInv' /\ [Promise!Next]_(Promise!vars)

\* A step of the VM is sound when the promise takes one of its own or none.
LEMMA SoundStep ==
    ASSUME IInv',
           \/ Promise!Start \/ Promise!Work \/ Promise!Enter \/ Promise!Finish \/ Promise!Throw
           \/ Promise!Arrive \/ Promise!Wait \/ Promise!Tell \/ Promise!GoOn
           \/ UNCHANGED Promise!vars
    PROVE  Sound
BY DEF Sound, Promise!Next

(* The program goes on inside the top frame. *)
LEMMA StayStep ==
    ASSUME IInv, Running,
           UNCHANGED <<frames, thrown, result>>,
           vm' \in Vms, cells' \in Memory, open' \in BOOLEAN,
           vm'.handler = vm.handler, vm'.tib = vm.tib, vm'.sourceId = vm.sourceId,
           vm'.restart = vm.restart,
           vm'.state = "compile" => open',
           \A k \in 1..Base(Depth) + 1 : cells'[k] = cells[k],
           Path(cells', Top.fn, Base(Depth), TopsOf(vm'))
    PROVE  Sound
<1>0. TypeOK /\ Segments
  BY DEF IInv
<1>1. TypeOK'
  BY <1>0 DEF TypeOK, Memory
<1>2. Depth \in Nat /\ Depth' = Depth /\ Same(Depth) /\ Depth' \in 0..Depth
  BY <1>0, FrameTypes DEF Same, Depth
<1>3. /\ \A i \in 1..Depth : frames'[i].copy.handler = i - 1
      /\ \A i \in 1..Depth : TextAt(i)'
      /\ \A i \in 1..Depth : CopyAt(i)'
  BY <1>0, <1>2, KeptFrames DEF IInv
<1>4. Chain'
  BY <1>2, <1>3 DEF IInv, Chain
<1>5. Texts'
  <2>1. InnermostText(vm.tib, Depth) /\ vm.tib \in 0..Depth /\ vm.sourceId = SourceId(vm.tib)
    BY DEF IInv, Texts, TextOfInnermost, InnermostText
  <2>2. TextOfInnermost'
    BY <1>2, <2>1, KeptText DEF TextOfInnermost
  <2> QED
    BY <1>2, <1>3, <2>2 DEF Texts
<1>6. Copies'
  BY <1>2, <1>3 DEF Copies
<1>7. /\ \A i \in 1..Depth : i # Depth => Now(i)' = Now(i)
      /\ Now(Depth)' = TopsOf(vm')
  BY <1>2, RunningFacts DEF Now, TopsOf
<1>8. Segments'
  <2>1. ASSUME NEW i \in 1..Depth, i # Depth
        PROVE  SegmentAt(i)'
    <3>1. Now(i).return <= Base(Depth)
      BY <1>0, <2>1, BaseAbove
    <3>2. \A k \in 1..Now(i).return : cells'[k] = cells[k]
      BY <1>0, <3>1, NowTypes, RunningFacts DEF Tops
    <3> QED
      BY <1>0, <1>1, <1>2, <1>7, <2>1, <3>2, KeptSegment DEF Segments
  <2>2. SegmentAt(Depth)'
    <3>1. Base(Depth)' = Base(Depth) /\ Caller(Depth)' = Caller(Depth)
      BY <1>2, KeptBase, RunningFacts
    <3>2. cells[Base(Depth) + 1] = Caller(Depth)
      BY RunningFacts DEF IInv, Segments, SegmentAt
    <3>3. cells'[Base(Depth) + 1] = cells[Base(Depth) + 1]
      BY <1>0, NowTypes, RunningFacts
    <3> QED
      BY <1>2, <1>7, <3>1, <3>2, <3>3 DEF SegmentAt, Path, Address, Top
  <2>3. ASSUME NEW i \in 1..Depth, NEW j \in 1..Depth, i < j
        PROVE  Now(i)'.return < Now(j)'.return
    <3>1. CASE j # Depth
      BY <1>2, <1>7, <2>3, <3>1 DEF IInv, Segments
    <3>2. CASE j = Depth
      <4>1. i # Depth /\ Now(i).return <= Base(Depth)
        BY <1>0, <1>2, <2>3, <3>2, BaseAbove
      <4>2. Base(Depth) < TopsOf(vm').return
        BY DEF Path
      <4>3. Now(i).return \in Nat /\ Base(Depth) \in Nat /\ TopsOf(vm').return \in Nat
        BY <1>0, NowTypes, RunningFacts DEF Tops, TopsOf, Vms
      <4>4. Now(i)' = Now(i) /\ Now(j)' = TopsOf(vm')
        BY <1>2, <1>7, <3>2, <4>1
      <4> QED
        BY <4>1, <4>2, <4>3, <4>4
    <3> QED
      BY <3>1, <3>2
  <2> QED
    BY <1>2, <2>1, <2>2, <2>3 DEF Segments
<1>9. Reruns' /\ RestartAtHost' /\ CompilingIsOpen'
  BY <1>2, RunningFacts DEF Reruns, RestartAtHost, CompilingIsOpen
<1>10. Thrown' /\ HostReady'
  BY RunningFacts DEF Thrown, HostReady, Idle, Running, None
<1>20. IInv'
  BY <1>1, <1>4, <1>5, <1>6, <1>8, <1>9, <1>10 DEF IInv
<1>21. \A i \in 1..Depth : ContextOf(i)' = ContextOf(i)
  <2>1. \A k \in 1..Base(Depth) : cells'[k] = cells[k]
    BY <1>0, NowTypes, RunningFacts
  <2>2. PICK d : d = Depth
    OBVIOUS
  <2>3. d \in 0..Depth /\ d \in 0..d /\ Same(d)
    BY <1>2, <2>2
  <2> QED
    BY <1>0, <2>1, <2>2, <2>3, KeptContexts
<1>22. Promise!Work
  BY <1>2, <1>20, <1>21, WorkPromise DEF Running
<1> QED
  BY <1>20, <1>22, SoundStep

(* A primitive throws. *)
LEMMA ThrowStep ==
    ASSUME IInv, Running, NEW code \in Codes, NEW word \in Primitives, Throws(code, word),
           code = "restart" => Depth = 1 /\ Top.fn = "string" /\ word \in Parsing,
           code = "out_of_text" => vm.ip = Loop,
           code = "inner_exit" => vm.ip = Pill /\ vm.data < DataSize
    PROVE  Sound
<1>0. TypeOK /\ Segments /\ vm \in Vms
  BY FrameTypes DEF IInv
<1>1. /\ frames' \in Seq(Frames) /\ Depth' = Depth /\ Same(Depth) /\ Depth \in Nat
      /\ frames'[Depth].local = TopsOf(vm) /\ frames # << >>
  BY <1>0, CallingSame, RunningFacts DEF Throws, Running
<1>2. /\ vm' = [vm EXCEPT !.runningWord = word] /\ vm' \in Vms
      /\ thrown' = code /\ code # None
      /\ cells' = cells /\ open' = open /\ result' = result
  BY <1>0 DEF Throws, Vms, Codes, UserCodes, None
<1>3. TypeOK'
  BY <1>0, <1>1, <1>2 DEF TypeOK, Depth
<1>4. /\ \A i \in 1..Depth : frames'[i].copy.handler = i - 1
      /\ \A i \in 1..Depth : TextAt(i)'
      /\ \A i \in 1..Depth : CopyAt(i)'
  BY <1>0, <1>1, KeptFrames DEF IInv
<1>5. Chain'
  BY <1>0, <1>1, <1>2, <1>4 DEF IInv, Chain, Vms
<1>6. Texts'
  <2>1. InnermostText(vm.tib, Depth) /\ vm.tib \in 0..Depth /\ vm.sourceId = SourceId(vm.tib)
    BY DEF IInv, Texts, TextOfInnermost, InnermostText
  <2>2. vm'.tib = vm.tib /\ vm'.sourceId = vm.sourceId
    BY <1>0, <1>2 DEF Vms
  <2>3. TextOfInnermost'
    BY <1>1, <2>1, <2>2, KeptText DEF TextOfInnermost
  <2> QED
    BY <1>1, <1>4, <2>3 DEF Texts
<1>7. Copies'
  BY <1>1, <1>4 DEF Copies
<1>8. \A i \in 1..Depth : ~frames'[i].rerun
  BY <1>1, RunningFacts DEF Same
<1>9. \A i \in 1..Depth : Now(i)' = Now(i)
  <2>1. \A i \in 1..Depth : Now(i)' = frames'[i].local
    BY <1>2, <1>8 DEF Now
  <2>2. \A i \in 1..Depth : i # Depth => frames'[i].local = frames[i].local
    BY <1>1 DEF Same
  <2> QED
    BY <1>1, <2>1, <2>2, RunningFacts
<1>10. Segments'
  <2>1. ASSUME NEW i \in 1..Depth PROVE SegmentAt(i)'
    BY <1>0, <1>1, <1>2, <1>3, <1>9, KeptSegment DEF Segments
  <2> QED
    BY <1>0, <1>1, <1>9, <2>1 DEF Segments
<1>11. Reruns' /\ RestartAtHost' /\ CompilingIsOpen'
  BY <1>0, <1>1, <1>2, <1>8, RunningFacts DEF IInv, Reruns, RestartAtHost, CompilingIsOpen, Vms
<1>12. Thrown'
  <2>1. Depth' \in 1..Depth /\ Top' = frames'[Depth] /\ Top'.local = TopsOf(vm) /\ Top'.fn = Top.fn
    BY <1>1, RunningFacts DEF Top, Same
  <2>2. frames' # << >> /\ ~Top'.rerun
    BY <1>1, <1>8, <2>1, RunningFacts DEF Depth
  <2>3. vm'.runningWord = word
    BY <1>0, <1>2 DEF Vms
  <2> QED
    BY <1>1, <1>2, <2>1, <2>2, <2>3 DEF Thrown, TopsOf
<1>13. HostReady'
  BY <1>0, <1>1, <1>2, RunningFacts DEF HostReady, Idle, Vms, Depth
<1>20. IInv'
  BY <1>3, <1>5, <1>6, <1>7, <1>10, <1>11, <1>12, <1>13 DEF IInv
<1>21. CASE code = "restart"
  <2>1. Depth = 1 /\ frames[1].fn = "string" /\ TopsOf(vm)' = TopsOf(vm)
    BY <1>0, <1>2, <1>21 DEF Top, TopsOf, Vms
  <2>2. Promise!Wait
    BY <1>1, <1>2, <1>20, <1>21, <2>1, RunningFacts, WaitPromise
  <2> QED
    BY <1>20, <2>2, SoundStep
<1>22. CASE code \in Ends
  <2>1. PICK d : d = Depth
    OBVIOUS
  <2>2. Promise!Finish
    BY <1>1, <1>2, <1>20, <1>22, <2>1, RunningFacts, FinishPromise
  <2> QED
    BY <1>20, <2>2, SoundStep
<1>23. CASE code \in Unwinds
  <2>1. PICK d : d = Depth
    OBVIOUS
  <2>2. ContextsNow = Contexts(d) /\ StatusNow = "running"
    BY <1>1, <2>1, SeenRunning, RunningFacts DEF RunningView, View
  <2>3. d \in 1..Depth
    BY <2>1, RunningFacts
  <2>4. Promise!Throw
    BY <1>1, <1>2, <1>20, <1>23, <2>1, <2>2, <2>3, ThrowPromise
  <2> QED
    BY <1>20, <2>4, SoundStep
<1> QED
  BY <1>21, <1>22, <1>23 DEF Ends, Unwinds

(* A primitive that has brought the VM to `at` enters a frame whose loop      *)
(* starts at `start`.                                                        *)
SetsUp(d, fn, at, start) ==
    /\ at.ip = vm.ip /\ at.return = vm.return
    /\ at.tib = vm.tib /\ at.sourceId = vm.sourceId
    /\ at.state = vm.state /\ at.restart = vm.restart /\ at.handler = vm.handler
    /\ fn = "catch" => at.state = "interpret" /\ at.data < DataSize
    /\ start.handler = d + 1 /\ start.state = vm.state /\ start.restart = vm.restart
    /\ start.tib = IF fn = "string" THEN d + 1 ELSE vm.tib
    /\ start.sourceId = IF fn = "string" THEN -1 ELSE vm.sourceId
    /\ start.data = at.data

PushesPath(fn, start) ==
    /\ Path(cells', fn, vm.return, TopsOf(start))
    /\ cells'[vm.return + 1] = vm.ip
    /\ \A k \in 1..vm.return : cells'[k] = cells[k]

Enters(fn, at, new) ==
    /\ new.fn = fn /\ new.copy = Saved(fn, at) /\ new.evaluated = (fn = "string") /\ ~new.rerun
    /\ frames' = Append(Calling, new)

\* A text, a word or a CATCH is entered: the invariant holds and the promise enters it too.
LEMMA EnterStep ==
    ASSUME IInv, Running, NEW d, d = Depth, d < MaxFrames,
           NEW fn \in {"string", "xt", "catch"}, NEW at \in Vms, NEW start \in Vms,
           NEW new \in Frames,
           Enters(fn, at, new), SetsUp(d, fn, at, start), PushesPath(fn, start),
           vm' = start, cells' \in Memory, UNCHANGED <<thrown, open, result>>
    PROVE  Sound
<1>0. TypeOK /\ Segments /\ vm \in Vms /\ frames # << >>
  BY FrameTypes DEF IInv, Running
<1>1. d \in Nat /\ d \in 1..d
  BY RunningFacts
<1>2. /\ frames' \in Seq(Frames) /\ Depth' = d + 1 /\ Same(d)
      /\ frames'[d].local = TopsOf(vm) /\ frames'[d + 1] = new
  BY <1>0, EnteredFrames DEF Enters
<1>3. TypeOK'
  BY <1>0, <1>1, <1>2, BoundsAssumption DEF TypeOK, Depth, Memory
<1>4. /\ \A i \in 1..d : frames'[i].copy.handler = i - 1
      /\ \A i \in 1..d : TextAt(i)'
      /\ \A i \in 1..d : CopyAt(i)'
  <2>1. d \in 0..Depth
    BY <1>1
  <2> QED
    BY <1>0, <1>2, <2>1, KeptFrames DEF IInv
<1>5. Chain'
  <2>0. vm'.handler = d + 1
    BY DEF SetsUp
  <2>1. frames'[d + 1].copy.handler = d
    BY <1>2, SavedTypes DEF IInv, Chain, Enters, SetsUp
  <2> QED
    <3>1. \A i \in 1..d + 1 : i \in 1..d \/ i = d + 1
      BY <1>1
    <3>2. \A i \in 1..d + 1 : frames'[i].copy.handler = i - 1
      BY <1>1, <1>4, <2>1, <3>1
    <3> QED
      BY <1>2, <2>0, <3>2 DEF Chain
<1>6. \A i \in 1..d : frames'[i].fn = frames[i].fn
  BY <1>2 DEF Same
<1>7. PICK s \in 0..d : s = vm.tib
  BY DEF IInv, Texts, TextOfInnermost, InnermostText
<1>8. /\ InnermostText(s, d)' /\ SourceId(s)' = vm.sourceId
  BY <1>1, <1>2, <1>7, KeptText DEF IInv, Texts, TextOfInnermost
<1>9. Texts'
  <2>1. TextOfInnermost'
    <3>1. CASE fn = "string"
      <4>0. frames'[d + 1].fn = "string" /\ frames'[d + 1].evaluated
        BY <1>2, <3>1 DEF Enters
      <4>1. InnermostText(d + 1, d + 1)'
        BY <1>1, <4>0 DEF InnermostText
      <4>2. SourceId(d + 1)' = -1
        BY <1>1, <4>0 DEF SourceId
      <4>3. vm'.tib = d + 1 /\ vm'.sourceId = -1
        BY <3>1 DEF SetsUp
      <4> QED
        BY <1>2, <4>1, <4>2, <4>3 DEF TextOfInnermost
    <3>2. CASE fn # "string"
      <4>1. InnermostText(s, d + 1)'
        <5>1. frames'[d + 1].fn # "string"
          BY <1>2, <3>2 DEF Enters
        <5> QED
          BY <1>1, <1>8, <5>1 DEF InnermostText
      <4>2. vm'.tib = s /\ vm'.sourceId = vm.sourceId
        BY <1>7, <3>2 DEF SetsUp
      <4> QED
        BY <1>2, <1>8, <4>1, <4>2 DEF TextOfInnermost
    <3> QED
      BY <3>1, <3>2
  <2>2. ASSUME NEW e, e = d + 1 PROVE TextAt(e)'
    <3>1. /\ frames'[e].fn = fn /\ frames'[e].copy = Saved(fn, at)
          /\ frames'[e].evaluated = (fn = "string")
      BY <1>2, <2>2 DEF Enters
    <3>2. fn # "xt" => Saved(fn, at).tib = s /\ Saved(fn, at).sourceId = vm.sourceId
      BY <1>7, SavedTypes DEF SetsUp
    <3>3. InnermostText(s, e - 1)'
      BY <1>1, <1>8, <2>2
    <3> QED
      BY <1>8, <3>1, <3>2, <3>3 DEF TextAt
  <2> QED
    BY <1>1, <1>2, <1>4, <2>1, <2>2 DEF Texts
<1>10. Base(d + 1)' = vm.return /\ Caller(d + 1)' = vm.ip
  <2>1. frames'[d].local.return = vm.return /\ frames'[d].local.ip = vm.ip
    BY <1>2 DEF TopsOf
  <2>2. ASSUME NEW e, e = d + 1
        PROVE  Base(e)' = frames'[d].local.return /\ Caller(e)' = frames'[d].local.ip
    <3>1. e # 1 /\ e - 1 = d
      BY <1>1, <2>2
    <3> QED
      BY <3>1 DEF Base, Caller
  <2> QED
    BY <2>1, <2>2
<1>11. Copies'
  <2>1. CopyAt(d + 1)'
    BY <1>1, <1>2, <1>10, SavedTypes, RunningFacts DEF CopyAt, Enters, SetsUp
  <2> QED
    BY <1>1, <1>2, <1>4, <2>1 DEF Copies
<1>12. \A i \in 1..d + 1 : ~frames'[i].rerun
  <2>1. \A i \in 1..d : ~frames'[i].rerun
    BY <1>2, RunningFacts DEF Same
  <2>2. ~frames'[d + 1].rerun
    BY <1>2 DEF Enters
  <2> QED
    BY <1>1, <2>1, <2>2
<1>13. \A i \in 1..d : Now(i)' = Now(i)
  <2> SUFFICES ASSUME NEW i \in 1..d PROVE Now(i)' = Now(i)
    OBVIOUS
  <2>1. Now(i)' = frames'[i].local
    <3>1. i # Depth'
      BY <1>1, <1>2
    <3> QED
      BY <3>1 DEF Now
  <2>2. i # d => frames'[i].local = frames[i].local
    BY <1>1, <1>2 DEF Same
  <2> QED
    BY <1>2, <2>1, <2>2, RunningFacts
<1>14. Now(d + 1)' = TopsOf(start)
  BY <1>2, RunningFacts DEF Now, TopsOf
<1>15. Segments'
  <2>1. Now(d).return = vm.return /\ vm.return \in Nat /\ TopsOf(start).return \in Nat
    BY <1>0, RunningFacts DEF TopsOf, Vms
  <2>2. \A i \in 1..d : Now(i).return \in Nat /\ Now(i).return <= vm.return
    <3>1. ASSUME NEW i \in 1..d, i # d PROVE Now(i).return < Now(d).return
      BY <1>0, <1>1, <3>1 DEF Segments
    <3>2. \A i \in 1..d : Now(i).return \in Nat
      BY <1>0, NowTypes DEF Tops
    <3> QED
      BY <1>1, <2>1, <3>1, <3>2
  <2>3. ASSUME NEW i \in 1..d PROVE SegmentAt(i)'
    <3>1. \A k \in 1..Now(i).return : cells'[k] = cells[k]
      BY <2>1, <2>2 DEF PushesPath
    <3>2. i <= Depth /\ i <= Depth'
      BY <1>1, <1>2
    <3> QED
      BY <1>0, <1>1, <1>2, <1>3, <1>13, <3>1, <3>2, KeptSegment DEF Segments
  <2>4. SegmentAt(d + 1)'
    BY <1>2, <1>10, <1>14 DEF SegmentAt, Path, Address, PushesPath, Enters
  <2>5. ASSUME NEW i \in 1..d + 1, NEW j \in 1..d + 1, i < j
        PROVE  Now(i)'.return < Now(j)'.return
    <3>1. CASE j # d + 1
      <4>1. i \in 1..d /\ j \in 1..d
        BY <1>1, <2>5, <3>1
      <4> QED
        BY <1>0, <1>13, <2>5, <4>1 DEF Segments
    <3>2. CASE j = d + 1
      <4>1. vm.return < TopsOf(start).return
        BY DEF Path, PushesPath
      <4>2. Now(i)' = Now(i) /\ Now(j)' = TopsOf(start) /\ i \in 1..d
        BY <1>1, <1>13, <1>14, <2>5, <3>2
      <4> QED
        BY <2>1, <2>2, <4>1, <4>2
    <3> QED
      BY <3>1, <3>2
  <2> QED
    BY <1>1, <1>2, <2>3, <2>4, <2>5 DEF Segments
<1>16. Reruns' /\ RestartAtHost' /\ CompilingIsOpen'
  BY <1>2, <1>12, RunningFacts DEF IInv, Reruns, RestartAtHost, CompilingIsOpen, SetsUp
<1>17. Thrown' /\ HostReady'
  <2>1. frames' # << >>
    BY <1>1, <1>2 DEF Depth
  <2> QED
    BY <2>1, RunningFacts DEF Thrown, HostReady, Idle, None, SetsUp
<1>20. IInv'
  BY <1>3, <1>5, <1>9, <1>11, <1>15, <1>16, <1>17 DEF IInv
<1>21. frames'[d + 1].fn = "catch" => frames'[d + 1].copy.data = vm'.data
  <2>1. new.fn = fn /\ new.copy = Saved(fn, at) /\ vm'.data = at.data
    BY DEF Enters, SetsUp
  <2> QED
    BY <1>2, <2>1, SavedTypes
<1>22. Promise!Enter
  <2>1. thrown = None /\ \A k \in 1..vm.return : cells'[k] = cells[k]
    BY RunningFacts DEF PushesPath
  <2> QED
    BY <1>0, <1>2, <1>20, <1>21, <2>1, EnterPromise
<1> QED
  BY <1>20, <1>22, SoundStep

(* A call of the host enters the outermost frame. *)
LEMMA HostStep ==
    ASSUME IInv, Idle, NEW fn \in {"string", "xt"}, NEW start \in Vms, NEW new \in Frames,
           new.fn = fn, new.copy = Saved(fn, vm), new.rerun => fn = "string",
           vm.restart <=> new.rerun, new.evaluated => fn = "string",
           frames' = <<new>>, vm' = start, cells' \in Memory, UNCHANGED <<thrown, open, result>>,
           start.handler = 1, start.state = vm.state, start.restart = vm.restart,
           start.runningWord = vm.runningWord,
           start.tib = IF fn = "string" THEN 1 ELSE vm.tib,
           start.sourceId = IF new.evaluated THEN -1 ELSE vm.sourceId,
           start.data = vm.data,
           vm.restart => cells' = cells /\ start.ip = vm.ip /\ start.return = vm.return,
           Path(cells', fn, 0, TopsOf(start)), cells'[1] = None
    PROVE  Sound
<1>0. TypeOK /\ vm \in Vms /\ frames = << >> /\ thrown = None /\ Depth = 0
  BY FrameTypes DEF IInv, Idle
<1>1. frames' \in Seq(Frames) /\ Depth' = 1 /\ frames'[1] = new /\ frames' # << >>
  BY DEF Depth
<1>2. TypeOK'
  BY <1>0, <1>1, BoundsAssumption DEF TypeOK, Depth, Memory
<1>3. vm.handler = 0 /\ vm.tib = 0 /\ vm.sourceId = 0
  BY <1>0 DEF IInv, Chain, Texts, TextOfInnermost, InnermostText, SourceId
<1>4. /\ Saved(fn, vm).handler = 0
      /\ fn = "string" => Saved(fn, vm).tib = 0 /\ Saved(fn, vm).sourceId = 0
  BY <1>0, <1>3, SavedTypes
<1>5. Chain'
  BY <1>1, <1>4 DEF Chain
<1>6. Texts'
  <2>1. TextOfInnermost'
    BY <1>1, <1>3 DEF TextOfInnermost, InnermostText, SourceId
  <2>2. TextAt(1)'
    BY <1>1, <1>4 DEF TextAt, InnermostText, SourceId
  <2> QED
    BY <1>1, <2>1, <2>2 DEF Texts
<1>7. Copies'
  BY <1>1 DEF Copies, CopyAt
<1>8. Segments'
  <2>1. Now(1)' = TopsOf(start) /\ Base(1)' = 0 /\ Caller(1)' = None
    BY <1>0, <1>1 DEF Now, Base, Caller, TopsOf
  <2>2. SegmentAt(1)'
    BY <1>1, <2>1 DEF SegmentAt, Path, Address
  <2> QED
    BY <1>1, <2>2 DEF Segments
<1>9. Reruns' /\ RestartAtHost' /\ CompilingIsOpen'
  <2>1. Reruns'
    BY <1>1 DEF Reruns
  <2>2. RestartAtHost'
    BY <1>1 DEF RestartAtHost, Top
  <2>3. CompilingIsOpen'
    BY DEF IInv, CompilingIsOpen
  <2> QED
    BY <2>1, <2>2, <2>3
<1>10. Thrown' /\ HostReady'
  BY <1>0, <1>1 DEF IInv, Thrown, HostReady, Idle, None
<1>20. IInv'
  BY <1>2, <1>5, <1>6, <1>7, <1>8, <1>9, <1>10 DEF IInv
<1>21. CASE vm.restart
  <2>1. cells' = cells /\ vm'.data = vm.data /\ vm'.ip = vm.ip /\ vm'.return = vm.return /\ frames'[1].fn = "string"
    BY <1>1, <1>21
  <2>2. Promise!GoOn
    BY <1>1, <1>20, <1>21, <2>1, GoOnPromise
  <2> QED
    BY <1>20, <2>2, SoundStep
<1>22. CASE ~vm.restart
  <2>1. Promise!Start
    BY <1>1, <1>20, <1>22, StartPromise
  <2> QED
    BY <1>20, <2>1, SoundStep
<1> QED
  BY <1>21, <1>22

(* What every handler has put back when it gives way to frame d - 1. *)
PutsBack(d, v) ==
    /\ v.handler = d - 1
    /\ InnermostText(v.tib, d - 1) /\ v.sourceId = SourceId(v.tib)
    /\ v.state = "compile" => open'

\* What a handler that puts back all it took leaves to the frames below it.
LEMMA LandedFacts ==
    ASSUME IInv, thrown # None, NEW d, d = Depth, NEW v \in Vms, PutsBack(d, v),
           vm' = v, cells' = cells, open' \in BOOLEAN, result' \in [fn : {"string", "xt"}, code : Codes],
           thrown' \in Codes \cup {None},
           \/ frames' = Below
           \/ d > 1 /\ frames' = [Below EXCEPT ![d - 1].local = NoTops],
           NEW e, e = d - 1
    PROVE  /\ e \in Nat /\ e < d /\ Depth' = e /\ Same(e)
           /\ frames' = << >> <=> e = 0
           /\ TypeOK' /\ Chain' /\ Texts' /\ Copies' /\ CompilingIsOpen'
           /\ \A i \in 1..e : i # e => frames'[i].local = frames[i].local
           /\ frames' = Below /\ e # 0 => frames'[e].local = frames[e].local
<1>1. TypeOK /\ d \in Nat /\ d # 0 /\ e \in 0..Depth /\ e \in Nat /\ frames # << >>
  BY ThrownFacts DEF IInv
<1>2. /\ frames' \in Seq(Frames) /\ Depth' = e /\ Same(e)
      /\ frames' = Below /\ d > 1 => frames'[e].local = frames[e].local
  <2>1. vm.handler = Depth
    BY ThrownFacts
  <2>2. \/ frames' = Below
        \/ Depth > 1 /\ frames' = [Below EXCEPT ![Depth - 1].local = NoTops]
    OBVIOUS
  <2>3. /\ frames' \in Seq(Frames) /\ Depth' = Depth - 1 /\ Same(Depth - 1)
        /\ frames' = Below /\ Depth > 1 => frames'[Depth - 1].local = frames[Depth - 1].local
    BY <1>1, <2>1, <2>2, LandedFrames
  <2> QED
    BY <2>3
<1>3. TypeOK'
  <2>1. Len(frames') <= MaxFrames
    BY <1>1, <1>2, BoundsAssumption DEF TypeOK, Depth
  <2> QED
    BY <1>1, <1>2, <2>1 DEF TypeOK
<1>4. /\ \A i \in 1..e : frames'[i].copy.handler = i - 1
      /\ \A i \in 1..e : TextAt(i)'
      /\ \A i \in 1..e : CopyAt(i)'
  BY <1>1, <1>2, KeptFrames DEF IInv
<1>5. Chain'
  BY <1>2, <1>4 DEF Chain, PutsBack
<1>6. Texts'
  <2>1. PICK s : s = v.tib
    OBVIOUS
  <2>2. InnermostText(s, e) /\ v.sourceId = SourceId(s) /\ s \in 0..e
    BY <2>1 DEF PutsBack, InnermostText
  <2>3. InnermostText(s, e)' /\ SourceId(s)' = v.sourceId
    BY <1>1, <1>2, <2>2, KeptText
  <2>4. TextOfInnermost'
    BY <1>2, <2>1, <2>3 DEF TextOfInnermost
  <2> QED
    BY <1>2, <1>4, <2>4 DEF Texts
<1>7. Copies'
  BY <1>2, <1>4 DEF Copies
<1>8. CompilingIsOpen'
  BY DEF CompilingIsOpen, PutsBack
<1>9. frames' = << >> <=> e = 0
  BY <1>2, EmptySeq DEF Depth
<1> QED
  BY <1>1, <1>2, <1>3, <1>5, <1>6, <1>7, <1>8, <1>9 DEF Same

(* The frames below go on where they were. *)
LEMMA LandedSegments ==
    ASSUME IInv, thrown # None, NEW d, d = Depth, TypeOK', cells' = cells,
           NEW e \in Nat, e = d - 1, Depth' = e, Same(e),
           \A i \in 1..e : Now(i)'.ip = Now(i).ip /\ Now(i)'.return = Now(i).return
    PROVE  Segments'
<1>1. ASSUME NEW i \in 1..e PROVE SegmentAt(i)'
  <2>1. i \in 1..Depth /\ i <= Depth /\ i <= Depth'
    BY ThrownFacts
  <2> QED
    BY <2>1, KeptSegment DEF IInv, Segments
<1>2. ASSUME NEW i \in 1..e, NEW j \in 1..e, i < j PROVE Now(i)'.return < Now(j)'.return
  <2>1. i \in 1..Depth /\ j \in 1..Depth
    BY ThrownFacts
  <2> QED
    BY <1>2, <2>1 DEF IInv, Segments
<1> QED
  BY <1>1, <1>2 DEF Segments

(* What the host has in its hands after the call. *)
HandsBack(d, v) ==
    /\ d > 1 => ~v.restart /\ v.ip = Caller(d) /\ v.return = Base(d)
    /\ d = 1 /\ v.restart => v.runningWord \in Parsing /\ Path(cells, "string", 0, TopsOf(v)) /\ cells[1] = None
    /\ d = 1 /\ v.restart => ~LeftByBye' /\ ~LeftByXT' /\ thrown = "restart" /\ TopsOf(v) = Now(d)
    /\ thrown = "restart" => v.restart
    /\ d > 1 /\ thrown \in Unwinds => Handler.fn = "catch" /\ v.data = Handler.copy.data + 1
    /\ d = 1 /\ ~v.restart /\ MayCall' => v.ip = None /\ v.return = 0

\* A handler returns: control arrives in the promise where the call came from, or at the host.
LEMMA ReturnStep ==
    ASSUME IInv, thrown # None, NEW d, d = Depth, NEW v \in Vms, NEW code \in Codes,
           Return(v, code), PutsBack(d, v), HandsBack(d, v), cells' = cells, open' \in BOOLEAN,
           Handler.fn # "catch" \/ d > 1,
           code = IF thrown = "restart" THEN "out_of_text" ELSE thrown
    PROVE  Sound
<1> DEFINE e == d - 1
<1>1. /\ vm' = v /\ thrown' = None
      /\ d \in Nat /\ d # 0 /\ vm.handler = d
      /\ (Below = << >> <=> d = 1)
  <2>1. vm.handler = d /\ d \in Nat /\ d # 0
    BY ThrownFacts
  <2>2. Below = << >> <=> d = 1
    BY ThrownFacts, BelowFrames DEF IInv
  <2> QED
    BY <2>1, <2>2 DEF Return
<1>2. \/ frames' = Below /\ d = 1
      \/ d > 1 /\ frames' = [Below EXCEPT ![d - 1].local = NoTops]
  <2>1. CASE d = 1
    BY <1>1, <2>1 DEF Return
  <2>2. CASE d # 1
    <3>1. Below # << >>
      BY <1>1, <2>2
    <3>2. frames' = [Below EXCEPT ![vm.handler - 1].local = NoTops]
      BY <3>1, Zenon DEF Return
    <3>3. vm.handler - 1 = d - 1 /\ d > 1
      BY <1>1, <2>2
    <3> QED
      BY <3>2, <3>3, Zenon
  <2> QED
    BY <2>1, <2>2
<1>3. result' \in [fn : {"string", "xt"}, code : Codes]
  <2>1. result \in [fn : {"string", "xt"}, code : Codes]
    BY DEF IInv, TypeOK
  <2>2. Handler.fn \in {"string", "xt", "catch"}
    BY ThrownFacts DEF Frames
  <2>3. CASE d = 1
    <3>1. result' = [fn |-> Handler.fn, code |-> code] /\ Handler.fn # "catch"
      BY <1>1, <2>3 DEF Return
    <3> QED
      BY <2>2, <3>1
  <2>4. CASE d # 1
    <3>1. Below # << >>
      BY <1>1, <2>4
    <3>2. result' = result
      BY <3>1, Zenon DEF Return
    <3> QED
      BY <2>1, <3>2
  <2> QED
    BY <2>3, <2>4
<1>4. /\ e \in Nat /\ e < d /\ d = e + 1 /\ Depth' = e /\ Same(e)
      /\ frames' = << >> <=> e = 0
      /\ TypeOK' /\ Chain' /\ Texts' /\ Copies' /\ CompilingIsOpen'
      /\ \A i \in 1..e : i # e => frames'[i].local = frames[i].local
  <2>1. e = d - 1 /\ d = e + 1
    BY <1>1
  <2>2. /\ thrown' \in Codes \cup {None}
        /\ \/ frames' = Below
           \/ d > 1 /\ frames' = [Below EXCEPT ![d - 1].local = NoTops]
    BY <1>1, <1>2
  <2> HIDE DEF e
  <2>3. /\ e \in Nat /\ e < d /\ Depth' = e /\ Same(e)
        /\ frames' = << >> <=> e = 0
        /\ TypeOK' /\ Chain' /\ Texts' /\ Copies' /\ CompilingIsOpen'
        /\ \A i \in 1..e : i # e => frames'[i].local = frames[i].local
    BY <1>1, <1>3, <2>1, <2>2, LandedFacts
  <2> QED
    BY <2>1, <2>3
<1> HIDE DEF e
<1>5. \A i \in 1..e : Now(i)'.ip = Now(i).ip /\ Now(i)'.return = Now(i).return
  <2>1. ASSUME NEW i \in 1..e, i # e PROVE Now(i)' = Now(i)
    BY <1>4, <2>1, ThrownFacts DEF Now
  <2>2. ASSUME e # 0 PROVE Now(e)'.ip = Now(e).ip /\ Now(e)'.return = Now(e).return
    <3>1. Now(e)' = TopsOf(v)
      BY <1>1, <1>4 DEF Now, TopsOf
    <3>2. Now(e) = frames[e].local
      BY <1>4, <2>2, ThrownFacts
    <3>3. v.ip = frames[e].local.ip /\ v.return = frames[e].local.return
      <4>1. d > 1 /\ d # 1 /\ d - 1 = e
        BY <1>4, <2>2
      <4> QED
        BY <4>1 DEF HandsBack, Caller, Base
    <3> QED
      BY <3>1, <3>2, <3>3 DEF TopsOf
  <2> QED
    BY <1>4, <2>1, <2>2
<1>6. Segments'
  BY <1>1, <1>4, <1>5, LandedSegments DEF e
<1>7. \A i \in 1..e : ~frames'[i].rerun
  <2>1. ASSUME NEW i \in 1..e PROVE ~frames'[i].rerun
    <3>1. frames'[i].rerun = frames[i].rerun /\ i \in 1..Depth /\ Depth # 1
      BY <1>4 DEF Same
    <3> QED
      BY <3>1 DEF IInv, Reruns
  <2> QED
    BY <2>1
<1>8. Reruns' /\ RestartAtHost' /\ Thrown'
  <2>1. Reruns'
    BY <1>4, <1>7 DEF Reruns
  <2>2. RestartAtHost'
    <3>1. e # 0 => ~v.restart
      BY <1>4 DEF HandsBack
    <3> QED
      BY <1>1, <1>4, <3>1 DEF RestartAtHost
  <2>3. Thrown'
    BY <1>1 DEF Thrown, None
  <2> QED
    BY <2>1, <2>2, <2>3
<1>9. HostReady'
  <2>1. e # 0 => ~v.restart
    BY <1>4 DEF HandsBack
  <2>2. e = 0 => d = 1
    BY <1>4
  <2>3. vm' = v /\ cells' = cells /\ (frames' = << >> <=> e = 0)
    BY <1>1, <1>4
  <2>4. CASE e # 0
    BY <2>1, <2>3, <2>4 DEF HostReady, Idle
  <2>5. CASE e = 0
    BY <2>2, <2>3, <2>5 DEF HostReady, HandsBack, Idle, Path, Address, TopsOf
  <2> QED
    BY <2>4, <2>5
<1>20. IInv'
  BY <1>4, <1>6, <1>8, <1>9 DEF IInv
<1>21. /\ Handler = frames[d] /\ d \in 1..Depth /\ thrown \in Codes
       /\ Now(d) = IF Top.rerun THEN TopsOf(vm) ELSE Top.local
  BY ThrownFacts DEF IInv, TypeOK, Top
<1>22. CASE d = 1
  <2>1. Idle' /\ result'.code = code /\ frames[1].fn # "catch"
    BY <1>1, <1>21, <1>22 DEF Return, Idle
  <2>2. CASE v.restart
    <3>1. thrown = "restart" /\ TopsOf(v) = Now(d)
      BY <1>22, <2>2 DEF HandsBack
    <3>2. TopsOf(vm)' = TopsOf(vm)
      <4>1. Top.rerun \/ Top.local = TopsOf(vm)
        BY <3>1 DEF IInv, Thrown
      <4> QED
        BY <1>1, <1>21, <3>1, <4>1 DEF TopsOf
    <3>3. Promise!Tell
      BY <1>1, <1>20, <2>1, <2>2, <3>1, <3>2, TellPromise
    <3> QED
      BY <1>20, <3>3, SoundStep
  <2>3. CASE ~v.restart
    <3>1. thrown \in Ends \cup Unwinds /\ code = thrown
      BY <1>21, <2>3 DEF HandsBack, Ends, Unwinds
    <3>2. Promise!Arrive
      BY <1>1, <1>20, <1>22, <2>1, <2>3, <3>1, ArriveHostPromise
    <3> QED
      BY <1>20, <3>2, SoundStep
  <2> QED
    BY <2>2, <2>3
<1>23. CASE d # 1
  <2>1. d > 1 /\ result' = result /\ e = d - 1
    BY <1>1, <1>23 DEF Return, e
  <2>2. vm'.ip = Caller(d) /\ vm'.return = Base(d) /\ thrown \in Ends \cup Unwinds
    BY <1>1, <1>21, <2>1 DEF HandsBack, Ends, Unwinds, IInv, Thrown
  <2>3. /\ ContextsNow = Contexts(e) /\ CallsNow = ContextOf(d).calls
        /\ StatusNow \in {"finishing", "unwinding"}
        /\ StatusNow = "unwinding" => vm'.data = DepthNow
    <3>1. CASE thrown \in Ends
      BY <2>1, <3>1, SeenEnding DEF EndingView, View
    <3>2. CASE thrown \in Unwinds
      <4>1. frames[d].fn = "catch" /\ vm'.data = frames[d].copy.data + 1
        BY <1>1, <1>21, <2>1, <3>2 DEF HandsBack
      <4>2. d \in CatchFrames /\ \A j \in CatchFrames : j <= d
        BY <1>1, <1>21, <4>1 DEF CatchFrames
      <4> QED
        BY <2>1, <3>2, <4>1, <4>2, SeenThrown DEF CaughtView, View
    <3> QED
      BY <2>2, <3>1, <3>2
  <2>4. Promise!Arrive
    BY <1>1, <1>4, <1>20, <2>1, <2>2, <2>3, ArrivePromise
  <2> QED
    BY <1>20, <2>4, SoundStep
<1> QED
  BY <1>22, <1>23

\* A handler throws on: the promise has passed it already, or throws now.
LEMMA ThrowOnStep ==
    ASSUME IInv, thrown # None, NEW d, d = Depth, d > 1, NEW v \in Vms,
           NEW code \in Unwinds,
           ThrowOn(v, code), PutsBack(d, v), ~v.restart, cells' = cells, open' \in BOOLEAN,
           \/ code = thrown /\ Handler.fn # "catch"
           \/ code = "error_exit" /\ thrown = "inner_exit"
    PROVE  Sound
<1> DEFINE e == d - 1
<1>1. /\ vm' = v /\ thrown' = code /\ code # None /\ frames' = Below /\ result' = result
      /\ d \in Nat /\ d # 0 /\ thrown' \in Codes \cup {None}
      /\ code \notin {"restart", "out_of_text", "inner_exit"}
  BY ThrownFacts DEF ThrowOn, Unwinds, Codes, UserCodes, None
<1>2. result' \in [fn : {"string", "xt"}, code : Codes]
  BY <1>1 DEF IInv, TypeOK
<1>3. /\ e \in Nat /\ e < d /\ Depth' = e /\ Same(e)
      /\ frames' = << >> <=> e = 0
      /\ TypeOK' /\ Chain' /\ Texts' /\ Copies' /\ CompilingIsOpen'
      /\ \A i \in 1..e : i # e => frames'[i].local = frames[i].local
      /\ frames' = Below /\ e # 0 => frames'[e].local = frames[e].local
  BY <1>1, <1>2, LandedFacts
<1>4. e # 0
  BY <1>1
<1> HIDE DEF e
<1>5. \A i \in 1..e : ~frames'[i].rerun
  <2>1. ASSUME NEW i \in 1..e PROVE ~frames'[i].rerun
    <3>1. frames'[i].rerun = frames[i].rerun /\ i \in 1..Depth /\ Depth # 1
      BY <1>1, <1>3 DEF Same
    <3> QED
      BY <3>1 DEF IInv, Reruns
  <2> QED
    BY <2>1
<1>6. \A i \in 1..e : Now(i)' = Now(i)
  BY <1>1, <1>3, <1>5, ThrownFacts DEF Now
<1>7. Segments'
  BY <1>1, <1>3, <1>6, LandedSegments DEF e
<1>8. Reruns' /\ RestartAtHost' /\ Thrown'
  <2>1. Depth' \in 1..e /\ ~Top'.rerun
    BY <1>3, <1>4, <1>5 DEF Top
  <2>2. Reruns'
    BY <1>3, <1>5 DEF Reruns
  <2>3. RestartAtHost'
    BY <1>1 DEF RestartAtHost
  <2>4. Thrown'
    BY <1>1, <1>3, <1>4, <2>1 DEF Thrown
  <2> QED
    BY <2>2, <2>3, <2>4
<1>9. HostReady'
  BY <1>1, <1>3, <1>4 DEF HostReady, Idle
<1>20. IInv'
  BY <1>3, <1>7, <1>8, <1>9 DEF IInv
<1>21. /\ d \in 1..Depth /\ Handler = frames[d] /\ e = d - 1 /\ e \in 1..Depth
       /\ \A i \in 1..e : frames'[i].local = frames[i].local
  BY <1>1, <1>3, <1>4, ThrownFacts DEF Top, e
<1>22. CASE code = thrown /\ Handler.fn # "catch"
  <2>1. UNCHANGED Promise!vars
    BY <1>1, <1>3, <1>20, <1>21, <1>22, PassPromise
  <2> QED
    BY <1>20, <2>1, SoundStep
<1>23. CASE code = "error_exit" /\ thrown = "inner_exit"
  <2>1. ContextsNow = Contexts(e) /\ StatusNow = "finishing"
    BY <1>21, <1>23, SeenEnding DEF Ends, EndingView, View
  <2>2. Promise!Throw
    BY <1>1, <1>3, <1>20, <1>21, <2>1, ThrowPromise
  <2> QED
    BY <1>20, <2>2, SoundStep
<1> QED
  BY <1>22, <1>23

-----------------------------------------------------------------------------
(* The program inside a frame *)

\* The path of the innermost frame while it runs.
LEMMA RunningPath ==
    ASSUME IInv, Running
    PROVE  /\ vm \in Vms /\ cells \in Memory /\ TopsOf(vm) \in Tops
           /\ Base(Depth) \in Nat /\ Base(Depth) + 1 <= vm.return
           /\ Path(cells, Top.fn, Base(Depth), TopsOf(vm))
           /\ Top.fn \in {"string", "xt", "catch"}
<1>1. TypeOK /\ SegmentAt(Depth)
  BY RunningFacts DEF IInv, Segments
<1>2. Path(cells, Top.fn, Base(Depth), TopsOf(vm))
  BY <1>1, RunningFacts DEF SegmentAt, Top
<1>3. Base(Depth) \in Nat
  BY <1>1, NowTypes, RunningFacts
<1>4. Base(Depth) + 1 <= vm.return
  BY <1>1, <1>2, <1>3, FrameTypes DEF Path, TopsOf, Vms
<1>5. Top.fn \in {"string", "xt", "catch"}
  BY <1>1, FrameTypes, RunningFacts DEF Top, Frames
<1> QED
  BY <1>1, <1>2, <1>3, <1>4, <1>5, FrameTypes

(* A primitive that moves neither the IP nor the return stack. *)
LEMMA QuietStep ==
    ASSUME IInv, Running,
           UNCHANGED <<cells, frames, thrown, result>>,
           vm' \in Vms, open' \in BOOLEAN,
           vm'.ip = vm.ip, vm'.return = vm.return,
           vm'.handler = vm.handler, vm'.tib = vm.tib, vm'.sourceId = vm.sourceId,
           vm'.restart = vm.restart,
           vm'.state = "compile" => open'
    PROVE  Sound
<1>1. /\ TopsOf(vm') \in Tops
      /\ TopsOf(vm').ip = TopsOf(vm).ip /\ TopsOf(vm').return = TopsOf(vm).return
  BY DEF TopsOf, Tops, Vms
<1>2. Path(cells, Top.fn, Base(Depth), TopsOf(vm'))
  BY <1>1, RunningPath, PathSame
<1> QED
  BY <1>2, StayStep, RunningPath DEF Path, Address

\* Words of the program that neither enter nor throw.
LEMMA QuietActions ==
    ASSUME IInv, Push \/ Drop \/ Colon \/ Semicolon \/ RefillNone
    PROVE  Sound
<1>1. Running /\ vm \in Vms /\ (vm.state = "compile" => open) /\ open \in BOOLEAN
  BY FrameTypes DEF IInv, TypeOK, CompilingIsOpen, Push, Drop, Colon, Semicolon, RefillNone, Working
<1>2. CASE Push
  <2>1. vm' = [vm EXCEPT !.data = @ + 1] /\ vm.data + 1 \in 0..DataSize
    BY <1>1, <1>2, BoundsAssumption DEF Push, Room, Vms
  <2> QED
    BY <1>1, <1>2, <2>1, QuietStep DEF Push, Vms
<1>3. CASE Drop
  <2>1. vm' = [vm EXCEPT !.data = @ - 1] /\ vm.data - 1 \in 0..DataSize
    BY <1>1, <1>3, BoundsAssumption DEF Drop, Vms
  <2> QED
    BY <1>1, <1>3, <2>1, QuietStep DEF Drop, Vms
<1>4. CASE Colon
  BY <1>1, <1>4, QuietStep DEF Colon, Vms, Primitives, Parsing
<1>5. CASE Semicolon
  BY <1>1, <1>5, QuietStep DEF Semicolon, Vms, Primitives
<1>6. CASE RefillNone
  <2>1. vm' = [vm EXCEPT !.data = @ + 1, !.runningWord = "refill"] /\ vm.data + 1 \in 0..DataSize
    BY <1>1, <1>6, BoundsAssumption DEF RefillNone, Room, Vms
  <2> QED
    BY <1>1, <1>6, <2>1, QuietStep DEF RefillNone, Vms, Primitives, Parsing
<1> QED
  BY <1>2, <1>3, <1>4, <1>5, <1>6

\* A definition is called.
LEMMA CallAction ==
    ASSUME IInv, NEW d \in Definitions, Call(d)
    PROVE  Sound
<1>1. Running /\ UNCHANGED <<frames, thrown, open, result>>
  BY DEF Call, Working
<1>2. /\ vm \in Vms /\ cells \in Memory /\ vm.return \in Nat
      /\ vm.return + 1 \in 0..ReturnSize /\ vm.ip \in Ips
  BY <1>1, RunningPath, BoundsAssumption DEF Call, Room, Vms
<1>3. /\ vm' = [vm EXCEPT !.return = @ + 1, !.ip = d] /\ vm' \in Vms
      /\ cells' = [cells EXCEPT ![vm.return + 1] = vm.ip] /\ cells' \in Memory
  BY <1>2 DEF Call, PushIP, Pushed, Vms, Ips, Memory
<1>4. /\ TopsOf(vm') \in Tops /\ TopsOf(vm).return = vm.return /\ TopsOf(vm).ip = vm.ip
      /\ TopsOf(vm').ip = d /\ TopsOf(vm').return = vm.return + 1
  BY <1>2, <1>3 DEF TopsOf, Tops, Vms
<1>5. Path(cells', Top.fn, Base(Depth), TopsOf(vm'))
  <2>1. /\ TopsOf(vm).return < ReturnSize
        /\ cells' = [cells EXCEPT ![TopsOf(vm).return + 1] = TopsOf(vm).ip]
        /\ TopsOf(vm').return = TopsOf(vm).return + 1 /\ TopsOf(vm').ip \in Definitions
    BY <1>2, <1>3, <1>4, BoundsAssumption
  <2> QED
    BY <1>1, <1>2, <1>3, <1>4, <2>1, RunningPath, PathCall
<1>6. \A k \in 1..Base(Depth) + 1 : cells'[k] = cells[k]
  BY <1>1, <1>2, <1>3, RunningPath DEF Memory
<1>7. /\ vm'.handler = vm.handler /\ vm'.tib = vm.tib /\ vm'.sourceId = vm.sourceId
      /\ vm'.restart = vm.restart /\ vm'.state = vm.state
  BY <1>2, <1>3 DEF Vms
<1> QED
  BY <1>1, <1>3, <1>5, <1>6, <1>7, StayStep DEF IInv, TypeOK, CompilingIsOpen

\* A definition returns.
LEMMA ExitAction ==
    ASSUME IInv, Exit
    PROVE  Sound
<1>1. Running /\ UNCHANGED <<cells, frames, thrown, open, result>> /\ vm.ip \in Definitions
  BY DEF Exit
<1>2. /\ vm \in Vms /\ cells \in Memory /\ vm.return \in 1..ReturnSize
  <2>1. vm \in Vms /\ cells \in Memory /\ Base(Depth) \in Nat /\ Base(Depth) + 1 <= vm.return
    BY <1>1, RunningPath
  <2>2. vm.return \in 0..ReturnSize
    BY <2>1 DEF Vms
  <2>3. ASSUME NEW b \in Nat, NEW r \in 0..ReturnSize, b + 1 <= r PROVE r \in 1..ReturnSize
    BY <2>3, BoundsAssumption
  <2>4. vm.return \in 1..ReturnSize
    BY <2>1, <2>2, <2>3
  <2> QED
    BY <2>1, <2>4
<1>3. vm' = [vm EXCEPT !.ip = cells[vm.return], !.return = @ - 1] /\ vm' \in Vms
  <2>1. cells[vm.return] \in Ips /\ vm.return - 1 \in 0..ReturnSize
    BY <1>2, BoundsAssumption DEF Memory
  <2> QED
    BY <1>2, <2>1 DEF Exit, PopIP, Vms
<1>4. /\ TopsOf(vm') \in Tops /\ TopsOf(vm).return = vm.return /\ TopsOf(vm).ip = vm.ip
      /\ TopsOf(vm').ip = cells[vm.return] /\ TopsOf(vm').return = vm.return - 1
  BY <1>2, <1>3 DEF TopsOf, Tops, Vms
<1>5. Path(cells, Top.fn, Base(Depth), TopsOf(vm'))
  BY <1>1, <1>2, <1>4, RunningPath, PathExit
<1>6. /\ vm'.handler = vm.handler /\ vm'.tib = vm.tib /\ vm'.sourceId = vm.sourceId
      /\ vm'.restart = vm.restart /\ vm'.state = vm.state
  BY <1>2, <1>3 DEF Vms
<1> QED
  BY <1>1, <1>2, <1>3, <1>5, <1>6, StayStep DEF IInv, TypeOK, CompilingIsOpen, Path, Address

\* Words of the program that throw.
LEMMA ThrowActions ==
    ASSUME IInv,
           \/ OutOfText \/ ExitInner \/ Quit \/ Bye \/ Error \/ Refill
           \/ \E c \in UserCodes : Throw(c)
           \/ \E w \in {"create", "colon"} : NeedText(w)
    PROVE  Sound
<1> USE DEF Codes, UserCodes, Primitives, Parsing
<1>1. CASE OutOfText
  BY <1>1, ThrowStep DEF OutOfText
<1>2. CASE ExitInner
  <2>1. vm.data < DataSize
    BY <1>2, RunningPath, BoundsAssumption DEF ExitInner, Room, Vms
  <2> QED
    BY <1>2, <2>1, ThrowStep DEF ExitInner
<1>3. CASE Quit
  BY <1>3, ThrowStep DEF Quit, Working
<1>4. CASE Bye
  BY <1>4, ThrowStep DEF Bye, Working
<1>5. CASE Error
  BY <1>5, ThrowStep DEF Error, Working
<1>6. ASSUME NEW w \in Parsing, NeedText(w) PROVE Sound
  <2>1. Depth = 1 /\ Top.fn = "string"
    BY <1>6, Careful DEF NeedText, Keeps, AllObligations
  <2> QED
    BY <1>6, <2>1, ThrowStep DEF NeedText, Working
<1>7. CASE Refill
  BY <1>6, <1>7 DEF Refill
<1>8. ASSUME NEW c \in UserCodes, Throw(c) PROVE Sound
  BY <1>8, ThrowStep DEF Throw, Working
<1> QED
  BY <1>1, <1>2, <1>3, <1>4, <1>5, <1>6, <1>7, <1>8

(* A word starts on a pill above the IP that it returns to. *)
StartsWord(at, e, w) ==
    /\ vm' = PushIP(PushIP([at EXCEPT !.handler = e], Pill), w)
    /\ cells' = [Pushed(at) EXCEPT ![at.return + 2] = Pill]

\* The VM with a word just started on the inner loop.
LEMMA WordStart ==
    ASSUME NEW at \in Vms, NEW e \in 0..MaxFrames, NEW w \in Definitions, cells \in Memory,
           at.return + 2 <= ReturnSize, StartsWord(at, e, w)
    PROVE  /\ vm' \in Vms /\ cells' \in Memory
           /\ vm'.ip = w /\ vm'.return = at.return + 2 /\ vm'.handler = e
           /\ vm'.tib = at.tib /\ vm'.sourceId = at.sourceId /\ vm'.state = at.state
           /\ vm'.restart = at.restart /\ vm'.runningWord = at.runningWord /\ vm'.data = at.data
           /\ cells'[at.return + 2] = Pill /\ cells'[at.return + 1] = at.ip
           /\ \A k \in 1..at.return : cells'[k] = cells[k]
<1>1. at.return \in Nat /\ at.return + 1 \in 0..ReturnSize /\ at.return + 2 \in 0..ReturnSize
  BY BoundsAssumption DEF Vms
<1>2. vm' = [at EXCEPT !.handler = e, !.return = at.return + 2, !.ip = w]
  <2>1. vm' = [at EXCEPT !.handler = e, !.return = at.return + 1 + 1, !.ip = w]
    BY DEF StartsWord, PushIP, Vms
  <2>2. at.return + 1 + 1 = at.return + 2
    BY <1>1
  <2> QED
    BY <2>1, <2>2
<1>3. /\ vm' \in Vms
      /\ vm'.ip = w /\ vm'.return = at.return + 2 /\ vm'.handler = e
      /\ vm'.tib = at.tib /\ vm'.sourceId = at.sourceId /\ vm'.state = at.state
      /\ vm'.restart = at.restart /\ vm'.runningWord = at.runningWord /\ vm'.data = at.data
  BY <1>1, <1>2 DEF Vms, Ips
<1>4. /\ cells' = [[cells EXCEPT ![at.return + 1] = at.ip] EXCEPT ![at.return + 2] = Pill]
      /\ at.ip \in Ips /\ Pill \in Ips
  BY DEF StartsWord, Pushed, Vms, Ips
<1>5. /\ cells' \in Memory
      /\ cells'[at.return + 2] = Pill /\ cells'[at.return + 1] = at.ip
      /\ \A k \in 1..at.return : cells'[k] = cells[k]
  <2>1. /\ at.return + 1 # at.return + 2
        /\ \A k \in 1..at.return : k \in 0..ReturnSize /\ k # at.return + 1 /\ k # at.return + 2
    BY <1>1, BoundsAssumption
  <2> QED
    BY <1>1, <1>4, <2>1 DEF Memory
<1> QED
  BY <1>3, <1>5

\* A word is entered with its pill and its own segment.
LEMMA EnterWord ==
    ASSUME IInv, Running, NEW d, d = Depth, d < MaxFrames,
           NEW fn \in {"xt", "catch"}, NEW at \in Vms, NEW w \in Definitions,
           at.ip = vm.ip, at.return = vm.return, at.tib = vm.tib, at.sourceId = vm.sourceId,
           at.state = vm.state, at.restart = vm.restart, at.handler = vm.handler,
           fn = "catch" => at.state = "interpret" /\ at.data < DataSize,
           vm.return + 2 <= ReturnSize, StartsWord(at, d + 1, w),
           frames' = Append(Calling, NewFrame(fn, at, FALSE, FALSE, vm')),
           UNCHANGED <<thrown, open, result>>
    PROVE  Sound
<1>1. d + 1 \in 0..MaxFrames /\ vm \in Vms /\ cells \in Memory /\ vm.return \in Nat
  <2>1. d \in Nat /\ vm \in Vms /\ cells \in Memory
    BY RunningFacts, RunningPath
  <2>2. d + 1 \in 0..MaxFrames
    BY <2>1, BoundsAssumption
  <2>3. vm.return \in Nat
    BY <2>1 DEF Vms
  <2> QED
    BY <2>1, <2>2, <2>3
<1>2. /\ vm' \in Vms /\ cells' \in Memory
      /\ vm'.ip = w /\ vm'.return = at.return + 2 /\ vm'.handler = d + 1
      /\ vm'.tib = at.tib /\ vm'.sourceId = at.sourceId /\ vm'.state = at.state
      /\ vm'.restart = at.restart /\ vm'.data = at.data
      /\ cells'[at.return + 2] = Pill /\ cells'[at.return + 1] = at.ip
      /\ \A k \in 1..at.return : cells'[k] = cells[k]
  BY <1>1, WordStart
<1>3. TopsOf(vm') \in Tops /\ TopsOf(vm').return = vm.return + 2 /\ TopsOf(vm').ip = w
  BY <1>2 DEF TopsOf, Tops, Vms
<1>4. Path(cells', fn, vm.return, TopsOf(vm'))
  BY <1>1, <1>2, <1>3, PathTwo
<1>5. PushesPath(fn, vm')
  BY <1>2, <1>4 DEF PushesPath
<1>6. SetsUp(d, fn, at, vm')
  BY <1>2 DEF SetsUp
<1>9. fn \in {"string", "xt", "catch"}
  OBVIOUS
<1>0. PICK start : start = vm'
  OBVIOUS
<1> DEFINE new == NewFrame(fn, at, FALSE, FALSE, start)
<1>7. /\ new \in Frames /\ new.fn = fn /\ new.copy = Saved(fn, at)
      /\ new.evaluated = FALSE /\ new.rerun = FALSE
  BY <1>9, NoTopsTypes, SavedTypes, Careful DEF NewFrame, Frames
<1> HIDE DEF new
<1>8. Enters(fn, at, new)
  BY <1>0, <1>7 DEF Enters, new
<1> QED
  BY <1>2, <1>5, <1>6, <1>7, <1>8, <1>9, EnterStep

\* CATCH enters the word it guards.
LEMMA CatchAction ==
    ASSUME IInv, NEW w \in Definitions, Catch(w)
    PROVE  Sound
<1> DEFINE at == [vm EXCEPT !.data = @ - 1, !.runningWord = "other"]
<1>1. Running /\ Depth < MaxFrames /\ vm.state = "interpret" /\ vm.data > 0
  BY Careful DEF Catch, Working, Keeps, AllObligations
<1>2. vm \in Vms /\ vm.data - 1 \in 0..DataSize /\ vm.data - 1 < DataSize /\ vm.return + 2 <= ReturnSize
  BY <1>1, RunningPath, BoundsAssumption DEF Catch, Room, Vms
<1>3. /\ at \in Vms /\ at.ip = vm.ip /\ at.return = vm.return /\ at.tib = vm.tib
      /\ at.sourceId = vm.sourceId /\ at.state = vm.state /\ at.restart = vm.restart
      /\ at.handler = vm.handler /\ at.data < DataSize
  BY <1>2 DEF Vms, Primitives
<1>4. /\ StartsWord(at, Depth + 1, w)
      /\ frames' = Append(Calling, NewFrame("catch", at, FALSE, FALSE, vm'))
      /\ UNCHANGED <<thrown, open, result>>
  BY DEF Catch, StartsWord
<1> QED
  BY <1>1, <1>2, <1>3, <1>4, EnterWord

\* A parse step runs on a loop of its own.
LEMMA ParseStepAction ==
    ASSUME IInv, NEW w \in Definitions, ParseStep(w)
    PROVE  Sound
<1> DEFINE at == [vm EXCEPT !.data = @ + 1, !.runningWord = "other"]
<1>1. Running /\ Depth < MaxFrames
  BY DEF ParseStep
<1>2. vm \in Vms /\ vm.data + 1 \in 0..DataSize /\ vm.return + 2 <= ReturnSize
  BY <1>1, RunningPath, BoundsAssumption DEF ParseStep, Room, Vms
<1>3. /\ at \in Vms /\ at.ip = vm.ip /\ at.return = vm.return /\ at.tib = vm.tib
      /\ at.sourceId = vm.sourceId /\ at.state = vm.state /\ at.restart = vm.restart
      /\ at.handler = vm.handler
  BY <1>2 DEF Vms, Primitives
<1>4. /\ StartsWord(at, Depth + 1, w)
      /\ frames' = Append(Calling, NewFrame("xt", at, FALSE, FALSE, vm'))
      /\ UNCHANGED <<thrown, open, result>>
  BY DEF ParseStep, StartsWord
<1> QED
  BY <1>1, <1>2, <1>3, <1>4, EnterWord

\* EVALUATE enters a text inside a text.
LEMMA EvaluateAction ==
    ASSUME IInv, Evaluate
    PROVE  Sound
<1> DEFINE at    == [vm EXCEPT !.data = @ - 1, !.runningWord = "other"]
           start == [at EXCEPT !.tib = Depth + 1, !.handler = Depth + 1, !.sourceId = -1,
                               !.return = vm.return + 1, !.ip = Loop]
<1>1. Running /\ Depth < MaxFrames /\ vm.data > 0 /\ ~vm.restart
  BY RunningFacts DEF Evaluate, Working
<1>2. /\ vm \in Vms /\ vm.data - 1 \in 0..DataSize /\ vm.return + 1 \in 0..ReturnSize
      /\ vm.return \in Nat /\ vm.ip \in Ips
      /\ cells \in Memory /\ Depth + 1 \in 0..MaxFrames
  <2>1. vm \in Vms /\ cells \in Memory /\ Depth \in Nat
    BY <1>1, RunningPath, RunningFacts
  <2>2. /\ vm.data \in 0..DataSize /\ vm.return \in Nat /\ vm.ip \in Ips
    BY <2>1 DEF Vms
  <2>3. vm.return + 1 <= ReturnSize
    BY DEF Evaluate, Room
  <2>4. Depth + 1 \in 0..MaxFrames
    BY <1>1, <2>1, BoundsAssumption
  <2>5. vm.data - 1 \in 0..DataSize /\ vm.return + 1 \in 0..ReturnSize
    BY <1>1, <2>2, <2>3, BoundsAssumption
  <2> QED
    BY <2>1, <2>2, <2>4, <2>5
<1>3. /\ at \in Vms /\ at.ip = vm.ip /\ at.return = vm.return /\ at.tib = vm.tib
      /\ at.sourceId = vm.sourceId /\ at.state = vm.state /\ at.restart = vm.restart
      /\ at.handler = vm.handler
  BY <1>2 DEF Vms, Primitives
<1>4. start \in Vms /\ vm' = start
  <2>1. vm' = PushIP([at EXCEPT !.tib = Depth + 1, !.handler = Depth + 1, !.sourceId = -1], Loop)
    BY <1>1 DEF Evaluate
  <2>2. vm' = start
    BY <1>2, <2>1 DEF PushIP, Vms
  <2>3. start \in Vms
    BY <1>2, <1>3 DEF Vms, Ips
  <2> QED
    BY <2>2, <2>3
<1>5. SetsUp(Depth, "string", at, start)
  BY <1>2, <1>3 DEF SetsUp, Vms
<1>6. TopsOf(start) \in Tops /\ TopsOf(start).return = vm.return + 1 /\ TopsOf(start).ip = Loop
  BY <1>2, <1>3, <1>4 DEF TopsOf, Tops, Vms
<1>7. cells' = [cells EXCEPT ![vm.return + 1] = vm.ip] /\ cells' \in Memory
  <2>1. cells' = [cells EXCEPT ![vm.return + 1] = vm.ip]
    BY <1>1, <1>3 DEF Evaluate, Pushed
  <2> QED
    BY <1>2, <2>1 DEF Memory
<1>8. PushesPath("string", start)
  <2>1. Path(cells', "string", vm.return, TopsOf(start))
    BY <1>2, <1>6, <1>7, PathOne
  <2> QED
    BY <1>2, <1>7, <2>1 DEF PushesPath, Memory
<1>0. PICK s : s = vm'
  OBVIOUS
<1> DEFINE new == NewFrame("string", at, TRUE, FALSE, s)
<1>9. /\ frames' = Append(Calling, new)
      /\ UNCHANGED <<thrown, open, result>>
  <2>1. vm.restart = FALSE
    BY <1>1, <1>2 DEF Vms
  <2> QED
    BY <1>0, <2>1 DEF Evaluate
<1> HIDE DEF at, start
<1>10. /\ new \in Frames /\ new.fn = "string" /\ new.copy = Saved("string", at)
       /\ new.evaluated = TRUE /\ new.rerun = FALSE
  BY <1>3, NoTopsTypes, SavedTypes, Careful DEF NewFrame, Frames
<1> HIDE DEF new
<1>11. Enters("string", at, new)
  BY <1>9, <1>10 DEF Enters
<1> QED
  BY <1>1, <1>3, <1>4, <1>5, <1>7, <1>8, <1>9, <1>10, <1>11, EnterStep

-----------------------------------------------------------------------------
(* The host *)

\* The host brings a text: a new one, or the next for a parsing word that waits.
LEMMA HostTextAction ==
    ASSUME IInv, NEW evaluated \in BOOLEAN, HostText(evaluated)
    PROVE  Sound
<1> DEFINE bound == [vm EXCEPT !.tib = 1, !.handler = 1,
                               !.sourceId = IF evaluated THEN -1 ELSE @]
<1>1. Idle /\ MayCall /\ vm.return + 1 <= ReturnSize
  BY DEF HostText, Room
<1>2. /\ bound \in Vms
      /\ bound.handler = 1 /\ bound.state = vm.state /\ bound.restart = vm.restart
      /\ bound.runningWord = vm.runningWord /\ bound.tib = 1
      /\ bound.sourceId = (IF evaluated THEN -1 ELSE vm.sourceId)
      /\ bound.ip = vm.ip /\ bound.return = vm.return /\ bound.data = vm.data
  BY <1>1, IdleFacts DEF Vms
<1>3. PICK start : start = vm'
  OBVIOUS
<1> DEFINE new == NewFrame("string", vm, evaluated, vm.restart, start)
<1>4. /\ frames' = <<new>> /\ UNCHANGED <<thrown, open, result>>
      /\ vm' = IF vm.restart THEN bound ELSE PushIP(bound, Loop)
      /\ cells' = IF vm.restart THEN cells ELSE Pushed(vm)
  BY <1>3 DEF HostText
<1>5. vm.restart \in BOOLEAN
  BY <1>1, IdleFacts DEF Vms
<1>6. /\ new \in Frames /\ new.fn = "string" /\ new.copy = Saved("string", vm)
      /\ new.evaluated = evaluated /\ new.rerun = vm.restart
  BY <1>1, <1>5, IdleFacts, NoTopsTypes, SavedTypes, Careful DEF NewFrame, Frames
<1> HIDE DEF bound, new
<1>7. /\ start \in Vms
      /\ start.handler = 1 /\ start.state = vm.state /\ start.restart = vm.restart
      /\ start.runningWord = vm.runningWord /\ start.tib = 1 /\ start.data = vm.data
      /\ start.sourceId = (IF evaluated THEN -1 ELSE vm.sourceId)
      /\ vm.restart  => start.ip = vm.ip /\ start.return = vm.return
      /\ ~vm.restart => start.ip = Loop /\ start.return = vm.return + 1
  <2>1. CASE vm.restart
    BY <1>2, <1>3, <1>4, <2>1
  <2>2. CASE ~vm.restart
    <3>1. start = [bound EXCEPT !.return = vm.return + 1, !.ip = Loop]
      BY <1>2, <1>3, <1>4, <2>2 DEF PushIP
    <3>2. vm.return + 1 \in 0..ReturnSize
      BY <1>1, IdleFacts, BoundsAssumption
    <3> QED
      BY <1>2, <2>2, <3>1, <3>2 DEF Vms, Ips
  <2> QED
    BY <2>1, <2>2
<1>8. /\ cells' \in Memory /\ cells'[1] = None
      /\ Path(cells', "string", 0, TopsOf(start))
  <2>1. TopsOf(start) \in Tops
    BY <1>7 DEF TopsOf, Tops, Vms
  <2>2. CASE vm.restart
    <3>1. cells' = cells /\ TopsOf(start).ip = TopsOf(vm).ip /\ TopsOf(start).return = TopsOf(vm).return
      BY <1>4, <1>7, <2>2 DEF TopsOf
    <3> QED
      BY <1>1, <2>1, <2>2, <3>1, IdleFacts, PathSame
  <2>3. CASE ~vm.restart
    <3>1. vm.ip = None /\ vm.return = 0
      BY <1>1, <2>3, IdleFacts
    <3>2. cells' = [cells EXCEPT ![1] = None]
      BY <1>4, <2>3, <3>1 DEF Pushed
    <3>3. 1 \in 0..ReturnSize /\ cells \in Memory /\ None \in Ips
      BY <1>1, <3>1, IdleFacts, BoundsAssumption DEF Ips
    <3>4. cells' \in Memory /\ cells'[1] = None
      BY <3>2, <3>3 DEF Memory
    <3>5. TopsOf(start).return = 1 /\ TopsOf(start).ip = Loop
      BY <1>7, <2>3, <3>1 DEF TopsOf
    <3>6. Path(cells', "string", 0, TopsOf(start))
      BY <2>1, <3>4, <3>5, PathOne
    <3> QED
      BY <3>4, <3>6
  <2> QED
    BY <2>2, <2>3
<1> QED
  BY <1>1, <1>3, <1>4, <1>5, <1>6, <1>7, <1>8, HostStep

\* The host runs a word.
LEMMA HostXTAction ==
    ASSUME IInv, NEW w \in Definitions, HostXT(w)
    PROVE  Sound
<1>1. Idle /\ MayCall /\ ~vm.restart /\ vm.return + 2 <= ReturnSize
  BY Careful DEF HostXT, Room, Keeps, AllObligations
<1>2. /\ vm \in Vms /\ cells \in Memory /\ vm.ip = None /\ vm.return = 0 /\ 1 \in 0..MaxFrames
  BY <1>1, IdleFacts
<1>3. StartsWord(vm, 1, w) /\ UNCHANGED <<thrown, open, result>>
  BY DEF HostXT, StartsWord
<1>4. /\ vm' \in Vms /\ cells' \in Memory
      /\ vm'.ip = w /\ vm'.return = 2 /\ vm'.handler = 1
      /\ vm'.tib = vm.tib /\ vm'.sourceId = vm.sourceId /\ vm'.state = vm.state
      /\ vm'.restart = vm.restart /\ vm'.runningWord = vm.runningWord /\ vm'.data = vm.data
      /\ cells'[2] = Pill /\ cells'[1] = None
  <2>1. ASSUME NEW at, at = vm
        PROVE  /\ vm' \in Vms /\ cells' \in Memory
               /\ vm'.ip = w /\ vm'.return = at.return + 2 /\ vm'.handler = 1
               /\ vm'.tib = at.tib /\ vm'.sourceId = at.sourceId /\ vm'.state = at.state
               /\ vm'.restart = at.restart /\ vm'.runningWord = at.runningWord /\ vm'.data = at.data
               /\ cells'[at.return + 2] = Pill /\ cells'[at.return + 1] = at.ip
    BY <1>1, <1>2, <1>3, <2>1, WordStart
  <2> QED
    BY <1>2, <2>1
<1>5. PICK start : start = vm'
  OBVIOUS
<1> DEFINE new == NewFrame("xt", vm, FALSE, FALSE, start)
<1>6. frames' = <<new>>
  BY <1>5 DEF HostXT
<1>7. /\ new \in Frames /\ new.fn = "xt" /\ new.copy = Saved("xt", vm)
      /\ new.evaluated = FALSE /\ new.rerun = FALSE
  BY <1>2, NoTopsTypes, SavedTypes, Careful DEF NewFrame, Frames
<1> HIDE DEF new
<1>8. Path(cells', "xt", 0, TopsOf(start))
  <2>1. TopsOf(start) \in Tops /\ TopsOf(start).return = 0 + 2 /\ TopsOf(start).ip = w
    BY <1>4, <1>5 DEF TopsOf, Tops, Vms
  <2>2. cells'[0 + 2] = Pill
    BY <1>4
  <2> QED
    BY <1>4, <2>1, <2>2, PathTwo
<1>9. ~new.rerun /\ ~new.evaluated /\ ~vm.restart
  BY <1>1, <1>7
<1> QED
  BY <1>1, <1>3, <1>4, <1>5, <1>6, <1>7, <1>8, <1>9, HostStep

-----------------------------------------------------------------------------
(* The word that is run again *)

\* A parsing word that is run again: the outermost text, its tops in the VM.
LEMMA RerunningFacts ==
    ASSUME IInv, Rerunning
    PROVE  /\ Depth = 1 /\ thrown = None /\ frames # << >>
           /\ frames[1] \in Frames /\ frames[1].fn = "string" /\ frames[1].rerun
           /\ vm \in Vms /\ cells \in Memory /\ vm.handler = 1
           /\ Now(1) = TopsOf(vm)
           /\ Path(cells, "string", 0, TopsOf(vm)) /\ cells[1] = None
           /\ TextAt(1) /\ frames[1].copy.handler = 0
<1>1. Depth = 1 /\ thrown = None /\ frames # << >> /\ frames[1].fn = "string" /\ frames[1].rerun
  <2>1. Depth \in 1..Depth /\ frames[Depth].rerun
    BY FrameTypes DEF IInv, Rerunning, Top
  <2> QED
    BY <2>1 DEF IInv, Reruns, Rerunning
<1>2. frames[1] \in Frames /\ vm \in Vms /\ cells \in Memory /\ vm.handler = 1
  BY <1>1, FrameTypes DEF IInv, Chain
<1>3. TextAt(1) /\ frames[1].copy.handler = 0 /\ SegmentAt(1)
  BY <1>1 DEF IInv, Texts, Chain, Segments
<1>4. Now(1) = TopsOf(vm)
  BY <1>1 DEF Now
<1>5. Path(cells, "string", 0, TopsOf(vm)) /\ cells[1] = None
  BY <1>1, <1>3, <1>4 DEF SegmentAt, Base, Caller
<1> QED
  BY <1>1, <1>2, <1>3, <1>4, <1>5

\* The parsing word finds no text again and throws once more.
LEMMA RerunThrowsAction ==
    ASSUME IInv, RerunThrows
    PROVE  Sound
<1>1. /\ Rerunning /\ UNCHANGED <<vm, cells, frames, open, result>>
      /\ thrown' \in Codes /\ thrown' \in {"restart", "error_exit"}
      /\ thrown' = "restart" => vm.runningWord \in Parsing
  BY DEF RerunThrows, Codes, UserCodes
<1>2. Now(1)' = Now(1) /\ Depth' = Depth /\ Depth = 1
  BY <1>1, RerunningFacts DEF Now, Depth, TopsOf
<1>3. Segments'
  BY <1>1, <1>2 DEF IInv, Segments, SegmentAt, Path, Address, Base, Caller
<1>4. Thrown'
  BY <1>1, <1>2, RerunningFacts DEF Thrown, Top
<1>5. HostReady'
  BY <1>1, RerunningFacts DEF IInv, HostReady, Idle
<1>6. TypeOK' /\ Chain' /\ Texts' /\ Copies' /\ Reruns' /\ RestartAtHost' /\ CompilingIsOpen'
  <2>1. TypeOK'
    BY <1>1 DEF IInv, TypeOK
  <2>2. Chain' /\ Copies' /\ Reruns' /\ RestartAtHost' /\ CompilingIsOpen'
    BY <1>1, <1>2 DEF IInv, Chain, Copies, CopyAt, Caller, Base, Reruns, RestartAtHost, CompilingIsOpen, Top
  <2>3. Texts'
    BY <1>1, <1>2 DEF IInv, Texts, TextAt, TextOfInnermost, InnermostText, SourceId
  <2> QED
    BY <2>1, <2>2, <2>3
<1>7. IInv'
  BY <1>3, <1>4, <1>5, <1>6 DEF IInv
<1>8. frames # << >> /\ thrown = None /\ frames[1].fn = "string"
  BY <1>1, RerunningFacts
<1>9. CASE thrown' = "restart"
  <2>1. Promise!Wait
    BY <1>1, <1>2, <1>7, <1>8, <1>9, WaitPromise DEF TopsOf
  <2> QED
    BY <1>7, <2>1, SoundStep
<1>10. CASE thrown' = "error_exit"
  <2>1. ContextsNow = Contexts(1) /\ StatusNow = "running"
    BY <1>2, <1>8, SeenRunning DEF RunningView, View
  <2>2. Same(1) /\ 1 \in 1..Depth /\ thrown' \in Unwinds
    BY <1>1, <1>2, <1>10 DEF Same, Unwinds
  <2>3. Promise!Throw
    BY <1>1, <1>2, <1>7, <2>1, <2>2, ThrowPromise
  <2> QED
    BY <1>7, <2>3, SoundStep
<1> QED
  BY <1>1, <1>9, <1>10

\* A sequence of frames with one of them replaced.
LEMMA OneChanged ==
    ASSUME NEW s \in Seq(Frames), NEW n \in 1..Len(s), NEW e \in Frames
    PROVE  /\ [s EXCEPT ![n] = e] \in Seq(Frames)
           /\ Len([s EXCEPT ![n] = e]) = Len(s)
           /\ [s EXCEPT ![n] = e][n] = e
<1>1. /\ [s EXCEPT ![n] = e] \in Seq(Frames)
      /\ Len([s EXCEPT ![n] = e]) = Len(s)
  BY ExceptSeq
<1>2. [s EXCEPT ![n] = e][n] = e
  BY LenProperties
<1> QED
  BY <1>1, <1>2

\* The parsing word gets its text and goes on.
LEMMA RerunDoneAction ==
    ASSUME IInv, RerunDone
    PROVE  Sound
<1>1. Rerunning /\ UNCHANGED <<cells, thrown, result>>
  BY DEF RerunDone
<1>2. /\ vm' \in Vms /\ vm'.ip = vm.ip /\ vm'.return = vm.return /\ ~vm'.restart
      /\ vm'.handler = vm.handler /\ vm'.tib = vm.tib /\ vm'.sourceId = vm.sourceId
      /\ vm'.state = "compile" => open'
  <2>1. vm.data \in 0..DataSize /\ (vm.runningWord = "refill" => vm.data + 1 \in 0..DataSize)
    BY <1>1, RerunningFacts, BoundsAssumption DEF RerunDone, Vms
  <2>2. vm.state = "compile" => open
    BY DEF IInv, CompilingIsOpen
  <2> QED
    BY <1>1, <2>1, <2>2, RerunningFacts DEF RerunDone, Vms
<1>3. open' \in BOOLEAN
  BY DEF RerunDone
<1>4. /\ frames' \in Seq(Frames) /\ Depth' = 1 /\ frames' # << >>
      /\ frames'[1].fn = "string" /\ frames'[1].copy = frames[1].copy
      /\ frames'[1].evaluated = frames[1].evaluated /\ ~frames'[1].rerun
  <2> DEFINE new == [frames[1] EXCEPT !.rerun = FALSE, !.entry = NoTops]
  <2>1. /\ new \in Frames /\ new.fn = "string" /\ new.copy = frames[1].copy
        /\ new.evaluated = frames[1].evaluated /\ new.rerun = FALSE
    BY <1>1, RerunningFacts, NoTopsTypes DEF Frames
  <2>2. Len(frames) = 1 /\ frames \in Seq(Frames)
    BY <1>1, RerunningFacts DEF Depth, IInv, TypeOK
  <2>3. frames' = [frames EXCEPT ![1] = new]
    <3>1. frames' = [frames EXCEPT ![1].rerun = FALSE, ![1].entry = NoTops]
      BY <1>1, RerunningFacts, Careful DEF RerunDone
    <3> QED
      BY <2>2, <3>1, LenProperties
  <2> HIDE DEF new
  <2>4. frames' \in Seq(Frames) /\ Len(frames') = 1 /\ frames'[1] = new
    <3>1. PICK s \in Seq(Frames) : s = frames
      BY <2>2
    <3>2. Len(s) = 1 /\ 1 \in 1..Len(s)
      BY <2>2, <3>1
    <3>3. /\ [s EXCEPT ![1] = new] \in Seq(Frames)
          /\ Len([s EXCEPT ![1] = new]) = Len(s)
          /\ [s EXCEPT ![1] = new][1] = new
      <4>1. new \in Frames
        BY <2>1
      <4> QED
        BY <4>1, <3>2, OneChanged
    <3> QED
      BY <2>3, <3>1, <3>2, <3>3
  <2> QED
    BY <2>1, <2>4, EmptySeq DEF Depth
<1>5. TypeOK'
  BY <1>1, <1>2, <1>3, <1>4, BoundsAssumption DEF IInv, TypeOK, Depth
<1>6. Chain'
  BY <1>1, <1>2, <1>4, RerunningFacts DEF Chain
<1>7. Texts'
  <2>1. InnermostText(vm.tib, 1) /\ vm.sourceId = SourceId(vm.tib)
    BY <1>1, RerunningFacts DEF IInv, Texts, TextOfInnermost
  <2>2. vm.tib = 1
    BY <1>1, <2>1, RerunningFacts DEF InnermostText
  <2>3. TextOfInnermost'
    BY <1>2, <1>4, <2>1, <2>2 DEF TextOfInnermost, InnermostText, SourceId
  <2>4. TextAt(1)'
    BY <1>1, <1>4, RerunningFacts DEF TextAt, InnermostText, SourceId
  <2> QED
    BY <1>4, <2>3, <2>4 DEF Texts
<1>8. Copies'
  BY <1>4 DEF Copies, CopyAt
<1>9. Segments'
  <2>1. Now(1)' = TopsOf(vm') /\ Base(1)' = 0 /\ Caller(1)' = None
    BY <1>1, <1>4, RerunningFacts DEF Now, Base, Caller, TopsOf
  <2>2. TopsOf(vm).ip = TopsOf(vm').ip /\ TopsOf(vm).return = TopsOf(vm').return
    BY <1>2 DEF TopsOf
  <2>3. Path(cells, "string", 0, TopsOf(vm'))
    BY <1>1, <2>2, RerunningFacts DEF Path, Address
  <2>4. SegmentAt(1)'
    BY <1>1, <1>4, <2>1, <2>3, RerunningFacts DEF SegmentAt, Path, Address
  <2> QED
    BY <1>4, <2>4 DEF Segments
<1>10. Reruns' /\ RestartAtHost' /\ CompilingIsOpen' /\ Thrown' /\ HostReady'
  BY <1>1, <1>2, <1>4, RerunningFacts DEF Reruns, RestartAtHost, CompilingIsOpen, Thrown, HostReady, Idle, None
<1>20. IInv'
  BY <1>5, <1>6, <1>7, <1>8, <1>9, <1>10 DEF IInv
<1>21. \A i \in 1..Depth : ContextOf(i)' = ContextOf(i)
  <2>1. frames[1].fn = "string" /\ Depth = 1
    BY <1>1, RerunningFacts
  <2> QED
    BY <1>4, <2>1 DEF ContextOf
<1>22. Promise!Work
  BY <1>1, <1>4, <1>20, <1>21, WorkPromise, RerunningFacts
<1> QED
  BY <1>20, <1>22, SoundStep

-----------------------------------------------------------------------------
(* A handler *)

(* What ficlVmExecuteString puts back of the VM that the throw has left. *)
PutBack(done) ==
    [done EXCEPT !.handler  = Handler.copy.handler,
                 !.tib      = Handler.copy.tib,
                 !.sourceId = IF Handler.evaluated THEN Handler.copy.sourceId ELSE @]

\* The handler, the text and the source that ficlVmExecuteString puts back.
LEMMA StringBack ==
    ASSUME IInv, thrown # None, Handler.fn = "string", NEW d, d = Depth, NEW done \in Vms,
           done.sourceId \in {vm.sourceId, 0}, done.state = "compile" => open',
           NEW back, back = PutBack(done)
    PROVE  /\ back \in Vms /\ PutsBack(d, back)
           /\ back.ip = done.ip /\ back.return = done.return /\ back.restart = done.restart
           /\ back.runningWord = done.runningWord /\ back.data = done.data
<1>1. /\ d \in Nat /\ d # 0 /\ d \in 1..d /\ Handler = frames[d] /\ Handler.copy \in Vms
      /\ Handler.copy.handler = d - 1
      /\ TextAt(d)
  BY ThrownFacts DEF Top, Frames
<1>2. /\ InnermostText(Handler.copy.tib, d - 1)
      /\ Handler.evaluated => Handler.copy.sourceId = SourceId(Handler.copy.tib)
      /\ d > 1 => Handler.evaluated
  BY <1>1 DEF TextAt
<1>3. ASSUME ~Handler.evaluated
      PROVE  vm.sourceId = 0 /\ SourceId(Handler.copy.tib) = 0
  <2>1. d = 1
    BY <1>1, <1>2, <1>3
  <2>2. Handler.copy.tib = 0
    BY <1>2, <2>1 DEF InnermostText
  <2>3. InnermostText(vm.tib, 1) /\ vm.sourceId = SourceId(vm.tib)
    BY <2>1 DEF IInv, Texts, TextOfInnermost
  <2>4. vm.tib \in 0..1 /\ ~frames[1].evaluated
    BY <1>1, <1>3, <2>1, <2>3 DEF InnermostText
  <2>5. SourceId(0) = 0 /\ SourceId(1) = 0
    BY <2>4 DEF SourceId
  <2> QED
    BY <2>2, <2>3, <2>4, <2>5
<1>4. /\ back \in Vms
      /\ back.ip = done.ip /\ back.return = done.return /\ back.restart = done.restart
      /\ back.runningWord = done.runningWord /\ back.state = done.state /\ back.data = done.data
      /\ back.handler = Handler.copy.handler /\ back.tib = Handler.copy.tib
      /\ back.sourceId = IF Handler.evaluated THEN Handler.copy.sourceId ELSE done.sourceId
  <2>1. PICK id : id = IF Handler.evaluated THEN Handler.copy.sourceId ELSE done.sourceId
    OBVIOUS
  <2>2. /\ id \in {0, -1} /\ Handler.copy.handler \in 0..MaxFrames /\ Handler.copy.tib \in 0..MaxFrames
    BY <1>1, <2>1 DEF Vms
  <2>3. back = [done EXCEPT !.handler = Handler.copy.handler, !.tib = Handler.copy.tib,
                            !.sourceId = id]
    BY <2>1 DEF PutBack, Vms
  <2> QED
    BY <2>1, <2>2, <2>3 DEF Vms
<1>5. back.sourceId = SourceId(back.tib)
  BY <1>2, <1>3, <1>4
<1> QED
  BY <1>1, <1>2, <1>4, <1>5 DEF PutsBack

(* The VM with the IP and the tops that the handler of the loop has written. *)
LEMMA Spilled ==
    ASSUME IInv, thrown # None, NEW t, t = Now(Depth), NEW v, v = Spill(vm, t)
    PROVE  /\ v \in Vms /\ v.ip = t.ip /\ v.return = t.return /\ v.data = t.data
           /\ v.state = vm.state /\ v.tib = vm.tib /\ v.sourceId = vm.sourceId
           /\ v.restart = vm.restart /\ v.runningWord = vm.runningWord
           /\ vm \in Vms /\ TopsOf(v) = t
<1>1. vm \in Vms /\ t \in Tops
  BY ThrownFacts, FrameTypes DEF IInv
<1> QED
  BY <1>1 DEF Spill, Vms, Tops, TopsOf

(* A word that has run to its end leaves its caller's IP. *)
LEMMA Popped ==
    ASSUME IInv, thrown # None, NEW t, t = Now(Depth), NEW v, v = PopIP(Spill(vm, t))
    PROVE  /\ v \in Vms /\ v.ip = cells[t.return] /\ v.return = t.return - 1 /\ v.data = t.data
           /\ v.state = vm.state /\ v.tib = vm.tib /\ v.sourceId = vm.sourceId
           /\ v.restart = vm.restart /\ v.runningWord = vm.runningWord
<1>1. PICK s : s = Spill(vm, t)
  OBVIOUS
<1>2. /\ s \in Vms /\ s.ip = t.ip /\ s.return = t.return /\ s.data = t.data
      /\ s.state = vm.state /\ s.tib = vm.tib /\ s.sourceId = vm.sourceId
      /\ s.restart = vm.restart /\ s.runningWord = vm.runningWord
  BY <1>1, Spilled
<1>3. Base(Depth) \in Nat /\ Base(Depth) < t.return /\ t \in Tops /\ cells \in Memory
  BY ThrownFacts, FrameTypes DEF IInv, Path
<1>4. cells[t.return] \in Ips /\ t.return - 1 \in 0..ReturnSize
  <2>1. ASSUME NEW b \in Nat, NEW r \in 0..ReturnSize, b < r PROVE r - 1 \in 0..ReturnSize
    BY <2>1, BoundsAssumption
  <2>2. t.return \in 0..ReturnSize
    BY <1>3 DEF Tops
  <2>3. t.return - 1 \in 0..ReturnSize
    BY <1>3, <2>1, <2>2
  <2> QED
    BY <1>3, <2>2, <2>3 DEF Memory
<1>5. v = [s EXCEPT !.ip = cells[t.return], !.return = t.return - 1]
  BY <1>1, <1>2 DEF PopIP
<1> QED
  BY <1>2, <1>4, <1>5 DEF Vms

(* The code says which loop's end has been reached. *)
LEMMA Ended ==
    ASSUME IInv, thrown # None, NEW t, t = Now(Depth)
    PROVE  /\ thrown = "out_of_text" => t.ip = Loop /\ Top.fn = "string" /\ ~vm.restart
           /\ thrown = "inner_exit" => t.ip = Pill /\ Top.fn \in {"xt", "catch"} /\ t.data < DataSize
           /\ thrown \in {"out_of_text", "inner_exit"} =>
                  t.return = Base(Depth) + 1 /\ cells[t.return] = Caller(Depth) /\ t.return - 1 = Base(Depth)
           /\ thrown = "restart" => Depth = 1 /\ Top.fn = "string" /\ vm.runningWord \in Parsing
           /\ Top.fn # "string" \/ thrown = "user_exit" => ~vm.restart
<1>1. /\ thrown = "out_of_text" => ~Top.rerun /\ Top.local.ip = Loop
      /\ thrown = "inner_exit" => ~Top.rerun /\ Top.local.ip = Pill /\ Top.local.data < DataSize
      /\ thrown = "restart" => Depth = 1 /\ Top.fn = "string" /\ vm.runningWord \in Parsing
      /\ thrown = "user_exit" => ~Top.rerun
  BY DEF IInv, Thrown
<1>2. vm.restart => Depth = 1 /\ Top.rerun
  BY ThrownFacts DEF IInv, RestartAtHost
<1>3. Top.rerun => Top.fn = "string"
  BY ThrownFacts DEF IInv, Reruns, Top
<1>4. ~Top.rerun => t = Top.local
  BY ThrownFacts
<1>5. t.ip \in {Loop, Pill} => t.return = Base(Depth) + 1 /\ t.ip = Bottom(Top.fn)
  BY ThrownFacts, PathEnd
<1>6. Top.fn \in {"string", "xt", "catch"} /\ Base(Depth) \in Nat
  BY ThrownFacts DEF Frames
<1>7. /\ t.ip = Loop => Top.fn = "string"
      /\ t.ip = Pill => Top.fn \in {"xt", "catch"}
  BY <1>5, <1>6, IpsTypes DEF Bottom
<1>8. t.ip \in {Loop, Pill} => cells[t.return] = Caller(Depth) /\ t.return - 1 = Base(Depth)
  BY <1>5, <1>6, ThrownFacts
<1> QED
  BY <1>1, <1>2, <1>3, <1>4, <1>5, <1>7, <1>8

\* A VM that is reset or has quit is empty and interprets.
LEMMA AbortTypes ==
    ASSUME NEW v \in Vms, NEW done \in {VmQuit(v), VmReset(v)}
    PROVE  /\ done \in Vms /\ done.ip = None /\ done.return = 0
           /\ done.state = "interpret" /\ done.sourceId = 0 /\ ~done.restart
<1>1. None \in Ips /\ None \in Primitives
  BY DEF Ips, Primitives
<1>2. 0 \in 0..ReturnSize /\ 0 \in 0..MaxFrames /\ 0 \in 0..DataSize
  BY BoundsAssumption
<1>3. PICK quit : quit = VmQuit(v)
  OBVIOUS
<1>4. /\ quit \in Vms /\ quit.ip = None /\ quit.return = 0
      /\ quit.state = "interpret" /\ quit.sourceId = 0 /\ quit.restart = FALSE
  BY <1>1, <1>2, <1>3 DEF VmQuit, Vms
<1>5. VmReset(v) = [quit EXCEPT !.data = 0]
  BY <1>3 DEF VmReset
<1>6. CASE done = VmReset(v)
  BY <1>2, <1>4, <1>5, <1>6 DEF Vms
<1> QED
  BY <1>3, <1>4, <1>6

\* ficlVmExecuteString is landed in.
LEMMA LandStringAction ==
    ASSUME IInv, thrown # None, LandString
    PROVE  Sound
<1> DEFINE v    == Spill(vm, Now(Depth))
           done == CASE thrown = "restart"     -> [v EXCEPT !.restart = TRUE]
                     [] thrown = "out_of_text" -> PopIP(v)
                     [] thrown = "quit"        -> VmQuit(v)
                     [] thrown \in {"error_exit"} \cup UserCodes -> VmReset(v)
                     [] OTHER                  -> v
           code == IF thrown = "restart" THEN "out_of_text" ELSE thrown
<1>1. PICK d, t : d = Depth /\ t = Now(Depth)
  OBVIOUS
<1>2. PICK back : back = PutBack(done)
  OBVIOUS
<1>3. /\ Handler.fn = "string" /\ cells' = cells
      /\ open' = IF Aborts(thrown) /\ v.state = "compile" THEN FALSE ELSE open
      /\ IF code = "out_of_text" \/ Below = << >> THEN Return(back, code) ELSE ThrowOn(back, code)
  <2>1. Spills(Handler) = {Now(Depth)}
    BY ThrownFacts
  <2> QED
    BY <1>2, <2>1 DEF LandString, PutBack
<1>14. Handler.fn = "string" /\ cells' = cells
  BY <1>3
<1>4. /\ d \in Nat /\ d # 0 /\ Handler = Top /\ (Below = << >> <=> d = 1)
      /\ thrown \in Codes /\ open \in BOOLEAN /\ vm.handler = d
  <2>1. Below = << >> <=> d = 1
    BY <1>1, ThrownFacts, BelowFrames DEF IInv
  <2> QED
    BY <1>1, <2>1, ThrownFacts DEF IInv, TypeOK
<1>5. open' \in BOOLEAN /\ (vm.state = "compile" => open)
  BY <1>3, <1>4 DEF IInv, CompilingIsOpen
<1>13. open' = open => (vm.state = "compile" => open')
  BY <1>5
<1>6. /\ v \in Vms /\ v.ip = t.ip /\ v.return = t.return /\ TopsOf(v) = t
      /\ v.state = vm.state /\ v.sourceId = vm.sourceId
      /\ v.restart = vm.restart /\ v.runningWord = vm.runningWord
  BY <1>1, Spilled
<1> HIDE DEF v
<1>7. /\ vm.restart => vm.runningWord \in Parsing
      /\ d > 1 => ~vm.restart
      /\ d = 1 => Path(cells, "string", 0, t) /\ cells[1] = None
  BY <1>1, <1>3, <1>4, ThrownFacts DEF IInv, HostReady, Base, Caller
<1>8. CASE thrown = "restart"
  <2>1. /\ done = [v EXCEPT !.restart = TRUE] /\ done \in Vms /\ code = "out_of_text"
        /\ done.sourceId = vm.sourceId /\ done.state = vm.state /\ done.restart
        /\ done.ip = t.ip /\ done.return = t.return /\ done.runningWord = vm.runningWord
        /\ done.data = t.data
    BY <1>6, <1>8 DEF Vms, UserCodes, TopsOf
  <2>2. d = 1 /\ vm.runningWord \in Parsing
    BY <1>1, <1>8, Ended
  <2>3. open' = open
    BY <1>3, <1>8 DEF Aborts, UserCodes
  <2> HIDE DEF done, code
  <2>0. Handler.fn = "string" /\ (done.state = "compile" => open') /\ done.sourceId \in {vm.sourceId, 0}
    BY <1>13, <1>14, <2>1, <2>3
  <2>4. /\ back \in Vms /\ PutsBack(d, back) /\ back.restart
        /\ back.ip = t.ip /\ back.return = t.return /\ back.runningWord = vm.runningWord
        /\ back.data = t.data
    <3>1. /\ done \in Vms /\ done.restart /\ done.data = t.data
          /\ done.ip = t.ip /\ done.return = t.return /\ done.runningWord = vm.runningWord
      BY <2>1
    <3> QED
      BY <1>1, <1>2, <2>0, <3>1, StringBack
  <2>6. Return(back, "out_of_text")
    BY <1>3, <2>1
  <2>7. ~LeftByBye' /\ ~LeftByXT'
    BY <1>3, <1>4, <2>2, <2>6 DEF Return, LeftByBye, LeftByXT
  <2>8. TopsOf(back) = Now(d)
    BY <1>1, <1>6, <2>4 DEF TopsOf
  <2>5. HandsBack(d, back)
    BY <1>7, <1>8, <2>2, <2>4, <2>7, <2>8 DEF HandsBack, Path, Address, TopsOf
  <2> QED
    <3>1. Handler.fn # "catch" \/ d > 1
      BY <1>3
    <3>2. "out_of_text" \in Codes /\ "out_of_text" = IF thrown = "restart" THEN "out_of_text" ELSE thrown
      BY <1>8 DEF Codes
    <3> QED
      BY <1>1, <1>3, <1>5, <2>4, <2>5, <2>6, <3>1, <3>2, ReturnStep
<1>9. CASE thrown = "out_of_text"
  <2>1. done = PopIP(v) /\ code = "out_of_text"
    <3>1. thrown \notin {"restart", "quit", "error_exit"} \cup UserCodes
      BY <1>9 DEF UserCodes
    <3> QED
      BY <1>9, <3>1
  <2>2. /\ done \in Vms /\ done.ip = cells[t.return] /\ done.return = t.return - 1
        /\ done.state = vm.state /\ done.sourceId = vm.sourceId /\ done.restart = vm.restart
    <3>1. done = PopIP(Spill(vm, t)) /\ t = Now(Depth)
      BY <1>1, <2>1 DEF v
    <3> HIDE DEF done
    <3> QED
      BY <3>1, Popped
  <2>3. ~vm.restart /\ cells[t.return] = Caller(d) /\ t.return - 1 = Base(d)
    BY <1>1, <1>9, Ended
  <2>4. open' = open
    BY <1>3, <1>9 DEF Aborts, UserCodes
  <2> HIDE DEF done, code
  <2>0. Handler.fn = "string" /\ (done.state = "compile" => open') /\ done.sourceId \in {vm.sourceId, 0}
    BY <1>13, <1>14, <2>2, <2>4
  <2>5. /\ back \in Vms /\ PutsBack(d, back) /\ ~back.restart
        /\ back.ip = Caller(d) /\ back.return = Base(d)
    BY <1>1, <1>2, <2>0, <2>2, <2>3, StringBack
  <2>6. HandsBack(d, back)
    BY <1>9, <2>5 DEF HandsBack, Base, Caller, Unwinds
  <2>7. Return(back, "out_of_text")
    BY <1>3, <2>1
  <2> QED
    <3>1. Handler.fn # "catch" \/ d > 1
      BY <1>3
    <3>2. "out_of_text" \in Codes /\ "out_of_text" = IF thrown = "restart" THEN "out_of_text" ELSE thrown
      BY <1>9 DEF Codes
    <3> QED
      BY <1>1, <1>3, <1>5, <2>5, <2>6, <2>7, <3>1, <3>2, ReturnStep
<1>10. CASE Aborts(thrown)
  <2>1. /\ done \in {VmQuit(v), VmReset(v)} /\ code = thrown
        /\ code \in Unwinds /\ thrown # "restart" /\ code \in Codes
    BY <1>10 DEF Aborts, UserCodes, Codes, Unwinds
  <2>2. /\ done \in Vms /\ done.ip = None /\ done.return = 0
        /\ done.state = "interpret" /\ done.sourceId = 0 /\ ~done.restart
    BY <1>6, <2>1, AbortTypes
  <2> HIDE DEF done
  <2>3. /\ back \in Vms /\ PutsBack(d, back) /\ ~back.restart
        /\ back.ip = None /\ back.return = 0
    BY <1>1, <1>2, <1>3, <2>2, StringBack
  <2>4. CASE d = 1
    <3>1. HandsBack(d, back)
      BY <2>1, <2>3, <2>4 DEF HandsBack, Unwinds
    <3>2. Return(back, code)
      BY <1>3, <1>4, <2>4
    <3> QED
      <4>1. Handler.fn # "catch" \/ d > 1
        BY <1>3
      <4>2. code \in Codes /\ code = IF thrown = "restart" THEN "out_of_text" ELSE thrown
        BY <2>1
      <4> HIDE DEF code
      <4> QED
        BY <1>1, <1>3, <1>5, <2>3, <3>1, <3>2, <4>1, <4>2, ReturnStep
  <2>5. CASE d # 1
    <3>1. d > 1 /\ ThrowOn(back, code)
      BY <1>3, <1>4, <2>1, <2>5 DEF Unwinds
    <3>2. code = thrown /\ Handler.fn # "catch"
      BY <1>3, <2>1
    <3> HIDE DEF code
    <3> QED
      BY <1>1, <1>3, <1>5, <2>1, <2>3, <3>1, <3>2, ThrowOnStep
  <2> QED
    BY <2>4, <2>5
<1>11. CASE thrown = "user_exit"
  <2>1. done = v /\ code = "user_exit" /\ code \in Unwinds /\ code \in Codes
    BY <1>11 DEF UserCodes, Codes, Unwinds
  <2>2. open' = open
    BY <1>3, <1>11 DEF Aborts, UserCodes
  <2> HIDE DEF done, code
  <2>0. Handler.fn = "string" /\ (done.state = "compile" => open') /\ done.sourceId \in {vm.sourceId, 0}
    BY <1>6, <1>13, <1>14, <2>1, <2>2
  <2>3. /\ back \in Vms /\ PutsBack(d, back) /\ back.restart = vm.restart
        /\ back.ip = t.ip /\ back.return = t.return /\ back.runningWord = vm.runningWord
    BY <1>1, <1>2, <1>6, <2>0, <2>1, StringBack
  <2>4. CASE d = 1
    <3>1. Return(back, code)
      BY <1>3, <1>4, <2>4
    <3>2. result'.code = "user_exit"
      BY <1>4, <2>1, <2>4, <3>1 DEF Return
    <3>3. ~MayCall'
      BY <3>2, Careful DEF MayCall, LeftByBye, Keeps, AllObligations
    <3>5. ~back.restart
      BY <1>1, <1>11, <2>3, Ended
    <3>4. HandsBack(d, back)
      BY <1>11, <2>4, <3>3, <3>5 DEF HandsBack
    <3> QED
      <4>1. Handler.fn # "catch" \/ d > 1
        BY <1>3
      <4>2. code = IF thrown = "restart" THEN "out_of_text" ELSE thrown
        BY <1>11, <2>1
      <4> QED
        BY <1>1, <1>3, <1>5, <2>1, <2>3, <3>1, <3>4, <4>1, <4>2, ReturnStep
  <2>5. CASE d # 1
    <3>1. d > 1 /\ ThrowOn(back, code) /\ ~back.restart
      BY <1>3, <1>4, <1>7, <2>1, <2>3, <2>5
    <3> QED
      <4>1. code = thrown /\ Handler.fn # "catch"
        BY <1>3, <1>11, <2>1
      <4> QED
        BY <1>1, <1>3, <1>5, <2>1, <2>3, <3>1, <4>1, ThrowOnStep
  <2> QED
    BY <2>4, <2>5
<1>12. thrown # "inner_exit"
  BY <1>1, <1>3, <1>4, Ended
<1> QED
  BY <1>4, <1>8, <1>9, <1>10, <1>11, <1>12 DEF Codes, Aborts

(* A frame that reads no text gives way to one that reads the same text. *)
LEMMA TextBelow ==
    ASSUME IInv, thrown # None, Top.fn # "string", NEW d, d = Depth, NEW v,
           v.tib = vm.tib, v.sourceId = vm.sourceId, v.state = vm.state, v.handler = d - 1,
           open' = open
    PROVE  PutsBack(d, v)
<1>1. d \in Nat /\ d # 0 /\ Top = frames[d]
  BY ThrownFacts DEF Top
<1>2. PICK s : s = vm.tib
  OBVIOUS
<1>3. InnermostText(s, d) /\ vm.sourceId = SourceId(s)
  BY <1>2 DEF IInv, Texts, TextOfInnermost
<1>4. InnermostText(s, d - 1)
  <2>1. s # d
    BY <1>1, <1>3 DEF InnermostText
  <2>2. s \in 0..d - 1
    BY <1>1, <1>3, <2>1 DEF InnermostText
  <2> QED
    BY <1>1, <1>3, <2>2 DEF InnermostText
<1>5. vm.state = "compile" => open'
  BY DEF IInv, CompilingIsOpen
<1> QED
  BY <1>2, <1>3, <1>4, <1>5 DEF PutsBack

\* ficlVmExecuteXT is landed in.
LEMMA LandXTAction ==
    ASSUME IInv, thrown # None, LandXT
    PROVE  Sound
<1> DEFINE v    == PopIP(Spill(vm, Now(Depth)))
           back == [v EXCEPT !.handler = Handler.copy.handler]
           kept == [back EXCEPT !.runningWord = Handler.copy.runningWord]
           flagless == [kept EXCEPT !.data = v.data - 1]
<1>1. PICK d, t : d = Depth /\ t = Now(Depth)
  OBVIOUS
<1>2. /\ d \in Nat /\ d # 0 /\ Handler = Top /\ (Below = << >> <=> d = 1)
      /\ thrown \in Codes /\ open \in BOOLEAN
      /\ Handler.copy.handler = d - 1 /\ Handler.copy \in Vms
  <2>1. Below = << >> <=> d = 1
    BY <1>1, ThrownFacts, BelowFrames DEF IInv
  <2> QED
    BY <1>1, <2>1, ThrownFacts DEF IInv, TypeOK, Frames
<1>3. Handler.fn = "xt" /\ UNCHANGED <<cells, open>>
  BY DEF LandXT
<1>4. /\ v \in Vms /\ v.ip = cells[t.return] /\ v.return = t.return - 1
      /\ v.state = vm.state /\ v.tib = vm.tib /\ v.sourceId = vm.sourceId
      /\ v.restart = vm.restart
  BY <1>1, Popped
<1>5. /\ ~vm.restart
      /\ thrown \notin {"out_of_text", "restart"}
      /\ thrown = "inner_exit" => cells[t.return] = Caller(d) /\ t.return - 1 = Base(d)
  BY <1>1, <1>2, <1>3, Ended
<1>6. /\ back \in Vms /\ ~back.restart /\ PutsBack(d, back)
      /\ back.ip = cells[t.return] /\ back.return = t.return - 1
      /\ kept \in Vms /\ ~kept.restart /\ PutsBack(d, kept)
      /\ kept.ip = cells[t.return] /\ kept.return = t.return - 1 /\ kept.data = v.data
  <2>1. /\ back \in Vms /\ back.tib = vm.tib /\ back.sourceId = vm.sourceId
        /\ back.state = vm.state /\ back.handler = d - 1 /\ ~back.restart
        /\ back.ip = cells[t.return] /\ back.return = t.return - 1
    BY <1>2, <1>4, <1>5 DEF Vms
  <2>2. /\ kept \in Vms /\ kept.tib = vm.tib /\ kept.sourceId = vm.sourceId
        /\ kept.state = vm.state /\ kept.handler = d - 1 /\ ~kept.restart
        /\ kept.ip = cells[t.return] /\ kept.return = t.return - 1 /\ kept.data = v.data
    BY <1>2, <1>4, <1>5 DEF Vms
  <2>3. ASSUME NEW w \in Vms, w.tib = vm.tib, w.sourceId = vm.sourceId, w.state = vm.state,
               w.handler = d - 1
        PROVE  PutsBack(d, w)
    BY <1>1, <1>2, <1>3, <2>3, TextBelow
  <2> QED
    BY <2>1, <2>2, <2>3
<1>7. \/ thrown # "inner_exit" /\ Below # << >> /\ ThrowOn(back, thrown)
      \/ Below = << >> /\ Return(kept, thrown)
      \/ thrown = "inner_exit" /\ Below # << >> /\ v.data > 0 /\ Return(flagless, thrown)
      \/ thrown = "inner_exit" /\ Below # << >> /\ ThrowOn(kept, "error_exit")
  BY ThrownFacts DEF LandXT
<1>8. open' \in BOOLEAN /\ cells' = cells /\ Handler.fn # "catch"
  BY <1>2, <1>3
<1>9. v.data > 0 => /\ flagless \in Vms /\ ~flagless.restart /\ PutsBack(d, flagless)
                    /\ flagless.ip = cells[t.return] /\ flagless.return = t.return - 1
  <2> SUFFICES ASSUME v.data > 0
               PROVE  /\ flagless \in Vms /\ ~flagless.restart /\ PutsBack(d, flagless)
                      /\ flagless.ip = cells[t.return] /\ flagless.return = t.return - 1
    OBVIOUS
  <2> HIDE DEF v, back, kept
  <2>1. v.data - 1 \in 0..DataSize
    BY <1>4, BoundsAssumption DEF Vms
  <2> QED
    BY <1>6, <2>1 DEF Vms, PutsBack
<1> HIDE DEF v, back, kept, flagless
<1>10. CASE thrown # "inner_exit" /\ Below # << >> /\ ThrowOn(back, thrown)
  <2>1. d > 1 /\ thrown \in Unwinds
    BY <1>2, <1>5, <1>10 DEF Unwinds
  <2> QED
    BY <1>1, <1>6, <1>8, <1>10, <2>1, ThrowOnStep
<1>11. CASE Below = << >> /\ Return(kept, thrown)
  <2>1. d = 1
    BY <1>2, <1>11
  <2>2. thrown = "inner_exit" => kept.ip = None /\ kept.return = 0
    BY <1>5, <1>6, <2>1 DEF Caller, Base
  <2>3. thrown # "inner_exit" => ~MayCall'
    <3>1. result' = [fn |-> "xt", code |-> thrown]
      BY <1>3, <1>11 DEF Return
    <3> QED
      BY <3>1, Careful DEF MayCall, LeftByXT, Keeps, AllObligations
  <2>4. HandsBack(d, kept)
    BY <1>5, <1>6, <2>1, <2>2, <2>3 DEF HandsBack
  <2> QED
    <3>1. thrown = IF thrown = "restart" THEN "out_of_text" ELSE thrown
      BY <1>5
    <3> QED
      BY <1>1, <1>2, <1>6, <1>8, <1>11, <2>4, <3>1, ReturnStep
<1>12. CASE thrown = "inner_exit" /\ Below # << >> /\ v.data > 0 /\ Return(flagless, thrown)
  <2>1. d > 1
    BY <1>2, <1>12
  <2>2. HandsBack(d, flagless)
    BY <1>5, <1>9, <1>12, <2>1 DEF HandsBack, Unwinds
  <2> QED
    BY <1>1, <1>2, <1>8, <1>9, <1>12, <2>2, ReturnStep
<1>13. CASE thrown = "inner_exit" /\ Below # << >> /\ ThrowOn(kept, "error_exit")
  <2>1. d > 1 /\ "error_exit" \in Unwinds
    BY <1>2, <1>13 DEF Codes, UserCodes, Unwinds
  <2> QED
    BY <1>1, <1>6, <1>8, <1>13, <2>1, ThrowOnStep
<1> QED
  BY <1>7, <1>10, <1>11, <1>12, <1>13

\* CATCH is landed in.
LEMMA LandCatchAction ==
    ASSUME IInv, thrown # None, LandCatch
    PROVE  Sound
<1> DEFINE v      == PopIP(Spill(vm, Now(Depth)))
           ended  == [v EXCEPT !.handler = Handler.copy.handler, !.data = @ + 1]
           caught == [Handler.copy EXCEPT !.data = @ + 1]
<1>1. PICK d, t : d = Depth /\ t = Now(Depth)
  OBVIOUS
<1>2. /\ d \in Nat /\ d \in 1..d /\ Handler = Top /\ Top = frames[d]
      /\ thrown \in Codes /\ open \in BOOLEAN
      /\ Handler.copy.handler = d - 1 /\ Handler.copy \in Vms
      /\ CopyAt(d) /\ TextAt(d) /\ vm \in Vms
  BY <1>1, ThrownFacts, FrameTypes DEF IInv, TypeOK, Frames, Top
<1>3. Handler.fn = "catch" /\ UNCHANGED <<cells, open>>
  BY DEF LandCatch
<1>4. IF thrown = "inner_exit" THEN Return(ended, thrown) ELSE Return(caught, thrown)
  BY ThrownFacts DEF LandCatch
<1>5. /\ d > 1 /\ ~vm.restart
      /\ thrown = "inner_exit" =>
             cells[t.return] = Caller(d) /\ t.return - 1 = Base(d) /\ t.data < DataSize
  BY <1>1, <1>2, <1>3, Ended DEF CopyAt
<1>6. CASE thrown = "inner_exit"
  <2>1. /\ v \in Vms /\ v.ip = Caller(d) /\ v.return = Base(d) /\ v.data = t.data
        /\ v.state = vm.state /\ v.tib = vm.tib /\ v.sourceId = vm.sourceId
        /\ v.restart = vm.restart
    BY <1>1, <1>5, <1>6, Popped
  <2> HIDE DEF v
  <2>2. v.data + 1 \in 0..DataSize
    <3>1. v.data \in 0..DataSize
      BY <2>1 DEF Vms
    <3> QED
      BY <1>5, <1>6, <2>1, <3>1, BoundsAssumption
  <2>3. /\ ended \in Vms /\ ended.ip = Caller(d) /\ ended.return = Base(d)
        /\ ended.state = vm.state /\ ended.tib = vm.tib /\ ended.sourceId = vm.sourceId
        /\ ~ended.restart /\ ended.handler = d - 1
    BY <1>2, <1>5, <2>1, <2>2 DEF Vms
  <2> HIDE DEF ended
  <2>4. PutsBack(d, ended)
    BY <1>1, <1>2, <1>3, <2>3, TextBelow
  <2>5. HandsBack(d, ended)
    BY <1>5, <1>6, <2>3 DEF HandsBack, Unwinds
  <2> QED
    BY <1>1, <1>2, <1>3, <1>4, <1>5, <1>6, <2>3, <2>4, <2>5, ReturnStep
<1>8. thrown # "restart"
  BY <1>1, <1>3, <1>2, Ended
<1>7. CASE thrown # "inner_exit"
  <2>1. /\ Handler.copy.state = "interpret" /\ ~Handler.copy.restart
        /\ Handler.copy.ip = Caller(d) /\ Handler.copy.return = Base(d)
        /\ Handler.copy.data < DataSize
        /\ InnermostText(Handler.copy.tib, d - 1)
        /\ Handler.copy.sourceId = SourceId(Handler.copy.tib)
    BY <1>2, <1>3 DEF CopyAt, TextAt
  <2>2. Handler.copy.data + 1 \in 0..DataSize
    BY <1>2, <2>1, BoundsAssumption DEF Vms
  <2>3. /\ caught \in Vms /\ caught.ip = Caller(d) /\ caught.return = Base(d)
        /\ caught.state = "interpret" /\ ~caught.restart /\ caught.handler = d - 1
        /\ caught.tib = Handler.copy.tib /\ caught.sourceId = Handler.copy.sourceId
        /\ caught.data = Handler.copy.data + 1
    BY <1>2, <2>1, <2>2 DEF Vms
  <2> HIDE DEF caught
  <2>4. PutsBack(d, caught)
    BY <2>1, <2>3 DEF PutsBack
  <2>5. HandsBack(d, caught)
    BY <1>3, <1>5, <1>8, <2>3 DEF HandsBack
  <2> QED
    BY <1>1, <1>2, <1>3, <1>4, <1>5, <1>7, <1>8, <2>3, <2>4, <2>5, ReturnStep
<1> QED
  BY <1>6, <1>7

-----------------------------------------------------------------------------
(* The theorems *)

\* The invariant holds at the start.
LEMMA InitInv ==
    ASSUME Init
    PROVE  IInv
<1>1. /\ Depth = 0 /\ frames = << >> /\ thrown = None /\ open = FALSE
      /\ vm = FreshVm
  BY DEF Init, Depth
<1>2. /\ vm.handler = 0 /\ vm.tib = 0 /\ vm.sourceId = 0 /\ vm.restart = FALSE
      /\ vm.state = "interpret" /\ vm.ip = None /\ vm.return = 0
  BY <1>1 DEF FreshVm
<1>3. TypeOK
  <2>1. vm \in Vms
    BY <1>1, BoundsAssumption DEF FreshVm, Vms, Ips, Primitives
  <2>2. cells \in [0..ReturnSize -> Ips]
    BY DEF Init, Ips
  <2>3. frames \in Seq(Frames) /\ Len(frames) <= MaxFrames
    BY <1>1, BoundsAssumption, EmptySeq
  <2>4. result \in [fn : {"string", "xt"}, code : Codes]
    BY DEF Init, Codes, UserCodes
  <2> QED
    BY <1>1, <2>1, <2>2, <2>3, <2>4 DEF TypeOK
<1>4. Chain /\ Copies /\ Segments /\ Reruns
  BY <1>1, <1>2 DEF Chain, Copies, Segments, Reruns
<1>5. Texts
  BY <1>1, <1>2 DEF Texts, TextOfInnermost, InnermostText, SourceId
<1>6. RestartAtHost /\ Thrown /\ HostReady /\ CompilingIsOpen
  BY <1>1, <1>2 DEF RestartAtHost, Thrown, HostReady, CompilingIsOpen, None
<1> QED
  BY <1>3, <1>4, <1>5, <1>6 DEF IInv

\* A step that changes nothing.
LEMMA StutterInv ==
    ASSUME IInv, UNCHANGED vars
    PROVE  Sound
<1>1. /\ vm' = vm /\ cells' = cells /\ frames' = frames /\ thrown' = thrown
      /\ open' = open /\ result' = result
  BY DEF vars
<1>2. TypeOK'
  BY <1>1 DEF IInv, TypeOK
<1>3. Chain' /\ Copies' /\ Reruns' /\ RestartAtHost' /\ CompilingIsOpen'
  BY <1>1 DEF IInv, Chain, Copies, CopyAt, Caller, Base, Reruns, RestartAtHost, CompilingIsOpen,
              Depth, Top
<1>4. Texts'
  BY <1>1 DEF IInv, Texts, TextAt, TextOfInnermost, InnermostText, SourceId, Depth
<1>5. Segments'
  BY <1>1 DEF IInv, Segments, SegmentAt, Path, Address, Base, Caller, Now, Depth, TopsOf
<1>6. Thrown' /\ HostReady'
  BY <1>1 DEF IInv, Thrown, HostReady, Idle, MayCall, LeftByBye, LeftByXT, Depth, Top,
              Path, Address, TopsOf
<1>20. IInv'
  BY <1>2, <1>3, <1>4, <1>5, <1>6 DEF IInv
<1> QED
  BY <1>20, StutterPromise, SoundStep

\* Every step of the program and the host is sound.
LEMMA NextInv ==
    ASSUME IInv, Next
    PROVE  Sound
<1>1. ASSUME NEW e \in BOOLEAN, HostText(e) PROVE Sound
  BY <1>1, HostTextAction
<1>2. ASSUME NEW d \in Definitions, HostXT(d) \/ Call(d) \/ Catch(d) \/ ParseStep(d) PROVE Sound
  BY <1>2, HostXTAction, CallAction, CatchAction, ParseStepAction
<1>3. CASE \E c \in UserCodes : Throw(c)
  BY <1>3, ThrowActions
<1>4. CASE \E w \in {"create", "colon"} : NeedText(w)
  BY <1>4, ThrowActions
<1>5. CASE RerunDone \/ RerunThrows
  BY <1>5, RerunDoneAction, RerunThrowsAction
<1>6. CASE Push \/ Drop \/ Colon \/ Semicolon \/ RefillNone
  BY <1>6, QuietActions
<1>7. CASE Exit \/ Evaluate
  BY <1>7, ExitAction, EvaluateAction
<1>8. CASE OutOfText \/ ExitInner \/ Quit \/ Bye \/ Error \/ Refill
  BY <1>8, ThrowActions
<1>9. CASE Land
  BY <1>9, LandStringAction, LandXTAction, LandCatchAction DEF Land
<1> QED
  BY <1>1, <1>2, <1>3, <1>4, <1>5, <1>6, <1>7, <1>8, <1>9 DEF Next

(* Every state of a program that keeps the rules of use has the chain of     *)
(* handlers, the texts, the copies and the segments of the return stack in   *)
(* order: ficlVmExecuteString, ficlVmExecuteXT and ficlPrimitiveCatch put    *)
(* back what they have taken on every way out of them.                       *)
THEOREM Invariance == Spec => []IInv
<1>1. Init => IInv
  BY InitInv
<1>2. IInv /\ [Next]_vars => IInv'
  BY NextInv, StutterInv DEF Sound
<1> QED
  BY <1>1, <1>2, PTL DEF Spec

(* The stack tops never leave the stacks, nor the frames their bound.        *)
THEOREM TypeCorrect == Spec => []TypeOK
<1>1. IInv => TypeOK
  BY DEF IInv
<1> QED
  BY <1>1, Invariance, PTL

(* A longjmp always goes to the innermost C frame that is still active.      *)
THEOREM AlwaysHandlerInnermost == Spec => []HandlerInnermost
<1>1. IInv => HandlerInnermost
  BY DEF IInv, Chain, HandlerInnermost
<1> QED
  BY <1>1, Invariance, PTL

(* Whatever was thrown and caught, the VM reads the text of the innermost    *)
(* ficlVmExecuteString, with the SOURCE-ID of that text.                     *)
THEOREM AlwaysTextOfInnermost == Spec => []TextOfInnermost
<1>1. IInv => TextOfInnermost
  BY DEF IInv, Texts
<1> QED
  BY <1>1, Invariance, PTL

(* The inner loop never fetches from NULL, runs the interpreter loop only in *)
(* a text, and meets the pill only under ficlVmExecuteXT or CATCH.           *)
THEOREM AlwaysIpSound == Spec => []IpSound
<1>1. IInv => IpSound
  <2> SUFFICES ASSUME IInv, Running
               PROVE  /\ vm.ip # None
                      /\ vm.ip = Loop => Top.fn = "string"
                      /\ vm.ip = Pill => Top.fn \in {"xt", "catch"}
    BY DEF IpSound
  <2>1. TopsOf(vm).ip \in Definitions \cup {Bottom(Top.fn)}
    BY RunningPath, PathIp
  <2>2. vm.ip \in Definitions \cup {Bottom(Top.fn)} /\ Top.fn \in {"string", "xt", "catch"}
    BY <2>1, RunningPath DEF TopsOf
  <2> QED
    BY <2>2, IpsTypes DEF Bottom
<1> QED
  BY <1>1, Invariance, PTL

(* Between two calls the host finds the return stack empty, or the way back  *)
(* out of the word that waits for more text at its bottom.                   *)
THEOREM AlwaysHostBalanced == Spec => []HostBalanced
<1>1. IInv => HostBalanced
  <2> SUFFICES ASSUME IInv, Idle, ~LeftByBye, ~LeftByXT
               PROVE  IF vm.restart
                      THEN /\ vm.runningWord \in Parsing /\ vm.ip # None
                           /\ vm.return > 0 /\ cells[1] = None
                      ELSE vm.ip = None /\ vm.return = 0
    BY DEF HostBalanced
  <2>1. MayCall
    BY DEF MayCall
  <2>2. CASE ~vm.restart
    BY <2>1, <2>2, IdleFacts
  <2>3. CASE vm.restart
    <3>1. Path(cells, "string", 0, TopsOf(vm)) /\ cells[1] = None /\ TopsOf(vm) \in Tops
      BY <2>1, <2>3, IdleFacts
    <3>2. vm.runningWord \in Parsing
      BY <2>3 DEF IInv, HostReady
    <3>3. TopsOf(vm).ip \in Definitions \cup {Bottom("string")} /\ 0 < TopsOf(vm).return
      BY <3>1, PathIp DEF Path
    <3>4. vm.ip # None /\ vm.return > 0
      BY <3>1, <3>3, IpsTypes DEF Bottom, TopsOf, Tops
    <3> QED
      BY <2>3, <3>1, <3>2, <3>4
  <2> QED
    BY <2>2, <2>3
<1> QED
  BY <1>1, Invariance, PTL

(* Compile state always has a definition in process to abort.                *)
THEOREM AlwaysCompilingIsOpen == Spec => []CompilingIsOpen
<1>1. IInv => CompilingIsOpen
  BY DEF IInv
<1> QED
  BY <1>1, Invariance, PTL

(* A word that has asked for more text is the next thing to run.             *)
THEOREM AlwaysRestartAtHost == Spec => []RestartAtHost
<1>1. IInv => RestartAtHost
  BY DEF IInv
<1> QED
  BY <1>1, Invariance, PTL

(* The virtual machine keeps what ExceptionSpec promises of contexts and     *)
(* throws: every text, word and CATCH that ends gives control back to the    *)
(* place that called it, a THROW to the innermost CATCH with the data stack  *)
(* and the return addresses that it had, or to the host, whatever lies       *)
(* between, and a parsing word whose text is used up goes on with the next   *)
(* text of the host (ficlVmExecuteString, ficlVmExecuteXT,                   *)
(* ficlPrimitiveCatch).                                                      *)
THEOREM ExceptionKeepsPromise == Spec => KeepsPromise
<1>1. Init => Promise!Init
  <2> SUFFICES ASSUME Init PROVE Promise!Init
    OBVIOUS
  <2>1. IInv
    BY InitInv
  <2>2. /\ Idle /\ thrown = None /\ vm.data = 0 /\ ~vm.restart
        /\ result.code = "out_of_text"
    BY DEF Init, FreshVm, Idle
  <2> QED
    BY <2>1, <2>2, SeenIdle DEF Promise!Init, IdleView, View, Promise!NoCode, Promise!AtHost, None
<1>2. IInv /\ [Next]_vars => [Promise!Next]_(Promise!vars)
  BY NextInv, StutterInv DEF Sound
<1> QED
  BY <1>1, <1>2, Invariance, PTL DEF Spec, KeepsPromise, Promise!Spec
============================================================================

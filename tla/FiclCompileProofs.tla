-------------------------- MODULE FiclCompileProofs --------------------------
(***************************************************************************)
(* Proofs about FiclCompile, for every program that keeps the rules of use *)
(* (Careful): the inner loop is always at an instruction, and what an      *)
(* instruction finds on the return stack is what was put there for it.     *)
(*                                                                         *)
(* FiclCompileLayouts has the definitions.                                 *)
(* Every place of the code has a layout: what lies on the return stack     *)
(* above the return address whenever control is there.  The first part     *)
(* shows that each word that compiles leaves a definition with layouts     *)
(* that fit its instructions, its jumps, and the marks its control         *)
(* structures have left on the data stack; that ; accepts only definitions *)
(* whose jumps are all resolved; and that the optimiser, which rewrites    *)
(* the jumps of a definition that runs, keeps the layouts.  The second     *)
(* part shows that the return stack of a run is a stack of activations,    *)
(* each with the cells the layout of the place it is at says, and that     *)
(* every instruction keeps it so.  At the end, where unconditional jumps   *)
(* lead is followed before and after a rewriting: to the same place.       *)
(***************************************************************************)
EXTENDS FiclCompileLayouts, SetInduction, SequenceTheorems

(* The program keeps the rules of use, all of them. *)
ASSUME Careful == Obligations = AllObligations

\* A word of the source starts at an address of the code, or right after it.
LEMMA StartedAt ==
    ASSUME NEW s, NEW n, Started(s, n), NEW k \in 1..Len(s)
    PROVE  s[k].start \in Nat /\ s[k].local \in Nat /\ 1 <= s[k].start /\ s[k].start <= n
<1>1. s[k] \in SourceWords
  <2>1. s \in Seq(SourceWords)
    BY DEF Started
  <2> QED BY <2>1, ElementOfSeq
<1>2. 1 <= s[k].start /\ s[k].start <= n
  BY DEF Started
<1> QED BY <1>1, <1>2 DEF SourceWords

\* The words of the source still start in the code when the code has grown.
LEMMA StartedMore ==
    ASSUME NEW s, NEW n \in Nat, Started(s, n), NEW m \in Nat, n <= m
    PROVE  Started(s, m)
<1>1. ASSUME NEW k \in 1..Len(s) PROVE 1 <= s[k].start /\ s[k].start <= m
  <2>1. s[k].start \in Nat /\ 1 <= s[k].start /\ s[k].start <= n
    BY StartedAt
  <2> QED BY <2>1
<1> QED BY <1>1 DEF Started

\* A place with its layout stays one when the code is extended.
LEMMA AtKept ==
    ASSUME NEW c, NEW T, NEW d, NEW U, Extends(c, T, d, U), NEW b, NEW l, At(c, T, b, l)
    PROVE  At(d, U, b, l)
<1>1. Len(c) \in Nat /\ Len(d) \in Nat /\ Len(T) \in Nat /\ Len(U) \in Nat
  BY DEF Extends, Cells
<1>2. b \in 1..Len(U) /\ U[b] = l
  BY <1>1 DEF Extends, At
<1>3. ASSUME b \in 1..Len(d) PROVE d[b][1] \notin {"operand", "counted", "text"}
  <2>1. CASE b \in 1..Len(c)
    BY <2>1 DEF Extends, At, IsPlace
  <2>2. CASE b = Len(c) + 1
    BY <2>2, <1>1, <1>3 DEF Extends, IsPlace
  <2> QED BY <2>1, <2>2, <1>1 DEF Extends, At
<1> QED BY <1>2, <1>3 DEF At, IsPlace

\* An instruction and its layout are the same in the extended code.
LEMMA ExtendsAt ==
    ASSUME NEW c, NEW T, NEW d, NEW U, Extends(c, T, d, U), NEW a \in 1..Len(c)
    PROVE  U[a] = T[a] /\ d[a][1] = c[a][1] /\ a \in 1..Len(T) /\ a \in 1..Len(d)
<1>1. Len(c) \in Nat /\ Len(T) \in Nat /\ Len(d) \in Nat
  BY DEF Extends, Cells
<1>2. Len(c) <= Len(T) /\ Len(c) <= Len(d)
  BY DEF Extends
<1>3. a \in 1..Len(T) /\ a \in 1..Len(d)
  BY <1>1, <1>2
<1>4. \A b \in 1..Len(T) : U[b] = T[b]
  BY DEF Extends
<1>5. \A b \in 1..Len(c) : d[b][1] = c[b][1]
  BY DEF Extends
<1> QED BY <1>3, <1>4, <1>5

\* What an instruction does next is the same in the extended code.
LEMMA RestKept ==
    ASSUME NEW c, NEW T, NEW d, NEW U, Extends(c, T, d, U), NEW s,
           NEW a \in 1..Len(c), Rest(c, s, T, a), IsPlace(c, a)
    PROVE  Rest(d, s, U, a)
<1>1. U[a] = T[a] /\ d[a][1] = c[a][1]
  BY ExtendsAt
<1>2. ASSUME NEW b, NEW l, At(c, T, b, l) PROVE At(d, U, b, l)
  BY <1>2, AtKept
<1>0. /\ Len(c) \in Nat /\ Len(d) \in Nat /\ Len(T) \in Nat /\ Len(c) <= Len(d)
      /\ Len(c) <= Len(T) /\ Len(T) <= Len(c) + 1
  BY DEF Extends, Cells
<1>3. HasOperand(c, a) => HasOperand(d, a)
  <2>1. a + 1 \in 1..Len(c) => a + 1 \in 1..Len(d) /\ d[a + 1][1] = c[a + 1][1]
    BY <1>0 DEF Extends
  <2> QED BY <2>1 DEF HasOperand
<1>4. ASSUME a + 1 \in 1..Len(c), c[a][1] \notin Branches \cup Loopings \cup Dos \cup {"link"}
      PROVE  d[a + 1] = c[a + 1]
  BY <1>4 DEF Extends, Patchable
<1>5. CASE c[a][1] \in {"plain", "call", "i", "leave", "unloop", "literal", "2literal", "exit", "semi", "does>", "unlink"}
  BY <1>1, <1>2, <1>5 DEF Rest, Branches, Loopings, Dos, Gets, Tos
<1>6. CASE c[a][1] \in Branches \cup Loopings \cup Dos
  BY <1>1, <1>2, <1>3, <1>6 DEF Rest, Branches, Loopings, Dos, Gets, Tos
<1>7. CASE c[a][1] = "sliteral"
  <2>1. a + 1 \in 1..Len(c) /\ At(c, T, a + 1 + TextCells(c[a + 1][2]), T[a])
    BY <1>7 DEF Rest, Branches, Loopings, Dos, Gets, Tos
  <2>2. d[a + 1] = c[a + 1]
    BY <1>4, <1>7, <2>1 DEF Branches, Loopings, Dos
  <2>3. a + 1 \in 1..Len(d)
    BY <2>1 DEF Extends, Cells
  <2> QED BY <1>1, <1>2, <1>7, <2>1, <2>2, <2>3 DEF Rest
<1>8. CASE c[a][1] = "link"
  <2>1. /\ HasOperand(c, a) /\ c[a + 1][2] \in Nat
        /\ T[a] = Bare /\ At(c, T, a + 2, [link |-> a + 1, slots |-> << >>, loops |-> 0])
    BY <1>8 DEF Rest, Branches, Loopings, Dos, Gets, Tos
  <2>2. d[a + 1][2] \in Nat
    <3>1. a + 1 \in 1..Len(c) /\ (a + 1) - 1 = a
      BY <2>1 DEF HasOperand
    <3> QED BY <2>1, <1>8, <3>1 DEF Extends
  <2> QED BY <1>1, <1>2, <1>3, <1>8, <2>1, <2>2 DEF Rest
<1>9. d[a] = c[a]
  BY DEF Extends, Patchable, IsPlace
<1>10. CASE c[a][1] \in Gets \cup Tos
  <2>1. c[a][1] \in {"get", "to"} => d[a + 1] = c[a + 1] /\ a + 1 \in 1..Len(d)
    <3> SUFFICES ASSUME c[a][1] \in {"get", "to"} PROVE d[a + 1] = c[a + 1] /\ a + 1 \in 1..Len(d)
      OBVIOUS
    <3>1. \E l : At(c, T, a + 2, l)
      BY DEF Rest, Branches, Loopings, Dos, Gets, Tos, LocalSize
    <3>2. a + 1 \in 1..Len(c)
      BY <3>1, <1>0 DEF At
    <3> QED BY <3>2, <1>4, <1>0 DEF Branches, Loopings, Dos
  <2>2. OffsetAt(d, a) = OffsetAt(c, a) /\ LocalSize(d, a) = LocalSize(c, a)
    BY <2>1, <1>9 DEF OffsetAt, LocalSize
  <2>3. \A l : Reads(d, s, l, a) <=> Reads(c, s, l, a)
    BY <2>2, <1>9 DEF Reads
  <2>4. \A l, m : Stores(d, s, l, m, a) <=> Stores(c, s, l, m, a)
    BY <2>2, <1>9 DEF Stores
  <2>5. CASE c[a][1] \in Gets
    <3>1. OffsetAt(c, a) \in Nat /\ c[a][2] \in Nat /\ Reads(c, s, T[a], a) /\ At(c, T, a + LocalSize(c, a), T[a])
      BY <2>5 DEF Rest, Branches, Loopings, Dos, Gets, Tos
    <3> QED BY <3>1, <2>2, <2>3, <1>1, <1>2, <1>9, <2>5 DEF Rest
  <2>6. CASE c[a][1] \in Tos
    <3>1. OffsetAt(c, a) \in Nat /\ c[a][2] \in Nat
      BY <2>6 DEF Rest, Branches, Loopings, Dos, Gets, Tos
    <3>2. PICK m \in Layouts : Stores(c, s, T[a], m, a) /\ At(c, T, a + LocalSize(c, a), m)
      BY <2>6 DEF Rest, Branches, Loopings, Dos, Gets, Tos
    <3>3. Stores(d, s, T[a], m, a) /\ At(d, U, a + LocalSize(c, a), m)
      BY <3>2, <2>4, <1>2
    <3> QED BY <3>1, <3>3, <2>2, <1>1, <1>9, <2>6 DEF Rest
  <2> QED BY <1>10, <2>5, <2>6
<1> QED BY <1>5, <1>6, <1>7, <1>8, <1>10 DEF Rest, Branches, Loopings, Dos, Gets, Tos

\* A frame that had room for its slots has it when no frame has shrunk.
LEMMA RoomyKept ==
    ASSUME NEW c, NEW T, NEW d, NEW U, Extends(c, T, d, U), NEW v, NEW w, NEW l \in Layouts, Roomy(c, v, l),
           \A x : IsLink(c, x) => Room(c, v, x) <= Room(d, w, x) /\ Room(c, v, x) \in Int /\ Room(d, w, x) \in Int
    PROVE  Roomy(d, w, l)
<1>1. CASE l.link = 0
  BY <1>1 DEF Roomy
<1>2. CASE l.link # 0
  <2>1. IsLink(c, l.link) /\ Len(l.slots) <= Room(c, v, l.link)
    BY <1>2 DEF Roomy
  <2>2. IsLink(d, l.link)
    <3>1. Len(c) \in Nat /\ Len(d) \in Nat /\ Len(c) <= Len(d)
      BY DEF Extends, Cells
    <3> QED BY <2>1, <3>1 DEF IsLink, Extends
  <2>3. Len(l.slots) \in Nat
    BY DEF Layouts
  <2>4. Room(c, v, l.link) <= Room(d, w, l.link) /\ Room(c, v, l.link) \in Int /\ Room(d, w, l.link) \in Int
    BY <2>1
  <2>5. Len(l.slots) <= Room(d, w, l.link)
    BY <2>1, <2>3, <2>4
  <2> QED BY <1>2, <2>2, <2>5 DEF Roomy
<1> QED BY <1>1, <1>2

\* A jump that is resolved stays so in the extended code, its operand being the same.
LEMMA JumpedKept ==
    ASSUME NEW c, NEW T, NEW d, NEW U, Extends(c, T, d, U),
           NEW a \in 1..Len(c), Jumped(c, T, a), d[a + 1] = c[a + 1]
    PROVE  Jumped(d, U, a)
<1>1. d[a][1] = c[a][1] /\ U[a] = T[a]
  BY ExtendsAt
<1>2. BranchTarget(d, a) = BranchTarget(c, a)
  BY DEF BranchTarget
<1>3. ASSUME NEW b, NEW l, At(c, T, b, l) PROVE At(d, U, b, l)
  BY <1>3, AtKept
<1> QED BY <1>1, <1>2, <1>3 DEF Jumped

\* What holds of the flow of a definition holds of its extension, once it holds of the
\* instructions that are new and of the jumps whose operands have been filled in.
LEMMA FlowsKept ==
    ASSUME NEW c, NEW T, NEW d, NEW U, Extends(c, T, d, U), NEW s, NEW v, NEW w, NEW X, NEW Y,
           Flows(c, s, v, T, X), Len(U) \in {Len(d), Len(d) + 1},
           \A x : IsLink(c, x) => Room(c, v, x) <= Room(d, w, x) /\ Room(c, v, x) \in Int /\ Room(d, w, x) \in Int,
           \A a \in 1..Len(c) : \/ a + 1 \notin X /\ d[a + 1] = c[a + 1]
                                \/ a + 1 \in Y
                                \/ Jumped(c, T, a) /\ d[a + 1] = c[a + 1]
                                \/ Jumped(d, U, a),
           \A a \in Len(c) + 1..Len(d) : IsPlace(d, a) =>
                Rest(d, s, U, a) /\ Roomy(d, w, U[a]) /\ (Jumped(d, U, a) \/ a + 1 \in Y)
    PROVE  Flows(d, s, w, U, Y)
<1>1. d \in Cells /\ U \in Seq(Layouts) /\ Len(c) \in Nat /\ Len(d) \in Nat /\ T \in Seq(Layouts)
  BY DEF Extends, Cells
<1>2. At(d, U, 1, Bare)
  BY AtKept DEF Flows
<1>3. ASSUME NEW a \in 1..Len(d), IsPlace(d, a)
      PROVE  Rest(d, s, U, a) /\ Roomy(d, w, U[a]) /\ (Jumped(d, U, a) \/ a + 1 \in Y)
  <2>1. CASE a \in 1..Len(c)
    <3>1. IsPlace(c, a)
      BY <2>1, <1>3 DEF Extends, IsPlace
    <3>2. Rest(c, s, T, a) /\ Roomy(c, v, T[a]) /\ (Jumped(c, T, a) \/ a + 1 \in X)
      BY <3>1, <2>1 DEF Flows
    <3>3. T[a] \in Layouts /\ U[a] = T[a]
      BY <2>1, <1>1 DEF Extends
    <3>4. Rest(d, s, U, a)
      BY <2>1, <3>1, <3>2, RestKept
    <3>5. Roomy(d, w, U[a])
      BY <3>2, <3>3, RoomyKept
    <3>6. Jumped(d, U, a) \/ a + 1 \in Y
      BY <3>2, <2>1, JumpedKept
    <3> QED BY <3>4, <3>5, <3>6
  <2>2. CASE a \in Len(c) + 1..Len(d)
    BY <2>2, <1>3
  <2> QED BY <2>1, <2>2, <1>1
<1>4. Started(s, Len(d) + 1)
  <2>1. Started(s, Len(c) + 1) /\ Len(c) + 1 \in Nat /\ Len(d) + 1 \in Nat /\ Len(c) + 1 <= Len(d) + 1
    BY <1>1 DEF Flows, Extends
  <2> QED BY <2>1, StartedMore
<1> QED BY <1>1, <1>2, <1>3, <1>4 DEF Flows

\* The word an address belongs to is still that word when the source gets one more.
LEMMA WordAtKept ==
    ASSUME NEW s, NEW n \in Nat, Started(s, n), NEW r \in SourceWords, r.start = n,
           NEW a \in 1..n - 1, NEW k \in DOMAIN s, WordAt(s, k, a)
    PROVE  k \in DOMAIN Append(s, r) /\ WordAt(Append(s, r), k, a) /\ Append(s, r)[k].local = s[k].local
<1> DEFINE u == Append(s, r)
<1>0. Len(s) \in Nat
  BY DEF Started
<1>1. /\ Len(s) \in Nat /\ Len(u) = Len(s) + 1 /\ DOMAIN s = 1..Len(s) /\ DOMAIN u = 1..Len(s) + 1
      /\ \A j \in 1..Len(s) : u[j] = s[j]
      /\ u[Len(s) + 1] = r
  BY DEF Started
<1> HIDE DEF u
<1>2. \A j \in 1..Len(s) : Covers(u, j, a) <=> Covers(s, j, a)
  <2> SUFFICES ASSUME NEW j \in 1..Len(s) PROVE Covers(u, j, a) <=> Covers(s, j, a)
    OBVIOUS
  <2>3. j # Len(u) /\ u[j] = s[j]
    BY <1>0, <1>1
  <2>1. CASE j = Len(s)
    <3>1. u[j + 1] = r
      BY <2>1, <1>1
    <3>2. r.start > a
      OBVIOUS
    <3> QED BY <2>1, <2>3, <3>1, <3>2 DEF Covers
  <2>2. CASE j # Len(s)
    <3>1. j + 1 \in 1..Len(s)
      BY <2>2, <1>0
    <3>2. u[j + 1] = s[j + 1]
      BY <3>1, <1>1
    <3> QED BY <2>2, <2>3, <3>2 DEF Covers
  <2> QED BY <2>1, <2>2
<1>3. ~Covers(u, Len(s) + 1, a)
  BY <1>1 DEF Covers
<1>4. WordAt(u, k, a)
  BY <1>1, <1>2, <1>3 DEF WordAt
<1> QED BY <1>1, <1>4 DEF u

\* The last word of the source is the one the addresses from its start on belong to.
LEMMA WordAtNew ==
    ASSUME NEW s, NEW n \in Nat, Started(s, n), NEW r \in SourceWords, r.start = n,
           NEW a \in Nat, n <= a
    PROVE  WordAt(Append(s, r), Len(s) + 1, a)
<1> DEFINE u == Append(s, r)
<1>0. Len(s) \in Nat
  BY DEF Started
<1>1. /\ Len(s) \in Nat /\ Len(u) = Len(s) + 1 /\ DOMAIN s = 1..Len(s) /\ DOMAIN u = 1..Len(s) + 1
      /\ \A j \in 1..Len(s) : u[j] = s[j]
      /\ u[Len(s) + 1] = r
  BY DEF Started
<1> HIDE DEF u
<1>2. ASSUME NEW j \in 1..Len(s) PROVE ~Covers(u, j, a)
  <2>1. u[j + 1].start <= n /\ j # Len(u) /\ u[j + 1].start \in Nat
    <3>1. CASE j = Len(s)
      BY <3>1, <1>1
    <3>2. CASE j # Len(s)
      <4>1. j + 1 \in 1..Len(s)
        BY <3>2, <1>0
      <4>2. s[j + 1].start \in Nat /\ s[j + 1].start <= n
        BY <4>1, StartedAt
      <4>4. u[j + 1] = s[j + 1]
        BY <4>1, <1>1
      <4>3. j # Len(u)
        BY <1>0, <1>1
      <4> QED BY <4>2, <4>3, <4>4
    <3> QED BY <3>1, <3>2
  <2> QED BY <2>1 DEF Covers
<1>3. Covers(u, Len(s) + 1, a)
  BY <1>1 DEF Covers
<1> QED BY <1>1, <1>2, <1>3 DEF WordAt, u

\* One more word, which starts where the code ends.
LEMMA StartedGrown ==
    ASSUME NEW s, NEW n \in Nat, 1 <= n, Started(s, n), NEW r \in SourceWords, r.start = n,
           NEW m \in Nat, n <= m
    PROVE  Started(Append(s, r), m)
<1>1. /\ Len(s) \in Nat /\ Len(Append(s, r)) = Len(s) + 1
      /\ \A j \in 1..Len(s) : Append(s, r)[j] = s[j]
      /\ Append(s, r)[Len(s) + 1] = r
  BY DEF Started
<1>2. Append(s, r) \in Seq(SourceWords)
  BY DEF Started
<1>3. ASSUME NEW k \in 1..Len(s) + 1 PROVE 1 <= Append(s, r)[k].start /\ Append(s, r)[k].start <= m
  <2>1. CASE k \in 1..Len(s)
    <3>1. s[k].start \in Nat /\ 1 <= s[k].start /\ s[k].start <= n
      BY <2>1, StartedAt
    <3> QED BY <2>1, <1>1, <3>1
  <2>2. CASE k = Len(s) + 1
    BY <2>2, <1>1
  <2> QED BY <2>1, <2>2, <1>1
<1> QED BY <1>1, <1>2, <1>3 DEF Started

\* What an instruction does next depends on the source only by the word it belongs to.
LEMMA RestSource ==
    ASSUME NEW c, NEW T, NEW s, NEW u, NEW a, Rest(c, s, T, a),
           \A k \in DOMAIN s : WordAt(s, k, a) => k \in DOMAIN u /\ WordAt(u, k, a) /\ u[k].local = s[k].local
    PROVE  Rest(c, u, T, a)
<1>1. \A l : Reads(c, s, l, a) => Reads(c, u, l, a)
  BY DEF Reads
<1>2. \A l, m : Stores(c, s, l, m, a) => Stores(c, u, l, m, a)
  BY DEF Stores
<1>3. CASE c[a][1] \in Gets \cup Tos
  BY <1>1, <1>2, <1>3 DEF Rest, Gets, Tos, Branches, Loopings, Dos
<1>4. CASE c[a][1] \notin Gets \cup Tos
  BY <1>4 DEF Rest, Gets, Tos, Branches, Loopings, Dos
<1> QED BY <1>3, <1>4

\* The flow of a definition is the same when the source gets a word that starts at its end.
LEMMA FlowsSource ==
    ASSUME NEW c, NEW T, NEW s, NEW v, NEW X, Flows(c, s, v, T, X),
           NEW r \in SourceWords, r.start = Len(c) + 1
    PROVE  Flows(c, Append(s, r), v, T, X)
<1>1. Len(c) + 1 \in Nat /\ (Len(c) + 1) - 1 = Len(c) /\ Started(s, Len(c) + 1) /\ 1 <= Len(c) + 1
  BY DEF Flows, Cells
<1>2. ASSUME NEW a \in 1..Len(c), IsPlace(c, a) PROVE Rest(c, Append(s, r), T, a)
  <2>1. Rest(c, s, T, a)
    BY <1>2 DEF Flows
  <2>2. \A k \in DOMAIN s : WordAt(s, k, a) =>
           k \in DOMAIN Append(s, r) /\ WordAt(Append(s, r), k, a) /\ Append(s, r)[k].local = s[k].local
    BY <1>1, WordAtKept
  <2> QED BY <2>1, <2>2, RestSource
<1>3. Started(Append(s, r), Len(c) + 1)
  BY <1>1, StartedGrown
<1> QED BY <1>2, <1>3 DEF Flows

-----------------------------------------------------------------------------
(* The marks on the data stack, and definitions that are being written.    *)

\* The loops that are open below a mark are finitely many.
LEMMA LoopsBelowNat ==
    ASSUME NEW p, NEW i \in Nat
    PROVE  LoopsBelow(p, i) \in Nat /\ IsFiniteSet({j \in 1..i - 1 : p[j] = Tag("do")})
<1>1. IsFiniteSet(1..i - 1)
  BY FS_Interval
<1>2. IsFiniteSet({j \in 1..i - 1 : p[j] = Tag("do")})
  BY <1>1, FS_Subset
<1> QED BY <1>2, FS_CardinalityType DEF LoopsBelow

\* The loops open below a mark are counted from what is below it alone.
LEMMA LoopsBelowSame ==
    ASSUME NEW p, NEW q, NEW i \in Nat, \A j \in 1..i - 1 : q[j] = p[j]
    PROVE  LoopsBelow(q, i) = LoopsBelow(p, i)
<1>1. {j \in 1..i - 1 : p[j] = Tag("do")} = {j \in 1..i - 1 : q[j] = Tag("do")}
  OBVIOUS
<1> QED BY <1>1 DEF LoopsBelow

\* One mark up, there is one loop more if the mark passed is that of DO.
LEMMA LoopsBelowNext ==
    ASSUME NEW p, NEW i \in Nat \ {0}
    PROVE  LoopsBelow(p, i + 1) = IF p[i] = Tag("do") THEN LoopsBelow(p, i) + 1 ELSE LoopsBelow(p, i)
<1> DEFINE S == {j \in 1..i - 1 : p[j] = Tag("do")}
           R == {j \in 1..(i + 1) - 1 : p[j] = Tag("do")}
<1>1. IsFiniteSet(S) /\ i \notin S
  <2>1. IsFiniteSet(S)
    BY LoopsBelowNat
  <2> QED BY <2>1
<1>2. CASE p[i] = Tag("do")
  <2>1. R = S \cup {i}
    BY <1>2
  <2>2. Cardinality(S \cup {i}) = Cardinality(S) + 1
    BY <1>1, FS_AddElement
  <2> QED BY <1>2, <2>1, <2>2 DEF LoopsBelow
<1>3. CASE p[i] # Tag("do")
  <2>1. R = S
    BY <1>3
  <2> QED BY <1>3, <2>1 DEF LoopsBelow
<1> QED BY <1>2, <1>3

\* An operand to fill in later stays one when the code is extended.
LEMMA FixupKept ==
    ASSUME NEW c, NEW T, NEW d, NEW U, Extends(c, T, d, U), NEW x, NEW names, NEW l, Fixup(c, T, x, names, l)
    PROVE  Fixup(d, U, x, names, l)
<1>1. Len(c) \in Nat /\ Len(d) \in Nat /\ Len(T) \in Nat /\ Len(c) <= Len(d) /\ Len(c) <= Len(T)
  BY DEF Extends, Cells
<1>2. x \in 1..Len(c) /\ x - 1 \in 1..Len(c) /\ x - 1 \in 1..Len(T) /\ x \in 1..Len(d) /\ x - 1 \in 1..Len(d)
  BY <1>1 DEF Fixup
<1>3. d[x][1] = c[x][1] /\ d[x - 1][1] = c[x - 1][1] /\ U[x - 1] = T[x - 1]
  BY <1>2 DEF Extends
<1> QED BY <1>2, <1>3 DEF Fixup

(* The mark at i - with what lies right below it - stands at j of q. *)
LEMMA MarkedKept ==
    ASSUME NEW c, NEW T, NEW d, NEW U, Extends(c, T, d, U), NEW p, NEW q, NEW i \in Nat \ {0},
           \A j \in 1..i : q[j] = p[j], Marked(c, T, p, i),
           U[Len(U)].link = T[Len(T)].link, U[Len(U)].slots = T[Len(T)].slots
    PROVE  Marked(d, U, q, i)
<1>1. LoopsBelow(q, i) = LoopsBelow(p, i)
  BY LoopsBelowSame
<1>2. Looped(U[Len(U)], LoopsBelow(q, i)) = Looped(T[Len(T)], LoopsBelow(p, i))
  BY <1>1 DEF Looped
<1>3. q[i] = p[i] /\ (i > 1 => q[i - 1] = p[i - 1]) /\ (i > 2 => q[i - 2] = p[i - 2]) /\ q[1] = p[1]
  OBVIOUS
<1>4. \A b, l : At(c, T, b, l) => At(d, U, b, l)
  BY AtKept
<1>5. \A x, names, l : Fixup(c, T, x, names, l) => Fixup(d, U, x, names, l)
  BY FixupKept
<1>6. CASE p[i] = Tag("case")
  <2> DEFINE n == p[i - 1][2]
             l == Looped(T[Len(T)], LoopsBelow(p, i))
  <2>1. Under(p, i, "count") /\ n \in 0..i - 2
        /\ \A j \in i - 1 - n..i - 2 : p[j][1] = "address" /\ Fixup(c, T, p[j][2], {"branchCheck"}, l)
    BY <1>6 DEF Marked, Tag
  <2>2. \A j \in i - 1 - n..i - 2 : j \in 1..i
    BY <2>1 DEF Under
  <2>3. \A j \in i - 1 - n..i - 2 : q[j][1] = "address" /\ Fixup(d, U, q[j][2], {"branchCheck"}, l)
    BY <2>1, <2>2, <1>5
  <2>4. Under(q, i, "count") /\ q[i - 1][2] = n
    BY <2>1, <1>3 DEF Under
  <2>5. q[i] = Tag("case")
    BY <1>6, <1>3
  <2>6. l = Looped(U[Len(U)], LoopsBelow(q, i))
    BY <1>2
  <2> HIDE DEF l, n
  <2> QED BY <2>1, <2>3, <2>4, <2>5, <2>6 DEF Marked
<1>7. CASE p[i] # Tag("case")
  <2>1. \A name : Under(p, i, name) => Under(q, i, name) /\ q[i - 1] = p[i - 1]
    BY <1>3 DEF Under
  <2>2. CASE p[i] = Tag("do")
    BY <2>1, <2>2, <1>2, <1>3, <1>4 DEF Marked, Tag
  <2>3. CASE p[i] # Tag("do")
    BY <2>1, <2>3, <1>2, <1>3, <1>4, <1>5, <1>7 DEF Marked
  <2> QED BY <2>2, <2>3
<1> QED BY <1>6, <1>7

\* The types of the cells and the layouts of a definition.
LEMMA FlowsFacts ==
    ASSUME NEW c, NEW s, NEW v, NEW T, NEW X, Flows(c, s, v, T, X)
    PROVE  /\ c \in Cells /\ T \in Seq(Layouts) /\ Len(c) \in Nat /\ Len(T) \in Nat
           /\ \A b \in 1..Len(c) : c[b] \in Names \X Int /\ c[b][1] \in Names /\ c[b][2] \in Int
           /\ \A b \in 1..Len(T) : T[b] \in Layouts
<1>1. c \in Cells /\ T \in Seq(Layouts) /\ Len(c) \in Nat /\ Len(T) \in Nat
  BY DEF Flows, Cells
<1>2. ASSUME NEW b \in 1..Len(c) PROVE c[b] \in Names \X Int /\ c[b][1] \in Names /\ c[b][2] \in Int
  <2>1. c[b] \in Names \X Int
    BY <1>1, ElementOfSeq DEF Cells
  <2> QED BY <2>1
<1>3. ASSUME NEW b \in 1..Len(T) PROVE T[b] \in Layouts
  BY <1>1, ElementOfSeq
<1> QED BY <1>1, <1>2, <1>3

\* An extension of an extension is an extension.
LEMMA ExtendsTransitive ==
    ASSUME NEW c, NEW T, NEW d, NEW U, NEW e, NEW V, Extends(c, T, d, U), Extends(d, U, e, V)
    PROVE  Extends(c, T, e, V)
<1>1. /\ Len(c) \in Nat /\ Len(d) \in Nat /\ Len(e) \in Nat /\ Len(T) \in Nat /\ Len(U) \in Nat /\ Len(V) \in Nat
      /\ Len(c) <= Len(d) /\ Len(d) <= Len(e) /\ Len(T) <= Len(U) /\ Len(U) <= Len(V)
      /\ Len(c) <= Len(T) /\ Len(T) <= Len(c) + 1
      /\ c \in Cells /\ e \in Cells /\ T \in Seq(Layouts) /\ V \in Seq(Layouts)
  BY DEF Extends, Cells
<1>2. ASSUME NEW b \in 1..Len(T) PROVE V[b] = T[b]
  <2>1. b \in 1..Len(U)
    BY <1>1
  <2> QED BY <2>1 DEF Extends
<1>3. ASSUME NEW b \in 1..Len(c) PROVE d[b][1] = c[b][1] /\ e[b][1] = c[b][1]
  <2>1. b \in 1..Len(d)
    BY <1>1
  <2> QED BY <2>1 DEF Extends
<1>4. ASSUME NEW b \in 1..Len(c)
      PROVE  e[b] = c[b] \/ (Patchable(c, b) /\ (c[b - 1][1] = "link" => e[b][2] \in Nat))
  <2>1. b \in 1..Len(d)
    BY <1>1
  <2>2. Patchable(d, b) => Patchable(c, b) /\ d[b - 1][1] = c[b - 1][1]
    <3> SUFFICES ASSUME Patchable(d, b) PROVE Patchable(c, b) /\ d[b - 1][1] = c[b - 1][1]
      OBVIOUS
    <3>1. b - 1 \in 1..Len(c)
      BY <1>1 DEF Patchable
    <3> QED BY <3>1, <1>3 DEF Patchable
  <2>3. e[b] = d[b] \/ (Patchable(d, b) /\ (d[b - 1][1] = "link" => e[b][2] \in Nat))
    BY <2>1 DEF Extends
  <2>4. d[b] = c[b] \/ (Patchable(c, b) /\ (c[b - 1][1] = "link" => d[b][2] \in Nat))
    BY DEF Extends
  <2> QED BY <2>2, <2>3, <2>4
<1>5. ASSUME Len(c) < Len(e) PROVE IsPlace(e, Len(c) + 1)
  <2>1. CASE Len(c) < Len(d)
    <3>1. IsPlace(d, Len(c) + 1) /\ Len(c) + 1 \in 1..Len(d)
      BY <2>1, <1>1 DEF Extends
    <3>2. e[Len(c) + 1][1] = d[Len(c) + 1][1]
      BY <3>1 DEF Extends
    <3> QED BY <3>1, <3>2 DEF IsPlace
  <2>2. CASE Len(c) = Len(d)
    BY <2>2, <1>5 DEF Extends
  <2> QED BY <2>1, <2>2, <1>1
<1> QED BY <1>1, <1>2, <1>3, <1>4, <1>5 DEF Extends

\* Cells and layouts added at the end extend a definition.
LEMMA Joined ==
    ASSUME NEW c \in Cells, NEW T \in Seq(Layouts), Len(T) = Len(c) + 1,
           NEW x \in Cells, NEW L \in Seq(Layouts), Len(L) = Len(x), 1 <= Len(x), x[1][1] \notin Data
    PROVE  /\ Extends(c, T, c \o x, T \o L)
           /\ c \o x \in Cells /\ T \o L \in Seq(Layouts)
           /\ Len(c \o x) = Len(c) + Len(x) /\ Len(T \o L) = Len(c \o x) + 1
           /\ Len(c) \in Nat /\ Len(x) \in Nat
           /\ \A b \in 1..Len(c) : (c \o x)[b] = c[b]
           /\ \A i \in 1..Len(x) : (c \o x)[Len(c) + i] = x[i] /\ (T \o L)[Len(T) + i] = L[i]
           /\ \A b \in 1..Len(T) : (T \o L)[b] = T[b]
<1> DEFINE d == c \o x
           U == T \o L
<1>1. /\ d \in Cells /\ Len(d) = Len(c) + Len(x) /\ Len(c) \in Nat /\ Len(x) \in Nat
      /\ \A i \in 1..Len(c) + Len(x) : d[i] = IF i <= Len(c) THEN c[i] ELSE x[i - Len(c)]
  BY ConcatProperties, LenProperties DEF Cells
<1>2. /\ U \in Seq(Layouts) /\ Len(U) = Len(T) + Len(L) /\ Len(T) \in Nat /\ Len(L) \in Nat
      /\ \A i \in 1..Len(T) + Len(L) : U[i] = IF i <= Len(T) THEN T[i] ELSE L[i - Len(T)]
  <2>1. Len(T) \in Nat /\ Len(L) \in Nat
    OBVIOUS
  <2>2. /\ U \in Seq(Layouts) /\ Len(U) = Len(T) + Len(L)
        /\ \A i \in 1..Len(T) + Len(L) : U[i] = IF i <= Len(T) THEN T[i] ELSE L[i - Len(T)]
    BY ConcatProperties, ZenonT(30)
  <2> QED BY <2>1, <2>2
<1> HIDE DEF d, U
<1>3. \A b \in 1..Len(c) : d[b] = c[b]
  BY <1>1
<1>4. \A b \in 1..Len(T) : U[b] = T[b]
  BY <1>2
<1>5. ASSUME NEW i \in 1..Len(x) PROVE d[Len(c) + i] = x[i] /\ U[Len(T) + i] = L[i]
  <2>1. Len(c) + i \in 1..Len(c) + Len(x) /\ ~(Len(c) + i <= Len(c)) /\ (Len(c) + i) - Len(c) = i
    BY <1>1
  <2>2. Len(T) + i \in 1..Len(T) + Len(L) /\ ~(Len(T) + i <= Len(T)) /\ (Len(T) + i) - Len(T) = i
    BY <1>1, <1>2
  <2> QED BY <2>1, <2>2, <1>1, <1>2
<1>6. IsPlace(d, Len(c) + 1)
  <2>1. 1 \in 1..Len(x)
    BY <1>1
  <2> QED BY <2>1, <1>5 DEF IsPlace, Data
<1>7. Extends(c, T, d, U)
  BY <1>1, <1>2, <1>3, <1>4, <1>6 DEF Extends
<1> QED BY <1>1, <1>2, <1>3, <1>4, <1>5, <1>7 DEF d, U

\* The room of a frame is the same while the operand of its LINK is.
LEMMA RoomSame ==
    ASSUME NEW c, NEW d, NEW v, NEW x, IsLink(c, x), v.count \in Nat, c \in Cells, d[x] = c[x]
    PROVE  Room(c, v, x) <= Room(d, v, x) /\ Room(c, v, x) \in Int /\ Room(d, v, x) \in Int
<1>1. c[x] \in Names \X Int
  BY ElementOfSeq DEF IsLink, Cells
<1>2. c[x][2] \in Int
  BY <1>1
<1> QED BY <1>2 DEF Room

\* An instruction with its cells can be added to a definition when it is known where it
\* goes, or, if it is a jump, when its operand is still to be filled in.
LEMMA FlowsMany ==
    ASSUME NEW c, NEW s, NEW v, NEW T, NEW X, Flows(c, s, v, T, X), Len(T) = Len(c) + 1, v.count \in Nat,
           NEW x \in Cells, NEW L \in Seq(Layouts), Len(L) = Len(x), 1 <= Len(x), x[1][1] \notin Data,
           \A i \in 2..Len(x) : x[i][1] \in Data,
           NEW Y, X \subseteq Y,
           Rest(c \o x, s, T \o L, Len(c) + 1),
           Jumped(c \o x, T \o L, Len(c) + 1) \/ Len(c) + 2 \in Y,
           Roomy(c, v, T[Len(T)])
    PROVE  Flows(c \o x, s, v, T \o L, Y)
<1> DEFINE d == c \o x
           U == T \o L
<1>1. /\ c \in Cells /\ T \in Seq(Layouts) /\ Len(c) \in Nat /\ Len(T) \in Nat /\ T[Len(T)] \in Layouts
  BY FlowsFacts
<1>2. /\ Extends(c, T, d, U)
      /\ d \in Cells /\ U \in Seq(Layouts)
      /\ Len(d) = Len(c) + Len(x) /\ Len(U) = Len(d) + 1
      /\ Len(c) \in Nat /\ Len(x) \in Nat
      /\ \A b \in 1..Len(c) : d[b] = c[b]
      /\ \A i \in 1..Len(x) : d[Len(c) + i] = x[i] /\ U[Len(T) + i] = L[i]
      /\ \A b \in 1..Len(T) : U[b] = T[b]
  BY <1>1, Joined, SMTT(30)
<1>3. Rest(d, s, U, Len(c) + 1) /\ (Jumped(d, U, Len(c) + 1) \/ Len(c) + 2 \in Y)
  OBVIOUS
<1> HIDE DEF d, U
<1>4. ASSUME NEW y, IsLink(c, y)
      PROVE  Room(c, v, y) <= Room(d, v, y) /\ Room(c, v, y) \in Int /\ Room(d, v, y) \in Int
  <2>1. d[y] = c[y]
    BY <1>2, <1>4 DEF IsLink
  <2> QED BY <2>1, <1>1, <1>4, RoomSame
<1>5. ASSUME NEW a \in 1..Len(c)
      PROVE  \/ a + 1 \notin X /\ d[a + 1] = c[a + 1]
             \/ a + 1 \in Y
             \/ Jumped(c, T, a) /\ d[a + 1] = c[a + 1]
             \/ Jumped(d, U, a)
  <2>1. CASE a + 1 \in X
    BY <2>1
  <2>2. CASE a + 1 \in 1..Len(c) /\ a + 1 \notin X
    BY <2>2, <1>2
  <2>3. CASE a = Len(c) /\ a + 1 \notin X
    <3>1. ASSUME IsPlace(c, a) PROVE Jumped(d, U, a)
      <4>1. Rest(c, s, T, a)
        BY <3>1 DEF Flows
      <4>2. c[a][1] \notin Branches \cup Loopings \cup Dos
        BY <4>1, <2>3, <1>1 DEF Rest, HasOperand, Branches, Loopings, Dos, Gets, Tos
      <4> QED BY <4>2, <1>2 DEF Jumped
    <3>2. ASSUME ~IsPlace(c, a) PROVE Jumped(d, U, a)
      <4>1. d[a][1] \in Data
        BY <3>2, <1>2 DEF IsPlace, Data
      <4> QED BY <4>1 DEF Jumped, Data, Branches, Loopings, Dos
    <3> QED BY <3>1, <3>2
  <2> QED BY <2>1, <2>2, <2>3, <1>1
<1>6. ASSUME NEW a \in Len(c) + 1..Len(d), IsPlace(d, a)
      PROVE  Rest(d, s, U, a) /\ Roomy(d, v, U[a]) /\ (Jumped(d, U, a) \/ a + 1 \in Y)
  <2>1. a = Len(c) + 1
    <3> SUFFICES ASSUME a # Len(c) + 1 PROVE FALSE
      OBVIOUS
    <3> DEFINE i == a - Len(c)
    <3>1. i \in 2..Len(x) /\ i \in 1..Len(x) /\ a = Len(c) + i /\ a \in 1..Len(d)
      BY <1>2
    <3>2. d[a] = x[i] /\ x[i][1] \in Data
      BY <3>1, <1>2
    <3> QED BY <3>1, <3>2, <1>6 DEF IsPlace, Data
  <2>2. U[a] = T[Len(T)]
    <3>1. a = Len(T) /\ a \in 1..Len(T)
      BY <2>1, <1>1
    <3> QED BY <3>1, <1>2
  <2>3. Roomy(d, v, U[a])
    BY <2>2, <1>1, <1>2, <1>4, RoomyKept
  <2>4. (Len(c) + 1) + 1 = Len(c) + 2
    BY <1>1
  <2> QED BY <2>1, <2>3, <2>4, <1>3
<1>7. Flows(d, s, v, U, Y)
  BY <1>2, <1>4, <1>5, <1>6, FlowsKept
<1> QED BY <1>7 DEF d, U

\* What a definition that is being written is made of.
LEMMA BodyFacts ==
    ASSUME NEW c, NEW s, NEW v, NEW p, NEW T, Body(c, s, v, p, T)
    PROVE  /\ c \in Cells /\ T \in Seq(Layouts) /\ Len(c) \in Nat /\ Len(T) = Len(c) + 1
           /\ p \in Cells /\ Len(p) \in Nat
           /\ v.count \in Nat /\ v.fixup \in Nat
           /\ T[Len(T)] \in Layouts /\ Roomy(c, v, T[Len(T)])
           /\ T[Len(T)].loops = LoopsBelow(p, Len(p) + 1)
<1>1. c \in Cells /\ T \in Seq(Layouts) /\ Len(c) \in Nat /\ Len(T) = Len(c) + 1
  BY FlowsFacts DEF Body
<1>2. T[Len(T)] \in Layouts
  BY <1>1, ElementOfSeq
<1>3. v.count \in Nat /\ v.fixup \in Nat
  BY DEF Body, LocalsFit
<1>4. Roomy(c, v, T[Len(T)])
  <2> DEFINE l == T[Len(T)]
  <2>1. Len(l.slots) = v.count /\ l.link = (IF v.count > 0 THEN v.fixup ELSE 0) /\ (v.count > 0 => IsLink(c, v.fixup))
    BY DEF Body, LocalsFit
  <2>2. l.slots \in Seq(Nat)
    BY <1>2 DEF Layouts
  <2> HIDE DEF l
  <2>3. CASE v.count = 0
    <3>1. l.slots = << >>
      BY <2>1, <2>2, <2>3, EmptySeq
    <3> QED BY <2>1, <2>3, <3>1 DEF Roomy, l
  <2>4. CASE v.count > 0
    <3>1. Room(c, v, l.link) = v.count
      BY <2>1, <2>4 DEF Room
    <3>2. l.link # 0
      BY <2>1, <2>4 DEF IsLink
    <3> QED BY <2>1, <2>4, <3>1, <3>2, <1>3 DEF Roomy, l
  <2> QED BY <2>3, <2>4, <1>3
<1>5. p \in Cells /\ Len(p) \in Nat /\ T[Len(T)].loops = LoopsBelow(p, Len(p) + 1)
  BY DEF Body, Cells
<1> QED BY <1>1, <1>2, <1>3, <1>4, <1>5

\* The locals fit the layout of the extended code as they did before.
LEMMA LocalsFitKept ==
    ASSUME NEW c, NEW T, NEW d, NEW U, Extends(c, T, d, U), NEW v, NEW l, NEW m,
           LocalsFit(c, v, l), m.link = l.link, m.slots = l.slots
    PROVE  LocalsFit(d, v, m)
<1>1. ASSUME IsLink(c, v.fixup) /\ c[v.fixup][1] = "operand"
      PROVE  IsLink(d, v.fixup) /\ d[v.fixup][1] = "operand"
  <2>1. v.fixup \in 1..Len(c) /\ v.fixup - 1 \in 1..Len(c) /\ c[v.fixup - 1][1] = "link"
    BY <1>1 DEF IsLink
  <2>2. d[v.fixup][1] = "operand" /\ v.fixup \in 1..Len(d)
    BY <1>1, <2>1, ExtendsAt
  <2>3. d[v.fixup - 1][1] = "link" /\ v.fixup - 1 \in 1..Len(d)
    BY <2>1, ExtendsAt
  <2> QED BY <2>2, <2>3 DEF IsLink
<1> QED BY <1>1 DEF LocalsFit

(* New cells that leave the marks and the layout at their end as they were. *)
LEMMA BodyGrown ==
    ASSUME NEW c, NEW s, NEW v, NEW p, NEW T, Body(c, s, v, p, T), NEW d, NEW U, Extends(c, T, d, U),
           Flows(d, s, v, U, Open(p)), Len(U) = Len(d) + 1, U[Len(U)] = T[Len(T)]
    PROVE  Body(d, s, v, p, U)
<1>1. Len(p) \in Nat
  BY BodyFacts
<1>2. ASSUME NEW i \in 1..Len(p) PROVE Marked(d, U, p, i)
  BY <1>1, MarkedKept DEF Body
<1>3. LocalsFit(d, v, U[Len(U)])
  BY LocalsFitKept DEF Body
<1> QED BY <1>2, <1>3 DEF Body

\* The same layout for several places.
Filled(n, m) == [i \in 1..n |-> m]

(* Cells x after the code, the places in and after them with layout m. *)
LEMMA Laid ==
    ASSUME NEW c \in Cells, NEW T \in Seq(Layouts), Len(T) = Len(c) + 1, NEW m \in Layouts,
           NEW x \in Cells, 1 <= Len(x), x[1][1] \notin Data
    PROVE  LET d == c \o x
               U == T \o Filled(Len(x), m)
               a == Len(c) + 1 IN
           /\ Extends(c, T, d, U) /\ d \in Cells /\ U \in Seq(Layouts)
           /\ Filled(Len(x), m) \in Seq(Layouts) /\ Len(Filled(Len(x), m)) = Len(x)
           /\ Len(d) = Len(c) + Len(x) /\ Len(U) = Len(d) + 1 /\ Len(c) \in Nat /\ Len(x) \in Nat
           /\ \A b \in 1..Len(c) : d[b] = c[b]
           /\ \A i \in 1..Len(x) : d[Len(c) + i] = x[i]
           /\ a \in 1..Len(d) /\ d[a] = x[1] /\ U[a] = T[Len(T)]
           /\ At(d, U, Len(d) + 1, m) /\ U[Len(U)] = m
           /\ At(d, U, a, T[Len(T)])
<1> DEFINE d == c \o x
           L == Filled(Len(x), m)
           U == T \o L
           a == Len(c) + 1
<1>1. Len(x) \in Nat /\ Len(c) \in Nat
  BY DEF Cells
<1>2. L \in Seq(Layouts) /\ Len(L) = Len(x) /\ \A i \in 1..Len(x) : L[i] = m
  BY <1>1 DEF Filled
<1> HIDE DEF L
<1>3. /\ Extends(c, T, d, U)
      /\ d \in Cells /\ U \in Seq(Layouts)
      /\ Len(d) = Len(c) + Len(x) /\ Len(U) = Len(d) + 1
      /\ \A b \in 1..Len(c) : d[b] = c[b]
      /\ \A i \in 1..Len(x) : d[Len(c) + i] = x[i] /\ U[Len(T) + i] = L[i]
      /\ \A b \in 1..Len(T) : U[b] = T[b]
  BY <1>2, Joined
<1> HIDE DEF d, U
<1>4. 1 \in 1..Len(x) /\ Len(x) \in 1..Len(x) /\ Len(T) \in 1..Len(T)
  BY <1>1
<1>5. d[a] = x[1] /\ U[a] = T[Len(T)] /\ a \in 1..Len(d)
  BY <1>1, <1>3, <1>4
<1>6. U[Len(U)] = m /\ Len(U) \in 1..Len(U) /\ a + Len(x) = Len(U)
  <2>1. Len(U) = Len(T) + Len(x)
    BY <1>1, <1>3
  <2>2. U[Len(T) + Len(x)] = m
    BY <1>2, <1>3, <1>4
  <2> QED BY <2>1, <2>2, <1>1, <1>3
<1>7. At(d, U, Len(d) + 1, m)
  BY <1>1, <1>3, <1>6 DEF At, IsPlace
<1>8. At(d, U, a, T[Len(T)])
  <2>1. a \in 1..Len(U)
    BY <1>1, <1>3
  <2> QED BY <2>1, <1>5 DEF At, IsPlace, Data
<1> QED BY <1>1, <1>2, <1>3, <1>5, <1>6, <1>7, <1>8 DEF d, U, L, a

(* An instruction that is no jump, with the cells that belong to it. *)
LEMMA FlowsGrown ==
    ASSUME NEW c, NEW s, NEW v, NEW T, NEW X, Flows(c, s, v, T, X), Len(T) = Len(c) + 1, v.count \in Nat,
           Roomy(c, v, T[Len(T)]), NEW m \in Layouts,
           NEW x \in Cells, 1 <= Len(x), \A i \in 2..Len(x) : x[i][1] \in Data,
           x[1][1] \notin Data \cup Branches \cup Loopings \cup Dos,
           Rest(c \o x, s, T \o Filled(Len(x), m), Len(c) + 1)
    PROVE  Flows(c \o x, s, v, T \o Filled(Len(x), m), X)
<1> DEFINE d == c \o x
           L == Filled(Len(x), m)
           U == T \o L
<1>1. c \in Cells /\ T \in Seq(Layouts)
  BY FlowsFacts
<1>2. d[Len(c) + 1] = x[1] /\ L \in Seq(Layouts) /\ Len(L) = Len(x)
  BY <1>1, Laid
<1>3. Jumped(d, U, Len(c) + 1)
  <2> HIDE DEF d, U, L
  <2> QED BY <1>2 DEF Jumped
<1>4. Rest(d, s, U, Len(c) + 1)
  OBVIOUS
<1> HIDE DEF L
<1>5. Flows(d, s, v, U, X)
  BY <1>2, <1>3, <1>4, FlowsMany
<1> QED BY <1>5 DEF L

\* A definition is one still after an instruction that is no jump.
LEMMA BodyInstruction ==
    ASSUME NEW c, NEW s, NEW v, NEW p, NEW T, Body(c, s, v, p, T),
           NEW x \in Cells, 1 <= Len(x), \A i \in 2..Len(x) : x[i][1] \in Data,
           x[1][1] \notin Data \cup Branches \cup Loopings \cup Dos,
           Rest(c \o x, s, T \o Filled(Len(x), T[Len(T)]), Len(c) + 1)
    PROVE  Body(c \o x, s, v, p, T \o Filled(Len(x), T[Len(T)]))
<1>1. /\ c \in Cells /\ T \in Seq(Layouts) /\ Len(T) = Len(c) + 1 /\ v.count \in Nat
      /\ T[Len(T)] \in Layouts /\ Roomy(c, v, T[Len(T)]) /\ Flows(c, s, v, T, Open(p))
  BY BodyFacts DEF Body
<1> DEFINE d == c \o x
           L == Filled(Len(x), T[Len(T)])
           U == T \o L
<1>2. Extends(c, T, d, U) /\ Len(U) = Len(d) + 1 /\ U[Len(U)] = T[Len(T)]
  BY <1>1, Laid
<1>3. Flows(d, s, v, U, Open(p))
  BY <1>1, FlowsGrown
<1> HIDE DEF d, U
<1>4. Body(d, s, v, p, U)
  BY <1>2, <1>3, BodyGrown
<1> QED BY <1>4 DEF d, U

-----------------------------------------------------------------------------
(* Definitions as the words that compile see them.                         *)

\* The parts of a definition that is being written.
LEMMA DefFields ==
    ASSUME NEW c, NEW p, NEW v
    PROVE  /\ Def(c, p, v).code = c /\ Def(c, p, v).control = p
           /\ Def(c, p, v).locals = v /\ Ok(Def(c, p, v))
BY DEF Def, Ok, NoError

\* One cell more.
LEMMA DefEmit ==
    ASSUME NEW c, NEW p, NEW v, NEW x
    PROVE  Emit(Def(c, p, v), x) = Def(Append(c, x), p, v)
BY SMTT(20) DEF Emit, Def

\* Several cells more.
LEMMA DefEmits ==
    ASSUME NEW c, NEW p, NEW v, NEW x
    PROVE  Emits(Def(c, p, v), x) = Def(c \o x, p, v)
BY SMTT(20) DEF Emits, Def

\* One mark more on the data stack.
LEMMA DefPush ==
    ASSUME NEW c, NEW p, NEW v, NEW x
    PROVE  Push(Def(c, p, v), x) = Def(c, Append(p, x), v)
BY SMTT(20) DEF Push, Def

\* One mark less.
LEMMA DefPop ==
    ASSUME NEW c, NEW p, NEW v
    PROVE  Pop(Def(c, p, v)) = Def(c, Front(p), v)
BY SMTT(20) DEF Pop, Def

\* An operand filled in.
LEMMA DefPatchTo ==
    ASSUME NEW c, NEW p, NEW v, NEW a, NEW n
    PROVE  PatchTo(Def(c, p, v), a, n) = Def([c EXCEPT ![a] = Operand(n)], p, v)
BY SMTT(20) DEF PatchTo, Def

\* What the words that compile read of a definition.
LEMMA DefReads ==
    ASSUME NEW c, NEW p, NEW v
    PROVE  /\ HereOf(Def(c, p, v)) = Len(c) + 1 /\ TopAddress(Def(c, p, v)) = Last(p)[2]
           /\ \A t : TopIs(Def(c, p, v), t) <=> p # << >> /\ Last(p) = Tag(t)
BY DefFields DEF HereOf, TopAddress, TopIs

\* A definition in which a word threw is not accepted.
LEMMA DefFail ==
    ASSUME NEW c, NEW p, NEW v
    PROVE  ~Ok(Fail(Def(c, p, v)))
BY DEF Fail, Def, Ok

\* A definition with its layouts is a good one.
LEMMA GoodDef ==
    ASSUME NEW c, NEW s, NEW v, NEW p, NEW T, Body(c, s, v, p, T)
    PROVE  Good(Def(c, p, v), s)
BY DefFields DEF Good

\* Cells laid after the code with one layout are what they were meant to be.
LEMMA LaidAdded ==
    ASSUME NEW c \in Cells, NEW T \in Seq(Layouts), Len(T) = Len(c) + 1, NEW m \in Layouts,
           NEW x \in Cells, 1 <= Len(x), x[1][1] \notin Data
    PROVE  Added(c, c \o x, T \o Filled(Len(x), m), x, T[Len(T)], m)
<1>1. Len(c \o x) = Len(c) + Len(x)
  BY ConcatProperties DEF Cells
<1>2. Len(c) + 1 \in 1..Len(c \o x)
  BY Laid
<1>3. \A i \in 1..Len(x) : (c \o x)[Len(c) + i] = x[i]
  BY Laid
<1>4. (T \o Filled(Len(x), m))[Len(c) + 1] = T[Len(T)]
  BY Laid
<1>5. At(c \o x, T \o Filled(Len(x), m), Len(c \o x) + 1, m)
  BY Laid
<1> QED BY <1>1, <1>2, <1>3, <1>4, <1>5 DEF Added

\* Cells laid after the code with one layout extend it.
LEMMA LaidJoins ==
    ASSUME NEW c \in Cells, NEW T \in Seq(Layouts), Len(T) = Len(c) + 1, NEW m \in Layouts,
           NEW x \in Cells, 1 <= Len(x), x[1][1] \notin Data
    PROVE  Joins(c, T, c \o x, T \o Filled(Len(x), m), m)
<1> DEFINE d == c \o x
           U == T \o Filled(Len(x), m)
<1>1. Extends(c, T, d, U) /\ Len(U) = Len(d) + 1 /\ U[Len(U)] = m
  BY Laid
<1> HIDE DEF d, U
<1>2. Joins(c, T, d, U, m)
  BY <1>1 DEF Joins
<1> QED BY <1>2 DEF d, U

\* A definition is good after an instruction, when that instruction goes on behind its
\* cells with the layout it was reached with, whatever the cells it is added to.
LEMMA GoodInstruction ==
    ASSUME NEW c, NEW s, NEW v, NEW p, NEW T, Body(c, s, v, p, T), NEW l, l = T[Len(T)],
           NEW x \in Cells, 1 <= Len(x), \A i \in 2..Len(x) : x[i][1] \in Data,
           x[1][1] \notin Data \cup Branches \cup Loopings \cup Dos,
           \A d, U : Added(c, d, U, x, l, l) => Rest(d, s, U, Len(c) + 1)
    PROVE  Good(Def(c \o x, p, v), s)
<1>1. c \in Cells /\ T \in Seq(Layouts) /\ Len(T) = Len(c) + 1 /\ T[Len(T)] \in Layouts
  BY BodyFacts
<1>2. Added(c, c \o x, T \o Filled(Len(x), T[Len(T)]), x, l, l)
  <2>1. x[1][1] \notin Data
    OBVIOUS
  <2> QED BY <1>1, <2>1, LaidAdded
<1>3. Rest(c \o x, s, T \o Filled(Len(x), T[Len(T)]), Len(c) + 1)
  BY <1>2
<1> QED BY <1>3, BodyInstruction, GoodDef

\* A cell, as cells.
LEMMA OneOf ==
    ASSUME NEW y \in Names \X Int
    PROVE  <<y>> \in Cells /\ Len(<<y>>) = 1 /\ <<y>>[1] = y
BY DEF Cells

\* Two cells, as cells.
LEMMA TwoOf ==
    ASSUME NEW y \in Names \X Int, NEW z \in Names \X Int
    PROVE  <<y, z>> \in Cells /\ Len(<<y, z>>) = 2 /\ <<y, z>>[1] = y /\ <<y, z>>[2] = z
BY DEF Cells

(* One instruction without an operand. *)
LEMMA OneCell ==
    ASSUME NEW c, NEW s, NEW v, NEW p, NEW T, Body(c, s, v, p, T), NEW w,
           w \in {"plain", "call"} \/ (w \in {"i", "leave"} /\ LoopsBelow(p, Len(p) + 1) > 0)
    PROVE  Good(Emit(Def(c, p, v), Instr(w)), s)
<1> DEFINE l == T[Len(T)]
           x == <<Instr(w)>>
<1>1. Instr(w) \in Names \X Int /\ Instr(w)[1] = w
  <2>1. w \in Names
    BY DEF Names
  <2> QED BY <2>1 DEF Instr
<1>2. x \in Cells /\ Len(x) = 1 /\ x[1] = Instr(w)
  BY <1>1, OneOf
<1>3. c \in Cells /\ Len(c) \in Nat /\ l.loops = LoopsBelow(p, Len(p) + 1)
  BY BodyFacts
<1>4. Append(c, Instr(w)) = c \o x
  BY <1>1, <1>3, AppendIsConcat DEF Cells
<1> HIDE DEF x, l
<1>5. ASSUME NEW d, NEW U, Added(c, d, U, x, l, l)
      PROVE  Rest(d, s, U, Len(c) + 1)
  <2>1. d[Len(c) + 1][1] = w /\ U[Len(c) + 1] = l /\ At(d, U, Len(c) + 1 + 1, l)
    BY <1>1, <1>2, <1>3, <1>5 DEF Added
  <2> QED BY <2>1, <1>3 DEF Rest
<1>6. w \notin Data \cup Branches \cup Loopings \cup Dos
  BY DEF Data, Branches, Loopings, Dos
<1>7. Good(Def(c \o x, p, v), s)
  <2>1. 1 <= Len(x) /\ \A i \in 2..Len(x) : x[i][1] \in Data
    BY <1>2
  <2>2. x[1][1] \notin Data \cup Branches \cup Loopings \cup Dos
    BY <1>1, <1>2, <1>6
  <2> QED BY <1>2, <1>5, <2>1, <2>2, GoodInstruction DEF l
<1>8. Emit(Def(c, p, v), Instr(w)) = Def(Append(c, Instr(w)), p, v)
  BY DefEmit
<1> QED BY <1>4, <1>7, <1>8

(* An instruction with its operand. *)
LEMMA LiteralCells ==
    ASSUME NEW c, NEW s, NEW v, NEW p, NEW T, Body(c, s, v, p, T), NEW n \in Int
    PROVE  Good(Emits(Def(c, p, v), Literal(n)), s)
<1> DEFINE l == T[Len(T)]
<1>1. CASE n \in -16..16
  <2>1. Literal(n) = <<Instr("plain")>>
    BY <1>1 DEF Literal
  <2>2. c \in Cells /\ Instr("plain") \in Names \X Int
    BY BodyFacts DEF Names, Instr
  <2>3. c \o <<Instr("plain")>> = Append(c, Instr("plain"))
    BY <2>2, AppendIsConcat DEF Cells
  <2>4. Good(Emit(Def(c, p, v), Instr("plain")), s)
    BY OneCell
  <2>5. Emit(Def(c, p, v), Instr("plain")) = Def(Append(c, Instr("plain")), p, v)
    BY DefEmit
  <2>6. Emits(Def(c, p, v), Literal(n)) = Def(c \o <<Instr("plain")>>, p, v)
    BY <2>1, DefEmits
  <2> QED BY <2>3, <2>4, <2>5, <2>6
<1>2. CASE n \notin -16..16
  <2> DEFINE x == <<Instr("literal"), Operand(n)>>
  <2>1. Literal(n) = x
    BY <1>2 DEF Literal
  <2>2. Instr("literal") \in Names \X Int /\ Operand(n) \in Names \X Int
    BY DEF Names, Instr, Operand
  <2>3. x \in Cells /\ Len(x) = 2 /\ x[1] = Instr("literal") /\ x[2] = Operand(n)
    BY <2>2, TwoOf
  <2>4. c \in Cells /\ Len(c) \in Nat
    BY BodyFacts
  <2> HIDE DEF x, l
  <2>5. ASSUME NEW d, NEW U, Added(c, d, U, x, l, l)
        PROVE  Rest(d, s, U, Len(c) + 1)
    <3>1. d[Len(c) + 1][1] = "literal" /\ U[Len(c) + 1] = l /\ At(d, U, Len(c) + 1 + 2, l)
      BY <2>3, <2>4, <2>5 DEF Added, Instr
    <3> QED BY <3>1 DEF Rest
  <2>6. 1 <= Len(x) /\ \A i \in 2..Len(x) : x[i][1] \in Data
    BY <2>3 DEF Operand, Data
  <2>7. x[1][1] \notin Data \cup Branches \cup Loopings \cup Dos
    BY <2>3 DEF Data, Branches, Loopings, Dos, Instr
  <2>8. Good(Def(c \o x, p, v), s)
    BY <2>3, <2>5, <2>6, <2>7, GoodInstruction DEF l
  <2> QED BY <2>1, <2>8, DefEmits
<1> QED BY <1>1, <1>2

\* A double-cell literal with its two operands.
LEMMA TwoLiteralCells ==
    ASSUME NEW c, NEW s, NEW v, NEW p, NEW T, Body(c, s, v, p, T), NEW n \in Int
    PROVE  Good(Emits(Def(c, p, v), <<Instr("2literal"), Operand(n), Operand(n)>>), s)
<1> DEFINE l == T[Len(T)]
           x == <<Instr("2literal"), Operand(n), Operand(n)>>
<1>1. Instr("2literal") \in Names \X Int /\ Operand(n) \in Names \X Int
  BY DEF Names, Instr, Operand
<1>2. x \in Cells /\ Len(x) = 3 /\ x[1] = Instr("2literal") /\ x[2] = Operand(n) /\ x[3] = Operand(n)
  BY <1>1 DEF Cells
<1>3. c \in Cells /\ Len(c) \in Nat
  BY BodyFacts
<1> HIDE DEF x, l
<1>4. ASSUME NEW d, NEW U, Added(c, d, U, x, l, l)
      PROVE  Rest(d, s, U, Len(c) + 1)
  <2>1. d[Len(c) + 1][1] = "2literal" /\ U[Len(c) + 1] = l /\ At(d, U, Len(c) + 1 + 3, l)
    BY <1>2, <1>3, <1>4 DEF Added, Instr
  <2> QED BY <2>1 DEF Rest
<1>5. 1 <= Len(x) /\ \A i \in 2..Len(x) : x[i][1] \in Data
  BY <1>2 DEF Operand, Data
<1>6. x[1][1] \notin Data \cup Branches \cup Loopings \cup Dos
  BY <1>2 DEF Data, Branches, Loopings, Dos, Instr
<1>7. Good(Def(c \o x, p, v), s)
  BY <1>2, <1>4, <1>5, <1>6, GoodInstruction DEF l
<1> QED BY <1>7, DefEmits DEF x

\* A number below the modulus is its own remainder.
LEMMA SmallModulus ==
    ASSUME NEW n \in Nat, NEW m \in Nat, n < m
    PROVE  n % m = n
<1>1. n = m * 0 + n /\ 0 \in Int
  OBVIOUS
<1> QED BY <1>1

\* A counted string takes at least one cell.
LEMMA TextCellsPositive ==
    ASSUME NEW n \in Nat
    PROVE  TextCells(n) \in Nat /\ 1 <= TextCells(n)
BY DEF TextCells, CellSize

\* A string with the cells its text takes: short of the length that wraps its counter,
\* the next instruction is where the virtual machine skips to.
LEMMA StringCells ==
    ASSUME NEW c, NEW s, NEW v, NEW p, NEW T, Body(c, s, v, p, T), NEW n \in Nat, n < CountBytes
    PROVE  Good(StringLiteral(Def(c, p, v), n), s)
<1> DEFINE l == T[Len(T)]
           y == <<Instr("sliteral"), Counted(n % CountBytes)>>
           z == [i \in 1..(TextCells(n) - 1) |-> Text]
           x == y \o z
<1>1. Instr("sliteral") \in Names \X Int /\ Counted(n) \in Names \X Int /\ Text \in Names \X Int
  BY DEF Names, Instr, Counted, Text
<1>2. n % CountBytes = n
  <2>1. CountBytes \in Nat
    BY StringsAssumption
  <2> QED BY <2>1, SmallModulus
<1>3. y \in Cells /\ Len(y) = 2 /\ y[1] = Instr("sliteral") /\ y[2] = Counted(n)
  BY <1>1, <1>2, TwoOf
<1>4. TextCells(n) \in Nat /\ 1 <= TextCells(n)
  BY TextCellsPositive
<1>5. z \in Cells /\ Len(z) = TextCells(n) - 1 /\ \A i \in 1..Len(z) : z[i] = Text
  <2> DEFINE k == TextCells(n) - 1
             S == Names \X Int
  <2>1. k \in Nat /\ Text \in S
    BY <1>1, <1>4
  <2> HIDE DEF k, S
  <2>2. [i \in 1..k |-> Text] \in Seq(S) /\ Len([i \in 1..k |-> Text]) = k
    BY <2>1
  <2>3. \A i \in 1..k : [j \in 1..k |-> Text][i] = Text
    OBVIOUS
  <2> QED BY <2>2, <2>3 DEF k, S, Cells
<1> HIDE DEF y, z
<1>6. /\ x \in Cells /\ Len(x) = TextCells(n) + 1
      /\ \A i \in 1..Len(y) + Len(z) : x[i] = IF i <= Len(y) THEN y[i] ELSE z[i - Len(y)]
  <2>1. /\ x \in Cells /\ Len(x) = Len(y) + Len(z)
        /\ \A i \in 1..Len(y) + Len(z) : x[i] = IF i <= Len(y) THEN y[i] ELSE z[i - Len(y)]
    BY <1>3, <1>5, ConcatProperties DEF Cells
  <2> QED BY <2>1, <1>3, <1>4, <1>5
<1>7. c \in Cells /\ Len(c) \in Nat
  BY BodyFacts
<1> HIDE DEF x, l
<1>8. x[1] = Instr("sliteral") /\ x[2] = Counted(n) /\ \A i \in 2..Len(x) : x[i][1] \in Data
  <2>1. x[1] = Instr("sliteral") /\ x[2] = Counted(n)
    BY <1>3, <1>4, <1>5, <1>6
  <2>2. ASSUME NEW i \in 2..Len(x) PROVE x[i][1] \in Data
    <3>1. CASE i = 2
      BY <3>1, <2>1 DEF Counted, Data
    <3>2. CASE i # 2
      <4>1. i - 2 \in 1..Len(z) /\ i \in 1..Len(y) + Len(z) /\ ~(i <= Len(y))
        BY <3>2, <1>3, <1>4, <1>5, <1>6
      <4> QED BY <4>1, <1>3, <1>5, <1>6 DEF Text, Data
    <3> QED BY <3>1, <3>2
  <2> QED BY <2>1, <2>2
<1>9. ASSUME NEW d, NEW U, Added(c, d, U, x, l, l)
      PROVE  Rest(d, s, U, Len(c) + 1)
  <2>1. d[Len(c) + 1] = x[1] /\ d[Len(c) + 2] = x[2] /\ U[Len(c) + 1] = l /\ At(d, U, Len(d) + 1, l)
    BY <1>4, <1>6, <1>7, <1>9 DEF Added
  <2>2. (Len(c) + 1) + 1 \in 1..Len(d) /\ Len(d) + 1 = Len(c) + 1 + 1 + TextCells(n)
    BY <1>4, <1>6, <1>7, <1>9 DEF Added
  <2>3. d[Len(c) + 1][1] = "sliteral" /\ d[(Len(c) + 1) + 1][2] = n
    BY <2>1, <1>7, <1>8 DEF Instr, Counted
  <2>4. At(d, U, Len(c) + 1 + 1 + TextCells(n), l)
    BY <2>1, <2>2
  <2> QED BY <2>1, <2>2, <2>3, <2>4 DEF Rest
<1>10. x[1][1] \notin Data \cup Branches \cup Loopings \cup Dos
  BY <1>8 DEF Data, Branches, Loopings, Dos, Instr
<1>11. 1 <= Len(x)
  BY <1>4, <1>6
<1>12. Good(Def(c \o x, p, v), s)
  BY <1>6, <1>8, <1>9, <1>10, <1>11, GoodInstruction DEF l
<1>13. StringLiteral(Def(c, p, v), n) = Def(c \o x, p, v)
  BY DefEmits DEF StringLiteral, x, y, z
<1> QED BY <1>12, <1>13

-----------------------------------------------------------------------------
(* Locals: reading them and writing to them; EXIT and the end of locals.   *)

\* The instructions that read and write locals, in their three forms.
GetNames == <<"get", "get0", "get1">>
ToNames  == <<"to", "to0", "to1">>
Kinds    == {"local", "2local", "flocal"}

(* What the layout says of local n. *)
LEMMA LocalFits ==
    ASSUME NEW c, NEW s, NEW v, NEW p, NEW T, Body(c, s, v, p, T), NEW n \in 1..Len(v.words)
    PROVE  LET o == v.words[n].offset
               w == Width(v.words[n].kind)
               l == T[Len(T)] IN
           /\ o \in Nat /\ v.words[n].kind \in Kinds /\ w \in {1, 2} /\ o + w <= Len(l.slots)
           /\ \A i \in 1..w : l.slots[o + i] = n
           /\ l.link # 0 /\ l.slots \in Seq(Nat) /\ l \in Layouts
<1>1. LocalsFit(c, v, T[Len(T)]) /\ T[Len(T)] \in Layouts
  BY BodyFacts DEF Body
<1>2. v.words \in Seq([offset : Nat, kind : Kinds])
  BY <1>1 DEF LocalsFit, Kinds
<1>3. v.words[n] \in [offset : Nat, kind : Kinds]
  BY <1>2, ElementOfSeq
<1>4. v.words[n].offset \in Nat /\ v.words[n].kind \in Kinds
  BY <1>3
<1>5. Width(v.words[n].kind) \in {1, 2}
  BY DEF Width
<1>6. v.words[n].offset + Width(v.words[n].kind) <= v.count /\ v.count = Len(T[Len(T)].slots) /\ v.count \in Nat
      /\ \A i \in 1..Width(v.words[n].kind) : T[Len(T)].slots[v.words[n].offset + i] = n
  BY <1>1 DEF LocalsFit
<1>7. v.count > 0
  BY <1>4, <1>5, <1>6
<1>8. T[Len(T)].link # 0
  BY <1>1, <1>7 DEF LocalsFit, IsLink
<1> QED BY <1>1, <1>4, <1>5, <1>6, <1>8 DEF Layouts

\* An instruction for a local that finds the slots it expects goes on behind its cells.
LEMMA AccessRest ==
    ASSUME NEW d, NEW U, NEW s, NEW a \in Nat, NEW l \in Layouts, U[a] = l, l.link # 0, NEW o \in Nat, NEW w \in {1, 2},
           o + w <= Len(l.slots), NEW k \in DOMAIN s, WordAt(s, k, a), \A i \in 1..w : l.slots[o + i] = s[k].local,
           d[a][1] \in Gets \cup Tos, d[a][2] = w, OffsetAt(d, a) = o, At(d, U, a + LocalSize(d, a), l)
    PROVE  Rest(d, s, U, a)
<1>1. CASE d[a][1] \in Gets
  <2>1. Reads(d, s, l, a)
    BY DEF Reads
  <2> QED BY <1>1, <2>1 DEF Rest
<1>2. CASE d[a][1] \in Tos
  <2>1. \A i \in 1..Len(l.slots) : i \in o + 1..o + w => l.slots[i] = s[k].local
    <3> SUFFICES ASSUME NEW i \in 1..Len(l.slots), i \in o + 1..o + w PROVE l.slots[i] = s[k].local
      OBVIOUS
    <3>1. i - o \in 1..w /\ o + (i - o) = i
      OBVIOUS
    <3> QED BY <3>1
  <2>2. Stores(d, s, l, l, a)
    BY <2>1 DEF Stores
  <2> QED BY <1>2, <2>2 DEF Rest
<1> QED BY <1>1, <1>2

\* Reading or writing a local, in any of the three forms of its instruction.
LEMMA AccessCells ==
    ASSUME NEW c, NEW s, NEW v, NEW p, NEW T, Body(c, s, v, p, T), NEW n \in 1..Len(v.words),
           NEW k \in DOMAIN s, \A a \in Nat : Len(c) + 1 <= a => WordAt(s, k, a), s[k].local = n,
           NEW names \in {GetNames, ToNames}
    PROVE  Good(Access(Def(c, p, v), names, v.words[n]), s)
<1> DEFINE o == v.words[n].offset
           kind == v.words[n].kind
           w == Width(kind)
           l == T[Len(T)]
           a == Len(c) + 1
<1>1. /\ o \in Nat /\ kind \in Kinds /\ w \in {1, 2} /\ o + w <= Len(l.slots)
      /\ \A i \in 1..w : l.slots[o + i] = s[k].local
      /\ l.link # 0 /\ l \in Layouts
  BY LocalFits
<1>2. c \in Cells /\ Len(c) \in Nat
  BY BodyFacts
<1>3. WordAt(s, k, a) /\ a \in Nat
  BY <1>2
<1>4. CASE kind # "flocal" /\ (o = 0 \/ (o = 1 /\ w = 1))
  <2> DEFINE y == <<IF o = 0 THEN names[2] ELSE names[3], w>>
             x == <<y>>
  <2>1. /\ y[1] \in {"get0", "to0", "get1", "to1"} /\ (y[1] \in {"get1", "to1"} <=> o = 1) /\ y[2] = w
        /\ y \in Names \X Int
    BY <1>1, <1>4 DEF GetNames, ToNames, Names
  <2>2. Access(Def(c, p, v), names, v.words[n]) = Emit(Def(c, p, v), y)
    BY <1>4 DEF Access
  <2> HIDE DEF y, o, w, kind, l
  <2>3. x \in Cells /\ Len(x) = 1 /\ x[1] = y
    BY <2>1, OneOf
  <2>4. Append(c, y) = c \o x
    BY <2>1, <1>2, AppendIsConcat DEF Cells
  <2> HIDE DEF x
  <2>5. ASSUME NEW d, NEW U, Added(c, d, U, x, l, l)
        PROVE  Rest(d, s, U, a)
    <3>1. d[a] = y /\ U[a] = l /\ At(d, U, a + 1, l)
      BY <2>3, <2>5, <1>2 DEF Added
    <3>2. OffsetAt(d, a) = o /\ LocalSize(d, a) = 1
      BY <2>1, <3>1, <1>4 DEF OffsetAt, LocalSize
    <3>3. d[a][1] \in Gets \cup Tos /\ d[a][2] = w
      BY <2>1, <3>1 DEF Gets, Tos
    <3> HIDE DEF a
    <3> QED BY <1>1, <1>3, <3>1, <3>2, <3>3, AccessRest
  <2>6. 1 <= Len(x) /\ \A i \in 2..Len(x) : x[i][1] \in Data
    BY <2>3
  <2>7. x[1][1] \notin Data \cup Branches \cup Loopings \cup Dos
    BY <2>1, <2>3 DEF Data, Branches, Loopings, Dos
  <2>8. Good(Def(c \o x, p, v), s)
    BY <2>3, <2>5, <2>6, <2>7, GoodInstruction DEF l
  <2>9. Emit(Def(c, p, v), y) = Def(Append(c, y), p, v)
    BY DefEmit
  <2> QED BY <2>2, <2>4, <2>8, <2>9
<1>5. CASE ~(kind # "flocal" /\ (o = 0 \/ (o = 1 /\ w = 1)))
  <2> DEFINE y == <<names[1], w>>
             x == <<y, Operand(o)>>
  <2>1. y[1] \in {"get", "to"} /\ y[2] = w /\ y \in Names \X Int /\ Operand(o) \in Names \X Int
    BY <1>1 DEF GetNames, ToNames, Names, Operand
  <2>2. Access(Def(c, p, v), names, v.words[n]) = Emits(Def(c, p, v), x)
    BY <1>5 DEF Access
  <2> HIDE DEF y, o, w, kind, l
  <2>3. x \in Cells /\ Len(x) = 2 /\ x[1] = y /\ x[2] = Operand(o)
    BY <2>1, TwoOf
  <2> HIDE DEF x
  <2>5. ASSUME NEW d, NEW U, Added(c, d, U, x, l, l)
        PROVE  Rest(d, s, U, a)
    <3>1. d[a] = y /\ d[a + 1] = Operand(o) /\ U[a] = l /\ At(d, U, a + 2, l)
      BY <2>3, <2>5, <1>2 DEF Added
    <3>2. OffsetAt(d, a) = o /\ LocalSize(d, a) = 2
      BY <2>1, <3>1 DEF OffsetAt, LocalSize, Operand
    <3>3. d[a][1] \in Gets \cup Tos /\ d[a][2] = w
      BY <2>1, <3>1 DEF Gets, Tos
    <3> HIDE DEF a
    <3> QED BY <1>1, <1>3, <3>1, <3>2, <3>3, AccessRest
  <2>6. 1 <= Len(x) /\ \A i \in 2..Len(x) : x[i][1] \in Data
    BY <2>3 DEF Operand, Data
  <2>7. x[1][1] \notin Data \cup Branches \cup Loopings \cup Dos
    BY <2>1, <2>3 DEF Data, Branches, Loopings, Dos
  <2>8. Good(Def(c \o x, p, v), s)
    BY <2>3, <2>5, <2>6, <2>7, GoodInstruction DEF l
  <2>9. Emits(Def(c, p, v), x) = Def(c \o x, p, v)
    BY DefEmits
  <2> QED BY <2>2, <2>8, <2>9
<1> QED BY <1>4, <1>5

\* A definition extends itself.
LEMMA ExtendsItself ==
    ASSUME NEW c, NEW s, NEW v, NEW T, NEW X, Flows(c, s, v, T, X)
    PROVE  Extends(c, T, c, T)
<1>1. c \in Cells /\ T \in Seq(Layouts) /\ Len(c) \in Nat /\ Len(T) \in Nat /\ Len(T) \in {Len(c), Len(c) + 1}
  BY FlowsFacts DEF Flows
<1> QED BY <1>1 DEF Extends

(* The record of locals may change when it gives each frame no less room. *)
LEMMA FlowsLocals ==
    ASSUME NEW c, NEW s, NEW v, NEW w, NEW T, NEW X, Flows(c, s, v, T, X),
           \A x : IsLink(c, x) => Room(c, v, x) <= Room(c, w, x) /\ Room(c, v, x) \in Int /\ Room(c, w, x) \in Int
    PROVE  Flows(c, s, w, T, X)
<1>1. Extends(c, T, c, T) /\ Len(c) \in Nat /\ Len(T) \in {Len(c), Len(c) + 1}
  BY ExtendsItself, FlowsFacts DEF Flows
<1>2. \A a \in 1..Len(c) : \/ a + 1 \notin X /\ c[a + 1] = c[a + 1]
                           \/ a + 1 \in X
                           \/ Jumped(c, T, a) /\ c[a + 1] = c[a + 1]
                           \/ Jumped(c, T, a)
  OBVIOUS
<1>3. \A a \in Len(c) + 1..Len(c) : IsPlace(c, a) =>
         Rest(c, s, T, a) /\ Roomy(c, w, T[a]) /\ (Jumped(c, T, a) \/ a + 1 \in X)
  BY <1>1
<1> QED BY <1>1, <1>2, <1>3, FlowsKept

\* An instruction of one cell added to a definition, with the layout it leaves.
LEMMA FlowsTurn ==
    ASSUME NEW c, NEW s, NEW v, NEW T, NEW X, Flows(c, s, v, T, X), Len(T) = Len(c) + 1, v.count \in Nat,
           Roomy(c, v, T[Len(T)]), NEW w, NEW m \in Layouts, Turns(w, T[Len(T)], m)
    PROVE  Extended(c, s, v, T, X, Append(c, Instr(w)), m)
<1> DEFINE l == T[Len(T)]
           x == <<Instr(w)>>
           d == c \o x
           U == T \o Filled(Len(x), m)
<1>1. w \in {"plain", "unloop", "unlink", "exit", "does>"}
  BY DEF Turns
<1>2. Instr(w) \in Names \X Int /\ Instr(w)[1] = w
  <2>1. w \in Names
    BY <1>1 DEF Names
  <2> QED BY <2>1 DEF Instr
<1>3. x \in Cells /\ Len(x) = 1 /\ x[1] = Instr(w)
  BY <1>2, OneOf
<1>4. c \in Cells /\ T \in Seq(Layouts) /\ Len(c) \in Nat
  BY FlowsFacts
<1>5. Append(c, Instr(w)) = d
  BY <1>2, <1>4, AppendIsConcat DEF Cells
<1> HIDE DEF x
<1>6. x[1][1] \notin Data \cup Branches \cup Loopings \cup Dos /\ x[1][1] \notin Data /\ 1 <= Len(x)
      /\ \A i \in 2..Len(x) : x[i][1] \in Data
  BY <1>1, <1>2, <1>3 DEF Data, Branches, Loopings, Dos
<1>7. Added(c, d, U, x, l, m)
  BY <1>3, <1>4, <1>6, LaidAdded
<1>8. Extends(c, T, d, U) /\ Len(U) = Len(d) + 1 /\ U[Len(U)] = m
  <2>1. Joins(c, T, d, U, m)
    BY <1>3, <1>4, <1>6, LaidJoins
  <2> HIDE DEF d, U
  <2> QED BY <2>1 DEF Joins
<1>9. Rest(d, s, U, Len(c) + 1)
  <2> HIDE DEF d, U, l
  <2>1. d[Len(c) + 1][1] = w /\ U[Len(c) + 1] = l /\ At(d, U, Len(c) + 1 + 1, m)
    BY <1>2, <1>3, <1>4, <1>7 DEF Added
  <2>2. Turns(w, l, m)
    BY DEF l
  <2> QED BY <2>1, <2>2 DEF Rest, Turns
<1>10. Flows(d, s, v, U, X)
  BY <1>3, <1>4, <1>6, <1>9, FlowsGrown
<1> HIDE DEF d, U
<1> QED BY <1>5, <1>8, <1>10 DEF Extended

\* Two extensions one after the other.
LEMMA ExtendedTwice ==
    ASSUME NEW c, NEW s, NEW v, NEW T, NEW X, NEW d, NEW U, NEW e, NEW m,
           Extends(c, T, d, U), Extended(d, s, v, U, X, e, m)
    PROVE  Extended(c, s, v, T, X, e, m)
<1>1. PICK V : Flows(e, s, v, V, X) /\ Extends(d, U, e, V) /\ Len(V) = Len(e) + 1 /\ V[Len(V)] = m
  BY DEF Extended
<1>2. Extends(c, T, e, V)
  BY <1>1, ExtendsTransitive
<1> QED BY <1>1, <1>2 DEF Extended

(* Room does not depend on what follows. *)
LEMMA RoomyLooped ==
    ASSUME NEW c, NEW v, NEW l, Roomy(c, v, l), NEW n
    PROVE  Roomy(c, v, Looped(l, n))
BY DEF Roomy, Looped

\* The layout with nothing above the return address needs no room.
LEMMA BareRoomy ==
    ASSUME NEW c, NEW v
    PROVE  Roomy(c, v, Bare) /\ Bare \in Layouts
BY DEF Roomy, Bare, Layouts

\* A frame has the room it had when the code before has not changed.
LEMMA RoomyGrown ==
    ASSUME NEW c, NEW T, NEW d, NEW U, Extends(c, T, d, U), NEW v, v.count \in Nat, NEW l \in Layouts, Roomy(c, v, l),
           \A b \in 1..Len(c) : d[b] = c[b]
    PROVE  Roomy(d, v, l)
<1>1. c \in Cells
  BY DEF Extends
<1>2. ASSUME NEW x, IsLink(c, x)
      PROVE  Room(c, v, x) <= Room(d, v, x) /\ Room(c, v, x) \in Int /\ Room(d, v, x) \in Int
  <2>1. d[x] = c[x]
    BY <1>2 DEF IsLink
  <2> QED BY <2>1, <1>1, <1>2, RoomSame
<1> QED BY <1>2, RoomyKept

\* The cells of a code with one instruction more.
LEMMA Appended ==
    ASSUME NEW c \in Cells, NEW w \in Names
    PROVE  /\ Append(c, Instr(w)) \in Cells /\ Len(Append(c, Instr(w))) = Len(c) + 1
           /\ \A b \in 1..Len(c) : Append(c, Instr(w))[b] = c[b]
           /\ Append(c, Instr(w))[Len(c) + 1] = Instr(w)
<1>1. Instr(w) \in Names \X Int
  BY DEF Instr
<1> QED BY <1>1 DEF Cells

(* Out of the frame, if there is one, then out of the word. *)
LEMMA FlowsExit ==
    ASSUME NEW c, NEW s, NEW v, NEW T, NEW X, Flows(c, s, v, T, X), Len(T) = Len(c) + 1, v.count \in Nat,
           NEW l \in Layouts, T[Len(T)] = l, Roomy(c, v, l), l.loops = 0, Len(l.slots) = v.count, (l.link = 0) = (v.count = 0),
           NEW w, NEW m \in Layouts, Turns(w, Bare, m)
    PROVE  /\ v.count > 0 => Extended(c, s, v, T, X, Append(Append(c, Instr("unlink")), Instr(w)), m)
           /\ v.count = 0 => Extended(c, s, v, T, X, Append(c, Instr(w)), m)
<1>1. ASSUME v.count > 0
      PROVE  Extended(c, s, v, T, X, Append(Append(c, Instr("unlink")), Instr(w)), m)
  <2>1. Turns("unlink", l, Bare)
    BY <1>1 DEF Turns
  <2>2. Extended(c, s, v, T, X, Append(c, Instr("unlink")), Bare)
    BY <2>1, FlowsTurn, BareRoomy
  <2> DEFINE d == Append(c, Instr("unlink"))
  <2>3. PICK U : Flows(d, s, v, U, X) /\ Extends(c, T, d, U) /\ Len(U) = Len(d) + 1 /\ U[Len(U)] = Bare
    BY <2>2 DEF Extended
  <2> HIDE DEF d
  <2>4. Roomy(d, v, U[Len(U)]) /\ Turns(w, U[Len(U)], m)
    BY <2>3, BareRoomy
  <2>5. Extended(d, s, v, U, X, Append(d, Instr(w)), m)
    BY <2>3, <2>4, FlowsTurn
  <2> QED BY <2>3, <2>5, ExtendedTwice DEF d
<1>2. ASSUME v.count = 0
      PROVE  Extended(c, s, v, T, X, Append(c, Instr(w)), m)
  <2>1. l = Bare
    <3>1. l.slots = << >>
      BY <1>2, EmptySeq DEF Layouts
    <3> QED BY <1>2, <3>1 DEF Layouts, Bare
  <2> QED BY <2>1, FlowsTurn
<1> QED BY <1>1, <1>2

\* EXIT outside loops.
LEMMA ExitGood ==
    ASSUME NEW c, NEW s, NEW v, NEW p, NEW T, Body(c, s, v, p, T), LoopsBelow(p, Len(p) + 1) = 0
    PROVE  Good(Exit(Def(c, p, v)), s)
<1> DEFINE l == T[Len(T)]
           e == IF v.count > 0 THEN Append(c, Instr("unlink")) ELSE c
           d == Append(e, Instr("exit"))
<1>1. /\ Flows(c, s, v, T, Open(p)) /\ Len(T) = Len(c) + 1 /\ v.count \in Nat /\ l \in Layouts
      /\ Roomy(c, v, l) /\ l.loops = 0
  BY BodyFacts DEF Body
<1>2. Len(l.slots) = v.count /\ (l.link = 0) = (v.count = 0)
  BY DEF Body, LocalsFit, IsLink
<1>3. Turns("exit", Bare, l)
  BY DEF Turns
<1>4. Extended(c, s, v, T, Open(p), d, l)
  <2> HIDE DEF l
  <2>1. T[Len(T)] = l
    BY DEF l
  <2>2. /\ v.count > 0 => Extended(c, s, v, T, Open(p), Append(Append(c, Instr("unlink")), Instr("exit")), l)
        /\ v.count = 0 => Extended(c, s, v, T, Open(p), Append(c, Instr("exit")), l)
    BY <1>1, <1>2, <1>3, <2>1, FlowsExit
  <2> QED BY <1>1, <2>2
<1> HIDE DEF d, l
<1>5. PICK U : Flows(d, s, v, U, Open(p)) /\ Extends(c, T, d, U) /\ Len(U) = Len(d) + 1 /\ U[Len(U)] = l
  BY <1>4 DEF Extended
<1>6. Body(d, s, v, p, U)
  BY <1>5, BodyGrown DEF l
<1>7. Exit(Def(c, p, v)) = Def(d, p, v)
  <2>1. Unlinked(Def(c, p, v)) = Def(e, p, v)
    BY DefFields, DefEmit DEF Unlinked
  <2> HIDE DEF e
  <2> QED BY <2>1, DefEmit DEF Exit, d
<1> QED BY <1>6, <1>7, GoodDef

\* UNLOOP is compiled once for each loop that is open.
LEMMA LoopsAre ==
    ASSUME NEW c, NEW p \in Cells, NEW v
    PROVE  Loops(Def(c, p, v)) = LoopsBelow(p, Len(p) + 1)
<1>1. Def(c, p, v).control = p
  BY DefFields
<1>2. DOMAIN p = 1..Len(p) /\ Len(p) \in Nat
  BY DEF Cells
<1>3. 1..(Len(p) + 1) - 1 = 1..Len(p)
  BY <1>2
<1> QED BY <1>1, <1>2, <1>3 DEF Loops, LoopsBelow

\* UNLOOP n times.
Unloops(n) == [i \in 1..n |-> Instr("unloop")]

\* Several UNLOOPs are one fewer and one more.
LEMMA UnloopsNext ==
    ASSUME NEW c \in Cells, NEW n \in Nat
    PROVE  /\ Unloops(n) \in Cells /\ c \o Unloops(0) = c
           /\ c \o Unloops(n + 1) = Append(c \o Unloops(n), Instr("unloop"))
           /\ \A b \in 1..Len(c) : (c \o Unloops(n))[b] = c[b]
<1>1. Instr("unloop") \in Names \X Int
  BY DEF Instr, Names
<1>2. ASSUME NEW k \in Nat PROVE Unloops(k) \in Cells /\ Len(Unloops(k)) = k /\ \A i \in 1..k : Unloops(k)[i] = Instr("unloop")
  BY <1>1 DEF Unloops, Cells
<1>3. ASSUME NEW k \in Nat
      PROVE  /\ c \o Unloops(k) \in Cells /\ Len(c \o Unloops(k)) = Len(c) + k
             /\ \A i \in 1..Len(c) + k : (c \o Unloops(k))[i] = IF i <= Len(c) THEN c[i] ELSE Unloops(k)[i - Len(c)]
  <2>1. Unloops(k) \in Cells /\ Len(Unloops(k)) = k
    BY <1>2
  <2> QED BY <2>1, ConcatProperties DEF Cells
<1>4. c \o Unloops(0) = c
  <2>1. Unloops(0) = << >>
    BY <1>2, EmptySeq DEF Cells
  <2> QED BY <2>1, ConcatEmptySeq DEF Cells
<1>5. c \o Unloops(n + 1) = Append(c \o Unloops(n), Instr("unloop"))
  <2> DEFINE d == c \o Unloops(n + 1)
             e == c \o Unloops(n)
             f == Append(e, Instr("unloop"))
  <2>1. /\ d \in Cells /\ Len(d) = Len(c) + (n + 1) /\ Len(c) \in Nat
        /\ \A i \in 1..Len(c) + (n + 1) : d[i] = IF i <= Len(c) THEN c[i] ELSE Unloops(n + 1)[i - Len(c)]
    <3>1. n + 1 \in Nat /\ Len(c) \in Nat
      BY DEF Cells
    <3>2. /\ d \in Cells /\ Len(d) = Len(c) + (n + 1)
          /\ \A i \in 1..Len(c) + (n + 1) : d[i] = IF i <= Len(c) THEN c[i] ELSE Unloops(n + 1)[i - Len(c)]
      BY <3>1, <1>3
    <3> QED BY <3>1, <3>2
  <2>2. /\ e \in Cells /\ Len(e) = Len(c) + n
        /\ \A i \in 1..Len(c) + n : e[i] = IF i <= Len(c) THEN c[i] ELSE Unloops(n)[i - Len(c)]
    BY <1>3
  <2> HIDE DEF d, e
  <2>3. /\ f \in Cells /\ Len(f) = Len(e) + 1 /\ f[Len(e) + 1] = Instr("unloop")
        /\ \A i \in 1..Len(e) : f[i] = e[i]
    <3>1. "unloop" \in Names
      BY DEF Names
    <3> QED BY <2>2, <3>1, Appended
  <2> HIDE DEF f
  <2>4. ASSUME NEW i \in 1..Len(d) PROVE d[i] = f[i]
    <3>1. CASE i <= Len(c)
      BY <3>1, <2>1, <2>2, <2>3
    <3>2. CASE Len(c) < i /\ i <= Len(c) + n
      <4>1. i - Len(c) \in 1..n /\ i - Len(c) \in 1..n + 1 /\ i \in 1..Len(e)
        BY <3>2, <2>1, <2>2
      <4>2. Unloops(n + 1)[i - Len(c)] = Unloops(n)[i - Len(c)]
        BY <4>1, <1>2
      <4> QED BY <3>2, <4>1, <4>2, <2>1, <2>2, <2>3
    <3>3. CASE i = Len(c) + n + 1
      <4>1. i - Len(c) \in 1..n + 1 /\ ~(i <= Len(c)) /\ i = Len(e) + 1
        BY <3>3, <2>1, <2>2
      <4>2. Unloops(n + 1)[i - Len(c)] = Instr("unloop")
        BY <4>1, <1>2
      <4> QED BY <3>3, <4>1, <4>2, <2>1, <2>2, <2>3
    <3> QED BY <3>1, <3>2, <3>3, <2>1
  <2>5. d = f
    <3>1. Len(d) = Len(f)
      BY <2>1, <2>2, <2>3
    <3> QED BY <2>1, <2>3, <2>4, <3>1, SeqEqual DEF Cells
  <2> QED BY <2>5 DEF d, e, f
<1>6. \A b \in 1..Len(c) : (c \o Unloops(n))[b] = c[b]
  <2>1. Len(c) \in Nat
    BY DEF Cells
  <2> QED BY <2>1, <1>3
<1> QED BY <1>2, <1>4, <1>5, <1>6

\* A layout with another number of loops.
LEMMA LoopedLayout ==
    ASSUME NEW l \in Layouts, NEW n \in Nat
    PROVE  /\ Looped(l, n) \in Layouts /\ Looped(l, n).loops = n /\ Looped(l, n).link = l.link /\ Looped(l, n).slots = l.slots
           /\ \A m : Looped(Looped(l, n), m) = Looped(l, m)
           /\ Looped(l, l.loops) = l
BY DEF Layouts, Looped

\* As many UNLOOPs as loops are open leave none.
LEMMA FlowsUnlooped ==
    ASSUME NEW c, NEW s, NEW v, NEW T, NEW X, Flows(c, s, v, T, X), Len(T) = Len(c) + 1, v.count \in Nat,
           NEW l \in Layouts, T[Len(T)] = l, Roomy(c, v, l)
    PROVE  Extended(c, s, v, T, X, c \o Unloops(l.loops), Looped(l, 0))
<1> DEFINE P == {i \in Nat : i <= l.loops => Extended(c, s, v, T, X, c \o Unloops(i), Looped(l, l.loops - i))}
<1>1. c \in Cells /\ l.loops \in Nat
  BY FlowsFacts DEF Layouts
<1>2. 0 \in P
  <2>1. Looped(l, l.loops - 0) = l
    BY <1>1, LoopedLayout
  <2>2. c \o Unloops(0) = c
    BY <1>1, UnloopsNext
  <2>3. Extended(c, s, v, T, X, c, l)
    BY ExtendsItself DEF Extended
  <2> QED BY <2>1, <2>2, <2>3
<1>3. ASSUME NEW i \in P PROVE i + 1 \in P
  <2> SUFFICES ASSUME i + 1 <= l.loops
               PROVE  Extended(c, s, v, T, X, c \o Unloops(i + 1), Looped(l, l.loops - (i + 1)))
    OBVIOUS
  <2> DEFINE d == c \o Unloops(i)
             k == l.loops - i
  <2>1. i \in Nat /\ k \in Nat /\ k > 0 /\ k - 1 \in Nat /\ l.loops - (i + 1) = k - 1 /\ i <= l.loops
    <3>1. i \in Nat
      OBVIOUS
    <3> HIDE DEF P
    <3> QED BY <1>1, <3>1, SMTT(20)
  <2>2. PICK U : Flows(d, s, v, U, X) /\ Extends(c, T, d, U) /\ Len(U) = Len(d) + 1 /\ U[Len(U)] = Looped(l, k)
    BY <2>1 DEF Extended
  <2>3. c \o Unloops(i + 1) = Append(d, Instr("unloop")) /\ \A b \in 1..Len(c) : d[b] = c[b]
    BY <1>1, <2>1, UnloopsNext
  <2> HIDE DEF d, k
  <2>4. Looped(l, k) \in Layouts /\ Looped(l, k).loops = k /\ Looped(Looped(l, k), k - 1) = Looped(l, k - 1)
        /\ Looped(l, k - 1) \in Layouts
    BY <2>1, LoopedLayout
  <2>5. Roomy(d, v, Looped(l, k))
    <3>1. Roomy(c, v, Looped(l, k))
      BY RoomyLooped
    <3> QED BY <2>2, <2>3, <2>4, <3>1, RoomyGrown
  <2>6. Turns("unloop", U[Len(U)], Looped(l, k - 1))
    BY <2>1, <2>2, <2>4 DEF Turns
  <2>7. Extended(d, s, v, U, X, Append(d, Instr("unloop")), Looped(l, k - 1))
    BY <2>2, <2>4, <2>5, <2>6, FlowsTurn
  <2>8. Extended(c, s, v, T, X, Append(d, Instr("unloop")), Looped(l, k - 1))
    BY <2>2, <2>7, ExtendedTwice
  <2> QED BY <2>1, <2>3, <2>8
<1>4. P = Nat
  <2> HIDE DEF P
  <2>1. P \in SUBSET Nat
    BY DEF P
  <2> QED BY <1>2, <1>3, <2>1, NatSetInduction
<1>5. l.loops \in P
  BY <1>1, <1>4
<1>6. l.loops - l.loops = 0
  BY <1>1
<1> QED BY <1>1, <1>5, <1>6

\* EXIT inside loops, after an UNLOOP for each of them.
LEMMA UnloopExitGood ==
    ASSUME NEW c, NEW s, NEW v, NEW p, NEW T, Body(c, s, v, p, T)
    PROVE  Good(Exit(Emits(Def(c, p, v), Unloops(Loops(Def(c, p, v))))), s)
<1> DEFINE l == T[Len(T)]
           b == c \o Unloops(l.loops)
           e == IF v.count > 0 THEN Append(b, Instr("unlink")) ELSE b
           d == Append(e, Instr("exit"))
           m == Looped(l, 0)
<1>1. /\ Flows(c, s, v, T, Open(p)) /\ Len(T) = Len(c) + 1 /\ v.count \in Nat /\ l \in Layouts
      /\ Roomy(c, v, l) /\ l.loops = LoopsBelow(p, Len(p) + 1) /\ l.loops \in Nat /\ c \in Cells /\ p \in Cells
  BY BodyFacts DEF Body, Layouts
<1>2. Len(l.slots) = v.count /\ (l.link = 0) = (v.count = 0)
  BY DEF Body, LocalsFit, IsLink
<1>3. Turns("exit", Bare, l)
  BY DEF Turns
<1>4. Extended(c, s, v, T, Open(p), b, m)
  BY <1>1, FlowsUnlooped
<1>5. m \in Layouts /\ m.loops = 0 /\ m.link = l.link /\ m.slots = l.slots
  BY <1>1, LoopedLayout
<1>6. \A i \in 1..Len(c) : b[i] = c[i]
  BY <1>1, UnloopsNext
<1> HIDE DEF b, m
<1>7. PICK U : Flows(b, s, v, U, Open(p)) /\ Extends(c, T, b, U) /\ Len(U) = Len(b) + 1 /\ U[Len(U)] = m
  BY <1>4 DEF Extended
<1>8. Roomy(b, v, m)
  <2>1. Roomy(c, v, m)
    BY <1>1, RoomyLooped DEF m
  <2> QED BY <1>1, <1>5, <1>6, <1>7, <2>1, RoomyGrown
<1>9. Extended(b, s, v, U, Open(p), d, l)
  <2> HIDE DEF l
  <2>1. Len(m.slots) = v.count /\ (m.link = 0) = (v.count = 0)
    BY <1>2, <1>5
  <2>2. /\ v.count > 0 => Extended(b, s, v, U, Open(p), Append(Append(b, Instr("unlink")), Instr("exit")), l)
        /\ v.count = 0 => Extended(b, s, v, U, Open(p), Append(b, Instr("exit")), l)
    BY <1>1, <1>3, <1>5, <1>7, <1>8, <2>1, FlowsExit
  <2> QED BY <1>1, <2>2
<1> HIDE DEF d, l
<1>10. Extended(c, s, v, T, Open(p), d, l)
  BY <1>7, <1>9, ExtendedTwice
<1>11. PICK V : Flows(d, s, v, V, Open(p)) /\ Extends(c, T, d, V) /\ Len(V) = Len(d) + 1 /\ V[Len(V)] = l
  BY <1>10 DEF Extended
<1>12. Body(d, s, v, p, V)
  BY <1>11, BodyGrown DEF l
<1>13. Exit(Emits(Def(c, p, v), Unloops(Loops(Def(c, p, v))))) = Def(d, p, v)
  <2>1. Emits(Def(c, p, v), Unloops(Loops(Def(c, p, v)))) = Def(b, p, v)
    BY <1>1, LoopsAre, DefEmits DEF b
  <2>2. Unlinked(Def(b, p, v)) = Def(e, p, v)
    BY DefFields, DefEmit DEF Unlinked
  <2> HIDE DEF e
  <2> QED BY <2>1, <2>2, DefEmit DEF Exit, d
<1> QED BY <1>12, <1>13, GoodDef

(* Operands that are filled in later leave everything else in place. *)
LEMMA PatchExtends ==
    ASSUME NEW c, NEW s, NEW v, NEW T, NEW X, Flows(c, s, v, T, X), NEW d \in Cells, Len(d) = Len(c),
           \A b \in 1..Len(c) : \/ d[b] = c[b]
                                \/ /\ Patchable(c, b) /\ d[b][1] = "operand"
                                   /\ c[b - 1][1] = "link" => d[b][2] \in Nat
    PROVE  Extends(c, T, d, T)
<1>1. c \in Cells /\ T \in Seq(Layouts) /\ Len(c) \in Nat /\ Len(T) \in Nat /\ Len(T) \in {Len(c), Len(c) + 1}
  BY FlowsFacts DEF Flows
<1>2. ASSUME NEW b \in 1..Len(c)
      PROVE  d[b][1] = c[b][1] /\ (d[b] = c[b] \/ (Patchable(c, b) /\ (c[b - 1][1] = "link" => d[b][2] \in Nat)))
  BY DEF Patchable
<1> QED BY <1>1, <1>2 DEF Extends

\* One operand changed, the other cells as they were.
LEMMA ExceptCell ==
    ASSUME NEW c \in Cells, NEW x \in 1..Len(c), NEW n \in Int
    PROVE  LET d == [c EXCEPT ![x] = Operand(n)] IN
           /\ d \in Cells /\ Len(d) = Len(c) /\ d[x] = Operand(n)
           /\ \A b \in 1..Len(c) : b # x => d[b] = c[b]
<1>1. Operand(n) \in Names \X Int
  BY DEF Operand, Names
<1> QED BY <1>1, ExceptSeq DEF Cells

\* The end of the locals: their number goes into the operand of LINK.
LEMMA EndLocalsGood ==
    ASSUME NEW c, NEW s, NEW v, NEW p, NEW T, Body(c, s, v, p, T)
    PROVE  Good(EndLocals(Def(c, p, v)), s)
<1>1. EndLocals(Def(c, p, v)) = IF v.count > 0 THEN Def([c EXCEPT ![v.fixup] = Operand(v.count)], p, v) ELSE Def(c, p, v)
  BY DefFields, DefPatchTo DEF EndLocals
<1>2. CASE ~(v.count > 0)
  BY <1>1, <1>2, GoodDef
<1>3. CASE v.count > 0
  <2> DEFINE x == v.fixup
             d == [c EXCEPT ![x] = Operand(v.count)]
  <2>1. /\ c \in Cells /\ T \in Seq(Layouts) /\ Len(T) = Len(c) + 1 /\ v.count \in Nat /\ Len(c) \in Nat
        /\ Flows(c, s, v, T, Open(p))
    BY BodyFacts DEF Body
  <2>2. IsLink(c, x) /\ c[x][1] = "operand"
    BY <1>3 DEF Body, LocalsFit
  <2>3. x \in 1..Len(c) /\ x - 1 \in 1..Len(c) /\ c[x - 1][1] = "link" /\ Patchable(c, x)
    BY <2>2 DEF IsLink, Patchable
  <2>4. /\ d \in Cells /\ Len(d) = Len(c) /\ d[x] = Operand(v.count)
        /\ \A b \in 1..Len(c) : b # x => d[b] = c[b]
    BY <2>1, <2>3, ExceptCell
  <2> HIDE DEF d, x
  <2>5. Extends(c, T, d, T)
    <3>1. d[x][1] = "operand" /\ d[x][2] \in Nat
      BY <2>1, <2>4 DEF Operand
    <3> QED BY <2>1, <2>3, <2>4, <3>1, PatchExtends
  <2>6. ASSUME NEW y, IsLink(c, y)
        PROVE  Room(c, v, y) <= Room(d, v, y) /\ Room(c, v, y) \in Int /\ Room(d, v, y) \in Int
    <3>1. CASE y = x
      BY <3>1, <1>3, <2>1 DEF Room, x
    <3>2. CASE y # x
      <4>1. d[y] = c[y]
        BY <3>2, <2>4, <2>6 DEF IsLink
      <4> QED BY <4>1, <2>1, <2>6, RoomSame
    <3> QED BY <3>1, <3>2
  <2>7. ASSUME NEW a \in 1..Len(c)
        PROVE  \/ a + 1 \notin Open(p) /\ d[a + 1] = c[a + 1]
               \/ a + 1 \in Open(p)
               \/ Jumped(c, T, a) /\ d[a + 1] = c[a + 1]
               \/ Jumped(d, T, a)
    <3>1. CASE a + 1 = x
      <4>1. d[a][1] = "link"
        <5>1. a = x - 1 /\ a # x
          BY <3>1
        <5> QED BY <5>1, <2>3, <2>4
      <4> QED BY <4>1 DEF Jumped, Branches, Loopings, Dos
    <3>2. CASE a + 1 # x /\ a + 1 \in 1..Len(c)
      BY <3>2, <2>4
    <3>3. CASE a = Len(c)
      <4>1. ASSUME IsPlace(c, a) PROVE c[a][1] \notin Branches \cup Loopings \cup Dos
        <5>1. Rest(c, s, T, a)
          BY <2>1, <4>1 DEF Flows
        <5>2. ~HasOperand(c, a)
          BY <3>3, <2>1 DEF HasOperand
        <5> QED BY <5>1, <5>2 DEF Rest, Branches, Loopings, Dos, Gets, Tos
      <4>2. d[a][1] = c[a][1]
        BY <2>5 DEF Extends
      <4>3. ASSUME ~IsPlace(c, a) PROVE c[a][1] \notin Branches \cup Loopings \cup Dos
        BY <4>3 DEF IsPlace, Branches, Loopings, Dos
      <4> QED BY <4>1, <4>2, <4>3 DEF Jumped
    <3> QED BY <3>1, <3>2, <3>3, <2>1
  <2>8. Flows(d, s, v, T, Open(p))
    <3>1. \A a \in Len(c) + 1..Len(d) : IsPlace(d, a) =>
             Rest(d, s, T, a) /\ Roomy(d, v, T[a]) /\ (Jumped(d, T, a) \/ a + 1 \in Open(p))
      BY <2>1, <2>4
    <3>2. Len(T) \in {Len(d), Len(d) + 1}
      BY <2>1, <2>4
    <3> QED BY <2>1, <2>5, <2>6, <2>7, <3>1, <3>2, FlowsKept
  <2>9. Body(d, s, v, p, T)
    BY <2>1, <2>4, <2>5, <2>8, BodyGrown
  <2> QED BY <1>1, <1>3, <2>9, GoodDef DEF d, x
<1> QED BY <1>2, <1>3

-----------------------------------------------------------------------------
(* DOES> and the locals it forgets.                                        *)

(* Outside control structures the data stack has the mark of : alone. *)
Outside(p) == p = << >> \/ Last(p) = Tag("colon")

\* Outside control structures there is no loop and no operand to fill in.
LEMMA OnlyColonMarks ==
    ASSUME NEW c, NEW s, NEW v, NEW p, NEW T, Body(c, s, v, p, T), Outside(p)
    PROVE  /\ LoopsBelow(p, Len(p) + 1) = 0 /\ Open(p) = {}
           /\ \A i \in 1..Len(p) : p[i] = Tag("colon") \/ p[i] = Count(0)
           /\ \A d, U : \A i \in 1..Len(p) : Marked(d, U, p, i)
<1> DEFINE n == Len(p)
<1>1. p \in Cells /\ n \in Nat
  BY BodyFacts
<1>4. n = 0 \/ (p[n] = Tag("colon") /\ (n = 1 \/ (n = 2 /\ p[1] = Count(0))))
  <2>1. CASE n = 0
    BY <2>1
  <2>2. CASE n # 0
    <3>1. n \in 1..n /\ p # << >>
      BY <1>1, <2>2, EmptySeq DEF Cells
    <3>2. p[n] = Tag("colon")
      BY <3>1 DEF Outside, Last
    <3>3. Marked(c, T, p, n)
      BY <3>1 DEF Body
    <3> QED BY <3>2, <3>3 DEF Marked, Tag
  <2> QED BY <2>1, <2>2
<1>5. \A i \in 1..n : p[i] = Tag("colon") \/ p[i] = Count(0)
  BY <1>1, <1>4
<1>6. ASSUME NEW d, NEW U, NEW i \in 1..n PROVE Marked(d, U, p, i)
  <2>1. CASE p[i] = Count(0)
    BY <2>1 DEF Marked, Count
  <2>2. CASE p[i] = Tag("colon")
    <3>1. i = 1 \/ (i = 2 /\ p[1] = Count(0))
      <4>0. CASE n = 0
        BY <4>0
      <4>1. CASE n = 1
        BY <4>1
      <4>2. CASE n = 2 /\ p[1] = Count(0)
        <5>1. i = 1 \/ i = 2
          BY <4>2
        <5> QED BY <5>1, <4>2
      <4> QED BY <1>4, <4>0, <4>1, <4>2
    <3> QED BY <2>2, <3>1 DEF Marked
  <2> QED BY <2>1, <2>2, <1>5
<1>7. Open(p) = {}
  <2>1. \A i \in 1..n : p[i][1] # "address"
    BY <1>5 DEF Tag, Count
  <2> QED BY <2>1 DEF Open
<1>8. LoopsBelow(p, n + 1) = 0
  <2>1. \A i \in 1..n : p[i] # Tag("do")
    BY <1>5 DEF Tag, Count
  <2>2. {j \in 1..(n + 1) - 1 : p[j] = Tag("do")} = {}
    BY <1>1, <2>1
  <2> QED BY <2>2, FS_EmptySet DEF LoopsBelow
<1> QED BY <1>5, <1>6, <1>7, <1>8

(* The frame's size is in its place: the locals may be forgotten. *)
Ended(c, v) == v.count > 0 => c[v.fixup] = Operand(v.count)

\* A frame whose operand is its size is complete.
LEMMA LocalsEndedHere ==
    ASSUME NEW c, NEW s, NEW v, NEW p, NEW T, Body(c, s, v, p, T),
           v.words # << >> => v.fixup \in DOMAIN c /\ c[v.fixup] = Operand(v.count)
    PROVE  Ended(c, v)
BY DEF Ended, Body, LocalsFit

\* A definition whose frame is complete keeps its flow when the locals are forgotten.
LEMMA FlowsForgotten ==
    ASSUME NEW c, NEW s, NEW v, NEW T, NEW X, Flows(c, s, v, T, X), Ended(c, v), v.count \in Nat
    PROVE  Flows(c, s, NoLocals(v), T, X)
<1>1. c \in Cells
  BY FlowsFacts
<1>2. NoLocals(v).count = 0 \/ ~(NoLocals(v).count > 0)
  BY DEF NoLocals
<1>3. ASSUME NEW x, IsLink(c, x)
      PROVE  Room(c, v, x) <= Room(c, NoLocals(v), x) /\ Room(c, v, x) \in Int /\ Room(c, NoLocals(v), x) \in Int
  <2>1. c[x] \in Names \X Int
    BY <1>1, <1>3, ElementOfSeq DEF IsLink, Cells
  <2>2. c[x][2] \in Int
    BY <2>1
  <2>3. Room(c, NoLocals(v), x) = c[x][2]
    BY <1>2 DEF Room
  <2>4. Room(c, v, x) = c[x][2]
    BY DEF Room, Ended, Operand
  <2> QED BY <2>2, <2>3, <2>4
<1> QED BY <1>3, FlowsLocals

\* The locals of a definition forgotten.
LEMMA DefForgets ==
    ASSUME NEW c, NEW p, NEW v
    PROVE  [Def(c, p, v) EXCEPT !.locals = NoLocals(@)] = Def(c, p, NoLocals(v))
BY DEF Def

\* The last cell of a definition is no jump: its operand would follow it.
LEMMA LastNoJump ==
    ASSUME NEW c, NEW s, NEW v, NEW T, NEW X, Flows(c, s, v, T, X), Len(c) \in 1..Len(c)
    PROVE  c[Len(c)][1] \notin Branches \cup Loopings \cup Dos
<1> DEFINE a == Len(c)
<1>1. Len(c) \in Nat
  BY FlowsFacts
<1>2. ASSUME IsPlace(c, a) PROVE c[a][1] \notin Branches \cup Loopings \cup Dos
  <2>1. Rest(c, s, T, a)
    BY <1>2 DEF Flows
  <2>2. ~HasOperand(c, a)
    BY <1>1 DEF HasOperand
  <2> QED BY <2>1, <2>2 DEF Rest, Branches, Loopings, Dos, Gets, Tos
<1>3. ASSUME ~IsPlace(c, a) PROVE c[a][1] \notin Branches \cup Loopings \cup Dos
  BY <1>3 DEF IsPlace, Branches, Loopings, Dos
<1> QED BY <1>2, <1>3

(* The frame is given back, where there is one. *)
LEMMA UnlinkedCells ==
    ASSUME NEW c, NEW s, NEW v, NEW p, NEW T, Body(c, s, v, p, T), NEW w \in Names
    PROVE  LET e == IF v.count > 0 THEN Append(c, Instr("unlink")) ELSE c
               d == Append(e, Instr(w)) IN
           /\ Unlinked(Def(c, p, v)) = Def(e, p, v)
           /\ e \in Cells /\ Len(c) <= Len(e) /\ \A b \in 1..Len(c) : e[b] = c[b]
           /\ d \in Cells /\ Len(e) \in Nat /\ Len(d) = Len(e) + 1 /\ \A b \in 1..Len(c) : d[b] = c[b]
<1> DEFINE e == IF v.count > 0 THEN Append(c, Instr("unlink")) ELSE c
           d == Append(e, Instr(w))
<1>1. c \in Cells /\ Len(c) \in Nat
  BY BodyFacts
<1>2. Unlinked(Def(c, p, v)) = Def(e, p, v)
  BY DefFields, DefEmit DEF Unlinked
<1>3. e \in Cells /\ Len(c) <= Len(e) /\ Len(e) \in Nat /\ \A b \in 1..Len(c) : e[b] = c[b]
  <2>1. "unlink" \in Names
    BY DEF Names
  <2> QED BY <1>1, <2>1, Appended
<1> HIDE DEF e
<1>4. d \in Cells /\ Len(d) = Len(e) + 1 /\ \A b \in 1..Len(e) : d[b] = e[b]
  BY <1>3, Appended
<1> HIDE DEF d
<1>5. \A b \in 1..Len(c) : d[b] = c[b]
  BY <1>1, <1>3, <1>4
<1> QED BY <1>2, <1>3, <1>4, <1>5 DEF d, e

\* DOES>, after which the definition begins again without locals.
LEMMA DoesGood ==
    ASSUME NEW c, NEW s, NEW v, NEW p, NEW T, Body(c, s, v, p, T), Outside(p),
           v.words # << >> => v.fixup \in DOMAIN c /\ c[v.fixup] = Operand(v.count)
    PROVE  Good(Does(Def(c, p, v)), s)
<1> DEFINE l == T[Len(T)]
           e == IF v.count > 0 THEN Append(c, Instr("unlink")) ELSE c
           d == Append(e, Instr("does>"))
           w == NoLocals(v)
<1>1. /\ Flows(c, s, v, T, Open(p)) /\ Len(T) = Len(c) + 1 /\ v.count \in Nat /\ l \in Layouts
      /\ Roomy(c, v, l) /\ l.loops = LoopsBelow(p, Len(p) + 1) /\ p \in Cells
  BY BodyFacts DEF Body
<1>2. Len(l.slots) = v.count /\ (l.link = 0) = (v.count = 0)
  BY DEF Body, LocalsFit, IsLink
<1>3. Turns("does>", Bare, Bare) /\ Bare \in Layouts
  BY BareRoomy DEF Turns
<1>4. /\ LoopsBelow(p, Len(p) + 1) = 0
      /\ \A b, U : \A i \in 1..Len(p) : Marked(b, U, p, i)
  BY OnlyColonMarks
<1>5. Extended(c, s, v, T, Open(p), d, Bare)
  <2> HIDE DEF l
  <2>1. T[Len(T)] = l
    BY DEF l
  <2>2. /\ v.count > 0 => Extended(c, s, v, T, Open(p), Append(Append(c, Instr("unlink")), Instr("does>")), Bare)
        /\ v.count = 0 => Extended(c, s, v, T, Open(p), Append(c, Instr("does>")), Bare)
    BY <1>1, <1>2, <1>3, <1>4, <2>1, FlowsExit
  <2> QED BY <1>1, <2>2
<1>6. Unlinked(Def(c, p, v)) = Def(e, p, v) /\ d \in Cells /\ \A b \in 1..Len(c) : d[b] = c[b]
  <2>1. "does>" \in Names
    BY DEF Names
  <2> QED BY <2>1, UnlinkedCells
<1>7. Does(Def(c, p, v)) = Def(d, p, w)
  <2>1. Does(Def(c, p, v)) = Emit(Def(e, p, w), Instr("does>"))
    BY <1>6, DefForgets DEF Does
  <2> HIDE DEF e, w
  <2> QED BY <2>1, DefEmit DEF d
<1>8. Ended(d, v)
  <2>1. Ended(c, v)
    BY LocalsEndedHere
  <2>2. v.count > 0 => v.fixup \in 1..Len(c)
    BY DEF Body, LocalsFit, IsLink
  <2> HIDE DEF d
  <2> QED BY <2>1, <2>2, <1>6 DEF Ended
<1> HIDE DEF d
<1>9. PICK U : Flows(d, s, v, U, Open(p)) /\ Extends(c, T, d, U) /\ Len(U) = Len(d) + 1 /\ U[Len(U)] = Bare
  BY <1>5 DEF Extended
<1>10. Flows(d, s, w, U, Open(p))
  BY <1>1, <1>8, <1>9, FlowsForgotten
<1>11. LocalsFit(d, w, Bare)
  <2>1. v \in [words : Seq([offset : Nat, kind : {"local", "2local", "flocal"}]), count : Nat, fixup : Nat]
    BY DEF Body, LocalsFit
  <2> DEFINE Words_ == Seq([offset : Nat, kind : {"local", "2local", "flocal"}])
  <2>4. << >> \in Words_
    OBVIOUS
  <2> HIDE DEF Words_
  <2>2. w \in [words : Words_, count : Nat, fixup : Nat] /\ w.count = 0 /\ w.words = << >>
    <3>1. v \in [words : Words_, count : Nat, fixup : Nat]
      BY <2>1 DEF Words_
    <3> QED BY <2>4, <3>1 DEF NoLocals
  <2>3. Len(Bare.slots) = 0 /\ Bare.link = 0
    BY DEF Bare
  <2> HIDE DEF w
  <2> QED BY <2>2, <2>3 DEF LocalsFit, Words_
<1>12. Body(d, s, w, p, U)
  <2>1. Bare.loops = 0
    BY DEF Bare
  <2> HIDE DEF w
  <2> QED BY <1>1, <1>4, <1>9, <1>10, <1>11, <2>1 DEF Body
<1> HIDE DEF w
<1> QED BY <1>7, <1>12, GoodDef

-----------------------------------------------------------------------------
(* The end of a definition, and the first local of one.                    *)

\* The return that ; compiles closes a definition.
LEMMA FlowsEnd ==
    ASSUME NEW c, NEW s, NEW v, NEW T, NEW X, Flows(c, s, v, T, X), Len(T) = Len(c) + 1, v.count \in Nat,
           T[Len(T)] = Bare
    PROVE  Flows(Append(c, Instr("semi")), s, v, T, X)
<1> DEFINE d == Append(c, Instr("semi"))
<1>1. c \in Cells /\ T \in Seq(Layouts) /\ Len(c) \in Nat
  BY FlowsFacts
<1>2. d \in Cells /\ Len(d) = Len(c) + 1 /\ (\A b \in 1..Len(c) : d[b] = c[b]) /\ d[Len(c) + 1] = Instr("semi")
  <2>1. "semi" \in Names
    BY DEF Names
  <2> QED BY <1>1, <2>1, Appended
<1> HIDE DEF d
<1>3. d[Len(c) + 1][1] = "semi"
  BY <1>2 DEF Instr
<1>4. Extends(c, T, d, T)
  <2>1. IsPlace(d, Len(c) + 1)
    BY <1>3 DEF IsPlace
  <2> QED BY <1>1, <1>2, <2>1 DEF Extends
<1>5. ASSUME NEW x, IsLink(c, x)
      PROVE  Room(c, v, x) <= Room(d, v, x) /\ Room(c, v, x) \in Int /\ Room(d, v, x) \in Int
  <2>1. d[x] = c[x]
    BY <1>2, <1>5 DEF IsLink
  <2> QED BY <2>1, <1>1, <1>5, RoomSame
<1>6. ASSUME NEW a \in 1..Len(c)
      PROVE  \/ a + 1 \notin X /\ d[a + 1] = c[a + 1]
             \/ a + 1 \in X
             \/ Jumped(c, T, a) /\ d[a + 1] = c[a + 1]
             \/ Jumped(d, T, a)
  <2>1. CASE a + 1 \in 1..Len(c)
    BY <2>1, <1>2
  <2>2. CASE a = Len(c)
    <3>1. c[a][1] \notin Branches \cup Loopings \cup Dos
      BY <2>2, LastNoJump
    <3> QED BY <3>1, <1>2 DEF Jumped
  <2> QED BY <2>1, <2>2, <1>1
<1>7. ASSUME NEW a \in Len(c) + 1..Len(d), IsPlace(d, a)
      PROVE  Rest(d, s, T, a) /\ Roomy(d, v, T[a]) /\ (Jumped(d, T, a) \/ a + 1 \in X)
  <2>1. a = Len(c) + 1 /\ d[a][1] = "semi" /\ T[a] = Bare
    BY <1>1, <1>2, <1>3
  <2> QED BY <2>1, BareRoomy DEF Rest, Jumped, Branches, Loopings, Dos
<1>8. Len(T) \in {Len(d), Len(d) + 1}
  BY <1>2
<1>9. Flows(d, s, v, T, X)
  BY <1>4, <1>5, <1>6, <1>7, <1>8, FlowsKept
<1> QED BY <1>9 DEF d

(* What ; accepts is a definition whose jumps are all resolved. *)
LEMMA SemicolonSeals ==
    ASSUME NEW c, NEW s, NEW v, NEW p, NEW T, Body(c, s, v, p, T), Ok(Semicolon(Def(c, p, v))),
           v.words # << >> => v.fixup \in DOMAIN c /\ c[v.fixup] = Operand(v.count)
    PROVE  LET d == Semicolon(Def(c, p, v)) IN
           /\ \E U : Sealed(d.code, s, d.locals, U)
           /\ d.locals = NoLocals(v) /\ Len(c) + 1 <= Len(d.code)
<1> DEFINE l == T[Len(T)]
           e == IF v.count > 0 THEN Append(c, Instr("unlink")) ELSE c
           d == Append(e, Instr("semi"))
           w == NoLocals(v)
           q == Front(p)
<1>1. /\ Flows(c, s, v, T, Open(p)) /\ Len(T) = Len(c) + 1 /\ v.count \in Nat /\ l \in Layouts
      /\ Roomy(c, v, l) /\ l.loops = LoopsBelow(p, Len(p) + 1) /\ p \in Cells /\ Len(c) \in Nat
  BY BodyFacts DEF Body
<1>2. Len(l.slots) = v.count /\ (l.link = 0) = (v.count = 0)
  BY DEF Body, LocalsFit, IsLink
<1>3. p # << >> /\ Last(p) = Tag("colon")
  <2> SUFFICES ASSUME ~(p # << >> /\ Last(p) = Tag("colon")) PROVE FALSE
    OBVIOUS
  <2>1. ~TopIs(Def(c, p, v), "colon")
    BY DefReads
  <2>2. MatchControlTag(Def(c, p, v), "colon") = Fail(Def(c, p, v))
    BY <2>1 DEF MatchControlTag
  <2>3. ~Ok(MatchControlTag(Def(c, p, v), "colon"))
    BY <2>2, DefFail
  <2>4. Semicolon(Def(c, p, v)) = MatchControlTag(Def(c, p, v), "colon")
    BY <2>3 DEF Semicolon
  <2> QED BY <2>3, <2>4
<1>4. MatchControlTag(Def(c, p, v), "colon") = Def(c, q, v)
  <2>1. TopIs(Def(c, p, v), "colon") /\ Ok(Def(c, p, v))
    BY <1>3, DefReads, DefFields
  <2> QED BY <2>1, DefPop DEF MatchControlTag
<1>5. LoopsBelow(p, Len(p) + 1) = 0 /\ Open(p) = {}
  BY <1>3, OnlyColonMarks DEF Outside
<1>6. /\ e \in Cells /\ Len(e) \in Nat /\ Len(d) = Len(e) + 1 /\ Len(c) <= Len(e)
      /\ d \in Cells /\ \A b \in 1..Len(c) : d[b] = c[b]
  <2>1. "semi" \in Names
    BY DEF Names
  <2> QED BY <2>1, UnlinkedCells
<1>7. Unlinked(Def(c, q, v)) = Def(e, q, v)
  BY DefFields, DefEmit DEF Unlinked
<1>8. Semicolon(Def(c, p, v)) = Def(d, q, w)
  <2> HIDE DEF q, e, w
  <2>1. Ok(Def(c, q, v))
    BY DefFields
  <2>2. Semicolon(Def(c, p, v)) = Emit([Def(e, q, v) EXCEPT !.locals = NoLocals(@)], Instr("semi"))
    BY <1>4, <1>7, <2>1 DEF Semicolon
  <2>3. [Def(e, q, v) EXCEPT !.locals = NoLocals(@)] = Def(e, q, w)
    BY DefForgets DEF w
  <2> QED BY <2>2, <2>3, DefEmit DEF d
<1>9. \E U : Flows(e, s, v, U, {}) /\ Len(U) = Len(e) + 1 /\ U[Len(U)] = Bare
  <2>1. CASE v.count = 0
    <3>1. l = Bare
      <4> HIDE DEF l
      <4>1. l.slots = << >>
        BY <1>1, <1>2, <2>1, EmptySeq DEF Layouts
      <4> QED BY <1>1, <1>2, <1>5, <2>1, <4>1 DEF Layouts, Bare
    <3>2. e = c
      BY <2>1
    <3> QED BY <1>1, <1>5, <3>1, <3>2
  <2>2. CASE v.count > 0
    <3>1. Turns("unlink", l, Bare)
      BY <2>2, <1>1, <1>2, <1>5 DEF Turns
    <3>2. Extended(c, s, v, T, {}, Append(c, Instr("unlink")), Bare)
      BY <3>1, <1>1, <1>5, FlowsTurn, BareRoomy
    <3>3. e = Append(c, Instr("unlink"))
      BY <2>2
    <3> HIDE DEF e
    <3> QED BY <3>2, <3>3 DEF Extended
  <2> QED BY <1>1, <2>1, <2>2
<1>10. Ended(d, v)
  <2>1. Ended(c, v)
    BY LocalsEndedHere
  <2>2. v.count > 0 => v.fixup \in 1..Len(c)
    BY DEF Body, LocalsFit, IsLink
  <2> HIDE DEF d
  <2> QED BY <2>1, <2>2, <1>6 DEF Ended
<1> HIDE DEF e
<1>11. PICK U : Flows(e, s, v, U, {}) /\ Len(U) = Len(e) + 1 /\ U[Len(U)] = Bare
  BY <1>9
<1>12. Flows(d, s, v, U, {})
  BY <1>1, <1>11, FlowsEnd
<1>13. Flows(d, s, w, U, {})
  BY <1>1, <1>10, <1>12, FlowsForgotten
<1>14. w.count = 0
  BY DEF NoLocals
<1> HIDE DEF d, w
<1>15. Sealed(d, s, w, U)
  BY <1>6, <1>11, <1>13, <1>14 DEF Sealed
<1> QED BY <1>1, <1>6, <1>8, <1>15, DefFields DEF w

\* An instruction that is no jump added to a definition, with the layout it leaves.
LEMMA FlowsAdds ==
    ASSUME NEW c, NEW s, NEW v, NEW T, NEW X, Flows(c, s, v, T, X), Len(T) = Len(c) + 1, v.count \in Nat,
           NEW l, T[Len(T)] = l, Roomy(c, v, l), NEW m \in Layouts,
           NEW x \in Cells, 1 <= Len(x), \A i \in 2..Len(x) : x[i][1] \in Data,
           x[1][1] \notin Data \cup Branches \cup Loopings \cup Dos,
           \A d, U : Added(c, d, U, x, l, m) => Rest(d, s, U, Len(c) + 1)
    PROVE  Extended(c, s, v, T, X, c \o x, m)
<1> DEFINE d == c \o x
           U == T \o Filled(Len(x), m)
<1>1. c \in Cells /\ T \in Seq(Layouts) /\ Len(c) \in Nat
  BY FlowsFacts
<1>2. x[1][1] \notin Data
  OBVIOUS
<1>3. Added(c, d, U, x, l, m)
  BY <1>1, <1>2, LaidAdded
<1>4. Extends(c, T, d, U) /\ Len(U) = Len(d) + 1 /\ U[Len(U)] = m
  <2>1. Joins(c, T, d, U, m)
    BY <1>1, <1>2, LaidJoins
  <2> HIDE DEF d, U
  <2> QED BY <2>1 DEF Joins
<1>5. Rest(d, s, U, Len(c) + 1)
  BY <1>3
<1>6. Flows(d, s, v, U, X)
  BY <1>5, FlowsGrown
<1> HIDE DEF d, U
<1>7. Extended(c, s, v, T, X, d, m)
  BY <1>4, <1>6 DEF Extended
<1> QED BY <1>7 DEF d

(* The frame is set up where the first local is declared. *)
Linked(c, v) == IF v.count # 0 THEN c ELSE c \o <<Instr("link"), Operand(0)>>
Fixed(c, v)  == IF v.count # 0 THEN v ELSE [v EXCEPT !.fixup = Len(c) + 2]

\* Where the first local is declared LINK is added, outside any loop, and what follows
\* has a frame.
LEMMA LinkedFlows ==
    ASSUME NEW c, NEW s, NEW v, NEW p, NEW T, Body(c, s, v, p, T), Open(p) = {}, LoopsBelow(p, Len(p) + 1) = 0
    PROVE  LET d == Linked(c, v)
               w == Fixed(c, v) IN
           \E U : /\ Flows(d, s, w, U, {}) /\ Len(U) = Len(d) + 1
                  /\ U[Len(U)] = [link |-> w.fixup, slots |-> T[Len(T)].slots, loops |-> 0]
                  /\ IsLink(d, w.fixup) /\ d[w.fixup][1] = "operand" /\ (v.count = 0 => d[w.fixup] = Operand(0))
                  /\ Len(c) <= Len(d) /\ w.fixup \in Nat /\ Extends(c, T, d, U)
<1> DEFINE l == T[Len(T)]
<1>1. /\ Flows(c, s, v, T, {}) /\ Len(T) = Len(c) + 1 /\ v.count \in Nat /\ v.fixup \in Nat /\ l \in Layouts
      /\ Roomy(c, v, l) /\ l.loops = 0 /\ Len(c) \in Nat /\ c \in Cells
  BY BodyFacts DEF Body
<1>2. /\ Len(l.slots) = v.count /\ l.link = (IF v.count > 0 THEN v.fixup ELSE 0)
      /\ v.count > 0 => IsLink(c, v.fixup) /\ c[v.fixup][1] = "operand"
  BY DEF Body, LocalsFit
<1>3. CASE v.count # 0
  <2>1. Linked(c, v) = c /\ Fixed(c, v) = v
    BY <1>3 DEF Linked, Fixed
  <2>2. l = [link |-> v.fixup, slots |-> l.slots, loops |-> 0]
    <3> HIDE DEF l
    <3> QED BY <1>1, <1>2, <1>3 DEF Layouts
  <2>3. Extends(c, T, c, T)
    BY <1>1, ExtendsItself
  <2> QED BY <1>1, <1>2, <1>3, <2>1, <2>2, <2>3
<1>4. CASE v.count = 0
  <2> DEFINE x == <<Instr("link"), Operand(0)>>
             d == c \o x
             f == Len(c) + 2
             w == [v EXCEPT !.fixup = f]
             m == [link |-> f, slots |-> << >>, loops |-> 0]
  <2>1. Linked(c, v) = d /\ Fixed(c, v) = w
    BY <1>4 DEF Linked, Fixed
  <2>2. l = Bare /\ l.slots = << >>
    <3> HIDE DEF l
    <3>1. l.slots = << >>
      BY <1>1, <1>2, <1>4, EmptySeq DEF Layouts
    <3> QED BY <1>1, <1>2, <1>4, <3>1 DEF Layouts, Bare
  <2>3. x \in Cells /\ Len(x) = 2 /\ x[1] = Instr("link") /\ x[2] = Operand(0)
    <3>1. Instr("link") \in Names \X Int /\ Operand(0) \in Names \X Int
      BY DEF Names, Instr, Operand
    <3> QED BY <3>1, TwoOf
  <2>4. m \in Layouts
    BY <1>1 DEF Layouts
  <2>5. /\ d \in Cells /\ Len(d) = Len(c) + 2 /\ d[Len(c) + 1] = Instr("link") /\ d[Len(c) + 2] = Operand(0)
        /\ \A b \in 1..Len(c) : d[b] = c[b]
    <3>1. x[1][1] \notin Data /\ 1 <= Len(x) /\ T \in Seq(Layouts)
      BY <2>3, FlowsFacts, <1>1 DEF Data, Instr
    <3>4. 1 \in 1..Len(x) /\ 2 \in 1..Len(x)
      BY <2>3
    <3> HIDE DEF x
    <3>2. /\ d \in Cells /\ Len(d) = Len(c) + Len(x)
          /\ \A i \in 1..Len(x) : d[Len(c) + i] = x[i]
          /\ \A b \in 1..Len(c) : d[b] = c[b]
      <4>1. /\ d \in Cells /\ Len(d) = Len(c) + Len(x)
            /\ \A i \in 1..Len(c) + Len(x) : d[i] = IF i <= Len(c) THEN c[i] ELSE x[i - Len(c)]
        BY <1>1, <2>3, ConcatProperties, ZenonT(30) DEF Cells
      <4> HIDE DEF d, m, l
      <4>2. ASSUME NEW i \in 1..Len(x) PROVE d[Len(c) + i] = x[i]
        <5>1. Len(c) + i \in 1..Len(c) + Len(x) /\ ~(Len(c) + i <= Len(c)) /\ (Len(c) + i) - Len(c) = i
          BY <1>1, <2>3
        <5> QED BY <4>1, <5>1
      <4>3. \A b \in 1..Len(c) : d[b] = c[b]
        BY <1>1, <2>3, <4>1
      <4> QED BY <4>1, <4>2, <4>3
    <3> HIDE DEF d
    <3>3. d[Len(c) + 1] = x[1] /\ d[Len(c) + 2] = x[2]
      BY <3>2, <3>4
    <3> QED BY <3>2, <3>3, <2>3
  <2> HIDE DEF x
  <2>6. ASSUME NEW e, NEW U, Added(c, e, U, x, l, m)
        PROVE  Rest(e, s, U, Len(c) + 1)
    <3> HIDE DEF l
    <3>1. /\ e[Len(c) + 1] = x[1] /\ e[Len(c) + 2] = x[2] /\ Len(e) = Len(c) + 2 /\ U[Len(c) + 1] = l
          /\ At(e, U, Len(c) + 1 + 2, m)
      BY <1>1, <2>3, <2>6 DEF Added
    <3>2. e[Len(c) + 1][1] = "link" /\ HasOperand(e, Len(c) + 1) /\ e[(Len(c) + 1) + 1][2] = 0
      BY <3>1, <2>3, <1>1 DEF Instr, Operand, HasOperand
    <3>3. m = [link |-> (Len(c) + 1) + 1, slots |-> << >>, loops |-> 0]
      BY <1>1
    <3> HIDE DEF m
    <3> QED BY <3>1, <3>2, <3>3, <2>2 DEF Rest
  <2> HIDE DEF m, d
  <2>7. Extended(c, s, v, T, {}, d, m)
    <3>1. 1 <= Len(x) /\ (\A i \in 2..Len(x) : x[i][1] \in Data) /\ x[1][1] \notin Data \cup Branches \cup Loopings \cup Dos
      BY <2>3 DEF Data, Branches, Loopings, Dos, Instr, Operand
    <3> HIDE DEF l
    <3>2. T[Len(T)] = l
      BY DEF l
    <3> QED BY <1>1, <2>3, <2>4, <2>6, <3>1, <3>2, FlowsAdds DEF d
  <2>8. PICK U : Flows(d, s, v, U, {}) /\ Extends(c, T, d, U) /\ Len(U) = Len(d) + 1 /\ U[Len(U)] = m
    BY <2>7 DEF Extended
  <2>9. w.count = 0 /\ w.fixup = f /\ f \in Nat
    <3>1. v \in [words : Seq([offset : Nat, kind : {"local", "2local", "flocal"}]), count : Nat, fixup : Nat]
      BY DEF Body, LocalsFit
    <3> QED BY <3>1, <1>1, <1>4
  <2>10. Flows(d, s, w, U, {})
    <3>1. ASSUME NEW y, IsLink(d, y)
          PROVE  Room(d, v, y) <= Room(d, w, y) /\ Room(d, v, y) \in Int /\ Room(d, w, y) \in Int
      <4>1. d[y] \in Names \X Int
        BY <2>5, <3>1, ElementOfSeq DEF IsLink, Cells
      <4>2. d[y][2] \in Int
        BY <4>1
      <4>3. Room(d, v, y) = d[y][2] /\ Room(d, w, y) = d[y][2]
        BY <1>4, <2>9 DEF Room
      <4> QED BY <4>2, <4>3
    <3> QED BY <2>8, <3>1, FlowsLocals
  <2>11. IsLink(d, f) /\ d[f] = Operand(0) /\ d[f][1] = "operand"
    <3>1. f \in 1..Len(d) /\ f - 1 \in 1..Len(d) /\ f - 1 = Len(c) + 1
      BY <1>1, <2>5
    <3> QED BY <3>1, <2>5 DEF IsLink, Instr, Operand
  <2>12. U[Len(U)] = [link |-> w.fixup, slots |-> l.slots, loops |-> 0]
    BY <2>2, <2>8, <2>9 DEF m
  <2> HIDE DEF w, f
  <2> QED BY <1>1, <2>1, <2>5, <2>8, <2>9, <2>10, <2>11, <2>12
<1> QED BY <1>1, <1>3, <1>4

Declared(v, r, width) == [v EXCEPT !.words = Append(@, r), !.count = @ + width]

\* The locals with one more.
LEMMA DeclaredFields ==
    ASSUME NEW S, NEW v, v \in Records(S), NEW r, Append(v.words, r) \in S, NEW width \in Nat
    PROVE  /\ Declared(v, r, width) \in Records(S)
           /\ Declared(v, r, width).words = Append(v.words, r)
           /\ Declared(v, r, width).count = v.count + width
           /\ Declared(v, r, width).fixup = v.fixup
<1> DEFINE x == Append(v.words, r)
           y == v.count + width
<1>0. v \in [words : S, count : Nat, fixup : Nat]
  BY DEF Records
<1>1. x \in S /\ y \in Nat
  BY <1>0
<1>2. Declared(v, r, width) = [v EXCEPT !.words = x, !.count = y]
  BY DEF Declared
<1> HIDE DEF x, y
<1>3. /\ Declared(v, r, width) \in [words : S, count : Nat, fixup : Nat]
      /\ Declared(v, r, width).words = x /\ Declared(v, r, width).count = y
      /\ Declared(v, r, width).fixup = v.fixup
  BY <1>0, <1>1, <1>2
<1> QED BY <1>3 DEF x, y, Records

\* A declared local: LINK before it if it is the first one, then the store of its value.
LEMMA DeclareIs ==
    ASSUME NEW c, NEW p, NEW v, NEW kind, v.count \in Nat, ~(v.count >= MaxLocals), c \in Cells
    PROVE  Declare(Def(c, p, v), kind) =
              Def(Linked(c, v) \o <<<<"to", Width(kind)>>, Operand(v.count)>>, p,
                  Declared(Fixed(c, v), [offset |-> v.count, kind |-> kind], Width(kind)))
<1> DEFINE d == Def(c, p, v)
           x == <<<<"to", Width(kind)>>, Operand(v.count)>>
           r == [offset |-> v.count, kind |-> kind]
           linked == IF v.count # 0 THEN d
                     ELSE [Emits(d, <<Instr("link"), Operand(0)>>) EXCEPT !.locals.fixup = HereOf(d) + 1]
           e == Emits(linked, x)
<1>1. d.locals.count = v.count /\ d.locals = v /\ d.code = c /\ HereOf(d) = Len(c) + 1
  BY DefFields, DefReads
<1>2. linked = Def(Linked(c, v), p, Fixed(c, v))
  <2>1. CASE v.count # 0
    BY <2>1 DEF Linked, Fixed
  <2>2. CASE v.count = 0
    <3> DEFINE b == c \o <<Instr("link"), Operand(0)>>
    <3>1. Emits(d, <<Instr("link"), Operand(0)>>) = Def(b, p, v)
      BY DefEmits
    <3>2. HereOf(d) + 1 = Len(c) + 2
      BY <1>1 DEF Cells
    <3> HIDE DEF b, d
    <3>3. [Def(b, p, v) EXCEPT !.locals.fixup = Len(c) + 2] = Def(b, p, [v EXCEPT !.fixup = Len(c) + 2])
      BY DEF Def
    <3>4. Linked(c, v) = b /\ Fixed(c, v) = [v EXCEPT !.fixup = Len(c) + 2]
      BY <2>2 DEF Linked, Fixed, b
    <3> QED BY <2>2, <3>1, <3>2, <3>3, <3>4
  <2> QED BY <2>1, <2>2
<1>3. Declare(d, kind) = [e EXCEPT !.locals.words = Append(@, r), !.locals.count = @ + Width(kind)]
  <2> HIDE DEF d
  <2> QED BY <1>1 DEF Declare, DeclareUpTo
<1> HIDE DEF linked, d
<1>4. e = Def(Linked(c, v) \o x, p, Fixed(c, v))
  <2> HIDE DEF x
  <2> QED BY <1>2, DefEmits
<1> HIDE DEF e, x, r
<1>5. ASSUME NEW b, NEW w
      PROVE  [Def(b, p, w) EXCEPT !.locals.words = Append(@, r), !.locals.count = @ + Width(kind)]
                = Def(b, p, [w EXCEPT !.words = Append(@, r), !.count = @ + Width(kind)])
  <2>1. Def(b, p, w).locals = w
    BY DefFields
  <2> DEFINE g == Append(w.words, r)
             h == w.count + Width(kind)
  <2> HIDE DEF g, h
  <2>2. [Def(b, p, w) EXCEPT !.locals.words = g, !.locals.count = h] = Def(b, p, [w EXCEPT !.words = g, !.count = h])
    <3>1. [Def(b, p, w) EXCEPT !.locals.words = g] = Def(b, p, [w EXCEPT !.words = g])
      BY DEF Def
    <3>2. \A z : [Def(b, p, z) EXCEPT !.locals.count = h] = Def(b, p, [z EXCEPT !.count = h])
      BY DEF Def
    <3>3. [[Def(b, p, w) EXCEPT !.locals.words = g] EXCEPT !.locals.count = h]
             = Def(b, p, [[w EXCEPT !.words = g] EXCEPT !.count = h])
      BY <3>1, <3>2
    <3> QED BY <3>3
  <2>3. [Def(b, p, w) EXCEPT !.locals.words = Append(w.words, r), !.locals.count = w.count + Width(kind)]
           = Def(b, p, [w EXCEPT !.words = Append(w.words, r), !.count = w.count + Width(kind)])
    BY <2>2 DEF g, h
  <2> QED BY <2>1, <2>3
<1> DEFINE b == Linked(c, v) \o x
           w == Fixed(c, v)
<1>6. Declare(d, kind) = [Def(b, p, w) EXCEPT !.locals.words = Append(@, r), !.locals.count = @ + Width(kind)]
  BY <1>3, <1>4
<1> HIDE DEF b, w
<1>7. Declare(d, kind) = Def(b, p, [w EXCEPT !.words = Append(@, r), !.count = @ + Width(kind)])
  BY <1>5, <1>6
<1>8. Declare(d, kind) = Def(b, p, Declared(w, r, Width(kind)))
  BY <1>7 DEF Declared
<1> QED BY <1>8 DEF x, r, d, b, w

\* A declared local leaves a good definition: the frame is one local larger, and its
\* slots hold that local from here on.
LEMMA DeclareGood ==
    ASSUME NEW c, NEW s, NEW v, NEW p, NEW T, Body(c, s, v, p, T), Outside(p),
           NEW kind \in Kinds, ~(v.count >= MaxLocals),
           NEW k \in DOMAIN s, \A a \in Nat : Len(c) + 1 <= a => WordAt(s, k, a), s[k].local = Len(v.words) + 1
    PROVE  Good(Declare(Def(c, p, v), kind), s)
<1> DEFINE l == T[Len(T)]
           n == v.count
           W == Width(kind)
           b == Linked(c, v)
           w1 == Fixed(c, v)
           f == w1.fixup
           l1 == [link |-> f, slots |-> l.slots, loops |-> 0]
           new == Len(v.words) + 1
           r == [offset |-> n, kind |-> kind]
           m == [link |-> f, slots |-> l.slots \o Filled(W, new), loops |-> 0]
           x == <<<<"to", W>>, Operand(n)>>
           d == b \o x
           w2 == Declared(w1, r, W)
<1>1. /\ LoopsBelow(p, Len(p) + 1) = 0 /\ Open(p) = {} /\ p \in Cells
      /\ \A e, V : \A i \in 1..Len(p) : Marked(e, V, p, i)
  BY OnlyColonMarks, BodyFacts
<1>2. n \in Nat /\ l \in Layouts /\ c \in Cells /\ Len(c) \in Nat
  BY BodyFacts
<1>3. /\ v \in [words : Seq([offset : Nat, kind : Kinds]), count : Nat, fixup : Nat]
      /\ Len(l.slots) = n
      /\ \A i \in 1..Len(v.words) :
            /\ v.words[i].offset + Width(v.words[i].kind) <= v.count
            /\ \A j \in 1..Width(v.words[i].kind) : l.slots[v.words[i].offset + j] = i
  BY DEF Body, LocalsFit, Kinds
<1>4. Declare(Def(c, p, v), kind) = Def(d, p, w2)
  BY <1>2, DeclareIs
<1>5. PICK U : /\ Flows(b, s, w1, U, {}) /\ Len(U) = Len(b) + 1
               /\ U[Len(U)] = l1
               /\ IsLink(b, f) /\ b[f][1] = "operand" /\ (n = 0 => b[f] = Operand(0))
               /\ Len(c) <= Len(b) /\ f \in Nat /\ Extends(c, T, b, U)
  BY <1>1, LinkedFlows
<1>6. W \in {1, 2} /\ W \in Nat
  BY DEF Width
<1>7. w1 \in [words : Seq([offset : Nat, kind : Kinds]), count : Nat, fixup : Nat] /\ w1.words = v.words /\ w1.count = n
  <2> DEFINE Words_ == Seq([offset : Nat, kind : Kinds])
  <2>1. v \in [words : Words_, count : Nat, fixup : Nat]
    BY <1>3
  <2> HIDE DEF Words_
  <2>2. w1 \in [words : Words_, count : Nat, fixup : Nat] /\ w1.words = v.words /\ w1.count = n
    <3>1. Len(c) + 2 \in Nat
      BY <1>2
    <3> QED BY <2>1, <3>1 DEF Fixed
  <2> QED BY <2>2 DEF Words_
<1> HIDE DEF w1
<1>8. b \in Cells /\ Len(b) \in Nat /\ U \in Seq(Layouts)
  BY <1>5, FlowsFacts
<1>9. l.slots \in Seq(Nat) /\ l1 \in Layouts
  <2>1. l.slots \in Seq(Nat)
    BY <1>2 DEF Layouts
  <2> QED BY <2>1, <1>5 DEF Layouts
<1>10. v.words \in Seq([offset : Nat, kind : Kinds]) /\ new \in Nat
  BY <1>3
<1> HIDE DEF b, new, l
<1>11. /\ m \in Layouts /\ Len(m.slots) = n + W /\ m.link = f /\ m.loops = 0
       /\ \A i \in 1..n + W : m.slots[i] = IF i <= n THEN l.slots[i] ELSE new
  <2> DEFINE y == Filled(W, new)
  <2>1. y \in Seq(Nat) /\ Len(y) = W /\ \A i \in 1..W : y[i] = new
    BY <1>6, <1>10 DEF Filled
  <2> HIDE DEF y
  <2> DEFINE z == l.slots \o y
  <2>2. /\ z \in Seq(Nat) /\ Len(z) = Len(l.slots) + Len(y)
        /\ \A i \in 1..Len(l.slots) + Len(y) : z[i] = IF i <= Len(l.slots) THEN l.slots[i] ELSE y[i - Len(l.slots)]
    BY <2>1, <1>9, ConcatProperties
  <2> HIDE DEF z
  <2>3. \A i \in 1..n + W : z[i] = IF i <= n THEN l.slots[i] ELSE new
    <3> SUFFICES ASSUME NEW i \in 1..n + W PROVE z[i] = IF i <= n THEN l.slots[i] ELSE new
      OBVIOUS
    <3>1. CASE i <= n
      BY <3>1, <2>1, <2>2, <1>3, <1>2, <1>6
    <3>2. CASE ~(i <= n)
      <4>1. i - n \in 1..W
        BY <3>2, <1>2, <1>6
      <4> QED BY <3>2, <4>1, <2>1, <2>2, <1>3, <1>2, <1>6
    <3> QED BY <3>1, <3>2
  <2>4. m = [link |-> f, slots |-> z, loops |-> 0]
    BY DEF y, z
  <2> HIDE DEF m
  <2>5. m \in Layouts
    BY <2>2, <2>4, <1>5 DEF Layouts
  <2> QED BY <2>1, <2>2, <2>3, <2>4, <2>5, <1>3
<1> HIDE DEF m, l1, w2
<1>12. l1.link = f /\ l1.slots = l.slots /\ l1.loops = 0 /\ f # 0
  BY <1>5, <1>8 DEF l1, IsLink
<1>13. Roomy(b, w1, l1)
  <2>1. n <= Room(b, w1, f)
    BY <1>2, <1>5, <1>7 DEF Room, Operand
  <2> QED BY <2>1, <1>3, <1>5, <1>12 DEF Roomy
<1>14. /\ x \in Cells /\ Len(x) = 2 /\ x[1] = <<"to", W>> /\ x[2] = Operand(n)
       /\ x[1][1] = "to" /\ x[1][2] = W /\ x[2][1] = "operand" /\ x[2][2] = n
  <2>1. <<"to", W>> \in Names \X Int /\ Operand(n) \in Names \X Int
    BY <1>2, <1>6 DEF Names, Operand
  <2> HIDE DEF W
  <2>2. x \in Cells /\ Len(x) = 2 /\ x[1] = <<"to", W>> /\ x[2] = Operand(n)
    BY <2>1, TwoOf
  <2> QED BY <2>2 DEF Operand
<1> HIDE DEF x, W, n
<1>15. ASSUME NEW e, NEW V, Added(b, e, V, x, l1, m)
       PROVE  Rest(e, s, V, Len(b) + 1)
  <2> DEFINE a == Len(b) + 1
  <2>1. /\ e[Len(b) + 1] = x[1] /\ e[Len(b) + 2] = x[2] /\ V[Len(b) + 1] = l1 /\ At(e, V, Len(b) + 1 + 2, m)
    BY <1>8, <1>14, <1>15 DEF Added
  <2>2. e[a][1] = "to" /\ e[a][2] = W /\ e[a + 1][2] = n /\ V[a] = l1 /\ At(e, V, a + 2, m) /\ a \in Nat /\ Len(c) + 1 <= a
    <3>1. (Len(b) + 1) + 1 = Len(b) + 2
      BY <1>8
    <3> QED BY <2>1, <3>1, <1>2, <1>5, <1>8, <1>14
  <2> HIDE DEF a
  <2>3. OffsetAt(e, a) = n /\ LocalSize(e, a) = 2
    BY <2>2 DEF OffsetAt, LocalSize
  <2>4. Stores(e, s, l1, m, a)
    <3>1. WordAt(s, k, a) /\ s[k].local = new
      BY <2>2 DEF new
    <3>2. \A i \in 1..Len(m.slots) :
             IF i \in n + 1..n + W THEN m.slots[i] = s[k].local
             ELSE i <= Len(l1.slots) /\ m.slots[i] = l1.slots[i]
      BY <3>1, <1>2, <1>3, <1>6, <1>11, <1>12
    <3>3. n + W <= Len(m.slots)
      BY <1>11, <1>2, <1>6
    <3> QED BY <3>1, <3>2, <3>3, <2>2, <2>3, <1>11, <1>12 DEF Stores
  <2>5. Rest(e, s, V, a)
    BY <2>2, <2>3, <2>4, <1>2, <1>6, <1>11 DEF Rest, Tos
  <2> QED BY <2>5 DEF a
<1>16. Extended(b, s, w1, U, {}, d, m)
  <2>1. 1 <= Len(x) /\ (\A i \in 2..Len(x) : x[i][1] \in Data) /\ x[1][1] \notin Data \cup Branches \cup Loopings \cup Dos
    BY <1>14 DEF Data, Branches, Loopings, Dos
  <2>2. w1.count \in Nat
    BY <1>2, <1>7
  <2> QED BY <1>5, <1>11, <1>13, <1>14, <1>15, <2>1, <2>2, FlowsAdds
<1>17. d \in Cells /\ \A i \in 1..Len(b) : d[i] = b[i] /\ i \in 1..Len(d)
  <2>1. /\ d \in Cells /\ Len(d) = Len(b) + Len(x)
        /\ \A i \in 1..Len(b) + Len(x) : d[i] = IF i <= Len(b) THEN b[i] ELSE x[i - Len(b)]
    BY <1>8, <1>14, ConcatProperties DEF Cells
  <2> HIDE DEF d
  <2> QED BY <2>1, <1>8, <1>14
<1> HIDE DEF d
<1>18. PICK V : Flows(d, s, w1, V, {}) /\ Len(V) = Len(d) + 1 /\ V[Len(V)] = m
  BY <1>16 DEF Extended
<1>19. /\ w2 \in [words : Seq([offset : Nat, kind : Kinds]), count : Nat, fixup : Nat]
       /\ w2.words = Append(v.words, r) /\ w2.count = n + W /\ w2.fixup = f
  <2> DEFINE Words_ == Seq([offset : Nat, kind : Kinds])
  <2>1. w1 \in [words : Words_, count : Nat, fixup : Nat]
    BY <1>7
  <2>2. Append(v.words, r) \in Words_
    <3>1. r \in [offset : Nat, kind : Kinds]
      BY <1>2
    <3> QED BY <3>1, <1>10
  <2> HIDE DEF Words_, r
  <2>3. w2 \in [words : Words_, count : Nat, fixup : Nat]
       /\ w2.words = Append(v.words, r) /\ w2.count = n + W /\ w2.fixup = f
    <3>1. Append(w1.words, r) \in Words_ /\ w1.fixup = f
      BY <2>2, <1>7
    <3>0. W \in Nat
      BY <1>6
    <3> HIDE DEF f, W, w1
    <3>3. w1 \in Records(Words_)
      BY <2>1 DEF Records
    <3>2. /\ Declared(w1, r, W) \in Records(Words_)
          /\ Declared(w1, r, W).words = Append(w1.words, r)
          /\ Declared(w1, r, W).count = w1.count + W
          /\ Declared(w1, r, W).fixup = w1.fixup
      BY <3>3, <3>1, <3>0, DeclaredFields
    <3> QED BY <3>1, <3>2, <1>7 DEF w2, Records
  <2> QED BY <2>3 DEF Words_
<1>20. IsLink(d, f) /\ d[f] = b[f]
  BY <1>5, <1>17 DEF IsLink
<1>21. Flows(d, s, w2, V, {})
  <2>1. ASSUME NEW y, IsLink(d, y)
        PROVE  Room(d, w1, y) <= Room(d, w2, y) /\ Room(d, w1, y) \in Int /\ Room(d, w2, y) \in Int
    <3>1. d[y] \in Names \X Int
      BY <2>1, <1>17, ElementOfSeq DEF IsLink, Cells
    <3>2. d[y][2] \in Int
      BY <3>1
    <3>3. CASE y = f
      <4>1. Room(d, w2, y) = n + W
        BY <3>3, <1>19, <1>2, <1>6 DEF Room
      <4>2. Room(d, w1, y) = n
        BY <3>3, <1>7, <1>5, <1>20, <1>2 DEF Room, Operand
      <4> QED BY <4>1, <4>2, <1>2, <1>6
    <3>4. CASE y # f
      BY <3>2, <3>4, <1>19 DEF Room
    <3> QED BY <3>3, <3>4
  <2> QED BY <2>1, <1>18, FlowsLocals
<1>22. LocalsFit(d, w2, m)
  <2>1. Len(w2.words) = Len(v.words) + 1 /\ (\A i \in 1..Len(v.words) : w2.words[i] = v.words[i])
        /\ w2.words[Len(v.words) + 1] = r /\ Len(v.words) \in Nat /\ w2.words # << >>
    <3>1. r \in [offset : Nat, kind : Kinds]
      BY <1>2
    <3> DEFINE S == [offset : Nat, kind : Kinds]
    <3>2. v.words \in Seq(S) /\ r \in S
      BY <3>1, <1>10
    <3> HIDE DEF r, S
    <3>3. Len(v.words) \in Nat
      BY <3>2
    <3>4. /\ Len(Append(v.words, r)) = Len(v.words) + 1
          /\ \A i \in 1..Len(v.words) : Append(v.words, r)[i] = v.words[i]
          /\ Append(v.words, r)[Len(v.words) + 1] = r
      BY <3>2, AppendProperties
    <3>5. w2.words # << >>
      BY <3>3, <3>4, <1>19
    <3> QED BY <3>3, <3>4, <3>5, <1>19
  <2>2. ASSUME NEW i \in 1..Len(w2.words)
        PROVE  /\ w2.words[i].offset + Width(w2.words[i].kind) <= w2.count
               /\ \A j \in 1..Width(w2.words[i].kind) : m.slots[w2.words[i].offset + j] = i
    <3>1. CASE i \in 1..Len(v.words)
      <4>1. v.words[i] \in [offset : Nat, kind : Kinds]
        BY <3>1, <1>10, ElementOfSeq
      <4> DEFINE o == v.words[i].offset
                 g == Width(v.words[i].kind)
      <4>2. o \in Nat /\ g \in {1, 2}
        BY <4>1 DEF Width
      <4>3. o + g <= n /\ \A j \in 1..g : l.slots[o + j] = i
        BY <3>1, <1>3 DEF n
      <4>4. w2.words[i].offset = o /\ Width(w2.words[i].kind) = g
        BY <3>1, <2>1
      <4> HIDE DEF o, g
      <4>5. \A j \in 1..g : o + j \in 1..n + W /\ o + j <= n
        BY <4>2, <4>3, <1>2, <1>6
      <4>6. \A j \in 1..g : m.slots[o + j] = i
        BY <4>3, <4>5, <1>11
      <4>7. o + g <= n + W
        BY <4>2, <4>3, <1>2, <1>6
      <4> QED BY <4>4, <4>6, <4>7, <1>19
    <3>2. CASE i = Len(v.words) + 1
      <4>1. w2.words[i].offset = n /\ Width(w2.words[i].kind) = W
        BY <3>2, <2>1 DEF W
      <4>2. \A j \in 1..W : n + j \in 1..n + W /\ ~(n + j <= n)
        BY <1>2, <1>6
      <4>3. \A j \in 1..W : m.slots[n + j] = i
        BY <3>2, <4>2, <1>11 DEF new
      <4>4. n + W <= w2.count
        BY <1>19, <1>2, <1>6
      <4> QED BY <4>1, <4>3, <4>4
    <3> QED BY <3>1, <3>2, <2>1
  <2>3. w2.count > 0 /\ w2.count # 0
    BY <1>2, <1>6, <1>19
  <2> QED BY <2>1, <2>2, <2>3, <1>5, <1>11, <1>19, <1>20 DEF LocalsFit, Kinds
<1>23. Body(d, s, w2, p, V)
  BY <1>1, <1>11, <1>18, <1>21, <1>22 DEF Body
<1> QED BY <1>4, <1>23, GoodDef

\* A mark put on the stack.
LEMMA Pushed ==
    ASSUME NEW p \in Cells, NEW y \in Names \X Int
    PROVE  /\ Append(p, y) \in Cells /\ Len(p) \in Nat /\ Len(Append(p, y)) = Len(p) + 1
           /\ \A i \in 1..Len(p) : Append(p, y)[i] = p[i]
           /\ Append(p, y)[Len(p) + 1] = y
           /\ Append(p, y) # << >> /\ Last(Append(p, y)) = y /\ Front(Append(p, y)) = p
<1> DEFINE q == Append(p, y)
<1>1. /\ q \in Cells /\ Len(p) \in Nat /\ Len(q) = Len(p) + 1
      /\ \A i \in 1..Len(p) : q[i] = p[i]
      /\ q[Len(p) + 1] = y
  BY DEF Cells
<1>2. q # << >>
  BY <1>1 DEF Cells
<1>3. Last(q) = y
  <2> HIDE DEF q
  <2> QED BY <1>1 DEF Last
<1>4. Front(q) = p
  <2> HIDE DEF q
  <2> DEFINE r == SubSeq(q, 1, Len(p))
  <2>0. r \in Seq(Names \X Int) /\ Len(r) = Len(p) /\ \A i \in 1..Len(p) : r[i] = q[i]
    BY <1>1 DEF Cells
  <2>1. Front(q) = r
    <3>1. Len(q) - 1 = Len(p)
      BY <1>1
    <3> QED BY <3>1 DEF Front
  <2> HIDE DEF r
  <2>2. \A i \in 1..Len(p) : r[i] = p[i]
    BY <2>0, <1>1
  <2>3. r = p
    BY <2>0, <2>2, SeqEqual DEF Cells
  <2> QED BY <2>1, <2>3
<1> QED BY <1>1, <1>2, <1>3, <1>4

\* A mark taken off the stack.
LEMMA Popped ==
    ASSUME NEW p \in Cells, p # << >>
    PROVE  /\ Front(p) \in Cells /\ Last(p) \in Names \X Int /\ p = Append(Front(p), Last(p))
           /\ Len(p) \in Nat \ {0} /\ Last(p) = p[Len(p)] /\ Len(Front(p)) = Len(p) - 1
           /\ \A i \in 1..Len(p) - 1 : Front(p)[i] = p[i]
<1>1. Len(p) \in Nat \ {0} /\ Last(p) = p[Len(p)] /\ Len(p) \in 1..Len(p)
  BY EmptySeq DEF Cells, Last
<1>2. Last(p) \in Names \X Int
  BY <1>1, ElementOfSeq DEF Cells
<1> DEFINE q == Front(p)
<1>3. q \in Seq(Names \X Int) /\ Len(q) = Len(p) - 1 /\ \A i \in 1..Len(p) - 1 : q[i] = p[i]
  <2> DEFINE S == Names \X Int
             k == Len(p) - 1
  <2>1. p \in Seq(S) /\ k \in Nat /\ k <= Len(p) /\ q = SubSeq(p, 1, k)
    BY <1>1 DEF Front, Cells
  <2> HIDE DEF S, k, q
  <2>2. q \in Seq(S) /\ Len(q) = k /\ \A i \in 1..k : q[i] = p[i]
    BY <2>1, <1>1
  <2> QED BY <2>2 DEF S, k
<1> HIDE DEF q
<1>4. p = Append(q, Last(p))
  <2> DEFINE r == Append(q, Last(p))
  <2>1. r \in Seq(Names \X Int) /\ Len(r) = Len(p) /\ (\A i \in 1..Len(p) - 1 : r[i] = q[i]) /\ r[Len(p)] = Last(p)
    <3>1. /\ r \in Seq(Names \X Int) /\ Len(r) = Len(q) + 1
          /\ (\A i \in 1..Len(q) : r[i] = q[i]) /\ r[Len(q) + 1] = Last(p)
      BY <1>2, <1>3, AppendProperties
    <3> HIDE DEF r
    <3>2. (Len(p) - 1) + 1 = Len(p)
      BY <1>1
    <3> QED BY <3>1, <3>2, <1>3
  <2> HIDE DEF r
  <2>2. ASSUME NEW i \in 1..Len(p) PROVE r[i] = p[i]
    <3>1. CASE i = Len(p)
      BY <3>1, <2>1, <1>1
    <3>2. CASE i # Len(p)
      <4>1. i \in 1..Len(p) - 1
        BY <3>2, <1>1
      <4> QED BY <4>1, <2>1, <1>3
    <3> QED BY <3>1, <3>2
  <2>3. r = p
    BY <2>1, <2>2, SeqEqual DEF Cells
  <2> QED BY <2>3 DEF r
<1> QED BY <1>1, <1>2, <1>3, <1>4 DEF q, Cells

\* The addresses on the stack after one more mark.
LEMMA OpenPushed ==
    ASSUME NEW p \in Cells, NEW y \in Names \X Int
    PROVE  Open(Append(p, y)) = Open(p) \cup IF y[1] = "address" THEN {y[2]} ELSE {}
<1> DEFINE q == Append(p, y)
<1>1. /\ Len(p) \in Nat /\ Len(q) = Len(p) + 1
      /\ \A i \in 1..Len(p) : q[i] = p[i]
      /\ q[Len(p) + 1] = y
  BY Pushed
<1> HIDE DEF q
<1>2. ASSUME NEW x \in Open(q) PROVE x \in Open(p) \/ (y[1] = "address" /\ x = y[2])
  <2>1. PICK i \in 1..Len(q) : q[i][1] = "address" /\ x = q[i][2]
    BY DEF Open
  <2>2. CASE i \in 1..Len(p)
    BY <2>1, <2>2, <1>1 DEF Open
  <2>3. CASE i = Len(p) + 1
    BY <2>1, <2>3, <1>1
  <2> QED BY <2>2, <2>3, <1>1
<1>3. ASSUME NEW x \in Open(p) PROVE x \in Open(q)
  <2>1. PICK i \in 1..Len(p) : p[i][1] = "address" /\ x = p[i][2]
    BY DEF Open
  <2>2. i \in 1..Len(q) /\ q[i] = p[i]
    BY <1>1
  <2> QED BY <2>1, <2>2 DEF Open
<1>4. ASSUME y[1] = "address" PROVE y[2] \in Open(q)
  <2>1. Len(p) + 1 \in 1..Len(q)
    BY <1>1
  <2> QED BY <1>1, <1>4, <2>1 DEF Open
<1>5. Open(q) = Open(p) \cup IF y[1] = "address" THEN {y[2]} ELSE {}
  BY <1>2, <1>3, <1>4
<1> QED BY <1>5 DEF q

\* The loops open on the stack after one more mark.
LEMMA LoopsPushed ==
    ASSUME NEW p \in Cells, NEW y \in Names \X Int
    PROVE  LoopsIn(Append(p, y)) = IF y = Tag("do") THEN LoopsIn(p) + 1 ELSE LoopsIn(p)
<1> DEFINE q == Append(p, y)
<1>1. /\ Len(p) \in Nat /\ Len(q) = Len(p) + 1
      /\ \A i \in 1..Len(p) : q[i] = p[i]
      /\ q[Len(p) + 1] = y
  BY Pushed
<1> HIDE DEF q
<1>2. LoopsBelow(q, Len(p) + 1) = LoopsBelow(p, Len(p) + 1)
  <2>1. Len(p) + 1 \in Nat /\ 1..(Len(p) + 1) - 1 = 1..Len(p)
    BY <1>1
  <2> QED BY <2>1, <1>1, LoopsBelowSame
<1>3. LoopsBelow(q, (Len(p) + 1) + 1)
         = IF q[Len(p) + 1] = Tag("do") THEN LoopsBelow(q, Len(p) + 1) + 1 ELSE LoopsBelow(q, Len(p) + 1)
  <2>1. Len(p) + 1 \in Nat \ {0}
    BY <1>1
  <2> QED BY <2>1, LoopsBelowNext
<1> QED BY <1>1, <1>2, <1>3 DEF q, LoopsIn

-----------------------------------------------------------------------------
(* Control structures: what is on the stack for them.                      *)

\* A definition that is being written: its flow, and its stack.
LEMMA BodyParts ==
    ASSUME NEW c, NEW s, NEW v, NEW p, NEW T, Body(c, s, v, p, T)
    PROVE  /\ Flows(c, s, v, T, Open(p)) /\ Len(T) = Len(c) + 1 /\ Stacked(c, v, p, T)
           /\ Extends(c, T, c, T) /\ c \in Cells /\ Len(c) \in Nat /\ T \in Seq(Layouts) /\ p \in Cells
           /\ v.count \in Nat /\ T[Len(T)] \in Layouts /\ Roomy(c, v, T[Len(T)])
<1>1. Flows(c, s, v, T, Open(p)) /\ Len(T) = Len(c) + 1
  BY DEF Body
<1>2. T[Len(T)] \in Layouts
  BY BodyFacts
<1>3. Stacked(c, v, p, T)
  BY <1>2 DEF Body, Stacked, LoopsIn
<1>4. Extends(c, T, c, T)
  BY <1>1, ExtendsItself
<1> QED BY <1>1, <1>2, <1>3, <1>4, BodyFacts

\* A flow and a stack that fit each other are a definition that is being written.
LEMMA BodyOf ==
    ASSUME NEW c, NEW s, NEW v, NEW p, NEW T,
           Flows(c, s, v, T, Open(p)), Len(T) = Len(c) + 1, Stacked(c, v, p, T)
    PROVE  Body(c, s, v, p, T)
BY DEF Body, Stacked, LoopsIn

\* The stack of an extended definition: the marks it shares with the old one fit still,
\* the others have to be shown to.
LEMMA Restacked ==
    ASSUME NEW c, NEW v, NEW p, NEW T, Stacked(c, v, p, T), NEW d, NEW U, Extends(c, T, d, U),
           NEW q \in Cells, NEW k \in 0..Len(p), k <= Len(q), \A j \in 1..k : q[j] = p[j],
           U[Len(U)] = Looped(T[Len(T)], LoopsIn(q)),
           \A i \in k + 1..Len(q) : Marked(d, U, q, i)
    PROVE  Stacked(d, v, q, U)
<1>1. Len(p) \in Nat /\ Len(q) \in Nat
  BY DEF Stacked, Cells
<1>2. U[Len(U)].link = T[Len(T)].link /\ U[Len(U)].slots = T[Len(T)].slots /\ U[Len(U)].loops = LoopsIn(q)
  BY DEF Looped
<1>3. ASSUME NEW i \in 1..Len(q) PROVE Marked(d, U, q, i)
  <2>1. CASE i \in k + 1..Len(q)
    BY <2>1
  <2>2. CASE i \in 1..k
    <3>1. i \in Nat \ {0} /\ i \in 1..Len(p) /\ \A j \in 1..i : q[j] = p[j]
      BY <2>2, <1>1
    <3>2. Marked(c, T, p, i)
      BY <3>1 DEF Stacked
    <3> QED BY <3>1, <3>2, <1>2, MarkedKept
  <2> QED BY <2>1, <2>2, <1>1
<1>4. LocalsFit(d, v, U[Len(U)])
  BY <1>2, LocalsFitKept DEF Stacked
<1>5. LoopsIn(q) \in Nat
  <2>1. Len(q) + 1 \in Nat
    BY <1>1
  <2> QED BY <2>1, LoopsBelowNat DEF LoopsIn
<1>6. U[Len(U)] \in Layouts
  BY <1>5, LoopedLayout DEF Stacked
<1> QED BY <1>2, <1>3, <1>4, <1>6 DEF Stacked

\* The stack fits an extension that ends with the layout the code ended with.
LEMMA StackedSame ==
    ASSUME NEW c, NEW v, NEW p, NEW T, Stacked(c, v, p, T), NEW d, NEW U, Extends(c, T, d, U), U[Len(U)] = T[Len(T)]
    PROVE  Stacked(d, v, p, U)
<1>1. p \in Cells /\ Len(p) \in Nat
  BY DEF Stacked, Cells
<1>2. U[Len(U)] = Looped(T[Len(T)], LoopsIn(p))
  BY LoopedLayout DEF Stacked
<1>3. Len(p) \in 0..Len(p) /\ Len(p) + 1..Len(p) = {}
  BY <1>1
<1> QED BY <1>1, <1>2, <1>3, Restacked

\* The marks above an address, but for that of DO.
Tags == {"origin", "target", "leave", "of", "fallthrough"}
Marks(p, x, t) == Append(Append(p, Address(x)), Tag(t))

\* A mark and its address put on the stack.
LEMMA MarksFacts ==
    ASSUME NEW p \in Cells, NEW x \in Int, NEW t \in Tags \cup {"do"}
    PROVE  /\ Marks(p, x, t) \in Cells /\ Len(p) \in Nat /\ Len(Marks(p, x, t)) = Len(p) + 2
           /\ \A i \in 1..Len(p) : Marks(p, x, t)[i] = p[i]
           /\ Marks(p, x, t)[Len(p) + 1] = Address(x) /\ Marks(p, x, t)[Len(p) + 2] = Tag(t)
           /\ Open(Marks(p, x, t)) = Open(p) \cup {x}
           /\ LoopsIn(Marks(p, x, t)) = IF t = "do" THEN LoopsIn(p) + 1 ELSE LoopsIn(p)
           /\ Marks(p, x, t) # << >> /\ Last(Marks(p, x, t)) = Tag(t)
           /\ Front(Marks(p, x, t)) = Append(p, Address(x))
           /\ Append(p, Address(x)) \in Cells /\ Append(p, Address(x)) # << >>
           /\ Last(Append(p, Address(x))) = Address(x) /\ Front(Append(p, Address(x))) = p
<1>1. Address(x) \in Names \X Int /\ Address(x)[1] = "address" /\ Address(x)[2] = x /\ Address(x) # Tag("do")
  BY DEF Address, Names, Tag
<1>2. Tag(t) \in Names \X Int /\ Tag(t)[1] # "address" /\ (Tag(t) = Tag("do") <=> t = "do")
  <2>1. t \in Names
    BY DEF Names, Tags
  <2> QED BY <2>1 DEF Tag, Tags
<1> DEFINE q == Append(p, Address(x))
<1>3. /\ q \in Cells /\ Len(p) \in Nat /\ Len(q) = Len(p) + 1 /\ (\A i \in 1..Len(p) : q[i] = p[i])
      /\ q[Len(p) + 1] = Address(x) /\ q # << >> /\ Last(q) = Address(x) /\ Front(q) = p
  BY <1>1, Pushed
<1>4. Open(q) = Open(p) \cup {x} /\ LoopsIn(q) = LoopsIn(p)
  BY <1>1, OpenPushed, LoopsPushed
<1> HIDE DEF q
<1> DEFINE r == Append(q, Tag(t))
<1>5. /\ r \in Cells /\ Len(r) = Len(q) + 1 /\ (\A i \in 1..Len(q) : r[i] = q[i])
      /\ r[Len(q) + 1] = Tag(t) /\ r # << >> /\ Last(r) = Tag(t) /\ Front(r) = q
  BY <1>2, <1>3, Pushed, SMTT(20)
<1>6. Open(r) = Open(p) \cup {x}
  BY <1>2, <1>3, <1>4, OpenPushed
<1>7. LoopsIn(r) = IF t = "do" THEN LoopsIn(p) + 1 ELSE LoopsIn(p)
  BY <1>2, <1>3, <1>4, LoopsPushed
<1>8. r = Marks(p, x, t)
  BY DEF q, Marks
<1> HIDE DEF r
<1>9. (\A i \in 1..Len(p) : r[i] = p[i]) /\ r[Len(p) + 1] = Address(x) /\ r[Len(p) + 2] = Tag(t) /\ Len(r) = Len(p) + 2
  <2>1. \A i \in 1..Len(p) : i \in 1..Len(q)
    BY <1>3
  <2>2. Len(p) + 1 \in 1..Len(q) /\ Len(q) + 1 = Len(p) + 2
    BY <1>3
  <2> QED BY <2>1, <2>2, <1>3, <1>5
<1> QED BY <1>3, <1>5, <1>6, <1>7, <1>8, <1>9 DEF q

\* A mark that fits what the code is at its address.
LEMMA StackedMarked ==
    ASSUME NEW c, NEW v, NEW p, NEW T, Stacked(c, v, p, T), Extends(c, T, c, T),
           NEW x \in Int, NEW t \in Tags, Suits(c, T, t, x, T[Len(T)])
    PROVE  Stacked(c, v, Marks(p, x, t), T)
<1> DEFINE q == Marks(p, x, t)
           n == Len(p)
           l == T[Len(T)]
<1>1. /\ q \in Cells /\ n \in Nat /\ Len(q) = n + 2 /\ (\A i \in 1..n : q[i] = p[i])
      /\ q[n + 1] = Address(x) /\ q[n + 2] = Tag(t) /\ LoopsIn(q) = LoopsIn(p)
  <2>1. p \in Cells /\ t \in Tags \cup {"do"} /\ t # "do"
    BY DEF Stacked, Tags
  <2> QED BY <2>1, MarksFacts
<1> HIDE DEF q
<1>2. LoopsBelow(q, n + 2) = LoopsIn(p)
  <2>1. LoopsBelow(q, (n + 2) + 1) = IF q[n + 2] = Tag("do") THEN LoopsBelow(q, n + 2) + 1 ELSE LoopsBelow(q, n + 2)
    <3>1. n + 2 \in Nat \ {0}
      BY <1>1
    <3> QED BY <3>1, LoopsBelowNext
  <2>2. q[n + 2] # Tag("do")
    BY <1>1 DEF Tag, Tags
  <2> QED BY <2>1, <2>2, <1>1 DEF LoopsIn
<1>3. l = Looped(l, LoopsIn(p))
  BY LoopedLayout DEF Stacked
<1>4. Marked(c, T, q, n + 1)
  BY <1>1 DEF Marked, Address
<1>5. Marked(c, T, q, n + 2)
  <2>1. (n + 2) - 1 = n + 1 /\ n + 2 > 1
    BY <1>1
  <2>2. Under(q, n + 2, "address") /\ q[(n + 2) - 1][2] = x
    BY <2>1, <1>1 DEF Under, Address
  <2>3. q[n + 2] = Tag(t) /\ Looped(l, LoopsBelow(q, n + 2)) = l
    BY <1>1, <1>2, <1>3
  <2> HIDE DEF l, n
  <2> QED BY <2>2, <2>3 DEF Marked, Suits, l
<1>6. \A i \in n + 1..Len(q) : Marked(c, T, q, i)
  <2>1. \A i \in n + 1..n + 2 : i = n + 1 \/ i = n + 2
    BY <1>1
  <2> QED BY <2>1, <1>1, <1>4, <1>5
<1>7. n \in 0..Len(p) /\ n <= Len(q)
  BY <1>1
<1>8. Stacked(c, v, q, T)
  BY <1>1, <1>3, <1>6, <1>7, Restacked
<1> QED BY <1>8 DEF q

\* The mark on top, its address, and the stack below them.
LEMMA StackedTop ==
    ASSUME NEW c, NEW v, NEW p, NEW T, Stacked(c, v, p, T), Extends(c, T, c, T),
           NEW t \in Tags, p # << >>, Last(p) = Tag(t)
    PROVE  \E q \in Cells, x \in Int :
              p = Marks(q, x, t) /\ Suits(c, T, t, x, T[Len(T)]) /\ Stacked(c, v, q, T)
<1> DEFINE n == Len(p)
           l == T[Len(T)]
           r == Front(p)
           q == Front(r)
           x == p[n - 1][2]
<1>1. /\ r \in Cells /\ p = Append(r, Tag(t)) /\ n \in Nat \ {0} /\ p[n] = Tag(t) /\ Len(r) = n - 1
      /\ \A i \in 1..n - 1 : r[i] = p[i]
  BY Popped DEF Stacked
<1>2. Marked(c, T, p, n)
  BY <1>1 DEF Stacked
<1>3. Under(p, n, "address") /\ Suits(c, T, t, x, Looped(l, LoopsBelow(p, n)))
  <2>1. p[n] # Tag("colon") /\ p[n] # Tag("do") /\ p[n] # Tag("case") /\ p[n][1] \notin {"address", "count"} /\ p[n] = Tag(t)
    BY <1>1 DEF Tag, Tags
  <2>2. \A u : p[n] = Tag(u) => u = t
    BY <1>1 DEF Tag
  <2> HIDE DEF l, n
  <2> QED BY <1>2, <2>1, <2>2 DEF Marked, Suits, l
<1>4. n - 1 \in 1..n /\ n - 1 \in 1..n - 1 /\ p[n - 1][1] = "address"
  BY <1>1, <1>3 DEF Under
<1>5. p[n - 1] = Address(x) /\ x \in Int
  <2>1. p[n - 1] \in Names \X Int
    BY <1>4, ElementOfSeq DEF Stacked, Cells
  <2> QED BY <2>1, <1>4 DEF Address
<1>6. r # << >> /\ Last(r) = Address(x)
  <2>1. r[Len(r)] = Address(x)
    BY <1>1, <1>4, <1>5
  <2>2. r # << >>
    BY <1>1, <1>4 DEF Cells
  <2> QED BY <2>1, <2>2 DEF Last
<1>7. /\ q \in Cells /\ r = Append(q, Address(x)) /\ Len(q) = n - 2 /\ \A i \in 1..n - 2 : q[i] = r[i]
  <2> HIDE DEF r, n, x
  <2>1. q \in Cells /\ r = Append(q, Last(r)) /\ Len(q) = Len(r) - 1 /\ \A i \in 1..Len(r) - 1 : q[i] = r[i]
    BY <1>1, <1>6, Popped
  <2>2. Len(r) - 1 = n - 2
    BY <1>1
  <2> QED BY <2>1, <2>2, <1>6
<1>8. p = Marks(q, x, t)
  BY <1>1, <1>7 DEF Marks
<1> HIDE DEF q, r, x, l
<1>9. LoopsIn(p) = LoopsIn(q)
  BY <1>5, <1>7, <1>8, MarksFacts, ZenonT(30) DEF Tags
<1>10. LoopsBelow(p, n) = LoopsIn(p)
  <2>1. LoopsBelow(p, n + 1) = IF p[n] = Tag("do") THEN LoopsBelow(p, n) + 1 ELSE LoopsBelow(p, n)
    BY <1>1, LoopsBelowNext
  <2>2. p[n] # Tag("do")
    BY <1>1 DEF Tag, Tags
  <2> QED BY <2>1, <2>2 DEF LoopsIn
<1>11. l = Looped(l, LoopsIn(p))
  BY LoopedLayout DEF Stacked, l
<1>12. Stacked(c, v, q, T)
  <2>1. n - 2 \in 0..Len(p) /\ n - 2 <= Len(q) /\ n - 2 + 1..Len(q) = {}
    BY <1>1, <1>4, <1>7
  <2>2. \A j \in 1..n - 2 : q[j] = p[j]
    BY <1>1, <1>4, <1>7
  <2>3. T[Len(T)] = Looped(T[Len(T)], LoopsIn(q))
    BY <1>9, <1>11 DEF l
  <2> HIDE DEF n
  <2> QED BY <2>1, <2>2, <2>3, <1>7, Restacked
<1>13. Suits(c, T, t, x, T[Len(T)])
  BY <1>3, <1>10, <1>11 DEF l
<1> QED BY <1>5, <1>7, <1>8, <1>12, <1>13

\* Operands that are resolved need not be remembered.
LEMMA FlowsClosed ==
    ASSUME NEW c, NEW s, NEW v, NEW T, NEW X, Flows(c, s, v, T, X), NEW Y,
           \A x \in X : x \in Y \/ (x - 1 \in 1..Len(c) /\ IsPlace(c, x - 1) => Jumped(c, T, x - 1))
    PROVE  Flows(c, s, v, T, Y)
<1>1. ASSUME NEW a \in 1..Len(c), IsPlace(c, a), Jumped(c, T, a) \/ a + 1 \in X
      PROVE  Jumped(c, T, a) \/ a + 1 \in Y
  <2>1. (a + 1) - 1 = a
    OBVIOUS
  <2> QED BY <1>1, <2>1
<1> QED BY <1>1 DEF Flows

\* The address of a place is the operand of no jump.
LEMMA TargetClosed ==
    ASSUME NEW c, NEW s, NEW v, NEW T, NEW X, Flows(c, s, v, T, X), NEW x, NEW l, At(c, T, x, l),
           x - 1 \in 1..Len(c), IsPlace(c, x - 1)
    PROVE  Jumped(c, T, x - 1)
<1>1. Len(c) \in Nat /\ Len(T) \in Nat /\ Len(T) \in {Len(c), Len(c) + 1} /\ x \in 1..Len(T) /\ (x - 1) + 1 = x
  BY FlowsFacts DEF Flows, At
<1>2. CASE x - 1 = Len(c)
  <2>1. c[x - 1][1] \notin Branches \cup Loopings \cup Dos
    BY <1>2, LastNoJump
  <2> QED BY <2>1 DEF Jumped
<1>3. CASE x - 1 # Len(c)
  <2>1. Rest(c, s, T, x - 1)
    BY DEF Flows
  <2>2. ~HasOperand(c, x - 1)
    <3>1. x \in 1..Len(c)
      BY <1>1, <1>3
    <3>2. c[x][1] # "operand"
      BY <3>1 DEF At, IsPlace
    <3> QED BY <3>2, <1>1 DEF HasOperand
  <2>3. c[x - 1][1] \notin Branches \cup Loopings \cup Dos
    BY <2>1, <2>2 DEF Rest, Branches, Loopings, Dos, Gets, Tos
  <2> QED BY <2>3 DEF Jumped
<1> QED BY <1>2, <1>3

(* What a jump makes of the layout for what follows it. *)
Passes(w, l, m) ==
    \/ w \in Branches /\ m = l
    \/ w \in Dos /\ m = Looped(l, l.loops + 1)
    \/ w \in Loopings /\ l.loops > 0 /\ m = Looped(l, l.loops - 1)

\* A jump with its operand.
Jump(c, w, n) == Append(Append(c, Instr(w)), Operand(n))

\* A jump with its operand after the code.
LEMMA JumpCells ==
    ASSUME NEW c \in Cells, NEW w \in Names, NEW n \in Int
    PROVE  LET x == <<Instr(w), Operand(n)>>
               d == Jump(c, w, n) IN
           /\ d = c \o x /\ d \in Cells /\ Len(c) \in Nat /\ Len(d) = Len(c) + 2
           /\ \A b \in 1..Len(c) : d[b] = c[b]
           /\ d[Len(c) + 1] = Instr(w) /\ d[Len(c) + 2] = Operand(n)
           /\ x \in Cells /\ Len(x) = 2 /\ x[1] = Instr(w) /\ x[2] = Operand(n)
<1> DEFINE x == <<Instr(w), Operand(n)>>
           b == Append(c, Instr(w))
           d == Jump(c, w, n)
<1>1. Instr(w) \in Names \X Int /\ Operand(n) \in Names \X Int
  BY DEF Names, Instr, Operand
<1>2. /\ b \in Cells /\ Len(c) \in Nat /\ Len(b) = Len(c) + 1 /\ (\A i \in 1..Len(c) : b[i] = c[i])
      /\ b[Len(c) + 1] = Instr(w)
  BY <1>1, Pushed
<1> HIDE DEF b
<1>3. d = Append(b, Operand(n))
  BY DEF b, Jump
<1>4. /\ d \in Cells /\ Len(d) = Len(b) + 1 /\ (\A i \in 1..Len(b) : d[i] = b[i]) /\ d[Len(b) + 1] = Operand(n)
  <2>1. LET e == Append(b, Operand(n)) IN
        e \in Cells /\ Len(e) = Len(b) + 1 /\ (\A i \in 1..Len(b) : e[i] = b[i]) /\ e[Len(b) + 1] = Operand(n)
    BY <1>1, <1>2, Pushed
  <2> HIDE DEF d
  <2> QED BY <2>1, <1>3
<1> HIDE DEF d
<1>5. Len(d) = Len(c) + 2 /\ (\A i \in 1..Len(c) : d[i] = c[i])
      /\ d[Len(c) + 1] = Instr(w) /\ d[Len(c) + 2] = Operand(n)
  <2>1. (\A i \in 1..Len(c) : i \in 1..Len(b)) /\ Len(c) + 1 \in 1..Len(b) /\ Len(b) + 1 = Len(c) + 2
    BY <1>2
  <2> QED BY <2>1, <1>2, <1>4
<1>6. x \in Cells /\ Len(x) = 2 /\ x[1] = Instr(w) /\ x[2] = Operand(n)
  BY <1>1, TwoOf
<1> HIDE DEF x
<1>7. d = c \o x
  <2> DEFINE e == c \o x
  <2>1. /\ e \in Seq(Names \X Int) /\ Len(e) = Len(c) + Len(x)
        /\ \A i \in 1..Len(c) + Len(x) : e[i] = IF i <= Len(c) THEN c[i] ELSE x[i - Len(c)]
    BY <1>6, ConcatProperties DEF Cells
  <2> HIDE DEF e
  <2>2. ASSUME NEW i \in 1..Len(d) PROVE d[i] = e[i]
    <3>1. CASE i \in 1..Len(c)
      <4>1. i <= Len(c) /\ i \in 1..Len(c) + Len(x)
        BY <3>1, <1>2, <1>6
      <4>2. e[i] = c[i]
        BY <4>1, <2>1
      <4> QED BY <3>1, <4>2, <1>5
    <3>2. CASE i = Len(c) + 1
      <4>1. i - Len(c) = 1 /\ ~(i <= Len(c)) /\ i \in 1..Len(c) + Len(x)
        BY <3>2, <1>2, <1>6
      <4> QED BY <3>2, <4>1, <2>1, <1>5, <1>6
    <3>3. CASE i = Len(c) + 2
      <4>1. i - Len(c) = 2 /\ ~(i <= Len(c)) /\ i \in 1..Len(c) + Len(x)
        BY <3>3, <1>2, <1>6
      <4> QED BY <3>3, <4>1, <2>1, <1>5, <1>6
    <3> QED BY <3>1, <3>2, <3>3, <1>2, <1>5
  <2>3. Len(e) = Len(d)
    BY <2>1, <1>5, <1>6
  <2>4. d = e
    BY <2>1, <2>2, <2>3, <1>4, SeqEqual DEF Cells
  <2> QED BY <2>4 DEF e
<1> QED BY <1>2, <1>4, <1>5, <1>6, <1>7 DEF x, d

\* One operand more to fill in.
With(X, x) == X \cup {x}

(* The jump whose operand is at x. *)
Opened(d, U, x, w, l) ==
    x \in 1..Len(d) /\ x - 1 \in 1..Len(d) /\ d[x - 1][1] = w /\ d[x][1] = "operand" /\ U[x - 1] = l

(* A jump whose operand is still to be filled in. *)
LEMMA FlowsJump ==
    ASSUME NEW c, NEW s, NEW v, NEW T, NEW X, Flows(c, s, v, T, X), Len(T) = Len(c) + 1, v.count \in Nat,
           NEW l, T[Len(T)] = l, Roomy(c, v, l), NEW m \in Layouts,
           NEW w, Passes(w, l, m), NEW n \in Int
    PROVE  \E U : /\ Flows(Jump(c, w, n), s, v, U, With(X, Len(c) + 2)) /\ Extends(c, T, Jump(c, w, n), U)
                  /\ Len(U) = Len(Jump(c, w, n)) + 1 /\ U[Len(U)] = m
                  /\ U[Len(c) + 1] = l
                  /\ Opened(Jump(c, w, n), U, Len(c) + 2, w, l)
<1>1. c \in Cells /\ T \in Seq(Layouts) /\ Len(c) \in Nat
  BY FlowsFacts
<1>2. w \in Branches \cup Dos \cup Loopings
  BY DEF Passes
<1>3. w \in Names /\ w \notin Data
  BY <1>2 DEF Names, Branches, Dos, Loopings, Data
<1> DEFINE x == <<Instr(w), Operand(n)>>
           d == Jump(c, w, n)
           L == Filled(Len(x), m)
           Y == With(X, Len(c) + 2)
           U == T \o L
<1>4. /\ d = c \o x /\ d \in Cells /\ Len(d) = Len(c) + 2
      /\ d[Len(c) + 1] = Instr(w) /\ d[Len(c) + 2] = Operand(n)
      /\ x \in Cells /\ Len(x) = 2 /\ x[1] = Instr(w) /\ x[2] = Operand(n)
  BY <1>1, <1>3, JumpCells
<1> HIDE DEF x, d
<1>5. x[1][1] = w /\ x[2][1] = "operand" /\ x[2][2] = n /\ 1 <= Len(x) /\ x[1][1] \notin Data
      /\ d[Len(c) + 1][1] = w /\ d[Len(c) + 2][1] = "operand"
  BY <1>3, <1>4 DEF Instr, Operand
<1>6. Added(c, d, U, x, l, m)
  <2>1. Added(c, c \o x, U, x, l, m)
    BY <1>1, <1>4, <1>5, LaidAdded
  <2> QED BY <2>1, <1>4
<1>7. Extends(c, T, d, U) /\ Len(U) = Len(d) + 1 /\ U[Len(U)] = m
  <2>1. Joins(c, T, c \o x, U, m)
    BY <1>1, <1>4, <1>5, LaidJoins
  <2>2. Joins(c, T, d, U, m)
    BY <2>1, <1>4
  <2> HIDE DEF U
  <2> QED BY <2>2 DEF Joins
<1>8. L \in Seq(Layouts) /\ Len(L) = Len(x)
  BY <1>1, <1>4, <1>5, Laid
<1> HIDE DEF L
<1>9. U[Len(c) + 1] = l /\ At(d, U, Len(d) + 1, m)
  BY <1>6 DEF Added
<1>10. Rest(d, s, U, Len(c) + 1)
  <2> HIDE DEF U
  <2> DEFINE a == Len(c) + 1
  <2>1. d[a][1] = w /\ U[a] = l /\ At(d, U, a + 2, m) /\ HasOperand(d, a)
    <3>1. Len(d) + 1 = a + 2 /\ a + 1 = Len(c) + 2 /\ a + 1 \in 1..Len(d)
      BY <1>1, <1>4
    <3> QED BY <3>1, <1>5, <1>9 DEF HasOperand
  <2> HIDE DEF a
  <2>2. Rest(d, s, U, a)
    BY <2>1 DEF Rest, Passes
  <2> QED BY <2>2 DEF a
<1>11. Flows(c \o x, s, v, U, Y)
  <2>1. \A i \in 2..Len(x) : x[i][1] \in Data
    BY <1>4, <1>5 DEF Data
  <2>2. Rest(c \o x, s, U, Len(c) + 1)
    BY <1>4, <1>10
  <2>3. X \subseteq Y /\ Len(c) + 2 \in Y
    BY DEF With
  <2> HIDE DEF Y
  <2> QED BY <1>4, <1>5, <1>8, <2>1, <2>2, <2>3, FlowsMany
<1> HIDE DEF U
<1>12. Opened(d, U, Len(c) + 2, w, l)
  <2>1. (Len(c) + 2) - 1 = Len(c) + 1 /\ Len(c) + 2 \in 1..Len(d) /\ Len(c) + 1 \in 1..Len(d)
    BY <1>1, <1>4
  <2> QED BY <2>1, <1>5, <1>9 DEF Opened
<1>13. Flows(d, s, v, U, Y)
  BY <1>4, <1>11
<1> QED BY <1>7, <1>9, <1>12, <1>13 DEF d

(* Operands filled in: each of the jumps they belong to now goes somewhere. *)
LEMMA FlowsPatched ==
    ASSUME NEW c, NEW s, NEW v, NEW T, NEW X, Flows(c, s, v, T, X), Len(T) = Len(c) + 1, v.count \in Nat,
           NEW F, \A x \in F : Fixup(c, T, x, Branches \cup Dos, T[x - 1]),
           NEW d \in Cells, Len(d) = Len(c), \A b \in 1..Len(c) : b \notin F => d[b] = c[b],
           \A x \in F : d[x][1] = "operand" /\ Jumped(d, T, x - 1),
           NEW Y, \A x \in X : x \in Y \/ x \in F
    PROVE  Flows(d, s, v, T, Y) /\ Extends(c, T, d, T)
<1>1. c \in Cells /\ T \in Seq(Layouts) /\ Len(c) \in Nat
  BY FlowsFacts
<1>2. ASSUME NEW x \in F
      PROVE  /\ x \in 1..Len(c) /\ x - 1 \in 1..Len(c) /\ c[x - 1][1] \in Branches \cup Dos /\ c[x][1] = "operand"
             /\ Patchable(c, x) /\ c[x - 1][1] # "link"
  <2>1. Fixup(c, T, x, Branches \cup Dos, T[x - 1])
    OBVIOUS
  <2>2. x \in 1..Len(c) /\ x - 1 \in 1..Len(c) /\ c[x - 1][1] \in Branches \cup Dos /\ c[x][1] = "operand"
    BY <2>1 DEF Fixup
  <2> QED BY <2>2 DEF Patchable, Branches, Dos
<1>3. Extends(c, T, d, T)
  <2>1. ASSUME NEW b \in 1..Len(c)
        PROVE  \/ d[b] = c[b]
               \/ Patchable(c, b) /\ d[b][1] = "operand" /\ (c[b - 1][1] = "link" => d[b][2] \in Nat)
    <3>1. CASE b \in F
      BY <3>1, <1>2
    <3>2. CASE b \notin F
      BY <3>2
    <3> QED BY <3>1, <3>2
  <2> QED BY <2>1, PatchExtends
<1>4. ASSUME NEW y, IsLink(c, y)
      PROVE  Room(c, v, y) <= Room(d, v, y) /\ Room(c, v, y) \in Int /\ Room(d, v, y) \in Int
  <2>1. y \notin F
    BY <1>2, <1>4 DEF IsLink
  <2>2. d[y] = c[y]
    BY <2>1, <1>4 DEF IsLink
  <2> QED BY <2>2, <1>1, <1>4, RoomSame
<1>5. ASSUME NEW a \in 1..Len(c)
      PROVE  \/ a + 1 \notin X /\ d[a + 1] = c[a + 1]
             \/ a + 1 \in Y
             \/ Jumped(c, T, a) /\ d[a + 1] = c[a + 1]
             \/ Jumped(d, T, a)
  <2>0. (a + 1) - 1 = a
    OBVIOUS
  <2>1. CASE a + 1 \in F
    BY <2>0, <2>1
  <2>2. CASE a + 1 \notin F /\ a + 1 \in 1..Len(c)
    BY <2>2
  <2>3. CASE a = Len(c)
    <3>1. c[a][1] \notin Branches \cup Loopings \cup Dos
      BY <2>3, LastNoJump
    <3>2. d[a][1] = c[a][1]
      BY <1>3 DEF Extends
    <3> QED BY <3>1, <3>2 DEF Jumped
  <2> QED BY <2>1, <2>2, <2>3, <1>1
<1>6. \A a \in Len(c) + 1..Len(d) : IsPlace(d, a) =>
         Rest(d, s, T, a) /\ Roomy(d, v, T[a]) /\ (Jumped(d, T, a) \/ a + 1 \in Y)
  BY <1>1
<1>7. Len(T) \in {Len(d), Len(d) + 1}
  OBVIOUS
<1>8. Flows(d, s, v, T, Y)
  BY <1>3, <1>4, <1>5, <1>6, <1>7, FlowsKept
<1> QED BY <1>3, <1>8

(* Forward branches that end here. *)
LEMMA FlowsResolved ==
    ASSUME NEW c, NEW s, NEW v, NEW T, NEW X, Flows(c, s, v, T, X), Len(T) = Len(c) + 1, v.count \in Nat,
           NEW F, \A x \in F : Fixup(c, T, x, Branches, T[Len(T)]),
           NEW d \in Cells, Len(d) = Len(c),
           \A b \in 1..Len(c) : d[b] = IF b \in F THEN Operand(Len(c) + 1 - b) ELSE c[b],
           NEW Y, \A x \in X : x \in Y \/ x \in F
    PROVE  Flows(d, s, v, T, Y) /\ Extends(c, T, d, T)
<1>1. c \in Cells /\ T \in Seq(Layouts) /\ Len(c) \in Nat /\ DOMAIN c = 1..Len(c)
  BY FlowsFacts DEF Cells
<1>2. \A b \in 1..Len(c) : d[b] = IF b \in F THEN Operand(Len(c) + 1 - b) ELSE c[b]
  OBVIOUS
<1>3. ASSUME NEW x \in F
      PROVE  /\ x \in 1..Len(c) /\ x - 1 \in 1..Len(c) /\ c[x - 1][1] \in Branches /\ c[x][1] = "operand"
             /\ T[x - 1] = T[Len(T)] /\ x - 1 \notin F
  <2>1. Fixup(c, T, x, Branches, T[Len(T)])
    OBVIOUS
  <2>2. x - 1 \notin F
    <3> SUFFICES ASSUME x - 1 \in F PROVE FALSE
      OBVIOUS
    <3>1. Fixup(c, T, x - 1, Branches, T[Len(T)])
      OBVIOUS
    <3> QED BY <2>1, <3>1 DEF Fixup, Branches
  <2> QED BY <2>1, <2>2 DEF Fixup
<1>4. ASSUME NEW x \in F PROVE d[x][1] = "operand" /\ Jumped(d, T, x - 1)
  <2>1. d[x] = Operand(Len(c) + 1 - x) /\ d[x - 1] = c[x - 1] /\ (x - 1) + 1 = x /\ x \in Int
    <3>1. x \in 1..Len(c) /\ x - 1 \in 1..Len(c) /\ x - 1 \notin F
      BY <1>3
    <3>2. x \in Int /\ (x - 1) + 1 = x
      BY <3>1
    <3> QED BY <3>1, <3>2, <1>2
  <2>2. d[x][1] = "operand" /\ d[x][2] = Len(c) + 1 - x
    BY <2>1 DEF Operand
  <2>3. BranchTarget(d, x - 1) = Len(c) + 1
    BY <2>1, <2>2, <1>1 DEF BranchTarget
  <2>4. At(d, T, Len(c) + 1, T[x - 1])
    BY <1>1, <1>2, <1>3 DEF At, IsPlace
  <2>5. d[x - 1][1] \in Branches
    BY <2>1, <1>3
  <2> QED BY <2>2, <2>3, <2>4, <2>5 DEF Jumped, Branches, Dos
<1>5. \A x \in F : Fixup(c, T, x, Branches \cup Dos, T[x - 1])
  BY <1>3 DEF Fixup
<1> QED BY <1>2, <1>4, <1>5, FlowsPatched

\* A definition that is being written fits together.
LEMMA FitsDef ==
    ASSUME NEW c, NEW s, NEW v, NEW p, NEW T, Body(c, s, v, p, T)
    PROVE  Fits(Def(c, p, v), s)
BY DEF Fits

\* A definition that fits together and in which no word threw is good.
LEMMA FitsGood ==
    ASSUME NEW d, NEW s, Fits(d, s), Ok(d)
    PROVE  Good(d, s)
<1>1. PICK c, p, v, T : d = Def(c, p, v) /\ Body(c, s, v, p, T)
  BY DEF Fits
<1>2. Good(Def(c, p, v), s)
  BY <1>1, GoodDef
<1> QED BY <1>1, <1>2

\* A mark is taken off if it is the expected one; any other throws.
LEMMA Matched ==
    ASSUME NEW c, NEW p, NEW v, NEW t
    PROVE  /\ p # << >> /\ Last(p) = Tag(t) => MatchControlTag(Def(c, p, v), t) = Def(c, Front(p), v)
           /\ ~(p # << >> /\ Last(p) = Tag(t)) =>
                 /\ MatchControlTag(Def(c, p, v), t) = Fail(Def(c, p, v))
                 /\ ~Ok(MatchControlTag(Def(c, p, v), t))
<1>1. TopIs(Def(c, p, v), t) <=> p # << >> /\ Last(p) = Tag(t)
  BY DefReads
<1>2. Ok(Def(c, p, v)) /\ Pop(Def(c, p, v)) = Def(c, Front(p), v) /\ ~Ok(Fail(Def(c, p, v)))
  BY DefFields, DefPop, DefFail
<1> QED BY <1>1, <1>2 DEF MatchControlTag

\* The address of the next cell is marked.
LEMMA DefMarkBranch ==
    ASSUME NEW c, NEW p, NEW v, NEW t
    PROVE  MarkBranch(Def(c, p, v), t) = Def(c, Marks(p, Len(c) + 1, t), v)
<1> DEFINE q == Append(p, Address(Len(c) + 1))
<1>1. HereOf(Def(c, p, v)) = Len(c) + 1
  BY DefReads
<1>2. Push(Def(c, p, v), Address(Len(c) + 1)) = Def(c, q, v)
  BY DefPush
<1> HIDE DEF q
<1>3. Push(Def(c, q, v), Tag(t)) = Def(c, Append(q, Tag(t)), v)
  BY DefPush
<1> QED BY <1>1, <1>2, <1>3 DEF MarkBranch, Marks, q

(* An instruction, the mark of the address of its operand, and the operand.  *)
LEMMA DefJump ==
    ASSUME NEW c \in Cells, NEW p, NEW v, NEW w \in Names, NEW t, NEW n
    PROVE  Emit(MarkBranch(Emit(Def(c, p, v), Instr(w)), t), Operand(n))
              = Def(Jump(c, w, n), Marks(p, Len(c) + 2, t), v)
<1> DEFINE b == Append(c, Instr(w))
<1>1. Emit(Def(c, p, v), Instr(w)) = Def(b, p, v)
  BY DefEmit
<1>2. Len(b) + 1 = Len(c) + 2
  <2>1. Len(b) = Len(c) + 1 /\ Len(c) \in Nat
    BY Appended DEF Cells
  <2> HIDE DEF b
  <2> QED BY <2>1
<1>3. Jump(c, w, n) = Append(b, Operand(n))
  BY DEF Jump
<1> HIDE DEF b
<1>4. MarkBranch(Def(b, p, v), t) = Def(b, Marks(p, Len(c) + 2, t), v)
  BY <1>2, DefMarkBranch
<1> QED BY <1>1, <1>3, <1>4, DefEmit

\* The operand at x gets the distance to the next cell.
DefPatchHere(c, x) == [c EXCEPT ![x] = Operand(Len(c) + 1 - x)]

\* A forward branch gets the distance to the next cell.
LEMMA PatchHereIs ==
    ASSUME NEW c, NEW p, NEW v, NEW x
    PROVE  PatchHere(Def(c, p, v), x) = Def(DefPatchHere(c, x), p, v)
<1>1. HereOf(Def(c, p, v)) = Len(c) + 1
  BY DefReads
<1> QED BY <1>1, DefPatchTo DEF PatchHere, DefPatchHere

\* The mark a forward branch leaves.
OpensWith(w, t) ==
    \/ t = "origin" /\ w \in {"branchCheck", "branch0Check"}
    \/ t = "of" /\ w = "of("
    \/ t = "fallthrough" /\ w = "branchCheck"

\* A forward branch added, with the mark for its operand.
LEMMA OpensJump ==
    ASSUME NEW c, NEW s, NEW v, NEW T, NEW X, Flows(c, s, v, T, X), Len(T) = Len(c) + 1, v.count \in Nat,
           Roomy(c, v, T[Len(T)]), NEW q, Stacked(c, v, q, T), NEW w, NEW t, OpensWith(w, t), NEW n \in Int
    PROVE  \E U : /\ Flows(Jump(c, w, n), s, v, U, With(X, Len(c) + 2)) /\ Len(U) = Len(Jump(c, w, n)) + 1
                  /\ Extends(c, T, Jump(c, w, n), U) /\ U[Len(U)] = T[Len(T)]
                  /\ Stacked(Jump(c, w, n), v, Marks(q, Len(c) + 2, t), U)
<1> DEFINE d == Jump(c, w, n)
           l == T[Len(T)]
           x == Len(c) + 2
           Y == With(X, x)
<1>1. l \in Layouts /\ Passes(w, l, l) /\ Len(c) \in Nat /\ t \in Tags /\ Roomy(c, v, l)
  <2>1. w \in Branches
    BY DEF OpensWith, Branches
  <2>2. Len(c) \in Nat
    BY FlowsFacts
  <2> QED BY <2>1, <2>2 DEF Passes, Stacked, OpensWith, Tags
<1>2. T[Len(T)] = l
  OBVIOUS
<1> HIDE DEF l
<1>3. PICK U : /\ Flows(d, s, v, U, Y) /\ Extends(c, T, d, U)
               /\ Len(U) = Len(d) + 1 /\ U[Len(U)] = l /\ Opened(d, U, x, w, l)
  BY <1>1, <1>2, FlowsJump
<1> HIDE DEF d
<1>4. Stacked(d, v, q, U)
  BY <1>2, <1>3, StackedSame
<1>5. Extends(d, U, d, U)
  BY <1>3, ExtendsItself
<1>6. Suits(d, U, t, x, U[Len(U)])
  BY <1>3 DEF Suits, OpensWith, Fixup, Opened
<1>7. x \in Int
  BY <1>1
<1> HIDE DEF x
<1>8. Stacked(d, v, Marks(q, x, t), U)
  BY <1>1, <1>4, <1>5, <1>6, <1>7, StackedMarked
<1> QED BY <1>2, <1>3, <1>8 DEF d, x

\* A forward branch that ends at the next cell with the layout it has there.
LEMMA ResolvesHere ==
    ASSUME NEW c, NEW s, NEW v, NEW T, NEW X, Flows(c, s, v, T, X), Len(T) = Len(c) + 1, v.count \in Nat,
           NEW q, Stacked(c, v, q, T), NEW x, NEW names, Fixup(c, T, x, names, T[Len(T)]), names \subseteq Branches,
           \A y \in X : y \in Open(q) \/ y = x
    PROVE  Body(DefPatchHere(c, x), s, v, q, T)
<1> DEFINE d == DefPatchHere(c, x)
           F == {x}
           Y == Open(q)
<1>1. c \in Cells /\ Len(c) \in Nat /\ x \in 1..Len(c)
  BY FlowsFacts DEF Fixup
<1>2. d \in Cells /\ Len(d) = Len(c) /\ d[x] = Operand(Len(c) + 1 - x) /\ \A b \in 1..Len(c) : b # x => d[b] = c[b]
  <2>1. Len(c) + 1 - x \in Int
    BY <1>1
  <2> QED BY <1>1, <2>1, ExceptCell DEF DefPatchHere
<1> HIDE DEF d
<1>3. \A b \in 1..Len(c) : d[b] = IF b \in F THEN Operand(Len(c) + 1 - b) ELSE c[b]
  BY <1>2
<1>4. \A y \in F : Fixup(c, T, y, Branches, T[Len(T)])
  BY DEF Fixup
<1>5. \A y \in X : y \in Y \/ y \in F
  OBVIOUS
<1> HIDE DEF F, Y
<1>6. Flows(d, s, v, T, Y) /\ Extends(c, T, d, T)
  BY <1>2, <1>3, <1>4, <1>5, FlowsResolved, ZenonT(30)
<1>7. Stacked(d, v, q, T)
  BY <1>6, StackedSame
<1>8. Flows(d, s, v, T, Open(q)) /\ Len(T) = Len(d) + 1
  BY <1>2, <1>6 DEF Y
<1>9. Body(d, s, v, q, T)
  BY <1>7, <1>8, BodyOf
<1> QED BY <1>9 DEF d

-----------------------------------------------------------------------------
(* IF, ELSE and THEN; BEGIN.                                               *)

(* Every structure that opens with a forward branch. *)
LEMMA IfFits ==
    ASSUME NEW c, NEW s, NEW v, NEW p, NEW T, Body(c, s, v, p, T), NEW w, NEW t, OpensWith(w, t), NEW n \in Int
    PROVE  Fits(Emit(MarkBranch(Emit(Def(c, p, v), Instr(w)), t), Operand(n)), s)
<1>1. /\ Flows(c, s, v, T, Open(p)) /\ Len(T) = Len(c) + 1 /\ Stacked(c, v, p, T)
      /\ c \in Cells /\ Len(c) \in Nat /\ v.count \in Nat /\ Roomy(c, v, T[Len(T)]) /\ p \in Cells
  BY BodyParts
<1> DEFINE d == Jump(c, w, n)
           q == Marks(p, Len(c) + 2, t)
           X == Open(p)
           Y == With(X, Len(c) + 2)
<1>2. PICK U : Flows(d, s, v, U, Y) /\ Len(U) = Len(d) + 1 /\ Stacked(d, v, q, U)
  <2>1. Flows(c, s, v, T, X)
    BY <1>1
  <2> HIDE DEF X
  <2> QED BY <1>1, <2>1, OpensJump
<1>3. Open(q) = Open(p) \cup {Len(c) + 2}
  <2>1. t \in Tags \cup {"do"} /\ Len(c) + 2 \in Int
    BY <1>1 DEF OpensWith, Tags
  <2> QED BY <1>1, <2>1, MarksFacts
<1>4. Emit(MarkBranch(Emit(Def(c, p, v), Instr(w)), t), Operand(n)) = Def(d, q, v)
  <2>1. w \in Names
    BY DEF OpensWith, Names
  <2> QED BY <1>1, <2>1, DefJump
<1> HIDE DEF d, q
<1>5. Body(d, s, v, q, U)
  <2>1. Flows(d, s, v, U, Open(q))
    BY <1>2, <1>3 DEF With
  <2> QED BY <1>2, <2>1, BodyOf
<1> QED BY <1>4, <1>5, FitsDef

\* THEN.
LEMMA EndifFits ==
    ASSUME NEW c, NEW s, NEW v, NEW p, NEW T, Body(c, s, v, p, T)
    PROVE  Fits(Endif(Def(c, p, v)), s)
<1>1. CASE ~(p # << >> /\ Last(p) = Tag("origin"))
  <2>1. ~Ok(MatchControlTag(Def(c, p, v), "origin"))
    BY <1>1, Matched
  <2> QED BY <2>1 DEF Fits, Endif, ResolveForwardBranch
<1>2. CASE p # << >> /\ Last(p) = Tag("origin")
  <2>1. /\ Flows(c, s, v, T, Open(p)) /\ Len(T) = Len(c) + 1 /\ Stacked(c, v, p, T)
        /\ Extends(c, T, c, T) /\ v.count \in Nat
    BY BodyParts
  <2>2. "origin" \in Tags
    BY DEF Tags
  <2>3. PICK q \in Cells, x \in Int :
           p = Marks(q, x, "origin") /\ Suits(c, T, "origin", x, T[Len(T)]) /\ Stacked(c, v, q, T)
    BY <1>2, <2>1, <2>2, StackedTop
  <2>4. /\ Open(p) = Open(q) \cup {x} /\ Front(p) = Append(q, Address(x))
        /\ Last(Append(q, Address(x))) = Address(x) /\ Front(Append(q, Address(x))) = q
    BY <2>2, <2>3, MarksFacts
  <2>5. Fixup(c, T, x, {"branchCheck", "branch0Check"}, T[Len(T)])
    BY <2>3 DEF Suits
  <2>6. Body(DefPatchHere(c, x), s, v, q, T)
    <3>1. {"branchCheck", "branch0Check"} \subseteq Branches
      BY DEF Branches
    <3>2. \A y \in Open(p) : y \in Open(q) \/ y = x
      BY <2>4
    <3>3. Stacked(c, v, q, T)
      BY <2>3
    <3> QED BY <2>1, <2>5, <3>1, <3>2, <3>3, ResolvesHere
  <2>7. Endif(Def(c, p, v)) = Def(DefPatchHere(c, x), q, v)
    <3> DEFINE r == Append(q, Address(x))
    <3>0. Front(p) = r
      BY <2>4
    <3>4. MatchControlTag(Def(c, p, v), "origin") = Def(c, Front(p), v)
      BY <1>2, Matched
    <3>1. MatchControlTag(Def(c, p, v), "origin") = Def(c, r, v) /\ Ok(Def(c, r, v))
      BY <3>0, <3>4, DefFields
    <3>2. TopAddress(Def(c, r, v)) = x /\ Pop(Def(c, r, v)) = Def(c, q, v)
      BY <2>4, DefReads, DefPop DEF Address
    <3> HIDE DEF r
    <3> QED BY <3>1, <3>2, PatchHereIs DEF Endif, ResolveForwardBranch
  <2> QED BY <2>6, <2>7, FitsDef
<1> QED BY <1>1, <1>2

\* ELSE: one forward branch ends after another one has begun.
LEMMA ElseFits ==
    ASSUME NEW c, NEW s, NEW v, NEW p, NEW T, Body(c, s, v, p, T)
    PROVE  Fits(Else(Def(c, p, v)), s)
<1> DEFINE b == Append(c, Instr("branchCheck"))
           d == Jump(c, "branchCheck", 1)
           y == Len(c) + 2
<1>0. Emit(Def(c, p, v), Instr("branchCheck")) = Def(b, p, v)
  BY DefEmit
<1> HIDE DEF b
<1>1. CASE ~(p # << >> /\ Last(p) = Tag("origin"))
  <2>1. ~Ok(MatchControlTag(Def(b, p, v), "origin"))
    BY <1>1, Matched
  <2> QED BY <1>0, <2>1 DEF Fits, Else
<1>2. CASE p # << >> /\ Last(p) = Tag("origin")
  <2>1. /\ Flows(c, s, v, T, Open(p)) /\ Len(T) = Len(c) + 1 /\ Stacked(c, v, p, T) /\ Roomy(c, v, T[Len(T)])
        /\ Extends(c, T, c, T) /\ v.count \in Nat /\ c \in Cells /\ Len(c) \in Nat
    BY BodyParts
  <2>2. "origin" \in Tags /\ OpensWith("branchCheck", "origin") /\ y \in Int
    BY <2>1 DEF Tags, OpensWith
  <2>3. PICK q \in Cells, x \in Int :
           p = Marks(q, x, "origin") /\ Suits(c, T, "origin", x, T[Len(T)]) /\ Stacked(c, v, q, T)
    BY <1>2, <2>1, <2>2, StackedTop
  <2>4. /\ Open(p) = Open(q) \cup {x} /\ Front(p) = Append(q, Address(x))
        /\ Last(Append(q, Address(x))) = Address(x) /\ Front(Append(q, Address(x))) = q
    BY <2>2, <2>3, MarksFacts
  <2> DEFINE r == Marks(q, y, "origin")
  <2>5. Open(r) = Open(q) \cup {y}
    BY <2>2, <2>3, MarksFacts
  <2> DEFINE X == Open(p)
             Y == With(X, Len(c) + 2)
  <2>10. \A z \in Y : z \in Open(r) \/ z = x
    BY <2>4, <2>5 DEF With
  <2>6. PICK U : /\ Flows(d, s, v, U, Y) /\ Len(U) = Len(d) + 1 /\ Extends(c, T, d, U)
                 /\ U[Len(U)] = T[Len(T)] /\ Stacked(d, v, r, U)
    <3>1. Stacked(c, v, q, T) /\ 1 \in Int /\ Flows(c, s, v, T, X)
      BY <2>1, <2>3
    <3> HIDE DEF X
    <3> QED BY <2>1, <2>2, <3>1, OpensJump
  <2>9. Else(Def(c, p, v)) = Def(DefPatchHere(d, x), r, v)
    <3> DEFINE u == Append(q, Address(x))
    <3>0. Front(p) = u
      BY <2>4
    <3>5. MatchControlTag(Def(b, p, v), "origin") = Def(b, Front(p), v)
      BY <1>2, Matched
    <3>1. MatchControlTag(Def(b, p, v), "origin") = Def(b, u, v) /\ Ok(Def(b, u, v))
      BY <3>0, <3>5, DefFields
    <3>2. TopAddress(Def(b, u, v)) = x /\ Pop(Def(b, u, v)) = Def(b, q, v)
      BY <2>4, DefReads, DefPop DEF Address
    <3>3. Emit(MarkBranch(Def(b, q, v), "origin"), Operand(1)) = Def(d, r, v)
      <4>1. "branchCheck" \in Names
        BY DEF Names
      <4>2. Emit(MarkBranch(Emit(Def(c, q, v), Instr("branchCheck")), "origin"), Operand(1)) = Def(d, r, v)
        BY <2>1, <4>1, DefJump
      <4>3. Emit(Def(c, q, v), Instr("branchCheck")) = Def(b, q, v)
        BY DefEmit DEF b
      <4> QED BY <4>2, <4>3
    <3> HIDE DEF u, d, r
    <3>4. Else(Def(c, p, v)) = PatchHere(Def(d, r, v), x)
      BY <1>0, <3>1, <3>2, <3>3 DEF Else
    <3> QED BY <3>4, PatchHereIs
  <2> HIDE DEF d, r, y, X, Y
  <2>7. Fixup(d, U, x, {"branchCheck", "branch0Check"}, U[Len(U)])
    <3>1. Fixup(c, T, x, {"branchCheck", "branch0Check"}, U[Len(U)])
      BY <2>3, <2>6 DEF Suits
    <3> QED BY <2>6, <3>1, FixupKept
  <2>8. Body(DefPatchHere(d, x), s, v, r, U)
    <3>1. {"branchCheck", "branch0Check"} \subseteq Branches
      BY DEF Branches
    <3> QED BY <2>1, <2>6, <2>7, <2>10, <3>1, ResolvesHere
  <2> QED BY <2>8, <2>9, FitsDef
<1> QED BY <1>1, <1>2

\* BEGIN.
LEMMA BeginFits ==
    ASSUME NEW c, NEW s, NEW v, NEW p, NEW T, Body(c, s, v, p, T)
    PROVE  Fits(Begin(Def(c, p, v)), s)
<1>1. /\ Flows(c, s, v, T, Open(p)) /\ Len(T) = Len(c) + 1 /\ Stacked(c, v, p, T)
      /\ Extends(c, T, c, T) /\ c \in Cells /\ Len(c) \in Nat /\ p \in Cells
  BY BodyParts
<1> DEFINE x == Len(c) + 1
           q == Marks(p, x, "target")
<1>2. "target" \in Tags /\ x \in Int
  BY <1>1 DEF Tags
<1>3. Suits(c, T, "target", x, T[Len(T)])
  <2>1. At(c, T, x, T[Len(T)])
    BY <1>1 DEF At, IsPlace
  <2> QED BY <2>1 DEF Suits
<1>4. Stacked(c, v, q, T)
  <2> HIDE DEF x
  <2> QED BY <1>1, <1>2, <1>3, StackedMarked
<1>5. Begin(Def(c, p, v)) = Def(c, q, v)
  BY DefMarkBranch DEF Begin
<1>6. Open(q) = Open(p) \cup {x}
  BY <1>1, <1>2, MarksFacts
<1> HIDE DEF q
<1> DEFINE X == Open(p)
           Y == Open(q)
<1>7. \A z \in X : z \in Y
  BY <1>6
<1>8. Flows(c, s, v, T, Y)
  <2>1. Flows(c, s, v, T, X)
    BY <1>1
  <2> HIDE DEF X, Y
  <2> QED BY <1>7, <2>1, FlowsClosed
<1>9. Body(c, s, v, q, T)
  BY <1>1, <1>4, <1>8, BodyOf
<1> QED BY <1>5, <1>9, FitsDef

-----------------------------------------------------------------------------
(* UNTIL, AGAIN, REPEAT, WHILE.                                            *)

(* Branches back to a place that is known. *)
LEMMA FlowsBack ==
    ASSUME NEW c, NEW s, NEW v, NEW T, NEW X, Flows(c, s, v, T, X), Len(T) = Len(c) + 1, v.count \in Nat,
           NEW l, T[Len(T)] = l, Roomy(c, v, l), NEW m \in Layouts,
           NEW w \in Branches \cup Loopings, Passes(w, l, m), NEW x \in Int, At(c, T, x, l)
    PROVE  LET d == Jump(c, w, x - (Len(c) + 2)) IN
           \E U : Flows(d, s, v, U, X) /\ Extends(c, T, d, U) /\ Len(U) = Len(d) + 1 /\ U[Len(U)] = m
<1>1. Len(c) \in Nat
  BY FlowsFacts
<1> DEFINE n == x - (Len(c) + 2)
           d == Jump(c, w, n)
           y == Len(c) + 2
           Y == With(X, y)
<1>2. n \in Int /\ y \in Int /\ y - 1 = Len(c) + 1 /\ (y - 1) + 1 = y /\ y + n = x
  BY <1>1
<1> HIDE DEF n
<1>3. PICK U : /\ Flows(d, s, v, U, Y) /\ Extends(c, T, d, U) /\ Len(U) = Len(d) + 1 /\ U[Len(U)] = m
               /\ U[Len(c) + 1] = l /\ Opened(d, U, y, w, l)
  BY <1>2, FlowsJump
<1>4. d[y][2] = n
  <2>1. w \in Names
    BY DEF Names, Branches, Loopings
  <2>2. c \in Cells
    BY FlowsFacts
  <2>3. d[y] = Operand(n)
    BY <1>2, <2>1, <2>2, JumpCells
  <2> HIDE DEF d, y
  <2> QED BY <2>3 DEF Operand
<1> HIDE DEF d, Y
<1>5. Jumped(d, U, y - 1)
  <2>1. At(d, U, x, l)
    BY <1>3, AtKept
  <2>2. BranchTarget(d, y - 1) = x
    <3> HIDE DEF y
    <3> QED BY <1>2, <1>4 DEF BranchTarget
  <2>3. d[y - 1][1] = w /\ U[y - 1] = l /\ w \notin Dos
    BY <1>3 DEF Opened, Branches, Loopings, Dos
  <2> QED BY <2>1, <2>2, <2>3 DEF Jumped
<1>6. \A z \in Y : z \in X \/ z = y
  BY DEF Y, With
<1>7. Flows(d, s, v, U, X)
  <2> HIDE DEF y
  <2> QED BY <1>3, <1>5, <1>6, FlowsClosed
<1> QED BY <1>3, <1>7 DEF d, n

\* A branch back to the marked address.
LEMMA BackIs ==
    ASSUME NEW c \in Cells, NEW v, NEW w \in Names, NEW t \in Tags \cup {"do"},
           NEW q \in Cells, NEW x \in Int, NEW p, p = Marks(q, x, t)
    PROVE  ResolveBackBranch(Emit(Def(c, p, v), Instr(w)), t) = Def(Jump(c, w, x - (Len(c) + 2)), q, v)
<1> DEFINE b == Append(c, Instr(w))
           r == Append(q, Address(x))
           n == x - (Len(c) + 2)
<1>1. Emit(Def(c, p, v), Instr(w)) = Def(b, p, v)
  BY DefEmit
<1>2. Len(b) + 1 = Len(c) + 2
  <2>1. Len(b) = Len(c) + 1 /\ Len(c) \in Nat
    BY Appended DEF Cells
  <2> HIDE DEF b
  <2> QED BY <2>1
<1>3. Jump(c, w, n) = Append(b, Operand(n))
  BY DEF Jump
<1> HIDE DEF b
<1>4. p # << >> /\ Last(p) = Tag(t) /\ Front(p) = r /\ Last(r) = Address(x) /\ Front(r) = q
  BY MarksFacts
<1> HIDE DEF r
<1>5. MatchControlTag(Def(b, p, v), t) = Def(b, Front(p), v)
  BY <1>4, Matched
<1>6. MatchControlTag(Def(b, p, v), t) = Def(b, r, v) /\ Ok(Def(b, r, v))
  BY <1>4, <1>5, DefFields
<1>7. TopAddress(Def(b, r, v)) = x /\ Pop(Def(b, r, v)) = Def(b, q, v) /\ HereOf(Def(b, r, v)) = Len(c) + 2
  BY <1>2, <1>4, DefReads, DefPop DEF Address
<1>8. ResolveBackBranch(Def(b, p, v), t) = Emit(Def(b, q, v), Operand(n))
  BY <1>6, <1>7 DEF ResolveBackBranch
<1> HIDE DEF n
<1>9. Emit(Def(b, q, v), Operand(n)) = Def(Jump(c, w, n), q, v)
  BY <1>3, DefEmit
<1> QED BY <1>1, <1>8, <1>9 DEF n

\* A branch back with another mark on top throws.
LEMMA BackFails ==
    ASSUME NEW c, NEW v, NEW w, NEW t, NEW p, ~(p # << >> /\ Last(p) = Tag(t))
    PROVE  ResolveBackBranch(Emit(Def(c, p, v), Instr(w)), t) = Fail(Def(Append(c, Instr(w)), p, v))
<1> DEFINE b == Append(c, Instr(w))
<1>1. Emit(Def(c, p, v), Instr(w)) = Def(b, p, v)
  BY DefEmit
<1> HIDE DEF b
<1>2. MatchControlTag(Def(b, p, v), t) = Fail(Def(b, p, v)) /\ ~Ok(MatchControlTag(Def(b, p, v), t))
  BY Matched
<1>3. ResolveBackBranch(Def(b, p, v), t) = Fail(Def(b, p, v))
  BY <1>2 DEF ResolveBackBranch
<1> QED BY <1>1, <1>3 DEF b

\* What threw stays so.
LEMMA FailedTwice ==
    ASSUME NEW c, NEW p, NEW v
    PROVE  ~Ok(Fail(Def(c, p, v))) /\ ~Ok(Fail(Fail(Def(c, p, v))))
BY DEF Ok, Fail, Def

\* A branch back leaves the code after it with the layout of the place it goes to.
LEMMA BackFits ==
    ASSUME NEW c, NEW s, NEW v, NEW p, NEW T, Body(c, s, v, p, T), NEW w \in {"branchCheck", "branch0Check"}
    PROVE  Fits(ResolveBackBranch(Emit(Def(c, p, v), Instr(w)), "target"), s)
<1>1. /\ Flows(c, s, v, T, Open(p)) /\ Len(T) = Len(c) + 1 /\ Stacked(c, v, p, T) /\ Roomy(c, v, T[Len(T)])
      /\ Extends(c, T, c, T) /\ v.count \in Nat /\ c \in Cells /\ Len(c) \in Nat /\ T[Len(T)] \in Layouts
  BY BodyParts
<1>2. w \in Names /\ w \in Branches \cup Loopings /\ "target" \in Tags
  BY DEF Names, Branches, Tags
<1>3. CASE ~(p # << >> /\ Last(p) = Tag("target"))
  <2>1. ResolveBackBranch(Emit(Def(c, p, v), Instr(w)), "target") = Fail(Def(Append(c, Instr(w)), p, v))
    BY <1>3, BackFails
  <2> QED BY <2>1, DefFail DEF Fits
<1>4. CASE p # << >> /\ Last(p) = Tag("target")
  <2>1. PICK q \in Cells, x \in Int :
           p = Marks(q, x, "target") /\ Suits(c, T, "target", x, T[Len(T)]) /\ Stacked(c, v, q, T)
    BY <1>1, <1>2, <1>4, StackedTop
  <2>2. At(c, T, x, T[Len(T)])
    BY <2>1 DEF Suits
  <2> DEFINE X == Open(p)
             Y == Open(q)
             d == Jump(c, w, x - (Len(c) + 2))
             l == T[Len(T)]
  <2>3. \A z \in X : z \in Y \/ z = x
    BY <1>2, <2>1, MarksFacts
  <2>4. Flows(c, s, v, T, Y)
    <3>1. x - 1 \in 1..Len(c) /\ IsPlace(c, x - 1) => Jumped(c, T, x - 1)
      BY <1>1, <2>2, TargetClosed
    <3>2. Flows(c, s, v, T, X)
      BY <1>1
    <3> HIDE DEF X, Y
    <3> QED BY <2>3, <3>1, <3>2, FlowsClosed
  <2> HIDE DEF X, Y
  <2>5. PICK U : Flows(d, s, v, U, Y) /\ Extends(c, T, d, U) /\ Len(U) = Len(d) + 1 /\ U[Len(U)] = l
    <3>1. Passes(w, l, l)
      BY DEF Passes, Branches
    <3>2. T[Len(T)] = l /\ At(c, T, x, l) /\ Roomy(c, v, l) /\ l \in Layouts
      BY <1>1, <2>2
    <3> HIDE DEF l
    <3> QED BY <1>1, <1>2, <2>4, <3>1, <3>2, FlowsBack
  <2>6. ResolveBackBranch(Emit(Def(c, p, v), Instr(w)), "target") = Def(d, q, v)
    BY <1>1, <1>2, <2>1, BackIs
  <2> HIDE DEF d
  <2>7. Stacked(d, v, q, U)
    BY <2>1, <2>5, StackedSame
  <2>8. Body(d, s, v, q, U)
    BY <2>5, <2>7, BodyOf DEF Y
  <2> QED BY <2>6, <2>8, FitsDef
<1> QED BY <1>3, <1>4

\* UNTIL and AGAIN.
LEMMA UntilFits ==
    ASSUME NEW c, NEW s, NEW v, NEW p, NEW T, Body(c, s, v, p, T)
    PROVE  Fits(Until(Def(c, p, v)), s) /\ Fits(Again(Def(c, p, v)), s)
BY BackFits DEF Until, Again

\* REPEAT: back to BEGIN, and the branch of WHILE ends here.
LEMMA RepeatFits ==
    ASSUME NEW c, NEW s, NEW v, NEW p, NEW T, Body(c, s, v, p, T)
    PROVE  Fits(Repeat(Def(c, p, v)), s)
<1> DEFINE d == Again(Def(c, p, v))
<1>1. CASE Ok(d)
  <2>1. Fits(d, s)
    BY UntilFits
  <2>2. PICK e, q, w, U : d = Def(e, q, w) /\ Body(e, s, w, q, U)
    BY <1>1, <2>1 DEF Fits
  <2>3. Fits(Endif(Def(e, q, w)), s)
    BY <2>2, EndifFits
  <2> HIDE DEF d
  <2>4. Repeat(Def(c, p, v)) = Endif(d)
    BY DEF Repeat, Endif, d
  <2> QED BY <2>2, <2>3, <2>4
<1>2. CASE ~Ok(d)
  <2>1. c \in Cells /\ "branchCheck" \in Names /\ "target" \in Tags \cup {"do"}
    BY BodyFacts DEF Names, Tags
  <2>2. ~(p # << >> /\ Last(p) = Tag("target"))
    <3> SUFFICES ASSUME p # << >>, Last(p) = Tag("target") PROVE FALSE
      OBVIOUS
    <3>1. Stacked(c, v, p, T) /\ Extends(c, T, c, T)
      BY BodyParts
    <3>2. "target" \in Tags
      BY DEF Tags
    <3>3. PICK q \in Cells, x \in Int : p = Marks(q, x, "target")
      BY <3>1, <3>2, StackedTop
    <3>4. d = Def(Jump(c, "branchCheck", x - (Len(c) + 2)), q, v)
      BY <2>1, <3>3, BackIs DEF Again
    <3> QED BY <1>2, <3>4, DefFields
  <2>3. d = Fail(Def(Append(c, Instr("branchCheck")), p, v))
    BY <2>2, BackFails DEF Again
  <2>4. Repeat(Def(c, p, v)) = Fail(d)
    <3>1. MatchControlTag(d, "origin") = Fail(d)
      BY <1>2 DEF MatchControlTag
    <3>2. ~Ok(Fail(d))
      BY <2>3, FailedTwice
    <3> HIDE DEF d
    <3> QED BY <3>1, <3>2 DEF Repeat, ResolveForwardBranch, d
  <2> QED BY <2>3, <2>4, FailedTwice DEF Fits
<1> QED BY <1>1, <1>2

\* The data stack of a definition replaced.
LEMMA DefControl ==
    ASSUME NEW c, NEW p, NEW v, NEW q
    PROVE  [Def(c, p, v) EXCEPT !.control = q] = Def(c, q, v)
BY DEF Def

\* Two sequences joined.
Concat(A, B) == A \o B

\* Two sequences joined.
LEMMA ConcatIs ==
    ASSUME NEW S, NEW A \in Seq(S), NEW B \in Seq(S)
    PROVE  /\ Concat(A, B) \in Seq(S) /\ Len(Concat(A, B)) = Len(A) + Len(B)
           /\ \A i \in 1..Len(A) + Len(B) : Concat(A, B)[i] = IF i <= Len(A) THEN A[i] ELSE B[i - Len(A)]
BY ConcatProperties DEF Concat

(* WHILE leaves its own mark beneath that of BEGIN. *)
LEMMA WhileStack ==
    ASSUME NEW q \in Cells, NEW x \in Int, NEW y \in Int, NEW p, p = Marks(q, x, "target"),
           NEW r, r = Marks(p, y, "origin")
    PROVE  LET n == Len(p) IN
           /\ n \in Nat /\ 2 <= n
           /\ SubSeq(r, 1, n - 2) \o SubSeq(r, n + 1, n + 2) \o SubSeq(r, n - 1, n)
                = Marks(Marks(q, y, "origin"), x, "target")
<1>1. "target" \in Tags \cup {"do"} /\ "origin" \in Tags \cup {"do"}
  BY DEF Tags
<1>2. /\ p \in Cells /\ Len(q) \in Nat /\ Len(p) = Len(q) + 2 /\ (\A i \in 1..Len(q) : p[i] = q[i])
      /\ p[Len(q) + 1] = Address(x) /\ p[Len(q) + 2] = Tag("target")
  BY <1>1, MarksFacts
<1>3. /\ r \in Cells /\ Len(r) = Len(p) + 2 /\ (\A i \in 1..Len(p) : r[i] = p[i])
      /\ r[Len(p) + 1] = Address(y) /\ r[Len(p) + 2] = Tag("origin")
  BY <1>1, <1>2, MarksFacts
<1> DEFINE m == Marks(q, y, "origin")
           z == Marks(m, x, "target")
<1>4. /\ m \in Cells /\ Len(m) = Len(q) + 2 /\ (\A i \in 1..Len(q) : m[i] = q[i])
      /\ m[Len(q) + 1] = Address(y) /\ m[Len(q) + 2] = Tag("origin")
  BY <1>1, MarksFacts
<1> HIDE DEF m
<1>5. /\ z \in Cells /\ Len(z) = Len(m) + 2 /\ (\A i \in 1..Len(m) : z[i] = m[i])
      /\ z[Len(m) + 1] = Address(x) /\ z[Len(m) + 2] = Tag("target")
  BY <1>1, <1>4, MarksFacts
<1> HIDE DEF z
<1> DEFINE k == Len(q)
           A == SubSeq(r, 1, k)
           B == SubSeq(r, k + 3, k + 4)
           C == SubSeq(r, k + 1, k + 2)
           AB == Concat(A, B)
           ABC == Concat(AB, C)
           S == Names \X Int
<1>6. r \in Seq(S) /\ z \in Seq(S) /\ Len(r) = k + 4 /\ Len(z) = k + 4 /\ k \in Nat
  BY <1>2, <1>3, <1>4, <1>5 DEF Cells
<1>7. \A i \in 1..k : r[i] = q[i] /\ z[i] = q[i]
  <2>1. \A i \in 1..k : i \in 1..Len(p) /\ i \in 1..Len(m)
    BY <1>2, <1>4
  <2> QED BY <2>1, <1>2, <1>3, <1>4, <1>5
<1>8. r[k + 1] = Address(x) /\ r[k + 2] = Tag("target") /\ r[k + 3] = Address(y) /\ r[k + 4] = Tag("origin")
  <2>1. k + 1 \in 1..Len(p) /\ k + 2 \in 1..Len(p) /\ Len(p) + 1 = k + 3 /\ Len(p) + 2 = k + 4
    BY <1>2
  <2> HIDE DEF k
  <2>2. p[k + 1] = Address(x) /\ p[k + 2] = Tag("target")
    BY <1>2 DEF k
  <2> QED BY <2>1, <2>2, <1>3
<1>9. z[k + 1] = Address(y) /\ z[k + 2] = Tag("origin") /\ z[k + 3] = Address(x) /\ z[k + 4] = Tag("target")
  <2>1. k + 1 \in 1..Len(m) /\ k + 2 \in 1..Len(m) /\ Len(m) + 1 = k + 3 /\ Len(m) + 2 = k + 4
    BY <1>2, <1>4
  <2> HIDE DEF k
  <2>2. m[k + 1] = Address(y) /\ m[k + 2] = Tag("origin")
    BY <1>4 DEF k
  <2> QED BY <2>1, <2>2, <1>5
<1> HIDE DEF k, S
<1>10. A \in Seq(S) /\ Len(A) = k /\ \A i \in 1..k : A[i] = r[i]
  BY <1>6, SubSeqProperties
<1>11. B \in Seq(S) /\ Len(B) = 2 /\ B[1] = r[k + 3] /\ B[2] = r[k + 4]
  <2>1. k + 3 \in 1..Len(r) + 1 /\ k + 4 \in 0..Len(r)
    BY <1>6
  <2>2. B \in Seq(S) /\ Len(B) = 2 /\ \A i \in 1..2 : B[i] = r[k + 3 + i - 1]
    BY <1>6, <2>1, SubSeqProperties
  <2>3. k + 3 + 1 - 1 = k + 3 /\ k + 3 + 2 - 1 = k + 4 /\ 1 \in 1..2 /\ 2 \in 1..2
    BY <1>6
  <2> HIDE DEF B
  <2> QED BY <2>2, <2>3
<1>12. C \in Seq(S) /\ Len(C) = 2 /\ C[1] = r[k + 1] /\ C[2] = r[k + 2]
  <2>1. k + 1 \in 1..Len(r) + 1 /\ k + 2 \in 0..Len(r)
    BY <1>6
  <2>2. C \in Seq(S) /\ Len(C) = 2 /\ \A i \in 1..2 : C[i] = r[k + 1 + i - 1]
    BY <1>6, <2>1, SubSeqProperties
  <2>3. k + 1 + 1 - 1 = k + 1 /\ k + 1 + 2 - 1 = k + 2 /\ 1 \in 1..2 /\ 2 \in 1..2
    BY <1>6
  <2> HIDE DEF C
  <2> QED BY <2>2, <2>3
<1> HIDE DEF A, B, C
<1>13. AB \in Seq(S) /\ Len(AB) = k + 2 /\ \A i \in 1..k + 2 : AB[i] = IF i <= k THEN A[i] ELSE B[i - k]
  <2>1. /\ AB \in Seq(S) /\ Len(AB) = Len(A) + Len(B)
        /\ \A i \in 1..Len(A) + Len(B) : AB[i] = IF i <= Len(A) THEN A[i] ELSE B[i - Len(A)]
    <3>1. A \in Seq(S) /\ B \in Seq(S)
      BY <1>10, <1>11
    <3> HIDE DEF ABC
    <3> QED BY <3>1, ConcatIs
  <2> HIDE DEF AB
  <2> QED BY <2>1, <1>10, <1>11
<1> HIDE DEF AB
<1>14. ABC \in Seq(S) /\ Len(ABC) = k + 4 /\ \A i \in 1..k + 4 : ABC[i] = IF i <= k + 2 THEN AB[i] ELSE C[i - (k + 2)]
  <2>1. /\ ABC \in Seq(S) /\ Len(ABC) = Len(AB) + Len(C)
        /\ \A i \in 1..Len(AB) + Len(C) : ABC[i] = IF i <= Len(AB) THEN AB[i] ELSE C[i - Len(AB)]
    BY <1>12, <1>13, ConcatIs
  <2>2. (k + 2) + 2 = k + 4
    BY <1>6
  <2> HIDE DEF ABC
  <2> QED BY <2>1, <2>2, <1>12, <1>13
<1> HIDE DEF ABC
<1>15. ASSUME NEW i \in 1..k + 4 PROVE ABC[i] = z[i]
  <2>1. CASE i \in 1..k
    BY <2>1, <1>6, <1>7, <1>10, <1>13, <1>14
  <2>2. CASE i = k + 1
    <3>1. i - k = 1 /\ ~(i <= k) /\ i <= k + 2 /\ i \in 1..k + 2
      BY <2>2, <1>6
    <3> QED BY <3>1, <2>2, <1>8, <1>9, <1>11, <1>13, <1>14
  <2>3. CASE i = k + 2
    <3>1. i - k = 2 /\ ~(i <= k) /\ i <= k + 2 /\ i \in 1..k + 2
      BY <2>3, <1>6
    <3> QED BY <3>1, <2>3, <1>8, <1>9, <1>11, <1>13, <1>14
  <2>4. CASE i = k + 3
    <3>1. i - (k + 2) = 1 /\ ~(i <= k + 2)
      BY <2>4, <1>6
    <3> QED BY <3>1, <2>4, <1>8, <1>9, <1>12, <1>14
  <2>5. CASE i = k + 4
    <3>1. i - (k + 2) = 2 /\ ~(i <= k + 2)
      BY <2>5, <1>6
    <3> QED BY <3>1, <2>5, <1>8, <1>9, <1>12, <1>14
  <2> QED BY <2>1, <2>2, <2>3, <2>4, <2>5, <1>6
<1>16. ABC = z
  BY <1>6, <1>14, <1>15, SeqEqual
<1>17. Len(p) \in Nat /\ 2 <= Len(p) /\ Len(p) - 2 = k /\ Len(p) + 1 = k + 3 /\ Len(p) + 2 = k + 4 /\ Len(p) - 1 = k + 1
       /\ Len(p) = k + 2
  BY <1>2 DEF k
<1> QED BY <1>16, <1>17 DEF Concat, ABC, AB, A, B, C, z, m

\* WHILE: its mark goes beneath the one of BEGIN, which the rules of use put on top.
LEMMA WhileFits ==
    ASSUME NEW c, NEW s, NEW v, NEW p, NEW T, Body(c, s, v, p, T), Last(p) = Tag("target")
    PROVE  Fits(While(Def(c, p, v)), s)
<1> DEFINE D == Def(c, p, v)
           b == Append(c, Instr("branch0Check"))
           d == Jump(c, "branch0Check", 1)
           y == Len(c) + 2
           r == Marks(p, y, "origin")
           n == Len(p)
<1>0. D.control = p
  BY DefFields
<1>1. /\ Flows(c, s, v, T, Open(p)) /\ Len(T) = Len(c) + 1 /\ Stacked(c, v, p, T) /\ Roomy(c, v, T[Len(T)])
      /\ Extends(c, T, c, T) /\ v.count \in Nat /\ c \in Cells /\ Len(c) \in Nat /\ p \in Cells
  BY BodyParts
<1>2. "target" \in Tags /\ "origin" \in Tags /\ OpensWith("branch0Check", "origin") /\ y \in Int /\ "branch0Check" \in Names
  BY <1>1 DEF Tags, OpensWith, Names
<1>3. CASE p = << >>
  <2>1. Len(D.control) = 0
    BY <1>3, <1>0
  <2>2. While(D) = Fail(D)
    BY <2>1 DEF While
  <2> QED BY <2>2, DefFail DEF Fits
<1>4. CASE p # << >>
  <2>1. PICK q \in Cells, x \in Int :
           p = Marks(q, x, "target") /\ Suits(c, T, "target", x, T[Len(T)]) /\ Stacked(c, v, q, T)
    BY <1>1, <1>2, <1>4, StackedTop
  <2> DEFINE m == Marks(q, y, "origin")
             z == Marks(m, x, "target")
             X == Open(p)
             Y == With(X, Len(c) + 2)
             Z == Open(z)
  <2>2. n \in Nat /\ 2 <= n /\ SubSeq(r, 1, n - 2) \o SubSeq(r, n + 1, n + 2) \o SubSeq(r, n - 1, n) = z
    <3>1. y \in Int
      BY <1>2
    <3> HIDE DEF y
    <3> QED BY <2>1, <3>1, WhileStack
  <2>3. While(D) = Def(d, z, v)
    <3>1. Emit(D, Instr("branch0Check")) = Def(b, p, v)
      BY DefEmit
    <3>2. Len(b) + 1 = y
      <4>1. Len(b) = Len(c) + 1
        BY <1>1, <1>2, Appended
      <4> HIDE DEF b
      <4> QED BY <4>1, <1>1
    <3>3. d = Append(b, Operand(1))
      BY DEF Jump
    <3> HIDE DEF b, y, d, z
    <3>4. MarkBranch(Def(b, p, v), "origin") = Def(b, r, v)
      BY <3>2, DefMarkBranch
    <3> DEFINE e == SubSeq(r, 1, n - 2) \o SubSeq(r, n + 1, n + 2) \o SubSeq(r, n - 1, n)
    <3>5. [Def(b, r, v) EXCEPT !.control = SubSeq(@, 1, n - 2) \o SubSeq(@, n + 1, n + 2) \o SubSeq(@, n - 1, n)]
             = Def(b, e, v)
      <4> HIDE DEF r, n
      <4>1. Def(b, r, v).control = r
        BY DefFields
      <4>2. [Def(b, r, v) EXCEPT !.control = SubSeq(@, 1, n - 2) \o SubSeq(@, n + 1, n + 2) \o SubSeq(@, n - 1, n)]
               = [Def(b, r, v) EXCEPT !.control = e]
        BY <4>1
      <4> HIDE DEF e
      <4> QED BY <4>2, DefControl
    <3>6. e = z
      BY <2>2
    <3> HIDE DEF e
    <3>7. Emit(Def(b, z, v), Operand(1)) = Def(d, z, v)
      BY <3>3, DefEmit
    <3>8. ~(Len(D.control) < 2)
      BY <2>2, <1>0
    <3>9. While(D) = Emit([Def(b, r, v) EXCEPT !.control = SubSeq(@, 1, n - 2) \o SubSeq(@, n + 1, n + 2)
                                               \o SubSeq(@, n - 1, n)], Operand(1))
      <4> HIDE DEF r
      <4> QED BY <1>0, <3>1, <3>4, <3>8 DEF While
    <3> QED BY <3>5, <3>6, <3>7, <3>9
  <2>4. PICK U : /\ Flows(d, s, v, U, Y) /\ Len(U) = Len(d) + 1 /\ Extends(c, T, d, U)
                 /\ U[Len(U)] = T[Len(T)] /\ Stacked(d, v, m, U)
    <3>1. Stacked(c, v, q, T) /\ 1 \in Int /\ Flows(c, s, v, T, X)
      BY <1>1, <2>1
    <3> HIDE DEF X
    <3> QED BY <1>1, <1>2, <3>1, OpensJump
  <2>5. \A i \in Y : i \in Z
    <3>1. Open(p) = Open(q) \cup {x} /\ m \in Cells /\ Open(m) = Open(q) \cup {y}
      BY <1>2, <2>1, MarksFacts
    <3> HIDE DEF m
    <3>2. Open(z) = Open(m) \cup {x}
      BY <1>2, <3>1, MarksFacts
    <3> QED BY <3>1, <3>2 DEF With
  <2> HIDE DEF X, Y, Z, m, d
  <2>6. Flows(d, s, v, U, Z)
    BY <2>4, <2>5, FlowsClosed
  <2>7. Stacked(d, v, z, U)
    <3>1. At(d, U, x, U[Len(U)])
      <4>1. At(c, T, x, T[Len(T)])
        BY <2>1 DEF Suits
      <4> QED BY <4>1, <2>4, AtKept
    <3>2. Suits(d, U, "target", x, U[Len(U)])
      BY <3>1 DEF Suits
    <3>3. Extends(d, U, d, U)
      BY <2>4, ExtendsItself
    <3> QED BY <1>2, <2>4, <3>2, <3>3, StackedMarked
  <2> HIDE DEF z
  <2>8. Body(d, s, v, z, U)
    BY <2>4, <2>6, <2>7, BodyOf DEF Z
  <2> QED BY <2>3, <2>8, FitsDef
<1> QED BY <1>3, <1>4

(* A forward branch that opens one structure as another one ends at it. *)
LEMMA JumpThenHere ==
    ASSUME NEW c, NEW s, NEW v, NEW p, NEW T, Body(c, s, v, p, T), NEW w, NEW t, OpensWith(w, t), NEW n \in Int,
           NEW q \in Cells, NEW x \in Int, Stacked(c, v, q, T), Fixup(c, T, x, Branches, T[Len(T)]),
           \A z \in Open(p) : z \in Open(q) \/ z = x
    PROVE  \E U : Body(DefPatchHere(Jump(c, w, n), x), s, v, Marks(q, Len(c) + 2, t), U)
<1> DEFINE d == Jump(c, w, n)
           y == Len(c) + 2
           r == Marks(q, y, t)
           X == Open(p)
           Y == With(X, Len(c) + 2)
<1>1. /\ Flows(c, s, v, T, X) /\ Len(T) = Len(c) + 1 /\ Roomy(c, v, T[Len(T)]) /\ v.count \in Nat
      /\ Len(c) \in Nat
  BY BodyParts
<1>2. t \in Tags \cup {"do"} /\ y \in Int
  BY <1>1 DEF Tags, OpensWith
<1>3. \A z \in Y : z \in Open(r) \/ z = x
  <2>1. Open(r) = Open(q) \cup {y}
    <3> HIDE DEF y
    <3> QED BY <1>2, MarksFacts
  <2> QED BY <2>1 DEF With
<1>4. PICK U : /\ Flows(d, s, v, U, Y) /\ Len(U) = Len(d) + 1 /\ Extends(c, T, d, U)
               /\ U[Len(U)] = T[Len(T)] /\ Stacked(d, v, r, U)
  <2> HIDE DEF X
  <2> QED BY <1>1, OpensJump
<1> HIDE DEF X, Y, d, r, y
<1>5. Fixup(d, U, x, Branches, U[Len(U)])
  <2>1. Fixup(c, T, x, Branches, U[Len(U)])
    BY <1>4
  <2> QED BY <1>4, <2>1, FixupKept
<1>6. Branches \subseteq Branches
  OBVIOUS
<1>7. Body(DefPatchHere(d, x), s, v, r, U)
  BY <1>1, <1>3, <1>4, <1>5, <1>6, ResolvesHere
<1> QED BY <1>7 DEF d, r, y

(* A mark above the address of a branch, read off the stack. *)
LEMMA BranchTop ==
    ASSUME NEW c, NEW s, NEW v, NEW p, NEW T, Body(c, s, v, p, T), NEW t \in {"origin", "of", "fallthrough"},
           p # << >>, Last(p) = Tag(t)
    PROVE  \E q \in Cells, x \in Int :
              /\ p = Marks(q, x, t) /\ Stacked(c, v, q, T) /\ Fixup(c, T, x, Branches, T[Len(T)])
              /\ \A z \in Open(p) : z \in Open(q) \/ z = x
              /\ Front(p) = Append(q, Address(x)) /\ Front(Append(q, Address(x))) = q
              /\ Last(Append(q, Address(x))) = Address(x)
<1>1. Stacked(c, v, p, T) /\ Extends(c, T, c, T)
  BY BodyParts
<1>2. t \in Tags
  BY DEF Tags
<1>3. PICK q \in Cells, x \in Int :
         p = Marks(q, x, t) /\ Suits(c, T, t, x, T[Len(T)]) /\ Stacked(c, v, q, T)
  BY <1>1, <1>2, StackedTop
<1>4. Fixup(c, T, x, Branches, T[Len(T)])
  BY <1>3 DEF Suits, Fixup, Branches
<1>5. /\ Open(p) = Open(q) \cup {x} /\ Front(p) = Append(q, Address(x))
      /\ Last(Append(q, Address(x))) = Address(x) /\ Front(Append(q, Address(x))) = q
  BY <1>2, <1>3, MarksFacts
<1> QED BY <1>3, <1>4, <1>5

-----------------------------------------------------------------------------
(* CASE, OF, FALLTHROUGH.                                                  *)

(* The mark of CASE above the number of its fixups. *)
CaseMarks(p, k) == Append(Append(p, Count(k)), Tag("case"))

\* The k addresses on top of the data stack are operands of branches to the end of a CASE.
Fixups(c, T, p, k) ==
    /\ k \in 0..Len(p)
    /\ \A j \in Len(p) + 1 - k..Len(p) :
          p[j][1] = "address" /\ Fixup(c, T, p[j][2], {"branchCheck"}, T[Len(T)])

\* The mark of CASE and its count put on the stack.
LEMMA CaseMarksFacts ==
    ASSUME NEW p \in Cells, NEW k \in Int
    PROVE  /\ CaseMarks(p, k) \in Cells /\ Len(p) \in Nat /\ Len(CaseMarks(p, k)) = Len(p) + 2
           /\ \A i \in 1..Len(p) : CaseMarks(p, k)[i] = p[i]
           /\ CaseMarks(p, k)[Len(p) + 1] = Count(k) /\ CaseMarks(p, k)[Len(p) + 2] = Tag("case")
           /\ Open(CaseMarks(p, k)) = Open(p)
           /\ LoopsIn(CaseMarks(p, k)) = LoopsIn(p)
           /\ CaseMarks(p, k) # << >> /\ Last(CaseMarks(p, k)) = Tag("case")
           /\ Front(CaseMarks(p, k)) = Append(p, Count(k))
           /\ Append(p, Count(k)) \in Cells /\ Append(p, Count(k)) # << >>
           /\ Last(Append(p, Count(k))) = Count(k) /\ Front(Append(p, Count(k))) = p
<1>1. Count(k) \in Names \X Int /\ Tag("case") \in Names \X Int
  BY DEF Count, Tag, Names
<1>2. Count(k)[1] # "address" /\ Tag("case")[1] # "address" /\ Count(k) # Tag("do") /\ Tag("case") # Tag("do")
  BY DEF Count, Tag
<1> DEFINE r == Append(p, Count(k))
<1>3. /\ r \in Cells /\ Len(p) \in Nat /\ Len(r) = Len(p) + 1 /\ (\A i \in 1..Len(p) : r[i] = p[i])
      /\ r[Len(p) + 1] = Count(k) /\ r # << >> /\ Last(r) = Count(k) /\ Front(r) = p
  BY <1>1, Pushed
<1>4. Open(r) = Open(p) \cup {} /\ LoopsIn(r) = LoopsIn(p)
  BY <1>1, <1>2, OpenPushed, LoopsPushed
<1> HIDE DEF r
<1> DEFINE d == Append(r, Tag("case"))
<1>5. /\ d \in Cells /\ Len(d) = Len(r) + 1 /\ (\A i \in 1..Len(r) : d[i] = r[i])
      /\ d[Len(r) + 1] = Tag("case") /\ d # << >> /\ Last(d) = Tag("case") /\ Front(d) = r
  BY <1>1, <1>3, Pushed
<1>6. Open(d) = Open(r) \cup {} /\ LoopsIn(d) = LoopsIn(r)
  BY <1>1, <1>2, <1>3, OpenPushed, LoopsPushed
<1> HIDE DEF d
<1>7. d[Len(p) + 1] = Count(k) /\ d[Len(p) + 2] = Tag("case") /\ \A i \in 1..Len(p) : d[i] = p[i]
  <2>1. Len(p) + 1 \in 1..Len(r) /\ Len(r) + 1 = Len(p) + 2 /\ \A i \in 1..Len(p) : i \in 1..Len(r)
    BY <1>3
  <2> QED BY <2>1, <1>3, <1>5
<1>8. d = CaseMarks(p, k)
  BY DEF d, r, CaseMarks
<1>9. Len(d) = Len(p) + 2 /\ Open(d) = Open(p) /\ LoopsIn(d) = LoopsIn(p)
  BY <1>3, <1>4, <1>5, <1>6
<1>10. Front(d) = Append(p, Count(k)) /\ Append(p, Count(k)) = r
  BY <1>5 DEF r
<1> QED BY <1>3, <1>5, <1>7, <1>8, <1>9, <1>10

\* CASE above fixups that all start from the layout the code ends with.
LEMMA StackedCase ==
    ASSUME NEW c, NEW v, NEW p, NEW T, Stacked(c, v, p, T), Extends(c, T, c, T),
           NEW k \in Int, Fixups(c, T, p, k)
    PROVE  Stacked(c, v, CaseMarks(p, k), T)
<1> DEFINE q == CaseMarks(p, k)
           l == T[Len(T)]
<1>1. p \in Cells /\ l \in Layouts /\ l.loops = LoopsIn(p) /\ Len(p) \in Nat
  BY DEF Stacked, Cells
<1>2. /\ q \in Cells /\ Len(q) = Len(p) + 2 /\ (\A i \in 1..Len(p) : q[i] = p[i])
      /\ q[Len(p) + 1] = Count(k) /\ q[Len(p) + 2] = Tag("case") /\ LoopsIn(q) = LoopsIn(p)
  BY <1>1, CaseMarksFacts
<1> HIDE DEF q
<1>3. LoopsBelow(q, Len(p) + 2) = LoopsIn(p)
  <2>1. LoopsBelow(q, Len(p) + 1) = LoopsBelow(p, Len(p) + 1)
    BY <1>1, <1>2, LoopsBelowSame
  <2>2. q[Len(p) + 1] # Tag("do") /\ Len(p) + 1 \in Nat \ {0} /\ (Len(p) + 1) + 1 = Len(p) + 2
    BY <1>1, <1>2 DEF Count, Tag
  <2>3. LoopsBelow(q, (Len(p) + 1) + 1) = LoopsBelow(q, Len(p) + 1)
    BY <2>2, LoopsBelowNext
  <2> QED BY <2>1, <2>2, <2>3 DEF LoopsIn
<1>4. Looped(l, LoopsIn(p)) = l /\ l = Looped(l, LoopsIn(q))
  BY <1>1, <1>2, LoopedLayout
<1>5. Marked(c, T, q, Len(p) + 1)
  BY <1>2 DEF Marked, Count
<1>6. Marked(c, T, q, Len(p) + 2)
  <2> DEFINE i == Len(p) + 2
  <2>1. i - 1 = Len(p) + 1 /\ i > 1 /\ i - 2 = Len(p) /\ i - 1 - k = Len(p) + 1 - k
    BY <1>1
  <2>2. q[i - 1][1] = "count" /\ q[i - 1][2] = k /\ q[i] = Tag("case")
    BY <1>2, <2>1 DEF Count
  <2>3. k \in 0..i - 2 /\ \A j \in i - 1 - k..i - 2 : j \in 1..Len(p) /\ q[j] = p[j] /\ p[j][1] = "address"
                                                  /\ Fixup(c, T, p[j][2], {"branchCheck"}, l)
    <3>1. \A j \in Len(p) + 1 - k..Len(p) : j \in 1..Len(p)
      BY <1>1 DEF Fixups
    <3> HIDE DEF i
    <3> QED BY <1>1, <1>2, <2>1, <3>1 DEF Fixups
  <2>4. Looped(T[Len(T)], LoopsBelow(q, i)) = l
    BY <1>3, <1>4
  <2> HIDE DEF i, l
  <2>5. Under(q, i, "count")
    BY <2>1, <2>2 DEF Under
  <2>6. \A j \in i - 1 - k..i - 2 : q[j][1] = "address" /\ Fixup(c, T, q[j][2], {"branchCheck"}, l)
    BY <2>3
  <2>7. Marked(c, T, q, i)
    BY <2>2, <2>3, <2>4, <2>5, <2>6 DEF Marked
  <2> QED BY <2>7 DEF i
<1>7. Stacked(c, v, q, T)
  <2>1. \A i \in Len(p) + 1..Len(q) : Marked(c, T, q, i)
    BY <1>1, <1>2, <1>5, <1>6
  <2>2. Len(p) \in 0..Len(p) /\ Len(p) <= Len(q)
    BY <1>1, <1>2
  <2>3. T[Len(T)] = Looped(T[Len(T)], LoopsIn(q))
    BY <1>4
  <2> QED BY <1>2, <2>1, <2>2, <2>3, Restacked
<1> QED BY <1>7 DEF q

\* The mark of CASE on top, and the fixups below it.
LEMMA StackedCaseTop ==
    ASSUME NEW c, NEW v, NEW p, NEW T, Stacked(c, v, p, T), Extends(c, T, c, T), p # << >>, Last(p) = Tag("case")
    PROVE  \E q \in Cells, k \in Nat : p = CaseMarks(q, k) /\ Fixups(c, T, q, k) /\ Stacked(c, v, q, T)
<1> DEFINE r == Front(p)
           l == T[Len(T)]
           i == Len(p)
<1>1. /\ p \in Cells /\ r \in Cells /\ p = Append(r, Tag("case")) /\ i \in Nat \ {0} /\ p[i] = Tag("case")
      /\ Len(r) = i - 1 /\ (\A j \in 1..i - 1 : r[j] = p[j]) /\ l \in Layouts /\ l.loops = LoopsIn(p)
  BY Popped DEF Stacked
<1> HIDE DEF r
<1>2. Marked(c, T, p, i)
  BY <1>1 DEF Stacked
<1>3. /\ Under(p, i, "count") /\ p[i - 1][2] \in 0..i - 2
      /\ \A j \in i - 1 - p[i - 1][2]..i - 2 :
            p[j][1] = "address" /\ Fixup(c, T, p[j][2], {"branchCheck"}, Looped(l, LoopsBelow(p, i)))
  BY <1>1, <1>2 DEF Marked, Tag
<1> DEFINE k == p[i - 1][2]
           q == Front(r)
<1>4. i - 1 \in 1..i /\ i > 1 /\ p[i - 1][1] = "count"
  BY <1>1, <1>3 DEF Under
<1>5. r # << >>
  BY <1>1, <1>4
<1>6. /\ q \in Cells /\ r = Append(q, Last(r)) /\ Last(r) = r[i - 1] /\ Len(q) = i - 2
      /\ \A j \in 1..i - 2 : q[j] = r[j]
  <2>1. q \in Cells /\ r = Append(q, Last(r)) /\ Last(r) = r[Len(r)] /\ Len(q) = Len(r) - 1
        /\ \A j \in 1..Len(r) - 1 : q[j] = r[j]
    BY <1>1, <1>5, Popped
  <2>2. Len(r) = i - 1 /\ Len(r) - 1 = i - 2
    BY <1>1
  <2> HIDE DEF q, i
  <2> QED BY <2>1, <2>2
<1>7. Last(r) = Count(k)
  <2>1. r[i - 1] = p[i - 1] /\ p[i - 1] \in Names \X Int
    <3>1. i - 1 \in 1..i - 1
      BY <1>4
    <3> QED BY <1>1, <1>4, <3>1, ElementOfSeq DEF Cells
  <2> QED BY <1>4, <1>6, <2>1 DEF Count
<1>8. p = CaseMarks(q, k)
  <2> HIDE DEF q, k
  <2> QED BY <1>1, <1>6, <1>7 DEF CaseMarks
<1>9. Len(q) \in Nat /\ (\A j \in 1..Len(q) : q[j] = p[j]) /\ i = Len(q) + 2
  <2>1. \A j \in 1..i - 2 : q[j] = p[j]
    <3>1. \A j \in 1..i - 2 : j \in 1..i - 1
      BY <1>1
    <3> HIDE DEF q, i
    <3> QED BY <3>1, <1>1, <1>6
  <2> HIDE DEF q
  <2> QED BY <2>1, <1>1, <1>4, <1>6
<1>10. k \in Nat /\ k \in Int /\ k \in 0..Len(q)
  <2> HIDE DEF q, k
  <2>1. k \in 0..i - 2 /\ i - 2 = Len(q)
    BY <1>3, <1>6 DEF k
  <2> QED BY <2>1, <1>9
<1>11. LoopsIn(p) = LoopsIn(q)
  <2> HIDE DEF q, k
  <2> QED BY <1>6, <1>8, <1>10, CaseMarksFacts
<1>12. LoopsBelow(p, i) = LoopsIn(p)
  <2>1. LoopsBelow(p, i + 1) = LoopsBelow(p, i)
    <3>1. p[i] # Tag("do") /\ i \in Nat \ {0}
      BY <1>1 DEF Tag
    <3> HIDE DEF i
    <3> QED BY <3>1, LoopsBelowNext
  <2> QED BY <2>1 DEF LoopsIn
<1>13. Looped(l, LoopsBelow(p, i)) = l /\ l = Looped(l, LoopsIn(q))
  BY <1>1, <1>11, <1>12, LoopedLayout
<1> HIDE DEF q, k
<1>14. Fixups(c, T, q, k)
  <2>1. ASSUME NEW j \in Len(q) + 1 - k..Len(q)
        PROVE  q[j][1] = "address" /\ Fixup(c, T, q[j][2], {"branchCheck"}, l)
    <3>1. j \in i - 1 - k..i - 2 /\ j \in 1..Len(q)
      BY <1>9, <1>10
    <3>2. q[j] = p[j]
      BY <3>1, <1>9
    <3>3. p[j][1] = "address" /\ Fixup(c, T, p[j][2], {"branchCheck"}, Looped(l, LoopsBelow(p, i)))
      BY <3>1, <1>3 DEF k
    <3> QED BY <3>2, <3>3, <1>13
  <2> QED BY <2>1, <1>10 DEF Fixups
<1>15. Stacked(c, v, q, T)
  <2>1. Len(q) \in 0..Len(p) /\ Len(q) <= Len(q) /\ (\A j \in 1..Len(q) : q[j] = p[j])
        /\ \A j \in Len(q) + 1..Len(q) : Marked(c, T, q, j)
    BY <1>9
  <2>2. T[Len(T)] = Looped(T[Len(T)], LoopsIn(q))
    BY <1>13
  <2> QED BY <1>6, <2>1, <2>2, Restacked
<1> QED BY <1>6, <1>8, <1>10, <1>14, <1>15

\* CASE.
LEMMA CaseFits ==
    ASSUME NEW c, NEW s, NEW v, NEW p, NEW T, Body(c, s, v, p, T)
    PROVE  Fits(Case(Def(c, p, v)), s)
<1>1. Flows(c, s, v, T, Open(p)) /\ Len(T) = Len(c) + 1 /\ Stacked(c, v, p, T) /\ Extends(c, T, c, T) /\ p \in Cells
  BY BodyParts
<1> DEFINE r == Append(p, Count(0))
           q == CaseMarks(p, 0)
<1>2. Case(Def(c, p, v)) = Def(c, q, v)
  <2>1. Push(Def(c, p, v), Count(0)) = Def(c, r, v)
    BY DefPush
  <2>2. Append(r, Tag("case")) = q
    BY DEF CaseMarks
  <2> HIDE DEF r, q
  <2>3. Push(Def(c, r, v), Tag("case")) = Def(c, q, v)
    <3>1. Push(Def(c, r, v), Tag("case")) = Def(c, Append(r, Tag("case")), v)
      BY DefPush
    <3> QED BY <2>2, <3>1
  <2> QED BY <2>1, <2>3 DEF Case, MarkControlTag
<1>3. Fixups(c, T, p, 0)
  <2>1. Len(p) \in Nat
    BY <1>1 DEF Cells
  <2> QED BY <2>1 DEF Fixups
<1>4. Stacked(c, v, q, T)
  BY <1>1, <1>3, StackedCase
<1>5. Open(q) = Open(p)
  BY <1>1, CaseMarksFacts
<1> HIDE DEF q
<1>6. Body(c, s, v, q, T)
  BY <1>1, <1>4, <1>5, BodyOf
<1> QED BY <1>2, <1>6, FitsDef

(* OF, with FALLTHROUGH of the one before it.                                *)
LEMMA OfFits ==
    ASSUME NEW c, NEW s, NEW v, NEW p, NEW T, Body(c, s, v, p, T)
    PROVE  Fits(Of(Def(c, p, v)), s)
<1> DEFINE D == Def(c, p, v)
           d == Jump(c, "of(", 2)
<1>1. OpensWith("of(", "of") /\ 2 \in Int /\ "of(" \in Names /\ c \in Cells
  BY BodyFacts DEF OpensWith, Names
<1>2. CASE ~(p # << >> /\ Last(p) = Tag("fallthrough"))
  <2>1. ~TopIs(D, "fallthrough")
    BY <1>2, DefReads
  <2>2. Fits(Emit(MarkBranch(Emit(D, Instr("of(")), "of"), Operand(2)), s)
    BY <1>1, IfFits
  <2>3. CASE ~TopIs(D, "case")
    <3>1. Of(D) = Fail(D)
      BY <2>1, <2>3 DEF Of
    <3> QED BY <3>1, DefFail DEF Fits
  <2>4. CASE TopIs(D, "case")
    <3>1. Of(D) = Emit(MarkBranch(Emit(D, Instr("of(")), "of"), Operand(2))
      BY <2>1, <2>4 DEF Of
    <3> QED BY <2>2, <3>1
  <2> QED BY <2>3, <2>4
<1>3. CASE p # << >> /\ Last(p) = Tag("fallthrough")
  <2>1. PICK q \in Cells, x \in Int :
              /\ p = Marks(q, x, "fallthrough") /\ Stacked(c, v, q, T) /\ Fixup(c, T, x, Branches, T[Len(T)])
              /\ \A z \in Open(p) : z \in Open(q) \/ z = x
              /\ Front(p) = Append(q, Address(x)) /\ Front(Append(q, Address(x))) = q
              /\ Last(Append(q, Address(x))) = Address(x)
    BY <1>3, BranchTop
  <2> DEFINE r == Append(q, Address(x))
             y == Len(c) + 2
             m == Marks(q, y, "of")
  <2>2. TopIs(D, "fallthrough") /\ Pop(D) = Def(c, r, v)
    <3>1. TopIs(D, "fallthrough")
      BY <1>3, DefReads
    <3>2. Pop(D) = Def(c, Front(p), v) /\ Front(p) = r
      BY <2>1, DefPop
    <3> HIDE DEF r
    <3> QED BY <3>1, <3>2
  <2>3. Pop(Def(c, r, v)) = Def(c, q, v) /\ TopAddress(Def(c, r, v)) = x
    BY <2>1, DefReads, DefPop DEF Address
  <2>4. Emit(MarkBranch(Emit(Def(c, q, v), Instr("of(")), "of"), Operand(2)) = Def(d, m, v)
    BY <1>1, DefJump
  <2>5. PICK U : Body(DefPatchHere(d, x), s, v, m, U)
    BY <1>1, <2>1, JumpThenHere
  <2> HIDE DEF r, m, d
  <2>6. CASE ~TopIs(Def(c, q, v), "case")
    <3>1. Of(D) = Fail(D)
      BY <2>2, <2>3, <2>6 DEF Of
    <3> QED BY <3>1, DefFail DEF Fits
  <2>7. CASE TopIs(Def(c, q, v), "case")
    <3>1. Of(D) = PatchHere(Def(d, m, v), x)
      BY <2>2, <2>3, <2>4, <2>7 DEF Of
    <3>2. Of(D) = Def(DefPatchHere(d, x), m, v)
      BY <3>1, PatchHereIs
    <3> QED BY <2>5, <3>2, FitsDef
  <2> QED BY <2>6, <2>7
<1> QED BY <1>2, <1>3

-----------------------------------------------------------------------------
(* ENDOF and ENDCASE; DO, LOOP and +LOOP.                                  *)

(* Where ENDOF and FALLTHROUGH fail, and what they work on where they do not. *)
LeavesOf(c, s, v, p, T, q, x) ==
    LET M == MatchControlTag(Def(c, p, v), "of")
        N == MatchControlTag(Pop(M), "case") IN
    /\ Stacked(c, v, q, T) /\ Fixup(c, T, x, Branches, T[Len(T)])
    /\ \A z \in Open(p) : z \in Open(q) \/ z = x
    /\ q \in Cells /\ x \in Int /\ q # << >> /\ Last(q) = Tag("case")
    /\ ~(Len(Def(c, p, v).control) < 4) /\ Ok(M) /\ Ok(N) /\ TopAddress(M) = x
    /\ Emit(N, Instr("branchCheck")) = Def(Append(c, Instr("branchCheck")), Front(q), v)

\* What ENDOF and FALLTHROUGH find on the stack, or that they throw.
LEMMA LeaveOfParts ==
    ASSUME NEW c, NEW s, NEW v, NEW p, NEW T, Body(c, s, v, p, T)
    PROVE  LET D == Def(c, p, v)
               M == MatchControlTag(D, "of")
               N == MatchControlTag(Pop(M), "case") IN
           \/ Len(D.control) < 4 \/ ~Ok(M)
           \/ ~(Len(D.control) < 4) /\ Ok(M) /\ ~Ok(N)
           \/ \E q, x : LeavesOf(c, s, v, p, T, q, x)
<1> DEFINE D == Def(c, p, v)
           M == MatchControlTag(D, "of")
           N == MatchControlTag(Pop(M), "case")
<1>1. SUFFICES ASSUME ~(Len(D.control) < 4), Ok(M), Ok(N) PROVE \E q, x : LeavesOf(c, s, v, p, T, q, x)
  OBVIOUS
<1>2. p # << >> /\ Last(p) = Tag("of")
  <2> SUFFICES ASSUME ~(p # << >> /\ Last(p) = Tag("of")) PROVE FALSE
    OBVIOUS
  <2>1. ~Ok(MatchControlTag(D, "of"))
    BY Matched
  <2> QED BY <1>1, <2>1
<1>3. PICK q \in Cells, x \in Int :
            /\ p = Marks(q, x, "of") /\ Stacked(c, v, q, T) /\ Fixup(c, T, x, Branches, T[Len(T)])
            /\ \A z \in Open(p) : z \in Open(q) \/ z = x
            /\ Front(p) = Append(q, Address(x)) /\ Front(Append(q, Address(x))) = q
            /\ Last(Append(q, Address(x))) = Address(x)
  BY <1>2, BranchTop
<1> DEFINE r == Append(q, Address(x))
<1>4. M = Def(c, r, v)
  <2>1. MatchControlTag(D, "of") = Def(c, Front(p), v)
    BY <1>2, Matched
  <2> QED BY <1>3, <2>1
<1>5. Pop(Def(c, r, v)) = Def(c, q, v) /\ TopAddress(Def(c, r, v)) = x
  BY <1>3, DefReads, DefPop DEF Address
<1> HIDE DEF r, M
<1>6. N = MatchControlTag(Def(c, q, v), "case") /\ TopAddress(M) = x
  BY <1>4, <1>5
<1>7. q # << >> /\ Last(q) = Tag("case")
  <2> SUFFICES ASSUME ~(q # << >> /\ Last(q) = Tag("case")) PROVE FALSE
    OBVIOUS
  <2>1. ~Ok(MatchControlTag(Def(c, q, v), "case"))
    BY Matched
  <2> QED BY <1>1, <1>6, <2>1
<1>8. N = Def(c, Front(q), v)
  BY <1>6, <1>7, Matched
<1>9. Emit(N, Instr("branchCheck")) = Def(Append(c, Instr("branchCheck")), Front(q), v)
  <2> HIDE DEF N
  <2> QED BY <1>8, DefEmit
<1> HIDE DEF N, D
<1>10. LeavesOf(c, s, v, p, T, q, x)
  <2>1. ~(Len(D.control) < 4) /\ Ok(M) /\ Ok(N) /\ TopAddress(M) = x
        /\ Emit(N, Instr("branchCheck")) = Def(Append(c, Instr("branchCheck")), Front(q), v)
    BY <1>1, <1>6, <1>9
  <2> QED BY <1>3, <1>7, <2>1 DEF LeavesOf, N, M, D
<1> QED BY <1>10

\* A branch is its instruction and then its operand.
LEMMA BranchCell ==
    ASSUME NEW c \in Cells, NEW n
    PROVE  LET b == Append(c, Instr("branchCheck")) IN
           /\ Len(c) \in Nat /\ Len(b) + 1 = Len(c) + 2 /\ Jump(c, "branchCheck", n) = Append(b, Operand(n))
<1> DEFINE b == Append(c, Instr("branchCheck"))
<1>1. "branchCheck" \in Names
  BY DEF Names
<1>2. Len(b) = Len(c) + 1 /\ Len(c) \in Nat
  BY <1>1, Appended DEF Cells
<1>3. Jump(c, "branchCheck", n) = Append(b, Operand(n))
  BY DEF Jump
<1> HIDE DEF b
<1> QED BY <1>2, <1>3 DEF b

\* FALLTHROUGH: the test of its OF fails to here, the next OF is passed by.
LEMMA FallthroughFits ==
    ASSUME NEW c, NEW s, NEW v, NEW p, NEW T, Body(c, s, v, p, T)
    PROVE  Fits(Fallthrough(Def(c, p, v)), s)
<1> DEFINE D == Def(c, p, v)
           M == MatchControlTag(D, "of")
           N == MatchControlTag(Pop(M), "case")
<1>0. \/ Len(D.control) < 4 \/ ~Ok(M)
      \/ ~(Len(D.control) < 4) /\ Ok(M) /\ ~Ok(N)
      \/ \E q, x : LeavesOf(c, s, v, p, T, q, x)
  BY LeaveOfParts
<1> HIDE DEF M, N
<1>1. CASE Len(D.control) < 4 \/ ~Ok(M)
  <2>1. Fallthrough(D) = Fail(D)
    BY <1>1 DEF Fallthrough, LeaveOf, M
  <2> QED BY <2>1, DefFail DEF Fits
<1>2. CASE ~(Len(D.control) < 4) /\ Ok(M) /\ ~Ok(N)
  <2>1. Fallthrough(D) = N
    BY <1>2 DEF Fallthrough, LeaveOf, M, N
  <2> QED BY <1>2, <2>1 DEF Fits
<1>3. ASSUME NEW q, NEW x, LeavesOf(c, s, v, p, T, q, x) PROVE Fits(Fallthrough(D), s)
  <2> DEFINE b == Append(c, Instr("branchCheck"))
             d == Jump(c, "branchCheck", 2)
             y == Len(c) + 2
             m == Marks(q, y, "fallthrough")
  <2>1. /\ Stacked(c, v, q, T) /\ Fixup(c, T, x, Branches, T[Len(T)])
        /\ \A z \in Open(p) : z \in Open(q) \/ z = x
        /\ q \in Cells /\ x \in Int /\ q # << >> /\ Last(q) = Tag("case")
    BY <1>3 DEF LeavesOf
  <2>2. ~(Len(D.control) < 4) /\ Ok(M) /\ Ok(N) /\ TopAddress(M) = x /\ Emit(N, Instr("branchCheck")) = Def(b, Front(q), v)
    BY <1>3 DEF LeavesOf, M, N
  <2>3. Len(b) + 1 = y /\ d = Append(b, Operand(2))
    BY BodyFacts, BranchCell
  <2> HIDE DEF b
  <2>4. MarkControlTag(Def(b, Front(q), v), "case") = Def(b, q, v)
    <3>1. Append(Front(q), Tag("case")) = q
      BY <2>1, Popped
    <3>2. Push(Def(b, Front(q), v), Tag("case")) = Def(b, Append(Front(q), Tag("case")), v)
      BY DefPush
    <3> QED BY <3>1, <3>2 DEF MarkControlTag
  <2>5. MarkBranch(Def(b, q, v), "fallthrough") = Def(b, m, v)
    <3> HIDE DEF y
    <3> QED BY <2>3, DefMarkBranch
  <2> HIDE DEF d, m
  <2>6. Emit(Def(b, m, v), Operand(2)) = Def(d, m, v)
    BY <2>3, DefEmit
  <2>7. Fallthrough(D) = PatchHere(Def(d, m, v), x)
    <3>1. Fallthrough(D) = PatchHere(Emit(MarkBranch(MarkControlTag(Emit(N, Instr("branchCheck")), "case"),
                                                     "fallthrough"), Operand(2)), TopAddress(M))
      BY <2>2 DEF Fallthrough, LeaveOf, M, N
    <3> QED BY <2>2, <2>4, <2>5, <2>6, <3>1
  <2>8. Fallthrough(D) = Def(DefPatchHere(d, x), m, v)
    BY <2>7, PatchHereIs
  <2>9. \E U : Body(DefPatchHere(d, x), s, v, m, U)
    <3>1. OpensWith("branchCheck", "fallthrough") /\ 2 \in Int
      BY DEF OpensWith
    <3> QED BY <2>1, <3>1, JumpThenHere DEF d, m
  <2> QED BY <2>8, <2>9, FitsDef
<1> QED BY <1>0, <1>1, <1>2, <1>3

\* ENDOF puts one more fixup below the mark of CASE.
LEMMA EndofStack ==
    ASSUME NEW c, NEW v, NEW T, NEW r, Stacked(c, v, r, T), NEW k \in Nat, Fixups(c, T, r, k),
           NEW d, NEW U, Extends(c, T, d, U), Extends(d, U, d, U), U[Len(U)] = T[Len(T)],
           NEW y \in Int, Opened(d, U, y, "branchCheck", T[Len(T)])
    PROVE  Stacked(d, v, CaseMarks(Append(r, Address(y)), k + 1), U)
<1> DEFINE q == Append(r, Address(y))
           l == T[Len(T)]
<1>1. Stacked(d, v, r, U) /\ r \in Cells
  BY StackedSame DEF Stacked
<1>2. Address(y) \in Names \X Int /\ Address(y)[1] = "address" /\ Address(y)[2] = y /\ Address(y) # Tag("do")
  BY DEF Address, Names, Tag
<1>3. /\ q \in Cells /\ Len(r) \in Nat /\ Len(q) = Len(r) + 1 /\ (\A i \in 1..Len(r) : q[i] = r[i])
      /\ q[Len(r) + 1] = Address(y)
  BY <1>1, <1>2, Pushed
<1>4. LoopsIn(q) = LoopsIn(r)
  BY <1>1, <1>2, LoopsPushed
<1> HIDE DEF q
<1>5. Stacked(d, v, q, U)
  <2>1. U[Len(U)] = Looped(U[Len(U)], LoopsIn(q))
    <3>1. U[Len(U)] \in Layouts /\ U[Len(U)].loops = LoopsIn(r)
      BY <1>1 DEF Stacked
    <3> QED BY <1>4, <3>1, LoopedLayout
  <2>2. \A i \in Len(r) + 1..Len(q) : Marked(d, U, q, i)
    BY <1>2, <1>3 DEF Marked
  <2>3. Len(r) \in 0..Len(r) /\ Len(r) <= Len(q)
    BY <1>3
  <2> QED BY <1>1, <1>3, <2>1, <2>2, <2>3, Restacked
<1>6. Fixups(d, U, q, k + 1)
  <2>1. k + 1 \in 0..Len(q)
    BY <1>3 DEF Fixups
  <2>2. ASSUME NEW j \in Len(q) + 1 - (k + 1)..Len(q)
        PROVE  q[j][1] = "address" /\ Fixup(d, U, q[j][2], {"branchCheck"}, U[Len(U)])
    <3>1. CASE j = Len(r) + 1
      <4>1. q[j] = Address(y)
        BY <1>3, <3>1
      <4>2. Fixup(d, U, y, {"branchCheck"}, U[Len(U)])
        BY DEF Fixup, Opened
      <4> QED BY <1>2, <4>1, <4>2
    <3>2. CASE j # Len(r) + 1
      <4>1. j \in Len(r) + 1 - k..Len(r) /\ j \in 1..Len(r)
        BY <1>3, <3>2 DEF Fixups
      <4>2. r[j][1] = "address" /\ Fixup(c, T, r[j][2], {"branchCheck"}, T[Len(T)])
        BY <4>1 DEF Fixups
      <4>3. Fixup(d, U, r[j][2], {"branchCheck"}, T[Len(T)])
        BY <4>2, FixupKept
      <4> QED BY <1>3, <4>1, <4>2, <4>3
    <3> QED BY <3>1, <3>2
  <2> QED BY <2>1, <2>2 DEF Fixups
<1>7. k + 1 \in Int
  OBVIOUS
<1>8. Stacked(d, v, CaseMarks(q, k + 1), U)
  BY <1>5, <1>6, <1>7, StackedCase
<1> QED BY <1>8 DEF q

\* ENDOF.
LEMMA EndofFits ==
    ASSUME NEW c, NEW s, NEW v, NEW p, NEW T, Body(c, s, v, p, T)
    PROVE  Fits(Endof(Def(c, p, v)), s)
<1> DEFINE D == Def(c, p, v)
           M == MatchControlTag(D, "of")
           N == MatchControlTag(Pop(M), "case")
<1>0. \/ Len(D.control) < 4 \/ ~Ok(M)
      \/ ~(Len(D.control) < 4) /\ Ok(M) /\ ~Ok(N)
      \/ \E q, x : LeavesOf(c, s, v, p, T, q, x)
  BY LeaveOfParts
<1> HIDE DEF M, N
<1>1. CASE Len(D.control) < 4 \/ ~Ok(M)
  <2>1. Endof(D) = Fail(D)
    BY <1>1 DEF Endof, LeaveOf, M
  <2> QED BY <2>1, DefFail DEF Fits
<1>2. CASE ~(Len(D.control) < 4) /\ Ok(M) /\ ~Ok(N)
  <2>1. Endof(D) = N
    BY <1>2 DEF Endof, LeaveOf, M, N
  <2> QED BY <1>2, <2>1 DEF Fits
<1>3. ASSUME NEW q, NEW x, LeavesOf(c, s, v, p, T, q, x) PROVE Fits(Endof(D), s)
  <2> DEFINE b == Append(c, Instr("branchCheck"))
             d == Jump(c, "branchCheck", 2)
             y == Len(c) + 2
             l == T[Len(T)]
             X == Open(p)
             Y == With(X, Len(c) + 2)
  <2>1. /\ Stacked(c, v, q, T) /\ Fixup(c, T, x, Branches, T[Len(T)])
        /\ \A z \in X : z \in Open(q) \/ z = x
        /\ q \in Cells /\ x \in Int /\ q # << >> /\ Last(q) = Tag("case")
    BY <1>3 DEF LeavesOf
  <2>2. ~(Len(D.control) < 4) /\ Ok(M) /\ Ok(N) /\ TopAddress(M) = x /\ Emit(N, Instr("branchCheck")) = Def(b, Front(q), v)
    BY <1>3 DEF LeavesOf, M, N
  <2>3. Len(b) + 1 = y /\ d = Append(b, Operand(2)) /\ Len(c) \in Nat
    BY BodyFacts, BranchCell
  <2>4. /\ Flows(c, s, v, T, X) /\ Len(T) = Len(c) + 1 /\ Roomy(c, v, l) /\ v.count \in Nat
        /\ Extends(c, T, c, T) /\ T[Len(T)] = l /\ l \in Layouts
    BY BodyParts
  <2>5. PICK r \in Cells, k \in Nat : q = CaseMarks(r, k) /\ Fixups(c, T, r, k) /\ Stacked(c, v, r, T)
    BY <2>1, <2>4, StackedCaseTop
  <2> DEFINE r1 == Append(r, Address(y))
             m == CaseMarks(r1, k + 1)
  <2>6. /\ Front(q) = Append(r, Count(k)) /\ Last(Append(r, Count(k))) = Count(k) /\ Front(Append(r, Count(k))) = r
        /\ Open(q) = Open(r)
    <3>1. k \in Int
      OBVIOUS
    <3> QED BY <2>5, <3>1, CaseMarksFacts
  <2> HIDE DEF b
  <2>7. Endof(D) = Def(DefPatchHere(d, x), m, v)
    <3> DEFINE E == Def(b, Append(r, Count(k)), v)
               r2 == Append(r1, Count(k + 1))
    <3>1. Emit(N, Instr("branchCheck")) = E
      BY <2>2, <2>6
    <3>2. Pop(E) = Def(b, r, v) /\ HereOf(E) = y /\ TopAddress(E) = k
      BY <2>3, <2>6, DefPop, DefReads DEF Count
    <3>3. Endof(D) = PatchHere(Emit(MarkControlTag(Push(Push(Pop(E), Address(HereOf(E))), Count(TopAddress(E) + 1)),
                                                   "case"), Operand(2)), TopAddress(M))
      <4> HIDE DEF E
      <4> QED BY <2>2, <3>1 DEF Endof, LeaveOf, M, N
    <3>4. Push(Def(b, r, v), Address(y)) = Def(b, r1, v)
      BY DefPush
    <3>7. m = Append(r2, Tag("case"))
      BY DEF CaseMarks
    <3> HIDE DEF r1, m, E, d
    <3>5. Push(Def(b, r1, v), Count(k + 1)) = Def(b, r2, v)
      BY DefPush
    <3> HIDE DEF r2
    <3>6. MarkControlTag(Def(b, r2, v), "case") = Def(b, m, v)
      <4>1. Push(Def(b, r2, v), Tag("case")) = Def(b, Append(r2, Tag("case")), v)
        BY DefPush
      <4> QED BY <3>7, <4>1 DEF MarkControlTag
    <3>8. Emit(Def(b, m, v), Operand(2)) = Def(d, m, v)
      BY <2>3, DefEmit
    <3>9. Endof(D) = PatchHere(Def(d, m, v), x)
      BY <2>2, <3>2, <3>3, <3>4, <3>5, <3>6, <3>8
    <3> QED BY <3>9, PatchHereIs
  <2>8. PICK U : /\ Flows(d, s, v, U, Y) /\ Extends(c, T, d, U)
                 /\ Len(U) = Len(d) + 1 /\ U[Len(U)] = l /\ Opened(d, U, y, "branchCheck", l)
    <3>1. Passes("branchCheck", l, l) /\ 2 \in Int
      BY DEF Passes, Branches
    <3> HIDE DEF X, l
    <3> QED BY <2>4, <3>1, FlowsJump
  <2>9. \A z \in Y : z \in Open(m) \/ z = x
    <3>1. Address(y) \in Names \X Int /\ Address(y)[1] = "address" /\ Address(y)[2] = y
      BY <2>3 DEF Address, Names
    <3>2. r1 \in Cells /\ Open(r1) = Open(r) \cup {y}
      <4>1. r1 \in Cells
        BY <3>1, Pushed
      <4>2. Open(r1) = Open(r) \cup IF Address(y)[1] = "address" THEN {Address(y)[2]} ELSE {}
        BY <3>1, OpenPushed
      <4> HIDE DEF r1
      <4> QED BY <3>1, <4>1, <4>2
    <3>3. Open(m) = Open(r1)
      <4> HIDE DEF r1
      <4>1. k + 1 \in Int
        OBVIOUS
      <4> QED BY <3>2, <4>1, CaseMarksFacts
    <3> HIDE DEF m
    <3> QED BY <2>1, <2>6, <3>2, <3>3 DEF With
  <2> HIDE DEF X, Y, d
  <2>10. Stacked(d, v, m, U)
    <3>1. Extends(d, U, d, U) /\ y \in Int /\ U[Len(U)] = T[Len(T)] /\ Opened(d, U, y, "branchCheck", T[Len(T)])
      BY <2>3, <2>8, ExtendsItself
    <3> HIDE DEF y
    <3> QED BY <2>5, <2>8, <3>1, EndofStack
  <2> HIDE DEF m
  <2>11. Fixup(d, U, x, Branches, U[Len(U)])
    <3>1. Fixup(c, T, x, Branches, U[Len(U)])
      BY <2>1, <2>8
    <3> QED BY <2>8, <3>1, FixupKept
  <2>12. Body(DefPatchHere(d, x), s, v, m, U)
    <3>1. Branches \subseteq Branches
      OBVIOUS
    <3> QED BY <2>4, <2>8, <2>9, <2>10, <2>11, <3>1, ResolvesHere
  <2> QED BY <2>7, <2>12, FitsDef
<1> QED BY <1>0, <1>1, <1>2, <1>3

\* A stack without its k top cells, and the addresses in those.
Cut(r, k) == SubSeq(r, 1, Len(r) - k)

TopAddresses(r, k) == {r[i][2] : i \in Len(r) - k + 1..Len(r)}

(* What ENDCASE makes of a definition with the mark of CASE on top. *)
EndcaseEnd(c, more) ==
    LET d      == Emit(Pop(Pop(c)), Instr("plain"))
        n      == TopAddress(Pop(c))
        fixups == more \cup {d.control[i][2] : i \in Len(d.control) - n + 1 .. Len(d.control)} IN
    [d EXCEPT !.control = SubSeq(@, 1, Len(@) - n),
              !.code = [a \in DOMAIN @ |-> IF a \in fixups THEN Operand(HereOf(d) - a) ELSE @[a]]]

\* Another stack and another code for a definition.
Finish(d, g, e) == [d EXCEPT !.control = g, !.code = e]

\* The code and the stack of a definition replaced.
LEMMA DefEnd ==
    ASSUME NEW b, NEW r, NEW v, NEW g, NEW e
    PROVE  Finish(Def(b, r, v), g, e) = Def(e, g, v)
<1>1. \A R : [R EXCEPT !.control = g, !.code = e] = [[R EXCEPT !.control = g] EXCEPT !.code = e]
  OBVIOUS
<1>2. [Def(b, r, v) EXCEPT !.control = g] = Def(b, g, v)
  BY DefControl
<1>3. [Def(b, g, v) EXCEPT !.code = e] = Def(e, g, v)
  BY DEF Def
<1> QED BY <1>1, <1>2, <1>3 DEF Finish

\* The operands at F get the distance to the next cell.
FixedUp(b, F) == [a \in DOMAIN b |-> IF a \in F THEN Operand(Len(b) + 1 - a) ELSE b[a]]

\* ENDCASE drops its value and fills in all fixups of its CASE.
LEMMA EndcaseEndIs ==
    ASSUME NEW c, NEW v, NEW r \in Cells, NEW k \in Nat, NEW q, q = CaseMarks(r, k), NEW more
    PROVE  EndcaseEnd(Def(c, q, v), more) =
              LET b == Append(c, Instr("plain")) IN
              Def(FixedUp(b, more \cup TopAddresses(r, k)), Cut(r, k), v)
<1> DEFINE b == Append(c, Instr("plain"))
           C == Def(c, q, v)
           F == more \cup TopAddresses(r, k)
           d == Def(b, r, v)
           g == Cut(r, k)
           e == FixedUp(b, F)
<1>1. Front(q) = Append(r, Count(k)) /\ Last(Append(r, Count(k))) = Count(k) /\ Front(Append(r, Count(k))) = r
  <2>1. k \in Int
    OBVIOUS
  <2> QED BY <2>1, CaseMarksFacts
<1>2. Pop(C) = Def(c, Append(r, Count(k)), v) /\ TopAddress(Pop(C)) = k /\ Pop(Pop(C)) = Def(c, r, v)
  <2> DEFINE r1 == Append(r, Count(k))
  <2>1. Pop(C) = Def(c, Front(q), v)
    BY DefPop
  <2>2. Pop(C) = Def(c, r1, v)
    BY <2>1, <1>1
  <2>3. TopAddress(Def(c, r1, v)) = Last(r1)[2] /\ Pop(Def(c, r1, v)) = Def(c, Front(r1), v)
    BY DefReads, DefPop
  <2>4. Last(r1)[2] = k /\ Front(r1) = r
    BY <1>1 DEF Count
  <2> HIDE DEF C, r1
  <2>5. TopAddress(Pop(C)) = k /\ Pop(Pop(C)) = Def(c, r, v)
    BY <2>2, <2>3, <2>4
  <2> QED BY <2>2, <2>5 DEF r1
<1>3. Emit(Pop(Pop(C)), Instr("plain")) = d
  BY <1>2, DefEmit
<1> HIDE DEF b
<1>4. d.control = r /\ d.code = b /\ HereOf(d) = Len(b) + 1
  BY DefFields, DefReads
<1> HIDE DEF C, d
<1>5. EndcaseEnd(C, more) =
         [d EXCEPT !.control = SubSeq(@, 1, Len(@) - k),
                   !.code = [a \in DOMAIN @ |->
                       IF a \in more \cup {d.control[i][2] : i \in Len(d.control) - k + 1 .. Len(d.control)}
                       THEN Operand(HereOf(d) - a) ELSE @[a]]]
  BY <1>2, <1>3 DEF EndcaseEnd
<1>6. F = more \cup {d.control[i][2] : i \in Len(d.control) - k + 1 .. Len(d.control)}
  BY <1>4 DEF TopAddresses
<1> HIDE DEF F
<1>7. EndcaseEnd(C, more) = [d EXCEPT !.control = SubSeq(d.control, 1, Len(d.control) - k),
                                      !.code = [a \in DOMAIN d.code |-> IF a \in F THEN Operand(HereOf(d) - a) ELSE d.code[a]]]
  BY <1>5, <1>6
<1>8. e = [a \in DOMAIN d.code |-> IF a \in F THEN Operand(HereOf(d) - a) ELSE d.code[a]]
  BY <1>4 DEF FixedUp
<1>9. g = SubSeq(d.control, 1, Len(d.control) - k)
  BY <1>4 DEF Cut
<1> HIDE DEF e, g
<1>10. EndcaseEnd(C, more) = [d EXCEPT !.control = g, !.code = e]
  BY <1>7, <1>8, <1>9
<1>11. EndcaseEnd(C, more) = Def(e, g, v)
  <2>1. Finish(d, g, e) = Def(e, g, v)
    BY DefEnd DEF d
  <2>2. EndcaseEnd(C, more) = Finish(d, g, e)
    BY <1>10 DEF Finish
  <2> QED BY <2>1, <2>2
<1> QED BY <1>11 DEF e, g, C, b, F

\* The cells of a code whose fixups have been filled in.
LEMMA EndedCells ==
    ASSUME NEW b \in Cells, NEW F
    PROVE  /\ FixedUp(b, F) \in Cells /\ Len(FixedUp(b, F)) = Len(b)
           /\ \A a \in 1..Len(b) : FixedUp(b, F)[a] = IF a \in F THEN Operand(Len(b) + 1 - a) ELSE b[a]
<1> DEFINE e == FixedUp(b, F)
           S == Names \X Int
<1>1. b \in Seq(S) /\ Len(b) \in Nat /\ DOMAIN b = 1..Len(b)
  BY DEF Cells
<1>2. \A a \in 1..Len(b) : b[a] \in S
  BY <1>1, ElementOfSeq
<1>3. \A a \in 1..Len(b) : Operand(Len(b) + 1 - a) \in S
  BY <1>1 DEF Operand, Names
<1>4. e = [a \in 1..Len(b) |-> IF a \in F THEN Operand(Len(b) + 1 - a) ELSE b[a]]
  BY <1>1 DEF FixedUp
<1> HIDE DEF S
<1>5. e \in [1..Len(b) -> S]
  BY <1>2, <1>3, <1>4
<1>6. \A a \in 1..Len(b) : e[a] = IF a \in F THEN Operand(Len(b) + 1 - a) ELSE b[a]
  BY <1>4
<1> HIDE DEF e
<1>7. e \in Seq(S) /\ Len(e) = Len(b)
  BY <1>1, <1>5
<1> QED BY <1>6, <1>7 DEF e, S, Cells

(* The fixups of a CASE are no part of what is below them. *)
LEMMA FixupsOff ==
    ASSUME NEW c, NEW v, NEW T, NEW r, Stacked(c, v, r, T), NEW k \in Nat, Fixups(c, T, r, k)
    PROVE  /\ Cut(r, k) \in Cells /\ Len(r) \in Nat /\ Len(Cut(r, k)) = Len(r) - k
           /\ \A i \in 1..Len(Cut(r, k)) : Cut(r, k)[i] = r[i]
           /\ LoopsIn(Cut(r, k)) = LoopsIn(r)
           /\ \A z \in Open(r) : z \in Open(Cut(r, k)) \/ z \in TopAddresses(r, k)
           /\ \A x \in TopAddresses(r, k) : Fixup(c, T, x, Branches, T[Len(T)])
<1>1. r \in Cells /\ Len(r) \in Nat /\ k \in 0..Len(r)
  BY DEF Stacked, Cells, Fixups
<1> DEFINE n == Len(r) - k
           g == Cut(r, k)
           S == Names \X Int
<1>2. n \in 0..Len(r) /\ n \in Int /\ 1 \in Int
  BY <1>1
<1>3. g \in Seq(S) /\ Len(g) = n /\ \A i \in 1..n : g[i] = r[i]
  <2>1. r \in Seq(S)
    BY <1>1 DEF Cells
  <2>2. \A i \in 1..n : r[i] \in S
    BY <1>2, <2>1, ElementOfSeq
  <2> HIDE DEF n, S
  <2>3. SubSeq(r, 1, n) \in Seq(S) /\ Len(SubSeq(r, 1, n)) = (IF 1 <= n THEN n - 1 + 1 ELSE 0)
        /\ \A i \in 1..n - 1 + 1 : SubSeq(r, 1, n)[i] = r[1 + i - 1]
    BY <1>2, <2>2, SubSeqProperties
  <2>4. g = SubSeq(r, 1, n)
    BY DEF n, Cut
  <2> HIDE DEF g
  <2>5. Len(g) = n
    BY <1>2, <2>3, <2>4
  <2>6. ASSUME NEW i \in 1..n PROVE g[i] = r[i]
    <3>1. i \in 1..n - 1 + 1 /\ 1 + i - 1 = i
      BY <1>2
    <3> QED BY <2>3, <2>4, <3>1
  <2> QED BY <2>3, <2>4, <2>5, <2>6
<1> HIDE DEF n, g
<1>4. \A j \in n + 1..Len(r) : r[j][1] = "address" /\ Fixup(c, T, r[j][2], {"branchCheck"}, T[Len(T)])
  <2>1. \A j \in n + 1..Len(r) : j \in Len(r) + 1 - k..Len(r)
    BY <1>1 DEF n
  <2> QED BY <2>1 DEF Fixups
<1>5. LoopsIn(g) = LoopsIn(r)
  <2>1. {j \in 1..(Len(g) + 1) - 1 : g[j] = Tag("do")} = {j \in 1..(Len(r) + 1) - 1 : r[j] = Tag("do")}
    <3>1. ASSUME NEW j \in 1..Len(r), r[j] = Tag("do") PROVE j \in 1..n
      <4>1. r[j][1] # "address"
        BY <3>1 DEF Tag
      <4> QED BY <4>1, <1>1, <1>2, <1>4
    <3>2. 1..(Len(g) + 1) - 1 = 1..n /\ 1..(Len(r) + 1) - 1 = 1..Len(r) /\ \A j \in 1..n : j \in 1..Len(r)
      BY <1>1, <1>2, <1>3
    <3> QED BY <3>1, <3>2, <1>3
  <2> QED BY <2>1 DEF LoopsIn, LoopsBelow
<1>6. ASSUME NEW z \in Open(r) PROVE z \in Open(g) \/ z \in TopAddresses(r, k)
  <2>1. PICK i \in 1..Len(r) : r[i][1] = "address" /\ z = r[i][2]
    BY DEF Open
  <2>2. CASE i \in 1..n
    <3>1. g[i] = r[i] /\ i \in 1..Len(g)
      BY <2>2, <1>3
    <3> QED BY <3>1, <2>1 DEF Open
  <2>3. CASE i \notin 1..n
    <3>1. i \in Len(r) - k + 1..Len(r)
      BY <2>3, <1>1, <1>2 DEF n
    <3> QED BY <3>1, <2>1 DEF TopAddresses
  <2> QED BY <2>2, <2>3
<1>7. ASSUME NEW x \in TopAddresses(r, k) PROVE Fixup(c, T, x, Branches, T[Len(T)])
  <2>1. PICK i \in Len(r) - k + 1..Len(r) : x = r[i][2]
    BY DEF TopAddresses
  <2>2. i \in n + 1..Len(r)
    BY DEF n
  <2> QED BY <2>1, <2>2, <1>4 DEF Fixup, Branches
<1> QED BY <1>1, <1>3, <1>5, <1>6, <1>7 DEF Cells, n, g

\* All fixups of a CASE go to the place after ENDCASE, from the layout it has.
LEMMA EndcaseEndFits ==
    ASSUME NEW c, NEW s, NEW v, NEW p, NEW T, Body(c, s, v, p, T),
           NEW q, Stacked(c, v, q, T), q # << >>, Last(q) = Tag("case"),
           NEW more, \A x \in more : Fixup(c, T, x, Branches, T[Len(T)]),
           \A z \in Open(p) : z \in Open(q) \/ z \in more
    PROVE  Fits(EndcaseEnd(Def(c, q, v), more), s)
<1> DEFINE X == Open(p)
           l == T[Len(T)]
           b == Append(c, Instr("plain"))
<1>1. /\ Flows(c, s, v, T, X) /\ Len(T) = Len(c) + 1 /\ Roomy(c, v, l) /\ v.count \in Nat
      /\ Extends(c, T, c, T) /\ l \in Layouts /\ c \in Cells /\ Len(c) \in Nat
  BY BodyParts
<1>2. PICK r \in Cells, k \in Nat : q = CaseMarks(r, k) /\ Fixups(c, T, r, k) /\ Stacked(c, v, r, T)
  BY <1>1, StackedCaseTop
<1> DEFINE F == more \cup TopAddresses(r, k)
           g == Cut(r, k)
           e == FixedUp(b, F)
           Y == Open(g)
<1>3. EndcaseEnd(Def(c, q, v), more) = Def(e, g, v)
  BY <1>2, EndcaseEndIs
<1>4. PICK U : Flows(b, s, v, U, X) /\ Extends(c, T, b, U) /\ Len(U) = Len(b) + 1 /\ U[Len(U)] = l
  <2>1. Turns("plain", T[Len(T)], l)
    BY DEF Turns
  <2> HIDE DEF X, b, l
  <2>2. Extended(c, s, v, T, X, Append(c, Instr("plain")), l)
    BY <1>1, <2>1, FlowsTurn DEF l
  <2> QED BY <2>2 DEF Extended, b
<1> HIDE DEF b
<1>5. /\ g \in Cells /\ Len(r) \in Nat /\ Len(g) = Len(r) - k /\ (\A i \in 1..Len(g) : g[i] = r[i])
      /\ LoopsIn(g) = LoopsIn(r)
      /\ \A z \in Open(r) : z \in Open(g) \/ z \in TopAddresses(r, k)
      /\ \A x \in TopAddresses(r, k) : Fixup(c, T, x, Branches, T[Len(T)])
  BY <1>2, FixupsOff
<1> HIDE DEF g
<1>6. \A x \in F : Fixup(b, U, x, Branches, U[Len(U)])
  <2> SUFFICES ASSUME NEW x \in F PROVE Fixup(b, U, x, Branches, U[Len(U)])
    OBVIOUS
  <2>1. Fixup(c, T, x, Branches, l)
    <3>1. CASE x \in more
      BY <3>1
    <3>2. CASE x \in TopAddresses(r, k)
      BY <3>2, <1>5
    <3> QED BY <3>1, <3>2
  <2> HIDE DEF l
  <2>2. Fixup(b, U, x, Branches, l)
    BY <2>1, <1>4, FixupKept
  <2> QED BY <2>2, <1>4
<1>7. \A z \in X : z \in Y \/ z \in F
  <2>1. Open(q) = Open(r)
    <3>1. k \in Int
      OBVIOUS
    <3> QED BY <1>2, <3>1, CaseMarksFacts
  <2> QED BY <2>1, <1>5
<1>8. e \in Cells /\ Len(e) = Len(b) /\ \A a \in 1..Len(b) : e[a] = IF a \in F THEN Operand(Len(b) + 1 - a) ELSE b[a]
  <2>1. b \in Cells
    BY <1>4, FlowsFacts
  <2> HIDE DEF F
  <2> QED BY <2>1, EndedCells
<1> HIDE DEF F, e, X, Y, l
<1>9. Flows(e, s, v, U, Y) /\ Extends(b, U, e, U)
  BY <1>1, <1>4, <1>6, <1>7, <1>8, FlowsResolved
<1>10. Stacked(e, v, g, U)
  <2>1. Extends(c, T, e, U)
    BY <1>4, <1>9, ExtendsTransitive
  <2>2. Len(g) \in 0..Len(r) /\ Len(g) <= Len(g) /\ \A i \in Len(g) + 1..Len(g) : Marked(e, U, g, i)
    <3>1. k \in 0..Len(r)
      BY <1>2 DEF Fixups
    <3> QED BY <1>5, <3>1
  <2>3. U[Len(U)] = Looped(T[Len(T)], LoopsIn(g))
    <3>1. l.loops = LoopsIn(r) /\ l \in Layouts
      BY <1>2 DEF Stacked, l
    <3>2. Looped(l, l.loops) = l
      BY <3>1, LoopedLayout
    <3> QED BY <3>1, <3>2, <1>4, <1>5 DEF l
  <2> QED BY <1>2, <1>5, <2>1, <2>2, <2>3, Restacked
<1>11. Body(e, s, v, g, U)
  BY <1>4, <1>8, <1>9, <1>10, BodyOf DEF Y
<1> QED BY <1>3, <1>11, FitsDef DEF e, g

\* ENDCASE, with the branch of an open FALLTHROUGH or without.
LEMMA EndcaseFits ==
    ASSUME NEW c, NEW s, NEW v, NEW p, NEW T, Body(c, s, v, p, T)
    PROVE  Fits(Endcase(Def(c, p, v)), s)
<1> DEFINE D == Def(c, p, v)
<1>1. CASE ~TopIs(D, "fallthrough")
  <2>1. CASE ~TopIs(D, "case")
    <3>1. Endcase(D) = Fail(D)
      BY <1>1, <2>1 DEF Endcase, EndcaseWith
    <3> QED BY <3>1, DefFail DEF Fits
  <2>2. CASE TopIs(D, "case")
    <3>1. p # << >> /\ Last(p) = Tag("case")
      BY <2>2, DefReads
    <3>2. Endcase(D) = EndcaseEnd(D, {})
      BY <1>1, <2>2 DEF Endcase, EndcaseWith, EndcaseEnd
    <3>3. Stacked(c, v, p, T)
      BY BodyParts
    <3> DEFINE more == {}
    <3>4. (\A x \in more : Fixup(c, T, x, Branches, T[Len(T)])) /\ \A z \in Open(p) : z \in Open(p) \/ z \in more
      OBVIOUS
    <3>5. Endcase(D) = EndcaseEnd(D, more)
      BY <3>2
    <3> HIDE DEF more
    <3>6. Fits(EndcaseEnd(Def(c, p, v), more), s)
      BY <3>1, <3>3, <3>4, EndcaseEndFits
    <3> QED BY <3>5, <3>6
  <2> QED BY <2>1, <2>2
<1>2. CASE TopIs(D, "fallthrough")
  <2>1. p # << >> /\ Last(p) = Tag("fallthrough")
    BY <1>2, DefReads
  <2>2. PICK q \in Cells, x \in Int :
              /\ p = Marks(q, x, "fallthrough") /\ Stacked(c, v, q, T) /\ Fixup(c, T, x, Branches, T[Len(T)])
              /\ \A z \in Open(p) : z \in Open(q) \/ z = x
              /\ Front(p) = Append(q, Address(x)) /\ Front(Append(q, Address(x))) = q
              /\ Last(Append(q, Address(x))) = Address(x)
    BY <2>1, BranchTop
  <2> DEFINE r == Append(q, Address(x))
             more == {x}
  <2>3. Pop(D) = Def(c, r, v)
    <3>1. Pop(D) = Def(c, Front(p), v) /\ Front(p) = r
      BY <2>2, DefPop
    <3> HIDE DEF r
    <3> QED BY <3>1
  <2>4. Pop(Def(c, r, v)) = Def(c, q, v) /\ TopAddress(Def(c, r, v)) = x
    BY <2>2, DefReads, DefPop DEF Address
  <2> HIDE DEF r, D
  <2>5. CASE ~TopIs(Def(c, q, v), "case")
    <3>1. Endcase(D) = Fail(D)
      BY <1>2, <2>3, <2>4, <2>5 DEF Endcase, EndcaseWith
    <3> QED BY <3>1, DefFail DEF Fits, D
  <2>6. CASE TopIs(Def(c, q, v), "case")
    <3>1. q # << >> /\ Last(q) = Tag("case")
      BY <2>6, DefReads
    <3>2. Endcase(D) = EndcaseEnd(Def(c, q, v), more)
      <4> DEFINE C == Def(c, q, v)
      <4>1. Pop(Pop(D)) = C /\ TopAddress(Pop(D)) = x
        BY <2>3, <2>4
      <4>2. TopIs(C, "case")
        BY <2>6
      <4> HIDE DEF C
      <4> QED BY <1>2, <4>1, <4>2 DEF Endcase, EndcaseWith, EndcaseEnd, C
    <3>3. (\A y \in more : Fixup(c, T, y, Branches, T[Len(T)])) /\ \A z \in Open(p) : z \in Open(q) \/ z \in more
      BY <2>2
    <3> HIDE DEF more
    <3>4. Fits(EndcaseEnd(Def(c, q, v), more), s)
      BY <2>2, <3>1, <3>3, EndcaseEndFits
    <3> QED BY <3>2, <3>4 DEF D
  <2> QED BY <2>5, <2>6
<1> QED BY <1>1, <1>2

DoMarks(p, y, x) == Marks(Marks(p, y, "leave"), x, "do")

\* The two marks of DO put on the stack.
LEMMA DoMarksFacts ==
    ASSUME NEW p \in Cells, NEW y \in Int, NEW x \in Int
    PROVE  LET q == DoMarks(p, y, x) IN
           /\ q \in Cells /\ Len(p) \in Nat /\ Len(q) = Len(p) + 4 /\ \A i \in 1..Len(p) : q[i] = p[i]
           /\ q[Len(p) + 1] = Address(y) /\ q[Len(p) + 2] = Tag("leave")
           /\ q[Len(p) + 3] = Address(x) /\ q[Len(p) + 4] = Tag("do")
           /\ \A z : z \in Open(q) <=> z \in Open(p) \/ z = y \/ z = x
           /\ LoopsIn(q) = LoopsIn(p) + 1
           /\ LoopsBelow(q, Len(p) + 2) = LoopsIn(p) /\ LoopsBelow(q, Len(p) + 4) = LoopsIn(p)
<1> DEFINE r == Marks(p, y, "leave")
           q == Marks(r, x, "do")
<1>1. "leave" \in Tags \cup {"do"} /\ "do" \in Tags \cup {"do"}
  BY DEF Tags
<1>2. /\ r \in Cells /\ Len(p) \in Nat /\ Len(r) = Len(p) + 2 /\ (\A i \in 1..Len(p) : r[i] = p[i])
      /\ r[Len(p) + 1] = Address(y) /\ r[Len(p) + 2] = Tag("leave")
      /\ Open(r) = Open(p) \cup {y} /\ LoopsIn(r) = LoopsIn(p)
  BY <1>1, MarksFacts
<1> HIDE DEF r
<1>3. /\ q \in Cells /\ Len(q) = Len(r) + 2 /\ (\A i \in 1..Len(r) : q[i] = r[i])
      /\ q[Len(r) + 1] = Address(x) /\ q[Len(r) + 2] = Tag("do")
      /\ Open(q) = Open(r) \cup {x} /\ LoopsIn(q) = LoopsIn(r) + 1
  BY <1>1, <1>2, MarksFacts
<1> HIDE DEF q
<1>4. Len(r) + 1 = Len(p) + 3 /\ Len(r) + 2 = Len(p) + 4 /\ Len(q) = Len(p) + 4
  BY <1>2, <1>3
<1>5. \A i \in 1..Len(p) + 2 : q[i] = r[i]
  BY <1>2, <1>3
<1>6. q[Len(p) + 1] = Address(y) /\ q[Len(p) + 2] = Tag("leave") /\ \A i \in 1..Len(p) : q[i] = p[i]
  BY <1>2, <1>5
<1>7. q[Len(p) + 3] = Address(x) /\ q[Len(p) + 4] = Tag("do")
  BY <1>3, <1>4
<1>8. LoopsBelow(q, Len(p) + 1) = LoopsIn(p)
  <2>1. LoopsBelow(q, Len(p) + 1) = LoopsBelow(p, Len(p) + 1)
    BY <1>2, <1>6, LoopsBelowSame
  <2> QED BY <2>1 DEF LoopsIn
<1>9. LoopsBelow(q, Len(p) + 2) = LoopsIn(p)
  <2>1. Len(p) + 1 \in Nat \ {0} /\ (Len(p) + 1) + 1 = Len(p) + 2 /\ q[Len(p) + 1] # Tag("do")
    BY <1>2, <1>6 DEF Address, Tag
  <2> QED BY <1>8, <2>1, LoopsBelowNext
<1>10. LoopsBelow(q, Len(p) + 3) = LoopsIn(p)
  <2>1. Len(p) + 2 \in Nat \ {0} /\ (Len(p) + 2) + 1 = Len(p) + 3 /\ q[Len(p) + 2] # Tag("do")
    BY <1>2, <1>6 DEF Tag
  <2> QED BY <1>9, <2>1, LoopsBelowNext
<1>11. LoopsBelow(q, Len(p) + 4) = LoopsIn(p)
  <2>1. Len(p) + 3 \in Nat \ {0} /\ (Len(p) + 3) + 1 = Len(p) + 4 /\ q[Len(p) + 3] # Tag("do")
    BY <1>2, <1>7 DEF Address, Tag
  <2> QED BY <1>10, <2>1, LoopsBelowNext
<1>12. \A z : z \in Open(q) <=> z \in Open(p) \/ z = y \/ z = x
  BY <1>2, <1>3
<1>13. q = DoMarks(p, y, x)
  BY DEF q, r, DoMarks
<1> QED BY <1>2, <1>3, <1>4, <1>6, <1>7, <1>9, <1>11, <1>12, <1>13

\* DO leaves a stack that fits the code with one loop more.
LEMMA DoStack ==
    ASSUME NEW c, NEW v, NEW p, NEW T, Stacked(c, v, p, T), NEW l, T[Len(T)] = l, NEW d, NEW U, Extends(c, T, d, U),
           U[Len(U)] = Looped(l, l.loops + 1), NEW y \in Int, NEW w \in Dos, Opened(d, U, y, w, l),
           At(d, U, y + 1, Looped(l, l.loops + 1))
    PROVE  Stacked(d, v, DoMarks(p, y, y + 1), U)
<1> DEFINE x == y + 1
           q == DoMarks(p, y, x)
           m == Looped(l, l.loops + 1)
<1>1. p \in Cells /\ l \in Layouts /\ l.loops = LoopsIn(p) /\ l.loops \in Nat /\ x \in Int
  BY DEF Stacked, Layouts
<1> HIDE DEF x
<1>2. /\ q \in Cells /\ Len(p) \in Nat /\ Len(q) = Len(p) + 4 /\ (\A i \in 1..Len(p) : q[i] = p[i])
      /\ q[Len(p) + 1] = Address(y) /\ q[Len(p) + 2] = Tag("leave")
      /\ q[Len(p) + 3] = Address(x) /\ q[Len(p) + 4] = Tag("do")
      /\ LoopsIn(q) = LoopsIn(p) + 1
      /\ LoopsBelow(q, Len(p) + 2) = LoopsIn(p) /\ LoopsBelow(q, Len(p) + 4) = LoopsIn(p)
  BY <1>1, DoMarksFacts
<1> HIDE DEF q
<1>3. m.loops = l.loops + 1 /\ Looped(m, LoopsIn(p)) = l /\ Looped(l, l.loops + 1) = m
  <2>1. l.loops + 1 \in Nat
    BY <1>1
  <2>2. Looped(m, l.loops) = Looped(l, l.loops) /\ Looped(l, l.loops) = l /\ m.loops = l.loops + 1
    BY <1>1, <2>1, LoopedLayout
  <2> QED BY <1>1, <2>2
<1> HIDE DEF m
<1>4. U[Len(U)] = m
  BY DEF m
<1>5. Marked(d, U, q, Len(p) + 1) /\ Marked(d, U, q, Len(p) + 3)
  BY <1>2 DEF Marked, Address
<1>6. Marked(d, U, q, Len(p) + 2)
  <2> DEFINE i == Len(p) + 2
  <2>1. q[i] = Tag("leave") /\ i > 1 /\ i - 1 = Len(p) + 1 /\ q[i - 1] = Address(y)
    BY <1>2
  <2>2. Under(q, i, "address") /\ q[i - 1][2] = y
    BY <2>1 DEF Under, Address
  <2>3. Looped(U[Len(U)], LoopsBelow(q, i)) = l
    BY <1>2, <1>3, <1>4
  <2>4. Fixup(d, U, y, Dos, l)
    BY DEF Opened, Fixup
  <2> HIDE DEF i
  <2>5. Marked(d, U, q, i)
    BY <2>1, <2>2, <2>3, <2>4 DEF Marked
  <2> QED BY <2>5 DEF i
<1>7. Marked(d, U, q, Len(p) + 4)
  <2> DEFINE i == Len(p) + 4
  <2>1. q[i] = Tag("do") /\ i > 1 /\ i - 1 = Len(p) + 3 /\ q[i - 1] = Address(x) /\ i - 2 = Len(p) + 2 /\ i > 2
        /\ q[i - 2] = Tag("leave")
    BY <1>2
  <2>2. Under(q, i, "address") /\ q[i - 1][2] = x
    BY <2>1 DEF Under, Address
  <2>3. Looped(U[Len(U)], LoopsBelow(q, i)) = l
    BY <1>2, <1>3, <1>4
  <2>4. At(d, U, x, Looped(l, l.loops + 1))
    BY DEF x
  <2> HIDE DEF i
  <2>5. Marked(d, U, q, i)
    BY <2>1, <2>2, <2>3, <2>4 DEF Marked
  <2> QED BY <2>5 DEF i
<1>8. Stacked(d, v, q, U)
  <2>1. \A i \in Len(p) + 1..Len(q) : Marked(d, U, q, i)
    BY <1>2, <1>5, <1>6, <1>7
  <2>2. Len(p) \in 0..Len(p) /\ Len(p) <= Len(q)
    BY <1>2
  <2>3. U[Len(U)] = Looped(T[Len(T)], LoopsIn(q))
    BY <1>1, <1>2 DEF m
  <2> QED BY <1>2, <2>1, <2>2, <2>3, Restacked
<1> QED BY <1>8 DEF q, x

\* DO and ?DO.
LEMMA DoFits ==
    ASSUME NEW c, NEW s, NEW v, NEW p, NEW T, Body(c, s, v, p, T), NEW w \in Dos
    PROVE  Fits(Do(Def(c, p, v), w), s)
<1> DEFINE X == Open(p)
           l == T[Len(T)]
           m == Looped(l, l.loops + 1)
           d == Jump(c, w, 0)
           y == Len(c) + 2
           Y == With(X, Len(c) + 2)
           r == Marks(p, y, "leave")
           q == DoMarks(p, y, y + 1)
           Z == Open(q)
<1>1. /\ Flows(c, s, v, T, X) /\ Len(T) = Len(c) + 1 /\ Roomy(c, v, l) /\ v.count \in Nat /\ T[Len(T)] = l
      /\ l \in Layouts /\ c \in Cells /\ Len(c) \in Nat /\ Stacked(c, v, p, T) /\ p \in Cells
  BY BodyParts
<1>2. w \in Names
  BY DEF Names, Dos
<1>6. Len(d) = y /\ y \in Int
  <2>1. 0 \in Int
    OBVIOUS
  <2>2. Len(Jump(c, w, 0)) = Len(c) + 2
    BY <1>1, <1>2, <2>1, JumpCells
  <2> QED BY <1>1, <2>2
<1>3. Do(Def(c, p, v), w) = Def(d, q, v)
  <2>1. Emit(MarkBranch(Emit(Def(c, p, v), Instr(w)), "leave"), Operand(0)) = Def(d, r, v)
    BY <1>1, <1>2, DefJump
  <2>2. Len(d) + 1 = y + 1
    <3> HIDE DEF d
    <3> QED BY <1>6
  <2>3. q = Marks(r, y + 1, "do")
    BY DEF DoMarks
  <2> HIDE DEF d, r, q, y
  <2>4. MarkBranch(Def(d, r, v), "do") = Def(d, q, v)
    <3>1. MarkBranch(Def(d, r, v), "do") = Def(d, Marks(r, Len(d) + 1, "do"), v)
      BY DefMarkBranch
    <3> QED BY <3>1, <2>2, <2>3
  <2> QED BY <2>1, <2>4 DEF Do
<1>4. m \in Layouts
  <2>1. l.loops + 1 \in Nat
    BY <1>1 DEF Layouts
  <2> HIDE DEF l
  <2> QED BY <1>1, <2>1, LoopedLayout
<1>5. PICK U : /\ Flows(d, s, v, U, Y) /\ Extends(c, T, d, U) /\ Len(U) = Len(d) + 1 /\ U[Len(U)] = m
               /\ Opened(d, U, y, w, l)
  <2>1. Passes(w, l, m) /\ 0 \in Int
    BY DEF Passes
  <2> HIDE DEF X, l, m
  <2> QED BY <1>1, <1>4, <2>1, FlowsJump
<1>7. At(d, U, y + 1, m)
  <2> HIDE DEF d, y, m
  <2>1. d \in Cells /\ U \in Seq(Layouts) /\ Len(d) \in Nat
    BY <1>5, FlowsFacts
  <2> QED BY <1>5, <1>6, <2>1 DEF At, IsPlace
<1>8. \A z \in Y : z \in Z
  <2>1. \A z : z \in Z <=> z \in Open(p) \/ z = y \/ z = y + 1
    <3>1. y + 1 \in Int
      BY <1>6
    <3> HIDE DEF y
    <3> QED BY <1>1, <1>6, <3>1, DoMarksFacts
  <2> QED BY <2>1 DEF With
<1> HIDE DEF X, Y, Z, d
<1>9. Flows(d, s, v, U, Z)
  BY <1>5, <1>8, FlowsClosed
<1>10. Stacked(d, v, q, U)
  <2> HIDE DEF y, l
  <2> QED BY <1>1, <1>5, <1>6, <1>7, DoStack
<1> HIDE DEF q
<1>11. Body(d, s, v, q, U)
  BY <1>5, <1>9, <1>10, BodyOf DEF Z
<1> QED BY <1>3, <1>11, FitsDef

\* A mark inside the stack, the address below it, and what is below both.
LEMMA TwoOff ==
    ASSUME NEW p \in Cells, NEW n, n = Len(p), NEW t, p[n] = Tag(t), n > 1, p[n - 1][1] = "address"
    PROVE  \E q \in Cells, x \in Int :
              /\ p = Marks(q, x, t) /\ x = p[n - 1][2] /\ Len(q) = n - 2 /\ \A i \in 1..n - 2 : q[i] = p[i]
<1> DEFINE r == Front(p)
           q == Front(r)
           x == p[n - 1][2]
<1>1. p # << >>
  BY DEF Cells
<1>2. /\ r \in Cells /\ p = Append(r, p[n]) /\ n \in Nat \ {0} /\ Len(r) = n - 1
      /\ \A i \in 1..n - 1 : r[i] = p[i]
  BY <1>1, Popped
<1>3. n - 1 \in 1..n /\ n - 1 \in 1..n - 1
  BY <1>2
<1>4. p[n - 1] = Address(x) /\ x \in Int
  <2>1. p[n - 1] \in Names \X Int
    BY <1>3, ElementOfSeq DEF Cells
  <2> QED BY <2>1 DEF Address
<1>5. r # << >> /\ Last(r) = Address(x)
  <2>1. r[Len(r)] = Address(x)
    BY <1>2, <1>3, <1>4
  <2>2. r # << >>
    BY <1>2, <1>3 DEF Cells
  <2> QED BY <2>1, <2>2 DEF Last
<1>6. /\ q \in Cells /\ r = Append(q, Address(x)) /\ Len(q) = n - 2 /\ \A i \in 1..n - 2 : q[i] = r[i]
  <2> HIDE DEF r, x
  <2>1. q \in Cells /\ r = Append(q, Last(r)) /\ Len(q) = Len(r) - 1 /\ \A i \in 1..Len(r) - 1 : q[i] = r[i]
    BY <1>2, <1>5, Popped
  <2>2. Len(r) - 1 = n - 2
    BY <1>2
  <2> QED BY <2>1, <2>2, <1>5
<1> HIDE DEF r, q, x
<1>7. p = Marks(q, x, t)
  BY <1>2, <1>6 DEF Marks
<1>8. \A i \in 1..n - 2 : q[i] = p[i]
  BY <1>2, <1>6
<1> QED BY <1>4, <1>6, <1>7, <1>8 DEF x

(* The mark of DO, the address its loop goes back to, and below them the     *)
(* operand that is to get the address past LOOP.                             *)
LEMMA DoTop ==
    ASSUME NEW c, NEW v, NEW p, NEW T, Stacked(c, v, p, T), p # << >>, Last(p) = Tag("do"), NEW l, l = T[Len(T)]
    PROVE  \E q \in Cells, x \in Int, y \in Int :
              /\ p = DoMarks(q, y, x) /\ At(c, T, x, l) /\ Fixup(c, T, y, Dos, Looped(l, l.loops - 1))
              /\ l.loops > 0 /\ LoopsIn(q) = l.loops - 1
<1> DEFINE n == Len(p)
<1>1. p \in Cells /\ l \in Layouts /\ l.loops = LoopsIn(p) /\ n \in Nat \ {0} /\ p[n] = Tag("do") /\ l.loops \in Nat
  BY Popped DEF Stacked, Layouts
<1>2. Marked(c, T, p, n)
  BY <1>1 DEF Stacked
<1>3. /\ Under(p, n, "address") /\ n > 2 /\ p[n - 2] = Tag("leave")
      /\ At(c, T, p[n - 1][2], Looped(Looped(l, LoopsBelow(p, n)), Looped(l, LoopsBelow(p, n)).loops + 1))
  <2>1. /\ p[n] # Tag("colon") /\ p[n] # Tag("origin") /\ p[n] # Tag("target") /\ p[n] # Tag("leave") /\ p[n] # Tag("case")
        /\ p[n] # Tag("of") /\ p[n] # Tag("fallthrough") /\ p[n][1] \notin {"address", "count"}
    BY <1>1 DEF Tag
  <2> HIDE DEF n
  <2> QED BY <1>2, <2>1 DEF Marked
<1>4. PICK r \in Cells, x \in Int :
         p = Marks(r, x, "do") /\ x = p[n - 1][2] /\ Len(r) = n - 2 /\ \A i \in 1..n - 2 : r[i] = p[i]
  <2>1. n > 1 /\ p[n - 1][1] = "address" /\ n = Len(p)
    BY <1>1, <1>3 DEF Under
  <2>2. p \in Cells /\ p[n] = Tag("do")
    BY <1>1
  <2> HIDE DEF n
  <2> QED BY <2>1, <2>2, TwoOff
<1> DEFINE k == n - 2
<1>5. k \in 1..n /\ k \in 1..k /\ k \in Nat \ {0} /\ p[k] = Tag("leave")
  BY <1>1, <1>3
<1>6. Marked(c, T, p, k)
  BY <1>5 DEF Stacked
<1> HIDE DEF k
<1>7. Under(p, k, "address") /\ Fixup(c, T, p[k - 1][2], Dos, Looped(l, LoopsBelow(p, k)))
  <2>1. /\ p[k] # Tag("colon") /\ p[k] # Tag("origin") /\ p[k] # Tag("target") /\ p[k] # Tag("do") /\ p[k] # Tag("case")
        /\ p[k] # Tag("of") /\ p[k] # Tag("fallthrough") /\ p[k][1] \notin {"address", "count"}
    BY <1>5 DEF Tag
  <2> QED BY <1>6, <2>1 DEF Marked
<1>8. PICK q \in Cells, y \in Int :
         r = Marks(q, y, "leave") /\ y = r[k - 1][2] /\ Len(q) = k - 2 /\ \A i \in 1..k - 2 : q[i] = r[i]
  <2>1. k > 1 /\ k - 1 \in 1..k
    BY <1>5, <1>7 DEF Under
  <2>2. k = Len(r) /\ r[k] = p[k] /\ r[k - 1] = p[k - 1]
    BY <1>4, <1>5, <2>1 DEF k
  <2>3. r[k] = Tag("leave") /\ r[k - 1][1] = "address"
    BY <1>5, <1>7, <2>2 DEF Under
  <2>4. r \in Cells /\ k = Len(r) /\ k > 1
    BY <1>4, <2>1, <2>2
  <2> HIDE DEF n
  <2> QED BY <2>3, <2>4, TwoOff, SMTT(40)
<1>9. y = p[k - 1][2]
  <2>1. k - 1 \in 1..k
    BY <1>5, <1>7 DEF Under
  <2>2. r[k - 1] = p[k - 1]
    BY <1>4, <2>1 DEF k
  <2> QED BY <1>8, <2>2
<1>10. p = DoMarks(q, y, x)
  BY <1>4, <1>8, Zenon DEF DoMarks
<1>11. /\ LoopsIn(p) = LoopsIn(q) + 1 /\ LoopsBelow(p, k) = LoopsIn(q) /\ LoopsBelow(p, n) = LoopsIn(q)
       /\ LoopsIn(q) \in Nat
  <2>1. /\ Len(p) = Len(q) + 4 /\ LoopsIn(p) = LoopsIn(q) + 1 /\ Len(q) \in Nat
        /\ LoopsBelow(p, Len(q) + 2) = LoopsIn(q) /\ LoopsBelow(p, Len(q) + 4) = LoopsIn(q)
    BY <1>10, DoMarksFacts
  <2>2. k = Len(q) + 2 /\ n = Len(q) + 4
    BY <2>1 DEF k
  <2>3. LoopsIn(q) \in Nat
    <3>1. Len(q) + 1 \in Nat
      BY <2>1
    <3> QED BY <3>1, LoopsBelowNat DEF LoopsIn
  <2> HIDE DEF n
  <2> QED BY <2>1, <2>2, <2>3
<1>12. l.loops > 0 /\ LoopsIn(q) = l.loops - 1
  BY <1>1, <1>11
<1>13. Looped(Looped(l, LoopsBelow(p, n)), Looped(l, LoopsBelow(p, n)).loops + 1) = l
  <2> DEFINE j == LoopsBelow(p, n)
  <2>1. j \in Nat /\ j + 1 = l.loops
    BY <1>1, <1>11
  <2> HIDE DEF j
  <2>2. Looped(l, j).loops = j /\ Looped(Looped(l, j), l.loops) = Looped(l, l.loops) /\ Looped(l, l.loops) = l
    BY <1>1, <2>1, LoopedLayout
  <2> QED BY <2>1, <2>2 DEF j
<1>14. At(c, T, x, l)
  BY <1>3, <1>4, <1>13
<1>15. Fixup(c, T, y, Dos, Looped(l, l.loops - 1))
  BY <1>7, <1>9, <1>11, <1>12
<1> QED BY <1>10, <1>12, <1>14, <1>15

\* The operand of DO gets the address of the next cell.
LEMMA AbsIs ==
    ASSUME NEW c \in Cells, NEW v, NEW q \in Cells, NEW y \in Int, NEW p, p = Marks(q, y, "leave")
    PROVE  ResolveAbsBranch(Def(c, p, v)) = Def([c EXCEPT ![y] = Operand(Len(c) + 1)], q, v)
<1> DEFINE r == Append(q, Address(y))
           d == Def(c, p, v)
<1>0. "leave" \in Tags
  BY DEF Tags
<1>1. /\ Len(p) = Len(q) + 2 /\ Len(q) \in Nat /\ Front(p) = r /\ Last(r) = Address(y) /\ Front(r) = q
  BY <1>0, MarksFacts
<1>2. Ok(d) /\ d.control = p
  BY DefFields
<1>3. ~(~Ok(d) \/ Len(d.control) < 2)
  BY <1>1, <1>2
<1> HIDE DEF r
<1>4. Pop(d) = Def(c, r, v)
  BY <1>1, DefPop
<1> HIDE DEF d
<1>5. Pop(Def(c, r, v)) = Def(c, q, v) /\ TopAddress(Def(c, r, v)) = y /\ HereOf(Def(c, r, v)) = Len(c) + 1
  BY <1>1, DefPop, DefReads DEF Address
<1>6. PatchTo(Def(c, q, v), y, Len(c) + 1) = Def([c EXCEPT ![y] = Operand(Len(c) + 1)], q, v)
  BY DefPatchTo
<1>7. ResolveAbsBranch(d) = PatchTo(Def(c, q, v), y, Len(c) + 1)
  BY <1>3, <1>4, <1>5 DEF ResolveAbsBranch
<1> QED BY <1>6, <1>7 DEF d

\* LOOP without DO throws.
LEMMA LoopFails ==
    ASSUME NEW c, NEW p, NEW v, NEW w, ~(p # << >> /\ Last(p) = Tag("do"))
    PROVE  ~Ok(Loop(Def(c, p, v), w))
<1> DEFINE d == Def(Append(c, Instr(w)), p, v)
<1>1. ResolveBackBranch(Emit(Def(c, p, v), Instr(w)), "do") = Fail(d)
  BY BackFails
<1> HIDE DEF d
<1>2. ~Ok(Fail(d)) /\ ~Ok(Fail(Fail(d)))
  BY FailedTwice DEF d
<1>3. ResolveAbsBranch(Fail(d)) = Fail(Fail(d))
  BY <1>2 DEF ResolveAbsBranch
<1> QED BY <1>1, <1>2, <1>3 DEF Loop

\* What is known where LOOP fills in the operand of DO: only that operand changes.
LeaveKnown(d, s, v, U, X, m, y, e, Y) ==
    /\ Flows(d, s, v, U, X) /\ Len(U) = Len(d) + 1 /\ v.count \in Nat
    /\ U[Len(U)] = m /\ y \in Int /\ Fixup(d, U, y, Dos, m)
    /\ e \in Cells /\ Len(e) = Len(d) /\ e[y] = Operand(Len(d) + 1) /\ \A b \in 1..Len(d) : b # y => e[b] = d[b]
    /\ \A z \in X : z \in Y \/ z = y

(* The operand of DO gets the address after its LOOP. *)
LEMMA LeaveResolved ==
    ASSUME NEW d, NEW s, NEW v, NEW U, NEW X, NEW m, NEW y, NEW e, NEW Y, LeaveKnown(d, s, v, U, X, m, y, e, Y)
    PROVE  Flows(e, s, v, U, Y) /\ Extends(d, U, e, U)
<1> DEFINE F == {y}
           N == Branches \cup Dos
<1>1. d \in Cells /\ Len(d) \in Nat /\ y \in 1..Len(d) /\ y - 1 \in 1..Len(d) /\ (y - 1) + 1 = y /\ d[y - 1][1] \in Dos
      /\ U[y - 1] = m
  BY FlowsFacts DEF Fixup, LeaveKnown
<1>2. e \in Cells /\ Len(e) = Len(d) /\ e[y] = Operand(Len(d) + 1) /\ \A b \in 1..Len(d) : b # y => e[b] = d[b]
  BY DEF LeaveKnown
<1>3. Jumped(e, U, y - 1)
  <2>1. e[y - 1] = d[y - 1]
    BY <1>1, <1>2
  <2>2. e[y - 1][1] \notin Branches \cup Loopings
    BY <1>1, <2>1 DEF Branches, Loopings, Dos
  <2>3. e[(y - 1) + 1][2] = Len(d) + 1
    BY <1>1, <1>2 DEF Operand
  <2>4. At(e, U, Len(d) + 1, U[y - 1])
    BY <1>1, <1>2 DEF At, IsPlace, LeaveKnown
  <2> QED BY <2>2, <2>3, <2>4 DEF Jumped
<1>4. e[y][1] = "operand"
  BY <1>2 DEF Operand
<1>5. \A x \in F : Fixup(d, U, x, N, U[x - 1])
  BY DEF Fixup, LeaveKnown
<1>6. \A x \in F : e[x][1] = "operand" /\ Jumped(e, U, x - 1)
  BY <1>3, <1>4
<1>7. (\A b \in 1..Len(d) : b \notin F => e[b] = d[b]) /\ \A x \in X : x \in Y \/ x \in F
  BY <1>2 DEF LeaveKnown
<1> HIDE DEF F
<1>8. Flows(d, s, v, U, X) /\ Len(U) = Len(d) + 1 /\ v.count \in Nat
  BY DEF LeaveKnown
<1> QED BY <1>2, <1>5, <1>6, <1>7, <1>8, FlowsPatched

\* LOOP and +LOOP: back into the loop, and its LEAVE goes to the place after it.
LEMMA LoopFits ==
    ASSUME NEW c, NEW s, NEW v, NEW p, NEW T, Body(c, s, v, p, T), NEW w \in Loopings
    PROVE  Fits(Loop(Def(c, p, v), w), s)
<1> DEFINE l == T[Len(T)]
           m == Looped(l, l.loops - 1)
<1>1. /\ Flows(c, s, v, T, Open(p)) /\ Len(T) = Len(c) + 1 /\ Stacked(c, v, p, T) /\ Roomy(c, v, l)
      /\ Extends(c, T, c, T) /\ v.count \in Nat /\ c \in Cells /\ Len(c) \in Nat /\ l \in Layouts /\ l = T[Len(T)]
  BY BodyParts
<1>2. w \in Names /\ w \in Branches \cup Loopings
  BY DEF Names, Loopings
<1>3. CASE ~(p # << >> /\ Last(p) = Tag("do"))
  BY <1>3, LoopFails DEF Fits
<1>4. CASE p # << >> /\ Last(p) = Tag("do")
  <2>1. PICK q \in Cells, x \in Int, y \in Int :
           /\ p = DoMarks(q, y, x) /\ At(c, T, x, l) /\ Fixup(c, T, y, Dos, m)
           /\ l.loops > 0 /\ LoopsIn(q) = l.loops - 1
    BY <1>1, <1>4, DoTop
  <2> DEFINE X == Open(p)
             r == Marks(q, y, "leave")
             R == Open(r)
             Y == Open(q)
             d == Jump(c, w, x - (Len(c) + 2))
             e == [d EXCEPT ![y] = Operand(Len(d) + 1)]
  <2>2. r \in Cells /\ p = Marks(r, x, "do") /\ \A z \in R : z \in Y \/ z = y
    <3>1. "leave" \in Tags
      BY DEF Tags
    <3> QED BY <2>1, <3>1, MarksFacts DEF DoMarks
  <2>3. (\A z \in X : z \in R \/ z = x) /\ Len(p) \in Nat /\ Len(q) \in Nat /\ Len(q) <= Len(p) /\ \A j \in 1..Len(q) : q[j] = p[j]
    <3>1. "do" \in Tags \cup {"do"}
      OBVIOUS
    <3>2. Open(p) = Open(r) \cup {x}
      BY <2>2, <3>1, MarksFacts
    <3>3. Len(p) = Len(q) + 4 /\ Len(q) \in Nat /\ \A j \in 1..Len(q) : p[j] = q[j]
      BY <2>1, DoMarksFacts
    <3> HIDE DEF r
    <3> QED BY <3>2, <3>3
  <2> HIDE DEF X, R, Y, r
  <2>4. Flows(c, s, v, T, R)
    <3>1. x - 1 \in 1..Len(c) /\ IsPlace(c, x - 1) => Jumped(c, T, x - 1)
      BY <1>1, <2>1, TargetClosed
    <3>2. Flows(c, s, v, T, X)
      BY <1>1 DEF X
    <3> QED BY <2>3, <3>1, <3>2, FlowsClosed
  <2>5. m \in Layouts /\ Passes(w, l, m)
    <3>1. l.loops - 1 \in Nat
      BY <1>1, <2>1 DEF Layouts
    <3>2. Looped(l, l.loops - 1) \in Layouts
      BY <1>1, <3>1, LoopedLayout
    <3> HIDE DEF l
    <3> QED BY <2>1, <3>2 DEF Passes, m
  <2>6. PICK U : Flows(d, s, v, U, R) /\ Extends(c, T, d, U) /\ Len(U) = Len(d) + 1 /\ U[Len(U)] = m
    <3> HIDE DEF l, m
    <3>1. T[Len(T)] = l
      BY <1>1
    <3> QED BY <1>1, <1>2, <2>1, <2>4, <2>5, <3>1, FlowsBack
  <2>7. ResolveBackBranch(Emit(Def(c, p, v), Instr(w)), "do") = Def(d, r, v)
    <3>1. "do" \in Tags \cup {"do"}
      OBVIOUS
    <3> QED BY <1>1, <1>2, <2>1, <2>2, <3>1, BackIs
  <2>8. ResolveAbsBranch(Def(d, r, v)) = Def(e, q, v)
    <3>1. d \in Cells
      BY <2>6, FlowsFacts
    <3> HIDE DEF d
    <3> QED BY <2>1, <3>1, AbsIs DEF r
  <2> HIDE DEF d
  <2>9. Fixup(d, U, y, Dos, m)
    <3> HIDE DEF m
    <3> QED BY <2>1, <2>6, FixupKept
  <2>10. Flows(e, s, v, U, Y) /\ Extends(d, U, e, U)
    <3>1. d \in Cells /\ y \in 1..Len(d) /\ Len(d) + 1 \in Int
      <4>1. d \in Cells /\ Len(d) \in Nat
        BY <2>6, FlowsFacts
      <4> QED BY <2>9, <4>1 DEF Fixup
    <3>2. e \in Cells /\ Len(e) = Len(d) /\ e[y] = Operand(Len(d) + 1) /\ \A b \in 1..Len(d) : b # y => e[b] = d[b]
      BY <3>1, ExceptCell
    <3> HIDE DEF l, m, e
    <3>3. /\ Flows(d, s, v, U, R) /\ Len(U) = Len(d) + 1 /\ U[Len(U)] = m
          /\ v.count \in Nat /\ y \in Int /\ \A z \in R : z \in Y \/ z = y
      BY <1>1, <2>1, <2>2, <2>6
    <3>4. e \in Cells /\ Len(e) = Len(d) /\ e[y] = Operand(Len(d) + 1) /\ \A b \in 1..Len(d) : b # y => e[b] = d[b]
      BY <3>2
    <3>5. LeaveKnown(d, s, v, U, R, m, y, e, Y)
      BY <2>9, <3>3, <3>4 DEF LeaveKnown
    <3> QED BY <3>5, LeaveResolved
  <2>11. Len(e) = Len(d)
    BY <2>10, FlowsFacts, <2>6 DEF Extends, Cells
  <2> HIDE DEF e
  <2>12. Stacked(e, v, q, U)
    <3>1. Extends(c, T, e, U)
      BY <2>6, <2>10, ExtendsTransitive
    <3>2. U[Len(U)] = Looped(T[Len(T)], LoopsIn(q))
      BY <1>1, <2>1, <2>6
    <3>3. Len(q) \in 0..Len(p) /\ Len(q) <= Len(q) /\ \A i \in Len(q) + 1..Len(q) : FALSE
      BY <2>3
    <3> HIDE DEF l, m
    <3> QED BY <1>1, <2>1, <2>3, <3>1, <3>2, <3>3, Restacked
  <2>13. Body(e, s, v, q, U)
    BY <2>6, <2>10, <2>11, <2>12, BodyOf DEF Y
  <2> QED BY <2>7, <2>8, <2>13, FitsDef DEF Loop
<1> QED BY <1>3, <1>4

\* IF.
LEMMA IfWordFits ==
    ASSUME NEW c, NEW s, NEW v, NEW p, NEW T, Body(c, s, v, p, T)
    PROVE  Fits(If(Def(c, p, v)), s)
<1>1. OpensWith("branch0Check", "origin") /\ 1 \in Int
  BY DEF OpensWith
<1> QED BY <1>1, IfFits DEF If

\* A word that declares a local.
LEMMA DeclareWordGood ==
    ASSUME NEW c, NEW s, NEW v, NEW p, NEW T, Body(c, s, v, p, T), NEW kind \in Kinds, Outside(p),
           NEW k \in DOMAIN s, \A a \in Nat : Len(c) + 1 <= a => WordAt(s, k, a), s[k].local = Len(v.words) + 1,
           Ok(Declare(Def(c, p, v), kind))
    PROVE  Good(Declare(Def(c, p, v), kind), s)
<1>1. ~(v.count >= MaxLocals)
  <2> SUFFICES ASSUME v.count >= MaxLocals PROVE FALSE
    OBVIOUS
  <2>1. Def(c, p, v).locals.count = v.count
    BY DefFields
  <2>2. Declare(Def(c, p, v), kind) = Fail(Def(c, p, v))
    BY <2>1 DEF Declare, DeclareUpTo
  <2> QED BY <2>2, DefFail
<1> QED BY <1>1, DeclareGood

\* The name of a local, and TO with one.
LEMMA AccessWordGood ==
    ASSUME NEW c, NEW s, NEW v, NEW p, NEW T, Body(c, s, v, p, T), NEW n \in 1..Len(v.words),
           NEW k \in DOMAIN s, \A a \in Nat : Len(c) + 1 <= a => WordAt(s, k, a), s[k].local = n
    PROVE  Good(GetLocal(Def(c, p, v), v.words[n]), s) /\ Good(ToLocal(Def(c, p, v), v.words[n]), s)
<1>1. GetNames \in {GetNames, ToNames} /\ ToNames \in {GetNames, ToNames}
  OBVIOUS
<1>2. Good(Access(Def(c, p, v), GetNames, v.words[n]), s) /\ Good(Access(Def(c, p, v), ToNames, v.words[n]), s)
  BY <1>1, AccessCells
<1> QED BY <1>2 DEF GetLocal, ToLocal, GetNames, ToNames

-----------------------------------------------------------------------------
(* Every word, by the rules of use.                                        *)

(* The rules of use, for word w with argument n.                             *)
UsedRight(w, n, c, v, p) ==
    /\ w = "while" => Last(p) = Tag("target")
    /\ w \in Kinds => Outside(p)
    /\ w = "does>" => /\ Outside(p)
                      /\ v.words # << >> => v.fixup \in DOMAIN c /\ c[v.fixup] = Operand(v.count)
    /\ w \in {"leave", "i"} => LoopsIn(p) > 0
    /\ w = "exit" => LoopsIn(p) = 0
    /\ w = "sliteral" => n \in Nat /\ n < CountBytes
    /\ w \in {"get", "to"} => n \in 1..Len(v.words)

\* Every word used by the rules leaves a good definition, or throws.
LEMMA CompiledGood ==
    ASSUME NEW c, NEW s, NEW v, NEW p, NEW T, Body(c, s, v, p, T), NEW w \in Words, NEW n \in Int,
           UsedRight(w, n, c, v, p),
           NEW k \in DOMAIN s, \A a \in Nat : Len(c) + 1 <= a => WordAt(s, k, a),
           w \in {"get", "to"} => s[k].local = n,
           w \in Kinds => s[k].local = Len(v.words) + 1,
           Ok(Compiled(w, Def(c, p, v), n))
    PROVE  Good(Compiled(w, Def(c, p, v), n), s)
<1> DEFINE D == Def(c, p, v)
<1>0. D.locals.words = v.words
  BY DefFields
<1> HIDE DEF D
<1>1. CASE w = "plain"
  <2>1. Compiled(w, D, n) = Emit(D, Instr("plain"))
    BY <1>1 DEF Compiled
  <2> HIDE DEF D
  <2> QED BY <1>1, <2>1, OneCell DEF D, UsedRight
<1>2. CASE w = "i"
  <2>1. Compiled(w, D, n) = Emit(D, Instr("i"))
    BY <1>2 DEF Compiled
  <2> HIDE DEF D
  <2> QED BY <1>2, <2>1, OneCell DEF D, UsedRight, LoopsIn
<1>3. CASE w = "leave"
  <2>1. Compiled(w, D, n) = Emit(D, Instr("leave"))
    BY <1>3 DEF Compiled
  <2> HIDE DEF D
  <2> QED BY <1>3, <2>1, OneCell DEF D, UsedRight, LoopsIn
<1>4. CASE w = "literal"
  <2>1. Compiled(w, D, n) = Emits(D, Literal(n))
    BY <1>4 DEF Compiled
  <2> HIDE DEF D
  <2> QED BY <1>4, <2>1, LiteralCells DEF D, UsedRight
<1>5. CASE w = "2literal"
  <2>1. Compiled(w, D, n) = Emits(D, <<Instr("2literal"), Operand(n), Operand(n)>>)
    BY <1>5 DEF Compiled
  <2> HIDE DEF D
  <2> QED BY <1>5, <2>1, TwoLiteralCells DEF D, UsedRight
<1>6. CASE w = "sliteral"
  <2>1. Compiled(w, D, n) = StringLiteral(D, n)
    BY <1>6 DEF Compiled
  <2> HIDE DEF D
  <2> QED BY <1>6, <2>1, StringCells DEF D, UsedRight
<1>7. CASE w = "if"
  <2>1. Compiled(w, D, n) = If(D)
    BY <1>7 DEF Compiled
  <2> HIDE DEF D
  <2> QED BY <1>7, <2>1, IfWordFits, FitsGood DEF D, UsedRight
<1>8. CASE w = "else"
  <2>1. Compiled(w, D, n) = Else(D)
    BY <1>8 DEF Compiled
  <2> HIDE DEF D
  <2> QED BY <1>8, <2>1, ElseFits, FitsGood DEF D, UsedRight
<1>9. CASE w = "then"
  <2>1. Compiled(w, D, n) = Endif(D)
    BY <1>9 DEF Compiled
  <2> HIDE DEF D
  <2> QED BY <1>9, <2>1, EndifFits, FitsGood DEF D, UsedRight
<1>10. CASE w = "begin"
  <2>1. Compiled(w, D, n) = Begin(D)
    BY <1>10 DEF Compiled
  <2> HIDE DEF D
  <2> QED BY <1>10, <2>1, BeginFits, FitsGood DEF D, UsedRight
<1>11. CASE w = "until"
  <2>1. Compiled(w, D, n) = Until(D)
    BY <1>11 DEF Compiled
  <2> HIDE DEF D
  <2> QED BY <1>11, <2>1, UntilFits, FitsGood DEF D, UsedRight
<1>12. CASE w = "while"
  <2>1. Compiled(w, D, n) = While(D)
    BY <1>12 DEF Compiled
  <2> HIDE DEF D
  <2> QED BY <1>12, <2>1, WhileFits, FitsGood DEF D, UsedRight
<1>13. CASE w = "repeat"
  <2>1. Compiled(w, D, n) = Repeat(D)
    BY <1>13 DEF Compiled
  <2> HIDE DEF D
  <2> QED BY <1>13, <2>1, RepeatFits, FitsGood DEF D, UsedRight
<1>14. CASE w = "again"
  <2>1. Compiled(w, D, n) = Again(D)
    BY <1>14 DEF Compiled
  <2> HIDE DEF D
  <2> QED BY <1>14, <2>1, UntilFits, FitsGood DEF D, UsedRight
<1>15. CASE w \in Dos
  <2>1. Compiled(w, D, n) = Do(D, w)
    BY <1>15 DEF Compiled, Dos
  <2> HIDE DEF D
  <2> QED BY <1>15, <2>1, DoFits, FitsGood DEF D, UsedRight
<1>16. CASE w \in Loopings
  <2>1. Compiled(w, D, n) = Loop(D, w)
    BY <1>16 DEF Compiled, Loopings
  <2> HIDE DEF D
  <2> QED BY <1>16, <2>1, LoopFits, FitsGood DEF D, UsedRight
<1>17. CASE w = "unloop exit"
  <2>1. Compiled(w, D, n) = Exit(Emits(D, Unloops(Loops(D))))
    BY <1>17 DEF Compiled, Unloops
  <2> HIDE DEF D
  <2> QED BY <1>17, <2>1, UnloopExitGood DEF D, UsedRight
<1>18. CASE w = "case"
  <2>1. Compiled(w, D, n) = Case(D)
    BY <1>18 DEF Compiled
  <2> HIDE DEF D
  <2> QED BY <1>18, <2>1, CaseFits, FitsGood DEF D, UsedRight
<1>19. CASE w = "of"
  <2>1. Compiled(w, D, n) = Of(D)
    BY <1>19 DEF Compiled
  <2> HIDE DEF D
  <2> QED BY <1>19, <2>1, OfFits, FitsGood DEF D, UsedRight
<1>20. CASE w = "endof"
  <2>1. Compiled(w, D, n) = Endof(D)
    BY <1>20 DEF Compiled
  <2> HIDE DEF D
  <2> QED BY <1>20, <2>1, EndofFits, FitsGood DEF D, UsedRight
<1>21. CASE w = "fallthrough"
  <2>1. Compiled(w, D, n) = Fallthrough(D)
    BY <1>21 DEF Compiled
  <2> HIDE DEF D
  <2> QED BY <1>21, <2>1, FallthroughFits, FitsGood DEF D, UsedRight
<1>22. CASE w = "endcase"
  <2>1. Compiled(w, D, n) = Endcase(D)
    BY <1>22 DEF Compiled
  <2> HIDE DEF D
  <2> QED BY <1>22, <2>1, EndcaseFits, FitsGood DEF D, UsedRight
<1>23. CASE w = "exit"
  <2>1. Compiled(w, D, n) = Exit(D)
    BY <1>23 DEF Compiled
  <2> HIDE DEF D
  <2> QED BY <1>23, <2>1, ExitGood DEF D, UsedRight, LoopsIn
<1>24. CASE w = "recurse"
  <2>1. Compiled(w, D, n) = Emit(D, Instr("call"))
    BY <1>24 DEF Compiled
  <2> HIDE DEF D
  <2> QED BY <1>24, <2>1, OneCell DEF D, UsedRight
<1>25. CASE w = "does>"
  <2>1. Compiled(w, D, n) = Does(D)
    BY <1>25 DEF Compiled
  <2> HIDE DEF D
  <2> QED BY <1>25, <2>1, DoesGood DEF D, UsedRight
<1>26. CASE w \in Kinds
  <2>1. Compiled(w, D, n) = Declare(D, w)
    BY <1>26 DEF Compiled, Kinds
  <2> HIDE DEF D
  <2> QED BY <1>26, <2>1, DeclareWordGood DEF D, UsedRight
<1>27. CASE w = "endlocals"
  <2>1. Compiled(w, D, n) = EndLocals(D)
    BY <1>27 DEF Compiled
  <2> HIDE DEF D
  <2> QED BY <1>27, <2>1, EndLocalsGood DEF D, UsedRight
<1>28. CASE w = "get"
  <2>1. Compiled(w, D, n) = GetLocal(D, v.words[n])
    BY <1>28, <1>0 DEF Compiled
  <2> HIDE DEF D
  <2> QED BY <1>28, <2>1, AccessWordGood DEF D, UsedRight
<1>29. CASE w = "to"
  <2>1. Compiled(w, D, n) = ToLocal(D, v.words[n])
    BY <1>29, <1>0 DEF Compiled
  <2> HIDE DEF D
  <2> QED BY <1>29, <2>1, AccessWordGood DEF D, UsedRight
<1> QED BY <1>1, <1>2, <1>3, <1>4, <1>5, <1>6, <1>7, <1>8, <1>9, <1>10, <1>11, <1>12, <1>13, <1>14,
       <1>15, <1>16, <1>17, <1>18, <1>19, <1>20, <1>21, <1>22, <1>23, <1>24, <1>25, <1>26, <1>27,
       <1>28, <1>29 DEF Words, Dos, Loopings, Kinds

-----------------------------------------------------------------------------
(* The actions that write definitions.                                     *)

\* The definition that is being written has not thrown.
LEMMA DefinitionIs ==
    definition = Def(code, control, locals)
BY DEF definition, Def, NoError

\* The locals of a definition, and the locals there are when it ends.
LEMMA BodyLocals ==
    ASSUME NEW c, NEW s, NEW v, NEW p, NEW T, Body(c, s, v, p, T)
    PROVE  v \in LocalsRecords /\ NoLocals(v).words = << >> /\ [v EXCEPT !.words = << >>] \in LocalsRecords
           /\ [v EXCEPT !.words = << >>].words = << >>
<1> DEFINE S == Seq([offset : Nat, kind : {"local", "2local", "flocal"}])
<1>1. v \in [words : S, count : Nat, fixup : Nat]
  BY DEF Body, LocalsFit
<1>2. << >> \in S
  OBVIOUS
<1> HIDE DEF S
<1>3. [v EXCEPT !.words = << >>] \in [words : S, count : Nat, fixup : Nat] /\ [v EXCEPT !.words = << >>].words = << >>
  BY <1>1, <1>2
<1>4. NoLocals(v).words = << >>
  BY <1>1 DEF NoLocals
<1> QED BY <1>1, <1>3, <1>4 DEF LocalsRecords, Records, S

\* A definition in which a word throws is given up.
LEMMA ErrorStatic ==
    ASSUME StaticInv, mode = "compile", ErrorExit
    PROVE  StaticInv'
<1>1. PICK T : Body(code, source, locals, control, T)
  BY DEF StaticInv, CompileInv
<1>2. locals' \in LocalsRecords /\ locals'.words = << >>
  BY <1>1, BodyLocals DEF ErrorExit
<1>3. mode' = "idle" /\ code' = << >> /\ source' = << >> /\ family' = family
  BY DEF ErrorExit
<1> QED BY <1>2, <1>3 DEF StaticInv, IdleInv, CompileInv, ReadyInv

(* A definition with no words yet. *)
LEMMA BodyEmpty ==
    ASSUME NEW v \in LocalsRecords, v.words = << >>, v.count = 0, NEW p,
           p = <<Tag("colon")>> \/ p = <<Count(0), Tag("colon")>>
    PROVE  Body(<< >>, << >>, v, p, <<Bare>>)
<1> DEFINE T == <<Bare>>
<1>1. Len(T) = 1 /\ T[1] = Bare /\ T[Len(T)] = Bare /\ T \in Seq(Layouts) /\ Bare \in Layouts
  <2>1. Bare \in Layouts
    BY BareRoomy
  <2> QED BY <2>1
<1> HIDE DEF T
<1>2. << >> \in Cells /\ Len(<< >>) = 0
  BY DEF Cells
<1>3. At(<< >>, T, 1, Bare)
  BY <1>1, <1>2 DEF At, IsPlace
<1>4. Started(<< >>, 1)
  BY DEF Started
<1>5. Flows(<< >>, << >>, v, T, Open(p))
  BY <1>1, <1>2, <1>3, <1>4 DEF Flows
<1>6. LocalsFit(<< >>, v, T[Len(T)])
  <2>1. v \in [words : Seq([offset : Nat, kind : {"local", "2local", "flocal"}]), count : Nat, fixup : Nat]
    BY DEF LocalsRecords, Records
  <2>2. Len(T[Len(T)].slots) = 0 /\ T[Len(T)].link = 0
    BY <1>1 DEF Bare
  <2>3. Len(v.words) = 0
    OBVIOUS
  <2> QED BY <2>1, <2>2, <2>3 DEF LocalsFit
<1>7. Tag("colon") \in Names \X Int /\ Count(0) \in Names \X Int
  BY DEF Tag, Count, Names
<1>8. p \in Cells /\ (\A i \in 1..Len(p) : Marked(<< >>, T, p, i)) /\ \A i \in 1..Len(p) : p[i] # Tag("do")
  <2>1. CASE p = <<Tag("colon")>>
    <3>1. Len(p) = 1 /\ p[1] = Tag("colon") /\ p \in Cells
      BY <2>1, <1>7 DEF Cells
    <3>2. Marked(<< >>, T, p, 1)
      BY <3>1 DEF Marked
    <3>3. Tag("colon") # Tag("do")
      BY DEF Tag
    <3> QED BY <3>1, <3>2, <3>3
  <2>2. CASE p = <<Count(0), Tag("colon")>>
    <3>1. Len(p) = 2 /\ p[1] = Count(0) /\ p[2] = Tag("colon") /\ p \in Cells
      BY <2>2, <1>7 DEF Cells
    <3>2. Marked(<< >>, T, p, 1) /\ Marked(<< >>, T, p, 2)
      BY <3>1 DEF Marked, Count
    <3>3. Tag("colon") # Tag("do") /\ Count(0) # Tag("do")
      BY DEF Tag, Count
    <3> QED BY <3>1, <3>2, <3>3
  <2> QED BY <2>1, <2>2
<1>9. LoopsBelow(p, Len(p) + 1) = 0
  <2>1. Len(p) \in Nat
    BY <1>8 DEF Cells
  <2>2. {j \in 1..(Len(p) + 1) - 1 : p[j] = Tag("do")} = {}
    BY <1>8, <2>1
  <2> QED BY <2>2, FS_EmptySet DEF LoopsBelow
<1>10. T[Len(T)].loops = 0
  BY <1>1 DEF Bare
<1> QED BY <1>1, <1>2, <1>5, <1>6, <1>8, <1>9, <1>10 DEF Body, T

\* The mark of : on an empty stack, and on one cell.
LEMMA ColonMarks ==
    ASSUME NEW x, NEW y
    PROVE  << >> \o <<x>> = <<x>> /\ <<y>> \o <<x>> = <<y, x>>
<1> DEFINE S == {x, y}
           a == << >> \o <<x>>
           b == <<y>> \o <<x>>
<1>1. << >> \in Seq(S) /\ <<x>> \in Seq(S) /\ <<y>> \in Seq(S) /\ <<y, x>> \in Seq(S)
      /\ Len(<<x>>) = 1 /\ Len(<<y>>) = 1 /\ Len(<<y, x>>) = 2 /\ Len(<< >>) = 0
      /\ <<x>>[1] = x /\ <<y>>[1] = y /\ <<y, x>>[1] = y /\ <<y, x>>[2] = x
  OBVIOUS
<1> HIDE DEF S
<1>2. a \in Seq(S) /\ Len(a) = 1 /\ a[1] = x
  <2>1. /\ a \in Seq(S) /\ Len(a) = Len(<< >>) + Len(<<x>>)
        /\ \A i \in 1..Len(<< >>) + Len(<<x>>) : a[i] = IF i <= Len(<< >>) THEN << >>[i] ELSE <<x>>[i - Len(<< >>)]
    BY <1>1, ConcatIs DEF Concat
  <2> HIDE DEF a
  <2> QED BY <1>1, <2>1
<1>3. b \in Seq(S) /\ Len(b) = 2 /\ b[1] = y /\ b[2] = x
  <2>1. /\ b \in Seq(S) /\ Len(b) = Len(<<y>>) + Len(<<x>>)
        /\ \A i \in 1..Len(<<y>>) + Len(<<x>>) : b[i] = IF i <= Len(<<y>>) THEN <<y>>[i] ELSE <<x>>[i - Len(<<y>>)]
    BY <1>1, ConcatIs DEF Concat
  <2> HIDE DEF b
  <2> QED BY <1>1, <2>1
<1> HIDE DEF a, b
<1>4. a = <<x>>
  <2>1. \A i \in 1..Len(a) : a[i] = <<x>>[i]
    BY <1>1, <1>2
  <2> QED BY <1>1, <1>2, <2>1, SeqEqual
<1>5. b = <<y, x>>
  <2>1. \A i \in 1..Len(b) : b[i] = <<y, x>>[i]
    BY <1>1, <1>3
  <2> QED BY <1>1, <1>3, <2>1, SeqEqual
<1> QED BY <1>4, <1>5 DEF a, b

\* A definition that begins with no locals.
LEMMA BegunStatic ==
    ASSUME StaticInv, NEW l \in LocalsRecords, l.words = << >>, l.count = 0, NEW cells, cells \in {<< >>, <<Count(0)>>},
           Begun(cells, l)
    PROVE  StaticInv'
<1>1. code = << >> /\ source = << >> /\ code' = code /\ source' = source /\ locals' = l /\ mode' = "compile" /\ family' = family
  BY DEF StaticInv, IdleInv, Begun
<1>2. control' = <<Tag("colon")>> \/ control' = <<Count(0), Tag("colon")>>
  <2>1. control' = cells \o <<Tag("colon")>>
    BY DEF Begun
  <2>2. CASE cells = << >>
    BY <2>1, <2>2, ColonMarks
  <2>3. CASE cells = <<Count(0)>>
    BY <2>1, <2>3, ColonMarks
  <2> QED BY <2>2, <2>3
<1>3. Body(<< >>, << >>, l, control', <<Bare>>)
  BY <1>2, BodyEmpty
<1> QED BY <1>1, <1>3 DEF StaticInv, IdleInv, CompileInv, ReadyInv

\* The words that begin a definition.
LEMMA ColonStatic ==
    ASSUME Careful, StaticInv, Colon \/ ColonNoName
    PROVE  StaticInv'
<1>1. locals \in LocalsRecords /\ locals.words = << >>
  BY DEF StaticInv, IdleInv, Colon, ColonNoName, Begun
<1> DEFINE l == [locals EXCEPT !.count = 0]
<1>2. l \in LocalsRecords /\ l.words = << >> /\ l.count = 0
  <2> DEFINE S == Seq([offset : Nat, kind : {"local", "2local", "flocal"}])
  <2>1. locals \in [words : S, count : Nat, fixup : Nat]
    BY <1>1 DEF LocalsRecords, Records
  <2> HIDE DEF S
  <2>2. l \in [words : S, count : Nat, fixup : Nat] /\ l.words = << >> /\ l.count = 0
    BY <1>1, <2>1
  <2> QED BY <2>2 DEF LocalsRecords, Records, S
<1>3. CASE Colon
  <2>1. Begun(<< >>, l)
    BY <1>3 DEF Colon
  <2> HIDE DEF l
  <2> QED BY <1>2, <2>1, BegunStatic
<1>4. CASE ColonNoName
  <2>1. locals.count = 0 /\ Begun(<<Count(0)>>, locals)
    BY <1>4 DEF ColonNoName, Keeps, Careful, AllObligations
  <2> QED BY <1>1, <2>1, BegunStatic
<1> QED BY <1>3, <1>4

\* The rules of use are all kept.
LEMMA KeepsAll ==
    ASSUME Careful, NEW rule \in AllObligations
    PROVE  Keeps(rule)
BY DEF Careful, Keeps

\* What the rules of use say of a word.
LEMMA UsedIs ==
    ASSUME Careful, NEW T, Body(code, source, locals, control, T), NEW w \in Words, NEW n \in Arguments(w), Used(w, n)
    PROVE  UsedRight(w, n, code, locals, control) /\ n \in Int /\ LocalOf(w, n) \in Nat
<1>1. Len(locals.words) \in Nat /\ DOMAIN locals.words = 1..Len(locals.words) /\ control \in Cells
  <2>1. locals \in [words : Seq([offset : Nat, kind : {"local", "2local", "flocal"}]), count : Nat, fixup : Nat]
    BY DEF Body, LocalsFit
  <2>2. locals.words \in Seq([offset : Nat, kind : {"local", "2local", "flocal"}])
    BY <2>1
  <2>3. control \in Cells
    BY BodyFacts
  <2> QED BY <2>2, <2>3
<1>2. n \in Int /\ (w = "sliteral" => n \in Nat) /\ (w \in {"get", "to"} => n \in 1..Len(locals.words))
  <2>1. CASE w = "literal"
    BY <2>1 DEF Arguments, Literals
  <2>2. CASE w = "sliteral"
    BY <2>2, StringsAssumption DEF Arguments
  <2>3. CASE w \in {"get", "to"}
    BY <2>3, <1>1 DEF Arguments
  <2>4. CASE w \notin {"literal", "sliteral", "get", "to"}
    BY <2>4 DEF Arguments
  <2> QED BY <2>1, <2>2, <2>3, <2>4
<1>3. LocalOf(w, n) \in Nat
  BY <1>1, <1>2 DEF LocalOf
<1>4. Loops(definition) = LoopsIn(control)
  BY <1>1, DefinitionIs, LoopsAre DEF LoopsIn
<1>5. \A rule \in AllObligations : Keeps(rule)
  BY KeepsAll
<1>6. w = "while" => Last(control) = Tag("target")
  BY <1>5 DEF Used, AllObligations
<1>7. w \in Kinds => Outside(control)
  BY <1>5 DEF Used, AllObligations, Kinds, OnlyColon, Outside
<1>8. w = "does>" => Outside(control) /\ LocalsEnded
  BY <1>5 DEF Used, AllObligations, OnlyColon, Outside
<1>9. w \in {"leave", "i"} => LoopsIn(control) > 0
  BY <1>5, <1>4 DEF Used, AllObligations
<1>10. w = "exit" => LoopsIn(control) = 0
  BY <1>5, <1>4 DEF Used, AllObligations
<1>11. w = "sliteral" => n < CountBytes
  BY <1>5 DEF Used, AllObligations
<1> QED BY <1>2, <1>3, <1>6, <1>7, <1>8, <1>9, <1>10, <1>11 DEF UsedRight, LocalsEnded

(* The source with one more word. *)
LEMMA BodySource ==
    ASSUME NEW c, NEW s, NEW v, NEW p, NEW T, Body(c, s, v, p, T), NEW r \in SourceWords, r.start = Len(c) + 1
    PROVE  /\ Body(c, Append(s, r), v, p, T)
           /\ Len(s) + 1 \in DOMAIN Append(s, r) /\ Append(s, r)[Len(s) + 1] = r
           /\ \A a \in Nat : Len(c) + 1 <= a => WordAt(Append(s, r), Len(s) + 1, a)
<1>1. Flows(c, s, v, T, Open(p)) /\ Len(c) \in Nat /\ Started(s, Len(c) + 1)
  BY FlowsFacts DEF Body, Flows
<1>2. Body(c, Append(s, r), v, p, T)
  BY <1>1, FlowsSource DEF Body
<1>3. Len(s) + 1 \in DOMAIN Append(s, r) /\ Append(s, r)[Len(s) + 1] = r
  BY <1>1 DEF Started
<1>4. \A a \in Nat : Len(c) + 1 <= a => WordAt(Append(s, r), Len(s) + 1, a)
  <2>1. Len(c) + 1 \in Nat
    BY <1>1
  <2> QED BY <1>1, <2>1, WordAtNew
<1> QED BY <1>2, <1>3, <1>4

\* A word of the source.
LEMMA SourceWord ==
    ASSUME NEW w \in Words, NEW a \in Nat, NEW n \in Nat, NEW r, r = [word |-> w, start |-> a, local |-> n]
    PROVE  r \in SourceWords /\ r.start = a /\ r.local = n
BY DEF SourceWords

\* A word that is compiled.
LEMMA WordStatic ==
    ASSUME Careful, StaticInv, NEW w \in Words, CompileWord(w)
    PROVE  StaticInv'
<1>1. mode = "compile"
  BY DEF CompileWord
<1>2. PICK T : Body(code, source, locals, control, T)
  BY <1>1 DEF StaticInv, CompileInv
<1>3. PICK n \in Arguments(w) :
         LET c == Compiled(w, definition, n) IN
          /\ Used(w, n)
          /\ IF ~Ok(c) THEN ErrorExit
             ELSE /\ source' = Append(source, [word |-> w, start |-> Len(code) + 1, local |-> LocalOf(w, n)])
                  /\ code' = c.code /\ control' = c.control /\ locals' = c.locals
                  /\ UNCHANGED <<family, mode, run>>
  BY DEF CompileWord
<1> DEFINE d == Compiled(w, definition, n)
           r == [word |-> w, start |-> Len(code) + 1, local |-> LocalOf(w, n)]
<1>4. CASE ~Ok(d)
  BY <1>1, <1>3, <1>4, ErrorStatic
<1>5. CASE Ok(d)
  <2>1. UsedRight(w, n, code, locals, control) /\ n \in Int /\ LocalOf(w, n) \in Nat
    BY <1>2, <1>3, UsedIs
  <2>2. Len(code) \in Nat
    BY <1>2, BodyFacts
  <2>3. r \in SourceWords /\ r.start = Len(code) + 1 /\ r.local = LocalOf(w, n)
    <3>1. Len(code) + 1 \in Nat
      BY <2>2
    <3> QED BY <2>1, <3>1, SourceWord
  <2>4. /\ source' = Append(source, r) /\ code' = d.code /\ control' = d.control /\ locals' = d.locals
        /\ family' = family /\ mode' = mode
    BY <1>3, <1>5
  <2>5. d = Compiled(w, Def(code, control, locals), n)
    BY DefinitionIs
  <2> HIDE DEF r, d
  <2> DEFINE u == Append(source, r)
             k == Len(source) + 1
  <2>6. /\ Body(code, u, locals, control, T) /\ k \in DOMAIN u /\ u[k] = r
        /\ \A a \in Nat : Len(code) + 1 <= a => WordAt(u, k, a)
    BY <1>2, <2>3, BodySource
  <2>7. (w \in {"get", "to"} => u[k].local = n) /\ (w \in Kinds => u[k].local = Len(locals.words) + 1)
    BY <2>3, <2>6 DEF LocalOf, Kinds
  <2> HIDE DEF u, k
  <2>8. Good(d, u)
    <3>1. Ok(Compiled(w, Def(code, control, locals), n))
      BY <1>5, <2>5
    <3>2. Good(Compiled(w, Def(code, control, locals), n), u)
      BY <2>1, <2>6, <2>7, <3>1, CompiledGood
    <3> QED BY <2>5, <3>2
  <2>9. \E V : Body(code', source', locals', control', V)
    BY <2>4, <2>8 DEF Good, u
  <2> QED BY <1>1, <2>4, <2>9 DEF StaticInv, IdleInv, CompileInv, ReadyInv
<1> QED BY <1>4, <1>5

\* The end of a definition: accepted, its jumps are all resolved and nothing is left
\* above the return address; else it is given up.
LEMMA SemicolonStatic ==
    ASSUME Careful, StaticInv, CompileSemicolon
    PROVE  StaticInv'
<1>1. mode = "compile" /\ Used(";", 0)
  BY DEF CompileSemicolon
<1>2. PICK T : Body(code, source, locals, control, T)
  BY <1>1 DEF StaticInv, CompileInv
<1> DEFINE d == Semicolon(definition)
           r == [word |-> ";", start |-> Len(code) + 1, local |-> 0]
<1>3. CASE ~Ok(d)
  BY <1>1, <1>3, ErrorStatic DEF CompileSemicolon
<1>4. CASE Ok(d)
  <2>1. LocalsEnded
    BY <1>1, KeepsAll DEF Used, AllObligations
  <2>2. Len(code) \in Nat
    BY <1>2, BodyFacts
  <2>3. r \in SourceWords /\ r.start = Len(code) + 1
    BY <2>2 DEF SourceWords
  <2>4. source' = Append(source, r) /\ code' = d.code /\ locals' = d.locals /\ family' = family /\ mode' = "ready"
    BY <1>4 DEF CompileSemicolon
  <2>5. d = Semicolon(Def(code, control, locals))
    BY DefinitionIs
  <2> HIDE DEF r, d
  <2> DEFINE u == Append(source, r)
  <2>6. Body(code, u, locals, control, T)
    BY <1>2, <2>3, BodySource
  <2> HIDE DEF u
  <2>7. \E U : Sealed(d.code, u, d.locals, U)
    <3>1. Ok(Semicolon(Def(code, control, locals)))
      BY <1>4, <2>5
    <3>2. locals.words # << >> => locals.fixup \in DOMAIN code /\ code[locals.fixup] = Operand(locals.count)
      BY <2>1 DEF LocalsEnded
    <3>3. \E U : Sealed(Semicolon(Def(code, control, locals)).code, u, Semicolon(Def(code, control, locals)).locals, U)
      BY <2>6, <3>1, <3>2, SemicolonSeals
    <3> QED BY <2>5, <3>3
  <2>8. \E U : Sealed(code', source', locals', U)
    BY <2>4, <2>7 DEF u
  <2> QED BY <2>4, <2>8 DEF StaticInv, IdleInv, CompileInv, ReadyInv
<1> QED BY <1>3, <1>4

-----------------------------------------------------------------------------
(* The optimiser.                                                          *)

\* A function iterated from one of its arguments.
LEMMA Iterated ==
    ASSUME NEW S, NEW a \in S, NEW g \in [S -> S]
    PROVE  \E f \in [Nat -> S] : \A k \in Nat : f[k] = IF k = 0 THEN a ELSE g[f[k - 1]]
BY IterationExists

\* The iteration stays in a set the function maps into itself.
LEMMA IterationIn ==
    ASSUME NEW S, NEW a \in S, NEW all, \A b \in S : all[b] \in S
    PROVE  /\ Iteration(a, all) \in [Nat -> S] /\ Iteration(a, all)[0] = a
           /\ \A n \in Nat : Iteration(a, all)[n + 1] = all[Iteration(a, all)[n]]
<1> DEFINE step == [b \in S |-> all[b]]
           hop == CHOOSE f : f = [n \in Nat |-> IF n = 0 THEN a ELSE all[f[n - 1]]]
<1>1. step \in [S -> S]
  OBVIOUS
<1>2. PICK f \in [Nat -> S] : \A k \in Nat : f[k] = IF k = 0 THEN a ELSE step[f[k - 1]]
  <2> HIDE DEF step, hop
  <2> QED BY <1>1, Iterated
<1>3. f = [n \in Nat |-> IF n = 0 THEN a ELSE all[f[n - 1]]]
  <2>1. \A n \in Nat : n # 0 => f[n - 1] \in S
    OBVIOUS
  <2>2. \A n \in Nat : f[n] = IF n = 0 THEN a ELSE all[f[n - 1]]
    BY <1>2, <2>1
  <2>3. f = [n \in Nat |-> f[n]]
    OBVIOUS
  <2> QED BY <2>2, <2>3
<1>4. hop = [n \in Nat |-> IF n = 0 THEN a ELSE all[hop[n - 1]]]
  BY <1>3
<1> HIDE DEF hop
<1> DEFINE In == {n \in Nat : hop[n] \in S}
<1>5. hop[0] = a /\ \A n \in Nat : hop[n + 1] = all[hop[n]]
  <2>1. \A n \in Nat : n + 1 \in Nat /\ n + 1 # 0 /\ (n + 1) - 1 = n
    OBVIOUS
  <2>2. \A n \in Nat : hop[n + 1] = all[hop[(n + 1) - 1]]
    BY <1>4, <2>1
  <2>3. hop[0] = a
    BY <1>4
  <2> QED BY <2>1, <2>2, <2>3
<1>6. In = Nat
  <2>1. 0 \in In
    BY <1>5
  <2>2. \A n \in In : n + 1 \in In
    BY <1>5
  <2>3. In \in SUBSET Nat
    OBVIOUS
  <2> HIDE DEF In
  <2> QED BY <2>1, <2>2, <2>3, NatSetInduction
<1>7. hop \in [Nat -> S]
  <2>1. \A n \in Nat : hop[n] \in S
    BY <1>6
  <2>2. hop = [n \in Nat |-> hop[n]]
    BY <1>4
  <2> QED BY <2>1, <2>2
<1> QED BY <1>5, <1>7 DEF Iteration, hop

(* The calls stay among the places that jumps lead to. *)
LEMMA HopsStay ==
    ASSUME NEW c, NEW S, S \subseteq DOMAIN c, NEW a \in S,
           \A b \in S : b = a \/ c[b] = Instr("branchCheck") => BranchTarget(c, b) \in S
    PROVE  Hops(c, a) \in [Nat -> S] /\ Hops(c, a)[0] = a
<1>1. \A b \in S : HopStep(c, a)[b] \in S
  BY DEF HopStep
<1>2. Hops(c, a) = Iteration(a, HopStep(c, a))
  BY DEF Hops, HopStep, Iteration
<1> QED BY <1>1, <1>2, IterationIn

(* Each call leads to the next. *)
LEMMA HopsNext ==
    ASSUME NEW c, NEW S, S \subseteq DOMAIN c, NEW a \in S,
           \A b \in S : b = a \/ c[b] = Instr("branchCheck") => BranchTarget(c, b) \in S
    PROVE  \A n \in Nat : Hops(c, a)[n + 1] = HopStep(c, a)[Hops(c, a)[n]]
<1>1. \A b \in S : HopStep(c, a)[b] \in S
  BY DEF HopStep
<1>2. Hops(c, a) = Iteration(a, HopStep(c, a))
  BY DEF Hops, HopStep, Iteration
<1> QED BY <1>1, <1>2, IterationIn

(* The places the calls come to. *)
LEMMA HopsIterate ==
    ASSUME NEW c, NEW S, S \subseteq DOMAIN c, NEW a \in S,
           \A b \in S : b = a \/ c[b] = Instr("branchCheck") => BranchTarget(c, b) \in S
    PROVE  Iterates(Hops(c, a), HopStep(c, a), DOMAIN c)
<1>1. Hops(c, a) \in [Nat -> S]
  BY HopsStay
<1>2. Hops(c, a) \in [Nat -> DOMAIN c]
  BY <1>1
<1> QED BY <1>2, HopsNext DEF Iterates

(* Of more than L numbers up to L two are the same. *)
LEMMA Pigeons ==
    ASSUME NEW L \in Nat, NEW f \in [Nat -> 1..L]
    PROVE  \E i \in 0..L, j \in 0..L : i < j /\ f[i] = f[j]
<1> DEFINE g == [i \in 0..L |-> f[i]]
<1>1. g \in [0..L -> 1..L]
  OBVIOUS
<1>2. IsFiniteSet(0..L) /\ Cardinality(0..L) = L + 1 /\ IsFiniteSet(1..L) /\ Cardinality(1..L) = L
  <2>1. 0 \in Int /\ 1 \in Int /\ L \in Int
    OBVIOUS
  <2>2. Cardinality(0..L) = IF 0 > L THEN 0 ELSE L - 0 + 1
    BY <2>1, FS_Interval
  <2>3. Cardinality(1..L) = IF 1 > L THEN 0 ELSE L - 1 + 1
    BY <2>1, FS_Interval
  <2>4. IsFiniteSet(0..L) /\ IsFiniteSet(1..L)
    BY <2>1, FS_Interval
  <2> QED BY <2>2, <2>3, <2>4
<1>3. Cardinality(1..L) < Cardinality(0..L)
  BY <1>2
<1>4. PICK i \in 0..L, j \in 0..L : i # j /\ g[i] = g[j]
  <2> HIDE DEF g
  <2> QED BY <1>1, <1>2, <1>3, FS_PigeonHole
<1>5. f[i] = f[j] /\ (i < j \/ j < i)
  BY <1>4
<1> QED BY <1>5

(* The calls end. *)
LEMMA CallsEnd ==
    ASSUME NEW c \in Cells, NEW hop \in [Nat -> 1..Len(c)]
    PROVE  LET calls == Calls(c, hop) IN
           /\ calls \in 1..Len(c)
           /\ \A n \in 1..calls - 1 : c[hop[n]] = Instr("branchCheck")
<1> DEFINE L == Len(c)
           N == {n \in 1..Len(c) : c[hop[n]] # Instr("branchCheck") \/ \E i \in 0..n - 1 : hop[i] = hop[n]}
<1>1. L \in Nat
  BY DEF Cells
<1>2. N # {}
  <2>1. PICK i \in 0..L, j \in 0..L : i < j /\ hop[i] = hop[j]
    <3>1. hop \in [Nat -> 1..L]
      OBVIOUS
    <3> HIDE DEF L
    <3> QED BY <1>1, <3>1, Pigeons
  <2>2. j \in 1..L /\ i \in 0..j - 1
    BY <1>1, <2>1
  <2> QED BY <2>1, <2>2
<1>3. PICK m \in N : \A k \in N : m <= k
  <2>1. N \in SUBSET Nat
    BY <1>1
  <2> HIDE DEF N
  <2> QED BY <1>2, <2>1, NatMin
<1>4. Calls(c, hop) \in N /\ \A k \in N : Calls(c, hop) <= k
  <2>1. Calls(c, hop) = Min(N)
    BY DEF Calls
  <2> HIDE DEF N
  <2>2. Min(N) \in N /\ \A k \in N : Min(N) <= k
    BY <1>3 DEF Min
  <2> QED BY <2>1, <2>2
<1> DEFINE calls == Calls(c, hop)
<1> HIDE DEF calls
<1>5. calls \in N /\ \A k \in N : calls <= k
  BY <1>4 DEF calls
<1>6. calls \in 1..Len(c)
  BY <1>5
<1>7. ASSUME NEW n \in 1..calls - 1 PROVE c[hop[n]] = Instr("branchCheck")
  <2>1. n \in 1..Len(c) /\ ~(calls <= n)
    BY <1>1, <1>6
  <2>2. n \notin N
    BY <1>5, <2>1
  <2> QED BY <2>1, <2>2
<1> QED BY <1>6, <1>7 DEF calls

\* Branches without their checks are branches still, and no place has moved.
LEMMA RewrittenCells ==
    ASSUME NEW c, NEW s, NEW v, NEW T, Flows(c, s, v, T, {}), NEW e, NEW K, NEW to \in Int, Rewritten(c, e, K, to)
    PROVE  /\ \A b \in K : HasOperand(c, b) /\ b + 1 \notin K /\ e[b + 1] = Operand(to - (b + 1)) /\ HasOperand(e, b)
                           /\ c[b][1] \in Branches /\ e[b][1] \in Branches
           /\ \A b \in 1..Len(c) : IsPlace(c, b) <=> IsPlace(e, b)
           /\ \A b, l : At(c, T, b, l) => At(e, T, b, l)
           /\ \A b \in 1..Len(c) : b \notin K /\ IsPlace(c, b) => e[b] = c[b]
           /\ \A b \in 1..Len(c) : b \notin K /\ b + 1 \in 1..Len(c) =>
                 e[b + 1][2] = c[b + 1][2] /\ (c[b + 1][1] = "operand" => e[b + 1] = c[b + 1])
<1>0. Len(c) \in Nat /\ Len(e) = Len(c)
  BY FlowsFacts DEF Rewritten
<1>1. ASSUME NEW b \in K
      PROVE  HasOperand(c, b) /\ b + 1 \notin K /\ e[b + 1] = Operand(to - (b + 1)) /\ HasOperand(e, b)
             /\ c[b][1] \in Branches /\ e[b][1] \in Branches
  <2>1. b \in 1..Len(c) /\ IsPlace(c, b) /\ c[b][1] \in {"branchCheck", "branch0Check"} /\ e[b][1] \in {"branch", "branch0"}
    BY DEF Rewritten, Instr
  <2>2. Rest(c, s, T, b)
    BY <2>1 DEF Flows
  <2>3. HasOperand(c, b)
    BY <2>1, <2>2 DEF Rest, Gets, Tos, Dos, Loopings
  <2>4. b + 1 \in 1..Len(c) /\ c[b + 1][1] = "operand" /\ (b + 1) - 1 = b
    BY <2>1, <2>3, <1>0 DEF HasOperand
  <2>5. b + 1 \notin K
    BY <2>4 DEF Rewritten, IsPlace
  <2>6. e[b + 1] = Operand(to - (b + 1))
    BY <2>4, <2>5 DEF Rewritten
  <2>7. HasOperand(e, b)
    BY <2>4, <2>6, <1>0 DEF HasOperand, Operand
  <2> QED BY <2>1, <2>3, <2>5, <2>6, <2>7 DEF Branches
<1>2. ASSUME NEW b \in 1..Len(c), b \notin K, b - 1 \in K PROVE c[b][1] = "operand" /\ e[b][1] = "operand"
  <2>1. (b - 1) + 1 = b /\ HasOperand(c, b - 1) /\ HasOperand(e, b - 1)
    BY <1>1, <1>2
  <2> QED BY <2>1 DEF HasOperand
<1>3. ASSUME NEW b \in 1..Len(c) PROVE IsPlace(c, b) <=> IsPlace(e, b)
  <2>1. CASE b \in K
    BY <2>1, <1>0 DEF Rewritten, IsPlace, Instr
  <2>2. CASE b \notin K /\ b - 1 \in K
    BY <2>2, <1>0, <1>2 DEF IsPlace
  <2>3. CASE b \notin K /\ b - 1 \notin K
    BY <2>3, <1>0 DEF Rewritten, IsPlace
  <2> QED BY <2>1, <2>2, <2>3
<1>4. ASSUME NEW b, NEW l, At(c, T, b, l) PROVE At(e, T, b, l)
  BY <1>0, <1>3, <1>4 DEF At, IsPlace
<1>5. ASSUME NEW b \in 1..Len(c), b \notin K, IsPlace(c, b) PROVE e[b] = c[b]
  <2>1. b - 1 \notin K
    BY <1>2, <1>5 DEF IsPlace
  <2> QED BY <2>1, <1>5 DEF Rewritten
<1>6. ASSUME NEW b \in 1..Len(c), b \notin K, b + 1 \in 1..Len(c)
      PROVE  e[b + 1][2] = c[b + 1][2] /\ (c[b + 1][1] = "operand" => e[b + 1] = c[b + 1])
  <2>1. (b + 1) - 1 = b
    BY <1>0
  <2>2. CASE b + 1 \in K
    BY <2>2 DEF Rewritten, Instr
  <2>3. CASE b + 1 \notin K
    BY <2>1, <2>3, <1>6 DEF Rewritten
  <2> QED BY <2>2, <2>3
<1> QED BY <1>1, <1>3, <1>4, <1>5, <1>6

\* The flow is the same when the new target has the layout of the branches that got it.
LEMMA FlowsRewritten ==
    ASSUME NEW c, NEW s, NEW v, NEW T, Flows(c, s, v, T, {}), v.count = 0,
           NEW e, NEW K, NEW to \in Int, Rewritten(c, e, K, to), \A b \in K : At(c, T, to, T[b])
    PROVE  SameFlow(c, s, v, T, e)
<1>0. Len(c) \in Nat /\ Len(e) = Len(c) /\ e \in Cells /\ T \in Seq(Layouts) /\ Len(T) \in {Len(c), Len(c) + 1} /\ Len(T) \in Nat
  BY FlowsFacts DEF Rewritten, Flows
<1>1. /\ \A b \in K : HasOperand(c, b) /\ b + 1 \notin K /\ e[b + 1] = Operand(to - (b + 1)) /\ HasOperand(e, b)
                      /\ c[b][1] \in Branches /\ e[b][1] \in Branches
      /\ \A b \in 1..Len(c) : IsPlace(c, b) <=> IsPlace(e, b)
      /\ \A b, l : At(c, T, b, l) => At(e, T, b, l)
      /\ \A b \in 1..Len(c) : b \notin K /\ IsPlace(c, b) => e[b] = c[b]
      /\ \A b \in 1..Len(c) : b \notin K /\ b + 1 \in 1..Len(c) =>
            e[b + 1][2] = c[b + 1][2] /\ (c[b + 1][1] = "operand" => e[b + 1] = c[b + 1])
  BY RewrittenCells
<1>2. ASSUME NEW x, IsLink(c, x) PROVE IsLink(e, x) /\ e[x][2] = c[x][2]
  <2>1. x - 1 \in 1..Len(c) /\ x \in 1..Len(c) /\ (x - 1) + 1 = x /\ c[x - 1][1] = "link"
    BY <1>0, <1>2 DEF IsLink
  <2>2. x - 1 \notin K /\ IsPlace(c, x - 1)
    BY <2>1, <1>1 DEF Branches, IsPlace
  <2>3. e[x - 1] = c[x - 1] /\ e[x][2] = c[x][2]
    BY <1>1, <2>1, <2>2
  <2> QED BY <2>1, <2>3, <1>0 DEF IsLink
<1>3. ASSUME NEW b \in 1..Len(e), IsPlace(e, b)
      PROVE  Rest(e, s, T, b) /\ Roomy(e, v, T[b]) /\ (Jumped(e, T, b) \/ b + 1 \in {})
  <2>1. b \in 1..Len(c) /\ IsPlace(c, b)
    BY <1>0, <1>1, <1>3
  <2>2. Rest(c, s, T, b) /\ Roomy(c, v, T[b]) /\ Jumped(c, T, b)
    BY <2>1 DEF Flows
  <2>3. Roomy(e, v, T[b])
    <3>1. T[b].link # 0 => e[T[b].link][2] = c[T[b].link][2] /\ IsLink(e, T[b].link)
      BY <1>2, <2>2 DEF Roomy
    <3> QED BY <2>2, <3>1 DEF Roomy, Room
  <2>4. CASE b \in K
    <3>1. Rest(e, s, T, b)
      <4>1. At(c, T, b + 2, T[b])
        <5>1. c[b][1] \in Branches
          BY <1>1, <2>4
        <5> QED BY <5>1, <2>2 DEF Rest, Branches, Gets, Tos, Dos, Loopings
      <4>2. At(e, T, b + 2, T[b])
        BY <1>1, <4>1
      <4> QED BY <1>1, <2>4, <4>2 DEF Rest
    <3>2. BranchTarget(e, b) = to
      <4>1. e[b + 1][2] = to - (b + 1)
        BY <1>1, <2>4 DEF Operand
      <4>2. b \in Int
        BY <2>1
      <4> QED BY <4>1, <4>2 DEF BranchTarget
    <3>3. At(e, T, to, T[b])
      BY <1>1, <2>4
    <3>4. e[b][1] \notin Dos
      BY <1>1, <2>4 DEF Branches, Dos
    <3>5. Jumped(e, T, b)
      BY <3>2, <3>3, <3>4 DEF Jumped
    <3> QED BY <2>3, <3>1, <3>5
  <2>5. CASE b \notin K
    <3>1. e[b] = c[b]
      BY <1>1, <2>1, <2>5
    <3>2. b + 1 \in 1..Len(c) => e[b + 1][2] = c[b + 1][2] /\ (c[b + 1][1] = "operand" => e[b + 1] = c[b + 1])
      BY <1>1, <2>1, <2>5
    <3>3. HasOperand(c, b) => HasOperand(e, b) /\ e[b + 1] = c[b + 1]
      BY <1>0, <3>2 DEF HasOperand
    <3>4. LocalSize(e, b) = LocalSize(c, b)
      BY <3>1 DEF LocalSize
    <3>5. ASSUME NEW m, At(c, T, b + LocalSize(c, b), m) PROVE OffsetAt(e, b) = OffsetAt(c, b)
      <4>1. CASE c[b][1] \in {"get", "to"}
        <5>1. b + 1 \in 1..Len(c)
          BY <1>0, <2>1, <3>5, <4>1 DEF At, LocalSize
        <5> QED BY <5>1, <3>1, <3>2 DEF OffsetAt
      <4>2. CASE c[b][1] \notin {"get", "to"}
        BY <4>2, <3>1 DEF OffsetAt
      <4> QED BY <4>1, <4>2
    <3>6. Rest(e, s, T, b)
      <4>1. CASE c[b][1] \in Gets
        <5>1. /\ OffsetAt(c, b) \in Nat /\ c[b][2] \in Nat /\ Reads(c, s, T[b], b) /\ At(c, T, b + LocalSize(c, b), T[b])
          BY <4>1, <2>2 DEF Rest, Gets, Tos, Branches, Dos, Loopings
        <5>2. Reads(e, s, T[b], b)
          BY <5>1, <3>1, <3>5 DEF Reads
        <5> QED BY <4>1, <5>1, <5>2, <3>1, <3>4, <3>5, <1>1 DEF Rest
      <4>2. CASE c[b][1] \in Tos
        <5>1. PICK m \in Layouts :
                 /\ OffsetAt(c, b) \in Nat /\ c[b][2] \in Nat /\ Stores(c, s, T[b], m, b) /\ At(c, T, b + LocalSize(c, b), m)
          BY <4>2, <2>2 DEF Rest, Gets, Tos, Branches, Dos, Loopings
        <5>2. Stores(e, s, T[b], m, b)
          BY <5>1, <3>1, <3>5 DEF Stores
        <5>3. At(e, T, b + LocalSize(e, b), m) /\ OffsetAt(e, b) \in Nat /\ e[b][2] \in Nat /\ e[b][1] \in Tos
          BY <5>1, <3>1, <3>4, <3>5, <1>1, <4>2
        <5> QED BY <5>2, <5>3 DEF Rest
      <4>3. CASE c[b][1] = "sliteral"
        <5>1. b + 1 \in 1..Len(c) /\ At(c, T, b + 1 + TextCells(c[b + 1][2]), T[b])
          BY <4>3, <2>2 DEF Rest, Gets, Tos, Branches, Dos, Loopings
        <5> QED BY <4>3, <5>1, <3>1, <3>2, <1>0, <1>1 DEF Rest
      <4>4. CASE c[b][1] \notin Gets \cup Tos \cup {"sliteral"}
        BY <4>4, <2>2, <3>1, <3>3, <1>1 DEF Rest
      <4> QED BY <4>1, <4>2, <4>3, <4>4
    <3>7. Jumped(e, T, b)
      <4>1. c[b][1] \in Branches \cup Loopings \cup Dos => HasOperand(c, b)
        BY <2>2 DEF Rest, Gets, Tos, Branches, Dos, Loopings
      <4>2. CASE c[b][1] \in Branches \cup Loopings \cup Dos
        <5>1. e[b + 1] = c[b + 1]
          BY <4>1, <4>2, <3>3
        <5> QED BY <5>1, <3>1, <2>2, <1>1 DEF Jumped, BranchTarget
      <4>3. CASE c[b][1] \notin Branches \cup Loopings \cup Dos
        BY <4>3, <3>1 DEF Jumped
      <4> QED BY <4>2, <4>3
    <3> QED BY <2>3, <3>6, <3>7
  <2> QED BY <2>4, <2>5
<1>4. At(e, T, 1, Bare) /\ Started(s, Len(e) + 1)
  BY <1>0, <1>1 DEF Flows
<1>5. Flows(e, s, v, T, {})
  BY <1>0, <1>3, <1>4 DEF Flows
<1>6. ASSUME NEW b \in 1..Len(c), c[b][1] \in Branches PROVE e[b][1] \in Branches
  <2>1. IsPlace(c, b)
    BY <1>6 DEF IsPlace, Branches
  <2> QED BY <2>1, <1>1, <1>6
<1> QED BY <1>0, <1>1, <1>2, <1>5, <1>6 DEF SameFlow

\* What the optimiser changes: all branches it changed go to the place where the chain
\* of branches ended, among the places the chain passed.
LEMMA RewrittenBy ==
    ASSUME NEW c \in Cells, NEW a, NEW S, S \subseteq 1..Len(c), NEW hop \in [Nat -> S], hop[0] = a,
           hop = Hops(c, a), \A b \in S : IsPlace(c, b), c[a] = Instr("branchCheck") \/ c[a] = Instr("branch0Check"),
           \A b \in S : c[b] = Instr("branchCheck") \/ c[b] = Instr("branch") => BranchTarget(c, b) \in S
    PROVE  LET to == Beyond(c, hop[Calls(c, hop)]) IN
           Chain(c, a) \subseteq S /\ to \in S /\ Rewritten(c, OptimisedBy(c, a, 1), Chain(c, a), to)
<1> DEFINE calls == Calls(c, hop)
           called == {hop[n] : n \in 0..calls - 1}
           last == hop[calls]
           to == Beyond(c, last)
           e == OptimisedBy(c, a, 1)
<1>1. Len(c) \in Nat /\ DOMAIN c = 1..Len(c)
  BY DEF Cells
<1>2. calls \in 1..Len(c) /\ \A n \in 1..calls - 1 : c[hop[n]] = Instr("branchCheck")
  <2>1. hop \in [Nat -> 1..Len(c)]
    OBVIOUS
  <2> QED BY <2>1, CallsEnd
<1>3. e = [b \in DOMAIN c |->
            IF b \in called THEN IF c[b] = Instr("branchCheck") THEN Instr("branch") ELSE Instr("branch0")
            ELSE IF b - 1 \in called THEN Operand(to - b) ELSE c[b]]
  BY DEF OptimisedBy, Beyond
<1>10. called = Chain(c, a)
  BY DEF Chain
<1> HIDE DEF calls, e
<1>4. called \subseteq S /\ last \in S
  BY <1>1, <1>2
<1>5. to \in S
  BY <1>4 DEF BranchTarget, Beyond
<1>6. \A b \in called : c[b] = Instr("branchCheck") \/ c[b] = Instr("branch0Check")
  <2>1. \A n \in 0..calls - 1 : n = 0 \/ n \in 1..calls - 1
    BY <1>1, <1>2
  <2> QED BY <1>2, <2>1
<1> HIDE DEF called, to, last
<1>7. \A b \in 1..Len(c) : e[b] = IF b \in called
                                  THEN IF c[b] = Instr("branchCheck") THEN Instr("branch") ELSE Instr("branch0")
                                  ELSE IF b - 1 \in called THEN Operand(to - b) ELSE c[b]
  BY <1>1, <1>3
<1>8. e \in Cells /\ Len(e) = Len(c)
  <2>1. \A b \in 1..Len(c) : e[b] \in Names \X Int
    <3> SUFFICES ASSUME NEW b \in 1..Len(c) PROVE e[b] \in Names \X Int
      OBVIOUS
    <3>1. c[b] \in Names \X Int
      BY ElementOfSeq DEF Cells
    <3>2. Instr("branch") \in Names \X Int /\ Instr("branch0") \in Names \X Int
      BY DEF Instr, Names
    <3>3. Operand(to - b) \in Names \X Int
      <4>1. to - b \in Int
        BY <1>1, <1>5
      <4> QED BY <4>1 DEF Operand, Names
    <3> QED BY <1>7, <3>1, <3>2, <3>3
  <2>2. e = [b \in 1..Len(c) |-> e[b]]
    BY <1>1, <1>3
  <2>3. e \in Seq(Names \X Int) /\ Len(e) = Len(c)
    <3> DEFINE C == Names \X Int
    <3> HIDE DEF C
    <3>1. \A b \in 1..Len(c) : e[b] \in C
      BY <2>1 DEF C
    <3>2. e \in Seq(C) /\ Len(e) = Len(c)
      BY <1>1, <2>2, <3>1
    <3> QED BY <3>2 DEF C
  <2> QED BY <2>3 DEF Cells
<1>9. Rewritten(c, e, called, to)
  <2>1. \A b \in called : /\ b \in 1..Len(c) /\ IsPlace(c, b)
                          /\ \/ c[b] = Instr("branchCheck") /\ e[b] = Instr("branch")
                             \/ c[b] = Instr("branch0Check") /\ e[b] = Instr("branch0")
    <3>1. Instr("branchCheck") # Instr("branch0Check")
      BY DEF Instr
    <3>2. \A b \in called : b \in 1..Len(c) /\ IsPlace(c, b)
      BY <1>4
    <3> QED BY <1>6, <1>7, <3>1, <3>2
  <2>2. \A b \in 1..Len(c) : b \notin called => e[b] = IF b - 1 \in called THEN Operand(to - b) ELSE c[b]
    BY <1>7
  <2> QED BY <1>8, <2>1, <2>2 DEF Rewritten
<1>11. to = Beyond(c, hop[Calls(c, hop)])
  BY DEF to, last, calls
<1> QED BY <1>4, <1>5, <1>9, <1>10, <1>11 DEF e

\* The optimiser rewrites the jumps of a chain, and the place they get has the layout of each.
LEMMA OptimisedChain ==
    ASSUME NEW c, NEW s, NEW v, NEW T, Flows(c, s, v, T, {}), Len(T) = Len(c),
           NEW a \in 1..Len(c), IsPlace(c, a), c[a] \in {Instr("branchCheck"), Instr("branch0Check")}
    PROVE  ChainRewritten(c, T, a)
<1>13. c \in Cells /\ Len(c) \in Nat /\ T \in Seq(Layouts) /\ DOMAIN c = 1..Len(c)
  <2>1. c \in Cells /\ T \in Seq(Layouts)
    BY FlowsFacts
  <2> QED BY <2>1 DEF Cells
<1> DEFINE S == {b \in 1..Len(c) : At(c, T, b, T[a])}
           e == OptimisedBy(c, a, 1)
<1>1. Optimised(c, a) = e
  BY DEF Optimised, OptimisedFrom
<1>2. a \in S
  BY <1>13 DEF At
<1>3. ASSUME NEW b \in S, c[b][1] \in Branches PROVE BranchTarget(c, b) \in S
  <2>1. b \in 1..Len(c) /\ IsPlace(c, b) /\ T[b] = T[a]
    BY DEF At
  <2>2. Jumped(c, T, b)
    BY <2>1 DEF Flows
  <2>3. At(c, T, BranchTarget(c, b), T[b])
    BY <1>3, <2>2 DEF Jumped
  <2>4. BranchTarget(c, b) \in 1..Len(c)
    BY <2>3 DEF At
  <2> QED BY <2>1, <2>3, <2>4
<1>4. \A b \in S : IsPlace(c, b)
  BY DEF At
<1>5. S \subseteq 1..Len(c)
  OBVIOUS
<1>6. \A b \in S : b = a \/ c[b] = Instr("branchCheck") => BranchTarget(c, b) \in S
  <2>1. \A b \in S : b = a \/ c[b] = Instr("branchCheck") => c[b][1] \in Branches
    BY DEF Instr, Branches
  <2> HIDE DEF S
  <2> QED BY <1>3, <2>1
<1>7. \A b \in S : c[b] = Instr("branchCheck") \/ c[b] = Instr("branch") => BranchTarget(c, b) \in S
  <2>1. \A b \in S : c[b] = Instr("branchCheck") \/ c[b] = Instr("branch") => c[b][1] \in Branches
    BY DEF Instr, Branches
  <2> HIDE DEF S
  <2> QED BY <1>3, <2>1
<1>8. \A b \in S : At(c, T, b, T[a])
  OBVIOUS
<1> HIDE DEF S, e
<1> DEFINE hop == Hops(c, a)
<1>10. hop \in [Nat -> S] /\ hop[0] = a
  <2>1. S \subseteq DOMAIN c
    BY <1>13, <1>5 DEF Cells
  <2> HIDE DEF hop
  <2>2. Hops(c, a) \in [Nat -> S] /\ Hops(c, a)[0] = a
    BY <1>2, <1>6, <2>1, HopsStay
  <2> QED BY <2>2 DEF hop
<1> DEFINE K == Chain(c, a)
           to == Beyond(c, hop[Calls(c, hop)])
<1>11. K \subseteq S /\ to \in S /\ Rewritten(c, e, K, to)
  <2>1. hop = Hops(c, a)
    OBVIOUS
  <2>2. c[a] = Instr("branchCheck") \/ c[a] = Instr("branch0Check")
    OBVIOUS
  <2> HIDE DEF hop
  <2> QED BY <1>13, <1>4, <1>5, <1>7, <1>10, <2>1, <2>2, RewrittenBy DEF e
<1> HIDE DEF K, to, hop
<1>12. \A b \in K : At(c, T, to, T[b])
  <2>1. \A b \in K : T[b] = T[a]
    BY <1>8, <1>11 DEF At
  <2>2. At(c, T, to, T[a])
    BY <1>8, <1>11
  <2> QED BY <2>1, <2>2
<1>14. Iterates(Hops(c, a), HopStep(c, a), 1..Len(c))
  BY <1>2, <1>5, <1>6, <1>13, HopsIterate
<1> QED BY <1>1, <1>5, <1>10, <1>11, <1>12, <1>14 DEF ChainRewritten, K, to, hop

\* The optimiser keeps the flow, and with it the layout of every place.
LEMMA OptimisedFlows ==
    ASSUME NEW c, NEW s, NEW v, NEW T, Flows(c, s, v, T, {}), Len(T) = Len(c), v.count = 0,
           NEW a \in 1..Len(c), IsPlace(c, a)
    PROVE  SameFlow(c, s, v, T, Optimised(c, a))
<1>1. CASE c[a] \notin {Instr("branchCheck"), Instr("branch0Check")}
  <2>1. Optimised(c, a) = c
    BY <1>1 DEF Optimised, OptimisedFrom
  <2> QED BY <2>1 DEF SameFlow
<1>2. CASE c[a] \in {Instr("branchCheck"), Instr("branch0Check")}
  <2> DEFINE K == Chain(c, a)
             to == Beyond(c, Hops(c, a)[Calls(c, Hops(c, a))])
  <2>1. ChainRewritten(c, T, a)
    BY <1>2, OptimisedChain
  <2>2. to \in Int /\ Rewritten(c, Optimised(c, a), K, to) /\ \A b \in K : At(c, T, to, T[b])
    BY <2>1 DEF ChainRewritten
  <2> HIDE DEF K, to
  <2> QED BY <2>2, FlowsRewritten
<1> QED BY <1>1, <1>2

-----------------------------------------------------------------------------
(* Activations on the return stack.                                        *)

\* The layout of a place of an accepted definition, in numbers.
LEMMA PlaceFacts ==
    ASSUME NEW c, NEW s, NEW v, NEW T, Sealed(c, s, v, T), NEW a \in 1..Len(c), IsPlace(c, a)
    PROVE  /\ Rest(c, s, T, a) /\ Jumped(c, T, a)
           /\ T[a] \in Layouts /\ T[a].link \in Nat /\ T[a].loops \in Nat /\ T[a].slots \in Seq(Nat) /\ Len(T[a].slots) \in Nat
           /\ FrameSpan(c, T[a]) \in Nat /\ Span(c, T[a]) \in Nat /\ FrameSpan(c, T[a]) <= Span(c, T[a])
           /\ T[a].link = 0 => T[a].slots = << >> /\ FrameSpan(c, T[a]) = 0
           /\ T[a].link # 0 => Len(T[a].slots) + 1 <= FrameSpan(c, T[a]) /\ 1 <= FrameSpan(c, T[a])
           /\ Len(c) \in Nat /\ Len(T) = Len(c) /\ c \in Cells
<1>1. /\ Flows(c, s, v, T, {}) /\ Len(T) = Len(c) /\ v.count = 0
  BY DEF Sealed
<1>2. c \in Cells /\ T \in Seq(Layouts) /\ Len(c) \in Nat /\ T[a] \in Layouts /\ \A b \in 1..Len(c) : c[b][2] \in Int
  BY <1>1, FlowsFacts
<1>3. Rest(c, s, T, a) /\ Jumped(c, T, a) /\ Roomy(c, v, T[a])
  BY <1>1 DEF Flows
<1> DEFINE l == T[a]
<1>4. l.link \in Nat /\ l.loops \in Nat /\ l.slots \in Seq(Nat) /\ Len(l.slots) \in Nat
  BY <1>2 DEF Layouts
<1> HIDE DEF l
<1>5. CASE l.link = 0
  <2>1. l.slots = << >> /\ FrameSpan(c, l) = 0
    BY <1>3, <1>5 DEF Roomy, FrameSpan, l
  <2>2. Span(c, l) = 3 * l.loops
    <3>1. Span(c, l) = FrameSpan(c, l) + 3 * l.loops
      BY DEF Span
    <3> QED BY <1>4, <2>1, <3>1
  <2> QED BY <1>1, <1>2, <1>3, <1>4, <1>5, <2>1, <2>2 DEF l
<1>6. CASE l.link # 0
  <2>1. IsLink(c, l.link) /\ Len(l.slots) <= c[l.link][2]
    BY <1>1, <1>3, <1>6 DEF Roomy, Room, l
  <2>2. c[l.link][2] \in Int /\ FrameSpan(c, l) = 1 + c[l.link][2]
    BY <1>2, <1>6, <2>1 DEF IsLink, FrameSpan
  <2>3. FrameSpan(c, l) \in Nat /\ Len(l.slots) + 1 <= FrameSpan(c, l)
    BY <1>4, <2>1, <2>2, SMTT(20)
  <2>4. Span(c, l) = FrameSpan(c, l) + 3 * l.loops
    BY DEF Span
  <2>5. Span(c, l) \in Nat /\ FrameSpan(c, l) <= Span(c, l) /\ 1 <= FrameSpan(c, l)
    BY <1>4, <2>3, <2>4
  <2> QED BY <1>1, <1>2, <1>3, <1>4, <1>6, <2>3, <2>5 DEF l
<1> QED BY <1>5, <1>6

\* Where an activation begins and ends on the return stack.
LEMMA ActiveFacts ==
    ASSUME NEW c, NEW s, NEW v, NEW T, Sealed(c, s, v, T), NEW r, NEW x, NEW to, NEW caller, Active(c, T, r, x, to, caller)
    PROVE  /\ x.base \in Nat /\ x.at \in 1..Len(c) /\ x.fp \in Nat /\ IsPlace(c, x.at) /\ 1 <= x.base
           /\ EndOfAct(c, T, x) = x.base + Span(c, T[x.at]) /\ EndOfAct(c, T, x) \in Nat /\ x.base <= EndOfAct(c, T, x)
<1>1. x.base \in Nat /\ x.at \in 1..Len(c) /\ x.fp \in Nat /\ IsPlace(c, x.at) /\ 1 <= x.base
  BY DEF Active, Acts
<1>2. Span(c, T[x.at]) \in Nat
  BY <1>1, PlaceFacts
<1> QED BY <1>1, <1>2 DEF EndOfAct

(* What the cells of an activation are, is not touched above it. *)
LEMMA HoldsKept ==
    ASSUME NEW c, NEW s, NEW v, NEW T, Sealed(c, s, v, T), NEW a \in 1..Len(c), IsPlace(c, a),
           NEW r, NEW u, NEW b \in Nat, NEW caller, Holds(c, T, r, b, T[a], caller),
           \A i \in b + 1..b + Span(c, T[a]) : u[i] = r[i]
    PROVE  Holds(c, T, u, b, T[a], caller)
<1> DEFINE l == T[a]
           f == FrameSpan(c, l)
           n == Span(c, l)
<1>1. /\ l.link \in Nat /\ l.loops \in Nat /\ Len(l.slots) \in Nat /\ f \in Nat /\ n \in Nat /\ f <= n
      /\ (l.link = 0 => l.slots = << >>) /\ (l.link # 0 => Len(l.slots) + 1 <= f /\ 1 <= f)
  BY PlaceFacts
<1>2. n = f + 3 * l.loops
  BY DEF Span
<1>3. Holds(c, T, r, b, l, caller)
  OBVIOUS
<1>4. \A i \in b + 1..b + n : u[i] = r[i]
  OBVIOUS
<1> HIDE DEF l, f, n
<1>5. l.link # 0 => u[b + 1] = <<"frame", caller>>
  <2>1. l.link # 0 => b + 1 \in b + 1..b + n
    BY <1>1
  <2> QED BY <2>1, <1>3, <1>4 DEF Holds
<1>6. ASSUME NEW i \in 1..Len(l.slots) PROVE u[b + 1 + i] = <<"slot", l.slots[i]>>
  <2>1. l.link # 0
    BY <1>1
  <2>2. b + 1 + i \in b + 1..b + n
    BY <2>1, <1>1
  <2> QED BY <2>2, <1>3, <1>4 DEF Holds
<1>7. ASSUME NEW j \in 1..l.loops PROVE LoopCells(c, T, u, b + f + 3 * (j - 1), Looped(l, j - 1))
  <2> DEFINE q == b + f + 3 * (j - 1)
  <2>1. q + 1 \in b + 1..b + n /\ q + 2 \in b + 1..b + n /\ q + 3 \in b + 1..b + n
    <3>1. j \in Int /\ 1 <= j /\ j <= l.loops
      BY <1>1
    <3> DEFINE k == j - 1
    <3>2. k \in Int /\ 0 <= k /\ k + 1 <= l.loops
      BY <1>1, <3>1
    <3>3. q = b + f + 3 * k /\ n = f + 3 * l.loops
      BY <1>2
    <3> DEFINE m == l.loops
    <3>4. m \in Int /\ k + 1 <= m /\ n = f + 3 * m
      BY <1>1, <3>2, <3>3
    <3> HIDE DEF k, q, m
    <3>5. 0 <= 3 * k /\ 3 * k + 3 <= 3 * m
      BY <3>2, <3>4
    <3>6. q \in Int /\ b <= q /\ q + 3 <= b + n
      BY <1>1, <3>2, <3>3, <3>4, <3>5
    <3> QED BY <1>1, <3>6
  <2>2. LoopCells(c, T, r, q, Looped(l, j - 1))
    BY <1>3 DEF Holds, f
  <2> HIDE DEF q
  <2> QED BY <2>1, <2>2, <1>4 DEF LoopCells, q
<1>8. Holds(c, T, u, b, l, caller)
  BY <1>5, <1>6, <1>7 DEF Holds, f
<1> QED BY <1>8 DEF l

\* An activation stays one while its cells do.
LEMMA ActiveKept ==
    ASSUME NEW c, NEW s, NEW v, NEW T, Sealed(c, s, v, T), NEW r, NEW u, NEW x, NEW to, NEW caller,
           Active(c, T, r, x, to, caller), EndOfAct(c, T, x) <= Len(u),
           \A i \in 1..EndOfAct(c, T, x) : u[i] = r[i]
    PROVE  Active(c, T, u, x, to, caller)
<1>1. /\ x.base \in Nat /\ x.at \in 1..Len(c) /\ IsPlace(c, x.at) /\ 1 <= x.base
      /\ EndOfAct(c, T, x) = x.base + Span(c, T[x.at]) /\ EndOfAct(c, T, x) \in Nat /\ x.base <= EndOfAct(c, T, x)
  BY ActiveFacts
<1>2. \A i \in x.base + 1..x.base + Span(c, T[x.at]) : u[i] = r[i]
  BY <1>1
<1>3. u[x.base] = r[x.base]
  BY <1>1
<1>4. Holds(c, T, u, x.base, T[x.at], caller)
  BY <1>1, <1>2, HoldsKept DEF Active
<1> QED BY <1>3, <1>4 DEF Active

\* The waiting activations stay while their cells do.
LEMMA SuspendedKept ==
    ASSUME NEW c, NEW s, NEW v, NEW T, Sealed(c, s, v, T), NEW r, NEW u, NEW B, Suspended(c, T, r, B),
           NEW e, e = EndBelow(c, T, B, Len(B)), e <= Len(u), \A i \in 1..e : u[i] = r[i]
    PROVE  Suspended(c, T, u, B)
<1>1. B \in Seq(Acts) /\ Len(B) \in Nat
  BY DEF Suspended
<1>2. ASSUME NEW k \in 1..Len(B)
      PROVE  Active(c, T, u, B[k], AtOf(B, k - 1), FpOf(B, k - 1))
  <2>1. Active(c, T, r, B[k], AtOf(B, k - 1), FpOf(B, k - 1))
    BY DEF Suspended
  <2>2. Len(B) \in 1..Len(B) /\ Len(B) # 0
    BY <1>1
  <2>3. e = EndOfAct(c, T, B[Len(B)])
    BY <2>2 DEF EndBelow
  <2>4. EndOfAct(c, T, B[k]) <= e /\ EndOfAct(c, T, B[k]) \in Nat /\ e \in Nat
    <3>1. EndOfAct(c, T, B[k]) \in Nat
      BY <2>1, ActiveFacts
    <3>2. e \in Nat /\ B[Len(B)].base \in Nat /\ B[Len(B)].base <= e
      <4>1. Active(c, T, r, B[Len(B)], AtOf(B, Len(B) - 1), FpOf(B, Len(B) - 1))
        BY <2>2 DEF Suspended
      <4> QED BY <2>3, <4>1, ActiveFacts
    <3>3. k = Len(B) \/ k < Len(B)
      BY <1>1
    <3>4. CASE k = Len(B)
      BY <2>3, <3>1, <3>2, <3>4
    <3>5. CASE k < Len(B)
      <4>1. EndOfAct(c, T, B[k]) < B[Len(B)].base
        BY <2>2, <3>5 DEF Suspended
      <4> QED BY <3>1, <3>2, <4>1
    <3> QED BY <3>3, <3>4, <3>5
  <2>5. EndOfAct(c, T, B[k]) <= Len(u) /\ \A i \in 1..EndOfAct(c, T, B[k]) : u[i] = r[i]
    <3>1. Len(u) = Len(u)
      OBVIOUS
    <3>2. \A i \in 1..EndOfAct(c, T, B[k]) : i \in 1..e
      BY <2>4
    <3> QED BY <2>4, <3>2
  <2> QED BY <2>1, <2>5, ActiveKept
<1> QED BY <1>1, <1>2 DEF Suspended

\* The activation that runs, cell by cell.
LEMMA RunsFacts ==
    ASSUME NEW c, NEW s, NEW v, NEW T, Sealed(c, s, v, T), NEW r, NEW B, NEW x, Runs(c, T, r, B, x)
    PROVE  /\ r \in Cells /\ Len(r) \in Nat /\ Len(r) = x.base + Span(c, T[x.at])
           /\ x.base \in Nat /\ 1 <= x.base /\ x.at \in 1..Len(c) /\ IsPlace(c, x.at) /\ x.fp \in Nat
           /\ r[x.base] = Return(AtOf(B, Len(B)))
           /\ x.fp = FpFor(T[x.at], x.base, FpOf(B, Len(B)))
           /\ Holds(c, T, r, x.base, T[x.at], FpOf(B, Len(B)))
           /\ Suspended(c, T, r, B) /\ x.base = EndBelow(c, T, B, Len(B)) + 1
           /\ AtOf(B, Len(B)) \in Nat /\ FpOf(B, Len(B)) \in Nat /\ EndBelow(c, T, B, Len(B)) \in Nat
           /\ B \in Seq(Acts) /\ Len(B) \in Nat
<1>1. Active(c, T, r, x, AtOf(B, Len(B)), FpOf(B, Len(B)))
  BY DEF Runs
<1>2. /\ x.base \in Nat /\ x.at \in 1..Len(c) /\ x.fp \in Nat /\ IsPlace(c, x.at) /\ 1 <= x.base
      /\ EndOfAct(c, T, x) = x.base + Span(c, T[x.at]) /\ EndOfAct(c, T, x) \in Nat
  BY <1>1, ActiveFacts
<1>3. r \in Cells /\ Len(r) = EndOfAct(c, T, x) /\ Suspended(c, T, r, B) /\ x.base = EndBelow(c, T, B, Len(B)) + 1
  BY DEF Runs
<1>4. B \in Seq(Acts) /\ Len(B) \in Nat
  BY <1>3 DEF Suspended
<1>5. AtOf(B, Len(B)) \in Nat /\ FpOf(B, Len(B)) \in Nat /\ EndBelow(c, T, B, Len(B)) \in Nat
  <2>1. CASE Len(B) = 0
    BY <2>1 DEF AtOf, FpOf, EndBelow
  <2>2. CASE Len(B) # 0
    <3>1. Len(B) \in 1..Len(B)
      BY <1>4, <2>2
    <3>2. Active(c, T, r, B[Len(B)], AtOf(B, Len(B) - 1), FpOf(B, Len(B) - 1))
      BY <1>3, <3>1 DEF Suspended
    <3>3. B[Len(B)].at \in 1..Len(c) /\ B[Len(B)].fp \in Nat /\ EndOfAct(c, T, B[Len(B)]) \in Nat
      BY <3>2, ActiveFacts
    <3> QED BY <2>2, <3>3 DEF AtOf, FpOf, EndBelow
  <2> QED BY <2>1, <2>2
<1>6. r[x.base] = Return(AtOf(B, Len(B))) /\ Holds(c, T, r, x.base, T[x.at], FpOf(B, Len(B)))
      /\ x.fp = FpFor(T[x.at], x.base, FpOf(B, Len(B)))
  BY <1>1 DEF Active, FpFor
<1> QED BY <1>2, <1>3, <1>4, <1>5, <1>6

(* The activation that runs goes to an instruction; the cells it has there   *)
(* are what the layout of that instruction says.                             *)
LEMMA GoesTo ==
    ASSUME NEW c, NEW s, NEW v, NEW T, Sealed(c, s, v, T), NEW r, NEW B, NEW x, Runs(c, T, r, B, x),
           NEW u \in Cells, NEW to, NEW m, At(c, T, to, m), \A i \in 1..x.base : u[i] = r[i],
           Len(u) = x.base + Span(c, m), NEW fp, fp = FpFor(m, x.base, FpOf(B, Len(B))),
           Holds(c, T, u, x.base, m, FpOf(B, Len(B)))
    PROVE  Going(c, T, u, to, fp)
<1> DEFINE y == [base |-> x.base, at |-> to, fp |-> fp]
<1>1. /\ x.base \in Nat /\ 1 <= x.base /\ r[x.base] = Return(AtOf(B, Len(B)))
      /\ Suspended(c, T, r, B) /\ x.base = EndBelow(c, T, B, Len(B)) + 1
      /\ FpOf(B, Len(B)) \in Nat /\ EndBelow(c, T, B, Len(B)) \in Nat
  BY RunsFacts
<1>2. to \in 1..Len(c) /\ IsPlace(c, to) /\ T[to] = m
  <2>1. Len(T) = Len(c)
    BY DEF Sealed
  <2> QED BY <2>1 DEF At
<1>3. Span(c, m) \in Nat
  BY <1>2, PlaceFacts
<1>4. y \in Acts /\ y.base = x.base /\ y.at = to /\ y.fp = fp
  <2>1. to \in Nat /\ fp \in Nat
    BY <1>1, <1>2 DEF FpFor
  <2> QED BY <1>1, <2>1 DEF Acts
<1> HIDE DEF y
<1>5. EndOfAct(c, T, y) = x.base + Span(c, m)
  BY <1>2, <1>4 DEF EndOfAct
<1>6. u[x.base] = Return(AtOf(B, Len(B)))
  BY <1>1
<1>7. Active(c, T, u, y, AtOf(B, Len(B)), FpOf(B, Len(B)))
  <2>1. y.fp = (IF T[y.at].link = 0 THEN FpOf(B, Len(B)) ELSE y.base + 2)
    BY <1>2, <1>4 DEF FpFor
  <2>2. Holds(c, T, u, y.base, T[y.at], FpOf(B, Len(B)))
    BY <1>2, <1>4
  <2>3. EndOfAct(c, T, y) <= Len(u)
    BY <1>1, <1>3, <1>5
  <2>4. u[y.base] = Return(AtOf(B, Len(B))) /\ 1 <= y.base /\ y.at \in 1..Len(c) /\ IsPlace(c, y.at)
    BY <1>1, <1>2, <1>4, <1>6
  <2> QED BY <1>4, <2>1, <2>2, <2>3, <2>4 DEF Active
<1>8. Suspended(c, T, u, B)
  <2> DEFINE e == EndBelow(c, T, B, Len(B))
  <2>1. e = EndBelow(c, T, B, Len(B)) /\ e \in Nat /\ e + 1 = x.base
    BY <1>1
  <2> HIDE DEF e
  <2>2. e <= Len(u) /\ \A i \in 1..e : u[i] = r[i]
    BY <1>1, <1>3, <2>1
  <2> QED BY <1>1, <2>1, <2>2, SuspendedKept
<1>9. Runs(c, T, u, B, y)
  BY <1>1, <1>4, <1>5, <1>7, <1>8 DEF Runs
<1> QED BY <1>4, <1>9 DEF Going

\* To a place with the layout it has: nothing on the return stack changes.
LEMMA GoesOn ==
    ASSUME NEW c, NEW s, NEW v, NEW T, Sealed(c, s, v, T), NEW r, NEW B, NEW x, Runs(c, T, r, B, x),
           NEW to, At(c, T, to, T[x.at])
    PROVE  Going(c, T, r, to, x.fp)
<1> DEFINE m == T[x.at]
<1>1. r \in Cells /\ Len(r) = x.base + Span(c, m) /\ x.fp = FpFor(m, x.base, FpOf(B, Len(B)))
      /\ Holds(c, T, r, x.base, m, FpOf(B, Len(B))) /\ At(c, T, to, m)
  BY RunsFacts
<1> HIDE DEF m
<1>2. \A i \in 1..x.base : r[i] = r[i]
  OBVIOUS
<1> QED BY <1>1, <1>2, GoesTo

\* Another number of loops leaves the frame as it is.
LEMMA LoopedFacts ==
    ASSUME NEW c, NEW l, NEW n
    PROVE  /\ Looped(l, n).link = l.link /\ Looped(l, n).slots = l.slots /\ Looped(l, n).loops = n
           /\ FrameSpan(c, Looped(l, n)) = FrameSpan(c, l)
<1>1. Looped(l, n).link = l.link /\ Looped(l, n).slots = l.slots /\ Looped(l, n).loops = n
  BY DEF Looped
<1> QED BY <1>1 DEF FrameSpan

\* The number of loops given last is the one that counts.
LEMMA LoopedTwice ==
    ASSUME NEW l, NEW n, NEW j
    PROVE  Looped(Looped(l, n), j) = Looped(l, j)
BY DEF Looped

(* LOOP that ends, LEAVE and UNLOOP take off the three cells of the loop.    *)
LEMMA GoesOutOfLoop ==
    ASSUME NEW c, NEW s, NEW v, NEW T, Sealed(c, s, v, T), NEW r, NEW B, NEW x, Runs(c, T, r, B, x),
           T[x.at].loops > 0, NEW to, At(c, T, to, Looped(T[x.at], T[x.at].loops - 1)),
           NEW u, u = SubSeq(r, 1, Len(r) - 3)
    PROVE  Going(c, T, u, to, x.fp)
<1> DEFINE a == x.at
           b == x.base
<1>0. a = x.at /\ b = x.base /\ a \in 1..Len(c) /\ IsPlace(c, a)
  BY RunsFacts
<1> HIDE DEF a, b
<1> DEFINE l == T[a]
           n == l.loops - 1
           m == Looped(l, n)
<1>1. /\ r \in Cells /\ Len(r) \in Nat /\ Len(r) = b + Span(c, l) /\ b \in Nat /\ 1 <= b
      /\ x.fp = FpFor(l, b, FpOf(B, Len(B)))
      /\ Holds(c, T, r, b, l, FpOf(B, Len(B)))
  BY <1>0, RunsFacts
<1>2. l.loops \in Nat /\ Len(l.slots) \in Nat /\ FrameSpan(c, l) \in Nat /\ (l.link = 0 => l.slots = << >>)
      /\ (l.link # 0 => Len(l.slots) + 1 <= FrameSpan(c, l) /\ 1 <= FrameSpan(c, l))
  BY <1>0, PlaceFacts
<1>3. n \in Nat /\ l.loops = n + 1
  <2>1. l.loops > 0
    BY <1>0
  <2> QED BY <1>2, <2>1
<1>4. m.link = l.link /\ m.slots = l.slots /\ m.loops = n /\ FrameSpan(c, m) = FrameSpan(c, l)
      /\ Span(c, m) = FrameSpan(c, l) + 3 * n /\ (\A j : Looped(m, j) = Looped(l, j))
  <2> HIDE DEF n
  <2>1. /\ Looped(T[a], n).link = T[a].link /\ Looped(T[a], n).slots = T[a].slots /\ Looped(T[a], n).loops = n
        /\ FrameSpan(c, Looped(T[a], n)) = FrameSpan(c, T[a])
    BY LoopedFacts
  <2>2. \A j : Looped(Looped(T[a], n), j) = Looped(T[a], j)
    BY LoopedTwice
  <2>3. Span(c, Looped(T[a], n)) = FrameSpan(c, T[a]) + 3 * n
    BY <2>1 DEF Span
  <2> QED BY <2>1, <2>2, <2>3
<1>5. Span(c, l) = FrameSpan(c, l) + 3 * l.loops
  BY DEF Span
<1>6. At(c, T, to, m)
  BY <1>0
<1> HIDE DEF l, m, n
<1> DEFINE f == FrameSpan(c, l)
           d == Len(r) - 3
<1>7. f \in Nat /\ d = b + f + 3 * n /\ Len(r) = d + 3 /\ d \in Nat /\ b <= d
  BY <1>1, <1>2, <1>3, <1>5, SMTT(20)
<1>8. u \in Cells /\ Len(u) = d /\ \A i \in 1..d : u[i] = r[i]
  <2>1. u = SubSeq(r, 1, d) /\ 0 <= d /\ d <= Len(r)
    BY <1>7
  <2> DEFINE S == Names \X Int
  <2>2. d \in Nat /\ r \in Seq(S)
    BY <1>1, <1>7 DEF Cells
  <2> HIDE DEF d, S
  <2>3. u \in Seq(S) /\ Len(u) = d /\ \A i \in 1..d : u[i] = r[i]
    BY <2>1, <2>2
  <2> QED BY <2>3 DEF S, Cells
<1> HIDE DEF d
<1>12. d = b + f + 3 * n
  BY <1>7
<1> HIDE DEF f
<1>9. Holds(c, T, u, b, m, FpOf(B, Len(B)))
  <2>1. m.link # 0 => u[b + 1] = <<"frame", FpOf(B, Len(B))>>
    <3>1. m.link # 0 => b + 1 \in 1..d
      BY <1>1, <1>2, <1>3, <1>4, <1>7, SMTT(20) DEF f
    <3> QED BY <1>1, <1>4, <1>8, <3>1 DEF Holds
  <2>2. ASSUME NEW i \in 1..Len(m.slots) PROVE u[b + 1 + i] = <<"slot", m.slots[i]>>
    <3>1. i \in 1..Len(l.slots) /\ l.link # 0
      BY <1>2, <1>4
    <3>2. b + 1 + i \in 1..d
      <4>1. Len(l.slots) + 1 <= f /\ i \in Nat /\ i <= Len(l.slots) /\ 0 <= 3 * n
        BY <1>2, <1>3, <3>1 DEF f
      <4> DEFINE t == 3 * n
      <4>2. t \in Int /\ 0 <= t /\ d = b + f + t
        BY <1>3, <1>12
      <4> HIDE DEF t
      <4>3. Len(l.slots) \in Int /\ b \in Int /\ 0 <= b /\ f \in Int /\ d \in Int
        BY <1>1, <1>2, <1>7
      <4> QED BY <4>1, <4>2, <4>3
    <3> QED BY <1>1, <1>4, <1>8, <3>1, <3>2 DEF Holds
  <2>3. ASSUME NEW j \in 1..m.loops PROVE LoopCells(c, T, u, b + FrameSpan(c, m) + 3 * (j - 1), Looped(m, j - 1))
    <3> DEFINE q == b + FrameSpan(c, l) + 3 * (j - 1)
    <3>1. j \in 1..l.loops /\ j \in Int /\ 1 <= j /\ j <= n
      BY <1>3, <1>4
    <3>2. LoopCells(c, T, r, q, Looped(l, j - 1))
      BY <1>1, <3>1 DEF Holds
    <3>3. q + 1 \in 1..d /\ q + 2 \in 1..d /\ q + 3 \in 1..d
      <4> DEFINE k == j - 1
      <4>1. k \in Int /\ 0 <= k /\ k + 1 <= n /\ q = b + f + 3 * k
        BY <1>3, <3>1 DEF f
      <4> HIDE DEF k, q
      <4>2. 0 <= 3 * k /\ 3 * k + 3 <= 3 * n
        BY <1>3, <4>1
      <4>3. q \in Int /\ 0 <= q /\ q + 3 <= d
        BY <1>1, <1>3, <1>7, <4>1, <4>2
      <4> QED BY <1>7, <4>3
    <3>4. b + FrameSpan(c, m) + 3 * (j - 1) = q /\ Looped(m, j - 1) = Looped(l, j - 1)
      BY <1>4
    <3> HIDE DEF q
    <3>5. LoopCells(c, T, u, q, Looped(l, j - 1))
      BY <1>8, <3>2, <3>3 DEF LoopCells
    <3> QED BY <3>4, <3>5
  <2> QED BY <2>1, <2>2, <2>3 DEF Holds
<1>10. Len(u) = b + Span(c, m) /\ \A i \in 1..b : u[i] = r[i]
  <2>1. Span(c, m) = f + 3 * n
    BY <1>4 DEF f
  <2>2. Len(u) = b + Span(c, m)
    BY <1>1, <1>3, <1>7, <1>8, <2>1
  <2>3. \A i \in 1..b : i \in 1..d
    BY <1>1, <1>7
  <2> QED BY <1>8, <2>2, <2>3
<1>11. x.fp = FpFor(m, b, FpOf(B, Len(B)))
  BY <1>1, <1>4 DEF FpFor
<1> QED BY <1>0, <1>6, <1>8, <1>9, <1>10, <1>11, GoesTo

(* DO puts the address to leave for, the limit and the index above the cells *)
(* of the activation.                                                        *)
LEMMA GoesIntoLoop ==
    ASSUME NEW c, NEW s, NEW v, NEW T, Sealed(c, s, v, T), NEW r, NEW B, NEW x, Runs(c, T, r, B, x),
           NEW to, At(c, T, to, Looped(T[x.at], T[x.at].loops + 1)),
           NEW u \in Cells, Len(u) = Len(r) + 3, \A i \in 1..Len(r) : u[i] = r[i],
           NEW out, At(c, T, out, T[x.at]), u[Len(r) + 1] = <<"leave", out>>,
           u[Len(r) + 2] = <<"limit", 0>>, u[Len(r) + 3] = <<"index", 0>>
    PROVE  Going(c, T, u, to, x.fp)
<1> DEFINE a == x.at
           b == x.base
           l == T[a]
           n == l.loops
           m == Looped(l, n + 1)
           d == Len(r)
<1>1. /\ r \in Cells /\ d \in Nat /\ d = b + Span(c, l) /\ b \in Nat /\ 1 <= b /\ a \in 1..Len(c) /\ IsPlace(c, a)
      /\ x.fp = FpFor(l, b, FpOf(B, Len(B))) /\ Holds(c, T, r, b, l, FpOf(B, Len(B)))
  BY RunsFacts
<1>2. a = x.at /\ b = x.base /\ d = Len(r) /\ At(c, T, to, m) /\ At(c, T, out, l)
  OBVIOUS
<1>3. /\ Len(u) = d + 3 /\ (\A i \in 1..d : u[i] = r[i]) /\ u[d + 1] = <<"leave", out>>
      /\ u[d + 2] = <<"limit", 0>> /\ u[d + 3] = <<"index", 0>>
  OBVIOUS
<1> HIDE DEF a, b, d
<1>4. l.loops \in Nat /\ Len(l.slots) \in Nat /\ FrameSpan(c, l) \in Nat /\ (l.link = 0 => l.slots = << >>)
      /\ (l.link # 0 => Len(l.slots) + 1 <= FrameSpan(c, l) /\ 1 <= FrameSpan(c, l)) /\ l \in Layouts
  BY <1>1, PlaceFacts
<1>5. n \in Nat /\ n = l.loops /\ m = Looped(l, n + 1)
  BY <1>4
<1>6. Looped(l, n) = l
  BY <1>4 DEF Looped, Layouts
<1> HIDE DEF l, m, n
<1>15. b \in Int /\ d \in Int /\ 1 <= b /\ n \in Int /\ 0 <= n
  <2>1. b \in Nat /\ d \in Nat /\ 1 <= b
    BY <1>1
  <2> QED BY <1>5, <2>1
<1>16. d = b + Span(c, l)
  BY <1>1
<1>7. m.link = l.link /\ m.slots = l.slots /\ m.loops = n + 1 /\ FrameSpan(c, m) = FrameSpan(c, l)
  BY <1>5, LoopedFacts
<1>8. \A j : Looped(m, j) = Looped(l, j)
  BY <1>5, LoopedTwice
<1> DEFINE f == FrameSpan(c, l)
<1>9. f \in Nat /\ d = b + f + 3 * n /\ f = FrameSpan(c, l) /\ f = FrameSpan(c, m)
  <2>1. Span(c, l) = f + 3 * n
    BY <1>5 DEF Span
  <2>2. f \in Nat /\ f = FrameSpan(c, m)
    BY <1>4, <1>7
  <2> HIDE DEF f
  <2>3. d = b + f + 3 * n
    BY <1>15, <1>16, <2>1, <2>2
  <2> QED BY <2>2, <2>3 DEF f
<1> HIDE DEF f
<1>17. f \in Int /\ 0 <= f /\ d = b + f + 3 * n /\ 0 <= 3 * n
  <2>1. f \in Nat /\ d = b + f + 3 * n
    BY <1>9
  <2> QED BY <1>15, <2>1
<1>10. Span(c, m) = f + 3 * (n + 1)
  BY <1>7, <1>9 DEF Span
<1>11. Holds(c, T, u, b, m, FpOf(B, Len(B)))
  <2>1. m.link # 0 => u[b + 1] = <<"frame", FpOf(B, Len(B))>>
    <3>1. m.link # 0 => b + 1 \in 1..d
      <4>1. m.link # 0 => 1 <= f
        BY <1>4, <1>7, <1>9
      <4> QED BY <1>15, <1>17, <4>1
    <3> QED BY <1>1, <1>3, <1>7, <3>1 DEF Holds
  <2>2. ASSUME NEW i \in 1..Len(m.slots) PROVE u[b + 1 + i] = <<"slot", m.slots[i]>>
    <3>1. i \in 1..Len(l.slots) /\ l.link # 0
      BY <1>4, <1>7
    <3>2. b + 1 + i \in 1..d
      <4>1. Len(l.slots) + 1 <= f
        BY <1>4, <1>9, <3>1
      <4>2. i \in Int /\ 1 <= i /\ i <= Len(l.slots) /\ Len(l.slots) \in Int
        <5>1. Len(l.slots) \in Nat
          BY <1>4
        <5> QED BY <3>1, <5>1
      <4> DEFINE t == 3 * n
      <4>3. t \in Int /\ 0 <= t /\ d = b + f + t
        BY <1>15, <1>17
      <4> HIDE DEF t
      <4>4. b \in Int /\ d \in Int /\ f \in Int /\ 1 <= b
        BY <1>15, <1>17
      <4>5. 1 <= b + 1 + i
        BY <4>2, <4>4
      <4>6. b + 1 + i <= d
        BY <4>1, <4>2, <4>3, <4>4
      <4> QED BY <4>2, <4>4, <4>5, <4>6
    <3> QED BY <1>1, <1>3, <1>7, <3>1, <3>2 DEF Holds
  <2>3. ASSUME NEW j \in 1..m.loops PROVE LoopCells(c, T, u, b + FrameSpan(c, m) + 3 * (j - 1), Looped(m, j - 1))
    <3> DEFINE q == b + f + 3 * (j - 1)
    <3>1. j \in Int /\ 1 <= j /\ j <= n + 1
      BY <1>5, <1>7
    <3>2. b + FrameSpan(c, m) + 3 * (j - 1) = q /\ Looped(m, j - 1) = Looped(l, j - 1)
      BY <1>8, <1>9
    <3>3. CASE j <= n
      <4>1. LoopCells(c, T, r, q, Looped(l, j - 1))
        <5>1. j \in 1..l.loops
          BY <1>5, <3>1, <3>3
        <5>2. LoopCells(c, T, r, b + FrameSpan(c, l) + 3 * (j - 1), Looped(l, j - 1))
          BY <1>1, <5>1 DEF Holds
        <5> QED BY <1>9, <5>2
      <4>2. q + 1 \in 1..d /\ q + 2 \in 1..d /\ q + 3 \in 1..d
        <5> DEFINE k == j - 1
        <5>1. k \in Int /\ 0 <= k /\ k + 1 <= n /\ q = b + f + 3 * k
          BY <1>15, <3>1, <3>3
        <5> HIDE DEF k, q
        <5>2. 0 <= 3 * k /\ 3 * k + 3 <= 3 * n
          BY <1>15, <5>1
        <5>3. q \in Int /\ 0 <= q /\ q + 3 <= d
          BY <1>15, <1>17, <5>1, <5>2
        <5> QED BY <1>15, <5>3
      <4> HIDE DEF q
      <4>3. LoopCells(c, T, u, q, Looped(l, j - 1))
        BY <1>3, <4>1, <4>2 DEF LoopCells
      <4> QED BY <3>2, <4>3
    <3>4. CASE ~(j <= n)
      <4>1. j - 1 = n
        BY <1>5, <3>1, <3>4
      <4>2. q = d
        BY <1>1, <1>5, <1>9, <4>1
      <4>3. Looped(l, j - 1) = l
        BY <4>1, <1>6
      <4> HIDE DEF q
      <4>4. LoopCells(c, T, u, d, l)
        BY <1>2, <1>3 DEF LoopCells
      <4> QED BY <3>2, <4>2, <4>3, <4>4
    <3> QED BY <3>3, <3>4
  <2> QED BY <2>1, <2>2, <2>3 DEF Holds
<1>12. Len(u) = b + Span(c, m)
  <2>1. Span(c, m) = f + 3 * n + 3
    BY <1>15, <1>17, <1>10
  <2>2. Len(u) = d + 3
    BY <1>3
  <2> DEFINE t == 3 * n
  <2>3. t \in Int /\ d = b + f + t /\ Span(c, m) = f + t + 3
    BY <1>15, <1>17, <2>1
  <2> HIDE DEF t
  <2> QED BY <1>15, <1>17, <2>2, <2>3
<1>13. \A i \in 1..b : u[i] = r[i]
  <2>1. b <= d
    BY <1>15, <1>17
  <2>2. \A i \in 1..b : i \in 1..d
    BY <1>15, <2>1
  <2> QED BY <1>3, <2>2
<1>14. x.fp = FpFor(m, b, FpOf(B, Len(B)))
  BY <1>1, <1>7 DEF FpFor
<1> QED BY <1>2, <1>11, <1>12, <1>13, <1>14, GoesTo

(* The frame that LINK builds: the frame pointer of the caller, then the     *)
(* cells of the locals.                                                      *)
LEMMA GoesIntoFrame ==
    ASSUME NEW c, NEW s, NEW v, NEW T, Sealed(c, s, v, T), NEW r, NEW B, NEW x, Runs(c, T, r, B, x),
           T[x.at] = Bare, NEW to, NEW k \in Int, k # 0, NEW m, m = [link |-> k, slots |-> << >>, loops |-> 0], At(c, T, to, m),
           NEW u \in Cells, Len(u) = Len(r) + 1 + c[k][2], \A i \in 1..Len(r) : u[i] = r[i],
           u[Len(r) + 1] = <<"frame", x.fp>>
    PROVE  Going(c, T, u, to, Len(r) + 2)
<1> DEFINE b == x.base
<1>1. /\ r \in Cells /\ Len(r) = b + Span(c, T[x.at]) /\ b \in Nat /\ 1 <= b
      /\ x.fp = FpFor(T[x.at], b, FpOf(B, Len(B)))
  BY RunsFacts
<1>2. Span(c, Bare) = 0
  BY DEF Span, FrameSpan, Bare
<1>3. Len(r) = b /\ x.fp = FpOf(B, Len(B)) /\ b = x.base
  BY <1>1, <1>2 DEF FpFor, Bare
<1> HIDE DEF b
<1>4. m.link = k /\ m.slots = << >> /\ m.loops = 0
  OBVIOUS
<1>5. Span(c, m) = 1 + c[k][2]
  <2>1. FrameSpan(c, m) = 1 + c[k][2]
    BY <1>4 DEF FrameSpan
  <2>2. to \in 1..Len(c) /\ T[to] = m /\ IsPlace(c, to)
    <3>1. Len(T) = Len(c)
      BY DEF Sealed
    <3> QED BY <3>1 DEF At
  <2>3. FrameSpan(c, m) \in Nat
    BY <2>2, PlaceFacts
  <2> QED BY <1>4, <2>1, <2>3 DEF Span
<1>6. Holds(c, T, u, b, m, FpOf(B, Len(B)))
  BY <1>3, <1>4 DEF Holds
<1>7. Len(u) = b + Span(c, m)
  <2>1. to \in 1..Len(c) /\ T[to] = m /\ IsPlace(c, to)
    <3>1. Len(T) = Len(c)
      BY DEF Sealed
    <3> QED BY <3>1 DEF At
  <2>2. Span(c, m) \in Nat /\ c \in Cells
    BY <2>1, PlaceFacts
  <2>3. IsLink(c, k)
    <3>1. Flows(c, s, v, T, {})
      BY DEF Sealed
    <3>2. Roomy(c, v, m)
      BY <2>1, <3>1 DEF Flows
    <3> QED BY <1>4, <3>2 DEF Roomy
  <2>4. c[k][2] \in Int
    <3>1. c \in Seq(Names \X Int) /\ k \in 1..Len(c)
      BY <2>2, <2>3 DEF Cells, IsLink
    <3>2. c[k] \in Names \X Int
      BY <3>1, ElementOfSeq
    <3> QED BY <3>2
  <2>5. Len(r) = b /\ b \in Nat /\ Len(u) = Len(r) + 1 + c[k][2]
    BY <1>1, <1>3
  <2> DEFINE w == c[k][2]
  <2>6. w \in Int /\ Len(u) = b + 1 + w /\ Span(c, m) = 1 + w
    BY <1>5, <2>4, <2>5
  <2> HIDE DEF w
  <2> QED BY <2>5, <2>6
<1>8. \A i \in 1..b : u[i] = r[i]
  BY <1>3
<1>9. Len(r) + 2 = FpFor(m, b, FpOf(B, Len(B)))
  BY <1>3, <1>4 DEF FpFor
<1> QED BY <1>3, <1>6, <1>7, <1>8, <1>9, GoesTo

(* UNLINK takes the frame off and gets the frame pointer of the caller back. *)
LEMMA GoesOutOfFrame ==
    ASSUME NEW c, NEW s, NEW v, NEW T, Sealed(c, s, v, T), NEW r, NEW B, NEW x, Runs(c, T, r, B, x),
           T[x.at].link # 0, NEW to, At(c, T, to, Bare)
    PROVE  /\ x.fp - 1 \in 1..Len(r) /\ r[x.fp - 1][1] = "frame"
           /\ Going(c, T, SubSeq(r, 1, x.fp - 2), to, r[x.fp - 1][2])
<1> DEFINE b == x.base
           a == x.at
           u == SubSeq(r, 1, x.fp - 2)
           fp == FpOf(B, Len(B))
<1>1. /\ r \in Cells /\ Len(r) \in Nat /\ Len(r) = b + Span(c, T[a]) /\ b \in Nat /\ 1 <= b /\ a \in 1..Len(c) /\ IsPlace(c, a)
      /\ x.fp = FpFor(T[a], b, fp) /\ Holds(c, T, r, b, T[a], fp)
  BY RunsFacts
<1>2. a = x.at /\ b = x.base /\ u = SubSeq(r, 1, x.fp - 2) /\ fp = FpOf(B, Len(B)) /\ T[a].link # 0
  OBVIOUS
<1> HIDE DEF a, b, u, fp
<1>3. Span(c, T[a]) \in Nat /\ FrameSpan(c, T[a]) <= Span(c, T[a]) /\ 1 <= FrameSpan(c, T[a]) /\ FrameSpan(c, T[a]) \in Nat
  BY <1>1, <1>2, PlaceFacts
<1>4. x.fp = b + 2 /\ r[b + 1] = <<"frame", fp>>
  BY <1>1, <1>2 DEF FpFor, Holds
<1>5. x.fp - 1 = b + 1 /\ x.fp - 2 = b /\ b + 1 \in 1..Len(r) /\ b \in 1..Len(r)
  BY <1>1, <1>3, <1>4
<1>6. r[x.fp - 1][1] = "frame" /\ r[x.fp - 1][2] = fp
  BY <1>4, <1>5
<1>7. u \in Cells /\ Len(u) = b /\ \A i \in 1..b : u[i] = r[i]
  <2> DEFINE S == Names \X Int
  <2>1. r \in Seq(S)
    BY <1>1 DEF Cells
  <2>2. u = SubSeq(r, 1, b)
    BY <1>2, <1>5
  <2> HIDE DEF S
  <2>3. u \in Seq(S) /\ Len(u) = b /\ \A i \in 1..b : u[i] = r[i]
    BY <1>1, <1>5, <2>1, <2>2
  <2> QED BY <2>3 DEF S, Cells
<1>8. Span(c, Bare) = 0 /\ Holds(c, T, u, b, Bare, fp) /\ fp = FpFor(Bare, b, fp)
  BY DEF Span, FrameSpan, Holds, FpFor, Bare
<1>9. Len(u) = b + Span(c, Bare)
  BY <1>1, <1>7, <1>8
<1>10. Going(c, T, u, to, fp)
  <2>1. At(c, T, to, Bare)
    OBVIOUS
  <2>2. /\ u \in Cells /\ \A i \in 1..x.base : u[i] = r[i]
        /\ Len(u) = x.base + Span(c, Bare) /\ fp = FpFor(Bare, x.base, FpOf(B, Len(B)))
        /\ Holds(c, T, u, x.base, Bare, FpOf(B, Len(B)))
    BY <1>2, <1>7, <1>8, <1>9
  <2> QED BY <2>1, <2>2, GoesTo
<1> QED BY <1>2, <1>5, <1>6, <1>10

(* w cells from the one at lo are y, the others are as they were.            *)
StoredFrom(u, r, lo, w, y) == \A i \in 1..Len(r) : u[i] = IF lo <= i /\ i < lo + w THEN y ELSE r[i]

\* The cells of a loop lie above those of the frame.
LEMMA CellsAbove ==
    ASSUME NEW b \in Int, NEW f \in Int, NEW o \in Int, NEW w \in Int, NEW d \in Int, NEW q \in Int,
           1 <= b, 0 <= o, 0 <= w, o + w + 1 <= f, b + f <= q, q + 3 <= d
    PROVE  /\ q + 1 \in 1..d /\ q + 2 \in 1..d /\ q + 3 \in 1..d
           /\ ~(q + 1 < b + 2 + o + w) /\ ~(q + 2 < b + 2 + o + w) /\ ~(q + 3 < b + 2 + o + w)
OBVIOUS

\* Slot i of the frame above b is one of the w from offset o on when its cell is.
LEMMA SlotAt ==
    ASSUME NEW b \in Int, NEW i \in Int, NEW o \in Int, NEW w \in Int
    PROVE  /\ b + 2 + o <= b + 1 + i <=> o + 1 <= i
           /\ b + 1 + i < b + 2 + o + w <=> i <= o + w
OBVIOUS

(* TO stores into the cells of its local, which lie in the frame, beneath    *)
(* the loops.                                                                *)
LEMMA GoesStoring ==
    ASSUME NEW c, NEW s, NEW v, NEW T, Sealed(c, s, v, T), NEW r, NEW B, NEW x, Runs(c, T, r, B, x),
           NEW o, NEW w, o = OffsetAt(c, x.at), w = c[x.at][2], o \in Nat, w \in Nat,
           NEW m, Stores(c, s, T[x.at], m, x.at), NEW to, At(c, T, to, m),
           NEW k \in DOMAIN s, WordAt(s, k, x.at), NEW u \in Cells, Len(u) = Len(r),
           StoredFrom(u, r, x.fp + o, w, <<"slot", s[k].local>>)
    PROVE  Going(c, T, u, to, x.fp)
<1> DEFINE a == x.at
           b == x.base
           l == T[a]
           fp == FpOf(B, Len(B))
           d == Len(r)
<1>1. /\ d \in Nat /\ d = b + Span(c, l) /\ b \in Nat /\ 1 <= b /\ a \in 1..Len(c) /\ IsPlace(c, a)
      /\ x.fp = FpFor(l, b, fp) /\ Holds(c, T, r, b, l, fp)
  BY RunsFacts
<1>2. /\ m.link = l.link /\ m.loops = l.loops /\ l.link # 0 /\ (l.loops > 0 => m.slots = l.slots)
      /\ o + w <= Len(m.slots)
  BY DEF Stores
<1>3. \A i \in 1..Len(m.slots) :
          IF o + 1 <= i /\ i <= o + w THEN m.slots[i] = s[k].local
          ELSE i <= Len(l.slots) /\ m.slots[i] = l.slots[i]
  <2>1. PICK kk \in DOMAIN s : /\ WordAt(s, kk, a)
          /\ \A i \in 1..Len(m.slots) :
                IF i \in o + 1..o + w THEN m.slots[i] = s[kk].local
                ELSE i <= Len(l.slots) /\ m.slots[i] = l.slots[i]
    BY DEF Stores
  <2>2. kk = k
    BY <2>1 DEF WordAt
  <2> QED BY <2>1, <2>2
<1>4. a = x.at /\ b = x.base /\ fp = FpOf(B, Len(B)) /\ d = Len(r) /\ d = Len(u)
      /\ (\A i \in 1..d : u[i] = IF x.fp + o <= i /\ i < x.fp + o + w THEN <<"slot", s[k].local>> ELSE r[i])
  BY DEF StoredFrom
<1>5. x.fp = b + 2
  BY <1>1, <1>2 DEF FpFor
<1> HIDE DEF a, b, d, fp
<1>6. to \in 1..Len(c) /\ T[to] = m /\ IsPlace(c, to)
  <2>1. Len(T) = Len(c)
    BY DEF Sealed
  <2> QED BY <2>1 DEF At
<1> DEFINE f == FrameSpan(c, m)
<1>7. Len(m.slots) \in Nat /\ m.loops \in Nat /\ f \in Nat /\ Len(m.slots) + 1 <= f
  BY <1>2, <1>6, PlaceFacts
<1>8. FrameSpan(c, l) = f
  BY <1>2 DEF FrameSpan
<1>9. Span(c, l) = f + 3 * m.loops /\ Span(c, m) = f + 3 * m.loops
  BY <1>2, <1>8 DEF Span
<1> HIDE DEF l, f
<1> DEFINE n == m.loops
<1>10. /\ b \in Int /\ 1 <= b /\ d \in Int /\ f \in Int /\ n \in Int /\ 0 <= n /\ o \in Int /\ 0 <= o /\ w \in Int /\ 0 <= w
       /\ Len(m.slots) \in Int /\ 0 <= Len(m.slots)
       /\ o + w + 1 <= f /\ Len(m.slots) + 1 <= f /\ d = b + f + 3 * n /\ 0 <= 3 * n
  <2>1. d = b + Span(c, l)
    BY <1>1
  <2>2. b \in Nat /\ 1 <= b /\ d \in Nat /\ n \in Nat /\ f \in Nat
    BY <1>1, <1>7
  <2> HIDE DEF n
  <2>3. d = b + f + 3 * n
    <3>1. Span(c, l) = f + 3 * n
      BY <1>9 DEF n
    <3> QED BY <2>1, <2>2, <3>1
  <2>4. o + w + 1 <= f
    BY <1>2, <1>7
  <2>5. 0 <= 3 * n
    BY <2>2
  <2> QED BY <1>7, <2>2, <2>3, <2>4, <2>5
<1> HIDE DEF n
<1>11. \A i \in 1..d : u[i] = IF b + 2 + o <= i /\ i < b + 2 + o + w THEN <<"slot", s[k].local>> ELSE r[i]
  BY <1>4, <1>5
<1>12. Holds(c, T, u, b, m, fp)
  <2>1. u[b + 1] = <<"frame", fp>>
    <3>1. b + 1 \in 1..d /\ ~(b + 2 + o <= b + 1)
      BY <1>10
    <3>2. r[b + 1] = <<"frame", fp>>
      BY <1>1, <1>2 DEF Holds
    <3> QED BY <1>11, <3>1, <3>2
  <2>2. ASSUME NEW i \in 1..Len(m.slots) PROVE u[b + 1 + i] = <<"slot", m.slots[i]>>
    <3> DEFINE q == b + 1 + i
    <3>1. i \in Int /\ 1 <= i /\ i <= Len(m.slots)
      BY <1>10
    <3>2. q \in 1..d
      BY <1>10, <3>1
    <3>3. CASE o + 1 <= i /\ i <= o + w
      <4>1. b + 2 + o <= q /\ q < b + 2 + o + w
        BY <1>10, <3>1, <3>3, SlotAt
      <4>2. m.slots[i] = s[k].local
        BY <1>3, <3>3
      <4> HIDE DEF q
      <4>3. u[q] = <<"slot", m.slots[i]>>
        BY <1>11, <3>2, <4>1, <4>2
      <4> QED BY <4>3 DEF q
    <3>4. CASE ~(o + 1 <= i /\ i <= o + w)
      <4>1. ~(b + 2 + o <= q /\ q < b + 2 + o + w)
        BY <1>10, <3>1, <3>4, SlotAt
      <4>2. i <= Len(l.slots) /\ m.slots[i] = l.slots[i]
        BY <1>3, <3>4
      <4>3. r[q] = <<"slot", m.slots[i]>>
        <5>1. Len(l.slots) \in Nat
          <6>1. T[a] = l
            BY DEF l
          <6> QED BY <1>1, <6>1, PlaceFacts
        <5>2. i \in 1..Len(l.slots)
          BY <3>1, <4>2, <5>1
        <5> QED BY <1>1, <4>2, <5>2 DEF Holds
      <4> HIDE DEF q
      <4>4. u[q] = <<"slot", m.slots[i]>>
        BY <1>11, <3>2, <4>1, <4>3
      <4> QED BY <4>4 DEF q
    <3> QED BY <3>3, <3>4
  <2>3. ASSUME NEW j \in 1..m.loops PROVE LoopCells(c, T, u, b + FrameSpan(c, m) + 3 * (j - 1), Looped(m, j - 1))
    <3> DEFINE q == b + f + 3 * (j - 1)
    <3>1. j \in Int /\ 1 <= j /\ j <= n /\ j \in 1..l.loops
      BY <1>2, <1>10 DEF n
    <3>2. m.slots = l.slots /\ m.link = l.link
      BY <1>2, <1>10, <3>1 DEF n
    <3>3. Looped(m, j - 1) = Looped(l, j - 1)
      BY <3>2 DEF Looped
    <3>4. LoopCells(c, T, r, q, Looped(l, j - 1))
      BY <1>1, <1>8, <3>1 DEF Holds
    <3>5. q \in Int /\ b + f <= q /\ q + 3 <= d
      <4> DEFINE h == j - 1
      <4>1. h \in Int /\ 0 <= h /\ h + 1 <= n /\ q = b + f + 3 * h
        BY <3>1, <1>10
      <4> HIDE DEF h, q
      <4>2. 0 <= 3 * h /\ 3 * h + 3 <= 3 * n
        BY <1>10, <4>1
      <4> QED BY <1>10, <4>1, <4>2
    <3>6. b + FrameSpan(c, m) + 3 * (j - 1) = q
      BY DEF f
    <3> HIDE DEF q
    <3>7. /\ q + 1 \in 1..d /\ q + 2 \in 1..d /\ q + 3 \in 1..d
          /\ ~(q + 1 < b + 2 + o + w) /\ ~(q + 2 < b + 2 + o + w) /\ ~(q + 3 < b + 2 + o + w)
      <4>1. b \in Int /\ f \in Int /\ o \in Int /\ w \in Int /\ d \in Int /\ q \in Int
            /\ 1 <= b /\ 0 <= o /\ 0 <= w /\ o + w + 1 <= f
        BY <1>10, <3>5
      <4> QED BY <3>5, <4>1, CellsAbove
    <3>8. u[q + 1] = r[q + 1] /\ u[q + 2] = r[q + 2] /\ u[q + 3] = r[q + 3]
      BY <1>11, <3>7
    <3>9. LoopCells(c, T, u, q, Looped(l, j - 1))
      BY <3>4, <3>8 DEF LoopCells
    <3> QED BY <3>3, <3>6, <3>9
  <2> QED BY <2>1, <2>2, <2>3 DEF Holds
<1>13. \A i \in 1..b : u[i] = r[i]
  <2>1. \A i \in 1..b : i \in 1..d /\ ~(b + 2 + o <= i)
    BY <1>10
  <2> QED BY <1>11, <2>1
<1>14. Len(u) = b + Span(c, m)
  <2>1. Span(c, m) = f + 3 * n
    BY <1>9 DEF n
  <2> QED BY <1>4, <1>10, <2>1
<1>15. x.fp = FpFor(m, b, fp)
  BY <1>2, <1>5 DEF FpFor
<1>16. /\ \A i \in 1..x.base : u[i] = r[i]
       /\ Len(u) = x.base + Span(c, m) /\ x.fp = FpFor(m, x.base, FpOf(B, Len(B)))
       /\ Holds(c, T, u, x.base, m, FpOf(B, Len(B)))
  BY <1>4, <1>12, <1>13, <1>14, <1>15
<1> QED BY <1>16, GoesTo

(* A call leaves the activation that calls waiting beneath the return        *)
(* address.                                                                  *)
LEMMA GoesInto ==
    ASSUME NEW c, NEW s, NEW v, NEW T, Sealed(c, s, v, T), NEW r, NEW B, NEW x, Runs(c, T, r, B, x),
           NEW back, At(c, T, back, T[x.at]), NEW to, At(c, T, to, Bare),
           NEW u \in Cells, Len(u) = Len(r) + 1, \A i \in 1..Len(r) : u[i] = r[i], u[Len(r) + 1] = Return(back)
    PROVE  Going(c, T, u, to, x.fp)
<1> DEFINE n == Len(B)
           l == T[x.at]
           y == [base |-> x.base, at |-> back, fp |-> x.fp]
           z == [base |-> Len(r) + 1, at |-> to, fp |-> x.fp]
           C == Append(B, y)
<1>1. /\ r \in Cells /\ Len(r) \in Nat /\ Len(r) = x.base + Span(c, T[x.at])
      /\ x.base \in Nat /\ 1 <= x.base /\ x.at \in 1..Len(c) /\ IsPlace(c, x.at) /\ x.fp \in Nat
      /\ Suspended(c, T, r, B) /\ x.base = EndBelow(c, T, B, n) + 1
      /\ EndBelow(c, T, B, n) \in Nat
      /\ B \in Seq(Acts) /\ n \in Nat
  BY RunsFacts
<1>2. Active(c, T, r, x, AtOf(B, n), FpOf(B, n)) /\ Len(r) = EndOfAct(c, T, x)
  BY DEF Runs
<1>3. back \in 1..Len(c) /\ IsPlace(c, back) /\ T[back] = T[x.at] /\ to \in 1..Len(c) /\ IsPlace(c, to) /\ T[to] = Bare
  <2>1. Len(T) = Len(c)
    BY DEF Sealed
  <2> QED BY <2>1 DEF At
<1>4. y \in Acts /\ y.base = x.base /\ y.at = back /\ y.fp = x.fp
      /\ z \in Acts /\ z.base = Len(r) + 1 /\ z.at = to /\ z.fp = x.fp
  BY <1>1, <1>3 DEF Acts
<1> HIDE DEF y, z
<1>5. C \in Seq(Acts) /\ Len(C) = n + 1 /\ C[n + 1] = y /\ \A k \in 1..n : C[k] = B[k]
  BY <1>1, <1>4
<1> HIDE DEF C, n
<1>6. EndOfAct(c, T, y) = Len(r)
  BY <1>1, <1>3, <1>4 DEF EndOfAct
<1>7. Active(c, T, u, y, AtOf(B, n), FpOf(B, n))
  <2>1. Active(c, T, r, y, AtOf(B, n), FpOf(B, n))
    BY <1>2, <1>3, <1>4, <1>6 DEF Active
  <2>2. EndOfAct(c, T, y) <= Len(u) /\ \A i \in 1..EndOfAct(c, T, y) : u[i] = r[i]
    BY <1>1, <1>6
  <2> QED BY <2>1, <2>2, ActiveKept
<1>8. Suspended(c, T, u, B)
  <2> DEFINE e == EndBelow(c, T, B, Len(B))
  <2>1. Span(c, T[x.at]) \in Nat
    BY <1>1, PlaceFacts
  <2>2. e = EndBelow(c, T, B, Len(B)) /\ e \in Nat /\ x.base = e + 1
    BY <1>1 DEF n
  <2> HIDE DEF e
  <2>3. e <= Len(r)
    BY <1>1, <2>1, <2>2
  <2>4. e <= Len(u) /\ \A i \in 1..e : u[i] = r[i]
    BY <1>1, <2>2, <2>3
  <2> QED BY <1>1, <2>2, <2>4, SuspendedKept
<1>9. /\ AtOf(C, n + 1) = back /\ FpOf(C, n + 1) = x.fp /\ EndBelow(c, T, C, n + 1) = Len(r)
      /\ \A k \in 1..n + 1 : AtOf(C, k - 1) = AtOf(B, k - 1) /\ FpOf(C, k - 1) = FpOf(B, k - 1)
                             /\ EndBelow(c, T, C, k - 1) = EndBelow(c, T, B, k - 1)
  <2>1. n + 1 # 0
    BY <1>1
  <2>2. AtOf(C, n + 1) = back /\ FpOf(C, n + 1) = x.fp /\ EndBelow(c, T, C, n + 1) = Len(r)
    BY <2>1, <1>4, <1>5, <1>6 DEF AtOf, FpOf, EndBelow
  <2>3. ASSUME NEW k \in 1..n + 1
        PROVE  AtOf(C, k - 1) = AtOf(B, k - 1) /\ FpOf(C, k - 1) = FpOf(B, k - 1)
               /\ EndBelow(c, T, C, k - 1) = EndBelow(c, T, B, k - 1)
    <3> DEFINE h == k - 1
    <3>1. h = 0 \/ h \in 1..n
      BY <1>1
    <3> HIDE DEF h
    <3>2. AtOf(C, h) = AtOf(B, h) /\ FpOf(C, h) = FpOf(B, h) /\ EndBelow(c, T, C, h) = EndBelow(c, T, B, h)
      BY <3>1, <1>5 DEF AtOf, FpOf, EndBelow
    <3> QED BY <3>2 DEF h
  <2> QED BY <2>2, <2>3
<1>10. Suspended(c, T, u, C)
  <2>1. ASSUME NEW k \in 1..n + 1
        PROVE  Active(c, T, u, C[k], AtOf(C, k - 1), FpOf(C, k - 1)) /\ C[k].base = EndBelow(c, T, C, k - 1) + 1
    <3>1. CASE k = n + 1
      <4>1. k - 1 = n /\ C[k] = y
        BY <1>1, <1>5, <3>1
      <4> QED BY <1>1, <1>4, <1>7, <1>9, <4>1
    <3>2. CASE k # n + 1
      <4>1. k \in 1..n
        BY <1>1, <3>2
      <4>2. k \in 1..Len(B) /\ C[k] = B[k]
        BY <4>1, <1>5 DEF n
      <4>3. Active(c, T, u, B[k], AtOf(B, k - 1), FpOf(B, k - 1)) /\ B[k].base = EndBelow(c, T, B, k - 1) + 1
        BY <1>8, <4>2 DEF Suspended
      <4> QED BY <1>9, <4>2, <4>3
    <3> QED BY <3>1, <3>2
  <2>2. ASSUME NEW j \in 1..n + 1, NEW k \in 1..n + 1, j < k
        PROVE  EndOfAct(c, T, C[j]) < C[k].base
    <3>1. j \in 1..n /\ j \in 1..Len(B) /\ C[j] = B[j]
      <4>1. j \in 1..n
        BY <1>1, <2>2
      <4> QED BY <4>1, <1>5 DEF n
    <3>2. CASE k # n + 1
      <4>1. k \in 1..n
        BY <1>1, <3>2
      <4>2. k \in 1..Len(B) /\ C[k] = B[k]
        BY <4>1, <1>5 DEF n
      <4> QED BY <3>1, <4>2, <2>2, <1>8 DEF Suspended
    <3>3. CASE k = n + 1
      <4>1. C[k].base = x.base
        BY <3>3, <1>4, <1>5
      <4>2. n \in 1..Len(B) /\ n # 0 /\ n = Len(B)
        BY <3>1, <1>1 DEF n
      <4>3. x.base = EndOfAct(c, T, B[n]) + 1
        BY <1>1, <4>2 DEF EndBelow
      <4>4. EndOfAct(c, T, B[n]) \in Nat /\ B[n].base \in Nat /\ B[n].base <= EndOfAct(c, T, B[n])
        <5>1. Active(c, T, r, B[n], AtOf(B, n - 1), FpOf(B, n - 1))
          BY <1>1, <4>2 DEF Suspended
        <5> QED BY <5>1, ActiveFacts
      <4>5. EndOfAct(c, T, B[j]) \in Nat
        <5>1. Active(c, T, r, B[j], AtOf(B, j - 1), FpOf(B, j - 1))
          BY <1>1, <3>1 DEF Suspended
        <5> QED BY <5>1, ActiveFacts
      <4>6. CASE j = n
        BY <3>1, <4>1, <4>3, <4>4, <4>6
      <4>7. CASE j < n
        <5>1. EndOfAct(c, T, B[j]) < B[n].base
          BY <1>1, <3>1, <4>2, <4>7 DEF Suspended
        <5> QED BY <3>1, <4>1, <4>3, <4>4, <4>5, <5>1
      <4>8. j = n \/ j < n
        BY <1>1, <3>1
      <4> QED BY <4>6, <4>7, <4>8
    <3> QED BY <3>2, <3>3
  <2> QED BY <1>5, <2>1, <2>2 DEF Suspended
<1>11. EndOfAct(c, T, z) = Len(r) + 1
  <2>1. Span(c, Bare) = 0
    BY DEF Span, FrameSpan, Bare
  <2> QED BY <1>1, <1>3, <1>4, <2>1 DEF EndOfAct
<1>12. Active(c, T, u, z, back, x.fp)
  <2>1. Holds(c, T, u, Len(r) + 1, Bare, x.fp)
    BY DEF Holds, Bare
  <2>2. Bare.link = 0
    BY DEF Bare
  <2>3. 1 <= z.base /\ EndOfAct(c, T, z) <= Len(u) /\ u[z.base] = Return(back)
    BY <1>1, <1>4, <1>11
  <2> QED BY <1>3, <1>4, <2>1, <2>2, <2>3 DEF Active
<1>13. Runs(c, T, u, C, z)
  BY <1>4, <1>5, <1>9, <1>10, <1>11, <1>12 DEF Runs
<1> QED BY <1>4, <1>13 DEF Going

(* A return goes on where the one that waits beneath was, with its frame;    *)
(* the last one ends the run.                                                *)
LEMMA GoesBack ==
    ASSUME NEW c, NEW s, NEW v, NEW T, Sealed(c, s, v, T), NEW r, NEW B, NEW x, Runs(c, T, r, B, x),
           T[x.at] = Bare, NEW u, u = SubSeq(r, 1, Len(r) - 1)
    PROVE  /\ r # << >> /\ Len(r) \in 1..Len(r) /\ r[Len(r)][1] = "return"
           /\ \/ r[Len(r)] = Return(0) /\ u = << >> /\ x.fp = 0
              \/ r[Len(r)] # Return(0) /\ Going(c, T, u, r[Len(r)][2], x.fp)
<1> DEFINE n == Len(B)
           b == x.base
<1>1. /\ r \in Cells /\ Len(r) \in Nat /\ Len(r) = b + Span(c, T[x.at]) /\ b \in Nat /\ 1 <= b
      /\ r[b] = Return(AtOf(B, n))
      /\ x.fp = FpFor(T[x.at], b, FpOf(B, n))
      /\ Suspended(c, T, r, B) /\ b = EndBelow(c, T, B, n) + 1
      /\ EndBelow(c, T, B, n) \in Nat /\ B \in Seq(Acts) /\ n \in Nat
  BY RunsFacts
<1>2. Span(c, Bare) = 0 /\ Bare.link = 0
  BY DEF Span, FrameSpan, Bare
<1>3. Len(r) = b /\ x.fp = FpOf(B, n)
  BY <1>1, <1>2 DEF FpFor
<1> HIDE DEF n, b
<1>4. r # << >> /\ Len(r) \in 1..Len(r) /\ r[Len(r)] = Return(AtOf(B, n)) /\ r[Len(r)][1] = "return" /\ r[Len(r)][2] = AtOf(B, n)
  <2>1. r[Len(r)] = Return(AtOf(B, n))
    BY <1>1, <1>3
  <2> QED BY <1>1, <1>3, <2>1 DEF Return
<1>5. u \in Cells /\ Len(u) = b - 1 /\ \A i \in 1..b - 1 : u[i] = r[i]
  <2> DEFINE S == Names \X Int
  <2>1. r \in Seq(S) /\ u = SubSeq(r, 1, b - 1)
    BY <1>1, <1>3 DEF Cells
  <2> HIDE DEF S
  <2>2. u \in Seq(S) /\ Len(u) = b - 1 /\ \A i \in 1..b - 1 : u[i] = r[i]
    BY <1>1, <1>3, <2>1
  <2> QED BY <2>2 DEF S, Cells
<1>6. CASE n = 0
  <2>1. r[Len(r)] = Return(0) /\ x.fp = 0
    BY <1>3, <1>4, <1>6 DEF AtOf, FpOf
  <2>2. b = 1
    BY <1>1, <1>6 DEF EndBelow
  <2>3. u = << >>
    <3>1. Len(u) = 0
      BY <1>5, <2>2
    <3> QED BY <1>5, <3>1 DEF Cells
  <2> QED BY <1>4, <2>1, <2>3
<1>7. CASE n # 0
  <2> DEFINE y == B[n]
             C == SubSeq(B, 1, n - 1)
             e == b - 1
  <2>1. n \in 1..n /\ n \in 1..Len(B) /\ n = Len(B) /\ n - 1 \in Nat /\ e \in Nat
    BY <1>1, <1>7 DEF n
  <2>2. Active(c, T, r, y, AtOf(B, n - 1), FpOf(B, n - 1)) /\ y.base = EndBelow(c, T, B, n - 1) + 1
    BY <1>1, <2>1 DEF Suspended
  <2>3. y \in Acts /\ AtOf(B, n) = y.at /\ FpOf(B, n) = y.fp /\ EndBelow(c, T, B, n) = EndOfAct(c, T, y)
    BY <1>7, <2>2 DEF AtOf, FpOf, EndBelow, Active
  <2>4. EndOfAct(c, T, y) = e /\ y.at \in 1..Len(c) /\ y.base \in Nat /\ y.base <= e /\ 1 <= y.base
    <3>1. EndOfAct(c, T, y) \in Nat /\ y.at \in 1..Len(c) /\ y.base \in Nat /\ y.base <= EndOfAct(c, T, y) /\ 1 <= y.base
      BY <2>2, ActiveFacts
    <3> QED BY <1>1, <2>3, <3>1, SMTT(20)
  <2>5. r[Len(r)] # Return(0)
    <3>1. AtOf(B, n) # 0
      <4>1. Len(c) \in Nat
        <5>1. Flows(c, s, v, T, {})
          BY DEF Sealed
        <5> QED BY <5>1, FlowsFacts
      <4> QED BY <2>3, <2>4, <4>1
    <3> QED BY <1>4, <3>1 DEF Return
  <2>6. C \in Seq(Acts) /\ Len(C) = n - 1 /\ \A k \in 1..n - 1 : C[k] = B[k]
    <3>1. C = SubSeq(B, 1, n - 1)
      OBVIOUS
    <3> HIDE DEF C, y, e
    <3> QED BY <1>1, <2>1, <3>1
  <2> HIDE DEF C, y, e
  <2>7. Active(c, T, u, y, AtOf(B, n - 1), FpOf(B, n - 1))
    <3>1. EndOfAct(c, T, y) <= Len(u) /\ \A i \in 1..EndOfAct(c, T, y) : u[i] = r[i]
      BY <1>1, <1>5, <2>4 DEF e
    <3> QED BY <2>2, <3>1, ActiveKept
  <2>8. \A k \in 1..n : AtOf(C, k - 1) = AtOf(B, k - 1) /\ FpOf(C, k - 1) = FpOf(B, k - 1)
                        /\ EndBelow(c, T, C, k - 1) = EndBelow(c, T, B, k - 1)
    <3> SUFFICES ASSUME NEW k \in 1..n
                 PROVE  AtOf(C, k - 1) = AtOf(B, k - 1) /\ FpOf(C, k - 1) = FpOf(B, k - 1)
                        /\ EndBelow(c, T, C, k - 1) = EndBelow(c, T, B, k - 1)
      OBVIOUS
    <3> DEFINE h == k - 1
    <3>1. h = 0 \/ h \in 1..n - 1
      BY <1>1
    <3> HIDE DEF h
    <3>2. AtOf(C, h) = AtOf(B, h) /\ FpOf(C, h) = FpOf(B, h) /\ EndBelow(c, T, C, h) = EndBelow(c, T, B, h)
      BY <3>1, <2>6 DEF AtOf, FpOf, EndBelow
    <3> QED BY <3>2 DEF h
  <2>9. Suspended(c, T, u, C)
    <3>1. ASSUME NEW k \in 1..n - 1
          PROVE  Active(c, T, u, C[k], AtOf(C, k - 1), FpOf(C, k - 1)) /\ C[k].base = EndBelow(c, T, C, k - 1) + 1
      <4>1. k \in 1..n /\ k \in 1..Len(B) /\ k < n /\ C[k] = B[k]
        BY <2>1, <2>6
      <4>2. Active(c, T, r, B[k], AtOf(B, k - 1), FpOf(B, k - 1)) /\ B[k].base = EndBelow(c, T, B, k - 1) + 1
            /\ EndOfAct(c, T, B[k]) < y.base
        BY <1>1, <2>1, <4>1 DEF Suspended, y
      <4>3. EndOfAct(c, T, B[k]) \in Nat
        BY <4>2, ActiveFacts
      <4>4. EndOfAct(c, T, B[k]) <= Len(u) /\ \A i \in 1..EndOfAct(c, T, B[k]) : u[i] = r[i]
        <5>1. EndOfAct(c, T, B[k]) <= e
          BY <2>1, <2>4, <4>2, <4>3
        <5>2. Len(u) = e /\ \A i \in 1..e : u[i] = r[i]
          BY <1>5 DEF e
        <5> QED BY <2>1, <4>3, <5>1, <5>2
      <4>5. Active(c, T, u, B[k], AtOf(B, k - 1), FpOf(B, k - 1))
        BY <4>2, <4>4, ActiveKept
      <4> QED BY <2>8, <4>1, <4>2, <4>5
    <3>2. ASSUME NEW j \in 1..n - 1, NEW k \in 1..n - 1, j < k
          PROVE  EndOfAct(c, T, C[j]) < C[k].base
      <4>1. j \in 1..Len(B) /\ k \in 1..Len(B) /\ C[j] = B[j] /\ C[k] = B[k]
        BY <2>1, <2>6, SMTT(20)
      <4> QED BY <1>1, <3>2, <4>1 DEF Suspended
    <3> QED BY <2>6, <3>1, <3>2 DEF Suspended
  <2>10. Runs(c, T, u, C, y)
    <3>1. AtOf(C, n - 1) = AtOf(B, n - 1) /\ FpOf(C, n - 1) = FpOf(B, n - 1) /\ EndBelow(c, T, C, n - 1) = EndBelow(c, T, B, n - 1)
      BY <2>1, <2>8
    <3>2. Len(u) = EndOfAct(c, T, y)
      BY <1>5, <2>4 DEF e
    <3> QED BY <1>5, <2>2, <2>6, <2>7, <2>9, <3>1, <3>2 DEF Runs
  <2>11. Going(c, T, u, AtOf(B, n), x.fp)
    BY <1>3, <2>3, <2>10 DEF Going
  <2> QED BY <1>4, <2>5, <2>11
<1> QED BY <1>6, <1>7

(* The host calls the definition.                                            *)
LEMMA GoesFirst ==
    ASSUME NEW c, NEW s, NEW v, NEW T, Sealed(c, s, v, T), NEW to, At(c, T, to, Bare),
           NEW u \in Cells, Len(u) = 1, u[1] = Return(0)
    PROVE  Going(c, T, u, to, 0)
<1> DEFINE B == << >>
           z == [base |-> 1, at |-> to, fp |-> 0]
<1>1. to \in 1..Len(c) /\ IsPlace(c, to) /\ T[to] = Bare
  <2>1. Len(T) = Len(c)
    BY DEF Sealed
  <2> QED BY <2>1 DEF At
<1>2. z \in Acts /\ z.base = 1 /\ z.at = to /\ z.fp = 0
  BY <1>1 DEF Acts
<1>3. B \in Seq(Acts) /\ Len(B) = 0
  OBVIOUS
<1> HIDE DEF z, B
<1>4. AtOf(B, Len(B)) = 0 /\ FpOf(B, Len(B)) = 0 /\ EndBelow(c, T, B, Len(B)) = 0
  BY <1>3 DEF AtOf, FpOf, EndBelow
<1>5. Span(c, Bare) = 0 /\ Bare.link = 0 /\ Holds(c, T, u, 1, Bare, 0)
  BY DEF Span, FrameSpan, Bare, Holds
<1>6. EndOfAct(c, T, z) = 1
  BY <1>1, <1>2, <1>5 DEF EndOfAct
<1>7. Active(c, T, u, z, 0, 0)
  <2>1. 1 <= z.base /\ EndOfAct(c, T, z) <= Len(u) /\ u[z.base] = Return(0)
    BY <1>2, <1>6
  <2> QED BY <1>1, <1>2, <1>5, <2>1 DEF Active
<1>8. Suspended(c, T, u, B)
  BY <1>3 DEF Suspended
<1>9. z.base = 0 + 1 /\ Len(u) = EndOfAct(c, T, z)
  BY <1>2, <1>6
<1>10. Runs(c, T, u, B, z)
  BY <1>4, <1>7, <1>8, <1>9 DEF Runs
<1> QED BY <1>2, <1>10 DEF Going

(* A definition whose jumps have been rewritten runs on where it was.        *)
LEMMA SpanSame ==
    ASSUME NEW c, NEW s, NEW v, NEW T, Sealed(c, s, v, T), NEW e, SameFlow(c, s, v, T, e),
           NEW a \in 1..Len(c), IsPlace(c, a)
    PROVE  FrameSpan(e, T[a]) = FrameSpan(c, T[a]) /\ Span(e, T[a]) = Span(c, T[a])
<1>1. FrameSpan(e, T[a]) = FrameSpan(c, T[a])
  <2>1. Flows(c, s, v, T, {})
    BY DEF Sealed
  <2>2. Roomy(c, v, T[a])
    BY <2>1 DEF Flows
  <2>3. T[a].link # 0 => e[T[a].link][2] = c[T[a].link][2]
    BY <2>2 DEF Roomy, SameFlow
  <2> QED BY <2>3 DEF FrameSpan
<1> QED BY <1>1 DEF Span

\* An activation of a definition is one of it after its jumps were rewritten.
LEMMA ActiveSame ==
    ASSUME NEW c, NEW s, NEW v, NEW T, Sealed(c, s, v, T), NEW e, SameFlow(c, s, v, T, e),
           NEW r, NEW x, NEW to, NEW caller, Active(c, T, r, x, to, caller)
    PROVE  Active(e, T, r, x, to, caller) /\ EndOfAct(e, T, x) = EndOfAct(c, T, x)
<1>1. x.base \in Nat /\ x.at \in 1..Len(c) /\ IsPlace(c, x.at) /\ Len(T) = Len(c) /\ Len(e) = Len(c)
  BY ActiveFacts DEF Sealed, SameFlow
<1>2. FrameSpan(e, T[x.at]) = FrameSpan(c, T[x.at]) /\ Span(e, T[x.at]) = Span(c, T[x.at])
  BY <1>1, SpanSame
<1>3. EndOfAct(e, T, x) = EndOfAct(c, T, x)
  BY <1>2 DEF EndOfAct
<1>4. \A b, l : At(c, T, b, l) => At(e, T, b, l)
  BY DEF SameFlow
<1>5. IsPlace(e, x.at)
  <2>1. At(c, T, x.at, T[x.at])
    BY <1>1 DEF At
  <2>2. At(e, T, x.at, T[x.at])
    BY <1>4, <2>1
  <2> QED BY <2>2 DEF At
<1>6. Holds(e, T, r, x.base, T[x.at], caller)
  <2> DEFINE l == T[x.at]
  <2>1. Holds(c, T, r, x.base, l, caller)
    BY DEF Active
  <2> HIDE DEF l
  <2>2. ASSUME NEW j \in 1..l.loops
        PROVE  LoopCells(e, T, r, x.base + FrameSpan(c, l) + 3 * (j - 1), Looped(l, j - 1))
    <3> DEFINE q == x.base + FrameSpan(c, l) + 3 * (j - 1)
    <3>1. LoopCells(c, T, r, q, Looped(l, j - 1))
      BY <2>1 DEF Holds
    <3> HIDE DEF q
    <3>2. LoopCells(e, T, r, q, Looped(l, j - 1))
      BY <1>4, <3>1 DEF LoopCells
    <3> QED BY <3>2 DEF q
  <2>3. FrameSpan(e, l) = FrameSpan(c, l)
    BY <1>2 DEF l
  <2>4. Holds(e, T, r, x.base, l, caller)
    BY <2>1, <2>2, <2>3 DEF Holds
  <2> QED BY <2>4 DEF l
<1> QED BY <1>1, <1>3, <1>5, <1>6 DEF Active

\* All activations of a definition are, after its jumps were rewritten.
LEMMA GoesSame ==
    ASSUME NEW c, NEW s, NEW v, NEW T, Sealed(c, s, v, T), NEW e, SameFlow(c, s, v, T, e),
           NEW r, NEW B, NEW x, Runs(c, T, r, B, x)
    PROVE  Sealed(e, s, v, T) /\ Runs(e, T, r, B, x)
<1>1. Sealed(e, s, v, T)
  BY DEF Sealed, SameFlow
<1>2. r \in Cells /\ Suspended(c, T, r, B) /\ Active(c, T, r, x, AtOf(B, Len(B)), FpOf(B, Len(B)))
      /\ x.base = EndBelow(c, T, B, Len(B)) + 1 /\ Len(r) = EndOfAct(c, T, x)
  BY DEF Runs
<1>3. B \in Seq(Acts) /\ Len(B) \in Nat
  BY <1>2 DEF Suspended
<1>4. ASSUME NEW k \in 1..Len(B)
      PROVE  Active(e, T, r, B[k], AtOf(B, k - 1), FpOf(B, k - 1)) /\ EndOfAct(e, T, B[k]) = EndOfAct(c, T, B[k])
  <2>1. Active(c, T, r, B[k], AtOf(B, k - 1), FpOf(B, k - 1))
    BY <1>2 DEF Suspended
  <2> QED BY <2>1, ActiveSame
<1>5. \A k \in 0..Len(B) : EndBelow(e, T, B, k) = EndBelow(c, T, B, k)
  <2>1. \A k \in 0..Len(B) : k = 0 \/ k \in 1..Len(B)
    BY <1>3
  <2> QED BY <1>4, <2>1 DEF EndBelow
<1>6. Suspended(e, T, r, B)
  <2>1. ASSUME NEW k \in 1..Len(B) PROVE B[k].base = EndBelow(e, T, B, k - 1) + 1
    <3>1. k - 1 \in 0..Len(B)
      BY <1>3
    <3>2. B[k].base = EndBelow(c, T, B, k - 1) + 1
      BY <1>2 DEF Suspended
    <3>3. EndBelow(e, T, B, k - 1) = EndBelow(c, T, B, k - 1)
      BY <1>5, <3>1
    <3> QED BY <3>2, <3>3
  <2>2. ASSUME NEW j \in 1..Len(B), NEW k \in 1..Len(B), j < k
        PROVE  EndOfAct(e, T, B[j]) < B[k].base
    BY <1>2, <1>4, <2>2 DEF Suspended
  <2> QED BY <1>3, <1>4, <2>1, <2>2 DEF Suspended
<1>7. Active(e, T, r, x, AtOf(B, Len(B)), FpOf(B, Len(B))) /\ EndOfAct(e, T, x) = EndOfAct(c, T, x)
  BY <1>2, ActiveSame
<1>8. EndBelow(e, T, B, Len(B)) = EndBelow(c, T, B, Len(B))
  BY <1>3, <1>5
<1> QED BY <1>1, <1>2, <1>6, <1>7, <1>8 DEF Runs

-----------------------------------------------------------------------------
(* The actions of the inner loop.                                          *)

\* The layouts and the activations of a run.
LEMMA Now ==
    ASSUME IInv, mode = "run"
    PROVE  \E T, B, x : /\ Sealed(code, source, locals, T) /\ Runs(code, T, returns, B, x)
                        /\ x.at = ip /\ x.fp = frame
BY DEF IInv, RunInv, Going, returns, ip, frame

\* The activation that runs, read off the variables.
LEMMA NowFacts ==
    ASSUME NEW T, NEW B, NEW x, Sealed(code, source, locals, T), Runs(code, T, returns, B, x), x.at = ip, x.fp = frame
    PROVE  /\ ip \in 1..Len(code) /\ ip \in DOMAIN code /\ IsPlace(code, ip)
           /\ Rest(code, source, T, ip) /\ Jumped(code, T, ip) /\ T[ip] \in Layouts
           /\ returns \in Cells /\ Depth \in Nat /\ Depth = Len(returns) /\ frame \in Nat /\ Name = code[ip][1]
           /\ Name \notin {"operand", "counted", "text"}
           /\ code \in Cells /\ Len(code) \in Nat /\ \A b \in 1..Len(code) : code[b][2] \in Int
<1>1. ip \in 1..Len(code) /\ IsPlace(code, ip) /\ returns \in Cells /\ Len(returns) \in Nat /\ frame \in Nat
  BY RunsFacts
<1>2. Rest(code, source, T, ip) /\ Jumped(code, T, ip) /\ T[ip] \in Layouts /\ code \in Cells /\ Len(code) \in Nat
  BY <1>1, PlaceFacts
<1>3. Name \notin {"operand", "counted", "text"}
  BY <1>1 DEF IsPlace, Name
<1>4. \A b \in 1..Len(code) : code[b][2] \in Int
  <2>1. Flows(code, source, locals, T, {})
    BY DEF Sealed
  <2> QED BY <2>1, FlowsFacts
<1>5. ip \in DOMAIN code
  BY <1>1, <1>2 DEF Cells
<1> QED BY <1>1, <1>2, <1>3, <1>4, <1>5 DEF Depth, Name

(* A step that changes only the run.                                         *)
LEMMA RunsOn ==
    ASSUME StaticInv, mode = "run", Kept, NEW T, Sealed(code, source, locals, T),
           NEW to, NEW u, NEW fp, Went(to, u, fp), Going(code, T, u, to, fp)
    PROVE  IInv'
<1>1. /\ code' = code /\ source' = source /\ locals' = locals /\ mode' = mode /\ family' = family
      /\ run'.ip = to /\ run'.returns = u /\ run'.frame = fp
  BY DEF Kept, Went
<1>2. StaticInv'
  BY <1>1 DEF StaticInv, IdleInv, CompileInv, ReadyInv
<1>3. RunInv'
  BY <1>1 DEF RunInv
<1> QED BY <1>2, <1>3 DEF IInv

\* A step that goes to a place with the layout it has, and changes nothing else.
LEMMA GoesKept ==
    ASSUME StaticInv, mode = "run", Kept, NEW T, NEW B, NEW x, Sealed(code, source, locals, T),
           Runs(code, T, returns, B, x), x.at = ip, x.fp = frame, NEW to, Goes(to), At(code, T, to, T[ip])
    PROVE  IInv'
<1>1. Going(code, T, returns, to, frame)
  BY GoesOn
<1> QED BY <1>1, RunsOn DEF Goes

\* A literal, over its operands.
LEMMA LiteralParenKeeps ==
    ASSUME IInv, LiteralParen
    PROVE  IInv'
<1>1. mode = "run" /\ StaticInv /\ Kept /\ Name \in {"plain", "i", "literal", "2literal", "sliteral"}
  BY DEF LiteralParen, Running, IInv
<1>2. PICK T, B, x : /\ Sealed(code, source, locals, T) /\ Runs(code, T, returns, B, x)
                     /\ x.at = ip /\ x.fp = frame
  BY <1>1, Now
<1>3. ip \in 1..Len(code) /\ Rest(code, source, T, ip) /\ Name = code[ip][1] /\ Len(code) \in Nat
  BY <1>2, NowFacts
<1>4. CASE Name \in {"plain", "i"}
  <2>1. Goes(ip + 1)
    BY <1>4 DEF LiteralParen
  <2>2. At(code, T, ip + 1, T[ip])
    BY <1>3, <1>4 DEF Rest, Branches, Dos, Loopings, Gets, Tos
  <2> QED BY <1>1, <1>2, <2>1, <2>2, GoesKept
<1>5. CASE Name = "literal"
  <2>1. Goes(ip + 2)
    BY <1>5 DEF LiteralParen
  <2>2. At(code, T, ip + 2, T[ip])
    BY <1>3, <1>5 DEF Rest, Branches, Dos, Loopings, Gets, Tos
  <2> QED BY <1>1, <1>2, <2>1, <2>2, GoesKept
<1>6. CASE Name = "2literal"
  <2>1. Goes(ip + 3)
    BY <1>6 DEF LiteralParen
  <2>2. At(code, T, ip + 3, T[ip])
    BY <1>3, <1>6 DEF Rest, Branches, Dos, Loopings, Gets, Tos
  <2> QED BY <1>1, <1>2, <2>1, <2>2, GoesKept
<1>7. CASE Name = "sliteral"
  <2> DEFINE n == TextCells(OperandAt(ip + 1))
  <2>1. Goes(ip + (1 + n))
    BY <1>7 DEF LiteralParen
  <2>2. n = TextCells(code[ip + 1][2]) /\ At(code, T, ip + 1 + n, T[ip]) /\ ip + 1 \in 1..Len(code)
    BY <1>3, <1>7 DEF Rest, Branches, Dos, Loopings, Gets, Tos, OperandAt
  <2>3. ip + (1 + n) = ip + 1 + n
    <3>1. code[ip + 1][2] \in Int
      BY <1>2, <2>2, NowFacts
    <3>2. TextCells(code[ip + 1][2]) \in Int
      <4> DEFINE k == code[ip + 1][2]
      <4>1. k \in Int
        BY <3>1
      <4> HIDE DEF k
      <4>2. TextCells(k) \in Int
        BY <4>1 DEF TextCells, CellSize
      <4> QED BY <4>2 DEF k
    <3>3. n \in Int
      BY <2>2, <3>2
    <3> HIDE DEF n
    <3> QED BY <1>3, <3>3
  <2> HIDE DEF n
  <2>4. Goes(ip + 1 + n)
    BY <2>1, <2>3
  <2> QED BY <1>1, <1>2, <2>2, <2>4, GoesKept
<1> QED BY <1>1, <1>4, <1>5, <1>6, <1>7

\* OF, when the values are equal and when they are not.
LEMMA OfParenKeeps ==
    ASSUME IInv, OfParen
    PROVE  IInv'
<1>1. mode = "run" /\ StaticInv /\ Kept /\ Name = "of("
  BY DEF OfParen, Running, IInv
<1>2. PICK T, B, x : /\ Sealed(code, source, locals, T) /\ Runs(code, T, returns, B, x)
                     /\ x.at = ip /\ x.fp = frame
  BY <1>1, Now
<1>3. Rest(code, source, T, ip) /\ Jumped(code, T, ip) /\ code[ip][1] = "of("
  BY <1>1, <1>2, NowFacts
<1>4. At(code, T, ip + 2, T[ip]) /\ At(code, T, BranchTarget(code, ip), T[ip])
  BY <1>3 DEF Rest, Jumped, Branches, Dos, Loopings, Gets, Tos
<1>5. Goes(ip + 2) \/ Goes(BranchTarget(code, ip))
  BY DEF OfParen
<1> QED BY <1>1, <1>2, <1>4, <1>5, GoesKept

(* Control goes on in the definition as it has been rewritten, with what the *)
(* layouts of the old one say of the new one.                                *)
LEMMA BranchKeeps ==
    ASSUME IInv, Branch
    PROVE  IInv'
<1>1. /\ mode = "run" /\ StaticInv /\ Name \in {"branch", "branchCheck", "branch0", "branch0Check"}
      /\ code' = Optimised(code, ip) /\ mode' = "run" /\ source' = source /\ locals' = locals /\ family' = family
  BY DEF Branch, Running, IInv
<1>2. PICK T, B, x : /\ Sealed(code, source, locals, T) /\ Runs(code, T, returns, B, x)
                     /\ x.at = ip /\ x.fp = frame
  BY <1>1, Now
<1>3. ip \in 1..Len(code) /\ IsPlace(code, ip) /\ code[ip][1] \in Branches
  BY <1>1, <1>2, NowFacts DEF Branches
<1> DEFINE e == Optimised(code, ip)
<1>4. SameFlow(code, source, locals, T, e)
  <2>1. Flows(code, source, locals, T, {}) /\ Len(T) = Len(code) /\ locals.count = 0
    BY <1>2 DEF Sealed
  <2> QED BY <1>3, <2>1, OptimisedFlows
<1>5. code' = e
  BY <1>1
<1> HIDE DEF e
<1>6. Sealed(e, source, locals, T) /\ Runs(e, T, returns, B, x)
  BY <1>2, <1>4, GoesSame
<1>7. Len(e) = Len(code) /\ e[ip][1] \in Branches
  BY <1>3, <1>4 DEF SameFlow
<1>8. Rest(e, source, T, ip) /\ Jumped(e, T, ip)
  <2>1. x.at \in 1..Len(e) /\ IsPlace(e, x.at)
    BY <1>6, RunsFacts
  <2> QED BY <1>2, <1>6, <2>1, PlaceFacts
<1>9. At(e, T, ip + 2, T[ip]) /\ At(e, T, BranchTarget(e, ip), T[ip])
  BY <1>7, <1>8 DEF Rest, Jumped, Branches, Dos, Loopings, Gets, Tos
<1>10. Goes(ip + 2) \/ Goes(BranchTarget(e, ip))
  BY <1>5 DEF Branch
<1>11. PICK to \in {ip + 2, BranchTarget(e, ip)} : Goes(to)
  BY <1>10
<1>12. Going(e, T, returns, to, frame)
  BY <1>2, <1>6, <1>9, <1>11, GoesOn
<1>13. run'.ip = to /\ run'.returns = returns /\ run'.frame = frame
  BY <1>11 DEF Goes, Went
<1>14. StaticInv'
  BY <1>1, <1>5, <1>6 DEF StaticInv, IdleInv, CompileInv, ReadyInv
<1>15. RunInv'
  BY <1>1, <1>5, <1>6, <1>12, <1>13 DEF RunInv
<1> QED BY <1>14, <1>15 DEF IInv

(* Cells put on the return stack.                                            *)
LEMMA PutOn ==
    ASSUME NEW r \in Cells, NEW w \in Cells
    PROVE  /\ r \o w \in Cells /\ Len(r \o w) = Len(r) + Len(w)
           /\ \A i \in 1..Len(r) : (r \o w)[i] = r[i]
           /\ \A i \in 1..Len(w) : (r \o w)[Len(r) + i] = w[i]
<1> DEFINE S == Names \X Int
           u == Concat(r, w)
<1>1. r \in Seq(S) /\ w \in Seq(S) /\ Len(r) \in Nat /\ Len(w) \in Nat
  BY DEF Cells
<1> HIDE DEF S
<1>2. /\ u \in Seq(S) /\ Len(u) = Len(r) + Len(w)
      /\ \A i \in 1..Len(r) + Len(w) : u[i] = IF i <= Len(r) THEN r[i] ELSE w[i - Len(r)]
  BY <1>1, ConcatIs
<1> HIDE DEF u
<1>3. \A i \in 1..Len(r) : u[i] = r[i]
  <2>1. \A i \in 1..Len(r) : i \in 1..Len(r) + Len(w) /\ i <= Len(r)
    BY <1>1
  <2> QED BY <1>2, <2>1
<1>4. ASSUME NEW i \in 1..Len(w) PROVE u[Len(r) + i] = w[i]
  <2>1. Len(r) + i \in 1..Len(r) + Len(w) /\ ~(Len(r) + i <= Len(r)) /\ (Len(r) + i) - Len(r) = i
    BY <1>1
  <2> QED BY <1>2, <2>1
<1>5. u \in Cells
  BY <1>2 DEF S, Cells
<1>6. u = r \o w
  BY DEF u, Concat
<1> QED BY <1>2, <1>3, <1>4, <1>5, <1>6

\* The three cells of a loop.
LEMMA LoopParameters ==
    ASSUME NEW y \in Int
    PROVE  LET w == <<<<"leave", y>>, <<"limit", 0>>, <<"index", 0>>>> IN
           w \in Cells /\ Len(w) = 3 /\ w[1] = <<"leave", y>> /\ w[2] = <<"limit", 0>> /\ w[3] = <<"index", 0>>
<1> DEFINE a == <<"leave", y>>
           b == <<"limit", 0>>
           d == <<"index", 0>>
           S == Names \X Int
<1>1. a \in S /\ b \in S /\ d \in S
  BY DEF Names
<1> HIDE DEF a, b, d, S
<1>2. <<a, b, d>> \in Seq(S) /\ Len(<<a, b, d>>) = 3 /\ <<a, b, d>>[1] = a /\ <<a, b, d>>[2] = b /\ <<a, b, d>>[3] = d
  BY <1>1
<1> QED BY <1>2 DEF a, b, d, S, Cells

\* DO and ?DO.
LEMMA DoParenKeeps ==
    ASSUME IInv, DoParen
    PROVE  IInv'
<1>1. mode = "run" /\ StaticInv /\ Kept /\ Name \in {"do", "?do"}
  BY DEF DoParen, Running, IInv
<1>2. PICK T, B, x : /\ Sealed(code, source, locals, T) /\ Runs(code, T, returns, B, x)
                     /\ x.at = ip /\ x.fp = frame
  BY <1>1, Now
<1> DEFINE y == OperandAt(ip + 1)
           w == <<<<"leave", y>>, <<"limit", 0>>, <<"index", 0>>>>
           u == returns \o w
<1>3. /\ Rest(code, source, T, ip) /\ Jumped(code, T, ip) /\ code[ip][1] \in {"do", "?do"}
      /\ returns \in Cells /\ Len(returns) \in Nat /\ y = code[ip + 1][2]
  BY <1>1, <1>2, NowFacts DEF OperandAt
<1>4. At(code, T, ip + 2, Looped(T[ip], T[ip].loops + 1)) /\ At(code, T, y, T[ip])
  BY <1>3 DEF Rest, Jumped, Branches, Dos, Loopings, Gets, Tos
<1>5. Went(ip + 2, u, frame) \/ Goes(y)
  BY DEF DoParen
<1>6. CASE Goes(y)
  <2> HIDE DEF y
  <2> QED BY <1>1, <1>2, <1>4, <1>6, GoesKept
<1>7. CASE Went(ip + 2, u, frame)
  <2>1. y \in Int
    BY <1>4 DEF At
  <2>2. w \in Cells /\ Len(w) = 3 /\ w[1] = <<"leave", y>> /\ w[2] = <<"limit", 0>> /\ w[3] = <<"index", 0>>
    <3> HIDE DEF y
    <3> QED BY <2>1, LoopParameters
  <2> HIDE DEF w, y
  <2>3. /\ u \in Cells /\ Len(u) = Len(returns) + Len(w)
        /\ (\A i \in 1..Len(returns) : u[i] = returns[i])
        /\ \A i \in 1..Len(w) : u[Len(returns) + i] = w[i]
    BY <1>3, <2>2, PutOn
  <2> HIDE DEF u
  <2>4. /\ Len(u) = Len(returns) + 3 /\ u[Len(returns) + 1] = <<"leave", y>>
        /\ u[Len(returns) + 2] = <<"limit", 0>> /\ u[Len(returns) + 3] = <<"index", 0>>
    <3>1. 1 \in 1..3 /\ 2 \in 1..3 /\ 3 \in 1..3
      OBVIOUS
    <3> QED BY <2>2, <2>3, <3>1
  <2>5. Going(code, T, u, ip + 2, x.fp)
    BY <1>2, <1>4, <2>3, <2>4, GoesIntoLoop
  <2> QED BY <1>1, <1>2, <1>7, <2>5, RunsOn
<1> QED BY <1>5, <1>6, <1>7

\* LOOP and +LOOP, back and past.
LEMMA LoopParenKeeps ==
    ASSUME IInv, LoopParen
    PROVE  IInv'
<1>1. mode = "run" /\ StaticInv /\ Kept /\ Name \in {"loop", "+loop"}
  BY DEF LoopParen, Running, IInv
<1>2. PICK T, B, x : /\ Sealed(code, source, locals, T) /\ Runs(code, T, returns, B, x)
                     /\ x.at = ip /\ x.fp = frame
  BY <1>1, Now
<1>3. Rest(code, source, T, ip) /\ Jumped(code, T, ip) /\ code[ip][1] \in {"loop", "+loop"}
  BY <1>1, <1>2, NowFacts
<1>4. /\ At(code, T, BranchTarget(code, ip), T[ip]) /\ T[ip].loops > 0
      /\ At(code, T, ip + 2, Looped(T[ip], T[ip].loops - 1))
  BY <1>3 DEF Rest, Jumped, Branches, Dos, Loopings, Gets, Tos
<1>5. Goes(BranchTarget(code, ip)) \/ Went(ip + 2, Below(3), frame)
  BY DEF LoopParen
<1>6. CASE Goes(BranchTarget(code, ip))
  BY <1>1, <1>2, <1>4, <1>6, GoesKept
<1>7. CASE Went(ip + 2, Below(3), frame)
  <2> DEFINE u == Below(3)
  <2>1. u = SubSeq(returns, 1, Len(returns) - 3)
    BY DEF Below, Depth
  <2> HIDE DEF u
  <2>2. Going(code, T, u, ip + 2, x.fp)
    BY <1>2, <1>4, <2>1, GoesOutOfLoop
  <2> QED BY <1>1, <1>2, <1>7, <2>2, RunsOn DEF u
<1> QED BY <1>5, <1>6, <1>7

(* The innermost loop lies on top.                                           *)
LEMMA LoopOnTop ==
    ASSUME NEW c, NEW s, NEW v, NEW T, Sealed(c, s, v, T), NEW r, NEW B, NEW x, Runs(c, T, r, B, x), T[x.at].loops > 0
    PROVE  /\ Len(r) - 2 \in 1..Len(r) /\ Len(r) - 1 \in 1..Len(r) /\ Len(r) \in 1..Len(r)
           /\ r[Len(r) - 2][1] = "leave" /\ r[Len(r) - 1][1] = "limit" /\ r[Len(r)][1] = "index"
           /\ At(c, T, r[Len(r) - 2][2], Looped(T[x.at], T[x.at].loops - 1))
<1> DEFINE l == T[x.at]
           n == l.loops
           f == FrameSpan(c, l)
           q == x.base + f + 3 * (n - 1)
           d == Len(r)
<1>1. /\ d \in Nat /\ d = x.base + Span(c, l) /\ x.base \in Nat /\ 1 <= x.base
      /\ x.at \in 1..Len(c) /\ IsPlace(c, x.at) /\ Holds(c, T, r, x.base, l, FpOf(B, Len(B)))
  BY RunsFacts
<1>2. n \in Nat /\ f \in Nat /\ n > 0
  BY <1>1, PlaceFacts
<1>3. n \in 1..l.loops
  BY <1>2
<1>4. LoopCells(c, T, r, q, Looped(l, n - 1))
  BY <1>1, <1>3 DEF Holds
<1>5. Span(c, l) = f + 3 * n
  BY DEF Span
<1> HIDE DEF n, l, f
<1> DEFINE b == x.base
<1>6. b \in Int /\ 1 <= b /\ f \in Int /\ 0 <= f /\ n \in Int /\ 1 <= n /\ d \in Int
  BY <1>1, <1>2
<1>7. d = b + Span(c, l) /\ q = b + f + 3 * (n - 1)
  BY <1>1
<1> HIDE DEF b, q, d
<1>8. q + 1 = d - 2 /\ q + 2 = d - 1 /\ q + 3 = d /\ 0 <= q /\ q \in Int
  <2>1. d = b + f + 3 * n /\ 3 * (n - 1) = 3 * n - 3 /\ 0 <= 3 * (n - 1)
    BY <1>5, <1>6, <1>7
  <2> DEFINE t == 3 * n
  <2>2. t \in Int /\ d = b + f + t /\ q = b + f + t - 3 /\ 3 <= t
    BY <1>6, <1>7, <2>1
  <2> HIDE DEF t
  <2> QED BY <1>6, <2>2
<1>9. d - 2 \in 1..d /\ d - 1 \in 1..d /\ d \in 1..d
  BY <1>6, <1>8
<1>10. r[d - 2][1] = "leave" /\ r[d - 1][1] = "limit" /\ r[d][1] = "index" /\ At(c, T, r[d - 2][2], Looped(l, n - 1))
  BY <1>4, <1>8 DEF LoopCells
<1> QED BY <1>9, <1>10 DEF d, l, n

\* LEAVE.
LEMMA LeaveKeeps ==
    ASSUME IInv, Leave
    PROVE  IInv'
<1>1. mode = "run" /\ StaticInv /\ Kept /\ Name = "leave"
  BY DEF Leave, Running, IInv
<1>2. PICK T, B, x : /\ Sealed(code, source, locals, T) /\ Runs(code, T, returns, B, x)
                     /\ x.at = ip /\ x.fp = frame
  BY <1>1, Now
<1>3. Rest(code, source, T, ip) /\ code[ip][1] = "leave"
  BY <1>1, <1>2, NowFacts
<1>4. T[ip].loops > 0
  BY <1>3 DEF Rest, Branches, Dos, Loopings, Gets, Tos
<1> DEFINE u == Below(3)
           to == returns[Depth - 2][2]
<1>5. u = SubSeq(returns, 1, Len(returns) - 3) /\ to = returns[Len(returns) - 2][2]
  BY DEF Below, Depth
<1>6. Went(to, u, frame)
  BY DEF Leave
<1> HIDE DEF u, to
<1>7. At(code, T, to, Looped(T[ip], T[ip].loops - 1))
  BY <1>2, <1>4, <1>5, LoopOnTop
<1>8. Going(code, T, u, to, x.fp)
  BY <1>2, <1>4, <1>5, <1>7, GoesOutOfLoop
<1> QED BY <1>1, <1>2, <1>6, <1>8, RunsOn

\* UNLOOP.
LEMMA UnloopKeeps ==
    ASSUME IInv, Unloop
    PROVE  IInv'
<1>1. mode = "run" /\ StaticInv /\ Kept /\ Name = "unloop"
  BY DEF Unloop, Running, IInv
<1>2. PICK T, B, x : /\ Sealed(code, source, locals, T) /\ Runs(code, T, returns, B, x)
                     /\ x.at = ip /\ x.fp = frame
  BY <1>1, Now
<1>3. Rest(code, source, T, ip) /\ code[ip][1] = "unloop"
  BY <1>1, <1>2, NowFacts
<1>4. T[ip].loops > 0 /\ At(code, T, ip + 1, Looped(T[ip], T[ip].loops - 1))
  BY <1>3 DEF Rest, Branches, Dos, Loopings, Gets, Tos
<1> DEFINE u == Below(3)
<1>5. u = SubSeq(returns, 1, Len(returns) - 3)
  BY DEF Below, Depth
<1>6. Went(ip + 1, u, frame)
  BY DEF Unloop
<1> HIDE DEF u
<1>7. Going(code, T, u, ip + 1, x.fp)
  BY <1>2, <1>4, <1>5, GoesOutOfLoop
<1> QED BY <1>1, <1>2, <1>6, <1>7, RunsOn

\* LINK.
LEMMA LinkParenKeeps ==
    ASSUME IInv, LinkParen
    PROVE  IInv'
<1>1. mode = "run" /\ StaticInv /\ Kept /\ Name = "link"
  BY DEF LinkParen, Running, IInv
<1>2. PICK T, B, x : /\ Sealed(code, source, locals, T) /\ Runs(code, T, returns, B, x)
                     /\ x.at = ip /\ x.fp = frame
  BY <1>1, Now
<1> DEFINE n == OperandAt(ip + 1)
           m == [link |-> ip + 1, slots |-> << >>, loops |-> 0]
           w == <<<<"frame", frame>>>> \o [i \in 1..n |-> <<"slot", 0>>]
           z == [i \in 1..n |-> <<"slot", 0>>]
<1>3. /\ Rest(code, source, T, ip) /\ code[ip][1] = "link" /\ ip \in Nat /\ frame \in Nat
      /\ returns \in Cells /\ Len(returns) \in Nat /\ n = code[ip + 1][2]
  BY <1>1, <1>2, NowFacts DEF OperandAt
<1>4. n \in Nat /\ T[ip] = Bare /\ At(code, T, ip + 2, m)
  BY <1>3 DEF Rest, Branches, Dos, Loopings, Gets, Tos
<1>5. Went(ip + 2, returns \o <<<<"frame", frame>>>> \o z, Depth + 2)
  BY DEF LinkParen
<1>6. z \in Cells /\ Len(z) = n
  <2>1. <<"slot", 0>> \in Names \X Int
    BY DEF Names
  <2> DEFINE S == Names \X Int
             y == <<"slot", 0>>
  <2> HIDE DEF S, y, n
  <2>2. [i \in 1..n |-> y] \in Seq(S) /\ Len([i \in 1..n |-> y]) = n
    BY <1>4, <2>1 DEF S, y
  <2> QED BY <2>2 DEF S, y, Cells
<1>7. <<<<"frame", frame>>>> \in Cells /\ Len(<<<<"frame", frame>>>>) = 1 /\ <<<<"frame", frame>>>>[1] = <<"frame", frame>>
  <2>1. <<"frame", frame>> \in Names \X Int
    BY <1>3 DEF Names
  <2> QED BY <2>1, OneOf
<1> DEFINE g == <<<<"frame", frame>>>>
           r1 == returns \o g
           u == r1 \o z
<1>8. g \in Cells /\ Len(g) = 1 /\ g[1] = <<"frame", frame>> /\ Went(ip + 2, u, Depth + 2)
  BY <1>5, <1>7
<1> HIDE DEF g, z, n
<1>9. /\ r1 \in Cells /\ Len(r1) = Len(returns) + Len(g)
      /\ (\A i \in 1..Len(returns) : r1[i] = returns[i])
      /\ (\A i \in 1..Len(g) : r1[Len(returns) + i] = g[i])
  BY <1>3, <1>8, PutOn
<1> HIDE DEF r1
<1>10. /\ u \in Cells /\ Len(u) = Len(r1) + Len(z) /\ (\A i \in 1..Len(r1) : u[i] = r1[i])
  BY <1>6, <1>9, PutOn
<1> HIDE DEF u
<1>11. Len(r1) = Len(returns) + 1 /\ r1[Len(returns) + 1] = <<"frame", frame>>
  <2>1. 1 \in 1..1
    OBVIOUS
  <2> QED BY <1>8, <1>9, <2>1
<1>12. Len(u) = Len(returns) + 1 + n
  BY <1>3, <1>4, <1>6, <1>10, <1>11
<1>13. (\A i \in 1..Len(returns) : u[i] = returns[i]) /\ u[Len(returns) + 1] = <<"frame", frame>>
  <2>1. Len(returns) + 1 \in 1..Len(r1) /\ \A i \in 1..Len(returns) : i \in 1..Len(r1)
    BY <1>3, <1>11
  <2> QED BY <1>9, <1>10, <1>11, <2>1
<1>14. Going(code, T, u, ip + 2, Len(returns) + 2)
  <2> DEFINE k == ip + 1
  <2>1. k \in Int /\ k # 0 /\ m = [link |-> k, slots |-> << >>, loops |-> 0] /\ Len(u) = Len(returns) + 1 + code[k][2]
    BY <1>3, <1>12
  <2> HIDE DEF k, m
  <2> QED BY <1>2, <1>4, <1>10, <1>13, <2>1, GoesIntoFrame
<1>15. Depth + 2 = Len(returns) + 2
  BY DEF Depth
<1> QED BY <1>1, <1>2, <1>8, <1>14, <1>15, RunsOn

\* UNLINK.
LEMMA UnlinkParenKeeps ==
    ASSUME IInv, UnlinkParen
    PROVE  IInv'
<1>1. mode = "run" /\ StaticInv /\ Kept /\ Name = "unlink"
  BY DEF UnlinkParen, Running, IInv
<1>2. PICK T, B, x : /\ Sealed(code, source, locals, T) /\ Runs(code, T, returns, B, x)
                     /\ x.at = ip /\ x.fp = frame
  BY <1>1, Now
<1>3. Rest(code, source, T, ip) /\ code[ip][1] = "unlink"
  BY <1>1, <1>2, NowFacts
<1>4. T[ip].link # 0 /\ At(code, T, ip + 1, Bare)
  BY <1>3 DEF Rest, Branches, Dos, Loopings, Gets, Tos
<1> DEFINE u == SubSeq(returns, 1, frame - 2)
           fp == returns[frame - 1][2]
<1>5. Went(ip + 1, u, fp)
  BY DEF UnlinkParen
<1>6. Going(code, T, u, ip + 1, fp)
  BY <1>2, <1>4, GoesOutOfFrame
<1> HIDE DEF u, fp
<1> QED BY <1>1, <1>2, <1>5, <1>6, RunsOn

(* The word an address belongs to is the one LocalAt looks up.               *)
LEMMA LocalIs ==
    ASSUME NEW k \in DOMAIN source, NEW a, WordAt(source, k, a)
    PROVE  LocalAt(a) = <<"slot", source[k].local>>
<1> DEFINE P(j) == source[j].start <= a /\ (j = Len(source) \/ source[j + 1].start > a)
           h == CHOOSE j \in DOMAIN source : P(j)
<1>1. P(k) /\ \A j \in DOMAIN source : P(j) => j = k
  BY DEF WordAt, Covers
<1>2. h = k
  <2> HIDE DEF P
  <2> QED BY <1>1
<1>3. LocalAt(a) = <<"slot", source[h].local>>
  BY DEF LocalAt
<1> QED BY <1>2, <1>3

(* Whether an instruction has its offset in the next cell.                   *)
LEMMA OffsetIs ==
    ASSUME Name \in LocalNames
    PROVE  Offset = OffsetAt(code, ip) /\ (IF HasOffset THEN ip + 2 ELSE ip + 1) = ip + LocalSize(code, ip)
BY DEF Offset, OffsetAt, HasOffset, LocalSize, Name, OperandAt

\* The cells of a local on the return stack.
LEMMA SlotsAre ==
    ASSUME NEW o, o = Offset, NEW w, w = code[ip][2], o \in Nat, w \in Nat, frame \in Nat
    PROVE  \A i \in Int : i \in Slots <=> frame + o <= i /\ i < frame + o + w
<1> DEFINE f == frame
<1>1. Slots = {f + o + i : i \in 0..w - 1}
  BY DEF Slots
<1>2. f \in Nat
  OBVIOUS
<1> HIDE DEF f
<1>3. ASSUME NEW i \in Int, f + o <= i, i < f + o + w PROVE i \in {f + o + j : j \in 0..w - 1}
  <2> DEFINE j == i - (f + o)
  <2>1. j \in 0..w - 1 /\ i = f + o + j
    BY <1>2, <1>3
  <2> HIDE DEF j
  <2> QED BY <2>1
<1>4. ASSUME NEW i \in Int, i \in {f + o + j : j \in 0..w - 1} PROVE f + o <= i /\ i < f + o + w
  <2>1. PICK j \in 0..w - 1 : i = f + o + j
    BY <1>4
  <2> QED BY <1>2, <2>1
<1> QED BY <1>1, <1>3, <1>4 DEF f

\* The local a word is about is a number.
LEMMA SealedStarted ==
    ASSUME NEW c, NEW s, NEW v, NEW T, Sealed(c, s, v, T), NEW k \in DOMAIN s
    PROVE  s[k].local \in Nat
<1>1. Started(s, Len(c) + 1)
  BY DEF Sealed, Flows
<1>2. k \in 1..Len(s)
  BY <1>1 DEF Started
<1> QED BY <1>1, <1>2, StartedAt

\* The instructions that read and write locals.
LEMMA LocalParenKeeps ==
    ASSUME IInv, LocalParen
    PROVE  IInv'
<1>1. mode = "run" /\ StaticInv /\ Kept /\ Name \in LocalNames
  BY DEF LocalParen, Running, IInv
<1>2. PICK T, B, x : /\ Sealed(code, source, locals, T) /\ Runs(code, T, returns, B, x)
                     /\ x.at = ip /\ x.fp = frame
  BY <1>1, Now
<1>3. /\ ip \in 1..Len(code) /\ Rest(code, source, T, ip) /\ Name = code[ip][1] /\ frame \in Nat
      /\ returns \in Cells /\ Len(returns) \in Nat
  BY <1>2, NowFacts
<1> DEFINE to == ip + LocalSize(code, ip)
           o == OffsetAt(code, ip)
           w == code[ip][2]
           u == [i \in DOMAIN returns |-> IF i \in Slots THEN LocalAt(ip) ELSE returns[i]]
<1>4. Went(to, IF Name \in {"to", "to0", "to1"} THEN u ELSE returns, frame)
  BY <1>1, OffsetIs DEF LocalParen
<1>5. CASE Name \in Gets
  <2>1. At(code, T, to, T[ip])
    BY <1>3, <1>5 DEF Rest, Branches, Dos, Loopings, Gets, Tos
  <2>2. Goes(to)
    BY <1>4, <1>5 DEF Goes, Gets
  <2> HIDE DEF to
  <2> QED BY <1>1, <1>2, <2>1, <2>2, GoesKept
<1>6. CASE Name \in Tos
  <2>1. PICK m \in Layouts : Stores(code, source, T[ip], m, ip) /\ At(code, T, to, m) /\ o \in Nat /\ w \in Nat
    BY <1>3, <1>6 DEF Rest, Branches, Dos, Loopings, Gets, Tos
  <2>2. PICK k \in DOMAIN source : WordAt(source, k, ip)
    BY <2>1 DEF Stores
  <2> DEFINE y == <<"slot", source[k].local>>
  <2>3. LocalAt(ip) = y
    BY <2>2, LocalIs
  <2>4. y \in Names \X Int
    <3>1. source[k].local \in Nat
      BY <1>2, SealedStarted
    <3> QED BY <3>1 DEF Names
  <2>5. \A i \in Int : i \in Slots <=> frame + o <= i /\ i < frame + o + w
    BY <1>1, <1>3, <2>1, OffsetIs, SlotsAre
  <2>6. u = [i \in DOMAIN returns |-> IF i \in Slots THEN y ELSE returns[i]]
    BY <2>3
  <2>7. Went(to, u, frame)
    BY <1>4, <1>6 DEF Tos
  <2> HIDE DEF u, y, to, o, w
  <2>8. DOMAIN returns = 1..Len(returns) /\ \A i \in 1..Len(returns) : returns[i] \in Names \X Int
    <3> DEFINE S == Names \X Int
    <3>1. returns \in Seq(S)
      BY <1>3 DEF Cells
    <3> HIDE DEF S
    <3>2. DOMAIN returns = 1..Len(returns) /\ \A i \in 1..Len(returns) : returns[i] \in S
      BY <3>1
    <3> QED BY <3>2 DEF S
  <2>9. u = [i \in 1..Len(returns) |-> IF i \in Slots THEN y ELSE returns[i]]
    BY <2>6, <2>8
  <2>10. u \in Cells /\ Len(u) = Len(returns) /\ \A i \in 1..Len(returns) : u[i] = IF i \in Slots THEN y ELSE returns[i]
    <3> DEFINE S == Names \X Int
               n == Len(returns)
    <3>1. \A i \in 1..n : u[i] \in S
      BY <2>4, <2>8, <2>9
    <3>2. u = [i \in 1..n |-> u[i]]
      BY <2>9
    <3>3. n \in Nat /\ \A i \in 1..n : u[i] = IF i \in Slots THEN y ELSE returns[i]
      BY <1>3, <2>9
    <3> HIDE DEF S, n
    <3>4. u \in Seq(S) /\ Len(u) = n
      BY <3>1, <3>2, <3>3
    <3> QED BY <3>3, <3>4 DEF S, n, Cells
  <2>11. \A i \in 1..Len(returns) : u[i] = IF frame + o <= i /\ i < frame + o + w THEN y ELSE returns[i]
    BY <2>5, <2>10
  <2>12. /\ o = OffsetAt(code, x.at) /\ w = code[x.at][2] /\ Stores(code, source, T[x.at], m, x.at) /\ WordAt(source, k, x.at)
         /\ StoredFrom(u, returns, x.fp + o, w, <<"slot", source[k].local>>)
    BY <1>2, <2>1, <2>2, <2>11 DEF o, w, y, StoredFrom
  <2>13. Going(code, T, u, to, x.fp)
    BY <1>2, <2>1, <2>10, <2>12, GoesStoring
  <2> QED BY <1>1, <1>2, <2>7, <2>13, RunsOn
<1> QED BY <1>1, <1>5, <1>6 DEF LocalNames, Gets, Tos

\* A call.
LEMMA CallKeeps ==
    ASSUME IInv, Call
    PROVE  IInv'
<1>1. mode = "run" /\ StaticInv /\ Kept /\ Name = "call"
  BY DEF Call, Running, IInv
<1>2. PICK T, B, x : /\ Sealed(code, source, locals, T) /\ Runs(code, T, returns, B, x)
                     /\ x.at = ip /\ x.fp = frame
  BY <1>1, Now
<1>3. Rest(code, source, T, ip) /\ code[ip][1] = "call" /\ returns \in Cells /\ ip \in Nat
  BY <1>1, <1>2, NowFacts
<1>4. At(code, T, ip + 1, T[ip])
  BY <1>3 DEF Rest, Branches, Dos, Loopings, Gets, Tos
<1>5. At(code, T, 1, Bare)
  BY <1>2 DEF Sealed, Flows
<1> DEFINE u == Append(returns, Return(ip + 1))
<1>6. Went(1, u, frame)
  BY DEF Call
<1>7. Return(ip + 1) \in Names \X Int
  BY <1>3 DEF Return, Names
<1>8. u \in Cells /\ Len(u) = Len(returns) + 1 /\ (\A i \in 1..Len(returns) : u[i] = returns[i]) /\ u[Len(returns) + 1] = Return(ip + 1)
  <2> DEFINE S == Names \X Int
             y == Return(ip + 1)
  <2>1. returns \in Seq(S) /\ y \in S /\ u = Append(returns, y)
    BY <1>3, <1>7 DEF Cells
  <2> HIDE DEF S, y, u
  <2>2. u \in Seq(S) /\ Len(u) = Len(returns) + 1 /\ (\A i \in 1..Len(returns) : u[i] = returns[i]) /\ u[Len(returns) + 1] = y
    BY <2>1
  <2> QED BY <2>2 DEF S, y, Cells
<1> HIDE DEF u
<1>9. Going(code, T, u, 1, x.fp)
  <2>1. At(code, T, ip + 1, T[x.at])
    BY <1>2, <1>4
  <2> QED BY <1>2, <1>5, <1>8, <2>1, GoesInto
<1> QED BY <1>1, <1>2, <1>6, <1>9, RunsOn

\* A return.
LEMMA ReturnKeeps ==
    ASSUME IInv, Return_
    PROVE  IInv'
<1>1. /\ mode = "run" /\ StaticInv /\ Name \in {"exit", "semi", "does>"}
      /\ family' = family /\ source' = source /\ code' = code /\ locals' = locals
      /\ mode' = IF Last(returns) = Return(0) THEN "ready" ELSE "run"
  BY DEF Return_, Running, IInv
<1>2. PICK T, B, x : /\ Sealed(code, source, locals, T) /\ Runs(code, T, returns, B, x)
                     /\ x.at = ip /\ x.fp = frame
  BY <1>1, Now
<1>3. Rest(code, source, T, ip) /\ code[ip][1] \in {"exit", "semi", "does>"}
  BY <1>1, <1>2, NowFacts
<1>4. T[x.at] = Bare
  BY <1>2, <1>3 DEF Rest, Branches, Dos, Loopings, Gets, Tos
<1> DEFINE u == Below(1)
           top == returns[Len(returns)]
<1>5. u = SubSeq(returns, 1, Len(returns) - 1) /\ Last(returns) = top
  BY DEF Below, Depth, Last
<1>6. Went(top[2], u, frame)
  BY <1>5 DEF Return_
<1> HIDE DEF u
<1>7. \/ top = Return(0) /\ u = << >> /\ x.fp = 0
      \/ top # Return(0) /\ Going(code, T, u, top[2], x.fp)
  BY <1>2, <1>4, <1>5, GoesBack
<1> HIDE DEF top
<1>8. mode' \in {"ready", "run"} /\ StaticInv'
  <2>1. mode' \in {"ready", "run"}
    BY <1>1
  <2> QED BY <1>1, <1>2, <2>1 DEF StaticInv, IdleInv, CompileInv, ReadyInv
<1>9. run' = [ip |-> top[2], returns |-> u, frame |-> frame]
  BY <1>6 DEF Went
<1>10. CASE top = Return(0)
  <2>1. mode' = "ready" /\ u = << >> /\ frame = 0 /\ top[2] = 0
    BY <1>1, <1>2, <1>5, <1>7, <1>10 DEF Return
  <2>2. run' = NoRun
    BY <1>9, <2>1 DEF NoRun
  <2> QED BY <1>8, <2>1, <2>2 DEF IInv, RunInv, NoRun
<1>11. CASE top # Return(0)
  <2>1. mode' = "run" /\ Going(code, T, u, top[2], frame)
    BY <1>1, <1>2, <1>5, <1>7, <1>11
  <2>2. run'.ip = top[2] /\ run'.returns = u /\ run'.frame = frame
    BY <1>9
  <2>3. RunInv'
    BY <1>1, <1>2, <2>1, <2>2 DEF RunInv
  <2> QED BY <1>8, <2>3 DEF IInv
<1> QED BY <1>10, <1>11

\* The start of a run.
LEMMA ExecuteKeeps ==
    ASSUME IInv, Execute
    PROVE  IInv'
<1>1. /\ mode = "ready" /\ mode' = "run" /\ StaticInv /\ run = NoRun
      /\ family' = family /\ source' = source /\ code' = code /\ locals' = locals
  BY DEF Execute, IInv, RunInv
<1>2. PICK T : Sealed(code, source, locals, T)
  BY <1>1 DEF StaticInv, ReadyInv
<1>3. PICK entry \in {1} \cup {a + 1 : a \in {a \in DOMAIN code : code[a] = Instr("does>")}} :
         Went(entry, Append(returns, Return(0)), frame)
  BY DEF Execute
<1>4. At(code, T, entry, Bare)
  <2>1. Flows(code, source, locals, T, {})
    BY <1>2 DEF Sealed
  <2>2. CASE entry = 1
    BY <2>1, <2>2 DEF Flows
  <2>3. CASE entry # 1
    <3>1. PICK a \in DOMAIN code : code[a] = Instr("does>") /\ entry = a + 1
      BY <1>3, <2>3
    <3>2. a \in 1..Len(code) /\ code[a][1] = "does>"
      <4>1. code \in Cells
        BY <2>1 DEF Flows
      <4> QED BY <3>1, <4>1 DEF Cells, Instr
    <3>3. IsPlace(code, a)
      BY <3>2 DEF IsPlace
    <3>4. Rest(code, source, T, a)
      BY <2>1, <3>2, <3>3 DEF Flows
    <3> QED BY <3>1, <3>2, <3>4 DEF Rest, Branches, Dos, Loopings, Gets, Tos
  <2> QED BY <2>2, <2>3
<1> DEFINE u == Append(returns, Return(0))
<1>5. returns = << >> /\ frame = 0
  BY <1>1 DEF NoRun, returns, frame
<1>6. u \in Cells /\ Len(u) = 1 /\ u[1] = Return(0)
  <2>1. Return(0) \in Names \X Int
    BY DEF Return, Names
  <2> DEFINE S == Names \X Int
             y == Return(0)
  <2>2. y \in S /\ u = Append(<< >>, y)
    BY <1>5, <2>1
  <2> HIDE DEF S, y, u
  <2>3. u \in Seq(S) /\ Len(u) = 1 /\ u[1] = y
    BY <2>2
  <2> QED BY <2>3 DEF S, y, Cells
<1>7. Went(entry, u, 0)
  BY <1>3, <1>5
<1> HIDE DEF u
<1>8. Going(code, T, u, entry, 0)
  BY <1>2, <1>4, <1>6, GoesFirst
<1>9. run'.ip = entry /\ run'.returns = u /\ run'.frame = 0
  BY <1>7 DEF Went
<1>10. StaticInv'
  BY <1>1, <1>2 DEF StaticInv, IdleInv, CompileInv, ReadyInv
<1>11. RunInv'
  BY <1>1, <1>2, <1>8, <1>9 DEF RunInv
<1> QED BY <1>10, <1>11 DEF IInv

-----------------------------------------------------------------------------
(* The theorems.                                                           *)

\* Nothing is defined and nothing runs.
LEMMA InitInv ==
    ASSUME Init
    PROVE  IInv
<1>1. locals \in LocalsRecords /\ locals.words = << >>
  <2> DEFINE S == Seq([offset : Nat, kind : {"local", "2local", "flocal"}])
  <2>1. << >> \in S
    OBVIOUS
  <2> HIDE DEF S
  <2>2. locals \in [words : S, count : Nat, fixup : Nat] /\ locals.words = << >>
    BY <2>1 DEF Init
  <2> QED BY <2>2 DEF LocalsRecords, Records, S
<1>2. StaticInv
  BY <1>1 DEF Init, StaticInv, IdleInv, CompileInv, ReadyInv
<1>3. RunInv
  BY DEF Init, RunInv
<1> QED BY <1>2, <1>3 DEF IInv

\* While a definition is written nothing runs.
LEMMA CompilingKeeps ==
    ASSUME Careful, IInv, Colon \/ ColonNoName \/ (\E w \in family : CompileWord(w)) \/ CompileSemicolon
    PROVE  IInv'
<1>1. StaticInv
  BY DEF IInv
<1>2. mode \in {"idle", "compile"} /\ run' = run /\ mode' \in {"idle", "compile", "ready"}
  BY DEF Colon, ColonNoName, Begun, CompileWord, CompileSemicolon, ErrorExit
<1>3. StaticInv'
  <2>1. CASE Colon \/ ColonNoName
    BY <1>1, <2>1, ColonStatic
  <2>2. CASE \E w \in family : CompileWord(w)
    <3>1. PICK w \in family : CompileWord(w)
      BY <2>2
    <3>2. w \in Words
      BY <1>1, <3>1, FamiliesAssumption DEF StaticInv
    <3> QED BY <1>1, <3>1, <3>2, WordStatic
  <2>3. CASE CompileSemicolon
    BY <1>1, <2>3, SemicolonStatic
  <2> QED BY <2>1, <2>2, <2>3
<1>4. RunInv'
  BY <1>2 DEF IInv, RunInv
<1> QED BY <1>3, <1>4 DEF IInv

\* Every step keeps the inductive invariant.
LEMMA NextInv ==
    ASSUME IInv, [Next]_vars
    PROVE  IInv'
<1>1. CASE Colon \/ ColonNoName \/ (\E w \in family : CompileWord(w)) \/ CompileSemicolon
  BY <1>1, Careful, CompilingKeeps
<1>2. CASE Execute
  BY <1>2, ExecuteKeeps
<1>3. CASE LiteralParen
  BY <1>3, LiteralParenKeeps
<1>4. CASE Branch
  BY <1>4, BranchKeeps
<1>5. CASE OfParen
  BY <1>5, OfParenKeeps
<1>6. CASE DoParen
  BY <1>6, DoParenKeeps
<1>7. CASE LoopParen
  BY <1>7, LoopParenKeeps
<1>8. CASE Leave
  BY <1>8, LeaveKeeps
<1>9. CASE Unloop
  BY <1>9, UnloopKeeps
<1>10. CASE LinkParen
  BY <1>10, LinkParenKeeps
<1>11. CASE UnlinkParen
  BY <1>11, UnlinkParenKeeps
<1>12. CASE LocalParen
  BY <1>12, LocalParenKeeps
<1>13. CASE Call
  BY <1>13, CallKeeps
<1>14. CASE Return_
  BY <1>14, ReturnKeeps
<1>15. CASE UNCHANGED vars
  <2>1. StaticInv' /\ RunInv'
    BY <1>15 DEF vars, IInv, StaticInv, IdleInv, CompileInv, ReadyInv, RunInv
  <2> QED BY <2>1 DEF IInv
<1> QED BY <1>1, <1>2, <1>3, <1>4, <1>5, <1>6, <1>7, <1>8, <1>9, <1>10, <1>11, <1>12, <1>13, <1>14,
       <1>15 DEF Next

\* The inductive invariant: what is written fits together, and what runs is where the
\* layouts of its code say it is.
THEOREM AlwaysIInv == Spec => []IInv
<1>1. Init => IInv
  BY InitInv
<1>2. IInv /\ [Next]_vars => IInv'
  BY NextInv
<1> QED BY <1>1, <1>2, PTL DEF Spec

\* What a run is at is an instruction of its definition.
LEMMA IInvIpOnInstruction ==
    ASSUME IInv
    PROVE  IpOnInstruction
<1> SUFFICES ASSUME mode = "run" PROVE ip \in DOMAIN code /\ Name \notin {"operand", "counted", "text"}
  BY DEF IpOnInstruction
<1>1. PICK T, B, x : /\ Sealed(code, source, locals, T) /\ Runs(code, T, returns, B, x)
                     /\ x.at = ip /\ x.fp = frame
  BY Now
<1> QED BY <1>1, NowFacts

\* The kind of a cell on the return stack.
LEMMA KindIs ==
    ASSUME returns \in Cells, NEW i \in 1..Len(returns)
    PROVE  Kind(i) = returns[i][1]
<1>1. i \in DOMAIN returns
  BY DEF Cells
<1> QED BY <1>1 DEF Kind

\* The cells on top are the ones the next instruction takes.
LEMMA IInvReturnsSound ==
    ASSUME IInv
    PROVE  ReturnsSound
<1>1. mode = "ready" => returns = << >> /\ frame = 0
  BY DEF IInv, RunInv, NoRun, returns, frame
<1>2. ASSUME mode = "run"
      PROVE  /\ Name \in {"exit", "semi", "does>"} => Kind(Depth) = "return"
             /\ Name = "unlink" => Kind(frame - 1) = "frame"
             /\ Name \in {"loop", "+loop", "leave", "unloop", "i"} =>
                   Kind(Depth - 2) = "leave" /\ Kind(Depth - 1) = "limit" /\ Kind(Depth) = "index"
  <2>1. PICK T, B, x : /\ Sealed(code, source, locals, T) /\ Runs(code, T, returns, B, x)
                       /\ x.at = ip /\ x.fp = frame
    BY <1>2, Now
  <2>2. Rest(code, source, T, ip) /\ Name = code[ip][1] /\ returns \in Cells /\ Depth = Len(returns)
    BY <2>1, NowFacts
  <2>3. ASSUME Name \in {"exit", "semi", "does>"} PROVE Kind(Depth) = "return"
    <3>1. T[x.at] = Bare
      BY <2>1, <2>2, <2>3 DEF Rest, Branches, Dos, Loopings, Gets, Tos
    <3> DEFINE u == SubSeq(returns, 1, Len(returns) - 1)
    <3>2. u = SubSeq(returns, 1, Len(returns) - 1)
      OBVIOUS
    <3> HIDE DEF u
    <3>3. Len(returns) \in 1..Len(returns) /\ returns[Len(returns)][1] = "return"
      BY <2>1, <3>1, <3>2, GoesBack
    <3> QED BY <2>2, <3>3, KindIs
  <2>4. ASSUME Name = "unlink" PROVE Kind(frame - 1) = "frame"
    <3>1. T[ip].link # 0 /\ At(code, T, ip + 1, Bare)
      BY <2>2, <2>4 DEF Rest, Branches, Dos, Loopings, Gets, Tos
    <3>2. frame - 1 \in 1..Len(returns) /\ returns[frame - 1][1] = "frame"
      BY <2>1, <3>1, GoesOutOfFrame
    <3> QED BY <2>2, <3>2, KindIs
  <2>5. ASSUME Name \in {"loop", "+loop", "leave", "unloop", "i"}
        PROVE  Kind(Depth - 2) = "leave" /\ Kind(Depth - 1) = "limit" /\ Kind(Depth) = "index"
    <3>1. T[x.at].loops > 0
      BY <2>1, <2>2, <2>5 DEF Rest, Branches, Dos, Loopings, Gets, Tos
    <3>2. /\ Len(returns) - 2 \in 1..Len(returns) /\ Len(returns) - 1 \in 1..Len(returns) /\ Len(returns) \in 1..Len(returns)
          /\ returns[Len(returns) - 2][1] = "leave" /\ returns[Len(returns) - 1][1] = "limit" /\ returns[Len(returns)][1] = "index"
      BY <2>1, <3>1, LoopOnTop
    <3> QED BY <2>2, <3>2, KindIs
  <2> QED BY <2>3, <2>4, <2>5
<1> QED BY <1>1, <1>2 DEF ReturnsSound, Running

\* A local that is read is what was stored into it.
LEMMA IInvLocals ==
    ASSUME IInv
    PROVE  LocalsKeepValues
<1> SUFFICES ASSUME mode = "run", Name \in Gets, NEW i \in Slots
             PROVE  Kind(i) = "slot" /\ returns[i] = LocalAt(ip)
  BY DEF LocalsKeepValues, Running, Gets
<1>1. PICK T, B, x : /\ Sealed(code, source, locals, T) /\ Runs(code, T, returns, B, x)
                     /\ x.at = ip /\ x.fp = frame
  BY Now
<1>2. /\ ip \in 1..Len(code) /\ IsPlace(code, ip) /\ Rest(code, source, T, ip) /\ Name = code[ip][1]
      /\ returns \in Cells /\ Depth = Len(returns) /\ frame \in Nat
  BY <1>1, NowFacts
<1> DEFINE o == OffsetAt(code, ip)
           w == code[ip][2]
           l == T[ip]
           b == x.base
           d == Len(returns)
<1>3. o \in Nat /\ w \in Nat /\ Reads(code, source, l, ip)
  BY <1>2 DEF Rest, Branches, Dos, Loopings, Gets, Tos
<1>4. PICK k \in DOMAIN source : /\ WordAt(source, k, ip) /\ o + w <= Len(l.slots)
                                 /\ \A j \in 1..w : l.slots[o + j] = source[k].local
  BY <1>3 DEF Reads
<1>5. LocalAt(ip) = <<"slot", source[k].local>>
  BY <1>4, LocalIs
<1>6. /\ d \in Nat /\ d = b + Span(code, l) /\ b \in Nat /\ 1 <= b
      /\ x.fp = FpFor(l, b, FpOf(B, Len(B))) /\ Holds(code, T, returns, b, l, FpOf(B, Len(B)))
  BY <1>1, RunsFacts
<1>7. /\ Span(code, l) \in Nat /\ FrameSpan(code, l) \in Nat /\ FrameSpan(code, l) <= Span(code, l) /\ Len(l.slots) \in Nat
      /\ (l.link = 0 => l.slots = << >>) /\ (l.link # 0 => Len(l.slots) + 1 <= FrameSpan(code, l))
  BY <1>1, <1>2, PlaceFacts
<1>8. PICK j \in 0..w - 1 : i = frame + o + j
  <2>1. Name \in LocalNames
    BY DEF Gets, LocalNames
  <2>2. Offset = o
    BY <2>1, OffsetIs
  <2> QED BY <2>2 DEF Slots
<1> HIDE DEF o, w, l, b, d
<1> DEFINE q == o + j + 1
<1>9. q \in 1..Len(l.slots) /\ l.slots[q] = source[k].local /\ l.link # 0
  <2>1. j + 1 \in 1..w /\ o + (j + 1) = q
    BY <1>3
  <2>2. q \in 1..Len(l.slots)
    BY <1>3, <1>4, <1>7, <2>1
  <2>3. l.slots[o + (j + 1)] = source[k].local
    BY <1>4, <2>1
  <2> QED BY <1>7, <2>1, <2>2, <2>3
<1>10. frame = b + 2
  BY <1>1, <1>6, <1>9 DEF FpFor
<1>11. i = b + 1 + q
  BY <1>3, <1>6, <1>8, <1>10
<1> HIDE DEF q
<1>12. returns[b + 1 + q] = <<"slot", l.slots[q]>>
  BY <1>6, <1>9 DEF Holds
<1>13. b + 1 + q \in 1..d
  <2>1. q \in Int /\ 1 <= q /\ q + 1 <= Span(code, l)
    BY <1>7, <1>9
  <2>2. d \in Int /\ b \in Int /\ 1 <= b /\ d = b + Span(code, l) /\ Span(code, l) \in Int
    BY <1>6, <1>7
  <2> QED BY <2>1, <2>2
<1>14. returns[i] = <<"slot", source[k].local>> /\ i \in 1..Len(returns)
  BY <1>9, <1>11, <1>12, <1>13 DEF d
<1>15. Kind(i) = returns[i][1]
  BY <1>2, <1>14, KindIs
<1> QED BY <1>5, <1>14, <1>15

\* The inner loop never executes an operand or the text of a string: whatever definitions
\* are written by the rules of use, however the optimiser rewrites their jumps as they run,
\* and however deep they call themselves, ip is at an instruction (ficlVmInnerLoop).
THEOREM AlwaysIpOnInstruction == Spec => []IpOnInstruction
<1>1. IInv => IpOnInstruction
  BY IInvIpOnInstruction
<1> QED BY <1>1, AlwaysIInv, PTL

\* What an instruction takes off the return stack or reads from it is what another one put
\* there for it: LOOP and LEAVE find a loop, UNLINK a frame, EXIT and ; a return address,
\* and a local holds what was stored into it and not another local's value.
THEOREM AlwaysReturnStackSound == Spec => []ReturnStackSound
<1>1. IInv => ReturnStackSound
  BY IInvReturnsSound, IInvLocals DEF ReturnStackSound
<1> QED BY <1>1, AlwaysIInv, PTL

-----------------------------------------------------------------------------
(* The optimiser keeps the meaning of the code.                            *)

\* An iteration that stays in S is a function into S.
LEMMA IterationIterates ==
    ASSUME NEW S, NEW a \in S, NEW all, \A b \in S : all[b] \in S
    PROVE  Iterates(Iteration(a, all), all, S) /\ Iteration(a, all)[0] = a
BY IterationIn DEF Iterates

\* The iteration of the jumps of a definition, step by step.
LEMMA OrbitFacts ==
    ASSUME NEW c, Within(c), NEW a \in 1..Len(c)
    PROVE  /\ Orbit(c, a) \in [Nat -> 1..Len(c)] /\ Orbit(c, a)[0] = a
           /\ \A n \in Nat : LET b == Orbit(c, a)[n] IN
                 Orbit(c, a)[n + 1] = IF IsBranch(c, b) THEN BranchTarget(c, b) ELSE b
<1> DEFINE S == 1..Len(c)
           all == Jumping(c)
<1>1. Len(c) \in Nat
  BY DEF Within, Cells
<1>2. \A b \in S : all[b] = IF IsBranch(c, b) THEN BranchTarget(c, b) ELSE b
  <2>1. \A b \in S : b \in -Len(c)..2 * Len(c)
    BY <1>1
  <2> QED BY <2>1 DEF Jumping
<1>3. \A b \in S : all[b] \in S
  BY <1>2 DEF Within
<1> HIDE DEF all, S
<1>4. Iterates(Iteration(a, all), all, S) /\ Iteration(a, all)[0] = a
  <2>1. a \in S
    BY DEF S
  <2> QED BY <1>3, <2>1, IterationIterates
<1>5. Orbit(c, a) = Iteration(a, all)
  BY DEF Orbit, all
<1>6. Orbit(c, a) = Iteration(a, all) /\ Orbit(c, a) \in [Nat -> S] /\ Orbit(c, a)[0] = a
  BY <1>4, <1>5 DEF Iterates
<1>7. \A n \in Nat : Orbit(c, a)[n + 1] = all[Orbit(c, a)[n]]
  BY <1>4, <1>5 DEF Iterates
<1> QED BY <1>2, <1>6, <1>7 DEF S

\* Jumps never lead out of the definition.
LEMMA OrbitIn ==
    ASSUME NEW c, Within(c), NEW a \in 1..Len(c)
    PROVE  \A n \in Nat : Orbit(c, a)[n] \in 1..Len(c)
BY OrbitFacts

(* Control that is at an unconditional jump is where it leads one jump later. *)
LEMMA OrbitShift ==
    ASSUME NEW c, Within(c), NEW a \in 1..Len(c), IsBranch(c, a)
    PROVE  \A n \in Nat : Orbit(c, a)[n + 1] = Orbit(c, BranchTarget(c, a))[n]
<1> DEFINE t == BranchTarget(c, a)
           f == Orbit(c, a)
           g == Orbit(c, t)
           P == {n \in Nat : f[n + 1] = g[n]}
<1>1. t \in 1..Len(c)
  BY DEF Within
<1>2. /\ f[0] = a /\ \A n \in Nat : f[n + 1] = IF IsBranch(c, f[n]) THEN BranchTarget(c, f[n]) ELSE f[n]
      /\ g[0] = t /\ \A n \in Nat : g[n + 1] = IF IsBranch(c, g[n]) THEN BranchTarget(c, g[n]) ELSE g[n]
  BY <1>1, OrbitFacts
<1> HIDE DEF f, g
<1>3. 0 \in P
  <2>1. f[0 + 1] = t
    BY <1>2
  <2> QED BY <1>2, <2>1
<1>4. \A n \in P : n + 1 \in P
  <2> SUFFICES ASSUME NEW n \in Nat, f[n + 1] = g[n] PROVE f[(n + 1) + 1] = g[n + 1]
    OBVIOUS
  <2>1. n + 1 \in Nat
    OBVIOUS
  <2> HIDE DEF t
  <2> QED BY <1>2, <2>1
<1>5. P = Nat
  <2>1. P \in SUBSET Nat
    OBVIOUS
  <2> HIDE DEF P
  <2> QED BY <1>3, <1>4, <2>1, NatSetInduction
<1> QED BY <1>5 DEF f, g

(* Where control has come to rest it stays. *)
LEMMA OrbitRests ==
    ASSUME NEW S, NEW f, NEW g, NEW n, Rests(f, g, S, n)
    PROVE  \A k \in Nat : f[n + k] = f[n]
<1> DEFINE P == {k \in Nat : f[n + k] = f[n]}
<1>1. 0 \in P
  BY DEF Rests
<1>2. \A k \in P : k + 1 \in P
  <2> SUFFICES ASSUME NEW k \in Nat, f[n + k] = f[n] PROVE f[n + (k + 1)] = f[n]
    OBVIOUS
  <2>1. n + k \in Nat /\ n + (k + 1) = (n + k) + 1
    BY DEF Rests
  <2> QED BY <2>1 DEF Iterates, Rests
<1>3. P = Nat
  <2>1. P \in SUBSET Nat
    OBVIOUS
  <2> HIDE DEF P
  <2> QED BY <1>1, <1>2, <2>1, NatSetInduction
<1> QED BY <1>3

(* What repeats itself goes on to repeat itself. *)
LEMMA OrbitRepeats ==
    ASSUME NEW S, NEW f, NEW g, Iterates(f, g, S),
           NEW i \in Nat, NEW j \in Nat, f[i] = f[j]
    PROVE  \A k \in Nat : f[i + k] = f[j + k]
<1> DEFINE P == {k \in Nat : f[i + k] = f[j + k]}
<1>1. 0 \in P
  OBVIOUS
<1>2. \A k \in P : k + 1 \in P
  <2> SUFFICES ASSUME NEW k \in Nat, f[i + k] = f[j + k] PROVE f[i + (k + 1)] = f[j + (k + 1)]
    OBVIOUS
  <2>1. i + k \in Nat /\ j + k \in Nat /\ i + (k + 1) = (i + k) + 1 /\ j + (k + 1) = (j + k) + 1
    OBVIOUS
  <2>2. f[(i + k) + 1] = g[f[i + k]] /\ f[(j + k) + 1] = g[f[j + k]]
    BY <2>1 DEF Iterates
  <2> QED BY <2>1, <2>2
<1>3. P = Nat
  <2>1. P \in SUBSET Nat
    OBVIOUS
  <2> HIDE DEF P
  <2> QED BY <1>1, <1>2, <2>1, NatSetInduction
<1> QED BY <1>3

(* Control that comes to rest does so within as many jumps as there are cells. *)
LEMMA OrbitEnds ==
    ASSUME NEW c, Within(c), NEW a \in 1..Len(c), NEW x \in 1..Len(c), ~IsBranch(c, x), Reaches(c, a, x)
    PROVE  Orbit(c, a)[Len(c)] = x
<1> DEFINE L == Len(c)
           f == Orbit(c, a)
           N == {n \in Nat : f[n] = x}
<1>1. L \in Nat
  BY DEF Within, Cells
<1>2. f \in [Nat -> 1..L]
  BY OrbitFacts
<1>11. \A n \in Nat : f[n + 1] = IF IsBranch(c, f[n]) THEN BranchTarget(c, f[n]) ELSE f[n]
  BY OrbitFacts
<1> DEFINE g == [b \in 1..L |-> IF IsBranch(c, b) THEN BranchTarget(c, b) ELSE b]
<1>3. \A n \in Nat : f[n + 1] = g[f[n]]
  BY <1>2, <1>11
<1>4. Iterates(f, g, 1..L) /\ g[x] = x
  BY <1>2, <1>3 DEF Iterates
<1>5. PICK m \in N : \A k \in N : m <= k
  <2>1. N # {} /\ N \in SUBSET Nat
    BY DEF Reaches
  <2> HIDE DEF N
  <2> QED BY <2>1, NatMin
<1> HIDE DEF f, g, N, L
<1>6. m \in Nat /\ f[m] = x /\ \A k \in Nat : f[k] = x => m <= k
  BY <1>5 DEF N
<1>7. m <= L
  <2> SUFFICES ASSUME m > L PROVE FALSE
    BY <1>1, <1>6
  <2>1. PICK i \in 0..L, j \in 0..L : i < j /\ f[i] = f[j]
    BY <1>1, <1>2, Pigeons
  <2>2. i \in Nat /\ j \in Nat /\ m - j \in Nat /\ j + (m - j) = m /\ i + (m - j) \in Nat /\ i + (m - j) < m
    BY <1>1, <1>6, <2>1
  <2>3. \A k \in Nat : f[i + k] = f[j + k]
    BY <1>4, <2>1, <2>2, OrbitRepeats
  <2>4. f[i + (m - j)] = x
    BY <1>6, <2>2, <2>3
  <2> QED BY <1>6, <2>2, <2>4
<1>8. L - m \in Nat /\ m + (L - m) = L
  BY <1>1, <1>6, <1>7
<1>9. \A k \in Nat : f[m + k] = x
  <2>1. m \in Nat /\ f[m] = x /\ g[f[m]] = f[m]
    BY <1>4, <1>6
  <2>2. \A k \in Nat : f[m + k] = f[m]
    <3>1. Rests(f, g, 1..L, m)
      BY <1>4, <2>1 DEF Rests
    <3> QED BY <3>1, OrbitRests
  <2> QED BY <2>1, <2>2
<1>10. f[L] = x
  BY <1>8, <1>9
<1> QED BY <1>10 DEF f, L

(* A place is reached from a jump if it is reached from where the jump leads. *)
LEMMA ReachesBranch ==
    ASSUME NEW c, Within(c), NEW a \in 1..Len(c), IsBranch(c, a), NEW x, ~IsBranch(c, x)
    PROVE  Reaches(c, a, x) <=> Reaches(c, BranchTarget(c, a), x)
<1> DEFINE f == Orbit(c, a)
           g == Orbit(c, BranchTarget(c, a))
<1>1. f[0] = a /\ \A n \in Nat : f[n + 1] = g[n]
  <2>1. f[0] = a
    BY OrbitFacts
  <2>2. \A n \in Nat : f[n + 1] = g[n]
    BY OrbitShift
  <2> QED BY <2>1, <2>2
<1>2. a # x
  OBVIOUS
<1> HIDE DEF f, g
<1>3. ASSUME NEW n \in Nat, f[n] = x PROVE \E k \in Nat : g[k] = x
  <2>1. n # 0
    BY <1>1, <1>2, <1>3
  <2>2. n - 1 \in Nat /\ (n - 1) + 1 = n
    BY <2>1
  <2>3. g[n - 1] = x
    BY <1>1, <1>3, <2>2
  <2> QED BY <2>2, <2>3
<1>4. ASSUME NEW n \in Nat, g[n] = x PROVE \E k \in Nat : f[k] = x
  <2>1. n + 1 \in Nat
    OBVIOUS
  <2> QED BY <1>1, <1>4, <2>1
<1> QED BY <1>3, <1>4 DEF Reaches, f, g

\* Control is where it is.
LEMMA ReachesSelf ==
    ASSUME NEW c, Within(c), NEW a \in 1..Len(c)
    PROVE  Reaches(c, a, a)
BY OrbitFacts DEF Reaches

(* What holds where control ends, and of a jump when it holds where the jump leads, holds from the start. *)
LEMMA ReachesFrom ==
    ASSUME NEW c, Within(c), NEW a \in 1..Len(c), NEW x, Reaches(c, a, x), NEW Z, x \in Z,
           \A b \in 1..Len(c) : IsBranch(c, b) /\ BranchTarget(c, b) \in Z => b \in Z
    PROVE  a \in Z
<1> DEFINE f == Orbit(c, a)
<1>1. /\ f \in [Nat -> 1..Len(c)] /\ f[0] = a
      /\ \A n \in Nat : f[n + 1] = IF IsBranch(c, f[n]) THEN BranchTarget(c, f[n]) ELSE f[n]
  BY OrbitFacts
<1>2. PICK m \in Nat : f[m] = x
  BY DEF Reaches
<1> HIDE DEF f
<1> DEFINE P == {k \in Nat : k <= m => f[m - k] \in Z}
<1>3. 0 \in P
  BY <1>2
<1>4. \A k \in P : k + 1 \in P
  <2> SUFFICES ASSUME NEW k \in Nat, k <= m => f[m - k] \in Z, k + 1 <= m PROVE f[m - (k + 1)] \in Z
    OBVIOUS
  <2> DEFINE n == m - (k + 1)
  <2>1. n \in Nat /\ n + 1 = m - k
    OBVIOUS
  <2>2. f[n + 1] \in Z
    BY <2>1
  <2> HIDE DEF n
  <2>3. f[n] \in 1..Len(c)
    BY <1>1, <2>1
  <2>4. f[n] \in Z
    BY <1>1, <2>1, <2>2, <2>3
  <2> QED BY <2>4 DEF n
<1>5. P = Nat
  <2>1. P \in SUBSET Nat
    OBVIOUS
  <2> HIDE DEF P
  <2> QED BY <1>3, <1>4, <2>1, NatSetInduction
<1>6. f[m - m] \in Z
  <2>1. m \in P
    BY <1>5
  <2> QED BY <2>1
<1>7. m - m = 0
  OBVIOUS
<1> QED BY <1>1, <1>6, <1>7

(* Two places that control leaves for the same end settle at the same place. *)
LEMMA SettlesSame ==
    ASSUME NEW c, NEW a, NEW e, NEW b, EndsAlike(c, a, e, b)
    PROVE  Settles(c, a) = Settles(e, b)
<1>8. Within(c) /\ Within(e) /\ Len(e) = Len(c) /\ a \in 1..Len(c) /\ b \in 1..Len(c)
  BY DEF EndsAlike
<1>9. /\ \A z \in 1..Len(c) : IsBranch(c, z) <=> IsBranch(e, z)
      /\ \A z \in 1..Len(c) : ~IsBranch(c, z) => (Reaches(c, a, z) <=> Reaches(e, b, z))
  BY DEF EndsAlike
<1> DEFINE L == Len(c)
           x == Orbit(c, a)[L]
           y == Orbit(e, b)[L]
<1>1. L \in Nat
  BY <1>8 DEF Within, Cells
<1>2. x \in 1..L /\ y \in 1..L
  BY <1>1, <1>8, OrbitIn
<1>3. Settles(c, a) = IF IsBranch(c, x) THEN 3 * L ELSE x
  BY <1>8 DEF Settles, Orbit, Iteration, Jumping
<1>4. Settles(e, b) = IF IsBranch(e, y) THEN 3 * L ELSE y
  BY <1>8 DEF Settles, Orbit, Iteration, Jumping
<1>5. Reaches(c, a, x) /\ Reaches(e, b, y)
  BY <1>1 DEF Reaches
<1>6. CASE ~IsBranch(c, x)
  <2>1. Reaches(e, b, x) /\ ~IsBranch(e, x)
    BY <1>2, <1>5, <1>6, <1>9
  <2>2. y = x
    BY <1>2, <1>8, <2>1, OrbitEnds
  <2> QED BY <1>3, <1>4, <1>6, <2>1, <2>2
<1>7. CASE ~IsBranch(e, y)
  <2>1. Reaches(c, a, y) /\ ~IsBranch(c, y)
    BY <1>2, <1>5, <1>7, <1>8, <1>9
  <2>2. x = y
    BY <1>2, <1>8, <2>1, OrbitEnds
  <2> QED BY <1>3, <1>4, <1>7, <2>1, <2>2
<1> QED BY <1>3, <1>4, <1>6, <1>7

\* From every jump of the chain but the first, control ends where it ends from the place they
\* all are to lead to.
LEMMA ChainReaches ==
    ASSUME NEW c, Within(c), NEW hop, NEW calls, NEW to, ChainOf(c, hop, calls, to), NEW x, ~IsBranch(c, x)
    PROVE  \A n \in 1..calls : Reaches(c, hop[n], x) <=> Reaches(c, to, x)
<1>1. calls \in Nat \ {0} /\ hop \in [Nat -> 1..Len(c)]
  BY DEF ChainOf
<1> DEFINE Right(n) == Reaches(c, hop[n], x) <=> Reaches(c, to, x)
           N == {k \in 0..calls - 1 : ~Right(calls - k)}
<1>2. Right(calls)
  <2>1. hop[calls] \in 1..Len(c)
    BY <1>1
  <2> QED BY <2>1, ReachesBranch DEF ChainOf
<1>3. ASSUME NEW n \in 1..calls - 1, Right(n + 1) PROVE Right(n)
  <2>1. hop[n] \in 1..Len(c) /\ n \in 0..calls - 1
    BY <1>1
  <2>2. IsBranch(c, hop[n]) /\ hop[n + 1] = BranchTarget(c, hop[n])
    BY <2>1 DEF ChainOf
  <2>3. Reaches(c, hop[n], x) <=> Reaches(c, hop[n + 1], x)
    BY <2>1, <2>2, ReachesBranch
  <2> QED BY <1>3, <2>3
<1> HIDE DEF Right
<1>4. N = {}
  <2> SUFFICES ASSUME N # {} PROVE FALSE
    OBVIOUS
  <2>1. PICK m \in N : \A k \in N : m <= k
    <3>1. N \in SUBSET Nat
      BY <1>1
    <3> HIDE DEF N
    <3> QED BY <3>1, NatMin
  <2>2. m \in 0..calls - 1 /\ ~Right(calls - m)
    OBVIOUS
  <2>3. m # 0
    BY <1>1, <1>2, <2>2
  <2>4. m - 1 \in 0..calls - 1 /\ ~(m <= m - 1) /\ calls - (m - 1) = (calls - m) + 1 /\ calls - m \in 1..calls - 1
    BY <1>1, <2>2, <2>3
  <2>5. Right(calls - (m - 1))
    <3>1. m - 1 \notin N
      BY <2>1, <2>4
    <3> QED BY <2>4, <3>1
  <2> QED BY <1>3, <2>2, <2>4, <2>5
<1>5. ASSUME NEW n \in 1..calls PROVE Right(n)
  <2>1. calls - n \in 0..calls - 1 /\ calls - (calls - n) = n
    BY <1>1
  <2> QED BY <1>4, <2>1
<1> QED BY <1>5 DEF Right

(* A jump of the chain leads to the place they all are to lead to, or to one *)
(* that does so in the rewritten code.                                       *)
LEMMA ChainNext ==
    ASSUME NEW c, Within(c), NEW e, NEW hop, NEW calls, NEW to, ChainOf(c, hop, calls, to),
           Redirected(c, e, {hop[n] : n \in 0..calls - 1}, to), NEW k \in 1..calls
    PROVE  hop[k] = to \/ (IsBranch(e, hop[k]) /\ BranchTarget(e, hop[k]) = to)
<1> DEFINE K == {hop[n] : n \in 0..calls - 1}
<1>1. calls \in Nat \ {0} /\ hop \in [Nat -> 1..Len(c)] /\ k \in Nat /\ hop[k] \in 1..Len(c)
  <2>1. calls \in Nat \ {0} /\ hop \in [Nat -> 1..Len(c)]
    BY DEF ChainOf
  <2>2. k \in Nat
    BY <2>1
  <2>3. \A n \in Nat : hop[n] \in 1..Len(c)
    BY <2>1
  <2> QED BY <2>1, <2>2, <2>3
<1>2. IsBranch(c, hop[k]) => IsBranch(e, hop[k]) /\ BranchTarget(e, hop[k]) = IF hop[k] \in K THEN to ELSE BranchTarget(c, hop[k])
  <2>1. Redirected(c, e, K, to)
    OBVIOUS
  <2> HIDE DEF K
  <2> QED BY <1>1, <2>1 DEF Redirected
<1>3. CASE k # calls
  <2>1. k \in 1..calls - 1 /\ hop[k] \in K
    BY <1>1, <1>3
  <2>2. IsBranch(c, hop[k])
    BY <2>1 DEF ChainOf
  <2> QED BY <1>2, <2>1, <2>2
<1>4. CASE k = calls
  <2>1. to = IF IsBranch(c, hop[k]) THEN BranchTarget(c, hop[k]) ELSE hop[k]
    BY <1>4 DEF ChainOf
  <2> QED BY <1>2, <2>1
<1> QED BY <1>3, <1>4

(* Jumps that are redirected to where their chain goes end where they ended. *)
LEMMA RedirectedReaches ==
    ASSUME NEW c, Within(c), NEW e, Within(e), NEW hop, NEW calls, NEW to, to \in 1..Len(c), ChainOf(c, hop, calls, to),
           Redirected(c, e, {hop[n] : n \in 0..calls - 1}, to),
           NEW a \in 1..Len(c), NEW x \in 1..Len(c), ~IsBranch(c, x)
    PROVE  Reaches(c, a, x) <=> Reaches(e, a, x)
<1> DEFINE K == {hop[n] : n \in 0..calls - 1}
           E == {b \in 1..Len(c) : Reaches(e, b, x)}
           C == {b \in 1..Len(c) : Reaches(c, b, x)}
<1>1. calls \in Nat \ {0} /\ hop \in [Nat -> 1..Len(c)]
  BY DEF ChainOf
<1>2. /\ Len(e) = Len(c) /\ ~IsBranch(e, x)
      /\ \A b \in 1..Len(c) : IsBranch(c, b) <=> IsBranch(e, b)
      /\ \A b \in 1..Len(c) : IsBranch(c, b) => BranchTarget(e, b) = IF b \in K THEN to ELSE BranchTarget(c, b)
  BY DEF Redirected
<1>3. ASSUME NEW b \in 1..Len(c), IsBranch(c, b), BranchTarget(c, b) \in E PROVE b \in E
  <2>1. IsBranch(e, b) /\ b \in 1..Len(e)
    BY <1>2, <1>3
  <2>2. Reaches(e, BranchTarget(e, b), x)
    <3>1. CASE b \notin K
      BY <3>1, <1>2, <1>3
    <3>2. CASE b \in K
      <4>1. PICK n \in 0..calls - 1 : b = hop[n]
        BY <3>2
      <4>2. n + 1 \in 1..calls /\ hop[n + 1] = BranchTarget(c, b)
        BY <1>1, <4>1 DEF ChainOf
      <4>3. Reaches(e, hop[n + 1], x) /\ hop[n + 1] \in 1..Len(e)
        BY <1>2, <1>3, <4>2
      <4>4. hop[n + 1] = to \/ (IsBranch(e, hop[n + 1]) /\ BranchTarget(e, hop[n + 1]) = to)
        BY <4>2, ChainNext
      <4>5. Reaches(e, to, x)
        BY <1>2, <4>3, <4>4, ReachesBranch
      <4> QED BY <4>5, <3>2, <1>2, <1>3
    <3> QED BY <3>1, <3>2
  <2>3. Reaches(e, b, x)
    BY <1>2, <2>1, <2>2, ReachesBranch
  <2> QED BY <2>3
<1>4. ASSUME NEW b \in 1..Len(e), IsBranch(e, b), BranchTarget(e, b) \in C PROVE b \in C
  <2>1. IsBranch(c, b) /\ b \in 1..Len(c)
    BY <1>2, <1>4
  <2>2. Reaches(c, BranchTarget(c, b), x)
    <3>1. CASE b \notin K
      BY <3>1, <1>2, <1>4, <2>1
    <3>2. CASE b \in K
      <4>1. PICK n \in 0..calls - 1 : b = hop[n]
        BY <3>2
      <4>2. n + 1 \in 1..calls /\ hop[n + 1] = BranchTarget(c, b)
        BY <1>1, <4>1 DEF ChainOf
      <4>3. Reaches(c, to, x)
        BY <1>2, <1>4, <2>1, <3>2
      <4> QED BY <4>2, <4>3, ChainReaches
    <3> QED BY <3>1, <3>2
  <2>3. Reaches(c, b, x)
    BY <2>1, <2>2, ReachesBranch
  <2> QED BY <2>1, <2>3
<1>5. x \in E /\ x \in C
  <2>1. Reaches(e, x, x) /\ Reaches(c, x, x)
    BY <1>2, ReachesSelf
  <2> QED BY <2>1
<1> HIDE DEF E, C
<1>6. Reaches(c, a, x) => a \in E
  BY <1>3, <1>5, ReachesFrom
<1>7. Reaches(e, a, x) => a \in C
  BY <1>2, <1>4, <1>5, ReachesFrom
<1> QED BY <1>6, <1>7 DEF E, C

\* What is an unconditional jump.
LEMMA BranchIs ==
    ASSUME NEW c \in Cells, NEW b \in 1..Len(c)
    PROVE  IsBranch(c, b) <=> c[b] \in {Instr("branch"), Instr("branchCheck")}
<1>1. DOMAIN c = 1..Len(c)
  BY DEF Cells
<1> QED BY <1>1 DEF IsBranch

(* The jumps of a definition whose operands are all filled in lead into it.  *)
LEMMA FlowsWithin ==
    ASSUME NEW c, NEW s, NEW v, NEW T, Flows(c, s, v, T, {}), Len(T) = Len(c)
    PROVE  /\ Within(c)
           /\ \A b \in 1..Len(c) : c[b][1] \in Branches =>
                 BranchTarget(c, b) \in 1..Len(c) /\ b + 1 \in 1..Len(c)
<1>1. c \in Cells
  BY FlowsFacts
<1>2. ASSUME NEW b \in 1..Len(c), c[b][1] \in Branches
      PROVE  BranchTarget(c, b) \in 1..Len(c) /\ b + 1 \in 1..Len(c)
  <2>1. IsPlace(c, b)
    BY <1>2 DEF IsPlace, Branches
  <2>2. Jumped(c, T, b) /\ Rest(c, s, T, b)
    BY <2>1 DEF Flows
  <2>3. BranchTarget(c, b) \in 1..Len(c)
    BY <1>2, <2>2 DEF Jumped, At
  <2>4. b + 1 \in 1..Len(c)
    BY <1>2, <2>2 DEF Rest, Branches, Gets, Tos, Dos, Loopings, HasOperand
  <2> QED BY <2>3, <2>4
<1>3. ASSUME NEW b \in 1..Len(c), IsBranch(c, b) PROVE BranchTarget(c, b) \in 1..Len(c)
  <2>1. c[b][1] \in Branches
    BY <1>1, <1>3, BranchIs DEF Instr, Branches
  <2> QED BY <1>2, <2>1
<1> QED BY <1>1, <1>2, <1>3 DEF Within

(* A rewriting redirects the jumps it rewrites and no others. *)
LEMMA RewrittenRedirects ==
    ASSUME NEW c, NEW s, NEW v, NEW T, Flows(c, s, v, T, {}), Len(T) = Len(c),
           NEW e, NEW K, NEW to \in Int, Rewritten(c, e, K, to)
    PROVE  /\ Redirected(c, e, K, to)
           /\ \A b \in K : BranchTarget(e, b) = to
           /\ \A b \in 1..Len(c) : b \notin K /\ c[b][1] \in Branches => BranchTarget(e, b) = BranchTarget(c, b)
<1>1. /\ c \in Cells /\ e \in Cells /\ Len(e) = Len(c) /\ Len(c) \in Nat
      /\ \A b \in K : /\ b \in 1..Len(c) /\ IsPlace(c, b)
                      /\ \/ c[b] = Instr("branchCheck") /\ e[b] = Instr("branch")
                         \/ c[b] = Instr("branch0Check") /\ e[b] = Instr("branch0")
  BY FlowsFacts DEF Rewritten
<1>2. /\ \A b \in K : e[b + 1] = Operand(to - (b + 1))
      /\ \A b \in 1..Len(c) : IsPlace(c, b) <=> IsPlace(e, b)
      /\ \A b \in 1..Len(c) : b \notin K /\ IsPlace(c, b) => e[b] = c[b]
      /\ \A b \in 1..Len(c) : b \notin K /\ b + 1 \in 1..Len(c) => e[b + 1][2] = c[b + 1][2]
  BY RewrittenCells
<1>3. ASSUME NEW b \in K PROVE BranchTarget(e, b) = to
  <2>1. b \in Int /\ e[b + 1][2] = to - (b + 1)
    BY <1>1, <1>2 DEF Operand
  <2> QED BY <2>1 DEF BranchTarget
<1>4. ASSUME NEW b \in 1..Len(c), b \notin K, c[b][1] \in Branches PROVE BranchTarget(e, b) = BranchTarget(c, b)
  <2>1. b + 1 \in 1..Len(c)
    BY <1>4, FlowsWithin
  <2> QED BY <1>2, <1>4, <2>1 DEF BranchTarget
<1>5. ASSUME NEW b \in 1..Len(c) PROVE IsBranch(c, b) <=> IsBranch(e, b)
  <2>1. IsBranch(c, b) <=> c[b] \in {Instr("branch"), Instr("branchCheck")}
    BY <1>1, BranchIs
  <2>2. IsBranch(e, b) <=> e[b] \in {Instr("branch"), Instr("branchCheck")}
    BY <1>1, BranchIs
  <2>3. CASE b \in K
    BY <1>1, <2>1, <2>2, <2>3 DEF Instr
  <2>4. CASE b \notin K /\ IsPlace(c, b)
    BY <1>2, <2>1, <2>2, <2>4
  <2>5. CASE ~IsPlace(c, b)
    <3>1. ~IsPlace(e, b)
      BY <1>2, <2>5
    <3> QED BY <1>1, <2>1, <2>2, <2>5, <3>1 DEF IsPlace, Instr
  <2> QED BY <2>3, <2>4, <2>5
<1>6. ASSUME NEW b \in 1..Len(c), IsBranch(c, b) PROVE BranchTarget(e, b) = IF b \in K THEN to ELSE BranchTarget(c, b)
  <2>1. c[b][1] \in Branches
    BY <1>1, <1>6, BranchIs DEF Instr, Branches
  <2> QED BY <1>3, <1>4, <2>1
<1> QED BY <1>1, <1>3, <1>4, <1>5, <1>6 DEF Redirected

(* The calls of the optimiser are a chain. *)
LEMMA CallsChain ==
    ASSUME NEW c \in Cells, NEW a, NEW hop, Iterates(hop, HopStep(c, a), 1..Len(c)), hop[0] = a
    PROVE  LET calls == Calls(c, hop) IN ChainOf(c, hop, calls, Beyond(c, hop[calls]))
<1> DEFINE calls == Calls(c, hop)
           to == Beyond(c, hop[calls])
<1>1. DOMAIN c = 1..Len(c)
  BY DEF Cells
<1>3. \A n \in Nat : hop[n + 1] = HopStep(c, a)[hop[n]]
  BY DEF Iterates
<1>4. hop \in [Nat -> 1..Len(c)]
  BY DEF Iterates
<1>5. calls \in 1..Len(c) /\ \A n \in 1..calls - 1 : c[hop[n]] = Instr("branchCheck")
  BY <1>4, CallsEnd
<1> HIDE DEF calls
<1>6. calls \in Nat \ {0}
  BY <1>5
<1>7. ASSUME NEW n \in 0..calls - 1 PROVE hop[n + 1] = BranchTarget(c, hop[n])
  <2>1. n \in Nat /\ hop[n] \in 1..Len(c)
    BY <1>4, <1>6
  <2>2. hop[n] = a \/ c[hop[n]] = Instr("branchCheck")
    <3>1. n = 0 \/ n \in 1..calls - 1
      BY <1>6
    <3> QED BY <1>5, <3>1
  <2>3. HopStep(c, a)[hop[n]] = BranchTarget(c, hop[n])
    BY <1>1, <2>1, <2>2 DEF HopStep
  <2> QED BY <1>3, <2>1, <2>3
<1>8. ASSUME NEW n \in 1..calls - 1 PROVE IsBranch(c, hop[n])
  <2>1. hop[n] \in 1..Len(c)
    BY <1>4, <1>6
  <2> QED BY <1>5, <2>1, BranchIs
<1>9. to = IF IsBranch(c, hop[calls]) THEN BranchTarget(c, hop[calls]) ELSE hop[calls]
  <2>1. hop[calls] \in 1..Len(c)
    BY <1>4, <1>6
  <2> HIDE DEF calls
  <2> QED BY <2>1, BranchIs DEF Beyond, BranchTarget
<1> HIDE DEF to
<1>10. ChainOf(c, hop, calls, to)
  BY <1>4, <1>6, <1>7, <1>8, <1>9 DEF ChainOf
<1> QED BY <1>10 DEF calls, to

\* Where control ends is the same when the jumps of a chain are redirected, for every place and
\* for what the first of them leads to.
LEMMA RedirectedSettles ==
    ASSUME NEW c, Within(c), NEW e, Within(e), NEW hop, NEW calls, NEW to \in 1..Len(c), ChainOf(c, hop, calls, to),
           Redirected(c, e, {hop[n] : n \in 0..calls - 1}, to)
    PROVE  /\ \A a \in 1..Len(c) : Settles(e, a) = Settles(c, a)
           /\ \A n \in 1..calls : Settles(e, to) = Settles(c, hop[n])
<1>1. Len(e) = Len(c) /\ \A x \in 1..Len(c) : IsBranch(c, x) <=> IsBranch(e, x)
  BY DEF Redirected
<1>2. ASSUME NEW a \in 1..Len(c), NEW x \in 1..Len(c), ~IsBranch(c, x) PROVE Reaches(c, a, x) <=> Reaches(e, a, x)
  BY <1>2, RedirectedReaches
<1>3. ASSUME NEW a \in 1..Len(c) PROVE Settles(c, a) = Settles(e, a)
  <2>1. EndsAlike(c, a, e, a)
    BY <1>1, <1>2 DEF EndsAlike
  <2> QED BY <2>1, SettlesSame
<1>4. ASSUME NEW n \in 1..calls PROVE Settles(c, hop[n]) = Settles(e, to)
  <2> DEFINE h == hop[n]
  <2>1. h \in 1..Len(c)
    <3>1. calls \in Nat /\ hop \in [Nat -> 1..Len(c)]
      BY DEF ChainOf
    <3>2. n \in Nat
      BY <3>1
    <3> QED BY <3>1, <3>2
  <2>2. ASSUME NEW x \in 1..Len(c), ~IsBranch(c, x) PROVE Reaches(c, h, x) <=> Reaches(e, to, x)
    <3>1. Reaches(c, hop[n], x) <=> Reaches(c, to, x)
      BY <2>2, ChainReaches
    <3> QED BY <1>2, <2>2, <3>1
  <2> HIDE DEF h
  <2>3. Settles(c, h) = Settles(e, to)
    <3>1. EndsAlike(c, h, e, to)
      BY <1>1, <2>1, <2>2 DEF EndsAlike
    <3> QED BY <3>1, SettlesSame
  <2> QED BY <2>3 DEF h
<1> QED BY <1>3, <1>4

(* Jumps to jumps are rewritten to where those lead, and nothing changes in where control ends. *)
LEMMA OptimisedSettles ==
    ASSUME NEW c, NEW s, NEW v, NEW T, Flows(c, s, v, T, {}), Len(T) = Len(c), v.count = 0,
           NEW a \in 1..Len(c), IsPlace(c, a)
    PROVE  SameEnds(c, Optimised(c, a))
<1>1. CASE c[a] \notin {Instr("branchCheck"), Instr("branch0Check")}
  <2>1. Optimised(c, a) = c
    BY <1>1 DEF Optimised, OptimisedFrom
  <2> QED BY <2>1 DEF SameEnds
<1>2. CASE c[a] \in {Instr("branchCheck"), Instr("branch0Check")}
  <2> DEFINE e == Optimised(c, a)
             hop == Hops(c, a)
             calls == Calls(c, hop)
             to == Beyond(c, hop[calls])
             K == {hop[n] : n \in 0..calls - 1}
  <2>1. /\ Iterates(hop, HopStep(c, a), 1..Len(c)) /\ hop[0] = a
        /\ to \in 1..Len(c) /\ Rewritten(c, e, K, to)
    <3>1. ChainRewritten(c, T, a)
      BY <1>2, OptimisedChain
    <3> QED BY <3>1 DEF ChainRewritten, Chain
  <2>2. Flows(e, s, v, T, {}) /\ Len(e) = Len(c)
    <3>1. SameFlow(c, s, v, T, e)
      BY OptimisedFlows
    <3> QED BY <3>1 DEF SameFlow
  <2> HIDE DEF e
  <2>3. Within(c) /\ \A b \in 1..Len(c) : c[b][1] \in Branches => BranchTarget(c, b) \in 1..Len(c)
    BY FlowsWithin
  <2>4. Within(e)
    BY <2>2, FlowsWithin
  <2>5. ChainOf(c, hop, calls, to)
    <3>1. c \in Cells
      BY <2>3 DEF Within
    <3> HIDE DEF hop
    <3> QED BY <2>1, <3>1, CallsChain
  <2> HIDE DEF hop, calls, to
  <2>6. /\ Redirected(c, e, K, to) /\ \A b \in K : BranchTarget(e, b) = to
        /\ \A b \in 1..Len(c) : b \notin K /\ c[b][1] \in Branches => BranchTarget(e, b) = BranchTarget(c, b)
    <3>1. to \in Int
      BY <2>1
    <3> HIDE DEF K
    <3> QED BY <2>1, <3>1, RewrittenRedirects
  <2>7. /\ \A b \in 1..Len(c) : Settles(e, b) = Settles(c, b)
        /\ \A n \in 1..calls : Settles(e, to) = Settles(c, hop[n])
    BY <2>1, <2>3, <2>4, <2>5, <2>6, RedirectedSettles
  <2>8. ASSUME NEW b \in 1..Len(c), c[b] \in {Instr("branch0"), Instr("branch0Check")}
        PROVE  Settles(e, BranchTarget(e, b)) = Settles(c, BranchTarget(c, b))
    <3>1. c[b][1] \in Branches
      BY <2>8 DEF Instr, Branches
    <3>2. CASE b \notin K
      <4>1. BranchTarget(e, b) = BranchTarget(c, b) /\ BranchTarget(c, b) \in 1..Len(c)
        BY <2>3, <2>6, <3>1, <3>2
      <4> QED BY <2>7, <4>1
    <3>3. CASE b \in K
      <4>1. PICK n \in 0..calls - 1 : b = hop[n]
        BY <3>3
      <4>2. calls \in Nat /\ hop[n + 1] = BranchTarget(c, b)
        BY <2>5, <4>1 DEF ChainOf
      <4>3. n + 1 \in 1..calls
        BY <4>2
      <4>4. BranchTarget(e, b) = to
        BY <2>6, <3>3
      <4> QED BY <2>7, <4>2, <4>3, <4>4
    <3> QED BY <3>2, <3>3
  <2>9. DOMAIN c = 1..Len(c)
    BY <2>3 DEF Within, Cells
  <2> QED BY <2>7, <2>8, <2>9 DEF SameEnds, e
<1> QED BY <1>1, <1>2

(* Of what changes definitions that run there is only the optimiser. *)
LEMMA NextEnds ==
    ASSUME IInv, [Next]_vars, mode = "run"
    PROVE  SameEnds(code, code')
<1>1. CASE code' = code
  BY <1>1 DEF SameEnds
<1>2. CASE Branch
  <2>1. PICK T, B, x : /\ Sealed(code, source, locals, T) /\ Runs(code, T, returns, B, x)
                       /\ x.at = ip /\ x.fp = frame
    BY Now
  <2>2. ip \in 1..Len(code) /\ IsPlace(code, ip)
    BY <2>1, NowFacts
  <2>3. Flows(code, source, locals, T, {}) /\ Len(T) = Len(code) /\ locals.count = 0
    BY <2>1 DEF Sealed
  <2>4. SameEnds(code, Optimised(code, ip))
    BY <2>2, <2>3, OptimisedSettles
  <2> QED BY <1>2, <2>4 DEF Branch
<1>3. code' = code \/ Branch
  BY DEF Next, vars, Colon, ColonNoName, Begun, CompileWord, CompileSemicolon, Execute, LiteralParen, OfParen, DoParen,
         LoopParen, Leave, Unloop, LinkParen, UnlinkParen, LocalParen, Call, Return_, Running, Kept
<1> QED BY <1>1, <1>2, <1>3

\* Rewriting a jump to a jump while the definition runs, as often as the optimiser does it and
\* also where jumps lead round in a circle, leaves every jump with the place where control
\* finally ends.
THEOREM AlwaysOptimizeKeepsMeaning == Spec => OptimizeKeepsMeaning
<1>1. IInv /\ [Next]_vars => [mode = "run" => SameEnds(code, code')]_vars
  BY NextEnds
<1>2. [mode = "run" => SameEnds(code, code')]_vars
      <=> [mode = "run" =>
              \A a \in DOMAIN code :
                  /\ Settles(code', a) = Settles(code, a)
                  /\ code[a] \in {Instr("branch0"), Instr("branch0Check")} =>
                        Settles(code', BranchTarget(code', a)) = Settles(code, BranchTarget(code, a))]_vars
  BY DEF SameEnds
<1> QED BY <1>1, <1>2, AlwaysIInv, PTL DEF Spec, OptimizeKeepsMeaning

=============================================================================

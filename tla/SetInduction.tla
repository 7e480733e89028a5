--------------------------- MODULE SetInduction ---------------------------
(***************************************************************************)
(* Induction over the natural numbers in the form the proofs of this       *)
(* project use: the property is a set of numbers, never an operator, so    *)
(* that every step is a first-order fact.  From it follows that iterating  *)
(* a function is well defined, which is what the list walks of hash.c are. *)
(***************************************************************************)
EXTENDS Integers, TLAPS, FiniteSetTheorems

(* A set of natural numbers that is not empty has a least element. *)
LEMMA NatMin ==
    ASSUME NEW S \in SUBSET Nat, S # {}
    PROVE  \E m \in S : \A k \in S : m <= k
<1> DEFINE Segments == {0..k : k \in S}
           Order    == StrictSubsetOrdering(Nat)
<1>1. IsWellFoundedOn(Order, FiniteSubsetsOf(Nat))
  BY FS_StrictSubsetOrderingWellFounded
<1>2. Segments \subseteq FiniteSubsetsOf(Nat) /\ Segments # {}
  <2>1. ASSUME NEW k \in S PROVE 0..k \in SUBSET Nat /\ IsFiniteSet(0..k)
    BY FS_Interval
  <2> QED BY <2>1 DEF FiniteSubsetsOf
<1>3. PICK x \in Segments : \A y \in Segments : ~(<<y, x>> \in Order)
  <2> HIDE DEF Order, Segments
  <2> QED BY <1>1, <1>2, WFMin
<1>4. PICK m \in S : x = 0..m
  OBVIOUS
<1>5. ASSUME NEW k \in S, k < m PROVE FALSE
  <2>1. 0..k \in Segments /\ 0..k \subseteq 0..m /\ 0..k # 0..m
    <3>1. m \in 0..m /\ m \notin 0..k BY <1>5
    <3> QED BY <3>1, <1>5
  <2>2. <<0..k, 0..m>> \in Order
    BY <2>1 DEF StrictSubsetOrdering
  <2> QED BY <2>1, <2>2, <1>3, <1>4
<1> QED BY <1>5

(* A set that holds zero and the successor of each of its members is Nat. *)
LEMMA NatSetInduction ==
    ASSUME NEW P \in SUBSET Nat, 0 \in P, \A n \in P : n + 1 \in P
    PROVE  P = Nat
<1> SUFFICES ASSUME Nat \ P # {} PROVE FALSE
  OBVIOUS
<1>1. PICK m \in Nat \ P : \A k \in Nat \ P : m <= k
  BY NatMin
<1>2. m # 0 /\ m - 1 \in Nat /\ m - 1 \in P
  BY <1>1
<1> QED BY <1>1, <1>2

(* f is the iteration of step from start, up to its n-th value. *)
IsIteration(f, start, step, n) ==
    f[0] = start /\ \A k \in 1..n : f[k] = step[f[k - 1]]

(* Iterating a function is well defined. *)
LEMMA IterationExists ==
    ASSUME NEW S, NEW start \in S, NEW step \in [S -> S]
    PROVE  \E f \in [Nat -> S] :
              f = [k \in Nat |-> IF k = 0 THEN start ELSE step[f[k - 1]]]
<1> DEFINE Upto(n) == {f \in [0..n -> S] : IsIteration(f, start, step, n)}
           Has == {n \in Nat : Upto(n) # {}}
<1>1. 0 \in Has
  <2> DEFINE f == [k \in 0..0 |-> start]
  <2>1. f \in Upto(0)
    BY DEF IsIteration
  <2> QED BY <2>1
<1>2. ASSUME NEW n \in Has PROVE n + 1 \in Has
  <2>1. PICK f \in Upto(n) : TRUE
    OBVIOUS
  <2> DEFINE g == [k \in 0..(n + 1) |-> IF k <= n THEN f[k] ELSE step[f[n]]]
  <2>2. f \in [0..n -> S] /\ n \in Nat
    OBVIOUS
  <2>3. g \in [0..(n + 1) -> S]
    <3> SUFFICES ASSUME NEW k \in 0..(n + 1)
                 PROVE  (IF k <= n THEN f[k] ELSE step[f[n]]) \in S
      OBVIOUS
    <3>1. k <= n => k \in 0..n BY <2>2
    <3>2. n \in 0..n BY <2>2
    <3> QED BY <3>1, <3>2, <2>2
  <2>4. IsIteration(g, start, step, n + 1)
    <3>1. g[0] = start
      BY <2>1, <2>2 DEF IsIteration
    <3>2. ASSUME NEW k \in 1..(n + 1) PROVE g[k] = step[g[k - 1]]
      <4>1. CASE k <= n
        BY <4>1, <2>1, <2>2 DEF IsIteration
      <4>2. CASE k = n + 1
        BY <4>2, <2>2
      <4> QED BY <4>1, <4>2, <2>2
    <3> QED BY <3>1, <3>2 DEF IsIteration
  <2> QED BY <2>2, <2>3, <2>4
<1>3. Has = Nat
  <2> HIDE DEF Has
  <2>1. Has \in SUBSET Nat BY DEF Has
  <2> QED BY <1>1, <1>2, <2>1, NatSetInduction
<1>4. \A n \in Nat : \A f \in Upto(n) : \A g \in Upto(n + 1) :
         \A k \in 0..n : g[k] = f[k]
  <2> SUFFICES ASSUME NEW n \in Nat, NEW f \in Upto(n), NEW g \in Upto(n + 1)
               PROVE  \A k \in 0..n : g[k] = f[k]
    OBVIOUS
  <2> DEFINE Same == {k \in Nat : k <= n => g[k] = f[k]}
  <2>1. 0 \in Same
    BY DEF IsIteration
  <2>2. ASSUME NEW k \in Same PROVE k + 1 \in Same
    <3> SUFFICES ASSUME k + 1 <= n PROVE g[k + 1] = f[k + 1]
      OBVIOUS
    <3>1. k + 1 \in 1..n /\ k + 1 \in 1..(n + 1) /\ (k + 1) - 1 = k
      OBVIOUS
    <3>2. g[k + 1] = step[g[k]] /\ f[k + 1] = step[f[k]]
      BY <3>1 DEF IsIteration
    <3> QED BY <3>2
  <2>3. Same = Nat
    <3> HIDE DEF Same
    <3>1. Same \in SUBSET Nat BY DEF Same
    <3> QED BY <2>1, <2>2, <3>1, NatSetInduction
  <2> QED BY <2>3
<1> DEFINE Part(n) == CHOOSE f \in Upto(n) : TRUE
           F == [n \in Nat |-> Part(n)[n]]
<1>5. \A n \in Nat : Part(n) \in Upto(n)
  BY <1>3
<1>6. F \in [Nat -> S]
  <2> SUFFICES ASSUME NEW n \in Nat PROVE Part(n)[n] \in S
    OBVIOUS
  <2>1. Part(n) \in [0..n -> S] BY <1>5
  <2> QED BY <2>1
<1>7. ASSUME NEW k \in Nat
      PROVE  F[k] = IF k = 0 THEN start ELSE step[F[k - 1]]
  <2>1. CASE k = 0
    <3>1. Part(0) \in Upto(0) BY <1>5
    <3>2. Part(0)[0] = start
      <4> HIDE DEF Part
      <4> QED BY <3>1 DEF IsIteration
    <3> QED BY <2>1, <3>2
  <2>2. CASE k # 0
    <3> DEFINE j == k - 1
    <3>1. j \in Nat /\ k = j + 1 /\ k \in 1..k /\ j \in 0..j
      BY <2>2
    <3>2. Part(j) \in Upto(j) /\ Part(j + 1) \in Upto(j + 1)
      BY <1>5, <3>1
    <3>3. Part(j + 1)[j] = Part(j)[j]
      <4> HIDE DEF Part, Upto, j
      <4> QED BY <1>4, <3>1, <3>2
    <3>4. Part(j + 1)[j + 1] = step[Part(j + 1)[j]]
      <4> HIDE DEF Part, j
      <4> QED BY <3>1, <3>2 DEF IsIteration
    <3> HIDE DEF Part
    <3> QED BY <3>1, <3>3, <3>4, <2>2
  <2> QED BY <2>1, <2>2
<1>8. F = [k \in Nat |-> IF k = 0 THEN start ELSE step[F[k - 1]]]
  <2> HIDE DEF Part
  <2>1. F = [k \in Nat |-> F[k]]
    BY <1>6
  <2> HIDE DEF F
  <2> QED BY <1>7, <2>1
<1> HIDE DEF F
<1> QED BY <1>6, <1>8
=============================================================================

----------------------- MODULE FiclDictionaryProofs -----------------------
(***************************************************************************)
(* Theorems about FiclDictionary for a program that keeps every obligation, *)
(* whatever the size of memory, the names, their hash codes, the number of *)
(* buckets and the length of the search order.  First what the list walks  *)
(* of hash.c and dictionary.c come to in a dictionary that is well linked:  *)
(* a walk ends, and a lookup ends at NULL or at a finished word of the     *)
(* name it was given.  Then that every step keeps the dictionary well      *)
(* linked, and every finished word in the one chain where it is looked for. *)
(* Last that FiclDictionary implements WordlistSpec, finds what            *)
(* WordlistSpec says a name means and brings back what a marker saved:     *)
(* these proofs read each step as one of three, which keep the chains,     *)
(* insert one word, or forget from some address on.                        *)
(***************************************************************************)
EXTENDS DictionaryRefinement, SetInduction, SequenceTheorems

-----------------------------------------------------------------------------
(* List walks *)

(* Follow is the Size-th value of a walk: it starts at h, stays in any set   *)
(* that holds h and is closed under the links, and stops in Stop.            *)
LEMMA FollowWalk ==
    ASSUME NEW S \in SUBSET Pointer, NEW h \in S, NEW Stop,
           NEW next \in [Addr -> Pointer], Null \in Stop,
           \A a \in S : a \notin Stop => next[a] \in S
    PROVE  \E at \in [Nat -> S] :
              /\ at[0] = h
              /\ \A k \in Nat :
                    at[k + 1] = IF at[k] \in Stop THEN at[k] ELSE next[at[k]]
              /\ Follow(h, next, Stop) = at[Size]
<1> DEFINE hop == [a \in Pointer |-> IF a \in Stop THEN a ELSE next[a]]
           step == [a \in S |-> hop[a]]
           at == CHOOSE f : f = [k \in Nat |-> IF k = 0 THEN h ELSE hop[f[k - 1]]]
<1>1. step \in [S -> S]
  BY DEF Pointer, Addr, Null
<1>2. PICK f \in [Nat -> S] :
         f = [k \in Nat |-> IF k = 0 THEN h ELSE step[f[k - 1]]]
  <2> HIDE DEF step
  <2> QED BY <1>1, IterationExists
<1>3. f = [k \in Nat |-> IF k = 0 THEN h ELSE hop[f[k - 1]]]
  <2>1. \A k \in Nat : k # 0 => f[k - 1] \in S
    OBVIOUS
  <2> HIDE DEF hop
  <2> QED BY <1>2, <2>1
<1>4. at = [k \in Nat |-> IF k = 0 THEN h ELSE hop[at[k - 1]]]
  <2> HIDE DEF hop
  <2> QED BY <1>3
<1> DEFINE In == {k \in Nat : at[k] \in S}
<1>5. 0 \in In
  <2> HIDE DEF hop, at
  <2> QED BY <1>4
<1>6. ASSUME NEW k \in In PROVE k + 1 \in In
  <2>1. at[k + 1] = hop[at[k]]
    <3> HIDE DEF hop, at
    <3> QED BY <1>4
  <2>2. at[k] \in S
    OBVIOUS
  <2>3. hop[at[k]] \in S
    <3> HIDE DEF at
    <3> QED BY <2>2 DEF Pointer, Addr, Null
  <2> HIDE DEF at, hop
  <2> QED BY <2>1, <2>3
<1>7. In = Nat
  <2> HIDE DEF In
  <2>1. In \in SUBSET Nat BY DEF In
  <2> QED BY <1>5, <1>6, <2>1, NatSetInduction
<1>8. at \in [Nat -> S]
  <2>1. \A k \in Nat : at[k] \in S BY <1>7
  <2>2. at = [k \in Nat |-> at[k]]
    <3> HIDE DEF hop, at
    <3> QED BY <1>4
  <2> HIDE DEF at
  <2> QED BY <2>1, <2>2
<1>9. \A k \in Nat : at[k + 1] = IF at[k] \in Stop THEN at[k] ELSE next[at[k]]
  <2> SUFFICES ASSUME NEW k \in Nat
               PROVE  at[k + 1] = IF at[k] \in Stop THEN at[k] ELSE next[at[k]]
    OBVIOUS
  <2>1. at[k + 1] = hop[at[k]]
    <3> HIDE DEF hop, at
    <3> QED BY <1>4
  <2>2. at[k] \in Pointer BY <1>8
  <2> HIDE DEF at
  <2> QED BY <2>1, <2>2
<1>10. at[0] = h
  <2> HIDE DEF hop, at
  <2> QED BY <1>4
<1>11. Follow(h, next, Stop) = at[Size]
  BY DEF Follow
<1> HIDE DEF at
<1> QED BY <1>8, <1>9, <1>10, <1>11

(* A walk ends in any set that holds its start and is closed under links. *)
LEMMA FollowIn ==
    ASSUME NEW S \in SUBSET Pointer, NEW h \in S, NEW Stop,
           NEW next \in [Addr -> Pointer], Null \in Stop,
           \A a \in S : a \notin Stop => next[a] \in S
    PROVE  Follow(h, next, Stop) \in S
BY FollowWalk, SizeAssumption

(* A walk along links that descend reaches Stop: it meets no cycle. *)
LEMMA FollowStops ==
    ASSUME NEW S \in SUBSET Pointer, NEW h \in S, NEW Stop,
           NEW next \in [Addr -> Pointer], Null \in Stop,
           \A a \in S : a \notin Stop => next[a] \in S /\ next[a] < a
    PROVE  Follow(h, next, Stop) \in Stop
<1>1. PICK at \in [Nat -> S] :
         /\ at[0] = h
         /\ \A k \in Nat : at[k + 1] = IF at[k] \in Stop THEN at[k] ELSE next[at[k]]
         /\ Follow(h, next, Stop) = at[Size]
  BY FollowWalk
<1>2. S \subseteq 0..Size /\ S \subseteq Nat
  BY SizeAssumption DEF Pointer
<1> DEFINE Low == {k \in Nat : at[k] \in Stop \/ at[k] + k <= Size}
<1>3. 0 \in Low
  BY <1>1, <1>2, SizeAssumption
<1>4. ASSUME NEW k \in Low PROVE k + 1 \in Low
  <2>0. k \in Nat /\ k + 1 \in Nat
    OBVIOUS
  <2>1. at[k] \in S /\ at[k + 1] \in S /\ at[k] \in Nat /\ at[k + 1] \in Nat
    <3>1. at[k] \in S /\ at[k + 1] \in S
      BY <2>0
    <3> HIDE DEF Low
    <3> QED BY <3>1, <1>2
  <2>2. CASE at[k] \in Stop
    BY <2>2, <1>1
  <2>3. CASE at[k] \notin Stop
    <3>1. at[k + 1] < at[k] BY <2>0, <2>1, <2>3, <1>1
    <3> QED BY <2>0, <2>1, <2>3, <3>1, SizeAssumption
  <2> QED BY <2>2, <2>3
<1>5. Low = Nat
  <2> HIDE DEF Low
  <2>1. Low \in SUBSET Nat BY DEF Low
  <2> QED BY <1>3, <1>4, <2>1, NatSetInduction
<1>6. at[Size] \in Stop \/ at[Size] + Size <= Size
  BY <1>5, SizeAssumption
<1>7. at[Size] + Size <= Size => at[Size] = Null
  <2>1. at[Size] \in S /\ at[Size] \in 0..Size BY <1>2, SizeAssumption
  <2> QED BY <2>1, SizeAssumption DEF Null
<1> QED BY <1>1, <1>6, <1>7
(* From every entry of D that is not in Stop, next leads down in D. *)
Descends(D, next, Stop) ==
    \A a \in D : a \notin Stop => next[a] \in D /\ next[a] < a

(* A walk that begins in Stop ends where it began. *)
LEMMA FollowAt ==
    ASSUME NEW D \in SUBSET Pointer, NEW h \in D, NEW Stop,
           NEW next \in [Addr -> Pointer], Null \in Stop, h \in Stop
    PROVE  Follow(h, next, Stop) = h
<1>1. {h} \in SUBSET Pointer /\ h \in {h}
  OBVIOUS
<1>2. \A a \in {h} : a \notin Stop => next[a] \in {h}
  OBVIOUS
<1> DEFINE S == {h}
<1> HIDE DEF S
<1>3. Follow(h, next, Stop) \in S
  <2>1. S \in SUBSET Pointer /\ h \in S /\ \A a \in S : a \notin Stop => next[a] \in S
    BY <1>1, <1>2 DEF S
  <2> QED BY <2>1, FollowIn
<1> QED BY <1>3 DEF S

(* Any other walk ends where it would if it began one link further on. *)
LEMMA FollowOn ==
    ASSUME NEW D \in SUBSET Pointer, NEW h \in D, NEW Stop,
           NEW next \in [Addr -> Pointer], Null \in Stop,
           Descends(D, next, Stop), h \notin Stop
    PROVE  Follow(h, next, Stop) = Follow(next[h], next, Stop)
<1> DEFINE g == next[h]
<1>0. g \in D /\ g < h
  BY DEF Descends
<1>1. \A a \in D : a \notin Stop => next[a] \in D /\ next[a] < a
  BY DEF Descends
<1>a. \A a \in D : a \notin Stop => next[a] \in D
  BY <1>1
<1> HIDE DEF g
<1>b. g \in D
  BY <1>0
<1>2. PICK at \in [Nat -> D] :
         /\ at[0] = h
         /\ \A k \in Nat : at[k + 1] = IF at[k] \in Stop THEN at[k] ELSE next[at[k]]
         /\ Follow(h, next, Stop) = at[Size]
  BY <1>a, FollowWalk
<1>3. PICK bt \in [Nat -> D] :
         /\ bt[0] = g
         /\ \A k \in Nat : bt[k + 1] = IF bt[k] \in Stop THEN bt[k] ELSE next[bt[k]]
         /\ Follow(g, next, Stop) = bt[Size]
  BY <1>a, <1>b, FollowWalk
<1>4. D \subseteq 0..Size /\ D \subseteq Nat
  BY SizeAssumption DEF Pointer
<1> DEFINE Behind == {k \in Nat : at[k + 1] = bt[k]}
<1>5. 0 \in Behind
  <2>1. at[0 + 1] = next[at[0]]
    BY <1>2
  <2> QED BY <2>1, <1>2, <1>3 DEF g
<1>6. ASSUME NEW k \in Behind PROVE k + 1 \in Behind
  <2>1. k \in Nat /\ k + 1 \in Nat /\ at[k + 1] = bt[k]
    OBVIOUS
  <2> HIDE DEF Behind
  <2>2. /\ at[(k + 1) + 1] = IF at[k + 1] \in Stop THEN at[k + 1] ELSE next[at[k + 1]]
        /\ bt[k + 1] = IF bt[k] \in Stop THEN bt[k] ELSE next[bt[k]]
    BY <1>2, <1>3, <2>1
  <2>3. at[(k + 1) + 1] = bt[k + 1]
    BY <2>1, <2>2
  <2> QED BY <2>1, <2>3 DEF Behind
<1>7. Behind = Nat
  <2> HIDE DEF Behind
  <2>1. Behind \in SUBSET Nat BY DEF Behind
  <2> QED BY <1>5, <1>6, <2>1, NatSetInduction
<1> DEFINE Low == {k \in Nat : bt[k] \in Stop \/ bt[k] + k <= Size - 1}
<1>8. 0 \in Low
  <2>1. g \in Nat /\ h \in Nat /\ h <= Size
    BY <1>0, <1>4, SizeAssumption
  <2> QED BY <1>0, <1>3, <2>1, SizeAssumption
<1>9. ASSUME NEW k \in Low PROVE k + 1 \in Low
  <2>0. k \in Nat /\ k + 1 \in Nat
    OBVIOUS
  <2>1. bt[k] \in D /\ bt[k + 1] \in D /\ bt[k] \in Nat /\ bt[k + 1] \in Nat
    <3>1. bt[k] \in D /\ bt[k + 1] \in D
      BY <2>0
    <3> HIDE DEF Low
    <3> QED BY <3>1, <1>4
  <2>2. CASE bt[k] \in Stop
    BY <2>2, <1>3
  <2>3. CASE bt[k] \notin Stop
    <3>1. bt[k + 1] < bt[k] BY <2>0, <2>1, <2>3, <1>1, <1>3
    <3> QED BY <2>0, <2>1, <2>3, <3>1, SizeAssumption
  <2> QED BY <2>2, <2>3
<1>10. Low = Nat
  <2> HIDE DEF Low
  <2>1. Low \in SUBSET Nat BY DEF Low
  <2> QED BY <1>8, <1>9, <2>1, NatSetInduction
<1> DEFINE m == Size - 1
<1>11. m \in Nat /\ Size = m + 1
  BY SizeAssumption
<1> HIDE DEF m
<1>12. bt[m] \in Stop
  <2>1. m \in Low
    BY <1>10, <1>11
  <2>2. bt[m] \in D /\ bt[m] \in Nat
    BY <1>4, <1>11
  <2>3. bt[m] + m <= m => bt[m] = Null
    BY <2>2, <1>11 DEF Null
  <2> QED BY <2>1, <2>3, <1>11
<1>13. at[m + 1] = bt[m]
  <2> HIDE DEF Behind
  <2>1. m \in Behind
    BY <1>7, <1>11
  <2> QED BY <2>1 DEF Behind
<1>14. bt[m + 1] = bt[m]
  BY <1>3, <1>11, <1>12
<1> QED BY <1>2, <1>3, <1>11, <1>13, <1>14 DEF g

(* Two walks of the same links end at the same place. *)
LEMMA FollowSame ==
    ASSUME NEW D \in SUBSET Pointer, NEW h \in D, NEW Stop,
           NEW next \in [Addr -> Pointer], NEW next2 \in [Addr -> Pointer], Null \in Stop,
           Descends(D, next, Stop), \A a \in D : a \notin Stop => next2[a] = next[a]
    PROVE  Follow(h, next2, Stop) = Follow(h, next, Stop)
<1> DEFINE Same == {k \in Nat : \A a \in D : a <= k => Follow(a, next2, Stop) = Follow(a, next, Stop)}
<1>0. Descends(D, next2, Stop)
  BY DEF Descends
<1>1. D \subseteq Nat /\ D \subseteq Pointer
  BY SizeAssumption DEF Pointer
<1>2. 0 \in Same
  <2> SUFFICES ASSUME NEW a \in D, a <= 0
               PROVE  Follow(a, next2, Stop) = Follow(a, next, Stop)
    OBVIOUS
  <2>1. a = Null
    BY <1>1 DEF Null
  <2> QED BY <2>1, FollowAt
<1>3. ASSUME NEW k \in Same PROVE k + 1 \in Same
  <2> SUFFICES ASSUME NEW a \in D, a <= k + 1
               PROVE  Follow(a, next2, Stop) = Follow(a, next, Stop)
    OBVIOUS
  <2>1. CASE a \in Stop
    BY <2>1, FollowAt
  <2>2. CASE a \notin Stop
    <3> DEFINE c == next[a]
    <3>1. c \in D /\ c < a /\ next2[a] = c
      BY <2>2 DEF Descends
    <3> HIDE DEF c
    <3>2. c <= k
      BY <1>1, <3>1
    <3>3. Follow(c, next2, Stop) = Follow(c, next, Stop)
      BY <3>1, <3>2
    <3>4. Follow(a, next, Stop) = Follow(c, next, Stop)
      BY <2>2, FollowOn DEF c
    <3>5. Follow(a, next2, Stop) = Follow(c, next2, Stop)
      BY <1>0, <2>2, <3>1, FollowOn
    <3> QED BY <3>3, <3>4, <3>5
  <2> QED BY <2>1, <2>2
<1>4. Same = Nat
  <2> HIDE DEF Same
  <2>1. Same \in SUBSET Nat BY DEF Same
  <2> QED BY <1>2, <1>3, <2>1, NatSetInduction
<1>5. h \in Same
  BY <1>1, <1>4
<1>6. h \in Nat /\ h <= h
  BY <1>1
<1> QED BY <1>5, <1>6

(* A walk may rest on its way: where it stops for more, it can go on. *)
LEMMA FollowVia ==
    ASSUME NEW D \in SUBSET Pointer, NEW h \in D, NEW Stop, NEW Rest,
           NEW next \in [Addr -> Pointer], Null \in Stop, Stop \subseteq Rest,
           Descends(D, next, Stop)
    PROVE  Follow(Follow(h, next, Rest), next, Stop) = Follow(h, next, Stop)
<1> DEFINE Same == {k \in Nat : \A a \in D : a <= k =>
                        Follow(Follow(a, next, Rest), next, Stop) = Follow(a, next, Stop)}
<1>0. Descends(D, next, Rest) /\ Null \in Rest
  BY DEF Descends
<1>1. D \subseteq Nat /\ D \subseteq Pointer
  BY SizeAssumption DEF Pointer
<1>2. 0 \in Same
  <2> SUFFICES ASSUME NEW a \in D, a <= 0
               PROVE  Follow(Follow(a, next, Rest), next, Stop) = Follow(a, next, Stop)
    OBVIOUS
  <2>1. a = Null
    BY <1>1 DEF Null
  <2>2. Follow(a, next, Rest) = a
    BY <1>0, <2>1, FollowAt
  <2> QED BY <2>2
<1>3. ASSUME NEW k \in Same PROVE k + 1 \in Same
  <2> SUFFICES ASSUME NEW a \in D, a <= k + 1
               PROVE  Follow(Follow(a, next, Rest), next, Stop) = Follow(a, next, Stop)
    OBVIOUS
  <2>1. CASE a \in Rest
    <3>1. Follow(a, next, Rest) = a
      BY <1>0, <2>1, FollowAt
    <3> QED BY <3>1
  <2>2. CASE a \notin Rest
    <3> DEFINE c == next[a]
    <3>1. c \in D /\ c < a /\ a \notin Stop
      BY <2>2 DEF Descends
    <3>4. Follow(a, next, Rest) = Follow(c, next, Rest)
      BY <1>0, <2>2, FollowOn
    <3>5. Follow(a, next, Stop) = Follow(c, next, Stop)
      BY <3>1, FollowOn
    <3> HIDE DEF c
    <3>2. c <= k
      BY <1>1, <3>1
    <3>3. Follow(Follow(c, next, Rest), next, Stop) = Follow(c, next, Stop)
      BY <3>1, <3>2
    <3> QED BY <3>3, <3>4, <3>5
  <2> QED BY <2>1, <2>2
<1>4. Same = Nat
  <2> HIDE DEF Same
  <2>1. Same \in SUBSET Nat BY DEF Same
  <2> QED BY <1>2, <1>3, <2>1, NatSetInduction
<1>5. h \in Same
  BY <1>1, <1>4
<1>6. h \in Nat /\ h <= h
  BY <1>1
<1> QED BY <1>5, <1>6

-----------------------------------------------------------------------------
(* Lookups *)

EntrySet == {a \in Pointer : Entry(a)}

\* What is in use lies in memory.
LEMMA LiveAddr ==
    ASSUME TypeOK
    PROVE  LiveLists \subseteq Addr /\ LiveWords \subseteq Addr
<1>1. here - 1 <= Size
  BY SizeAssumption DEF TypeOK
<1> QED BY <1>1, SizeAssumption DEF LiveLists, LiveWords, Addr, TypeOK

\* The links of words and of wordlists are pointers.
LEMMA LinkTypes ==
    ASSUME TypeOK
    PROVE  WordLink \in [Addr -> Pointer] /\ ListLink \in [Addr -> Pointer]
<1>1. \A a \in Addr : word[a] \in Words /\ list[a] \in Wordlists
  BY DEF TypeOK
<1> QED BY <1>1 DEF WordLink, ListLink, Words, Wordlists

\* Every name hashes to a bucket of every wordlist.
LEMMA BucketType ==
    ASSUME TypeOK, NEW l \in Addr, NEW n \in Names
    PROVE  BucketOf(l, n) \in Bucket
<1>1. list[l].size \in 1..MaxBuckets
  BY DEF TypeOK, Wordlists
<1>2. HashCode[n] \in Nat
  BY HashAssumption
<1>3. HashCode[n] % list[l].size \in 0..(list[l].size - 1)
  BY <1>1, <1>2, BucketsAssumption
<1> QED BY <1>1, <1>3, BucketsAssumption DEF BucketOf, Bucket

(* A walk down a chain from an entry comes to an entry of the Stop set. *)
LEMMA ChainWalk ==
    ASSUME TypeOK, WellLinked, NEW h \in EntrySet, NEW Stop, Null \in Stop
    PROVE  Follow(h, WordLink, Stop) \in EntrySet \cap Stop
<1>1. WordLink \in [Addr -> Pointer]
  BY LinkTypes
<1>2. EntrySet \in SUBSET Pointer
  BY DEF EntrySet
<1>3. ASSUME NEW a \in EntrySet, a \notin Stop
      PROVE  WordLink[a] \in EntrySet /\ WordLink[a] < a
  <2>1. a \in LiveWords /\ a \in Addr
    BY <1>3, LiveAddr DEF EntrySet, Entry
  <2>2. Entry(word[a].link) /\ word[a].link < a
    BY <2>1, <1>3 DEF WellLinked, LinksDescend, EntrySet
  <2>3. WordLink[a] = word[a].link
    BY <2>1 DEF WordLink
  <2> QED BY <1>1, <2>1, <2>2, <2>3 DEF EntrySet
<1>4. Follow(h, WordLink, Stop) \in EntrySet
  BY <1>1, <1>2, <1>3, FollowIn
<1>5. Follow(h, WordLink, Stop) \in Stop
  BY <1>1, <1>2, <1>3, FollowStops
<1> QED BY <1>4, <1>5

\* A search of one chain finds NULL or a finished word of the name.
LEMMA ChainLookupSound ==
    ASSUME TypeOK, WellLinked, NEW l \in LiveLists, NEW n \in Names
    PROVE  /\ ChainLookup(l, n) \in EntrySet
           /\ ChainLookup(l, n) # Null => word[ChainLookup(l, n)].name = n
<1>1. l \in Addr
  BY LiveAddr
<1>2. BucketOf(l, n) \in Bucket
  BY <1>1, BucketType
<1>3. list[l].table[BucketOf(l, n)] \in EntrySet
  <2>1. Entry(list[l].table[BucketOf(l, n)])
    BY <1>2 DEF WellLinked, HeadsLive
  <2>2. list[l].table[BucketOf(l, n)] \in Pointer
    BY <1>1, <1>2 DEF TypeOK, Wordlists
  <2> QED BY <2>1, <2>2 DEF EntrySet
<1> DEFINE Stop == {Null} \cup {a \in Addr : word[a].name = n}
<1>4. Follow(list[l].table[BucketOf(l, n)], WordLink, Stop) \in EntrySet \cap Stop
  <2>1. Null \in Stop OBVIOUS
  <2> HIDE DEF Stop
  <2> QED BY <1>3, <2>1, ChainWalk
<1> QED BY <1>4 DEF ChainLookup

\* So does ficlHashLookup, whatever parents it goes through.
LEMMA HashLookupSound ==
    ASSUME TypeOK, WellLinked, NEW l \in LiveLists, NEW n \in Names
    PROVE  /\ HashLookup(l, n) \in EntrySet
           /\ HashLookup(l, n) # Null => word[HashLookup(l, n)].name = n
<1> DEFINE Stop == {Null} \cup {m \in Addr : kind[m] = "list" /\ ChainLookup(m, n) # Null}
           S == {Null} \cup LiveLists
           found == Follow(l, ListLink, Stop)
<1>1. ListLink \in [Addr -> Pointer]
  BY LinkTypes
<1>2. S \in SUBSET Pointer
  BY SizeAssumption DEF LiveLists, TypeOK, Pointer, Null
<1>3. ASSUME NEW a \in S, a \notin Stop PROVE ListLink[a] \in S
  <2>1. a \in LiveLists /\ a \in Addr
    <3>1. a \in LiveLists
      <4>1. a # Null BY <1>3
      <4> HIDE DEF Stop
      <4> QED BY <1>3, <4>1
    <3> QED BY <3>1, LiveAddr
  <2>2. ListLink[a] = list[a].link
    BY <2>1 DEF ListLink
  <2> QED BY <2>1, <2>2 DEF WellLinked, ParentsLive
<1>4. found \in S
  <2>1. Null \in Stop OBVIOUS
  <2> HIDE DEF Stop, S
  <2>2. l \in S BY DEF S
  <2> QED BY <1>1, <1>2, <1>3, <2>1, <2>2, FollowIn
<1>5. Null \in EntrySet
  BY SizeAssumption DEF EntrySet, Entry, Pointer, Null
<1>6. CASE found = Null
  BY <1>5, <1>6 DEF HashLookup
<1>7. CASE found # Null
  <2>1. found \in LiveLists
    BY <1>4, <1>7
  <2>2. HashLookup(l, n) = ChainLookup(found, n)
    BY <1>7 DEF HashLookup
  <2> HIDE DEF found
  <2> QED BY <2>1, <2>2, ChainLookupSound
<1> QED BY <1>6, <1>7

(* A non-empty set of positions of a sequence has a last one. *)
LEMMA LastPosition ==
    ASSUME NEW k \in Nat, NEW S \in SUBSET (1..k), S # {}
    PROVE  \E i \in S : \A j \in S : j <= i
<1> DEFINE T == {k - i : i \in S}
<1>1. T \in SUBSET Nat /\ T # {}
  OBVIOUS
<1>2. PICK m \in T : \A t \in T : m <= t
  <2> HIDE DEF T
  <2> QED BY <1>1, NatMin
<1>3. PICK i \in S : m = k - i
  OBVIOUS
<1>4. \A j \in S : k - i <= k - j
  BY <1>2, <1>3
<1> QED BY <1>4

\* So does ficlDictionaryLookup, whatever the search order.
LEMMA LookupIsSound ==
    ASSUME TypeOK, WellLinked, NEW n \in Names
    PROVE  /\ Lookup(n) \in EntrySet
           /\ Lookup(n) # Null => word[Lookup(n)].name = n
<1> DEFINE hits == {i \in DOMAIN order : HashLookup(order[i], n) # Null}
           top == CHOOSE i \in hits : \A j \in hits : j <= i
<1>1. CASE hits = {}
  <2>1. Lookup(n) = Null
    BY <1>1 DEF Lookup
  <2> QED BY <2>1, SizeAssumption DEF EntrySet, Entry, Pointer, Null
<1>2. CASE hits # {}
  <2>1. DOMAIN order = 1..Len(order) /\ Len(order) \in Nat
    BY DEF TypeOK
  <2>2. \E i \in hits : \A j \in hits : j <= i
    <3>1. hits \in SUBSET (1..Len(order)) BY <2>1
    <3> HIDE DEF hits
    <3> QED BY <2>1, <1>2, <3>1, LastPosition
  <2>3. top \in hits
    <3> HIDE DEF hits
    <3> QED BY <2>2
  <2>4. order[top] \in LiveLists
    BY <2>3 DEF WellLinked, ListsLive
  <2>5. Lookup(n) = HashLookup(order[top], n)
    BY <1>2 DEF Lookup
  <2> HIDE DEF top
  <2> QED BY <2>4, <2>5, HashLookupSound
<1> QED BY <1>1, <1>2

-----------------------------------------------------------------------------
(* The inductive invariant *)

(* A smudged header lies below here. *)
SmudgedReal == \A a \in Addr : word[a].smudged => a < here /\ kind[a] = "word"

(* Above an open definition there is only its own body, so aborting it      *)
(* frees no wordlist and no finished word.                                  *)
OpenIsLast ==
    DefinitionOpen => \A a \in 1..(here - 1) : a > smudge => kind[a] = "data"

(* A marker has saved wordlists older than itself. *)
MarkersSave ==
    \A a \in LiveWords : kind[a] = "marker" =>
        /\ saved[a].current \in LiveLists /\ saved[a].current < a
        /\ \A i \in DOMAIN saved[a].order :
              saved[a].order[i] \in LiveLists /\ saved[a].order[i] < a

ForthLive == ForthWordlist \in LiveLists

(* The inductive invariant: besides what a lookup relies on, a smudged header *)
(* is real, the definition being compiled lies above everything finished, a   *)
(* marker names older wordlists, and the forth wordlist is never freed.       *)
IInv ==
    /\ TypeOK
    /\ WellLinked
    /\ CompilingIsOpen
    /\ SmudgedReal
    /\ OpenIsLast
    /\ MarkersSave
    /\ ForthLive

(* The steps of a program that keeps every obligation. *)
Careful == Obligations = AllObligations

-----------------------------------------------------------------------------
(* The initial state *)

\* The inductive invariant holds at first.
LEMMA InitIInv == Init => IInv
<1> SUFFICES ASSUME Init PROVE IInv
  OBVIOUS
<1>1. TypeOK
  <2>1. HashCode[Resident] \in Nat
    BY NamesAssumption, HashAssumption
  <2>2. kind \in [Addr -> Kinds]
    BY DEF Init, Kinds
  <2>3. word \in [Addr -> Words]
    <3>1. Null \in Pointer
      BY SizeAssumption DEF Pointer, Null
    <3>2. NoWord \in Words
      BY <3>1 DEF Words, NoWord
    <3>3. [NoWord EXCEPT !.name = Resident] \in Words
      BY <3>2, NamesAssumption DEF Words
    <3> QED BY <3>2, <3>3 DEF Init
  <2>4. list \in [Addr -> Wordlists]
    BY BucketsAssumption, SizeAssumption
    DEF Init, Wordlists, NoWordlist, Pointer, Null, Bucket
  <2>5. saved \in [Addr -> Saves]
    BY SizeAssumption DEF Init, Saves, NoSave, Pointer, Null
  <2>6. here \in 1..(Size + 1) /\ smudge \in Addr /\ current \in Pointer
    BY SizeAssumption DEF Init, Addr, Pointer, ForthWordlist
  <2>7. order \in Seq(Pointer)
    BY <2>6 DEF Init
  <2>8. state \in {"interpret", "compile"} /\ colonSys \in Nat
    BY DEF Init
  <2> QED BY <2>2, <2>3, <2>4, <2>5, <2>6, <2>7, <2>8 DEF TypeOK
<1>2. LiveLists = {1} /\ LiveWords = {2}
  BY SizeAssumption DEF Init, LiveLists, LiveWords, IsWord, Addr
<1>3. \A a \in LiveWords : word[a] = [NoWord EXCEPT !.name = Resident]
  BY <1>2, SizeAssumption DEF Init, Addr
<1>4. Entry(Null) /\ Entry(2)
  BY <1>2, <1>3, NamesAssumption DEF Entry, NoWord
<1>5. WellLinked
  <2>1. ListsLive
    BY <1>2 DEF ListsLive, Init, ForthWordlist
  <2>2. ParentsLive /\ HeadsLive
    BY <1>2, <1>4, SizeAssumption
    DEF ParentsLive, HeadsLive, Init, ForthWordlist, Addr
  <2>3. LinksDescend
    BY <1>2, <1>3, <1>4 DEF LinksDescend, NoWord, Null
  <2> QED BY <2>1, <2>2, <2>3 DEF WellLinked
<1>6. CompilingIsOpen
  BY DEF Init, CompilingIsOpen
<1>7. SmudgedReal
  BY DEF Init, SmudgedReal, NoWord
<1>8. OpenIsLast
  BY DEF Init, OpenIsLast, DefinitionOpen
<1>9. MarkersSave
  BY <1>2, SizeAssumption DEF Init, MarkersSave, Addr
<1>10. ForthLive
  BY <1>2 DEF ForthLive, ForthWordlist
<1> QED BY <1>1, <1>5, <1>6, <1>7, <1>8, <1>9, <1>10 DEF IInv

-----------------------------------------------------------------------------
(* Three ways a step changes memory: not at all, one unit more, or freeing  *)
(* all of it from some unit on.                                             *)

(* What the memory holds by itself, whatever the order and the VM state. *)
MemoryOK == ParentsLive /\ HeadsLive /\ LinksDescend /\ SmudgedReal /\ MarkersSave /\ ForthLive

\* What is in use, and what may be linked, depends on here and the kinds and words
\* below it only.
LEMMA MemoryKept ==
    ASSUME IInv, UNCHANGED <<here, kind, word, list, saved>>
    PROVE  MemoryOK' /\ LiveLists' = LiveLists
<1>1. LiveLists' = LiveLists /\ LiveWords' = LiveWords
  BY DEF LiveLists, LiveWords, IsWord
<1>2. \A a : Entry(a)' <=> Entry(a)
  BY <1>1 DEF Entry
<1>3. ParentsLive' /\ HeadsLive' /\ LinksDescend'
  BY <1>1, <1>2 DEF IInv, WellLinked, ParentsLive, HeadsLive, LinksDescend
<1>4. SmudgedReal' /\ MarkersSave' /\ ForthLive'
  BY <1>1 DEF IInv, SmudgedReal, MarkersSave, ForthLive
<1> QED BY <1>1, <1>3, <1>4 DEF MemoryOK

\* Appending a unit makes one more word or wordlist, above all others.
LEMMA Appended ==
    ASSUME TypeOK, NEW k \in Kinds, RoomFor(1),
           here' = here + 1, kind' = [kind EXCEPT ![here] = k]
    PROVE  /\ here \in Addr /\ here \notin LiveWords /\ here \notin LiveLists
           /\ here' \in 1..(Size + 1) /\ kind' \in [Addr -> Kinds]
           /\ LiveWords' = LiveWords \cup {a \in {here} : k \in {"word", "marker"}}
           /\ LiveLists' = LiveLists \cup {a \in {here} : k = "list"}
<1>1. here \in Nat /\ here \in Addr /\ here + 1 \in 1..(Size + 1) /\ 1..(here - 1) \subseteq Addr
  BY SizeAssumption DEF TypeOK, RoomFor, Addr
<1>2. here' - 1 = here /\ 1..(here' - 1) = (1..(here - 1)) \cup {here}
  BY <1>1 DEF Addr
<1>3. here \notin 1..(here - 1)
  BY <1>1
<1>4. kind' \in [Addr -> Kinds] /\ kind'[here] = k
  BY <1>1 DEF TypeOK
<1>5. \A a \in 1..(here - 1) : kind'[a] = kind[a]
  BY <1>1, <1>3 DEF TypeOK
<1>6. LiveWords' = LiveWords \cup {a \in {here} : k \in {"word", "marker"}}
  BY <1>2, <1>4, <1>5 DEF LiveWords, IsWord
<1>7. LiveLists' = LiveLists \cup {a \in {here} : k = "list"}
  BY <1>2, <1>4, <1>5 DEF LiveLists
<1> QED BY <1>1, <1>3, <1>4, <1>6, <1>7 DEF LiveWords, LiveLists

(* What freeing memory from where leaves, when the wordlists below it are   *)
(* given chains of entries below it.                                        *)
LEMMA Freed ==
    ASSUME IInv, NEW where \in 1..here, 1 < where,
           NEW lists \in [Addr -> Wordlists], FreeFrom(where, lists),
           \A l \in LiveLists : l < where =>
              /\ lists[l].link = list[l].link
              /\ \A b \in Bucket : Entry(lists[l].table[b]) /\ lists[l].table[b] < where
    PROVE  /\ MemoryOK'
           /\ LiveLists' = {l \in LiveLists : l < where}
           /\ here' \in 1..(Size + 1) /\ kind' \in [Addr -> Kinds]
           /\ word' \in [Addr -> Words] /\ list' \in [Addr -> Wordlists]
           /\ saved' \in [Addr -> Saves]
           /\ \A a \in Addr : word'[a].smudged => word[a].smudged
           /\ \A a : Entry(a) /\ a < where => Entry(a)'
<1>0. here \in Nat /\ where \in Nat /\ TypeOK /\ WellLinked /\ SmudgedReal
  BY DEF IInv, TypeOK
<1>1. \A a \in Addr : kind'[a] = IF a < where THEN kind[a] ELSE "free"
  BY DEF FreeFrom, Below
<1>2. \A a \in Addr : word'[a] = IF a < where THEN word[a] ELSE NoWord
  BY DEF FreeFrom, Below
<1>3. \A a \in Addr : list'[a] = IF a < where THEN lists[a] ELSE NoWordlist
  BY DEF FreeFrom, Below
<1>4. \A a \in Addr : saved'[a] = IF a < where THEN saved[a] ELSE NoSave
  BY DEF FreeFrom, Below
<1>5. here' = where /\ 1..(where - 1) \subseteq 1..(here - 1)
  BY <1>0 DEF FreeFrom
<1>6. 1..(here - 1) \subseteq Addr
  BY <1>0, SizeAssumption DEF TypeOK, Addr
<1>7. LiveLists' = {l \in LiveLists : l < where}
  BY <1>0, <1>1, <1>5, <1>6 DEF LiveLists
<1>8. LiveWords' = {a \in LiveWords : a < where}
  BY <1>0, <1>1, <1>5, <1>6 DEF LiveWords, IsWord
<1>9. LiveLists \subseteq Addr /\ LiveWords \subseteq Addr /\ Addr \subseteq Nat
  BY <1>0, LiveAddr, SizeAssumption DEF Addr
<1>10. ASSUME NEW a, Entry(a), a < where PROVE Entry(a)'
  BY <1>2, <1>8, <1>9, <1>10 DEF Entry
<1>11. ASSUME NEW a, Entry(a)' PROVE Entry(a)
  BY <1>2, <1>8, <1>9, <1>11 DEF Entry
<1>12. ParentsLive'
  <2> SUFFICES ASSUME NEW l \in LiveLists', list'[l].link # Null
               PROVE  list'[l].link \in LiveLists' /\ list'[l].link < l
    BY DEF ParentsLive
  <2>1. l \in LiveLists /\ l < where /\ l \in Nat /\ list'[l] = lists[l]
    BY <1>3, <1>7, <1>9
  <2>2. list[l].link \in LiveLists /\ list[l].link < l /\ lists[l].link = list[l].link
    BY <1>0, <2>1 DEF WellLinked, ParentsLive
  <2>3. list[l].link \in Nat
    BY <1>9, <2>2
  <2> QED BY <1>0, <1>7, <2>1, <2>2, <2>3
<1>13. HeadsLive'
  BY <1>3, <1>7, <1>9, <1>10 DEF HeadsLive
<1>14. LinksDescend'
  <2> SUFFICES ASSUME NEW a \in LiveWords', Entry(a)'
               PROVE  (Entry(word[a].link) /\ word[a].link < a)'
    BY DEF LinksDescend
  <2>1. a \in LiveWords /\ a < where /\ word'[a] = word[a] /\ a \in Nat
    BY <1>2, <1>8, <1>9 DEF Addr
  <2>2. Entry(word[a].link) /\ word[a].link < a
    BY <1>0, <1>11, <2>1 DEF WellLinked, LinksDescend
  <2>3. word[a].link \in Nat
    BY <1>0, <1>9, <2>1 DEF TypeOK, Words, Pointer
  <2> QED BY <1>0, <1>10, <2>1, <2>2, <2>3
<1>15. SmudgedReal'
  BY <1>0, <1>1, <1>2, <1>5 DEF SmudgedReal, NoWord
<1>16. MarkersSave'
  <2> SUFFICES ASSUME NEW a \in LiveWords', kind'[a] = "marker"
               PROVE  /\ saved'[a].current \in LiveLists' /\ saved'[a].current < a
                      /\ \A i \in DOMAIN saved'[a].order :
                            saved'[a].order[i] \in LiveLists' /\ saved'[a].order[i] < a
    BY DEF MarkersSave
  <2>1. /\ a \in LiveWords /\ a < where /\ a \in Nat
        /\ saved'[a] = saved[a] /\ kind[a] = "marker"
    BY <1>1, <1>4, <1>8, <1>9 DEF Addr
  <2>2. /\ saved[a].current \in LiveLists /\ saved[a].current < a
        /\ \A i \in DOMAIN saved[a].order :
              saved[a].order[i] \in LiveLists /\ saved[a].order[i] < a
    BY <2>1 DEF IInv, MarkersSave
  <2>3. ASSUME NEW l \in LiveLists, l < a PROVE l < where
    <3>1. l \in Nat /\ a \in Nat /\ where \in Nat /\ a < where
      BY <1>0, <1>9, <2>1
    <3> QED BY <2>3, <3>1
  <2> QED BY <1>7, <2>1, <2>2, <2>3
<1>17. ForthLive'
  BY <1>7 DEF IInv, ForthLive, ForthWordlist
<1>18. here' \in 1..(Size + 1)
  BY <1>0, <1>5, SizeAssumption DEF TypeOK
<1>19. kind' \in [Addr -> Kinds]
  BY <1>0 DEF FreeFrom, Below, TypeOK, Kinds
<1>20. word' \in [Addr -> Words]
  BY <1>0, SizeAssumption DEF FreeFrom, Below, TypeOK, Words, NoWord, Pointer, Null
<1>21. list' \in [Addr -> Wordlists]
  <2>1. NoWordlist \in Wordlists
    BY SizeAssumption, BucketsAssumption DEF NoWordlist, Wordlists, Pointer, Null
  <2> QED BY <2>1 DEF FreeFrom, Below
<1>22. saved' \in [Addr -> Saves]
  <2>1. NoSave \in Saves
    BY SizeAssumption DEF NoSave, Saves, Pointer, Null
  <2> QED BY <1>0, <2>1 DEF FreeFrom, Below, TypeOK
<1>23. \A a \in Addr : word'[a].smudged => word[a].smudged
  BY <1>2 DEF NoWord
<1> QED
  BY <1>7, <1>10, <1>12, <1>13, <1>14, <1>15, <1>16, <1>17, <1>18, <1>19, <1>20, <1>21, <1>22,
     <1>23
  DEF MemoryOK

(* ficlHashForget leaves chains of entries below where. *)
LEMMA ForgottenSound ==
    ASSUME TypeOK, WellLinked, NEW L \in SUBSET LiveLists, NEW where \in Nat, 0 < where
    PROVE  /\ Forgotten(L, where) \in [Addr -> Wordlists]
           /\ \A l \in Addr : Forgotten(L, where)[l].link = list[l].link
           /\ \A l \in Addr \ L : Forgotten(L, where)[l] = list[l]
           /\ \A l \in L : \A b \in Bucket :
                 /\ Entry(Forgotten(L, where)[l].table[b])
                 /\ Forgotten(L, where)[l].table[b] < where
<1> DEFINE T(l) == [b \in Bucket |-> Follow(list[l].table[b], WordLink, 0..(where - 1))]
<1>1. ASSUME NEW l \in L, NEW b \in Bucket
      PROVE  T(l)[b] \in EntrySet /\ T(l)[b] < where
  <2>1. list[l].table[b] \in EntrySet
    BY LiveAddr DEF TypeOK, Wordlists, WellLinked, HeadsLive, EntrySet
  <2>2. Null \in 0..(where - 1)
    BY DEF Null
  <2>3. Follow(list[l].table[b], WordLink, 0..(where - 1)) \in EntrySet \cap 0..(where - 1)
    BY <2>1, <2>2, ChainWalk
  <2> QED BY <2>3
<1>2. \A l \in L : T(l) \in [Bucket -> Pointer]
  <2>1. \A l \in L : \A b \in Bucket : T(l)[b] \in Pointer
    BY <1>1 DEF EntrySet
  <2> QED BY <2>1
<1>3. \A l \in L : l \in Addr /\ Forgotten(L, where)[l] = [list[l] EXCEPT !.table = T(l)]
  BY LiveAddr DEF Forgotten
<1>4. \A l \in Addr \ L : Forgotten(L, where)[l] = list[l]
  BY DEF Forgotten
<1>5. \A l \in Addr : list[l] \in Wordlists
  BY DEF TypeOK
<1> HIDE DEF T
<1>6. ASSUME NEW l \in L
      PROVE  /\ Forgotten(L, where)[l] \in Wordlists
             /\ Forgotten(L, where)[l].link = list[l].link
             /\ Forgotten(L, where)[l].table = T(l)
  <2>1. T(l) \in [Bucket -> Pointer] /\ list[l] \in Wordlists
    BY <1>2, <1>3, <1>5
  <2>2. Forgotten(L, where)[l] = [list[l] EXCEPT !.table = T(l)]
    BY <1>3
  <2> QED BY <2>1, <2>2 DEF Wordlists
<1>7. Forgotten(L, where) \in [Addr -> Wordlists]
  <2>1. \A l \in Addr : Forgotten(L, where)[l] \in Wordlists
    BY <1>4, <1>5, <1>6
  <2>2. Forgotten(L, where) = [l \in Addr |-> Forgotten(L, where)[l]]
    BY DEF Forgotten
  <2> QED BY <2>1, <2>2
<1> QED BY <1>1, <1>4, <1>6, <1>7 DEF EntrySet

(* ficlHashInsertWord of a header above every entry keeps the chains sound. *)
LEMMA Inserted ==
    ASSUME IInv, NEW a \in Addr, NEW n \in Names \cup {NoName},
           a \in LiveWords', LiveWords \subseteq LiveWords', LiveWords' \subseteq LiveWords \cup {a},
           \A e : Entry(e) => e < a, ~Entry(a),
           LiveLists' = LiveLists,
           word' = UnsmudgedWords(a, n), list' = UnsmudgedLists(a, n)
    PROVE  /\ ParentsLive' /\ HeadsLive' /\ LinksDescend'
           /\ word' \in [Addr -> Words] /\ list' \in [Addr -> Wordlists]
           /\ \A c \in Addr : c # a => word'[c] = word[c]
           /\ ~word'[a].smudged
<1> USE DEF IInv
<1>0. LiveWords \subseteq Addr /\ LiveLists \subseteq Addr /\ current \in LiveLists
  BY LiveAddr DEF WellLinked, ListsLive
<1> DEFINE head == IF n = NoName THEN word[a].link ELSE list[current].table[BucketOf(current, n)]
<1>1. n # NoName => BucketOf(current, n) \in Bucket
  BY <1>0, BucketType
<1>2. head \in Pointer /\ (n # NoName => Entry(head) /\ head < a)
  BY <1>0, <1>1 DEF TypeOK, Words, Wordlists, WellLinked, HeadsLive
<1>3. word' = [word EXCEPT ![a] = [name |-> n, link |-> head, smudged |-> FALSE]]
  BY DEF UnsmudgedWords
<1> HIDE DEF head
<1>4. word'[a] = [name |-> n, link |-> head, smudged |-> FALSE]
  BY <1>3 DEF TypeOK
<1>5. \A c \in Addr : c # a => word'[c] = word[c]
  BY <1>3 DEF TypeOK
<1>6. word' \in [Addr -> Words]
  BY <1>2, <1>3 DEF TypeOK, Words
<1>7. /\ list' \in [Addr -> Wordlists]
      /\ \A l \in Addr : list'[l].link = list[l].link
      /\ \A l \in Addr : \A b \in Bucket :
            list'[l].table[b] = list[l].table[b] \/ (list'[l].table[b] = a /\ n # NoName)
  <2>1. CASE n = NoName
    BY <2>1 DEF UnsmudgedLists, TypeOK
  <2>2. CASE n # NoName
    <3>1. list' = [list EXCEPT ![current].table[BucketOf(current, n)] = a]
      BY <2>2 DEF UnsmudgedLists
    <3>2. \A l \in Addr : list[l] \in Wordlists
      BY DEF TypeOK
    <3>3. a \in Pointer
      BY SizeAssumption DEF Addr, Pointer
    <3>4. list'[current] = [list[current] EXCEPT
              !.table = [list[current].table EXCEPT ![BucketOf(current, n)] = a]]
      BY <1>0, <3>1 DEF TypeOK
    <3>5. \A l \in Addr : l # current => list'[l] = list[l]
      BY <3>1 DEF TypeOK
    <3>6. [list[current].table EXCEPT ![BucketOf(current, n)] = a] \in [Bucket -> Pointer]
      BY <1>0, <3>2, <3>3 DEF Wordlists
    <3>7. list'[current] \in Wordlists /\ list'[current].link = list[current].link
      BY <1>0, <3>2, <3>4, <3>6 DEF Wordlists
    <3>8. list' \in [Addr -> Wordlists]
      <4>1. list' = [l \in Addr |-> list'[l]]
        BY <3>1 DEF TypeOK
      <4>2. \A l \in Addr : list'[l] \in Wordlists
        BY <3>2, <3>5, <3>7
      <4> QED BY <4>1, <4>2
    <3>9. list'[current].table = [list[current].table EXCEPT ![BucketOf(current, n)] = a]
      BY <1>0, <3>2, <3>4 DEF Wordlists
    <3>10. \A b \in Bucket : list'[current].table[b] = list[current].table[b]
                             \/ list'[current].table[b] = a
      BY <1>0, <3>2, <3>9 DEF Wordlists
    <3> QED BY <2>2, <3>5, <3>7, <3>8, <3>10
  <2> QED BY <2>1, <2>2
<1>8. \A e : Entry(e) => Entry(e)'
  <2> SUFFICES ASSUME NEW e, Entry(e) PROVE Entry(e)'
    OBVIOUS
  <2>1. e # a
    OBVIOUS
  <2>2. e # Null => word'[e] = word[e]
    BY <1>0, <1>5, <2>1 DEF Entry
  <2> QED BY <2>2 DEF Entry
<1>9. n # NoName => Entry(a)'
  BY <1>4 DEF Entry
<1>10. ParentsLive'
  <2> SUFFICES ASSUME NEW l \in LiveLists', list'[l].link # Null
               PROVE  list'[l].link \in LiveLists' /\ list'[l].link < l
    BY DEF ParentsLive
  <2> QED BY <1>0, <1>7 DEF WellLinked, ParentsLive
<1>11. HeadsLive'
  <2> SUFFICES ASSUME NEW l \in LiveLists', NEW b \in Bucket
               PROVE  Entry(list[l].table[b])'
    BY DEF HeadsLive
  <2>1. CASE list'[l].table[b] = a /\ n # NoName
    BY <1>9, <2>1 DEF Entry
  <2>2. CASE list'[l].table[b] = list[l].table[b]
    BY <1>8, <2>2 DEF WellLinked, HeadsLive
  <2> QED BY <1>0, <1>7, <2>1, <2>2
<1>12. LinksDescend'
  <2> SUFFICES ASSUME NEW c \in LiveWords', Entry(c)'
               PROVE  (Entry(word[c].link) /\ word[c].link < c)'
    BY DEF LinksDescend
  <2>1. CASE c = a
    <3>1. n # NoName
      BY <1>0, <1>4, <2>1, SizeAssumption DEF Entry, Addr, Null
    <3>2. word'[c].link = head
      BY <1>4, <2>1
    <3> QED BY <1>2, <1>8, <2>1, <3>1, <3>2
  <2>2. CASE c # a
    <3>1. c \in LiveWords /\ c \in Addr /\ word'[c] = word[c]
      BY <1>0, <1>5, <2>2
    <3>2. Entry(c)
      BY <3>1 DEF Entry
    <3>3. Entry(word[c].link) /\ word[c].link < c
      BY <3>1, <3>2 DEF WellLinked, LinksDescend
    <3> QED BY <1>8, <3>1, <3>3
  <2> QED BY <2>1, <2>2
<1>13. ~word'[a].smudged
  BY <1>4
<1> QED BY <1>5, <1>6, <1>7, <1>10, <1>11, <1>12, <1>13

-----------------------------------------------------------------------------
(* One lemma per action: it preserves the inductive invariant. *)

(* Every entry and every live wordlist lies below here. *)
LEMMA BelowHere ==
    ASSUME TypeOK
    PROVE  /\ here \in Nat /\ 0 < here /\ Addr \subseteq Nat
           /\ \A e : Entry(e) => e < here
           /\ \A l \in LiveLists : l < here
BY SizeAssumption DEF TypeOK, Entry, LiveWords, LiveLists, Null, Addr

\* Each step keeps the inductive invariant: one lemma for each.
LEMMA CreateIInv ==
    ASSUME IInv, Careful, NEW n \in Names, Create(n)
    PROVE  IInv'
<1> USE DEF IInv
<1>1. /\ here \in Addr /\ here \notin LiveWords /\ LiveLists' = LiveLists
      /\ LiveWords' = LiveWords \cup {here}
      /\ here' \in 1..(Size + 1) /\ kind' \in [Addr -> Kinds]
  BY Appended DEF Create, AppendWord, Kinds
<1>2. (\A e : Entry(e) => e < here) /\ ~Entry(here)
  BY <1>1, BelowHere
<1>3. /\ ParentsLive' /\ HeadsLive' /\ LinksDescend'
      /\ word' \in [Addr -> Words] /\ list' \in [Addr -> Wordlists]
      /\ \A c \in Addr : c # here => word'[c] = word[c]
      /\ ~word'[here].smudged
  BY <1>1, <1>2, Inserted DEF Create
<1>4. TypeOK'
  BY <1>1, <1>3 DEF TypeOK, Create, AppendWord
<1>5. WellLinked'
  BY <1>1, <1>3 DEF WellLinked, ListsLive, Create
<1>6. CompilingIsOpen'
  BY DEF CompilingIsOpen, Create, Interpreting
<1>7. SmudgedReal'
  BY <1>1, <1>3, BelowHere DEF SmudgedReal, Create, AppendWord, TypeOK
<1>8. OpenIsLast'
  BY <1>3 DEF OpenIsLast, DefinitionOpen, Create, AppendWord
<1>9. MarkersSave'
  <2> SUFFICES ASSUME NEW a \in LiveWords', kind'[a] = "marker"
               PROVE  (/\ saved[a].current \in LiveLists /\ saved[a].current < a
                       /\ \A i \in DOMAIN saved[a].order :
                             saved[a].order[i] \in LiveLists /\ saved[a].order[i] < a)'
    BY DEF MarkersSave
  <2>1. a \in LiveWords /\ kind[a] = "marker"
    BY <1>1, LiveAddr DEF Create, AppendWord, TypeOK
  <2> QED BY <1>1, <2>1 DEF MarkersSave, Create
<1>10. ForthLive'
  BY <1>1 DEF ForthLive
<1> QED BY <1>4, <1>5, <1>6, <1>7, <1>8, <1>9, <1>10

\* MARKER saves wordlists that are live, so older than the marker.
LEMMA CreateMarkerIInv ==
    ASSUME IInv, Careful, NEW n \in Markers, CreateMarker(n)
    PROVE  IInv'
<1> USE DEF IInv
<1>1. /\ here \in Addr /\ here \notin LiveWords /\ LiveLists' = LiveLists
      /\ LiveWords' = LiveWords \cup {here}
      /\ here' \in 1..(Size + 1) /\ kind' \in [Addr -> Kinds]
  BY Appended DEF CreateMarker, AppendWord, Kinds
<1>2. (\A e : Entry(e) => e < here) /\ ~Entry(here)
  BY <1>1, BelowHere
<1>3. /\ ParentsLive' /\ HeadsLive' /\ LinksDescend'
      /\ word' \in [Addr -> Words] /\ list' \in [Addr -> Wordlists]
      /\ \A c \in Addr : c # here => word'[c] = word[c]
      /\ ~word'[here].smudged
  BY <1>1, <1>2, Inserted, MarkersAssumption DEF CreateMarker
<1>4. saved' \in [Addr -> Saves]
  BY DEF TypeOK, CreateMarker, Saves
<1>5. TypeOK'
  BY <1>1, <1>3, <1>4 DEF TypeOK, CreateMarker, AppendWord
<1>6. WellLinked'
  BY <1>1, <1>3 DEF WellLinked, ListsLive, CreateMarker
<1>7. CompilingIsOpen'
  BY DEF CompilingIsOpen, CreateMarker, Interpreting
<1>8. SmudgedReal'
  BY <1>1, <1>3, BelowHere DEF SmudgedReal, CreateMarker, AppendWord, TypeOK
<1>9. OpenIsLast'
  BY <1>3 DEF OpenIsLast, DefinitionOpen, CreateMarker, AppendWord
<1>10. MarkersSave'
  <2> SUFFICES ASSUME NEW a \in LiveWords', kind'[a] = "marker"
               PROVE  (/\ saved[a].current \in LiveLists /\ saved[a].current < a
                       /\ \A i \in DOMAIN saved[a].order :
                             saved[a].order[i] \in LiveLists /\ saved[a].order[i] < a)'
    BY DEF MarkersSave
  <2>1. CASE a = here
    <3>1. saved'[here] = [current |-> current, order |-> order]
      BY <1>1 DEF CreateMarker, TypeOK
    <3>2. current \in LiveLists /\ \A i \in DOMAIN order : order[i] \in LiveLists
      BY DEF WellLinked, ListsLive
    <3> QED BY <1>1, <2>1, <3>1, <3>2, BelowHere
  <2>2. CASE a # here
    <3>1. a \in LiveWords /\ kind[a] = "marker" /\ saved'[a] = saved[a]
      BY <1>1, <2>2, LiveAddr DEF CreateMarker, AppendWord, TypeOK
    <3> QED BY <1>1, <3>1 DEF MarkersSave
  <2> QED BY <2>1, <2>2
<1>11. ForthLive'
  BY <1>1 DEF ForthLive
<1> QED BY <1>5, <1>6, <1>7, <1>8, <1>9, <1>10, <1>11

\* : and :NONAME leave a smudged header above everything else.
LEMMA OpenDefinitionIInv ==
    ASSUME IInv, Careful, NEW n \in Names \cup {NoName}, OpenDefinition(n)
    PROVE  IInv'
<1> USE DEF IInv
<1>1. /\ here \in Addr /\ here \notin LiveWords /\ LiveLists' = LiveLists
      /\ LiveWords' = LiveWords \cup {here}
      /\ here' \in 1..(Size + 1) /\ kind' \in [Addr -> Kinds]
  BY Appended DEF OpenDefinition, AppendWord, Kinds
<1>2. word' = [word EXCEPT ![here] = [name |-> n, link |-> Null, smudged |-> TRUE]]
  BY DEF OpenDefinition
<1>3. /\ word'[here] = [name |-> n, link |-> Null, smudged |-> TRUE]
      /\ \A c \in Addr : c # here => word'[c] = word[c]
  BY <1>1, <1>2 DEF TypeOK
<1>4. word' \in [Addr -> Words]
  <2>1. Null \in Pointer
    BY SizeAssumption DEF Pointer, Null
  <2>2. [name |-> n, link |-> Null, smudged |-> TRUE] \in Words
    BY <2>1 DEF Words
  <2> QED BY <1>2, <2>2 DEF TypeOK
<1>5. TypeOK'
  BY <1>1, <1>4, TagBoundAssumption DEF TypeOK, OpenDefinition, AppendWord
<1>6. \A e : Entry(e)' <=> Entry(e)
  <2> SUFFICES ASSUME NEW e PROVE Entry(e)' <=> Entry(e)
    OBVIOUS
  <2>1. CASE e = here
    <3>1. ~Entry(e)
      BY <1>1, <2>1, BelowHere
    <3>2. ~Entry(e)'
      BY <1>1, <1>3, <2>1, SizeAssumption DEF Entry, Addr, Null
    <3> QED BY <3>1, <3>2
  <2>2. CASE e # here
    BY <1>1, <1>3, <2>2, LiveAddr DEF Entry
  <2> QED BY <2>1, <2>2
<1>7. ListsLive' /\ ParentsLive' /\ HeadsLive'
  BY <1>1, <1>6 DEF OpenDefinition, WellLinked, ListsLive, ParentsLive, HeadsLive
<1>8. LinksDescend'
  <2> SUFFICES ASSUME NEW c \in LiveWords', Entry(c)'
               PROVE  (Entry(word[c].link) /\ word[c].link < c)'
    BY DEF LinksDescend
  <2>1. Entry(c) /\ c # here /\ c \in LiveWords /\ c \in Addr
    BY <1>1, <1>6, LiveAddr, BelowHere
  <2>2. Entry(word[c].link) /\ word[c].link < c /\ word'[c] = word[c]
    BY <1>3, <2>1 DEF WellLinked, LinksDescend
  <2> QED BY <1>6, <2>2
<1>9. CompilingIsOpen'
  BY <1>3 DEF CompilingIsOpen, DefinitionOpen, OpenDefinition, AppendWord, TypeOK
<1>10. SmudgedReal'
  <2> SUFFICES ASSUME NEW a \in Addr, word'[a].smudged
               PROVE  (a < here /\ kind[a] = "word")'
    BY DEF SmudgedReal
  <2>1. here' = here + 1 /\ kind' = [kind EXCEPT ![here] = "word"]
    BY DEF OpenDefinition, AppendWord
  <2>2. kind'[a] = IF a = here THEN "word" ELSE kind[a]
    BY <2>1 DEF TypeOK
  <2>3. a # here => a < here /\ kind[a] = "word"
    BY <1>3 DEF SmudgedReal
  <2> QED BY <1>1, <2>1, <2>2, <2>3, BelowHere
<1>11. OpenIsLast'
  BY BelowHere DEF OpenIsLast, OpenDefinition, AppendWord
<1>12. MarkersSave'
  <2> SUFFICES ASSUME NEW a \in LiveWords', kind'[a] = "marker"
               PROVE  (/\ saved[a].current \in LiveLists /\ saved[a].current < a
                       /\ \A i \in DOMAIN saved[a].order :
                             saved[a].order[i] \in LiveLists /\ saved[a].order[i] < a)'
    BY DEF MarkersSave
  <2>1. a \in LiveWords /\ kind[a] = "marker"
    BY <1>1, LiveAddr DEF OpenDefinition, AppendWord, TypeOK
  <2> QED BY <1>1, <2>1 DEF MarkersSave, OpenDefinition
<1>13. ForthLive'
  BY <1>1 DEF ForthLive
<1> QED BY <1>5, <1>7, <1>8, <1>9, <1>10, <1>11, <1>12, <1>13 DEF WellLinked

\* A comma adds a unit that nothing links to.
LEMMA CommaIInv ==
    ASSUME IInv, Comma
    PROVE  IInv'
<1> USE DEF IInv
<1>1. /\ here \in Addr /\ LiveLists' = LiveLists /\ LiveWords' = LiveWords
      /\ here' \in 1..(Size + 1) /\ kind' \in [Addr -> Kinds]
  BY Appended DEF Comma, AppendCell, Kinds
<1>2. \A a \in Addr : a # here => kind'[a] = kind[a]
  BY <1>1 DEF Comma, AppendCell, TypeOK
<1>3. \A e : Entry(e)' <=> Entry(e)
  BY <1>1 DEF Entry, Comma
<1>4. TypeOK'
  BY <1>1 DEF TypeOK, Comma
<1>5. WellLinked'
  BY <1>1, <1>3 DEF WellLinked, ListsLive, ParentsLive, HeadsLive, LinksDescend, Comma
<1>6. CompilingIsOpen'
  BY DEF CompilingIsOpen, DefinitionOpen, Comma
<1>7. SmudgedReal'
  BY <1>2, BelowHere DEF SmudgedReal, Comma, AppendCell
<1>8. OpenIsLast'
  <2> SUFFICES ASSUME DefinitionOpen, NEW a \in 1..here, a > smudge
               PROVE  kind'[a] = "data"
    BY BelowHere DEF OpenIsLast, DefinitionOpen, Comma, AppendCell
  <2>1. CASE a = here
    BY <1>1, <2>1 DEF Comma, AppendCell, TypeOK
  <2>2. CASE a # here
    <3>1. a \in 1..(here - 1) /\ a \in Addr
      BY <1>1, <2>2, BelowHere, SizeAssumption DEF Addr
    <3> QED BY <1>2, <2>2, <3>1 DEF OpenIsLast
  <2> QED BY <2>1, <2>2
<1>9. MarkersSave'
  <2>1. \A a \in LiveWords : kind'[a] = kind[a]
    <3>1. here \notin LiveWords /\ LiveWords \subseteq Addr
      BY LiveAddr, BelowHere DEF LiveWords
    <3> QED BY <1>2, <3>1
  <2> QED BY <1>1, <2>1 DEF MarkersSave, Comma
<1>10. ForthLive'
  BY <1>1 DEF ForthLive
<1> QED BY <1>4, <1>5, <1>6, <1>7, <1>8, <1>9, <1>10

(* In compile state smudge is a live word above every wordlist and entry. *)
LEMMA OpenOnTop ==
    ASSUME IInv, state = "compile"
    PROVE  /\ smudge \in LiveWords /\ kind[smudge] = "word" /\ word[smudge].smudged
           /\ 1 < smudge /\ smudge < here
           /\ \A e : Entry(e) => e < smudge
           /\ \A l \in LiveLists : l < smudge
<1> USE DEF IInv
<1>1. word[smudge].smudged /\ smudge \in Addr /\ DefinitionOpen
  BY DEF CompilingIsOpen, DefinitionOpen, TypeOK
<1>2. smudge < here /\ kind[smudge] = "word"
  BY <1>1 DEF SmudgedReal
<1>3. smudge \in Nat /\ smudge > 0 /\ smudge \in LiveWords
  BY <1>1, <1>2, BelowHere, SizeAssumption DEF LiveWords, IsWord, Addr
<1>4. \A a \in 1..(here - 1) : a > smudge => kind[a] = "data"
  BY <1>1 DEF OpenIsLast
<1>5. \A e : Entry(e) => e < smudge
  <2> SUFFICES ASSUME NEW e, Entry(e) PROVE e < smudge
    OBVIOUS
  <2>1. e # smudge
    BY <1>1, <1>3, SizeAssumption DEF Entry, Null, Addr
  <2>2. e = Null \/ (e \in 1..(here - 1) /\ kind[e] # "data")
    BY DEF Entry, LiveWords, IsWord
  <2> QED BY <1>3, <1>4, <2>1, <2>2, BelowHere DEF Null
<1>6. \A l \in LiveLists : l < smudge
  <2> SUFFICES ASSUME NEW l \in LiveLists PROVE l < smudge
    OBVIOUS
  <2>1. l \in 1..(here - 1) /\ kind[l] = "list"
    BY DEF LiveLists
  <2>2. l # smudge
    BY <1>2, <2>1
  <2> QED BY <1>3, <1>4, <2>1, <2>2, BelowHere
<1>7. 1 < smudge
  BY <1>6 DEF ForthLive, ForthWordlist
<1> QED BY <1>1, <1>2, <1>3, <1>5, <1>6, <1>7

\* ; links the word it finishes above every word of its chain.
LEMMA SemicolonIInv ==
    ASSUME IInv, Semicolon
    PROVE  IInv'
<1> USE DEF IInv
<1>1. /\ here \in Addr /\ here \notin LiveWords
      /\ LiveLists' = LiveLists /\ LiveWords' = LiveWords
      /\ here' \in 1..(Size + 1) /\ kind' \in [Addr -> Kinds]
  BY Appended DEF Semicolon, AppendCell, Kinds
<1>2. /\ smudge \in LiveWords /\ kind[smudge] = "word"
      /\ (\A e : Entry(e) => e < smudge)
  BY OpenOnTop DEF Semicolon
<1>3. /\ smudge \in Addr /\ word[smudge].name \in Names \cup {NoName} /\ ~Entry(smudge)
  <2>1. smudge \in Addr /\ smudge \in Nat
    BY BelowHere DEF TypeOK
  <2>2. word[smudge] \in Words
    BY <2>1 DEF TypeOK
  <2> QED BY <1>2, <2>1, <2>2 DEF Words
<1>4. /\ ParentsLive' /\ HeadsLive' /\ LinksDescend'
      /\ word' \in [Addr -> Words] /\ list' \in [Addr -> Wordlists]
      /\ \A c \in Addr : c # smudge => word'[c] = word[c]
      /\ ~word'[smudge].smudged
  BY <1>1, <1>2, <1>3, Inserted DEF Semicolon
<1>5. TypeOK'
  BY <1>1, <1>4 DEF TypeOK, Semicolon
<1>6. WellLinked'
  BY <1>1, <1>4 DEF WellLinked, ListsLive, Semicolon
<1>7. CompilingIsOpen'
  BY DEF CompilingIsOpen, Semicolon
<1>8. SmudgedReal'
  <2> SUFFICES ASSUME NEW a \in Addr, word'[a].smudged
               PROVE  a < here' /\ kind'[a] = "word"
    BY DEF SmudgedReal
  <2>1. a < here /\ kind[a] = "word"
    BY <1>4 DEF SmudgedReal
  <2>2. a # here /\ here' = here + 1 /\ kind'[a] = kind[a]
    BY <1>1, <2>1, BelowHere DEF Semicolon, AppendCell, TypeOK
  <2> QED BY <2>1, <2>2, BelowHere
<1>9. OpenIsLast'
  BY <1>4 DEF OpenIsLast, DefinitionOpen, Semicolon
<1>10. MarkersSave'
  <2>1. \A a \in LiveWords : kind'[a] = kind[a]
    BY <1>1, LiveAddr DEF Semicolon, AppendCell, TypeOK
  <2> QED BY <1>1, <2>1 DEF MarkersSave, Semicolon
<1>11. ForthLive'
  BY <1>1 DEF ForthLive
<1> QED BY <1>5, <1>6, <1>7, <1>8, <1>9, <1>10, <1>11

\* A new wordlist is empty and has no parent.
LEMMA FiclWordlistIInv ==
    ASSUME IInv, Careful, NEW k \in 1..MaxBuckets, FiclWordlist(k)
    PROVE  IInv'
<1> USE DEF IInv
<1>1. /\ here \in Addr /\ here \notin LiveWords /\ here \notin LiveLists
      /\ LiveLists' = LiveLists \cup {here} /\ LiveWords' = LiveWords
      /\ here' \in 1..(Size + 1) /\ kind' \in [Addr -> Kinds]
  BY Appended DEF FiclWordlist, Kinds
<1>2. list' = [list EXCEPT ![here] = [NoWordlist EXCEPT !.size = k]]
  BY DEF FiclWordlist
<1>3. [NoWordlist EXCEPT !.size = k]
        = [size |-> k, table |-> [b \in Bucket |-> Null], link |-> Null]
  BY DEF NoWordlist
<1>4. /\ list'[here] = [size |-> k, table |-> [b \in Bucket |-> Null], link |-> Null]
      /\ \A l \in Addr : l # here => list'[l] = list[l]
  BY <1>1, <1>2, <1>3 DEF TypeOK
<1>5. list' \in [Addr -> Wordlists]
  <2>1. Null \in Pointer
    BY SizeAssumption DEF Pointer, Null
  <2>2. [size |-> k, table |-> [b \in Bucket |-> Null], link |-> Null] \in Wordlists
    BY <2>1 DEF Wordlists
  <2> QED BY <1>2, <1>3, <2>2 DEF TypeOK
<1>6. TypeOK'
  BY <1>1, <1>5 DEF TypeOK, FiclWordlist
<1>7. \A e : Entry(e)' <=> Entry(e)
  BY <1>1 DEF Entry, FiclWordlist
<1>8. Entry(Null)'
  BY DEF Entry
<1>9. ListsLive'
  BY <1>1 DEF WellLinked, ListsLive, FiclWordlist
<1>10. ParentsLive'
  <2> SUFFICES ASSUME NEW l \in LiveLists', list'[l].link # Null
               PROVE  list'[l].link \in LiveLists' /\ list'[l].link < l
    BY DEF ParentsLive
  <2>1. l # here /\ l \in LiveLists /\ list'[l] = list[l]
    BY <1>1, <1>4, LiveAddr
  <2> QED BY <1>1, <2>1 DEF WellLinked, ParentsLive
<1>11. HeadsLive'
  <2> SUFFICES ASSUME NEW l \in LiveLists', NEW b \in Bucket
               PROVE  Entry(list[l].table[b])'
    BY DEF HeadsLive
  <2>1. CASE l = here
    BY <1>4, <1>8, <2>1
  <2>2. CASE l # here
    <3>1. l \in LiveLists /\ list'[l] = list[l]
      BY <1>1, <1>4, <2>2, LiveAddr
    <3> QED BY <1>7, <3>1 DEF WellLinked, HeadsLive
  <2> QED BY <2>1, <2>2
<1>12. LinksDescend'
  BY <1>1, <1>7 DEF WellLinked, LinksDescend, FiclWordlist
<1>13. CompilingIsOpen'
  BY DEF CompilingIsOpen, FiclWordlist, Interpreting
<1>14. SmudgedReal'
  <2>1. \A a \in Addr : a < here => kind'[a] = kind[a]
    BY <1>1, BelowHere DEF FiclWordlist, TypeOK
  <2> QED BY <2>1, BelowHere, SizeAssumption DEF SmudgedReal, FiclWordlist, Addr
<1>15. OpenIsLast'
  BY DEF OpenIsLast, DefinitionOpen, FiclWordlist, MayDefine, Careful, Keeps, AllObligations
<1>16. MarkersSave'
  <2>1. \A a \in LiveWords : kind'[a] = kind[a]
    BY <1>1, LiveAddr DEF FiclWordlist, TypeOK
  <2> QED BY <1>1, <2>1 DEF MarkersSave, FiclWordlist
<1>17. ForthLive'
  BY <1>1 DEF ForthLive
<1> QED
  BY <1>6, <1>9, <1>10, <1>11, <1>12, <1>13, <1>14, <1>15, <1>16, <1>17 DEF WellLinked

(* The words that change only the VM state, the data stack, the search      *)
(* order or the compilation wordlist.                                       *)
LEMMA VmStateIInv ==
    ASSUME IInv, Careful, LeftBracket \/ RightBracket \/ DropColonSys
    PROVE  IInv'
<1> USE DEF IInv
<1>1. UNCHANGED <<here, kind, word, list, saved, smudge, current, order>>
  BY DEF LeftBracket, RightBracket, DropColonSys
<1>2. MemoryOK' /\ LiveLists' = LiveLists
  BY <1>1, MemoryKept
<1>3. TypeOK'
  BY DEF TypeOK, LeftBracket, RightBracket, DropColonSys
<1>4. WellLinked'
  BY <1>1, <1>2 DEF WellLinked, ListsLive, MemoryOK
<1>5. CompilingIsOpen'
  BY DEF CompilingIsOpen, DefinitionOpen, LeftBracket, RightBracket, DropColonSys,
         Interpreting, Careful, Keeps, AllObligations
<1>6. DefinitionOpen' => DefinitionOpen
  BY DEF DefinitionOpen, LeftBracket, RightBracket, DropColonSys, TypeOK
<1>7. OpenIsLast'
  BY <1>1, <1>6 DEF OpenIsLast
<1> QED BY <1>2, <1>3, <1>4, <1>5, <1>7 DEF MemoryOK

\* Changing the search order names live wordlists only.
LEMMA OrderIInv ==
    ASSUME IInv,
           \/ \E l \in LiveLists : SetCurrent(l) \/ SearchPush(l)
           \/ \E ls \in Orders : SetOrder(ls)
           \/ Definitions \/ Only \/ SearchPop
    PROVE  IInv'
<1> USE DEF IInv
<1>1. /\ UNCHANGED <<here, kind, word, list, saved, smudge, state, colonSys>>
      /\ Interpreting
  BY DEF SetCurrent, SearchPush, SetOrder, Definitions, Only, SearchPop
<1>2. MemoryOK' /\ LiveLists' = LiveLists
  BY <1>1, MemoryKept
<1>3. LiveLists \subseteq Pointer /\ ForthWordlist \in LiveLists
  <2>1. Addr \subseteq Pointer
    BY SizeAssumption DEF Addr, Pointer
  <2> QED BY <2>1, LiveAddr DEF ForthLive
<1>4. current \in LiveLists /\ order \in Seq(LiveLists)
  <2>1. order \in Seq(Pointer) /\ \A i \in DOMAIN order : order[i] \in LiveLists
    BY DEF TypeOK, WellLinked, ListsLive
  <2> QED BY <2>1 DEF WellLinked, ListsLive
<1>5. current' \in LiveLists /\ order' \in Seq(LiveLists)
  <2>1. CASE \E l \in LiveLists : SetCurrent(l) \/ SearchPush(l)
    BY <1>4, <2>1 DEF SetCurrent, SearchPush
  <2>2. CASE \E ls \in Orders : SetOrder(ls)
    <3>1. PICK k \in 0..MaxWordlists : order' \in [1..k -> LiveLists] /\ current' = current
      BY <2>2 DEF SetOrder, Orders
    <3>2. k \in Nat
      BY WordlistsAssumption
    <3> QED BY <1>4, <3>1, <3>2
  <2>3. CASE Definitions
    <3>1. Len(order) \in DOMAIN order
      BY <1>4, <2>3 DEF Definitions
    <3> QED BY <1>4, <2>3, <3>1 DEF Definitions
  <2>4. CASE Only
    BY <1>3, <2>4 DEF Only, ResetSearchOrder
  <2>5. CASE SearchPop
    <3>1. order # << >> /\ order' = SubSeq(order, 1, Len(order) - 1) /\ current' = current
      BY <2>5 DEF SearchPop
    <3> QED BY <1>4, <3>1
  <2> QED BY <2>1, <2>2, <2>3, <2>4, <2>5
<1>6. order' \in Seq(Pointer) /\ current' \in Pointer
  BY <1>3, <1>5
<1>7. TypeOK'
  BY <1>1, <1>6 DEF TypeOK
<1>8. WellLinked'
  <2>1. \A i \in DOMAIN order' : order'[i] \in LiveLists
    BY <1>5
  <2> QED BY <1>2, <1>5, <2>1 DEF WellLinked, ListsLive, MemoryOK
<1>9. CompilingIsOpen' /\ OpenIsLast'
  BY <1>1 DEF CompilingIsOpen, OpenIsLast, DefinitionOpen
<1> QED BY <1>2, <1>7, <1>8, <1>9 DEF MemoryOK

(* The words that rewrite wordlists in place: WID-SET-SUPER, FORGET-WID. *)
LEMMA SetParentWidIInv ==
    ASSUME IInv, Careful, NEW p \in LiveLists, NEW c \in LiveLists, SetParentWid(p, c)
    PROVE  IInv'
<1> USE DEF IInv
<1>1. p < c /\ p \in Addr /\ c \in Addr /\ p \in Pointer
  BY LiveAddr, SizeAssumption
  DEF SetParentWid, Careful, Keeps, AllObligations, Addr, Pointer
<1>2. UNCHANGED <<here, kind, word, saved, smudge, current, order, state, colonSys>>
  BY DEF SetParentWid
<1>3. list' = [list EXCEPT ![c] = [list[c] EXCEPT !.link = p]]
  BY <1>1 DEF SetParentWid, TypeOK
<1>4. /\ [list[c] EXCEPT !.link = p] \in Wordlists
      /\ [list[c] EXCEPT !.link = p].link = p
      /\ [list[c] EXCEPT !.link = p].table = list[c].table
  BY <1>1 DEF TypeOK, Wordlists
<1>5. list' \in [Addr -> Wordlists]
  BY <1>3, <1>4 DEF TypeOK
<1>6. /\ list'[c].link = p
      /\ \A l \in Addr : list'[l].table = list[l].table
      /\ \A l \in Addr : l # c => list'[l] = list[l]
  BY <1>1, <1>3, <1>4 DEF TypeOK
<1>7. LiveLists' = LiveLists /\ LiveWords' = LiveWords
  BY <1>2 DEF LiveLists, LiveWords, IsWord
<1>8. \A e : Entry(e)' <=> Entry(e)
  BY <1>2, <1>7 DEF Entry
<1>9. ParentsLive'
  BY <1>1, <1>6, <1>7, LiveAddr DEF WellLinked, ParentsLive
<1>10. HeadsLive' /\ LinksDescend' /\ ListsLive'
  BY <1>2, <1>6, <1>7, <1>8, LiveAddr DEF WellLinked, HeadsLive, LinksDescend, ListsLive
<1>11. TypeOK'
  BY <1>2, <1>5 DEF TypeOK
<1>12. CompilingIsOpen' /\ OpenIsLast' /\ SmudgedReal' /\ MarkersSave' /\ ForthLive'
  BY <1>2, <1>7
  DEF CompilingIsOpen, DefinitionOpen, OpenIsLast, SmudgedReal, MarkersSave, ForthLive
<1> QED BY <1>9, <1>10, <1>11, <1>12 DEF WellLinked

\* FORGET-WID unlinks what lies at here and above: nothing.
LEMMA ForgetWidIInv ==
    ASSUME IInv, NEW w \in LiveLists, ForgetWid(w)
    PROVE  IInv'
<1> USE DEF IInv
<1>1. UNCHANGED <<here, kind, word, saved, smudge, current, order, state, colonSys>>
  BY DEF ForgetWid
<1>2. /\ list' \in [Addr -> Wordlists]
      /\ \A l \in Addr : list'[l].link = list[l].link
      /\ \A l \in Addr : l # w => list'[l] = list[l]
      /\ \A b \in Bucket : Entry(list'[w].table[b])
  <2>1. {w} \in SUBSET LiveLists /\ here \in Nat /\ 0 < here
    BY BelowHere
  <2> QED BY <2>1, ForgottenSound DEF ForgetWid
<1>3. LiveLists' = LiveLists /\ LiveWords' = LiveWords
  BY <1>1 DEF LiveLists, LiveWords, IsWord
<1>4. \A e : Entry(e)' <=> Entry(e)
  BY <1>1, <1>3 DEF Entry
<1>5. ParentsLive' /\ LinksDescend' /\ ListsLive'
  BY <1>1, <1>2, <1>3, <1>4, LiveAddr DEF WellLinked, ParentsLive, LinksDescend, ListsLive
<1>6. HeadsLive'
  <2> SUFFICES ASSUME NEW l \in LiveLists, NEW b \in Bucket
               PROVE  Entry(list[l].table[b])'
    BY <1>3 DEF HeadsLive
  <2>1. Entry(list'[l].table[b])
    BY <1>2, LiveAddr DEF WellLinked, HeadsLive
  <2> QED BY <1>4, <2>1
<1>7. TypeOK'
  BY <1>1, <1>2 DEF TypeOK
<1>8. CompilingIsOpen' /\ OpenIsLast' /\ SmudgedReal' /\ MarkersSave' /\ ForthLive'
  BY <1>1, <1>3
  DEF CompilingIsOpen, DefinitionOpen, OpenIsLast, SmudgedReal, MarkersSave, ForthLive
<1> QED BY <1>5, <1>6, <1>7, <1>8 DEF WellLinked

(* Freeing from a found word on, when everything later is pruned with it. *)
LEMMA PrunedFrom ==
    ASSUME IInv, NEW where \in LiveWords, NEW cur \in LiveLists, NEW o,
           NEW L \in SUBSET LiveLists, OwnersPruned(where, cur, o, L),
           FreeFrom(where, Forgotten(L, where))
    PROVE  /\ MemoryOK' /\ LiveLists' = {l \in LiveLists : l < where}
           /\ here' \in 1..(Size + 1) /\ kind' \in [Addr -> Kinds]
           /\ word' \in [Addr -> Words] /\ list' \in [Addr -> Wordlists]
           /\ saved' \in [Addr -> Saves]
           /\ \A a \in Addr : word'[a].smudged => word[a].smudged
<1> USE DEF IInv
<1>1. /\ where \in Nat /\ 0 < where /\ where \in 1..here /\ 1 < where
  BY BelowHere, LiveAddr DEF LiveWords, OwnersPruned, Addr
<1>2. Forgotten(L, where) \in [Addr -> Wordlists]
  BY <1>1, ForgottenSound
<1>3. ASSUME NEW l \in LiveLists, l < where
      PROVE  /\ Forgotten(L, where)[l].link = list[l].link
             /\ \A b \in Bucket : /\ Entry(Forgotten(L, where)[l].table[b])
                                  /\ Forgotten(L, where)[l].table[b] < where
  <2>1. l \in Addr
    BY LiveAddr
  <2>2. CASE l \in L
    BY <1>1, <2>1, <2>2, ForgottenSound
  <2>3. CASE l \notin L
    <3>1. Forgotten(L, where)[l] = list[l]
      BY <1>1, <2>1, <2>3, ForgottenSound
    <3>2. \A b \in Bucket : list[l].table[b] < where /\ Entry(list[l].table[b])
      BY <1>3, <2>3 DEF OwnersPruned, WellLinked, HeadsLive
    <3> QED BY <3>1, <3>2
  <2> QED BY <2>2, <2>3
<1> QED BY <1>1, <1>2, <1>3, Freed

\* FORGET leaves no link into what it freed when the pruned wordlist owns it all.
LEMMA ForgetIInv ==
    ASSUME IInv, Careful, NEW n \in Names, Forget(n)
    PROVE  IInv'
<1> USE DEF IInv
<1> DEFINE where == Lookup(n)
<1>1. where \in LiveWords
  BY LookupIsSound DEF Forget, EntrySet, Entry
<1>2. current \in LiveLists
  BY DEF WellLinked, ListsLive
<1>3. OwnersPruned(where, current, order, {current})
  BY DEF Forget, Careful, Keeps, AllObligations
<1>4. FreeFrom(where, Forgotten({current}, where))
  BY DEF Forget
<1>5. /\ UNCHANGED <<smudge, current, order, state, colonSys>>
      /\ state = "interpret" /\ ~DefinitionOpen
  BY DEF Forget, Interpreting, MayDefine, Careful, Keeps, AllObligations
<1> HIDE DEF where
<1>6. /\ MemoryOK' /\ LiveLists' = {l \in LiveLists : l < where}
      /\ here' \in 1..(Size + 1) /\ kind' \in [Addr -> Kinds]
      /\ word' \in [Addr -> Words] /\ list' \in [Addr -> Wordlists]
      /\ saved' \in [Addr -> Saves]
      /\ \A a \in Addr : word'[a].smudged => word[a].smudged
  <2>1. {current} \in SUBSET LiveLists
    BY <1>2
  <2> QED BY <1>1, <1>2, <1>3, <1>4, <2>1, PrunedFrom
<1>7. TypeOK'
  BY <1>5, <1>6 DEF TypeOK
<1>8. ListsLive'
  BY <1>3, <1>5, <1>6 DEF WellLinked, ListsLive, OwnersPruned, OrderSet
<1>9. CompilingIsOpen'
  BY <1>5 DEF CompilingIsOpen
<1>10. OpenIsLast'
  BY <1>5, <1>6 DEF OpenIsLast, DefinitionOpen, TypeOK
<1> QED BY <1>6, <1>7, <1>8, <1>9, <1>10 DEF MemoryOK, WellLinked

\* So does a marker, and what it restores is older than itself.
LEMMA RunMarkerIInv ==
    ASSUME IInv, Careful, NEW n \in Markers, RunMarker(n)
    PROVE  IInv'
<1> USE DEF IInv
<1> DEFINE where  == Lookup(n)
           cur    == saved[where].current
           o      == saved[where].order
           pruned == {cur} \cup OrderSet(o)
<1>1. where \in LiveWords /\ kind[where] = "marker"
  BY LookupIsSound, MarkersAssumption DEF RunMarker, EntrySet, Entry
<1>2. OwnersPruned(where, cur, o, pruned) /\ FreeFrom(where, Forgotten(pruned, where))
  BY DEF RunMarker, Careful, Keeps, AllObligations
<1>3. /\ UNCHANGED <<smudge, state, colonSys>>
      /\ current' = cur /\ order' = o
      /\ state = "interpret" /\ ~DefinitionOpen
  BY DEF RunMarker, Interpreting, MayDefine, Careful, Keeps, AllObligations
<1>4. /\ cur \in LiveLists
      /\ \A i \in DOMAIN o : o[i] \in LiveLists
      /\ cur \in Pointer /\ o \in Seq(Pointer)
  <2>1. saved[where] \in Saves
    BY <1>1, LiveAddr DEF TypeOK
  <2> HIDE DEF where
  <2> QED BY <1>1, <2>1 DEF MarkersSave, Saves
<1> HIDE DEF where, cur, o
<1>5. pruned \in SUBSET LiveLists
  BY <1>4 DEF OrderSet
<1> HIDE DEF pruned
<1>6. /\ MemoryOK' /\ LiveLists' = {l \in LiveLists : l < where}
      /\ here' \in 1..(Size + 1) /\ kind' \in [Addr -> Kinds]
      /\ word' \in [Addr -> Words] /\ list' \in [Addr -> Wordlists]
      /\ saved' \in [Addr -> Saves]
      /\ \A a \in Addr : word'[a].smudged => word[a].smudged
  BY <1>1, <1>2, <1>4, <1>5, PrunedFrom
<1>7. TypeOK'
  BY <1>3, <1>4, <1>6 DEF TypeOK
<1>8. ListsLive'
  <2>1. cur < where /\ \A i \in DOMAIN o : o[i] < where
    BY <1>2 DEF OwnersPruned, OrderSet
  <2>2. current' \in LiveLists'
    BY <1>3, <1>4, <1>6, <2>1
  <2>3. \A i \in DOMAIN o : o[i] \in LiveLists'
    BY <1>4, <1>6, <2>1
  <2> QED BY <1>3, <2>2, <2>3 DEF ListsLive
<1>9. CompilingIsOpen'
  BY <1>3 DEF CompilingIsOpen
<1>10. OpenIsLast'
  BY <1>3, <1>6 DEF OpenIsLast, DefinitionOpen, TypeOK
<1> QED BY <1>6, <1>7, <1>8, <1>9, <1>10 DEF MemoryOK, WellLinked

(* Aborting the open definition frees it and its body, and nothing else. *)
LEMMA AbortedIInv ==
    ASSUME IInv, AbortIfCompiling, UNCHANGED smudge
    PROVE  /\ MemoryOK' /\ LiveLists' = LiveLists
           /\ here' \in 1..(Size + 1) /\ kind' \in [Addr -> Kinds]
           /\ word' \in [Addr -> Words] /\ list' \in [Addr -> Wordlists]
           /\ saved' \in [Addr -> Saves]
           /\ state = "compile" => ~word'[smudge].smudged
           /\ state # "compile" => UNCHANGED <<here, kind, word>>
           /\ \A a : Entry(a) => Entry(a)'
<1> USE DEF IInv
<1>1. CASE state = "compile"
  <2>1. /\ smudge \in LiveWords /\ kind[smudge] = "word" /\ word[smudge].smudged
        /\ 1 < smudge /\ smudge < here
        /\ \A e : Entry(e) => e < smudge
        /\ \A l \in LiveLists : l < smudge
    BY <1>1, OpenOnTop
  <2>2. FreeFrom(smudge, list)
    BY <1>1, <2>1 DEF AbortIfCompiling, AbortDefinition, IsWord
  <2>3. smudge \in 1..here /\ smudge \in Nat
    BY <2>1, BelowHere DEF LiveWords
  <2>4. list \in [Addr -> Wordlists]
    BY DEF TypeOK
  <2>5. \A l \in LiveLists : l < smudge =>
            /\ list[l].link = list[l].link
            /\ \A b \in Bucket : Entry(list[l].table[b]) /\ list[l].table[b] < smudge
    BY <2>1 DEF WellLinked, HeadsLive
  <2>6. /\ MemoryOK' /\ LiveLists' = {l \in LiveLists : l < smudge}
        /\ here' \in 1..(Size + 1) /\ kind' \in [Addr -> Kinds]
        /\ word' \in [Addr -> Words] /\ list' \in [Addr -> Wordlists]
        /\ saved' \in [Addr -> Saves]
        /\ \A a : Entry(a) => Entry(a)'
    BY <2>1, <2>2, <2>3, <2>4, <2>5, Freed
  <2>7. ~word'[smudge].smudged
    BY <2>2, <2>3 DEF FreeFrom, Below, NoWord, TypeOK
  <2> QED BY <1>1, <2>1, <2>6, <2>7
<1>2. CASE state # "compile"
  <2>1. UNCHANGED <<here, kind, word, list, saved>>
    BY <1>2 DEF AbortIfCompiling
  <2>2. \A a : Entry(a) => Entry(a)'
    BY <2>1 DEF Entry, LiveWords, IsWord
  <2> QED BY <1>2, <2>1, <2>2, MemoryKept DEF TypeOK
<1> QED BY <1>1, <1>2

\* An error or a QUIT frees the open definition and nothing that is linked.
LEMMA ExitIInv ==
    ASSUME IInv, ErrorExit \/ QuitExit
    PROVE  IInv'
<1> USE DEF IInv
<1>1. AbortIfCompiling /\ UNCHANGED smudge /\ state' = "interpret"
  BY DEF ErrorExit, QuitExit
<1>2. /\ MemoryOK' /\ LiveLists' = LiveLists
      /\ here' \in 1..(Size + 1) /\ kind' \in [Addr -> Kinds]
      /\ word' \in [Addr -> Words] /\ list' \in [Addr -> Wordlists]
      /\ saved' \in [Addr -> Saves]
      /\ state = "compile" => ~word'[smudge].smudged
      /\ state # "compile" => UNCHANGED <<here, kind, word>>
  BY <1>1, AbortedIInv
<1>3. /\ current' \in LiveLists /\ current' \in Pointer /\ order' \in Seq(Pointer)
      /\ \A i \in DOMAIN order' : order'[i] \in LiveLists
  <2>1. CASE ErrorExit
    <3>1. ForthWordlist \in LiveLists /\ ForthWordlist \in Pointer
      BY SizeAssumption DEF ForthLive, Pointer, ForthWordlist
    <3> QED BY <2>1, <3>1 DEF ErrorExit, ResetSearchOrder
  <2>2. CASE QuitExit
    BY <2>2 DEF QuitExit, WellLinked, ListsLive, TypeOK
  <2> QED BY <2>1, <2>2
<1>4. TypeOK'
  <2>1. colonSys' \in Nat
    BY DEF ErrorExit, QuitExit, TypeOK
  <2> QED BY <1>1, <1>2, <1>3, <2>1 DEF TypeOK
<1>5. ListsLive'
  BY <1>2, <1>3 DEF ListsLive
<1>6. CompilingIsOpen'
  BY <1>1 DEF CompilingIsOpen
<1>7. OpenIsLast'
  <2>1. CASE state = "compile"
    BY <1>1, <1>2, <2>1 DEF OpenIsLast, DefinitionOpen
  <2>2. CASE state # "compile" /\ ErrorExit
    BY <2>2 DEF OpenIsLast, DefinitionOpen, ErrorExit
  <2>3. CASE state # "compile" /\ QuitExit
    BY <1>1, <1>2, <2>3 DEF OpenIsLast, DefinitionOpen, QuitExit
  <2> QED BY <2>1, <2>2, <2>3
<1> QED BY <1>2, <1>4, <1>5, <1>6, <1>7 DEF MemoryOK, WellLinked

\* Steps that change nothing here.
LEMMA StutterIInv ==
    ASSUME IInv, UNCHANGED vars
    PROVE  IInv'
<1> USE DEF IInv
<1>1. MemoryOK' /\ LiveLists' = LiveLists
  BY MemoryKept DEF vars
<1>2. TypeOK'
  BY DEF TypeOK, vars
<1>3. ListsLive' /\ CompilingIsOpen' /\ OpenIsLast'
  BY <1>1 DEF WellLinked, ListsLive, CompilingIsOpen, OpenIsLast, DefinitionOpen, vars
<1> QED BY <1>1, <1>2, <1>3 DEF MemoryOK, WellLinked

\* Every step keeps the inductive invariant.
LEMMA NextIInv ==
    ASSUME IInv, Careful, [Next]_vars
    PROVE  IInv'
<1>1. CASE \E n \in Names : Create(n) \/ Colon(n) \/ Forget(n)
  BY <1>1, CreateIInv, OpenDefinitionIInv, ForgetIInv DEF Colon
<1>2. CASE \E n \in Markers : CreateMarker(n) \/ RunMarker(n)
  BY <1>2, CreateMarkerIInv, RunMarkerIInv
<1>3. CASE ColonNoName
  BY <1>3, OpenDefinitionIInv DEF ColonNoName
<1>4. CASE Comma \/ Semicolon
  BY <1>4, CommaIInv, SemicolonIInv
<1>5. CASE LeftBracket \/ RightBracket \/ DropColonSys
  BY <1>5, VmStateIInv
<1>6. CASE \E k \in 1..MaxBuckets : FiclWordlist(k)
  BY <1>6, FiclWordlistIInv
<1>7. CASE \/ \E l \in LiveLists : SetCurrent(l) \/ SearchPush(l)
           \/ \E ls \in Orders : SetOrder(ls)
           \/ Definitions \/ Only \/ SearchPop
  BY <1>7, OrderIInv
<1>8. CASE \E l \in LiveLists : ForgetWid(l)
  BY <1>8, ForgetWidIInv
<1>9. CASE \E p, c \in LiveLists : SetParentWid(p, c)
  BY <1>9, SetParentWidIInv
<1>10. CASE ErrorExit \/ QuitExit
  BY <1>10, ExitIInv
<1>11. CASE UNCHANGED vars
  BY <1>11, StutterIInv
<1> QED
  BY <1>1, <1>2, <1>3, <1>4, <1>5, <1>6, <1>7, <1>8, <1>9, <1>10, <1>11 DEF Next

-----------------------------------------------------------------------------
(* The home of every word *)

Finished == EntrySet \ {Null}

(* A finished word is in the chain of its hash, in a wordlist older than it. *)
Homes ==
    \A e \in Finished : \E l \in LiveLists :
        l < e /\ InChain(l, BucketOf(l, word[e].name), e)

(* It is in no second chain. *)
Sole ==
    \A e \in Finished : \A l, m \in LiveLists : \A b, c \in Bucket :
        InChain(l, b, e) /\ InChain(m, c, e) => l = m /\ b = c

Homed == Homes /\ Sole

(* What a step does to the chains.  It leaves each finished word where it   *)
(* is, and gives a new wordlist none.                                       *)
ChainsStay ==
    /\ Finished' = Finished /\ LiveLists \subseteq LiveLists'
    /\ \A e \in Finished : word'[e].name = word[e].name
    /\ \A l \in LiveLists : list'[l].size = list[l].size
    /\ \A l \in LiveLists' : \A b \in Bucket : \A e \in Finished :
          InChain(l, b, e)' <=> l \in LiveLists /\ InChain(l, b, e)

(* It inserts a, called n, in the chain of its hash.                         *)
ChainsGain(a, n) ==
    /\ Finished' = Finished \cup {a} /\ LiveLists' = LiveLists
    /\ a \in Addr /\ (\A e \in Finished : e < a) /\ (\A l \in LiveLists : l < a)
    /\ n \in Names /\ word'[a].name = n
    /\ \A e \in Finished : word'[e].name = word[e].name
    /\ \A l \in LiveLists : list'[l].size = list[l].size
    /\ \A l \in LiveLists : \A b \in Bucket : \A e \in Finished :
          InChain(l, b, e)' <=> InChain(l, b, e)
    /\ \A l \in LiveLists : \A b \in Bucket :
          InChain(l, b, a)' <=> l = current /\ b = BucketOf(current, n)

(* It forgets every word and every wordlist from where on, and no other.    *)
ChainsLose(where) ==
    /\ here' = where
    /\ Finished' = {e \in Finished : e < where}
    /\ LiveLists' = {l \in LiveLists : l < where}
    /\ \A e \in Finished' : word'[e].name = word[e].name
    /\ \A l \in LiveLists' : list'[l].size = list[l].size
    /\ \A l \in LiveLists' : \A b \in Bucket : \A e \in Finished' :
          InChain(l, b, e)' <=> InChain(l, b, e)

\* The links of finished words lead down to finished words.
LEMMA ChainDescends ==
    ASSUME TypeOK, WellLinked, NEW Stop, Null \in Stop
    PROVE  Descends(EntrySet, WordLink, Stop)
<1>1. WordLink \in [Addr -> Pointer]
  BY LinkTypes
<1> SUFFICES ASSUME NEW a \in EntrySet, a \notin Stop
             PROVE  WordLink[a] \in EntrySet /\ WordLink[a] < a
  BY DEF Descends
<1>2. a \in LiveWords /\ a \in Addr
  BY LiveAddr DEF EntrySet, Entry
<1>3. Entry(word[a].link) /\ word[a].link < a
  BY <1>2 DEF WellLinked, LinksDescend, EntrySet
<1>4. WordLink[a] = word[a].link
  BY <1>2 DEF WordLink
<1> QED BY <1>1, <1>2, <1>3, <1>4 DEF EntrySet

\* A chain begins at a finished word or is empty.
LEMMA HeadIsEntry ==
    ASSUME TypeOK, WellLinked, NEW l \in LiveLists, NEW b \in Bucket
    PROVE  list[l].table[b] \in EntrySet
BY LiveAddr DEF TypeOK, Wordlists, WellLinked, HeadsLive, EntrySet

(* A walk ends where it did if the links of the entries it can meet stay. *)
LEMMA WalkKept ==
    ASSUME TypeOK, WellLinked, TypeOK', NEW D \in SUBSET EntrySet, NEW h \in D,
           NEW Stop, Null \in Stop,
           \A a \in D \ {Null} : word[a].link \in D /\ word'[a].link = word[a].link
    PROVE  Follow(h, WordLink', Stop) = Follow(h, WordLink, Stop)
<1> DEFINE next == WordLink
           next2 == WordLink'
<1>1. next \in [Addr -> Pointer] /\ D \in SUBSET Pointer
  BY LinkTypes DEF EntrySet
<1>2. next2 \in [Addr -> Pointer]
  <2>1. \A a \in Addr : word'[a] \in Words
    BY DEF TypeOK
  <2> QED BY <2>1 DEF WordLink, Words
<1>3. ASSUME NEW a \in D, a # Null
      PROVE  next[a] = word[a].link /\ next2[a] = word[a].link
  <2>1. a \in Addr
    BY <1>3, LiveAddr DEF EntrySet, Entry
  <2> QED BY <1>3, <2>1 DEF WordLink
<1>4. Descends(EntrySet, next, Stop)
  BY ChainDescends
<1> HIDE DEF next, next2
<1>5. Descends(D, next, Stop)
  BY <1>3, <1>4 DEF Descends
<1>6. \A a \in D : a \notin Stop => next2[a] = next[a]
  BY <1>3
<1>7. Follow(h, next2, Stop) = Follow(h, next, Stop)
  BY <1>1, <1>2, <1>5, <1>6, FollowSame
<1> QED BY <1>7 DEF next, next2

(* A step that leaves the finished words and their chains alone; a new      *)
(* wordlist is empty.                                                       *)
LEMMA StaysIf ==
    ASSUME IInv, TypeOK',
           Finished' = Finished, LiveLists \subseteq LiveLists',
           \A e \in Finished : word'[e].name = word[e].name /\ word'[e].link = word[e].link,
           \A l \in LiveLists : list'[l].size = list[l].size /\ list'[l].table = list[l].table,
           \A l \in LiveLists' \ LiveLists : \A b \in Bucket : list'[l].table[b] = Null
    PROVE  ChainsStay
<1>1. TypeOK /\ WellLinked
  BY DEF IInv
<1>2. ASSUME NEW l \in LiveLists', NEW b \in Bucket, NEW e \in Finished
      PROVE  InChain(l, b, e)' <=> l \in LiveLists /\ InChain(l, b, e)
  <2>1. PICK h : h = list'[l].table[b]
    OBVIOUS
  <2>2. PICK Stop : Stop = {Null, e} /\ Null \in Stop
    OBVIOUS
  <2>3. InChain(l, b, e)' <=> Follow(h, WordLink', Stop) = e
    BY <2>1, <2>2 DEF InChain
  <2>4. \A a \in EntrySet \ {Null} : word[a].link \in EntrySet /\ word'[a].link = word[a].link
    <3> SUFFICES ASSUME NEW a \in EntrySet \ {Null}
                 PROVE  word[a].link \in EntrySet /\ word'[a].link = word[a].link
      OBVIOUS
    <3>1. a \in LiveWords /\ a \in Addr /\ Entry(a)
      BY <1>1, LiveAddr DEF EntrySet, Entry
    <3>2. word[a].link \in EntrySet
      BY <1>1, <3>1 DEF WellLinked, LinksDescend, EntrySet, TypeOK, Words
    <3> QED BY <3>2 DEF Finished
  <2>5. CASE l \in LiveLists
    <3>1. h = list[l].table[b] /\ h \in EntrySet
      BY <1>1, <2>1, <2>5, HeadIsEntry
    <3>2. Follow(h, WordLink', Stop) = Follow(h, WordLink, Stop)
      <4>1. EntrySet \in SUBSET EntrySet
        OBVIOUS
      <4> QED BY <1>1, <2>2, <2>4, <3>1, <4>1, WalkKept
    <3> QED BY <2>2, <2>3, <2>5, <3>1, <3>2 DEF InChain
  <2>6. CASE l \notin LiveLists
    <3>1. h = Null
      BY <2>1, <2>6
    <3>2. Null \in {Null} /\ {Null} \in SUBSET EntrySet
      BY SizeAssumption DEF EntrySet, Entry, Pointer, Null
    <3>3. WordLink' \in [Addr -> Pointer]
      <4>1. \A a \in Addr : word'[a] \in Words
        BY DEF TypeOK
      <4> QED BY <4>1 DEF WordLink, Words
    <3>4. Follow(h, WordLink', Stop) = h
      <4> DEFINE next2 == WordLink'
      <4>1. next2 \in [Addr -> Pointer] /\ h \in Pointer /\ h \in Stop
        BY <2>2, <3>1, <3>3, SizeAssumption DEF Null, Pointer
      <4> HIDE DEF next2
      <4>2. Pointer \in SUBSET Pointer
        OBVIOUS
      <4>3. Follow(h, next2, Stop) = h
        BY <2>2, <4>1, <4>2, FollowAt
      <4> QED BY <4>3 DEF next2
    <3>5. e # Null
      BY DEF Finished
    <3> QED BY <2>3, <2>6, <3>1, <3>4, <3>5
  <2> QED BY <2>5, <2>6
<1> QED BY <1>2 DEF ChainsStay

(* A word that is inserted at the head of its chain gets its home there and *)
(* takes nobody else's.                                                     *)
LEMMA GainsIf ==
    ASSUME IInv, TypeOK', NEW a \in Addr, NEW n \in Names \cup {NoName},
           a \in LiveWords', LiveWords \subseteq LiveWords', LiveWords' \subseteq LiveWords \cup {a},
           \A e : Entry(e) => e < a, \A l \in LiveLists : l < a, ~Entry(a),
           LiveLists' = LiveLists,
           word' = UnsmudgedWords(a, n), list' = UnsmudgedLists(a, n)
    PROVE  IF n = NoName THEN ChainsStay ELSE ChainsGain(a, n)
<1>1. TypeOK /\ WellLinked
  BY DEF IInv
<1>2. /\ LiveWords \subseteq Addr /\ LiveLists \subseteq Addr /\ current \in LiveLists
      /\ a \in Nat /\ a # Null /\ a \in Pointer /\ Null \notin LiveWords
  BY <1>1, LiveAddr, SizeAssumption DEF WellLinked, ListsLive, Addr, Null, Pointer
<1>3. \A c \in Addr : c # a => word'[c] = word[c]
  BY <1>1 DEF UnsmudgedWords, TypeOK
<1>4. \A e \in Finished : e # a /\ e \in Addr /\ word'[e] = word[e]
  BY <1>2, <1>3 DEF Finished, EntrySet, Entry
<1>5. ASSUME NEW e \in Pointer, e # a PROVE Entry(e)' <=> Entry(e)
  BY <1>2, <1>3, <1>5 DEF Entry
<1>6. CASE n = NoName
  <2>1. word'[a].name = NoName /\ list' = list
    BY <1>1, <1>6 DEF UnsmudgedWords, UnsmudgedLists, TypeOK
  <2>2. ~Entry(a)'
    BY <1>2, <2>1 DEF Entry
  <2>3. Finished' = Finished
    <3>1. \A e \in Pointer : Entry(e)' <=> Entry(e)
      BY <1>5, <2>2
    <3> QED BY <3>1 DEF Finished, EntrySet, Pointer, Null
  <2>4. \A e \in Finished : word'[e].name = word[e].name /\ word'[e].link = word[e].link
    BY <1>4
  <2>5. \A l \in LiveLists : list'[l].size = list[l].size /\ list'[l].table = list[l].table
    BY <2>1
  <2> QED BY <1>6, <2>3, <2>4, <2>5, StaysIf
<1>7. CASE n # NoName
  <2>1. PICK B \in Bucket : B = BucketOf(current, n)
    BY <1>1, <1>2, <1>7, BucketType
  <2>2. PICK old : old = list[current].table[B] /\ old \in EntrySet
    BY <1>1, <1>2, HeadIsEntry
  <2>3. word'[a] = [name |-> n, link |-> old, smudged |-> FALSE]
    BY <1>1, <1>7, <2>1, <2>2 DEF UnsmudgedWords, TypeOK
  <2>4. list' = [list EXCEPT ![current].table[B] = a]
    BY <1>7, <2>1 DEF UnsmudgedLists
  <2>5. /\ \A l \in Addr : list'[l].size = list[l].size
        /\ \A l \in Addr : l # current => list'[l] = list[l]
        /\ \A b \in Bucket : list'[current].table[b] = IF b = B THEN a ELSE list[current].table[b]
    <3>1. \A l \in Addr : list[l] \in Wordlists
      BY <1>1 DEF TypeOK
    <3>2. list'[current] = [list[current] EXCEPT !.table = [list[current].table EXCEPT ![B] = a]]
      BY <1>1, <1>2, <2>4 DEF TypeOK
    <3>3. list'[current].size = list[current].size
          /\ list'[current].table = [list[current].table EXCEPT ![B] = a]
      BY <1>2, <3>1, <3>2 DEF Wordlists
    <3>4. \A l \in Addr : l # current => list'[l] = list[l]
      BY <1>1, <2>4 DEF TypeOK
    <3>5. list[current].table \in [Bucket -> Pointer]
      BY <1>2, <3>1 DEF Wordlists
    <3> QED BY <3>3, <3>4, <3>5
  <2>6. EntrySet' = EntrySet \cup {a}
    <3>1. Entry(a)'
      BY <1>7, <2>3 DEF Entry
    <3>2. \A e \in Pointer : Entry(e)' <=> Entry(e) \/ e = a
      BY <1>5, <3>1
    <3> QED BY <1>2, <3>2 DEF EntrySet, Pointer
  <2>7. PICK next : next = WordLink'
    OBVIOUS
  <2>8. next \in [Addr -> Pointer] /\ next[a] = old
    <3>1. \A c \in Addr : word'[c] \in Words
      BY DEF TypeOK
    <3> QED BY <2>3, <2>7, <3>1 DEF WordLink, Words
  <2>9. \A c \in EntrySet \ {Null} : word[c].link \in EntrySet /\ word'[c].link = word[c].link
    <3> SUFFICES ASSUME NEW c \in EntrySet \ {Null}
                 PROVE  word[c].link \in EntrySet /\ word'[c].link = word[c].link
      OBVIOUS
    <3>1. c \in LiveWords /\ c \in Addr /\ Entry(c) /\ c \in Finished
      BY <1>2 DEF EntrySet, Entry, Finished
    <3>2. word[c].link \in EntrySet
      BY <1>1, <3>1 DEF WellLinked, LinksDescend, EntrySet, TypeOK, Words
    <3> QED BY <1>4, <3>1, <3>2
  <2>10. ASSUME NEW h \in EntrySet, NEW Stop, Null \in Stop
         PROVE  Follow(h, next, Stop) = Follow(h, WordLink, Stop)
    <3>1. EntrySet \in SUBSET EntrySet
      OBVIOUS
    <3> QED BY <1>1, <2>7, <2>9, <2>10, <3>1, WalkKept
  <2>11. ASSUME NEW l \in LiveLists, NEW b \in Bucket, NEW h, h = list'[l].table[b], h # a
         PROVE  h = list[l].table[b] /\ h \in EntrySet
    <3>1. h = list[l].table[b]
      BY <1>2, <2>5, <2>11
    <3> QED BY <1>1, <3>1, HeadIsEntry
  <2>12. ASSUME NEW l \in LiveLists, NEW b \in Bucket, NEW e \in Finished
         PROVE  InChain(l, b, e)' <=> InChain(l, b, e)
    <3>1. PICK h : h = list'[l].table[b]
      OBVIOUS
    <3>2. PICK Stop : Stop = {Null, e} /\ Null \in Stop
      OBVIOUS
    <3>3. InChain(l, b, e)' <=> Follow(h, next, Stop) = e
      BY <2>7, <3>1, <3>2 DEF InChain
    <3>4. InChain(l, b, e) <=> Follow(list[l].table[b], WordLink, Stop) = e
      BY <3>2 DEF InChain
    <3>5. CASE h # a
      <4>1. h = list[l].table[b] /\ h \in EntrySet
        BY <2>11, <3>1, <3>5
      <4>2. Follow(h, next, Stop) = Follow(h, WordLink, Stop)
        BY <2>10, <3>2, <4>1
      <4> QED BY <3>3, <3>4, <4>1, <4>2
    <3>6. CASE h = a
      <4>1. list[l].table[b] # a
        <5>1. list[l].table[b] \in EntrySet
          BY <1>1, HeadIsEntry
        <5> QED BY <5>1 DEF EntrySet
      <4>2. l = current /\ b = B
        BY <1>2, <2>5, <3>1, <3>6, <4>1
      <4>3. Descends(EntrySet \cup {a}, next, Stop)
        <5> SUFFICES ASSUME NEW c \in EntrySet \cup {a}, c \notin Stop
                     PROVE  next[c] \in EntrySet \cup {a} /\ next[c] < c
          BY DEF Descends
        <5>1. CASE c = a
          BY <2>2, <2>8, <5>1 DEF EntrySet
        <5>2. CASE c # a
          <6>1. c \in LiveWords /\ c \in Addr /\ Entry(c) /\ c \in EntrySet \ {Null}
            BY <3>2, <5>2, <1>2 DEF EntrySet, Entry
          <6>2. next[c] = word[c].link
            BY <2>7, <2>9, <6>1 DEF WordLink
          <6>3. word[c].link < c
            BY <1>1, <6>1 DEF WellLinked, LinksDescend
          <6> QED BY <2>9, <6>1, <6>2, <6>3
        <5> QED BY <5>1, <5>2
      <4>4. a \notin Stop
        BY <1>2, <1>4, <3>2
      <4>5. EntrySet \cup {a} \in SUBSET Pointer /\ a \in EntrySet \cup {a}
        BY <1>2 DEF EntrySet
      <4>6. Follow(a, next, Stop) = Follow(next[a], next, Stop)
        BY <2>8, <3>2, <4>3, <4>4, <4>5, FollowOn
      <4>7. Follow(old, next, Stop) = Follow(old, WordLink, Stop)
        BY <2>2, <2>10, <3>2
      <4> QED BY <2>2, <2>8, <3>3, <3>4, <3>6, <4>2, <4>6, <4>7
    <3> QED BY <3>5, <3>6
  <2>13. ASSUME NEW l \in LiveLists, NEW b \in Bucket
         PROVE  InChain(l, b, a)' <=> l = current /\ b = B
    <3>1. PICK h : h = list'[l].table[b]
      OBVIOUS
    <3>a. PICK Stop : Stop = {Null, a}
      OBVIOUS
    <3>2. Stop = {Null, a} /\ Null \in Stop /\ a \in Stop
      BY <3>a
    <3>3. InChain(l, b, a)' <=> Follow(h, next, Stop) = a
      BY <2>7, <3>1, <3>2 DEF InChain
    <3>4. CASE h = a
      <4>1. l = current /\ b = B
        <5>1. list[l].table[b] \in EntrySet
          BY <1>1, HeadIsEntry
        <5>2. list[l].table[b] # a
          BY <5>1 DEF EntrySet
        <5> QED BY <1>2, <2>5, <3>1, <3>4, <5>2
      <4>2. Pointer \in SUBSET Pointer
        OBVIOUS
      <4>3. Follow(a, next, Stop) = a
        BY <1>2, <2>8, <3>2, <4>2, FollowAt
      <4> QED BY <3>3, <3>4, <4>1, <4>3
    <3>5. CASE h # a
      <4>1. h \in EntrySet
        BY <2>11, <3>1, <3>5
      <4>2. ~(l = current /\ b = B)
        BY <2>5, <3>1, <3>5
      <4>3. Follow(h, next, Stop) = Follow(h, WordLink, Stop)
        BY <2>10, <3>2, <4>1
      <4>4. Follow(h, WordLink, Stop) \in EntrySet
        BY <1>1, <3>2, <4>1, ChainWalk
      <4>5. a \notin EntrySet
        BY DEF EntrySet
      <4> QED BY <3>3, <4>2, <4>3, <4>4, <4>5
    <3> QED BY <3>4, <3>5
  <2>14. Finished' = Finished \cup {a}
    BY <1>2, <2>6 DEF Finished, Null
  <2>15. (\A e \in Finished : e < a) /\ n \in Names /\ word'[a].name = n
    BY <1>7, <2>3 DEF Finished, EntrySet
  <2>16. /\ \A e \in Finished : word'[e].name = word[e].name
         /\ \A l \in LiveLists : list'[l].size = list[l].size
    BY <1>2, <1>4, <2>5
  <2> QED BY <1>7, <2>1, <2>12, <2>13, <2>14, <2>15, <2>16 DEF ChainsGain
<1> QED BY <1>6, <1>7

(* Freeing from where keeps the homes of the words below it, when each chain *)
(* of a wordlist below it is cut down to its words below it.                *)
LEMMA LosesIf ==
    ASSUME IInv, TypeOK', NEW where \in Nat, 0 < where, where <= here,
           NEW lists, FreeFrom(where, lists),
           \A l \in LiveLists : l < where =>
              /\ lists[l].size = list[l].size
              /\ \A b \in Bucket :
                    lists[l].table[b] = Follow(list[l].table[b], WordLink, 0..(where - 1))
    PROVE  ChainsLose(where)
<1>1. TypeOK /\ WellLinked
  BY DEF IInv
<1>2. /\ here \in Nat /\ Addr \subseteq Nat /\ 1..(here - 1) \subseteq Addr
      /\ LiveWords \subseteq Addr /\ LiveLists \subseteq Addr
  BY <1>1, BelowHere, LiveAddr, SizeAssumption DEF TypeOK, Addr
<1>3. /\ here' = where
      /\ \A a \in Addr : a < where => kind'[a] = kind[a] /\ word'[a] = word[a] /\ list'[a] = lists[a]
  BY DEF FreeFrom, Below
<1>4. /\ LiveLists' = {l \in LiveLists : l < where}
      /\ LiveWords' = {a \in LiveWords : a < where}
  BY <1>2, <1>3 DEF LiveLists, LiveWords, IsWord
<1>5. EntrySet' = {e \in EntrySet : e < where}
  <2> SUFFICES ASSUME NEW e \in Pointer PROVE Entry(e)' <=> Entry(e) /\ e < where
    BY DEF EntrySet, Pointer
  <2>1. CASE e = Null
    BY <2>1 DEF Entry, Null
  <2>2. CASE e # Null
    <3>1. e \in LiveWords /\ e < where => word'[e] = word[e]
      BY <1>2, <1>3
    <3> QED BY <1>4, <2>2, <3>1 DEF Entry
  <2> QED BY <2>1, <2>2
<1> DEFINE D == {e \in EntrySet : e < where}
<1>6. \A a \in D \ {Null} : word[a].link \in D /\ word'[a].link = word[a].link
  <2> SUFFICES ASSUME NEW a \in EntrySet, a # Null, a < where
               PROVE  /\ word[a].link \in EntrySet /\ word[a].link < where
                      /\ word'[a].link = word[a].link
    OBVIOUS
  <2>1. a \in LiveWords /\ a \in Addr /\ a \in Nat /\ Entry(a)
    BY <1>2 DEF EntrySet, Entry
  <2>2. Entry(word[a].link) /\ word[a].link < a /\ word[a].link \in Pointer
    BY <1>1, <2>1 DEF WellLinked, LinksDescend, TypeOK, Words
  <2>3. word[a].link \in Nat
    BY <2>2, SizeAssumption DEF Pointer
  <2> QED BY <1>3, <2>1, <2>2, <2>3 DEF EntrySet
<1>7. ASSUME NEW l \in LiveLists', NEW b \in Bucket, NEW e \in Finished'
      PROVE  InChain(l, b, e)' <=> InChain(l, b, e)
  <2>1. l \in LiveLists /\ l < where /\ l \in Addr
    BY <1>2, <1>4
  <2>2. PICK h : h = list[l].table[b] /\ h \in EntrySet
    BY <1>1, <2>1, HeadIsEntry
  <2>3. PICK Stop : Stop = {Null, e} /\ Null \in Stop
    OBVIOUS
  <2>4. PICK Rest : Rest = 0..(where - 1) /\ Null \in Rest
    BY DEF Null
  <2>5. PICK g : g = Follow(h, WordLink, Rest)
    OBVIOUS
  <2>6. list'[l].table[b] = g
    BY <1>3, <2>1, <2>2, <2>4, <2>5
  <2>7. g \in D
    <3>1. g \in EntrySet \cap Rest
      BY <1>1, <2>2, <2>4, <2>5, ChainWalk
    <3> QED BY <2>4, <3>1
  <2>8. D \in SUBSET EntrySet
    OBVIOUS
  <2> HIDE DEF D
  <2>9. Follow(g, WordLink', Stop) = Follow(g, WordLink, Stop)
    BY <1>1, <1>6, <2>3, <2>7, <2>8, WalkKept
  <2>10. Stop \subseteq Rest
    <3>1. e \in Nat /\ e < where
      BY <1>5, SizeAssumption DEF Finished, EntrySet, Pointer
    <3> QED BY <2>3, <2>4, <3>1 DEF Null
  <2>11. Follow(g, WordLink, Stop) = Follow(h, WordLink, Stop)
    <3> DEFINE next == WordLink
    <3>1. next \in [Addr -> Pointer] /\ Descends(EntrySet, next, Stop) /\ EntrySet \in SUBSET Pointer
      BY <1>1, <2>3, LinkTypes, ChainDescends DEF EntrySet
    <3>2. g = Follow(h, next, Rest)
      BY <2>5
    <3> HIDE DEF next
    <3>3. Follow(Follow(h, next, Rest), next, Stop) = Follow(h, next, Stop)
      BY <2>2, <2>3, <2>10, <3>1, FollowVia
    <3> QED BY <3>2, <3>3 DEF next
  <2>12. InChain(l, b, e)' <=> Follow(g, WordLink', Stop) = e
    BY <2>3, <2>6 DEF InChain
  <2>13. InChain(l, b, e) <=> Follow(h, WordLink, Stop) = e
    BY <2>2, <2>3 DEF InChain
  <2> QED BY <2>1, <2>9, <2>11, <2>12, <2>13
<1>8. \A e \in Finished' : e \in Finished /\ e < where /\ word'[e].name = word[e].name
  <2> SUFFICES ASSUME NEW e \in Finished'
               PROVE  e \in Finished /\ e < where /\ word'[e].name = word[e].name
    OBVIOUS
  <2>1. e \in EntrySet /\ e < where /\ e # Null
    BY <1>5 DEF Finished
  <2>2. e \in Addr
    BY <1>2, <2>1 DEF EntrySet, Entry
  <2> QED BY <1>3, <2>1, <2>2 DEF Finished
<1>10. \A l \in LiveLists' : l \in LiveLists => list'[l].size = list[l].size
  BY <1>2, <1>3, <1>4
<1>11. \A l \in LiveLists' : \A b \in Bucket : \A e \in Finished' :
         InChain(l, b, e)' <=> InChain(l, b, e)
  BY <1>7
<1>12. \A e \in Finished' : word'[e].name = word[e].name
  BY <1>8
<1>13. Finished' = {e \in Finished : e < where}
  BY <1>5 DEF Finished
<1>14. \A l \in LiveLists' : list'[l].size = list[l].size
  BY <1>4, <1>10
<1> QED BY <1>3, <1>4, <1>11, <1>12, <1>13, <1>14 DEF ChainsLose

(* Words keep their homes as long as the chains they are in do. *)
LEMMA HomesKept ==
    ASSUME Homed, 
           \A e \in Finished' : e \in Finished /\ word'[e].name = word[e].name,
           \A l \in LiveLists' : l \in LiveLists => list'[l].size = list[l].size,
           \A e \in Finished' : \A l \in LiveLists : l < e => l \in LiveLists',
           \A l \in LiveLists' : \A b \in Bucket : \A e \in Finished' :
              InChain(l, b, e)' <=> l \in LiveLists /\ InChain(l, b, e),
           TypeOK, TypeOK'
    PROVE  Homed'
<1>0. \A e \in Finished : e \in LiveWords /\ word[e].name \in Names
  <2> SUFFICES ASSUME NEW e \in Finished PROVE e \in LiveWords /\ word[e].name \in Names
    OBVIOUS
  <2>1. e \in LiveWords /\ e \in Addr /\ word[e].name # NoName
    BY LiveAddr DEF Finished, EntrySet, Entry
  <2>2. word[e] \in Words
    BY <2>1 DEF TypeOK
  <2> QED BY <2>1, <2>2 DEF Words
<1>1. Homes'
  <2> SUFFICES ASSUME NEW e \in Finished'
               PROVE  \E l \in LiveLists' : (l < e /\ InChain(l, BucketOf(l, word[e].name), e))'
    BY DEF Homes
  <2>1. e \in Finished /\ word'[e].name = word[e].name /\ word[e].name \in Names
    BY <1>0
  <2>2. PICK l \in LiveLists : l < e /\ InChain(l, BucketOf(l, word[e].name), e)
    BY <2>1 DEF Homed, Homes
  <2>3. l \in LiveLists' /\ list'[l].size = list[l].size
    BY <2>2
  <2>4. PICK b \in Bucket : b = BucketOf(l, word[e].name)
    BY <2>1, LiveAddr, BucketType
  <2>5. InChain(l, b, e) /\ l \in LiveLists' /\ e \in Finished'
    BY <2>2, <2>3, <2>4
  <2>6. InChain(l, b, e)'
    BY <2>5
  <2>7. BucketOf(l, word[e].name)' = b
    BY <2>1, <2>3, <2>4 DEF BucketOf
  <2>8. InChain(l, BucketOf(l, word[e].name), e)'
    BY <2>6, <2>7 DEF InChain
  <2> QED BY <2>2, <2>3, <2>8
<1>2. Sole'
  <2> SUFFICES ASSUME NEW e \in Finished', NEW l \in LiveLists', NEW m \in LiveLists',
                      NEW b \in Bucket, NEW c \in Bucket,
                      InChain(l, b, e)', InChain(m, c, e)'
               PROVE  l = m /\ b = c
    BY DEF Sole, Bucket
  <2> QED BY DEF Homed, Sole
<1> QED BY <1>1, <1>2 DEF Homed

(* In each of the three cases every finished word has one home.             *)
LEMMA StayHomed ==
    ASSUME Homed, TypeOK, TypeOK', ChainsStay
    PROVE  Homed'
<1>1. \A l \in LiveLists' : l \in LiveLists => list'[l].size = list[l].size
  BY DEF ChainsStay
<1>2. \A e \in Finished' : \A l \in LiveLists : l < e => l \in LiveLists'
  BY DEF ChainsStay
<1>3. \A e \in Finished' : e \in Finished /\ word'[e].name = word[e].name
  BY DEF ChainsStay
<1>4. \A l \in LiveLists' : \A b \in Bucket : \A e \in Finished' :
         InChain(l, b, e)' <=> l \in LiveLists /\ InChain(l, b, e)
  BY DEF ChainsStay
<1> QED BY <1>1, <1>2, <1>3, <1>4, HomesKept

\* Forgetting leaves each word that is left its home, which is older than it.
LEMMA LoseHomed ==
    ASSUME Homed, TypeOK, TypeOK', NEW where \in Nat, ChainsLose(where)
    PROVE  Homed'
<1>1. \A l \in LiveLists' : l \in LiveLists /\ list'[l].size = list[l].size
  BY DEF ChainsLose
<1>2. \A e \in Finished' : \A l \in LiveLists : l < e => l \in LiveLists'
  <2> SUFFICES ASSUME NEW e \in Finished', NEW l \in LiveLists, l < e PROVE l < where
    BY DEF ChainsLose
  <2>1. e \in Pointer /\ e < where /\ l \in Addr
    BY LiveAddr DEF ChainsLose, Finished, EntrySet
  <2> QED BY <2>1, SizeAssumption DEF Pointer, Addr
<1>3. \A e \in Finished' : e \in Finished /\ word'[e].name = word[e].name
  BY DEF ChainsLose
<1>4. \A l \in LiveLists' : \A b \in Bucket : \A e \in Finished' :
         InChain(l, b, e)' <=> l \in LiveLists /\ InChain(l, b, e)
  BY <1>1 DEF ChainsLose
<1> QED BY <1>1, <1>2, <1>3, <1>4, HomesKept

\* A word that is inserted gets one home and takes no other word's.
LEMMA GainHomed ==
    ASSUME Homed, TypeOK, WellLinked, TypeOK', NEW a, NEW n, ChainsGain(a, n)
    PROVE  Homed'
<1>1. current \in LiveLists /\ LiveLists \subseteq Addr
  BY LiveAddr DEF WellLinked, ListsLive
<1>2. Homes'
  <2> SUFFICES ASSUME NEW e \in Finished'
               PROVE  \E l \in LiveLists' : (l < e /\ InChain(l, BucketOf(l, word[e].name), e))'
    BY DEF Homes
  <2>1. CASE e = a
    <3>1. PICK l \in LiveLists : l = current
      BY <1>1
    <3>2. PICK b \in Bucket : b = BucketOf(current, n)
      BY <1>1, BucketType DEF ChainsGain
    <3>3. InChain(l, b, e)' /\ l < e /\ l \in LiveLists'
      BY <2>1, <3>1, <3>2 DEF ChainsGain
    <3>4. BucketOf(l, word[e].name)' = b
      BY <2>1, <3>1, <3>2 DEF BucketOf, ChainsGain
    <3> QED BY <3>3, <3>4 DEF InChain
  <2>2. CASE e # a
    <3>1. e \in Finished /\ word'[e].name = word[e].name
      BY <2>2 DEF ChainsGain
    <3>2. PICK l \in LiveLists : l < e /\ InChain(l, BucketOf(l, word[e].name), e)
      BY <3>1 DEF Homed, Homes
    <3>3. word[e].name \in Names
      <4>1. e \in Addr /\ word[e].name # NoName
        BY <3>1, LiveAddr DEF Finished, EntrySet, Entry
      <4>2. word[e] \in Words
        BY <4>1 DEF TypeOK
      <4> QED BY <4>1, <4>2 DEF Words
    <3>4. PICK b \in Bucket : b = BucketOf(l, word[e].name)
      BY <1>1, <3>3, BucketType
    <3>5. InChain(l, b, e)' /\ l \in LiveLists'
      BY <3>1, <3>2, <3>4 DEF ChainsGain
    <3>6. BucketOf(l, word[e].name)' = b
      BY <3>1, <3>4 DEF BucketOf, ChainsGain
    <3> QED BY <3>2, <3>5, <3>6 DEF InChain
  <2> QED BY <2>1, <2>2
<1>3. Sole'
  <2> SUFFICES ASSUME NEW e \in Finished', NEW l \in LiveLists', NEW m \in LiveLists',
                      NEW b \in Bucket, NEW c \in Bucket,
                      InChain(l, b, e)', InChain(m, c, e)'
               PROVE  l = m /\ b = c
    BY DEF Sole, Bucket
  <2>1. CASE e = a
    BY <2>1 DEF ChainsGain
  <2>2. CASE e # a
    BY <2>2 DEF ChainsGain, Homed, Sole
  <2> QED BY <2>1, <2>2
<1> QED BY <1>2, <1>3 DEF Homed

\* The resident word is in the chain of its hash at first.
LEMMA InitHomed == Init => Homed
<1> SUFFICES ASSUME Init PROVE Homed
  OBVIOUS
<1>1. TypeOK /\ WellLinked
  BY InitIInv DEF IInv
<1>2. LiveLists = {1} /\ LiveWords = {2}
  BY SizeAssumption DEF Init, LiveLists, LiveWords, IsWord, Addr
<1>3. word[2].name = Resident /\ ~word[2].smudged /\ 2 \in Addr /\ 1 \in Addr /\ 2 \in Pointer
  BY SizeAssumption DEF Init, NoWord, Addr, Pointer
<1>4. Finished = {2}
  BY <1>2, <1>3, NamesAssumption DEF Finished, EntrySet, Entry, Null
<1>5. PICK B \in Bucket : B = HashCode[Resident] % MaxBuckets
  BY NamesAssumption, HashAssumption, BucketsAssumption DEF Bucket
<1>6. list[1].size = MaxBuckets /\ \A b \in Bucket : list[1].table[b] = IF b = B THEN 2 ELSE Null
  BY <1>3, <1>5 DEF Init, ForthWordlist
<1>7. \A b \in Bucket : InChain(1, b, 2) <=> b = B
  <2> SUFFICES ASSUME NEW b \in Bucket PROVE InChain(1, b, 2) <=> b = B
    OBVIOUS
  <2>1. PICK Stop : Stop = {Null, 2}
    OBVIOUS
  <2>2. PICK next : next = WordLink
    OBVIOUS
  <2>3. PICK h : h = IF b = B THEN 2 ELSE Null
    OBVIOUS
  <2>4. next \in [Addr -> Pointer] /\ h \in Pointer /\ h \in Stop /\ Null \in Stop
    BY <1>1, <1>3, <2>1, <2>2, <2>3, LinkTypes, SizeAssumption DEF Pointer, Null
  <2>5. Pointer \in SUBSET Pointer
    OBVIOUS
  <2>6. Follow(h, next, Stop) = h
    BY <2>4, <2>5, FollowAt
  <2>7. InChain(1, b, 2) <=> Follow(h, next, Stop) = 2
    BY <1>6, <2>1, <2>2, <2>3 DEF InChain
  <2> QED BY <2>3, <2>6, <2>7 DEF Null
<1>8. BucketOf(1, Resident) = B
  BY <1>5, <1>6 DEF BucketOf
<1> QED BY <1>2, <1>3, <1>4, <1>7, <1>8 DEF Homed, Homes, Sole

(* Words that change no word and no chain. *)
LEMMA MemoryStays ==
    ASSUME IInv, TypeOK', UNCHANGED <<here, kind, word, list>>
    PROVE  ChainsStay
<1>1. LiveLists' = LiveLists /\ LiveWords' = LiveWords
  BY DEF LiveLists, LiveWords, IsWord
<1>2. Finished' = Finished
  BY <1>1 DEF Finished, EntrySet, Entry
<1> QED BY <1>1, <1>2, StaysIf

\* A step that changes no word finishes none.
LEMMA FinishedStays ==
    ASSUME TypeOK, LiveWords' = LiveWords, word' = word
    PROVE  Finished' = Finished
BY DEF Finished, EntrySet, Entry

\* CREATE, its kin and MARKER insert one finished word.
LEMMA CreateGains ==
    ASSUME IInv, TypeOK', NEW n \in Names, Create(n) \/ CreateMarker(n)
    PROVE  ChainsGain(here, n)
<1>1. /\ here \in Addr /\ here \notin LiveWords /\ LiveLists' = LiveLists
      /\ LiveWords' = LiveWords \cup {here}
  BY Appended DEF IInv, Create, CreateMarker, AppendWord, Kinds
<1>2. (\A e : Entry(e) => e < here) /\ (\A l \in LiveLists : l < here) /\ ~Entry(here)
  BY <1>1, BelowHere DEF IInv
<1>3. word' = UnsmudgedWords(here, n) /\ list' = UnsmudgedLists(here, n)
  BY DEF Create, CreateMarker
<1>4. n # NoName
  BY NamesAssumption
<1> QED BY <1>1, <1>2, <1>3, <1>4, GainsIf

\* : and :NONAME link nothing.
LEMMA OpenDefinitionStays ==
    ASSUME IInv, TypeOK', NEW n \in Names \cup {NoName}, OpenDefinition(n)
    PROVE  ChainsStay
<1>1. /\ here \in Addr /\ here \notin LiveWords /\ LiveLists' = LiveLists
      /\ LiveWords' = LiveWords \cup {here}
  BY Appended DEF IInv, OpenDefinition, AppendWord, Kinds
<1>2. /\ word'[here].smudged
      /\ \A c \in Addr : c # here => word'[c] = word[c]
  BY <1>1 DEF IInv, TypeOK, OpenDefinition
<1>3. LiveWords \subseteq Addr
  BY LiveAddr DEF IInv
<1>4. \A e \in Pointer : Entry(e)' <=> Entry(e)
  <2> SUFFICES ASSUME NEW e \in Pointer PROVE Entry(e)' <=> Entry(e)
    OBVIOUS
  <2>1. CASE e = here
    BY <1>1, <1>2, <2>1, SizeAssumption DEF Entry, Addr, Null
  <2>2. CASE e # here
    BY <1>1, <1>2, <1>3, <2>2 DEF Entry
  <2> QED BY <2>1, <2>2
<1>5. Finished' = Finished
  BY <1>4 DEF Finished, EntrySet, Pointer, Null
<1>6. \A e \in Finished : word'[e] = word[e]
  BY <1>1, <1>2, <1>3 DEF Finished, EntrySet, Entry
<1> QED BY <1>1, <1>5, <1>6, StaysIf DEF OpenDefinition

\* ; inserts the word it finishes, if it has a name.
LEMMA SemicolonGains ==
    ASSUME IInv, TypeOK', Semicolon
    PROVE  IF word[smudge].name = NoName THEN ChainsStay
           ELSE ChainsGain(smudge, word[smudge].name)
<1>1. here \in Addr /\ LiveLists' = LiveLists /\ LiveWords' = LiveWords
  BY Appended DEF IInv, Semicolon, AppendCell, Kinds
<1>2. /\ smudge \in LiveWords /\ word[smudge].smudged
      /\ (\A e : Entry(e) => e < smudge)
      /\ (\A l \in LiveLists : l < smudge)
  BY OpenOnTop DEF Semicolon
<1>3. smudge \in Addr /\ smudge # Null /\ word[smudge].name \in Names \cup {NoName}
  <2>1. smudge \in Addr
    BY DEF IInv, TypeOK
  <2>2. word[smudge] \in Words
    BY <2>1 DEF IInv, TypeOK
  <2> QED BY <2>1, <2>2, SizeAssumption DEF Words, Addr, Null
<1>4. ~Entry(smudge)
  BY <1>2, <1>3 DEF Entry
<1>5. PICK n : n = word[smudge].name
  OBVIOUS
<1>6. word' = UnsmudgedWords(smudge, n) /\ list' = UnsmudgedLists(smudge, n)
  BY <1>5 DEF Semicolon
<1>7. n \in Names \cup {NoName}
  BY <1>3, <1>5
<1>8. PICK a \in Addr : a = smudge
  BY <1>3
<1>9. IF n = NoName THEN ChainsStay ELSE ChainsGain(a, n)
  BY <1>1, <1>2, <1>4, <1>6, <1>7, <1>8, GainsIf
<1> QED BY <1>5, <1>8, <1>9

\* A comma, a new wordlist, a new parent and FORGET-WID move no word.
LEMMA ListsStay ==
    ASSUME IInv, TypeOK',
           \/ Comma
           \/ \E k \in 1..MaxBuckets : FiclWordlist(k)
           \/ \E p, c \in LiveLists : SetParentWid(p, c)
           \/ \E l \in LiveLists : ForgetWid(l)
    PROVE  ChainsStay
<1>0. TypeOK /\ WellLinked /\ LiveLists \subseteq Addr /\ word' = word
  BY LiveAddr DEF IInv, Comma, FiclWordlist, SetParentWid, ForgetWid
<1>1. CASE Comma
  <2>1. LiveLists' = LiveLists /\ LiveWords' = LiveWords
    BY <1>0, <1>1, Appended DEF Comma, AppendCell, Kinds
  <2> QED BY <1>0, <1>1, <2>1, FinishedStays, StaysIf DEF Comma
<1>2. CASE \E k \in 1..MaxBuckets : FiclWordlist(k)
  <2>1. PICK k \in 1..MaxBuckets : FiclWordlist(k)
    BY <1>2
  <2>2. /\ here \in Addr /\ here \notin LiveLists
        /\ LiveLists' = LiveLists \cup {here} /\ LiveWords' = LiveWords
    BY <1>0, <2>1, Appended DEF FiclWordlist, Kinds
  <2>3. list' = [list EXCEPT ![here] = [NoWordlist EXCEPT !.size = k]]
    BY <2>1 DEF FiclWordlist
  <2>4. \A l \in Addr : l # here => list'[l] = list[l]
    BY <1>0, <2>3 DEF TypeOK
  <2>5. \A b \in Bucket : list'[here].table[b] = Null
    BY <1>0, <2>2, <2>3 DEF TypeOK, NoWordlist
  <2>6. \A l \in LiveLists : list'[l] = list[l]
    BY <1>0, <2>2, <2>4
  <2>7. Finished' = Finished
    BY <1>0, <2>2, FinishedStays
  <2>8. \A l \in LiveLists' \ LiveLists : \A b \in Bucket : list'[l].table[b] = Null
    BY <2>2, <2>5
  <2>9. LiveLists \subseteq LiveLists'
    BY <2>2
  <2> QED BY <1>0, <2>6, <2>7, <2>8, <2>9, StaysIf
<1>3. CASE \E p, c \in LiveLists : SetParentWid(p, c)
  <2>1. PICK p \in LiveLists, c \in LiveLists : SetParentWid(p, c)
    BY <1>3
  <2>2. list' = [list EXCEPT ![c] = [list[c] EXCEPT !.link = p]]
    BY <1>0, <2>1 DEF SetParentWid, TypeOK
  <2>3. \A l \in LiveLists : list[l] \in Wordlists
    BY <1>0 DEF TypeOK
  <2>4. \A l \in LiveLists : list'[l].size = list[l].size /\ list'[l].table = list[l].table
    BY <1>0, <2>2, <2>3 DEF TypeOK, Wordlists
  <2>5. LiveLists' = LiveLists /\ LiveWords' = LiveWords
    BY <2>1 DEF SetParentWid, LiveLists, LiveWords, IsWord
  <2> QED BY <1>0, <2>4, <2>5, FinishedStays, StaysIf
<1>4. CASE \E l \in LiveLists : ForgetWid(l)
  <2>1. PICK w \in LiveLists : ForgetWid(w)
    BY <1>4
  <2>2. list' = Forgotten({w}, here) /\ UNCHANGED <<here, kind>>
    BY <2>1 DEF ForgetWid
  <2>3. LiveLists' = LiveLists /\ LiveWords' = LiveWords
    BY <1>0, <2>2 DEF LiveLists, LiveWords, IsWord
  <2>4. ASSUME NEW l \in LiveLists, NEW b \in Bucket
        PROVE  Follow(list[l].table[b], WordLink, 0..(here - 1)) = list[l].table[b]
    <3>1. PICK h : h = list[l].table[b]
      OBVIOUS
    <3>2. h \in EntrySet /\ h \in Pointer
      BY <1>0, <3>1, HeadIsEntry DEF EntrySet
    <3>3. PICK Stop : Stop = 0..(here - 1)
      OBVIOUS
    <3>4. h \in Stop /\ Null \in Stop
      BY <1>0, <3>2, <3>3, BelowHere, SizeAssumption DEF EntrySet, Null, Pointer
    <3>5. PICK next : next = WordLink
      OBVIOUS
    <3>6. next \in [Addr -> Pointer] /\ Pointer \in SUBSET Pointer
      BY <1>0, <3>5, LinkTypes
    <3>7. Follow(h, next, Stop) = h
      BY <3>2, <3>4, <3>6, FollowAt
    <3> QED BY <3>1, <3>3, <3>5, <3>7
  <2>5. \A l \in LiveLists : list'[l].size = list[l].size /\ list'[l].table = list[l].table
    <3> SUFFICES ASSUME NEW l \in LiveLists
                 PROVE  list'[l].size = list[l].size /\ list'[l].table = list[l].table
      OBVIOUS
    <3>1. list[l] \in Wordlists /\ l \in Addr
      BY <1>0 DEF TypeOK
    <3>2. CASE l # w
      BY <2>2, <3>1, <3>2 DEF Forgotten
    <3>3. CASE l = w
      <4>1. [b \in Bucket |-> Follow(list[l].table[b], WordLink, 0..(here - 1))] = list[l].table
        <5>1. list[l].table \in [Bucket -> Pointer]
          BY <3>1 DEF Wordlists
        <5> QED BY <2>4, <5>1
      <4>2. list'[l] = [list[l] EXCEPT !.table = list[l].table]
        BY <2>2, <3>1, <3>3, <4>1 DEF Forgotten
      <4> QED BY <3>1, <4>2 DEF Wordlists
    <3> QED BY <3>2, <3>3
  <2> QED BY <1>0, <2>3, <2>5, FinishedStays, StaysIf
<1> QED BY <1>1, <1>2, <1>3, <1>4

\* Pruning the wordlists that own what is freed cuts every chain down to the words
\* below it.
LEMMA PrunedLoses ==
    ASSUME IInv, TypeOK', NEW where \in LiveWords, NEW cur, NEW o,
           NEW L \in SUBSET LiveLists, OwnersPruned(where, cur, o, L),
           FreeFrom(where, Forgotten(L, where))
    PROVE  ChainsLose(where) /\ \A l \in LiveLists' : list'[l].link = list[l].link
<1>1. TypeOK /\ WellLinked /\ LiveLists \subseteq Addr
  BY LiveAddr DEF IInv
<1>2. where \in Nat /\ 0 < where /\ where <= here
  BY <1>1, BelowHere DEF LiveWords
<1>3. PICK lists : lists = Forgotten(L, where)
  OBVIOUS
<1>4. ASSUME NEW l \in LiveLists, l < where
      PROVE  /\ lists[l].size = list[l].size
             /\ \A b \in Bucket :
                   lists[l].table[b] = Follow(list[l].table[b], WordLink, 0..(where - 1))
  <2>1. l \in Addr /\ list[l] \in Wordlists
    BY <1>1 DEF TypeOK
  <2>2. CASE l \in L
    <3>1. lists[l] = [list[l] EXCEPT !.table =
                [b \in Bucket |-> Follow(list[l].table[b], WordLink, 0..(where - 1))]]
      BY <1>3, <2>1, <2>2 DEF Forgotten
    <3>2. /\ lists[l].size = list[l].size
          /\ lists[l].table =
                [b \in Bucket |-> Follow(list[l].table[b], WordLink, 0..(where - 1))]
      BY <2>1, <3>1 DEF Wordlists
    <3> QED BY <3>2
  <2>3. CASE l \notin L
    <3>1. lists[l] = list[l]
      BY <1>3, <2>1, <2>3 DEF Forgotten
    <3>2. ASSUME NEW b \in Bucket
          PROVE  list[l].table[b] = Follow(list[l].table[b], WordLink, 0..(where - 1))
      <4>1. PICK h : h = list[l].table[b]
        OBVIOUS
      <4>2. h \in EntrySet /\ h \in Pointer /\ h < where
        BY <1>1, <1>4, <2>3, <4>1, HeadIsEntry DEF EntrySet, OwnersPruned
      <4>3. PICK Stop : Stop = 0..(where - 1)
        OBVIOUS
      <4>4. h \in Stop /\ Null \in Stop
        BY <1>2, <4>2, <4>3, SizeAssumption DEF Null, Pointer
      <4>5. PICK next : next = WordLink
        OBVIOUS
      <4>6. next \in [Addr -> Pointer] /\ Pointer \in SUBSET Pointer
        BY <1>1, <4>5, LinkTypes
      <4>7. Follow(h, next, Stop) = h
        BY <4>2, <4>4, <4>6, FollowAt
      <4> QED BY <4>1, <4>3, <4>5, <4>7
    <3> QED BY <3>1, <3>2
  <2> QED BY <2>2, <2>3
<1>5. FreeFrom(where, lists)
  BY <1>3
<1>6. where \in Nat
  BY <1>2
<1>7. ChainsLose(where)
  BY <1>2, <1>4, <1>5, <1>6, LosesIf
<1>8. \A l \in LiveLists' : l \in Addr /\ l < where
  BY <1>1, <1>7 DEF ChainsLose
<1>9. \A l \in Addr : lists[l].link = list[l].link
  BY <1>1, <1>2, <1>3, ForgottenSound
<1>10. \A l \in Addr : l < where => list'[l] = lists[l]
  BY <1>5 DEF FreeFrom, Below
<1> QED BY <1>7, <1>8, <1>9, <1>10

\* FORGET and markers forget everything from some word on.
LEMMA ForgetLoses ==
    ASSUME IInv, TypeOK', Careful,
           (\E n \in Names : Forget(n)) \/ (\E n \in Markers : RunMarker(n))
    PROVE  \E where \in LiveWords :
              ChainsLose(where) /\ \A l \in LiveLists' : list'[l].link = list[l].link
<1>1. TypeOK /\ WellLinked
  BY DEF IInv
<1>2. CASE \E n \in Names : Forget(n)
  <2>1. PICK n \in Names : Forget(n)
    BY <1>2
  <2>2. PICK where : where = Lookup(n)
    OBVIOUS
  <2>3. where \in LiveWords
    BY <1>1, <2>1, <2>2, LookupIsSound DEF Forget, EntrySet, Entry
  <2>4. /\ OwnersPruned(where, current, order, {current})
        /\ FreeFrom(where, Forgotten({current}, where))
    BY <2>1, <2>2 DEF Forget, Careful, Keeps, AllObligations
  <2>5. {current} \in SUBSET LiveLists
    BY <1>1 DEF WellLinked, ListsLive
  <2> QED BY <2>3, <2>4, <2>5, PrunedLoses
<1>3. CASE \E n \in Markers : RunMarker(n)
  <2>1. PICK n \in Markers : RunMarker(n)
    BY <1>3
  <2>2. PICK where, cur, o, pruned :
            /\ where = Lookup(n) /\ cur = saved[where].current /\ o = saved[where].order
            /\ pruned = {cur} \cup OrderSet(o)
    OBVIOUS
  <2>3. where \in LiveWords /\ kind[where] = "marker"
    BY <1>1, <2>1, <2>2, LookupIsSound, MarkersAssumption DEF RunMarker, EntrySet, Entry
  <2>4. OwnersPruned(where, cur, o, pruned) /\ FreeFrom(where, Forgotten(pruned, where))
    BY <2>1, <2>2 DEF RunMarker, Careful, Keeps, AllObligations
  <2>5. pruned \in SUBSET LiveLists
    BY <2>2, <2>3 DEF IInv, MarkersSave, OrderSet
  <2> QED BY <2>3, <2>4, <2>5, PrunedLoses
<1> QED BY <1>2, <1>3

\* The open definition that an exit frees was in no chain.
LEMMA ExitStays ==
    ASSUME IInv, TypeOK', ErrorExit \/ QuitExit
    PROVE  ChainsStay /\ \A l \in LiveLists : list'[l].link = list[l].link
<1>1. TypeOK /\ WellLinked
  BY DEF IInv
<1>2. CASE state = "compile"
  <2>1. /\ smudge \in LiveWords /\ kind[smudge] = "word" /\ word[smudge].smudged
        /\ 1 < smudge /\ smudge < here
        /\ \A e : Entry(e) => e < smudge
    BY <1>2, OpenOnTop
  <2>2. PICK where \in LiveWords : where = smudge
    BY <2>1
  <2>3. FreeFrom(where, list)
    BY <1>2, <2>1, <2>2 DEF ErrorExit, QuitExit, AbortIfCompiling, AbortDefinition, IsWord
  <2>4. where \in Nat /\ 0 < where /\ where <= here
    BY <1>1, BelowHere DEF LiveWords
  <2>5. ASSUME NEW l \in LiveLists, NEW b \in Bucket
        PROVE  list[l].table[b] = Follow(list[l].table[b], WordLink, 0..(where - 1))
    <3>1. PICK h : h = list[l].table[b]
      OBVIOUS
    <3>2. h \in EntrySet /\ h \in Pointer /\ h < where
      BY <1>1, <2>1, <2>2, <3>1, HeadIsEntry DEF EntrySet
    <3>3. PICK Stop : Stop = 0..(where - 1)
      OBVIOUS
    <3>4. h \in Stop /\ Null \in Stop
      BY <2>4, <3>2, <3>3, SizeAssumption DEF Null, Pointer
    <3>5. PICK next : next = WordLink
      OBVIOUS
    <3>6. next \in [Addr -> Pointer] /\ Pointer \in SUBSET Pointer
      BY <1>1, <3>5, LinkTypes
    <3>7. Follow(h, next, Stop) = h
      BY <3>2, <3>4, <3>6, FollowAt
    <3> QED BY <3>1, <3>3, <3>5, <3>7
  <2>6. ChainsLose(where)
    BY <2>3, <2>4, <2>5, LosesIf
  <2>7. \A e \in Finished : e < where
    BY <2>1, <2>2 DEF Finished, EntrySet
  <2>8. \A l \in LiveLists : l < where
    BY <1>2, <2>2, OpenOnTop
  <2>9. \A l \in LiveLists : list'[l] = list[l]
    BY <1>1, <2>3, <2>8, LiveAddr DEF FreeFrom, Below
  <2> QED BY <2>6, <2>7, <2>8, <2>9 DEF ChainsLose, ChainsStay
<1>3. CASE state # "compile"
  BY <1>3, MemoryStays DEF ErrorExit, QuitExit, AbortIfCompiling
<1> QED BY <1>2, <1>3

\* Every step keeps the chains, inserts one word, or forgets from some word on.
LEMMA NextChains ==
    ASSUME IInv, TypeOK', Careful, [Next]_vars
    PROVE  \/ ChainsStay
           \/ \E a, n : ChainsGain(a, n)
           \/ \E where \in LiveWords : ChainsLose(where)
<1>1. CASE \E n \in Names : Create(n) \/ Colon(n) \/ Forget(n)
  BY <1>1, CreateGains, OpenDefinitionStays, ForgetLoses DEF Colon
<1>2. CASE \E n \in Markers : CreateMarker(n) \/ RunMarker(n)
  BY <1>2, CreateGains, ForgetLoses, MarkersAssumption
<1>3. CASE ColonNoName
  BY <1>3, OpenDefinitionStays DEF ColonNoName
<1>4. CASE Semicolon
  BY <1>4, SemicolonGains
<1>5. CASE \/ Comma
           \/ \E k \in 1..MaxBuckets : FiclWordlist(k)
           \/ \E p, c \in LiveLists : SetParentWid(p, c)
           \/ \E l \in LiveLists : ForgetWid(l)
  BY <1>5, ListsStay
<1>6. CASE \/ LeftBracket \/ RightBracket \/ DropColonSys
           \/ \E l \in LiveLists : SetCurrent(l) \/ SearchPush(l)
           \/ \E ls \in Orders : SetOrder(ls)
           \/ Definitions \/ Only \/ SearchPop \/ UNCHANGED vars
  <2>1. UNCHANGED <<here, kind, word, list>>
    BY <1>6 DEF LeftBracket, RightBracket, DropColonSys, SetCurrent, SearchPush, SetOrder,
                Definitions, Only, SearchPop, vars
  <2> QED BY <2>1, MemoryStays
<1>7. CASE ErrorExit \/ QuitExit
  BY <1>7, ExitStays
<1> QED BY <1>1, <1>2, <1>3, <1>4, <1>5, <1>6, <1>7 DEF Next

\* Every step leaves every finished word one home.
LEMMA NextHomed ==
    ASSUME IInv, Homed, TypeOK', Careful, [Next]_vars
    PROVE  Homed'
<1>1. TypeOK /\ WellLinked /\ LiveWords \subseteq Nat
  BY LiveAddr, BelowHere DEF IInv
<1> QED BY <1>1, NextChains, StayHomed, GainHomed, LoseHomed

-----------------------------------------------------------------------------
(* The theorems *)

(* In every behaviour of a program that keeps the obligations the inductive *)
(* invariant holds: the dictionary stays well linked, an error has one      *)
(* definition to abort, and aborting it frees nothing that is in use.       *)
THEOREM Invariance ==
    ASSUME Careful
    PROVE  Spec => []IInv
<1>1. Init => IInv
  BY InitIInv
<1>2. IInv /\ [Next]_vars => IInv'
  BY NextIInv
<1> QED BY <1>1, <1>2, PTL DEF Spec

(* Every variable keeps its type. *)
THEOREM TypeCorrect ==
    ASSUME Careful
    PROVE  Spec => []TypeOK
<1>1. IInv => TypeOK
  BY DEF IInv
<1> QED BY <1>1, Invariance, PTL

(* No pointer that a lookup, FORGET or an insertion follows leads into      *)
(* freed memory, upwards, or to an unfinished word, whatever the program    *)
(* defines, forgets, aborts or puts into the search order.                  *)
THEOREM AlwaysWellLinked ==
    ASSUME Careful
    PROVE  Spec => []WellLinked
<1>1. IInv => WellLinked
  BY DEF IInv
<1> QED BY <1>1, Invariance, PTL

(* Every finished word stays in the one chain where a lookup, FORGET and    *)
(* FORGET-WID expect it, and wordlists are never spliced together.          *)
THEOREM AlwaysOneHome ==
    ASSUME Careful
    PROVE  Spec => []OneHome
<1>1. Init => Homed
  BY InitHomed
<1>2. IInv /\ IInv' /\ Homed /\ [Next]_vars => Homed'
  BY NextHomed DEF IInv
<1>3. IInv /\ Homed => OneHome
  <2> SUFFICES ASSUME IInv, Homed, NEW a \in LiveWords,
                      word[a].name # NoName, ~word[a].smudged
               PROVE  \E l \in LiveLists :
                        /\ InChain(l, BucketOf(l, word[a].name), a)
                        /\ \A m \in LiveLists, b \in Bucket :
                              InChain(m, b, a) => m = l /\ b = BucketOf(l, word[a].name)
    BY DEF OneHome
  <2>1. a \in Finished /\ a \in Addr /\ LiveLists \subseteq Addr
    BY LiveAddr, SizeAssumption DEF IInv, Finished, EntrySet, Entry, Addr, Pointer, Null
  <2>2. PICK l \in LiveLists : InChain(l, BucketOf(l, word[a].name), a)
    BY <2>1 DEF Homed, Homes
  <2>3. word[a] \in Words
    BY <2>1 DEF IInv, TypeOK
  <2>4. BucketOf(l, word[a].name) \in Bucket
    BY <2>1, <2>3, BucketType DEF IInv, Words
  <2> QED BY <2>1, <2>2, <2>4 DEF Homed, Sole
<1> QED BY <1>1, <1>2, <1>3, Invariance, PTL DEF Spec

(* ficlDictionaryLookup always ends, at NULL or at a finished word in live  *)
(* memory that has the name it was asked for.                               *)
THEOREM AlwaysLookupSound ==
    ASSUME Careful
    PROVE  Spec => []LookupSound
<1>1. IInv => LookupSound
  BY LookupIsSound DEF IInv, LookupSound, EntrySet, Entry
<1> QED BY <1>1, Invariance, PTL

(* An error or a QUIT frees the definition it ends, and no word or wordlist *)
(* that was finished before it.                                             *)
THEOREM AlwaysExitsKeepFinished ==
    ASSUME Careful
    PROVE  Spec => ExitsKeepFinished
<1>1. IInv /\ [Next]_vars =>
        [ErrorExit \/ QuitExit =>
            /\ LiveLists' = LiveLists
            /\ \A a \in Pointer : Entry(a) => Entry(a)']_vars
  BY AbortedIInv DEF ErrorExit, QuitExit
<1> QED BY <1>1, Invariance, PTL DEF Spec, ExitsKeepFinished

(* In compile state there is an open definition, so the error exits abort   *)
(* that one and no other.                                                   *)
THEOREM AlwaysCompilingIsOpen ==
    ASSUME Careful
    PROVE  Spec => []CompilingIsOpen
<1>1. IInv => CompilingIsOpen
  BY DEF IInv
<1> QED BY <1>1, Invariance, PTL

-----------------------------------------------------------------------------
(* The length of the search orders *)

(* No search order, in use or saved, is longer than FICL_MAX_WORDLISTS. *)
OrdersFit ==
    /\ Len(order) <= MaxWordlists
    /\ \A a \in LiveWords : kind[a] = "marker" => Len(saved[a].order) <= MaxWordlists

\* At first the order holds one wordlist.
LEMMA InitFits == Init => OrdersFit
<1> SUFFICES ASSUME Init PROVE OrdersFit
  OBVIOUS
<1>1. Len(order) = 1
  BY DEF Init
<1>2. \A a \in LiveWords : kind[a] # "marker"
  <2>1. \A a \in Addr : kind[a] # "marker"
    BY DEF Init
  <2> QED BY <2>1, LiveAddr, InitIInv DEF IInv
<1> QED BY <1>1, <1>2, WordlistsAssumption DEF OrdersFit

\* A marker saves the search order in use, which fits.
LEMMA AppendFits ==
    ASSUME IInv, OrdersFit, NEW k \in Kinds, RoomFor(1),
           here' = here + 1, kind' = [kind EXCEPT ![here] = k], order' = order,
           saved' = IF k = "marker"
                    THEN [saved EXCEPT ![here] = [current |-> current, order |-> order]]
                    ELSE saved
    PROVE  OrdersFit'
<1>1. TypeOK
  BY DEF IInv
<1>2. /\ here \in Addr /\ here \notin LiveWords /\ LiveWords \subseteq Addr
      /\ LiveWords' = LiveWords \cup {a \in {here} : k \in {"word", "marker"}}
  BY <1>1, Appended, LiveAddr
<1>3. kind'[here] = k /\ \A a \in LiveWords : kind'[a] = kind[a] /\ saved'[a] = saved[a]
  BY <1>1, <1>2 DEF TypeOK
<1>4. k = "marker" => saved'[here].order = order
  BY <1>1, <1>2 DEF TypeOK
<1> SUFFICES ASSUME NEW a \in LiveWords', kind'[a] = "marker"
             PROVE  Len(saved'[a].order) <= MaxWordlists
  BY DEF OrdersFit
<1> QED BY <1>2, <1>3, <1>4 DEF OrdersFit

\* Freeing memory makes no marker.
LEMMA FreeFits ==
    ASSUME IInv, OrdersFit, NEW where \in LiveWords, NEW lists, FreeFrom(where, lists),
           Len(order') <= MaxWordlists
    PROVE  OrdersFit'
<1>1. TypeOK
  BY DEF IInv
<1>2. /\ where \in Nat /\ where < here /\ LiveWords \subseteq Addr /\ Addr \subseteq Nat
      /\ 1..(where - 1) \subseteq 1..(here - 1) /\ 1..(here - 1) \subseteq Addr
  BY <1>1, BelowHere, LiveAddr, SizeAssumption DEF LiveWords, TypeOK, Addr
<1>3. \A a \in Addr : a < where => kind'[a] = kind[a] /\ saved'[a] = saved[a]
  BY DEF FreeFrom, Below
<1>4. here' = where
  BY DEF FreeFrom
<1>5. LiveWords' = {a \in LiveWords : a < where}
  BY <1>2, <1>3, <1>4 DEF LiveWords, IsWord
<1> SUFFICES ASSUME NEW a \in LiveWords', kind'[a] = "marker"
             PROVE  Len(saved'[a].order) <= MaxWordlists
  BY DEF OrdersFit
<1> QED BY <1>2, <1>3, <1>5 DEF OrdersFit

\* Every step keeps the search orders short enough.
LEMMA NextFits ==
    ASSUME IInv, OrdersFit, Careful, [Next]_vars
    PROVE  OrdersFit'
<1>1. TypeOK /\ WellLinked /\ MaxWordlists \in Nat \ {0}
  BY WordlistsAssumption DEF IInv
<1>2. ASSUME UNCHANGED <<here, kind, saved>>, Len(order') <= MaxWordlists
      PROVE  OrdersFit'
  BY <1>2 DEF OrdersFit, LiveWords, IsWord
<1>3. CASE \/ \E n \in Names : Create(n) \/ Colon(n)
           \/ \E n \in Markers : CreateMarker(n)
           \/ ColonNoName \/ Comma \/ Semicolon
           \/ \E k \in 1..MaxBuckets : FiclWordlist(k)
  <2>1. PICK k \in Kinds :
            /\ RoomFor(1) /\ here' = here + 1 /\ kind' = [kind EXCEPT ![here] = k]
            /\ order' = order
            /\ saved' = IF k = "marker"
                        THEN [saved EXCEPT ![here] = [current |-> current, order |-> order]]
                        ELSE saved
    BY <1>3 DEF Create, Colon, CreateMarker, ColonNoName, OpenDefinition, Comma, Semicolon,
                FiclWordlist, AppendWord, AppendCell, Kinds
  <2> QED BY <2>1, AppendFits
<1>4. CASE \E n \in Names : Forget(n)
  <2>1. PICK n \in Names : Forget(n)
    BY <1>4
  <2>2. PICK where \in LiveWords : where = Lookup(n)
    BY <1>1, <2>1, LookupIsSound DEF Forget, EntrySet, Entry
  <2> QED BY <2>1, <2>2, FreeFits DEF Forget, OrdersFit
<1>5. CASE \E n \in Markers : RunMarker(n)
  <2>1. PICK n \in Markers : RunMarker(n)
    BY <1>5
  <2>2. PICK where \in LiveWords : where = Lookup(n)
    BY <1>1, <2>1, LookupIsSound, MarkersAssumption DEF RunMarker, EntrySet, Entry
  <2>3. Len(order') <= MaxWordlists
    BY <2>1, <2>2 DEF RunMarker, OrdersFit
  <2>4. PICK lists : FreeFrom(where, lists)
    BY <2>1, <2>2 DEF RunMarker
  <2> QED BY <2>3, <2>4, FreeFits
<1>6. CASE ErrorExit \/ QuitExit
  <2>1. Len(order') <= MaxWordlists
    <3>1. Len(<<ForthWordlist>>) = 1
      OBVIOUS
    <3>2. order' = <<ForthWordlist>> \/ order' = order
      BY <1>6 DEF ErrorExit, QuitExit, ResetSearchOrder
    <3> QED BY <1>1, <3>1, <3>2 DEF OrdersFit
  <2>2. CASE state = "compile"
    <3>1. PICK where \in LiveWords : where = smudge /\ IsWord(smudge) /\ word[smudge].smudged
      BY <2>2, OpenOnTop DEF IsWord
    <3>2. FreeFrom(where, list)
      BY <1>6, <2>2, <3>1 DEF ErrorExit, QuitExit, AbortIfCompiling, AbortDefinition
    <3> QED BY <2>1, <3>2, FreeFits
  <2>3. CASE state # "compile"
    BY <1>2, <1>6, <2>1, <2>3 DEF ErrorExit, QuitExit, AbortIfCompiling
  <2> QED BY <2>2, <2>3
<1>7. CASE \/ LeftBracket \/ RightBracket \/ DropColonSys \/ Definitions \/ UNCHANGED vars
           \/ \E l \in LiveLists : SetCurrent(l) \/ ForgetWid(l)
           \/ \E p, c \in LiveLists : SetParentWid(p, c)
  <2>1. UNCHANGED <<here, kind, saved>> /\ order' = order
    BY <1>7 DEF LeftBracket, RightBracket, DropColonSys, Definitions, vars, SetCurrent, ForgetWid,
                SetParentWid
  <2> QED BY <1>2, <2>1 DEF OrdersFit
<1>8. CASE \/ \E l \in LiveLists : SearchPush(l)
           \/ \E ls \in Orders : SetOrder(ls)
           \/ Only \/ SearchPop
  <2>1. UNCHANGED <<here, kind, saved>>
    BY <1>8 DEF SearchPush, SetOrder, Only, SearchPop
  <2>2. order \in Seq(Pointer)
    BY <1>1 DEF TypeOK
  <2>3. CASE \E l \in LiveLists : SearchPush(l)
    <3>1. PICK l : order' = Append(order, l) /\ Len(order) < MaxWordlists
      BY <2>3 DEF SearchPush, Careful, Keeps, AllObligations
    <3>2. Len(order') = Len(order) + 1
      BY <2>2, <3>1
    <3>3. Len(order) \in Nat
      BY <2>2
    <3>4. Len(order') <= MaxWordlists
      BY <1>1, <3>1, <3>2, <3>3
    <3> QED BY <1>2, <2>1, <3>4
  <2>4. CASE \E ls \in Orders : SetOrder(ls)
    BY <1>2, <2>1, <2>4 DEF SetOrder
  <2>5. CASE Only
    <3>1. Len(<<ForthWordlist>>) = 1
      OBVIOUS
    <3> QED BY <1>1, <1>2, <2>1, <2>5, <3>1 DEF Only, ResetSearchOrder
  <2>6. CASE SearchPop
    <3>1. order # << >> /\ order' = SubSeq(order, 1, Len(order) - 1)
      BY <2>6 DEF SearchPop
    <3>2. PICK k \in Nat : k = Len(order) /\ k # 0
      BY <2>2, <3>1
    <3>3. Len(order') = k - 1
      <4>1. order' = SubSeq(order, 1, k - 1) /\ k - 1 \in Nat
        BY <3>1, <3>2
      <4> QED BY <2>2, <3>2, <4>1, SubSeqProperties
    <3>4. Len(order') <= MaxWordlists
      BY <1>1, <3>2, <3>3 DEF OrdersFit
    <3> QED BY <1>2, <2>1, <3>4
  <2> QED BY <1>8, <2>3, <2>4, <2>5, <2>6
<1> QED BY <1>3, <1>4, <1>5, <1>6, <1>7, <1>8 DEF Next

-----------------------------------------------------------------------------
(* What the wordlists hold *)

Found(l) == {e \in Finished : \E b \in Bucket : InChain(l, b, e)}

(* The words of a wordlist are finished. *)
LEMMA InChainIsEntry ==
    ASSUME TypeOK, WellLinked, NEW l \in LiveLists, NEW b \in Bucket, NEW e, InChain(l, b, e)
    PROVE  e \in EntrySet
<1>1. Null \in {Null, e}
  OBVIOUS
<1>2. Follow(list[l].table[b], WordLink, {Null, e}) \in EntrySet
  BY <1>1, HeadIsEntry, ChainWalk
<1> QED BY <1>2 DEF InChain

\* The words a walk of some chain comes to are the finished words of that chain.
LEMMA EntriesFinished == TypeOK /\ WellLinked => \A l \in LiveLists : Entries(l) = Found(l)
<1> SUFFICES ASSUME TypeOK, WellLinked, NEW l \in LiveLists PROVE Entries(l) = Found(l)
  OBVIOUS
<1>1. \A e \in LiveWords : e # Null /\ e \in Pointer
  BY LiveAddr, SizeAssumption DEF Addr, Null, Pointer
<1>2. \A e \in Finished : e \in LiveWords
  BY DEF Finished, EntrySet, Entry
<1>3. \A e : (\E b \in Bucket : InChain(l, b, e)) => e \in EntrySet
  BY InChainIsEntry
<1> QED BY <1>1, <1>2, <1>3 DEF Entries, Found, Finished

\* The same of the next state.
LEMMA EntriesFinishedNext ==
    (TypeOK /\ WellLinked => \A l \in LiveLists : Entries(l) = Found(l))'
<1>1. TypeOK /\ WellLinked => \A l \in LiveLists : Entries(l) = Found(l)
  BY EntriesFinished
<1> QED BY <1>1, PTL

(* What a step does to the chains, it does to what wordlists hold. *)
LEMMA StayContents ==
    ASSUME TypeOK, WellLinked, TypeOK', WellLinked', ChainsStay
    PROVE  \A l \in LiveLists' : Contents'[l] = IF l \in LiveLists THEN Contents[l] ELSE {}
<1> SUFFICES ASSUME NEW l \in LiveLists'
             PROVE  Contents'[l] = IF l \in LiveLists THEN Contents[l] ELSE {}
  OBVIOUS
<1>1. Entries(l)' = Found(l)' /\ (l \in LiveLists => Entries(l) = Found(l))
  BY EntriesFinished, EntriesFinishedNext
<1>2. \A e : e \in Found(l)' <=> l \in LiveLists /\ e \in Found(l)
  BY DEF Found, ChainsStay, Bucket
<1>3. \A e \in Found(l) : word'[e].name = word[e].name
  BY DEF Found, ChainsStay
<1>4. Contents'[l] = {<<word'[a].name, a>> : a \in Entries(l)'}
  BY DEF Contents
<1>5. l \in LiveLists => Contents[l] = {<<word[a].name, a>> : a \in Entries(l)}
  BY DEF Contents
<1> QED BY <1>1, <1>2, <1>3, <1>4, <1>5

\* An inserted word is one more in the compilation wordlist.
LEMMA GainContents ==
    ASSUME TypeOK, WellLinked, TypeOK', WellLinked', NEW a, NEW n, ChainsGain(a, n)
    PROVE  /\ LiveLists' = LiveLists /\ current \in LiveLists
           /\ \A l \in LiveLists :
                Contents'[l] = IF l = current THEN Contents[l] \cup {<<n, a>>} ELSE Contents[l]
<1>0. LiveLists' = LiveLists /\ current \in LiveLists
  BY DEF ChainsGain, WellLinked, ListsLive
<1> SUFFICES ASSUME NEW l \in LiveLists
             PROVE  Contents'[l] = IF l = current THEN Contents[l] \cup {<<n, a>>} ELSE Contents[l]
  BY <1>0
<1>1. Entries(l)' = Found(l)' /\ Entries(l) = Found(l)
  BY <1>0, EntriesFinished, EntriesFinishedNext
<1>2. PICK b \in Bucket : b = BucketOf(current, n)
  BY <1>0, LiveAddr, BucketType DEF ChainsGain
<1>3. a \notin Finished
  BY SizeAssumption DEF ChainsGain, Addr
<1>4. \A e : e \in Found(l)' <=> e \in Found(l) \/ (e = a /\ l = current)
  BY <1>2, <1>3 DEF Found, ChainsGain, Bucket
<1>5. /\ \A e \in Found(l) : word'[e].name = word[e].name
      /\ word'[a].name = n
  BY DEF Found, ChainsGain
<1>6. Contents'[l] = {<<word'[e].name, e>> : e \in Entries(l)'}
  BY <1>0 DEF Contents
<1>7. Contents[l] = {<<word[e].name, e>> : e \in Entries(l)}
  BY DEF Contents
<1> QED BY <1>1, <1>4, <1>5, <1>6, <1>7

\* What is forgotten is what is not older.
LEMMA LoseContents ==
    ASSUME TypeOK, WellLinked, TypeOK', WellLinked', NEW where, ChainsLose(where)
    PROVE  \A l \in LiveLists' : l \in LiveLists /\ Contents'[l] = {d \in Contents[l] : d[2] < where}
<1> SUFFICES ASSUME NEW l \in LiveLists'
             PROVE  l \in LiveLists /\ Contents'[l] = {d \in Contents[l] : d[2] < where}
  OBVIOUS
<1>0. l \in LiveLists
  BY DEF ChainsLose
<1>1. Entries(l)' = Found(l)' /\ Entries(l) = Found(l)
  BY <1>0, EntriesFinished, EntriesFinishedNext
<1>2. \A e : e \in Found(l)' <=> e \in Found(l) /\ e < where
  BY DEF Found, ChainsLose, Bucket
<1>3. \A e \in Found(l)' : word'[e].name = word[e].name
  BY DEF Found, ChainsLose
<1>4. Contents'[l] = {<<word'[e].name, e>> : e \in Entries(l)'}
  BY DEF Contents
<1>5. Contents[l] = {<<word[e].name, e>> : e \in Entries(l)}
  BY <1>0 DEF Contents
<1>6. \A d : d \in Contents'[l] <=> \E e \in Found(l) : e < where /\ d = <<word[e].name, e>>
  BY <1>1, <1>2, <1>3, <1>4
<1>7. \A d : d \in Contents[l] <=> \E e \in Found(l) : d = <<word[e].name, e>>
  BY <1>1, <1>5
<1>8. \A d : d \in Contents'[l] <=> d \in Contents[l] /\ d[2] < where
  BY <1>6, <1>7
<1> QED BY <1>0, <1>8

RefInv == IInv /\ Homed /\ OrdersFit /\ contents = Contents

\* The initial states are initial states of the promise.
LEMMA RefinesAtFirst == InitR => Promise!Init /\ RefInv
<1> SUFFICES ASSUME InitR PROVE Promise!Init /\ RefInv
  OBVIOUS
<1>1. IInv /\ Homed /\ OrdersFit /\ contents = Contents
  BY InitIInv, InitHomed, InitFits DEF InitR
<1>2. LiveLists = {1} /\ LiveWords = {2}
  BY SizeAssumption DEF InitR, Init, LiveLists, LiveWords, IsWord, Addr
<1>3. word[2].name = Resident /\ ~word[2].smudged /\ list[1].link = Null
  <2>1. 1 \in Addr /\ 2 \in Addr
    BY SizeAssumption DEF Addr
  <2>2. word[2] = [NoWord EXCEPT !.name = Resident]
    BY <2>1 DEF InitR, Init
  <2>3. word[2].name = Resident /\ ~word[2].smudged
    BY <2>2 DEF NoWord
  <2>4. list[1].link = Null
    BY <2>1 DEF InitR, Init, ForthWordlist
  <2> QED BY <2>3, <2>4
<1>4. Finished = {2}
  BY <1>2, <1>3, NamesAssumption, SizeAssumption DEF Finished, EntrySet, Entry, Null, Pointer
<1>5. \E b \in Bucket : InChain(1, b, 2)
  <2>1. PICK l \in LiveLists : InChain(l, BucketOf(l, word[2].name), 2)
    BY <1>1, <1>4 DEF Homed, Homes
  <2>2. BucketOf(l, word[2].name) \in Bucket
    BY <1>1, <1>3, LiveAddr, BucketType, NamesAssumption DEF IInv
  <2> QED BY <1>2, <2>1, <2>2
<1>6. Entries(1) = {2}
  <2>1. Found(1) = {2}
    BY <1>4, <1>5 DEF Found
  <2>2. Entries(1) = Found(1)
    BY <1>1, <1>2, EntriesFinished DEF IInv
  <2> QED BY <2>1, <2>2
<1>7. contents = [m \in {1} |-> {<<Resident, 2>>}]
  BY <1>1, <1>2, <1>3, <1>6 DEF Contents
<1>8. [l \in DOMAIN contents |-> list[l].link] = [m \in {1} |-> 0]
  BY <1>3, <1>7 DEF Null
<1>9. current = 1 /\ order = <<1>>
  BY DEF InitR, Init, ForthWordlist
<1>10. Promise!Init
  BY <1>7, <1>8, <1>9, NamesAssumption, SizeAssumption DEF Promise!Init, Addr
<1> QED BY <1>1, <1>10 DEF RefInv

-----------------------------------------------------------------------------
(* Each step is one of the promise *)

(* The wordlist each wordlist inherits from, as the promise names it. *)
Parents == [l \in DOMAIN contents |-> list[l].link]

\* What the invariant says in the words of the promise.
LEMMA RefinedState ==
    RefInv => /\ TypeOK /\ WellLinked /\ LiveLists \subseteq Addr /\ DOMAIN contents = LiveLists
              /\ contents = [l \in LiveLists |-> Contents[l]]
              /\ Parents = [l \in LiveLists |-> list[l].link]
<1> SUFFICES ASSUME RefInv
             PROVE  /\ TypeOK /\ WellLinked /\ LiveLists \subseteq Addr /\ DOMAIN contents = LiveLists
                    /\ contents = [l \in LiveLists |-> Contents[l]]
                    /\ Parents = [l \in LiveLists |-> list[l].link]
  OBVIOUS
<1>1. contents = Contents /\ Contents = [l \in LiveLists |-> Contents[l]] /\ DOMAIN Contents = LiveLists
  BY DEF RefInv, Contents
<1> QED BY <1>1, LiveAddr DEF RefInv, IInv, Parents

\* The same of the next state.
LEMMA RefinedStateNext ==
    (RefInv => /\ TypeOK /\ WellLinked /\ LiveLists \subseteq Addr /\ DOMAIN contents = LiveLists
               /\ contents = [l \in LiveLists |-> Contents[l]]
               /\ Parents = [l \in LiveLists |-> list[l].link])'
<1>1. RefInv => /\ TypeOK /\ WellLinked /\ LiveLists \subseteq Addr /\ DOMAIN contents = LiveLists
                /\ contents = [l \in LiveLists |-> Contents[l]]
                /\ Parents = [l \in LiveLists |-> list[l].link]
  BY RefinedState
<1> QED BY <1>1, PTL

\* The search order and the compilation wordlist name wordlists that exist.
LEMMA SearchKept ==
    ASSUME RefInv'
    PROVE  Promise!Search
<1>1. DOMAIN contents' = LiveLists' /\ ListsLive' /\ OrdersFit'
  BY RefinedStateNext DEF RefInv, WellLinked
<1> QED BY <1>1 DEF Promise!Search, ListsLive, OrdersFit

\* A step that keeps chains, wordlists and parents changes nothing the promise sees.
LEMMA PromiseStays ==
    ASSUME RefInv, RefInv', ChainsStay, LiveLists' = LiveLists,
           \A l \in LiveLists : list'[l].link = list[l].link
    PROVE  Promise!Next
<1>1. contents' = contents /\ Parents' = Parents
  <2>1. \A l \in LiveLists : Contents'[l] = Contents[l]
    BY StayContents, RefinedState, RefinedStateNext
  <2>2. contents' = [l \in LiveLists |-> Contents'[l]] /\ Parents' = [l \in LiveLists |-> list'[l].link]
    BY RefinedStateNext
  <2> QED BY <2>1, <2>2, RefinedState
<1> QED BY <1>1, SearchKept DEF Promise!Next, Parents

(* Everything there is is older than a word that is inserted. *)
LEMMA AllOlder ==
    ASSUME RefInv, NEW a, \A e \in Finished : e < a, \A l \in LiveLists : l < a
    PROVE  \A b \in Promise!AllAges : b < a
<1> SUFFICES ASSUME NEW b \in Promise!AllAges PROVE b < a
  OBVIOUS
<1>1. b \in LiveLists \/ \E l \in LiveLists : \E d \in Contents[l] : b = d[2]
  BY RefinedState DEF Promise!AllAges, Promise!Wids
<1>2. ASSUME NEW l \in LiveLists, NEW d \in Contents[l], b = d[2] PROVE b \in Finished
  <2>1. PICK e \in Entries(l) : d = <<word[e].name, e>>
    BY DEF Contents
  <2>2. Entries(l) = Found(l)
    BY EntriesFinished, RefinedState
  <2> QED BY <1>2, <2>1, <2>2 DEF Found
<1> QED BY <1>1, <1>2

\* A word that is inserted is a definition, younger than everything.
LEMMA PromiseGains ==
    ASSUME RefInv, RefInv', NEW a, NEW n, ChainsGain(a, n), UNCHANGED <<current, order>>,
           \A l \in LiveLists : list'[l].link = list[l].link
    PROVE  Promise!Next
<1>1. /\ LiveLists' = LiveLists /\ current \in LiveLists
      /\ \A l \in LiveLists :
           Contents'[l] = IF l = current THEN Contents[l] \cup {<<n, a>>} ELSE Contents[l]
  BY GainContents, RefinedState, RefinedStateNext
<1>2. contents' = [l \in LiveLists |-> Contents'[l]] /\ Parents' = [l \in LiveLists |-> list'[l].link]
  BY <1>1, RefinedStateNext
<1>3. Parents' = Parents
  BY <1>2, RefinedState
<1>4. contents' = [contents EXCEPT ![current] = contents[current] \cup {<<n, a>>}]
  BY <1>1, <1>2, RefinedState
<1>5. n \in Names /\ a \in Addr /\ \A b \in Promise!AllAges : b < a
  BY AllOlder DEF ChainsGain
<1>6. Promise!Define
  BY <1>3, <1>4, <1>5 DEF Promise!Define, Parents
<1> QED BY <1>6, SearchKept DEF Promise!Next

(* What is forgotten is everything from where on, and nothing else.         *)
LEMMA LoseWhole ==
    ASSUME RefInv, RefInv', NEW where \in Addr, ChainsLose(where)
    PROVE  /\ LiveLists' = {m \in LiveLists : m < where}
           /\ contents' = [l \in {m \in LiveLists : m < where} |-> {d \in contents[l] : d[2] < where}]
<1>1. \A l \in LiveLists' : l \in LiveLists /\ Contents'[l] = {d \in Contents[l] : d[2] < where}
  BY LoseContents, RefinedState, RefinedStateNext
<1>2. LiveLists' = {m \in LiveLists : m < where}
  BY DEF ChainsLose
<1>3. contents' = [l \in LiveLists' |-> Contents'[l]]
  BY RefinedStateNext
<1>4. contents = [l \in LiveLists |-> Contents[l]]
  BY RefinedState
<1> QED BY <1>1, <1>2, <1>3, <1>4

\* A step that forgets from where on is ForgetFrom.
LEMMA PromiseLoses ==
    ASSUME RefInv, RefInv', NEW where \in Addr, ChainsLose(where),
           \A l \in LiveLists' : list'[l].link = list[l].link
    PROVE  Promise!Next
<1>1. /\ LiveLists' = {m \in LiveLists : m < where}
      /\ contents' = [l \in {m \in LiveLists : m < where} |-> {d \in contents[l] : d[2] < where}]
  BY LoseWhole
<1>2. Parents' = [l \in LiveLists' |-> list'[l].link]
  BY RefinedStateNext
<1>3. Parents = [l \in LiveLists |-> list[l].link] /\ DOMAIN contents = LiveLists
  BY RefinedState
<1>4. Parents' = [l \in {m \in LiveLists : m < where} |-> Parents[l]]
  BY <1>1, <1>2, <1>3
<1>5. Promise!ForgetFrom
  BY <1>1, <1>3, <1>4 DEF Promise!ForgetFrom, Promise!Wids, Parents
<1> QED BY <1>5, SearchKept DEF Promise!Next

\* FICL-WORDLIST is NewWordlist.
LEMMA PromiseWordlist ==
    ASSUME RefInv, RefInv', NEW k \in 1..MaxBuckets, FiclWordlist(k)
    PROVE  Promise!Next
<1>0. TypeOK /\ LiveLists \subseteq Addr
  BY RefinedState
<1>1. /\ here \in Addr /\ here \notin LiveLists /\ LiveLists' = LiveLists \cup {here}
  BY <1>0, Appended DEF FiclWordlist, Kinds
<1>2. ChainsStay
  <2>1. TypeOK'
    BY RefinedStateNext
  <2> QED BY <2>1, ListsStay DEF RefInv
<1>3. \A l \in LiveLists' : Contents'[l] = IF l = here THEN {} ELSE Contents[l]
  <2>1. \A l \in LiveLists' : Contents'[l] = IF l \in LiveLists THEN Contents[l] ELSE {}
    BY <1>2, StayContents, RefinedState, RefinedStateNext
  <2> QED BY <1>1, <2>1
<1>4. \A l \in LiveLists' : list'[l].link = IF l = here THEN 0 ELSE list[l].link
  BY <1>0, <1>1 DEF FiclWordlist, NoWordlist, Null, TypeOK
<1>5. contents' = [m \in LiveLists \cup {here} |-> IF m = here THEN {} ELSE contents[m]]
  BY <1>1, <1>3, RefinedState, RefinedStateNext
<1>6. Parents' = [m \in LiveLists \cup {here} |-> IF m = here THEN 0 ELSE Parents[m]]
  BY <1>1, <1>4, RefinedState, RefinedStateNext
<1>7. \A b \in Promise!AllAges : b < here
  <2>1. (\A e \in Finished : e < here) /\ (\A l \in LiveLists : l < here)
    BY <1>0, BelowHere DEF Finished, EntrySet
  <2> QED BY <2>1, AllOlder
<1>8. UNCHANGED <<current, order>>
  BY DEF FiclWordlist
<1>9. Promise!NewWordlist
  BY <1>1, <1>5, <1>6, <1>7, <1>8, RefinedState DEF Promise!NewWordlist, Promise!Wids, Parents
<1> QED BY <1>9, SearchKept DEF Promise!Next

\* WID-SET-SUPER is Inherit.
LEMMA PromiseInherits ==
    ASSUME RefInv, RefInv', Careful, NEW p \in LiveLists, NEW c \in LiveLists, SetParentWid(p, c)
    PROVE  Promise!Next
<1>0. TypeOK /\ LiveLists \subseteq Addr /\ TypeOK'
  BY RefinedState, RefinedStateNext
<1>1. ChainsStay
  BY <1>0, ListsStay DEF RefInv
<1>2. p < c /\ LiveLists' = LiveLists /\ UNCHANGED <<current, order>>
  BY DEF SetParentWid, Careful, Keeps, AllObligations, LiveLists
<1>3. \A l \in LiveLists : list'[l].link = IF l = c THEN p ELSE list[l].link
  <2>1. list' = [list EXCEPT ![c] = [list[c] EXCEPT !.link = p]]
    BY <1>0 DEF SetParentWid, TypeOK
  <2>2. list[c] \in Wordlists
    BY <1>0 DEF TypeOK
  <2> QED BY <1>0, <2>1, <2>2 DEF TypeOK, Wordlists
<1>4. contents' = contents
  <2>1. \A l \in LiveLists : Contents'[l] = Contents[l]
    BY <1>1, <1>2, StayContents, RefinedState, RefinedStateNext
  <2>2. contents' = [l \in LiveLists |-> Contents'[l]]
    BY <1>2, RefinedStateNext
  <2> QED BY <2>1, <2>2, RefinedState
<1>5. Parents' = [Parents EXCEPT ![c] = p]
  BY <1>2, <1>3, RefinedState, RefinedStateNext
<1>6. Promise!Inherit
  BY <1>2, <1>4, <1>5, RefinedState DEF Promise!Inherit, Promise!Wids, Parents
<1> QED BY <1>6, SearchKept DEF Promise!Next

\* Inserting a word changes no wordlist's parent.
LEMMA InsertedLinks ==
    ASSUME TypeOK, WellLinked, NEW a, NEW n, list' = UnsmudgedLists(a, n)
    PROVE  \A l \in LiveLists : list'[l].link = list[l].link
<1>1. current \in LiveLists /\ LiveLists \subseteq Addr
  BY LiveAddr DEF WellLinked, ListsLive
<1>2. CASE n = NoName
  BY <1>2 DEF UnsmudgedLists
<1>3. CASE n # NoName
  <2>1. PICK b : list' = [list EXCEPT ![current].table[b] = a]
    BY <1>3 DEF UnsmudgedLists
  <2>2. list'[current] = [list[current] EXCEPT !.table = [list[current].table EXCEPT ![b] = a]]
    BY <1>1, <2>1 DEF TypeOK
  <2>3. list[current] \in Wordlists
    BY <1>1 DEF TypeOK
  <2>4. list'[current].link = list[current].link
    BY <2>2, <2>3 DEF Wordlists
  <2>5. \A l \in Addr : l # current => list'[l] = list[l]
    BY <2>1 DEF TypeOK
  <2> QED BY <1>1, <2>4, <2>5
<1> QED BY <1>2, <1>3

\* Every step is a step of the promise or changes nothing it sees.
LEMMA PromiseKept ==
    ASSUME RefInv, RefInv', Careful, [NextR]_varsR
    PROVE  [Promise!Next]_Promise!vars
<1>0. TypeOK /\ WellLinked /\ LiveLists \subseteq Addr /\ TypeOK' /\ IInv
  BY RefinedState, RefinedStateNext DEF RefInv
<1>1. CASE \/ \E n \in Names : Create(n) \/ CreateMarker(n)
           \/ \E n \in Markers : CreateMarker(n)
  <2>1. PICK n \in Names : Create(n) \/ CreateMarker(n)
    BY <1>1, MarkersAssumption
  <2>2. ChainsGain(here, n)
    BY <1>0, <2>1, CreateGains
  <2>3. UNCHANGED <<current, order>> /\ list' = UnsmudgedLists(here, n)
    BY <2>1 DEF Create, CreateMarker
  <2> QED BY <1>0, <2>2, <2>3, InsertedLinks, PromiseGains
<1>2. CASE Semicolon
  <2>1. UNCHANGED <<current, order>> /\ list' = UnsmudgedLists(smudge, word[smudge].name)
    BY <1>2 DEF Semicolon
  <2>2. \A l \in LiveLists : list'[l].link = list[l].link
    BY <1>0, <2>1, InsertedLinks
  <2>3. CASE word[smudge].name = NoName
    <3>1. ChainsStay
      BY <1>0, <1>2, <2>3, SemicolonGains
    <3>2. LiveLists' = LiveLists
      BY <1>0, <1>2, Appended DEF Semicolon, AppendCell, Kinds
    <3> QED BY <2>2, <3>1, <3>2, PromiseStays
  <2>4. CASE word[smudge].name # NoName
    <3>1. ChainsGain(smudge, word[smudge].name)
      BY <1>0, <1>2, <2>4, SemicolonGains
    <3> QED BY <2>1, <2>2, <3>1, PromiseGains
  <2> QED BY <2>3, <2>4
<1>3. CASE ColonNoName \/ \E n \in Names : Colon(n)
  <2>1. PICK n \in Names \cup {NoName} : OpenDefinition(n)
    BY <1>3 DEF Colon, ColonNoName
  <2>2. LiveLists' = LiveLists /\ list' = list
    BY <1>0, <2>1, Appended DEF OpenDefinition, AppendWord, Kinds
  <2> QED BY <1>0, <2>1, <2>2, OpenDefinitionStays, PromiseStays
<1>4. CASE Comma
  <2>1. LiveLists' = LiveLists /\ list' = list
    BY <1>0, <1>4, Appended DEF Comma, AppendCell, Kinds
  <2> QED BY <1>0, <1>4, <2>1, ListsStay, PromiseStays
<1>5. CASE \E k \in 1..MaxBuckets : FiclWordlist(k)
  BY <1>5, PromiseWordlist
<1>6. CASE \E p, c \in LiveLists : SetParentWid(p, c)
  BY <1>6, PromiseInherits
<1>7. CASE \E l \in LiveLists : ForgetWid(l)
  <2>1. PICK w \in LiveLists : ForgetWid(w)
    BY <1>7
  <2>2. LiveLists' = LiveLists
    BY <2>1 DEF ForgetWid, LiveLists
  <2>3. \A l \in Addr : list'[l].link = list[l].link
    <3>1. {w} \in SUBSET LiveLists /\ here \in Nat /\ 0 < here
      BY <1>0, BelowHere
    <3> QED BY <1>0, <2>1, <3>1, ForgottenSound DEF ForgetWid
  <2> QED BY <1>0, <1>7, <2>2, <2>3, ListsStay, PromiseStays
<1>8. CASE \/ \E n \in Names : Forget(n)
           \/ \E n \in Markers : RunMarker(n)
  <2>1. PICK where \in LiveWords :
            ChainsLose(where) /\ \A l \in LiveLists' : list'[l].link = list[l].link
    <3>1. (\E n \in Names : Forget(n)) \/ (\E n \in Markers : RunMarker(n))
      BY <1>8
    <3> QED BY <1>0, <3>1, ForgetLoses
  <2>3. where \in Addr
    BY <1>0, LiveAddr
  <2> QED BY <2>1, <2>3, PromiseLoses
<1>9. CASE ErrorExit \/ QuitExit
  <2>1. ChainsStay /\ \A l \in LiveLists : list'[l].link = list[l].link
    BY <1>0, <1>9, ExitStays
  <2>2. LiveLists' = LiveLists
    BY <1>0, <1>9, AbortedIInv DEF ErrorExit, QuitExit
  <2> QED BY <2>1, <2>2, PromiseStays
<1>10. CASE \/ LeftBracket \/ RightBracket \/ DropColonSys
            \/ \E l \in LiveLists : SetCurrent(l) \/ SearchPush(l)
            \/ \E ls \in Orders : SetOrder(ls)
            \/ Definitions \/ Only \/ SearchPop
  <2>1. UNCHANGED <<here, kind, word, list>>
    BY <1>10 DEF LeftBracket, RightBracket, DropColonSys, SetCurrent, SearchPush, SetOrder,
                Definitions, Only, SearchPop
  <2>2. LiveLists' = LiveLists
    BY <2>1 DEF LiveLists
  <2> QED BY <1>0, <2>1, <2>2, MemoryStays, PromiseStays
<1>11. CASE UNCHANGED varsR
  BY <1>11 DEF varsR, vars, Promise!vars, Parents
<1> QED
  BY <1>1, <1>2, <1>3, <1>4, <1>5, <1>6, <1>7, <1>8, <1>9, <1>10, <1>11 DEF NextR, Next

-----------------------------------------------------------------------------
(* Lookups *)

(* A walk down descending links ends no higher than it began. *)
LEMMA FollowBelow ==
    ASSUME NEW D \in SUBSET Pointer, NEW h \in D, NEW Stop,
           NEW next \in [Addr -> Pointer], Null \in Stop, Descends(D, next, Stop)
    PROVE  Follow(h, next, Stop) \in D /\ Follow(h, next, Stop) <= h
<1> DEFINE S == {a \in D : a <= h}
<1>1. D \subseteq Nat
  BY SizeAssumption DEF Pointer
<1>2. S \in SUBSET Pointer /\ h \in S
  <2>1. h \in Nat /\ h <= h
    BY <1>1
  <2> QED BY <2>1
<1>3. ASSUME NEW a \in S, a \notin Stop PROVE next[a] \in S
  <2>1. next[a] \in D /\ next[a] < a /\ a <= h
    BY <1>3 DEF Descends
  <2>2. a \in Nat /\ next[a] \in Nat /\ h \in Nat
    BY <1>1, <2>1
  <2> QED BY <2>1, <2>2
<1>4. Follow(h, next, Stop) \in S
  <2> HIDE DEF S
  <2> QED BY <1>2, <1>3, FollowIn
<1> QED BY <1>4

(* The greatest number of a set is the only one. *)
LEMMA GreatestUnique ==
    ASSUME NEW S \in SUBSET Nat, NEW top \in S, \A j \in S : j <= top
    PROVE  (CHOOSE i \in S : \A j \in S : j <= i) = top
<1>1. \A i \in S : (\A j \in S : j <= i) => i = top
  <2> SUFFICES ASSUME NEW i \in S, \A j \in S : j <= i PROVE i = top
    OBVIOUS
  <2>1. i \in Nat /\ top \in Nat /\ i <= top /\ top <= i
    OBVIOUS
  <2> QED BY <2>1
<1> QED BY <1>1

(* The words of wordlist l that are called n. *)
Called(l, n) == {e \in Found(l) : word[e].name = n}

\* The definitions of a name in the promise are the words of that name.
LEMMA AgesAreCalled ==
    ASSUME RefInv, NEW l \in LiveLists, NEW n
    PROVE  Promise!AgesOf(l, n) = Called(l, n)
<1>1. contents[l] = {<<word[a].name, a>> : a \in Entries(l)}
  BY RefinedState DEF Contents
<1>2. Entries(l) = Found(l)
  BY EntriesFinished, RefinedState
<1>3. Found(l) \subseteq Addr
  BY LiveAddr, RefinedState DEF Found, Finished, EntrySet, Entry
<1>4. \A a : <<n, a>> \in contents[l] <=> a \in Found(l) /\ word[a].name = n
  BY <1>1, <1>2
<1> QED BY <1>3, <1>4 DEF Called, Promise!AgesOf

(* The first word a search of one chain comes to is the youngest word of    *)
(* that name in the whole wordlist.                                         *)
LEMMA ChainLookupYoungest ==
    ASSUME RefInv, NEW l \in LiveLists, NEW n \in Names
    PROVE  IF Called(l, n) = {} THEN ChainLookup(l, n) = Null
           ELSE /\ ChainLookup(l, n) \in Called(l, n)
                /\ \A e \in Called(l, n) : e <= ChainLookup(l, n)
<1>0. TypeOK /\ WellLinked /\ LiveLists \subseteq Addr /\ Homed
  BY RefinedState DEF RefInv
<1>1. PICK b \in Bucket : b = BucketOf(l, n)
  BY <1>0, BucketType
<1>2. PICK h : h = list[l].table[b] /\ h \in EntrySet
  BY <1>0, HeadIsEntry
<1>3. PICK Rest : Rest = {Null} \cup {a \in Addr : word[a].name = n}
  OBVIOUS
<1>4. PICK r : r = ChainLookup(l, n)
  OBVIOUS
<1>5. PICK next : next = WordLink
  OBVIOUS
<1>6. r = Follow(h, next, Rest)
  BY <1>1, <1>2, <1>3, <1>4, <1>5 DEF ChainLookup
<1>7. r \in EntrySet /\ (r # Null => word[r].name = n)
  BY <1>0, <1>4, ChainLookupSound
<1>8. next \in [Addr -> Pointer] /\ EntrySet \in SUBSET Pointer /\ Null \in Rest
  BY <1>0, <1>3, <1>5, LinkTypes DEF EntrySet
<1>9. ASSUME NEW e, {Null, e} \subseteq Rest
      PROVE  /\ Descends(EntrySet, next, {Null, e})
             /\ Follow(r, next, {Null, e}) = Follow(h, next, {Null, e})
  <2>1. PICK Stop : Stop = {Null, e}
    OBVIOUS
  <2>2. Null \in Stop /\ Stop \subseteq Rest
    BY <1>9, <2>1
  <2>3. Descends(EntrySet, next, Stop)
    BY <1>0, <1>5, <2>2, ChainDescends
  <2>4. Follow(Follow(h, next, Rest), next, Stop) = Follow(h, next, Stop)
    BY <1>2, <1>8, <2>2, <2>3, FollowVia
  <2> QED BY <1>6, <2>1, <2>3, <2>4
<1>10. r # Null => r \in Called(l, n)
  <2> SUFFICES ASSUME r # Null PROVE r \in Called(l, n)
    OBVIOUS
  <2>1. r \in Addr /\ r \in Finished
    BY <1>0, <1>7, LiveAddr DEF Finished, EntrySet, Entry
  <2>2. {Null, r} \subseteq Rest
    BY <1>3, <1>7, <2>1
  <2>3. PICK Stop : Stop = {Null, r}
    OBVIOUS
  <2>4. Null \in Stop /\ r \in Stop
    BY <2>3
  <2>5. Follow(r, next, Stop) = r
    BY <1>7, <1>8, <2>4, FollowAt
  <2>6. Follow(h, next, Stop) = r
    BY <1>9, <2>2, <2>3, <2>5
  <2>7. InChain(l, b, r)
    BY <1>2, <1>5, <2>3, <2>6 DEF InChain
  <2> QED BY <1>7, <2>1, <2>7 DEF Called, Found
<1>11. ASSUME NEW e \in Called(l, n) PROVE e <= r /\ r # Null
  <2>1. PICK c \in Bucket : InChain(l, c, e)
    BY DEF Called, Found
  <2>2. e \in Finished /\ word[e].name = n
    BY DEF Called, Found
  <2>3. PICK m \in LiveLists : InChain(m, BucketOf(m, n), e)
    BY <1>0, <2>2 DEF Homed, Homes
  <2>4. PICK d \in Bucket : d = BucketOf(m, n)
    BY <1>0, BucketType
  <2>5. m = l /\ d = c
    BY <1>0, <2>1, <2>2, <2>3, <2>4 DEF Homed, Sole
  <2>6. c = b
    BY <1>1, <2>4, <2>5
  <2>7. e \in Addr /\ e # Null
    BY <1>0, <2>2, LiveAddr DEF Finished, EntrySet, Entry
  <2>8. {Null, e} \subseteq Rest
    BY <1>3, <2>2, <2>7
  <2>9. PICK Stop : Stop = {Null, e}
    OBVIOUS
  <2>10. Follow(h, next, Stop) = e
    BY <1>2, <1>5, <2>1, <2>6, <2>9 DEF InChain
  <2>11. Follow(r, next, Stop) = e /\ Descends(EntrySet, next, Stop) /\ Null \in Stop
    BY <1>9, <2>8, <2>9, <2>10
  <2>12. e <= r
    BY <1>7, <1>8, <2>11, FollowBelow
  <2>13. e > 0 /\ e \in Nat
    BY <2>7, SizeAssumption DEF Addr
  <2> QED BY <2>12, <2>13 DEF Null
<1>12. CASE Called(l, n) = {}
  BY <1>4, <1>10, <1>12
<1>13. CASE Called(l, n) # {}
  BY <1>4, <1>10, <1>11, <1>13
<1> QED BY <1>12, <1>13

(* ficlHashLookup goes up the parents to the first wordlist that has the    *)
(* name: the youngest of its lineage, since parents are older.              *)
LEMMA HashLookupFinds ==
    ASSUME RefInv, NEW l \in LiveLists, NEW n \in Names
    PROVE  HashLookup(l, n) = Promise!Find(l, n)
<1>0. TypeOK /\ WellLinked /\ LiveLists \subseteq Addr /\ DOMAIN contents = LiveLists
  BY RefinedState
<1>1. PICK Has : Has = {m \in Addr : kind[m] = "list" /\ ChainLookup(m, n) # Null}
  OBVIOUS
<1>2. PICK Stop : Stop = {Null} \cup Has
  OBVIOUS
<1>3. PICK D : D = {Null} \cup LiveLists
  OBVIOUS
<1>4. PICK next : next = ListLink
  OBVIOUS
<1>5. PICK f : f = Follow(l, next, Stop)
  OBVIOUS
<1>6. /\ next \in [Addr -> Pointer] /\ D \in SUBSET Pointer /\ l \in D /\ Null \in Stop
      /\ \A k \in LiveLists : next[k] = list[k].link
  BY <1>0, <1>2, <1>3, <1>4, LinkTypes, SizeAssumption DEF Addr, Pointer, Null, ListLink
<1>7. \A k \in LiveLists : k \in Nat /\ k # Null /\ (k \in Has <=> Called(k, n) # {})
  <2> SUFFICES ASSUME NEW k \in LiveLists
               PROVE  k \in Nat /\ k # Null /\ (k \in Has <=> Called(k, n) # {})
    OBVIOUS
  <2>1. kind[k] = "list" /\ k \in Addr
    BY <1>0 DEF LiveLists
  <2>2. ChainLookup(k, n) # Null <=> Called(k, n) # {}
    <3>1. \A e \in Called(k, n) : e # Null
      BY DEF Called, Found, Finished
    <3> QED BY <3>1, ChainLookupYoungest
  <2>3. k \in Nat /\ k # Null
    BY <2>1, SizeAssumption DEF Addr, Null
  <2> QED BY <1>1, <2>1, <2>2, <2>3
<1>8. \A k \in LiveLists : next[k] # Null => next[k] \in LiveLists /\ next[k] < k
  BY <1>0, <1>6 DEF WellLinked, ParentsLive
<1>9. Descends(D, next, Stop)
  <2> SUFFICES ASSUME NEW a \in D, a \notin Stop PROVE next[a] \in D /\ next[a] < a
    BY DEF Descends
  <2>1. a \in LiveLists
    BY <1>3, <1>6
  <2>2. a \in Nat /\ a # Null
    BY <1>7, <2>1
  <2>3. 0 < a
    BY <2>2 DEF Null
  <2>4. next[a] = Null => next[a] < a
    BY <2>3 DEF Null
  <2> QED BY <1>3, <1>8, <2>1, <2>4
<1>10. f \in D /\ f \in Stop
  <2>1. \A a \in D : a \notin Stop => next[a] \in D /\ next[a] < a
    BY <1>9 DEF Descends
  <2>2. \A a \in D : a \notin Stop => next[a] \in D
    BY <2>1
  <2> QED BY <1>5, <1>6, <2>1, <2>2, FollowIn, FollowStops
<1>11. \A k \in LiveLists : Parents[k] = next[k]
  BY <1>6, RefinedState
<1>12. PICK Line : Line = Promise!Lineage(l)
  OBVIOUS
<1>13. \A m : m \in Line <=>
          /\ m \in LiveLists
          /\ \A S \in SUBSET LiveLists :
                (l \in S /\ \A k \in S : next[k] = Null \/ next[k] \in S) => m \in S
  BY <1>0, <1>11, <1>12 DEF Promise!Lineage, Promise!Wids, Parents, Null
<1>14. f # Null => f \in Line
  <2> SUFFICES ASSUME f # Null, NEW S \in SUBSET LiveLists, l \in S,
                      \A k \in S : next[k] = Null \/ next[k] \in S
               PROVE  f \in S
    BY <1>3, <1>10, <1>13
  <2>1. PICK T : T = {Null} \cup S
    OBVIOUS
  <2>2. T \in SUBSET Pointer /\ l \in T /\ \A a \in T : a \notin Stop => next[a] \in T
    BY <1>3, <1>6, <2>1
  <2>3. f \in T
    BY <1>5, <1>6, <2>2, FollowIn
  <2> QED BY <2>1, <2>3
<1>15. ASSUME NEW m \in Line, Called(m, n) # {}
       PROVE  f # Null /\ m <= f
  <2>1. PICK S : S = {k \in LiveLists : k <= f \/ (k \notin Stop /\ Follow(k, next, Stop) = f)}
    OBVIOUS
  <2>2. f \in Nat
    BY <1>6, <1>10, SizeAssumption DEF Pointer
  <2>3. l \in S
    <3>1. CASE l \in Stop
      <4>1. f = l
        BY <1>5, <1>6, <3>1, FollowAt
      <4>2. l <= f
        BY <2>2, <4>1
      <4> QED BY <2>1, <4>2
    <3>2. CASE l \notin Stop
      BY <1>5, <2>1, <3>2
    <3> QED BY <3>1, <3>2
  <2>4. ASSUME NEW k \in S, next[k] # Null PROVE next[k] \in S
    <3>1. PICK p \in LiveLists : p = next[k] /\ p < k
      BY <1>8, <2>1, <2>4
    <3>2. k \in Nat /\ p \in Nat /\ k \in LiveLists /\ k \in D
      BY <1>3, <1>7, <2>1
    <3>3. CASE k <= f
      BY <2>1, <2>2, <3>1, <3>2, <3>3
    <3>4. CASE k \notin Stop /\ Follow(k, next, Stop) = f
      <4>1. Follow(p, next, Stop) = f
        BY <1>6, <1>9, <3>1, <3>2, <3>4, FollowOn
      <4>2. CASE p \in Stop
        <5>1. p \in D
          BY <1>3
        <5>2. p = f
          BY <1>6, <4>1, <4>2, <5>1, FollowAt
        <5>3. p <= f
          BY <2>2, <5>2
        <5> QED BY <2>1, <3>1, <5>3
      <4>3. CASE p \notin Stop
        BY <2>1, <3>1, <4>1, <4>3
      <4> QED BY <4>2, <4>3
    <3> QED BY <2>1, <3>3, <3>4
  <2>5. m \in S
    <3>1. S \in SUBSET LiveLists
      BY <2>1
    <3> QED BY <1>13, <2>3, <2>4, <3>1
  <2>6. m \in LiveLists /\ m \in Stop /\ m \in Nat /\ m # Null
    BY <1>2, <1>7, <1>13, <1>15
  <2>7. m <= f
    BY <2>1, <2>5, <2>6
  <2> QED BY <2>2, <2>6, <2>7 DEF Null
<1>16. \A m \in Line : Promise!AgesOf(m, n) = Called(m, n)
  BY <1>13, AgesAreCalled
<1>17. PICK having : having = {m \in Line : Promise!AgesOf(m, n) # {}}
  OBVIOUS
<1>18. Promise!Find(l, n) =
          IF having = {} THEN 0 ELSE Promise!Youngest(Promise!AgesOf(Promise!Youngest(having), n))
  BY <1>12, <1>17 DEF Promise!Find
<1>19. HashLookup(l, n) = IF f = Null THEN Null ELSE ChainLookup(f, n)
  BY <1>1, <1>2, <1>4, <1>5 DEF HashLookup
<1>20. CASE f = Null
  <2>1. having = {}
    BY <1>15, <1>16, <1>17, <1>20
  <2> QED BY <1>18, <1>19, <1>20, <2>1 DEF Null
<1>21. CASE f # Null
  <2>1. f \in LiveLists /\ f \in Has /\ f \in Line
    BY <1>2, <1>3, <1>10, <1>14, <1>21
  <2>2. f \in having /\ \A m \in having : m <= f
    BY <1>7, <1>15, <1>16, <1>17, <2>1
  <2>3. Promise!Youngest(having) = f
    <3>1. having \subseteq Nat
      BY <1>7, <1>13, <1>17
    <3> QED BY <2>2, <3>1, GreatestUnique DEF Promise!Youngest
  <2>4. PICK r : r = ChainLookup(f, n)
    OBVIOUS
  <2>5. r \in Called(f, n) /\ \A e \in Called(f, n) : e <= r
    BY <1>7, <2>1, <2>4, ChainLookupYoungest
  <2>6. Called(f, n) \subseteq Nat
    BY SizeAssumption DEF Called, Found, Finished, EntrySet, Pointer
  <2>7. Promise!Youngest(Called(f, n)) = r
    BY <2>5, <2>6, GreatestUnique DEF Promise!Youngest
  <2> QED BY <1>16, <1>18, <1>19, <1>21, <2>1, <2>2, <2>3, <2>4, <2>7
<1> QED BY <1>20, <1>21

\* ficlDictionaryLookup finds in the search order what the promise does.
LEMMA LookupMeans ==
    ASSUME RefInv, NEW n \in Names
    PROVE  Lookup(n) = Promise!Meaning(n)
<1>1. \A i \in DOMAIN order : order[i] \in LiveLists
  BY RefinedState DEF WellLinked, ListsLive
<1>2. \A i \in DOMAIN order : HashLookup(order[i], n) = Promise!Find(order[i], n)
  BY <1>1, HashLookupFinds
<1>3. PICK hits : hits = {i \in DOMAIN order : HashLookup(order[i], n) # Null}
  OBVIOUS
<1>4. hits = {i \in DOMAIN order : Promise!Find(order[i], n) # 0}
  BY <1>2, <1>3 DEF Null
<1>5. CASE hits = {}
  BY <1>3, <1>4, <1>5 DEF Lookup, Promise!Meaning, Null
<1>6. CASE hits # {}
  <2>1. DOMAIN order = 1..Len(order) /\ Len(order) \in Nat
    BY RefinedState DEF TypeOK
  <2>2. PICK k \in Nat : DOMAIN order = 1..k
    BY <2>1
  <2>3. PICK top \in hits : \A j \in hits : j <= top
    <3>1. hits \in SUBSET (1..k)
      BY <1>3, <2>2
    <3> QED BY <1>6, <3>1, LastPosition
  <2>4. hits \subseteq Nat
    BY <1>3, <2>2
  <2>5. Promise!Youngest(hits) = top /\ (CHOOSE i \in hits : \A j \in hits : j <= i) = top
    BY <2>3, <2>4, GreatestUnique DEF Promise!Youngest
  <2>6. Lookup(n) = HashLookup(order[top], n)
    BY <1>3, <1>6, <2>5 DEF Lookup
  <2>7. Promise!Meaning(n) = Promise!Find(order[top], n)
    BY <1>4, <1>6, <2>5 DEF Promise!Meaning
  <2> QED BY <1>2, <1>3, <2>3, <2>6, <2>7
<1> QED BY <1>5, <1>6

-----------------------------------------------------------------------------
(* Markers *)

(* What a wordlist held when there was nothing from a on. *)
Before(a) == [l \in {k \in LiveLists : k < a} |-> {d \in contents[l] : d[2] < a}]

LiveMarkers == {a \in LiveWords : kind[a] = "marker"}

(* What was there when a live marker was made is what is there below it now. *)
PastKept == \A a \in LiveMarkers : a \in Finished /\ past[a] = Before(a)

(* Memory that a step neither frees nor takes keeps its kind, and only MARKER *)
(* makes a marker.                                                          *)
LEMMA KindsKept ==
    ASSUME IInv, Careful, [Next]_vars
    PROVE  /\ \A a \in Addr : a < here /\ a < here' => kind'[a] = kind[a]
           /\ \A a \in Addr : a >= here /\ a < here' /\ kind'[a] = "marker" =>
                 a = here /\ \E n \in Names : CreateMarker(n)
<1>0. TypeOK /\ here \in Nat /\ Addr \subseteq Nat
  BY SizeAssumption DEF IInv, TypeOK, Addr
<1>1. CASE \E n \in Markers : CreateMarker(n)
  <2>1. PICK n \in Names : CreateMarker(n)
    BY <1>1, MarkersAssumption
  <2>2. here' = here + 1 /\ kind' = [kind EXCEPT ![here] = "marker"]
    BY <2>1 DEF CreateMarker, AppendWord
  <2> QED BY <1>0, <2>1, <2>2 DEF TypeOK
<1>2. CASE \/ \E n \in Names : Create(n) \/ Colon(n)
           \/ ColonNoName \/ Comma \/ Semicolon
           \/ \E k \in 1..MaxBuckets : FiclWordlist(k)
  <2>1. PICK k \in {"word", "list", "data"} :
            RoomFor(1) /\ here' = here + 1 /\ kind' = [kind EXCEPT ![here] = k]
    BY <1>2 DEF Create, Colon, ColonNoName, OpenDefinition, Comma, Semicolon, FiclWordlist,
                AppendWord, AppendCell
  <2>2. here \in Addr /\ k # "marker"
    BY <1>0, <2>1, SizeAssumption DEF RoomFor, Addr, TypeOK
  <2>3. kind'[here] = k /\ \A a \in Addr : a # here => kind'[a] = kind[a]
    BY <1>0, <2>1, <2>2 DEF TypeOK
  <2> QED BY <1>0, <2>1, <2>2, <2>3
<1>3. ASSUME NEW where \in LiveWords, NEW lists, FreeFrom(where, lists)
      PROVE  /\ \A a \in Addr : a < here /\ a < here' => kind'[a] = kind[a]
             /\ \A a \in Addr : ~(a >= here /\ a < here')
  <2>1. here' = where /\ where < here /\ where \in Nat
    BY <1>0, <1>3, BelowHere DEF FreeFrom, LiveWords
  <2>2. \A a \in Addr : a < where => kind'[a] = kind[a]
    BY <1>3 DEF FreeFrom, Below
  <2>3. \A a \in Addr : a \in Nat
    BY <1>0
  <2> QED BY <1>0, <2>1, <2>2, <2>3
<1>4. CASE \/ \E n \in Names : Forget(n)
           \/ \E n \in Markers : RunMarker(n)
  <2>1. PICK n \in Names : Forget(n) \/ RunMarker(n)
    BY <1>4, MarkersAssumption
  <2>2. PICK where \in LiveWords : where = Lookup(n)
    BY <1>0, <2>1, LookupIsSound DEF IInv, Forget, RunMarker, EntrySet, Entry
  <2>3. PICK lists : FreeFrom(where, lists)
    BY <2>1, <2>2 DEF Forget, RunMarker
  <2> QED BY <1>3, <2>3
<1>5. CASE (ErrorExit \/ QuitExit) /\ state = "compile"
  <2>1. PICK where \in LiveWords : where = smudge /\ IsWord(smudge) /\ word[smudge].smudged
    BY <1>5, OpenOnTop DEF IsWord
  <2>2. FreeFrom(where, list)
    BY <1>5, <2>1 DEF ErrorExit, QuitExit, AbortIfCompiling, AbortDefinition
  <2> QED BY <1>3, <2>2
<1>6. CASE (ErrorExit \/ QuitExit) /\ state # "compile"
  <2>1. UNCHANGED <<here, kind>>
    BY <1>6 DEF ErrorExit, QuitExit, AbortIfCompiling
  <2> QED BY <1>0, <2>1
<1>7. CASE \/ LeftBracket \/ RightBracket \/ DropColonSys \/ Definitions \/ UNCHANGED vars
           \/ \E l \in LiveLists : SetCurrent(l) \/ SearchPush(l) \/ ForgetWid(l)
           \/ \E p, c \in LiveLists : SetParentWid(p, c)
           \/ \E ls \in Orders : SetOrder(ls)
           \/ Only \/ SearchPop
  <2>1. UNCHANGED <<here, kind>>
    BY <1>7 DEF LeftBracket, RightBracket, DropColonSys, Definitions, vars, SetCurrent, SearchPush,
                ForgetWid, SetParentWid, SetOrder, Only, SearchPop
  <2> QED BY <1>0, <2>1
<1> QED BY <1>1, <1>2, <1>4, <1>5, <1>6, <1>7 DEF Next

(* A marker's past is kept when what lies below it is.                      *)
LEMMA PastKeptIf ==
    ASSUME RefInv, RefInv', PastKept, NextR, NEW a \in LiveMarkers', a < here, a \in LiveMarkers,
           a \in Finished',
           \A l : l < a => (l \in LiveLists' <=> l \in LiveLists),
           \A l \in LiveLists' : l < a =>
              {d \in contents'[l] : d[2] < a} = {d \in contents[l] : d[2] < a}
    PROVE  a \in Finished' /\ past'[a] = Before(a)'
<1>1. a \in Addr /\ kind'[a] = "marker"
  BY RefinedStateNext, LiveAddr, RefinedState DEF LiveMarkers
<1>2. past'[a] = past[a]
  BY <1>1 DEF NextR
<1>3. {k \in LiveLists' : k < a} = {k \in LiveLists : k < a}
  OBVIOUS
<1>4. Before(a)' = Before(a)
  BY <1>3 DEF Before
<1> QED BY <1>2, <1>4 DEF PastKept

(* What a wordlist holds is finished.                                       *)
LEMMA ContentsFinished ==
    ASSUME RefInv, NEW l \in LiveLists, NEW d \in contents[l]
    PROVE  d[2] \in Finished
<1>1. contents[l] = {<<word[a].name, a>> : a \in Entries(l)}
  BY RefinedState DEF Contents
<1>2. Entries(l) = Found(l)
  BY EntriesFinished, RefinedState
<1> QED BY <1>1, <1>2 DEF Found

(* One more definition is not among those before an older address.          *)
LEMMA OneMore ==
    ASSUME NEW S, NEW a, NEW c, NEW n, ~(c < a)
    PROVE  {d \in S \cup {<<n, c>>} : d[2] < a} = {d \in S : d[2] < a}
<1>1. \A d : d = <<n, c>> => ~(d[2] < a)
  OBVIOUS
<1> QED BY <1>1

\* Every step keeps the past of the markers that live.
LEMMA NextPastKept ==
    ASSUME RefInv, RefInv', PastKept, Careful, [NextR]_varsR
    PROVE  PastKept'
<1>0. /\ TypeOK /\ WellLinked /\ LiveLists \subseteq Addr /\ TypeOK' /\ IInv /\ LiveWords \subseteq Addr
      /\ Addr \subseteq Nat /\ here \in Nat
      /\ (\A l \in LiveLists : l < here) /\ (\A a \in LiveWords : a < here)
  BY RefinedState, RefinedStateNext, LiveAddr, BelowHere, SizeAssumption
     DEF RefInv, Addr, TypeOK, LiveWords, LiveLists
<1>1. CASE UNCHANGED varsR
  BY <1>1 DEF varsR, vars, PastKept, LiveMarkers, LiveWords, LiveLists, IsWord, Finished, EntrySet,
              Entry, Before
<1>2. CASE NextR
  <2>1. [Next]_vars
    BY <1>2 DEF NextR
  <2>2. \A a \in Addr : a < here /\ a < here' => kind'[a] = kind[a]
    BY <1>0, <2>1, KindsKept
  <2>3. \A a \in Addr : a >= here /\ a < here' /\ kind'[a] = "marker" =>
           a = here /\ \E n \in Names : CreateMarker(n)
    BY <1>0, <2>1, KindsKept
  <2> SUFFICES ASSUME NEW a \in LiveMarkers' PROVE a \in Finished' /\ past'[a] = Before(a)'
    BY DEF PastKept
  <2>4. a \in Addr /\ a < here' /\ kind'[a] = "marker"
    <3>1. a \in LiveWords' /\ kind'[a] = "marker"
      BY DEF LiveMarkers
    <3>2. PICK g \in 1..(Size + 1) : g = here'
      BY <1>0 DEF TypeOK
    <3>3. a \in 1..(g - 1)
      BY <3>1, <3>2 DEF LiveWords
    <3>4. a \in Addr /\ a < g
      BY <3>3, SizeAssumption DEF Addr
    <3> QED BY <3>1, <3>2, <3>4
  <2>5. CASE a < here
    <3>1. a \in LiveMarkers /\ a \in LiveWords
      <4>1. kind[a] = "marker"
        BY <2>2, <2>4, <2>5
      <4> QED BY <1>0, <2>4, <2>5, <4>1 DEF LiveMarkers, LiveWords, IsWord, Addr
    <3>0. a \in Finished
      BY <3>1 DEF PastKept
    <3>a. ASSUME NEW l \in LiveLists', l < a PROVE l \in LiveLists
      <4>1. l \in Addr /\ l < here' /\ kind'[l] = "list"
        <5>1. PICK g \in 1..(Size + 1) : g = here'
          BY <1>0 DEF TypeOK
        <5>2. l \in 1..(g - 1)
          BY <5>1 DEF LiveLists
        <5>3. l \in Addr /\ l < g
          BY <5>2, SizeAssumption DEF Addr
        <5>4. kind'[l] = "list"
          BY DEF LiveLists
        <5> QED BY <5>1, <5>3, <5>4
      <4>2. l < here
        BY <1>0, <2>4, <2>5, <3>a, <4>1
      <4>3. kind[l] = "list"
        BY <2>2, <4>1, <4>2
      <4> QED BY <1>0, <4>1, <4>2, <4>3 DEF LiveLists, Addr
    <3>2. CASE ChainsStay
      <4>1. \A l : l < a => (l \in LiveLists' <=> l \in LiveLists)
        BY <3>2, <3>a DEF ChainsStay
      <4>2. \A l \in LiveLists' : l < a => contents'[l] = contents[l]
        BY <3>2, <3>a, StayContents, RefinedState, RefinedStateNext
      <4>3. a \in Finished'
        BY <3>0, <3>2 DEF ChainsStay
      <4> QED BY <1>2, <2>5, <3>1, <4>1, <4>2, <4>3, PastKeptIf
    <3>3. CASE \E c, n : ChainsGain(c, n)
      <4>1. PICK c, n : ChainsGain(c, n)
        BY <3>3
      <4>2. /\ LiveLists' = LiveLists
            /\ \A l \in LiveLists :
                 Contents'[l] = IF l = current THEN Contents[l] \cup {<<n, c>>} ELSE Contents[l]
        BY <4>1, GainContents, RefinedState, RefinedStateNext
      <4>3. c \in Nat /\ ~(c < a)
        BY <1>0, <2>4, <3>0, <4>1 DEF ChainsGain
      <4>4. \A l \in LiveLists' : l < a =>
              {d \in contents'[l] : d[2] < a} = {d \in contents[l] : d[2] < a}
        <5>1. \A l \in LiveLists : contents'[l] = Contents'[l] /\ contents[l] = Contents[l]
          BY <4>2, RefinedState, RefinedStateNext
        <5>2. \A l \in LiveLists : contents'[l] = IF l = current THEN contents[l] \cup {<<n, c>>}
                                                 ELSE contents[l]
          BY <4>2, <5>1
        <5>3. \A l \in LiveLists : {d \in contents'[l] : d[2] < a} = {d \in contents[l] : d[2] < a}
          <6> SUFFICES ASSUME NEW l \in LiveLists
                       PROVE  {d \in contents'[l] : d[2] < a} = {d \in contents[l] : d[2] < a}
            OBVIOUS
          <6>1. CASE l = current
            <7>1. contents'[l] = contents[l] \cup {<<n, c>>}
              BY <5>2, <6>1
            <7> QED BY <4>3, <7>1, OneMore
          <6> QED BY <5>2, <6>1
        <5> QED BY <4>2, <5>3
      <4>5. a \in Finished'
        BY <3>0, <4>1 DEF ChainsGain
      <4>6. \A l : l < a => (l \in LiveLists' <=> l \in LiveLists)
        BY <4>2
      <4> QED BY <1>2, <2>5, <3>1, <4>4, <4>5, <4>6, PastKeptIf
    <3>4. CASE \E where \in LiveWords : ChainsLose(where)
      <4>1. PICK where \in Addr : ChainsLose(where)
        BY <1>0, <3>4
      <4>2. a < where /\ where \in Nat /\ a \in Nat
        BY <1>0, <2>4, <4>1 DEF ChainsLose
      <4>3. /\ LiveLists' = {m \in LiveLists : m < where}
            /\ contents' = [l \in {m \in LiveLists : m < where} |->
                                {d \in contents[l] : d[2] < where}]
        BY <4>1, LoseWhole
      <4>4. \A l : l < a => (l \in LiveLists' <=> l \in LiveLists)
        <5>1. \A l \in LiveLists : l \in Nat
          BY <1>0
        <5> QED BY <4>2, <4>3, <5>1
      <4>5. ASSUME NEW l \in LiveLists', l < a
            PROVE  {d \in contents'[l] : d[2] < a} = {d \in contents[l] : d[2] < a}
        <5>1. \A d \in contents[l] : d[2] \in Nat
          BY <1>0, <4>3, ContentsFinished, SizeAssumption DEF Finished, EntrySet, Pointer
        <5>2. contents'[l] = {d \in contents[l] : d[2] < where}
          BY <4>3
        <5> QED BY <4>2, <5>1, <5>2
      <4>6. a \in Finished'
        BY <3>0, <4>1, <4>2 DEF ChainsLose
      <4> QED BY <1>2, <2>5, <3>1, <4>4, <4>5, <4>6, PastKeptIf
    <3> QED BY <1>0, <2>1, <3>2, <3>3, <3>4, NextChains
  <2>6. CASE ~(a < here)
    <3>1. PICK n \in Names : a = here /\ CreateMarker(n)
      BY <1>0, <2>3, <2>4, <2>6
    <3>2. ChainsGain(here, n)
      BY <1>0, <3>1, CreateGains
    <3>3. here \in Addr /\ a \in Finished'
      BY <2>4, <3>1, <3>2 DEF ChainsGain
    <3>4. past'[a] = contents
      BY <1>2, <2>4, <2>6 DEF NextR
    <3>5. /\ LiveLists' = LiveLists
          /\ \A l \in LiveLists :
               Contents'[l] = IF l = current THEN Contents[l] \cup {<<n, a>>} ELSE Contents[l]
      BY <3>1, <3>2, GainContents, RefinedState, RefinedStateNext
    <3>6. \A l \in LiveLists : \A d \in contents[l] : d[2] < a
      BY <3>1, <3>2, ContentsFinished DEF ChainsGain
    <3>7. \A l \in LiveLists : {d \in contents'[l] : d[2] < a} = contents[l]
      <4>1. ~(a < a)
        BY <1>0, <2>4
      <4>2. \A l \in LiveLists : contents'[l] = Contents'[l] /\ contents[l] = Contents[l]
        BY <3>5, RefinedState, RefinedStateNext
      <4>3. \A l \in LiveLists : contents'[l] = IF l = current THEN contents[l] \cup {<<n, a>>}
                                               ELSE contents[l]
        BY <3>5, <4>2
      <4>4. \A l \in LiveLists : {d \in contents'[l] : d[2] < a} = {d \in contents[l] : d[2] < a}
        <5> SUFFICES ASSUME NEW l \in LiveLists
                     PROVE  {d \in contents'[l] : d[2] < a} = {d \in contents[l] : d[2] < a}
          OBVIOUS
        <5>1. CASE l = current
          <6>1. contents'[l] = contents[l] \cup {<<n, a>>}
            BY <4>3, <5>1
          <6> QED BY <4>1, <6>1, OneMore
        <5> QED BY <4>3, <5>1
      <4> QED BY <3>6, <4>4
    <3>8. {k \in LiveLists' : k < a} = LiveLists
      BY <1>0, <3>1, <3>5
    <3>9. Before(a)' = [l \in LiveLists |-> contents[l]]
      BY <3>7, <3>8 DEF Before
    <3> QED BY <3>3, <3>4, <3>9, RefinedState
  <2> QED BY <2>5, <2>6
<1> QED BY <1>1, <1>2

\* Running a marker forgets from the marker on, which brings its past back.
LEMMA MarkerGoesBack ==
    ASSUME RefInv, RefInv', PastKept, Careful, NEW n \in Markers, RunMarker(n)
    PROVE  LET m == Lookup(n) IN
           /\ contents' = past[m]
           /\ current' = saved[m].current /\ order' = saved[m].order
<1>0. TypeOK /\ WellLinked /\ IInv /\ TypeOK' /\ LiveWords \subseteq Addr
  BY RefinedState, RefinedStateNext, LiveAddr DEF RefInv
<1>1. PICK m : m = Lookup(n)
  OBVIOUS
<1>2. m \in LiveWords /\ kind[m] = "marker" /\ m \in Addr
  BY <1>0, <1>1, LookupIsSound, MarkersAssumption DEF RunMarker, EntrySet, Entry
<1>3. here' = m
  BY <1>1 DEF RunMarker, FreeFrom
<1>4. PICK where \in Addr : ChainsLose(where)
  <2>1. (\E k \in Names : Forget(k)) \/ (\E k \in Markers : RunMarker(k))
    OBVIOUS
  <2> QED BY <1>0, <2>1, ForgetLoses
<1>5. where = m
  BY <1>3, <1>4 DEF ChainsLose
<1>6. contents' = Before(m)
  BY <1>4, <1>5, LoseWhole DEF Before
<1>7. past[m] = Before(m)
  BY <1>2 DEF PastKept, LiveMarkers
<1>8. current' = saved[m].current /\ order' = saved[m].order
  BY <1>1 DEF RunMarker
<1> QED BY <1>1, <1>6, <1>7, <1>8

-----------------------------------------------------------------------------
(* The theorems *)

(* The chains, the search orders and what the wordlists hold fit together   *)
(* in every state.                                                          *)
LEMMA NextRefined ==
    ASSUME RefInv, Careful, [NextR]_varsR
    PROVE  RefInv'
<1>1. [Next]_vars
  BY DEF NextR, varsR
<1>2. IInv'
  BY <1>1, NextIInv DEF RefInv
<1>3. Homed' /\ OrdersFit'
  BY <1>1, <1>2, NextHomed, NextFits DEF RefInv, IInv
<1>4. contents' = Contents'
  <2>1. CASE NextR
    BY <2>1 DEF NextR
  <2>2. CASE UNCHANGED varsR
    <3>1. UNCHANGED <<here, kind, word, list, contents>>
      BY <2>2 DEF varsR, vars
    <3>2. LiveLists' = LiveLists /\ LiveWords' = LiveWords /\ WordLink' = WordLink
      BY <3>1 DEF LiveLists, LiveWords, IsWord, WordLink
    <3>3. \A l, b, a : InChain(l, b, a)' <=> InChain(l, b, a)
      BY <3>1, <3>2 DEF InChain
    <3>4. \A l : Entries(l)' = Entries(l)
      BY <3>2, <3>3 DEF Entries, Bucket
    <3>5. Contents' = Contents
      BY <3>1, <3>2, <3>4 DEF Contents
    <3> QED BY <3>1, <3>5 DEF RefInv
  <2> QED BY <2>1, <2>2
<1> QED BY <1>2, <1>3, <1>4 DEF RefInv

\* The invariant of the refinement holds in every state.
LEMMA AlwaysRefined ==
    ASSUME Careful
    PROVE  SpecR => []RefInv
<1>1. InitR => RefInv
  BY RefinesAtFirst
<1>2. RefInv /\ [NextR]_varsR => RefInv'
  BY NextRefined
<1> QED BY <1>1, <1>2, PTL DEF SpecR

(* The dictionary's chains, links and search order implement WordlistSpec:  *)
(* every step adds one whole definition to the compilation wordlist, makes  *)
(* a wordlist, forgets everything from some age on, gives a wordlist a      *)
(* parent or leaves every wordlist as it is.                                *)
THEOREM DictionaryKeepsPromise ==
    ASSUME Careful
    PROVE  SpecR => KeepsPromise
<1>1. InitR => Promise!Init
  BY RefinesAtFirst
<1>2. RefInv /\ RefInv' /\ [NextR]_varsR => [Promise!Next]_Promise!vars
  BY PromiseKept
<1> QED BY <1>1, <1>2, AlwaysRefined, PTL DEF SpecR, KeepsPromise, Promise!Spec

(* What ficlDictionaryLookup finds is what the promise says the name means. *)
THEOREM AlwaysLookupKeepsPromise ==
    ASSUME Careful
    PROVE  SpecR => []LookupKeepsPromise
<1>1. RefInv => LookupKeepsPromise
  BY LookupMeans DEF LookupKeepsPromise
<1> QED BY <1>1, AlwaysRefined, PTL

(* Running a marker brings the wordlists back to what they held when it was  *)
(* made, with the search order and the compilation wordlist of that moment,  *)
(* whatever has been defined, redefined, aborted and forgotten since.        *)
THEOREM AlwaysMarkerRestores ==
    ASSUME Careful
    PROVE  SpecR => MarkerRestores
<1>1. InitR => PastKept
  <2> SUFFICES ASSUME InitR PROVE LiveMarkers = {}
    BY DEF PastKept
  <2>1. LiveWords \subseteq Addr
    BY RefinesAtFirst, RefinedState, LiveAddr
  <2> QED BY <2>1 DEF InitR, Init, LiveMarkers
<1>2. RefInv /\ RefInv' /\ PastKept /\ [NextR]_varsR => PastKept'
  BY NextPastKept
<1>3. RefInv /\ RefInv' /\ PastKept /\ [NextR]_varsR =>
        [\A n \in Markers : RunMarker(n) =>
            LET m == Lookup(n) IN
            /\ contents' = past[m]
            /\ current' = saved[m].current /\ order' = saved[m].order]_varsR
  BY MarkerGoesBack
<1> QED BY <1>1, <1>2, <1>3, AlwaysRefined, PTL DEF SpecR, MarkerRestores
=============================================================================

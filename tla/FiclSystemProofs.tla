--------------------------- MODULE FiclSystemProofs ---------------------------
(***************************************************************************)
(* What FiclSystem says of the lock, of the dictionary that virtual        *)
(* machines share and of the lists of virtual machines holds for any       *)
(* number of systems and of virtual machines, each in a thread of its own, *)
(* as long as hosts and programs keep the rules.                           *)
(***************************************************************************)
EXTENDS FiclSystem, TLAPS

Careful == Obligations = AllObligations

Members(s) == Range(vmList[s])

(* How often an operation that is where p says took the lock. *)
LevelsOf(p) == CASE p.at \in {"idle", "wait", "cell"} -> 0
                 [] p.at = "header" /\ p.nested -> 2
                 [] p.at = "inside" /\ p.nested -> 2
                 [] OTHER -> 1

OneLess(p, q) == LevelsOf(p) = LevelsOf(q) - 1

Held(l, v) == IF l.owner = v THEN l.count ELSE 0

Place == [at : {"idle", "wait", "inside", "header", "cell", "built"},
          op : LockedOps \cup {"none"}, saw : Int, nested : BOOLEAN, from : Int]
Lock  == [owner : VMs \cup {None}, count : Nat]
Dictionary == [cells : Seq(VMs), smudge : Int, smudged : BOOLEAN,
               lists : [1..MaxLists -> Lists \cup {None}], count : Int]

(* Where an operation can be. *)
PlaceSound(p) ==
    /\ p \in Place
    /\ p.at \in {"idle", "cell"} <=> p.op = "none"
    /\ p.at = "idle" => p.saw = 0
    /\ p.at = "cell" => p.from # 0
    /\ p.at = "header" => p.op \in {"word", ":"}
    /\ p.at = "built" => p.nested
    /\ p.nested => p.at \in {"inside", "header", "built"} /\ p.op = "word"
    /\ p.from # 0 => p.op \in {"none", "abort", "lookup local"}
    /\ p.op \in {"abort", "lookup local"} => p.from # 0

LockSound(l) == l \in Lock /\ (l.owner = None <=> l.count = 0)

(* The definition that v opened at f, if it did, is the last one of d. *)
OpenIn(v, f, d) ==
    f # 0 => /\ d.smudged /\ d.smudge = f /\ f \in 1..Len(d.cells)
             /\ \A a \in f..Len(d.cells) : d.cells[a] = v

(* What a VM v that is at p knows of its dictionary d. *)
Knows(v, p, d) ==
    /\ p.at \in {"header", "cell"} => p.saw = Len(d.cells) + 1
    /\ OpenIn(v, p.from, d)
    /\ p.op = "get-order" => p.saw = d.count
    /\ p.op = "search>" => d.count > 0
    /\ p.op = ">search" => d.count < MaxLists

(* What two VMs of one system never do at a time. *)
Apart(p, q) ==
    /\ p.op # "lookup"
    /\ p.op \in OrderOps => q.op \notin OrderOps \cup {"get-order"}
    /\ p.from # 0 \/ p.op = ":" => q.from = 0 /\ q.op \notin AddingOps

(* What the other VMs of a system let one of them, v, do. *)
ApartFromAll(v, p)  == \A w \in Others(v) : Apart(p, pc[w]) /\ Apart(pc[w], p)
NobodyAdds(v)       == \A w \in Others(v) : pc[w].from = 0 /\ pc[w].at \notin {"header", "cell"}
NobodyCounts(v)     == \A w \in Others(v) : pc[w].op \notin OrderOps \cup {"get-order"}
SameWords(d, e)     == d.cells = e.cells /\ d.smudge = e.smudge /\ d.smudged = e.smudged

(* The cells there are, and one of v. *)
OneMore(cells, v) == SubSeq(cells, 1, Len(cells) + 1 - 1) \o <<v>>

Typed ==
    /\ status \in [Systems -> {"none", "live", "freed"}] /\ global \in Systems \cup {None}
    /\ textOut \in [Systems \cup VMs -> Channels \cup {None}]
    /\ vmList \in [Systems -> Seq(VMs)]
    /\ lock \in [Systems -> Lock] /\ dict \in [Systems -> Dictionary]
    /\ pc \in [VMs -> Place]

(* The lists of VMs, and the global system. *)
ListsSound ==
    /\ \A s \in Systems :
          /\ IsInjective(vmList[s])
          /\ vmList[s] # << >> => status[s] = "live"
          /\ \A t \in Systems \ {s} : Members(s) \cap Members(t) = {}
          /\ status[s] = "live" => global # None /\ status[global] = "live"
    /\ \A v \in VMs : ~Linked(v) => textOut[v] = None /\ pc[v] = Idle

(* A system with its lock and its dictionary. *)
SystemSound(s) ==
    /\ LockSound(lock[s])
    /\ lock[s].owner # None => lock[s].owner \in Members(s)
    /\ \A v \in Members(s) :
          /\ PlaceSound(pc[v]) /\ Knows(v, pc[v], dict[s])
          /\ LevelsOf(pc[v]) <= Held(lock[s], v)
          /\ \A w \in Members(s) \ {v} :
                Apart(pc[v], pc[w]) /\ LevelsOf(pc[v]) = Held(lock[s], v)

(* The invariant, which every step keeps.                                    *)
IInv == Typed /\ ListsSound /\ \A s \in Systems : SystemSound(s)

-----------------------------------------------------------------------------
(* Lists of VMs.                                                             *)

(* A VM is in the list of its system and in no other. *)
LEMMA MemberFacts ==
    ASSUME Typed, ListsSound, NEW v \in VMs, Linked(v)
    PROVE  /\ SystemOf(v) \in Systems /\ v \in Members(SystemOf(v))
           /\ \A s \in Systems : v \in Members(s) => s = SystemOf(v)
<1>1. \E s \in Systems : v \in Range(vmList[s])
  BY DEF Linked
<1>2. SystemOf(v) \in Systems /\ v \in Range(vmList[SystemOf(v)])
  BY <1>1 DEF SystemOf
<1> QED BY <1>2 DEF ListsSound, Members

(* The members of a list are VMs. *)
LEMMA MembersAreVms ==
    ASSUME Typed, NEW s \in Systems
    PROVE  Members(s) \subseteq VMs
<1>1. vmList[s] \in Seq(VMs)
  BY DEF Typed
<1> QED BY <1>1 DEF Members, Range

(* One more. *)
LEMMA AddFacts ==
    ASSUME NEW list \in Seq(VMs), IsInjective(list), NEW v \in VMs, v \notin Range(list)
    PROVE  /\ <<v>> \o list \in Seq(VMs) /\ IsInjective(<<v>> \o list)
           /\ Range(<<v>> \o list) = Range(list) \cup {v} /\ <<v>> \o list # << >>
<1> DEFINE new == <<v>> \o list
<1>1. /\ new \in Seq(VMs) /\ Len(new) = Len(list) + 1 /\ new[1] = v /\ Len(list) \in Nat
      /\ \A i \in 1..Len(list) : new[i + 1] = list[i]
  OBVIOUS
<1>2. DOMAIN new = 1..(Len(list) + 1) /\ DOMAIN list = 1..Len(list)
  BY <1>1
<1> HIDE DEF new
<1>3. \A i \in DOMAIN new : i = 1 \/ (i - 1 \in DOMAIN list /\ new[i] = list[i - 1])
  BY <1>1, <1>2
<1>4. \A i \in DOMAIN list : i + 1 \in DOMAIN new /\ list[i] = new[i + 1] /\ list[i] # v
  BY <1>1, <1>2 DEF Range
<1>5. Range(new) = Range(list) \cup {v}
  BY <1>1, <1>2, <1>3, <1>4 DEF Range
<1>6. IsInjective(new)
  <2> SUFFICES ASSUME NEW i \in DOMAIN new, NEW j \in DOMAIN new, new[i] = new[j]
               PROVE  i = j
    BY DEF IsInjective
  <2>1. CASE i = 1 /\ j = 1
    BY <2>1
  <2>2. CASE i = 1 /\ j # 1
    BY <1>1, <1>3, <1>4, <2>2
  <2>3. CASE i # 1 /\ j = 1
    BY <1>1, <1>3, <1>4, <2>3
  <2>4. CASE i # 1 /\ j # 1
    <3>1. i - 1 = j - 1
      BY <1>3, <2>4 DEF IsInjective
    <3> QED BY <1>1, <1>2, <3>1
  <2> QED BY <2>1, <2>2, <2>3, <2>4
<1>7. new # << >>
  BY <1>1
<1> QED BY <1>1, <1>5, <1>6, <1>7 DEF new

(* One less. *)
LEMMA RemoveFacts ==
    ASSUME NEW list \in Seq(VMs), IsInjective(list), NEW v \in Range(list)
    PROVE  /\ Unlinked(list, v) \in Seq(VMs) /\ IsInjective(Unlinked(list, v))
           /\ Range(Unlinked(list, v)) = Range(list) \ {v}
<1>1. PICK k \in DOMAIN list : list[k] = v /\ k = CHOOSE j \in DOMAIN list : list[j] = v
  BY DEF Range
<1> DEFINE new == Unlinked(list, v)
           n == Len(list) - 1
<1>2. DOMAIN list = 1..Len(list) /\ Len(list) \in Nat /\ k \in 1..Len(list) /\ n \in Nat
  BY <1>1
<1>3. new = [i \in 1..n |-> IF i < k THEN list[i] ELSE list[i + 1]]
  BY <1>1 DEF Unlinked
<1>4. \A i \in 1..n : i \in DOMAIN list /\ i + 1 \in DOMAIN list
  BY <1>2
<1>5. new \in [1..n -> VMs]
  BY <1>3, <1>4
<1>6. new \in Seq(VMs) /\ DOMAIN new = 1..n
  BY <1>2, <1>5
<1>7. \A i \in 1..n : new[i] = IF i < k THEN list[i] ELSE list[i + 1]
  BY <1>3
<1> HIDE DEF new, n
<1>8. \A i, j \in DOMAIN list : list[i] = list[j] => i = j
  BY DEF IsInjective
<1>9. IsInjective(new)
  <2> SUFFICES ASSUME NEW i \in 1..n, NEW j \in 1..n, new[i] = new[j]
               PROVE  i = j
    BY <1>6 DEF IsInjective
  <2>1. (IF i < k THEN i ELSE i + 1) = (IF j < k THEN j ELSE j + 1)
    BY <1>4, <1>7, <1>8
  <2> QED BY <1>2, <2>1
<1>10. Range(new) \subseteq Range(list) \ {v}
  <2> SUFFICES ASSUME NEW i \in 1..n
               PROVE  new[i] \in Range(list) /\ new[i] # v
    BY <1>6 DEF Range
  <2> DEFINE j == IF i < k THEN i ELSE i + 1
  <2>1. j \in DOMAIN list /\ new[i] = list[j] /\ j # k
    BY <1>2, <1>4, <1>7
  <2> QED BY <1>1, <1>8, <2>1 DEF Range
<1>11. Range(list) \ {v} \subseteq Range(new)
  <2> SUFFICES ASSUME NEW j \in DOMAIN list, j # k
               PROVE  \E i \in 1..n : new[i] = list[j]
    BY <1>1, <1>6 DEF Range
  <2>1. CASE j < k
    <3>1. j \in 1..n
      BY <1>2, <2>1 DEF n
    <3> QED BY <1>7, <2>1, <3>1
  <2>2. CASE j > k
    <3>1. j - 1 \in 1..n /\ ~(j - 1 < k) /\ j - 1 + 1 = j
      BY <1>2, <2>2 DEF n
    <3> QED BY <1>7, <3>1
  <2> QED BY <1>2, <2>1, <2>2
<1> QED BY <1>6, <1>9, <1>10, <1>11 DEF new

-----------------------------------------------------------------------------
(* A step of a VM in its system.                                             *)

(* What the steps below use of the state. *)
LEMMA VmFacts ==
    ASSUME IInv, NEW v \in VMs, Linked(v)
    PROVE  /\ SystemOf(v) \in Systems /\ v \in Members(SystemOf(v))
           /\ Others(v) = Members(SystemOf(v)) \ {v} /\ Others(v) \subseteq VMs
           /\ LockSound(lock[SystemOf(v)]) /\ dict[SystemOf(v)] \in Dictionary
           /\ PlaceSound(pc[v]) /\ Knows(v, pc[v], dict[SystemOf(v)])
           /\ LevelsOf(pc[v]) <= Held(lock[SystemOf(v)], v)
           /\ Others(v) # {} => LevelsOf(pc[v]) = Held(lock[SystemOf(v)], v)
           /\ \A w \in Others(v) :
                 /\ Apart(pc[v], pc[w]) /\ Apart(pc[w], pc[v]) /\ PlaceSound(pc[w])
                 /\ LevelsOf(pc[w]) = Held(lock[SystemOf(v)], w)
           /\ lock = [lock EXCEPT ![SystemOf(v)] = lock[SystemOf(v)]]
           /\ dict = [dict EXCEPT ![SystemOf(v)] = dict[SystemOf(v)]]
<1> DEFINE s == SystemOf(v)
<1>1. s \in Systems /\ v \in Members(s)
  BY MemberFacts DEF IInv
<1> HIDE DEF s
<1>2. SystemSound(s) /\ Typed
  BY <1>1 DEF IInv
<1>3. Others(v) = Members(s) \ {v} /\ Others(v) \subseteq VMs
  BY <1>1, <1>2, MembersAreVms DEF Others, Members, s
<1>4. LockSound(lock[s]) /\ dict[s] \in Dictionary
  BY <1>1, <1>2 DEF SystemSound, Typed
<1>5. /\ PlaceSound(pc[v]) /\ Knows(v, pc[v], dict[s])
      /\ LevelsOf(pc[v]) <= Held(lock[s], v)
      /\ Others(v) # {} => LevelsOf(pc[v]) = Held(lock[s], v)
  BY <1>1, <1>2, <1>3 DEF SystemSound
<1>6. \A w \in Others(v) :
         /\ Apart(pc[v], pc[w]) /\ Apart(pc[w], pc[v]) /\ PlaceSound(pc[w])
         /\ LevelsOf(pc[w]) = Held(lock[s], w)
  BY <1>1, <1>2, <1>3 DEF SystemSound
<1>7. lock = [lock EXCEPT ![s] = lock[s]] /\ dict = [dict EXCEPT ![s] = dict[s]]
  BY <1>1, <1>2 DEF Typed
<1> QED BY <1>1, <1>3, <1>4, <1>5, <1>6, <1>7 DEF s

(* A step that leaves the lists alone, that leaves the lock to who has it,   *)
(* and that touches no more of the dictionary than others can spare.         *)
LEMMA VmStep ==
    ASSUME IInv, NEW v \in VMs, Linked(v), UNCHANGED systemVars,
           NEW l, NEW d, NEW p,
           lock' = [lock EXCEPT ![SystemOf(v)] = l],
           dict' = [dict EXCEPT ![SystemOf(v)] = d],
           pc' = [pc EXCEPT ![v] = p],
           LockSound(l), d \in Dictionary, PlaceSound(p), Knows(v, p, d),
           \/ l = lock[SystemOf(v)]
           \/ lock[SystemOf(v)].owner \in {None, v} /\ l.owner \in {None, v},
           LevelsOf(p) <= Held(l, v),
           Others(v) # {} => LevelsOf(p) = Held(l, v),
           ApartFromAll(v, p),
           SameWords(d, dict[SystemOf(v)]) \/ NobodyAdds(v),
           d.count = dict[SystemOf(v)].count \/ NobodyCounts(v)
    PROVE  IInv'
<1>1. PICK s \in Systems :
         /\ s = SystemOf(v) /\ v \in Members(s) /\ Others(v) = Members(s) \ {v}
         /\ LockSound(lock[s]) /\ dict[s] \in Dictionary /\ Typed /\ ListsSound
  BY VmFacts DEF IInv
<1>2. \A t \in Systems : v \in Members(t) => t = s
  BY <1>1, MemberFacts
<1>3. /\ status' = status /\ global' = global /\ textOut' = textOut /\ vmList' = vmList
      /\ \A t \in Systems : Members(t)' = Members(t)
      /\ \A w \in VMs : Linked(w)' <=> Linked(w)
  BY DEF systemVars, Members, Linked
<1>4. /\ lock'[s] = l /\ dict'[s] = d /\ pc'[v] = p
      /\ \A t \in Systems : t # s => lock'[t] = lock[t] /\ dict'[t] = dict[t]
      /\ \A w \in VMs : w # v => pc'[w] = pc[w]
  BY <1>1 DEF Typed
<1>5. Typed'
  <2>1. l \in Lock /\ p \in Place
    BY DEF LockSound, PlaceSound
  <2> QED BY <1>1, <1>3, <2>1 DEF Typed
<1>6. ListsSound'
  <2>1. \A w \in VMs : ~Linked(w)' => textOut'[w] = None /\ pc'[w] = Idle
    BY <1>1, <1>3, <1>4 DEF ListsSound
  <2> QED BY <1>1, <1>3, <2>1 DEF ListsSound
<1>7. ASSUME NEW t \in Systems
      PROVE  SystemSound(t)'
  <2>1. CASE t # s
    <3>1. Members(t)' = Members(t) /\ lock'[t] = lock[t] /\ dict'[t] = dict[t]
      BY <1>3, <1>4, <2>1
    <3>2. \A w \in Members(t) : pc'[w] = pc[w]
      BY <1>1, <1>2, <1>4, <2>1, MembersAreVms
    <3>3. SystemSound(t)
      BY DEF IInv
    <3> QED BY <3>1, <3>2, <3>3 DEF SystemSound
  <2>2. CASE t = s
    <3>1. Members(s)' = Members(s) /\ lock'[s] = l /\ dict'[s] = d /\ pc'[v] = p
      BY <1>3, <1>4
    <3>2. \A w \in Members(s) : w # v => pc'[w] = pc[w] /\ w \in Others(v)
      BY <1>1, <1>4, MembersAreVms
    <3>3. SystemSound(s)
      BY <1>1 DEF IInv
    <3>4. l.owner # None => l.owner \in Members(s)
      BY <1>1, <3>3 DEF SystemSound
    <3>5. \A w \in Members(s) : w # v => Held(l, w) = Held(lock[s], w)
      <4>1. v # None /\ \A w \in Members(s) : w # None
        BY <1>1, MembersAreVms, NoneAssumption
      <4> QED BY <1>1, <4>1 DEF Held
    <3>6. ASSUME NEW w \in Members(s), w # v
          PROVE  Knows(w, pc[w], d)
      <4>1. Knows(w, pc[w], dict[s]) /\ PlaceSound(pc[w])
        BY <3>3 DEF SystemSound
      <4>2. w \in Others(v)
        BY <3>2, <3>6
      <4>3. pc[w].at \in {"header", "cell"} \/ pc[w].from # 0
               => d.cells = dict[s].cells /\ d.smudge = dict[s].smudge /\ d.smudged = dict[s].smudged
        BY <1>1, <4>2 DEF SameWords, NobodyAdds
      <4>4. pc[w].op \in OrderOps \cup {"get-order"} => d.count = dict[s].count
        BY <1>1, <4>2 DEF NobodyCounts
      <4> QED BY <4>1, <4>3, <4>4 DEF Knows, OpenIn, OrderOps
    <3>7. ASSUME NEW w \in Members(s)
          PROVE  /\ PlaceSound(pc'[w]) /\ Knows(w, pc'[w], d)
                 /\ LevelsOf(pc'[w]) <= Held(l, w)
                 /\ \A u \in Members(s) \ {w} :
                       Apart(pc'[w], pc'[u]) /\ LevelsOf(pc'[w]) = Held(l, w)
      <4>1. CASE w = v
        <5>1. \A u \in Members(s) \ {v} : pc'[u] = pc[u] /\ u \in Others(v)
          BY <3>2
        <5> QED BY <3>1, <4>1, <5>1 DEF ApartFromAll
      <4>2. CASE w # v
        <5>1. pc'[w] = pc[w] /\ w \in Others(v) /\ Held(l, w) = Held(lock[s], w)
          BY <3>2, <3>5, <4>2
        <5>2. /\ PlaceSound(pc[w]) /\ LevelsOf(pc[w]) <= Held(lock[s], w)
              /\ \A u \in Members(s) \ {w} : Apart(pc[w], pc[u]) /\ LevelsOf(pc[w]) = Held(lock[s], w)
          BY <3>3 DEF SystemSound
        <5>3. \A u \in Members(s) \ {w} : Apart(pc[w], pc'[u])
          BY <3>1, <3>2, <5>1, <5>2 DEF ApartFromAll
        <5> QED BY <3>6, <4>2, <5>1, <5>2, <5>3
      <4> QED BY <4>1, <4>2
    <3> QED BY <2>2, <3>1, <3>4, <3>7 DEF SystemSound
  <2> QED BY <2>1, <2>2
<1> QED BY <1>5, <1>6, <1>7 DEF IInv

-----------------------------------------------------------------------------
(* What the steps of a VM are made of.                                       *)

(* How often a lock is taken, without the CASE. *)
LEMMA LevelFacts ==
    ASSUME NEW p, PlaceSound(p)
    PROVE  /\ p.at \in {"idle", "wait", "cell"} => LevelsOf(p) = 0
           /\ p.at = "inside" => LevelsOf(p) = IF p.nested THEN 2 ELSE 1
           /\ p.at = "header" => LevelsOf(p) = IF p.nested THEN 2 ELSE 1
           /\ p.at = "built" => LevelsOf(p) = 1
           /\ LevelsOf(p) \in {0, 1, 2}
BY DEF LevelsOf, PlaceSound, Place

(* Taking the lock. *)
LEMMA TakeFacts ==
    ASSUME NEW s \in Systems, NEW v \in VMs, LockSound(lock[s]), Available(s, v), Take(s, v)
    PROVE  \E l : /\ lock' = [lock EXCEPT ![s] = l] /\ LockSound(l) /\ l.owner = v
                  /\ Held(l, v) = Held(lock[s], v) + 1
<1> DEFINE l == [owner |-> v, count |-> lock[s].count + 1]
<1>1. lock' = [lock EXCEPT ![s] = l]
  BY DEF Take
<1>2. LockSound(l) /\ l.owner = v
  BY NoneAssumption DEF LockSound, Lock
<1>3. Held(l, v) = Held(lock[s], v) + 1
  BY NoneAssumption DEF LockSound, Lock, Held, Available
<1> QED BY <1>1, <1>2, <1>3

(* Giving up one level of it. *)
LEMMA ReleaseFacts ==
    ASSUME NEW v \in VMs, NEW old, LockSound(old), Held(old, v) >= 1
    PROVE  /\ LockSound(Released(old)) /\ Released(old).owner \in {None, v} /\ old.owner = v
           /\ Held(Released(old), v) = Held(old, v) - 1
<1> DEFINE l == Released(old)
<1>1. old.owner = v /\ old.count \in Nat /\ old.count >= 1
  BY DEF LockSound, Lock, Held
<1>2. LockSound(l) /\ l.owner \in {None, v}
  BY <1>1, NoneAssumption DEF LockSound, Lock, Free, Released
<1>3. Held(l, v) = Held(old, v) - 1
  BY <1>1, NoneAssumption DEF Held, Free, Released
<1> QED BY <1>1, <1>2, <1>3

(* Cells with one more. *)
LEMMA WrittenFacts ==
    ASSUME NEW cells \in Seq(VMs), NEW v \in VMs
    PROVE  /\ OneMore(cells, v) \in Seq(VMs) /\ Len(OneMore(cells, v)) = Len(cells) + 1
           /\ OneMore(cells, v)[Len(cells) + 1] = v
           /\ \A i \in 1..Len(cells) : OneMore(cells, v)[i] = cells[i]
<1>1. Len(cells) \in Nat /\ Len(cells) + 1 - 1 = Len(cells)
  OBVIOUS
<1>2. SubSeq(cells, 1, Len(cells)) = cells
  OBVIOUS
<1>3. /\ cells \o <<v>> \in Seq(VMs) /\ Len(cells \o <<v>>) = Len(cells) + 1
      /\ (cells \o <<v>>)[Len(cells) + 1] = v
      /\ \A i \in 1..Len(cells) : (cells \o <<v>>)[i] = cells[i]
  OBVIOUS
<1>4. OneMore(cells, v) = cells \o <<v>>
  BY <1>1, <1>2 DEF OneMore
<1> QED BY <1>3, <1>4

-----------------------------------------------------------------------------
(* The steps of a VM.                                                        *)

(* A VM that begins an operation keeps the rules of use. *)
LEMMA BeginStep ==
    ASSUME Careful, IInv, NEW v \in VMs, Begin(v)
    PROVE  IInv'
<1> DEFINE s == SystemOf(v)
<1>1. Linked(v) /\ pc[v].at = "idle" /\ UNCHANGED systemVars /\ lock' = lock /\ dict' = dict
  BY DEF Begin, At, Stays
<1>2. PICK op \in LockedOps :
         /\ Alone(v, op)
         /\ Open(v) => op \in {"abort", "lookup local"}
         /\ op \in {"abort", "lookup local"} => Open(v)
         /\ Moves(v, [pc[v] EXCEPT !.at = "wait", !.op = op,
                         !.saw = IF op = "get-order" THEN ListsCounted(dict[s]) ELSE 0])
  BY DEF Begin
<1> DEFINE p == [pc[v] EXCEPT !.at = "wait", !.op = op,
                    !.saw = IF op = "get-order" THEN dict[s].count ELSE 0]
<1>3. PlaceSound(pc[v]) /\ Knows(v, pc[v], dict[s]) /\ dict[s] \in Dictionary
  BY <1>1, VmFacts
<1>4. /\ p.at = "wait" /\ p.op = op /\ p.from = pc[v].from /\ p.nested = FALSE
      /\ p.saw = IF op = "get-order" THEN dict[s].count ELSE 0
      /\ p \in Place
  BY <1>1, <1>3 DEF PlaceSound, Place, Dictionary
<1> HIDE DEF p, s
<1>5. PlaceSound(p)
  BY <1>2, <1>4 DEF PlaceSound, LockedOps, OrderOps, AddingOps, Open
<1>6. LevelsOf(p) = LevelsOf(pc[v])
  BY <1>1, <1>3, <1>4, <1>5, LevelFacts
<1>7. /\ op = "search>" => dict[s].count > 0
      /\ op = ">search" => dict[s].count < MaxLists
  BY <1>2 DEF Alone, Careful, Keeps, AllObligations, OrderOps, s
<1>8. Knows(v, p, dict[s])
  BY <1>3, <1>4, <1>7 DEF Knows
<1>9. ApartFromAll(v, p)
  <2> SUFFICES ASSUME NEW w \in Others(v)
               PROVE  Apart(p, pc[w]) /\ Apart(pc[w], p)
    BY DEF ApartFromAll
  <2>1. Apart(pc[v], pc[w]) /\ Apart(pc[w], pc[v]) /\ PlaceSound(pc[w])
    BY <1>1, VmFacts
  <2>2. /\ op # "lookup"
        /\ op \in OrderOps => pc[w].op \notin OrderOps \cup {"get-order"}
        /\ op = "get-order" => pc[w].op \notin OrderOps
        /\ op \in AddingOps => pc[w].from = 0 /\ pc[w].op # ":"
        /\ op = ":" => pc[w].op \notin AddingOps
    BY <1>2 DEF Alone, Careful, Keeps, AllObligations, Open, AddingOps
  <2>3. op \in OrderOps => op \notin AddingOps /\ op # "get-order"
    BY DEF OrderOps, AddingOps
  <2>4. pc[v].from # 0 => op \notin AddingOps /\ op # ":"
    BY <1>2 DEF Open, AddingOps
  <2> QED BY <1>4, <2>1, <2>2, <2>3, <2>4 DEF Apart, AddingOps
<1>10. pc' = [pc EXCEPT ![v] = p]
  BY <1>2 DEF Moves, ListsCounted, p, s
<1> QED BY <1>1, <1>3, <1>5, <1>6, <1>8, <1>9, <1>10, VmFacts, VmStep DEF SameWords, s

(* The lock is taken: nobody else has it. *)
LEMMA EnterStep ==
    ASSUME Careful, IInv, NEW v \in VMs, Enter(v)
    PROVE  IInv'
<1> DEFINE s == SystemOf(v)
           p == [pc[v] EXCEPT !.at = "inside"]
<1>1. /\ Linked(v) /\ pc[v].at = "wait" /\ UNCHANGED systemVars /\ dict' = dict
      /\ pc' = [pc EXCEPT ![v] = p]
  BY DEF Enter, At, Stays, Moves
<1>2. /\ PlaceSound(pc[v]) /\ Knows(v, pc[v], dict[s]) /\ dict[s] \in Dictionary
      /\ s \in Systems /\ LockSound(lock[s])
  BY <1>1, VmFacts
<1>3. PICK l : /\ lock' = [lock EXCEPT ![s] = l] /\ LockSound(l) /\ l.owner = v
               /\ Held(l, v) = Held(lock[s], v) + 1
  BY <1>2, TakeFacts DEF Enter
<1>4. /\ p.at = "inside" /\ p.op = pc[v].op /\ p.from = pc[v].from /\ p.nested = FALSE
      /\ p.saw = pc[v].saw /\ p \in Place
  BY <1>1, <1>2 DEF PlaceSound, Place
<1> HIDE DEF p
<1>5. PlaceSound(p) /\ Knows(v, p, dict[s])
  BY <1>1, <1>2, <1>4 DEF PlaceSound, Knows
<1>6. LevelsOf(p) = LevelsOf(pc[v]) + 1
  BY <1>1, <1>2, <1>4, <1>5, LevelFacts
<1>7. LevelsOf(p) <= Held(l, v) /\ (Others(v) # {} => LevelsOf(p) = Held(l, v))
  <2>1. LevelsOf(pc[v]) <= Held(lock[s], v) /\ (Others(v) # {} => LevelsOf(pc[v]) = Held(lock[s], v))
    BY <1>1, VmFacts
  <2>2. LevelsOf(pc[v]) = 0 /\ Held(lock[s], v) \in Nat
    BY <1>1, <1>2, LevelFacts DEF Held, LockSound, Lock
  <2> QED BY <1>3, <1>6, <2>1, <2>2
<1>8. ApartFromAll(v, p)
  BY <1>1, <1>4, VmFacts DEF ApartFromAll, Apart
<1>9. dict' = [dict EXCEPT ![s] = dict[s]]
  BY <1>1, VmFacts
<1>10. lock[s].owner \in {None, v}
  BY DEF Enter, Available
<1> QED BY <1>1, <1>2, <1>3, <1>5, <1>7, <1>8, <1>9, <1>10, VmStep DEF SameWords

(* A step that has nothing to do with the lock. *)
LEMMA PlainStep ==
    ASSUME IInv, NEW v \in VMs, Linked(v), UNCHANGED systemVars, NEW d, NEW p,
           lock' = lock,
           dict' = [dict EXCEPT ![SystemOf(v)] = d],
           pc' = [pc EXCEPT ![v] = p],
           d \in Dictionary, PlaceSound(p), Knows(v, p, d),
           LevelsOf(p) = LevelsOf(pc[v]),
           ApartFromAll(v, p),
           SameWords(d, dict[SystemOf(v)]) \/ NobodyAdds(v),
           d.count = dict[SystemOf(v)].count
    PROVE  IInv'
BY VmFacts, VmStep

(* Leaving an operation, or the one it is nested in: one release. *)
LEMMA LeaveStep ==
    ASSUME IInv, NEW v \in VMs, Linked(v), UNCHANGED systemVars, NEW d, NEW p,
           lock' = [lock EXCEPT ![SystemOf(v)] = Released(lock[SystemOf(v)])],
           dict' = [dict EXCEPT ![SystemOf(v)] = d],
           pc' = [pc EXCEPT ![v] = p],
           d \in Dictionary, PlaceSound(p), Knows(v, p, d),
           OneLess(p, pc[v]),
           ApartFromAll(v, p),
           SameWords(d, dict[SystemOf(v)]) \/ NobodyAdds(v),
           d.count = dict[SystemOf(v)].count \/ NobodyCounts(v)
    PROVE  IInv'
<1> DEFINE s == SystemOf(v)
<1>1. /\ s \in Systems /\ LockSound(lock[s]) /\ PlaceSound(pc[v])
      /\ LevelsOf(pc[v]) <= Held(lock[s], v)
      /\ Others(v) # {} => LevelsOf(pc[v]) = Held(lock[s], v)
  BY VmFacts
<1>2. LevelsOf(pc[v]) \in {1, 2} /\ Held(lock[s], v) \in Nat
  BY <1>1, LevelFacts DEF Held, LockSound, Lock, OneLess
<1> DEFINE l == Released(lock[s])
<1>3. /\ lock' = [lock EXCEPT ![s] = l] /\ LockSound(l) /\ l.owner \in {None, v}
      /\ lock[s].owner = v /\ Held(l, v) = Held(lock[s], v) - 1
  BY <1>1, <1>2, ReleaseFacts
<1> HIDE DEF l
<1>4. LevelsOf(p) <= Held(l, v) /\ (Others(v) # {} => LevelsOf(p) = Held(l, v))
  BY <1>1, <1>2, <1>3 DEF OneLess
<1> QED BY <1>3, <1>4, VmStep

(* An idle VM, with or without a definition. *)
LEMMA IdleFacts ==
    ASSUME NEW f \in Int, NEW v, NEW d, OpenIn(v, f, d)
    PROVE  /\ PlaceSound(Resting(f)) /\ Knows(v, Resting(f), d) /\ LevelsOf(Resting(f)) = 0
           /\ Resting(f).from = f /\ Resting(f).op = "none" /\ Resting(f).at = "idle"
<1> DEFINE p == Resting(f)
<1>1. /\ p.at = "idle" /\ p.op = "none" /\ p.saw = 0 /\ p.nested = FALSE /\ p.from = f
      /\ p \in Place
  BY DEF Resting, Place
<1> HIDE DEF p
<1>2. PlaceSound(p)
  BY <1>1 DEF PlaceSound
<1>3. Knows(v, p, d)
  BY <1>1 DEF Knows
<1>4. LevelsOf(p) = 0
  BY <1>1 DEF LevelsOf
<1> QED BY <1>1, <1>2, <1>3, <1>4 DEF p

(* A VM that adds to the dictionary disturbs nobody who does: not one who    *)
(* has a definition open, and not one who read here.                         *)
LEMMA AloneInCells ==
    ASSUME IInv, NEW v \in VMs, Linked(v), NEW w \in Others(v),
           pc[v].from # 0 \/ (pc[v].at = "header" /\ pc[v].op \in AddingOps)
    PROVE  pc[w].from = 0 /\ pc[w].at \notin {"header", "cell"}
<1> DEFINE s == SystemOf(v)
<1>1. /\ Apart(pc[v], pc[w]) /\ Apart(pc[w], pc[v]) /\ PlaceSound(pc[w]) /\ PlaceSound(pc[v])
      /\ LevelsOf(pc[w]) = Held(lock[s], w) /\ LevelsOf(pc[v]) = Held(lock[s], v)
      /\ v # w
  BY VmFacts
<1>2. pc[w].from = 0 /\ pc[w].at # "cell"
  BY <1>1 DEF Apart, PlaceSound
<1>3. pc[w].at # "header"
  <2>1. CASE pc[v].from # 0
    BY <1>1, <2>1 DEF Apart, PlaceSound, AddingOps
  <2>2. CASE pc[v].at = "header"
    <3>1. Held(lock[s], v) # 0
      BY <1>1, <2>2, LevelFacts
    <3>2. Held(lock[s], w) = 0
      BY <1>1, <3>1 DEF Held
    <3> QED BY <1>1, <3>2, LevelFacts
  <2> QED BY <2>1, <2>2
<1> QED BY <1>2, <1>3

(* ficlBuild takes the lock once more. *)
LEMMA BuildStep ==
    ASSUME Careful, IInv, NEW v \in VMs, Build(v)
    PROVE  IInv'
<1> DEFINE s == SystemOf(v)
           p == [pc[v] EXCEPT !.op = "word", !.nested = TRUE]
<1>1. /\ Linked(v) /\ pc[v].at = "inside" /\ pc[v].op = "build"
      /\ UNCHANGED systemVars /\ dict' = dict /\ pc' = [pc EXCEPT ![v] = p]
  BY DEF Build, Inside, At, Stays, Moves
<1>2. /\ PlaceSound(pc[v]) /\ Knows(v, pc[v], dict[s]) /\ dict[s] \in Dictionary
      /\ s \in Systems /\ LockSound(lock[s])
      /\ LevelsOf(pc[v]) <= Held(lock[s], v)
      /\ Others(v) # {} => LevelsOf(pc[v]) = Held(lock[s], v)
  BY <1>1, VmFacts
<1>3. LevelsOf(pc[v]) = 1 /\ Held(lock[s], v) \in Nat
  BY <1>1, <1>2, LevelFacts DEF Held, LockSound, Lock, PlaceSound
<1>4. lock[s].owner = v
  BY <1>2, <1>3 DEF Held
<1>5. PICK l : /\ lock' = [lock EXCEPT ![s] = l] /\ LockSound(l) /\ l.owner = v
               /\ Held(l, v) = Held(lock[s], v) + 1
  BY <1>2, <1>4, TakeFacts DEF Build, Available
<1>6. /\ p.at = "inside" /\ p.op = "word" /\ p.from = 0 /\ p.nested = TRUE
      /\ p.saw = pc[v].saw /\ p \in Place
  BY <1>1, <1>2 DEF PlaceSound, Place, LockedOps, AddingOps
<1> HIDE DEF p
<1>7. PlaceSound(p) /\ Knows(v, p, dict[s])
  BY <1>6 DEF PlaceSound, Knows, OpenIn
<1>8. LevelsOf(p) <= Held(l, v) /\ (Others(v) # {} => LevelsOf(p) = Held(l, v))
  BY <1>2, <1>3, <1>5, <1>6, <1>7, LevelFacts
<1>9. ApartFromAll(v, p)
  BY <1>1, <1>6, VmFacts DEF ApartFromAll, Apart, AddingOps, OrderOps
<1>10. dict' = [dict EXCEPT ![s] = dict[s]]
  BY <1>1, VmFacts
<1> QED BY <1>1, <1>2, <1>4, <1>5, <1>7, <1>8, <1>9, <1>10, VmStep DEF SameWords

(* here is read, and stays where it is while nobody else adds. *)
LEMMA ReadHereStep ==
    ASSUME Careful, IInv, NEW v \in VMs, ReadHere(v)
    PROVE  IInv'
<1> DEFINE s == SystemOf(v)
           p == [pc[v] EXCEPT !.at = IF @ = "idle" THEN "cell" ELSE "header", !.saw = HereOf(v)]
<1>1. /\ Linked(v) /\ UNCHANGED systemVars /\ dict' = dict /\ lock' = lock
      /\ pc' = [pc EXCEPT ![v] = p]
      /\ \/ pc[v].at = "inside" /\ pc[v].op \in {"word", ":"}
         \/ pc[v].at = "idle" /\ pc[v].from # 0
  BY DEF ReadHere, Inside, At, Stays, Moves, Open
<1>2. /\ PlaceSound(pc[v]) /\ Knows(v, pc[v], dict[s]) /\ dict[s] \in Dictionary
      /\ s \in Systems /\ LockSound(lock[s])
  BY <1>1, VmFacts
<1>3. HereOf(v) = Len(dict[s].cells) + 1 /\ HereOf(v) \in Int
  BY <1>2 DEF HereOf, Dict, Dictionary
<1>4. /\ p.at = (IF pc[v].at = "idle" THEN "cell" ELSE "header")
      /\ p.op = pc[v].op /\ p.from = pc[v].from /\ p.nested = pc[v].nested
      /\ p.saw = Len(dict[s].cells) + 1 /\ p \in Place
  BY <1>2, <1>3 DEF PlaceSound, Place
<1> HIDE DEF p
<1>5. PlaceSound(p)
  BY <1>1, <1>2, <1>4 DEF PlaceSound
<1>6. Knows(v, p, dict[s])
  BY <1>1, <1>2, <1>4 DEF Knows, PlaceSound
<1>7. LevelsOf(p) = LevelsOf(pc[v])
  BY <1>1, <1>2, <1>4, <1>5, LevelFacts
<1>8. ApartFromAll(v, p)
  BY <1>1, <1>4, VmFacts DEF ApartFromAll, Apart
<1> QED BY <1>1, <1>2, <1>5, <1>6, <1>7, <1>8, VmFacts, VmStep DEF SameWords

(* A cell is stored where here still is. *)
LEMMA AppendCellStep ==
    ASSUME Careful, IInv, NEW v \in VMs, AppendCell(v)
    PROVE  IInv'
<1> DEFINE s == SystemOf(v)
           d == [dict[s] EXCEPT !.cells = Written(v)]
           p == Resting(pc[v].from)
<1>1. /\ Linked(v) /\ pc[v].at = "cell" /\ UNCHANGED systemVars /\ lock' = lock
      /\ dict' = [dict EXCEPT ![s] = d] /\ pc' = [pc EXCEPT ![v] = p]
  BY DEF AppendCell, At, Stays, Moves, Ends, Stores, Dict
<1>2. /\ PlaceSound(pc[v]) /\ Knows(v, pc[v], dict[s]) /\ dict[s] \in Dictionary
  BY <1>1, VmFacts
<1>3. pc[v].from # 0 /\ pc[v].from \in Int /\ pc[v].saw = Len(dict[s].cells) + 1
  BY <1>1, <1>2 DEF PlaceSound, Place, Knows
<1>4. dict[s].cells \in Seq(VMs)
  BY <1>2 DEF Dictionary
<1> HIDE DEF d, p
<1>5. /\ Written(v) \in Seq(VMs) /\ Len(Written(v)) = Len(dict[s].cells) + 1
      /\ Written(v)[Len(dict[s].cells) + 1] = v
      /\ \A i \in 1..Len(dict[s].cells) : Written(v)[i] = dict[s].cells[i]
  <2>1. Written(v) = OneMore(dict[s].cells, v)
    BY <1>3 DEF Written, Dict, OneMore
  <2> DEFINE cells == dict[s].cells
  <2>2. cells \in Seq(VMs)
    BY <1>4
  <2> HIDE DEF cells
  <2>3. /\ OneMore(cells, v) \in Seq(VMs) /\ Len(OneMore(cells, v)) = Len(cells) + 1
        /\ OneMore(cells, v)[Len(cells) + 1] = v
        /\ \A i \in 1..Len(cells) : OneMore(cells, v)[i] = cells[i]
    BY <2>2, WrittenFacts
  <2> QED BY <2>1, <2>3 DEF cells
<1>6. /\ d \in Dictionary /\ d.cells = Written(v) /\ d.count = dict[s].count
      /\ d.smudge = dict[s].smudge /\ d.smudged = dict[s].smudged
  BY <1>2, <1>5 DEF Dictionary, d
<1>7. OpenIn(v, pc[v].from, d)
  <2>1. /\ dict[s].smudged /\ dict[s].smudge = pc[v].from
        /\ pc[v].from \in 1..Len(dict[s].cells)
        /\ \A a \in pc[v].from..Len(dict[s].cells) : dict[s].cells[a] = v
    BY <1>2, <1>3 DEF Knows, OpenIn
  <2>2. Len(dict[s].cells) \in Nat
    BY <1>4
  <2>3. ASSUME NEW a \in pc[v].from..(Len(dict[s].cells) + 1)
        PROVE  d.cells[a] = v
    <3>1. CASE a = Len(dict[s].cells) + 1
      BY <1>5, <1>6, <3>1
    <3>2. CASE a # Len(dict[s].cells) + 1
      <4>1. a \in pc[v].from..Len(dict[s].cells) /\ a \in 1..Len(dict[s].cells)
        BY <2>1, <2>2, <3>2
      <4> QED BY <1>5, <1>6, <2>1, <4>1
    <3> QED BY <3>1, <3>2
  <2> QED BY <1>5, <1>6, <2>1, <2>2, <2>3 DEF OpenIn
<1>8. PlaceSound(p) /\ Knows(v, p, d) /\ LevelsOf(p) = 0 /\ p.from = pc[v].from /\ p.op = "none"
  BY <1>3, <1>7, IdleFacts DEF p
<1>9. LevelsOf(p) = LevelsOf(pc[v])
  BY <1>1, <1>2, <1>8, LevelFacts
<1>10. pc[v].op = "none"
  BY <1>1, <1>2 DEF PlaceSound
<1>11. ApartFromAll(v, p)
  BY <1>1, <1>8, <1>10, VmFacts DEF ApartFromAll, Apart
<1>12. NobodyAdds(v)
  BY <1>1, <1>3, AloneInCells DEF NobodyAdds
<1> QED BY <1>1, <1>6, <1>8, <1>9, <1>11, <1>12, PlainStep

(* So is a word, and only the word of : stays smudged. *)
LEMMA AppendWordStep ==
    ASSUME Careful, IInv, NEW v \in VMs, AppendWord(v)
    PROVE  IInv'
<1> DEFINE s == SystemOf(v)
           d == [dict[s] EXCEPT !.cells = Written(v), !.smudge = pc[v].saw,
                                !.smudged = (pc[v].op = ":")]
           p == IF pc[v].nested THEN [pc[v] EXCEPT !.at = "built"]
                ELSE Resting(IF pc[v].op = ":" THEN pc[v].saw ELSE 0)
<1>1. /\ Linked(v) /\ pc[v].at = "header" /\ UNCHANGED systemVars
      /\ lock' = [lock EXCEPT ![s] = Released(lock[s])]
      /\ dict' = [dict EXCEPT ![s] = d] /\ pc' = [pc EXCEPT ![v] = p]
  BY DEF AppendWord, At, Stays, Moves, Stores, Dict, Release
<1>2. /\ PlaceSound(pc[v]) /\ Knows(v, pc[v], dict[s]) /\ dict[s] \in Dictionary
  BY <1>1, VmFacts
<1>3. /\ pc[v].op \in {"word", ":"} /\ pc[v].from = 0 /\ pc[v].saw \in Int
      /\ pc[v].saw = Len(dict[s].cells) + 1 /\ pc[v] \in Place
      /\ pc[v].nested => pc[v].op = "word"
  BY <1>1, <1>2 DEF PlaceSound, Place, Knows
<1>4. dict[s].cells \in Seq(VMs) /\ Len(dict[s].cells) \in Nat
  BY <1>2 DEF Dictionary
<1> HIDE DEF d, p
<1>5. /\ Written(v) \in Seq(VMs) /\ Len(Written(v)) = Len(dict[s].cells) + 1
      /\ Written(v)[Len(dict[s].cells) + 1] = v
  <2>1. Written(v) = OneMore(dict[s].cells, v)
    BY <1>3 DEF Written, Dict, OneMore
  <2> DEFINE cells == dict[s].cells
  <2>2. cells \in Seq(VMs)
    BY <1>4
  <2> HIDE DEF cells
  <2>3. /\ OneMore(cells, v) \in Seq(VMs) /\ Len(OneMore(cells, v)) = Len(cells) + 1
        /\ OneMore(cells, v)[Len(cells) + 1] = v
        /\ \A i \in 1..Len(cells) : OneMore(cells, v)[i] = cells[i]
    BY <2>2, WrittenFacts
  <2> QED BY <2>1, <2>3 DEF cells
<1>6. /\ d \in Dictionary /\ d.cells = Written(v) /\ d.count = dict[s].count
      /\ d.smudge = pc[v].saw /\ (d.smudged <=> pc[v].op = ":")
  <2>1. (pc[v].op = ":") \in BOOLEAN
    OBVIOUS
  <2> QED BY <1>2, <1>3, <1>5, <2>1 DEF Dictionary, d
<1>7. /\ PlaceSound(p) /\ Knows(v, p, d) /\ LevelsOf(p) = LevelsOf(pc[v]) - 1
      /\ p.from # 0 => pc[v].op = ":"
      /\ p.op \in {"none", "word"}
  <2>1. CASE pc[v].nested
    <3>1. /\ p.at = "built" /\ p.op = "word" /\ p.from = 0 /\ p.nested
          /\ p.saw = pc[v].saw /\ p \in Place
      BY <1>3, <2>1 DEF Place, p
    <3>2. PlaceSound(p) /\ Knows(v, p, d)
      BY <3>1 DEF PlaceSound, Knows, OpenIn
    <3> QED BY <1>1, <1>2, <2>1, <3>1, <3>2, LevelFacts
  <2>2. CASE ~pc[v].nested
    <3> DEFINE f == IF pc[v].op = ":" THEN pc[v].saw ELSE 0
    <3>1. p = Resting(f) /\ f \in Int
      BY <1>3, <2>2 DEF p
    <3>2. OpenIn(v, f, d)
      BY <1>3, <1>4, <1>5, <1>6 DEF OpenIn
    <3>3. f # 0 => pc[v].op = ":"
      OBVIOUS
    <3> HIDE DEF f
    <3>4. PlaceSound(p) /\ Knows(v, p, d) /\ LevelsOf(p) = 0 /\ p.from = f /\ p.op = "none"
      BY <3>1, <3>2, IdleFacts
    <3> QED BY <1>1, <1>2, <2>2, <3>3, <3>4, LevelFacts
  <2> QED BY <2>1, <2>2
<1>8. NobodyAdds(v)
  BY <1>1, <1>3, AloneInCells DEF NobodyAdds, AddingOps
<1>9. ApartFromAll(v, p)
  <2> SUFFICES ASSUME NEW w \in Others(v)
               PROVE  Apart(p, pc[w]) /\ Apart(pc[w], p)
    BY DEF ApartFromAll
  <2>1. Apart(pc[v], pc[w]) /\ Apart(pc[w], pc[v])
    BY <1>1, VmFacts
  <2>2. pc[w].op # ":"
    BY <1>3, <2>1 DEF Apart, AddingOps
  <2> QED BY <1>3, <1>7, <1>8, <2>1, <2>2 DEF NobodyAdds, Apart, AddingOps, OrderOps
<1>10. d \in Dictionary /\ d.count = dict[s].count /\ OneLess(p, pc[v])
  BY <1>6, <1>7 DEF OneLess
<1> QED BY <1>1, <1>7, <1>8, <1>9, <1>10, LeaveStep

(* An operation that is over. *)
LEMMA EndFacts ==
    ASSUME IInv, NEW v \in VMs, Linked(v), NEW d, OpenIn(v, pc[v].from, d)
    PROVE  /\ PlaceSound(Resting(pc[v].from)) /\ Knows(v, Resting(pc[v].from), d)
           /\ LevelsOf(Resting(pc[v].from)) = 0
           /\ ApartFromAll(v, Resting(pc[v].from))
<1> DEFINE p == Resting(pc[v].from)
<1>1. PlaceSound(pc[v]) /\ pc[v].from \in Int
  BY VmFacts DEF PlaceSound, Place
<1>2. /\ PlaceSound(p) /\ Knows(v, p, d) /\ LevelsOf(p) = 0
      /\ p.from = pc[v].from /\ p.op = "none"
  BY <1>1, IdleFacts
<1> HIDE DEF p
<1>3. ApartFromAll(v, p)
  BY <1>2, VmFacts DEF ApartFromAll, Apart, OrderOps, AddingOps
<1> QED BY <1>2, <1>3 DEF p

(* An operation that is over, in which at most the search order changed. *)
LEMMA EndStep ==
    ASSUME IInv, NEW v \in VMs, Linked(v), UNCHANGED systemVars, NEW d,
           LevelsOf(pc[v]) = 1,
           lock' = [lock EXCEPT ![SystemOf(v)] = Released(lock[SystemOf(v)])],
           dict' = [dict EXCEPT ![SystemOf(v)] = d],
           Ends(v),
           d \in Dictionary, SameWords(d, dict[SystemOf(v)]),
           d.count = dict[SystemOf(v)].count \/ NobodyCounts(v)
    PROVE  IInv'
<1> DEFINE s == SystemOf(v)
           p == Resting(pc[v].from)
<1>1. OpenIn(v, pc[v].from, dict[s])
  BY VmFacts DEF Knows
<1>2. OpenIn(v, pc[v].from, d)
  BY <1>1 DEF OpenIn, SameWords
<1>3. PlaceSound(p) /\ Knows(v, p, d) /\ LevelsOf(p) = 0 /\ ApartFromAll(v, p)
  BY <1>2, EndFacts
<1>4. pc' = [pc EXCEPT ![v] = p]
  BY DEF Ends, Moves
<1> HIDE DEF p
<1>5. OneLess(p, pc[v])
  BY <1>3 DEF OneLess
<1> QED BY <1>3, <1>4, <1>5, LeaveStep

(* An operation that is over, and leaves the dictionary as it is. *)
LEMMA OverStep ==
    ASSUME IInv, NEW v \in VMs, Linked(v), UNCHANGED systemVars, UNCHANGED dict,
           LevelsOf(pc[v]) = 1, Leaves(v)
    PROVE  IInv'
<1> DEFINE d == dict[SystemOf(v)]
<1>1. /\ dict' = [dict EXCEPT ![SystemOf(v)] = d] /\ d \in Dictionary
  BY VmFacts
<1>2. /\ Ends(v) /\ lock' = [lock EXCEPT ![SystemOf(v)] = Released(lock[SystemOf(v)])]
  BY DEF Leaves, Release
<1>3. SameWords(d, dict[SystemOf(v)]) /\ d.count = dict[SystemOf(v)].count
  BY DEF SameWords
<1> HIDE DEF d
<1> QED BY <1>1, <1>2, <1>3, EndStep

(* The end of ficlBuild. *)
LEMMA BuiltStep ==
    ASSUME Careful, IInv, NEW v \in VMs, Built(v)
    PROVE  IInv'
<1>1. Linked(v) /\ pc[v].at = "built" /\ UNCHANGED systemVars /\ UNCHANGED dict /\ Leaves(v)
  BY DEF Built, At, Stays
<1>2. LevelsOf(pc[v]) = 1
  BY <1>1, VmFacts, LevelFacts
<1> QED BY <1>1, <1>2, OverStep

(* ficlSystemLookupLocal. *)
LEMMA LookupLocalStep ==
    ASSUME Careful, IInv, NEW v \in VMs, LookupLocal(v)
    PROVE  IInv'
<1>1. /\ Linked(v) /\ pc[v].at = "inside" /\ pc[v].op = "lookup local"
      /\ UNCHANGED systemVars /\ UNCHANGED dict /\ Leaves(v)
  BY DEF LookupLocal, Inside, At, Stays
<1>2. LevelsOf(pc[v]) = 1
  <2>1. PlaceSound(pc[v])
    BY <1>1, VmFacts
  <2>2. ~pc[v].nested
    BY <1>1, <2>1 DEF PlaceSound
  <2> QED BY <1>1, <2>1, <2>2, LevelFacts
<1> QED BY <1>1, <1>2, OverStep

(* GET-ORDER. *)
LEMMA GetOrderStep ==
    ASSUME Careful, IInv, NEW v \in VMs, GetOrder(v)
    PROVE  IInv'
<1>1. /\ Linked(v) /\ pc[v].at = "inside" /\ pc[v].op = "get-order"
      /\ UNCHANGED systemVars /\ UNCHANGED dict /\ Leaves(v)
  BY DEF GetOrder, Inside, At, Stays
<1>2. LevelsOf(pc[v]) = 1
  <2>1. PlaceSound(pc[v])
    BY <1>1, VmFacts
  <2>2. ~pc[v].nested
    BY <1>1, <2>1 DEF PlaceSound
  <2> QED BY <1>1, <2>1, <2>2, LevelFacts
<1> QED BY <1>1, <1>2, OverStep

(* A word that finds no room gives the lock back, too. *)
LEMMA NoRoomStep ==
    ASSUME Careful, IInv, NEW v \in VMs, NoRoom(v)
    PROVE  IInv'
<1> DEFINE s == SystemOf(v)
<1>1. /\ Linked(v) /\ pc[v].at = "header" /\ UNCHANGED systemVars /\ UNCHANGED dict /\ Release(s)
  BY DEF NoRoom, At, Stays
<1>2. PlaceSound(pc[v]) /\ dict[s] \in Dictionary
  BY <1>1, VmFacts
<1>3. CASE pc[v].nested
  <2> DEFINE p == [pc[v] EXCEPT !.at = "built"]
  <2>1. pc' = [pc EXCEPT ![v] = p]
    BY <1>3 DEF NoRoom, Moves
  <2>2. /\ p.at = "built" /\ p.op = "word" /\ p.from = 0 /\ p.nested /\ p.op = pc[v].op
        /\ p.from = pc[v].from /\ p.saw = pc[v].saw /\ p \in Place
    BY <1>2, <1>3 DEF PlaceSound, Place
  <2> HIDE DEF p
  <2>3. PlaceSound(p) /\ Knows(v, p, dict[s])
    BY <2>2 DEF PlaceSound, Knows, OpenIn
  <2>4. OneLess(p, pc[v])
    BY <1>1, <1>2, <1>3, <2>2, <2>3, LevelFacts DEF OneLess
  <2>5. ApartFromAll(v, p)
    BY <1>1, <2>2, VmFacts DEF ApartFromAll, Apart
  <2>6. /\ dict' = [dict EXCEPT ![s] = dict[s]]
        /\ lock' = [lock EXCEPT ![s] = Released(lock[s])]
    BY <1>1, VmFacts DEF Release
  <2>7. SameWords(dict[s], dict[s])
    BY DEF SameWords
  <2> QED BY <1>1, <1>2, <2>1, <2>3, <2>4, <2>5, <2>6, <2>7, LeaveStep
<1>4. CASE ~pc[v].nested
  <2>1. LevelsOf(pc[v]) = 1
    BY <1>1, <1>2, <1>4, LevelFacts
  <2>2. Leaves(v)
    BY <1>1, <1>4 DEF NoRoom, Leaves
  <2> QED BY <1>1, <2>1, <2>2, OverStep
<1> QED BY <1>3, <1>4

(* ficlDictionaryLookup locks once more, where nobody waits. *)
LEMMA LookupStep ==
    ASSUME Careful, IInv, NEW v \in VMs, Lookup(v)
    PROVE  IInv'
<1> DEFINE s == SystemOf(v)
           p == Resting(pc[v].from)
<1>1. /\ Linked(v) /\ pc[v].at = "inside" /\ pc[v].op = "lookup"
      /\ UNCHANGED systemVars /\ dict' = dict /\ pc' = [pc EXCEPT ![v] = p]
  BY DEF Lookup, Inside, At, Stays, Ends, Moves
<1>2. /\ PlaceSound(pc[v]) /\ Knows(v, pc[v], dict[s]) /\ dict[s] \in Dictionary
      /\ s \in Systems /\ LockSound(lock[s])
      /\ LevelsOf(pc[v]) <= Held(lock[s], v)
  BY <1>1, VmFacts
<1>3. PlaceSound(p) /\ Knows(v, p, dict[s]) /\ LevelsOf(p) = 0 /\ ApartFromAll(v, p)
  BY <1>1, <1>2, EndFacts DEF Knows
<1> HIDE DEF p
<1>4. Others(v) = {}
  BY <1>1, VmFacts DEF Apart
<1>5. LevelsOf(pc[v]) = 1 /\ Held(lock[s], v) \in Nat
  BY <1>1, <1>2, LevelFacts DEF Held, LockSound, Lock, PlaceSound
<1>6. lock[s].owner = v
  BY <1>2, <1>5 DEF Held
<1>7. PICK l : /\ lock' = [lock EXCEPT ![s] = l] /\ LockSound(l) /\ l.owner = v
               /\ Held(l, v) = Held(lock[s], v) + 1
  BY <1>2, <1>6, TakeFacts DEF Lookup, Available
<1>8. LevelsOf(p) <= Held(l, v)
  BY <1>3, <1>5, <1>7
<1>9. dict' = [dict EXCEPT ![s] = dict[s]]
  BY <1>1, VmFacts
<1> QED BY <1>1, <1>2, <1>3, <1>4, <1>6, <1>7, <1>8, <1>9, VmStep DEF SameWords

(* ; unsmudges the definition of its own VM. *)
LEMMA SemicolonStep ==
    ASSUME Careful, IInv, NEW v \in VMs, Semicolon(v)
    PROVE  IInv'
<1> DEFINE s == SystemOf(v)
           d == [dict[s] EXCEPT !.smudged = FALSE]
<1>1. /\ Linked(v) /\ pc[v].at = "idle" /\ pc[v].from # 0 /\ UNCHANGED systemVars
      /\ lock' = lock /\ dict' = [dict EXCEPT ![s] = d] /\ pc' = [pc EXCEPT ![v] = Resting(0)]
  BY DEF Semicolon, At, Open, Stays, Stores, Dict, Moves, Idle
<1>2. PlaceSound(pc[v]) /\ dict[s] \in Dictionary
  BY <1>1, VmFacts
<1>3. d \in Dictionary /\ d.count = dict[s].count
  BY <1>2 DEF Dictionary
<1> HIDE DEF d
<1>4. OpenIn(v, 0, d)
  BY DEF OpenIn
<1> DEFINE p == Resting(0)
<1>5. PlaceSound(p) /\ Knows(v, p, d) /\ LevelsOf(p) = 0 /\ p.from = 0 /\ p.op = "none"
  BY <1>4, IdleFacts
<1> HIDE DEF p
<1>6. LevelsOf(p) = LevelsOf(pc[v])
  BY <1>1, <1>2, <1>5, LevelFacts
<1>7. ApartFromAll(v, p)
  BY <1>1, <1>5, VmFacts DEF ApartFromAll, Apart, OrderOps, AddingOps
<1>8. NobodyAdds(v)
  BY <1>1, AloneInCells DEF NobodyAdds
<1>9. pc' = [pc EXCEPT ![v] = p]
  BY <1>1 DEF p
<1> QED BY <1>1, <1>3, <1>5, <1>6, <1>7, <1>8, <1>9, PlainStep

(* An aborted definition gives back the cells of its own VM. *)
LEMMA AbortDefinitionStep ==
    ASSUME Careful, IInv, NEW v \in VMs, AbortDefinition(v)
    PROVE  IInv'
<1> DEFINE s == SystemOf(v)
           d == IF dict[s].smudged
                THEN [dict[s] EXCEPT !.cells = SubSeq(@, 1, dict[s].smudge - 1)]
                ELSE dict[s]
<1>1. /\ Linked(v) /\ pc[v].at = "inside" /\ pc[v].op = "abort" /\ UNCHANGED systemVars
      /\ lock' = [lock EXCEPT ![s] = Released(lock[s])]
      /\ dict' = [dict EXCEPT ![s] = d] /\ pc' = [pc EXCEPT ![v] = Resting(0)]
  BY DEF AbortDefinition, Inside, At, Stays, Stores, Dict, Moves, Idle, Release
<1>2. PlaceSound(pc[v]) /\ Knows(v, pc[v], dict[s]) /\ dict[s] \in Dictionary
  BY <1>1, VmFacts
<1>3. pc[v].from # 0 /\ ~pc[v].nested
  BY <1>1, <1>2 DEF PlaceSound
<1>4. dict[s].cells \in Seq(VMs) /\ dict[s].smudge \in 1..Len(dict[s].cells)
  BY <1>2, <1>3 DEF Dictionary, Knows, OpenIn
<1>5. d \in Dictionary /\ d.count = dict[s].count
  <2> DEFINE cells == dict[s].cells
             end == dict[s].smudge - 1
  <2>1. cells \in Seq(VMs) /\ end \in 0..Len(cells)
    BY <1>4
  <2> HIDE DEF cells, end
  <2>2. SubSeq(cells, 1, end) \in Seq(VMs)
    BY <2>1
  <2>3. SubSeq(dict[s].cells, 1, dict[s].smudge - 1) \in Seq(VMs)
    BY <2>2 DEF cells, end
  <2> QED BY <1>2, <2>3 DEF Dictionary
<1> HIDE DEF d
<1>6. OpenIn(v, 0, d)
  BY DEF OpenIn
<1> DEFINE p == Resting(0)
<1>7. PlaceSound(p) /\ Knows(v, p, d) /\ LevelsOf(p) = 0 /\ p.from = 0 /\ p.op = "none"
  BY <1>6, IdleFacts
<1> HIDE DEF p
<1>8. OneLess(p, pc[v])
  BY <1>1, <1>2, <1>3, <1>7, LevelFacts DEF OneLess
<1>9. ApartFromAll(v, p)
  BY <1>1, <1>7, VmFacts DEF ApartFromAll, Apart, OrderOps, AddingOps
<1>10. NobodyAdds(v)
  BY <1>1, <1>3, AloneInCells DEF NobodyAdds
<1>11. pc' = [pc EXCEPT ![v] = p]
  BY <1>1 DEF p
<1> QED BY <1>1, <1>5, <1>7, <1>8, <1>9, <1>10, <1>11, LeaveStep

(* A search order of another length, and with other lists. *)
Reordered(e, lists, n) == [e EXCEPT !.lists = lists, !.count = n]

\* A search order is replaced: the dictionary keeps its words.
LEMMA ReorderFacts ==
    ASSUME NEW e \in Dictionary, NEW lists \in [1..MaxLists -> Lists \cup {None}], NEW n \in Int
    PROVE  Reordered(e, lists, n) \in Dictionary /\ SameWords(Reordered(e, lists, n), e)
BY DEF Dictionary, SameWords, Reordered

(* What the words that change the search order have in common. *)
LEMMA OrderFacts ==
    ASSUME IInv, NEW v \in VMs, Linked(v), pc[v].at = "inside", pc[v].op \in OrderOps
    PROVE  /\ dict[SystemOf(v)] \in Dictionary /\ Knows(v, pc[v], dict[SystemOf(v)])
           /\ LevelsOf(pc[v]) = 1 /\ NobodyCounts(v)
<1>1. PlaceSound(pc[v])
  BY VmFacts
<1>2. ~pc[v].nested
  BY <1>1 DEF PlaceSound, OrderOps
<1>3. LevelsOf(pc[v]) = 1
  BY <1>1, <1>2, LevelFacts
<1>4. NobodyCounts(v)
  BY VmFacts DEF NobodyCounts, Apart
<1> QED BY <1>3, <1>4, VmFacts

(* SET-ORDER. *)
LEMMA SetOrderStep ==
    ASSUME Careful, IInv, NEW v \in VMs, SetOrder(v)
    PROVE  IInv'
<1> DEFINE s == SystemOf(v)
<1>1. /\ Linked(v) /\ pc[v].at = "inside" /\ pc[v].op = "set-order" /\ UNCHANGED systemVars
      /\ Ends(v) /\ lock' = [lock EXCEPT ![s] = Released(lock[s])]
  BY DEF SetOrder, Inside, At, Stays, Leaves, Release
<1>2. PICK n \in 0..MaxLists : \E new \in [1..n -> Lists] :
         Stores(v, [Dict(v) EXCEPT !.lists = [i \in 1..MaxLists |-> IF i <= n THEN new[i] ELSE @[i]],
                                   !.count = n])
  BY DEF SetOrder
<1>3. PICK new \in [1..n -> Lists] :
         Stores(v, [Dict(v) EXCEPT !.lists = [i \in 1..MaxLists |-> IF i <= n THEN new[i] ELSE @[i]],
                                   !.count = n])
  BY <1>2
<1>4. dict[s] \in Dictionary /\ LevelsOf(pc[v]) = 1 /\ NobodyCounts(v)
  BY <1>1, OrderFacts DEF OrderOps
<1> DEFINE lists == [i \in 1..MaxLists |-> IF i <= n THEN new[i] ELSE dict[s].lists[i]]
           d == Reordered(dict[s], lists, n)
<1>5. dict' = [dict EXCEPT ![s] = d]
  BY <1>3 DEF Stores, Dict, Reordered
<1>6. dict[s].lists \in [1..MaxLists -> Lists \cup {None}]
  BY <1>4 DEF Dictionary
<1>7. lists \in [1..MaxLists -> Lists \cup {None}]
  BY <1>6, BoundsAssumption
<1> HIDE DEF lists
<1>8. d \in Dictionary /\ SameWords(d, dict[s])
  BY <1>4, <1>7, ReorderFacts
<1> HIDE DEF d
<1> QED BY <1>1, <1>4, <1>5, <1>8, EndStep

(* SEARCH>, where there is a list. *)
LEMMA SearchPopStep ==
    ASSUME Careful, IInv, NEW v \in VMs, SearchPop(v)
    PROVE  IInv'
<1> DEFINE s == SystemOf(v)
           d == [dict[s] EXCEPT !.count = @ - 1]
<1>1. Linked(v) /\ pc[v].at = "inside" /\ pc[v].op = "search>" /\ UNCHANGED systemVars
  BY DEF SearchPop, Inside, At, Stays
<1>2. dict[s] \in Dictionary /\ Knows(v, pc[v], dict[s]) /\ LevelsOf(pc[v]) = 1 /\ NobodyCounts(v)
  BY <1>1, OrderFacts DEF OrderOps
<1>3. dict[s].count # 0
  BY <1>1, <1>2 DEF Knows
<1>4. /\ dict' = [dict EXCEPT ![s] = d]
      /\ Ends(v) /\ lock' = [lock EXCEPT ![s] = Released(lock[s])]
  BY <1>3 DEF SearchPop, Stores, Dict, Leaves, Release
<1>5. d \in Dictionary /\ SameWords(d, dict[s])
  BY <1>2 DEF Dictionary, SameWords
<1> HIDE DEF d
<1> QED BY <1>1, <1>2, <1>4, <1>5, EndStep

(* >SEARCH, where there is room. *)
LEMMA SearchPushStep ==
    ASSUME Careful, IInv, NEW v \in VMs, SearchPush(v)
    PROVE  IInv'
<1> DEFINE s == SystemOf(v)
<1>1. Linked(v) /\ pc[v].at = "inside" /\ pc[v].op = ">search" /\ UNCHANGED systemVars
  BY DEF SearchPush, Inside, At, Stays
<1>2. dict[s] \in Dictionary /\ Knows(v, pc[v], dict[s]) /\ LevelsOf(pc[v]) = 1 /\ NobodyCounts(v)
  BY <1>1, OrderFacts DEF OrderOps
<1>3. dict[s].count # MaxLists
  BY <1>1, <1>2, BoundsAssumption DEF Knows, Dictionary
<1>4. PICK w \in Lists :
         Stores(v, [Dict(v) EXCEPT !.count = @ + 1, !.lists[Dict(v).count + 1] = w])
  BY <1>3 DEF SearchPush, Dict
<1>5. Ends(v) /\ lock' = [lock EXCEPT ![s] = Released(lock[s])]
  BY <1>3 DEF SearchPush, Dict, Leaves, Release
<1> DEFINE lists == [dict[s].lists EXCEPT ![dict[s].count + 1] = w]
           n == dict[s].count + 1
           d == Reordered(dict[s], lists, n)
<1>6. dict' = [dict EXCEPT ![s] = d]
  BY <1>4 DEF Stores, Dict, Reordered
<1>7. lists \in [1..MaxLists -> Lists \cup {None}]
  BY <1>2 DEF Dictionary
<1> HIDE DEF lists
<1>8. d \in Dictionary /\ SameWords(d, dict[s])
  <2>1. n \in Int
    BY <1>2 DEF Dictionary
  <2> HIDE DEF n
  <2> QED BY <1>2, <1>7, <2>1, ReorderFacts
<1> HIDE DEF d
<1> QED BY <1>1, <1>2, <1>5, <1>6, <1>8, EndStep

-----------------------------------------------------------------------------
(* The steps of the host.                                                    *)

(* Nothing of a system changes. *)
LEMMA SystemStays ==
    ASSUME NEW s \in Systems, SystemSound(s), Members(s) \subseteq VMs,
           vmList'[s] = vmList[s], lock'[s] = lock[s], dict'[s] = dict[s],
           \A v \in Members(s) : pc'[v] = pc[v]
    PROVE  SystemSound(s)'
<1>1. Members(s)' = Members(s)
  BY DEF Members
<1> QED BY <1>1 DEF SystemSound

(* A new system. *)
LEMMA SystemCreateStep ==
    ASSUME Careful, IInv, NEW s \in Systems, SystemCreate(s)
    PROVE  IInv'
<1>1. /\ global # None => status[global] = "live"
      /\ status[s] = "none" /\ status' = [status EXCEPT ![s] = "live"]
      /\ global' = (IF global = None THEN s ELSE global)
      /\ vmList' = vmList /\ lock' = lock /\ dict' = dict /\ pc' = pc
  BY DEF SystemCreate, Careful, Keeps, AllObligations
<1>2. PICK c \in Channels \cup {None} : textOut' = [textOut EXCEPT ![s] = c]
  BY DEF SystemCreate
<1>3. Typed /\ ListsSound
  BY DEF IInv
<1>4. Typed'
  BY <1>1, <1>2, <1>3 DEF Typed
<1>5. ListsSound'
  <2>1. \A t \in Systems : Members(t)' = Members(t)
    BY <1>1 DEF Members
  <2>2. \A v \in VMs : textOut'[v] = textOut[v] /\ (Linked(v)' <=> Linked(v))
    BY <1>1, <1>2, <1>3, AddressAssumption DEF Typed, Linked
  <2>3. \A t \in Systems : status'[t] = (IF t = s THEN "live" ELSE status[t])
    BY <1>1, <1>3 DEF Typed
  <2>4. global' # None /\ global' \in Systems /\ status'[global'] = "live"
    BY <1>1, <1>3, <2>3, NoneAssumption DEF Typed
  <2> QED BY <1>1, <1>3, <2>1, <2>2, <2>3, <2>4 DEF ListsSound
<1>6. \A t \in Systems : SystemSound(t)'
  BY <1>1, <1>3, SystemStays, MembersAreVms DEF IInv
<1> QED BY <1>4, <1>5, <1>6 DEF IInv

(* A system goes with its VMs, and the first one last. *)
LEMMA SystemDestroyStep ==
    ASSUME Careful, IInv, NEW s \in Systems, SystemDestroy(s)
    PROVE  IInv'
<1>1. /\ status[s] = "live" /\ status' = [status EXCEPT ![s] = "freed"] /\ global' = global
      /\ global = s => \A t \in Systems \ {s} : status[t] # "live"
      /\ textOut' = [x \in Systems \cup VMs |-> IF x = s \/ x \in Members(s) THEN None ELSE textOut[x]]
      /\ vmList' = [vmList EXCEPT ![s] = << >>]
      /\ lock' = [lock EXCEPT ![s] = Free] /\ dict' = [dict EXCEPT ![s] = EmptyDict]
      /\ pc' = [v \in VMs |-> IF v \in Members(s) THEN Idle ELSE pc[v]]
  BY DEF SystemDestroy, Careful, Keeps, AllObligations, AllDestroyed, Members
<1>2. Typed /\ ListsSound
  BY DEF IInv
<1>3. /\ vmList'[s] = << >> /\ lock'[s] = Free /\ status'[s] = "freed"
      /\ \A t \in Systems : t # s => /\ vmList'[t] = vmList[t] /\ lock'[t] = lock[t]
                                     /\ dict'[t] = dict[t] /\ status'[t] = status[t]
  BY <1>1, <1>2 DEF Typed
<1>4. Members(s)' = {}
  BY <1>3 DEF Members, Range
<1>5. \A t \in Systems : t # s => Members(t)' = Members(t)
  BY <1>3 DEF Members
<1>6. Typed'
  <2>1. Free \in Lock
    BY DEF Free, Lock
  <2>2. EmptyDict \in Dictionary
    BY DEF EmptyDict, Dictionary
  <2>3. Idle \in Place
    BY DEF Idle, Resting, Place
  <2>4. << >> \in Seq(VMs)
    OBVIOUS
  <2>5. pc' \in [VMs -> Place] /\ textOut' \in [Systems \cup VMs -> Channels \cup {None}]
    BY <1>1, <1>2, <2>3 DEF Typed
  <2> QED BY <1>1, <1>2, <2>1, <2>2, <2>4, <2>5 DEF Typed
<1>7. ListsSound'
  <2>1. ASSUME NEW t \in Systems
        PROVE  /\ IsInjective(vmList'[t])
               /\ vmList'[t] # << >> => status'[t] = "live"
               /\ status'[t] = "live" => global' # None /\ status'[global'] = "live"
    <3>1. CASE t = s
      BY <1>3, <3>1 DEF IsInjective
    <3>2. CASE t # s
      <4>1. global = s => status[t] # "live"
        BY <1>1, <3>2
      <4>2. global \in Systems \cup {None}
        BY <1>2 DEF Typed
      <4> QED BY <1>1, <1>2, <1>3, <3>2, <4>1, <4>2 DEF ListsSound
    <3> QED BY <3>1, <3>2
  <2>2. \A t \in Systems : \A u \in Systems \ {t} : Members(t)' \cap Members(u)' = {}
    BY <1>2, <1>4, <1>5 DEF ListsSound
  <2>3. ASSUME NEW v \in VMs, ~Linked(v)'
        PROVE  textOut'[v] = None /\ pc'[v] = Idle
    <3>1. CASE v \in Members(s)
      BY <1>1, <3>1
    <3>2. CASE v \notin Members(s)
      <4>1. ~Linked(v)
        BY <1>3, <2>3, <3>2 DEF Linked, Members
      <4>2. textOut[v] = None /\ pc[v] = Idle
        BY <1>2, <4>1 DEF ListsSound
      <4> QED BY <1>1, <3>2, <4>2
    <3> QED BY <3>1, <3>2
  <2> QED BY <2>1, <2>2, <2>3 DEF ListsSound
<1>8. ASSUME NEW t \in Systems
      PROVE  SystemSound(t)'
  <2>1. CASE t = s
    <3>1. LockSound(Free)
      BY DEF LockSound, Lock, Free
    <3> QED BY <1>3, <1>4, <2>1, <3>1 DEF SystemSound, Free
  <2>2. CASE t # s
    <3>1. Members(t) \subseteq VMs /\ Members(t) \cap Members(s) = {}
      BY <1>2, <2>2, MembersAreVms DEF ListsSound
    <3>2. \A v \in Members(t) : pc'[v] = pc[v]
      BY <1>1, <3>1
    <3>3. SystemSound(t)
      BY DEF IInv
    <3> QED BY <1>3, <2>2, <3>1, <3>2, <3>3, SystemStays
  <2> QED BY <2>1, <2>2
<1> QED BY <1>6, <1>7, <1>8 DEF IInv

(* A new VM, which no list had. *)
LEMMA SystemCreateVmStep ==
    ASSUME Careful, IInv, NEW s \in Systems, SystemCreateVm(s)
    PROVE  IInv'
<1>1. /\ status[s] = "live" /\ lock[s].owner = None
      /\ \A w \in Members(s) : pc[w].op # "lookup"
      /\ status' = status /\ global' = global /\ lock' = lock /\ dict' = dict /\ pc' = pc
  BY DEF SystemCreateVm, Careful, Keeps, AllObligations, Members
<1>2. PICK v \in VMs : /\ ~Linked(v)
                       /\ vmList' = [vmList EXCEPT ![s] = <<v>> \o @]
                       /\ textOut' = [textOut EXCEPT ![v] = textOut[s]]
  BY DEF SystemCreateVm
<1>3. Typed /\ ListsSound
  BY DEF IInv
<1> DEFINE new == <<v>> \o vmList[s]
<1>4. vmList[s] \in Seq(VMs) /\ IsInjective(vmList[s]) /\ v \notin Range(vmList[s])
  BY <1>2, <1>3 DEF Typed, ListsSound, Linked
<1>5. /\ new \in Seq(VMs) /\ IsInjective(new) /\ Range(new) = Range(vmList[s]) \cup {v}
  BY <1>4, AddFacts
<1>6. vmList' = [vmList EXCEPT ![s] = new]
  BY <1>2
<1> HIDE DEF new
<1>7. /\ vmList'[s] = new
      /\ \A t \in Systems : t # s => vmList'[t] = vmList[t]
  BY <1>3, <1>6 DEF Typed
<1>8. Members(s)' = Members(s) \cup {v} /\ \A t \in Systems : t # s => Members(t)' = Members(t)
  BY <1>5, <1>7 DEF Members
<1>9. \A t \in Systems : v \notin Members(t)
  BY <1>2 DEF Linked, Members
<1>10. pc[v] = Idle
  BY <1>2, <1>3 DEF ListsSound
<1>11. Typed'
  <2>1. textOut[s] \in Channels \cup {None}
    BY <1>3 DEF Typed
  <2> QED BY <1>1, <1>2, <1>3, <1>5, <1>6, <2>1 DEF Typed
<1>12. ListsSound'
  <2>1. ASSUME NEW t \in Systems
        PROVE  /\ IsInjective(vmList'[t])
               /\ vmList'[t] # << >> => status'[t] = "live"
               /\ status'[t] = "live" => global' # None /\ status'[global'] = "live"
    BY <1>1, <1>3, <1>5, <1>7 DEF ListsSound
  <2>2. \A t \in Systems : \A u \in Systems \ {t} : Members(t)' \cap Members(u)' = {}
    BY <1>3, <1>8, <1>9 DEF ListsSound
  <2>3. ASSUME NEW w \in VMs, ~Linked(w)'
        PROVE  textOut'[w] = None /\ pc'[w] = Idle
    <3>1. \A t \in Systems : w \notin Members(t)'
      BY <2>3 DEF Linked, Members
    <3>2. w # v /\ \A t \in Systems : w \notin Members(t)
      BY <1>8, <3>1
    <3>3. ~Linked(w)
      BY <3>2 DEF Linked, Members
    <3> QED BY <1>1, <1>2, <1>3, <3>2, <3>3 DEF ListsSound, Typed
  <2> QED BY <2>1, <2>2, <2>3 DEF ListsSound
<1>13. SystemSound(s)'
  <2>1. SystemSound(s)
    BY DEF IInv
  <2>2. Members(s) \subseteq VMs
    BY <1>3, MembersAreVms
  <2>3. /\ PlaceSound(Idle) /\ Knows(v, Idle, dict[s]) /\ LevelsOf(Idle) = 0
        /\ Idle.from = 0 /\ Idle.op = "none"
    <3>1. OpenIn(v, 0, dict[s])
      BY DEF OpenIn
    <3> QED BY <3>1, IdleFacts DEF Idle
  <2>4. \A w \in VMs : Held(lock[s], w) = 0
    BY <1>1, NoneAssumption DEF Held
  <2>5. ASSUME NEW w \in Members(s)
        PROVE  /\ PlaceSound(pc[w]) /\ Knows(w, pc[w], dict[s]) /\ LevelsOf(pc[w]) = 0
               /\ Apart(pc[w], Idle) /\ Apart(Idle, pc[w])
               /\ \A u \in Members(s) \ {w} : Apart(pc[w], pc[u])
    <3>1. PlaceSound(pc[w]) /\ Knows(w, pc[w], dict[s]) /\ LevelsOf(pc[w]) <= Held(lock[s], w)
          /\ \A u \in Members(s) \ {w} : Apart(pc[w], pc[u])
      BY <2>1 DEF SystemSound
    <3>2. LevelsOf(pc[w]) = 0
      BY <2>2, <2>4, <3>1, LevelFacts
    <3>3. Apart(pc[w], Idle) /\ Apart(Idle, pc[w])
      BY <1>1, <2>3 DEF Apart, OrderOps, AddingOps
    <3> QED BY <3>1, <3>2, <3>3
  <2>6. ASSUME NEW w \in Members(s) \cup {v}
        PROVE  /\ PlaceSound(pc[w]) /\ Knows(w, pc[w], dict[s])
               /\ LevelsOf(pc[w]) = Held(lock[s], w)
               /\ \A u \in (Members(s) \cup {v}) \ {w} : Apart(pc[w], pc[u])
    <3>1. w \in VMs
      BY <2>2
    <3>2. CASE w = v
      BY <1>10, <2>3, <2>4, <2>5, <3>1, <3>2
    <3>3. CASE w # v
      BY <1>10, <2>4, <2>5, <3>1, <3>3
    <3> QED BY <3>2, <3>3
  <2>7. ASSUME NEW w \in Members(s) \cup {v}
        PROVE  LevelsOf(pc[w]) <= Held(lock[s], w)
    BY <2>4, <2>6, <2>2
  <2>8. LockSound(lock[s])
    BY <2>1 DEF SystemSound
  <2> QED BY <1>1, <1>8, <2>6, <2>7, <2>8 DEF SystemSound
<1>14. ASSUME NEW t \in Systems, t # s
       PROVE  SystemSound(t)'
  <2>1. SystemSound(t) /\ Members(t) \subseteq VMs
    BY <1>3, MembersAreVms DEF IInv
  <2> QED BY <1>1, <1>7, <1>14, <2>1, SystemStays
<1> QED BY <1>11, <1>12, <1>13, <1>14 DEF IInv

(* A VM leaves the one list it is in. *)
LEMMA SystemDestroyVmStep ==
    ASSUME Careful, IInv, NEW v \in VMs, SystemDestroyVm(v)
    PROVE  IInv'
<1>1. /\ Linked(v) /\ \A s \in Systems : lock[s].owner # v
      /\ textOut' = [textOut EXCEPT ![v] = None] /\ pc' = [pc EXCEPT ![v] = Idle]
      /\ status' = status /\ global' = global /\ lock' = lock /\ dict' = dict
  BY DEF SystemDestroyVm, Careful, Keeps, AllObligations, Quiet
<1>2. Typed /\ ListsSound
  BY DEF IInv
<1>3. PICK s \in Systems : /\ s = SystemOf(v) /\ v \in Members(s)
                           /\ \A t \in Systems : v \in Members(t) => t = s
  BY <1>1, <1>2, MemberFacts
<1> DEFINE new == Unlinked(vmList[s], v)
<1>4. vmList[s] \in Seq(VMs) /\ IsInjective(vmList[s]) /\ v \in Range(vmList[s])
  BY <1>2, <1>3 DEF Typed, ListsSound, Members
<1>5. new \in Seq(VMs) /\ IsInjective(new) /\ Range(new) = Range(vmList[s]) \ {v}
  BY <1>4, RemoveFacts
<1>6. vmList' = [vmList EXCEPT ![s] = new]
  BY <1>3 DEF SystemDestroyVm
<1> HIDE DEF new
<1>7. /\ vmList'[s] = new
      /\ \A t \in Systems : t # s => vmList'[t] = vmList[t]
  BY <1>2, <1>6 DEF Typed
<1>8. Members(s)' = Members(s) \ {v} /\ \A t \in Systems : t # s => Members(t)' = Members(t)
  BY <1>5, <1>7 DEF Members
<1>9. \A w \in VMs : w # v => pc'[w] = pc[w] /\ textOut'[w] = textOut[w]
  BY <1>1, <1>2 DEF Typed
<1>10. Typed'
  <2>1. Idle \in Place
    BY DEF Idle, Resting, Place
  <2> QED BY <1>1, <1>2, <1>5, <1>6, <2>1 DEF Typed
<1>11. ListsSound'
  <2>1. vmList[s] # << >>
    <3>1. vmList[s] = << >> => Range(vmList[s]) = {}
      BY DEF Range
    <3> QED BY <1>4, <3>1
  <2>2. ASSUME NEW t \in Systems
        PROVE  /\ IsInjective(vmList'[t])
               /\ vmList'[t] # << >> => status'[t] = "live"
               /\ status'[t] = "live" => global' # None /\ status'[global'] = "live"
    BY <1>1, <1>2, <1>5, <1>7, <2>1 DEF ListsSound
  <2>3. \A t \in Systems : \A u \in Systems \ {t} : Members(t)' \cap Members(u)' = {}
    BY <1>2, <1>8 DEF ListsSound
  <2>4. ASSUME NEW w \in VMs, ~Linked(w)'
        PROVE  textOut'[w] = None /\ pc'[w] = Idle
    <3>1. CASE w = v
      BY <1>1, <1>2, <3>1 DEF Typed
    <3>2. CASE w # v
      <4>1. \A t \in Systems : w \notin Members(t)'
        BY <2>4 DEF Linked, Members
      <4>2. \A t \in Systems : w \notin Members(t)
        BY <1>8, <3>2, <4>1
      <4>3. ~Linked(w)
        BY <4>2 DEF Linked, Members
      <4> QED BY <1>2, <1>9, <3>2, <4>3 DEF ListsSound
    <3> QED BY <3>1, <3>2
  <2> QED BY <2>2, <2>3, <2>4 DEF ListsSound
<1>12. ASSUME NEW t \in Systems
       PROVE  SystemSound(t)'
  <2>1. SystemSound(t) /\ Members(t) \subseteq VMs
    BY <1>2, MembersAreVms DEF IInv
  <2>2. Members(t)' = Members(t) \ {v}
    BY <1>3, <1>8
  <2>3. \A w \in Members(t) \ {v} : pc'[w] = pc[w]
    BY <1>9, <2>1
  <2> QED BY <1>1, <2>1, <2>2, <2>3 DEF SystemSound
<1> QED BY <1>10, <1>11, <1>12 DEF IInv

-----------------------------------------------------------------------------
(* The theorems.                                                             *)

(* At the start there is nothing. *)
LEMMA InitSound == Init => IInv
<1> SUFFICES ASSUME Init
             PROVE  IInv
  OBVIOUS
<1>1. /\ \A s \in Systems : /\ vmList[s] = << >> /\ status[s] = "none"
                            /\ lock[s] = Free /\ dict[s] = EmptyDict
      /\ \A v \in VMs : textOut[v] = None /\ pc[v] = Idle
  BY DEF Init
<1>2. Free \in Lock /\ LockSound(Free) /\ Free.owner = None
  BY DEF Free, Lock, LockSound
<1>3. EmptyDict \in Dictionary
  BY DEF EmptyDict, Dictionary
<1>4. Idle \in Place
  BY DEF Idle, Resting, Place
<1>5. << >> \in Seq(VMs)
  OBVIOUS
<1>6. Typed
  BY <1>2, <1>3, <1>4, <1>5 DEF Init, Typed
<1>7. \A s \in Systems : Members(s) = {}
  BY <1>1 DEF Members, Range
<1>8. ListsSound
  BY <1>1, <1>7 DEF ListsSound, IsInjective
<1>9. \A s \in Systems : SystemSound(s)
  BY <1>1, <1>2, <1>7 DEF SystemSound
<1> QED BY <1>6, <1>8, <1>9 DEF IInv

(* Every step, of a VM or of the host. *)
LEMMA StepSound ==
    ASSUME Careful, IInv, [Next]_vars
    PROVE  IInv'
<1>1. ASSUME NEW s \in Systems, SystemCreate(s) \/ SystemDestroy(s) \/ SystemCreateVm(s)
      PROVE  IInv'
  BY <1>1, SystemCreateStep, SystemDestroyStep, SystemCreateVmStep
<1>2. ASSUME NEW v \in VMs, Finish(v)
      PROVE  IInv'
  BY <1>2, BuildStep, AppendCellStep, AppendWordStep, BuiltStep, NoRoomStep, ReadHereStep,
     AbortDefinitionStep, LookupStep, LookupLocalStep, GetOrderStep, SetOrderStep,
     SearchPopStep, SearchPushStep DEF Finish
<1>3. ASSUME NEW v \in VMs, \/ SystemDestroyVm(v) \/ Begin(v) \/ Enter(v) \/ Semicolon(v)
                            \/ ReadHere(v)
      PROVE  IInv'
  BY <1>3, SystemDestroyVmStep, BeginStep, EnterStep, SemicolonStep, ReadHereStep
<1>4. CASE UNCHANGED vars
  BY <1>4 DEF vars, IInv, Typed, ListsSound, Linked, Members, SystemSound
<1> QED BY <1>1, <1>2, <1>3, <1>4 DEF Next

(* For any number of systems and of virtual machines, lists and lock counts: *)
(* the strengthening is kept by every step of a program and of a host that   *)
(* keep the rules.                                                           *)
THEOREM Invariance == ASSUME Careful PROVE Spec => []IInv
<1>1. Careful
  OBVIOUS
<1>2. Init => IInv
  BY InitSound
<1>3. IInv /\ [Next]_vars => IInv'
  BY <1>1, StepSound
<1> QED BY <1>2, <1>3, PTL DEF Spec

(* The levels of the properties are those of the invariant. *)
LEMMA LevelsAreLevelsOf == \A v : Levels(v) = LevelsOf(pc[v])
BY DEF Levels, LevelsOf

(* A VM that shares a dictionary holds its lock (dictionary.c,               *)
(* ficlDictionaryLock) exactly as often as the operations it is in took it.  *)
THEOREM AlwaysLockMatches == ASSUME Careful PROVE Spec => []LockMatches
<1>1. ASSUME IInv
      PROVE  LockMatches
  <2> SUFFICES ASSUME NEW s \in Systems, NEW v \in Range(vmList[s]), Others(v) # {}
               PROVE  (IF lock[s].owner = v THEN lock[s].count ELSE 0) = Levels(v)
    BY DEF LockMatches
  <2>1. v \in VMs /\ Linked(v) /\ v \in Members(s)
    BY <1>1, MembersAreVms DEF IInv, Linked, Members
  <2>2. s = SystemOf(v)
    BY <1>1, <2>1, MemberFacts DEF IInv
  <2>3. LevelsOf(pc[v]) = Held(lock[s], v)
    BY <1>1, <2>1, <2>2, VmFacts
  <2> QED BY <2>3, LevelsAreLevelsOf DEF Held
<1> QED BY <1>1, Invariance, PTL

(* What a VM read of the dictionary it shares still holds when it acts on it *)
(* (ficlDictionaryAppendWord, ficlDictionaryAbortDefinition, ; and the words *)
(* of search.c).                                                             *)
THEOREM AlwaysDictionaryShared == ASSUME Careful PROVE Spec => []DictionaryShared
<1>1. ASSUME IInv
      PROVE  DictionaryShared
  <2>1. ASSUME NEW v \in VMs, Linked(v)
        PROVE  /\ pc[v].at \in {"header", "cell"} => pc[v].saw = HereOf(v)
               /\ pc[v].from # 0 => /\ Dict(v).smudged /\ Dict(v).smudge = pc[v].from
                                    /\ \A a \in pc[v].from..Len(Dict(v).cells) : Dict(v).cells[a] = v
               /\ pc[v].op = "get-order" => pc[v].saw = Dict(v).count
    BY <1>1, <2>1, VmFacts DEF Knows, OpenIn, HereOf, Dict
  <2>2. ASSUME NEW v \in VMs, ~Linked(v)
        PROVE  pc[v].at = "idle"
    BY <1>1, <2>2 DEF IInv, ListsSound, Idle, Resting
  <2>3. DefinitionsWhole
    BY <2>1, <2>2 DEF DefinitionsWhole, Open, At
  <2>4. OrderReadReal
    BY <2>1 DEF OrderReadReal, OrderRead, Inside, At
  <2> QED BY <2>3, <2>4 DEF DictionaryShared
<1> QED BY <1>1, Invariance, PTL

(* The lists of VMs (ficlSystemCreateVm, ficlSystemDestroyVm,                *)
(* ficlSystemDestroy) hold every VM once, and its text goes through no       *)
(* system that is gone (ficlCallbackTextOut).                                *)
THEOREM AlwaysNothingOutlives == ASSUME Careful PROVE Spec => []NothingOutlives
<1>1. ASSUME IInv
      PROVE  NothingOutlives
  <2>1. ListsSound /\ Typed
    BY <1>1 DEF IInv
  <2>2. VmListsExact
    BY <2>1 DEF VmListsExact, ListsSound, Members
  <2>3. OutputLive
    <3> SUFFICES ASSUME NEW v \in VMs, Linked(v), TextOut(v) \in Systems
                 PROVE  status[TextOut(v)] = "live"
      BY DEF OutputLive
    <3>1. SystemOf(v) \in Systems /\ v \in Members(SystemOf(v))
      BY <2>1, MemberFacts
    <3>2. vmList[SystemOf(v)] # << >>
      <4>1. vmList[SystemOf(v)] = << >> => Range(vmList[SystemOf(v)]) = {}
        BY DEF Range
      <4> QED BY <3>1, <4>1 DEF Members
    <3>3. status[SystemOf(v)] = "live" /\ status[global] = "live"
      BY <2>1, <3>1, <3>2 DEF ListsSound
    <3> QED BY <3>3, AddressAssumption DEF TextOut
  <2> QED BY <2>2, <2>3 DEF NothingOutlives
<1> QED BY <1>1, Invariance, PTL
=============================================================================

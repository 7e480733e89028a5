--------------------------- MODULE WordlistSpec ---------------------------
(***************************************************************************)
(* What a Ficl dictionary promises to the text interpreter, with no memory *)
(* and no chains: a wordlist is a set of definitions, each younger than    *)
(* those before it; a definition is added whole, to the compilation        *)
(* wordlist; definitions and wordlists disappear only when everything from *)
(* some age on is forgotten; and a name means the youngest definition of   *)
(* the first wordlist in the search order that has one, its ancestors      *)
(* included.                                                               *)
(***************************************************************************)
EXTENDS Integers, Sequences

CONSTANTS
    Ages,       \* the ages of definitions and wordlists: numbers above zero
    Names,      \* the names a program may define
    MaxOrder    \* the longest search order

VARIABLES
    defs,       \* the definitions of each wordlist: pairs <<name, age>>
    parent,     \* the wordlist a wordlist inherits from, or 0
    current,    \* the wordlist new definitions go to
    order       \* the search order, the wordlist searched first at the end

vars == <<defs, parent, current, order>>

Wids == DOMAIN defs

Youngest(S) == CHOOSE a \in S : \A b \in S : b <= a

AgesOf(l, n) == {a \in Ages : <<n, a>> \in defs[l]}

(* l and every wordlist it inherits from. *)
Lineage(l) ==
    {m \in Wids : \A S \in SUBSET Wids :
        (l \in S /\ \A k \in S : parent[k] = 0 \/ parent[k] \in S) => m \in S}

(* What a search of wordlist l finds: parents are older than their children. *)
Find(l, n) ==
    LET having == {m \in Lineage(l) : AgesOf(m, n) # {}}
    IN  IF having = {} THEN 0 ELSE Youngest(AgesOf(Youngest(having), n))

(* What the name n means: an age, or 0. *)
Meaning(n) ==
    LET hits == {i \in DOMAIN order : Find(order[i], n) # 0}
    IN  IF hits = {} THEN 0 ELSE Find(order[Youngest(hits)], n)

AllAges == Wids \cup UNION {{d[2] : d \in defs[l]} : l \in Wids}

Init ==
    \E n \in Names, a, l \in Ages :
        /\ l < a
        /\ defs = [m \in {l} |-> {<<n, a>>}]
        /\ parent = [m \in {l} |-> 0]
        /\ current = l
        /\ order = <<l>>

(* A definition is finished: it is younger than everything there is. *)
Define ==
    \E n \in Names, a \in Ages :
        /\ \A b \in AllAges : b < a
        /\ defs' = [defs EXCEPT ![current] = @ \cup {<<n, a>>}]
        /\ UNCHANGED <<parent, current, order>>

NewWordlist ==
    \E l \in Ages :
        /\ \A b \in AllAges : b < l
        /\ defs' = [m \in Wids \cup {l} |-> IF m = l THEN {} ELSE defs[m]]
        /\ parent' = [m \in Wids \cup {l} |-> IF m = l THEN 0 ELSE parent[m]]
        /\ UNCHANGED <<current, order>>

(* Everything from age a on is forgotten, and nothing else. *)
ForgetFrom ==
    \E a \in Ages :
        /\ defs' = [l \in {m \in Wids : m < a} |-> {d \in defs[l] : d[2] < a}]
        /\ parent' = [l \in {m \in Wids : m < a} |-> parent[l]]

Inherit ==
    \E l, m \in Wids :
        /\ m < l
        /\ parent' = [parent EXCEPT ![l] = m]
        /\ UNCHANGED <<defs, current, order>>

(* The search order and the compilation wordlist name wordlists that exist. *)
Search ==
    /\ current' \in DOMAIN defs'
    /\ Len(order') <= MaxOrder
    /\ \A i \in DOMAIN order' : order'[i] \in DOMAIN defs'

Next ==
    /\ \/ Define
       \/ NewWordlist
       \/ ForgetFrom
       \/ Inherit
       \/ UNCHANGED <<defs, parent>>
    /\ Search

Spec == Init /\ [][Next]_vars
=============================================================================

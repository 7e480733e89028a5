----------------------- MODULE DictionaryRefinement -----------------------
(***************************************************************************)
(* FiclDictionary keeps the promise of WordlistSpec, and a marker brings   *)
(* back what it saved.                                                     *)
(***************************************************************************)
EXTENDS FiclDictionary

VARIABLES
    contents,   \* what each wordlist holds: computed from the chains
    past        \* contents when each live marker was made

varsR == <<vars, contents, past>>

Contents == [l \in LiveLists |-> {<<word[a].name, a>> : a \in Entries(l)}]

InitR ==
    /\ Init
    /\ contents = Contents
    /\ past = << >>

NextR ==
    /\ Next
    /\ contents' = Contents'
    /\ past' = [a \in {m \in Addr : kind'[m] = "marker"} |->
                    IF a < here THEN past[a] ELSE contents]

SpecR == InitR /\ [][NextR]_varsR

Promise == INSTANCE WordlistSpec WITH
    Ages     <- Addr,
    MaxOrder <- MaxWordlists,
    defs     <- contents,
    parent   <- [l \in DOMAIN contents |-> list[l].link]

(* The dictionary implements WordlistSpec: wordlists only gain whole        *)
(* definitions and lose them only from some age on, whatever definition is   *)
(* opened, finished, aborted or forgotten in between.                        *)
KeepsPromise == Promise!Spec

(* ficlDictionaryLookup finds the youngest definition of the first wordlist  *)
(* in the search order that has one, or whose ancestors have one.            *)
LookupKeepsPromise == \A n \in Names : Lookup(n) = Promise!Meaning(n)

(* Running a marker brings every wordlist that is left back to what it held  *)
(* when the marker was made, and the search order and the compilation        *)
(* wordlist with them (marker.fr: clear search order, reset HERE, forget).    *)
MarkerRestores ==
    [][\A n \in Markers : RunMarker(n) =>
        LET m == Lookup(n) IN
        /\ contents' = past[m]
        /\ current' = saved[m].current /\ order' = saved[m].order]_varsR
=============================================================================

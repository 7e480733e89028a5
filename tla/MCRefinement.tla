--------------------------- MODULE MCRefinement ---------------------------
(* DictionaryRefinement on a small memory, for TLC: the names dup and swap, *)
(* which hash to different buckets.                                       *)
EXTENDS FiclDictionaryProofs, TLC

CONSTANTS dup, swap, none

MCNames    == {dup, swap}
MCHash     == dup :> 0 @@ swap :> 1
AllRules   == AllObligations

\* Bound: a marker saves a search order of one wordlist at most.
ShortSaved == \A a \in Addr : kind[a] = "marker" => Len(saved[a].order) <= 1
=============================================================================

------------------------------ MODULE MCFiles ------------------------------
(* FiclFiles with two files and two names, for TLC. *)
EXTENDS FiclFiles, TLC

CONSTANTS f1, f2, n1, n2, i1, i2
MCFiles   == {f1, f2}
MCNames   == {n1, n2}
MCInodes  == {i1, i2}
MCChars   == {"a", "\r", "\n"}
Alike     == Permutations(MCFiles) \union Permutations(MCNames) \union Permutations(MCInodes)
MCWritten == {<<"a">>}

\* Bound: a file is written, or read by lines, on its own; texts that are
\* interpreted have at most two words.  A carriage return is only read,
\* and a file that is being included stands at its beginning or at its end.
Bounded ==
    /\ (\E f \in Open : file[f].writes) \/ lines.file # None =>
          sources = << >> /\ Cardinality(Open) = 1 /\ Unused # {}
    /\ (\E i \in Inodes : texts[i] # None /\ \E k \in DOMAIN texts[i] : texts[i][k] = "\r") =>
          sources = << >> /\ Cardinality(Open) <= 1 /\ \A f \in Open : ~file[f].writes
    /\ \A f \in Included \intersect Open : file[f].position \in {0, FileSize(f)}
    /\ sources # << >> => \A i \in Inodes : texts[i] \in {None, << >>, <<"a">>, <<"a", "a">>}
=============================================================================

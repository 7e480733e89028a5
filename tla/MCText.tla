------------------------------- MODULE MCText ------------------------------
(* FiclText on short lines and numbers, for TLC. *)
EXTENDS FiclText

CONSTANT MaxText        \* bound: the characters of a line

TextChars == {" ", "\n", "\"", "-", "1"}
MCTexts == BoundedSeq(TextChars, MaxText)
           \union {<<"-", "2", "1">>, <<"2", "0", " ", "1", ".">>, <<"+", "1", "9">>}
           \union {[i \in 1..n |-> "1"] : n \in 4..9}
           \union {<<"-", "1", ".", "5", "e", "-", "1">>, <<"1", "e", " ", "2", ".", "e", "+", "1">>, <<"-", "e">>,
                   <<".", "5">>, <<"1", "e", "1", ".">>, <<".", "2", "e", "3", "0">>, <<"1", ".", "1", ".", "e">>}
           \union {<<"-", "1", ".">>, <<"+", ".">>, <<".">>, <<"1", " ", "-", "2", ".">>, <<"2", "e">>}
MCDelims == {" ", "\""}

MCDoubles  == {Double(h, l) : h \in {0, 1, 9}, l \in {0, 7, 15}}

Line(format, arguments) == [format |-> format, arguments |-> arguments]
MCFormats ==
    {Line(<<"%", "d", "-", "%", "u">>, <<-2, 7>>), Line(<<"a", "%", "0", "4", "d", "a">>, <<-5>>),
     Line(<<"%", "*", "x">>, <<3, -1>>), Line(<<"%", "1", "d">>, <<-3>>),
     Line(<<"%", "s", "%", "%", "d">>, << <<"1", "-">>, 3>>), Line(<<"-", "%">>, << >>)}
=============================================================================

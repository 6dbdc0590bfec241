----------------------------- MODULE MCTokeniser -----------------------------
(***************************************************************************)
(* Every text of a few characters, and texts of a line after one that may  *)
(* declare a variable.                                                     *)
(***************************************************************************)
EXTENDS TokeniserReference

\* V is VAR, T a type and % the key of the current instruction.
AllChars == {Newline, Space, Comma, Single, Double, Dollar, Point, Digit, "x", "V", "T", "%"}
XAndVar == {<<"x">>, <<"V">>}
ArityOfBoth == [i \in XAndVar |-> IF i = <<"V">> THEN 3 ELSE 1]
Var == <<"V">>
OneKeyword == {<<"T">>}
Reserved == <<"%">>

ShortTexts == BoundedSeq({Newline, Space, Comma, Single, Double, Dollar, "x"}, 5)

\* VAR $x,T,1 and what is nearly that.
X == <<Dollar, "x">>
Arg3(a, b, c) == a \o <<Comma>> \o b \o <<Comma>> \o c
VarLine(rest) == <<"V", Space>> \o rest
Declarations ==
    {VarLine(r) : r \in
        {Arg3(X, <<"T">>, l) : l \in {<<Digit>>, <<Point, Digit>>, <<Point, Point>>, <<"x">>, <<>>,
                                      <<Single, Comma, Single>>, <<Double, Double>>}}
        \cup {Arg3(X, <<"T">>, <<Digit, Comma>> \o r4) :
                r4 \in {<<Dollar, "V">>, <<Dollar, "%">>, <<Comma>>}}
        \cup {Arg3(<<"x">>, <<"T">>, <<Digit>>), Arg3(X, <<"x">>, <<Digit>>), X}}
    \cup {<<"x", Space>> \o Arg3(X, <<"T">>, <<Digit>>)}

\* A line of up to three parts after its name.
PartsOfArguments == {X, <<Dollar, "V">>, <<Dollar, "%">>, <<"x">>, <<Comma>>}
Uses == {n \o <<Space>> \o FlattenSeq(r) : n \in XAndVar, r \in BoundedSeq(PartsOfArguments, 3)}
TwoLines == {d \o <<Newline>> \o u : d \in Declarations, u \in Uses}
            \cup {u \o <<Newline>> \o d : d \in Declarations, u \in Uses}

ManyTexts == ShortTexts \cup TwoLines
=============================================================================

------------------------- MODULE TokeniserReference -------------------------
(***************************************************************************)
(* What cutting a text outside of quotes means, by counting the quotes     *)
(* before a position, and which texts can be read to their end.            *)
(***************************************************************************)
EXTENDS Tokeniser

Quotes(s) == {i \in DOMAIN s : s[i] \in {Single, Double}}
Free(s, i) == Cardinality({q \in Quotes(s) : q < i}) % 2 = 0

\* Each quote that is not within quotes is closed, by the next quote, which
\* is of its kind.
Follows(s, i, j) == i < j /\ \A k \in (i + 1)..(j - 1) : k \notin Quotes(s)
Paired(s) ==
    /\ Free(s, Len(s) + 1)
    /\ \A i \in Quotes(s), j \in Quotes(s) : Free(s, i) /\ Follows(s, i, j) => s[i] = s[j]

\* Where a piece ends: at each cut, and at the end of the text if there is
\* something after the last cut.
Cuts(s, delim) == {i \in DOMAIN s : s[i] = delim /\ Free(s, i)}
Ends(s, delim) ==
    Cuts(s, delim) \cup (IF s = <<>> \/ Len(s) \in Cuts(s, delim) THEN {} ELSE {Len(s) + 1})
Count(s, delim, n) == Cardinality({e \in Ends(s, delim) : e <= n})

\* The part of s from a up to the end at e is a piece.
StartsAt(s, delim, a) == a = 1 \/ a - 1 \in Cuts(s, delim)
IsPiece(s, delim, a, e) ==
    /\ e \in Ends(s, delim) /\ a \in 1..e /\ StartsAt(s, delim, a)
    /\ \A j \in a..(e - 1) : j \notin Cuts(s, delim)

\* Piece number k of s is in a set; pieces are those of s from number
\* skipped + 1 on; they are all of them.
PieceIn(k, set, s, delim) ==
    \E e \in Ends(s, delim) :
        /\ Count(s, delim, e) = k
        /\ \E a \in 1..e : IsPiece(s, delim, a, e) /\ SubSeq(s, a, e - 1) \in set
PiecesAfter(skipped, pieces, s, delim) ==
    /\ skipped + Len(pieces) = Cardinality(Ends(s, delim))
    /\ \A k \in DOMAIN pieces : PieceIn(skipped + k, {pieces[k]}, s, delim)
Pieces(pieces, s, delim) == PiecesAfter(0, pieces, s, delim)

-----------------------------------------------------------------------------
(* The lines of the text, and what stands in one.                          *)

Line(a, e) == SubSeq(text, a, e - 1)
IsLine(a, e) == IsPiece(text, Newline, a, e)

\* The name of line t ends at sp; after it there is the text of the arguments
\* and no space outside of quotes but one at the end of the line.
LastEnd(t) == IF Len(t) \in Cuts(t, Space) THEN Len(t) ELSE Len(t) + 1
NameEnds(t, sp) == IsPiece(t, Space, 1, sp) /\ Cuts(t, Space) \subseteq {sp, Len(t)}
Name(t, sp) == SubSeq(t, 1, sp - 1)
ArgumentText(t, sp) == SubSeq(t, sp + 1, LastEnd(t) - 1)
Calls(t, sp) == NameEnds(t, sp) /\ Name(t, sp) \in Instructions

\* Line t is VAR $name,type,literal; further arguments are anything that does
\* not make the filters throw.
Declares(t, name) ==
    \E sp \in 1..(Len(t) + 1) :
        LET p == ArgumentText(t, sp)
        IN /\ Calls(t, sp) /\ Name(t, sp) = Declare
           /\ PieceIn(1, {<<Dollar>> \o name}, p, Comma)
           /\ PieceIn(2, Keywords, p, Comma)
           /\ PieceIn(3, Literals, p, Comma)
           /\ \A k \in 1..Cardinality(Ends(p, Comma)) :
                ~PieceIn(k, {<<Dollar>> \o CurrentInst}, p, Comma)
DeclaredAbove(e, name) ==
    \E f \in Ends(text, Newline) : f < e /\ \E b \in 1..f : IsLine(b, f) /\ Declares(Line(b, f), name)

\* A variable that an instruction of the line that ends at e may name.
Known(e, inst, name) == name # CurrentInst /\ (inst = Declare \/ DeclaredAbove(e, name))

-----------------------------------------------------------------------------
\* strutil.h:24-26: a text is cut at the delimiters outside of quotes and
\* nowhere else, and refused exactly when its quotes do not pair up.
CutsOutsideQuotes ==
    /\ status = "bad_exception" => ~Paired(text)
    /\ status = "reading" =>
         /\ Paired(text)
         /\ \E done \in 0..(Len(text) + 1) : PiecesAfter(done, lines, text, Newline)

\* What is handed to a builder is the text of an instruction's line after its
\* name, cut at all the commas outside of quotes; each argument is there, and
\* the variables among them are declared by earlier lines, or new after VAR
\* (parser.cpp:17-45, instruction_impl.cpp:105-136, WorkDeclVar.cpp:50-77).
ArgumentsWhole ==
    \A k \in DOMAIN args :
        \E e \in Ends(text, Newline) : \E a \in 1..e : \E sp \in 1..(Len(text) + 1) :
            /\ IsLine(a, e) /\ Calls(Line(a, e), sp)
            /\ Pieces(args[k], ArgumentText(Line(a, e), sp), Comma)
            /\ \A n \in DOMAIN args[k] :
                 /\ args[k][n] # <<>>
                 /\ args[k][n][1] = Dollar => Known(e, Name(Line(a, e), sp), Tail(args[k][n]))

-----------------------------------------------------------------------------
(* The texts that cannot be read to the end.                               *)

\* The line that ends at e has nothing in it.
BlankLine(a, e) == IsLine(a, e) /\ a = e

\* The comma at i of p ends an empty argument, and the variables before it
\* are known.
EmptyAt(p, i, e, inst) ==
    /\ i \in Cuts(p, Comma) /\ StartsAt(p, Comma, i)
    /\ \A f \in Ends(p, Comma) : \A j \in 1..f :
         f < i /\ IsPiece(p, Comma, j, f) /\ p[j] = Dollar => Known(e, inst, SubSeq(p, j + 1, f - 1))
EmptyArgument(a, e) ==
    /\ IsLine(a, e)
    /\ \E sp \in 1..(Len(text) + 1) :
         LET p == ArgumentText(Line(a, e), sp)
         IN /\ Calls(Line(a, e), sp)
            /\ \E i \in 1..Len(p) : EmptyAt(p, i, e, Name(Line(a, e), sp))

\* An instruction has fewer arguments than its matcher looks at.
ShortLine(a, e) ==
    /\ IsLine(a, e)
    /\ \E sp \in 1..(Len(text) + 1) :
         /\ Calls(Line(a, e), sp)
         /\ Cardinality(Ends(ArgumentText(Line(a, e), sp), Comma)) < Arity[Name(Line(a, e), sp)]

\* parse() comes to an end only when the quotes of the source pair up, no line
\* is empty and no instruction has an empty argument after variables that are
\* known; only these end it, and what a matcher finds behind a short line.
\* Quotes that pair up in the source do so in every piece, so that only the
\* first split can throw (strutil.cpp:80-95, parser.cpp:21, 65-83,
\* instruction_impl.cpp:108, restriction.cpp:132-143).
ReadsExactly ==
    /\ status = "read" =>
         Paired(text) /\ \A e \in Ends(text, Newline) : \A a \in 1..e :
                            ~BlankLine(a, e) /\ ~EmptyArgument(a, e)
    /\ status = "bad_exception" => lines = <<>> /\ ~Paired(text)
    /\ status = "undefined" =>
         \E e \in Ends(text, Newline) : \E a \in 1..e : BlankLine(a, e) \/ ShortLine(a, e)
    /\ status = "out_of_range" =>
         \E e \in Ends(text, Newline) : \E a \in 1..e : EmptyArgument(a, e)
=============================================================================

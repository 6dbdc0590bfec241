------------------------------ MODULE Tokeniser ------------------------------
(***************************************************************************)
(* From the text of a source to the arguments of its lines: how parse()    *)
(* and parseUnit() cut it with splitDetectStringChar, and the texts on     *)
(* which they do not come to an end.  A character is one of a few classes. *)
(***************************************************************************)
EXTENDS Integers, SequencesExt

Newline == "nl"    Space == "sp"    Comma == "co"
Single == "q"      Double == "dq"   Dollar == "$"
Point == "."       Digit == "1"

CONSTANTS Chars,         \* the characters of a text, those above among them
          Texts,         \* the texts that parse() may be given
          Instructions,  \* the registered names
          Declare,       \* the name of VAR
          Arity,         \* how many tokens the matcher of each looks at
                         \* whether they are there or not
          Keywords,      \* the names of types
          CurrentInst    \* the key under which the context keeps a name

ASSUME TokeniserAssumption ==
    /\ Texts \subseteq Seq(Chars) /\ CurrentInst \in Seq(Chars)
    /\ Arity \in [Instructions -> Nat]

VARIABLES text,
          lines,    \* the pieces of the text still to be read, unless failed
          args,     \* the arguments of each line handed to its builder
          context,  \* the names of the variables declared so far
          status    \* splitting, reading, read, or what ended parse():
                    \* bad_exception, out_of_range, undefined

tvars == <<text, lines, args, context, status>>

-----------------------------------------------------------------------------
(* splitDetectStringChar: embraced is the quote that is open, if any.      *)
Unquoted == "none"

\* Mutated: any quote closes; a piece begins with its delimiter.
EmbraceAny(acc, c) ==
    [acc EXCEPT !.embraced = IF acc.embraced = Unquoted THEN c ELSE Unquoted]
CutShort(acc, s, i) ==
    [acc EXCEPT !.pieces = Append(@, SubSeq(s, acc.last, i - 1)), !.last = i]

Embrace(acc, c) ==
    CASE acc.embraced = Unquoted -> [acc EXCEPT !.embraced = c]
      [] acc.embraced = c        -> [acc EXCEPT !.embraced = Unquoted]
      [] OTHER                   -> [acc EXCEPT !.failed = TRUE]

Cut(acc, s, i) ==
    [acc EXCEPT !.pieces = Append(@, SubSeq(s, acc.last, i - 1)), !.last = i + 1]

\* What is after the last delimiter; an empty rest is no piece.
LastPiece(acc, s) ==
    IF acc.last > Len(s) THEN acc.pieces
    ELSE Append(acc.pieces, SubSeq(s, acc.last, Len(s)))

VisitChar(acc, s, delim, i) ==
    CASE acc.failed -> acc
      [] ~acc.failed /\ s[i] = delim /\ acc.embraced = Unquoted -> Cut(acc, s, i)
      [] ~acc.failed /\ s[i] \in {Single, Double} -> Embrace(acc, s[i])
      [] OTHER -> acc

Split(s, delim) ==
    LET after[n \in 0..Len(s)] ==
          IF n = 0 THEN [last |-> 1, embraced |-> Unquoted, pieces |-> <<>>, failed |-> FALSE]
          ELSE VisitChar(after[n - 1], s, delim, n)
        end == after[Len(s)]
    IN [pieces |-> LastPiece(end, s), failed |-> end.failed \/ end.embraced # Unquoted]

-----------------------------------------------------------------------------
\* parse() trims a copy of the text that it does not use.
TInit == /\ text \in Texts
         /\ lines = <<>> /\ args = <<>> /\ context = {} /\ status = "splitting"

SplitSource ==
    /\ status = "splitting"
    /\ LET split == Split(text, Newline)
       IN IF split.failed THEN status' = "bad_exception" /\ UNCHANGED lines
          ELSE status' = "reading" /\ lines' = split.pieces
    /\ UNCHANGED <<text, args, context>>

\* Mutated: the filter makes no exception for VAR.
RefusedEverywhere(piece, inst) == Head(piece) = Dollar /\ Tail(piece) \notin context

\* The first filter throws: a variable that is not declared is a new name
\* after VAR only, and the entry of the current instruction has no type.
Refused(piece, inst) ==
    /\ Head(piece) = Dollar
    /\ Tail(piece) = CurrentInst \/ (inst # Declare /\ Tail(piece) \notin context)

\* What parseUnit() makes of a line: arguments for its builder, an exception
\* that parse() catches (dropped), or the end of parse().  at(0) of an empty
\* argument throws what is not caught.
Arguments(split, inst) ==
    LET bad == {k \in DOMAIN split.pieces :
                   split.pieces[k] = <<>> \/ Refused(split.pieces[k], inst)}
        first == CHOOSE k \in bad : \A l \in bad : k <= l
    IN CASE split.failed -> [end |-> "bad_exception"]
         [] ~split.failed /\ bad = {} -> [end |-> "built", inst |-> inst, args |-> split.pieces]
         [] OTHER -> [end |-> IF split.pieces[first] = <<>> THEN "out_of_range" ELSE "dropped"]

ParseUnit(line) ==
    LET buffer == Split(line, Space)
        words == buffer.pieces
    IN CASE buffer.failed -> [end |-> "bad_exception"]
         [] ~buffer.failed /\ Len(words) = 0 -> [end |-> "undefined"]
         [] ~buffer.failed /\ Len(words) \in 1..2 /\ words[1] \in Instructions ->
              Arguments(Split(IF Len(words) = 2 THEN words[2] ELSE <<>>, Comma), words[1])
         [] OTHER -> [end |-> "dropped"]

\* What the filters make a number, a character or a string.
IsNumber(p) ==
    /\ \A i \in DOMAIN p : p[i] \in {Digit, Point}
    /\ Cardinality({i \in DOMAIN p : p[i] = Point}) <= 1
IsChar(p) == Len(p) = 3 /\ p[1] = Single /\ p[3] = Single
IsString(p) == p[1] = Double /\ p[Len(p)] = Double
Literals == {p \in Seq(Chars) : p # <<>> /\ (IsNumber(p) \/ IsChar(p) \/ IsString(p))}

\* What the builder of VAR puts into the context, when its matcher has seen a
\* name, a type and a literal; further arguments are not looked at.
Declared(unit) ==
    IF /\ unit.inst = Declare /\ Len(unit.args) >= 3
       /\ Head(unit.args[1]) = Dollar
       /\ unit.args[2] \in Keywords /\ unit.args[3] \in Literals
    THEN {Tail(unit.args[1])} ELSE {}

\* A matcher that reads past the tokens of a short line may find anything;
\* it stops before at a token of another type.
ReadLine ==
    /\ status = "reading" /\ lines # <<>>
    /\ lines' = Tail(lines)
    /\ LET unit == ParseUnit(Head(lines))
       IN \/ /\ unit.end = "built"
             /\ args' = Append(args, unit.args)
             /\ context' = context \cup Declared(unit)
             /\ UNCHANGED status
          \/ /\ unit.end = "built" /\ Len(unit.args) < Arity[unit.inst]
             /\ status' = "undefined"
             /\ UNCHANGED <<args, context>>
          \/ /\ unit.end = "dropped"
             /\ UNCHANGED <<args, context, status>>
          \/ /\ unit.end \notin {"built", "dropped"}
             /\ status' = unit.end
             /\ UNCHANGED <<args, context>>
    /\ UNCHANGED text

EndReading ==
    /\ status = "reading" /\ lines = <<>>
    /\ status' = "read"
    /\ UNCHANGED <<text, lines, args, context>>

TNext == SplitSource \/ ReadLine \/ EndReading
TSpec == TInit /\ [][TNext]_tvars
=============================================================================

------------------------------ MODULE MCValues ------------------------------
(***************************************************************************)
(* Programs on values, from sources that the model of the parser accepts.  *)
(***************************************************************************)
EXTENDS ValueProperties, SequencesExt

L == INSTANCE Linker

Line(op, name, args) == [op |-> op, name |-> name, args |-> args]
Declare(x, type, lit) == Line("VAR", x, <<Typename(type), lit>>)

a == 97
b == 98
AB == Quoted(<<a, b>>)

\* Parser::parse on the whole source.
Context(source, i) ==
    FoldLeft(LAMBDA map, line : L!Declaring(line, map), <<>>, SubSeq(source, 1, i - 1))
AllAccepted(source) ==
    \A i \in DOMAIN source : L!Accepted(source[i], Context(source, i))
Linked(source) == L!LinkAll([i \in DOMAIN source |-> L!Unit(source[i])])
Build(sources) ==
    {[works |-> Linked(s).segs[1], types |-> Context(s, Len(s) + 1)] :
        s \in {z \in sources : AllAccepted(z) /\ Linked(z).err = L!NoError}}

\* Declarations of a numeric, a real, a character and a string, with every
\* kind of literal.
Declarations(Ints, Reals, Strings) ==
    {<<Declare("i", "NUMERIC", n), Declare("r", "REAL", x),
       Declare("c", "CHAR", Letter(a)), Declare("s", "STRING", t)>> :
         n \in Ints, x \in Reals, t \in Strings}
AllDeclarations ==
    Declarations({Const(1), Quoted(<<a>>), Point(<<50>>), Letter(a)},
                 {Point(<<50>>), Const(0), Const(1), Letter(a)}, {AB, Const(2)})
PlainDeclarations == Declarations({Const(1)}, {Point(<<50>>)}, {AB})

Instructions ==
    {Line("ADD", "i", <<Const(2), Var("i")>>), Line("ADD", "i", <<Const(1), Var("r")>>),
     Line("MUL", "r", <<Var("i"), Point(<<50>>)>>), Line("MUL", "r", <<Var("i"), Var("r")>>),
     Line("SUB", "i", <<Const(0), Var("i")>>), Line("SUB", "i", <<Var("r"), Const(1)>>),
     Line("SUB", "r", <<Const(1), Var("r")>>), Line("DIV", "r", <<Const(2), Const(1)>>),
     Line("DIV", "i", <<Const(2), Var("i")>>), Line("DIV", "r", <<Var("r"), Var("i")>>),
     Line("SET_STR_CHAR", "s", <<Var("i"), Var("c")>>),
     Line("SET_STR_CHAR", "s", <<Const(1), Letter(b)>>),
     Line("GET_STR_CHAR", "s", <<Const(2), Var("c")>>),
     Line("GET_STR_CHAR", "s", <<Var("i"), Var("c")>>),
     Line("ASSIGN", "s", <<Var("s")>>), Line("ASSIGN", "r", <<Var("r")>>),
     Line("OUT", "", <<Var("i"), Var("r"), Var("s"), Point(<<50>>)>>),
     Line("OUT", "", <<Letter(a), Var("c")>>), Line("LABEL", "m", <<>>)}

\* A declaration that is jumped over, some of the others after it, and an
\* instruction.
Plain == {Declare("i", "NUMERIC", Const(1)), Declare("r", "REAL", Const(0)),
          Declare("c", "CHAR", Letter(a)), Declare("s", "STRING", AB)}
Skip(line) == <<Line("JMP", "l", <<>>), line, Line("LABEL", "l", <<>>)>>
SkippedPrograms ==
    {Skip(line) \o SetToSeq(D) \o <<use>> :
        line \in Plain, D \in SUBSET Plain, use \in Instructions \cup
            {Line("ADD", "i", <<Const(1), Const(1)>>), Line("SUB", "i", <<Const(1), Const(1)>>)}}

AllPrograms ==
    Build({d \o s : d \in AllDeclarations, s \in BoundedSeq(Instructions, 1)}
          \cup {d \o s : d \in PlainDeclarations, s \in BoundedSeq(Instructions, 3)}
          \cup SkippedPrograms)

-----------------------------------------------------------------------------
(* The README's declarations and instructions, with smaller numbers.       *)

ReadmeProgram ==
    Build({<<Declare("myint", "NUMERIC", Const(1)), Declare("mychar", "CHAR", Letter(a)),
             Line("VAR", "mystr", <<Typename("STRING"), Const(2), AB>>),
             Declare("quotient", "NUMERIC", Const(0)),
             Line("ADD", "myint", <<Const(1), Const(2)>>),
             Line("DIV", "quotient", <<Const(4), Const(2)>>)>>})

\* README.md:59, 60, 67, 70: a character and a string hold the value they
\* are declared with, ADD stores the sum of its operands and DIV the
\* quotient of its second and third parameters.
ReadmeValues ==
    status = "done" =>
        /\ chars["mychar"] = <<a>> /\ chars["mystr"] = <<a, b>>
        /\ numbers["myint"] = Long(3) /\ numbers["quotient"] = Long(2)
=============================================================================

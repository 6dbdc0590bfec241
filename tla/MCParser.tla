------------------------------ MODULE MCParser ------------------------------
(***************************************************************************)
(* Sources for the parser and the linkers: every sequence of these lines.  *)
(***************************************************************************)
EXTENDS ParserReference

Line(op, name, args) == [op |-> op, name |-> name, args |-> args]

\* Blocks, locks on numbers, labels and jumps.
StructureLines ==
    {Line("THREAD_BEGIN", "", <<>>), Line("THREAD_END", "", <<>>),
     Line("LOCK", "1", <<Const(1)>>), Line("UNLOCK", "1", <<Const(1)>>),
     Line("LOCK", "2", <<Const(2)>>),
     Line("LABEL", "a", <<>>), Line("JMP", "a", <<>>)}

\* Declarations, lines that need them, and lines that are never accepted.
VariableLines ==
    {Line("VAR", "i", <<Typename("NUMERIC"), Const(0)>>),
     Line("VAR", "j", <<Typename("NUMERIC"), Quoted("s")>>),
     Line("ADD", "i", <<Var("j"), Const(1)>>), Line("ADD", "i", <<Const(1)>>),
     Line("ADD", "i", <<Const(1), Text("a")>>), Line("OUT", "", <<Quoted("s"), Text("a")>>),
     Line("SUB", "i", <<Var("i"), Const(-1)>>), Line("DIV", "i", <<Const(1), Const(1), Text("a")>>),
     Line("ASSIGN", "i", <<Var("j")>>), Line("ASSIGN", "j", <<Var("j")>>),
     Line("OUT", "", <<Var("i"), Const(1)>>), Line("LOCK", "j", <<Var("j")>>),
     Line("UNLOCK", "j", <<Var("j")>>), Line("THREAD_BEGIN", "", <<>>),
     Line("THREAD_END", "", <<>>)}

\* Strings, characters, reals, and an instruction that there is not.
StringLines ==
    {Line("VAR", "s", <<Typename("STRING"), Const(2), Quoted("ab")>>),
     Line("VAR", "c", <<Typename("CHAR"), Letter("a")>>),
     Line("VAR", "r", <<Typename("REAL"), Point("1.5")>>),
     Line("VAR", "c", <<Typename("NUMERIC"), Const(0)>>),
     Line("VAR", "s", <<Text("CHARS"), Letter("a")>>),
     Line("SET_STR_CHAR", "s", <<Const(0), Var("c")>>),
     Line("SET_STR_CHAR", "s", <<Point("1.5"), Letter("a")>>),
     Line("SET_STR_CHAR", "s", <<Var("r"), Letter("a")>>),
     Line("SET_STR_CHAR", "c", <<Var("c"), Var("c")>>),
     Line("GET_STR_CHAR", "s", <<Var("c"), Var("c")>>),
     Line("GET_STR_CHAR", "s", <<Const(1), Var("c")>>),
     Line("GET_STR_CHAR", "s", <<Const(1), Letter("a")>>),
     Line("ADD", "r", <<Point("1.5"), Var("c")>>), Line("SUB", "r", <<Var("r"), Const(1)>>),
     Line("ASSIGN", "c", <<Var("c")>>), Line("ASSIGN", "s", <<Var("r")>>),
     Line("OUT", "", <<Var("s"), Letter("a"), Typename("CHAR")>>), Line("HALT", "", <<>>)}

UpTo(n, lines) == [lines |-> [k \in 1..n |-> lines], least |-> 0]
AllShapes == {UpTo(6, StructureLines), UpTo(5, VariableLines),
              UpTo(4, StringLines)}

\* An ASSIGN as README.md:94 shows it, and a block that is not closed.
DocumentedShape ==
    {[lines |-> <<{Line("VAR", "i", <<Typename("NUMERIC"), Const(0)>>)},
                  {Line("VAR", "j", <<Typename("NUMERIC"), Const(1)>>)},
                  {Line("ASSIGN", "i", <<Var("j")>>)}, {Line("THREAD_BEGIN", "", <<>>)},
                  {Line("OUT", "", <<Var("i")>>)}>>,
      least |-> 5]}
=============================================================================

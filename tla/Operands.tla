------------------------------- MODULE Operands -------------------------------
(***************************************************************************)
(* The arguments of an instruction as they are written, and the operands   *)
(* that each kind of work takes.                                           *)
(***************************************************************************)
EXTENDS Integers, Sequences

Var(x) == <<"var", x>>
Const(n) == <<"const", n>>       \* an integer; one with a sign is no literal
Point(s) == <<"point", s>>       \* digits with a point, s its text
Letter(c) == <<"char", c>>       \* a character in single quotes
Quoted(s) == <<"string", s>>     \* a text in double quotes
Typename(t) == <<"type", t>>     \* NUMERIC, REAL, CHAR or STRING
Text(s) == <<"text", s>>         \* none of these

IsVar(arg) == arg[1] = "var"

\* What the parser is given: a type is written as one of four keywords.
Types == {"NUMERIC", "REAL", "CHAR", "STRING"}
Argument == ({"var", "point", "char", "string", "text"} \X STRING)
            \cup ({"const"} \X Int) \cup ({"type"} \X Types)

\* map[x] = v.
Bind(map, x, v) == [y \in (DOMAIN map) \cup {x} |-> IF y = x THEN v ELSE map[y]]

Math == {"ADD", "MUL", "SUB", "DIV"}
StringOps == {"SET_STR_CHAR", "GET_STR_CHAR"}
Jumps == {"JMP", "JMPZ", "JMPNZ", "JMPGT", "JMPLT", "JMPGTE", "JMPLTE"}

-----------------------------------------------------------------------------
(* The operands that a work's performance() can evaluate; types maps the   *)
(* declared variables to their types.                                      *)

VarOf(arg, types, kinds) == IsVar(arg) /\ arg[2] \in DOMAIN types /\ types[arg[2]] \in kinds
NumberLiteral(arg) == arg[1] = "point" \/ (arg[1] = "const" /\ arg[2] >= 0)
ALiteral(arg) == NumberLiteral(arg) \/ arg[1] \in {"char", "string"}
ANumber(arg, types) == NumberLiteral(arg) \/ VarOf(arg, types, {"NUMERIC", "REAL"})
AnIndex(arg, types) == NumberLiteral(arg) \/ VarOf(arg, types, {"NUMERIC"})
Printed(arg, types) == ALiteral(arg) \/ (IsVar(arg) /\ arg[2] \in DOMAIN types)
ACharacter(work, types) ==
    \/ VarOf(work.args[2], types, {"CHAR"})
    \/ /\ work.op = "SET_STR_CHAR"
       /\ work.args[2][1] = "char"

AllNumbers(work, types) == \A k \in 1..Len(work.args) : ANumber(work.args[k], types)

WorkTyped(work, types) ==
    CASE work.op = "VAR" -> Len(work.args) = 2 /\ ALiteral(work.args[2])
      [] work.op \in Math -> ANumber(Var(work.name), types) /\ AllNumbers(work, types)
      [] work.op = "ASSIGN" ->
           /\ work.name \in DOMAIN types
           /\ VarOf(work.args[1], types, {types[work.name]})
      [] work.op = "OUT" -> \A k \in 1..Len(work.args) : Printed(work.args[k], types)
      [] work.op \in StringOps ->
           /\ VarOf(Var(work.name), types, {"STRING"})
           /\ AnIndex(work.args[1], types) /\ ACharacter(work, types)
      [] OTHER -> AllNumbers(work, types)
=============================================================================

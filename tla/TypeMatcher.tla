----------------------------- MODULE TypeMatcher -----------------------------
(***************************************************************************)
(* From the arguments of a line to the verdict of its UnitBuilder: the     *)
(* filters make a token of each argument, the TypeMatcher of the           *)
(* instruction looks at the types of the tokens, and the builder wraps the *)
(* operands in Getters.                                                    *)
(***************************************************************************)
EXTENDS Works

\* get_type: 0 for digits, -1 when there is a sign.
GetType(n) == IF n >= 0 THEN 0 ELSE -1

\* A literal with a sign is plain text, one with a point is NUMERIC.
LiteralToken(arg) ==
    CASE arg[1] = "const" -> IF GetType(arg[2]) = -1 THEN "PLAIN_TEXT" ELSE "NUMERIC"
      [] arg[1] = "point" -> "NUMERIC"
      [] arg[1] = "char" -> "CHAR"
      [] arg[1] = "string" -> "STRING"
      [] arg[1] = "type" -> "TYPE"
      [] OTHER -> "PLAIN_TEXT"

VarToken(type) ==
    CASE type = "NUMERIC" -> "VAR_NUMERIC" [] type = "REAL" -> "VAR_REAL"
      [] type = "CHAR" -> "VAR_CHAR"       [] type = "STRING" -> "VAR_STRING"

\* Mutated: a name after VAR is always new.
FilterFresh(arg, context) ==
    IF IsVar(arg) THEN "VAR_NAME" ELSE LiteralToken(arg)

\* The type of an argument's token; context maps the declared variables to
\* their types.
Filter(arg, context) ==
    IF ~IsVar(arg) THEN LiteralToken(arg)
    ELSE IF arg[2] \in DOMAIN context THEN VarToken(context[arg[2]]) ELSE "VAR_NAME"

AnyVar == {"VAR_NUMERIC", "VAR_REAL", "VAR_STRING", "VAR_CHAR"}
NumberVar == {"VAR_NUMERIC", "VAR_REAL"}
Numbers == {"NUMERIC", "REAL"} \cup NumberVar
Literal == {"NUMERIC", "REAL", "STRING", "CHAR"}
Printable == Literal \cup AnyVar

-----------------------------------------------------------------------------
(* The matchers that the instructions are registered with.                 *)

One(types) == [types |-> types, rest |-> FALSE, least |-> 1, most |-> 1]
Rest(types, least, most) == [types |-> types, rest |-> TRUE, least |-> least, most |-> most]

MathShape(op) ==
    IF op \in {"ADD", "MUL"} THEN <<One(NumberVar), Rest(Numbers, 2, 12)>>
    ELSE <<One(NumberVar), One(Numbers), One(Numbers)>>
JumpShape(op) ==
    CASE op \in {"LABEL", "JMP"}  -> <<One({"PLAIN_TEXT"})>>
      [] op \in {"JMPZ", "JMPNZ"} -> <<One({"PLAIN_TEXT"}), One(Numbers)>>
      [] OTHER -> <<One({"PLAIN_TEXT"}), One(Numbers), One(Numbers)>>
ThreadShape(op) == IF op \in {"SLEEP", "LOCK", "UNLOCK"} THEN <<One(Numbers)>> ELSE <<>>

StringShape(op) ==
    <<One({"VAR_STRING"}), One({"VAR_NUMERIC", "NUMERIC"}),
      One(IF op = "SET_STR_CHAR" THEN {"VAR_CHAR", "CHAR"} ELSE {"VAR_CHAR"})>>

Shape(op) ==
    CASE op = "VAR" -> <<One({"VAR_NAME"}), One({"TYPE"}), One(Literal)>>
      [] op \in Math -> MathShape(op)
      [] op = "ASSIGN" -> <<One(AnyVar), One(AnyVar)>>
      [] op \in StringOps -> StringShape(op)
      [] op = "OUT" -> <<Rest(Printable, 1, 12)>>
      [] op \in Jumps \cup {"LABEL"} -> JumpShape(op)
      [] OTHER -> ThreadShape(op)

\* The loop over the rest does not advance: the first token stands for all.
Fits(part, tokens, i) ==
    /\ part.rest => Len(tokens) + 1 - i \in part.least .. part.most
    /\ tokens[i] \in part.types

\* Tokens after the last part are not looked at.
Match(shape, tokens) == \A i \in DOMAIN shape : Fits(shape[i], tokens, i)

\* A matcher reads past the tokens of a line that is shorter than its parts
\* up to the first that takes the rest.
LongEnough(shape, n) == \A i \in DOMAIN shape : shape[i].rest \/ i <= n

-----------------------------------------------------------------------------
(* The builders.                                                           *)

\* Mutated: the builder trusts the matcher.
WrapsTrusting(op, tokens) == TRUE

\* wrap() and warpToString() throw on a token they have no Getter for.
Wraps(op, tokens) ==
    /\ op \in {"ADD", "MUL"} => \A i \in 2..Len(tokens) : tokens[i] \in Numbers
    /\ op = "OUT" => \A i \in DOMAIN tokens : tokens[i] \in Printable

\* How many of a line's arguments its builder keeps.
Arity(op) ==
    CASE op \in {"ASSIGN", "SLEEP", "LOCK", "UNLOCK", "JMPZ", "JMPNZ"} -> 1
      [] op \in StringOps \cup {"VAR", "SUB", "DIV", "JMPGT", "JMPLT", "JMPGTE", "JMPLTE"} -> 2
      [] op \in {"ADD", "MUL", "OUT"} -> 12
      [] OTHER -> 0
=============================================================================

--------------------------- MODULE ParserTheorems ---------------------------
(***************************************************************************)
(* What the parser keeps true while it drops lines, and what the linkers   *)
(* make of the works that are left, for every source and every context.    *)
(***************************************************************************)
EXTENDS ParserReference, IterationTheorems, FiniteSetTheorems

Context(types) == types \in [DOMAIN types -> Types]

-----------------------------------------------------------------------------
(* The filters.                                                            *)

LEMMA ArgumentKinds ==
    ASSUME NEW arg \in Argument
    PROVE  /\ arg[1] \in {"var", "const", "point", "char", "string", "type", "text"}
           /\ arg[1] = "const" => arg[2] \in Int
           /\ arg[1] = "type" => arg[2] \in Types /\ arg = Typename(arg[2])
BY DEF Argument, Typename

LEMMA VarTokenIs ==
    ASSUME NEW type \in Types
    PROVE  /\ VarToken(type) \in AnyVar
           /\ VarToken(type) \in NumberVar <=> type \in {"NUMERIC", "REAL"}
           /\ VarToken(type) = "VAR_NUMERIC" <=> type = "NUMERIC"
           /\ VarToken(type) = "VAR_CHAR" <=> type = "CHAR"
           /\ VarToken(type) = "VAR_STRING" <=> type = "STRING"
BY DEF Types, VarToken, AnyVar, NumberVar

\* What the type of a token says of its argument.
LEMMA TokenMeans ==
    ASSUME NEW arg \in Argument, NEW types, Context(types)
    PROVE  LET token == Filter(arg, types)
           IN /\ token = "VAR_NAME" => arg[2] \notin DOMAIN types
              /\ token = "TYPE" => arg[2] \in Types /\ arg = Typename(arg[2])
              /\ token \in Literal => ALiteral(arg)
              /\ token \in Numbers => ANumber(arg, types)
              /\ token \in {"VAR_NUMERIC", "NUMERIC"} => AnIndex(arg, types)
              /\ token \in Printable => Printed(arg, types)
              /\ token \in AnyVar => IsVar(arg) /\ arg[2] \in DOMAIN types
              /\ token = "VAR_CHAR" => VarOf(arg, types, {"CHAR"})
              /\ token = "CHAR" => arg[1] = "char"
              /\ token = "VAR_STRING" => VarOf(arg, types, {"STRING"})
<1>1. CASE ~IsVar(arg)
  <2>1. Filter(arg, types) = LiteralToken(arg)
    BY <1>1 DEF Filter
  <2> QED
    BY <1>1, <2>1, ArgumentKinds DEF LiteralToken, GetType, Literal, Numbers, NumberVar, AnyVar,
       Printable, ALiteral, ANumber, AnIndex, Printed, NumberLiteral, IsVar
<1>2. CASE IsVar(arg) /\ arg[2] \notin DOMAIN types
  <2>1. Filter(arg, types) = "VAR_NAME"
    BY <1>2 DEF Filter
  <2> QED
    BY <1>2, <2>1 DEF Literal, Numbers, NumberVar, AnyVar, Printable
<1>3. CASE IsVar(arg) /\ arg[2] \in DOMAIN types
  <2>1. Filter(arg, types) = VarToken(types[arg[2]]) /\ types[arg[2]] \in Types
    BY <1>3 DEF Filter, Context
  <2> QED
    BY <1>3, <2>1, VarTokenIs DEF Literal, Numbers, NumberVar, AnyVar, Printable, ANumber,
       AnIndex, Printed, VarOf
<1> QED BY <1>1, <1>2, <1>3

-----------------------------------------------------------------------------
(* The matchers and the builders.                                          *)

\* The arguments of a line, with the name it is about before its operands.
LEMMA ArgumentsAre ==
    ASSUME NEW line \in WrittenLine
    PROVE  /\ Arguments(line) \in Seq(Argument)
           /\ line.op \in NamesVariable \cup {"VAR"} =>
                /\ Len(Arguments(line)) = Len(line.args) + 1
                /\ Arguments(line)[1] = Var(line.name)
                /\ \A k \in 1..Len(line.args) : Arguments(line)[k + 1] = line.args[k]
           /\ line.op \in Jumps \cup {"LABEL"} =>
                /\ Len(Arguments(line)) = Len(line.args) + 1
                /\ \A k \in 1..Len(line.args) : Arguments(line)[k + 1] = line.args[k]
           /\ line.op \notin NamesVariable \cup Jumps \cup {"VAR", "LABEL"} =>
                Arguments(line) = line.args
<1>1. line.args \in Seq(Argument) /\ line.name \in STRING
  BY DEF WrittenLine
<1>2. Var(line.name) \in Argument /\ Text(line.name) \in Argument
  BY <1>1 DEF Argument, Var, Text
<1>3. CASE line.op \in NamesVariable \cup {"VAR"}
  <2>1. Arguments(line) = <<Var(line.name)>> \o line.args
    BY <1>3, Zenon DEF Arguments, NamesVariable, Jumps, Math, StringOps
  <2> QED
    BY <1>1, <1>2, <1>3, <2>1 DEF NamesVariable, Jumps, Math, StringOps
<1>4. CASE line.op \in Jumps \cup {"LABEL"}
  <2>1. Arguments(line) = <<Text(line.name)>> \o line.args
    BY <1>4 DEF Arguments, NamesVariable, Jumps, Math, StringOps
  <2> QED
    BY <1>1, <1>2, <1>4, <2>1 DEF NamesVariable, Jumps, Math, StringOps
<1>5. CASE line.op \notin NamesVariable \cup Jumps \cup {"VAR", "LABEL"}
  BY <1>1, <1>5 DEF Arguments
<1> QED BY <1>3, <1>4, <1>5

\* A work keeps the first of its line's operands, as many as its builder takes.
LEMMA UnitIs ==
    ASSUME NEW line \in WrittenLine
    PROVE  LET unit == Unit(line)
           IN /\ unit \in [op : STRING, name : STRING, args : Seq(Argument), at : {<<0, 0>>}]
              /\ unit.op = line.op /\ unit.name = line.name
              /\ Len(unit.args) <= Len(line.args) /\ Len(unit.args) <= Arity(line.op)
              /\ Len(line.args) >= Arity(line.op) => Len(unit.args) = Arity(line.op)
              /\ \A k \in 1..Len(unit.args) : unit.args[k] = line.args[k]
<1> DEFINE n == Arity(line.op)
           args == line.args
           kept == {i \in DOMAIN args : i <= n}
           unit == [i \in kept |-> args[i]]
<1>1. args \in Seq(Argument) /\ line.op \in STRING /\ line.name \in STRING
  BY DEF WrittenLine
<1>2. n \in Nat
  BY DEF Arity
<1>3. Unit(line) = [op |-> line.op, name |-> line.name, args |-> unit, at |-> <<0, 0>>]
  BY DEF Unit
<1> HIDE DEF n
<1>4. /\ unit \in Seq(Argument) /\ Len(unit) <= Len(args) /\ Len(unit) <= n
      /\ Len(args) >= n => Len(unit) = n
      /\ \A k \in 1..Len(unit) : unit[k] = args[k]
  <2>1. CASE Len(args) <= n
    <3>1. kept = 1..Len(args)
      BY <1>1, <1>2, <2>1
    <3>2. unit = args
      BY <1>1, <3>1
    <3> QED BY <1>1, <1>2, <2>1, <3>2
  <2>2. CASE Len(args) > n
    <3>1. kept = 1..n
      BY <1>1, <1>2, <2>2
    <3>2. unit = [i \in 1..n |-> args[i]]
      BY <3>1
    <3>3. unit \in Seq(Argument) /\ Len(unit) = n
      <4>1. \A i \in 1..n : args[i] \in Argument
        BY <1>1, <1>2, <2>2
      <4>2. /\ [i \in 1..n |-> args[i]] \in Seq(Argument)
            /\ Len([i \in 1..n |-> args[i]]) = n
        BY <1>2, <4>1
      <4> QED BY <3>2, <4>2, Zenon
    <3> QED BY <1>1, <1>2, <2>2, <3>2, <3>3
  <2> QED BY <1>1, <1>2, <2>1, <2>2
<1> QED BY <1>1, <1>3, <1>4 DEF n

LEMMA TokensAre ==
    ASSUME NEW line \in WrittenLine, NEW types
    PROVE  /\ Len(Tokens(line, types)) = Len(Arguments(line))
           /\ DOMAIN Tokens(line, types) = 1..Len(Arguments(line))
           /\ \A i \in 1..Len(Arguments(line)) :
                Tokens(line, types)[i] = Filter(Arguments(line)[i], types)
<1> DEFINE args == Arguments(line)
<1>1. args \in Seq(Argument) /\ DOMAIN args = 1..Len(args) /\ Len(args) \in Nat
  BY ArgumentsAre
<1>2. Tokens(line, types) = [i \in 1..Len(args) |-> Filter(args[i], types)]
  BY <1>1 DEF Tokens
<1> HIDE DEF args
<1> QED BY <1>1, <1>2 DEF args

\* A line that is long enough for its matcher and becomes a work.
Builds(line, types) ==
    /\ line \in WrittenLine /\ Context(types) /\ Accepted(line, types)
    /\ LongEnough(Shape(line.op), Len(Arguments(line)))

\* Each part of its matcher has looked at a token of its own.
LEMMA PartFits ==
    ASSUME NEW line, NEW types, Builds(line, types),
           NEW i \in 1..3, i \in DOMAIN Shape(line.op), ~Shape(line.op)[i].rest
    PROVE  /\ i <= Len(Arguments(line))
           /\ Filter(Arguments(line)[i], types) \in Shape(line.op)[i].types
<1>1. i <= Len(Arguments(line))
  BY DEF Builds, LongEnough
<1>2. Tokens(line, types)[i] \in Shape(line.op)[i].types
  BY DEF Builds, Accepted, Match, Fits
<1>3. Len(Arguments(line)) \in Nat /\ line \in WrittenLine
  BY ArgumentsAre DEF Builds
<1> QED BY <1>1, <1>2, <1>3, TokensAre

\* The matchers of the instructions that name a variable.
LEMMA ShapeIs ==
    ASSUME NEW op
    PROVE  /\ op = "VAR" => Shape(op) = <<One({"VAR_NAME"}), One({"TYPE"}), One(Literal)>>
           /\ op \in {"ADD", "MUL"} => Shape(op) = <<One(NumberVar), Rest(Numbers, 2, 12)>>
           /\ op \in {"SUB", "DIV"} => Shape(op) = <<One(NumberVar), One(Numbers), One(Numbers)>>
           /\ op = "ASSIGN" => Shape(op) = <<One(AnyVar), One(AnyVar)>>
           /\ op \in StringOps => Shape(op) = StringShape(op)
           /\ op \in {"JMPZ", "JMPNZ"} => Shape(op) = <<One({"PLAIN_TEXT"}), One(Numbers)>>
           /\ op \in {"JMPGT", "JMPLT", "JMPGTE", "JMPLTE"} =>
                Shape(op) = <<One({"PLAIN_TEXT"}), One(Numbers), One(Numbers)>>
           /\ op \in {"SLEEP", "LOCK", "UNLOCK"} => Shape(op) = <<One(Numbers)>>
<1> USE DEF Shape, MathShape, JumpShape, ThreadShape, Math, StringOps, Jumps
<1>1. ASSUME op = "VAR" PROVE Shape(op) = <<One({"VAR_NAME"}), One({"TYPE"}), One(Literal)>>
  BY <1>1, Zenon
<1>2. ASSUME op \in {"ADD", "MUL"} PROVE Shape(op) = <<One(NumberVar), Rest(Numbers, 2, 12)>>
  BY <1>2, Zenon
<1>3. ASSUME op \in {"SUB", "DIV"}
      PROVE  Shape(op) = <<One(NumberVar), One(Numbers), One(Numbers)>>
  BY <1>3, Zenon
<1>4. ASSUME op = "ASSIGN" PROVE Shape(op) = <<One(AnyVar), One(AnyVar)>>
  BY <1>4, Zenon
<1>5. ASSUME op \in StringOps PROVE Shape(op) = StringShape(op)
  BY <1>5, Zenon
<1>6. ASSUME op \in {"JMPZ", "JMPNZ"} PROVE Shape(op) = <<One({"PLAIN_TEXT"}), One(Numbers)>>
  BY <1>6, Zenon
<1>7. ASSUME op \in {"JMPGT", "JMPLT", "JMPGTE", "JMPLTE"}
      PROVE  Shape(op) = <<One({"PLAIN_TEXT"}), One(Numbers), One(Numbers)>>
  BY <1>7, Zenon
<1>8. ASSUME op \in {"SLEEP", "LOCK", "UNLOCK"} PROVE Shape(op) = <<One(Numbers)>>
  BY <1>8, Zenon
<1> HIDE DEF Shape, MathShape, JumpShape, ThreadShape, Math, StringOps, Jumps
<1> QED BY <1>1, <1>2, <1>3, <1>4, <1>5, <1>6, <1>7, <1>8

LEMMA ArityIs ==
    ASSUME NEW op
    PROVE  /\ op \in {"ASSIGN", "SLEEP", "LOCK", "UNLOCK", "JMPZ", "JMPNZ"} => Arity(op) = 1
           /\ op \in StringOps \cup {"VAR", "SUB", "DIV", "JMPGT", "JMPLT", "JMPGTE", "JMPLTE"} =>
                Arity(op) = 2
           /\ op \in {"LABEL", "JMP"} => Arity(op) = 0
           /\ op \notin Math \cup StringOps \cup Jumps \cup
                        {"VAR", "ASSIGN", "OUT", "SLEEP", "LOCK", "UNLOCK"} => Arity(op) = 0
<1> USE DEF Math, StringOps, Jumps
<1>1. ASSUME op \in {"ASSIGN", "SLEEP", "LOCK", "UNLOCK", "JMPZ", "JMPNZ"} PROVE Arity(op) = 1
  BY <1>1, Zenon DEF Arity
<1>2. ASSUME op \in StringOps \cup {"VAR", "SUB", "DIV", "JMPGT", "JMPLT", "JMPGTE", "JMPLTE"}
      PROVE  Arity(op) = 2
  BY <1>2, Zenon DEF Arity
<1>3. ASSUME op \in {"LABEL", "JMP"} PROVE Arity(op) = 0
  BY <1>3, Zenon DEF Arity
<1>4. ASSUME op \notin Math \cup StringOps \cup Jumps \cup
                       {"VAR", "ASSIGN", "OUT", "SLEEP", "LOCK", "UNLOCK"}
      PROVE  Arity(op) = 0
  BY <1>4, Zenon DEF Arity
<1> HIDE DEF Math, StringOps, Jumps
<1> QED BY <1>1, <1>2, <1>3, <1>4

LEMMA WorkTypedIs ==
    ASSUME NEW work, NEW types
    PROVE  /\ work.op = "VAR" =>
                (WorkTyped(work, types) <=> Len(work.args) = 2 /\ ALiteral(work.args[2]))
           /\ work.op \in Math =>
                (WorkTyped(work, types) <=>
                   ANumber(Var(work.name), types) /\ AllNumbers(work, types))
           /\ work.op = "ASSIGN" =>
                (WorkTyped(work, types) <=>
                   /\ work.name \in DOMAIN types
                   /\ VarOf(work.args[1], types, {types[work.name]}))
           /\ work.op = "OUT" =>
                (WorkTyped(work, types) <=>
                   \A k \in 1..Len(work.args) : Printed(work.args[k], types))
           /\ work.op \in StringOps =>
                (WorkTyped(work, types) <=>
                   /\ VarOf(Var(work.name), types, {"STRING"})
                   /\ AnIndex(work.args[1], types) /\ ACharacter(work, types))
           /\ work.op \notin Math \cup StringOps \cup {"VAR", "ASSIGN", "OUT"} =>
                (WorkTyped(work, types) <=> AllNumbers(work, types))
<1> USE DEF Math, StringOps
<1>1. ASSUME work.op = "VAR"
      PROVE  WorkTyped(work, types) <=> Len(work.args) = 2 /\ ALiteral(work.args[2])
  BY <1>1, Zenon DEF WorkTyped
<1>2. ASSUME work.op \in Math
      PROVE  WorkTyped(work, types) <=>
               ANumber(Var(work.name), types) /\ AllNumbers(work, types)
  BY <1>2, Zenon DEF WorkTyped
<1>3. ASSUME work.op = "ASSIGN"
      PROVE  WorkTyped(work, types) <=>
               /\ work.name \in DOMAIN types
               /\ VarOf(work.args[1], types, {types[work.name]})
  BY <1>3, Zenon DEF WorkTyped
<1>4. ASSUME work.op = "OUT"
      PROVE  WorkTyped(work, types) <=>
               \A k \in 1..Len(work.args) : Printed(work.args[k], types)
  BY <1>4, Zenon DEF WorkTyped
<1>5. ASSUME work.op \in StringOps
      PROVE  WorkTyped(work, types) <=>
               /\ VarOf(Var(work.name), types, {"STRING"})
               /\ AnIndex(work.args[1], types) /\ ACharacter(work, types)
  BY <1>5, Zenon DEF WorkTyped
<1>6. ASSUME work.op \notin Math \cup StringOps \cup {"VAR", "ASSIGN", "OUT"}
      PROVE  WorkTyped(work, types) <=> AllNumbers(work, types)
  BY <1>6, Zenon DEF WorkTyped
<1> HIDE DEF Math, StringOps
<1> QED BY <1>1, <1>2, <1>3, <1>4, <1>5, <1>6

\* A declaration that becomes a work is of a new name, has a type and a literal.
LEMMA DeclarationFits ==
    ASSUME NEW line, NEW types, Builds(line, types), line.op = "VAR"
    PROVE  /\ line.name \notin DOMAIN types
           /\ Len(line.args) >= 2
           /\ line.args[1][2] \in Types /\ line.args[1] = Typename(line.args[1][2])
           /\ ALiteral(line.args[2])
<1>1. line \in WrittenLine /\ Context(types) /\ line.args \in Seq(Argument)
  BY DEF Builds, WrittenLine
<1>2. /\ Len(Arguments(line)) = Len(line.args) + 1 /\ Arguments(line)[1] = Var(line.name)
      /\ \A k \in 1..Len(line.args) : Arguments(line)[k + 1] = line.args[k]
      /\ Arguments(line) \in Seq(Argument)
  BY <1>1, ArgumentsAre
<1>3. Shape(line.op) = <<One({"VAR_NAME"}), One({"TYPE"}), One(Literal)>>
  BY ShapeIs
<1>4. /\ DOMAIN Shape(line.op) = 1..3 /\ \A i \in 1..3 : ~Shape(line.op)[i].rest
      /\ Shape(line.op)[1].types = {"VAR_NAME"} /\ Shape(line.op)[2].types = {"TYPE"}
      /\ Shape(line.op)[3].types = Literal
  BY <1>3 DEF One
<1>5. \A i \in 1..3 : /\ i <= Len(Arguments(line))
                      /\ Filter(Arguments(line)[i], types) \in Shape(line.op)[i].types
  BY <1>4, PartFits
<1>6. /\ Len(line.args) >= 2 /\ Filter(Var(line.name), types) = "VAR_NAME"
      /\ Filter(line.args[1], types) = "TYPE" /\ Filter(line.args[2], types) \in Literal
  BY <1>1, <1>2, <1>4, <1>5
<1>7. Var(line.name) \in Argument /\ line.args[1] \in Argument /\ line.args[2] \in Argument
  BY <1>1, <1>2, <1>6
<1> QED BY <1>1, <1>6, <1>7, TokenMeans DEF Var

\* What PartFits says of a line whose first argument is the name it is about.
LEMMA NameFits ==
    ASSUME NEW line, NEW types, Builds(line, types), line.op \in NamesVariable
    PROVE  /\ line.args \in Seq(Argument) /\ Var(line.name) \in Argument
           /\ 1 \in DOMAIN Shape(line.op) /\ ~Shape(line.op)[1].rest =>
                Filter(Var(line.name), types) \in Shape(line.op)[1].types
           /\ \A k \in 1..2 : k + 1 \in DOMAIN Shape(line.op) /\ ~Shape(line.op)[k + 1].rest =>
                /\ k <= Len(line.args) /\ line.args[k] \in Argument
                /\ Filter(line.args[k], types) \in Shape(line.op)[k + 1].types
<1>1. line \in WrittenLine /\ line.args \in Seq(Argument)
  BY DEF Builds, WrittenLine
<1>2. /\ Len(Arguments(line)) = Len(line.args) + 1 /\ Arguments(line)[1] = Var(line.name)
      /\ \A k \in 1..Len(line.args) : Arguments(line)[k + 1] = line.args[k]
      /\ Arguments(line) \in Seq(Argument)
  BY <1>1, ArgumentsAre
<1>3. Var(line.name) \in Argument
  BY <1>1, <1>2
<1>4. 1 \in DOMAIN Shape(line.op) /\ ~Shape(line.op)[1].rest =>
        Filter(Var(line.name), types) \in Shape(line.op)[1].types
  BY <1>2, PartFits
<1>5. ASSUME NEW k \in 1..2, k + 1 \in DOMAIN Shape(line.op), ~Shape(line.op)[k + 1].rest
      PROVE  /\ k <= Len(line.args) /\ line.args[k] \in Argument
             /\ Filter(line.args[k], types) \in Shape(line.op)[k + 1].types
  <2>1. k + 1 \in 1..3
    OBVIOUS
  <2>2. k + 1 <= Len(Arguments(line)) /\
        Filter(Arguments(line)[k + 1], types) \in Shape(line.op)[k + 1].types
    BY <1>5, <2>1, PartFits
  <2> QED BY <1>1, <1>2, <2>2
<1> QED BY <1>1, <1>3, <1>4, <1>5

LEMMA MathFits ==
    ASSUME NEW line, NEW types, Builds(line, types), line.op \in Math
    PROVE  /\ ANumber(Var(line.name), types)
           /\ \A k \in 1..Len(line.args) : k <= Arity(line.op) => ANumber(line.args[k], types)
<1>1. line.op \in NamesVariable /\ line \in WrittenLine /\ Context(types)
  BY DEF NamesVariable, Builds
<1>2. line.args \in Seq(Argument) /\ Var(line.name) \in Argument
  BY <1>1, NameFits
<1>3. NumberVar \subseteq Numbers
  BY DEF Numbers
<1>4. 1 \in DOMAIN Shape(line.op) /\ ~Shape(line.op)[1].rest
      /\ Shape(line.op)[1].types = NumberVar
  <2>1. CASE line.op \in {"ADD", "MUL"}
    BY <2>1, ShapeIs DEF One
  <2>2. CASE line.op \in {"SUB", "DIV"}
    BY <2>2, ShapeIs DEF One
  <2> QED BY <2>1, <2>2 DEF Math
<1>5. ANumber(Var(line.name), types)
  <2>1. Filter(Var(line.name), types) \in Numbers
    BY <1>1, <1>3, <1>4, NameFits
  <2> QED BY <1>1, <1>2, <2>1, TokenMeans
<1>6. ASSUME NEW k \in 1..Len(line.args), k <= Arity(line.op)
      PROVE  Filter(line.args[k], types) \in Numbers
  <2>1. CASE line.op \in {"ADD", "MUL"}
    <3>1. \A i \in 2..Len(Tokens(line, types)) : Tokens(line, types)[i] \in Numbers
      BY <2>1 DEF Builds, Accepted, Wraps
    <3>2. /\ Len(Arguments(line)) = Len(line.args) + 1
          /\ Arguments(line)[k + 1] = line.args[k]
      BY <1>1, ArgumentsAre
    <3>3. k + 1 \in 2..Len(Tokens(line, types)) /\ k + 1 \in 1..Len(Arguments(line))
      BY <1>1, <1>2, <3>2, TokensAre
    <3> QED BY <1>1, <3>1, <3>2, <3>3, TokensAre
  <2>2. CASE line.op \in {"SUB", "DIV"}
    <3>1. k \in 1..2
      BY <1>2, <1>6, <2>2, ArityIs
    <3>2. /\ k + 1 \in DOMAIN Shape(line.op) /\ ~Shape(line.op)[k + 1].rest
          /\ Shape(line.op)[k + 1].types = Numbers
      BY <2>2, <3>1, ShapeIs DEF One
    <3> QED BY <1>1, <3>1, <3>2, NameFits
  <2> QED BY <2>1, <2>2 DEF Math
<1>7. ASSUME NEW k \in 1..Len(line.args), k <= Arity(line.op)
      PROVE  ANumber(line.args[k], types)
  BY <1>1, <1>2, <1>6, <1>7, TokenMeans
<1> QED BY <1>5, <1>7

LEMMA AssignFits ==
    ASSUME NEW line, NEW types, Builds(line, types), line.op = "ASSIGN"
    PROVE  /\ line.name \in DOMAIN types /\ Len(line.args) >= 1
           /\ VarOf(line.args[1], types, {types[line.name]})
<1>1. line.op \in NamesVariable /\ Context(types)
  BY DEF NamesVariable, Builds
<1>2. DOMAIN Shape(line.op) = 1..2 /\ ~Shape(line.op)[2].rest /\ Shape(line.op)[2].types = AnyVar
  BY ShapeIs DEF One
<1>3. /\ 1 <= Len(line.args) /\ line.args[1] \in Argument
      /\ Filter(line.args[1], types) \in AnyVar
  BY <1>1, <1>2, NameFits
<1>4. line.name = line.args[1][2] /\ line.name \in DOMAIN types
  BY <1>1 DEF Builds, Accepted, SameEntry, Mentions
<1>5. IsVar(line.args[1])
  BY <1>1, <1>3, TokenMeans
<1>6. Len(line.args) \in Nat
  BY <1>1, NameFits
<1> QED BY <1>3, <1>4, <1>5, <1>6 DEF VarOf

LEMMA OutFits ==
    ASSUME NEW line, NEW types, Builds(line, types), line.op = "OUT"
    PROVE  \A k \in 1..Len(line.args) : Printed(line.args[k], types)
<1>1. line \in WrittenLine /\ Context(types) /\ line.args \in Seq(Argument)
  BY DEF Builds, WrittenLine
<1>2. Arguments(line) = line.args
  BY <1>1, ArgumentsAre DEF NamesVariable, Jumps, Math, StringOps
<1>3. \A k \in 1..Len(line.args) : Filter(line.args[k], types) \in Printable
  BY <1>1, <1>2, TokensAre DEF Builds, Accepted, Wraps
<1> QED BY <1>1, <1>3, TokenMeans

LEMMA StringFits ==
    ASSUME NEW line, NEW types, Builds(line, types), line.op \in StringOps
    PROVE  /\ VarOf(Var(line.name), types, {"STRING"}) /\ Len(line.args) >= 2
           /\ AnIndex(line.args[1], types) /\ ACharacter(line, types)
<1>1. line.op \in NamesVariable /\ Context(types)
  BY DEF NamesVariable, Builds
<1>2. /\ Shape(line.op) = StringShape(line.op) /\ DOMAIN Shape(line.op) = 1..3
      /\ \A i \in 1..3 : ~Shape(line.op)[i].rest
      /\ Shape(line.op)[1].types = {"VAR_STRING"}
      /\ Shape(line.op)[2].types = {"VAR_NUMERIC", "NUMERIC"}
      /\ Shape(line.op)[3].types = IF line.op = "SET_STR_CHAR" THEN {"VAR_CHAR", "CHAR"}
                                   ELSE {"VAR_CHAR"}
  <2>1. Shape(line.op) = StringShape(line.op)
    BY ShapeIs
  <2> QED BY <2>1 DEF StringShape, One
<1>3. /\ line.args \in Seq(Argument) /\ Var(line.name) \in Argument
      /\ Filter(Var(line.name), types) = "VAR_STRING"
      /\ 2 <= Len(line.args) /\ line.args[1] \in Argument /\ line.args[2] \in Argument
      /\ Filter(line.args[1], types) \in {"VAR_NUMERIC", "NUMERIC"}
      /\ Filter(line.args[2], types) \in Shape(line.op)[3].types
  BY <1>1, <1>2, NameFits
<1>4. ACharacter(line, types)
  BY <1>1, <1>2, <1>3, TokenMeans DEF ACharacter
<1> QED BY <1>1, <1>3, <1>4, TokenMeans

LEMMA OthersFit ==
    ASSUME NEW line, NEW types, Builds(line, types),
           line.op \notin Math \cup StringOps \cup {"VAR", "ASSIGN", "OUT"}
    PROVE  \A k \in 1..Len(line.args) : k <= Arity(line.op) => ANumber(line.args[k], types)
<1>1. line \in WrittenLine /\ Context(types) /\ line.args \in Seq(Argument)
  BY DEF Builds, WrittenLine
<1> SUFFICES ASSUME NEW k \in 1..Len(line.args), k <= Arity(line.op)
             PROVE  Filter(line.args[k], types) \in Numbers
  BY <1>1, TokenMeans
<1>2. CASE line.op \in {"SLEEP", "LOCK", "UNLOCK"}
  <2>1. k = 1 /\ Arguments(line) = line.args
    BY <1>1, <1>2, ArityIs, ArgumentsAre DEF NamesVariable, Jumps, Math, StringOps
  <2>2. 1 \in DOMAIN Shape(line.op) /\ ~Shape(line.op)[1].rest /\ Shape(line.op)[1].types = Numbers
    BY <1>2, ShapeIs DEF One
  <2> QED BY <2>1, <2>2, PartFits
<1>3. CASE line.op \in Jumps
  <2>1. Arguments(line)[k + 1] = line.args[k]
    BY <1>1, <1>3, ArgumentsAre
  <2>2. CASE line.op \in {"JMPZ", "JMPNZ"}
    <3>1. k = 1
      BY <2>2, ArityIs
    <3>2. 2 \in DOMAIN Shape(line.op) /\ ~Shape(line.op)[2].rest /\ Shape(line.op)[2].types = Numbers
      BY <2>2, ShapeIs DEF One
    <3> QED BY <2>1, <3>1, <3>2, PartFits
  <2>3. CASE line.op \in {"JMPGT", "JMPLT", "JMPGTE", "JMPLTE"}
    <3>1. k \in 1..2
      BY <2>3, ArityIs
    <3>2. /\ k + 1 \in 1..3 /\ k + 1 \in DOMAIN Shape(line.op) /\ ~Shape(line.op)[k + 1].rest
          /\ Shape(line.op)[k + 1].types = Numbers
      BY <2>3, <3>1, ShapeIs DEF One
    <3> QED BY <2>1, <3>2, PartFits
  <2>4. CASE line.op = "JMP"
    BY <2>4, ArityIs
  <2> QED BY <1>3, <2>2, <2>3, <2>4 DEF Jumps
<1>4. CASE line.op \notin Jumps \cup {"SLEEP", "LOCK", "UNLOCK"}
  BY <1>4, ArityIs
<1> QED BY <1>2, <1>3, <1>4

\* Every operand of a work that is built is one that its Getter evaluates.
LEMMA BuiltIsTyped ==
    ASSUME NEW line, NEW types, Builds(line, types)
    PROVE  WorkTyped(Unit(line), types)
<1> DEFINE unit == Unit(line)
<1>1. line \in WrittenLine /\ line.args \in Seq(Argument)
  BY DEF Builds, WrittenLine
<1>2. /\ unit.op = line.op /\ unit.name = line.name
      /\ unit.args \in Seq(Argument) /\ Len(unit.args) <= Len(line.args)
      /\ Len(unit.args) <= Arity(line.op)
      /\ Len(line.args) >= Arity(line.op) => Len(unit.args) = Arity(line.op)
      /\ \A k \in 1..Len(unit.args) : unit.args[k] = line.args[k]
  BY <1>1, UnitIs
<1>3. Arity(line.op) \in Nat /\ Len(unit.args) \in Nat /\ Len(line.args) \in Nat
  BY <1>1, <1>2 DEF Arity
<1> SUFFICES WorkTyped(unit, types)
  OBVIOUS
<1> HIDE DEF unit
<1>4. \A k \in 1..Len(unit.args) : k \in 1..Len(line.args) /\ k <= Arity(line.op)
  BY <1>2, <1>3
<1>5. CASE line.op = "VAR"
  <2>1. Arity(line.op) = 2 /\ Len(line.args) >= 2 /\ ALiteral(line.args[2])
    BY <1>5, DeclarationFits, ArityIs
  <2>2. Len(unit.args) = 2 /\ unit.args[2] = line.args[2]
    BY <1>2, <1>3, <2>1
  <2> QED BY <1>2, <1>5, <2>1, <2>2, WorkTypedIs
<1>6. CASE line.op \in Math
  <2>1. AllNumbers(unit, types)
    BY <1>2, <1>4, <1>6, MathFits DEF AllNumbers
  <2> QED BY <1>2, <1>6, <2>1, WorkTypedIs, MathFits
<1>7. CASE line.op = "ASSIGN"
  <2>1. Arity(line.op) = 1 /\ Len(line.args) >= 1
    BY <1>7, AssignFits, ArityIs
  <2>2. Len(unit.args) = 1 /\ unit.args[1] = line.args[1]
    BY <1>2, <1>3, <2>1
  <2> QED BY <1>2, <1>7, <2>2, WorkTypedIs, AssignFits
<1>8. CASE line.op = "OUT"
  BY <1>2, <1>4, <1>8, WorkTypedIs, OutFits
<1>9. CASE line.op \in StringOps
  <2>1. /\ VarOf(Var(line.name), types, {"STRING"}) /\ Len(line.args) >= 2
        /\ AnIndex(line.args[1], types) /\ ACharacter(line, types)
    BY <1>9, StringFits
  <2>2. Len(unit.args) = 2 /\ unit.args[1] = line.args[1] /\ unit.args[2] = line.args[2]
    <3>1. Arity(line.op) = 2
      BY <1>9, ArityIs
    <3> QED BY <1>2, <1>3, <2>1, <3>1
  <2>3. ACharacter(unit, types)
    BY <1>2, <2>1, <2>2 DEF ACharacter
  <2> QED BY <1>2, <1>9, <2>1, <2>2, <2>3, WorkTypedIs
<1>10. CASE line.op \notin Math \cup StringOps \cup {"VAR", "ASSIGN", "OUT"}
  <2>1. AllNumbers(unit, types)
    BY <1>2, <1>4, <1>10, OthersFit DEF AllNumbers
  <2> QED BY <1>2, <1>10, <2>1, WorkTypedIs
<1> QED BY <1>5, <1>6, <1>7, <1>8, <1>9, <1>10

-----------------------------------------------------------------------------
(* The context.                                                            *)

Extends(new, types) ==
    DOMAIN types \subseteq DOMAIN new /\ \A x \in DOMAIN types : new[x] = types[x]

\* A work that is well typed stays so when other variables are declared.
LEMMA TypedKept ==
    ASSUME NEW work, NEW types, NEW new, Extends(new, types), WorkTyped(work, types)
    PROVE  WorkTyped(work, new)
<1>1. /\ \A arg : ANumber(arg, types) => ANumber(arg, new)
      /\ \A arg : AnIndex(arg, types) => AnIndex(arg, new)
      /\ \A arg : Printed(arg, types) => Printed(arg, new)
      /\ \A arg, kinds : VarOf(arg, types, kinds) => VarOf(arg, new, kinds)
  BY DEF Extends, ANumber, AnIndex, Printed, VarOf
<1>2. AllNumbers(work, types) => AllNumbers(work, new)
  BY <1>1 DEF AllNumbers
<1>3. ACharacter(work, types) => ACharacter(work, new)
  BY <1>1 DEF ACharacter
<1>4. CASE work.op = "VAR"
  BY <1>4, WorkTypedIs
<1>5. CASE work.op \in Math
  BY <1>1, <1>2, <1>5, WorkTypedIs
<1>6. CASE work.op = "ASSIGN"
  BY <1>1, <1>6, WorkTypedIs DEF Extends
<1>7. CASE work.op = "OUT"
  BY <1>1, <1>7, WorkTypedIs
<1>8. CASE work.op \in StringOps
  BY <1>1, <1>3, <1>8, WorkTypedIs
<1>9. CASE work.op \notin Math \cup StringOps \cup {"VAR", "ASSIGN", "OUT"}
  BY <1>2, <1>9, WorkTypedIs
<1> QED BY <1>4, <1>5, <1>6, <1>7, <1>8, <1>9

\* A declaration adds its own name and type, any other line nothing.
LEMMA DeclaringIs ==
    ASSUME NEW line, NEW types, Builds(line, types)
    PROVE  LET new == Declaring(line, types)
           IN /\ Context(new) /\ Extends(new, types)
              /\ line.op = "VAR" => /\ line.name \notin DOMAIN types
                                    /\ DOMAIN new = DOMAIN types \cup {line.name}
                                    /\ new[line.name] = line.args[1][2]
              /\ line.op # "VAR" => new = types
<1>1. Context(types)
  BY DEF Builds
<1>2. CASE line.op = "VAR"
  <2>1. line.name \notin DOMAIN types /\ line.args[1][2] \in Types
    BY <1>2, DeclarationFits
  <2>2. Declaring(line, types) =
          [y \in DOMAIN types \cup {line.name} |-> IF y = line.name THEN line.args[1][2] ELSE types[y]]
    BY <1>2 DEF Declaring, Bind
  <2> DEFINE new == Declaring(line, types)
  <2> HIDE DEF new
  <2>3. DOMAIN new = DOMAIN types \cup {line.name} /\ new[line.name] = line.args[1][2]
    BY <2>2 DEF new
  <2>4. Extends(new, types)
    BY <2>1, <2>2 DEF new, Extends
  <2>5. Context(new)
    BY <1>1, <2>1, <2>2 DEF new, Context
  <2> QED BY <1>2, <2>1, <2>3, <2>4, <2>5 DEF new
<1>3. CASE line.op # "VAR"
  BY <1>1, <1>3 DEF Declaring, Extends
<1> QED BY <1>2, <1>3

-----------------------------------------------------------------------------
(* The lines, one by one.                                                  *)

WorkRecord == [op : STRING, name : STRING, args : Seq(Argument), at : {<<0, 0>>}]

ParserInv ==
    /\ shape \in Shapes
    /\ source \in Seq(WrittenLine) /\ Len(source) <= Len(shape.lines)
    /\ works \in Seq(WorkRecord)
    /\ Context(context)
    /\ ParserTypeOK /\ DeclaredBeforeUse /\ OperandsTyped

LEMMA ParserInit == PInit => ParserInv
<1> SUFFICES ASSUME PInit PROVE ParserInv  OBVIOUS
<1>1. shape \in Shapes /\ source = <<>> /\ context = <<>> /\ works = <<>> /\ phase = "parsing"
  BY DEF PInit
<1>2. Len(shape.lines) \in Nat
  BY <1>1, ShapesAssumption
<1>3. DOMAIN context = {} /\ DOMAIN works = {} /\ DOMAIN source = {} /\ Len(works) = 0 /\ Len(source) = 0
  BY <1>1
<1>4. Context(context)
  <2>1. context = [x \in DOMAIN context |-> context[x]]
    BY <1>1
  <2> QED BY <1>3, <2>1 DEF Context
<1>5. \A op : Positions(op) = {}
  BY <1>3 DEF Positions
<1>6. ParserTypeOK
  BY <1>1, <1>3, <1>5 DEF ParserTypeOK
<1>7. DeclaredBeforeUse /\ OperandsTyped
  BY <1>3 DEF DeclaredBeforeUse, OperandsTyped
<1> QED BY <1>1, <1>2, <1>4, <1>6, <1>7 DEF ParserInv

\* What is read is a line of the source, and long enough for its matcher.
LEMMA LineRead ==
    ASSUME ParserInv, NEW line, ParseLine(line)
    PROVE  /\ shape' = shape /\ phase' = phase /\ phase = "parsing"
           /\ line \in WrittenLine
           /\ LongEnough(Shape(line.op), Len(Arguments(line)))
           /\ source' \in Seq(WrittenLine) /\ Len(source') = Len(source) + 1
           /\ Len(source') <= Len(shape'.lines)
           /\ \A k \in DOMAIN source' : source'[k] \in shape'.lines[k]
<1>1. /\ line \in NextLines /\ source' = Append(source, line)
      /\ shape' = shape /\ phase' = phase /\ phase = "parsing"
  BY DEF ParseLine
<1>2. source \in Seq(WrittenLine) /\ Len(source) \in Nat /\ shape \in Shapes
      /\ \A k \in DOMAIN source : source[k] \in shape.lines[k]
  BY DEF ParserInv, ParserTypeOK
<1>3. shape.lines \in Seq(SUBSET WrittenLine)
  BY <1>2, ShapesAssumption
<1>4. Len(source) < Len(shape.lines) /\ line \in shape.lines[Len(source) + 1]
  BY <1>1 DEF NextLines
<1>5. Len(source) + 1 \in DOMAIN shape.lines
  BY <1>2, <1>3, <1>4
<1>6. line \in WrittenLine
  BY <1>3, <1>4, <1>5
<1>7. LongEnough(Shape(line.op), Len(Arguments(line)))
  BY <1>2, <1>4, <1>5, ShapesAssumption
<1>8. source' \in Seq(WrittenLine) /\ Len(source') = Len(source) + 1
      /\ \A k \in DOMAIN source' : source'[k] = IF k = Len(source) + 1 THEN line ELSE source[k]
  BY <1>1, <1>2, <1>6
<1>9. \A k \in DOMAIN source' : source'[k] \in shape.lines[k]
  BY <1>2, <1>4, <1>8
<1> QED BY <1>1, <1>2, <1>3, <1>4, <1>6, <1>7, <1>8, <1>9

\* A line that is left out changes neither the works nor the context.
LEMMA LineDropped ==
    ASSUME ParserInv, NEW line, ParseLine(line), ~Accepted(line, context)
    PROVE  ParserInv'
<1>1. works' = works /\ context' = context
  BY DEF ParseLine
<1>2. \A op : Positions(op)' = Positions(op)
  BY <1>1 DEF Positions
<1>3. ParserTypeOK'
  <2>1. Len(works) \in Nat /\ Len(source) \in Nat /\ ParserTypeOK
    BY DEF ParserInv
  <2>2. /\ \A k \in DOMAIN source' : source'[k] \in shape'.lines[k]
        /\ Len(source') = Len(source) + 1 /\ phase' = phase
    BY LineRead
  <2>3. Len(works') <= Len(source')
    BY <1>1, <2>1, <2>2 DEF ParserTypeOK
  <2>4. Positions("VAR")' = Positions("VAR")
    BY <1>2
  <2> QED BY <1>1, <2>1, <2>2, <2>3, <2>4 DEF ParserTypeOK
<1>4. DeclaredBeforeUse' /\ OperandsTyped'
  BY <1>1, <1>2 DEF ParserInv, DeclaredBeforeUse, DeclaredBefore, OperandsTyped
<1> QED BY <1>1, <1>3, <1>4, LineRead DEF ParserInv

\* A line that becomes a work appends it, and declares what it declares.
LEMMA LineBuilt ==
    ASSUME ParserInv, NEW line, ParseLine(line), Accepted(line, context)
    PROVE  LET n == Len(works)
           IN /\ Builds(line, context)
              /\ context' = Declaring(line, context)
              /\ n \in Nat /\ DOMAIN works = 1..n
              /\ works' \in Seq(WorkRecord) /\ Len(works') = n + 1 /\ DOMAIN works' = 1..(n + 1)
              /\ \A i \in 1..n : works'[i] = works[i]
              /\ works'[n + 1] = Unit(line)
              /\ \A op : Positions(op)' = Positions(op) \cup (IF line.op = op THEN {n + 1} ELSE {})
<1>1. works' = Append(works, Unit(line)) /\ context' = Declaring(line, context)
  BY DEF ParseLine
<1>2. Builds(line, context)
  BY LineRead DEF Builds, ParserInv
<1>3. Unit(line) \in WorkRecord /\ Unit(line).op = line.op /\ works \in Seq(WorkRecord)
  BY LineRead, UnitIs DEF WorkRecord, ParserInv
<1> DEFINE n == Len(works)
<1>4. n \in Nat /\ DOMAIN works = 1..n
      /\ works' \in Seq(WorkRecord) /\ Len(works') = n + 1 /\ DOMAIN works' = 1..(n + 1)
      /\ (\A i \in 1..n : works'[i] = works[i])
      /\ works'[n + 1] = Unit(line)
  BY <1>1, <1>3
<1>5. ASSUME NEW op
      PROVE  Positions(op)' = Positions(op) \cup (IF line.op = op THEN {n + 1} ELSE {})
  BY <1>3, <1>4 DEF Positions
<1> QED BY <1>1, <1>2, <1>4, <1>5

LEMMA TypesKept ==
    ASSUME ParserInv, NEW line, ParseLine(line), Accepted(line, context)
    PROVE  ParserTypeOK'
<1> DEFINE n == Len(works)
<1>1. /\ n \in Nat /\ DOMAIN works = 1..n /\ DOMAIN works' = 1..(n + 1) /\ Len(works') = n + 1
      /\ \A i \in 1..n : works'[i] = works[i]
      /\ works'[n + 1] = Unit(line)
      /\ Positions("VAR")' = Positions("VAR") \cup (IF line.op = "VAR" THEN {n + 1} ELSE {})
      /\ Builds(line, context) /\ context' = Declaring(line, context)
  BY LineBuilt
<1>2. /\ \A k \in DOMAIN source' : source'[k] \in shape'.lines[k]
      /\ Len(source') = Len(source) + 1 /\ phase' = phase /\ line \in WrittenLine
  BY LineRead
<1>3. ParserTypeOK /\ Len(source) \in Nat /\ line.args \in Seq(Argument)
  BY <1>2 DEF ParserInv, WrittenLine
<1>4. Unit(line).op = line.op /\ Unit(line).name = line.name
      /\ \A k \in 1..Len(Unit(line).args) : Unit(line).args[k] = line.args[k]
  BY <1>2, UnitIs
<1>5. Positions("VAR") \subseteq 1..n
  BY <1>1 DEF Positions
<1>6. CASE line.op = "VAR"
  <2>1. /\ DOMAIN context' = DOMAIN context \cup {line.name}
        /\ line.name \notin DOMAIN context /\ context'[line.name] = line.args[1][2]
        /\ \A x \in DOMAIN context : context'[x] = context[x]
    <3>1. Extends(context', context)
      BY <1>1, DeclaringIs
    <3> QED BY <1>1, <1>6, <3>1, DeclaringIs DEF Extends
  <2>2. Typename(line.args[1][2]) = line.args[1] /\ Unit(line).args[1] = line.args[1]
    <3>1. Len(Unit(line).args) = 2 /\ Typename(line.args[1][2]) = line.args[1]
      BY <1>1, <1>2, <1>3, <1>6, DeclarationFits, UnitIs, ArityIs
    <3> QED BY <1>4, <3>1
  <2>3. DOMAIN context' = {works'[i].name : i \in Positions("VAR")'}
    BY <1>1, <1>3, <1>4, <1>5, <1>6, <2>1 DEF ParserTypeOK
  <2>4. ASSUME NEW i \in Positions("VAR")'
        PROVE  Typename(context'[works'[i].name]) = works'[i].args[1]
    <3>1. CASE i = n + 1
      BY <1>1, <1>4, <2>1, <2>2, <3>1
    <3>2. CASE i # n + 1
      <4>1. i \in Positions("VAR") /\ works'[i] = works[i]
        BY <1>1, <1>5, <1>6, <2>4, <3>2
      <4>2. works[i].name \in DOMAIN context
        BY <1>3, <4>1 DEF ParserTypeOK
      <4> QED BY <1>3, <2>1, <4>1, <4>2 DEF ParserTypeOK
    <3> QED BY <3>1, <3>2
  <2> QED BY <1>1, <1>2, <1>3, <2>3, <2>4 DEF ParserTypeOK
<1>7. CASE line.op # "VAR"
  <2>1. context' = context
    BY <1>1, <1>7, DeclaringIs
  <2>2. Positions("VAR")' = Positions("VAR") /\ \A i \in Positions("VAR") : works'[i] = works[i]
    BY <1>1, <1>5, <1>7
  <2>3. DOMAIN context' = {works'[i].name : i \in Positions("VAR")'}
    <3>1. {works'[i].name : i \in Positions("VAR")'} = {works[i].name : i \in Positions("VAR")}
      BY <2>2
    <3> QED BY <1>3, <2>1, <3>1 DEF ParserTypeOK
  <2>4. \A i \in Positions("VAR")' : Typename(context'[works'[i].name]) = works'[i].args[1]
    BY <1>3, <2>1, <2>2 DEF ParserTypeOK
  <2>5. Len(works') <= Len(source') /\ phase' \in {"parsing", "linked", "failed"}
    BY <1>1, <1>2, <1>3 DEF ParserTypeOK
  <2> QED BY <1>2, <2>3, <2>4, <2>5 DEF ParserTypeOK
<1> QED BY <1>6, <1>7

\* The operands of the work are operands of its line.
LEMMA UnitMentions ==
    ASSUME NEW line \in WrittenLine
    PROVE  Mentions(Unit(line)) \subseteq Mentions(line)
<1>1. /\ Unit(line).op = line.op /\ Unit(line).name = line.name
      /\ Unit(line).args \in Seq(Argument) /\ Len(Unit(line).args) <= Len(line.args)
      /\ \A k \in 1..Len(Unit(line).args) : Unit(line).args[k] = line.args[k]
      /\ line.args \in Seq(Argument)
  BY UnitIs DEF WrittenLine
<1>2. \A k \in DOMAIN Unit(line).args : k \in DOMAIN line.args /\ Unit(line).args[k] = line.args[k]
  BY <1>1
<1>3. OperandVars(Unit(line)) \subseteq OperandVars(line)
  BY <1>2 DEF OperandVars
<1> QED BY <1>1, <1>3 DEF Mentions

LEMMA DeclaredKept ==
    ASSUME ParserInv, NEW line, ParseLine(line), Accepted(line, context)
    PROVE  DeclaredBeforeUse'
<1> DEFINE n == Len(works)
<1>1. /\ n \in Nat /\ DOMAIN works = 1..n /\ DOMAIN works' = 1..(n + 1)
      /\ \A i \in 1..n : works'[i] = works[i]
      /\ works'[n + 1] = Unit(line)
      /\ Positions("VAR")' = Positions("VAR") \cup (IF line.op = "VAR" THEN {n + 1} ELSE {})
      /\ Builds(line, context)
  BY LineBuilt
<1>2. Unit(line).op = line.op /\ Unit(line).name = line.name /\ line \in WrittenLine
  BY LineRead, UnitIs
<1>3. DOMAIN context = {works[i].name : i \in Positions("VAR")} /\ Positions("VAR") \subseteq 1..n
  BY <1>1 DEF ParserInv, ParserTypeOK, Positions
<1>4. \A i \in 1..(n + 1) : \A x : DeclaredBefore(i, x)' = DeclaredBefore(i, x)
  BY <1>1, <1>3 DEF DeclaredBefore
<1>5. \A x : DeclaredBefore(n + 1, x) # {} <=> x \in DOMAIN context
  BY <1>1, <1>3 DEF DeclaredBefore
<1>6. ASSUME NEW i \in DOMAIN works', NEW x
      PROVE  /\ works'[i].op = "VAR" /\ x = works'[i].name => DeclaredBefore(i, x)' = {}
             /\ works'[i].op # "VAR" /\ x \in Mentions(works'[i]) => DeclaredBefore(i, x)' # {}
  <2>1. CASE i \in 1..n
    <3>1. works'[i] = works[i] /\ i \in DOMAIN works /\ DeclaredBefore(i, x)' = DeclaredBefore(i, x)
      BY <1>1, <1>4, <2>1
    <3> QED BY <3>1 DEF ParserInv, DeclaredBeforeUse
  <2>2. CASE i = n + 1
    <3>1. works'[i] = Unit(line) /\ DeclaredBefore(i, x)' = DeclaredBefore(n + 1, x)
      BY <1>1, <1>4, <2>2
    <3>2. line.op = "VAR" => line.name \notin DOMAIN context
      BY <1>1, DeclaringIs
    <3>3. line.op # "VAR" => Mentions(Unit(line)) \subseteq DOMAIN context
      BY <1>1, <1>2, UnitMentions DEF Builds, Accepted
    <3> QED BY <1>2, <1>5, <3>1, <3>2, <3>3
  <2> QED BY <1>1, <1>6, <2>1, <2>2
<1> QED BY <1>6 DEF DeclaredBeforeUse, DeclaredBefore

LEMMA OperandsKept ==
    ASSUME ParserInv, NEW line, ParseLine(line), Accepted(line, context)
    PROVE  OperandsTyped'
<1> DEFINE n == Len(works)
<1>1. /\ n \in Nat /\ DOMAIN works = 1..n /\ DOMAIN works' = 1..(n + 1)
      /\ \A i \in 1..n : works'[i] = works[i]
      /\ works'[n + 1] = Unit(line)
      /\ Builds(line, context) /\ context' = Declaring(line, context)
  BY LineBuilt
<1>2. Extends(context', context)
  BY <1>1, DeclaringIs
<1>3. WorkTyped(Unit(line), context')
  BY <1>1, <1>2, BuiltIsTyped, TypedKept
<1>4. \A i \in 1..n : WorkTyped(works[i], context')
  BY <1>1, <1>2, TypedKept DEF ParserInv, OperandsTyped
<1> QED BY <1>1, <1>3, <1>4 DEF OperandsTyped

LEMMA ParserStep == ParserInv /\ [PNext]_pvars => ParserInv'
<1> SUFFICES ASSUME ParserInv, [PNext]_pvars PROVE ParserInv'  OBVIOUS
<1>1. ASSUME NEW line, ParseLine(line) PROVE ParserInv'
  <2>1. CASE Accepted(line, context)
    <3>1. Context(context')
      <4>1. Builds(line, context) /\ context' = Declaring(line, context)
        BY <1>1, <2>1, LineBuilt
      <4> QED BY <4>1, DeclaringIs
    <3> QED
      BY <1>1, <2>1, <3>1, LineRead, LineBuilt, TypesKept, DeclaredKept, OperandsKept
         DEF ParserInv
  <2>2. CASE ~Accepted(line, context)
    BY <1>1, <2>2, LineDropped
  <2> QED BY <2>1, <2>2
<1>2. CASE Link \/ UNCHANGED pvars
  <2>1. UNCHANGED <<shape, source, context, works>>
        /\ phase' \in {"parsing", "linked", "failed"}
    BY <1>2 DEF Link, pvars, ParserInv, ParserTypeOK
  <2>2. \A op : Positions(op)' = Positions(op)
    BY <2>1 DEF Positions
  <2>3. ParserTypeOK'
    BY <2>1, <2>2 DEF ParserInv, ParserTypeOK
  <2>4. DeclaredBeforeUse' /\ OperandsTyped'
    BY <2>1, <2>2 DEF ParserInv, DeclaredBeforeUse, DeclaredBefore, OperandsTyped
  <2> QED BY <2>1, <2>3, <2>4 DEF ParserInv
<1> QED BY <1>1, <1>2 DEF PNext

-----------------------------------------------------------------------------
THEOREM ParserInvariant == PSpec => []ParserInv
<1> QED BY ParserInit, ParserStep, PTL DEF PSpec

\* The context is exactly what the works that are left declare, with the type
\* each declaration gives, and no line gives more than one work.
THEOREM ContextFollowsWorks == PSpec => []ParserTypeOK
<1>1. ParserInv => ParserTypeOK
  BY DEF ParserInv
<1> QED BY <1>1, ParserInvariant, PTL

\* However lines are dropped, every work that is left uses variables that a
\* work before it declares, and no variable is declared twice.
THEOREM DeclaredFirst == PSpec => []DeclaredBeforeUse
<1>1. ParserInv => DeclaredBeforeUse
  BY DEF ParserInv
<1> QED BY <1>1, ParserInvariant, PTL

\* Every operand of every work is one that its Getter evaluates, whatever
\* arguments the lines are written with.
THEOREM OperandsFit == PSpec => []OperandsTyped
<1>1. ParserInv => OperandsTyped
  BY DEF ParserInv
<1> QED BY <1>1, ParserInvariant, PTL

-----------------------------------------------------------------------------
(* What the linkers make of the works.                                     *)

LEMMA Errors == NoError \notin {"nolock", "nolabel", "nested", "unpaired"}
BY DEF NoError

\* STRING, in a form that says what the provers do not know.
Strings == STRING \cup {"THREAD"}
AWork == [op : Strings, name : Strings, args : Seq(Argument), at : Nat \X Nat]

PartialMap(A, B) == UNION {[D -> B] : D \in SUBSET A}

LEMMA EmptyMap == ASSUME NEW A, NEW B PROVE <<>> \in PartialMap(A, B) /\ DOMAIN <<>> = {}
<1>1. DOMAIN <<>> = {} /\ <<>> = [x \in DOMAIN <<>> |-> <<>>[x]]
  OBVIOUS
<1>2. <<>> \in [{} -> B]
  BY <1>1
<1> QED BY <1>1, <1>2 DEF PartialMap

Binds(new, map, x, v) ==
    /\ DOMAIN new = DOMAIN map \cup {x}
    /\ \A y \in DOMAIN map \cup {x} : new[y] = IF y = x THEN v ELSE map[y]

LEMMA BindIs ==
    ASSUME NEW A, NEW B, NEW map \in PartialMap(A, B), NEW x \in A, NEW v \in B
    PROVE  Bind(map, x, v) \in PartialMap(A, B) /\ Binds(Bind(map, x, v), map, x, v)
<1> DEFINE new == Bind(map, x, v)
<1>1. PICK D \in SUBSET A : map \in [D -> B]
  BY DEF PartialMap
<1>2. new = [y \in D \cup {x} |-> IF y = x THEN v ELSE map[y]]
  BY <1>1 DEF Bind
<1>3. new \in [D \cup {x} -> B]
  BY <1>1, <1>2
<1>4. D \cup {x} \in SUBSET A
  BY <1>1
<1> HIDE DEF new
<1>5. Binds(new, map, x, v)
  BY <1>1, <1>2 DEF Binds
<1>6. new \in PartialMap(A, B)
  BY <1>3, <1>4 DEF PartialMap
<1> QED BY <1>5, <1>6 DEF new

-----------------------------------------------------------------------------
(* The jump linker.                                                        *)

LabelAt(body, i, x) == body[i].op = "LABEL" /\ body[i].name = x

\* The loop over the labels, turn by turn.
LEMMA LabelTurns ==
    ASSUME NEW body \in Seq(AWork)
    PROVE  \E after \in [0..Len(body) -> PartialMap(Strings, Nat)] :
             /\ after[0] = <<>>
             /\ \A n \in 1..Len(body) : after[n] = VisitLabel(after[n - 1], body, n)
             /\ LabelMap(body) = after[Len(body)]
<1> DEFINE N == Len(body)
           S == PartialMap(Strings, Nat)
           none == <<>>
           step == [n \in 1..N |-> [m \in S |-> VisitLabel(m, body, n)]]
           Is(f) == f = [n \in 0..N |-> IF n = 0 THEN none ELSE VisitLabel(f[n - 1], body, n)]
           h == CHOOSE g : Is(g)
<1>1. N \in Nat /\ \A n \in 1..N : body[n] \in AWork
  OBVIOUS
<1> HIDE DEF N
<1>2. step \in [1..N -> [S -> S]]
  <2>1. ASSUME NEW n \in 1..N, NEW m \in S PROVE VisitLabel(m, body, n) \in S
    <3>1. n \in Nat /\ body[n].name \in Strings
      BY <1>1 DEF AWork
    <3>2. Bind(m, body[n].name, n) \in S
      BY <3>1, BindIs
    <3> QED BY <3>2 DEF VisitLabel
  <2> HIDE DEF S
  <2> QED BY <2>1
<1>3. none \in S
  BY EmptyMap
<1>4. LabelMap(body) = h[N]
  BY DEF LabelMap, N
<1> HIDE DEF none, S
<1>5. PICK f : Loops(f, N, S, none, step)
  <2> HIDE DEF step
  <2> QED BY <1>1, <1>2, <1>3, Loop
<1>6. Is(f)
  <2> USE DEF Loops
  <2>1. ASSUME NEW n \in 1..N PROVE f[n] = VisitLabel(f[n - 1], body, n)
    <3>1. n - 1 \in 0..N  BY <1>1
    <3>2. f[n - 1] \in S  BY <1>5, <3>1
    <3> QED BY <1>5, <3>2
  <2>2. \A n \in 0..N : f[n] = IF n = 0 THEN none ELSE VisitLabel(f[n - 1], body, n)
    <3>1. \A n \in 0..N : n # 0 => n \in 1..N  BY <1>1
    <3> QED BY <1>5, <2>1, <3>1
  <2>3. f = [n \in 0..N |-> f[n]]  BY <1>5
  <2> HIDE DEF step
  <2> QED BY <2>2, <2>3
<1>7. Is(h)
  <2> HIDE DEF Is
  <2> QED BY <1>6
<1> HIDE DEF h
<1>8. h[0] = none /\ \A n \in 1..N : h[n] = VisitLabel(h[n - 1], body, n)
  <2>1. \A n \in 0..N : h[n] = IF n = 0 THEN none ELSE VisitLabel(h[n - 1], body, n)
    BY <1>7
  <2>2. 0 \in 0..N /\ \A n \in 1..N : n \in 0..N /\ n # 0  BY <1>1
  <2> QED BY <2>1, <2>2
<1>9. h \in [0..N -> S]
  <2>1. \A n \in 1..N : h[n - 1] \in S => h[n] = step[n][h[n - 1]]
    BY <1>8
  <2>2. h = [n \in 0..N |-> h[n]]
    BY <1>7
  <2>3. GoesOn(h, N, S, none, step)
    BY <1>8, <2>1, <2>2 DEF GoesOn
  <2> HIDE DEF step
  <2> QED BY <1>1, <1>2, <1>3, <2>3, LoopStays
<1> QED BY <1>4, <1>8, <1>9 DEF N, S, none

\* labelMap holds the last label of each name.
LEMMA LabelMapIs ==
    ASSUME NEW body \in Seq(AWork)
    PROVE  LET map == LabelMap(body)
           IN /\ \A x \in DOMAIN map : map[x] \in DOMAIN body /\ LabelAt(body, map[x], x)
              /\ \A i \in DOMAIN body : body[i].op = "LABEL" =>
                   body[i].name \in DOMAIN map /\ i <= map[body[i].name]
<1> DEFINE N == Len(body)
           Turn(n, m) ==
             /\ \A x \in DOMAIN m : m[x] \in 1..n /\ LabelAt(body, m[x], x)
             /\ \A i \in 1..n : body[i].op = "LABEL" =>
                  body[i].name \in DOMAIN m /\ i <= m[body[i].name]
<1>1. N \in Nat /\ DOMAIN body = 1..N /\ \A n \in 1..N : body[n].name \in Strings
  <2>1. N \in Nat /\ DOMAIN body = 1..N /\ \A n \in 1..N : body[n] \in AWork
    OBVIOUS
  <2> QED BY <2>1 DEF AWork
<1>2. PICK after \in [0..N -> PartialMap(Strings, Nat)] :
             /\ after[0] = <<>>
             /\ \A n \in 1..N : after[n] = VisitLabel(after[n - 1], body, n)
             /\ LabelMap(body) = after[N]
  BY LabelTurns
<1> HIDE DEF N
<1> DEFINE T == {n \in 0..N : Turn(n, after[n])}
<1>3. 0 \in T
  <2>1. DOMAIN after[0] = {}  BY <1>2, EmptyMap
  <2> QED BY <1>1, <2>1
<1>4. ASSUME NEW n \in 1..N, n - 1 \in T PROVE n \in T
  <2> DEFINE m == after[n - 1]
             new == after[n]
  <2>1. n \in 0..N /\ n - 1 \in 0..N /\ n \in Nat  BY <1>1
  <2>2. m \in PartialMap(Strings, Nat) /\ new = VisitLabel(m, body, n)  BY <1>2, <2>1
  <2>3. Turn(n - 1, m)  BY <1>4
  <2> HIDE DEF m, new
  <2>4. CASE body[n].op = "LABEL"
    <3> DEFINE x == body[n].name
    <3>1. new = Bind(m, x, n) /\ x \in Strings  BY <1>1, <2>2, <2>4 DEF VisitLabel
    <3> HIDE DEF x
    <3>2. Binds(new, m, x, n)
      <4>1. m \in PartialMap(Strings, Nat) /\ x \in Strings /\ n \in Nat
        BY <2>1, <2>2, <3>1
      <4>2. Binds(Bind(m, x, n), m, x, n)
        BY <4>1, BindIs
      <4> QED BY <3>1, <4>2
    <3> USE DEF Binds
    <3>3. ASSUME NEW y \in DOMAIN new PROVE new[y] \in 1..n /\ LabelAt(body, new[y], y)
      <4>1. CASE y = x  BY <2>1, <2>4, <3>2, <4>1 DEF LabelAt, x
      <4>2. CASE y # x
        <5>1. y \in DOMAIN m /\ new[y] = m[y]  BY <3>2, <3>3, <4>2
        <5>2. m[y] \in 1..(n - 1) /\ LabelAt(body, m[y], y)  BY <2>3, <5>1
        <5> QED BY <2>1, <5>1, <5>2
      <4> QED BY <4>1, <4>2
    <3>4. ASSUME NEW i \in 1..n, body[i].op = "LABEL"
          PROVE  body[i].name \in DOMAIN new /\ i <= new[body[i].name]
      <4>1. CASE body[i].name = x  BY <2>1, <3>2, <4>1
      <4>2. CASE body[i].name # x
        <5>1. i \in 1..(n - 1)  BY <2>1, <4>2 DEF x
        <5>2. body[i].name \in DOMAIN m /\ i <= m[body[i].name]  BY <2>3, <3>4, <5>1
        <5> QED BY <3>2, <4>2, <5>2
      <4> QED BY <4>1, <4>2
    <3>5. Turn(n, new)  BY <3>3, <3>4
    <3> HIDE DEF Turn
    <3> QED BY <2>1, <3>5 DEF new
  <2>5. CASE body[n].op # "LABEL"
    <3>1. new = m  BY <2>2, <2>5 DEF VisitLabel
    <3>2. \A i \in 1..n : body[i].op = "LABEL" => i \in 1..(n - 1)  BY <2>1, <2>5
    <3>3. \A i \in 1..(n - 1) : i \in 1..n  BY <2>1
    <3>4. Turn(n, new)  BY <2>3, <3>1, <3>2, <3>3
    <3> HIDE DEF Turn
    <3> QED BY <2>1, <3>4 DEF new
  <2> QED BY <2>4, <2>5
<1>5. 0..N \subseteq T
  <2> HIDE DEF T
  <2> QED BY <1>1, <1>3, <1>4, UpToSet
<1>6. Turn(N, after[N])  BY <1>1, <1>5
<1> QED BY <1>1, <1>2, <1>6

\* A jump is known when its body holds a label of its name.
JumpsKnown(body) ==
    \A i \in DOMAIN body : body[i].op \in Jumps =>
        \E j \in DOMAIN body : LabelAt(body, j, body[i].name)

IsLastLabel(body, k, x) ==
    /\ k \in DOMAIN body /\ LabelAt(body, k, x)
    /\ \A j \in DOMAIN body : LabelAt(body, j, x) => j <= k

\* The linkers change nothing but at.
SameButAt(w, v) == w.op = v.op /\ w.name = v.name /\ w.args = v.args

JumpsLinked(linked, body, seg) ==
    /\ linked.works \in Seq(AWork) /\ Len(linked.works) = Len(body)
    /\ linked.err \in {NoError, "nolabel"} /\ (linked.err = NoError <=> JumpsKnown(body))
    /\ \A i \in DOMAIN body :
         /\ SameButAt(linked.works[i], body[i])
         /\ body[i].op \notin Jumps => linked.works[i] = body[i]
         /\ linked.err = NoError /\ body[i].op \in Jumps =>
              /\ linked.works[i].at[1] = VectorOf(seg)
              /\ IsLastLabel(body, linked.works[i].at[2], body[i].name)

LEMMA LinkJumpsIs ==
    ASSUME NEW body \in Seq(AWork), NEW seg \in Nat
    PROVE  JumpsLinked(LinkJumps(body, seg), body, seg)
<1> DEFINE map == LabelMap(body)
           N == Len(body)
           unknown == \E i \in DOMAIN body : body[i].op \in Jumps /\ body[i].name \notin DOMAIN map
           Resolve(w) == IF w.op \in Jumps THEN [w EXCEPT !.at = <<VectorOf(seg), map[w.name]>>] ELSE w
           done == [i \in DOMAIN body |-> Resolve(body[i])]
           linked == LinkJumps(body, seg)
<1>1. N \in Nat /\ DOMAIN body = 1..N /\ \A i \in 1..N : body[i] \in AWork
  OBVIOUS
<1>2. /\ \A x \in DOMAIN map : map[x] \in DOMAIN body /\ LabelAt(body, map[x], x)
      /\ \A i \in DOMAIN body : body[i].op = "LABEL" =>
           body[i].name \in DOMAIN map /\ i <= map[body[i].name]
  BY LabelMapIs
<1> SUFFICES JumpsLinked(linked, body, seg)
  OBVIOUS
<1>3. linked = IF unknown THEN [works |-> body, err |-> "nolabel"]
                             ELSE [works |-> done, err |-> NoError]
  BY DEF LinkJumps
<1> HIDE DEF map, N, linked
<1>4. unknown <=> ~JumpsKnown(body)
  BY <1>2 DEF JumpsKnown, LabelAt
<1>5. CASE unknown
  <2>1. linked = [works |-> body, err |-> "nolabel"]  BY <1>3, <1>5
  <2>2. linked.works = body /\ linked.err = "nolabel"  BY <2>1
  <2>3. linked.works \in Seq(AWork) /\ Len(linked.works) = Len(body)  BY <2>2
  <2>4. linked.err \in {NoError, "nolabel"} /\ linked.err # NoError  BY <2>2, Errors
  <2>5. ~JumpsKnown(body)  BY <1>4, <1>5
  <2>6. \A i \in DOMAIN body : SameButAt(linked.works[i], body[i]) /\ linked.works[i] = body[i]
    BY <2>2 DEF SameButAt
  <2> QED BY <2>3, <2>4, <2>5, <2>6, Zenon DEF JumpsLinked
<1>6. CASE ~unknown
  <2>1. linked = [works |-> done, err |-> NoError]  BY <1>3, <1>6
  <2>2. ASSUME NEW i \in DOMAIN body
        PROVE  /\ done[i] \in AWork /\ SameButAt(done[i], body[i])
               /\ body[i].op \notin Jumps => done[i] = body[i]
               /\ body[i].op \in Jumps =>
                    /\ done[i].at[1] = VectorOf(seg)
                    /\ IsLastLabel(body, done[i].at[2], body[i].name)
    <3>1. body[i] \in AWork  BY <1>1
    <3>2. CASE body[i].op \in Jumps
      <4>1. body[i].name \in DOMAIN map  BY <1>6, <3>2
      <4> DEFINE k == map[body[i].name]
      <4>2. k \in DOMAIN body /\ LabelAt(body, k, body[i].name)  BY <1>2, <4>1
      <4>3. done[i] = [body[i] EXCEPT !.at = <<VectorOf(seg), k>>]  BY <3>2
      <4> HIDE DEF done
      <4>4. IsLastLabel(body, k, body[i].name)
        BY <1>2, <4>2 DEF IsLastLabel, LabelAt
      <4>5. k \in Nat /\ VectorOf(seg) \in Nat  BY <1>1, <4>2 DEF VectorOf
      <4> HIDE DEF k
      <4>6. <<VectorOf(seg), k>> \in Nat \X Nat  BY <4>5
      <4>7. done[i] = [op |-> body[i].op, name |-> body[i].name, args |-> body[i].args,
                       at |-> <<VectorOf(seg), k>>]
        BY <3>1, <4>3 DEF AWork
      <4>8. done[i] \in AWork  BY <3>1, <4>6, <4>7 DEF AWork
      <4> QED BY <3>2, <4>4, <4>7, <4>8 DEF SameButAt
    <3>3. CASE body[i].op \notin Jumps
      <4>1. done[i] = body[i]  BY <3>3
      <4> QED BY <3>1, <3>3, <4>1 DEF SameButAt
    <3> QED BY <3>2, <3>3
  <2>3. done \in Seq(AWork) /\ Len(done) = N
    <3>1. done = [i \in 1..N |-> done[i]]  BY <1>1
    <3>2. \A i \in 1..N : done[i] \in AWork  BY <1>1, <2>2
    <3> HIDE DEF done
    <3>3. [i \in 1..N |-> done[i]] \in Seq(AWork) /\ Len([i \in 1..N |-> done[i]]) = N
      BY <1>1, <3>2
    <3> QED BY <3>1, <3>3, Zenon
  <2> HIDE DEF done
  <2>4. linked.works = done /\ linked.err = NoError  BY <2>1
  <2>5. linked.works \in Seq(AWork) /\ Len(linked.works) = Len(body)  BY <2>3, <2>4 DEF N
  <2>6. JumpsKnown(body) /\ linked.err \in {NoError, "nolabel"}  BY <1>4, <1>6, <2>4
  <2>7. ASSUME NEW i \in DOMAIN body
        PROVE  /\ SameButAt(linked.works[i], body[i])
               /\ body[i].op \notin Jumps => linked.works[i] = body[i]
               /\ body[i].op \in Jumps =>
                    /\ linked.works[i].at[1] = VectorOf(seg)
                    /\ IsLastLabel(body, linked.works[i].at[2], body[i].name)
    <3>1. linked.works[i] = done[i]  BY <2>4
    <3> QED BY <2>2, <3>1
  <2>8. linked.err = NoError  BY <2>4
  <2> QED BY <2>5, <2>6, <2>7, <2>8, Zenon DEF JumpsLinked
<1> QED BY <1>5, <1>6

-----------------------------------------------------------------------------
(* The lock linker.                                                        *)

LockOps == {"LOCK", "UNLOCK"}
LockAt(body, j, x) == body[j].op = "LOCK" /\ body[j].name = x

\* An UNLOCK is known when a LOCK of its name comes before it.
Unlockable(body, i) == \E j \in 1..(i - 1) : LockAt(body, j, body[i].name)
UnlocksKnown(body) ==
    \A i \in DOMAIN body : body[i].op = "UNLOCK" => Unlockable(body, i)

LockAcc == [works : Seq(AWork), map : PartialMap(Strings, Nat \X Nat), err : {NoError, "nolock"}]

\* One turn of the loop, on an accumulator that still holds the work i of
\* the body: op, name and args are those of the body.
Locked(new, acc, at, i) ==
    /\ new.works \in Seq(AWork) /\ Len(new.works) = Len(acc.works)
    /\ \A j \in DOMAIN acc.works : j # i => new.works[j] = acc.works[j]
    /\ SameButAt(new.works[i], acc.works[i]) /\ new.works[i].at = at
    /\ new.map \in PartialMap(Strings, Nat \X Nat) /\ Binds(new.map, acc.map, acc.works[i].name, at)
    /\ new.err = acc.err

LEMMA LockTurn ==
    ASSUME NEW acc \in LockAcc, NEW seg \in Nat, NEW i \in DOMAIN acc.works
    PROVE  LET w == acc.works[i]
               at == MutexOf(acc.map, w.name, <<seg, i>>)
               new == VisitLock(acc, seg, i)
           IN /\ new \in LockAcc /\ at \in Nat \X Nat
              /\ acc.err # NoError \/ w.op \notin LockOps => new = acc
              /\ acc.err = NoError /\ w.op = "UNLOCK" /\ w.name \notin DOMAIN acc.map =>
                   new.err = "nolock"
              /\ acc.err = NoError /\ (w.op = "LOCK" \/ (w.op = "UNLOCK" /\ w.name \in DOMAIN acc.map)) =>
                   Locked(new, acc, at, i)
<1> DEFINE body == acc.works
           w == body[i]
           at == MutexOf(acc.map, w.name, <<seg, i>>)
           new == VisitLock(acc, seg, i)
           bound == Bind(acc.map, w.name, at)
<1>0. acc = [works |-> body, map |-> acc.map, err |-> acc.err]
  BY DEF LockAcc
<1>1. /\ body \in Seq(AWork) /\ acc.map \in PartialMap(Strings, Nat \X Nat)
      /\ acc.err \in {NoError, "nolock"}
  BY DEF LockAcc
<1>2. w \in AWork /\ w.name \in Strings /\ i \in Nat
  <2>1. w \in AWork /\ i \in Nat
    <3> HIDE DEF body
    <3>1. i \in DOMAIN body  BY DEF body
    <3> QED BY <1>1, <3>1
  <2> QED BY <2>1 DEF AWork
<1>3. at \in Nat \X Nat
  <2>1. <<seg, i>> \in Nat \X Nat  BY <1>2
  <2>2. PICK D \in SUBSET Strings : acc.map \in [D -> Nat \X Nat]  BY <1>1 DEF PartialMap
  <2> HIDE DEF w
  <2> QED BY <2>1, <2>2 DEF MutexOf
<1>4. new = IF acc.err # NoError \/ w.op \notin LockOps THEN acc
            ELSE IF w.op = "UNLOCK" /\ w.name \notin DOMAIN acc.map
                 THEN [acc EXCEPT !.err = "nolock"]
            ELSE [acc EXCEPT !.map = bound, !.works = [body EXCEPT ![i] = [w EXCEPT !.at = at]]]
  BY <1>0 DEF VisitLock, LockOps
<1>5. bound \in PartialMap(Strings, Nat \X Nat) /\ Binds(bound, acc.map, w.name, at)
  <2> HIDE DEF w, at
  <2> QED BY <1>1, <1>2, <1>3, BindIs
<1> SUFFICES /\ new \in LockAcc
             /\ acc.err # NoError \/ w.op \notin LockOps => new = acc
             /\ acc.err = NoError /\ w.op = "UNLOCK" /\ w.name \notin DOMAIN acc.map =>
                  new.err = "nolock"
             /\ acc.err = NoError /\ (w.op = "LOCK" \/ (w.op = "UNLOCK" /\ w.name \in DOMAIN acc.map)) =>
                  Locked(new, acc, at, i)
  BY <1>3
<1> HIDE DEF new, at, bound
<1>6. CASE acc.err # NoError \/ w.op \notin LockOps
  <2>1. new = acc  BY <1>4, <1>6
  <2> QED BY <1>6, <2>1 DEF LockOps
<1>7. CASE acc.err = NoError /\ w.op = "UNLOCK" /\ w.name \notin DOMAIN acc.map
  <2>1. new = [acc EXCEPT !.err = "nolock"]  BY <1>4, <1>7 DEF LockOps
  <2>2. new = [works |-> body, map |-> acc.map, err |-> "nolock"]  BY <1>0, <2>1
  <2>3. new \in LockAcc /\ new.err = "nolock"
    <3> HIDE DEF body
    <3> QED BY <1>1, <2>2 DEF LockAcc
  <2> QED BY <1>7, <2>3 DEF LockOps
<1>8. CASE acc.err = NoError /\ (w.op = "LOCK" \/ (w.op = "UNLOCK" /\ w.name \in DOMAIN acc.map))
  <2> DEFINE v == [w EXCEPT !.at = at]
             done == [body EXCEPT ![i] = v]
  <2>1. new = [acc EXCEPT !.map = bound, !.works = done]  BY <1>4, <1>8 DEF LockOps
  <2>2. v \in AWork /\ SameButAt(v, w) /\ v.at = at
    <3>1. v = [op |-> w.op, name |-> w.name, args |-> w.args, at |-> at]  BY <1>2 DEF AWork
    <3> HIDE DEF v
    <3> QED BY <1>2, <1>3, <3>1 DEF AWork, SameButAt
  <2> HIDE DEF v
  <2>3. /\ done \in Seq(AWork) /\ Len(done) = Len(body) /\ done[i] = v
        /\ \A j \in DOMAIN body : j # i => done[j] = body[j]
    <3> HIDE DEF w, body
    <3>1. i \in DOMAIN body /\ DOMAIN body = 1..Len(body) /\ Len(body) \in Nat  BY <1>1 DEF body
    <3> QED BY <1>1, <2>2, <3>1
  <2> HIDE DEF done
  <2>4. new = [works |-> done, map |-> bound, err |-> NoError]  BY <1>0, <1>8, <2>1
  <2>5. new \in LockAcc
    BY <1>5, <2>3, <2>4 DEF LockAcc
  <2>6. new.works = done /\ new.map = bound /\ new.err = acc.err
    BY <1>8, <2>4
  <2>7. Locked(new, acc, at, i)
    <3> HIDE DEF w
    <3>1. new.works \in Seq(AWork) /\ Len(new.works) = Len(acc.works)  BY <2>3, <2>6
    <3>2. \A j \in DOMAIN acc.works : j # i => new.works[j] = acc.works[j]  BY <2>3, <2>6
    <3>3. new.works[i] = v  BY <2>3, <2>6
    <3>4. SameButAt(new.works[i], acc.works[i]) /\ new.works[i].at = at
      BY <2>2, <3>3 DEF w
    <3>5. new.map \in PartialMap(Strings, Nat \X Nat) /\ Binds(new.map, acc.map, acc.works[i].name, at)
      BY <1>5, <2>6 DEF w
    <3> QED BY <2>6, <3>1, <3>2, <3>4, <3>5 DEF Locked
  <2> QED BY <1>8, <2>5, <2>7 DEF LockOps
<1> QED
  <2>1. acc.err # NoError \/ w.op \notin LockOps \/ w.op = "LOCK" \/ w.op = "UNLOCK"  BY DEF LockOps
  <2> HIDE DEF w
  <2> QED BY <1>6, <1>7, <1>8, <2>1, Zenon

\* The loop over the locks, turn by turn.
LocksInit(body) == [works |-> body, map |-> <<>>, err |-> NoError]
LockTurns(after, body, seg) ==
    /\ after[0] = LocksInit(body)
    /\ \A n \in 1..Len(body) : after[n] = VisitLock(after[n - 1], seg, n)

\* No turn changes how many works there are.
LockAccOf(body) == {acc \in LockAcc : Len(acc.works) = Len(body)}

LEMMA LockInitIs ==
    ASSUME NEW body \in Seq(AWork)
    PROVE  LocksInit(body) \in LockAccOf(body)
<1>1. <<>> \in PartialMap(Strings, Nat \X Nat)  BY EmptyMap
<1> DEFINE none == <<>>
           init == [works |-> body, map |-> none, err |-> NoError]
<1>2. none \in PartialMap(Strings, Nat \X Nat)  BY <1>1
<1>3. LocksInit(body) = init  BY DEF LocksInit
<1> HIDE DEF none
<1>4. init \in LockAcc /\ Len(init.works) = Len(body)  BY <1>2 DEF LockAcc
<1> QED BY <1>3, <1>4 DEF LockAccOf

LEMMA LockLoop ==
    ASSUME NEW body \in Seq(AWork), NEW seg \in Nat
    PROVE  \E after \in [0..Len(body) -> LockAccOf(body)] :
             LockTurns(after, body, seg) /\ LinkLocks(body, seg) = after[Len(body)]
<1> DEFINE N == Len(body)
           S == LockAccOf(body)
           init == LocksInit(body)
           step == [n \in 1..N |-> [acc \in S |-> VisitLock(acc, seg, n)]]
           Is(f) == f = [n \in 0..N |-> IF n = 0 THEN init ELSE VisitLock(f[n - 1], seg, n)]
           h == CHOOSE g : Is(g)
<1>1. N \in Nat
  OBVIOUS
<1> HIDE DEF N
<1>2. step \in [1..N -> [S -> S]]
  <2>1. ASSUME NEW n \in 1..N, NEW acc \in S PROVE VisitLock(acc, seg, n) \in S
    <3>1. acc \in LockAcc /\ Len(acc.works) = N  BY DEF LockAccOf, N
    <3>2. acc.works \in Seq(AWork)  BY <3>1 DEF LockAcc
    <3>3. n \in DOMAIN acc.works  BY <3>1, <3>2
    <3> DEFINE new == VisitLock(acc, seg, n)
               w == acc.works[n]
    <3>4. new \in LockAcc  BY <3>1, <3>3, LockTurn
    <3>5. Len(new.works) = N
      <4>1. \/ new = acc \/ new = [acc EXCEPT !.err = "nolock"]
            \/ \E map, x : new = [acc EXCEPT !.map = map, !.works[n].at = x]
        BY Zenon DEF VisitLock
      <4> HIDE DEF new
      <4>2. CASE new = acc  BY <3>1, <4>2
      <4>3. CASE new = [acc EXCEPT !.err = "nolock"]
        <5>1. new.works = acc.works  BY <4>3, <3>1 DEF LockAcc
        <5> QED BY <3>1, <5>1
      <4>4. CASE \E map, x : new = [acc EXCEPT !.map = map, !.works[n].at = x]
        <5>1. PICK map, x : new = [acc EXCEPT !.map = map, !.works[n].at = x]  BY <4>4
        <5>2. new.works = [acc.works EXCEPT ![n].at = x]  BY <5>1, <3>1 DEF LockAcc
        <5> QED BY <3>1, <3>2, <3>3, <5>2
      <4> QED BY <4>1, <4>2, <4>3, <4>4
    <3> HIDE DEF new
    <3>6. new \in S  BY <3>4, <3>5 DEF LockAccOf, N
    <3> QED BY <3>6 DEF new
  <2> HIDE DEF S
  <2> QED BY <2>1
<1>3. init \in S
  BY LockInitIs
<1>4. LinkLocks(body, seg) = h[N]
  BY DEF LinkLocks, LocksInit, N
<1> HIDE DEF init, S
<1>5. PICK f : Loops(f, N, S, init, step)
  <2> HIDE DEF step
  <2> QED BY <1>1, <1>2, <1>3, Loop
<1>6. Is(f)
  <2> USE DEF Loops
  <2>1. ASSUME NEW n \in 1..N PROVE f[n] = VisitLock(f[n - 1], seg, n)
    <3>1. n - 1 \in 0..N  BY <1>1
    <3>2. f[n - 1] \in S  BY <1>5, <3>1
    <3> QED BY <1>5, <3>2
  <2>2. \A n \in 0..N : f[n] = IF n = 0 THEN init ELSE VisitLock(f[n - 1], seg, n)
    <3>1. \A n \in 0..N : n # 0 => n \in 1..N  BY <1>1
    <3> QED BY <1>5, <2>1, <3>1
  <2>3. f = [n \in 0..N |-> f[n]]  BY <1>5
  <2> HIDE DEF step
  <2> QED BY <2>2, <2>3
<1>7. Is(h)
  <2> HIDE DEF Is
  <2> QED BY <1>6
<1> HIDE DEF h
<1>8. h[0] = init /\ \A n \in 1..N : h[n] = VisitLock(h[n - 1], seg, n)
  <2>1. \A n \in 0..N : h[n] = IF n = 0 THEN init ELSE VisitLock(h[n - 1], seg, n)
    BY <1>7
  <2>2. 0 \in 0..N /\ \A n \in 1..N : n \in 0..N /\ n # 0  BY <1>1
  <2> QED BY <2>1, <2>2
<1>9. h \in [0..N -> S]
  <2>1. \A n \in 1..N : h[n - 1] \in S => h[n] = step[n][h[n - 1]]
    BY <1>8
  <2>2. h = [n \in 0..N |-> h[n]]
    BY <1>7
  <2>3. GoesOn(h, N, S, init, step)
    BY <1>8, <2>1, <2>2 DEF GoesOn
  <2> HIDE DEF step
  <2> QED BY <1>1, <1>2, <1>3, <2>3, LoopStays
<1>10. LockTurns(h, body, seg)
  BY <1>8 DEF LockTurns, N, init
<1> QED BY <1>4, <1>9, <1>10 DEF N, S

\* After n turns: what is linked, and what lockMap holds while nothing is wrong.
WorksKept(new, body, n) ==
    \A i \in DOMAIN body : /\ SameButAt(new[i], body[i])
                           /\ i > n \/ body[i].op \notin LockOps => new[i] = body[i]
MapNames(map, body, n) ==
    \A x : x \in DOMAIN map <=> \E i \in 1..n : LockAt(body, i, x)
MapPlaces(map, body, seg, n) ==
    \A x \in DOMAIN map :
        \E k \in 1..n : map[x] = <<seg, k>> /\ body[k].op \in LockOps /\ body[k].name = x
LinkedSoFar(new, map, body, n) ==
    \A i \in 1..n : body[i].op \in LockOps =>
        body[i].name \in DOMAIN map /\ new[i].at = map[body[i].name]
KnownSoFar(body, n) ==
    \A i \in 1..n : body[i].op = "UNLOCK" => Unlockable(body, i)

LockInv(acc, body, seg, n) ==
    /\ acc \in LockAccOf(body) /\ WorksKept(acc.works, body, n)
    /\ acc.err = NoError =>
         /\ MapNames(acc.map, body, n) /\ MapPlaces(acc.map, body, seg, n)
         /\ LinkedSoFar(acc.works, acc.map, body, n) /\ KnownSoFar(body, n)
    /\ acc.err # NoError => ~KnownSoFar(body, n)

\* A turn on a work that has a mutex in the map or is given a new one.
LEMMA LockBound ==
    ASSUME NEW body \in Seq(AWork), NEW seg \in Nat, NEW n \in DOMAIN body,
           NEW acc \in LockAccOf(body), NEW new \in LockAccOf(body),
           LockInv(acc, body, seg, n - 1), acc.err = NoError, body[n].op \in LockOps,
           body[n].op = "LOCK" \/ body[n].name \in DOMAIN acc.map,
           Locked(new, acc, MutexOf(acc.map, body[n].name, <<seg, n>>), n)
    PROVE  LockInv(new, body, seg, n)
<1> DEFINE x == body[n].name
           at == MutexOf(acc.map, x, <<seg, n>>)
           N == Len(body)
<1>1. N \in Nat /\ DOMAIN body = 1..N /\ n \in Nat /\ n >= 1 /\ n <= N
  OBVIOUS
<1>2. acc.works \in Seq(AWork) /\ DOMAIN acc.works = 1..N
  <2>1. acc.works \in Seq(AWork) /\ Len(acc.works) = N  BY DEF LockAccOf, LockAcc
  <2> QED BY <2>1
<1>3. /\ WorksKept(acc.works, body, n - 1)
      /\ MapNames(acc.map, body, n - 1) /\ MapPlaces(acc.map, body, seg, n - 1)
      /\ LinkedSoFar(acc.works, acc.map, body, n - 1) /\ KnownSoFar(body, n - 1)
  BY Zenon DEF LockInv
<1>4. acc.works[n] = body[n]
  BY <1>1, <1>3 DEF WorksKept
<1>5. /\ \A j \in 1..N : j # n => new.works[j] = acc.works[j]
      /\ SameButAt(new.works[n], body[n]) /\ new.works[n].at = at
      /\ Binds(new.map, acc.map, x, at) /\ new.err = NoError
  BY <1>2, <1>4 DEF Locked
<1> HIDE DEF at, x, N
<1>6. \A y \in DOMAIN acc.map : y = x => at = acc.map[y]
  BY DEF at, x, MutexOf
<1>7. /\ DOMAIN new.map = DOMAIN acc.map \cup {x} /\ new.map[x] = at
      /\ \A y \in DOMAIN acc.map : new.map[y] = acc.map[y]
  BY <1>5, <1>6 DEF Binds
<1>8. WorksKept(new.works, body, n)
  BY <1>1, <1>3, <1>5 DEF WorksKept
<1>9. MapNames(new.map, body, n)
  <2>1. ASSUME NEW y, y \in DOMAIN new.map PROVE \E i \in 1..n : LockAt(body, i, y)
    <3>1. CASE y \in DOMAIN acc.map
      <4>1. PICK i \in 1..(n - 1) : LockAt(body, i, y)  BY <1>3, <3>1 DEF MapNames
      <4> QED BY <1>1, <4>1
    <3>2. CASE y \notin DOMAIN acc.map
      <4>1. y = x /\ body[n].op = "LOCK"  BY <1>7, <2>1, <3>2 DEF x
      <4>2. LockAt(body, n, y)  BY <4>1 DEF LockAt, x
      <4> QED BY <1>1, <4>2
    <3> QED BY <3>1, <3>2
  <2>2. ASSUME NEW i \in 1..n, NEW y, LockAt(body, i, y) PROVE y \in DOMAIN new.map
    <3>1. CASE i = n  BY <1>7, <2>2, <3>1 DEF LockAt, x
    <3>2. CASE i # n
      <4>1. i \in 1..(n - 1)  BY <1>1, <3>2
      <4> QED BY <1>3, <1>7, <2>2, <4>1 DEF MapNames
    <3> QED BY <3>1, <3>2
  <2> QED BY <2>1, <2>2 DEF MapNames
<1>10. MapPlaces(new.map, body, seg, n)
  <2> SUFFICES ASSUME NEW y \in DOMAIN new.map
               PROVE  \E k \in 1..n : /\ new.map[y] = <<seg, k>> /\ body[k].op \in LockOps
                                      /\ body[k].name = y
    BY DEF MapPlaces
  <2>1. CASE y \in DOMAIN acc.map
    <3>1. PICK k \in 1..(n - 1) : /\ acc.map[y] = <<seg, k>> /\ body[k].op \in LockOps
                                  /\ body[k].name = y
      BY <1>3, <2>1 DEF MapPlaces
    <3>2. k \in 1..n  BY <1>1
    <3>3. new.map[y] = acc.map[y]  BY <1>7, <2>1
    <3> QED BY <3>1, <3>2, <3>3
  <2>2. CASE y \notin DOMAIN acc.map
    <3>1. y = x  BY <1>7, <2>2
    <3>2. at = <<seg, n>>  BY <2>2, <3>1 DEF at, MutexOf
    <3>3. n \in 1..n  BY <1>1
    <3> QED BY <1>7, <3>1, <3>2, <3>3 DEF x
  <2> QED BY <2>1, <2>2
<1>11. LinkedSoFar(new.works, new.map, body, n)
  <2> SUFFICES ASSUME NEW i \in 1..n, body[i].op \in LockOps
               PROVE  body[i].name \in DOMAIN new.map /\ new.works[i].at = new.map[body[i].name]
    BY DEF LinkedSoFar
  <2>1. CASE i = n  BY <1>5, <1>7, <2>1 DEF x
  <2>2. CASE i # n
    <3>1. i \in 1..(n - 1) /\ i \in 1..N  BY <1>1, <2>2
    <3>2. body[i].name \in DOMAIN acc.map /\ acc.works[i].at = acc.map[body[i].name]
      BY <1>3, <3>1 DEF LinkedSoFar
    <3>3. new.works[i] = acc.works[i]  BY <1>5, <2>2, <3>1
    <3> QED BY <1>7, <3>2, <3>3
  <2> QED BY <2>1, <2>2
<1>12. KnownSoFar(body, n)
  <2> SUFFICES ASSUME NEW i \in 1..n, body[i].op = "UNLOCK" PROVE Unlockable(body, i)
    BY DEF KnownSoFar
  <2>1. CASE i = n
    <3>1. x \in DOMAIN acc.map  BY <2>1 DEF x
    <3> QED BY <1>3, <2>1, <3>1 DEF MapNames, Unlockable, x
  <2>2. CASE i # n
    <3>1. i \in 1..(n - 1)  BY <1>1, <2>2
    <3> QED BY <1>3, <3>1 DEF KnownSoFar
  <2> QED BY <2>1, <2>2
<1> QED BY <1>5, <1>8, <1>9, <1>10, <1>11, <1>12, Zenon DEF LockInv

LEMMA LockKeeps ==
    ASSUME NEW body \in Seq(AWork), NEW seg \in Nat, NEW n \in DOMAIN body,
           NEW acc \in LockAccOf(body), NEW new \in LockAccOf(body), new = VisitLock(acc, seg, n),
           LockInv(acc, body, seg, n - 1)
    PROVE  LockInv(new, body, seg, n)
<1>1. n \in Nat /\ n >= 1 /\ n \in 1..n /\ \A i \in 1..n : i = n \/ i \in 1..(n - 1)
  OBVIOUS
<1>2. acc \in LockAcc /\ n \in DOMAIN acc.works
  <2>1. acc \in LockAcc /\ Len(acc.works) = Len(body)  BY DEF LockAccOf
  <2>2. acc.works \in Seq(AWork)  BY <2>1 DEF LockAcc
  <2> QED BY <2>1, <2>2
<1>3. WorksKept(acc.works, body, n - 1)
  BY Zenon DEF LockInv
<1>4. acc.works[n] = body[n]
  BY <1>1, <1>3 DEF WorksKept
<1>5. CASE acc.err # NoError
  <2>1. new = acc  BY <1>2, <1>5, LockTurn, Zenon
  <2>2. ~KnownSoFar(body, n - 1)  BY <1>5, Zenon DEF LockInv
  <2>3. ~KnownSoFar(body, n)
    <3>1. \A i \in 1..(n - 1) : i \in 1..n  BY <1>1
    <3> QED BY <2>2, <3>1, Zenon DEF KnownSoFar
  <2>4. WorksKept(acc.works, body, n)
    <3>1. \A i \in DOMAIN body : i > n => i > n - 1  BY <1>1
    <3> QED BY <1>3, <3>1 DEF WorksKept
  <2> QED BY <1>5, <2>1, <2>3, <2>4, Zenon DEF LockInv
<1>6. CASE acc.err = NoError /\ body[n].op \notin LockOps
  <2>1. new = acc  BY <1>2, <1>4, <1>6, LockTurn, Zenon
  <2>2. /\ MapNames(acc.map, body, n - 1) /\ MapPlaces(acc.map, body, seg, n - 1)
        /\ LinkedSoFar(acc.works, acc.map, body, n - 1) /\ KnownSoFar(body, n - 1)
    BY <1>6, Zenon DEF LockInv
  <2>3. WorksKept(acc.works, body, n)
    <3>1. \A i \in DOMAIN body : i > n => i > n - 1  BY <1>1
    <3> QED BY <1>3, <3>1 DEF WorksKept
  <2>4. body[n].op # "UNLOCK" /\ body[n].op # "LOCK"  BY <1>6 DEF LockOps
  <2>5. \A i \in 1..(n - 1) : i \in 1..n  BY <1>1
  <2>6. MapNames(acc.map, body, n)
    BY <1>1, <2>2, <2>4, <2>5 DEF MapNames, LockAt
  <2>7. MapPlaces(acc.map, body, seg, n)
    BY <2>2, <2>5 DEF MapPlaces
  <2>8. LinkedSoFar(acc.works, acc.map, body, n)
    BY <1>1, <1>6, <2>2 DEF LinkedSoFar
  <2>9. KnownSoFar(body, n)
    BY <1>1, <2>2, <2>4 DEF KnownSoFar
  <2> QED BY <1>6, <2>1, <2>3, <2>6, <2>7, <2>8, <2>9, Zenon DEF LockInv
<1>7. CASE acc.err = NoError /\ body[n].op = "UNLOCK" /\ body[n].name \notin DOMAIN acc.map
  <2>1. new.err = "nolock" /\ new.err # NoError
    <3>1. new = [acc EXCEPT !.err = "nolock"]
      BY <1>4, <1>7, Zenon DEF VisitLock
    <3>2. new.err = "nolock"  BY <1>2, <3>1 DEF LockAcc
    <3> QED BY <3>2, Errors
  <2>2. new.works = acc.works
    <3>1. new = [acc EXCEPT !.err = "nolock"]
      BY <1>4, <1>7, Zenon DEF VisitLock
    <3> QED BY <1>2, <3>1 DEF LockAcc
  <2>3. MapNames(acc.map, body, n - 1)  BY <1>7, Zenon DEF LockInv
  <2>4. ~Unlockable(body, n)  BY <1>7, <2>3 DEF MapNames, Unlockable
  <2>5. ~KnownSoFar(body, n)  BY <1>1, <1>7, <2>4 DEF KnownSoFar
  <2>6. WorksKept(new.works, body, n)
    <3>1. \A i \in DOMAIN body : i > n => i > n - 1  BY <1>1
    <3> QED BY <1>3, <2>2, <3>1 DEF WorksKept
  <2> QED BY <2>1, <2>5, <2>6, Zenon DEF LockInv
<1>8. CASE /\ acc.err = NoError /\ body[n].op \in LockOps
           /\ body[n].op = "LOCK" \/ body[n].name \in DOMAIN acc.map
  <2>1. body[n].op = "LOCK" \/ (body[n].op = "UNLOCK" /\ body[n].name \in DOMAIN acc.map)
    BY <1>8 DEF LockOps
  <2>2. Locked(new, acc, MutexOf(acc.map, body[n].name, <<seg, n>>), n)
    BY <1>2, <1>4, <1>8, <2>1, LockTurn, Zenon
  <2> QED BY <1>8, <2>2, LockBound
<1> QED
  <2>1. body[n].op \in LockOps => body[n].op = "LOCK" \/ body[n].op = "UNLOCK"  BY DEF LockOps
  <2> QED BY <1>5, <1>6, <1>7, <1>8, <2>1, Zenon

\* Every LOCK and UNLOCK of a linked body holds a mutex: its place is that of
\* a lock work of the body, and equal names hold equal mutexes.
MutexPerName(done, body, seg) ==
    \A i, j \in DOMAIN body : body[i].op \in LockOps /\ body[j].op \in LockOps =>
        /\ done[i].at[1] = seg /\ done[i].at[2] \in DOMAIN body
        /\ body[done[i].at[2]].op \in LockOps
        /\ (done[i].at = done[j].at <=> body[i].name = body[j].name)

\* Each work is what it was, but for the at of those whose op is in ops.
KeptBut(ops, done, body) ==
    /\ done \in Seq(AWork) /\ Len(done) = Len(body)
    /\ \A i \in DOMAIN body : /\ SameButAt(done[i], body[i])
                              /\ body[i].op \notin ops => done[i] = body[i]

LocksLinked(linked, body, seg) ==
    /\ KeptBut(LockOps, linked.works, body)
    /\ linked.err \in {NoError, "nolock"} /\ (linked.err = NoError <=> UnlocksKnown(body))
    /\ linked.err = NoError => MutexPerName(linked.works, body, seg)

LEMMA LinkLocksIs ==
    ASSUME NEW body \in Seq(AWork), NEW seg \in Nat
    PROVE  LocksLinked(LinkLocks(body, seg), body, seg)
<1> DEFINE N == Len(body)
           linked == LinkLocks(body, seg)
<1>1. N \in Nat /\ DOMAIN body = 1..N
  OBVIOUS
<1>2. PICK after \in [0..N -> LockAccOf(body)] : LockTurns(after, body, seg) /\ linked = after[N]
  BY LockLoop
<1> DEFINE T == {n \in 0..N : LockInv(after[n], body, seg, n)}
<1>3. 0 \in T
  <2> DEFINE init == LocksInit(body)
             none == <<>>
  <2>1. after[0] = init /\ init \in LockAccOf(body)  BY <1>2, LockInitIs DEF LockTurns
  <2>2. init = [works |-> body, map |-> none, err |-> NoError] /\ DOMAIN none = {}
    BY EmptyMap DEF LocksInit
  <2> HIDE DEF init, none
  <2>3. init.works = body /\ init.err = NoError /\ init.map = none  BY <2>2
  <2>4. DOMAIN init.map = {}  BY <2>2, <2>3
  <2>5. WorksKept(init.works, body, 0)  BY <2>3 DEF WorksKept, SameButAt
  <2>6. MapNames(init.map, body, 0) /\ MapPlaces(init.map, body, seg, 0)
    BY <2>4 DEF MapNames, MapPlaces
  <2>7. LinkedSoFar(init.works, init.map, body, 0) /\ KnownSoFar(body, 0)
    BY DEF LinkedSoFar, KnownSoFar
  <2>8. LockInv(init, body, seg, 0)
    BY <2>1, <2>3, <2>5, <2>6, <2>7, Zenon DEF LockInv
  <2> QED BY <1>1, <2>1, <2>8
<1>4. ASSUME NEW n \in 1..N, n - 1 \in T PROVE n \in T
  <2>1. n \in DOMAIN body /\ n \in 0..N /\ n - 1 \in 0..N  BY <1>1
  <2>2. after[n] = VisitLock(after[n - 1], seg, n)  BY <1>2 DEF LockTurns
  <2>3. after[n] \in LockAccOf(body) /\ after[n - 1] \in LockAccOf(body)  BY <1>2, <2>1
  <2>4. LockInv(after[n - 1], body, seg, n - 1)  BY <1>4
  <2>5. LockInv(after[n], body, seg, n)  BY <2>1, <2>2, <2>3, <2>4, LockKeeps
  <2> QED BY <2>1, <2>5
<1>5. 0..N \subseteq T
  <2> HIDE DEF T
  <2> QED BY <1>1, <1>3, <1>4, UpToSet
<1>6. LockInv(after[N], body, seg, N)
  BY <1>1, <1>5
<1> SUFFICES LocksLinked(linked, body, seg)
  OBVIOUS
<1>7. LockInv(linked, body, seg, N)
  BY <1>2, <1>6
<1> HIDE DEF linked, N
<1>8. linked \in LockAccOf(body) /\ WorksKept(linked.works, body, N)
  BY <1>7, Zenon DEF LockInv
<1>9. /\ linked.works \in Seq(AWork) /\ Len(linked.works) = N
      /\ linked.err \in {NoError, "nolock"}
  BY <1>8 DEF LockAccOf, LockAcc, N
<1>10. KnownSoFar(body, N) <=> UnlocksKnown(body)
  BY <1>1 DEF KnownSoFar, UnlocksKnown
<1>11. linked.err = NoError <=> UnlocksKnown(body)
  BY <1>7, <1>10, Zenon DEF LockInv
<1>12. KeptBut(LockOps, linked.works, body)
  BY <1>8, <1>9 DEF WorksKept, KeptBut, N
<1>13. ASSUME linked.err = NoError, NEW i \in DOMAIN body, NEW j \in DOMAIN body,
              body[i].op \in LockOps, body[j].op \in LockOps
       PROVE  /\ linked.works[i].at[1] = seg /\ linked.works[i].at[2] \in DOMAIN body
              /\ body[linked.works[i].at[2]].op \in LockOps
              /\ (linked.works[i].at = linked.works[j].at <=> body[i].name = body[j].name)
  <2> DEFINE map == linked.map
  <2>1. MapPlaces(map, body, seg, N) /\ LinkedSoFar(linked.works, map, body, N)
    BY <1>7, <1>13, Zenon DEF LockInv
  <2>2. /\ body[i].name \in DOMAIN map /\ linked.works[i].at = map[body[i].name]
        /\ body[j].name \in DOMAIN map /\ linked.works[j].at = map[body[j].name]
    BY <1>1, <1>13, <2>1 DEF LinkedSoFar
  <2> HIDE DEF map
  <2>3. PICK k \in 1..N : /\ map[body[i].name] = <<seg, k>> /\ body[k].op \in LockOps
                          /\ body[k].name = body[i].name
    BY <2>1, <2>2 DEF MapPlaces
  <2>4. PICK l \in 1..N : /\ map[body[j].name] = <<seg, l>> /\ body[l].op \in LockOps
                          /\ body[l].name = body[j].name
    BY <2>1, <2>2 DEF MapPlaces
  <2>5. linked.works[i].at = <<seg, k>> /\ linked.works[j].at = <<seg, l>>
    BY <2>2, <2>3, <2>4
  <2>6. <<seg, k>> = <<seg, l>> <=> k = l  OBVIOUS
  <2>7. linked.works[i].at = linked.works[j].at <=> body[i].name = body[j].name
    <3>1. ASSUME body[i].name = body[j].name PROVE linked.works[i].at = linked.works[j].at
      BY <2>2, <3>1
    <3>2. ASSUME linked.works[i].at = linked.works[j].at PROVE body[i].name = body[j].name
      <4>1. k = l  BY <2>5, <2>6, <3>2
      <4> QED BY <2>3, <2>4, <4>1
    <3> QED BY <3>1, <3>2
  <2>8. linked.works[i].at[1] = seg /\ linked.works[i].at[2] = k
    BY <2>5
  <2> QED BY <1>1, <2>3, <2>7, <2>8
<1>14. linked.err = NoError => MutexPerName(linked.works, body, seg)
  BY <1>13, Zenon DEF MutexPerName
<1> QED BY <1>9, <1>11, <1>12, <1>14, Zenon DEF LocksLinked

-----------------------------------------------------------------------------
(* Both: a segment.                                                        *)

JumpsResolved(done, body, seg) ==
    \A i \in DOMAIN body : body[i].op \in Jumps =>
        /\ done[i].at[1] = VectorOf(seg)
        /\ IsLastLabel(body, done[i].at[2], body[i].name)

SegmentLinked(linked, body, seg) ==
    /\ KeptBut(LockOps \cup Jumps, linked.works, body)
    /\ linked.err \in {NoError, "nolock", "nolabel"}
    /\ (linked.err = NoError <=> UnlocksKnown(body) /\ JumpsKnown(body))
    /\ linked.err = NoError => /\ MutexPerName(linked.works, body, seg)
                               /\ JumpsResolved(linked.works, body, seg)

LEMMA LinkSegmentIs ==
    ASSUME NEW body \in Seq(AWork), NEW seg \in Nat
    PROVE  SegmentLinked(LinkSegment(body, seg), body, seg)
<1> DEFINE locked == LinkLocks(body, seg)
           jumped == LinkJumps(locked.works, seg)
           linked == LinkSegment(body, seg)
<1>1. LocksLinked(locked, body, seg)
  BY LinkLocksIs
<1>2. locked.works \in Seq(AWork)
  BY <1>1, Zenon DEF LocksLinked, KeptBut
<1>3. JumpsLinked(jumped, locked.works, seg)
  <2> HIDE DEF locked
  <2> QED BY <1>2, LinkJumpsIs
<1>4. linked = IF locked.err # NoError THEN [works |-> body, err |-> locked.err] ELSE jumped
  BY DEF LinkSegment
<1> SUFFICES SegmentLinked(linked, body, seg)
  OBVIOUS
<1> HIDE DEF locked, jumped, linked
<1>5. CASE locked.err # NoError
  <2>1. linked = [works |-> body, err |-> locked.err]  BY <1>4, <1>5
  <2>2. linked.works = body /\ linked.err = locked.err  BY <2>1, Zenon
  <2>3. ~UnlocksKnown(body) /\ locked.err = "nolock"  BY <1>1, <1>5, Zenon DEF LocksLinked
  <2>4. KeptBut(LockOps \cup Jumps, linked.works, body)
    BY <2>2 DEF SameButAt, KeptBut
  <2>6. linked.err = "nolock" /\ linked.err # NoError  BY <1>5, <2>2, <2>3
  <2> QED BY <2>3, <2>4, <2>6, Zenon DEF SegmentLinked
<1>6. CASE locked.err = NoError
  <2> DEFINE mid == locked.works
  <2>1. linked = jumped  BY <1>4, <1>6
  <2>2. /\ JumpsLinked(linked, mid, seg)
        /\ mid \in Seq(AWork) /\ Len(mid) = Len(body) /\ UnlocksKnown(body)
        /\ \A i \in DOMAIN body : /\ SameButAt(mid[i], body[i])
                                  /\ body[i].op \notin LockOps => mid[i] = body[i]
        /\ MutexPerName(mid, body, seg)
    BY <1>1, <1>2, <1>3, <1>6, <2>1, Zenon DEF LocksLinked, KeptBut
  <2> HIDE DEF mid
  <2>3. DOMAIN mid = DOMAIN body  BY <2>2
  <2>4. \A i \in DOMAIN body : mid[i].op = body[i].op /\ mid[i].name = body[i].name
    BY <2>2 DEF SameButAt
  <2>5. \A j, x : j \in DOMAIN body => (LabelAt(mid, j, x) <=> LabelAt(body, j, x))
    BY <2>4 DEF LabelAt
  <2>6. JumpsKnown(mid) <=> JumpsKnown(body)
    BY <2>3, <2>4, <2>5 DEF JumpsKnown
  <2>7. \A k, x : IsLastLabel(mid, k, x) <=> IsLastLabel(body, k, x)
    BY <2>3, <2>5 DEF IsLastLabel
  <2>8. /\ linked.works \in Seq(AWork) /\ Len(linked.works) = Len(mid)
        /\ linked.err \in {NoError, "nolabel"} /\ (linked.err = NoError <=> JumpsKnown(mid))
    BY <2>2, Zenon DEF JumpsLinked
  <2>9. ASSUME NEW i \in DOMAIN body
        PROVE  /\ SameButAt(linked.works[i], mid[i])
               /\ mid[i].op \notin Jumps => linked.works[i] = mid[i]
               /\ linked.err = NoError /\ mid[i].op \in Jumps =>
                    /\ linked.works[i].at[1] = VectorOf(seg)
                    /\ IsLastLabel(mid, linked.works[i].at[2], mid[i].name)
    BY <2>2, <2>3, Zenon DEF JumpsLinked
  <2>10. \A x \in LockOps : x \notin Jumps
    BY DEF LockOps, Jumps
  <2>11. KeptBut(LockOps \cup Jumps, linked.works, body)
    BY <2>2, <2>4, <2>8, <2>9 DEF SameButAt, KeptBut
  <2>12. ASSUME NEW i \in DOMAIN body, body[i].op \in LockOps PROVE linked.works[i] = mid[i]
    BY <2>4, <2>9, <2>10, <2>12
  <2>13. MutexPerName(linked.works, body, seg)
    BY <2>2, <2>12 DEF MutexPerName
  <2>14. linked.err = NoError => JumpsResolved(linked.works, body, seg)
    BY <2>4, <2>7, <2>9 DEF JumpsResolved
  <2> QED BY <2>2, <2>6, <2>8, <2>11, <2>13, <2>14, Zenon DEF SegmentLinked
<1> QED BY <1>5, <1>6

-----------------------------------------------------------------------------
(* Counting the works before a place.                                      *)

LEMMA CountTurn ==
    ASSUME works \in Seq(AWork), NEW op
    PROVE  /\ \A n \in Nat : CountBefore(op, n) \in Nat
           /\ CountBefore(op, 1) = 0
           /\ \A n \in DOMAIN works : CountBefore(op, n + 1) =
                 CountBefore(op, n) + (IF works[n].op = op THEN 1 ELSE 0)
           /\ \A m, n \in Nat : m <= n => CountBefore(op, m) <= CountBefore(op, n)
           /\ Cardinality(Positions(op)) = CountBefore(op, Len(works) + 1)
<1> DEFINE P == Positions(op)
           B(n) == {j \in P : j < n}
           N == Len(works)
<1>1. N \in Nat /\ DOMAIN works = 1..N /\ P \subseteq 1..N
      /\ \A n \in 1..N : n \in P <=> works[n].op = op
  BY DEF Positions
<1>2. IsFiniteSet(1..N)
  <2>1. 1 \in Int /\ N \in Int  BY <1>1
  <2> QED BY <2>1, FS_Interval
<1>3. \A n : CountBefore(op, n) = Cardinality(B(n))
  BY DEF CountBefore
<1>0. \A n \in Nat : /\ B(n) \subseteq 1..N
                     /\ \A j \in 1..N : j \in B(n) <=> j \in P /\ j < n
  BY <1>1
<1> HIDE DEF P, N, B
<1>4. ASSUME NEW n \in Nat PROVE IsFiniteSet(B(n))
  <2>1. B(n) \in SUBSET (1..N)  BY <1>0, <1>1
  <2> QED BY <1>2, <2>1, FS_Subset
<1>5. ASSUME NEW n \in Nat PROVE CountBefore(op, n) \in Nat
  <2>1. IsFiniteSet(B(n))  BY <1>4
  <2> QED BY <1>3, <2>1, FS_CardinalityType
<1>6. CountBefore(op, 1) = 0
  <2>1. B(1) = {}  BY <1>0, <1>1
  <2> QED BY <1>3, <2>1, FS_EmptySet
<1>7. ASSUME NEW n \in DOMAIN works
      PROVE  CountBefore(op, n + 1) = CountBefore(op, n) + (IF works[n].op = op THEN 1 ELSE 0)
  <2>1. n \in Nat /\ n \in 1..N  BY <1>1
  <2>2. CASE works[n].op = op
    <3>1. B(n + 1) = B(n) \cup {n} /\ n \notin B(n)  BY <1>0, <1>1, <2>1, <2>2
    <3>2. IsFiniteSet(B(n))  BY <1>4, <2>1
    <3>3. Cardinality(B(n + 1)) = Cardinality(B(n)) + 1  BY <3>1, <3>2, FS_AddElement
    <3> QED BY <1>3, <2>2, <3>3
  <2>3. CASE works[n].op # op
    <3>1. B(n + 1) = B(n)
      <4>1. n \in Nat /\ n + 1 \in Nat  BY <2>1
      <4>2. \A j \in 1..N : j \in B(n + 1) <=> j \in B(n)  BY <1>0, <1>1, <2>1, <2>3, <4>1
      <4>3. B(n + 1) \subseteq 1..N /\ B(n) \subseteq 1..N  BY <1>0, <1>1, <4>1
      <4> QED BY <4>2, <4>3
    <3>2. CountBefore(op, n) \in Nat  BY <1>5, <2>1
    <3> QED BY <1>3, <2>3, <3>1, <3>2
  <2> QED BY <2>2, <2>3
<1>8. ASSUME NEW m \in Nat, NEW n \in Nat, m <= n
      PROVE  CountBefore(op, m) <= CountBefore(op, n)
  <2>1. B(m) \in SUBSET B(n)  BY <1>0, <1>1, <1>8
  <2>2. IsFiniteSet(B(n))  BY <1>4
  <2> QED BY <1>3, <2>1, <2>2, FS_Subset
<1>9. Cardinality(Positions(op)) = CountBefore(op, N + 1)
  <2>1. B(N + 1) = P
    <3>1. N + 1 \in Nat  BY <1>1
    <3>2. \A j \in 1..N : j \in B(N + 1) <=> j \in P  BY <1>0, <1>1, <3>1
    <3>3. B(N + 1) \subseteq 1..N /\ P \subseteq 1..N  BY <1>0, <1>1, <3>1
    <3> QED BY <3>2, <3>3
  <2> QED BY <1>3, <2>1 DEF P
<1> QED BY <1>5, <1>6, <1>7, <1>8, <1>9 DEF N

\* The place of a member in its segment: one more than that of the one before.
LEMMA RankTurn ==
    ASSUME works \in Seq(AWork), NEW g
    PROVE  /\ \A n \in Nat : Rank(g, n) \in Nat
           /\ Rank(g, 0) = 0
           /\ \A n \in DOMAIN works :
                 Rank(g, n) = Rank(g, n - 1) + (IF n \in Members(g) THEN 1 ELSE 0)
           /\ \A m, n \in Nat : m <= n => Rank(g, m) <= Rank(g, n)
           /\ Cardinality(Members(g)) = Rank(g, Len(works))
<1> DEFINE M == Members(g)
           B(n) == {j \in M : j <= n}
           N == Len(works)
<1>1. N \in Nat /\ DOMAIN works = 1..N /\ M \subseteq 1..N
  BY DEF Members
<1>2. IsFiniteSet(1..N)
  <2>1. 1 \in Int /\ N \in Int  BY <1>1
  <2> QED BY <2>1, FS_Interval
<1>3. \A n : Rank(g, n) = Cardinality(B(n))
  BY DEF Rank
<1>0. \A n \in Nat : /\ B(n) \subseteq 1..N
                     /\ \A j \in 1..N : j \in B(n) <=> j \in M /\ j <= n
  BY <1>1
<1> HIDE DEF M, N, B
<1>4. ASSUME NEW n \in Nat PROVE IsFiniteSet(B(n))
  <2>1. B(n) \in SUBSET (1..N)  BY <1>0, <1>1
  <2> QED BY <1>2, <2>1, FS_Subset
<1>5. ASSUME NEW n \in Nat PROVE Rank(g, n) \in Nat
  <2>1. IsFiniteSet(B(n))  BY <1>4
  <2> QED BY <1>3, <2>1, FS_CardinalityType
<1>6. Rank(g, 0) = 0
  <2>1. B(0) = {}  BY <1>0, <1>1
  <2> QED BY <1>3, <2>1, FS_EmptySet
<1>7. ASSUME NEW n \in DOMAIN works
      PROVE  Rank(g, n) = Rank(g, n - 1) + (IF n \in M THEN 1 ELSE 0)
  <2>1. n \in Nat /\ n \in 1..N /\ n - 1 \in Nat  BY <1>1
  <2>2. CASE n \in M
    <3>1. B(n) = B(n - 1) \cup {n} /\ n \notin B(n - 1)  BY <1>0, <1>1, <2>1, <2>2
    <3>2. IsFiniteSet(B(n - 1))  BY <1>4, <2>1
    <3>3. Cardinality(B(n)) = Cardinality(B(n - 1)) + 1  BY <3>1, <3>2, FS_AddElement
    <3> QED BY <1>3, <2>2, <3>3
  <2>3. CASE n \notin M
    <3>1. B(n) = B(n - 1)
      <4>1. n \in Nat /\ n - 1 \in Nat  BY <2>1
      <4>2. \A j \in 1..N : j \in B(n) <=> j \in B(n - 1)  BY <1>0, <1>1, <2>1, <2>3, <4>1
      <4>3. B(n) \subseteq 1..N /\ B(n - 1) \subseteq 1..N  BY <1>0, <1>1, <4>1
      <4> QED BY <4>2, <4>3
    <3>2. Rank(g, n - 1) \in Nat  BY <1>5, <2>1
    <3> QED BY <1>3, <2>3, <3>1, <3>2
  <2> QED BY <2>2, <2>3
<1>8. ASSUME NEW m \in Nat, NEW n \in Nat, m <= n
      PROVE  Rank(g, m) <= Rank(g, n)
  <2>1. B(m) \in SUBSET B(n)  BY <1>0, <1>1, <1>8
  <2>2. IsFiniteSet(B(n))  BY <1>4
  <2> QED BY <1>3, <2>1, <2>2, FS_Subset
<1>9. Cardinality(M) = Rank(g, N)
  <2>1. B(N) = M
    <3>1. N \in Nat  BY <1>1
    <3>2. \A j \in 1..N : j \in B(N) <=> j \in M  BY <1>0, <1>1, <3>1
    <3>3. B(N) \subseteq 1..N /\ M \subseteq 1..N  BY <1>0, <1>1, <3>1
    <3> QED BY <3>2, <3>3
  <2> QED BY <1>3, <2>1 DEF M
<1> QED BY <1>5, <1>6, <1>7, <1>8, <1>9 DEF N, M

\* What an unlinked sequence holds for the work i: the work, or the one that
\* starts the block that ends at i.
Holds(w, i) ==
    IF works[i].op = "THREAD_END" THEN w = Spawner(SpawnAt(i)) ELSE w = works[i]

\* seq is the members of segment g among the first n works, in their order.
Lists(seq, g, n) ==
    /\ seq \in Seq(AWork) /\ Len(seq) = Rank(g, n)
    /\ \A i \in Members(g) : i <= n =>
         Rank(g, i) \in 1..Len(seq) /\ Holds(seq[Rank(g, i)], i)
    /\ \A k \in 1..Len(seq) : \E i \in Members(g) : i <= n /\ Rank(g, i) = k

LEMMA RankIncreases ==
    ASSUME works \in Seq(AWork), NEW g, NEW i \in Members(g), NEW j \in Members(g)
    PROVE  i < j <=> Rank(g, i) < Rank(g, j)
<1>1. i \in DOMAIN works /\ j \in DOMAIN works
  BY DEF Members
<1>2. i \in Nat /\ j \in Nat /\ i - 1 \in Nat /\ j - 1 \in Nat
  BY <1>1
<1>3. Rank(g, i) \in Nat /\ Rank(g, j) \in Nat /\ Rank(g, i - 1) \in Nat /\ Rank(g, j - 1) \in Nat
  BY <1>2, RankTurn
<1>4. Rank(g, i) = Rank(g, i - 1) + 1 /\ Rank(g, j) = Rank(g, j - 1) + 1
  BY <1>1, RankTurn
<1>5. i < j => Rank(g, i) <= Rank(g, j - 1)
  <2>1. i < j => i <= j - 1  BY <1>2
  <2> QED BY <1>2, <2>1, RankTurn
<1>6. j <= i => Rank(g, j) <= Rank(g, i)
  BY <1>2, RankTurn
<1> QED BY <1>2, <1>3, <1>4, <1>5, <1>6

LEMMA ListsNext ==
    ASSUME works \in Seq(AWork), NEW g, NEW n \in DOMAIN works, NEW seq,
           Lists(seq, g, n - 1), n \in Members(g), NEW w \in AWork, Holds(w, n)
    PROVE  Lists(Append(seq, w), g, n)
<1> DEFINE new == Append(seq, w)
<1>1. n \in Nat /\ n - 1 \in Nat /\ Rank(g, n) = Rank(g, n - 1) + 1 /\ Rank(g, n - 1) \in Nat
  <2>1. n \in Nat /\ n - 1 \in Nat  OBVIOUS
  <2>2. Rank(g, n) = Rank(g, n - 1) + 1  BY RankTurn
  <2>3. Rank(g, n - 1) \in Nat  BY <2>1, RankTurn
  <2> QED BY <2>1, <2>2, <2>3
<1>2. seq \in Seq(AWork) /\ Len(seq) = Rank(g, n - 1)
  BY DEF Lists
<1>3. /\ new \in Seq(AWork) /\ Len(new) = Rank(g, n) /\ new[Rank(g, n)] = w
      /\ \A k \in 1..Len(seq) : new[k] = seq[k]
  BY <1>1, <1>2
<1>4. Len(new) = Len(seq) + 1 /\ Len(seq) \in Nat /\ Rank(g, n) = Len(new)
  BY <1>1, <1>2, <1>3
<1> HIDE DEF new
<1>5. ASSUME NEW i \in Members(g), i <= n
      PROVE  Rank(g, i) \in 1..Len(new) /\ Holds(new[Rank(g, i)], i)
  <2>1. CASE i = n
    <3>1. Rank(g, i) \in 1..Len(new)  BY <1>4, <2>1
    <3>2. new[Rank(g, i)] = w  BY <1>3, <2>1
    <3> QED BY <2>1, <3>1, <3>2
  <2>2. CASE i # n
    <3>1. i \in DOMAIN works  BY DEF Members
    <3>2. i <= n - 1  BY <1>1, <1>5, <2>2, <3>1
    <3>3. Rank(g, i) \in 1..Len(seq) /\ Holds(seq[Rank(g, i)], i)  BY <3>2 DEF Lists
    <3>4. new[Rank(g, i)] = seq[Rank(g, i)]  BY <1>3, <3>3
    <3> QED BY <1>4, <3>3, <3>4
  <2> QED BY <2>1, <2>2
<1>6. ASSUME NEW k \in 1..Len(new) PROVE \E i \in Members(g) : i <= n /\ Rank(g, i) = k
  <2>1. CASE k = Len(new)  BY <1>1, <1>4, <2>1
  <2>2. CASE k # Len(new)
    <3>1. k \in 1..Len(seq)  BY <1>4, <2>2
    <3>2. PICK i \in Members(g) : i <= n - 1 /\ Rank(g, i) = k  BY <3>1 DEF Lists
    <3>3. i \in DOMAIN works  BY DEF Members
    <3>4. i <= n  BY <1>1, <3>2, <3>3
    <3> QED BY <3>2, <3>4
  <2> QED BY <2>1, <2>2
<1>7. Lists(new, g, n)
  BY <1>3, <1>5, <1>6 DEF Lists
<1> QED BY <1>7 DEF new

\* A sequence stays the members of its segment while none is among the works.
LEMMA ListsStill ==
    ASSUME works \in Seq(AWork), NEW g, NEW m \in Nat, NEW n \in Nat, m <= n, NEW seq,
           Lists(seq, g, m), \A i \in Members(g) : i <= n => i <= m
    PROVE  Lists(seq, g, n)
<1>1. \A i \in Members(g) : i <= n <=> i <= m
  <2>1. \A i \in Members(g) : i \in Nat  BY DEF Members
  <2> QED BY <2>1
<1>2. Rank(g, n) = Rank(g, m)
  <2>1. {j \in Members(g) : j <= n} = {j \in Members(g) : j <= m}  BY <1>1
  <2> QED BY <2>1 DEF Rank
<1> QED BY <1>1, <1>2 DEF Lists

-----------------------------------------------------------------------------
(* What the linkers find in a segment, said of the works themselves.       *)

LEMMA SpawnerIs ==
    ASSUME NEW seg \in Nat
    PROVE  /\ Spawner(seg) \in AWork
           /\ Spawner(seg).op = "THREAD" /\ Spawner(seg).at = <<seg, 0>>
<1> DEFINE none == <<>>
           place == <<seg, 0>>
           thread == "THREAD"
           w == Spawner(seg)
<1>1. none \in Seq(Argument)
  OBVIOUS
<1>2. w = [op |-> thread, name |-> thread, args |-> none, at |-> place]
  BY DEF Spawner
<1>3. place \in Nat \X Nat
  OBVIOUS
<1>4. thread \in Strings
  BY DEF Strings
<1> HIDE DEF none, w, place, thread
<1>5. w.op = thread /\ w.at = place /\ w \in AWork
  BY <1>1, <1>2, <1>3, <1>4 DEF AWork
<1> QED BY <1>5 DEF w, place, thread

\* The members of a segment that are not the ends of blocks.
LEMMA MembersAre ==
    ASSUME NEW g, NEW i \in DOMAIN works
    PROVE  /\ works[i].op \notin Delimiters => (i \in Members(g) <=> SegOf(i) = g)
           /\ works[i].op = "THREAD_BEGIN" => i \notin Members(g)
           /\ works[i].op = "THREAD_END" => (i \in Members(g) <=> g = 1)
BY DEF Members, Delimiters

LEMMA ListedAt ==
    ASSUME works \in Seq(AWork), NEW g, NEW seq, Lists(seq, g, Len(works))
    PROVE  /\ \A i \in Members(g) :
                /\ Rank(g, i) \in DOMAIN seq
                /\ works[i].op # "THREAD_END" => seq[Rank(g, i)] = works[i] /\ SegOf(i) = g
                /\ works[i].op = "THREAD_END" => seq[Rank(g, i)].op = "THREAD"
           /\ \A k \in DOMAIN seq : \E i \in Members(g) : Rank(g, i) = k
<1>1. seq \in Seq(AWork) /\ DOMAIN seq = 1..Len(seq)
  BY DEF Lists
<1>2. ASSUME NEW i \in Members(g)
      PROVE  /\ Rank(g, i) \in DOMAIN seq
             /\ works[i].op # "THREAD_END" => seq[Rank(g, i)] = works[i] /\ SegOf(i) = g
             /\ works[i].op = "THREAD_END" => seq[Rank(g, i)].op = "THREAD"
  <2>1. i \in DOMAIN works /\ i <= Len(works)
    BY DEF Members
  <2>2. Rank(g, i) \in 1..Len(seq) /\ Holds(seq[Rank(g, i)], i)
    BY <2>1 DEF Lists
  <2>3. ASSUME works[i].op # "THREAD_END"
        PROVE  seq[Rank(g, i)] = works[i] /\ SegOf(i) = g
    BY <2>2, <2>3 DEF Holds, Members
  <2>4. ASSUME works[i].op = "THREAD_END" PROVE seq[Rank(g, i)].op = "THREAD"
    <3>1. SpawnAt(i) \in Nat
      <4>1. i \in Nat  BY <2>1
      <4>2. CountBefore("THREAD_END", i) \in Nat  BY <4>1, CountTurn
      <4> QED BY <4>2 DEF SpawnAt
    <3>2. seq[Rank(g, i)] = Spawner(SpawnAt(i))  BY <2>2, <2>4 DEF Holds
    <3> QED BY <3>1, <3>2, SpawnerIs, Zenon
  <2> QED BY <1>1, <2>2, <2>3, <2>4
<1>3. \A k \in DOMAIN seq : \E i \in Members(g) : Rank(g, i) = k
  BY <1>1 DEF Lists
<1> QED BY <1>2, <1>3

\* What a segment is refused for, and what the whole source is.
UnlockKnown(i) == \E j \in Positions("LOCK") : j < i /\ SameScope(i, j)
JumpKnown(i) == \E j \in Positions("LABEL") : SameScope(i, j)

LEMMA ScopeOfUnlocks ==
    ASSUME works \in Seq(AWork), NEW g, NEW seq, Lists(seq, g, Len(works))
    PROVE  UnlocksKnown(seq) <=> \A i \in Positions("UNLOCK") : SegOf(i) = g => UnlockKnown(i)
<1>1. DOMAIN seq = 1..Len(seq) /\ Len(seq) \in Nat
  <2>1. seq \in Seq(AWork)  BY DEF Lists
  <2> QED BY <2>1
<1>2. ASSUME UnlocksKnown(seq), NEW i \in Positions("UNLOCK"), SegOf(i) = g
      PROVE  UnlockKnown(i)
  <2>1. i \in DOMAIN works /\ works[i].op = "UNLOCK"  BY DEF Positions
  <2>2. i \in Members(g)  BY <1>2, <2>1, MembersAre DEF Delimiters
  <2> DEFINE k == Rank(g, i)
  <2>3. k \in DOMAIN seq /\ seq[k] = works[i]  BY <2>1, <2>2, ListedAt
  <2> HIDE DEF k
  <2>4. Unlockable(seq, k)  BY <1>2, <2>1, <2>3 DEF UnlocksKnown
  <2>5. PICK m \in 1..(k - 1) : LockAt(seq, m, works[i].name)  BY <2>3, <2>4 DEF Unlockable
  <2>6. m \in DOMAIN seq /\ m < k  BY <1>1, <2>3
  <2>7. PICK j \in Members(g) : Rank(g, j) = m  BY <2>6, ListedAt
  <2>8. seq[m] = works[j] /\ SegOf(j) = g
    <3>1. seq[m].op = "LOCK"  BY <2>5 DEF LockAt
    <3> QED BY <2>7, <3>1, ListedAt
  <2>9. j < i  BY <2>2, <2>6, <2>7, RankIncreases DEF k
  <2>10. j \in Positions("LOCK") /\ works[j].name = works[i].name
    BY <2>5, <2>8 DEF LockAt, Positions, Members
  <2> QED BY <1>2, <2>8, <2>9, <2>10 DEF UnlockKnown, SameScope
<1>3. ASSUME \A i \in Positions("UNLOCK") : SegOf(i) = g => UnlockKnown(i),
             NEW k \in DOMAIN seq, seq[k].op = "UNLOCK"
      PROVE  Unlockable(seq, k)
  <2>1. PICK i \in Members(g) : Rank(g, i) = k  BY ListedAt
  <2>2. seq[k] = works[i] /\ SegOf(i) = g
    <3>1. seq[k].op # "THREAD"  BY <1>3
    <3> QED BY <2>1, <3>1, ListedAt
  <2>3. i \in Positions("UNLOCK")  BY <1>3, <2>2 DEF Positions, Members
  <2>4. PICK j \in Positions("LOCK") : j < i /\ SameScope(i, j)  BY <1>3, <2>2, <2>3 DEF UnlockKnown
  <2>5. j \in DOMAIN works /\ works[j].op = "LOCK" /\ SegOf(j) = g /\ works[j].name = works[i].name
    BY <2>2, <2>4 DEF Positions, SameScope
  <2>6. j \in Members(g)  BY <2>5, MembersAre DEF Delimiters
  <2> DEFINE m == Rank(g, j)
  <2>7. m \in DOMAIN seq /\ seq[m] = works[j]  BY <2>5, <2>6, ListedAt
  <2>8. m < k  BY <2>1, <2>4, <2>6, RankIncreases
  <2> HIDE DEF m
  <2>9. m \in 1..(k - 1)  BY <1>1, <2>7, <2>8
  <2> QED BY <2>2, <2>5, <2>7, <2>9 DEF Unlockable, LockAt
<1> QED BY <1>2, <1>3 DEF UnlocksKnown

LEMMA ScopeOfJumps ==
    ASSUME works \in Seq(AWork), NEW g, NEW seq, Lists(seq, g, Len(works))
    PROVE  JumpsKnown(seq) <=>
             \A i \in DOMAIN works : works[i].op \in Jumps /\ SegOf(i) = g => JumpKnown(i)
<1>1. "THREAD" \notin Jumps /\ \A x \in Jumps : x \notin Delimiters
  BY DEF Jumps, Delimiters
<1>2. ASSUME JumpsKnown(seq), NEW i \in DOMAIN works, works[i].op \in Jumps, SegOf(i) = g
      PROVE  JumpKnown(i)
  <2>1. i \in Members(g) /\ works[i].op # "THREAD_END"
    BY <1>1, <1>2, MembersAre DEF Delimiters
  <2> DEFINE k == Rank(g, i)
  <2>2. k \in DOMAIN seq /\ seq[k] = works[i]  BY <2>1, ListedAt
  <2> HIDE DEF k
  <2>3. PICK m \in DOMAIN seq : LabelAt(seq, m, works[i].name)
    BY <1>2, <2>2 DEF JumpsKnown
  <2>4. PICK j \in Members(g) : Rank(g, j) = m  BY ListedAt
  <2>5. seq[m] = works[j] /\ SegOf(j) = g
    <3>1. seq[m].op = "LABEL"  BY <2>3 DEF LabelAt
    <3> QED BY <2>4, <3>1, ListedAt
  <2>6. j \in Positions("LABEL") /\ works[j].name = works[i].name
    BY <2>3, <2>5 DEF LabelAt, Positions, Members
  <2> QED BY <1>2, <2>5, <2>6 DEF JumpKnown, SameScope
<1>3. ASSUME \A i \in DOMAIN works : works[i].op \in Jumps /\ SegOf(i) = g => JumpKnown(i),
             NEW k \in DOMAIN seq, seq[k].op \in Jumps
      PROVE  \E m \in DOMAIN seq : LabelAt(seq, m, seq[k].name)
  <2>1. PICK i \in Members(g) : Rank(g, i) = k  BY ListedAt
  <2>2. seq[k] = works[i] /\ SegOf(i) = g
    <3>1. seq[k].op # "THREAD"  BY <1>1, <1>3
    <3> QED BY <2>1, <3>1, ListedAt
  <2>3. i \in DOMAIN works  BY DEF Members
  <2>4. PICK j \in Positions("LABEL") : SameScope(i, j)  BY <1>3, <2>2, <2>3 DEF JumpKnown
  <2>5. j \in DOMAIN works /\ works[j].op = "LABEL" /\ SegOf(j) = g /\ works[j].name = works[i].name
    BY <2>2, <2>4 DEF Positions, SameScope
  <2>6. j \in Members(g)  BY <2>5, MembersAre DEF Delimiters
  <2>7. Rank(g, j) \in DOMAIN seq /\ seq[Rank(g, j)] = works[j]  BY <2>5, <2>6, ListedAt
  <2> QED BY <2>2, <2>5, <2>7 DEF LabelAt
<1> QED BY <1>2, <1>3 DEF JumpsKnown

\* A segment that is not refused and one that is, for a block that is closed.
IsSegment(done, g) ==
    \E raw : /\ Lists(raw, g, Len(works)) /\ KeptBut(LockOps \cup Jumps, done, raw)
            /\ UnlocksKnown(raw) /\ JumpsKnown(raw)
            /\ MutexPerName(done, raw, g) /\ JumpsResolved(done, raw, g)
Refused == MisNested \/ UnlocksUnknown \/ JumpsNowhere

LEMMA LinkedSegment ==
    ASSUME works \in Seq(AWork), NEW g \in Nat, NEW raw, Lists(raw, g, Len(works)), Closed(g),
           NEW linked, SegmentLinked(linked, raw, g)
    PROVE  IF linked.err = NoError THEN IsSegment(linked.works, g) ELSE Refused
<1>1. CASE linked.err = NoError
  BY <1>1, Zenon DEF IsSegment, SegmentLinked
<1>2. CASE linked.err # NoError
  <2>1. ~UnlocksKnown(raw) \/ ~JumpsKnown(raw)
    BY <1>2, Zenon DEF SegmentLinked
  <2>2. CASE ~UnlocksKnown(raw)
    <3>1. PICK i \in Positions("UNLOCK") : SegOf(i) = g /\ ~UnlockKnown(i)
      BY <2>2, ScopeOfUnlocks
    <3> QED BY <1>2, <3>1, Zenon DEF Refused, UnlocksUnknown, UnlockKnown
  <2>3. CASE ~JumpsKnown(raw)
    <3>1. PICK i \in DOMAIN works : works[i].op \in Jumps /\ SegOf(i) = g /\ ~JumpKnown(i)
      BY <2>3, ScopeOfJumps
    <3> QED BY <1>2, <3>1, Zenon DEF Refused, JumpsNowhere, JumpKnown
  <2> QED BY <1>2, <2>1, <2>2, <2>3
<1> QED BY <1>1, <1>2

-----------------------------------------------------------------------------
(* The thread linker, turn by turn.                                        *)

Errs == {NoError, "nolock", "nolabel", "nested", "unpaired"}
ThreadAcc == [in : BOOLEAN, rebuild : Seq(AWork), buffer : Seq(AWork),
              blocks : Seq(Seq(AWork)), err : Errs]

Failed(new, acc) == new \in ThreadAcc /\ new.err # NoError
Begun(new, acc) ==
    /\ new \in ThreadAcc /\ new.err = NoError /\ new.in = TRUE
    /\ new.rebuild = acc.rebuild /\ new.buffer = acc.buffer /\ new.blocks = acc.blocks
Ended(new, acc) ==
    /\ new \in ThreadAcc /\ new.in = FALSE /\ Len(new.buffer) = 0
    /\ new.rebuild = Append(acc.rebuild, Spawner(Len(acc.blocks) + 2))
    /\ \E linked : /\ SegmentLinked(linked, acc.buffer, Len(acc.blocks) + 2)
                   /\ new.blocks = Append(acc.blocks, linked.works) /\ new.err = linked.err
Buffered(new, acc, w) ==
    /\ new \in ThreadAcc /\ new.err = NoError /\ new.in = TRUE
    /\ new.rebuild = acc.rebuild /\ new.buffer = Append(acc.buffer, w) /\ new.blocks = acc.blocks
Rebuilt(new, acc, w) ==
    /\ new \in ThreadAcc /\ new.err = NoError /\ new.in = FALSE
    /\ new.rebuild = Append(acc.rebuild, w) /\ new.buffer = acc.buffer /\ new.blocks = acc.blocks

Turned(new, acc, w) ==
    CASE acc.err # NoError -> new = acc
      [] acc.err = NoError /\ w.op = "THREAD_BEGIN" ->
           IF acc.in THEN Failed(new, acc) ELSE Begun(new, acc)
      [] acc.err = NoError /\ w.op = "THREAD_END" ->
           IF acc.in THEN Ended(new, acc) ELSE Failed(new, acc)
      [] OTHER -> IF acc.in THEN Buffered(new, acc, w) ELSE Rebuilt(new, acc, w)

LEMMA ThreadFields ==
    ASSUME NEW acc \in ThreadAcc
    PROVE  /\ acc = [in |-> acc.in, rebuild |-> acc.rebuild, buffer |-> acc.buffer,
                     blocks |-> acc.blocks, err |-> acc.err]
           /\ acc.in \in BOOLEAN /\ acc.rebuild \in Seq(AWork) /\ acc.buffer \in Seq(AWork)
           /\ acc.blocks \in Seq(Seq(AWork)) /\ acc.err \in Errs
BY DEF ThreadAcc

LEMMA ThreadFailed ==
    ASSUME NEW acc \in ThreadAcc, NEW err \in Errs, err # NoError
    PROVE  Failed(Fail(acc, err), acc)
<1> DEFINE new == Fail(acc, err)
<1>1. new = [in |-> acc.in, rebuild |-> acc.rebuild, buffer |-> acc.buffer,
             blocks |-> acc.blocks, err |-> err]
  BY ThreadFields DEF Fail
<1> HIDE DEF new
<1>2. new.err = err
  BY <1>1
<1>3. new \in ThreadAcc
  BY <1>1, ThreadFields DEF ThreadAcc
<1>4. Failed(new, acc)
  BY <1>2, <1>3 DEF Failed
<1> QED BY <1>4 DEF new

LEMMA ThreadEnded ==
    ASSUME NEW acc \in ThreadAcc
    PROVE  Ended(CloseBlock(acc), acc)
<1> DEFINE seg == Len(acc.blocks) + 2
           linked == LinkSegment(acc.buffer, seg)
           spawner == Spawner(seg)
           none == <<>>
           new == CloseBlock(acc)
<1>1. seg \in Nat /\ acc.buffer \in Seq(AWork) /\ acc.rebuild \in Seq(AWork)
      /\ acc.blocks \in Seq(Seq(AWork))
  BY ThreadFields
<1>2. new = [in |-> FALSE, rebuild |-> Append(acc.rebuild, spawner), buffer |-> none,
             blocks |-> Append(acc.blocks, linked.works), err |-> linked.err]
  <2>1. new = [acc EXCEPT !.in = FALSE, !.rebuild = Append(acc.rebuild, spawner), !.buffer = none,
                          !.blocks = Append(acc.blocks, linked.works), !.err = linked.err]
    BY Zenon DEF CloseBlock
  <2>2. acc = [in |-> acc.in, rebuild |-> acc.rebuild, buffer |-> acc.buffer,
               blocks |-> acc.blocks, err |-> acc.err]
    BY ThreadFields
  <2> HIDE DEF linked, spawner, none, new
  <2> QED BY <2>1, <2>2
<1> HIDE DEF seg
<1>3. spawner \in AWork
  BY <1>1, SpawnerIs
<1>4. SegmentLinked(linked, acc.buffer, seg)
  BY <1>1, LinkSegmentIs
<1>5. none \in Seq(AWork) /\ Len(none) = 0
  OBVIOUS
<1> HIDE DEF linked, spawner, none, new
<1>6. linked.works \in Seq(AWork) /\ linked.err \in {NoError, "nolock", "nolabel"}
  BY <1>4, Zenon DEF SegmentLinked, KeptBut
<1>7. /\ new.in = FALSE /\ new.rebuild = Append(acc.rebuild, spawner) /\ new.buffer = none
      /\ new.blocks = Append(acc.blocks, linked.works) /\ new.err = linked.err
  BY <1>2
<1>8. new \in ThreadAcc
  <2> DEFINE rebuild == Append(acc.rebuild, spawner)
             blocks == Append(acc.blocks, linked.works)
             err == linked.err
  <2>1. rebuild \in Seq(AWork) /\ blocks \in Seq(Seq(AWork))
    <3>1. rebuild \in Seq(AWork)  BY <1>1, <1>3
    <3>2. linked.works \in Seq(AWork) /\ acc.blocks \in Seq(Seq(AWork))  BY <1>1, <1>6
    <3> DEFINE S == Seq(AWork)
    <3> HIDE DEF S
    <3>3. blocks \in Seq(S)  BY <3>2 DEF S
    <3> QED BY <3>1, <3>3 DEF S
  <2>2. err \in Errs  BY <1>6 DEF Errs
  <2> HIDE DEF rebuild, blocks, err
  <2>3. new = [in |-> FALSE, rebuild |-> rebuild, buffer |-> none, blocks |-> blocks, err |-> err]
    BY <1>2 DEF rebuild, blocks, err
  <2> QED BY <1>5, <2>1, <2>2, <2>3 DEF ThreadAcc
<1>9. Ended(new, acc)
  BY <1>4, <1>5, <1>7, <1>8, Zenon DEF Ended, seg, spawner
<1> QED BY <1>9 DEF new

LEMMA ThreadTurn ==
    ASSUME NEW acc \in ThreadAcc, NEW w \in AWork
    PROVE  VisitWork(acc, w) \in ThreadAcc /\ Turned(VisitWork(acc, w), acc, w)
<1> DEFINE new == VisitWork(acc, w)
<1>0. acc = [in |-> acc.in, rebuild |-> acc.rebuild, buffer |-> acc.buffer,
             blocks |-> acc.blocks, err |-> acc.err]
  BY ThreadFields
<1>1. CASE acc.err # NoError
  <2>1. new = acc  BY <1>1, Zenon DEF VisitWork
  <2> QED BY <1>1, <2>1, Zenon DEF Turned
<1>2. CASE acc.err = NoError /\ w.op = "THREAD_BEGIN"
  <2>1. CASE acc.in
    <3>1. new = Fail(acc, "nested")  BY <1>2, <2>1, Zenon DEF VisitWork
    <3>2. Failed(new, acc)
      <4>1. "nested" \in Errs /\ "nested" # NoError  BY Errors DEF Errs
      <4> QED BY <3>1, <4>1, ThreadFailed, Zenon
    <3> HIDE DEF new
    <3>3. new \in ThreadAcc /\ Turned(new, acc, w)
      BY <1>2, <2>1, <3>2, Zenon DEF Turned, Failed
    <3> QED BY <3>3 DEF new
  <2>2. CASE ~acc.in
    <3>1. new = [acc EXCEPT !.in = TRUE]
      BY <1>2, <2>2, Zenon DEF VisitWork
    <3> HIDE DEF new
    <3>2. new = [in |-> TRUE, rebuild |-> acc.rebuild, buffer |-> acc.buffer,
                 blocks |-> acc.blocks, err |-> acc.err]
      BY <1>0, <3>1
    <3>3. new \in ThreadAcc  BY <3>2, ThreadFields DEF ThreadAcc
    <3>4. Begun(new, acc)  BY <1>2, <3>2, <3>3 DEF Begun
    <3>5. new \in ThreadAcc /\ Turned(new, acc, w)
      BY <1>2, <2>2, <3>3, <3>4, Zenon DEF Turned
    <3> QED BY <3>5 DEF new
  <2> QED BY <2>1, <2>2
<1>3. CASE acc.err = NoError /\ w.op = "THREAD_END"
  <2>0. w.op # "THREAD_BEGIN"  BY <1>3
  <2>1. CASE acc.in
    <3>1. new = CloseBlock(acc)  BY <1>3, <2>0, <2>1, Zenon DEF VisitWork
    <3>2. Ended(new, acc)  BY <3>1, ThreadEnded, Zenon
    <3> HIDE DEF new
    <3>3. new \in ThreadAcc /\ Turned(new, acc, w)
      BY <1>3, <2>0, <2>1, <3>2, Zenon DEF Turned, Ended
    <3> QED BY <3>3 DEF new
  <2>2. CASE ~acc.in
    <3>1. new = Fail(acc, "unpaired")  BY <1>3, <2>0, <2>2, Zenon DEF VisitWork
    <3>2. Failed(new, acc)
      <4>1. "unpaired" \in Errs /\ "unpaired" # NoError  BY Errors DEF Errs
      <4> QED BY <3>1, <4>1, ThreadFailed, Zenon
    <3> HIDE DEF new
    <3>3. new \in ThreadAcc /\ Turned(new, acc, w)
      BY <1>3, <2>0, <2>2, <3>2, Zenon DEF Turned, Failed
    <3> QED BY <3>3 DEF new
  <2> QED BY <2>1, <2>2
<1>4. CASE acc.err = NoError /\ w.op \notin Delimiters
  <2>0. w.op # "THREAD_BEGIN" /\ w.op # "THREAD_END"  BY <1>4 DEF Delimiters
  <2>1. CASE acc.in
    <3>1. new = [acc EXCEPT !.buffer = Append(acc.buffer, w)]
      BY <1>4, <2>0, <2>1, Zenon DEF VisitWork
    <3> DEFINE buffer == Append(acc.buffer, w)
    <3>2. buffer \in Seq(AWork)  BY ThreadFields
    <3> HIDE DEF new, buffer
    <3>3. new = [in |-> acc.in, rebuild |-> acc.rebuild, buffer |-> buffer,
                 blocks |-> acc.blocks, err |-> acc.err]
      BY <1>0, <3>1 DEF buffer
    <3>4. new \in ThreadAcc  BY <3>2, <3>3, ThreadFields DEF ThreadAcc
    <3>5. /\ new.rebuild = acc.rebuild /\ new.buffer = buffer /\ new.blocks = acc.blocks
          /\ new.err = acc.err
      BY <3>3
    <3>6. new.in = TRUE
      <4>1. acc.in = TRUE  BY <2>1, ThreadFields
      <4>2. new.in = acc.in  BY <3>3
      <4> QED BY <4>1, <4>2
    <3>7. Buffered(new, acc, w)  BY <1>4, <3>4, <3>5, <3>6, Zenon DEF Buffered, buffer
    <3>8. new \in ThreadAcc /\ Turned(new, acc, w)
      BY <1>4, <2>0, <2>1, <3>4, <3>7, Zenon DEF Turned
    <3> QED BY <3>8 DEF new
  <2>2. CASE ~acc.in
    <3>1. new = [acc EXCEPT !.rebuild = Append(acc.rebuild, w)]
      BY <1>4, <2>0, <2>2, Zenon DEF VisitWork
    <3> DEFINE rebuild == Append(acc.rebuild, w)
    <3>2. rebuild \in Seq(AWork)  BY ThreadFields
    <3> HIDE DEF new, rebuild
    <3>3. new = [in |-> acc.in, rebuild |-> rebuild, buffer |-> acc.buffer,
                 blocks |-> acc.blocks, err |-> acc.err]
      BY <1>0, <3>1 DEF rebuild
    <3>4. new \in ThreadAcc  BY <3>2, <3>3, ThreadFields DEF ThreadAcc
    <3>5. /\ new.rebuild = rebuild /\ new.buffer = acc.buffer /\ new.blocks = acc.blocks
          /\ new.err = acc.err
      BY <3>3
    <3>6. new.in = FALSE
      <4>1. acc.in = FALSE  BY <2>2, ThreadFields
      <4>2. new.in = acc.in  BY <3>3
      <4> QED BY <4>1, <4>2
    <3>7. Rebuilt(new, acc, w)  BY <1>4, <3>4, <3>5, <3>6, Zenon DEF Rebuilt, rebuild
    <3>8. new \in ThreadAcc /\ Turned(new, acc, w)
      BY <1>4, <2>0, <2>2, <3>4, <3>7, Zenon DEF Turned
    <3> QED BY <3>8 DEF new
  <2> QED BY <2>1, <2>2
<1> QED
  <2>1. w.op \in Delimiters => w.op = "THREAD_BEGIN" \/ w.op = "THREAD_END"  BY DEF Delimiters
  <2> HIDE DEF new
  <2> QED BY <1>1, <1>2, <1>3, <1>4, <2>1, Zenon

ThreadsInit == [in |-> FALSE, rebuild |-> <<>>, buffer |-> <<>>, blocks |-> <<>>, err |-> NoError]
ThreadTurns(after, body) ==
    /\ after[0] = ThreadsInit
    /\ \A n \in 1..Len(body) : after[n] = VisitWork(after[n - 1], body[n])

LEMMA ThreadsInitIs ==
    /\ ThreadsInit \in ThreadAcc /\ ThreadsInit.in = FALSE /\ ThreadsInit.err = NoError
    /\ Len(ThreadsInit.rebuild) = 0 /\ Len(ThreadsInit.buffer) = 0 /\ Len(ThreadsInit.blocks) = 0
<1> DEFINE none == <<>>
           init == ThreadsInit
<1>1. none \in Seq(AWork) /\ none \in Seq(Seq(AWork)) /\ Len(none) = 0
  OBVIOUS
<1>2. init = [in |-> FALSE, rebuild |-> none, buffer |-> none, blocks |-> none, err |-> NoError]
  BY DEF ThreadsInit
<1> HIDE DEF none, init
<1>3. NoError \in Errs
  BY DEF Errs
<1>4. init \in ThreadAcc
  BY <1>1, <1>2, <1>3 DEF ThreadAcc
<1>5. /\ init.in = FALSE /\ init.err = NoError /\ init.rebuild = none /\ init.buffer = none
      /\ init.blocks = none
  BY <1>2
<1> QED BY <1>1, <1>4, <1>5 DEF init

LEMMA ThreadLoop ==
    ASSUME NEW body \in Seq(AWork)
    PROVE  \E after \in [0..Len(body) -> ThreadAcc] :
             ThreadTurns(after, body) /\ LinkThreads(body) = after[Len(body)]
<1> DEFINE N == Len(body)
           S == ThreadAcc
           init == ThreadsInit
           step == [n \in 1..N |-> [acc \in S |-> VisitWork(acc, body[n])]]
           Is(f) == f = [n \in 0..N |-> IF n = 0 THEN init ELSE VisitWork(f[n - 1], body[n])]
           h == CHOOSE g : Is(g)
<1>1. N \in Nat /\ \A n \in 1..N : body[n] \in AWork
  OBVIOUS
<1> HIDE DEF N
<1>2. step \in [1..N -> [S -> S]]
  <2>1. ASSUME NEW n \in 1..N, NEW acc \in S PROVE VisitWork(acc, body[n]) \in S
    BY <1>1, ThreadTurn, Zenon
  <2> HIDE DEF S
  <2> QED BY <2>1
<1>3. init \in S
  BY ThreadsInitIs
<1>4. LinkThreads(body) = h[N]
  BY DEF LinkThreads, ThreadsInit, N
<1> HIDE DEF init, S
<1>5. PICK f : Loops(f, N, S, init, step)
  <2> HIDE DEF step
  <2> QED BY <1>1, <1>2, <1>3, Loop
<1>6. Is(f)
  <2> USE DEF Loops
  <2>1. ASSUME NEW n \in 1..N PROVE f[n] = VisitWork(f[n - 1], body[n])
    <3>1. n - 1 \in 0..N  BY <1>1
    <3>2. f[n - 1] \in S  BY <1>5, <3>1
    <3> QED BY <1>5, <3>2
  <2>2. \A n \in 0..N : f[n] = IF n = 0 THEN init ELSE VisitWork(f[n - 1], body[n])
    <3>1. \A n \in 0..N : n # 0 => n \in 1..N  BY <1>1
    <3> QED BY <1>5, <2>1, <3>1
  <2>3. f = [n \in 0..N |-> f[n]]  BY <1>5
  <2> HIDE DEF step
  <2> QED BY <2>2, <2>3
<1>7. Is(h)
  <2> HIDE DEF Is
  <2> QED BY <1>6
<1> HIDE DEF h
<1>8. h[0] = init /\ \A n \in 1..N : h[n] = VisitWork(h[n - 1], body[n])
  <2>1. \A n \in 0..N : h[n] = IF n = 0 THEN init ELSE VisitWork(h[n - 1], body[n])
    BY <1>7
  <2>2. 0 \in 0..N /\ \A n \in 1..N : n \in 0..N /\ n # 0  BY <1>1
  <2> QED BY <2>1, <2>2
<1>9. h \in [0..N -> S]
  <2>1. \A n \in 1..N : h[n - 1] \in S => h[n] = step[n][h[n - 1]]
    BY <1>8
  <2>2. h = [n \in 0..N |-> h[n]]
    BY <1>7
  <2>3. GoesOn(h, N, S, init, step)
    BY <1>8, <2>1, <2>2 DEF GoesOn
  <2> HIDE DEF step
  <2> QED BY <1>1, <1>2, <1>3, <2>3, LoopStays
<1>10. ThreadTurns(h, body)
  BY <1>8 DEF ThreadTurns, N, init
<1> QED BY <1>4, <1>9, <1>10 DEF N, S

-----------------------------------------------------------------------------
(* What is linked after n works.                                           *)

PairedUpTo(n) ==
    \A i \in 1..n : /\ works[i].op = "THREAD_BEGIN" => ~Inside(i)
                    /\ works[i].op = "THREAD_END" => Inside(i)

ThreadState(acc, n) ==
    /\ CountBefore("THREAD_BEGIN", n + 1) =
         CountBefore("THREAD_END", n + 1) + (IF acc.in THEN 1 ELSE 0)
    /\ Len(acc.blocks) = CountBefore("THREAD_END", n + 1)
    /\ PairedUpTo(n)
    /\ Lists(acc.rebuild, 1, n) /\ Lists(acc.buffer, Len(acc.blocks) + 2, n)
    /\ \A b \in DOMAIN acc.blocks : IsSegment(acc.blocks[b], b + 1)

ThreadInv(acc, n) ==
    /\ acc \in ThreadAcc
    /\ acc.err = NoError => ThreadState(acc, n)
    /\ acc.err # NoError => Refused

\* No work is yet in a block that has not begun, nor any more in one that ended.
LEMMA NotBegun ==
    ASSUME works \in Seq(AWork), NEW n \in Nat, NEW g \in Nat,
           g > CountBefore("THREAD_BEGIN", n + 1) + 1
    PROVE  \A i \in Members(g) : ~(i <= n)
<1> SUFFICES ASSUME NEW i \in Members(g), i <= n PROVE FALSE
  OBVIOUS
<1>1. i \in DOMAIN works /\ i \in Nat /\ i <= n + 1 /\ n + 1 \in Nat
  BY DEF Members
<1>2. CountBefore("THREAD_BEGIN", i) <= CountBefore("THREAD_BEGIN", n + 1)
  BY <1>1, CountTurn
<1>3. CountBefore("THREAD_BEGIN", i) \in Nat /\ CountBefore("THREAD_BEGIN", n + 1) \in Nat
  BY <1>1, CountTurn
<1>4. SegOf(i) = g \/ g = 1
  BY DEF Members
<1> QED BY <1>2, <1>3, <1>4 DEF SegOf

LEMMA AllEnded ==
    ASSUME works \in Seq(AWork), NEW n \in Nat, NEW g \in Nat,
           g >= 2, g <= CountBefore("THREAD_END", n + 1) + 1
    PROVE  \A i \in Members(g) : i <= n
<1> SUFFICES ASSUME NEW i \in Members(g), ~(i <= n) PROVE FALSE
  OBVIOUS
<1>1. i \in DOMAIN works /\ i \in Nat /\ n + 1 <= i /\ n + 1 \in Nat
  BY DEF Members
<1>2. CountBefore("THREAD_END", n + 1) <= CountBefore("THREAD_END", i)
  BY <1>1, CountTurn
<1>3. /\ CountBefore("THREAD_END", i) \in Nat /\ CountBefore("THREAD_END", n + 1) \in Nat
      /\ CountBefore("THREAD_BEGIN", i) \in Nat
  BY <1>1, CountTurn
<1>4. SegOf(i) = g
  BY DEF Members
<1> QED BY <1>2, <1>3, <1>4 DEF SegOf, Inside

LEMMA ThreadKeepsEnd ==
    ASSUME works \in Seq(AWork), NEW n \in DOMAIN works, works[n].op = "THREAD_END",
           NEW acc \in ThreadAcc, acc.in, ThreadState(acc, n - 1), NEW new, Ended(new, acc)
    PROVE  ThreadInv(new, n)
<1> DEFINE E == CountBefore("THREAD_END", n)
           g == Len(acc.blocks) + 2
           N == Len(works)
<1>0. N \in Nat /\ n \in Nat /\ (n - 1) + 1 = n /\ n - 1 \in Nat /\ n <= N /\ n >= 1
      /\ DOMAIN works = 1..N
  OBVIOUS
<1>1. /\ CountBefore("THREAD_BEGIN", n) = E + 1 /\ Len(acc.blocks) = E
      /\ PairedUpTo(n - 1) /\ Lists(acc.rebuild, 1, n - 1) /\ Lists(acc.buffer, g, n - 1)
      /\ \A b \in DOMAIN acc.blocks : IsSegment(acc.blocks[b], b + 1)
  BY <1>0 DEF ThreadState
<1>2. E \in Nat /\ CountBefore("THREAD_END", n + 1) = E + 1
  <2>1. E \in Nat  BY <1>0, CountTurn
  <2>2. CountBefore("THREAD_END", n + 1) = E + 1  BY CountTurn
  <2> QED BY <2>1, <2>2
<1>3. CountBefore("THREAD_BEGIN", n + 1) = E + 1
  <2>1. CountBefore("THREAD_BEGIN", n + 1) = CountBefore("THREAD_BEGIN", n) + 0  BY CountTurn
  <2> QED BY <1>1, <1>2, <2>1
<1>4. PairedUpTo(n)
  <2>1. Inside(n)  BY <1>1, <1>2 DEF Inside
  <2>2. \A i \in 1..n : i = n \/ i \in 1..(n - 1)  BY <1>0
  <2>3. works[n].op # "THREAD_BEGIN"  OBVIOUS
  <2> QED BY <1>1, <2>1, <2>2, <2>3 DEF PairedUpTo
<1>5. n \in Members(1) /\ n \notin Members(g)
  <2>1. g # 1 /\ g = E + 2  BY <1>1, <1>2
  <2> HIDE DEF g
  <2> QED BY <2>1, MembersAre
<1>6. Holds(Spawner(g), n) /\ Spawner(g) \in AWork
  <2>1. SpawnAt(n) = g /\ g \in Nat  BY <1>1, <1>2 DEF SpawnAt
  <2> HIDE DEF g
  <2>2. Spawner(g) \in AWork  BY <2>1, SpawnerIs
  <2> QED BY <2>1, <2>2 DEF Holds
<1>7. Lists(new.rebuild, 1, n)
  <2>1. new.rebuild = Append(acc.rebuild, Spawner(g))  BY Zenon DEF Ended
  <2> HIDE DEF g
  <2> QED BY <1>1, <1>5, <1>6, <2>1, ListsNext
<1>8. g \in Nat /\ g >= 2 /\ g = E + 2
  BY <1>1, <1>2
<1> HIDE DEF g
<1>9. Lists(acc.buffer, g, N)
  <2>1. g <= CountBefore("THREAD_END", n + 1) + 1  BY <1>2, <1>8
  <2>2. \A i \in Members(g) : i <= n  BY <1>0, <1>8, <2>1, AllEnded
  <2>3. \A i \in Members(g) : i <= N => i <= n - 1
    <3>1. \A i \in Members(g) : i \in Nat /\ i # n  BY <1>5 DEF Members
    <3> QED BY <1>0, <2>2, <3>1
  <2>4. n - 1 <= N  BY <1>0
  <2> QED BY <1>0, <1>1, <2>3, <2>4, ListsStill
<1>10. Closed(g)
  <2>1. CountBefore("THREAD_END", n + 1) <= CountBefore("THREAD_END", N + 1)
    <3>1. n + 1 \in Nat /\ N + 1 \in Nat /\ n + 1 <= N + 1  BY <1>0
    <3> QED BY <3>1, CountTurn
  <2>2. Cardinality(Positions("THREAD_END")) = CountBefore("THREAD_END", N + 1)
    BY CountTurn
  <2>3. CountBefore("THREAD_END", N + 1) \in Nat
    <3>1. N + 1 \in Nat  BY <1>0
    <3> QED BY <3>1, CountTurn
  <2> QED BY <1>2, <1>8, <2>1, <2>2, <2>3 DEF Closed
<1>11. PICK linked : /\ SegmentLinked(linked, acc.buffer, g)
                    /\ new.blocks = Append(acc.blocks, linked.works) /\ new.err = linked.err
  BY Zenon DEF Ended, g
<1>12. IF linked.err = NoError THEN IsSegment(linked.works, g) ELSE Refused
  BY <1>8, <1>9, <1>10, <1>11, LinkedSegment DEF N
<1>13. new \in ThreadAcc /\ new.in = FALSE /\ Len(new.buffer) = 0
  BY Zenon DEF Ended
<1>14. ASSUME new.err = NoError PROVE ThreadState(new, n)
  <2>1. IsSegment(linked.works, g)  BY <1>11, <1>12, <1>14
  <2>2. acc.blocks \in Seq(Seq(AWork)) /\ linked.works \in Seq(AWork)
    <3>1. linked.works \in Seq(AWork)  BY <1>11, Zenon DEF SegmentLinked, KeptBut
    <3> QED BY <3>1, ThreadFields
  <2> DEFINE S == Seq(AWork)
             blocks == Append(acc.blocks, linked.works)
  <2>3. acc.blocks \in Seq(S) /\ linked.works \in S  BY <2>2
  <2> HIDE DEF S
  <2>4. /\ Len(blocks) = E + 1 /\ DOMAIN blocks = 1..(E + 1)
        /\ blocks[E + 1] = linked.works /\ \A b \in 1..E : blocks[b] = acc.blocks[b]
        /\ DOMAIN acc.blocks = 1..E
    BY <1>1, <1>2, <2>3
  <2>5. new.blocks = blocks  BY <1>11
  <2> HIDE DEF blocks, E
  <2>6. \A b \in DOMAIN new.blocks : IsSegment(new.blocks[b], b + 1)
    <3> SUFFICES ASSUME NEW b \in 1..(E + 1) PROVE IsSegment(blocks[b], b + 1)
      BY <2>4, <2>5
    <3>1. CASE b = E + 1
      <4>1. b + 1 = g  BY <1>2, <1>8, <3>1
      <4> QED BY <2>1, <2>4, <3>1, <4>1
    <3>2. CASE b # E + 1
      <4>1. b \in 1..E  BY <1>2, <3>2
      <4> QED BY <1>1, <2>4, <4>1
    <3> QED BY <3>1, <3>2
  <2>7. Lists(new.buffer, E + 3, n)
    <3>1. \A i \in Members(E + 3) : ~(i <= n)
      <4>1. E + 3 \in Nat /\ E + 3 > CountBefore("THREAD_BEGIN", n + 1) + 1  BY <1>2, <1>3
      <4> QED BY <1>0, <4>1, NotBegun
    <3>2. Rank(E + 3, n) = 0
      <4>1. {j \in Members(E + 3) : j <= n} = {}  BY <3>1
      <4> QED BY <4>1, FS_EmptySet DEF Rank
    <3>3. new.buffer \in Seq(AWork)  BY <1>13, ThreadFields
    <3> QED BY <1>13, <3>1, <3>2, <3>3 DEF Lists
  <2>8. Len(new.blocks) = E + 1 /\ Len(new.blocks) + 2 = E + 3  BY <1>2, <2>4, <2>5
  <2> QED BY <1>2, <1>3, <1>4, <1>7, <1>13, <2>6, <2>7, <2>8 DEF ThreadState
<1> QED BY <1>11, <1>12, <1>13, <1>14, Zenon DEF ThreadInv

LEMMA ThreadKeeps ==
    ASSUME works \in Seq(AWork), NEW n \in DOMAIN works, NEW acc \in ThreadAcc, NEW new,
           Turned(new, acc, works[n]), ThreadInv(acc, n - 1)
    PROVE  ThreadInv(new, n)
<1> DEFINE E == CountBefore("THREAD_END", n)
           B == CountBefore("THREAD_BEGIN", n)
           g == Len(acc.blocks) + 2
           w == works[n]
<1>0. n \in Nat /\ (n - 1) + 1 = n /\ n - 1 \in Nat /\ n - 1 <= n /\ w \in AWork
  OBVIOUS
<1>1. E \in Nat /\ B \in Nat /\ acc.in \in BOOLEAN
  <2>1. E \in Nat /\ B \in Nat  BY <1>0, CountTurn
  <2> QED BY <2>1, ThreadFields
<1>2. \A i \in 1..n : i = n \/ i \in 1..(n - 1)
  BY <1>0
<1>3. CASE acc.err # NoError
  BY <1>3, Zenon DEF Turned, ThreadInv
<1>4. CASE acc.err = NoError
  <2>1. ThreadState(acc, n - 1)  BY <1>4, Zenon DEF ThreadInv
  <2>2. /\ B = E + (IF acc.in THEN 1 ELSE 0) /\ Len(acc.blocks) = E
        /\ PairedUpTo(n - 1) /\ Lists(acc.rebuild, 1, n - 1) /\ Lists(acc.buffer, g, n - 1)
        /\ \A b \in DOMAIN acc.blocks : IsSegment(acc.blocks[b], b + 1)
    BY <1>0, <2>1 DEF ThreadState
  <2>3. Inside(n) <=> acc.in
    BY <1>1, <2>2 DEF Inside
  <2>4. SegOf(n) = IF acc.in THEN E + 2 ELSE 1
    BY <1>1, <2>2 DEF SegOf, Inside
  <2>5. g = E + 2 /\ g # 1
    BY <1>1, <2>2
  <2>6. n \in DOMAIN works
    OBVIOUS
  <2>7. CASE w.op = "THREAD_BEGIN"
    <3>1. CASE acc.in
      <4>1. Failed(new, acc)  BY <1>4, <2>7, <3>1, Zenon DEF Turned
      <4>2. MisNested  BY <2>3, <2>6, <2>7, <3>1 DEF MisNested
      <4> QED BY <4>1, <4>2, Zenon DEF Failed, ThreadInv, Refused
    <3>2. CASE ~acc.in
      <4>1. Begun(new, acc)  BY <1>4, <2>7, <3>2, Zenon DEF Turned
      <4>2. /\ new \in ThreadAcc /\ new.err = NoError /\ new.in = TRUE
            /\ new.rebuild = acc.rebuild /\ new.buffer = acc.buffer /\ new.blocks = acc.blocks
        BY <4>1, Zenon DEF Begun
      <4>3. CountBefore("THREAD_BEGIN", n + 1) = B + 1
        BY <2>7, CountTurn
      <4>4. CountBefore("THREAD_END", n + 1) = E
        <5>1. CountBefore("THREAD_END", n + 1) = E + 0  BY <2>7, CountTurn
        <5> QED BY <1>1, <5>1
      <4>5. PairedUpTo(n)
        BY <1>2, <2>2, <2>3, <2>7, <3>2 DEF PairedUpTo
      <4>6. \A h : Lists(acc.rebuild, h, n - 1) => Lists(acc.rebuild, h, n)
        <5>1. \A h : \A i \in Members(h) : i <= n => i <= n - 1
          <6>1. \A h : n \notin Members(h)  BY <2>6, <2>7, MembersAre
          <6>2. \A h : \A i \in Members(h) : i \in Nat /\ i # n  BY <6>1 DEF Members
          <6> QED BY <1>0, <6>2
        <5> QED BY <1>0, <5>1, ListsStill
      <4>7. Lists(acc.buffer, g, n)
        <5>1. n \notin Members(g)  BY <2>6, <2>7, MembersAre
        <5>2. \A i \in Members(g) : i \in Nat /\ i # n  BY <5>1 DEF Members
        <5>3. \A i \in Members(g) : i <= n => i <= n - 1  BY <1>0, <5>2
        <5> HIDE DEF g
        <5> QED BY <1>0, <2>2, <5>3, ListsStill
      <4>8. ThreadState(new, n)
        BY <1>1, <2>2, <3>2, <4>2, <4>3, <4>4, <4>5, <4>6, <4>7 DEF ThreadState
      <4> QED BY <4>2, <4>8, Zenon DEF ThreadInv
    <3> QED BY <3>1, <3>2
  <2>8. CASE w.op = "THREAD_END"
    <3>0. w.op # "THREAD_BEGIN"  BY <2>8
    <3>1. CASE acc.in
      <4>1. Ended(new, acc)  BY <1>4, <2>8, <3>0, <3>1, Zenon DEF Turned
      <4> QED BY <2>1, <2>8, <3>1, <4>1, ThreadKeepsEnd
    <3>2. CASE ~acc.in
      <4>1. Failed(new, acc)  BY <1>4, <2>8, <3>0, <3>2, Zenon DEF Turned
      <4>2. MisNested  BY <2>3, <2>6, <2>8, <3>2 DEF MisNested
      <4> QED BY <4>1, <4>2, Zenon DEF Failed, ThreadInv, Refused
    <3> QED BY <3>1, <3>2
  <2>9. CASE w.op \notin Delimiters
    <3>0. w.op # "THREAD_BEGIN" /\ w.op # "THREAD_END"  BY <2>9 DEF Delimiters
    <3>1. CountBefore("THREAD_BEGIN", n + 1) = B /\ CountBefore("THREAD_END", n + 1) = E
      <4>1. CountBefore("THREAD_BEGIN", n + 1) = B + 0  BY <3>0, CountTurn
      <4>2. CountBefore("THREAD_END", n + 1) = E + 0  BY <3>0, CountTurn
      <4> QED BY <1>1, <4>1, <4>2
    <3>2. PairedUpTo(n)
      BY <1>2, <2>2, <3>0 DEF PairedUpTo
    <3>3. \A h : n \in Members(h) <=> h = SegOf(n)
      BY <2>6, <2>9, MembersAre
    <3>4. Holds(w, n)
      BY <3>0 DEF Holds
    <3>5. CASE acc.in
      <4>1. Buffered(new, acc, w)  BY <1>4, <3>0, <3>5, Zenon DEF Turned
      <4>2. /\ new \in ThreadAcc /\ new.err = NoError /\ new.in = TRUE
            /\ new.rebuild = acc.rebuild /\ new.buffer = Append(acc.buffer, w)
            /\ new.blocks = acc.blocks
        BY <4>1, Zenon DEF Buffered
      <4>3. n \in Members(g) /\ n \notin Members(1)
        BY <2>4, <2>5, <3>3, <3>5
      <4>4. Lists(Append(acc.buffer, w), g, n)
        <5> HIDE DEF g, w
        <5> QED BY <1>0, <2>2, <3>4, <4>3, ListsNext
      <4>5. Lists(acc.rebuild, 1, n)
        <5>1. \A i \in Members(1) : i \in Nat /\ i # n  BY <4>3 DEF Members
        <5>2. \A i \in Members(1) : i <= n => i <= n - 1  BY <1>0, <5>1
        <5> QED BY <1>0, <2>2, <5>2, ListsStill
      <4>6. ThreadState(new, n)
        BY <2>2, <3>1, <3>2, <3>5, <4>2, <4>4, <4>5 DEF ThreadState
      <4> QED BY <4>2, <4>6, Zenon DEF ThreadInv
    <3>6. CASE ~acc.in
      <4>1. Rebuilt(new, acc, w)  BY <1>4, <3>0, <3>6, Zenon DEF Turned
      <4>2. /\ new \in ThreadAcc /\ new.err = NoError /\ new.in = FALSE
            /\ new.rebuild = Append(acc.rebuild, w) /\ new.buffer = acc.buffer
            /\ new.blocks = acc.blocks
        BY <4>1, Zenon DEF Rebuilt
      <4>3. n \in Members(1) /\ n \notin Members(g)
        BY <2>4, <2>5, <3>3, <3>6
      <4>4. Lists(Append(acc.rebuild, w), 1, n)
        <5> HIDE DEF w
        <5> QED BY <1>0, <2>2, <3>4, <4>3, ListsNext
      <4>5. Lists(acc.buffer, g, n)
        <5>1. \A i \in Members(g) : i \in Nat /\ i # n  BY <4>3 DEF Members
        <5>2. \A i \in Members(g) : i <= n => i <= n - 1  BY <1>0, <5>1
        <5> HIDE DEF g
        <5> QED BY <1>0, <2>2, <5>2, ListsStill
      <4>6. ThreadState(new, n)
        BY <1>1, <2>2, <3>1, <3>2, <3>6, <4>2, <4>4, <4>5 DEF ThreadState
      <4> QED BY <4>2, <4>6, Zenon DEF ThreadInv
    <3> QED BY <3>5, <3>6
  <2> QED BY <2>7, <2>8, <2>9 DEF Delimiters
<1> QED BY <1>3, <1>4

LEMMA LinkThreadsIs ==
    ASSUME works \in Seq(AWork)
    PROVE  ThreadInv(LinkThreads(works), Len(works))
<1> DEFINE N == Len(works)
           linked == LinkThreads(works)
<1>1. N \in Nat /\ DOMAIN works = 1..N /\ \A n \in 1..N : works[n] \in AWork
  OBVIOUS
<1>2. PICK after \in [0..N -> ThreadAcc] : ThreadTurns(after, works) /\ linked = after[N]
  BY ThreadLoop
<1> HIDE DEF linked
<1> DEFINE T == {n \in 0..N : ThreadInv(after[n], n)}
<1>3. 0 \in T
  <2> DEFINE init == ThreadsInit
  <2>1. /\ init \in ThreadAcc /\ init.in = FALSE /\ init.err = NoError
        /\ Len(init.rebuild) = 0 /\ Len(init.buffer) = 0 /\ Len(init.blocks) = 0
    BY ThreadsInitIs
  <2>2. after[0] = init  BY <1>2 DEF ThreadTurns
  <2> HIDE DEF init
  <2>3. CountBefore("THREAD_BEGIN", 0 + 1) = 0 /\ CountBefore("THREAD_END", 0 + 1) = 0
    BY CountTurn
  <2>4. ASSUME NEW g, NEW seq \in Seq(AWork), Len(seq) = 0 PROVE Lists(seq, g, 0)
    <3>1. \A i \in Members(g) : ~(i <= 0)  BY <1>1 DEF Members
    <3>2. Rank(g, 0) = 0  BY RankTurn
    <3> QED BY <2>4, <3>1, <3>2 DEF Lists
  <2>5. /\ init.rebuild \in Seq(AWork) /\ init.buffer \in Seq(AWork)
        /\ init.blocks \in Seq(Seq(AWork))
    BY <2>1, ThreadFields
  <2>6. DOMAIN init.blocks = {}
    <3> DEFINE S == Seq(AWork)
    <3>1. init.blocks \in Seq(S)  BY <2>5
    <3> HIDE DEF S
    <3> QED BY <2>1, <3>1
  <2>7. PairedUpTo(0)
    BY DEF PairedUpTo
  <2>8. Lists(init.rebuild, 1, 0) /\ Lists(init.buffer, Len(init.blocks) + 2, 0)
    BY <2>1, <2>4, <2>5
  <2>9. ThreadState(init, 0)
    BY <2>1, <2>3, <2>6, <2>7, <2>8 DEF ThreadState
  <2>10. ThreadInv(init, 0)
    BY <2>1, <2>9, Zenon DEF ThreadInv
  <2> QED BY <1>1, <2>2, <2>10
<1>4. ASSUME NEW n \in 1..N, n - 1 \in T PROVE n \in T
  <2>1. n \in DOMAIN works /\ n \in 0..N /\ n - 1 \in 0..N  BY <1>1
  <2>2. after[n] = VisitWork(after[n - 1], works[n])  BY <1>2 DEF ThreadTurns
  <2>3. after[n - 1] \in ThreadAcc /\ works[n] \in AWork  BY <1>1, <1>2, <2>1
  <2>4. Turned(after[n], after[n - 1], works[n])  BY <2>2, <2>3, ThreadTurn, Zenon
  <2>5. ThreadInv(after[n - 1], n - 1)  BY <1>4
  <2>6. ThreadInv(after[n], n)  BY <2>1, <2>3, <2>4, <2>5, ThreadKeeps
  <2> QED BY <2>1, <2>6
<1>5. 0..N \subseteq T
  <2> HIDE DEF T
  <2> QED BY <1>1, <1>3, <1>4, UpToSet
<1>6. ThreadInv(after[N], N)
  BY <1>1, <1>5
<1> QED BY <1>2, <1>6 DEF linked

\* A whole source: it is refused, or each of its segments is linked.
AllLinked(all) ==
    IF all.err = NoError
    THEN /\ ~Refused
         /\ all.segs \in Seq(Seq(AWork)) /\ Len(all.segs) = Cardinality(Positions("THREAD_END")) + 1
         /\ \A g \in DOMAIN all.segs : IsSegment(all.segs[g], g)
    ELSE Refused /\ DOMAIN all.segs = {}

LEMMA LinkAllIs ==
    ASSUME works \in Seq(AWork)
    PROVE  AllLinked(LinkAll(works))
<1> DEFINE N == Len(works)
           threaded == LinkThreads(works)
           main == LinkSegment(threaded.rebuild, 1)
           none == <<>>
           blocks == threaded.blocks
           all == LinkAll(works)
<1>1. all = IF threaded.err # NoError THEN [segs |-> none, err |-> threaded.err]
            ELSE IF main.err # NoError THEN [segs |-> none, err |-> main.err]
            ELSE [segs |-> <<main.works>> \o blocks, err |-> NoError]
  BY Zenon DEF LinkAll
<1>2. ThreadInv(threaded, N)
  BY LinkThreadsIs
<1>3. DOMAIN none = {} /\ N \in Nat
  OBVIOUS
<1> HIDE DEF threaded, none
<1>4. threaded \in ThreadAcc
  BY <1>2, Zenon DEF ThreadInv
<1>5. threaded.rebuild \in Seq(AWork) /\ blocks \in Seq(Seq(AWork))
  BY <1>4, ThreadFields
<1>6. SegmentLinked(main, threaded.rebuild, 1)
  BY <1>5, LinkSegmentIs
<1> HIDE DEF main
<1> SUFFICES AllLinked(all)
  OBVIOUS
<1> HIDE DEF all
<1>7. CASE threaded.err # NoError
  <2>1. all = [segs |-> none, err |-> threaded.err]  BY <1>1, <1>7
  <2>2. DOMAIN all.segs = {} /\ all.err # NoError  BY <1>3, <1>7, <2>1
  <2>3. Refused  BY <1>2, <1>7, Zenon DEF ThreadInv
  <2> QED BY <2>2, <2>3, Zenon DEF AllLinked
<1>8. CASE threaded.err = NoError
  <2>1. ThreadState(threaded, N)
    BY <1>2, <1>8, Zenon DEF ThreadInv
  <2>2. /\ Len(blocks) = CountBefore("THREAD_END", N + 1)
        /\ PairedUpTo(N) /\ Lists(threaded.rebuild, 1, N)
        /\ \A b \in DOMAIN blocks : IsSegment(blocks[b], b + 1)
    BY <2>1, Zenon DEF ThreadState
  <2>3. Len(blocks) = Cardinality(Positions("THREAD_END")) /\ Len(blocks) \in Nat
    <3>1. Cardinality(Positions("THREAD_END")) = CountBefore("THREAD_END", N + 1)
      BY CountTurn
    <3> DEFINE S == Seq(AWork)
    <3>2. blocks \in Seq(S)  BY <1>5
    <3> HIDE DEF S, blocks
    <3>3. Len(blocks) \in Nat  BY <3>2
    <3> QED BY <2>2, <3>1, <3>3
  <2>4. Closed(1)
    BY <2>3 DEF Closed
  <2>5. IF main.err = NoError THEN IsSegment(main.works, 1) ELSE Refused
    BY <1>6, <2>2, <2>4, LinkedSegment DEF N
  <2>6. CASE main.err # NoError
    <3>1. all = [segs |-> none, err |-> main.err]  BY <1>1, <1>8, <2>6
    <3>2. DOMAIN all.segs = {} /\ all.err # NoError  BY <1>3, <2>6, <3>1
    <3>3. Refused  BY <2>5, <2>6
    <3> QED BY <3>2, <3>3, Zenon DEF AllLinked
  <2>7. CASE main.err = NoError
    <3> DEFINE S == Seq(AWork)
               E == Len(blocks)
               done == main.works
               segments == <<done>> \o blocks
    <3>1. all = [segs |-> segments, err |-> NoError]  BY <1>1, <1>8, <2>7
    <3>2. done \in S /\ blocks \in Seq(S)
      BY <1>5, <1>6, Zenon DEF SegmentLinked, KeptBut
    <3> HIDE DEF S, done, blocks
    <3>3. /\ segments \in Seq(S) /\ Len(segments) = E + 1 /\ DOMAIN segments = 1..(E + 1)
          /\ segments[1] = done /\ \A b \in 1..E : segments[b + 1] = blocks[b]
          /\ DOMAIN blocks = 1..E
      BY <3>2
    <3> HIDE DEF segments
    <3>4. all.segs = segments /\ all.err = NoError  BY <3>1
    <3>5. ASSUME NEW g \in DOMAIN segments PROVE IsSegment(segments[g], g)
      <4>1. CASE g = 1  BY <2>5, <2>7, <3>3, <4>1 DEF done
      <4>2. CASE g # 1
        <5>1. g - 1 \in 1..E /\ (g - 1) + 1 = g  BY <2>3, <3>3, <4>2
        <5>2. segments[g] = blocks[g - 1] /\ IsSegment(blocks[g - 1], g)
          <6> DEFINE b == g - 1
          <6>1. b \in 1..E /\ b + 1 = g  BY <5>1
          <6> HIDE DEF b
          <6>2. IsSegment(blocks[b], b + 1) /\ segments[b + 1] = blocks[b]  BY <2>2, <3>3, <6>1
          <6>3. segments[g] = blocks[b] /\ IsSegment(blocks[b], g)  BY <6>1, <6>2
          <6> QED BY <6>3 DEF b
        <5> QED BY <5>2
      <4> QED BY <4>1, <4>2
    <3>6. ~MisNested
      <4>1. DOMAIN works = 1..N  OBVIOUS
      <4> QED BY <2>2, <4>1 DEF MisNested, PairedUpTo
    <3>7. ASSUME NEW i \in DOMAIN works, Closed(SegOf(i))
          PROVE  SegOf(i) \in DOMAIN segments
      <4>1. CountBefore("THREAD_BEGIN", i) \in Nat
        <5>1. i \in Nat  OBVIOUS
        <5> QED BY <5>1, CountTurn
      <4>2. SegOf(i) \in Nat /\ SegOf(i) >= 1  BY <4>1 DEF SegOf
      <4>3. SegOf(i) <= E + 1  BY <2>3, <3>7 DEF Closed
      <4> QED BY <2>3, <3>3, <4>2, <4>3
    <3>8. ~UnlocksUnknown
      <4> SUFFICES ASSUME NEW i \in Positions("UNLOCK"), Closed(SegOf(i)) PROVE UnlockKnown(i)
        BY Zenon DEF UnlocksUnknown, UnlockKnown
      <4>1. i \in DOMAIN works  BY DEF Positions
      <4>2. IsSegment(segments[SegOf(i)], SegOf(i))  BY <3>5, <3>7, <4>1
      <4>3. PICK raw : Lists(raw, SegOf(i), Len(works)) /\ UnlocksKnown(raw)
        BY <4>2 DEF IsSegment
      <4> QED BY <4>3, ScopeOfUnlocks
    <3>9. ~JumpsNowhere
      <4> SUFFICES ASSUME NEW i \in DOMAIN works, works[i].op \in Jumps, Closed(SegOf(i))
                   PROVE  JumpKnown(i)
        BY Zenon DEF JumpsNowhere, JumpKnown
      <4>1. IsSegment(segments[SegOf(i)], SegOf(i))  BY <3>5, <3>7
      <4>2. PICK raw : Lists(raw, SegOf(i), Len(works)) /\ JumpsKnown(raw)
        BY <4>1 DEF IsSegment
      <4> QED BY <4>2, ScopeOfJumps
    <3>10. ~Refused
      BY <3>6, <3>8, <3>9 DEF Refused
    <3>11. all.segs \in Seq(Seq(AWork)) /\ Len(all.segs) = Cardinality(Positions("THREAD_END")) + 1
      BY <2>3, <3>3, <3>4 DEF S
    <3>12. \A g \in DOMAIN all.segs : IsSegment(all.segs[g], g)
      BY <3>4, <3>5
    <3> QED BY <3>4, <3>10, <3>11, <3>12, Zenon DEF AllLinked
  <2> QED BY <2>6, <2>7
<1> QED BY <1>7, <1>8

-----------------------------------------------------------------------------
(* The parser's runs.                                                      *)

Outcome(all) ==
    /\ segs = all.segs
    /\ phase = IF all.err = NoError THEN "linked" ELSE "failed"
LinkInv == IF phase = "parsing" THEN segs = <<>> ELSE Outcome(LinkAll(works))

\* The segments are what the linkers make of the works that were read.
THEOREM LinkerInvariant == PSpec => []LinkInv
<1>1. PInit => LinkInv
  BY DEF PInit, LinkInv
<1>2. LinkInv /\ [PNext]_pvars => LinkInv'
  <2> SUFFICES ASSUME LinkInv, [PNext]_pvars PROVE LinkInv'
    OBVIOUS
  <2>1. ASSUME NEW line, ParseLine(line) PROVE LinkInv'
    <3>1. phase = "parsing" /\ phase' = phase /\ segs' = segs
      BY <2>1 DEF ParseLine
    <3> QED BY <3>1, Zenon DEF LinkInv
  <2>2. CASE Link
    <3>1. /\ segs' = LinkAll(works).segs /\ works' = works
          /\ phase' = IF LinkAll(works).err = NoError THEN "linked" ELSE "failed"
      BY <2>2, Zenon DEF Link
    <3> DEFINE all == LinkAll(works)
    <3>2. LinkAll(works') = all  BY <3>1
    <3>3. /\ segs' = all.segs /\ phase' = IF all.err = NoError THEN "linked" ELSE "failed"
      BY <3>1, Zenon
    <3> HIDE DEF all
    <3>4. phase' # "parsing"  BY <3>3
    <3> QED BY <3>2, <3>3, <3>4, Zenon DEF LinkInv, Outcome
  <2>3. CASE UNCHANGED pvars
    <3>1. phase' = phase /\ segs' = segs /\ works' = works
      BY <2>3 DEF pvars
    <3> QED BY <3>1, Zenon DEF LinkInv, Outcome
  <2> QED BY <2>1, <2>2, <2>3 DEF PNext
<1> QED BY <1>1, <1>2, PTL DEF PSpec

\* What the properties of the linked segments follow from.
LinkedOrNot ==
    /\ works \in Seq(AWork)
    /\ phase = "parsing" => DOMAIN segs = {}
    /\ phase = "failed" => Refused /\ DOMAIN segs = {}
    /\ phase = "linked" =>
         /\ ~Refused
         /\ segs \in Seq(Seq(AWork)) /\ Len(segs) = Cardinality(Positions("THREAD_END")) + 1
         /\ \A g \in DOMAIN segs : IsSegment(segs[g], g)
    /\ phase \in {"parsing", "linked", "failed"}

LEMMA LinkedOrNotIs == ParserInv /\ LinkInv => LinkedOrNot
<1> SUFFICES ASSUME ParserInv, LinkInv PROVE LinkedOrNot
  OBVIOUS
<1>1. works \in Seq(WorkRecord) /\ phase \in {"parsing", "linked", "failed"}
  BY DEF ParserInv, ParserTypeOK
<1>2. works \in Seq(AWork)
  <2>1. ASSUME NEW w \in WorkRecord PROVE w \in AWork
    <3>1. <<0, 0>> \in Nat \X Nat  OBVIOUS
    <3>2. w.at \in Nat \X Nat  BY <3>1 DEF WorkRecord
    <3>3. /\ w = [op |-> w.op, name |-> w.name, args |-> w.args, at |-> w.at]
          /\ w.op \in STRING /\ w.name \in STRING /\ w.args \in Seq(Argument)
      BY DEF WorkRecord
    <3> QED BY <3>2, <3>3 DEF AWork, Strings
  <2>2. WorkRecord \subseteq AWork  BY <2>1
  <2> QED BY <1>1, <2>2
<1> DEFINE all == LinkAll(works)
<1>3. AllLinked(all)
  BY <1>2, LinkAllIs
<1> HIDE DEF all
<1>4. CASE phase = "parsing"
  <2>1. segs = <<>>  BY <1>4 DEF LinkInv
  <2>2. DOMAIN segs = {}  BY <2>1
  <2> QED BY <1>1, <1>2, <1>4, <2>2 DEF LinkedOrNot
<1>5. CASE phase # "parsing"
  <2>1. segs = all.segs /\ phase = IF all.err = NoError THEN "linked" ELSE "failed"
    BY <1>5, Zenon DEF LinkInv, Outcome, all
  <2>2. CASE all.err = NoError
    <3>1. phase = "linked"  BY <2>1, <2>2
    <3>2. /\ ~Refused
          /\ segs \in Seq(Seq(AWork)) /\ Len(segs) = Cardinality(Positions("THREAD_END")) + 1
          /\ \A g \in DOMAIN segs : IsSegment(segs[g], g)
      BY <1>3, <2>1, <2>2, Zenon DEF AllLinked
    <3>3. phase # "failed" /\ phase # "parsing"  BY <3>1
    <3> QED BY <1>1, <1>2, <3>2, <3>3, Zenon DEF LinkedOrNot
  <2>3. CASE all.err # NoError
    <3>1. phase = "failed"  BY <2>1, <2>3
    <3>2. Refused /\ DOMAIN segs = {}
      BY <1>3, <2>1, <2>3, Zenon DEF AllLinked
    <3>3. phase # "linked" /\ phase # "parsing"  BY <3>1
    <3> QED BY <1>1, <1>2, <3>2, <3>3, Zenon DEF LinkedOrNot
  <2> QED BY <2>2, <2>3
<1> QED BY <1>4, <1>5

\* The parser ends in failure exactly when the blocks do not pair up, or a
\* linked segment unlocks what it has not locked above or jumps to a label that
\* it does not hold.
THEOREM RefusedExactly == PSpec => []RefusesExactly
<1>1. LinkedOrNot => RefusesExactly
  <2> SUFFICES ASSUME LinkedOrNot, phase # "parsing"
               PROVE  phase = "failed" <=> MisNested \/ UnlocksUnknown \/ JumpsNowhere
    BY DEF RefusesExactly
  <2>1. phase = "failed" => Refused
    BY Zenon DEF LinkedOrNot
  <2>2. phase = "linked" => ~Refused
    BY Zenon DEF LinkedOrNot
  <2>3. phase = "failed" \/ phase = "linked"
    BY DEF LinkedOrNot
  <2> QED BY <2>1, <2>2, <2>3 DEF Refused
<1> QED BY <1>1, LinkedOrNotIs, ParserInvariant, LinkerInvariant, PTL

LEMMA SegmentsLinked ==
    ASSUME LinkedOrNot, NEW g \in DOMAIN segs
    PROVE  /\ phase = "linked" /\ IsSegment(segs[g], g) /\ works \in Seq(AWork)
           /\ segs[g] \in Seq(AWork) /\ g \in Nat /\ g >= 1
<1>1. phase \in {"parsing", "linked", "failed"} /\ works \in Seq(AWork)
  BY DEF LinkedOrNot
<1>2. DOMAIN segs # {}
  OBVIOUS
<1>3. phase # "parsing" /\ phase # "failed"
  BY <1>2, Zenon DEF LinkedOrNot
<1>4. phase = "linked"
  BY <1>1, <1>3
<1>5. segs \in Seq(Seq(AWork)) /\ IsSegment(segs[g], g)
  BY <1>4, Zenon DEF LinkedOrNot
<1> DEFINE S == Seq(AWork)
<1>6. segs \in Seq(S)
  BY <1>5
<1> HIDE DEF S
<1>7. segs[g] \in S /\ g \in Nat /\ g >= 1
  BY <1>6
<1> QED BY <1>1, <1>4, <1>5, <1>7 DEF S

\* A jump targets the last label of its name in its own segment, in the main
\* program; in a block it targets a vector that is gone.
THEOREM JumpsAreLinked == PSpec => []JumpsToLastLabel
<1>1. LinkedOrNot => JumpsToLastLabel
  <2> SUFFICES ASSUME LinkedOrNot, NEW g \in DOMAIN segs, NEW i \in DOMAIN segs[g],
                      segs[g][i].op \in Jumps
               PROVE  /\ segs[g][i].at[1] = (IF g = 1 THEN 1 ELSE 0)
                      /\ segs[g][i].at[2] \in DOMAIN segs[g]
                      /\ segs[g][segs[g][i].at[2]].op = "LABEL"
                      /\ segs[g][segs[g][i].at[2]].name = segs[g][i].name
                      /\ \A k \in DOMAIN segs[g] :
                           segs[g][k].op = "LABEL" /\ segs[g][k].name = segs[g][i].name =>
                             k <= segs[g][i].at[2]
    BY Zenon DEF JumpsToLastLabel
  <2> DEFINE done == segs[g]
             l == done[i].at[2]
  <2>1. IsSegment(done, g) /\ done \in Seq(AWork)
    BY SegmentsLinked
  <2> HIDE DEF done
  <2>2. PICK raw : /\ Lists(raw, g, Len(works)) /\ KeptBut(LockOps \cup Jumps, done, raw)
                   /\ JumpsResolved(done, raw, g)
    BY <2>1 DEF IsSegment
  <2>3. raw \in Seq(AWork)
    BY <2>2 DEF Lists
  <2>4. DOMAIN done = DOMAIN raw /\ \A k \in DOMAIN raw : SameButAt(done[k], raw[k])
    BY <2>1, <2>2, <2>3 DEF KeptBut
  <2>5. i \in DOMAIN done /\ done[i].op \in Jumps
    BY DEF done
  <2>6. raw[i].op \in Jumps /\ raw[i].name = done[i].name
    BY <2>4, <2>5 DEF SameButAt
  <2>7. done[i].at[1] = VectorOf(g) /\ IsLastLabel(raw, l, done[i].name)
    BY <2>2, <2>4, <2>5, <2>6 DEF JumpsResolved
  <2> HIDE DEF l
  <2>8. \A k \in DOMAIN raw : done[k].op = raw[k].op /\ done[k].name = raw[k].name
    BY <2>4 DEF SameButAt
  <2>9. /\ l \in DOMAIN done /\ done[l].op = "LABEL" /\ done[l].name = done[i].name
        /\ \A k \in DOMAIN done : done[k].op = "LABEL" /\ done[k].name = done[i].name => k <= l
    BY <2>4, <2>7, <2>8 DEF IsLastLabel, LabelAt
  <2>10. done[i].at[1] = IF g = 1 THEN 1 ELSE 0
    BY <2>7 DEF VectorOf
  <2> QED BY <2>9, <2>10 DEF done, l
<1> QED BY <1>1, LinkedOrNotIs, ParserInvariant, LinkerInvariant, PTL

\* Two lock works share a mutex exactly when they are in one segment and use one
\* name.
THEOREM MutexesAreScoped == PSpec => []OneMutexPerScope
<1>1. LinkedOrNot => OneMutexPerScope
  <2> SUFFICES ASSUME LinkedOrNot, NEW p \in LockWorks, NEW q \in LockWorks
               PROVE  segs[p[1]][p[2]].at = segs[q[1]][q[2]].at
                        <=> p[1] = q[1] /\ segs[p[1]][p[2]].name = segs[q[1]][q[2]].name
    BY Zenon DEF OneMutexPerScope
  <2>1. ASSUME NEW r \in LockWorks
        PROVE  /\ r[1] \in DOMAIN segs /\ r[2] \in DOMAIN segs[r[1]]
               /\ segs[r[1]][r[2]].op \in LockOps
    BY <2>1 DEF LockWorks, LockOps
  <2>2. ASSUME NEW g \in DOMAIN segs, NEW i \in DOMAIN segs[g], NEW j \in DOMAIN segs[g],
               segs[g][i].op \in LockOps, segs[g][j].op \in LockOps
        PROVE  /\ segs[g][i].at[1] = g
               /\ (segs[g][i].at = segs[g][j].at <=> segs[g][i].name = segs[g][j].name)
    <3> DEFINE done == segs[g]
    <3>1. IsSegment(done, g) /\ done \in Seq(AWork)
      BY SegmentsLinked
    <3>2. i \in DOMAIN done /\ j \in DOMAIN done /\ done[i].op \in LockOps /\ done[j].op \in LockOps
      BY <2>2
    <3> HIDE DEF done
    <3>3. PICK raw : /\ Lists(raw, g, Len(works)) /\ KeptBut(LockOps \cup Jumps, done, raw)
                     /\ MutexPerName(done, raw, g)
      BY <3>1 DEF IsSegment
    <3>4. raw \in Seq(AWork)
      BY <3>3 DEF Lists
    <3>5. DOMAIN done = DOMAIN raw /\ \A k \in DOMAIN raw : SameButAt(done[k], raw[k])
      BY <3>1, <3>3, <3>4 DEF KeptBut
    <3>6. \A k \in DOMAIN raw : done[k].op = raw[k].op /\ done[k].name = raw[k].name
      BY <3>5 DEF SameButAt
    <3>7. done[i].at[1] = g /\ (done[i].at = done[j].at <=> done[i].name = done[j].name)
      BY <3>2, <3>3, <3>5, <3>6 DEF MutexPerName
    <3> QED BY <3>7 DEF done
  <2> DEFINE g == p[1]
             h == q[1]
             v == segs[p[1]][p[2]]
             w == segs[q[1]][q[2]]
  <2>3. v.at[1] = g /\ w.at[1] = h
    BY <2>1, <2>2
  <2>4. g = h => (v.at = w.at <=> v.name = w.name)
    BY <2>1, <2>2
  <2> HIDE DEF g, h, v, w
  <2>5. v.at = w.at <=> g = h /\ v.name = w.name
    BY <2>3, <2>4
  <2> QED BY <2>5 DEF g, h, v, w
<1> QED BY <1>1, LinkedOrNotIs, ParserInvariant, LinkerInvariant, PTL

\* Linking keeps every work of the main program and of a closed block, once, in
\* its segment and in the order of the source, and a block is started where its
\* THREAD_END stood.
THEOREM OrderIsKept == PSpec => []KeepsOrder
<1>1. LinkedOrNot => KeepsOrder
  <2> SUFFICES ASSUME LinkedOrNot, phase = "linked"
               PROVE  /\ Len(segs) = Cardinality(Positions("THREAD_END")) + 1
                      /\ \A g \in DOMAIN segs :
                           /\ Len(segs[g]) = Cardinality(Members(g))
                           /\ \A i \in Members(g) : StandsFor(segs[g][Rank(g, i)], i)
    BY Zenon DEF KeepsOrder
  <2>1. Len(segs) = Cardinality(Positions("THREAD_END")) + 1
    BY Zenon DEF LinkedOrNot
  <2>2. ASSUME NEW g \in DOMAIN segs
        PROVE  /\ Len(segs[g]) = Cardinality(Members(g))
               /\ \A i \in Members(g) : StandsFor(segs[g][Rank(g, i)], i)
    <3> DEFINE done == segs[g]
    <3>1. IsSegment(done, g) /\ done \in Seq(AWork) /\ works \in Seq(AWork)
      BY SegmentsLinked
    <3> HIDE DEF done
    <3>2. PICK raw : Lists(raw, g, Len(works)) /\ KeptBut(LockOps \cup Jumps, done, raw)
      BY <3>1 DEF IsSegment
    <3>3. raw \in Seq(AWork) /\ Len(raw) = Rank(g, Len(works))
      BY <3>2 DEF Lists
    <3>4. Len(done) = Len(raw) /\ DOMAIN raw = DOMAIN done /\ \A k \in DOMAIN raw :
            SameButAt(done[k], raw[k]) /\ (raw[k].op \notin LockOps \cup Jumps => done[k] = raw[k])
      BY <3>1, <3>2, <3>3 DEF KeptBut
    <3>5. Len(done) = Cardinality(Members(g))
      BY <3>1, <3>3, <3>4, RankTurn
    <3>6. ASSUME NEW i \in Members(g) PROVE StandsFor(done[Rank(g, i)], i)
      <4> DEFINE k == Rank(g, i)
      <4>1. i \in DOMAIN works /\ i <= Len(works) /\ i \in Nat
        BY <3>1 DEF Members
      <4>2. k \in 1..Len(raw) /\ Holds(raw[k], i)
        BY <3>2, <4>1 DEF Lists
      <4>3. k \in DOMAIN raw /\ done[k] \in AWork /\ works[i] \in AWork
        BY <3>1, <3>3, <3>4, <4>1, <4>2
      <4> HIDE DEF k
      <4>4. CASE works[i].op = "THREAD_END"
        <5>1. SpawnAt(i) \in Nat
          <6>1. CountBefore("THREAD_END", i) \in Nat  BY <3>1, <4>1, CountTurn
          <6> QED BY <6>1 DEF SpawnAt
        <5> DEFINE s == SpawnAt(i)
        <5>2. raw[k] = Spawner(s)  BY <4>2, <4>4 DEF Holds
        <5> HIDE DEF s
        <5>3. s \in Nat  BY <5>1 DEF s
        <5>4. raw[k].op = "THREAD" /\ raw[k].at = <<s, 0>>  BY <5>2, <5>3, SpawnerIs, Zenon
        <5>5. raw[k].op \notin LockOps \cup Jumps  BY <5>4 DEF LockOps, Jumps
        <5>6. done[k].op = "THREAD" /\ done[k].at = <<s, 0>>  BY <3>4, <4>3, <5>4, <5>5
        <5> QED BY <4>4, <5>6, Zenon DEF StandsFor, s, k
      <4>5. CASE works[i].op # "THREAD_END"
        <5>1. raw[k] = works[i]  BY <4>2, <4>5 DEF Holds
        <5>2. SameButAt(done[k], works[i])  BY <3>4, <4>3, <5>1
        <5> DEFINE d == done[k]
                   w == works[i]
        <5>3. d \in AWork /\ w \in AWork /\ SameButAt(d, w)  BY <4>3, <5>2
        <5> HIDE DEF d, w
        <5>4. [d EXCEPT !.at = w.at] = w
          <6>1. /\ d = [op |-> d.op, name |-> d.name, args |-> d.args, at |-> d.at]
                /\ w = [op |-> w.op, name |-> w.name, args |-> w.args, at |-> w.at]
            BY <5>3 DEF AWork
          <6> QED BY <5>3, <6>1 DEF SameButAt
        <5> QED BY <4>5, <5>4, Zenon DEF StandsFor, d, w, k
      <4> QED BY <4>4, <4>5
    <3> QED BY <3>5, <3>6 DEF done
  <2> QED BY <2>1, <2>2
<1> QED BY <1>1, LinkedOrNotIs, ParserInvariant, LinkerInvariant, PTL
=============================================================================

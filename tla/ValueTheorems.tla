---------------------------- MODULE ValueTheorems ----------------------------
(***************************************************************************)
(* What a program may rely on about the values of its variables, for every *)
(* program, every width of a long and an int, and every set of characters. *)
(***************************************************************************)
EXTENDS ValueProperties, TLAPS

-----------------------------------------------------------------------------
(* Numbers.                                                                *)

\* Every arithmetic result is a machine word, and zero is one.
LEMMA WrapIsWord == 0 \in Word /\ \A n \in Int : Wrap(n) \in Word
BY HalfAssumption DEF Wrap, Word

LEMMA LongsAreWords == \A n \in Number : Longs(n) \subseteq Word /\ Longs(n) # {}
BY WrapIsWord DEF Longs, Number

LEMMA ArithIsInt == \A op : \A i, j \in Word : Arith(op, i, j) \in Int
BY HalfAssumption DEF Arith, Word

\* A computation on numbers leaves a number that is a long.
LEMMA ComputedIsLong ==
    ASSUME NEW op, NEW x \in Number, NEW y \in Number, NEW r \in Computed(op, x, y)
    PROVE  r \in Number /\ r.real = FALSE /\ r.dbl = FALSE
<1>1. PICK i \in Longs(x), j \in Longs(y) : r = Long(Wrap(Arith(op, i, j)))
  BY DEF Computed
<1>2. Wrap(Arith(op, i, j)) \in Word
  BY LongsAreWords, ArithIsInt, WrapIsWord
<1> QED
  BY <1>1, <1>2 DEF Long, Number

LEMMA DoubleIsNumber == Double \in Number /\ Bits \in Number
BY WrapIsWord DEF Double, Bits, Number

LEMMA ResultsAreNumbers ==
    ASSUME NEW op, NEW x \in Number, NEW y \in Number
    PROVE  Results(op, x, y) \subseteq Number /\ Updates(op, x, y) \subseteq Number
BY ComputedIsLong, DoubleIsNumber DEF Results, Updates

-----------------------------------------------------------------------------
(* The work that is performed.                                             *)

LEMMA AtWorkOK ==
    ASSUME TypeOK, NEW ops, AtWork(ops)
    PROVE  /\ at \in 1..Len(program.works) /\ at + 1 \in 1..(Len(program.works) + 1)
           /\ Work.op \in ops /\ WorkOK(program, at) /\ Work \in Body
BY DEF TypeOK, IsProgram, AtWork, Work, Body

\* The operand of an instruction that found it is a number.
LEMMA OperandIsNumber ==
    ASSUME TypeOK, NEW opd, LiteralOK(opd), ~Missing(opd)
    PROVE  Operand(opd) \in Number
<1>1. CASE IsVar(opd)
  BY <1>1 DEF Operand, Missing, IsVar, TypeOK
<1>2. CASE ~IsVar(opd) /\ opd[1] = "const"
  <2>1. opd[2] \in Word
    BY <1>2 DEF LiteralOK
  <2> QED
    BY <1>2, <2>1 DEF Operand, Long, Number
<1>3. CASE ~IsVar(opd) /\ opd[1] # "const"
  BY <1>3, DoubleIsNumber DEF Operand
<1> QED
  BY <1>1, <1>2, <1>3

\* A declaration's type and literal.
LEMMA DeclarationFacts ==
    ASSUME TypeOK, AtWork({"VAR"})
    PROVE  /\ Work.name \in DOMAIN program.types
           /\ Work.args[1][2] = TypeOf(Work.name)
           /\ LiteralOK(Work.args[2]) /\ ALiteral(Work.args[2])
           /\ TypeOf(Work.name) = "STRING" =>
                /\ TextOf(Work.args[2]) \in Seq(Char)
                /\ Len(TextOf(Work.args[2])) < IntHalf
<1>1. Work.op = "VAR" /\ WorkOK(program, at)
  BY AtWorkOK
<1>2. DeclarationOK(program, Work)
  BY <1>1 DEF WorkOK, Work
<1>3. WorkTyped(Work, program.types)
  BY <1>1 DEF WorkOK, Work
<1>4. Len(Work.args) = 2 /\ ALiteral(Work.args[2])
  BY <1>1, <1>3 DEF WorkTyped, Math, StringOps
<1>5. LiteralOK(Work.args[2])
  BY <1>1, <1>4 DEF WorkOK, Work
<1> QED
  BY <1>2, <1>4, <1>5 DEF DeclarationOK, Typename, TypeOf

\* The two operands of a string instruction.
LEMMA StringFacts ==
    ASSUME TypeOK, AtWork(StringOps)
    PROVE  /\ Work.name \in DOMAIN program.types /\ TypeOf(Work.name) = "STRING"
           /\ AnIndex(Work.args[1], program.types) /\ ACharacter(Work, program.types)
           /\ LiteralOK(Work.args[1]) /\ LiteralOK(Work.args[2])
<1>1. Work.op \in StringOps /\ WorkOK(program, at)
  BY AtWorkOK
<1>2. WorkTyped(Work, program.types) /\ Len(Work.args) = 2
  BY <1>1 DEF WorkOK, Work
<1>3. /\ VarOf(Var(Work.name), program.types, {"STRING"})
      /\ AnIndex(Work.args[1], program.types) /\ ACharacter(Work, program.types)
  BY <1>1, <1>2 DEF WorkTyped, StringOps, Math
<1>4. LiteralOK(Work.args[1]) /\ LiteralOK(Work.args[2])
  BY <1>1, <1>2 DEF WorkOK, Work
<1> QED
  BY <1>3, <1>4 DEF VarOf, Var, IsVar, TypeOf

\* What GET writes to, and SET takes its character from.
LEMMA CharacterFacts ==
    ASSUME TypeOK, AtWork(StringOps)
    PROVE  /\ IsVar(Work.args[2]) =>
                Work.args[2][2] \in DOMAIN program.types /\ TypeOf(Work.args[2][2]) = "CHAR"
           /\ Work.op = "GET_STR_CHAR" => IsVar(Work.args[2])
           /\ ~IsVar(Work.args[2]) => Work.args[2][2] \in Char
BY StringFacts DEF ACharacter, VarOf, IsVar, LiteralOK, TypeOf

LEMMA IndexIsNumber ==
    ASSUME TypeOK, AtWork(StringOps), ~Missing(Work.args[1])
    PROVE  Index \in Number
BY StringFacts, OperandIsNumber DEF Index

\* A binary operation's operands.
LEMMA CombineFacts ==
    ASSUME TypeOK, AtWork({"SUB", "DIV"}), ~Missing(Work.args[1]), ~Missing(Work.args[2])
    PROVE  Operand(Work.args[1]) \in Number /\ Operand(Work.args[2]) \in Number
<1>1. Work.op \in {"SUB", "DIV"} /\ WorkOK(program, at)
  BY AtWorkOK
<1>2. LiteralOK(Work.args[1]) /\ LiteralOK(Work.args[2])
  BY <1>1 DEF WorkOK, Work
<1> QED
  BY <1>2, OperandIsNumber

\* The operand that ADD, MUL or OUT has reached.
LEMMA ReachedFacts ==
    ASSUME TypeOK, NEW ops, AtWork(ops), arg <= Len(Work.args), ~Missing(Work.args[arg])
    PROVE  arg \in 1..Len(Work.args) /\ Operand(Work.args[arg]) \in Number
<1>1. WorkOK(program, at) /\ arg \in Nat \ {0}
  BY AtWorkOK DEF TypeOK
<1>2. arg \in 1..Len(Work.args) /\ LiteralOK(Work.args[arg])
  BY <1>1 DEF WorkOK, Work
<1> QED
  BY <1>2, OperandIsNumber

-----------------------------------------------------------------------------
(* Type correctness.                                                       *)

NumbersOK ==
    /\ DOMAIN numbers \subseteq {x \in DOMAIN program.types : TypeOf(x) \in NumberTypes}
    /\ \A x \in DOMAIN numbers : numbers[x] \in Number
CharsOK ==
    /\ DOMAIN chars \subseteq {x \in DOMAIN program.types : TypeOf(x) \in CharTypes}
    /\ \A x \in DOMAIN chars :
         chars[x] \in Seq(Char) /\ (TypeOf(x) = "CHAR" => Len(chars[x]) = 1)
AtOK == at \in 1..(Len(program.works) + 1) /\ arg \in Nat \ {0}

LEMMA TypeParts == TypeOK <=> IsProgram(program) /\ AtOK /\ NumbersOK /\ CharsOK
BY DEF TypeOK, AtOK, NumbersOK, CharsOK

\* A step moves inside the program.
LEMMA StepMoves == ASSUME TypeOK, [Next]_vars PROVE program' = program /\ AtOK'
<1>1. at \in 1..(Len(program.works) + 1) /\ arg \in Nat \ {0} /\ Len(program.works) \in Nat
  BY DEF TypeOK, IsProgram
<1> DEFINE Stays == program' = program /\ at' = at /\ (arg' = arg \/ arg' = arg + 1)
           Goes == program' = program /\ at <= Len(program.works) /\ at' = at + 1 /\ arg' = 1
<1>2. Stays \/ Goes => program' = program /\ AtOK'
  BY <1>1 DEF AtOK
<1>3. CASE Jump
  <2>1. Work.op = "JMP" /\ WorkOK(program, at)
    BY <1>3, AtWorkOK DEF Jump
  <2>2. Work.at[2] \in 1..Len(program.works)
    BY <2>1 DEF WorkOK, Work
  <2> QED
    BY <1>1, <1>3, <2>2 DEF Jump, AtOK
<1>4. CASE DeclareNumber \/ DeclareChars
  BY <1>2, <1>4 DEF DeclareNumber, DeclareChars, NextWork, AtWork
<1>5. CASE Accumulate \/ AccumulateFails \/ Accumulated
  BY <1>2, <1>5 DEF Accumulate, AccumulateFails, Accumulated, NextWork, Throw, AtWork
<1>6. CASE CombineSkips \/ CombineFails \/ Combine
  BY <1>2, <1>6 DEF CombineSkips, CombineFails, Combine, NextWork, Throw, AtWork
<1>7. CASE SkipString \/ IndexFails \/ CharacterFails
  BY <1>2, <1>7 DEF SkipString, IndexFails, CharacterFails, NextWork, Throw, AtWork
<1>8. CASE SetChar \/ GetChar
  BY <1>2, <1>8 DEF SetChar, GetChar, Indexed, StringFound, NextWork, AtWork
<1>9. CASE Assign \/ OutFails \/ Out \/ OutEnds \/ Label \/ Finish
  BY <1>2, <1>9 DEF Assign, OutFails, Out, OutEnds, Label, Finish, NextWork, Throw, AtWork
<1>10. CASE UNCHANGED vars
  BY <1>2, <1>10 DEF vars
<1> QED
  BY <1>3, <1>4, <1>5, <1>6, <1>7, <1>8, <1>9, <1>10 DEF Next

\* A step leaves numbers in the number pool.
LEMMA StepNumbers == ASSUME TypeOK, [Next]_vars PROVE NumbersOK'
<1>1. NumbersOK /\ program' = program
  BY TypeParts, StepMoves
<1>2. CASE UNCHANGED numbers
  BY <1>1, <1>2 DEF NumbersOK, TypeOf
<1>3. ASSUME NEW v \in Number, Work.name \in DOMAIN program.types,
             TypeOf(Work.name) \in NumberTypes, numbers' = Bind(numbers, Work.name, v)
      PROVE  NumbersOK'
  <2>1. /\ DOMAIN numbers' = (DOMAIN numbers) \cup {Work.name} /\ numbers'[Work.name] = v
        /\ \A y \in DOMAIN numbers : y # Work.name => numbers'[y] = numbers[y]
    BY <1>3 DEF Bind
  <2> QED
    BY <1>1, <1>3, <2>1 DEF NumbersOK, TypeOf
<1>4. ASSUME NEW v \in Number, numbers' = [numbers EXCEPT ![Work.name] = v]
      PROVE  NumbersOK'
  BY <1>1, <1>4 DEF NumbersOK, TypeOf
<1>5. CASE DeclareNumber
  <2> DEFINE type == Work.args[1][2]  lit == Work.args[2]
  <2>1. type = TypeOf(Work.name) /\ LiteralOK(lit) /\ Work.name \in DOMAIN program.types
    BY <1>5, DeclarationFacts DEF DeclareNumber
  <2>2. PICK n \in NumbersOf(type, lit) : numbers' = Bind(numbers, Work.name, n)
    BY <1>5 DEF DeclareNumber
  <2>3. n \in Number
    <3>1. \A w \in Word : Long(w) \in Number
      BY DEF Long, Number
    <3>2. CASE type = "REAL"
      BY <2>2, <3>2, DoubleIsNumber DEF NumbersOf
    <3>3. CASE type # "REAL" /\ lit[1] = "const"
      <4>1. n = Long(lit[2])
        BY <2>2, <3>3 DEF NumbersOf
      <4> QED
        BY <2>1, <3>1, <3>3, <4>1 DEF LiteralOK
    <3>4. CASE type # "REAL" /\ lit[1] = "string"
      BY <2>2, <3>1, <3>4, WrapIsWord DEF NumbersOf
    <3>5. CASE type # "REAL" /\ lit[1] \notin {"const", "string"}
      BY <2>2, <3>1, <3>5 DEF NumbersOf
    <3> QED
      BY <3>2, <3>3, <3>4, <3>5
  <2>4. type \in NumberTypes
    BY <1>5 DEF DeclareNumber, NumberTypes
  <2> QED
    BY <1>3, <2>1, <2>2, <2>3, <2>4
<1>6. CASE Accumulate
  <2>1. Operand(Work.args[arg]) \in Number
    BY <1>6, ReachedFacts DEF Accumulate
  <2>2. Old \in Number
    BY <1>1, <1>6 DEF Accumulate, Old, NumbersOK
  <2>3. PICK r \in Updates(Work.op, Old, Operand(Work.args[arg])) :
           numbers' = [numbers EXCEPT ![Work.name] = r]
    BY <1>6 DEF Accumulate
  <2> QED
    BY <1>4, <2>1, <2>2, <2>3, ResultsAreNumbers
<1>7. CASE Combine
  <2> DEFINE x == Operand(Work.args[1])  y == Operand(Work.args[2])
  <2>1. x \in Number /\ y \in Number
    BY <1>7, CombineFacts DEF Combine
  <2>2. \/ UNCHANGED numbers
        \/ \E r \in Results(Work.op, x, y) : numbers' = [numbers EXCEPT ![Work.name] = r]
    BY <1>7 DEF Combine
  <2> QED
    BY <1>2, <1>4, <2>1, <2>2, ResultsAreNumbers
<1>8. CASE ~(DeclareNumber \/ Accumulate \/ Combine)
  <2>1. UNCHANGED numbers
    BY <1>8 DEF Next, vars, DeclareChars, AccumulateFails, Accumulated, CombineSkips,
       CombineFails, SkipString, IndexFails, CharacterFails, SetChar, GetChar, Assign,
       OutFails, Out, OutEnds, Jump, Label, Finish
  <2> QED
    BY <1>2, <2>1
<1> QED
  BY <1>5, <1>6, <1>7, <1>8

\* The place of an index is one in the string, and a character read or
\* written is a character.
LEMMA SpotsInside ==
    \A s : \A k, p : p \in Spots(s, k) => p \in 1..Len(s) /\ p = k + 1
BY DEF Spots

\* A step leaves strings and characters in the pool of strings.
LEMMA StepChars == ASSUME TypeOK, [Next]_vars PROVE CharsOK'
<1>1. CharsOK /\ program' = program
  BY TypeParts, StepMoves
<1>2. CASE UNCHANGED chars
  BY <1>1, <1>2 DEF CharsOK, TypeOf
<1>3. CASE DeclareChars
  <2> DEFINE type == Work.args[1][2]  lit == Work.args[2]
  <2>1. /\ type = TypeOf(Work.name) /\ Work.name \in DOMAIN program.types
        /\ type = "STRING" => TextOf(lit) \in Seq(Char)
    BY <1>3, DeclarationFacts DEF DeclareChars
  <2>2. type \in CharTypes
    BY <1>3 DEF DeclareChars, CharTypes
  <2>3. PICK s \in CharsOf(type, lit) : chars' = Bind(chars, Work.name, s)
    BY <1>3 DEF DeclareChars
  <2>4. s \in Seq(Char) /\ (type = "CHAR" => Len(s) = 1)
    <3>1. CASE type = "CHAR"
      <4>1. PICK c \in Char : s = <<c>>
        BY <2>3, <3>1 DEF CharsOf
      <4> QED
        BY <4>1
    <3>2. CASE type # "CHAR"
      BY <2>1, <2>2, <2>3, <3>2 DEF CharsOf, CharTypes
    <3> QED
      BY <3>1, <3>2
  <2>5. /\ DOMAIN chars' = (DOMAIN chars) \cup {Work.name} /\ chars'[Work.name] = s
        /\ \A y \in DOMAIN chars : y # Work.name => chars'[y] = chars[y]
    BY <2>3 DEF Bind
  <2> QED
    BY <1>1, <2>1, <2>2, <2>4, <2>5 DEF CharsOK, TypeOf
<1>4. CASE SetChar
  <2>1. AtWork(StringOps) /\ Work.name \in DOMAIN chars /\ ~NoCharacter
    BY <1>4 DEF SetChar, Indexed, StringFound
  <2> DEFINE c == IF IsVar(Work.args[2]) THEN chars[Work.args[2][2]][1] ELSE Work.args[2][2]
             s == chars[Work.name]
  <2>2. c \in Char
    <3>1. CASE IsVar(Work.args[2])
      <4>1. /\ chars[Work.args[2][2]] \in Seq(Char)
            /\ Len(chars[Work.args[2][2]]) = 1
        BY <1>1, <2>1, <3>1, CharacterFacts DEF NoCharacter, CharsOK
      <4> QED
        BY <3>1, <4>1
    <3>2. CASE ~IsVar(Work.args[2])
      BY <2>1, <3>2, CharacterFacts
    <3> QED
      BY <3>1, <3>2
  <2>3. s \in Seq(Char) /\ TypeOf(Work.name) = "STRING"
    BY <1>1, <2>1, StringFacts DEF CharsOK
  <2>4. PICK k \in Indices :
           chars' = [chars EXCEPT ![Work.name] =
                        [p \in 1 .. Len(s) |-> IF p \in Spots(s, k) THEN c ELSE s[p]]]
    BY <1>4 DEF SetChar
  <2> DEFINE t == [p \in 1 .. Len(s) |-> IF p \in Spots(s, k) THEN c ELSE s[p]]
  <2>5. t \in Seq(Char)
    BY <2>2, <2>3
  <2> HIDE DEF t
  <2>6. chars' = [chars EXCEPT ![Work.name] = t]
    BY <2>4 DEF t
  <2> QED
    BY <1>1, <2>3, <2>5, <2>6 DEF CharsOK, TypeOf
<1>5. CASE GetChar
  <2>1. /\ AtWork(StringOps) /\ Work.op = "GET_STR_CHAR" /\ Work.name \in DOMAIN chars
        /\ Work.args[2][2] \in DOMAIN chars
    BY <1>5 DEF GetChar, Indexed, StringFound
  <2>2. chars[Work.name] \in Seq(Char)
    BY <1>1, <2>1 DEF CharsOK
  <2>3. PICK k \in Indices : \E c \in Char : chars' = [chars EXCEPT ![Work.args[2][2]] = <<c>>]
    <3>1. \A k : {chars[Work.name][p] : p \in Spots(chars[Work.name], k)} \subseteq Char
      BY <2>2, SpotsInside
    <3>2. NUL \in Char
      BY CharAssumption
    <3> QED
      BY <1>5, <3>1, <3>2 DEF GetChar
  <2>4. PICK c \in Char : chars' = [chars EXCEPT ![Work.args[2][2]] = <<c>>]
    BY <2>3
  <2>5. <<c>> \in Seq(Char) /\ Len(<<c>>) = 1
    OBVIOUS
  <2> QED
    BY <1>1, <2>4, <2>5 DEF CharsOK, TypeOf
<1>6. CASE ~(DeclareChars \/ SetChar \/ GetChar)
  <2>1. UNCHANGED chars
    BY <1>6 DEF Next, vars, DeclareNumber, Accumulate, AccumulateFails, Accumulated, CombineSkips,
       CombineFails, Combine, SkipString, IndexFails, CharacterFails, Assign,
       OutFails, Out, OutEnds, Jump, Label, Finish
  <2> QED
    BY <1>2, <2>1
<1> QED
  BY <1>3, <1>4, <1>5, <1>6

LEMMA EmptyPool == DOMAIN <<>> = {}
<1>1. \A s \in Seq({}) : Len(s) = 0 => DOMAIN s = {}
  OBVIOUS
<1>2. <<>> \in Seq({}) /\ Len(<<>>) = 0
  OBVIOUS
<1> QED
  BY <1>1, <1>2

LEMMA InitTyped == ASSUME Init PROVE TypeOK
<1>1. IsProgram(program) /\ Len(program.works) \in Nat
  BY ProgramsAssumption DEF Init, IsProgram
<1>2. numbers = <<>> /\ chars = <<>> /\ at = 1 /\ arg = 1
  BY DEF Init
<1>3. DOMAIN numbers = {} /\ DOMAIN chars = {}
  BY <1>2, EmptyPool
<1>4. AtOK
  BY <1>1, <1>2 DEF AtOK
<1>5. NumbersOK /\ CharsOK
  BY <1>3 DEF NumbersOK, CharsOK
<1> QED
  BY <1>1, <1>4, <1>5, TypeParts

LEMMA StepTyped == ASSUME TypeOK, [Next]_vars PROVE TypeOK'
<1>1. program' = program /\ AtOK' /\ NumbersOK' /\ CharsOK'
  BY StepMoves, StepNumbers, StepChars
<1>2. IsProgram(program)'
  BY <1>1 DEF TypeOK, IsProgram, DeclaredOnce
<1> QED
  BY <1>1, <1>2 DEF TypeOK, AtOK, NumbersOK, CharsOK

\* The state of the values stays well formed: each name in the pool of its
\* declared type, strings of characters, the iterator inside the works.
THEOREM ValuesTyped == Spec => []TypeOK
BY InitTyped, StepTyped, PTL DEF Spec
-----------------------------------------------------------------------------
(* Without jumps, every variable is found.                                 *)

Holds(x) ==
    /\ TypeOf(x) \in NumberTypes => x \in DOMAIN numbers
    /\ TypeOf(x) \in CharTypes => x \in DOMAIN chars

\* The declarations above the iterator have been performed.
Above == \A j \in 1..(at - 1) :
            program.works[j].op = "VAR" => Holds(program.works[j].name)
FoundInv == ~Jumping => Above /\ error # "null"

\* An object stays in its pool.
LEMMA PoolsGrow ==
    ASSUME TypeOK, [Next]_vars
    PROVE  DOMAIN numbers \subseteq DOMAIN numbers' /\ DOMAIN chars \subseteq DOMAIN chars'
<1>1. CASE DeclareNumber \/ DeclareChars
  BY <1>1 DEF DeclareNumber, DeclareChars, Bind
<1>2. CASE Accumulate \/ Combine
  BY <1>2 DEF Accumulate, Combine
<1>3. CASE SetChar \/ GetChar
  BY <1>3 DEF SetChar, GetChar
<1>4. CASE ~(DeclareNumber \/ DeclareChars \/ Accumulate \/ Combine \/ SetChar \/ GetChar)
  BY <1>4 DEF Next, vars, AccumulateFails, Accumulated, CombineSkips,
     CombineFails, SkipString, IndexFails, CharacterFails, Assign,
     OutFails, Out, OutEnds, Jump, Label, Finish
<1> QED
  BY <1>1, <1>2, <1>3, <1>4

\* The variables of the work that is performed are found.
LEMMA UsesFound ==
    ASSUME TypeOK, Above, NEW ops, AtWork(ops), NEW x \in Uses(Work)
    PROVE  Holds(x)
<1>1. WorkOK(program, at) /\ at \in 1..Len(program.works)
  BY AtWorkOK
<1>2. PICK j \in 1..(at - 1) : Declares(program.works[j], x)
  BY <1>1 DEF WorkOK, Work
<1> QED
  BY <1>2 DEF Above, Declares

\* The numbers a work takes are found.
LEMMA NumberFound ==
    ASSUME TypeOK, Above, NEW ops, AtWork(ops), NEW k \in 1..Len(Work.args),
           ANumber(Work.args[k], program.types)
    PROVE  ~Missing(Work.args[k])
<1>1. CASE IsVar(Work.args[k])
  <2>1. Work.args[k][2] \in Uses(Work)
    BY <1>1 DEF Uses, OperandVars
  <2>2. TypeOf(Work.args[k][2]) \in NumberTypes
    BY <1>1 DEF ANumber, NumberLiteral, VarOf, IsVar, TypeOf, NumberTypes
  <2> QED
    BY <2>1, <2>2, UsesFound DEF Holds, Missing
<1> QED
  BY <1>1 DEF Missing

\* The operands of an arithmetic instruction are numbers.
LEMMA MathTyped ==
    ASSUME TypeOK, AtWork(Math)
    PROVE  /\ Work.name \in Uses(Work) /\ TypeOf(Work.name) \in NumberTypes
           /\ \A k \in 1..Len(Work.args) :
                ANumber(Work.args[k], program.types) /\ LiteralOK(Work.args[k])
           /\ Work.op \in {"SUB", "DIV"} => Len(Work.args) = 2
<1>1. Work.op \in Math /\ WorkOK(program, at)
  BY AtWorkOK
<1>2. WorkTyped(Work, program.types) /\ (Work.op \in {"SUB", "DIV"} => Len(Work.args) = 2)
  BY <1>1 DEF WorkOK, Work
<1>3. ANumber(Var(Work.name), program.types) /\ AllNumbers(Work, program.types)
  BY <1>1, <1>2 DEF WorkTyped, Math, StringOps
<1>4. TypeOf(Work.name) \in NumberTypes
  BY <1>3 DEF ANumber, NumberLiteral, VarOf, Var, IsVar, TypeOf, NumberTypes
<1>5. \A k \in 1..Len(Work.args) : LiteralOK(Work.args[k])
  BY <1>1 DEF WorkOK, Work
<1> QED
  BY <1>1, <1>2, <1>3, <1>4, <1>5 DEF Uses, AllNumbers

LEMMA NothingMissed ==
    ASSUME TypeOK, Above, [Next]_vars
    PROVE  error' # "null" \/ error' = error
<1>1. ASSUME AccumulateFails \/ CombineFails PROVE FALSE
  <2>1. AtWork(Math)
    BY <1>1 DEF AccumulateFails, CombineFails, AtWork, Math
  <2>2. Work.name \in DOMAIN numbers
    BY <2>1, MathTyped, UsesFound DEF Holds
  <2>3. \A k \in 1..Len(Work.args) : ~Missing(Work.args[k])
    BY <2>1, MathTyped, NumberFound
  <2>4. CASE AccumulateFails
    <3>1. arg <= Len(Work.args) /\ Missing(Work.args[arg])
      BY <2>2, <2>4 DEF AccumulateFails
    <3>2. arg \in 1..Len(Work.args)
      <4>1. Len(Work.args) \in Nat /\ arg \in Nat \ {0}
        BY <2>1, AtWorkOK DEF TypeOK, WorkOK, Work
      <4> QED
        BY <3>1, <4>1
    <3> QED
      BY <2>3, <3>1, <3>2
  <2>5. CASE CombineFails
    <3>1. Work.op \in {"SUB", "DIV"} /\ (Missing(Work.args[1]) \/ Missing(Work.args[2]))
      BY <2>5 DEF CombineFails, AtWork
    <3>2. Len(Work.args) = 2
      BY <2>1, <3>1, MathTyped
    <3> QED
      BY <2>3, <3>1, <3>2
  <2> QED
    BY <1>1, <2>4, <2>5
<1>2. ASSUME AtWork(StringOps), StringFound PROVE ~Missing(Work.args[1]) /\ ~NoCharacter
  <2>1. Len(Work.args) = 2
    BY <1>2, AtWorkOK DEF WorkOK, Work
  <2>2. ANumber(Work.args[1], program.types)
    BY <1>2, StringFacts DEF AnIndex, ANumber, VarOf
  <2>3. ~Missing(Work.args[1])
    BY <1>2, <2>1, <2>2, NumberFound
  <2>4. CASE IsVar(Work.args[2])
    <3>1. Work.args[2][2] \in Uses(Work) /\ TypeOf(Work.args[2][2]) = "CHAR"
      BY <1>2, <2>1, <2>4, CharacterFacts DEF Uses, OperandVars
    <3> QED
      BY <1>2, <2>3, <3>1, UsesFound DEF Holds, CharTypes, NoCharacter
  <2> QED
    BY <2>3, <2>4 DEF NoCharacter
<1>3. CASE IndexFails
  <2>1. AtWork(StringOps) /\ StringFound
    BY <1>3 DEF IndexFails, StringFound
  <2> QED
    BY <1>2, <1>3, <2>1 DEF IndexFails, Throw
<1>4. CASE CharacterFails
  <2>1. AtWork(StringOps) /\ StringFound /\ NoCharacter
    BY <1>4 DEF CharacterFails, Indexed, StringFound
  <2> QED
    BY <1>2, <2>1
<1>5. CASE Assign
  <2>1. Work.op = "ASSIGN" /\ WorkOK(program, at) /\ AtWork({"ASSIGN"})
    BY <1>5, AtWorkOK DEF Assign
  <2>2. WorkTyped(Work, program.types)
    BY <2>1 DEF WorkOK, Work
  <2>3. Work.name \in DOMAIN program.types /\ Work.name \in Uses(Work)
    BY <2>1, <2>2 DEF WorkTyped, Math, StringOps, Uses
  <2>4. TypeOf(Work.name) \in NumberTypes \cup CharTypes
    BY <2>3 DEF TypeOK, IsProgram, TypeOf
  <2>5. Known(Work.name)
    BY <2>1, <2>3, <2>4, UsesFound DEF Holds, Known
  <2> QED
    BY <1>5, <2>5 DEF Assign, NextWork
<1>6. ASSUME OutFails PROVE FALSE
  <2>1. Work.op = "OUT" /\ WorkOK(program, at) /\ AtWork({"OUT"})
    BY <1>6, AtWorkOK DEF OutFails
  <2>2. WorkTyped(Work, program.types) /\ Len(Work.args) \in Nat /\ arg \in Nat \ {0}
    BY <2>1 DEF WorkOK, Work, TypeOK
  <2>3. arg \in 1..Len(Work.args) /\ IsVar(Work.args[arg]) /\ ~Known(Work.args[arg][2])
    BY <1>6, <2>2 DEF OutFails
  <2>4. Printed(Work.args[arg], program.types)
    BY <2>1, <2>2, <2>3 DEF WorkTyped, Math, StringOps
  <2>5. Work.args[arg][2] \in DOMAIN program.types /\ Work.args[arg][2] \in Uses(Work)
    BY <2>3, <2>4 DEF Printed, ALiteral, NumberLiteral, IsVar, Uses, OperandVars
  <2>6. TypeOf(Work.args[arg][2]) \in NumberTypes \cup CharTypes
    BY <2>5 DEF TypeOK, IsProgram, TypeOf
  <2> QED
    BY <2>1, <2>3, <2>5, <2>6, UsesFound DEF Holds, Known
<1>7. CASE ~(AccumulateFails \/ CombineFails \/ IndexFails \/ CharacterFails \/ Assign \/ OutFails)
  BY <1>7 DEF Next, vars, DeclareNumber, DeclareChars, Accumulate, Accumulated, CombineSkips,
     Combine, SkipString, SetChar, GetChar, Out, OutEnds, Jump, Label, Finish, NextWork
<1> QED
  BY <1>1, <1>3, <1>4, <1>5, <1>6, <1>7

\* What a declaration leaves behind it.
LEMMA DeclarationHolds ==
    ASSUME TypeOK, DeclareNumber \/ DeclareChars, NEW x, x = Work.name
    PROVE  Holds(x)'
<1>1. Work.args[1][2] = TypeOf(x) /\ TypeOf(x)' = TypeOf(x)
  BY DeclarationFacts DEF DeclareNumber, DeclareChars, TypeOf
<1>2. CASE DeclareNumber
  <2>1. TypeOf(x) \notin CharTypes
    BY <1>1, <1>2 DEF DeclareNumber, CharTypes
  <2>2. x \in DOMAIN numbers'
    BY <1>2 DEF DeclareNumber, Bind
  <2> QED
    BY <1>1, <2>1, <2>2 DEF Holds
<1>3. CASE DeclareChars
  <2>1. TypeOf(x) \notin NumberTypes
    BY <1>1, <1>3 DEF DeclareChars, NumberTypes
  <2>2. x \in DOMAIN chars'
    BY <1>3 DEF DeclareChars, Bind
  <2> QED
    BY <1>1, <2>1, <2>2 DEF Holds
<1> QED
  BY <1>2, <1>3

LEMMA StepFound == ASSUME TypeOK, FoundInv, [Next]_vars PROVE FoundInv'
<1>1. program' = program /\ at \in Nat
  BY StepMoves DEF TypeOK, IsProgram
<1>2. Jumping' <=> Jumping
  BY <1>1 DEF Jumping, Body
<1>3. SUFFICES ASSUME ~Jumping PROVE Above' /\ error' # "null"
  BY <1>2 DEF FoundInv
<1>4. Above /\ error # "null"
  BY <1>3 DEF FoundInv
<1>5. error' # "null"
  BY <1>4, NothingMissed
<1>6. \A x : Holds(x) => Holds(x)'
  BY <1>1, PoolsGrow DEF Holds, TypeOf
<1>7. CASE DeclareNumber \/ DeclareChars
  <2>1. at' = at + 1
    BY <1>7 DEF DeclareNumber, DeclareChars, NextWork
  <2>2. \A x : x = program.works[at].name => Holds(x)'
    BY <1>7, DeclarationHolds DEF Work
  <2>3. \A j \in 1..(at' - 1) : j \in 1..(at - 1) \/ j = at
    BY <1>1, <2>1
  <2>4. \A j \in 1..(at' - 1) : \A x :
           program.works[j].op = "VAR" /\ x = program.works[j].name => Holds(x)'
    BY <1>4, <1>6, <2>2, <2>3 DEF Above
  <2> QED
    BY <1>1, <1>5, <2>4 DEF Above, Holds, TypeOf
<1>8. ASSUME at' = at \/ (at' = at + 1 /\ Work.op # "VAR")
      PROVE  Above'
  <2>1. \A j \in 1..(at' - 1) : j \in 1..(at - 1) \/ program.works[j].op # "VAR"
    BY <1>1, <1>8 DEF Work
  <2>2. \A j \in 1..(at' - 1) : \A x :
           program.works[j].op = "VAR" /\ x = program.works[j].name => Holds(x)'
    BY <1>4, <1>6, <2>1 DEF Above
  <2> QED
    BY <1>1, <2>2 DEF Above, Holds, TypeOf
<1>9. ~Jump
  <2>1. ASSUME Jump PROVE FALSE
    <3>1. Work \in Body /\ Work.op = "JMP"
      BY <2>1, AtWorkOK DEF Jump
    <3> QED
      BY <1>3, <3>1 DEF Jumping
  <2> QED
    BY <2>1
<1>10. CASE ~(DeclareNumber \/ DeclareChars)
  <2>1. at' = at \/ (at' = at + 1 /\ Work.op # "VAR")
    <3>1. CASE Accumulate \/ AccumulateFails \/ Accumulated
      BY <3>1 DEF Accumulate, AccumulateFails, Accumulated, NextWork, Throw, AtWork
    <3>2. CASE CombineSkips \/ CombineFails \/ Combine
      BY <3>2 DEF CombineSkips, CombineFails, Combine, NextWork, Throw, AtWork
    <3>3. CASE SkipString \/ IndexFails \/ CharacterFails
      BY <3>3 DEF SkipString, IndexFails, CharacterFails, NextWork, Throw, AtWork, StringOps
    <3>4. CASE SetChar \/ GetChar
      BY <3>4 DEF SetChar, GetChar, Indexed, StringFound, NextWork, AtWork, StringOps
    <3>5. CASE Assign \/ OutFails \/ Out \/ OutEnds \/ Label \/ Finish
      BY <3>5 DEF Assign, OutFails, Out, OutEnds, Label, Finish, NextWork, Throw, AtWork
    <3>6. CASE UNCHANGED vars
      BY <3>6 DEF vars
    <3> QED
      BY <1>9, <1>10, <3>1, <3>2, <3>3, <3>4, <3>5, <3>6 DEF Next
  <2> QED
    BY <1>5, <1>8, <2>1
<1> QED
  BY <1>7, <1>10

\* A program without jumps never meets a variable that has no object.
THEOREM StraightFinds == Spec => []FindsVariables
<1>1. Init => TypeOK /\ FoundInv
  <2>1. ASSUME Init PROVE FoundInv
    <3>1. error = "" /\ at = 1
      BY <2>1 DEF Init
    <3>2. 1..(1 - 1) = {}
      OBVIOUS
    <3>3. Above
      BY <3>1, <3>2 DEF Above
    <3> QED
      BY <3>1, <3>3 DEF FoundInv
  <2> QED
    BY <2>1, InitTyped
<1>2. TypeOK /\ FoundInv /\ [Next]_vars => (TypeOK /\ FoundInv)'
  BY StepTyped, StepFound
<1>3. FoundInv => FindsVariables
  BY DEF FoundInv, FindsVariables
<1> QED
  BY <1>1, <1>2, <1>3, PTL DEF Spec
-----------------------------------------------------------------------------
(* Tags follow the declared types.                                         *)

Tagged(n, x) == n.real = (TypeOf(x) = "REAL") /\ n.dbl = n.real
TagsInv == /\ \A x \in DOMAIN numbers : Tagged(numbers[x], x)
           /\ "bits" \notin ub /\ error # "real"

\* The tag and the content of a double and of a long.
LEMMA Contents ==
    /\ Double.real = TRUE /\ Double.dbl = TRUE
    /\ \A v : Long(v).real = FALSE /\ Long(v).dbl = FALSE
BY DEF Double, Long

LEMMA RealTagged ==
    ASSUME NEW n, NEW x, n.real = TRUE, n.dbl = TRUE, TypeOf(x) = "REAL" PROVE Tagged(n, x)
BY DEF Tagged

LEMMA LongTagged ==
    ASSUME NEW n, NEW x, n.real = FALSE, n.dbl = FALSE, TypeOf(x) # "REAL" PROVE Tagged(n, x)
BY DEF Tagged

\* The operand of a work that keeps types apart is a real when it is a
\* variable of that type, and never a mixture.
LEMMA OperandTag ==
    ASSUME TypeOK, TagsInv, NEW opd, opd[1] # "point", ~Missing(opd),
           IsVar(opd) \/ opd[1] = "const"
    PROVE  Operand(opd).real = IsReal(opd) /\ ~Mixed(Operand(opd))
<1>1. CASE IsVar(opd)
  <2>1. Operand(opd) = numbers[opd[2]] /\ opd[2] \in DOMAIN numbers
    BY <1>1 DEF Operand, Missing, IsVar
  <2>2. Tagged(numbers[opd[2]], opd[2]) /\ numbers[opd[2]] \in Number
    BY <2>1 DEF TagsInv, TypeOK
  <2> QED
    BY <1>1, <2>1, <2>2 DEF Tagged, IsReal, Mixed, Number
<1>2. CASE ~IsVar(opd) /\ opd[1] = "const"
  BY <1>2 DEF Operand, IsReal, Mixed, Long
<1> QED
  BY <1>1, <1>2

LEMMA WorkSeparates ==
    ASSUME TypeOK, Separated, NEW ops, AtWork(ops)
    PROVE  Separates(Work)
BY AtWorkOK DEF Separated

\* An operand of arithmetic is a variable or an integer.
LEMMA ArithmeticOperand ==
    ASSUME TypeOK, TagsInv, Separated, AtWork(Math), NEW k \in 1..Len(Work.args),
           ~Missing(Work.args[k])
    PROVE  /\ Operand(Work.args[k]) \in Number /\ ~Mixed(Operand(Work.args[k]))
           /\ Operand(Work.args[k]).real = IsReal(Work.args[k])
<1>1. ANumber(Work.args[k], program.types) /\ LiteralOK(Work.args[k])
  BY MathTyped
<1>2. NoPoint(Work)
  BY WorkSeparates, AtWorkOK DEF Separates, Math, StringOps
<1>3. Work.args[k][1] # "point" /\ (IsVar(Work.args[k]) \/ Work.args[k][1] = "const")
  BY <1>1, <1>2 DEF NoPoint, ANumber, NumberLiteral, VarOf
<1> QED
  BY <1>1, <1>3, OperandTag, OperandIsNumber

\* The index of a string instruction is no real.
LEMMA IndexTag ==
    ASSUME TypeOK, TagsInv, Separated, AtWork(StringOps), ~Missing(Work.args[1])
    PROVE  ~Index.real /\ ~Mixed(Index)
<1>1. AnIndex(Work.args[1], program.types) /\ Len(Work.args) = 2
  BY StringFacts, AtWorkOK DEF WorkOK, Work
<1>2. NoPoint(Work)
  BY WorkSeparates, AtWorkOK DEF Separates, Math, StringOps
<1>3. /\ Work.args[1][1] # "point" /\ (IsVar(Work.args[1]) \/ Work.args[1][1] = "const")
      /\ ~IsReal(Work.args[1])
  BY <1>1, <1>2 DEF NoPoint, AnIndex, NumberLiteral, VarOf, IsReal, TypeOf, IsVar
<1> QED
  BY <1>3, OperandTag DEF Index

\* What a declaration puts in the pool.
LEMMA DeclaredTag ==
    ASSUME TypeOK, Separated, AtWork({"VAR"}), Work.args[1][2] \in NumberTypes,
           NEW n \in NumbersOf(Work.args[1][2], Work.args[2])
    PROVE  Tagged(n, Work.name) /\ ~Misread(Work.args[1][2], Work.args[2])
<1> DEFINE type == Work.args[1][2]  lit == Work.args[2]
<1>1. type = TypeOf(Work.name)
  BY DeclarationFacts
<1>2. ~Misread(type, lit)
  BY <1>1, WorkSeparates, AtWorkOK DEF Separates, Math, StringOps
<1>3. CASE type = "REAL"
  <2>1. n = Double
    BY <1>3 DEF NumbersOf
  <2> QED
    BY <1>1, <1>2, <1>3, <2>1, Contents, RealTagged
<1>4. CASE type # "REAL"
  <2>1. \E v : n = Long(v)
    <3>1. CASE lit[1] = "const"
      BY <1>4, <3>1 DEF NumbersOf
    <3>2. CASE lit[1] = "string"
      BY <1>4, <3>2 DEF NumbersOf
    <3>3. CASE lit[1] \notin {"const", "string"}
      BY <1>4, <3>3 DEF NumbersOf
    <3> QED
      BY <3>1, <3>2, <3>3
  <2> QED
    BY <1>1, <1>2, <1>4, <2>1, Contents, LongTagged
<1> QED
  BY <1>3, <1>4

LEMMA StepTags == ASSUME TypeOK, Separated, TagsInv, [Next]_vars PROVE TagsInv'
<1>1. program' = program
  BY StepMoves
<1>2. ASSUME UNCHANGED numbers, ub' = ub \/ "bits" \notin ub', error' = error \/ error' # "real"
      PROVE  TagsInv'
  BY <1>1, <1>2 DEF TagsInv, Tagged, TypeOf
<1>3. ASSUME NEW v, \A x : x = Work.name => Tagged(v, x), Work.name \in DOMAIN numbers,
             numbers' = [numbers EXCEPT ![Work.name] = v], "bits" \notin ub', error' = error
      PROVE  TagsInv'
  BY <1>1, <1>3 DEF TagsInv, Tagged, TypeOf
<1>4. CASE DeclareNumber
  <2>1. AtWork({"VAR"}) /\ Work.args[1][2] \in NumberTypes
    BY <1>4 DEF DeclareNumber, NumberTypes
  <2>2. PICK n \in NumbersOf(Work.args[1][2], Work.args[2]) : numbers' = Bind(numbers, Work.name, n)
    BY <1>4 DEF DeclareNumber
  <2>3. Tagged(n, Work.name) /\ ~Misread(Work.args[1][2], Work.args[2])
    BY <2>1, <2>2, DeclaredTag
  <2>4. "bits" \notin ub' /\ error' = error
    BY <1>4, <2>3 DEF DeclareNumber, Note, If, NextWork, TagsInv
  <2>5. \A y \in DOMAIN numbers' :
           (y = Work.name /\ numbers'[y] = n) \/ (y \in DOMAIN numbers /\ numbers'[y] = numbers[y])
    BY <2>2 DEF Bind
  <2>6. \A y \in DOMAIN numbers' : Tagged(numbers'[y], y)
    BY <2>3, <2>5 DEF TagsInv
  <2> QED
    BY <1>1, <2>4, <2>6 DEF TagsInv, Tagged, TypeOf
<1>5. CASE Accumulate
  <2> DEFINE n == Operand(Work.args[arg])
  <2>1. /\ AtWork(Math) /\ Work.op \in {"ADD", "MUL"} /\ arg \in 1..Len(Work.args)
        /\ Work.name \in DOMAIN numbers /\ ~Missing(Work.args[arg])
    <3>1. arg \in 1..Len(Work.args)
      BY <1>5, ReachedFacts DEF Accumulate
    <3> QED
      BY <1>5, <3>1 DEF Accumulate, AtWork, Math
  <2>2. n \in Number /\ ~Mixed(n) /\ n.real = IsReal(Work.args[arg])
    BY <2>1, ArithmeticOperand
  <2>3. Old \in Number /\ Tagged(Old, Work.name)
    BY <2>1 DEF Old, TagsInv, TypeOK
  <2>4. n.real => Old.real
    <3>1. SomeReal(Work) => TypeOf(Work.name) = "REAL"
      BY <2>1, WorkSeparates DEF Separates, Math, StringOps
    <3> QED
      BY <2>1, <2>2, <2>3, <3>1 DEF SomeReal, Tagged
  <2>5. PICK r \in Updates(Work.op, Old, n) : numbers' = [numbers EXCEPT ![Work.name] = r]
    BY <1>5 DEF Accumulate
  <2>6. r.real = Old.real /\ r.dbl = Old.real
    <3>1. CASE Old.real
      <4>1. r = Double /\ Old.real = TRUE
        BY <2>3, <2>5, <3>1 DEF Updates, Number
      <4> QED
        BY <4>1, Contents
    <3>2. CASE ~Old.real
      <4>1. r \in Computed(Work.op, Old, n)
        BY <2>4, <2>5, <3>2 DEF Updates
      <4> QED
        BY <2>2, <2>3, <3>2, <4>1, ComputedIsLong DEF Tagged
    <3> QED
      BY <3>1, <3>2
  <2>7. "bits" \notin ub' /\ error' = error
    BY <1>5, <2>2, <2>3, <2>4 DEF Accumulate, Note, If, TagsInv, Mixed, Tagged
  <2>8. \A x : x = Work.name => Tagged(r, x)
    BY <2>3, <2>6 DEF Tagged
  <2> QED
    BY <1>3, <2>1, <2>5, <2>7, <2>8
<1>6. CASE Combine
  <2> DEFINE x == Operand(Work.args[1])  y == Operand(Work.args[2])
  <2>1. /\ AtWork(Math) /\ Work.op \in {"SUB", "DIV"} /\ Work.name \in DOMAIN numbers
        /\ ~Missing(Work.args[1]) /\ ~Missing(Work.args[2])
    BY <1>6 DEF Combine, AtWork, Math
  <2>2. Len(Work.args) = 2
    BY <2>1, MathTyped
  <2>3. /\ x \in Number /\ ~Mixed(x) /\ x.real = IsReal(Work.args[1])
        /\ y \in Number /\ ~Mixed(y) /\ y.real = IsReal(Work.args[2])
    BY <2>1, <2>2, ArithmeticOperand
  <2>4. (x.real \/ y.real) <=> TypeOf(Work.name) = "REAL"
    <3>1. SomeReal(Work) <=> TypeOf(Work.name) = "REAL"
      BY <2>1, WorkSeparates DEF Separates, Math, StringOps
    <3>2. SomeReal(Work) <=> IsReal(Work.args[1]) \/ IsReal(Work.args[2])
      BY <2>2 DEF SomeReal
    <3> QED
      BY <2>3, <3>1, <3>2
  <2>5. "bits" \notin ub' /\ error' = error
    BY <1>6, <2>3 DEF Combine, Note, If, TagsInv, NextWork
  <2>6. CASE UNCHANGED numbers
    BY <1>2, <2>5, <2>6
  <2>7. ASSUME NEW r \in Results(Work.op, x, y), numbers' = [numbers EXCEPT ![Work.name] = r]
        PROVE  TagsInv'
    <3>1. r.real = (x.real \/ y.real) /\ r.dbl = r.real
      <4>1. CASE x.real \/ y.real
        <5>1. r = Double
          BY <2>7, <4>1 DEF Results
        <5> QED
          BY <4>1, <5>1, Contents
      <4>2. CASE ~(x.real \/ y.real)
        <5>1. r \in Computed(Work.op, x, y)
          BY <2>7, <4>2 DEF Results
        <5> QED
          BY <2>3, <4>2, <5>1, ComputedIsLong
      <4> QED
        BY <4>1, <4>2
    <3>2. \A z : z = Work.name => Tagged(r, z)
      BY <2>4, <3>1 DEF Tagged
    <3> QED
      BY <1>3, <2>1, <2>5, <2>7, <3>2
  <2> QED
    BY <1>6, <2>6, <2>7 DEF Combine
<1>7. CASE IndexFails \/ CharacterFails \/ SetChar \/ GetChar
  <2>1. AtWork(StringOps) /\ UNCHANGED numbers
    BY <1>7 DEF IndexFails, CharacterFails, SetChar, GetChar, Indexed, StringFound
  <2>2. Missing(Work.args[1]) \/ (~Index.real /\ ~Mixed(Index))
    BY <2>1, IndexTag
  <2>3. ub' = ub \/ "bits" \notin ub'
    <3>1. CASE IndexFails
      BY <2>2, <3>1 DEF IndexFails, Note, If, TagsInv
    <3>2. CASE CharacterFails
      BY <2>2, <3>2 DEF CharacterFails, Indexed, Note, If, TagsInv
    <3>3. CASE SetChar
      BY <2>2, <3>3 DEF SetChar, Indexed, Note, If, TagsInv
    <3>4. CASE GetChar
      BY <2>2, <3>4 DEF GetChar, Indexed, Note, If, TagsInv
    <3> QED
      BY <1>7, <3>1, <3>2, <3>3, <3>4
  <2>4. error' = error \/ error' # "real"
    BY <1>7, <2>2 DEF IndexFails, CharacterFails, SetChar, GetChar, NextWork, Throw
  <2> QED
    BY <1>2, <2>1, <2>3, <2>4
<1>8. CASE Out
  <2> DEFINE opd == Work.args[arg]
             number == opd[1] \in {"const", "point"} \/ (IsVar(opd) /\ opd[2] \in DOMAIN numbers)
  <2>1. Work.op = "OUT" /\ AtWork({"OUT"}) /\ WorkOK(program, at) /\ UNCHANGED <<numbers, error>>
    BY <1>8, AtWorkOK DEF Out
  <2>2. arg \in 1..Len(Work.args)
    BY <1>8, <2>1 DEF Out, WorkOK, Work, TypeOK
  <2>3. opd[1] # "point"
    BY <2>1, <2>2, WorkSeparates DEF Separates, StringOps, NoPoint
  <2>4. number => ~Mixed(Operand(opd))
    BY <2>3, OperandTag DEF Missing, IsVar
  <2>5. "bits" \notin ub'
    BY <1>8, <2>4 DEF Out, Note, If, TagsInv
  <2> QED
    BY <1>2, <2>1, <2>5
<1>9. CASE DeclareChars
  <2>1. "bits" \notin ub' /\ UNCHANGED <<numbers, error>>
    BY <1>9 DEF DeclareChars, Note, If, NextWork, TagsInv
  <2> QED
    BY <1>2, <2>1
<1>10. CASE ~(DeclareNumber \/ DeclareChars \/ Accumulate \/ Combine \/ IndexFails
              \/ CharacterFails \/ SetChar \/ GetChar \/ Out)
  <2>1. UNCHANGED <<numbers, ub>> /\ (error' = error \/ error' = "null")
    BY <1>10 DEF Next, vars, AccumulateFails, Accumulated, CombineSkips, CombineFails,
       SkipString, Assign, OutFails, OutEnds, Jump, Label, Finish, NextWork, Throw
  <2> QED
    BY <1>2, <2>1
<1> QED
  BY <1>4, <1>5, <1>6, <1>7, <1>8, <1>9, <1>10

\* In a program that keeps reals and numerics apart, every Number has the tag
\* and the content of its declared type.
THEOREM TagsKept == Spec => []TagsFollowTypes
<1> DEFINE Kept == Separated => TagsInv
<1>1. Init => TypeOK /\ Kept
  <2>1. ASSUME Init PROVE Kept
    <3>1. numbers = <<>> /\ ub = {} /\ error = ""
      BY <2>1 DEF Init
    <3>2. DOMAIN numbers = {}
      BY <3>1, EmptyPool
    <3> QED
      BY <3>1, <3>2 DEF TagsInv
  <2> QED
    BY <2>1, InitTyped
<1>2. TypeOK /\ Kept /\ [Next]_vars => (TypeOK /\ Kept)'
  <2>1. ASSUME TypeOK, Kept, [Next]_vars PROVE Kept'
    <3>1. Separated' => Separated
      <4>1. program' = program
        BY <2>1, StepMoves
      <4> QED
        BY <4>1 DEF Separated, Separates, Body, TypeOf, SomeReal, IsReal
    <3> QED
      BY <2>1, <3>1, StepTags
  <2> QED
    BY <2>1, StepTyped
<1>3. Kept => TagsFollowTypes
  BY DEF TagsInv, Tagged, TagsFollowTypes
<1> QED
  BY <1>1, <1>2, <1>3, PTL DEF Spec
-----------------------------------------------------------------------------
(* Indices stay inside the strings.                                        *)

AllInText == \A w \in StringWorks : InText(w)
Measured(s, x) == \E text \in DeclaredText(x) : Len(s) = Len(text) /\ Len(text) < IntHalf
StringsInv == /\ \A x \in DOMAIN chars : TypeOf(x) = "STRING" => Measured(chars[x], x)
              /\ AllInText => "string" \notin ub /\ error # "range"

LEMMA NarrowKeeps ==
    ASSUME NEW n \in 0..(IntHalf - 1)
    PROVE  Narrow(n) = n
<1>1. IntHalf \in Nat \ {0}
  BY IntAssumption, HalfAssumption
<1>2. n + IntHalf \in 0..(2 * IntHalf - 1)
  BY <1>1
<1>3. (n + IntHalf) % (2 * IntHalf) = n + IntHalf
  BY <1>1, <1>2
<1> QED
  BY <1>1, <1>3 DEF Narrow

\* An index below the length of the declared text is the place it names.
LEMMA IndexInside ==
    ASSUME TypeOK, StringsInv, AllInText, StringFound
    PROVE  /\ \A i \in Longs(Index) : ~TooLarge(i)
           /\ \A k \in Indices : Spots(chars[Work.name], k) # {}
<1> DEFINE n == Work.args[1][2]  s == chars[Work.name]
<1>1. AtWork(StringOps) /\ Work \in StringWorks /\ Work.name \in DOMAIN chars
  BY AtWorkOK DEF StringFound, StringWorks
<1>2. Work.args[1][1] = "const" /\ n \in Word /\ n >= 0
  BY <1>1, StringFacts DEF AllInText, InText, AnIndex, NumberLiteral, VarOf, IsVar, LiteralOK
<1>3. s \in Seq(Char) /\ Measured(s, Work.name)
  BY <1>1, StringFacts DEF StringsInv, TypeOK
<1>4. PICK text \in DeclaredText(Work.name) : Len(s) = Len(text) /\ Len(text) < IntHalf
  BY <1>3 DEF Measured
<1>5. n < Len(s)
  BY <1>1, <1>4 DEF AllInText, InText
<1>6. n \in Int /\ Len(s) \in Nat /\ IntHalf \in Nat
  BY <1>2, <1>3, IntAssumption, HalfAssumption DEF Word
<1>7. n \in 0..(IntHalf - 1) /\ n + 1 \in 1..Len(s)
  BY <1>2, <1>4, <1>5, <1>6
<1>8. Index = Long(n)
  BY <1>2 DEF Index, Operand, IsVar
<1>9. Longs(Index) = {n}
  BY <1>8 DEF Longs, Long
<1>10. Indices \subseteq {n}
  BY <1>7, <1>9, NarrowKeeps DEF Indices
<1>11. n + 1 \in Spots(s, n)
  BY <1>7 DEF Spots
<1> QED
  BY <1>5, <1>6, <1>9, <1>10, <1>11 DEF TooLarge

LEMMA StepStrings == ASSUME TypeOK, StringsInv, [Next]_vars PROVE StringsInv'
<1>1. program' = program
  BY StepMoves
<1>2. \A x : (DeclaredText(x)' = DeclaredText(x)) /\ (TypeOf(x)' = TypeOf(x))
  BY <1>1 DEF DeclaredText, Body, Declares, TypeOf
<1>3. AllInText' <=> AllInText
  BY <1>1 DEF AllInText, StringWorks, InText, DeclaredText, Body, Declares
<1>4. ASSUME \A x \in DOMAIN chars' : TypeOf(x) = "STRING" => Measured(chars'[x], x),
             AllInText => "string" \notin ub' /\ error' # "range"
      PROVE  StringsInv'
  BY <1>2, <1>3, <1>4 DEF StringsInv, Measured
<1>5. CASE DeclareChars
  <2> DEFINE type == Work.args[1][2]  lit == Work.args[2]
  <2>1. /\ type = TypeOf(Work.name)
        /\ type = "STRING" => Len(TextOf(lit)) < IntHalf
    BY <1>5, DeclarationFacts DEF DeclareChars
  <2>2. PICK s \in CharsOf(type, lit) : chars' = Bind(chars, Work.name, s)
    BY <1>5 DEF DeclareChars
  <2>3. ASSUME type = "STRING" PROVE Measured(s, Work.name)
    <3>1. s = TextOf(lit)
      BY <2>2, <2>3 DEF CharsOf
    <3>2. Work \in Body /\ Declares(Work, Work.name)
      BY <1>5, AtWorkOK DEF DeclareChars, Declares
    <3>3. TextOf(lit) \in DeclaredText(Work.name)
      BY <3>2 DEF DeclaredText
    <3> QED
      BY <2>1, <2>3, <3>1, <3>3 DEF Measured
  <2>4. \A y \in DOMAIN chars' :
           (y = Work.name /\ chars'[y] = s) \/ (y \in DOMAIN chars /\ chars'[y] = chars[y])
    BY <2>2 DEF Bind
  <2>5. \A x \in DOMAIN chars' : TypeOf(x) = "STRING" => Measured(chars'[x], x)
    BY <2>1, <2>3, <2>4 DEF StringsInv
  <2>6. AllInText => "string" \notin ub' /\ error' # "range"
    BY <1>5 DEF DeclareChars, Note, If, NextWork, StringsInv
  <2> QED
    BY <1>4, <2>5, <2>6
<1>6. CASE SetChar
  <2> DEFINE s == chars[Work.name]
  <2>1. StringFound /\ Work.name \in DOMAIN chars
    BY <1>6 DEF SetChar, Indexed, StringFound
  <2>2. s \in Seq(Char)
    BY <2>1 DEF TypeOK
  <2>3. PICK k, t :
           /\ k \in Indices
           /\ t = [p \in 1 .. Len(s) |-> IF p \in Spots(s, k)
                      THEN IF IsVar(Work.args[2]) THEN chars[Work.args[2][2]][1] ELSE Work.args[2][2]
                      ELSE s[p]]
           /\ chars' = [chars EXCEPT ![Work.name] = t]
           /\ "string" \in ub' => "string" \in ub \/ Spots(s, k) = {}
    BY <1>6 DEF SetChar, Note, If
  <2>4. Len(t) = Len(s)
    BY <2>2, <2>3
  <2>5. \A x : Measured(s, x) => Measured(t, x)
    BY <2>4 DEF Measured
  <2>6. \A x \in DOMAIN chars' : TypeOf(x) = "STRING" => Measured(chars'[x], x)
    BY <2>1, <2>3, <2>5 DEF StringsInv
  <2>7. AllInText => "string" \notin ub' /\ error' # "range"
    BY <1>6, <2>1, <2>3, IndexInside DEF SetChar, NextWork, StringsInv
  <2> QED
    BY <1>4, <2>6, <2>7
<1>7. CASE GetChar
  <2>1. /\ StringFound /\ AtWork(StringOps) /\ Work.op = "GET_STR_CHAR"
        /\ Work.args[2][2] \in DOMAIN chars
    BY <1>7 DEF GetChar, Indexed, StringFound
  <2>2. TypeOf(Work.args[2][2]) = "CHAR"
    BY <2>1, CharacterFacts
  <2>3. PICK k, c :
           /\ k \in Indices
           /\ chars' = [chars EXCEPT ![Work.args[2][2]] = <<c>>]
           /\ "string" \in ub' => "string" \in ub \/ Spots(chars[Work.name], k) = {}
    BY <1>7 DEF GetChar, Note, If
  <2>4. \A x \in DOMAIN chars' : TypeOf(x) = "STRING" => Measured(chars'[x], x)
    BY <2>2, <2>3 DEF StringsInv
  <2>5. AllInText => "string" \notin ub' /\ error' # "range"
    BY <1>7, <2>1, <2>3, IndexInside DEF GetChar, NextWork, StringsInv
  <2> QED
    BY <1>4, <2>4, <2>5
<1>8. ASSUME UNCHANGED chars, "string" \in ub' => "string" \in ub, error' # "range" \/ error' = error
      PROVE  StringsInv'
  BY <1>4, <1>8 DEF StringsInv
<1>9. CASE IndexFails
  <2>1. StringFound /\ UNCHANGED chars /\ ("string" \in ub' => "string" \in ub)
    BY <1>9 DEF IndexFails, Note, If
  <2>2. AllInText => error' # "range"
    BY <1>9, <2>1, IndexInside DEF IndexFails, Throw
  <2> QED
    BY <1>4, <2>1, <2>2 DEF StringsInv
<1>10. CASE ~(DeclareChars \/ SetChar \/ GetChar \/ IndexFails)
  <2>1. UNCHANGED chars /\ (error' = error \/ error' = "null")
    BY <1>10 DEF Next, vars, DeclareNumber, Accumulate, AccumulateFails, Accumulated, CombineSkips,
       CombineFails, Combine, SkipString, CharacterFails, Assign, OutFails, Out, OutEnds, Jump,
       Label, Finish, NextWork, Throw
  <2>2. "string" \in ub' => "string" \in ub
    BY <1>10 DEF Next, vars, DeclareNumber, Accumulate, AccumulateFails, Accumulated, CombineSkips,
       CombineFails, Combine, SkipString, CharacterFails, Assign, OutFails, Out, OutEnds, Jump,
       Label, Finish, Note, If
  <2> QED
    BY <1>8, <2>1, <2>2
<1> QED
  BY <1>5, <1>6, <1>7, <1>9, <1>10

\* A program whose indices are literals below the length of its strings never
\* touches what is outside of a string nor fails an index test.
THEOREM StringsSafe == Spec => []StaysInStrings
<1>1. Init => TypeOK /\ StringsInv
  <2>1. ASSUME Init PROVE StringsInv
    <3>1. chars = <<>> /\ ub = {} /\ error = ""
      BY <2>1 DEF Init
    <3>2. DOMAIN chars = {}
      BY <3>1, EmptyPool
    <3> QED
      BY <3>1, <3>2 DEF StringsInv
  <2> QED
    BY <2>1, InitTyped
<1>2. TypeOK /\ StringsInv /\ [Next]_vars => (TypeOK /\ StringsInv)'
  BY StepTyped, StepStrings
<1>3. StringsInv => StaysInStrings
  BY DEF StringsInv, AllInText, StaysInStrings
<1> QED
  BY <1>1, <1>2, <1>3, PTL DEF Spec
=============================================================================

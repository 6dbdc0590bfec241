--------------------------- MODULE ValueProperties ---------------------------
(***************************************************************************)
(* What a program may rely on about the values of its variables.           *)
(***************************************************************************)
EXTENDS Values

NumberTypes == {"NUMERIC", "REAL"}
CharTypes == {"CHAR", "STRING"}

LiteralOK(lit) ==
    /\ lit[1] = "const" => lit[2] \in Word
    /\ lit[1] = "char" => lit[2] \in Char

OperandVars(w) == {w.args[k][2] : k \in {n \in 1..Len(w.args) : IsVar(w.args[n])}}
Uses(w) == OperandVars(w) \cup (IF w.op \in Math \cup StringOps \cup {"ASSIGN"} THEN {w.name} ELSE {})
Declares(w, x) == w.op = "VAR" /\ w.name = x

\* A program of the instructions modelled here, as the parser lets it
\* through: operands have a type their work takes, a variable is declared
\* once and above its uses.  A string's length is an int.
Covered == Math \cup StringOps \cup {"VAR", "ASSIGN", "OUT", "JMP", "LABEL"}
DeclarationOK(p, w) ==
    /\ w.name \in DOMAIN p.types /\ w.args[1] = Typename(p.types[w.name])
    /\ p.types[w.name] = "STRING" =>
         TextOf(w.args[2]) \in Seq(Char) /\ Len(TextOf(w.args[2])) < IntHalf
WorkOK(p, i) ==
    LET w == p.works[i]
    IN /\ w.op \in Covered /\ WorkTyped(w, p.types)
       /\ Len(w.args) \in Nat /\ \A k \in 1..Len(w.args) : LiteralOK(w.args[k])
       /\ w.op \in StringOps => Len(w.args) = 2
       /\ w.op \in {"SUB", "DIV"} => Len(w.args) = 2
       /\ w.op = "ASSIGN" => Len(w.args) = 1
       /\ w.op = "VAR" => DeclarationOK(p, w)
       /\ w.op = "JMP" => w.at[2] \in 1..Len(p.works)
       /\ \A x \in Uses(w) : \E j \in 1..(i - 1) : Declares(p.works[j], x)
DeclaredOnce(p) ==
    \A i, j \in 1..Len(p.works) :
        p.works[i].op = "VAR" /\ Declares(p.works[j], p.works[i].name) => j = i
IsProgram(p) ==
    /\ DOMAIN p.types \subseteq Names
    /\ \A x \in DOMAIN p.types : p.types[x] \in NumberTypes \cup CharTypes
    /\ Len(p.works) \in Nat /\ \A i \in 1..Len(p.works) : WorkOK(p, i)
    /\ DeclaredOnce(p)

ASSUME ProgramsAssumption == \A p \in Programs : IsProgram(p)

Body == {program.works[i] : i \in 1..Len(program.works)}
TypeOf(x) == program.types[x]

\* Each name is in the pool of its type; no pool holds anything else.
TypeOK ==
    /\ IsProgram(program)
    /\ at \in 1..(Len(program.works) + 1) /\ arg \in Nat \ {0}
    /\ DOMAIN numbers \subseteq {x \in DOMAIN program.types : TypeOf(x) \in NumberTypes}
    /\ \A x \in DOMAIN numbers : numbers[x] \in Number
    /\ DOMAIN chars \subseteq {x \in DOMAIN program.types : TypeOf(x) \in CharTypes}
    /\ \A x \in DOMAIN chars :
         chars[x] \in Seq(Char) /\ (TypeOf(x) = "CHAR" => Len(chars[x]) = 1)

-----------------------------------------------------------------------------
(* What the matchers leave to the writer of a program: that reals stay out *)
(* of numeric variables, and the other way round.                          *)

IsReal(opd) == IsVar(opd) /\ TypeOf(opd[2]) = "REAL"
NoPoint(w) == \A k \in 1..Len(w.args) : w.args[k][1] # "point"
SomeReal(w) == \E k \in 1..Len(w.args) : IsReal(w.args[k])
Separates(w) ==
    CASE w.op = "VAR" -> ~Misread(TypeOf(w.name), w.args[2])
      [] w.op \in {"ADD", "MUL"} -> NoPoint(w) /\ (SomeReal(w) => TypeOf(w.name) = "REAL")
      [] w.op \in {"SUB", "DIV"} -> NoPoint(w) /\ (SomeReal(w) <=> TypeOf(w.name) = "REAL")
      [] w.op \in StringOps \cup {"OUT"} -> NoPoint(w)
      [] OTHER -> TRUE
Separated == \A w \in Body : Separates(w)

\* In a program that keeps reals and numerics apart every Number has the tag
\* and the content of its declared type whatever was computed, no bits are
\* read as the other type, and no index turns out to be a real
\* (lang.cpp:158-205, WorkString.cpp:21, 45).
TagsFollowTypes ==
    Separated =>
        /\ \A x \in DOMAIN numbers :
             /\ numbers[x].real = (TypeOf(x) = "REAL")
             /\ numbers[x].dbl = numbers[x].real
        /\ "bits" \notin ub /\ error # "real"

-----------------------------------------------------------------------------
Jumping == \E w \in Body : w.op = "JMP"

\* Without jumps no instruction misses a variable: the order the parser
\* checks is the order of the run (VirtualMachine.cpp:40-54,
\* instruction_impl.cpp:105-136).
FindsVariables == ~Jumping => error # "null"

DeclaredText(x) == {TextOf(w.args[2]) : w \in {v \in Body : Declares(v, x)}}
InText(w) ==
    /\ w.args[1][1] = "const"
    /\ \A text \in DeclaredText(w.name) : w.args[1][2] < Len(text)
StringWorks == {w \in Body : w.op \in StringOps}

\* A program whose indices are below the length of the text its strings are
\* declared with never touches what is outside of a string and is never
\* stopped by the index tests, whatever it writes (WorkString.cpp:16-51,
\* WorkDeclVar.cpp:72-73).
StaysInStrings ==
    (\A w \in StringWorks : InText(w)) => "string" \notin ub /\ error # "range"
=============================================================================

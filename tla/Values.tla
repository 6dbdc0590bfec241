------------------------------- MODULE Values -------------------------------
(***************************************************************************)
(* The objects behind the variables when nothing runs at the same time:    *)
(* the tagged union of Number, String and Char, and the instructions that  *)
(* declare, change and print them.  A long keeps its value, a double only  *)
(* that it is one; a character is its code.                                *)
(***************************************************************************)
EXTENDS RuntimeSteps, Operands

CONSTANTS Programs,  \* the programs: their works, and the types declared
          Char,      \* the codes of the characters
          IntHalf    \* an int is one of  -IntHalf .. IntHalf-1

NUL == 0
ASSUME CharAssumption == NUL \in Char /\ Char \subseteq Nat
ASSUME IntAssumption == IntHalf \in 1 .. Half

VARIABLES program,
          at,       \* the iterator of RuntimeImpl::start
          arg,      \* the operand that ADD, MUL or OUT has reached
          numbers,  \* numberPool, the names that map to an object
          chars,    \* charsPool; an object is the sequence of its characters
          status,   \* running, done, caught
          error,    \* which exception was caught
          ub        \* history of reads and writes with no defined result

vars == <<program, at, arg, numbers, chars, status, error, ub>>

-----------------------------------------------------------------------------
(* Number: the tag, whether the union holds a double, and the long.        *)

Number == [real : BOOLEAN, dbl : BOOLEAN, num : Word]
Long(n) == [real |-> FALSE, dbl |-> FALSE, num |-> n]
Double == [real |-> TRUE, dbl |-> TRUE, num |-> 0]
Bits == [real |-> FALSE, dbl |-> TRUE, num |-> 0]   \* a double in a numeric

\* asNumeric: the bits of a double are some long.
Longs(n) == IF n.dbl THEN Word ELSE {n.num}

\* The lambdas ADD, SUB, MUL and DIV; DIV multiplies.
Arith(op, i, j) ==
    CASE op = "ADD" -> i + j [] op = "SUB" -> i - j [] OTHER -> i * j
Computed(op, a, b) == {Long(Wrap(Arith(op, i, j))) : i \in Longs(a), j \in Longs(b)}

\* Mutated: the tag of the first operand.
ResultsOfFirst(op, a, b) == IF a.real THEN {Double} ELSE Computed(op, a, b)

\* performance(): a real when one of the operands is.
Results(op, a, b) == IF a.real \/ b.real THEN {Double} ELSE Computed(op, a, b)

\* _assign(): the tag stays, and a numeric that is given a real has its bits.
Updates(op, old, n) ==
    IF old.real THEN {Double} ELSE IF n.real THEN {Bits} ELSE Computed(op, old, n)

\* operator==(int): whether a double is zero is left open.
MayBeZero(n) == n.dbl \/ n.num = 0
MayBeOther(n) == n.dbl \/ n.num # 0

-----------------------------------------------------------------------------
(* Declarations.                                                           *)

\* The text of a token of digits: their codes.
Digits[n \in Nat] == IF n < 10 THEN <<48 + n>> ELSE Append(Digits[n \div 10], 48 + (n % 10))
TextOf(lit) ==
    CASE lit[1] = "const" -> Digits[lit[2]]
      [] lit[1] = "char"  -> <<lit[2]>>
      [] OTHER            -> lit[2]

\* The member of the token's union that is read need not be the one written.
NumbersOf(type, lit) ==
    CASE type = "REAL" -> {Double}
      [] type # "REAL" /\ lit[1] = "const"  -> {Long(lit[2])}
      [] type # "REAL" /\ lit[1] = "string" -> {Long(0)}
      [] OTHER -> {Long(n) : n \in Word}
Misread(type, lit) ==
    \/ lit[1] = "point" /\ type = "NUMERIC"
    \/ lit[1] = "const" /\ type = "REAL" /\ lit[2] # 0

\* Mutated: WorkDclVarString given the text with its last character cut off.
CharsOfShort(type, lit) ==
    IF type = "CHAR" THEN {<<c>> : c \in Char}
    ELSE {SubSeq(TextOf(lit), 1, Len(TextOf(lit)) - 1)}

\* WorkDclVarChar initialises its default from itself.
CharsOf(type, lit) == IF type = "CHAR" THEN {<<c>> : c \in Char} ELSE {TextOf(lit)}

-----------------------------------------------------------------------------
Init ==
    /\ program \in Programs
    /\ at = 1 /\ arg = 1
    /\ numbers = <<>> /\ chars = <<>>
    /\ status = "running" /\ error = "" /\ ub = {}

Work == program.works[at]
AtWork(ops) == status = "running" /\ at <= Len(program.works) /\ Work.op \in ops

\* Mutated: the iterator is advanced by the work and by the loop.
NextWorkTwice == at' = at + 2 /\ arg' = 1 /\ UNCHANGED <<status, error>>

NextWork == at' = at + 1 /\ arg' = 1 /\ UNCHANGED <<status, error>>
Throw(what) == status' = "caught" /\ error' = what /\ UNCHANGED <<at, arg>>
Note(tags) == ub' = ub \cup tags
If(tag, condition) == IF condition THEN {tag} ELSE {}

\* Getter<Number>::get: a variable's object, or the number of a literal.
Missing(opd) == IsVar(opd) /\ opd[2] \notin DOMAIN numbers
Operand(opd) ==
    CASE IsVar(opd) -> numbers[opd[2]] [] opd[1] = "const" -> Long(opd[2]) [] OTHER -> Bits
Mixed(n) == n.real # n.dbl
Old == numbers[Work.name]

DeclareNumber ==
    /\ AtWork({"VAR"})
    /\ LET type == Work.args[1][2] lit == Work.args[2]
       IN /\ type \in {"NUMERIC", "REAL"}
          /\ \E n \in NumbersOf(type, lit) : numbers' = Bind(numbers, Work.name, n)
          /\ Note(If("bits", Misread(type, lit)) \cup If("uninit", lit[1] = "char"))
    /\ NextWork /\ UNCHANGED <<program, chars>>

DeclareChars ==
    /\ AtWork({"VAR"})
    /\ LET type == Work.args[1][2] lit == Work.args[2]
       IN /\ type \in {"CHAR", "STRING"}
          /\ \E s \in CharsOf(type, lit) : chars' = Bind(chars, Work.name, s)
          /\ Note(If("uninit", type = "CHAR"))
    /\ NextWork /\ UNCHANGED <<program, numbers>>

-----------------------------------------------------------------------------
(* Arithmetic.                                                             *)

\* WorkAdd and WorkMul, one operand at a time: what an exception leaves
\* behind is the sum of the operands before.
Accumulate ==
    /\ AtWork({"ADD", "MUL"}) /\ arg <= Len(Work.args)
    /\ Work.name \in DOMAIN numbers /\ ~Missing(Work.args[arg])
    /\ LET n == Operand(Work.args[arg])
       IN /\ \E r \in Updates(Work.op, Old, n) : numbers' = [numbers EXCEPT ![Work.name] = r]
          /\ Note(If("bits", Mixed(Old) \/ Mixed(n) \/ (n.real /\ ~Old.real)))
    /\ arg' = arg + 1 /\ UNCHANGED <<program, at, chars, status, error>>
AccumulateFails ==
    /\ AtWork({"ADD", "MUL"})
    /\ \/ Work.name \notin DOMAIN numbers
       \/ arg <= Len(Work.args) /\ Missing(Work.args[arg])
    /\ Throw("null") /\ UNCHANGED <<program, numbers, chars, ub>>
Accumulated ==
    /\ AtWork({"ADD", "MUL"}) /\ Work.name \in DOMAIN numbers /\ arg > Len(Work.args)
    /\ NextWork /\ UNCHANGED <<program, numbers, chars, ub>>

\* WorkSub and WorkDiv: the result's tag replaces the variable's.  A
\* variable without an object is passed over, and DIV does nothing when its
\* dividend is zero.
CombineSkips ==
    /\ AtWork({"SUB", "DIV"}) /\ Work.name \notin DOMAIN numbers
    /\ NextWork /\ UNCHANGED <<program, numbers, chars, ub>>
CombineFails ==
    /\ AtWork({"SUB", "DIV"}) /\ Work.name \in DOMAIN numbers
    /\ Missing(Work.args[1]) \/ Missing(Work.args[2])
    /\ Throw("null") /\ UNCHANGED <<program, numbers, chars, ub>>
Combine ==
    /\ AtWork({"SUB", "DIV"}) /\ Work.name \in DOMAIN numbers
    /\ ~Missing(Work.args[1]) /\ ~Missing(Work.args[2])
    /\ LET a == Operand(Work.args[1]) b == Operand(Work.args[2])
       IN /\ \/ /\ Work.op = "SUB" \/ MayBeOther(a)
                /\ \E r \in Results(Work.op, a, b) : numbers' = [numbers EXCEPT ![Work.name] = r]
             \/ /\ Work.op = "DIV" /\ MayBeZero(a)
                /\ UNCHANGED numbers
          /\ Note(If("bits", Mixed(a) \/ Mixed(b)))
    /\ NextWork /\ UNCHANGED <<program, chars>>

-----------------------------------------------------------------------------
(* Strings and characters.                                                 *)

\* The narrowing of a long to an int.
Narrow(n) == ((n + IntHalf) % (2 * IntHalf)) - IntHalf

\* A string that was not declared, or a character for GET: no effect.
SkipString ==
    /\ AtWork(StringOps)
    /\ \/ Work.name \notin DOMAIN chars
       \/ Work.op = "GET_STR_CHAR" /\ Work.args[2][2] \notin DOMAIN chars
    /\ NextWork /\ UNCHANGED <<program, numbers, chars, ub>>

StringFound ==
    /\ AtWork(StringOps) /\ Work.name \in DOMAIN chars
    /\ Work.op = "GET_STR_CHAR" => Work.args[2][2] \in DOMAIN chars
Index == Operand(Work.args[1])
TooLarge(i) == i > Len(chars[Work.name])

IndexFails ==
    /\ StringFound
    /\ \/ Missing(Work.args[1]) /\ Throw("null") /\ UNCHANGED ub
       \/ /\ ~Missing(Work.args[1])
          /\ \/ Index.real /\ Throw("real")
             \/ ~Index.real /\ (\E i \in Longs(Index) : TooLarge(i)) /\ Throw("range")
          /\ Note(If("bits", Mixed(Index)))
    /\ UNCHANGED <<program, numbers, chars>>

\* The index, as an int, once its tests are passed.
Indices == {Narrow(i) : i \in {j \in Longs(Index) : ~TooLarge(j)}}
Indexed == StringFound /\ ~Missing(Work.args[1]) /\ ~Index.real

NoCharacter == IsVar(Work.args[2]) /\ Work.args[2][2] \notin DOMAIN chars
CharacterFails ==
    /\ Indexed /\ Work.op = "SET_STR_CHAR" /\ Indices # {} /\ NoCharacter
    /\ Note(If("bits", Mixed(Index)))
    /\ Throw("null") /\ UNCHANGED <<program, numbers, chars>>

\* The place of an index in a string; none outside of it.
Spots(s, k) == {k + 1} \cap (1 .. Len(s))

\* setCharAt: at the length, the terminator is overwritten; below zero, what
\* is before the string.
SetChar ==
    /\ Indexed /\ Work.op = "SET_STR_CHAR" /\ ~NoCharacter
    /\ \E k \in Indices :
         LET s == chars[Work.name] spots == Spots(s, k)
             c == IF IsVar(Work.args[2]) THEN chars[Work.args[2][2]][1] ELSE Work.args[2][2]
         IN /\ chars' = [chars EXCEPT ![Work.name] =
                            [p \in 1 .. Len(s) |-> IF p \in spots THEN c ELSE s[p]]]
            /\ Note(If("string", spots = {} /\ ~(k = Len(s) /\ c = NUL))
                    \cup If("bits", Mixed(Index)))
    /\ NextWork /\ UNCHANGED <<program, numbers>>

\* getCharAt: the terminator can be read.
GetChar ==
    /\ Indexed /\ Work.op = "GET_STR_CHAR"
    /\ \E k \in Indices :
         LET s == chars[Work.name] spots == Spots(s, k)
         IN /\ \E c \in (IF spots # {} THEN {s[p] : p \in spots}
                         ELSE IF k = Len(s) THEN {NUL} ELSE Char) :
                 chars' = [chars EXCEPT ![Work.args[2][2]] = <<c>>]
            /\ Note(If("string", spots = {} /\ k # Len(s)) \cup If("bits", Mixed(Index)))
    /\ NextWork /\ UNCHANGED <<program, numbers>>

-----------------------------------------------------------------------------
(* ASSIGN, OUT, JMP and the end.                                           *)

Known(x) == x \in (DOMAIN numbers) \cup (DOMAIN chars)

\* Both sides of an ASSIGN are one variable.
Assign ==
    /\ AtWork({"ASSIGN"})
    /\ \/ Known(Work.name) /\ NextWork
       \/ ~Known(Work.name) /\ Throw("null")
    /\ UNCHANGED <<program, numbers, chars, ub>>

\* One operand of WorkOut.
OutFails ==
    /\ AtWork({"OUT"}) /\ arg <= Len(Work.args)
    /\ IsVar(Work.args[arg]) /\ ~Known(Work.args[arg][2])
    /\ Throw("null") /\ UNCHANGED <<program, numbers, chars, ub>>
Out ==
    /\ AtWork({"OUT"}) /\ arg <= Len(Work.args)
    /\ LET opd == Work.args[arg]
           isNumber == opd[1] \in {"const", "point"} \/ (IsVar(opd) /\ opd[2] \in DOMAIN numbers)
       IN /\ IsVar(opd) => Known(opd[2])
          /\ Note(If("bits", isNumber /\ Mixed(Operand(opd))))
    /\ arg' = arg + 1 /\ UNCHANGED <<program, at, numbers, chars, status, error>>
OutEnds ==
    /\ AtWork({"OUT"}) /\ arg > Len(Work.args)
    /\ NextWork /\ UNCHANGED <<program, numbers, chars, ub>>

Jump ==
    /\ AtWork({"JMP"})
    /\ at' = Work.at[2] + 1 /\ arg' = 1
    /\ UNCHANGED <<program, numbers, chars, status, error, ub>>
Label ==
    /\ AtWork({"LABEL"})
    /\ NextWork /\ UNCHANGED <<program, numbers, chars, ub>>

Finish ==
    /\ status = "running" /\ at > Len(program.works)
    /\ status' = "done"
    /\ UNCHANGED <<program, at, arg, numbers, chars, error, ub>>

Next ==
    \/ DeclareNumber \/ DeclareChars
    \/ Accumulate \/ AccumulateFails \/ Accumulated
    \/ CombineSkips \/ CombineFails \/ Combine
    \/ SkipString \/ IndexFails \/ CharacterFails \/ SetChar \/ GetChar
    \/ Assign \/ OutFails \/ Out \/ OutEnds
    \/ Jump \/ Label \/ Finish

Spec == Init /\ [][Next]_vars
=============================================================================

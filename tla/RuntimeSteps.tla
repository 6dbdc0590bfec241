---------------------------- MODULE RuntimeSteps ----------------------------
(***************************************************************************)
(* The atomic steps a Work's performance() is made of, as other threads    *)
(* see them.  A linked MIS program is a sequence of segments (segment 1 is *)
(* the main program, segment k+1 the body of the k-th THREAD block), a     *)
(* segment is a sequence of works, a work a nonempty sequence of steps.    *)
(*                                                                         *)
(*   alloc     Runtime::allocate                                           *)
(*   target    Runtime::getNumber of the instruction's destination;        *)
(*             how says what a null pointer leads to: "throw" or "skip"    *)
(*   lookup    Runtime::getNumber in a Getter (a null pointer throws)      *)
(*   copy      the Getter's  return *n , after the mutex is released       *)
(*   imm       a Getter of a constant                                      *)
(*   load      the read half of  ref += v  and  ref *= v                   *)
(*   store     the write of the destination; how names the operator        *)
(*   lock, unlock   std::mutex, identified by its place of creation  at    *)
(*   write     one  << on the output stream                                *)
(*   jump      flow = itr when the condition how holds; at is <<vector,    *)
(*             index>>, vector 1 the linked main program, 0 a vector that  *)
(*             no longer exists                                            *)
(*   thread    Runtime::thread running segment at[1]                       *)
(*   barrier   Runtime::barrier                                            *)
(*   nop       a place holder, or the wait of SLEEP                        *)
(***************************************************************************)
EXTENDS Integers, Sequences

CONSTANTS Names,  \* the names of the numeric variables
          Half    \* numbers are the integers of  -Half .. Half-1

ASSUME HalfAssumption == Half \in Nat \ {0}

Word == (-Half) .. (Half - 1)

\* Mutated: a number that never wraps.
WrapNever(n) == n

\* The value a long arithmetic operation leaves in a register.
Wrap(n) == ((n + Half) % (2 * Half)) - Half

Kinds == {"alloc", "target", "lookup", "copy", "imm", "load", "store", "lock",
          "unlock", "write", "jump", "thread", "barrier", "nop"}

\* A step that is about no variable, or whose how says nothing.
Unnamed == ""
Hows == {"throw", "skip", "add", "mul", "sub", "div", "move", "JMP", "JMPZ", "JMPNZ",
         "JMPGT", "JMPLT", "JMPGTE", "JMPLTE", Unnamed}

Step == [kind : Kinds, name : Names \cup {Unnamed}, num : Word, how : Hows,
         at : Nat \X Nat]

\* Steps that name a variable.
Naming == {"alloc", "target", "lookup"}

\* An OUT locks a mutex of its own, writes its operands and unlocks it; the
\* mutexes of LOCK and UNLOCK are other ones.
Writes(work) == \E k \in 1..Len(work) : work[k].kind = "write"
OwnMutex(work, place) ==
    /\ work[1].kind = "lock" /\ work[1].at = place
    /\ work[Len(work)].kind = "unlock" /\ work[Len(work)].at = place
    /\ \A k \in 2..(Len(work) - 1) : work[k].kind \in {"lookup", "copy", "imm", "write"}
OthersMutex(c, work) ==
    \A k \in 1..Len(work) : work[k].kind \in {"lock", "unlock"} =>
        \A g \in 1..Len(c) : \A i \in 1..Len(c[g]) :
            Writes(c[g][i]) => work[k].at # <<g, i>>

\* What the parser and the linkers hand to VirtualMachine::run: a variable is
\* read and written after its own lookup, a child's body is another segment,
\* only the main program starts threads, starting and joining are works of
\* their own, a jump of the main program lands on one of its works and one of
\* a block nowhere, and each OUT has a mutex of its own.
IsCode(c) ==
    /\ c \in Seq(Seq(Seq(Step)))
    /\ Len(c) > 0
    /\ \A g \in 1..Len(c) : \A i \in 1..Len(c[g]) :
         /\ Len(c[g][i]) > 0
         /\ IF Writes(c[g][i]) THEN OwnMutex(c[g][i], <<g, i>>) ELSE OthersMutex(c, c[g][i])
         /\ \A k \in 1..Len(c[g][i]) : LET s == c[g][i][k] IN
              /\ s.kind \in Naming => s.name \in Names
              /\ s.kind = "copy" => k > 1 /\ c[g][i][k - 1].kind = "lookup"
              /\ s.kind \in {"load", "store"} =>
                   \E j \in 1..(k - 1) : c[g][i][j].kind = "target"
              /\ s.kind = "thread" => g = 1 /\ s.at[1] \in 2..Len(c)
              /\ s.kind \in {"thread", "barrier"} => Len(c[g][i]) = 1
              /\ s.kind = "jump" => IF g = 1 THEN s.at[1] = 1 /\ s.at[2] \in 1..Len(c[1])
                                    ELSE s.at[1] = 0
=============================================================================

-------------------------------- MODULE Works --------------------------------
(***************************************************************************)
(* The instructions of MIS: each Work::performance as the sequence of      *)
(* steps it takes.  A work is the record of the line it was built from:    *)
(*   [op, name, args, at]  with name the destination, label or lock, args  *)
(* the operands, and at the mutex, jump target or segment that the linkers *)
(* put in it.                                                              *)
(***************************************************************************)
EXTENDS RuntimeSteps, Operands, SequencesExt

MkStep(kind, name, num, how, at) ==
    [kind |-> kind, name |-> name, num |-> num, how |-> how, at |-> at]
Plain(kind) == MkStep(kind, Unnamed, 0, Unnamed, <<0, 0>>)
Named(kind, name, how) == MkStep(kind, name, 0, how, <<0, 0>>)
Placed(kind, how, at) == MkStep(kind, Unnamed, 0, how, at)

\* The numeric of a literal's token; that of a string is zero.
Value(arg) == IF arg[1] = "const" THEN arg[2] ELSE 0

\* Getter::get of one operand.
Get(arg) == IF IsVar(arg) THEN <<Named("lookup", arg[2], "throw"), Plain("copy")>>
            ELSE <<MkStep("imm", Unnamed, Value(arg), Unnamed, <<0, 0>>)>>

\* WorkDclVarNumber; its arguments are a type and a literal.
DeclareNumber(work) == <<MkStep("alloc", work.name, Value(work.args[2]), Unnamed, <<0, 0>>)>>

\* WorkAdd and WorkMul: the destination is updated once per operand.
Accumulate(work, op) ==
    <<Named("target", work.name, "throw")>> \o
    FlattenSeq([i \in DOMAIN work.args |->
        Get(work.args[i]) \o <<Plain("load"), Placed("store", op, <<0, 0>>)>>])

\* WorkSub and WorkDiv: the second operand is evaluated first.
Combine(work, op) ==
    <<Named("target", work.name, "skip")>> \o Get(work.args[2]) \o
    Get(work.args[1]) \o <<Placed("store", op, <<0, 0>>)>>

\* WorkAssign: the null check looks both variables up, the copy does it again.
Assign(work) ==
    LET from == work.args[1][2]
    IN <<Named("lookup", work.name, "throw"), Named("lookup", from, "throw"),
         Named("target", work.name, "throw")>> \o Get(work.args[1]) \o
       <<Placed("store", "move", <<0, 0>>)>>

\* Mutated: no mutex.
OutUnlocked(work) ==
    FlattenSeq([i \in DOMAIN work.args |-> Get(work.args[i]) \o <<Plain("write")>>])

\* WorkOut: the work's own mutex is held around all its operands.
Out(work) ==
    <<Placed("lock", Unnamed, work.at)>> \o
    FlattenSeq([i \in DOMAIN work.args |-> Get(work.args[i]) \o <<Plain("write")>>]) \o
    <<Placed("unlock", Unnamed, work.at)>>

\* WorkJump, WorkJumpZ and WorkJumpCompare: the operands, the last one first.
Branch(work) ==
    FlattenSeq([i \in DOMAIN work.args |-> Get(work.args[Len(work.args) + 1 - i])]) \o
    <<Placed("jump", work.op, work.at)>>

\* WorkSleep evaluates its operand to learn its type and again to wait.
Sleep(work) == Get(work.args[1]) \o Get(work.args[1]) \o <<Plain("nop")>>

Script(work) ==
    CASE work.op = "VAR"     -> DeclareNumber(work)
      [] work.op = "ADD"     -> Accumulate(work, "add")
      [] work.op = "MUL"     -> Accumulate(work, "mul")
      [] work.op = "SUB"     -> Combine(work, "sub")
      [] work.op = "DIV"     -> Combine(work, "div")
      [] work.op = "ASSIGN"  -> Assign(work)
      [] work.op = "OUT"     -> Out(work)
      [] work.op = "SLEEP"   -> Sleep(work)
      [] work.op \in Jumps   -> Branch(work)
      [] work.op = "LABEL"   -> <<Plain("nop")>>
      [] work.op = "LOCK"    -> <<Placed("lock", Unnamed, work.at)>>
      [] work.op = "UNLOCK"  -> <<Placed("unlock", Unnamed, work.at)>>
      [] work.op = "THREAD"  -> <<Placed("thread", Unnamed, work.at)>>
      [] work.op = "BARRIER" -> <<Plain("barrier")>>
=============================================================================

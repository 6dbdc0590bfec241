-------------------------- MODULE MCVirtualMachine --------------------------
(***************************************************************************)
(* Programs for the virtual machine, built from sources by the model of    *)
(* the linkers.                                                            *)
(***************************************************************************)
EXTENDS RunProperties, Linker

Line(op, name, args) == [op |-> op, name |-> name, args |-> args]
Begin == Line("THREAD_BEGIN", "", <<>>)
End == Line("THREAD_END", "", <<>>)
Wait == Line("BARRIER", "", <<>>)
LockOf(n) == Line("LOCK", ToString(n), <<Const(n)>>)
UnlockOf(n) == Line("UNLOCK", ToString(n), <<Const(n)>>)
Declare(x, n) == Line("VAR", x, <<Typename("NUMERIC"), Const(n)>>)
Add(x, a, b) == Line("ADD", x, <<a, b>>)
Sub(x, a, b) == Line("SUB", x, <<a, b>>)
Div(x, a, b) == Line("DIV", x, <<a, b>>)
Decrement(x) == Sub(x, Var(x), Const(1))
Show(x) == Line("OUT", "", <<Var(x)>>)
ShowTwice(x) == Line("OUT", "", <<Var(x), Const(1)>>)
Label(name) == Line("LABEL", name, <<>>)
Goto(op, label, args) == Line(op, label, args)

\* The sources all of whose lines become works.
Declared(source, i) == FoldLeft(LAMBDA map, line : Declaring(line, map), <<>>, SubSeq(source, 1, i - 1))
AllAccepted(source) == \A i \in DOMAIN source : Accepted(source[i], Declared(source, i))

Linked(source) == LinkAll([i \in DOMAIN source |-> Unit(source[i])])
Build(sources) ==
    {Assemble(l.segs) :
        l \in {r \in {Linked(s) : s \in {z \in sources : AllAccepted(z)}} : r.err = NoError}}
After(prefix, S, n) == {prefix \o s : s \in BoundedSeq(S, n)}

\* Every way to start, join and write around one shared variable, and some
\* to jump inside a block.
ThreadPrograms ==
    Build(After(<<Declare("i", 0)>>, {Begin, End, Wait, Decrement("i"), Show("i")}, 6)
          \cup After(<<Declare("i", 0), Begin, Label("a")>>,
                     {Begin, End, Wait, Goto("JMP", "a", <<>>)}, 4))

\* Declarations anywhere: in a block, or jumped over.
DeclarationPrograms ==
    Build(BoundedSeq({Begin, End, Wait, Declare("i", 1), Add("i", Var("i"), Const(1)),
                      Div("i", Var("i"), Const(1))}, 5)
          \cup After(<<Goto("JMP", "a", <<>>)>>,
                     {Declare("i", 1), Label("a"), Show("i"), Line("SLEEP", "", <<Var("i")>>),
                      Line("ASSIGN", "i", <<Var("i")>>),
                      Line("MUL", "i", <<Var("i"), Const(1)>>),
                      Goto("JMPZ", "a", <<Var("i")>>), Goto("JMPGTE", "a", <<Const(0), Var("i")>>)}, 3))

\* A loop of the main program that starts one block twice.
Twice(body) ==
    <<Declare("i", 0), Declare("n", 2), Label("a"), Begin>> \o body \o
    <<End, Decrement("n"), Goto("JMPGT", "a", <<Var("n"), Const(0)>>), Wait, Show("i")>>
Thrice(line) == [k \in 1..3 |-> line]

\* Two mutexes, one of them locked again: the order of the locks is kept in
\* the first body and not in the others, which may deadlock.
Relocking ==
    {<<LockOf(1), LockOf(2), UnlockOf(2), LockOf(2), UnlockOf(2), UnlockOf(1)>>,
     <<LockOf(1), LockOf(2), UnlockOf(1), LockOf(1), UnlockOf(2), UnlockOf(1)>>,
     <<LockOf(1), LockOf(2), UnlockOf(2), UnlockOf(1), LockOf(2), LockOf(1), UnlockOf(1), UnlockOf(2)>>}
TwicePrograms ==
    Build({Twice(b) : b \in
             (BoundedSeq({LockOf(1), UnlockOf(1), Decrement("i")}, 3) \ {Thrice(Decrement("i"))})
             \cup BoundedSeq({LockOf(1), UnlockOf(1), ShowTwice("i")}, 2)
             \cup {<<LockOf(1), UnlockOf(1), LockOf(1), UnlockOf(1)>>,
                   <<LockOf(1), UnlockOf(1), UnlockOf(1), LockOf(1)>>,
                   <<LockOf(1), LockOf(2), UnlockOf(1), UnlockOf(2)>>,
                   <<LockOf(1), LockOf(2), UnlockOf(2), UnlockOf(1)>>}
             \cup Relocking})

\* Programs that end without a loop: blocks that compete for mutexes and join.
EndingPrograms == Build(BoundedSeq({Begin, End, Wait, LockOf(1), UnlockOf(1)}, 5))

\* Main programs that jump over an UNLOCK, with a mutex of their own, or
\* for ever.
JumpingPrograms ==
    Build({<<LockOf(1), Goto("JMP", "a", <<>>), UnlockOf(1), Label("a"), LockOf(1), UnlockOf(1)>>,
           <<Begin, LockOf(1), UnlockOf(1), End, LockOf(1), Goto("JMP", "a", <<>>), Label("a"),
             UnlockOf(1), Wait>>,
           <<Label("a"), Goto("JMP", "a", <<>>)>>,
           <<Begin, LockOf(1), UnlockOf(1), End, Label("a"), Goto("JMP", "a", <<>>), Wait>>})

SharedPrograms == ThreadPrograms \cup DeclarationPrograms
LockPrograms == TwicePrograms \cup EndingPrograms \cup JumpingPrograms
=============================================================================

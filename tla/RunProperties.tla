---------------------------- MODULE RunProperties ----------------------------
(***************************************************************************)
(* What a run of the virtual machine must satisfy, and the discipline of   *)
(* programs under which it ends well.                                      *)
(***************************************************************************)
EXTENDS VirtualMachine

-----------------------------------------------------------------------------
(* Safety of every program.                                                *)

TypeOK ==
    /\ IsCode(code)
    /\ status \in Statuses
    /\ phase \in [Thread -> Phases]
    /\ pc \in [Thread -> [seg : Nat, itr : Nat, step : Nat]]
    /\ regs \in [Thread -> [ptr : Object, src : Object, tmp : Word, prev : Word, last : Word]]
    /\ pool \in [Names -> Object]
    /\ heap \in [Object -> Word]
    /\ used \in Object
    /\ locked \subseteq Site
    /\ held \in [Thread -> SUBSET Site]
    /\ threads \in Seq(Child)
    /\ th \in Child \cup {None}
    /\ bar \in [Thread -> [j : Nat, lim : Nat, in : BOOLEAN]]
    /\ joined \subseteq Child
    /\ out \in Seq([by : Thread, seg : Nat, itr : Nat, step : Nat, val : Word])
    /\ ub \subseteq {"stream", "threads", "jump", "free", "unlock"}

Over == {"unborn", "ended"}

\* run() returns only when every thread it started has ended: whatever the
\* program forgets to join ends the process instead (VirtualMachine.cpp:34-38,
\* 92-102).
CleanExit == status = "done" => \A u \in Child : phase[u] \in Over

\* A run in which a thread touched an object of the deleted pools never
\* returns to its caller (VirtualMachine.cpp:35 frees before :37 checks).
NoReturnAfterFree == "free" \in ub => status # "done"

\* A pointer is dereferenced only after the null check of its own lookup,
\* and to an object that exists (WorkMath.cpp:27-33, instruction_impl.cpp:36-40).
NoNullDereference ==
    \A t \in Thread :
        /\ AtStep(t, "copy") => regs[t].src \in 1..used
        /\ AtStep(t, "load") \/ AtStep(t, "store") => regs[t].ptr \in 1..used

\* Until some thread unlocks what it does not own, no two threads are between
\* their lock and unlock of one mutex, and a locked mutex has such a thread
\* (WorkMultiThread.cpp:48-68).
MutualExclusion ==
    "unlock" \notin ub =>
        /\ \A t, u \in Thread : t # u => held[t] \cap held[u] = {}
        /\ locked = UNION {held[t] : t \in Thread}

\* The chunks that two threads write by the same OUT work never mix: each
\* thread's operands of one OUT are contiguous among them (WorkOut.cpp:15-18).
SameOut(a, b) == a.seg = b.seg /\ a.itr = b.itr
OutNotInterleaved ==
    \A i, j, k \in 1..Len(out) :
        (i < j /\ j < k /\ SameOut(out[i], out[j]) /\ SameOut(out[j], out[k])
         /\ out[i].by = out[k].by) => out[j].by = out[i].by

\* BARRIER of the main program returns only when every thread started so far
\* has ended and been joined (VirtualMachine.cpp:99-102).
MainLeavesBarrier == bar[Main].j # 0 /\ bar'[Main].j = 0
BarrierJoinsAll ==
    [][MainLeavesBarrier => \A u \in Child : phase[u] \in Over /\ (phase[u] = "ended" => u \in joined)]_vars

\* No threads wait in join() for each other, in a circle of any length: the
\* join that would close it throws (VirtualMachine.cpp:99-102).
Waits(t, u) == AtStep(t, "barrier") /\ JoinsNow(t, u)
NoJoinCycle ==
    \A W \in (SUBSET Thread) \ {{}} :
        \E t \in W : \A u \in W : ~Waits(t, u)

\* The run as the caller sees it.
Active == {u \in Child : phase[u] \in {"live", "wild"}}
Started == {u \in Child : phase[u] # "unborn"}
Call == IF status = "running" THEN "running"
        ELSE IF status = "done" THEN "returned" ELSE "aborted"
FJ == INSTANCE ForkJoin WITH Worker <- Child, active <- Active,
                             started <- Started, call <- Call
IsForkJoin == FJ!FSpec

-----------------------------------------------------------------------------
(* Disciplined programs.                                                   *)

MainWorks == 1..Len(code[1])
Blocks == 2..Len(code)
StepsOf(g, i) == {code[g][i][k] : k \in 1..Len(code[g][i])}
Has(g, i, kind) == \E s \in StepsOf(g, i) : s.kind = kind
Those(g, kind) == {i \in 1..Len(code[g]) : Has(g, i, kind)}
JumpEdges ==
    UNION {{<<i, s.at[2]>> : s \in {r \in StepsOf(1, i) : r.kind = "jump"}} : i \in MainWorks}

\* The names declared on every path to work i of the main program.
DeclaredAt(i) ==
    LET straight == {j \in 1..(i - 1) : \A k \in Those(1, "jump") : j < k}
    IN {s.name : s \in {r \in UNION {StepsOf(1, j) : j \in straight} : r.kind = "alloc"}}
NeededBy(g, i) == {s.name : s \in {r \in StepsOf(g, i) : r.kind \in {"target", "lookup"}}}

\* Every variable is declared, in the main program, before it is used.
Declares ==
    \A i \in MainWorks :
        /\ NeededBy(1, i) \subseteq DeclaredAt(i)
        /\ \A s \in {r \in StepsOf(1, i) : r.kind = "thread"} :
             \A k \in 1..Len(code[s.at[1]]) : NeededBy(s.at[1], k) \subseteq DeclaredAt(i)

\* A block neither jumps nor waits for threads.
PlainBlocks == \A g \in Blocks : Those(g, "jump") = {} /\ Those(g, "barrier") = {}

\* One BARRIER, after every THREAD; no jump crosses it.
JoinsAt(b) ==
    /\ Those(1, "barrier") = {b}
    /\ \A i \in Those(1, "thread") : i < b
    /\ \A e \in JumpEdges : IF e[1] < b THEN e[2] < b ELSE e[2] >= b
JoinsOnce == Those(1, "thread") # {} => \E b \in MainWorks : JoinsAt(b)

\* One OUT writes while threads run: the blocks have one, or the main program.
BlockOuts == UNION {{<<g, i>> : i \in Those(g, "write")} : g \in Blocks}
OneWriter ==
    BlockOuts # {} =>
        /\ \E o \in BlockOuts : BlockOuts = {o}
        /\ \A i \in Those(1, "write") : \A b \in Those(1, "barrier") : i > b

Disciplined == Declares /\ PlainBlocks /\ JoinsOnce /\ OneWriter

\* A disciplined program never ends the process, whatever the schedule, and
\* of the undefined behaviour that ub records meets only an unlock of what it
\* does not own: a run that does more was given a program that breaks the
\* discipline.  ub has neither the races on the value of a Number nor a LOCK of
\* what the thread itself holds, which waits for ever as the mutexes of the
\* build do.
DisciplinedIsSafe ==
    (status \in {"terminated", "crashed"} \/ ~(ub \subseteq {"unlock"})) => ~Disciplined

\* Work i of segment g is LOCK m, it unlocks m, and when it is reached from
\* above its thread holds m.
Locks(g, i, m) == \E s \in StepsOf(g, i) : s.kind = "lock" /\ s.at = m /\ StepsOf(g, i) = {s}
Unlocks(g, i, m) == \E s \in StepsOf(g, i) : s.kind = "unlock" /\ s.at = m
Guarded(g, i, m) == \E j \in 1..(i - 1) : /\ Locks(g, j, m)
                                          /\ \A k \in (j + 1)..(i - 1) : ~Unlocks(g, k, m)

\* The mutexes of segment g, and the pairs of them of which one is held where
\* the other is locked.
MutexesOf(g) ==
    {s.at : s \in {r \in UNION {StepsOf(g, i) : i \in 1..Len(code[g])} :
                      r.kind \in {"lock", "unlock"}}}
Nested(g) ==
    {e \in MutexesOf(g) \X MutexesOf(g) :
        \E i \in 1..Len(code[g]) : Guarded(g, i, e[1]) /\ Locks(g, i, e[2])}
Acyclic(edges, nodes) ==
    \A M \in (SUBSET nodes) \ {{}} : \E n \in M : \A m \in M : <<m, n>> \notin edges

\* Segment g unlocks only what it holds, holds nothing at its end and locks
\* its mutexes in one order.
Ordered(g) ==
    /\ \A m \in MutexesOf(g) :
         /\ ~Guarded(g, Len(code[g]) + 1, m)
         /\ \A i \in 1..Len(code[g]) :
              Unlocks(g, i, m) => Guarded(g, i, m) \/ Has(g, i, "write")
    /\ Acyclic(Nested(g), MutexesOf(g))

\* All segments do, and a main program with jumps has no LOCK or UNLOCK.
LocksInOrder ==
    /\ \A g \in 1..Len(code) : Ordered(g)
    /\ Those(1, "jump") # {} => Those(1, "lock") \cup Those(1, "unlock") \subseteq Those(1, "write")

\* A bound of the model keeps a thread from its next step.
AtBound ==
    \/ \E t \in Thread : AtStep(t, "alloc") /\ used = MaxAllocs
    \/ \E t \in Thread : AtStep(t, "write") /\ Len(out) = MaxOut
    \/ AtStep(Main, "thread") /\ th = None /\ \A u \in Child : phase[u] # "unborn"

\* A disciplined program that locks its mutexes in order runs to its end,
\* whatever the schedule, unless its main program jumps for ever: no thread
\* is left waiting for a mutex or in a join (WorkMultiThread.cpp:48-68,
\* VirtualMachine.cpp:34-38, 92-102).
DisciplinedEnds ==
    <>[](~AtStep(Main, "jump") /\ ~AtBound) =>
        ((Disciplined /\ LocksInOrder) ~> (status = "done"))

-----------------------------------------------------------------------------
(* Counters.                                                               *)

\* Work i of segment g is SUB x,x,1.
Decrements(g, i, x) ==
    LET w == code[g][i]
    IN /\ Len(w) = 5
       /\ w[1].kind = "target" /\ w[1].name = x
       /\ w[2].kind = "imm" /\ w[2].num = 1
       /\ w[3].kind = "lookup" /\ w[3].name = x
       /\ w[4].kind = "copy"
       /\ w[5].kind = "store" /\ w[5].how = "sub"
Changes(g, i, x) == \E s \in StepsOf(g, i) : s.kind \in {"alloc", "target"} /\ s.name = x

\* Work d of the main program declares a variable, once and before any thread
\* starts, and blocks only count it down, holding mutex m.
Counted(d) == code[1][d][1].name
IsCounter(d, m) ==
    /\ Len(code[1][d]) = 1 /\ code[1][d][1].kind = "alloc"
    /\ \A i \in MainWorks : Changes(1, i, Counted(d)) => i = d
    /\ \A i \in Those(1, "thread") : i > d
    /\ \A e \in JumpEdges : e[1] > d /\ e[2] >= d
    /\ \A g \in Blocks : \A i \in 1..Len(code[g]) :
         Changes(g, i, Counted(d)) => Decrements(g, i, Counted(d)) /\ Guarded(g, i, m)
BlockMutexes ==
    {s.at : s \in UNION {UNION {{r \in StepsOf(g, i) : r.kind = "lock"} : i \in 1..Len(code[g])} :
                            g \in Blocks}}

\* The decrements of x that were made so far, each with the thread it is by.
MadeBy(u, x) == {k \in 1..(pc[u].itr - 1) : Decrements(pc[u].seg, k, x)}
Made(x) == UNION {{<<u, i>> : i \in MadeBy(u, x)} : u \in Child}

\* No update made between LOCK and UNLOCK is lost, whatever the schedule: a
\* counter always is what it was declared as less the decrements that were made
\* (WorkMultiThread.cpp:48-68, WorkMath.cpp:38-57, lang.cpp:166-175).
CountsUpdates ==
    ub \cap {"free", "unlock"} = {} =>
        \A d \in Those(1, "alloc") : \A m \in BlockMutexes :
            LET p == pool[Counted(d)]
            IN p # Null /\ IsCounter(d, m) =>
                 heap[p] = Wrap(code[1][d][1].num - Cardinality(Made(Counted(d))))
=============================================================================

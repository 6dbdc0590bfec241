--------------------------- MODULE VirtualMachine ---------------------------
(***************************************************************************)
(* VirtualMachine::run: a RuntimeImpl, its main loop, the threads that the *)
(* program starts on it and its destructor.  Every step of a Work that     *)
(* another thread can observe is an action; the threads interleave freely. *)
(*                                                                         *)
(* Undefined behaviour is recorded in ub, its outcomes are chosen freely,  *)
(* and once it is of a kind that corrupts memory the process may crash.    *)
(***************************************************************************)
EXTENDS RuntimeSteps, FiniteSets

CONSTANTS Programs,    \* the linked programs run() may be given
          MaxThreads,  \* bound on the std::thread objects of one run
          MaxAllocs,   \* bound on the Number objects of one run
          MaxOut       \* bound on the length of the output

ASSUME ProgramsAssumption == \A c \in Programs : IsCode(c)
ASSUME BoundsAssumption == {MaxThreads, MaxAllocs, MaxOut} \subseteq Nat

Main == 0
Child == 1..MaxThreads
Thread == 0..MaxThreads
None == MaxThreads + 1
Null == 0
Object == 0..MaxAllocs
Site == Nat \X Nat

VARIABLES
    code,     \* the works
    status,   \* of the process: running, done, terminated, crashed
    phase,    \* of each thread
    pc,       \* [seg, itr, step]: the iterator of each thread
    regs,     \* what a performance() keeps between two steps
    pool,     \* numberPool: the object of each name
    heap,     \* the value of each Number object
    used,     \* how many Number objects exist
    locked,   \* the std::mutex objects that are locked
    held,     \* history: the mutexes a thread locked and did not unlock
    threads,  \* the vector RuntimeImpl::threads
    th,       \* the local th of Runtime::thread, before the push_back
    bar,      \* [j, lim, in]: the loop of Runtime::barrier in each thread
    joined,   \* the threads whose std::thread is no longer joinable
    out,      \* the chunks written to outstream
    ub        \* history: the kinds of undefined behaviour met

memory == <<pool, heap, used>>
mutexes == <<locked, held>>
family == <<threads, th, bar, joined>>
vars == <<code, status, phase, pc, regs, memory, mutexes, family, out, ub>>

Phases == {"unborn", "live", "wild", "catch", "destroy", "freed", "ended"}
Statuses == {"running", "done", "terminated", "crashed"}
Fatal == {"stream", "threads", "jump", "free"}
Idle == [j |-> 0, lim |-> 0, in |-> FALSE]
NewRegs == [ptr |-> Null, src |-> Null, tmp |-> 0, prev |-> 0, last |-> 0]
Start(seg) == [seg |-> seg, itr |-> 1, step |-> 1]

Init ==
    /\ code \in Programs
    /\ status = "running"
    /\ phase = [t \in Thread |-> IF t = Main THEN "live" ELSE "unborn"]
    /\ pc = [t \in Thread |-> Start(1)]
    /\ regs = [t \in Thread |-> NewRegs]
    /\ pool = [x \in Names |-> Null]
    /\ heap = [p \in Object |-> 0]
    /\ used = 0
    /\ locked = {}
    /\ held = [t \in Thread |-> {}]
    /\ threads = <<>>
    /\ th = None
    /\ bar = [t \in Thread |-> Idle]
    /\ joined = {}
    /\ out = <<>>
    /\ ub = {}

-----------------------------------------------------------------------------
InWork(t) == phase[t] = "live" /\ pc[t].itr <= Len(code[pc[t].seg])
Work(t) == code[pc[t].seg][pc[t].itr]
Cur(t) == Work(t)[pc[t].step]
AtStep(t, kind) == status = "running" /\ InWork(t) /\ Cur(t).kind = kind

\* The loops of start() and of a child: ++itr when the work has returned.
NextStep(p) == [p EXCEPT !.step = p.step + 1]
NextWork(p) == [seg |-> p.seg, itr |-> p.itr + 1, step |-> 1]
GoOn(t) ==
    pc' = [pc EXCEPT ![t] = IF pc[t].step < Len(Work(t)) THEN NextStep(pc[t])
                            ELSE NextWork(pc[t])]

\* A mis_exception: start() catches it, in a child it ends the process.
Throw(t) ==
    /\ IF t = Main THEN phase' = [phase EXCEPT ![t] = "catch"] /\ UNCHANGED status
       ELSE status' = "terminated" /\ UNCHANGED phase
    /\ UNCHANGED <<pc, regs>>

Note(kind, happens) == ub' = IF happens THEN ub \cup {kind} ELSE ub

-----------------------------------------------------------------------------
(* The variables.  The pool is protected by a mutex, the objects are not.  *)

Allocate(t) ==
    /\ AtStep(t, "alloc")
    /\ used < MaxAllocs
    /\ used' = used + 1
    /\ heap' = [heap EXCEPT ![used'] = Cur(t).num]
    /\ pool' = [pool EXCEPT ![Cur(t).name] = used']
    /\ GoOn(t)
    /\ UNCHANGED <<code, status, phase, regs, mutexes, family, out, ub>>

Target(t) ==
    /\ AtStep(t, "target")
    /\ LET p == pool[Cur(t).name] IN
         \/ /\ p # Null
            /\ regs' = [regs EXCEPT ![t].ptr = p]
            /\ GoOn(t)
            /\ UNCHANGED <<status, phase>>
         \/ p = Null /\ Cur(t).how = "throw" /\ Throw(t)
         \/ /\ p = Null /\ Cur(t).how # "throw"
            /\ pc' = [pc EXCEPT ![t] = NextWork(pc[t])]
            /\ UNCHANGED <<status, phase, regs>>
    /\ UNCHANGED <<code, memory, mutexes, family, out, ub>>

\* Mutated: the pointer is not checked.
LookupUnchecked(t) ==
    /\ AtStep(t, "lookup")
    /\ regs' = [regs EXCEPT ![t].src = pool[Cur(t).name]]
    /\ GoOn(t)
    /\ UNCHANGED <<code, status, phase, memory, mutexes, family, out, ub>>

Lookup(t) ==
    /\ AtStep(t, "lookup")
    /\ LET p == pool[Cur(t).name] IN
         \/ /\ p # Null
            /\ regs' = [regs EXCEPT ![t].src = p]
            /\ GoOn(t)
            /\ UNCHANGED <<status, phase>>
         \/ p = Null /\ Throw(t)
    /\ UNCHANGED <<code, memory, mutexes, family, out, ub>>

\* ~RuntimeImpl has deleted the objects of the pools.
Freed == phase[Main] \in {"freed", "ended"}
Read(p) == IF Freed THEN Word ELSE {heap[p]}
Operand(t, v) == regs' = [regs EXCEPT ![t] = [regs[t] EXCEPT !.prev = regs[t].last, !.last = v]]

Copy(t) ==
    /\ AtStep(t, "copy")
    /\ \E v \in Read(regs[t].src) : Operand(t, v)
    /\ Note("free", Freed)
    /\ GoOn(t)
    /\ UNCHANGED <<code, status, phase, memory, mutexes, family, out>>

Immediate(t) ==
    /\ AtStep(t, "imm")
    /\ Operand(t, Cur(t).num)
    /\ GoOn(t)
    /\ UNCHANGED <<code, status, phase, memory, mutexes, family, out, ub>>

Load(t) ==
    /\ AtStep(t, "load")
    /\ \E v \in Read(regs[t].ptr) : regs' = [regs EXCEPT ![t].tmp = v]
    /\ Note("free", Freed)
    /\ GoOn(t)
    /\ UNCHANGED <<code, status, phase, memory, mutexes, family, out>>

\* What the assignment leaves in the destination that held old.  The lambda
\* that operator/ applies multiplies; WorkDiv tests its first operand, the
\* dividend, and leaves the destination alone when that is zero.
Result(how, r, old) ==
    CASE how = "add"  -> Wrap(r.tmp + r.last)
      [] how = "mul"  -> Wrap(r.tmp * r.last)
      [] how = "sub"  -> Wrap(r.last - r.prev)
      [] how = "div"  -> IF r.last = 0 THEN old ELSE Wrap(r.prev * r.last)
      [] how = "move" -> r.last
      [] OTHER -> old

Store(t) ==
    /\ AtStep(t, "store")
    /\ LET p == regs[t].ptr
       IN heap' = IF Freed THEN heap
                  ELSE [heap EXCEPT ![p] = Result(Cur(t).how, regs[t], @)]
    /\ Note("free", Freed)
    /\ GoOn(t)
    /\ UNCHANGED <<code, status, phase, regs, pool, used, mutexes, family, out>>

-----------------------------------------------------------------------------
(* Control flow.                                                           *)

\* WorkJumpZ::performance: its  else if  is reached with nz set as well.
JumpsZ(nz, isZ) == (nz /\ ~isZ) \/ isZ

\* The comparison operators of Number.
Compares(how, a, b) ==
    CASE how = "JMPGT"  -> a > b
      [] how = "JMPLT"  -> a < b
      [] how = "JMPGTE" -> a >= b
      [] OTHER          -> a <= b

Taken(how, r) ==
    CASE how = "JMP"    -> TRUE
      [] how = "JMPZ"   -> JumpsZ(FALSE, r.last = 0)
      [] how = "JMPNZ"  -> JumpsZ(TRUE, r.last = 0)
      [] OTHER          -> Compares(how, r.last, r.prev)

Landing(target) == [seg |-> 1, itr |-> target + 1, step |-> 1]

\* flow = itr, then the ++itr of the loop.  An iterator into a vector that
\* no longer exists takes its thread out of the program.
Jump(t) ==
    /\ AtStep(t, "jump")
    /\ LET s == Cur(t)
           jumps == Taken(s.how, regs[t])
           dangling == jumps /\ s.at[1] = 0
       IN /\ IF jumps /\ ~dangling THEN pc' = [pc EXCEPT ![t] = Landing(s.at[2])]
             ELSE GoOn(t)
          /\ phase' = IF dangling THEN [phase EXCEPT ![t] = "wild"] ELSE phase
          /\ Note("jump", dangling)
    /\ UNCHANGED <<code, status, regs, memory, mutexes, family, out>>

Nop(t) ==
    /\ AtStep(t, "nop")
    /\ GoOn(t)
    /\ UNCHANGED <<code, status, phase, regs, memory, mutexes, family, out, ub>>

\* The end of the works: a child's function returns, start() returns.
Finish(t) ==
    /\ status = "running" /\ phase[t] = "live" /\ ~InWork(t)
    /\ phase' = [phase EXCEPT ![t] = IF t = Main THEN "destroy" ELSE "ended"]
    /\ UNCHANGED <<code, status, pc, regs, memory, mutexes, family, out, ub>>

-----------------------------------------------------------------------------
(* Mutexes and the output.                                                 *)

\* Mutated: a lock that does not wait.
LockUnchecked(t) ==
    /\ AtStep(t, "lock")
    /\ locked' = locked \cup {Cur(t).at}
    /\ held' = [held EXCEPT ![t] = @ \cup {Cur(t).at}]
    /\ GoOn(t)
    /\ UNCHANGED <<code, status, phase, regs, memory, family, out, ub>>

Lock(t) ==
    /\ AtStep(t, "lock")
    /\ Cur(t).at \notin locked
    /\ locked' = locked \cup {Cur(t).at}
    /\ held' = [held EXCEPT ![t] = @ \cup {Cur(t).at}]
    /\ GoOn(t)
    /\ UNCHANGED <<code, status, phase, regs, memory, family, out, ub>>

\* Mutated: the mutex stays locked.
UnlockForgotten(t) ==
    /\ AtStep(t, "unlock")
    /\ held' = [held EXCEPT ![t] = @ \ {Cur(t).at}]
    /\ Note("unlock", Cur(t).at \notin held[t])
    /\ GoOn(t)
    /\ UNCHANGED <<code, status, phase, regs, memory, locked, family, out>>

\* An unlock by a thread that does not own the mutex is undefined; the
\* mutexes of the build release whatever is locked.
Unlock(t) ==
    /\ AtStep(t, "unlock")
    /\ locked' = locked \ {Cur(t).at}
    /\ held' = [held EXCEPT ![t] = @ \ {Cur(t).at}]
    /\ Note("unlock", Cur(t).at \notin held[t])
    /\ GoOn(t)
    /\ UNCHANGED <<code, status, phase, regs, memory, family, out>>

\* Two threads that are both about to write race on the stream: the chunk
\* of one may be lost.
Writing(t) == phase[t] = "catch" \/ (InWork(t) /\ Cur(t).kind = "write")
Emit(t, chunk) ==
    LET races == \E u \in Thread \ {t} : Writing(u)
    IN /\ Len(out) < MaxOut
       /\ \/ out' = Append(out, chunk)
          \/ races /\ out' = out
       /\ Note("stream", races)

Write(t) ==
    /\ AtStep(t, "write")
    /\ Emit(t, [by |-> t, seg |-> pc[t].seg, itr |-> pc[t].itr,
                step |-> pc[t].step, val |-> regs[t].last])
    /\ GoOn(t)
    /\ UNCHANGED <<code, status, phase, regs, memory, mutexes, family>>

\* The catch block of start(); itr 0 marks the error message.
Report(t) ==
    /\ status = "running" /\ phase[t] = "catch"
    /\ Emit(t, [by |-> t, seg |-> 1, itr |-> 0, step |-> 0, val |-> 0])
    /\ phase' = [phase EXCEPT ![t] = "destroy"]
    /\ UNCHANGED <<code, status, pc, regs, memory, mutexes, family>>

-----------------------------------------------------------------------------
(* Threads.                                                                *)

\* Runtime::thread starts the child and then, without a lock, appends it.
Create(t) ==
    /\ AtStep(t, "thread") /\ th = None
    /\ \E u \in Child :
         /\ phase[u] = "unborn"
         /\ \A w \in 1..(u - 1) : phase[w] # "unborn"
         /\ phase' = [phase EXCEPT ![u] = "live"]
         /\ pc' = [pc EXCEPT ![u] = Start(Cur(t).at[1])]
         /\ th' = u
    /\ UNCHANGED <<code, status, regs, memory, mutexes, threads, bar, joined, out, ub>>

Iterating(u) == bar[u].j # 0
PushBack(t) ==
    /\ AtStep(t, "thread") /\ th # None
    /\ threads' = Append(threads, th)
    /\ th' = None
    /\ Note("threads", \E u \in Thread : Iterating(u))
    /\ GoOn(t)
    /\ UNCHANGED <<code, status, phase, regs, memory, mutexes, bar, joined, out>>

\* Mutated: the last thread of the vector is not joined.
BarrierBeginShort(t) ==
    /\ AtStep(t, "barrier") /\ bar[t].j = 0
    /\ bar' = [bar EXCEPT ![t] = [j |-> 1, in |-> FALSE,
                                   lim |-> IF threads = <<>> THEN 0 ELSE Len(threads) - 1]]
    /\ Note("threads", th # None)
    /\ UNCHANGED <<code, status, phase, pc, regs, memory, mutexes, threads, th,
                   joined, out>>

\* The range-for of barrier() takes the vector's bounds once.
BarrierBegin(t) ==
    /\ AtStep(t, "barrier") /\ bar[t].j = 0
    /\ bar' = [bar EXCEPT ![t] = [j |-> 1, lim |-> Len(threads), in |-> FALSE]]
    /\ Note("threads", th # None)
    /\ UNCHANGED <<code, status, phase, pc, regs, memory, mutexes, threads, th,
                   joined, out>>

Joinee(t) == threads[bar[t].j]
JoinsNow(t, u) == bar[t].in /\ Joinee(t) = u
AtJoin(t) == AtStep(t, "barrier") /\ bar[t].j \in 1..bar[t].lim

\* Mutated: a thread may join itself.
JoinEnterSelf(t) ==
    /\ AtJoin(t) /\ ~bar[t].in
    /\ LET u == Joinee(t)
           refused == u \in joined \/ \E w \in Thread : JoinsNow(w, u)
       IN IF refused THEN status' = "terminated" /\ UNCHANGED bar
          ELSE bar' = [bar EXCEPT ![t].in = TRUE] /\ UNCHANGED status
    /\ UNCHANGED <<code, phase, pc, regs, memory, mutexes, threads, th, joined, out, ub>>

\* std::thread::join throws a system_error, which nothing catches, when it
\* would wait for itself or for its joiner, or is not the only join.
JoinEnter(t) ==
    /\ AtJoin(t) /\ ~bar[t].in
    /\ LET u == Joinee(t)
           refused == \/ u = t
                      \/ u \in joined
                      \/ \E w \in Thread : JoinsNow(w, u)
                      \/ JoinsNow(u, t)
       IN IF refused THEN status' = "terminated" /\ UNCHANGED bar
          ELSE bar' = [bar EXCEPT ![t].in = TRUE] /\ UNCHANGED status
    /\ UNCHANGED <<code, phase, pc, regs, memory, mutexes, threads, th, joined, out, ub>>

\* Mutated: join does not wait.
JoinReturnEarly(t) ==
    /\ AtJoin(t) /\ bar[t].in
    /\ joined' = joined \cup {Joinee(t)}
    /\ bar' = [bar EXCEPT ![t] = [j |-> bar[t].j + 1, lim |-> bar[t].lim, in |-> FALSE]]
    /\ UNCHANGED <<code, status, phase, pc, regs, memory, mutexes, threads, th, out, ub>>

JoinReturn(t) ==
    /\ AtJoin(t) /\ bar[t].in
    /\ phase[Joinee(t)] = "ended"
    /\ joined' = joined \cup {Joinee(t)}
    /\ bar' = [bar EXCEPT ![t] = [j |-> bar[t].j + 1, lim |-> bar[t].lim, in |-> FALSE]]
    /\ UNCHANGED <<code, status, phase, pc, regs, memory, mutexes, threads, th, out, ub>>

BarrierEnd(t) ==
    /\ AtStep(t, "barrier") /\ bar[t].j > bar[t].lim
    /\ bar' = [bar EXCEPT ![t] = Idle]
    /\ GoOn(t)
    /\ UNCHANGED <<code, status, phase, regs, memory, mutexes, threads, th, joined, out, ub>>

-----------------------------------------------------------------------------
(* ~RuntimeImpl, and the ways the process ends.                            *)

FreePools(t) ==
    /\ status = "running" /\ phase[t] = "destroy"
    /\ phase' = [phase EXCEPT ![t] = "freed"]
    /\ UNCHANGED <<code, status, pc, regs, memory, mutexes, family, out, ub>>

\* Mutated: the threads were detached.
DeleteDetached(t) ==
    /\ status = "running" /\ phase[t] = "freed"
    /\ status' = "done"
    /\ phase' = [phase EXCEPT ![t] = "ended"]
    /\ UNCHANGED <<code, pc, regs, memory, mutexes, family, out, ub>>

\* Deleting a std::thread that is joinable calls std::terminate.
DeleteThreads(t) ==
    /\ status = "running" /\ phase[t] = "freed"
    /\ status' = IF \A i \in 1..Len(threads) : threads[i] \in joined
                 THEN "done" ELSE "terminated"
    /\ phase' = [phase EXCEPT ![t] = "ended"]
    /\ UNCHANGED <<code, pc, regs, memory, mutexes, family, out, ub>>

Crash ==
    /\ status = "running" /\ ub \cap Fatal # {}
    /\ status' = "crashed"
    /\ UNCHANGED <<code, phase, pc, regs, memory, mutexes, family, out, ub>>

Halted == status # "running" /\ UNCHANGED vars

ThreadStep(t) ==
    \/ Allocate(t) \/ Target(t) \/ Lookup(t) \/ Copy(t) \/ Immediate(t)
    \/ Load(t) \/ Store(t) \/ Jump(t) \/ Nop(t) \/ Finish(t)
    \/ Lock(t) \/ Unlock(t) \/ Write(t) \/ Report(t)
    \/ Create(t) \/ PushBack(t)
    \/ BarrierBegin(t) \/ JoinEnter(t) \/ JoinReturn(t) \/ BarrierEnd(t)
    \/ FreePools(t) \/ DeleteThreads(t)

Next == (\E t \in Thread : ThreadStep(t)) \/ Crash \/ Halted

Spec == Init /\ [][Next]_vars

\* The operating system runs every thread that can run.
FairSpec == Spec /\ \A t \in Thread : WF_vars(ThreadStep(t))
=============================================================================
